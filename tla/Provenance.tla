----------------------------- MODULE Provenance ------------------------------
(* The provenance processor (processors/provenance/trackdata.c): a list of    *)
(* the names seen, and a line in a log for each new one under a directory     *)
(* called data. The count goes up before the list has grown, and stays when   *)
(* the destructor has freed the list.                                         *)
EXTENDS Program

CONSTANTS
    Tracked,        \* the files whose path has "data" in it
    MaxNames        \* bound: calls of append

VARIABLES
    names,      \* list: as long as what has been allocated; NULL once freed.
                \* An entry is a file, NULL, or Junk when nothing was stored
    nstr,
    log         \* the log's lines

provenanceVars == <<names, nstr, log>>

Junk == "junk"

Listed(f) == names # NULL /\ \E i \in DOMAIN names : names[i] = f
Entry(i) == IF i \in DOMAIN names THEN names[i] ELSE Junk

ProvenanceInit ==
    /\ ProgramInit
    /\ names = <<>>
    /\ nstr = 0
    /\ log = <<>>

\* unique finds the name, or takes what is in an entry never stored for it.
Found(f) ==
    \E i \in 1 .. nstr : Entry(i) \in {f, Junk} /\ \A j \in 1 .. i - 1 : Entry(j) # NULL

\* Mutant: unique leaves out the last entry.
NewUnlessLast(f) == \A i \in 1 .. nstr - 1 : Entry(i) \notin {f, NULL}

\* unique gets past every entry; what is in one never stored is another name.
New(f) == \A i \in 1 .. nstr : Entry(i) \notin {f, NULL}

\* file: the name has no path, as that of a file that could not be opened, or
\* unique reads a NULL or an entry that is not there.
ProvenanceFails(f) ==
    /\ Opens(f) \/ Refuses(f)
    /\ dead' = TRUE
    /\ UNCHANGED provenanceVars

\* file: not tracked, or unique finds it.
ProvenanceSkip(f) ==
    /\ Opens(f) \/ Refuses(f)
    /\ f \notin Tracked \/ (names # NULL /\ Found(f))
    /\ UNCHANGED <<provenanceVars, dead>>

\* file: append. Without memory for the list only the count has changed; without
\* memory for the name the entry is NULL and the line is written all the same;
\* without the time or the log there is no line.
ProvenanceAppend(f) ==
    /\ Opens(f) \/ Refuses(f)
    /\ f \in Tracked /\ nstr < MaxNames
    /\ names # NULL /\ New(f)
    /\ nstr' = nstr + 1
    /\ \/ UNCHANGED <<names, log>>
       \/ /\ \E stored \in {f, NULL} :
                names' = [i \in 1 .. nstr + 1 |-> IF i = nstr + 1 THEN stored ELSE Entry(i)]
          /\ log' \in {log, Append(log, f)}
    /\ UNCHANGED dead

ProvenanceClose(f) == Closes(f) /\ UNCHANGED <<provenanceVars, dead>>

\* cleanup_list at exit, after which other destructors may still open files: the
\* entries up to nstr are freed, which may fail when they are not all stored.
ProvenanceCleanup ==
    /\ ~dead
    /\ names # NULL
    /\ names' = IF nstr = 0 THEN <<>> ELSE NULL
    /\ dead' \in {FALSE, \E i \in 1 .. nstr : Entry(i) = Junk}
    /\ UNCHANGED <<nstr, log, live, sent, overlap>>

ProvenanceNext ==
    \/ \E f \in Files : \/ ProvenanceSkip(f) \/ ProvenanceFails(f)
                        \/ ProvenanceAppend(f) \/ ProvenanceClose(f)
    \/ ProvenanceCleanup

ProvenanceSpec ==
    ProvenanceInit /\ [][ProvenanceNext]_<<programVars, provenanceVars>>

-----------------------------------------------------------------------------

\* A file is in the log at most once in a process, however often it is opened
\* and whatever allocation fails, and until the list is freed it is remembered,
\* or nothing more is logged: a name that could not be copied was the last
\* (trackdata.c's unique and append).
LoggedOnce ==
    /\ \A i, j \in DOMAIN log : log[i] = log[j] => i = j
    /\ names # NULL =>
         \A i \in DOMAIN log :
            Listed(log[i]) \/ (i = Len(log) /\ \E k \in DOMAIN names : names[k] = NULL)

=============================================================================
