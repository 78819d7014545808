------------------------------- MODULE Fproc -------------------------------
(***************************************************************************)
(* The processor table of the symbiont (fproc.c): which processing         *)
(* libraries 'situ.cfg' installs, which of them a file name reaches, and    *)
(* how the table is taken down when the process exits.                      *)
(*                                                                         *)
(* The table is shared by every interposer (stdio, POSIX, HDF5); they read  *)
(* it through the dispatch loops file(), stream(), metadata() and finish(), *)
(* whose common scan stops at the first entry without a pattern.            *)
(***************************************************************************)
EXTENDS Naturals, FiniteSets, Sequences

CONSTANTS
    Pattern,        \* the patterns a configuration may name
    Lib,            \* the libraries a configuration may name
    Name,           \* the file names the program uses
    Glob,           \* the pairs <<pattern, name>> fnmatch accepts
    Loadable,       \* the libraries dlopen can load
    Exports,        \* the entry points each library defines
    Configs,        \* the configuration files considered, as lines
    MAX_FREEPROCS,  \* the size of the table
    NULL

Hook == {"exec", "file", "finish", "metadata"}

(***************************************************************************)
(* One call of fscanf: a line that parses, a line whose text ends before    *)
(* its closing brace, or text that is no line at all.                       *)
(***************************************************************************)
Line == [form : {"whole", "cut", "bad"}, pattern : Pattern, lib : Lib]

Entry == 1..MAX_FREEPROCS

ASSUME FprocAssumption ==
    /\ MAX_FREEPROCS \in Nat \ {0}
    /\ NULL \notin Pattern \cup Lib \cup Name
    /\ Glob \subseteq Pattern \X Name
    /\ Loadable \subseteq Lib
    /\ Exports \in [Lib -> SUBSET Hook]
    /\ Configs \subseteq Seq(Line)

VARIABLES
    cfg,     \* the configuration file; <<>> stands for a missing one too
    phase,   \* what the loader is doing
    i,       \* the loop index of load_processors and unload_processors
    tlibs,   \* the table: the pattern and the library of each entry
    refs     \* the lines of cfg whose dlopen reference has not been returned

fprocVars == <<cfg, phase, i, tlibs, refs>>

NoProc == [pattern |-> NULL, lib |-> NULL]

FprocTypeOK ==
    /\ cfg \in Configs
    /\ phase \in {"loading", "running", "unloading", "closing", "done"}
    /\ i \in 1..(MAX_FREEPROCS + 1)
    /\ tlibs \in [Entry -> [pattern : Pattern \cup {NULL}, lib : Lib \cup {NULL}]]
    /\ refs \subseteq Nat

FprocInit ==
    /\ cfg \in Configs
    /\ phase = "loading"
    /\ i = 1
    /\ tlibs = [e \in Entry |-> NoProc]
    /\ refs = {}

-----------------------------------------------------------------------------
(* Dispatch. *)

(***************************************************************************)
(* dlopen counts references by library name, so a library stays mapped as   *)
(* long as one of the lines that named it still holds a reference.          *)
(***************************************************************************)
Mapped(lib) == \E k \in refs : cfg[k].lib = lib

(* The entries a scan visits: those before the first one without a pattern. *)
Visible == {e \in Entry : \A d \in 1..e : tlibs[d].pattern # NULL}

patternmatch(e, name) == <<tlibs[e].pattern, name>> \in Glob

matches(name) == \E e \in Visible : patternmatch(e, name)

(***************************************************************************)
(* The entries file(), stream(), metadata() or finish() call for name; the  *)
(* loops call them in the order of the table.                               *)
(***************************************************************************)
Called(hook, name) ==
    {e \in Visible : patternmatch(e, name) /\ hook \in Exports[tlibs[e].lib]}

-----------------------------------------------------------------------------
(* Loading. *)

Full == i > MAX_FREEPROCS
AtEnd == i > Len(cfg)

(* The file ends inside the line load_processor has just read. *)
Truncated(k) == cfg[k].form = "cut" /\ k = Len(cfg)

(* load_processor opens the library the line names. *)
Opens(k) == cfg[k].form # "bad" /\ cfg[k].lib \in Loadable

(* ... and load_processors keeps the entry it made of the line. *)
Good(k) == Opens(k) /\ "exec" \in Exports[cfg[k].lib] /\ ~Truncated(k)

LoadEntry ==
    /\ phase = "loading" /\ ~Full /\ ~AtEnd
    /\ Good(i)
    /\ tlibs' = [tlibs EXCEPT ![i] = [pattern |-> cfg[i].pattern, lib |-> cfg[i].lib]]
    /\ refs' = refs \cup {i}
    /\ i' = i + 1
    /\ UNCHANGED <<cfg, phase>>

(***************************************************************************)
(* The first line that gives no entry ends the loop.  When its library was  *)
(* opened before the line was turned down, nobody closes the library.       *)
(***************************************************************************)
LoadGiveUp ==
    /\ phase = "loading" /\ ~Full /\ ~AtEnd
    /\ ~Good(i)
    /\ phase' = "running"
    /\ refs' = IF Opens(i) THEN refs \cup {i} ELSE refs
    /\ UNCHANGED <<cfg, i, tlibs>>

LoadEnd ==
    /\ phase = "loading"
    /\ Full \/ AtEnd
    /\ phase' = "running"
    /\ UNCHANGED <<cfg, i, tlibs, refs>>

-----------------------------------------------------------------------------
(* Unloading: free_processors, the symbiont's destructor. *)

UnloadBegin ==
    /\ phase = "running"
    /\ phase' = "unloading"
    /\ i' = 1
    /\ UNCHANGED <<cfg, tlibs, refs>>

UnloadSkip ==
    /\ phase = "unloading" /\ ~Full
    /\ tlibs[i].pattern = NULL
    /\ i' = i + 1
    /\ UNCHANGED <<cfg, phase, tlibs, refs>>

(* dlclose is called; the library's own destructors may run inside it. *)
UnloadClose ==
    /\ phase = "unloading" /\ ~Full
    /\ tlibs[i].pattern # NULL
    /\ phase' = "closing"
    /\ UNCHANGED <<cfg, i, tlibs, refs>>

(* Mutants of UnloadFree. *)

FreeKeepsPattern ==     \* the pattern is freed but not reset
    /\ phase = "closing"
    /\ refs' = refs \ {i}
    /\ phase' = "unloading"
    /\ i' = i + 1
    /\ UNCHANGED <<cfg, tlibs>>

FreeWithoutClose ==     \* the entry is cleared and its library never closed
    /\ phase = "closing"
    /\ tlibs' = [tlibs EXCEPT ![i].pattern = NULL]
    /\ phase' = "unloading"
    /\ i' = i + 1
    /\ UNCHANGED <<cfg, refs>>

(* dlclose returns: the reference is gone and the pattern is freed. *)
UnloadFree ==
    /\ phase = "closing"
    /\ refs' = refs \ {i}
    /\ tlibs' = [tlibs EXCEPT ![i].pattern = NULL]
    /\ phase' = "unloading"
    /\ i' = i + 1
    /\ UNCHANGED cfg

UnloadEnd ==
    /\ phase = "unloading" /\ Full
    /\ phase' = "done"
    /\ UNCHANGED <<cfg, i, tlibs, refs>>

Load == LoadEntry \/ LoadGiveUp \/ LoadEnd

Unload == UnloadSkip \/ UnloadClose \/ UnloadFree \/ UnloadEnd

FprocNext == Load \/ UnloadBegin \/ Unload

FprocSpec == FprocInit /\ [][FprocNext]_fprocVars

-----------------------------------------------------------------------------
(* The table as Tee's processors see it. *)

Stage == CASE phase = "loading" -> "starting"
           [] phase = "running" -> "running"
           [] OTHER -> "ending"

Listening == [h \in {"file", "exec", "finish"} |-> [n \in Name |-> Called(h, n)]]

-----------------------------------------------------------------------------
(* Properties. *)

(***************************************************************************)
(* Whatever the phase, an entry that a dispatch can reach has its library   *)
(* mapped: no hook is called through a pointer dlclose has invalidated,     *)
(* although entries share libraries and the table is cleared one entry at a *)
(* time while destructors may call back.                                    *)
(***************************************************************************)
VisibleMapped == \A e \in Visible : Mapped(tlibs[e].lib)

(***************************************************************************)
(* The program runs with exactly the longest prefix of the configuration    *)
(* that could be installed, each line at its own index.                     *)
(***************************************************************************)
LongestPrefix ==
    phase = "running" =>
        \A e \in Entry :
            IF e <= Len(cfg) /\ \A k \in 1..e : Good(k)
            THEN tlibs[e] = [pattern |-> cfg[e].pattern, lib |-> cfg[e].lib]
            ELSE tlibs[e] = NoProc

(***************************************************************************)
(* A dispatch is all or nothing: it reaches every entry that still has a    *)
(* pattern, or, once the first one has been taken down, none of them.  A    *)
(* scan never sees part of a half-cleared table.                            *)
(***************************************************************************)
AllOrNothing ==
    Visible \in {{}, {e \in Entry : tlibs[e].pattern # NULL}}

(***************************************************************************)
(* What fproc.c's dispatch loops need of unload_processors (119-132): a scan   *)
(* at any moment of loading and unloading meets every installed processor or *)
(* none, and none whose library is gone.                                    *)
(***************************************************************************)
DispatchSafe == VisibleMapped /\ AllOrNothing

(***************************************************************************)
(* At exit every reference dlopen gave has been returned, save at most that *)
(* of the one line on which loading gave up.                                *)
(***************************************************************************)
ReferencesReturned ==
    phase = "done" =>
        \A k \in refs : ~Good(k) /\ \A j \in 1..(k - 1) : Good(j)

(***************************************************************************)
(* What load_processors gives up on (fproc.c:80-110) is left out as a whole:  *)
(* what is before it runs, nothing behind it does, and of all libraries only *)
(* its own can outlive unload_processors.  This is the code's idea of a line *)
(* to give up on; ValidInstalled has the comment's.                          *)
(***************************************************************************)
TableRight == LongestPrefix /\ ReferencesReturned

(***************************************************************************)
(* fproc.c:59-61: not to define exec is "a bit weird.  but, still valid;      *)
(* maybe they only care about metadata": as long as every line is whole and  *)
(* its library can be loaded, every line that fits the table is installed.   *)
(***************************************************************************)
ValidInstalled ==
    phase = "running" =>
        \A e \in Entry :
            e <= Len(cfg) /\ (\A k \in 1..e : Opens(k) /\ ~Truncated(k)) =>
                tlibs[e] = [pattern |-> cfg[e].pattern, lib |-> cfg[e].lib]

=============================================================================
