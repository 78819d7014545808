------------------------------- MODULE Program -------------------------------
(* The program a processor is loaded into, as the processor sees it through   *)
(* the interposers: files are opened, written to and closed, one at a time or *)
(* several side by side, and opened again.                                    *)
EXTENDS Integers, Sequences, FiniteSetsExt

CONSTANTS
    Files,
    WriteSizes,
    MaxBytes,       \* bound: bytes written to all files, since each was opened
    NULL

ASSUME ProgramAssumption ==
    /\ WriteSizes \subseteq Nat
    /\ MaxBytes \in Nat
    /\ NULL \notin Files

VARIABLES
    live,       \* the files that are open
    sent,       \* how much has been written to each
    overlap,    \* whether the program has several files open at a time
    dead        \* a failed assertion or a bad access has ended the program

programVars == <<live, sent, overlap, dead>>

TotalSent == MapThenSumSet(LAMBDA f : sent[f], Files)

ProgramInit ==
    /\ live = {}
    /\ sent = [f \in Files |-> 0]
    /\ overlap \in BOOLEAN
    /\ dead = FALSE

Opens(f) ==
    /\ ~dead
    /\ f \notin live
    /\ overlap \/ live = {}
    /\ live' = live \cup {f}
    /\ sent' = [sent EXCEPT ![f] = 0]
    /\ UNCHANGED overlap

\* An open that failed. The file hooks are called for it too; exec and finish
\* never are. Isosurf, nek5k, adios and Enzo have no file hook.
Refuses(f) == ~dead /\ f \in Files /\ UNCHANGED <<live, sent, overlap>>

Writes(f, n) ==
    /\ ~dead
    /\ f \in live
    /\ TotalSent + n <= MaxBytes
    /\ sent' = [sent EXCEPT ![f] = @ + n]
    /\ UNCHANGED <<live, overlap>>

Closes(f) ==
    /\ ~dead
    /\ f \in live
    /\ live' = live \ {f}
    /\ UNCHANGED <<sent, overlap>>

=============================================================================
