------------------------------- MODULE Writers -------------------------------
(* Two processors that write what passes through them elsewhere: adios        *)
(* (processors/adios/adios.mpi.c), with one descriptor for all files, opened  *)
(* by the first write after a finish and named after that write's file; and   *)
(* Enzo's (enzo.mpi.c), which puts each write into the first of a rank's       *)
(* numbered files that does not exist yet, left over from earlier jobs or not. *)
EXTENDS Program

CONSTANTS
    Basename,       \* the last part of each file's path
    Tries           \* bound: stands for Enzo's 64 file names

ASSUME WritersAssumption ==
    /\ Tries \in Nat
    /\ DOMAIN Basename = Files
    /\ <<>> \notin Files /\ NULL \notin Nat

VARIABLES
    fdes,       \* adios: the file its output is named after, NULL or Nowhere
    output,     \* adios: pairs of the file written to and the output's name
    dumps,      \* Enzo: which write is in each of the rank's files, Earlier for
                \* one that an earlier job left, NULL if the file is not there
    writes      \* history: how many writes Enzo was called with

writersVars == <<fdes, output, dumps, writes>>

Earlier == 0
Nowhere == <<>>     \* the descriptor 0 that adios_open may leave

WritersInit ==
    /\ ProgramInit
    /\ fdes = NULL
    /\ output = {}
    /\ dumps \in [0 .. Tries - 1 -> {NULL, Earlier}]
    /\ writes = 0

WritersOpen(f) == Opens(f) /\ UNCHANGED <<writersVars, dead>>

\* exec: an open that fails leaves the descriptor or makes it 0. What is written
\* to no output is lost.
AdiosExec(f, n) ==
    /\ Writes(f, n)
    /\ fdes' \in IF fdes = NULL THEN {f, NULL, Nowhere} ELSE {fdes}
    /\ output' = IF fdes' \in Files THEN output \cup {<<f, Basename[fdes']>>} ELSE output
    /\ UNCHANGED <<dumps, writes, dead>>

\* Mutant: the descriptor is closed and kept.
AdiosFinishKeeps(f) == Closes(f) /\ UNCHANGED <<writersVars, dead>>

\* finish closes the descriptor, whichever file it is called for.
AdiosFinish(f) ==
    /\ Closes(f)
    /\ fdes' = NULL
    /\ UNCHANGED <<output, dumps, writes, dead>>

\* Mutant: files are opened without 'x'.
EnzoSlotAny == 0 .. Tries - 1

\* The names whose file fopen can make: 'x' fails on the others, and nothing
\* else does.
EnzoSlot == {i \in 0 .. Tries - 1 : dumps[i] = NULL}

\* exec: the first of them, or, when none is left, nothing.
EnzoExec(f, n) ==
    /\ Writes(f, n)
    /\ writes <= Tries      \* bound: by then no name is left
    /\ writes' = writes + 1
    /\ dumps' = IF EnzoSlot = {} THEN dumps
                ELSE [dumps EXCEPT ![CHOOSE i \in EnzoSlot : \A j \in EnzoSlot : i <= j] = writes']
    /\ UNCHANGED <<fdes, output, dead>>

EnzoFinish(f) == Closes(f) /\ UNCHANGED <<writersVars, dead>>

AdiosNext == \E f \in Files :
    WritersOpen(f) \/ AdiosFinish(f) \/ \E n \in WriteSizes : AdiosExec(f, n)
EnzoNext == \E f \in Files :
    WritersOpen(f) \/ EnzoFinish(f) \/ \E n \in WriteSizes : EnzoExec(f, n)

AdiosSpec == WritersInit /\ [][AdiosNext]_<<programVars, writersVars>>
EnzoSpec == WritersInit /\ [][EnzoNext]_<<programVars, writersVars>>

-----------------------------------------------------------------------------

\* With one file open at a time, what is written to a file goes to the output
\* named after it or nowhere (adios.mpi.c's one descriptor).
OutputOfItsFile == ~overlap => \A o \in output : o[2] = Basename[o[1]]

Own(i) == dumps[i] # NULL /\ dumps[i] # Earlier

\* The job's writes are in the rank's files in the order in which they were made,
\* each in one, whatever earlier jobs have left, and none is missing until the
\* names run out (enzo.mpi.c's search for a file that is not there).
DumpsInOrder ==
    /\ \A i, j \in 0 .. Tries - 1 : i < j /\ Own(i) /\ Own(j) => dumps[i] < dumps[j]
    /\ \A k \in 1 .. writes :
          \/ \E i \in 0 .. Tries - 1 : dumps[i] = k
          \/ /\ \A i \in 0 .. Tries - 1 : dumps[i] # NULL
             /\ \A i \in 0 .. Tries - 1 : Own(i) => dumps[i] < k

=============================================================================
