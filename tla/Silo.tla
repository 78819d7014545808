-------------------------------- MODULE Silo ---------------------------------
(* The silo processor (processors/silo/silo.c): the bytes of a file are       *)
(* gathered in a buffer as large as the grid and put into a Silo file each    *)
(* time it is full. A write may fill the buffer several times: streaming      *)
(* calls itself with what is left, one step here. All state is static, and    *)
(* there is one of it however many files the program has open. silo.cfg is    *)
(* taken to describe one grid size for as long as the program runs.           *)
EXTENDS Program

CONSTANT
    Volume          \* dims[0] * dims[1] * dims[2] * width: the buffer's size in bytes

ASSUME SiloAssumption ==
    /\ Volume \in Nat \ {0}
    /\ NULL \notin [file : Files, from : Nat, n : Nat]

VARIABLES
    slf,        \* the file that the open Silo file is named after, or NULL
    smd,        \* the metadata has been read once, with three dimensions
    data,       \* the buffer, NULL when there is none
    filled,
    call,       \* the streaming call that runs: [file, from, n], or NULL
    dumped      \* what DBPutQuadvar1 was given for the Silo file that is open,
                \* each time under the same name

siloVars == <<slf, smd, data, filled, call, dumped>>

Zeros == [b \in 0 .. Volume - 1 |-> NULL]
SmallerOf(a, b) == IF a < b THEN a ELSE b

\* memcpy of the next n bytes of the call to the buffer, from filled on.
Copied(n) ==
    [b \in 0 .. Volume - 1 |->
        IF filled <= b /\ b < filled + n THEN <<call.file, call.from + (b - filled)>>
        ELSE data[b]]
Rest(n) == [call EXCEPT !.from = @ + n, !.n = @ - n]

SiloInit ==
    /\ ProgramInit
    /\ slf = NULL
    /\ smd = FALSE
    /\ data = NULL
    /\ filled = 0
    /\ call = NULL
    /\ dumped = <<>>

\* file, while a Silo file is open: "Ignoring", and it is.
FileIgnored(f) ==
    /\ call = NULL /\ (Opens(f) \/ Refuses(f))
    /\ slf # NULL
    /\ UNCHANGED <<siloVars, dead>>

\* file: the Silo file is made, or its creation or one of its directories fails,
\* after which it is closed and the other calls are made with NULL; there is
\* memory for the buffer or not; silo.cfg describes three dimensions, or what was
\* read last stays, and if nothing was the mesh is refused.
File(f) ==
    /\ call = NULL /\ (Opens(f) \/ Refuses(f))
    /\ slf = NULL
    /\ \E made, room, three \in BOOLEAN :
          /\ slf' = IF made THEN f ELSE NULL
          /\ smd' = (smd \/ three)
          /\ dead' = ~smd'
          /\ data' = IF room THEN Zeros ELSE data
          /\ filled' = IF room THEN 0 ELSE filled
    /\ dumped' = <<>>
    /\ UNCHANGED call

\* exec: without a Silo file an assertion fails.
Exec(f, n) ==
    /\ call = NULL /\ Writes(f, n)
    /\ IF slf = NULL THEN dead' = TRUE /\ call' = call
       ELSE call' = [file |-> f, from |-> sent[f], n |-> n] /\ dead' = dead
    /\ UNCHANGED <<slf, smd, data, filled, dumped>>

StreamEnd ==
    /\ call # NULL /\ ~dead
    /\ call.n = 0
    /\ call' = NULL
    /\ UNCHANGED <<slf, smd, data, filled, dumped, programVars>>

StreamNowhere ==
    /\ call # NULL /\ ~dead
    /\ call.n > 0
    /\ data = NULL
    /\ dead' = TRUE
    /\ UNCHANGED <<siloVars, live, sent, overlap>>

\* Mutant: what was in the buffer is not counted.
StreamPartSets ==
    /\ call # NULL /\ ~dead
    /\ call.n > 0 /\ data # NULL
    /\ filled + call.n < Volume
    /\ data' = Copied(call.n)
    /\ filled' = call.n
    /\ call' = Rest(call.n)
    /\ UNCHANGED <<slf, smd, dumped, programVars>>

StreamPart ==
    /\ call # NULL /\ ~dead
    /\ call.n > 0 /\ data # NULL
    /\ filled + call.n < Volume
    /\ data' = Copied(call.n)
    /\ filled' = filled + call.n
    /\ call' = Rest(call.n)
    /\ UNCHANGED <<slf, smd, dumped, programVars>>

\* Mutant: filled is not reset before the recursion.
StreamFullKeeps ==
    /\ call # NULL /\ ~dead
    /\ call.n > 0 /\ data # NULL
    /\ filled + call.n >= Volume
    /\ LET mn == SmallerOf(call.n, Volume - filled) IN
       /\ data' = Copied(mn)
       /\ dumped' = Append(dumped, Copied(mn))
       /\ call' = Rest(mn)
    /\ UNCHANGED <<slf, smd, filled, programVars>>

StreamFull ==
    /\ call # NULL /\ ~dead
    /\ call.n > 0 /\ data # NULL
    /\ filled + call.n >= Volume
    /\ LET mn == SmallerOf(call.n, Volume - filled) IN
       /\ data' = Copied(mn)
       /\ dumped' = Append(dumped, Copied(mn))
       /\ call' = Rest(mn)
    /\ filled' = 0
    /\ UNCHANGED <<slf, smd, programVars>>

\* finish closes the Silo file that is open, whichever file it is called for.
SiloFinish(f) ==
    /\ call = NULL /\ Closes(f)
    /\ IF slf = NULL THEN dead' = TRUE /\ UNCHANGED <<slf, data, filled, dumped>>
       ELSE /\ slf' = NULL /\ data' = NULL /\ filled' = 0 /\ dumped' = <<>>
            /\ UNCHANGED dead
    /\ UNCHANGED <<smd, call>>

SiloNext ==
    \/ \E f \in Files : FileIgnored(f) \/ File(f) \/ SiloFinish(f)
    \/ \E f \in Files, n \in WriteSizes : Exec(f, n)
    \/ StreamEnd \/ StreamNowhere \/ StreamPart \/ StreamFull

SiloSpec == SiloInit /\ [][SiloNext]_<<siloVars, programVars>>

-----------------------------------------------------------------------------

\* The file that is open, of a program that has no more than one.
Only == CHOOSE f \in live : TRUE

\* What has been handed on of a file: what was written less what the running
\* call still has.
Handed(f) == IF call = NULL THEN sent[f] ELSE call.from
Base == Len(dumped) * Volume

\* A program with one file open at a time sees the processor as Slabs; nothing
\* is promised to one that overlaps them. The Silo file may be left from an open
\* that failed: the next file's grids go there.
Volumes == INSTANCE Slabs WITH
    S     <- Volume,
    owner <- IF overlap \/ slf = NULL \/ live = {} THEN NULL ELSE Only,
    base  <- IF overlap THEN 0 ELSE Base,
    taken <- IF overlap THEN 0 ELSE filled,
    out   <- IF overlap THEN <<>> ELSE dumped

\* With one file open at a time, each grid handed to Silo is exactly the next
\* piece of that file, for writes of any size, shorter or longer than the buffer
\* or ending where it does, and whichever opens fail (silo.c's streaming, Slabs'
\* specification). It is not said which Silo file the grids are put into.
GridsInOrder == Volumes!SlabsSpec

\* Nothing of an open file is missing: what is not in a grid yet and not still
\* in the running call is in the buffer, in order (streaming's recursion); and
\* the Silo file that a failed open has left is empty, until another file's.
NothingHeldBack ==
    ~overlap /\ ~dead /\ slf # NULL =>
        IF live = {} THEN filled = 0 /\ dumped = <<>>
        ELSE /\ Base + filled = Handed(Only)
             /\ data # NULL =>
                  \A b \in 0 .. filled - 1 : data[b] = <<Only, Base + b>>

=============================================================================
