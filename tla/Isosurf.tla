------------------------------- MODULE Isosurf -------------------------------
(* The isosurf processor (processors/isosurf/isosurf.c): the bytes of a file   *)
(* are gathered in one of two buffers, each as large as a slice. When it is    *)
(* full a layer is run between the other buffer, the slice before, and this   *)
(* one, and the buffers change roles. The slice before the first is zeros.    *)
(* exec calls itself with what is left of a write, one step here; there is no *)
(* file hook, the first write sets everything up. finish frees the buffers    *)
(* and then clears the first of them: the program does not survive it.        *)
EXTENDS Program

CONSTANT
    Slice           \* dims[0] * dims[1] * sizeof(uint16_t), in bytes

ASSUME IsosurfAssumption ==
    /\ Slice \in Nat \ {0}
    /\ Slice % 2 = 0
    /\ NULL \notin [file : Files, from : Nat, n : Nat]

VARIABLES
    mc,         \* whether the processor is set up, and of which file the first write was
    buffer,     \* data[0] and data[1]
    active,     \* the one being filled
    gathered,   \* filled: how many bytes of it
    write,      \* the exec call that runs: [file, from, n], or NULL
    layers      \* the front and back slices mc->run was given

isoVars == <<mc, buffer, active, gathered, write, layers>>

Blank == [b \in 0 .. Slice - 1 |-> NULL]
Least(a, b) == IF a < b THEN a ELSE b

\* memcpy to data[active] + filled/2, an address in units of two bytes.
Gathered(n) ==
    LET start == 2 * (gathered \div 2) IN
    [buffer EXCEPT ![active] =
        [b \in 0 .. Slice - 1 |->
            IF start <= b /\ b < start + n THEN <<write.file, write.from + (b - start)>>
            ELSE @[b]]]
Left(n) == [write EXCEPT !.from = @ + n, !.n = @ - n]

IsosurfInit ==
    /\ ProgramInit
    /\ mc = NULL
    /\ buffer = [k \in 0 .. 1 |-> Blank]
    /\ active = 1
    /\ gathered = 0
    /\ write = NULL
    /\ layers = <<>>

IsosurfOpen(f) ==
    /\ write = NULL /\ Opens(f)
    /\ UNCHANGED <<isoVars, dead>>

\* exec is entered: a write of no bytes is ignored, the first other one sets up.
IsosurfExec(f, n) ==
    /\ write = NULL /\ Writes(f, n)
    /\ IF n = 0 THEN UNCHANGED <<mc, write>>
       ELSE /\ mc' = IF mc = NULL THEN f ELSE mc
            /\ write' = [file |-> f, from |-> sent[f], n |-> n]
    /\ UNCHANGED <<buffer, active, gathered, layers, dead>>

ExecEnd ==
    /\ write # NULL
    /\ write.n = 0
    /\ write' = NULL
    /\ UNCHANGED <<mc, buffer, active, gathered, layers, programVars>>

ExecPart ==
    /\ write # NULL
    /\ write.n > 0
    /\ gathered + write.n < Slice
    /\ buffer' = Gathered(write.n)
    /\ gathered' = gathered + write.n
    /\ write' = Left(write.n)
    /\ UNCHANGED <<mc, active, layers, programVars>>

\* Mutants: what is skipped is computed after filled is reset; the buffers do
\* not change roles.
ExecRunSkipsLate ==
    /\ write # NULL
    /\ write.n > 0
    /\ gathered + write.n >= Slice
    /\ buffer' = Gathered(Least(write.n, Slice - gathered))
    /\ layers' = Append(layers, <<buffer'[1 - active], buffer'[active]>>)
    /\ write' = Left(Least(write.n, Slice))
    /\ active' = 1 - active
    /\ gathered' = 0
    /\ UNCHANGED <<mc, programVars>>

ExecRunNoFlip ==
    /\ write # NULL
    /\ write.n > 0
    /\ gathered + write.n >= Slice
    /\ LET mn == Least(write.n, Slice - gathered) IN
       /\ buffer' = Gathered(mn)
       /\ layers' = Append(layers, <<buffer'[1 - active], buffer'[active]>>)
       /\ write' = Left(mn)
    /\ gathered' = 0
    /\ UNCHANGED <<mc, active, programVars>>

ExecRun ==
    /\ write # NULL
    /\ write.n > 0
    /\ gathered + write.n >= Slice
    /\ LET mn == Least(write.n, Slice - gathered) IN
       /\ buffer' = Gathered(mn)
       /\ layers' = Append(layers, <<buffer'[1 - active], buffer'[active]>>)
       /\ write' = Left(mn)
    /\ active' = 1 - active
    /\ gathered' = 0
    /\ UNCHANGED <<mc, programVars>>

\* finish, of whichever file: with or without a set-up processor its last or its
\* first access is to address zero.
IsosurfFinish(f) ==
    /\ write = NULL /\ Closes(f)
    /\ dead' = TRUE
    /\ UNCHANGED isoVars

IsosurfNext ==
    \/ \E f \in Files : IsosurfOpen(f) \/ IsosurfFinish(f)
    \/ \E f \in Files, n \in WriteSizes : IsosurfExec(f, n)
    \/ ExecEnd \/ ExecPart \/ ExecRun

IsosurfSpec == IsosurfInit /\ [][IsosurfNext]_<<isoVars, programVars>>

-----------------------------------------------------------------------------

\* The slices: to a program with one file open at a time the processor is Slabs.
Slices == INSTANCE Slabs WITH
    S     <- Slice,
    owner <- IF overlap THEN NULL ELSE mc,
    base  <- IF overlap THEN 0 ELSE Len(layers) * Slice,
    taken <- IF overlap THEN 0 ELSE gathered,
    out   <- IF overlap THEN <<>> ELSE [k \in DOMAIN layers |-> layers[k][2]]

\* With one file open at a time, the back slice of each layer is exactly the
\* next piece of the file, for writes of any even size (isosurf.c's exec).
SlicesInOrder == Slices!SlabsSpec

\* A layer's front is the back of the layer before, and zeros before the first
\* (the flip of active; what is being gathered must not reach the front).
FrontIsLastBack ==
    /\ \A k \in DOMAIN layers :
          layers[k][1] = IF k = 1 THEN Blank ELSE layers[k - 1][2]
    /\ Len(layers) > 0 => buffer[1 - active] = layers[Len(layers)][2]

=============================================================================
