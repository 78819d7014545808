-------------------------------- MODULE Nek5k --------------------------------
(* The nek5000 processor (nek5k.mpi.c): each write of the size of a field is   *)
(* turned into an image named after its time step and its number in the step, *)
(* five of them, of which the last is not drawn. Writes of other sizes pass.   *)
(* The counters and the drawing buffer are static: a file that ends in the    *)
(* middle of a step leaves the rest of the step to the next file. The images   *)
(* are one process's: no rank is in their names, and the ranks of a job draw  *)
(* over each other's.                                                         *)
EXTENDS Program

CONSTANTS
    FieldBytes,     \* dims[0] * dims[1] * dims[2] * sizeof(float)
    OtherSizes,     \* sizes of writes that are not fields
    MaxSteps        \* bound: time steps

ASSUME NekAssumption == FieldBytes \in Nat /\ OtherSizes \subseteq Nat \ {FieldBytes}

VARIABLES
    quant,      \* whether the buffer is allocated
    ts, fld,
    images,     \* the images, in order: [ts, fld, file]
    fields,     \* history: how many fields each file has written since it was opened
    broken      \* history: a file was closed in the middle of a step

nekVars == <<quant, ts, fld, images, fields, broken>>

PerStep == 5
BlankField == 4     \* "4 is always blank, it seems."

NekInit ==
    /\ ProgramInit
    /\ quant = FALSE
    /\ ts = 0 /\ fld = 0
    /\ images = <<>>
    /\ fields = [f \in Files |-> 0]
    /\ broken = FALSE

NekOpen(f) ==
    /\ Opens(f)
    /\ fields' = [fields EXCEPT ![f] = 0]
    /\ UNCHANGED <<quant, ts, fld, images, broken, dead>>

NekOther(f, n) ==
    /\ Writes(f, n)
    /\ UNCHANGED <<nekVars, dead>>

\* Mutant: the step is not counted up.
NextFieldStays(k) == IF k + 1 = PerStep THEN <<0, 0>> ELSE <<0, k + 1>>

\* next_field: what is added to ts, and the new fld.
NextField(k) == IF k + 1 = PerStep THEN <<1, 0>> ELSE <<0, k + 1>>

\* exec: there is no memory for the buffer, and memset gets a NULL.
NekNoBuffer(f) ==
    /\ Writes(f, FieldBytes)
    /\ ~quant /\ fld # BlankField
    /\ dead' = TRUE
    /\ UNCHANGED nekVars

\* exec: only the field that is not drawn can do without the buffer.
NekField(f) ==
    /\ Writes(f, FieldBytes)
    /\ ts < MaxSteps
    /\ quant' \in IF quant \/ fld # BlankField THEN {TRUE} ELSE BOOLEAN
    /\ images' = IF fld = BlankField THEN images
                 ELSE Append(images, [ts |-> ts, fld |-> fld, file |-> f])
    /\ ts' = ts + NextField(fld)[1]
    /\ fld' = NextField(fld)[2]
    /\ fields' = [fields EXCEPT ![f] = @ + 1]
    /\ UNCHANGED <<broken, dead>>

NekFinish(f) ==
    /\ Closes(f)
    /\ quant' = FALSE
    /\ broken' = (broken \/ fields[f] % PerStep # 0)
    /\ UNCHANGED <<ts, fld, images, fields, dead>>

NekNext ==
    \/ \E f \in Files : NekOpen(f) \/ NekField(f) \/ NekNoBuffer(f) \/ NekFinish(f)
    \/ \E f \in Files, n \in OtherSizes : NekOther(f, n)

NekSpec == NekInit /\ [][NekNext]_<<programVars, nekVars>>

-----------------------------------------------------------------------------

\* No image is drawn over another, whatever the files and however they end
\* (nek5k.mpi.c's file names from ts and fld).
ImagesKept ==
    \A i, j \in DOMAIN images : i < j =>
        <<images[i].ts, images[i].fld>> # <<images[j].ts, images[j].fld>>

\* While every file holds whole steps and files do not overlap, the images of a
\* step come from one file (the counters are not reset between files).
StepsOfOneFile ==
    (~overlap /\ ~broken) =>
        \A i, j \in DOMAIN images :
            images[i].ts = images[j].ts => images[i].file = images[j].file

\* No image is lost, and those of one step show one file.
ImagesRight == ImagesKept /\ StepsOfOneFile

=============================================================================
