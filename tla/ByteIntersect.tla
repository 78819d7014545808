---------------------------- MODULE ByteIntersect ----------------------------
(***************************************************************************)
(* netz's arithmetic: which part of a write belongs to a field of the        *)
(* stream (byteintersect), to a slice of it (byteintersect2d), and where a   *)
(* brick of the domain, or a run of a slice's scanlines, goes in a file that *)
(* all ranks share (to3d, find_destination, wlist2d).                       *)
(*                                                                         *)
(* The unit is the float: sizeof(float) divides every offset and length.     *)
(***************************************************************************)
EXTENDS Integers

Miss == [hit |-> FALSE, ok |-> TRUE, skip |-> 0, nwrite |-> 0]
Hit(skip, nwrite) == [hit |-> TRUE, ok |-> TRUE, skip |-> skip, nwrite |-> nwrite]
Abort == [hit |-> TRUE, ok |-> FALSE, skip |-> 0, nwrite |-> 0]

RunsOver(lower, upper, fldlower, fldupper) == \* mutant of Cases: a write goes on past the end of its field
    IF lower > fldlower /\ upper > fldupper THEN Hit(0, upper - lower)
    ELSE IF lower < fldlower /\ upper < fldupper THEN Hit(fldlower - lower, upper - fldlower)
    ELSE IF lower >= fldlower /\ upper < fldupper THEN Hit(0, upper - lower)
    ELSE IF lower <= fldlower /\ upper >= fldupper /\ lower < fldupper /\ upper > fldlower
    THEN Hit(fldlower - lower, fldupper - fldlower)
    ELSE Abort

Cases(lower, upper, fldlower, fldupper) ==
    IF lower > fldlower /\ upper > fldupper THEN Hit(0, fldupper - lower)
    ELSE IF lower < fldlower /\ upper < fldupper THEN Hit(fldlower - lower, upper - fldlower)
    ELSE IF lower >= fldlower /\ upper < fldupper THEN Hit(0, upper - lower)
    ELSE IF lower <= fldlower /\ upper >= fldupper /\ lower < fldupper /\ upper > fldlower
    THEN Hit(fldlower - lower, fldupper - fldlower)
    ELSE Abort

byteintersect(lower, upper, fldlower, fldupper) ==
    IF ~(upper > 0 /\ lower < upper) THEN Abort
    ELSE IF upper < fldlower \/ lower >= fldupper THEN Miss
    ELSE Cases(lower, upper, fldlower, fldupper)

(* A slice is found like a field, in the field's range narrowed to it.       *)
byteintersect2d(lower, upper, fldlower, dims, slice) ==
    LET flower == fldlower + slice * dims[2] * dims[1]
    IN  byteintersect(lower, upper, flower, flower + dims[2] * dims[1])

(* The position of a rank's brick; its parts count from 1 here.              *)
to3d(proc, layout) ==
    << proc % layout[1],
       (proc \div layout[1]) % layout[2],
       proc \div (layout[1] * layout[2]) >>

(* A write list is a set of records: `n' floats from offset `src' of the     *)
(* source go to offset `at' of the file.                                    *)
find_destination(pos, voxels, bsize) ==
    { [at  |-> (z + pos[3] * bsize[3]) * voxels[2] * voxels[1]
               + (y + pos[2] * bsize[2]) * voxels[1] + pos[1] * bsize[1],
       src |-> z * bsize[2] * bsize[1] + y * bsize[1],
       n   |-> bsize[1]] : z \in 0..(bsize[3] - 1), y \in 0..(bsize[2] - 1) }

Ceil(a, b) == (a + b - 1) \div b

(* nwrites does not count the part of a scanline that is already there, the  *)
(* first write does not stop at the end of the buffer, and layout[2] is not  *)
(* used.                                                                    *)
wlist2d(vox, off, n, layout, bs0) ==
    LET s == off % bs0
        sline == off \div bs0
        Later(i) == (bs0 - s) + (i - 1) * bs0
    IN  {[at |-> sline * vox[1] + bs0 * layout[1] + s, src |-> 0, n |-> bs0 - s]}
        \cup
        { [at |-> (sline + i) * vox[1] + layout[1] * bs0, src |-> Later(i),
           n |-> IF bs0 < n - Later(i) THEN bs0 ELSE n - Later(i)]
          : i \in 1..(Ceil(n, bs0) - 1) }

=============================================================================
