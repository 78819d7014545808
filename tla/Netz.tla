-------------------------------- MODULE Netz --------------------------------
(***************************************************************************)
(* The netz processor (netz.mpic) on all ranks of an MPI job.  Every rank    *)
(* streams its brick of every field, field after field, through exec; the    *)
(* processor cuts fields out of the stream into a file per rank (3-D output, *)
(* merged into a shared file by finish) and slices into files that all ranks *)
(* share.                                                                   *)
(*                                                                         *)
(* A datum is <<rank, offset>>, the float at that offset of that rank's      *)
(* stream.  External: MPI's broadcast, which a rank leaves once the root has *)
(* entered it, and the file system: a file is a function from the offsets    *)
(* that have been written to data, and O_TRUNC makes it empty.  lio_listio    *)
(* makes the writes of its list one by one in any order: other ranks open,   *)
(* truncate and write the shared files between any two of them.              *)
(***************************************************************************)
EXTENDS ByteIntersect, FiniteSets, Sequences

CONSTANTS
    Bricks,      \* hdr.nbricks
    Dims,        \* hdr.dims: the size of a brick
    NFields,
    Out3D,       \* the fields whose configuration says "3d"
    Slices,      \* the slices asked for: their indices, a sequence
    Uint,        \* 2^32, in floats: the width of broadcastzu
    WriteSizes,  \* how many floats the simulation writes at a time
    Garbage      \* memory past the end of the simulation's buffer

FieldSize == Dims[1] * Dims[2] * Dims[3]
Field == 0..(NFields - 1)
Rank == 0..(Bricks[1] * Bricks[2] * Bricks[3] - 1)
Total == NFields * FieldSize
Pos(f) == f * FieldSize      \* where a field begins in the stream

Three == 1..3

ASSUME NetzAssumption ==
    /\ \A d \in Three : Bricks[d] \in Nat \ {0} /\ Dims[d] \in Nat \ {0}
    /\ NFields \in Nat \ {0} /\ Out3D \subseteq Field
    /\ FieldSize \in Nat \ {0} /\ Total \in Nat /\ Uint \in Nat \ {0}
    /\ \A f \in Field : Pos(f) \in Nat /\ Pos(f) + FieldSize <= Total
    /\ Slices \in Seq(Nat)
    /\ WriteSizes \subseteq Nat \ {0}

(* What a rank knows of flds[f].lower and .upper: rank 0, too, reads back    *)
(* what broadcastzu squeezed through an unsigned int.                       *)
broadcastzu(zu) == zu % Uint
Lower(f) == broadcastzu(Pos(f))
Upper(f) == broadcastzu(Pos(f) + FieldSize)

SmallStream == Total < Uint

(* The slice files in the order of tjfstart's loops: slicefield[].           *)
NFiles == NFields * Len(Slices)
File == 1..NFiles
FieldOf(k) == (k - 1) \div Len(Slices)
SliceOf(k) == Slices[((k - 1) % Len(Slices)) + 1]

Voxels == [d \in Three |-> Bricks[d] * Dims[d]]
VolumeAt == 0..(Voxels[1] * Voxels[2] * Voxels[3] - 1)

VARIABLES
    pc,        \* where each rank is
    cur,       \* the file or field its loop is at
    offset,    \* netz's `offset': how far into the stream each rank is
    taken,     \* the length of the write that a rank is in the midst of, or 0
    todo,      \* what is left of the list that its lio_listio was given
    brick,     \* the per-rank files "<field>.<rank>"
    data,      \* the brick that a rank merges, as slurp read it
    slicefile, \* the shared files "<field>.slice<axis><index>"
    volume,    \* the shared files "<field>"
    aborted,   \* whether an assertion failed on some rank
    (* History, which no step reads: *)
    unlisted,  \* the data that wlist2d put into no list
    wiped,     \* the ranks that an O_TRUNC took data of from each slice file
    stripped   \* ... and from each volume

ranks == <<pc, cur, offset, taken, todo>>
files == <<brick, data, slicefile, volume>>
history == <<unlisted, wiped, stripped>>
vars == <<ranks, files, aborted, history>>

Empty == <<>>
Datum == Rank \X (0..(Total - 1))

NetzTypeOK ==
    /\ pc \in [Rank -> {"header", "opening", "running", "slicing",
                         "merging", "writing", "done"}]
    /\ cur \in [Rank -> 0..(NFiles + NFields + 1)]
    /\ offset \in [Rank -> 0..Total] /\ taken \in [Rank -> 0..Total]
    /\ \A r \in Rank, f \in Field : brick[r][f] \in Seq(Datum)
    /\ aborted \in BOOLEAN

Init ==
    /\ pc = [r \in Rank |-> "header"]
    /\ cur = [r \in Rank |-> 0]
    /\ offset = [r \in Rank |-> 0]
    /\ brick = [r \in Rank |-> [f \in Field |-> <<>>]]
    /\ taken = [r \in Rank |-> 0]
    /\ todo = [r \in Rank |-> {}]
    /\ data = [r \in Rank |-> <<>>]
    /\ slicefile = [k \in File |-> Empty]
    /\ volume = [f \in Field |-> Empty]
    /\ aborted = FALSE
    /\ unlisted = {}
    /\ wiped = [k \in File |-> {}]
    /\ stripped = [f \in Field |-> {}]

(* One write of a list: Source(i) is the float at offset i of the source.    *)
At(w) == w.at..(w.at + w.n - 1)
Written(old, w, Source(_)) ==
    [p \in DOMAIN old \cup At(w) |->
        IF p \in At(w) THEN Source(w.src + (p - w.at)) ELSE old[p]]

-----------------------------------------------------------------------------
(* tjfstart, at the first write: the configuration arrives from rank 0, then *)
(* each shared slice file is opened in turn, and truncated.                  *)

Start(r) ==
    /\ pc[r] = "header"
    /\ r = 0 \/ pc[0] # "header"
    /\ pc' = [pc EXCEPT ![r] = IF NFiles = 0 THEN "running" ELSE "opening"]
    /\ cur' = [cur EXCEPT ![r] = 1]
    /\ brick' = [brick EXCEPT ![r] = [f \in Field |-> <<>>]]
    /\ offset' = [offset EXCEPT ![r] = 0]
    /\ UNCHANGED <<taken, todo, data, slicefile, volume, aborted, history>>

(* The ranks whose bricks lie where p is in a slice file: wlist2d looks at    *)
(* the place of a brick in x alone.                                         *)
Column(p) == {r \in Rank : r % Bricks[1] = (p % Voxels[1]) \div Dims[1]}

Open(r) ==
    /\ pc[r] = "opening"
    /\ wiped' = [wiped EXCEPT ![cur[r]] =
                   @ \cup UNION {Column(p) : p \in DOMAIN slicefile[cur[r]]}]
    /\ slicefile' = [slicefile EXCEPT ![cur[r]] = Empty]
    /\ cur' = [cur EXCEPT ![r] = @ + 1]
    /\ pc' = [pc EXCEPT ![r] = IF cur[r] = NFiles THEN "running" ELSE @]
    /\ UNCHANGED <<offset, taken, todo, brick, data, volume, aborted, unlisted, stripped>>

-----------------------------------------------------------------------------
(* exec. *)

In3D(r, n, f) == byteintersect(offset[r], offset[r] + n, Lower(f), Upper(f))
In2D(r, n, k) ==
    byteintersect2d(offset[r], offset[r] + n, Lower(FieldOf(k)), Dims, SliceOf(k))

(* An intersection that the assertions of byteintersect, exec and            *)
(* slice_outputs let pass.                                                  *)
Fits(x, n) == x.ok /\ (x.hit => x.nwrite <= n /\ x.skip < n)

AllFit(r, n) ==
    /\ \A f \in Out3D : Fits(In3D(r, n, f), n)
    /\ \A k \in File : Fits(In2D(r, n, k), n)

Run(r, from, n) == [j \in 1..n |-> <<r, from + (j - 1)>>]

Cut(r, n) ==
    [f \in Field |->
        LET x == In3D(r, n, f) IN
        IF f \in Out3D /\ x.hit
        THEN brick[r][f] \o Run(r, offset[r] + x.skip, x.nwrite) ELSE brick[r][f]]

FieldStream(r, n, k) == \* mutant of StreamOffset: the slice's own offset is not taken off
    offset[r] + In2D(r, n, k).skip - Lower(FieldOf(k))

StreamOffset(r, n, k) ==
    offset[r] + In2D(r, n, k).skip - Lower(FieldOf(k)) - SliceOf(k) * Dims[2] * Dims[1]

(* writes2d's list for a slice. *)
Scanlines(r, n, k) ==
    wlist2d(Voxels, StreamOffset(r, n, k), In2D(r, n, k).nwrite,
            to3d(r, <<Bricks[1], Bricks[2], 1>>), Dims[1])

(* A write that begins within a scanline may reach into one more than Ceil    *)
(* counts: its end is in no write of the list.                              *)
Unlisted(r, n, k) ==
    LET x == In2D(r, n, k)
        off == StreamOffset(r, n, k)
    IN  {<<r, offset[r] + x.skip + i>> : i \in
            {j \in 0..(x.nwrite - 1) :
                (off + j) \div Dims[1] >= off \div Dims[1] + Ceil(x.nwrite, Dims[1])}}

NextHit(r, n, k) == \* the first slice file from k on that the write concerns
    IF \E l \in k..NFiles : In2D(r, n, l).hit
    THEN CHOOSE l \in k..NFiles :
            In2D(r, n, l).hit /\ \A m \in k..NFiles : In2D(r, n, m).hit => l <= m
    ELSE NFiles + 1

(* slice_outputs' loop, from file k on: the next list, or exec's end.        *)
SliceFrom(r, n, k) ==
    LET next == NextHit(r, n, k) IN
    /\ cur' = [cur EXCEPT ![r] = next]
    /\ IF next \in File
       THEN /\ pc' = [pc EXCEPT ![r] = "slicing"]
            /\ todo' = [todo EXCEPT ![r] = Scanlines(r, n, next)]
            /\ taken' = [taken EXCEPT ![r] = n]
            /\ UNCHANGED offset
       ELSE /\ pc' = [pc EXCEPT ![r] = "running"]
            /\ taken' = [taken EXCEPT ![r] = 0]
            /\ offset' = [offset EXCEPT ![r] = @ + n]
            /\ UNCHANGED todo

Exec(r, n) ==
    /\ pc[r] = "running" /\ offset[r] + n <= Total
    /\ AllFit(r, n)
    /\ brick' = [brick EXCEPT ![r] = Cut(r, n)]
    /\ unlisted' = unlisted \cup
                     UNION {Unlisted(r, n, k) : k \in {l \in File : In2D(r, n, l).hit}}
    /\ SliceFrom(r, n, 1)
    /\ UNCHANGED <<data, slicefile, volume, aborted, wiped, stripped>>

(* The buffer of the simulation's write ends n floats after offset[r].       *)
SliceWrite(r) ==
    /\ pc[r] = "slicing"
    /\ \E w \in todo[r] :
          LET n == taken[r]
              skip == In2D(r, n, cur[r]).skip
              Source(i) == IF skip + i < n THEN <<r, offset[r] + skip + i>> ELSE Garbage
          IN  /\ slicefile' = [slicefile EXCEPT ![cur[r]] = Written(@, w, Source)]
              /\ todo' = [todo EXCEPT ![r] = @ \ {w}]
    /\ UNCHANGED <<pc, cur, offset, taken, brick, data, volume, aborted, history>>

SliceNext(r) ==
    /\ pc[r] = "slicing" /\ todo[r] = {}
    /\ SliceFrom(r, taken[r], cur[r] + 1)
    /\ UNCHANGED <<files, aborted, history>>

(* A failed assertion ends the job. *)
ExecAborts(r, n) ==
    /\ pc[r] = "running" /\ offset[r] + n <= Total
    /\ ~AllFit(r, n)
    /\ aborted' = TRUE
    /\ UNCHANGED <<ranks, files, history>>

-----------------------------------------------------------------------------
(* finish, once the whole stream is written: out3d merges the fields in turn.*)

PassesOver(f) == \* mutant of NextMerge: the field after a merged one is passed over
    IF \E g \in Out3D : g > f
    THEN CHOOSE g \in Out3D : g > f /\ \A h \in Out3D : h > f => g <= h
    ELSE NFields

NextMerge(f) == \* the first field from f on that is merged, NFields if none is
    IF \E g \in Out3D : g >= f
    THEN CHOOSE g \in Out3D : g >= f /\ \A h \in Out3D : h >= f => g <= h
    ELSE NFields

GoOn(r, f) ==
    /\ cur' = [cur EXCEPT ![r] = NextMerge(f)]
    /\ pc' = [pc EXCEPT ![r] = IF NextMerge(f) = NFields THEN "done" ELSE "merging"]

Finish(r) ==
    /\ pc[r] = "running" /\ offset[r] = Total
    /\ offset' = [offset EXCEPT ![r] = 0]
    /\ GoOn(r, 0)
    /\ UNCHANGED <<taken, todo, files, aborted, history>>

ZFirst(r) == \* mutant of Destination: the bricks are numbered along z first
    LET q == to3d(r, <<Bricks[3], Bricks[2], Bricks[1]>>)
    IN  find_destination(<<q[3], q[2], q[1]>>, Voxels, Dims)

Destination(r) == find_destination(to3d(r, Bricks), Voxels, Dims)

(* apply_writelist: the shared file is opened, and truncated; the rank's own *)
(* brick, FieldSize floats, is read and unlinked; then the list is written.  *)
MergeOpen(r) ==
    LET f == cur[r] IN
    /\ pc[r] = "merging"
    /\ volume' = [volume EXCEPT ![f] = Empty]
    /\ stripped' = [stripped EXCEPT ![f] = @ \cup {volume[f][p][1] : p \in DOMAIN volume[f]}]
    /\ data' = [data EXCEPT ![r] = brick[r][f]]
    /\ brick' = [brick EXCEPT ![r][f] = <<>>]
    /\ todo' = [todo EXCEPT ![r] = Destination(r)]
    /\ pc' = [pc EXCEPT ![r] = "writing"]
    /\ UNCHANGED <<cur, offset, taken, slicefile, aborted, unlisted, wiped>>

MergeWrite(r) ==
    /\ pc[r] = "writing"
    /\ \E w \in todo[r] :
          LET Source(i) == IF i < Len(data[r]) THEN data[r][i + 1] ELSE Garbage
          IN  /\ volume' = [volume EXCEPT ![cur[r]] = Written(@, w, Source)]
              /\ todo' = [todo EXCEPT ![r] = @ \ {w}]
    /\ UNCHANGED <<pc, cur, offset, taken, brick, data, slicefile, aborted, history>>

MergeNext(r) ==
    /\ pc[r] = "writing" /\ todo[r] = {}
    /\ GoOn(r, cur[r] + 1)
    /\ data' = [data EXCEPT ![r] = <<>>]
    /\ UNCHANGED <<offset, taken, todo, brick, slicefile, volume, aborted, history>>

Next ==
    /\ ~aborted
    /\ \E r \in Rank :
        \/ Start(r)
        \/ Open(r)
        \/ \E n \in WriteSizes : Exec(r, n) \/ ExecAborts(r, n)
        \/ SliceWrite(r) \/ SliceNext(r)
        \/ Finish(r)
        \/ MergeOpen(r) \/ MergeWrite(r) \/ MergeNext(r)

Spec == Init /\ [][Next]_vars

-----------------------------------------------------------------------------
(* Properties. *)

(* How much of a field has gone by on a rank, the write that it is in the    *)
(* midst of included.                                                       *)
Passed(r, f) ==
    LET gone == offset[r] + taken[r] IN
    IF gone <= Pos(f) THEN 0
    ELSE IF gone >= Pos(f) + FieldSize THEN FieldSize ELSE gone - Pos(f)

(***************************************************************************)
(* While a rank is in the stream, the file of a 3-D field holds the part of  *)
(* the field that has gone by: each float once, in order, and nothing else,  *)
(* however the simulation cuts the stream into writes (netz.mpic:741-757).   *)
(***************************************************************************)
BrickExact ==
    \A r \in Rank, f \in Out3D :
        pc[r] \in {"running", "slicing"} => brick[r][f] = Run(r, Pos(f), Passed(r, f))

(* The datum that belongs at offset p of the volume of field f.              *)
Belongs3D(f, p) ==
    LET x == p % Voxels[1]
        y == (p \div Voxels[1]) % Voxels[2]
        z == p \div (Voxels[1] * Voxels[2])
    IN  << (z \div Dims[3]) * Bricks[1] * Bricks[2] + (y \div Dims[2]) * Bricks[1] + x \div Dims[1],
           Pos(f) + (z % Dims[3]) * Dims[1] * Dims[2]
                    + (y % Dims[2]) * Dims[1] + (x % Dims[1]) >>

(***************************************************************************)
(* find_destination's promise (netz.mpic:351-355): a float of a brick only   *)
(* ever lands where it belongs in the unified file, whatever the ranks'      *)
(* order of opening, truncating and writing.                                *)
(***************************************************************************)
VolumePlaced ==
    \A f \in Field : \A p \in DOMAIN volume[f] :
        p \in VolumeAt /\ volume[f][p] = Belongs3D(f, p)

(***************************************************************************)
(* What a rank merges is whole numbers of its brick, and in its place.       *)
(***************************************************************************)
MergedRight == NetzTypeOK /\ VolumePlaced

(* The place of float p of a slice file in the stream, and the places there  *)
(* are: those of the first row of bricks.                                   *)
StreamAt(k, p) ==
    Pos(FieldOf(k)) + SliceOf(k) * Dims[1] * Dims[2]
        + (p \div Voxels[1]) * Dims[1] + (p % Dims[1])
RowAt == 0..(Voxels[1] * Dims[2] - 1)

(* A float of a slice file is one that a rank of its column has at its place *)
(* in the stream, or it is from behind the end of the simulation's buffer.   *)
SlicePlaced ==
    \A k \in File : \A p \in DOMAIN slicefile[k] :
        /\ p \in RowAt
        /\ \/ slicefile[k][p] = Garbage
           \/ slicefile[k][p] \in Column(p) \X {StreamAt(k, p)}

(* How far into the stream a rank has gone as far as slice file k goes.      *)
Streamed(r, k) ==
    IF pc[r] \in {"merging", "writing", "done"} THEN Total
    ELSE IF pc[r] = "slicing" /\ (cur[r] > k \/ (cur[r] = k /\ todo[r] = {}))
    THEN offset[r] + taken[r] ELSE offset[r]

(* Bricks side by side in x: what each column holds is one brick's.          *)
OneRow == Bricks[2] = 1 /\ Bricks[3] = 1

SliceArrived ==
    \A k \in File, p \in RowAt : \A r \in Column(p) \ wiped[k] :
        StreamAt(k, p) < Streamed(r, k) /\ <<r, StreamAt(k, p)>> \notin unlisted =>
            /\ p \in DOMAIN slicefile[k]
            /\ OneRow => slicefile[k][p] = <<r, StreamAt(k, p)>>

(***************************************************************************)
(* netz.mpic:681-683, "This takes a write, figures out where it goes, and    *)
(* writes it out", as far as that is so: whatever the ranks' order of opening, *)
(* truncating and writing and wherever the simulation's writes begin and     *)
(* end, what has been streamed of a slice is in its file, each float in its   *)
(* place, and nothing from behind a buffer is left of what has gone by. Out  *)
(* of it are a rank that had written when another one truncated the file     *)
(* (netz.mpic:318-320), and a write's floats on a scanline more than nwrites  *)
(* counts (netz.mpic:414).                                                  *)
(***************************************************************************)
SlicesRight == SlicePlaced /\ SliceArrived

(* A rank is past the merge of a field, or has opened the field's volume.    *)
Merged(r, f) ==
    pc[r] = "done" \/ (pc[r] \in {"merging", "writing"} /\ cur[r] > f)
HasOpened(r, f) == Merged(r, f) \/ (pc[r] = "writing" /\ cur[r] = f)

(* The brick of a rank that nobody stripped from the volume is there.        *)
BrickKept ==
    \A f \in Out3D, r \in Rank : Merged(r, f) /\ r \notin stripped[f] =>
        \A p \in VolumeAt : Belongs3D(f, p)[1] = r =>
            p \in DOMAIN volume[f] /\ volume[f][p] = Belongs3D(f, p)

(* No brick of a field is left over when the rank is done.                   *)
EveryBrickMerged ==
    \A r \in Rank : pc[r] = "done" => \A f \in Out3D : brick[r][f] = <<>>

(* Some rank that has opened a volume, the last for one, is not stripped.    *)
OneSurvives ==
    \A f \in Out3D : (\E r \in Rank : HasOpened(r, f)) =>
        \E r \in Rank : HasOpened(r, f) /\ r \notin stripped[f]

(***************************************************************************)
(* netz.mpic:803-804, "let's merge all those bricks", as far as it goes      *)
(* without the barrier that netz.mpic:494 asks for: no brick is left over, a  *)
(* brick is missing from its volume only when a rank opened the volume after *)
(* some of the brick was there, and never are all of them.                  *)
(***************************************************************************)
BricksMerged == EveryBrickMerged /\ BrickKept /\ OneSurvives

Finished == \A r \in Rank : pc[r] = "done"

(* netz.mpic:803-804: when every rank has finished, every brick is merged.   *)
VolumeComplete ==
    Finished => \A f \in Out3D : VolumeAt \subseteq DOMAIN volume[f]

(***************************************************************************)
(* netz.mpic:592: byteintersect returns true "if there is a non-zero byte    *)
(* overlap", and its four cases (603-606) are all there are: no write of the *)
(* stream fails an assertion.                                               *)
(***************************************************************************)
EveryWriteFits == ~aborted

=============================================================================
