------------------------------- MODULE H5Situ -------------------------------
(***************************************************************************)
(* The HDF5 interposer (h5.c): it remembers the extents of data spaces and   *)
(* the data sets created over them, so that H5Dwrite can announce shape and  *)
(* type (metadata) before it passes the buffer on (exec).                   *)
(*                                                                         *)
(* Beside the interposer's two tables the module keeps HDF5's own objects,   *)
(* external code seen through its identifiers: positive, never used twice,   *)
(* and -1 for a failed creation.                                            *)
(***************************************************************************)
EXTENDS Naturals, Integers, FiniteSets, Sequences

CONSTANTS
    N_SPACES,     \* the size of either table
    MaxId,        \* bound on the HDF5 objects created
    Dims,         \* the extents of spaces of rank three; of a higher rank
                  \* the code records the first three, and so does the model
    Flat,         \* stands for the extents of a space of lower rank
    Zero,         \* the extents of a cleared slot
    Types,        \* the element types of data sets: "F64" is the known one
    CreateFails,  \* whether a creation may fail
    CloseEarly,   \* whether a space may be closed before its data sets
    NULL

Slot == 1..N_SPACES
Id == 1..MaxId
Hid == {-1, 0} \cup Id

ASSUME H5SituAssumption ==
    /\ N_SPACES \in Nat \ {0} /\ MaxId \in Nat
    /\ Flat \notin Dims /\ Zero \notin Dims
    /\ CreateFails \in BOOLEAN /\ CloseEarly \in BOOLEAN
    /\ NULL \notin Dims \cup {Flat}
    /\ NULL \notin [space : Id, dims : Dims \cup {Flat}, type : Types]

VARIABLES
    spaces,  \* the interposer's table of spaces
    metah5,  \* the interposer's table of data sets
    last,    \* the last identifier HDF5 handed out
    extent,  \* HDF5: the extents of each open space, NULL otherwise
    dset,    \* HDF5: the space, extents and type of each open data set
    said     \* what the last H5Dwrite told the processors, and of what

vars == <<spaces, metah5, last, extent, dset, said>>

FPType == {"I8", "F32", "F64"}

(* Only the first slot has an initializer: FP_FLOAT32; zero is FP_INT8. *)
NoMeta(s) == [dset |-> 0, space |-> 0, type |-> IF s = 1 THEN "F32" ELSE "I8"]
Silent == [of |-> 0, dims |-> Zero, type |-> "F32"]

H5TypeOK ==
    /\ spaces \in [Slot -> [id : Hid, dims : Dims \cup {Zero}]]
    /\ metah5 \in [Slot -> [dset : Hid, space : Hid, type : FPType]]
    /\ last \in 0..MaxId
    /\ extent \in [Id -> Dims \cup {Flat, NULL}]
    /\ dset \in [Id -> [space : Id, dims : Dims \cup {Flat}, type : Types] \cup {NULL}]
    /\ said.of \in 0..MaxId /\ said.type \in FPType

Init ==
    /\ spaces = [s \in Slot |-> [id |-> 0, dims |-> Zero]]
    /\ metah5 = [s \in Slot |-> NoMeta(s)]
    /\ last = 0
    /\ extent = [h \in Id |-> NULL]
    /\ dset = [h \in Id |-> NULL]
    /\ said = Silent

(* A loop that stops at the first slot that P holds of. *)
IsFirst(s, P(_)) == P(s) /\ \A t \in 1..(s - 1) : ~P(t)

-----------------------------------------------------------------------------
(* Data spaces. *)

Unused(s) == spaces[s].id \in {0, -1}

(* The loop of H5Screate_simple goes on after it has found an unused slot,   *)
(* so every unused slot takes the identifier, be it -1.                      *)
Recorded(hid, d) == [s \in Slot |-> IF Unused(s) THEN [id |-> hid, dims |-> d] ELSE spaces[s]]

ScreateSimple(d) ==
    /\ last < MaxId
    /\ last' = last + 1
    /\ extent' = [extent EXCEPT ![last + 1] = d]
    /\ spaces' = IF d \in Dims THEN Recorded(last + 1, d) ELSE spaces
    /\ UNCHANGED <<metah5, dset, said>>

ScreateFails(d) ==
    /\ CreateFails
    /\ spaces' = IF d \in Dims THEN Recorded(-1, d) ELSE spaces
    /\ UNCHANGED <<metah5, last, extent, dset, said>>

ClearSpace(id) ==
    [s \in Slot |-> IF IsFirst(s, LAMBDA t : spaces[t].id = id)
                    THEN [id |-> -1, dims |-> Zero] ELSE spaces[s]]

Sclose(id) ==
    /\ extent[id] # NULL
    /\ CloseEarly \/ \A h \in Id : dset[h] # NULL => dset[h].space # id
    /\ extent' = [extent EXCEPT ![id] = NULL]
    /\ spaces' = ClearSpace(id)
    /\ UNCHANGED <<metah5, last, dset, said>>

-----------------------------------------------------------------------------
(* Data sets. *)

(* find_dataspace: NULL stands for N_SPACES, one past the table. *)
Found(id) == {s \in Slot : IsFirst(s, LAMBDA t : spaces[t].id = id)}

Vacant(s) == metah5[s].dset <= 0 /\ metah5[s].space <= 0

(* The table after H5Dcreate1: a type it does not know leaves the type that  *)
(* the slot held before.                                                    *)
Entered(hid, id, type) ==
    [s \in Slot |->
        IF Found(id) # {} /\ IsFirst(s, Vacant)
        THEN [dset |-> hid, space |-> id,
              type |-> IF type = "F64" THEN "F64" ELSE metah5[s].type]
        ELSE metah5[s]]

Dcreate1(id, type) ==
    /\ last < MaxId /\ extent[id] # NULL
    /\ last' = last + 1
    /\ dset' = [dset EXCEPT ![last + 1] = [space |-> id, dims |-> extent[id], type |-> type]]
    /\ metah5' = Entered(last + 1, id, type)
    /\ UNCHANGED <<spaces, extent, said>>

Dcreate1Fails(id, type) ==
    /\ CreateFails /\ extent[id] # NULL
    /\ metah5' = Entered(-1, id, type)
    /\ UNCHANGED <<spaces, last, extent, dset, said>>

(* H5Dcreate2 is passed through. *)
Dcreate2(id, type) ==
    /\ last < MaxId /\ extent[id] # NULL
    /\ last' = last + 1
    /\ dset' = [dset EXCEPT ![last + 1] = [space |-> id, dims |-> extent[id], type |-> type]]
    /\ UNCHANGED <<spaces, metah5, extent, said>>

LeaveDset(h) ==     \* mutant of Vacated: metah5[i].dset is not reset
    [s \in Slot |-> IF IsFirst(s, LAMBDA t : metah5[t].dset = h)
                    THEN [metah5[s] EXCEPT !.space = -1] ELSE metah5[s]]

Vacated(h) ==
    [s \in Slot |-> IF IsFirst(s, LAMBDA t : metah5[t].dset = h)
                    THEN [metah5[s] EXCEPT !.dset = -1, !.space = -1] ELSE metah5[s]]

Dclose(h) ==
    /\ dset[h] # NULL
    /\ metah5' = Vacated(h)
    /\ dset' = [dset EXCEPT ![h] = NULL]
    /\ UNCHANGED <<spaces, last, extent, said>>

(* With a slot for the data set but none for its space, the extents are read *)
(* one past the table: whatever lies there (NULL). The processors' metadata   *)
(* and exec are taken not to call HDF5 themselves: the code reads the slot    *)
(* and the extents again between the two.                                   *)
Dwrite(h) ==
    /\ dset[h] # NULL
    /\ \E s \in Slot :
        /\ IsFirst(s, LAMBDA t : metah5[t].dset = h)
        /\ \E d \in IF Found(metah5[s].space) = {} THEN {NULL}
                    ELSE {spaces[t].dims : t \in Found(metah5[s].space)} :
                said' = [of |-> h, dims |-> d, type |-> metah5[s].type]
    /\ UNCHANGED <<spaces, metah5, last, extent, dset>>

Next ==
    \/ \E d \in Dims \cup {Flat} : ScreateSimple(d) \/ ScreateFails(d)
    \/ \E id \in Id : Sclose(id) \/ Dclose(id) \/ Dwrite(id)
    \/ \E id \in Id, type \in Types :
        Dcreate1(id, type) \/ Dcreate1Fails(id, type) \/ Dcreate2(id, type)

Spec == Init /\ [][Next]_vars

-----------------------------------------------------------------------------
(* Properties. *)

(***************************************************************************)
(* README.md:65-67: metadata precedes an exec "in the case that the          *)
(* simulation knows metadata for the impending write".  What H5Dwrite        *)
(* announces are the extents its data set was created with, never another's; *)
(* only if the space has been closed is what lies past the table announced.  *)
(***************************************************************************)
DimsRight ==
    said.of # 0 /\ dset[said.of] # NULL =>
        \/ said.dims = dset[said.of].dims
        \/ said.dims = NULL /\ extent[dset[said.of].space] = NULL

(***************************************************************************)
(* ... and for the one type H5Dcreate1 knows (h5.c:182) the element type is   *)
(* the data set's own, not one that its slot held before.                   *)
(***************************************************************************)
TypeRight ==
    said.of # 0 /\ dset[said.of] # NULL /\ dset[said.of].type = "F64" => said.type = "F64"

(***************************************************************************)
(* The table of data sets is what is open: an entry names an open data set   *)
(* and that data set's own space, and no data set has two entries, although  *)
(* both are found by first match (h5.c:201-204 worries that they are not).   *)
(***************************************************************************)
MetaIsMap ==
    \A s \in Slot : metah5[s].dset > 0 =>
        /\ dset[metah5[s].dset] # NULL
        /\ dset[metah5[s].dset].space = metah5[s].space
        /\ \A t \in Slot : metah5[t].dset = metah5[s].dset => t = s

(***************************************************************************)
(* What h5.c is for: the table holds what is open, and H5Dwrite announces    *)
(* the extents and the type of the data set that is written.                *)
(***************************************************************************)
MetadataRight == H5TypeOK /\ MetaIsMap /\ DimsRight /\ TypeRight

=============================================================================
