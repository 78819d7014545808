------------------------------ MODULE Metadata -------------------------------
(* What the silo processor takes from a parsed description of the data:      *)
(* read_metadata (processors/silo/silo.c) and the accessors it calls (jsdd.c),*)
(* one call a step. Assertions are on in this library: what fails one aborts  *)
(* the program. The descriptor is a static that keeps what the file before    *)
(* left in it. Memory never runs out here.                                    *)
EXTENDS Integers, Sequences, FiniteSets

CONSTANTS
    Docs,           \* bound: the documents tried; what json_parse may return, NONE too
    Before,         \* the descriptor the file before left
    SameName(_, _), \* strcasecmp gives 0
    NDIMS,          \* the dimensions supported: 3
    SIZE_MOD,       \* 2^64
    NONE, ABORT

ASSUME MetadataAssumption ==
    /\ NDIMS \in Nat \ {0} /\ SIZE_MOD \in Nat \ {0}
    /\ NONE # ABORT /\ ABORT \notin Nat
    /\ Before = [datatype |-> Before.datatype, dims |-> Before.dims, coords |-> Before.coords]

VARIABLES
    js,         \* the document
    md,         \* the descriptor: datatype, dims and coords
    coords,     \* what js_coord_arrays returned
    stage       \* the call that is next, or "done", "aborted", "crashed"

metadataVars == <<js, md, coords, stage>>

-----------------------------------------------------------------------------
(* Accessors. ABORT is an assertion that fails.                             *)

js_by_name(v, name) ==
    LET named == IF v.type # "object" THEN {}
                 ELSE {i \in DOMAIN v.names : SameName(v.names[i], name)} IN
    IF named = {} THEN NONE
    ELSE v.values[CHOOSE i \in named : \A j \in named : i <= j]

arrlen(v) == IF v.type = "array" THEN Len(v.items) ELSE ABORT

objderef(v) == IF v.type = "object" /\ Len(v.values) = 1 THEN v.values[1] ELSE ABORT

NumberOf(v, type) == IF v # ABORT /\ v.type = type THEN v.number ELSE ABORT
js_string(v) == IF v.type = "string" THEN v.string ELSE ABORT

\* An array of objects of one number each.
Numbers(v, type) ==
    IF arrlen(v) = ABORT THEN ABORT
    ELSE LET all == [i \in DOMAIN v.items |-> NumberOf(objderef(v.items[i]), type)] IN
         IF \E i \in DOMAIN all : all[i] = ABORT THEN ABORT ELSE all

jsarr_to_zuv(v) ==
    LET all == Numbers(v, "integer") IN
    IF all = ABORT THEN ABORT ELSE [i \in DOMAIN all |-> all[i] % SIZE_MOD]

js_datatype(root) ==
    LET type == js_by_name(root, "type")
        str == IF type = NONE THEN ABORT ELSE js_string(type)
    IN  CASE str = "float32" -> "FLOAT32"
          [] str = "float64" -> "FLOAT64"
          [] str \in {"byte", "char"} -> "BYTE"
          [] OTHER -> ABORT

\* The arrays are looked at in order, first all of their lengths and then all of
\* their numbers; the first that is not as it should be decides.
CoordArray(v, i) == objderef(v.items[i])
BadLengthFewer(v, dims, i) ==       \* mutant: more will do
    \/ CoordArray(v, i) = ABORT
    \/ arrlen(CoordArray(v, i)) = ABORT
    \/ arrlen(CoordArray(v, i)) < dims[i]
BadLength(v, dims, i) ==
    \/ CoordArray(v, i) = ABORT
    \/ arrlen(CoordArray(v, i)) # dims[i]
FirstBad(v, dims) ==
    CHOOSE i \in DOMAIN dims :
        BadLength(v, dims, i) /\ \A j \in 1 .. i - 1 : ~BadLength(v, dims, j)

js_coord_arrays(root, dims) ==
    LET v == js_by_name(root, "coords") IN
    IF v = NONE THEN NONE
    ELSE IF arrlen(v) = ABORT THEN ABORT
    ELSE IF arrlen(v) # Len(dims) THEN NONE
    ELSE IF \E i \in DOMAIN dims : BadLength(v, dims, i)
    THEN LET a == CoordArray(v, FirstBad(v, dims)) IN
         IF a = ABORT THEN ABORT ELSE IF arrlen(a) = ABORT THEN ABORT ELSE NONE
    ELSE LET all == [i \in DOMAIN dims |-> Numbers(CoordArray(v, i), "double")] IN
         IF \E i \in DOMAIN dims : all[i] = ABORT THEN ABORT ELSE all

-----------------------------------------------------------------------------

MetadataInit ==
    /\ js \in Docs
    /\ md = Before
    /\ coords = NONE
    /\ stage = "type"

Aborts == stage' = "aborted" /\ UNCHANGED <<js, md, coords>>

\* json_parse returned NULL: its type is read nevertheless.
NoDocument ==
    /\ stage = "type" /\ js = NONE
    /\ stage' = "crashed"
    /\ UNCHANGED <<js, md, coords>>

ReadType ==
    /\ stage = "type" /\ js # NONE
    /\ \/ js_datatype(js) = ABORT /\ Aborts
       \/ /\ js_datatype(js) # ABORT
          /\ md' = [md EXCEPT !.datatype = js_datatype(js)]
          /\ stage' = "dims"
          /\ UNCHANGED <<js, coords>>

\* Without NDIMS dimensions it returns, with the descriptor as it is by then.
ReadDims ==
    LET v == js_by_name(js, "dims")
        dims == IF v = NONE THEN <<>> ELSE jsarr_to_zuv(v) IN
    /\ stage = "dims"
    /\ \/ dims = ABORT /\ Aborts
       \/ /\ dims # ABORT
          /\ IF Len(dims) = NDIMS
             THEN md' = [md EXCEPT !.dims = dims] /\ stage' = "coords"
             ELSE stage' = "done" /\ UNCHANGED md
          /\ UNCHANGED <<js, coords>>

ReadCoords ==
    LET all == js_coord_arrays(js, md.dims) IN
    /\ stage = "coords"
    /\ \/ all = ABORT /\ Aborts
       \/ /\ all # ABORT
          /\ coords' = all
          /\ stage' = "copy"
          /\ UNCHANGED <<js, md>>

\* The copies are of as many numbers as dims says; there may be no arrays.
CopyCoords ==
    /\ stage = "copy"
    /\ IF coords = NONE
       THEN stage' = "crashed" /\ UNCHANGED md
       ELSE /\ md' = [md EXCEPT !.coords =
                        [i \in 1 .. NDIMS |-> SubSeq(coords[i], 1, md.dims[i])]]
            /\ stage' = "done"
    /\ UNCHANGED <<js, coords>>

MetadataNext == NoDocument \/ ReadType \/ ReadDims \/ ReadCoords \/ CopyCoords

MetadataSpec == MetadataInit /\ [][MetadataNext]_metadataVars

-----------------------------------------------------------------------------

\* A descriptor that read_metadata completes is of one piece: as many coordinates
\* along every axis as the grid has points, none read from beyond its array, and
\* both of this document. Nothing but the data type of it is new when the
\* document has not three dimensions.
CoordsFitDims ==
    stage = "done" =>
       \/ /\ coords # NONE
          /\ \A i \in 1 .. NDIMS :
                Len(md.coords[i]) = md.dims[i] /\ md.coords[i] = coords[i]
       \/ md = [Before EXCEPT !.datatype = md.datatype]

=============================================================================
