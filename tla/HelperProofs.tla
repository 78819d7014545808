---------------------------- MODULE HelperProofs -----------------------------
(* What stands beside the interposers of stdio and POSIX, for every size of a *)
(* table and every number of objects, children, commands, watches, events,    *)
(* lists of options and documents: what H5Dwrite announces; what launch       *)
(* promises of the programs it starts and of their argument vectors; that no  *)
(* event is told twice or lost; that the last option decides; that a          *)
(* descriptor is of one piece.                                                *)
EXTENDS H5Situ, Launch, Watch, Debug, Metadata, FiniteSetTheorems, WellFoundedInduction, TLAPS

(* The HDF5 interposer.                                                       *)

Created(hid) == hid <= last

(* HDF5's own objects: a data set keeps the extents its space had, and an     *)
(* identifier is not given out again.                                        *)
ObjectsTrue ==
    /\ \A h \in Id : extent[h] # NULL => Created(h)
    /\ \A h \in Id : dset[h] # NULL =>
          /\ Created(h) /\ Created(dset[h].space)
          /\ extent[dset[h].space] \in {NULL, dset[h].dims}

(* A slot that holds an identifier has that space's extents, even after the    *)
(* space is closed: all unused slots took it, and only the first is cleared. *)
SpacesTrue ==
    \A s \in Slot : spaces[s].id > 0 =>
        /\ Created(spaces[s].id)
        /\ extent[spaces[s].id] \in {NULL, spaces[s].dims}
        /\ \A h \in Id : dset[h] # NULL /\ dset[h].space = spaces[s].id
                            => dset[h].dims = spaces[s].dims

(* The space of an entry is in the other table as long as it is open.          *)
SpaceKept ==
    \A s \in Slot : metah5[s].dset > 0 /\ extent[metah5[s].space] # NULL =>
        \E t \in Slot : spaces[t].id = metah5[s].space

TypeKept ==
    \A s \in Slot : metah5[s].dset > 0 /\ dset[metah5[s].dset].type = "F64" =>
        metah5[s].type = "F64"

H5Inv ==
    /\ H5TypeOK
    /\ ObjectsTrue
    /\ SpacesTrue
    /\ MetaIsMap
    /\ SpaceKept
    /\ TypeKept
    /\ Created(said.of)
    /\ DimsRight
    /\ TypeRight

-----------------------------------------------------------------------------
(* First match. *)

LEMMA Least ==
    ASSUME NEW T, T \subseteq Nat, T # {}
    PROVE  \E x \in T : \A y \in T : x <= y
<1> DEFINE R == OpToRel(<, Nat)
<1>1. IsWellFoundedOn(R, Nat)
  BY NatLessThanWellFounded
<1>2. \A x, y \in Nat : <<y, x>> \in R <=> y < x
  BY Z3 DEF OpToRel
<1> HIDE DEF R
<1>3. PICK x \in T : \A y \in T : ~ (<<y, x>> \in R)
  BY <1>1, WFMin
<1>4. ASSUME NEW y \in T PROVE x <= y
  <2>1. x \in Nat /\ y \in Nat /\ ~(<<y, x>> \in R)
    BY <1>3
  <2>2. ~(y < x)
    BY <1>2, <2>1
  <2> QED
    BY <2>1, <2>2
<1> QED
  BY <1>4

(* The loop of find_dataspace finds what is there to be found. *)
LEMMA FoundIfAny ==
    ASSUME NEW id, NEW s \in Slot, spaces[s].id = id
    PROVE  Found(id) # {}
<1> DEFINE T == {t \in Slot : spaces[t].id = id}
<1>1. PICK t \in T : \A u \in T : t <= u
  <2>1. T \subseteq Nat /\ T # {}
    BY H5SituAssumption DEF Slot
  <2> HIDE DEF T
  <2> QED
    BY <2>1, Least
<1>2. t \in Slot /\ \A u \in 1..(t - 1) : spaces[u].id # id
  BY <1>1, H5SituAssumption DEF Slot
<1> QED
  BY <1>1, <1>2 DEF Found, IsFirst

LEMMA FoundHolds == ASSUME NEW id, NEW t \in Found(id) PROVE t \in Slot /\ spaces[t].id = id
BY DEF Found, IsFirst

LEMMA InitInv == Init => H5Inv
<1> SUFFICES ASSUME Init PROVE H5Inv
  OBVIOUS
<1>1. H5TypeOK
  BY H5SituAssumption DEF Init, H5TypeOK, NoMeta, Silent, Hid, FPType
<1>2. \A s \in Slot : spaces[s].id = 0 /\ metah5[s].dset = 0
  BY DEF Init, NoMeta
<1>4. MetaIsMap /\ SpaceKept /\ TypeKept /\ SpacesTrue
  BY <1>2 DEF MetaIsMap, SpaceKept, TypeKept, SpacesTrue
<1>3. Created(said.of) /\ DimsRight /\ TypeRight /\ ObjectsTrue
  BY DEF Init, Silent, Created, DimsRight, TypeRight, ObjectsTrue
<1> QED
  BY <1>1, <1>3, <1>4 DEF H5Inv

-----------------------------------------------------------------------------
(* Data spaces. *)

(* A space is created, or fails to be: unused slots take what HDF5 answered.   *)
LEMMA SpaceMade ==
    ASSUME H5Inv, NEW d \in Dims \cup {Flat}, ScreateSimple(d)
    PROVE  H5Inv'
<1>1. /\ last \in Nat /\ last + 1 \in Id /\ last' = last + 1 /\ last' \in 0..MaxId
      /\ extent' = [extent EXCEPT ![last + 1] = d]
      /\ metah5' = metah5 /\ dset' = dset /\ said' = said
      /\ spaces' = IF d \in Dims THEN Recorded(last + 1, d) ELSE spaces
  BY H5SituAssumption DEF ScreateSimple, H5Inv, H5TypeOK, Id
<1>2. /\ extent' \in [Id -> Dims \cup {Flat, NULL}]
      /\ extent'[last + 1] = d
      /\ \A h \in Id \ {last + 1} : extent'[h] = extent[h]
  BY <1>1 DEF H5Inv, H5TypeOK
<1>3. \A s \in Slot : /\ spaces'[s] \in [id : Hid, dims : Dims \cup {Zero}]
                      /\ \/ spaces'[s] = spaces[s]
                         \/ spaces'[s].id = last + 1 /\ spaces'[s].dims = d /\ d \in Dims
                      /\ spaces[s].id > 0 => spaces'[s] = spaces[s]
  BY <1>1 DEF Recorded, Unused, H5Inv, H5TypeOK, Hid
<1>4. spaces' \in [Slot -> [id : Hid, dims : Dims \cup {Zero}]]
  BY <1>1, <1>3 DEF Recorded, H5Inv, H5TypeOK
<1>5. H5TypeOK'
  BY <1>1, <1>2, <1>4 DEF H5Inv, H5TypeOK
<1>6. \A h \in Id : Created(h) => Created(h)' /\ h # last + 1
  BY <1>1 DEF Created, Id
<1>7. \A h \in Id : dset[h] # NULL => dset[h].space \in Id
  BY DEF H5Inv, H5TypeOK
<1>8. ObjectsTrue'
  <2>1. \A h \in Id : extent'[h] # NULL => Created(h)'
    BY <1>1, <1>2, <1>6 DEF H5Inv, ObjectsTrue, Created
  <2> QED
    BY <1>1, <1>2, <1>6, <1>7, <2>1 DEF H5Inv, ObjectsTrue
<1>9. SpacesTrue'
  <2> SUFFICES ASSUME NEW s \in Slot, spaces'[s].id > 0
               PROVE  /\ spaces'[s].id <= last'
                      /\ extent'[spaces'[s].id] \in {NULL, spaces'[s].dims}
                      /\ \A h \in Id : dset[h] # NULL /\ dset[h].space = spaces'[s].id
                                          => dset[h].dims = spaces'[s].dims
    BY <1>1 DEF SpacesTrue, Created
  <2>1. CASE spaces'[s] = spaces[s]
    <3>1. spaces[s].id \in Id /\ Created(spaces[s].id)
      BY <2>1 DEF H5Inv, H5TypeOK, Hid, SpacesTrue
    <3> QED
      BY <1>2, <1>6, <2>1, <3>1 DEF H5Inv, SpacesTrue, Created
  <2>2. CASE spaces'[s].id = last + 1 /\ spaces'[s].dims = d
    <3>1. \A h \in Id : dset[h] # NULL => dset[h].space # last + 1
      BY <1>6, <1>7 DEF H5Inv, ObjectsTrue
    <3> QED
      BY <1>1, <1>2, <2>2, <3>1 DEF Created
  <2> QED
    BY <1>3, <2>1, <2>2
<1>10. \A s \in Slot : metah5[s].dset > 0 => metah5[s].space \in Id \ {last + 1}
  <2> SUFFICES ASSUME NEW s \in Slot, metah5[s].dset > 0
               PROVE  metah5[s].space \in Id \ {last + 1}
    OBVIOUS
  <2>1. metah5[s].dset \in Id /\ dset[metah5[s].dset] # NULL
        /\ dset[metah5[s].dset].space = metah5[s].space
    BY DEF H5Inv, H5TypeOK, Hid, MetaIsMap
  <2> QED
    BY <1>6, <1>7, <2>1 DEF H5Inv, ObjectsTrue
<1>11. SpaceKept'
  <2> SUFFICES ASSUME NEW s \in Slot, metah5[s].dset > 0, extent'[metah5[s].space] # NULL
               PROVE  \E t \in Slot : spaces'[t].id = metah5[s].space
    BY <1>1 DEF SpaceKept
  <2>1. PICK t \in Slot : spaces[t].id = metah5[s].space
    BY <1>2, <1>10 DEF H5Inv, SpaceKept
  <2>2. spaces[t].id > 0
    BY <1>10, <2>1 DEF Id
  <2> QED
    BY <1>3, <2>1, <2>2
<1>12. DimsRight'
  <2> SUFFICES ASSUME said.of # 0, dset[said.of] # NULL
               PROVE  \/ said.dims = dset[said.of].dims
                      \/ said.dims = NULL /\ extent'[dset[said.of].space] = NULL
    BY <1>1 DEF DimsRight
  <2>1. said.of \in Id
    BY DEF H5Inv, H5TypeOK, Id
  <2>2. dset[said.of].space \in Id \ {last + 1}
    BY <1>6, <1>7, <2>1 DEF H5Inv, ObjectsTrue
  <2> QED
    BY <1>2, <2>2 DEF H5Inv, DimsRight
<1>13. Created(said.of)' /\ MetaIsMap' /\ TypeKept' /\ TypeRight'
  BY <1>1 DEF H5Inv, H5TypeOK, Created, MetaIsMap, TypeKept, TypeRight
<1> QED
  BY <1>5, <1>8, <1>9, <1>11, <1>12, <1>13 DEF H5Inv

LEMMA SpaceFails ==
    ASSUME H5Inv, NEW d \in Dims \cup {Flat}, ScreateFails(d)
    PROVE  H5Inv'
<1>1. /\ metah5' = metah5 /\ dset' = dset /\ said' = said /\ last' = last /\ extent' = extent
      /\ spaces' = IF d \in Dims THEN Recorded(-1, d) ELSE spaces
  BY DEF ScreateFails
<1>2. \A s \in Slot : /\ spaces'[s] \in [id : Hid, dims : Dims \cup {Zero}]
                      /\ spaces[s].id > 0 \/ spaces'[s].id > 0 => spaces'[s] = spaces[s]
  BY <1>1 DEF Recorded, Unused, H5Inv, H5TypeOK, Hid
<1>3. spaces' \in [Slot -> [id : Hid, dims : Dims \cup {Zero}]]
  BY <1>1, <1>2 DEF Recorded, H5Inv, H5TypeOK
<1>4. H5TypeOK'
  BY <1>1, <1>3 DEF H5Inv, H5TypeOK
<1>5. SpacesTrue'
  BY <1>1, <1>2 DEF H5Inv, SpacesTrue, Created
<1>6. SpaceKept'
  <2> SUFFICES ASSUME NEW s \in Slot, metah5[s].dset > 0, extent[metah5[s].space] # NULL
               PROVE  \E t \in Slot : spaces'[t].id = metah5[s].space
    BY <1>1 DEF SpaceKept
  <2>1. PICK t \in Slot : spaces[t].id = metah5[s].space
    BY DEF H5Inv, SpaceKept
  <2>2. metah5[s].space \in Id
    BY DEF H5Inv, H5TypeOK, Hid, MetaIsMap
  <2> QED
    BY <1>2, <2>1, <2>2 DEF Id
<1>7. /\ Created(said.of)' /\ MetaIsMap' /\ TypeKept' /\ TypeRight' /\ DimsRight'
      /\ ObjectsTrue'
  BY <1>1 DEF H5Inv, Created, MetaIsMap, TypeKept, TypeRight, DimsRight, ObjectsTrue
<1> QED
  BY <1>4, <1>5, <1>6, <1>7 DEF H5Inv

LEMMA SpaceClosed ==
    ASSUME H5Inv, NEW id \in Id, Sclose(id)
    PROVE  H5Inv'
<1>1. /\ metah5' = metah5 /\ dset' = dset /\ said' = said /\ last' = last
      /\ extent' = [extent EXCEPT ![id] = NULL]
      /\ spaces' = ClearSpace(id)
  BY DEF Sclose
<1>2. /\ extent' \in [Id -> Dims \cup {Flat, NULL}]
      /\ \A h \in Id : extent'[h] \in {NULL, extent[h]}
      /\ \A h \in Id \ {id} : extent'[h] = extent[h]
      /\ extent'[id] = NULL
  BY <1>1 DEF H5Inv, H5TypeOK
<1>3. \A s \in Slot : /\ spaces'[s] \in [id : Hid, dims : Dims \cup {Zero}]
                      /\ spaces'[s].id > 0 \/ spaces[s].id # id => spaces'[s] = spaces[s]
  BY <1>1 DEF ClearSpace, IsFirst, H5Inv, H5TypeOK, Hid
<1>4. spaces' \in [Slot -> [id : Hid, dims : Dims \cup {Zero}]]
  BY <1>1, <1>3 DEF ClearSpace
<1>5. H5TypeOK'
  BY <1>1, <1>2, <1>4 DEF H5Inv, H5TypeOK
<1>6. \A h \in Id : dset[h] # NULL => dset[h].space \in Id
  BY DEF H5Inv, H5TypeOK
<1>7. ObjectsTrue'
  BY <1>1, <1>2, <1>6 DEF H5Inv, ObjectsTrue, Created
<1>8. SpacesTrue'
  <2> SUFFICES ASSUME NEW s \in Slot, spaces'[s].id > 0
               PROVE  /\ spaces'[s].id <= last'
                      /\ extent'[spaces'[s].id] \in {NULL, spaces'[s].dims}
                      /\ \A h \in Id : dset[h] # NULL /\ dset[h].space = spaces'[s].id
                                          => dset[h].dims = spaces'[s].dims
    BY <1>1 DEF SpacesTrue, Created
  <2>1. spaces'[s] = spaces[s] /\ spaces[s].id \in Id
    BY <1>3 DEF H5Inv, H5TypeOK, Hid
  <2> QED
    BY <1>1, <1>2, <2>1 DEF H5Inv, SpacesTrue, Created
<1>9. SpaceKept'
  <2> SUFFICES ASSUME NEW s \in Slot, metah5[s].dset > 0, extent'[metah5[s].space] # NULL
               PROVE  \E t \in Slot : spaces'[t].id = metah5[s].space
    BY <1>1 DEF SpaceKept
  <2>1. metah5[s].dset \in Id /\ dset[metah5[s].dset] # NULL
        /\ dset[metah5[s].dset].space = metah5[s].space
    BY DEF H5Inv, H5TypeOK, Hid, MetaIsMap
  <2>2. metah5[s].space \in Id \ {id}
    BY <1>2, <1>6, <2>1
  <2>3. PICK t \in Slot : spaces[t].id = metah5[s].space
    BY <1>2, <2>2 DEF H5Inv, SpaceKept
  <2> QED
    BY <1>3, <2>2, <2>3
<1>10. DimsRight'
  <2> SUFFICES ASSUME said.of # 0, dset[said.of] # NULL
               PROVE  \/ said.dims = dset[said.of].dims
                      \/ said.dims = NULL /\ extent'[dset[said.of].space] = NULL
    BY <1>1 DEF DimsRight
  <2>1. dset[said.of].space \in Id
    BY <1>6 DEF H5Inv, H5TypeOK, Id
  <2> QED
    BY <1>2, <2>1 DEF H5Inv, DimsRight
<1>11. Created(said.of)' /\ MetaIsMap' /\ TypeKept' /\ TypeRight'
  BY <1>1 DEF H5Inv, Created, MetaIsMap, TypeKept, TypeRight
<1> QED
  BY <1>5, <1>7, <1>8, <1>9, <1>10, <1>11 DEF H5Inv

-----------------------------------------------------------------------------
(* Data sets. *)

(* At most one slot of the table changes, a vacant one, and only for a space    *)
(* that is in the other table.                                               *)
LEMMA EnteredFacts ==
    ASSUME H5TypeOK, NEW hid \in Hid, NEW id \in Id, NEW type,
           metah5' = Entered(hid, id, type)
    PROVE  /\ metah5' \in [Slot -> [dset : Hid, space : Hid, type : FPType]]
           /\ \/ metah5' = metah5
              \/ \E v \in Slot, t \in Slot :
                    /\ metah5[v].dset <= 0 /\ spaces[t].id = id
                    /\ metah5'[v].dset = hid /\ metah5'[v].space = id
                    /\ type = "F64" => metah5'[v].type = "F64"
                    /\ \A s \in Slot \ {v} : metah5'[s] = metah5[s]
<1>1. \A s \in Slot : metah5[s] \in [dset : Hid, space : Hid, type : FPType]
  BY DEF H5TypeOK
<1>2. \A s \in Slot : metah5'[s] \in [dset : Hid, space : Hid, type : FPType]
  BY <1>1 DEF Entered, FPType, Hid
<1>3. metah5' \in [Slot -> [dset : Hid, space : Hid, type : FPType]]
  BY <1>2 DEF Entered
<1>4. CASE \A s \in Slot : ~(Found(id) # {} /\ IsFirst(s, Vacant))
  <2>1. \A s \in Slot : metah5'[s] = metah5[s]
    BY <1>4 DEF Entered
  <2> QED
    BY <1>3, <2>1 DEF H5TypeOK
<1>5. CASE \E s \in Slot : Found(id) # {} /\ IsFirst(s, Vacant)
  <2>1. PICK v \in Slot : Found(id) # {} /\ IsFirst(v, Vacant)
    BY <1>5
  <2>2. PICK t \in Found(id) : TRUE
    BY <2>1
  <2>3. t \in Slot /\ spaces[t].id = id
    BY FoundHolds
  <2>4. /\ metah5'[v].dset = hid /\ metah5'[v].space = id
        /\ type = "F64" => metah5'[v].type = "F64"
    BY <2>1 DEF Entered
  <2>5. ASSUME NEW s \in Slot \ {v} PROVE metah5'[s] = metah5[s]
    <3>1. ~IsFirst(s, Vacant)
      BY <2>1, H5SituAssumption DEF IsFirst, Slot
    <3> QED
      BY <3>1 DEF Entered
  <2>6. metah5[v].dset <= 0
    BY <2>1 DEF IsFirst, Vacant
  <2> QED
    BY <1>3, <2>3, <2>4, <2>5, <2>6
<1> QED
  BY <1>3, <1>4, <1>5

(* A new data set has the extents of its open space, and an entry only if its  *)
(* space has one.                                                            *)
LEMMA DsetMade ==
    ASSUME H5Inv, NEW id \in Id, NEW type \in Types, Dcreate1(id, type) \/ Dcreate2(id, type)
    PROVE  H5Inv'
<1> DEFINE new == [space |-> id, dims |-> extent[id], type |-> type]
<1>1. /\ last \in Nat /\ last + 1 \in Id /\ last' = last + 1 /\ last' \in 0..MaxId
      /\ extent[id] # NULL /\ dset' = [dset EXCEPT ![last + 1] = new]
      /\ spaces' = spaces /\ extent' = extent /\ said' = said
      /\ metah5' = metah5 \/ metah5' = Entered(last + 1, id, type)
  BY H5SituAssumption DEF Dcreate1, Dcreate2, H5Inv, H5TypeOK, Id
<1>2. new \in [space : Id, dims : Dims \cup {Flat}, type : Types] /\ new # NULL
  BY <1>1, H5SituAssumption DEF H5Inv, H5TypeOK
<1>3. /\ dset' \in [Id -> [space : Id, dims : Dims \cup {Flat}, type : Types] \cup {NULL}]
      /\ dset'[last + 1] = new
      /\ \A h \in Id \ {last + 1} : dset'[h] = dset[h]
  BY <1>1, <1>2 DEF H5Inv, H5TypeOK
<1>4. \A h \in Id : Created(h) => h # last + 1 /\ h <= last'
  BY <1>1 DEF Created, Id
<1>5. /\ new.space = id /\ new.dims = extent[id] /\ new.type = type
      /\ Created(id) /\ dset[last + 1] = NULL
  BY <1>1, <1>4 DEF H5Inv, ObjectsTrue
<1> HIDE DEF new
<1>6. /\ metah5' \in [Slot -> [dset : Hid, space : Hid, type : FPType]]
      /\ \/ metah5' = metah5
         \/ \E v \in Slot, t \in Slot :
               /\ metah5[v].dset <= 0 /\ spaces[t].id = id
               /\ metah5'[v].dset = last + 1 /\ metah5'[v].space = id
               /\ type = "F64" => metah5'[v].type = "F64"
               /\ \A s \in Slot \ {v} : metah5'[s] = metah5[s]
  BY <1>1, EnteredFacts DEF H5Inv, H5TypeOK, Hid
<1>7. \A s \in Slot :
        \/ metah5'[s] = metah5[s]
        \/ /\ metah5'[s].dset = last + 1 /\ metah5'[s].space = id
           /\ type = "F64" => metah5'[s].type = "F64"
           /\ \E t \in Slot : spaces[t].id = id
           /\ \A u \in Slot \ {s} : metah5'[u] = metah5[u]
  BY <1>6
<1>8. \A s \in Slot : metah5[s].dset > 0 =>
        /\ metah5[s].dset \in Id \ {last + 1} /\ dset[metah5[s].dset] # NULL
        /\ metah5[s].space \in Id /\ dset[metah5[s].dset].space = metah5[s].space
  BY <1>5 DEF H5Inv, H5TypeOK, Hid, MetaIsMap
<1>9. H5TypeOK'
  BY <1>1, <1>3, <1>6 DEF H5Inv, H5TypeOK
<1>10. ObjectsTrue'
  <2>1. \A h \in Id : extent[h] # NULL => h <= last'
    BY <1>4 DEF H5Inv, ObjectsTrue
  <2>2. ASSUME NEW h \in Id, dset'[h] # NULL
        PROVE  /\ h <= last' /\ dset'[h].space <= last'
               /\ extent[dset'[h].space] \in {NULL, dset'[h].dims}
    <3>1. CASE h = last + 1
      <4>1. dset'[h].space = id /\ dset'[h].dims = extent[id] /\ id <= last'
        BY <1>3, <1>4, <1>5, <3>1
      <4>2. h <= last'
        BY <1>1, <3>1
      <4> QED
        BY <1>1, <4>1, <4>2
    <3>2. CASE h # last + 1
      <4>1. dset'[h] = dset[h] /\ dset[h].space \in Id
        BY <1>3, <2>2, <3>2 DEF H5Inv, H5TypeOK
      <4> QED
        BY <1>4, <2>2, <4>1 DEF H5Inv, ObjectsTrue
    <3> QED
      BY <3>1, <3>2
  <2> QED
    BY <1>1, <2>1, <2>2 DEF ObjectsTrue, Created
<1>11. SpacesTrue'
  <2> SUFFICES ASSUME NEW s \in Slot, spaces[s].id > 0
               PROVE  /\ spaces[s].id <= last'
                      /\ extent[spaces[s].id] \in {NULL, spaces[s].dims}
                      /\ \A h \in Id : dset'[h] # NULL /\ dset'[h].space = spaces[s].id
                                          => dset'[h].dims = spaces[s].dims
    BY <1>1 DEF SpacesTrue, Created
  <2>1. spaces[s].id \in Id /\ Created(spaces[s].id)
    BY DEF H5Inv, H5TypeOK, Hid, SpacesTrue
  <2>2. ASSUME NEW h \in Id, dset'[h] # NULL, dset'[h].space = spaces[s].id
        PROVE  dset'[h].dims = spaces[s].dims
    <3>1. CASE h = last + 1
      BY <1>1, <1>3, <1>5, <2>2, <3>1 DEF H5Inv, SpacesTrue
    <3>2. CASE h # last + 1
      BY <1>3, <2>2, <3>2 DEF H5Inv, SpacesTrue
    <3> QED
      BY <3>1, <3>2
  <2> QED
    BY <1>4, <2>1, <2>2 DEF H5Inv, SpacesTrue
<1>12. MetaIsMap'
  <2> SUFFICES ASSUME NEW s \in Slot, metah5'[s].dset > 0
               PROVE  /\ dset'[metah5'[s].dset] # NULL
                      /\ dset'[metah5'[s].dset].space = metah5'[s].space
                      /\ \A u \in Slot : metah5'[u].dset = metah5'[s].dset => u = s
    BY DEF MetaIsMap
  <2>1. CASE metah5'[s] = metah5[s]
    <3>1. /\ dset'[metah5[s].dset] = dset[metah5[s].dset]
          /\ metah5[s].dset # last + 1
      BY <1>3, <1>8, <2>1
    <3>2. ASSUME NEW u \in Slot, metah5'[u].dset = metah5'[s].dset PROVE u = s
      <4>1. metah5'[u] = metah5[u]
        BY <1>7, <2>1, <3>1, <3>2
      <4> QED
        BY <2>1, <3>2, <4>1 DEF H5Inv, MetaIsMap
    <3> QED
      BY <1>8, <2>1, <3>1, <3>2
  <2>2. CASE /\ metah5'[s].dset = last + 1 /\ metah5'[s].space = id
             /\ \A u \in Slot \ {s} : metah5'[u] = metah5[u]
    <3>1. \A u \in Slot \ {s} : metah5'[u].dset # last + 1
      BY <1>1, <1>8, <2>2 DEF Id
    <3> QED
      BY <1>2, <1>3, <1>5, <2>2, <3>1
  <2> QED
    BY <1>7, <2>1, <2>2
<1>13. SpaceKept'
  <2> SUFFICES ASSUME NEW s \in Slot, metah5'[s].dset > 0, extent[metah5'[s].space] # NULL
               PROVE  \E t \in Slot : spaces[t].id = metah5'[s].space
    BY <1>1 DEF SpaceKept
  <2> QED
    BY <1>7 DEF H5Inv, SpaceKept
<1>14. TypeKept'
  <2> SUFFICES ASSUME NEW s \in Slot, metah5'[s].dset > 0,
                      dset'[metah5'[s].dset].type = "F64"
               PROVE  metah5'[s].type = "F64"
    BY DEF TypeKept
  <2> QED
    BY <1>3, <1>5, <1>7, <1>8 DEF H5Inv, TypeKept
<1>15. Created(said.of)' /\ DimsRight' /\ TypeRight'
  <2>1. said.of <= last' /\ said.of # last + 1 /\ said.of \in 0..MaxId
    BY <1>1 DEF H5Inv, H5TypeOK, Created
  <2>2. said.of # 0 => dset'[said.of] = dset[said.of]
    BY <1>3, <2>1 DEF Id
  <2> QED
    BY <1>1, <2>1, <2>2 DEF H5Inv, Created, DimsRight, TypeRight
<1> QED
  BY <1>9, <1>10, <1>11, <1>12, <1>13, <1>14, <1>15 DEF H5Inv

(* A failed creation occupies a slot under the identifier -1. *)
LEMMA DsetFails ==
    ASSUME H5Inv, NEW id \in Id, NEW type \in Types, Dcreate1Fails(id, type)
    PROVE  H5Inv'
<1>1. /\ metah5' = Entered(-1, id, type)
      /\ spaces' = spaces /\ last' = last /\ extent' = extent /\ dset' = dset /\ said' = said
  BY DEF Dcreate1Fails
<1>2. /\ metah5' \in [Slot -> [dset : Hid, space : Hid, type : FPType]]
      /\ \A s \in Slot : metah5'[s].dset > 0 => metah5'[s] = metah5[s]
  <2>1. -1 \in Hid /\ ~(-1 > 0) /\ H5TypeOK
    BY DEF H5Inv, Hid
  <2>2. metah5' \in [Slot -> [dset : Hid, space : Hid, type : FPType]]
    BY <1>1, <2>1, EnteredFacts
  <2>3. \A s \in Slot : metah5'[s] = metah5[s] \/ metah5'[s].dset = -1
    BY <1>1, <2>1, EnteredFacts
  <2> QED
    BY <2>1, <2>2, <2>3
<1>3. H5TypeOK'
  BY <1>1, <1>2 DEF H5Inv, H5TypeOK
<1>4. MetaIsMap' /\ SpaceKept' /\ TypeKept'
  BY <1>1, <1>2 DEF H5Inv, MetaIsMap, SpaceKept, TypeKept
<1>5. /\ SpacesTrue' /\ ObjectsTrue' /\ Created(said.of)' /\ DimsRight' /\ TypeRight'
  BY <1>1 DEF H5Inv, SpacesTrue, ObjectsTrue, Created, DimsRight, TypeRight
<1> QED
  BY <1>3, <1>4, <1>5 DEF H5Inv

(* A data set has at most one entry, so the first match clears all of it. *)
LEMMA DsetClosed ==
    ASSUME H5Inv, NEW h \in Id, Dclose(h)
    PROVE  H5Inv'
<1>1. /\ metah5' = Vacated(h) /\ dset' = [dset EXCEPT ![h] = NULL]
      /\ spaces' = spaces /\ last' = last /\ extent' = extent /\ said' = said
  BY DEF Dclose
<1>2. /\ dset' \in [Id -> [space : Id, dims : Dims \cup {Flat}, type : Types] \cup {NULL}]
      /\ \A g \in Id : dset'[g] = IF g = h THEN NULL ELSE dset[g]
  BY <1>1 DEF H5Inv, H5TypeOK
<1>3. \A s \in Slot : /\ metah5'[s] \in [dset : Hid, space : Hid, type : FPType]
                      /\ metah5'[s].dset > 0 => metah5'[s] = metah5[s]
  <2> SUFFICES ASSUME NEW s \in Slot
               PROVE  /\ metah5'[s] \in [dset : Hid, space : Hid, type : FPType]
                      /\ metah5'[s].dset > 0 => metah5'[s] = metah5[s]
    OBVIOUS
  <2> DEFINE e == [metah5[s] EXCEPT !.dset = -1, !.space = -1]
  <2>1. metah5[s] \in [dset : Hid, space : Hid, type : FPType] /\ -1 \in Hid /\ ~(-1 > 0)
    BY DEF H5Inv, H5TypeOK, Hid
  <2>2. e \in [dset : Hid, space : Hid, type : FPType] /\ e.dset = -1
    BY <2>1
  <2>3. metah5'[s] = metah5[s] \/ metah5'[s] = e
    BY <1>1 DEF Vacated
  <2> QED
    BY <2>1, <2>2, <2>3
<1>4. metah5' \in [Slot -> [dset : Hid, space : Hid, type : FPType]]
  BY <1>1, <1>3 DEF Vacated
<1>5. ASSUME NEW s \in Slot, metah5'[s].dset > 0 PROVE metah5[s].dset \in Id \ {h}
  <2>1. metah5'[s] = metah5[s] /\ metah5[s].dset \in Id
    BY <1>3, <1>5 DEF H5Inv, H5TypeOK, Hid
  <2>2. ASSUME metah5[s].dset = h PROVE FALSE
    <3>1. \A t \in Slot : metah5[t].dset = h => t = s
      BY <2>1, <2>2 DEF H5Inv, MetaIsMap, Id
    <3>2. \A t \in 1..(s - 1) : metah5[t].dset # h
      BY <3>1, H5SituAssumption DEF Slot
    <3>3. metah5'[s] = [metah5[s] EXCEPT !.dset = -1, !.space = -1]
      BY <1>1, <2>2, <3>2 DEF Vacated, IsFirst
    <3>4. metah5'[s].dset = -1
      BY <3>3 DEF H5Inv, H5TypeOK
    <3> QED
      BY <1>5, <3>4
  <2> QED
    BY <2>1, <2>2
<1>6. H5TypeOK'
  BY <1>1, <1>2, <1>4 DEF H5Inv, H5TypeOK
<1>7. MetaIsMap'
  <2> SUFFICES ASSUME NEW s \in Slot, metah5'[s].dset > 0
               PROVE  /\ dset'[metah5'[s].dset] # NULL
                      /\ dset'[metah5'[s].dset].space = metah5'[s].space
                      /\ \A u \in Slot : metah5'[u].dset = metah5'[s].dset => u = s
    BY DEF MetaIsMap
  <2> QED
    BY <1>2, <1>3, <1>5 DEF H5Inv, MetaIsMap
<1>8. SpaceKept' /\ TypeKept'
  BY <1>1, <1>2, <1>3, <1>5 DEF H5Inv, SpaceKept, TypeKept
<1>9. ObjectsTrue' /\ SpacesTrue'
  BY <1>1, <1>2 DEF H5Inv, ObjectsTrue, SpacesTrue, Created
<1>10. Created(said.of)' /\ DimsRight' /\ TypeRight'
  <2>1. said.of # 0 => said.of \in Id
    BY DEF H5Inv, H5TypeOK, Id
  <2> QED
    BY <1>1, <1>2, <2>1 DEF H5Inv, Created, DimsRight, TypeRight
<1> QED
  BY <1>6, <1>7, <1>8, <1>9, <1>10 DEF H5Inv

(* What H5Dwrite announces is read from the entry it has found. *)
LEMMA DsetWritten ==
    ASSUME H5Inv, NEW h \in Id, Dwrite(h)
    PROVE  H5Inv'
<1>1. PICK s \in Slot :
        /\ metah5[s].dset = h
        /\ \E d \in IF Found(metah5[s].space) = {} THEN {NULL}
                    ELSE {spaces[t].dims : t \in Found(metah5[s].space)} :
                said' = [of |-> h, dims |-> d, type |-> metah5[s].type]
  BY DEF Dwrite, IsFirst
<1>2. /\ spaces' = spaces /\ metah5' = metah5 /\ last' = last /\ extent' = extent
      /\ dset' = dset /\ dset[h] # NULL
  BY DEF Dwrite
<1>3. dset[h].space = metah5[s].space /\ h <= last /\ h # 0
  BY <1>1, <1>2 DEF H5Inv, MetaIsMap, ObjectsTrue, Created, Id
<1>4. said'.of = h /\ said'.type = metah5[s].type
  BY <1>1
<1>5. \/ said'.dims = NULL /\ Found(metah5[s].space) = {}
      \/ \E t \in Slot : spaces[t].id = metah5[s].space /\ said'.dims = spaces[t].dims
  BY <1>1, FoundHolds
<1>6. H5TypeOK'
  <2>1. h \in 0..MaxId /\ metah5[s].type \in FPType
    BY DEF H5Inv, H5TypeOK, Id
  <2> QED
    BY <1>2, <1>4, <2>1 DEF H5Inv, H5TypeOK
<1>7. DimsRight'
  <2>1. CASE said'.dims = NULL /\ Found(metah5[s].space) = {}
    <3>1. ~\E t \in Slot : spaces[t].id = metah5[s].space
      BY <2>1, FoundIfAny
    <3>2. extent[metah5[s].space] = NULL
      BY <1>1, <3>1 DEF H5Inv, SpaceKept, Id
    <3> QED
      BY <1>2, <1>3, <1>4, <2>1, <3>2 DEF DimsRight
  <2>2. ASSUME NEW t \in Slot, spaces[t].id = metah5[s].space, said'.dims = spaces[t].dims
        PROVE  DimsRight'
    <3>1. dset[h].space \in Id
      BY <1>2 DEF H5Inv, H5TypeOK
    <3>2. dset[h].dims = spaces[t].dims
      BY <1>2, <1>3, <2>2, <3>1 DEF H5Inv, SpacesTrue, Id
    <3> QED
      BY <1>2, <1>4, <2>2, <3>2 DEF DimsRight
  <2> QED
    BY <1>5, <2>1, <2>2
<1>8. TypeRight' /\ Created(said.of)'
  BY <1>1, <1>2, <1>3, <1>4 DEF H5Inv, TypeKept, TypeRight, Created, Id
<1>9. ObjectsTrue' /\ SpacesTrue' /\ MetaIsMap' /\ SpaceKept' /\ TypeKept'
  BY <1>2 DEF H5Inv, ObjectsTrue, SpacesTrue, MetaIsMap, SpaceKept, TypeKept, Created
<1> QED
  BY <1>6, <1>7, <1>8, <1>9 DEF H5Inv

-----------------------------------------------------------------------------

LEMMA H5StepInv == H5Inv /\ [Next]_vars => H5Inv'
<1> SUFFICES ASSUME H5Inv, [Next]_vars PROVE H5Inv'
  OBVIOUS
<1>1. CASE UNCHANGED vars
  BY <1>1 DEF vars, H5Inv, H5TypeOK, ObjectsTrue, SpacesTrue, MetaIsMap, SpaceKept, TypeKept,
              Created, DimsRight, TypeRight
<1>2. CASE Next
  BY <1>2, SpaceMade, SpaceFails, SpaceClosed, DsetMade, DsetFails, DsetClosed, DsetWritten
  DEF Next
<1> QED
  BY <1>1, <1>2

(* The invariant of the tables of spaces and data sets (h5.c).                *)
THEOREM H5Invariant == Spec => []H5Inv
BY InitInv, H5StepInv, PTL DEF Spec

(* The table of data sets is what is open, and H5Dwrite announces the extents  *)
(* and the type its data set was created with, whatever creations fail and    *)
(* in whatever order spaces and data sets are closed (h5.c:101-272).          *)
THEOREM AnnouncedRight == Spec => []MetadataRight
<1>1. H5Inv => MetadataRight
  BY DEF H5Inv, MetadataRight
<1> QED
  BY <1>1, H5Invariant, PTL

-----------------------------------------------------------------------------
(* Programs started beside the one that runs.                                 *)

LaunchTyped ==
    /\ sync \in BOOLEAN /\ nocldwait \in BOOLEAN
    /\ child \in [Pids -> Living \cup {"none", "zombie", "gone"}]
    /\ code \in [Pids -> Codes]

(* A program that waits for its children keeps their exit codes; one that     *)
(* does not has none before it ignores them, and no zombies after.            *)
Ignoring ==
    /\ sync => ~nocldwait
    /\ ~sync /\ ~nocldwait => \A p \in Pids : child[p] = "none"
    /\ nocldwait => \A p \in Pids : child[p] # "zombie"

(* A program that waits has at most the one child it waits for.               *)
OneChild ==
    sync =>
        /\ host = "computing" => \A p \in Pids : child[p] \in {"none", "gone"}
        /\ host = "reaping" =>
              /\ waitfor \in Pids
              /\ child[waitfor] \in Living \cup {"zombie"}
              /\ \A p \in Pids \ {waitfor} : child[p] \in {"none", "gone"}

LaunchInv == LaunchTyped /\ Ignoring /\ OneChild /\ StopsAtFailure

LEMMA LaunchInitInv == LaunchInit => LaunchInv
BY DEF LaunchInit, LaunchInv, LaunchTyped, Ignoring, OneChild, StopsAtFailure, Codes, Living

LEMMA LaunchInvStep == LaunchInv /\ [LaunchNext]_launchVars => LaunchInv'
<1> SUFFICES ASSUME LaunchInv, [LaunchNext]_launchVars PROVE LaunchInv'
  OBVIOUS
<1> USE DEF LaunchInv, LaunchTyped, Ignoring, OneChild, StopsAtFailure
<1>1. CASE UNCHANGED launchVars
  BY <1>1 DEF launchVars
<1>2. ASSUME NEW cmd \in Commands, launch(cmd) PROVE LaunchInv'
  <2>1. CASE UNCHANGED <<child, waitfor>> /\ host' \in {"ended", "computing"}
    BY <1>2, <2>1 DEF launch
  <2>2. ASSUME NEW p \in Pids, child[p] = "none", child' = [child EXCEPT ![p] = "forked"],
               host' = "reaping", waitfor' = p
        PROVE  LaunchInv'
    BY <1>2, <2>2 DEF launch, Living
  <2> QED
    BY <1>2, <2>1, <2>2 DEF launch
<1>3. ASSUME NEW p \in Pids, ChildExec(p) PROVE LaunchInv'
  <2>1. child'[p] \in {"consumer", "copy", "zombie", "gone"}
        /\ child' = [child EXCEPT ![p] = child'[p]]
    BY <1>3 DEF ChildExec
  <2>2. code' = [code EXCEPT ![p] = code'[p]] /\ code'[p] \in {code[p], "signal"}
    BY <1>3 DEF ChildExec
  <2>3. child'[p] = "gone" => nocldwait
    BY <1>3 DEF ChildExec
  <2>4. child'[p] = "zombie" => ~nocldwait
    BY <1>3 DEF ChildExec
  <2>5. child[p] = "forked" /\ UNCHANGED <<kind, sync, nocldwait, host, waitfor>>
    BY <1>3 DEF ChildExec
  <2> QED
    BY <2>1, <2>2, <2>3, <2>4, <2>5 DEF Living, Codes
<1>4. ASSUME NEW p \in Pids, NEW c \in Codes, ChildExit(p, c) PROVE LaunchInv'
  BY <1>4 DEF ChildExit, Living, Codes
<1>5. CASE reap_sync
  BY <1>5 DEF reap_sync, Reaped, waitpid_err, Living, Codes
<1>6. CASE reap
  BY <1>6 DEF reap, Reaped, waitpid_err, Living, Codes
<1> QED
  BY <1>1, <1>2, <1>3, <1>4, <1>5, <1>6 DEF LaunchNext

LEMMA LaunchInvAlways == LaunchSpec => []LaunchInv
BY LaunchInitInv, LaunchInvStep, PTL DEF LaunchSpec

(* With LIBSITU_SYNC the program computes only while nothing it has started    *)
(* is alive (practice.c:6-7; launch and reap_sync).                            *)
THEOREM SynchronousConsumers == LaunchSpec => []ConsumesInStep
<1>1. LaunchInv => ConsumesInStep
  BY DEF LaunchInv, OneChild, ConsumesInStep, Living
<1> QED
  BY <1>1, LaunchInvAlways, PTL

(* Back in the program none of its children is a zombie, whether it waits for  *)
(* them or ignores them (ignore_children, rye).                               *)
THEOREM ChildrenReaped == LaunchSpec => []NoZombies
<1>1. LaunchInv => NoZombies
  BY DEF LaunchInv, Ignoring, OneChild, NoZombies, LaunchTyped
<1> QED
  BY <1>1, LaunchInvAlways, PTL

(* Both at once, of every return from launch.                                 *)
THEOREM NobodyLeftBehind == LaunchSpec => []ChildrenTended
<1>1. ConsumesInStep /\ NoZombies => ChildrenTended
  BY DEF ChildrenTended
<1> QED
  BY <1>1, SynchronousConsumers, ChildrenReaped, PTL

(* A program that waits never goes on after a failed consumer (waitpid_err).   *)
THEOREM FailureStops == LaunchSpec => []StopsAtFailure
BY LaunchInvAlways, PTL DEF LaunchInv

-----------------------------------------------------------------------------

WatchInv ==
    /\ queued \in Nat /\ told \in Nat
    /\ wd \in [Paths -> Nat] /\ queue \in Seq(Nat)
    /\ inotify \in FDs \cup {-1}
    /\ fds \in [FDs -> {"inotify", "program", "free"}]
    /\ ToldOnce

(* The kernel numbers watches with natural numbers.                           *)
LEMMA WatchNumber ==
    1 + Cardinality({p \in Paths : wd[p] # 0}) \in Nat
<1>1. IsFiniteSet({p \in Paths : wd[p] # 0})
  BY FS_Subset, WatchAssumption
<1> QED
  BY <1>1, FS_CardinalityType

LEMMA WatchInvInit == WatchInit => WatchInv
BY DEF WatchInit, WatchInv, ToldOnce, Alive

LEMMA WatchInvStep == WatchInv /\ [WatchNext]_watchVars => WatchInv'
<1> SUFFICES ASSUME WatchInv, [WatchNext]_watchVars PROVE WatchInv'
  OBVIOUS
<1> USE WatchAssumption DEF WatchInv, ToldOnce, Alive
<1>1. CASE UNCHANGED watchVars
  BY <1>1 DEF watchVars
<1>2. ASSUME NEW p \in Paths, Watch(p) PROVE WatchInv'
  <2>1. wd' \in [Paths -> Nat]
    BY <1>2, WatchNumber DEF Watch
  <2>2. UNCHANGED <<inotify, fds, queue, queued, told>>
    BY <1>2 DEF Watch
  <2> QED
    BY <2>1, <2>2
<1>3. ASSUME NEW p \in Paths, Written(p) PROVE WatchInv'
  <2>1. wd[p] \in Nat /\ Append(queue, wd[p]) \in Seq(Nat)
        /\ Len(Append(queue, wd[p])) = Len(queue) + 1 /\ Len(queue) \in Nat
    OBVIOUS
  <2>2. Alive /\ UNCHANGED <<inotify, fds, wd, told>>
    BY <1>3 DEF Written
  <2>3. CASE queue # <<>> /\ queue[Len(queue)] = wd[p]
    <3>1. UNCHANGED <<queue, queued>>
      BY <1>3, <2>3 DEF Written
    <3> QED
      BY <2>2, <3>1
  <2>4. CASE ~(queue # <<>> /\ queue[Len(queue)] = wd[p])
    <3>1. queue' = Append(queue, wd[p]) /\ queued' = queued + 1
      BY <1>3, <2>4 DEF Written
    <3>2. told + Len(queue') = queued' /\ queued' \in Nat
      BY <2>1, <2>2, <3>1
    <3> QED
      BY <2>1, <2>2, <3>1, <3>2
  <2> QED
    BY <2>3, <2>4
<1>4. ASSUME NEW h \in DOMAIN handles, Modified(h) PROVE WatchInv'
  <2>1. queue # <<>> => Tail(queue) \in Seq(Nat) /\ Len(Tail(queue)) = Len(queue) - 1
    OBVIOUS
  <2>2. Len(queue) \in Nat
    OBVIOUS
  <2>3. UNCHANGED <<inotify, fds, wd, queued>>
    BY <1>4 DEF Modified
  <2>4. CASE queue' = Tail(queue) /\ told' = told + 1 /\ queue # <<>>
    <3>1. told' + Len(queue') = told + Len(queue) /\ queue' \in Seq(Nat) /\ told' \in Nat
      BY <2>1, <2>2, <2>4
    <3> QED
      BY <2>3, <3>1
  <2>5. CASE UNCHANGED queue /\ told' \in {told, told + 1} /\ (Alive => told' = told)
    BY <2>3, <2>5
  <2> QED
    BY <1>4, <2>4, <2>5 DEF Modified
<1>5. ASSUME NEW h \in DOMAIN handles, Unwatch(h) PROVE WatchInv'
  <2>1. handles[h] = inotify => ~Alive'
    BY <1>5 DEF Unwatch
  <2>2. handles[h] # inotify => queue' = queue /\ (Alive' => Alive)
    BY <1>5 DEF Unwatch
  <2>3. queue' \in Seq(Nat) /\ fds' \in [FDs -> {"inotify", "program", "free"}]
    BY <1>5 DEF Unwatch
  <2> QED
    BY <1>5, <2>1, <2>2, <2>3 DEF Unwatch
<1>6. CASE ProgramOpens
  BY <1>6 DEF ProgramOpens
<1>7. CASE Cleanup
  BY <1>7 DEF Cleanup
<1> QED
  BY <1>1, <1>2, <1>3, <1>4, <1>5, <1>6, <1>7 DEF WatchNext

(* As long as the queue's descriptor is open every event is told once          *)
(* (modified.c's Modified over the shared queue).                             *)
THEOREM EventsToldOnce == WatchSpec => []ToldOnce
<1>1. WatchInv => ToldOnce
  BY DEF WatchInv
<1> QED
  BY <1>1, WatchInvInit, WatchInvStep, PTL DEF WatchSpec

-----------------------------------------------------------------------------
(* Debug channels.                                                            *)

Channel == [name : {"exact", "more", "other"}, equals : BOOLEAN, list : Seq(Option)]

(* The options for class that have been taken already.                         *)
Past(x) == x[1] < chan \/ (x[1] = chan /\ x[2] < olist)
Taken(class) == {x \in Given(class) : Past(x)}

(* A class is as the last of them says, and as it was if there is none.        *)
Decided(class) ==
    class \in chflags <=>
        IF Taken(class) = {} THEN class \in DEFAULT_CHFLAGS
        ELSE \E x \in Taken(class) :
                /\ \A y \in Taken(class) : Later(x, y)
                /\ setting[x[1]].list[x[2]].sign = "+"

DebugInv ==
    /\ setting \in Seq(Channel)
    /\ chan \in Nat \ {0} /\ olist \in Nat \ {0}
    /\ \A class \in Classes :
          (class = "err" => Given("other") = {}) => Decided(class)

LEMMA OptionFacts ==
    ASSUME DebugInv, NEW x \in Options
    PROVE  /\ x[1] \in 1 .. Len(setting) /\ x[1] \in Nat
           /\ setting[x[1]] \in Channel
           /\ x[2] \in 1 .. Len(setting[x[1]].list) /\ x[2] \in Nat
           /\ x = <<x[1], x[2]>>
<1>1. PICK k \in DOMAIN setting : x \in {<<k, o>> : o \in DOMAIN setting[k].list}
  BY DEF Options
<1>2. PICK o \in DOMAIN setting[k].list : x = <<k, o>>
  BY <1>1
<1>3. k \in 1 .. Len(setting) /\ setting[k] \in Channel
  BY <1>1 DEF DebugInv
<1>4. setting[k].list \in Seq(Option)
  BY <1>3 DEF Channel
<1> QED
  BY <1>2, <1>3, <1>4

LEMMA DebugInitInv == DebugInit => DebugInv
<1> SUFFICES ASSUME DebugInit PROVE DebugInv
  OBVIOUS
<1>1. setting \in Seq(Channel) /\ chan = 1 /\ olist = 1 /\ chflags = DEFAULT_CHFLAGS
  BY DebugAssumption DEF DebugInit, Channel
<1>2. ASSUME NEW class PROVE Taken(class) = {}
  <2>1. ASSUME NEW x \in Given(class) PROVE ~Past(x)
    <3>1. x \in Options
      BY <2>1 DEF Given
    <3>2. PICK k \in DOMAIN setting : x \in {<<k, o>> : o \in DOMAIN setting[k].list}
      BY <3>1 DEF Options
    <3>3. PICK o \in DOMAIN setting[k].list : x = <<k, o>>
      BY <3>2
    <3>4. k \in 1 .. Len(setting) /\ setting[k] \in Channel
      BY <1>1, <3>2
    <3>5. setting[k].list \in Seq(Option)
      BY <3>4 DEF Channel
    <3>6. o \in Nat /\ o >= 1 /\ k \in Nat /\ k >= 1
      BY <3>3, <3>4, <3>5
    <3> QED
      BY <1>1, <3>3, <3>6 DEF Past
  <2> QED
    BY <2>1 DEF Taken
<1> QED
  BY <1>1, <1>2 DEF DebugInv, Decided

(* An option is taken: it becomes the last one for its class.                  *)
LEMMA OptionTaken ==
    ASSUME DebugInv, SetOption
    PROVE  DebugInv'
<1> DEFINE o == setting[chan].list[olist]
           z == <<chan, olist>>
<1>1. /\ setting \in Seq(Channel) /\ chan \in Nat \ {0} /\ olist \in Nat \ {0}
      /\ chan <= Len(setting) /\ olist <= Len(setting[chan].list)
      /\ setting[chan].name # "other" /\ setting[chan].equals
      /\ setting' = setting /\ chan' = chan /\ olist' = olist + 1
  BY DEF DebugInv, SetOption, Here, Named, Left
<1>2. chan \in DOMAIN setting /\ setting[chan] \in Channel
  BY <1>1
<1>3. setting[chan].list \in Seq(Option) /\ olist \in DOMAIN setting[chan].list /\ o \in Option
  BY <1>1, <1>2 DEF Channel
<1>4. z \in Options
  BY <1>2, <1>3 DEF Options
<1>5. PICK bits \in name_class(o.class) :
        chflags' = CASE o.sign = "+" -> chflags \cup bits
                     [] o.sign = "-" -> chflags \ bits
                     [] OTHER -> chflags
  BY DEF SetOption
<1>6. o.sign \in {"+", "-", ""} /\ o.class \in Classes \cup {"other"}
  BY <1>3 DEF Option
<1>7. \A class : Given(class)' = Given(class)
  BY <1>1 DEF Given, Options
<1>8. \A x \in Options : Past(x)' <=> Past(x) \/ x = z
  <2> SUFFICES ASSUME NEW x \in Options PROVE Past(x)' <=> Past(x) \/ x = z
    OBVIOUS
  <2>1. x[1] \in Nat /\ x[2] \in Nat /\ x = <<x[1], x[2]>>
    BY OptionFacts
  <2>2. x = z <=> x[1] = chan /\ x[2] = olist
    BY <2>1
  <2> QED
    BY <1>1, <2>1, <2>2 DEF Past
<1>9. ~Past(z)
  BY <1>1 DEF Past
<1>10. \A class : z \in Given(class) <=> o.class = class /\ o.sign # ""
  BY <1>1, <1>4 DEF Given
<1> HIDE DEF o, z
<1>11. \A class : Taken(class)' =
                    IF o.class = class /\ o.sign # "" THEN Taken(class) \cup {z} ELSE Taken(class)
  <2> TAKE class
  <2>1. \A x \in Given(class) : x \in Options
    BY DEF Given
  <2>2. Taken(class)' = {x \in Given(class) : Past(x)'}
    BY <1>7 DEF Taken
  <2> QED
    BY <1>8, <1>10, <2>1, <2>2 DEF Taken
<1>12. ASSUME NEW class \in Classes, class = "err" => Given("other")' = {}
       PROVE  Decided(class)'
  <2>1. Decided(class)
    BY <1>7, <1>12 DEF DebugInv
  <2>2. CASE ~(o.class = class /\ o.sign # "")
    <3>1. Taken(class)' = Taken(class)
      BY <1>11, <2>2
    <3>2. class \in chflags' <=> class \in chflags
      <4>1. CASE o.sign = ""
        BY <1>5, <4>1
      <4>2. CASE o.class # class /\ o.sign # ""
        <5>1. o.class = "other" => class # "err"
          BY <1>7, <1>10, <1>12, <4>2
        <5>2. class \notin bits
          BY <1>5, <1>6, <1>12, <4>2, <5>1 DEF name_class
        <5> QED
          BY <1>5, <1>6, <4>2, <5>2
      <4> QED
        BY <2>2, <4>1, <4>2
    <3> QED
      BY <1>1, <2>1, <3>1, <3>2 DEF Decided, Later
  <2>3. CASE o.class = class /\ o.sign # ""
    <3>1. Taken(class)' = Taken(class) \cup {z}
      BY <1>11, <2>3
    <3>2. bits = {class}
      BY <1>5, <1>12, <2>3 DEF name_class
    <3>3. class \in chflags' <=> o.sign = "+"
      BY <1>5, <1>6, <2>3, <3>2
    <3>4. \A y \in Taken(class) : Later(z, y) /\ ~Later(y, z)
      <4> SUFFICES ASSUME NEW y \in Taken(class) PROVE Later(z, y) /\ ~Later(y, z)
        OBVIOUS
      <4>1. y \in Options /\ Past(y)
        BY DEF Taken, Given
      <4>2. y[1] \in Nat /\ y[2] \in Nat
        BY <4>1, OptionFacts
      <4> QED
        BY <1>1, <4>1, <4>2 DEF Later, Past, z
    <3>5. Later(z, z)
      BY <1>1 DEF Later, z
    <3>6. setting[z[1]].list[z[2]].sign = o.sign
      BY DEF z, o
    <3>7. \A x \in Taken(class)' : (\A y \in Taken(class)' : Later(x, y)) <=> x = z
      BY <3>1, <3>4, <3>5
    <3>8. (\E x \in Taken(class)' :
              (\A y \in Taken(class)' : Later(x, y)) /\ setting[x[1]].list[x[2]].sign = "+")
            <=> o.sign = "+"
      BY <3>1, <3>6, <3>7
    <3> QED
      BY <1>1, <3>1, <3>3, <3>8 DEF Decided, Later
  <2> QED
    BY <2>2, <2>3
<1> QED
  BY <1>1, <1>12 DEF DebugInv

(* On to the next channel: none of this one's options is left.                 *)
LEMMA ChannelPassed ==
    ASSUME DebugInv, NextChannel
    PROVE  DebugInv'
<1>1. /\ setting \in Seq(Channel) /\ chan \in Nat \ {0} /\ olist \in Nat \ {0}
      /\ chan <= Len(setting) /\ ~(Named /\ Left)
      /\ setting' = setting /\ chan' = chan + 1 /\ olist' = 1 /\ chflags' = chflags
  BY DEF DebugInv, NextChannel, Here
<1>2. \A class : Given(class)' = Given(class)
  BY <1>1 DEF Given, Options
<1>3. ASSUME NEW class, NEW x \in Given(class) PROVE Past(x)' <=> Past(x)
  <2>1. x \in Options /\ setting[x[1]].name # "other" /\ setting[x[1]].equals
    BY <1>3 DEF Given
  <2>2. /\ x[1] \in Nat /\ x[2] \in 1 .. Len(setting[x[1]].list) /\ x[2] \in Nat
        /\ setting[x[1]] \in Channel
    BY <2>1, OptionFacts
  <2>3. setting[x[1]].name \in {"exact", "more"}
    BY <2>1, <2>2 DEF Channel
  <2>4. x[1] = chan => x[2] < olist
    <3> SUFFICES ASSUME x[1] = chan PROVE x[2] < olist
      OBVIOUS
    <3>1. ~(olist <= Len(setting[chan].list))
      BY <1>1, <2>1, <2>3 DEF Named, Left
    <3>2. Len(setting[chan].list) \in Nat
      BY <2>2 DEF Channel
    <3> QED
      BY <1>1, <2>2, <3>1, <3>2
  <2> QED
    BY <1>1, <2>2, <2>4 DEF Past
<1>4. \A class : Taken(class)' = Taken(class)
  BY <1>2, <1>3 DEF Taken
<1>5. ASSUME NEW class \in Classes, class = "err" => Given("other")' = {}
      PROVE  Decided(class)'
  <2>1. Decided(class)
    BY <1>2, <1>5 DEF DebugInv
  <2> QED
    BY <1>1, <1>4, <2>1 DEF Decided, Later
<1> QED
  BY <1>1, <1>5 DEF DebugInv

LEMMA DebugStep == DebugInv /\ [DebugNext]_debugVars => DebugInv'
<1> SUFFICES ASSUME DebugInv, [DebugNext]_debugVars PROVE DebugInv'
  OBVIOUS
<1>1. CASE UNCHANGED debugVars
  <2>1. UNCHANGED <<setting, chan, olist, chflags>>
    BY <1>1 DEF debugVars
  <2>2. \A class : Given(class)' = Given(class)
    BY <2>1 DEF Given, Options
  <2>3. \A class : Taken(class)' = Taken(class)
    BY <2>1, <2>2 DEF Taken, Past
  <2>4. \A class : Decided(class) <=> Decided(class)'
    BY <2>1, <2>3 DEF Decided, Later
  <2> QED
    BY <2>1, <2>2, <2>4 DEF DebugInv
<1>2. CASE SetOption
  BY <1>2, OptionTaken
<1>3. CASE NextChannel
  BY <1>3, ChannelPassed
<1> QED
  BY <1>1, <1>2, <1>3 DEF DebugNext

(* When all of LIBSITU_DEBUG is read, the last option that names a class has    *)
(* decided it, however many channels and options there are (debug.c, and       *)
(* debug.h:8-11).                                                             *)
THEOREM LastOptionDecides == DebugSpec => []LastWordDecides
<1>1. DebugInv => LastWordDecides
  <2> SUFFICES ASSUME DebugInv, ~Here, NEW class \in Classes,
                      class = "err" => Given("other") = {}
               PROVE  class \in chflags <=>
                        IF Given(class) = {} THEN class \in DEFAULT_CHFLAGS
                        ELSE \E x \in Given(class) :
                                /\ \A y \in Given(class) : Later(x, y)
                                /\ setting[x[1]].list[x[2]].sign = "+"
    BY DEF LastWordDecides
  <2>1. ASSUME NEW x \in Given(class) PROVE Past(x)
    <3>1. x[1] \in 1 .. Len(setting)
      BY <2>1, OptionFacts DEF Given
    <3>2. chan \in Nat /\ Len(setting) \in Nat /\ ~(chan <= Len(setting))
      BY DEF DebugInv, Here
    <3> QED
      BY <3>1, <3>2 DEF Past
  <2>2. Taken(class) = Given(class)
    BY <2>1 DEF Taken
  <2>3. Decided(class)
    BY DEF DebugInv
  <2> QED
    BY <2>2, <2>3 DEF Decided
<1> QED
  BY <1>1, DebugInitInv, DebugStep, PTL DEF DebugSpec

-----------------------------------------------------------------------------
(* A set of numbers that is not empty has a least one: what stands for        *)
(* induction in the proofs below.                                             *)
LEMMA LeastNumber ==
    ASSUME NEW T, T \subseteq Nat, T # {}
    PROVE  \E x \in T : \A y \in T : x <= y
<1> DEFINE R == OpToRel(<, Nat)
<1>1. IsWellFoundedOn(R, Nat)
  BY NatLessThanWellFounded
<1>2. \A x, y \in Nat : <<y, x>> \in R <=> y < x
  BY Z3 DEF OpToRel
<1> HIDE DEF R
<1>3. PICK x \in T : \A y \in T : ~ (<<y, x>> \in R)
  BY <1>1, WFMin
<1>4. ASSUME NEW y \in T PROVE x <= y
  <2>1. x \in Nat /\ y \in Nat /\ ~(<<y, x>> \in R)
    BY <1>3
  <2>2. ~(y < x)
    BY <1>2, <2>1
  <2> QED
    BY <2>1, <2>2
<1> QED
  BY <1>4

(* The words of the first k characters.                                      *)
Word(s, w, k) ==
    IF k = 0 THEN <<>>
    ELSE IF WordBegins(s, k) THEN Append(w[k - 1], WordAt(s, k))
    ELSE w[k - 1]

Unfolds(s, w, n) == w = [k \in 0..n |-> Word(s, w, k)]

HasWords(s, n) == \E w : Unfolds(s, w, n)

(* There is such a list for every length: the least one without can be made   *)
(* out of the one before.                                                    *)
LEMMA WordsExist ==
    ASSUME NEW s, NEW n \in Nat
    PROVE  HasWords(s, n)
<1> SUFFICES ASSUME ~HasWords(s, n) PROVE FALSE
  OBVIOUS
<1> DEFINE T == {k \in Nat : ~HasWords(s, k)}
<1>1. PICK m \in T : \A y \in T : m <= y
  <2>1. T \subseteq Nat /\ n \in T
    OBVIOUS
  <2> HIDE DEF T
  <2> QED
    BY <2>1, LeastNumber
<1>2. m # 0
  <2> DEFINE w == [k \in 0..0 |-> <<>>]
  <2>1. w = [k \in 0..0 |-> Word(s, w, k)]
    <3>1. \A k \in 0..0 : Word(s, w, k) = <<>>
      BY DEF Word
    <3> QED
      BY <3>1
  <2>2. HasWords(s, 0)
    BY <2>1 DEF HasWords, Unfolds
  <2> QED
    BY <1>1, <2>2
<1>3. m - 1 \in Nat /\ m \in Nat
  BY <1>1, <1>2
<1>4. PICK w : w = [k \in 0..(m - 1) |-> Word(s, w, k)]
  <2>1. ~(m <= m - 1)
    BY <1>3
  <2>2. HasWords(s, m - 1)
    BY <1>1, <1>3, <2>1
  <2> QED
    BY <2>2 DEF HasWords, Unfolds
<1> DEFINE u == [k \in 0..m |-> IF k = m THEN Word(s, w, m) ELSE w[k]]
<1> HIDE DEF T
<1>5. /\ u = [k \in 0..m |-> u[k]] /\ u[m] = Word(s, w, m)
      /\ \A k \in 0..(m - 1) : u[k] = w[k] /\ w[k] = Word(s, w, k)
  <2> DEFINE x(k) == Word(s, w, k)
  <2>1. w = [k \in 0..(m - 1) |-> x(k)]
    BY <1>4
  <2>2. u = [k \in 0..m |-> IF k = m THEN x(m) ELSE w[k]]
    OBVIOUS
  <2> HIDE DEF x, u
  <2>3. m \in 0..m /\ \A k \in 0..(m - 1) : k \in 0..m /\ k # m
    BY <1>3
  <2>4. u = [k \in 0..m |-> u[k]] /\ u[m] = x(m)
    BY <2>2, <2>3
  <2>5. ASSUME NEW k \in 0..(m - 1) PROVE u[k] = w[k] /\ w[k] = x(k)
    BY <2>1, <2>2, <2>3, <2>5
  <2> QED
    BY <2>4, <2>5 DEF x
<1> HIDE DEF u
<1>6. ASSUME NEW k \in 0..m, k # 0 PROVE u[k - 1] = w[k - 1]
  <2>1. k - 1 \in 0..(m - 1)
    BY <1>3, <1>6
  <2> QED
    BY <1>5, <2>1
<1>7. ASSUME NEW k \in 0..m PROVE u[k] = Word(s, u, k)
  <2>1. Word(s, u, k) = Word(s, w, k)
    BY <1>6 DEF Word
  <2>2. k = m \/ k \in 0..(m - 1)
    BY <1>3
  <2> QED
    BY <1>5, <2>1, <2>2
<1>8. u = [k \in 0..m |-> Word(s, u, k)]
  <2>1. [k \in 0..m |-> u[k]] = [k \in 0..m |-> Word(s, u, k)]
    BY <1>7
  <2> QED
    BY <1>5, <2>1
<1>9. HasWords(s, m)
  BY <1>8 DEF HasWords, Unfolds
<1> QED
  BY <1>1, <1>9 DEF T

(* tokenize without the abbreviation: a list that satisfies its recursion.    *)
LEMMA Tokenized ==
    ASSUME NEW Chars, NEW s \in Seq(Chars)
    PROVE  \E w : Unfolds(s, w, Len(s)) /\ tokenize(s) = Append(w[Len(s)], NIL)
<1> DEFINE W == CHOOSE w : w = [k \in 0..Len(s) |->
                IF k = 0 THEN <<>>
                ELSE IF WordBegins(s, k) THEN Append(w[k - 1], WordAt(s, k))
                ELSE w[k - 1]]
<1>1. tokenize(s) = Append(W[Len(s)], NIL)
  BY DEF tokenize
<1>2. W = [k \in 0..Len(s) |-> Word(s, W, k)]
  <2>1. Len(s) \in Nat
    OBVIOUS
  <2>2. \E w : w = [k \in 0..Len(s) |-> Word(s, w, k)]
    BY <2>1, WordsExist DEF HasWords, Unfolds
  <2> QED
    BY <2>2 DEF Word
<1> QED
  BY <1>1, <1>2 DEF Unfolds

Spaces(s, k) == {j \in 1..k : isspace(s[j])}

LEMMA MoreSpaces ==
    ASSUME NEW s, NEW k \in Nat \ {0}
    PROVE  /\ Cardinality(Spaces(s, k)) \in Nat /\ Cardinality(Spaces(s, k - 1)) \in Nat
           /\ IF isspace(s[k])
              THEN Cardinality(Spaces(s, k)) = Cardinality(Spaces(s, k - 1)) + 1
              ELSE Cardinality(Spaces(s, k)) = Cardinality(Spaces(s, k - 1))
<1>1. IsFiniteSet(1..(k - 1)) /\ Spaces(s, k - 1) \subseteq 1..(k - 1)
  BY FS_Interval DEF Spaces
<1>2. IsFiniteSet(Spaces(s, k - 1)) /\ k \notin Spaces(s, k - 1)
  BY <1>1, FS_Subset
<1>3. Spaces(s, k) = IF isspace(s[k]) THEN Spaces(s, k - 1) \cup {k} ELSE Spaces(s, k - 1)
  <2>1. 1..k = 1..(k - 1) \cup {k}
    OBVIOUS
  <2> DEFINE P(j) == isspace(s[j])
  <2>2. Spaces(s, k) = {j \in 1..k : P(j)} /\ Spaces(s, k - 1) = {j \in 1..(k - 1) : P(j)}
    BY DEF Spaces
  <2> HIDE DEF P
  <2>3. Spaces(s, k) = IF P(k) THEN Spaces(s, k - 1) \cup {k} ELSE Spaces(s, k - 1)
    BY <2>1, <2>2
  <2> QED
    BY <2>3 DEF P
<1>4. Cardinality(Spaces(s, k - 1)) \in Nat
  BY <1>2, FS_CardinalityType
<1>5. Cardinality(Spaces(s, k - 1) \cup {k}) = Cardinality(Spaces(s, k - 1)) + 1
  BY <1>2, FS_AddElement
<1> QED
  BY <1>3, <1>4, <1>5

(* A word that has begun is one more than the spaces before it.               *)
Begun(s, k) == IF k # 0 /\ s[k] # " " THEN 1 ELSE 0

Few(s, w, S, k) == w[k] \in Seq(S) /\ Len(w[k]) <= Cardinality(Spaces(s, k)) + Begun(s, k)

(* Were it otherwise for some beginning of s, it would be for a shortest one.  *)
LEMMA FewWords ==
    ASSUME NEW s, NEW n \in Nat, NEW w, Unfolds(s, w, n),
           NEW S, S = {WordAt(s, j) : j \in 1..n}
    PROVE  \A k \in 0..n : Few(s, w, S, k)
<1> DEFINE T == {k \in 0..n : ~Few(s, w, S, k)}
<1> SUFFICES ASSUME T # {} PROVE FALSE
  OBVIOUS
<1>1. PICK k \in T : \A y \in T : k <= y
  <2>1. T \subseteq Nat
    OBVIOUS
  <2> HIDE DEF T
  <2> QED
    BY <2>1, LeastNumber
<1>2. k \in 0..n /\ ~Few(s, w, S, k) /\ k \in Nat
  BY <1>1
<1>3. w[k] = Word(s, w, k)
  <2> DEFINE x(j) == Word(s, w, j)
  <2>1. w = [j \in 0..n |-> x(j)]
    BY DEF Unfolds
  <2> HIDE DEF x
  <2>2. w[k] = x(k)
    BY <1>2, <2>1
  <2> QED
    BY <2>2 DEF x
<1>4. k # 0
  <2> SUFFICES ASSUME k = 0 PROVE FALSE
    OBVIOUS
  <2>1. w[k] = <<>>
    BY <1>3 DEF Word
  <2>2. Spaces(s, 0) = {}
    BY DEF Spaces
  <2>3. Cardinality(Spaces(s, 0)) = 0
    BY <2>2, FS_EmptySet
  <2>4. <<>> \in Seq(S) /\ Len(<<>>) = 0
    OBVIOUS
  <2> QED
    <3>1. w[0] = <<>>
      BY <2>1
    <3>2. Begun(s, 0) = 0
      BY DEF Begun
    <3>3. Few(s, w, S, 0)
      BY <2>3, <2>4, <3>1, <3>2 DEF Few
    <3> QED
      BY <1>2, <3>3
<1>5. k - 1 \in 0..n /\ ~(k <= k - 1)
  BY <1>2, <1>4
<1>6. Few(s, w, S, k - 1)
  BY <1>1, <1>5
<1>7. /\ w[k - 1] \in Seq(S) /\ Len(w[k - 1]) \in Nat
      /\ Len(w[k - 1]) <= Cardinality(Spaces(s, k - 1)) + Begun(s, k - 1)
  BY <1>6 DEF Few
<1>8. WordAt(s, k) \in S
  BY <1>2, <1>4
<1> HIDE DEF T
<1> DEFINE c == Cardinality(Spaces(s, k - 1))
           d == Cardinality(Spaces(s, k))
           b == Begun(s, k - 1)
           e == Begun(s, k)
           l == Len(w[k - 1])
<1>9. c \in Nat /\ d \in Nat /\ c <= d /\ (isspace(s[k]) => d = c + 1)
  BY <1>2, <1>4, MoreSpaces
<1>10. b \in {0, 1} /\ e \in {0, 1} /\ (e = 1 \/ isspace(s[k]))
  <2>1. b \in {0, 1} /\ e \in {0, 1}
    BY DEF Begun
  <2>2. e = IF s[k] # " " THEN 1 ELSE 0
    BY <1>4 DEF Begun
  <2>3. s[k] = " " => isspace(s[k])
    BY DEF isspace
  <2> QED
    BY <2>1, <2>2, <2>3
<1>14. l \in Nat /\ l <= c + b
  BY <1>7
<1>15. WordBegins(s, k) => b = 0 /\ e = 1
  <2> SUFFICES ASSUME WordBegins(s, k) PROVE b = 0 /\ e = 1
    OBVIOUS
  <2>1. s[k] # " " /\ (k = 1 \/ s[k - 1] = " ")
    BY DEF WordBegins
  <2>2. k = 1 => k - 1 = 0
    BY <1>2
  <2>3. b = 0
    BY <2>1, <2>2, Zenon DEF Begun
  <2>4. e = 1
    BY <1>4, <2>1, Zenon DEF Begun
  <2> QED
    BY <2>3, <2>4
<1> HIDE DEF c, d, b, e, l
<1>11. CASE WordBegins(s, k)
  <2>1. w[k] = Append(w[k - 1], WordAt(s, k))
    BY <1>3, <1>4, <1>11 DEF Word
  <2>2. w[k] \in Seq(S) /\ Len(w[k]) = l + 1
    BY <1>7, <1>8, <2>1 DEF l
  <2>3. b = 0 /\ e = 1
    BY <1>11, <1>15
  <2>4. l + 1 <= d + e
    BY <1>9, <1>14, <2>3
  <2> QED
    BY <1>2, <2>2, <2>4 DEF Few, d, e
<1>12. CASE ~WordBegins(s, k)
  <2>1. w[k] = w[k - 1]
    BY <1>3, <1>4, <1>12 DEF Word
  <2>2. e = 1 \/ d = c + 1
    BY <1>9, <1>10
  <2>3. l <= d + e
    <3>1. b <= 1 /\ 0 <= e /\ c \in Nat /\ d \in Nat /\ l \in Nat /\ c <= d /\ l <= c + b
      BY <1>9, <1>10, <1>14
    <3>2. b \in Int /\ e \in Int
      BY <1>10
    <3>3. CASE e = 1
      BY <3>1, <3>2, <3>3
    <3>4. CASE d = c + 1
      BY <3>1, <3>2, <3>4
    <3> QED
      BY <2>2, <3>3, <3>4
  <2> QED
    BY <1>2, <1>7, <2>1, <2>3 DEF Few, d, e, l
<1> QED
  BY <1>11, <1>12

(***************************************************************************)
(* The array of launcher.c has a place for every word of every command.      *)
(***************************************************************************)
LEMMA WordsFit ==
    ASSUME NEW Chars, NEW s \in Seq(Chars)
    PROVE  Len(tokenize(s)) - 1 <= Room(s)
<1> DEFINE n == Len(s)
           S == {WordAt(s, j) : j \in 1..n}
<1>1. n \in Nat /\ DOMAIN s = 1..n
  OBVIOUS
<1>2. PICK w : Unfolds(s, w, n) /\ tokenize(s) = Append(w[n], NIL)
  BY Tokenized
<1>3. Few(s, w, S, n)
  <2>1. \A k \in 0..n : Few(s, w, S, k)
    <3> HIDE DEF n
    <3> QED
      BY <1>1, <1>2, FewWords
  <2> QED
    BY <1>1, <2>1
<1>4. Room(s) = Cardinality(Spaces(s, n)) + 1
  BY <1>1 DEF Room, Spaces
<1>5. Cardinality(Spaces(s, n)) \in Nat
  <2>1. IsFiniteSet(1..n) /\ Spaces(s, n) \subseteq 1..n
    BY <1>1, FS_Interval DEF Spaces
  <2> QED
    BY <2>1, FS_Subset, FS_CardinalityType
<1> HIDE DEF n, S
<1>6. w[n] \in Seq(S) /\ Len(w[n]) \in Nat /\ Len(w[n]) <= Cardinality(Spaces(s, n)) + Begun(s, n)
  BY <1>3 DEF Few
<1>7. Len(tokenize(s)) = Len(w[n]) + 1
  <2>1. w[n] \in Seq(S \cup {NIL})
    BY <1>6
  <2> QED
    BY <1>2, <2>1
<1>8. Begun(s, n) \in 0..1
  BY DEF Begun
<1> QED
  BY <1>4, <1>5, <1>6, <1>7, <1>8

(* What argv and its room are: those of one command.                         *)
TokensInv == argv = <<>> \/ \E cmd \in Commands : argv = tokenize(cmd) /\ room = Room(cmd)

(***************************************************************************)
(* launcher.c:117, argv "is big enough to hold all of the given tokens", for  *)
(* every command line of any length: only the NULL may be one too many.      *)
(***************************************************************************)
THEOREM ArgvHoldsTokens == LaunchSpec => []TokensFit
<1>1. LaunchInit => TokensInv
  BY DEF LaunchInit, TokensInv
<1>2. TokensInv /\ [LaunchNext]_launchVars => TokensInv'
  <2> SUFFICES ASSUME TokensInv, [LaunchNext]_launchVars PROVE TokensInv'
    OBVIOUS
  <2>1. ASSUME NEW cmd \in Commands, launch(cmd) PROVE TokensInv'
    <3>1. (argv' = argv /\ room' = room) \/ (argv' = tokenize(cmd) /\ room' = Room(cmd))
      BY <2>1 DEF launch
    <3> QED
      BY <3>1 DEF TokensInv
  <2>2. CASE UNCHANGED <<argv, room>>
    BY <2>2 DEF TokensInv
  <2> QED
    BY <2>1, <2>2 DEF LaunchNext, launchVars, ChildExec, ChildExit, reap, reap_sync
<1>3. TokensInv => TokensFit
  <2> SUFFICES ASSUME NEW cmd \in Commands, argv = tokenize(cmd), room = Room(cmd)
               PROVE  Len(argv) - 1 <= room
    BY DEF TokensInv, TokensFit
  <2>1. cmd \in Seq({"c", " ", "tab"})
    BY LaunchAssumption
  <2> QED
    BY <2>1, WordsFit
<1> QED
  BY <1>1, <1>2, <1>3, PTL DEF LaunchSpec

-----------------------------------------------------------------------------
(* What the parser makes of a text (json.c, json_parse_): trees whose nodes   *)
(* are again in the set.                                                     *)
Parsed(V) ==
    \A v \in V :
        /\ v.type = "array" => v.items \in Seq(V)
        /\ v.type = "object" => v.values \in Seq(V) /\ DOMAIN v.names = DOMAIN v.values
        /\ v.type = "integer" => v.number \in Int

LEMMA NamedValue ==
    ASSUME NEW V, Parsed(V), NEW v \in V, NEW name, js_by_name(v, name) # NONE
    PROVE  js_by_name(v, name) \in V
<1> DEFINE named == IF v.type # "object" THEN {}
                    ELSE {i \in DOMAIN v.names : SameName(v.names[i], name)}
           first == CHOOSE i \in named : \A j \in named : i <= j
<1>1. v.type = "object" /\ named # {} /\ js_by_name(v, name) = v.values[first]
  BY DEF js_by_name
<1>2. v.values \in Seq(V) /\ DOMAIN v.names = DOMAIN v.values
  BY <1>1 DEF Parsed
<1>3. named \subseteq DOMAIN v.values /\ named \subseteq Nat
  <2>1. named \subseteq DOMAIN v.values
    BY <1>2
  <2>2. DOMAIN v.values \subseteq Nat
    BY <1>2
  <2> QED
    BY <2>1, <2>2
<1> HIDE DEF named
<1>4. first \in named
  BY <1>1, <1>3, LeastNumber
<1> HIDE DEF first
<1>5. v.values[first] \in V
  BY <1>2, <1>3, <1>4
<1> QED
  BY <1>1, <1>5

LEMMA OnlyValue ==
    ASSUME NEW V, Parsed(V), NEW v \in V, objderef(v) # ABORT
    PROVE  objderef(v) \in V
<1>1. v.type = "object" /\ Len(v.values) = 1 /\ objderef(v) = v.values[1]
  BY DEF objderef
<1>2. v.values \in Seq(V)
  BY <1>1 DEF Parsed
<1> QED
  BY <1>1, <1>2

LEMMA Items ==
    ASSUME NEW V, Parsed(V), NEW v \in V, arrlen(v) # ABORT
    PROVE  v.items \in Seq(V) /\ arrlen(v) = Len(v.items) /\ arrlen(v) \in Nat
<1>1. v.type = "array" /\ arrlen(v) = Len(v.items)
  BY DEF arrlen
<1>2. v.items \in Seq(V)
  BY <1>1 DEF Parsed
<1> QED
  BY <1>1, <1>2

LEMMA NumbersOfItems ==
    ASSUME NEW V, Parsed(V), NEW v \in V, NEW type, Numbers(v, type) # ABORT
    PROVE  /\ arrlen(v) # ABORT
           /\ Numbers(v, type) = [i \in 1..Len(v.items) |-> NumberOf(objderef(v.items[i]), type)]
           /\ \A i \in 1..Len(v.items) : NumberOf(objderef(v.items[i]), type) # ABORT
<1>1. arrlen(v) # ABORT
  BY DEF Numbers
<1>2. DOMAIN v.items = 1..Len(v.items)
  BY <1>1, Items
<1> DEFINE num(i) == NumberOf(objderef(v.items[i]), type)
           all == [i \in DOMAIN v.items |-> num(i)]
<1>3. Numbers(v, type) = all /\ ~ \E i \in DOMAIN all : all[i] = ABORT
  BY <1>1 DEF Numbers
<1> HIDE DEF num
<1>4. \A i \in 1..Len(v.items) : num(i) # ABORT
  BY <1>2, <1>3
<1> QED
  BY <1>1, <1>2, <1>3, <1>4 DEF num

(* The lengths that dims gives.                                              *)
LEMMA Sizes ==
    ASSUME NEW V, Parsed(V), NEW v \in V, jsarr_to_zuv(v) # ABORT
    PROVE  jsarr_to_zuv(v) \in Seq(Nat)
<1> DEFINE num(i) == NumberOf(objderef(v.items[i]), "integer")
           n == Len(v.items)
<1>1. Numbers(v, "integer") # ABORT
  BY DEF jsarr_to_zuv
<1>2. /\ arrlen(v) # ABORT /\ Numbers(v, "integer") = [i \in 1..n |-> num(i)]
      /\ \A i \in 1..n : num(i) # ABORT
  BY <1>1, NumbersOfItems
<1>3. v.items \in Seq(V) /\ n \in Nat
  BY <1>2, Items
<1>4. ASSUME NEW i \in 1..n PROVE num(i) \in Int
  <2>1. objderef(v.items[i]) # ABORT /\ objderef(v.items[i]).type = "integer"
        /\ num(i) = objderef(v.items[i]).number
    BY <1>2, <1>4 DEF NumberOf
  <2>2. v.items[i] \in V
    BY <1>3, <1>4
  <2>3. objderef(v.items[i]) \in V
    BY <2>1, <2>2, OnlyValue
  <2> QED
    BY <2>1, <2>3 DEF Parsed
<1> HIDE DEF num, n
<1>5. jsarr_to_zuv(v) = [i \in 1..n |-> num(i) % SIZE_MOD]
  <2> DEFINE all == Numbers(v, "integer")
  <2>1. jsarr_to_zuv(v) = [i \in DOMAIN all |-> all[i] % SIZE_MOD]
    BY <1>1 DEF jsarr_to_zuv
  <2>2. all = [i \in 1..n |-> num(i)]
    BY <1>2
  <2> HIDE DEF all
  <2> QED
    BY <2>1, <2>2
<1>6. \A i \in 1..n : num(i) % SIZE_MOD \in Nat
  BY <1>4, MetadataAssumption
<1> QED
  BY <1>3, <1>5, <1>6 DEF n

(* The arrays js_coord_arrays returns are as long as dims says.              *)
LEMMA CoordArrays ==
    ASSUME NEW V, Parsed(V), NEW root \in V, NEW dims \in Seq(Nat), NEW all,
           all = js_coord_arrays(root, dims), all # ABORT, all # NONE
    PROVE  \A i \in 1..Len(dims) : \E S : all[i] \in Seq(S) /\ Len(all[i]) = dims[i]
<1> DEFINE v == js_by_name(root, "coords")
<1>1. v # NONE /\ arrlen(v) # ABORT /\ arrlen(v) = Len(dims)
  BY DEF js_coord_arrays
<1>2. ~ \E i \in DOMAIN dims : BadLength(v, dims, i)
  <2> SUFFICES ASSUME \E i \in DOMAIN dims : BadLength(v, dims, i) PROVE FALSE
    OBVIOUS
  <2>1. all = LET a == CoordArray(v, FirstBad(v, dims)) IN
              IF a = ABORT THEN ABORT ELSE IF arrlen(a) = ABORT THEN ABORT ELSE NONE
    BY <1>1 DEF js_coord_arrays
  <2> QED
    BY <2>1
<1>3. /\ all = [i \in DOMAIN dims |-> Numbers(CoordArray(v, i), "double")]
      /\ ~ \E i \in DOMAIN dims :
             [j \in DOMAIN dims |-> Numbers(CoordArray(v, j), "double")][i] = ABORT
  BY <1>1, <1>2 DEF js_coord_arrays
<1>4. v \in V
  BY <1>1, NamedValue
<1> HIDE DEF v
<1> SUFFICES ASSUME NEW i \in 1..Len(dims)
             PROVE  \E S : all[i] \in Seq(S) /\ Len(all[i]) = dims[i]
  OBVIOUS
<1> DEFINE a == CoordArray(v, i)
<1>5. i \in DOMAIN dims /\ dims[i] \in Nat
  OBVIOUS
<1>6. all[i] = Numbers(a, "double") /\ Numbers(a, "double") # ABORT
  <2> DEFINE num(j) == Numbers(CoordArray(v, j), "double")
  <2>1. all = [j \in DOMAIN dims |-> num(j)] /\ ~ \E j \in DOMAIN dims : [k \in DOMAIN dims |-> num(k)][j] = ABORT
    BY <1>3
  <2> HIDE DEF num
  <2>2. all[i] = num(i) /\ num(i) # ABORT
    BY <1>5, <2>1
  <2> QED
    BY <2>2 DEF num
<1>7. a # ABORT /\ arrlen(a) = dims[i]
  BY <1>2, <1>5 DEF BadLength
<1>8. v.items[i] \in V
  <2>1. v.items \in Seq(V) /\ Len(v.items) = Len(dims)
    BY <1>1, <1>4, Items
  <2> QED
    BY <2>1
<1>9. a \in V
  BY <1>7, <1>8, OnlyValue DEF CoordArray
<1>10. arrlen(a) # ABORT
  BY <1>5, <1>7, MetadataAssumption
<1>11. Len(a.items) = dims[i]
  BY <1>7, <1>9, <1>10, Items
<1> DEFINE num(j) == NumberOf(objderef(a.items[j]), "double")
           S == {num(j) : j \in 1..Len(a.items)}
<1>12. all[i] = [j \in 1..Len(a.items) |-> num(j)]
  BY <1>6, <1>9, NumbersOfItems
<1> HIDE DEF a, num
<1>13. [j \in 1..Len(a.items) |-> num(j)] \in Seq(S)
  <2>1. \A j \in 1..Len(a.items) : num(j) \in S
    OBVIOUS
  <2>2. Len(a.items) \in Nat
    BY <1>5, <1>11
  <2> HIDE DEF S
  <2> QED
    BY <2>1, <2>2
<1>14. all[i] \in Seq(S) /\ Len(all[i]) = dims[i]
  BY <1>5, <1>11, <1>12, <1>13
<1> QED
  BY <1>14

(***************************************************************************)
(* The invariant: between its calls read_metadata has, of the descriptor,     *)
(* only the data type, then three dimensions that are numbers, then arrays of *)
(* as many coordinates as they say.                                         *)
(***************************************************************************)
Descriptor == md = [datatype |-> md.datatype, dims |-> md.dims, coords |-> md.coords]

Untouched == md = [Before EXCEPT !.datatype = md.datatype]

Dimensioned == md.dims \in Seq(Nat) /\ Len(md.dims) = NDIMS

Measured ==
    coords # NONE =>
        \A i \in 1..NDIMS : \E S : coords[i] \in Seq(S) /\ Len(coords[i]) = md.dims[i]

MetadataInv(V) ==
    /\ js \in V \cup {NONE} /\ Descriptor
    /\ stage \in {"type", "dims", "coords", "copy", "done", "aborted", "crashed"}
    /\ stage \in {"type", "dims"} => Untouched
    /\ stage \in {"dims", "coords", "copy"} => js \in V
    /\ stage \in {"coords", "copy"} => Dimensioned
    /\ stage = "copy" => Measured
    /\ CoordsFitDims

LEMMA MetadataStep ==
    ASSUME NEW V, Parsed(V), MetadataInv(V), [MetadataNext]_metadataVars
    PROVE  MetadataInv(V)'
<1> USE DEF MetadataInv
<1>1. CASE UNCHANGED metadataVars
  BY <1>1 DEF metadataVars, Descriptor, Untouched, Dimensioned, Measured, CoordsFitDims
<1>2. CASE Aborts /\ stage \in {"type", "dims", "coords"}
  BY <1>2 DEF Aborts, Descriptor, CoordsFitDims
<1>3. CASE NoDocument
  BY <1>3 DEF NoDocument, Descriptor, CoordsFitDims
<1>4. CASE ReadType /\ ~Aborts
  <2> DEFINE d == js_datatype(js)
  <2>1. /\ md' = [md EXCEPT !.datatype = d] /\ stage' = "dims" /\ stage = "type"
        /\ js # NONE /\ UNCHANGED <<js, coords>>
    BY <1>4 DEF ReadType
  <2> HIDE DEF d
  <2>2. Descriptor' /\ Untouched'
    BY <2>1, MetadataAssumption DEF Descriptor, Untouched
  <2> QED
    BY <2>1, <2>2 DEF CoordsFitDims
<1>5. CASE ReadDims /\ ~Aborts
  <2> DEFINE v == js_by_name(js, "dims")
             dims == IF v = NONE THEN <<>> ELSE jsarr_to_zuv(v)
  <2>1. /\ stage = "dims" /\ js \in V /\ dims # ABORT /\ UNCHANGED <<js, coords>>
        /\ IF Len(dims) = NDIMS
           THEN md' = [md EXCEPT !.dims = dims] /\ stage' = "coords"
           ELSE stage' = "done" /\ UNCHANGED md
    BY <1>5 DEF ReadDims
  <2>2. dims \in Seq(Nat)
    <3>1. CASE v = NONE
      BY <3>1
    <3>2. CASE v # NONE
      BY <2>1, <3>2, NamedValue, Sizes
    <3> QED
      BY <3>1, <3>2
  <2> HIDE DEF dims
  <2>3. CASE Len(dims) = NDIMS
    <3>1. Descriptor' /\ md'.dims = dims
      BY <2>1, <2>3 DEF Descriptor
    <3> QED
      BY <2>1, <2>2, <2>3, <3>1 DEF Dimensioned, CoordsFitDims
  <2>4. CASE Len(dims) # NDIMS
    BY <2>1, <2>4 DEF Descriptor, Untouched, CoordsFitDims
  <2> QED
    BY <2>3, <2>4
<1>6. CASE ReadCoords /\ ~Aborts
  <2> DEFINE all == js_coord_arrays(js, md.dims)
  <2>1. /\ stage = "coords" /\ js \in V /\ all # ABORT /\ coords' = all
        /\ stage' = "copy" /\ UNCHANGED <<js, md>>
    BY <1>6 DEF ReadCoords
  <2>2. Dimensioned
    BY <2>1
  <2>3. Measured'
    <3> SUFFICES ASSUME all # NONE, NEW i \in 1..NDIMS
                 PROVE  \E S : all[i] \in Seq(S) /\ Len(all[i]) = md.dims[i]
      BY <2>1 DEF Measured
    <3> QED
      BY <2>1, <2>2, CoordArrays DEF Dimensioned
  <2> QED
    BY <2>1, <2>2, <2>3 DEF Descriptor, Dimensioned, CoordsFitDims
<1>7. CASE CopyCoords
  <2>1. stage = "copy" /\ UNCHANGED <<js, coords>> /\ js \in V /\ Measured /\ Dimensioned
    BY <1>7 DEF CopyCoords
  <2>2. CASE coords = NONE
    BY <1>7, <2>1, <2>2 DEF CopyCoords, Descriptor, CoordsFitDims
  <2>3. CASE coords # NONE
    <3> DEFINE copy == [i \in 1..NDIMS |-> SubSeq(coords[i], 1, md.dims[i])]
    <3>1. md' = [md EXCEPT !.coords = copy] /\ stage' = "done"
      BY <1>7, <2>3 DEF CopyCoords
    <3>2. ASSUME NEW i \in 1..NDIMS
          PROVE  copy[i] = coords[i] /\ Len(copy[i]) = md.dims[i]
      <4>1. PICK S : coords[i] \in Seq(S) /\ Len(coords[i]) = md.dims[i]
        BY <2>1, <2>3 DEF Measured
      <4>2. SubSeq(coords[i], 1, md.dims[i]) = coords[i]
        <5> DEFINE s == coords[i]
        <5>1. s \in Seq(S) /\ Len(s) = md.dims[i]
          BY <4>1
        <5> HIDE DEF s
        <5>2. SubSeq(s, 1, Len(s)) = s
          BY <5>1
        <5> QED
          BY <5>1, <5>2 DEF s
      <4> QED
        BY <4>1, <4>2
    <3> HIDE DEF copy
    <3>3. Descriptor' /\ md'.coords = copy /\ md'.dims = md.dims
      BY <3>1 DEF Descriptor
    <3>4. CoordsFitDims'
      BY <2>1, <2>3, <3>2, <3>3 DEF CoordsFitDims
    <3> QED
      BY <2>1, <3>1, <3>3, <3>4
  <2> QED
    BY <2>2, <2>3
<1> QED
  BY <1>1, <1>2, <1>3, <1>4, <1>5, <1>6, <1>7
     DEF MetadataNext, ReadType, ReadDims, ReadCoords

(***************************************************************************)
(* Whatever document the parser returns, and whatever the file before left,  *)
(* a descriptor that read_metadata completes has as many coordinates along    *)
(* every axis as the grid has points, all of one document (silo.c:53-83;      *)
(* jsdd.c:242-280).                                                         *)
(***************************************************************************)
THEOREM DescriptorOfOnePiece ==
    ASSUME NEW CONSTANT V, Parsed(V), Docs \subseteq V \cup {NONE}
    PROVE  MetadataSpec => []CoordsFitDims
<1>1. MetadataInit => MetadataInv(V)
  <2> SUFFICES ASSUME MetadataInit PROVE MetadataInv(V)
    OBVIOUS
  <2>1. js \in V \cup {NONE} /\ md = Before /\ stage = "type"
    BY DEF MetadataInit
  <2>2. Descriptor /\ Untouched
    BY <2>1, MetadataAssumption DEF Descriptor, Untouched
  <2> QED
    BY <2>1, <2>2 DEF MetadataInv, CoordsFitDims
<1>2. MetadataInv(V) /\ [MetadataNext]_metadataVars => MetadataInv(V)'
  BY MetadataStep
<1>3. MetadataInv(V) => CoordsFitDims
  BY DEF MetadataInv
<1> QED
  BY <1>1, <1>2, <1>3, PTL DEF MetadataSpec

=============================================================================
