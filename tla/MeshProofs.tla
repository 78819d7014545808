----------------------------- MODULE MeshProofs -----------------------------
(* Proofs about marching cubes, for every size of a slab, every slab and any   *)
(* number of layers: the tags name the vertices they should, no edge has two   *)
(* vertices, a triangle's first number in the file is right, and the surface   *)
(* has no hole, in a layer or between two. The geometry of a cell comes first: *)
(* which lattice edge each of its twelve edges is, and which it shares with    *)
(* its neighbours.                                                             *)
EXTENDS Mesh, FiniteSetTheorems, TLAPS

Point(x, y, z) == <<x, y, z + slice>>
Up(c, at) == [Corner(c, at) EXCEPT ![3] = @ + slice]

(* The eight corners of a cell ...                                           *)
LEMMA CornerPlaces ==
    ASSUME NEW x \in Nat, NEW y \in Nat, NEW at, at = <<x, y>>
    PROVE  /\ Corner(0, at) = <<x, y + 1, 0>> /\ Corner(1, at) = <<x + 1, y + 1, 0>>
           /\ Corner(2, at) = <<x + 1, y, 0>> /\ Corner(3, at) = <<x, y, 0>>
           /\ Corner(4, at) = <<x, y + 1, 1>> /\ Corner(5, at) = <<x + 1, y + 1, 1>>
           /\ Corner(6, at) = <<x + 1, y, 1>> /\ Corner(7, at) = <<x, y, 1>>
<1> DEFINE step == <<<<0, 1>>, <<1, 1>>, <<1, 0>>, <<0, 0>>>>
<1>1. /\ step[1][1] = 0 /\ step[1][2] = 1 /\ step[2][1] = 1 /\ step[2][2] = 1
      /\ step[3][1] = 1 /\ step[3][2] = 0 /\ step[4][1] = 0 /\ step[4][2] = 0
  OBVIOUS
<1>2. \A c \in 0..7 : Corner(c, at) = <<x + step[(c % 4) + 1][1], y + step[(c % 4) + 1][2], c \div 4>>
  BY DEF Corner
<1> HIDE DEF step
<1>3. /\ 0 % 4 = 0 /\ 1 % 4 = 1 /\ 2 % 4 = 2 /\ 3 % 4 = 3
      /\ 4 % 4 = 0 /\ 5 % 4 = 1 /\ 6 % 4 = 2 /\ 7 % 4 = 3
      /\ 0 \div 4 = 0 /\ 1 \div 4 = 0 /\ 2 \div 4 = 0 /\ 3 \div 4 = 0
      /\ 4 \div 4 = 1 /\ 5 \div 4 = 1 /\ 6 \div 4 = 1 /\ 7 \div 4 = 1
  OBVIOUS
<1>4. Corner(0, at) = <<x + 0, y + 1, 0>> /\ Corner(1, at) = <<x + 1, y + 1, 0>>
  BY <1>1, <1>2, <1>3
<1>5. Corner(2, at) = <<x + 1, y + 0, 0>> /\ Corner(3, at) = <<x + 0, y + 0, 0>>
  BY <1>1, <1>2, <1>3
<1>6. Corner(4, at) = <<x + 0, y + 1, 1>> /\ Corner(5, at) = <<x + 1, y + 1, 1>>
  BY <1>1, <1>2, <1>3
<1>7. Corner(6, at) = <<x + 1, y + 0, 1>> /\ Corner(7, at) = <<x + 0, y + 0, 1>>
  BY <1>1, <1>2, <1>3
<1>8. x + 0 = x /\ y + 0 = y
  OBVIOUS
<1> QED
  BY <1>4, <1>5, <1>6, <1>7, <1>8

(* ... and in the slice.                                                     *)
LEMMA Corners ==
    ASSUME NEW x, NEW y, NEW at, at = <<x, y>>, x \in Nat, y \in Nat, slice \in Nat
    PROVE  /\ Up(0, at) = Point(x, y + 1, 0) /\ Up(1, at) = Point(x + 1, y + 1, 0)
           /\ Up(2, at) = Point(x + 1, y, 0) /\ Up(3, at) = Point(x, y, 0)
           /\ Up(4, at) = Point(x, y + 1, 1) /\ Up(5, at) = Point(x + 1, y + 1, 1)
           /\ Up(6, at) = Point(x + 1, y, 1) /\ Up(7, at) = Point(x, y, 1)
<1>1. \A c, u, v, w : Corner(c, at) = <<u, v, w>> => Up(c, at) = Point(u, v, w)
  BY DEF Up, Point
<1> QED
  BY <1>1, CornerPlaces

(* The ends of its twelve edges.                                             *)
LEMMA Ends ==
    /\ EdgeEnds(0) = {0, 1} /\ EdgeEnds(1) = {1, 2} /\ EdgeEnds(2) = {2, 3}
    /\ EdgeEnds(3) = {3, 0} /\ EdgeEnds(4) = {4, 5} /\ EdgeEnds(5) = {5, 6}
    /\ EdgeEnds(6) = {6, 7} /\ EdgeEnds(7) = {7, 4} /\ EdgeEnds(8) = {0, 4}
    /\ EdgeEnds(9) = {1, 5} /\ EdgeEnds(10) = {2, 6} /\ EdgeEnds(11) = {3, 7}
BY DEF EdgeEnds

(* The lattice edges of a cell, written out.                                 *)
LEMMA LatticeEdges ==
    ASSUME NEW x, NEW y, NEW at, at = <<x, y>>, x \in Nat, y \in Nat, slice \in Nat
    PROVE  /\ LatticeEdge(0, at) = {Point(x, y + 1, 0), Point(x + 1, y + 1, 0)}
           /\ LatticeEdge(1, at) = {Point(x + 1, y + 1, 0), Point(x + 1, y, 0)}
           /\ LatticeEdge(2, at) = {Point(x + 1, y, 0), Point(x, y, 0)}
           /\ LatticeEdge(3, at) = {Point(x, y, 0), Point(x, y + 1, 0)}
           /\ LatticeEdge(4, at) = {Point(x, y + 1, 1), Point(x + 1, y + 1, 1)}
           /\ LatticeEdge(5, at) = {Point(x + 1, y + 1, 1), Point(x + 1, y, 1)}
           /\ LatticeEdge(6, at) = {Point(x + 1, y, 1), Point(x, y, 1)}
           /\ LatticeEdge(7, at) = {Point(x, y, 1), Point(x, y + 1, 1)}
           /\ LatticeEdge(8, at) = {Point(x, y + 1, 0), Point(x, y + 1, 1)}
           /\ LatticeEdge(9, at) = {Point(x + 1, y + 1, 0), Point(x + 1, y + 1, 1)}
           /\ LatticeEdge(10, at) = {Point(x + 1, y, 0), Point(x + 1, y, 1)}
           /\ LatticeEdge(11, at) = {Point(x, y, 0), Point(x, y, 1)}
<1>1. \A e : LatticeEdge(e, at) = {Up(c, at) : c \in EdgeEnds(e)}
  BY DEF LatticeEdge, Up
<1>2. \A a, b, e : EdgeEnds(e) = {a, b} => LatticeEdge(e, at) = {Up(a, at), Up(b, at)}
  BY <1>1
<1> QED
  BY <1>2, Corners, Ends

(* The slots a cell hands on, and what they are in the neighbour.             *)
LEMMA Slots ==
    /\ DOMAIN RightSlots = {3, 7, 8, 11} /\ DOMAIN RearSlots = {2, 6, 10, 11}
    /\ RightSlots[3] = 1 /\ RightSlots[7] = 5 /\ RightSlots[8] = 9 /\ RightSlots[11] = 10
    /\ RearSlots[2] = 0 /\ RearSlots[6] = 4 /\ RearSlots[11] = 8 /\ RearSlots[10] = 9
BY DEF RightSlots, RearSlots

Right(at) == <<at[1] + 1, at[2]>>
Rear(at) == <<at[1], at[2] + 1>>

(* A slot of a neighbour is the same lattice edge as the edge it is handed from. *)
LEMMA SameEdge ==
    ASSUME NEW at, NEW x \in Nat, NEW y \in Nat, at = <<x, y>>, slice \in Nat
    PROVE  /\ \A e \in DOMAIN RightSlots :
                 /\ RightSlots[e] \in CellEdges
                 /\ LatticeEdge(e, Right(at)) = LatticeEdge(RightSlots[e], at)
           /\ \A e \in DOMAIN RearSlots :
                 /\ RearSlots[e] \in CellEdges
                 /\ LatticeEdge(e, Rear(at)) = LatticeEdge(RearSlots[e], at)
<1>1. Right(at) = <<x + 1, y>> /\ Rear(at) = <<x, y + 1>> /\ x + 1 \in Nat /\ y + 1 \in Nat
  BY DEF Right, Rear
<1> DEFINE r == Right(at)
           s == Rear(at)
<1>2. /\ LatticeEdge(3, r) = LatticeEdge(1, at) /\ LatticeEdge(7, r) = LatticeEdge(5, at)
      /\ LatticeEdge(8, r) = LatticeEdge(9, at) /\ LatticeEdge(11, r) = LatticeEdge(10, at)
  <2>1. /\ LatticeEdge(3, r) = {Point(x + 1, y, 0), Point(x + 1, y + 1, 0)}
        /\ LatticeEdge(7, r) = {Point(x + 1, y, 1), Point(x + 1, y + 1, 1)}
        /\ LatticeEdge(8, r) = {Point(x + 1, y + 1, 0), Point(x + 1, y + 1, 1)}
        /\ LatticeEdge(11, r) = {Point(x + 1, y, 0), Point(x + 1, y, 1)}
    BY <1>1, LatticeEdges
  <2>2. /\ LatticeEdge(1, at) = {Point(x + 1, y + 1, 0), Point(x + 1, y, 0)}
        /\ LatticeEdge(5, at) = {Point(x + 1, y + 1, 1), Point(x + 1, y, 1)}
        /\ LatticeEdge(9, at) = {Point(x + 1, y + 1, 0), Point(x + 1, y + 1, 1)}
        /\ LatticeEdge(10, at) = {Point(x + 1, y, 0), Point(x + 1, y, 1)}
    BY LatticeEdges
  <2> QED
    BY <2>1, <2>2
<1>3. /\ LatticeEdge(2, s) = LatticeEdge(0, at) /\ LatticeEdge(6, s) = LatticeEdge(4, at)
      /\ LatticeEdge(11, s) = LatticeEdge(8, at) /\ LatticeEdge(10, s) = LatticeEdge(9, at)
  <2>1. /\ LatticeEdge(2, s) = {Point(x + 1, y + 1, 0), Point(x, y + 1, 0)}
        /\ LatticeEdge(6, s) = {Point(x + 1, y + 1, 1), Point(x, y + 1, 1)}
        /\ LatticeEdge(11, s) = {Point(x, y + 1, 0), Point(x, y + 1, 1)}
        /\ LatticeEdge(10, s) = {Point(x + 1, y + 1, 0), Point(x + 1, y + 1, 1)}
    BY <1>1, LatticeEdges
  <2>2. /\ LatticeEdge(0, at) = {Point(x, y + 1, 0), Point(x + 1, y + 1, 0)}
        /\ LatticeEdge(4, at) = {Point(x, y + 1, 1), Point(x + 1, y + 1, 1)}
        /\ LatticeEdge(8, at) = {Point(x, y + 1, 0), Point(x, y + 1, 1)}
        /\ LatticeEdge(9, at) = {Point(x + 1, y + 1, 0), Point(x + 1, y + 1, 1)}
    BY LatticeEdges
  <2> QED
    BY <2>1, <2>2
<1>4. 1 \in CellEdges /\ 5 \in CellEdges /\ 9 \in CellEdges /\ 10 \in CellEdges
      /\ 0 \in CellEdges /\ 4 \in CellEdges /\ 8 \in CellEdges
  BY DEF CellEdges
<1> QED
  BY <1>2, <1>3, <1>4, Slots

(* Vertices are numbered in the order of their edges: Fewer counts each of the *)
(* numbers below Cardinality(made) once.                                     *)
LEMMA Ranks ==
    ASSUME NEW made, made \subseteq CellEdges
    PROVE  /\ Cardinality(made) \in Nat
           /\ \A e \in made : Fewer(e, made) \in 0..(Cardinality(made) - 1)
           /\ \A e, f \in made : Fewer(e, made) = Fewer(f, made) => e = f
           /\ \A k \in 1..Cardinality(made) : \E e \in made : Fewer(e, made) = k - 1
<1> DEFINE n == Cardinality(made)
           L(e) == {f \in made : f < e}
<1>1. IsFiniteSet(made) /\ n \in Nat
  <2>1. IsFiniteSet(CellEdges)
    <3>1. 0 \in Int /\ 11 \in Int
      OBVIOUS
    <3>2. IsFiniteSet(0..11)
      BY <3>1, FS_Interval
    <3> QED
      BY <3>2 DEF CellEdges
  <2> QED
    BY <2>1, FS_Subset, FS_CardinalityType
<1>2. \A e \in made : e \in Int
  BY DEF CellEdges
<1>3. ASSUME NEW e \in made
      PROVE  /\ IsFiniteSet(L(e)) /\ Fewer(e, made) = Cardinality(L(e))
             /\ Cardinality(L(e)) \in Nat /\ Cardinality(L(e)) < n
  <2>1. L(e) \subseteq made /\ e \notin L(e)
    BY <1>2
  <2>2. IsFiniteSet(L(e)) /\ Cardinality(L(e)) <= n /\ Cardinality(L(e)) \in Nat
    BY <1>1, <2>1, FS_Subset, FS_CardinalityType
  <2>3. Cardinality(L(e)) # n
    BY <1>1, <2>1, FS_Subset
  <2> QED
    BY <1>1, <2>2, <2>3 DEF Fewer
<1>4. ASSUME NEW e \in made, NEW f \in made, e < f PROVE Fewer(e, made) < Fewer(f, made)
  <2>1. L(e) \subseteq L(f) /\ e \in L(f) /\ e \notin L(e)
    BY <1>2, <1>4
  <2>2. Cardinality(L(e)) <= Cardinality(L(f)) /\ Cardinality(L(e)) # Cardinality(L(f))
    <3> HIDE DEF L
    <3> QED
      BY <1>3, <2>1, FS_Subset
  <2> QED
    BY <1>3, <2>2
<1>5. ASSUME NEW e \in made, NEW f \in made, Fewer(e, made) = Fewer(f, made) PROVE e = f
  <2> SUFFICES ASSUME e # f PROVE FALSE
    OBVIOUS
  <2>1. e < f \/ f < e
    BY <1>2
  <2>2. Fewer(e, made) \in Nat /\ Fewer(f, made) \in Nat
    BY <1>3
  <2> QED
    BY <1>4, <1>5, <2>1, <2>2
<1>6. ASSUME NEW e \in made PROVE Fewer(e, made) \in 0..(n - 1)
  <2>1. Fewer(e, made) \in Nat /\ Fewer(e, made) < n
    BY <1>3
  <2> HIDE DEF n
  <2> QED
    BY <1>1, <2>1
<1>7. \A k \in 1..n : \E e \in made : Fewer(e, made) = k - 1
  <2> DEFINE F == [e \in made |-> Fewer(e, made)]
             T == 0..(n - 1)
  <2>1. IsFiniteSet(T) /\ Cardinality(T) = n
    BY <1>1, FS_Interval
  <2>2. F \in [made -> T] /\ \A e, f \in made : F[e] = F[f] => e = f
    BY <1>5, <1>6
  <2>3. F \in Injection(made, T)
    BY <2>2 DEF Injection, IsInjective
  <2> HIDE DEF F, T
  <2>4. F \in Surjection(made, T)
    BY <1>1, <2>1, <2>3, FS_Injection
  <2>5. ASSUME NEW k \in 1..n PROVE \E e \in made : Fewer(e, made) = k - 1
    <3>1. k - 1 \in T
      BY <1>1 DEF T
    <3>2. PICK e \in made : F[e] = k - 1
      BY <2>4, <3>1 DEF Surjection
    <3> QED
      BY <3>2 DEF F
  <2> QED
    BY <2>5
<1> QED
  BY <1>1, <1>5, <1>6, <1>7

(* Each edge gets one of the new vertices, at the number Numbers gives it.   *)
LEMMA VertexOfEdge ==
    ASSUME NEW made, made \subseteq CellEdges, NEW at
    PROVE  LET verts == Vertices(at, made) IN
           /\ Len(verts) = Cardinality(made) /\ DOMAIN verts = 1..Cardinality(made)
           /\ \A e \in made : verts[Fewer(e, made) + 1] = LatticeEdge(e, at)
           /\ \A k \in DOMAIN verts : \E e \in made : k = Fewer(e, made) + 1
<1> DEFINE n == Cardinality(made)
           pick(k) == CHOOSE e \in made : Fewer(e, made) = k - 1
           verts == Vertices(at, made)
<1>1. /\ n \in Nat /\ \A e \in made : Fewer(e, made) \in 0..(n - 1)
      /\ \A e, f \in made : Fewer(e, made) = Fewer(f, made) => e = f
      /\ \A k \in 1..n : \E e \in made : Fewer(e, made) = k - 1
  BY Ranks
<1>2. verts = [k \in 1..n |-> LatticeEdge(pick(k), at)]
  BY DEF Vertices
<1>3. ASSUME NEW e \in made PROVE pick(Fewer(e, made) + 1) = e /\ Fewer(e, made) + 1 \in 1..n
  <2>1. (Fewer(e, made) + 1) - 1 = Fewer(e, made) /\ Fewer(e, made) + 1 \in 1..n
    BY <1>1
  <2>2. \A f \in made : Fewer(f, made) = (Fewer(e, made) + 1) - 1 <=> f = e
    BY <1>1, <2>1
  <2>3. pick(Fewer(e, made) + 1) = CHOOSE f \in made : Fewer(f, made) = (Fewer(e, made) + 1) - 1
    OBVIOUS
  <2> HIDE DEF pick
  <2> QED
    BY <2>1, <2>2, <2>3
<1> HIDE DEF pick, verts, n
<1>4. Len(verts) = n /\ DOMAIN verts = 1..n
  BY <1>1, <1>2
<1>5. \A e \in made : verts[Fewer(e, made) + 1] = LatticeEdge(e, at)
  BY <1>2, <1>3
<1>6. ASSUME NEW k \in 1..n PROVE \E e \in made : k = Fewer(e, made) + 1
  <2>1. PICK e \in made : Fewer(e, made) = k - 1
    BY <1>1
  <2>2. k = Fewer(e, made) + 1
    BY <1>1, <2>1
  <2> QED
    BY <2>2
<1> QED
  BY <1>4, <1>5, <1>6 DEF verts, n

-----------------------------------------------------------------------------
(* Of two, one is in a set.                                                 *)
LEMMA OneOfTwo ==
    \A a, b, S : a # b => (Cardinality({a, b} \cap S) = 1 <=> ~(a \in S <=> b \in S))
<1> SUFFICES ASSUME NEW a, NEW b, NEW S, a # b
             PROVE  Cardinality({a, b} \cap S) = 1 <=> ~(a \in S <=> b \in S)
  OBVIOUS
<1>1. Cardinality({a}) = 1 /\ Cardinality({b}) = 1 /\ IsFiniteSet({a})
  BY FS_Singleton
<1>2. Cardinality({a, b}) = 2
  <2>1. {a, b} = {a} \cup {b}
    OBVIOUS
  <2> QED
    BY <1>1, <2>1, FS_AddElement
<1>3. CASE a \in S /\ b \in S
  <2>1. {a, b} \cap S = {a, b}
    BY <1>3
  <2> QED
    BY <1>2, <1>3, <2>1
<1>4. CASE a \in S /\ b \notin S
  <2>1. {a, b} \cap S = {a}
    BY <1>4
  <2> QED
    BY <1>1, <1>4, <2>1
<1>5. CASE a \notin S /\ b \in S
  <2>1. {a, b} \cap S = {b}
    BY <1>5
  <2> QED
    BY <1>1, <1>5, <2>1
<1>6. CASE a \notin S /\ b \notin S
  <2>1. {a, b} \cap S = {}
    BY <1>6
  <2>2. Cardinality({a, b} \cap S) = 0
    BY <2>1, FS_EmptySet
  <2> QED
    BY <1>6, <2>2
<1> QED
  BY <1>3, <1>4, <1>5, <1>6

(* Corners and edges of a cell are at different places.                      *)
LEMMA CornersApart ==
    ASSUME NEW x \in Nat, NEW y \in Nat, NEW at, at = <<x, y>>, slice \in Nat
    PROVE  \A c, d \in 0..7 : Up(c, at) = Up(d, at) => c = d
<1>1. /\ Up(0, at) = <<x, y + 1, slice>> /\ Up(1, at) = <<x + 1, y + 1, slice>>
      /\ Up(2, at) = <<x + 1, y, slice>> /\ Up(3, at) = <<x, y, slice>>
      /\ Up(4, at) = <<x, y + 1, 1 + slice>> /\ Up(5, at) = <<x + 1, y + 1, 1 + slice>>
      /\ Up(6, at) = <<x + 1, y, 1 + slice>> /\ Up(7, at) = <<x, y, 1 + slice>>
  BY Corners DEF Point
<1>2. \A c \in 0..7 : c = 0 \/ c = 1 \/ c = 2 \/ c = 3 \/ c = 4 \/ c = 5 \/ c = 6 \/ c = 7
  OBVIOUS
<1> QED
  BY <1>1, <1>2

Ended(e, at, a, b) ==
    /\ a \in 0..7 /\ b \in 0..7 /\ a # b /\ EdgeEnds(e) = {a, b}
    /\ LatticeEdge(e, at) = {Up(a, at), Up(b, at)} /\ Up(a, at) # Up(b, at)

(* An edge joins two corners, and lies between two points.                   *)
LEMMA TwoEnds ==
    ASSUME NEW x \in Nat, NEW y \in Nat, NEW at, at = <<x, y>>, slice \in Nat, NEW e \in CellEdges
    PROVE  \E a, b : Ended(e, at, a, b)
<1>1. \A c, d \in 0..7 : Up(c, at) = Up(d, at) => c = d
  BY CornersApart
<1>2. \E a, b \in 0..7 : a # b /\ EdgeEnds(e) = {a, b}
  <2>1. e \in {0, 1, 2, 3, 4, 5, 6, 7, 8, 9, 10, 11}
    BY DEF CellEdges
  <2> QED
    BY <2>1, Ends
<1>3. PICK a \in 0..7, b \in 0..7 : a # b /\ EdgeEnds(e) = {a, b}
  BY <1>2
<1>4. LatticeEdge(e, at) = {Up(c, at) : c \in EdgeEnds(e)}
  BY DEF LatticeEdge, Up
<1>5. LatticeEdge(e, at) = {Up(a, at), Up(b, at)}
  BY <1>3, <1>4
<1>6. Up(a, at) # Up(b, at)
  BY <1>1, <1>3
<1>7. Ended(e, at, a, b)
  BY <1>3, <1>5, <1>6 DEF Ended
<1> QED
  BY <1>7

(* Two edges of a cell differ in their ends ...                              *)
LEMMA EndsApart ==
    ASSUME NEW e \in CellEdges, NEW f \in CellEdges, EdgeEnds(e) = EdgeEnds(f)
    PROVE  e = f
<1>1. \A i \in CellEdges : i \in {0, 1, 2, 3, 4, 5, 6, 7, 8, 9, 10, 11}
  BY DEF CellEdges
<1> QED
  BY <1>1, Ends

(* ... and are different lattice edges.                                      *)
LEMMA EdgesApart ==
    ASSUME NEW x \in Nat, NEW y \in Nat, NEW at, at = <<x, y>>, slice \in Nat,
           NEW e \in CellEdges, NEW f \in CellEdges, LatticeEdge(e, at) = LatticeEdge(f, at)
    PROVE  e = f
<1>1. PICK a, b : Ended(e, at, a, b)
  BY TwoEnds
<1>2. PICK i, j : Ended(f, at, i, j)
  BY TwoEnds
<1>3. \A c, d \in 0..7 : Up(c, at) = Up(d, at) => c = d
  BY CornersApart
<1>4. {a, b} = {i, j}
  BY <1>1, <1>2, <1>3 DEF Ended
<1> QED
  BY <1>1, <1>2, <1>4, EndsApart DEF Ended

(* edgeTable has the edges with one end below the isovalue.                  *)
LEMMA CrossingIs ==
    ASSUME NEW at \in Cells, slice \in Nat, NEW e \in CellEdges
    PROVE  Crossing(LatticeEdge(e, at)) <=> e \in Crossed(cellIndex(at))
<1> DEFINE x == at[1]
           y == at[2]
           B == {c \in 0..7 : Below(Corner(c, at))}
<1>1. x \in Nat /\ y \in Nat /\ at = <<x, y>>
  BY MeshAssumption DEF Cells
<1>2. PICK a, b : Ended(e, at, a, b)
  BY <1>1, TwoEnds
<1> DEFINE p == Up(a, at)
           q == Up(b, at)
<1>10. /\ a \in 0..7 /\ b \in 0..7 /\ a # b /\ EdgeEnds(e) = {a, b}
       /\ LatticeEdge(e, at) = {p, q} /\ p # q
  BY <1>2 DEF Ended
<1>3. e \in Crossed(cellIndex(at)) <=> Cardinality({a, b} \cap B) = 1
  <2>1. B \in SUBSET (0..7)
    OBVIOUS
  <2> HIDE DEF B
  <2>2. Crossed(IndexOf(B)) = {f \in CellEdges : Cardinality(EdgeEnds(f) \cap B) = 1}
    BY <2>1, TablesAssumption
  <2>3. cellIndex(at) = IndexOf(B)
    BY DEF cellIndex, B
  <2> QED
    BY <1>10, <2>2, <2>3
<1>4. Cardinality({a, b} \cap B) = 1 <=> ~(a \in B <=> b \in B)
  <2> HIDE DEF B
  <2> QED
    BY <1>10, OneOfTwo, Zenon
<1> DEFINE Q(v) == <<v[1], v[2]>> \in slab[v[3] - slice + 1]
           S == {v \in LatticeEdge(e, at) : Q(v)}
<1>5. Crossing(LatticeEdge(e, at)) <=> ~(Q(p) <=> Q(q))
  <2>1. Crossing(LatticeEdge(e, at)) <=> Cardinality(S) = 1
    BY DEF Crossing
  <2> HIDE DEF Q, p, q
  <2> DEFINE T == {v \in {p, q} : Q(v)}
  <2>2. S = {p, q} \cap T /\ (p \in T <=> Q(p)) /\ (q \in T <=> Q(q))
    BY <1>10
  <2> HIDE DEF S, T
  <2>3. Cardinality({p, q} \cap T) = 1 <=> ~(p \in T <=> q \in T)
    BY <1>10, OneOfTwo, Zenon
  <2> QED
    BY <2>1, <2>2, <2>3
<1>6. ASSUME NEW c \in 0..7 PROVE Q(Up(c, at)) <=> c \in B
  <2> DEFINE r == Corner(c, at)
  <2>1. r = <<r[1], r[2], r[3]>> /\ r[3] = c \div 4
    BY DEF Corner
  <2>2. r[3] \in Nat
    BY <2>1
  <2> HIDE DEF r
  <2>3. Up(c, at) = <<r[1], r[2], r[3] + slice>>
    BY <2>1 DEF Up, r
  <2>4. Q(Up(c, at)) <=> <<r[1], r[2]>> \in slab[(r[3] + slice) - slice + 1]
    BY <2>3
  <2>5. (r[3] + slice) - slice + 1 = r[3] + 1
    BY <2>2
  <2>6. Below(r) <=> <<r[1], r[2]>> \in slab[r[3] + 1]
    BY DEF Below
  <2> QED
    BY <2>4, <2>5, <2>6 DEF r
<1> HIDE DEF Q, B, p, q
<1> QED
  BY <1>10, <1>3, <1>4, <1>5, <1>6 DEF p, q

(* An edge shared with a cell marched earlier is one of the slots that are   *)
(* handed on; two edges of one cell are never the same.                      *)
LEMMA Geometry ==
    ASSUME NEW c \in Cells, NEW e \in CellEdges, NEW d \in Cells, NEW f \in CellEdges,
           slice \in Nat, LatticeEdge(e, c) = LatticeEdge(f, d)
    PROVE  /\ d[2] < c[2] => e \in DOMAIN RearSlots /\ c = Rear(<<c[1], c[2] - 1>>)
           /\ d[2] = c[2] /\ d[1] < c[1] => e \in DOMAIN RightSlots
           /\ d = c => e = f
<1> DEFINE x == c[1]
           y == c[2]
           u == d[1]
           v == d[2]
<1>1. x \in Nat /\ y \in Nat /\ c = <<x, y>> /\ u \in Nat /\ v \in Nat /\ d = <<u, v>>
  BY MeshAssumption DEF Cells
<1> HIDE DEF x, y, u, v
<1>2. \A i \in CellEdges : i \in {0, 1, 2, 3, 4, 5, 6, 7, 8, 9, 10, 11}
  BY DEF CellEdges
<1>3. \A p \in LatticeEdge(f, d) : p[1] \in {u, u + 1} /\ p[2] \in {v, v + 1}
  BY <1>1, <1>2, LatticeEdges DEF Point
<1>4. e \notin DOMAIN RightSlots => \E p \in LatticeEdge(e, c) : p[1] = x + 1
  <2>1. /\ Point(x + 1, y + 1, 0) \in LatticeEdge(0, c) /\ Point(x + 1, y, 0) \in LatticeEdge(1, c)
        /\ Point(x + 1, y, 0) \in LatticeEdge(2, c) /\ Point(x + 1, y + 1, 1) \in LatticeEdge(4, c)
        /\ Point(x + 1, y, 1) \in LatticeEdge(5, c) /\ Point(x + 1, y, 1) \in LatticeEdge(6, c)
        /\ Point(x + 1, y + 1, 0) \in LatticeEdge(9, c) /\ Point(x + 1, y, 0) \in LatticeEdge(10, c)
    BY <1>1, LatticeEdges
  <2>2. e \notin DOMAIN RightSlots => e \in {0, 1, 2, 4, 5, 6, 9, 10}
    BY <1>2, Slots
  <2>3. \A b, z : Point(x + 1, b, z)[1] = x + 1
    BY DEF Point
  <2> QED
    BY <2>1, <2>2, <2>3
<1>5. e \notin DOMAIN RearSlots => \E p \in LatticeEdge(e, c) : p[2] = y + 1
  <2>1. /\ Point(x, y + 1, 0) \in LatticeEdge(0, c) /\ Point(x + 1, y + 1, 0) \in LatticeEdge(1, c)
        /\ Point(x, y + 1, 0) \in LatticeEdge(3, c) /\ Point(x, y + 1, 1) \in LatticeEdge(4, c)
        /\ Point(x + 1, y + 1, 1) \in LatticeEdge(5, c) /\ Point(x, y + 1, 1) \in LatticeEdge(7, c)
        /\ Point(x, y + 1, 0) \in LatticeEdge(8, c) /\ Point(x + 1, y + 1, 0) \in LatticeEdge(9, c)
    BY <1>1, LatticeEdges
  <2>2. e \notin DOMAIN RearSlots => e \in {0, 1, 3, 4, 5, 7, 8, 9}
    BY <1>2, Slots
  <2>3. \A a, z : Point(a, y + 1, z)[2] = y + 1
    BY DEF Point
  <2> QED
    BY <2>1, <2>2, <2>3
<1>6. v < y => e \in DOMAIN RearSlots
  BY <1>1, <1>3, <1>5
<1>7. u < x => e \in DOMAIN RightSlots
  BY <1>1, <1>3, <1>4
<1>8. c = d => e = f
  <2> SUFFICES ASSUME c = d PROVE e = f
    OBVIOUS
  <2>1. LatticeEdge(e, c) = LatticeEdge(f, c)
    OBVIOUS
  <2> QED
    BY <1>1, <2>1, EdgesApart
<1>9. c = Rear(<<x, y - 1>>)
  <2>1. (y - 1) + 1 = y
    BY <1>1
  <2> QED
    BY <1>1, <2>1 DEF Rear
<1> QED
  BY <1>6, <1>7, <1>8, <1>9 DEF x, y, u, v

-----------------------------------------------------------------------------
(* What holds between two cells.                                             *)

Edges3D == SUBSET (Nat \X Nat \X Nat)
TagsUpTo(n) == (0..(n - 1)) \cup {NO_EDGE}

MeshTyped ==
    /\ slice \in Nat
    /\ cell \in Cells \/ cell = <<0, NY - 1>> \/ cell = Idle
    /\ iso = [verts |-> iso.verts, tris |-> iso.tris]
    /\ iso.verts \in Seq(Edges3D)
    /\ iso.tris \in Seq([1..3 -> 0..(Len(iso.verts) - 1)])
    /\ piEdges \in [Cells -> [CellEdges -> TagsUpTo(Len(iso.verts))]]
    /\ cellVerts \in [CellEdges -> TagsUpTo(Len(iso.verts))]
    /\ vertices \in Seq(Edges3D)
    /\ faces \in Seq(Nat \X Nat \X Nat)

\* The cells are marched row by row.
Earlier(d, at) == d[2] < at[2] \/ (d[2] = at[2] /\ d[1] < at[1])

\* A tag on a crossed edge names a vertex of that edge.
TagsMeant(tags, verts) ==
    \A c \in Cells, e \in CellEdges :
        (tags[c][e] # NO_EDGE /\ Crossing(LatticeEdge(e, c)))
        => verts[tags[c][e] + 1] = LatticeEdge(e, c)

\* A marched cell has handed the crossed edges on to its two neighbours.
Handed(at, tags) ==
    \A d \in Cells : Earlier(d, at) =>
        /\ Right(d) \in Cells =>
              \A e \in DOMAIN RightSlots :
                  Crossing(LatticeEdge(e, Right(d))) => tags[Right(d)][e] # NO_EDGE
        /\ Rear(d) \in Cells =>
              \A e \in DOMAIN RearSlots :
                  Crossing(LatticeEdge(e, Rear(d))) => tags[Rear(d)][e] # NO_EDGE

\* A vertex is on a crossed edge of a marched cell, and no edge has two.
MadeEarlier(at, verts) ==
    \A m \in DOMAIN verts :
        /\ Crossing(verts[m])
        /\ \E d \in Cells, f \in CellEdges : Earlier(d, at) /\ verts[m] = LatticeEdge(f, d)
OnceEach(verts) == \A m, n \in DOMAIN verts : verts[m] = verts[n] => m = n

TagsInv ==
    cell # Idle =>
        /\ TagsMeant(piEdges, iso.verts) /\ Handed(cell, piEdges)
        /\ MadeEarlier(cell, iso.verts) /\ OnceEach(iso.verts)

(* The cell being marched.                                                   *)
CrossedHere == Crossed(cellIndex(cell))
MadeHere == Untagged(cell, CrossedHere)
NumbersHere == Numbers(cell, CrossedHere, MadeHere)
NewVerts == iso.verts \o Vertices(cell, MadeHere)
NewTags == Tagged(cell, NumbersHere)
NewTris == iso.tris \o Triangles(cellIndex(cell), NumbersHere)

Marching == MeshTyped /\ TagsInv /\ cell \in Cells

(* The column and the row of a cell; Idle is none.                           *)
LEMMA CellParts ==
    ASSUME NEW c \in Cells
    PROVE  /\ c[1] \in 0..(NX - 2) /\ c[2] \in 0..(NY - 2) /\ c = <<c[1], c[2]>>
           /\ c # Idle /\ c[1] \in Nat /\ c[2] \in Nat /\ c[2] # NY - 1
<1>1. NX \in Nat /\ NY \in Nat /\ NX > 1 /\ NY > 1
  BY MeshAssumption
<1>2. c[1] \in 0..(NX - 2) /\ c[2] \in 0..(NY - 2) /\ c = <<c[1], c[2]>>
  BY DEF Cells
<1>3. c \in (0..(NX - 2)) \X (0..(NY - 1))
  BY <1>1, <1>2
<1> QED
  BY <1>1, <1>2, <1>3, MeshAssumption

(* The edges the current cell wants vertices on, and those it makes them on. *)
LEMMA CrossedIs ==
    ASSUME Marching
    PROVE  /\ CrossedHere = {e \in CellEdges : Crossing(LatticeEdge(e, cell))}
           /\ MadeHere = {e \in CrossedHere : piEdges[cell][e] = NO_EDGE}
           /\ MadeHere \subseteq CrossedHere /\ MadeHere \subseteq CellEdges
<1>1. CrossedHere \subseteq CellEdges
  BY DEF CrossedHere, Crossed
<1>2. \A e \in CellEdges : Crossing(LatticeEdge(e, cell)) <=> e \in CrossedHere
  BY CrossingIs DEF Marching, MeshTyped, CrossedHere
<1>3. CrossedHere = {e \in CellEdges : Crossing(LatticeEdge(e, cell))}
  BY <1>1, <1>2
<1> QED
  BY <1>1, <1>3 DEF MadeHere, Untagged

(* A lattice edge is a set of points with natural coordinates.               *)
LEMMA LatticeType ==
    ASSUME NEW c \in Cells, NEW e \in CellEdges, slice \in Nat
    PROVE  LatticeEdge(e, c) \in Edges3D
<1>1. PICK a, b : Ended(e, c, a, b)
  BY CellParts, TwoEnds
<1>2. \A x, y \in Nat, z \in {0, 1} : Point(x, y, z) \in Nat \X Nat \X Nat
  BY DEF Point
<1>3. c[1] \in Nat /\ c[2] \in Nat /\ c[1] + 1 \in Nat /\ c[2] + 1 \in Nat /\ c = <<c[1], c[2]>>
  BY CellParts
<1>4. ASSUME NEW i \in 0..7 PROVE Up(i, c) \in Nat \X Nat \X Nat
  <2>1. i \in {0, 1, 2, 3, 4, 5, 6, 7}
    OBVIOUS
  <2> QED
    BY <1>2, <1>3, <2>1, Corners
<1> QED
  BY <1>1, <1>4 DEF Ended, Edges3D

(* The vertices after the cell: the old ones, then one for each edge in MadeHere. *)
LEMMA NewVertsAre ==
    ASSUME Marching
    PROVE  /\ NewVerts \in Seq(Edges3D)
           /\ Len(iso.verts) \in Nat
           /\ Len(NewVerts) \in Nat /\ Len(iso.verts) <= Len(NewVerts)
           /\ \A m \in 1..Len(iso.verts) : m \in 1..Len(NewVerts) /\ NewVerts[m] = iso.verts[m]
           /\ \A e \in MadeHere :
                 /\ Len(iso.verts) + Fewer(e, MadeHere) \in 0..(Len(NewVerts) - 1)
                 /\ NewVerts[Len(iso.verts) + Fewer(e, MadeHere) + 1] = LatticeEdge(e, cell)
           /\ \A m \in 1..Len(NewVerts) : m > Len(iso.verts) =>
                 \E e \in MadeHere : m = Len(iso.verts) + Fewer(e, MadeHere) + 1
<1> DEFINE old == iso.verts
           new == Vertices(cell, MadeHere)
           n == Len(old)
           k == Cardinality(MadeHere)
<1>1. MadeHere \subseteq CellEdges
  BY CrossedIs
<1>2. /\ k \in Nat /\ Len(new) = k /\ DOMAIN new = 1..k
      /\ \A e \in MadeHere : new[Fewer(e, MadeHere) + 1] = LatticeEdge(e, cell)
      /\ \A i \in 1..k : \E e \in MadeHere : i = Fewer(e, MadeHere) + 1
      /\ \A e \in MadeHere : Fewer(e, MadeHere) \in 0..(k - 1)
  BY <1>1, VertexOfEdge, Ranks
<1>3. old \in Seq(Edges3D) /\ n \in Nat
  BY DEF Marching, MeshTyped
<1>4. new \in Seq(Edges3D)
  <2>1. \A i \in 1..k : new[i] \in Edges3D
    BY <1>1, <1>2, LatticeType DEF Marching, MeshTyped
  <2>2. new = [i \in 1..k |-> new[i]]
    BY <1>2 DEF Vertices
  <2> HIDE DEF new, k
  <2> QED
    BY <1>2, <2>1, <2>2
<1> HIDE DEF old, new, k
<1>5. NewVerts = old \o new
  BY DEF NewVerts, old, new
<1>6. /\ NewVerts \in Seq(Edges3D) /\ Len(NewVerts) = n + k
      /\ \A m \in 1..(n + k) : NewVerts[m] = IF m <= n THEN old[m] ELSE new[m - n]
  BY <1>2, <1>3, <1>4, <1>5
<1> HIDE DEF n
<1>7. \A m \in 1..n : m \in 1..(n + k) /\ NewVerts[m] = old[m]
  BY <1>2, <1>3, <1>6
<1>8. ASSUME NEW e \in MadeHere
      PROVE  /\ n + Fewer(e, MadeHere) \in 0..((n + k) - 1)
             /\ NewVerts[n + Fewer(e, MadeHere) + 1] = LatticeEdge(e, cell)
  <2> DEFINE r == Fewer(e, MadeHere)
  <2>1. r \in 0..(k - 1) /\ new[r + 1] = LatticeEdge(e, cell)
    BY <1>2
  <2> HIDE DEF r
  <2>2. n + r \in 0..((n + k) - 1) /\ n + r + 1 \in 1..(n + k) /\ ~(n + r + 1 <= n)
        /\ (n + r + 1) - n = r + 1
    BY <1>2, <1>3, <2>1
  <2>3. NewVerts[n + r + 1] = new[r + 1]
    BY <1>6, <2>2
  <2> QED
    BY <2>1, <2>2, <2>3 DEF r
<1>9. ASSUME NEW m \in 1..(n + k), m > n
      PROVE  \E e \in MadeHere : m = n + Fewer(e, MadeHere) + 1
  <2>1. m - n \in 1..k
    BY <1>2, <1>3, <1>9
  <2>2. PICK e \in MadeHere : m - n = Fewer(e, MadeHere) + 1
    BY <1>2, <2>1
  <2>3. Fewer(e, MadeHere) \in 0..(k - 1)
    BY <1>2
  <2> DEFINE r == Fewer(e, MadeHere)
  <2>4. r \in Nat /\ m - n = r + 1 /\ m \in Nat
    BY <2>2, <2>3
  <2> HIDE DEF r
  <2>5. m = n + r + 1
    BY <1>3, <2>4
  <2> QED
    BY <2>5 DEF r
<1> QED
  BY <1>2, <1>3, <1>6, <1>7, <1>8, <1>9 DEF n, old

\* What a cell holds for a crossed edge: the vertex of the edge.
LEMMA HeldRight ==
    ASSUME Marching
    PROVE  /\ NumbersHere \in [CellEdges -> TagsUpTo(Len(NewVerts))]
           /\ \A e \in CrossedHere :
                 /\ NumbersHere[e] \in 0..(Len(NewVerts) - 1) /\ NumbersHere[e] # NO_EDGE
                 /\ NewVerts[NumbersHere[e] + 1] = LatticeEdge(e, cell)
<1> DEFINE n == Len(iso.verts)
           l == Len(NewVerts)
<1>1. /\ n \in Nat /\ l \in Nat /\ n <= l
      /\ \A m \in 1..n : NewVerts[m] = iso.verts[m]
      /\ \A e \in MadeHere :
            /\ n + Fewer(e, MadeHere) \in 0..(l - 1)
            /\ NewVerts[n + Fewer(e, MadeHere) + 1] = LatticeEdge(e, cell)
  BY NewVertsAre
<1>2. /\ CrossedHere = {e \in CellEdges : Crossing(LatticeEdge(e, cell))}
      /\ MadeHere = {e \in CrossedHere : piEdges[cell][e] = NO_EDGE}
  BY CrossedIs
<1>3. cell \in Cells /\ cell # Idle
  BY CellParts DEF Marching
<1>4. \A e \in CellEdges : piEdges[cell][e] \in TagsUpTo(n) /\ cellVerts[e] \in TagsUpTo(n)
  BY <1>3 DEF Marching, MeshTyped
<1>5. NO_EDGE \notin Nat
  BY MeshAssumption
<1>6. \A e \in CellEdges :
          NumbersHere[e] = IF e \in MadeHere THEN n + Fewer(e, MadeHere)
                           ELSE IF e \in CrossedHere THEN piEdges[cell][e] ELSE cellVerts[e]
  BY DEF NumbersHere, Numbers
<1> HIDE DEF n, l
<1>7. TagsUpTo(n) \subseteq TagsUpTo(l) /\ 0..(l - 1) \subseteq TagsUpTo(l)
  BY <1>1 DEF TagsUpTo
<1>8. \A e \in CellEdges : NumbersHere[e] \in TagsUpTo(l)
  BY <1>1, <1>4, <1>6, <1>7
<1>9. NumbersHere \in [CellEdges -> TagsUpTo(l)]
  BY <1>8 DEF NumbersHere, Numbers
<1>10. ASSUME NEW e \in CrossedHere
       PROVE  /\ NumbersHere[e] \in 0..(l - 1) /\ NumbersHere[e] # NO_EDGE
              /\ NewVerts[NumbersHere[e] + 1] = LatticeEdge(e, cell)
  <2>1. e \in CellEdges /\ Crossing(LatticeEdge(e, cell))
    BY <1>2
  <2>2. CASE e \in MadeHere
    <3>1. NumbersHere[e] = n + Fewer(e, MadeHere)
      BY <1>6, <2>1, <2>2
    <3>2. \A i \in 0..(l - 1) : i # NO_EDGE
      BY <1>5, <1>1
    <3> QED
      BY <1>1, <2>2, <3>1, <3>2
  <2>3. CASE e \notin MadeHere
    <3>1. NumbersHere[e] = piEdges[cell][e] /\ piEdges[cell][e] # NO_EDGE
      BY <1>2, <1>6, <2>1, <2>3
    <3>2. piEdges[cell][e] \in 0..(n - 1)
      BY <1>4, <2>1, <3>1 DEF TagsUpTo
    <3>3. iso.verts[piEdges[cell][e] + 1] = LatticeEdge(e, cell)
      BY <1>3, <2>1, <3>1 DEF Marching, TagsInv, TagsMeant
    <3>4. piEdges[cell][e] + 1 \in 1..n /\ piEdges[cell][e] \in 0..(l - 1)
      BY <1>1, <3>2
    <3> QED
      BY <1>1, <3>1, <3>3, <3>4
  <2> QED
    BY <2>2, <2>3
<1> QED
  BY <1>9, <1>10 DEF l

\* A vertex is made only for an edge that has none.
LEMMA MadeIsNew ==
    ASSUME Marching, NEW e \in MadeHere
    PROVE  \A m \in DOMAIN iso.verts : iso.verts[m] # LatticeEdge(e, cell)
<1> SUFFICES ASSUME NEW m \in DOMAIN iso.verts, iso.verts[m] = LatticeEdge(e, cell) PROVE FALSE
  OBVIOUS
<1>1. cell \in Cells /\ cell # Idle /\ slice \in Nat
  BY CellParts DEF Marching, MeshTyped
<1>2. e \in CellEdges /\ Crossing(LatticeEdge(e, cell)) /\ piEdges[cell][e] = NO_EDGE
  BY CrossedIs
<1>3. PICK d \in Cells, f \in CellEdges : Earlier(d, cell) /\ LatticeEdge(e, cell) = LatticeEdge(f, d)
  BY <1>1 DEF Marching, TagsInv, MadeEarlier
<1>4. Handed(cell, piEdges)
  BY <1>1 DEF Marching, TagsInv
<1> DEFINE x == cell[1]
           y == cell[2]
<1>5. x \in 0..(NX - 2) /\ y \in 0..(NY - 2) /\ cell = <<x, y>> /\ NX \in Nat /\ NY \in Nat
  BY <1>1, CellParts, MeshAssumption
<1>6. d[1] \in Nat /\ d[2] \in Nat
  BY CellParts
<1>7. CASE d[2] < y
  <2> DEFINE r == <<x, y - 1>>
  <2>1. r \in Cells /\ Earlier(r, cell) /\ Rear(r) = cell
    <3>1. y - 1 \in 0..(NY - 2) /\ y - 1 < y /\ (y - 1) + 1 = y
      BY <1>5, <1>6, <1>7
    <3> HIDE DEF x, y
    <3>2. r \in Cells /\ Rear(r) = cell
      BY <1>5, <3>1 DEF Cells, Rear
    <3> QED
      BY <3>1, <3>2 DEF Earlier, y
  <2>2. e \in DOMAIN RearSlots
    BY <1>1, <1>2, <1>3, <1>7, Geometry
  <2> HIDE DEF r
  <2> QED
    BY <1>1, <1>2, <1>4, <2>1, <2>2 DEF Handed
<1>8. CASE d[2] = y /\ d[1] < x
  <2> DEFINE l == <<x - 1, y>>
  <2>1. l \in Cells /\ Earlier(l, cell) /\ Right(l) = cell
    <3>1. x - 1 \in 0..(NX - 2) /\ x - 1 < x /\ (x - 1) + 1 = x
      BY <1>5, <1>6, <1>8
    <3> HIDE DEF x, y
    <3>2. l \in Cells /\ Right(l) = cell
      BY <1>5, <3>1 DEF Cells, Right
    <3> QED
      BY <3>1, <3>2 DEF Earlier, x, y
  <2>2. e \in DOMAIN RightSlots
    BY <1>1, <1>2, <1>3, <1>8, Geometry
  <2> HIDE DEF l
  <2> QED
    BY <1>1, <1>2, <1>4, <2>1, <2>2 DEF Handed
<1> QED
  BY <1>3, <1>7, <1>8 DEF Earlier

\* The tags after it: as before, or the number the cell holds for that edge.
LEMMA NewTagsAre ==
    ASSUME Marching
    PROVE  /\ NewTags \in [Cells -> [CellEdges -> TagsUpTo(Len(NewVerts))]]
           /\ \A c \in Cells, e \in CellEdges : Crossing(LatticeEdge(e, c)) =>
                 \/ NewTags[c][e] = piEdges[c][e]
                 \/ \E g \in CrossedHere :
                       NewTags[c][e] = NumbersHere[g] /\ LatticeEdge(g, cell) = LatticeEdge(e, c)
           /\ Right(cell) \in Cells => \A e \in DOMAIN RightSlots :
                 Crossing(LatticeEdge(e, Right(cell))) => NewTags[Right(cell)][e] # NO_EDGE
           /\ Rear(cell) \in Cells => \A e \in DOMAIN RearSlots :
                 Crossing(LatticeEdge(e, Rear(cell))) => NewTags[Rear(cell)][e] # NO_EDGE
<1> DEFINE n == Len(iso.verts)
           l == Len(NewVerts)
           right == Right(cell)
           rear == Rear(cell)
<1>1. /\ NumbersHere \in [CellEdges -> TagsUpTo(l)]
      /\ \A e \in CrossedHere : NumbersHere[e] # NO_EDGE
  BY HeldRight
<1>2. CrossedHere = {e \in CellEdges : Crossing(LatticeEdge(e, cell))}
  BY CrossedIs
<1>3. cell \in Cells /\ cell[1] \in Nat /\ cell[2] \in Nat /\ cell = <<cell[1], cell[2]>> /\ slice \in Nat
  BY CellParts DEF Marching, MeshTyped
<1>4. /\ \A e \in DOMAIN RightSlots :
            RightSlots[e] \in CellEdges /\ LatticeEdge(e, right) = LatticeEdge(RightSlots[e], cell)
      /\ \A e \in DOMAIN RearSlots :
            RearSlots[e] \in CellEdges /\ LatticeEdge(e, rear) = LatticeEdge(RearSlots[e], cell)
  BY <1>3, SameEdge
<1>5. right # cell /\ rear # cell /\ right # rear
  <2>1. right[1] = cell[1] + 1 /\ right[2] = cell[2] /\ rear[1] = cell[1] /\ rear[2] = cell[2] + 1
    BY DEF Right, Rear
  <2> QED
    BY <1>3, <2>1
<1>6. \A c \in Cells, e \in CellEdges :
          NewTags[c][e] = IF c = cell /\ NumbersHere[e] # NO_EDGE THEN NumbersHere[e]
                          ELSE IF c = right /\ e \in DOMAIN RightSlots THEN NumbersHere[RightSlots[e]]
                          ELSE IF c = rear /\ e \in DOMAIN RearSlots THEN NumbersHere[RearSlots[e]]
                          ELSE piEdges[c][e]
  BY DEF NewTags, Tagged, Right, Rear
<1>7. DOMAIN RightSlots \subseteq CellEdges /\ DOMAIN RearSlots \subseteq CellEdges
  BY Slots DEF CellEdges
<1>8. TagsUpTo(n) \subseteq TagsUpTo(l)
  <2>1. n \in Nat /\ l \in Nat /\ n <= l
    BY NewVertsAre
  <2> HIDE DEF n, l
  <2> QED
    BY <2>1 DEF TagsUpTo
<1>9. \A c \in Cells, e \in CellEdges : piEdges[c][e] \in TagsUpTo(n)
  BY DEF Marching, MeshTyped
<1> HIDE DEF n, l, right, rear
<1>10. \A c \in Cells, e \in CellEdges : NewTags[c][e] \in TagsUpTo(l)
  BY <1>1, <1>4, <1>6, <1>8, <1>9
<1>11. NewTags \in [Cells -> [CellEdges -> TagsUpTo(l)]]
  <2>1. NewTags = [c \in Cells |-> [e \in CellEdges |-> NewTags[c][e]]]
    BY DEF NewTags, Tagged
  <2> QED
    BY <1>10, <2>1
<1>12. ASSUME NEW c \in Cells, NEW e \in CellEdges, Crossing(LatticeEdge(e, c))
       PROVE  \/ NewTags[c][e] = piEdges[c][e]
              \/ \E g \in CrossedHere :
                    NewTags[c][e] = NumbersHere[g] /\ LatticeEdge(g, cell) = LatticeEdge(e, c)
  <2>1. CASE c = cell /\ NumbersHere[e] # NO_EDGE
    <3>1. e \in CrossedHere
      BY <1>2, <1>12, <2>1
    <3> QED
      BY <1>6, <2>1, <3>1
  <2>2. CASE c = right /\ e \in DOMAIN RightSlots
    <3>1. RightSlots[e] \in CrossedHere /\ LatticeEdge(e, c) = LatticeEdge(RightSlots[e], cell)
      BY <1>2, <1>4, <1>12, <2>2
    <3>2. NewTags[c][e] = NumbersHere[RightSlots[e]]
      BY <1>5, <1>6, <2>2
    <3> QED
      BY <3>1, <3>2
  <2>3. CASE c = rear /\ e \in DOMAIN RearSlots
    <3>1. RearSlots[e] \in CrossedHere /\ LatticeEdge(e, c) = LatticeEdge(RearSlots[e], cell)
      BY <1>2, <1>4, <1>12, <2>3
    <3>2. NewTags[c][e] = NumbersHere[RearSlots[e]]
      BY <1>5, <1>6, <2>3
    <3> QED
      BY <3>1, <3>2
  <2> QED
    BY <1>6, <2>1, <2>2, <2>3
<1>13. ASSUME right \in Cells, NEW e \in DOMAIN RightSlots, Crossing(LatticeEdge(e, right))
       PROVE  NewTags[right][e] # NO_EDGE
  <2>1. RightSlots[e] \in CrossedHere
    BY <1>2, <1>4, <1>13
  <2>2. NewTags[right][e] = NumbersHere[RightSlots[e]]
    BY <1>5, <1>6, <1>7, <1>13
  <2> QED
    BY <1>1, <2>1, <2>2
<1>14. ASSUME rear \in Cells, NEW e \in DOMAIN RearSlots, Crossing(LatticeEdge(e, rear))
       PROVE  NewTags[rear][e] # NO_EDGE
  <2>1. RearSlots[e] \in CrossedHere
    BY <1>2, <1>4, <1>14
  <2>2. NewTags[rear][e] = NumbersHere[RearSlots[e]]
    BY <1>5, <1>6, <1>7, <1>14
  <2> QED
    BY <1>1, <2>1, <2>2
<1> QED
  BY <1>11, <1>12, <1>13, <1>14 DEF l, right, rear

(* The cell after this one comes after this one and those before it.         *)
LEMMA NextIsLater ==
    ASSUME NEW at \in Cells
    PROVE  /\ \A d \in Cells : Earlier(d, NextCell(at)) <=> (Earlier(d, at) \/ d = at)
           /\ NextCell(at) \in Cells \/ NextCell(at) = <<0, NY - 1>>
<1> DEFINE x == at[1]
           y == at[2]
<1>1. /\ x \in 0..(NX - 2) /\ y \in 0..(NY - 2) /\ at = <<x, y>>
      /\ NX \in Nat /\ NY \in Nat /\ NX > 1 /\ NY > 1
  BY CellParts, MeshAssumption
<1>2. NextCell(at) = IF x < NX - 2 THEN <<x + 1, y>> ELSE <<0, y + 1>>
  BY DEF NextCell
<1>3. ASSUME NEW d \in Cells
      PROVE  Earlier(d, NextCell(at)) <=> (Earlier(d, at) \/ d = at)
  <2> DEFINE u == d[1]
             v == d[2]
  <2>1. u \in 0..(NX - 2) /\ v \in 0..(NY - 2) /\ d = <<u, v>>
    BY CellParts
  <2>2. Earlier(d, at) <=> v < y \/ (v = y /\ u < x)
    BY DEF Earlier
  <2>3. d = at <=> u = x /\ v = y
    BY <1>1, <2>1
  <2>4. CASE x < NX - 2
    <3>1. NextCell(at)[1] = x + 1 /\ NextCell(at)[2] = y
      BY <1>2, <2>4
    <3>2. Earlier(d, NextCell(at)) <=> v < y \/ (v = y /\ u < x + 1)
      BY <3>1 DEF Earlier
    <3> HIDE DEF x, y, u, v
    <3> QED
      BY <1>1, <2>1, <2>2, <2>3, <3>2
  <2>5. CASE ~(x < NX - 2)
    <3>1. NextCell(at)[1] = 0 /\ NextCell(at)[2] = y + 1
      BY <1>2, <2>5
    <3>2. Earlier(d, NextCell(at)) <=> v < y + 1 \/ (v = y + 1 /\ u < 0)
      BY <3>1 DEF Earlier
    <3> HIDE DEF x, y, u, v
    <3> QED
      BY <1>1, <2>1, <2>2, <2>3, <2>5, <3>2
  <2> QED
    BY <2>4, <2>5
<1>4. NextCell(at) \in Cells \/ NextCell(at) = <<0, NY - 1>>
  <2> HIDE DEF x, y
  <2>1. CASE x < NX - 2
    BY <1>1, <1>2, <2>1 DEF Cells
  <2>2. CASE ~(x < NX - 2)
    BY <1>1, <1>2, <2>2 DEF Cells
  <2> QED
    BY <2>1, <2>2
<1> QED
  BY <1>3, <1>4

\* The four parts of the invariant after a cell.
LEMMA MarchKeepsTags ==
    ASSUME Marching
    PROVE  /\ TagsMeant(NewTags, NewVerts) /\ Handed(NextCell(cell), NewTags)
           /\ MadeEarlier(NextCell(cell), NewVerts) /\ OnceEach(NewVerts)
<1> DEFINE n == Len(iso.verts)
           l == Len(NewVerts)
<1>1. /\ n \in Nat /\ l \in Nat /\ n <= l /\ NewVerts \in Seq(Edges3D)
      /\ \A m \in 1..n : m \in 1..l /\ NewVerts[m] = iso.verts[m]
      /\ \A e \in MadeHere : NewVerts[n + Fewer(e, MadeHere) + 1] = LatticeEdge(e, cell)
      /\ \A m \in 1..l : m > n => \E e \in MadeHere : m = n + Fewer(e, MadeHere) + 1
  BY NewVertsAre
<1>2. \A e \in CrossedHere :
          NumbersHere[e] # NO_EDGE /\ NewVerts[NumbersHere[e] + 1] = LatticeEdge(e, cell)
  BY HeldRight
<1>3. /\ CrossedHere = {e \in CellEdges : Crossing(LatticeEdge(e, cell))}
      /\ MadeHere \subseteq CrossedHere /\ MadeHere \subseteq CellEdges
  BY CrossedIs
<1>4. \A c \in Cells, e \in CellEdges : Crossing(LatticeEdge(e, c)) =>
          \/ NewTags[c][e] = piEdges[c][e]
          \/ \E g \in CrossedHere :
                NewTags[c][e] = NumbersHere[g] /\ LatticeEdge(g, cell) = LatticeEdge(e, c)
  BY NewTagsAre
<1>5. cell \in Cells /\ cell # Idle /\ slice \in Nat
  BY CellParts DEF Marching, MeshTyped
<1>6. /\ TagsMeant(piEdges, iso.verts) /\ Handed(cell, piEdges)
      /\ MadeEarlier(cell, iso.verts) /\ OnceEach(iso.verts)
  BY <1>5 DEF Marching, TagsInv
<1>7. \A d \in Cells : Earlier(d, NextCell(cell)) <=> (Earlier(d, cell) \/ d = cell)
  BY <1>5, NextIsLater
<1>8. DOMAIN iso.verts = 1..n /\ DOMAIN NewVerts = 1..l
  BY <1>1 DEF Marching, MeshTyped
<1>9. \A c \in Cells, e \in CellEdges : piEdges[c][e] # NO_EDGE => piEdges[c][e] + 1 \in 1..n
  <2>1. \A c \in Cells, e \in CellEdges : piEdges[c][e] \in TagsUpTo(n)
    BY DEF Marching, MeshTyped
  <2> HIDE DEF n
  <2>2. \A t \in 0..(n - 1) : t + 1 \in 1..n
    BY <1>1
  <2> QED
    BY <2>1, <2>2 DEF TagsUpTo
<1> HIDE DEF n, l
<1>10. TagsMeant(NewTags, NewVerts)
  <2> SUFFICES ASSUME NEW c \in Cells, NEW e \in CellEdges,
                      NewTags[c][e] # NO_EDGE, Crossing(LatticeEdge(e, c))
               PROVE  NewVerts[NewTags[c][e] + 1] = LatticeEdge(e, c)
    BY DEF TagsMeant
  <2>1. CASE NewTags[c][e] = piEdges[c][e]
    <3>1. iso.verts[piEdges[c][e] + 1] = LatticeEdge(e, c)
      BY <1>6, <2>1 DEF TagsMeant
    <3>2. piEdges[c][e] + 1 \in 1..n
      BY <1>9, <2>1
    <3> QED
      BY <1>1, <2>1, <3>1, <3>2
  <2>2. CASE \E g \in CrossedHere :
                NewTags[c][e] = NumbersHere[g] /\ LatticeEdge(g, cell) = LatticeEdge(e, c)
    BY <1>2, <2>2
  <2> QED
    BY <1>4, <2>1, <2>2
<1>11. \A c \in Cells, e \in CellEdges :
           Crossing(LatticeEdge(e, c)) /\ piEdges[c][e] # NO_EDGE => NewTags[c][e] # NO_EDGE
  BY <1>2, <1>4
<1>12. Handed(NextCell(cell), NewTags)
  <2>1. DOMAIN RightSlots \subseteq CellEdges /\ DOMAIN RearSlots \subseteq CellEdges
    BY Slots DEF CellEdges
  <2>2. ASSUME NEW d \in Cells, Earlier(d, NextCell(cell)), Right(d) \in Cells,
               NEW e \in DOMAIN RightSlots, Crossing(LatticeEdge(e, Right(d)))
        PROVE  NewTags[Right(d)][e] # NO_EDGE
    <3>1. CASE d = cell
      BY <2>2, <3>1, NewTagsAre
    <3>2. CASE Earlier(d, cell)
      <4>1. piEdges[Right(d)][e] # NO_EDGE
        BY <1>6, <2>2, <3>2 DEF Handed
      <4> QED
        BY <1>11, <2>1, <2>2, <4>1
    <3> QED
      BY <1>7, <2>2, <3>1, <3>2
  <2>3. ASSUME NEW d \in Cells, Earlier(d, NextCell(cell)), Rear(d) \in Cells,
               NEW e \in DOMAIN RearSlots, Crossing(LatticeEdge(e, Rear(d)))
        PROVE  NewTags[Rear(d)][e] # NO_EDGE
    <3>1. CASE d = cell
      BY <2>3, <3>1, NewTagsAre
    <3>2. CASE Earlier(d, cell)
      <4>1. piEdges[Rear(d)][e] # NO_EDGE
        BY <1>6, <2>3, <3>2 DEF Handed
      <4> QED
        BY <1>11, <2>1, <2>3, <4>1
    <3> QED
      BY <1>7, <2>3, <3>1, <3>2
  <2> QED
    BY <2>2, <2>3 DEF Handed
<1>13. MadeEarlier(NextCell(cell), NewVerts)
  <2> SUFFICES ASSUME NEW m \in 1..l
               PROVE  /\ Crossing(NewVerts[m])
                      /\ \E d \in Cells, f \in CellEdges :
                            Earlier(d, NextCell(cell)) /\ NewVerts[m] = LatticeEdge(f, d)
    BY <1>8 DEF MadeEarlier
  <2>1. CASE m <= n
    <3>1. m \in 1..n /\ NewVerts[m] = iso.verts[m]
      BY <1>1, <2>1
    <3>2. Crossing(iso.verts[m]) /\ \E d \in Cells, f \in CellEdges :
                                        Earlier(d, cell) /\ iso.verts[m] = LatticeEdge(f, d)
      BY <1>6, <1>8, <3>1 DEF MadeEarlier
    <3> QED
      BY <1>7, <3>1, <3>2
  <2>2. CASE m > n
    <3>1. PICK e \in MadeHere : m = n + Fewer(e, MadeHere) + 1
      BY <1>1, <2>2
    <3>2. NewVerts[m] = LatticeEdge(e, cell) /\ e \in CellEdges /\ Crossing(LatticeEdge(e, cell))
      BY <1>1, <1>3, <3>1
    <3> QED
      BY <1>5, <1>7, <3>2
  <2> QED
    BY <1>1, <2>1, <2>2
<1>14. OnceEach(NewVerts)
  <2> SUFFICES ASSUME NEW i \in 1..l, NEW j \in 1..l, NewVerts[i] = NewVerts[j] PROVE i = j
    BY <1>8 DEF OnceEach
  <2>1. \A m \in 1..l : m <= n => m \in 1..n /\ NewVerts[m] = iso.verts[m]
    BY <1>1
  <2>2. \A e \in MadeHere, m \in 1..n : iso.verts[m] # LatticeEdge(e, cell)
    BY <1>8, MadeIsNew
  <2>3. \A m \in 1..l : m > n =>
           \E e \in MadeHere : m = n + Fewer(e, MadeHere) + 1 /\ NewVerts[m] = LatticeEdge(e, cell)
    BY <1>1
  <2>4. CASE i <= n /\ j <= n
    BY <1>6, <1>8, <2>1, <2>4 DEF OnceEach
  <2>5. CASE i <= n /\ j > n
    BY <2>1, <2>2, <2>3, <2>5
  <2>6. CASE i > n /\ j <= n
    BY <2>1, <2>2, <2>3, <2>6
  <2>7. CASE i > n /\ j > n
    <3>1. PICK e \in MadeHere : i = n + Fewer(e, MadeHere) + 1 /\ NewVerts[i] = LatticeEdge(e, cell)
      BY <2>3, <2>7
    <3>2. PICK f \in MadeHere : j = n + Fewer(f, MadeHere) + 1 /\ NewVerts[j] = LatticeEdge(f, cell)
      BY <2>3, <2>7
    <3>3. LatticeEdge(e, cell) = LatticeEdge(f, cell)
      BY <3>1, <3>2
    <3>4. e = f
      BY <1>3, <1>5, <3>3, Geometry
    <3> QED
      BY <3>1, <3>2, <3>4
  <2> QED
    BY <1>1, <2>4, <2>5, <2>6, <2>7
<1> QED
  BY <1>10, <1>12, <1>13, <1>14

\* The corners of a cell's triangles are vertices the layer has.
LEMMA NewTrisAre ==
    ASSUME Marching
    PROVE  NewTris \in Seq([1..3 -> 0..(Len(NewVerts) - 1)])
<1> DEFINE n == Len(iso.verts)
           l == Len(NewVerts)
           row == triTable[cellIndex(cell) + 1]
           q == Len(row) \div 3
           new == Triangles(cellIndex(cell), NumbersHere)
<1>1. row \in Seq(CrossedHere)
  <2> DEFINE B == {c \in 0..7 : Below(Corner(c, cell))}
  <2>1. B \in SUBSET (0..7) /\ cellIndex(cell) = IndexOf(B)
    BY DEF cellIndex
  <2> HIDE DEF B
  <2>2. triTable[IndexOf(B) + 1] \in Seq(Crossed(IndexOf(B)))
    BY <2>1, TablesAssumption
  <2> QED
    BY <2>1, <2>2 DEF CrossedHere
<1>2. \A e \in CrossedHere : NumbersHere[e] \in 0..(l - 1)
  BY HeldRight
<1>3. n \in Nat /\ l \in Nat /\ n <= l
  BY NewVertsAre
<1>4. iso.tris \in Seq([1..3 -> 0..(n - 1)])
  BY DEF Marching, MeshTyped
<1>5. new = [t \in 1..q |-> [k \in 1..3 |-> NumbersHere[row[(3 * (t - 1)) + k]]]]
  BY DEF Triangles
<1> HIDE DEF n, l, row, new
<1>6. Len(row) \in Nat /\ q \in Nat /\ 3 * q <= Len(row)
  <2>1. Len(row) \in Nat
    BY <1>1
  <2> QED
    BY <2>1
<1> HIDE DEF q
<1>7. \A t \in 1..q, k \in 1..3 : (3 * (t - 1)) + k \in 1..Len(row)
  BY <1>6
<1>8. \A i \in 1..Len(row) : row[i] \in CrossedHere
  BY <1>1
<1>9. \A t \in 1..q : [k \in 1..3 |-> NumbersHere[row[(3 * (t - 1)) + k]]] \in [1..3 -> 0..(l - 1)]
  BY <1>2, <1>7, <1>8
<1>10. new \in Seq([1..3 -> 0..(l - 1)])
  BY <1>5, <1>6, <1>9
<1>11. iso.tris \in Seq([1..3 -> 0..(l - 1)])
  <2>1. 0..(n - 1) \subseteq 0..(l - 1)
    BY <1>3
  <2>2. [1..3 -> 0..(n - 1)] \subseteq [1..3 -> 0..(l - 1)]
    BY <2>1
  <2> QED
    BY <1>4, <2>2
<1>12. NewTris = iso.tris \o new
  BY DEF NewTris, new
<1> QED
  BY <1>10, <1>11, <1>12 DEF l

MeshInv == MeshTyped /\ TagsInv

(* The first cell is a cell, and Idle is neither it nor the end of a layer.  *)
LEMMA FirstCell == <<0, 0>> \in Cells /\ <<0, 0>> # Idle /\ <<0, NY - 1>> # Idle
<1>1. NX \in Nat /\ NY \in Nat /\ NX > 1 /\ NY > 1
  BY MeshAssumption
<1>2. <<0, 0>> \in Cells
  BY <1>1 DEF Cells
<1>3. <<0, NY - 1>> \in (0..(NX - 2)) \X (0..(NY - 1))
  BY <1>1
<1> QED
  BY <1>2, <1>3, CellParts, MeshAssumption

(* Nothing is tagged at first.                                               *)
LEMMA MeshInvInit == MeshInit => MeshInv
<1> SUFFICES ASSUME MeshInit PROVE MeshInv
  OBVIOUS
<1>1. cell = Idle /\ slice = 0 /\ iso = [verts |-> <<>>, tris |-> <<>>] /\ vertices = <<>> /\ faces = <<>>
  BY DEF MeshInit
<1>2. iso.verts = <<>> /\ iso.tris = <<>>
  BY <1>1
<1>3. /\ piEdges \in [Cells -> [CellEdges -> TagsUpTo(Len(iso.verts))]]
      /\ cellVerts \in [CellEdges -> TagsUpTo(Len(iso.verts))]
  <2>1. NO_EDGE \in TagsUpTo(Len(iso.verts))
    BY DEF TagsUpTo
  <2> QED
    BY <2>1 DEF MeshInit, Cleared
<1>4. iso.verts \in Seq(Edges3D) /\ iso.tris \in Seq([1..3 -> 0..(Len(iso.verts) - 1)])
      /\ vertices \in Seq(Edges3D) /\ faces \in Seq(Nat \X Nat \X Nat)
  BY <1>1, <1>2
<1> QED
  BY <1>1, <1>3, <1>4 DEF MeshInv, MeshTyped, TagsInv

(* march: a layer starts without vertices or tags.                           *)
LEMMA BeginKeeps == ASSUME MeshInv, NEW top, MarchBegin(top) PROVE MeshInv'
<1>1. /\ cell' = <<0, 0>> /\ iso' = [verts |-> <<>>, tris |-> <<>>]
      /\ slice' = slice /\ vertices' = vertices /\ faces' = faces
      /\ piEdges' = Cleared(slice) /\ cellVerts' = [e \in CellEdges |-> NO_EDGE]
  BY DEF MarchBegin
<1>2. iso'.verts = <<>> /\ iso'.tris = <<>> /\ DOMAIN iso'.verts = {}
  BY <1>1
<1>3. MeshTyped'
  <2>1. NO_EDGE \in TagsUpTo(Len(iso'.verts))
    BY DEF TagsUpTo
  <2>2. /\ piEdges' \in [Cells -> [CellEdges -> TagsUpTo(Len(iso'.verts))]]
        /\ cellVerts' \in [CellEdges -> TagsUpTo(Len(iso'.verts))]
    BY <1>1, <2>1 DEF Cleared
  <2>3. iso'.verts \in Seq(Edges3D) /\ iso'.tris \in Seq([1..3 -> 0..(Len(iso'.verts) - 1)])
    BY <1>2
  <2> QED
    BY <1>1, <2>2, <2>3, FirstCell DEF MeshInv, MeshTyped
<1>4. \A c \in Cells, e \in CellEdges : piEdges'[c][e] = NO_EDGE
  BY <1>1 DEF Cleared
<1>5. \A d \in Cells : ~Earlier(d, cell')
  <2> SUFFICES ASSUME NEW d \in Cells PROVE ~Earlier(d, <<0, 0>>)
    BY <1>1
  <2>1. d[1] \in Nat /\ d[2] \in Nat
    BY CellParts
  <2> QED
    BY <2>1 DEF Earlier
<1>6. TagsMeant(piEdges, iso.verts)'
  BY <1>4 DEF TagsMeant
<1>7. Handed(cell, piEdges)'
  BY <1>5 DEF Handed
<1>8. MadeEarlier(cell, iso.verts)' /\ OnceEach(iso.verts)'
  BY <1>2 DEF MadeEarlier, OnceEach
<1> QED
  BY <1>3, <1>6, <1>7, <1>8 DEF MeshInv, TagsInv

(* MarchLayer, one cell: the four parts of TagsInv follow from MarchKeepsTags. *)
LEMMA CellKeeps == ASSUME MeshInv, MarchCell PROVE MeshInv'
<1>1. cell \in Cells
  BY DEF MeshInv, MeshTyped, MarchCell, LayerOver
<1>2. Marching
  BY <1>1 DEF MeshInv, Marching
<1>3. /\ cellVerts' = NumbersHere /\ piEdges' = NewTags
      /\ iso' = [verts |-> NewVerts, tris |-> NewTris] /\ cell' = NextCell(cell)
      /\ slab' = slab /\ slice' = slice /\ vertices' = vertices /\ faces' = faces
  BY DEF MarchCell, NumbersHere, NewTags, NewVerts, NewTris, MadeHere, CrossedHere
<1>4. iso'.verts = NewVerts /\ iso'.tris = NewTris
  BY <1>3
<1>5. MeshTyped'
  <2>1. NewVerts \in Seq(Edges3D)
    BY <1>2, NewVertsAre
  <2>2. NewTris \in Seq([1..3 -> 0..(Len(NewVerts) - 1)])
    BY <1>2, NewTrisAre
  <2>3. /\ NewTags \in [Cells -> [CellEdges -> TagsUpTo(Len(NewVerts))]]
        /\ NumbersHere \in [CellEdges -> TagsUpTo(Len(NewVerts))]
    BY <1>2, NewTagsAre, HeldRight
  <2>4. NextCell(cell) \in Cells \/ NextCell(cell) = <<0, NY - 1>>
    BY <1>1, NextIsLater
  <2> QED
    BY <1>3, <1>4, <2>1, <2>2, <2>3, <2>4 DEF MeshInv, MeshTyped
<1>6. \A c, e : LatticeEdge(e, c)' = LatticeEdge(e, c)
  BY <1>3 DEF LatticeEdge
<1>7. \A v : Crossing(v)' <=> Crossing(v)
  BY <1>3 DEF Crossing
<1>8. /\ TagsMeant(NewTags, NewVerts) /\ Handed(NextCell(cell), NewTags)
      /\ MadeEarlier(NextCell(cell), NewVerts) /\ OnceEach(NewVerts)
  BY <1>2, MarchKeepsTags
<1>9. TagsMeant(piEdges, iso.verts)'
  BY <1>3, <1>4, <1>6, <1>7, <1>8 DEF TagsMeant
<1>10. Handed(cell, piEdges)'
  BY <1>3, <1>6, <1>7, <1>8 DEF Handed
<1>11. MadeEarlier(cell, iso.verts)'
  BY <1>3, <1>4, <1>6, <1>7, <1>8 DEF MadeEarlier
<1>12. OnceEach(iso.verts)'
  BY <1>4, <1>8 DEF OnceEach
<1> QED
  BY <1>5, <1>9, <1>10, <1>11, <1>12 DEF MeshInv, TagsInv

(* marchlayer: the layer goes to the files.                                  *)
LEMMA DoneKeeps == ASSUME MeshInv, LayerDone PROVE MeshInv'
<1>1. /\ cell' = Idle /\ vertices' = vertices \o iso.verts /\ slice' = slice + 1
      /\ faces' = faces \o [t \in DOMAIN iso.tris |-> FaceWords(iso.tris[t])]
      /\ piEdges' = piEdges /\ cellVerts' = cellVerts /\ iso' = iso
  BY DEF LayerDone
<1>2. MeshTyped
  BY DEF MeshInv
<1>3. ASSUME NEW t \in DOMAIN iso.tris PROVE FaceWords(iso.tris[t]) \in Nat \X Nat \X Nat
  <2> DEFINE f == iso.tris[t]
             w == FaceNumbers(f)
  <2>1. f \in [1..3 -> 0..(Len(iso.verts) - 1)]
    BY <1>2 DEF MeshTyped
  <2>2. Len(vertices) \in Nat /\ Len(iso.verts) \in Nat
    BY <1>2 DEF MeshTyped
  <2>3. w[1] \in Nat /\ w[2] \in Nat
    BY <2>1, <2>2 DEF FaceNumbers
  <2> HIDE DEF w, f
  <2>4. Word \in Nat \ {0}
    BY MeshAssumption
  <2>5. w[1] % Word \in Nat /\ w[1] \div Word \in Nat /\ w[2] % Word \in Nat
    BY <2>3, <2>4
  <2> QED
    BY <2>5 DEF FaceWords, w, f
<1>4. faces' \in Seq(Nat \X Nat \X Nat)
  <2> DEFINE new == [t \in DOMAIN iso.tris |-> FaceWords(iso.tris[t])]
  <2>1. DOMAIN iso.tris = 1..Len(iso.tris) /\ Len(iso.tris) \in Nat
    BY <1>2 DEF MeshTyped
  <2>2. new \in Seq(Nat \X Nat \X Nat)
    BY <1>3, <2>1
  <2> HIDE DEF new
  <2> QED
    BY <1>1, <1>2, <2>2 DEF MeshTyped, new
<1>5. vertices' \in Seq(Edges3D)
  BY <1>1, <1>2 DEF MeshTyped
<1> QED
  BY <1>1, <1>2, <1>4, <1>5 DEF MeshInv, MeshTyped, TagsInv

(* The invariant: what the variables may hold, and what the tags mean.       *)
THEOREM MeshInvariant == MeshSpec => []MeshInv
<1>1. MeshInit => MeshInv
  BY MeshInvInit
<1>2. ASSUME MeshInv, [MeshNext]_meshVars PROVE MeshInv'
  <2>1. ASSUME NEW top \in SlabsAt(slice), MarchBegin(top) PROVE MeshInv'
    BY <1>2, <2>1, BeginKeeps
  <2>2. CASE MarchCell
    BY <1>2, <2>2, CellKeeps
  <2>3. CASE LayerDone
    BY <1>2, <2>3, DoneKeeps
  <2>4. CASE UNCHANGED meshVars
    <3>1. \A c, e : LatticeEdge(e, c)' = LatticeEdge(e, c)
      BY <2>4 DEF LatticeEdge, meshVars
    <3>2. \A v : Crossing(v)' <=> Crossing(v)
      BY <2>4 DEF Crossing, meshVars
    <3>3. MeshTyped'
      BY <1>2, <2>4 DEF meshVars, MeshInv, MeshTyped
    <3>4. TagsInv'
      BY <1>2, <2>4, <3>1, <3>2
      DEF meshVars, MeshInv, TagsInv, TagsMeant, Handed, MadeEarlier, OnceEach
    <3> QED
      BY <3>3, <3>4 DEF MeshInv
  <2> QED
    BY <1>2, <2>1, <2>2, <2>3, <2>4 DEF MeshNext
<1> QED
  BY <1>1, <1>2, PTL DEF MeshSpec

(* A tag on a crossed edge names the vertex of that edge, and no edge has two *)
(* vertices: MarchLayer's stores into piEdges, for slabs of any size.        *)
THEOREM TagsNameTheirEdges == MeshSpec => []TagsRight
<1>1. MeshInv => TagsRight
  <2> SUFFICES ASSUME MeshInv, cell # Idle PROVE TagsRight
    BY DEF TagsRight
  <2> DEFINE n == Len(iso.verts)
  <2>1. /\ TagsMeant(piEdges, iso.verts) /\ MadeEarlier(cell, iso.verts) /\ OnceEach(iso.verts)
    BY DEF MeshInv, TagsInv
  <2>2. n \in Nat /\ \A c \in Cells, e \in CellEdges : piEdges[c][e] \in TagsUpTo(n)
    BY DEF MeshInv, MeshTyped
  <2> HIDE DEF n
  <2>3. \A t \in TagsUpTo(n) : t # NO_EDGE => t < n
    BY <2>2 DEF TagsUpTo
  <2>4. \A c \in Cells, e \in CellEdges : piEdges[c][e] # NO_EDGE => piEdges[c][e] < n
    BY <2>2, <2>3
  <2> QED
    BY <2>1, <2>4 DEF TagsRight, TagsMeant, MadeEarlier, OnceEach, n
<1> QED
  BY <1>1, MeshInvariant, PTL

(* Concatenation of sequences.                                               *)
LEMMA Joined ==
    ASSUME NEW S, NEW a \in Seq(S), NEW b \in Seq(S)
    PROVE  /\ Len(a \o b) = Len(a) + Len(b)
           /\ \A k \in 1..(Len(a) + Len(b)) : (a \o b)[k] = IF k <= Len(a) THEN a[k] ELSE b[k - Len(a)]
OBVIOUS

(* What is appended comes behind.                                             *)
LEMMA Appended ==
    ASSUME NEW S, NEW a \in Seq(S), NEW b \in Seq(S)
    PROVE  /\ Len(a \o b) = Len(a) + Len(b)
           /\ \A i \in 1..Len(b) : (a \o b)[Len(a) + i] = b[i]
<1>1. \A i \in 1..Len(b) : /\ Len(a) + i \in 1..(Len(a) + Len(b)) /\ ~(Len(a) + i <= Len(a))
                           /\ (Len(a) + i) - Len(a) = i
  OBVIOUS
<1> QED
  BY <1>1, Joined

FirstInv == Len(vertices) < Word => FirstNumberRight

(* As long as the file has fewer than 2^32 vertices (Word), the first number of *)
(* a triangle in it is the place of the triangle's first vertex, over any    *)
(* number of layers (marchlayer).                                            *)
THEOREM FirstNumbersRight == MeshSpec => [](Len(vertices) < Word => FirstNumberRight)
<1>1. MeshInit => FirstInv
  BY DEF MeshInit, FirstInv, FirstNumberRight
<1>2. ASSUME MeshInv, FirstInv, [MeshNext]_meshVars PROVE FirstInv'
  <2>1. ASSUME NEW top \in SlabsAt(slice), MarchBegin(top) PROVE FirstInv'
    <3>1. cell' # Idle
      BY <2>1, FirstCell DEF MarchBegin
    <3> QED
      BY <3>1 DEF FirstInv, FirstNumberRight
  <2>2. CASE MarchCell
    <3>1. cell \in Cells
      BY <1>2, <2>2 DEF MeshInv, MeshTyped, MarchCell, LayerOver
    <3>2. cell' # Idle
      <4>1. cell' = NextCell(cell)
        BY <2>2 DEF MarchCell
      <4> QED
        BY <3>1, <4>1, NextIsLater, FirstCell, CellParts
    <3> QED
      BY <3>2 DEF FirstInv, FirstNumberRight
  <2>3. CASE LayerDone
    <3> SUFFICES ASSUME Len(vertices') < Word, NEW t \in DOMAIN iso'.tris
                 PROVE  vertices'[faces'[Len(faces') - Len(iso'.tris) + t][1]]
                        = iso'.verts[iso'.tris[t][1] + 1]
      BY DEF FirstInv, FirstNumberRight
    <3> DEFINE new == [i \in DOMAIN iso.tris |-> FaceWords(iso.tris[i])]
               n == Len(vertices)
               m == Len(iso.verts)
               l == Len(iso.tris)
               f == iso.tris[t]
    <3>1. iso' = iso /\ vertices' = vertices \o iso.verts /\ faces' = faces \o new
      BY <2>3 DEF LayerDone
    <3>2. /\ vertices \in Seq(Edges3D) /\ iso.verts \in Seq(Edges3D) /\ faces \in Seq(Nat \X Nat \X Nat)
          /\ iso.tris \in Seq([1..3 -> 0..(m - 1)]) /\ n \in Nat /\ m \in Nat /\ l \in Nat
          /\ Len(faces) \in Nat /\ DOMAIN iso.tris = 1..l
      BY <1>2 DEF MeshInv, MeshTyped
    <3>3. f \in [1..3 -> 0..(m - 1)] /\ t \in 1..l
      <4>1. t \in 1..l
        BY <3>1, <3>2
      <4>2. \A i \in 1..l : iso.tris[i] \in [1..3 -> 0..(m - 1)]
        BY <3>2
      <4> QED
        BY <4>1, <4>2
    <3>4. f[1] \in 0..(m - 1)
      BY <3>3
    <3>5. new \in Seq({FaceWords(iso.tris[i]) : i \in DOMAIN iso.tris}) /\ Len(new) = l /\ new[t] = FaceWords(f)
      BY <3>2, <3>3
    <3> HIDE DEF new, f, n, m, l
    <3>6. Len(faces') = Len(faces) + l /\ faces'[Len(faces) + t] = new[t]
      <4> DEFINE T == (Nat \X Nat \X Nat) \cup {FaceWords(iso.tris[i]) : i \in DOMAIN iso.tris}
      <4>1. faces \in Seq(T) /\ new \in Seq(T)
        BY <3>2, <3>5
      <4> HIDE DEF T
      <4> QED
        BY <3>1, <3>3, <3>5, <4>1, Appended
    <3>7. Len(vertices') = n + m /\ \A i \in 1..m : vertices'[n + i] = iso.verts[i]
      BY <3>1, <3>2, Appended DEF n, m
    <3>8. new[t][1] = (n + f[1] + 1) % Word
      BY <3>5 DEF FaceWords, FaceNumbers, n
    <3>9. n + f[1] + 1 < Word /\ n + f[1] + 1 \in Nat /\ Word \in Nat \ {0}
      BY <3>2, <3>4, <3>7, MeshAssumption
    <3>10. (n + f[1] + 1) % Word = n + f[1] + 1
      <4> DEFINE v == n + f[1] + 1
      <4>1. v < Word /\ v \in Nat /\ Word \in Nat \ {0}
        BY <3>9
      <4> HIDE DEF v
      <4>2. v % Word = v
        BY <4>1
      <4> QED
        BY <4>2 DEF v
    <3>11. Len(faces') - l + t = Len(faces) + t
      BY <3>2, <3>3, <3>6
    <3>12. vertices'[n + (f[1] + 1)] = iso.verts[f[1] + 1] /\ n + (f[1] + 1) = n + f[1] + 1
      BY <3>2, <3>4, <3>7
    <3> QED
      BY <3>1, <3>6, <3>8, <3>10, <3>11, <3>12 DEF l, f
  <2>4. CASE UNCHANGED meshVars
    BY <1>2, <2>4 DEF meshVars, FirstInv, FirstNumberRight
  <2> QED
    BY <1>2, <2>1, <2>2, <2>3, <2>4 DEF MeshNext
<1>3. FirstInv <=> (Len(vertices) < Word => FirstNumberRight)
  BY DEF FirstInv
<1> QED
  BY <1>1, <1>2, <1>3, MeshInvariant, PTL DEF MeshSpec

-----------------------------------------------------------------------------
(* The surface. First the faces: which corners lie in which plane, and which   *)
(* corners of the cell behind a face they are.                                 *)

LEMMA FaceCorners ==
    /\ DOMAIN RightFace = {1, 2, 5, 6} /\ DOMAIN LeftFace = {0, 3, 4, 7}
    /\ DOMAIN RearFace = {0, 1, 4, 5} /\ DOMAIN FrontFace = {2, 3, 6, 7}
    /\ DOMAIN TopFace = {4, 5, 6, 7} /\ DOMAIN BottomFace = {0, 1, 2, 3}
    /\ RightFace[1] = 0 /\ RightFace[2] = 3 /\ RightFace[5] = 4 /\ RightFace[6] = 7
    /\ LeftFace[0] = 1 /\ LeftFace[3] = 2 /\ LeftFace[4] = 5 /\ LeftFace[7] = 6
    /\ RearFace[0] = 3 /\ RearFace[1] = 2 /\ RearFace[4] = 7 /\ RearFace[5] = 6
    /\ FrontFace[3] = 0 /\ FrontFace[2] = 1 /\ FrontFace[7] = 4 /\ FrontFace[6] = 5
    /\ TopFace[4] = 0 /\ TopFace[5] = 1 /\ TopFace[6] = 2 /\ TopFace[7] = 3
    /\ BottomFace[0] = 4 /\ BottomFace[1] = 5 /\ BottomFace[2] = 6 /\ BottomFace[3] = 7
<1>1. 4..7 = {4, 5, 6, 7} /\ 0..3 = {0, 1, 2, 3}
  OBVIOUS
<1>2. /\ DOMAIN TopFace = {4, 5, 6, 7} /\ DOMAIN BottomFace = {0, 1, 2, 3}
      /\ TopFace[4] = 0 /\ TopFace[5] = 1 /\ TopFace[6] = 2 /\ TopFace[7] = 3
      /\ BottomFace[0] = 4 /\ BottomFace[1] = 5 /\ BottomFace[2] = 6 /\ BottomFace[3] = 7
  BY <1>1 DEF TopFace, BottomFace
<1>3. /\ DOMAIN RightFace = {1, 2, 5, 6} /\ DOMAIN LeftFace = {0, 3, 4, 7}
      /\ RightFace[1] = 0 /\ RightFace[2] = 3 /\ RightFace[5] = 4 /\ RightFace[6] = 7
      /\ LeftFace[0] = 1 /\ LeftFace[3] = 2 /\ LeftFace[4] = 5 /\ LeftFace[7] = 6
  BY DEF RightFace, LeftFace
<1>4. /\ DOMAIN RearFace = {0, 1, 4, 5} /\ DOMAIN FrontFace = {2, 3, 6, 7}
      /\ RearFace[0] = 3 /\ RearFace[1] = 2 /\ RearFace[4] = 7 /\ RearFace[5] = 6
      /\ FrontFace[3] = 0 /\ FrontFace[2] = 1 /\ FrontFace[7] = 4 /\ FrontFace[6] = 5
  BY DEF RearFace, FrontFace
<1> QED
  BY <1>2, <1>3, <1>4

(* A face names corners of both cells.                                       *)
LEMMA FaceTypes ==
    ASSUME NEW face \in Faces
    PROVE  \A k \in DOMAIN face : k \in 0..7 /\ face[k] \in 0..7
BY FaceCorners DEF Faces

(* The corners on a face are those in its plane.                              *)
LEMMA CornerPlanes ==
    ASSUME NEW x \in Nat, NEW y \in Nat, NEW at, at = <<x, y>>, slice \in Nat, NEW k \in 0..7
    PROVE  /\ Up(k, at)[1] = IF k \in DOMAIN LeftFace THEN x ELSE x + 1
           /\ k \in DOMAIN LeftFace <=> k \notin DOMAIN RightFace
           /\ Up(k, at)[2] = IF k \in DOMAIN FrontFace THEN y ELSE y + 1
           /\ k \in DOMAIN FrontFace <=> k \notin DOMAIN RearFace
           /\ Up(k, at)[3] = IF k \in DOMAIN BottomFace THEN slice ELSE slice + 1
           /\ k \in DOMAIN BottomFace <=> k \notin DOMAIN TopFace
<1>1. k = 0 \/ k = 1 \/ k = 2 \/ k = 3 \/ k = 4 \/ k = 5 \/ k = 6 \/ k = 7
  OBVIOUS
<1>2. \A u, v, w : Point(u, v, w)[1] = u /\ Point(u, v, w)[2] = v /\ Point(u, v, w)[3] = w + slice
  BY DEF Point
<1>3. 0 + slice = slice /\ 1 + slice = slice + 1
  OBVIOUS
<1> DEFINE X(c) == Up(c, at)[1]
           Y(c) == Up(c, at)[2]
           Z(c) == Up(c, at)[3]
<1>4. /\ X(0) = x /\ X(1) = x + 1 /\ X(2) = x + 1 /\ X(3) = x
      /\ X(4) = x /\ X(5) = x + 1 /\ X(6) = x + 1 /\ X(7) = x
  BY <1>2, Corners
<1>5. /\ Y(0) = y + 1 /\ Y(1) = y + 1 /\ Y(2) = y /\ Y(3) = y
      /\ Y(4) = y + 1 /\ Y(5) = y + 1 /\ Y(6) = y /\ Y(7) = y
  BY <1>2, Corners
<1>6. /\ Z(0) = slice /\ Z(1) = slice /\ Z(2) = slice /\ Z(3) = slice
      /\ Z(4) = slice + 1 /\ Z(5) = slice + 1 /\ Z(6) = slice + 1 /\ Z(7) = slice + 1
  BY <1>2, <1>3, Corners
<1> HIDE DEF X, Y, Z
<1>7. X(k) = (IF k \in DOMAIN LeftFace THEN x ELSE x + 1) /\ (k \in DOMAIN LeftFace <=> k \notin DOMAIN RightFace)
  BY <1>1, <1>4, FaceCorners
<1>8. Y(k) = (IF k \in DOMAIN FrontFace THEN y ELSE y + 1) /\ (k \in DOMAIN FrontFace <=> k \notin DOMAIN RearFace)
  BY <1>1, <1>5, FaceCorners
<1>9. Z(k) = (IF k \in DOMAIN BottomFace THEN slice ELSE slice + 1) /\ (k \in DOMAIN BottomFace <=> k \notin DOMAIN TopFace)
  BY <1>1, <1>6, FaceCorners
<1> QED
  BY <1>7, <1>8, <1>9 DEF X, Y, Z

Flat(v, axis, n) == \A p \in v : p[axis] = n

(* An edge is on a face when its points are in the plane.                     *)
LEMMA EdgePlanes ==
    ASSUME NEW x \in Nat, NEW y \in Nat, NEW at, at = <<x, y>>, slice \in Nat, NEW e \in CellEdges
    PROVE  LET v == LatticeEdge(e, at)
               ends == EdgeEnds(e) IN
           /\ Flat(v, 1, x) <=> ends \subseteq DOMAIN LeftFace
           /\ Flat(v, 1, x + 1) <=> ends \subseteq DOMAIN RightFace
           /\ Flat(v, 2, y) <=> ends \subseteq DOMAIN FrontFace
           /\ Flat(v, 2, y + 1) <=> ends \subseteq DOMAIN RearFace
           /\ Flat(v, 3, slice) <=> ends \subseteq DOMAIN BottomFace
           /\ Flat(v, 3, slice + 1) <=> ends \subseteq DOMAIN TopFace
           /\ \A p \in v : p[1] \in {x, x + 1} /\ p[2] \in {y, y + 1}
<1> DEFINE v == LatticeEdge(e, at)
           ends == EdgeEnds(e)
<1>1. PICK a, b : Ended(e, at, a, b)
  BY TwoEnds
<1>2. ends = {a, b} /\ a \in 0..7 /\ b \in 0..7 /\ v = {Up(a, at), Up(b, at)}
  BY <1>1 DEF Ended
<1> DEFINE p == Up(a, at)
           q == Up(b, at)
<1>3. /\ p[1] = IF a \in DOMAIN LeftFace THEN x ELSE x + 1
      /\ p[2] = IF a \in DOMAIN FrontFace THEN y ELSE y + 1
      /\ p[3] = IF a \in DOMAIN BottomFace THEN slice ELSE slice + 1
      /\ a \in DOMAIN LeftFace <=> a \notin DOMAIN RightFace
      /\ a \in DOMAIN FrontFace <=> a \notin DOMAIN RearFace
      /\ a \in DOMAIN BottomFace <=> a \notin DOMAIN TopFace
  BY <1>2, CornerPlanes
<1>4. /\ q[1] = IF b \in DOMAIN LeftFace THEN x ELSE x + 1
      /\ q[2] = IF b \in DOMAIN FrontFace THEN y ELSE y + 1
      /\ q[3] = IF b \in DOMAIN BottomFace THEN slice ELSE slice + 1
      /\ b \in DOMAIN LeftFace <=> b \notin DOMAIN RightFace
      /\ b \in DOMAIN FrontFace <=> b \notin DOMAIN RearFace
      /\ b \in DOMAIN BottomFace <=> b \notin DOMAIN TopFace
  BY <1>2, CornerPlanes
<1>5. x # x + 1 /\ y # y + 1 /\ slice # slice + 1
  OBVIOUS
<1> HIDE DEF p, q
<1>6. v = {p, q}
  BY <1>2 DEF p, q
<1> HIDE DEF v, ends
<1>7. /\ (\A r \in v : r[1] = x) <=> ends \subseteq DOMAIN LeftFace
      /\ (\A r \in v : r[1] = x + 1) <=> ends \subseteq DOMAIN RightFace
  BY <1>2, <1>3, <1>4, <1>5, <1>6
<1>8. /\ (\A r \in v : r[2] = y) <=> ends \subseteq DOMAIN FrontFace
      /\ (\A r \in v : r[2] = y + 1) <=> ends \subseteq DOMAIN RearFace
  BY <1>2, <1>3, <1>4, <1>5, <1>6
<1>9. /\ (\A r \in v : r[3] = slice) <=> ends \subseteq DOMAIN BottomFace
      /\ (\A r \in v : r[3] = slice + 1) <=> ends \subseteq DOMAIN TopFace
  BY <1>2, <1>3, <1>4, <1>5, <1>6
<1>10. \A r \in v : r[1] \in {x, x + 1} /\ r[2] \in {y, y + 1}
  BY <1>3, <1>4, <1>6
<1> QED
  BY <1>7, <1>8, <1>9, <1>10 DEF v, ends, Flat

(* Two edges of a cell are together on one upright face at most.              *)
LEMMA OneFace ==
    ASSUME NEW s, s[1] \in CellEdges, s[2] \in CellEdges, s[1] # s[2]
    PROVE  /\ ~(OnFace(s, LeftFace) /\ OnFace(s, RightFace))
           /\ ~(OnFace(s, RearFace) /\ OnFace(s, FrontFace))
           /\ ~(OnFace(s, LeftFace) /\ OnFace(s, RearFace))
           /\ ~(OnFace(s, LeftFace) /\ OnFace(s, FrontFace))
           /\ ~(OnFace(s, RightFace) /\ OnFace(s, RearFace))
           /\ ~(OnFace(s, RightFace) /\ OnFace(s, FrontFace))
<1> DEFINE A == EdgeEnds(s[1])
           B == EdgeEnds(s[2])
<1>1. A # B
  BY EndsApart
<1>2. \A e \in CellEdges : \E a, b \in 0..7 : a # b /\ EdgeEnds(e) = {a, b}
  <2> SUFFICES ASSUME NEW e \in CellEdges PROVE \E a, b \in 0..7 : a # b /\ EdgeEnds(e) = {a, b}
    OBVIOUS
  <2>1. e \in {0, 1, 2, 3, 4, 5, 6, 7, 8, 9, 10, 11}
    BY DEF CellEdges
  <2> QED
    BY <2>1, Ends
<1>3. (\E a, b : a # b /\ A = {a, b}) /\ (\E a, b : a # b /\ B = {a, b})
  BY <1>2
<1>4. \A face : OnFace(s, face) <=> A \subseteq DOMAIN face /\ B \subseteq DOMAIN face
  BY DEF OnFace
<1> HIDE DEF A, B
<1>5. \A i, j : ~(A \subseteq {i, j} /\ B \subseteq {i, j})
  BY <1>1, <1>3
<1>6. \A g, h, i, j : DOMAIN g \cap DOMAIN h \subseteq {i, j} => ~(OnFace(s, g) /\ OnFace(s, h))
  <2> SUFFICES ASSUME NEW g, NEW h, NEW i, NEW j, DOMAIN g \cap DOMAIN h \subseteq {i, j},
                      OnFace(s, g), OnFace(s, h)
               PROVE  FALSE
    OBVIOUS
  <2>1. A \subseteq {i, j} /\ B \subseteq {i, j}
    BY <1>4
  <2> QED
    BY <1>5, <2>1
<1>7. ~(OnFace(s, LeftFace) /\ OnFace(s, RightFace))
  <2>1. DOMAIN LeftFace \cap DOMAIN RightFace \subseteq {0, 0}
    BY FaceCorners
  <2> QED
    BY <1>6, <2>1
<1>8. ~(OnFace(s, RearFace) /\ OnFace(s, FrontFace))
  <2>1. DOMAIN RearFace \cap DOMAIN FrontFace \subseteq {0, 0}
    BY FaceCorners
  <2> QED
    BY <1>6, <2>1
<1>9. ~(OnFace(s, LeftFace) /\ OnFace(s, RearFace))
  <2>1. DOMAIN LeftFace \cap DOMAIN RearFace \subseteq {0, 4}
    BY FaceCorners
  <2> QED
    BY <1>6, <2>1
<1>10. ~(OnFace(s, LeftFace) /\ OnFace(s, FrontFace))
  <2>1. DOMAIN LeftFace \cap DOMAIN FrontFace \subseteq {3, 7}
    BY FaceCorners
  <2> QED
    BY <1>6, <2>1
<1>11. ~(OnFace(s, RightFace) /\ OnFace(s, RearFace))
  <2>1. DOMAIN RightFace \cap DOMAIN RearFace \subseteq {1, 5}
    BY FaceCorners
  <2> QED
    BY <1>6, <2>1
<1>12. ~(OnFace(s, RightFace) /\ OnFace(s, FrontFace))
  <2>1. DOMAIN RightFace \cap DOMAIN FrontFace \subseteq {2, 6}
    BY FaceCorners
  <2> QED
    BY <1>6, <2>1
<1> QED
  BY <1>7, <1>8, <1>9, <1>10, <1>11, <1>12

(* Two cells that share two edges are neighbours, and the edges are on the     *)
(* face between them.                                                         *)
LEMMA TwoShared ==
    ASSUME NEW c \in Cells, NEW q \in Cells, q # c, slice \in Nat,
           NEW s, s[1] \in CellEdges, s[2] \in CellEdges, s[1] # s[2],
           NEW e \in CellEdges, LatticeEdge(e, q) = LatticeEdge(s[1], c),
           NEW f \in CellEdges, LatticeEdge(f, q) = LatticeEdge(s[2], c)
    PROVE  \/ q[1] = c[1] + 1 /\ q[2] = c[2] /\ OnFace(s, RightFace)
           \/ q[1] = c[1] - 1 /\ q[2] = c[2] /\ OnFace(s, LeftFace)
           \/ q[1] = c[1] /\ q[2] = c[2] + 1 /\ OnFace(s, RearFace)
           \/ q[1] = c[1] /\ q[2] = c[2] - 1 /\ OnFace(s, FrontFace)
<1> DEFINE x == c[1]
           y == c[2]
           u == q[1]
           v == q[2]
           a == LatticeEdge(s[1], c)
           b == LatticeEdge(s[2], c)
<1>1. x \in Nat /\ y \in Nat /\ c = <<x, y>> /\ u \in Nat /\ v \in Nat /\ q = <<u, v>>
  BY CellParts
<1> HIDE DEF x, y, u, v
<1>2. /\ \A p \in a : p[1] \in {x, x + 1} /\ p[2] \in {y, y + 1}
      /\ \A p \in b : p[1] \in {x, x + 1} /\ p[2] \in {y, y + 1}
  BY <1>1, EdgePlanes
<1>3. /\ \A p \in a : p[1] \in {u, u + 1} /\ p[2] \in {v, v + 1}
      /\ \A p \in b : p[1] \in {u, u + 1} /\ p[2] \in {v, v + 1}
  <2>1. /\ \A p \in LatticeEdge(e, q) : p[1] \in {u, u + 1} /\ p[2] \in {v, v + 1}
        /\ \A p \in LatticeEdge(f, q) : p[1] \in {u, u + 1} /\ p[2] \in {v, v + 1}
    BY <1>1, EdgePlanes
  <2> QED
    BY <2>1
<1>4. /\ (\A p \in a \cup b : p[1] = x) => OnFace(s, LeftFace)
      /\ (\A p \in a \cup b : p[1] = x + 1) => OnFace(s, RightFace)
      /\ (\A p \in a \cup b : p[2] = y) => OnFace(s, FrontFace)
      /\ (\A p \in a \cup b : p[2] = y + 1) => OnFace(s, RearFace)
  <2>1. /\ Flat(a, 1, x) => EdgeEnds(s[1]) \subseteq DOMAIN LeftFace
        /\ Flat(a, 1, x + 1) => EdgeEnds(s[1]) \subseteq DOMAIN RightFace
        /\ Flat(a, 2, y) => EdgeEnds(s[1]) \subseteq DOMAIN FrontFace
        /\ Flat(a, 2, y + 1) => EdgeEnds(s[1]) \subseteq DOMAIN RearFace
    BY <1>1, EdgePlanes
  <2>2. /\ Flat(b, 1, x) => EdgeEnds(s[2]) \subseteq DOMAIN LeftFace
        /\ Flat(b, 1, x + 1) => EdgeEnds(s[2]) \subseteq DOMAIN RightFace
        /\ Flat(b, 2, y) => EdgeEnds(s[2]) \subseteq DOMAIN FrontFace
        /\ Flat(b, 2, y + 1) => EdgeEnds(s[2]) \subseteq DOMAIN RearFace
    BY <1>1, EdgePlanes
  <2> HIDE DEF a, b
  <2> QED
    BY <2>1, <2>2 DEF OnFace, Flat
<1>5. \E p : p \in a
  <2>1. PICK i, j : Ended(s[1], c, i, j)
    BY <1>1, TwoEnds
  <2>2. a = {Up(i, c), Up(j, c)}
    BY <2>1 DEF Ended
  <2> QED
    BY <2>2
<1> HIDE DEF a, b
<1>6. u < x => u = x - 1 /\ OnFace(s, LeftFace)
  <2> SUFFICES ASSUME u < x PROVE u = x - 1 /\ OnFace(s, LeftFace)
    OBVIOUS
  <2>1. \A p \in a \cup b : p[1] = x /\ p[1] = u + 1
    BY <1>1, <1>2, <1>3
  <2>2. u + 1 = x
    BY <1>5, <2>1
  <2> QED
    BY <1>1, <1>4, <2>1, <2>2
<1>7. u > x => u = x + 1 /\ OnFace(s, RightFace)
  <2> SUFFICES ASSUME u > x PROVE u = x + 1 /\ OnFace(s, RightFace)
    OBVIOUS
  <2>1. \A p \in a \cup b : p[1] = x + 1 /\ p[1] = u
    BY <1>1, <1>2, <1>3
  <2> QED
    BY <1>4, <1>5, <2>1
<1>8. v < y => v = y - 1 /\ OnFace(s, FrontFace)
  <2> SUFFICES ASSUME v < y PROVE v = y - 1 /\ OnFace(s, FrontFace)
    OBVIOUS
  <2>1. \A p \in a \cup b : p[2] = y /\ p[2] = v + 1
    BY <1>1, <1>2, <1>3
  <2>2. v + 1 = y
    BY <1>5, <2>1
  <2> QED
    BY <1>1, <1>4, <2>1, <2>2
<1>9. v > y => v = y + 1 /\ OnFace(s, RearFace)
  <2> SUFFICES ASSUME v > y PROVE v = y + 1 /\ OnFace(s, RearFace)
    OBVIOUS
  <2>1. \A p \in a \cup b : p[2] = y + 1 /\ p[2] = v
    BY <1>1, <1>2, <1>3
  <2> QED
    BY <1>4, <1>5, <2>1
<1>10. (u < x \/ u > x \/ u = x) /\ (v < y \/ v > y \/ v = y) /\ ~(u = x /\ v = y)
  BY <1>1
<1> QED
  BY <1>6, <1>7, <1>8, <1>9, <1>10, OneFace DEF x, y, u, v

CornersBelow(c) == {k \in 0..7 : Below(Corner(k, c))}
Row(c) == triTable[cellIndex(c) + 1]

(* The sides of a row are pairs of a cell's edges.                            *)
LEMMA SidesOfRow ==
    ASSUME NEW i, triTable[i + 1] \in Seq(CellEdges)
    PROVE  \A s \in Sides(i) : s = <<s[1], s[2]>> /\ s[1] \in CellEdges /\ s[2] \in CellEdges
<1> DEFINE row == triTable[i + 1]
<1>4. row \in Seq(CellEdges)
  OBVIOUS
<1>6. ASSUME NEW p \in Places(i)
      PROVE  /\ Side(i, p) = <<Side(i, p)[1], Side(i, p)[2]>>
             /\ Side(i, p)[1] \in CellEdges /\ Side(i, p)[2] \in CellEdges
  <2> DEFINE q == Len(row) \div 3
             t == p[1]
             k == p[2]
             m == (k % 3) + 1
  <2>1. p \in (1..q) \X (1..3)
    BY <1>6 DEF Places
  <2>2. Len(row) \in Nat
    BY <1>4
  <2> HIDE DEF row
  <2>3. q \in Nat /\ 3 * q <= Len(row)
    BY <2>2
  <2> HIDE DEF q
  <2>4. t \in 1..q /\ k \in 1..3
    BY <2>1
  <2>5. m \in 1..3
    BY <2>4
  <2> HIDE DEF t, k, m
  <2>6. (3 * (t - 1)) + k \in 1..Len(row) /\ (3 * (t - 1)) + m \in 1..Len(row)
    BY <2>2, <2>3, <2>4, <2>5
  <2>7. row[(3 * (t - 1)) + k] \in CellEdges /\ row[(3 * (t - 1)) + m] \in CellEdges
    BY <1>4, <2>6
  <2>8. Side(i, p) = <<row[(3 * (t - 1)) + k], row[(3 * (t - 1)) + m]>>
    <3>1. Side(i, p) = <<row[(3 * (p[1] - 1)) + p[2]], row[(3 * (p[1] - 1)) + (p[2] % 3) + 1]>>
      BY DEF Side, row
    <3>2. (3 * (p[1] - 1)) + (p[2] % 3) + 1 = (3 * (p[1] - 1)) + ((p[2] % 3) + 1)
      BY <2>1
    <3> QED
      BY <3>1, <3>2 DEF t, k, m
  <2> QED
    BY <2>7, <2>8
<1> QED
  BY <1>6 DEF Sides

(* What the tables say of a cell.                                             *)
LEMMA RowSides ==
    ASSUME NEW c
    PROVE  /\ CornersBelow(c) \in SUBSET (0..7) /\ cellIndex(c) = IndexOf(CornersBelow(c))
           /\ Row(c) \in Seq(CellEdges)
           /\ \A p, q \in Places(cellIndex(c)) :
                 Side(cellIndex(c), p) = Side(cellIndex(c), q) => p = q
           /\ \A s \in Sides(cellIndex(c)) :
                 /\ s = <<s[1], s[2]>> /\ s[1] \in CellEdges /\ s[2] \in CellEdges /\ s[1] # s[2]
                 /\ <<s[2], s[1]>> \in Sides(cellIndex(c)) <=> \A face \in Faces : ~OnFace(s, face)
<1> DEFINE B == CornersBelow(c)
           i == IndexOf(B)
           row == triTable[i + 1]
<1>1. B \in SUBSET (0..7) /\ cellIndex(c) = i
  BY DEF CornersBelow, cellIndex
<1> HIDE DEF B
<1>2. row \in Seq(Crossed(i))
  BY <1>1, TablesAssumption
<1>3. Crossed(i) \subseteq CellEdges
  BY DEF Crossed
<1>4. row \in Seq(CellEdges)
  BY <1>2, <1>3
<1>5. /\ \A p, q \in Places(i) : Side(i, p) = Side(i, q) => p = q
      /\ \A s \in Sides(i) :
            /\ s[1] # s[2]
            /\ <<s[2], s[1]>> \in Sides(i) <=> \A face \in Faces : ~OnFace(s, face)
  BY <1>1, TrianglesAssumption
<1> HIDE DEF i
<1>7. \A s \in Sides(i) : s = <<s[1], s[2]>> /\ s[1] \in CellEdges /\ s[2] \in CellEdges
  BY <1>4, SidesOfRow DEF row
<1>8. Row(c) \in Seq(CellEdges)
  BY <1>1, <1>4 DEF Row
<1>9. /\ \A p, q \in Places(cellIndex(c)) :
            Side(cellIndex(c), p) = Side(cellIndex(c), q) => p = q
      /\ \A s \in Sides(cellIndex(c)) :
            <<s[2], s[1]>> \in Sides(cellIndex(c)) <=> \A face \in Faces : ~OnFace(s, face)
  BY <1>1, <1>5
<1>10. \A s \in Sides(cellIndex(c)) :
           s = <<s[1], s[2]>> /\ s[1] \in CellEdges /\ s[2] \in CellEdges /\ s[1] # s[2]
  BY <1>1, <1>5, <1>7
<1>11. CornersBelow(c) \in SUBSET (0..7) /\ cellIndex(c) = IndexOf(CornersBelow(c))
  BY <1>1 DEF B, i
<1> QED
  BY <1>8, <1>9, <1>10, <1>11

(* A side on a face is met by one in the cell behind it.                       *)
LEMMA MetBehind ==
    ASSUME NEW c, NEW others \in SUBSET (0..7), NEW face \in Faces,
           \A k \in DOMAIN face : k \in CornersBelow(c) <=> face[k] \in others,
           NEW s \in Sides(cellIndex(c)), OnFace(s, face)
    PROVE  \E o \in Sides(IndexOf(others)) :
              EdgeEnds(o[1]) = Behind(s[2], face) /\ EdgeEnds(o[2]) = Behind(s[1], face)
<1> DEFINE B == CornersBelow(c)
<1>1. B \in SUBSET (0..7) /\ cellIndex(c) = IndexOf(B)
  BY RowSides
<1> HIDE DEF B
<1>2. \A r \in Sides(IndexOf(B)), f \in Faces : OnFace(r, f) =>
          \A more \in SUBSET (0..7) :
              (\A k \in DOMAIN f : k \in B <=> f[k] \in more) =>
                  \E o \in Sides(IndexOf(more)) :
                      EdgeEnds(o[1]) = Behind(r[2], f) /\ EdgeEnds(o[2]) = Behind(r[1], f)
  BY <1>1, TrianglesAssumption
<1>3. s \in Sides(IndexOf(B)) /\ \A k \in DOMAIN face : k \in B <=> face[k] \in others
  BY <1>1 DEF B
<1> QED
  BY <1>2, <1>3

(* An edge on a face is an edge of the cell behind it.                         *)
LEMMA EdgeBehind ==
    ASSUME NEW c, NEW r, NEW face, \A k \in DOMAIN face : Corner(k, c) = Corner(face[k], r),
           NEW a, NEW e, EdgeEnds(a) \subseteq DOMAIN face, EdgeEnds(e) = Behind(a, face)
    PROVE  LatticeEdge(e, r) = LatticeEdge(a, c)
<1>1. LatticeEdge(a, c) = {Up(k, c) : k \in EdgeEnds(a)}
  BY DEF LatticeEdge, Up
<1>2. LatticeEdge(e, r) = {Up(k, r) : k \in {face[j] : j \in EdgeEnds(a)}}
  BY DEF LatticeEdge, Up, Behind
<1>3. \A k \in EdgeEnds(a) : Up(k, c) = Up(face[k], r)
  BY DEF Up
<1> QED
  BY <1>1, <1>2, <1>3

(* A side on the face between two cells is met by a side of the other cell.   *)
LEMMA MetAcross ==
    ASSUME NEW c \in Cells, NEW r \in Cells, NEW face \in Faces,
           \A k \in DOMAIN face : Corner(k, c) = Corner(face[k], r),
           NEW s \in Sides(cellIndex(c)), OnFace(s, face)
    PROVE  \E o \in Sides(cellIndex(r)) :
              LatticeEdge(o[1], r) = LatticeEdge(s[2], c) /\ LatticeEdge(o[2], r) = LatticeEdge(s[1], c)
<1>1. CornersBelow(r) \in SUBSET (0..7) /\ cellIndex(r) = IndexOf(CornersBelow(r))
  BY RowSides
<1>2. \A k \in DOMAIN face : k \in CornersBelow(c) <=> face[k] \in CornersBelow(r)
  BY FaceTypes DEF CornersBelow
<1>3. PICK o \in Sides(cellIndex(r)) :
          EdgeEnds(o[1]) = Behind(s[2], face) /\ EdgeEnds(o[2]) = Behind(s[1], face)
  BY <1>1, <1>2, MetBehind
<1>4. EdgeEnds(s[1]) \subseteq DOMAIN face /\ EdgeEnds(s[2]) \subseteq DOMAIN face
  BY DEF OnFace
<1>5. LatticeEdge(o[1], r) = LatticeEdge(s[2], c) /\ LatticeEdge(o[2], r) = LatticeEdge(s[1], c)
  BY <1>3, <1>4, EdgeBehind
<1> QED
  BY <1>5

(* The cell behind an upright face.                                            *)
LEMMA SameCorners ==
    ASSUME NEW c, NEW x \in Nat, NEW y \in Nat, c = <<x, y>>
    PROVE  /\ \A k \in DOMAIN RightFace : Corner(k, c) = Corner(RightFace[k], Right(c))
           /\ \A k \in DOMAIN LeftFace : Corner(k, Right(c)) = Corner(LeftFace[k], c)
           /\ \A k \in DOMAIN RearFace : Corner(k, c) = Corner(RearFace[k], Rear(c))
           /\ \A k \in DOMAIN FrontFace : Corner(k, Rear(c)) = Corner(FrontFace[k], c)
<1>1. Right(c) = <<x + 1, y>> /\ Rear(c) = <<x, y + 1>> /\ x + 1 \in Nat /\ y + 1 \in Nat
  BY DEF Right, Rear
<1>2. /\ Corner(0, c) = <<x, y + 1, 0>> /\ Corner(1, c) = <<x + 1, y + 1, 0>>
      /\ Corner(2, c) = <<x + 1, y, 0>> /\ Corner(3, c) = <<x, y, 0>>
      /\ Corner(4, c) = <<x, y + 1, 1>> /\ Corner(5, c) = <<x + 1, y + 1, 1>>
      /\ Corner(6, c) = <<x + 1, y, 1>> /\ Corner(7, c) = <<x, y, 1>>
  BY CornerPlaces
<1>3. /\ Corner(0, Right(c)) = <<x + 1, y + 1, 0>> /\ Corner(3, Right(c)) = <<x + 1, y, 0>>
      /\ Corner(4, Right(c)) = <<x + 1, y + 1, 1>> /\ Corner(7, Right(c)) = <<x + 1, y, 1>>
  BY <1>1, CornerPlaces
<1>4. /\ Corner(2, Rear(c)) = <<x + 1, y + 1, 0>> /\ Corner(3, Rear(c)) = <<x, y + 1, 0>>
      /\ Corner(6, Rear(c)) = <<x + 1, y + 1, 1>> /\ Corner(7, Rear(c)) = <<x, y + 1, 1>>
  BY <1>1, CornerPlaces
<1> QED
  BY <1>2, <1>3, <1>4, FaceCorners

-----------------------------------------------------------------------------
(* Which triangle of the layer is which of a cell's: own says it.             *)

Owns(at, verts, tris, own) ==
    /\ \A t \in 1..Len(tris) :
          LET c == own[t][1]
              j == own[t][2] IN
          /\ own[t] = <<c, j>> /\ c \in Cells /\ Earlier(c, at) /\ j \in 1..(Len(Row(c)) \div 3)
          /\ \A k \in 1..3 :
                verts[tris[t][k] + 1] = LatticeEdge(Row(c)[(3 * (j - 1)) + k], c)
    /\ \A t, u \in 1..Len(tris) : own[t] = own[u] => t = u
    /\ \A c \in Cells : Earlier(c, at) =>
          \A j \in 1..(Len(Row(c)) \div 3) : \E t \in 1..Len(tris) : own[t] = <<c, j>>

TrisInv == cell # Idle => \E own : Owns(cell, iso.verts, iso.tris, own)

(* The triangles of a cell are put behind those there are.                    *)
LEMMA MarchKeepsOwners ==
    ASSUME Marching, NEW own, Owns(cell, iso.verts, iso.tris, own)
    PROVE  \E new : Owns(NextCell(cell), NewVerts, NewTris, new)
<1> DEFINE n == Len(iso.tris)
           row == Row(cell)
           q == Len(row) \div 3
           tris == Triangles(cellIndex(cell), NumbersHere)
           new == [t \in 1..(n + q) |-> IF t <= n THEN own[t] ELSE <<cell, t - n>>]
<1>1. /\ cell \in Cells /\ n \in Nat /\ DOMAIN iso.tris = 1..n
      /\ iso.tris \in Seq([1..3 -> 0..(Len(iso.verts) - 1)])
  BY DEF Marching, MeshTyped
<1>2. row \in Seq(CrossedHere) /\ row \in Seq(CellEdges)
  <2> DEFINE B == CornersBelow(cell)
  <2>1. B \in SUBSET (0..7) /\ cellIndex(cell) = IndexOf(B)
    BY RowSides
  <2> HIDE DEF B
  <2>2. triTable[IndexOf(B) + 1] \in Seq(Crossed(IndexOf(B)))
    BY <2>1, TablesAssumption
  <2> QED
    BY <2>1, <2>2, RowSides DEF CrossedHere, Row
<1>3. \A e \in CrossedHere : NewVerts[NumbersHere[e] + 1] = LatticeEdge(e, cell)
  BY HeldRight
<1>4. tris = [t \in 1..q |-> [k \in 1..3 |-> NumbersHere[row[(3 * (t - 1)) + k]]]]
  BY DEF Triangles, Row
<1>5. NewTris = iso.tris \o tris
  BY DEF NewTris
<1>6. /\ \A c \in Cells : Earlier(c, NextCell(cell)) <=> (Earlier(c, cell) \/ c = cell)
      /\ ~Earlier(cell, cell)
  <2>1. cell[1] \in Nat /\ cell[2] \in Nat
    BY <1>1, CellParts
  <2> QED
    BY <1>1, <2>1, NextIsLater DEF Earlier
<1> HIDE DEF n, row, tris
<1>7. Len(row) \in Nat /\ q \in Nat /\ 3 * q <= Len(row)
  <2>1. Len(row) \in Nat
    BY <1>2
  <2> QED
    BY <2>1
<1> HIDE DEF q
<1>8. \A j \in 1..q, k \in 1..3 : (3 * (j - 1)) + k \in 1..Len(row)
  BY <1>7
<1>9. \A j \in 1..q, k \in 1..3 :
          NewVerts[tris[j][k] + 1] = LatticeEdge(row[(3 * (j - 1)) + k], cell)
  <2> SUFFICES ASSUME NEW j \in 1..q, NEW k \in 1..3
               PROVE  NewVerts[tris[j][k] + 1] = LatticeEdge(row[(3 * (j - 1)) + k], cell)
    OBVIOUS
  <2>1. row[(3 * (j - 1)) + k] \in CrossedHere
    BY <1>2, <1>8
  <2>2. tris[j][k] = NumbersHere[row[(3 * (j - 1)) + k]]
    BY <1>4
  <2> QED
    BY <1>3, <2>1, <2>2
<1>10. /\ Len(NewTris) = n + q
       /\ \A t \in 1..n : NewTris[t] = iso.tris[t]
       /\ \A t \in 1..(n + q) : t > n => NewTris[t] = tris[t - n]
  <2> DEFINE T == [1..3 -> 0..(Len(iso.verts) - 1)] \cup {tris[j] : j \in 1..q}
  <2>1. iso.tris \in Seq(T) /\ tris \in Seq(T) /\ Len(tris) = q
    <3>1. \A j \in 1..q : tris[j] \in T
      OBVIOUS
    <3>2. tris = [j \in 1..q |-> tris[j]]
      BY <1>4
    <3>3. [1..3 -> 0..(Len(iso.verts) - 1)] \subseteq T
      OBVIOUS
    <3> HIDE DEF T
    <3>4. tris \in Seq(T) /\ Len(tris) = q
      BY <1>7, <3>1, <3>2
    <3>5. iso.tris \in Seq(T)
      BY <1>1, <3>3
    <3> QED
      BY <3>4, <3>5
  <2> HIDE DEF T
  <2>2. /\ Len(NewTris) = Len(iso.tris) + Len(tris)
        /\ \A t \in 1..(Len(iso.tris) + Len(tris)) :
              NewTris[t] = IF t <= Len(iso.tris) THEN iso.tris[t] ELSE tris[t - Len(iso.tris)]
    BY <1>5, <2>1, Joined
  <2>3. /\ Len(NewTris) = n + q
        /\ \A t \in 1..(n + q) : NewTris[t] = IF t <= n THEN iso.tris[t] ELSE tris[t - n]
    BY <2>1, <2>2 DEF n
  <2>4. \A t \in 1..n : t \in 1..(n + q) /\ t <= n
    BY <1>1, <1>7
  <2>5. \A t \in 1..(n + q) : t > n => ~(t <= n)
    BY <1>1, <1>7
  <2> QED
    BY <2>3, <2>4, <2>5
<1>11. \A t \in 1..n, k \in 1..3 : NewVerts[iso.tris[t][k] + 1] = iso.verts[iso.tris[t][k] + 1]
  <2> SUFFICES ASSUME NEW t \in 1..n, NEW k \in 1..3
               PROVE  NewVerts[iso.tris[t][k] + 1] = iso.verts[iso.tris[t][k] + 1]
    OBVIOUS
  <2>1. iso.tris[t] \in [1..3 -> 0..(Len(iso.verts) - 1)]
    BY <1>1
  <2>2. iso.tris[t][k] \in 0..(Len(iso.verts) - 1)
    BY <2>1
  <2>3. Len(iso.verts) \in Nat /\ \A m \in 1..Len(iso.verts) : NewVerts[m] = iso.verts[m]
    BY NewVertsAre
  <2>4. iso.tris[t][k] + 1 \in 1..Len(iso.verts)
    BY <2>2, <2>3
  <2> QED
    BY <2>3, <2>4
<1>12. /\ \A t \in 1..n : new[t] = own[t] /\ t \in 1..(n + q)
       /\ \A t \in 1..(n + q) : t > n => new[t] = <<cell, t - n>> /\ t - n \in 1..q
       /\ \A t \in 1..(n + q) : t <= n => t \in 1..n
  BY <1>1, <1>7
<1> HIDE DEF new
<1>13. Owns(cell, iso.verts, iso.tris, own)
  OBVIOUS
<1>14. /\ \A t \in 1..n :
             /\ own[t] = <<own[t][1], own[t][2]>> /\ own[t][1] \in Cells /\ Earlier(own[t][1], cell)
             /\ own[t][2] \in 1..(Len(Row(own[t][1])) \div 3)
             /\ \A k \in 1..3 : iso.verts[iso.tris[t][k] + 1]
                     = LatticeEdge(Row(own[t][1])[(3 * (own[t][2] - 1)) + k], own[t][1])
       /\ \A t, u \in 1..n : own[t] = own[u] => t = u
       /\ \A c \in Cells : Earlier(c, cell) =>
             \A j \in 1..(Len(Row(c)) \div 3) : \E t \in 1..n : own[t] = <<c, j>>
  BY <1>13 DEF Owns, n
<1>15. ASSUME NEW t \in 1..(n + q)
       PROVE  LET c == new[t][1]
                  j == new[t][2] IN
              /\ new[t] = <<c, j>> /\ c \in Cells /\ Earlier(c, NextCell(cell))
              /\ j \in 1..(Len(Row(c)) \div 3)
              /\ \A k \in 1..3 :
                    NewVerts[NewTris[t][k] + 1] = LatticeEdge(Row(c)[(3 * (j - 1)) + k], c)
  <2>1. CASE t <= n
    <3>1. t \in 1..n /\ new[t] = own[t] /\ NewTris[t] = iso.tris[t]
      BY <1>10, <1>12, <2>1
    <3> QED
      BY <1>6, <1>11, <1>14, <3>1
  <2>2. CASE t > n
    <3> DEFINE j == t - n
    <3>1. new[t] = <<cell, j>> /\ j \in 1..q /\ NewTris[t] = tris[j]
      BY <1>10, <1>12, <2>2
    <3> HIDE DEF j
    <3>2. new[t][1] = cell /\ new[t][2] = j
      BY <3>1
    <3>3. j \in 1..(Len(Row(cell)) \div 3)
      BY <3>1 DEF q, row
    <3>4. \A k \in 1..3 : NewVerts[NewTris[t][k] + 1] = LatticeEdge(Row(cell)[(3 * (j - 1)) + k], cell)
      BY <1>9, <3>1 DEF row
    <3> QED
      BY <1>1, <1>6, <3>1, <3>2, <3>3, <3>4
  <2> QED
    BY <1>1, <1>7, <2>1, <2>2
<1>16. ASSUME NEW t \in 1..(n + q), NEW u \in 1..(n + q), new[t] = new[u]
       PROVE  t = u
  <2>1. \A v \in 1..n : new[v] = own[v] /\ own[v] = <<own[v][1], own[v][2]>> /\ own[v][1] # cell
    BY <1>6, <1>12, <1>14
  <2>2. \A v \in 1..(n + q) : v > n => new[v] = <<cell, v - n>>
    BY <1>12
  <2>3. CASE t <= n /\ u <= n
    BY <1>12, <1>14, <1>16, <2>3
  <2>4. CASE t <= n /\ u > n
    <3>1. own[t] = <<cell, u - n>> /\ own[t][1] # cell
      BY <1>12, <1>16, <2>1, <2>2, <2>4
    <3> QED
      BY <3>1
  <2>5. CASE t > n /\ u <= n
    <3>1. own[u] = <<cell, t - n>> /\ own[u][1] # cell
      BY <1>12, <1>16, <2>1, <2>2, <2>5
    <3> QED
      BY <3>1
  <2>6. CASE t > n /\ u > n
    <3>1. t - n = u - n
      BY <1>16, <2>2, <2>6
    <3> QED
      BY <1>1, <1>7, <3>1
  <2> QED
    BY <1>1, <1>7, <2>3, <2>4, <2>5, <2>6
<1>17. ASSUME NEW c \in Cells, Earlier(c, NextCell(cell)), NEW j \in 1..(Len(Row(c)) \div 3)
       PROVE  \E t \in 1..(n + q) : new[t] = <<c, j>>
  <2>1. CASE Earlier(c, cell)
    <3>1. PICK t \in 1..n : own[t] = <<c, j>>
      BY <1>14, <1>17, <2>1
    <3> QED
      BY <1>12, <3>1
  <2>2. CASE c = cell
    <3>1. j \in 1..q
      BY <1>17, <2>2 DEF q, row
    <3>2. n + j \in 1..(n + q) /\ n + j > n /\ (n + j) - n = j
      BY <1>1, <1>7, <3>1
    <3>3. new[n + j] = <<cell, j>>
      BY <1>12, <3>2
    <3> QED
      BY <2>2, <3>2, <3>3
  <2> QED
    BY <1>6, <1>17, <2>1, <2>2
<1>18. Owns(NextCell(cell), NewVerts, NewTris, new)
  <2>1. Len(NewTris) = n + q
    BY <1>10
  <2>2. \A t \in 1..Len(NewTris) :
            LET c == new[t][1]
                j == new[t][2] IN
            /\ new[t] = <<c, j>> /\ c \in Cells /\ Earlier(c, NextCell(cell))
            /\ j \in 1..(Len(Row(c)) \div 3)
            /\ \A k \in 1..3 :
                  NewVerts[NewTris[t][k] + 1] = LatticeEdge(Row(c)[(3 * (j - 1)) + k], c)
    BY <1>15, <2>1, Zenon
  <2>3. \A t, u \in 1..Len(NewTris) : new[t] = new[u] => t = u
    BY <1>16, <2>1
  <2>4. \A c \in Cells : Earlier(c, NextCell(cell)) =>
            \A j \in 1..(Len(Row(c)) \div 3) : \E t \in 1..Len(NewTris) : new[t] = <<c, j>>
    BY <1>17, <2>1
  <2> QED
    BY <2>2, <2>3, <2>4, Zenon DEF Owns
<1> QED
  BY <1>18

-----------------------------------------------------------------------------
(* A layer that is done: its sides, cell by cell.                             *)

LayerInv == MeshInv /\ TrisInv

EdgeOf(own, c, p) ==
    [from |-> LatticeEdge(Side(cellIndex(c), p)[1], c),
     to |-> LatticeEdge(Side(cellIndex(c), p)[2], c),
     side |-> <<CHOOSE t \in 1..Len(iso.tris) : own[t] = <<c, p[1]>>, p[2]>>]

(* A side of the layer's triangles is a side in the row of one cell.          *)
LEMMA SidesOfCells ==
    ASSUME LayerInv, LayerOver
    PROVE  \E own :
             /\ \A d \in MeshEdges : \E c \in Cells : \E p \in Places(cellIndex(c)) : d = EdgeOf(own, c, p)
             /\ \A c \in Cells : \A p \in Places(cellIndex(c)) : EdgeOf(own, c, p) \in MeshEdges
<1> DEFINE n == Len(iso.tris)
<1>1. PICK own : Owns(cell, iso.verts, iso.tris, own)
  BY DEF LayerInv, TrisInv, LayerOver
<1>2. \A c \in Cells : Earlier(c, cell)
  <2> SUFFICES ASSUME NEW c \in Cells PROVE Earlier(c, cell)
    OBVIOUS
  <2>1. c[2] \in 0..(NY - 2) /\ cell[2] = NY - 1 /\ NY \in Nat
    BY CellParts, MeshAssumption DEF LayerOver
  <2>2. c[2] < cell[2]
    BY <2>1
  <2> QED
    BY <2>2 DEF Earlier
<1>3. DOMAIN iso.tris = 1..n
  BY DEF LayerInv, MeshInv, MeshTyped
<1> HIDE DEF n
<1>4. /\ \A t \in 1..n :
            /\ own[t] = <<own[t][1], own[t][2]>> /\ own[t][1] \in Cells
            /\ own[t][2] \in 1..(Len(Row(own[t][1])) \div 3)
            /\ \A k \in 1..3 : iso.verts[iso.tris[t][k] + 1]
                    = LatticeEdge(Row(own[t][1])[(3 * (own[t][2] - 1)) + k], own[t][1])
      /\ \A t, u \in 1..n : own[t] = own[u] => t = u
      /\ \A c \in Cells : \A j \in 1..(Len(Row(c)) \div 3) : \E t \in 1..n : own[t] = <<c, j>>
  BY <1>1, <1>2 DEF Owns, n
<1> DEFINE E(t, k) == [from |-> iso.verts[iso.tris[t][k] + 1],
                       to |-> iso.verts[iso.tris[t][(k % 3) + 1] + 1], side |-> <<t, k>>]
<1>5. MeshEdges = {E(t, k) : t \in 1..n, k \in 1..3}
  BY <1>3 DEF MeshEdges
<1> HIDE DEF E
<1>6. ASSUME NEW t \in 1..n, NEW k \in 1..3, NEW c \in Cells, NEW j \in Int, own[t] = <<c, j>>
      PROVE  E(t, k) = EdgeOf(own, c, <<j, k>>)
  <2>1. own[t][1] = c /\ own[t][2] = j
    BY <1>6
  <2>2. \A l \in 1..3 : iso.verts[iso.tris[t][l] + 1] = LatticeEdge(Row(c)[(3 * (j - 1)) + l], c)
    BY <1>4, <2>1
  <2>3. (k % 3) + 1 \in 1..3 /\ (3 * (j - 1)) + (k % 3) + 1 = (3 * (j - 1)) + ((k % 3) + 1)
    BY <1>6
  <2> DEFINE m == (k % 3) + 1
             s == Side(cellIndex(c), <<j, k>>)
  <2>4. s[1] = Row(c)[(3 * (j - 1)) + k] /\ s[2] = Row(c)[(3 * (j - 1)) + m]
    BY <2>3 DEF Side, Row
  <2>5. (CHOOSE u \in 1..n : own[u] = <<c, j>>) = t
    BY <1>4, <1>6
  <2> HIDE DEF m, s
  <2>6. E(t, k) = [from |-> LatticeEdge(s[1], c), to |-> LatticeEdge(s[2], c), side |-> <<t, k>>]
    BY <2>2, <2>3, <2>4 DEF E, m
  <2>7. EdgeOf(own, c, <<j, k>>) = [from |-> LatticeEdge(s[1], c), to |-> LatticeEdge(s[2], c), side |-> <<t, k>>]
    BY <2>5 DEF EdgeOf, s, n
  <2> QED
    BY <2>6, <2>7
<1>7. \A c : Places(cellIndex(c)) = (1..(Len(Row(c)) \div 3)) \X (1..3)
  BY DEF Places, Row
<1>8. ASSUME NEW d \in MeshEdges
      PROVE  \E c \in Cells : \E p \in Places(cellIndex(c)) : d = EdgeOf(own, c, p)
  <2>1. PICK t \in 1..n, k \in 1..3 : d = E(t, k)
    BY <1>5
  <2> DEFINE c == own[t][1]
             j == own[t][2]
  <2>2. own[t] = <<c, j>> /\ c \in Cells /\ j \in 1..(Len(Row(c)) \div 3)
    BY <1>4
  <2> HIDE DEF c, j
  <2>3. d = EdgeOf(own, c, <<j, k>>) /\ <<j, k>> \in Places(cellIndex(c))
    BY <1>6, <1>7, <2>1, <2>2
  <2> QED
    BY <2>2, <2>3
<1>9. ASSUME NEW c \in Cells, NEW p \in Places(cellIndex(c))
      PROVE  EdgeOf(own, c, p) \in MeshEdges
  <2>1. p = <<p[1], p[2]>> /\ p[1] \in 1..(Len(Row(c)) \div 3) /\ p[2] \in 1..3
    BY <1>7
  <2>2. PICK t \in 1..n : own[t] = <<c, p[1]>>
    BY <1>4, <2>1
  <2>3. EdgeOf(own, c, p) = E(t, p[2])
    BY <1>6, <2>1, <2>2
  <2> QED
    BY <1>5, <2>1, <2>3
<1> QED
  BY <1>8, <1>9

(* A side has one partner when one cell has it.                               *)
LEMMA OnePartner ==
    ASSUME NEW own, NEW d, NEW r \in Cells, slice \in Nat,
           \A o \in MeshEdges : \E c \in Cells : \E p \in Places(cellIndex(c)) : o = EdgeOf(own, c, p),
           \A c \in Cells : \A p \in Places(cellIndex(c)) : EdgeOf(own, c, p) \in MeshEdges,
           NEW s \in Sides(cellIndex(r)),
           LatticeEdge(s[1], r) = d.to, LatticeEdge(s[2], r) = d.from,
           \A c \in Cells : \A o \in Sides(cellIndex(c)) :
               LatticeEdge(o[1], c) = d.to /\ LatticeEdge(o[2], c) = d.from => c = r
    PROVE  Cardinality({o \in MeshEdges : o.from = d.to /\ o.to = d.from}) = 1
<1> DEFINE R == {o \in MeshEdges : o.from = d.to /\ o.to = d.from}
<1>1. \A c, p : /\ EdgeOf(own, c, p).from = LatticeEdge(Side(cellIndex(c), p)[1], c)
                /\ EdgeOf(own, c, p).to = LatticeEdge(Side(cellIndex(c), p)[2], c)
  BY DEF EdgeOf
<1>2. PICK p \in Places(cellIndex(r)) : s = Side(cellIndex(r), p)
  BY DEF Sides
<1>3. EdgeOf(own, r, p) \in R
  BY <1>1, <1>2
<1>4. ASSUME NEW o \in R PROVE o = EdgeOf(own, r, p)
  <2>1. o \in MeshEdges /\ o.from = d.to /\ o.to = d.from
    OBVIOUS
  <2>12. PICK c \in Cells : \E q \in Places(cellIndex(c)) : o = EdgeOf(own, c, q)
    BY <2>1
  <2>2. PICK q \in Places(cellIndex(c)) : o = EdgeOf(own, c, q)
    BY <2>12
  <2> DEFINE f == Side(cellIndex(c), q)
  <2>3. f \in Sides(cellIndex(c))
    BY DEF Sides
  <2>4. LatticeEdge(f[1], c) = d.to /\ LatticeEdge(f[2], c) = d.from
    BY <1>1, <2>1, <2>2
  <2>5. c = r
    BY <2>3, <2>4
  <2> HIDE DEF f
  <2>6. /\ f = <<f[1], f[2]>> /\ f[1] \in CellEdges /\ f[2] \in CellEdges
        /\ s = <<s[1], s[2]>> /\ s[1] \in CellEdges /\ s[2] \in CellEdges
    BY <2>3, RowSides
  <2>7. r[1] \in Nat /\ r[2] \in Nat /\ r = <<r[1], r[2]>>
    BY CellParts
  <2>8. f[1] = s[1]
    <3>1. LatticeEdge(f[1], r) = LatticeEdge(s[1], r)
      BY <2>4, <2>5
    <3> QED
      BY <2>6, <2>7, <3>1, EdgesApart
  <2>9. f[2] = s[2]
    <3>1. LatticeEdge(f[2], r) = LatticeEdge(s[2], r)
      BY <2>4, <2>5
    <3> QED
      BY <2>6, <2>7, <3>1, EdgesApart
  <2>10. f = s
    BY <2>6, <2>8, <2>9
  <2>11. q = p
    <3>1. Side(cellIndex(r), q) = Side(cellIndex(r), p) /\ q \in Places(cellIndex(r))
      BY <1>2, <2>5, <2>10 DEF f
    <3> QED
      BY <3>1, RowSides
  <2> QED
    BY <2>2, <2>5, <2>11
<1>5. R = {EdgeOf(own, r, p)}
  BY <1>3, <1>4
<1> QED
  BY <1>5, FS_Singleton

(* The surface of a layer has no hole inside it.                              *)
LEMMA LayerClosed ==
    ASSUME LayerInv
    PROVE  NoHoles
<1> SUFFICES ASSUME LayerOver, NEW d \in MeshEdges, ~OnRim(d)
             PROVE  Cardinality({o \in MeshEdges : o.from = d.to /\ o.to = d.from}) = 1
  BY DEF NoHoles
<1>1. PICK own :
          /\ \A o \in MeshEdges : \E c \in Cells : \E p \in Places(cellIndex(c)) : o = EdgeOf(own, c, p)
          /\ \A c \in Cells : \A p \in Places(cellIndex(c)) : EdgeOf(own, c, p) \in MeshEdges
  BY SidesOfCells
<1>2. PICK c \in Cells : \E p \in Places(cellIndex(c)) : d = EdgeOf(own, c, p)
  BY <1>1
<1>3. PICK p \in Places(cellIndex(c)) : d = EdgeOf(own, c, p)
  BY <1>2
<1> DEFINE s == Side(cellIndex(c), p)
           x == c[1]
           y == c[2]
<1>4. s \in Sides(cellIndex(c)) /\ d.from = LatticeEdge(s[1], c) /\ d.to = LatticeEdge(s[2], c)
  BY <1>3 DEF Sides, EdgeOf
<1>5. slice \in Nat
  BY DEF LayerInv, MeshInv, MeshTyped
<1>6. /\ x \in 0..(NX - 2) /\ y \in 0..(NY - 2) /\ c = <<x, y>> /\ NX \in Nat /\ NY \in Nat
      /\ x \in Nat /\ y \in Nat
  BY CellParts, MeshAssumption
<1> HIDE DEF s, x, y
<1>7. /\ s = <<s[1], s[2]>> /\ s[1] \in CellEdges /\ s[2] \in CellEdges /\ s[1] # s[2]
      /\ <<s[2], s[1]>> \in Sides(cellIndex(c)) <=> \A face \in Faces : ~OnFace(s, face)
  BY <1>4, RowSides
<1>8. \A face : OnFace(s, face) <=>
          EdgeEnds(s[1]) \subseteq DOMAIN face /\ EdgeEnds(s[2]) \subseteq DOMAIN face
  BY DEF OnFace
\* Which cells have a side that meets this one.
<1>9. ASSUME NEW q \in Cells, NEW o \in Sides(cellIndex(q)),
             LatticeEdge(o[1], q) = d.to, LatticeEdge(o[2], q) = d.from
      PROVE  \/ q = c /\ \A face \in Faces : ~OnFace(s, face)
             \/ q[1] = x + 1 /\ q[2] = y /\ OnFace(s, RightFace)
             \/ q[1] = x - 1 /\ q[2] = y /\ OnFace(s, LeftFace)
             \/ q[1] = x /\ q[2] = y + 1 /\ OnFace(s, RearFace)
             \/ q[1] = x /\ q[2] = y - 1 /\ OnFace(s, FrontFace)
  <2>1. o = <<o[1], o[2]>> /\ o[1] \in CellEdges /\ o[2] \in CellEdges
    BY RowSides
  <2>2. LatticeEdge(o[1], q) = LatticeEdge(s[2], c) /\ LatticeEdge(o[2], q) = LatticeEdge(s[1], c)
    BY <1>4, <1>9
  <2>3. CASE q = c
    <3>1. o[1] = s[2]
      <4>1. LatticeEdge(o[1], c) = LatticeEdge(s[2], c)
        BY <2>2, <2>3
      <4> QED
        BY <1>5, <1>6, <1>7, <2>1, <4>1, EdgesApart
    <3>2. o[2] = s[1]
      <4>1. LatticeEdge(o[2], c) = LatticeEdge(s[1], c)
        BY <2>2, <2>3
      <4> QED
        BY <1>5, <1>6, <1>7, <2>1, <4>1, EdgesApart
    <3>3. <<s[2], s[1]>> \in Sides(cellIndex(c))
      BY <2>1, <2>3, <3>1, <3>2
    <3> QED
      BY <1>7, <2>3, <3>3
  <2>4. CASE q # c
    BY <1>5, <1>7, <2>1, <2>2, <2>4, TwoShared DEF x, y
  <2> QED
    BY <2>3, <2>4
<1>10. RightFace \in Faces /\ LeftFace \in Faces /\ RearFace \in Faces /\ FrontFace \in Faces
       /\ TopFace \in Faces /\ BottomFace \in Faces
       /\ \A face \in Faces : face \in {RightFace, LeftFace, RearFace, FrontFace, TopFace, BottomFace}
  BY DEF Faces
<1>11. \A q \in Cells : q = <<q[1], q[2]>>
  BY CellParts
\* The side is not on the rim.
<1>12. \A axis, n : Flat(d.from, axis, n) /\ Flat(d.to, axis, n) => InPlane(d, axis, n)
  BY DEF Flat, InPlane
<1>13. /\ OnFace(s, LeftFace) => Flat(d.from, 1, x) /\ Flat(d.to, 1, x)
       /\ OnFace(s, RightFace) => Flat(d.from, 1, x + 1) /\ Flat(d.to, 1, x + 1)
       /\ OnFace(s, FrontFace) => Flat(d.from, 2, y) /\ Flat(d.to, 2, y)
       /\ OnFace(s, RearFace) => Flat(d.from, 2, y + 1) /\ Flat(d.to, 2, y + 1)
       /\ OnFace(s, BottomFace) => Flat(d.from, 3, slice) /\ Flat(d.to, 3, slice)
       /\ OnFace(s, TopFace) => Flat(d.from, 3, slice + 1) /\ Flat(d.to, 3, slice + 1)
  BY <1>4, <1>5, <1>6, <1>7, <1>8, EdgePlanes
<1>14. /\ ~InPlane(d, 1, 0) /\ ~InPlane(d, 1, NX - 1) /\ ~InPlane(d, 2, 0) /\ ~InPlane(d, 2, NY - 1)
       /\ ~InPlane(d, 3, slice) /\ ~InPlane(d, 3, slice + 1)
  BY DEF OnRim
<1>15. /\ OnFace(s, LeftFace) => x # 0
       /\ OnFace(s, RightFace) => x + 1 # NX - 1
       /\ OnFace(s, FrontFace) => y # 0
       /\ OnFace(s, RearFace) => y + 1 # NY - 1
       /\ ~OnFace(s, BottomFace) /\ ~OnFace(s, TopFace)
  <2>1. 1 \in 1..3 /\ 2 \in 1..3 /\ 3 \in 1..3
    OBVIOUS
  <2> QED
    BY <1>12, <1>13, <1>14, <2>1
<1>16. CASE \A face \in Faces : ~OnFace(s, face)
  <2>1. <<s[2], s[1]>> \in Sides(cellIndex(c))
    BY <1>7, <1>16
  <2>2. \A q \in Cells : \A o \in Sides(cellIndex(q)) :
            LatticeEdge(o[1], q) = d.to /\ LatticeEdge(o[2], q) = d.from => q = c
    BY <1>9, <1>10, <1>16
  <2>3. LatticeEdge(<<s[2], s[1]>>[1], c) = d.to /\ LatticeEdge(<<s[2], s[1]>>[2], c) = d.from
    BY <1>4
  <2> QED
    BY <1>1, <1>5, <2>1, <2>2, <2>3, OnePartner
<1>17. ASSUME NEW face \in Faces, OnFace(s, face), NEW r \in Cells,
              \A k \in DOMAIN face : Corner(k, c) = Corner(face[k], r),
              \A q \in Cells : \A o \in Sides(cellIndex(q)) :
                  LatticeEdge(o[1], q) = d.to /\ LatticeEdge(o[2], q) = d.from => q = r
       PROVE  Cardinality({o \in MeshEdges : o.from = d.to /\ o.to = d.from}) = 1
  <2>1. PICK o \in Sides(cellIndex(r)) :
            LatticeEdge(o[1], r) = LatticeEdge(s[2], c) /\ LatticeEdge(o[2], r) = LatticeEdge(s[1], c)
    BY <1>4, <1>17, MetAcross
  <2>2. LatticeEdge(o[1], r) = d.to /\ LatticeEdge(o[2], r) = d.from
    BY <1>4, <2>1
  <2> QED
    BY <1>1, <1>5, <1>17, <2>2, OnePartner
<1> DEFINE Only(r) == \A q \in Cells : \A o \in Sides(cellIndex(q)) :
                          LatticeEdge(o[1], q) = d.to /\ LatticeEdge(o[2], q) = d.from => q = r
<1>18. \A q \in Cells : \A o \in Sides(cellIndex(q)) :
           LatticeEdge(o[1], q) = d.to /\ LatticeEdge(o[2], q) = d.from =>
               \/ q = c /\ \A face \in Faces : ~OnFace(s, face)
               \/ q[1] = x + 1 /\ q[2] = y /\ OnFace(s, RightFace)
               \/ q[1] = x - 1 /\ q[2] = y /\ OnFace(s, LeftFace)
               \/ q[1] = x /\ q[2] = y + 1 /\ OnFace(s, RearFace)
               \/ q[1] = x /\ q[2] = y - 1 /\ OnFace(s, FrontFace)
  BY <1>9
<1>19. /\ ~(OnFace(s, LeftFace) /\ OnFace(s, RightFace)) /\ ~(OnFace(s, RearFace) /\ OnFace(s, FrontFace))
       /\ ~(OnFace(s, LeftFace) /\ OnFace(s, RearFace)) /\ ~(OnFace(s, LeftFace) /\ OnFace(s, FrontFace))
       /\ ~(OnFace(s, RightFace) /\ OnFace(s, RearFace)) /\ ~(OnFace(s, RightFace) /\ OnFace(s, FrontFace))
  BY <1>7, OneFace
<1>20. CASE OnFace(s, RightFace)
  <2> DEFINE r == <<x + 1, y>>
  <2>1. r \in Cells
    <3>1. x + 1 \in 0..(NX - 2)
      BY <1>6, <1>15, <1>20
    <3> QED
      BY <1>6, <3>1 DEF Cells
  <2>2. \A k \in DOMAIN RightFace : Corner(k, c) = Corner(RightFace[k], r)
    <3>1. Right(c) = r
      BY DEF Right, x, y
    <3> QED
      BY <1>6, <3>1, SameCorners
  <2>3. Only(r)
    BY <1>10, <1>11, <1>18, <1>19, <1>20
  <2> HIDE DEF r
  <2> QED
    BY <1>10, <1>17, <1>20, <2>1, <2>2, <2>3
<1>21. CASE OnFace(s, LeftFace)
  <2> DEFINE r == <<x - 1, y>>
  <2>1. r \in Cells /\ x - 1 \in Nat /\ (x - 1) + 1 = x
    <3>1. x - 1 \in 0..(NX - 2) /\ x - 1 \in Nat /\ (x - 1) + 1 = x
      BY <1>6, <1>15, <1>21
    <3> QED
      BY <1>6, <3>1 DEF Cells
  <2>2. \A k \in DOMAIN LeftFace : Corner(k, c) = Corner(LeftFace[k], r)
    <3>1. Right(r) = c
      BY <1>6, <2>1 DEF Right
    <3>2. \A k \in DOMAIN LeftFace : Corner(k, Right(r)) = Corner(LeftFace[k], r)
      BY <1>6, <2>1, SameCorners
    <3> QED
      BY <3>1, <3>2
  <2>3. Only(r)
    BY <1>10, <1>11, <1>18, <1>19, <1>21
  <2> HIDE DEF r
  <2> QED
    BY <1>10, <1>17, <1>21, <2>1, <2>2, <2>3
<1>22. CASE OnFace(s, RearFace)
  <2> DEFINE r == <<x, y + 1>>
  <2>1. r \in Cells
    <3>1. y + 1 \in 0..(NY - 2)
      BY <1>6, <1>15, <1>22
    <3> QED
      BY <1>6, <3>1 DEF Cells
  <2>2. \A k \in DOMAIN RearFace : Corner(k, c) = Corner(RearFace[k], r)
    <3>1. Rear(c) = r
      BY DEF Rear, x, y
    <3> QED
      BY <1>6, <3>1, SameCorners
  <2>3. Only(r)
    BY <1>10, <1>11, <1>18, <1>19, <1>22
  <2> HIDE DEF r
  <2> QED
    BY <1>10, <1>17, <1>22, <2>1, <2>2, <2>3
<1>23. CASE OnFace(s, FrontFace)
  <2> DEFINE r == <<x, y - 1>>
  <2>1. r \in Cells /\ y - 1 \in Nat /\ (y - 1) + 1 = y
    <3>1. y - 1 \in 0..(NY - 2) /\ y - 1 \in Nat /\ (y - 1) + 1 = y
      BY <1>6, <1>15, <1>23
    <3> QED
      BY <1>6, <3>1 DEF Cells
  <2>2. \A k \in DOMAIN FrontFace : Corner(k, c) = Corner(FrontFace[k], r)
    <3>1. Rear(r) = c
      BY <1>6, <2>1 DEF Rear
    <3>2. \A k \in DOMAIN FrontFace : Corner(k, Rear(r)) = Corner(FrontFace[k], r)
      BY <1>6, <2>1, SameCorners
    <3> QED
      BY <3>1, <3>2
  <2>3. Only(r)
    BY <1>10, <1>11, <1>18, <1>19, <1>23
  <2> HIDE DEF r
  <2> QED
    BY <1>10, <1>17, <1>23, <2>1, <2>2, <2>3
<1> QED
  BY <1>10, <1>15, <1>16, <1>20, <1>21, <1>22, <1>23

-----------------------------------------------------------------------------
(* Two layers. The slab between them is above the one and below the other; the *)
(* sides in it follow from it alone.                                          *)

Floor == IF cell = Idle THEN slab[2] ELSE slab[1]
FloorCorners(c) == {k \in 0..3 : <<Corner(k, c)[1], Corner(k, c)[2]>> \in Floor}
FloorSides ==
    {p \in Cells \X (CellEdges \X CellEdges) :
        p[2] \in Sides(IndexOf(FloorCorners(p[1]))) /\ OnFace(p[2], BottomFace)}

\* seam has the sides of a layer on the floor of the next, the other way round.
SeamInv ==
    slice > 0 => seam = {<<LatticeEdge(p[2][2], p[1]), LatticeEdge(p[2][1], p[1])>> : p \in FloorSides}

SurfaceInv == LayerInv /\ SeamInv

(* A row's sides are sides, for any set of corners.                           *)
LEMMA AnyRow ==
    ASSUME NEW B \in SUBSET (0..7)
    PROVE  /\ \A face \in Faces, others \in SUBSET (0..7) :
                 (\A k \in DOMAIN face : k \in B <=> face[k] \in others) =>
                     \A s \in Sides(IndexOf(B)) : OnFace(s, face) =>
                         \E o \in Sides(IndexOf(others)) :
                             EdgeEnds(o[1]) = Behind(s[2], face) /\ EdgeEnds(o[2]) = Behind(s[1], face)
           /\ \A s \in Sides(IndexOf(B)) :
                 s = <<s[1], s[2]>> /\ s[1] \in CellEdges /\ s[2] \in CellEdges
<1>1. \A s \in Sides(IndexOf(B)), face \in Faces : OnFace(s, face) =>
          \A others \in SUBSET (0..7) :
              (\A k \in DOMAIN face : k \in B <=> face[k] \in others) =>
                  \E o \in Sides(IndexOf(others)) :
                      EdgeEnds(o[1]) = Behind(s[2], face) /\ EdgeEnds(o[2]) = Behind(s[1], face)
  BY TrianglesAssumption
<1> DEFINE i == IndexOf(B)
           row == triTable[i + 1]
<1>2. row \in Seq(CellEdges)
  <2>1. row \in Seq(Crossed(i))
    BY TablesAssumption
  <2>2. Crossed(i) \subseteq CellEdges
    BY DEF Crossed
  <2> QED
    BY <2>1, <2>2
<1> HIDE DEF i
<1>3. \A s \in Sides(i) : s = <<s[1], s[2]>> /\ s[1] \in CellEdges /\ s[2] \in CellEdges
  BY <1>2, SidesOfRow DEF row
<1> QED
  BY <1>1, <1>3 DEF i

(* What is behind the face behind a face is the edge itself.                   *)
LEMMA ThereAndBack ==
    /\ \A e \in CellEdges : EdgeEnds(e) \subseteq DOMAIN BottomFace =>
          /\ Behind(e, BottomFace) \subseteq DOMAIN TopFace
          /\ {TopFace[k] : k \in Behind(e, BottomFace)} = EdgeEnds(e)
    /\ \A k \in DOMAIN BottomFace : BottomFace[k] \in DOMAIN TopFace /\ TopFace[BottomFace[k]] = k
    /\ \A k \in DOMAIN TopFace : TopFace[k] \in DOMAIN BottomFace /\ BottomFace[TopFace[k]] = k
<1>1. \A k \in DOMAIN BottomFace : BottomFace[k] \in DOMAIN TopFace /\ TopFace[BottomFace[k]] = k
  BY FaceCorners
<1>2. \A k \in DOMAIN TopFace : TopFace[k] \in DOMAIN BottomFace /\ BottomFace[TopFace[k]] = k
  BY FaceCorners
<1>3. ASSUME NEW e \in CellEdges, EdgeEnds(e) \subseteq DOMAIN BottomFace
      PROVE  /\ Behind(e, BottomFace) \subseteq DOMAIN TopFace
             /\ {TopFace[k] : k \in Behind(e, BottomFace)} = EdgeEnds(e)
  BY <1>1, <1>3 DEF Behind
<1> QED
  BY <1>1, <1>2, <1>3

(* The sides on the floor of a cell depend on its lower corners only.          *)
LEMMA SameFloor ==
    ASSUME NEW B \in SUBSET (0..7), NEW C \in SUBSET (0..7), \A k \in 0..3 : k \in B <=> k \in C,
           NEW s \in Sides(IndexOf(B)), OnFace(s, BottomFace)
    PROVE  s \in Sides(IndexOf(C))
<1> DEFINE D == {k \in DOMAIN TopFace : TopFace[k] \in B}
<1>1. TopFace \in Faces /\ BottomFace \in Faces /\ DOMAIN TopFace \subseteq 0..7
      /\ DOMAIN BottomFace = 0..3
  BY FaceTypes DEF Faces, BottomFace
<1>2. D \in SUBSET (0..7)
  BY <1>1
<1>3. \A k \in DOMAIN BottomFace : k \in B <=> BottomFace[k] \in D
  BY ThereAndBack
<1>4. \A k \in DOMAIN TopFace : k \in D <=> TopFace[k] \in C
  BY <1>1, ThereAndBack
<1> HIDE DEF D
<1>5. PICK o \in Sides(IndexOf(D)) :
          EdgeEnds(o[1]) = Behind(s[2], BottomFace) /\ EdgeEnds(o[2]) = Behind(s[1], BottomFace)
  BY <1>1, <1>2, <1>3, AnyRow
<1>6. s = <<s[1], s[2]>> /\ s[1] \in CellEdges /\ s[2] \in CellEdges
  BY AnyRow
<1>7. EdgeEnds(s[1]) \subseteq DOMAIN BottomFace /\ EdgeEnds(s[2]) \subseteq DOMAIN BottomFace
  BY DEF OnFace
<1>8. OnFace(o, TopFace)
  BY <1>5, <1>6, <1>7, ThereAndBack DEF OnFace
<1>9. PICK r \in Sides(IndexOf(C)) :
          EdgeEnds(r[1]) = Behind(o[2], TopFace) /\ EdgeEnds(r[2]) = Behind(o[1], TopFace)
  BY <1>1, <1>2, <1>4, <1>8, AnyRow
<1>10. r = <<r[1], r[2]>> /\ r[1] \in CellEdges /\ r[2] \in CellEdges
  BY AnyRow
<1>11. Behind(o[2], TopFace) = EdgeEnds(s[1]) /\ Behind(o[1], TopFace) = EdgeEnds(s[2])
  <2>1. \A e : Behind(e, TopFace) = {TopFace[k] : k \in EdgeEnds(e)}
    BY DEF Behind
  <2> QED
    BY <1>5, <1>6, <1>7, <2>1, ThereAndBack
<1>12. r[1] = s[1] /\ r[2] = s[2]
  BY <1>6, <1>9, <1>10, <1>11, EndsApart
<1> QED
  BY <1>6, <1>10, <1>12

(* The sides of a layer in one of the planes it lies between.                 *)
LEMMA SegmentsAre ==
    ASSUME LayerInv, LayerOver
    PROVE  /\ \A v : v \in Segments(3, slice) <=>
                 \E c \in Cells : \E s \in Sides(cellIndex(c)) :
                     OnFace(s, BottomFace) /\ v = <<LatticeEdge(s[1], c), LatticeEdge(s[2], c)>>
           /\ \A v : v \in Segments(3, slice + 1) <=>
                 \E c \in Cells : \E s \in Sides(cellIndex(c)) :
                     OnFace(s, TopFace) /\ v = <<LatticeEdge(s[1], c), LatticeEdge(s[2], c)>>
<1>1. PICK own :
          /\ \A d \in MeshEdges : \E c \in Cells : \E p \in Places(cellIndex(c)) : d = EdgeOf(own, c, p)
          /\ \A c \in Cells : \A p \in Places(cellIndex(c)) : EdgeOf(own, c, p) \in MeshEdges
  BY SidesOfCells
<1>2. slice \in Nat
  BY DEF LayerInv, MeshInv, MeshTyped
<1>3. \A c, p : LET s == Side(cellIndex(c), p) IN
          EdgeOf(own, c, p).from = LatticeEdge(s[1], c) /\ EdgeOf(own, c, p).to = LatticeEdge(s[2], c)
  BY DEF EdgeOf
<1>4. \A c : \A s \in Sides(cellIndex(c)) : \E p \in Places(cellIndex(c)) : s = Side(cellIndex(c), p)
  BY DEF Sides
<1>5. \A c : \A p \in Places(cellIndex(c)) : Side(cellIndex(c), p) \in Sides(cellIndex(c))
  BY DEF Sides
<1>6. ASSUME NEW c \in Cells, NEW s \in Sides(cellIndex(c)), NEW d,
             d.from = LatticeEdge(s[1], c), d.to = LatticeEdge(s[2], c)
      PROVE  /\ InPlane(d, 3, slice) <=> OnFace(s, BottomFace)
             /\ InPlane(d, 3, slice + 1) <=> OnFace(s, TopFace)
  <2>1. c[1] \in Nat /\ c[2] \in Nat /\ c = <<c[1], c[2]>>
    BY CellParts
  <2>2. s[1] \in CellEdges /\ s[2] \in CellEdges
    BY RowSides
  <2>3. /\ Flat(d.from, 3, slice) <=> EdgeEnds(s[1]) \subseteq DOMAIN BottomFace
        /\ Flat(d.from, 3, slice + 1) <=> EdgeEnds(s[1]) \subseteq DOMAIN TopFace
        /\ Flat(d.to, 3, slice) <=> EdgeEnds(s[2]) \subseteq DOMAIN BottomFace
        /\ Flat(d.to, 3, slice + 1) <=> EdgeEnds(s[2]) \subseteq DOMAIN TopFace
    BY <1>2, <1>6, <2>1, <2>2, EdgePlanes
  <2>4. \A n : InPlane(d, 3, n) <=> Flat(d.from, 3, n) /\ Flat(d.to, 3, n)
    BY DEF InPlane, Flat
  <2>5. \A face : OnFace(s, face) <=>
            EdgeEnds(s[1]) \subseteq DOMAIN face /\ EdgeEnds(s[2]) \subseteq DOMAIN face
    BY DEF OnFace
  <2> QED
    BY <2>3, <2>4, <2>5
<1>7. ASSUME NEW n, NEW face,
             \A c \in Cells : \A s \in Sides(cellIndex(c)) : \A d :
                 d.from = LatticeEdge(s[1], c) /\ d.to = LatticeEdge(s[2], c) =>
                     (InPlane(d, 3, n) <=> OnFace(s, face))
      PROVE  \A v : v \in Segments(3, n) <=>
                 \E c \in Cells : \E s \in Sides(cellIndex(c)) :
                     OnFace(s, face) /\ v = <<LatticeEdge(s[1], c), LatticeEdge(s[2], c)>>
  <2>1. ASSUME NEW v, v \in Segments(3, n)
        PROVE  \E c \in Cells : \E s \in Sides(cellIndex(c)) :
                   OnFace(s, face) /\ v = <<LatticeEdge(s[1], c), LatticeEdge(s[2], c)>>
    <3>1. PICK d \in MeshEdges : InPlane(d, 3, n) /\ v = <<d.from, d.to>>
      BY <2>1 DEF Segments
    <3>2. PICK c \in Cells : \E p \in Places(cellIndex(c)) : d = EdgeOf(own, c, p)
      BY <1>1
    <3>3. PICK p \in Places(cellIndex(c)) : d = EdgeOf(own, c, p)
      BY <3>2
    <3>4. /\ Side(cellIndex(c), p) \in Sides(cellIndex(c))
          /\ d.from = LatticeEdge(Side(cellIndex(c), p)[1], c)
          /\ d.to = LatticeEdge(Side(cellIndex(c), p)[2], c)
      BY <1>3, <1>5, <3>3
    <3> QED
      BY <1>7, <3>1, <3>4
  <2>2. ASSUME NEW c \in Cells, NEW s \in Sides(cellIndex(c)), OnFace(s, face)
        PROVE  <<LatticeEdge(s[1], c), LatticeEdge(s[2], c)>> \in Segments(3, n)
    <3>1. PICK p \in Places(cellIndex(c)) : s = Side(cellIndex(c), p)
      BY <1>4
    <3> DEFINE d == EdgeOf(own, c, p)
    <3>2. d \in MeshEdges /\ d.from = LatticeEdge(s[1], c) /\ d.to = LatticeEdge(s[2], c)
      BY <1>1, <1>3, <3>1
    <3> HIDE DEF d
    <3>3. InPlane(d, 3, n)
      BY <1>7, <2>2, <3>2
    <3>4. \A e \in MeshEdges : InPlane(e, 3, n) => <<e.from, e.to>> \in Segments(3, n)
      BY DEF Segments
    <3> QED
      BY <3>2, <3>3, <3>4
  <2> QED
    BY <2>1, <2>2
<1>8. \A c \in Cells : \A s \in Sides(cellIndex(c)) : \A d :
          d.from = LatticeEdge(s[1], c) /\ d.to = LatticeEdge(s[2], c) =>
              /\ InPlane(d, 3, slice) <=> OnFace(s, BottomFace)
              /\ InPlane(d, 3, slice + 1) <=> OnFace(s, TopFace)
  BY <1>6
<1> QED
  BY <1>7, <1>8

(* The lower corners of a cell are on the floor.                              *)
LEMMA LowerCorners ==
    ASSUME NEW c \in Cells
    PROVE  /\ FloorCorners(c) \in SUBSET (0..7)
           /\ \A k \in 0..3 : k \in FloorCorners(c) <=> <<Corner(k, c)[1], Corner(k, c)[2]>> \in Floor
           /\ \A k \in 0..3 : k \in CornersBelow(c) <=> <<Corner(k, c)[1], Corner(k, c)[2]>> \in slab[1]
           /\ \A k \in 0..3 : BottomFace[k] \in CornersBelow(c)
                                <=> <<Corner(k, c)[1], Corner(k, c)[2]>> \in slab[2]
<1>1. c[1] \in Nat /\ c[2] \in Nat /\ c = <<c[1], c[2]>>
  BY CellParts
<1>2. \A k \in 0..3 : k = 0 \/ k = 1 \/ k = 2 \/ k = 3
  OBVIOUS
<1>3. \A k \in 0..3 : Corner(k, c)[3] = 0
  BY <1>1, <1>2, CornerPlaces
<1>4. \A k \in 0..3 : /\ Corner(BottomFace[k], c)[3] = 1
                      /\ Corner(BottomFace[k], c)[1] = Corner(k, c)[1]
                      /\ Corner(BottomFace[k], c)[2] = Corner(k, c)[2]
  BY <1>1, <1>2, CornerPlaces, FaceCorners
<1>5. \A k \in 0..3 : k \in 0..7 /\ BottomFace[k] \in 0..7
  BY <1>2, FaceCorners
<1>6. 0 + 1 = 1 /\ 1 + 1 = 2
  OBVIOUS
<1>7. \A k \in 0..3 : Below(Corner(k, c)) <=> <<Corner(k, c)[1], Corner(k, c)[2]>> \in slab[1]
  BY <1>3, <1>6 DEF Below
<1>8. \A k \in 0..3 : Below(Corner(BottomFace[k], c)) <=> <<Corner(k, c)[1], Corner(k, c)[2]>> \in slab[2]
  BY <1>4, <1>6 DEF Below
<1> QED
  BY <1>5, <1>7, <1>8 DEF FloorCorners, CornersBelow

(* The top of a layer is the bottom of the one above.                          *)
LEMMA RaisedEdge ==
    ASSUME NEW c \in Cells, slice \in Nat, slice' = slice + 1,
           NEW e \in CellEdges, NEW a, EdgeEnds(e) \subseteq DOMAIN BottomFace,
           EdgeEnds(a) = Behind(e, BottomFace)
    PROVE  LatticeEdge(e, c)' = LatticeEdge(a, c)
<1>1. c[1] \in Nat /\ c[2] \in Nat /\ c = <<c[1], c[2]>>
  BY CellParts
<1> DEFINE High(k) == [Corner(k, c) EXCEPT ![3] = @ + (slice + 1)]
<1>2. LatticeEdge(e, c)' = {High(k) : k \in EdgeEnds(e)}
  BY DEF LatticeEdge
<1>3. LatticeEdge(a, c) = {Up(k, c) : k \in {BottomFace[j] : j \in EdgeEnds(e)}}
  BY DEF LatticeEdge, Up, Behind
<1>4. ASSUME NEW k \in DOMAIN BottomFace PROVE High(k) = Up(BottomFace[k], c)
  <2>1. k = 0 \/ k = 1 \/ k = 2 \/ k = 3
    BY FaceCorners
  <2>2. \A u, v, w : Corner(k, c) = <<u, v, w>> => High(k) = <<u, v, w + (slice + 1)>>
    OBVIOUS
  <2>3. \A u, v, w : Corner(BottomFace[k], c) = <<u, v, w>> => Up(BottomFace[k], c) = <<u, v, w + slice>>
    BY DEF Up
  <2> HIDE DEF High
  <2>4. 0 + (slice + 1) = 1 + slice
    OBVIOUS
  <2>5. \E u, v : Corner(k, c) = <<u, v, 0>> /\ Corner(BottomFace[k], c) = <<u, v, 1>>
    BY <1>1, <2>1, CornerPlaces, FaceCorners
  <2> QED
    BY <2>2, <2>3, <2>4, <2>5
<1> HIDE DEF High
<1> QED
  BY <1>2, <1>3, <1>4

(* What is on the seam between two layers.                                     *)
LEMMA OnFloor ==
    /\ \A p \in FloorSides : /\ p[1] \in Cells /\ p[2] \in Sides(IndexOf(FloorCorners(p[1])))
                             /\ OnFace(p[2], BottomFace)
    /\ \A c \in Cells : \A s \in Sides(IndexOf(FloorCorners(c))) :
           OnFace(s, BottomFace) => <<c, s>> \in FloorSides
<1>1. \A c \in Cells : \A s \in Sides(IndexOf(FloorCorners(c))) : s \in CellEdges \X CellEdges
  <2> SUFFICES ASSUME NEW c \in Cells, NEW s \in Sides(IndexOf(FloorCorners(c)))
               PROVE  s \in CellEdges \X CellEdges
    OBVIOUS
  <2>1. FloorCorners(c) \in SUBSET (0..7)
    BY LowerCorners
  <2>2. s = <<s[1], s[2]>> /\ s[1] \in CellEdges /\ s[2] \in CellEdges
    BY <2>1, AnyRow
  <2> QED
    BY <2>2
<1> QED
  BY <1>1 DEF FloorSides

(* The layer begun on a floor has the sides the floor asks for.                *)
LEMMA LayersMeet ==
    ASSUME LayerInv, SeamInv
    PROVE  LayersJoin
<1> SUFFICES ASSUME LayerOver, slice > 0
             PROVE  seam = {<<s[2], s[1]>> : s \in Segments(3, slice)}
  BY DEF LayersJoin
<1>1. Floor = slab[1]
  BY DEF Floor, LayerOver
<1>2. ASSUME NEW c \in Cells, NEW s
      PROVE  (s \in Sides(cellIndex(c)) /\ OnFace(s, BottomFace))
             <=> (s \in Sides(IndexOf(FloorCorners(c))) /\ OnFace(s, BottomFace))
  <2>1. /\ CornersBelow(c) \in SUBSET (0..7) /\ FloorCorners(c) \in SUBSET (0..7)
        /\ cellIndex(c) = IndexOf(CornersBelow(c))
    BY RowSides, LowerCorners
  <2>2. \A k \in 0..3 : k \in CornersBelow(c) <=> k \in FloorCorners(c)
    BY <1>1, LowerCorners
  <2> QED
    BY <2>1, <2>2, SameFloor
<1>3. seam = {<<LatticeEdge(p[2][2], p[1]), LatticeEdge(p[2][1], p[1])>> : p \in FloorSides}
  BY DEF SeamInv
<1>4. ASSUME NEW v \in seam PROVE \E s \in Segments(3, slice) : v = <<s[2], s[1]>>
  <2>1. PICK p \in FloorSides : v = <<LatticeEdge(p[2][2], p[1]), LatticeEdge(p[2][1], p[1])>>
    BY <1>3
  <2> DEFINE w == <<LatticeEdge(p[2][1], p[1]), LatticeEdge(p[2][2], p[1])>>
  <2>2. p[1] \in Cells /\ p[2] \in Sides(cellIndex(p[1])) /\ OnFace(p[2], BottomFace)
    BY <1>2, OnFloor
  <2>3. w \in Segments(3, slice)
    BY <2>2, SegmentsAre
  <2> QED
    BY <2>1, <2>3
<1>5. ASSUME NEW s \in Segments(3, slice) PROVE <<s[2], s[1]>> \in seam
  <2>1. PICK c \in Cells : \E r \in Sides(cellIndex(c)) :
            OnFace(r, BottomFace) /\ s = <<LatticeEdge(r[1], c), LatticeEdge(r[2], c)>>
    BY SegmentsAre
  <2>2. PICK r \in Sides(cellIndex(c)) :
            OnFace(r, BottomFace) /\ s = <<LatticeEdge(r[1], c), LatticeEdge(r[2], c)>>
    BY <2>1
  <2>3. <<c, r>> \in FloorSides
    BY <1>2, <2>2, OnFloor
  <2>4. <<LatticeEdge(<<c, r>>[2][2], <<c, r>>[1]), LatticeEdge(<<c, r>>[2][1], <<c, r>>[1])>> \in seam
    BY <1>3, <2>3
  <2> QED
    BY <2>2, <2>4
<1> QED
  BY <1>4, <1>5

(* A layer done leaves on the seam what its top asks of the next.              *)
LEMMA DoneSeam ==
    ASSUME LayerInv, LayerDone
    PROVE  SeamInv'
<1>1. /\ LayerOver /\ cell' = Idle /\ slab' = slab /\ slice' = slice + 1
      /\ seam' = Segments(3, slice + 1)
  BY DEF LayerDone
<1>2. slice \in Nat
  BY DEF LayerInv, MeshInv, MeshTyped
<1>3. Floor' = slab[2]
  BY <1>1 DEF Floor
<1>4. ASSUME NEW c \in Cells
      PROVE  /\ FloorCorners(c)' \in SUBSET (0..7)
             /\ \A k \in DOMAIN BottomFace : k \in FloorCorners(c)' <=> BottomFace[k] \in CornersBelow(c)
             /\ \A k \in DOMAIN TopFace : k \in CornersBelow(c) <=> TopFace[k] \in FloorCorners(c)'
  <2>1. FloorCorners(c)' = {k \in 0..3 : <<Corner(k, c)[1], Corner(k, c)[2]>> \in slab[2]}
    BY <1>3 DEF FloorCorners
  <2>2. \A k \in 0..3 : k \in 0..7
    OBVIOUS
  <2>3. DOMAIN BottomFace = 0..3
    BY DEF BottomFace
  <2>4. \A k \in DOMAIN BottomFace : k \in FloorCorners(c)' <=> BottomFace[k] \in CornersBelow(c)
    BY <2>1, <2>3, LowerCorners
  <2> QED
    BY <2>1, <2>2, <2>4, ThereAndBack
<1> DEFINE Low(c) == FloorCorners(c)'
<1> HIDE DEF Low
<1>5. FloorSides' = {p \in Cells \X (CellEdges \X CellEdges) :
                        p[2] \in Sides(IndexOf(Low(p[1]))) /\ OnFace(p[2], BottomFace)}
  BY DEF FloorSides, Low
<1>6. ASSUME NEW c \in Cells
      PROVE  /\ Low(c) \in SUBSET (0..7) /\ CornersBelow(c) \in SUBSET (0..7)
             /\ cellIndex(c) = IndexOf(CornersBelow(c))
             /\ \A k \in DOMAIN BottomFace : k \in Low(c) <=> BottomFace[k] \in CornersBelow(c)
             /\ \A k \in DOMAIN TopFace : k \in CornersBelow(c) <=> TopFace[k] \in Low(c)
  BY <1>4, RowSides DEF Low
<1>7. TopFace \in Faces /\ BottomFace \in Faces
  BY DEF Faces
<1> DEFINE High(e, c) == LatticeEdge(e, c)'
<1>8. \A c \in Cells, e \in CellEdges : \A a :
          EdgeEnds(e) \subseteq DOMAIN BottomFace /\ EdgeEnds(a) = Behind(e, BottomFace)
              => High(e, c) = LatticeEdge(a, c)
  BY <1>1, <1>2, RaisedEdge
<1> HIDE DEF High
<1>9. ASSUME NEW v \in seam'
      PROVE  \E p \in FloorSides' : v = <<High(p[2][2], p[1]), High(p[2][1], p[1])>>
  <2>1. PICK c \in Cells : \E s \in Sides(cellIndex(c)) :
            OnFace(s, TopFace) /\ v = <<LatticeEdge(s[1], c), LatticeEdge(s[2], c)>>
    BY <1>1, SegmentsAre
  <2>2. PICK s \in Sides(cellIndex(c)) :
            OnFace(s, TopFace) /\ v = <<LatticeEdge(s[1], c), LatticeEdge(s[2], c)>>
    BY <2>1
  <2>3. PICK o \in Sides(IndexOf(Low(c))) :
            EdgeEnds(o[1]) = Behind(s[2], TopFace) /\ EdgeEnds(o[2]) = Behind(s[1], TopFace)
    BY <1>6, <1>7, <2>2, AnyRow
  <2>4. o = <<o[1], o[2]>> /\ o[1] \in CellEdges /\ o[2] \in CellEdges
    BY <1>6, AnyRow
  <2>5. \A k \in {s[1], s[2]} : EdgeEnds(k) \subseteq DOMAIN TopFace
    BY <2>2 DEF OnFace
  <2>6. /\ EdgeEnds(o[1]) \subseteq DOMAIN BottomFace /\ EdgeEnds(o[2]) \subseteq DOMAIN BottomFace
        /\ EdgeEnds(s[2]) = Behind(o[1], BottomFace) /\ EdgeEnds(s[1]) = Behind(o[2], BottomFace)
    BY <2>3, <2>5, ThereAndBack DEF Behind
  <2>7. High(o[1], c) = LatticeEdge(s[2], c) /\ High(o[2], c) = LatticeEdge(s[1], c)
    BY <1>8, <2>4, <2>6
  <2>8. <<c, o>> \in FloorSides'
    BY <1>5, <2>3, <2>4, <2>6 DEF OnFace
  <2> QED
    BY <2>2, <2>7, <2>8
<1>10. ASSUME NEW p \in FloorSides'
       PROVE  <<High(p[2][2], p[1]), High(p[2][1], p[1])>> \in seam'
  <2> DEFINE c == p[1]
             o == p[2]
  <2>1. c \in Cells /\ o \in Sides(IndexOf(Low(c))) /\ OnFace(o, BottomFace)
    BY <1>5
  <2> HIDE DEF c, o
  <2>2. PICK s \in Sides(cellIndex(c)) :
            EdgeEnds(s[1]) = Behind(o[2], BottomFace) /\ EdgeEnds(s[2]) = Behind(o[1], BottomFace)
    BY <1>6, <1>7, <2>1, AnyRow
  <2>3. o[1] \in CellEdges /\ o[2] \in CellEdges
    BY <1>6, <2>1, AnyRow
  <2>4. EdgeEnds(o[1]) \subseteq DOMAIN BottomFace /\ EdgeEnds(o[2]) \subseteq DOMAIN BottomFace
    BY <2>1 DEF OnFace
  <2>5. High(o[1], c) = LatticeEdge(s[2], c) /\ High(o[2], c) = LatticeEdge(s[1], c)
    BY <1>8, <2>1, <2>2, <2>3, <2>4
  <2>6. OnFace(s, TopFace)
    BY <2>2, <2>3, <2>4, ThereAndBack DEF OnFace
  <2>7. <<LatticeEdge(s[1], c), LatticeEdge(s[2], c)>> \in Segments(3, slice + 1)
    BY <1>1, <2>1, <2>6, SegmentsAre
  <2> QED
    BY <1>1, <2>5, <2>7 DEF c, o
<1>11. seam' = {<<High(p[2][2], p[1]), High(p[2][1], p[1])>> : p \in FloorSides'}
  BY <1>9, <1>10
<1> QED
  BY <1>11 DEF SeamInv, High

(* A layer under way keeps its floor.                                          *)
LEMMA SeamStays ==
    ASSUME SeamInv, Floor' = Floor, slice' = slice, seam' = seam
    PROVE  SeamInv'
<1>1. \A c : FloorCorners(c)' = FloorCorners(c)
  BY DEF FloorCorners
<1>2. FloorSides' = FloorSides
  BY <1>1 DEF FloorSides
<1>3. \A e, c : LatticeEdge(e, c)' = LatticeEdge(e, c)
  BY DEF LatticeEdge
<1> QED
  BY <1>2, <1>3 DEF SeamInv

(* The rows and the edges of the cells stay while the slabs do.                *)
LEMMA CellsStay ==
    ASSUME slab' = slab, slice' = slice
    PROVE  /\ \A c : Row(c)' = Row(c)
           /\ \A e, c : LatticeEdge(e, c)' = LatticeEdge(e, c)
<1>1. \A p : Below(p)' <=> Below(p)
  BY DEF Below
<1>2. \A c : cellIndex(c)' = cellIndex(c)
  BY <1>1 DEF cellIndex
<1>3. \A e, c : LatticeEdge(e, c)' = LatticeEdge(e, c)
  BY DEF LatticeEdge
<1> QED
  BY <1>2, <1>3 DEF Row

(* A step of the layers keeps the surface whole.                               *)
LEMMA SurfaceKept ==
    ASSUME SurfaceInv, MeshInv', [MeshNext]_meshVars
    PROVE  SurfaceInv'
<1>1. ASSUME NEW top \in SlabsAt(slice), MarchBegin(top) PROVE TrisInv' /\ SeamInv'
  <2>1. /\ cell = Idle /\ cell' = <<0, 0>> /\ slab' = <<slab[2], top>>
        /\ iso' = [verts |-> <<>>, tris |-> <<>>] /\ slice' = slice /\ seam' = seam
    BY <1>1 DEF MarchBegin
  <2>2. Floor' = Floor
    BY <2>1, FirstCell DEF Floor
  <2>3. SeamInv'
    BY <2>1, <2>2, SeamStays DEF SurfaceInv
  <2>4. \A d \in Cells : ~Earlier(d, <<0, 0>>)
    <3> SUFFICES ASSUME NEW d \in Cells PROVE ~Earlier(d, <<0, 0>>)
      OBVIOUS
    <3>1. d[1] \in Nat /\ d[2] \in Nat
      BY CellParts
    <3> QED
      BY <3>1 DEF Earlier
  <2>5. iso'.tris = <<>> /\ Len(iso'.tris) = 0 /\ 1..0 = {}
    BY <2>1
  <2>6. Owns(cell, iso.verts, iso.tris, <<>>)'
    BY <2>1, <2>4, <2>5 DEF Owns
  <2> QED
    BY <2>3, <2>6 DEF TrisInv
<1>2. CASE MarchCell
  <2>1. cell \in Cells /\ cell # Idle
    BY <1>2 DEF SurfaceInv, LayerInv, MeshInv, MeshTyped, MarchCell, LayerOver
  <2>2. Marching
    BY <2>1 DEF SurfaceInv, LayerInv, MeshInv, Marching
  <2>3. /\ iso' = [verts |-> NewVerts, tris |-> NewTris] /\ cell' = NextCell(cell)
        /\ slab' = slab /\ slice' = slice /\ seam' = seam
    BY <1>2 DEF MarchCell, NumbersHere, NewVerts, NewTris, MadeHere, CrossedHere
  <2>4. PICK own : Owns(cell, iso.verts, iso.tris, own)
    BY <2>1 DEF SurfaceInv, LayerInv, TrisInv
  <2>5. PICK new : Owns(NextCell(cell), NewVerts, NewTris, new)
    BY <2>2, <2>4, MarchKeepsOwners
  <2>6. iso'.verts = NewVerts /\ iso'.tris = NewTris
    BY <2>3
  <2>7. /\ \A c : Row(c)' = Row(c)
        /\ \A e, c : LatticeEdge(e, c)' = LatticeEdge(e, c)
    BY <2>3, CellsStay
  <2>8. (Owns(cell, iso.verts, iso.tris, new))'
    BY <2>3, <2>5, <2>6, <2>7 DEF Owns
  <2>9. NextCell(cell) # Idle
    BY <2>1, NextIsLater, CellParts, FirstCell
  <2>10. Floor' = Floor
    BY <2>1, <2>3, <2>9 DEF Floor
  <2>11. SeamInv'
    BY <2>3, <2>10, SeamStays DEF SurfaceInv
  <2> QED
    BY <2>8, <2>11 DEF TrisInv, SurfaceInv, LayerInv
<1>3. CASE LayerDone
  <2>1. SeamInv'
    BY <1>3, DoneSeam DEF SurfaceInv
  <2>2. TrisInv'
    BY <1>3 DEF LayerDone, TrisInv
  <2> QED
    BY <2>1, <2>2 DEF SurfaceInv, LayerInv
<1>4. CASE UNCHANGED meshVars
  <2>1. slab' = slab /\ slice' = slice /\ seam' = seam /\ cell' = cell /\ iso' = iso
    BY <1>4 DEF meshVars
  <2>2. Floor' = Floor
    BY <2>1 DEF Floor
  <2>3. SeamInv'
    BY <2>1, <2>2, SeamStays DEF SurfaceInv
  <2>4. /\ \A c : Row(c)' = Row(c)
        /\ \A e, c : LatticeEdge(e, c)' = LatticeEdge(e, c)
    BY <2>1, CellsStay
  <2>5. ASSUME cell # Idle PROVE \E own : (Owns(cell, iso.verts, iso.tris, own))'
    <3>1. PICK own : Owns(cell, iso.verts, iso.tris, own)
      BY <2>5 DEF SurfaceInv, LayerInv, TrisInv
    <3>2. (Owns(cell, iso.verts, iso.tris, own))'
      BY <2>1, <2>4, <3>1 DEF Owns
    <3> QED
      BY <3>2
  <2>6. TrisInv'
    BY <2>1, <2>5 DEF TrisInv
  <2> QED
    BY <2>3, <2>6 DEF SurfaceInv, LayerInv
<1> QED
  BY <1>1, <1>2, <1>3, <1>4 DEF MeshNext, SurfaceInv, LayerInv

(* The surface is closed: of the sides of a layer's triangles, those inside it *)
(* meet in pairs, and those on its bottom are those the layer below left open, *)
(* for slabs of any size and any number of layers (triTable, MarchLayer).      *)
THEOREM SurfaceStaysClosed == MeshSpec => []SurfaceClosed
<1>1. MeshInit => SurfaceInv
  <2> SUFFICES ASSUME MeshInit PROVE SurfaceInv
    OBVIOUS
  <2>1. cell = Idle /\ slice = 0
    BY DEF MeshInit
  <2>2. TrisInv /\ SeamInv
    BY <2>1 DEF TrisInv, SeamInv
  <2> QED
    BY <2>2, MeshInvInit DEF SurfaceInv, LayerInv
<1>2. SurfaceInv /\ MeshInv' /\ [MeshNext]_meshVars => SurfaceInv'
  BY SurfaceKept
<1>3. SurfaceInv => SurfaceClosed
  BY LayerClosed, LayersMeet DEF SurfaceInv, SurfaceClosed
<1> QED
  BY <1>1, <1>2, <1>3, MeshInvariant, PTL DEF MeshSpec

=============================================================================
