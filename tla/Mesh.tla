-------------------------------- MODULE Mesh --------------------------------
(* Marching cubes one layer at a time (processors/isosurf/mcubes.c and        *)
(* MC.cpp). A layer lies between two slabs of voxels; the top slab of one     *)
(* layer is the bottom slab of the next. The cells of a layer are marched in  *)
(* row order, one step each. A cell makes the vertices its neighbours have    *)
(* not made, and hands their numbers on through piEdges, a tag for each edge  *)
(* of each cell: to its own slots, to its right and to its rear neighbour.    *)
(* cellVerts, the numbers of the current cell, is cleared once per layer: a   *)
(* cell also hands on what is left of the cells before it.                    *)
(* A slab is the set of its voxels below the isovalue. A vertex is the lattice *)
(* edge it lies on, a set of two points <<x, y, z>>; where on the edge it lies *)
(* does not matter here, nor do normals, which the code leaves empty.         *)
EXTENDS MeshTables, FiniteSets, FiniteSetsExt

CONSTANTS
    NX, NY,         \* the size of a slab
    FirstSlab,      \* the slab below the first layer
    SlabsAt(_),     \* the slabs a layer may end with: all of them at some slice
    MaxSlice,       \* bound: layers marched
    Word,           \* bound: stands for 2^32, the values of a uint32_t
    NO_EDGE, Idle

ASSUME MeshAssumption ==
    /\ NX \in Nat \ {0, 1} /\ NY \in Nat \ {0, 1}
    /\ MaxSlice \in Nat /\ Word \in Nat \ {0}
    /\ NO_EDGE \notin Nat
    /\ Idle \notin (0 .. NX - 2) \X (0 .. NY - 1)

VARIABLES
    slab,           \* slab[0] and slab[1], the slices below and above the layer
    cell,           \* the cell to be marched next, Idle between layers
    piEdges,        \* LayerTempData: the tag of each edge of each cell
    cellVerts,      \* MarchLayer's local array
    iso,            \* the layer's vertices and triangles, numbered from 0
    vertices,       \* the file of vertices
    faces,          \* the file of triangles: of each, the words written
    slice,          \* the slice being processed
    seam            \* history: the directed mesh edges on top of the layer before

meshVars == <<slab, cell, piEdges, cellVerts, iso, vertices, faces, slice, seam>>

CellEdges == 0 .. 11
Cells == (0 .. NX - 2) \X (0 .. NY - 2)
Voxels == (0 .. NX - 1) \X (0 .. NY - 1)

\* The corner c of a cell: 0 to 3 on its bottom, 4 to 7 above them.
Corner(c, at) ==
    LET step == <<<<0, 1>>, <<1, 1>>, <<1, 0>>, <<0, 0>>>>[(c % 4) + 1]
    IN  <<at[1] + step[1], at[2] + step[2], c \div 4>>

Below(p) == <<p[1], p[2]>> \in slab[p[3] + 1]

\* The row of the tables for a set of corners, a bit for each.
IndexOf(corners) == MapThenSumSet(LAMBDA c : 2 ^ c, corners)

cellIndex(at) == IndexOf({c \in 0 .. 7 : Below(Corner(c, at))})

\* The two corners an edge of a cell joins.
EdgeEnds(e) == IF e < 4 THEN {e, (e + 1) % 4}
               ELSE IF e < 8 THEN {e, 4 + ((e - 3) % 4)}
               ELSE {e - 8, e - 4}

\* MakeVertex: the lattice edge of a cell's edge e, moved up to the slice.
LatticeEdge(e, at) ==
    {[Corner(c, at) EXCEPT ![3] = @ + slice] : c \in EdgeEnds(e)}

\* The edges of a cell the table wants vertices on.
Crossed(index) == {e \in CellEdges : (edgeTable[index + 1] \div 2 ^ e) % 2 = 1}

\* What the tables say of themselves: for each of the 256 sets of corners,
\* edgeTable has the edges that join a corner in the set to one that is not,
\* and the triangles of triTable have their corners on these edges.
ASSUME TablesAssumption ==
    \A corners \in SUBSET (0 .. 7) :
        LET index == IndexOf(corners) IN
        /\ Crossed(index) = {e \in CellEdges : Cardinality(EdgeEnds(e) \cap corners) = 1}
        /\ triTable[index + 1] \in Seq(Crossed(index))

\* Of the crossed edges, the ones that no cell before has tagged.
Untagged(at, crossed) == {e \in crossed : piEdges[at][e] = NO_EDGE}

\* MarchLayer's twelve tests: the numbers of the vertices made here follow those
\* the layer has, in the order of the edges; an edge that is not crossed keeps
\* what an earlier cell left.
Fewer(e, made) == Cardinality({f \in made : f < e})
Numbers(at, crossed, made) ==
    [e \in CellEdges |->
        IF e \in made THEN Len(iso.verts) + Fewer(e, made)
        ELSE IF e \in crossed THEN piEdges[at][e]
        ELSE cellVerts[e]]
Vertices(at, made) ==
    [k \in 1 .. Cardinality(made) |->
        LatticeEdge(CHOOSE e \in made : Fewer(e, made) = k - 1, at)]

\* Mutant: the rear neighbour's two upright edges change places.
RearSwapped == [e \in {2, 6, 10, 11} |->
    CASE e = 2 -> 0 [] e = 6 -> 4 [] e = 11 -> 9 [] e = 10 -> 8]

\* The slots of a neighbour and the edges of this cell they are the same as.
RightSlots == [e \in {3, 7, 8, 11} |->
    CASE e = 3 -> 1 [] e = 7 -> 5 [] e = 8 -> 9 [] e = 11 -> 10]
RearSlots == [e \in {2, 6, 10, 11} |->
    CASE e = 2 -> 0 [] e = 6 -> 4 [] e = 11 -> 8 [] e = 10 -> 9]

\* Mutant: the tags of the layer before are still there.
KeptTags(layer) == IF layer = 0 THEN [c \in Cells |-> [e \in CellEdges |-> NO_EDGE]]
                   ELSE piEdges

\* MarchLayer's three blocks of stores: a cell's own slots where it holds a
\* number, and the shared slots of the neighbours whatever it holds.
Tagged(at, numbers) ==
    LET right == <<at[1] + 1, at[2]>>
        rear  == <<at[1], at[2] + 1>>
    IN  [c \in Cells |-> [e \in CellEdges |->
            IF c = at /\ numbers[e] # NO_EDGE THEN numbers[e]
            ELSE IF c = right /\ e \in DOMAIN RightSlots THEN numbers[RightSlots[e]]
            ELSE IF c = rear /\ e \in DOMAIN RearSlots THEN numbers[RearSlots[e]]
            ELSE piEdges[c][e]]]

\* The triangles of a cell, as numbers of vertices.
Triangles(index, numbers) ==
    LET row == triTable[index + 1]
    IN  [t \in 1 .. Len(row) \div 3 |->
            [k \in 1 .. 3 |-> numbers[row[(3 * (t - 1)) + k]]]]

Cleared(layer) == [c \in Cells |-> [e \in CellEdges |-> NO_EDGE]]
NextCell(at) == IF at[1] < NX - 2 THEN <<at[1] + 1, at[2]>> ELSE <<0, at[2] + 1>>
LayerOver == cell # Idle /\ cell[2] = NY - 1

-----------------------------------------------------------------------------

MeshInit ==
    /\ slab = <<FirstSlab, FirstSlab>>
    /\ cell = Idle
    /\ piEdges = Cleared(0)
    /\ cellVerts = [e \in CellEdges |-> NO_EDGE]
    /\ iso = [verts |-> <<>>, tris |-> <<>>]
    /\ vertices = <<>>
    /\ faces = <<>>
    /\ slice = 0
    /\ seam = {}

\* march is given the last slab and a new one: a layer starts from nothing.
MarchBegin(top) ==
    /\ cell = Idle
    /\ slice < MaxSlice
    /\ slab' = <<slab[2], top>>
    /\ cell' = <<0, 0>>
    /\ piEdges' = Cleared(slice)
    /\ cellVerts' = [e \in CellEdges |-> NO_EDGE]
    /\ iso' = [verts |-> <<>>, tris |-> <<>>]
    /\ UNCHANGED <<vertices, faces, slice, seam>>

MarchCell ==
    /\ cell # Idle /\ ~LayerOver
    /\ LET index   == cellIndex(cell)
           crossed == Crossed(index)
           made    == Untagged(cell, crossed)
           numbers == Numbers(cell, crossed, made)
       IN  /\ cellVerts' = numbers
           /\ piEdges' = Tagged(cell, numbers)
           /\ iso' = [verts |-> iso.verts \o Vertices(cell, made),
                      tris |-> iso.tris \o Triangles(index, numbers)]
    /\ cell' = NextCell(cell)
    /\ UNCHANGED <<slab, vertices, faces, slice, seam>>

\* Mutant: the vertices of the layers before are not counted.
LayerNumbers(tri) == [k \in 1 .. 3 |-> tri[k] + 1]

\* A triangle's numbers in the file, counted from one over all layers ...
FaceNumbers(tri) == [k \in 1 .. 3 |-> Len(vertices) + tri[k] + 1]
\* ... and what is written of them: three numbers of eight bytes, of which
\* fwrite is told to take three times four.
FaceWords(tri) ==
    LET n == FaceNumbers(tri) IN <<n[1] % Word, n[1] \div Word, n[2] % Word>>

\* The directed edges of the layer's triangles, with the triangle and the side.
MeshEdges ==
    {[from |-> iso.verts[iso.tris[t][k] + 1], to |-> iso.verts[iso.tris[t][(k % 3) + 1] + 1],
      side |-> <<t, k>>] : t \in DOMAIN iso.tris, k \in 1 .. 3}

InPlane(d, axis, n) == \A p \in d.from \cup d.to : p[axis] = n
Segments(axis, n) == {<<d.from, d.to>> : d \in {e \in MeshEdges : InPlane(e, axis, n)}}

LayerDone ==
    /\ LayerOver
    /\ cell' = Idle
    /\ vertices' = vertices \o iso.verts
    /\ faces' = faces \o [t \in DOMAIN iso.tris |-> FaceWords(iso.tris[t])]
    /\ slice' = slice + 1
    /\ seam' = Segments(3, slice + 1)
    /\ UNCHANGED <<slab, piEdges, cellVerts, iso>>

MeshNext ==
    \/ \E top \in SlabsAt(slice) : MarchBegin(top)
    \/ MarchCell
    \/ LayerDone

MeshSpec == MeshInit /\ [][MeshNext]_meshVars

-----------------------------------------------------------------------------

Crossing(v) == Cardinality({p \in v : <<p[1], p[2]>> \in slab[p[3] - slice + 1]}) = 1

\* A tag on an edge that the surface crosses names the vertex of that very
\* edge, whichever cells handed it on and whatever cellVerts still held; and no
\* edge has two vertices (MC.cpp's piEdges and cellVerts).
TagsRight ==
    cell # Idle =>
        /\ \A c \in Cells, e \in CellEdges :
               (piEdges[c][e] # NO_EDGE /\ Crossing(LatticeEdge(e, c)))
               => /\ piEdges[c][e] < Len(iso.verts)
                  /\ iso.verts[piEdges[c][e] + 1] = LatticeEdge(e, c)
        /\ \A m, n \in DOMAIN iso.verts :
               Crossing(iso.verts[m]) /\ (iso.verts[m] = iso.verts[n] => m = n)

\* The sides of the triangles in a row of triTable, by triangle and side: each a
\* pair of the cell's edges.
Places(index) == (1 .. Len(triTable[index + 1]) \div 3) \X (1 .. 3)
Side(index, p) ==
    LET row == triTable[index + 1]
        before == 3 * (p[1] - 1)
    IN  <<row[before + p[2]], row[before + (p[2] % 3) + 1]>>
Sides(index) == {Side(index, p) : p \in Places(index)}

\* The faces of a cell, each with what its corners are in the cell behind it.
RightFace == [c \in {1, 2, 5, 6} |-> CASE c = 1 -> 0 [] c = 2 -> 3 [] c = 5 -> 4 [] c = 6 -> 7]
LeftFace == [c \in {0, 3, 4, 7} |-> CASE c = 0 -> 1 [] c = 3 -> 2 [] c = 4 -> 5 [] c = 7 -> 6]
RearFace == [c \in {0, 1, 4, 5} |-> CASE c = 0 -> 3 [] c = 1 -> 2 [] c = 4 -> 7 [] c = 5 -> 6]
FrontFace == [c \in {2, 3, 6, 7} |-> CASE c = 3 -> 0 [] c = 2 -> 1 [] c = 7 -> 4 [] c = 6 -> 5]
TopFace == [c \in 4 .. 7 |-> c - 4]
BottomFace == [c \in 0 .. 3 |-> c + 4]
Faces == {RightFace, LeftFace, RearFace, FrontFace, TopFace, BottomFace}

OnFace(s, face) == EdgeEnds(s[1]) \cup EdgeEnds(s[2]) \subseteq DOMAIN face
Behind(e, face) == {face[c] : c \in EdgeEnds(e)}

\* And of the triangles: no two have the same side; a side is met by one that
\* runs the other way, in the cell unless it lies on a face, and there in the
\* cell behind the face, whatever its other corners.
ASSUME TrianglesAssumption ==
    \A corners \in SUBSET (0 .. 7) :
        LET index == IndexOf(corners) IN
        /\ \A p, q \in Places(index) : Side(index, p) = Side(index, q) => p = q
        /\ \A s \in Sides(index) :
              /\ s[1] # s[2]
              /\ <<s[2], s[1]>> \in Sides(index) <=> \A face \in Faces : ~OnFace(s, face)
              /\ \A face \in Faces : OnFace(s, face) =>
                    \A others \in SUBSET (0 .. 7) :
                        (\A c \in DOMAIN face : c \in corners <=> face[c] \in others) =>
                            \E o \in Sides(IndexOf(others)) :
                                /\ EdgeEnds(o[1]) = Behind(s[2], face)
                                /\ EdgeEnds(o[2]) = Behind(s[1], face)

OnRim(d) ==
    \/ \E n \in {0, NX - 1} : InPlane(d, 1, n)
    \/ \E n \in {0, NY - 1} : InPlane(d, 2, n)
    \/ \E n \in {slice, slice + 1} : InPlane(d, 3, n)

\* The surface of a layer has no holes and is oriented: a side of a triangle
\* that is not on the rim of the layer is the side of exactly one other
\* triangle, which runs along it the other way (triTable, MarchLayer).
NoHoles ==
    LayerOver =>
        LET edges == MeshEdges
        IN  \A d \in edges :
               OnRim(d) \/ Cardinality({o \in edges : o.from = d.to /\ o.to = d.from}) = 1

\* Two layers meet: the sides the surface has on top of a layer are those the
\* next layer has at its bottom, the other way round (isosurf.c's flipped
\* buffers, MC.cpp's layers).
LayersJoin ==
    (LayerOver /\ slice > 0) => seam = {<<s[2], s[1]>> : s \in Segments(3, slice)}

\* The surface as a whole, cell by cell and layer upon layer, has no hole.
SurfaceClosed == NoHoles /\ LayersJoin

\* The first number of a triangle in the file of faces is, counted from one,
\* the place in the file of vertices of the triangle's first vertex, although
\* each layer numbers its vertices from zero (marchlayer's nvertices).
FirstNumberRight ==
    (cell = Idle /\ slice > 0) =>
        \A t \in DOMAIN iso.tris :
            vertices[faces[Len(faces) - Len(iso.tris) + t][1]] = iso.verts[iso.tris[t][1] + 1]

\* What marchlayer says it writes: three numbers for each triangle, counted
\* from one. The words it takes are those of half the triangle.
FacesNumbered ==
    \A f \in DOMAIN faces : \A k \in 1 .. 3 : faces[f][k] \in 1 .. Len(vertices)

=============================================================================
