----------------------------- MODULE MacroMesh -----------------------------
(***************************************************************************)
(* The mesh of macro-elements, from the nodes and elements read in a file  *)
(* to the interfaces between elements (macromesh.c, InitInterfaces of      *)
(* simulation.c): detection of 2D and 1D meshes, faces, neighbours,        *)
(* periodic directions, the checks CheckMacroMesh makes, and for each      *)
(* point of each interface its volume index on either side.                *)
(*                                                                         *)
(* A failed assertion stops the program: pc becomes "abort".               *)
(***************************************************************************)
EXTENDS Geometry

CONSTANT MeshFiles
\* Each is a mesh as read, with the degrees and refinement of the simulation:
\*   node      sequence of positions,  elem2node  element -> 20 node indices
\*   period    per direction, -1 if not periodic
\*   detect    "3D", "2D" or "1D": which detection the program asks for
\*   deg, raf  the interpolation

VARIABLES
  pc,     \* the next function to run
  m,      \* the MacroMesh structure
  face,   \* the sorted list of faces build_face returns
  inter   \* the interfaces initialised so far

vars == << pc, m, face, inter >>

Far == 5 * Unit    \* where nodes that belong to no element are sent
None == -1

NearestNode(mm, x) ==
  LET d2 == [i \in DOMAIN mm.node |-> Dist2(x, mm.node[i])]
      nearest == {i \in DOMAIN mm.node : \A j \in DOMAIN mm.node : d2[i] <= d2[j]}
  IN  CHOOSE i \in nearest : \A j \in nearest : i <= j

IsInElem(mm, ie, x) ==
  \A d \in Dim : schnaps_phy2ref(Frame(mm, ie), x)[d] \in 0 .. Unit

\* The first element, among those of the nearest node, that contains the point.
NumElemFromPoint(mm, x) ==
  LET inside == SelectSeq(mm.node2elem[NearestNode(mm, x)],
                          LAMBDA ie : IsInElem(mm, ie, x))
  IN  IF inside = << >> THEN None ELSE inside[1]
(***************************************************************************)
(* Reading, and the two detections, which must precede the connectivity.   *)
(***************************************************************************)
ReadMacroMesh(f) ==
  [node |-> f.node, elem2node |-> f.elem2node, period |-> f.period,
   deg |-> f.deg, raf |-> f.raf, detect |-> f.detect,
   is2d |-> FALSE, is1d |-> FALSE, is_build |-> FALSE, connec_ok |-> FALSE,
   xmin |-> << 0, 0, 0 >>, xmax |-> << 0, 0, 0 >>,
   elem2elem |-> << >>, face2elem |-> << >>, node2elem |-> << >>,
   boundaryface |-> << >>, macrointerface |-> << >>]

Init ==
  /\ \E f \in MeshFiles : m = ReadMacroMesh(f)
  /\ pc = "Detect" /\ face = << >> /\ inter = << >>

\* The middle of an element in a direction is half an edge from the origin.
AtHalf(mm, ie, d) ==
  FoldLeft(+, 0, [loc \in 1..20 |-> PhysNode(mm, ie, loc)[d]]) = 20 * Half1

\* One cyclic turn of the reference axes: x' = z, y' = x, z' = y.
newnum == << 1, 5, 6, 2, 4, 8, 7, 3, 11, 9, 10, 17, 18, 13, 19, 12, 16, 14, 20, 15 >>

X_RotateOnce(mm, ie) ==
  LET nodes == mm.elem2node[ie + 1]
  IN  IF vnds(Frame(mm, ie), 4)[3] # 0 THEN nodes
      ELSE [loc \in 1..20 |-> nodes[newnum[loc]]]
\* At most two turns bring the third reference axis along z.
RotateTwice(mm, ie) ==
  LET vertical(nodes) ==
        vnds(Frame([mm EXCEPT !.elem2node[ie + 1] = nodes], ie), 4)[3] # 0
      turn(nodes)     == [loc \in 1..20 |-> nodes[newnum[loc]]]
      once(nodes)     == IF vertical(nodes) THEN nodes ELSE turn(nodes)
  IN  once(once(mm.elem2node[ie + 1]))

Detect2DMacroMesh ==
  /\ pc = "Detect" /\ m.detect = "2D"
  /\ IF \A ie \in Elems(m) : AtHalf(m, ie, 3)
     THEN m' = [m EXCEPT !.is2d = TRUE,
                         !.elem2node = [k \in DOMAIN @ |-> RotateTwice(m, k - 1)]]
     ELSE UNCHANGED m
  /\ pc' = "macromesh_bounds" /\ UNCHANGED << face, inter >>

Detect1DMacroMesh ==
  /\ pc = "Detect" /\ m.detect = "1D"
  /\ IF \A ie \in Elems(m) : AtHalf(m, ie, 2) /\ AtHalf(m, ie, 3)
     THEN /\ m' = [m EXCEPT !.is1d = TRUE]
          /\ pc' = IF \A ie \in Elems(m) : vnds(Frame(m, ie), 1) = << 1, 0, 0 >>
                   THEN "macromesh_bounds" ELSE "abort"
     ELSE UNCHANGED m /\ pc' = "macromesh_bounds"
  /\ UNCHANGED << face, inter >>

NoDetection ==
  /\ pc = "Detect" /\ m.detect = "3D"
  /\ pc' = "macromesh_bounds" /\ UNCHANGED << m, face, inter >>
(***************************************************************************)
(* BuildConnectivity, one action per pass.                                 *)
(***************************************************************************)
\* The bounding box.  The test for the lower z bound compares with xmin.
Lowest(xs)  == FoldLeft(LAMBDA a, x : IF x < a THEN x ELSE a, xs[1], xs)
Highest(xs) == FoldLeft(LAMBDA a, x : IF x > a THEN x ELSE a, xs[1], xs)
LowestZ(node) ==
  LET step(acc, p) ==
        LET xmin == IF p[1] < acc[1] THEN p[1] ELSE acc[1]
        IN  << xmin, IF p[3] < xmin THEN p[3] ELSE acc[2] >>
  IN  FoldLeft(step, << node[1][1], node[1][3] >>, node)[2]

macromesh_bounds ==
  /\ pc = "macromesh_bounds"
  /\ LET coord(d) == [i \in DOMAIN m.node |-> m.node[i][d]]
     IN  m' = [m EXCEPT
                !.xmin = << Lowest(coord(1)), Lowest(coord(2)), LowestZ(m.node) >>,
                !.xmax = Vec(LAMBDA d : Highest(coord(d)))]
  /\ pc' = "build_face" /\ UNCHANGED << face, inter >>

face2locnode(ifa) ==
  << <<1,2,6,5>>, <<2,3,7,6>>, <<3,4,8,7>>,
     <<1,5,8,4>>, <<6,7,8,5>>, <<1,4,3,2>> >>[ifa + 1]

\* The order of qsort: lexicographic on the sorted corners.  The order of the
\* two faces with the same corners is not used.
CompareFace4Sort(f, g) ==
  \/ \E k \in 1..4 : /\ f.node[k] < g.node[k]
                     /\ \A j \in 1 .. k - 1 : f.node[j] = g.node[j]
  \/ f.node = g.node /\ f.left < g.left

build_face ==
  /\ pc = "build_face"
  /\ LET corners(ie, ifa) ==
           SortSeq([k \in 1..4 |-> m.elem2node[ie + 1][face2locnode(ifa)[k]]],
                   LAMBDA a, b : a < b)
         all == {[node |-> corners(ie, ifa), left |-> ie, locfaceleft |-> ifa] :
                   ie \in Elems(m), ifa \in Faces}
     IN  face' = Sorted(all, CompareFace4Sort)
  /\ pc' = "build_elem2elem" /\ UNCHANGED << m, inter >>

build_boundarylist(f2e) ==
  SelectSeq([i \in DOMAIN f2e |-> i], LAMBDA i : f2e[i].R = None)
build_interfacelist(f2e) ==
  SelectSeq([i \in DOMAIN f2e |-> i], LAMBDA i : f2e[i].R # None)
WithFaces(mm, f2e) ==
  [mm EXCEPT !.face2elem = f2e, !.boundaryface = build_boundarylist(f2e),
             !.macrointerface = build_interfacelist(f2e)]

\* Two successive equal faces make two neighbours, and are consumed together.
SecondOfPair(s) ==
  LET second[i \in 1 .. Len(s)] ==
        i > 1 /\ s[i].node = s[i - 1].node /\ ~ second[i - 1]
  IN  second

LocalFaceTo(e2e, ie, ie2) ==
  LET S == {ifa \in Faces : e2e[ie][ifa] = ie2}
  IN  IF S = {} THEN None ELSE CHOOSE ifa \in S : \A g \in S : ifa <= g

\* Face lists: each face is kept by the element with the larger index.
FaceList(mm, e2e) ==
  LET all  == [k \in 1 .. 6 * Len(mm.elem2node) |->
                 << (k - 1) \div 6, (k - 1) % 6 >>]
      kept == SelectSeq(all, LAMBDA p : e2e[p[1]][p[2]] < p[1])
  IN  [i \in DOMAIN kept |->
         LET ie == kept[i][1]  ie2 == e2e[ie][kept[i][2]]
         IN  [L |-> ie, lfL |-> kept[i][2], R |-> ie2,
              lfR |-> IF ie2 >= 0 THEN LocalFaceTo(e2e, ie2, ie) ELSE None]]

build_elem2elem ==
  /\ pc = "build_elem2elem"
  /\ LET second  == SecondOfPair(face)
         pairs   == {i \in DOMAIN face : second[i]}
         of(i, ie, ifa) == face[i].left = ie /\ face[i].locfaceleft = ifa
         e2e == [ie \in Elems(m) |-> [ifa \in Faces |->
                   IF \E i \in pairs : of(i, ie, ifa)
                   THEN face[(CHOOSE i \in pairs : of(i, ie, ifa)) - 1].left
                   ELSE IF \E i \in pairs : of(i - 1, ie, ifa)
                   THEN face[CHOOSE i \in pairs : of(i - 1, ie, ifa)].left
                   ELSE None]]
         f2e == FaceList(m, e2e)
     IN  /\ m' = [WithFaces(m, f2e) EXCEPT !.elem2elem = e2e]
         /\ pc' = IF /\ Len(f2e) = Len(face) - Cardinality(pairs)
                     /\ \A i \in DOMAIN f2e : f2e[i].R >= 0 => f2e[i].lfR # None
                  THEN "build_node2elem" ELSE "abort"
  /\ face' = << >> /\ UNCHANGED inter

\* The elements of each node; a node of no element is sent far away.
build_node2elem ==
  /\ pc = "build_node2elem"
  /\ LET n2e == [i \in DOMAIN m.node |->
                   SelectSeq([k \in DOMAIN m.elem2node |-> k - 1],
                             LAMBDA ie : \E k \in 1..20 : m.elem2node[ie + 1][k] = i)]
     IN  m' = [m EXCEPT !.node2elem = n2e,
                        !.node = [i \in DOMAIN @ |->
                                    IF n2e[i] = << >> THEN [@[i] EXCEPT ![1] = Far]
                                    ELSE @[i]]]
  /\ pc' = "suppress_faces" /\ UNCHANGED << face, inter >>

suppress_zfaces(f2e) == SelectSeq(f2e, LAMBDA f : f.lfL < 4)
suppress_yfaces(f2e) == SelectSeq(f2e, LAMBDA f : f.lfL % 2 # 0)
suppress_double_faces(f2e) == SelectSeq(f2e, LAMBDA f : f.L # None)

suppress_faces ==
  /\ pc = "suppress_faces"
  /\ LET z == IF m.is2d \/ m.is1d THEN suppress_zfaces(m.face2elem) ELSE m.face2elem
         y == IF m.is1d THEN suppress_yfaces(z) ELSE z
     IN  m' = WithFaces(m, y)
  /\ pc' = "periodic" /\ UNCHANGED << face, inter >>
(***************************************************************************)
(* Periodic directions: a face on the boundary, across such a direction,   *)
(* gets the element found one period further as its neighbour.             *)
(***************************************************************************)
NeighbourAcross(mm, ie, ifa) ==
  LET f   == Frame(mm, ie)
      x   == schnaps_ref2phy(f, ref_pg_face(<<0,0,0>>, <<1,1,1>>, ifa, 0).in)
      dim == CHOOSE d \in Dim : vnds(f, ifa)[d] # 0
      at(v) == NumElemFromPoint(mm, [x EXCEPT ![dim] = v])
  IN  IF mm.elem2elem[ie][ifa] # None \/ mm.period[dim] <= 0
      THEN [ok |-> TRUE, elem |-> mm.elem2elem[ie][ifa]]
      ELSE IF x[dim] > mm.xmax[dim]
      THEN [ok |-> TRUE, elem |-> at(x[dim] - mm.period[dim])]
      ELSE IF x[dim] < mm.xmin[dim]
      THEN [ok |-> TRUE, elem |-> at(x[dim] + mm.period[dim])]
      ELSE [ok |-> FALSE, elem |-> None]

PeriodicNeighbours ==
  /\ pc = "periodic"
  /\ LET new == [ie \in Elems(m) |-> [ifa \in Faces |-> NeighbourAcross(m, ie, ifa)]]
     IN  /\ m' = [m EXCEPT !.elem2elem =
                    [ie \in Elems(m) |-> [ifa \in Faces |-> new[ie][ifa].elem]]]
         /\ pc' = IF \A ie \in Elems(m), ifa \in Faces : new[ie][ifa].ok
                  THEN "update_face2elem" ELSE "abort"
  /\ UNCHANGED << face, inter >>

opp(ifa) == << 2, 3, 0, 1, 5, 4 >>[ifa + 1]

\* Of the two faces a periodic direction joins, one is kept, the other dropped.
Updated(mm, f) ==
  LET R2 == mm.elem2elem[f.L][f.lfL]
  IN  IF R2 = f.R THEN f
      ELSE IF f.lfL \in {0, 1, 4} THEN [f EXCEPT !.R = R2, !.lfR = opp(f.lfL)]
      ELSE [f EXCEPT !.L = None]

UpdateFace2Elem ==
  /\ pc = "update_face2elem"
  /\ LET f2e == [i \in DOMAIN m.face2elem |-> Updated(m, m.face2elem[i])]
     IN  m' = [WithFaces(m, suppress_double_faces(f2e))
                 EXCEPT !.connec_ok = TRUE, !.is_build = TRUE]
  /\ pc' = IF \A i \in DOMAIN m.face2elem :
                LET f == m.face2elem[i]
                IN  m.elem2elem[f.L][f.lfL] # f.R => f.R = None
           THEN "CheckMacroMesh" ELSE "abort"
  /\ UNCHANGED << face, inter >>
(***************************************************************************)
(* CheckMacroMesh and InitInterfaces.                                      *)
(***************************************************************************)
\* The numbering of the volume and of the faces, and the orientation.
ElementIsSound(mm, ie) ==
  LET f == Frame(mm, ie)
  IN  /\ \A ipg \in 0 .. NPG(mm.deg, mm.raf) - 1 :
           ref_ipg(mm.deg, mm.raf, ref_pg_vol(mm.deg, mm.raf, ipg).in) = ipg
      /\ Det(f) > 0
      /\ \A ifa \in Faces :
           LET out == Minus(schnaps_ref2phy(f, FaceCenter(ifa)),
                            schnaps_ref2phy(f, << Half1, Half1, Half1 >>))
           IN  dot_product(vnds(f, ifa), out) > 0
      /\ \A ifa \in Faces : \A k \in FacePoints(mm, ifa) :
           LET p == ref_pg_face(mm.deg, mm.raf, ifa, k)
           IN  \/ mm.is2d /\ ifa >= 4
               \/ ~ mm.is2d /\ mm.is1d /\ ifa \notin {1, 3}
               \/ p.x = ref_pg_vol(mm.deg, mm.raf, p.ipg).x

\* Each point of a face is found once on the faces of the neighbour that lead
\* back, with the opposite normal.
NeighbourIsSound(mm, ie, ifa) ==
  LET ieR == mm.elem2elem[ie][ifa]
      back == {g \in Faces : mm.elem2elem[ieR][g] = ie}
      onFace == UNION {{<< g, l, ref_pg_face(mm.deg, mm.raf, g, l).ipg >> :
                          l \in FacePoints(mm, g)} : g \in back}
      across == [k \in FacePoints(mm, ifa) |-> AcrossFace(mm, ie, ifa, k, ieR)]
      hits(k) == {h \in onFace : h[3] = across[k]}
  IN  ieR >= 0 /\ ieR # ie =>
        \A k \in FacePoints(mm, ifa) :
          /\ Cardinality(hits(k)) = 1
          /\ \A h \in hits(k) :
               Plus(vnds(Frame(mm, ie), ifa), vnds(Frame(mm, ieR), h[1])) = << 0, 0, 0 >>

CheckMacroMesh ==
  /\ pc = "CheckMacroMesh"
  /\ pc' = IF /\ \A ie \in Elems(m) : ElementIsSound(m, ie)
              /\ \A ie \in Elems(m), ifa \in Faces : NeighbourIsSound(m, ie, ifa)
           THEN "InitInterfaces" ELSE "abort"
  /\ UNCHANGED << m, face, inter >>

InitInterfaces ==
  /\ pc = "InitInterfaces"
  /\ IF Len(inter) < Len(m.face2elem)
     THEN LET new == Interface(m, m.face2elem[Len(inter) + 1])
          IN  /\ inter' = Append(inter, new)
              /\ pc' = IF -1 \in Range(new.vol_indexR) THEN "abort" ELSE pc
     ELSE pc' = "done" /\ UNCHANGED inter
  /\ UNCHANGED << m, face >>

Next ==
  \/ Detect2DMacroMesh \/ Detect1DMacroMesh \/ NoDetection
  \/ macromesh_bounds \/ build_face \/ build_elem2elem \/ build_node2elem
  \/ suppress_faces \/ PeriodicNeighbours \/ UpdateFace2Elem
  \/ CheckMacroMesh \/ InitInterfaces
  \/ pc = "done" /\ UNCHANGED vars

Spec == Init /\ [][Next]_vars
(***************************************************************************)
(* Properties.                                                             *)
(***************************************************************************)
\* Where the centre of a face is, up to the periods.
Place(ie, ifa) ==
  LET x == schnaps_ref2phy(Frame(m, ie), FaceCenter(ifa))
  IN  Vec(LAMBDA d : IF m.period[d] > 0 THEN x[d] % m.period[d] ELSE x[d])

\* The faces that stay in the list: all in 3D, the lateral ones in 2D, the two
\* ends in 1D.
KeptFaces == IF m.is1d THEN {1, 3} ELSE IF m.is2d THEN 0..3 ELSE Faces

\* Once the connectivity is built, face2elem holds each geometric face of the
\* mesh once, with the one or two elements it bounds and its number in each:
\* sorting the corners, dropping the second of two equal faces, suppressing the
\* faces of the missing dimensions and joining the periodic ones lose and
\* duplicate nothing.
EachFaceOnce ==
  pc = "CheckMacroMesh" =>
    LET place == [p \in Elems(m) \X KeptFaces |-> Place(p[1], p[2])]
        of(f) == {<< f.L, f.lfL >>, << f.R, f.lfR >>} \ {<< None, None >>}
    IN  \A p \in DOMAIN place :
          LET sides == {q \in DOMAIN place : place[q] = place[p]}
          IN  Cardinality({i \in DOMAIN m.face2elem : of(m.face2elem[i]) = sides}) = 1

\* After macromesh_bounds, xmin and xmax are the smallest box around the nodes, as
\* the comment above that function says.
BoundingBox ==
  pc = "build_face" =>
    \A d \in Dim :
      LET coords == {m.node[i][d] : i \in DOMAIN m.node}
      IN  /\ m.xmin[d] \in coords /\ m.xmax[d] \in coords
          /\ \A c \in coords : m.xmin[d] <= c /\ c <= m.xmax[d]

\* The assertions of the detection, of the connectivity, of CheckMacroMesh and of
\* ref_ipg never stop the program on a conforming mesh.
NoAbort == pc # "abort"

\* What the two sides of an interface hold of the same point are values of the
\* same physical point (up to the periods), on the face face2elem names, each
\* point of that face being used once, in an array of the right size: the point
\* slightly across the face finds the right subcell and the right glop whatever
\* the relative orientation of the elements.
InterfacePointsCoincide ==
  inter # << >> =>
    LET i  == Len(inter)
        f  == m.face2elem[i]
        R  == inter[i].vol_indexR
        onR == {ref_pg_face(m.deg, m.raf, f.lfR, k).ipg : k \in FacePoints(m, f.lfR)}
        at(ie, ipg) ==
          LET x == schnaps_ref2phy(Frame(m, ie), ref_pg_vol(m.deg, m.raf, ipg).x)
          IN  Vec(LAMBDA d : IF m.period[d] > 0 THEN x[d] % m.period[d] ELSE x[d])
    IN  f.R # None =>
          /\ Range(R) = onR
          /\ Cardinality(DOMAIN R) = Cardinality(onR)
          /\ inter[i].npgR = Cardinality(DOMAIN R)
          /\ \A k \in DOMAIN R : at(f.L, inter[i].vol_indexL[k]) = at(f.R, R[k])
=============================================================================
