------------------------------ MODULE Geometry ------------------------------
(***************************************************************************)
(* The Gauss-Lobatto points (glops) of a macro-element, where the elements *)
(* of a mesh are, and which points the two elements of an interface share  *)
(* (interpolation.c, geometry.c, InitInterfaces of simulation.c).          *)
(*                                                                         *)
(* Glops: how the points of the raf[1] * raf[2] * raf[3] subcells, deg[d]  *)
(* + 1 points in direction d, are numbered, where they are, and how a      *)
(* point of a face finds its volume index on either side.  Directions are  *)
(* 1..3 (0..2 in the code), local faces keep the code's numbers 0..5.      *)
(* Lengths are integers: the edge of the reference element is Unit, a      *)
(* subcell of a direction cut in 1, 2, 3 or 6 is a whole number, and the   *)
(* Lobatto abscissae are rounded to a thousandth, symmetrically.  Only     *)
(* the order of the points and the sign and order of the two small shifts  *)
(* (along the face, then across it) matter.                                *)
(*                                                                         *)
(* Elements are unit cubes, placed in any of the 24 ways, so that the      *)
(* mapping of geometry.c from the reference element is a rotation and its  *)
(* inverse is exact.  A mesh mm has the fields node, elem2node, period,    *)
(* deg and raf.                                                            *)
(***************************************************************************)
EXTENDS Integers, FiniteSets, SequencesExt

Dim   == 1..3
Faces == 0..5
Unit  == 6000

\* A triple, computed once (a function constructor would be, at each use).
Vec(F(_))     == << F(1), F(2), F(3) >>
Prod3(v)      == v[1] * v[2] * v[3]
Nodes1d(deg)  == Vec(LAMBDA d : deg[d] + 1)
Subcell(raf)  == Vec(LAMBDA d : Unit \div raf[d])

\* Abscissae (in thousandths of a subcell) and weights (in 180ths) of the
\* one-dimensional rules of degree 0 to 4.
gauss_lob_point ==
  << <<500>>, <<0, 1000>>, <<0, 500, 1000>>, <<0, 276, 724, 1000>>,
     <<0, 173, 500, 827, 1000>> >>
gauss_lob_weight ==
  << <<180>>, <<90, 90>>, <<30, 120, 30>>, <<15, 75, 75, 15>>,
     <<9, 49, 64, 49, 9>> >>
Abscissa(deg, i) == gauss_lob_point[deg + 1][i + 1]
wglop(deg, i)    == gauss_lob_weight[deg + 1][i + 1]

X_dlag(deg, q, p) ==
  << << <<0>> >>, << <<-1,1>>, <<-1,1>> >>,
     << <<-3,4,-1>>, <<-1,0,1>>, <<1,-4,3>> >> >>[deg + 1][q + 1][p + 1]
\* Derivative of the basis function q at the point p, in one direction.
dlag(deg, q, p) ==
  << << <<0>> >>, << <<-1,-1>>, <<1,1>> >>,
     << <<-3,-1,1>>, <<4,0,-4>>, <<-1,1,3>> >> >>[deg + 1][q + 1][p + 1]

\* The two directions along a face, the one across it, and which end it is.
axis_permut(ifa) ==
  << <<1, 3, 2, 0>>, <<2, 3, 1, 1>>, <<3, 1, 2, 1>>,
     <<3, 2, 1, 0>>, <<1, 2, 3, 1>>, <<2, 1, 3, 0>> >>[ifa + 1]

NPG(deg, raf) == Prod3(Nodes1d(deg)) * Prod3(raf)
NPGF(deg, raf, ifa) ==
  LET a == axis_permut(ifa)
  IN  (deg[a[1]] + 1) * (deg[a[2]] + 1) * raf[a[1]] * raf[a[2]]

\* Numbers with three digits, the first the fastest.
Flatten3(n, i) == i[1] + n[1] * (i[2] + n[2] * i[3])
Digits3(n, k)  == << k % n[1], (k \div n[1]) % n[2], k \div (n[1] * n[2]) >>

xyz_to_ipg(raf, deg, ic, ix) ==
  Flatten3(Nodes1d(deg), ix) + Prod3(Nodes1d(deg)) * Flatten3(raf, ic)

ipg_to_xyz(raf, deg, ipg) ==
  LET n == Nodes1d(deg)
  IN  [ix |-> Digits3(n, ipg % Prod3(n)), ic |-> Digits3(raf, ipg \div Prod3(n))]

\* The position of point i of subcell c in one direction.
Glop(deg, h, c, i) == h * c + (h * Abscissa(deg, i)) \div 1000

\* A volume point: where it is, its weight, and a point slightly inside its
\* own subcell.  With degree 0 the two shifts cancel.
ref_pg_vol(deg, raf, ipg) ==
  LET h == Subcell(raf)
      p == ipg_to_xyz(raf, deg, ipg)
      x == Vec(LAMBDA d : Glop(deg[d], h[d], p.ic[d], p.ix[d]))
      low(d)  == IF p.ix[d] = 0 THEN 1 ELSE 0
      high(d) == IF p.ix[d] = deg[d] THEN 1 ELSE 0
  IN  [x   |-> x,
       wpg |-> Prod3(Vec(LAMBDA d : wglop(deg[d], p.ix[d]))),
       in  |-> Vec(LAMBDA d : x[d] + low(d) - high(d))]

\* The shift along the face, a thousandth of the subcell, towards its inside;
\* the second test overrides the first when the degree is 0.
X_NoShift(deg, h, i) == 0
TangentShift(deg, h, i) ==
  IF i = deg THEN - (h \div 1000) ELSE IF i = 0 THEN h \div 1000 ELSE 0

\* A face point: its volume index, where it is, and a point slightly inside the
\* subcell on the other side of the face.
ref_pg_face(deg, raf, ifa, ipg) ==
  LET a == axis_permut(ifa)
      h == Subcell(raf)
      f == Digits3(<< deg[a[1]] + 1, deg[a[2]] + 1 >>, ipg)
      c == << f[3] % raf[a[1]], f[3] \div raf[a[1]] >>
      along(d) == IF d = a[1] THEN 1 ELSE 2
      ix == Vec(LAMBDA d : IF d = a[3] THEN a[4] * deg[d] ELSE f[along(d)])
      ic == Vec(LAMBDA d : IF d = a[3] THEN a[4] * (raf[d] - 1) ELSE c[along(d)])
      x  == Vec(LAMBDA d : IF d = a[3] THEN a[4] * Unit
                           ELSE Glop(deg[d], h[d], ic[d], ix[d]))
  IN  [ipg |-> xyz_to_ipg(raf, deg, ic, ix), x |-> x,
       in |-> Vec(LAMBDA d : IF d = a[3] THEN x[d] + 2 * a[4] - 1
                             ELSE x[d] + TangentShift(deg[d], h[d], ix[d]))]

\* The glop nearest to a reference point.  A point outside the element is moved
\* to the nearest subcell in the first two directions only; -1 stands for the
\* failed assertion that follows.
ref_ipg(deg, raf, xref) ==
  LET h   == Subcell(raf)
      ic0 == Vec(LAMBDA d : (xref[d] * raf[d]) \div Unit)
      In(c, d) == 0 <= c /\ c < raf[d]
      ic  == Vec(LAMBDA d : IF In(ic0[d], d) \/ d = 3 THEN ic0[d]
                            ELSE IF ic0[d] < 0 THEN 0 ELSE raf[d] - 1)
      ix  == Vec(LAMBDA d : (2 * (xref[d] - ic[d] * h[d]) * deg[d] + h[d]) \div (2 * h[d]))
  IN  IF \A d \in Dim : In(ic[d], d) THEN xyz_to_ipg(raf, deg, ic, ix) ELSE -1

-----------------------------------------------------------------------------
(* The elements of a mesh.                                                 *)

\* The elements of a set in an order that is total on them.
Sorted(S, Before(_, _)) ==
  LET rank == [x \in S |-> Cardinality({y \in S : Before(y, x)}) + 1]
  IN  [i \in 1 .. Cardinality(S) |-> CHOOSE x \in S : rank[x] = i]

Elems(mm) == 0 .. Len(mm.elem2node) - 1
Half1 == Unit \div 2

\* Reference position, in half edges, of the twenty nodes of an element.
h20_ref_node ==
  << <<0,0,0>>, <<2,0,0>>, <<2,2,0>>, <<0,2,0>>, <<0,0,2>>, <<2,0,2>>,
     <<2,2,2>>, <<0,2,2>>, <<1,0,0>>, <<0,1,0>>, <<0,0,1>>, <<2,1,0>>,
     <<2,0,1>>, <<1,2,0>>, <<2,2,1>>, <<0,2,1>>, <<1,0,2>>, <<0,1,2>>,
     <<2,1,2>>, <<1,2,2>> >>
h20_refnormal(ifa) ==
  << <<0,-1,0>>, <<1,0,0>>, <<0,1,0>>, <<-1,0,0>>, <<0,0,1>>, <<0,0,-1>> >>[ifa + 1]
FaceCenter(ifa) ==
  Vec(LAMBDA d : Half1 * (1 + h20_refnormal(ifa)[d]))

Plus(x, y)  == Vec(LAMBDA d : x[d] + y[d])
Minus(x, y) == Vec(LAMBDA d : x[d] - y[d])
dot_product(x, y) == x[1] * y[1] + x[2] * y[2] + x[3] * y[3]
Dist2(x, y) == dot_product(Minus(x, y), Minus(x, y))
Cross(x, y) == << x[2] * y[3] - x[3] * y[2], x[3] * y[1] - x[1] * y[3],
                  x[1] * y[2] - x[2] * y[1] >>
(***************************************************************************)
(* Geometry: the frame of an element is its first node and the directions  *)
(* of its three reference axes.                                            *)
(***************************************************************************)
PhysNode(mm, ie, loc) == mm.node[mm.elem2node[ie + 1][loc]]
Frame(mm, ie) ==
  LET o == PhysNode(mm, ie, 1)
      Axis(loc) == Vec(LAMBDA d : (PhysNode(mm, ie, loc)[d] - o[d]) \div Unit)
  IN  [o |-> o, e |-> << Axis(2), Axis(4), Axis(5) >>]

Rotate(f, x) ==
  Vec(LAMBDA d : x[1] * f.e[1][d] + x[2] * f.e[2][d] + x[3] * f.e[3][d])
schnaps_ref2phy(f, xref) == Plus(f.o, Rotate(f, xref))
schnaps_phy2ref(f, x)    == Vec(LAMBDA d : dot_product(Minus(x, f.o), f.e[d]))
vnds(f, ifa)             == Rotate(f, h20_refnormal(ifa))
Det(f)                   == dot_product(f.e[1], Cross(f.e[2], f.e[3]))

PeriodicCorrection(x, period) ==
  Vec(LAMBDA d : IF period[d] <= 0 THEN x[d]
                 ELSE IF x[d] > period[d] THEN x[d] - period[d]
                 ELSE IF x[d] < 0 THEN x[d] + period[d] ELSE x[d])

\* The volume index, in element R, of the point slightly beyond face point k.
AcrossFace(mm, ieL, ifa, k, ieR) ==
  LET xin == schnaps_ref2phy(Frame(mm, ieL), ref_pg_face(mm.deg, mm.raf, ifa, k).in)
  IN  ref_ipg(mm.deg, mm.raf,
              schnaps_phy2ref(Frame(mm, ieR), PeriodicCorrection(xin, mm.period)))

FacePoints(mm, ifa) == 0 .. NPGF(mm.deg, mm.raf, ifa) - 1

\* One interface: where its points are in the two elements.
X_SameOrder(mm, f) ==
  [vol_indexL |-> [k \in FacePoints(mm, f.lfL) |-> ref_pg_face(mm.deg, mm.raf, f.lfL, k).ipg],
   npgR       |-> IF f.R >= 0 THEN NPGF(mm.deg, mm.raf, f.lfR) ELSE 0,
   vol_indexR |-> IF f.R < 0 THEN << >>
                  ELSE [k \in FacePoints(mm, f.lfL) |-> ref_pg_face(mm.deg, mm.raf, f.lfR, k).ipg]]
Interface(mm, f) ==
  [vol_indexL |-> [k \in FacePoints(mm, f.lfL) |-> ref_pg_face(mm.deg, mm.raf, f.lfL, k).ipg],
   npgR       |-> IF f.R >= 0 THEN NPGF(mm.deg, mm.raf, f.lfR) ELSE 0,
   vol_indexR |-> IF f.R < 0 THEN << >>
                  ELSE [k \in FacePoints(mm, f.lfL) |-> AcrossFace(mm, f.L, f.lfL, k, f.R)]]

-----------------------------------------------------------------------------
(* Meshes of unit cubes turned in any of the 24 ways, for the instances of  *)
(* the modules that extend this one.                                        *)

Units == {<<1,0,0>>, <<-1,0,0>>, <<0,1,0>>, <<0,-1,0>>, <<0,0,1>>, <<0,0,-1>>}
Turns == {<< p[1], p[2], Cross(p[1], p[2]) >> :
            p \in {q \in Units \X Units : dot_product(q[1], q[2]) = 0}}
Id    == << <<1,0,0>>, <<0,1,0>>, <<0,0,1>> >>
Skew  == << <<0,0,-1>>, <<1,0,0>>, <<0,-1,0>> >>

Least(p, q) == \/ p[1] < q[1]
               \/ p[1] = q[1] /\ p[2] < q[2]
               \/ p[1] = q[1] /\ p[2] = q[2] /\ p[3] < q[3]

\* A mesh from the cells its elements fill, their turns and some stray nodes.
File(cells, turns, stray, period, detect, deg, raf) ==
  LET corner(i) == Vec(LAMBDA d : Unit * (cells[i][d]
                      + IF \E k \in Dim : turns[i][k][d] = -1 THEN 1 ELSE 0))
      place(i, loc) == Vec(LAMBDA d : corner(i)[d] + Half1 *
                          (  h20_ref_node[loc][1] * turns[i][1][d]
                           + h20_ref_node[loc][2] * turns[i][2][d]
                           + h20_ref_node[loc][3] * turns[i][3][d]))
      node == Sorted({place(i, loc) : i \in DOMAIN cells, loc \in 1..20} \cup stray, Least)
      index == [p \in Range(node) |-> CHOOSE k \in DOMAIN node : node[k] = p]
  IN  [node |-> node,
       elem2node |-> [i \in DOMAIN cells |-> [loc \in 1..20 |-> index[place(i, loc)]]],
       period |-> period, detect |-> detect, deg |-> deg, raf |-> raf]

No == << -1, -1, -1 >>
Row2 == << <<0,0,0>>, <<1,0,0>> >>
Row3 == << <<2,0,0>>, <<0,0,0>>, <<1,0,0>> >>
Square == << <<0,0,0>>, <<1,0,0>>, <<0,1,0>>, <<1,1,0>> >>
OneCell == << <<0,0,0>> >>
=============================================================================
