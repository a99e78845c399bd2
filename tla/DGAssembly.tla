----------------------------- MODULE DGAssembly -----------------------------
(***************************************************************************)
(* The matrices and the right-hand sides of the implicit schemes           *)
(* (implicit.c, InterfaceExplicitFlux of interface.c), and the residual    *)
(* of the scheme without matrices, NonlinearThetaVector_assembly; and the  *)
(* time derivative of the explicit schemes.                                *)
(*                                                                         *)
(* A simulation sim is a mesh of Geometry with its faces, m unknowns per   *)
(* point and a model: constant flux matrices, a numerical flux that is     *)
(* conservative, linear in the states and homogeneous in the normal, and   *)
(* affine boundary values and sources; or the transport of one node of a   *)
(* lattice, where the walls send back the opposite node.  A normal is a    *)
(* vector of integers and a length.  The code recomputes the geometry of   *)
(* the points at each loop; it is in sim once and for all, as in           *)
(* InitInterfaces.                                                         *)
(*                                                                         *)
(* Each loop that adds to a matrix is a sequence of blocks: the points of  *)
(* its row and of its column and the m x m matrix that unit states give.   *)
(***************************************************************************)
EXTENDS LinearSolver, Geometry

Weight(deg, i) == Quotient(wglop(deg, i), 180)
Product(a, b)  == (a * b) % P

(***************************************************************************)
(* The points and how they are coupled.  They are numbered from 0 in an    *)
(* element and over the mesh; offset is the first one of an element.       *)
(***************************************************************************)
Npg(sim)        == NPG(sim.deg, sim.raf)
Offset(sim, ie) == Npg(sim) * ie
Wsize(sim)      == sim.m * Npg(sim)
GenericVarindex(sim, ipg, iv) == iv + sim.m * ipg
State(sim, w, ipg) == Tuple(sim.m, LAMBDA iv : w[sim.m * ipg + iv])
InElement(sim, w, ie) ==
  Tuple(Wsize(sim), LAMBDA k : w[ie * Wsize(sim) + k])

VolumeWeight(deg, raf, ipg) ==
  LET ix == ipg_to_xyz(raf, deg, ipg).ix
      wd(d) == Quotient(Weight(deg[d], ix[d]), raf[d])
  IN  Product(wd(1), Product(wd(2), wd(3)))

\* The points q of the cross of p in its subcell, with the gradient at p of
\* the basis function of q.
Cross1(deg, raf, p, d) ==
  LET a == ipg_to_xyz(raf, deg, p)
      Other(q) == [a.ix EXCEPT ![d] = q]
  IN  Tuple(deg[d] + 1, LAMBDA k :
        [p |-> p, q |-> xyz_to_ipg(raf, deg, a.ic, Other(k - 1)), d |-> d,
         len |-> dlag(deg[d], k - 1, a.ix[d]) * raf[d], wpg |-> VolumeWeight(deg, raf, p)])
Crosses(deg, raf) ==
  FlattenSeq(Tuple(3 * NPG(deg, raf), LAMBDA k :
                   Cross1(deg, raf, (k - 1) \div 3, 1 + ((k - 1) % 3))))

\* The pairs of points on the two sides of the faces between subcells.
Tangents(d) == << << 2, 3 >>, << 1, 3 >>, << 1, 2 >> >>[d]
SubcellLink(deg, raf, L, d) ==
  LET a == ipg_to_xyz(raf, deg, L)
      t == Tangents(d)
      wt(e) == Weight(deg[e], a.ix[e])
  IN  IF a.ix[d] # deg[d] \/ a.ic[d] = raf[d] - 1 THEN << >>
      ELSE << [L |-> L, R |-> xyz_to_ipg(raf, deg, [a.ic EXCEPT ![d] = @ + 1],
                                                   [a.ix EXCEPT ![d] = 0]),
               d |-> d, len |-> Quotient(1, raf[t[1]] * raf[t[2]]),
               wpg |-> Product(wt(t[1]), wt(t[2]))] >>
SubcellLinks(deg, raf) ==
  FlattenSeq(Tuple(3 * NPG(deg, raf), LAMBDA k :
                   SubcellLink(deg, raf, (k - 1) \div 3, 1 + ((k - 1) % 3))))

\* The points of a face, as in its Interface.
FaceWeight(mm, ifa, ipg) ==
  LET ix == ipg_to_xyz(mm.raf, mm.deg, ipg).ix
      a  == axis_permut(ifa)
      wd(d) == Quotient(Weight(mm.deg[d], ix[d]), mm.raf[d])
  IN  Product(wd(a[1]), wd(a[2]))
Inter(mm, f) ==
  LET i == Interface(mm, f)
  IN  [L |-> f.L, R |-> f.R,
       pts |-> Tuple(NPGF(mm.deg, mm.raf, f.lfL), LAMBDA k :
         [L |-> i.vol_indexL[k - 1], R |-> IF f.R < 0 THEN -1 ELSE i.vol_indexR[k - 1],
          n |-> vnds(Frame(mm, f.L), f.lfL), wpg |-> FaceWeight(mm, f.lfL, i.vol_indexL[k - 1]),
          x |-> schnaps_ref2phy(Frame(mm, f.L), ref_pg_face(mm.deg, mm.raf, f.lfL, k - 1).x)])]

Simulation(mm, faces, m, model) ==
  [deg |-> mm.deg, raf |-> mm.raf, m |-> m, model |-> model, n |-> Len(mm.elem2node),
   frame |-> Tuple(Len(mm.elem2node), LAMBDA e : Frame(mm, e - 1)),
   inter |-> Tuple(Len(faces), LAMBDA i : Inter(mm, faces[i])),
   cross |-> Crosses(mm.deg, mm.raf), link |-> SubcellLinks(mm.deg, mm.raf),
   wpg |-> Tuple(NPG(mm.deg, mm.raf), LAMBDA k : VolumeWeight(mm.deg, mm.raf, k - 1)),
   x |-> Tuple(Len(mm.elem2node), LAMBDA e : Tuple(NPG(mm.deg, mm.raf), LAMBDA k :
           schnaps_ref2phy(Frame(mm, e - 1), ref_pg_vol(mm.deg, mm.raf, k - 1).x)))]

(***************************************************************************)
(* The model.                                                              *)
(***************************************************************************)
LinearNumFlux(sim, wL, wR, n, len) ==
  LET a == sim.model
      An(i, j) == n[1] * a.flux[1][i][j] + n[2] * a.flux[2][i][j] + n[3] * a.flux[3][i][j]
  IN  Tuple(sim.m, LAMBDA i :
        Product(len, (Quotient(Sum(1, sim.m, LAMBDA j : An(i, j) * ((wL[j] + wR[j]) % P)), 2)
                      + a.upwind * (wL[i] - wR[i])) % P))
\* The one unknown of a lattice node goes with its velocity v.
LBM_OneNodeNumFlux(v, wL, wR, n, len) ==
  LET vn == v[1] * n[1] + v[2] * n[2]
  IN  << Product(len, (vn * (IF vn > 0 THEN wL[1] ELSE wR[1])) % P) >>
NumFlux(sim, wL, wR, n, len) ==
  IF sim.model.kind = "linear" THEN LinearNumFlux(sim, wL, wR, n, len)
  ELSE LBM_OneNodeNumFlux(sim.model.v, wL, wR, n, len)

Affine(c, x, t) == (c[1] + (c[2] * dot_product(<< 1, 2, 3 >>, x)) + c[3] * t) % P
ImposedData(sim, x, t) == Tuple(sim.m, LAMBDA i : Affine(sim.model.data[i], x, t))
SourceTerm(sim, x, t)  == Tuple(sim.m, LAMBDA i : Affine(sim.model.source[i], x, t))

\* What a node finds on the other side of the boundary: its equilibrium in the
\* imposed state, and on the lower wall the opposite node at that point.
LBM_ImposedNode(sim, f, p) ==
  LET open == p.x[1] \in {0, sim.model.lx} \/ p.x[2] = sim.model.ly
  IN  << IF open THEN sim.model.imposed ELSE sim.model.opposite[Offset(sim, f.L) + p.L + 1] >>
BoundaryFlux(sim, f, p, t, wL, n, len) ==
  IF sim.model.kind = "linear" THEN LinearNumFlux(sim, wL, ImposedData(sim, p.x, t), n, len)
  ELSE LBM_OneNodeNumFlux(sim.model.v, wL, LBM_ImposedNode(sim, f, p), n, len)

\* The normal to the faces between subcells, and a gradient, in space.
Direction(sim, ie, d) == sim.frame[ie + 1].e[d]

(***************************************************************************)
(* Couplings: the terms that are switched on.                              *)
(***************************************************************************)
SwitchOnBlock(lsol, sim, row, col) ==
  Loop(lsol, 0, sim.m - 1, LAMBDA s, iv1 : Loop(s, 0, sim.m - 1, LAMBDA t, iv2 :
       IsNonZero(t, GenericVarindex(sim, row, iv2), GenericVarindex(sim, col, iv1))))

\* In one element, the first point of which is number o of the matrix.
InternalLocalCoupling(lsol, sim, o) ==
  Loop(lsol, 1, Len(sim.cross), LAMBDA s, k :
       SwitchOnBlock(s, sim, o + sim.cross[k].p, o + sim.cross[k].q))
X_NoCoupling(lsol, sim, o) == lsol
FluxLocalCoupling(lsol, sim, o) ==
  Loop(lsol, 1, Len(sim.link), LAMBDA s, k :
       SwitchOnBlock(s, sim, o + sim.link[k].L, o + sim.link[k].R))

OverElements(lsol, sim, Do(_, _, _)) ==
  Loop(lsol, 0, sim.n - 1, LAMBDA s, ie : Do(s, sim, Offset(sim, ie)))
InternalCoupling(lsol, sim) == OverElements(lsol, sim, InternalLocalCoupling)
FluxCoupling(lsol, sim)     == OverElements(lsol, sim, FluxLocalCoupling)

InterfaceCoupling(lsol, sim) ==
  Loop(lsol, 1, Len(sim.inter), LAMBDA s, i :
    LET f == sim.inter[i]
        L(k) == Offset(sim, f.L) + f.pts[k].L
        R(k) == Offset(sim, f.R) + f.pts[k].R
    IN  Loop(s, 1, Len(f.pts), LAMBDA t, k :
          IF f.R < 0 THEN SwitchOnBlock(t, sim, L(k), L(k))
          ELSE SwitchOnBlock(SwitchOnBlock(SwitchOnBlock(SwitchOnBlock(t,
                 sim, L(k), L(k)), sim, R(k), L(k)), sim, L(k), R(k)), sim, R(k), R(k))))

(***************************************************************************)
(* The matrices.  Matrix(F) is the matrix of the linear map F on states.   *)
(***************************************************************************)
Matrix(sim, F(_)) ==
  LET col == Tuple(sim.m, LAMBDA j : F(UnitVector(sim.m, j)))
  IN  Tuple(sim.m, LAMBDA i : Tuple(sim.m, LAMBDA j : col[j][i]))
Zero(sim)      == Zeros(sim.m)
Times(a, mat)  == Tuple(Len(mat), LAMBDA i : Scaled(a, mat[i]))
Block(row, col, mat) == [row |-> row, col |-> col, mat |-> mat]

\* Add coef times each block, the points of the element starting at o.
AddBlocks(lsol, sim, o, coef, blocks) ==
  Loop(lsol, 1, Len(blocks), LAMBDA s, k :
    LET b == blocks[k]
    IN  Loop(s, 1, sim.m, LAMBDA t, iv1 : Loop(t, 1, sim.m, LAMBDA u, iv2 :
          AddLinearSolver(u, GenericVarindex(sim, o + b.row, iv2 - 1),
                             GenericVarindex(sim, o + b.col, iv1 - 1),
                             Product(coef, b.mat[iv2][iv1])))))

MassBlocks(sim) ==
  Tuple(Npg(sim), LAMBDA k :
    Block(k - 1, k - 1, Matrix(sim, LAMBDA w : Scaled(sim.wpg[k], w))))

InternalBlocks(sim, ie) ==
  Tuple(Len(sim.cross), LAMBDA k :
    LET c == sim.cross[k]
    IN  Block(c.q, c.p, Matrix(sim, LAMBDA w :
          Scaled(-c.wpg, NumFlux(sim, w, w, Direction(sim, ie, c.d), c.len)))))

\* What leaves the left point for the right one, as an effect of the state
\* of either.
FromLeft(sim, n, len)  == Matrix(sim, LAMBDA w : NumFlux(sim, w, Zero(sim), n, len))
FromRight(sim, n, len) == Matrix(sim, LAMBDA w : NumFlux(sim, Zero(sim), w, n, len))
FourBlocks(sim, L, R, n, len, wpg) ==
  LET l == Times(wpg, FromLeft(sim, n, len))  r == Times(wpg, FromRight(sim, n, len))
  IN  << Block(L, L, l), Block(R, L, Times(-1, l)), Block(L, R, r), Block(R, R, Times(-1, r)) >>

X_SameSign(sim, ie) ==
  FlattenSeq(Tuple(Len(sim.link), LAMBDA k :
    LET c == sim.link[k]  b == FourBlocks(sim, c.L, c.R, Direction(sim, ie, c.d), c.len, c.wpg)
    IN  << b[1], b[2], b[3], Block(c.R, c.R, b[3].mat) >>))
FluxBlocks(sim, ie) ==
  FlattenSeq(Tuple(Len(sim.link), LAMBDA k :
    LET c == sim.link[k]
    IN  FourBlocks(sim, c.L, c.R, Direction(sim, ie, c.d), c.len, c.wpg)))

\* The boundary flux is affine: its linear part is in the matrix.
BoundaryBlock(sim, f, p, t) ==
  LET flux0 == BoundaryFlux(sim, f, p, t, Zero(sim), p.n, 1)
  IN  Times(p.wpg, Matrix(sim, LAMBDA w :
              Subtracted(BoundaryFlux(sim, f, p, t, w, p.n, 1), flux0)))

InterfaceBlocks(sim, f, tL) ==
  LET Of(p) ==
        IF f.R < 0 THEN << Block(Offset(sim, f.L) + p.L, Offset(sim, f.L) + p.L,
                                 BoundaryBlock(sim, f, p, tL)) >>
        ELSE FourBlocks(sim, Offset(sim, f.L) + p.L, Offset(sim, f.R) + p.R, p.n, 1, p.wpg)
  IN  FlattenSeq(Tuple(Len(f.pts), LAMBDA k : Of(f.pts[k])))

MassAssembly(lsol, sim) ==
  Loop(lsol, 0, sim.n - 1, LAMBDA s, ie : AddBlocks(s, sim, Offset(sim, ie), 1, MassBlocks(sim)))
InternalAssembly(lsol, sim, coef) ==
  Loop(lsol, 0, sim.n - 1, LAMBDA s, ie :
       AddBlocks(s, sim, Offset(sim, ie), coef, InternalBlocks(sim, ie)))
FluxAssembly(lsol, sim, coef) ==
  Loop(lsol, 0, sim.n - 1, LAMBDA s, ie :
       AddBlocks(s, sim, Offset(sim, ie), coef, FluxBlocks(sim, ie)))
InterfaceAssembly(lsol, sim, tnow, coef) ==
  Loop(lsol, 1, Len(sim.inter), LAMBDA s, i :
       LET f == sim.inter[i]
       IN  AddBlocks(s, sim, 0, coef, InterfaceBlocks(sim, f, tnow[f.L + 1])))

(***************************************************************************)
(* The same for the matrices of one element, fd.solver and fd.rmat.        *)
(***************************************************************************)
AddLocal(fd, sim, blocks, solver, rmat) ==
  [fd EXCEPT !.solver = AddBlocks(@, sim, 0, solver, blocks),
             !.rmat   = AddBlocks(@, sim, 0, rmat, blocks)]

MassLocalAssembly(fd, sim)                == AddLocal(fd, sim, MassBlocks(sim), 1, 1)
InternalLocalAssembly(fd, sim, ie, th, r) == AddLocal(fd, sim, InternalBlocks(sim, ie), th, r)
FluxLocalAssembly(fd, sim, ie, th, r)     == AddLocal(fd, sim, FluxBlocks(sim, ie), th, r)

\* Each side keeps what it does to itself.  The normal carries the weight.
X_BothFromLeft(fd, sim, f, tL, th, r) ==
  Loop(fd, 1, Len(f.pts), LAMBDA s, k :
    LET p == f.pts[k]
        l == FromLeft(sim, p.n, p.wpg)
        AddTo(t, ie, ipg, mat) ==
          [t EXCEPT ![ie + 1] = AddLocal(@, sim, << Block(ipg, ipg, mat) >>, th, r)]
    IN  IF f.R < 0 THEN AddTo(s, f.L, p.L, BoundaryBlock(sim, f, p, tL))
        ELSE AddTo(AddTo(s, f.L, p.L, l), f.R, p.R, Times(-1, l)))
InterfaceLocalAssembly(fd, sim, f, tL, th, r) ==
  Loop(fd, 1, Len(f.pts), LAMBDA s, k :
    LET p == f.pts[k]
        AddTo(t, ie, ipg, mat) ==
          [t EXCEPT ![ie + 1] = AddLocal(@, sim, << Block(ipg, ipg, mat) >>, th, r)]
    IN  IF f.R < 0 THEN AddTo(s, f.L, p.L, BoundaryBlock(sim, f, p, tL))
        ELSE AddTo(AddTo(s, f.L, p.L, FromLeft(sim, p.n, p.wpg)),
                   f.R, p.R, Times(-1, FromRight(sim, p.n, p.wpg))))

(***************************************************************************)
(* The right-hand sides.  A contribution adds a state to a point.          *)
(***************************************************************************)
AddState(sim, v, ipg, s) ==
  Loop(v, 1, sim.m, LAMBDA u, iv : [u EXCEPT ![sim.m * ipg + iv] = (@ + s[iv]) % P])

SourceLocalAssembly(rhs, sim, ie, o, t, coef) ==
  Loop(rhs, 1, Npg(sim), LAMBDA v, k :
       AddState(sim, v, o + k - 1,
                Scaled(Product(coef, sim.wpg[k]), SourceTerm(sim, sim.x[ie + 1][k], t))))

BoundaryTerms(rhs, sim, f, tnow, coef) ==
  Loop(rhs, 1, Len(f.pts), LAMBDA v, k :
    LET p == f.pts[k]
    IN  AddState(sim, v, Offset(sim, f.L) + p.L,
          Scaled(-Product(coef, p.wpg), BoundaryFlux(sim, f, p, tnow[f.L + 1], Zero(sim), p.n, 1))))

SourceAssembly(rhs, sim, tnow, coef) ==
  LET inside == Loop(rhs, 0, sim.n - 1, LAMBDA v, ie :
                     SourceLocalAssembly(v, sim, ie, Offset(sim, ie), tnow[ie + 1], coef))
  IN  Loop(inside, 1, Len(sim.inter), LAMBDA v, i :
           IF sim.inter[i].R < 0 THEN BoundaryTerms(v, sim, sim.inter[i], tnow, coef) ELSE v)

\* The trace of the state of an element on one side of a face.
ExtractInterface(sim, f, side, wn) ==
  Tuple(Len(f.pts), LAMBDA k : State(sim, wn, IF side = 0 THEN f.pts[k].L ELSE f.pts[k].R))

\* What comes from the other side of a face, in the right-hand side of this one.
X_NoSign(rhs, sim, f, side, wext, t, dt) ==
  Loop(rhs, 1, Len(f.pts), LAMBDA v, k :
    LET p == f.pts[k]
        flux == IF f.R < 0 THEN BoundaryFlux(sim, f, p, t, Zero(sim), p.n, 1)
                ELSE NumFlux(sim, Zero(sim), State(sim, wext, IF side = 0 THEN p.R ELSE p.L), p.n, 1)
    IN  AddState(sim, v, IF side = 0 THEN p.L ELSE p.R, Scaled(-Product(dt, p.wpg), flux)))
InterfaceExplicitFlux(rhs, sim, f, side, wext, t, dt) ==
  Loop(rhs, 1, Len(f.pts), LAMBDA v, k :
    LET p == f.pts[k]
        n == IF side = 0 THEN p.n ELSE Vec(LAMBDA d : -p.n[d])
        flux == IF f.R < 0 THEN BoundaryFlux(sim, f, p, t, Zero(sim), n, 1)
                ELSE NumFlux(sim, Zero(sim), State(sim, wext, IF side = 0 THEN p.R ELSE p.L), n, 1)
    IN  AddState(sim, v, IF side = 0 THEN p.L ELSE p.R, Scaled(-Product(dt, p.wpg), flux)))

(***************************************************************************)
(* The residual without matrices: mass times the state plus coef times     *)
(* what leaves each point.                                                 *)
(***************************************************************************)
Exchange(sim, nl, L, R, s) == AddState(sim, AddState(sim, nl, L, s), R, Scaled(-1, s))

ThetaInterfaces(sim, nl, w, tnow, coef) ==
  Loop(nl, 1, Len(sim.inter), LAMBDA u, i :
    LET f == sim.inter[i]
        L(p) == Offset(sim, f.L) + p.L
        R(p) == Offset(sim, f.R) + p.R
        c(p) == Product(coef, p.wpg)
    IN  Loop(u, 1, Len(f.pts), LAMBDA v, k :
          LET p == f.pts[k]  wL == State(sim, w, L(p))
          IN  IF f.R < 0
              THEN AddState(sim, v, L(p), Scaled(c(p), BoundaryFlux(sim, f, p, tnow[f.L + 1], wL, p.n, 1)))
              ELSE Exchange(sim, v, L(p), R(p),
                            Scaled(c(p), NumFlux(sim, wL, State(sim, w, R(p)), p.n, 1)))))

ThetaSubcellFaces(sim, nl, w, ie, coef) ==
  Loop(nl, 1, Len(sim.link), LAMBDA v, k :
    LET c == sim.link[k]  L == Offset(sim, ie) + c.L  R == Offset(sim, ie) + c.R
    IN  Exchange(sim, v, L, R, Scaled(Product(coef, c.wpg),
          NumFlux(sim, State(sim, w, L), State(sim, w, R), Direction(sim, ie, c.d), c.len))))

ThetaVolume(sim, nl, w, ie, coef) ==
  Loop(nl, 1, Len(sim.cross), LAMBDA v, k :
    LET c == sim.cross[k]  wp == State(sim, w, Offset(sim, ie) + c.p)
    IN  AddState(sim, v, Offset(sim, ie) + c.q, Scaled(-Product(coef, c.wpg),
                 NumFlux(sim, wp, wp, Direction(sim, ie, c.d), c.len))))

ThetaSourceAndMass(sim, nl, w, ie, t, coef) ==
  Loop(nl, 1, Npg(sim), LAMBDA v, k :
    LET ipg == Offset(sim, ie) + k - 1
    IN  AddState(sim, v, ipg, Scaled(sim.wpg[k],
          Subtracted(State(sim, w, ipg), Scaled(coef, SourceTerm(sim, sim.x[ie + 1][k], t))))))

NonlinearThetaVector_assembly(sim, w, tnow, coef) ==
  Loop(ThetaInterfaces(sim, Zeros(Len(w)), w, tnow, coef), 0, sim.n - 1, LAMBDA v, ie :
       ThetaSourceAndMass(sim,
         ThetaVolume(sim, ThetaSubcellFaces(sim, v, w, ie, coef), w, ie, coef),
         w, ie, tnow[ie + 1], coef))
(***************************************************************************)
(* The time derivative of the fields (field.c, simulation.c): what leaves  *)
(* each point, divided by its mass.  DtFields meets each face once,        *)
(* DtFields_bis (simulation_spu.c) once from each side, through the traces *)
(* of its Interface.                                                       *)
(***************************************************************************)
\* Add s to the point L and subtract it from the point R of dtw.
FromTo(sim, dtw, L, R, s) == AddState(sim, AddState(sim, dtw, L, Scaled(-1, s)), R, s)

DGMacroCellInterface(sim, dtw, f, w, t) ==
  LET L(p) == Offset(sim, f.L) + p.L
      R(p) == Offset(sim, f.R) + p.R
  IN  Loop(dtw, 1, Len(f.pts), LAMBDA v, k :
        LET p == f.pts[k]  wL == State(sim, w, L(p))
        IN  IF f.R >= 0
            THEN FromTo(sim, v, L(p), R(p), Scaled(p.wpg, NumFlux(sim, wL, State(sim, w, R(p)), p.n, 1)))
            ELSE AddState(sim, v, L(p), Scaled(-p.wpg, BoundaryFlux(sim, f, p, t, wL, p.n, 1))))

DGSubCellInterface(sim, dtw, ie, w) ==
  Loop(dtw, 1, Len(sim.link), LAMBDA v, k :
    LET c == sim.link[k]  L == Offset(sim, ie) + c.L  R == Offset(sim, ie) + c.R
    IN  FromTo(sim, v, L, R, Scaled(c.wpg,
          NumFlux(sim, State(sim, w, L), State(sim, w, R), Direction(sim, ie, c.d), c.len))))

DGVolume(sim, dtw, ie, w) ==
  Loop(dtw, 1, Len(sim.cross), LAMBDA v, k :
    LET c == sim.cross[k]  wp == State(sim, w, Offset(sim, ie) + c.p)
    IN  AddState(sim, v, Offset(sim, ie) + c.q,
                 Scaled(c.wpg, NumFlux(sim, wp, wp, Direction(sim, ie, c.d), c.len))))

DGSource(sim, dtw, ie, t) ==
  Loop(dtw, 1, Npg(sim), LAMBDA v, k :
    AddState(sim, v, Offset(sim, ie) + k - 1, Scaled(sim.wpg[k], SourceTerm(sim, sim.x[ie + 1][k], t))))

DGMass(sim, dtw, ie) ==
  LET wpg(k) == sim.wpg[(((k - 1) \div sim.m) % Npg(sim)) + 1]
  IN  Tuple(Len(dtw), LAMBDA k :
        IF (k - 1) \div Wsize(sim) = ie THEN Quotient(dtw[k], wpg(k)) ELSE dtw[k])

\* What an element adds to the fluxes of its faces, and the mass.
InElements(sim, dtw, w, t) ==
  Loop(dtw, 0, sim.n - 1, LAMBDA v, ie :
       DGMass(sim, DGSource(sim, DGVolume(sim, DGSubCellInterface(sim, v, ie, w), ie, w), ie, t), ie))

\* The loops of DtFields and, on the buffers it is given, of DtFields_old.
DtFields(sim, w, t) ==
  InElements(sim, Loop(Zeros(Len(w)), 1, Len(sim.inter), LAMBDA v, i :
                       DGMacroCellInterface(sim, v, sim.inter[i], w, t)), w, t)

\* What one side of a face gives to the other one, wn being the traces of this
\* side and wext those of the other one.
X_KeepNormal(sim, dtw, f, side, wn, wext, t) ==
  Loop(dtw, 1, Len(f.pts), LAMBDA v, k :
    LET p == f.pts[k]
        flux == IF f.R >= 0 THEN NumFlux(sim, wn[k], wext[k], p.n, 1)
                ELSE BoundaryFlux(sim, f, p, t, wn[k], p.n, 1)
        ipg == IF side = 0 THEN Offset(sim, f.L) + p.L ELSE Offset(sim, f.R) + p.R
    IN  AddState(sim, v, ipg, Scaled(-p.wpg, flux)))
InterfaceExplicitFlux_bis(sim, dtw, f, side, wn, wext, t) ==
  Loop(dtw, 1, Len(f.pts), LAMBDA v, k :
    LET p == f.pts[k]
        n == IF side = 0 THEN p.n ELSE Vec(LAMBDA d : -p.n[d])
        flux == IF f.R >= 0 THEN NumFlux(sim, wn[k], wext[k], n, 1)
                ELSE BoundaryFlux(sim, f, p, t, wn[k], p.n, 1)
        ipg == IF side = 0 THEN Offset(sim, f.L) + p.L ELSE Offset(sim, f.R) + p.R
    IN  AddState(sim, v, ipg, Scaled(-p.wpg, flux)))

\* The traces of the faces, the right one of a boundary face being what it was.
ExtractInterfaces(sim, w, trace) ==
  Tuple(Len(sim.inter), LAMBDA i :
    LET f == sim.inter[i]
    IN  << ExtractInterface(sim, f, 0, InElement(sim, w, f.L)),
           IF f.R < 0 THEN trace[i][2] ELSE ExtractInterface(sim, f, 1, InElement(sim, w, f.R)) >>)

DtFields_bis(sim, w, t, trace) ==
  InElements(sim, Loop(Zeros(Len(w)), 1, Len(sim.inter), LAMBDA v, i :
    LET f == sim.inter[i]  wL == trace[i][1]  wR == trace[i][2]
        left == InterfaceExplicitFlux_bis(sim, v, f, 0, wL, wR, t)
    IN  IF f.R < 0 THEN left ELSE InterfaceExplicitFlux_bis(sim, left, f, 1, wR, wL, t)), w, t)
=============================================================================
