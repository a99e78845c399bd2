---------------------------- MODULE DeviceKernels ----------------------------
(***************************************************************************)
(* The work items of the OpenCL kernels (field.cl) as the codelets of the  *)
(* tasks (simulation_spu.c, interface.c) and dtfield_CL (field_cl.c) launch *)
(* them, on the buffers of one element: simulations of DGAssembly with one *)
(* unit cube, whose degree is not null in a refined direction.             *)
(*                                                                         *)
(* A kernel is a tuple of groups of work items, an item the sequence of    *)
(* its instructions.  The items of a group share a local memory and wait   *)
(* for one another at barriers; those of different groups never do.  An    *)
(* instruction that adds to a cell reads it, then writes it; what it adds  *)
(* is read from cells that nobody writes meanwhile.  A cell is a buffer    *)
(* and an index from 0; "wnloc" is the local memory of the group.          *)
(***************************************************************************)
EXTENDS DGAssembly

CONSTANT Launches      \* a tuple of launches: see Launch

VARIABLES
  launch,    \* what the host has launched, one of Launches
  kernel,    \* which of its kernels is running
  pos,       \* the instruction each item is at
  reg,       \* what an item has read and not yet written back, << >> if nothing
  global,    \* the buffers
  wnloc      \* the local memory of each group

devicevars == << launch, kernel, pos, reg, global, wnloc >>

(***************************************************************************)
(* Instructions.                                                           *)
(***************************************************************************)
BARRIER == [k |-> "barrier"]
SetZero(to) == [k |-> "zero", to |-> to]
Copy(to, from) == [k |-> "copy", to |-> to, from |-> from]
AddCell(to, coef, from) == [k |-> "addcell", to |-> to, coef |-> coef, from |-> from]
\* Component iv of coef * NUMFLUX(wL, wR), wL and wR being tuples of cells.
SetFlux(to, iv, coef, wL, wR, n, len) ==
  [k |-> "setflux", to |-> to, iv |-> iv, coef |-> coef, wL |-> wL, wR |-> wR, n |-> n, len |-> len]
AddFlux(to, iv, coef, wL, wR, n, len) ==
  [SetFlux(to, iv, coef, wL, wR, n, len) EXCEPT !.k = "addflux"]
AddBoundary(to, iv, coef, wL, f, p, t) ==
  [k |-> "addboundary", to |-> to, iv |-> iv, coef |-> coef, wL |-> wL, f |-> f, p |-> p, t |-> t]
Divide(to, by) == [k |-> "divide", to |-> to, by |-> by]
\* to := res / by - to / 2
Residual(to, res, by) == [k |-> "residual", to |-> to, from |-> res, by |-> by]
SetSource(to, iv, x, t) == [k |-> "setsource", to |-> to, iv |-> iv, x |-> x, t |-> t]

ReadsFirst == {"addcell", "addflux", "addboundary", "divide", "residual"}

\* What an instruction writes: Read gives the content of a cell, old is that of
\* the one it writes.
Result(sim, ins, Read(_), old) ==
  LET w(cells) == Tuple(sim.m, LAMBDA iv : Read(cells[iv]))
      Flux == NumFlux(sim, w(ins.wL), w(ins.wR), ins.n, ins.len)[ins.iv]
  IN  CASE ins.k = "zero"    -> 0
        [] ins.k = "copy"    -> Read(ins.from)
        [] ins.k = "addcell" -> (old + (ins.coef * Read(ins.from))) % P
        [] ins.k = "setflux" -> (ins.coef * Flux) % P
        [] ins.k = "addflux" -> (old + (ins.coef * Flux)) % P
        [] ins.k = "addboundary" ->
             (old + (ins.coef * BoundaryFlux(sim, ins.f, ins.p, ins.t, w(ins.wL), ins.p.n, 1)[ins.iv])) % P
        [] ins.k = "divide"    -> Quotient(old, ins.by)
        [] ins.k = "residual"  -> (Quotient(Read(ins.from), ins.by) - Quotient(old, 2)) % P
        [] ins.k = "setsource" -> SourceTerm(sim, ins.x, ins.t)[ins.iv]

(***************************************************************************)
(* The kernels.                                                            *)
(***************************************************************************)
Kernel(groups, items, Program(_, _)) ==
  Tuple(groups, LAMBDA g : Tuple(items, LAMBDA i : Program(g - 1, i - 1)))
\* One item after another, in groups that the runtime chooses and that nothing
\* depends on.
Items(n, Program(_)) == Kernel(1, n, LAMBDA g, i : Program(i))

Steps(n, F(_)) == Tuple(n, LAMBDA k : F(k - 1))
Each(n, F(_))  == FlattenSeq(Steps(n, F))

Point(sim, buf, ipg) == Steps(sim.m, LAMBDA iv : << buf, GenericVarindex(sim, ipg, iv) >>)
ItemsOf(sim)  == Prod3(Nodes1d(sim.deg))
GroupsOf(sim) == Prod3(sim.raf)
Axis(sim, d)  == Direction(sim, 0, d)

\* The m cells an item carries between a buffer and the local memory, from
\* where on: those of its rank, not those of its point.
Carry(sim, g, i, where, Do(_, _)) ==
  LET n == ItemsOf(sim)
  IN  Steps(sim.m, LAMBDA k : Do(where + i + (k * n), (g * n * sim.m) + i + (k * n)))

\* The cross of a point, each direction from the point itself on.
CrossOf(sim, p) ==
  LET ix == ipg_to_xyz(sim.raf, sim.deg, p).ix
  IN  Each(3, LAMBDA d : LET c == Cross1(sim.deg, sim.raf, p, d + 1)
                         IN  Steps(Len(c), LAMBDA iq : c[((ix[d + 1] + iq) % Len(c)) + 1]))

DGVolume3DKernel(sim) ==
  LET n == ItemsOf(sim)
  IN  Kernel(GroupsOf(sim), n, LAMBDA g, i :
        LET p == (n * g) + i  cross == CrossOf(sim, p)
        IN  Steps(sim.m, LAMBDA iv : SetZero(<< "wnloc", i + (iv * n) >>)) \o << BARRIER >>
            \o Each(Len(cross), LAMBDA k :
                 LET c == cross[k + 1]
                 IN  Steps(sim.m, LAMBDA iv :
                       AddFlux(Point(sim, "wnloc", c.q % n)[iv + 1], iv + 1, c.wpg,
                               Point(sim, "w", p), Point(sim, "w", p), Axis(sim, c.d), c.len))
                     \o << BARRIER >>)
            \o Steps(sim.m, LAMBDA iv :
                 AddCell(Point(sim, "res", p)[iv + 1], 1, Point(sim, "wnloc", i)[iv + 1])))

\* Without the cache the items add to the buffer at the points of their cross,
\* which are those of the other items of the subcell, and nothing stops them.
DGVolumeKernel(sim, cache) ==
  LET n == ItemsOf(sim)
      Fluxes(p, w, Target(_), after) ==
        LET cross == CrossOf(sim, p)
        IN  Each(Len(cross), LAMBDA k :
              LET c == cross[k + 1]
              IN  Steps(sim.m, LAMBDA iv :
                    AddFlux(Target(c.q)[iv + 1], iv + 1, c.wpg, w, w, Axis(sim, c.d), c.len))
                  \o after)
      Cached(g, i) ==
        LET dtwnloc == sim.m * n
            LocalTarget(q) == Steps(sim.m, LAMBDA iv : << "wnloc", dtwnloc + (sim.m * (q % n)) + iv >>)
        IN  Carry(sim, g, i, 0, LAMBDA l, c : Copy(<< "wnloc", l >>, << "w", c >>))
            \o Carry(sim, g, i, dtwnloc, LAMBDA l, c : SetZero(<< "wnloc", l >>)) \o << BARRIER >>
            \o Fluxes((n * g) + i, Point(sim, "wnloc", i), LocalTarget, << BARRIER >>) \o << BARRIER >>
            \o Carry(sim, g, i, dtwnloc, LAMBDA l, c : AddCell(<< "res", c >>, 1, << "wnloc", l >>))
      Direct(g, i) ==
        LET p == (n * g) + i
        IN  Fluxes(p, Point(sim, "w", p), LAMBDA q : Point(sim, "res", q), << >>)
  IN  Kernel(GroupsOf(sim), n, LAMBDA g, i : IF cache THEN Cached(g, i) ELSE Direct(g, i))

\* The other directions, in the kernels' order.
Dim1(d) == (d % 3) + 1
Dim2(d) == Dim1(Dim1(d))
\* A triple with component a in direction d, b and c in the next ones.
InDirections(d, a, b, c) == Vec(LAMBDA e : IF e = d THEN a ELSE IF e = Dim1(d) THEN b ELSE c)

SubfaceLink(sim, d, icL, b, c) ==
  SubcellLink(sim.deg, sim.raf, xyz_to_ipg(sim.raf, sim.deg, icL, InDirections(d, sim.deg[d], b, c)), d)[1]

\* One group for each face between two subcells in direction d.
DGFluxKernel(sim, d, cache) ==
  LET nb == sim.deg[Dim1(d)] + 1
      n  == nb * (sim.deg[Dim2(d)] + 1)
      r  == << sim.raf[d] - 1, sim.raf[Dim1(d)], sim.raf[Dim2(d)] >>
      link(g, i) == LET a == Digits3(r, g)
                    IN  SubfaceLink(sim, d, InDirections(d, a[1], a[2], a[3]), i % nb, i \div nb)
      wL(i) == Steps(sim.m, LAMBDA iv : << "wnloc", (sim.m * i) + iv >>)
      wR(i) == Steps(sim.m, LAMBDA iv : << "wnloc", (sim.m * (n + i)) + iv >>)
      Direct(g, i) ==
        LET c == link(g, i)  L == Point(sim, "w", c.L)  R == Point(sim, "w", c.R)
        IN  Each(sim.m, LAMBDA iv :
              << AddFlux(<< "res", L[iv + 1][2] >>, iv + 1, - c.wpg, L, R, Axis(sim, c.d), c.len),
                 AddFlux(<< "res", R[iv + 1][2] >>, iv + 1, c.wpg, L, R, Axis(sim, c.d), c.len) >>)
      \* The cells of its rank, on both sides of the face.
      Carried(g, i, Do(_, _)) ==
        Each(sim.m, LAMBDA k :
          LET rank == i + (k * n)  iv == rank % sim.m  c == link(g, rank \div sim.m)
          IN  << Do(rank, GenericVarindex(sim, c.L, iv)),
                 Do((n * sim.m) + rank, GenericVarindex(sim, c.R, iv)) >>)
      Cached(g, i) ==
        LET c == link(g, i)
            flux(iv, offset, coef) ==
              SetFlux(<< "wnloc", (sim.m * ((offset * n) + i)) + iv >>, iv + 1, coef, wL(i), wR(i),
                      Axis(sim, c.d), c.len)
        IN  Carried(g, i, LAMBDA l, k : Copy(<< "wnloc", l >>, << "w", k >>)) \o << BARRIER >>
            \o Each(sim.m, LAMBDA iv : << flux(iv, 2, - c.wpg), flux(iv, 3, c.wpg) >>) \o << BARRIER >>
            \o Carried(g, i, LAMBDA l, k :
                 AddCell(<< "res", k >>, 1, << "wnloc", (2 * n * sim.m) + l >>))
  IN  Kernel(r[1] * r[2] * r[3], n, LAMBDA g, i : IF cache THEN Cached(g, i) ELSE Direct(g, i))

\* The same group for the points of both sides, each adding to its own.
SidesOfSubfaces(sim, d, wait) ==
  LET nb == sim.deg[Dim1(d)] + 1  nc == sim.deg[Dim2(d)] + 1
      r  == << sim.raf[d] - 1, sim.raf[Dim1(d)], sim.raf[Dim2(d)] >>
      w(side, b, c) == Steps(sim.m, LAMBDA iv : << "wnloc", (((((side * nb) + b) * nc) + c) * sim.m) + iv >>)
  IN  Kernel(r[1] * r[2] * r[3], 2 * nb * nc, LAMBDA g, i :
        LET a  == Digits3(r, g)
            id == Digits3(<< 2, nb >>, i)   \* side, and the point on the face
            side == id[1]
            c  == SubfaceLink(sim, d, InDirections(d, a[1], a[2], a[3]), id[2], id[3])
            p  == IF side = 0 THEN c.L ELSE c.R
            n  == Vec(LAMBDA e : (1 - (2 * side)) * Axis(sim, d)[e])
            mine == w(side, id[2], id[3])
        IN  Steps(sim.m, LAMBDA iv : Copy(mine[iv + 1], Point(sim, "w", p)[iv + 1])) \o wait
            \o Steps(sim.m, LAMBDA iv :
                 AddFlux(Point(sim, "res", p)[iv + 1], iv + 1, - c.wpg,
                         mine, w(1 - side, id[2], id[3]), n, c.len)))

\* Mutated form: the items do not wait for the states of the other side.
X_DGFlux3DKernel(sim, d) == SidesOfSubfaces(sim, d, << >>)
DGFlux3DKernel(sim, d) == SidesOfSubfaces(sim, d, << BARRIER >>)

DGMassKernel(sim) ==
  Items(Npg(sim), LAMBDA ipg :
    Steps(sim.m, LAMBDA iv : Divide(Point(sim, "res", ipg)[iv + 1], sim.wpg[ipg + 1])))
DGMassResKernel(sim) ==
  Items(Npg(sim), LAMBDA ipg :
    Steps(sim.m, LAMBDA iv :
      Residual(Point(sim, "dtw", ipg)[iv + 1], Point(sim, "res", ipg)[iv + 1], sim.wpg[ipg + 1])))

\* The source at the point of the first subcell with the item's number, without
\* its weight.
DGSourceKernel(sim, t) ==
  LET dtwnloc == sim.m * ItemsOf(sim)
  IN  Kernel(GroupsOf(sim), ItemsOf(sim), LAMBDA g, i :
        Carry(sim, g, i, 0, LAMBDA l, c : Copy(<< "wnloc", l >>, << "w", c >>))
        \o Carry(sim, g, i, dtwnloc, LAMBDA l, c : Copy(<< "wnloc", l >>, << "res", c >>)) \o << BARRIER >>
        \o Steps(sim.m, LAMBDA iv :
             SetSource(<< "wnloc", dtwnloc + (sim.m * i) + iv >>, iv + 1, sim.x[1][i + 1], t)) \o << BARRIER >>
        \o Carry(sim, g, i, dtwnloc, LAMBDA l, c : AddCell(<< "res", c >>, 1, << "wnloc", l >>)))

\* From the states of the element on both sides, and from traces of them.
DGMacroCellInterfaceKernel(sim, f) ==
  Items(Len(f.pts), LAMBDA k :
    LET p == f.pts[k + 1]  L == Point(sim, "w", p.L)  R == Point(sim, "w", p.R)
    IN  Each(sim.m, LAMBDA iv :
          << AddFlux(<< "res", L[iv + 1][2] >>, iv + 1, - p.wpg, L, R, p.n, 1),
             AddFlux(<< "res", R[iv + 1][2] >>, iv + 1, p.wpg, L, R, p.n, 1) >>))
DGBoundaryKernel(sim, f, t) ==
  Items(Len(f.pts), LAMBDA k :
    LET p == f.pts[k + 1]  L == Point(sim, "w", p.L)
    IN  Steps(sim.m, LAMBDA iv : AddBoundary(<< "res", L[iv + 1][2] >>, iv + 1, - p.wpg, L, f, p, t)))
DGMacroCellInterfaceResKernel(sim, f, side) ==
  Items(Len(f.pts), LAMBDA k :
    LET p == f.pts[k + 1]
        n == Vec(LAMBDA d : (1 - (2 * side)) * p.n[d])
    IN  Steps(sim.m, LAMBDA iv :
          AddFlux(Point(sim, "res", IF side = 0 THEN p.L ELSE p.R)[iv + 1], iv + 1, - p.wpg,
                  Point(sim, "wn_in", k), Point(sim, "wn_ext", k), n, 1)))
DGBoundaryResKernel(sim, f, t) ==
  Items(Len(f.pts), LAMBDA k :
    LET p == f.pts[k + 1]
    IN  Steps(sim.m, LAMBDA iv :
          AddBoundary(Point(sim, "res", p.L)[iv + 1], iv + 1, - p.wpg, Point(sim, "wn_in", k), f, p, t)))
ExtractInterfaceKernel(sim, f, side) ==
  Items(Len(f.pts), LAMBDA k :
    LET p == f.pts[k + 1]
    IN  Steps(sim.m, LAMBDA iv :
          Copy(Point(sim, "wf", k)[iv + 1], Point(sim, "w", IF side = 0 THEN p.L ELSE p.R)[iv + 1])))

set_buffer_to_zero(n) == Items(n, LAMBDA k : << SetZero(<< "w", k >>) >>)
AddBufferKernel(n, alpha) == Items(n, LAMBDA k : << AddCell(<< "res", k >>, alpha, << "w", k >>) >>)

(***************************************************************************)
(* The launches, with the buffers the serial functions leave.              *)
(***************************************************************************)
Launch(sim, kernels, buffers, result) ==
  [sim |-> sim, kernels |-> kernels, buffers |-> buffers, result |-> result]
OnField(sim, w, res, kernels, after) ==
  Launch(sim, kernels, [w |-> w, res |-> res], [w |-> w, res |-> after])
OnFace(sim, wn, wext, res, fluxes, after) ==
  LET b == [wn_in |-> FlattenSeq(wn), wn_ext |-> FlattenSeq(wext), res |-> res]
  IN  Launch(sim, << fluxes >>, b, [b EXCEPT !.res = after])

ZeroBuffer_OCL(sim, w) ==
  Launch(sim, << set_buffer_to_zero(Len(w)) >>, [w |-> w], [w |-> Zeros(Len(w))])
AddBuffer_OCL(sim, alpha, w, res) ==
  OnField(sim, w, res, << AddBufferKernel(Len(w), alpha) >>, Added(res, Scaled(alpha, w)))

\* A kernel for each direction with several subcells, one after the other.
RefinedDirections(sim) == SelectSeq(<< 1, 2, 3 >>, LAMBDA d : sim.raf[d] > 1)
InDirectionsOf(sim, F(_)) ==
  LET dims == RefinedDirections(sim) IN Tuple(Len(dims), LAMBDA k : F(dims[k]))
DGSubCellInterface_OCL(sim, w, res, cache) ==
  OnField(sim, w, res, InDirectionsOf(sim, LAMBDA d : DGFluxKernel(sim, d, cache)),
          DGSubCellInterface(sim, res, 0, w))
DGSubCellInterface3D_OCL(sim, w, res) ==
  OnField(sim, w, res, InDirectionsOf(sim, LAMBDA d : DGFlux3DKernel(sim, d)),
          DGSubCellInterface(sim, res, 0, w))

DGVolume_OCL(sim, w, res, cache) ==
  OnField(sim, w, res, << DGVolumeKernel(sim, cache) >>, DGVolume(sim, res, 0, w))
DGVolume3D_OCL(sim, w, res) ==
  OnField(sim, w, res, << DGVolume3DKernel(sim) >>, DGVolume(sim, res, 0, w))

DGMass_OCL(sim, res, dtw) ==
  LET b == [res |-> res, dtw |-> dtw]
  IN  Launch(sim, << DGMassResKernel(sim) >>, b,
             [b EXCEPT !.dtw = Subtracted(DGMass(sim, res, 0), Scaled(Quotient(1, 2), dtw))])

\* From the traces of the two sides, or of the left one.
DGMacroCellInterface_OCL(sim, f, side, wn, wext, res) ==
  OnFace(sim, wn, wext, res, DGMacroCellInterfaceResKernel(sim, f, side),
         InterfaceExplicitFlux_bis(sim, res, f, side, wn, wext, 0))
DGMacroCellBoundaryFlux_OCL(sim, f, wn, res, t) ==
  OnFace(sim, wn, wn, res, DGBoundaryResKernel(sim, f, t),
         InterfaceExplicitFlux_bis(sim, res, f, 0, wn, wn, t))
ExtractInterface_OCL(sim, f, side, w, wf) ==
  Launch(sim, << ExtractInterfaceKernel(sim, f, side) >>, [w |-> w, wf |-> wf],
         [w |-> w, wf |-> FlattenSeq(ExtractInterface(sim, f, side, w))])

\* dtfield_CL: the faces, and the source after the division by the mass.
DGMacroCellInterface_CL(sim, f, w, dtw) ==
  OnField(sim, w, dtw, << DGMacroCellInterfaceKernel(sim, f) >>, DGMacroCellInterface(sim, dtw, f, w, 0))
DGBoundary_CL(sim, f, w, dtw, t) ==
  OnField(sim, w, dtw, << DGBoundaryKernel(sim, f, t) >>, DGMacroCellInterface(sim, dtw, f, w, t))
DGMassThenSource_CL(sim, w, dtw, t) ==
  OnField(sim, w, dtw, << DGMassKernel(sim), DGSourceKernel(sim, t) >>,
          DGMass(sim, DGSource(sim, dtw, 0, t), 0))

(***************************************************************************)
(* The work items.                                                         *)
(***************************************************************************)
Nothing == -1      \* no number modulo P
Garbage == P - 1   \* what a local memory may hold at first

Program(g, i) == launch.kernels[kernel][g][i]
Groups       == DOMAIN launch.kernels[kernel]
ItemsIn(g)   == DOMAIN launch.kernels[kernel][g]
Ended(g, i)  == pos[g][i] > Len(Program(g, i))
Current(g, i) == Program(g, i)[pos[g][i]]
AtBarrier(g, i) == ~Ended(g, i) /\ Current(g, i) = BARRIER
AllEnded     == \A g \in Groups : \A i \in ItemsIn(g) : Ended(g, i)
Finished     == AllEnded /\ kernel = Len(launch.kernels)

\* The items at the start of kernel k of a launch.
AtStart(l, k, value) ==
  LET groups == l.kernels[k]
  IN  Tuple(Len(groups), LAMBDA g : Tuple(Len(groups[g]), LAMBDA i : value))
LocalMemory(l, k) ==
  LET sim == l.sim
  IN  Tuple(Len(l.kernels[k]), LAMBDA g : Tuple(4 * sim.m * ItemsOf(sim), LAMBDA c : Garbage))

StartOf(l) ==
  /\ launch = l /\ kernel = 1
  /\ pos = AtStart(l, 1, 1) /\ reg = AtStart(l, 1, Nothing)
  /\ global = l.buffers /\ wnloc = LocalMemory(l, 1)
DeviceInit == LET all == Launches IN \E t \in DOMAIN all : StartOf(all[t])

Content(g, cell) == IF cell[1] = "wnloc" THEN wnloc[g][cell[2] + 1] ELSE global[cell[1]][cell[2] + 1]
Write(g, cell, x) ==
  IF cell[1] = "wnloc" THEN wnloc' = [wnloc EXCEPT ![g][cell[2] + 1] = x] /\ UNCHANGED global
                       ELSE global' = [global EXCEPT ![cell[1]][cell[2] + 1] = x] /\ UNCHANGED wnloc
Advance(g, i) == pos' = [pos EXCEPT ![g][i] = @ + 1]

\* The item carries out its instruction on what the cell holds, or held.
Complete(g, i, old) ==
  /\ Write(g, Current(g, i).to,
           Result(launch.sim, Current(g, i), LAMBDA cell : Content(g, cell), old))
  /\ Advance(g, i)
  /\ UNCHANGED << launch, kernel >>

Load(g, i) ==
  /\ ~Ended(g, i) /\ Current(g, i).k \in ReadsFirst /\ reg[g][i] = Nothing
  /\ reg' = [reg EXCEPT ![g][i] = Content(g, Current(g, i).to)]
  /\ UNCHANGED << launch, kernel, pos, global, wnloc >>
WriteBack(g, i) ==
  /\ reg[g][i] # Nothing
  /\ Complete(g, i, reg[g][i])
  /\ reg' = [reg EXCEPT ![g][i] = Nothing]
Assign(g, i) ==
  /\ ~Ended(g, i) /\ Current(g, i).k \notin ReadsFirst \cup {"barrier"}
  /\ Complete(g, i, Nothing)
  /\ UNCHANGED reg

\* All the items of a group have come to it.
Barrier(g) ==
  /\ \A i \in ItemsIn(g) : AtBarrier(g, i)
  /\ pos' = [pos EXCEPT ![g] = Tuple(Len(@), LAMBDA i : pos[g][i] + 1)]
  /\ UNCHANGED << launch, kernel, reg, global, wnloc >>

\* The next kernel waits for the event of this one.
NextKernel ==
  /\ AllEnded /\ ~Finished
  /\ kernel' = kernel + 1
  /\ pos' = AtStart(launch, kernel + 1, 1) /\ reg' = AtStart(launch, kernel + 1, Nothing)
  /\ wnloc' = LocalMemory(launch, kernel + 1)
  /\ UNCHANGED << launch, global >>

ItemStep  == \E g \in Groups : \E i \in ItemsIn(g) : Load(g, i) \/ WriteBack(g, i) \/ Assign(g, i)
GroupStep == \E g \in Groups : Barrier(g)
AtRest    == Finished /\ UNCHANGED devicevars
DeviceNext == ItemStep \/ GroupStep \/ NextKernel \/ AtRest
DeviceSpec == DeviceInit /\ [][DeviceNext]_devicevars
-----------------------------------------------------------------------------
\* In whatever order the work items of a device run between their barriers, the
\* buffers are in the end those of the serial function, as the tests of the
\* codelets compare them (test/testcodelet_*_spu.c).  It holds of every kernel
\* but two: DGVolume without its local copy, which loses additions, and DGSource
\* in an element of several subcells, which takes all points from the first.
CodeletsAgree == Finished => global = launch.result
=============================================================================
