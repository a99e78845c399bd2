# SCHNAPS in TLA+

SCHNAPS ("Solveur pour les lois de Conservation Hyperboliques Non-linéaires
Appliqué aux PlasmaS") is a C library of Discontinuous Galerkin (DG) solvers.
Its elements are *macro-elements*, hexahedra cut into subcells. Three things make
it hard to test. Its parallelism is a graph of tasks (StarPU) or of events
(OpenCL) in which nothing waits between two stages, so that a mistake shows only in
some schedules. Its schemes exist several times (with a global matrix, with one per
element, without a matrix, face by face from one side or from both, over tasks, on
a device), and nothing compares them. And its mesh and its matrices are built by
index arithmetic whose errors are small numbers in large arrays.

This directory models these parts of the code, checks them on small instances with
TLC and proves what can be proved of the task runtime for every mesh with TLAPS.
Paths below are relative to the root of the repository; the C library itself is in
its `src/` directory.

## 1. Inventory

| Component | Files | State | Operations |
|---|---|---|---|
| Task submission, explicit scheme | `src/simulation_spu.c`, `src/interface.c` | the handles of the fields (`wn`, `dtwn`, `res`) and of the interfaces (`wL`, `wR`), the lazily initialised codelets | `ZeroBuffer_SPU`, `AddBuffer_SPU`, `DGSubCellInterface_SPU`, `DGVolume_SPU`, `DGSource_SPU`, `DGMass_SPU`, `DGMacroCellInterface_SPU`, `DGMacroCellBoundaryFlux_SPU`, `ExtractInterface_SPU` |
| Kernels | same files, `*_C`, `*_OCL` | the buffers | what each codelet does to its buffers |
| Explicit time scheme over tasks | `DtFields_SPU`, `RK2_SPU` | `simu->tnow`, `iter_time_rk`, `fd[ie].tnow` | the loops that submit a time step |
| Implicit theta schemes over tasks | `src/implicit.c`: `LocalThetaTimeScheme_SPU`, `GraphThetaTimeScheme_SPU` | `tnow`, the matrices of each element, `sol`/`rhs` handles | the loops that submit a time step |
| Flow graph and sweep order | `src/macromesh.c`: `BuildMacroMeshGraph` | `connect_graph`, `edge2face`, `edge_dir`, `topo_order` | arcs per face, topological sort |
| Mesh connectivity | `src/macromesh.c`: `ReadMacroMesh`, `Detect2DMacroMesh`, `BuildConnectivity`, `CheckMacroMesh`; `InitInterfaces` | `elem2elem`, `face2elem`, `node2elem`, bounds, `vol_indexL/R` | face sort and matching, suppression, periodicity, points of the interfaces |
| Skyline solver as tasks | `src/skyline_spu.c` | `vkgs`, `vkgd`, `vkgi`, `kld`, `is_lu`, `is_registered`, the static variables of `sol_spu` and `mulku_spu` | `FactoLU_SPU`, `MatVectSkyline_SPU`, `SolveSkyline_SPU`, registration |
| Linear solvers | `src/linear_solver.c`, `src/skyline.c`, `src/klu_csr.c`, `src/csparse_spu.c`, `src/advanced_linear_solver.c`, `src/solverumfpack.c` | matrix storage, `is_alloc`, `is_lu` | switch on, allocate, add, set, factorise, multiply, solve, GMRES |
| Serial schemes | `src/simulation.c`, `src/field.c` | `wn`, `dtwn`, `tnow`, `iter_time_rk`, `Diagnostics` | `DtFields`, `RK1`, `RK2`, `RK4`, the serial DG kernels |
| Serial implicit schemes | `src/implicit.c` (the rest), `src/local_implicit.c` | assembled matrices and right-hand sides | coupling, assembly, `ThetaTimeScheme`, `ThetaTimeScheme_WithJF`, `LocalThetaTimeScheme`, `GraphThetaTimeSchemeSubCell_SPU` (serial in spite of its name) |
| OpenCL scheme | `src/field_cl.c`, `src/field.cl`, `src/clutils.c` | one kernel object per operation, `clv_*` events, device buffers | `dtfield_CL`, `RK2_CL`, `RK4_CL` |
| Lattice Boltzmann | `src/lattice.c`, `src/lbm_*.c` | `LBMSimulation`, per-velocity advection simulations, `Diagnostics` | relaxation and transport in turn |
| Particle in cell | `src/pic.c` | `xv`, `cell_id`, `old_cell_id` | create, push, accumulate |
| Poisson and continuous solvers | `src/solverpoisson.c`, `src/solvercontinuous.c`, `src/quantities_vp.c` | fat nodes, maps between the two numberings | paste nodes, assembly, solve, copy back, field |
| Physical models | `src/model.c`, `src/acoustic.c`, `src/gyro.c`, `src/maxwell.c`, `src/mhd.c`, `src/waterwave2d.c`, `src/collision.c`, `src/diagnostics_vp.c`, `src/user_model.h` | none, or parameters | numerical fluxes, sources, boundary and initial data |
| Geometry and interpolation | `src/geometry.c`, `src/interpolation.c` | none | mappings, Gauss points, index functions |
| StarPU life cycle | `src/global.c`, `RegisterSimulation_SPU`, `Registerfield_SPU`, `RegisterInterface_SPU`, `RegisterSkyline_SPU` and their inverses | `starpu_is_init`, `arbiterGlobalIsInit`, the `*_registered` flags | init, register, unregister, shutdown |
| Input, output, front end | `src/io.c`, `src/schnaps.c`, `src/python_call.c`, `src/clinfo.c` | files | read, write, plot |
| Vendored code | `src/dpackfgmres.c`, `src/csparse.c` | - | - |

How they interact:

- The **host thread** is the only one that calls `*_SPU` and `*_CL` functions. With
  tasks it never waits, except in `starpu_task_wait_for_all`, and in
  `starpu_task_submit` when StarPU limits the number of unfinished tasks. What a
  kernel needs besides its buffers (a weight, a sign, the time of a field) is
  copied into `cl_arg` when the task is submitted: the host goes on and changes
  `simu->tnow` while the task waits. With OpenCL it waits for the last event of
  each time derivative, and is ahead of the device between two of them.
- **Workers** take tasks whose predecessors have finished. Two tasks are ordered
  as they were submitted when they share a handle and do not both declare it
  `STARPU_R` or both declare it `STARPU_RW|STARPU_COMMUTE`; commuting tasks
  exclude one another by the arbiter that `register_data_arbiter` gives every handle.
- The **device** executes commands in the order of the queue (`src/clinfo.c:396`
  asks for no other), each when the events it waits for are complete; some of these
  are user events that the host completes.
- **Neighbouring elements** meet only in their faces: `BuildConnectivity` finds each
  face once and says which element is on its left, `InitInterfaces` which points
  of the two elements coincide, and every scheme evaluates `NumFlux` once for the
  two, with the normal of the left one.
- The **sweep** takes its order from `topo_order`, and the side of each face from
  `edge_dir`: both sides of the convention are in two different files.
- **Matrices** are described before they exist: the `*Coupling` functions switch on
  the terms, `AllocateLinearSolver` makes room for them, the `*Assembly` functions add
  to them, often from different loops over the points. The skylines are
  factored in place, at the first solve.
- The **Lattice Boltzmann** schemes run an implicit transport for each velocity in one
  shared simulation and tell the flux which velocity it is through a global
  variable; the **plasma models** call a Poisson solver, on a different
  numbering, before each time derivative; **particles** read the DG fields and
  write the charge into them, through reference coordinates of the element they are in.
- The kernels are C functions with **static variables** in one case,
  `sol_spu`/`mulku_spu`, translated from Fortran: all workers share them.

What is hard here, hence what is to be checked:

1. *Interleaving and ordering.* The order of kernels rests on mode tables, one
   line per buffer, or on chains of events. Is it the order the scheme needs?
   Where tasks commute, does the computation?
2. *Stale state.* The host is several stages ahead of the workers. Each kernel
   must have the time, the trace and the right-hand side of its own step. The
   matrices are assembled at the first step only, the right-hand sides at each.
3. *Pipelining without barriers.* Elements advance at their own pace. How far can
   neighbours drift apart?
4. *Liveness.* Tasks that wait for each other, events nobody completes, a host that
   waits for tasks: does a scheme always return?
5. *Termination at the right time*, with the number of time steps arrays were sized for.
6. *Shared static data* of kernels that run together.
7. *Two loops that must agree*: the terms switched on and those added to, the two
   sides of an interface, the left and the right of a flux, the versions of a scheme.
8. *Conventions of orientation*: 24 ways to turn an element, periodic
   directions, meshes of one or two dimensions in 3D elements.

`PROJECT.json` lists these hazards at their lines. Smaller irregularities of the code,
which no property covers, are in section 6.

## 2. Modules

| Module | Models | Extends / instantiates |
|---|---|---|
| **Tasks** | | |
| `Codelets` | the access modes of all 16 codelets and, next to them, what their kernels do to each buffer | - |
| `StarPU` | the runtime (external): submission, dependencies, exclusion, workers; `RTSpec` is the runtime under an arbitrary host | `Codelets` |
| `SpuHost` | the submission functions: handles, packed arguments, early returns; and what hosts share: loops that submit, `while (tnow < tmax)`, `starpu_task_wait_for_all` | `StarPU` |
| `DGKernels` | what the DG kernels compute, modulo a prime | `Codelets` |
| `RK2Spu` | `RK2_SPU` and `DtFields_SPU`, and the serial `DtFields` and `RK2` they are compared with | `SpuHost`, `DGKernels`; `RKSchemes`, `ElementClock` |
| `ThetaSpu`, `LocalThetaSpu`, `GraphThetaSpu` | the two implicit schemes over tasks and what they share; `GraphThetaSpu` begins with `BuildMacroMeshGraph`: arcs, ghosts, topological orders | `SpuHost`; `ElementClock` |
| `ElementClock` | abstract specification: in which order elements may advance without a barrier, in a scheme that uses its neighbours' old state (`Ahead` 0, `Lead` 1) and in a sweep, which uses the new one (`Ahead` 1, `Lead` 3) | - |
| `SolSpu` | the solve phase of `sol_spu`, label by label, run by workers | `StarPU` |
| **Serial schemes and device** | | |
| `RKSchemes` | `RK2`, `RK4` and their stages as functions of a time derivative: the references of `RK2Spu` and `OpenCLField` | - |
| `OpenCLField` | `RK2_CL`, `RK4_CL`, `dtfield_CL`: commands, events, device buffers | `DGKernels`; `RKSchemes` |
| `DeviceKernels` | the work items of the kernels of `field.cl`, in groups with barriers, as the tasks and `dtfield_CL` launch them | `DGAssembly` |
| **Mesh** | | |
| `Geometry` | numbering, places and weights of the Gauss-Lobatto points of a volume and of a face; the mapping of turned unit cubes and its inverse, normals, periodic corrections, points shared by two elements | - |
| `MacroMesh` | from `ReadMacroMesh` to `InitInterfaces`, one action per pass | `Geometry` |
| `PIC` | particles: creation, accumulation, push, on the meshes of `MacroMesh` | `MacroMesh`, `Residues` |
| **Matrices** | | |
| `Residues` | arithmetic modulo a prime, sums, loops; the order of the few numbers the fluxes compare | - |
| `LinearSolver` | the two skyline storages, their factorisations, products and solves, the tasks of the second; the dispatch of `linear_solver.c` over them and `KLU_CSR`, GMRES (external) | `Residues` |
| `LinearSystem` | abstract specification: a matrix, products and solutions | `Residues` |
| `SolverCalls` | one solver and the calls its users make | `LinearSolver`; `LinearSystem` |
| **Schemes on matrices** | | |
| `DGAssembly` | coupling and assembly functions of `implicit.c`, interface terms, the residual without a matrix; `DtFields` (of which `DtFields_old` has the loops) and `DtFields_bis` on the same meshes and fluxes | `LinearSolver`, `Geometry` |
| `ImplicitSchemes` | `ThetaTimeScheme`, `ThetaTimeScheme_WithJF`, `LocalThetaTimeScheme`; `RK1` and one evaluation of `DtFields_bis` | `DGAssembly` |
| `Lattice`, `LatticeBoltzmann` | the lattice models; `LBMThetaTimeScheme`, `LatticeThetaTimeScheme` | `ImplicitSchemes` |
| `ContinuousSolver` | charge, fat nodes, Poisson equation, electric field | `ImplicitSchemes` |
| **Models** | | |
| `PhysicalModels` | the numerical and boundary fluxes as formulas, kinetic models first; one element whose faces are turned | `Residues`, `Lattice`; `Geometry` |
| **Proofs and instances** | | |
| `SpuHost_proofs`, `RK2Spu_proofs`, `LocalThetaSpu_proofs`, `GraphThetaSpu_proofs`, `SolSpu_proofs`, `OpenCLField_proofs` | theorems (that of the clock is in its module, those of the flow graph in `GraphThetaSpu_proofs`); `SpuHost_proofs` holds those of the runtime and the lemmas the three schemes share | |
| `ResidueTheorems` | lemmas: induction on numbers, functions and sums defined by recursion, sums of the community modules, arithmetic modulo P | |
| `MC*` | instances for TLC; `MCComputations` puts those of the schemes, the kernels and the fluxes side by side (one prime, one run: a behaviour is of one of them, the others idle) (their meshes are at the end of `Geometry`) | |

Three abstractions of the reals are used, each where it is exact. *Provenance*: a
buffer is the set of tasks whose writes make up its value (tasks). *Residues*: a
real is a number modulo a prime, so that sums, products and quotients are exact and
what the code computes up to rounding can be compared with equality; the order of
most numbers is lost, and with it pivot tests and stopping criteria (matrices, schemes,
fluxes, device). *Integers*: positions are whole multiples of a small length, with
Lobatto abscissae rounded symmetrically, so that comparisons are those of the code
(meshes, particles).

Definitions named `X_...` are not models of the code: each is a plausible error in the
definition that follows it, which the properties must notice.

### Correspondence with the code: tasks

**Data.** In `StarPU` a buffer holds its *provenance*: the set of tasks whose
writes make up its value. A task takes a view of its buffers when it starts and
writes back when it finishes, so that a write in between would be lost. That is
enough to say what a kernel has read. `RK2Spu` adds numbers: a buffer of
thousands of reals becomes one number modulo the prime `P = 97`, and a kernel the
corresponding function, exact modulo `P`, with the fluxes and sources abstracted to
arbitrary functions of all that they depend on (the states on both sides and the
orientation, the time for boundary terms and sources). The flux keeps the one
property the scheme relies on, `F(a, b, n) = -F(b, a, -n)`.

**Codelets.** `mode` is the `codelet.modes[...]` line of the codelet, `eff` is
read off its kernel. `DGMass` is the case to look at: it declares its output
`STARPU_RW|STARPU_COMMUTE`, but computes `dtw = res / mass - dtw / 2`, an update
that does not commute with itself. It is right only because a `ZeroBuffer` or an
`AddBuffer` always comes between two of them (`UpdatesKeepTheirPlace`).

**Submission functions.** Each is the sequence of tasks it submits: none when the
code returns early (no element on that side of the face, a boundary face, one
subcell only, no source), else one. `HasSolver` is the test `f->solver != NULL`,
by which the functions shared by the two kinds of schemes choose `wn`/`res` or
`sol`/`rhs`.

**Hosts.** `pc` is the loop the host is in, `k` its counter. One turn of a loop
is one step: the runtime decides what a task waits for from earlier tasks only,
so that a worker that starts an earlier task between two submissions of the same
turn could as well have started it before or after the turn.
`DtFields_SPU` is called with `w_handle = NULL`, as in `RK2_SPU`, and the
`WORKER_ON_NODE` variants are not modelled.

**Clocks.** `tnow` counts half time steps: `theta` is 1/2 in all implicit schemes.
Reals are exact, so that accumulated rounding in `tnow` is not modelled.

**SolSpu.** One action per label or loop head of `sol_spu` as `SolveSkyline_C`
calls it (`ifac = 0`, `isol = 1`, `nsym = 1`); all the `static` variables it uses are
one record shared by all running tasks. This granularity is coarser than the C
code (copy loop, inner loop and scalar product are one step each): it has fewer
interleavings than the program, so that a violation is a real one. A step that
would leave its arrays is undefined behaviour and blocks.

**Assumptions on the environment.** The handles are registered and the matrices
factorised before the first time step. Nothing in the repository calls the two
implicit `_SPU` schemes at this commit, and they do not register the interfaces
themselves; the model is of what they do once a caller has done so. The velocity
is constant, so that every element has an inflow and an outflow face
(`FlowThrough`), and the flow graph has a topological order.

### Correspondence with the code: OpenCL

`OpenCLField` has two processes. The *host* is in one of the loops of `RK2_CL`,
`RK4_CL` or `dtfield_CL` (`pc`, `k`) and appends to `cl.queue` the commands it
enqueues, each with the kernel, the arguments copied into it (its time among
them), the events it waits for and the event slot (`clv_*`) it fills. Slots are reused
from stage to stage: a command waits for the event its slot held when it was
enqueued, which is the point of the model. Where a loop has nothing to enqueue, the code completes a user
event instead, and so does the host here. The *device* executes the first
command of the queue once its events are complete: `src/clinfo.c:396` creates the
queue with profiling and without out-of-order execution. The host waits where
the code calls `clWaitForEvents`. Each kernel of `field.cl` is the same function modulo
97 as the task of its name. Subcells are cut in some dimensions (`raf`), all of them
among the first `ndim`, as the kernels assume. The charge and the potential computed between two
stages are not modelled.

### Correspondence with the code: mesh and particles

`MacroMesh` takes a mesh as a file describes it through the functions the programs
call, one action per pass: the two detections of dimension, the node to element
table, the sorted list of faces, neighbours, suppression of the faces of flat
directions, periodic directions, bounds, `CheckMacroMesh`, then `InitInterfaces`,
one interface per step. A failed assertion leads to `pc = "abort"`. Elements are unit cubes, but turned
in any of their 24 ways, which is what the index conventions depend on; the
mapping is then a rotation and its inverse exact. Positions are integers with
`Unit = 6000` to an edge, and two reals that the code compares with a tolerance
are equal or not. Lobatto
points are rounded to such units symmetrically.

`PIC` continues on the same meshes: `CreateParticles` draws positions until they
are in the mesh, `CreateCoil2DParticles`, `AccumulateParticles`, and one action
per call of `PushParticles`. The order of pushes and accumulations is free, as in the programs that
use them, up to a number of pushes. Positions and velocities are integers, fields
and basis functions residues (P = 24001), and the fields that move particles are
affine with values in quarters, so that the residue of their value gives the
integer. An assertion that fails in `psi_ref` or `InterpField`, because a particle is
on the last face of its element, stops the program (`pc = "stopped"`).

### Correspondence with the code: matrices and solvers

`LinearSolver` has the arrays of the code (`prof`, `kld`, `vkgs`, `vkgd`, `vkgi`), with its
indices, for the two storages: `skyline.c`, which keeps a copy for products, and
`skyline_spu.c`, which does not. It dispatches as `linear_solver.c`
does; `klu_solve` and the Krylov solver are external and return the solution. `SolverCalls` is one solver with
the calls of its users: switch on any pattern, allocate, add and set any terms,
then multiply and solve in any order. With `SKYLINE_SPU` the host writes a vector, submits
a task, and must unregister the matrix before it reads the result. The run `solvers` refines
`LinearSystem`, which has only a table of numbers.
Systems are solved when no pivot is null (`NoNullPivot`): comparisons of reals are
not in the model, nor is the code's tolerance.

### Correspondence with the code: schemes on matrices

`DGAssembly` translates the coupling and assembly functions of `implicit.c`
loop by loop: each becomes a sequence of blocks (the points of its rows and of its
columns, and the m x m matrix that unit states give), which is first switched on
by one function and then added by another. `NothingStray` is that the two agree.
The simulations are those of the code with a linear conservative flux, affine boundary values and sources, and
everything that depends on geometry left as it is: volume and face weights, derivatives,
normals, the two sides of an interface and their numberings. The time step is 2
and theta 1/2, so that times and factors are integers.

`ImplicitSchemes` has one action per pass over the mesh: initialisation, explicit
part, implicit part, solve. Matrices are assembled at the first step only and
factored at the first solve, as in the code. `DGAssembly` ends with the two serial ways to the time
derivative, face by face (`DtFields` and `DtFields_old`, two copies of the same loops) and side by side (`DtFields_bis`).

`LatticeBoltzmann` runs these matrices for each velocity of a lattice
in turn: `LBMThetaTimeScheme` with one pair of solvers per velocity,
`LatticeThetaTimeScheme` with one pair; inlet, outlet and wall, or periodic. Relaxation rates are
arbitrary residues. `ContinuousSolver` computes the charge of a distribution,
pastes nodes, assembles the Laplacian with exact Dirichlet rows, solves, and
differentiates. The slices of a plane problem are asserted to be equal (`SlicesFit`): otherwise the model has no step,
which TLC would report as a deadlock. Whether a coordinate that is an exact number of pixels is truncated to it or to the
one below (rounding) is a constant of the case; equal coordinates are truncated alike.

### Correspondence with the code: work items

A kernel of `DeviceKernels` is a tuple of groups of work items, an item the sequence
of its instructions in the order of the code. Adding to a cell is two steps, a load
and a write, between which other items run. The items of a group share the local
memory, whose content is arbitrary at first, and wait for one another at
`barrier(...)`; groups run in any order. What an
instruction adds (a flux, a quotient, a source) is computed by the operators of
`DGAssembly`, and the buffers at the end are compared with what the serial functions of
that module leave in them. `CodeletsAgree` holds of the launches of the run `assembly`; it does not
hold of every kernel. `DGFlux` agrees both with and without the local copy
(`_CACHEMEMORY`), `DGVolume` with it only: without it (the default) its items add to each
other's points in global memory with no barrier, and an addition is lost in the run
`device_volume`, with one subcell of two points; that the items of a group run in step on the
devices the code is used on is not something the model can say. `DGSource` is
modelled as `dtfield_CL` launches it, after `DGMass`. It agrees in an element of one subcell; in
the run `device_source`, with two, it takes the points of the second from the first. Launched as a task it runs
before `DGMass` and lacks the weight of the point (`src/simulation_spu.c:1774`); that launch is not modelled.

### Correspondence with the code: physical models

`PhysicalModels` translates the fluxes of `src/gyro.c`, `src/maxwell.c`,
`src/mhd.c`, `src/waterwave2d.c`, `src/acoustic.c`, `src/lattice.c` and others as formulas on residues
(P = 6007). Where a flux compares numbers or takes a root, the states are
chosen so that these are multiples of a quarter, or squares, and normals have integer lengths.
It has one action per face of an element, seen from one side
and then from the other.

## 3. Runs

| Run | Instance | Shows |
|---|---|---|
| `rk2_spu` | two elements, one of them with subcells, one inner and two boundary faces, with a source, 2 workers, two time steps (`tmax = 3` half steps) | no kernel races; each sees the sequential values; the non-commuting update is never in a commuting group with another writer; element by element, after each stage, the serial RK2 of `simulation.c`; return at the right time; refinement of `ElementClock`; termination with every element at the last time |
| `local_theta` | two elements, an inner and a boundary face, three time steps | each solve starts on a complete right-hand side of its own step, made from the old state of its neighbours; refinement of `ElementClock` with time steps for stages; termination with every element at the last time |
| `graph_theta` | three elements, 0 upwind of 1 and of 2, the first face seen from its left element and the second from its right one, two outflow faces, a tangent face, four time steps, both topological orders | each solve starts on its own complete right-hand side, made from the *new* state of its upwind neighbours; ghosts first and last; refinement of `ElementClock` with a lead of 3; termination with every element at the last time |
| `solvers` | 3 rows, every pattern, up to 4 terms written, both skylines; two systems of 3 equations with different profiles, all right-hand sides over {1, 4}, 1 worker | refinement of `LinearSystem`; `sol_spu` solves its system in place, within its arrays |
| `sol_spu_workers` | the systems of `solvers` with 2 workers | **violation**: the solution of a system is wrong when another solve runs: see findings |
| `mesh` | 1 to 4 elements: rows, squares, an L, in all 24 orientations against another, degrees 0 to 3, with stray nodes, 3D, 2D and 1D, periodic in one and three directions; particles on four of them, up to 4 pushes | each face once, no assertion of the mesh fails, both sides of an interface agree on the place of its points; the charge is that of the particles; particles follow the field from element to element |
| `mesh_box` | one element away from the origin | **violation**: the bounding box is not that of the nodes |
| `assembly`, schemes | one and two elements, degrees 0 to 2, one and two unknowns, with boundaries or periodic, two or three steps of each serial scheme; D2Q9 and D2Q9 + 2 D2Q5 lattices; Poisson on lines, planes and slices | each step solves the equation of its scheme, every term has its place, uniform states stay, closed domains conserve, the versions of the DG operator agree, collisions conserve, the electric field is the gradient of a potential of the charge |
| `assembly`, kernels | the kernels (`DGVolume` with its local copy, `DGSource` in one subcell) on elements with 2 to 16 points, one and two unknowns, one to four subcells, inner faces and a wall | in any order of the work items between barriers, the buffers are in the end those of the serial functions |
| `assembly`, fluxes | each flux on pairs of states with closed cells of 3 or 4 faces; the boundary conditions on walls | what leaves one element enters the other; uniform states stay; versions of a flux agree; walls return what they should |
| `linear_solver_klu` | the matrices of `solvers` in compressed columns | **violation**: the matrix does not start from zero |
| `opencl` | two elements between boundaries, one element, two periodic elements; both schemes; with and without a source; four choices of dimension and subcells; two time steps | the field on the device is the serial scheme's after each step, for `RK4_CL` with the times of its stages frozen; the code's RK4 is the classical one; termination |
| `device_volume` | `DGVolume` without its local copy, two subcells of two points | **violation**: an addition is lost |
| `device_source` | `DGSource` after `DGMass`, the same element | **violation**: the second subcell has the source of the first |

**Bounds.** `MaxPending` is StarPU's limit on unfinished tasks: the host submits a
turn only when fewer than `MaxPending` tasks are unfinished. With 8, and turns of
one to five tasks, up to twelve tasks are in flight: more than a whole stage of
some element, so that the host is in the next stage, and in the next time step,
while the last is being computed. For the sweep this is enough to reach the lead
of 3: with `Lead <- 2` the refinement is violated. Two workers suffice for every
pairwise race and overtaking; a third only adds interleavings of the same pairs.
Two time steps of RK2 contain both kinds of stage changes (stage 1 to 2, stage 2 to
1 with `dtwn` zeroed); odd `tmax` makes the last step overshoot. The unbounded
counters (`tnow`, `iter`, the length of `queue`) are bounded by `tmax`.

On the device the two steps reuse every event slot, both within a step and
across two. Meshes of two elements have one inner face, seen from both sides and
in all relative orientations; three in a row have an inner element, four a node shared by all, and
a row of three is the shortest periodic one in which the two ends are not
neighbours otherwise. Serial schemes make two steps or more, one that assembles and factors and one
that uses what is left. A skyline of three rows is the smallest with a term
inside a profile that was not switched on. The primes are larger than the products of a few
distinct small numbers in the data, so that an accidental equality is unlikely, and small
enough that products of two residues stay below 2^31 in TLC.

**Fairness.** For the schemes over tasks, one weak fairness condition on "some thread runs": the host, or a
worker taking a ready task, or a kernel returning. The operating system schedules
the threads, StarPU's workers poll for ready tasks, the kernels are finite loops;
no fairness between workers, between tasks, or for the host is assumed. It is
enough since every such step makes progress; what the liveness properties exclude is
that nothing can run while the scheme has not returned, and that it returns too late, never, or with an
element behind: `Terminates` says that the host returns at a time past `tmax` with every element at that
time, which a loop that misses `tmax`, or a turn that forgets an element, breaks. The step that stutters
after the return (`Returned`, `AllSolved`) makes deadlock checking mean the same. For the device
the host and the device each are weakly fair: they are two processors. The other
runs have no liveness property. Deadlock is checked in all passing runs.

## 4. Theorems

All proofs are checked by TLAPS with no assumption but the `ASSUME`s on the
constants, which TLC evaluates in every run.

- `SpuHost_proofs!TablesAreSound`: in every codelet the declared mode covers what the
  kernel does. It is the only fact about the tables the rest needs.
- `SpuHost_proofs!RTInvariant`, `RTTypeCorrect`, `RaceFree`, `SequentialSemantics`: under
  *any* host, with any number of workers and handles, kernels never race
  (`NoDataRace`) and see the values of the sequential execution up to their own
  commuting group (`SequentialView`). Neither is inductive. `RTInv` adds that started
  tasks have all their predecessors finished (`PrefixClosed`), that running tasks
  do not conflict (`Exclusion`), that a buffer holds exactly the finished writes
  since the last overwrite *in submission order* although the tasks finished in
  another (`ContentInOrder`), and that what a running task has read is what is
  still there (`ViewIsCurrent`). The heart is `FinishStep`: a task that overwrites
  a buffer finishes after all its predecessors and before all its successors, because
  its mode orders it with every user of the buffer.
- `RK2Spu_proofs!RK2ImplementsRuntime`, `RK2RaceFree`, `RK2SequentialView`, `RK2TypeCorrect`,
  and the same of `LocalThetaSpu_proofs` and `GraphThetaSpu_proofs`: the schemes, on every mesh, implement `RTSpec`,
  hence inherit both properties. The invariant added is that loop counters index the
  mesh, from which every submission function yields well-formed tasks (`SpuHost_proofs`):
  registered handles, as many as the codelet has buffers, all different.
- `RK2FollowsTheClock`, `LocalThetaFollowsTheClock` (and their corollaries `RK2Lag`,
  `LocalThetaLag`): both schemes implement `ElementClock` (with `Ahead` 0 and `Lead` 1) on every mesh, although their
  hosts never wait between two stages. Levels count finished tasks, of which little is
  known while workers overtake each other, so the inductive invariant, `OrderInv`, says nothing of
  them: it is about the queue, which the host alone builds. Each task that ends a stage
  of an element is linked, through tasks that conflict and are therefore ordered, to one that
  read the state of each neighbour (`Fed`), at a place of the queue before which
  that neighbour had ended as many stages. When the last task of the chain has run, so
  has, by `PrefixClosed`, everything it is ordered after (`SpuHost_proofs!StagesAdvance`).
- `RK2UpdatesKeepTheirPlace`: a `DGMass`, which declares that it commutes and does not,
  never meets another writer of its buffer in a commuting group. The invariant of the
  queue says which task closes the group before the host submits the next.
- `RK2FieldsOnSchedule`: on every mesh, for every number of workers and every order
  the runtime may choose, an element that has ended s stages holds what the serial
  RK2 of `simulation.c` computes for it: the tasks do not only come in a good order, they
  compute the right field. The invariant has three parts.
  (1) Of the queue, `ValuesInv`: executed in order, what the host has
  submitted would leave in `w`, `dtwn` and `res` the values of the serial scheme at
  the host's place in its loops (`HostValues`, `Holds`); it is followed task by task
  through the turns of a stage. The sum of the fluxes grows face by face
  (`FaceNet`), and `FullStep` is the point at which the scheme departs from the
  serial one: `dtwn` is not zeroed before the second stage, and the subtraction of
  `dtwn / 2` in `DGMass` undoes the half step of the first. (2) Of the queue,
  `Levels`: the n-th task that ends a stage of an element leaves the n-th state in it.
  (3) Of the memory, `Follows`: memory and the arguments of the running tasks are
  those of the execution in order up to some cut of each buffer. Tasks that commute
  add to the buffer, so that their order does not matter modulo P, and `Point` (a
  variant of `UpdatesKeepTheirPlace` for all buffers) keeps the groups apart. The sums
  over faces and the states of the serial scheme are defined by recursion; the facts
  about them come from `NaturalInduction`, `Recursion` and `SumsExist` of
  `ResidueTheorems`, which are derived from the strict subsets of a finite set being well founded;
  the sums of the community modules (`SumFunctionOnSet`) are unfolded one face at a time (`SumGrows`).
- `RK2ReturnsAtTmax`, `LocalThetaReturnsAtTmax`: the schemes return only when every element
  has taken all its stages (the safety half of termination): the loop ended at
  `tmax`, nothing was unfinished, and the queue holds as many last tasks per element as
  the time tells.
- `LocalThetaNeighboursAtTheOldStep`, `LocalThetaSolveSeesItsStep`: on every mesh each
  flux reads the state its neighbour had at the beginning of the same time step, and each solve
  starts on a complete right-hand side: the product, the source if there is one, one
  flux for each side of a face, none missing or twice. No task of the implicit schemes
  commutes, so that by `SequentialView` a running task sees exactly what the tasks
  before it in the queue left (`ViewIsHeld`). The inductive invariant `ViewInv` then says
  what that is for every task of the queue, and for the next one to be submitted: the
  state of a step (`StateIs`), and a right-hand side with so many terms of each
  kind (`RhsIs`), which the lemmas follow task by task through the four loops.
- `GraphThetaFollowsTheClock` (and its corollary `GraphThetaLevels`): the sweep implements
  `ElementClock` with `Ahead` 1 and `Lead` 3, on every mesh, for every flow whose graph has a
  topological order and every such order. The inductive invariant (its own `OrderInv`) is again about the
  queue alone: along each arc between elements, the solve of step n of the downwind element comes
  after a flux of its own that reads the buffer of the face, and that after an extraction
  of the state of step n upwind (`Fresh`); and a solve upwind comes after the extraction
  of its last state into the buffer, which comes after the flux that used the one before
  (`Freed`). The first gives the order along the flow, the second the lead: what is two
  steps old has been used. That every turn of the host keeps this rests on the
  topological order: when an element is visited its upwind elements have been in this sweep,
  and its downwind elements have not (`MayTurn`, `TurnKeepsOrder`).
- `GraphThetaUpwindAtTheNewStep`, `GraphThetaSolveSeesItsStep`: on every mesh each flux of the
  sweep reads the state its upwind neighbour has at the *end* of the same step, and each
  solve starts on a right-hand side of its own step with one flux for each face
  the flow enters the element by. The invariant, `ViewInv` of `GraphThetaSpu_proofs`, says of every task of the
  queue what its kernel is given (`Sees`), and of every element and face what they hold
  between two turns of the host: the element, the state of its last step; the buffer of a face, the upwind state of
  the last step of the upwind element (`FaceHolds`). A turn adds the tasks of one element, whose shape is
  `Turned`; inside it the terms of the right-hand side are counted from one task to
  the next (`Interval`). The fluxes of a turn are as many as the
  arcs into the element, that is as the faces the flow enters it by, since no arc is a loop
  (`InflowCounted`).
- `GraphThetaGhosts`, `GraphThetaReturnsAtTmax`: the elements are
  `topo_order[1 .. nbelems]`, whence each is visited once per sweep; at the return
  each has taken `iter` steps, the first number that reaches `tmax`.
- `ElementClock!Levels`: what the abstract clock guarantees on every
  graph: in a scheme that uses the old state neighbours differ by at most one stage; in a sweep, along an arc of the flow the level
  does not increase, nor drop by more than the lead. With the refinements this is
  the drift between elements of the schemes.
- `GraphThetaSpu_proofs!GhostsFirstAndLast`: in every topological order the upwind ghost
  is first and the downwind ghost last, which is what
  `topo_order[ies+1]` of `GraphThetaTimeScheme_SPU` needs (its comment says so and
  nothing checks it). It needs `FlowThrough`, every element having an inflow and an
  outflow: without it an element could come before the ghost.
- `SolStaysInItsArrays`: with one worker `sol_spu` never leaves the arrays of its
  system, for every number of systems, size and profile that `AllocateSkyline_SPU` can leave
  (`SolSpuAssumption`). The invariant, `SolInv` of `SolSpu_proofs`, says that one
  task runs and that the static variables are its own: at each label they are the line, the
  ends of its terms and the first unknown they multiply (`Loops`). With two
  workers TLC finds an access outside: the hypothesis is what the `static`
  variables ask for, see section 5.
- `SolSolvesItsSystem`: with one worker a finished solve leaves the solution of its own system, for
  every number of systems, size, profile and right-hand side. The invariant,
  `SolvesInv`, adds to `SolInv` what each label has done to the vector (`Place`). Forwards, the lines
  before the current one satisfy the equations of L and the others still hold the
  right-hand side. Backwards, for some y that solves the lower system, the equations of U
  from the current one on are satisfied, and its columns have been subtracted from those above: at `column`
  the unknown has been found and its column not yet subtracted. The proof relates what the code adds,
  the terms a profile stores, to the sum over a whole line (`Line`, by `SumTelescopes`), and
  divides by the diagonal (`Quotients`): `SolSpuAssumption` asks that it have inverses modulo P, which says that
  no pivot is null, and holds for every prime.
- `OpenCLField_proofs!DeviceFollowsSchedule`: on every mesh, in one to three dimensions, with or
  without subcells, boundaries in any order and sources, for `RK2_CL` and `RK4_CL`, and
  however far the host is ahead of the device, the field on the device is that of the serial scheme after the
  steps the device has finished, and `CopyfieldtoCPU` gives back the last one. The
  property speaks of what the device has done, the host's loops of what it has
  enqueued; the inductive invariant, `Inv`, joins them by what the
  commands still in the queue will do. `Leads` says that executing them takes the buffers to
  some M, the field being a state of the serial scheme before each of them (`Passes`), so that
  a step of the device only drops the first (`Executed`), and a command of the host only
  appends one (`Enqueued`). Of M, which no processor sees, it says what the host has asked for at its
  place in its loops: `Stages`, the intermediate states of the step, and `Derivative`, the terms of the time
  derivative enqueued so far. The faces are summed one by one in the order of the
  two lists of the code (`NetGrows`, `InnerFaces`, `OuterFaces`), then an element at a
  time: fluxes between subcells, volume, division by the mass, and the source
  after it rather than before (`CellDone`).
- `OpenCLField_proofs!RK4IsTheClassicalScheme`: the final stage of `RK4`, which combines the
  intermediate states rather than the slopes, is the classical scheme on every mesh and
  from every time. It is a statement about weights modulo P (`Weights`, `Rearranging`), and needs 3 to be
  invertible (`Third`), hence `P % 3 # 0` in `OpenCLAssumption`.

Only model-checked: the work items of the device (`CodeletsAgree`), and everything about meshes, matrices and fluxes. Out of the prover's reach:
termination (liveness under fairness, `ENABLED`), on the device too, and the modules that use
`RECURSIVE` operators. The induction theorems of the library cannot be instantiated
either; where an induction is needed (`RK2FieldsOnSchedule`, `DeviceFollowsSchedule`) it is carried out by hand on
sets of numbers, for each predicate as a set.

## 5. Findings

- `sol_spu` declares its loop variables and accumulators `static`
  (`src/skyline_spu.c:571-577`). `SolveSkyline_SPU` makes it the kernel of a task and
  the implicit schemes submit one per element, so several workers are in it at
  once; the run `sol_spu_workers` shows two of them overwrite each other's loop
  counter, after which a finished solve is not the solution of its system. The
  header comment of the function (line 579) promises the resolution of a linear
  system. `mulku_spu`, the kernel of `MatVectSkyline_SPU`, has the same variables.
- `macromesh_bounds` updates the lower z bound of the bounding box when z is less
  than the lower *x* bound (`src/macromesh.c:278`); the run `mesh_box` has an element away
  from x = 0. Positions are then rejected, or looked for, in the wrong box.
- `AllocateKLU` leaves in the matrix the counts with which the pattern was built
  (`src/klu_csr.c:41`), so that what is added later is added to them: run
  `linear_solver_klu`. The skylines do start from zero.
- `DGVolume` as built by default has no local copy and no barrier (`src/field.cl:1137`): additions
  of two work items to one point may be lost, run `device_volume`. The test of the codelet,
  `test/testcodelet_dgvolume_spu.c:44`, expects the reference values.
- `DGSource` computes the source at the points of the first subcell for all of them
  (`src/field.cl:1930`), run `device_source`; its comment says "inside one macrocell".

## 6. Not modelled, and why

- The arithmetic of reals: rounding, stability, convergence, and what is decided by
  comparing reals (null pivots, stopping criteria of iterations).
- The StarPU life cycle over several schemes in one process. The code leaves handles
  registered and `starpu_is_init` set; no document, test or program says what should
  happen then, so that there is no behaviour to be faithful to.
- Degrees above 2 in matrices and particles (3 in meshes), curved elements: their
  mappings are not exact on integers or residues.
- The sweep over subcells (`subcell_solve` is empty); M1 and `MHDNumFlux1D`
  (roots of arbitrary reals); Robin, penalised and periodic Poisson problems in one
  dimension; Lattice Boltzmann in several time steps at once, with local Newton
  iterations, the model named TEST, and their Runge-Kutta wrappers; imposed data made of
  trigonometric functions; diagnostics.
- `csparse_spu.c` (unfinished), `solverumfpack.c` (not built), the release of solvers and
  simulations.
- The CUDA kernels of the tasks, transfers between memory nodes. `field_spu.cl` is not in the program (`get_opencl_code.sh` takes `field.cl`).
- Vendored libraries, plotting, file formats, command lines.
- StarPU and OpenCL themselves: the models are the contracts the sources rely on,
  taken from how they use them; priorities and data transfers only restrict or
  delay the schedules allowed.

Two known disagreements are left outside the instances, on which the property named does not hold.
`BuildConnectivity` keeps one of two periodic faces by its local number (`src/macromesh.c:739`): when
the two ends of a periodic mesh are turned differently both may be dropped, and `EachFaceOnce` is checked on
ends turned alike. `RK4_CL` advances the time after the last stage only (`src/field_cl.c:1464`), which the
serial `RK4` does not: `DeviceOnSchedule` is stated with the times of its stages frozen.

Irregularities met while reading, which no property covers since their code is among
the above or is used by no program: `RK4` sizes `Diagnostics` one row shorter than `RK2`
does and does not reset `tnow` (`src/simulation.c:939`); `edge2face` has two spare cells,
whereas a face on which v.n changes sign adds two arcs (`src/macromesh.c:783`), and the vector
of the topological order is destroyed even if it was not initialised (line 868);
`assert(m->is_build = true)` assigns (line 781), as in `src/lbm_generic.c:776`; `PeriodicCorrection`
takes periods from 0 whereas the connectivity takes them from the bounding box
(`src/geometry.c:64`); `ExtractInterface_OCL` does not wait for its kernel
(`src/interface.c:264`); with CUDA the table `opencl_funcs` is overwritten
(`src/simulation_spu.c:1034`); `is_lu` is never reset (`src/skyline.c:316`); a `SKYLINE_SPU`
is freed twice (`src/linear_solver.c:94`), and its `sol` is freed and replaced behind the
`LinearSolver` (`src/implicit.c:262`); the Robin terms are assembled only if the matrix is not,
and it is (`src/solverpoisson.c:75`); `UpdateGyroPoisson` keeps a static solver from one
simulation to the next (`src/gyro.c:503`); `Computation_Fluid_Quantities` and
`Compute_derivative` forget the offset of the element (`src/quantities_vp.c:55`,
`src/simulation.c:1155`); `AccumulateParticles` reads `old_cell_id` before it is set in
tests that place particles by hand (`src/pic.c:219`); `CopyCPU2GPU` unmaps pointers nothing
initialises (`src/field_cl.c:76`); the weights of D1Q3 are not in the order of its nodes
(`src/lbm_models_data.h:363`); directions along a wall share what is sent back
(`src/acoustic.c:1396`); the flux with a bottom lacks `hR` before the
squares of `uR` and of `vR` (`src/waterwave2d.c:296` and `299`); `i % deg_v` divides by zero for degree 0 (`src/collision.c:15`).

## 7. Plan

Done: the task graph and its theorems; the mesh and the particles; the solvers; the
serial schemes with matrices and without; the lattices; Poisson; the device; the
fluxes; the device kernels that disagree, as findings; that the explicit schemes compute the serial fields, on StarPU and on the device, proved. Next, in this order:

1. Proofs about `OpenCLField` and `SolverCalls`: that every event the device waits for is that of an
   earlier command or a completed user event (the safety half of `Terminates`), and the invariant of `SolverCalls` (a matrix
   multiplies by its copy once it is factored).
2. The symmetric skyline, the Robin condition, and the charge inside `dtfield_CL`.
