--------------------------- MODULE MCComputations ---------------------------
(* What is computed in the arithmetic of Residues, with the same prime: the   *)
(* schemes; the kernels of a device, one launch at a time; and the fluxes of  *)
(* the models.  A behaviour is of one of the three, the others being idle.    *)
EXTENDS MCImplicitSchemes, MCDeviceKernels

CONSTANT Closures
VARIABLES model, wLeft, wRight, cell, face
Fluxes == INSTANCE MCPhysicalModels
            WITH Problems <- Closures, wL <- wLeft, wR <- wRight, ifa <- face
allthevars == << allvars, cs >>
fluxvars   == << model, wLeft, wRight, cell, face >>

FluxInstance == INSTANCE MCPhysicalModels
                  WITH Problems <- {}, wL <- wLeft, wR <- wRight, ifa <- face
MCClosures == FluxInstance!MCProblems

NoSchemes ==
  /\ problem = [scheme |-> "none", uniform |-> FALSE, closed |-> FALSE] /\ pc = "none"
  /\ tnow = None /\ ftnow = None /\ tstep = None /\ w = None /\ implicit = None
  /\ explicit = None /\ res = None /\ local = None /\ trace = None /\ node = None
  /\ wmic = None /\ wmac = None /\ ltnow = None /\ cs = None
\* A kernel without work items.
Idle == [sim |-> None, kernels |-> << << >> >>, buffers |-> << >>, result |-> << >>]
NoKernels == StartOf(Idle)
NoFluxes  == model = "none" /\ wLeft = << >> /\ wRight = << >> /\ cell = << >> /\ face = 1
OnDevice  == launch # Idle
AtAFace   == model # "none"

AllInit ==
  \/ InitLB /\ cs = None /\ NoKernels /\ NoFluxes
  \/ DeviceInit /\ NoSchemes /\ NoFluxes
  \/ (\E p \in Closures : Fluxes!StartOf(p)) /\ NoSchemes /\ NoKernels

\* The actions of each scheme, and those of the other parts, leave the variables
\* of the others alone.
SchemeAlone == UNCHANGED << devicevars, fluxvars >>
NoLattice   == UNCHANGED << lbvars, cs >> /\ SchemeAlone
NoSolver    == UNCHANGED cs /\ SchemeAlone
NoNode      == UNCHANGED lbvars /\ SchemeAlone
KernelAlone == OnDevice /\ UNCHANGED << allthevars, fluxvars >>
FluxAlone   == AtAFace /\ UNCHANGED << allthevars, devicevars >>
\* Where a scheme stops; anywhere else a step that cannot be taken is an
\* assertion that fails, which TLC finds as a deadlock.
AtTheEnd == pc = "return" \/ (pc = "solved" /\ tstep = 2)
AllNext ==
  \/ ThetaInit /\ NoLattice
  \/ ThetaExplicit /\ NoLattice
  \/ ThetaImplicit /\ NoLattice
  \/ ThetaSolve /\ NoLattice
  \/ LocalInit /\ NoLattice
  \/ LocalProduct /\ NoLattice
  \/ LocalSource /\ NoLattice
  \/ LocalFaces /\ NoLattice
  \/ LocalSolve /\ NoLattice
  \/ JFInit /\ NoLattice
  \/ AssemblyImplicitJFLinearSolver /\ NoLattice
  \/ SolveJFLinearSolver /\ NoLattice
  \/ Return /\ NoLattice
  \/ ExplicitInit /\ NoLattice
  \/ DtFieldsRK1 /\ NoLattice
  \/ RK_out /\ NoLattice
  \/ DtFieldsBis /\ NoLattice
  \/ ExplicitReturn /\ NoLattice
  \/ InitLBMSimulation /\ NoSolver
  \/ LBMInit /\ NoSolver
  \/ LBMRelax /\ NoSolver
  \/ LBMExplicit /\ NoSolver
  \/ LBMImplicit /\ NoSolver
  \/ LBMSolve /\ NoSolver
  \/ LatticeThetaTimeScheme /\ NoSolver
  \/ LBMMoments /\ NoSolver
  \/ LBMReturn /\ NoSolver
  \/ ChargeDensity /\ NoNode
  \/ InitContinuousSolver /\ NoNode
  \/ MatrixAssembly /\ NoNode
  \/ RhsAssembly /\ NoNode
  \/ BcAssembly /\ NoNode
  \/ PoissonSolve /\ NoNode
  \/ Computation_ElectricField_Poisson /\ NoNode
  \/ Transported /\ NoNode
  \/ AtTheEnd /\ UNCHANGED allthevars /\ SchemeAlone
  \/ KernelAlone /\ ItemStep
  \/ KernelAlone /\ GroupStep
  \/ KernelAlone /\ NextKernel
  \/ KernelAlone /\ AtRest
  \/ FluxAlone /\ Fluxes!TurnFaces
  \/ FluxAlone /\ Fluxes!NextFace
AllSpec == AllInit /\ [][AllNext]_<< allthevars, devicevars, fluxvars >>

\* The two elements of a face agree on what passes it; and the boundaries return
\* what they should (the flux functions of the models): stated in PhysicalModels.
FacesBalance      == AtAFace => Fluxes!FacesBalance
BoundariesBalance == AtAFace => Fluxes!BoundariesBalance
=============================================================================
