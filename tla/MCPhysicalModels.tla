-------------------------- MODULE MCPhysicalModels --------------------------
(***************************************************************************)
(* Every flux, with pairs of states and closed elements.  The normals have *)
(* integer lengths; the velocities and the sounds of the water are such    *)
(* that what the fluxes compare is a multiple of a quarter.                *)
(***************************************************************************)
EXTENDS PhysicalModels

Plane == { << <<3,4,0>>, <<3,-4,0>>, <<-6,0,0>> >>,
           << <<1,0,0>>, <<0,1,0>>, <<-1,0,0>>, <<0,-1,0>> >> }
Space == { << <<1,2,2>>, <<-1,-2,2>>, <<0,0,-4>> >>,
           << <<2,-1,2>>, <<0,1,0>>, <<-2,0,0>>, <<0,0,-2>> >> }

\* n different values, distinct from those of another seed.
Values(n, seed) == Tuple(n, LAMBDA i : 1 + ((seed * i * i + 7 * i) % 23))
Pair(n) == { << Values(n, 3), Values(n, 5) >>, << Values(n, 4), Values(n, 4) >> }

\* A distribution on each side of a face, and the same electric field.
Distribution(mv, seed, e) == Values(mv, seed) \o << 1, 2 >> \o e \o << 0, 0, 0 >>
KineticPair(mv) == { << Distribution(mv, 3, e), Distribution(mv, 5, e) >> :
                     e \in { << 2, -3, 1 >>, << -1, 2, -2 >> } }

\* Height and velocity of the water.
WaterState(h, u, v) == << h, h * u, h * v, 0, 0, 0 >>
WaterPair == { << WaterState(1, 2, 1), WaterState(49, 10, 1) >>,
               << WaterState(4, 1, -2), WaterState(4, 5, 4) >>,
               << WaterState(49, -3, 2), WaterState(1, 5, -6) >> }

MHDPair == { << << 2, 4, 90, 6, -2, 3, 1, 2, 5 >>, << 3, 3, 80, -6, 9, 1, 4, -2, 1 >> >>,
             << << 1, -2, 70, 1, 3, -3, 2, 1, -4 >>, << 5, 10, 95, 5, 0, 2, 2, 3, 2 >> >> }

Faces2(models, pairs, cells) ==
  { [model |-> m, wL |-> p[1], wR |-> p[2], cell |-> c] : m \in models, p \in pairs, c \in cells }

MCProblems ==
  Faces2({"TransNumFlux2d", "Lattice_OneNodeNumFlux"}, Pair(1), Plane)
  \cup Faces2({"VecTransNumFlux2d"}, Pair(2), Plane)
  \cup Faces2({"vlaTransNumFlux2d"}, Pair(6), Plane)
  \cup Faces2({"GyroCenteredNumFlux", "GyroUpwindNumFlux", "GC_OCLUpwindNumFlux",
               "GyroZeroNumFlux"}, KineticPair(5), Space)
  \cup Faces2({"VlasovP_Lagrangian_NumFlux"}, KineticPair(4), Space)
  \cup Faces2({"sn_upwind_numflux"}, Pair(14), Plane \cup Space)
  \cup Faces2({"sn_upwind_numflux"}, Pair(26) \cup Pair(50), Space)
  \cup Faces2({"ocl_s50_upwind_numflux"}, Pair(50), Space)
  \cup Faces2({"ocl_sin3d_upwind_numflux"}, Pair(1), Space)
  \cup Faces2({"ocl_s6_upwind_numflux"}, Pair(6), Space)
  \cup Faces2({"Lattice_NumFlux", "LBM_OneLatticeNumFlux", "LBM_OneLatticeNumFlux_SelectVel"},
              Pair(15), Plane)
  \cup Faces2({"Wave_Centered_NumFlux", "Wave_Upwind_NumFlux", "Wave_Rusanov_NumFlux"},
              Pair(3), Plane)
  \cup Faces2({"ShallowWater_Rusanov_NumFlux", "ShallowWater_HLL_NumFlux",
               "ShallowWater_Roe_NumFlux"}, WaterPair, Plane)
  \cup Faces2({"Maxwell2DNumFlux_centered", "Maxwell2DNumFlux_upwind"}, Pair(7), Plane)
  \cup Faces2({"Maxwell3DNumFlux_upwind"}, Pair(6), Space)
  \cup Faces2({"Maxwell3DNumFluxClean_upwind", "Maxwell3DNumFluxClean_Maple"}, Pair(8), Space)
  \cup Faces2({"MHDNumFluxRusanov", "MHDNumFluxP2"}, MHDPair, Space)
=============================================================================
