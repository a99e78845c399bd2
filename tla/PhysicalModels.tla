--------------------------- MODULE PhysicalModels ---------------------------
(***************************************************************************)
(* The numerical fluxes of the physical models as formulas on residues,    *)
(* and the faces of one element.                                           *)
(*                                                                         *)
(* Transport and kinetic models: model.c, gyro.c, collision.c, the SN      *)
(* model of acoustic.c, the lattice fluxes of lattice.c and lbm_generic.c. *)
(* The unknowns of a point are carried at given velocities; a velocity is  *)
(* an integer vector (the factors sqrt(1/2), sqrt(1/3) of the code, which  *)
(* only scale the flux, are left out).  kd is the velocity grid of the     *)
(* Vlasov models, sn the directions of the SN model.  The values after the *)
(* distribution (density, potential, field...) are not carried: their flux *)
(* is zero.                                                                *)
(*                                                                         *)
(* Waves, shallow water, Maxwell, magneto-hydrodynamics: waterwave2d.c,    *)
(* maxwell.c, mhd.c.  The unknowns of a state are numbered from one.  The  *)
(* 1e-16 added to the norm of vnorm is left out.                           *)
(*                                                                         *)
(* A face is given to NumFlux as the mesh happened to orient it: its left  *)
(* element first, and the normal towards the right one.  The two elements  *)
(* get the same flux with opposite signs, so that the scheme is only well  *)
(* defined if the flux does not depend on which of them is on the left.    *)
(* At the boundary the model decides what comes back.                      *)
(***************************************************************************)
EXTENDS Residues, Lattice

Lobatto == INSTANCE Geometry

Carried(vs, wL, wR, n) ==
  Given(vs, LAMBDA v : Tuple(Len(v), LAMBDA i : Upwind(v[i], wL[i], wR[i], n)))
InSpace(v) == << v[1], v[2], 0 >>

(***************************************************************************)
(* Transport (model.c).                                                    *)
(***************************************************************************)
TransNumFlux2d(wL, wR, n)    == Carried(<< <<1, 1, 0>> >>, wL, wR, n)
VecTransNumFlux2d(wL, wR, n) == Carried(<< <<1, 1, 0>>, <<-1, -1, 0>> >>, wL, wR, n)

vlasov_vel(id, md, vmax) == (id - md \div 2) * (vmax \div (md \div 2))
vlaTransNumFlux2d(mx, my, vmax, wL, wR, n) ==
  Carried(Tuple(mx * my, LAMBDA im : << vlasov_vel((im - 1) \div my, mx, vmax),
                                        vlasov_vel((im - 1) % my, my, vmax), 0 >>), wL, wR, n)

(***************************************************************************)
(* Vlasov and guiding centre models: the distribution over a velocity grid *)
(* of nb_elem_v elements of degree deg_v.                                  *)
(***************************************************************************)
InitKineticData(nbelemv, degv) ==
  LET mv == nbelemv * degv + 1
  IN  [nb_elem_v |-> nbelemv, deg_v |-> degv, mv |-> mv, vmax |-> 6, dv |-> 12 \div nbelemv,
       index_ex |-> mv + 3, index_ey |-> mv + 4, index_ez |-> mv + 5, index_max |-> mv + 8]

\* The velocity of the unknown i (from 0).
Velocity(kd, i) ==
  -kd.vmax + (i \div kd.deg_v) * kd.dv + (kd.dv * Lobatto!Abscissa(kd.deg_v, i % kd.deg_v)) \div 1000
KineticFlux(kd, F(_)) ==
  Tuple(kd.index_max, LAMBDA i : IF i <= kd.mv THEN F(i) ELSE 0)

GyroCenteredNumFlux(kd, wL, wR, n) ==
  KineticFlux(kd, LAMBDA i :
    Mean(wL[i], wR[i]) ** Along(<< wL[kd.index_ey], -wL[kd.index_ex], Velocity(kd, i - 1) >>, n))
GyroUpwindNumFlux(kd, wL, wR, n) ==
  KineticFlux(kd, LAMBDA i :
    Upwind(<< wL[kd.index_ey], -wL[kd.index_ex], Velocity(kd, i - 1) >>, wL[i], wR[i], n))
GC_OCLUpwindNumFlux(kd, wL, wR, n) ==
  KineticFlux(kd, LAMBDA i :
    Upwind(<< wL[kd.index_ey], -wL[kd.index_ex], 0 >>, wL[i], wR[i], n))
GyroZeroNumFlux(kd, wL, wR, n) == KineticFlux(kd, LAMBDA i : 0)
VlasovP_Lagrangian_NumFlux(kd, wL, wR, n) ==
  KineticFlux(kd, LAMBDA i : Upwind(<< Velocity(kd, i - 1), 0, 0 >>, wL[i], wR[i], n))

\* The acceleration by the field e: the Galerkin term of each element of the
\* grid and the flux at the end the particles leave by, over the mass Md.
KineticMass(kd, i) ==
  Sum(0, kd.nb_elem_v - 1, LAMBDA iel :
    LET k == i - 1 - iel * kd.deg_v
    IN  IF k \in 0 .. kd.deg_v THEN kd.dv ** (Lobatto!wglop(kd.deg_v, k) // 180) ELSE 0)
Accelerated(kd, e, w, i) ==
  Sum(0, kd.nb_elem_v - 1, LAMBDA iel :
    LET iloc == i - 1 - iel * kd.deg_v
    IN  IF iloc \notin 0 .. kd.deg_v THEN 0
        ELSE Sum(0, kd.deg_v, LAMBDA kloc :
               (e ** w[1 + kloc + iel * kd.deg_v]) ** ((Lobatto!wglop(kd.deg_v, kloc) // 180)
                                                       ** Lobatto!dlag(kd.deg_v, iloc, kloc))))
EndFlux(kd, e, w, i) ==
  IF Positive(e) THEN IF i = kd.mv THEN -(e ** w[i]) ELSE 0
  ELSE IF i = 1 THEN e ** w[i] ELSE 0
VelocitySource(kd, e, w) ==
  KineticFlux(kd, LAMBDA i :
    (Accelerated(kd, e, w, i) + EndFlux(kd, e, w, i)) // KineticMass(kd, i))
GyroSource(kd, w)                == VelocitySource(kd, w[kd.index_ez], w)
VlasovP_Lagrangian_Source(kd, w) == VelocitySource(kd, w[kd.index_ex], w)

(***************************************************************************)
(* The SN model: directions v with their weights w, and for each axis the  *)
(* direction that is the mirror image of another (spec_tab).               *)
(***************************************************************************)
Directions(v, w) ==
  [nb_v |-> Len(v), v |-> v, w |-> w,
   spec_tab |-> Tuple(3, LAMBDA d : Tuple(Len(v), LAMBDA i :
                  CHOOSE k \in 1 .. Len(v) : v[k] = [v[i] EXCEPT ![d] = -@]))]
Repeated(n, x) == Tuple(n, LAMBDA i : x)
AxisDirections == << <<1,0,0>>, <<-1,0,0>>, <<0,1,0>>, <<0,-1,0>>, <<0,0,1>>, <<0,0,-1>> >>
\* In every octant, the last component changing sign first.
Octants(a, b, c) ==
  << <<a, b, c>>, <<a, b, -c>>, <<a, -b, c>>, <<a, -b, -c>>,
     <<-a, b, c>>, <<-a, b, -c>>, <<-a, -b, c>>, <<-a, -b, -c>> >>
EdgeDirections ==
  LET Quarter(k) == << <<1, 1>>, <<1, -1>>, <<-1, 1>>, <<-1, -1>> >>[k]
  IN  Tuple(4, LAMBDA k : <<0>> \o Quarter(k))
        \o Tuple(4, LAMBDA k : << Quarter(k)[1], 0, Quarter(k)[2] >>)
        \o Tuple(4, LAMBDA k : Quarter(k) \o <<0>>)
lebedev_6  == Directions(AxisDirections, Repeated(6, 1 // 6))
lebedev_14 == Directions(AxisDirections \o Octants(1, 1, 1),
                         Repeated(6, 1 // 15) \o Repeated(8, 3 // 40))
lebedev_26 == Directions(AxisDirections \o EdgeDirections \o Octants(1, 1, 1),
                         Repeated(6, 1 // 21) \o Repeated(12, 4 // 105) \o Repeated(8, 9 // 280))
lebedev_50 ==
  Directions(AxisDirections \o EdgeDirections \o Octants(1, 1, 1) \o Octants(1, 1, 3)
               \o Tuple(8, LAMBDA k : LET v == Octants(1, 1, 3)[k] IN << v[1], v[3], v[2] >>)
               \o Tuple(8, LAMBDA k : LET v == Octants(1, 1, 3)[k] IN << v[3], v[1], v[2] >>),
             Repeated(6, 4 // 315) \o Repeated(12, 64 // 2835) \o Repeated(8, 27 // 1280)
               \o Repeated(24, 14641 // 725760))

sn_upwind_numflux(sn, wL, wR, n)     == Carried(sn.v, wL, wR, n)
ocl_sin3d_upwind_numflux(wL, wR, n)  == Carried(<< <<1, 0, 0>> >>, wL, wR, n)
ocl_s6_upwind_numflux(wL, wR, n)     == Carried(lebedev_6.v, wL, wR, n)
ocl_s50_upwind_numflux(wL, wR, n)    == Carried(lebedev_50.v, wL, wR, n)
ocl_s6_upwind_numflux_unroll(wL, wR, n) ==
  << Upwind(<< 1, 0, 0 >>, wL[1], wR[1], n), Upwind(<< -1, 0, 0 >>, wL[2], wR[2], n),
     Upwind(<< 0, 1, 0 >>, wL[3], wR[3], n), Upwind(<< 0, -1, 0 >>, wL[4], wR[4], n),
     Upwind(<< 0, 0, 1 >>, wL[5], wR[5], n), Upwind(<< 0, 0, -1 >>, wL[6], wR[6], n) >>
\* The normal velocities written one by one, up to the norms of the directions.
ocl_s50_upwind_numflux_unroll(wL, wR, n) ==
  LET x == n[1]  y == n[2]  z == n[3]
      vn == << x, -x, y, -y, z, -z,
               y+z, y-z, -y+z, -y-z, x+z, x-z, -x+z, -x-z, x+y, x-y, -x+y, -x-y,
               x+y+z, x+y-z, x-y+z, x-y-z, -x+y+z, -x+y-z, -x-y+z, -x-y-z,
               x+y+3*z, x+y-3*z, x-y+3*z, x-y-3*z, -x+y+3*z, -x+y-3*z, -x-y+3*z, -x-y-3*z,
               x+3*y+z, x-3*y+z, x+3*y-z, x-3*y-z, -x+3*y+z, -x-3*y+z, -x+3*y-z, -x-3*y-z,
               3*x+y+z, -3*x+y+z, 3*x+y-z, -3*x+y-z, 3*x-y+z, -3*x-y+z, 3*x-y-z, -3*x-y-z >>
  IN  Tuple(50, LAMBDA i : Upwind(<< vn[i], 0, 0 >>, wL[i], wR[i], << 1, 0, 0 >>))

\* What leaves through a wall of normal n; a face along an axis sends it back
\* in the mirror direction, any face can send it back in all directions.
Leaves(sn, wL, n, i) == LET vn == Along(sn.v[i], n) IN IF Positive(vn) THEN vn ** wL[i] ELSE 0
flux_out(sn, wL, n)  == Sum(1, sn.nb_v, LAMBDA i : Leaves(sn, wL, n, i))
Axes(n) == {d \in 1..3 : n[d] # 0 /\ \A e \in 1..3 \ {d} : n[e] = 0}
Mirrored(sn, wL, n, i) ==
  LET d == CHOOSE a \in Axes(n) : TRUE
  IN  IF Axes(n) = {} \/ ~Negative(Along(sn.v[i], n)) THEN 0
      ELSE Leaves(sn, wL, n, sn.spec_tab[d][i])
\* The share of the direction i in what comes back: in proportion to its
\* normal velocity, or one over the weights of all those that do not leave,
\* the directions along the wall included.
ScalarProduct(sn, n, i) ==
  LET Inward(k) == IF Negative(Along(sn.v[k], n)) THEN -Along(sn.v[k], n) ELSE 0
  IN  Inward(i) // Sum(1, sn.nb_v, Inward)
OverWeights(sn, n, i, Weigh(_)) ==
  IF ~Negative(Along(sn.v[i], n)) THEN 0
  ELSE 1 // Sum(1, sn.nb_v, LAMBDA k : IF Positive(Along(sn.v[k], n)) THEN 0 ELSE Weigh(k))

sn_specular_boundary_flux(sn, wL, n) ==
  Tuple(sn.nb_v, LAMBDA i : Leaves(sn, wL, n, i) - Mirrored(sn, wL, n, i))
sn_diffusive_boundary_flux(sn, wL, n) ==
  Tuple(sn.nb_v, LAMBDA i : Leaves(sn, wL, n, i) - flux_out(sn, wL, n) ** ScalarProduct(sn, n, i))

absorb == 1 // 10
alpha  == 1 // 10
X_sn_mixed_boundary_flux(sn, wL, n) ==
  Tuple(sn.nb_v, LAMBDA i :
    Leaves(sn, wL, n, i) - ((1 - absorb) ** alpha) ** Mirrored(sn, wL, n, i)
      - (1 - absorb) ** (flux_out(sn, wL, n) ** ScalarProduct(sn, n, i)))
\* A tenth of what leaves comes back in all directions: the factor "absorb"
\* of the code is what is kept.
sn_diffusive_boundary_flux_scalar_product(sn, wL, n) ==
  Tuple(sn.nb_v, LAMBDA i :
    Leaves(sn, wL, n, i) - absorb ** (flux_out(sn, wL, n) ** ScalarProduct(sn, n, i)))
sn_diffusive_boundary_flux_equal(sn, wL, n) ==
  Tuple(sn.nb_v, LAMBDA i :
    Leaves(sn, wL, n, i) - flux_out(sn, wL, n) ** OverWeights(sn, n, i, LAMBDA k : 1))
sn_diffusive_boundary_flux_lebedev(sn, wL, n) ==
  Tuple(sn.nb_v, LAMBDA i :
    Leaves(sn, wL, n, i) - flux_out(sn, wL, n) ** OverWeights(sn, n, i, LAMBDA k : sn.w[k]))
\* A tenth in the mirror direction, the rest in all, a tenth of it all absorbed.
sn_mixed_boundary_flux(sn, wL, n) ==
  Tuple(sn.nb_v, LAMBDA i :
    Leaves(sn, wL, n, i) - ((1 - absorb) ** alpha) ** Mirrored(sn, wL, n, i)
      - ((1 - absorb) ** (1 - alpha)) ** (flux_out(sn, wL, n) ** ScalarProduct(sn, n, i)))
ocl_test_sn_mixed_boundary_flux(sn, wL, n) == sn_mixed_boundary_flux(sn, wL, n)

\* Density and intensity, over 4 pi.
sn_compute_macro(sn, w) ==
  [density   |-> Sum(1, sn.nb_v, LAMBDA i : w[i] ** sn.w[i]),
   intensity |-> Tuple(3, LAMBDA d : Sum(1, sn.nb_v, LAMBDA i :
                   (w[i] ** sn.w[i]) ** sn.v[i][d]))]

(***************************************************************************)
(* The lattice fluxes: all the nodes at once, or one of them.              *)
(***************************************************************************)
Lattice_NumFlux(wL, wR, n) ==
  Carried(Tuple(9, LAMBDA i : InSpace(LBM_D2Q9_nodes[i])), wL, wR, n) \o Zeros(6)
Lattice_OneNodeNumFlux(inode, wL, wR, n) == Carried(<< InSpace(LBM_D2Q9_nodes[inode]) >>, wL, wR, n)
LBM_OneLatticeNumFlux(lb, wL, wR, n) ==
  Carried(Tuple(lb.q, LAMBDA i : InSpace(lb.vi[i])), wL, wR, n)
LBM_OneLatticeNumFlux_SelectVel(lb, inode, wL, wR, n) ==
  Tuple(lb.q, LAMBDA i : IF i = inode THEN Upwind(InSpace(lb.vi[i]), wL[i], wR[i], n) ELSE 0)

-----------------------------------------------------------------------------
\* The vectors of a state, from its component k on.
Vector(w, k) == << w[k], w[k + 1], w[k + 2] >>
Cross(a, b)  == << (a[2] ** b[3] - a[3] ** b[2]) % P, (a[3] ** b[1] - a[1] ** b[3]) % P,
                   (a[1] ** b[2] - a[2] ** b[1]) % P >>
Means(wL, wR) == Tuple(Len(wL), LAMBDA i : Mean(wL[i], wR[i]))
Jumps(wL, wR) == Tuple(Len(wL), LAMBDA i : Jump(wL[i], wR[i]))
WithMeans(wL, wR, F(_, _)) ==
  Given(Means(wL, wR), LAMBDA s : Given(Jumps(wL, wR), LAMBDA d : F(s, d)))

(***************************************************************************)
(* Waves: a pressure and a velocity.                                       *)
(***************************************************************************)
SPEED_WAVE == 1
InPlane(w, n) == (w[2] ** n[1] + w[3] ** n[2]) % P

Wave_Centered_NumFlux(wL, wR, n) ==
  Given(Means(wL, wR), LAMBDA s :
    << SPEED_WAVE ** InPlane(s, n), SPEED_WAVE ** (s[1] ** n[1]), SPEED_WAVE ** (s[1] ** n[2]) >>)
Wave_Upwind_NumFlux(wL, wR, n) ==
  WithMeans(wL, wR, LAMBDA s, d :
    LET p == s[1] - InPlane(d, n)
    IN  << SPEED_WAVE ** (InPlane(s, n) - d[1]), SPEED_WAVE ** (p ** n[1]), SPEED_WAVE ** (p ** n[2]) >>)
Wave_Rusanov_NumFlux(wL, wR, n) ==
  Subtracted(Wave_Centered_NumFlux(wL, wR, n), Scaled(SPEED_WAVE, Jumps(wL, wR)))

(***************************************************************************)
(* Shallow water: height, momentum, bottom and its slopes.                 *)
(***************************************************************************)
GRAVITY == 1
Water(w) == [h |-> w[1], u |-> w[2] // w[1], v |-> w[3] // w[1], b |-> w[4],
             p |-> (GRAVITY // 2) ** (w[1] ** w[1]), c |-> Root(GRAVITY ** w[1])]
Normally(s, n) == (s.u ** n[1] + s.v ** n[2]) % P
Conserved(s)   == << s.h, s.h ** s.u, s.h ** s.v >>
WaterFlux(s, n) ==
  << s.h ** Normally(s, n), (s.h ** s.u) ** Normally(s, n) + s.p ** n[1],
     (s.h ** s.v) ** Normally(s, n) + s.p ** n[2] >>
WaterJump(sL, sR) == Subtracted(Conserved(sR), Conserved(sL))
Waters(wL, wR, F(_, _)) ==
  Given(Water(wL), LAMBDA sL : Given(Water(wR), LAMBDA sR : F(sL, sR)))
\* The bottom does not move.
WithBottom(flux)  == flux \o << 0, 0, 0 >>
HalfOf(flux)      == Scaled(1 // 2, flux)

ShallowWater_Rusanov_NumFlux(wL, wR, n) ==
  Waters(wL, wR, LAMBDA sL, sR :
    LET S == Larger(Absolute(Normally(sR, n)) + sR.c, Absolute(Normally(sL, n)) + sL.c)
        centered_flux == Added(WaterFlux(sL, n), WaterFlux(sR, n))
    IN  WithBottom(HalfOf(Subtracted(centered_flux, Scaled(S, WaterJump(sL, sR))))))

Speeds(sL, sR, n) ==
  LET qn    == (Normally(sL, n) + Normally(sR, n)) // 2 + sL.c - sR.c
      cstar == (sL.c + sR.c) // 2 + (Normally(sL, n) - Normally(sR, n)) // 4
  IN  [L |-> Smaller(Normally(sL, n) - sL.c, qn - cstar),
       R |-> Larger(Normally(sR, n) + sR.c, qn + cstar)]
HLL(S, fluxL, fluxR, jump) ==
  WithBottom(Scaled(1 // (S.R - S.L),
    Added(Subtracted(Scaled(S.R, fluxL), Scaled(S.L, fluxR)), Scaled(S.L ** S.R, jump))))
ShallowWater_HLL_NumFlux(wL, wR, n) ==
  Waters(wL, wR, LAMBDA sL, sR : Given(Speeds(sL, sR, n), LAMBDA S :
    HLL(S, WaterFlux(sL, n), WaterFlux(sR, n), WaterJump(sL, sR))))

\* With the slope of the bottom in the flux; the squares of the velocity of the
\* right side enter without its height, in both directions.
ShallowWater_HLLWB_NumFlux(wL, wR, n) ==
  Waters(wL, wR, LAMBDA sL, sR : Given(Speeds(sL, sR, n), LAMBDA S :
    LET slope == sR.p + (GRAVITY // 2) ** ((sL.h + sR.h) ** (sR.b - sL.b))
        fluxR == << sR.h ** Normally(sR, n),
                    (sR.u ** sR.u + slope) ** n[1] + (sR.h ** sR.u) ** (sR.v ** n[2]),
                    (sR.h ** sR.u) ** (sR.v ** n[1]) + (sR.v ** sR.v + slope) ** n[2] >>
    IN  HLL(S, WaterFlux(sL, n), fluxR, Added(WaterJump(sL, sR), << sR.b - sL.b, 0, 0 >>))))

\* The amplitudes of the two gravity waves are attached to each other's speed.
RoeState(sL, sR) ==
  LET roe(a, b) == (b ** sR.c + a ** sL.c) // (sR.c + sL.c)
  IN  [u |-> roe(sL.u, sR.u), v |-> roe(sL.v, sR.v), c |-> Root((GRAVITY // 2) ** (sR.h + sL.h))]
RoeViscosity(ti, d, n) ==
  Given(Normally(ti, n), LAMBDA a2 :
    LET c   == ti.c
        e1  == << 1, ti.u + c ** n[1], ti.v + c ** n[2] >>
        e2  == << 0, -(c ** n[2]), c ** n[1] >>
        e3  == << 1, ti.u - c ** n[1], ti.v - c ** n[2] >>
        \* The jump of the normal momentum, in the moving frame.
        dq  == (InPlane(d, n) - a2 ** d[1]) // (2 * c)
        alpha1 == d[1] // 2 - dq
        alpha3 == d[1] // 2 + dq
        alpha2 == ((d[3] - ti.v ** d[1]) ** n[1] - (d[2] - ti.u ** d[1]) ** n[2]) // c
    IN  Added(Scaled(alpha1 ** Absolute(a2 + c), e1),
          Added(Scaled(alpha2 ** Absolute(a2), e2), Scaled(alpha3 ** Absolute(a2 - c), e3))))
ShallowWater_Roe_NumFlux(wL, wR, n) ==
  Waters(wL, wR, LAMBDA sL, sR :
    LET viscosity == Given(RoeState(sL, sR), LAMBDA ti :
                       Given(WaterJump(sL, sR), LAMBDA d : RoeViscosity(ti, d, n)))
        centered_flux == Added(WaterFlux(sL, n), WaterFlux(sR, n))
    IN  WithBottom(HalfOf(Subtracted(centered_flux, viscosity))))

(***************************************************************************)
(* Maxwell in the plane: Ex, Ey, Hz, the multiplier and three sources.     *)
(***************************************************************************)
khi == 1
Across(w, n) == (w[2] ** n[1] - w[1] ** n[2]) % P
Maxwell2DPhysical(s, n) ==
  << khi ** (n[1] ** s[4]) - n[2] ** s[3], n[1] ** s[3] + khi ** (n[2] ** s[4]), Across(s, n),
     khi ** (n[1] ** s[1] + n[2] ** s[2]), 0, 0, 0 >>
Maxwell2DNumFlux_centered(wL, wR, n) ==
  Given(Means(wL, wR), LAMBDA s : Maxwell2DPhysical(s, n))
Maxwell2DNumFlux_upwind(wL, wR, n) ==
  WithMeans(wL, wR, LAMBDA s, d : Given(Norm(n), LAMBDA r :
    LET nxy == (n[1] ** n[2]) ** (khi - 1)
    IN  Subtracted(Maxwell2DPhysical(s, n),
          << (d[1] ** (n[2] ** n[2] + khi ** (n[1] ** n[1])) + d[2] ** nxy) // r,
             (nxy ** d[1] + (n[1] ** n[1] + khi ** (n[2] ** n[2])) ** d[2]) // r,
             r ** d[3], khi ** (r ** d[4]), 0, 0, 0 >>)))
\* With a parameter eps between the centered and the upwind flux.
eps == 1
Maxwell2DNumFlux_unoptimised(wL, wR, n) ==
  WithMeans(wL, wR, LAMBDA s, d : Given(Norm(n), LAMBDA r :
    LET nxy == (n[1] ** n[2]) ** (khi - 1)
    IN  << khi ** (n[1] ** s[4]) - n[2] ** s[3]
             - eps ** (((n[2] ** n[2] + khi ** (n[1] ** n[1])) ** d[1] + nxy ** d[2]) // r),
           n[1] ** s[3] + khi ** (n[2] ** s[4])
             - eps ** ((nxy ** d[1] + (n[1] ** n[1] + khi ** (n[2] ** n[2])) ** d[2]) // r),
           Across(s, n) - eps ** (r ** d[3]),
           khi ** (n[1] ** s[1]) + khi ** (n[2] ** s[2]) - (eps ** khi) ** (r ** d[4]), 0, 0, 0 >>))

(***************************************************************************)
(* Maxwell in space: E, H and, in the models that clean the divergence, a  *)
(* multiplier for each.                                                    *)
(***************************************************************************)
E(w) == Vector(w, 1)
H(w) == Vector(w, 4)
\* n x (n x [[E]]) / r
Decentred(n, d) == Scaled(1 // Norm(n), Cross(n, Cross(n, d)))
Maxwell3DNumFlux_upwind(wL, wR, n) ==
  WithMeans(wL, wR, LAMBDA s, d :
    Subtracted(Decentred(n, E(d)), Cross(n, H(s))) \o Added(Decentred(n, H(d)), Cross(n, E(s))))

c1 == 1 // 10
c2 == 1 // 10
Maxwell3DNumFluxClean_upwind(wL, wR, n) ==
  WithMeans(wL, wR, LAMBDA s, d :
    LET Ec == c1 ** (Along(n, E(d)) + s[7])
        Hc == c2 ** (Along(n, H(d)) + s[8])
    IN  Added(Maxwell3DNumFlux_upwind(wL, wR, n), Scaled(Ec, n) \o Scaled(Hc, n))
          \o << c1 ** (Along(n, E(s)) + Norm(n) ** d[7]), c2 ** (Along(n, H(s)) + Norm(n) ** d[8]) >>)

MapleSpeed == 11 // 10
Maxwell3DNumFluxClean_Maple(wL, wR, n) ==
  WithMeans(wL, wR, LAMBDA s, d :
    LET c == MapleSpeed
        Damped(x) == Scaled(1 // Norm(n),
                            Added(Scaled(Along(n, n), x), Scaled((c - 1) ** Along(n, x), n)))
        Cleaned(k) == Scaled(c ** s[k], n)
    IN  Subtracted(Subtracted(Cleaned(7), Cross(n, H(s))), Damped(E(d)))
          \o Subtracted(Added(Cleaned(8), Cross(n, E(s))), Damped(H(d)))
          \o << c ** (Along(n, E(s)) - Norm(n) ** d[7]), c ** (Along(n, H(s)) - Norm(n) ** d[8]) >>)

(***************************************************************************)
(* Magneto-hydrodynamics: density, x momentum, energy, y and z momenta,    *)
(* By, Bz, Bx and the multiplier psi, whose speed is CH.                   *)
(***************************************************************************)
gam == 5 // 3
CH  == 6
Magnetic(w)  == << w[8], w[6], w[7] >>
Speed(y)     == << y[2], y[4], y[5] >>
MHD(rho, m, e, b, psi) == << rho, m[1], e, m[2], m[3], b[2], b[3], b[1], psi >>
Square(v)    == Along(v, v)

conservatives(y) ==
  MHD(y[1], Scaled(y[1], Speed(y)),
      y[3] // (gam - 1) + (y[1] ** Square(Speed(y)) + Square(Magnetic(y))) // 2,
      Magnetic(y), y[9])
primitives(w) ==
  Given(Scaled(1 // w[1], Speed(w)), LAMBDA u :
    MHD(w[1], u, (gam - 1) ** (w[3] - (w[1] ** Square(u) + Square(Magnetic(w))) // 2),
        Magnetic(w), w[9]))

fluxnum(w, n) ==
  Given(primitives(w), LAMBDA y :
    LET u  == Speed(y)
        b  == Magnetic(w)
        un == Along(u, n)
        bn == Along(b, n)
        q  == y[3] + Square(b) // 2
    IN  MHD(w[1] ** un,
            Subtracted(Added(Scaled(w[1] ** un, u), Scaled(q, n)), Scaled(bn, b)),
            (w[3] + q) ** un - Along(b, u) ** bn,
            Added(Subtracted(Scaled(un, b), Scaled(bn, u)), Scaled(w[9], n)),
            (CH * CH) ** bn))

\* The matrix of the quasilinear form at the primitive state y, over CH, times d.
jacobmhd(y, n, d) ==
  LET rho == y[1]
      u   == Speed(y)
      b   == Magnetic(y)
      un  == Along(u, n)
      bn  == Along(b, n)
      du  == Speed(d)
      db  == Magnetic(d)
      Push == Subtracted(Subtracted(Scaled(d[3] + Along(b, db), n), Scaled(Along(n, db), b)),
                         Scaled(bn, db))
      Induced == Subtracted(Subtracted(Scaled(Along(n, du), b), Scaled(bn, du)),
                            Scaled(Along(n, db), u))
  IN  Scaled(1 // CH,
        MHD(un ** d[1] + rho ** Along(n, du),
            Added(Scaled(un, du), Scaled(1 // rho, Push)),
            (gam ** y[3]) ** Along(n, du) + un ** d[3]
              + (gam - 1) ** (Along(u, b) ** Along(n, db) - bn ** d[9]),
            Added(Added(Induced, Scaled(un, db)), Scaled(d[9], n)),
            (CH * CH) ** Along(n, db)))

Centred(wL, wR, n) == HalfOf(Added(fluxnum(wL, n), fluxnum(wR, n)))
MHDNumFluxRusanov(wL, wR, n) ==
  Subtracted(Centred(wL, wR, n), Scaled(CH, Jumps(wL, wR)))

coef == << 1 // 2, 0, 1 // 2 >>
\* Horner's rule for a polynomial in the matrix, applied to d.
dabs(y, n, d) ==
  Given(jacobmhd(y, n, Scaled(coef[3], d)), LAMBDA d2 :
    Given(Added(Scaled(coef[2], d), d2), LAMBDA d1 : Added(Scaled(coef[1], d), jacobmhd(y, n, d1))))
X_MHDNumFluxP2(wL, wR, n) ==
  Given(primitives(wL), LAMBDA y : Given(Subtracted(wR, wL), LAMBDA wRmwL :
    Subtracted(Centred(wL, wR, n), Scaled(CH // 2, dabs(y, n, wRmwL)))))
MHDNumFluxP2(wL, wR, n) ==
  Given(primitives(Means(wL, wR)), LAMBDA y : Given(Subtracted(wR, wL), LAMBDA wRmwL :
    Subtracted(Centred(wL, wR, n), Scaled(CH // 2, dabs(y, n, wRmwL)))))

-----------------------------------------------------------------------------
(* The faces of one element.                                               *)

CONSTANT Problems

VARIABLES
  model,    \* the model of the simulation
  wL, wR,   \* the states on the two sides of the faces
  cell,     \* the normals of the faces of a closed element
  ifa       \* the face at hand
vars == << model, wL, wR, cell, ifa >>

\* The velocity grids and the directions of the simulations.
kd2 == InitKineticData(2, 2)
kd3 == InitKineticData(3, 1)
schnaps_acoustic_data ==
  CASE Len(wL) = 14 -> lebedev_14 [] Len(wL) = 26 -> lebedev_26 [] Len(wL) = 50 -> lebedev_50

\* The flux a simulation is given.
NumFlux(L, R, n) ==
  CASE model = "TransNumFlux2d"         -> TransNumFlux2d(L, R, n)
    [] model = "VecTransNumFlux2d"      -> VecTransNumFlux2d(L, R, n)
    [] model = "vlaTransNumFlux2d"      -> vlaTransNumFlux2d(3, 2, 4, L, R, n)
    [] model = "GyroCenteredNumFlux"    -> GyroCenteredNumFlux(kd2, L, R, n)
    [] model = "GyroUpwindNumFlux"      -> GyroUpwindNumFlux(kd2, L, R, n)
    [] model = "GC_OCLUpwindNumFlux"    -> GC_OCLUpwindNumFlux(kd2, L, R, n)
    [] model = "GyroZeroNumFlux"        -> GyroZeroNumFlux(kd2, L, R, n)
    [] model = "VlasovP_Lagrangian_NumFlux" -> VlasovP_Lagrangian_NumFlux(kd3, L, R, n)
    [] model = "sn_upwind_numflux"      -> sn_upwind_numflux(schnaps_acoustic_data, L, R, n)
    [] model = "ocl_sin3d_upwind_numflux" -> ocl_sin3d_upwind_numflux(L, R, n)
    [] model = "ocl_s6_upwind_numflux"  -> ocl_s6_upwind_numflux(L, R, n)
    [] model = "ocl_s50_upwind_numflux" -> ocl_s50_upwind_numflux(L, R, n)
    [] model = "Lattice_NumFlux"        -> Lattice_NumFlux(L, R, n)
    [] model = "Lattice_OneNodeNumFlux" -> Lattice_OneNodeNumFlux(6, L, R, n)
    [] model = "LBM_OneLatticeNumFlux"  -> LBM_OneLatticeNumFlux(LBM_Set_D2Q9_ISOTH_model, L, R, n)
    [] model = "LBM_OneLatticeNumFlux_SelectVel" ->
         LBM_OneLatticeNumFlux_SelectVel(LBM_Set_D2Q9_ISOTH_model, 8, L, R, n)
    [] model = "Wave_Centered_NumFlux"  -> Wave_Centered_NumFlux(L, R, n)
    [] model = "Wave_Upwind_NumFlux"    -> Wave_Upwind_NumFlux(L, R, n)
    [] model = "Wave_Rusanov_NumFlux"   -> Wave_Rusanov_NumFlux(L, R, n)
    [] model = "ShallowWater_Rusanov_NumFlux" -> ShallowWater_Rusanov_NumFlux(L, R, n)
    [] model = "ShallowWater_HLL_NumFlux"   -> ShallowWater_HLL_NumFlux(L, R, n)
    [] model = "ShallowWater_Roe_NumFlux"   -> ShallowWater_Roe_NumFlux(L, R, n)
    [] model = "Maxwell2DNumFlux_centered"  -> Maxwell2DNumFlux_centered(L, R, n)
    [] model = "Maxwell2DNumFlux_upwind"    -> Maxwell2DNumFlux_upwind(L, R, n)
    [] model = "Maxwell3DNumFlux_upwind"    -> Maxwell3DNumFlux_upwind(L, R, n)
    [] model = "Maxwell3DNumFluxClean_upwind" -> Maxwell3DNumFluxClean_upwind(L, R, n)
    [] model = "Maxwell3DNumFluxClean_Maple"  -> Maxwell3DNumFluxClean_Maple(L, R, n)
    [] model = "MHDNumFluxRusanov"      -> MHDNumFluxRusanov(L, R, n)
    [] model = "MHDNumFluxP2"           -> MHDNumFluxP2(L, R, n)

StartOf(p) == model = p.model /\ wL = p.wL /\ wR = p.wR /\ cell = p.cell /\ ifa = 1
Init == \E p \in Problems : StartOf(p)

\* The mesh has the element on the other side of its faces.
TurnFaces ==
  /\ wL' = wR /\ wR' = wL
  /\ cell' = [i \in DOMAIN cell |-> Opposite(cell[i])]
  /\ UNCHANGED << model, ifa >>
NextFace ==
  /\ ifa < Len(cell)
  /\ ifa' = ifa + 1
  /\ UNCHANGED << model, wL, wR, cell >>
Next == TurnFaces \/ NextFace
Spec == Init /\ [][Next]_vars

(***************************************************************************)
(* Between elements.                                                       *)
(***************************************************************************)
Null(flux) == \A f \in {flux} : \A i \in DOMAIN f : f[i] % P = 0

\* The two ways to orient a face give opposite fluxes.
SidesAgree(n) == Null(Added(NumFlux(wL, wR, n), NumFlux(wR, wL, Opposite(n))))
\* A uniform state does not change: its fluxes through the faces of an
\* element cancel.
FreeStream(w) ==
  \A flux \in {Tuple(Len(cell), LAMBDA i : NumFlux(w, w, cell[i]))} :
    \A j \in DOMAIN flux[1] : Sum(1, Len(cell), LAMBDA i : flux[i][j]) % P = 0
\* Where the code has several versions of a flux they compute the same; the
\* HLL flux with a bottom is the one without when the bottom is flat and the
\* water on the right has a unit height.
Same(f, g) == Null(Subtracted(f, g))
VariantsAgree(n) ==
  /\ model = "ocl_s6_upwind_numflux" =>
       Same(NumFlux(wL, wR, n), ocl_s6_upwind_numflux_unroll(wL, wR, n))
  /\ model = "ocl_s50_upwind_numflux" =>
       Same(NumFlux(wL, wR, n), ocl_s50_upwind_numflux_unroll(wL, wR, n))
  /\ model = "Maxwell2DNumFlux_upwind" =>
       Same(NumFlux(wL, wR, n), Maxwell2DNumFlux_unoptimised(wL, wR, n))
  /\ (model = "ShallowWater_HLL_NumFlux" /\ wR[1] = 1) =>
       Same(NumFlux(wL, wR, n), ShallowWater_HLLWB_NumFlux(wL, wR, n))
  /\ model \in {"MHDNumFluxRusanov", "MHDNumFluxP2"} => Same(conservatives(primitives(wL)), wL)

\* Whichever way the mesh orients its faces, what an element loses the other
\* one gains; an element in a uniform flow neither gains nor loses; and the
\* versions of a flux agree.  (maxwell.c, mhd.c, waterwave2d.c, model.c,
\* gyro.c, acoustic.c, called by the kernels for one orientation only.)
FacesBalance ==
  /\ SidesAgree(cell[ifa])
  /\ FreeStream(wL)
  /\ VariantsAgree(cell[ifa])

(***************************************************************************)
(* At the boundaries.                                                      *)
(***************************************************************************)
Total(flux) == Sum(1, Len(flux), LAMBDA i : flux[i])
\* A mirror returns all the energy and, along an axis, the momentum along it.
MirrorBalance(sn, n) ==
  Axes(n) # {} =>
    LET loss == sn_compute_macro(sn, sn_specular_boundary_flux(sn, wL, n))
    IN  loss.density = 0 /\ \A d \in 1..3 \ Axes(n) : loss.intensity[d] = 0
DiffuseBalance(sn, n) ==
  /\ Total(sn_diffusive_boundary_flux(sn, wL, n)) = 0
  /\ Total(sn_diffusive_boundary_flux_scalar_product(sn, wL, n))
       = (1 - absorb) ** flux_out(sn, wL, n)
  /\ Axes(n) # {} => Total(sn_mixed_boundary_flux(sn, wL, n)) = absorb ** flux_out(sn, wL, n)
\* An acceleration moves the distribution along the velocity grid: what it
\* loses is what passes the end of the grid.
AccelerationBalance(kd, e, source) ==
  Sum(1, kd.mv, LAMBDA i : KineticMass(kd, i) ** source[i])
    = (IF Positive(e) THEN -(e ** wL[kd.mv]) ELSE e ** wL[1]) % P

\* At the ends of space and of the velocity grid, what is lost is what the
\* boundary absorbs: the walls of the SN model return all of the outgoing
\* flux or a tenth, or all but a tenth of it, and the electric force only
\* loses particles at the largest velocities.  (acoustic.c:1198-1555,
\* gyro.c:421-469, collision.c:42-95)
BoundariesBalance ==
  /\ model = "sn_upwind_numflux" =>
       \A sn \in {schnaps_acoustic_data} :
         MirrorBalance(sn, cell[ifa]) /\ DiffuseBalance(sn, cell[ifa])
  /\ model = "GyroUpwindNumFlux" => AccelerationBalance(kd2, wL[kd2.index_ez], GyroSource(kd2, wL))
  /\ model = "VlasovP_Lagrangian_NumFlux" =>
       AccelerationBalance(kd3, wL[kd3.index_ex], VlasovP_Lagrangian_Source(kd3, wL))
=============================================================================
