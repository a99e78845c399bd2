------------------------------ MODULE Codelets ------------------------------
(***************************************************************************)
(* The StarPU codelets of SCHNAPS.  A codelet declares, buffer by buffer,  *)
(* the access mode the runtime orders its tasks by; its C kernel does      *)
(* something to each buffer.  The two are written next to each other in    *)
(* the source and nothing compares them: a kernel that writes a buffer     *)
(* declared STARPU_R compiles, runs, and is wrong only in some schedules.  *)
(*                                                                         *)
(* mode: "R", "W", "RW", "RWC" (STARPU_RW|STARPU_COMMUTE).                 *)
(* eff : what the kernel does to the buffer:                               *)
(*       "read" reads it; "set" overwrites all of it whatever it held;     *)
(*       "add" adds a term that does not depend on it; "upd" replaces it   *)
(*       by a function of what it held.                                    *)
(* Buffers that are written before the first task and declared STARPU_R by *)
(* every codelet (vol_index, vnds, xpg, wpg of a face; vkgs, vkgd, vkgi,   *)
(* kld of a factorised matrix) order nothing and are left out.             *)
(***************************************************************************)
EXTENDS Integers, Sequences

Buf(mode, eff) == [mode |-> mode, eff |-> eff]

\* Explicit scheme (simulation_spu.c, interface.c).
\* Mutated forms: the alternative modes left in comments in the source, and
\* buffers declared read-only that the kernel writes.
ZeroBuffer_codelet_Commute     == << Buf("RWC", "set") >>
AddBuffer_codelet_ReadOnly     == << Buf("R", "read"), Buf("R", "add") >>
ExtractInterface_codelet_NoDep == << Buf("R", "set"), Buf("R", "read") >>

ZeroBuffer_codelet         == << Buf("RW", "set") >>
AddBuffer_codelet          == << Buf("R", "read"), Buf("RWC", "add") >>
DGInitField_codelet        == << Buf("W", "set") >>
DGSubCellInterface_codelet == << Buf("R", "read"), Buf("RWC", "add") >>
DGVolume_codelet           == << Buf("R", "read"), Buf("RW", "add") >>
DGAverage_codelet          == << Buf("RW", "upd") >>
DGSource_codelet           == << Buf("R", "read"), Buf("RWC", "add") >>
\* dtw := res / mass - dtw / 2: an update that does not commute with itself.
DGMass_codelet             == << Buf("R", "read"), Buf("RWC", "upd") >>
\* wn_in, wn_ext, res
DGMacroCellInterface_codelet    == << Buf("R", "read"), Buf("R", "read"),
                                      Buf("RW", "add") >>
\* wn, res
DGMacroCellBoundaryFlux_codelet == << Buf("R", "read"), Buf("RW", "add") >>
\* wface, wvol
ExtractInterface_codelet        == << Buf("W", "set"), Buf("R", "read") >>

\* Implicit schemes (interface.c, implicit.c, skyline_spu.c).
InterfaceExplicitFlux_codelet == << Buf("R", "read"), Buf("RW", "add") >>
InterfaceBoundaryFlux_codelet == << Buf("RW", "add") >>
SourceLocalAssembly_codelet   == << Buf("RW", "add") >>
\* sol, rhs
\* Mutated forms: the right-hand side is not zeroed before the product; the
\* solution is declared read-only.
MatVectSkyline_codelet_NoZero == << Buf("R", "read"), Buf("RW", "add") >>
SolveSkyline_codelet_ReadOnly == << Buf("R", "set"), Buf("R", "read") >>
MatVectSkyline_codelet        == << Buf("R", "read"), Buf("W", "set") >>
SolveSkyline_codelet          == << Buf("W", "set"), Buf("R", "read") >>

Codelet ==
  [ ZeroBuffer              |-> ZeroBuffer_codelet,
    AddBuffer               |-> AddBuffer_codelet,
    DGInitField             |-> DGInitField_codelet,
    DGSubCellInterface      |-> DGSubCellInterface_codelet,
    DGVolume                |-> DGVolume_codelet,
    DGAverage               |-> DGAverage_codelet,
    DGSource                |-> DGSource_codelet,
    DGMass                  |-> DGMass_codelet,
    DGMacroCellInterface    |-> DGMacroCellInterface_codelet,
    DGMacroCellBoundaryFlux |-> DGMacroCellBoundaryFlux_codelet,
    ExtractInterface        |-> ExtractInterface_codelet,
    InterfaceExplicitFlux   |-> InterfaceExplicitFlux_codelet,
    InterfaceBoundaryFlux   |-> InterfaceBoundaryFlux_codelet,
    SourceLocalAssembly     |-> SourceLocalAssembly_codelet,
    MatVectSkyline          |-> MatVectSkyline_codelet,
    SolveSkyline            |-> SolveSkyline_codelet ]

CodeletName ==
  { "ZeroBuffer", "AddBuffer", "DGInitField", "DGSubCellInterface", "DGVolume",
    "DGAverage", "DGSource", "DGMass", "DGMacroCellInterface",
    "DGMacroCellBoundaryFlux", "ExtractInterface", "InterfaceExplicitFlux",
    "InterfaceBoundaryFlux", "SourceLocalAssembly", "MatVectSkyline",
    "SolveSkyline" }

-----------------------------------------------------------------------------
\* A declared mode covers what the kernel does: a buffer that is written is
\* declared so, a write-only buffer is overwritten whole, and a buffer that is
\* overwritten is not offered to commuting tasks.
Covers(b) ==
  /\ b.mode = "R" => b.eff = "read"
  /\ b.mode = "W" => b.eff = "set"
  /\ b.mode = "RWC" => b.eff # "set"

\* The condition on the tables that every ordering result rests on, for every
\* codelet the repository submits.
ModesCoverKernels ==
  \A c \in CodeletName : \A k \in DOMAIN Codelet[c] : Covers(Codelet[c][k])
=============================================================================
