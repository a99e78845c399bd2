-------------------------- MODULE MCDeviceKernels --------------------------
(* A unit cube that is its own neighbour in the first direction and has a   *)
(* wall in the second one.  Each element with its buffers is a definition,  *)
(* which TLC evaluates once.                                                *)
EXTENDS DeviceKernels, TLC

Cell(deg, raf) == File(OneCell, << Id >>, {}, << Unit, -1, -1 >>, "3D", deg, raf)
Across == [L |-> 0, lfL |-> 1, R |-> 0, lfR |-> 3]
Wall   == [L |-> 0, lfL |-> 2, R |-> -1, lfR |-> -1]
Advection(m) ==
  [kind |-> "linear", upwind |-> 11,
   flux |-> IF m = 1 THEN << << <<6>> >>, << <<10>> >>, << <<-4>> >> >>
            ELSE << << <<2, 7>>, <<7, -4>> >>, << <<0, 3>>, <<3, 1>> >>, << <<5, 0>>, <<0, 2>> >> >>,
   data |-> Tuple(m, LAMBDA i : << 5, 3, 7 >>), source |-> Tuple(m, LAMBDA i : << 2, 1, 9 >>)]

Values(s, c) == Tuple(Wsize(s), LAMBDA i : c + ((i * i * 17) % 91))
Filled(s) == [s |-> s, w |-> Values(s, 3), res |-> Values(s, 40)]
Element(deg, raf, m) == Filled(Simulation(Cell(deg, raf), << Across, Wall >>, m, Advection(m)))
Trace(e, k, side) == ExtractInterface(e.s, e.s.inter[k], side, e.w)
Segment == Element(<< 1, 0, 0 >>, << 2, 1, 1 >>, 1)
System  == Element(<< 1, 0, 0 >>, << 1, 1, 1 >>, 2)
Whole   == Element(<< 1, 1, 0 >>, << 1, 1, 1 >>, 1)
InTwo   == Element(<< 1, 1, 0 >>, << 2, 1, 1 >>, 2)
InFour  == Element(<< 1, 1, 0 >>, << 2, 2, 1 >>, 1)

Alone(e) ==
  << ZeroBuffer_OCL(e.s, e.w), AddBuffer_OCL(e.s, 3, e.w, e.res), DGMass_OCL(e.s, e.res, e.w),
     DGMassThenSource_CL(e.s, e.w, e.res, 5) >>
OnFaces(e) ==
  << DGMacroCellInterface_OCL(e.s, e.s.inter[1], 0, Trace(e, 1, 0), Trace(e, 1, 1), e.res),
     DGMacroCellInterface_OCL(e.s, e.s.inter[1], 1, Trace(e, 1, 1), Trace(e, 1, 0), e.res),
     DGMacroCellBoundaryFlux_OCL(e.s, e.s.inter[2], Trace(e, 2, 0), e.res, 5),
     ExtractInterface_OCL(e.s, e.s.inter[1], 1, e.w, FlattenSeq(Trace(e, 1, 0))),
     DGMacroCellInterface_CL(e.s, e.s.inter[1], e.w, e.res),
     DGBoundary_CL(e.s, e.s.inter[2], e.w, e.res, 5) >>
OnSubcells(e) ==
  << DGSubCellInterface_OCL(e.s, e.w, e.res, TRUE), DGSubCellInterface_OCL(e.s, e.w, e.res, FALSE),
     DGSubCellInterface3D_OCL(e.s, e.w, e.res) >>
OnVolume(e) == << DGVolume_OCL(e.s, e.w, e.res, TRUE), DGVolume3D_OCL(e.s, e.w, e.res) >>

MCTasks ==
  LET alone    == Alone(Whole) \o OnFaces(InTwo)
      subcells == OnSubcells(InTwo) \o OnSubcells(InFour)
      volumes  == OnVolume(Segment) \o OnVolume(System) \o OnVolume(Whole)
  IN  alone \o subcells \o volumes

\* The volume term as the kernel is built when no option defines _CACHEMEMORY
\* (field.cl:12), and the source of an element of two subcells.
MCDefaultVolume == << DGVolume_OCL(Segment.s, Segment.w, Segment.res, FALSE) >>
MCSubcellSource == << DGMassThenSource_CL(Segment.s, Segment.w, Segment.res, 5) >>
=============================================================================
