----------------------------- MODULE TpcReadout -----------------------------
(***************************************************************************)
(* The readout of the TPC as TpcSegmentAlg sees it: the sensitive surfaces *)
(* (PCBs) of a drift volume, and the cells an electron arriving at a place *)
(* is collected in.  Geometry is data here: which places a PCB covers and  *)
(* which bin and layer a segmentation gives a place are constants.  The    *)
(* new field of the cellID is "layer", the default of newField.            *)
(***************************************************************************)
EXTENDS Integers, FiniteSets

CONSTANTS
  Volumes,     \* volumeIDs carried by the drifted electrons
  Surfaces,    \* sensitive surfaces
  PcbsOf,      \* volume -> its surfaces, GeoSvc::getSensitiveSurfList
  Covers,      \* surface -> the places inside its bounds
  PcbId,       \* surface -> ISurface::id()
  Bin,         \* <<surface, place, field>> -> bin of the segmentation
  Layer,       \* <<surface, place>> -> layer of the diagonal strip there
  BinRange,    \* the bins that fit the field of the cellID
  Places,      \* positions on the anode (one coordinate)
  EDeps,       \* energies of an electron
  Times        \* arrival times

\* The value the new field of the cellID has when it is not set.
NoField == 0
Layers  == {0, 1}
SegTypes == {"CartesianGridXY", "MultiSegmentation", "DiagonalStrip"}
Fields  == {NoField} \cup Layers \cup {PcbId[s] : s \in Surfaces}

ASSUME PcbsOfAssumption ==
  /\ PcbsOf \in [Volumes -> SUBSET Surfaces]
  /\ \A v \in Volumes : IsFiniteSet(PcbsOf[v])
ASSUME CoversAssumption == Covers \in [Surfaces -> SUBSET Places]
\* "A index from 0 is assigned to each PCB" (Tpc_OneSide_geo.cpp:263-271).
ASSUME PcbIdAssumption ==
  /\ PcbId \in [Surfaces -> Nat]
  /\ \A v \in Volumes : \A s, t \in PcbsOf[v] : PcbId[s] = PcbId[t] => s = t
ASSUME BinAssumption ==
  Bin \in [Surfaces \X Places \X Fields -> Int] /\ BinRange \subseteq Int
ASSUME LayerAssumption == Layer \in [Surfaces \X Places -> Layers]
\* TpcDriftAlg creates no electron without energy.
ASSUME ElectronDataAssumption ==
  Places \subseteq Int /\ EDeps \subseteq Nat \ {0} /\ Times \subseteq Int

Electrons == [vol : Volumes, place : Places, edep : EDeps, time : Times]
Cells     == Volumes \X Fields \X Int

Pcbs(h) == PcbsOf[h.vol]

\* Segmentation::cellID keeps the field set before the call; a diagonal
\* strip sets the layer of the place, in the field of that name.
FieldKept(type, s, field, h) == IF type = "DiagonalStrip" THEN Layer[<<s, h.place>>] ELSE field

\* The cell of add_hit called for surface a[1] with the field set to a[2].
CellOf(type, a, h) ==
  LET field == FieldKept(type, a[1], a[2], h)
  IN  <<h.vol, field, Bin[<<a[1], h.place, field>>]>>

\* Bug: the strip readout fills the X layer only.
XLayerOnly(type, h) ==
  IF type = "MultiSegmentation" THEN Pcbs(h) \X {0}
  ELSE {<<s, NoField>> : s \in Pcbs(h)}

\* Bug: the PCB of a multi-PCB readout is not written into the cellID.
PcbFieldForgotten(type, h) ==
  IF type = "MultiSegmentation" THEN Pcbs(h) \X Layers
  ELSE {<<s, NoField>> : s \in Pcbs(h)}

\* The calls of add_hit for one electron: both layers of a strip PCB; a
\* single PCB; every PCB whose bounds the place is in.
Calls(type, h) ==
  IF type = "MultiSegmentation" THEN Pcbs(h) \X Layers
  ELSE IF Cardinality(Pcbs(h)) = 1 THEN Pcbs(h) \X {NoField}
  ELSE {<<s, PcbId[s]>> : s \in {p \in Pcbs(h) : h.place \in Covers[p]}}

Targets(type, h) == {CellOf(type, a, h) : a \in Calls(type, h)}

\* The surfaces of the calls in A that fall on cell c.
Onto(type, A, h, c) == {a[1] : a \in {b \in A : CellOf(type, b, h) = c}}

\* The decoder throws for a bin that does not fit its field.
Encodable(c) == c[3] \in BinRange
=============================================================================
