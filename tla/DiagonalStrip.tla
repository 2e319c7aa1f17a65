---------------------------- MODULE DiagonalStrip ----------------------------
(***************************************************************************)
(* The diagonal strip segmentation: two sets of lines at +45 and -45       *)
(* degrees cut the readout plane into pads; pads along a diagonal are      *)
(* chained into strips, alternately X strips and Y strips.                 *)
(*                                                                         *)
(* Lengths are integers in a unit of which the strip is an even number.    *)
(* A probe moves over the plane unit by unit, so that every place is a     *)
(* state and every pair of adjacent places is a step.                      *)
(***************************************************************************)
EXTENDS Integers

CONSTANTS
  HalfStrip,               \* half of strip_size
  OffsetX, OffsetY,        \* offset_x, offset_y
  LayerX, LayerY,          \* layer_id_x, layer_id_y
  StripMin, StripMax,      \* the values of the field strip
  Extent                   \* the probe keeps within this distance of 0

ASSUME SizeAssumption   == HalfStrip \in Nat \ {0}
ASSUME OffsetAssumption == OffsetX \in Int /\ OffsetY \in Int
ASSUME LayersDiffer     == LayerX # LayerY
ASSUME FieldAssumption  == StripMin \in Int /\ StripMax \in Int
ASSUME ExtentAssumption == Extent \in Nat

VARIABLES probeX, probeY   \* local position of the probe

probe == <<probeX, probeY>>

StripSize == 2 * HalfStrip

\* Bug: the origin is the edge of the first strip, not its centre.
ToEdgeUncentred(position, offset) == position - offset

ToEdge(position, offset) == position - HalfStrip - offset

\* std::floor of the quotients.
ToNormX(xpos, ypos) == (ypos - xpos) \div StripSize
ToNormY(xpos, ypos) == (ypos + xpos) \div StripSize

\* Bug: the shift is forgotten.
BinNotHalved(xid, yid) == yid - xid

\* The shift by one bit, arithmetic on the platforms of Geant4.
ToBinX(xid, yid) == (yid - xid) \div 2
ToBinY(xid, yid) == (yid + xid + 1) \div 2

\* Bug: the parity of one index only.
ParityOfFirst(a, b) == a % 2 = 0

SameParity(a, b) == (a - b) % 2 = 0

CellID(px, py) ==
  LET newX  == ToEdge(px, OffsetX)
      newY  == ToEdge(py, OffsetY)
      normX == ToNormX(newX, newY)
      normY == ToNormY(newX, newY)
  IN  IF SameParity(normX, normY)
        THEN [layer |-> LayerX, strip |-> ToBinX(normX, normY)]
        ELSE [layer |-> LayerY, strip |-> ToBinY(normX, normY)]

\* The coordinate position() gives a cell of a layer; the other one is 0.
Position(cell, offset) == cell.strip * StripSize + offset + HalfStrip

\* The decoder refuses a strip outside its field.
HasStrip(cell) == cell.strip \in StripMin .. StripMax

\* Bug: only the next strip is a neighbour.
NextOnly(cell) == {c \in {[cell EXCEPT !.strip = @ + 1]} : HasStrip(c)}

Neighbours(cell) ==
  {c \in {[cell EXCEPT !.strip = @ - 1], [cell EXCEPT !.strip = @ + 1]} : HasStrip(c)}

Plane == -Extent .. Extent

ProbeInit == probeX \in Plane /\ probeY \in Plane

MoveX ==
  \E d \in {-1, 1} : probeX' = probeX + d /\ probeX' \in Plane /\ probeY' = probeY
MoveY ==
  \E d \in {-1, 1} : probeY' = probeY + d /\ probeY' \in Plane /\ probeX' = probeX

ProbeNext == MoveX \/ MoveY

ProbeSpec == ProbeInit /\ [][ProbeNext]_probe

-----------------------------------------------------------------------------
(* A hit is within half a strip of the position of the strip it is given   *)
(* to, wherever it is and also at negative coordinates: no rounding moves  *)
(* it to a wrong strip (DiagonalStrip_segmt.cpp:38-44 and 116-130).        *)
WithinHalfStrip ==
  LET cell == CellID(probeX, probeY) IN
  /\ cell.layer = LayerX =>
       probeX - Position(cell, OffsetX) \in -HalfStrip .. HalfStrip
  /\ cell.layer = LayerY =>
       probeY - Position(cell, OffsetY) \in -HalfStrip .. HalfStrip

(* Strips are numbered in steps of one strip size: one strip further in x  *)
(* is the next X strip and the same Y strip, and so for y: the "default    *)
(* bin number scheme is the same as CartesianStripX/Y"                     *)
(* (DiagonalStrip_segmt.cpp:12).                                           *)
StripsArePeriodic ==
  LET cell    == CellID(probeX, probeY)
      further == [cell EXCEPT !.strip = @ + 1]
  IN  /\ CellID(probeX + StripSize, probeY) =
           IF cell.layer = LayerX THEN further ELSE cell
      /\ CellID(probeX, probeY + StripSize) =
           IF cell.layer = LayerY THEN further ELSE cell

(* Each pad has pads of the other layer on all four sides: X and Y strips  *)
(* see the same share of the plane (DiagonalStrip_segmt.cpp:101-109).      *)
LayersAlternate ==
  \A dx, dy \in {-HalfStrip, HalfStrip} :
    CellID(probeX + dx, probeY + dy).layer # CellID(probeX, probeY).layer

(* A hit that moves a little without changing the layer stays on its strip *)
(* or moves to one that neighbours() lists                                 *)
(* (DiagonalStrip_segmt.cpp:133-149).                                      *)
MovesToNeighbour ==
  [][LET old == CellID(probeX, probeY)
         new == CellID(probeX', probeY')
     IN  (old.layer = new.layer /\ HasStrip(old) /\ HasStrip(new))
           => new \in {old} \cup Neighbours(old)]_probe
=============================================================================
