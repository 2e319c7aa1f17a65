---------------------------- MODULE MCTpcSegment ----------------------------
(***************************************************************************)
(* Three drift volumes: "one" with a single PCB, "two" with two PCBs whose *)
(* bounds share a place and leave one uncovered, and "none" without PCB.   *)
(* Place 4 is beyond the last bin.                                         *)
(***************************************************************************)
EXTENDS TpcSegment, SequencesExt

MCTimes    == {-1, 3, 4, 5}
MCPcbsOf   == [v \in Volumes |->
                 CASE v = "one" -> {"a"} [] v = "two" -> {"a", "b"} [] v = "none" -> {}]
MCCovers   == [s \in Surfaces |-> IF s = "a" THEN {0, 1} ELSE {1, 2}]
\* The same, without the overlap.
MCApart    == [s \in Surfaces |-> IF s = "a" THEN {0, 1} ELSE {2, 3}]
MCPcbId    == [s \in Surfaces |-> IF s = "a" THEN 0 ELSE 1]
\* Bins count from the PCB's own origin: places 0 and 1 of "a" and places 1
\* and 2 of "b" share bin 0 of the X layer.  The Y layer has one strip.
Origin(s)  == IF s = "a" THEN 0 ELSE 1
MCBin      == [x \in Surfaces \X Places \X Fields |->
                 IF x[3] = 0 THEN (x[2] - Origin(x[1])) \div 2 ELSE 0]
\* Place 1 is in the same cell of both PCBs for a diagonal strip.
MCLayer    == [x \in Surfaces \X Places |-> ((x[2] - Origin(x[1])) \div 2) % 2]

\* Electrons that differ in volume, place, energy and time.
Sample ==
  {[vol |-> "one", place |-> 0, edep |-> 2, time |-> 5],
   [vol |-> "one", place |-> 1, edep |-> 1, time |-> 3],
   [vol |-> "one", place |-> 2, edep |-> 1, time |-> -1],
   [vol |-> "one", place |-> 4, edep |-> 1, time |-> 4],
   [vol |-> "two", place |-> 0, edep |-> 1, time |-> 3],
   [vol |-> "two", place |-> 1, edep |-> 2, time |-> 4],
   [vol |-> "two", place |-> 2, edep |-> 1, time |-> 5],
   [vol |-> "two", place |-> 3, edep |-> 1, time |-> 4],
   [vol |-> "none", place |-> 0, edep |-> 1, time |-> 4]}
MaxHits  == 3
MCInputs == BoundedSeq(Sample, MaxHits)
=============================================================================
