---------------------------- MODULE MCTpcSampling ----------------------------
(***************************************************************************)
(* Two segmented hits over three drifted electrons: electrons that share a *)
(* bin, that round to the bin below zero, that arrive after the last       *)
(* sample; raw hits of another collection and beyond the collection.  The  *)
(* shaper has a negative lobe, as exp(-3t) t^3 sin(t) has.                 *)
(***************************************************************************)
EXTENDS TpcSampling, SequencesExt

MCShaper == <<300, 1000, 400, -20>>

SimHits == [time : {-1, 0, 2, 3, 9}, edep : {1, 3}]
RawHits == [coll : {"drift"}, index : 1 .. 4] \cup [coll : {"other"}, index : {1}]

Segmented(raw) == [time |-> 2, edep |-> 1, raw |-> raw]

MCInputs ==
  {<<h, s>> : h \in {<<Segmented(<<a, b>>), Segmented(<<c>>)>> : a, b, c \in RawHits}
                      \cup {<<Segmented(<< >>)>>},
              s \in {<<x, y, z>> : x \in SimHits, y \in [time : {2}, edep : {3}],
                                   z \in [time : {-1, 3}, edep : {1}]}}
=============================================================================
