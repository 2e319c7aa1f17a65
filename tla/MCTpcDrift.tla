----------------------------- MODULE MCTpcDrift -----------------------------
(***************************************************************************)
(* Events of up to three hits: below and above MaxHits electrons, a hit    *)
(* below the ionisation energy, one without energy, one on the anode, and  *)
(* one in a volume without an anode.                                       *)
(***************************************************************************)
EXTENDS TpcDrift, SequencesExt

Sample ==
  {[vol |-> "gas", x |-> 0, drift |-> 2, edep |-> 2, time |-> 0],
   [vol |-> "gas", x |-> 1, drift |-> 1, edep |-> 5, time |-> 3],
   [vol |-> "gas", x |-> 1, drift |-> 0, edep |-> 1, time |-> 0],
   [vol |-> "gas", x |-> 0, drift |-> 1, edep |-> 0, time |-> 0],
   [vol |-> "foil", x |-> 0, drift |-> 1, edep |-> 2, time |-> 0]}
MaxSimHits == 3
MCInputs   == BoundedSeq(Sample, MaxSimHits)
MCTransDiff == {0, 1}
MCLongDiff  == {-2, 0}
=============================================================================
