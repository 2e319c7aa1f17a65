------------------------------ MODULE MCSimAlg ------------------------------
(* SimAlg with the five save tools of simple_sim.py, in its order.  The    *)
(* calorimeter's readout is shared by detectors of both kinds.             *)
EXTENDS SimAlg

MCSaveTools == <<"primaries", "calHits", "trackerHits", "trajectory", "history">>

MCHitClasses ==
  [t \in DOMAIN MCSaveTools |->
     CASE MCSaveTools[t] = "calHits"     -> HitKinds
       [] MCSaveTools[t] = "trackerHits" -> {"trackerHits"}
       [] OTHER -> {}]
=============================================================================
