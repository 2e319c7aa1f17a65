------------------------------- MODULE MCReco -------------------------------
(***************************************************************************)
(* The two programs that turn hits into tracks, one of which is started:   *)
(* the time matching of the strips, and the interpolation along a track.   *)
(***************************************************************************)
EXTENDS HitPairs, Interpolation

\* Few times, so that hits come together and windows overlap or touch.
TwoHits   == SeqOf([time : 0 .. 3, sigma : {1}], 2)
ThreeHits == SeqOf([time : 0 .. 2, sigma : {1}], 3)

MCCalls ==
  [fn : {"buildHitPairs"}, x : TwoHits, y : ThreeHits, tolerance : 1 .. 2,
   scale : {0}, useSigma : {FALSE}, z : {TRUE}, edep : {TRUE, FALSE}]
    \cup
  [fn : {"build3d"}, x : TwoHits, y : TwoHits, tolerance : 0 .. 2,
   scale : 0 .. 1, useSigma : BOOLEAN, z : {TRUE}, edep : {TRUE}]

TrackAt(places) == [i \in DOMAIN places |-> [at |-> places[i], charge |-> i % 2]]

\* A line with hits beside it, a bend, a track in space with upright parts,
\* fewer places than clusters, and too few hits.
MCEvents ==
  {TrackAt(p) : p \in {
     <<<<0, 0, 0>>, <<2, 0, 0>>, <<3, 1, 0>>, <<4, 0, 0>>, <<5, 0, 0>>, <<6, 1, 0>>>>,
     <<<<0, 0, 0>>, <<1, 0, 0>>, <<2, 0, 0>>, <<3, 0, 0>>, <<3, 1, 0>>, <<3, 2, 0>>, <<2, 1, 0>>>>,
     <<<<0, 0, 0>>, <<1, 0, 1>>, <<1, 0, 2>>, <<1, 1, 3>>>>,
     <<<<0, 0, 0>>, <<2, 1, 0>>>>,
     <<<<0, 0, 0>>>>}}

recoVars == <<vars, trackVars>>

RecoInit == Init /\ TrackInit

RecoNext ==
  \/ phase = "idle" /\ Next /\ UNCHANGED trackVars
  \/ outcome = "idle" /\ TrackNext /\ UNCHANGED vars

RecoSpec == RecoInit /\ [][RecoNext]_recoVars /\ WF_recoVars(RecoNext)

(* The matching ends on every input, the interpolation just on those in    *)
(* which each cluster has a hit (Interpolation.cpp:216-235,                *)
(* Hit3DBuilder.py:127).                                                   *)
ReconstructionEnds ==
  /\ (outcome = "running") ~> (outcome \in {"returned", "raised"})
  /\ WalkEnds
=============================================================================
