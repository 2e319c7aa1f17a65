----------------------------- MODULE MCAnalysis -----------------------------
(***************************************************************************)
(* An analysis of two stages over three original files, one original file, *)
(* or a file next to a directory, which no stage accepts: two runs of any  *)
(* stages.  Over two files, one of them perhaps empty, there are three     *)
(* runs: a stage reads what two runs of the one before it left.            *)
(***************************************************************************)
EXTENDS Analysis

Store(dir, files) == [dir |-> dir, files |-> files]

MCOriginals ==
  {Store(TRUE, (0 :> Original(0, 1)) @@ (1 :> Original(1, 2)) @@ (2 :> Original(2, 1))),
   Store(FALSE, Single :> Original(Single, 2)),
   Store(TRUE, (Single :> Original(Single, 1)) @@ (0 :> Original(0, 1)))}

MCScripts ==
  [fraction : {<<1, 1>>}, chunks : 1 .. 3, nevents : {-1}]
    \cup [fraction : {<<1, 2>>}, chunks : {1, 2}, nevents : {-1}]
    \cup [fraction : {<<1, 1>>}, chunks : {2}, nevents : {1}]

RerunOriginals ==
  {Store(TRUE, (0 :> Original(0, 1)) @@ (1 :> Original(1, n))) : n \in {0, 2}}

AllOriginals == MCOriginals \cup RerunOriginals

RerunScripts ==
  [fraction : {<<1, 1>>}, chunks : {1, 2}, nevents : {-1}]
    \cup [fraction : {<<1, 2>>}, chunks : {2}, nevents : {-1}]

\* The settings of the next run.
ScriptsNow ==
  IF disk[0] \in RerunOriginals THEN RerunScripts
  ELSE IF jobs < 2 THEN MCScripts ELSE {}

MCNext ==
  \/ \E l \in 1 .. Levels : (\E s \in ScriptsNow : RunStages(l, s)) \/ RunFinal(l)
  \/ RunRDF \/ RunRDFEnds \/ Update \/ UpdateEnds

MCSpec == Init /\ [][MCNext]_vars
=============================================================================
