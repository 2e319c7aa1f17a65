------------------------------ MODULE SimStart ------------------------------
(***************************************************************************)
(* A simulation job: SimSvc is initialised, and events are tracked in the  *)
(* sensitive detectors it has set up.                                      *)
(***************************************************************************)
EXTENDS SimInit, SensitiveDetectors

CONSTANT Tracked   \* bound: the job options with which events are tracked

ASSUME DetectorsAssumption == Plugins \subseteq Detectors /\ IsFiniteSet(DOMAIN SensTypes)

JobInit == SimInit /\ EventInit

JobNext ==
  \/ SimInitNext /\ UNCHANGED eventVars
  \/ svc = "started" /\ config \in Tracked /\ EventNext(sdOf) /\ UNCHANGED initVars

JobSpec == JobInit /\ [][JobNext]_<<initVars, eventVars>>

(* The detectors are those that can be created, and a job that tracks an   *)
(* event has one, with a collection, for every sensitive volume.           *)
TypeOK ==
  /\ InitTypeOK
  /\ hits \in [DOMAIN deposited -> Seq([cell : Cells, energy : 0 .. Energy])]
  /\ tracks \in Seq(1 .. Energy) /\ escaped \in 0 .. Energy
  /\ events \in 0 .. MaxEvents /\ tracking \in BOOLEAN
  /\ events > 0 => svc = "started" /\ DOMAIN hits = DOMAIN SensTypes

(* The sums of the collections, in the detectors of this job.              *)
SumsInCells == CellsHoldSum(sdOf)

(* The energy of the event is counted once in the detectors of this job.   *)
NoDoubleCounting == EnergyBalance(sdOf)
=============================================================================
