------------------------------- MODULE SimAlg -------------------------------
(***************************************************************************)
(* The Geant4 simulation of one job: SimAlg::execute, called once per      *)
(* event by the Gaudi event loop, drives SimSvc and its RunManager and     *)
(* lets the save tools copy the event into the event store.                *)
(*                                                                         *)
(* SimAlg ignores every StatusCode of SimSvc and of the tools, and nothing *)
(* in it catches an exception: an exception from a tool leaves execute     *)
(* before terminateEvent.  Whether the job survives that is decided by     *)
(* the Gaudi property ErrorMax of the algorithm (default 1: the loop       *)
(* stops after the event).                                                 *)
(***************************************************************************)
EXTENDS Naturals, Sequences

CONSTANTS
  EvtMax,          \* ApplicationMgr.EvtMax: events in the job
  SaveTools,       \* SimAlg.saveTools: the kind of each tool, in order
  HitClasses,      \* of each tool that saves hits: the classes of the hits in
                   \* the collections of its readout
  MayThrow,        \* may a tool throw?
  ErrorMax,        \* Gaudi: failures of an algorithm that stop the job
  NoEvent,         \* the null pointer
  Wild             \* the value of an uninitialised pointer

\* SimSaveTrackerHits and SimSaveCalHits, named as the hits they read.
HitKinds  == {"trackerHits", "calHits"}
ToolKinds == HitKinds \cup {"primaries", "trajectory", "history"}

ASSUME EvtMaxAssumption == EvtMax \in Nat \ {0}
ASSUME SaveToolsAssumption == SaveTools \in Seq(ToolKinds)
ASSUME HitClassesAssumption ==
  HitClasses \in [DOMAIN SaveTools -> SUBSET HitKinds]
ASSUME MayThrowAssumption == MayThrow \in BOOLEAN
ASSUME ErrorMaxAssumption == ErrorMax \in Nat \ {0}
ASSUME PointersAssumption ==
  NoEvent \notin Nat /\ Wild \notin Nat /\ Wild # NoEvent

Events == 1 .. EvtMax
Tools  == DOMAIN SaveTools

\* What the event store, and a record of the output file, holds.
Records == [Tools -> Events \cup {NoEvent}]
Empty   == [t \in Tools |-> NoEvent]

VARIABLES
  enableHistory, storeTrajectory, prevEventTerminated, currentEvent, live,
  simulated, tracked, particles,
  pc,          \* where the job is
  evt,         \* number of the Gaudi event being executed
  event,       \* SimAlg::execute: the event from the provider
  constevent,  \* SimAlg::execute: the event retrieved for saving
  nextTool,    \* position in the loop over m_saveTools
  store,       \* event store: tool -> G4Event whose data it put there, if any
  errors,      \* failures of SimAlg so far
  written      \* the records the output algorithm has written

options == <<enableHistory, storeTrajectory>>
rmVars  == <<options, prevEventTerminated, currentEvent, live,
             simulated, tracked, particles>>
vars    == <<rmVars, pc, evt, event, constevent, nextTool, store, errors, written>>

RM == INSTANCE RunManager

TypeOK ==
  /\ RM!TypeOK
  /\ pc \in {"ready", "generated", "simulated", "saving", "executed",
             "failed", "crashed", "stopped", "finalized"}
  /\ evt \in 0 .. EvtMax
  /\ event \in Events \cup {NoEvent}
  /\ constevent \in Events \cup {NoEvent, Wild}
  /\ nextTool \in 1 .. Len(SaveTools) + 1
  /\ store \in Records
  /\ errors \in Nat
  /\ written \in Seq(Records)

Init ==
  /\ RM!Init
  /\ pc = "ready"
  /\ evt = 0
  /\ event = NoEvent
  /\ constevent = Wild
  /\ nextTool = 1
  /\ store = Empty
  /\ errors = 0
  /\ written = << >>

-----------------------------------------------------------------------------
(* SimAlg::execute, call by call.                                          *)

\* Bug: one event too many.
GetEventBeyondMax ==
  /\ pc = "ready" /\ evt <= EvtMax
  /\ evt' = evt + 1
  /\ RM!Allocate(evt')
  /\ event' = evt'
  /\ constevent' = Wild
  /\ pc' = "generated"
  /\ UNCHANGED <<options, prevEventTerminated, currentEvent, simulated, tracked,
                 particles, nextTool, store, errors, written>>

\* The provider tool makes the G4Event and the smearer shifts its vertices.
GetEvent ==
  /\ pc = "ready" /\ evt < EvtMax
  /\ evt' = evt + 1
  /\ RM!Allocate(evt')
  /\ event' = evt'
  /\ constevent' = Wild
  /\ pc' = "generated"
  /\ UNCHANGED <<options, prevEventTerminated, currentEvent, simulated, tracked,
                 particles, nextTool, store, errors, written>>

\* A null event, which execute reports as FAILURE; or an exception, thrown
\* before or after the provider's `new G4Event()`.
GetEventFails ==
  /\ pc = "ready" /\ evt < EvtMax
  /\ evt' = evt + 1
  /\ event' = NoEvent
  /\ \/ UNCHANGED live
     \/ MayThrow /\ RM!Allocate(evt')
  /\ pc' = "failed"
  /\ UNCHANGED <<options, prevEventTerminated, currentEvent, simulated, tracked,
                 particles, constevent, nextTool, store, errors, written>>

ProcessEvent ==
  /\ pc = "generated"
  /\ RM!ProcessEvent(event)
  /\ pc' = "simulated"
  /\ UNCHANGED <<evt, event, constevent, nextTool, store, errors, written>>

RetrieveEvent ==
  /\ pc = "simulated"
  /\ constevent' = RM!RetrieveEvent(constevent)
  /\ nextTool' = 1
  /\ pc' = "saving"
  /\ UNCHANGED <<rmVars, evt, event, store, errors, written>>

Kind == SaveTools[nextTool]

\* Can saveOutput get through?  Every tool reads the event; SimSaveHistory
\* follows the pointer to its EventInformation and SimSaveTrajectory the one
\* to its trajectories, which Geant4 makes with the first track it stores,
\* and neither looks whether it is null.
CanRead ==
  /\ constevent \in live
  /\ Kind = "history" => enableHistory /\ constevent \in simulated
  /\ Kind = "trajectory" => storeTrajectory /\ constevent \in tracked

\* The tools for hits cast each hit of their readout to the class they save
\* and do not look whether it is one.  Which hits an event has is not
\* modelled, but without a track there are none.
MayMeetOtherHits ==
  Kind \in HitKinds /\ constevent \in tracked /\ HitClasses[nextTool] \ {Kind} # {}

\* SimSaveTrackerHits and SimSaveCalHits put nothing for an event that
\* carries no hit collections.
HasData == Kind \in HitKinds => constevent \in simulated

\* createAndPut, and then the data is copied.
Put == store' = IF HasData THEN [store EXCEPT ![nextTool] = constevent] ELSE store

SaveOutput ==
  /\ pc = "saving" /\ nextTool <= Len(SaveTools)
  /\ CanRead
  /\ Put
  /\ nextTool' = nextTool + 1
  /\ UNCHANGED <<rmVars, pc, evt, event, constevent, errors, written>>

\* An exception leaves execute, before or after the tool's put.  The put of
\* SimSaveTrajectory comes before it reads anything.
SaveOutputThrows ==
  /\ MayThrow
  /\ pc = "saving" /\ nextTool <= Len(SaveTools)
  /\ \/ CanRead /\ Put
     \/ (CanRead \/ Kind = "trajectory") /\ UNCHANGED store
  /\ pc' = "failed"
  /\ UNCHANGED <<rmVars, evt, event, constevent, nextTool, errors, written>>

\* The job is gone, and its event store with it.
SaveOutputCrashes ==
  /\ pc = "saving" /\ nextTool <= Len(SaveTools)
  /\ ~CanRead \/ MayMeetOtherHits
  /\ pc' = "crashed"
  /\ UNCHANGED <<rmVars, evt, event, constevent, nextTool, store, errors, written>>

\* Bug: terminateEvent is called inside the loop over the save tools.
TerminateInLoop ==
  /\ pc = "saving"
  /\ RM!TerminateEvent
  /\ pc' = IF nextTool > Len(SaveTools) THEN "executed" ELSE pc
  /\ UNCHANGED <<evt, event, constevent, nextTool, store, errors, written>>

\* Bug: execute returns without terminating the event.
TerminateForgotten ==
  /\ pc = "saving" /\ nextTool > Len(SaveTools)
  /\ pc' = "executed"
  /\ UNCHANGED <<rmVars, evt, event, constevent, nextTool, store, errors, written>>

\* Bug: the loop over the save tools ends one tool early.
TerminateOneEarly ==
  /\ pc = "saving" /\ nextTool >= Len(SaveTools)
  /\ RM!TerminateEvent
  /\ pc' = "executed"
  /\ UNCHANGED <<evt, event, constevent, nextTool, store, errors, written>>

TerminateEvent ==
  /\ pc = "saving" /\ nextTool > Len(SaveTools)
  /\ RM!TerminateEvent
  /\ pc' = "executed"
  /\ UNCHANGED <<evt, event, constevent, nextTool, store, errors, written>>

-----------------------------------------------------------------------------
(* The Gaudi event loop around SimAlg (external).                          *)

HistoryIn(s) == {s[t] : t \in {u \in Tools : SaveTools[u] = "history"}}

\* The output algorithm runs whether or not SimAlg failed.  Clearing the
\* store deletes the particle collections that were put in it.
EndEvent ==
  /\ pc \in {"executed", "failed"}
  /\ written' = Append(written, store)
  /\ store' = Empty
  /\ particles' = particles \ HistoryIn(store)
  /\ errors' = IF pc = "failed" THEN errors + 1 ELSE errors
  /\ pc' = IF errors' >= ErrorMax THEN "stopped" ELSE "ready"
  /\ UNCHANGED <<options, prevEventTerminated, currentEvent, live,
                 simulated, tracked, evt, event, constevent, nextTool>>

\* Bug: the job waits for an event beyond the last one.
FinalizeBeyondMax ==
  /\ pc = "stopped" \/ (pc = "ready" /\ evt > EvtMax)
  /\ pc' = "finalized"
  /\ UNCHANGED <<rmVars, evt, event, constevent, nextTool, store, errors, written>>

\* SimSvc::finalize.
Finalize ==
  /\ pc = "stopped" \/ (pc = "ready" /\ evt = EvtMax)
  /\ pc' = "finalized"
  /\ UNCHANGED <<rmVars, evt, event, constevent, nextTool, store, errors, written>>

Next ==
  \/ GetEvent \/ GetEventFails
  \/ ProcessEvent \/ RetrieveEvent
  \/ SaveOutput \/ SaveOutputThrows \/ SaveOutputCrashes
  \/ TerminateEvent
  \/ EndEvent \/ Finalize

Spec     == Init /\ [][Next]_vars
FairSpec == Spec /\ WF_vars(Next)

-----------------------------------------------------------------------------
(* Everything in the store and in the output file was taken from the event *)
(* of its own record: no event's hits, primaries or history are saved as   *)
(* another's (SimAlg.cpp:107-110, which ignores that processEvent failed). *)
OutputFromOwnEvent ==
  /\ \A t \in Tools : store[t] \in {evt, NoEvent}
  /\ \A n \in DOMAIN written : \A t \in Tools : written[n][t] \in {n, NoEvent}

(* The pointer the save tools dereference always denotes the event that    *)
(* was just simulated, although neither processEvent nor retrieveEvent is  *)
(* checked and the pointer is not initialised (SimAlg.cpp:105-110).        *)
RetrievedIsCurrent ==
  pc = "saving" => constevent = event /\ constevent \in live \cap simulated

(* A particle collection in the event store has not been deleted: the      *)
(* EventInformation keeps its pointer after the hand-over, so a second     *)
(* save of the same event would store freed memory                         *)
(* (EventInformation.cpp:14-17).                                           *)
StoredParticlesExist == HistoryIn(store) \ {NoEvent} \subseteq particles

(* When the job asks for the next event, every G4Event has been deleted    *)
(* and, with a SimSaveHistory tool, every particle collection too.         *)
NothingLeftBetweenEvents ==
  pc = "ready" =>
    /\ live = {} /\ prevEventTerminated
    /\ (\E t \in Tools : SaveTools[t] = "history") => particles = {}

\* The tool does not fit the job: a history that is not kept, trajectories
\* that are not stored or an event without one, hits of another class.
Misfit ==
  \/ Kind = "history" /\ ~enableHistory
  \/ Kind = "trajectory" /\ (~storeTrajectory \/ event \notin tracked)
  \/ Kind \in HitKinds /\ HitClasses[nextTool] \ {Kind} # {}

(* A save tool brings the job down only where the tool itself does not fit *)
(* the job's options and the event's content.  It is never the fault of    *)
(* the event pointer: not initialised, deleted or of an event that was not *)
(* simulated (SimAlg.cpp:105-110, SimSaveHistory.cpp:27-29,                *)
(* SimSaveTrajectory.cpp:29-30, SimSaveCalHits.cpp:67-69,                  *)
(* SimSaveTrackerHits.cpp:63-65).                                          *)
CrashNeedsMisfit ==
  pc = "crashed" =>
    /\ constevent = event /\ constevent \in live \cap simulated
    /\ Misfit

(* Geant4's current event is never exchanged for another without having    *)
(* been terminated in between (RunManager.h:43).                           *)
TerminatedBeforeReplaced ==
  [][currentEvent # NoEvent /\ currentEvent' # currentEvent
       => currentEvent' = NoEvent /\ currentEvent \notin live']_vars

(* The job always comes to its end, also after failing events.             *)
JobEnds == <>(pc \in {"finalized", "crashed"})

(* The job implements the promise about its output file.                   *)
Output == INSTANCE EventOutput
            WITH file <- written, failures <- errors,
                 running <- pc \notin {"stopped", "finalized"}
ImplementsEventOutput == Output!Spec
=============================================================================
