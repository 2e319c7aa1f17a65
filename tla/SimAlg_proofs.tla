---------------------------- MODULE SimAlg_proofs ----------------------------
(***************************************************************************)
(* Proofs about SimAlg for every number of events and every list of save   *)
(* tools.  Type correctness needs nothing else; the other results assume   *)
(* Gaudi's default ErrorMax = 1, without which they are false.             *)
(***************************************************************************)
EXTENDS SimAlg, TLAPS

\* The event a step works on is one the provider allocated.
TypeInv == TypeOK /\ (pc = "generated" => event \in Events)

LEMMA TypeInvInit == Init => TypeInv
  BY EvtMaxAssumption, SaveToolsAssumption
  DEF Init, TypeInv, TypeOK, RM!Init, RM!TypeOK, Empty, Records, Tools, Events

LEMMA TypeInvNext == TypeInv /\ [Next]_vars => TypeInv'
<1> SUFFICES ASSUME TypeInv, [Next]_vars PROVE TypeInv'
  OBVIOUS
<1> USE EvtMaxAssumption, SaveToolsAssumption
    DEF TypeInv, TypeOK, RM!TypeOK, Events, Tools, Records, options, RM!rmOptions
<1>1. CASE GetEvent
  BY <1>1 DEF GetEvent, RM!Allocate
<1>2. CASE GetEventFails
  <2>1. live' \subseteq live \cup {evt'} /\ evt' \in 1 .. EvtMax
    BY <1>2 DEF GetEventFails, RM!Allocate
  <2> QED
    BY <1>2, <2>1 DEF GetEventFails
<1>3. CASE ProcessEvent
  BY <1>3 DEF ProcessEvent, RM!ProcessEvent, RM!Track, RM!rmVars
<1>4. CASE RetrieveEvent
  BY <1>4 DEF RetrieveEvent, RM!RetrieveEvent, rmVars
<1>5. CASE SaveOutput
  BY <1>5 DEF SaveOutput, CanRead, Put, rmVars
<1>6. CASE SaveOutputThrows
  BY <1>6 DEF SaveOutputThrows, CanRead, Put, rmVars
<1>7. CASE SaveOutputCrashes
  BY <1>7 DEF SaveOutputCrashes, rmVars
<1>8. CASE TerminateEvent
  BY <1>8 DEF TerminateEvent, RM!TerminateEvent, RM!rmVars
<1>9. CASE EndEvent
  <2>1. store' \in Records /\ written' \in Seq(Records)
    BY <1>9 DEF EndEvent, Empty
  <2>2. errors' \in Nat /\ pc' \in {"ready", "stopped"}
    BY <1>9 DEF EndEvent
  <2>3. particles' \subseteq Events
    BY <1>9 DEF EndEvent
  <2> QED
    BY <1>9, <2>1, <2>2, <2>3 DEF EndEvent
<1>10. CASE Finalize
  BY <1>10 DEF Finalize, rmVars
<1>11. CASE UNCHANGED vars
  BY <1>11 DEF vars, rmVars
<1> QED
  BY <1>1, <1>2, <1>3, <1>4, <1>5, <1>6, <1>7, <1>8, <1>9, <1>10, <1>11 DEF Next

(* The variables of the simulation always have their types, whatever fails *)
(* and whether or not the job goes on after it (SimAlg.cpp:93-116).        *)
THEOREM TypeCorrect == Spec => []TypeOK
<1>1. TypeInv => TypeOK
  BY DEF TypeInv
<1> QED
  BY <1>1, TypeInvInit, TypeInvNext, PTL DEF Spec

-----------------------------------------------------------------------------
(* The inductive invariant: what holds at each point of an event.          *)

HasHistory == \E t \in Tools : SaveTools[t] = "history"

OwnRecord(r, n) == \A t \in Tools : r[t] \in {n, NoEvent}

\* Between terminateEvent and processEvent.
NothingCurrent == prevEventTerminated /\ currentEvent = NoEvent

\* Between processEvent and terminateEvent.
EventCurrent ==
  /\ ~prevEventTerminated /\ currentEvent = evt /\ event = evt
  /\ live = {evt} /\ evt \in simulated
  /\ enableHistory => evt \in particles
  /\ HasHistory => particles \subseteq {evt}

Phases ==
  /\ pc = "ready" =>
       /\ NothingCurrent /\ live = {} /\ store = Empty
       /\ HasHistory => particles = {}
  /\ pc = "generated" =>
       /\ NothingCurrent /\ live = {evt} /\ event = evt /\ store = Empty
       /\ HasHistory => particles = {}
  /\ pc = "simulated" => EventCurrent /\ store = Empty
  /\ pc = "saving" =>
       /\ EventCurrent /\ constevent = evt
       /\ \A t \in Tools : t < nextTool => store[t] = evt
  /\ pc = "executed" =>
       /\ NothingCurrent /\ live = {}
       /\ \A t \in Tools : store[t] = evt
       /\ HasHistory => particles \subseteq {evt}
  /\ pc = "crashed" => EventCurrent /\ constevent = evt /\ Misfit

BetweenEvents == pc \in {"ready", "stopped", "finalized"}

StoreInv ==
  /\ IF BetweenEvents THEN store = Empty ELSE evt \in Events
  /\ OwnRecord(store, evt)
  /\ StoredParticlesExist

FileInv ==
  /\ Len(written) = IF BetweenEvents THEN evt ELSE evt - 1
  /\ \A n \in DOMAIN written : OwnRecord(written[n], n)

\* With ErrorMax = 1 the first failure ends the event loop.
NoFailureYet == pc \notin {"stopped", "finalized"} => errors = 0

IInv == TypeOK /\ Phases /\ StoreInv /\ FileInv /\ NoFailureYet

LEMMA EventNumbers ==
  NoEvent \notin Events /\ Events \subseteq Nat \ {0} /\ Tools \subseteq Nat \ {0}
  BY EvtMaxAssumption, SaveToolsAssumption, PointersAssumption DEF Events, Tools

LEMMA IInvInit == Init => IInv
<1> SUFFICES ASSUME Init PROVE IInv
  OBVIOUS
<1>1. TypeOK
  BY TypeInvInit DEF TypeInv
<1>2. Phases
  BY DEF Init, RM!Init, Phases, NothingCurrent
<1>3. StoreInv
  BY DEF Init, StoreInv, BetweenEvents, OwnRecord, Empty, StoredParticlesExist, HistoryIn
<1>4. FileInv /\ NoFailureYet
  BY DEF Init, FileInv, BetweenEvents, NoFailureYet
<1> QED
  BY <1>1, <1>2, <1>3, <1>4 DEF IInv

\* What a save tool's put leaves in the event store.
LEMMA PutOwn ==
  ASSUME IInv, pc = "saving", nextTool <= Len(SaveTools), CanRead, Put
  PROVE  /\ nextTool \in Tools
         /\ store' = [store EXCEPT ![nextTool] = evt]
         /\ OwnRecord(store', evt)
         /\ HistoryIn(store') \ {NoEvent} \subseteq particles
<1>1. constevent = evt /\ EventCurrent /\ evt \in Events
  BY DEF IInv, Phases, StoreInv, BetweenEvents
<1>2. nextTool \in Tools
  BY SaveToolsAssumption DEF IInv, TypeOK, Tools
<1>3. store' = [store EXCEPT ![nextTool] = evt]
  BY <1>1 DEF Put, HasData, EventCurrent
<1>4. store \in [Tools -> Events \cup {NoEvent}]
  BY DEF IInv, TypeOK, Records
<1>5. \A t \in Tools : store'[t] = IF t = nextTool THEN evt ELSE store[t]
  BY <1>2, <1>3, <1>4
<1>6. OwnRecord(store', evt)
  BY <1>5 DEF IInv, StoreInv, OwnRecord
<1>7. SaveTools[nextTool] = "history" => evt \in particles
  BY <1>1 DEF CanRead, Kind, EventCurrent
<1>8. HistoryIn(store') \ {NoEvent} \subseteq particles
  BY <1>5, <1>7 DEF HistoryIn, IInv, StoreInv, StoredParticlesExist
<1> QED
  BY <1>2, <1>3, <1>6, <1>8

LEMMA IInvNext ==
  ASSUME ErrorMax = 1
  PROVE  IInv /\ [Next]_vars => IInv'
<1> SUFFICES ASSUME IInv, [Next]_vars PROVE IInv'
  OBVIOUS
<1>0. TypeOK'
  <2>1. TypeInv
    BY DEF IInv, TypeInv, Phases, StoreInv, BetweenEvents
  <2> QED
    BY <2>1, TypeInvNext DEF TypeInv
<1>1. CASE GetEvent
  <2> USE <1>1 DEF GetEvent
  <2>1. evt' \in Events
    BY EvtMaxAssumption DEF IInv, TypeOK, Events
  <2>2. Phases'
    BY DEF RM!Allocate, IInv, Phases, NothingCurrent
  <2>3. StoreInv'
    BY <2>1 DEF IInv, StoreInv, BetweenEvents, OwnRecord, Empty, StoredParticlesExist, HistoryIn
  <2>4. Len(written) = evt /\ evt' = evt + 1 /\ evt \in Nat
    BY DEF IInv, TypeOK, FileInv, BetweenEvents
  <2>5. FileInv'
    BY <2>4 DEF IInv, FileInv, BetweenEvents, OwnRecord
  <2>6. NoFailureYet'
    BY DEF IInv, NoFailureYet
  <2> QED
    BY <1>0, <2>2, <2>3, <2>5, <2>6 DEF IInv
<1>2. CASE GetEventFails
  <2> USE <1>2 DEF GetEventFails
  <2>1. evt' \in Events
    BY EvtMaxAssumption DEF IInv, TypeOK, Events
  <2>2. Phases'
    BY DEF Phases
  <2>3. StoreInv'
    BY <2>1 DEF IInv, StoreInv, BetweenEvents, OwnRecord, Empty, StoredParticlesExist, HistoryIn
  <2>4. Len(written) = evt /\ evt' = evt + 1 /\ evt \in Nat
    BY DEF IInv, TypeOK, FileInv, BetweenEvents
  <2>5. FileInv'
    BY <2>4 DEF IInv, FileInv, BetweenEvents, OwnRecord
  <2>6. NoFailureYet'
    BY DEF IInv, NoFailureYet
  <2> QED
    BY <1>0, <2>2, <2>3, <2>5, <2>6 DEF IInv
<1>3. CASE ProcessEvent
  <2> USE <1>3 DEF ProcessEvent
  <2>1. /\ NothingCurrent /\ live = {evt} /\ event = evt /\ store = Empty
        /\ HasHistory => particles = {}
    BY DEF IInv, Phases
  <2>2. /\ ~prevEventTerminated' /\ currentEvent' = evt /\ live' = live
        /\ simulated' = simulated \cup {evt}
        /\ enableHistory' = enableHistory
        /\ particles' = IF enableHistory THEN particles \cup {evt} ELSE particles
    BY <2>1 DEF NothingCurrent, RM!ProcessEvent, RM!Track, RM!rmOptions
  <2>3. Phases'
    BY <2>1, <2>2 DEF Phases, EventCurrent, HasHistory
  <2>4. StoreInv'
    BY <2>2 DEF IInv, StoreInv, BetweenEvents, OwnRecord, StoredParticlesExist, HistoryIn
  <2>5. FileInv' /\ NoFailureYet'
    BY DEF IInv, FileInv, BetweenEvents, OwnRecord, NoFailureYet
  <2> QED
    BY <1>0, <2>3, <2>4, <2>5 DEF IInv
<1>4. CASE RetrieveEvent
  <2> USE <1>4 DEF RetrieveEvent, rmVars, options
  <2>1. EventCurrent /\ store = Empty
    BY DEF IInv, Phases
  <2>2. constevent' = evt
    BY <2>1 DEF EventCurrent, RM!RetrieveEvent
  <2>3. Phases'
    BY <2>1, <2>2, EventNumbers DEF Phases, EventCurrent
  <2>4. StoreInv'
    BY DEF IInv, StoreInv, BetweenEvents, OwnRecord, StoredParticlesExist, HistoryIn
  <2>5. FileInv' /\ NoFailureYet'
    BY DEF IInv, FileInv, BetweenEvents, OwnRecord, NoFailureYet
  <2> QED
    BY <1>0, <2>3, <2>4, <2>5 DEF IInv
<1>5. CASE SaveOutput
  <2> USE <1>5 DEF SaveOutput, rmVars, options
  <2>1. /\ nextTool \in Tools
        /\ store' = [store EXCEPT ![nextTool] = evt]
        /\ OwnRecord(store', evt)
        /\ HistoryIn(store') \ {NoEvent} \subseteq particles
    BY PutOwn
  <2>2. store \in [Tools -> Events \cup {NoEvent}]
    BY DEF IInv, TypeOK, Records
  <2>3. \A t \in Tools : t < nextTool' => store'[t] = evt
    BY <2>1, <2>2, EventNumbers DEF IInv, Phases
  <2>4. Phases'
    BY <2>3 DEF IInv, Phases, EventCurrent
  <2>5. StoreInv'
    BY <2>1 DEF IInv, StoreInv, BetweenEvents, OwnRecord, StoredParticlesExist
  <2>6. FileInv' /\ NoFailureYet'
    BY DEF IInv, FileInv, BetweenEvents, OwnRecord, NoFailureYet
  <2> QED
    BY <1>0, <2>4, <2>5, <2>6 DEF IInv
<1>6. CASE SaveOutputThrows
  <2> USE <1>6 DEF SaveOutputThrows, rmVars, options
  <2>1. Phases'
    BY DEF Phases
  <2>2. OwnRecord(store', evt) /\ HistoryIn(store') \ {NoEvent} \subseteq particles
    <3>1. CASE CanRead /\ Put
      BY <3>1, PutOwn
    <3>2. CASE UNCHANGED store
      BY <3>2 DEF IInv, StoreInv, OwnRecord, StoredParticlesExist, HistoryIn
    <3> QED
      BY <3>1, <3>2
  <2>3. StoreInv'
    BY <2>2 DEF IInv, StoreInv, BetweenEvents, OwnRecord, StoredParticlesExist
  <2>4. FileInv' /\ NoFailureYet'
    BY DEF IInv, FileInv, BetweenEvents, OwnRecord, NoFailureYet
  <2> QED
    BY <1>0, <2>1, <2>3, <2>4 DEF IInv
<1>7. CASE SaveOutputCrashes
  <2> USE <1>7 DEF SaveOutputCrashes, rmVars, options
  <2>1. Phases'
    BY DEF IInv, Phases, EventCurrent, CanRead, MayMeetOtherHits, Misfit, Kind
  <2>2. StoreInv'
    BY DEF IInv, StoreInv, BetweenEvents, OwnRecord, StoredParticlesExist, HistoryIn
  <2>3. FileInv' /\ NoFailureYet'
    BY DEF IInv, FileInv, BetweenEvents, OwnRecord, NoFailureYet
  <2> QED
    BY <1>0, <2>1, <2>2, <2>3 DEF IInv
<1>8. CASE TerminateEvent
  <2> USE <1>8 DEF TerminateEvent
  <2>1. EventCurrent /\ \A t \in Tools : t < nextTool => store[t] = evt
    BY DEF IInv, Phases
  <2>2. /\ prevEventTerminated' /\ currentEvent' = NoEvent /\ live' = {}
        /\ particles' = particles
    BY <2>1 DEF EventCurrent, RM!TerminateEvent
  <2>3. \A t \in Tools : store'[t] = evt
    BY <2>1, SaveToolsAssumption DEF IInv, TypeOK, Tools
  <2>4. Phases'
    BY <2>1, <2>2, <2>3 DEF Phases, NothingCurrent, EventCurrent
  <2>5. StoreInv'
    BY <2>2 DEF IInv, StoreInv, BetweenEvents, OwnRecord, StoredParticlesExist, HistoryIn
  <2>6. FileInv' /\ NoFailureYet'
    BY DEF IInv, FileInv, BetweenEvents, OwnRecord, NoFailureYet
  <2> QED
    BY <1>0, <2>4, <2>5, <2>6 DEF IInv
<1>9. CASE EndEvent
  <2> USE <1>9 DEF EndEvent
  <2>1. pc' = (IF pc = "failed" THEN "stopped" ELSE "ready") /\ NoFailureYet'
    BY DEF IInv, NoFailureYet
  <2>2. (pc = "executed" /\ HasHistory) => HistoryIn(store) = {evt}
    BY DEF IInv, Phases, HasHistory, HistoryIn
  <2>3. Phases'
    BY <2>1, <2>2 DEF IInv, Phases, NothingCurrent
  <2>4. StoreInv'
    BY <2>1 DEF StoreInv, BetweenEvents, OwnRecord, Empty, StoredParticlesExist, HistoryIn
  <2>5. written \in Seq(Records) /\ store \in Records /\ Len(written) = evt - 1 /\ evt \in Nat
    BY DEF IInv, TypeOK, FileInv, BetweenEvents
  <2>6. /\ Len(written') = evt
        /\ \A n \in DOMAIN written' : written'[n] = IF n = evt THEN store ELSE written[n]
        /\ \A n \in DOMAIN written' : n # evt => n \in DOMAIN written
    BY <2>5
  <2>7. FileInv'
    BY <2>1, <2>6 DEF IInv, FileInv, StoreInv, BetweenEvents, OwnRecord
  <2> QED
    BY <1>0, <2>1, <2>3, <2>4, <2>7 DEF IInv
<1>10. CASE Finalize
  <2> USE <1>10 DEF Finalize, rmVars, options
  <2>1. Phases' /\ NoFailureYet'
    BY DEF Phases, NoFailureYet
  <2>2. StoreInv'
    BY DEF IInv, StoreInv, BetweenEvents, OwnRecord, StoredParticlesExist, HistoryIn
  <2>3. FileInv'
    BY DEF IInv, FileInv, BetweenEvents, OwnRecord
  <2> QED
    BY <1>0, <2>1, <2>2, <2>3 DEF IInv
<1>11. CASE UNCHANGED vars
  <2> USE <1>11 DEF vars, rmVars, options
  <2>1. Phases' /\ NoFailureYet'
    BY DEF IInv, Phases, NothingCurrent, EventCurrent, Misfit, Kind, NoFailureYet
  <2>2. StoreInv' /\ FileInv'
    BY DEF IInv, StoreInv, FileInv, BetweenEvents, OwnRecord, StoredParticlesExist, HistoryIn
  <2> QED
    BY <1>0, <2>1, <2>2 DEF IInv
<1> QED
  BY <1>1, <1>2, <1>3, <1>4, <1>5, <1>6, <1>7, <1>8, <1>9, <1>10, <1>11 DEF Next

LEMMA IInvHolds ==
  ASSUME ErrorMax = 1
  PROVE  Spec => []IInv
  BY IInvInit, IInvNext, PTL DEF Spec

-----------------------------------------------------------------------------
(* No record of the output file, and nothing in the event store, holds the *)
(* data of another event than its own, for any number of events, any save  *)
(* tools and any pattern of failures (SimAlg.cpp:105-110).                 *)
THEOREM OwnOutput ==
  ASSUME ErrorMax = 1
  PROVE  Spec => []OutputFromOwnEvent
<1>1. IInv => OutputFromOwnEvent
  BY DEF IInv, StoreInv, FileInv, OwnRecord, OutputFromOwnEvent
<1> QED
  BY <1>1, IInvHolds, PTL

(* The save tools are always given the event that was just simulated and   *)
(* not yet deleted, although no StatusCode on the way to them is looked at *)
(* (SimAlg.cpp:105-110).                                                   *)
THEOREM SavedEventIsCurrent ==
  ASSUME ErrorMax = 1
  PROVE  Spec => []RetrievedIsCurrent
<1>1. IInv => RetrievedIsCurrent
  BY DEF IInv, Phases, EventCurrent, RetrievedIsCurrent
<1> QED
  BY <1>1, IInvHolds, PTL

(* No deleted particle collection is in the event store                    *)
(* (EventInformation.cpp:14-17, SimSaveHistory.cpp:27-31).                 *)
THEOREM NoDanglingParticles ==
  ASSUME ErrorMax = 1
  PROVE  Spec => []StoredParticlesExist
<1>1. IInv => StoredParticlesExist
  BY DEF IInv, StoreInv
<1> QED
  BY <1>1, IInvHolds, PTL

(* The job asks for the next event with nothing of the earlier ones left:  *)
(* no event object and, given a history tool, no particle collection       *)
(* (RunManager.cpp:48-56).                                                 *)
THEOREM NoLeak ==
  ASSUME ErrorMax = 1
  PROVE  Spec => []NothingLeftBetweenEvents
<1>1. IInv => NothingLeftBetweenEvents
  BY DEF IInv, Phases, NothingCurrent, HasHistory, NothingLeftBetweenEvents
<1> QED
  BY <1>1, IInvHolds, PTL

(* Whatever pointer a save tool stumbles on, it is not that of the event:  *)
(* the event is there and simulated, and the tool asks it for a history,   *)
(* trajectories or hits that this job or this event does not have          *)
(* (SimSaveHistory.cpp:27, SimSaveTrajectory.cpp:29, SimSaveCalHits.cpp:67 *)
(* and SimSaveTrackerHits.cpp:63).                                         *)
THEOREM CrashOnlyByMisfit ==
  ASSUME ErrorMax = 1
  PROVE  Spec => []CrashNeedsMisfit
<1>1. IInv => CrashNeedsMisfit
  BY DEF IInv, Phases, EventCurrent, CrashNeedsMisfit
<1> QED
  BY <1>1, IInvHolds, PTL

(* The run manager never exchanges its current event for another that was  *)
(* not terminated (RunManager.cpp:27 and RunManager.h:43).                 *)
THEOREM ReplacedOnlyWhenTerminated ==
  ASSUME ErrorMax = 1
  PROVE  Spec => TerminatedBeforeReplaced
<1>1. IInv /\ [Next]_vars =>
        [currentEvent # NoEvent /\ currentEvent' # currentEvent
           => currentEvent' = NoEvent /\ currentEvent \notin live']_vars
  <2> SUFFICES ASSUME IInv, Next, currentEvent' # currentEvent, currentEvent # NoEvent
               PROVE  currentEvent' = NoEvent /\ currentEvent \notin live'
    BY DEF vars
  <2>1. ~ProcessEvent
    BY DEF IInv, Phases, NothingCurrent, ProcessEvent
  <2>2. TerminateEvent
    BY <2>1 DEF Next, GetEvent, GetEventFails, RetrieveEvent, SaveOutput, SaveOutputThrows,
                SaveOutputCrashes, EndEvent, Finalize, rmVars
  <2> QED
    BY <2>2 DEF TerminateEvent, RM!TerminateEvent, RM!rmVars
<1> QED
  BY <1>1, IInvHolds, PTL DEF Spec, TerminatedBeforeReplaced

-----------------------------------------------------------------------------
(* Implementation of EventOutput: EndEvent writes a record, the last       *)
(* Finalize or a failure stops, every other step stutters.                 *)

Running == pc \notin {"stopped", "finalized"}

LEMMA EndEventWrites ==
  ASSUME IInv, EndEvent
  PROVE  Output!WriteComplete \/ \E S \in SUBSET Tools : Output!WriteFailed(S)
<1> DEFINE S == {t \in Tools : store[t] = evt}
<1>1. store \in Records /\ \A t \in Tools : store[t] = IF t \in S THEN evt ELSE NoEvent
  BY DEF IInv, TypeOK, StoreInv, OwnRecord
<1>2. Len(written) + 1 = evt /\ evt \in Events /\ Len(written) < EvtMax
  BY EvtMaxAssumption DEF IInv, TypeOK, FileInv, StoreInv, BetweenEvents, EndEvent, Events
<1>3. Output!OwnRecord(S) = store
  BY <1>1, <1>2 DEF Output!OwnRecord, Records
<1>4. pc \in {"executed", "failed"} /\ written' = Append(written, store) /\ errors = 0
  BY DEF EndEvent, IInv, NoFailureYet
<1>5. CASE pc = "executed"
  <2>1. S = Tools
    BY <1>5 DEF IInv, Phases
  <2>2. errors' = errors /\ pc' = "ready"
    BY <1>4, <1>5, ErrorMaxAssumption DEF EndEvent
  <2> QED
    BY <1>2, <1>3, <1>4, <1>5, <2>1, <2>2 DEF Output!WriteComplete
<1>6. CASE pc = "failed"
  <2>1. errors' = errors + 1 /\ pc' = IF errors' >= ErrorMax THEN "stopped" ELSE "ready"
    BY <1>6 DEF EndEvent
  <2>2. Output!WriteFailed(S)
    BY <1>2, <1>3, <1>4, <1>6, <2>1, ErrorMaxAssumption DEF Output!WriteFailed
  <2> QED
    BY <2>2
<1> QED
  BY <1>4, <1>5, <1>6

(* SimAlg implements the promise about the output file: record n belongs   *)
(* to event n, partial only after a failure of that event, and the file is *)
(* complete when the job stops without one (SimAlg.cpp:93-116).            *)
THEOREM OutputImplemented ==
  ASSUME ErrorMax = 1
  PROVE  Spec => ImplementsEventOutput
<1>1. Init => Output!Init
  BY DEF Init, Output!Init
<1>2. IInv /\ [Next]_vars => [Output!Next]_<<written, errors, Running>>
  <2> SUFFICES ASSUME IInv, [Next]_vars
               PROVE  Output!Next \/ UNCHANGED <<written, errors, Running>>
    OBVIOUS
  <2>1. CASE EndEvent
    BY <2>1, EndEventWrites DEF Output!Next
  <2>2. CASE Finalize
    <3>1. CASE pc = "stopped"
      BY <2>2, <3>1 DEF Finalize, Running
    <3>2. CASE pc = "ready"
      BY <2>2, <3>2 DEF Finalize, IInv, FileInv, BetweenEvents, Output!Next, Output!Stop
    <3> QED
      BY <2>2, <3>1, <3>2 DEF Finalize
  <2>3. CASE ~EndEvent /\ ~Finalize
    BY <2>3 DEF Next, GetEvent, GetEventFails, ProcessEvent, RetrieveEvent, SaveOutput,
                SaveOutputThrows, SaveOutputCrashes, TerminateEvent, Running, vars
  <2> QED
    BY <2>1, <2>2, <2>3
<1> QED
  BY <1>1, <1>2, IInvHolds, PTL DEF Spec, ImplementsEventOutput, Output!Spec, Output!outputVars, Running
=============================================================================
