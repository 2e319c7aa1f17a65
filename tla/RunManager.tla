----------------------------- MODULE RunManager -----------------------------
(***************************************************************************)
(* megat::sim::RunManager: the Geant4 run manager whose event loop has     *)
(* been taken apart into processEvent / retrieveEvent / terminateEvent, so *)
(* that Gaudi drives it one event at a time.  The module holds its state   *)
(* and the effect of each call; SimAlg is the client that makes the calls. *)
(*                                                                         *)
(* A G4Event object is identified by the number of the Gaudi event that    *)
(* allocated it.                                                           *)
(***************************************************************************)
EXTENDS Naturals

CONSTANTS
  Events,          \* the G4Event objects the event provider may allocate
  NoEvent          \* the null pointer

VARIABLES
  enableHistory,        \* FullSimActions::m_enableHistory, a job option
  storeTrajectory,      \* /tracking/storeTrajectory, a Geant4 command of the job
  prevEventTerminated,  \* m_prevEventTerminated
  currentEvent,         \* G4RunManager::currentEvent
  live,                 \* the G4Event objects allocated and not deleted
  simulated,            \* the G4Events that went through ProcessOneEvent
  tracked,              \* those of them in which a track was followed
  particles             \* the G4Events whose MCParticleCollection is allocated

rmOptions == <<enableHistory, storeTrajectory>>
rmVars    == <<rmOptions, prevEventTerminated, currentEvent, live,
               simulated, tracked, particles>>

TypeOK ==
  /\ enableHistory \in BOOLEAN /\ storeTrajectory \in BOOLEAN
  /\ prevEventTerminated \in BOOLEAN
  /\ currentEvent \in Events \cup {NoEvent}
  /\ live \subseteq Events
  /\ simulated \subseteq Events /\ tracked \subseteq Events
  /\ particles \subseteq Events

Init ==
  /\ enableHistory \in BOOLEAN /\ storeTrajectory \in BOOLEAN
  /\ prevEventTerminated = TRUE
  /\ currentEvent = NoEvent
  /\ live = {}
  /\ simulated = {} /\ tracked = {}
  /\ particles = {}

-----------------------------------------------------------------------------
\* `new G4Event()` in a generator tool.
Allocate(e) == live' = live \cup {e}

\* ProcessOneEvent: the tracks are followed and the hit collections filled;
\* an event whose provider gave it no primary particle has no track.  With
\* the history enabled FullSimEventAction attaches an EventInformation, which
\* allocates the particle collection PreUserTrackingAction adds to.
Track(e) ==
  /\ simulated' = simulated \cup {e}
  /\ tracked' \in {tracked, tracked \cup {e}}
  /\ particles' = IF enableHistory THEN particles \cup {e} ELSE particles
  /\ UNCHANGED rmOptions

\* Bug: the flag is not lowered, so retrieveEvent refuses the event.
ProcessKeepsFlag(e) ==
  /\ currentEvent' = e
  /\ Track(e)
  /\ UNCHANGED <<prevEventTerminated, live>>

ProcessEvent(e) ==
  IF prevEventTerminated
    THEN /\ currentEvent' = e
         /\ Track(e)
         /\ prevEventTerminated' = FALSE
         /\ UNCHANGED live
    ELSE UNCHANGED rmVars   \* FAILURE: the previous event was not terminated

\* What retrieveEvent leaves in the caller's pointer, which held `old`.
RetrieveEvent(old) == IF prevEventTerminated THEN old ELSE currentEvent

\* Bug: the flag is raised without calling TerminateOneEvent.
TerminateOnlyFlag ==
  /\ prevEventTerminated' = TRUE
  /\ UNCHANGED <<rmOptions, currentEvent, live, simulated, tracked, particles>>

\* TerminateOneEvent deletes the G4Event and with it its EventInformation,
\* whose destructor leaves the particle collection alone.
TerminateEvent ==
  IF prevEventTerminated
    THEN UNCHANGED rmVars
    ELSE /\ live' = live \ {currentEvent}
         /\ currentEvent' = NoEvent
         /\ prevEventTerminated' = TRUE
         /\ UNCHANGED <<rmOptions, simulated, tracked, particles>>
=============================================================================
