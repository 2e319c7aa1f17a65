---------------------------- MODULE EventOutput -----------------------------
(***************************************************************************)
(* What the simulation job promises about its output file: record n was    *)
(* written for event n and everything in it comes from the simulation of   *)
(* event n.  A record lacks collections only if its event failed, and the  *)
(* job ends at the ErrorMax-th failure or with a record for every event.   *)
(***************************************************************************)
EXTENDS Naturals, Sequences

CONSTANTS Tools, EvtMax, ErrorMax, NoEvent

VARIABLES
  file,      \* the records written: each maps a save tool to the event it saved
  failures,  \* failed events
  running    \* is the event loop still going?

outputVars == <<file, failures, running>>

Init == file = << >> /\ failures = 0 /\ running = TRUE

OwnRecord(S) == [t \in Tools |-> IF t \in S THEN Len(file) + 1 ELSE NoEvent]

WriteComplete ==
  /\ running /\ Len(file) < EvtMax
  /\ file' = Append(file, OwnRecord(Tools))
  /\ UNCHANGED <<failures, running>>

\* A failing event: the record holds what was saved before the failure.
WriteFailed(S) ==
  /\ running /\ Len(file) < EvtMax
  /\ file' = Append(file, OwnRecord(S))
  /\ failures' = failures + 1
  /\ running' = (failures' < ErrorMax)

Stop ==
  /\ running /\ Len(file) = EvtMax
  /\ running' = FALSE
  /\ UNCHANGED <<file, failures>>

Next == WriteComplete \/ (\E S \in SUBSET Tools : WriteFailed(S)) \/ Stop

Spec == Init /\ [][Next]_outputVars
=============================================================================
