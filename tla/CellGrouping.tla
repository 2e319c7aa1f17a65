---------------------------- MODULE CellGrouping ----------------------------
(***************************************************************************)
(* What the segmentation of an event promises (TpcSegmentAlg.cpp:26-28):   *)
(* the drifted electrons are collected cell by cell, and each cell gets    *)
(* the summed energy, the earliest time and the energy-weighted position   *)
(* of its electrons.  One step groups the whole event.                     *)
(***************************************************************************)
EXTENDS TpcReadout, Sequences, FiniteSetsExt

CONSTANTS
  Inputs,      \* the collections of electrons an event may have
  EvtMax

VARIABLES
  segType,     \* type of the segmentation
  evt,         \* number of the event
  in_hits,     \* its electrons
  out_hits     \* its hits, by cell

groupVars == <<segType, evt, in_hits, out_hits>>

NoHits == [c \in {} |-> {}]

AllCells == UNION {Targets(segType, in_hits[i]) : i \in DOMAIN in_hits}

ElectronsOf(c) == {i \in DOMAIN in_hits : c \in Targets(segType, in_hits[i])}

\* The surfaces on which electron i falls on cell c: more than one only if
\* a diagonal strip gives overlapping PCBs the same cell.
PcbsOn(i, c) == Onto(segType, Calls(segType, in_hits[i]), in_hits[i], c)

HitOf(c) ==
  LET E == ElectronsOf(c) IN
  [raw    |-> UNION {{<<evt, i, s>> : s \in PcbsOn(i, c)} : i \in E},
   energy |-> SumFunction([i \in E |-> Cardinality(PcbsOn(i, c)) * in_hits[i].edep]),
   time   |-> Min({in_hits[i].time : i \in E}),
   wpos   |-> SumFunction([i \in E |-> Cardinality(PcbsOn(i, c)) * in_hits[i].edep
                                          * in_hits[i].place])]

Init == segType \in SegTypes /\ evt = 0 /\ in_hits = << >> /\ out_hits = NoHits

Arrive ==
  /\ evt < EvtMax
  /\ evt' = evt + 1
  /\ in_hits' \in Inputs
  /\ out_hits' = NoHits
  /\ UNCHANGED segType

Group ==
  /\ out_hits = NoHits
  /\ out_hits' = [c \in AllCells |-> HitOf(c)]
  /\ UNCHANGED <<segType, evt, in_hits>>

\* The event store is cleared after the event, grouped or not.
Clear ==
  /\ in_hits' = << >> /\ out_hits' = NoHits
  /\ UNCHANGED <<segType, evt>>

Next == Arrive \/ Group \/ Clear

Spec == Init /\ [][Next]_groupVars
=============================================================================
