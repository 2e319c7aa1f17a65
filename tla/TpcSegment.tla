----------------------------- MODULE TpcSegment -----------------------------
(***************************************************************************)
(* TpcSegmentAlg over the events of a job.  execute() adds the drifted     *)
(* electrons one by one to m_hitCache, a map from cellID to the hit under  *)
(* construction, and moves the map into the output collection at the end.  *)
(* The map is a member: it is emptied by the last statement of execute and *)
(* by nothing else, so it outlives an execute that returns early.          *)
(***************************************************************************)
EXTENDS TpcReadout, Sequences, Functions

CONSTANTS
  Inputs,      \* the collections of electrons an event may have
  EvtMax,      \* events in the job
  ErrorMax     \* Gaudi: failures of the algorithm that stop the job

ASSUME InputsAssumption   == Inputs \subseteq Seq(Electrons)
ASSUME EvtMaxAssumption   == EvtMax \in Nat \ {0}
ASSUME ErrorMaxAssumption == ErrorMax \in Nat \ {0}

VARIABLES
  segType,     \* type of the segmentation, looked up by initialize()
  pc,          \* where the job is
  evt,         \* number of the event
  in_hits,     \* input collection of the event
  next,        \* position in the loop over in_hits
  hitCache,    \* m_hitCache
  out_hits,    \* output collection, by cell
  errors       \* failures of execute so far

vars == <<segType, pc, evt, in_hits, next, hitCache, out_hits, errors>>

\* A raw hit is the index of an electron in the input collection; its event
\* and the surface of the call that added it are recorded beside it and are
\* not part of the ObjectID.
\* wpos is the energy-weighted sum of positions: setPosition divides it by
\* energy.
Hits == [raw : SUBSET ((1 .. EvtMax) \X (Nat \ {0}) \X Surfaces), energy : Nat, time : Int, wpos : Int]

NoHits == [c \in {} |-> {}]

HitMap(m) ==
  /\ DOMAIN m \subseteq Cells
  /\ \A c \in DOMAIN m : m[c] \in Hits

TypeOK ==
  /\ segType \in SegTypes
  /\ pc \in {"idle", "looping", "executed", "failed", "crashed", "stopped"}
  /\ evt \in 0 .. EvtMax
  /\ in_hits \in Seq(Electrons)
  /\ next \in 1 .. Len(in_hits) + 1
  /\ HitMap(hitCache)
  /\ HitMap(out_hits)
  /\ errors \in Nat

Init ==
  /\ segType \in SegTypes
  /\ pc = "idle"
  /\ evt = 0
  /\ in_hits = << >>
  /\ next = 1
  /\ hitCache = NoHits
  /\ out_hits = NoHits
  /\ errors = 0

-----------------------------------------------------------------------------
\* Bug: one event too many.
ExecuteBeyondMax ==
  /\ pc = "idle" /\ evt <= EvtMax
  /\ evt' = evt + 1
  /\ in_hits' \in Inputs
  /\ next' = 1
  /\ out_hits' = NoHits
  /\ pc' = "looping"
  /\ UNCHANGED <<segType, hitCache, errors>>

\* The output collection is put in the store before the loop.
Execute ==
  /\ pc = "idle" /\ evt < EvtMax
  /\ evt' = evt + 1
  /\ in_hits' \in Inputs
  /\ next' = 1
  /\ out_hits' = NoHits
  /\ pc' = "looping"
  /\ UNCHANGED <<segType, hitCache, errors>>

\* Electron h, added for each surface in S.
NewHit(h, id, S) ==
  [raw    |-> {<<id[1], id[2], s>> : s \in S},
   energy |-> Cardinality(S) * h.edep,
   time   |-> h.time,
   wpos   |-> Cardinality(S) * h.edep * h.place]

\* Bug: the earliest time is not kept.
MergeKeepsFirstTime(a, b) ==
  [raw    |-> a.raw \cup b.raw,
   energy |-> a.energy + b.energy,
   time   |-> a.time,
   wpos   |-> a.wpos + b.wpos]

Merge(a, b) ==
  [raw    |-> a.raw \cup b.raw,
   energy |-> a.energy + b.energy,
   time   |-> IF a.time > b.time THEN b.time ELSE a.time,
   wpos   |-> a.wpos + b.wpos]

CellsOfCalls(A, h) == {CellOf(segType, a, h) : a \in A}

\* Bug: a cell that was hit before starts afresh.
CollectOverwrites(m, A, h, id) ==
  [c \in DOMAIN m \cup CellsOfCalls(A, h) |->
     IF c \in CellsOfCalls(A, h) THEN NewHit(h, id, Onto(segType, A, h, c)) ELSE m[c]]

\* The calls of add_hit in A for electron h.
Collect(m, A, h, id) ==
  [c \in DOMAIN m \cup CellsOfCalls(A, h) |->
     LET new == NewHit(h, id, Onto(segType, A, h, c)) IN
     IF c \notin CellsOfCalls(A, h) THEN m[c]
     ELSE IF c \in DOMAIN m THEN Merge(m[c], new)
     ELSE new]

isMultiSeg == segType = "MultiSegmentation"
InLoop     == pc = "looping" /\ next <= Len(in_hits)
Hit        == in_hits[next]
NrPcbs     == Cardinality(Pcbs(Hit))
CallsNow   == Calls(segType, Hit)
CellsHit   == Targets(segType, Hit)
Fits(a)    == Encodable(CellOf(segType, a, Hit))

AddHit ==
  /\ InLoop
  /\ isMultiSeg => NrPcbs = 1
  /\ \A a \in CallsNow : Fits(a)
  /\ hitCache' = Collect(hitCache, CallsNow, Hit, <<evt, next>>)
  /\ next' = next + 1
  /\ UNCHANGED <<segType, pc, evt, in_hits, out_hits, errors>>

\* The exception of the decoder leaves execute after the calls before it:
\* the X layer of strips, any PCBs of the others (their order in the surface
\* list is arbitrary).
AddHitThrows ==
  /\ InLoop
  /\ isMultiSeg => NrPcbs = 1
  /\ \E a \in CallsNow : ~Fits(a)
  /\ \E A \in SUBSET {a \in CallsNow : Fits(a)} :
       /\ isMultiSeg => A = {a \in CallsNow : Fits(a) /\ a[2] = 0}
       /\ hitCache' = Collect(hitCache, A, Hit, <<evt, next>>)
  /\ pc' = "failed"
  /\ UNCHANGED <<segType, evt, in_hits, next, out_hits, errors>>

\* "Can't segment multi PCBs with strip readout": execute returns FAILURE.
RefuseMultiPcb ==
  /\ InLoop
  /\ isMultiSeg /\ NrPcbs > 1
  /\ pc' = "failed"
  /\ UNCHANGED <<segType, evt, in_hits, next, hitCache, out_hits, errors>>

\* sL.front() of an empty list.
NoPcb ==
  /\ InLoop
  /\ isMultiSeg /\ NrPcbs = 0
  /\ pc' = "crashed"
  /\ UNCHANGED <<segType, evt, in_hits, next, hitCache, out_hits, errors>>

\* Bug: the cache is not emptied.
FlushKeepsCache ==
  /\ pc = "looping" /\ next > Len(in_hits)
  /\ out_hits' = hitCache
  /\ pc' = "executed"
  /\ UNCHANGED <<segType, evt, in_hits, next, hitCache, errors>>

Flush ==
  /\ pc = "looping" /\ next > Len(in_hits)
  /\ out_hits' = hitCache
  /\ hitCache' = NoHits
  /\ pc' = "executed"
  /\ UNCHANGED <<segType, evt, in_hits, next, errors>>

\* The Gaudi event loop (external): the event store is cleared, and the job
\* goes on unless the algorithm has failed ErrorMax times.
EndEvent ==
  /\ pc \in {"executed", "failed"}
  /\ in_hits' = << >> /\ next' = 1
  /\ out_hits' = NoHits
  /\ errors' = IF pc = "failed" THEN errors + 1 ELSE errors
  /\ pc' = IF errors' >= ErrorMax THEN "stopped" ELSE "idle"
  /\ UNCHANGED <<segType, evt, hitCache>>

Next == Execute \/ AddHit \/ AddHitThrows \/ RefuseMultiPcb \/ NoPcb \/ Flush \/ EndEvent

Spec == Init /\ [][Next]_vars

-----------------------------------------------------------------------------
\* The first n electrons of the event that fall on cell c.
ElectronsOf(c, n) == {i \in 1 .. n : c \in Targets(segType, in_hits[i])}

\* The cells they fall on.
CellsOf(n) == UNION {Targets(segType, in_hits[i]) : i \in 1 .. n}

\* What electron i adds to cell c.
Entries(c, i) ==
  {<<evt, i, s>> : s \in Onto(segType, Calls(segType, in_hits[i]), in_hits[i], c)}

\* The hit map m holds exactly the first n electrons of this event: each in
\* each of its cells, and no cell without an electron.
HoldsExactly(m, n) ==
  /\ \A c \in DOMAIN m : m[c].raw = UNION {Entries(c, i) : i \in 1 .. n}
  /\ DOMAIN m = CellsOf(n)

(* No electron is lost, counted twice, put in a wrong cell or carried over *)
(* from another event: the raw hits of the cells are those of the event's  *)
(* electrons processed so far, and m_hitCache is empty between events      *)
(* (TpcSegmentAlg.cpp:133-139 and 153-174).                                *)
GroupsThisEvent ==
  /\ pc = "looping" => HoldsExactly(hitCache, next - 1)
  /\ pc = "executed" => HoldsExactly(out_hits, Len(in_hits))
  /\ pc \in {"idle", "executed"} => hitCache = NoHits

\* All electrons of a cell were collected on the same PCB.
OnePcbPerCell ==
  \A c \in DOMAIN out_hits : \A r, q \in out_hits[c].raw : r[3] = q[3]

(* Hits of different PCBs of a pixel readout are not merged, although the  *)
(* bin in the cellID counts from each PCB's own origin: the new field      *)
(* tells the PCBs apart (TpcSegmentAlg.cpp:123-127).                       *)
PcbsApart == (pc = "executed" /\ segType = "CartesianGridXY") => OnePcbPerCell

(* The algorithm refuses strips on several PCBs ("Can't segment multi PCBs *)
(* with strip readout", TpcSegmentAlg.cpp:107), so in a strip readout a    *)
(* cell is never filled from two PCBs either.                              *)
StripsOnOnePcb == (pc = "executed" /\ segType # "CartesianGridXY") => OnePcbPerCell

\* t is the time of one of the cell's electrons and none is earlier.
Earliest(t, E) ==
  /\ \E i \in E : t = in_hits[i].time
  /\ \A i \in E : t <= in_hits[i].time

(* The time of a hit is that of the earliest electron of its cell, in      *)
(* whatever order the electrons come (TpcSegmentAlg.cpp:164).              *)
TimeIsEarliest ==
  /\ pc = "looping" =>
       \A c \in DOMAIN hitCache : Earliest(hitCache[c].time, ElectronsOf(c, next - 1))
  /\ pc = "executed" =>
       \A c \in DOMAIN out_hits : Earliest(out_hits[c].time, ElectronsOf(c, Len(in_hits)))

\* The charge that the hits of m have in a layer, and that of n electrons.
LayerCharge(m, layer) ==
  SumFunctionOnSet([c \in DOMAIN m |-> m[c].energy], {c \in DOMAIN m : c[2] = layer})
ChargeOf(n) == SumFunctionOnSet([i \in DOMAIN in_hits |-> in_hits[i].edep], 1 .. n)

(* Each layer of a strip readout sees the whole charge of the event: an    *)
(* electron is collected once in each (TpcSegmentAlg.cpp:105-118 and       *)
(* 159-170).                                                               *)
LayersSeeAllCharge ==
  (pc = "executed" /\ isMultiSeg) =>
    \A layer \in Layers : LayerCharge(out_hits, layer) = ChargeOf(Len(in_hits))

(* The algorithm implements the one-step grouping of each event            *)
(* (TpcSegmentAlg.cpp:93-142).                                             *)
Grouping == INSTANCE CellGrouping
ImplementsCellGrouping == Grouping!Spec
=============================================================================
