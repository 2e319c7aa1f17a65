-------------------------- MODULE TpcSegment_proofs --------------------------
(***************************************************************************)
(* Proofs about TpcSegment for every geometry, every collection of         *)
(* electrons and any number of events.  Type correctness needs nothing     *)
(* else; the grouping theorems assume Gaudi's default ErrorMax = 1: a job  *)
(* that goes on after a failure carries m_hitCache into the next event.    *)
(* Two invariants are proved one on top of the other: what each cell has   *)
(* of the event's electrons, and what that adds up to.  The refinement of  *)
(* CellGrouping rests on both.  The strips of the diagonal segmentation,   *)
(* where cellID puts a hit, come last.                                     *)
(***************************************************************************)
EXTENDS TpcSegment, DiagonalStrip, SumTheorems

-----------------------------------------------------------------------------
(* The cells and hits an electron makes have their types.                  *)

LEMMA CallsAreOnPcbs ==
  ASSUME NEW type \in SegTypes, NEW h \in Electrons
  PROVE  /\ Calls(type, h) \subseteq Pcbs(h) \X Fields
         /\ Pcbs(h) \subseteq Surfaces /\ IsFiniteSet(Pcbs(h))
<1>1. h.vol \in Volumes
  BY DEF Electrons
<1>2. Pcbs(h) \subseteq Surfaces /\ IsFiniteSet(Pcbs(h))
  BY <1>1, PcbsOfAssumption DEF Pcbs
<1>3. NoField \in Fields /\ Layers \subseteq Fields /\ \A s \in Pcbs(h) : PcbId[s] \in Fields
  BY <1>2 DEF Fields, Layers, NoField
<1> QED
  BY <1>2, <1>3 DEF Calls

LEMMA CallsMakeCells ==
  ASSUME NEW type \in SegTypes, NEW h \in Electrons, NEW a \in Calls(type, h)
  PROVE  CellOf(type, a, h) \in Cells
<1>1. a[1] \in Surfaces /\ a[2] \in Fields
  BY CallsAreOnPcbs
<1>2. h.vol \in Volumes /\ h.place \in Places
  BY DEF Electrons
<1>3. FieldKept(type, a[1], a[2], h) \in Fields
  BY <1>1, <1>2, LayerAssumption DEF FieldKept, Fields
<1> QED
  BY <1>1, <1>2, <1>3, BinAssumption DEF CellOf, Cells

LEMMA OntoIsFinite ==
  ASSUME NEW type \in SegTypes, NEW h \in Electrons, NEW A \in SUBSET Calls(type, h), NEW c
  PROVE  Onto(type, A, h, c) \subseteq Surfaces /\ Cardinality(Onto(type, A, h, c)) \in Nat
<1>1. Onto(type, A, h, c) \subseteq Pcbs(h)
  BY CallsAreOnPcbs DEF Onto
<1> QED
  BY <1>1, CallsAreOnPcbs, FS_Subset, FS_CardinalityType

LEMMA HitTypes ==
  ASSUME NEW h \in Electrons, NEW id \in (1 .. EvtMax) \X (Nat \ {0}),
         NEW S \in SUBSET Surfaces, Cardinality(S) \in Nat
  PROVE  NewHit(h, id, S) \in Hits
<1>1. h.edep \in Nat /\ h.time \in Int /\ h.place \in Int
  BY ElectronDataAssumption DEF Electrons
<1>2. Cardinality(S) * h.edep \in Nat
  BY <1>1
<1>3. Cardinality(S) * h.edep * h.place \in Int
  BY <1>1, <1>2
<1>4. {<<id[1], id[2], s>> : s \in S} \subseteq (1 .. EvtMax) \X (Nat \ {0}) \X Surfaces
  OBVIOUS
<1> QED
  BY <1>1, <1>2, <1>3, <1>4 DEF NewHit, Hits

LEMMA MergeTypes == \A a, b \in Hits : Merge(a, b) \in Hits
  BY DEF Merge, Hits

LEMMA CollectTypes ==
  ASSUME NEW m, HitMap(m), segType \in SegTypes, NEW h \in Electrons,
         NEW A \in SUBSET Calls(segType, h), NEW id \in (1 .. EvtMax) \X (Nat \ {0})
  PROVE  HitMap(Collect(m, A, h, id))
<1>1. CellsOfCalls(A, h) \subseteq Cells
  BY CallsMakeCells DEF CellsOfCalls
<1>2. \A c : NewHit(h, id, Onto(segType, A, h, c)) \in Hits
  BY OntoIsFinite, HitTypes
<1> QED
  BY <1>1, <1>2, MergeTypes DEF HitMap, Collect

\* The electron the loop is at, and its place in the event store.
LEMMA CurrentElectron ==
  ASSUME TypeOK, InLoop, evt \in 1 .. EvtMax
  PROVE  /\ Hit \in Electrons /\ next \in Nat \ {0} /\ segType \in SegTypes
         /\ <<evt, next>> \in (1 .. EvtMax) \X (Nat \ {0})
  BY DEF TypeOK, InLoop, Hit

-----------------------------------------------------------------------------
TypeInv == TypeOK /\ (pc = "looping" => evt \in 1 .. EvtMax)

LEMMA TypeInvInit == Init => TypeInv
  BY EvtMaxAssumption DEF Init, TypeInv, TypeOK, HitMap, NoHits

LEMMA TypeInvNext == TypeInv /\ [Next]_vars => TypeInv'
<1> SUFFICES ASSUME TypeInv, [Next]_vars PROVE TypeInv'
  OBVIOUS
<1> USE EvtMaxAssumption DEF TypeInv, TypeOK
<1>0. HitMap(NoHits)
  BY DEF HitMap, NoHits
<1>1. CASE Execute
  <2>1. in_hits' \in Seq(Electrons)
    BY <1>1, InputsAssumption DEF Execute
  <2>2. HitMap(hitCache') /\ HitMap(out_hits')
    BY <1>0, <1>1 DEF Execute
  <2>3. next' \in 1 .. Len(in_hits') + 1
    BY <1>1, <2>1 DEF Execute
  <2>4. evt' \in 1 .. EvtMax
    BY <1>1 DEF Execute
  <2> QED
    BY <1>1, <2>1, <2>2, <2>3, <2>4 DEF Execute, HitMap
<1>2. CASE AddHit
  <2>1. HitMap(hitCache')
    BY <1>2, CurrentElectron, CollectTypes DEF AddHit, InLoop, CallsNow
  <2>2. next' \in 1 .. Len(in_hits') + 1
    BY <1>2 DEF AddHit, InLoop
  <2> QED
    BY <1>2, <2>1, <2>2 DEF AddHit, InLoop
<1>3. CASE AddHitThrows
  <2>1. HitMap(hitCache')
    <3>1. PICK A \in SUBSET Calls(segType, Hit) :
            hitCache' = Collect(hitCache, A, Hit, <<evt, next>>)
      BY <1>3 DEF AddHitThrows, CallsNow
    <3> QED
      BY <1>3, <3>1, CurrentElectron, CollectTypes DEF AddHitThrows, InLoop
  <2> QED
    BY <1>3, <2>1 DEF AddHitThrows, InLoop, HitMap
<1>4. CASE RefuseMultiPcb
  BY <1>4 DEF RefuseMultiPcb, HitMap
<1>5. CASE NoPcb
  BY <1>5 DEF NoPcb, HitMap
<1>6. CASE Flush
  BY <1>0, <1>6 DEF Flush, HitMap
<1>7. CASE EndEvent
  BY <1>0, <1>7 DEF EndEvent, HitMap
<1>8. CASE UNCHANGED vars
  BY <1>8 DEF vars, HitMap
<1> QED
  BY <1>1, <1>2, <1>3, <1>4, <1>5, <1>6, <1>7, <1>8 DEF Next

(* The cache and the output only ever hold well-formed hits of cells of    *)
(* the readout, also after failures (TpcSegmentAlg.cpp:92-174).            *)
THEOREM TypeCorrect == Spec => []TypeOK
<1>1. TypeInv => TypeOK
  BY DEF TypeInv
<1> QED
  BY <1>1, TypeInvInit, TypeInvNext, PTL DEF Spec

-----------------------------------------------------------------------------
(* The inductive invariant of the grouping.  It adds to the properties     *)
(* that the first failure ends the job: then the rest a failed execute     *)
(* leaves in m_hitCache is never looked at.                                *)

NoFailureYet == pc # "stopped" => errors = 0

IInv == TypeInv /\ GroupsThisEvent /\ TimeIsEarliest /\ NoFailureYet

\* One more electron: its cells gain it, no other cell changes.
LEMMA OneMore ==
  ASSUME InLoop, next \in Nat \ {0}
  PROVE  /\ \A c : ElectronsOf(c, next) =
                     ElectronsOf(c, next - 1) \cup (IF c \in CellsHit THEN {next} ELSE {})
         /\ CellsOf(next) = CellsOf(next - 1) \cup CellsHit
         /\ \A c : UNION {Entries(c, i) : i \in 1 .. next} =
                     (UNION {Entries(c, i) : i \in 1 .. next - 1}) \cup Entries(c, next)
<1>1. 1 .. next = (1 .. next - 1) \cup {next}
  OBVIOUS
<1>2. \A c : ElectronsOf(c, next) =
              ElectronsOf(c, next - 1) \cup (IF c \in CellsHit THEN {next} ELSE {})
  BY <1>1 DEF ElectronsOf, CellsHit, Hit
<1>3. CellsOf(next) = CellsOf(next - 1) \cup CellsHit
  BY <1>1 DEF CellsOf, CellsHit, Hit
<1>4. \A c : UNION {Entries(c, i) : i \in 1 .. next} =
              (UNION {Entries(c, i) : i \in 1 .. next - 1}) \cup Entries(c, next)
  <2> SUFFICES ASSUME NEW c
               PROVE  UNION {Entries(c, i) : i \in 1 .. next} =
                        (UNION {Entries(c, i) : i \in 1 .. next - 1}) \cup Entries(c, next)
    OBVIOUS
  <2>1. {Entries(c, i) : i \in 1 .. next} =
          {Entries(c, i) : i \in 1 .. next - 1} \cup {Entries(c, next)}
    BY <1>1
  <2> QED
    BY <2>1
<1> QED
  BY <1>2, <1>3, <1>4

\* An electron adds nothing to a cell it does not fall on.
LEMMA NoEntries ==
  ASSUME NEW c, NEW i, c \notin Targets(segType, in_hits[i])
  PROVE  Entries(c, i) = {}
  BY DEF Entries, Onto, Targets

\* What the current electron adds, and where.
LEMMA CollectCases ==
  ASSUME NEW c
  PROVE  LET m == Collect(hitCache, CallsNow, Hit, <<evt, next>>)
             new == NewHit(Hit, <<evt, next>>, Onto(segType, CallsNow, Hit, c))
         IN  /\ DOMAIN m = DOMAIN hitCache \cup CellsHit
             /\ new.raw = Entries(c, next) /\ new.time = Hit.time
             /\ c \in DOMAIN m =>
                  m[c] = IF c \notin CellsHit THEN hitCache[c]
                         ELSE IF c \in DOMAIN hitCache THEN Merge(hitCache[c], new)
                         ELSE new
  BY DEF Collect, CellsOfCalls, CellsHit, Targets, CallsNow, NewHit, Entries, Hit

\* add_hit keeps the map exact.
LEMMA CollectHolds ==
  ASSUME InLoop, next \in Nat \ {0}, HoldsExactly(hitCache, next - 1)
  PROVE  HoldsExactly(Collect(hitCache, CallsNow, Hit, <<evt, next>>), next)
<1> DEFINE m == Collect(hitCache, CallsNow, Hit, <<evt, next>>)
           Raw(c, n) == UNION {Entries(c, i) : i \in 1 .. n}
<1>1. DOMAIN m = CellsOf(next)
  BY CollectCases, OneMore DEF HoldsExactly
<1>2. ASSUME NEW c \in DOMAIN m
      PROVE  m[c].raw = Raw(c, next)
  <2>1. Raw(c, next) = Raw(c, next - 1) \cup Entries(c, next)
    BY OneMore
  <2>2. c \in DOMAIN hitCache => hitCache[c].raw = Raw(c, next - 1)
    BY DEF HoldsExactly
  <2>3. CASE c \in CellsHit /\ c \in DOMAIN hitCache
    <3>1. m[c] = Merge(hitCache[c], NewHit(Hit, <<evt, next>>, Onto(segType, CallsNow, Hit, c)))
      BY <2>3, CollectCases
    <3>2. NewHit(Hit, <<evt, next>>, Onto(segType, CallsNow, Hit, c)).raw = Entries(c, next)
      BY CollectCases
    <3>3. m[c].raw = hitCache[c].raw \cup Entries(c, next)
      BY <3>1, <3>2 DEF Merge
    <3> QED
      BY <2>1, <2>2, <2>3, <3>3
  <2>4. CASE c \in CellsHit /\ c \notin DOMAIN hitCache
    <3>1. \A i \in 1 .. next - 1 : Entries(c, i) = {}
      BY <2>4, NoEntries DEF HoldsExactly, CellsOf
    <3>2. Raw(c, next - 1) = {}
      BY <3>1
    <3> QED
      BY <2>1, <2>4, <3>2, CollectCases
  <2>5. CASE c \notin CellsHit
    <3>1. c \in DOMAIN hitCache /\ m[c] = hitCache[c]
      BY <2>5, CollectCases
    <3>2. Entries(c, next) = {}
      BY <2>5, NoEntries DEF CellsHit, Hit
    <3> QED
      BY <2>1, <2>2, <3>1, <3>2
  <2> QED
    BY <2>3, <2>4, <2>5
<1> QED
  BY <1>1, <1>2 DEF HoldsExactly

\* add_hit keeps the earliest time.
LEMMA CollectEarliest ==
  ASSUME TypeOK, InLoop, next \in Nat \ {0}, HoldsExactly(hitCache, next - 1),
         \A c \in DOMAIN hitCache : Earliest(hitCache[c].time, ElectronsOf(c, next - 1))
  PROVE  LET m == Collect(hitCache, CallsNow, Hit, <<evt, next>>)
         IN  \A c \in DOMAIN m : Earliest(m[c].time, ElectronsOf(c, next))
<1> DEFINE m == Collect(hitCache, CallsNow, Hit, <<evt, next>>)
<1> SUFFICES ASSUME NEW c \in DOMAIN m
             PROVE  Earliest(m[c].time, ElectronsOf(c, next))
  OBVIOUS
<1>1. DOMAIN m = DOMAIN hitCache \cup CellsHit
  BY CollectCases
<1>2. \A i \in 1 .. next : in_hits[i].time \in Int
  <2>1. \A i \in 1 .. next : in_hits[i] \in Electrons
    BY DEF TypeOK, InLoop
  <2> QED
    BY <2>1, ElectronDataAssumption DEF Electrons
<1>3. Hit = in_hits[next] /\ ElectronsOf(c, next) \subseteq 1 .. next
  BY DEF Hit, ElectronsOf
<1>4. CASE c \in CellsHit /\ c \in DOMAIN hitCache
  <2>1. m[c].time = IF hitCache[c].time > Hit.time THEN Hit.time ELSE hitCache[c].time
    <3>1. m[c] = Merge(hitCache[c], NewHit(Hit, <<evt, next>>, Onto(segType, CallsNow, Hit, c)))
      BY <1>4, CollectCases
    <3>2. NewHit(Hit, <<evt, next>>, Onto(segType, CallsNow, Hit, c)).time = Hit.time
      BY CollectCases
    <3> QED
      BY <3>1, <3>2 DEF Merge
  <2>2. ElectronsOf(c, next) = ElectronsOf(c, next - 1) \cup {next}
    BY <1>4, OneMore
  <2>3. Earliest(hitCache[c].time, ElectronsOf(c, next - 1))
    BY <1>4
  <2> QED
    BY <1>2, <1>3, <2>1, <2>2, <2>3 DEF Earliest
<1>5. CASE c \in CellsHit /\ c \notin DOMAIN hitCache
  <2>1. m[c].time = Hit.time
    BY <1>5, CollectCases
  <2>2. ElectronsOf(c, next - 1) = {}
    BY <1>5 DEF HoldsExactly, Entries, ElectronsOf, CellsOf
  <2>3. ElectronsOf(c, next) = {next}
    BY <1>5, <2>2, OneMore
  <2> QED
    BY <1>2, <1>3, <2>1, <2>3 DEF Earliest
<1>6. CASE c \notin CellsHit
  <2>1. m[c] = hitCache[c] /\ c \in DOMAIN hitCache
    BY <1>6, CollectCases
  <2>2. ElectronsOf(c, next) = ElectronsOf(c, next - 1)
    BY <1>6, OneMore
  <2> QED
    BY <2>1, <2>2
<1> QED
  BY <1>4, <1>5, <1>6

LEMMA IInvInit == Init => IInv
  BY TypeInvInit DEF IInv, Init, GroupsThisEvent, TimeIsEarliest, NoFailureYet

LEMMA IInvNext ==
  ASSUME ErrorMax = 1
  PROVE  IInv /\ [Next]_vars => IInv'
<1> SUFFICES ASSUME IInv, [Next]_vars PROVE IInv'
  OBVIOUS
<1>0. TypeInv' /\ TypeInv
  BY TypeInvNext DEF IInv
<1>1. CASE Execute
  <2>1. hitCache' = NoHits /\ next' = 1 /\ pc' = "looping" /\ errors' = errors
    BY <1>1 DEF Execute, IInv, GroupsThisEvent
  <2>2. GroupsThisEvent'
    BY <2>1 DEF GroupsThisEvent, HoldsExactly, Entries, CellsOf, NoHits
  <2>3. TimeIsEarliest' /\ NoFailureYet'
    BY <1>1, <2>1 DEF Execute, TimeIsEarliest, NoHits, IInv, NoFailureYet
  <2> QED
    BY <1>0, <2>2, <2>3 DEF IInv
<1>2. CASE AddHit
  <2>1. /\ InLoop /\ next \in Nat \ {0} /\ TypeOK
        /\ HoldsExactly(hitCache, next - 1)
        /\ \A c \in DOMAIN hitCache : Earliest(hitCache[c].time, ElectronsOf(c, next - 1))
    BY <1>0, <1>2 DEF AddHit, InLoop, TypeInv, TypeOK, IInv, GroupsThisEvent, TimeIsEarliest
  <2>2. next' - 1 = next /\ pc' = "looping"
    BY <1>2, <2>1 DEF AddHit, InLoop
  <2>3. HoldsExactly(hitCache', next)
    BY <1>2, <2>1, CollectHolds DEF AddHit
  <2>4. \A c \in DOMAIN hitCache' : Earliest(hitCache'[c].time, ElectronsOf(c, next))
    BY <1>2, <2>1, CollectEarliest DEF AddHit
  <2>5. GroupsThisEvent'
    <3>1. /\ \A c, i : Entries(c, i)' = Entries(c, i)
          /\ CellsOf(next)' = UNION {Targets(segType, in_hits[i]) : i \in 1 .. next'}
      BY <1>2 DEF AddHit, Entries, CellsOf
    <3>2. HoldsExactly(hitCache, next - 1)'
      BY <2>2, <2>3, <3>1, <1>2 DEF AddHit, HoldsExactly, CellsOf
    <3> QED
      BY <2>2, <3>2 DEF GroupsThisEvent
  <2>6. TimeIsEarliest'
    BY <1>2, <2>2, <2>4 DEF AddHit, TimeIsEarliest, Earliest, ElectronsOf
  <2>7. NoFailureYet'
    BY <1>2, <2>2 DEF AddHit, InLoop, IInv, NoFailureYet
  <2> QED
    BY <1>0, <2>5, <2>6, <2>7 DEF IInv
<1>3. CASE AddHitThrows \/ RefuseMultiPcb \/ NoPcb
  <2>1. pc' \in {"failed", "crashed"} /\ errors' = errors /\ pc = "looping"
    BY <1>3 DEF AddHitThrows, RefuseMultiPcb, NoPcb, InLoop
  <2> QED
    BY <1>0, <2>1 DEF IInv, GroupsThisEvent, TimeIsEarliest, NoFailureYet
<1>4. CASE Flush
  <2>1. next - 1 = Len(in_hits)
    BY <1>0, <1>4 DEF Flush, TypeInv, TypeOK
  <2>2. GroupsThisEvent'
    BY <1>4, <2>1 DEF Flush, IInv, GroupsThisEvent, HoldsExactly, Entries, ElectronsOf, CellsOf
  <2>3. TimeIsEarliest'
    BY <1>4, <2>1 DEF Flush, IInv, TimeIsEarliest, Earliest, ElectronsOf
  <2>4. NoFailureYet'
    BY <1>4 DEF Flush, IInv, NoFailureYet
  <2> QED
    BY <1>0, <2>2, <2>3, <2>4 DEF IInv
<1>5. CASE EndEvent
  <2>1. pc' = IF pc = "failed" THEN "stopped" ELSE "idle"
    BY <1>5 DEF EndEvent, IInv, NoFailureYet
  <2>2. GroupsThisEvent' /\ TimeIsEarliest' /\ NoFailureYet'
    BY <1>5, <2>1 DEF EndEvent, IInv, GroupsThisEvent, TimeIsEarliest, NoFailureYet
  <2> QED
    BY <1>0, <2>2 DEF IInv
<1>6. CASE UNCHANGED vars
  <2>1. UNCHANGED <<segType, pc, evt, in_hits, next, hitCache, out_hits, errors>>
    BY <1>6 DEF vars
  <2>2. GroupsThisEvent'
    BY <2>1 DEF IInv, GroupsThisEvent, HoldsExactly, Entries, ElectronsOf, CellsOf
  <2>3. TimeIsEarliest'
    BY <2>1 DEF IInv, TimeIsEarliest, Earliest, ElectronsOf
  <2>4. NoFailureYet'
    BY <2>1 DEF IInv, NoFailureYet
  <2> QED
    BY <1>0, <2>2, <2>3, <2>4 DEF IInv
<1> QED
  BY <1>1, <1>2, <1>3, <1>4, <1>5, <1>6 DEF Next

LEMMA IInvHolds ==
  ASSUME ErrorMax = 1
  PROVE  Spec => []IInv
  BY IInvInit, IInvNext, PTL DEF Spec

(* Every electron of the event is in exactly its cells, no electron of     *)
(* another event is in any, for every readout geometry                     *)
(* (TpcSegmentAlg.cpp:98-139).                                             *)
THEOREM ExactGrouping ==
  ASSUME ErrorMax = 1
  PROVE  Spec => []GroupsThisEvent
<1>1. IInv => GroupsThisEvent
  BY DEF IInv
<1> QED
  BY <1>1, IInvHolds, PTL

(* The time of a hit is the earliest of its electrons, in any order of     *)
(* arrival (TpcSegmentAlg.cpp:164).                                        *)
THEOREM EarliestTime ==
  ASSUME ErrorMax = 1
  PROVE  Spec => []TimeIsEarliest
<1>1. IInv => TimeIsEarliest
  BY DEF IInv
<1> QED
  BY <1>1, IInvHolds, PTL

(* Hits of different PCBs of a pixel readout are never merged: it is the   *)
(* numbering of the PCBs (Tpc_OneSide_geo.cpp:263-271) that keeps them     *)
(* apart, for any number and overlap of PCBs (TpcSegmentAlg.cpp:123-127).  *)
THEOREM PcbsNeverMerge ==
  ASSUME ErrorMax = 1
  PROVE  Spec => []PcbsApart
<1>1. IInv => PcbsApart
  <2> SUFFICES ASSUME IInv, pc = "executed", segType = "CartesianGridXY",
                      NEW c \in DOMAIN out_hits,
                      NEW r \in out_hits[c].raw, NEW q \in out_hits[c].raw
               PROVE  r[3] = q[3]
    BY DEF PcbsApart, OnePcbPerCell
  <2> DEFINE Numbered(s) == c[2] = PcbId[s]
             Single == Cardinality(PcbsOf[c[1]]) = 1
  <2>1. ASSUME NEW e \in out_hits[c].raw
        PROVE  /\ c[1] \in Volumes /\ e[3] \in PcbsOf[c[1]]
               /\ ~Single => Numbered(e[3])
    <3>1. PICK i \in 1 .. Len(in_hits) : e \in Entries(c, i)
      BY DEF IInv, GroupsThisEvent, HoldsExactly
    <3>2. in_hits[i] \in Electrons
      BY DEF IInv, TypeInv, TypeOK
    <3>3. PICK a \in Calls("CartesianGridXY", in_hits[i]) :
            e[3] = a[1] /\ c = CellOf("CartesianGridXY", a, in_hits[i])
      BY <3>1 DEF Entries, Onto
    <3>4. a[1] \in Pcbs(in_hits[i])
      BY <3>2, CallsAreOnPcbs DEF SegTypes
    <3>5. c[1] = in_hits[i].vol /\ c[2] = a[2]
      BY <3>3 DEF CellOf, FieldKept
    <3>6. Cardinality(Pcbs(in_hits[i])) # 1 => a[2] = PcbId[a[1]]
      BY DEF Calls
    <3> QED
      BY <3>2, <3>3, <3>4, <3>5, <3>6 DEF Pcbs, Electrons
  <2>2. CASE Single
    <3>1. IsFiniteSet(PcbsOf[c[1]])
      BY <2>1, PcbsOfAssumption
    <3>2. PICK s : PcbsOf[c[1]] = {s}
      BY <2>2, <3>1, FS_Singleton
    <3> QED
      BY <2>1, <3>2
  <2>3. CASE ~Single
    BY <2>1, <2>3, PcbIdAssumption
  <2> QED
    BY <2>2, <2>3
<1> QED
  BY <1>1, IInvHolds, PTL

-----------------------------------------------------------------------------
(* What the hits add up to.  The energy of a cell is the sum of the shares *)
(* of its electrons, its weighted position the sum of their moments.       *)

PcbsOn(i, c) == Onto(segType, Calls(segType, in_hits[i]), in_hits[i], c)
Shares(c)   == [i \in DOMAIN in_hits |-> Cardinality(PcbsOn(i, c)) * in_hits[i].edep]
Moments(c)  == [i \in DOMAIN in_hits |->
                  Cardinality(PcbsOn(i, c)) * in_hits[i].edep * in_hits[i].place]

IsMap(m) == m = [c \in DOMAIN m |-> m[c]]

Summed(m, n) ==
  /\ IsMap(m)
  /\ \A c \in DOMAIN m : /\ m[c].energy = Sum(Shares(c), ElectronsOf(c, n))
                         /\ m[c].wpos = Sum(Moments(c), ElectronsOf(c, n))

Charges     == [i \in DOMAIN in_hits |-> in_hits[i].edep]
Energies(m) == [c \in DOMAIN m |-> m[c].energy]

LayersHave(m, n) ==
  isMultiSeg =>
    /\ IsFiniteSet(DOMAIN m)
    /\ \A layer \in Layers :
         Sum(Energies(m), {c \in DOMAIN m : c[2] = layer}) = Sum(Charges, 1 .. n)

SumsInv ==
  /\ pc = "looping" => /\ out_hits = NoHits
                       /\ Summed(hitCache, next - 1) /\ LayersHave(hitCache, next - 1)
  /\ pc = "executed" => Summed(out_hits, Len(in_hits)) /\ LayersHave(out_hits, Len(in_hits))

LEMMA SharesAreIntegers ==
  ASSUME TypeOK, NEW c, NEW i \in DOMAIN in_hits
  PROVE  /\ Shares(c)[i] \in Int /\ Moments(c)[i] \in Int /\ Charges[i] \in Int
         /\ in_hits[i] \in Electrons
<1>1. in_hits[i] \in Electrons /\ segType \in SegTypes
  BY DEF TypeOK
<1>2. Cardinality(PcbsOn(i, c)) \in Nat
  BY <1>1, OntoIsFinite DEF PcbsOn
<1>3. in_hits[i].edep \in Int /\ in_hits[i].place \in Int
  <2>1. ASSUME NEW h \in Electrons
        PROVE  h.edep \in Nat /\ h.place \in Int
    BY ElectronDataAssumption DEF Electrons
  <2> QED  BY <1>1, <2>1
<1>4. /\ Cardinality(PcbsOn(i, c)) * in_hits[i].edep \in Int
      /\ Cardinality(PcbsOn(i, c)) * in_hits[i].edep * in_hits[i].place \in Int
  BY <1>2, <1>3
<1> QED  BY <1>1, <1>3, <1>4 DEF Shares, Moments, Charges

LEMMA Commute ==
  ASSUME NEW a \in Int, NEW b \in Int
  PROVE  a + b = b + a
OBVIOUS

\* The sum over the electrons of a cell, when the current one joins them.
LEMMA SumOneMore ==
  ASSUME TypeOK, InLoop, next \in Nat \ {0}, NEW c, NEW f, \A i \in DOMAIN in_hits : f[i] \in Int
  PROVE  /\ c \in CellsHit =>
              Sum(f, ElectronsOf(c, next)) = Sum(f, ElectronsOf(c, next - 1)) + f[next]
         /\ c \notin CellsHit => ElectronsOf(c, next) = ElectronsOf(c, next - 1)
         /\ Sum(f, 1 .. next) = Sum(f, 1 .. next - 1) + f[next]
         /\ Sum(f, ElectronsOf(c, next - 1)) \in Int /\ f[next] \in Int
<1>1. ASSUME NEW S \in SUBSET (1 .. next - 1)
      PROVE  /\ Sum(f, S) \in Int /\ f[next] \in Int
             /\ Sum(f, S \cup {next}) = Sum(f, S) + f[next]
  <2>1. IsFiniteSet(1 .. next - 1)
    BY FS_Interval
  <2>2. IsFiniteSet(S)
    BY <2>1, FS_Subset
  <2>3. \A i \in 1 .. next : i \in DOMAIN in_hits
    BY DEF TypeOK, InLoop
  <2>4. IntegersOn(f, S) /\ f[next] \in Int /\ next \notin S
    BY <2>3 DEF IntegersOn
  <2>5. Sum(f, S) \in Int
    BY <2>2, <2>4, SumIsInt
  <2>6. Sum(f, S \cup {next}) = f[next] + Sum(f, S)
    BY <2>2, <2>4, SumAdd
  <2> QED  BY <2>4, <2>5, <2>6, Commute
<1>2. /\ ElectronsOf(c, next - 1) \in SUBSET (1 .. next - 1)
      /\ 1 .. next - 1 \in SUBSET (1 .. next - 1)
      /\ 1 .. next = (1 .. next - 1) \cup {next}
  BY DEF ElectronsOf
<1>3. ElectronsOf(c, next) = ElectronsOf(c, next - 1) \cup (IF c \in CellsHit THEN {next} ELSE {})
  BY OneMore
<1> QED  BY <1>1, <1>2, <1>3

\* add_hit keeps the sums.
LEMMA CollectSums ==
  ASSUME TypeOK, InLoop, next \in Nat \ {0}, HoldsExactly(hitCache, next - 1),
         Summed(hitCache, next - 1)
  PROVE  Summed(Collect(hitCache, CallsNow, Hit, <<evt, next>>), next)
<1> DEFINE m      == Collect(hitCache, CallsNow, Hit, <<evt, next>>)
           new(c) == NewHit(Hit, <<evt, next>>, Onto(segType, CallsNow, Hit, c))
<1>0. IsMap(m)
  BY DEF IsMap, Collect
<1> SUFFICES ASSUME NEW c \in DOMAIN m
             PROVE  /\ m[c].energy = Sum(Shares(c), ElectronsOf(c, next))
                    /\ m[c].wpos = Sum(Moments(c), ElectronsOf(c, next))
  BY <1>0 DEF Summed
<1>1. /\ DOMAIN m = DOMAIN hitCache \cup CellsHit
      /\ m[c] = IF c \notin CellsHit THEN hitCache[c]
                ELSE IF c \in DOMAIN hitCache THEN Merge(hitCache[c], new(c)) ELSE new(c)
  BY CollectCases
<1>2. next \in DOMAIN in_hits
  BY DEF TypeOK, InLoop
<1>3. new(c).energy = Shares(c)[next] /\ new(c).wpos = Moments(c)[next]
  BY <1>2 DEF NewHit, Shares, Moments, PcbsOn, Hit, CallsNow
<1>4. \A i \in DOMAIN in_hits : Shares(c)[i] \in Int /\ Moments(c)[i] \in Int
  BY SharesAreIntegers
<1>5. /\ c \in CellsHit =>
           /\ Sum(Shares(c), ElectronsOf(c, next))
                = Sum(Shares(c), ElectronsOf(c, next - 1)) + Shares(c)[next]
           /\ Sum(Moments(c), ElectronsOf(c, next))
                = Sum(Moments(c), ElectronsOf(c, next - 1)) + Moments(c)[next]
      /\ c \notin CellsHit => ElectronsOf(c, next) = ElectronsOf(c, next - 1)
      /\ Shares(c)[next] \in Int /\ Moments(c)[next] \in Int
  BY <1>2, <1>4, SumOneMore
<1>6. c \in DOMAIN hitCache =>
        /\ hitCache[c].energy = Sum(Shares(c), ElectronsOf(c, next - 1))
        /\ hitCache[c].wpos = Sum(Moments(c), ElectronsOf(c, next - 1))
  BY DEF Summed
<1> HIDE DEF m, new
<1>7. CASE c \notin CellsHit
  BY <1>1, <1>5, <1>6, <1>7
<1>8. CASE c \in CellsHit /\ c \in DOMAIN hitCache
  <2>1. /\ m[c].energy = hitCache[c].energy + new(c).energy
        /\ m[c].wpos = hitCache[c].wpos + new(c).wpos
    BY <1>1, <1>8 DEF Merge
  <2> QED  BY <1>3, <1>5, <1>6, <1>8, <2>1
<1>9. CASE c \in CellsHit /\ c \notin DOMAIN hitCache
  <2>1. ElectronsOf(c, next - 1) = {}
    BY <1>9 DEF HoldsExactly, ElectronsOf, CellsOf
  <2>2. Sum(Shares(c), {}) = 0 /\ Sum(Moments(c), {}) = 0
    BY SumEmpty
  <2>3. /\ Sum(Shares(c), ElectronsOf(c, next)) = 0 + Shares(c)[next]
        /\ Sum(Moments(c), ElectronsOf(c, next)) = 0 + Moments(c)[next]
    BY <1>5, <1>9, <2>1, <2>2
  <2>4. m[c] = new(c)
    BY <1>1, <1>9
  <2> QED  BY <1>3, <1>5, <2>3, <2>4
<1> QED  BY <1>7, <1>8, <1>9

-----------------------------------------------------------------------------
(* The layers of a strip readout.                                          *)

\* One strip of each layer is hit, once.
LEMMA OneStripPerLayer ==
  ASSUME TypeOK, InLoop, isMultiSeg, NrPcbs = 1, evt \in 1 .. EvtMax, NEW layer \in Layers
  PROVE  /\ \E c : /\ {d \in CellsHit : d[2] = layer} = {c}
                   /\ Cardinality(Onto(segType, CallsNow, Hit, c)) = 1
         /\ \A d \in CellsHit : d[2] \in Layers
<1>1. Hit \in Electrons
  BY CurrentElectron
<1>2. PICK s : Pcbs(Hit) = {s}
  <2>1. IsFiniteSet(Pcbs(Hit))
    BY <1>1, CallsAreOnPcbs DEF SegTypes
  <2> QED  BY <2>1, FS_Singleton DEF NrPcbs
<1>3. CallsNow = {s} \X Layers
  BY <1>2 DEF CallsNow, Calls, isMultiSeg
<1>4. \A a \in CallsNow : a[1] = s /\ a[2] \in Layers /\ a = <<s, a[2]>>
                          /\ CellOf(segType, a, Hit)[2] = a[2]
  BY <1>3 DEF CellOf, FieldKept, isMultiSeg
<1> DEFINE c == CellOf(segType, <<s, layer>>, Hit)
<1>5. <<s, layer>> \in CallsNow
  BY <1>3
<1>6. c \in CellsHit /\ c[2] = layer
  <2>1. CellsHit = {CellOf(segType, a, Hit) : a \in CallsNow}
    BY DEF CellsHit, Targets, CallsNow
  <2>2. c[2] = layer
    BY <1>4, <1>5
  <2> QED  BY <1>5, <2>1, <2>2
<1>7. ASSUME NEW d \in CellsHit, d[2] = layer
      PROVE  d = c
  <2>1. PICK a \in CallsNow : d = CellOf(segType, a, Hit)
    BY DEF CellsHit, Targets, CallsNow
  <2>2. a = <<s, layer>>
    BY <1>4, <1>7, <2>1
  <2> QED  BY <2>1, <2>2
<1>8. Onto(segType, CallsNow, Hit, c) = {s}
  <2> HIDE DEF c
  <2>1. \A a \in CallsNow : a[1] = s
    BY <1>4
  <2>2. \E b \in CallsNow : CellOf(segType, b, Hit) = c /\ b[1] = s
    BY <1>5 DEF c
  <2> QED  BY <2>1, <2>2 DEF Onto
<1>9. Cardinality({s}) = 1
  BY FS_Singleton
<1> HIDE DEF c
<1>10. {d \in CellsHit : d[2] = layer} = {c}
  BY <1>6, <1>7
<1>11. \A d \in CellsHit : d[2] \in Layers
  BY <1>4 DEF CellsHit, Targets, CallsNow
<1> QED  BY <1>8, <1>9, <1>10, <1>11

\* The new energies, in a layer whose strip c gains q, when the other
\* strips keep theirs.
LEMMA LayerGains ==
  ASSUME NEW E, NEW F, NEW D, IsFiniteSet(D), IntegersOn(E, D), NEW c, NEW q \in Int,
         \A d \in D : d # c => F[d] = E[d],
         F[c] = IF c \in D THEN E[c] + q ELSE q
  PROVE  Sum(F, D \cup {c}) = Sum(E, D) + q
<1> DEFINE R == D \ {c}
<1>1. IsFiniteSet(R) /\ IntegersOn(E, R) /\ IntegersOn(F, R) /\ \A d \in R : F[d] = E[d]
  BY FS_Subset DEF IntegersOn
<1>2. Sum(F, R) = Sum(E, R) /\ Sum(E, R) \in Int
  <2> HIDE DEF R
  <2> QED  BY <1>1, SumEqual, SumIsInt
<1>3. F[c] \in Int /\ c \notin R /\ R \cup {c} = D \cup {c}
  BY DEF IntegersOn
<1>4. Sum(F, D \cup {c}) = F[c] + Sum(F, R)
  <2> HIDE DEF R
  <2>1. Sum(F, R \cup {c}) = F[c] + Sum(F, R)
    BY <1>1, <1>3, SumAdd
  <2> QED  BY <1>3, <2>1
<1>5. CASE c \in D
  <2>1. Sum(E, D) = E[c] + Sum(E, R) /\ E[c] \in Int
    BY <1>5, SumRemove DEF IntegersOn
  <2>2. \A a, b \in Int : (a + q) + b = (a + b) + q
    OBVIOUS
  <2> QED  BY <1>2, <1>4, <1>5, <2>1, <2>2
<1>6. CASE c \notin D
  <2>1. R = D
    BY <1>6
  <2> QED  BY <1>2, <1>4, <1>6, <2>1, Commute
<1> QED  BY <1>5, <1>6

LEMMA EnergiesAreIntegers ==
  ASSUME NEW m, HitMap(m)
  PROVE  \A c \in DOMAIN m : Energies(m)[c] \in Int /\ Energies(m)[c] = m[c].energy
  BY DEF HitMap, Hits, Energies

\* Both layers gain the energy of the electron.
LEMMA CollectLayers ==
  ASSUME TypeOK, InLoop, NrPcbs = 1, evt \in 1 .. EvtMax, isMultiSeg,
         next \in Nat \ {0}, LayersHave(hitCache, next - 1)
  PROVE  LayersHave(Collect(hitCache, CallsNow, Hit, <<evt, next>>), next)
<1> DEFINE m == Collect(hitCache, CallsNow, Hit, <<evt, next>>)
           In(M, layer) == {d \in DOMAIN M : d[2] = layer}
<1>1. DOMAIN m = DOMAIN hitCache \cup CellsHit
  BY CollectCases
<1>2. IsFiniteSet(DOMAIN m)
  <2> DEFINE Strips(layer) == {d \in CellsHit : d[2] = layer}
  <2>1. ASSUME NEW layer \in Layers
        PROVE  IsFiniteSet(Strips(layer))
    <3>1. PICK c : Strips(layer) = {c}
      BY OneStripPerLayer
    <3>2. IsFiniteSet({c})
      BY FS_Singleton
    <3> QED  BY <3>1, <3>2
  <2>2. CellsHit = Strips(0) \cup Strips(1)
    BY OneStripPerLayer DEF Layers
  <2>3. IsFiniteSet(CellsHit)
    <3>1. IsFiniteSet(Strips(0)) /\ IsFiniteSet(Strips(1))
      BY <2>1 DEF Layers
    <3> HIDE DEF Strips
    <3> QED  BY <2>2, <3>1, FS_Union
  <2>4. IsFiniteSet(DOMAIN hitCache)
    BY DEF LayersHave
  <2> QED  BY <1>1, <2>3, <2>4, FS_Union
<1>3. ASSUME NEW layer \in Layers
      PROVE  Sum(Energies(m), In(m, layer)) = Sum(Charges, 1 .. next)
  <2>1. PICK c : /\ {d \in CellsHit : d[2] = layer} = {c}
                 /\ Cardinality(Onto(segType, CallsNow, Hit, c)) = 1
    BY OneStripPerLayer
  <2>2. c \in CellsHit /\ c[2] = layer
    BY <2>1
  <2> DEFINE q == Hit.edep
             D == In(hitCache, layer)
  <2>3. next \in DOMAIN in_hits /\ Charges[next] = q /\ q \in Int
    <3>1. next \in DOMAIN in_hits /\ Hit = in_hits[next]
      BY DEF TypeOK, InLoop, Hit
    <3> QED  BY <3>1, SharesAreIntegers DEF Charges
  <2>4. HitMap(hitCache) /\ HitMap(m)
    <3>1. HitMap(hitCache)
      BY DEF TypeOK
    <3> QED  BY <3>1, CurrentElectron, CollectTypes DEF CallsNow
  <2>5. IsFiniteSet(D) /\ IntegersOn(Energies(hitCache), D)
    <3>1. IsFiniteSet(DOMAIN hitCache)
      BY DEF LayersHave
    <3> QED  BY <2>4, <3>1, EnergiesAreIntegers, FS_Subset DEF IntegersOn
  <2>6. In(m, layer) = D \cup {c}
    BY <1>1, <2>1, <2>2
  <2>7. \A d \in D : d # c => d \in DOMAIN hitCache /\ d \in DOMAIN m /\ d \notin CellsHit
    BY <1>1, <2>1
  <2>8. \A d \in D : d # c => Energies(m)[d] = Energies(hitCache)[d]
    <3> SUFFICES ASSUME NEW d \in D, d # c
                 PROVE  Energies(m)[d] = Energies(hitCache)[d]
      OBVIOUS
    <3>1. d \in DOMAIN hitCache /\ d \in DOMAIN m /\ d \notin CellsHit
      BY <2>7
    <3>2. m[d] = hitCache[d]
      BY <3>1, CollectCases
    <3> HIDE DEF m
    <3> QED  BY <3>1, <3>2 DEF Energies
  <2>9. Energies(m)[c] = IF c \in D THEN Energies(hitCache)[c] + q ELSE q
    <3> DEFINE new == NewHit(Hit, <<evt, next>>, Onto(segType, CallsNow, Hit, c))
    <3>1. new.energy = q
      BY <2>1, <2>3 DEF NewHit
    <3>2. m[c] = IF c \in DOMAIN hitCache THEN Merge(hitCache[c], new) ELSE new
      BY <1>1, <2>2, CollectCases
    <3>3. c \in DOMAIN m /\ (c \in D <=> c \in DOMAIN hitCache)
      BY <1>1, <2>2
    <3> HIDE DEF m, new, q, D
    <3>4. CASE c \in DOMAIN hitCache
      <4>1. m[c].energy = hitCache[c].energy + q
        BY <3>1, <3>2, <3>4 DEF Merge
      <4> QED  BY <3>3, <3>4, <4>1 DEF Energies
    <3>5. CASE c \notin DOMAIN hitCache
      <4>1. m[c].energy = q
        BY <3>1, <3>2, <3>5
      <4> QED  BY <3>3, <3>5, <4>1 DEF Energies
    <3> QED  BY <3>4, <3>5
  <2>10. Sum(Energies(hitCache), D) = Sum(Charges, 1 .. next - 1)
    BY DEF LayersHave
  <2>11. Sum(Charges, 1 .. next) = Sum(Charges, 1 .. next - 1) + q
    <3>1. \A i \in DOMAIN in_hits : Charges[i] \in Int
      BY SharesAreIntegers
    <3> HIDE DEF q
    <3> QED  BY <2>3, <3>1, SumOneMore
  <2> HIDE DEF m, q, D, In
  <2>12. Sum(Energies(m), D \cup {c}) = Sum(Energies(hitCache), D) + q
    <3> DEFINE E == Energies(hitCache)
               F == Energies(m)
    <3>1. /\ IsFiniteSet(D) /\ IntegersOn(E, D) /\ q \in Int
          /\ \A d \in D : d # c => F[d] = E[d]
          /\ F[c] = IF c \in D THEN E[c] + q ELSE q
      BY <2>3, <2>5, <2>8, <2>9
    <3> HIDE DEF E, F
    <3>2. Sum(F, D \cup {c}) = Sum(E, D) + q
      BY <3>1, LayerGains
    <3> QED  BY <3>2 DEF E, F
  <2> QED  BY <2>6, <2>10, <2>11, <2>12
<1> QED  BY <1>2, <1>3 DEF LayersHave

-----------------------------------------------------------------------------
(* The sums are kept by every step.                                        *)

\* They are functions of the event's electrons.
LEMMA SumsUnchanged ==
  ASSUME UNCHANGED <<segType, in_hits>>, NEW m, NEW n
  PROVE  /\ Summed(m, n)' = Summed(m, n) /\ LayersHave(m, n)' = LayersHave(m, n)
<1>1. \A c : /\ ElectronsOf(c, n)' = ElectronsOf(c, n)
             /\ Shares(c)' = Shares(c) /\ Moments(c)' = Moments(c)
  BY DEF ElectronsOf, Shares, Moments, PcbsOn
<1>2. Charges' = Charges /\ isMultiSeg' = isMultiSeg
  BY DEF Charges, isMultiSeg
<1> QED  BY <1>1, <1>2 DEF Summed, LayersHave, Energies

\* At the start of the next event.
LEMMA SumsOfNothing == (Summed(NoHits, 0) /\ LayersHave(NoHits, 0))'
<1>1. DOMAIN NoHits = {} /\ 1 .. 0 = {}
  BY DEF NoHits
<1>2. \A layer : {c \in DOMAIN NoHits : c[2] = layer} = {}
  BY <1>1
<1>3. Sum(Energies(NoHits), {}) = Sum(Charges', {})
  BY SumEmpty
<1>4. IsMap(NoHits)
  BY DEF IsMap, NoHits
<1> QED  BY <1>1, <1>2, <1>3, <1>4, FS_EmptySet DEF Summed, LayersHave, Energies

LEMMA SumsInvNext ==
  ASSUME ErrorMax = 1
  PROVE  IInv /\ SumsInv /\ [Next]_vars => SumsInv'
<1> SUFFICES ASSUME IInv, SumsInv, [Next]_vars PROVE SumsInv'
  OBVIOUS
<1>0. TypeOK /\ (pc = "looping" => evt \in 1 .. EvtMax)
  BY DEF IInv, TypeInv
<1>1. CASE Execute
  <2>1. /\ hitCache' = NoHits /\ next' - 1 = 0 /\ pc' = "looping" /\ out_hits' = NoHits
    BY <1>1 DEF Execute, IInv, GroupsThisEvent
  <2>2. (Summed(NoHits, 0) /\ LayersHave(NoHits, 0))'
    BY SumsOfNothing
  <2> QED  BY <2>1, <2>2 DEF SumsInv
<1>2. CASE AddHit
  <2> DEFINE m == Collect(hitCache, CallsNow, Hit, <<evt, next>>)
  <2>1. /\ InLoop /\ next \in Nat \ {0} /\ pc = "looping" /\ evt \in 1 .. EvtMax
        /\ isMultiSeg => NrPcbs = 1
        /\ HoldsExactly(hitCache, next - 1)
        /\ Summed(hitCache, next - 1) /\ LayersHave(hitCache, next - 1) /\ out_hits = NoHits
    BY <1>0, <1>2 DEF AddHit, InLoop, TypeOK, IInv, GroupsThisEvent, SumsInv
  <2>2. Summed(m, next) /\ LayersHave(m, next)
    <3>1. Summed(m, next)
      BY <1>0, <2>1, CollectSums
    <3>2. isMultiSeg => LayersHave(m, next)
      BY <1>0, <2>1, CollectLayers
    <3>3. ~isMultiSeg => LayersHave(m, next)
      BY DEF LayersHave
    <3> QED  BY <3>1, <3>2, <3>3
  <2>3. /\ hitCache' = m /\ next' - 1 = next /\ pc' = "looping" /\ out_hits' = NoHits
        /\ UNCHANGED <<segType, in_hits>>
    BY <1>2, <2>1 DEF AddHit
  <2>4. Summed(hitCache, next - 1)' /\ LayersHave(hitCache, next - 1)'
    <3> HIDE DEF m
    <3>1. PICK k, n : k = m /\ n = next
      OBVIOUS
    <3>2. Summed(k, n)' /\ LayersHave(k, n)'
      BY <2>2, <2>3, <3>1, SumsUnchanged
    <3>3. hitCache' = k /\ (next - 1)' = n
      BY <2>3, <3>1
    <3>4. /\ Summed(hitCache, next - 1)' = Summed(k, n)'
          /\ LayersHave(hitCache, next - 1)' = LayersHave(k, n)'
      BY <3>3 DEF Summed, LayersHave, Energies, ElectronsOf
    <3> QED  BY <3>2, <3>4
  <2> QED  BY <2>3, <2>4 DEF SumsInv
<1>3. CASE AddHitThrows \/ RefuseMultiPcb \/ NoPcb
  <2>1. pc' \in {"failed", "crashed"}
    BY <1>3 DEF AddHitThrows, RefuseMultiPcb, NoPcb
  <2> QED  BY <2>1 DEF SumsInv
<1>4. CASE Flush
  <2>1. /\ pc = "looping" /\ next - 1 = Len(in_hits) /\ pc' = "executed"
        /\ out_hits' = hitCache /\ UNCHANGED <<segType, in_hits>>
    BY <1>0, <1>4 DEF Flush, TypeOK
  <2>2. Summed(hitCache, Len(in_hits)) /\ LayersHave(hitCache, Len(in_hits))
    BY <2>1 DEF SumsInv
  <2>3. PICK k, n : k = hitCache /\ n = Len(in_hits)
    OBVIOUS
  <2>4. Summed(k, n)' /\ LayersHave(k, n)'
    BY <2>1, <2>2, <2>3, SumsUnchanged
  <2>5. out_hits' = k /\ Len(in_hits)' = n
    BY <2>1, <2>3
  <2>6. /\ Summed(out_hits, Len(in_hits))' = Summed(k, n)'
        /\ LayersHave(out_hits, Len(in_hits))' = LayersHave(k, n)'
    BY <2>5 DEF Summed, LayersHave, Energies, ElectronsOf
  <2> QED  BY <2>1, <2>4, <2>6 DEF SumsInv
<1>5. CASE EndEvent
  <2>1. pc' \in {"stopped", "idle"}
    BY <1>5 DEF EndEvent
  <2> QED  BY <2>1 DEF SumsInv
<1>6. CASE UNCHANGED vars
  BY <1>6 DEF vars, SumsInv, Summed, LayersHave, Energies, ElectronsOf, Shares, Moments,
              PcbsOn, Charges, isMultiSeg
<1> QED  BY <1>1, <1>2, <1>3, <1>4, <1>5, <1>6 DEF Next

LEMMA SumsHold ==
  ASSUME ErrorMax = 1
  PROVE  Spec => [](IInv /\ SumsInv)
<1>1. Init => SumsInv
  BY DEF Init, SumsInv
<1> QED  BY <1>1, IInvInit, IInvNext, SumsInvNext, PTL DEF Spec

(* Each layer of a strip readout holds the whole charge of the event,      *)
(* whatever the strips are and however the electrons are spread            *)
(* (TpcSegmentAlg.cpp:105-118 and 159-170).                                *)
THEOREM LayersHoldAllCharge ==
  ASSUME ErrorMax = 1
  PROVE  Spec => []LayersSeeAllCharge
<1>1. SumsInv => LayersSeeAllCharge
  BY DEF SumsInv, LayersHave, LayersSeeAllCharge, LayerCharge, ChargeOf, Energies, Charges, Sum
<1> QED  BY <1>1, SumsHold, PTL

-----------------------------------------------------------------------------
(* The grouping of the whole event in one step.                            *)

\* The instance has the operators of the library modules anew.
LEMMA SameLibrary ==
  /\ \A S : Grouping!Cardinality(S) = Cardinality(S)
  /\ \A f : Grouping!SumFunction(f) = SumFunction(f)
<1>1. \A S : Grouping!Cardinality(S) = Cardinality(S)
  BY DEF Grouping!Cardinality, Cardinality
<1>2. \A f : Grouping!SumFunction(f) = SumFunction(f)
  BY DEF Grouping!SumFunction, Grouping!SumFunctionOnSet, Grouping!FoldFunctionOnSet,
         Grouping!MapThenFoldSet, SumFunction, SumFunctionOnSet, FoldFunctionOnSet, MapThenFoldSet
<1> QED  BY <1>1, <1>2

\* The readout is the same in both specifications.
LEMMA SameReadout ==
  /\ \A h : Grouping!Targets(segType, h) = Targets(segType, h)
  /\ \A i, c : Grouping!PcbsOn(i, c) = PcbsOn(i, c)
<1>1. \A h, a : Grouping!CellOf(segType, a, h) = CellOf(segType, a, h)
  BY DEF Grouping!CellOf, Grouping!FieldKept, CellOf, FieldKept
<1>2. \A h : Grouping!Calls(segType, h) = Calls(segType, h)
  BY SameLibrary DEF Grouping!Calls, Grouping!Pcbs, Grouping!NoField, Grouping!Layers,
                     Calls, Pcbs, NoField, Layers
<1>3. \A h : Grouping!Targets(segType, h) = Targets(segType, h)
  BY <1>1, <1>2 DEF Grouping!Targets, Targets
<1>4. \A i, c : Grouping!PcbsOn(i, c) = PcbsOn(i, c)
  BY <1>1, <1>2 DEF Grouping!PcbsOn, Grouping!Onto, PcbsOn, Onto
<1> QED  BY <1>3, <1>4

\* The one-step grouping of a cell, in the terms of the detailed one.
LEMMA GroupedCell ==
  ASSUME TypeOK, NEW c
  PROVE  LET n == Len(in_hits)
             E == ElectronsOf(c, n)
         IN  /\ Grouping!AllCells = CellsOf(n)
             /\ Grouping!HitOf(c).raw = UNION {Entries(c, i) : i \in 1 .. n}
             /\ Grouping!HitOf(c).energy = Sum(Shares(c), E)
             /\ Grouping!HitOf(c).wpos = Sum(Moments(c), E)
             /\ \A t : Earliest(t, E) => Grouping!HitOf(c).time = t
             /\ \E r, e, t, w :
                  Grouping!HitOf(c) = [raw |-> r, energy |-> e, time |-> t, wpos |-> w]
<1> DEFINE n == Len(in_hits)
           E == ElectronsOf(c, n)
<1>1. DOMAIN in_hits = 1 .. n
  BY DEF TypeOK
<1>2. Grouping!AllCells = CellsOf(n)
  BY <1>1, SameReadout DEF Grouping!AllCells, CellsOf
<1>3. Grouping!ElectronsOf(c) = E
  BY <1>1, SameReadout DEF Grouping!ElectronsOf, ElectronsOf
<1>4. /\ E \subseteq 1 .. n /\ IsFiniteSet(E)
      /\ \A i \in E : /\ i \in DOMAIN in_hits /\ Shares(c)[i] \in Int /\ Moments(c)[i] \in Int
                      /\ in_hits[i] \in Electrons
  <2>1. E \subseteq 1 .. n
    BY DEF ElectronsOf
  <2>2. IsFiniteSet(E)
    <3>1. n \in Nat /\ IsFiniteSet(1 .. n)
      BY FS_Interval DEF TypeOK
    <3> HIDE DEF E
    <3> QED  BY <2>1, <3>1, FS_Subset
  <2> HIDE DEF E, n
  <2> QED  BY <1>1, <2>1, <2>2, SharesAreIntegers
<1> DEFINE energies == [i \in E |-> Cardinality(Grouping!PcbsOn(i, c)) * in_hits[i].edep]
           moments  == [i \in E |-> Cardinality(Grouping!PcbsOn(i, c)) * in_hits[i].edep
                                      * in_hits[i].place]
           raw      == UNION {{<<evt, i, s>> : s \in Grouping!PcbsOn(i, c)} : i \in E}
           times    == {in_hits[i].time : i \in E}
<1> HIDE DEF n, E
<1>5. Grouping!HitOf(c) = [raw |-> raw, energy |-> SumFunction(energies),
                           time |-> Grouping!Min(times), wpos |-> SumFunction(moments)]
  <2>1. \A S : Grouping!Cardinality(S) = Cardinality(S)
    BY SameLibrary
  <2>2. \A f : Grouping!SumFunction(f) = SumFunction(f)
    BY SameLibrary
  <2> QED  BY <1>3, <2>1, <2>2 DEF Grouping!HitOf
<1>6. SumFunction(energies) = Sum(energies, E) /\ SumFunction(moments) = Sum(moments, E)
  BY DEF SumFunction, Sum
<1>7. \A i \in E : energies[i] = Shares(c)[i] /\ moments[i] = Moments(c)[i]
  BY <1>4, SameReadout DEF Shares, Moments
<1>8. raw = UNION {Entries(c, i) : i \in 1 .. n}
  <2>1. \A i : Entries(c, i) = {<<evt, i, s>> : s \in PcbsOn(i, c)}
    BY DEF Entries, PcbsOn
  <2>2. \A i \in 1 .. n : i \notin E => Entries(c, i) = {}
    BY NoEntries DEF E, ElectronsOf
  <2>3. \A i : {<<evt, i, s>> : s \in Grouping!PcbsOn(i, c)} = Entries(c, i)
    BY <2>1, SameReadout
  <2>4. raw = UNION {Entries(c, i) : i \in E}
    BY <2>3
  <2> QED  BY <1>4, <2>2, <2>4
<1>9. \A t : Earliest(t, E) => Grouping!Min(times) = t
  <2> SUFFICES ASSUME NEW t, Earliest(t, E)
               PROVE  Grouping!Min(times) = t
    OBVIOUS
  <2>1. \A i \in E : in_hits[i].time \in Int
    <3>1. ASSUME NEW h \in Electrons
          PROVE  h.time \in Int
      BY ElectronDataAssumption DEF Electrons
    <3> QED  BY <1>4, <3>1
  <2>2. /\ t \in times /\ \A u \in times : t <= u
        /\ \A u \in times : u \in Int
    BY <2>1 DEF Earliest
  <2> HIDE DEF times
  <2>3. Grouping!Min(times) \in times /\ \A u \in times : Grouping!Min(times) <= u
    BY <2>2 DEF Grouping!Min
  <2> QED  BY <2>2, <2>3
<1> HIDE DEF raw, energies, moments, times
<1>10. Sum(energies, E) = Sum(Shares(c), E) /\ Sum(moments, E) = Sum(Moments(c), E)
  BY <1>4, <1>7, SumEqual
<1>11. /\ Grouping!HitOf(c).raw = raw /\ Grouping!HitOf(c).energy = Sum(Shares(c), E)
       /\ Grouping!HitOf(c).wpos = Sum(Moments(c), E)
       /\ Grouping!HitOf(c).time = Grouping!Min(times)
  BY <1>5, <1>6, <1>10
<1>12. \E r, e, t, w :
         Grouping!HitOf(c) = [raw |-> r, energy |-> e, time |-> t, wpos |-> w]
  BY <1>5
<1>13. \A t : Earliest(t, E) => Grouping!HitOf(c).time = t
  BY <1>9, <1>11
<1> QED  BY <1>2, <1>8, <1>11, <1>12, <1>13 DEF n, E

\* What a complete loop has in its cache is that grouping.
LEMMA CacheIsGrouping ==
  ASSUME TypeOK, HoldsExactly(hitCache, Len(in_hits)), Summed(hitCache, Len(in_hits)),
         \A c \in DOMAIN hitCache : Earliest(hitCache[c].time, ElectronsOf(c, Len(in_hits)))
  PROVE  hitCache = [c \in Grouping!AllCells |-> Grouping!HitOf(c)]
<1>1. DOMAIN hitCache = Grouping!AllCells
  BY GroupedCell DEF HoldsExactly
<1>2. ASSUME NEW c \in DOMAIN hitCache
      PROVE  hitCache[c] = Grouping!HitOf(c)
  <2> DEFINE a == hitCache[c]
             b == Grouping!HitOf(c)
  <2>1. \E r, e, t, w : a = [raw |-> r, energy |-> e, time |-> t, wpos |-> w]
    BY DEF TypeOK, HitMap, Hits
  <2>2. \E r, e, t, w : b = [raw |-> r, energy |-> e, time |-> t, wpos |-> w]
    BY GroupedCell
  <2>3. a.raw = b.raw
    BY GroupedCell DEF HoldsExactly
  <2>4. a.energy = b.energy /\ a.wpos = b.wpos
    BY GroupedCell DEF Summed
  <2>5. a.time = b.time
    BY GroupedCell
  <2> HIDE DEF a, b
  <2>6. a = b
    BY <2>1, <2>2, <2>3, <2>4, <2>5
  <2> QED  BY <2>6 DEF a, b
<1>3. hitCache = [c \in DOMAIN hitCache |-> hitCache[c]]
  BY DEF Summed, IsMap
<1> QED  BY <1>1, <1>2, <1>3

LEMMA StepsGroup ==
  ASSUME IInv, SumsInv, [Next]_vars
  PROVE  [Grouping!Next]_(Grouping!groupVars)
<1> USE DEF Grouping!groupVars
<1>0. NoHits = Grouping!NoHits
  BY DEF NoHits, Grouping!NoHits
<1>1. CASE Execute
  <2>1. Grouping!Arrive
    BY <1>0, <1>1 DEF Execute, Grouping!Arrive
  <2> QED  BY <2>1 DEF Grouping!Next
<1>2. CASE AddHit \/ AddHitThrows \/ RefuseMultiPcb \/ NoPcb
  <2>1. UNCHANGED <<segType, evt, in_hits, out_hits>>
    BY <1>2 DEF AddHit, AddHitThrows, RefuseMultiPcb, NoPcb
  <2> QED  BY <2>1
<1>3. CASE Flush
  <2>1. /\ pc = "looping" /\ next - 1 = Len(in_hits) /\ TypeOK
        /\ out_hits' = hitCache /\ UNCHANGED <<segType, evt, in_hits>>
    BY <1>3 DEF Flush, TypeOK, IInv, TypeInv
  <2>2. /\ out_hits = NoHits
        /\ HoldsExactly(hitCache, Len(in_hits)) /\ Summed(hitCache, Len(in_hits))
        /\ \A c \in DOMAIN hitCache : Earliest(hitCache[c].time, ElectronsOf(c, Len(in_hits)))
    BY <2>1 DEF IInv, GroupsThisEvent, TimeIsEarliest, SumsInv
  <2>3. hitCache = [c \in Grouping!AllCells |-> Grouping!HitOf(c)]
    BY <2>1, <2>2, CacheIsGrouping
  <2>4. Grouping!Group
    BY <1>0, <2>1, <2>2, <2>3 DEF Grouping!Group
  <2> QED  BY <2>4 DEF Grouping!Next
<1>4. CASE EndEvent
  <2>1. Grouping!Clear
    BY <1>0, <1>4 DEF EndEvent, Grouping!Clear
  <2> QED  BY <2>1 DEF Grouping!Next
<1>5. CASE UNCHANGED vars
  BY <1>5 DEF vars
<1> QED  BY <1>1, <1>2, <1>3, <1>4, <1>5 DEF Next

(* Adding the electrons one at a time to a member map gives, event by      *)
(* event, the grouping of the whole collection: which cells there are,     *)
(* and for each its electrons, summed energy, earliest time and weighted   *)
(* position (TpcSegmentAlg.cpp:93-174).                                    *)
THEOREM Refinement ==
  ASSUME ErrorMax = 1
  PROVE  Spec => ImplementsCellGrouping
<1>1. Init => Grouping!Init
  BY DEF Init, Grouping!Init, NoHits, Grouping!NoHits, Grouping!SegTypes, SegTypes
<1>2. IInv /\ SumsInv /\ [Next]_vars => [Grouping!Next]_(Grouping!groupVars)
  BY StepsGroup
<1> QED  BY <1>1, <1>2, SumsHold, PTL DEF Spec, ImplementsCellGrouping, Grouping!Spec

-----------------------------------------------------------------------------
(* The diagonal strips.  With S the strip size, the two floors give        *)
(*   S * normX <= Y - X < S * normX + S,                                   *)
(*   S * normY <= Y + X < S * normY + S,                                   *)
(* whose difference (sum) encloses 2X (2Y); by the parity of normX - normY *)
(* the halved bin loses nothing.                                           *)

OnPlane == probeX \in Int /\ probeY \in Int

LEMMA DifferenceTimes ==
  ASSUME NEW s \in Int, NEW a \in Int, NEW b \in Int
  PROVE  s * (b - a) = s * b - s * a
  BY Z3

LEMMA SuccessorTimes ==
  ASSUME NEW s \in Int, NEW a \in Int, NEW b \in Int
  PROVE  s * (a + b + 1) = s * a + s * b + s
  BY Z3

\* The number of half strips in twice a bin.
LEMMA TwiceBin ==
  ASSUME NEW bin \in Int
  PROVE  /\ StripSize * (2 * bin) = 2 * (bin * StripSize)
         /\ bin * StripSize \in Int
  BY SizeAssumption, Z3 DEF StripSize

LEMMA XStrip ==
  ASSUME NEW X \in Int, NEW Y \in Int, SameParity(ToNormX(X, Y), ToNormY(X, Y))
  PROVE  LET bin == ToBinX(ToNormX(X, Y), ToNormY(X, Y))
         IN  bin \in Int /\ X - bin * StripSize \in -HalfStrip .. HalfStrip
<1> DEFINE a   == ToNormX(X, Y)
           b   == ToNormY(X, Y)
           bin == ToBinX(a, b)
<1>0. StripSize \in Nat \ {0} /\ StripSize = 2 * HalfStrip /\ HalfStrip \in Nat
  BY SizeAssumption DEF StripSize
<1>1. a \in Int /\ StripSize * a <= Y - X /\ Y - X < StripSize * a + StripSize
  BY <1>0, FloorLaw, Y - X \in Int DEF ToNormX
<1>2. b \in Int /\ StripSize * b <= Y + X /\ Y + X < StripSize * b + StripSize
  BY <1>0, FloorLaw, Y + X \in Int DEF ToNormY
<1> HIDE DEF a, b
<1>3. bin \in Int /\ 2 * bin = b - a
  BY <1>1, <1>2, SameParity(a, b) DEF ToBinX, SameParity, a, b
<1>4. StripSize * b - StripSize * a = 2 * (bin * StripSize)
  BY <1>0, <1>1, <1>2, <1>3, DifferenceTimes, TwiceBin
<1> DEFINE p == StripSize * a
           q == StripSize * b
           m == bin * StripSize
<1>5. p \in Int /\ q \in Int /\ m \in Int
  BY <1>0, <1>1, <1>2, <1>3
<1> HIDE DEF p, q, m, bin
<1>6. 2 * (X - m) < StripSize /\ 2 * (X - m) > -StripSize
  <2>1. p <= Y - X /\ Y - X < p + StripSize  BY <1>1 DEF p
  <2>2. q <= Y + X /\ Y + X < q + StripSize  BY <1>2 DEF q
  <2>3. q - p = 2 * m  BY <1>4 DEF p, q, m
  <2> QED  BY <1>0, <1>5, <2>1, <2>2, <2>3
<1>7. X - m \in -HalfStrip .. HalfStrip
  BY <1>0, <1>5, <1>6
<1> QED  BY <1>3, <1>7 DEF m, bin, a, b

LEMMA YStrip ==
  ASSUME NEW X \in Int, NEW Y \in Int, ~ SameParity(ToNormX(X, Y), ToNormY(X, Y))
  PROVE  LET bin == ToBinY(ToNormX(X, Y), ToNormY(X, Y))
         IN  bin \in Int /\ Y - bin * StripSize \in -HalfStrip .. HalfStrip
<1> DEFINE a   == ToNormX(X, Y)
           b   == ToNormY(X, Y)
           bin == ToBinY(a, b)
<1>0. StripSize \in Nat \ {0} /\ StripSize = 2 * HalfStrip /\ HalfStrip \in Nat
  BY SizeAssumption DEF StripSize
<1>1. a \in Int /\ StripSize * a <= Y - X /\ Y - X < StripSize * a + StripSize
  BY <1>0, FloorLaw, Y - X \in Int DEF ToNormX
<1>2. b \in Int /\ StripSize * b <= Y + X /\ Y + X < StripSize * b + StripSize
  BY <1>0, FloorLaw, Y + X \in Int DEF ToNormY
<1> HIDE DEF a, b
<1>3. bin \in Int /\ 2 * bin = a + b + 1
  BY <1>1, <1>2, ~ SameParity(a, b) DEF ToBinY, SameParity, a, b
<1>4. StripSize * a + StripSize * b + StripSize = 2 * (bin * StripSize)
  BY <1>0, <1>1, <1>2, <1>3, SuccessorTimes, TwiceBin
<1> DEFINE p == StripSize * a
           q == StripSize * b
           m == bin * StripSize
<1>5. p \in Int /\ q \in Int /\ m \in Int
  BY <1>0, <1>1, <1>2, <1>3
<1> HIDE DEF p, q, m, bin
<1>6. 2 * (Y - m) < StripSize /\ 2 * (Y - m) >= -StripSize
  <2>1. p <= Y - X /\ Y - X < p + StripSize  BY <1>1 DEF p
  <2>2. q <= Y + X /\ Y + X < q + StripSize  BY <1>2 DEF q
  <2>3. p + q + StripSize = 2 * m  BY <1>4 DEF p, q, m
  <2> QED  BY <1>0, <1>5, <2>1, <2>2, <2>3
<1>7. Y - m \in -HalfStrip .. HalfStrip
  BY <1>0, <1>5, <1>6
<1> QED  BY <1>3, <1>7 DEF m, bin, a, b

LEMMA EveryPlace ==
  ASSUME OnPlane
  PROVE  WithinHalfStrip
<1> DEFINE X == ToEdge(probeX, OffsetX)
           Y == ToEdge(probeY, OffsetY)
           a == ToNormX(X, Y)
           b == ToNormY(X, Y)
<1>1. X \in Int /\ Y \in Int
  BY SizeAssumption, OffsetAssumption DEF OnPlane, ToEdge
<1>2. CASE SameParity(a, b)
  <2> DEFINE bin == ToBinX(a, b)
  <2>1. CellID(probeX, probeY) = [layer |-> LayerX, strip |-> bin]
    BY <1>2 DEF CellID
  <2>2. bin \in Int /\ X - bin * StripSize \in -HalfStrip .. HalfStrip
    BY <1>1, <1>2, XStrip
  <2> DEFINE m == bin * StripSize
  <2>3. m \in Int  BY <2>2, TwiceBin
  <2> HIDE DEF bin
  <2>4. probeX - (m + OffsetX + HalfStrip) = X - m
    BY <2>3, SizeAssumption, OffsetAssumption DEF OnPlane, ToEdge
  <2>5. probeX - Position(CellID(probeX, probeY), OffsetX) \in -HalfStrip .. HalfStrip
    BY <2>1, <2>2, <2>4 DEF Position
  <2> QED  BY <2>1, <2>5, LayersDiffer DEF WithinHalfStrip
<1>3. CASE ~ SameParity(a, b)
  <2> DEFINE bin == ToBinY(a, b)
  <2>1. CellID(probeX, probeY) = [layer |-> LayerY, strip |-> bin]
    BY <1>3 DEF CellID
  <2>2. bin \in Int /\ Y - bin * StripSize \in -HalfStrip .. HalfStrip
    BY <1>1, <1>3, YStrip
  <2> DEFINE m == bin * StripSize
  <2>3. m \in Int  BY <2>2, TwiceBin
  <2> HIDE DEF bin
  <2>4. probeY - (m + OffsetY + HalfStrip) = Y - m
    BY <2>3, SizeAssumption, OffsetAssumption DEF OnPlane, ToEdge
  <2>5. probeY - Position(CellID(probeX, probeY), OffsetY) \in -HalfStrip .. HalfStrip
    BY <2>1, <2>2, <2>4 DEF Position
  <2> QED  BY <2>1, <2>5, LayersDiffer DEF WithinHalfStrip
<1> QED  BY <1>2, <1>3

\* A quotient grows by one with each divisor added.
LEMMA FloorOfSum ==
  ASSUME NEW a \in Int, NEW s \in Nat \ {0}
  PROVE  /\ (a + s) \div s = (a \div s) + 1
         /\ (a - s) \div s = (a \div s) - 1
<1> DEFINE q == a \div s
           u == (a + s) \div s
           d == (a - s) \div s
<1>1. q \in Int /\ s * q <= a /\ a < s * q + s
  BY FloorLaw
<1>2. u \in Int /\ s * u <= a + s /\ a + s < s * u + s
  BY FloorLaw, a + s \in Int
<1>3. d \in Int /\ s * d <= a - s /\ a - s < s * d + s
  BY FloorLaw, a - s \in Int
<1> HIDE DEF q, u, d
<1>4. u = q + 1
  BY <1>1, <1>2, Squeezed, q + 1 \in Int, s * (q + 1) = s * q + s, a + s \in Int
<1>5. d = q - 1
  BY <1>1, <1>3, Squeezed, q - 1 \in Int, s * (q - 1) = s * q - s, a - s \in Int
<1> QED  BY <1>4, <1>5 DEF q, u, d

\* One strip further in x and in y, in normalised indices.
LEMMA StripFurther ==
  ASSUME NEW X \in Int, NEW Y \in Int
  PROVE  /\ ToNormX(X, Y) \in Int /\ ToNormY(X, Y) \in Int
         /\ ToNormX(X + StripSize, Y) = ToNormX(X, Y) - 1
         /\ ToNormX(X, Y + StripSize) = ToNormX(X, Y) + 1
         /\ ToNormY(X + StripSize, Y) = ToNormY(X, Y) + 1
         /\ ToNormY(X, Y + StripSize) = ToNormY(X, Y) + 1
<1>1. StripSize \in Nat \ {0}
  BY SizeAssumption DEF StripSize
<1>2. /\ Y - (X + StripSize) = (Y - X) - StripSize
      /\ (Y + StripSize) - X = (Y - X) + StripSize
      /\ Y + (X + StripSize) = (Y + X) + StripSize
      /\ (Y + StripSize) + X = (Y + X) + StripSize
  BY <1>1
<1>3. Y - X \in Int /\ Y + X \in Int
  OBVIOUS
<1>4. \A d \in Int : /\ d \div StripSize \in Int
                     /\ (d + StripSize) \div StripSize = (d \div StripSize) + 1
                     /\ (d - StripSize) \div StripSize = (d \div StripSize) - 1
  BY <1>1, FloorLaw, FloorOfSum
<1>5. /\ ToNormX(X + StripSize, Y) = ToNormX(X, Y) - 1
      /\ ToNormX(X, Y + StripSize) = ToNormX(X, Y) + 1
  BY <1>2, <1>3, <1>4, Zenon DEF ToNormX
<1>6. /\ ToNormY(X + StripSize, Y) = ToNormY(X, Y) + 1
      /\ ToNormY(X, Y + StripSize) = ToNormY(X, Y) + 1
  BY <1>2, <1>3, <1>4, Zenon DEF ToNormY
<1> QED  BY <1>3, <1>4, <1>5, <1>6 DEF ToNormX, ToNormY

LEMMA ShiftedBins ==
  ASSUME NEW a \in Int, NEW b \in Int
  PROVE  /\ SameParity(a - 1, b + 1) <=> SameParity(a, b)
         /\ SameParity(a + 1, b + 1) <=> SameParity(a, b)
         /\ ToBinX(a - 1, b + 1) = ToBinX(a, b) + 1
         /\ ToBinX(a + 1, b + 1) = ToBinX(a, b)
         /\ ToBinY(a - 1, b + 1) = ToBinY(a, b)
         /\ ToBinY(a + 1, b + 1) = ToBinY(a, b) + 1
  BY DEF SameParity, ToBinX, ToBinY

LEMMA EveryPlacePeriodic ==
  ASSUME OnPlane
  PROVE  StripsArePeriodic
<1> DEFINE X == ToEdge(probeX, OffsetX)
           Y == ToEdge(probeY, OffsetY)
           a == ToNormX(X, Y)
           b == ToNormY(X, Y)
<1>1. /\ X \in Int /\ Y \in Int
      /\ ToEdge(probeX + StripSize, OffsetX) = X + StripSize
      /\ ToEdge(probeY + StripSize, OffsetY) = Y + StripSize
  BY SizeAssumption, OffsetAssumption DEF OnPlane, ToEdge, StripSize
<1>2. a \in Int /\ b \in Int
  BY <1>1, StripFurther
<1>3. CellID(probeX, probeY) = IF SameParity(a, b)
                       THEN [layer |-> LayerX, strip |-> ToBinX(a, b)]
                       ELSE [layer |-> LayerY, strip |-> ToBinY(a, b)]
  BY DEF CellID
<1>4. CellID(probeX + StripSize, probeY) = IF SameParity(a, b)
                       THEN [layer |-> LayerX, strip |-> ToBinX(a, b) + 1]
                       ELSE [layer |-> LayerY, strip |-> ToBinY(a, b)]
  <2>1. /\ ToNormX(X + StripSize, Y) = a - 1
        /\ ToNormY(X + StripSize, Y) = b + 1
    BY <1>1, StripFurther
  <2> HIDE DEF X, Y, a, b
  <2>2. CellID(probeX + StripSize, probeY) = IF SameParity(a - 1, b + 1)
                       THEN [layer |-> LayerX, strip |-> ToBinX(a - 1, b + 1)]
                       ELSE [layer |-> LayerY, strip |-> ToBinY(a - 1, b + 1)]
    BY <1>1, <2>1 DEF CellID, Y
  <2> QED  BY <1>2, <2>2, ShiftedBins
<1>5. CellID(probeX, probeY + StripSize) = IF SameParity(a, b)
                       THEN [layer |-> LayerX, strip |-> ToBinX(a, b)]
                       ELSE [layer |-> LayerY, strip |-> ToBinY(a, b) + 1]
  <2>1. /\ ToNormX(X, Y + StripSize) = a + 1
        /\ ToNormY(X, Y + StripSize) = b + 1
    BY <1>1, StripFurther
  <2> HIDE DEF X, Y, a, b
  <2>2. CellID(probeX, probeY + StripSize) = IF SameParity(a + 1, b + 1)
                       THEN [layer |-> LayerX, strip |-> ToBinX(a + 1, b + 1)]
                       ELSE [layer |-> LayerY, strip |-> ToBinY(a + 1, b + 1)]
    BY <1>1, <2>1 DEF CellID, X
  <2> QED  BY <1>2, <2>2, ShiftedBins
<1> HIDE DEF a, b
<1>6. CASE SameParity(a, b)
  <2>1. CellID(probeX, probeY) = [layer |-> LayerX, strip |-> ToBinX(a, b)]
    BY <1>3, <1>6
  <2>2. [CellID(probeX, probeY) EXCEPT !.strip = @ + 1] =
          [layer |-> LayerX, strip |-> ToBinX(a, b) + 1]
    BY <2>1
  <2> QED  BY <1>4, <1>5, <1>6, <2>1, <2>2, LayersDiffer DEF StripsArePeriodic
<1>7. CASE ~ SameParity(a, b)
  <2>1. CellID(probeX, probeY) = [layer |-> LayerY, strip |-> ToBinY(a, b)]
    BY <1>3, <1>7
  <2>2. [CellID(probeX, probeY) EXCEPT !.strip = @ + 1] =
          [layer |-> LayerY, strip |-> ToBinY(a, b) + 1]
    BY <2>1
  <2> QED  BY <1>4, <1>5, <1>7, <2>1, <2>2, LayersDiffer DEF StripsArePeriodic
<1> QED  BY <1>6, <1>7

-----------------------------------------------------------------------------
\* The two normalised indices of a place, which decide its layer and strip.
NormX(px, py) == ToNormX(ToEdge(px, OffsetX), ToEdge(py, OffsetY))
NormY(px, py) == ToNormY(ToEdge(px, OffsetX), ToEdge(py, OffsetY))

LEMMA CellOfNorms ==
  ASSUME NEW px \in Int, NEW py \in Int
  PROVE  /\ NormX(px, py) \in Int /\ NormY(px, py) \in Int
         /\ CellID(px, py) = IF SameParity(NormX(px, py), NormY(px, py))
                               THEN [layer |-> LayerX, strip |-> ToBinX(NormX(px, py), NormY(px, py))]
                               ELSE [layer |-> LayerY, strip |-> ToBinY(NormX(px, py), NormY(px, py))]
<1>1. ToEdge(px, OffsetX) \in Int /\ ToEdge(py, OffsetY) \in Int
  BY SizeAssumption, OffsetAssumption DEF ToEdge
<1>2. NormX(px, py) \in Int /\ NormY(px, py) \in Int
  BY <1>1, StripFurther DEF NormX, NormY
<1> QED  BY <1>2 DEF CellID, NormX, NormY

\* Places whose indices differ in parity are on different layers.
LEMMA LayerOfParity ==
  ASSUME NEW px \in Int, NEW py \in Int, NEW qx \in Int, NEW qy \in Int
  PROVE  CellID(px, py).layer = CellID(qx, qy).layer
           <=> (SameParity(NormX(px, py), NormY(px, py)) <=> SameParity(NormX(qx, qy), NormY(qx, qy)))
<1>1. ASSUME NEW tx \in Int, NEW ty \in Int
      PROVE  CellID(tx, ty).layer =
               IF SameParity(NormX(tx, ty), NormY(tx, ty)) THEN LayerX ELSE LayerY
  <2> DEFINE a == NormX(tx, ty)
             b == NormY(tx, ty)
             cell == CellID(tx, ty)
  <2>1. cell = IF SameParity(a, b) THEN [layer |-> LayerX, strip |-> ToBinX(a, b)]
               ELSE [layer |-> LayerY, strip |-> ToBinY(a, b)]
    BY CellOfNorms, Zenon
  <2> HIDE DEF a, b, cell
  <2>2. cell.layer = IF SameParity(a, b) THEN LayerX ELSE LayerY
    BY <2>1
  <2> QED  BY <2>2 DEF a, b, cell
<1>2. /\ CellID(px, py).layer = IF SameParity(NormX(px, py), NormY(px, py)) THEN LayerX ELSE LayerY
      /\ CellID(qx, qy).layer = IF SameParity(NormX(qx, qy), NormY(qx, qy)) THEN LayerX ELSE LayerY
  BY <1>1
<1> QED  BY <1>2, LayersDiffer

\* One index changes by one, the other not.
OneIndexMoves(px, py, qx, qy) ==
  \/ /\ NormX(qx, qy) = NormX(px, py)
     /\ NormY(qx, qy) \in {NormY(px, py) - 1, NormY(px, py) + 1}
  \/ /\ NormY(qx, qy) = NormY(px, py)
     /\ NormX(qx, qy) \in {NormX(px, py) - 1, NormX(px, py) + 1}

\* Half a strip in both directions moves one index.
LEMMA HalfStrips ==
  ASSUME NEW px \in Int, NEW py \in Int,
         NEW dx \in {-HalfStrip, HalfStrip}, NEW dy \in {-HalfStrip, HalfStrip}
  PROVE  OneIndexMoves(px, py, px + dx, py + dy)
<1> DEFINE X == ToEdge(px, OffsetX)
           Y == ToEdge(py, OffsetY)
           u == Y - X
           v == Y + X
<1>1. HalfStrip \in Nat \ {0} /\ StripSize \in Nat \ {0} /\ StripSize = 2 * HalfStrip
  BY SizeAssumption DEF StripSize
<1>2. X \in Int /\ Y \in Int
      /\ ToEdge(px + dx, OffsetX) = X + dx /\ ToEdge(py + dy, OffsetY) = Y + dy
  BY <1>1, OffsetAssumption DEF ToEdge
<1>3. /\ NormX(px, py) = u \div StripSize /\ NormY(px, py) = v \div StripSize
      /\ NormX(px + dx, py + dy) = ((Y + dy) - (X + dx)) \div StripSize
      /\ NormY(px + dx, py + dy) = ((Y + dy) + (X + dx)) \div StripSize
  BY <1>2 DEF NormX, NormY, ToNormX, ToNormY
<1>4. u \in Int /\ v \in Int
  BY <1>2
<1>5. /\ (u + StripSize) \div StripSize = (u \div StripSize) + 1
      /\ (u - StripSize) \div StripSize = (u \div StripSize) - 1
      /\ (v + StripSize) \div StripSize = (v \div StripSize) + 1
      /\ (v - StripSize) \div StripSize = (v \div StripSize) - 1
  BY <1>1, <1>4, FloorOfSum
<1>6. CASE dx = dy
  <2>1. (Y + dy) - (X + dx) = u /\ (Y + dy) + (X + dx) \in {v + StripSize, v - StripSize}
    BY <1>1, <1>2, <1>6
  <2> HIDE DEF u, v
  <2>2. \/ (Y + dy) + (X + dx) = v + StripSize
        \/ (Y + dy) + (X + dx) = v - StripSize
    BY <2>1
  <2> HIDE DEF X, Y
  <2>3. NormX(px + dx, py + dy) = NormX(px, py)
    BY <1>3, <2>1, Zenon
  <2>4. \/ NormY(px + dx, py + dy) = NormY(px, py) + 1
        \/ NormY(px + dx, py + dy) = NormY(px, py) - 1
    BY <1>3, <1>5, <2>2, Zenon
  <2> QED  BY <2>3, <2>4 DEF OneIndexMoves
<1>7. CASE dx # dy
  <2>1. (Y + dy) + (X + dx) = v /\ (Y + dy) - (X + dx) \in {u + StripSize, u - StripSize}
    BY <1>1, <1>2, <1>7
  <2> HIDE DEF u, v
  <2>2. \/ (Y + dy) - (X + dx) = u + StripSize
        \/ (Y + dy) - (X + dx) = u - StripSize
    BY <2>1
  <2> HIDE DEF X, Y
  <2>3. NormY(px + dx, py + dy) = NormY(px, py)
    BY <1>3, <2>1, Zenon
  <2>4. \/ NormX(px + dx, py + dy) = NormX(px, py) + 1
        \/ NormX(px + dx, py + dy) = NormX(px, py) - 1
    BY <1>3, <1>5, <2>2, Zenon
  <2> QED  BY <2>3, <2>4 DEF OneIndexMoves
<1> QED  BY <1>6, <1>7

LEMMA ParityFlips ==
  ASSUME NEW a \in Int, NEW b \in Int, NEW d \in {-1, 1}
  PROVE  /\ SameParity(a + d, b) <=> ~ SameParity(a, b)
         /\ SameParity(a, b + d) <=> ~ SameParity(a, b)
  BY DEF SameParity

LEMMA EveryPlaceAlternates ==
  ASSUME OnPlane
  PROVE  LayersAlternate
<1> SUFFICES ASSUME NEW dx \in {-HalfStrip, HalfStrip}, NEW dy \in {-HalfStrip, HalfStrip}
             PROVE  CellID(probeX + dx, probeY + dy).layer # CellID(probeX, probeY).layer
  BY DEF LayersAlternate
<1> DEFINE a == NormX(probeX, probeY)
           b == NormY(probeX, probeY)
           c == NormX(probeX + dx, probeY + dy)
           e == NormY(probeX + dx, probeY + dy)
<1>1. probeX \in Int /\ probeY \in Int /\ probeX + dx \in Int /\ probeY + dy \in Int
  BY SizeAssumption DEF OnPlane
<1>2. a \in Int /\ b \in Int
  BY <1>1, CellOfNorms
<1>3. (c = a /\ e \in {b - 1, b + 1}) \/ (e = b /\ c \in {a - 1, a + 1})
  <2>1. \/ c = a /\ e \in {b - 1, b + 1}
        \/ e = b /\ c \in {a - 1, a + 1}
    <3>1. OneIndexMoves(probeX, probeY, probeX + dx, probeY + dy)
      BY <1>1, HalfStrips
    <3> QED  BY <3>1, Zenon DEF OneIndexMoves
  <2> QED  BY <2>1
<1>4. \/ \E d \in {-1, 1} : c = a /\ e = b + d
      \/ \E d \in {-1, 1} : e = b /\ c = a + d
  <2> HIDE DEF a, b, c, e
  <2> QED  BY <1>2, <1>3
<1>5. SameParity(c, e) <=> ~ SameParity(a, b)
  <2> HIDE DEF a, b, c, e
  <2> QED  BY <1>2, <1>4, ParityFlips
<1> QED  BY <1>1, <1>5, LayerOfParity

\* A quotient moves by at most one, and in the same direction, with one unit.
LEMMA FloorOfNext ==
  ASSUME NEW a \in Int, NEW s \in Nat \ {0}
  PROVE  /\ (a + 1) \div s \in {a \div s, (a \div s) + 1}
         /\ (a - 1) \div s \in {a \div s, (a \div s) - 1}
<1> DEFINE q == a \div s
           u == (a + 1) \div s
           d == (a - 1) \div s
<1>1. q \in Int /\ s * q <= a /\ a < s * q + s
  BY FloorLaw
<1>2. u \in Int /\ s * u <= a + 1 /\ a + 1 < s * u + s
  BY FloorLaw, a + 1 \in Int
<1>3. d \in Int /\ s * d <= a - 1 /\ a - 1 < s * d + s
  BY FloorLaw, a - 1 \in Int
<1> HIDE DEF q, u, d
<1>4. s * (q + 1) = s * q + s /\ s * (q - 1) = s * q - s /\ s * q \in Int
  BY <1>1, Z3
<1>5. u \in {q, q + 1}
  <2>1. CASE a + 1 < s * q + s
    <3>1. s * q <= a + 1  BY <1>1, <1>4
    <3>2. u = q  BY <1>1, <1>2, <2>1, <3>1, Squeezed, a + 1 \in Int
    <3> QED  BY <3>2
  <2>2. CASE ~ (a + 1 < s * q + s)
    <3>1. s * (q + 1) <= a + 1 /\ a + 1 < s * (q + 1) + s
      BY <1>1, <1>4, <2>2
    <3>2. u = q + 1  BY <1>1, <1>2, <3>1, Squeezed, a + 1 \in Int, q + 1 \in Int
    <3> QED  BY <3>2
  <2> QED  BY <2>1, <2>2
<1>6. d \in {q, q - 1}
  <2>1. CASE s * q <= a - 1
    <3>1. a - 1 < s * q + s  BY <1>1, <1>4
    <3>2. d = q  BY <1>1, <1>3, <2>1, <3>1, Squeezed, a - 1 \in Int
    <3> QED  BY <3>2
  <2>2. CASE ~ (s * q <= a - 1)
    <3>1. s * (q - 1) <= a - 1 /\ a - 1 < s * (q - 1) + s
      BY <1>1, <1>4, <2>2
    <3>2. d = q - 1  BY <1>1, <1>3, <3>1, Squeezed, a - 1 \in Int, q - 1 \in Int
    <3> QED  BY <3>2
  <2> QED  BY <2>1, <2>2
<1> QED  BY <1>5, <1>6 DEF q, u, d

\* Each index changes by one at most.
IndicesStep(px, py, qx, qy) ==
  \E i, j \in {-1, 0, 1} :
    NormX(qx, qy) = NormX(px, py) + i /\ NormY(qx, qy) = NormY(px, py) + j

\* One unit in x or in y is such a step.
LEMMA UnitStep ==
  ASSUME NEW px \in Int, NEW py \in Int, NEW qx \in Int, NEW qy \in Int, NEW d \in {-1, 1},
         (qx = px + d /\ qy = py) \/ (qy = py + d /\ qx = px)
  PROVE  IndicesStep(px, py, qx, qy)
<1> DEFINE X == ToEdge(px, OffsetX)
           Y == ToEdge(py, OffsetY)
           U == ToEdge(qx, OffsetX)
           V == ToEdge(qy, OffsetY)
<1>1. StripSize \in Nat \ {0} /\ HalfStrip \in Nat
  BY SizeAssumption DEF StripSize
<1>2. X \in Int /\ Y \in Int /\ ((U = X + d /\ V = Y) \/ (V = Y + d /\ U = X))
  BY <1>1, OffsetAssumption DEF ToEdge
<1>3. /\ NormX(px, py) = (Y - X) \div StripSize /\ NormY(px, py) = (Y + X) \div StripSize
      /\ NormX(qx, qy) = (V - U) \div StripSize /\ NormY(qx, qy) = (V + U) \div StripSize
  BY DEF NormX, NormY, ToNormX, ToNormY
<1> HIDE DEF X, Y, U, V
<1>4. Y - X \in Int /\ Y + X \in Int
      /\ V - U \in {(Y - X) + 1, (Y - X) - 1} /\ V + U \in {(Y + X) + 1, (Y + X) - 1}
  BY <1>2
<1>5. ASSUME NEW a \in Int, NEW b \in {a + 1, a - 1}
      PROVE  \E i \in {-1, 0, 1} : b \div StripSize = (a \div StripSize) + i
  <2>1. a \div StripSize \in Int
    BY <1>1, FloorLaw
  <2>2. \/ b \div StripSize = a \div StripSize
        \/ b \div StripSize = (a \div StripSize) + 1
        \/ b \div StripSize = (a \div StripSize) - 1
    BY <1>1, FloorOfNext
  <2> DEFINE m == a \div StripSize
             n == b \div StripSize
  <2>3. m \in Int /\ (n = m \/ n = m + 1 \/ n = m - 1)
    BY <2>1, <2>2
  <2> HIDE DEF m, n
  <2>4. \E i \in {-1, 0, 1} : n = m + i
    BY <2>3
  <2> QED  BY <2>4 DEF m, n
<1>6. PICK i \in {-1, 0, 1} : (V - U) \div StripSize = ((Y - X) \div StripSize) + i
  BY <1>4, <1>5
<1>7. PICK j \in {-1, 0, 1} : (V + U) \div StripSize = ((Y + X) \div StripSize) + j
  BY <1>4, <1>5
<1> QED  BY <1>3, <1>6, <1>7, Zenon DEF IndicesStep

\* Without a change of parity, the bin changes by one at most.
LEMMA BinsOfStep ==
  ASSUME NEW a \in Int, NEW b \in Int, NEW i \in {-1, 0, 1}, NEW j \in {-1, 0, 1},
         SameParity(a + i, b + j) <=> SameParity(a, b)
  PROVE  /\ ToBinX(a, b) \in Int /\ ToBinY(a, b) \in Int
         /\ SameParity(a, b) =>
              ToBinX(a + i, b + j) \in {ToBinX(a, b) - 1, ToBinX(a, b), ToBinX(a, b) + 1}
         /\ ~ SameParity(a, b) =>
              ToBinY(a + i, b + j) \in {ToBinY(a, b) - 1, ToBinY(a, b), ToBinY(a, b) + 1}
  BY DEF SameParity, ToBinX, ToBinY

LEMMA StepToNeighbour ==
  ASSUME NEW px \in Int, NEW py \in Int, NEW qx \in Int, NEW qy \in Int, NEW d \in {-1, 1},
         (qx = px + d /\ qy = py) \/ (qy = py + d /\ qx = px),
         CellID(px, py).layer = CellID(qx, qy).layer, HasStrip(CellID(qx, qy))
  PROVE  CellID(qx, qy) \in {CellID(px, py)} \cup Neighbours(CellID(px, py))
<1> DEFINE a == NormX(px, py)
           b == NormY(px, py)
           old == CellID(px, py)
           new == CellID(qx, qy)
<1>1. a \in Int /\ b \in Int
  BY CellOfNorms
<1>2. PICK i \in {-1, 0, 1}, j \in {-1, 0, 1} : NormX(qx, qy) = a + i /\ NormY(qx, qy) = b + j
  <2>1. \E i, j \in {-1, 0, 1} : NormX(qx, qy) = a + i /\ NormY(qx, qy) = b + j
    <3>1. IndicesStep(px, py, qx, qy)
      BY UnitStep
    <3> QED  BY <3>1, Zenon DEF IndicesStep
  <2> HIDE DEF a, b
  <2> QED  BY <2>1, Zenon
<1>3. SameParity(a + i, b + j) <=> SameParity(a, b)
  BY <1>2, LayerOfParity
<1>4. old = IF SameParity(a, b) THEN [layer |-> LayerX, strip |-> ToBinX(a, b)]
            ELSE [layer |-> LayerY, strip |-> ToBinY(a, b)]
  BY CellOfNorms
<1>5. new = IF SameParity(a, b) THEN [layer |-> LayerX, strip |-> ToBinX(a + i, b + j)]
            ELSE [layer |-> LayerY, strip |-> ToBinY(a + i, b + j)]
  <2>1. new = IF SameParity(NormX(qx, qy), NormY(qx, qy))
              THEN [layer |-> LayerX, strip |-> ToBinX(NormX(qx, qy), NormY(qx, qy))]
              ELSE [layer |-> LayerY, strip |-> ToBinY(NormX(qx, qy), NormY(qx, qy))]
    BY CellOfNorms, Zenon
  <2> HIDE DEF a, b, new
  <2> QED  BY <1>2, <1>3, <2>1
<1> HIDE DEF a, b, old, new
<1>6. old.strip \in Int /\ new.strip \in {old.strip - 1, old.strip, old.strip + 1}
  BY <1>1, <1>3, <1>4, <1>5, BinsOfStep
<1>7. new \in {[old EXCEPT !.strip = @ - 1], old, [old EXCEPT !.strip = @ + 1]}
  BY <1>4, <1>5, <1>6
<1> QED  BY <1>7 DEF Neighbours, old, new

-----------------------------------------------------------------------------
(* The probe stays on places with coordinates: what the step needs of the  *)
(* plane (DiagonalStrip_segmt.cpp:93-98).                                  *)
THEOREM ProbeOnPlane == ProbeSpec => []OnPlane
<1>1. ProbeInit => OnPlane
  BY ExtentAssumption DEF ProbeInit, Plane, OnPlane
<1>2. OnPlane /\ [ProbeNext]_probe => OnPlane'
  BY ExtentAssumption DEF OnPlane, ProbeNext, MoveX, MoveY, Plane, probe
<1> QED  BY <1>1, <1>2, PTL DEF ProbeSpec

(* Wherever it is, a hit is within half a strip of the position of its     *)
(* strip (DiagonalStrip_segmt.cpp:38-44 and 116-130): for every strip      *)
(* size, every pair of offsets and a plane of any extent.                  *)
THEOREM HitsNearTheirStrip == ProbeSpec => []WithinHalfStrip
<1>1. OnPlane => WithinHalfStrip
  BY EveryPlace
<1> QED  BY <1>1, ProbeOnPlane, PTL

(* Strips are numbered in steps of one strip size, as those of the         *)
(* Cartesian strips (DiagonalStrip_segmt.cpp:12): for every strip size,    *)
(* every pair of offsets and a plane of any extent.                        *)
THEOREM StripsNumberedInOrder == ProbeSpec => []StripsArePeriodic
<1>1. OnPlane => StripsArePeriodic
  BY EveryPlacePeriodic
<1> QED  BY <1>1, ProbeOnPlane, PTL

(* Each pad has pads of the other layer on its four sides, so X and Y      *)
(* strips share the plane evenly (DiagonalStrip_segmt.cpp:101-109): for    *)
(* every strip size, every pair of offsets and a plane of any extent.      *)
THEOREM LayersTakeTurns == ProbeSpec => []LayersAlternate
<1>1. OnPlane => LayersAlternate
  BY EveryPlaceAlternates
<1> QED  BY <1>1, ProbeOnPlane, PTL

(* A hit that moves by a unit and keeps its layer stays on its strip or    *)
(* moves to one that neighbours() lists (DiagonalStrip_segmt.cpp:133-149). *)
THEOREM NeighboursAreListed == ProbeSpec => MovesToNeighbour
<1>1. OnPlane /\ [ProbeNext]_probe =>
        [LET old == CellID(probeX, probeY)
             new == CellID(probeX', probeY')
         IN  (old.layer = new.layer /\ HasStrip(old) /\ HasStrip(new))
               => new \in {old} \cup Neighbours(old)]_probe
  <2> SUFFICES ASSUME OnPlane, ProbeNext,
                      CellID(probeX, probeY).layer = CellID(probeX', probeY').layer,
                      HasStrip(CellID(probeX', probeY'))
               PROVE  CellID(probeX', probeY') \in
                        {CellID(probeX, probeY)} \cup Neighbours(CellID(probeX, probeY))
    OBVIOUS
  <2>1. PICK d \in {-1, 1} : \/ probeX' = probeX + d /\ probeY' = probeY
                             \/ probeY' = probeY + d /\ probeX' = probeX
    BY DEF ProbeNext, MoveX, MoveY
  <2>2. probeX \in Int /\ probeY \in Int /\ probeX' \in Int /\ probeY' \in Int
    BY <2>1 DEF OnPlane
  <2> QED  BY <2>1, <2>2, StepToNeighbour
<1> QED  BY <1>1, ProbeOnPlane, PTL DEF ProbeSpec, MovesToNeighbour
=============================================================================
