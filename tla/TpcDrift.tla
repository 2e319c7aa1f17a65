------------------------------ MODULE TpcDrift ------------------------------
(***************************************************************************)
(* TpcDriftAlg::execute for one event: every simulated hit of the TPC gas  *)
(* is turned into electrons, which drift to the anode, are lost on the way *)
(* or become hits of the output collection.  The algorithm keeps no state  *)
(* between events.                                                         *)
(*                                                                         *)
(* Energies are integers in a unit that makes the mean ionisation energy   *)
(* WValue an integer; the energy of an electron, e_kin, is kept as the     *)
(* pair (energy of the hit, number of its electrons).  Random numbers are  *)
(* choices.                                                                *)
(***************************************************************************)
EXTENDS Integers, Sequences, FiniteSets

CONSTANTS
  Inputs,       \* the collections of simulated hits an event may have
  Anodes,       \* the volumes that have a helper surface (the anode)
  Inside,       \* the lateral positions inside the bounds of the anode
  WValue,       \* wvalue, after the unit conversion in initialize
  MaxHits,      \* maxHits
  PoissonMax,   \* bound: the largest number a Poisson generator returns
  TransDiff,    \* bound: lateral diffusion distances
  LongDiff      \* bound: diffusion distances along the drift

SimHits == [vol : STRING, x : Int, drift : Nat, edep : Nat, time : Nat]

ASSUME InputsAssumption == Inputs \subseteq Seq(SimHits)
ASSUME NumbersAssumption ==
  WValue \in Nat \ {0} /\ MaxHits \in Nat \ {0} /\ PoissonMax \in Nat
ASSUME DiffusionAssumption == TransDiff \subseteq Int /\ LongDiff \subseteq Int

VARIABLES
  usePoisson, attach, discardOutBound,   \* properties, fixed for the job
  pc,          \* "looping", "done", or "crashed"
  in_hits,     \* input collection
  sums,        \* running sums of the deposits; the whole sum is the last
  next,        \* the hit the outer loop takes next
  share,       \* number of electrons of the hit in the inner loop
  cur_eno,     \* electrons of that hit not yet treated
  nr_tot_e, nr_in_e,
  out_hits     \* output collection

options == <<usePoisson, attach, discardOutBound>>
vars == <<options, pc, in_hits, sums, next, share, cur_eno, nr_tot_e, nr_in_e, out_hits>>

\* `hit`, the position of the simulated hit an electron comes from, is not
\* part of the output; it is recorded to state the properties.
Electrons == [hit : Nat \ {0}, vol : STRING, x : Int, edep : Nat \X (Nat \ {0}), time : Int]

TypeOK ==
  /\ usePoisson \in BOOLEAN /\ attach \in BOOLEAN /\ discardOutBound \in BOOLEAN
  /\ pc \in {"looping", "done", "crashed"}
  /\ in_hits \in Seq(SimHits) /\ sums \in Seq(Nat) /\ Len(sums) <= Len(in_hits)
  /\ next \in 1 .. Len(in_hits) + 1
  /\ share \in Nat /\ cur_eno \in 0 .. share
  /\ nr_tot_e \in Nat /\ nr_in_e \in Nat
  /\ out_hits \in Seq(Electrons)

Init ==
  /\ usePoisson \in BOOLEAN /\ attach \in BOOLEAN /\ discardOutBound \in BOOLEAN
  /\ pc = "looping"
  /\ in_hits \in Inputs /\ sums = << >>
  /\ next = 1
  /\ share = 0 /\ cur_eno = 0
  /\ nr_tot_e = 0 /\ nr_in_e = 0
  /\ out_hits = << >>

-----------------------------------------------------------------------------
\* std::round of a / b, for b > 0 and a >= 0.
RoundDiv(a, b) == (2 * a + b) \div (2 * b)

TotEdep == IF sums = << >> THEN 0 ELSE sums[Len(sums)]
TotEno  == TotEdep \div WValue

\* std::accumulate, hit by hit, ahead of the outer loop.
Accumulate ==
  /\ pc = "looping" /\ Len(sums) < Len(in_hits)
  /\ sums' = Append(sums, TotEdep + in_hits[Len(sums) + 1].edep)
  /\ UNCHANGED <<options, pc, in_hits, next, share, cur_eno, nr_tot_e, nr_in_e, out_hits>>

\* Bug: the reduction is not applied.
ReducedNever(n) == n

\* n / eno_cor_ratio: above maxHits electrons all numbers are scaled down.
Reduced(n) ==
  IF TotEno > MaxHits THEN RoundDiv(n * MaxHits * WValue, TotEdep) ELSE n

\* The numbers the ionisation of a hit may give before the reduction.
Primary(h) ==
  LET mean == h.edep \div WValue
  IN  IF usePoisson /\ mean > 0 THEN 0 .. PoissonMax ELSE {mean}

\* Bug: a hit may end up without an electron.
NoMinimum(h, n) == Reduced(n)

AtLeastOne(h, n) ==
  IF Reduced(n) = 0 /\ h.edep > 0 THEN 1 ELSE Reduced(n)

EndOfHit == pc = "looping" /\ Len(sums) = Len(in_hits) /\ cur_eno = 0

Ionise ==
  /\ EndOfHit /\ next <= Len(in_hits)
  /\ in_hits[next].vol \in Anodes
  /\ \E n \in Primary(in_hits[next]) : share' = AtLeastOne(in_hits[next], n)
  /\ cur_eno' = share'
  /\ nr_tot_e' = nr_tot_e + share'
  /\ next' = next + 1
  /\ UNCHANGED <<options, pc, in_hits, sums, nr_in_e, out_hits>>

\* sL.front() of an empty list.
NoAnode ==
  /\ EndOfHit /\ next <= Len(in_hits)
  /\ in_hits[next].vol \notin Anodes
  /\ pc' = "crashed"
  /\ UNCHANGED <<options, in_hits, sums, next, share, cur_eno, nr_tot_e, nr_in_e, out_hits>>

-----------------------------------------------------------------------------
(* The inner loop over the electrons of hit number next - 1.               *)

Hit == in_hits[next - 1]

\* Without drift there is neither diffusion nor attachment.
Diffusion(D) == IF Hit.drift = 0 THEN {0} ELSE D

Attached ==
  /\ pc = "looping" /\ cur_eno > 0
  /\ attach /\ Hit.drift > 0
  /\ cur_eno' = cur_eno - 1
  /\ UNCHANGED <<options, pc, in_hits, sums, next, share, nr_tot_e, nr_in_e, out_hits>>

Discarded ==
  /\ pc = "looping" /\ cur_eno > 0
  /\ discardOutBound
  /\ \E d \in Diffusion(TransDiff) : Hit.x + d \notin Inside
  /\ cur_eno' = cur_eno - 1
  /\ UNCHANGED <<options, pc, in_hits, sums, next, share, nr_tot_e, nr_in_e, out_hits>>

\* Bug: the energy is divided by the electrons left, after the decrement.
ElectronOfRest(d, l) ==
  [hit |-> next - 1, vol |-> Hit.vol, x |-> Hit.x + d,
   edep |-> <<Hit.edep, cur_eno - 1>>, time |-> Hit.drift + l]

\* The drift time, in units of the drift velocity; the time of the hit is
\* not added to it.
Electron(d, l) ==
  [hit |-> next - 1, vol |-> Hit.vol, x |-> Hit.x + d,
   edep |-> <<Hit.edep, share>>, time |-> Hit.drift + l]

\* Bug: the electron is counted before its position is looked at.
CollectedUnbounded ==
  /\ pc = "looping" /\ cur_eno > 0
  /\ cur_eno' = cur_eno - 1
  /\ \E d \in Diffusion(TransDiff), l \in Diffusion(LongDiff) :
       out_hits' = IF discardOutBound /\ Hit.x + d \notin Inside
                     THEN out_hits ELSE Append(out_hits, Electron(d, l))
  /\ nr_in_e' = nr_in_e + 1
  /\ UNCHANGED <<options, pc, in_hits, sums, next, share, nr_tot_e>>

Collected ==
  /\ pc = "looping" /\ cur_eno > 0
  /\ cur_eno' = cur_eno - 1
  /\ \E d \in Diffusion(TransDiff), l \in Diffusion(LongDiff) :
       /\ discardOutBound => Hit.x + d \in Inside
       /\ out_hits' = Append(out_hits, Electron(d, l))
  /\ nr_in_e' = nr_in_e + 1
  /\ UNCHANGED <<options, pc, in_hits, sums, next, share, nr_tot_e>>

Finish ==
  /\ EndOfHit /\ next > Len(in_hits)
  /\ pc' = "done"
  /\ UNCHANGED <<options, in_hits, sums, next, share, cur_eno, nr_tot_e, nr_in_e, out_hits>>

\* The counters put in the event store when execute is done.
Counters == [Gen |-> nr_tot_e, In |-> nr_in_e, Esc |-> nr_tot_e - nr_in_e]

Next == Accumulate \/ Ionise \/ NoAnode \/ Attached \/ Discarded \/ Collected \/ Finish

Spec == Init /\ [][Next]_vars

-----------------------------------------------------------------------------
ElectronsOf(i) == {k \in DOMAIN out_hits : out_hits[k].hit = i}

(* The counters tell what became of the electrons: In of them are in the   *)
(* output, Esc escaped and not more than were generated                    *)
(* (TpcDriftAlg.cpp:132-166).                                              *)
CountersMatchOutput ==
  /\ Counters.In = Len(out_hits)
  /\ Counters.Esc >= 0
  /\ (~attach /\ ~discardOutBound /\ pc = "done") => Counters.Esc = 0

(* Electrons of a hit share its energy equally and never carry more than   *)
(* the hit deposited, however many of them were scaled away                *)
(* (TpcDriftAlg.cpp:32 and 129-132).                                       *)
EnergyShared ==
  \A k \in DOMAIN out_hits :
    LET e == out_hits[k] IN
    /\ e.edep[1] = in_hits[e.hit].edep
    /\ \A j \in ElectronsOf(e.hit) : out_hits[j].edep = e.edep
    /\ Cardinality(ElectronsOf(e.hit)) <= e.edep[2]

(* No deposit vanishes by rounding: every hit with energy ionises, and     *)
(* when no electron can escape it has all its energy in the output         *)
(* (TpcDriftAlg.cpp:129).                                                  *)
EveryDepositIonises ==
  (pc = "done" /\ ~attach /\ ~discardOutBound) =>
    \A i \in DOMAIN in_hits :
      in_hits[i].edep > 0 =>
        \E k \in ElectronsOf(i) : Cardinality(ElectronsOf(i)) = out_hits[k].edep[2]

(* Without Poisson fluctuation maxHits bounds the electrons of an event,   *)
(* up to one for each hit: rounding and the minimum of one electron can    *)
(* pass the limit by no more (TpcDriftAlg.cpp:90-91 and 122-129).          *)
MaxHitsUpToRounding ==
  ~usePoisson => nr_tot_e <= MaxHits + Cardinality({i \in 1 .. next - 1 : in_hits[i].edep > 0})

(* The documented arrival time: the time of the hit plus that of the       *)
(* drift (TpcDriftAlg.cpp:36).                                             *)
TimeIncludesHitTime ==
  \A k \in DOMAIN out_hits :
    LET h == in_hits[out_hits[k].hit]
    IN  \E l \in LongDiff \cup {0} : out_hits[k].time = h.time + h.drift + l
=============================================================================
