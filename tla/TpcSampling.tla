----------------------------- MODULE TpcSampling -----------------------------
(***************************************************************************)
(* TpcSimpleSmearAlg::execute and TpcSamplingAlg::execute for one event:   *)
(* noise is added to the time and the energy of each segmented hit; then   *)
(* the raw hits of a hit (indices into the collection of drifted           *)
(* electrons) seed a pulse each, the sum of the pulses is sampled, and the *)
(* samples become 16-bit words.                                            *)
(*                                                                         *)
(* Times are integers in a unit in which the sampling interval is an       *)
(* integer; the shaper is a table of its values at the sample points, in   *)
(* parts of Unit.                                                          *)
(***************************************************************************)
EXTENDS Integers, Sequences, FiniteSets, FiniteSetsExt

CONSTANTS
  Inputs,          \* pairs of segmented hits and drifted electrons
  Collections,     \* IDs of the collections of the event
  NoiseT, NoiseE,  \* values of the noise on time and energy, {0} if its sigma is 0
  SimCollection,   \* ID of the collection of electrons
  SampleInterval,  \* sample_interval, after the unit conversion
  NrPts,           \* nr_points
  Gains,           \* values of the property gain
  AmpOffset,       \* amplitude_offset
  Shaper,          \* <<Shaper[1], ...>> : the response 1, 2, ... samples later
  Unit             \* the full scale of Shaper

\* A segmented hit refers to entries of collections by index.
SegHit   == [time : Int, edep : Int, raw : Seq([coll : Collections, index : Int])]
Electron == [time : Int, edep : Int]

ASSUME InputsAssumption   == Inputs \subseteq Seq(SegHit) \X Seq(Electron)
ASSUME IntervalAssumption == SampleInterval \in Nat \ {0} /\ Unit \in Nat \ {0}
ASSUME NoiseAssumption    == NoiseT \subseteq Int /\ NoiseE \subseteq Int
ASSUME NrPtsAssumption    == NrPts \in Nat
ASSUME ShaperAssumption   == Shaper \in Seq(Int)
ASSUME GainAssumption     == Gains \subseteq Nat /\ AmpOffset \in Int

VARIABLES
  gain,        \* property, fixed for the job
  pc,          \* "smearing", "looping", "done", "failed" or "crashed"
  seg_hits,    \* segmented hits: [time, edep, raw], raw a sequence of [coll, index]
  in_hits,     \* the smeared hits, input of the sampling
  sim_hits,    \* drifted electrons: [time, edep]
  next,        \* position in the loop over in_hits
  out_hits     \* output: number of seeds, time, energy and ADC words

vars == <<gain, pc, seg_hits, in_hits, sim_hits, next, out_hits>>

Int16 == -32768 .. 32767

TypeOK ==
  /\ gain \in Gains
  /\ pc \in {"smearing", "looping", "done", "failed", "crashed"}
  /\ next \in 1 .. Len(in_hits) + 1
  /\ \A k \in DOMAIN out_hits :
       /\ out_hits[k].quality \in Nat
       /\ out_hits[k].adcCounts \in Seq(Int16)

Init ==
  /\ gain \in Gains
  /\ pc = "smearing"
  /\ \E input \in Inputs : seg_hits = input[1] /\ sim_hits = input[2]
  /\ in_hits = << >>
  /\ next = 1
  /\ out_hits = << >>

-----------------------------------------------------------------------------
(* TpcSimpleSmearAlg: a clone of each hit, its time and energy set anew    *)
(* unless the sigma is zero.                                               *)
Smeared(hit) ==
  {[time |-> hit.time + t, edep |-> hit.edep + e, raw |-> hit.raw] :
     t \in NoiseT, e \in NoiseE}

Smear ==
  /\ pc = "smearing"
  /\ in_hits' \in {s \in [DOMAIN seg_hits -> UNION {Smeared(seg_hits[i]) : i \in DOMAIN seg_hits}] :
                    \A i \in DOMAIN s : s[i] \in Smeared(seg_hits[i])}
  /\ pc' = "looping"
  /\ UNCHANGED <<gain, seg_hits, sim_hits, next, out_hits>>

-----------------------------------------------------------------------------
\* std::round and std::lround of a / b, for b > 0: halves away from zero.
RoundDiv(a, b) ==
  IF a >= 0 THEN (2 * a + b) \div (2 * b) ELSE -((b - 2 * a) \div (2 * b))

\* The raw hits taken: the others are of another collection.
Taken(hit) == {k \in DOMAIN hit.raw : hit.raw[k].coll = SimCollection}

\* sim_hits->at(index) throws for an index beyond the collection.
IndicesValid(hit) == \A k \in Taken(hit) : hit.raw[k].index \in DOMAIN sim_hits

\* The loops below range over positions in a hit's raw hits.
SimHit(hit, k) == sim_hits[hit.raw[k].index]
BinOf(hit, k)  == RoundDiv(SimHit(hit, k).time, SampleInterval)
Bins(hit)      == {BinOf(hit, k) : k \in Taken(hit)}

\* Bug: a second electron in a bin replaces the first.
SeedsOverwritten(hit) ==
  [b \in Bins(hit) |->
     SimHit(hit, Max({k \in Taken(hit) : BinOf(hit, k) = b})).edep * gain]

\* _get_seeds: bin -> energy times gain.
Seeds(hit) ==
  [b \in Bins(hit) |->
     SumFunctionOnSet([k \in Taken(hit) |-> SimHit(hit, k).edep * gain],
                      {k \in Taken(hit) : BinOf(hit, k) = b})]

\* The shaper is zero at and before the pulse.
Response(n) == IF n \in DOMAIN Shaper THEN Shaper[n] ELSE 0

\* Bug: the response starts in the bin of the electron.
CountEarly(seeds, bin) ==
  SumFunctionOnSet([key \in DOMAIN seeds |-> seeds[key] * Response(bin - key + 1)],
                   {key \in DOMAIN seeds : key <= bin})

\* adc_counts[bin], in parts of Unit: earlier seeds only.
Count(seeds, bin) ==
  SumFunctionOnSet([key \in DOMAIN seeds |-> seeds[key] * Response(bin - key)],
                   {key \in DOMAIN seeds : key <= bin})

Word(seeds, n) == RoundDiv(Count(seeds, n - 1), Unit) + AmpOffset

\* Bug: the words are not checked against the range of int16_t.
WordsUnchecked(seeds) == [n \in 1 .. NrPts |-> Word(seeds, n)]

\* A word numeric_cast refuses is left out; the ones after it move up.
Words(seeds) ==
  LET words[n \in 0 .. NrPts] ==
        IF n = 0 THEN << >>
        ELSE IF Word(seeds, n) \in Int16 THEN Append(words[n - 1], Word(seeds, n))
        ELSE words[n - 1]
  IN  words[NrPts]

Hit == in_hits[next]

Series(hit) == [quality   |-> Cardinality(Bins(hit)),
                time      |-> hit.time,
                edep      |-> hit.edep,
                adcCounts |-> Words(Seeds(hit))]

\* Bug: a hit without seeds is skipped.
SampleNonEmpty ==
  /\ pc = "looping" /\ next <= Len(in_hits)
  /\ IndicesValid(Hit)
  /\ out_hits' = IF Taken(Hit) = {} THEN out_hits
                 ELSE Append(out_hits, Series(Hit))
  /\ next' = next + 1
  /\ UNCHANGED <<gain, pc, seg_hits, in_hits, sim_hits>>

\* With a bin below zero the convolution also writes before the start of
\* adc_counts; this is the outcome in which nothing else is hit by it.
Sample ==
  /\ pc = "looping" /\ next <= Len(in_hits)
  /\ IndicesValid(Hit)
  /\ out_hits' = Append(out_hits, Series(Hit))
  /\ next' = next + 1
  /\ UNCHANGED <<gain, pc, seg_hits, in_hits, sim_hits>>

\* The other outcome of writing before adc_counts.
OutOfBounds ==
  /\ pc = "looping" /\ next <= Len(in_hits)
  /\ IndicesValid(Hit)
  /\ NrPts > 0 /\ \E b \in Bins(Hit) : b < 0
  /\ pc' = "crashed"
  /\ UNCHANGED <<gain, seg_hits, in_hits, sim_hits, next, out_hits>>

\* The exception of at() leaves execute.
BadIndex ==
  /\ pc = "looping" /\ next <= Len(in_hits)
  /\ ~IndicesValid(Hit)
  /\ pc' = "failed"
  /\ UNCHANGED <<gain, seg_hits, in_hits, sim_hits, next, out_hits>>

Finish ==
  /\ pc = "looping" /\ next > Len(in_hits)
  /\ pc' = "done"
  /\ UNCHANGED <<gain, seg_hits, in_hits, sim_hits, next, out_hits>>

Next == Smear \/ Sample \/ OutOfBounds \/ BadIndex \/ Finish

Spec == Init /\ [][Next]_vars

-----------------------------------------------------------------------------
(* Every segmented hit has its time series, at the same position, with its *)
(* time and energy but for the noise; the words do not depend on the noise *)
(* (no sample sees it), and without any electron of the collection they    *)
(* are flat (TpcSimpleSmearAlg.cpp:44-66, TpcSamplingAlg.cpp:59-107).      *)
OneSeriesPerHit ==
  /\ pc # "smearing" => Len(in_hits) = Len(seg_hits)
  /\ Len(out_hits) = next - 1
  /\ \A i \in DOMAIN out_hits :
       LET out == out_hits[i]
           seg == seg_hits[i]
       IN  /\ out.time - seg.time \in NoiseT /\ out.edep - seg.edep \in NoiseE
           /\ out.adcCounts = Words(Seeds(seg))
           /\ Taken(seg) = {} =>
                \A n \in DOMAIN out.adcCounts : out.adcCounts[n] = AmpOffset

\* The sample at n (from 0) as the sum of the pulses of single electrons.
Superposition(hit, n) ==
  RoundDiv(SumFunction([k \in Taken(hit) |->
                          SimHit(hit, k).edep * gain * Response(n - BinOf(hit, k))]),
           Unit) + AmpOffset

(* Seeding bin by bin loses and doubles no electron: when all samples are  *)
(* in range, each is the superposition of the pulses of the hit's          *)
(* electrons (TpcSamplingAlg.cpp:62-77 and 86-93).                         *)
SamplesAreSuperposition ==
  \A i \in DOMAIN out_hits :
    (\A n \in 0 .. NrPts - 1 : Superposition(in_hits[i], n) \in Int16) =>
      out_hits[i].adcCounts = [n \in 1 .. NrPts |-> Superposition(in_hits[i], n - 1)]

(* An electron has an effect on later samples only (the comment at         *)
(* TpcSamplingAlg.cpp:89): up to its first bin a series is flat.           *)
OnlyFutureCounts ==
  \A i \in DOMAIN out_hits :
    LET w == out_hits[i].adcCounts IN
    Len(w) = NrPts =>
      \A n \in DOMAIN w :
        (\A b \in Bins(in_hits[i]) : n - 1 <= b) => w[n] = AmpOffset

(* A series has nr_points samples, documented as the number of sample      *)
(* points (TpcSamplingAlg.h:66), so word n is sample n.                    *)
SeriesHasNrPts == \A i \in DOMAIN out_hits : Len(out_hits[i].adcCounts) = NrPts
=============================================================================
