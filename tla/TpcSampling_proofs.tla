------------------------- MODULE TpcSampling_proofs -------------------------
(***************************************************************************)
(* The invariants of TpcSampling, for any hits, noise, gain and shaper.    *)
(* A time series is a function of its hit, so most of the work is in the   *)
(* operators: the words that are kept, and the sums that the convolution   *)
(* bin by bin and the superposition electron by electron amount to.        *)
(***************************************************************************)
EXTENDS TpcSampling, SumTheorems

USE IntervalAssumption, NoiseAssumption, NrPtsAssumption, ShaperAssumption, GainAssumption

-----------------------------------------------------------------------------
(* The range check of the words.                                           *)

\* The words that the first n samples leave, as a function of n.
IsWords(seeds, w) ==
  w = [n \in 0 .. NrPts |->
         IF n = 0 THEN << >>
         ELSE IF Word(seeds, n) \in Int16 THEN Append(w[n - 1], Word(seeds, n))
         ELSE w[n - 1]]

LEMMA WordsIsChosen ==
  ASSUME NEW seeds
  PROVE  Words(seeds) = (CHOOSE w : IsWords(seeds, w))[NrPts]
BY DEF Words, IsWords

LEMMA WordsExist ==
  ASSUME NEW seeds
  PROVE  \E w : IsWords(seeds, w)
<1> DEFINE Step(w, n) == IF n = 0 THEN << >>
                         ELSE IF Word(seeds, n) \in Int16 THEN Append(w[n - 1], Word(seeds, n))
                         ELSE w[n - 1]
           Good == {m \in Nat : \E w : w = [n \in 0 .. m |-> Step(w, n)]}
<1>1. 0 \in Good
  <2> DEFINE w == [n \in 0 .. 0 |-> << >>]
  <2>1. w = [n \in 0 .. 0 |-> Step(w, n)]
    OBVIOUS
  <2> QED  BY <2>1
<1>2. ASSUME NEW m \in Nat, m \in Good
      PROVE  m + 1 \in Good
  <2>1. PICK w : w = [n \in 0 .. m |-> Step(w, n)]
    BY <1>2
  <2> DEFINE v == [n \in 0 .. m + 1 |-> IF n = m + 1 THEN Step(w, n) ELSE w[n]]
  <2>2. \A n \in 0 .. m : v[n] = w[n]
    OBVIOUS
  <2>3. ASSUME NEW n \in 0 .. m + 1
        PROVE  v[n] = Step(v, n)
    <3>0. n # m + 1 => n \in 0 .. m
      OBVIOUS
    <3>1. v[n] = Step(w, n)
      <4>1. CASE n = m + 1
        BY <4>1
      <4>2. CASE n # m + 1
        <5>1. w[n] = Step(w, n)
          <6> HIDE DEF Step
          <6> QED  BY <2>1, <3>0, <4>2
        <5> QED  BY <4>2, <5>1
      <4> QED  BY <4>1, <4>2
    <3>2. n # 0 => n - 1 \in 0 .. m
      OBVIOUS
    <3>3. n # 0 => v[n - 1] = w[n - 1]
      BY <2>2, <3>2
    <3> HIDE DEF v
    <3> QED  BY <3>1, <3>3
  <2>4. v = [n \in 0 .. m + 1 |-> Step(v, n)]
    <3>1. v = [n \in 0 .. m + 1 |-> v[n]]
      OBVIOUS
    <3> HIDE DEF v, Step
    <3> QED  BY <2>3, <3>1
  <2> HIDE DEF v, Step
  <2> QED  BY <2>4
<1>3. NrPts \in Good
  <2> HIDE DEF Good
  <2> QED  BY <1>1, <1>2, NaturalInduction
<1> QED  BY <1>3 DEF IsWords

\* What m samples leave: in range, in order, and with none missing the
\* samples themselves.
WordsLaw(seeds, s, m) ==
  /\ s \in Seq(Int16) /\ Len(s) <= m
  /\ \A k \in 1 .. Len(s) : \E n \in 1 .. NrPts : s[k] = Word(seeds, n)
  /\ Len(s) = m => \A n \in 1 .. m : s[n] = Word(seeds, n)
  /\ (\A n \in 1 .. m : Word(seeds, n) \in Int16) => Len(s) = m

LEMMA WordsLawStep ==
  ASSUME NEW seeds, NEW s, NEW m \in Nat, m < NrPts, WordsLaw(seeds, s, m)
  PROVE  /\ Word(seeds, m + 1) \in Int16 =>
              WordsLaw(seeds, Append(s, Word(seeds, m + 1)), m + 1)
         /\ Word(seeds, m + 1) \notin Int16 => WordsLaw(seeds, s, m + 1)
<1> DEFINE x == Word(seeds, m + 1)
           t == Append(s, x)
<1>0. s \in Seq(Int16) /\ Len(s) \in Nat /\ Len(s) <= m
  BY DEF WordsLaw
<1>1. ASSUME x \in Int16
      PROVE  WordsLaw(seeds, t, m + 1)
  <2>1. /\ t \in Seq(Int16) /\ Len(t) = Len(s) + 1 /\ t[Len(s) + 1] = x
        /\ \A k \in 1 .. Len(s) : t[k] = s[k]
    <3> HIDE DEF x
    <3> QED  BY <1>0, <1>1
  <2> HIDE DEF t
  <2>2. ASSUME NEW k \in 1 .. Len(t)
        PROVE  \E n \in 1 .. NrPts : t[k] = Word(seeds, n)
    <3>1. CASE k = Len(s) + 1
      <4>1. m + 1 \in 1 .. NrPts
        OBVIOUS
      <4> QED  BY <2>1, <3>1, <4>1
    <3>2. CASE k # Len(s) + 1
      <4>1. k \in 1 .. Len(s)
        BY <1>0, <2>1, <3>2
      <4> QED  BY <2>1, <4>1 DEF WordsLaw
    <3> QED  BY <3>1, <3>2
  <2>3. ASSUME Len(t) = m + 1, NEW n \in 1 .. m + 1
        PROVE  t[n] = Word(seeds, n)
    <3>1. Len(s) = m
      BY <1>0, <2>1, <2>3
    <3>2. CASE n = m + 1
      BY <2>1, <3>1, <3>2
    <3>3. CASE n # m + 1
      <4>1. n \in 1 .. m
        BY <3>3
      <4> QED  BY <2>1, <3>1, <4>1 DEF WordsLaw
    <3> QED  BY <3>2, <3>3
  <2>4. ASSUME \A n \in 1 .. m + 1 : Word(seeds, n) \in Int16
        PROVE  Len(t) = m + 1
    <3>1. \A n \in 1 .. m : n \in 1 .. m + 1
      OBVIOUS
    <3> QED  BY <2>1, <2>4, <3>1 DEF WordsLaw
  <2>5. Len(t) <= m + 1
    BY <1>0, <2>1
  <2> QED  BY <2>1, <2>2, <2>3, <2>4, <2>5 DEF WordsLaw
<1>2. ASSUME x \notin Int16
      PROVE  WordsLaw(seeds, s, m + 1)
  <2>1. Len(s) <= m + 1 /\ Len(s) # m + 1 /\ m + 1 \in 1 .. m + 1
    BY <1>0
  <2>2. ~ \A n \in 1 .. m + 1 : Word(seeds, n) \in Int16
    BY <1>2, <2>1
  <2> QED  BY <1>0, <2>1, <2>2 DEF WordsLaw
<1> QED  BY <1>1, <1>2

LEMMA WordsTheorem ==
  ASSUME NEW seeds
  PROVE  WordsLaw(seeds, Words(seeds), NrPts)
<1> DEFINE w == CHOOSE w : IsWords(seeds, w)
           Good == {m \in Nat : m <= NrPts => WordsLaw(seeds, w[m], m)}
<1>1. /\ \A n \in 0 .. NrPts : w[n] = IF n = 0 THEN << >>
                                      ELSE IF Word(seeds, n) \in Int16
                                             THEN Append(w[n - 1], Word(seeds, n))
                                      ELSE w[n - 1]
  <2>1. IsWords(seeds, w)
    BY WordsExist
  <2> HIDE DEF w
  <2> QED  BY <2>1 DEF IsWords
<1>0. Words(seeds) = w[NrPts]
  BY WordsIsChosen
<1> HIDE DEF w
<1>2. 0 \in Good
  <2>1. w[0] = << >>
    BY <1>1
  <2>2. WordsLaw(seeds, << >>, 0)
    BY DEF WordsLaw
  <2> QED  BY <2>1, <2>2
<1>3. ASSUME NEW m \in Nat, m \in Good
      PROVE  m + 1 \in Good
  <2> SUFFICES ASSUME m + 1 <= NrPts
               PROVE  WordsLaw(seeds, w[m + 1], m + 1)
    OBVIOUS
  <2>1. m + 1 \in 0 .. NrPts /\ m + 1 # 0 /\ (m + 1) - 1 = m /\ m < NrPts /\ m <= NrPts
    OBVIOUS
  <2>2. WordsLaw(seeds, w[m], m)
    BY <1>3, <2>1
  <2>3. w[m + 1] = IF Word(seeds, m + 1) \in Int16 THEN Append(w[m], Word(seeds, m + 1))
                   ELSE w[m]
    BY <1>1, <2>1
  <2> QED  BY <2>1, <2>2, <2>3, WordsLawStep
<1>4. NrPts \in Good
  <2> HIDE DEF Good
  <2> QED  BY <1>2, <1>3, NaturalInduction
<1> QED  BY <1>0, <1>4

-----------------------------------------------------------------------------
(* The convolution.                                                        *)

LEMMA RoundDivIsInt ==
  ASSUME NEW a \in Int, NEW b \in Nat \ {0}
  PROVE  RoundDiv(a, b) \in Int
<1>1. /\ 2 * b \in Int /\ 2 * b > 0 /\ 2 * a + b \in Int /\ b - 2 * a \in Int
  OBVIOUS
<1>2. ASSUME NEW c \in Int, NEW d \in Int, d > 0
      PROVE  c \div d \in Int
  BY <1>2
<1>3. (2 * a + b) \div (2 * b) \in Int /\ (b - 2 * a) \div (2 * b) \in Int
  BY <1>1, <1>2
<1> QED  BY <1>3 DEF RoundDiv

LEMMA RoundDivZero ==
  ASSUME NEW b \in Nat \ {0}
  PROVE  RoundDiv(0, b) = 0
<1>1. 2 * 0 + b = b
  OBVIOUS
<1>2. b \div (2 * b) = 0
  OBVIOUS
<1> QED  BY <1>1, <1>2 DEF RoundDiv

LEMMA ResponseIsInt ==
  ASSUME NEW n \in Int
  PROVE  /\ Response(n) \in Int
         /\ n <= 0 => Response(n) = 0
BY DEF Response

\* What is known of a hit whose indices are valid.
Sampled(hit) ==
  /\ hit \in SegHit /\ IndicesValid(hit)
  /\ gain \in Nat /\ sim_hits \in Seq(Electron)

Energies(hit) == [k \in Taken(hit) |-> SimHit(hit, k).edep * gain]

LEMMA TakenType ==
  ASSUME NEW hit, Sampled(hit)
  PROVE  /\ IsFiniteSet(Taken(hit)) /\ IsFiniteSet(Bins(hit))
         /\ IntegersOn(Energies(hit), Taken(hit))
         /\ \A k \in Taken(hit) : BinOf(hit, k) \in Int /\ BinOf(hit, k) \in Bins(hit)
         /\ Bins(hit) \subseteq Int
<1>1. IsFiniteSet(Taken(hit))
  <2>1. hit.raw \in Seq([coll : Collections, index : Int])
    BY DEF Sampled, SegHit
  <2>2. DOMAIN hit.raw = 1 .. Len(hit.raw) /\ Len(hit.raw) \in Nat
    BY <2>1
  <2>3. IsFiniteSet(1 .. Len(hit.raw))
    BY <2>2, FS_Interval
  <2> QED  BY <2>2, <2>3, FS_Subset DEF Taken
<1>2. ASSUME NEW k \in Taken(hit)
      PROVE  SimHit(hit, k).time \in Int /\ SimHit(hit, k).edep \in Int
  <2>1. hit.raw[k].index \in DOMAIN sim_hits
    BY DEF Sampled, IndicesValid
  <2>2. sim_hits[hit.raw[k].index] \in Electron
    BY <2>1 DEF Sampled
  <2> QED  BY <2>2 DEF SimHit, Electron
<1>3. \A k \in Taken(hit) : BinOf(hit, k) \in Int
  BY <1>2, RoundDivIsInt DEF BinOf
<1>4. IsFiniteSet(Bins(hit))
  <2> DEFINE bin == [k \in Taken(hit) |-> BinOf(hit, k)]
  <2>1. Bins(hit) = {bin[k] : k \in Taken(hit)}
    BY DEF Bins
  <2> HIDE DEF bin
  <2> QED  BY <1>1, <2>1, ImageIsFinite
<1>5. IntegersOn(Energies(hit), Taken(hit))
  <2>1. gain \in Int
    BY DEF Sampled
  <2> QED  BY <1>2, <2>1 DEF IntegersOn, Energies
<1>6. /\ \A k \in Taken(hit) : BinOf(hit, k) \in Bins(hit)
      /\ Bins(hit) \subseteq Int
  BY <1>3 DEF Bins
<1> QED  BY <1>1, <1>3, <1>4, <1>5, <1>6

\* The seed of a bin has the energy of the electrons in it.
LEMMA SeedsType ==
  ASSUME NEW hit, Sampled(hit)
  PROVE  /\ DOMAIN Seeds(hit) = Bins(hit)
         /\ \A b \in Bins(hit) :
              /\ Seeds(hit)[b] = Sum(Energies(hit), {k \in Taken(hit) : BinOf(hit, k) = b})
              /\ Seeds(hit)[b] \in Int
<1>1. DOMAIN Seeds(hit) = Bins(hit)
  BY DEF Seeds
<1>2. ASSUME NEW b \in Bins(hit)
      PROVE  Seeds(hit)[b] = Sum(Energies(hit), {k \in Taken(hit) : BinOf(hit, k) = b})
  BY DEF Seeds, Sum, Energies
<1>3. ASSUME NEW b \in Bins(hit)
      PROVE  Sum(Energies(hit), {k \in Taken(hit) : BinOf(hit, k) = b}) \in Int
  <2> DEFINE S == {k \in Taken(hit) : BinOf(hit, k) = b}
  <2>1. IsFiniteSet(S) /\ IntegersOn(Energies(hit), S)
    BY TakenType, FS_Subset DEF IntegersOn
  <2> HIDE DEF S
  <2>2. Sum(Energies(hit), S) \in Int
    BY <2>1, SumIsInt
  <2> QED  BY <2>2 DEF S
<1> QED  BY <1>1, <1>2, <1>3

\* The pulses of the bins and of the electrons at sample n.
BinPulses(hit, n) == [b \in Bins(hit) |-> Seeds(hit)[b] * Response(n - b)]
Pulses(hit, n)    == [k \in Taken(hit) |->
                        SimHit(hit, k).edep * gain * Response(n - BinOf(hit, k))]

LEMMA PulsesType ==
  ASSUME NEW hit, Sampled(hit), NEW n \in Int
  PROVE  IntegersOn(BinPulses(hit, n), Bins(hit)) /\ IntegersOn(Pulses(hit, n), Taken(hit))
<1>1. ASSUME NEW b \in Bins(hit)
      PROVE  Seeds(hit)[b] * Response(n - b) \in Int
  <2>1. n - b \in Int
    BY TakenType
  <2>2. Response(n - b) \in Int /\ Seeds(hit)[b] \in Int
    BY <2>1, ResponseIsInt, SeedsType
  <2> QED  BY <2>2
<1>2. ASSUME NEW k \in Taken(hit)
      PROVE  SimHit(hit, k).edep * gain * Response(n - BinOf(hit, k)) \in Int
  <2>1. n - BinOf(hit, k) \in Int
    BY TakenType
  <2>2. Response(n - BinOf(hit, k)) \in Int
    BY <2>1, ResponseIsInt
  <2>3. SimHit(hit, k).edep * gain \in Int
    BY TakenType DEF IntegersOn, Energies
  <2> QED  BY <2>2, <2>3
<1> QED  BY <1>1, <1>2 DEF IntegersOn, BinPulses, Pulses

\* The bins after n add nothing at n, so the count is the sum over all.
LEMMA CountIsSumOverBins ==
  ASSUME NEW hit, Sampled(hit), NEW n \in Int
  PROVE  Count(Seeds(hit), n) = Sum(BinPulses(hit, n), Bins(hit))
<1> DEFINE F     == BinPulses(hit, n)
           Early == {b \in Bins(hit) : b <= n}
           Late  == {b \in Bins(hit) : ~ (b <= n)}
<1>1. Count(Seeds(hit), n) = Sum(F, Early)
  BY SeedsType DEF Count, Sum, BinPulses
<1>2. /\ IsFiniteSet(Early) /\ IsFiniteSet(Late)
      /\ Early \cap Late = {} /\ Bins(hit) = Early \cup Late
  BY TakenType, FS_Subset
<1>3. IntegersOn(F, Early) /\ IntegersOn(F, Late)
  BY PulsesType DEF IntegersOn
<1>4. \A b \in Late : F[b] = 0
  <2> SUFFICES ASSUME NEW b \in Late
               PROVE  F[b] = 0
    OBVIOUS
  <2>1. b \in Int /\ n - b \in Int /\ n - b <= 0
    BY TakenType
  <2>2. Response(n - b) = 0
    BY <2>1, ResponseIsInt
  <2>3. Seeds(hit)[b] \in Int
    BY SeedsType
  <2> QED  BY <2>2, <2>3 DEF BinPulses
<1> HIDE DEF F, Early, Late
<1>5. Sum(F, Late) = 0
  BY <1>2, <1>4, SumZero
<1>6. Sum(F, Early \cup Late) = Sum(F, Early) + Sum(F, Late)
  BY <1>2, <1>3, SumUnion
<1>7. Sum(F, Early) \in Int
  BY <1>2, <1>3, SumIsInt
<1>8. Sum(F, Bins(hit)) = Sum(F, Early)
  BY <1>2, <1>5, <1>6, <1>7
<1> QED  BY <1>1, <1>8 DEF F

\* Bin by bin or electron by electron, it is the same sum.
LEMMA CountIsSuperposition ==
  ASSUME NEW hit, Sampled(hit), NEW n \in Int
  PROVE  Count(Seeds(hit), n) = Sum(Pulses(hit, n), Taken(hit))
<1> DEFINE Class(b) == {k \in Taken(hit) : BinOf(hit, k) = b}
           bin      == [k \in Taken(hit) |-> BinOf(hit, k)]
<1>1. ASSUME NEW b \in Bins(hit)
      PROVE  Seeds(hit)[b] * Response(n - b) = Sum(Pulses(hit, n), Class(b))
  <2>1. Class(b) \subseteq Taken(hit) /\ \A k \in Class(b) : BinOf(hit, k) = b
    OBVIOUS
  <2>2. IsFiniteSet(Class(b)) /\ IntegersOn(Energies(hit), Class(b))
    BY <2>1, TakenType, FS_Subset DEF IntegersOn
  <2>3. Response(n - b) \in Int
    <3>1. n - b \in Int
      BY TakenType
    <3> QED  BY <3>1, ResponseIsInt
  <2>4. \A k \in Class(b) : Pulses(hit, n)[k] = Energies(hit)[k] * Response(n - b)
    BY <2>1 DEF Pulses, Energies
  <2>5. Seeds(hit)[b] = Sum(Energies(hit), Class(b))
    BY SeedsType
  <2> HIDE DEF Class
  <2>6. Sum(Pulses(hit, n), Class(b)) = Sum(Energies(hit), Class(b)) * Response(n - b)
    BY <2>2, <2>3, <2>4, SumTimes
  <2> QED  BY <2>5, <2>6
<1>2. BinPulses(hit, n) = [b \in Bins(hit) |-> Sum(Pulses(hit, n), Class(b))]
  BY <1>1 DEF BinPulses
<1>3. \A b : Class(b) = {k \in Taken(hit) : bin[k] = b}
  OBVIOUS
<1>4. /\ IsFiniteSet(Taken(hit)) /\ IsFiniteSet(Bins(hit))
      /\ IntegersOn(Pulses(hit, n), Taken(hit)) /\ \A k \in Taken(hit) : bin[k] \in Bins(hit)
  BY TakenType, PulsesType
<1>5. [b \in Bins(hit) |-> Sum(Pulses(hit, n), Class(b))]
        = [b \in Bins(hit) |-> Sum(Pulses(hit, n), {k \in Taken(hit) : bin[k] = b})]
  BY <1>3
<1> HIDE DEF bin
<1>6. Sum([b \in Bins(hit) |-> Sum(Pulses(hit, n), {k \in Taken(hit) : bin[k] = b})], Bins(hit))
        = Sum(Pulses(hit, n), Taken(hit))
  BY <1>4, SumByClass
<1> QED  BY <1>2, <1>5, <1>6, CountIsSumOverBins

-----------------------------------------------------------------------------
(* The time series of a hit.                                               *)

OutHit == [quality : Nat, time : Int, edep : Int, adcCounts : Seq(Int16)]

LEMMA WordIsInt ==
  ASSUME NEW hit, Sampled(hit), NEW n \in Int
  PROVE  Word(Seeds(hit), n) \in Int
<1>1. n - 1 \in Int
  OBVIOUS
<1>2. Count(Seeds(hit), n - 1) \in Int
  <2>1. Count(Seeds(hit), n - 1) = Sum(BinPulses(hit, n - 1), Bins(hit))
    BY <1>1, CountIsSumOverBins
  <2>2. IntegersOn(BinPulses(hit, n - 1), Bins(hit)) /\ IsFiniteSet(Bins(hit))
    BY <1>1, PulsesType, TakenType
  <2> QED  BY <2>1, <2>2, SumIsInt
<1>3. RoundDiv(Count(Seeds(hit), n - 1), Unit) \in Int
  BY <1>2, RoundDivIsInt
<1> QED  BY <1>3 DEF Word

LEMMA SeriesType ==
  ASSUME NEW hit, Sampled(hit)
  PROVE  Series(hit) \in OutHit
<1>1. Words(Seeds(hit)) \in Seq(Int16)
  BY WordsTheorem DEF WordsLaw
<1>2. Cardinality(Bins(hit)) \in Nat
  BY TakenType, FS_CardinalityType
<1>3. hit.time \in Int /\ hit.edep \in Int
  BY DEF Sampled, SegHit
<1> QED  BY <1>1, <1>2, <1>3 DEF Series, OutHit

\* Samples that no electron precedes are flat.
LEMMA FlatBeforeElectrons ==
  ASSUME NEW hit, Sampled(hit), NEW n \in Int,
         \A b \in Bins(hit) : n - 1 <= b
  PROVE  Word(Seeds(hit), n) = AmpOffset
<1> DEFINE F == BinPulses(hit, n - 1)
<1>1. n - 1 \in Int
  OBVIOUS
<1>2. \A b \in Bins(hit) : F[b] = 0
  <2> SUFFICES ASSUME NEW b \in Bins(hit)
               PROVE  Seeds(hit)[b] * Response((n - 1) - b) = 0
    BY DEF BinPulses
  <2>1. b \in Int /\ (n - 1) - b \in Int /\ (n - 1) - b <= 0
    BY TakenType
  <2>2. Response((n - 1) - b) = 0
    BY <2>1, ResponseIsInt
  <2>3. Seeds(hit)[b] \in Int
    BY SeedsType
  <2> QED  BY <2>2, <2>3
<1> HIDE DEF F
<1>3. Sum(F, Bins(hit)) = 0
  BY <1>2, TakenType, SumZero
<1>4. Count(Seeds(hit), n - 1) = 0
  BY <1>1, <1>3, CountIsSumOverBins DEF F
<1>5. RoundDiv(0, Unit) + AmpOffset = AmpOffset
  BY RoundDivZero
<1> QED  BY <1>4, <1>5 DEF Word

\* A sample is the superposition of the electrons, rounded.
LEMMA WordIsSuperposition ==
  ASSUME NEW hit, Sampled(hit), NEW n \in Int
  PROVE  Word(Seeds(hit), n) = Superposition(hit, n - 1)
<1>1. n - 1 \in Int
  OBVIOUS
<1>2. Count(Seeds(hit), n - 1) = Sum(Pulses(hit, n - 1), Taken(hit))
  BY <1>1, CountIsSuperposition
<1>3. DOMAIN Pulses(hit, n - 1) = Taken(hit)
  BY DEF Pulses
<1>4. SumFunction(Pulses(hit, n - 1)) = Sum(Pulses(hit, n - 1), Taken(hit))
  BY <1>3 DEF Sum, SumFunction
<1>5. Superposition(hit, n - 1) = RoundDiv(SumFunction(Pulses(hit, n - 1)), Unit) + AmpOffset
  BY DEF Superposition, Pulses
<1> QED  BY <1>2, <1>4, <1>5 DEF Word

\* Seeds are taken from the raw hits only.
LEMMA SameRaw ==
  ASSUME NEW g, NEW h, g.raw = h.raw
  PROVE  Taken(g) = Taken(h) /\ Seeds(g) = Seeds(h)
<1>1. Taken(g) = Taken(h)
  BY DEF Taken
<1> QED  BY <1>1 DEF Seeds, Bins, BinOf, SimHit

LEMMA SmearedHit ==
  ASSUME NEW seg \in SegHit, NEW hit \in Smeared(seg)
  PROVE  /\ hit \in SegHit /\ hit.raw = seg.raw
         /\ hit.time - seg.time \in NoiseT /\ hit.edep - seg.edep \in NoiseE
<1>1. PICK t \in NoiseT, e \in NoiseE :
        hit = [time |-> seg.time + t, edep |-> seg.edep + e, raw |-> seg.raw]
  BY DEF Smeared
<1>2. /\ hit.raw = seg.raw /\ hit.time = seg.time + t /\ hit.edep = seg.edep + e
      /\ hit \in SegHit
  BY <1>1 DEF SegHit
<1>3. seg.time \in Int /\ seg.edep \in Int /\ t \in Int /\ e \in Int
  BY DEF SegHit
<1> QED  BY <1>2, <1>3

\* The series of a hit is the same as long as gain and electrons are.
LEMMA SeriesUnchanged ==
  ASSUME NEW i, in_hits' = in_hits, gain' = gain, sim_hits' = sim_hits
  PROVE  /\ Series(in_hits[i])' = Series(in_hits[i])
         /\ IndicesValid(in_hits[i])' = IndicesValid(in_hits[i])
<1>0. /\ Taken(in_hits[i])' = Taken(in_hits[i])
      /\ \A k : /\ SimHit(in_hits[i], k)' = SimHit(in_hits[i], k)
               /\ BinOf(in_hits[i], k)' = BinOf(in_hits[i], k)
  BY DEF Taken, BinOf, SimHit
<1>1. Bins(in_hits[i])' = Bins(in_hits[i])
  BY <1>0 DEF Bins
<1>2. Seeds(in_hits[i])' = Seeds(in_hits[i])
  BY <1>0, <1>1 DEF Seeds
<1>3. Words(Seeds(in_hits[i]))' = Words(Seeds(in_hits[i]))
  BY <1>2 DEF Words
<1>4. Series(in_hits[i])' = Series(in_hits[i])
  BY <1>1, <1>3 DEF Series
<1>5. IndicesValid(in_hits[i])' = IndicesValid(in_hits[i])
  BY <1>0 DEF IndicesValid
<1> QED  BY <1>4, <1>5

-----------------------------------------------------------------------------
(* The inductive invariant: the output so far holds, in order, the series  *)
(* of the smeared hits, which are the segmented hits but for the noise.    *)

TypeInv ==
  /\ gain \in Gains
  /\ pc \in {"smearing", "looping", "done", "failed", "crashed"}
  /\ seg_hits \in Seq(SegHit) /\ in_hits \in Seq(SegHit) /\ sim_hits \in Seq(Electron)
  /\ out_hits \in Seq(OutHit)
  /\ next \in 1 .. Len(in_hits) + 1

HitsAreSmeared ==
  /\ pc = "smearing" => in_hits = << >>
  /\ pc # "smearing" => Len(in_hits) = Len(seg_hits)
  /\ \A i \in 1 .. Len(in_hits) : in_hits[i] \in Smeared(seg_hits[i])

SeriesSoFar ==
  /\ Len(out_hits) = next - 1
  /\ \A i \in 1 .. Len(out_hits) :
       IndicesValid(in_hits[i]) /\ out_hits[i] = Series(in_hits[i])

IInv == TypeInv /\ HitsAreSmeared /\ SeriesSoFar

LEMMA InitIInv == Init => IInv
<1> SUFFICES ASSUME Init PROVE IInv
  OBVIOUS
<1>1. PICK input \in Inputs : seg_hits = input[1] /\ sim_hits = input[2]
  BY DEF Init
<1>2. input \in Seq(SegHit) \X Seq(Electron)
  BY InputsAssumption
<1>3. seg_hits \in Seq(SegHit) /\ sim_hits \in Seq(Electron)
  BY <1>1, <1>2
<1>4. TypeInv
  BY <1>3 DEF Init, TypeInv
<1> QED  BY <1>4 DEF Init, IInv, HitsAreSmeared, SeriesSoFar

LEMMA SmearStep == IInv /\ Smear => IInv'
<1> SUFFICES ASSUME IInv, Smear PROVE IInv'
  OBVIOUS
<1>0. /\ TypeInv /\ pc = "smearing" /\ in_hits = << >> /\ next = 1 /\ out_hits = << >>
  BY DEF IInv, TypeInv, HitsAreSmeared, SeriesSoFar, Smear
<1>1. /\ DOMAIN in_hits' = 1 .. Len(seg_hits)
      /\ \A i \in 1 .. Len(seg_hits) : in_hits'[i] \in Smeared(seg_hits[i])
      /\ in_hits' = [i \in 1 .. Len(seg_hits) |-> in_hits'[i]]
  <2>1. DOMAIN seg_hits = 1 .. Len(seg_hits)
    BY <1>0 DEF TypeInv
  <2>2. in_hits' \in [DOMAIN seg_hits -> UNION {Smeared(seg_hits[i]) : i \in DOMAIN seg_hits}]
        /\ \A i \in DOMAIN in_hits' : in_hits'[i] \in Smeared(seg_hits[i])
    BY DEF Smear
  <2> QED  BY <2>1, <2>2
<1>2. \A i \in 1 .. Len(seg_hits) : in_hits'[i] \in SegHit
  <2> SUFFICES ASSUME NEW i \in 1 .. Len(seg_hits)
               PROVE  in_hits'[i] \in SegHit
    OBVIOUS
  <2>1. seg_hits[i] \in SegHit
    BY <1>0 DEF TypeInv
  <2> QED  BY <1>1, <2>1, SmearedHit
<1>3. in_hits' \in Seq(SegHit) /\ Len(in_hits') = Len(seg_hits)
  <2>1. Len(seg_hits) \in Nat
    BY <1>0 DEF TypeInv
  <2> QED  BY <1>1, <1>2, <2>1
<1>4. TypeInv'
  BY <1>0, <1>3 DEF TypeInv, Smear
<1>5. HitsAreSmeared'
  BY <1>0, <1>1, <1>3 DEF HitsAreSmeared, Smear
<1>6. SeriesSoFar'
  BY <1>0 DEF SeriesSoFar, Smear
<1> QED  BY <1>4, <1>5, <1>6 DEF IInv

LEMMA HitAtHand ==
  ASSUME IInv, pc = "looping", next <= Len(in_hits), IndicesValid(Hit)
  PROVE  Sampled(Hit)
<1>1. gain \in Nat /\ Hit \in SegHit /\ sim_hits \in Seq(Electron)
  BY DEF IInv, TypeInv, Hit
<1> QED  BY <1>1 DEF Sampled

LEMMA SampleStep == IInv /\ Sample => IInv'
<1> SUFFICES ASSUME IInv, Sample PROVE IInv'
  OBVIOUS
<1>0. /\ TypeInv /\ pc = "looping" /\ next <= Len(in_hits) /\ IndicesValid(Hit)
      /\ out_hits' = Append(out_hits, Series(Hit)) /\ next' = next + 1
      /\ UNCHANGED <<gain, pc, seg_hits, in_hits, sim_hits>>
  BY DEF IInv, Sample
<1>1. Series(Hit) \in OutHit
  BY <1>0, HitAtHand, SeriesType
<1>2. /\ out_hits' \in Seq(OutHit) /\ Len(out_hits') = Len(out_hits) + 1
      /\ out_hits'[Len(out_hits) + 1] = Series(Hit)
      /\ \A i \in 1 .. Len(out_hits) : out_hits'[i] = out_hits[i]
  BY <1>0, <1>1 DEF TypeInv
<1>3. TypeInv'
  BY <1>0, <1>2 DEF TypeInv
<1>4. HitsAreSmeared'
  BY <1>0 DEF IInv, HitsAreSmeared
<1>5. Len(out_hits) = next - 1 /\ next \in Nat /\ Len(out_hits) \in Nat
  BY <1>0 DEF IInv, TypeInv, SeriesSoFar
<1>6. Len(out_hits') = next' - 1
  BY <1>0, <1>2, <1>5
<1>7. ASSUME NEW i \in 1 .. Len(out_hits')
      PROVE  IndicesValid(in_hits[i]) /\ out_hits'[i] = Series(in_hits[i])
  <2>1. CASE i = next
    BY <1>0, <1>2, <1>5, <2>1 DEF Hit
  <2>2. CASE i # next
    <3>1. i \in 1 .. Len(out_hits)
      BY <1>2, <1>5, <2>2
    <3> QED  BY <1>2, <3>1 DEF IInv, SeriesSoFar
  <2> QED  BY <2>1, <2>2
<1>8. ASSUME NEW i \in 1 .. Len(out_hits')
      PROVE  IndicesValid(in_hits[i])' /\ out_hits'[i] = Series(in_hits[i])'
  BY <1>0, <1>7, SeriesUnchanged
<1>9. SeriesSoFar'
  BY <1>6, <1>8 DEF SeriesSoFar
<1> QED  BY <1>3, <1>4, <1>9 DEF IInv

\* A step that only ends the loop, or none.
LEMMA OtherStep ==
  IInv /\ (OutOfBounds \/ BadIndex \/ Finish \/ UNCHANGED vars) => IInv'
<1> SUFFICES ASSUME IInv, OutOfBounds \/ BadIndex \/ Finish \/ UNCHANGED vars
             PROVE  IInv'
  OBVIOUS
<1>1. /\ UNCHANGED <<gain, seg_hits, in_hits, sim_hits, next, out_hits>>
      /\ pc' \in {"smearing", "looping", "done", "failed", "crashed"}
      /\ pc' = "smearing" <=> pc = "smearing"
  <2>1. CASE OutOfBounds \/ BadIndex \/ Finish
    BY <2>1 DEF OutOfBounds, BadIndex, Finish
  <2>2. CASE UNCHANGED vars
    BY <2>2 DEF vars, IInv, TypeInv
  <2> QED  BY <2>1, <2>2
<1>2. TypeInv'
  BY <1>1 DEF IInv, TypeInv
<1>3. HitsAreSmeared'
  BY <1>1 DEF IInv, HitsAreSmeared
<1>4. ASSUME NEW i \in 1 .. Len(out_hits)
      PROVE  IndicesValid(in_hits[i])' /\ out_hits'[i] = Series(in_hits[i])'
  <2>1. IndicesValid(in_hits[i]) /\ out_hits[i] = Series(in_hits[i])
    BY DEF IInv, SeriesSoFar
  <2> QED  BY <1>1, <2>1, SeriesUnchanged
<1>5. SeriesSoFar'
  BY <1>1, <1>4 DEF IInv, SeriesSoFar
<1> QED  BY <1>2, <1>3, <1>5 DEF IInv

\* The inductive invariant holds throughout the event.
THEOREM Invariance == Spec => []IInv
<1>1. IInv /\ [Next]_vars => IInv'
  BY SmearStep, SampleStep, OtherStep DEF Next
<1> QED  BY InitIInv, <1>1, PTL DEF Spec

-----------------------------------------------------------------------------
(* What it implies.                                                        *)

\* An output hit is the series of a hit whose indices are valid.
LEMMA OutputHit ==
  ASSUME IInv, NEW i \in DOMAIN out_hits
  PROVE  /\ i \in 1 .. Len(in_hits) /\ Sampled(in_hits[i])
         /\ out_hits[i] = Series(in_hits[i]) /\ out_hits[i] \in OutHit
         /\ seg_hits[i] \in SegHit /\ in_hits[i] \in Smeared(seg_hits[i])
<1>1. /\ i \in 1 .. Len(out_hits) /\ Len(out_hits) = next - 1
      /\ next \in 1 .. Len(in_hits) + 1 /\ Len(in_hits) \in Nat /\ Len(out_hits) \in Nat
      /\ out_hits[i] \in OutHit
  BY DEF IInv, TypeInv, SeriesSoFar
<1>2. i \in 1 .. Len(in_hits) /\ in_hits # << >>
  BY <1>1
<1>3. Sampled(in_hits[i])
  BY <1>1, <1>2 DEF IInv, TypeInv, SeriesSoFar, Sampled
<1>4. i \in 1 .. Len(seg_hits)
  BY <1>2 DEF IInv, HitsAreSmeared
<1> QED  BY <1>1, <1>2, <1>3, <1>4 DEF IInv, TypeInv, SeriesSoFar, HitsAreSmeared

\* Every ADC word fits int16_t, whatever the gain and the shaper.
THEOREM TypeCorrect == Spec => []TypeOK
<1>1. IInv => TypeOK
  BY OutputHit DEF IInv, TypeInv, TypeOK, OutHit
<1> QED  BY <1>1, Invariance, PTL

\* Every hit has one series, of its own electrons, flat without any.
THEOREM EveryHitHasItsSeries == Spec => []OneSeriesPerHit
<1>1. ASSUME IInv
      PROVE  OneSeriesPerHit
  <2>1. ASSUME NEW i \in DOMAIN out_hits
        PROVE  /\ out_hits[i].time - seg_hits[i].time \in NoiseT
               /\ out_hits[i].edep - seg_hits[i].edep \in NoiseE
               /\ out_hits[i].adcCounts = Words(Seeds(seg_hits[i]))
    <3>1. /\ seg_hits[i] \in SegHit /\ in_hits[i] \in Smeared(seg_hits[i])
          /\ out_hits[i] = Series(in_hits[i])
      BY <1>1, OutputHit
    <3>2. /\ in_hits[i].raw = seg_hits[i].raw
          /\ in_hits[i].time - seg_hits[i].time \in NoiseT
          /\ in_hits[i].edep - seg_hits[i].edep \in NoiseE
      BY <3>1, SmearedHit
    <3>3. Seeds(in_hits[i]) = Seeds(seg_hits[i])
      BY <3>2, SameRaw
    <3> QED  BY <3>1, <3>2, <3>3 DEF Series
  <2>2. ASSUME NEW i \in DOMAIN out_hits, Taken(seg_hits[i]) = {},
               NEW n \in DOMAIN out_hits[i].adcCounts
        PROVE  out_hits[i].adcCounts[n] = AmpOffset
    <3> DEFINE hit == in_hits[i]
    <3>1. /\ Sampled(hit) /\ out_hits[i].adcCounts = Words(Seeds(hit))
          /\ seg_hits[i] \in SegHit /\ hit \in Smeared(seg_hits[i])
      BY <1>1, OutputHit DEF Series
    <3>2. Taken(hit) = {}
      <4>1. hit.raw = seg_hits[i].raw
        BY <3>1, SmearedHit
      <4> QED  BY <2>2, <4>1, SameRaw
    <3> HIDE DEF hit
    <3>3. PICK m \in 1 .. NrPts : Words(Seeds(hit))[n] = Word(Seeds(hit), m)
      <4>1. WordsLaw(Seeds(hit), Words(Seeds(hit)), NrPts)
        BY WordsTheorem
      <4>2. n \in 1 .. Len(Words(Seeds(hit)))
        BY <2>2, <3>1, <4>1 DEF WordsLaw
      <4> QED  BY <4>1, <4>2 DEF WordsLaw
    <3>4. Word(Seeds(hit), m) = AmpOffset
      <4>1. m \in Int /\ Bins(hit) = {}
        BY <3>2 DEF Bins
      <4> QED  BY <3>1, <4>1, FlatBeforeElectrons
    <3> QED  BY <3>1, <3>3, <3>4
  <2> QED  BY <1>1, <2>1, <2>2 DEF OneSeriesPerHit, IInv, HitsAreSmeared, SeriesSoFar
<1> QED  BY <1>1, Invariance, PTL

\* When no sample is out of range, each is the sum of the pulses of the
\* hit's electrons.
THEOREM SuperpositionHolds == Spec => []SamplesAreSuperposition
<1>1. ASSUME IInv, NEW i \in DOMAIN out_hits,
             \A n \in 0 .. NrPts - 1 : Superposition(in_hits[i], n) \in Int16
      PROVE  out_hits[i].adcCounts
               = [n \in 1 .. NrPts |-> Superposition(in_hits[i], n - 1)]
  <2> DEFINE hit == in_hits[i]
             w   == Words(Seeds(hit))
  <2>1. Sampled(hit) /\ out_hits[i].adcCounts = w
    BY <1>1, OutputHit DEF Series
  <2>2. WordsLaw(Seeds(hit), w, NrPts)
    BY WordsTheorem
  <2>3. \A n \in 1 .. NrPts : Superposition(hit, n - 1) \in Int16
    <3>1. \A n \in 1 .. NrPts : n - 1 \in 0 .. NrPts - 1
      OBVIOUS
    <3> QED  BY <1>1, <3>1
  <2> HIDE DEF hit, w
  <2>4. \A n \in 1 .. NrPts : Word(Seeds(hit), n) = Superposition(hit, n - 1)
    <3>1. \A n \in 1 .. NrPts : n \in Int
      OBVIOUS
    <3> QED  BY <2>1, <3>1, WordIsSuperposition
  <2>5. Len(w) = NrPts
    BY <2>2, <2>3, <2>4 DEF WordsLaw
  <2>6. \A n \in 1 .. NrPts : w[n] = Superposition(hit, n - 1)
    BY <2>2, <2>4, <2>5 DEF WordsLaw
  <2>7. w = [n \in 1 .. NrPts |-> w[n]]
    BY <2>2, <2>5 DEF WordsLaw
  <2> QED  BY <2>1, <2>6, <2>7 DEF hit
<1>2. IInv => SamplesAreSuperposition
  BY <1>1 DEF SamplesAreSuperposition
<1> QED  BY <1>2, Invariance, PTL

\* In a complete series no sample precedes its cause.
THEOREM SamplesFollowElectrons == Spec => []OnlyFutureCounts
<1>1. ASSUME IInv, NEW i \in DOMAIN out_hits, Len(out_hits[i].adcCounts) = NrPts,
             NEW n \in DOMAIN out_hits[i].adcCounts,
             \A b \in Bins(in_hits[i]) : n - 1 <= b
      PROVE  out_hits[i].adcCounts[n] = AmpOffset
  <2> DEFINE hit == in_hits[i]
             w   == Words(Seeds(hit))
  <2>1. Sampled(hit) /\ out_hits[i].adcCounts = w
    BY <1>1, OutputHit DEF Series
  <2>2. WordsLaw(Seeds(hit), w, NrPts)
    BY WordsTheorem
  <2>3. \A b \in Bins(hit) : n - 1 <= b
    BY <1>1
  <2> HIDE DEF hit, w
  <2>4. n \in 1 .. NrPts /\ n \in Int
    BY <1>1, <2>1, <2>2 DEF WordsLaw
  <2>5. w[n] = Word(Seeds(hit), n)
    BY <1>1, <2>1, <2>2, <2>4 DEF WordsLaw
  <2> QED  BY <2>1, <2>3, <2>4, <2>5, FlatBeforeElectrons
<1>2. IInv => OnlyFutureCounts
  BY <1>1 DEF OnlyFutureCounts
<1> QED  BY <1>2, Invariance, PTL
=============================================================================
