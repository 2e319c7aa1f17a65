--------------------------- MODULE TpcDrift_proofs ---------------------------
(***************************************************************************)
(* Proofs about the drift of the electrons, for every collection of hits   *)
(* and all settings.                                                       *)
(***************************************************************************)
EXTENDS TpcDrift, FiniteSetTheorems, TLAPS

NoLoss == ~attach /\ ~discardOutBound

\* The positions of the electrons of hit i in a collection.
Of(out, i) == {k \in DOMAIN out : out[k].hit = i}

\* The hits among the first n that have energy, and the sum of the deposits.
Ionised(hits, n) == {i \in 1 .. n : hits[i].edep > 0}
SumTo(sms, n)    == IF n = 0 THEN 0 ELSE sms[n]

-----------------------------------------------------------------------------
(* The inductive invariant.  Its parts take the state as arguments.        *)

\* The loops come one after the other.
InOrder ==
  /\ Len(sums) < Len(in_hits) => next = 1 /\ pc = "looping"
  /\ next = 1 => share = 0 /\ nr_tot_e = 0
  /\ pc = "done" => cur_eno = 0 /\ next = Len(in_hits) + 1

Running(hits, sms) ==
  \A k \in DOMAIN sms :
    /\ SumTo(sms, k) = SumTo(sms, k - 1) + hits[k].edep
    /\ SumTo(sms, k) <= SumTo(sms, Len(sms))

Counting(cur, tot, in, len, nl) ==
  /\ in = len /\ in + cur <= tot
  /\ nl => in + cur = tot

\* The electrons of the output: of a hit treated before, with equal energies.
Shared(hits, nxt, shr, out) ==
  \A k \in DOMAIN out :
    LET e == out[k] IN
    /\ e.hit \in 1 .. nxt - 1
    /\ e.edep[1] = hits[e.hit].edep
    /\ e.hit = nxt - 1 => e.edep[2] = shr
    /\ \A j \in Of(out, e.hit) : out[j].edep = e.edep
    /\ Cardinality(Of(out, e.hit)) <= e.edep[2]

\* The electrons of the hit in the inner loop, and those still to come.
Current(nxt, shr, cur, out) == Cardinality(Of(out, nxt - 1)) + cur <= shr

\* Without losses each hit with energy has all its electrons.
Complete(hits, nxt, shr, cur, out) ==
  \A i \in 1 .. nxt - 1 :
    hits[i].edep > 0 =>
      IF i = nxt - 1 THEN shr > 0 /\ Cardinality(Of(out, i)) + cur = shr
      ELSE \E k \in Of(out, i) : Cardinality(Of(out, i)) = out[k].edep[2]

\* Up to one electron per hit with energy, the share of the limit that the
\* deposits so far have in the whole.
Bounded(hits, sms, n, tot) ==
  LET extra == Cardinality(Ionised(hits, n))
      whole == SumTo(sms, Len(sms))
  IN  IF whole \div WValue > MaxHits
        THEN whole * (tot - extra) <= MaxHits * SumTo(sms, n)
        ELSE WValue * (tot - extra) <= SumTo(sms, n)

IInv ==
  /\ TypeOK
  /\ InOrder
  /\ Running(in_hits, sums)
  /\ Counting(cur_eno, nr_tot_e, nr_in_e, Len(out_hits), NoLoss)
  /\ Shared(in_hits, next, share, out_hits)
  /\ Current(next, share, cur_eno, out_hits)
  /\ NoLoss => Complete(in_hits, next, share, cur_eno, out_hits)
  /\ ~usePoisson => Bounded(in_hits, sums, next - 1, nr_tot_e)

-----------------------------------------------------------------------------
LEMMA OfFinite ==
  ASSUME NEW out \in Seq(Electrons), NEW i
  PROVE  IsFiniteSet(Of(out, i)) /\ Cardinality(Of(out, i)) \in Nat
<1>1. DOMAIN out = 1 .. Len(out) /\ Len(out) \in Nat
  OBVIOUS
<1>2. IsFiniteSet(1 .. Len(out))
  BY <1>1, FS_Interval
<1>3. Of(out, i) \subseteq 1 .. Len(out)
  BY <1>1 DEF Of
<1> QED  BY <1>2, <1>3, FS_Subset, FS_CardinalityType

LEMMA OfAppend ==
  ASSUME NEW out \in Seq(Electrons), NEW e \in Electrons
  PROVE  /\ Append(out, e) \in Seq(Electrons)
         /\ Of(Append(out, e), e.hit) = Of(out, e.hit) \cup {Len(out) + 1}
         /\ Cardinality(Of(Append(out, e), e.hit)) = Cardinality(Of(out, e.hit)) + 1
         /\ \A i : i # e.hit => Of(Append(out, e), i) = Of(out, i)
         /\ \A k \in DOMAIN out : Append(out, e)[k] = out[k]
         /\ Append(out, e)[Len(out) + 1] = e
         /\ DOMAIN Append(out, e) = DOMAIN out \cup {Len(out) + 1}
<1> DEFINE new == Append(out, e)
<1>1. /\ new \in Seq(Electrons)
      /\ \A k \in DOMAIN out : new[k] = out[k]
      /\ new[Len(out) + 1] = e
      /\ DOMAIN new = DOMAIN out \cup {Len(out) + 1}
      /\ Len(out) + 1 \notin DOMAIN out
  OBVIOUS
<1> HIDE DEF new
<1>2. Of(new, e.hit) = Of(out, e.hit) \cup {Len(out) + 1}
  BY <1>1 DEF Of
<1>3. \A i : i # e.hit => Of(new, i) = Of(out, i)
  BY <1>1 DEF Of
<1>4. Len(out) + 1 \notin Of(out, e.hit)
  BY <1>1 DEF Of
<1>5. Cardinality(Of(new, e.hit)) = Cardinality(Of(out, e.hit)) + 1
  BY <1>2, <1>4, OfFinite, FS_AddElement
<1> QED  BY <1>1, <1>2, <1>3, <1>5 DEF new

-----------------------------------------------------------------------------
(* What the steps do to the parts of the invariant.                        *)

LEMMA SharedByIonise ==
  ASSUME NEW hits \in Seq(SimHits), NEW nxt \in 1 .. Len(hits), NEW shr \in Nat,
         NEW out \in Seq(Electrons), NEW n \in Nat, hits[nxt].edep > 0 => n > 0,
         Shared(hits, nxt, shr, out), Current(nxt, shr, 0, out)
  PROVE  /\ Shared(hits, nxt + 1, n, out) /\ Current(nxt + 1, n, n, out)
         /\ Complete(hits, nxt, shr, 0, out) => Complete(hits, nxt + 1, n, n, out)
<1>1. \A k \in DOMAIN out : out[k].hit \in 1 .. nxt - 1
  BY DEF Shared
<1>2. Of(out, nxt) = {}
  BY <1>1 DEF Of
<1>3. Cardinality(Of(out, nxt)) = 0
  BY <1>2, FS_EmptySet
<1>4. Shared(hits, nxt + 1, n, out)
  BY <1>1 DEF Shared
<1>5. Current(nxt + 1, n, n, out)
  BY <1>3 DEF Current
<1>6. ASSUME Complete(hits, nxt, shr, 0, out)
      PROVE  Complete(hits, nxt + 1, n, n, out)
  <2> SUFFICES ASSUME NEW i \in 1 .. nxt, hits[i].edep > 0
               PROVE  IF i = nxt THEN n > 0 /\ Cardinality(Of(out, i)) + n = n
                      ELSE \E k \in Of(out, i) : Cardinality(Of(out, i)) = out[k].edep[2]
    <3>1. (nxt + 1) - 1 = nxt
      OBVIOUS
    <3> QED  BY <3>1 DEF Complete
  <2>1. CASE i = nxt
    BY <1>3, <2>1
  <2>2. CASE i = nxt - 1
    <3>1. shr > 0 /\ Cardinality(Of(out, i)) + 0 = shr
      BY <1>6, <2>2 DEF Complete
    <3>2. Cardinality(Of(out, i)) = shr
      BY <3>1, OfFinite
    <3>3. Of(out, i) # {}
      <4>1. Cardinality(Of(out, i)) # 0
        BY <3>1, <3>2
      <4> QED  BY <4>1, OfFinite, FS_EmptySet, Zenon
    <3>4. PICK k \in Of(out, i) : TRUE
      BY <3>3
    <3>5. k \in DOMAIN out /\ out[k].hit = nxt - 1
      BY <2>2 DEF Of
    <3>6. out[k].edep[2] = shr
      BY <3>5 DEF Shared
    <3> QED  BY <2>2, <3>2, <3>4, <3>6
  <2>3. CASE i # nxt /\ i # nxt - 1
    <3>1. i \in 1 .. nxt - 1
      BY <2>3
    <3> QED  BY <1>6, <2>3, <3>1 DEF Complete
  <2> QED  BY <2>1, <2>2, <2>3
<1> QED  BY <1>4, <1>5, <1>6

LEMMA SharedByCollect ==
  ASSUME NEW hits \in Seq(SimHits), NEW nxt \in 2 .. Len(hits) + 1, NEW shr \in Nat,
         NEW cur \in 1 .. shr, NEW out \in Seq(Electrons), NEW e \in Electrons,
         e.hit = nxt - 1, e.edep = <<hits[nxt - 1].edep, shr>>,
         Shared(hits, nxt, shr, out), Current(nxt, shr, cur, out)
  PROVE  /\ Shared(hits, nxt, shr, Append(out, e))
         /\ Current(nxt, shr, cur - 1, Append(out, e))
         /\ Complete(hits, nxt, shr, cur, out) =>
              Complete(hits, nxt, shr, cur - 1, Append(out, e))
<1> DEFINE new == Append(out, e)
           own == Cardinality(Of(out, nxt - 1))
<1>1. /\ new \in Seq(Electrons)
      /\ Of(new, nxt - 1) = Of(out, nxt - 1) \cup {Len(out) + 1}
      /\ Cardinality(Of(new, nxt - 1)) = own + 1
      /\ \A i : i # nxt - 1 => Of(new, i) = Of(out, i)
      /\ \A k \in DOMAIN out : new[k] = out[k]
      /\ new[Len(out) + 1] = e
      /\ DOMAIN new = DOMAIN out \cup {Len(out) + 1}
  <2>1. /\ new \in Seq(Electrons)
        /\ Of(new, e.hit) = Of(out, e.hit) \cup {Len(out) + 1}
        /\ Cardinality(Of(new, e.hit)) = Cardinality(Of(out, e.hit)) + 1
        /\ \A i : i # e.hit => Of(new, i) = Of(out, i)
        /\ \A k \in DOMAIN out : new[k] = out[k]
        /\ new[Len(out) + 1] = e
        /\ DOMAIN new = DOMAIN out \cup {Len(out) + 1}
    BY OfAppend, Zenon
  <2> HIDE DEF new
  <2> QED  BY <2>1
<1>2. own \in Nat /\ own + cur <= shr
  BY OfFinite DEF Current
<1> HIDE DEF new, own
<1>3. \A k \in DOMAIN out : out[k].hit = nxt - 1 => out[k].edep = e.edep
  <2> SUFFICES ASSUME NEW k \in DOMAIN out, out[k].hit = nxt - 1
               PROVE  out[k].edep = e.edep
    OBVIOUS
  <2>1. out[k].edep[1] = hits[nxt - 1].edep /\ out[k].edep[2] = shr
    BY DEF Shared
  <2>2. out[k].edep \in Nat \X (Nat \ {0})
    <3>1. out[k] \in Electrons
      OBVIOUS
    <3> QED  BY <3>1 DEF Electrons
  <2> QED  BY <2>1, <2>2
<1>4. ASSUME NEW k \in DOMAIN new
      PROVE  /\ new[k].hit \in 1 .. nxt - 1
             /\ new[k].edep[1] = hits[new[k].hit].edep
             /\ new[k].hit = nxt - 1 => new[k].edep[2] = shr
             /\ \A j \in Of(new, new[k].hit) : new[j].edep = new[k].edep
             /\ Cardinality(Of(new, new[k].hit)) <= new[k].edep[2]
  <2>1. CASE new[k].hit = nxt - 1
    <3>1. new[k].edep = e.edep
      BY <1>1, <1>3, <2>1
    <3>2. ASSUME NEW j \in Of(new, nxt - 1)
          PROVE  new[j].edep = e.edep
      <4>1. CASE j = Len(out) + 1
        BY <1>1, <4>1
      <4>2. CASE j \in Of(out, nxt - 1)
        <5>1. j \in DOMAIN out /\ out[j].hit = nxt - 1
          BY <4>2 DEF Of
        <5> QED  BY <1>1, <1>3, <5>1
      <4> QED  BY <1>1, <4>1, <4>2
    <3>3. Cardinality(Of(new, nxt - 1)) <= shr
      BY <1>1, <1>2
    <3>4. nxt - 1 \in 1 .. nxt - 1
      OBVIOUS
    <3> QED  BY <2>1, <3>1, <3>2, <3>3, <3>4
  <2>2. CASE new[k].hit # nxt - 1
    <3>1. k \in DOMAIN out /\ new[k] = out[k]
      BY <1>1, <2>2
    <3>2. Of(new, new[k].hit) = Of(out, out[k].hit)
      BY <1>1, <2>2, <3>1
    <3>3. \A j \in Of(out, out[k].hit) : j \in DOMAIN out /\ new[j] = out[j]
      BY <1>1 DEF Of
    <3> QED  BY <2>2, <3>1, <3>2, <3>3 DEF Shared
  <2> QED  BY <2>1, <2>2
<1>5. Shared(hits, nxt, shr, new)
  BY <1>4 DEF Shared
<1>6. Current(nxt, shr, cur - 1, new)
  BY <1>1, <1>2 DEF Current
<1>7. ASSUME Complete(hits, nxt, shr, cur, out)
      PROVE  Complete(hits, nxt, shr, cur - 1, new)
  <2> SUFFICES ASSUME NEW i \in 1 .. nxt - 1, hits[i].edep > 0
               PROVE  IF i = nxt - 1
                      THEN shr > 0 /\ Cardinality(Of(new, i)) + (cur - 1) = shr
                      ELSE \E k \in Of(new, i) : Cardinality(Of(new, i)) = new[k].edep[2]
    BY DEF Complete
  <2>1. CASE i = nxt - 1
    <3>1. shr > 0 /\ own + cur = shr
      BY <1>7, <2>1 DEF Complete, own
    <3> QED  BY <1>1, <1>2, <2>1, <3>1
  <2>2. CASE i # nxt - 1
    <3>1. PICK k \in Of(out, i) : Cardinality(Of(out, i)) = out[k].edep[2]
      BY <1>7, <2>2 DEF Complete
    <3>2. k \in DOMAIN out
      BY DEF Of
    <3>3. Of(new, i) = Of(out, i) /\ new[k] = out[k]
      BY <1>1, <2>2, <3>2
    <3> QED  BY <2>2, <3>1, <3>3
  <2> QED  BY <2>1, <2>2
<1> QED  BY <1>5, <1>6, <1>7 DEF new

LEMMA SharedByLoss ==
  ASSUME NEW nxt \in Nat, NEW shr \in Nat, NEW cur \in 1 .. shr,
         NEW out \in Seq(Electrons), Current(nxt, shr, cur, out)
  PROVE  Current(nxt, shr, cur - 1, out)
  BY OfFinite DEF Current

-----------------------------------------------------------------------------
(* The scaling of the numbers of electrons.                                *)

LEMMA Division ==
  ASSUME NEW a \in Nat, NEW b \in Nat \ {0}
  PROVE  a \div b \in Nat /\ b * (a \div b) <= a /\ a < b * (a \div b) + b
  OBVIOUS

LEMMA ProductIsNat ==
  ASSUME NEW a \in Nat, NEW b \in Nat
  PROVE  a * b \in Nat
  BY SMT

LEMMA SumIsNat ==
  ASSUME NEW a \in Nat, NEW b \in Nat
  PROVE  a + b \in Nat
  OBVIOUS

LEMMA ProductGrows ==
  ASSUME NEW a \in Nat, NEW b \in Nat, NEW c \in Nat, a <= b
  PROVE  a * c <= b * c /\ c * a <= c * b
<1>1. PICK d \in Nat : b = a + d
  <2>1. b - a \in Nat /\ b = a + (b - a)
    OBVIOUS
  <2> QED  BY <2>1
<1>2. b * c = a * c + d * c /\ c * b = c * a + c * d
  BY <1>1, Z3
<1>3. d * c \in Nat /\ c * d \in Nat /\ a * c \in Nat /\ c * a \in Nat
  BY ProductIsNat
<1> QED  BY <1>2, <1>3

\* Rounding is to one of the numbers next to the quotient.
LEMMA Rounding ==
  ASSUME NEW a \in Nat, NEW b \in Nat \ {0}
  PROVE  /\ RoundDiv(a, b) \in Nat
         /\ 2 * (b * RoundDiv(a, b)) <= 2 * a + b
         /\ a = 0 => RoundDiv(a, b) = 0
<1> DEFINE q == (2 * a + b) \div (2 * b)
<1>1. 2 * a + b \in Nat /\ 2 * b \in Nat \ {0}
  OBVIOUS
<1>2. q \in Nat /\ (2 * b) * q <= 2 * a + b
  BY <1>1, Division
<1>3. a = 0 => q = 0
  <2> SUFFICES ASSUME a = 0  PROVE q = 0
    OBVIOUS
  <2>1. b < 2 * b
    OBVIOUS
  <2>2. (2 * b) * q <= b
    BY <1>2
  <2> HIDE DEF q
  <2>3. CASE q >= 1
    <3>1. (2 * b) * 1 <= (2 * b) * q
      BY <1>1, <1>2, <2>3, ProductGrows
    <3> QED  BY <2>1, <2>2, <3>1, <1>2
  <2> QED  BY <1>2, <2>3
<1> HIDE DEF q
<1>4. (2 * b) * q = 2 * (b * q)
  BY <1>2, Z3
<1> QED  BY <1>2, <1>3, <1>4 DEF RoundDiv, q

LEMMA Cancel ==
  ASSUME NEW d \in Int, NEW m \in Nat, NEW t \in Nat \ {0}, t * d < t * (m + 1)
  PROVE  d <= m
<1> SUFFICES ASSUME d >= m + 1  PROVE FALSE
  OBVIOUS
<1>1. d \in Nat /\ m + 1 \in Nat /\ m + 1 <= d
  OBVIOUS
<1>2. t * (m + 1) <= t * d
  BY <1>1, ProductGrows
<1>3. t * (m + 1) \in Nat /\ t * d \in Nat
  BY <1>1, ProductIsNat
<1> QED  BY <1>2, <1>3

\* One electron for the minimum apart, a hit gets no more than its part.
LEMMA PartOfHit ==
  ASSUME NEW t \in Nat, NEW e \in Nat,
         NEW n \in Nat, NEW m \in Nat, NEW x \in Nat,
         n = IF t \div WValue > MaxHits
               THEN RoundDiv((e \div WValue) * MaxHits * WValue, t) ELSE e \div WValue,
         m = IF n = 0 /\ e > 0 THEN 1 ELSE n,
         x = IF e > 0 THEN 1 ELSE 0
  PROVE  IF t \div WValue > MaxHits THEN t * (m - x) <= MaxHits * e
         ELSE WValue * (m - x) <= e
<1> DEFINE mean == e \div WValue
<1>1. WValue \in Nat \ {0} /\ MaxHits \in Nat \ {0}
  BY NumbersAssumption
<1>2. mean \in Nat /\ WValue * mean <= e
  BY <1>1, Division
<1>3. e = 0 => mean = 0
  <2> SUFFICES ASSUME e = 0, mean >= 1  PROVE FALSE
    BY <1>2
  <2>1. WValue * 1 <= WValue * mean
    BY <1>1, <1>2, ProductGrows
  <2> QED  BY <1>1, <1>2, <2>1
<1> HIDE DEF mean
<1>4. CASE t \div WValue > MaxHits
  <2>1. t \in Nat \ {0}
    <3>1. t \div WValue \in Nat /\ WValue * (t \div WValue) <= t
      BY <1>1, Division
    <3> DEFINE q == t \div WValue
    <3>2. q \in Nat /\ q >= 1 /\ WValue * q <= t
      BY <1>1, <1>4, <3>1
    <3> HIDE DEF q
    <3>3. WValue * 1 <= WValue * q
      BY <1>1, <3>2, ProductGrows
    <3> QED  BY <1>1, <3>2, <3>3
  <2> DEFINE a == mean * MaxHits * WValue
  <2>2. a = MaxHits * (WValue * mean)
    BY <1>1, <1>2, Z3
  <2>3. WValue * mean \in Nat /\ MaxHits * e \in Nat
    BY <1>1, <1>2, ProductIsNat
  <2>4. a \in Nat /\ a <= MaxHits * e
    BY <1>1, <1>2, <2>2, <2>3, ProductGrows, ProductIsNat
  <2>5. mean = 0 => a = 0
    BY <1>1, <2>2
  <2>6. n = RoundDiv(a, t)
    BY <1>4 DEF a, mean
  <2> HIDE DEF a
  <2>7. 2 * (t * n) <= 2 * a + t /\ (a = 0 => n = 0)
    BY <2>1, <2>4, <2>6, Rounding
  <2>8. t * n \in Nat /\ t * (n - 1) = t * n - t
    <3>1. t * (n - 1) = t * n - t
      BY <2>1, Z3
    <3> QED  BY <3>1, ProductIsNat
  <2>9. t * (m - x) <= MaxHits * e
    <3>1. CASE e = 0
      <4>1. m - x = 0
        BY <1>3, <2>5, <2>7, <3>1
      <4>2. t * 0 = 0
        OBVIOUS
      <4> QED  BY <2>3, <4>1, <4>2
    <3>2. CASE e > 0 /\ n = 0
      <4>1. m - x = 0
        BY <3>2
      <4>2. t * 0 = 0
        OBVIOUS
      <4> QED  BY <2>3, <4>1, <4>2
    <3>3. CASE e > 0 /\ n # 0
      <4>1. m - x = n - 1
        BY <3>3
      <4>2. t * n - t <= MaxHits * e
        BY <2>1, <2>3, <2>4, <2>7, <2>8
      <4> QED  BY <2>8, <4>1, <4>2
    <3> QED  BY <3>1, <3>2, <3>3
  <2> QED  BY <1>4, <2>9
<1>5. CASE ~ (t \div WValue > MaxHits)
  <2>1. n = mean
    BY <1>5 DEF mean
  <2>2. m - x \in Int /\ (m - x <= mean) /\ (m - x >= 0)
    BY <1>2, <1>3, <2>1
  <2>3. WValue * (m - x) <= WValue * mean
    BY <1>1, <1>2, <2>2, ProductGrows, m - x \in Nat
  <2>4. WValue * (m - x) \in Nat /\ WValue * mean \in Nat
    BY <1>1, <1>2, <2>2, ProductIsNat, m - x \in Nat
  <2>5. WValue * (m - x) <= e
    BY <1>2, <2>3, <2>4
  <2> QED  BY <1>5, <2>5
<1> QED  BY <1>4, <1>5

LEMMA IonisedGrows ==
  ASSUME NEW hits \in Seq(SimHits), NEW n \in 1 .. Len(hits)
  PROVE  /\ Cardinality(Ionised(hits, n - 1)) \in Nat
         /\ Cardinality(Ionised(hits, n)) =
              Cardinality(Ionised(hits, n - 1)) + IF hits[n].edep > 0 THEN 1 ELSE 0
<1> DEFINE old == Ionised(hits, n - 1)
<1>1. IsFiniteSet(old) /\ Cardinality(old) \in Nat
  <2>1. IsFiniteSet(1 .. n - 1) /\ old \subseteq 1 .. n - 1
    BY FS_Interval DEF Ionised
  <2> QED  BY <2>1, FS_Subset, FS_CardinalityType
<1>2. n \notin old
  BY DEF Ionised
<1>3. CASE hits[n].edep > 0
  <2>1. Ionised(hits, n) = old \cup {n}
    BY <1>3 DEF Ionised
  <2> HIDE DEF old
  <2>2. Cardinality(old \cup {n}) = Cardinality(old) + 1
    BY <1>1, <1>2, FS_AddElement
  <2> QED  BY <1>1, <1>3, <2>1, <2>2 DEF old
<1>4. CASE ~ (hits[n].edep > 0)
  <2>1. Ionised(hits, n) = old
    BY <1>4 DEF Ionised
  <2> QED  BY <1>1, <1>4, <2>1
<1> QED  BY <1>3, <1>4

\* The number of electrons of a deposit e, when the whole is t.
Given(e, t, m) ==
  \E r \in Nat :
    /\ r = IF t \div WValue > MaxHits
             THEN RoundDiv((e \div WValue) * MaxHits * WValue, t) ELSE e \div WValue
    /\ m = IF r = 0 /\ e > 0 THEN 1 ELSE r

LEMMA BoundedByIonise ==
  ASSUME NEW hits \in Seq(SimHits), NEW sms \in Seq(Nat), Len(sms) = Len(hits),
         Running(hits, sms), NEW n \in 1 .. Len(hits), NEW tot \in Nat, NEW m \in Nat,
         Given(hits[n].edep, SumTo(sms, Len(sms)), m),
         Bounded(hits, sms, n - 1, tot)
  PROVE  Bounded(hits, sms, n, tot + m)
<1> DEFINE e == hits[n].edep
           t == SumTo(sms, Len(sms))
           x == IF e > 0 THEN 1 ELSE 0
           old == Cardinality(Ionised(hits, n - 1))
           s == SumTo(sms, n - 1)
<1>1. WValue \in Nat \ {0} /\ MaxHits \in Nat \ {0}
  BY NumbersAssumption
<1>2. e \in Nat
  <2>1. hits[n] \in SimHits
    OBVIOUS
  <2> QED  BY <2>1 DEF SimHits
<1>3. t \in Nat /\ s \in Nat /\ SumTo(sms, n) = s + e
  BY DEF SumTo, Running
<1>4. x \in Nat /\ old \in Nat /\ Cardinality(Ionised(hits, n)) = old + x
  BY IonisedGrows
<1>5. IF t \div WValue > MaxHits THEN t * (m - x) <= MaxHits * e
      ELSE WValue * (m - x) <= e
  <2>1. x = IF e > 0 THEN 1 ELSE 0
    OBVIOUS
  <2> HIDE DEF e, t, x
  <2>2. Given(e, t, m)
    BY DEF e, t
  <2>3. PICK r \in Nat :
          /\ r = IF t \div WValue > MaxHits
                   THEN RoundDiv((e \div WValue) * MaxHits * WValue, t) ELSE e \div WValue
          /\ m = IF r = 0 /\ e > 0 THEN 1 ELSE r
    BY <2>2 DEF Given
  <2> QED  BY <1>2, <1>3, <1>4, <2>1, <2>3, PartOfHit
<1>6. IF t \div WValue > MaxHits THEN t * (tot - old) <= MaxHits * s
      ELSE WValue * (tot - old) <= s
  BY DEF Bounded
<1> HIDE DEF e, t, x, old, s
<1>7. (tot + m) - (old + x) = (tot - old) + (m - x) /\ tot - old \in Int /\ m - x \in Int
  BY <1>4
<1>8. IF t \div WValue > MaxHits THEN t * ((tot + m) - (old + x)) <= MaxHits * (s + e)
      ELSE WValue * ((tot + m) - (old + x)) <= s + e
  <2> DEFINE a == tot - old
             b == m - x
  <2>1. a \in Int /\ b \in Int
    BY <1>7
  <2>2. /\ IF t \div WValue > MaxHits THEN t * b <= MaxHits * e ELSE WValue * b <= e
        /\ IF t \div WValue > MaxHits THEN t * a <= MaxHits * s ELSE WValue * a <= s
    BY <1>5, <1>6
  <2>3. (tot + m) - (old + x) = a + b
    BY <1>7
  <2> HIDE DEF a, b
  <2>4. /\ t * (a + b) = t * a + t * b /\ WValue * (a + b) = WValue * a + WValue * b
        /\ MaxHits * (s + e) = MaxHits * s + MaxHits * e
    BY <1>1, <1>2, <1>3, <2>1, Z3
  <2>5. /\ t * a \in Int /\ t * b \in Int /\ WValue * a \in Int /\ WValue * b \in Int
        /\ MaxHits * s \in Int /\ MaxHits * e \in Int
    BY <1>1, <1>2, <1>3, <2>1
  <2>6. CASE t \div WValue > MaxHits
    <3>1. t * (a + b) <= MaxHits * (s + e)
      BY <2>2, <2>4, <2>5, <2>6
    <3> QED  BY <2>3, <2>6, <3>1
  <2>7. CASE ~ (t \div WValue > MaxHits)
    <3>1. WValue * (a + b) <= s + e
      BY <1>2, <1>3, <2>2, <2>4, <2>5, <2>7
    <3> QED  BY <2>3, <2>7, <3>1
  <2> QED  BY <2>6, <2>7
<1> QED  BY <1>3, <1>4, <1>8 DEF Bounded, t

LEMMA BoundHolds ==
  ASSUME NEW hits \in Seq(SimHits), NEW sms \in Seq(Nat), Running(hits, sms),
         NEW n \in 0 .. Len(sms), NEW tot \in Nat,
         Cardinality(Ionised(hits, n)) \in Nat, Bounded(hits, sms, n, tot)
  PROVE  tot <= MaxHits + Cardinality(Ionised(hits, n))
<1> DEFINE t == SumTo(sms, Len(sms))
           s == SumTo(sms, n)
           d == tot - Cardinality(Ionised(hits, n))
<1>1. WValue \in Nat \ {0} /\ MaxHits \in Nat \ {0}
  BY NumbersAssumption
<1>2. t \in Nat /\ s \in Nat /\ s <= t
  <2>1. t \in Nat /\ s \in Nat
    BY DEF SumTo
  <2>2. CASE n = 0
    BY <2>1, <2>2 DEF SumTo
  <2>3. CASE n # 0
    <3>1. n \in DOMAIN sms
      BY <2>3
    <3> QED  BY <2>1, <3>1 DEF Running
  <2> QED  BY <2>1, <2>2, <2>3
<1>3. d \in Int /\ IF t \div WValue > MaxHits THEN t * d <= MaxHits * s ELSE WValue * d <= s
  BY DEF Bounded
<1>4. d <= MaxHits => tot <= MaxHits + Cardinality(Ionised(hits, n))
  BY <1>1
<1> HIDE DEF t, s, d
<1>5. t \div WValue \in Nat /\ t < WValue * (t \div WValue) + WValue
      /\ WValue * (t \div WValue) <= t
  BY <1>1, <1>2, Division
<1>6. CASE t \div WValue > MaxHits
  <2>1. t # 0
    BY <1>1, <1>2, <1>6
  <2>2. MaxHits * s <= MaxHits * t
    BY <1>1, <1>2, ProductGrows
  <2>3. t * (MaxHits + 1) = MaxHits * t + t /\ MaxHits * t \in Nat /\ MaxHits * s \in Nat
        /\ t * d \in Int
    <3>1. t * (MaxHits + 1) = MaxHits * t + t
      BY <1>1, <1>2, Z3
    <3> QED  BY <1>1, <1>2, <1>3, <3>1, ProductIsNat
  <2>4. t * d < t * (MaxHits + 1)
    BY <1>2, <1>3, <1>6, <2>1, <2>2, <2>3
  <2>5. d <= MaxHits
    BY <1>1, <1>2, <1>3, <2>1, <2>4, Cancel
  <2> QED  BY <1>4, <2>5
<1>7. CASE ~ (t \div WValue > MaxHits)
  <2> DEFINE q == t \div WValue
  <2>1. q \in Nat /\ q <= MaxHits /\ t < WValue * q + WValue
    BY <1>1, <1>5, <1>7
  <2> HIDE DEF q
  <2>2. WValue * q <= WValue * MaxHits
    BY <1>1, <2>1, ProductGrows
  <2>3. WValue * (MaxHits + 1) = WValue * MaxHits + WValue /\ WValue * MaxHits \in Nat
        /\ WValue * q \in Nat /\ WValue * d \in Int
    <3>1. WValue * (MaxHits + 1) = WValue * MaxHits + WValue
      BY <1>1, Z3
    <3> QED  BY <1>1, <1>3, <2>1, <3>1, ProductIsNat
  <2>4. WValue * d < WValue * (MaxHits + 1)
    <3> DEFINE wd == WValue * d
               wq == WValue * q
               wm == WValue * MaxHits
               w1 == WValue * (MaxHits + 1)
    <3>1. wd <= s /\ t < wq + WValue /\ wq <= wm /\ w1 = wm + WValue
      BY <1>3, <1>7, <2>1, <2>2, <2>3
    <3>2. wd \in Int /\ wq \in Nat /\ wm \in Nat
      BY <2>3
    <3> HIDE DEF wd, wq, wm, w1
    <3>3. wd < w1
      BY <1>1, <1>2, <3>1, <3>2
    <3> QED  BY <3>3 DEF wd, w1
  <2>5. d <= MaxHits
    BY <1>1, <1>3, <2>4, Cancel
  <2> QED  BY <1>4, <2>5
<1> QED  BY <1>6, <1>7

-----------------------------------------------------------------------------
(* The initial states, and each action.                                    *)

LEMMA InitIInv == Init => IInv
<1> SUFFICES ASSUME Init  PROVE IInv
  OBVIOUS
<1>1. TypeOK
  BY InputsAssumption DEF Init, TypeOK
<1>2. InOrder
  BY <1>1 DEF Init, InOrder, TypeOK
<1>3. Running(in_hits, sums) /\ Shared(in_hits, next, share, out_hits)
  BY DEF Init, Running, Shared
<1>4. Counting(cur_eno, nr_tot_e, nr_in_e, Len(out_hits), NoLoss)
  BY DEF Init, Counting
<1>5. Current(next, share, cur_eno, out_hits)
  <2>1. Of(out_hits, next - 1) = {}
    BY DEF Init, Of
  <2>2. Cardinality(Of(out_hits, next - 1)) = 0
    BY <2>1, FS_EmptySet
  <2> QED  BY <2>2 DEF Init, Current
<1>6. Complete(in_hits, next, share, cur_eno, out_hits)
  BY DEF Init, Complete
<1>7. Bounded(in_hits, sums, next - 1, nr_tot_e)
  <2>1. Ionised(in_hits, 0) = {}
    BY DEF Ionised
  <2>2. Cardinality(Ionised(in_hits, 0)) = 0
    BY <2>1, FS_EmptySet
  <2>3. next - 1 = 0 /\ nr_tot_e = 0 /\ SumTo(sums, 0) = 0 /\ SumTo(sums, Len(sums)) = 0
    BY DEF Init, SumTo
  <2> QED  BY <2>2, <2>3, NumbersAssumption DEF Bounded
<1> QED  BY <1>1, <1>2, <1>3, <1>4, <1>5, <1>6, <1>7 DEF IInv

LEMMA TotEdepIsSum ==
  ASSUME sums \in Seq(Nat)
  PROVE  TotEdep = SumTo(sums, Len(sums)) /\ TotEdep \in Nat
  BY DEF TotEdep, SumTo

LEMMA AccumulateKeeps == IInv /\ Accumulate => IInv'
<1> SUFFICES ASSUME IInv, Accumulate  PROVE IInv'
  OBVIOUS
<1> USE DEF Accumulate, options
<1>1. TypeOK /\ InOrder
  BY DEF IInv
<1>2. next = 1 /\ Len(sums) + 1 \in DOMAIN in_hits /\ in_hits \in Seq(SimHits) /\ sums \in Seq(Nat)
  BY <1>1 DEF TypeOK, InOrder
<1>3. in_hits[Len(sums) + 1].edep \in Nat
  <2>1. in_hits[Len(sums) + 1] \in SimHits
    BY <1>2
  <2> QED  BY <2>1 DEF SimHits
<1>4. TotEdep = SumTo(sums, Len(sums)) /\ TotEdep \in Nat
  BY <1>2, TotEdepIsSum
<1>5. /\ sums' \in Seq(Nat) /\ Len(sums') = Len(sums) + 1
      /\ sums'[Len(sums) + 1] = TotEdep + in_hits[Len(sums) + 1].edep
      /\ \A k \in DOMAIN sums : sums'[k] = sums[k]
  BY <1>2, <1>3, <1>4
<1>6. TypeOK'
  BY <1>1, <1>2, <1>5 DEF TypeOK
<1>7. InOrder'
  BY <1>1, <1>2 DEF InOrder
<1>8. Running(in_hits, sums)'
  <2>1. SumTo(sums', Len(sums')) = SumTo(sums, Len(sums)) + in_hits[Len(sums) + 1].edep
    BY <1>4, <1>5 DEF SumTo
  <2>2. \A k \in 0 .. Len(sums) : SumTo(sums', k) = SumTo(sums, k)
    BY <1>2, <1>5 DEF SumTo
  <2>3. \A k \in 1 .. Len(sums) :
          /\ SumTo(sums, k) = SumTo(sums, k - 1) + in_hits[k].edep
          /\ SumTo(sums, k) <= SumTo(sums, Len(sums)) /\ SumTo(sums, k) \in Nat
    BY <1>2 DEF IInv, Running, SumTo
  <2> SUFFICES ASSUME NEW k \in 1 .. Len(sums) + 1
               PROVE  /\ SumTo(sums', k) = SumTo(sums', k - 1) + in_hits[k].edep
                      /\ SumTo(sums', k) <= SumTo(sums', Len(sums'))
    BY <1>5 DEF Running
  <2>4. CASE k = Len(sums) + 1
    <3>1. SumTo(sums', k - 1) = SumTo(sums, Len(sums)) /\ Len(sums') = k
      BY <1>2, <1>5, <2>2, <2>4
    <3> QED  BY <1>3, <1>4, <2>1, <2>4, <3>1
  <2>5. CASE k \in 1 .. Len(sums)
    <3>1. SumTo(sums', k) = SumTo(sums, k) /\ SumTo(sums', k - 1) = SumTo(sums, k - 1)
      BY <1>2, <2>2, <2>5
    <3> QED  BY <1>3, <1>4, <2>1, <2>3, <2>5, <3>1
  <2> QED  BY <1>2, <2>4, <2>5
<1>9. /\ Counting(cur_eno, nr_tot_e, nr_in_e, Len(out_hits), NoLoss)'
      /\ Shared(in_hits, next, share, out_hits)'
      /\ Current(next, share, cur_eno, out_hits)'
      /\ NoLoss' => Complete(in_hits, next, share, cur_eno, out_hits)'
  BY DEF IInv, NoLoss
<1>10. Bounded(in_hits, sums, next - 1, nr_tot_e)'
  <2>1. Ionised(in_hits, 0) = {}
    BY DEF Ionised
  <2>2. Cardinality(Ionised(in_hits, 0)) = 0
    BY <2>1, FS_EmptySet
  <2>3. next' - 1 = 0 /\ nr_tot_e' = 0 /\ SumTo(sums', 0) = 0 /\ SumTo(sums', Len(sums')) \in Nat
    BY <1>1, <1>2, <1>3, <1>4, <1>5 DEF InOrder, SumTo
  <2>4. Bounded(in_hits, sums', 0, 0)
    BY <2>2, <2>3, NumbersAssumption DEF Bounded
  <2> QED  BY <2>3, <2>4
<1> QED  BY <1>6, <1>7, <1>8, <1>9, <1>10 DEF IInv

LEMMA IoniseKeeps == IInv /\ Ionise => IInv'
<1> SUFFICES ASSUME IInv, Ionise  PROVE IInv'
  OBVIOUS
<1> DEFINE hit == in_hits[next]
           e   == hit.edep
<1>1. TypeOK /\ InOrder
  BY DEF IInv
<1>2. /\ pc = "looping" /\ cur_eno = 0 /\ Len(sums) = Len(in_hits)
      /\ next \in 1 .. Len(in_hits) /\ next' = next + 1
      /\ in_hits \in Seq(SimHits) /\ sums \in Seq(Nat)
      /\ UNCHANGED <<options, pc, in_hits, sums, nr_in_e, out_hits>>
  BY <1>1 DEF Ionise, EndOfHit, TypeOK
<1>3. hit \in SimHits /\ e \in Nat
  <2>1. hit \in SimHits
    BY <1>2
  <2> QED  BY <2>1 DEF SimHits
<1>4. WValue \in Nat \ {0} /\ MaxHits \in Nat \ {0}
  BY NumbersAssumption
<1>5. TotEdep = SumTo(sums, Len(sums)) /\ TotEdep \in Nat
  BY <1>2, TotEdepIsSum
<1>6. /\ share' \in Nat /\ (e > 0 => share' > 0)
      /\ ~usePoisson => Given(e, SumTo(sums, Len(sums)), share')
  <2>1. PICK n \in Primary(hit) : share' = AtLeastOne(hit, n)
    BY DEF Ionise
  <2>2. n \in Nat /\ (~usePoisson => n = e \div WValue)
    <3>1. e \div WValue \in Nat
      BY <1>3, <1>4, Division
    <3>2. 0 .. PoissonMax \subseteq Nat
      BY NumbersAssumption
    <3> QED  BY <2>1, <3>1, <3>2 DEF Primary
  <2>3. Reduced(n) \in Nat
    <3>1. CASE TotEno > MaxHits
      <4>1. TotEdep # 0
        <5> SUFFICES ASSUME TotEdep = 0  PROVE FALSE
          OBVIOUS
        <5>1. 0 \div WValue \in Nat /\ WValue * (0 \div WValue) <= 0
          BY <1>4, Division
        <5>2. TotEno = 0 \div WValue
          BY DEF TotEno
        <5> DEFINE q == 0 \div WValue
        <5>3. q \in Nat /\ WValue * q <= 0 /\ q >= 1
          BY <1>4, <3>1, <5>1, <5>2
        <5> HIDE DEF q
        <5>4. WValue * 1 <= WValue * q
          BY <1>4, <5>3, ProductGrows
        <5> QED  BY <1>4, <5>3, <5>4
      <4>2. n * MaxHits * WValue \in Nat
        BY <1>4, <2>2, ProductIsNat
      <4>3. RoundDiv(n * MaxHits * WValue, TotEdep) \in Nat
        BY <1>5, <4>1, <4>2, Rounding
      <4> QED  BY <3>1, <4>3 DEF Reduced
    <3>2. CASE ~ (TotEno > MaxHits)
      BY <2>2, <3>2 DEF Reduced
    <3> QED  BY <3>1, <3>2
  <2>4. share' \in Nat /\ (e > 0 => share' > 0)
    BY <2>1, <2>3 DEF AtLeastOne
  <2>5. ASSUME ~usePoisson  PROVE Given(e, SumTo(sums, Len(sums)), share')
    BY <1>5, <2>1, <2>2, <2>3, <2>5 DEF Given, Reduced, AtLeastOne, TotEno
  <2> QED  BY <2>4, <2>5
<1>7. cur_eno' = share' /\ nr_tot_e' = nr_tot_e + share'
  BY DEF Ionise
<1> HIDE DEF hit, e
<1>8. TypeOK'
  <2>1. next' \in 1 .. Len(in_hits') + 1 /\ cur_eno' \in 0 .. share' /\ nr_tot_e' \in Nat
    <3>1. in_hits' = in_hits /\ nr_tot_e \in Nat /\ Len(in_hits) \in Nat
      BY <1>1, <1>2 DEF TypeOK
    <3>2. next' \in 1 .. Len(in_hits') + 1
      BY <1>2, <3>1
    <3>3. cur_eno' \in 0 .. share'
      <4>1. cur_eno' = share' /\ share' \in Nat
        BY <1>6, <1>7
      <4> QED  BY <4>1
    <3>4. nr_tot_e' \in Nat
      <4>1. nr_tot_e' = nr_tot_e + share'
        BY <1>7
      <4>2. share' \in Nat /\ nr_tot_e \in Nat
        BY <1>6, <3>1
      <4>3. nr_tot_e + share' \in Nat
        BY <4>2, SumIsNat, Zenon
      <4> QED  BY <4>1, <4>3, Zenon
    <3> QED  BY <3>2, <3>3, <3>4, Zenon
  <2>2. /\ usePoisson' = usePoisson /\ attach' = attach /\ discardOutBound' = discardOutBound
        /\ pc' = pc /\ in_hits' = in_hits /\ sums' = sums
        /\ nr_in_e' = nr_in_e /\ out_hits' = out_hits
    BY <1>2 DEF options
  <2>3. /\ usePoisson \in BOOLEAN /\ attach \in BOOLEAN /\ discardOutBound \in BOOLEAN
        /\ pc \in {"looping", "done", "crashed"}
        /\ in_hits \in Seq(SimHits) /\ sums \in Seq(Nat) /\ Len(sums) <= Len(in_hits)
        /\ nr_in_e \in Nat /\ out_hits \in Seq(Electrons)
    BY <1>1 DEF TypeOK
  <2> QED  BY <1>6, <2>1, <2>2, <2>3, Zenon DEF TypeOK
<1>9. InOrder'
  BY <1>1, <1>2 DEF InOrder
<1>10. Running(in_hits, sums)'
  BY <1>2 DEF IInv
<1>11. Counting(cur_eno, nr_tot_e, nr_in_e, Len(out_hits), NoLoss)'
  <2>1. Counting(0, nr_tot_e, nr_in_e, Len(out_hits), NoLoss) /\ NoLoss' = NoLoss
    BY <1>2 DEF IInv, NoLoss, options
  <2>2. nr_tot_e \in Nat /\ nr_in_e \in Nat
    BY <1>1 DEF TypeOK
  <2>3. Counting(share', nr_tot_e + share', nr_in_e, Len(out_hits), NoLoss)
    BY <1>6, <2>1, <2>2 DEF Counting
  <2> QED  BY <1>2, <1>7, <2>1, <2>3
<1>12. /\ Shared(in_hits, next, share, out_hits)' /\ Current(next, share, cur_eno, out_hits)'
       /\ NoLoss' => Complete(in_hits, next, share, cur_eno, out_hits)'
  <2>1. /\ Shared(in_hits, next, share, out_hits) /\ Current(next, share, 0, out_hits)
        /\ NoLoss => Complete(in_hits, next, share, 0, out_hits)
    BY <1>2 DEF IInv
  <2>2. share \in Nat /\ out_hits \in Seq(Electrons)
    BY <1>1 DEF TypeOK
  <2>3. /\ Shared(in_hits, next + 1, share', out_hits)
        /\ Current(next + 1, share', share', out_hits)
        /\ NoLoss => Complete(in_hits, next + 1, share', share', out_hits)
    BY <1>2, <1>6, <2>1, <2>2, SharedByIonise DEF e, hit
  <2>4. NoLoss' = NoLoss
    BY <1>2 DEF NoLoss, options
  <2> QED  BY <1>2, <1>7, <2>3, <2>4
<1>13. ~usePoisson' => Bounded(in_hits, sums, next - 1, nr_tot_e)'
  <2> SUFFICES ASSUME ~usePoisson  PROVE Bounded(in_hits, sums, next, nr_tot_e + share')
    BY <1>2, <1>7 DEF options
  <2>1. Given(e, SumTo(sums, Len(sums)), share')
    BY <1>6
  <2>2. nr_tot_e \in Nat /\ Running(in_hits, sums) /\ Bounded(in_hits, sums, next - 1, nr_tot_e)
    BY <1>1 DEF IInv, TypeOK
  <2> QED  BY <1>2, <1>6, <2>1, <2>2, BoundedByIonise DEF e, hit
<1> QED  BY <1>8, <1>9, <1>10, <1>11, <1>12, <1>13 DEF IInv

\* The loop over the electrons: one more is lost, or collected.
InLoop ==
  /\ pc = "looping" /\ cur_eno > 0
  /\ cur_eno' = cur_eno - 1
  /\ UNCHANGED <<usePoisson, attach, discardOutBound, pc, in_hits, sums, next, share, nr_tot_e>>

LEMMA InLoopKeeps ==
  ASSUME IInv, InLoop
  PROVE  /\ cur_eno \in 1 .. share /\ cur_eno' \in 0 .. share' /\ share \in Nat
         /\ next \in 2 .. Len(in_hits) + 1 /\ in_hits \in Seq(SimHits)
         /\ InOrder' /\ Running(in_hits, sums)' /\ NoLoss' = NoLoss
         /\ ~usePoisson' => Bounded(in_hits, sums, next - 1, nr_tot_e)'
         /\ nr_in_e' \in Nat /\ out_hits' \in Seq(Electrons) => TypeOK'
<1>1. TypeOK /\ InOrder
  BY DEF IInv
<1>2. /\ usePoisson' = usePoisson /\ attach' = attach /\ discardOutBound' = discardOutBound
      /\ pc' = pc /\ in_hits' = in_hits /\ sums' = sums
      /\ next' = next /\ share' = share /\ nr_tot_e' = nr_tot_e
  BY DEF InLoop
<1>3. share \in Nat /\ cur_eno \in 0 .. share /\ cur_eno > 0 /\ cur_eno' = cur_eno - 1
  BY <1>1 DEF TypeOK, InLoop
<1>4. cur_eno \in 1 .. share /\ cur_eno' \in 0 .. share' /\ share # 0
  BY <1>2, <1>3
<1>5. next \in 2 .. Len(in_hits) + 1 /\ in_hits \in Seq(SimHits)
  BY <1>1, <1>4 DEF TypeOK, InOrder
<1>6. InOrder'
  <2>1. pc = "looping"
    BY DEF InLoop
  <2> QED  BY <1>1, <1>2, <1>5, <2>1 DEF InOrder
<1>7. Running(in_hits, sums)' /\ NoLoss' = NoLoss
      /\ (~usePoisson' => Bounded(in_hits, sums, next - 1, nr_tot_e)')
  BY <1>2 DEF IInv, NoLoss
<1>8. nr_in_e' \in Nat /\ out_hits' \in Seq(Electrons) => TypeOK'
  <2>1. /\ usePoisson \in BOOLEAN /\ attach \in BOOLEAN /\ discardOutBound \in BOOLEAN
        /\ pc \in {"looping", "done", "crashed"}
        /\ in_hits \in Seq(SimHits) /\ sums \in Seq(Nat) /\ Len(sums) <= Len(in_hits)
        /\ next \in 1 .. Len(in_hits) + 1 /\ nr_tot_e \in Nat
    BY <1>1 DEF TypeOK
  <2> QED  BY <1>2, <1>3, <1>4, <2>1, Zenon DEF TypeOK
<1> QED  BY <1>3, <1>4, <1>5, <1>6, <1>7, <1>8

LEMMA LostKeeps == IInv /\ (Attached \/ Discarded) => IInv'
<1> SUFFICES ASSUME IInv, Attached \/ Discarded  PROVE IInv'
  OBVIOUS
<1>1. InLoop /\ nr_in_e' = nr_in_e /\ out_hits' = out_hits /\ ~NoLoss
  BY DEF Attached, Discarded, InLoop, NoLoss, options
<1>2. TypeOK /\ nr_in_e \in Nat /\ out_hits \in Seq(Electrons) /\ nr_tot_e \in Nat
  BY DEF IInv, TypeOK
<1>3. cur_eno \in 1 .. share /\ share \in Nat /\ next \in 2 .. Len(in_hits) + 1
  BY <1>1, InLoopKeeps
<1>4. /\ TypeOK' /\ InOrder' /\ Running(in_hits, sums)' /\ NoLoss' = NoLoss
      /\ ~usePoisson' => Bounded(in_hits, sums, next - 1, nr_tot_e)'
  BY <1>1, <1>2, InLoopKeeps
<1>5. /\ cur_eno' = cur_eno - 1 /\ next' = next /\ share' = share
      /\ in_hits' = in_hits /\ nr_tot_e' = nr_tot_e
  BY <1>1 DEF InLoop
<1>6. Counting(cur_eno, nr_tot_e, nr_in_e, Len(out_hits), NoLoss)'
  <2>1. nr_in_e = Len(out_hits) /\ nr_in_e + cur_eno <= nr_tot_e
    BY DEF IInv, Counting
  <2>2. Counting(cur_eno - 1, nr_tot_e, nr_in_e, Len(out_hits), NoLoss)
    BY <1>1, <1>2, <1>3, <2>1 DEF Counting
  <2> QED  BY <1>1, <1>4, <1>5, <2>2
<1>7. Shared(in_hits, next, share, out_hits)' /\ Current(next, share, cur_eno, out_hits)'
  <2>1. Shared(in_hits, next, share, out_hits) /\ Current(next, share, cur_eno, out_hits)
    BY DEF IInv
  <2>2. Current(next, share, cur_eno - 1, out_hits)
    BY <1>2, <1>3, <2>1, SharedByLoss
  <2> QED  BY <1>1, <1>5, <2>1, <2>2
<1> QED  BY <1>1, <1>4, <1>6, <1>7 DEF IInv

LEMMA CollectedKeeps == IInv /\ Collected => IInv'
<1> SUFFICES ASSUME IInv, Collected  PROVE IInv'
  OBVIOUS
<1>1. PICK d \in Diffusion(TransDiff), l \in Diffusion(LongDiff) :
        out_hits' = Append(out_hits, Electron(d, l))
  BY DEF Collected
<1>2. InLoop /\ nr_in_e' = nr_in_e + 1
  BY DEF Collected, InLoop, options
<1>3. TypeOK /\ nr_in_e \in Nat /\ out_hits \in Seq(Electrons) /\ nr_tot_e \in Nat
  BY DEF IInv, TypeOK
<1>4. /\ cur_eno \in 1 .. share /\ share \in Nat /\ next \in 2 .. Len(in_hits) + 1
      /\ in_hits \in Seq(SimHits)
  BY <1>2, InLoopKeeps
<1> DEFINE e == Electron(d, l)
<1>5. e \in Electrons /\ e.hit = next - 1 /\ e.edep = <<in_hits[next - 1].edep, share>>
  <2>1. Hit = in_hits[next - 1] /\ Hit \in SimHits
    BY <1>4 DEF Hit
  <2>2. d \in Int /\ l \in Int
    BY DiffusionAssumption DEF Diffusion
  <2>3. e = [hit |-> next - 1, vol |-> Hit.vol, x |-> Hit.x + d,
             edep |-> <<Hit.edep, share>>, time |-> Hit.drift + l]
    BY DEF Electron
  <2>4. Hit.vol \in STRING /\ Hit.x \in Int /\ Hit.drift \in Nat /\ Hit.edep \in Nat
    BY <2>1 DEF SimHits
  <2>5. next - 1 \in Nat \ {0} /\ share \in Nat \ {0}
    BY <1>4
  <2> HIDE DEF e
  <2> QED  BY <2>1, <2>2, <2>3, <2>4, <2>5 DEF Electrons
<1> HIDE DEF e
<1>6. out_hits' = Append(out_hits, e)
  BY <1>1 DEF e
<1>7. out_hits' \in Seq(Electrons) /\ Len(out_hits') = Len(out_hits) + 1
  BY <1>3, <1>5, <1>6
<1>8. /\ TypeOK' /\ InOrder' /\ Running(in_hits, sums)' /\ NoLoss' = NoLoss
      /\ ~usePoisson' => Bounded(in_hits, sums, next - 1, nr_tot_e)'
  <2>1. nr_in_e' \in Nat
    BY <1>2, <1>3
  <2> QED  BY <1>2, <1>7, <2>1, InLoopKeeps
<1>9. /\ cur_eno' = cur_eno - 1 /\ next' = next /\ share' = share
      /\ in_hits' = in_hits /\ nr_tot_e' = nr_tot_e
  BY <1>2 DEF InLoop
<1>10. Counting(cur_eno, nr_tot_e, nr_in_e, Len(out_hits), NoLoss)'
  <2>1. Counting(cur_eno, nr_tot_e, nr_in_e, Len(out_hits), NoLoss)
    BY DEF IInv
  <2>2. Counting(cur_eno - 1, nr_tot_e, nr_in_e + 1, Len(out_hits) + 1, NoLoss)
    BY <1>3, <1>4, <2>1 DEF Counting
  <2> QED  BY <1>2, <1>7, <1>8, <1>9, <2>2
<1>11. /\ Shared(in_hits, next, share, out_hits)' /\ Current(next, share, cur_eno, out_hits)'
       /\ NoLoss' => Complete(in_hits, next, share, cur_eno, out_hits)'
  <2>1. /\ Shared(in_hits, next, share, out_hits) /\ Current(next, share, cur_eno, out_hits)
        /\ NoLoss => Complete(in_hits, next, share, cur_eno, out_hits)
    BY DEF IInv
  <2>2. /\ Shared(in_hits, next, share, Append(out_hits, e))
        /\ Current(next, share, cur_eno - 1, Append(out_hits, e))
        /\ NoLoss => Complete(in_hits, next, share, cur_eno - 1, Append(out_hits, e))
    BY <1>3, <1>4, <1>5, <2>1, SharedByCollect
  <2> QED  BY <1>6, <1>8, <1>9, <2>2
<1> QED  BY <1>8, <1>10, <1>11 DEF IInv

LEMMA EndKeeps == IInv /\ (NoAnode \/ Finish) => IInv'
<1> SUFFICES ASSUME IInv, NoAnode \/ Finish  PROVE IInv'
  OBVIOUS
<1>1. /\ usePoisson' = usePoisson /\ attach' = attach /\ discardOutBound' = discardOutBound
      /\ in_hits' = in_hits /\ sums' = sums /\ next' = next /\ share' = share
      /\ cur_eno' = cur_eno /\ nr_tot_e' = nr_tot_e /\ nr_in_e' = nr_in_e
      /\ out_hits' = out_hits
  BY DEF NoAnode, Finish, options
<1>2. /\ Len(sums) = Len(in_hits) /\ cur_eno = 0
      /\ pc' = "crashed" \/ (pc' = "done" /\ next > Len(in_hits))
  BY DEF NoAnode, Finish, EndOfHit
<1>3. TypeOK /\ InOrder
  BY DEF IInv
<1>4. TypeOK'
  BY <1>1, <1>2, <1>3 DEF TypeOK
<1>5. InOrder'
  BY <1>1, <1>2, <1>3 DEF InOrder, TypeOK
<1> QED  BY <1>1, <1>4, <1>5 DEF IInv, NoLoss

LEMMA NextKeeps == IInv /\ [Next]_vars => IInv'
<1> SUFFICES ASSUME IInv, [Next]_vars  PROVE IInv'
  OBVIOUS
<1>1. CASE UNCHANGED vars
  BY <1>1 DEF vars, options, IInv, TypeOK, InOrder, NoLoss
<1>2. CASE Next
  BY <1>2, AccumulateKeeps, IoniseKeeps, LostKeeps, CollectedKeeps, EndKeeps DEF Next
<1> QED  BY <1>1, <1>2

-----------------------------------------------------------------------------
(* The counters and collections keep their types, and no energy is divided *)
(* by zero electrons (TpcDriftAlg.cpp:97-166): for every collection of     *)
(* hits and all settings.                                                  *)
THEOREM TypeCorrect == Spec => []TypeOK
<1>1. IInv => TypeOK
  BY DEF IInv
<1> QED  BY <1>1, InitIInv, NextKeeps, PTL DEF Spec

(* The counters tell what became of the electrons                          *)
(* (TpcDriftAlg.cpp:132-166).                                              *)
THEOREM CountersRight == Spec => []CountersMatchOutput
<1>1. IInv => CountersMatchOutput
  BY DEF IInv, TypeOK, InOrder, Counting, NoLoss, CountersMatchOutput, Counters
<1> QED  BY <1>1, InitIInv, NextKeeps, PTL DEF Spec

(* Electrons of a hit share its energy equally and never carry more than   *)
(* the hit deposited (TpcDriftAlg.cpp:32 and 129-132).                     *)
THEOREM EnergyIsShared == Spec => []EnergyShared
<1>1. IInv => EnergyShared
  <2>1. \A i : ElectronsOf(i) = Of(out_hits, i)
    BY DEF ElectronsOf, Of
  <2> QED  BY <2>1 DEF IInv, Shared, EnergyShared
<1> QED  BY <1>1, InitIInv, NextKeeps, PTL DEF Spec

(* No deposit vanishes by scaling and rounding: without losses each hit    *)
(* with energy has all its electrons in the output (TpcDriftAlg.cpp:129).  *)
THEOREM NoDepositVanishes == Spec => []EveryDepositIonises
<1>1. IInv => EveryDepositIonises
  <2> SUFFICES ASSUME IInv, pc = "done", NoLoss,
                      NEW i \in DOMAIN in_hits, in_hits[i].edep > 0
               PROVE  \E k \in Of(out_hits, i) :
                        Cardinality(Of(out_hits, i)) = out_hits[k].edep[2]
    BY DEF EveryDepositIonises, ElectronsOf, Of, NoLoss
  <2>1. /\ Complete(in_hits, next, share, 0, out_hits) /\ Shared(in_hits, next, share, out_hits)
        /\ next = Len(in_hits) + 1 /\ in_hits \in Seq(SimHits)
        /\ out_hits \in Seq(Electrons) /\ share \in Nat
    BY DEF IInv, TypeOK, InOrder
  <2>2. i \in 1 .. next - 1
    BY <2>1
  <2>3. CASE i # next - 1
    BY <2>1, <2>2, <2>3 DEF Complete
  <2>4. CASE i = next - 1
    <3>1. share > 0 /\ Cardinality(Of(out_hits, i)) + 0 = share
      BY <2>1, <2>2, <2>4 DEF Complete
    <3>2. Cardinality(Of(out_hits, i)) = share /\ Cardinality(Of(out_hits, i)) # 0
      BY <2>1, <3>1, OfFinite
    <3>3. Of(out_hits, i) # {}
      BY <2>1, <3>2, OfFinite, FS_EmptySet, Zenon
    <3>4. PICK k \in Of(out_hits, i) : TRUE
      BY <3>3
    <3>5. k \in DOMAIN out_hits /\ out_hits[k].hit = next - 1
      BY <2>4 DEF Of
    <3>6. out_hits[k].edep[2] = share
      BY <2>1, <3>5 DEF Shared
    <3> QED  BY <3>2, <3>4, <3>6
  <2> QED  BY <2>3, <2>4
<1> QED  BY <1>1, InitIInv, NextKeeps, PTL DEF Spec

(* Without Poisson fluctuation maxHits bounds the electrons of an event,   *)
(* up to one for each hit with energy (TpcDriftAlg.cpp:90-91 and 122-129). *)
THEOREM LimitUpToRounding == Spec => []MaxHitsUpToRounding
<1>1. IInv => MaxHitsUpToRounding
  <2> SUFFICES ASSUME IInv, ~usePoisson
               PROVE  nr_tot_e <= MaxHits + Cardinality(Ionised(in_hits, next - 1))
    BY DEF MaxHitsUpToRounding, Ionised
  <2>1. /\ Bounded(in_hits, sums, next - 1, nr_tot_e) /\ Running(in_hits, sums)
        /\ in_hits \in Seq(SimHits) /\ sums \in Seq(Nat) /\ nr_tot_e \in Nat
        /\ Len(sums) <= Len(in_hits) /\ next \in 1 .. Len(in_hits) + 1
        /\ Len(sums) < Len(in_hits) => next = 1
    BY DEF IInv, TypeOK, InOrder
  <2>2. next - 1 \in 0 .. Len(sums)
    BY <2>1
  <2>3. Cardinality(Ionised(in_hits, next - 1)) \in Nat
    <3>1. IsFiniteSet(1 .. next - 1) /\ Ionised(in_hits, next - 1) \subseteq 1 .. next - 1
      <4>1. 1 \in Int /\ next - 1 \in Int
        BY <2>1
      <4> QED  BY <4>1, FS_Interval DEF Ionised
    <3> QED  BY <3>1, FS_Subset, FS_CardinalityType
  <2> QED  BY <2>1, <2>2, <2>3, BoundHolds
<1> QED  BY <1>1, InitIInv, NextKeeps, PTL DEF Spec
=============================================================================
