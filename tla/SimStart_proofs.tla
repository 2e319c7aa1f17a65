-------------------------- MODULE SimStart_proofs --------------------------
(***************************************************************************)
(* Proofs about a simulation job: the invariants of SimStart hold for all  *)
(* job options, geometries and energies.                                   *)
(***************************************************************************)
EXTENDS SimStart, SumTheorems, SequenceTheorems

-----------------------------------------------------------------------------
(* Sums over sequences.                                                    *)

Total(s) == Sum(s, DOMAIN s)

LEMMA TotalIsInt ==
  ASSUME NEW s \in Seq(Int)
  PROVE  /\ Total(s) \in Int /\ IsFiniteSet(DOMAIN s) /\ IntegersOn(s, DOMAIN s)
         /\ SumFunction(s) = Total(s)
<1>1. DOMAIN s = 1 .. Len(s) /\ Len(s) \in Nat
  OBVIOUS
<1>2. IsFiniteSet(DOMAIN s)
  BY <1>1, FS_Interval
<1>3. IntegersOn(s, DOMAIN s)
  BY <1>1 DEF IntegersOn
<1>4. SumFunction(s) = Total(s)
  BY DEF Total, Sum, SumFunction
<1> QED  BY <1>2, <1>3, <1>4, SumIsInt DEF Total

\* The places of t in a sequence that has t from n + 1 on.
Shifted(n, t) == {n + i : i \in 1 .. Len(t)}

LEMMA TotalShifted ==
  ASSUME NEW t \in Seq(Int), NEW n \in Nat, NEW u, \A i \in 1 .. Len(t) : u[n + i] = t[i]
  PROVE  Sum(u, Shifted(n, t)) = Total(t) /\ IsFiniteSet(Shifted(n, t))
<1> DEFINE place == [i \in 1 .. Len(t) |-> n + i]
<1>1. DOMAIN t = 1 .. Len(t) /\ IsFiniteSet(DOMAIN t) /\ IntegersOn(t, DOMAIN t)
  BY TotalIsInt
<1>2. Renames(place, DOMAIN t, Shifted(n, t), t, u)
  <2>1. \A i \in 1 .. Len(t) : place[i] = n + i
    OBVIOUS
  <2> HIDE DEF place
  <2>2. Shifted(n, t) = {place[i] : i \in 1 .. Len(t)}
    BY <2>1, Zenon DEF Shifted
  <2>3. ASSUME NEW i \in 1 .. Len(t), NEW j \in 1 .. Len(t), place[i] = place[j]
        PROVE  i = j
    <3>1. i \in Int /\ j \in Int
      OBVIOUS
    <3>2. n + i = n + j
      BY <2>1, <2>3
    <3> QED  BY <3>1, <3>2
  <2>4. \A i \in 1 .. Len(t) : u[place[i]] = t[i]
    BY <2>1
  <2> QED  BY <1>1, <2>2, <2>3, <2>4 DEF Renames
<1> HIDE DEF place
<1>3. Sum(u, Shifted(n, t)) = Sum(t, DOMAIN t) /\ IsFiniteSet(Shifted(n, t))
  BY <1>1, <1>2, SumReindex
<1> QED  BY <1>3 DEF Total

LEMMA TotalConcat ==
  ASSUME NEW s \in Seq(Int), NEW t \in Seq(Int)
  PROVE  Total(s \o t) = Total(s) + Total(t)
<1> DEFINE u == s \o t
           R == Shifted(Len(s), t)
<1>1. /\ DOMAIN s = 1 .. Len(s) /\ Len(s) \in Nat /\ Len(t) \in Nat
      /\ u \in Seq(Int) /\ DOMAIN u = 1 .. Len(s) + Len(t)
      /\ \A i \in 1 .. Len(s) : u[i] = s[i]
      /\ \A i \in 1 .. Len(t) : u[Len(s) + i] = t[i]
  OBVIOUS
<1>2. DOMAIN u = DOMAIN s \cup R /\ DOMAIN s \cap R = {}
  <2>1. ASSUME NEW i \in DOMAIN u
        PROVE  i \in DOMAIN s \cup R
    <3>1. CASE i <= Len(s)
      BY <1>1, <3>1
    <3>2. CASE i > Len(s)
      <4>1. i - Len(s) \in 1 .. Len(t) /\ i = Len(s) + (i - Len(s))
        BY <1>1, <3>2
      <4> QED  BY <4>1 DEF Shifted
    <3> QED  BY <1>1, <3>1, <3>2
  <2>2. ASSUME NEW i \in R
        PROVE  i \in DOMAIN u /\ i \notin DOMAIN s
    BY <1>1 DEF Shifted
  <2>3. \A i \in DOMAIN s : i \in DOMAIN u
    BY <1>1
  <2> HIDE DEF u, R
  <2> QED  BY <2>1, <2>2, <2>3
<1>3. IsFiniteSet(DOMAIN s) /\ IntegersOn(s, DOMAIN s)
  BY TotalIsInt
<1>4. Sum(u, R) = Total(t) /\ IsFiniteSet(R)
  <2> HIDE DEF u
  <2> QED  BY <1>1, TotalShifted
<1>5. Sum(u, DOMAIN s) = Total(s)
  <2>1. \A i \in DOMAIN s : u[i] = s[i]
    BY <1>1
  <2> HIDE DEF u
  <2> QED  BY <1>3, <2>1, SumEqual DEF Total
<1>6. IntegersOn(u, DOMAIN s) /\ IntegersOn(u, R)
  <2>1. u \in Seq(Int)
    BY <1>1
  <2> HIDE DEF u
  <2>2. \A i \in DOMAIN u : u[i] \in Int
    BY <2>1
  <2> HIDE DEF R
  <2> QED  BY <1>2, <2>2 DEF IntegersOn
<1> HIDE DEF u, R
<1>7. Sum(u, DOMAIN s \cup R) = Sum(u, DOMAIN s) + Sum(u, R)
  BY <1>2, <1>3, <1>4, <1>6, SumUnion
<1> QED  BY <1>2, <1>4, <1>5, <1>7 DEF Total, u

LEMMA TotalSmall ==
  /\ Total(<< >>) = 0
  /\ \A x \in Int : Total(<<x>>) = x
<1>1. Total(<< >>) = 0
  <2>1. DOMAIN << >> = {}
    OBVIOUS
  <2> QED  BY <2>1, SumEmpty DEF Total
<1>2. ASSUME NEW x \in Int
      PROVE  Total(<<x>>) = x
  <2>1. DOMAIN <<x>> = {1} /\ <<x>>[1] = x
    OBVIOUS
  <2> QED  BY <2>1, SumSingle DEF Total
<1> QED  BY <1>1, <1>2

LEMMA TotalTail ==
  ASSUME NEW s \in Seq(Int), s # << >>
  PROVE  /\ Head(s) \in Int /\ Tail(s) \in Seq(Int)
         /\ Total(s) = Head(s) + Total(Tail(s))
<1>1. Head(s) \in Int /\ Tail(s) \in Seq(Int) /\ <<Head(s)>> \in Seq(Int)
  OBVIOUS
<1>2. s = <<Head(s)>> \o Tail(s)
  <2>1. <<Head(s)>> \o Tail(s) \in Seq(Int) /\ Len(<<Head(s)>> \o Tail(s)) = Len(s)
    OBVIOUS
  <2>2. \A i \in 1 .. Len(s) : s[i] = (<<Head(s)>> \o Tail(s))[i]
    OBVIOUS
  <2> QED  BY <2>1, <2>2, SeqEqual
<1>3. Total(<<Head(s)>>) = Head(s)
  BY <1>1, TotalSmall
<1> QED  BY <1>1, <1>2, <1>3, TotalConcat

-----------------------------------------------------------------------------
(* FlattenSeq of the community modules: what holds at the beginning and is *)
(* kept when a piece is added holds of the whole.                          *)

IsFlattening(p, w) ==
  w = [i \in 1 .. Len(p) |-> IF i = 1 THEN p[i] ELSE w[i - 1] \o p[i]]

LEMMA FlattenIsChosen ==
  ASSUME NEW p, Len(p) # 0
  PROVE  FlattenSeq(p) = (CHOOSE w : IsFlattening(p, w))[Len(p)]
BY DEF FlattenSeq, IsFlattening

LEMMA FlatteningExists ==
  ASSUME NEW p, Len(p) \in Nat
  PROVE  \E w : IsFlattening(p, w)
<1> DEFINE Piece(w, i) == IF i = 1 THEN p[i] ELSE w[i - 1] \o p[i]
           Good == {m \in Nat : \E w : w = [i \in 1 .. m |-> Piece(w, i)]}
<1>1. 0 \in Good
  <2> DEFINE w == [i \in 1 .. 0 |-> p[i]]
  <2>1. w = [i \in 1 .. 0 |-> Piece(w, i)]
    OBVIOUS
  <2> QED  BY <2>1
<1>2. ASSUME NEW m \in Nat, m \in Good
      PROVE  m + 1 \in Good
  <2>1. PICK w : w = [i \in 1 .. m |-> Piece(w, i)]
    BY <1>2
  <2> DEFINE v == [i \in 1 .. m + 1 |-> IF i = m + 1 THEN Piece(w, i) ELSE w[i]]
  <2>2. \A i \in 1 .. m : v[i] = w[i]
    OBVIOUS
  <2>3. ASSUME NEW i \in 1 .. m + 1
        PROVE  v[i] = Piece(v, i)
    <3>1. v[i] = Piece(w, i)
      <4>1. CASE i = m + 1
        BY <4>1
      <4>2. CASE i # m + 1
        <5>1. i \in 1 .. m
          BY <4>2
        <5>2. w[i] = Piece(w, i)
          <6> HIDE DEF Piece
          <6> QED  BY <2>1, <5>1
        <5> QED  BY <4>2, <5>2
      <4> QED  BY <4>1, <4>2
    <3>2. i # 1 => i - 1 \in 1 .. m
      OBVIOUS
    <3>3. i # 1 => v[i - 1] = w[i - 1]
      BY <2>2, <3>2
    <3> HIDE DEF v
    <3> QED  BY <3>1, <3>3
  <2>4. v = [i \in 1 .. m + 1 |-> Piece(v, i)]
    <3>1. v = [i \in 1 .. m + 1 |-> v[i]]
      OBVIOUS
    <3> HIDE DEF v, Piece
    <3> QED  BY <2>3, <3>1
  <2> HIDE DEF v, Piece
  <2> QED  BY <2>4
<1>3. Len(p) \in Good
  <2> HIDE DEF Good
  <2> QED  BY <1>1, <1>2, NaturalInduction
<1> QED  BY <1>3 DEF IsFlattening

LEMMA FlattenInduction ==
  ASSUME NEW S, NEW p \in Seq(Seq(S)), NEW Good, <<0, << >> >> \in Good,
         \A m \in Nat, s \in Seq(S) :
            m < Len(p) /\ <<m, s>> \in Good => <<m + 1, s \o p[m + 1]>> \in Good
  PROVE  FlattenSeq(p) \in Seq(S) /\ <<Len(p), FlattenSeq(p)>> \in Good
<1>0. Len(p) \in Nat
  OBVIOUS
<1>1. CASE Len(p) = 0
  <2>1. p = << >> /\ FlattenSeq(p) = p
    BY <1>1 DEF FlattenSeq
  <2>2. << >> \in Seq(S)
    OBVIOUS
  <2> QED  BY <1>1, <2>1, <2>2
<1>2. CASE Len(p) # 0
  <2> DEFINE w    == CHOOSE w : IsFlattening(p, w)
             Kept == {m \in Nat : m + 1 <= Len(p) =>
                                    w[m + 1] \in Seq(S) /\ <<m + 1, w[m + 1]>> \in Good}
  <2>1. \A i \in 1 .. Len(p) : w[i] = IF i = 1 THEN p[i] ELSE w[i - 1] \o p[i]
    <3>1. IsFlattening(p, w)
      BY <1>0, FlatteningExists
    <3> HIDE DEF w
    <3> QED  BY <3>1 DEF IsFlattening
  <2>2. FlattenSeq(p) = w[Len(p)]
    BY <1>2, FlattenIsChosen
  <2> HIDE DEF w
  <2>3. 0 \in Kept
    <3>1. 1 \in 1 .. Len(p) /\ p[1] \in Seq(S) /\ << >> \in Seq(S)
      BY <1>0, <1>2
    <3>2. w[1] = p[1] /\ << >> \o p[1] = p[1]
      BY <2>1, <3>1, ConcatEmptySeq
    <3>3. <<1, w[1]>> \in Good
      <4> DEFINE k == 0
                 t == << >>
      <4>1. k \in Nat /\ t \in Seq(S) /\ k < Len(p) /\ <<k, t>> \in Good /\ k + 1 = 1
            /\ t \o p[1] = p[1]
        BY <1>0, <1>2, <3>1, <3>2
      <4> HIDE DEF k, t
      <4>2. <<k + 1, t \o p[k + 1]>> \in Good
        BY <4>1
      <4> QED  BY <3>2, <4>1, <4>2
    <3>4. 0 + 1 = 1
      OBVIOUS
    <3>5. w[1] \in Seq(S)
      BY <3>1, <3>2
    <3> QED  BY <3>3, <3>4, <3>5
  <2>4. ASSUME NEW m \in Nat, m \in Kept
        PROVE  m + 1 \in Kept
    <3> SUFFICES ASSUME (m + 1) + 1 <= Len(p)
                 PROVE  /\ w[(m + 1) + 1] \in Seq(S)
                        /\ <<(m + 1) + 1, w[(m + 1) + 1]>> \in Good
      OBVIOUS
    <3>1. /\ m + 1 \in Nat /\ m + 1 < Len(p) /\ m + 1 <= Len(p)
          /\ (m + 1) + 1 \in 1 .. Len(p) /\ (m + 1) + 1 # 1 /\ ((m + 1) + 1) - 1 = m + 1
      BY <1>0
    <3>2. w[m + 1] \in Seq(S) /\ <<m + 1, w[m + 1]>> \in Good
      BY <2>4, <3>1
    <3>3. w[(m + 1) + 1] = w[m + 1] \o p[(m + 1) + 1]
      BY <2>1, <3>1
    <3>4. p[(m + 1) + 1] \in Seq(S)
      BY <3>1, ElementOfSeq
    <3>5. w[m + 1] \o p[(m + 1) + 1] \in Seq(S)
      BY <3>2, <3>4, ConcatProperties
    <3>6. <<(m + 1) + 1, w[m + 1] \o p[(m + 1) + 1]>> \in Good
      <4> DEFINE k == m + 1
                 t == w[k]
      <4>1. k \in Nat /\ t \in Seq(S) /\ k < Len(p) /\ <<k, t>> \in Good
        BY <3>1, <3>2
      <4> HIDE DEF k, t
      <4>2. <<k + 1, t \o p[k + 1]>> \in Good
        BY <4>1
      <4> QED  BY <4>2 DEF k, t
    <3> HIDE DEF Kept
    <3> QED  BY <3>3, <3>5, <3>6
  <2>5. Len(p) - 1 \in Kept
    <3>1. Len(p) - 1 \in Nat
      BY <1>0, <1>2
    <3> HIDE DEF Kept
    <3> QED  BY <2>3, <2>4, <3>1, NaturalInduction
  <2>6. (Len(p) - 1) + 1 = Len(p)
    BY <1>0
  <2> QED  BY <2>2, <2>5, <2>6, <1>0
<1> QED  BY <1>1, <1>2

-----------------------------------------------------------------------------
(* The volumes a region tool finds.                                        *)

Volume == 1 .. Daughters

LEMMA ToSetConcat ==
  ASSUME NEW S, NEW s \in Seq(S), NEW t \in Seq(S)
  PROVE  ToSet(s \o t) = ToSet(s) \cup ToSet(t)
<1>1. /\ DOMAIN s = 1 .. Len(s) /\ DOMAIN t = 1 .. Len(t) /\ Len(s) \in Nat /\ Len(t) \in Nat
      /\ DOMAIN (s \o t) = 1 .. Len(s) + Len(t)
      /\ \A i \in 1 .. Len(s) : (s \o t)[i] = s[i]
      /\ \A i \in 1 .. Len(t) : (s \o t)[Len(s) + i] = t[i]
  OBVIOUS
<1>2. ASSUME NEW x \in ToSet(s \o t)
      PROVE  x \in ToSet(s) \cup ToSet(t)
  <2>1. PICK i \in 1 .. Len(s) + Len(t) : x = (s \o t)[i]
    BY <1>1 DEF ToSet
  <2>2. CASE i <= Len(s)
    BY <1>1, <2>1, <2>2 DEF ToSet
  <2>3. CASE i > Len(s)
    <3>1. i - Len(s) \in 1 .. Len(t) /\ i = Len(s) + (i - Len(s))
      BY <1>1, <2>3
    <3>2. x = t[i - Len(s)]
      BY <1>1, <2>1, <3>1
    <3> QED  BY <1>1, <3>1, <3>2 DEF ToSet
  <2> QED  BY <1>1, <2>2, <2>3
<1>3. ASSUME NEW x \in ToSet(s)
      PROVE  x \in ToSet(s \o t)
  <2>1. PICK i \in 1 .. Len(s) : x = s[i]
    BY <1>1 DEF ToSet
  <2>2. i \in 1 .. Len(s) + Len(t) /\ x = (s \o t)[i]
    BY <1>1, <2>1
  <2> QED  BY <1>1, <2>2 DEF ToSet
<1>4. ASSUME NEW x \in ToSet(t)
      PROVE  x \in ToSet(s \o t)
  <2>1. PICK i \in 1 .. Len(t) : x = t[i]
    BY <1>1 DEF ToSet
  <2>2. Len(s) + i \in 1 .. Len(s) + Len(t) /\ x = (s \o t)[Len(s) + i]
    BY <1>1, <2>1
  <2> QED  BY <1>1, <2>2 DEF ToSet
<1> QED  BY <1>2, <1>3, <1>4

LEMMA ToSetSmall ==
  /\ ToSet(<< >>) = {}
  /\ \A x : ToSet(<<x>>) = {x}
BY DEF ToSet

\* Each volume is found once: the numbers grow.
Growing(s) == \A j, k \in 1 .. Len(s) : j < k => s[j] < s[k]

LEMMA VolumesNamedLaw ==
  ASSUME NEW n \in DOMAIN Matching
  PROVE  /\ VolumesNamed(n) \in Seq(Volume)
         /\ ToSet(VolumesNamed(n)) = Matching[n]
         /\ Growing(VolumesNamed(n))
<1> DEFINE p    == [d \in Volume |-> IF d \in Matching[n] THEN <<d>> ELSE << >>]
           Upto(m) == {d \in Matching[n] : d <= m}
           Good == {r \in Nat \X Seq(Volume) :
                      r[1] <= Daughters => ToSet(r[2]) = Upto(r[1]) /\ Growing(r[2])}
<1>0. Daughters \in Nat /\ Matching[n] \subseteq Volume
  BY MatchingAssumption DEF Volume
<1>1. p \in Seq(Seq(Volume)) /\ Len(p) = Daughters
  <2>1. ASSUME NEW d \in 1 .. Daughters
        PROVE  p[d] \in Seq(Volume)
    <3>1. d \in Volume /\ p[d] = IF d \in Matching[n] THEN <<d>> ELSE << >>
      BY DEF Volume
    <3>2. <<d>> \in Seq(Volume) /\ << >> \in Seq(Volume)
      BY <3>1
    <3> QED  BY <3>1, <3>2
  <2>2. DOMAIN p = 1 .. Daughters /\ p = [d \in 1 .. Daughters |-> p[d]]
    BY DEF Volume
  <2> HIDE DEF p
  <2> QED  BY <1>0, <2>1, <2>2
<1>2. <<0, << >> >> \in Good
  <2>1. Upto(0) = {}
    BY <1>0 DEF Volume
  <2>2. Growing(<< >>) /\ << >> \in Seq(Volume)
    BY DEF Growing
  <2> QED  BY <2>1, <2>2, ToSetSmall
<1>3. ASSUME NEW m \in Nat, NEW s \in Seq(Volume), m < Len(p), <<m, s>> \in Good
      PROVE  <<m + 1, s \o p[m + 1]>> \in Good
  <2>1. /\ m < Daughters /\ m <= Daughters /\ m + 1 \in Volume /\ m + 1 \in Nat
        /\ ToSet(s) = Upto(m) /\ Growing(s)
    BY <1>0, <1>1, <1>3 DEF Volume
  <2>2. CASE m + 1 \in Matching[n]
    <3>1. p[m + 1] = <<m + 1>> /\ <<m + 1>> \in Seq(Volume)
      BY <2>1, <2>2
    <3>2. Upto(m + 1) = Upto(m) \cup {m + 1}
      BY <1>0, <2>1, <2>2 DEF Volume
    <3>3. ToSet(s \o <<m + 1>>) = Upto(m + 1)
      <4>1. ToSet(s \o <<m + 1>>) = ToSet(s) \cup ToSet(<<m + 1>>)
        <5>1. PICK t : t = <<m + 1>>
          OBVIOUS
        <5>2. t \in Seq(Volume)
          BY <3>1, <5>1
        <5>3. ToSet(s \o t) = ToSet(s) \cup ToSet(t)
          BY <5>2, ToSetConcat
        <5> QED  BY <5>1, <5>3
      <4>2. ToSet(<<m + 1>>) = {m + 1}
        <5>1. PICK x : x = m + 1
          OBVIOUS
        <5>2. ToSet(<<x>>) = {x}
          BY ToSetSmall
        <5> QED  BY <5>1, <5>2
      <4> HIDE DEF Upto
      <4> QED  BY <2>1, <3>2, <4>1, <4>2
    <3>4. /\ s \o <<m + 1>> \in Seq(Volume) /\ Len(s \o <<m + 1>>) = Len(s) + 1
          /\ (s \o <<m + 1>>)[Len(s) + 1] = m + 1
          /\ \A k \in 1 .. Len(s) : (s \o <<m + 1>>)[k] = s[k]
      BY <3>1
    <3>5. ASSUME NEW k \in 1 .. Len(s)
          PROVE  s[k] < m + 1
      <4>1. s[k] \in ToSet(s)
        BY DEF ToSet
      <4> QED  BY <1>0, <2>1, <4>1 DEF Volume
    <3>6. Growing(s \o <<m + 1>>)
      <4> DEFINE t == s \o <<m + 1>>
      <4> SUFFICES ASSUME NEW j \in 1 .. Len(t), NEW k \in 1 .. Len(t), j < k
                   PROVE  t[j] < t[k]
        BY DEF Growing
      <4>0. j \in 1 .. Len(s) /\ t[j] = s[j] /\ Len(s) \in Nat
        BY <3>4
      <4>1. CASE k = Len(s) + 1
        BY <3>4, <3>5, <4>0, <4>1
      <4>2. CASE k # Len(s) + 1
        <5>1. k \in 1 .. Len(s) /\ t[k] = s[k]
          BY <3>4, <4>0, <4>2
        <5> HIDE DEF t
        <5> QED  BY <2>1, <4>0, <5>1 DEF Growing
      <4> QED  BY <4>1, <4>2
    <3> HIDE DEF Upto, p
    <3> QED  BY <2>1, <3>1, <3>3, <3>4, <3>6
  <2>3. CASE m + 1 \notin Matching[n]
    <3>1. p[m + 1] = << >> /\ s \o << >> = s
      BY <2>1, <2>3
    <3>2. Upto(m + 1) = Upto(m)
      BY <1>0, <2>1, <2>3 DEF Volume
    <3> HIDE DEF Upto, p
    <3> QED  BY <2>1, <3>1, <3>2
  <2> QED  BY <2>2, <2>3
<1>4. FlattenSeq(p) \in Seq(Volume) /\ <<Len(p), FlattenSeq(p)>> \in Good
  <2> HIDE DEF p, Good
  <2> QED  BY <1>1, <1>2, <1>3, FlattenInduction
<1>5. VolumesNamed(n) = FlattenSeq(p)
  BY DEF VolumesNamed, Volume
<1>6. Upto(Daughters) = Matching[n]
  BY <1>0 DEF Volume
<1>7. ToSet(FlattenSeq(p)) = Upto(Daughters) /\ Growing(FlattenSeq(p))
  <2> HIDE DEF p, Upto
  <2> QED  BY <1>0, <1>1, <1>4
<1> QED  BY <1>4, <1>5, <1>6, <1>7

\* A name that is part of one volume's name at most is found at most once.
LEMMA FoundOnce ==
  ASSUME NEW n \in DOMAIN Matching, Cardinality(Matching[n]) <= 1
  PROVE  Len(VolumesNamed(n)) <= 1
<1> DEFINE s == VolumesNamed(n)
<1>1. s \in Seq(Volume) /\ ToSet(s) = Matching[n] /\ Growing(s)
  BY VolumesNamedLaw
<1> HIDE DEF s
<1>2. SUFFICES ASSUME Len(s) > 1
               PROVE  FALSE
  BY <1>1 DEF s
<1>3. 1 \in 1 .. Len(s) /\ 2 \in 1 .. Len(s) /\ s[1] < s[2] /\ s[1] \in Int /\ s[2] \in Int
  <2>1. Len(s) \in Nat /\ 1 \in 1 .. Len(s) /\ 2 \in 1 .. Len(s) /\ s[1] \in Volume /\ s[2] \in Volume
    BY <1>1, <1>2
  <2> QED  BY <1>1, <2>1 DEF Growing, Volume
<1>4. {s[1], s[2]} \subseteq Matching[n]
  <2>1. \A k \in 1 .. Len(s) : s[k] \in ToSet(s)
    BY <1>1 DEF ToSet
  <2>2. s[1] \in ToSet(s) /\ s[2] \in ToSet(s)
    BY <1>3, <2>1
  <2> QED  BY <1>1, <2>2
<1>5. IsFiniteSet(Matching[n])
  <2>1. Matching[n] \subseteq 1 .. Daughters /\ Daughters \in Nat
    BY MatchingAssumption
  <2> QED  BY <2>1, FS_Interval, FS_Subset
<1>6. Cardinality({s[1], s[2]}) = 2
  <2>1. IsFiniteSet({s[1]}) /\ Cardinality({s[1]}) = 1
    BY FS_Singleton
  <2>2. s[2] \notin {s[1]} /\ {s[1], s[2]} = {s[1]} \cup {s[2]}
    BY <1>3
  <2> QED  BY <2>1, <2>2, FS_AddElement
<1>7. Cardinality({s[1], s[2]}) <= Cardinality(Matching[n]) /\ Cardinality(Matching[n]) \in Nat
  BY <1>4, <1>5, FS_Subset, FS_CardinalityType
<1> QED  BY <1>6, <1>7

LEMMA OneEach ==
  ASSUME NEW a \in Nat, NEW b \in Nat, NEW m \in Nat, a <= m, b <= 1
  PROVE  a + b <= m + 1 /\ (a + b = m + 1 => a = m /\ b = 1)
OBVIOUS

LEMMA VolumesOfLaw ==
  ASSUME NEW names \in Seq(DOMAIN Matching)
  PROVE  /\ VolumesOf(names) \in Seq(Volume)
         /\ \A v : v \in ToSet(VolumesOf(names)) <=> \E n \in ToSet(names) : v \in Matching[n]
         /\ (\A n \in ToSet(names) : Cardinality(Matching[n]) <= 1)
              /\ Len(VolumesOf(names)) = Len(names)
            => \A n \in ToSet(names) : Matching[n] # {}
<1> DEFINE p        == [i \in DOMAIN names |-> VolumesNamed(names[i])]
           Few      == \A i \in 1 .. Len(names) : Len(p[i]) <= 1
           Found(m) == {v \in Volume : \E i \in 1 .. m : v \in Matching[names[i]]}
           Law(m, s) == /\ ToSet(s) = Found(m)
                        /\ Few => /\ Len(s) <= m
                                  /\ Len(s) = m => \A i \in 1 .. m : Len(p[i]) = 1
           Good == {r \in Nat \X Seq(Volume) : r[1] <= Len(names) => Law(r[1], r[2])}
<1>0. /\ Len(names) \in Nat /\ DOMAIN names = 1 .. Len(names)
      /\ \A i \in 1 .. Len(names) : names[i] \in DOMAIN Matching
      /\ \A n \in DOMAIN Matching : Matching[n] \subseteq Volume
  BY MatchingAssumption DEF Volume
<1>1. \A i \in 1 .. Len(names) :
         p[i] = VolumesNamed(names[i]) /\ p[i] \in Seq(Volume) /\ ToSet(p[i]) = Matching[names[i]]
  BY <1>0, VolumesNamedLaw
<1>2. p \in Seq(Seq(Volume)) /\ Len(p) = Len(names)
  <2>1. DOMAIN p = 1 .. Len(names) /\ p = [i \in 1 .. Len(names) |-> p[i]]
    BY <1>0
  <2> HIDE DEF p
  <2> QED  BY <1>0, <1>1, <2>1
<1> HIDE DEF p
<1>3. <<0, << >> >> \in Good
  <2>1. Found(0) = {} /\ << >> \in Seq(Volume) /\ Len(<< >>) = 0
    OBVIOUS
  <2>2. PICK t : t = << >>
    OBVIOUS
  <2>3. Law(0, t) /\ t \in Seq(Volume)
    BY <2>1, <2>2, ToSetSmall
  <2>4. <<0, t>> \in Good
    <3> HIDE DEF Law
    <3> QED  BY <2>3
  <2> HIDE DEF Good
  <2> QED  BY <2>2, <2>4
<1>4. ASSUME NEW m \in Nat, NEW s \in Seq(Volume), m < Len(p), <<m, s>> \in Good
      PROVE  <<m + 1, s \o p[m + 1]>> \in Good
  <2>1. /\ m <= Len(names) /\ m + 1 \in 1 .. Len(names) /\ m + 1 \in Nat
        /\ p[m + 1] \in Seq(Volume) /\ ToSet(p[m + 1]) = Matching[names[m + 1]]
        /\ Matching[names[m + 1]] \subseteq Volume
    BY <1>0, <1>1, <1>2, <1>4
  <2>2. Law(m, s)
    <3> HIDE DEF Law
    <3> QED  BY <1>4, <2>1
  <2>3. /\ s \o p[m + 1] \in Seq(Volume)
        /\ Len(s \o p[m + 1]) = Len(s) + Len(p[m + 1])
        /\ ToSet(s \o p[m + 1]) = ToSet(s) \cup ToSet(p[m + 1])
        /\ Len(s) \in Nat /\ Len(p[m + 1]) \in Nat
    <3>1. PICK t : t = p[m + 1]
      OBVIOUS
    <3>2. t \in Seq(Volume)
      BY <2>1, <3>1
    <3>3. s \o t \in Seq(Volume) /\ Len(s \o t) = Len(s) + Len(t) /\ Len(s) \in Nat /\ Len(t) \in Nat
      BY <3>2
    <3>4. ToSet(s \o t) = ToSet(s) \cup ToSet(t)
      BY <3>2, ToSetConcat
    <3> QED  BY <3>1, <3>3, <3>4
  <2>4. Found(m + 1) = Found(m) \cup Matching[names[m + 1]]
    <3>1. \A i \in 1 .. m + 1 : i \in 1 .. m \/ i = m + 1
      OBVIOUS
    <3>2. \A i \in 1 .. m : i \in 1 .. m + 1
      OBVIOUS
    <3>3. m + 1 \in 1 .. m + 1
      OBVIOUS
    <3> QED  BY <2>1, <3>1, <3>2, <3>3
  <2>5. ASSUME Few
        PROVE  /\ Len(s) + Len(p[m + 1]) <= m + 1
               /\ Len(s) + Len(p[m + 1]) = m + 1 => \A i \in 1 .. m + 1 : Len(p[i]) = 1
    <3>1. Len(p[m + 1]) <= 1
      BY <2>1, <2>5
    <3>2. Len(s) <= m /\ (Len(s) = m => \A i \in 1 .. m : Len(p[i]) = 1)
      <4> HIDE DEF Few, Found
      <4> QED  BY <2>2, <2>5
    <3>3. /\ Len(s) + Len(p[m + 1]) <= m + 1
          /\ Len(s) + Len(p[m + 1]) = m + 1 => Len(s) = m /\ Len(p[m + 1]) = 1
      <4>1. Len(s) \in Nat /\ Len(p[m + 1]) \in Nat /\ Len(s) <= m
        BY <2>3, <3>2
      <4>2. PICK a, b : a = Len(s) /\ b = Len(p[m + 1])
        OBVIOUS
      <4>3. a \in Nat /\ b \in Nat /\ a <= m /\ b <= 1
        BY <3>1, <4>1, <4>2
      <4>4. a + b <= m + 1 /\ (a + b = m + 1 => a = m /\ b = 1)
        BY <4>3, OneEach
      <4> HIDE DEF Few, Found
      <4> QED  BY <4>2, <4>4
    <3>4. \A i \in 1 .. m + 1 : i \in 1 .. m \/ i = m + 1
      OBVIOUS
    <3> HIDE DEF Few, Found
    <3> QED  BY <3>2, <3>3, <3>4
  <2>6. Law(m + 1, s \o p[m + 1])
    <3>1. ToSet(s) = Found(m)
      <4> HIDE DEF Few, Found
      <4> QED  BY <2>2
    <3>2. ToSet(s \o p[m + 1]) = Found(m + 1)
      <4> HIDE DEF Few, Found
      <4> QED  BY <2>1, <2>3, <2>4, <3>1
    <3>3. Few => /\ Len(s \o p[m + 1]) <= m + 1
                 /\ Len(s \o p[m + 1]) = m + 1 => \A i \in 1 .. m + 1 : Len(p[i]) = 1
      <4> HIDE DEF Few, Found
      <4> QED  BY <2>3, <2>5
    <3> HIDE DEF Few, Found
    <3> QED  BY <3>2, <3>3
  <2> HIDE DEF Law
  <2> QED  BY <2>1, <2>3, <2>6
<1>5. FlattenSeq(p) \in Seq(Volume) /\ <<Len(p), FlattenSeq(p)>> \in Good
  <2> HIDE DEF Good
  <2> QED  BY <1>2, <1>3, <1>4, FlattenInduction
<1>6. Law(Len(names), FlattenSeq(p))
  <2> HIDE DEF Law
  <2> QED  BY <1>0, <1>2, <1>5
<1>7. VolumesOf(names) = FlattenSeq(p)
  BY DEF VolumesOf, p
<1>8. ASSUME NEW v
      PROVE  v \in Found(Len(names)) <=> \E n \in ToSet(names) : v \in Matching[n]
  BY <1>0 DEF ToSet
<1>9. ASSUME \A n \in ToSet(names) : Cardinality(Matching[n]) <= 1,
             Len(FlattenSeq(p)) = Len(names),
             NEW n \in ToSet(names)
      PROVE  Matching[n] # {}
  <2>1. PICK i \in 1 .. Len(names) : n = names[i]
    BY <1>0 DEF ToSet
  <2>2. Few
    <3> SUFFICES ASSUME NEW k \in 1 .. Len(names)
                 PROVE  Len(p[k]) <= 1
      OBVIOUS
    <3>1. names[k] \in ToSet(names) /\ names[k] \in DOMAIN Matching
      BY <1>0 DEF ToSet
    <3>2. Cardinality(Matching[names[k]]) <= 1
      BY <1>9, <3>1
    <3>3. Len(VolumesNamed(names[k])) <= 1
      BY <3>1, <3>2, FoundOnce
    <3> QED  BY <1>1, <3>3
  <2>3. Len(p[i]) = 1
    <3> HIDE DEF Few, Found
    <3> QED  BY <1>6, <1>9, <2>1, <2>2
  <2>4. p[i][1] \in ToSet(p[i])
    <3>1. p[i] \in Seq(Volume)
      BY <1>1
    <3>2. 1 \in DOMAIN p[i]
      <4>1. DOMAIN p[i] = 1 .. Len(p[i])
        BY <3>1, LenProperties
      <4> QED  BY <2>3, <4>1
    <3> QED  BY <3>2 DEF ToSet
  <2> QED  BY <1>1, <2>1, <2>4
<1>10. ToSet(FlattenSeq(p)) = Found(Len(names))
  <2> HIDE DEF Few, Found
  <2> QED  BY <1>6
<1> HIDE DEF Found, Law, Good
<1> QED  BY <1>5, <1>7, <1>8, <1>9, <1>10

-----------------------------------------------------------------------------
(* The greatest of some numbers, for the last tool and the last region.    *)

LEMMA MaxIs ==
  ASSUME NEW S \in SUBSET Int, NEW x \in S, \A y \in S : y <= x
  PROVE  Max(S) = x
<1>1. \A y \in S : x >= y
  OBVIOUS
<1>2. \E z \in S : \A y \in S : z >= y
  BY <1>1
<1>3. Max(S) \in S /\ \A y \in S : Max(S) >= y
  BY <1>2 DEF Max
<1>4. Max(S) >= x /\ x >= Max(S) /\ Max(S) \in Int /\ x \in Int
  BY <1>1, <1>3
<1> QED  BY <1>4

LEMMA MaxExists ==
  ASSUME NEW n \in Nat, NEW S \in SUBSET (1 .. n), S # {}
  PROVE  Max(S) \in S /\ \A y \in S : y <= Max(S)
<1> DEFINE Good == {m \in Nat : \A T \in SUBSET (1 .. m) : T # {} => \E x \in T : \A y \in T : y <= x}
<1>1. 0 \in Good
  <2>1. 1 .. 0 = {}
    OBVIOUS
  <2>2. \A T \in SUBSET (1 .. 0) : T = {}
    BY <2>1
  <2> QED  BY <2>2
<1>2. ASSUME NEW m \in Nat, m \in Good
      PROVE  m + 1 \in Good
  <2> SUFFICES ASSUME NEW T \in SUBSET (1 .. m + 1), T # {}
               PROVE  \E x \in T : \A y \in T : y <= x
    OBVIOUS
  <2>1. CASE m + 1 \in T
    <3>1. \A y \in T : y <= m + 1
      OBVIOUS
    <3> QED  BY <2>1, <3>1
  <2>2. CASE m + 1 \notin T
    <3>1. ASSUME NEW y \in T
          PROVE  y \in 1 .. m
      <4>1. y \in 1 .. m + 1 /\ y # m + 1
        BY <2>2
      <4> QED  BY <4>1
    <3>2. T \in SUBSET (1 .. m)
      BY <3>1
    <3> QED  BY <1>2, <3>2
  <2> QED  BY <2>1, <2>2
<1>3. n \in Good
  <2> HIDE DEF Good
  <2> QED  BY <1>1, <1>2, NaturalInduction
<1>4. PICK x \in S : \A y \in S : y <= x
  BY <1>3
<1>5. S \in SUBSET Int
  OBVIOUS
<1>6. Max(S) = x
  BY <1>4, <1>5, MaxIs
<1> QED  BY <1>4, <1>6

-----------------------------------------------------------------------------
(* The inductive invariant of the initialisation.  What LimitsInForce says *)
(* of all tools when the service has started holds of the first ones while *)
(* their regions are made, and each region belongs to one of these.        *)

Done      == 1 .. at - 1
WorldTool == LastTool(WorldPlaces \cap Done)
ToolOf(v) == LastTool(PlacesOf(v) \cap Done)

NamesFound(tool) ==
  Distinct(tool) => \A n \in Names(tool) :
                      \E r \in ToSet(made) : r.tool = tool /\ r.volume \in Matching[n]

RegionsSoFar ==
  /\ limited = WorldTool
  /\ \A v \in Volume : RegionOf(v) = ToolOf(v)
  /\ \A r \in ToSet(made) : \E i \in Done : r.tool = config.regions[i]
  /\ \A i \in Done : NamesFound(config.regions[i])

InitInv ==
  /\ InitTypeOK
  /\ svc \in {"retrieve", "create", "seed", "started"} => DOMAIN sdOf = DOMAIN SensTypes
  /\ svc \in {"seed", "started"} => at = Len(config.regions) + 1
  /\ svc # "failed" => RegionsSoFar

LEMMA ConfigTypes ==
  ASSUME NEW c \in Configs
  PROVE  /\ c.regions \in Seq(DOMAIN c.tools) /\ Len(c.regions) \in Nat
         /\ DOMAIN c.regions = 1 .. Len(c.regions)
         /\ \A i \in 1 .. Len(c.regions) : c.regions[i] \in DOMAIN c.tools
         /\ \A t \in DOMAIN c.tools : c.tools[t].names \in Seq(DOMAIN Matching)
<1>1. c.regions \in Seq(DOMAIN c.tools)
  BY ConfigAssumption
<1>2. \A t \in DOMAIN c.tools : c.tools[t].names \in Seq(DOMAIN Matching)
  BY ConfigAssumption
<1>3. /\ Len(c.regions) \in Nat /\ DOMAIN c.regions = 1 .. Len(c.regions)
      /\ \A i \in 1 .. Len(c.regions) : c.regions[i] \in DOMAIN c.tools
  <2>1. PICK s, T : s = c.regions /\ T = DOMAIN c.tools
    OBVIOUS
  <2>2. s \in Seq(T)
    BY <1>1, <2>1
  <2>3. Len(s) \in Nat /\ DOMAIN s = 1 .. Len(s) /\ \A i \in 1 .. Len(s) : s[i] \in T
    BY <2>2, LenProperties, ElementOfSeq
  <2> QED  BY <2>1, <2>3
<1> QED  BY <1>1, <1>2, <1>3

\* The last of the places below n + 1, from the last of those below n.
LEMMA LastOfPlaces ==
  ASSUME NEW P \in SUBSET (Nat \ {0}), NEW n \in Nat \ {0}
  PROVE  /\ n \in P => P \cap (1 .. n) # {} /\ Max(P \cap (1 .. n)) = n
         /\ n \notin P => P \cap (1 .. n) = P \cap (1 .. n - 1)
<1>1. ASSUME n \in P
      PROVE  P \cap (1 .. n) # {} /\ Max(P \cap (1 .. n)) = n
  <2> DEFINE S == P \cap (1 .. n)
  <2>1. n \in S /\ S \in SUBSET Int /\ \A y \in S : y <= n
    BY <1>1
  <2> HIDE DEF S
  <2>2. S # {} /\ Max(S) = n
    BY <2>1, MaxIs
  <2> QED  BY <2>2 DEF S
<1>2. ASSUME n \notin P
      PROVE  P \cap (1 .. n) = P \cap (1 .. n - 1)
  <2>1. \A y \in P : y # n
    BY <1>2
  <2> QED  BY <2>1
<1> QED  BY <1>1, <1>2

\* The tools that ought to have the volumes, when the next one had its turn.
LEMMA ToolsStep ==
  ASSUME config \in Configs, UNCHANGED config,
         at \in 1 .. Len(config.regions), at' = at + 1
  PROVE  /\ WorldTool' = IF ForWorld(config.regions[at]) THEN config.regions[at] ELSE WorldTool
         /\ \A v : ToolOf(v)' = IF at \in PlacesOf(v) THEN config.regions[at] ELSE ToolOf(v)
         /\ Done' = 1 .. at
<1>1. /\ Len(config.regions) \in Nat /\ DOMAIN config.regions = 1 .. Len(config.regions)
      /\ at \in Nat \ {0} /\ Done' = 1 .. at
  <2>1. Len(config.regions) \in Nat /\ DOMAIN config.regions = 1 .. Len(config.regions)
    BY ConfigTypes
  <2>2. at \in Nat \ {0} /\ at' - 1 = at
    BY <2>1
  <2> QED  BY <2>1, <2>2 DEF Done
<1>2. WorldPlaces \in SUBSET (Nat \ {0}) /\ WorldPlaces' = WorldPlaces
  <2>1. WorldPlaces \subseteq 1 .. Len(config.regions)
    BY <1>1 DEF WorldPlaces
  <2>2. WorldPlaces' = WorldPlaces
    BY DEF WorldPlaces, ForWorld
  <2> QED  BY <1>1, <2>1, <2>2
<1>3. at \in WorldPlaces <=> ForWorld(config.regions[at])
  BY <1>1 DEF WorldPlaces
<1>4. WorldTool' = IF at \in WorldPlaces THEN config.regions[at] ELSE WorldTool
  <2>1. WorldTool' = IF WorldPlaces \cap (1 .. at) = {} THEN NoTool
                     ELSE config.regions[Max(WorldPlaces \cap (1 .. at))]
    BY <1>1, <1>2 DEF WorldTool, LastTool
  <2>2. WorldTool = IF WorldPlaces \cap (1 .. at - 1) = {} THEN NoTool
                    ELSE config.regions[Max(WorldPlaces \cap (1 .. at - 1))]
    BY DEF WorldTool, LastTool, Done
  <2>3. /\ at \in WorldPlaces => /\ WorldPlaces \cap (1 .. at) # {}
                                 /\ Max(WorldPlaces \cap (1 .. at)) = at
        /\ at \notin WorldPlaces => WorldPlaces \cap (1 .. at) = WorldPlaces \cap (1 .. at - 1)
    BY <1>1, <1>2, LastOfPlaces
  <2> QED  BY <2>1, <2>2, <2>3
<1>5. ASSUME NEW v
      PROVE  ToolOf(v)' = IF at \in PlacesOf(v) THEN config.regions[at] ELSE ToolOf(v)
  <2>1. PlacesOf(v) \in SUBSET (Nat \ {0}) /\ PlacesOf(v)' = PlacesOf(v)
    <3>1. PlacesOf(v) \subseteq 1 .. Len(config.regions)
      BY <1>1 DEF PlacesOf
    <3>2. PlacesOf(v)' = PlacesOf(v)
      BY DEF PlacesOf, ForWorld, Names
    <3> QED  BY <1>1, <3>1, <3>2
  <2>2. ToolOf(v)' = IF PlacesOf(v) \cap (1 .. at) = {} THEN NoTool
                     ELSE config.regions[Max(PlacesOf(v) \cap (1 .. at))]
    BY <1>1, <2>1 DEF ToolOf, LastTool
  <2>3. ToolOf(v) = IF PlacesOf(v) \cap (1 .. at - 1) = {} THEN NoTool
                    ELSE config.regions[Max(PlacesOf(v) \cap (1 .. at - 1))]
    BY DEF ToolOf, LastTool, Done
  <2>4. /\ at \in PlacesOf(v) => /\ PlacesOf(v) \cap (1 .. at) # {}
                                 /\ Max(PlacesOf(v) \cap (1 .. at)) = at
        /\ at \notin PlacesOf(v) => PlacesOf(v) \cap (1 .. at) = PlacesOf(v) \cap (1 .. at - 1)
    BY <1>1, <2>1, LastOfPlaces
  <2> QED  BY <2>2, <2>3, <2>4
<1> QED  BY <1>1, <1>3, <1>4, <1>5

\* The regions a tool makes of the volumes it has found.
NewRegions(tool, vols) == [i \in DOMAIN vols |-> [tool |-> tool, volume |-> vols[i]]]

Region(tools) == [tool : tools, volume : Volume]

Appended(s, tool, vols, u) ==
  /\ Len(s) \in Nat /\ Len(vols) \in Nat
  /\ DOMAIN s = 1 .. Len(s) /\ DOMAIN u = 1 .. Len(s) + Len(vols)
  /\ \A i \in 1 .. Len(s) : u[i] = s[i]
  /\ \A i \in 1 .. Len(s) + Len(vols) :
       i > Len(s) => /\ u[i].tool = tool /\ u[i].volume = vols[i - Len(s)]
                     /\ i - Len(s) \in 1 .. Len(vols)
  /\ \A i \in 1 .. Len(vols) : u[Len(s) + i] = [tool |-> tool, volume |-> vols[i]]

LEMMA NewRegionsLaw ==
  ASSUME NEW T, NEW s \in Seq(Region(T)), NEW tool \in T, NEW vols \in Seq(Volume),
         NEW u, u = s \o NewRegions(tool, vols)
  PROVE  /\ u \in Seq(Region(T))
         /\ Appended(s, tool, vols, u)
<1> DEFINE t == NewRegions(tool, vols)
<1>1. Len(s) \in Nat /\ Len(vols) \in Nat /\ DOMAIN s = 1 .. Len(s) /\ DOMAIN vols = 1 .. Len(vols)
  BY LenProperties
<1>2. /\ t \in Seq(Region(T)) /\ Len(t) = Len(vols)
      /\ \A i \in 1 .. Len(vols) : t[i] = [tool |-> tool, volume |-> vols[i]]
  <2>1. ASSUME NEW i \in 1 .. Len(vols)
        PROVE  t[i] = [tool |-> tool, volume |-> vols[i]] /\ t[i] \in Region(T)
    <3>1. vols[i] \in Volume
      BY ElementOfSeq
    <3> QED  BY <1>1, <3>1 DEF NewRegions, Region
  <2>2. t = [i \in 1 .. Len(vols) |-> t[i]]
    BY <1>1 DEF NewRegions
  <2> HIDE DEF t
  <2> QED  BY <1>1, <2>1, <2>2
<1> HIDE DEF t
<1>3. /\ u \in Seq(Region(T)) /\ Len(u) = Len(s) + Len(t) /\ DOMAIN u = 1 .. Len(u)
      /\ \A i \in 1 .. Len(s) + Len(t) : u[i] = IF i <= Len(s) THEN s[i] ELSE t[i - Len(s)]
  <2>1. u = s \o t
    BY DEF t
  <2>2. /\ s \o t \in Seq(Region(T)) /\ Len(s \o t) = Len(s) + Len(t)
        /\ \A i \in 1 .. Len(s) + Len(t) :
             (s \o t)[i] = IF i <= Len(s) THEN s[i] ELSE t[i - Len(s)]
    <3>1. PICK R : R = Region(T)
      OBVIOUS
    <3>2. s \in Seq(R) /\ t \in Seq(R)
      BY <1>2, <3>1
    <3>3. /\ s \o t \in Seq(R) /\ Len(s \o t) = Len(s) + Len(t)
          /\ \A i \in 1 .. Len(s) + Len(t) :
               (s \o t)[i] = IF i <= Len(s) THEN s[i] ELSE t[i - Len(s)]
      BY <3>2, ConcatProperties, Zenon
    <3> QED  BY <3>1, <3>3
  <2>3. DOMAIN (s \o t) = 1 .. Len(s \o t)
    BY <2>2, LenProperties
  <2> QED  BY <2>1, <2>2, <2>3
<1>4. \A i \in 1 .. Len(s) : u[i] = s[i]
  BY <1>1, <1>2, <1>3
<1>5. ASSUME NEW i \in 1 .. Len(s) + Len(vols), i > Len(s)
      PROVE  /\ u[i].tool = tool /\ u[i].volume = vols[i - Len(s)]
             /\ i - Len(s) \in 1 .. Len(vols)
  <2>1. i - Len(s) \in 1 .. Len(vols) /\ ~ (i <= Len(s))
    BY <1>1, <1>5
  <2>2. PICK k : k = i - Len(s)
    OBVIOUS
  <2>3. u[i] = t[k]
    BY <1>2, <1>3, <2>1, <2>2
  <2>4. k \in 1 .. Len(vols) /\ t[k] = [tool |-> tool, volume |-> vols[k]]
    BY <1>2, <2>1, <2>2
  <2> QED  BY <2>2, <2>3, <2>4
<1>6. ASSUME NEW i \in 1 .. Len(vols)
      PROVE  u[Len(s) + i] = [tool |-> tool, volume |-> vols[i]]
  <2>1. /\ Len(s) + i \in 1 .. Len(s) + Len(vols) /\ ~ (Len(s) + i <= Len(s))
        /\ (Len(s) + i) - Len(s) = i
    BY <1>1
  <2> QED  BY <1>2, <1>3, <2>1
<1> QED  BY <1>1, <1>2, <1>3, <1>4, <1>5, <1>6 DEF Appended

LEMMA RegionStep ==
  ASSUME NEW T, made \in Seq(Region(T)), NEW tool \in T, NEW vols \in Seq(Volume),
         made' = made \o NewRegions(tool, vols), NEW v
  PROVE  RegionOf(v)' = IF v \in ToSet(vols) THEN tool ELSE RegionOf(v)
<1> DEFINE Of(regions) == {i \in DOMAIN regions : regions[i].volume = v}
           m == Len(made)
           n == Len(made) + Len(vols)
<1>1. /\ m \in Nat /\ Len(vols) \in Nat /\ n \in Nat /\ m <= n
      /\ DOMAIN made = 1 .. m /\ DOMAIN made' = 1 .. n
      /\ \A i \in 1 .. m : made'[i] = made[i]
      /\ \A i \in 1 .. n : i > m => /\ made'[i].tool = tool /\ made'[i].volume = vols[i - m]
                                    /\ i - m \in 1 .. Len(vols)
      /\ \A i \in 1 .. Len(vols) : made'[m + i] = [tool |-> tool, volume |-> vols[i]]
      /\ DOMAIN vols = 1 .. Len(vols)
  <2>1. PICK s, u : s = made /\ u = made'
    OBVIOUS
  <2>2. s \in Seq(Region(T)) /\ u = s \o NewRegions(tool, vols)
    BY <2>1
  <2>3. Appended(s, tool, vols, u)
    BY <2>2, NewRegionsLaw
  <2>4. Appended(made, tool, vols, made')
    BY <2>1, <2>3
  <2>5. DOMAIN vols = 1 .. Len(vols)
    OBVIOUS
  <2>6. Len(made) + Len(vols) \in Nat /\ Len(made) <= Len(made) + Len(vols)
    BY <2>4 DEF Appended
  <2> QED  BY <2>4, <2>5, <2>6 DEF Appended
<1>2. /\ RegionOf(v) = IF Of(made) = {} THEN NoTool ELSE made[Max(Of(made))].tool
      /\ RegionOf(v)' = IF Of(made') = {} THEN NoTool ELSE made'[Max(Of(made'))].tool
  BY DEF RegionOf
<1>3. CASE v \in ToSet(vols)
  <2>1. PICK k \in 1 .. Len(vols) : vols[k] = v
    BY <1>1, <1>3 DEF ToSet
  <2>2. m + k \in Of(made') /\ Of(made') \in SUBSET (1 .. n)
    <3>1. m + k \in 1 .. n
      BY <1>1
    <3>2. made'[m + k] = [tool |-> tool, volume |-> v]
      BY <1>1, <2>1
    <3> HIDE DEF m, n
    <3> QED  BY <1>1, <3>1, <3>2
  <2> HIDE DEF Of
  <2>3. Of(made') # {}
    BY <2>2
  <2>4. Max(Of(made')) \in Of(made') /\ m + k <= Max(Of(made'))
    BY <1>1, <2>2, <2>3, MaxExists
  <2>5. Max(Of(made')) \in 1 .. n /\ Max(Of(made')) > m
    BY <1>1, <2>2, <2>4
  <2> QED  BY <1>1, <1>2, <1>3, <2>3, <2>5
<1>4. CASE v \notin ToSet(vols)
  <2>1. Of(made') = Of(made)
    <3>1. ASSUME NEW i \in Of(made')
          PROVE  i \in Of(made)
      <4>1. i \in 1 .. n /\ made'[i].volume = v
        BY <1>1
      <4>2. ~ (i > m)
        <5> SUFFICES ASSUME i > m
                     PROVE  FALSE
          OBVIOUS
        <5>1. vols[i - m] = v /\ i - m \in DOMAIN vols
          BY <1>1, <4>1
        <5> QED  BY <1>4, <5>1 DEF ToSet
      <4>3. i \in 1 .. m
        BY <1>1, <4>1, <4>2
      <4> QED  BY <1>1, <4>1, <4>3
    <3>2. ASSUME NEW i \in Of(made)
          PROVE  i \in Of(made')
      BY <1>1
    <3> HIDE DEF Of
    <3> QED  BY <3>1, <3>2
  <2>2. Of(made) # {} => made'[Max(Of(made))] = made[Max(Of(made))]
    <3> SUFFICES ASSUME Of(made) # {}
                 PROVE  made'[Max(Of(made))] = made[Max(Of(made))]
      OBVIOUS
    <3>1. Of(made) \in SUBSET (1 .. m)
      BY <1>1
    <3> HIDE DEF Of
    <3>2. Max(Of(made)) \in 1 .. m
      BY <1>1, <3>1, MaxExists
    <3> QED  BY <1>1, <3>2
  <2> HIDE DEF Of
  <2> QED  BY <1>2, <1>4, <2>1, <2>2
<1> QED  BY <1>3, <1>4

\* A limits tool that has as many regions as names has found every name, when
\* no name is part of the names of two volumes.
LEMMA NamesFoundStep ==
  ASSUME config \in Configs, UNCHANGED config, NEW T, made \in Seq(Region(T)),
         NEW tool \in DOMAIN config.tools, tool \in T,
         made' = made \o NewRegions(tool, VolumesOf(config.tools[tool].names)),
         Content(tool, made'),
         (\E r \in ToSet(made) : r.tool = tool) => NamesFound(tool),
         Distinct(tool)
  PROVE  \A n \in Names(tool) :
            \E r \in ToSet(made') : r.tool = tool /\ r.volume \in Matching[n]
<1> DEFINE names == config.tools[tool].names
           vols  == VolumesOf(names)
           m     == Len(made)
<1>1. /\ names \in Seq(DOMAIN Matching) /\ vols \in Seq(Volume) /\ Len(names) \in Nat
      /\ \A n \in ToSet(names) : Cardinality(Matching[n]) <= 1
      /\ Cardinality(RegionsOf(tool, made')) = Len(names)
      /\ Names(tool) = ToSet(names)
  <2>1. names \in Seq(DOMAIN Matching)
    BY ConfigTypes
  <2>2. vols \in Seq(Volume) /\ Len(names) \in Nat
    <3> HIDE DEF names
    <3> QED  BY <2>1, VolumesOfLaw
  <2> QED  BY <2>1, <2>2 DEF Distinct, Names, Content
<1>2. Appended(made, tool, vols, made')
  <2>1. PICK s, u : s = made /\ u = made'
    OBVIOUS
  <2>2. s \in Seq(Region(T)) /\ u = s \o NewRegions(tool, vols)
    BY <2>1
  <2> HIDE DEF vols
  <2>3. Appended(s, tool, vols, u)
    BY <1>1, <2>2, NewRegionsLaw
  <2> QED  BY <2>1, <2>3
<1> HIDE DEF names, vols
<1>3. ASSUME NEW r \in ToSet(made)
      PROVE  r \in ToSet(made')
  <2>1. PICK i \in 1 .. m : r = made[i]
    BY <1>2 DEF ToSet, Appended
  <2>2. i \in DOMAIN made' /\ r = made'[i]
    BY <1>2, <2>1 DEF Appended
  <2> QED  BY <2>2 DEF ToSet
<1>4. CASE \E r \in ToSet(made) : r.tool = tool
  BY <1>3, <1>4 DEF NamesFound
<1>5. CASE ~ \E r \in ToSet(made) : r.tool = tool
  <2>1. RegionsOf(tool, made') = m + 1 .. m + Len(vols)
    <3>1. ASSUME NEW i \in 1 .. m + Len(vols)
          PROVE  made'[i].tool = tool <=> i > m
      <4>1. CASE i > m
        BY <1>2, <4>1 DEF Appended
      <4>2. CASE ~ (i > m)
        <5>1. i \in 1 .. m
          BY <1>2, <4>2 DEF Appended
        <5>2. made[i] \in ToSet(made) /\ made'[i] = made[i]
          BY <1>2, <5>1 DEF Appended, ToSet
        <5> QED  BY <1>5, <4>2, <5>2
      <4> QED  BY <4>1, <4>2
    <3>2. \A i \in 1 .. m + Len(vols) : i > m <=> i \in m + 1 .. m + Len(vols)
      BY <1>2 DEF Appended
    <3>3. \A i \in m + 1 .. m + Len(vols) : i \in 1 .. m + Len(vols)
      BY <1>2 DEF Appended
    <3>4. DOMAIN made' = 1 .. m + Len(vols)
      BY <1>2 DEF Appended
    <3> HIDE DEF m
    <3> QED  BY <3>1, <3>2, <3>3, <3>4 DEF RegionsOf
  <2>2. Cardinality(m + 1 .. m + Len(vols)) = Len(vols)
    <3>1. /\ m + 1 \in Int /\ m + Len(vols) \in Int /\ Len(vols) \in Nat
          /\ m + 1 > m + Len(vols) <=> Len(vols) = 0
          /\ (m + Len(vols)) - (m + 1) + 1 = Len(vols)
      BY <1>2 DEF Appended
    <3> QED  BY <3>1, FS_Interval
  <2>3. \A n \in ToSet(names) : Matching[n] # {}
    <3>1. Len(vols) = Len(names)
      BY <1>1, <2>1, <2>2
    <3> QED  BY <1>1, <3>1, VolumesOfLaw DEF vols
  <2> SUFFICES ASSUME NEW n \in ToSet(names)
               PROVE  \E r \in ToSet(made') : r.tool = tool /\ r.volume \in Matching[n]
    BY <1>1
  <2>4. PICK v : v \in Matching[n]
    BY <2>3
  <2>5. v \in ToSet(vols)
    BY <1>1, <2>4, VolumesOfLaw DEF vols
  <2>6. PICK k \in 1 .. Len(vols) : vols[k] = v
    <3>1. DOMAIN vols = 1 .. Len(vols)
      BY <1>1, LenProperties
    <3> QED  BY <2>5, <3>1 DEF ToSet
  <2>7. m + k \in DOMAIN made' /\ made'[m + k] = [tool |-> tool, volume |-> v]
    BY <1>2, <2>6 DEF Appended
  <2>8. made'[m + k] \in ToSet(made')
    BY <2>7 DEF ToSet
  <2> QED  BY <2>4, <2>7, <2>8
<1> QED  BY <1>4, <1>5

LEMMA MadeType ==
  ASSUME InitTypeOK
  PROVE  /\ config \in Configs /\ at \in 1 .. Len(config.regions) + 1
         /\ made \in Seq(Region(DOMAIN config.tools))
         /\ limited \in DOMAIN config.tools \cup {NoTool}
         /\ DOMAIN sdOf \subseteq DOMAIN SensTypes /\ ToSet(sdOf) \subseteq Plugins
BY DEF InitTypeOK, Region, Volume

\* The create of a tool that sets the limits of the world.
LEMMA CreateForWorld ==
  ASSUME InitInv, CreateRegions, ForWorld(config.regions[at])
  PROVE  RegionsSoFar' /\ InitTypeOK'
<1> DEFINE tool == config.regions[at]
<1>1. /\ svc = "create" /\ at \in 1 .. Len(config.regions) /\ at' = at + 1
      /\ limited' = tool /\ UNCHANGED <<made, svc, config, sdOf>>
      /\ config \in Configs /\ tool \in DOMAIN config.tools
  <2>1. InitTypeOK
    BY DEF InitInv
  <2>2. /\ config \in Configs /\ Len(config.regions) \in Nat
        /\ \A i \in 1 .. Len(config.regions) : config.regions[i] \in DOMAIN config.tools
    BY <2>1, MadeType, ConfigTypes
  <2>3. /\ svc = "create" /\ at <= Len(config.regions) /\ at' = at + 1
        /\ limited' = tool /\ UNCHANGED <<made, svc, config, sdOf>>
    BY DEF CreateRegions
  <2>4. at \in 1 .. Len(config.regions)
    BY <2>1, <2>2, <2>3, MadeType
  <2> QED  BY <2>2, <2>3, <2>4
<1>2. RegionsSoFar
  BY <1>1 DEF InitInv
<1>3. /\ WorldTool' = tool
      /\ \A v : ToolOf(v)' = IF at \in PlacesOf(v) THEN tool ELSE ToolOf(v)
      /\ Done' = 1 .. at
  BY <1>1, ToolsStep
<1>4. ASSUME NEW v \in Volume
      PROVE  (RegionOf(v) = ToolOf(v))'
  <2>1. at \notin PlacesOf(v)
    BY DEF PlacesOf
  <2>2. RegionOf(v)' = RegionOf(v)
    BY <1>1 DEF RegionOf
  <2> QED  BY <1>2, <1>3, <2>1, <2>2 DEF RegionsSoFar
<1>5. \A i \in Done : i \in 1 .. at
  BY <1>1 DEF Done
<1>6. ASSUME NEW r \in ToSet(made)
      PROVE  \E i \in 1 .. at : r.tool = config.regions[i]
  BY <1>2, <1>5 DEF RegionsSoFar
<1>7. ASSUME NEW i \in 1 .. at
      PROVE  NamesFound(config.regions[i])'
  <2> DEFINE t == config.regions[i]
  <2>1. Distinct(t)' <=> Distinct(t)
    BY <1>1 DEF Distinct, ForWorld, Names
  <2>2. CASE i = at
    <3>1. ~ Distinct(t)
      BY <2>2 DEF Distinct
    <3> QED  BY <1>1, <2>1, <3>1 DEF NamesFound
  <2>3. CASE i # at
    <3>1. i \in Done
      BY <1>1, <2>3 DEF Done
    <3>2. NamesFound(t)
      BY <1>2, <3>1 DEF RegionsSoFar
    <3> QED  BY <1>1, <2>1, <3>2 DEF NamesFound, Names
  <2> QED  BY <2>2, <2>3
<1>8. RegionsSoFar'
  BY <1>1, <1>3, <1>4, <1>6, <1>7 DEF RegionsSoFar
<1>9. InitTypeOK'
  <2>1. InitTypeOK /\ Len(config.regions) \in Nat
    BY <1>1, ConfigTypes DEF InitInv
  <2>2. at' \in 1 .. Len(config.regions) + 1
    BY <1>1, <2>1
  <2> QED  BY <1>1, <2>1, <2>2 DEF InitTypeOK
<1> QED  BY <1>8, <1>9

\* The create of a tool that makes regions; it succeeds or ends the job.
LEMMA CreateOfVolumes ==
  ASSUME InitInv, CreateRegions, ~ ForWorld(config.regions[at])
  PROVE  /\ InitTypeOK' /\ svc' \in {"create", "failed"} /\ UNCHANGED sdOf
         /\ svc' # "failed" => RegionsSoFar'
<1> DEFINE tool  == config.regions[at]
           vols  == VolumesOf(config.tools[tool].names)
           T     == DOMAIN config.tools
<1>1. /\ svc = "create" /\ at \in 1 .. Len(config.regions)
      /\ UNCHANGED <<limited, config, sdOf>>
      /\ made' = made \o NewRegions(tool, vols)
      /\ IF Content(tool, made') THEN at' = at + 1 /\ UNCHANGED svc
         ELSE svc' = "failed" /\ UNCHANGED at
      /\ config \in Configs /\ tool \in T /\ made \in Seq(Region(T))
  <2>1. InitTypeOK
    BY DEF InitInv
  <2>2. /\ config \in Configs /\ Len(config.regions) \in Nat /\ made \in Seq(Region(T))
        /\ \A i \in 1 .. Len(config.regions) : config.regions[i] \in T
    BY <2>1, MadeType, ConfigTypes
  <2>3. /\ svc = "create" /\ at <= Len(config.regions)
        /\ UNCHANGED <<limited, config, sdOf>>
        /\ made' = made \o NewRegions(tool, vols)
        /\ IF Content(tool, made') THEN at' = at + 1 /\ UNCHANGED svc
           ELSE svc' = "failed" /\ UNCHANGED at
    BY DEF CreateRegions, NewRegions
  <2>4. at \in 1 .. Len(config.regions)
    BY <2>1, <2>2, <2>3, MadeType
  <2> QED  BY <2>2, <2>3, <2>4
<1>2. RegionsSoFar
  BY <1>1 DEF InitInv
<1>3. /\ config.tools[tool].names \in Seq(DOMAIN Matching)
      /\ vols \in Seq(Volume)
      /\ \A v : v \in ToSet(vols) <=> \E n \in Names(tool) : v \in Matching[n]
  <2>1. config.tools[tool].names \in Seq(DOMAIN Matching)
    BY <1>1, ConfigTypes
  <2> QED  BY <2>1, VolumesOfLaw DEF Names
<1>4. made' \in Seq(Region(T)) /\ Appended(made, tool, vols, made')
  <2>1. PICK s, u : s = made /\ u = made'
    OBVIOUS
  <2>2. s \in Seq(Region(T)) /\ u = s \o NewRegions(tool, vols)
    BY <1>1, <2>1
  <2>3. PICK a, b : a = tool /\ b = vols
    OBVIOUS
  <2>4. u \in Seq(Region(T)) /\ Appended(s, a, b, u)
    <3> HIDE DEF tool, vols, T
    <3> QED  BY <1>1, <1>3, <2>2, <2>3, NewRegionsLaw
  <2> QED  BY <2>1, <2>3, <2>4
<1>5. InitTypeOK'
  <2>1. InitTypeOK /\ Len(config.regions) \in Nat
    BY <1>1, ConfigTypes DEF InitInv
  <2>2. at' \in 1 .. Len(config.regions) + 1 /\ svc' \in {"create", "failed"}
    BY <1>1, <2>1
  <2>3. made' \in Seq([tool : DOMAIN config.tools, volume : 1 .. Daughters])
    BY <1>4 DEF Region, Volume
  <2> QED  BY <1>1, <2>1, <2>2, <2>3 DEF InitTypeOK
<1>6. svc' \in {"create", "failed"}
  BY <1>1
<1> HIDE DEF vols, T
<1>7. ASSUME svc' # "failed"
      PROVE  RegionsSoFar'
  <2>1. Content(tool, made') /\ at' = at + 1
    BY <1>1, <1>7
  <2>2. /\ WorldTool' = WorldTool
        /\ \A v : ToolOf(v)' = IF at \in PlacesOf(v) THEN tool ELSE ToolOf(v)
        /\ Done' = 1 .. at
    BY <1>1, <2>1, ToolsStep
  <2>3. ASSUME NEW v \in Volume
        PROVE  (RegionOf(v) = ToolOf(v))'
    <3>1. at \in PlacesOf(v) <=> v \in ToSet(vols)
      <4>1. at \in DOMAIN config.regions
        BY <1>1, ConfigTypes
      <4> QED  BY <1>3, <4>1 DEF PlacesOf
    <3>2. RegionOf(v)' = IF v \in ToSet(vols) THEN tool ELSE RegionOf(v)
      <4>1. PICK a, b, c : a = tool /\ b = vols /\ c = T
        OBVIOUS
      <4>2. /\ made \in Seq(Region(c)) /\ a \in c /\ b \in Seq(Volume)
            /\ made' = made \o NewRegions(a, b)
        BY <1>1, <1>3, <4>1
      <4>3. RegionOf(v)' = IF v \in ToSet(b) THEN a ELSE RegionOf(v)
        BY <4>2, RegionStep
      <4> QED  BY <4>1, <4>3
    <3> QED  BY <1>2, <2>2, <3>1, <3>2 DEF RegionsSoFar
  <2>4. \A i \in Done : i \in 1 .. at
    BY <1>1 DEF Done
  <2>5. ASSUME NEW r \in ToSet(made')
        PROVE  r \in ToSet(made) \/ r.tool = tool
    <3>1. PICK i \in 1 .. Len(made) + Len(vols) : r = made'[i]
      BY <1>4 DEF ToSet, Appended
    <3>2. CASE i > Len(made)
      BY <1>4, <3>1, <3>2 DEF Appended
    <3>3. CASE ~ (i > Len(made))
      <4>1. i \in 1 .. Len(made)
        BY <1>4, <3>1, <3>3 DEF Appended
      <4> QED  BY <1>4, <3>1, <4>1 DEF Appended, ToSet
    <3> QED  BY <3>2, <3>3
  <2>6. ASSUME NEW r \in ToSet(made)
        PROVE  r \in ToSet(made')
    <3>1. PICK i \in 1 .. Len(made) : r = made[i]
      BY <1>4 DEF ToSet, Appended
    <3>2. i \in DOMAIN made' /\ r = made'[i]
      BY <1>4, <3>1 DEF Appended
    <3> QED  BY <3>2 DEF ToSet
  <2>7. ASSUME NEW r \in ToSet(made')
        PROVE  \E i \in 1 .. at : r.tool = config.regions[i]
    <3>1. CASE r \in ToSet(made)
      BY <1>2, <2>4, <3>1 DEF RegionsSoFar
    <3>2. CASE r.tool = tool
      BY <1>1, <3>2
    <3> QED  BY <2>5, <3>1, <3>2
  <2>8. ASSUME NEW i \in 1 .. at
        PROVE  NamesFound(config.regions[i])'
    <3> DEFINE t == config.regions[i]
    <3>1. /\ Distinct(t)' <=> Distinct(t)
          /\ Names(t)' = Names(t)
      BY <1>1 DEF Distinct, ForWorld, Names
    <3>2. CASE i = at
      <4>1. (\E r \in ToSet(made) : r.tool = tool) => NamesFound(tool)
        BY <1>2 DEF RegionsSoFar
      <4>2. ASSUME Distinct(tool)
            PROVE  \A n \in Names(tool) :
                      \E r \in ToSet(made') : r.tool = tool /\ r.volume \in Matching[n]
        <5>1. PICK a, c : a = tool /\ c = T
          OBVIOUS
        <5>2. /\ made \in Seq(Region(c)) /\ a \in DOMAIN config.tools /\ a \in c
              /\ made' = made \o NewRegions(a, VolumesOf(config.tools[a].names))
              /\ Content(a, made') /\ Distinct(a)
              /\ (\E r \in ToSet(made) : r.tool = a) => NamesFound(a)
          <6> HIDE DEF tool
          <6> QED  BY <1>1, <2>1, <4>1, <4>2, <5>1 DEF vols, T
        <5>3. \A n \in Names(a) :
                 \E r \in ToSet(made') : r.tool = a /\ r.volume \in Matching[n]
          BY <1>1, <5>2, NamesFoundStep
        <5> QED  BY <5>1, <5>3
      <4> QED  BY <1>1, <3>1, <3>2, <4>2 DEF NamesFound
    <3>3. CASE i # at
      <4>1. i \in Done
        BY <1>1, <3>3 DEF Done
      <4>2. NamesFound(t)
        BY <1>2, <4>1 DEF RegionsSoFar
      <4> QED  BY <1>1, <2>6, <3>1, <4>2 DEF NamesFound
    <3> QED  BY <3>2, <3>3
  <2>9. limited' = WorldTool'
    BY <1>1, <1>2, <2>2 DEF RegionsSoFar
  <2> QED  BY <1>1, <2>2, <2>3, <2>7, <2>8, <2>9 DEF RegionsSoFar
<1> QED  BY <1>1, <1>5, <1>6, <1>7

LEMMA RegionsUnchanged ==
  ASSUME UNCHANGED <<config, at, made, limited>>
  PROVE  RegionsSoFar' <=> RegionsSoFar
BY DEF RegionsSoFar, WorldTool, ToolOf, Done, LastTool, WorldPlaces, PlacesOf, RegionOf,
       NamesFound, Distinct, ForWorld, Names

LEMMA InitHolds ==
  ASSUME SimInit
  PROVE  InitInv
<1>1. /\ svc = "new" /\ config \in Configs /\ sdOf = << >> /\ at = 1 /\ made = << >>
      /\ limited = NoTool /\ Done = {}
  BY DEF SimInit, Done
<1>2. Len(config.regions) \in Nat
  BY <1>1, ConfigTypes
<1>3. InitTypeOK
  <2>1. at \in 1 .. Len(config.regions) + 1
    BY <1>1, <1>2
  <2>2. DOMAIN sdOf = {} /\ ToSet(sdOf) = {}
    BY <1>1, ToSetSmall
  <2>3. made \in Seq([tool : DOMAIN config.tools, volume : 1 .. Daughters])
    BY <1>1
  <2> QED  BY <1>1, <2>1, <2>2, <2>3 DEF InitTypeOK
<1>4. WorldTool = NoTool /\ \A v : ToolOf(v) = NoTool
  BY <1>1 DEF WorldTool, ToolOf, LastTool
<1>5. \A v : RegionOf(v) = NoTool
  BY <1>1 DEF RegionOf
<1>6. ToSet(made) = {}
  BY <1>1, ToSetSmall
<1>7. RegionsSoFar
  BY <1>1, <1>4, <1>5, <1>6 DEF RegionsSoFar
<1> QED  BY <1>1, <1>3, <1>7 DEF InitInv

LEMMA InitStep ==
  ASSUME InitInv, SimInitNext
  PROVE  InitInv'
<1>0. /\ InitTypeOK /\ (svc # "failed" => RegionsSoFar) /\ config \in Configs
      /\ (svc \in {"retrieve", "create", "seed", "started"} => DOMAIN sdOf = DOMAIN SensTypes)
      /\ (svc \in {"seed", "started"} => at = Len(config.regions) + 1)
      /\ Len(config.regions) \in Nat
  BY ConfigTypes DEF InitInv, InitTypeOK
<1>1. CASE RetrieveTools
  <2>1. InitTypeOK'
    BY <1>0, <1>1 DEF InitTypeOK, RetrieveTools
  <2>2. RegionsSoFar'
    BY <1>0, <1>1, RegionsUnchanged DEF RetrieveTools
  <2> QED  BY <1>1, <2>1, <2>2 DEF InitInv, RetrieveTools
<1>2. CASE InitializeGeant4
  <2>0. /\ svc = "construct" /\ svc' \in {"failed", "retrieve"}
        /\ UNCHANGED <<config, at, made, limited>>
    BY <1>2 DEF InitializeGeant4
  <2>1. /\ DOMAIN sdOf' \subseteq DOMAIN SensTypes /\ ToSet(sdOf') \subseteq Plugins
        /\ svc' = "retrieve" => DOMAIN sdOf' = DOMAIN SensTypes
    <3>1. CASE \A v \in DOMAIN SensTypes : Plugin(SensTypes[v]) # {}
      <4>1. sdOf' = [v \in DOMAIN SensTypes |-> CHOOSE p \in Plugin(SensTypes[v]) : TRUE]
        BY <1>2, <3>1 DEF InitializeGeant4
      <4>2. \A v \in DOMAIN SensTypes : Plugin(SensTypes[v]) \subseteq Plugins
        BY DEF Plugin
      <4>3. \A v \in DOMAIN SensTypes : sdOf'[v] \in Plugins
        <5> SUFFICES ASSUME NEW v \in DOMAIN SensTypes
                     PROVE  sdOf'[v] \in Plugins
          OBVIOUS
        <5>1. \E p \in Plugin(SensTypes[v]) : TRUE
          BY <3>1
        <5>2. (CHOOSE p \in Plugin(SensTypes[v]) : TRUE) \in Plugin(SensTypes[v])
          BY <5>1
        <5> QED  BY <4>1, <4>2, <5>2
      <4> QED  BY <4>1, <4>3 DEF ToSet
    <3>2. CASE ~ \A v \in DOMAIN SensTypes : Plugin(SensTypes[v]) # {}
      <4>1. svc' = "failed" /\ UNCHANGED sdOf
        BY <1>2, <3>2 DEF InitializeGeant4
      <4> QED  BY <1>0, <4>1 DEF InitTypeOK
    <3> QED  BY <3>1, <3>2
  <2>2. InitTypeOK'
    BY <1>0, <2>0, <2>1 DEF InitTypeOK
  <2>3. RegionsSoFar'
    BY <1>0, <2>0, RegionsUnchanged
  <2> QED  BY <2>0, <2>1, <2>2, <2>3 DEF InitInv
<1>3. CASE RetrieveRegions
  <2>0. /\ svc = "retrieve" /\ svc' \in {"create", "failed"}
        /\ UNCHANGED <<config, sdOf, at, made, limited>>
    BY <1>3 DEF RetrieveRegions
  <2>1. InitTypeOK'
    BY <1>0, <2>0 DEF InitTypeOK
  <2>2. RegionsSoFar'
    BY <1>0, <2>0, RegionsUnchanged
  <2> QED  BY <1>0, <2>0, <2>1, <2>2 DEF InitInv
<1>4. CASE CreateRegions
  <2>0. svc = "create"
    BY <1>4 DEF CreateRegions
  <2>1. CASE ForWorld(config.regions[at])
    <3>1. RegionsSoFar' /\ InitTypeOK'
      BY <1>4, <2>1, CreateForWorld
    <3>2. UNCHANGED <<svc, sdOf>>
      BY <1>4, <2>1 DEF CreateRegions
    <3> QED  BY <1>0, <2>0, <3>1, <3>2 DEF InitInv
  <2>2. CASE ~ ForWorld(config.regions[at])
    <3>1. /\ InitTypeOK' /\ svc' \in {"create", "failed"} /\ UNCHANGED sdOf
          /\ svc' # "failed" => RegionsSoFar'
      BY <1>4, <2>2, CreateOfVolumes
    <3> QED  BY <1>0, <2>0, <3>1 DEF InitInv
  <2> QED  BY <2>1, <2>2
<1>5. CASE Seed
  <2>0. /\ svc = "create" /\ at > Len(config.regions) /\ svc' \in {"seed", "crashed"}
        /\ UNCHANGED <<config, sdOf, at, made, limited>>
    BY <1>5 DEF Seed
  <2>1. InitTypeOK'
    BY <1>0, <2>0 DEF InitTypeOK
  <2>2. RegionsSoFar'
    BY <1>0, <2>0, RegionsUnchanged
  <2>3. at = Len(config.regions) + 1
    BY <1>0, <2>0 DEF InitTypeOK
  <2> QED  BY <1>0, <2>0, <2>1, <2>2, <2>3 DEF InitInv
<1>6. CASE Start
  <2>0. /\ svc = "seed" /\ svc' \in {"started", "failed"}
        /\ UNCHANGED <<config, sdOf, at, made, limited>>
    BY <1>6 DEF Start
  <2>1. InitTypeOK'
    BY <1>0, <2>0 DEF InitTypeOK
  <2>2. RegionsSoFar'
    BY <1>0, <2>0, RegionsUnchanged
  <2> QED  BY <1>0, <2>0, <2>1, <2>2 DEF InitInv
<1> QED  BY <1>1, <1>2, <1>3, <1>4, <1>5, <1>6 DEF SimInitNext

LEMMA InitUnchanged ==
  ASSUME InitInv, UNCHANGED initVars
  PROVE  InitInv'
<1>1. UNCHANGED <<svc, config, sdOf, at, made, limited>>
  BY DEF initVars
<1>2. RegionsSoFar' <=> RegionsSoFar
  BY <1>1, RegionsUnchanged
<1>3. InitTypeOK' <=> InitTypeOK
  BY <1>1 DEF InitTypeOK
<1> QED  BY <1>1, <1>2, <1>3 DEF InitInv

\* When the service has started, all tools had their turn.
LEMMA InitImpliesLimits ==
  ASSUME InitInv
  PROVE  LimitsInForce
<1> SUFFICES ASSUME svc = "started"
             PROVE  /\ limited = LastTool(WorldPlaces)
                    /\ \A v \in 1 .. Daughters : RegionOf(v) = LastTool(PlacesOf(v))
                    /\ \A t \in ToSet(config.regions) :
                         Distinct(t) => \A n \in Names(t) :
                           \E r \in ToSet(made) : r.tool = t /\ r.volume \in Matching[n]
  BY DEF LimitsInForce
<1>1. /\ RegionsSoFar /\ config \in Configs /\ Len(config.regions) \in Nat
      /\ DOMAIN config.regions = 1 .. Len(config.regions)
      /\ Done = 1 .. Len(config.regions)
  <2>1. /\ RegionsSoFar /\ config \in Configs /\ at = Len(config.regions) + 1
    BY DEF InitInv, InitTypeOK
  <2>2. Len(config.regions) \in Nat /\ DOMAIN config.regions = 1 .. Len(config.regions)
    BY <2>1, ConfigTypes
  <2> QED  BY <2>1, <2>2 DEF Done
<1>2. WorldPlaces \cap Done = WorldPlaces
  BY <1>1 DEF WorldPlaces
<1>3. ASSUME NEW v
      PROVE  PlacesOf(v) \cap Done = PlacesOf(v)
  BY <1>1 DEF PlacesOf
<1>4. limited = LastTool(WorldPlaces)
  BY <1>1, <1>2 DEF RegionsSoFar, WorldTool
<1>5. \A v \in 1 .. Daughters : RegionOf(v) = LastTool(PlacesOf(v))
  BY <1>1, <1>3 DEF RegionsSoFar, ToolOf, Volume
<1>6. ASSUME NEW t \in ToSet(config.regions)
      PROVE  NamesFound(t)
  BY <1>1 DEF RegionsSoFar, ToSet
<1> QED  BY <1>4, <1>5, <1>6 DEF NamesFound

-----------------------------------------------------------------------------
(* What ProcessHits does to a collection.                                  *)

HitSet      == [cell : Cells, energy : Nat]
Energies(h) == [i \in DOMAIN h |-> h[i].energy]
InAll(h)    == EnergyIn(h, DOMAIN h)
InOne(h, c) == EnergyIn(h, InCell(h, c))

\* CellsHoldSum for one volume and one cell in which d was deposited.
CellLaw(plugin, h, d, c) ==
  CASE plugin = "MegatFullParticleAbsorptionSD" -> TRUE
    [] plugin \in {"MegatBirksLawCalorimeterSD", "MegatSimpleDriftChamber"} -> InOne(h, c) <= d
    [] plugin = "MegatAggregateCalorimeterSD" ->
         InOne(h, c) = d /\ Cardinality(InCell(h, c)) <= 1
    [] OTHER -> InOne(h, c) = d

LEMMA EnergyTypes ==
  ASSUME NEW h \in Seq(HitSet)
  PROVE  /\ Len(h) \in Nat /\ DOMAIN h = 1 .. Len(h) /\ IsFiniteSet(DOMAIN h)
         /\ \A i \in DOMAIN h : h[i] \in HitSet /\ Energies(h)[i] = h[i].energy
         /\ \A i \in DOMAIN h : Energies(h)[i] \in Nat
         /\ \A c : InCell(h, c) \subseteq DOMAIN h /\ IsFiniteSet(InCell(h, c))
         /\ \A S : EnergyIn(h, S) = Sum(Energies(h), S)
         /\ \A S \in SUBSET DOMAIN h : EnergyIn(h, S) \in Nat /\ IntegersOn(Energies(h), S)
<1>1. Len(h) \in Nat /\ DOMAIN h = 1 .. Len(h) /\ IsFiniteSet(DOMAIN h)
  BY LenProperties, FS_Interval
<1>2. \A i \in DOMAIN h : h[i] \in HitSet /\ Energies(h)[i] = h[i].energy
  BY <1>1, ElementOfSeq DEF Energies
<1>3. \A i \in DOMAIN h : Energies(h)[i] \in Nat
  BY <1>2 DEF HitSet
<1>4. \A c : InCell(h, c) \subseteq DOMAIN h /\ IsFiniteSet(InCell(h, c))
  BY <1>1, FS_Subset DEF InCell
<1>5. \A S : EnergyIn(h, S) = Sum(Energies(h), S)
  BY DEF EnergyIn, Sum, Energies
<1>6. ASSUME NEW S \in SUBSET DOMAIN h
      PROVE  EnergyIn(h, S) \in Nat /\ IntegersOn(Energies(h), S)
  <2>1. IsFiniteSet(S) /\ \A i \in S : Energies(h)[i] \in Nat
    BY <1>1, <1>3, FS_Subset
  <2>2. Sum(Energies(h), S) \in Nat /\ IntegersOn(Energies(h), S)
    BY <2>1, SumIsNat
  <2> QED  BY <1>5, <2>2
<1> QED  BY <1>1, <1>2, <1>3, <1>4, <1>5, <1>6

OneMore(h, c, r, g) ==
  /\ g \in Seq(HitSet)
  /\ InAll(g) = InAll(h) + r
  /\ InOne(g, c) = InOne(h, c) + r
  /\ InCell(g, c) = InCell(h, c) \cup {Len(h) + 1}
  /\ \A b \in Cells \ {c} : InCell(g, b) = InCell(h, b) /\ InOne(g, b) = InOne(h, b)

LEMMA AppendEnergy ==
  ASSUME NEW h \in Seq(HitSet), NEW c \in Cells, NEW r \in Nat, NEW g, g = Append(h, Hit(c, r))
  PROVE  OneMore(h, c, r, g)
<1> DEFINE n == Len(h) + 1
<1>1. /\ Hit(c, r) \in HitSet /\ Hit(c, r).cell = c /\ Hit(c, r).energy = r
  BY DEF Hit, HitSet
<1>2. /\ g \in Seq(HitSet) /\ Len(g) = n /\ g[n] = Hit(c, r)
      /\ \A i \in 1 .. Len(h) : g[i] = h[i]
  <2>1. PICK x : x = Hit(c, r)
    OBVIOUS
  <2>2. x \in HitSet /\ g = Append(h, x)
    BY <1>1, <2>1
  <2>3. /\ g \in Seq(HitSet) /\ Len(g) = n /\ g[n] = x
        /\ \A i \in 1 .. Len(h) : g[i] = h[i]
    BY <2>2
  <2> QED  BY <2>1, <2>3
<1>3. /\ Len(h) \in Nat /\ DOMAIN h = 1 .. Len(h) /\ DOMAIN g = DOMAIN h \cup {n}
      /\ n \notin DOMAIN h /\ IsFiniteSet(DOMAIN h)
  <2>1. Len(h) \in Nat /\ DOMAIN h = 1 .. Len(h) /\ DOMAIN g = 1 .. n /\ IsFiniteSet(DOMAIN h)
    BY <1>2, EnergyTypes
  <2> QED  BY <2>1
<1>4. /\ \A i \in DOMAIN h : Energies(g)[i] = Energies(h)[i]
      /\ Energies(g)[n] = r
  <2>1. \A i \in DOMAIN g : Energies(g)[i] = g[i].energy
    BY DEF Energies
  <2>2. \A i \in DOMAIN h : Energies(h)[i] = h[i].energy
    BY DEF Energies
  <2> HIDE DEF n
  <2> QED  BY <1>1, <1>2, <1>3, <2>1, <2>2
<1>5. ASSUME NEW S \in SUBSET DOMAIN h
      PROVE  /\ EnergyIn(g, S) = EnergyIn(h, S)
             /\ EnergyIn(g, S \cup {n}) = EnergyIn(h, S) + r
  <2>1. IsFiniteSet(S) /\ \A i \in S : Energies(g)[i] = Energies(h)[i]
    BY <1>3, <1>4, FS_Subset
  <2>2. /\ EnergyIn(g, S) = Sum(Energies(g), S) /\ EnergyIn(h, S) = Sum(Energies(h), S)
        /\ EnergyIn(g, S \cup {n}) = Sum(Energies(g), S \cup {n})
        /\ IntegersOn(Energies(g), S) /\ EnergyIn(h, S) \in Nat
    <3>1. S \in SUBSET DOMAIN g
      BY <1>3
    <3> HIDE DEF n
    <3> QED  BY <1>2, <3>1, EnergyTypes
  <2>3. Sum(Energies(g), S) = Sum(Energies(h), S)
    BY <2>1, SumEqual
  <2>4. Sum(Energies(g), S \cup {n}) = Energies(g)[n] + Sum(Energies(g), S)
    <3>1. n \notin S /\ Energies(g)[n] \in Int
      BY <1>3, <1>4
    <3> HIDE DEF n
    <3> QED  BY <2>1, <2>2, <3>1, SumAdd
  <2> HIDE DEF n
  <2> QED  BY <1>4, <2>2, <2>3, <2>4
<1>6. /\ InCell(g, c) = InCell(h, c) \cup {n}
      /\ \A b \in Cells \ {c} : InCell(g, b) = InCell(h, b)
  <2> HIDE DEF n
  <2> QED  BY <1>1, <1>2, <1>3 DEF InCell
<1>7. InAll(g) = InAll(h) + r
  <2> HIDE DEF n
  <2> QED  BY <1>3, <1>5 DEF InAll
<1>8. \A b : InCell(h, b) \in SUBSET DOMAIN h
  BY EnergyTypes
<1>9. InOne(g, c) = InOne(h, c) + r
  <2> HIDE DEF n
  <2> QED  BY <1>5, <1>6, <1>8 DEF InOne
<1>10. \A b \in Cells \ {c} : InOne(g, b) = InOne(h, b)
  BY <1>5, <1>6, <1>8 DEF InOne
<1> QED  BY <1>2, <1>6, <1>7, <1>9, <1>10 DEF OneMore

LEMMA AggregatedEnergy ==
  ASSUME NEW h \in Seq(HitSet), NEW c \in Cells, NEW e \in Nat,
         \A b \in Cells : Cardinality(InCell(h, b)) <= 1
  PROVE  /\ Aggregated(h, c, e) \in Seq(HitSet)
         /\ InOne(Aggregated(h, c, e), c) = InOne(h, c) + e
         /\ \A b \in Cells \ {c} : InOne(Aggregated(h, c, e), b) = InOne(h, b)
         /\ \A b \in Cells : Cardinality(InCell(Aggregated(h, c, e), b)) <= 1
<1> DEFINE g == Aggregated(h, c, e)
<1>0. \A b \in Cells : InCell(h, b) \in SUBSET DOMAIN h
  BY EnergyTypes
<1>1. CASE InCell(h, c) = {}
  <2>1. g = Append(h, Hit(c, e))
    BY <1>1 DEF Aggregated, InCell
  <2> HIDE DEF g
  <2>2. /\ g \in Seq(HitSet)
        /\ InOne(g, c) = InOne(h, c) + e
        /\ InCell(g, c) = InCell(h, c) \cup {Len(h) + 1}
        /\ \A b \in Cells \ {c} : InCell(g, b) = InCell(h, b) /\ InOne(g, b) = InOne(h, b)
    <3>1. OneMore(h, c, e, g)
      BY <2>1, AppendEnergy
    <3> QED  BY <3>1 DEF OneMore
  <2>3. Cardinality(InCell(g, c)) <= 1
    <3>1. InCell(g, c) = {Len(h) + 1}
      BY <1>1, <2>2
    <3>2. Cardinality({Len(h) + 1}) = 1
      BY FS_Singleton
    <3> QED  BY <3>1, <3>2
  <2> QED  BY <2>2, <2>3 DEF g
<1>2. CASE InCell(h, c) # {}
  <2> DEFINE j == Min(InCell(h, c))
  <2>0. Len(h) \in Nat /\ DOMAIN h = 1 .. Len(h) /\ IsFiniteSet(DOMAIN h)
    BY EnergyTypes
  <2>1. InCell(h, c) = {j} /\ j \in DOMAIN h /\ h[j].cell = c
    <3>1. IsFiniteSet(InCell(h, c)) /\ Cardinality(InCell(h, c)) \in Nat
      BY <1>0, <2>0, FS_Subset, FS_CardinalityType
    <3>2. Cardinality(InCell(h, c)) = 1
      <4>1. Cardinality(InCell(h, c)) # 0
        BY <1>2, <3>1, FS_EmptySet
      <4> QED  BY <3>1, <4>1
    <3>3. PICK x : InCell(h, c) = {x}
      BY <3>1, <3>2, FS_Singleton
    <3>4. x \in DOMAIN h /\ h[x].cell = c
      BY <3>3 DEF InCell
    <3>5. Min({x}) = x
      <4>1. x \in Int
        BY <2>0, <3>4
      <4>2. \E y \in {x} : \A z \in {x} : y <= z
        BY <4>1
      <4>3. Min({x}) \in {x}
        BY <4>2 DEF Min
      <4> QED  BY <4>3
    <3> QED  BY <3>3, <3>4, <3>5
  <2>2. g = [h EXCEPT ![j].energy = @ + e]
    BY <1>2 DEF Aggregated, InCell
  <2> HIDE DEF j
  <2>3. h[j] \in HitSet /\ h[j].energy \in Nat
    <3>1. h[j] \in HitSet
      BY <2>1, EnergyTypes
    <3> QED  BY <3>1 DEF HitSet
  <2>4. /\ DOMAIN g = DOMAIN h /\ g[j].cell = c /\ g[j].energy = h[j].energy + e
        /\ \A i \in DOMAIN h \ {j} : g[i] = h[i]
        /\ g[j] = [cell |-> c, energy |-> h[j].energy + e]
    <3>1. h[j] = [cell |-> c, energy |-> h[j].energy]
      BY <2>1, <2>3 DEF HitSet
    <3>2. g = [h EXCEPT ![j] = [h[j] EXCEPT !.energy = h[j].energy + e]]
      BY <2>2
    <3>3. [h[j] EXCEPT !.energy = h[j].energy + e] = [cell |-> c, energy |-> h[j].energy + e]
      BY <3>1
    <3> HIDE DEF g
    <3>4. g = [h EXCEPT ![j] = [cell |-> c, energy |-> h[j].energy + e]]
      BY <3>2, <3>3
    <3> QED  BY <2>1, <3>4
  <2> HIDE DEF g
  <2>5. g \in Seq(HitSet)
    <3>1. \A i \in 1 .. Len(h) : g[i] \in HitSet
      <4>1. \A i \in DOMAIN h : h[i] \in HitSet
        BY EnergyTypes
      <4>2. g[j] \in HitSet
        BY <2>3, <2>4 DEF HitSet
      <4> QED  BY <2>0, <2>4, <4>1, <4>2
    <3>2. g = [i \in 1 .. Len(h) |-> g[i]]
      <4>1. g = [i \in DOMAIN g |-> g[i]]
        BY <2>2 DEF g
      <4> QED  BY <2>0, <2>4, <4>1
    <3> QED  BY <2>0, <3>1, <3>2
  <2>6. \A b \in Cells : InCell(g, b) = InCell(h, b)
    <3> SUFFICES ASSUME NEW b \in Cells
                 PROVE  \A i \in DOMAIN h : g[i].cell = b <=> h[i].cell = b
      BY <2>4 DEF InCell
    <3> QED  BY <2>1, <2>4
  <2>7. /\ \A i \in DOMAIN h \ {j} : Energies(g)[i] = Energies(h)[i]
        /\ Energies(g)[j] = Energies(h)[j] + e
    BY <2>1, <2>4 DEF Energies
  <2>8. \A b \in Cells : /\ InOne(g, b) = Sum(Energies(g), InCell(h, b))
                         /\ InOne(h, b) = Sum(Energies(h), InCell(h, b))
                         /\ IntegersOn(Energies(h), InCell(h, b)) /\ IsFiniteSet(InCell(h, b))
    <3> SUFFICES ASSUME NEW b \in Cells
                 PROVE  /\ InOne(g, b) = Sum(Energies(g), InCell(h, b))
                        /\ InOne(h, b) = Sum(Energies(h), InCell(h, b))
                        /\ IntegersOn(Energies(h), InCell(h, b)) /\ IsFiniteSet(InCell(h, b))
      OBVIOUS
    <3>1. EnergyIn(g, InCell(g, b)) = Sum(Energies(g), InCell(g, b))
      BY <2>5, EnergyTypes
    <3>2. /\ EnergyIn(h, InCell(h, b)) = Sum(Energies(h), InCell(h, b))
          /\ IntegersOn(Energies(h), InCell(h, b)) /\ IsFiniteSet(InCell(h, b))
      BY <1>0, EnergyTypes
    <3> QED  BY <2>6, <3>1, <3>2 DEF InOne
  <2>9. InOne(g, c) = InOne(h, c) + e
    <3>1. Sum(Energies(g), InCell(h, c)) = Sum(Energies(h), InCell(h, c)) + e
      <4>1. /\ j \in InCell(h, c) /\ e \in Int
            /\ \A i \in InCell(h, c) \ {j} : Energies(g)[i] = Energies(h)[i]
        BY <2>1
      <4> QED  BY <2>7, <2>8, <4>1, SumUpdate
    <3> QED  BY <2>8, <3>1
  <2>10. ASSUME NEW b \in Cells \ {c}
         PROVE  InOne(g, b) = InOne(h, b)
    <3>1. \A i \in InCell(h, b) : i \in DOMAIN h \ {j}
      BY <2>1 DEF InCell
    <3>2. Sum(Energies(g), InCell(h, b)) = Sum(Energies(h), InCell(h, b))
      BY <2>7, <2>8, <3>1, SumEqual
    <3> QED  BY <2>8, <3>2
  <2> QED  BY <2>5, <2>6, <2>9, <2>10 DEF g
<1> QED  BY <1>1, <1>2

Aggregate == "MegatAggregateCalorimeterSD"
Absorber  == "MegatFullParticleAbsorptionSD"
Lossy     == {"MegatBirksLawCalorimeterSD", "MegatSimpleDriftChamber"}
Keeping   == {"MegatSimpleCalorimeterSD", "MegatSimpleTrackerSD", "MegatGflashCalorimeterSD"}

LEMMA KindsOfDetectors ==
  /\ Detectors = Lossy \cup Keeping \cup {Aggregate, Absorber}
  /\ \A p \in Lossy : p \notin Keeping /\ p # Aggregate /\ p # Absorber
  /\ \A p \in Keeping : p # Aggregate /\ p # Absorber
  /\ Aggregate # Absorber
  /\ \A p : Kills(p) <=> p = Absorber
BY DEF Detectors, Lossy, Keeping, Aggregate, Absorber, Kills

LEMMA CellLaws ==
  ASSUME NEW h, NEW d, NEW b
  PROVE  /\ CellLaw(Absorber, h, d, b)
         /\ \A p \in Lossy : CellLaw(p, h, d, b) <=> InOne(h, b) <= d
         /\ \A p \in Keeping : CellLaw(p, h, d, b) <=> InOne(h, b) = d
         /\ CellLaw(Aggregate, h, d, b) <=>
              InOne(h, b) = d /\ Cardinality(InCell(h, b)) <= 1
BY DEF CellLaw, Lossy, Keeping, Aggregate, Absorber

\* CellsHoldSum for one volume.
LawHolds(p, h, d) == \A b \in Cells : CellLaw(p, h, d[b], b)

\* The deposited energies, when e is deposited in the cell c.
Adds(d, c, e, d2) == d2 = [d EXCEPT ![c] = @ + e]

LEMMA AddsAt ==
  ASSUME NEW d \in [Cells -> Nat], NEW c \in Cells, NEW e \in Nat, NEW d2, Adds(d, c, e, d2)
  PROVE  /\ d2 \in [Cells -> Nat] /\ d2[c] = d[c] + e
         /\ \A b \in Cells \ {c} : d2[b] = d[b]
BY DEF Adds

LEMMA InOneIsNat ==
  ASSUME NEW h \in Seq(HitSet), NEW b
  PROVE  InOne(h, b) \in Nat
<1>1. InCell(h, b) \in SUBSET DOMAIN h
  BY EnergyTypes
<1> QED  BY <1>1, EnergyTypes DEF InOne

\* A hit with a part r of what was deposited is added.
LEMMA AppendedLaw ==
  ASSUME NEW h \in Seq(HitSet), NEW c \in Cells, NEW e \in Nat, NEW r \in Nat, r <= e,
         NEW d \in [Cells -> Nat], NEW d2, Adds(d, c, e, d2),
         NEW g, g = Append(h, Hit(c, r)),
         NEW p \in Lossy, LawHolds(p, h, d)
  PROVE  LawHolds(p, g, d2)
<1> SUFFICES ASSUME NEW b \in Cells
             PROVE  CellLaw(p, g, d2[b], b)
  BY DEF LawHolds
<1>1. OneMore(h, c, r, g)
  BY AppendEnergy
<1>2. d2[c] = d[c] + e /\ d[c] \in Nat /\ \A x \in Cells \ {c} : d2[x] = d[x]
  BY AddsAt
<1>3. InOne(h, c) \in Nat
  BY InOneIsNat
<1>4. InOne(h, b) <= d[b]
  BY CellLaws DEF LawHolds
<1>5. InOne(g, b) <= d2[b]
  <2>1. CASE b = c
    <3>1. InOne(g, c) = InOne(h, c) + r /\ InOne(h, c) <= d[c]
      BY <1>1, <1>4, <2>1 DEF OneMore
    <3> QED  BY <1>2, <1>3, <2>1, <3>1
  <2>2. CASE b # c
    BY <1>1, <1>2, <1>4, <2>2 DEF OneMore
  <2> QED  BY <2>1, <2>2
<1> QED  BY <1>5, CellLaws

\* A hit with all that was deposited is added.
LEMMA KeptLaw ==
  ASSUME NEW h \in Seq(HitSet), NEW c \in Cells, NEW e \in Nat,
         NEW d \in [Cells -> Nat], NEW d2, Adds(d, c, e, d2),
         NEW g, g = Append(h, Hit(c, e)),
         NEW p \in Keeping, LawHolds(p, h, d)
  PROVE  LawHolds(p, g, d2)
<1> SUFFICES ASSUME NEW b \in Cells
             PROVE  CellLaw(p, g, d2[b], b)
  BY DEF LawHolds
<1>1. OneMore(h, c, e, g)
  BY AppendEnergy
<1>2. d2[c] = d[c] + e /\ d[c] \in Nat /\ \A x \in Cells \ {c} : d2[x] = d[x]
  BY AddsAt
<1>3. InOne(h, b) = d[b]
  BY CellLaws DEF LawHolds
<1>4. InOne(g, b) = d2[b]
  <2>1. CASE b = c
    BY <1>1, <1>2, <1>3, <2>1 DEF OneMore
  <2>2. CASE b # c
    BY <1>1, <1>2, <1>3, <2>2 DEF OneMore
  <2> QED  BY <2>1, <2>2
<1> QED  BY <1>4, CellLaws

\* A collection that stays as it is, where e was deposited.
LEMMA UntouchedLaw ==
  ASSUME NEW h \in Seq(HitSet), NEW c \in Cells, NEW e \in Nat,
         NEW d \in [Cells -> Nat], NEW d2, Adds(d, c, e, d2),
         NEW p \in Detectors, LawHolds(p, h, d),
         e = 0 \/ p \in Lossy
  PROVE  LawHolds(p, h, d2)
<1> SUFFICES ASSUME NEW b \in Cells
             PROVE  CellLaw(p, h, d2[b], b)
  BY DEF LawHolds
<1>1. d[b] \in Nat /\ d2[b] \in Nat /\ d[b] <= d2[b] /\ (e = 0 => d2[b] = d[b])
  BY DEF Adds
<1>2. CASE e = 0
  <2>1. CellLaw(p, h, d[b], b) /\ d2[b] = d[b]
    BY <1>1, <1>2 DEF LawHolds
  <2> QED  BY <2>1
<1>3. CASE p \in Lossy
  <2>1. InOne(h, b) <= d[b]
    BY <1>3, CellLaws DEF LawHolds
  <2>2. InOne(h, b) \in Nat
    BY InOneIsNat
  <2>3. InOne(h, b) <= d2[b]
    BY <1>1, <2>1, <2>2
  <2> QED  BY <1>3, <2>3, CellLaws
<1> QED  BY <1>2, <1>3

LEMMA ProcessedLaw ==
  ASSUME NEW h \in Seq(HitSet), NEW c \in Cells, NEW e \in Nat, NEW k \in Nat,
         NEW d \in [Cells -> Nat], NEW d2, Adds(d, c, e, d2),
         NEW p \in Detectors, LawHolds(p, h, d),
         NEW g \in Processed(p, h, c, e, k)
  PROVE  /\ g \in Seq(HitSet)
         /\ LawHolds(p, g, d2)
         /\ p = Absorber => InAll(g) = InAll(h) + k
<1>1. CASE p = Aggregate
  <2>1. g = IF e = 0 THEN h ELSE Aggregated(h, c, e)
    BY <1>1 DEF Processed, Aggregate
  <2>2. CASE e = 0
    BY <1>1, <2>1, <2>2, UntouchedLaw, KindsOfDetectors
  <2>3. CASE e # 0
    <3>1. \A b \in Cells : InOne(h, b) = d[b] /\ Cardinality(InCell(h, b)) <= 1
      BY <1>1, CellLaws DEF LawHolds
    <3>2. /\ g \in Seq(HitSet) /\ InOne(g, c) = InOne(h, c) + e
          /\ \A b \in Cells \ {c} : InOne(g, b) = InOne(h, b)
          /\ \A b \in Cells : Cardinality(InCell(g, b)) <= 1
      <4>1. PICK u : u = Aggregated(h, c, e)
        OBVIOUS
      <4>2. g = u
        BY <2>1, <2>3, <4>1
      <4> QED  BY <3>1, <4>1, <4>2, AggregatedEnergy
    <3>3. \A b \in Cells : InOne(g, b) = d2[b]
      BY <3>1, <3>2 DEF Adds
    <3>4. LawHolds(p, g, d2)
      BY <1>1, <3>2, <3>3, CellLaws DEF LawHolds
    <3> QED  BY <1>1, <3>2, <3>4, KindsOfDetectors
  <2> QED  BY <2>2, <2>3
<1>2. CASE p \in Keeping
  <2>1. g = IF e = 0 THEN h ELSE Append(h, Hit(c, e))
    BY <1>2 DEF Processed, Keeping
  <2>2. CASE e = 0
    BY <1>2, <2>1, <2>2, UntouchedLaw, KindsOfDetectors
  <2>3. CASE e # 0
    <3>0. g = Append(h, Hit(c, e))
      BY <2>1, <2>3
    <3>1. OneMore(h, c, e, g)
      BY <3>0, AppendEnergy
    <3>2. LawHolds(p, g, d2)
      BY <1>2, <3>0, KeptLaw
    <3> QED  BY <1>2, <3>1, <3>2, KindsOfDetectors DEF OneMore
  <2> QED  BY <2>2, <2>3
<1>3. CASE p \in Lossy
  <2>1. g = h \/ \E r \in 0 .. e : g = Append(h, Hit(c, r))
    <3>1. CASE p = "MegatBirksLawCalorimeterSD"
      <4>1. g \in IF e = 0 THEN {h} ELSE {Append(h, Hit(c, r)) : r \in 1 .. e}
        BY <3>1 DEF Processed
      <4>2. CASE e = 0
        BY <4>1, <4>2
      <4>3. CASE e # 0
        <5>1. PICK r \in 1 .. e : g = Append(h, Hit(c, r))
          BY <4>1, <4>3
        <5>2. r \in 0 .. e
          OBVIOUS
        <5> QED  BY <5>1, <5>2
      <4> QED  BY <4>2, <4>3
    <3>2. CASE p = "MegatSimpleDriftChamber"
      <4>1. g \in {h} \cup (IF e < EdepCut THEN {} ELSE {Append(h, Hit(c, e))})
        BY <3>2 DEF Processed
      <4>2. e \in 0 .. e
        OBVIOUS
      <4> QED  BY <4>1, <4>2
    <3> QED  BY <1>3, <3>1, <3>2 DEF Lossy
  <2>2. CASE g = h
    BY <1>3, <2>2, UntouchedLaw, KindsOfDetectors
  <2>3. CASE \E r \in 0 .. e : g = Append(h, Hit(c, r))
    <3>1. PICK r \in 0 .. e : g = Append(h, Hit(c, r))
      BY <2>3
    <3>2. r \in Nat /\ r <= e
      OBVIOUS
    <3>3. OneMore(h, c, r, g)
      BY <3>1, <3>2, AppendEnergy
    <3>4. LawHolds(p, g, d2)
      BY <1>3, <3>1, <3>2, AppendedLaw
    <3> QED  BY <1>3, <3>3, <3>4, KindsOfDetectors DEF OneMore
  <2> QED  BY <2>1, <2>2, <2>3
<1>4. CASE p = Absorber
  <2>1. g = Append(h, Hit(c, k))
    BY <1>4 DEF Processed, Absorber
  <2>2. OneMore(h, c, k, g)
    BY <2>1, AppendEnergy
  <2> QED  BY <1>4, <2>2, CellLaws DEF OneMore, LawHolds
<1> QED  BY <1>1, <1>2, <1>3, <1>4, KindsOfDetectors

-----------------------------------------------------------------------------
(* The energy of an event.  The detectors sd of a job stay the same while  *)
(* events are tracked.                                                     *)

DepositSums(V, d) == [v \in V |-> Sum(d[v], Cells)]
Deposits(V, d)    == Sum(DepositSums(V, d), V)

AbsorbedSums(A, h) == [v \in A |-> InAll(h[v])]
Absorbed(A, h)     == Sum(AbsorbedSums(A, h), A)

Absorbers(sd) == {v \in DOMAIN sd : sd[v] = Absorber}

\* An event that has begun: what is under way, deposited, absorbed and escaped
\* is the energy it began with, and the collections follow the deposits.
EventHolds(sd, h, d, q, x) ==
  /\ h \in [DOMAIN sd -> Seq(HitSet)]
  /\ d \in [DOMAIN sd -> [Cells -> Nat]]
  /\ Energy = x + Total(q) + Deposits(DOMAIN sd, d) + Absorbed(Absorbers(sd), h)
  /\ \A v \in DOMAIN sd : LawHolds(sd[v], h[v], d[v])

EventInv(sd) ==
  /\ tracks \in Seq(1 .. Energy) /\ escaped \in Nat
  /\ events \in 0 .. MaxEvents /\ tracking \in BOOLEAN
  /\ events = 0 => /\ hits = << >> /\ deposited = << >> /\ ~tracking
                   /\ tracks = << >> /\ escaped = 0
  /\ events > 0 => EventHolds(sd, hits, deposited, tracks, escaped)

LEMMA DepositsAreNat ==
  ASSUME NEW V, IsFiniteSet(V), NEW d \in [V -> [Cells -> Nat]]
  PROVE  /\ Deposits(V, d) \in Nat /\ IntegersOn(DepositSums(V, d), V)
         /\ \A v \in V : DepositSums(V, d)[v] \in Nat
<1>1. \A v \in V : DepositSums(V, d)[v] \in Nat
  <2> SUFFICES ASSUME NEW v \in V
               PROVE  Sum(d[v], Cells) \in Nat
    BY DEF DepositSums
  <2>1. PICK f : f = d[v]
    OBVIOUS
  <2>2. \A c \in Cells : f[c] \in Nat
    BY <2>1
  <2>3. Sum(f, Cells) \in Nat
    BY <2>2, SumIsNat, CellsAssumption
  <2> QED  BY <2>1, <2>3
<1>2. Sum(DepositSums(V, d), V) \in Nat /\ IntegersOn(DepositSums(V, d), V)
  BY <1>1, SumIsNat
<1> QED  BY <1>1, <1>2 DEF Deposits

\* What a step does to the deposits, and to the collections.
DepositedIn(d, v, c, e, d2) == d2 = [d EXCEPT ![v][c] = @ + e]
Collected(h, v, g, h2)      == h2 = [h EXCEPT ![v] = g]

DepositStep(V, d, v, c, e, d2) ==
  /\ IsFiniteSet(V) /\ d \in [V -> [Cells -> Nat]]
  /\ v \in V /\ c \in Cells /\ e \in Nat
  /\ DepositedIn(d, v, c, e, d2)

CollectStep(V, A, h, v, g, a, h2) ==
  /\ A \in SUBSET V /\ IsFiniteSet(A) /\ h \in [V -> Seq(HitSet)]
  /\ v \in V /\ g \in Seq(HitSet) /\ a \in Nat
  /\ v \in A => InAll(g) = InAll(h[v]) + a
  /\ Collected(h, v, g, h2)

LEMMA DepositsGrow ==
  ASSUME NEW V, NEW d, NEW v, NEW c, NEW e, NEW d2, DepositStep(V, d, v, c, e, d2)
  PROVE  /\ d2 \in [V -> [Cells -> Nat]]
         /\ Adds(d[v], c, e, d2[v])
         /\ \A w \in V \ {v} : d2[w] = d[w]
         /\ Deposits(V, d2) = Deposits(V, d) + e
<1>0. /\ IsFiniteSet(V) /\ d \in [V -> [Cells -> Nat]]
      /\ v \in V /\ c \in Cells /\ e \in Nat
      /\ d2 = [d EXCEPT ![v][c] = @ + e]
  BY DEF DepositStep, DepositedIn
<1>1. PICK f : f = d[v]
  OBVIOUS
<1>2. f \in [Cells -> Nat]
  BY <1>0, <1>1
<1>3. PICK g : g = [f EXCEPT ![c] = f[c] + e]
  OBVIOUS
<1>4. d2 = [d EXCEPT ![v] = g]
  BY <1>0, <1>1, <1>3
<1>5. g \in [Cells -> Nat] /\ g[c] = f[c] + e /\ \A b \in Cells \ {c} : g[b] = f[b]
  BY <1>0, <1>2, <1>3
<1>6. d2[v] = g /\ \A w \in V \ {v} : d2[w] = d[w]
  BY <1>0, <1>4
<1>7. d2 \in [V -> [Cells -> Nat]]
  BY <1>0, <1>4, <1>5
<1>8. Adds(d[v], c, e, d2[v])
  BY <1>1, <1>3, <1>6 DEF Adds
<1>9. Sum(g, Cells) = Sum(f, Cells) + e
  <2>1. IntegersOn(f, Cells) /\ e \in Int
    BY <1>0, <1>2 DEF IntegersOn
  <2> QED  BY <1>0, <1>5, <2>1, SumUpdate, CellsAssumption
<1>10. PICK D, D2 : D = DepositSums(V, d) /\ D2 = DepositSums(V, d2)
  OBVIOUS
<1>11. D2[v] = D[v] + e
  BY <1>0, <1>1, <1>6, <1>9, <1>10 DEF DepositSums
<1>12. \A w \in V \ {v} : D2[w] = D[w]
  BY <1>0, <1>6, <1>10 DEF DepositSums
<1>13. Sum(D2, V) = Sum(D, V) + e
  <2>1. IntegersOn(D, V) /\ e \in Int
    BY <1>0, <1>10, DepositsAreNat
  <2> QED  BY <1>0, <1>11, <1>12, <2>1, SumUpdate
<1> QED  BY <1>6, <1>7, <1>8, <1>10, <1>13 DEF Deposits

LEMMA AbsorbedIsNat ==
  ASSUME NEW A, IsFiniteSet(A), NEW h, \A v \in A : h[v] \in Seq(HitSet)
  PROVE  /\ Absorbed(A, h) \in Nat /\ IntegersOn(AbsorbedSums(A, h), A)
         /\ \A v \in A : AbsorbedSums(A, h)[v] \in Nat
<1>1. \A v \in A : AbsorbedSums(A, h)[v] \in Nat
  <2> SUFFICES ASSUME NEW v \in A
               PROVE  InAll(h[v]) \in Nat
    BY DEF AbsorbedSums
  <2>1. PICK x : x = h[v]
    OBVIOUS
  <2>2. x \in Seq(HitSet)
    BY <2>1
  <2>3. InAll(x) \in Nat
    BY <2>2, EnergyTypes DEF InAll
  <2> QED  BY <2>1, <2>3
<1>2. Sum(AbsorbedSums(A, h), A) \in Nat /\ IntegersOn(AbsorbedSums(A, h), A)
  BY <1>1, SumIsNat
<1> QED  BY <1>1, <1>2 DEF Absorbed

LEMMA AbsorbedGrows ==
  ASSUME NEW V, NEW A, NEW h, NEW v, NEW g, NEW a, NEW h2, CollectStep(V, A, h, v, g, a, h2)
  PROVE  /\ h2 \in [V -> Seq(HitSet)] /\ h2[v] = g
         /\ \A w \in V \ {v} : h2[w] = h[w]
         /\ Absorbed(A, h2) = Absorbed(A, h) + (IF v \in A THEN a ELSE 0)
<1>0. /\ A \in SUBSET V /\ IsFiniteSet(A) /\ h \in [V -> Seq(HitSet)]
      /\ v \in V /\ g \in Seq(HitSet) /\ a \in Nat
      /\ v \in A => InAll(g) = InAll(h[v]) + a
      /\ h2 = [h EXCEPT ![v] = g]
  BY DEF CollectStep, Collected
<1>1. /\ h2 \in [V -> Seq(HitSet)] /\ h2[v] = g
      /\ \A w \in V \ {v} : h2[w] = h[w]
  BY <1>0
<1>2. PICK D, D2 : D = AbsorbedSums(A, h) /\ D2 = AbsorbedSums(A, h2)
  OBVIOUS
<1>3. \A w \in A \ {v} : D2[w] = D[w]
  BY <1>0, <1>1, <1>2 DEF AbsorbedSums
<1>4. IntegersOn(D, A) /\ Absorbed(A, h) \in Nat
  BY <1>0, <1>2, AbsorbedIsNat
<1>5. CASE v \in A
  <2>1. D2[v] = D[v] + a /\ a \in Int
    BY <1>0, <1>1, <1>2, <1>5 DEF AbsorbedSums
  <2>2. Sum(D2, A) = Sum(D, A) + a
    BY <1>0, <1>3, <1>4, <1>5, <2>1, SumUpdate
  <2> QED  BY <1>0, <1>1, <1>2, <1>5, <2>2 DEF Absorbed
<1>6. CASE v \notin A
  <2>1. \A w \in A : D[w] = D2[w]
    BY <1>3, <1>6
  <2>2. Sum(D, A) = Sum(D2, A)
    BY <1>0, <2>1, SumEqual
  <2> QED  BY <1>1, <1>2, <1>4, <1>6, <2>2 DEF Absorbed
<1> QED  BY <1>5, <1>6

LEMMA RestLaw ==
  ASSUME NEW k \in 0 .. Energy
  PROVE  /\ Rest(k) \in Seq(1 .. Energy) /\ Rest(k) \in Seq(Int)
         /\ Total(Rest(k)) = k
<1>1. CASE k = 0
  BY <1>1, TotalSmall DEF Rest
<1>2. CASE k # 0
  <2>1. k \in 1 .. Energy /\ k \in Int /\ Rest(k) = <<k>>
    BY <1>2, EnergyAssumption DEF Rest
  <2>2. Total(<<k>>) = k
    BY <2>1, TotalSmall
  <2>3. <<k>> \in Seq(1 .. Energy) /\ <<k>> \in Seq(Int)
    BY <2>1
  <2> QED  BY <2>1, <2>2, <2>3
<1> QED  BY <1>1, <1>2

LEMMA HeadAndTail ==
  ASSUME NEW q \in Seq(1 .. Energy)
  PROVE  /\ q \in Seq(Int) /\ Total(q) \in Int
         /\ q # << >> =>
              /\ Head(q) \in 1 .. Energy /\ Head(q) \in Nat
              /\ Tail(q) \in Seq(1 .. Energy) /\ Tail(q) \in Seq(Int)
              /\ Total(Tail(q)) \in Int
              /\ Total(q) = Head(q) + Total(Tail(q))
<1>1. \A x : x \in Seq(1 .. Energy) => x \in Seq(Int)
  <2>1. 1 .. Energy \subseteq Int
    BY EnergyAssumption
  <2>2. PICK E : E = 1 .. Energy
    OBVIOUS
  <2>3. E \subseteq Int
    BY <2>1, <2>2
  <2>4. ASSUME NEW x \in Seq(E)
        PROVE  x \in Seq(Int)
    <3>1. Len(x) \in Nat /\ x = [i \in 1 .. Len(x) |-> x[i]] /\ \A i \in 1 .. Len(x) : x[i] \in E
      OBVIOUS
    <3> QED  BY <2>3, <3>1
  <2> QED  BY <2>2, <2>4
<1>2. q \in Seq(Int)
  BY <1>1
<1>3. Total(q) \in Int
  BY <1>2, TotalIsInt
<1>4. ASSUME q # << >>
      PROVE  /\ Head(q) \in 1 .. Energy /\ Head(q) \in Nat
             /\ Tail(q) \in Seq(1 .. Energy) /\ Tail(q) \in Seq(Int)
             /\ Total(Tail(q)) \in Int
             /\ Total(q) = Head(q) + Total(Tail(q))
  <2>1. Head(q) \in 1 .. Energy /\ Tail(q) \in Seq(1 .. Energy)
    <3>1. PICK E : E = 1 .. Energy
      OBVIOUS
    <3>2. q \in Seq(E)
      BY <3>1
    <3>3. Head(q) \in E /\ Tail(q) \in Seq(E)
      BY <1>4, <3>2
    <3> QED  BY <3>1, <3>3
  <2>2. Head(q) \in Nat
    BY <2>1, EnergyAssumption
  <2>3. Tail(q) \in Seq(Int)
    BY <1>1, <2>1
  <2>4. Total(Tail(q)) \in Int
    BY <2>3, TotalIsInt
  <2>5. Total(q) = Head(q) + Total(Tail(q))
    BY <1>2, <1>4, TotalTail
  <2> QED  BY <2>1, <2>2, <2>3, <2>4, <2>5
<1> QED  BY <1>2, <1>3, <1>4

\* What is left of the first track, the others and the new one.
TracksLeft(q, e, s, k, kills, q2) ==
  /\ e \in 0 .. Head(q) /\ s \in 0 .. Head(q) /\ k = Head(q) - e - s /\ k >= 0
  /\ kills \in BOOLEAN
  /\ q2 = (IF kills THEN << >> ELSE Rest(k)) \o Tail(q) \o Rest(s)

LEMMA TracksAfter ==
  ASSUME NEW q \in Seq(1 .. Energy), q # << >>,
         NEW e, NEW s, NEW k, NEW kills, NEW q2, TracksLeft(q, e, s, k, kills, q2)
  PROVE  /\ q2 \in Seq(1 .. Energy)
         /\ Total(q) = Total(q2) + e + (IF kills THEN k ELSE 0)
<1>0. /\ e \in 0 .. Head(q) /\ s \in 0 .. Head(q) /\ k = Head(q) - e - s /\ k >= 0
      /\ kills \in BOOLEAN
      /\ q2 = (IF kills THEN << >> ELSE Rest(k)) \o Tail(q) \o Rest(s)
  BY DEF TracksLeft
<1>1. /\ Head(q) \in 1 .. Energy /\ Tail(q) \in Seq(1 .. Energy) /\ Tail(q) \in Seq(Int)
      /\ Total(Tail(q)) \in Int /\ Total(q) = Head(q) + Total(Tail(q))
  BY HeadAndTail
<1>2. k \in 0 .. Energy /\ s \in 0 .. Energy /\ e \in Nat /\ Head(q) = k + e + s
  <2>1. PICK x : x = Head(q)
    OBVIOUS
  <2>2. x \in 1 .. Energy /\ e \in 0 .. x /\ s \in 0 .. x /\ k = x - e - s /\ Energy \in Nat
    BY <1>0, <1>1, <2>1, EnergyAssumption
  <2>3. x \in Int /\ e \in Int /\ s \in Int /\ 0 <= e /\ 0 <= s /\ s <= x /\ x <= Energy
    BY <2>2
  <2>4. k \in Int /\ k >= 0 /\ k <= x
    <3>1. PICK y : y = x - e - s
      OBVIOUS
    <3>2. y \in Int /\ y <= x
      BY <2>3, <3>1
    <3>3. k = y
      BY <2>2, <3>1
    <3> QED  BY <1>0, <3>2, <3>3
  <2>5. k \in 0 .. Energy /\ s \in 0 .. Energy /\ e \in Nat /\ x = k + e + s
    BY <2>2, <2>3, <2>4
  <2> QED  BY <2>1, <2>5
<1>3. PICK a, b, c : a = (IF kills THEN << >> ELSE Rest(k)) /\ b = Tail(q) /\ c = Rest(s)
  OBVIOUS
<1>4. /\ a \in Seq(1 .. Energy) /\ a \in Seq(Int) /\ Total(a) = IF kills THEN 0 ELSE k
  <2>1. CASE kills
    <3>1. a = << >>
      BY <1>3, <2>1
    <3> QED  BY <2>1, <3>1, TotalSmall
  <2>2. CASE ~kills
    <3>1. a = Rest(k)
      BY <1>3, <2>2
    <3> QED  BY <1>2, <2>2, <3>1, RestLaw
  <2> QED  BY <1>0, <2>1, <2>2
<1>5. c \in Seq(1 .. Energy) /\ c \in Seq(Int) /\ Total(c) = s
  BY <1>2, <1>3, RestLaw
<1>6. b \in Seq(1 .. Energy) /\ b \in Seq(Int)
  BY <1>1, <1>3
<1>7. q2 = (a \o b) \o c
  BY <1>0, <1>3
<1>8. a \o b \in Seq(1 .. Energy) /\ a \o b \in Seq(Int)
  BY <1>4, <1>6
<1>9. q2 \in Seq(1 .. Energy)
  <2>1. PICK E, x : E = 1 .. Energy /\ x = a \o b
    OBVIOUS
  <2>2. x \in Seq(E) /\ c \in Seq(E)
    BY <1>5, <1>8, <2>1
  <2>3. x \o c \in Seq(E)
    BY <2>2
  <2> QED  BY <1>7, <2>1, <2>3
<1>10. Total(q2) = Total(a) + Total(b) + Total(c)
  <2>1. Total(a \o b) = Total(a) + Total(b)
    BY <1>4, <1>6, TotalConcat
  <2>2. PICK x : x = a \o b
    OBVIOUS
  <2>3. Total(x \o c) = Total(x) + Total(c)
    BY <1>5, <1>8, <2>2, TotalConcat
  <2> QED  BY <1>7, <2>1, <2>2, <2>3
<1>11. Total(q) = Total(q2) + e + (IF kills THEN k ELSE 0)
  <2>1. PICK x, T, Q, Q2 : x = Head(q) /\ T = Total(b) /\ Q = Total(q) /\ Q2 = Total(q2)
    OBVIOUS
  <2>2. x = k + e + s /\ Q = x + T /\ Q2 = (IF kills THEN 0 ELSE k) + T + s
    BY <1>1, <1>2, <1>3, <1>4, <1>5, <1>10, <2>1
  <2>3. k \in Int /\ e \in Int /\ s \in Int /\ T \in Int
    BY <1>1, <1>2, <1>3, <2>1
  <2>4. Q = Q2 + e + (IF kills THEN k ELSE 0)
    BY <1>0, <2>2, <2>3
  <2> QED  BY <2>1, <2>4
<1> QED  BY <1>9, <1>11

LEMMA NothingYet ==
  /\ << >> \in Seq(HitSet) /\ InAll(<< >>) = 0
  /\ \A b : InCell(<< >>, b) = {} /\ InOne(<< >>, b) = 0
<1>1. PICK h \in Seq(HitSet) : h = << >>
  BY EmptySeq
<1>2. DOMAIN h = {}
  BY <1>1
<1>3. EnergyIn(h, {}) = 0
  <2>1. EnergyIn(h, {}) = Sum(Energies(h), {})
    BY EnergyTypes
  <2> QED  BY <2>1, SumEmpty
<1>4. \A b : InCell(h, b) = {}
  BY <1>2 DEF InCell
<1> QED  BY <1>1, <1>2, <1>3, <1>4 DEF InAll, InOne

NewlyBegun(V, h, d) == h = [v \in V |-> << >>] /\ d = [v \in V |-> [c \in Cells |-> 0]]

LEMMA NewEvent ==
  ASSUME NEW V, IsFiniteSet(V), NEW A \in SUBSET V, NEW h, NEW d, NewlyBegun(V, h, d)
  PROVE  /\ h \in [V -> Seq(HitSet)] /\ d \in [V -> [Cells -> Nat]]
         /\ Deposits(V, d) = 0 /\ Absorbed(A, h) = 0
         /\ \A v \in V : \A p \in Detectors : LawHolds(p, h[v], d[v])
<1>0. h = [v \in V |-> << >>] /\ d = [v \in V |-> [c \in Cells |-> 0]]
  BY DEF NewlyBegun
<1>1. h \in [V -> Seq(HitSet)] /\ d \in [V -> [Cells -> Nat]]
  BY <1>0, NothingYet
<1>2. Deposits(V, d) = 0
  <2> SUFFICES \A v \in V : DepositSums(V, d)[v] = 0
    BY SumZero DEF Deposits
  <2> SUFFICES ASSUME NEW v \in V
               PROVE  Sum(d[v], Cells) = 0
    BY DEF DepositSums
  <2>1. PICK f : f = d[v]
    OBVIOUS
  <2>2. \A c \in Cells : f[c] = 0
    BY <1>0, <2>1
  <2>3. Sum(f, Cells) = 0
    BY <2>2, SumZero, CellsAssumption
  <2> QED  BY <2>1, <2>3
<1>3. Absorbed(A, h) = 0
  <2>1. IsFiniteSet(A)
    BY FS_Subset
  <2>2. \A v \in A : AbsorbedSums(A, h)[v] = 0
    BY <1>0, NothingYet DEF AbsorbedSums
  <2> QED  BY <2>1, <2>2, SumZero DEF Absorbed
<1>4. ASSUME NEW v \in V, NEW p \in Detectors
      PROVE  LawHolds(p, h[v], d[v])
  <2>1. h[v] = << >> /\ \A b \in Cells : d[v][b] = 0
    BY <1>0
  <2>2. Cardinality({}) <= 1
    BY FS_EmptySet
  <2>3. ASSUME NEW b \in Cells
        PROVE  CellLaw(p, << >>, 0, b)
    <3>1. PICK x : x = << >>
      OBVIOUS
    <3>2. InOne(x, b) = 0 /\ InCell(x, b) = {}
      BY <3>1, NothingYet
    <3>3. InOne(x, b) <= 0 /\ Cardinality(InCell(x, b)) <= 1
      BY <2>2, <3>2
    <3>4. CellLaw(p, x, 0, b)
      <4>1. CASE p \in Lossy
        BY <3>3, <4>1, CellLaws
      <4>2. CASE p \in Keeping
        BY <3>2, <4>2, CellLaws
      <4>3. CASE p = Aggregate
        BY <3>2, <3>3, <4>3, CellLaws
      <4>4. CASE p = Absorber
        BY <4>4, CellLaws
      <4> QED  BY <4>1, <4>2, <4>3, <4>4, KindsOfDetectors
    <3> QED  BY <3>1, <3>4
  <2> QED  BY <2>1, <2>3 DEF LawHolds
<1> QED  BY <1>1, <1>2, <1>3, <1>4

JobDetectors(sd) == IsFiniteSet(DOMAIN sd) /\ \A v \in DOMAIN sd : sd[v] \in Detectors

LEMMA AbsorbersLaw ==
  ASSUME NEW sd, JobDetectors(sd)
  PROVE  /\ Absorbers(sd) \in SUBSET DOMAIN sd /\ IsFiniteSet(Absorbers(sd))
         /\ \A v \in DOMAIN sd : v \in Absorbers(sd) <=> Kills(sd[v])
<1>1. Absorbers(sd) \in SUBSET DOMAIN sd
  BY DEF Absorbers
<1>2. IsFiniteSet(Absorbers(sd))
  BY <1>1, FS_Subset DEF JobDetectors
<1> QED  BY <1>1, <1>2, KindsOfDetectors DEF Absorbers

LEMMA SumsAreNat ==
  ASSUME NEW sd, JobDetectors(sd), NEW h, NEW d, NEW q, NEW x, EventHolds(sd, h, d, q, x)
  PROVE  Deposits(DOMAIN sd, d) \in Nat /\ Absorbed(Absorbers(sd), h) \in Nat
<1>1. IsFiniteSet(DOMAIN sd) /\ d \in [DOMAIN sd -> [Cells -> Nat]]
  BY DEF JobDetectors, EventHolds
<1>2. Deposits(DOMAIN sd, d) \in Nat
  <2>1. PICK V : V = DOMAIN sd
    OBVIOUS
  <2> QED  BY <1>1, <2>1, DepositsAreNat
<1>3. Absorbed(Absorbers(sd), h) \in Nat
  <2>1. PICK A : A = Absorbers(sd)
    OBVIOUS
  <2>2. IsFiniteSet(A) /\ \A v \in A : h[v] \in Seq(HitSet)
    BY <2>1, AbsorbersLaw DEF EventHolds
  <2> QED  BY <2>1, <2>2, AbsorbedIsNat
<1> QED  BY <1>2, <1>3

\* A step of the first track in the detector of v.
StepIn(sd, h, d, q, v, c, e, s, k, g, h2, d2, q2) ==
  /\ v \in DOMAIN sd /\ c \in Cells
  /\ g \in Processed(sd[v], h[v], c, e, k)
  /\ Collected(h, v, g, h2) /\ DepositedIn(d, v, c, e, d2)
  /\ TracksLeft(q, e, s, k, Kills(sd[v]), q2)

LEMMA TracksLeftTypes ==
  ASSUME NEW q \in Seq(1 .. Energy), q # << >>,
         NEW e, NEW s, NEW k, NEW kills, NEW q2, TracksLeft(q, e, s, k, kills, q2)
  PROVE  e \in Nat /\ k \in Nat /\ kills \in BOOLEAN
<1>1. PICK y : y = Head(q)
  OBVIOUS
<1>2. y \in Nat
  BY <1>1, HeadAndTail
<1>3. e \in 0 .. y /\ s \in 0 .. y /\ k = y - e - s /\ k >= 0 /\ kills \in BOOLEAN
  BY <1>1 DEF TracksLeft
<1>4. e \in Int /\ s \in Int /\ e >= 0
  BY <1>2, <1>3
<1> QED  BY <1>2, <1>3, <1>4

LEMMA CollectedInStep ==
  ASSUME NEW p \in Detectors, NEW hv \in Seq(HitSet), NEW dv \in [Cells -> Nat], NEW dv2,
         NEW c \in Cells, NEW e \in Nat, NEW k \in Nat, Adds(dv, c, e, dv2),
         LawHolds(p, hv, dv), NEW g \in Processed(p, hv, c, e, k)
  PROVE  /\ g \in Seq(HitSet) /\ LawHolds(p, g, dv2)
         /\ Kills(p) => InAll(g) = InAll(hv) + k
BY ProcessedLaw, KindsOfDetectors

LEMMA StepHolds ==
  ASSUME NEW sd, JobDetectors(sd), NEW h, NEW d, NEW q \in Seq(1 .. Energy), NEW x \in Nat,
         EventHolds(sd, h, d, q, x), q # << >>,
         NEW v, NEW c, NEW e, NEW s, NEW k, NEW g, NEW h2, NEW d2, NEW q2,
         StepIn(sd, h, d, q, v, c, e, s, k, g, h2, d2, q2)
  PROVE  q2 \in Seq(1 .. Energy) /\ EventHolds(sd, h2, d2, q2, x)
<1>1. PICK V, A, p, b : V = DOMAIN sd /\ A = Absorbers(sd) /\ p = sd[v] /\ b = Kills(sd[v])
  OBVIOUS
<1>2. /\ v \in V /\ c \in Cells /\ g \in Processed(p, h[v], c, e, k)
      /\ Collected(h, v, g, h2) /\ DepositedIn(d, v, c, e, d2)
      /\ TracksLeft(q, e, s, k, b, q2)
  BY <1>1 DEF StepIn
<1>3. /\ IsFiniteSet(V) /\ A \in SUBSET V /\ IsFiniteSet(A)
      /\ \A w \in V : sd[w] \in Detectors
      /\ \A w \in V : w \in A <=> Kills(sd[w])
  BY <1>1, AbsorbersLaw DEF JobDetectors
<1>4. /\ h \in [V -> Seq(HitSet)] /\ d \in [V -> [Cells -> Nat]]
      /\ \A w \in V : LawHolds(sd[w], h[w], d[w])
      /\ Energy = x + Total(q) + Deposits(V, d) + Absorbed(A, h)
  BY <1>1 DEF EventHolds
<1>5. Deposits(V, d) \in Nat /\ Absorbed(A, h) \in Nat
  BY <1>1, SumsAreNat
<1>6. e \in Nat /\ k \in Nat /\ b \in BOOLEAN
  BY <1>2, TracksLeftTypes
<1>7. /\ d2 \in [V -> [Cells -> Nat]] /\ Adds(d[v], c, e, d2[v])
      /\ \A w \in V \ {v} : d2[w] = d[w]
      /\ Deposits(V, d2) = Deposits(V, d) + e
  <2>1. DepositStep(V, d, v, c, e, d2)
    BY <1>2, <1>3, <1>4, <1>6 DEF DepositStep
  <2> QED  BY <2>1, DepositsGrow
<1>8. PICK hv, dv, dv2 : hv = h[v] /\ dv = d[v] /\ dv2 = d2[v]
  OBVIOUS
<1>9. /\ hv \in Seq(HitSet) /\ dv \in [Cells -> Nat] /\ Adds(dv, c, e, dv2)
      /\ p \in Detectors /\ LawHolds(p, hv, dv) /\ g \in Processed(p, hv, c, e, k)
  BY <1>1, <1>2, <1>3, <1>4, <1>7, <1>8
<1>10. /\ g \in Seq(HitSet) /\ LawHolds(p, g, dv2)
       /\ Kills(p) => InAll(g) = InAll(hv) + k
  BY <1>2, <1>6, <1>9, CollectedInStep
<1>11. (v \in A <=> b) /\ (v \in A => InAll(g) = InAll(h[v]) + k)
  BY <1>1, <1>2, <1>3, <1>8, <1>10
<1>12. /\ h2 \in [V -> Seq(HitSet)] /\ h2[v] = g
       /\ \A w \in V \ {v} : h2[w] = h[w]
       /\ Absorbed(A, h2) = Absorbed(A, h) + (IF v \in A THEN k ELSE 0)
  <2>1. CollectStep(V, A, h, v, g, k, h2)
    BY <1>2, <1>3, <1>4, <1>6, <1>10, <1>11 DEF CollectStep
  <2> QED  BY <2>1, AbsorbedGrows
<1>13. /\ q2 \in Seq(1 .. Energy)
       /\ Total(q) = Total(q2) + e + (IF b THEN k ELSE 0)
  BY <1>2, TracksAfter
<1>14. \A w \in V : LawHolds(sd[w], h2[w], d2[w])
  <2> SUFFICES ASSUME NEW w \in V
               PROVE  LawHolds(sd[w], h2[w], d2[w])
    OBVIOUS
  <2>1. CASE w = v
    BY <1>1, <1>8, <1>10, <1>12, <2>1
  <2>2. CASE w # v
    BY <1>4, <1>7, <1>12, <2>2
  <2> QED  BY <2>1, <2>2
<1>15. Energy = x + Total(q2) + Deposits(V, d2) + Absorbed(A, h2)
  <2>1. PICK a : a = IF b THEN k ELSE 0
    OBVIOUS
  <2>2. a \in Int /\ e \in Int
    BY <1>6, <2>1
  <2>3. Total(q) = Total(q2) + e + a /\ Absorbed(A, h2) = Absorbed(A, h) + a
    BY <1>11, <1>12, <1>13, <2>1
  <2>4. Total(q) \in Int /\ Total(q2) \in Int
    BY <1>13, HeadAndTail
  <2>5. PICK T, T2, D, B : T = Total(q) /\ T2 = Total(q2) /\ D = Deposits(V, d) /\ B = Absorbed(A, h)
    OBVIOUS
  <2>6. /\ T \in Int /\ T2 \in Int /\ D \in Int /\ B \in Int
        /\ Energy = x + T + D + B /\ T = T2 + e + a
    BY <1>4, <1>5, <2>3, <2>4, <2>5
  <2>7. Energy = x + T2 + (D + e) + (B + a)
    BY <2>2, <2>6
  <2> QED  BY <1>7, <2>3, <2>5, <2>7
<1> QED  BY <1>1, <1>7, <1>12, <1>13, <1>14, <1>15 DEF EventHolds

SpotIn(sd, h, q, v, c, e, g) ==
  /\ v \in DOMAIN sd /\ sd[v] = "MegatGflashCalorimeterSD" /\ c \in Cells
  /\ e = Head(q) /\ g = Append(h[v], Hit(c, e))

LEMMA SpotHolds ==
  ASSUME NEW sd, JobDetectors(sd), NEW h, NEW d, NEW q \in Seq(1 .. Energy), NEW x \in Nat,
         EventHolds(sd, h, d, q, x), q # << >>,
         NEW v, NEW c, NEW e, NEW g, SpotIn(sd, h, q, v, c, e, g),
         NEW h2, Collected(h, v, g, h2), NEW d2, DepositedIn(d, v, c, e, d2)
  PROVE  Tail(q) \in Seq(1 .. Energy) /\ EventHolds(sd, h2, d2, Tail(q), x)
<1>1. PICK V, A : V = DOMAIN sd /\ A = Absorbers(sd)
  OBVIOUS
<1>0. /\ v \in V /\ sd[v] = "MegatGflashCalorimeterSD" /\ c \in Cells
      /\ e = Head(q) /\ g = Append(h[v], Hit(c, e))
  BY <1>1 DEF SpotIn
<1>2. /\ IsFiniteSet(V) /\ A \in SUBSET V /\ IsFiniteSet(A) /\ v \in V /\ c \in Cells
      /\ \A w \in V : w \in A <=> Kills(sd[w])
  BY <1>0, <1>1, AbsorbersLaw DEF JobDetectors
<1>3. /\ h \in [V -> Seq(HitSet)] /\ d \in [V -> [Cells -> Nat]]
      /\ \A w \in V : LawHolds(sd[w], h[w], d[w])
      /\ Energy = x + Total(q) + Deposits(V, d) + Absorbed(A, h)
  BY <1>1 DEF EventHolds
<1>4. Deposits(V, d) \in Nat /\ Absorbed(A, h) \in Nat
  BY <1>1, SumsAreNat
<1>5. /\ e \in Nat /\ Tail(q) \in Seq(1 .. Energy) /\ Total(Tail(q)) \in Int
      /\ Total(q) = e + Total(Tail(q))
  BY <1>0, HeadAndTail
<1>6. v \notin A /\ sd[v] \in Keeping
  BY <1>0, <1>2 DEF Kills, Keeping
<1>7. /\ d2 \in [V -> [Cells -> Nat]] /\ Adds(d[v], c, e, d2[v])
      /\ \A w \in V \ {v} : d2[w] = d[w]
      /\ Deposits(V, d2) = Deposits(V, d) + e
  <2>1. DepositStep(V, d, v, c, e, d2)
    BY <1>2, <1>3, <1>5 DEF DepositStep
  <2> QED  BY <2>1, DepositsGrow
<1>8. PICK p, hv, dv, dv2 : p = sd[v] /\ hv = h[v] /\ dv = d[v] /\ dv2 = d2[v]
  OBVIOUS
<1>9. /\ hv \in Seq(HitSet) /\ dv \in [Cells -> Nat] /\ Adds(dv, c, e, dv2)
      /\ p \in Keeping /\ LawHolds(p, hv, dv) /\ g = Append(hv, Hit(c, e))
  BY <1>0, <1>2, <1>3, <1>6, <1>7, <1>8
<1>10. g \in Seq(HitSet) /\ LawHolds(p, g, dv2)
  <2>1. OneMore(hv, c, e, g)
    BY <1>2, <1>5, <1>9, AppendEnergy
  <2>2. LawHolds(p, g, dv2)
    BY <1>2, <1>5, <1>9, KeptLaw
  <2> QED  BY <2>1, <2>2 DEF OneMore
<1>11. /\ h2 \in [V -> Seq(HitSet)] /\ h2[v] = g
       /\ \A w \in V \ {v} : h2[w] = h[w]
       /\ Absorbed(A, h2) = Absorbed(A, h)
  <2>1. CollectStep(V, A, h, v, g, e, h2)
    BY <1>2, <1>3, <1>5, <1>6, <1>10 DEF CollectStep
  <2>2. /\ h2 \in [V -> Seq(HitSet)] /\ h2[v] = g
        /\ \A w \in V \ {v} : h2[w] = h[w]
        /\ Absorbed(A, h2) = Absorbed(A, h) + (IF v \in A THEN e ELSE 0)
    BY <2>1, AbsorbedGrows
  <2> QED  BY <1>4, <1>6, <2>2
<1>12. \A w \in V : LawHolds(sd[w], h2[w], d2[w])
  <2> SUFFICES ASSUME NEW w \in V
               PROVE  LawHolds(sd[w], h2[w], d2[w])
    OBVIOUS
  <2>1. CASE w = v
    BY <1>8, <1>10, <1>11, <2>1
  <2>2. CASE w # v
    BY <1>3, <1>7, <1>11, <2>2
  <2> QED  BY <2>1, <2>2
<1>13. Energy = x + Total(Tail(q)) + Deposits(V, d2) + Absorbed(A, h2)
  <2>1. PICK T, T2, D, B : T = Total(q) /\ T2 = Total(Tail(q)) /\ D = Deposits(V, d) /\ B = Absorbed(A, h)
    OBVIOUS
  <2>2. /\ T2 \in Int /\ D \in Int /\ B \in Int /\ e \in Int
        /\ Energy = x + T + D + B /\ T = e + T2
    BY <1>3, <1>4, <1>5, <2>1
  <2>3. Energy = x + T2 + (D + e) + B
    BY <2>2
  <2> QED  BY <1>7, <1>11, <2>1, <2>3
<1> QED  BY <1>1, <1>5, <1>7, <1>11, <1>12, <1>13 DEF EventHolds

LEMMA EscapeHolds ==
  ASSUME NEW sd, JobDetectors(sd), NEW h, NEW d, NEW q \in Seq(1 .. Energy), NEW x \in Nat,
         EventHolds(sd, h, d, q, x), q # << >>
  PROVE  /\ Tail(q) \in Seq(1 .. Energy) /\ x + Head(q) \in Nat
         /\ EventHolds(sd, h, d, Tail(q), x + Head(q))
<1>1. PICK e, T, T2, D, B : /\ e = Head(q) /\ T = Total(q) /\ T2 = Total(Tail(q))
                            /\ D = Deposits(DOMAIN sd, d) /\ B = Absorbed(Absorbers(sd), h)
  OBVIOUS
<1>2. e \in Nat /\ Tail(q) \in Seq(1 .. Energy) /\ T2 \in Int /\ T = e + T2
  BY <1>1, HeadAndTail
<1>3. D \in Nat /\ B \in Nat
  BY <1>1, SumsAreNat
<1>4. Energy = x + T + D + B
  BY <1>1 DEF EventHolds
<1>5. Energy = (x + e) + T2 + D + B /\ x + e \in Nat
  BY <1>2, <1>3, <1>4
<1> QED  BY <1>1, <1>2, <1>5 DEF EventHolds

LEMMA BeginHolds ==
  ASSUME NEW sd, JobDetectors(sd),
         NEW h, h = [v \in DOMAIN sd |-> << >>],
         NEW d, d = [v \in DOMAIN sd |-> [c \in Cells |-> 0]]
  PROVE  <<Energy>> \in Seq(1 .. Energy) /\ EventHolds(sd, h, d, <<Energy>>, 0)
<1>1. PICK V, A : V = DOMAIN sd /\ A = Absorbers(sd)
  OBVIOUS
<1>2. IsFiniteSet(V) /\ A \in SUBSET V /\ \A v \in V : sd[v] \in Detectors
  BY <1>1, AbsorbersLaw DEF JobDetectors
<1>3. NewlyBegun(V, h, d)
  BY <1>1 DEF NewlyBegun
<1>4. /\ h \in [V -> Seq(HitSet)] /\ d \in [V -> [Cells -> Nat]]
      /\ Deposits(V, d) = 0 /\ Absorbed(A, h) = 0
      /\ \A v \in V : \A p \in Detectors : LawHolds(p, h[v], d[v])
  BY <1>2, <1>3, NewEvent
<1>5. Energy \in 1 .. Energy /\ Energy \in Int
  BY EnergyAssumption
<1>6. <<Energy>> \in Seq(1 .. Energy) /\ Total(<<Energy>>) = Energy
  <2>1. Total(<<Energy>>) = Energy
    BY <1>5, TotalSmall
  <2>2. <<Energy>> \in Seq(1 .. Energy)
    BY <1>5
  <2> QED  BY <2>1, <2>2
<1>7. Energy = 0 + Total(<<Energy>>) + Deposits(V, d) + Absorbed(A, h)
  BY <1>4, <1>5, <1>6
<1> QED  BY <1>1, <1>2, <1>4, <1>6, <1>7 DEF EventHolds

LEMMA EventInvOf ==
  ASSUME NEW sd, EventInv(sd), tracking
  PROVE  /\ events > 0 /\ EventHolds(sd, hits, deposited, tracks, escaped)
         /\ tracks \in Seq(1 .. Energy) /\ escaped \in Nat
         /\ events \in 0 .. MaxEvents /\ tracking \in BOOLEAN
<1>1. events \in 0 .. MaxEvents /\ MaxEvents \in Nat
  BY EnergyAssumption DEF EventInv
<1>2. events # 0
  BY DEF EventInv
<1> QED  BY <1>1, <1>2 DEF EventInv

LEMMA BeginStep ==
  ASSUME NEW sd, JobDetectors(sd), EventInv(sd), BeginEvent(sd)
  PROVE  EventInv(sd)' /\ (events > 0)'
<1>1. /\ tracks' = <<Energy>> /\ escaped' = 0 /\ events' = events + 1 /\ tracking' = TRUE
      /\ hits' = [v \in DOMAIN sd |-> << >>]
      /\ deposited' = [v \in DOMAIN sd |-> [c \in Cells |-> 0]]
      /\ events < MaxEvents
  BY DEF BeginEvent, NewCollections
<1>2. PICK h, d : h = hits' /\ d = deposited'
  OBVIOUS
<1>3. <<Energy>> \in Seq(1 .. Energy) /\ EventHolds(sd, h, d, <<Energy>>, 0)
  <2>1. h = [v \in DOMAIN sd |-> << >>] /\ d = [v \in DOMAIN sd |-> [c \in Cells |-> 0]]
    BY <1>1, <1>2
  <2> QED  BY <2>1, BeginHolds
<1>4. events' \in 0 .. MaxEvents /\ events' > 0 /\ events' # 0
  <2>1. events \in 0 .. MaxEvents /\ MaxEvents \in Nat
    BY EnergyAssumption DEF EventInv
  <2> QED  BY <1>1, <2>1
<1>5. EventHolds(sd, hits', deposited', tracks', escaped')
  BY <1>1, <1>2, <1>3
<1> QED  BY <1>1, <1>3, <1>4, <1>5 DEF EventInv

LEMMA StepStep ==
  ASSUME NEW sd, JobDetectors(sd), EventInv(sd), Step(sd)
  PROVE  EventInv(sd)' /\ (events > 0)'
<1>1. tracking /\ tracks # << >> /\ UNCHANGED <<escaped, events, tracking>>
  BY DEF Step
<1>2. /\ events > 0 /\ EventHolds(sd, hits, deposited, tracks, escaped)
      /\ tracks \in Seq(1 .. Energy) /\ escaped \in Nat
      /\ events \in 0 .. MaxEvents /\ tracking \in BOOLEAN
  BY <1>1, EventInvOf
<1>3. PICK h, d, q, x : h = hits /\ d = deposited /\ q = tracks /\ x = escaped
  OBVIOUS
<1>4. PICK h2, d2, q2 : h2 = hits' /\ d2 = deposited' /\ q2 = tracks'
  OBVIOUS
<1>5. PICK v \in DOMAIN sd, c \in Cells, e \in 0 .. Head(tracks), s \in 0 .. Head(tracks) :
        LET k == Head(tracks) - e - s IN
        /\ k >= 0
        /\ \E g \in Processed(sd[v], hits[v], c, e, k) : hits' = [hits EXCEPT ![v] = g]
        /\ deposited' = [deposited EXCEPT ![v][c] = @ + e]
        /\ tracks' = (IF Kills(sd[v]) THEN << >> ELSE Rest(k)) \o Tail(tracks) \o Rest(s)
  BY DEF Step
<1>6. PICK k : k = Head(tracks) - e - s
  OBVIOUS
<1>7. PICK g \in Processed(sd[v], hits[v], c, e, k) : hits' = [hits EXCEPT ![v] = g]
  BY <1>5, <1>6
<1>8. StepIn(sd, h, d, q, v, c, e, s, k, g, h2, d2, q2)
  <2>1. g \in Processed(sd[v], h[v], c, e, k) /\ h2 = [h EXCEPT ![v] = g]
    BY <1>3, <1>4, <1>7
  <2>2. d2 = [d EXCEPT ![v][c] = @ + e]
    BY <1>3, <1>4, <1>5
  <2>3. /\ e \in 0 .. Head(q) /\ s \in 0 .. Head(q) /\ k = Head(q) - e - s /\ k >= 0
        /\ q2 = (IF Kills(sd[v]) THEN << >> ELSE Rest(k)) \o Tail(q) \o Rest(s)
    BY <1>3, <1>4, <1>5, <1>6
  <2>4. Kills(sd[v]) \in BOOLEAN
    BY DEF Kills
  <2> QED  BY <2>1, <2>2, <2>3, <2>4 DEF StepIn, Collected, DepositedIn, TracksLeft
<1>9. EventHolds(sd, h, d, q, x) /\ q \in Seq(1 .. Energy) /\ q # << >> /\ x \in Nat
  BY <1>1, <1>2, <1>3
<1>10. q2 \in Seq(1 .. Energy) /\ EventHolds(sd, h2, d2, q2, x)
  BY <1>8, <1>9, StepHolds
<1>11. EventHolds(sd, hits', deposited', tracks', escaped') /\ tracks' \in Seq(1 .. Energy)
  BY <1>1, <1>3, <1>4, <1>10
<1>12. events' # 0 /\ events' > 0
  BY <1>1, <1>2
<1> QED  BY <1>1, <1>2, <1>11, <1>12 DEF EventInv

LEMMA SpotStep ==
  ASSUME NEW sd, JobDetectors(sd), EventInv(sd), Spot(sd)
  PROVE  EventInv(sd)' /\ (events > 0)'
<1>1. tracking /\ tracks # << >> /\ UNCHANGED <<escaped, events, tracking>>
  BY DEF Spot
<1>2. /\ events > 0 /\ EventHolds(sd, hits, deposited, tracks, escaped)
      /\ tracks \in Seq(1 .. Energy) /\ escaped \in Nat
      /\ events \in 0 .. MaxEvents /\ tracking \in BOOLEAN
  BY <1>1, EventInvOf
<1>3. PICK h, d, q, x, e : /\ h = hits /\ d = deposited /\ q = tracks /\ x = escaped
                           /\ e = Head(tracks)
  OBVIOUS
<1>4. PICK h2, d2 : h2 = hits' /\ d2 = deposited'
  OBVIOUS
<1>5. PICK v \in DOMAIN sd, c \in Cells :
        /\ sd[v] = "MegatGflashCalorimeterSD"
        /\ hits' = [hits EXCEPT ![v] = Append(@, Hit(c, Head(tracks)))]
        /\ deposited' = [deposited EXCEPT ![v][c] = @ + Head(tracks)]
        /\ tracks' = Tail(tracks)
  BY DEF Spot
<1>6. PICK g : g = Append(h[v], Hit(c, e))
  OBVIOUS
<1>7. Collected(h, v, g, h2)
  BY <1>3, <1>4, <1>5, <1>6 DEF Collected
<1>8. DepositedIn(d, v, c, e, d2)
  BY <1>3, <1>4, <1>5 DEF DepositedIn
<1>9. /\ EventHolds(sd, h, d, q, x) /\ q \in Seq(1 .. Energy) /\ q # << >> /\ x \in Nat
      /\ e = Head(q)
  BY <1>1, <1>2, <1>3
<1>10. Tail(q) \in Seq(1 .. Energy) /\ EventHolds(sd, h2, d2, Tail(q), x)
  <2>1. SpotIn(sd, h, q, v, c, e, g)
    BY <1>3, <1>5, <1>6 DEF SpotIn
  <2> QED  BY <1>7, <1>8, <1>9, <2>1, SpotHolds
<1>11. EventHolds(sd, hits', deposited', tracks', escaped') /\ tracks' \in Seq(1 .. Energy)
  BY <1>1, <1>3, <1>4, <1>5, <1>10
<1>12. events' # 0 /\ events' > 0
  BY <1>1, <1>2
<1> QED  BY <1>1, <1>2, <1>11, <1>12 DEF EventInv

LEMMA EscapeStep ==
  ASSUME NEW sd, JobDetectors(sd), EventInv(sd), Escape
  PROVE  EventInv(sd)' /\ (events > 0)'
<1>1. /\ tracking /\ tracks # << >> /\ UNCHANGED <<hits, deposited, events, tracking>>
      /\ escaped' = escaped + Head(tracks) /\ tracks' = Tail(tracks)
  BY DEF Escape
<1>2. /\ events > 0 /\ EventHolds(sd, hits, deposited, tracks, escaped)
      /\ tracks \in Seq(1 .. Energy) /\ escaped \in Nat
      /\ events \in 0 .. MaxEvents /\ tracking \in BOOLEAN
  BY <1>1, EventInvOf
<1>3. PICK h, d, q, x : h = hits /\ d = deposited /\ q = tracks /\ x = escaped
  OBVIOUS
<1>4. EventHolds(sd, h, d, q, x) /\ q \in Seq(1 .. Energy) /\ q # << >> /\ x \in Nat
  BY <1>1, <1>2, <1>3
<1>5. /\ Tail(q) \in Seq(1 .. Energy) /\ x + Head(q) \in Nat
      /\ EventHolds(sd, h, d, Tail(q), x + Head(q))
  BY <1>4, EscapeHolds
<1>6. /\ EventHolds(sd, hits', deposited', tracks', escaped')
      /\ tracks' \in Seq(1 .. Energy) /\ escaped' \in Nat
  BY <1>1, <1>3, <1>5
<1>7. events' # 0 /\ events' > 0
  BY <1>1, <1>2
<1> QED  BY <1>1, <1>2, <1>6, <1>7 DEF EventInv

LEMMA EndStep ==
  ASSUME NEW sd, EventInv(sd), EndEvent
  PROVE  EventInv(sd)' /\ (events > 0)'
<1>1. /\ tracking /\ tracking' = FALSE
      /\ UNCHANGED <<tracks, hits, deposited, escaped, events>>
  BY DEF EndEvent
<1>2. events > 0 /\ events \in 0 .. MaxEvents
  BY <1>1, EventInvOf
<1>3. events' # 0 /\ events' > 0
  BY <1>1, <1>2
<1> QED  BY <1>1, <1>3 DEF EventInv

LEMMA EventStep ==
  ASSUME NEW sd, JobDetectors(sd), EventInv(sd), EventNext(sd)
  PROVE  EventInv(sd)' /\ (events > 0)'
BY BeginStep, StepStep, SpotStep, EscapeStep, EndStep DEF EventNext

-----------------------------------------------------------------------------
(* No energy of an event is above the one it began with.                   *)

LEMMA TotalIsNat ==
  ASSUME NEW q \in Seq(1 .. Energy)
  PROVE  Total(q) \in Nat
<1>1. IsFiniteSet(DOMAIN q)
  BY HeadAndTail, TotalIsInt
<1>2. \A i \in DOMAIN q : q[i] \in Nat
  BY EnergyAssumption
<1> QED  BY <1>1, <1>2, SumIsNat DEF Total

LEMMA DepositBound ==
  ASSUME NEW V, IsFiniteSet(V), NEW d \in [V -> [Cells -> Nat]], NEW v \in V, NEW c \in Cells
  PROVE  d[v][c] \in Nat /\ d[v][c] <= Deposits(V, d)
<1>1. PICK f, D : f = d[v] /\ D = DepositSums(V, d)
  OBVIOUS
<1>2. \A b \in Cells : f[b] \in Nat
  BY <1>1
<1>3. f[c] <= Sum(f, Cells)
  BY <1>2, SumMember, CellsAssumption
<1>4. D[v] = Sum(f, Cells)
  BY <1>1 DEF DepositSums
<1>5. (\A w \in V : D[w] \in Nat) /\ Sum(D, V) \in Nat /\ Sum(D, V) = Deposits(V, d)
  BY <1>1, DepositsAreNat DEF Deposits
<1>6. D[v] <= Sum(D, V)
  BY <1>5, SumMember
<1>7. f[c] \in Nat /\ D[v] \in Nat
  BY <1>2, <1>5
<1> QED  BY <1>1, <1>3, <1>4, <1>5, <1>6, <1>7

LEMMA AbsorbedBound ==
  ASSUME NEW A, IsFiniteSet(A), NEW h, \A w \in A : h[w] \in Seq(HitSet), NEW v \in A
  PROVE  InAll(h[v]) <= Absorbed(A, h)
<1>1. PICK D : D = AbsorbedSums(A, h)
  OBVIOUS
<1>2. (\A w \in A : D[w] \in Nat) /\ Sum(D, A) = Absorbed(A, h)
  BY <1>1, AbsorbedIsNat DEF Absorbed
<1>3. D[v] <= Sum(D, A)
  BY <1>2, SumMember
<1>4. D[v] = InAll(h[v])
  BY <1>1 DEF AbsorbedSums
<1> QED  BY <1>2, <1>3, <1>4

\* A hit has no more energy than its cell and than its collection.
LEMMA HitBound ==
  ASSUME NEW h \in Seq(HitSet), NEW i \in DOMAIN h
  PROVE  /\ h[i].cell \in Cells /\ h[i].energy \in Nat
         /\ h[i].energy <= InOne(h, h[i].cell) /\ h[i].energy <= InAll(h)
<1>1. h[i] \in HitSet /\ Energies(h)[i] = h[i].energy
  BY EnergyTypes
<1>2. h[i].cell \in Cells /\ h[i].energy \in Nat
  BY <1>1 DEF HitSet
<1>3. ASSUME NEW S \in SUBSET DOMAIN h, i \in S
      PROVE  h[i].energy <= EnergyIn(h, S)
  <2>1. PICK f : f = Energies(h)
    OBVIOUS
  <2>2. IsFiniteSet(S)
    <3>1. IsFiniteSet(DOMAIN h)
      BY EnergyTypes
    <3> QED  BY <3>1, FS_Subset
  <2>3. \A j \in S : f[j] \in Nat
    BY <2>1, EnergyTypes
  <2>4. f[i] <= Sum(f, S)
    BY <1>3, <2>2, <2>3, SumMember
  <2>5. EnergyIn(h, S) = Sum(f, S)
    BY <2>1, EnergyTypes
  <2> QED  BY <1>1, <2>1, <2>4, <2>5
<1>4. PICK S : S = InCell(h, h[i].cell)
  OBVIOUS
<1>5. S \in SUBSET DOMAIN h /\ i \in S
  BY <1>4 DEF InCell
<1>6. h[i].energy <= EnergyIn(h, S) /\ h[i].energy <= EnergyIn(h, DOMAIN h)
  BY <1>3, <1>5
<1> QED  BY <1>2, <1>4, <1>6 DEF InOne, InAll

LEMMA EnergyBounds ==
  ASSUME NEW sd, JobDetectors(sd), NEW h, NEW d, NEW q \in Seq(1 .. Energy), NEW x \in Nat,
         EventHolds(sd, h, d, q, x)
  PROVE  /\ x \in 0 .. Energy
         /\ h \in [DOMAIN d -> Seq([cell : Cells, energy : 0 .. Energy])]
         /\ DOMAIN h = DOMAIN sd
<1>1. PICK V, A, D, B, T : /\ V = DOMAIN sd /\ A = Absorbers(sd) /\ T = Total(q)
                           /\ D = Deposits(V, d) /\ B = Absorbed(A, h)
  OBVIOUS
<1>2. D \in Nat /\ B \in Nat /\ T \in Nat
  BY <1>1, SumsAreNat, TotalIsNat
<1>3. Energy = x + T + D + B
  BY <1>1 DEF EventHolds
<1>4. x <= Energy /\ D <= Energy /\ B <= Energy /\ Energy \in Nat
  BY <1>2, <1>3, EnergyAssumption
<1>5. /\ IsFiniteSet(V) /\ A \in SUBSET V /\ IsFiniteSet(A)
      /\ \A v \in V : sd[v] \in Detectors /\ (v \in A <=> sd[v] = Absorber)
      /\ h \in [V -> Seq(HitSet)] /\ d \in [V -> [Cells -> Nat]]
      /\ \A v \in V : LawHolds(sd[v], h[v], d[v])
  BY <1>1, AbsorbersLaw, KindsOfDetectors DEF JobDetectors, EventHolds
<1>6. ASSUME NEW v \in V
      PROVE  h[v] \in Seq([cell : Cells, energy : 0 .. Energy])
  <2>1. PICK g, p, dv : g = h[v] /\ p = sd[v] /\ dv = d[v]
    OBVIOUS
  <2>2. g \in Seq(HitSet) /\ p \in Detectors /\ LawHolds(p, g, dv) /\ dv \in [Cells -> Nat]
    BY <1>5, <2>1
  <2>3. ASSUME NEW i \in DOMAIN g
        PROVE  g[i] \in [cell : Cells, energy : 0 .. Energy]
    <3>1. PICK c, e : c = g[i].cell /\ e = g[i].energy
      OBVIOUS
    <3>2. c \in Cells /\ e \in Nat /\ e <= InOne(g, c) /\ e <= InAll(g)
      BY <2>2, <3>1, HitBound
    <3>3. e <= Energy
      <4>1. CASE p = Absorber
        <5>1. v \in A /\ \A w \in A : h[w] \in Seq(HitSet)
          BY <1>5, <2>1, <4>1
        <5>2. InAll(h[v]) <= B
          BY <1>1, <1>5, <5>1, AbsorbedBound
        <5>3. InAll(g) \in Nat
          BY <2>2, EnergyTypes DEF InAll
        <5> QED  BY <1>2, <1>4, <2>1, <3>2, <5>2, <5>3
      <4>2. CASE p # Absorber
        <5>1. InOne(g, c) <= dv[c]
          <6>1. CellLaw(p, g, dv[c], c) /\ dv[c] \in Nat /\ InOne(g, c) \in Nat
            BY <2>2, <3>2, InOneIsNat DEF LawHolds
          <6>2. CASE p \in Lossy
            BY <6>1, <6>2, CellLaws
          <6>3. CASE p \in Keeping \cup {Aggregate}
            <7>1. InOne(g, c) = dv[c]
              BY <6>1, <6>3, CellLaws
            <7> QED  BY <6>1, <7>1
          <6>4. Detectors = Lossy \cup Keeping \cup {Aggregate, Absorber}
            BY KindsOfDetectors, Zenon
          <6>5. p \in Lossy \/ p \in Keeping \cup {Aggregate}
            BY <2>2, <4>2, <6>4
          <6> QED  BY <6>2, <6>3, <6>5
        <5>2. d[v][c] \in Nat /\ d[v][c] <= D
          BY <1>1, <1>5, <3>2, DepositBound
        <5>3. InOne(g, c) \in Nat
          BY <2>2, InOneIsNat
        <5> QED  BY <1>2, <1>4, <2>1, <3>2, <5>1, <5>2, <5>3
      <4> QED  BY <4>1, <4>2
    <3>4. g[i] = [cell |-> c, energy |-> e]
      <4>1. g[i] \in HitSet
        BY <2>2, EnergyTypes
      <4> QED  BY <3>1, <4>1 DEF HitSet
    <3> QED  BY <1>4, <3>2, <3>3, <3>4
  <2>4. g \in Seq([cell : Cells, energy : 0 .. Energy])
    <3>1. PICK H : H = [cell : Cells, energy : 0 .. Energy]
      OBVIOUS
    <3>2. Len(g) \in Nat /\ DOMAIN g = 1 .. Len(g)
      BY <2>2, EnergyTypes
    <3>3. g = [i \in 1 .. Len(g) |-> g[i]]
      BY <2>2
    <3>4. \A i \in 1 .. Len(g) : g[i] \in H
      BY <2>3, <3>1, <3>2
    <3>5. PICK n : n = Len(g)
      OBVIOUS
    <3>6. g \in [1 .. n -> H] /\ n \in Nat
      <4>1. g = [i \in 1 .. n |-> g[i]] /\ \A i \in 1 .. n : g[i] \in H
        BY <3>3, <3>4, <3>5
      <4> QED  BY <3>2, <3>5, <4>1
    <3>7. g \in Seq(H)
      BY <3>6
    <3> QED  BY <3>1, <3>7
  <2> QED  BY <2>1, <2>4
<1>7. x \in 0 .. Energy
  BY <1>4
<1>8. DOMAIN d = V /\ DOMAIN h = V /\ h = [v \in V |-> h[v]]
  BY <1>5
<1> QED  BY <1>1, <1>6, <1>7, <1>8

-----------------------------------------------------------------------------
(* The job.                                                                *)

IInv ==
  /\ InitInv
  /\ EventInv(sdOf)
  /\ events > 0 => svc = "started"

LEMMA DetectorsOfJob ==
  ASSUME InitInv, svc = "started"
  PROVE  JobDetectors(sdOf) /\ DOMAIN sdOf = DOMAIN SensTypes
<1>1. DOMAIN sdOf = DOMAIN SensTypes /\ ToSet(sdOf) \subseteq Plugins
  BY DEF InitInv, InitTypeOK
<1>2. \A v \in DOMAIN sdOf : sdOf[v] \in Detectors
  BY <1>1, DetectorsAssumption DEF ToSet
<1> QED  BY <1>1, <1>2, DetectorsAssumption DEF JobDetectors

\* The invariant the properties of a job rest on: the regions made so far and,
\* once events are tracked, where their energy is.
THEOREM Invariance == JobSpec => []IInv
<1>1. JobInit => IInv
  <2> SUFFICES ASSUME JobInit
               PROVE  IInv
    OBVIOUS
  <2>1. InitInv
    BY InitHolds DEF JobInit
  <2>2. /\ tracks = << >> /\ hits = << >> /\ deposited = << >>
        /\ escaped = 0 /\ events = 0 /\ tracking = FALSE
    BY DEF JobInit, EventInit
  <2>3. events \in 0 .. MaxEvents /\ ~(events > 0) /\ escaped \in Nat
    BY <2>2, EnergyAssumption
  <2>4. tracks \in Seq(1 .. Energy)
    BY <2>2, EmptySeq
  <2> QED  BY <2>1, <2>2, <2>3, <2>4 DEF IInv, EventInv
<1>2. IInv /\ [JobNext]_<<initVars, eventVars>> => IInv'
  <2> SUFFICES ASSUME IInv, [JobNext]_<<initVars, eventVars>>
               PROVE  IInv'
    OBVIOUS
  <2>0. InitInv /\ EventInv(sdOf) /\ (events > 0 => svc = "started")
    BY DEF IInv
  <2>1. CASE SimInitNext /\ UNCHANGED eventVars
    <3>1. InitInv'
      BY <2>0, <2>1, InitStep
    <3>2. svc # "started"
      BY <2>1 DEF SimInitNext, RetrieveTools, InitializeGeant4, RetrieveRegions,
                  CreateRegions, Seed, Start
    <3>3. UNCHANGED <<tracks, hits, deposited, escaped, events, tracking>>
      BY <2>1 DEF eventVars
    <3>4. events \in 0 .. MaxEvents /\ events = 0 /\ ~(events > 0)
      BY <2>0, <3>2, EnergyAssumption DEF EventInv
    <3>5. EventInv(sdOf)'
      BY <2>0, <3>3, <3>4 DEF EventInv
    <3> QED  BY <3>1, <3>3, <3>4, <3>5 DEF IInv
  <2>2. CASE svc = "started" /\ config \in Tracked /\ EventNext(sdOf) /\ UNCHANGED initVars
    <3>1. InitInv'
      BY <2>0, <2>2, InitUnchanged
    <3>2. PICK s : s = sdOf
      OBVIOUS
    <3>3. sdOf' = s /\ svc' = "started"
      BY <2>2, <3>2 DEF initVars
    <3>4. JobDetectors(s) /\ EventInv(s) /\ EventNext(s)
      BY <2>0, <2>2, <3>2, DetectorsOfJob
    <3>5. EventInv(s)' /\ (events > 0)'
      BY <3>4, EventStep
    <3>6. EventInv(sdOf)'
      BY <3>3, <3>5 DEF EventInv
    <3> QED  BY <3>1, <3>3, <3>6 DEF IInv
  <2>3. CASE UNCHANGED <<initVars, eventVars>>
    <3>1. InitInv'
      BY <2>0, <2>3, InitUnchanged
    <3>2. UNCHANGED <<svc, config, sdOf, at, made, limited>>
          /\ UNCHANGED <<tracks, hits, deposited, escaped, events, tracking>>
      BY <2>3 DEF initVars, eventVars
    <3>3. EventInv(sdOf)'
      BY <2>0, <3>2 DEF EventInv
    <3> QED  BY <2>0, <3>1, <3>2, <3>3 DEF IInv
  <2> QED  BY <2>1, <2>2, <2>3 DEF JobNext
<1> QED  BY <1>1, <1>2, PTL DEF JobSpec

\* The detectors of a job are those that can be created, one with a collection
\* for every sensitive volume, and no hit, track or loss is above the energy the
\* event began with.
THEOREM TypeCorrect == JobSpec => []TypeOK
<1>1. IInv => TypeOK
  <2> SUFFICES ASSUME IInv
               PROVE  TypeOK
    OBVIOUS
  <2>0. InitInv /\ EventInv(sdOf) /\ (events > 0 => svc = "started")
    BY DEF IInv
  <2>1. InitTypeOK
    BY <2>0 DEF InitInv
  <2>2. /\ tracks \in Seq(1 .. Energy) /\ escaped \in Nat
        /\ events \in 0 .. MaxEvents /\ tracking \in BOOLEAN
    BY <2>0 DEF EventInv
  <2>3. CASE events = 0
    <3>1. hits = << >> /\ deposited = << >> /\ escaped = 0
      BY <2>0, <2>3 DEF EventInv
    <3>2. PICK H : H = Seq([cell : Cells, energy : 0 .. Energy])
      OBVIOUS
    <3>3. << >> \in [DOMAIN << >> -> H]
      OBVIOUS
    <3>4. 0 \in 0 .. Energy /\ ~(events > 0)
      BY <2>3, EnergyAssumption
    <3> QED  BY <2>1, <2>2, <3>1, <3>2, <3>3, <3>4 DEF TypeOK
  <2>4. CASE events # 0
    <3>1. events > 0
      BY <2>2, <2>4, EnergyAssumption
    <3>2. EventHolds(sdOf, hits, deposited, tracks, escaped)
      BY <2>0, <3>1 DEF EventInv
    <3>3. JobDetectors(sdOf) /\ DOMAIN sdOf = DOMAIN SensTypes
      BY <2>0, <3>1, DetectorsOfJob
    <3>4. PICK s, h, d, q, x : /\ s = sdOf /\ h = hits /\ d = deposited
                               /\ q = tracks /\ x = escaped
      OBVIOUS
    <3>5. /\ JobDetectors(s) /\ EventHolds(s, h, d, q, x)
          /\ q \in Seq(1 .. Energy) /\ x \in Nat
      BY <2>2, <3>2, <3>3, <3>4
    <3>6. /\ x \in 0 .. Energy /\ DOMAIN h = DOMAIN s
          /\ h \in [DOMAIN d -> Seq([cell : Cells, energy : 0 .. Energy])]
      BY <3>5, EnergyBounds
    <3> QED  BY <2>0, <2>1, <2>2, <3>1, <3>3, <3>4, <3>6 DEF TypeOK
  <2> QED  BY <2>3, <2>4
<1> QED  BY <1>1, Invariance, PTL

\* The volumes of a job that has started are under the last tool that names
\* them, whatever the job options and the names of the volumes.
THEOREM LimitsHold == JobSpec => []LimitsInForce
<1>1. IInv => LimitsInForce
  BY InitImpliesLimits DEF IInv
<1> QED  BY <1>1, Invariance, PTL

\* A collection holds what was deposited in its volume in this event.
THEOREM CellSums == JobSpec => []SumsInCells
<1>1. IInv => SumsInCells
  <2> SUFFICES ASSUME IInv, NEW v \in DOMAIN hits, NEW c \in Cells
               PROVE  CellLaw(sdOf[v], hits[v], deposited[v][c], c)
    BY DEF SumsInCells, CellsHoldSum, CellLaw, InOne
  <2>0. EventInv(sdOf)
    BY DEF IInv
  <2>1. events \in 0 .. MaxEvents
    BY <2>0 DEF EventInv
  <2>2. events # 0
    <3>1. hits # << >>
      OBVIOUS
    <3> QED  BY <2>0, <3>1 DEF EventInv
  <2>3. events > 0
    BY <2>1, <2>2, EnergyAssumption
  <2>4. EventHolds(sdOf, hits, deposited, tracks, escaped)
    BY <2>0, <2>3 DEF EventInv
  <2>5. v \in DOMAIN sdOf
    BY <2>4 DEF EventHolds
  <2> QED  BY <2>4, <2>5 DEF EventHolds, LawHolds
<1> QED  BY <1>1, Invariance, PTL

\* What an absorbing detector takes is counted once: the energies of an event
\* add up to the one it began with.
THEOREM EnergyOnce == JobSpec => []NoDoubleCounting
<1>1. IInv => NoDoubleCounting
  <2> SUFFICES ASSUME IInv, tracking
               PROVE  Energy = escaped + SumFunction(tracks)
                        + SumFunction([v \in DOMAIN sdOf |-> SumFunctionOnSet(deposited[v], Cells)])
                        + SumFunction([v \in Absorbers(sdOf) |-> EnergyIn(hits[v], DOMAIN hits[v])])
    BY DEF NoDoubleCounting, EnergyBalance, Absorbers, Absorber
  <2>1. /\ EventHolds(sdOf, hits, deposited, tracks, escaped)
        /\ tracks \in Seq(1 .. Energy)
    BY EventInvOf DEF IInv
  <2>2. SumFunction(tracks) = Total(tracks)
    BY DEF Total, Sum, SumFunction
  <2>3. SumFunction([v \in DOMAIN sdOf |-> SumFunctionOnSet(deposited[v], Cells)])
          = Deposits(DOMAIN sdOf, deposited)
    BY DEF Deposits, DepositSums, Sum, SumFunction
  <2>4. SumFunction([v \in Absorbers(sdOf) |-> EnergyIn(hits[v], DOMAIN hits[v])])
          = Absorbed(Absorbers(sdOf), hits)
    BY DEF Absorbed, AbsorbedSums, InAll, Sum, SumFunction
  <2> QED  BY <2>1, <2>2, <2>3, <2>4 DEF EventHolds
<1> QED  BY <1>1, Invariance, PTL
=============================================================================
