----------------------------- MODULE SumTheorems -----------------------------
(***************************************************************************)
(* Sums over finite sets, for the proofs of the modules that state what a  *)
(* collection adds up to, with what several proofs need of induction and   *)
(* of division.  Sum(f, S) is SumFunctionOnSet of the community modules,   *)
(* which adds the values of f in an arbitrary order.                       *)
(*                                                                         *)
(* The induction theorems of the library take a predicate; the ones below  *)
(* take the set of the values for which it holds, which every prover can   *)
(* instantiate.  They follow from the well-founded orderings of the        *)
(* library: a set that is not everything has a least exception.            *)
(***************************************************************************)
EXTENDS Functions, FiniteSets, FiniteSetTheorems, WellFoundedInduction, TLAPS

Sum(f, S) == SumFunctionOnSet(f, S)

-----------------------------------------------------------------------------
(* Induction.                                                              *)

\* What holds for a set when it holds for its proper subsets.
LEMMA SubsetStrongInduction ==
  ASSUME NEW S, IsFiniteSet(S), NEW Good,
         \A T \in SUBSET S : (\A U \in SUBSET T : U # T => U \in Good) => T \in Good
  PROVE  \A T \in SUBSET S : T \in Good
<1> SUFFICES ASSUME NEW W \in SUBSET S, W \notin Good
             PROVE  FALSE
  OBVIOUS
<1> DEFINE Bad == (SUBSET S) \ Good
<1>1. IsWellFoundedOn(StrictSubsetOrdering(S), SUBSET S)
  <2>1. FiniteSubsetsOf(S) = SUBSET S
    BY FS_FiniteSubsetsOfFinite
  <2>2. IsWellFoundedOn(StrictSubsetOrdering(S), FiniteSubsetsOf(S))
    BY FS_StrictSubsetOrderingWellFounded
  <2> QED  BY <2>1, <2>2
<1>2. Bad \subseteq SUBSET S /\ Bad # {}
  OBVIOUS
<1>3. PICK T \in Bad : \A U \in Bad : ~ (<<U, T>> \in StrictSubsetOrdering(S))
  <2> HIDE DEF Bad
  <2> QED  BY <1>1, <1>2, WFMin
<1>4. PICK U \in SUBSET T : U # T /\ U \notin Good
  OBVIOUS
<1>5. <<U, T>> \in StrictSubsetOrdering(S)
  BY <1>4 DEF StrictSubsetOrdering
<1> QED  BY <1>3, <1>4, <1>5

\* What holds for the empty set and for each set with one element more.
LEMMA SubsetInduction ==
  ASSUME NEW S, IsFiniteSet(S), NEW Good, {} \in Good,
         \A T \in SUBSET S : T \in Good => \A x \in S \ T : T \cup {x} \in Good
  PROVE  S \in Good
<1>1. ASSUME NEW T \in SUBSET S, \A U \in SUBSET T : U # T => U \in Good
      PROVE  T \in Good
  <2>1. CASE T = {}
    BY <2>1
  <2>2. CASE T # {}
    <3>1. PICK x : x \in T
      BY <2>2
    <3>2. T \ {x} \in SUBSET T /\ T \ {x} # T /\ T \ {x} \in SUBSET S
          /\ x \in S \ (T \ {x}) /\ (T \ {x}) \cup {x} = T
      BY <3>1
    <3>3. T \ {x} \in Good
      BY <1>1, <3>2
    <3>4. (T \ {x}) \cup {x} \in Good
      BY <3>2, <3>3
    <3> QED  BY <3>2, <3>4
  <2> QED  BY <2>1, <2>2
<1> QED  BY <1>1, SubsetStrongInduction

\* The same for the natural numbers.
LEMMA NaturalInduction ==
  ASSUME NEW Good, 0 \in Good, \A n \in Nat : n \in Good => n + 1 \in Good
  PROVE  \A n \in Nat : n \in Good
<1> SUFFICES ASSUME NEW n \in Nat, n \notin Good
             PROVE  FALSE
  OBVIOUS
<1> DEFINE Bad  == Nat \ Good
           Less == OpToRel(<, Nat)
<1>1. Bad \subseteq Nat /\ Bad # {}
  OBVIOUS
<1>2. PICK m \in Bad : \A k \in Bad : ~ (<<k, m>> \in Less)
  <2> HIDE DEF Bad
  <2> QED  BY <1>1, WFMin, NatLessThanWellFounded
<1>3. m \in Nat /\ m # 0 /\ m - 1 \in Nat /\ (m - 1) + 1 = m
  OBVIOUS
<1>4. <<m - 1, m>> \in Less
  BY <1>3 DEF OpToRel
<1>5. m - 1 \in Good
  BY <1>2, <1>3, <1>4
<1> QED  BY <1>3, <1>5

\* The values of a function on a finite set.
LEMMA ImageIsFinite ==
  ASSUME NEW S, IsFiniteSet(S), NEW f
  PROVE  IsFiniteSet({f[x] : x \in S})
<1> DEFINE Good == {T \in SUBSET S : IsFiniteSet({f[x] : x \in T})}
<1>1. {} \in Good
  <2>1. {f[x] : x \in {}} = {}
    OBVIOUS
  <2> QED  BY <2>1, FS_EmptySet
<1>2. ASSUME NEW T \in SUBSET S, T \in Good, NEW x \in S \ T
      PROVE  T \cup {x} \in Good
  <2>1. {f[y] : y \in T \cup {x}} = {f[y] : y \in T} \cup {f[x]}
    OBVIOUS
  <2>2. IsFiniteSet({f[y] : y \in T} \cup {f[x]})
    BY <1>2, FS_AddElement
  <2> QED  BY <2>1, <2>2
<1>3. S \in Good
  <2> HIDE DEF Good
  <2> QED  BY <1>1, <1>2, SubsetInduction
<1> QED  BY <1>3

-----------------------------------------------------------------------------
(* Division, which rounds down.                                            *)

LEMMA FloorLaw ==
  ASSUME NEW a \in Int, NEW s \in Nat \ {0}
  PROVE  /\ a \div s \in Int
         /\ s * (a \div s) <= a
         /\ a < s * (a \div s) + s
  BY Z3

\* A multiple of s is at most c and less than s below it for one factor only.
LEMMA Squeezed ==
  ASSUME NEW s \in Nat \ {0}, NEW c \in Int, NEW q \in Int, NEW r \in Int,
         s * q <= c, c < s * q + s, s * r <= c, c < s * r + s
  PROVE  q = r
<1>1. s * (q - r) = s * q - s * r
  BY Z3
<1>2. s * (q - r) < s /\ -s < s * (q - r)
  BY <1>1, s * q \in Int, s * r \in Int
<1>3. ASSUME NEW k \in Int, k >= 1  PROVE s * k >= s /\ s * (-k) <= -s
  BY <1>3, Z3
<1> DEFINE k == q - r
<1>4. k \in Int /\ s * k < s /\ -s < s * k
  BY <1>2
<1> HIDE DEF k
<1>5. ~ (k >= 1)  BY <1>3, <1>4, s * k \in Int
<1>6. ~ (k <= -1)
  <2> SUFFICES ASSUME k <= -1  PROVE FALSE  OBVIOUS
  <2>1. s * (-(-k)) <= -s  BY <1>3, <1>4
  <2>2. -(-k) = k  BY <1>4
  <2> QED  BY <1>4, <2>1, <2>2, s * k \in Int
<1>7. k = 0  BY <1>4, <1>5, <1>6
<1> QED  BY <1>7 DEF k

-----------------------------------------------------------------------------
(* The function that SumFunctionOnSet defines by recursion exists.         *)

Some(s)        == CHOOSE x \in s : TRUE
Added(f, g, s) == IF s = {} THEN 0 ELSE f[Some(s)] + g[s \ {Some(s)}]

\* g has the partial sums for all subsets of T.
IsSums(f, g, T) == g = [s \in SUBSET T |-> Added(f, g, s)]

LEMMA SumIsChosen ==
  ASSUME NEW f, NEW S
  PROVE  Sum(f, S) = (CHOOSE g : IsSums(f, g, S))[S]
BY DEF Sum, SumFunctionOnSet, FoldFunctionOnSet, MapThenFoldSet, IsSums, Added, Some

LEMMA SomeRemoved ==
  ASSUME NEW S, S # {}
  PROVE  /\ Some(S) \in S
         /\ S \ {Some(S)} \in SUBSET S /\ S \ {Some(S)} # S
  BY DEF Some

\* Two such functions agree.
LEMMA SumsAgree ==
  ASSUME NEW f, NEW g, NEW h, NEW S, NEW T, IsFiniteSet(S),
         IsSums(f, g, S), IsSums(f, h, T), S \subseteq T
  PROVE  \A U \in SUBSET S : g[U] = h[U]
<1> DEFINE Good == {U \in SUBSET S : g[U] = h[U]}
<1>1. \A U \in SUBSET S : g[U] = Added(f, g, U) /\ h[U] = Added(f, h, U)
  <2>1. \A U \in SUBSET S : g[U] = Added(f, g, U)
    BY DEF IsSums
  <2>2. \A U \in SUBSET T : h[U] = Added(f, h, U)
    BY DEF IsSums
  <2> QED  BY <2>1, <2>2
<1>2. ASSUME NEW U \in SUBSET S, \A V \in SUBSET U : V # U => V \in Good
      PROVE  g[U] = h[U]
  <2>1. CASE U = {}
    BY <1>1, <2>1 DEF Added
  <2>2. CASE U # {}
    <3>1. U \ {Some(U)} \in Good
      BY <1>2, <2>2, SomeRemoved
    <3>2. g[U \ {Some(U)}] = h[U \ {Some(U)}]
      BY <3>1
    <3> QED  BY <1>1, <2>2, <3>2 DEF Added
  <2> QED  BY <2>1, <2>2
<1>3. \A U \in SUBSET S : U \in Good
  <2>1. \A U \in SUBSET S : (\A V \in SUBSET U : V # U => V \in Good) => U \in Good
    BY <1>2
  <2> HIDE DEF Good
  <2> QED  BY <2>1, SubsetStrongInduction
<1> QED  BY <1>3

\* One exists for each finite set.
LEMMA SumsExist ==
  ASSUME NEW f, NEW S, IsFiniteSet(S)
  PROVE  \E g : IsSums(f, g, S)
<1> DEFINE Good  == {T \in SUBSET S : \E g : IsSums(f, g, T)}
           At(T) == CHOOSE g : IsSums(f, g, T)
<1>1. ASSUME NEW T \in SUBSET S, \A U \in SUBSET T : U # T => U \in Good
      PROVE  \E g : IsSums(f, g, T)
  <2> DEFINE h == [s \in SUBSET T |-> Added(f, At(s \ {Some(s)}), s)]
  <2>1. \A U \in SUBSET T : U # T => IsSums(f, At(U), U)
    BY <1>1
  <2>2. ASSUME NEW U \in SUBSET T, U # T
        PROVE  At(U)[U] = h[U]
    <3>1. At(U)[U] = Added(f, At(U), U)
      BY <2>1, <2>2 DEF IsSums
    <3>2. CASE U = {}
      BY <3>1, <3>2 DEF Added
    <3>3. CASE U # {}
      <4> DEFINE V == U \ {Some(U)}
      <4>1. V \in SUBSET U /\ V \in SUBSET T /\ V # T
        BY <3>3, SomeRemoved
      <4>2. IsSums(f, At(V), V) /\ IsSums(f, At(U), U) /\ IsFiniteSet(V)
        <5>1. IsFiniteSet(V)
          BY <4>1, FS_Subset
        <5> QED  BY <2>1, <2>2, <4>1, <5>1
      <4>3. At(V)[V] = At(U)[V]
        <5> HIDE DEF V, At
        <5> QED  BY <4>1, <4>2, SumsAgree
      <4> QED  BY <3>1, <3>3, <4>3 DEF Added
    <3> QED  BY <3>2, <3>3
  <2>3. IsSums(f, h, T)
    <3> SUFFICES ASSUME NEW U \in SUBSET T
                 PROVE  Added(f, At(U \ {Some(U)}), U) = Added(f, h, U)
      BY DEF IsSums
    <3>1. CASE U = {}
      BY <3>1 DEF Added
    <3>2. CASE U # {}
      <4> DEFINE V == U \ {Some(U)}
      <4>1. V \in SUBSET T /\ V # T
        BY <3>2, SomeRemoved
      <4>2. At(V)[V] = h[V]
        BY <2>2, <4>1
      <4> QED  BY <3>2, <4>2 DEF Added
    <3> QED  BY <3>1, <3>2
  <2> QED  BY <2>3
<1>2. S \in Good
  <2>1. \A T \in SUBSET S : (\A U \in SUBSET T : U # T => U \in Good) => T \in Good
    BY <1>1
  <2> HIDE DEF Good
  <2> QED  BY <2>1, SubsetStrongInduction
<1> QED  BY <1>2

LEMMA SumRecursion ==
  ASSUME NEW f, NEW S, IsFiniteSet(S), S # {}
  PROVE  Sum(f, S) = f[Some(S)] + Sum(f, S \ {Some(S)})
<1> DEFINE At(T) == CHOOSE g : IsSums(f, g, T)
           V     == S \ {Some(S)}
<1>1. IsFiniteSet(V) /\ V \in SUBSET S
  BY FS_Subset
<1>2. IsSums(f, At(S), S) /\ IsSums(f, At(V), V)
  <2> HIDE DEF V
  <2> QED  BY <1>1, SumsExist
<1>3. At(V)[V] = At(S)[V]
  <2> HIDE DEF V, At
  <2> QED  BY <1>1, <1>2, SumsAgree
<1>4. At(S)[S] = f[Some(S)] + At(S)[V]
  BY <1>2 DEF IsSums, Added
<1> QED  BY <1>3, <1>4, SumIsChosen

\* The sum over no element.
LEMMA SumEmpty ==
  ASSUME NEW f
  PROVE  Sum(f, {}) = 0
<1> DEFINE g == CHOOSE h : IsSums(f, h, {})
<1>1. IsSums(f, g, {})
  BY SumsExist, FS_EmptySet
<1>2. g[{}] = 0
  BY <1>1 DEF IsSums, Added
<1> QED  BY <1>2, SumIsChosen

-----------------------------------------------------------------------------
(* Laws.  f is a function that has integers as its values on S.            *)

IntegersOn(f, S) == \A x \in S : f[x] \in Int

LEMMA SumIsInt ==
  ASSUME NEW f, NEW S, IsFiniteSet(S), IntegersOn(f, S)
  PROVE  Sum(f, S) \in Int
<1> DEFINE Good == {T \in SUBSET S : Sum(f, T) \in Int}
<1>1. ASSUME NEW T \in SUBSET S, \A U \in SUBSET T : U # T => U \in Good
      PROVE  Sum(f, T) \in Int
  <2>1. CASE T = {}
    BY <2>1, SumEmpty
  <2>2. CASE T # {}
    <3>1. T \ {Some(T)} \in Good /\ Some(T) \in S
      BY <1>1, <2>2, SomeRemoved
    <3>2. Sum(f, T \ {Some(T)}) \in Int /\ f[Some(T)] \in Int
      BY <3>1 DEF IntegersOn
    <3>3. IsFiniteSet(T)
      BY FS_Subset
    <3>4. Sum(f, T) = f[Some(T)] + Sum(f, T \ {Some(T)})
      BY <2>2, <3>3, SumRecursion
    <3> QED  BY <3>2, <3>4
  <2> QED  BY <2>1, <2>2
<1>2. S \in Good
  <2>1. \A T \in SUBSET S : (\A U \in SUBSET T : U # T => U \in Good) => T \in Good
    BY <1>1
  <2> HIDE DEF Good
  <2> QED  BY <2>1, SubsetStrongInduction
<1> QED  BY <1>2

LEMMA Exchange ==
  ASSUME NEW a \in Int, NEW b \in Int, NEW c \in Int
  PROVE  a + (b + c) = b + (a + c)
OBVIOUS

\* Any element may be taken out first.
LEMMA SumRemove ==
  ASSUME NEW f, NEW S, IsFiniteSet(S), IntegersOn(f, S), NEW y \in S
  PROVE  Sum(f, S) = f[y] + Sum(f, S \ {y})
<1> DEFINE Good == {T \in SUBSET S : \A x \in T : Sum(f, T) = f[x] + Sum(f, T \ {x})}
<1>1. ASSUME NEW T \in SUBSET S, \A U \in SUBSET T : U # T => U \in Good, NEW x \in T
      PROVE  Sum(f, T) = f[x] + Sum(f, T \ {x})
  <2> DEFINE z == Some(T)
             V == T \ {x}
             W == T \ {z}
             R == V \ {z}
  <2>1. z \in T /\ z \in S /\ x \in S
    BY SomeRemoved
  <2>2. IsFiniteSet(T) /\ IsFiniteSet(V) /\ IsFiniteSet(W) /\ IsFiniteSet(R)
    BY FS_Subset
  <2>3. Sum(f, T) = f[z] + Sum(f, W)
    BY <2>1, <2>2, SumRecursion
  <2>4. CASE x = z
    BY <2>3, <2>4
  <2>5. CASE x # z
    <3>1. V \in Good /\ W \in Good
      BY <1>1, <2>1
    <3>2. x \in W /\ z \in V /\ W \ {x} = R
      BY <2>1, <2>5
    <3>3. Sum(f, V) = f[z] + Sum(f, R) /\ Sum(f, W) = f[x] + Sum(f, R)
      BY <3>1, <3>2
    <3>4. f[x] \in Int /\ f[z] \in Int
      BY <2>1 DEF IntegersOn
    <3>5. Sum(f, R) \in Int
      <4>1. IntegersOn(f, R)
        BY DEF IntegersOn
      <4> HIDE DEF R
      <4> QED  BY <2>2, <4>1, SumIsInt
    <3> HIDE DEF z, V, W, R
    <3>6. f[z] + (f[x] + Sum(f, R)) = f[x] + (f[z] + Sum(f, R))
      BY <3>4, <3>5, Exchange
    <3> QED  BY <2>3, <3>3, <3>6 DEF V
  <2> QED  BY <2>4, <2>5
<1>2. S \in Good
  <2>1. \A T \in SUBSET S : (\A U \in SUBSET T : U # T => U \in Good) => T \in Good
    BY <1>1
  <2> HIDE DEF Good
  <2> QED  BY <2>1, SubsetStrongInduction
<1> QED  BY <1>2

LEMMA SumAdd ==
  ASSUME NEW f, NEW S, IsFiniteSet(S), IntegersOn(f, S), NEW y, y \notin S, f[y] \in Int
  PROVE  Sum(f, S \cup {y}) = f[y] + Sum(f, S)
<1> DEFINE T == S \cup {y}
<1>1. IsFiniteSet(T) /\ y \in T /\ T \ {y} = S /\ IntegersOn(f, T)
  BY FS_AddElement DEF IntegersOn
<1> HIDE DEF T
<1>2. Sum(f, T) = f[y] + Sum(f, T \ {y})
  BY <1>1, SumRemove
<1> QED  BY <1>1, <1>2 DEF T

LEMMA SumSingle ==
  ASSUME NEW f, NEW y, f[y] \in Int
  PROVE  Sum(f, {y}) = f[y]
<1>1. IsFiniteSet({}) /\ IntegersOn(f, {}) /\ {} \cup {y} = {y}
  BY FS_EmptySet DEF IntegersOn
<1>2. Sum(f, {} \cup {y}) = f[y] + Sum(f, {})
  BY <1>1, SumAdd
<1> QED  BY <1>1, <1>2, SumEmpty

\* Functions that agree on S have the same sum.
LEMMA SumEqual ==
  ASSUME NEW f, NEW g, NEW S, IsFiniteSet(S), \A x \in S : f[x] = g[x]
  PROVE  Sum(f, S) = Sum(g, S)
<1> DEFINE Good == {T \in SUBSET S : Sum(f, T) = Sum(g, T)}
<1>1. ASSUME NEW T \in SUBSET S, \A U \in SUBSET T : U # T => U \in Good
      PROVE  Sum(f, T) = Sum(g, T)
  <2>1. CASE T = {}
    BY <2>1, SumEmpty
  <2>2. CASE T # {}
    <3>1. T \ {Some(T)} \in Good /\ Some(T) \in S
      BY <1>1, <2>2, SomeRemoved
    <3>2. Sum(f, T \ {Some(T)}) = Sum(g, T \ {Some(T)}) /\ f[Some(T)] = g[Some(T)]
      BY <3>1
    <3>3. IsFiniteSet(T)
      BY FS_Subset
    <3>4. /\ Sum(f, T) = f[Some(T)] + Sum(f, T \ {Some(T)})
          /\ Sum(g, T) = g[Some(T)] + Sum(g, T \ {Some(T)})
      BY <2>2, <3>3, SumRecursion
    <3> QED  BY <3>2, <3>4
  <2> QED  BY <2>1, <2>2
<1>2. S \in Good
  <2>1. \A T \in SUBSET S : (\A U \in SUBSET T : U # T => U \in Good) => T \in Good
    BY <1>1
  <2> HIDE DEF Good
  <2> QED  BY <2>1, SubsetStrongInduction
<1> QED  BY <1>2

-----------------------------------------------------------------------------
(* A law that goes through one element at a time.  Each of the following   *)
(* has the sums of the sets for which it holds as its Good.                *)

LEMMA SumStep ==
  ASSUME NEW f, NEW S, IsFiniteSet(S), IntegersOn(f, S), NEW T \in SUBSET S, NEW x \in S \ T
  PROVE  /\ Sum(f, T \cup {x}) = f[x] + Sum(f, T)
         /\ f[x] \in Int /\ Sum(f, T) \in Int
         /\ IsFiniteSet(T) /\ IsFiniteSet(T \cup {x})
<1>1. IsFiniteSet(T) /\ IntegersOn(f, T) /\ f[x] \in Int /\ x \notin T
  BY FS_Subset DEF IntegersOn
<1>2. IsFiniteSet(T \cup {x})
  BY <1>1, FS_AddElement
<1>3. Sum(f, T \cup {x}) = f[x] + Sum(f, T)
  BY <1>1, SumAdd
<1> QED  BY <1>1, <1>2, <1>3, SumIsInt

LEMMA AtMostStep ==
  ASSUME NEW a \in Int, NEW b \in Int, NEW c \in Int, NEW d \in Int, a <= c, b <= d
  PROVE  a + b <= c + d
OBVIOUS

LEMMA SumAtMost ==
  ASSUME NEW f, NEW g, NEW S, IsFiniteSet(S), IntegersOn(f, S), IntegersOn(g, S),
         \A x \in S : f[x] <= g[x]
  PROVE  Sum(f, S) <= Sum(g, S)
<1> DEFINE Good == {T \in SUBSET S : Sum(f, T) <= Sum(g, T)}
<1>1. {} \in Good
  BY SumEmpty
<1>2. ASSUME NEW T \in SUBSET S, T \in Good, NEW x \in S \ T
      PROVE  T \cup {x} \in Good
  <2>1. Sum(f, T) <= Sum(g, T) /\ f[x] <= g[x]
    BY <1>2
  <2>2. /\ Sum(f, T \cup {x}) = f[x] + Sum(f, T) /\ f[x] \in Int /\ Sum(f, T) \in Int
        /\ Sum(g, T \cup {x}) = g[x] + Sum(g, T) /\ g[x] \in Int /\ Sum(g, T) \in Int
    BY SumStep
  <2>3. Sum(f, T \cup {x}) <= Sum(g, T \cup {x})
    BY <2>1, <2>2, AtMostStep
  <2> QED  BY <2>3
<1>3. S \in Good
  <2> HIDE DEF Good
  <2> QED  BY <1>1, <1>2, SubsetInduction
<1> QED  BY <1>3

LEMMA SumZero ==
  ASSUME NEW f, NEW S, IsFiniteSet(S), \A x \in S : f[x] = 0
  PROVE  Sum(f, S) = 0
<1> DEFINE Good == {T \in SUBSET S : Sum(f, T) = 0}
<1>1. {} \in Good
  BY SumEmpty
<1>2. ASSUME NEW T \in SUBSET S, T \in Good, NEW x \in S \ T
      PROVE  T \cup {x} \in Good
  <2>1. IntegersOn(f, S)
    BY DEF IntegersOn
  <2>2. Sum(f, T \cup {x}) = f[x] + Sum(f, T)
    BY <2>1, SumStep
  <2> QED  BY <1>2, <2>2
<1>3. S \in Good
  <2> HIDE DEF Good
  <2> QED  BY <1>1, <1>2, SubsetInduction
<1> QED  BY <1>3

LEMMA SumIsNat ==
  ASSUME NEW f, NEW S, IsFiniteSet(S), \A x \in S : f[x] \in Nat
  PROVE  Sum(f, S) \in Nat /\ IntegersOn(f, S)
<1> DEFINE Good == {T \in SUBSET S : Sum(f, T) \in Nat}
<1>0. IntegersOn(f, S)
  BY DEF IntegersOn
<1>1. {} \in Good
  BY SumEmpty
<1>2. ASSUME NEW T \in SUBSET S, T \in Good, NEW x \in S \ T
      PROVE  T \cup {x} \in Good
  <2>1. Sum(f, T \cup {x}) = f[x] + Sum(f, T)
    BY <1>0, SumStep
  <2>2. Sum(f, T) \in Nat /\ f[x] \in Nat
    BY <1>2
  <2> QED  BY <2>1, <2>2
<1>3. S \in Good
  <2> HIDE DEF Good
  <2> QED  BY <1>1, <1>2, SubsetInduction
<1> QED  BY <1>0, <1>3

LEMMA PlusStep ==
  ASSUME NEW a \in Int, NEW b \in Int, NEW c \in Int, NEW d \in Int
  PROVE  (a + b) + (c + d) = (a + c) + (b + d)
OBVIOUS

\* The sum of a sum.
LEMMA SumPlus ==
  ASSUME NEW f, NEW g, NEW h, NEW S, IsFiniteSet(S), IntegersOn(f, S), IntegersOn(g, S),
         \A x \in S : h[x] = f[x] + g[x]
  PROVE  Sum(h, S) = Sum(f, S) + Sum(g, S)
<1> DEFINE Good == {T \in SUBSET S : Sum(h, T) = Sum(f, T) + Sum(g, T)}
<1>0. IntegersOn(h, S)
  BY DEF IntegersOn
<1>1. {} \in Good
  BY SumEmpty
<1>2. ASSUME NEW T \in SUBSET S, T \in Good, NEW x \in S \ T
      PROVE  T \cup {x} \in Good
  <2>1. Sum(h, T) = Sum(f, T) + Sum(g, T) /\ h[x] = f[x] + g[x]
    BY <1>2
  <2>2. /\ Sum(f, T \cup {x}) = f[x] + Sum(f, T) /\ f[x] \in Int /\ Sum(f, T) \in Int
        /\ Sum(g, T \cup {x}) = g[x] + Sum(g, T) /\ g[x] \in Int /\ Sum(g, T) \in Int
        /\ Sum(h, T \cup {x}) = h[x] + Sum(h, T)
    BY <1>0, SumStep
  <2>3. Sum(h, T \cup {x}) = Sum(f, T \cup {x}) + Sum(g, T \cup {x})
    BY <2>1, <2>2, PlusStep
  <2> QED  BY <2>3
<1>3. S \in Good
  <2> HIDE DEF Good
  <2> QED  BY <1>1, <1>2, SubsetInduction
<1> QED  BY <1>3

LEMMA TimesStep ==
  ASSUME NEW a \in Int, NEW b \in Int, NEW c \in Int
  PROVE  a * c + b * c = (a + b) * c
OBVIOUS

\* A common factor.
LEMMA SumTimes ==
  ASSUME NEW f, NEW g, NEW c \in Int, NEW S, IsFiniteSet(S), IntegersOn(f, S),
         \A x \in S : g[x] = f[x] * c
  PROVE  Sum(g, S) = Sum(f, S) * c
<1> DEFINE Good == {T \in SUBSET S : Sum(g, T) = Sum(f, T) * c}
<1>0. IntegersOn(g, S)
  BY DEF IntegersOn
<1>1. {} \in Good
  <2>1. 0 * c = 0
    OBVIOUS
  <2> QED  BY <2>1, SumEmpty
<1>2. ASSUME NEW T \in SUBSET S, T \in Good, NEW x \in S \ T
      PROVE  T \cup {x} \in Good
  <2>1. Sum(g, T) = Sum(f, T) * c /\ g[x] = f[x] * c
    BY <1>2
  <2>2. /\ Sum(f, T \cup {x}) = f[x] + Sum(f, T) /\ f[x] \in Int /\ Sum(f, T) \in Int
        /\ Sum(g, T \cup {x}) = g[x] + Sum(g, T)
    BY <1>0, SumStep
  <2>3. Sum(g, T \cup {x}) = Sum(f, T \cup {x}) * c
    BY <2>1, <2>2, TimesStep
  <2> QED  BY <2>3
<1>3. S \in Good
  <2> HIDE DEF Good
  <2> QED  BY <1>1, <1>2, SubsetInduction
<1> QED  BY <1>3

LEMMA Associate ==
  ASSUME NEW a \in Int, NEW b \in Int, NEW c \in Int
  PROVE  a + (b + c) = (a + b) + c
OBVIOUS

\* Two sets without common element.
LEMMA SumUnion ==
  ASSUME NEW f, NEW S, NEW R, IsFiniteSet(S), IsFiniteSet(R), S \cap R = {},
         IntegersOn(f, S), IntegersOn(f, R)
  PROVE  Sum(f, S \cup R) = Sum(f, S) + Sum(f, R)
<1> DEFINE Good == {T \in SUBSET S : Sum(f, T \cup R) = Sum(f, T) + Sum(f, R)}
<1>0. Sum(f, R) \in Int
  BY SumIsInt
<1>1. {} \in Good
  BY <1>0, SumEmpty
<1>2. ASSUME NEW T \in SUBSET S, T \in Good, NEW x \in S \ T
      PROVE  T \cup {x} \in Good
  <2>1. Sum(f, T \cup R) = Sum(f, T) + Sum(f, R)
    BY <1>2
  <2>2. /\ Sum(f, T \cup {x}) = f[x] + Sum(f, T) /\ f[x] \in Int /\ Sum(f, T) \in Int
        /\ IsFiniteSet(T)
    BY SumStep
  <2>3. IsFiniteSet(T \cup R) /\ IntegersOn(f, T \cup R) /\ x \notin T \cup R
    BY <2>2, FS_Union DEF IntegersOn
  <2>4. Sum(f, (T \cup R) \cup {x}) = f[x] + Sum(f, T \cup R)
    BY <2>2, <2>3, SumAdd
  <2>5. (T \cup R) \cup {x} = (T \cup {x}) \cup R
    OBVIOUS
  <2>6. f[x] + (Sum(f, T) + Sum(f, R)) = (f[x] + Sum(f, T)) + Sum(f, R)
    BY <1>0, <2>2, Associate
  <2>7. Sum(f, (T \cup {x}) \cup R) = Sum(f, T \cup {x}) + Sum(f, R)
    BY <2>1, <2>2, <2>4, <2>5, <2>6
  <2> QED  BY <2>7
<1>3. S \in Good
  <2> HIDE DEF Good
  <2> QED  BY <1>1, <1>2, SubsetInduction
<1> QED  BY <1>3

\* Adding the sums of the classes that h makes of S gives the whole sum.
LEMMA SumByClass ==
  ASSUME NEW f, NEW S, IsFiniteSet(S), IntegersOn(f, S), NEW h, NEW C, IsFiniteSet(C),
         \A x \in S : h[x] \in C
  PROVE  Sum([c \in C |-> Sum(f, {x \in S : h[x] = c})], C) = Sum(f, S)
<1> DEFINE Class(c) == {x \in S : h[x] = c}
           In(D)    == {x \in S : h[x] \in D}
           g        == [c \in C |-> Sum(f, Class(c))]
           Good     == {D \in SUBSET C : Sum(g, D) = Sum(f, In(D))}
<1>0. IntegersOn(g, C)
  <2> SUFFICES ASSUME NEW c \in C
               PROVE  Sum(f, Class(c)) \in Int
    BY DEF IntegersOn
  <2>1. IsFiniteSet(Class(c)) /\ IntegersOn(f, Class(c))
    BY FS_Subset DEF IntegersOn
  <2> HIDE DEF Class
  <2> QED  BY <2>1, SumIsInt
<1>1. {} \in Good
  <2>1. In({}) = {}
    OBVIOUS
  <2> QED  BY <2>1, SumEmpty
<1>2. ASSUME NEW D \in SUBSET C, D \in Good, NEW c \in C \ D
      PROVE  D \cup {c} \in Good
  <2>1. Sum(g, D) = Sum(f, In(D))
    BY <1>2
  <2>2. Sum(g, D \cup {c}) = g[c] + Sum(g, D)
    <3> HIDE DEF g
    <3> QED  BY <1>0, SumStep
  <2>3. g[c] = Sum(f, Class(c))
    OBVIOUS
  <2>4. /\ In(D \cup {c}) = Class(c) \cup In(D) /\ Class(c) \cap In(D) = {}
        /\ Class(c) \in SUBSET S /\ In(D) \in SUBSET S
    OBVIOUS
  <2>5. /\ IsFiniteSet(Class(c)) /\ IsFiniteSet(In(D))
        /\ IntegersOn(f, Class(c)) /\ IntegersOn(f, In(D))
    <3> HIDE DEF Class, In
    <3> QED  BY <2>4, FS_Subset DEF IntegersOn
  <2>6. Sum(f, Class(c) \cup In(D)) = Sum(f, Class(c)) + Sum(f, In(D))
    <3> HIDE DEF Class, In
    <3> QED  BY <2>4, <2>5, SumUnion
  <2>7. Sum(g, D \cup {c}) = Sum(f, In(D \cup {c}))
    <3> HIDE DEF Class, In, g
    <3> QED  BY <2>1, <2>2, <2>3, <2>4, <2>6
  <2> QED  BY <2>7
<1>3. C \in Good
  <2> HIDE DEF Good
  <2> QED  BY <1>1, <1>2, SubsetInduction
<1>4. In(C) = S
  OBVIOUS
<1> QED  BY <1>3, <1>4

\* No natural number of a sum is larger than the sum.
LEMMA SumMember ==
  ASSUME NEW f, NEW S, IsFiniteSet(S), \A x \in S : f[x] \in Nat, NEW y \in S
  PROVE  f[y] <= Sum(f, S)
<1>1. Sum(f, S) = f[y] + Sum(f, S \ {y})
  BY SumIsNat, SumRemove
<1>2. Sum(f, S \ {y}) \in Nat
  <2>1. IsFiniteSet(S \ {y}) /\ \A x \in S \ {y} : f[x] \in Nat
    BY FS_Subset
  <2> QED  BY <2>1, SumIsNat
<1>3. f[y] \in Nat
  OBVIOUS
<1> QED  BY <1>1, <1>2, <1>3

\* A part of natural numbers adds up to no more than the whole.
LEMMA SumOfSubset ==
  ASSUME NEW f, NEW S, IsFiniteSet(S), \A x \in S : f[x] \in Nat, NEW T \in SUBSET S
  PROVE  Sum(f, T) <= Sum(f, S) /\ Sum(f, T) \in Nat /\ Sum(f, S) \in Nat
<1> DEFINE R == S \ T
<1>1. /\ IsFiniteSet(T) /\ IsFiniteSet(R) /\ T \cap R = {} /\ T \cup R = S
      /\ (\A x \in T : f[x] \in Nat) /\ (\A x \in R : f[x] \in Nat)
  BY FS_Subset
<1> HIDE DEF R
<1>2. Sum(f, T) \in Nat /\ IntegersOn(f, T) /\ Sum(f, R) \in Nat /\ IntegersOn(f, R)
  BY <1>1, SumIsNat
<1>3. Sum(f, T \cup R) = Sum(f, T) + Sum(f, R)
  BY <1>1, <1>2, SumUnion
<1>4. Sum(f, S) = Sum(f, T) + Sum(f, R)
  BY <1>1, <1>3
<1> QED  BY <1>2, <1>4

\* g has the sums of f over sets of which no two have a common element.
SumsOfParts(f, g, part, S) ==
  /\ \A p \in S : IsFiniteSet(part[p]) /\ IntegersOn(f, part[p]) /\ g[p] = Sum(f, part[p])
  /\ \A p, q \in S : p # q => part[p] \cap part[q] = {}

LEMMA SumOfParts ==
  ASSUME NEW f, NEW g, NEW part, NEW S, IsFiniteSet(S), SumsOfParts(f, g, part, S)
  PROVE  /\ Sum(g, S) = Sum(f, UNION {part[p] : p \in S})
         /\ IsFiniteSet(UNION {part[p] : p \in S})
<1> DEFINE All(T) == UNION {part[p] : p \in T}
           Good   == {T \in SUBSET S : Sum(g, T) = Sum(f, All(T)) /\ IsFiniteSet(All(T))}
<1>0. IntegersOn(g, S)
  BY SumIsInt DEF IntegersOn, SumsOfParts
<1>1. {} \in Good
  <2>1. All({}) = {}
    OBVIOUS
  <2> QED  BY <2>1, SumEmpty, FS_EmptySet
<1>2. ASSUME NEW T \in SUBSET S, T \in Good, NEW x \in S \ T
      PROVE  T \cup {x} \in Good
  <2>1. Sum(g, T) = Sum(f, All(T)) /\ IsFiniteSet(All(T))
    BY <1>2
  <2>2. Sum(g, T \cup {x}) = g[x] + Sum(g, T)
    BY <1>0, SumStep
  <2>3. All(T \cup {x}) = part[x] \cup All(T)
    OBVIOUS
  <2>4. IsFiniteSet(part[x]) /\ IntegersOn(f, part[x]) /\ g[x] = Sum(f, part[x])
    BY <1>2 DEF SumsOfParts
  <2>5. part[x] \cap All(T) = {}
    <3>1. \A p \in T : p \in S /\ p # x
      BY <1>2
    <3> QED  BY <3>1 DEF SumsOfParts
  <2>6. IntegersOn(f, All(T))
    BY DEF IntegersOn, SumsOfParts
  <2>7. IsFiniteSet(part[x] \cup All(T))
    BY <2>1, <2>4, FS_Union
  <2> HIDE DEF All
  <2>8. Sum(f, part[x] \cup All(T)) = Sum(f, part[x]) + Sum(f, All(T))
    BY <2>1, <2>4, <2>5, <2>6, SumUnion
  <2>9. Sum(g, T \cup {x}) = Sum(f, All(T \cup {x})) /\ IsFiniteSet(All(T \cup {x}))
    BY <2>1, <2>2, <2>3, <2>4, <2>7, <2>8
  <2> QED  BY <2>9
<1>3. S \in Good
  <2> HIDE DEF Good
  <2> QED  BY <1>1, <1>2, SubsetInduction
<1> QED  BY <1>3

\* A value that grows by d.
LEMMA SumUpdate ==
  ASSUME NEW f, NEW g, NEW S, IsFiniteSet(S), IntegersOn(f, S), NEW y \in S, NEW d \in Int,
         g[y] = f[y] + d, \A x \in S \ {y} : g[x] = f[x]
  PROVE  Sum(g, S) = Sum(f, S) + d
<1>0. f[y] \in Int /\ g[y] \in Int /\ IntegersOn(g, S)
  <2>1. f[y] \in Int
    BY DEF IntegersOn
  <2>2. ASSUME NEW x \in S
        PROVE  g[x] \in Int
    BY <2>1 DEF IntegersOn
  <2> QED  BY <2>1, <2>2 DEF IntegersOn
<1>1. IsFiniteSet(S \ {y}) /\ IntegersOn(f, S \ {y})
  BY FS_Subset DEF IntegersOn
<1>2. Sum(g, S) = g[y] + Sum(g, S \ {y})
  BY <1>0, SumRemove
<1>3. Sum(f, S) = f[y] + Sum(f, S \ {y})
  BY SumRemove
<1>4. Sum(g, S \ {y}) = Sum(f, S \ {y})
  BY <1>1, SumEqual
<1>5. Sum(f, S \ {y}) \in Int
  BY <1>1, SumIsInt
<1> QED  BY <1>0, <1>2, <1>3, <1>4, <1>5

\* The sum of g over the elements that h gives to those of S, no two the same.
Renames(h, S, R, f, g) ==
  /\ R = {h[x] : x \in S}
  /\ \A x, y \in S : h[x] = h[y] => x = y
  /\ \A x \in S : g[h[x]] = f[x]

LEMMA SumReindex ==
  ASSUME NEW f, NEW g, NEW h, NEW S, IsFiniteSet(S), IntegersOn(f, S),
         NEW R, Renames(h, S, R, f, g)
  PROVE  Sum(g, R) = Sum(f, S) /\ IsFiniteSet(R)
<1> DEFINE Of(T) == {h[x] : x \in T}
           Good  == {T \in SUBSET S : Sum(g, Of(T)) = Sum(f, T)}
<1>0. /\ \A x, y \in S : h[x] = h[y] => x = y
      /\ \A x \in S : g[h[x]] = f[x]
      /\ R = Of(S)
  BY DEF Renames
<1>1. {} \in Good
  <2>1. Of({}) = {}
    OBVIOUS
  <2> QED  BY <2>1, SumEmpty
<1>2. ASSUME NEW T \in SUBSET S, T \in Good, NEW x \in S \ T
      PROVE  T \cup {x} \in Good
  <2>1. Sum(g, Of(T)) = Sum(f, T)
    BY <1>2
  <2>2. /\ Sum(f, T \cup {x}) = f[x] + Sum(f, T)
        /\ f[x] \in Int /\ IsFiniteSet(T)
    BY SumStep
  <2>3. Of(T \cup {x}) = Of(T) \cup {h[x]} /\ h[x] \notin Of(T)
    BY <1>0
  <2>4. IsFiniteSet(Of(T))
    BY <2>2, ImageIsFinite
  <2>5. IntegersOn(g, Of(T)) /\ g[h[x]] = f[x]
    BY <1>0 DEF IntegersOn
  <2>6. Sum(g, Of(T) \cup {h[x]}) = g[h[x]] + Sum(g, Of(T))
    <3> HIDE DEF Of
    <3> QED  BY <2>2, <2>3, <2>4, <2>5, SumAdd
  <2> HIDE DEF Of
  <2> QED  BY <2>1, <2>2, <2>3, <2>5, <2>6
<1>3. S \in Good
  <2> HIDE DEF Good
  <2> QED  BY <1>1, <1>2, SubsetInduction
<1>4. IsFiniteSet(Of(S))
  BY ImageIsFinite
<1> QED  BY <1>0, <1>3, <1>4
=============================================================================
