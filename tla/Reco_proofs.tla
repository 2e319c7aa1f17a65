---------------------------- MODULE Reco_proofs ----------------------------
(***************************************************************************)
(* Proofs about the two programs that turn hits into tracks.               *)
(*                                                                         *)
(* HitPairs: for any calls and any number of hits, the pairs are exactly   *)
(* those whose times match.  The pointers only move forward; what makes    *)
(* this right is that a hit of Y they have passed is too early for every   *)
(* hit of X still to come (Gone), which holds because both sequences are   *)
(* sorted.                                                                 *)
(*                                                                         *)
(* Interpolation: for any hits and clusters, each leg of the way has one   *)
(* piece for a hit it reaches and none for the others (OnePiece).  The     *)
(* list of points is joined leg by leg, and each leg adds one mark of the  *)
(* hit or none (MarksOfLeg).  A leg reaches the hits on its own line       *)
(* (AxisHitReached).  A walk to the end has visited every cluster, so one  *)
(* that went from hits to no hits or back never gets there (Walked).       *)
(***************************************************************************)
EXTENDS HitPairs, Interpolation, SequenceTheorems, SumTheorems

\* The time of the hit at place k in the order o of the hits h.
Time(h, o, k) == h[o[k]].time

\* lower: every hit of Y before it is too early for the hits of X from a on.
Gone(c, p, q, a, l) ==
  \A k \in a .. Len(c.x), j \in 1 .. l - 1 :
    Time(c.y, q, j) < Time(c.x, p, k) - c.tolerance

\* upper: every hit of Y before it is early enough for the hits of X from a on.
Seen(c, p, q, a, u) ==
  c.fn = "build3d" =>
    \A k \in a .. Len(c.x), j \in 1 .. u - 1 :
      Time(c.y, q, j) <= Time(c.x, p, k) + c.tolerance

\* The places k of X and j of Y match.
Match2(c, p, q, k, j) == Matched(c, c.x[p[k]], c.y[q[j]])

\* The pairs are those of the hits of X before a.
Paired(c, p, q, a, ps) ==
  /\ \A r \in ps : \E k \in 1 .. a - 1, j \in 1 .. Len(c.y) :
       r = <<p[k], q[j]>> /\ Match2(c, p, q, k, j)
  /\ \A k \in 1 .. a - 1, j \in 1 .. Len(c.y) :
       Match2(c, p, q, k, j) => <<p[k], q[j]>> \in ps

\* The inductive invariant.
IInv ==
  /\ TypeOK
  /\ outcome = "idle" => at = 1 /\ lower = 1 /\ upper = 1 /\ pairs = {}
  /\ outcome # "idle" =>
       /\ Gone(call, xs, ys, at, lower)
       /\ Seen(call, xs, ys, at, upper)
       /\ Paired(call, xs, ys, at, pairs)
  /\ outcome \in {"returned", "raised"} => at = Len(call.x) + 1

-----------------------------------------------------------------------------
\* What is known of the arguments of a call.
LEMMA Arguments ==
  ASSUME NEW c \in Calls
  PROVE  /\ c.fn \in {"buildHitPairs", "build3d"}
         /\ c.x \in Hits /\ c.y \in Hits
         /\ Len(c.x) \in Nat /\ Len(c.y) \in Nat
         /\ DOMAIN c.x = 1 .. Len(c.x) /\ DOMAIN c.y = 1 .. Len(c.y)
         /\ c.tolerance \in Int
<1>1. c \in [fn : {"buildHitPairs", "build3d"}, x : Hits, y : Hits,
             tolerance : Int, scale : Int, useSigma : BOOLEAN,
             z : BOOLEAN, edep : BOOLEAN]
  BY CallsAssumption
<1>2. c.fn \in {"buildHitPairs", "build3d"} /\ c.x \in Hits /\ c.y \in Hits /\ c.tolerance \in Int
  BY <1>1
<1> QED BY <1>2 DEF Hits

\* An order lists every hit, with times that do not decrease.
LEMMA Sorted ==
  ASSUME NEW h \in Hits, NEW o \in Orders(h)
  PROVE  /\ \A i \in 1 .. Len(h) : o[i] \in 1 .. Len(h) /\ Time(h, o, i) \in Int
         /\ \A i, j \in 1 .. Len(h) : i <= j => Time(h, o, i) <= Time(h, o, j)
         /\ \A i \in 1 .. Len(h) : \E j \in 1 .. Len(h) : o[j] = i
<1>1. DOMAIN h = 1 .. Len(h) /\ Len(h) \in Nat /\ \A i \in 1 .. Len(h) : h[i].time \in Int
  <2>1. DOMAIN h = 1 .. Len(h) /\ Len(h) \in Nat
    BY DEF Hits
  <2> DEFINE R == [time : Int, sigma : Nat]
  <2> HIDE DEF R
  <2>2. \A i \in 1 .. Len(h) : h[i] \in R
    BY ElementOfSeq DEF Hits, R
  <2> QED BY <2>1, <2>2 DEF R
<1>2. o \in [1 .. Len(h) -> 1 .. Len(h)]
  BY <1>1 DEF Orders
<1>3. \A i \in 1 .. Len(h) : \E j \in 1 .. Len(h) : o[j] = i
  BY <1>1 DEF Orders
<1>4. \A i, j \in 1 .. Len(h) : i < j => h[o[i]].time <= h[o[j]].time
  BY <1>1 DEF Orders
<1>5. \A i \in 1 .. Len(h) : o[i] \in 1 .. Len(h) /\ Time(h, o, i) \in Int
  BY <1>1, <1>2 DEF Time
<1>6. ASSUME NEW i \in 1 .. Len(h), NEW j \in 1 .. Len(h), i <= j
      PROVE  Time(h, o, i) <= Time(h, o, j)
  <2>1. CASE i = j
    BY <2>1, <1>5
  <2>2. CASE i < j
    BY <2>2, <1>4 DEF Time
  <2> QED BY <1>1, <1>6, <2>1, <2>2
<1> QED BY <1>3, <1>5, <1>6

\* A pointer that moves over a set without gaps tells from p on what is in it.
LEMMA MovesTo ==
  ASSUME NEW n \in Nat, NEW p \in 1 .. n + 1, NEW q \in p .. n + 1, NEW S,
         p .. q - 1 \subseteq S, q \notin S,
         \A i \in S : \A j \in 1 .. i : j \in S,
         S \subseteq 1 .. n,
         NEW j \in p .. n
  PROVE  j \in S <=> j < q
<1>1. CASE j < q
  BY <1>1
<1>2. CASE j >= q
  <2>1. q \in 1 .. j
    BY <1>2
  <2> QED BY <1>2, <2>1
<1> QED BY <1>1, <1>2


\* The state of a call that runs or has ended.
LEMMA Running ==
  ASSUME TypeOK, outcome # "idle"
  PROVE  /\ call \in Calls /\ xs \in Orders(call.x) /\ ys \in Orders(call.y)
         /\ call.x \in Hits /\ call.y \in Hits /\ call.tolerance \in Int
         /\ Nx \in Nat /\ Ny \in Nat /\ Nx = Len(call.x) /\ Ny = Len(call.y)
         /\ at \in 1 .. Nx + 1 /\ lower \in 1 .. Ny + 1 /\ upper \in 1 .. Ny + 1
<1>1. call \in Calls /\ xs \in Orders(call.x) /\ ys \in Orders(call.y)
      /\ at \in 1 .. Nx + 1 /\ lower \in 1 .. Ny + 1 /\ upper \in 1 .. Ny + 1
  BY DEF TypeOK
<1> QED BY <1>1, Arguments DEF Nx, Ny

\* Before a hit that is in time, all are.
LEMMA NoGaps ==
  ASSUME TypeOK, outcome # "idle", NEW t \in Int, NEW i \in 1 .. Ny, NEW k \in 1 .. i
  PROVE  /\ i \in Before(t) => k \in Before(t)
         /\ i \in UpTo(t) => k \in UpTo(t)
<1>1. k \in 1 .. Ny /\ k <= i
  BY Running
<1>2. Time(call.y, ys, k) <= Time(call.y, ys, i)
      /\ Time(call.y, ys, k) \in Int /\ Time(call.y, ys, i) \in Int
  BY <1>1, Running, Sorted
<1>3. Y(i).time = Time(call.y, ys, i) /\ Y(k).time = Time(call.y, ys, k)
  BY DEF Y, Time
<1> QED BY <1>1, <1>2, <1>3 DEF Before, UpTo

\* Where a pointer stops, by the times of the hits of Y.
LEMMA BeforeStop ==
  ASSUME TypeOK, outcome # "idle", NEW t \in Int,
         NEW p \in 1 .. Ny + 1, NEW q, Moves(p, q, Before(t)), NEW j \in p .. Ny
  PROVE  j < q <=> Time(call.y, ys, j) < t
<1> DEFINE S == Before(t)
<1>1. Ny \in Nat /\ q \in p .. Ny + 1 /\ p .. q - 1 \subseteq S /\ q \notin S
  BY Running DEF Moves
<1>2. S \subseteq 1 .. Ny /\ \A i \in S : \A k \in 1 .. i : k \in S
  BY NoGaps DEF Before
<1>3. j \in S <=> j < q
  <2> HIDE DEF S
  <2> QED BY <1>1, <1>2, MovesTo
<1>4. j \in S <=> Time(call.y, ys, j) < t
  BY <1>1 DEF Before, Y, Time
<1> QED BY <1>3, <1>4

LEMMA UpToStop ==
  ASSUME TypeOK, outcome # "idle", NEW t \in Int,
         NEW p \in 1 .. Ny + 1, NEW q, Moves(p, q, UpTo(t)), NEW j \in p .. Ny
  PROVE  j < q <=> Time(call.y, ys, j) <= t
<1> DEFINE S == UpTo(t)
<1>1. Ny \in Nat /\ q \in p .. Ny + 1 /\ p .. q - 1 \subseteq S /\ q \notin S
  BY Running DEF Moves
<1>2. S \subseteq 1 .. Ny /\ \A i \in S : \A k \in 1 .. i : k \in S
  BY NoGaps DEF UpTo
<1>3. j \in S <=> j < q
  <2> HIDE DEF S
  <2> QED BY <1>1, <1>2, MovesTo
<1>4. j \in S <=> Time(call.y, ys, j) <= t
  BY <1>1 DEF UpTo, Y, Time
<1> QED BY <1>3, <1>4

-----------------------------------------------------------------------------
\* Whether two hits match is a matter of their times, but for Close.
LEMMA MatchTimes ==
  ASSUME NEW c \in Calls, NEW p \in Orders(c.x), NEW q \in Orders(c.y),
         NEW k \in 1 .. Len(c.x), NEW j \in 1 .. Len(c.y)
  PROVE  Match2(c, p, q, k, j) <=>
           /\ Time(c.x, p, k) - Time(c.y, q, j) <= c.tolerance
           /\ IF c.fn = "buildHitPairs"
              THEN Time(c.y, q, j) - Time(c.x, p, k) < c.tolerance
              ELSE /\ Time(c.y, q, j) - Time(c.x, p, k) <= c.tolerance
                   /\ Close(c, c.x[p[k]], c.y[q[j]])
<1>1. Time(c.x, p, k) \in Int /\ Time(c.y, q, j) \in Int /\ c.tolerance \in Int
  BY Arguments, Sorted
<1>2. Time(c.x, p, k) = c.x[p[k]].time /\ Time(c.y, q, j) = c.y[q[j]].time
  BY DEF Time
<1> DEFINE a == c.x[p[k]].time
           b == c.y[q[j]].time
<1>3. a \in Int /\ b \in Int /\ -(a - b) = b - a
  BY <1>1, <1>2
<1>4. Match2(c, p, q, k, j) <=>
        /\ a - b <= c.tolerance
        /\ IF c.fn = "buildHitPairs" THEN -(a - b) < c.tolerance
           ELSE -(a - b) <= c.tolerance /\ Close(c, c.x[p[k]], c.y[q[j]])
  BY DEF Match2, Matched
<1> HIDE DEF a, b
<1> QED BY <1>2, <1>3, <1>4 DEF a, b

\* A hit of Y too early for one hit of X is too early for the later ones.
LEMMA TooEarly ==
  ASSUME NEW c \in Calls, NEW p \in Orders(c.x), NEW q \in Orders(c.y),
         NEW a \in 1 .. Len(c.x), NEW k \in a .. Len(c.x), NEW j \in 1 .. Len(c.y),
         Time(c.y, q, j) < Time(c.x, p, a) - c.tolerance
  PROVE  Time(c.y, q, j) < Time(c.x, p, k) - c.tolerance /\ ~Match2(c, p, q, k, j)
<1>1. k \in 1 .. Len(c.x) /\ a <= k
  BY Arguments
<1>2. Time(c.x, p, a) <= Time(c.x, p, k) /\ Time(c.x, p, a) \in Int /\ Time(c.x, p, k) \in Int
  BY <1>1, Arguments, Sorted
<1>3. Time(c.y, q, j) \in Int /\ c.tolerance \in Int
  BY Arguments, Sorted
<1>4. Time(c.y, q, j) < Time(c.x, p, k) - c.tolerance
  BY <1>2, <1>3
<1>5. ~(Time(c.x, p, k) - Time(c.y, q, j) <= c.tolerance)
  BY <1>2, <1>3, <1>4
<1> QED BY <1>1, <1>4, <1>5, MatchTimes

\* One turn of the outer loop: s is where lower stops, M the hits it matched.
LEMMA Turn ==
  ASSUME NEW c \in Calls, NEW p \in Orders(c.x), NEW q \in Orders(c.y),
         NEW a \in 1 .. Len(c.x), NEW s \in 1 .. Len(c.y) + 1, NEW ps,
         NEW M \in SUBSET (1 .. Len(c.y)),
         \A j \in 1 .. Len(c.y) : j < s <=> Time(c.y, q, j) < Time(c.x, p, a) - c.tolerance,
         \A j \in 1 .. Len(c.y) : j \in M <=> Match2(c, p, q, a, j),
         Paired(c, p, q, a, ps)
  PROVE  /\ Gone(c, p, q, a + 1, s)
         /\ Paired(c, p, q, a + 1, ps \cup {<<p[a], q[i]>> : i \in M})
<1>1. Len(c.x) \in Nat /\ Len(c.y) \in Nat
  BY Arguments
<1>2. Gone(c, p, q, a + 1, s)
  <2> SUFFICES ASSUME NEW k \in a + 1 .. Len(c.x), NEW j \in 1 .. s - 1
               PROVE  Time(c.y, q, j) < Time(c.x, p, k) - c.tolerance
    BY DEF Gone
  <2>1. k \in a .. Len(c.x) /\ j \in 1 .. Len(c.y) /\ j < s
    BY <1>1
  <2> QED BY <2>1, TooEarly
<1> DEFINE new == {<<p[a], q[i]>> : i \in M}
<1>3. ASSUME NEW r \in ps \cup new
      PROVE  \E k \in 1 .. a, j \in 1 .. Len(c.y) :
               r = <<p[k], q[j]>> /\ Match2(c, p, q, k, j)
  <2>1. CASE r \in ps
    <3>1. \E k \in 1 .. a - 1, j \in 1 .. Len(c.y) :
            r = <<p[k], q[j]>> /\ Match2(c, p, q, k, j)
      BY <2>1 DEF Paired
    <3>2. 1 .. a - 1 \subseteq 1 .. a
      OBVIOUS
    <3> QED BY <3>1, <3>2
  <2>2. CASE r \in new
    <3>1. PICK i \in M : r = <<p[a], q[i]>>
      BY <2>2
    <3>2. i \in 1 .. Len(c.y) /\ Match2(c, p, q, a, i) /\ a \in 1 .. a
      OBVIOUS
    <3> QED BY <3>1, <3>2
  <2> QED BY <1>3, <2>1, <2>2
<1>4. ASSUME NEW k \in 1 .. a, NEW j \in 1 .. Len(c.y), Match2(c, p, q, k, j)
      PROVE  <<p[k], q[j]>> \in ps \cup new
  <2>1. CASE k = a
    BY <1>4, <2>1
  <2>2. CASE k # a
    <3>1. k \in 1 .. a - 1
      BY <2>2
    <3> QED BY <1>4, <3>1 DEF Paired
  <2> QED BY <2>1, <2>2
<1>5. a = (a + 1) - 1
  OBVIOUS
<1> HIDE DEF new
<1>6. Paired(c, p, q, a + 1, ps \cup new)
  BY <1>3, <1>4, <1>5 DEF Paired
<1> QED BY <1>2, <1>6 DEF new

\* The break: all hits of Y are too early.
LEMMA Break ==
  ASSUME NEW c \in Calls, NEW p \in Orders(c.x), NEW q \in Orders(c.y),
         NEW a \in 1 .. Len(c.x), NEW l, NEW ps,
         \A j \in 1 .. Len(c.y) : Time(c.y, q, j) < Time(c.x, p, a) - c.tolerance,
         Paired(c, p, q, a, ps)
  PROVE  /\ Gone(c, p, q, Len(c.x) + 1, l)
         /\ Paired(c, p, q, Len(c.x) + 1, ps)
<1>1. Len(c.x) \in Nat /\ Len(c.y) \in Nat /\ (Len(c.x) + 1) - 1 = Len(c.x)
  BY Arguments
<1>2. Gone(c, p, q, Len(c.x) + 1, l)
  BY <1>1 DEF Gone
<1>3. \A r \in ps : \E k \in 1 .. Len(c.x), j \in 1 .. Len(c.y) :
        r = <<p[k], q[j]>> /\ Match2(c, p, q, k, j)
  <2>1. 1 .. a - 1 \subseteq 1 .. Len(c.x)
    BY <1>1
  <2> QED BY <2>1 DEF Paired
<1>4. ASSUME NEW k \in 1 .. Len(c.x), NEW j \in 1 .. Len(c.y), Match2(c, p, q, k, j)
      PROVE  <<p[k], q[j]>> \in ps
  <2>1. CASE k < a
    <3>1. k \in 1 .. a - 1
      BY <2>1
    <3> QED BY <1>4, <3>1 DEF Paired
  <2>2. CASE k >= a
    <3>1. k \in a .. Len(c.x)
      BY <1>1, <2>2
    <3>2. ~Match2(c, p, q, k, j)
      BY <3>1, TooEarly
    <3> QED BY <1>4, <3>2
  <2> QED BY <2>1, <2>2
<1>5. Paired(c, p, q, Len(c.x) + 1, ps)
  BY <1>1, <1>3, <1>4 DEF Paired
<1> QED BY <1>2, <1>5

-----------------------------------------------------------------------------
\* A turn that finds the hits M and moves lower to s keeps the invariant.
LEMMA FoundKeeps ==
  ASSUME IInv, outcome = "running", at <= Nx,
         NEW s \in 1 .. Ny + 1, NEW M \in SUBSET (1 .. Ny), Found(s, M),
         \A j \in 1 .. Ny : j < s <=> Time(call.y, ys, j) < Time(call.x, xs, at) - call.tolerance,
         s # Ny + 1 => \A j \in 1 .. Ny : j \in M <=> Match2(call, xs, ys, at, j)
  PROVE  /\ at' \in at + 1 .. Nx + 1
         /\ Gone(call, xs, ys, at', s)
         /\ Paired(call, xs, ys, at', pairs')
         /\ pairs' \subseteq (DOMAIN call.x) \X (DOMAIN call.y)
<1>1. TypeOK /\ Paired(call, xs, ys, at, pairs)
  BY DEF IInv
<1>2. /\ call \in Calls /\ xs \in Orders(call.x) /\ ys \in Orders(call.y)
      /\ call.x \in Hits /\ call.y \in Hits
      /\ Nx \in Nat /\ Ny \in Nat /\ Nx = Len(call.x) /\ Ny = Len(call.y)
      /\ at \in 1 .. Nx
  BY <1>1, Running
<1>3. pairs \subseteq (DOMAIN call.x) \X (DOMAIN call.y)
  BY <1>1 DEF TypeOK
<1>4. CASE s = Ny + 1
  <2>1. at' = Nx + 1 /\ pairs' = pairs
    BY <1>4 DEF Found
  <2>2. \A j \in 1 .. Ny : Time(call.y, ys, j) < Time(call.x, xs, at) - call.tolerance
    BY <1>2, <1>4
  <2>3. Gone(call, xs, ys, Len(call.x) + 1, s) /\ Paired(call, xs, ys, Len(call.x) + 1, pairs)
    BY <1>1, <1>2, <2>2, Break
  <2>4. at' \in at + 1 .. Nx + 1
    BY <1>2, <2>1
  <2> QED BY <1>2, <1>3, <2>1, <2>3, <2>4
<1>5. CASE s # Ny + 1
  <2>1. at' = at + 1 /\ pairs' = pairs \cup {<<xs[at], ys[i]>> : i \in M}
    BY <1>5 DEF Found
  <2>2. Gone(call, xs, ys, at + 1, s)
        /\ Paired(call, xs, ys, at + 1, pairs \cup {<<xs[at], ys[i]>> : i \in M})
    BY <1>1, <1>2, <1>5, Turn
  <2>3. {<<xs[at], ys[i]>> : i \in M} \subseteq (DOMAIN call.x) \X (DOMAIN call.y)
    <3>1. xs[at] \in 1 .. Len(call.x) /\ \A i \in M : ys[i] \in 1 .. Len(call.y)
      BY <1>2, Sorted
    <3>2. DOMAIN call.x = 1 .. Len(call.x) /\ DOMAIN call.y = 1 .. Len(call.y)
      BY <1>2, Arguments
    <3> QED BY <3>1, <3>2
  <2>4. at' \in at + 1 .. Nx + 1
    BY <1>2, <2>1
  <2> QED BY <1>3, <2>1, <2>2, <2>3, <2>4
<1> QED BY <1>4, <1>5

\* Where lower stops, in both functions.
LEMMA LowerStop ==
  ASSUME IInv, outcome = "running", at <= Nx,
         NEW s, Moves(lower, s, Before(X(at).time - call.tolerance)),
         NEW j \in 1 .. Ny
  PROVE  j < s <=> Time(call.y, ys, j) < Time(call.x, xs, at) - call.tolerance
<1> DEFINE early == X(at).time - call.tolerance
<1>1. TypeOK /\ Gone(call, xs, ys, at, lower)
  BY DEF IInv
<1>2. /\ call \in Calls /\ xs \in Orders(call.x) /\ ys \in Orders(call.y)
      /\ call.x \in Hits /\ call.y \in Hits /\ call.tolerance \in Int
      /\ Nx \in Nat /\ Ny \in Nat /\ Nx = Len(call.x) /\ Ny = Len(call.y)
      /\ at \in 1 .. Nx /\ lower \in 1 .. Ny + 1
  BY <1>1, Running
<1>3. early \in Int /\ early = Time(call.x, xs, at) - call.tolerance
  <2>1. Time(call.x, xs, at) \in Int
    BY <1>2, Sorted
  <2> QED BY <1>2, <2>1 DEF X, Time
<1> HIDE DEF early
<1>4. CASE j >= lower
  <2>1. j \in lower .. Ny
    BY <1>2, <1>4
  <2>2. Moves(lower, s, Before(early))
    BY DEF early
  <2> QED BY <1>1, <1>2, <1>3, <2>1, <2>2, BeforeStop
<1>5. CASE j < lower
  <2>1. j \in 1 .. lower - 1 /\ at \in at .. Len(call.x)
    BY <1>2, <1>5
  <2>2. Time(call.y, ys, j) < Time(call.x, xs, at) - call.tolerance
    BY <1>1, <2>1 DEF Gone
  <2>3. s \in lower .. Ny + 1
    BY DEF Moves
  <2> QED BY <1>2, <1>5, <2>2, <2>3
<1> QED BY <1>2, <1>4, <1>5

LEMMA InitIInv == Init => IInv
  BY DEF Init, IInv, TypeOK

LEMMA StartKeeps ==
  ASSUME IInv, Start
  PROVE  IInv'
<1>1. PICK c \in Calls : Call(c)
  BY DEF Start
<1>2. outcome = "idle" /\ at = 1 /\ lower = 1 /\ upper = 1 /\ pairs = {}
  BY DEF Start, IInv
<1>3. call' = c /\ xs' \in Orders(c.x) /\ ys' \in Orders(c.y) /\ outcome' = "running"
      /\ at' = 1 /\ lower' = 1 /\ upper' = 1 /\ pairs' = {}
  BY <1>1, <1>2 DEF Call
<1>4. Len(c.x) \in Nat /\ Len(c.y) \in Nat
  BY Arguments
<1>5. TypeOK'
  BY <1>3, <1>4 DEF TypeOK, Nx, Ny
<1>6. Gone(call', xs', ys', at', lower') /\ Seen(call', xs', ys', at', upper')
      /\ Paired(call', xs', ys', at', pairs')
  BY <1>3 DEF Gone, Seen, Paired
<1> QED BY <1>3, <1>5, <1>6 DEF IInv

LEMMA MatchKeeps ==
  ASSUME IInv, Match
  PROVE  IInv'
<1> DEFINE early == X(at).time - call.tolerance
           late  == X(at).time + call.tolerance
<1>1. outcome = "running" /\ call.fn = "buildHitPairs" /\ at <= Nx
      /\ call' = call /\ xs' = xs /\ ys' = ys /\ upper' = upper /\ outcome' = outcome
  BY DEF Match
<1>2. PICK s \in 1 .. Ny + 1, e \in 1 .. Ny + 1 :
        /\ Moves(lower, s, Before(early)) /\ Moves(s, e, Before(late))
        /\ lower' = s
        /\ Found(s, s .. e - 1)
  BY DEF Match
<1>3. TypeOK
  BY DEF IInv
<1>4. /\ call \in Calls /\ xs \in Orders(call.x) /\ ys \in Orders(call.y)
      /\ call.x \in Hits /\ call.y \in Hits /\ call.tolerance \in Int
      /\ Nx \in Nat /\ Ny \in Nat /\ Nx = Len(call.x) /\ Ny = Len(call.y)
      /\ at \in 1 .. Nx
  BY <1>1, <1>3, Running
<1>5. \A j \in 1 .. Ny : j < s <=> Time(call.y, ys, j) < Time(call.x, xs, at) - call.tolerance
  BY <1>1, <1>2, LowerStop
<1>6. Time(call.x, xs, at) \in Int
      /\ late \in Int /\ late = Time(call.x, xs, at) + call.tolerance
  <2>1. Time(call.x, xs, at) \in Int
    BY <1>4, Sorted
  <2> QED BY <1>4, <2>1 DEF X, Time
<1>7. ASSUME NEW j \in 1 .. Ny
      PROVE  j \in s .. e - 1 <=> Match2(call, xs, ys, at, j)
  <2>1. Time(call.y, ys, j) \in Int
    BY <1>4, Sorted
  <2>2. j >= s => (j < e <=> Time(call.y, ys, j) < late)
    <3> HIDE DEF late
    <3>1. ASSUME j >= s
          PROVE  j < e <=> Time(call.y, ys, j) < late
      <4>1. j \in s .. Ny
        BY <1>4, <3>1
      <4> QED BY <1>1, <1>2, <1>3, <1>6, <4>1, BeforeStop
    <3> QED BY <3>1
  <2>3. Match2(call, xs, ys, at, j) <=>
          /\ Time(call.x, xs, at) - Time(call.y, ys, j) <= call.tolerance
          /\ Time(call.y, ys, j) - Time(call.x, xs, at) < call.tolerance
    BY <1>1, <1>4, MatchTimes
  <2>4. j < s <=> Time(call.y, ys, j) < Time(call.x, xs, at) - call.tolerance
    BY <1>5
  <2> HIDE DEF late
  <2> QED BY <1>4, <1>6, <2>1, <2>2, <2>3, <2>4
<1>8. s .. e - 1 \in SUBSET (1 .. Ny)
  BY <1>4
<1>9. /\ at' \in at + 1 .. Nx + 1
      /\ Gone(call, xs, ys, at', s)
      /\ Paired(call, xs, ys, at', pairs')
      /\ pairs' \subseteq (DOMAIN call.x) \X (DOMAIN call.y)
  BY <1>1, <1>2, <1>5, <1>7, <1>8, FoundKeeps
<1>10. TypeOK'
  BY <1>1, <1>2, <1>3, <1>4, <1>9 DEF TypeOK, Nx, Ny
<1>11. Seen(call, xs, ys, at', upper)
  BY <1>1 DEF Seen
<1> QED BY <1>1, <1>2, <1>9, <1>10, <1>11 DEF IInv

LEMMA Match3dKeeps ==
  ASSUME IInv, Match3d
  PROVE  IInv'
<1> DEFINE early == X(at).time - call.tolerance
           late  == X(at).time + call.tolerance
<1>1. outcome = "running" /\ call.fn = "build3d" /\ at <= Nx
      /\ call' = call /\ xs' = xs /\ ys' = ys /\ outcome' = outcome
  BY DEF Match3d
<1>2. PICK s \in 1 .. Ny + 1, e \in 1 .. Ny + 1 :
        /\ Moves(lower, s, Before(early)) /\ Moves(upper, e, UpTo(late))
        /\ lower' = s /\ upper' = e
        /\ Found(s, {i \in s .. e - 1 : Close(call, X(at), Y(i))})
  BY DEF Match3d
<1>3. TypeOK /\ Seen(call, xs, ys, at, upper)
  BY <1>1 DEF IInv
<1>4. /\ call \in Calls /\ xs \in Orders(call.x) /\ ys \in Orders(call.y)
      /\ call.x \in Hits /\ call.y \in Hits /\ call.tolerance \in Int
      /\ Nx \in Nat /\ Ny \in Nat /\ Nx = Len(call.x) /\ Ny = Len(call.y)
      /\ at \in 1 .. Nx /\ upper \in 1 .. Ny + 1
  BY <1>1, <1>3, Running
<1>5. \A j \in 1 .. Ny : j < s <=> Time(call.y, ys, j) < Time(call.x, xs, at) - call.tolerance
  BY <1>1, <1>2, LowerStop
<1>6. Time(call.x, xs, at) \in Int
      /\ late \in Int /\ late = Time(call.x, xs, at) + call.tolerance
  <2>1. Time(call.x, xs, at) \in Int
    BY <1>4, Sorted
  <2> QED BY <1>4, <2>1 DEF X, Time
<1>7. ASSUME NEW j \in 1 .. Ny
      PROVE  j < e <=> Time(call.y, ys, j) <= late
  <2> HIDE DEF late
  <2>1. CASE j >= upper
    <3>1. j \in upper .. Ny
      BY <1>4, <2>1
    <3> QED BY <1>1, <1>2, <1>3, <1>4, <1>6, <3>1, UpToStop
  <2>2. CASE j < upper
    <3>1. j \in 1 .. upper - 1 /\ at \in at .. Len(call.x)
      BY <1>4, <2>2
    <3>2. Time(call.y, ys, j) <= Time(call.x, xs, at) + call.tolerance
      BY <1>1, <1>3, <3>1 DEF Seen
    <3>3. e \in upper .. Ny + 1
      BY <1>2 DEF Moves
    <3> QED BY <1>4, <1>6, <2>2, <3>2, <3>3
  <2> QED BY <1>4, <2>1, <2>2
<1> DEFINE M == {i \in s .. e - 1 : Close(call, X(at), Y(i))}
<1>8. ASSUME NEW j \in 1 .. Ny
      PROVE  j \in M <=> Match2(call, xs, ys, at, j)
  <2>1. Time(call.y, ys, j) \in Int
    BY <1>4, Sorted
  <2>2. Match2(call, xs, ys, at, j) <=>
          /\ Time(call.x, xs, at) - Time(call.y, ys, j) <= call.tolerance
          /\ Time(call.y, ys, j) - Time(call.x, xs, at) <= call.tolerance
          /\ Close(call, X(at), Y(j))
    BY <1>1, <1>4, MatchTimes DEF X, Y
  <2>3. j < s <=> Time(call.y, ys, j) < Time(call.x, xs, at) - call.tolerance
    BY <1>5
  <2>4. j < e <=> Time(call.y, ys, j) <= Time(call.x, xs, at) + call.tolerance
    BY <1>6, <1>7
  <2>5. j \in s .. e - 1 <=>
          /\ Time(call.x, xs, at) - Time(call.y, ys, j) <= call.tolerance
          /\ Time(call.y, ys, j) - Time(call.x, xs, at) <= call.tolerance
    <3> HIDE DEF late
    <3> QED BY <1>4, <1>6, <2>1, <2>3, <2>4
  <2> QED BY <2>2, <2>5
<1>9. M \in SUBSET (1 .. Ny)
  BY <1>4
<1>10. /\ at' \in at + 1 .. Nx + 1
       /\ Gone(call, xs, ys, at', s)
       /\ Paired(call, xs, ys, at', pairs')
       /\ pairs' \subseteq (DOMAIN call.x) \X (DOMAIN call.y)
  <2>1. Found(s, M)
    BY <1>2
  <2> HIDE DEF M
  <2> QED BY <1>1, <1>5, <1>8, <1>9, <2>1, FoundKeeps
<1>11. TypeOK'
  BY <1>1, <1>2, <1>3, <1>4, <1>10 DEF TypeOK, Nx, Ny
<1>12. Seen(call, xs, ys, at', e)
  <2> SUFFICES ASSUME NEW k \in at' .. Len(call.x), NEW j \in 1 .. e - 1
               PROVE  Time(call.y, ys, j) <= Time(call.x, xs, k) + call.tolerance
    BY DEF Seen
  <2>1. j \in 1 .. Ny /\ j < e /\ k \in 1 .. Len(call.x) /\ at <= k
    BY <1>4, <1>10
  <2>2. Time(call.y, ys, j) <= Time(call.x, xs, at) + call.tolerance
    BY <1>6, <1>7, <2>1
  <2>3. Time(call.x, xs, at) <= Time(call.x, xs, k) /\ Time(call.x, xs, k) \in Int
        /\ Time(call.y, ys, j) \in Int
    BY <1>4, <2>1, Sorted
  <2>4. call.tolerance \in Int /\ Time(call.x, xs, at) \in Int
    BY <1>4, <1>6
  <2> QED BY <2>2, <2>3, <2>4
<1> QED BY <1>1, <1>2, <1>10, <1>11, <1>12 DEF IInv

LEMMA ReturnKeeps ==
  ASSUME IInv, Return
  PROVE  IInv'
<1>1. outcome = "running" /\ at > Nx /\ outcome' \in {"returned", "raised"}
      /\ UNCHANGED <<call, xs, ys, at, lower, upper, pairs>>
  BY DEF Return
<1>2. TypeOK
  BY DEF IInv
<1>3. at = Len(call.x) + 1
  BY <1>1, <1>2, Running
<1>4. TypeOK'
  BY <1>1, <1>2 DEF TypeOK, Nx, Ny
<1> QED BY <1>1, <1>3, <1>4 DEF IInv

LEMMA NextKeeps == IInv /\ [Next]_vars => IInv'
<1> SUFFICES ASSUME IInv, [Next]_vars
             PROVE  IInv'
  OBVIOUS
<1>1. CASE Start
  BY <1>1, StartKeeps
<1>2. CASE Match
  BY <1>2, MatchKeeps
<1>3. CASE Match3d
  BY <1>3, Match3dKeeps
<1>4. CASE Return
  BY <1>4, ReturnKeeps
<1>5. CASE UNCHANGED vars
  BY <1>5 DEF vars, IInv, TypeOK, Nx, Ny
<1> QED BY <1>1, <1>2, <1>3, <1>4, <1>5 DEF Next

-----------------------------------------------------------------------------
(* The variables keep their types in every call: pointers stay within the  *)
(* hits, pairs are indices of the caller (Hit3DBuilder.py:117-139).        *)
THEOREM TypeCorrect == Spec => []TypeOK
<1>1. IInv => TypeOK
  BY DEF IInv
<1> QED BY <1>1, InitIInv, NextKeeps, PTL DEF Spec

(* Both functions return exactly the pairs of hits whose times match, for  *)
(* any hits, tolerances and orders of equal times                          *)
(* (Hit3DBuilder.py:64-77 and 125-139).                                    *)
THEOREM PairsAreThoseInWindow == Spec => []PairsAreWindow
<1>1. IInv => PairsAreWindow
  <2> SUFFICES ASSUME IInv, outcome \in {"returned", "raised"}
               PROVE  pairs = {r \in (DOMAIN call.x) \X (DOMAIN call.y) :
                                 Matched(call, call.x[r[1]], call.y[r[2]])}
    BY DEF PairsAreWindow
  <2>1. TypeOK /\ Paired(call, xs, ys, at, pairs) /\ at = Len(call.x) + 1
    BY DEF IInv
  <2>2. /\ call \in Calls /\ xs \in Orders(call.x) /\ ys \in Orders(call.y)
        /\ call.x \in Hits /\ call.y \in Hits
        /\ DOMAIN call.x = 1 .. Len(call.x) /\ DOMAIN call.y = 1 .. Len(call.y)
        /\ Len(call.x) \in Nat /\ at - 1 = Len(call.x)
    BY <2>1, Running, Arguments
  <2>3. pairs \subseteq (DOMAIN call.x) \X (DOMAIN call.y)
    BY <2>1 DEF TypeOK
  <2>4. ASSUME NEW r \in pairs
        PROVE  Matched(call, call.x[r[1]], call.y[r[2]])
    <3>1. PICK k \in 1 .. at - 1, j \in 1 .. Len(call.y) :
            r = <<xs[k], ys[j]>> /\ Match2(call, xs, ys, k, j)
      BY <2>1 DEF Paired
    <3>2. r[1] = xs[k] /\ r[2] = ys[j]
      BY <3>1
    <3> QED BY <3>1, <3>2 DEF Match2
  <2>5. ASSUME NEW r \in (DOMAIN call.x) \X (DOMAIN call.y),
               Matched(call, call.x[r[1]], call.y[r[2]])
        PROVE  r \in pairs
    <3>1. r[1] \in 1 .. Len(call.x) /\ r[2] \in 1 .. Len(call.y) /\ r = <<r[1], r[2]>>
      BY <2>2
    <3>2. PICK k \in 1 .. Len(call.x) : xs[k] = r[1]
      BY <2>2, <3>1, Sorted
    <3>3. PICK j \in 1 .. Len(call.y) : ys[j] = r[2]
      BY <2>2, <3>1, Sorted
    <3>4. Match2(call, xs, ys, k, j)
      BY <2>5, <3>2, <3>3 DEF Match2
    <3>5. <<xs[k], ys[j]>> \in pairs
      BY <2>1, <2>2, <3>4 DEF Paired
    <3> QED BY <3>1, <3>2, <3>3, <3>5
  <2> QED BY <2>3, <2>4, <2>5
<1> QED BY <1>1, InitIInv, NextKeeps, PTL DEF Spec

-----------------------------------------------------------------------------
(* The list of points, leg by leg.                                 *)

\* g joins the first sequences of ss, up to the n-th.
Joins(ss, g, n) == g = [i \in 1 .. n |-> IF i = 1 THEN ss[i] ELSE g[i - 1] \o ss[i]]

LEMMA FlattenIsChosen ==
  ASSUME NEW ss, Len(ss) # 0
  PROVE  FlattenSeq(ss) = (CHOOSE g : Joins(ss, g, Len(ss)))[Len(ss)]
  BY DEF FlattenSeq, Joins

LEMMA JoinsExist ==
  ASSUME NEW ss
  PROVE  \A n \in Nat : \E g : Joins(ss, g, n)
<1> DEFINE Good == {n \in Nat : \E g : Joins(ss, g, n)}
<1>1. 0 \in Good
  <2>1. Joins(ss, [i \in 1 .. 0 |-> 0], 0)
    BY DEF Joins
  <2> QED  BY <2>1
<1>2. ASSUME NEW n \in Nat, n \in Good
      PROVE  n + 1 \in Good
  <2>1. PICK g : Joins(ss, g, n)
    BY <1>2
  <2> DEFINE h == [i \in 1 .. n + 1 |->
                     IF i <= n THEN g[i] ELSE IF i = 1 THEN ss[i] ELSE g[n] \o ss[i]]
  <2>2. ASSUME NEW i \in 1 .. n + 1
        PROVE  h[i] = IF i = 1 THEN ss[i] ELSE h[i - 1] \o ss[i]
    <3>1. CASE i <= n
      <4>1. h[i] = g[i] /\ (i # 1 => h[i - 1] = g[i - 1])
        BY <3>1
      <4>2. \A k \in 1 .. n : g[k] = IF k = 1 THEN ss[k] ELSE g[k - 1] \o ss[k]
        BY <2>1, Zenon DEF Joins
      <4>3. i \in 1 .. n
        BY <3>1
      <4> HIDE DEF h
      <4> QED  BY <4>1, <4>2, <4>3
    <3>2. CASE i = n + 1
      <4>1. n >= 1 => h[i - 1] = g[n]
        BY <3>2
      <4>2. h[i] = IF i = 1 THEN ss[i] ELSE g[n] \o ss[i]
        BY <3>2
      <4> QED  BY <3>2, <4>1, <4>2
    <3> QED  BY <3>1, <3>2
  <2>3. Joins(ss, h, n + 1)
    <3>1. h = [i \in 1 .. n + 1 |-> h[i]]
      OBVIOUS
    <3> HIDE DEF h
    <3> QED  BY <2>2, <3>1 DEF Joins
  <2> HIDE DEF h
  <2> QED  BY <2>3
<1> QED
  <2> HIDE DEF Good
  <2>1. \A n \in Nat : n \in Good  BY <1>1, <1>2, NaturalInduction
  <2> QED  BY <2>1 DEF Good

\* What FlattenSeq joins.
LEMMA Flattened ==
  ASSUME NEW ss, NEW n \in Nat \ {0}, Len(ss) = n
  PROVE  \E g : /\ FlattenSeq(ss) = g[n]
                /\ g[1] = ss[1]
                /\ \A i \in 1 .. n - 1 : g[i + 1] = g[i] \o ss[i + 1]
<1> DEFINE g == CHOOSE g : Joins(ss, g, n)
<1>1. Joins(ss, g, n)
  BY JoinsExist
<1>2. FlattenSeq(ss) = g[n]
  BY FlattenIsChosen
<1> HIDE DEF g
<1>3. g[1] = ss[1]
  BY <1>1 DEF Joins
<1>4. ASSUME NEW i \in 1 .. n - 1  PROVE g[i + 1] = g[i] \o ss[i + 1]
  <2>1. i + 1 \in 1 .. n /\ i + 1 # 1 /\ (i + 1) - 1 = i
    OBVIOUS
  <2>2. \A k \in 1 .. n : g[k] = IF k = 1 THEN ss[k] ELSE g[k - 1] \o ss[k]
    BY <1>1, Zenon DEF Joins
  <2> QED  BY <2>1, <2>2
<1> QED  BY <1>2, <1>3, <1>4

-----------------------------------------------------------------------------
(* Numbers.                                                                *)

LEMMA SquaresGrow ==
  ASSUME NEW a \in Nat, NEW b \in Nat, a <= b
  PROVE  Square(a) \in Nat /\ Square(b) \in Nat /\ Square(a) <= Square(b)
<1>1. a * a \in Nat /\ b * b \in Nat /\ a * a <= b * b
  BY Z3
<1> QED  BY <1>1 DEF Square

LEMMA TimesGrows ==
  ASSUME NEW a \in Nat, NEW b \in Nat, NEW n \in Nat, a <= b
  PROVE  a * n \in Nat /\ b * n \in Nat /\ a * n <= b * n
  BY Z3

\* How many steps fit: the root of N, in steps.
LEMMA StepsFit ==
  ASSUME NEW N \in Nat
  PROVE  \E n \in 0 .. N : Square(n * Precision) <= N /\ N < Square((n + 1) * Precision)
<1> DEFINE Fits(N0, n) == Square(n * Precision) <= N0 /\ N0 < Square((n + 1) * Precision)
           Good == {N0 \in Nat : \E n \in 0 .. N0 : Fits(N0, n)}
<1>1. Precision \in Nat /\ Precision >= 1
  BY PrecisionAssumption
<1>2. ASSUME NEW n \in Nat  PROVE n * Precision \in Nat /\ (n + 1) * Precision = n * Precision + Precision
  BY <1>1, Z3
<1>3. ASSUME NEW n \in Nat
      PROVE  /\ Square(n * Precision) \in Nat
             /\ Square(n * Precision) + 1 <= Square((n + 1) * Precision)
  <2> DEFINE a == n * Precision
             b == (n + 1) * Precision
  <2>1. a \in Nat /\ b \in Nat /\ a + 1 <= b
    BY <1>1, <1>2
  <2> HIDE DEF a, b
  <2>2. a * a \in Nat /\ a * a + 1 <= b * b
    BY <2>1, Z3
  <2> QED  BY <2>2 DEF Square, a, b
<1>4. 0 \in Good
  <2>1. Square(0 * Precision) = 0
    BY <1>1 DEF Square
  <2>2. 0 < Square((0 + 1) * Precision)
    BY <1>3, <2>1
  <2>3. Fits(0, 0)
    BY <2>1, <2>2
  <2>4. 0 \in 0 .. 0 /\ 0 \in Nat
    OBVIOUS
  <2> QED  BY <2>3, <2>4
<1>5. ASSUME NEW N0 \in Nat, N0 \in Good
      PROVE  N0 + 1 \in Good
  <2>1. PICK n \in 0 .. N0 : Fits(N0, n)
    BY <1>5
  <2>2. n \in Nat /\ n + 1 \in Nat /\ n \in 0 .. N0 + 1 /\ n + 1 \in 0 .. N0 + 1 /\ N0 + 1 \in Nat
    OBVIOUS
  <2>3. /\ Square(n * Precision) \in Nat
        /\ Square((n + 1) * Precision) \in Nat
        /\ Square((n + 1) * Precision) + 1 <= Square(((n + 1) + 1) * Precision)
        /\ Square(((n + 1) + 1) * Precision) \in Nat
    BY <1>3, <2>2, (n + 1) + 1 \in Nat
  <2>4. CASE N0 + 1 < Square((n + 1) * Precision)
    <3>1. Fits(N0 + 1, n)
      BY <2>1, <2>3, <2>4
    <3> QED  BY <2>2, <3>1
  <2>5. CASE ~ (N0 + 1 < Square((n + 1) * Precision))
    <3>1. Fits(N0 + 1, n + 1)
      BY <2>1, <2>3, <2>5
    <3> QED  BY <2>2, <3>1
  <2> QED  BY <2>4, <2>5
<1>6. \A n \in Nat : n \in Good
  <2> HIDE DEF Good
  <2> QED  BY <1>4, <1>5, NaturalInduction
<1> QED  BY <1>6

LEMMA LargestExists ==
  ASSUME NEW n \in Nat
  PROVE  \A S \in SUBSET (0 .. n) : S # {} => Max(S) \in S /\ \A x \in S : x <= Max(S)
<1> DEFINE Has(S) == \E m \in S : \A x \in S : m >= x
           Good == {k \in Nat : \A S \in SUBSET (0 .. k) : S # {} => Has(S)}
<1>1. 0 \in Good
  <2> SUFFICES ASSUME NEW S \in SUBSET (0 .. 0), S # {}  PROVE Has(S)
    OBVIOUS
  <2>1. \A x \in S : x = 0
    OBVIOUS
  <2>2. PICK m \in S : TRUE
    OBVIOUS
  <2>3. m = 0 /\ \A x \in S : m >= x
    BY <2>1
  <2> QED  BY <2>3
<1>2. ASSUME NEW k \in Nat, k \in Good
      PROVE  k + 1 \in Good
  <2> SUFFICES ASSUME NEW S \in SUBSET (0 .. k + 1), S # {}  PROVE Has(S)
    OBVIOUS
  <2>1. CASE k + 1 \in S
    BY <2>1
  <2>2. CASE k + 1 \notin S
    <3>1. S \in SUBSET (0 .. k)
      BY <2>2
    <3> QED  BY <1>2, <3>1
  <2> QED  BY <2>1, <2>2
<1>3. \A k \in Nat : k \in Good
  <2> HIDE DEF Good
  <2> QED  BY <1>1, <1>2, NaturalInduction
<1> SUFFICES ASSUME NEW S \in SUBSET (0 .. n), S # {}
             PROVE  Max(S) \in S /\ \A x \in S : x <= Max(S)
  OBVIOUS
<1>4. Has(S)
  BY <1>3
<1>5. Max(S) \in S /\ \A x \in S : Max(S) >= x
  BY <1>4 DEF Max
<1> QED  BY <1>5

-----------------------------------------------------------------------------
(* A hit and a leg.                                                        *)

\* What the points are made of when the walk is over.
Placed ==
  /\ \A h \in DOMAIN event : event[h].at \in Places
  /\ Path \in [1 .. NumClusters -> Places]

LEMMA SquareIsNat ==
  ASSUME NEW n \in Int
  PROVE  Square(n) \in Nat
  BY Z3 DEF Square

LEMMA Vectors ==
  ASSUME NEW u \in Places, NEW v \in Places
  PROVE  /\ Minus(u, v) \in Places /\ Dot(u, v) \in Int /\ Dot(u, u) \in Nat
         /\ (u[1] # 0 \/ u[2] # 0) => Dot(u, u) # 0
<1>1. /\ u[1] \in Int /\ u[2] \in Int /\ u[3] \in Int
      /\ v[1] \in Int /\ v[2] \in Int /\ v[3] \in Int
  BY DEF Places
<1>2. ASSUME NEW a \in Int, NEW b \in Int  PROVE a * b \in Int /\ a * a >= 0 /\ (a # 0 => a * a # 0)
  BY Z3
<1>3. /\ u[1] * v[1] \in Int /\ u[2] * v[2] \in Int /\ u[3] * v[3] \in Int
      /\ u[1] * u[1] \in Nat /\ u[2] * u[2] \in Nat /\ u[3] * u[3] \in Nat
      /\ u[1] # 0 => u[1] * u[1] # 0
      /\ u[2] # 0 => u[2] * u[2] # 0
  BY <1>1, <1>2
<1>4. Minus(u, v) \in Places
  BY <1>1 DEF Minus, Places
<1>5. Dot(u, v) \in Int
  BY <1>3 DEF Dot
<1>6. Dot(u, u) \in Nat /\ (u[1] # 0 \/ u[2] # 0 => Dot(u, u) # 0)
  <2>1. ASSUME NEW a \in Nat, NEW b \in Nat, NEW c \in Nat
        PROVE  a + b + c \in Nat /\ (a # 0 \/ b # 0 => a + b + c # 0)
    OBVIOUS
  <2>2. Dot(u, u) = u[1] * u[1] + u[2] * u[2] + u[3] * u[3]
    BY DEF Dot
  <2>3. /\ Dot(u, u) \in Nat
        /\ (u[1] * u[1] # 0 \/ u[2] * u[2] # 0) => Dot(u, u) # 0
    BY <1>3, <2>1, <2>2
  <2> QED  BY <1>3, <2>3
<1> QED  BY <1>4, <1>5, <1>6

LEMMA Measures ==
  ASSUME Placed, NEW i \in Legs, NEW h \in DOMAIN event
  PROVE  /\ LengthSq(i) \in Nat /\ FromSq(h, i) \in Nat /\ Ahead(h, i) \in Int
         /\ ~ NoAxis(i) => LengthSq(i) # 0
<1>1. i \in 1 .. NumClusters /\ i + 1 \in 1 .. NumClusters
  BY ClustersAssumption DEF Legs
<1>2. Path[i] \in Places /\ Path[i + 1] \in Places /\ event[h].at \in Places
  BY <1>1 DEF Placed
<1>3. Way(i) \in Places /\ From(h, i) \in Places
  BY <1>2, Vectors DEF Way, From
<1>4. LengthSq(i) \in Nat /\ FromSq(h, i) \in Nat /\ Ahead(h, i) \in Int
  BY <1>3, Vectors DEF LengthSq, FromSq, Ahead
<1>5. ~ NoAxis(i) => LengthSq(i) # 0
  BY <1>3, Vectors DEF LengthSq, NoAxis
<1> QED  BY <1>4, <1>5

LEMMA WholeSteps ==
  ASSUME Placed, NEW i \in Legs
  PROVE  /\ Whole(i) \in Nat
         /\ Square(Whole(i) * Precision) <= LengthSq(i)
         /\ LengthSq(i) < Square((Whole(i) + 1) * Precision)
<1>1. LengthSq(i) \in Nat
  <2>1. i \in 1 .. NumClusters /\ i + 1 \in 1 .. NumClusters
    BY ClustersAssumption DEF Legs
  <2>2. Path[i] \in Places /\ Path[i + 1] \in Places
    BY <2>1 DEF Placed
  <2> QED  BY <2>2, Vectors DEF LengthSq, Way
<1>2. \E n \in 0 .. LengthSq(i) :
        /\ Square(n * Precision) <= LengthSq(i)
        /\ LengthSq(i) < Square((n + 1) * Precision)
  BY <1>1, StepsFit
<1>3. /\ Whole(i) \in 0 .. LengthSq(i)
      /\ Square(Whole(i) * Precision) <= LengthSq(i)
      /\ LengthSq(i) < Square((Whole(i) + 1) * Precision)
  BY <1>2 DEF Whole
<1> QED  BY <1>1, <1>3

\* A point j steps ahead is passed later than one l steps ahead.
LEMMA PassedInOrder ==
  ASSUME Placed, NEW i \in Legs, NEW h \in DOMAIN event
  PROVE  /\ Passed(h, i, Stop(i, 0)) <=> Ahead(h, i) >= 0
         /\ \A j \in Nat : Passed(h, i, Stop(i, j)) => Ahead(h, i) >= 0
         /\ \A j, l \in Nat : l <= j /\ Passed(h, i, Stop(i, j)) => Passed(h, i, Stop(i, l))
         /\ \A j \in 0 .. Whole(i) : Ahead(h, i) >= LengthSq(i) => Passed(h, i, Stop(i, j))
<1> DEFINE s == Ahead(h, i)
           N == LengthSq(i)
           k == Whole(i)
<1>1. s \in Int /\ N \in Nat /\ k \in Nat /\ Precision \in Nat
  BY Measures, WholeSteps, PrecisionAssumption
<1>2. \A j : Passed(h, i, Stop(i, j)) <=> s >= 0 /\ Square(s) >= Square(j * Precision) * N
  BY DEF Passed, Stop
<1>3. Square(k * Precision) <= N
  BY WholeSteps
<1> HIDE DEF s, N, k
<1>4. \A j \in Nat : j * Precision \in Nat
  BY <1>1, Z3
<1>5. Square(s) \in Nat
  BY <1>1, SquareIsNat
<1>6. Passed(h, i, Stop(i, 0)) <=> s >= 0
  <2>1. Square(0 * Precision) * N = 0
    BY <1>1 DEF Square
  <2> QED  BY <1>2, <1>5, <2>1
<1>7. ASSUME NEW j \in Nat, NEW l \in Nat, l <= j
      PROVE  /\ Square(l * Precision) * N \in Nat /\ Square(j * Precision) * N \in Nat
             /\ Square(l * Precision) * N <= Square(j * Precision) * N
             /\ Square(l * Precision) <= Square(j * Precision)
             /\ Square(l * Precision) \in Nat /\ Square(j * Precision) \in Nat
  <2>1. l * Precision <= j * Precision
    BY <1>1, <1>7, TimesGrows
  <2>2. /\ Square(l * Precision) \in Nat /\ Square(j * Precision) \in Nat
        /\ Square(l * Precision) <= Square(j * Precision)
    BY <1>4, <2>1, SquaresGrow
  <2> QED  BY <1>1, <2>2, TimesGrows
<1>8. ASSUME NEW j \in Nat, NEW l \in Nat, l <= j, Passed(h, i, Stop(i, j))
      PROVE  Passed(h, i, Stop(i, l))
  BY <1>2, <1>5, <1>7, <1>8
<1>9. ASSUME NEW j \in 0 .. k, s >= N
      PROVE  Passed(h, i, Stop(i, j))
  <2>1. j \in Nat /\ j <= k
    BY <1>1
  <2>2. Square(j * Precision) \in Nat /\ Square(j * Precision) <= N
    <3>1. /\ Square(j * Precision) <= Square(k * Precision)
          /\ Square(j * Precision) \in Nat /\ Square(k * Precision) \in Nat
      BY <1>1, <1>7, <2>1
    <3> QED  BY <1>1, <1>3, <3>1
  <2>3. Square(j * Precision) * N <= N * N
    BY <1>1, <2>2, TimesGrows
  <2>4. N * N <= Square(s)
    BY <1>1, <1>9, SquaresGrow DEF Square
  <2>5. Square(j * Precision) * N \in Nat /\ N * N \in Nat
    BY <1>1, <2>2, TimesGrows
  <2> QED  BY <1>1, <1>2, <1>5, <1>9, <2>3, <2>4, <2>5
<1> QED  BY <1>2, <1>6, <1>8, <1>9 DEF s, N, k

LEMMA LastIsLast ==
  ASSUME Placed, NEW i \in Legs, NEW h \in DOMAIN event, Ahead(h, i) >= 0
  PROVE  LET m == LastPassed(h, i) IN
         /\ m \in Nat /\ (m = 0 \/ m < Whole(i))
         /\ Passed(h, i, Stop(i, m))
         /\ \A l \in Nat : l < Whole(i) /\ Passed(h, i, Stop(i, l)) => l <= m
<1> DEFINE k == Whole(i)
           S == {j \in 0 .. k : (j = 0 \/ j < k) /\ Passed(h, i, Stop(i, j))}
<1>1. k \in Nat
  BY WholeSteps
<1>2. Passed(h, i, Stop(i, 0))
  BY PassedInOrder
<1>3. LastPassed(h, i) = Max(S)
  BY DEF LastPassed
<1>4. S \in SUBSET (0 .. k) /\ S # {}
  BY <1>1, <1>2
<1> HIDE DEF k
<1>5. Max(S) \in S /\ \A x \in S : x <= Max(S)
  <2> HIDE DEF S
  <2> QED  BY <1>1, <1>4, LargestExists
<1>6. /\ Max(S) \in Nat /\ (Max(S) = 0 \/ Max(S) < k)
      /\ Passed(h, i, Stop(i, Max(S)))
  BY <1>1, <1>5
<1>7. ASSUME NEW l \in Nat, l < k, Passed(h, i, Stop(i, l))
      PROVE  l <= Max(S)
  <2>1. l \in S
    BY <1>1, <1>7
  <2> QED  BY <1>5, <2>1
<1> QED  BY <1>3, <1>6, <1>7 DEF k

-----------------------------------------------------------------------------
(* The pieces of a leg.                                                    *)

Points == [leg : 1 .. NumClusters, step : Nat]

LEMMA StopsAre ==
  ASSUME Placed, NEW i \in Legs
  PROVE  /\ Stops(i) \in Seq(Points) /\ Len(Stops(i)) = Whole(i) + 1
         /\ \A j \in 1 .. Whole(i) : Stops(i)[j] = Stop(i, j - 1)
         /\ Stops(i)[Whole(i) + 1] = Stop(i + 1, 0)
<1> DEFINE k == Whole(i)
           w == [j \in 1 .. k |-> Stop(i, j - 1)]
           b == Stop(i + 1, 0)
<1>1. k \in Nat /\ i \in 1 .. NumClusters /\ i + 1 \in 1 .. NumClusters
  BY WholeSteps, ClustersAssumption DEF Legs
<1>2. Stops(i) = w \o <<b>>
  BY DEF Stops
<1> HIDE DEF k
<1>3. \A j \in 1 .. k : Stop(i, j - 1) \in Points
  BY <1>1 DEF Stop, Points
<1>4. w \in Seq(Points) /\ Len(w) = k
  <2>1. w \in [1 .. k -> Points]
    BY <1>3
  <2> QED  BY <1>1, <2>1
<1>5. b \in Points
  BY <1>1 DEF Stop, Points
<1>6. \A j \in 1 .. k : w[j] = Stop(i, j - 1)
  OBVIOUS
<1> HIDE DEF w, b
<1>7. /\ w \o <<b>> \in Seq(Points) /\ Len(w \o <<b>>) = k + 1
      /\ \A j \in 1 .. k : (w \o <<b>>)[j] = w[j]
      /\ (w \o <<b>>)[k + 1] = b
  BY <1>1, <1>4, <1>5
<1> QED  BY <1>2, <1>6, <1>7 DEF k, b

LEMMA StopsEnd ==
  ASSUME Placed, NEW i \in Legs
  PROVE  /\ Stops(i) \in Seq(Points) /\ Len(Stops(i)) # 0
         /\ Stops(i)[Len(Stops(i))] = Stop(i + 1, 0)
<1>1. /\ Stops(i) \in Seq(Points) /\ Len(Stops(i)) = Whole(i) + 1
      /\ Stops(i)[Whole(i) + 1] = Stop(i + 1, 0)
  BY StopsAre
<1>2. Whole(i) + 1 # 0
  <2>1. Whole(i) \in Nat
    BY WholeSteps
  <2> QED  BY <2>1
<1> QED  BY <1>1, <1>2

\* A piece from a stop of the leg to the next one, or to the next centre.
LEMMA PieceOfStop ==
  ASSUME NEW i \in Nat, NEW j \in Nat, NEW h \in DOMAIN event
  PROVE  /\ h \in Selected(Stop(i, j), Stop(i, j + 1)) <=>
              /\ ~ NoAxis(i) /\ Passed(h, i, Stop(i, j)) /\ ~ Passed(h, i, Stop(i, j + 1))
              /\ Near(h, Stop(i, j))
         /\ h \in Selected(Stop(i, j), Stop(i + 1, 0)) <=>
              /\ ~ NoAxis(i) /\ Passed(h, i, Stop(i, j)) /\ ~ (Ahead(h, i) >= LengthSq(i))
              /\ Near(h, Stop(i, j))
         /\ h \notin Selected(Stop(i, j), Stop(i, j))
<1>1. Stop(i, j) # Stop(i, j + 1) /\ Stop(i, j) # Stop(i + 1, 0)
  <2>1. Stop(i, j).step # Stop(i, j + 1).step /\ Stop(i, j).leg # Stop(i + 1, 0).leg
    BY DEF Stop
  <2> QED  BY <2>1
<1>2. Stop(i, j).leg = i
  BY DEF Stop
<1>3. Passed(h, i, Stop(i + 1, 0)) <=> Ahead(h, i) >= LengthSq(i)
  <2>1. Stop(i + 1, 0).leg # i
    BY DEF Stop
  <2> QED  BY <2>1 DEF Passed
<1>4. \A p, q : h \in Selected(p, q) <=>
        /\ p # q /\ ~ NoAxis(p.leg) /\ Passed(h, p.leg, p) /\ ~ Passed(h, p.leg, q)
        /\ Near(h, p)
  BY DEF Selected
<1>5. h \in Selected(Stop(i, j), Stop(i, j + 1)) <=>
        /\ ~ NoAxis(i) /\ Passed(h, i, Stop(i, j)) /\ ~ Passed(h, i, Stop(i, j + 1))
        /\ Near(h, Stop(i, j))
  BY <1>1, <1>2, <1>4
<1>6. h \in Selected(Stop(i, j), Stop(i + 1, 0)) <=>
        /\ ~ NoAxis(i) /\ Passed(h, i, Stop(i, j)) /\ ~ (Ahead(h, i) >= LengthSq(i))
        /\ Near(h, Stop(i, j))
  BY <1>1, <1>2, <1>3, <1>4
<1>7. h \notin Selected(Stop(i, j), Stop(i, j))
  BY <1>4
<1> QED  BY <1>5, <1>6, <1>7

\* The j-th piece of the leg selects h; the one before the first is the seam
\* with the leg before, which the first leg does not have.
Selects(h, i, j) ==
  IF j = 0 THEN i # 1 /\ h \in Selected(Stop(i, 0), Stops(i)[1])
  ELSE h \in Selected(Stops(i)[j], Stops(i)[j + 1])

LEMMA WholePiece ==
  ASSUME Placed, NEW i \in Legs, NEW h \in DOMAIN event, NEW j \in 1 .. Whole(i)
  PROVE  Selects(h, i, j) <=>
           /\ ~ NoAxis(i) /\ Passed(h, i, Stop(i, j - 1))
           /\ ~ (IF j < Whole(i) THEN Passed(h, i, Stop(i, j)) ELSE Ahead(h, i) >= LengthSq(i))
           /\ Near(h, Stop(i, j - 1))
<1> DEFINE k == Whole(i)
<1>1. k \in Nat /\ i \in Nat
  BY WholeSteps, ClustersAssumption DEF Legs
<1>2. j \in 1 .. k
  OBVIOUS
<1>3. Selects(h, i, j) <=> h \in Selected(Stops(i)[j], Stops(i)[j + 1])
  BY <1>1, <1>2 DEF Selects
<1>4. Stops(i)[j] = Stop(i, j - 1)
  BY StopsAre
<1>5. Stops(i)[j + 1] = IF j < k THEN Stop(i, j) ELSE Stop(i + 1, 0)
  <2>1. CASE j < k
    <3>1. j + 1 \in 1 .. k /\ (j + 1) - 1 = j
      BY <1>1, <1>2, <2>1
    <3> QED  BY <2>1, <3>1, StopsAre DEF k
  <2>2. CASE ~ (j < k)
    <3>1. j = k
      BY <1>1, <1>2, <2>2
    <3> QED  BY <2>2, <3>1, StopsAre DEF k
  <2> QED  BY <2>1, <2>2
<1>6. j - 1 \in Nat /\ (j - 1) + 1 = j
  BY <1>1, <1>2
<1> HIDE DEF k
<1>7. CASE j < k
  <2>1. h \in Selected(Stop(i, j - 1), Stop(i, (j - 1) + 1)) <=>
          /\ ~ NoAxis(i) /\ Passed(h, i, Stop(i, j - 1)) /\ ~ Passed(h, i, Stop(i, (j - 1) + 1))
          /\ Near(h, Stop(i, j - 1))
    BY <1>1, <1>6, PieceOfStop
  <2> QED  BY <1>3, <1>4, <1>5, <1>6, <1>7, <2>1 DEF k
<1>8. CASE ~ (j < k)
  <2>1. h \in Selected(Stop(i, j - 1), Stop(i + 1, 0)) <=>
          /\ ~ NoAxis(i) /\ Passed(h, i, Stop(i, j - 1)) /\ ~ (Ahead(h, i) >= LengthSq(i))
          /\ Near(h, Stop(i, j - 1))
    BY <1>1, <1>6, PieceOfStop
  <2> QED  BY <1>3, <1>4, <1>5, <1>8, <2>1 DEF k
<1> QED  BY <1>7, <1>8

LEMMA PieceOfSeam ==
  ASSUME Placed, NEW i \in Legs, NEW h \in DOMAIN event
  PROVE  Selects(h, i, 0) <=>
           /\ i # 1 /\ Whole(i) = 0 /\ ~ NoAxis(i)
           /\ 0 <= Ahead(h, i) /\ Ahead(h, i) < LengthSq(i)
           /\ Near(h, Stop(i, 0))
<1>1. Whole(i) \in Nat /\ i \in Nat /\ 0 \in Nat
  BY WholeSteps, ClustersAssumption DEF Legs
<1>2. Selects(h, i, 0) <=> i # 1 /\ h \in Selected(Stop(i, 0), Stops(i)[1])
  BY DEF Selects
<1>3. Passed(h, i, Stop(i, 0)) <=> 0 <= Ahead(h, i)
  <2>1. Ahead(h, i) \in Int
    BY Measures
  <2> QED  BY <2>1, PassedInOrder
<1>4. ~ (Ahead(h, i) >= LengthSq(i)) <=> Ahead(h, i) < LengthSq(i)
  <2>1. Ahead(h, i) \in Int /\ LengthSq(i) \in Int
    BY Measures
  <2> QED  BY <2>1
<1>5. CASE Whole(i) = 0
  <2>1. Stops(i)[1] = Stop(i + 1, 0)
    <3>1. Stops(i)[0 + 1] = Stop(i + 1, 0)
      BY <1>5, StopsAre
    <3> QED  BY <3>1
  <2>2. h \in Selected(Stop(i, 0), Stop(i + 1, 0)) <=>
          /\ ~ NoAxis(i) /\ Passed(h, i, Stop(i, 0)) /\ ~ (Ahead(h, i) >= LengthSq(i))
          /\ Near(h, Stop(i, 0))
    BY <1>1, PieceOfStop
  <2> QED  BY <1>2, <1>3, <1>4, <1>5, <2>1, <2>2
<1>6. CASE Whole(i) # 0
  <2>1. 1 \in 1 .. Whole(i) /\ 1 - 1 = 0
    BY <1>1, <1>6
  <2>2. Stops(i)[1] = Stop(i, 0)
    BY <2>1, StopsAre
  <2>3. h \notin Selected(Stop(i, 0), Stop(i, 0))
    BY <1>1, PieceOfStop
  <2> QED  BY <1>2, <1>6, <2>2, <2>3
<1> QED  BY <1>5, <1>6

\* A leg has one piece for a hit it reaches and none for the others.
LEMMA OnePiece ==
  ASSUME Placed, NEW i \in Legs, NEW h \in DOMAIN event
  PROVE  \E e \in 0 .. Whole(i) : \A j \in 0 .. Whole(i) :
           Selects(h, i, j) <=> h \in Reached(i) /\ j = e
<1> DEFINE k == Whole(i)
           s == Ahead(h, i)
           N == LengthSq(i)
           m == LastPassed(h, i)
<1>1. k \in Nat /\ s \in Int /\ N \in Nat
  BY WholeSteps, Measures
<1>2. s >= 0 =>
        /\ m \in Nat /\ (m = 0 \/ m < k)
        /\ Passed(h, i, Stop(i, m))
        /\ \A l \in Nat : l < k /\ Passed(h, i, Stop(i, l)) => l <= m
  BY LastIsLast
<1>3. h \in Reached(i) <=>
        /\ ~ NoAxis(i) /\ (i = 1 => k > 0) /\ 0 <= s /\ s < N
        /\ Near(h, Stop(i, m))
  BY DEF Reached
<1>4. Selects(h, i, 0) <=>
        /\ i # 1 /\ k = 0 /\ ~ NoAxis(i) /\ 0 <= s /\ s < N /\ Near(h, Stop(i, 0))
  BY PieceOfSeam
<1>5. \A j \in 1 .. k :
        Selects(h, i, j) <=>
           /\ ~ NoAxis(i) /\ Passed(h, i, Stop(i, j - 1))
           /\ ~ (IF j < k THEN Passed(h, i, Stop(i, j)) ELSE s >= N)
           /\ Near(h, Stop(i, j - 1))
  BY WholePiece
<1>6. /\ \A j \in Nat : Passed(h, i, Stop(i, j)) => s >= 0
      /\ \A j, l \in Nat : l <= j /\ Passed(h, i, Stop(i, j)) => Passed(h, i, Stop(i, l))
      /\ \A j \in 0 .. k : s >= N => Passed(h, i, Stop(i, j))
  BY PassedInOrder
<1> HIDE DEF k, s, N, m
<1>7. CASE k = 0
  <2>1. s >= 0 => m = 0
    BY <1>1, <1>2, <1>7
  <2>2. Selects(h, i, 0) <=> h \in Reached(i)
    <3>1. k = 0 /\ ~ (k > 0)
      BY <1>7
    <3>2. CASE s >= 0
      BY <1>1, <1>3, <1>4, <2>1, <3>1, <3>2
    <3>3. CASE ~ (s >= 0)
      BY <1>1, <1>3, <1>4, <3>3
    <3> QED  BY <3>2, <3>3
  <2>3. 0 \in 0 .. k /\ \A j \in 0 .. k : j = 0
    BY <1>7
  <2> QED  BY <2>2, <2>3 DEF k
<1>8. CASE k # 0
  <2>1. ~ Selects(h, i, 0)
    BY <1>4, <1>8
  \* The j-th piece starts at the last stop passed.
  <2>2. ASSUME NEW j \in 1 .. k, Selects(h, i, j)
        PROVE  h \in Reached(i) /\ j = m + 1
    <3>1. /\ ~ NoAxis(i) /\ Passed(h, i, Stop(i, j - 1))
          /\ ~ (IF j < k THEN Passed(h, i, Stop(i, j)) ELSE s >= N)
          /\ Near(h, Stop(i, j - 1))
      BY <1>5, <2>2
    <3>2. j \in Nat /\ j - 1 \in Nat /\ j - 1 < k /\ j \in 0 .. k
      BY <1>1
    <3>3. s >= 0
      BY <1>6, <3>1, <3>2
    <3>4. s < N
      <4>1. CASE j < k
        BY <1>1, <1>6, <3>1, <3>2, <4>1
      <4>2. CASE ~ (j < k)
        BY <1>1, <3>1, <4>2
      <4> QED  BY <4>1, <4>2
    <3>5. j - 1 <= m /\ m \in Nat /\ Passed(h, i, Stop(i, m)) /\ (m = 0 \/ m < k)
      BY <1>2, <3>1, <3>2, <3>3
    <3>6. m = j - 1
      <4> SUFFICES ASSUME j <= m  PROVE FALSE
        BY <3>2, <3>5
      <4>1. j < k
        BY <1>1, <3>2, <3>5
      <4>2. Passed(h, i, Stop(i, j))
        BY <1>6, <3>2, <3>5
      <4> QED  BY <3>1, <4>1, <4>2
    <3>7. h \in Reached(i)
      BY <1>1, <1>3, <1>8, <3>1, <3>3, <3>4, <3>6
    <3> QED  BY <3>2, <3>5, <3>6, <3>7
  <2>3. ASSUME h \in Reached(i)
        PROVE  m + 1 \in 1 .. k /\ Selects(h, i, m + 1)
    <3>1. /\ ~ NoAxis(i) /\ 0 <= s /\ s < N /\ Near(h, Stop(i, m))
      BY <1>3, <2>3
    <3>2. /\ m \in Nat /\ m < k /\ Passed(h, i, Stop(i, m))
          /\ \A l \in Nat : l < k /\ Passed(h, i, Stop(i, l)) => l <= m
      BY <1>1, <1>2, <1>8, <3>1
    <3>3. m + 1 \in 1 .. k /\ (m + 1) - 1 = m /\ m + 1 \in Nat /\ ~ (m + 1 <= m)
      BY <1>1, <3>2
    <3>4. ~ (IF m + 1 < k THEN Passed(h, i, Stop(i, m + 1)) ELSE s >= N)
      <4>1. CASE m + 1 < k
        BY <3>2, <3>3, <4>1
      <4>2. CASE ~ (m + 1 < k)
        BY <1>1, <3>1, <4>2
      <4> QED  BY <4>1, <4>2
    <3> QED  BY <1>5, <3>1, <3>2, <3>3, <3>4
  <2> DEFINE e == IF h \in Reached(i) THEN m + 1 ELSE 0
  <2>4. e \in 0 .. k
    BY <1>1, <2>3
  <2>5. ASSUME NEW j \in 0 .. k
        PROVE  Selects(h, i, j) <=> h \in Reached(i) /\ j = e
    <3>1. CASE h \in Reached(i)
      <4>1. e = m + 1 /\ m + 1 \in 1 .. k /\ Selects(h, i, m + 1)
        BY <2>3, <3>1
      <4>2. Selects(h, i, j) => j = m + 1
        <5>1. CASE j = 0
          BY <2>1, <5>1
        <5>2. CASE j # 0
          <6>1. j \in 1 .. k
            BY <1>1, <5>2
          <6> QED  BY <2>2, <6>1
        <5> QED  BY <5>1, <5>2
      <4> HIDE DEF e
      <4> QED  BY <3>1, <4>1, <4>2
    <3>2. CASE h \notin Reached(i)
      <4>1. ~ Selects(h, i, j)
        <5>1. CASE j = 0
          BY <2>1, <5>1
        <5>2. CASE j # 0
          <6>1. j \in 1 .. k
            BY <1>1, <5>2
          <6> QED  BY <2>2, <3>2, <6>1
        <5> QED  BY <5>1, <5>2
      <4> QED  BY <3>2, <4>1
    <3> QED  BY <3>1, <3>2
  <2> HIDE DEF e
  <2> QED  BY <2>4, <2>5 DEF k
<1> QED  BY <1>7, <1>8

-----------------------------------------------------------------------------
(* The pieces of the whole list of points.                                 *)

\* Where the piece from a point of p to the next selects h.
Marks(p, h) == {i \in 1 .. Len(p) - 1 : h \in Selected(p[i], p[i + 1])}

\* A leg adds one mark or none to the points before it.
LEMMA MarksOfLeg ==
  ASSUME Placed, NEW r \in Legs, r # 1, NEW h \in DOMAIN event,
         NEW p \in Seq(Points), Len(p) # 0, p[Len(p)] = Stop(r, 0)
  PROVE  \E e \in Nat :
           /\ e \notin Marks(p, h)
           /\ Marks(p \o Stops(r), h) =
                Marks(p, h) \cup IF h \in Reached(r) THEN {e} ELSE {}
<1> DEFINE m == Len(p)
           s == Stops(r)
           q == p \o s
           k == Whole(r)
           T == h \in Reached(r)
<1>1. m \in Nat /\ m >= 1 /\ p[m] = Stop(r, 0)
  BY LenProperties
<1>2. s \in Seq(Points) /\ Len(s) = k + 1 /\ k \in Nat
  BY StopsAre, WholeSteps
<1>3. PICK e \in 0 .. k : \A j \in 0 .. k : Selects(h, r, j) <=> T /\ j = e
  BY OnePiece
<1>4. \A j \in 0 .. k : Selects(h, r, j) <=>
        IF j = 0 THEN h \in Selected(p[m], s[1]) ELSE h \in Selected(s[j], s[j + 1])
  BY <1>1 DEF Selects
<1> HIDE DEF k, s, T
<1>5. Len(q) = m + k + 1 /\ \A i \in 1 .. Len(q) : q[i] = IF i <= m THEN p[i] ELSE s[i - m]
  BY <1>1, <1>2
<1> HIDE DEF q
<1>6. Marks(q, h) = Marks(p, h) \cup {i \in m .. m + k : h \in Selected(q[i], q[i + 1])}
  <2>1. ASSUME NEW i \in 1 .. m - 1
        PROVE  q[i] = p[i] /\ q[i + 1] = p[i + 1]
    <3>1. i \in 1 .. Len(q) /\ i + 1 \in 1 .. Len(q) /\ i <= m /\ i + 1 <= m
      BY <1>1, <1>2, <1>5
    <3> QED  BY <1>5, <3>1
  <2>2. 1 .. Len(q) - 1 = (1 .. m - 1) \cup (m .. m + k)
    BY <1>1, <1>2, <1>5
  <2> QED  BY <2>1, <2>2 DEF Marks
<1>7. ASSUME NEW i \in m .. m + k
      PROVE  h \in Selected(q[i], q[i + 1]) <=> T /\ i = m + e
  <2> DEFINE j == i - m
  <2>1. j \in 0 .. k /\ i = m + j
    BY <1>1, <1>2
  <2>2. h \in Selected(q[i], q[i + 1]) <=> Selects(h, r, j)
    <3>1. CASE j = 0
      <4>1. q[i] = p[m] /\ q[i + 1] = s[1]
        <5>1. i = m /\ i \in 1 .. Len(q) /\ i + 1 \in 1 .. Len(q)
              /\ ~ (i + 1 <= m) /\ (i + 1) - m = 1
          BY <1>1, <1>2, <1>5, <2>1, <3>1
        <5> QED  BY <1>1, <1>5, <5>1
      <4> QED  BY <1>4, <2>1, <3>1, <4>1
    <3>2. CASE j # 0
      <4>1. q[i] = s[j] /\ q[i + 1] = s[j + 1]
        <5>1. /\ i \in 1 .. Len(q) /\ i + 1 \in 1 .. Len(q)
              /\ ~ (i <= m) /\ ~ (i + 1 <= m) /\ i - m = j /\ (i + 1) - m = j + 1
          BY <1>1, <1>2, <1>5, <2>1, <3>2
        <5> QED  BY <1>5, <5>1
      <4> QED  BY <1>4, <2>1, <3>2, <4>1
    <3> QED  BY <3>1, <3>2
  <2>3. j = e <=> i = m + e
    BY <1>1, <1>2, <2>1
  <2> QED  BY <1>3, <2>1, <2>2, <2>3
<1>8. m + e \in m .. m + k /\ m + e \in Nat
  BY <1>1, <1>2, <1>3
<1>9. {i \in m .. m + k : h \in Selected(q[i], q[i + 1])} = IF T THEN {m + e} ELSE {}
  BY <1>7, <1>8
<1>10. m + e \notin Marks(p, h)
  BY <1>1, <1>2, <1>3 DEF Marks
<1> QED  BY <1>6, <1>8, <1>9, <1>10 DEF q, s, m, T

\* The first leg by itself.
LEMMA MarksOfFirst ==
  ASSUME Placed, NEW h \in DOMAIN event
  PROVE  \E e \in Nat : Marks(Stops(1), h) = IF h \in Reached(1) THEN {e} ELSE {}
<1> DEFINE s == Stops(1)
           k == Whole(1)
           T == h \in Reached(1)
<1>0. 1 \in Legs
  BY ClustersAssumption DEF Legs
<1>1. Len(s) = k + 1 /\ k \in Nat
  BY <1>0, StopsAre, WholeSteps
<1>2. PICK e \in 0 .. k : \A j \in 0 .. k : Selects(h, 1, j) <=> T /\ j = e
  BY <1>0, OnePiece
<1>3. \A j \in 1 .. k : Selects(h, 1, j) <=> h \in Selected(s[j], s[j + 1])
  <2> SUFFICES ASSUME NEW j \in 1 .. k
               PROVE  Selects(h, 1, j) <=> h \in Selected(s[j], s[j + 1])
    OBVIOUS
  <2>1. j # 0
    BY <1>1
  <2> QED  BY <2>1 DEF Selects
<1>4. ~ Selects(h, 1, 0)
  BY DEF Selects
<1> HIDE DEF s, k, T
<1>5. 0 \in 0 .. k /\ \A j \in 1 .. k : j \in 0 .. k
  BY <1>1
<1>6. Marks(s, h) = {j \in 1 .. k : h \in Selected(s[j], s[j + 1])}
  BY <1>1 DEF Marks
<1>7. T => e # 0
  BY <1>2, <1>4, <1>5
<1>8. T => e \in 1 .. k
  BY <1>1, <1>2, <1>7
<1>9. Marks(s, h) = IF T THEN {e} ELSE {}
  BY <1>2, <1>3, <1>5, <1>6, <1>8
<1>10. e \in Nat
  BY <1>1, <1>2
<1> QED  BY <1>9, <1>10 DEF s, T

\* Each leg that reaches a hit has one piece for it.
LEMMA PiecesAreReached ==
  ASSUME Placed, NEW h \in DOMAIN event
  PROVE  /\ InterpolatedPoints \in Seq(Points)
         /\ IsFiniteSet(Marks(InterpolatedPoints, h))
         /\ IsFiniteSet({i \in Legs : h \in Reached(i)})
         /\ Cardinality(Marks(InterpolatedPoints, h)) =
              Cardinality({i \in Legs : h \in Reached(i)})
<1> DEFINE N == NumClusters - 1
           ss == [i \in Legs |-> Stops(i)]
<1>1. N \in Nat \ {0} /\ NumClusters \in Nat /\ Legs = 1 .. N
  BY ClustersAssumption DEF Legs
<1>2. Len(ss) = N /\ \A i \in 1 .. N : ss[i] = Stops(i)
  BY <1>1
<1>3. InterpolatedPoints = FlattenSeq(ss)
  BY DEF InterpolatedPoints
<1> HIDE DEF ss
<1>4. PICK g : /\ FlattenSeq(ss) = g[N]
               /\ g[1] = ss[1]
               /\ \A i \in 1 .. N - 1 : g[i + 1] = g[i] \o ss[i + 1]
  <2> HIDE DEF N
  <2> QED  BY <1>1, <1>2, Flattened
<1> DEFINE Reaching(n) == {i \in 1 .. n : h \in Reached(i)}
           Joined(n) == /\ g[n] \in Seq(Points) /\ Len(g[n]) # 0
                        /\ g[n][Len(g[n])] = Stop(n + 1, 0)
           Counted(n) == /\ IsFiniteSet(Marks(g[n], h)) /\ IsFiniteSet(Reaching(n))
                         /\ Cardinality(Marks(g[n], h)) = Cardinality(Reaching(n))
           Good == {n \in Nat : n + 1 \in 1 .. N => Joined(n + 1) /\ Counted(n + 1)}
<1>5. Joined(1) /\ Counted(1)
  <2>1. 1 \in Legs /\ 1 \in 1 .. N
    BY <1>1
  <2>2. g[1] = Stops(1)
    BY <1>2, <1>4, <2>1
  <2>3. Joined(1)
    BY <2>1, <2>2, StopsEnd
  <2> DEFINE T == h \in Reached(1)
             M == Marks(g[1], h)
             R == Reaching(1)
  <2>4. PICK e \in Nat : M = IF T THEN {e} ELSE {}
    BY <2>2, MarksOfFirst
  <2>5. R = IF T THEN {1} ELSE {}
    <3>1. 1 .. 1 = {1}
      OBVIOUS
    <3> QED  BY <3>1
  <2> HIDE DEF T, M, R
  <2>6. IsFiniteSet(M) /\ IsFiniteSet(R) /\ Cardinality(M) = Cardinality(R)
    <3>1. \A v : IsFiniteSet({v}) /\ Cardinality({v}) = 1
      BY FS_Singleton
    <3>2. CASE T
      <4>1. M = {e} /\ R = {1}
        BY <2>4, <2>5, <3>2
      <4> QED  BY <3>1, <4>1
    <3>3. CASE ~ T
      <4>1. M = {} /\ R = {}
        BY <2>4, <2>5, <3>3
      <4> QED  BY <4>1, FS_EmptySet
    <3> QED  BY <3>2, <3>3
  <2> QED  BY <2>3, <2>6 DEF M, R
<1>6. ASSUME NEW m \in 1 .. N - 1, Joined(m), Counted(m)
      PROVE  Joined(m + 1) /\ Counted(m + 1)
  <2> DEFINE r == m + 1
             p == g[m]
             s == Stops(r)
  <2>1. r \in Legs /\ r # 1 /\ r \in 1 .. N /\ m \in Nat
    BY <1>1
  <2>2. p \in Seq(Points) /\ Len(p) # 0 /\ p[Len(p)] = Stop(r, 0)
    BY <1>6
  <2>3. g[r] = p \o s
    BY <1>2, <1>4, <2>1
  <2>4. s \in Seq(Points) /\ Len(s) # 0 /\ s[Len(s)] = Stop(r + 1, 0)
    BY <2>1, StopsEnd
  <2> DEFINE M == Marks(p, h)
             R == Reaching(m)
             T == h \in Reached(r)
  <2>5. IsFiniteSet(M) /\ IsFiniteSet(R) /\ Cardinality(M) = Cardinality(R)
    BY <1>6
  <2>6. Reaching(r) = R \cup IF T THEN {r} ELSE {}
    <3>1. 1 .. m + 1 = (1 .. m) \cup {m + 1}
      BY <2>1
    <3> QED  BY <3>1
  <2>7. r \notin R
    BY <2>1
  <2> HIDE DEF r, p, s, Reaching, R, T
  <2>8. PICK e \in Nat : /\ e \notin M
                         /\ Marks(p \o s, h) = M \cup IF T THEN {e} ELSE {}
    BY <2>1, <2>2, MarksOfLeg DEF s, T
  <2> HIDE DEF M
  <2>9. /\ IsFiniteSet(Marks(p \o s, h)) /\ IsFiniteSet(Reaching(r))
        /\ Cardinality(Marks(p \o s, h)) = Cardinality(Reaching(r))
    <3>1. CASE T
      <4>1. Marks(p \o s, h) = M \cup {e} /\ Reaching(r) = R \cup {r}
        BY <2>6, <2>8, <3>1
      <4>2. IsFiniteSet(M \cup {e}) /\ Cardinality(M \cup {e}) = Cardinality(M) + 1
        BY <2>5, <2>8, FS_AddElement
      <4>3. IsFiniteSet(R \cup {r}) /\ Cardinality(R \cup {r}) = Cardinality(R) + 1
        BY <2>5, <2>7, FS_AddElement
      <4> QED  BY <2>5, <4>1, <4>2, <4>3
    <3>2. CASE ~ T
      <4>1. Marks(p \o s, h) = M /\ Reaching(r) = R
        BY <2>6, <2>8, <3>2
      <4> QED  BY <2>5, <4>1
    <3> QED  BY <3>1, <3>2
  <2>10. p \o s \in Seq(Points) /\ Len(p \o s) # 0 /\ (p \o s)[Len(p \o s)] = Stop(r + 1, 0)
    <3>1. /\ p \o s \in Seq(Points) /\ Len(p \o s) = Len(p) + Len(s)
          /\ Len(p) \in Nat /\ Len(s) \in Nat
      BY <2>2, <2>4
    <3>2. (p \o s)[Len(p) + Len(s)] = s[Len(s)]
      BY <2>2, <2>4, <3>1
    <3> QED  BY <2>4, <3>1, <3>2
  <2> QED  BY <2>3, <2>9, <2>10 DEF r
<1> HIDE DEF N, Joined, Counted
<1>7. 0 \in Good
  <2>1. 0 + 1 = 1 /\ 0 \in Nat
    OBVIOUS
  <2> QED  BY <1>5, <2>1
<1>8. ASSUME NEW n \in Nat, n \in Good
      PROVE  n + 1 \in Good
  <2>1. n + 1 \in Nat
    OBVIOUS
  <2> SUFFICES ASSUME (n + 1) + 1 \in 1 .. N
               PROVE  Joined((n + 1) + 1) /\ Counted((n + 1) + 1)
    BY <2>1
  <2>2. n + 1 \in 1 .. N /\ n + 1 \in 1 .. N - 1
    BY <1>1
  <2>3. Joined(n + 1) /\ Counted(n + 1)
    BY <1>8, <2>2
  <2> QED  BY <1>6, <2>2, <2>3
<1>9. \A n \in Nat : n \in Good
  <2> HIDE DEF Good
  <2> QED  BY <1>7, <1>8, NaturalInduction
<1>10. N - 1 \in Nat /\ (N - 1) + 1 = N /\ N \in 1 .. N
  BY <1>1
<1>11. Joined(N) /\ Counted(N)
  <2>1. (N - 1) + 1 \in 1 .. N
    BY <1>10
  <2>2. Joined((N - 1) + 1) /\ Counted((N - 1) + 1)
    BY <1>9, <1>10, <2>1
  <2> QED  BY <1>10, <2>2
<1> QED  BY <1>1, <1>3, <1>4, <1>11 DEF Joined, Counted

-----------------------------------------------------------------------------
(* A hit on the straight line of a leg.                                    *)

\* A hit between the ends of a piece on its axis is within a step of its start.
LEMMA AxisIsNear ==
  ASSUME NEW q \in Nat, NEW P \in Nat, NEW W \in Nat, NEW N \in Nat, NEW s \in Nat,
         1 <= P, P <= q, 1 <= N, W * N = s * s,
         q * q <= W, W < (q + P) * (q + P)
  PROVE  LET c == W + q * q - P * P IN (c * c) * N < (2 * q * s) * (2 * q * s)
<1> DEFINE c == W + q * q - P * P
           A == (q + P) * (q + P) - W
           B == W - (q - P) * (q - P)
           D == 4 * (q * q) * W - c * c
<1>1. A >= 1 /\ A \in Int
  <2>1. (q + P) * (q + P) \in Int
    BY Z3
  <2> QED  BY <2>1
<1>2. B >= 1 /\ B \in Int
  <2>1. (q - P) * (q - P) \in Int /\ (q - P) * (q - P) + 1 <= q * q /\ q * q \in Int
    <3> DEFINE d == q - P
    <3>1. d \in Nat /\ d + 1 <= q
      OBVIOUS
    <3> HIDE DEF d
    <3>2. d * d \in Int /\ d * d + 1 <= q * q
      BY <3>1, Z3
    <3> QED  BY <3>2, Z3 DEF d
  <2> QED  BY <2>1
<1>3. A * B = D
  BY Z3
<1>4. D >= 1 /\ D \in Int
  <2>1. ASSUME NEW x \in Int, NEW y \in Int, x >= 1, y >= 1  PROVE x * y >= 1 /\ x * y \in Int
    BY <2>1, Z3
  <2> HIDE DEF A, B, D
  <2> QED  BY <1>1, <1>2, <1>3, <2>1
<1>5. D * N >= 1
  <2> HIDE DEF D
  <2> QED  BY <1>4, Z3
<1>6. D * N = 4 * (q * q) * (W * N) - (c * c) * N
  BY Z3
<1>7. 4 * (q * q) * (s * s) = (2 * q * s) * (2 * q * s)
  BY Z3
<1>8. 4 * (q * q) * (W * N) = 4 * (q * q) * (s * s)
  OBVIOUS
<1>9. (c * c) * N \in Int /\ (2 * q * s) * (2 * q * s) \in Int /\ D * N \in Int
  BY Z3
<1> DEFINE L == (c * c) * N
           R == (2 * q * s) * (2 * q * s)
           E == D * N
<1>10. E = R - L
  BY <1>6, <1>7, <1>8
<1> HIDE DEF L, R, E
<1>11. L < R
  BY <1>5, <1>9, <1>10 DEF L, R, E
<1> QED  BY <1>11 DEF L, R

LEMMA Cancels ==
  ASSUME NEW a \in Nat, NEW b \in Nat, NEW n \in Nat, 1 <= n
  PROVE  (a * n <= b * n => a <= b) /\ (a * n < b * n => a < b)
  BY Z3

LEMMA AxisHitReached ==
  ASSUME Placed, NEW i \in Legs, NEW h \in DOMAIN event, ~ NoAxis(i), OnAxis(h, i)
  PROVE  h \in Reached(i)
<1> DEFINE k == Whole(i)
           s == Ahead(h, i)
           N == LengthSq(i)
           W == FromSq(h, i)
           m == LastPassed(h, i)
           P == Precision
           q == m * P
<1>1. /\ k \in Nat /\ s \in Nat /\ N \in Nat /\ W \in Nat /\ P \in Nat
      /\ 1 <= P /\ 1 <= N
  BY Measures, WholeSteps, PrecisionAssumption DEF OnAxis
<1>2. /\ W * N = s * s
      /\ k = 0 => i # 1 /\ s < N
      /\ k # 0 => s * s < Square(k * P) * N
  BY DEF OnAxis, Square
<1>3. Square(k * P) <= N /\ N < Square((k + 1) * P)
  BY WholeSteps
<1>4. /\ m \in Nat /\ (m = 0 \/ m < k)
      /\ Passed(h, i, Stop(i, m))
      /\ \A l \in Nat : l < k /\ Passed(h, i, Stop(i, l)) => l <= m
  BY <1>1, LastIsLast
<1>5. \A j : Passed(h, i, Stop(i, j)) <=> s >= 0 /\ s * s >= Square(j * P) * N
  BY DEF Passed, Stop, Square
<1>6. Near(h, Stop(i, m)) <=>
        LET c == W + q * q - P * P IN c < 0 \/ (c * c) * N < (2 * q * s) * (2 * q * s)
  BY DEF Near, Stop, Square
<1>7. h \in Reached(i) <=>
        /\ ~ NoAxis(i) /\ (i = 1 => k > 0) /\ 0 <= s /\ s < N
        /\ Near(h, Stop(i, m))
  BY DEF Reached
<1> HIDE DEF k, s, N, W, m, P
<1>8. /\ \A a \in Nat : Square(a) \in Nat
      /\ \A a, b \in Nat : a * b \in Nat
      /\ \A a \in Nat : Square(a) = a * a
  BY SquareIsNat, Z3 DEF Square
<1>9. /\ q \in Nat /\ k * P \in Nat /\ (m + 1) * P \in Nat /\ (m + 1) * P = q + P
      /\ m + 1 \in Nat
  <2>1. m + 1 \in Nat
    BY <1>4
  <2>2. (m + 1) * P = m * P + P
    BY <1>1, <1>4, Z3
  <2> QED  BY <1>1, <1>4, <1>8, <2>1, <2>2
\* The hit is before the end of the leg.
<1>10. s < N
  <2>1. CASE k = 0
    BY <1>2, <2>1
  <2>2. CASE k # 0
    <3>1. Square(k * P) * N <= N * N
      BY <1>1, <1>3, <1>8, <1>9, TimesGrows
    <3>2. s * s < N * N
      <4> DEFINE x == s * s
                 y == Square(k * P) * N
                 z == N * N
      <4>1. x < y /\ y <= z /\ x \in Nat /\ y \in Nat /\ z \in Nat
        BY <1>1, <1>2, <1>8, <1>9, <2>2, <3>1
      <4> HIDE DEF x, y, z
      <4>2. x < z
        BY <4>1
      <4> QED  BY <4>2 DEF x, z
    <3> QED  BY <1>1, <3>2, Z3
  <2> QED  BY <2>1, <2>2
\* It has passed the start of its piece and not the end.
<1>11. q * q <= W
  <2>1. Square(q) * N <= W * N
    BY <1>2, <1>4, <1>5
  <2>2. Square(q) <= W
    BY <1>1, <1>8, <1>9, <2>1, Cancels
  <2> QED  BY <1>8, <1>9, <2>2
<1>12. W < (q + P) * (q + P)
  <2> DEFINE r == Square((m + 1) * P)
  <2>1. r \in Nat /\ r = (q + P) * (q + P)
    BY <1>8, <1>9
  <2>2. s * s < r * N
    <3>1. CASE k = 0
      <4>1. m = 0
        BY <1>1, <1>4, <3>1
      <4>2. (k + 1) * P = (m + 1) * P
        BY <3>1, <4>1
      <4>3. N < r
        BY <1>3, <4>2
      <4> HIDE DEF r
      <4>4. s * s < N * N
        BY <1>1, <1>10, Z3
      <4>5. N * N <= r * N
        BY <1>1, <2>1, <4>3, TimesGrows
      <4> QED
        <5> DEFINE x == s * s
                   y == N * N
                   z == r * N
        <5>1. x < y /\ y <= z /\ x \in Nat /\ y \in Nat /\ z \in Nat
          BY <1>1, <1>8, <2>1, <4>4, <4>5
        <5> HIDE DEF x, y, z
        <5>2. x < z
          BY <5>1
        <5> QED  BY <5>2 DEF x, z
    <3>2. CASE k # 0 /\ m + 1 = k
      BY <1>2, <3>2
    <3>3. CASE k # 0 /\ m + 1 # k
      <4>1. m + 1 < k /\ ~ (m + 1 <= m)
        BY <1>1, <1>4, <3>3
      <4>2. ~ Passed(h, i, Stop(i, m + 1))
        BY <1>4, <1>9, <4>1
      <4>3. ~ (s * s >= r * N)
        BY <1>1, <1>5, <4>2
      <4> HIDE DEF r
      <4>4. s * s \in Nat /\ r * N \in Nat
        BY <1>1, <1>8, <2>1
      <4> QED  BY <4>3, <4>4
    <3> QED  BY <3>1, <3>2, <3>3
  <2> HIDE DEF r
  <2>3. W * N < r * N
    BY <1>2, <2>2
  <2>4. W < r
    BY <1>1, <2>1, <2>3, Cancels
  <2> QED  BY <2>1, <2>4
<1>13. Near(h, Stop(i, m))
  <2>1. CASE m = 0
    <3>1. q = 0
      BY <1>1, <2>1
    <3> HIDE DEF q
    <3>2. q * q = 0 /\ (q + P) * (q + P) = P * P
      BY <1>1, <3>1
    <3>3. W < P * P /\ P * P \in Nat
      BY <1>1, <1>8, <1>12, <3>2
    <3>4. W + q * q - P * P < 0
      BY <1>1, <3>2, <3>3
    <3> QED  BY <1>6, <3>4
  <2>2. CASE m # 0
    <3>1. P <= q
      <4>1. 1 * P <= m * P
        BY <1>1, <1>4, <2>2, TimesGrows
      <4>2. 1 * P = P
        BY <1>1
      <4> QED  BY <4>1, <4>2
    <3> HIDE DEF q
    <3>2. LET c == W + q * q - P * P IN (c * c) * N < (2 * q * s) * (2 * q * s)
      BY <1>1, <1>2, <1>9, <1>11, <1>12, <3>1, AxisIsNear
    <3> QED  BY <1>6, <3>2
  <2> QED  BY <2>1, <2>2
<1>14. i = 1 => k > 0
  BY <1>1, <1>2
<1> QED  BY <1>1, <1>7, <1>10, <1>13, <1>14

-----------------------------------------------------------------------------
(* The inductive invariant of the interpolation: until the pieces are made *)
(* there are none; during the walk its data are places and clusters, some  *)
(* cluster has hits, and the clusters visited are distinct and either all  *)
(* or none of them have hits.                                              *)
Walked ==
  /\ sorted \in Seq(1 .. NumClusters) /\ Len(sorted) # 0
  /\ \A a, b \in 1 .. Len(sorted) : sorted[a] = sorted[b] => a = b
  /\ \A a \in 1 .. Len(sorted) : Finite(sorted[1], sorted[a])

TrackInv ==
  /\ phase \in {"idle", "walk", "done"}
  /\ phase # "done" => pieces = << >>
  /\ phase = "idle" => centres = << >>
  /\ phase = "walk" =>
       /\ event \in Events
       /\ centres \in [1 .. NumClusters -> Places]
       /\ \E j \in 1 .. NumClusters : centres[j] # Nowhere
       /\ Walked
  /\ OnePiecePerLeg /\ AxisHitsKept /\ EmptyClusterHangs

LEMMA HitsAreRecords ==
  ASSUME NEW t \in Seq([at : Places, charge : Int])
  PROVE  \A i \in DOMAIN t : t[i].at \in Places
<1> DEFINE R == [at : Places, charge : Int]
<1>1. \A r \in R : r.at \in Places
  OBVIOUS
<1> HIDE DEF R
<1>2. t \in Seq(R)
  BY DEF R
<1>3. \A i \in 1 .. Len(t) : t[i] \in R
  BY <1>2, ElementOfSeq
<1>4. DOMAIN t = 1 .. Len(t)
  BY <1>2
<1> QED  BY <1>1, <1>3, <1>4

LEMMA CentresArePlaces ==
  ASSUME NEW e \in Events
  PROVE  KMeans(e) \subseteq [1 .. NumClusters -> Places]
<1>1. Box(e) \subseteq Places
  <2> DEFINE Side(d) == LET all == {h.at[d] : h \in ToSet(e)} IN Min(all) .. Max(all)
  <2>1. \A d : Side(d) \subseteq Int
    OBVIOUS
  <2>2. Box(e) = Side(1) \X Side(2) \X Side(3)
    BY DEF Box
  <2> HIDE DEF Side
  <2> QED  BY <2>1, <2>2 DEF Places
<1>2. Nowhere \in Places
  BY DEF Nowhere, Places
<1> DEFINE places == Box(e) \cup (IF Cardinality({h.at : h \in ToSet(e)}) >= NumClusters
                                  THEN {} ELSE {Nowhere})
<1>3. KMeans(e) \subseteq [1 .. NumClusters -> places]
  BY DEF KMeans
<1>4. places \subseteq Places
  BY <1>1, <1>2
<1> HIDE DEF places
<1>5. [1 .. NumClusters -> places] \subseteq [1 .. NumClusters -> Places]
  BY <1>4
<1> QED  BY <1>3, <1>5

LEMMA ExecuteKeeps ==
  ASSUME TrackInv, NEW e \in Events, Execute(e)
  PROVE  TrackInv'
<1>1. phase = "idle" /\ pieces = << >> /\ pieces' = << >> /\ event' = e /\ centres = << >>
  BY DEF TrackInv, Execute
<1>2. \/ phase' = "done" /\ centres' = << >>
      \/ phase' = "walk" /\ centres' \in KMeans(e) /\ sorted' = <<1>>
  BY <1>1 DEF Execute
<1>3. OnePiecePerLeg' /\ AxisHitsKept'
  BY <1>1 DEF OnePiecePerLeg, AxisHitsKept
<1>4. CASE phase' = "done" /\ centres' = << >>
  <2>1. EmptyClusterHangs'
    BY <1>4 DEF EmptyClusterHangs, ToSet
  <2> QED  BY <1>1, <1>3, <1>4, <2>1 DEF TrackInv
<1>5. CASE phase' = "walk" /\ centres' \in KMeans(e) /\ sorted' = <<1>>
  <2>1. 1 \in 1 .. NumClusters
    BY ClustersAssumption
  <2>2. centres' \in [1 .. NumClusters -> Places]
    BY <1>5, CentresArePlaces
  <2>3. \E j \in 1 .. NumClusters : centres'[j] # Nowhere
    <3>1. \E j \in DOMAIN centres' : centres'[j] # Nowhere
      BY <1>5 DEF KMeans
    <3> QED  BY <2>2, <3>1
  <2>4. Walked'
    <3> DEFINE s == <<1>>
               C == 1 .. NumClusters
    <3>1. Len(s) = 1 /\ 1 .. Len(s) = {1} /\ s[1] = 1
      OBVIOUS
    <3>2. s \in Seq(C)
      BY <2>1
    <3>3. sorted' = s
      BY <1>5
    <3> HIDE DEF s, C
    <3>4. \A a \in 1 .. Len(s) : a = 1
      BY <3>1
    <3>5. (\A a \in 1 .. Len(sorted) : Finite(sorted[1], sorted[a]))'
      BY <3>3, <3>4 DEF Finite
    <3>6. (\A a, b \in 1 .. Len(sorted) : sorted[a] = sorted[b] => a = b)'
      <4>1. \A a, b \in 1 .. Len(s) : a = b
        BY <3>4
      <4> QED  BY <3>3, <4>1
    <3>7. (sorted \in Seq(1 .. NumClusters) /\ Len(sorted) # 0)'
      BY <3>1, <3>2, <3>3 DEF C
    <3> QED  BY <3>5, <3>6, <3>7 DEF Walked
  <2>5. EmptyClusterHangs'
    BY <1>5 DEF EmptyClusterHangs
  <2> QED  BY <1>1, <1>3, <1>5, <2>2, <2>3, <2>4, <2>5 DEF TrackInv
<1> QED  BY <1>2, <1>4, <1>5

LEMMA WalkKeeps ==
  ASSUME TrackInv, Walk
  PROVE  TrackInv'
<1>1. phase = "walk" /\ UNCHANGED <<event, centres, pieces, written, phase>>
  BY DEF Walk
<1>2. pieces = << >> /\ Walked
  BY <1>1 DEF TrackInv
<1>3. \/ sorted' = sorted
      \/ \E i \in Candidates(Last(sorted)) : sorted' = Append(sorted, i)
  BY DEF Walk
<1>4. Walked'
  <2>1. CASE sorted' = sorted
    BY <1>1, <1>2, <2>1 DEF Walked, Finite
  <2>2. CASE \E i \in Candidates(Last(sorted)) : sorted' = Append(sorted, i)
    <3> DEFINE C == 1 .. NumClusters
               n == Len(sorted)
    <3>1. PICK i \in Candidates(Last(sorted)) : sorted' = Append(sorted, i)
      BY <2>2
    <3>2. i \in C /\ i \notin ToSet(sorted) /\ Finite(Last(sorted), i)
      BY DEF Candidates, Unvisited
    <3>3. /\ sorted \in Seq(C) /\ n \in Nat /\ n # 0
          /\ \A a, b \in 1 .. n : sorted[a] = sorted[b] => a = b
          /\ \A a \in 1 .. n : Finite(sorted[1], sorted[a])
      BY <1>2 DEF Walked
    <3>4. \A a \in 1 .. n : sorted[a] # i
      BY <3>2, <3>3 DEF ToSet
    <3> HIDE DEF C
    <3>5. /\ sorted' \in Seq(C) /\ Len(sorted') = n + 1
          /\ \A a \in 1 .. n : sorted'[a] = sorted[a]
          /\ sorted'[n + 1] = i
      BY <3>1, <3>2, <3>3
    <3>6. 1 \in 1 .. n /\ n \in 1 .. n /\ n + 1 # 0
      BY <3>3
    <3>7. Finite(sorted[1], i)
      <4>1. Last(sorted) = sorted[n]
        BY DEF Last
      <4>2. Finite(sorted[1], sorted[n])
        BY <3>3, <3>6
      <4> QED  BY <3>2, <4>1, <4>2 DEF Finite
    <3> HIDE DEF n
    <3>8. ASSUME NEW a \in 1 .. n + 1  PROVE a \in 1 .. n \/ a = n + 1
      BY <3>3
    <3>9. ASSUME NEW a \in 1 .. n + 1, NEW b \in 1 .. n + 1, sorted'[a] = sorted'[b]
          PROVE  a = b
      <4>1. (a \in 1 .. n \/ a = n + 1) /\ (b \in 1 .. n \/ b = n + 1)
        BY <3>8
      <4> QED  BY <3>3, <3>4, <3>5, <3>9, <4>1
    <3>10. ASSUME NEW a \in 1 .. n + 1  PROVE Finite(sorted'[1], sorted'[a])
      <4>1. sorted'[1] = sorted[1]
        BY <3>5, <3>6
      <4>2. CASE a \in 1 .. n
        BY <3>3, <3>5, <4>1, <4>2
      <4>3. CASE a = n + 1
        BY <3>5, <3>7, <4>1, <4>3
      <4> QED  BY <3>8, <4>2, <4>3
    <3>11. \A a \in 1 .. Len(sorted') : Finite(sorted[1], sorted[a])'
      BY <1>1, <3>5, <3>10 DEF Finite
    <3> QED  BY <3>5, <3>6, <3>9, <3>11 DEF Walked, C
  <2> QED  BY <1>3, <2>1, <2>2
<1>5. OnePiecePerLeg' /\ AxisHitsKept'
  BY <1>1, <1>2 DEF OnePiecePerLeg, AxisHitsKept
<1>6. EmptyClusterHangs'
  BY <1>1 DEF EmptyClusterHangs
<1> QED  BY <1>1, <1>2, <1>4, <1>5, <1>6 DEF TrackInv

\* A walk to its end has visited every cluster.
LEMMA AllVisited ==
  ASSUME Walked, Len(sorted) = NumClusters, NEW j \in 1 .. NumClusters
  PROVE  \E a \in 1 .. NumClusters : sorted[a] = j
<1> DEFINE C == 1 .. NumClusters
<1>1. IsFiniteSet(C)
  BY FS_Interval, ClustersAssumption
<1>2. sorted \in Injection(C, C)
  <2>1. sorted \in [C -> C]
    BY DEF Walked
  <2>2. \A a, b \in C : sorted[a] = sorted[b] => a = b
    BY DEF Walked
  <2> HIDE DEF C
  <2> QED  BY <2>1, <2>2 DEF Injection, IsInjective
<1> HIDE DEF C
<1>3. sorted \in Surjection(C, C)
  BY <1>1, <1>2, FS_Injection
<1>4. j \in C
  BY DEF C
<1> QED  BY <1>3, <1>4 DEF Surjection, C

LEMMA FillKeeps ==
  ASSUME TrackInv, Fill
  PROVE  TrackInv'
<1>1. /\ phase = "walk" /\ Len(sorted) = NumClusters
      /\ event \in Events /\ centres \in [1 .. NumClusters -> Places]
      /\ \E j \in 1 .. NumClusters : centres[j] # Nowhere
      /\ Walked
  BY DEF Fill, TrackInv
<1>2. Placed
  <2>1. event \in Seq([at : Places, charge : Int])
    BY <1>1, TracksAssumption
  <2>2. \A i \in 1 .. NumClusters : sorted[i] \in 1 .. NumClusters
    BY <1>1 DEF Walked
  <2>3. Path \in [1 .. NumClusters -> Places]
    BY <1>1, <2>2 DEF Path
  <2> QED  BY <2>1, <2>3, HitsAreRecords DEF Placed
<1> DEFINE p == InterpolatedPoints
<1>3. /\ phase' = "done" /\ UNCHANGED <<event, centres, sorted>>
      /\ pieces' = [i \in 1 .. Len(p) - 1 |-> Selected(p[i], p[i + 1])]
  BY DEF Fill
<1>4. Path' = Path
  BY <1>3 DEF Path
<1>5. \A i, h : /\ Way(i)' = Way(i) /\ LengthSq(i)' = LengthSq(i)
                /\ From(h, i)' = From(h, i) /\ FromSq(h, i)' = FromSq(h, i)
                /\ Ahead(h, i)' = Ahead(h, i)
  BY <1>3, <1>4 DEF Way, LengthSq, From, FromSq, Ahead
<1>6. \A i : Whole(i)' = Whole(i) /\ NoAxis(i)' = NoAxis(i)
  BY <1>5 DEF Whole, NoAxis
<1>7. \A i, h, q : Passed(h, i, q)' = Passed(h, i, q) /\ Near(h, q)' = Near(h, q)
  BY <1>5 DEF Passed, Near
<1>8. \A i, h : LastPassed(h, i)' = LastPassed(h, i) /\ OnAxis(h, i)' = OnAxis(h, i)
  <2>1. \A i, h : OnAxis(h, i)' = OnAxis(h, i)
    BY <1>5, <1>6 DEF OnAxis
  <2>2. \A i, h : LastPassed(h, i)' = LastPassed(h, i)
    BY <1>6, <1>7 DEF LastPassed, Stop
  <2> QED  BY <2>1, <2>2
<1>9. \A i : Reached(i)' = Reached(i)
  BY <1>3, <1>5, <1>6, <1>7, <1>8 DEF Reached
<1>10. ASSUME NEW h \in DOMAIN event
       PROVE  /\ {q \in DOMAIN pieces' : h \in pieces'[q]} = Marks(p, h)
              /\ IsFiniteSet(Marks(p, h))
              /\ IsFiniteSet({i \in Legs : h \in Reached(i)})
              /\ Cardinality(Marks(p, h)) = Cardinality({i \in Legs : h \in Reached(i)})
  <2>1. /\ IsFiniteSet(Marks(p, h))
        /\ IsFiniteSet({i \in Legs : h \in Reached(i)})
        /\ Cardinality(Marks(p, h)) = Cardinality({i \in Legs : h \in Reached(i)})
    BY <1>2, PiecesAreReached
  <2> HIDE DEF p
  <2>2. {q \in DOMAIN pieces' : h \in pieces'[q]} = Marks(p, h)
    BY <1>3 DEF Marks
  <2> QED  BY <2>1, <2>2
<1> HIDE DEF p
<1>11. OnePiecePerLeg'
  <2>1. ASSUME NEW h \in DOMAIN event'
        PROVE  Cardinality({q \in DOMAIN pieces' : h \in pieces'[q]})
                 = Cardinality({i \in Legs : h \in Reached(i)'})
    <3>1. h \in DOMAIN event
      BY <1>3
    <3>2. {i \in Legs : h \in Reached(i)'} = {i \in Legs : h \in Reached(i)}
      BY <1>9
    <3> QED  BY <1>10, <3>1, <3>2
  <2> QED  BY <2>1 DEF OnePiecePerLeg, Legs
<1>12. AxisHitsKept'
  <2>1. ASSUME NEW i \in Legs, ~ NoAxis(i)', NEW h \in DOMAIN event', OnAxis(h, i)'
        PROVE  \E q \in DOMAIN pieces' : h \in pieces'[q]
    <3>1. h \in DOMAIN event /\ ~ NoAxis(i) /\ OnAxis(h, i)
      BY <1>3, <1>6, <1>8, <2>1
    <3> DEFINE R == {l \in Legs : h \in Reached(l)}
    <3>2. i \in R
      BY <1>2, <3>1, AxisHitReached
    <3>3. /\ {q \in DOMAIN pieces' : h \in pieces'[q]} = Marks(p, h)
          /\ IsFiniteSet(Marks(p, h)) /\ IsFiniteSet(R)
          /\ Cardinality(Marks(p, h)) = Cardinality(R)
      BY <1>10, <3>1
    <3> HIDE DEF R
    <3>4. Cardinality(R) # 0
      BY <3>2, <3>3, FS_EmptySet
    <3>5. Marks(p, h) # {}
      BY <3>3, <3>4, FS_EmptySet
    <3> QED  BY <3>3, <3>5
  <2> QED  BY <2>1 DEF AxisHitsKept, Legs
<1>13. EmptyClusterHangs'
  <2>1. ASSUME NEW j \in 1 .. NumClusters
        PROVE  centres[j] = Nowhere <=> centres[sorted[1]] = Nowhere
    <3>1. PICK a \in 1 .. NumClusters : sorted[a] = j
      BY <1>1, AllVisited
    <3>2. Finite(sorted[1], sorted[a])
      BY <1>1 DEF Walked
    <3> QED  BY <3>1, <3>2 DEF Finite
  <2>2. \A j \in 1 .. NumClusters : centres[j] # Nowhere
    BY <1>1, <2>1
  <2>3. Nowhere \notin ToSet(centres)
    BY <1>1, <2>2 DEF ToSet
  <2> QED  BY <1>3, <2>3 DEF EmptyClusterHangs
<1> QED  BY <1>3, <1>11, <1>12, <1>13 DEF TrackInv

LEMMA TrackInvHolds == TrackSpec => []TrackInv
<1>1. TrackInit => TrackInv
  BY DEF TrackInit, TrackInv, OnePiecePerLeg, AxisHitsKept, EmptyClusterHangs, ToSet
<1>2. TrackInv /\ [TrackNext]_trackVars => TrackInv'
  <2> SUFFICES ASSUME TrackInv, [TrackNext]_trackVars  PROVE TrackInv'
    OBVIOUS
  <2>1. ASSUME NEW e \in Events, Execute(e)  PROVE TrackInv'
    BY <2>1, ExecuteKeeps
  <2>2. CASE Walk
    BY <2>2, WalkKeeps
  <2>3. CASE Fill
    BY <2>3, FillKeeps
  <2>4. CASE UNCHANGED trackVars
    <3>1. UNCHANGED <<event, centres, sorted, pieces, phase>>
      BY <2>4 DEF trackVars
    <3>2. Path' = Path
      BY <3>1 DEF Path
    <3>3. \A i, h : /\ Way(i)' = Way(i) /\ LengthSq(i)' = LengthSq(i)
                    /\ FromSq(h, i)' = FromSq(h, i) /\ Ahead(h, i)' = Ahead(h, i)
      BY <3>1, <3>2 DEF Way, LengthSq, From, FromSq, Ahead
    <3>4. \A i : Whole(i)' = Whole(i) /\ NoAxis(i)' = NoAxis(i)
      BY <3>3 DEF Whole, NoAxis
    <3>5. \A i, h, q : Passed(h, i, q)' = Passed(h, i, q) /\ Near(h, q)' = Near(h, q)
      BY <3>3 DEF Passed, Near
    <3>6. \A i, h : LastPassed(h, i)' = LastPassed(h, i) /\ OnAxis(h, i)' = OnAxis(h, i)
      BY <3>3, <3>4, <3>5 DEF LastPassed, OnAxis
    <3>7. \A i : Reached(i)' = Reached(i)
      BY <3>1, <3>3, <3>4, <3>5, <3>6 DEF Reached
    <3>8. OnePiecePerLeg'
      BY <3>1, <3>7 DEF TrackInv, OnePiecePerLeg, Legs
    <3>9. AxisHitsKept'
      BY <3>1, <3>4, <3>6 DEF TrackInv, AxisHitsKept, Legs
    <3>10. EmptyClusterHangs'
      BY <3>1 DEF TrackInv, EmptyClusterHangs
    <3>11. (phase = "walk" => Walked)'
      BY <3>1 DEF TrackInv, Walked, Finite
    <3> QED  BY <3>1, <3>8, <3>9, <3>10, <3>11 DEF TrackInv
  <2> QED  BY <2>1, <2>2, <2>3, <2>4 DEF TrackNext
<1> QED  BY <1>1, <1>2, PTL DEF TrackSpec

(* A hit is in as many pieces as there are legs that reach it, whatever    *)
(* the hits, the number of clusters, their centres and the precision: no   *)
(* seam of the list of points, within a leg or between two, loses a hit    *)
(* that is in a sphere or counts it again.  Which legs reach a hit, none   *)
(* or several, is said by Reached.  The spheres leave no gap on the axis,  *)
(* so a hit on the straight line between two successive centres is kept if *)
(* the line is not along z and the hit not in its rest                     *)
(* (Interpolation.cpp:241-259 and 286-328).                                *)
THEOREM HitsAreInPieces == TrackSpec => []HitsInPieces
<1>1. TrackInv => HitsInPieces
  BY DEF TrackInv, HitsInPieces
<1> QED  BY <1>1, TrackInvHolds, PTL

(* An event with a cluster without hits is never finished, whatever the    *)
(* other centres: the walk would have to go from a centre with hits to one *)
(* without, or back, and no distance between the two compares as smaller   *)
(* (Interpolation.cpp:216-235).                                            *)
THEOREM EmptyClusterNeverEnds == TrackSpec => []EmptyClusterHangs
<1>1. TrackInv => EmptyClusterHangs
  BY DEF TrackInv
<1> QED  BY <1>1, TrackInvHolds, PTL
=============================================================================
