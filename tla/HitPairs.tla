------------------------------ MODULE HitPairs ------------------------------
(***************************************************************************)
(* Hit3DBuilder.py: the hits of the X strips are matched with those of the *)
(* Y strips by their arrival times.  Both functions of the file are here:  *)
(* buildHitPairs, and build3d, which it replaces.                          *)
(*                                                                         *)
(* Both sort the hits by time and go through the X hits once, with         *)
(* pointers into the Y hits that only move forward.  One step of the model *)
(* is one turn of the outer loop.                                          *)
(***************************************************************************)
EXTENDS Integers, Sequences

CONSTANT
  Calls   \* the calls: [fn, x, y, tolerance, scale, useSigma, z, edep], where x
          \* and y are sequences of [time, sigma], tolerance is search_band in
          \* build3d, and z and edep tell whether col_spec has the column

Hits == Seq([time : Int, sigma : Nat])

ASSUME CallsAssumption ==
  Calls \subseteq [fn : {"buildHitPairs", "build3d"}, x : Hits, y : Hits,
                   tolerance : Int, scale : Int, useSigma : BOOLEAN,
                   z : BOOLEAN, edep : BOOLEAN]

VARIABLES
  call,    \* the arguments, or NoCall
  xs, ys,  \* x_idx and y_idx: place in the order of time -> index of the caller
  at,      \* place of the X hit the outer loop is at
  lower,   \* step of buildHitPairs, lower of build3d
  upper,   \* upper of build3d
  pairs,   \* the pairs found, as indices of the caller
  outcome  \* "idle", "running", "returned" or "raised"

vars == <<call, xs, ys, at, lower, upper, pairs, outcome>>

NoCall == [fn |-> "none"]

Init ==
  /\ call = NoCall
  /\ xs = << >> /\ ys = << >>
  /\ at = 1 /\ lower = 1 /\ upper = 1
  /\ pairs = {}
  /\ outcome = "idle"

-----------------------------------------------------------------------------
\* argsort: hits of the same time may come in any order.
Orders(h) ==
  {p \in [DOMAIN h -> DOMAIN h] :
     /\ \A i \in DOMAIN h : \E j \in DOMAIN h : p[j] = i
     /\ \A i, j \in DOMAIN h : i < j => h[p[i]].time <= h[p[j]].time}

Call(c) ==
  /\ call' = c
  /\ xs' \in Orders(c.x) /\ ys' \in Orders(c.y)
  /\ outcome' = "running"
  /\ UNCHANGED <<at, lower, upper, pairs>>

Nx   == Len(call.x)
Ny   == Len(call.y)
X(k) == call.x[xs[k]]
Y(k) == call.y[ys[k]]

Before(time) == {i \in 1 .. Ny : Y(i).time < time}
UpTo(time)   == {i \in 1 .. Ny : Y(i).time <= time}

\* The pointer p is moved on while it is in S: it stops at q.
Moves(p, q, S) == q \in p .. Ny + 1 /\ p .. q - 1 \subseteq S /\ q \notin S

\* _make_pair
Close(c, a, b) ==
  LET within == IF c.useSigma THEN c.scale * (a.sigma + b.sigma) ELSE c.scale
      d      == a.time - b.time
  IN  d <= within /\ -d <= within

\* Bug: the indices of the two planes are exchanged.
FoundSwapped(from, S) ==
  IF from = Ny + 1
  THEN at' = Nx + 1 /\ UNCHANGED pairs
  ELSE at' = at + 1 /\ pairs' = pairs \cup {<<ys[i], xs[at]>> : i \in S}

\* A hit of X whose window begins after all hits of Y ends the loop.
Found(from, S) ==
  IF from = Ny + 1
  THEN at' = Nx + 1 /\ UNCHANGED pairs
  ELSE at' = at + 1 /\ pairs' = pairs \cup {<<xs[at], ys[i]>> : i \in S}

\* Bug: the inner loop moves step itself, so windows do not overlap.
MatchConsumes ==
  /\ outcome = "running" /\ call.fn = "buildHitPairs" /\ at <= Nx
  /\ LET early == X(at).time - call.tolerance
         late  == X(at).time + call.tolerance
     IN  \E s, e \in 1 .. Ny + 1 :
           /\ Moves(lower, s, Before(early)) /\ Moves(s, e, Before(late))
           /\ lower' = e
           /\ Found(s, s .. e - 1)
  /\ UNCHANGED <<call, xs, ys, upper, outcome>>

\* buildHitPairs: the window is open at its end.
Match ==
  /\ outcome = "running" /\ call.fn = "buildHitPairs" /\ at <= Nx
  /\ LET early == X(at).time - call.tolerance
         late  == X(at).time + call.tolerance
     IN  \E s, e \in 1 .. Ny + 1 :
           /\ Moves(lower, s, Before(early)) /\ Moves(s, e, Before(late))
           /\ lower' = s
           /\ Found(s, s .. e - 1)
  /\ UNCHANGED <<call, xs, ys, upper, outcome>>

\* build3d: the window is closed, _find_pairs looks at the pairs again.
Match3d ==
  /\ outcome = "running" /\ call.fn = "build3d" /\ at <= Nx
  /\ LET early == X(at).time - call.tolerance
         late  == X(at).time + call.tolerance
     IN  \E s, e \in 1 .. Ny + 1 :
           /\ Moves(lower, s, Before(early)) /\ Moves(upper, e, UpTo(late))
           /\ lower' = s /\ upper' = e
           /\ Found(s, {i \in s .. e - 1 : Close(call, X(at), Y(i))})
  /\ UNCHANGED <<call, xs, ys, outcome>>

(* The table is made from the lists of indices: an empty one is no index   *)
(* array, and the columns of edep are filled if col_spec has z.            *)
Assembled == pairs # {} /\ call.z = call.edep

Return ==
  /\ outcome = "running" /\ at > Nx
  /\ outcome' = IF call.fn = "build3d" \/ Assembled THEN "returned" ELSE "raised"
  /\ UNCHANGED <<call, xs, ys, at, lower, upper, pairs>>

Start == outcome = "idle" /\ \E c \in Calls : Call(c)

Next == Start \/ Match \/ Match3d \/ Return

Spec == Init /\ [][Next]_vars

-----------------------------------------------------------------------------
TypeOK ==
  /\ outcome \in {"idle", "running", "returned", "raised"}
  /\ outcome # "idle" =>
       /\ call \in Calls
       /\ xs \in Orders(call.x) /\ ys \in Orders(call.y)
       /\ at \in 1 .. Nx + 1
       /\ lower \in 1 .. Ny + 1 /\ upper \in 1 .. Ny + 1
       /\ pairs \subseteq (DOMAIN call.x) \X (DOMAIN call.y)

\* What a pair of hits must satisfy in the call c.
Matched(c, a, b) ==
  LET d == a.time - b.time IN
  /\ d <= c.tolerance
  /\ IF c.fn = "buildHitPairs" THEN -d < c.tolerance
     ELSE -d <= c.tolerance /\ Close(c, a, b)

(* Whatever the order of the hits and of those with equal times, the pairs *)
(* are those whose times match: the pointers that only move forward and    *)
(* the break lose none (Hit3DBuilder.py:64-77 and 125-139).                *)
PairsAreWindow ==
  outcome \in {"returned", "raised"} =>
    pairs = {p \in (DOMAIN call.x) \X (DOMAIN call.y) : Matched(call, call.x[p[1]], call.y[p[2]])}
=============================================================================
