--------------------------- MODULE Interpolation ---------------------------
(***************************************************************************)
(* Interpolation.cpp: the hits of one event are clustered, the centres are *)
(* put in order by walking to the nearest one left, the way between them   *)
(* is divided into pieces, and a piece with enough hits gives one hit with *)
(* their centre of charge.                                                 *)
(*                                                                         *)
(* Places are points of a lattice in space, [x, y, z] as the SVector3 of   *)
(* the code.  The points that divide a way lie between those of the        *)
(* lattice, so a point is known by its leg of the way and the number of    *)
(* steps it is ahead on it, and distances are compared without roots:      *)
(* every comparison of the code is made exactly.                           *)
(***************************************************************************)
EXTENDS Integers, Sequences, FiniteSetsExt, SequencesExt

CONSTANTS
  Events,       \* the events: sequences of hits, [at, charge]
  NumClusters,  \* numClusters, more than one
  Precision,    \* INTER_PRECISION, positive
  MinHits,      \* fewer hits are not clustered
  MinCentres,   \* fewer centres are not ordered
  MinSelected,  \* fewer hits in a piece give no hit
  MinOut        \* fewer hits are not written

Places == Int \X Int \X Int

ASSUME TracksAssumption    == Events \subseteq Seq([at : Places, charge : Int])
ASSUME ClustersAssumption  == NumClusters \in Nat \ {0, 1}
ASSUME PrecisionAssumption == Precision \in Nat \ {0}

VARIABLES
  event,    \* the hits of the event
  centres,  \* centre of each cluster
  sorted,   \* clusters in the order of the walk
  pieces,   \* hits selected for each piece, as sets of indices
  written,  \* number of hits in the output collection
  phase     \* "idle", "walk" or "done"

trackVars == <<event, centres, sorted, pieces, written, phase>>

\* The centre of a cluster without hits: DBL_MAX in each coordinate.
Nowhere == <<1000000, 1000000, 1000000>>

TrackInit ==
  /\ event = << >>
  /\ centres = << >> /\ sorted = << >> /\ pieces = << >>
  /\ written = 0
  /\ phase = "idle"

-----------------------------------------------------------------------------
Minus(u, v) == <<u[1] - v[1], u[2] - v[2], u[3] - v[3]>>
Dot(u, v)   == u[1] * v[1] + u[2] * v[2] + u[3] * v[3]
Square(n)   == n * n

\* The places between the hits in each coordinate.
Box(hits) ==
  LET Side(d) == LET all == {h.at[d] : h \in ToSet(hits)} IN Min(all) .. Max(all)
  IN  Side(1) \X Side(2) \X Side(3)

(* Centres lie between the hits; clusters stay empty only if there are     *)
(* fewer places than clusters, and one at least has a hit.                 *)
KMeans(hits) ==
  LET enough == Cardinality({h.at : h \in ToSet(hits)}) >= NumClusters
      places == Box(hits) \cup (IF enough THEN {} ELSE {Nowhere})
  IN  {c \in [1 .. NumClusters -> places] : \E i \in DOMAIN c : c[i] # Nowhere}

Execute(e) ==
  /\ phase = "idle"
  /\ event' = e
  /\ IF Len(e) < MinHits \/ NumClusters < MinCentres
     THEN phase' = "done" /\ UNCHANGED <<centres, sorted>>
     ELSE /\ centres' \in KMeans(e)
          /\ sorted' = <<1>>
          /\ phase' = "walk"
  /\ UNCHANGED <<pieces, written>>

\* The square of DBL_MAX overflows; two such centres are at distance zero.
Finite(i, j) == centres[i] = Nowhere <=> centres[j] = Nowhere

\* The distance squared, which orders the centres as the distance does.
Dist(i, j) == LET d == Minus(centres[i], centres[j]) IN Dot(d, d)

\* Among equally near ones the first is kept.
Nearer(i, j, k) == Dist(i, j) < Dist(i, k) \/ (Dist(i, j) = Dist(i, k) /\ j < k)

Unvisited == (1 .. NumClusters) \ ToSet(sorted)

\* Bug: a centre is looked for within one piece only.
CandidatesNearby(last) ==
  {i \in Unvisited : Finite(last, i) /\ centres[i] # Nowhere /\ Dist(last, i) < Square(Precision)}

Candidates(last) == {i \in Unvisited : Finite(last, i)}

\* One turn of the loop of sortClusterCenters; if none is found, it spins.
Walk ==
  /\ phase = "walk" /\ Len(sorted) < NumClusters
  /\ LET last == Last(sorted) IN
     IF Candidates(last) = {} THEN UNCHANGED sorted
     ELSE \E i \in Candidates(last) :
            /\ \A k \in Candidates(last) \ {i} : Nearer(last, i, k)
            /\ sorted' = Append(sorted, i)
  /\ UNCHANGED <<event, centres, pieces, written, phase>>

-----------------------------------------------------------------------------
(* The way from centre to centre.  With D the vector of a leg, a hit is    *)
(* Dot(w, D) / |D| ahead on it, w being the vector from the start of the   *)
(* leg to the hit, and within Precision of the point j steps ahead if      *)
(*   |w|^2 + (j * Precision)^2 - Precision^2                               *)
(*     < 2 * (j * Precision) * Dot(w, D) / |D|.                            *)
Path == [i \in 1 .. NumClusters |-> centres[sorted[i]]]
Legs == 1 .. NumClusters - 1

Way(i)      == Minus(Path[i + 1], Path[i])
LengthSq(i) == Dot(Way(i), Way(i))

From(h, i)   == Minus(event[h].at, Path[i])
FromSq(h, i) == Dot(From(h, i), From(h, i))
Ahead(h, i)  == Dot(From(h, i), Way(i))

\* num_interpolated_points: the steps that fit into the leg.
Whole(i) ==
  CHOOSE n \in 0 .. LengthSq(i) :
    /\ Square(n * Precision) <= LengthSq(i)
    /\ LengthSq(i) < Square((n + 1) * Precision)

Stop(i, j) == [leg |-> i, step |-> j]

\* Bug: the start of a leg is left out.
StopsAfterStart(i) == [j \in 1 .. Whole(i) |-> Stop(i, j)] \o <<Stop(i + 1, 0)>>

\* interpolatePoints, from one centre to the next.
Stops(i) == [j \in 1 .. Whole(i) |-> Stop(i, j - 1)] \o <<Stop(i + 1, 0)>>

InterpolatedPoints == FlattenSeq([i \in Legs |-> Stops(i)])

\* Is the hit at or beyond q in the direction of leg i?  q is a point of the
\* leg or the next centre.
Passed(h, i, q) ==
  IF q.leg = i
  THEN Ahead(h, i) >= 0 /\ Square(Ahead(h, i)) >= Square(q.step * Precision) * LengthSq(i)
  ELSE Ahead(h, i) >= LengthSq(i)

\* Is a hit that has passed q within Precision of it?
Near(h, q) ==
  LET ahead == q.step * Precision
      c == FromSq(h, q.leg) + Square(ahead) - Square(Precision)
  IN  c < 0 \/ Square(c) * LengthSq(q.leg) < Square(2 * ahead * Ahead(h, q.leg))

\* rotateVectorParallelZ divides by zero: a leg without length or along z.
NoAxis(i) == Way(i)[1] = 0 /\ Way(i)[2] = 0

(* The hits of the piece from p to q: those between the planes through its *)
(* ends and within the sphere around its start.  A piece without length,   *)
(* or one along z, is turned into no numbers, and no hit compares.         *)
Selected(p, q) ==
  {h \in DOMAIN event :
     /\ p # q /\ ~ NoAxis(p.leg)
     /\ Passed(h, p.leg, p) /\ ~ Passed(h, p.leg, q)
     /\ Near(h, p)}

Charge(S) == MapThenSumSet(LAMBDA h : event[h].charge, S)

\* calculateChargeCenters, and the hits that are written.
Fill ==
  /\ phase = "walk" /\ Len(sorted) = NumClusters
  /\ \E p \in {InterpolatedPoints} :
       pieces' = [i \in 1 .. Len(p) - 1 |-> Selected(p[i], p[i + 1])]
  /\ LET centre(i) == Cardinality(pieces'[i]) >= MinSelected /\ Charge(pieces'[i]) # 0
         n         == Cardinality({i \in DOMAIN pieces' : centre(i)})
     IN  written' = IF n < MinOut THEN 0 ELSE n
  /\ phase' = "done"
  /\ UNCHANGED <<event, centres, sorted>>

TrackNext == (\E e \in Events : Execute(e)) \/ Walk \/ Fill

TrackSpec == TrackInit /\ [][TrackNext]_trackVars

-----------------------------------------------------------------------------
(* A leg reaches a hit that is between its ends and within Precision of    *)
(* the last stop it has passed; the rest beyond the last whole step is the *)
(* last stop's too.  The first leg needs one whole step.                   *)
LastPassed(h, i) ==
  Max({j \in 0 .. Whole(i) : (j = 0 \/ j < Whole(i)) /\ Passed(h, i, Stop(i, j))})

Reached(i) ==
  {h \in DOMAIN event :
     /\ ~ NoAxis(i) /\ (i = 1 => Whole(i) > 0)
     /\ 0 <= Ahead(h, i) /\ Ahead(h, i) < LengthSq(i)
     /\ Near(h, Stop(i, LastPassed(h, i)))}

\* A leg that reaches a hit has one piece for it, one that does not has none.
OnePiecePerLeg ==
  phase = "done" /\ pieces # << >> =>
    \A h \in DOMAIN event :
      Cardinality({p \in DOMAIN pieces : h \in pieces[p]})
        = Cardinality({i \in Legs : h \in Reached(i)})

\* On the straight line of leg i, and not in its rest.
OnAxis(h, i) ==
  /\ FromSq(h, i) * LengthSq(i) = Square(Ahead(h, i))
  /\ 0 <= Ahead(h, i)
  /\ IF Whole(i) = 0 THEN i # 1 /\ Ahead(h, i) < LengthSq(i)
     ELSE Square(Ahead(h, i)) < Square(Whole(i) * Precision) * LengthSq(i)

AxisHitsKept ==
  phase = "done" /\ pieces # << >> =>
    \A i \in Legs : ~ NoAxis(i) =>
      \A h \in DOMAIN event :
        OnAxis(h, i) => \E p \in DOMAIN pieces : h \in pieces[p]

(* A hit has one piece for each leg that reaches it, through all seams of  *)
(* the list of points.  So it is lost where no leg reaches it, off the     *)
(* axis near the end of a piece or in the rest of a leg, and taken once    *)
(* for each leg at a bend where several do.  A hit on the straight line    *)
(* between two successive centres is kept unless the line is along z or    *)
(* the hit lies in its rest: the spheres cover the axis without a gap      *)
(* (Interpolation.cpp:251, 297 and 312).                                   *)
HitsInPieces == OnePiecePerLeg /\ AxisHitsKept

(* With a cluster without hits the event is never finished: wherever the   *)
(* walk starts, some centre is not at a finite distance from all that are  *)
(* left, and the loop counts only centres it has found                     *)
(* (Interpolation.cpp:216-235).                                            *)
EmptyClusterHangs == Nowhere \in ToSet(centres) => phase = "walk"

(* The loop that orders the centres comes to its end if every cluster has  *)
(* a hit, and only then (Interpolation.cpp:216-235).                       *)
WalkEnds ==
  /\ (phase = "walk" /\ Nowhere \notin ToSet(centres)) ~> (phase = "done")
  /\ []EmptyClusterHangs
=============================================================================
