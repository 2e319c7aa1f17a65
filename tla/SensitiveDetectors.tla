------------------------- MODULE SensitiveDetectors -------------------------
(***************************************************************************)
(* The sensitive detectors of SimSensitive while Geant4 tracks an event:   *)
(* each step in a sensitive volume is offered to the detector attached to  *)
(* it, which may add it to a collection of hits that was made new at the   *)
(* beginning of the event.                                                 *)
(*                                                                         *)
(* Energies are small integers; a track loses energy in a step to the      *)
(* volume and to a new track, which never gets all of it (the bound on the *)
(* number of steps).                                                       *)
(***************************************************************************)
EXTENDS Integers, Sequences, Functions, FiniteSetsExt

CONSTANTS
  Cells,      \* cells of every readout
  Energy,     \* energy of the particle an event begins with
  EdepCut,    \* m_edepCut of the drift chamber
  MaxEvents   \* bound: events of a job

ASSUME EnergyAssumption == Energy \in Nat \ {0} /\ EdepCut \in Nat \ {0} /\ MaxEvents \in Nat
ASSUME CellsAssumption  == IsFiniteSet(Cells)

\* The plugins of SimSensitive.
Detectors ==
  {"MegatSimpleTrackerSD", "MegatAggregateCalorimeterSD", "MegatSimpleCalorimeterSD",
   "MegatBirksLawCalorimeterSD", "MegatGflashCalorimeterSD", "MegatFullParticleAbsorptionSD",
   "MegatSimpleDriftChamber"}

VARIABLES
  tracks,     \* energies of the particles still tracked, a sequence
  hits,       \* sensitive volume -> its collection, a sequence of [cell, energy]
  deposited,  \* sensitive volume -> cell -> energy deposited in this event
  escaped,    \* energy that left the world in this event
  events,     \* events begun
  tracking    \* whether an event is being tracked

eventVars == <<tracks, hits, deposited, escaped, events, tracking>>

EventInit ==
  /\ tracks = << >> /\ hits = << >> /\ deposited = << >>
  /\ escaped = 0 /\ events = 0 /\ tracking = FALSE

-----------------------------------------------------------------------------
\* Bug: the collection of the event before is filled on.
NewCollectionsOnce(sdOf) == IF hits = << >> THEN [v \in DOMAIN sdOf |-> << >>] ELSE hits

\* Initialize of every detector.
NewCollections(sdOf) == [v \in DOMAIN sdOf |-> << >>]

BeginEvent(sdOf) ==
  /\ ~tracking /\ events < MaxEvents
  /\ tracks' = <<Energy>>
  /\ hits' = NewCollections(sdOf)
  /\ deposited' = [v \in DOMAIN sdOf |-> [c \in Cells |-> 0]]
  /\ escaped' = 0
  /\ events' = events + 1
  /\ tracking' = TRUE

Hit(c, e) == [cell |-> c, energy |-> e]

Aggregated(h, c, e) ==
  LET same == {i \in DOMAIN h : h[i].cell = c}
  IN  IF same = {} THEN Append(h, Hit(c, e))
      ELSE [h EXCEPT ![Min(same)].energy = @ + e]

\* The collections ProcessHits may leave for a step that deposits e in cell c
\* and leaves the track the energy k.  Birks' law lowers the energy.
Processed(plugin, h, c, e, k) ==
  CASE plugin = "MegatAggregateCalorimeterSD" ->
         {IF e = 0 THEN h ELSE Aggregated(h, c, e)}
    [] plugin \in {"MegatSimpleCalorimeterSD", "MegatSimpleTrackerSD", "MegatGflashCalorimeterSD"} ->
         {IF e = 0 THEN h ELSE Append(h, Hit(c, e))}
    [] plugin = "MegatBirksLawCalorimeterSD" ->
         IF e = 0 THEN {h} ELSE {Append(h, Hit(c, r)) : r \in 1 .. e}
    [] plugin = "MegatSimpleDriftChamber" ->
         {h} \cup (IF e < EdepCut THEN {} ELSE {Append(h, Hit(c, e))})
    [] plugin = "MegatFullParticleAbsorptionSD" ->
         {Append(h, Hit(c, k))}

\* Bug: the absorbing detector lets the particle go on.
KillsNever(plugin) == FALSE

\* SetTrackStatus(fStopAndKill)
Kills(plugin) == plugin = "MegatFullParticleAbsorptionSD"

Rest(k) == IF k = 0 THEN << >> ELSE <<k>>

\* A step of the particle that is tracked: e is deposited, s goes to a new one.
\* (A step without loss of energy is of no effect elsewhere, by the cuts.)
Step(sdOf) ==
  /\ tracking /\ tracks # << >>
  /\ \E v \in DOMAIN sdOf, c \in Cells, e, s \in 0 .. Head(tracks) :
       LET k == Head(tracks) - e - s IN
       /\ k >= 0 /\ s < Head(tracks)
       /\ e + s > 0 \/ Kills(sdOf[v])
       /\ \E h \in Processed(sdOf[v], hits[v], c, e, k) : hits' = [hits EXCEPT ![v] = h]
       /\ deposited' = [deposited EXCEPT ![v][c] = @ + e]
       /\ tracks' = (IF Kills(sdOf[v]) THEN << >> ELSE Rest(k)) \o Tail(tracks) \o Rest(s)
  /\ UNCHANGED <<escaped, events, tracking>>

\* GFlash replaces a particle by spots of energy: the other ProcessHits.
Spot(sdOf) ==
  /\ tracking /\ tracks # << >>
  /\ \E v \in DOMAIN sdOf, c \in Cells :
       /\ sdOf[v] = "MegatGflashCalorimeterSD"
       /\ hits' = [hits EXCEPT ![v] = Append(@, Hit(c, Head(tracks)))]
       /\ deposited' = [deposited EXCEPT ![v][c] = @ + Head(tracks)]
       /\ tracks' = Tail(tracks)
  /\ UNCHANGED <<escaped, events, tracking>>

Escape ==
  /\ tracking /\ tracks # << >>
  /\ escaped' = escaped + Head(tracks)
  /\ tracks' = Tail(tracks)
  /\ UNCHANGED <<hits, deposited, events, tracking>>

EndEvent ==
  /\ tracking /\ tracks = << >>
  /\ tracking' = FALSE
  /\ UNCHANGED <<tracks, hits, deposited, escaped, events>>

EventNext(sdOf) ==
  BeginEvent(sdOf) \/ Step(sdOf) \/ Spot(sdOf) \/ Escape \/ EndEvent

-----------------------------------------------------------------------------
EnergyIn(h, S) == SumFunctionOnSet([i \in DOMAIN h |-> h[i].energy], S)
InCell(h, c)   == {i \in DOMAIN h : h[i].cell = c}

(* The collection of a volume holds what was deposited in it in this event *)
(* and nothing else: per cell the sum, whatever the order of the steps; in *)
(* the aggregating detector one hit per cell; less where Birks' law or the *)
(* cuts of the drift chamber apply (AggregateCalorimeterSD.cpp:27-69).     *)
CellsHoldSum(sdOf) ==
  \A v \in DOMAIN hits, c \in Cells :
    LET h == hits[v]
        sum == EnergyIn(h, InCell(h, c))
    IN  CASE sdOf[v] = "MegatFullParticleAbsorptionSD" -> TRUE
          [] sdOf[v] \in {"MegatBirksLawCalorimeterSD", "MegatSimpleDriftChamber"} ->
               sum <= deposited[v][c]
          [] sdOf[v] = "MegatAggregateCalorimeterSD" ->
               sum = deposited[v][c] /\ Cardinality(InCell(h, c)) <= 1
          [] OTHER -> sum = deposited[v][c]

(* Killing the track is "to ensure no double counting": with what was      *)
(* deposited, escaped or is still under way, the absorbed energies make up *)
(* the energy of the event (FullParticleAbsorptionSD.cpp:38-50).           *)
EnergyBalance(sdOf) ==
  tracking =>
    LET absorbing == {v \in DOMAIN sdOf : sdOf[v] = "MegatFullParticleAbsorptionSD"}
    IN  Energy = escaped
          + SumFunction(tracks)
          + SumFunction([v \in DOMAIN sdOf |-> SumFunctionOnSet(deposited[v], Cells)])
          + SumFunction([v \in absorbing |-> EnergyIn(hits[v], DOMAIN hits[v])])
=============================================================================
