------------------------------ MODULE SimInit ------------------------------
(***************************************************************************)
(* SimSvc::initialize: the tools, Geant4 with the sensitive detectors of   *)
(* the geometry, the regions of the region tools, the random seeds and the *)
(* run.  The steps share the Geant4 kernel and are not undone when a later *)
(* one fails.                                                              *)
(***************************************************************************)
EXTENDS Integers, FiniteSetsExt, SequencesExt

CONSTANTS
  Configs,     \* the job options: [regions, tools, seeds, fromGaudi, interactive, types]:
               \* regions is the list of region tools, tools their settings,
               \* types the map sensitiveTypes of GeoSvc
  Daughters,   \* number of volumes placed in the world
  Matching,    \* name -> the placed volumes whose name contains it
  SensTypes,   \* sensitive volume -> type given in the compact file
  Plugins,     \* the sensitive detectors that can be created
  Generic      \* type -> the name "Geant4" with the type appended

\* A tool: [kind, names, valid]; valid tells whether the other checks of its
\* initialize pass.
Kinds == {"limits", "tracker", "calorimeter"}
World == "world"

ASSUME ConfigAssumption ==
  \A c \in Configs :
    /\ c.regions \in Seq(DOMAIN c.tools)
    /\ \A t \in DOMAIN c.tools :
         /\ c.tools[t].kind \in Kinds
         /\ c.tools[t].names \in Seq(DOMAIN Matching)
ASSUME MatchingAssumption ==
  /\ Daughters \in Nat /\ World \in DOMAIN Matching
  /\ \A n \in DOMAIN Matching : Matching[n] \subseteq 1 .. Daughters

VARIABLES
  svc,      \* "new", "construct", "retrieve", "create", "seed", "started",
            \* "failed" or "crashed"
  config,   \* the job options of this job
  sdOf,     \* sensitive volume -> plugin of its sensitive detector
  at,       \* the region tool that is next, by its place in the list
  made,     \* the regions, in the order they are made: [tool, volume]
  limited   \* tool that has set limits for the world volume, or none

initVars == <<svc, config, sdOf, at, made, limited>>

NoTool == "none"

SimInit ==
  /\ svc = "new"
  /\ config \in Configs
  /\ sdOf = << >>
  /\ at = 1 /\ made = << >> /\ limited = NoTool

-----------------------------------------------------------------------------
\* Services and the tools for the detector, the physics list and the actions.
\* GeoSvc reports success also if it has built no geometry.
RetrieveTools ==
  /\ svc = "new"
  /\ svc' \in {"construct", "failed"}
  /\ UNCHANGED <<config, sdOf, at, made, limited>>

Mapped(t) == IF t \in DOMAIN config.types THEN config.types[t] ELSE t

\* A type that is not found is tried as Geant4<Type>: of the mapped name.
Plugin(t) ==
  LET m == Mapped(t) IN
  IF m \in Plugins THEN {m}
  ELSE IF m \in DOMAIN Generic /\ Generic[m] \in Plugins THEN {Generic[m]} ELSE {}

\* Bug: a detector that cannot be created is left out.
InitializeGeant4Unchecked ==
  /\ svc = "construct"
  /\ sdOf' = [v \in {u \in DOMAIN SensTypes : Plugin(SensTypes[u]) # {}} |->
                CHOOSE p \in Plugin(SensTypes[v]) : TRUE]
  /\ svc' = IF config.interactive THEN "failed" ELSE "retrieve"
  /\ UNCHANGED <<config, at, made, limited>>

\* m_runManager.Initialize, which calls GeoConstruction::ConstructSDandField;
\* without a sensitive detector it throws.  An interactive session is refused.
InitializeGeant4 ==
  /\ svc = "construct"
  /\ IF \A v \in DOMAIN SensTypes : Plugin(SensTypes[v]) # {}
     THEN /\ sdOf' = [v \in DOMAIN SensTypes |-> CHOOSE p \in Plugin(SensTypes[v]) : TRUE]
          /\ svc' = IF config.interactive THEN "failed" ELSE "retrieve"
     ELSE svc' = "failed" /\ UNCHANGED sdOf
  /\ UNCHANGED <<config, at, made, limited>>

Tool(i) == config.tools[config.regions[i]]

\* The tool service makes a tool once; its initialize needs a volume name.
RetrieveRegions ==
  /\ svc = "retrieve"
  /\ svc' = IF \A i \in DOMAIN config.regions : Tool(i).names # << >> /\ Tool(i).valid
            THEN "create" ELSE "failed"
  /\ UNCHANGED <<config, sdOf, at, made, limited>>

\* The volumes whose name contains n, in the order they are placed.
VolumesNamed(n) ==
  FlattenSeq([d \in 1 .. Daughters |-> IF d \in Matching[n] THEN <<d>> ELSE << >>])

\* The volumes of a tool, name by name.
VolumesOf(names) == FlattenSeq([i \in DOMAIN names |-> VolumesNamed(names[i])])

RegionsOf(tool, regions) == {i \in DOMAIN regions : regions[i].tool = tool}

\* Bug: the number of regions is not compared.
ContentAlways(tool, regions) == TRUE

\* SimUserLimitRegion counts all regions the tool has made.
Content(tool, regions) ==
  config.tools[tool].kind = "limits" =>
    Cardinality(RegionsOf(tool, regions)) = Len(config.tools[tool].names)

ForWorld(tool) == config.tools[tool].kind = "limits" /\ World \in ToSet(config.tools[tool].names)

\* The create of the tool that is next.
CreateRegions ==
  /\ svc = "create" /\ at <= Len(config.regions)
  /\ LET tool  == config.regions[at]
         names == config.tools[tool].names
     IN  IF ForWorld(tool)
         THEN limited' = tool /\ at' = at + 1 /\ UNCHANGED <<made, svc>>
         ELSE /\ made' = made \o [i \in DOMAIN VolumesOf(names) |->
                                    [tool |-> tool, volume |-> VolumesOf(names)[i]]]
              /\ IF Content(tool, made') THEN at' = at + 1 /\ UNCHANGED svc
                 ELSE svc' = "failed" /\ UNCHANGED at
              /\ UNCHANGED limited
  /\ UNCHANGED <<config, sdOf>>

\* Two seeds are read, whether the engine has two or not.
Seed ==
  /\ svc = "create" /\ at > Len(config.regions)
  /\ svc' \in IF config.fromGaudi /\ config.seeds < 2 THEN {"seed", "crashed"} ELSE {"seed"}
  /\ UNCHANGED <<config, sdOf, at, made, limited>>

\* RunManager::start, where Geant4 may refuse.
Start ==
  /\ svc = "seed"
  /\ svc' \in {"started", "failed"}
  /\ UNCHANGED <<config, sdOf, at, made, limited>>

SimInitNext ==
  RetrieveTools \/ InitializeGeant4 \/ RetrieveRegions \/ CreateRegions \/ Seed \/ Start

-----------------------------------------------------------------------------
InitTypeOK ==
  /\ svc \in {"new", "construct", "retrieve", "create", "seed", "started", "failed", "crashed"}
  /\ config \in Configs
  /\ DOMAIN sdOf \subseteq DOMAIN SensTypes /\ ToSet(sdOf) \subseteq Plugins
  /\ at \in 1 .. Len(config.regions) + 1
  /\ made \in Seq([tool : DOMAIN config.tools, volume : 1 .. Daughters])
  /\ limited \in DOMAIN config.tools \cup {NoTool}

\* The region a volume belongs to: Geant4 lets the last one have it.
RegionOf(v) ==
  LET of == {i \in DOMAIN made : made[i].volume = v}
  IN  IF of = {} THEN NoTool ELSE made[Max(of)].tool

\* The tool at the last of these places in the list.
LastTool(places) == IF places = {} THEN NoTool ELSE config.regions[Max(places)]

Names(tool) == ToSet(config.tools[tool].names)

WorldPlaces == {i \in DOMAIN config.regions : ForWorld(config.regions[i])}

PlacesOf(v) ==
  {i \in DOMAIN config.regions :
     /\ ~ForWorld(config.regions[i])
     /\ \E n \in Names(config.regions[i]) : v \in Matching[n]}

\* Each name of a limits tool is part of the name of at most one volume.
Distinct(tool) ==
  /\ config.tools[tool].kind = "limits" /\ ~ForWorld(tool)
  /\ \A n \in Names(tool) : Cardinality(Matching[n]) <= 1

(* When the service has started, each volume is under the last tool of the *)
(* list that names it, and no name of a limits tool went unnoticed, as     *)
(* long as no name is part of the names of two volumes: the test counts    *)
(* regions (SimSvc.cpp:100-105, SimUserLimitRegion.cpp:46-65).             *)
LimitsInForce ==
  svc = "started" =>
    /\ limited = LastTool(WorldPlaces)
    /\ \A v \in 1 .. Daughters : RegionOf(v) = LastTool(PlacesOf(v))
    /\ \A t \in ToSet(config.regions) :
         Distinct(t) => \A n \in Names(t) :
                          \E r \in ToSet(made) : r.tool = t /\ r.volume \in Matching[n]
=============================================================================
