# Verification of k4MegaT

k4MegaT simulates, digitises and reconstructs a gas TPC (and auxiliary detectors) on
Gaudi, Geant4 and DD4hep.  This directory holds TLA+ models of its control logic, TLC
configurations that check them on small instances, and TLAPS proofs of their most
important properties for every instance.

Source references are paths under `src/`; the exact lines behind each definition are in
the `map` of `PROJECT.json`.

## 1. Inventory

| Part | Source | State | Operations | What makes it correct |
|---|---|---|---|---|
| Run manager | `sim/kernel/src/RunManager.cpp` | `m_prevEventTerminated`, `currentEvent`, life of the G4Event | start, processEvent, retrieveEvent, terminateEvent, finalize | process/retrieve/terminate alternate; an event is given back once, never replaced before |
| Simulation algorithm | `sim/components/core/SimAlg.cpp` | none between events | execute: get, process, retrieve, save by each tool, terminate | each record of the file is from its own event, complete unless a call failed |
| Geant4 service | `sim/components/core/SimSvc.cpp` | run manager, tools | initialize, forwards of the run manager | initialisation stops at the first failure; a service that has started is set up as configured |
| Regions and user limits | `sim/components/regions/*.cpp`, `sim/components/fast/*Region.cpp` | regions of each tool | initialize, create | a volume is under the limits that were meant for it |
| User actions | `sim/kernel/src/FullSim*.cpp`, `EventInformation.cpp` | particle collection of the event | begin/end of tracking and event | the collection is owned by exactly one party |
| Output tools | `sim/components/output/*.cpp` | handles | saveOutput | reads only the event it was given; what it follows unchecked is there |
| Event providers | `sim/components/generator/*.cpp` | generator state | getG4Event | an event, nothing, or an exception |
| Geometry service | `sim/components/core/GeoSvc.cpp` | two surface caches | initialize, two look-ups | a look-up answers as the geometry does |
| Sensitive detectors | `sim/sensitive/src/*.cpp` | hit collection, index of cells | ProcessHits, Initialize | a collection holds what was deposited in its event, no energy twice |
| Electron drift | `digi/components/tpc/TpcDriftAlg.cpp` | none between events | execute | electrons are accounted for, energy is shared, not made |
| Segmentation | `digi/components/tpc/TpcSegmentAlg.cpp` | `m_hitCache`, `is_multiSeg` | initialize, execute, add_hit | a cell holds exactly its electrons of this event |
| Sampling | `digi/components/tpc/TpcSamplingAlg.cpp` | shaping table | execute | the series of a cell is the sum of the pulses of its electrons |
| Smearing | `digi/components/*/…SmearAlg.cpp` | random stream | execute | a clone keeps its raw hits |
| Detector construction | `detector/geometry/src/*.cpp` | built once | constructors | PCBs of a volume have different identifiers |
| Diagonal strips | `detector/geometry/src/DiagonalStrip_segmt.cpp` | parameters | cellID, position, neighbours | cellID and position agree, layers alternate, neighbours are neighbours |
| Reconstruction | `recon/components/Interpolation.cpp` | per event | execute: cluster, order, divide, fill | the walk ends when every cluster has a hit; a hit has one piece for each leg that reaches it |
| 3D hits | `reco3d/*.py` | per call | buildHitPairs, build3d, fits | pairs are those within the window |
| Analysis runner | `analysis/python/mgana/*.py` | files of each stage | run a stage, final step | files partition the input; the number of processed events is that of the original events |
| Analysis library | `analysis/src/*.cpp` | look-up tables | column operations | columns agree with the geometry |

**Interaction.**  One thread.  Gaudi calls `execute` of the algorithms of the list in
turn for each event; algorithms talk through the event store, which Gaudi clears after
each event.  Simulation algorithm → Geant4 service → run manager → Geant4, which calls
the user actions and sensitive detectors back; output tools put collections in the
store. Digitisation reads simulated hits from the store: drift → segmentation → smearing
→ sampling; `PodioOutput` writes what the store holds at the end of the event.

**What is hard.**  Nothing runs concurrently and no messages are sent.  The hazards are
state that survives from one event to the next (run manager flag and current event, hit
cache, the uninitialised `constevent`), StatusCodes that are ignored, exceptions between
two statements of a protocol, ownership that passes between three parties, files that an
analysis command leaves behind when it is cut off, and numeric edges: rounding, bins out
of range, overlaps and gaps of surfaces, dropped samples.  `PROJECT.json` lists each
under `hazards` with the line where it bites.

## 2. Modules

| Module | Models |
|---|---|
| `RunManager` | the run manager: one action per method, the G4Event's life, the hand-over of the particle collection |
| `SimAlg` | `SimAlg::execute` call by call with each call's failure, the output tools, and the Gaudi event loop; uses `RM == INSTANCE RunManager` |
| `EventOutput` | abstract: record n of the file belongs to event n; it lacks collections only if its event failed; the job ends at the `ErrorMax`-th failure or with a record for every event |
| `MCSimAlg` | instance of the simulation |
| `SimAlg_proofs` | proofs about `SimAlg` |
| `TpcDrift`, `MCTpcDrift` | `TpcDriftAlg::execute` electron by electron |
| `TpcReadout` | the geometry as the segmentation sees it: PCBs, their bounds and identifiers, bins, the cells of an electron |
| `TpcSegment`, `MCTpcSegment` | `TpcSegmentAlg::execute` electron by electron, and the event loop around it |
| `CellGrouping` | abstract: an event's electrons are grouped in one step |
| `TpcSegment_proofs` | proofs about `TpcSegment`, with the refinement of `CellGrouping`, and about `DiagonalStrip` |
| `TpcSampling`, `MCTpcSampling` | `TpcSamplingAlg::execute` hit by hit, after the smearing |
| `TpcSampling_proofs` | proofs about `TpcSampling` |
| `DiagonalStrip`, `MCDiagonalStrip` | `cellID`, `position` and `neighbours` of the diagonal strip segmentation |
| `SimInit` | `SimSvc::initialize`: tools, sensitive detectors, regions, seeds, start of the run |
| `SensitiveDetectors` | the collections of the sensitive detectors, step by step |
| `SimStart` | composes both: a service that has started tracks events in the detectors it attached |
| `MCSimStart` | instance of such jobs |
| `SimStart_proofs` | proofs about `SimStart` |
| `HitPairs` | `buildHitPairs` and `build3d` of `Hit3DBuilder.py`, one X hit at a time |
| `Interpolation` | `Interpolation::execute`: the walk over the cluster centres and the pieces of the way |
| `MCReco` | instance of both reconstruction programs, one of which is started |
| `Reco_proofs` | proofs about `HitPairs` and `Interpolation` |
| `Analysis`, `MCAnalysis` | the stages of an analysis, their files, and the final step |
| `Analysis_proofs` | proofs about `Analysis` |
| `TpcDrift_proofs` | proofs about `TpcDrift` |
| `SumTheorems` | lemmas on sums over finite sets, induction and division, used by the proofs |

### Simulation

`live` is the set of allocated G4Events, `currentEvent` and `prevEventTerminated` the
members of the run manager, `event` and `constevent` the locals of `execute`,
`particles` the allocated particle collections of the history, `store` the collections
put by the tools and `written` the file.  `pc` is the statement of `execute` that runs
next.  A G4Event is known by the number of the Gaudi event it was allocated in, so a
record that holds another number holds another event's data.

`SaveTools` is the list of tools of the job by kind: `"primaries"`, `"calHits"`,
`"trackerHits"`, `"trajectory"` and `"history"`; the instance has the five of
`simple_sim.py` in its order.  A tool may throw before or after it puts its collection,
and it may crash the job, since each kind but the first follows a pointer it does not
check:

- `SimSaveHistory.cpp:27-29` the event information, which is there only if the action
  initialisation has `enableHistory`;
- `SimSaveTrajectory.cpp:29-30` the trajectory container, which Geant4 makes with the
  first track of an event and only if it is told to store trajectories
  (`storeTrajectory`, `tracked`);
- `SimSaveCalHits.cpp:67-69` and `SimSaveTrackerHits.cpp:63-65` the result of a
  `dynamic_cast` of each hit of the readout, null for a hit of the other class.
  `HitClasses` says which classes the detectors of a tool's readout make; in the instance
  the calorimeter's readout is shared by both kinds.

Each of them also reads the event it is given.  `CrashNeedsMisfit` says that the former
are the only ways: the event pointer itself is never the cause.

Outside `src/`, modelled from use: Geant4 simulates an event and calls the actions;
Gaudi's event loop catches exceptions, counts failures, ends the loop at `ErrorMax`,
runs the remaining algorithms of a failing event (so the record is still written) and
clears the store.

### Drift

A simulated hit yields electrons one by one; each is attached, leaves the bounds, finds
no surface, or is collected.  Poisson and diffusion results are choices, energies are
exact fractions over a common denominator, and one coordinate stands for the plane. The
sum of the deposits, which decides whether the numbers are scaled down, is accumulated
hit by hit ahead of the loop; `sums` keeps every partial sum, the code only the last one
(`TotEdep`).  The partial sums are what the proof of the limit compares the electrons
made so far with.

### Segmentation

`segType` is the type of the segmentation that `initialize` looks up: pixels, strips
(`MultiSegmentation`) or diagonal strips.  Diagonal strips take the path of the pixels,
but their `cellID` writes the layer itself, into the field that was to hold the PCB
(`FieldKept`).  `hitCache` is the member `m_hitCache`; nothing but the end of `execute`
empties it, and the model keeps it across events for that reason.  A raw hit is the pair
of its event and its index: the code stores only the index, the event is recorded so
that a property can tell an electron of another event, and the PCB of the call that one
PCB from another.  `Bin`, `Layer` and `Covers` are arbitrary functions, so overlaps,
gaps and coinciding bins of PCBs are covered; an electron in an overlap is added twice,
possibly to one cell.  `newField` has its default, `"layer"`.  Three ways to leave
early: strips with several PCBs (FAILURE), no PCB (`front()` of an empty list, ends the
job) and a bin that does not fit its cellID field (the decoder throws, after some cells
were filled).

### Smearing and sampling

`Smear` is `TpcSimpleSmearAlg`: each hit is cloned with its raw hits, and noise is added
to its time and energy.  `CaloSimpleSmearAlg` is the same loop over calorimeter hits.
Then each hit refers to electrons by index; those of the checked collection are binned
by arrival time and convolved with the table of the shaper.  A word that does not fit 16
bits is caught and dropped.  A negative bin is used as an index: the outcome is a choice
between a lost count and a crash.

### Start of the simulation

`svc` is the step of `SimSvc::initialize` that runs next.  The steps change Geant4's
kernel and nothing undoes them: `made` is the list of regions in the order they are
made, `limited` the limits tool that last set those of the world volume, `sdOf` the
sensitive detector of each volume.  `Matching` says which placed volumes contain a name,
since the code looks for substrings.  Geant4 lets a volume be in the region that was
given it last (`RegionOf`).  The configuration of the job (`regiontools`, their
properties, `sensitiveTypes`, the seeds) is chosen in Init and stays.  `SimStart` goes
on with events once `svc` is `"started"`.

### Sensitive detectors

A step of a track deposits energy in a cell of a volume, gives some to a new track and
leaves the rest to its own.  `Processed` is `ProcessHits` of each detector; Birks' law
and the length of a step are choices.  The detector that absorbs a particle makes a hit
of the energy the track has *after* the step, the deposit itself is in no hit.
`deposited` and `escaped` are not in the code: they record what the hits are compared
with.  An event has `Energy` units.  The detectors are the seven of the repository; a
type that falls back to a detector of DD4hep itself (`Geant4<Type>`) is modelled up to
its creation, not what it records.

### Reconstruction

`HitPairs`: `Orders` are all results of `argsort`, which need not be stable.  The inner
loops move pointers to the first hit that is not before the window (`Moves`).  When the
table is made, an empty list of pairs or a `col_spec` with one of z and edep raises.

`Interpolation`: hits and centres are points of a lattice in space.  The clustering is
mlpack's; all that is assumed of it is that a centre lies between the hits in each
coordinate (`Box`), that clusters may stay empty only if there are fewer places than
clusters, and that one has a hit.  The centre of an empty cluster is at `DBL_MAX`
(`Nowhere`), whose squared distance to another is infinite and never less than the
smallest so far, so the loop that orders the centres does not advance: `Walk` stutters.

The way from centre to centre has legs, and each leg a point every `Precision` and one at
its end (`Stops`).  These points are not on the lattice; a point is known by its leg and
its number of steps, and every comparison of the code is made exactly with squares and
scalar products.  `Near` is the sphere of line 297, in space; `Passed` is the comparison
of lines 303-314, for which the code turns the leg onto the z axis: the coordinate it
compares is the projection on the leg, negated.  The code compares a hit with the two
ends of a piece; both are points of one leg, or the second is the centre the leg leads
to.  A leg along z has no axis to turn about: `n / Mag(n)` divides zero by zero, and no
hit compares with NaN (`NoAxis`).  The rounding of the code's arithmetic is left out.

### Analysis

`disk` is what the commands share: for each stage the file `process.root` or the chunks
in the directory `process/`.  A file has a number of entries and, after `Update`,
`eventsProcessed`.  `RunRDF` writes a chunk and `Update` adds the count to it; either
may end the command instead (`RunRDFEnds`, `UpdateEnds`), and the files stay.  Stages
are run in any order and again, and none empties its directory first: chunks of an
earlier run, or its `process.root`, stay beside the files of a later one.  The final step
(`RunFinal`) opens the file and all chunks it finds and prints two numbers, the events
processed and the entries (`ana_run.py:462-463`); nothing is scaled by them.

For the properties a file also carries its past: the number of the stage that wrote it
(`run`), the paths it was made from (`src`), the original files behind it (`origin`), and
whether in all stages up to its own no original file came in twice (`once`), no
`--nevents` cut the input (`full`), and besides no input had lost its count (`whole`).
The counts are compared with the entries of the files behind, each file once
(`EventsBehind`), which does not follow the way the code adds them up.

### Diagonal strips

The segmentation is a pure algorithm.  Lengths are integers, and the strip is an even
number of them, so that half a strip is one too; the code's `floor` of a quotient and
its shift by one bit are `\div`.  The module has no state of the program: a probe visits
the places of a square around the origin, one unit at a time, which makes every place a
state and lets an action property compare adjacent places.  A strip that its field does
not hold makes the decoder throw (`HasStrip`); `neighbours` leaves such strips out.

## 3. Runs

| Run | Question | Instance | Result |
|---|---|---|---|
| `sim_event` | Can data of one event be written as another's, leak or dangle, while every StatusCode is ignored? | 4 events, the five tools of `simple_sim.py`, with and without the history, stored trajectories and tracks, all failures, `ErrorMax` 1 | holds |
| `sim_event_errormax2` | And if the job survives one failure? | `ErrorMax` 2 | violated (finding 1) |
| `tpc_drift` | Are electrons and energy accounted for under all options? | up to 3 hits, all settings of the three switches; 85,086 states | holds |
| `tpc_drift_time` | Does the arrival time include the time of the hit, as documented? | same | violated (finding 2) |
| `tpc_segment` | Does incremental grouping with a member cache group each event exactly? | 2 events of up to 3 electrons, volumes with 0, 1 and 2 PCBs, overlap, gap, out-of-range bin | holds; implements `CellGrouping` |
| `tpc_segment_diagonal` | Are strips on several PCBs refused or kept apart, as the messages say? | 2 PCBs without overlap | violated (finding 3) |
| `tpc_sampling` | Is the binned convolution the superposition of single pulses, and do smeared clones keep their electrons? | 2 cells over 3 electrons, a shared electron, 2 gains, noise on time and energy; 279,888 states | holds |
| `tpc_sampling_pts` | Does each series have `nr_points` words, as documented? | same | violated (finding 4) |
| `diagonal_strip` | Do `cellID`, `position` and `neighbours` agree, also at boundaries and negative coordinates? | strips of 4 units, 25 by 25 places, both offsets not 0, outer strips beyond the field | holds |
| `sim_start` | Has a service that started the limits that were asked for, and do its detectors record the energy of each event once? | every pair of 7 region tools over 3 volumes, every detector for the calorimeter and 2 for the tracker, a missing plugin, one seed, an interactive session; 2 events of 5 units; 110,199 states | holds |
| `reco` | Are pairs exactly those in the window? Which hits are in which pieces, and when do the programs end? | 2 X and 2 or 3 Y hits at up to 4 times, 3 tolerances; 5 events of up to 7 hits in space, 3 clusters; 91,112 states | holds: one piece for each leg that reaches a hit, one at least for a hit on the axis; the walk ends just where no cluster is empty |
| `analysis` | Is a file's count that of the original events behind it, through chunks, fractions, `--nevents`, repeated and interrupted commands, over what earlier runs left, and what does the final step print? | 2 stages and any final steps; 3 original files, 1, or an ambiguous directory with 1 to 3 chunks and 2 runs; 2 original files, one perhaps empty, with 1 or 2 chunks and 3 runs; 735,001 states | holds: where original events come in twice or counts are lost, the properties bound what that does |

**Why the bounds are enough.**  `sim_event`: state carried between events is one flag,
one current event and the store, so two events show any carry-over; four leave room for
a failure at each position with events before it and after it.  `tpc_segment`: merging
is pairwise, so three electrons give first, merge and merge of a merge; two events show
what the cache carries.  `tpc_drift`: counters add over hits; three hits include a
first, a middle and a last under `maxHits`.  `tpc_sampling`: superposition is pairwise
over electrons; three include two in a bin and one apart, one electron shared by both
cells. `diagonal_strip`: the pattern repeats after two strips in each direction
(`StripsArePeriodic`, proved for every size), so six show all of it on either side of 0;
with strips of 4 units the positions lie on edges, centres and between them.
`sim_start`: regions compete in pairs, and three tools are checked once; the volumes
include two of which one name is part of the other's and a name that matches nothing,
the two ways the count of `SimUserLimitRegion` can go wrong; five units of energy allow
several tracks and several hits in a cell, the second event shows a collection that is
not new.  `reco`: times that are equal, windows that overlap, touch or miss, and an X
hit after all Y hits all occur with two and three hits; three centres give a turn of the
walk with a choice and one without.  The events are a line with hits beside it, a bend, a
track in space, part of it along z, and one with fewer places than clusters; steps of two
units give legs with whole steps, with a rest and shorter than a step, hits on the axis
and off it, at seams and where two legs meet, so that hits lost, kept and taken twice all
occur.  Both programs are proved for every size besides.
`analysis`: the count is handed from one stage to the next, so two stages show the
hand-over; three files in two chunks are uneven; a second run gives fewer or more chunks
than the first, another fraction, or reads what an interrupted one left.  That a *stage*
reads the leftovers of two runs takes three, which the instance has for two original
files (`MCNext` is `Next` with the settings of a run chosen by the originals).  `EvtMax`,
`ErrorMax`, `Extent`, `PoissonMax`, `Energy`, `MaxEvents`, `MaxJobs`, `Levels`, `Tracked`
(the job options whose events are tracked: those without region tools, since regions do
not matter to the events) and the input sets are the only bounds; they are constants of
the modules.

**Deadlock** is not checked where the program ends: after `finalize`, after a crash or a
failed initialisation, at the end of the events, when a reconstruction has returned, and
after the last analysis command of the bound.  That the simulation, the matching and a
walk without empty clusters come to their end is checked as `JobEnds` and
`ReconstructionEnds`.

**Fairness.** `SimAlg` has `WF_vars(Next)`, used for `JobEnds` only. The event loop is a
sequential program that always runs its next statement; what is assumed is that Geant4
and the tools return from each call. Which way a call ends is not constrained. `MCReco`
has `WF` of its next-state relation for the same reason: a single-threaded function
keeps running. `ReconstructionEnds` promises the end of the walk only for events in
which every cluster has a hit; with an empty cluster the loop of
`Interpolation.cpp:216-235` never ends, since no centre left is at a finite distance and
the loop counts only centres it has found (it can happen with fewer distinct hits than
clusters). That it never ends is no matter of fairness: `EmptyClusterHangs`, the other
half of `WalkEnds`, is an invariant and proved. The other modules state safety only and
have no fairness.

### Findings

1. With `ErrorMax` above 1 (not the default) an exception of a save tool skips
   `terminateEvent`; the next `processEvent` is refused, the refusal is ignored, and the
   failed event's data is written for the next event.
2. `TpcDriftAlg.cpp:36` documents hit time plus drift time; the drift time alone is set.
3. Code and geometry refuse strips on several PCBs by comparing the segmentation's type
   with `MultiSegmentation`.  A `DiagonalStrip` readout, the one `full_digi.py` uses,
   passes both tests; its `cellID` overwrites the PCB number with the layer, and equal
   strips of different PCBs become one hit.
4. A sample beyond 16 bits is left out of its series, so later words move up.

Seen while reading, without a run:

- Drift: the maximum number of electrons can be exceeded by up to one electron per
  simulated hit, by rounding up and by the minimum of one (`MaxHitsUpToRounding` states
  the bound that holds).  The total number is an `int` (`TpcDriftAlg.cpp:90`).
- Sampling: `TpcSimpleSmearAlg` smears time and energy of a hit; the words are computed
  from its electrons, so the noise never reaches the samples (part of
  `OneSeriesPerHit`).
- `detector/geometry/compact/TPC_readout.xml:22` gives the Y layer `offset_x`.
- Regions: for `"world"` the comment at `SimUserLimitRegion.cpp:35-36` says limits are
  set for everything; the call sets those of the world's own logical volume.  The count
  of regions at line 62 misses a name without a volume when another name matches two.  A
  limits tool that is listed twice counts its regions together and fails.
- `SimFastSimCalorimeterRegion` keeps one set of GFlash parts; with a second volume the
  parts the first model refers to are replaced.
- Sensitive detectors: `AggregateCalorimeterSD.h:19` promises the pre-step point as
  position of a hit, `AggregateCalorimeterSD.cpp:41` goes on to use the midpoint of the
  step.
- Pairs: the window of `buildHitPairs` is half-open, so exchanging X and Y changes the
  pairs at its edge; that of `build3d` is closed.  Without any pair, or with edep and no
  z in `col_spec`, the table cannot be made (`Hit3DBuilder.py:143-170`).
- `SplineReco.py` takes `np.shape[0]` and never clears `unvisited` in its loop.
- Interpolation: with fewer distinct hits than clusters the loop that orders the centres
  never ends (`EmptyClusterHangs`).  A hit is lost where it is off the axis near the far
  end of its piece, so that the sphere of line 297 leaves it out, beyond the last whole
  step of a leg and out of that step's sphere, and on the outer side of a bend; at the
  inner side it is taken once for each leg; a leg along z gets no hits at all
  (`HitsInPieces` says which, and which are safe).
- Segmentation: with `ErrorMax` above 1 `m_hitCache` keeps the cells of an event that
  failed, and they are written as hits of the next event, even one without any electron.
- Save tools: what each but `SimSavePrimaries` follows unchecked (see Simulation).
- Analysis: the docstring of `getProcessInfoFiles` says the file is taken when it
  exists, the code exits when there is a directory too, which `chunks` above 1 with a
  single input file brings about; the final step reads both.  Chunks that an earlier run
  left are read with those of the later one, by the next stage and by the final step, and
  their events are counted twice.  In the final step a file without a count sets the sum
  to one, whatever was added before it (`ana_run.py:452-453`).

## 4. Proofs

`SimAlg_proofs`, `TpcSegment_proofs`, `TpcDrift_proofs`, `TpcSampling_proofs`,
`SimStart_proofs`, `Reco_proofs` and `Analysis_proofs`, checked by tlapm, hold for any
number of events, list of tools, geometry, input, order of hits, shaper, job options,
strip size and offset, and any number of files, stages, chunks and commands.  Every
invariant and every action property of a passing run is a theorem, and so are both
refinements.  They rest on one more module, `SumTheorems`.

*Assumptions.* The named `ASSUME`s of the modules: sizes are positive; pointers are not
event numbers; different PCBs of one volume have different identifiers, as
`Tpc_OneSide_geo.cpp:263-271` assigns them; electrons and hits of the sampling have the
fields of the data model; the region tools of the job options exist; sensitive volumes
and cells are finitely many, and detectors are those of the repository; original files
are finitely many, each its own origin, and carry no count; there are two clusters at
least (the code has ten). Everything about the simulation and the segmentation but
`TypeCorrect` also assumes `ErrorMax = 1`, Gaudi's default: without it the properties
are false, as the second run shows.

*Sums.*  Several properties say what a collection adds up to.  `SumTheorems` proves what
they need about the sum operators of the community modules, which take the elements in
an arbitrary order: any element may be taken out first (`SumRemove`), a sum over classes
is the whole sum (`SumByClass`), disjoint parts of a set add up to no more than it
(`SumOfParts`), common factors, updates of one value, renamed elements.
An induction theorem with a predicate as its parameter cannot be used by the provers; the
inductions here (`SubsetInduction`, `NaturalInduction`) take the *set* of the values for
which a statement holds instead, and follow from the well-founded orderings of the
library: a set that is not everything has a least exception.

*Simulation.* None of the properties is inductive: that the output is of its own event
needs that the run manager holds this event while tools save, which needs that the
previous event was terminated. `IInv` says phase by phase who owns the event (`Phases`),
what the store and the file hold, and that no failure has happened while the loop runs
(`NoFailureYet`). The last is what `ErrorMax = 1` gives, and what makes the skipped
`terminateEvent` harmless. It also says of a crash that the event at hand was the one
just simulated and that the tool did not fit (`Misfit`). From `IInv` follow the safety
properties, the action property `TerminatedBeforeReplaced`, and the step simulation of
`EventOutput`.

*Segmentation.*  `IInv` joins `GroupsThisEvent` and `TimeIsEarliest` to the types and to
`NoFailureYet`.  The lemmas `CollectHolds` and `CollectEarliest` say what adding one
electron does to a map that holds exactly the first n.  `PcbsNeverMerge` needs the exact
grouping and the assumption about identifiers, nothing about bins or bounds: they may
overlap and coincide in any way.  It is about pixels; for diagonal strips it is false.
For the charge of a layer, `LayersSeeAllCharge` is strengthened to every moment of the
loop: the cells of a layer have the charge of the first n electrons, to which an electron
adds exactly one cell of each layer.  The refinement maps the loop to stutters and
`Flush` to the one step of `CellGrouping`; with `IInv` both maps have the same cells, the
same electrons in each, and the same sums and times.

*Drift.*  `IInv` counts, for each hit, the electrons in the output and those still in
the loop (`Current`, `Shared`, `Complete`), and in all (`Counting`).  The limit needs an
argument about sums: each hit gets at most its share of `MaxHits` plus one, by rounding
or by the minimum of one, so after n hits the electrons beyond those extra ones are to
`MaxHits` at most as the deposits of the first n hits to all deposits (`Bounded`). The
partial sums are state of the model (`sums`), which turns the induction over the
collection into one over steps.

*Sampling.*  `IInv` says that the hits to sample are clones of the segmented ones and
that the series so far are those of their electrons.  Two facts about the operators carry
the rest: a seed is the sum of the energies in its bin, and exchanging the order of
summation turns the convolution of the seeds into the sum of the pulses
(`SumByClass`, `SumTimes`); a response that is zero up to its own bin makes every term of
an earlier sample zero.  The rounding to words happens once, after the sum, on both
sides.

*Start of the simulation.*  `InitInv` says of the tools passed so far (`Done`) what
`LimitsInForce` says of all: a volume is in the region of the last of them that names
it, and no name of a limits tool went unnoticed; it adds that every region is of one of
them, and that nothing is promised once a tool has failed.  That no name went unnoticed
follows by counting: a tool of which no name has two volumes makes as many regions as it
has names only if each name has one (`VolumesOfLaw`).  If the tool was in the list
before, the names were found then and regions are never taken away.

*Sensitive detectors.*  `EventInv` is a running balance: what is under way, deposited,
absorbed and escaped is the energy of the event (`EventHolds`), and each collection
follows the deposits cell by cell (`LawHolds`).  Both sums change in one place in a step,
by what the first track loses (`DepositsGrow`, `AbsorbedGrows`, `TracksAfter`); what
`ProcessHits` of each detector does to its cells is `ProcessedLaw`.  The aggregating
detector finds *the* hit of a cell because there is one at most, which is part of the
law. From the balance also follows the bound on the energy of a hit in `TypeOK`, which no
step shows by itself (`EnergyBounds`).

*Pairs.*  `IInv` says what the pointers have passed: all Y hits before `lower` are too
early for the X hit the loop is at, hence for all later ones (`Gone`); those before
`upper` are not too late (`Seen`); the pairs so far are the matching ones of the X hits
the loop has passed (`Paired`).  It rests on the order of the times only, so it holds
for every order of hits with equal times.

*Interpolation.*  The list of points is joined leg by leg, by a recursive function that
`Flattened` unfolds.  A leg has k whole steps (`StepsFit` is the root that decides it):
its j-th piece takes the hits between the points j-1 and j steps ahead, the last one up
to the next centre (`WholePiece`), and if there is no whole step the seam from the centre
before takes them all (`PieceOfSeam`); each takes them within the sphere around its
start.  Points further ahead are passed later (`PassedInOrder`), so the piece of a hit is
that of the last point it has passed, and a leg has one piece for a hit it reaches and
none for the others (`OnePiece`).  Joining a leg to the list adds one mark or none
(`MarksOfLeg`), and the number of marks of a hit follows the number of legs that reach
it, by induction over the legs (`PiecesAreReached`).  For a hit on the axis the sphere
is, after squaring twice, a product of two positive factors (`AxisIsNear`), so its leg
reaches it (`AxisHitReached`).  The invariant `TrackInv` adds that the walk visits each
cluster once and none at an infinite distance from the first (`Walked`); at its end all
are visited, so an event with an empty cluster and a full one does not get there.
`HitPairs` and `Interpolation` share no variable, so a step of `MCReco` is a step of one
and a stutter of the other, and the theorems hold of the run's specification.

*Analysis.*  What a directory holds is the result of several commands, of which any may
have been cut off.  `IInv` therefore speaks of the files by run: those of the running
stage are the files of the chunks it has come to, each made from its chunk
(`OutputsInv`), those of other runs are as they were left, and a stage that has ended
well has all of its files (`RerunReplaces`).  That chunks share no file and lose none is
arithmetic of `getchunkList`: each place of the list is in exactly one of n ranges, the
last of which is longer (`ChunksPartition`).  Two files of one run have no original file
in common unless their stage had it twice in its input (`OncePerRun`), which is why only
what different runs left can be counted twice.

The counts are compared with the original files behind.  If no original is behind two
files of a set, the events behind the set are the sum of those behind each
(`EventsBehindAll`, by `SumOfParts`), so sums of counts follow from counts
(`TotalsBehind`).  A file that counts its originals once has no more entries than events
behind it (`PastInv`); that bounds what is made from a file that lost its count
(`MetaAtMost`), and with all counts there `Update` records the truth (`CountIsTruth`).
`Update` needs the file it updates to be the one its own `RunRDF` wrote, which is what
`OutputsInv` keeps between the two.  In the final step a file without a count discards
what was added before it, so the number is at most one more than the sum over the files
after the last of these (`CountedPart`), in whatever order `glob` lists them: a list of a
set is a renaming of it (`ListOfSet`).

*Diagonal strips.*  With S the strip size, the two floors enclose Y - X and Y + X
between multiples of S; their difference encloses 2X and their sum 2Y, and the parity of
the two indices makes the halving of the bin exact (`XStrip`, `YStrip`).  Moving by S
shifts each floor by one (`FloorOfSum`), hence `StripsNumberedInOrder`.  Moving by half
a strip in both directions shifts one of the two indices by one and leaves the other,
which changes the layer (`LayersTakeTurns`).  A step of one unit shifts each index by
one at most; if the layer stays, both or none are shifted and the strip changes by at
most one (`NeighboursAreListed`).

*Only model-checked.*  `JobEnds` and `ReconstructionEnds`: liveness under fairness is out
of the prover's reach.  The four violated properties are refuted by their runs.

## 5. Plan

Done so far: the simulation of events, drift, segmentation, sampling behind smearing,
diagonal strips, start of the simulation with regions and sensitive detectors, pairs,
interpolation, and the analysis runner, with proofs of all their safety properties.
Left, most important first:

1. The job of `full_digi.py` over several events in one state machine.  The modules
   share the inputs of one another today: electrons refer to hits, segmented hits to
   electrons by index, and the algorithms but the segmentation keep nothing from event
   to event.

The caches of `GeoSvc` were planned and are left out: they are filled in `execute`,
after the geometry was completed in `initialize`, and it does not change, so a cached
answer cannot differ from a fresh one.

## 6. Not modelled

- `analysis/include/{fmt,spdlog}` and `EcoMug.h` are third-party and make up most of the
  lines of the repository; geometry XML and GDML, macros, scripts and build files are
  data.
- Physics lists configure Geant4.  The formulas of the fast simulation's smearing, the
  Kalman filter and the spline fits are numerical code with almost no control.
- The constructors of the detector run once, from XML; the identifiers they assign to
  PCBs are an assumption of `TpcReadout`.
- The columns of the analysis library keep no state but look-up tables that are filled
  once.  Of the analysis runner, `--files`, the histograms and tables of the final step
  and the commands that create and build a package are left out.
- Output tools and user actions: the fields copied from a hit or particle, and the
  energy cut.  Generators: the random kinematics.  The rejection loop of the vertex tool
  ends with probability one only, which TLA+ does not express.
- `CaloSimpleSmearAlg` has no module of its own (see Smearing).
