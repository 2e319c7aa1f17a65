------------------------------ MODULE Analysis ------------------------------
(***************************************************************************)
(* mgana: the stages of an analysis and its final step, for one process.   *)
(* Stage l reads the ROOT files of directory l - 1 (0: the original data)  *)
(* and writes those of directory l, as one file or as chunks; "mgana       *)
(* final" reads a directory and prints how many events were processed to   *)
(* make it and how many are in it.  A command may end at any point: an     *)
(* exception is printed and the program ends, what it wrote stays.         *)
(*                                                                         *)
(* A path is Single for process.root and n for process/chunk<n>.root.      *)
(***************************************************************************)
EXTENDS Integers, SequencesExt

CONSTANTS
  Originals,    \* the sets of files directory 0 may hold
  Levels,       \* number of stages of the analysis
  Scripts,      \* settings of a stage: [fraction : <<num, den>>, chunks, nevents]
  MaxJobs       \* bound: stages run in all

Single == -1    \* path of process.root
NoMeta == -1    \* a file without the parameter eventsProcessed

ASSUME LevelsAssumption == Levels \in Nat \ {0} /\ MaxJobs \in Nat
ASSUME ScriptAssumption ==
  \A s \in Scripts :
    /\ s.fraction \in Nat \X (Nat \ {0})
    /\ s.chunks \in Nat \ {0} /\ s.nevents \in Int

VARIABLES
  disk,     \* level -> [dir: is there a directory process/, files: path -> file]
  job,      \* the stage that runs: its chunks, the chunk it is at, its phase
  jobs,     \* stages started so far
  complete, \* level -> the stage that last wrote there, if it ended well
  final     \* what "mgana final" has read and printed, until the next command

vars == <<disk, job, jobs, complete, final>>

(* A file has a tree of entries and, once its stage is through with it,    *)
(* eventsProcessed.  For the properties it also carries its past: the      *)
(* number of its stage; src, the paths it was made from; origin, those of  *)
(* the original files behind it; and of all stages up to its own, whether  *)
(* they took no original file twice (once), were not cut to --nevents      *)
(* (full), and that besides all their inputs had a count (whole).          *)
Original(p, n) ==
  [tree |-> TRUE, entries |-> n, meta |-> NoMeta,
   run |-> 0, src |-> {}, origin |-> {p}, once |-> TRUE, full |-> TRUE, whole |-> TRUE]

\* Files are named like process.root or like a chunk; the latter in process/.
ASSUME OriginalsAssumption ==
  \A o \in Originals :
    /\ o.dir \in BOOLEAN /\ IsFiniteSet(DOMAIN o.files)
    /\ \A p \in DOMAIN o.files :
         /\ p \in Nat \cup {Single} /\ (p # Single => o.dir)
         /\ o.files[p].entries \in Nat
         /\ o.files[p] = Original(p, o.files[p].entries)

NoJob      == [level |-> 0]
NoComplete == [run |-> 0]
NoFinal    == [level |-> 0]

Init ==
  /\ \E o \in Originals :
       disk = [l \in 0 .. Levels |->
                 IF l = 0 THEN o ELSE [dir |-> FALSE, files |-> << >>]]
  /\ job = NoJob
  /\ jobs = 0
  /\ complete = [l \in 1 .. Levels |-> NoComplete]
  /\ final = NoFinal

\* The sum of a field over files.
Total(files, field, S) == SumFunctionOnSet([p \in S |-> files[p][field]], S)

\* The original files behind those of S.
Origins(files, S) == UNION {files[p].origin : p \in S}

\* No original file is behind two of S.
Apart(files, S) ==
  \A p, q \in S : p # q => files[p].origin \cap files[q].origin = {}

-----------------------------------------------------------------------------
\* getProcessInfoFiles refuses a file next to a directory, or neither.
HasFile(s) == Single \in DOMAIN s.files
FileList(s) == IF HasFile(s) THEN {Single} ELSE DOMAIN s.files

\* It opens each file for its number of entries: one without a tree raises.
Accepted(s) ==
  /\ HasFile(s) # s.dir
  /\ FileList(s) # {}
  /\ \A p \in FileList(s) : s.files[p].tree

Entries(s, list) ==
  SumFunctionOnSet([i \in DOMAIN list |-> s.files[list[i]].entries], DOMAIN list)

\* getsubfileList: files are taken until the fraction of the events is reached.
SubFileList(s, list, fraction) ==
  LET Enough(k) == Entries(s, SubSeq(list, 1, k)) * fraction[2]
                     >= Entries(s, list) * fraction[1]
  IN  IF fraction[1] < fraction[2]
      THEN SubSeq(list, 1, Min({k \in 0 .. Len(list) : Enough(k)}))
      ELSE list

\* Bug: the last chunk ends like the others.
ChunkListEven(list, chunks) ==
  LET n   == Min({chunks, Len(list)})
      per == Len(list) \div n
  IN  [ch \in 1 .. n |-> SubSeq(list, (ch - 1) * per + 1, ch * per)]

\* getchunkList: chunks of equal numbers of files, the last takes the rest.
ChunkList(list, chunks) ==
  LET n   == Min({chunks, Len(list)})
      per == Len(list) \div n
  IN  [ch \in 1 .. n |->
         SubSeq(list, (ch - 1) * per + 1, IF ch = n THEN Len(list) ELSE ch * per)]

(* runStages up to its loop over the chunks.  glob lists the files in any  *)
(* order.  The directory is made when chunks were asked for, also if there *)
(* are too few files for more than one.  (A fraction that leaves no file   *)
(* raises, in getchunkList or later, and no file is written.)              *)
RunStages(l, script) ==
  /\ job = NoJob /\ jobs < MaxJobs
  /\ Accepted(disk[l - 1])
  /\ \E list \in SetToSeqs(FileList(disk[l - 1])) :
       LET sub == SubFileList(disk[l - 1], list, script.fraction) IN
       /\ sub # << >>
       /\ job' = [level |-> l, nevents |-> script.nevents, selected |-> ToSet(sub),
                  chunks |-> ChunkList(sub, script.chunks), ch |-> 0, phase |-> "rdf"]
  /\ disk' = [disk EXCEPT ![l].dir = @ \/ script.chunks > 1]
  /\ jobs' = jobs + 1
  /\ complete' = [complete EXCEPT ![l] = NoComplete]
  /\ final' = NoFinal

-----------------------------------------------------------------------------
\* runLocal for the chunk the stage is at.
Input     == disk[job.level - 1].files
Chunk     == ToSet(job.chunks[job.ch + 1])
\* Bug: a single output is numbered like a chunk.
OutFileNumbered == job.ch
OutFile   == IF Len(job.chunks) > 1 THEN job.ch ELSE Single
Output    == disk[job.level].files[OutFile]
Available == Total(Input, "entries", Chunk)

NeventsMeta  == Total(Input, "meta", {p \in Chunk : Input[p].meta # NoMeta})
NeventsLocal == IF job.nevents > 0 THEN job.nevents ELSE Available

Once  == Apart(Input, job.selected) /\ \A p \in job.selected : Input[p].once
Full  == job.nevents <= 0 /\ \A p \in Chunk : Input[p].full
Whole ==
  /\ job.nevents <= 0
  /\ \A p \in Chunk : Input[p].whole /\ (Input[p].run = 0 \/ Input[p].meta # NoMeta)

\* The output as Snapshot leaves it, with n entries.
Written(n, tree) ==
  [tree |-> tree, entries |-> n, meta |-> NoMeta, run |-> jobs, src |-> Chunk,
   origin |-> Origins(Input, Chunk), once |-> Once, full |-> Full, whole |-> Whole]

Put(f) ==
  disk' = [disk EXCEPT ![job.level].files =
             [p \in DOMAIN @ \cup {OutFile} |-> IF p = OutFile THEN f ELSE @[p]]]

Limit == IF job.nevents > 0 THEN Min({job.nevents, Available}) ELSE Available

\* runRDF: the analysers keep some of the entries, Snapshot replaces the file.
RunRDF ==
  /\ job # NoJob /\ job.phase = "rdf"
  /\ \E n \in 0 .. Limit : Put(Written(n, TRUE))
  /\ job' = [job EXCEPT !.phase = "update"]
  /\ UNCHANGED <<jobs, complete, final>>

\* The command ends while it writes: no tree yet, or part of it.
RunRDFEnds ==
  /\ job # NoJob /\ job.phase = "rdf"
  /\ \/ Put(Written(0, FALSE))
     \/ \E n \in 0 .. Limit : Put(Written(n, TRUE))
     \/ UNCHANGED disk
  /\ job' = NoJob
  /\ UNCHANGED <<jobs, complete, final>>

AfterChunk ==
  IF job.ch + 1 < Len(job.chunks)
  THEN /\ job' = [job EXCEPT !.ch = @ + 1, !.phase = "rdf"]
       /\ UNCHANGED complete
  ELSE /\ job' = NoJob
       /\ complete' = [complete EXCEPT ![job.level] =
                         [run |-> jobs, selected |-> job.selected, nchunks |-> Len(job.chunks)]]

\* Bug: only the events of this stage are recorded.
UpdateLocal ==
  /\ job # NoJob /\ job.phase = "update"
  /\ Put([Output EXCEPT !.meta = NeventsLocal])
  /\ AfterChunk
  /\ UNCHANGED <<jobs, final>>

\* The rest of runLocal: eventsProcessed is added to the file.
Update ==
  /\ job # NoJob /\ job.phase = "update"
  /\ Put([Output EXCEPT !.meta = Max({NeventsLocal, NeventsMeta})])
  /\ AfterChunk
  /\ UNCHANGED <<jobs, final>>

UpdateEnds ==
  /\ job # NoJob /\ job.phase = "update"
  /\ job' = NoJob
  /\ UNCHANGED <<disk, jobs, complete, final>>

-----------------------------------------------------------------------------
\* runFinal: the file and the chunks, whichever are there.
FilesRead(s) == {p \in DOMAIN s.files : p = Single \/ s.dir}

\* Bug: the count is set from each file, not added to.
ProcessEventsOfLast(files, order) == files[order[Len(order)]].meta

(* A file without eventsProcessed sets the count to one, whatever was      *)
(* counted before it; glob lists the chunks in any order.                  *)
ProcessEvents(files, order) ==
  LET metas    == [i \in DOMAIN order |-> files[order[i]].meta]
      missing  == {i \in DOMAIN order : metas[i] = NoMeta}
      last     == IF missing = {} THEN 0 ELSE Max(missing)
  IN  (IF missing = {} THEN 0 ELSE 1)
        + SumFunctionOnSet(metas, {i \in DOMAIN order : i > last})

\* A file without a tree raises; without files both counts are zero.
RunFinal(l) ==
  /\ job = NoJob
  /\ LET files == disk[l].files
         read  == FilesRead(disk[l])
     IN  /\ read # {} /\ \A p \in read : files[p].tree
         /\ \E order \in SetToSeqs(read) :
              /\ Single \in read => order[1] = Single
              /\ final' = [level |-> l, files |-> Restrict(files, read),
                           processEvents |-> ProcessEvents(files, order),
                           eventsTTree |-> Total(files, "entries", read)]
  /\ UNCHANGED <<disk, job, jobs, complete>>

Next ==
  \/ \E l \in 1 .. Levels : (\E s \in Scripts : RunStages(l, s)) \/ RunFinal(l)
  \/ RunRDF \/ RunRDFEnds \/ Update \/ UpdateEnds

Spec == Init /\ [][Next]_vars

-----------------------------------------------------------------------------
Paths == Int

IsFileRecord(f) ==
  /\ f.tree \in BOOLEAN /\ {f.once, f.full, f.whole} \subseteq BOOLEAN
  /\ f.entries \in Nat /\ f.meta \in Nat \cup {NoMeta}
  /\ f.run \in 0 .. jobs
  /\ f.src \subseteq Paths /\ f.origin \subseteq Paths

TypeOK ==
  /\ jobs \in 0 .. MaxJobs
  /\ \A l \in 0 .. Levels :
       /\ disk[l].dir \in BOOLEAN
       /\ \A p \in DOMAIN disk[l].files :
            /\ p \in Nat \cup {Single}
            /\ p # Single => disk[l].dir
            /\ IsFileRecord(disk[l].files[p])
  /\ job # NoJob =>
       /\ job.level \in 1 .. Levels
       /\ job.phase \in {"rdf", "update"}
       /\ job.ch \in 0 .. Len(job.chunks) - 1
       /\ UNION {ToSet(job.chunks[c]) : c \in DOMAIN job.chunks} \subseteq job.selected
  /\ \A l \in 1 .. Levels : complete[l].run \in 0 .. jobs
  /\ final.level \in 0 .. Levels

\* The events of original files, each file once.
EventsBehind(S) == Total(disk[0].files, "entries", S)

(* However many stages an event goes through and however much they select, *)
(* eventsProcessed is the number of events in the original files behind a  *)
(* file, if no original came in twice, no stage was cut to --nevents and   *)
(* no input had lost its count.  A count that was lost, by a command that  *)
(* ended before it was added, makes the later ones too small and never too *)
(* large, and none is below the entries                                    *)
(* (ana_run.py:225-263, "pass-down the initial nevents").                  *)
PassedDownIsTruth ==
  \A l \in 1 .. Levels : \A p \in DOMAIN disk[l].files :
    LET f == disk[l].files[p] IN
    f.meta # NoMeta =>
      /\ f.meta >= f.entries
      /\ f.once /\ f.full  => f.meta <= EventsBehind(f.origin)
      /\ f.once /\ f.whole => f.meta = EventsBehind(f.origin)

PathsOf(comp) == IF comp.nchunks > 1 THEN 0 .. comp.nchunks - 1 ELSE {Single}

(* The files of a stage that ended well are all there, counted, and divide *)
(* the selected input without loss or overlap.  It does not empty its      *)
(* directory first, but any other file there is one an earlier run left,   *)
(* beyond the chunks of this one or as the other kind of output            *)
(* (ana_run.py:149-165 and 357-368).                                       *)
RerunReplaces ==
  \A l \in 1 .. Levels : complete[l] # NoComplete =>
    LET files == disk[l].files
        paths == PathsOf(complete[l])
    IN  /\ paths \subseteq DOMAIN files
        /\ \A p \in paths : /\ files[p].run = complete[l].run
                             /\ files[p].meta # NoMeta
                             /\ files[p].src # {}
        /\ \A p, q \in paths : p # q => files[p].src \cap files[q].src = {}
        /\ UNION {files[p].src : p \in paths} = complete[l].selected
        /\ \A p \in DOMAIN files \ paths : files[p].run < complete[l].run

(* The number of processed events that the final step prints.  Nothing     *)
(* makes sure that the files it reads belong together, so:                 *)
(*  - with all counts there it is not below the entries it prints beside;  *)
(*  - if no original file is behind two of the files read, nor came in     *)
(*    twice before, it counts every event behind them once; without a      *)
(*    count, or with one lost before, it is at most that, and one;         *)
(*  - an original file is behind two of them only if these are of          *)
(*    different runs, what an earlier one left beside the later, or if     *)
(*    their stage had it twice in its input                                *)
(* (ana_run.py:410-463).                                                   *)
FinalCountsOnce ==
  final # NoFinal =>
    LET files   == final.files
        read    == DOMAIN files
        counted == \A p \in read : files[p].meta # NoMeta
        behind  == EventsBehind(Origins(files, read))
        clean   == Apart(files, read) /\ \A p \in read : files[p].once
    IN  /\ counted => final.processEvents >= final.eventsTTree
        /\ clean /\ counted /\ (\A p \in read : files[p].whole) =>
             final.processEvents = behind
        /\ clean /\ (\A p \in read : files[p].full) =>
             final.processEvents <= behind + IF counted THEN 0 ELSE 1
        /\ \A p, q \in read :
             p # q /\ files[p].run = files[q].run /\ files[p].once =>
               files[p].origin \cap files[q].origin = {}
=============================================================================
