-------------------------- MODULE Analysis_proofs --------------------------
(***************************************************************************)
(* What the analysis promises of its files, for every number of files,     *)
(* stages, commands and chunks.                                            *)
(***************************************************************************)
EXTENDS Analysis, SumTheorems, SequenceTheorems

PathSet == Nat \cup {Single}

Files ==
  [tree : BOOLEAN, entries : Nat, meta : Nat \cup {NoMeta}, run : Nat,
   src : SUBSET PathSet, origin : SUBSET PathSet,
   once : BOOLEAN, full : BOOLEAN, whole : BOOLEAN]

Jobs ==
  [level : 1 .. Levels, nevents : Int, selected : SUBSET PathSet,
   chunks : Seq(Seq(PathSet)), ch : Nat, phase : {"rdf", "update"}]

Completes == [run : Nat \ {0}, selected : SUBSET PathSet, nchunks : Nat \ {0}]

\* A directory of stage l: only the original files have run 0.
IsStore(s, l) ==
  /\ s.dir \in BOOLEAN
  /\ IsFiniteSet(DOMAIN s.files)
  /\ \A p \in DOMAIN s.files :
       /\ p \in PathSet /\ (p # Single => s.dir)
       /\ s.files[p] \in Files /\ s.files[p].run <= jobs
       /\ s.files[p].run = 0 <=> l = 0
       /\ l = 0 => s.files[p].meta = NoMeta /\ s.files[p].origin = {p}

DiskInv ==
  /\ disk = [l \in 0 .. Levels |-> disk[l]]
  /\ \A l \in 0 .. Levels : IsStore(disk[l], l)
  /\ \A l \in 1 .. Levels : disk[l] = [dir |-> disk[l].dir, files |-> disk[l].files]

\* A file has no more entries than the original files behind it have events.
PastOk(f) ==
  /\ f.origin \subseteq DOMAIN disk[0].files
  /\ f.once => f.entries <= EventsBehind(f.origin)

PastInv == \A l \in 0 .. Levels : \A p \in DOMAIN disk[l].files : PastOk(disk[l].files[p])

\* No original file is behind two files of one run, if none came in twice.
OncePerRun(files) ==
  \A p, q \in DOMAIN files :
    p # q /\ files[p].run = files[q].run /\ files[p].once =>
      files[p].origin \cap files[q].origin = {}

\* What PassedDownIsTruth says of one file.
CountOk(f) ==
  f.meta # NoMeta =>
    /\ f.meta >= f.entries
    /\ f.once /\ f.full  => f.meta <= EventsBehind(f.origin)
    /\ f.once /\ f.whole => f.meta = EventsBehind(f.origin)

\* Chunks are not empty, have no file in common, and together are S.
IsPartition(chunks, S) ==
  /\ \A c \in DOMAIN chunks : ToSet(chunks[c]) # {}
  /\ \A c, d \in DOMAIN chunks : c # d => ToSet(chunks[c]) \cap ToSet(chunks[d]) = {}
  /\ UNION {ToSet(chunks[c]) : c \in DOMAIN chunks} = S

JobInv ==
  job # NoJob =>
    /\ job \in Jobs /\ job.ch < Len(job.chunks)
    /\ IsPartition(job.chunks, job.selected)
    /\ job.selected \subseteq DOMAIN Input
    /\ Len(job.chunks) > 1 => disk[job.level].dir
    /\ complete[job.level] = NoComplete
    /\ jobs # 0

PathOf(c)     == IF Len(job.chunks) > 1 THEN c ELSE Single
Outputs       == disk[job.level].files
HasWritten(c) == c < job.ch \/ (c = job.ch /\ job.phase = "update")

\* The files of this run are those of the chunks it has written.
OutputsInv ==
  job # NoJob =>
    /\ \A c \in 0 .. job.ch : HasWritten(c) =>
         /\ PathOf(c) \in DOMAIN Outputs
         /\ Outputs[PathOf(c)].run = jobs
         /\ Outputs[PathOf(c)].src = ToSet(job.chunks[c + 1])
         /\ Outputs[PathOf(c)].origin = Origins(Input, ToSet(job.chunks[c + 1]))
         /\ Outputs[PathOf(c)].once = Once
         /\ c < job.ch => Outputs[PathOf(c)].meta # NoMeta
    /\ \A p \in DOMAIN Outputs : Outputs[p].run = jobs =>
         \E c \in 0 .. job.ch : HasWritten(c) /\ p = PathOf(c)
    /\ job.phase = "update" =>
         /\ Output.entries <= Limit
         /\ Output.full = Full /\ Output.whole = Whole

CompleteInv ==
  /\ complete = [l \in 1 .. Levels |-> complete[l]]
  /\ \A l \in 1 .. Levels : complete[l] # NoComplete =>
       complete[l] \in Completes /\ complete[l].run <= jobs

IInv ==
  /\ jobs \in 0 .. MaxJobs
  /\ DiskInv
  /\ PastInv
  /\ \A l \in 0 .. Levels : OncePerRun(disk[l].files)
  /\ PassedDownIsTruth
  /\ JobInv
  /\ OutputsInv
  /\ CompleteInv
  /\ RerunReplaces
  /\ final.level \in 0 .. Levels
  /\ FinalCountsOnce

-----------------------------------------------------------------------------
(* Lists of files and their division into chunks.                          *)

Distinct(list) == \A i, j \in DOMAIN list : i # j => list[i] # list[j]

LEMMA ListOfSet ==
  ASSUME NEW S, IsFiniteSet(S), NEW list \in SetToSeqs(S)
  PROVE  list \in Seq(S) /\ Distinct(list) /\ ToSet(list) = S
<1> DEFINE D == 1 .. Cardinality(S)
<1>1. Cardinality(S) \in Nat /\ list \in [D -> S] /\ \A i, j \in D : i # j => list[i] # list[j]
  BY FS_CardinalityType DEF SetToSeqs
<1>2. list \in Injection(D, S)
  BY <1>1 DEF Injection, IsInjective
<1>3. Cardinality(D) = Cardinality(S)
  BY <1>1, FS_Interval
<1>4. list \in Surjection(D, S)
  BY <1>2, <1>3, FS_Injection
<1>5. ToSet(list) = S
  BY <1>1, <1>4 DEF ToSet, Surjection
<1>6. list \in Seq(S) /\ DOMAIN list = D
  BY <1>1
<1> QED  BY <1>1, <1>5, <1>6 DEF Distinct

\* A part of a list.
LEMMA PartOfList ==
  ASSUME NEW S, NEW list \in Seq(S), NEW m \in 1 .. Len(list) + 1, NEW n \in 0 .. Len(list)
  PROVE  /\ SubSeq(list, m, n) \in Seq(S)
         /\ Len(SubSeq(list, m, n)) = IF m <= n THEN n - m + 1 ELSE 0
         /\ \A i \in 1 .. n - m + 1 : SubSeq(list, m, n)[i] = list[m + i - 1]
         /\ ToSet(SubSeq(list, m, n)) = {list[k] : k \in m .. n}
<1>1. \A i \in m .. n : list[i] \in S
  OBVIOUS
<1> DEFINE part == SubSeq(list, m, n)
<1>2. /\ part \in Seq(S) /\ Len(part) = (IF m <= n THEN n - m + 1 ELSE 0)
      /\ \A i \in 1 .. n - m + 1 : part[i] = list[m + i - 1]
  BY <1>1, SubSeqProperties
<1> HIDE DEF part
<1>3. DOMAIN part = 1 .. n - m + 1
  BY <1>2
<1>4. ASSUME NEW k \in m .. n  PROVE list[k] \in ToSet(part)
  <2>1. k - m + 1 \in 1 .. n - m + 1 /\ m + (k - m + 1) - 1 = k
    OBVIOUS
  <2> QED  BY <2>1, <1>2, <1>3 DEF ToSet
<1>5. ASSUME NEW i \in DOMAIN part  PROVE part[i] \in {list[k] : k \in m .. n}
  <2>1. m + i - 1 \in m .. n
    BY <1>3
  <2> QED  BY <2>1, <1>2, <1>3
<1>6. ToSet(part) = {list[k] : k \in m .. n}
  BY <1>4, <1>5 DEF ToSet
<1> QED  BY <1>2, <1>6 DEF part

LEMMA MinOfTwo ==
  ASSUME NEW a \in Int, NEW b \in Int
  PROVE  /\ Min({a, b}) \in {a, b} /\ Min({a, b}) <= a /\ Min({a, b}) <= b
         /\ Max({a, b}) \in {a, b} /\ Max({a, b}) >= a /\ Max({a, b}) >= b
BY DEF Min, Max

LEMMA Quotient ==
  ASSUME NEW a \in Nat, NEW b \in Nat \ {0}
  PROVE  /\ a \div b \in Nat
         /\ b * (a \div b) <= a
         /\ a < b * (a \div b) + b
  BY Z3

LEMMA Multiples ==
  ASSUME NEW a \in Nat, NEW b \in Nat, NEW p \in Nat
  PROVE  /\ p * a \in Nat /\ p * (a + 1) = p * a + p
         /\ a <= b => p * a <= p * b
         /\ (p > 0 /\ p * a < p * b + p) => a <= b
  BY Z3

\* Chunk ch of n, of a list of length len.
First(per, ch)       == (ch - 1) * per + 1
Final(len, n, per, ch) == IF ch = n THEN len ELSE ch * per

LEMMA ChunkBounds ==
  ASSUME NEW len \in Nat \ {0}, NEW n \in 1 .. len, NEW per, per = len \div n,
         NEW ch \in 1 .. n
  PROVE  /\ First(per, ch) \in 1 .. len /\ Final(len, n, per, ch) \in 1 .. len
         /\ First(per, ch) <= Final(len, n, per, ch)
         /\ \A c \in 1 .. n : c < ch => Final(len, n, per, c) < First(per, ch)
<1>1. per \in Nat /\ n * per <= len /\ len < n * per + n
  BY Quotient
<1>2. per > 0
  <2> SUFFICES ASSUME per = 0  PROVE FALSE
    BY <1>1
  <2>1. n * per = 0
    BY Z3
  <2> QED  BY <1>1, <2>1
<1>3. /\ per * (ch - 1) \in Nat /\ per * ch = per * (ch - 1) + per
      /\ per * ch <= per * n /\ ch - 1 \in Nat
  BY <1>1, Multiples, (ch - 1) + 1 = ch, ch - 1 \in Nat, ch \in Nat, n \in Nat, ch <= n
<1>4. /\ per * ch = ch * per /\ per * (ch - 1) = (ch - 1) * per /\ per * n = n * per
      /\ per * ch \in Nat
  BY <1>1, <1>3, Z3
<1> DEFINE low == (ch - 1) * per
           high == ch * per
<1>5. low \in Nat /\ high \in Nat /\ high = low + per /\ high <= len
  BY <1>1, <1>3, <1>4
<1>6. ASSUME NEW c \in 1 .. n, c < ch
      PROVE  Final(len, n, per, c) < First(per, ch)
  <2>0. c \in Nat /\ c <= ch - 1 /\ ch - 1 \in Nat
    BY <1>6
  <2>1. per * c <= per * (ch - 1)
    BY <1>1, <2>0, Multiples
  <2>2. per * c = c * per /\ c * per \in Nat
    BY <1>1, Z3
  <2>3. c # n
    BY <1>6
  <2>4. c * per <= low
    BY <2>1, <2>2, <1>4
  <2> HIDE DEF low
  <2>5. c * per < low + 1
    BY <2>2, <2>4, <1>5
  <2> QED  BY <2>3, <2>5 DEF First, Final, low
<1> HIDE DEF low, high
<1>7. low + 1 \in 1 .. len /\ low + 1 <= high /\ high \in 1 .. len
  BY <1>5, <1>2, <1>1
<1>8. First(per, ch) = low + 1 /\ Final(len, n, per, ch) = IF ch = n THEN len ELSE high
  BY DEF First, Final, low, high
<1> QED  BY <1>6, <1>7, <1>8

\* No file is left out.
LEMMA ChunkOfIndex ==
  ASSUME NEW len \in Nat \ {0}, NEW n \in 1 .. len, NEW per, per = len \div n,
         NEW k \in 1 .. len
  PROVE  \E ch \in 1 .. n : k \in First(per, ch) .. Final(len, n, per, ch)
<1>1. per \in Nat /\ n * per <= len /\ len < n * per + n
  BY Quotient
<1>2. per > 0
  <2> SUFFICES ASSUME per = 0  PROVE FALSE
    BY <1>1
  <2>1. n * per = 0
    BY Z3
  <2> QED  BY <1>1, <2>1
<1> DEFINE q == (k - 1) \div per
<1>3. q \in Nat /\ per * q <= k - 1 /\ k - 1 < per * q + per
  BY <1>1, <1>2, Quotient, k - 1 \in Nat
<1> HIDE DEF q
<1>4. CASE q + 1 < n
  <2>1. (q + 1) * per = per * q + per /\ ((q + 1) - 1) * per = per * q /\ per * q \in Nat
    BY <1>1, <1>3, Z3
  <2>2. k \in First(per, q + 1) .. Final(len, n, per, q + 1)
    BY <2>1, <1>1, <1>3, <1>4 DEF First, Final
  <2> QED  BY <2>2, <1>3, <1>4
<1>5. CASE ~(q + 1 < n)
  <2>1. per * (n - 1) <= per * q
    BY <1>1, <1>3, <1>5, Multiples, n - 1 \in Nat, n - 1 <= q
  <2>2. (n - 1) * per = per * (n - 1) /\ (n - 1) * per \in Nat /\ per * q \in Nat
    BY <1>1, <1>3, Z3
  <2>3. (n - 1) * per + 1 <= k
    BY <2>1, <2>2, <1>3
  <2>4. k \in First(per, n) .. Final(len, n, per, n)
    BY <2>2, <2>3 DEF First, Final
  <2> QED  BY <2>4
<1> QED  BY <1>4, <1>5

(* getchunkList: the chunks are a partition of the list, also when the     *)
(* number of files is not a multiple of the number of chunks.              *)
LEMMA ChunksPartition ==
  ASSUME NEW S, NEW list \in Seq(S), Distinct(list), list # << >>, NEW chunks \in Nat \ {0}
  PROVE  /\ ChunkList(list, chunks) \in Seq(Seq(S))
         /\ Len(ChunkList(list, chunks)) \in 1 .. chunks
         /\ IsPartition(ChunkList(list, chunks), ToSet(list))
<1> DEFINE len == Len(list)
           n   == Min({chunks, len})
           per == len \div n
           cs  == ChunkList(list, chunks)
<1>1. len \in Nat \ {0} /\ DOMAIN list = 1 .. len
  OBVIOUS
<1>2. n \in 1 .. len /\ n <= chunks
  <2>1. Min({chunks, len}) \in {chunks, len} /\ n <= chunks /\ n <= len
    BY <1>1, MinOfTwo, len \in Int, chunks \in Int
  <2> QED  BY <2>1, <1>1
<1>3. cs = [ch \in 1 .. n |-> SubSeq(list, First(per, ch), Final(len, n, per, ch))]
  BY DEF ChunkList, First, Final
<1> HIDE DEF cs, per, n, len
<1>4. ASSUME NEW ch \in 1 .. n
      PROVE  /\ First(per, ch) \in 1 .. len /\ Final(len, n, per, ch) \in 1 .. len
             /\ First(per, ch) <= Final(len, n, per, ch)
             /\ \A c \in 1 .. n : c < ch => Final(len, n, per, c) < First(per, ch)
  BY <1>1, <1>2, ChunkBounds DEF per
<1>5. ASSUME NEW ch \in 1 .. n
      PROVE  /\ cs[ch] \in Seq(S)
             /\ ToSet(cs[ch]) = {list[k] : k \in First(per, ch) .. Final(len, n, per, ch)}
  <2> DEFINE a == First(per, ch)  b == Final(len, n, per, ch)
  <2>1. a \in 1 .. len /\ b \in 1 .. len /\ cs[ch] = SubSeq(list, a, b)
    BY <1>3, <1>4
  <2> HIDE DEF a, b
  <2>2. a \in 1 .. Len(list) + 1 /\ b \in 0 .. Len(list)
    BY <2>1, <1>1 DEF len
  <2>3. /\ SubSeq(list, a, b) \in Seq(S)
        /\ ToSet(SubSeq(list, a, b)) = {list[k] : k \in a .. b}
    BY <2>2, PartOfList
  <2>4. cs[ch] \in Seq(S) /\ ToSet(cs[ch]) = {list[k] : k \in a .. b}
    BY <2>1, <2>3
  <2> QED  BY <2>4 DEF a, b
<1>6. cs \in Seq(Seq(S)) /\ Len(cs) = n /\ DOMAIN cs = 1 .. n
  BY <1>2, <1>3, <1>5
<1>7. ASSUME NEW c \in 1 .. n  PROVE ToSet(cs[c]) # {}
  <2> DEFINE a == First(per, c)  b == Final(len, n, per, c)
  <2>1. a \in 1 .. len /\ b \in 1 .. len /\ a <= b /\ ToSet(cs[c]) = {list[k] : k \in a .. b}
    BY <1>4, <1>5
  <2> HIDE DEF a, b
  <2>2. a \in a .. b
    BY <2>1, <1>1
  <2> QED  BY <2>1, <2>2
<1>8. ASSUME NEW c \in 1 .. n, NEW d \in 1 .. n, c < d
      PROVE  ToSet(cs[c]) \cap ToSet(cs[d]) = {}
  <2> SUFFICES ASSUME NEW i \in First(per, c) .. Final(len, n, per, c),
                      NEW j \in First(per, d) .. Final(len, n, per, d)
               PROVE  list[i] # list[j]
    <3>1. /\ ToSet(cs[c]) = {list[k] : k \in First(per, c) .. Final(len, n, per, c)}
          /\ ToSet(cs[d]) = {list[k] : k \in First(per, d) .. Final(len, n, per, d)}
      BY <1>5
    <3> QED  BY <3>1
  <2> DEFINE a == First(per, c)  b == Final(len, n, per, c)
             u == First(per, d)  v == Final(len, n, per, d)
  <2>0. /\ a \in 1 .. len /\ b \in 1 .. len /\ u \in 1 .. len /\ v \in 1 .. len
        /\ b < u /\ i \in a .. b /\ j \in u .. v
    BY <1>4, <1>8
  <2> HIDE DEF a, b, u, v
  <2>1. i \in 1 .. len /\ j \in 1 .. len /\ i < j
    BY <2>0, <1>1
  <2> QED  BY <2>1, <1>1 DEF Distinct
<1>9. UNION {ToSet(cs[c]) : c \in 1 .. n} = ToSet(list)
  <2>1. ASSUME NEW c \in 1 .. n  PROVE ToSet(cs[c]) \subseteq ToSet(list)
    <3> DEFINE a == First(per, c)  b == Final(len, n, per, c)
    <3>1. a \in 1 .. len /\ b \in 1 .. len /\ ToSet(cs[c]) = {list[k] : k \in a .. b}
      BY <1>4, <1>5
    <3> HIDE DEF a, b
    <3>2. a .. b \subseteq DOMAIN list
      BY <3>1, <1>1
    <3> QED  BY <3>1, <3>2 DEF ToSet
  <2>2. ASSUME NEW k \in 1 .. len  PROVE \E c \in 1 .. n : list[k] \in ToSet(cs[c])
    <3>1. PICK c \in 1 .. n : k \in First(per, c) .. Final(len, n, per, c)
      BY <1>1, <1>2, ChunkOfIndex DEF per
    <3> QED  BY <3>1, <1>5
  <2>3. \A x \in ToSet(list) : \E c \in 1 .. n : x \in ToSet(cs[c])
    BY <2>2, <1>1 DEF ToSet
  <2> QED  BY <2>1, <2>3
<1>10. \A c, d \in 1 .. n : c # d => ToSet(cs[c]) \cap ToSet(cs[d]) = {}
  <2> SUFFICES ASSUME NEW c \in 1 .. n, NEW d \in 1 .. n, c # d
               PROVE  ToSet(cs[c]) \cap ToSet(cs[d]) = {}
    OBVIOUS
  <2>1. c < d \/ d < c
    BY <1>2
  <2> QED  BY <2>1, <1>8
<1>11. IsPartition(cs, ToSet(list))
  BY <1>6, <1>7, <1>9, <1>10 DEF IsPartition
<1> QED  BY <1>2, <1>6, <1>11 DEF cs

LEMMA LeastExists ==
  ASSUME NEW S \in SUBSET Nat, S # {}
  PROVE  Min(S) \in S /\ \A x \in S : Min(S) <= x
<1> SUFFICES ASSUME ~ \E x \in S : \A y \in S : x <= y  PROVE FALSE
  BY DEF Min
<1> DEFINE Good == {n \in Nat : \A k \in 0 .. n : k \notin S}
<1>1. 0 \in Good
  OBVIOUS
<1>2. ASSUME NEW n \in Nat, n \in Good  PROVE n + 1 \in Good
  <2>1. \A y \in S : n + 1 <= y
    BY <1>2
  <2>2. n + 1 \notin S
    BY <2>1
  <2>3. \A k \in 0 .. n + 1 : k \in 0 .. n \/ k = n + 1
    OBVIOUS
  <2> QED  BY <2>2, <2>3, <1>2
<1> HIDE DEF Good
<1>3. \A n \in Nat : n \in Good
  BY <1>1, <1>2, NaturalInduction
<1>4. \A n \in Nat : n \notin S
  BY <1>3 DEF Good
<1> QED  BY <1>4

LEMMA GreatestExists ==
  ASSUME NEW n \in Nat, NEW S \in SUBSET (1 .. n), S # {}
  PROVE  Max(S) \in S /\ \A x \in S : x <= Max(S)
<1> DEFINE R == {n - x : x \in S}
<1>1. R \in SUBSET Nat /\ R # {}
  <2>1. \A x \in S : n - x \in Nat
    OBVIOUS
  <2> QED  BY <2>1
<1> HIDE DEF R
<1>2. Min(R) \in R /\ \A y \in R : Min(R) <= y
  BY <1>1, LeastExists
<1>3. PICK x \in S : Min(R) = n - x
  BY <1>2 DEF R
<1>4. ASSUME NEW y \in S  PROVE x >= y
  <2>1. n - x <= n - y
    BY <1>2, <1>3 DEF R
  <2> QED  BY <2>1
<1> QED  BY <1>4 DEF Max

LEMMA NoMetaIsNot == NoMeta \in Int /\ NoMeta \notin Nat /\ Single \in Int /\ Single \notin Nat
BY DEF NoMeta, Single

-----------------------------------------------------------------------------
(* Totals.                                                                 *)

LEMMA TotalIsNat ==
  ASSUME NEW files, NEW field, NEW S, IsFiniteSet(S), \A p \in S : files[p][field] \in Nat
  PROVE  Total(files, field, S) \in Nat
<1> DEFINE f == [p \in S |-> files[p][field]]
<1>1. \A p \in S : f[p] \in Nat
  OBVIOUS
<1> HIDE DEF f
<1>2. Sum(f, S) \in Nat
  BY <1>1, SumIsNat
<1> QED  BY <1>2 DEF Total, Sum, f

LEMMA TotalAtMost ==
  ASSUME NEW files, NEW few, NEW many, NEW S, IsFiniteSet(S),
         \A p \in S : /\ files[p][few] \in Nat /\ files[p][many] \in Nat
                      /\ files[p][few] <= files[p][many]
  PROVE  Total(files, few, S) <= Total(files, many, S)
<1> DEFINE f == [p \in S |-> files[p][few]]
           g == [p \in S |-> files[p][many]]
<1>1. \A p \in S : f[p] \in Nat /\ g[p] \in Nat /\ f[p] <= g[p]
  OBVIOUS
<1> HIDE DEF f, g
<1>2. Sum(f, S) <= Sum(g, S)
  BY <1>1, SumAtMost DEF IntegersOn
<1> QED  BY <1>2 DEF Total, Sum, f, g

LEMMA TotalEqual ==
  ASSUME NEW files, NEW others, NEW field, NEW other, NEW S, IsFiniteSet(S),
         \A p \in S : files[p][field] = others[p][other]
  PROVE  Total(files, field, S) = Total(others, other, S)
<1> DEFINE f == [p \in S |-> files[p][field]]
           g == [p \in S |-> others[p][other]]
<1>1. f = g
  OBVIOUS
<1> QED  BY <1>1 DEF Total

LEMMA TotalOfNothing ==
  ASSUME NEW files, NEW field
  PROVE  Total(files, field, {}) = 0
BY SumEmpty DEF Total, Sum

\* The total of a smaller set.
LEMMA TotalOfSubset ==
  ASSUME NEW files, NEW field, NEW S, IsFiniteSet(S), \A p \in S : files[p][field] \in Nat,
         NEW T \in SUBSET S
  PROVE  Total(files, field, T) <= Total(files, field, S)
<1> DEFINE f == [p \in S |-> files[p][field]]
           g == [p \in T |-> files[p][field]]
<1>1. (\A p \in S : f[p] \in Nat) /\ (\A p \in T : f[p] = g[p]) /\ IsFiniteSet(T)
  BY FS_Subset
<1> HIDE DEF f, g
<1>2. Sum(f, T) <= Sum(f, S) /\ Sum(f, T) = Sum(g, T)
  BY <1>1, SumOfSubset, SumEqual
<1> QED  BY <1>2 DEF Total, Sum, f, g

WithMeta(files, S) == {p \in S : files[p].meta # NoMeta}

LEMMA FieldsOfFile ==
  ASSUME NEW f \in Files
  PROVE  /\ f["entries"] = f.entries /\ f["meta"] = f.meta
         /\ f.entries \in Nat /\ f.meta \in Nat \cup {NoMeta}
         /\ f.run \in Nat /\ f.tree \in BOOLEAN
         /\ f.once \in BOOLEAN /\ f.full \in BOOLEAN /\ f.whole \in BOOLEAN
         /\ f.src \in SUBSET PathSet /\ f.origin \in SUBSET PathSet
BY DEF Files

LEMMA TotalsOfFiles ==
  ASSUME NEW files, NEW S, IsFiniteSet(S), \A p \in S : files[p] \in Files
  PROVE  /\ Total(files, "entries", S) \in Nat
         /\ Total(files, "meta", WithMeta(files, S)) \in Nat
<1>1. \A p \in S : files[p]["entries"] \in Nat
  BY FieldsOfFile
<1>2. \A p \in WithMeta(files, S) : files[p]["meta"] \in Nat
  BY FieldsOfFile DEF WithMeta
<1>3. IsFiniteSet(WithMeta(files, S))
  BY FS_Subset DEF WithMeta
<1> QED  BY <1>1, <1>2, <1>3, TotalIsNat

-----------------------------------------------------------------------------
(* The events behind files.                                                *)

LEMMA EventsAreNat ==
  ASSUME IsStore(disk[0], 0), NEW S \in SUBSET DOMAIN disk[0].files
  PROVE  /\ IsFiniteSet(S) /\ EventsBehind(S) \in Nat
         /\ \A p \in S : disk[0].files[p]["entries"] \in Nat
<1>1. IsFiniteSet(S)
  BY FS_Subset DEF IsStore
<1>2. \A p \in S : disk[0].files[p]["entries"] \in Nat
  BY FieldsOfFile DEF IsStore
<1> QED  BY <1>1, <1>2, TotalIsNat DEF EventsBehind

LEMMA EventsAtMost ==
  ASSUME IsStore(disk[0], 0), NEW S \in SUBSET DOMAIN disk[0].files, NEW T \in SUBSET S
  PROVE  EventsBehind(T) <= EventsBehind(S)
BY EventsAreNat, TotalOfSubset DEF EventsBehind

LEMMA EventsOfOne ==
  ASSUME IsStore(disk[0], 0), NEW p \in DOMAIN disk[0].files
  PROVE  EventsBehind({p}) = disk[0].files[p].entries
<1> DEFINE f == [q \in {p} |-> disk[0].files[q]["entries"]]
<1>1. disk[0].files[p] \in Files
  BY DEF IsStore
<1>2. f[p] = disk[0].files[p].entries /\ f[p] \in Int
  BY <1>1, FieldsOfFile
<1> HIDE DEF f
<1>3. Sum(f, {p}) = f[p]
  BY <1>2, SumSingle
<1> QED  BY <1>2, <1>3 DEF EventsBehind, Total, Sum, f

(* If no original file is behind two files of S, the events behind them    *)
(* add up to those behind S.                                               *)
LEMMA EventsBehindAll ==
  ASSUME IsStore(disk[0], 0), NEW files, NEW S, IsFiniteSet(S), Apart(files, S),
         \A p \in S : files[p].origin \in SUBSET DOMAIN disk[0].files
  PROVE  /\ Origins(files, S) \in SUBSET DOMAIN disk[0].files
         /\ Sum([p \in S |-> EventsBehind(files[p].origin)], S) = EventsBehind(Origins(files, S))
<1> DEFINE D    == DOMAIN disk[0].files
           f    == [q \in D |-> disk[0].files[q]["entries"]]
           part == [p \in S |-> files[p].origin]
           g    == [p \in S |-> EventsBehind(files[p].origin)]
           all  == UNION {part[p] : p \in S}
<1>1. all = Origins(files, S) /\ all \in SUBSET D
  BY DEF Origins
<1>2. \A T \in SUBSET D : /\ IsFiniteSet(T) /\ EventsBehind(T) = Sum(f, T)
                          /\ IntegersOn(f, T)
  <2> SUFFICES ASSUME NEW T \in SUBSET D
               PROVE  IsFiniteSet(T) /\ EventsBehind(T) = Sum(f, T) /\ IntegersOn(f, T)
    OBVIOUS
  <2> DEFINE h == [q \in T |-> disk[0].files[q]["entries"]]
  <2>1. IsFiniteSet(T) /\ \A q \in T : f[q] \in Nat /\ f[q] = h[q]
    BY EventsAreNat
  <2>2. EventsBehind(T) = Sum(h, T)
    BY DEF EventsBehind, Total, Sum
  <2> HIDE DEF f, h
  <2>3. Sum(f, T) = Sum(h, T)
    BY <2>1, SumEqual
  <2>4. IntegersOn(f, T)
    BY <2>1 DEF IntegersOn
  <2> QED  BY <2>1, <2>2, <2>3, <2>4
<1>3. SumsOfParts(f, g, part, S)
  <2>1. ASSUME NEW p \in S
        PROVE  IsFiniteSet(part[p]) /\ IntegersOn(f, part[p]) /\ g[p] = Sum(f, part[p])
    <3>1. part[p] \in SUBSET D /\ g[p] = EventsBehind(part[p])
      OBVIOUS
    <3> HIDE DEF D, f, g, part
    <3> QED  BY <1>2, <3>1
  <2>2. ASSUME NEW p \in S, NEW q \in S, p # q  PROVE part[p] \cap part[q] = {}
    BY <2>2 DEF Apart
  <2> HIDE DEF D, f, g, part
  <2> QED  BY <2>1, <2>2 DEF SumsOfParts
<1> HIDE DEF D, f, part, g
<1>4. Sum(g, S) = Sum(f, all)
  BY <1>3, SumOfParts
<1>5. Sum(g, S) = EventsBehind(all)
  BY <1>1, <1>2, <1>4
<1> QED  BY <1>1, <1>5 DEF D, g

(* Numbers that are, file by file, those of the events behind or less, add *)
(* up to the number of the events behind all or to less.                   *)
LEMMA TotalsBehind ==
  ASSUME IsStore(disk[0], 0), NEW files, NEW field, NEW S, IsFiniteSet(S), Apart(files, S),
         \A p \in S : /\ files[p].origin \in SUBSET DOMAIN disk[0].files
                      /\ files[p][field] \in Nat
                      /\ files[p][field] <= EventsBehind(files[p].origin)
  PROVE  /\ Total(files, field, S) <= EventsBehind(Origins(files, S))
         /\ (\A p \in S : files[p][field] = EventsBehind(files[p].origin))
              => Total(files, field, S) = EventsBehind(Origins(files, S))
<1> DEFINE f == [p \in S |-> files[p][field]]
           g == [p \in S |-> EventsBehind(files[p].origin)]
<1>1. \A p \in S : f[p] \in Int /\ g[p] \in Int /\ f[p] <= g[p]
  BY EventsAreNat
<1>2. Sum(g, S) = EventsBehind(Origins(files, S))
  BY EventsBehindAll
<1>3. Total(files, field, S) = Sum(f, S)
  BY DEF Total, Sum
<1>4. (\A p \in S : files[p][field] = EventsBehind(files[p].origin)) => \A p \in S : f[p] = g[p]
  OBVIOUS
<1> HIDE DEF f, g
<1>5. Sum(f, S) <= Sum(g, S)
  BY <1>1, SumAtMost DEF IntegersOn
<1>6. (\A p \in S : f[p] = g[p]) => Sum(f, S) = Sum(g, S)
  BY SumEqual
<1> QED  BY <1>2, <1>3, <1>4, <1>5, <1>6

LEMMA ApartPart ==
  ASSUME NEW files, NEW S, Apart(files, S), NEW T \in SUBSET S
  PROVE  Apart(files, T) /\ Origins(files, T) \subseteq Origins(files, S)
BY DEF Apart, Origins

-----------------------------------------------------------------------------
(* The files a stage takes.                                                *)

LEMMA PrefixOfList ==
  ASSUME NEW S, NEW list \in Seq(S), Distinct(list), NEW k \in 0 .. Len(list)
  PROVE  /\ SubSeq(list, 1, k) \in Seq(S) /\ Distinct(SubSeq(list, 1, k))
         /\ ToSet(SubSeq(list, 1, k)) \subseteq ToSet(list)
<1>1. 1 \in 1 .. Len(list) + 1 /\ DOMAIN list = 1 .. Len(list)
  OBVIOUS
<1> DEFINE part == SubSeq(list, 1, k)
<1>2. /\ part \in Seq(S) /\ Len(part) = (IF 1 <= k THEN k - 1 + 1 ELSE 0)
      /\ \A i \in 1 .. k - 1 + 1 : part[i] = list[1 + i - 1]
      /\ ToSet(part) = {list[i] : i \in 1 .. k}
  BY <1>1, PartOfList
<1> HIDE DEF part
<1>3. DOMAIN part = 1 .. k /\ \A i \in 1 .. k : part[i] = list[i]
  BY <1>2
<1>4. 1 .. k \subseteq DOMAIN list
  BY <1>1
<1>5. Distinct(part)
  BY <1>3, <1>4 DEF Distinct
<1>6. ToSet(part) \subseteq ToSet(list)
  BY <1>2, <1>4 DEF ToSet
<1> QED  BY <1>2, <1>5, <1>6 DEF part

LEMMA ScaledDown ==
  ASSUME NEW e \in Nat, NEW a \in Nat, NEW b \in Nat, a < b
  PROVE  e * b >= e * a
BY Z3

(* getsubfileList gives files of the list, each once; the least number of  *)
(* files that have the fraction of the events exists, since all have it.   *)
LEMMA SubFilesOfList ==
  ASSUME NEW s, NEW list \in Seq(PathSet), Distinct(list),
         \A p \in ToSet(list) : s.files[p] \in Files,
         NEW fraction \in Nat \X (Nat \ {0})
  PROVE  LET sub == SubFileList(s, list, fraction)
         IN  sub \in Seq(PathSet) /\ Distinct(sub) /\ ToSet(sub) \subseteq ToSet(list)
<1>1. CASE ~(fraction[1] < fraction[2])
  BY <1>1 DEF SubFileList
<1>2. CASE fraction[1] < fraction[2]
  <2> DEFINE Enough(k) == Entries(s, SubSeq(list, 1, k)) * fraction[2]
                            >= Entries(s, list) * fraction[1]
             ks == {k \in 0 .. Len(list) : Enough(k)}
  <2>1. Entries(s, list) \in Nat
    <3> DEFINE f == [i \in DOMAIN list |-> s.files[list[i]].entries]
    <3>1. IsFiniteSet(DOMAIN list)
      BY FS_Interval, DOMAIN list = 1 .. Len(list), Len(list) \in Int, 1 \in Int
    <3>2. \A i \in DOMAIN list : f[i] \in Nat
      BY FieldsOfFile DEF ToSet
    <3> HIDE DEF f
    <3>3. Sum(f, DOMAIN list) \in Nat
      BY <3>1, <3>2, SumIsNat
    <3> QED  BY <3>3 DEF Entries, Sum, f
  <2>2. Enough(Len(list))
    <3>1. SubSeq(list, 1, Len(list)) = list
      BY SubSeqFull
    <3> QED  BY <3>1, <2>1, <1>2, ScaledDown
  <2> HIDE DEF Enough
  <2>3. ks \in SUBSET Nat /\ ks # {}
    BY <2>2, Len(list) \in 0 .. Len(list)
  <2>4. Min(ks) \in 0 .. Len(list)
    BY <2>3, LeastExists
  <2>5. SubFileList(s, list, fraction) = SubSeq(list, 1, Min(ks))
    BY <1>2 DEF SubFileList, Enough
  <2> HIDE DEF ks
  <2> QED  BY <2>4, <2>5, PrefixOfList
<1> QED  BY <1>1, <1>2

-----------------------------------------------------------------------------
(* The stage that runs.                                                    *)

LEMMA JobFacts ==
  ASSUME DiskInv, JobInv, job # NoJob
  PROVE  /\ job \in Jobs /\ job.level \in 1 .. Levels
         /\ job.level - 1 \in 0 .. Levels /\ job.level - 1 # job.level
         /\ job.ch \in Nat /\ job.nevents \in Int
         /\ job.chunks \in Seq(Seq(PathSet)) /\ job.ch + 1 \in DOMAIN job.chunks
         /\ job.phase \in {"rdf", "update"} /\ job.selected \in SUBSET PathSet
BY LevelsAssumption DEF JobInv, Jobs

LEMMA ChunkFacts ==
  ASSUME DiskInv, JobInv, job # NoJob
  PROVE  /\ Chunk \in SUBSET PathSet /\ Chunk # {} /\ Chunk \subseteq DOMAIN Input
         /\ Chunk \in SUBSET job.selected
         /\ IsFiniteSet(Chunk)
         /\ \A p \in Chunk : Input[p] \in Files /\ (Input[p].run = 0 <=> job.level = 1)
         /\ OutFile \in PathSet /\ (OutFile # Single => disk[job.level].dir)
<1>1. /\ job \in Jobs /\ job.level \in 1 .. Levels
      /\ job.level - 1 \in 0 .. Levels
      /\ job.ch \in Nat
      /\ job.chunks \in Seq(Seq(PathSet)) /\ job.ch + 1 \in DOMAIN job.chunks
      /\ job.selected \in SUBSET PathSet
  BY JobFacts
<1>2. Chunk \subseteq job.selected /\ Chunk # {}
  <2> DEFINE Part(c) == ToSet(job.chunks[c])
  <2>1. /\ \A c \in DOMAIN job.chunks : Part(c) # {}
        /\ UNION {Part(c) : c \in DOMAIN job.chunks} = job.selected
    BY DEF JobInv, IsPartition
  <2>2. Chunk = Part(job.ch + 1)
    BY DEF Chunk
  <2> HIDE DEF Part
  <2> QED  BY <2>1, <2>2, <1>1
<1>3. job.selected \subseteq DOMAIN Input
  BY DEF JobInv
<1>4. IsStore(disk[job.level - 1], job.level - 1)
  BY <1>1 DEF DiskInv
<1>5. IsFiniteSet(Chunk)
  BY <1>2, <1>3, <1>4, FS_Subset DEF IsStore, Input
<1>6. \A p \in Chunk : Input[p] \in Files /\ (Input[p].run = 0 <=> job.level - 1 = 0)
  BY <1>2, <1>3, <1>4 DEF IsStore, Input
<1>7. job.level - 1 = 0 <=> job.level = 1
  BY <1>1
<1>8. OutFile \in PathSet /\ (OutFile # Single => disk[job.level].dir)
  BY <1>1 DEF OutFile, PathSet, JobInv
<1> QED  BY <1>1, <1>2, <1>3, <1>5, <1>6, <1>7, <1>8

LEMMA CountFacts ==
  ASSUME DiskInv, JobInv, job # NoJob
  PROVE  /\ Available \in Nat /\ NeventsMeta \in Nat /\ NeventsLocal \in Nat
         /\ Limit \in Nat /\ Limit <= NeventsLocal /\ Limit <= Available
         /\ Once \in BOOLEAN /\ Full \in BOOLEAN /\ Whole \in BOOLEAN
<1>1. /\ Total(Input, "entries", Chunk) \in Nat
      /\ Total(Input, "meta", WithMeta(Input, Chunk)) \in Nat
  BY ChunkFacts, TotalsOfFiles
<1>2. Available \in Nat /\ NeventsMeta \in Nat
  BY <1>1 DEF Available, NeventsMeta, WithMeta
<1>3. job.nevents \in Int
  BY JobFacts
<1>4. NeventsLocal \in Nat
  BY <1>2, <1>3 DEF NeventsLocal
<1>5. Limit \in Nat /\ Limit <= NeventsLocal /\ Limit <= Available
  <2>1. CASE job.nevents > 0
    <3>1. /\ Min({job.nevents, Available}) \in {job.nevents, Available}
          /\ Min({job.nevents, Available}) <= job.nevents
          /\ Min({job.nevents, Available}) <= Available
      <4>1. job.nevents \in Int /\ Available \in Int
        BY <1>2, <1>3
      <4> QED  BY <4>1, MinOfTwo
    <3> QED  BY <3>1, <2>1, <1>2, <1>3 DEF Limit, NeventsLocal
  <2>2. CASE ~(job.nevents > 0)
    BY <2>2, <1>2 DEF Limit, NeventsLocal
  <2> QED  BY <2>1, <2>2
<1>6. Once \in BOOLEAN /\ Full \in BOOLEAN /\ Whole \in BOOLEAN
  BY DEF Once, Full, Whole, Apart
<1> QED  BY <1>2, <1>4, <1>5, <1>6

LEMMA WrittenFile ==
  ASSUME DiskInv, JobInv, job # NoJob, jobs \in Nat, NEW n \in Nat, NEW tree \in BOOLEAN
  PROVE  /\ Written(n, tree) \in Files
         /\ Written(n, tree).run = jobs /\ Written(n, tree).src = Chunk
         /\ Written(n, tree).meta = NoMeta /\ Written(n, tree).entries = n
         /\ Written(n, tree).origin = Origins(Input, Chunk) /\ Written(n, tree).once = Once
         /\ Written(n, tree).full = Full /\ Written(n, tree).whole = Whole
<1>1. Chunk \in SUBSET PathSet /\ \A p \in Chunk : Input[p] \in Files
  BY ChunkFacts
<1>2. Once \in BOOLEAN /\ Full \in BOOLEAN /\ Whole \in BOOLEAN
  BY CountFacts
<1>3. Origins(Input, Chunk) \in SUBSET PathSet
  BY <1>1, FieldsOfFile DEF Origins
<1> QED  BY <1>1, <1>2, <1>3 DEF Written, Files

LEMMA DiskFacts ==
  ASSUME DiskInv
  PROVE  IsStore(disk[0], 0) /\ \A l \in 0 .. Levels : IsStore(disk[l], l)
BY LevelsAssumption DEF DiskInv

\* The files of the chunk and the events behind them.
LEMMA InputFacts ==
  ASSUME DiskInv, JobInv, PastInv, job # NoJob
  PROVE  /\ Origins(Input, Chunk) \in SUBSET DOMAIN disk[0].files
         /\ EventsBehind(Origins(Input, Chunk)) \in Nat
         /\ \A p \in Chunk : /\ Input[p].origin \in SUBSET DOMAIN disk[0].files
                             /\ EventsBehind(Input[p].origin) \in Nat
                             /\ Input[p].once => Input[p].entries <= EventsBehind(Input[p].origin)
         /\ Once => Apart(Input, Chunk) /\ \A p \in Chunk : Input[p].once
<1>1. IsStore(disk[0], 0)
  BY DiskFacts
<1>2. /\ job.level - 1 \in 0 .. Levels /\ Chunk \subseteq DOMAIN Input
      /\ Chunk \in SUBSET job.selected
  BY JobFacts, ChunkFacts
<1>3. \A p \in Chunk : PastOk(Input[p])
  BY <1>2 DEF PastInv, Input
<1>4. \A p \in Chunk : Input[p].origin \in SUBSET DOMAIN disk[0].files
  BY <1>3 DEF PastOk
<1>5. \A p \in Chunk : EventsBehind(Input[p].origin) \in Nat
  BY <1>1, <1>4, EventsAreNat
<1>6. \A p \in Chunk : Input[p].once => Input[p].entries <= EventsBehind(Input[p].origin)
  BY <1>3 DEF PastOk
<1>7. Origins(Input, Chunk) \in SUBSET DOMAIN disk[0].files
  BY <1>4 DEF Origins
<1>8. EventsBehind(Origins(Input, Chunk)) \in Nat
  BY <1>1, <1>7, EventsAreNat
<1>9. Once => Apart(Input, Chunk) /\ \A p \in Chunk : Input[p].once
  BY <1>2, ApartPart DEF Once
<1> QED  BY <1>4, <1>5, <1>6, <1>7, <1>8, <1>9

\* The input has no more events than the original files behind it.
LEMMA InputAtMost ==
  ASSUME DiskInv, JobInv, PastInv, job # NoJob, Once
  PROVE  Available <= EventsBehind(Origins(Input, Chunk))
<1>1. IsStore(disk[0], 0) /\ IsFiniteSet(Chunk) /\ \A p \in Chunk : Input[p] \in Files
  BY DiskFacts, ChunkFacts
<1>2. \A p \in Chunk : /\ Input[p].origin \in SUBSET DOMAIN disk[0].files
                       /\ Input[p]["entries"] \in Nat
                       /\ Input[p]["entries"] <= EventsBehind(Input[p].origin)
  BY <1>1, InputFacts, FieldsOfFile
<1>3. Apart(Input, Chunk)
  BY InputFacts
<1> QED  BY <1>1, <1>2, <1>3, TotalsBehind DEF Available

\* What the counts of the inputs add up to, if those are not cut short.
LEMMA MetaAtMost ==
  ASSUME DiskInv, JobInv, PastInv, PassedDownIsTruth, job # NoJob, Once
  PROVE  /\ Full  => NeventsMeta <= EventsBehind(Origins(Input, Chunk))
         /\ Whole /\ job.level # 1 => NeventsMeta = EventsBehind(Origins(Input, Chunk))
<1> DEFINE T == WithMeta(Input, Chunk)
<1>1. /\ IsStore(disk[0], 0) /\ IsFiniteSet(Chunk)
      /\ \A p \in Chunk : Input[p] \in Files /\ (Input[p].run = 0 <=> job.level = 1)
      /\ Chunk \subseteq DOMAIN Input /\ job.level - 1 \in 0 .. Levels
  BY DiskFacts, ChunkFacts, JobFacts
<1>2. T \in SUBSET Chunk /\ IsFiniteSet(T) /\ \A p \in T : Input[p].meta # NoMeta
  BY <1>1, FS_Subset DEF WithMeta
<1>3. NeventsMeta = Total(Input, "meta", T)
  BY DEF NeventsMeta, WithMeta
<1>4. Apart(Input, T) /\ Origins(Input, T) \subseteq Origins(Input, Chunk)
  BY <1>2, InputFacts, ApartPart
<1>5. \A p \in T : /\ Input[p].once /\ Input[p]["meta"] \in Nat /\ Input[p]["meta"] = Input[p].meta
                   /\ Input[p].origin \in SUBSET DOMAIN disk[0].files
  BY <1>1, <1>2, InputFacts, FieldsOfFile
<1>6. \A p \in T : CountOk(Input[p])
  <2>1. CASE job.level - 1 = 0
    <3>1. IsStore(disk[0], 0) /\ Input = disk[0].files
      BY <1>1, <2>1 DEF Input
    <3> QED  BY <3>1, <1>1, <1>2 DEF IsStore
  <2>2. CASE job.level - 1 # 0
    <3>1. job.level - 1 \in 1 .. Levels
      BY <2>2, JobFacts
    <3> QED  BY <3>1, <1>1, <1>2 DEF PassedDownIsTruth, CountOk, Input
  <2> QED  BY <2>1, <2>2
<1>7. EventsBehind(Origins(Input, T)) <= EventsBehind(Origins(Input, Chunk))
  BY <1>1, <1>4, InputFacts, EventsAtMost
<1>8. /\ EventsBehind(Origins(Input, Chunk)) \in Nat /\ EventsBehind(Origins(Input, T)) \in Nat
      /\ NeventsMeta \in Nat
  BY <1>1, <1>4, InputFacts, EventsAreNat, CountFacts
<1> HIDE DEF T
<1>9. ASSUME Full  PROVE NeventsMeta <= EventsBehind(Origins(Input, Chunk))
  <2>1. \A p \in T : Input[p].full
    BY <1>2, <1>9 DEF Full
  <2>2. \A p \in T : Input[p]["meta"] <= EventsBehind(Input[p].origin)
    BY <1>2, <1>5, <1>6, <2>1 DEF CountOk
  <2>3. Total(Input, "meta", T) <= EventsBehind(Origins(Input, T))
    BY <1>1, <1>2, <1>4, <1>5, <2>2, TotalsBehind
  <2> QED  BY <1>3, <1>7, <1>8, <2>3
<1>10. ASSUME Whole, job.level # 1
       PROVE  NeventsMeta = EventsBehind(Origins(Input, Chunk))
  <2>1. T = Chunk
    BY <1>1, <1>10 DEF Whole, T, WithMeta
  <2>2. \A p \in T : Input[p].whole
    BY <1>2, <1>10 DEF Whole
  <2>3. \A p \in T : Input[p]["meta"] = EventsBehind(Input[p].origin)
    BY <1>2, <1>5, <1>6, <2>2 DEF CountOk
  <2>4. \A p \in T : Input[p]["meta"] <= EventsBehind(Input[p].origin)
    BY <1>5, <2>3
  <2>5. Total(Input, "meta", T) = EventsBehind(Origins(Input, T))
    BY <1>1, <1>2, <1>4, <1>5, <2>3, <2>4, TotalsBehind
  <2> QED  BY <1>3, <2>1, <2>5
<1> QED  BY <1>9, <1>10

\* Originals have no count, and their entries are the events.
LEMMA OriginalInput ==
  ASSUME DiskInv, JobInv, PastInv, job # NoJob, Once, job.level = 1
  PROVE  NeventsMeta = 0 /\ Available = EventsBehind(Origins(Input, Chunk))
<1>1. /\ IsStore(disk[0], 0) /\ IsFiniteSet(Chunk) /\ Chunk \subseteq DOMAIN Input
      /\ \A p \in Chunk : Input[p] \in Files
  BY DiskFacts, ChunkFacts
<1>2. Input = disk[0].files
  <2>1. job.level - 1 = 0
    BY JobFacts
  <2> QED  BY <2>1 DEF Input
<1>3. \A p \in Chunk : Input[p].meta = NoMeta /\ Input[p].origin = {p}
  BY <1>1, <1>2 DEF IsStore
<1>4. NeventsMeta = 0
  <2>1. {p \in Chunk : Input[p].meta # NoMeta} = {}
    BY <1>3
  <2> QED  BY <2>1, TotalOfNothing DEF NeventsMeta
<1>5. \A p \in Chunk : /\ Input[p].origin \in SUBSET DOMAIN disk[0].files
                       /\ Input[p]["entries"] \in Nat
                       /\ Input[p]["entries"] = EventsBehind(Input[p].origin)
  BY <1>1, <1>2, <1>3, EventsOfOne, FieldsOfFile
<1>6. \A p \in Chunk : Input[p]["entries"] <= EventsBehind(Input[p].origin)
  BY <1>5
<1>7. Apart(Input, Chunk)
  BY InputFacts
<1>8. Available = EventsBehind(Origins(Input, Chunk))
  BY <1>1, <1>5, <1>6, <1>7, TotalsBehind DEF Available
<1> QED  BY <1>4, <1>8

(* What a stage records that took no original file twice: no more than the *)
(* events behind its input, if it is not cut short, and just these if no   *)
(* count is lost.                                                          *)
LEMMA CountIsTruth ==
  ASSUME DiskInv, JobInv, PastInv, PassedDownIsTruth, job # NoJob
  PROVE  LET count  == Max({NeventsLocal, NeventsMeta})
             behind == EventsBehind(Origins(Input, Chunk))
         IN  /\ count \in Nat /\ count >= Limit
             /\ Once /\ Full  => count <= behind
             /\ Once /\ Whole => count = behind
<1> DEFINE count  == Max({NeventsLocal, NeventsMeta})
           behind == EventsBehind(Origins(Input, Chunk))
<1>1. /\ NeventsLocal \in Nat /\ NeventsMeta \in Nat
      /\ Limit \in Nat /\ Limit <= NeventsLocal /\ Available \in Nat /\ behind \in Nat
  BY CountFacts, InputFacts
<1>2. /\ count \in {NeventsLocal, NeventsMeta} /\ count >= NeventsLocal
      /\ count >= NeventsMeta
  <2>1. NeventsLocal \in Int /\ NeventsMeta \in Int
    BY <1>1
  <2> QED  BY <2>1, MinOfTwo
<1>3. job.nevents <= 0 => NeventsLocal = Available
  BY JobFacts DEF NeventsLocal
<1> HIDE DEF count, behind
<1>4. count \in Nat /\ count >= Limit
  BY <1>1, <1>2
<1>5. Once => Available <= behind
  BY InputAtMost DEF behind
<1>6. ASSUME Once, Full  PROVE count <= behind
  <2>1. NeventsMeta <= behind
    BY <1>6, MetaAtMost DEF behind
  <2>2. NeventsLocal = Available
    BY <1>3, <1>6 DEF Full
  <2> QED  BY <1>1, <1>2, <1>5, <1>6, <2>1, <2>2
<1>7. ASSUME Once, Whole  PROVE count = behind
  <2>1. NeventsLocal = Available
    BY <1>3, <1>7 DEF Whole
  <2>2. CASE job.level = 1
    <3>1. NeventsMeta = 0 /\ Available = behind
      BY <1>7, <2>2, OriginalInput DEF behind
    <3> QED  BY <1>1, <1>2, <2>1, <3>1
  <2>3. CASE job.level # 1
    <3>1. NeventsMeta = behind
      BY <1>7, <2>3, MetaAtMost DEF behind
    <3> QED  BY <1>1, <1>2, <1>5, <1>7, <2>1, <3>1
  <2> QED  BY <2>2, <2>3
<1> QED  BY <1>4, <1>6, <1>7 DEF count, behind

-----------------------------------------------------------------------------
(* A file of the running stage is written or replaced.                     *)

OnlyFile(f) ==
  /\ disk' = [l \in 0 .. Levels |-> disk'[l]]
  /\ \A l \in 0 .. Levels : l # job.level => disk'[l] = disk[l]
  /\ disk'[job.level] = [dir |-> disk[job.level].dir, files |-> disk'[job.level].files]
  /\ DOMAIN disk'[job.level].files = DOMAIN Outputs \cup {OutFile}
  /\ disk'[job.level].files[OutFile] = f
  /\ \A p \in DOMAIN Outputs : p # OutFile => disk'[job.level].files[p] = Outputs[p]

LEMMA PutLaw ==
  ASSUME DiskInv, JobInv, job # NoJob, NEW f, Put(f)
  PROVE  OnlyFile(f)
<1> DEFINE L == job.level
           new == [p \in DOMAIN disk[L].files \cup {OutFile} |->
                     IF p = OutFile THEN f ELSE disk[L].files[p]]
<1>1. L \in 1 .. Levels /\ L \in 0 .. Levels
  BY JobFacts
<1>2. disk = [l \in 0 .. Levels |-> disk[l]] /\ disk[L] = [dir |-> disk[L].dir, files |-> disk[L].files]
  BY <1>1 DEF DiskInv
<1>3. disk' = [disk EXCEPT ![L] = [disk[L] EXCEPT !.files = new]]
  BY DEF Put
<1> HIDE DEF new
<1>4. [disk[L] EXCEPT !.files = new] = [dir |-> disk[L].dir, files |-> new]
  BY <1>2
<1>5. /\ disk' = [l \in 0 .. Levels |-> disk'[l]]
      /\ \A l \in 0 .. Levels : l # L => disk'[l] = disk[l]
      /\ disk'[L] = [dir |-> disk[L].dir, files |-> new]
  BY <1>1, <1>2, <1>3, <1>4
<1>6. disk'[L].files = new
  BY <1>5
<1> QED  BY <1>5, <1>6 DEF OnlyFile, Outputs, new

LEMMA PutKeepsDisk ==
  ASSUME DiskInv, JobInv, job # NoJob, jobs \in Nat, jobs' = jobs,
         NEW f \in Files, f.run = jobs, OnlyFile(f)
  PROVE  DiskInv'
<1>1. /\ job.level \in 1 .. Levels /\ jobs # 0
      /\ OutFile \in PathSet /\ (OutFile # Single => disk[job.level].dir)
  BY JobFacts, ChunkFacts DEF JobInv
<1>2. ASSUME NEW l \in 0 .. Levels  PROVE IsStore(disk[l], l)'
  <2>1. IsStore(disk[l], l)
    BY DEF DiskInv
  <2>2. CASE l # job.level
    BY <2>1, <2>2 DEF OnlyFile, IsStore
  <2>3. CASE l = job.level
    <3> DEFINE new == disk'[l].files  old == disk[l].files
    <3>1. /\ disk'[l].dir = disk[l].dir
          /\ DOMAIN new = DOMAIN old \cup {OutFile} /\ new[OutFile] = f
          /\ \A p \in DOMAIN old : p # OutFile => new[p] = old[p]
      BY <2>3 DEF OnlyFile, Outputs
    <3>2. IsFiniteSet(DOMAIN new)
      BY <3>1, <2>1, FS_AddElement DEF IsStore
    <3>3. l # 0
      BY <1>1, <2>3
    <3>4. ASSUME NEW p \in DOMAIN new
          PROVE  /\ p \in PathSet /\ (p # Single => disk'[l].dir)
                 /\ new[p] \in Files /\ new[p].run <= jobs'
                 /\ new[p].run = 0 <=> l = 0
      <4>1. CASE p = OutFile
        BY <4>1, <3>1, <1>1, <3>3, <2>3
      <4>2. CASE p # OutFile
        BY <4>2, <3>1, <2>1 DEF IsStore
      <4> QED  BY <4>1, <4>2
    <3>5. disk'[l].dir \in BOOLEAN
      BY <3>1, <2>1 DEF IsStore
    <3> QED  BY <3>2, <3>3, <3>4, <3>5 DEF IsStore
  <2> QED  BY <2>2, <2>3
<1>3. ASSUME NEW l \in 1 .. Levels
      PROVE  disk'[l] = [dir |-> disk'[l].dir, files |-> disk'[l].files]
  BY DEF DiskInv, OnlyFile
<1>4. disk' = [l \in 0 .. Levels |-> disk'[l]]
  BY DEF OnlyFile
<1> QED  BY <1>2, <1>3, <1>4 DEF DiskInv

\* No stage writes to directory 0.
LEMMA PutKeepsOriginals ==
  ASSUME DiskInv, JobInv, job # NoJob, NEW f, OnlyFile(f)
  PROVE  disk'[0] = disk[0]
<1>1. 0 # job.level /\ 0 \in 0 .. Levels
  BY JobFacts, LevelsAssumption
<1> QED  BY <1>1 DEF OnlyFile

LEMMA PutKeepsPast ==
  ASSUME DiskInv, JobInv, PastInv, job # NoJob, NEW f, PastOk(f), OnlyFile(f)
  PROVE  PastInv'
<1> SUFFICES ASSUME NEW l \in 0 .. Levels, NEW p \in DOMAIN disk'[l].files
             PROVE  PastOk(disk[l].files[p])'
  BY DEF PastInv
<1> DEFINE g == disk'[l].files[p]
<1>1. PastOk(g)
  <2>1. CASE l # job.level \/ p # OutFile
    <3>1. p \in DOMAIN disk[l].files /\ g = disk[l].files[p]
      BY <2>1 DEF OnlyFile, Outputs
    <3> QED  BY <3>1 DEF PastInv
  <2>2. CASE l = job.level /\ p = OutFile
    <3>1. g = f
      BY <2>2 DEF OnlyFile
    <3> QED  BY <3>1
  <2> QED  BY <2>1, <2>2
<1>2. disk'[0] = disk[0]
  BY PutKeepsOriginals
<1> QED  BY <1>1, <1>2 DEF PastOk, EventsBehind

\* Parts of an input in which no original file is behind two files.
LEMMA ApartChunks ==
  ASSUME NEW files, NEW S, Apart(files, S), NEW T \in SUBSET S, NEW U \in SUBSET S, T \cap U = {}
  PROVE  Origins(files, T) \cap Origins(files, U) = {}
BY DEF Apart, Origins

\* The other files of this run are those of other chunks.
LEMMA PutKeepsOnce ==
  ASSUME DiskInv, JobInv, OutputsInv, job # NoJob,
         NEW f, f.run = jobs, f.origin = Origins(Input, Chunk), f.once = Once, OnlyFile(f),
         \A l \in 0 .. Levels : OncePerRun(disk[l].files)
  PROVE  \A l \in 0 .. Levels : OncePerRun(disk'[l].files)
<1> SUFFICES ASSUME NEW l \in 0 .. Levels  PROVE OncePerRun(disk'[l].files)
  OBVIOUS
<1>1. CASE l # job.level
  BY <1>1 DEF OnlyFile
<1>2. CASE l = job.level
  <2> DEFINE new == disk'[l].files  old == disk[l].files
  <2>1. /\ DOMAIN new = DOMAIN old \cup {OutFile} /\ new[OutFile] = f
        /\ \A p \in DOMAIN old : p # OutFile => new[p] = old[p]
        /\ old = Outputs
    BY <1>2 DEF OnlyFile, Outputs
  <2>2. ASSUME NEW p \in DOMAIN old, p # OutFile, old[p].run = jobs
        PROVE  old[p].once = Once /\ (Once => old[p].origin \cap f.origin = {})
    <3>1. PICK c \in 0 .. job.ch : HasWritten(c) /\ p = PathOf(c)
      BY <2>1, <2>2 DEF OutputsInv
    <3>2. c # job.ch
      BY <3>1, <2>2 DEF PathOf, OutFile
    <3>3. old[p].origin = Origins(Input, ToSet(job.chunks[c + 1])) /\ old[p].once = Once
      BY <3>1, <2>1 DEF OutputsInv
    <3>4. /\ job.ch \in Nat /\ job.ch + 1 \in DOMAIN job.chunks
          /\ job.chunks \in Seq(Seq(PathSet))
      BY JobFacts
    <3>5. c + 1 \in DOMAIN job.chunks /\ c + 1 # job.ch + 1
      BY <3>2, <3>4
    <3> DEFINE Part(k) == ToSet(job.chunks[k])
    <3>6. /\ \A k, m \in DOMAIN job.chunks : k # m => Part(k) \cap Part(m) = {}
          /\ UNION {Part(k) : k \in DOMAIN job.chunks} = job.selected
      BY DEF JobInv, IsPartition
    <3>7. Chunk = Part(job.ch + 1) /\ old[p].origin = Origins(Input, Part(c + 1))
      BY <3>3 DEF Chunk
    <3> HIDE DEF Part, old
    <3>8. /\ Part(c + 1) \cap Chunk = {} /\ Part(c + 1) \in SUBSET job.selected
          /\ Chunk \in SUBSET job.selected
      BY <3>4, <3>5, <3>6, <3>7
    <3>9. Once => Origins(Input, Part(c + 1)) \cap Origins(Input, Chunk) = {}
      BY <3>8, ApartChunks DEF Once
    <3> QED  BY <3>3, <3>7, <3>9
  <2>3. OncePerRun(old)
    OBVIOUS
  <2> HIDE DEF new, old
  <2> SUFFICES ASSUME NEW p \in DOMAIN new, NEW q \in DOMAIN new, p # q, new[p].run = new[q].run,
                      new[p].once
               PROVE  new[p].origin \cap new[q].origin = {}
    BY DEF OncePerRun, new
  <2>4. CASE p = OutFile
    <3>1. q \in DOMAIN old /\ q # OutFile /\ new[q] = old[q] /\ new[p] = f
      BY <2>1, <2>4
    <3> QED  BY <3>1, <2>2
  <2>5. CASE q = OutFile
    <3>1. p \in DOMAIN old /\ p # OutFile /\ new[p] = old[p] /\ new[q] = f
      BY <2>1, <2>5
    <3> QED  BY <3>1, <2>2
  <2>6. CASE p # OutFile /\ q # OutFile
    <3>1. p \in DOMAIN old /\ q \in DOMAIN old /\ new[p] = old[p] /\ new[q] = old[q]
      BY <2>1, <2>6
    <3> QED  BY <3>1, <2>3 DEF OncePerRun
  <2> QED  BY <2>4, <2>5, <2>6
<1> QED  BY <1>1, <1>2

LEMMA PutKeepsCounts ==
  ASSUME DiskInv, JobInv, job # NoJob, PassedDownIsTruth, NEW f, OnlyFile(f), CountOk(f)
  PROVE  PassedDownIsTruth'
<1> SUFFICES ASSUME NEW l \in 1 .. Levels, NEW p \in DOMAIN disk'[l].files
             PROVE  CountOk(disk[l].files[p])'
  BY DEF PassedDownIsTruth, CountOk
<1>0. l \in 0 .. Levels
  OBVIOUS
<1> DEFINE g == disk'[l].files[p]
<1>1. CountOk(g)
  <2>1. CASE l # job.level \/ p # OutFile
    <3>1. p \in DOMAIN disk[l].files /\ g = disk[l].files[p]
      BY <1>0, <2>1 DEF OnlyFile, Outputs
    <3> QED  BY <3>1 DEF PassedDownIsTruth, CountOk
  <2>2. CASE l = job.level /\ p = OutFile
    <3>1. g = f
      BY <2>2 DEF OnlyFile
    <3> QED  BY <3>1
  <2> QED  BY <2>1, <2>2
<1>2. disk'[0] = disk[0]
  BY PutKeepsOriginals
<1> QED  BY <1>1, <1>2 DEF CountOk, EventsBehind

\* Only the level of the stage changes, which is not complete.
LEMMA PutKeepsComplete ==
  ASSUME JobInv, job # NoJob, RerunReplaces, NEW f, OnlyFile(f),
         complete' = complete
  PROVE  RerunReplaces'
<1> SUFFICES ASSUME NEW l \in 1 .. Levels, complete[l] # NoComplete
             PROVE  disk'[l] = disk[l]
  BY DEF RerunReplaces
<1>1. l # job.level /\ l \in 0 .. Levels
  BY DEF JobInv
<1> QED  BY <1>1 DEF OnlyFile

-----------------------------------------------------------------------------
(* Every step keeps the invariant.                                         *)

LEMMA InitIsGood == Init => IInv
<1> SUFFICES ASSUME Init  PROVE IInv
  OBVIOUS
<1>1. PICK o \in Originals :
        disk = [l \in 0 .. Levels |-> IF l = 0 THEN o ELSE [dir |-> FALSE, files |-> << >>]]
  BY DEF Init
<1>2. job = NoJob /\ jobs = 0 /\ complete = [l \in 1 .. Levels |-> NoComplete] /\ final = NoFinal
  BY DEF Init
<1>3. disk[0] = o /\ \A l \in 1 .. Levels : disk[l] = [dir |-> FALSE, files |-> << >>]
  BY <1>1, LevelsAssumption
<1>4. ASSUME NEW p \in DOMAIN o.files
      PROVE  /\ o.files[p] \in Files /\ o.files[p].run = 0 /\ o.files[p].meta = NoMeta
             /\ o.files[p].origin = {p} /\ p \in PathSet
  <2> DEFINE n == o.files[p].entries
  <2>1. n \in Nat /\ o.files[p] = Original(p, n) /\ p \in PathSet
    BY OriginalsAssumption DEF PathSet
  <2> HIDE DEF n
  <2>2. /\ Original(p, n) \in Files /\ Original(p, n).run = 0 /\ Original(p, n).meta = NoMeta
        /\ Original(p, n).origin = {p}
    BY <2>1 DEF Original, Files
  <2> QED  BY <2>1, <2>2
<1>4a. IsStore(disk[0], 0)
  BY <1>4, <1>2, <1>3, OriginalsAssumption DEF IsStore, PathSet
<1>5. \A l \in 1 .. Levels : DOMAIN disk[l].files = {} /\ IsStore(disk[l], l)
  <2>1. DOMAIN << >> = {}
    OBVIOUS
  <2>2. ASSUME NEW l \in 1 .. Levels  PROVE DOMAIN disk[l].files = {} /\ disk[l].dir = FALSE
    BY <1>3, <2>1
  <2>3. ASSUME NEW l \in 1 .. Levels  PROVE IsStore(disk[l], l)
    BY <2>2, FS_EmptySet DEF IsStore
  <2> QED  BY <2>2, <2>3
<1>6. DiskInv
  <2>1. \A l \in 0 .. Levels : l = 0 \/ l \in 1 .. Levels
    BY LevelsAssumption
  <2> QED  BY <1>1, <1>3, <1>4a, <1>5, <2>1 DEF DiskInv
<1>7. \A l \in 0 .. Levels : OncePerRun(disk[l].files)
  <2>1. OncePerRun(disk[0].files)
    BY <1>3, <1>4 DEF OncePerRun
  <2>2. \A l \in 1 .. Levels : OncePerRun(disk[l].files)
    BY <1>5 DEF OncePerRun
  <2>3. \A l \in 0 .. Levels : l = 0 \/ l \in 1 .. Levels
    BY LevelsAssumption
  <2> QED  BY <2>1, <2>2, <2>3
<1>8. PassedDownIsTruth
  BY <1>5 DEF PassedDownIsTruth
<1>9. JobInv /\ OutputsInv
  BY <1>2 DEF JobInv, OutputsInv
<1>10. CompleteInv /\ RerunReplaces
  BY <1>2 DEF CompleteInv, RerunReplaces
<1>11. final.level \in 0 .. Levels /\ FinalCountsOnce
  BY <1>2, LevelsAssumption DEF NoFinal, FinalCountsOnce
<1>12. jobs \in 0 .. MaxJobs
  BY <1>2, LevelsAssumption
<1>13. PastInv
  <2>1. ASSUME NEW p \in DOMAIN disk[0].files  PROVE PastOk(disk[0].files[p])
    <3>1. disk[0].files[p].origin = {p}
      BY <1>3, <1>4
    <3>2. EventsBehind({p}) = disk[0].files[p].entries /\ EventsBehind({p}) \in Nat
      BY <1>4a, EventsOfOne, EventsAreNat
    <3> QED  BY <3>1, <3>2 DEF PastOk
  <2>2. \A l \in 0 .. Levels : l = 0 \/ l \in 1 .. Levels
    BY LevelsAssumption
  <2> QED  BY <1>5, <2>1, <2>2 DEF PastInv
<1> QED  BY <1>6, <1>7, <1>8, <1>9, <1>10, <1>11, <1>12, <1>13 DEF IInv

LEMMA FinalStays ==
  ASSUME final.level \in 0 .. Levels, FinalCountsOnce, final' = final, disk'[0] = disk[0]
  PROVE  (final.level \in 0 .. Levels /\ FinalCountsOnce)'
BY DEF FinalCountsOnce, EventsBehind

\* What a new file keeps that has no count yet, or a right one.
LEMMA PutKeeps ==
  ASSUME IInv, job # NoJob, jobs' = jobs, final' = final, NEW f \in Files, f.run = jobs,
         f.origin = Origins(Input, Chunk), f.once = Once, PastOk(f), CountOk(f), Put(f)
  PROVE  /\ OnlyFile(f) /\ jobs' \in 0 .. MaxJobs /\ DiskInv' /\ PastInv'
         /\ (\A l \in 0 .. Levels : OncePerRun(disk[l].files))'
         /\ PassedDownIsTruth'
         /\ (final.level \in 0 .. Levels /\ FinalCountsOnce)'
<1> USE DEF IInv
<1>1. OnlyFile(f)
  BY PutLaw
<1>2. DiskInv'
  BY <1>1, PutKeepsDisk
<1>3. \A l \in 0 .. Levels : OncePerRun(disk'[l].files)
  BY <1>1, PutKeepsOnce
<1>4. PassedDownIsTruth'
  BY <1>1, PutKeepsCounts
<1>5. PastInv'
  BY <1>1, PutKeepsPast
<1>6. (final.level \in 0 .. Levels /\ FinalCountsOnce)'
  BY <1>1, PutKeepsOriginals, FinalStays
<1> QED  BY <1>1, <1>2, <1>3, <1>4, <1>5, <1>6

\* No more is written than the input has.
LEMMA WrittenPast ==
  ASSUME DiskInv, JobInv, PastInv, job # NoJob, jobs \in Nat, NEW n \in Nat, n <= Limit,
         NEW tree \in BOOLEAN
  PROVE  PastOk(Written(n, tree)) /\ CountOk(Written(n, tree))
<1> DEFINE f == Written(n, tree)
<1>1. /\ f.meta = NoMeta /\ f.entries = n
      /\ f.origin = Origins(Input, Chunk) /\ f.once = Once
  BY WrittenFile
<1> HIDE DEF f
<1>2. Origins(Input, Chunk) \in SUBSET DOMAIN disk[0].files
  BY InputFacts
<1>3. ASSUME Once  PROVE n <= EventsBehind(Origins(Input, Chunk))
  <2>1. Limit \in Nat /\ Available \in Nat /\ Limit <= Available
    BY CountFacts
  <2>2. EventsBehind(Origins(Input, Chunk)) \in Nat
    BY InputFacts
  <2>3. Available <= EventsBehind(Origins(Input, Chunk))
    BY <1>3, InputAtMost
  <2> QED  BY <2>1, <2>2, <2>3
<1>4. PastOk(f)
  BY <1>1, <1>2, <1>3 DEF PastOk
<1>5. CountOk(f)
  BY <1>1 DEF CountOk
<1> QED  BY <1>4, <1>5 DEF f

LEMMA RunRDFStep == IInv /\ RunRDF => IInv'
<1> SUFFICES ASSUME IInv, RunRDF  PROVE IInv'
  OBVIOUS
<1>1. PICK n \in 0 .. Limit : Put(Written(n, TRUE))
  BY DEF RunRDF
<1>2. /\ job # NoJob /\ job.phase = "rdf" /\ job' = [job EXCEPT !.phase = "update"]
      /\ jobs' = jobs /\ complete' = complete /\ final' = final
  BY DEF RunRDF
<1>3. DiskInv /\ JobInv /\ OutputsInv /\ PastInv /\ jobs \in Nat
  BY DEF IInv
<1>4. n \in Nat /\ n <= Limit
  BY <1>2, <1>3, CountFacts
<1> DEFINE f == Written(n, TRUE)
<1>5. /\ f \in Files /\ f.run = jobs /\ f.src = Chunk /\ f.meta = NoMeta
      /\ f.origin = Origins(Input, Chunk) /\ f.once = Once
      /\ f.entries = n /\ f.full = Full /\ f.whole = Whole
  BY <1>2, <1>3, <1>4, WrittenFile
<1>5a. PastOk(f) /\ CountOk(f)
  BY <1>2, <1>3, <1>4, WrittenPast
<1> HIDE DEF f
<1>6. /\ OnlyFile(f) /\ jobs' \in 0 .. MaxJobs /\ DiskInv' /\ PastInv'
      /\ (\A l \in 0 .. Levels : OncePerRun(disk[l].files))'
      /\ PassedDownIsTruth'
      /\ (final.level \in 0 .. Levels /\ FinalCountsOnce)'
  BY <1>1, <1>2, <1>5, <1>5a, PutKeeps DEF f
<1>7. /\ job \in Jobs /\ job.level \in 1 .. Levels
      /\ job.level - 1 \in 0 .. Levels /\ job.level - 1 # job.level
      /\ job.ch \in Nat /\ job.level \in 0 .. Levels
  BY <1>2, <1>3, JobFacts
<1>8. /\ job' \in Jobs /\ job' # NoJob /\ job'.phase = "update"
      /\ job'.level = job.level /\ job'.nevents = job.nevents /\ job'.selected = job.selected
      /\ job'.chunks = job.chunks /\ job'.ch = job.ch
  BY <1>2, <1>7 DEF Jobs, NoJob
<1>9. Input' = Input /\ disk'[job.level].dir = disk[job.level].dir
  BY <1>6, <1>7, <1>8 DEF OnlyFile, Input
<1>10. JobInv'
  BY <1>2, <1>3, <1>8, <1>9 DEF JobInv
<1>11. /\ Chunk' = Chunk /\ OutFile' = OutFile /\ \A c : PathOf(c)' = PathOf(c)
       /\ \A c \in 0 .. job.ch : HasWritten(c)' <=> (HasWritten(c) \/ c = job.ch)
       /\ PathOf(job.ch) = OutFile
       /\ Outputs' = disk'[job.level].files
  BY <1>2, <1>8 DEF Chunk, OutFile, PathOf, HasWritten, Outputs
<1>12. /\ DOMAIN Outputs' = DOMAIN Outputs \cup {OutFile} /\ Outputs'[OutFile] = f
       /\ \A p \in DOMAIN Outputs : p # OutFile => Outputs'[p] = Outputs[p]
  BY <1>6, <1>11 DEF OnlyFile
<1>13. Limit' = Limit /\ Whole' = Whole /\ Full' = Full /\ Once' = Once
  BY <1>8, <1>9, <1>11 DEF Limit, Whole, Available, Full, Once
<1>14. OutputsInv'
  <2>1. ASSUME NEW c \in 0 .. job.ch, HasWritten(c)'
        PROVE  /\ PathOf(c) \in DOMAIN Outputs' /\ Outputs'[PathOf(c)].run = jobs
               /\ Outputs'[PathOf(c)].src = ToSet(job.chunks[c + 1])
               /\ Outputs'[PathOf(c)].origin = Origins(Input, ToSet(job.chunks[c + 1]))
               /\ Outputs'[PathOf(c)].once = Once
               /\ c < job.ch => Outputs'[PathOf(c)].meta # NoMeta
    <3>1. CASE c = job.ch
      BY <3>1, <1>5, <1>7, <1>11, <1>12 DEF Chunk
    <3>2. CASE c # job.ch
      <4>1. HasWritten(c) /\ c < job.ch
        BY <3>2, <2>1, <1>7, <1>11
      <4>2. PathOf(c) # OutFile
        BY <4>1, <3>2, <1>3, <1>7, <1>2 DEF PathOf, OutFile, JobInv, Jobs
      <4> QED  BY <4>1, <4>2, <1>2, <1>3, <1>12 DEF OutputsInv
    <3> QED  BY <3>1, <3>2
  <2>2. ASSUME NEW p \in DOMAIN Outputs', Outputs'[p].run = jobs
        PROVE  \E c \in 0 .. job.ch : HasWritten(c)' /\ p = PathOf(c)
    <3>1. CASE p = OutFile
      BY <3>1, <1>7, <1>11
    <3>2. CASE p # OutFile
      BY <3>2, <2>2, <1>2, <1>3, <1>11, <1>12 DEF OutputsInv
    <3> QED  BY <3>1, <3>2
  <2>3. Output' = f
    BY <1>8, <1>11, <1>12 DEF Output, Outputs
  <2>4. Output'.entries <= Limit' /\ Output'.full = Full' /\ Output'.whole = Whole'
    BY <2>3, <1>4, <1>5, <1>13
  <2> QED  BY <2>1, <2>2, <2>4, <1>2, <1>8, <1>9, <1>11, <1>13 DEF OutputsInv
<1>15. CompleteInv' /\ RerunReplaces'
  <2>1. RerunReplaces'
    BY <1>2, <1>3, <1>6, PutKeepsComplete DEF IInv
  <2>2. CompleteInv'
    BY <1>2 DEF IInv, CompleteInv
  <2> QED  BY <2>1, <2>2
<1> QED  BY <1>6, <1>10, <1>14, <1>15 DEF IInv

\* The command ends: no stage runs, and none is complete that was not.
LEMMA JobEndsStep ==
  ASSUME job' = NoJob
  PROVE  JobInv' /\ OutputsInv'
BY DEF JobInv, OutputsInv

\* Nothing on the disk changes.
LEMMA StoredStays ==
  ASSUME IInv, disk' = disk, jobs' = jobs, complete' = complete
  PROVE  /\ DiskInv' /\ PastInv' /\ (\A l \in 0 .. Levels : OncePerRun(disk[l].files))'
         /\ PassedDownIsTruth' /\ RerunReplaces' /\ CompleteInv' /\ jobs' \in 0 .. MaxJobs
<1>1. DiskInv'
  <2>1. \A l \in 0 .. Levels : IsStore(disk[l], l)' <=> IsStore(disk[l], l)
    BY DEF IsStore
  <2>2. DiskInv
    BY DEF IInv
  <2> QED  BY <2>1, <2>2 DEF DiskInv
<1>2. (\A l \in 0 .. Levels : OncePerRun(disk[l].files))'
  BY DEF IInv
<1>3. PassedDownIsTruth'
  BY DEF IInv, PassedDownIsTruth, EventsBehind
<1>4. RerunReplaces' /\ CompleteInv'
  BY DEF IInv, RerunReplaces, CompleteInv
<1>5. jobs' \in 0 .. MaxJobs
  BY DEF IInv
<1>6. PastInv'
  BY DEF IInv, PastInv, PastOk, EventsBehind
<1> QED  BY <1>1, <1>2, <1>3, <1>4, <1>5, <1>6

LEMMA RunRDFEndsStep == IInv /\ RunRDFEnds => IInv'
<1> SUFFICES ASSUME IInv, RunRDFEnds  PROVE IInv'
  OBVIOUS
<1>1. /\ job # NoJob /\ job' = NoJob
      /\ jobs' = jobs /\ complete' = complete /\ final' = final
  BY DEF RunRDFEnds
<1>2. DiskInv /\ JobInv /\ OutputsInv /\ PastInv /\ jobs \in Nat
  BY DEF IInv
<1>3. JobInv' /\ OutputsInv' /\ CompleteInv'
  BY <1>1, JobEndsStep DEF IInv, CompleteInv
<1>4. Limit \in Nat
  BY <1>1, <1>2, CountFacts
<1>5. ASSUME NEW n \in Nat, n <= Limit, NEW tree \in BOOLEAN, Put(Written(n, tree))
      PROVE  IInv'
  <2> DEFINE f == Written(n, tree)
  <2>1. /\ f \in Files /\ f.run = jobs
        /\ f.origin = Origins(Input, Chunk) /\ f.once = Once
    BY <1>1, <1>2, WrittenFile
  <2>2. PastOk(f) /\ CountOk(f)
    BY <1>1, <1>2, <1>5, WrittenPast
  <2>3. Put(f)
    BY <1>5
  <2> HIDE DEF f
  <2>4. /\ OnlyFile(f) /\ jobs' \in 0 .. MaxJobs /\ DiskInv' /\ PastInv'
        /\ (\A l \in 0 .. Levels : OncePerRun(disk[l].files))'
        /\ PassedDownIsTruth'
        /\ (final.level \in 0 .. Levels /\ FinalCountsOnce)'
    BY <1>1, <2>1, <2>2, <2>3, PutKeeps
  <2>5. RerunReplaces'
    BY <1>1, <1>2, <2>4, PutKeepsComplete DEF IInv
  <2> QED  BY <1>3, <2>4, <2>5 DEF IInv
<1>6. CASE Put(Written(0, FALSE))
  <2>1. 0 \in Nat /\ 0 <= Limit /\ FALSE \in BOOLEAN
    BY <1>4
  <2> QED  BY <1>5, <1>6, <2>1
<1>7. CASE \E n \in 0 .. Limit : Put(Written(n, TRUE))
  <2>1. PICK n \in 0 .. Limit : Put(Written(n, TRUE))
    BY <1>7
  <2>2. n \in Nat /\ n <= Limit /\ TRUE \in BOOLEAN
    BY <1>4
  <2> QED  BY <1>5, <2>1, <2>2
<1>8. CASE disk' = disk
  <2>1. /\ DiskInv' /\ PastInv' /\ (\A l \in 0 .. Levels : OncePerRun(disk[l].files))'
        /\ PassedDownIsTruth' /\ RerunReplaces' /\ jobs' \in 0 .. MaxJobs
    BY <1>1, <1>8, StoredStays
  <2>2. (final.level \in 0 .. Levels /\ FinalCountsOnce)'
    BY <1>1, <1>8, FinalStays DEF IInv
  <2> QED  BY <1>3, <2>1, <2>2 DEF IInv
<1> QED  BY <1>6, <1>7, <1>8 DEF RunRDFEnds

LEMMA UpdateEndsStep == IInv /\ UpdateEnds => IInv'
<1> SUFFICES ASSUME IInv, UpdateEnds  PROVE IInv'
  OBVIOUS
<1>1. job' = NoJob /\ UNCHANGED <<disk, jobs, complete, final>>
  BY DEF UpdateEnds
<1>2. JobInv' /\ OutputsInv'
  BY <1>1, JobEndsStep
<1>3. (final.level \in 0 .. Levels /\ FinalCountsOnce)'
  BY <1>1, FinalStays DEF IInv
<1>4. /\ DiskInv' /\ PastInv' /\ (\A l \in 0 .. Levels : OncePerRun(disk[l].files))'
      /\ PassedDownIsTruth' /\ RerunReplaces' /\ CompleteInv' /\ jobs' \in 0 .. MaxJobs
  BY <1>1, StoredStays
<1> QED  BY <1>2, <1>3, <1>4 DEF IInv

\* The file that Update replaces, with its count.
Counted == [Output EXCEPT !.meta = Max({NeventsLocal, NeventsMeta})]

LEMMA CountedFile ==
  ASSUME IInv, job # NoJob, job.phase = "update"
  PROVE  /\ OutFile \in DOMAIN Outputs
         /\ Counted \in Files /\ Counted.run = jobs /\ Counted.src = Chunk
         /\ Counted.origin = Origins(Input, Chunk) /\ Counted.once = Once
         /\ Counted.meta # NoMeta /\ PastOk(Counted) /\ CountOk(Counted)
<1>1. DiskInv /\ JobInv /\ OutputsInv /\ PastInv /\ PassedDownIsTruth
  BY DEF IInv
<1>2. job.ch \in Nat /\ job.level \in 0 .. Levels /\ job.level \in 1 .. Levels
  BY <1>1, JobFacts
<1>3. PathOf(job.ch) = OutFile /\ HasWritten(job.ch) /\ job.ch \in 0 .. job.ch
  BY <1>2 DEF PathOf, OutFile, HasWritten
<1>4. /\ OutFile \in DOMAIN Outputs /\ Outputs[OutFile].run = jobs
      /\ Outputs[OutFile].src = Chunk
      /\ Outputs[OutFile].origin = Origins(Input, Chunk) /\ Outputs[OutFile].once = Once
  BY <1>1, <1>3 DEF OutputsInv, Chunk
<1>5. /\ Output = Outputs[OutFile] /\ Output \in Files /\ PastOk(Output)
  BY <1>1, <1>2, <1>4 DEF Output, Outputs, DiskInv, IsStore, PastInv
<1>6. Output.entries <= Limit /\ Output.full = Full /\ Output.whole = Whole
  BY <1>1 DEF OutputsInv
<1> DEFINE count == Max({NeventsLocal, NeventsMeta})
<1>7. /\ count \in Nat /\ count >= Limit
      /\ Once /\ Full  => count <= EventsBehind(Origins(Input, Chunk))
      /\ Once /\ Whole => count = EventsBehind(Origins(Input, Chunk))
  BY <1>1, CountIsTruth
<1>8. Limit \in Nat
  BY <1>1, CountFacts
<1> HIDE DEF count
<1>9. Counted = [Output EXCEPT !.meta = count]
  BY DEF Counted, count
<1>10. /\ Counted \in Files /\ Counted.run = Output.run /\ Counted.src = Output.src
       /\ Counted.entries = Output.entries /\ Counted.origin = Output.origin
       /\ Counted.once = Output.once /\ Counted.full = Output.full
       /\ Counted.whole = Output.whole /\ Counted.meta = count
  BY <1>5, <1>7, <1>9 DEF Files
<1>11. count # NoMeta /\ count >= Output.entries
  BY <1>5, <1>6, <1>7, <1>8, NoMetaIsNot, FieldsOfFile
<1>12. /\ Counted.origin = Origins(Input, Chunk) /\ Counted.once = Once
       /\ Counted.full = Full /\ Counted.whole = Whole
  BY <1>4, <1>5, <1>6, <1>10
<1>13. PastOk(Counted)
  BY <1>5, <1>10 DEF PastOk
<1>14. CountOk(Counted)
  BY <1>7, <1>10, <1>11, <1>12 DEF CountOk
<1>15. OutFile \in DOMAIN Outputs /\ Counted.run = jobs /\ Counted.src = Chunk
  BY <1>4, <1>5, <1>10
<1> QED  BY <1>10, <1>11, <1>12, <1>13, <1>14, <1>15

\* The stage has written one more chunk, and every chunk up to it is counted.
LEMMA ChunksWritten ==
  ASSUME IInv, job # NoJob, job.phase = "update", OnlyFile(Counted)
  PROVE  LET new == disk'[job.level].files
         IN  /\ \A c \in 0 .. job.ch :
                  /\ PathOf(c) \in DOMAIN new /\ new[PathOf(c)].run = jobs
                  /\ new[PathOf(c)].src = ToSet(job.chunks[c + 1])
                  /\ new[PathOf(c)].origin = Origins(Input, ToSet(job.chunks[c + 1]))
                  /\ new[PathOf(c)].once = Once
                  /\ new[PathOf(c)].meta # NoMeta
             /\ \A p \in DOMAIN new : new[p].run = jobs => \E c \in 0 .. job.ch : p = PathOf(c)
<1> DEFINE new == disk'[job.level].files
<1>1. DiskInv /\ JobInv /\ OutputsInv
  BY DEF IInv
<1>2. job.ch \in Nat /\ job.chunks \in Seq(Seq(PathSet)) /\ job.ch + 1 \in DOMAIN job.chunks
  BY <1>1, JobFacts
<1>3. /\ OutFile \in DOMAIN Outputs
      /\ Counted.run = jobs /\ Counted.src = Chunk /\ Counted.meta # NoMeta
      /\ Counted.origin = Origins(Input, Chunk) /\ Counted.once = Once
  BY CountedFile
<1>4. /\ DOMAIN new = DOMAIN Outputs /\ new[OutFile] = Counted
      /\ \A p \in DOMAIN Outputs : p # OutFile => new[p] = Outputs[p]
  BY <1>3 DEF OnlyFile
<1>5. PathOf(job.ch) = OutFile
  BY DEF PathOf, OutFile
<1> HIDE DEF new
<1>6. ASSUME NEW c \in 0 .. job.ch
      PROVE  /\ PathOf(c) \in DOMAIN new /\ new[PathOf(c)].run = jobs
             /\ new[PathOf(c)].src = ToSet(job.chunks[c + 1])
             /\ new[PathOf(c)].origin = Origins(Input, ToSet(job.chunks[c + 1]))
             /\ new[PathOf(c)].once = Once
             /\ new[PathOf(c)].meta # NoMeta
  <2>1. CASE c = job.ch
    BY <2>1, <1>3, <1>4, <1>5 DEF Chunk
  <2>2. CASE c # job.ch
    <3>1. c < job.ch /\ HasWritten(c)
      BY <2>2, <1>2 DEF HasWritten
    <3>2. PathOf(c) # OutFile
      BY <3>1, <1>2 DEF PathOf, OutFile
    <3>3. /\ PathOf(c) \in DOMAIN Outputs /\ Outputs[PathOf(c)].run = jobs
          /\ Outputs[PathOf(c)].src = ToSet(job.chunks[c + 1])
          /\ Outputs[PathOf(c)].origin = Origins(Input, ToSet(job.chunks[c + 1]))
          /\ Outputs[PathOf(c)].once = Once
          /\ Outputs[PathOf(c)].meta # NoMeta
      BY <3>1, <1>1 DEF OutputsInv
    <3> QED  BY <3>2, <3>3, <1>4
  <2> QED  BY <2>1, <2>2
<1>7. ASSUME NEW p \in DOMAIN new, new[p].run = jobs  PROVE \E c \in 0 .. job.ch : p = PathOf(c)
  <2>1. CASE p = OutFile
    BY <2>1, <1>2, <1>5
  <2>2. CASE p # OutFile
    BY <2>2, <1>1, <1>4, <1>7 DEF OutputsInv
  <2> QED  BY <2>1, <2>2
<1> QED  BY <1>6, <1>7 DEF new

LEMMA UpdateStep == IInv /\ Update => IInv'
<1> SUFFICES ASSUME IInv, Update  PROVE IInv'
  OBVIOUS
<1>1. /\ job # NoJob /\ job.phase = "update" /\ Put(Counted) /\ AfterChunk
      /\ jobs' = jobs /\ final' = final
  BY DEF Update, Counted
<1>2. DiskInv /\ JobInv /\ OutputsInv /\ jobs \in Nat /\ jobs # 0 /\ CompleteInv
  BY <1>1 DEF IInv, JobInv
<1>3. /\ Counted \in Files /\ Counted.run = jobs
      /\ Counted.origin = Origins(Input, Chunk) /\ Counted.once = Once
      /\ PastOk(Counted) /\ CountOk(Counted)
  BY <1>1, CountedFile
<1>4. /\ OnlyFile(Counted) /\ jobs' \in 0 .. MaxJobs /\ DiskInv' /\ PastInv'
      /\ (\A l \in 0 .. Levels : OncePerRun(disk[l].files))'
      /\ PassedDownIsTruth'
      /\ (final.level \in 0 .. Levels /\ FinalCountsOnce)'
  BY <1>1, <1>3, PutKeeps
<1> DEFINE L   == job.level
           new == disk'[L].files
<1>5. /\ job \in Jobs /\ L \in 1 .. Levels /\ L - 1 \in 0 .. Levels /\ L - 1 # L
      /\ job.ch \in Nat /\ L \in 0 .. Levels /\ job.selected \in SUBSET PathSet
      /\ job.chunks \in Seq(Seq(PathSet)) /\ job.ch + 1 \in DOMAIN job.chunks
  BY <1>1, <1>2, JobFacts
<1>6. /\ \A c \in 0 .. job.ch :
           /\ PathOf(c) \in DOMAIN new /\ new[PathOf(c)].run = jobs
           /\ new[PathOf(c)].src = ToSet(job.chunks[c + 1])
           /\ new[PathOf(c)].origin = Origins(Input, ToSet(job.chunks[c + 1]))
           /\ new[PathOf(c)].once = Once
           /\ new[PathOf(c)].meta # NoMeta
      /\ \A p \in DOMAIN new : new[p].run = jobs => \E c \in 0 .. job.ch : p = PathOf(c)
  BY <1>1, <1>4, ChunksWritten
<1>8. CASE job.ch + 1 < Len(job.chunks)
  <2>1. job' = [job EXCEPT !.ch = @ + 1, !.phase = "rdf"] /\ complete' = complete
    BY <1>1, <1>8 DEF AfterChunk
  <2>2. /\ job' \in Jobs /\ job' # NoJob /\ job'.phase = "rdf" /\ job'.level = L
        /\ job'.selected = job.selected /\ job'.chunks = job.chunks /\ job'.ch = job.ch + 1
    <3>1. job' = [level |-> L, nevents |-> job.nevents, selected |-> job.selected,
                  chunks |-> job.chunks, ch |-> job.ch + 1, phase |-> "rdf"]
      BY <2>1, <1>5 DEF Jobs
    <3>2. job.nevents \in Int /\ job.ch + 1 \in Nat
      BY <1>5 DEF Jobs
    <3>3. job'.level # 0
      BY <3>1, <1>5
    <3> QED  BY <3>1, <3>2, <3>3, <1>5 DEF Jobs, NoJob
  <2>3. Input' = Input /\ disk'[L].dir = disk[L].dir
    BY <1>4, <1>5, <2>2 DEF OnlyFile, Input
  <2>4. JobInv'
    <3>1. JobInv
      BY <1>2
    <3> QED  BY <3>1, <1>1, <1>8, <2>1, <2>2, <2>3 DEF JobInv
  <2>5. \A c : PathOf(c)' = PathOf(c)
    BY <2>2 DEF PathOf
  <2>6. Outputs' = new
    BY <2>2 DEF Outputs
  <2>7. \A c \in 0 .. job'.ch : HasWritten(c)' <=> c \in 0 .. job.ch
    BY <1>5, <2>2 DEF HasWritten
  <2>8. 0 .. job.ch \subseteq 0 .. job'.ch
    BY <1>5, <2>2
  <2>9. OutputsInv'
    <3>1. Once' = Once
      BY <2>2, <2>3 DEF Once
    <3> HIDE DEF new
    <3> QED  BY <1>1, <1>6, <2>2, <2>3, <2>5, <2>6, <2>7, <2>8, <3>1 DEF OutputsInv
  <2>10. RerunReplaces'
    BY <1>1, <1>2, <1>4, <2>1, PutKeepsComplete DEF IInv
  <2>11. CompleteInv'
    BY <1>1, <1>2, <2>1 DEF CompleteInv
  <2> QED  BY <1>4, <2>4, <2>9, <2>10, <2>11 DEF IInv
<1>9. CASE ~(job.ch + 1 < Len(job.chunks))
  <2> DEFINE n   == Len(job.chunks)
             rec == [run |-> jobs, selected |-> job.selected, nchunks |-> n]
  <2>1. job' = NoJob /\ complete' = [complete EXCEPT ![L] = rec]
    BY <1>1, <1>9 DEF AfterChunk
  <2>2. n = job.ch + 1 /\ n \in Nat \ {0}
    BY <1>5, <1>9
  <2>3. /\ rec \in Completes /\ rec.run = jobs /\ rec.nchunks = n /\ rec.selected = job.selected
    BY <1>2, <1>5, <2>2 DEF Completes
  <2> HIDE DEF rec
  <2>4. complete' = [l \in 1 .. Levels |-> IF l = L THEN rec ELSE complete[l]]
    BY <1>2, <1>5, <2>1 DEF CompleteInv
  <2>5. CompleteInv'
    BY <1>1, <1>2, <2>3, <2>4 DEF CompleteInv
  <2>6. JobInv' /\ OutputsInv'
    BY <2>1, JobEndsStep
  <2>7. RerunReplaces'
    <3> SUFFICES ASSUME NEW l \in 1 .. Levels, complete'[l] # NoComplete
                 PROVE  LET files == disk'[l].files
                            comp  == complete'[l]
                            paths == PathsOf(comp)
                        IN  /\ paths \subseteq DOMAIN files
                            /\ \A p \in paths : /\ files[p].run = comp.run
                                                /\ files[p].meta # NoMeta
                                                /\ files[p].src # {}
                            /\ \A p, q \in paths : p # q => files[p].src \cap files[q].src = {}
                            /\ UNION {files[p].src : p \in paths} = comp.selected
                            /\ \A p \in DOMAIN files \ paths : files[p].run < comp.run
      BY DEF RerunReplaces
    <3>1. CASE l # L
      <4>1. complete'[l] = complete[l] /\ disk'[l] = disk[l]
        BY <3>1, <1>4, <2>4 DEF OnlyFile
      <4> QED  BY <4>1 DEF IInv, RerunReplaces
    <3>2. CASE l = L
      <4> DEFINE paths == IF n > 1 THEN 0 .. n - 1 ELSE {Single}
      <4>1. complete'[l] = rec /\ disk'[l].files = new
        BY <3>2, <2>4
      <4>2. paths = {PathOf(c) : c \in 0 .. job.ch}
        <5>1. 0 .. n - 1 = 0 .. job.ch
          BY <2>2, <1>5
        <5>2. CASE n > 1
          BY <5>1, <5>2 DEF PathOf
        <5>3. CASE ~(n > 1)
          <6>1. job.ch = 0
            BY <5>3, <2>2, <1>5
          <6> QED  BY <6>1, <5>3 DEF PathOf
        <5> QED  BY <5>2, <5>3
      <4> HIDE DEF paths, new
      <4>3. ASSUME NEW c \in 0 .. job.ch
            PROVE  /\ c + 1 \in DOMAIN job.chunks /\ ToSet(job.chunks[c + 1]) # {}
        <5>1. c + 1 \in DOMAIN job.chunks
          BY <1>5, <2>2
        <5> QED  BY <5>1, <1>1, <1>2 DEF JobInv, IsPartition
      <4>4. ASSUME NEW c \in 0 .. job.ch, NEW d \in 0 .. job.ch, c # d
            PROVE  ToSet(job.chunks[c + 1]) \cap ToSet(job.chunks[d + 1]) = {}
        <5>1. c + 1 # d + 1
          BY <4>4, <1>5
        <5> QED  BY <5>1, <4>3, <1>1, <1>2 DEF JobInv, IsPartition
      <4>5. UNION {new[p].src : p \in paths} = job.selected
        <5>1. job.selected = UNION {ToSet(job.chunks[k]) : k \in DOMAIN job.chunks}
          BY <1>1, <1>2 DEF JobInv, IsPartition
        <5>2. DOMAIN job.chunks = {c + 1 : c \in 0 .. job.ch}
          <6>1. DOMAIN job.chunks = 1 .. job.ch + 1
            BY <1>5, <2>2
          <6>2. \A k \in 1 .. job.ch + 1 : k - 1 \in 0 .. job.ch /\ k = (k - 1) + 1
            BY <1>5
          <6>3. \A c \in 0 .. job.ch : c + 1 \in 1 .. job.ch + 1
            BY <1>5
          <6> QED  BY <6>1, <6>2, <6>3
        <5>3. \A c \in 0 .. job.ch : new[PathOf(c)].src = ToSet(job.chunks[c + 1])
          BY <1>6 DEF new
        <5> QED  BY <5>1, <5>2, <5>3, <4>2
      <4>6. \A p, q \in paths : p # q => new[p].src \cap new[q].src = {}
        BY <4>2, <4>4, <1>6 DEF new
      <4>7. \A p \in paths : /\ p \in DOMAIN new /\ new[p].run = jobs
                             /\ new[p].meta # NoMeta /\ new[p].src # {}
        BY <4>2, <4>3, <1>6 DEF new
      <4>8. /\ complete'[l].run = jobs /\ complete'[l].selected = job.selected
            /\ complete'[l].nchunks = n
        BY <4>1, <2>3
      <4>9. PathsOf(complete'[l]) = paths
        BY <4>8 DEF paths, PathsOf
      <4>9a. ASSUME NEW p \in DOMAIN new \ paths  PROVE new[p].run < jobs
        <5>1. new[p].run # jobs
          BY <4>2, <1>6 DEF new
        <5>2. IsStore(disk[l], l)'
          BY <1>4, <1>5, <3>2 DEF DiskInv
        <5>3. new[p] \in Files /\ new[p].run <= jobs
          BY <5>2, <4>1, <1>1 DEF IsStore
        <5>4. new[p].run \in Nat
          BY <5>3, FieldsOfFile
        <5> QED  BY <5>1, <5>3, <5>4, <1>2
      <4>10. /\ paths \subseteq DOMAIN new
             /\ \A p \in paths : /\ new[p].run = complete'[l].run
                                 /\ new[p].meta # NoMeta
                                 /\ new[p].src # {}
             /\ \A p, q \in paths : p # q => new[p].src \cap new[q].src = {}
             /\ UNION {new[p].src : p \in paths} = complete'[l].selected
             /\ \A p \in DOMAIN new \ paths : new[p].run < complete'[l].run
        BY <4>5, <4>6, <4>7, <4>8, <4>9a
      <4> QED  BY <4>1, <4>9, <4>10
    <3> QED  BY <3>1, <3>2
  <2> QED  BY <1>4, <2>5, <2>6, <2>7 DEF IInv
<1> QED  BY <1>8, <1>9

\* The command that starts a stage.
StartedJob(l, script, sub) ==
  [level |-> l, nevents |-> script.nevents, selected |-> ToSet(sub),
   chunks |-> ChunkList(sub, script.chunks), ch |-> 0, phase |-> "rdf"]

LEMMA FilesListed ==
  ASSUME NEW s, NEW l, IsStore(s, l), jobs \in Nat
  PROVE  /\ FileList(s) \subseteq DOMAIN s.files /\ FileList(s) \subseteq PathSet
         /\ IsFiniteSet(FileList(s))
<1>1. FileList(s) \subseteq DOMAIN s.files
  BY DEF FileList, HasFile
<1> QED  BY <1>1, FS_Subset DEF IsStore

LEMMA RunStagesStep ==
  ASSUME IInv, NEW l \in 1 .. Levels, NEW script \in Scripts, RunStages(l, script)
  PROVE  IInv'
<1> DEFINE s == disk[l - 1]
<1>1. /\ job = NoJob /\ jobs < MaxJobs /\ jobs' = jobs + 1 /\ final' = NoFinal
      /\ complete' = [complete EXCEPT ![l] = NoComplete]
      /\ disk' = [disk EXCEPT ![l].dir = @ \/ script.chunks > 1]
  BY DEF RunStages
<1>2. PICK list \in SetToSeqs(FileList(s)) :
        /\ SubFileList(s, list, script.fraction) # << >>
        /\ job' = StartedJob(l, script, SubFileList(s, list, script.fraction))
  BY DEF RunStages, StartedJob
<1> DEFINE sub == SubFileList(s, list, script.fraction)
           cs  == ChunkList(sub, script.chunks)
<1>3. DiskInv /\ CompleteInv /\ jobs \in Nat /\ jobs' \in Nat /\ jobs' \in 0 .. MaxJobs /\ jobs < jobs'
  BY <1>1, LevelsAssumption DEF IInv
<1>4. l - 1 \in 0 .. Levels /\ l \in 0 .. Levels /\ l - 1 # l
  BY LevelsAssumption
<1>5. IsStore(s, l - 1)
  BY <1>3, <1>4 DEF DiskInv
<1>6. /\ FileList(s) \subseteq DOMAIN s.files /\ FileList(s) \subseteq PathSet
      /\ IsFiniteSet(FileList(s))
  BY <1>3, <1>5, FilesListed
<1>7. list \in Seq(FileList(s)) /\ Distinct(list) /\ ToSet(list) = FileList(s)
  BY <1>6, ListOfSet
<1>8. list \in Seq(PathSet) /\ \A p \in ToSet(list) : s.files[p] \in Files
  BY <1>5, <1>6, <1>7 DEF IsStore
<1>9. /\ script.fraction \in Nat \X (Nat \ {0}) /\ script.chunks \in Nat \ {0}
      /\ script.nevents \in Int
  BY ScriptAssumption
<1> HIDE DEF s
<1>10. sub \in Seq(PathSet) /\ Distinct(sub) /\ ToSet(sub) \subseteq ToSet(list)
  BY <1>7, <1>8, <1>9, SubFilesOfList
<1>11. sub # << >>
  BY <1>2
<1> HIDE DEF sub
<1>12. cs \in Seq(Seq(PathSet)) /\ Len(cs) \in 1 .. script.chunks /\ IsPartition(cs, ToSet(sub))
  BY <1>9, <1>10, <1>11, ChunksPartition
<1> HIDE DEF cs
<1>13. /\ job' = [level |-> l, nevents |-> script.nevents, selected |-> ToSet(sub),
                  chunks |-> cs, ch |-> 0, phase |-> "rdf"]
       /\ job' \in Jobs /\ job' # NoJob
  <2>1. job' = [level |-> l, nevents |-> script.nevents, selected |-> ToSet(sub),
                chunks |-> cs, ch |-> 0, phase |-> "rdf"]
    BY <1>2 DEF StartedJob, sub, cs
  <2>2. ToSet(sub) \in SUBSET PathSet
    BY <1>6, <1>7, <1>10
  <2>3. job'.level # 0
    BY <2>1
  <2> QED  BY <2>1, <2>2, <2>3, <1>9, <1>12 DEF Jobs, NoJob
<1>14. /\ disk' = [m \in 0 .. Levels |-> disk'[m]]
       /\ \A m \in 0 .. Levels : m # l => disk'[m] = disk[m]
       /\ disk'[l] = [dir |-> disk[l].dir \/ script.chunks > 1, files |-> disk[l].files]
  <2>1. disk[l] = [dir |-> disk[l].dir, files |-> disk[l].files]
    BY <1>3 DEF DiskInv
  <2>2. disk = [m \in 0 .. Levels |-> disk[m]]
    BY <1>3 DEF DiskInv
  <2>3. disk' = [disk EXCEPT ![l] = [disk[l] EXCEPT !.dir = disk[l].dir \/ script.chunks > 1]]
    BY <1>1
  <2>4. [disk[l] EXCEPT !.dir = disk[l].dir \/ script.chunks > 1]
          = [dir |-> disk[l].dir \/ script.chunks > 1, files |-> disk[l].files]
    BY <2>1
  <2> QED  BY <2>2, <2>3, <2>4, <1>4
<1> DEFINE d == disk[l].dir \/ script.chunks > 1
<1>14a. d \in BOOLEAN /\ (disk[l].dir => d) /\ (script.chunks > 1 => d)
  OBVIOUS
<1>14b. disk'[l] = [dir |-> d, files |-> disk[l].files]
  BY <1>14
<1> HIDE DEF d
<1>14c. disk'[l].dir = d /\ disk'[l].files = disk[l].files
  BY <1>14b
<1>15. \A m \in 0 .. Levels : disk'[m].files = disk[m].files
  BY <1>14, <1>14c
<1>16. DiskInv'
  <2>1. ASSUME NEW m \in 0 .. Levels  PROVE IsStore(disk[m], m)'
    <3>1. IsStore(disk[m], m)
      BY <1>3 DEF DiskInv
    <3>2. /\ disk[m].dir => disk'[m].dir
          /\ disk'[m].dir \in BOOLEAN
          /\ disk'[m].files = disk[m].files
      <4>1. CASE m = l
        BY <4>1, <1>14a, <1>14c
      <4>2. CASE m # l
        BY <4>2, <1>14, <3>1 DEF IsStore
      <4> QED  BY <4>1, <4>2
    <3>3. \A p \in DOMAIN disk[m].files : disk[m].files[p] \in Files => disk[m].files[p].run \in Nat
      BY FieldsOfFile
    <3>4. ASSUME NEW p \in DOMAIN disk'[m].files
          PROVE  /\ p \in PathSet /\ (p # Single => disk'[m].dir)
                 /\ disk'[m].files[p] \in Files /\ disk'[m].files[p].run <= jobs'
                 /\ disk'[m].files[p].run = 0 <=> m = 0
                 /\ m = 0 => /\ disk'[m].files[p].meta = NoMeta
                             /\ disk'[m].files[p].origin = {p}
      <4>1. p \in DOMAIN disk[m].files /\ disk'[m].files[p] = disk[m].files[p]
        BY <3>2
      <4>2. disk[m].files[p] \in Files /\ disk[m].files[p].run <= jobs
        BY <4>1, <3>1 DEF IsStore
      <4>3. disk[m].files[p].run <= jobs'
        BY <4>1, <4>2, <3>3, <1>3
      <4> QED  BY <4>1, <4>2, <4>3, <3>1, <3>2 DEF IsStore
    <3>5. IsFiniteSet(DOMAIN disk'[m].files)
      BY <3>1, <3>2 DEF IsStore
    <3> QED  BY <3>2, <3>4, <3>5 DEF IsStore
  <2>2. \A m \in 1 .. Levels : disk'[m] = [dir |-> disk'[m].dir, files |-> disk'[m].files]
    <3>1. \A m \in 1 .. Levels : m \in 0 .. Levels
      OBVIOUS
    <3> QED  BY <3>1, <1>3, <1>14 DEF DiskInv
  <2> QED  BY <1>14, <2>1, <2>2 DEF DiskInv
<1>17. (\A m \in 0 .. Levels : OncePerRun(disk[m].files))'
  BY <1>15 DEF IInv
<1>18. PassedDownIsTruth' /\ PastInv'
  <2>1. /\ \A m \in 1 .. Levels : disk'[m].files = disk[m].files
        /\ disk'[0] = disk[0]
    BY <1>14, <1>15, LevelsAssumption
  <2>2. PassedDownIsTruth /\ PastInv
    BY DEF IInv
  <2>3. PassedDownIsTruth'
    BY <2>1, <2>2 DEF PassedDownIsTruth, EventsBehind
  <2>4. PastInv'
    BY <2>1, <2>2, <1>15 DEF PastInv, PastOk, EventsBehind
  <2> QED  BY <2>3, <2>4
<1>19. complete' = [m \in 1 .. Levels |-> IF m = l THEN NoComplete ELSE complete[m]]
  BY <1>1, <1>3 DEF CompleteInv
<1>20. CompleteInv'
  <2>1. \A c \in Completes : c.run \in Nat
    BY DEF Completes
  <2> QED  BY <2>1, <1>3, <1>19 DEF CompleteInv
<1>21. RerunReplaces'
  <2> SUFFICES ASSUME NEW m \in 1 .. Levels, complete'[m] # NoComplete
               PROVE  complete'[m] = complete[m] /\ disk'[m].files = disk[m].files
    BY DEF IInv, RerunReplaces
  <2> QED  BY <1>15, <1>19
<1>22. JobInv'
  <2>1. Input' = disk[l - 1].files
    BY <1>4, <1>13, <1>15 DEF Input
  <2>2. job'.selected \subseteq DOMAIN Input'
    BY <2>1, <1>6, <1>7, <1>10, <1>13 DEF s
  <2>3. Len(cs) > 1 => disk'[l].dir
    <3>1. Len(cs) > 1 => script.chunks > 1
      BY <1>9, <1>12
    <3> QED  BY <3>1, <1>14a, <1>14c
  <2>4. complete'[l] = NoComplete
    BY <1>19
  <2>5. 0 < Len(cs) /\ jobs' # 0
    BY <1>12, <1>3, <1>1
  <2> QED  BY <2>2, <2>3, <2>4, <2>5, <1>12, <1>13 DEF JobInv
<1>23. OutputsInv'
  <2>1. Outputs' = disk[l].files
    BY <1>4, <1>13, <1>15 DEF Outputs
  <2>2. ASSUME NEW p \in DOMAIN Outputs'  PROVE Outputs'[p].run # jobs'
    <3>1. IsStore(disk[l], l)
      BY <1>3, <1>4 DEF DiskInv
    <3>2. disk[l].files[p] \in Files /\ disk[l].files[p].run <= jobs
      BY <2>1, <3>1 DEF IsStore
    <3>3. disk[l].files[p].run \in Nat
      BY <3>2, FieldsOfFile
    <3> QED  BY <2>1, <3>2, <3>3, <1>3
  <2>3. \A c \in 0 .. job'.ch : ~ HasWritten(c)'
    BY <1>13 DEF HasWritten
  <2> QED  BY <2>2, <2>3, <1>13 DEF OutputsInv
<1>24. (final.level \in 0 .. Levels /\ FinalCountsOnce)'
  BY <1>1, LevelsAssumption DEF NoFinal, FinalCountsOnce
<1> QED  BY <1>3, <1>16, <1>17, <1>18, <1>20, <1>21, <1>22, <1>23, <1>24 DEF IInv

(* The files after the last one without a count are added up: all of them, *)
(* if each has its count.                                                  *)
LEMMA CountedPart ==
  ASSUME NEW files, NEW S, IsFiniteSet(S), NEW order \in SetToSeqs(S),
         \A p \in S : files[p] \in Files
  PROVE  \E T \in SUBSET S :
           /\ \A p \in T : files[p].meta # NoMeta
           /\ IF \A p \in S : files[p].meta # NoMeta
              THEN T = S /\ ProcessEvents(files, order) = Total(files, "meta", T)
              ELSE ProcessEvents(files, order) = 1 + Total(files, "meta", T)
<1> DEFINE metas   == [i \in DOMAIN order |-> files[order[i]].meta]
           missing == {i \in DOMAIN order : metas[i] = NoMeta}
           last    == IF missing = {} THEN 0 ELSE Max(missing)
           after   == {i \in DOMAIN order : i > last}
           T       == {order[i] : i \in after}
           values  == [p \in T |-> files[p]["meta"]]
<1>1. order \in Seq(S) /\ Distinct(order) /\ ToSet(order) = S
  BY ListOfSet
<1>2. DOMAIN order = 1 .. Len(order) /\ Len(order) \in Nat /\ IsFiniteSet(DOMAIN order)
  <2>1. DOMAIN order = 1 .. Len(order) /\ Len(order) \in Nat
    BY <1>1
  <2> QED  BY <2>1, FS_Interval
<1>3. \A i \in DOMAIN order : order[i] \in S
  BY <1>1
<1>4. missing = {} <=> \A p \in S : files[p].meta # NoMeta
  BY <1>1 DEF ToSet
<1>5. \A i \in DOMAIN order : metas[i] = files[order[i]].meta /\ metas[i] = files[order[i]]["meta"]
  BY <1>3, FieldsOfFile
<1> HIDE DEF metas
<1>6. ASSUME NEW i \in after  PROVE metas[i] # NoMeta
  <2>1. CASE missing = {}
    BY <2>1
  <2>2. CASE missing # {}
    <3>1. missing \in SUBSET (1 .. Len(order))
      BY <1>2
    <3> HIDE DEF missing
    <3>2. Max(missing) \in missing /\ \A j \in missing : j <= Max(missing)
      BY <1>2, <2>2, <3>1, GreatestExists
    <3>3. Max(missing) \in Int /\ i \in Int /\ i > Max(missing)
      <4>1. i \in 1 .. Len(order) /\ i > last /\ last = Max(missing)
        BY <1>2, <2>2
      <4>2. Max(missing) \in 1 .. Len(order)
        BY <3>1, <3>2
      <4> HIDE DEF last
      <4> QED  BY <1>2, <4>1, <4>2
    <3>4. i \notin missing
      BY <3>2, <3>3
    <3> QED  BY <3>4 DEF missing
  <2> QED  BY <2>1, <2>2
<1>7. IsFiniteSet(after) /\ after \subseteq DOMAIN order
  BY <1>2, FS_Subset
<1>8. \A i \in after : metas[i] \in Nat /\ order[i] \in S /\ files[order[i]].meta # NoMeta
  BY <1>3, <1>5, <1>6, <1>7, FieldsOfFile
<1>9. T \in SUBSET S /\ \A p \in T : files[p].meta # NoMeta
  BY <1>8
<1>10. Renames(order, after, T, metas, values)
  <2>1. \A i, j \in after : order[i] = order[j] => i = j
    BY <1>1, <1>7 DEF Distinct
  <2>2. \A i \in after : values[order[i]] = metas[i]
    BY <1>5, <1>7
  <2> QED  BY <2>1, <2>2 DEF Renames
<1>11. ProcessEvents(files, order)
         = (IF missing = {} THEN 0 ELSE 1) + SumFunctionOnSet(metas, after)
  BY DEF ProcessEvents, metas
<1>12. missing = {} => T = S
  <2>1. missing = {} => after = DOMAIN order
    BY <1>2
  <2> QED  BY <2>1, <1>1 DEF ToSet
<1>13. Total(files, "meta", T) = Sum(values, T)
  BY DEF Total, Sum
<1> HIDE DEF missing, last, after, T, values
<1>14. Sum(metas, after) \in Nat /\ IntegersOn(metas, after)
  BY <1>7, <1>8, SumIsNat
<1>15. Sum(values, T) = Sum(metas, after)
  BY <1>7, <1>10, <1>14, SumReindex
<1>16. ProcessEvents(files, order) = (IF missing = {} THEN 0 ELSE 1) + Total(files, "meta", T)
  BY <1>11, <1>13, <1>15 DEF Sum
<1>17. Total(files, "meta", T) \in Nat
  BY <1>13, <1>14, <1>15
<1>18. CASE missing = {}
  <2>1. ProcessEvents(files, order) = Total(files, "meta", T)
    BY <1>16, <1>17, <1>18
  <2> QED  BY <2>1, <1>4, <1>9, <1>12, <1>18
<1>19. CASE missing # {}
  <2>1. ProcessEvents(files, order) = 1 + Total(files, "meta", T)
    BY <1>16, <1>17, <1>19
  <2> QED  BY <2>1, <1>4, <1>9, <1>19
<1> QED  BY <1>18, <1>19

LEMMA RunFinalStep ==
  ASSUME IInv, NEW l \in 1 .. Levels, RunFinal(l)
  PROVE  IInv'
<1> DEFINE files  == disk[l].files
           read   == FilesRead(disk[l])
           behind == EventsBehind(Origins(files, read))
<1>1. job = NoJob /\ UNCHANGED <<disk, job, jobs, complete>>
  BY DEF RunFinal
<1>2. PICK order \in SetToSeqs(read) :
        final' = [level |-> l, files |-> Restrict(files, read),
                  processEvents |-> ProcessEvents(files, order),
                  eventsTTree |-> Total(files, "entries", read)]
  BY DEF RunFinal
<1>3. /\ IsStore(disk[l], l) /\ OncePerRun(files)
      /\ \A p \in DOMAIN files : PastOk(files[p]) /\ CountOk(files[p])
      /\ IsStore(disk[0], 0)
  <2>1. l \in 0 .. Levels
    BY LevelsAssumption
  <2>2. DiskInv
    BY DEF IInv
  <2> QED  BY <2>1, <2>2, DiskFacts DEF IInv, PastInv, PassedDownIsTruth, CountOk
<1>4. /\ read \subseteq DOMAIN files /\ IsFiniteSet(read)
      /\ \A p \in read : files[p] \in Files
  <2>1. read \subseteq DOMAIN files
    BY DEF FilesRead
  <2> QED  BY <2>1, <1>3, FS_Subset DEF IsStore
<1> HIDE DEF read
<1>5. /\ final'.level = l /\ DOMAIN final'.files = read
      /\ \A p \in read : final'.files[p] = files[p]
      /\ final'.processEvents = ProcessEvents(files, order)
      /\ final'.eventsTTree = Total(files, "entries", read)
  BY <1>2 DEF Restrict
<1>6. ASSUME NEW p \in read, NEW q \in read, p # q, files[p].run = files[q].run, files[p].once
      PROVE  files[p].origin \cap files[q].origin = {}
  BY <1>3, <1>4, <1>6 DEF OncePerRun
<1>7. PICK T \in SUBSET read :
        /\ \A p \in T : files[p].meta # NoMeta
        /\ IF \A p \in read : files[p].meta # NoMeta
           THEN T = read /\ final'.processEvents = Total(files, "meta", T)
           ELSE final'.processEvents = 1 + Total(files, "meta", T)
  BY <1>4, <1>5, CountedPart
<1>8. IsFiniteSet(T) /\ \A p \in T :
        /\ files[p]["meta"] \in Nat /\ files[p]["meta"] = files[p].meta
        /\ files[p]["entries"] \in Nat /\ files[p]["entries"] = files[p].entries
        /\ files[p].meta >= files[p].entries
        /\ files[p].origin \in SUBSET DOMAIN disk[0].files
        /\ files[p].once /\ files[p].full  => files[p].meta <= EventsBehind(files[p].origin)
        /\ files[p].once /\ files[p].whole => files[p].meta = EventsBehind(files[p].origin)
  <2>1. IsFiniteSet(T)
    BY <1>4, FS_Subset
  <2>2. ASSUME NEW p \in T
        PROVE  /\ files[p]["meta"] \in Nat /\ files[p]["meta"] = files[p].meta
               /\ files[p]["entries"] \in Nat /\ files[p]["entries"] = files[p].entries
               /\ p \in DOMAIN files
    BY <1>4, <1>7, FieldsOfFile
  <2> HIDE DEF files
  <2> QED  BY <2>1, <2>2, <1>3, <1>7 DEF CountOk, PastOk
<1>9. Total(files, "meta", T) \in Nat
  BY <1>8, TotalIsNat
<1>10. ASSUME \A p \in read : files[p].meta # NoMeta
       PROVE  final'.processEvents >= final'.eventsTTree
  <2>1. T = read /\ final'.processEvents = Total(files, "meta", T)
    BY <1>7, <1>10
  <2>2. \A p \in T : files[p]["entries"] <= files[p]["meta"]
    BY <1>8
  <2>3. Total(files, "entries", T) <= Total(files, "meta", T)
    BY <1>8, <2>2, TotalAtMost
  <2>4. Total(files, "entries", T) \in Nat
    BY <1>8, TotalIsNat
  <2> QED  BY <1>5, <1>9, <2>1, <2>3, <2>4
<1>11. Origins(files, read) \in SUBSET DOMAIN disk[0].files /\ behind \in Nat
  <2>1. Origins(files, read) \in SUBSET DOMAIN disk[0].files
    BY <1>3, <1>4 DEF Origins, PastOk
  <2> QED  BY <2>1, <1>3, EventsAreNat
<1>12. ASSUME Apart(files, read), \A p \in read : files[p].once
       PROVE  /\ Apart(files, T) /\ (\A p \in T : files[p].once)
              /\ EventsBehind(Origins(files, T)) \in Nat
              /\ EventsBehind(Origins(files, T)) <= behind
  <2>1. Apart(files, T) /\ Origins(files, T) \subseteq Origins(files, read)
    BY <1>7, <1>12, ApartPart
  <2>2. EventsBehind(Origins(files, T)) <= behind
    BY <1>3, <1>11, <2>1, EventsAtMost
  <2>3. EventsBehind(Origins(files, T)) \in Nat
    BY <1>3, <1>11, <2>1, EventsAreNat
  <2>4. \A p \in T : files[p].once
    BY <1>7, <1>12
  <2> QED  BY <2>1, <2>2, <2>3, <2>4
<1> HIDE DEF behind
<1>13. ASSUME Apart(files, read), \A p \in read : files[p].once,
              \A p \in read : files[p].meta # NoMeta, \A p \in read : files[p].whole
       PROVE  final'.processEvents = behind
  <2>1. T = read /\ final'.processEvents = Total(files, "meta", T)
    BY <1>7, <1>13
  <2>2. \A p \in T : files[p]["meta"] = EventsBehind(files[p].origin)
    BY <1>8, <1>13, <2>1
  <2>3. \A p \in T : files[p]["meta"] <= EventsBehind(files[p].origin)
    BY <1>8, <2>2
  <2>4. Total(files, "meta", T) = EventsBehind(Origins(files, T))
    BY <1>3, <1>8, <1>12, <1>13, <2>2, <2>3, TotalsBehind
  <2> QED  BY <2>1, <2>4 DEF behind
<1>14. ASSUME Apart(files, read), \A p \in read : files[p].once, \A p \in read : files[p].full
       PROVE  final'.processEvents
                <= behind + IF \A p \in read : files[p].meta # NoMeta THEN 0 ELSE 1
  <2>1. \A p \in T : files[p].full
    BY <1>7, <1>14
  <2>2. \A p \in T : files[p]["meta"] <= EventsBehind(files[p].origin)
    BY <1>8, <1>12, <1>14, <2>1
  <2>3. Total(files, "meta", T) <= EventsBehind(Origins(files, T))
    BY <1>3, <1>8, <1>12, <1>14, <2>2, TotalsBehind
  <2>4. Total(files, "meta", T) <= behind
    BY <1>9, <1>11, <1>12, <1>14, <2>3
  <2>5. CASE \A p \in read : files[p].meta # NoMeta
    <3>1. final'.processEvents = Total(files, "meta", T)
      BY <1>7, <2>5
    <3> QED  BY <3>1, <2>4, <2>5, <1>9, <1>11
  <2>6. CASE ~ \A p \in read : files[p].meta # NoMeta
    <3>1. final'.processEvents = 1 + Total(files, "meta", T)
      BY <1>7, <2>6
    <3> QED  BY <3>1, <2>4, <2>6, <1>9, <1>11
  <2> QED  BY <2>5, <2>6
<1>15. FinalCountsOnce'
  <2> DEFINE now == final'.files
  <2>1. /\ Origins(now, read) = Origins(files, read)
        /\ Apart(now, read) <=> Apart(files, read)
    BY <1>5 DEF Origins, Apart
  <2>2. Total(disk'[0].files, "entries", Origins(now, read)) = behind
    BY <1>1, <2>1 DEF EventsBehind, behind
  <2> DEFINE counted == \A p \in read : now[p].meta # NoMeta
             clean   == Apart(now, read) /\ \A p \in read : now[p].once
  <2>3. counted => final'.processEvents >= final'.eventsTTree
    BY <1>5, <1>10
  <2>4. clean /\ counted /\ (\A p \in read : now[p].whole) => final'.processEvents = behind
    BY <1>5, <1>13, <2>1
  <2>5. clean /\ (\A p \in read : now[p].full) =>
          final'.processEvents <= behind + IF counted THEN 0 ELSE 1
    <3>1. counted <=> \A p \in read : files[p].meta # NoMeta
      BY <1>5
    <3>2. clean /\ (\A p \in read : now[p].full) =>
            Apart(files, read) /\ (\A p \in read : files[p].once) /\ \A p \in read : files[p].full
      BY <1>5, <2>1
    <3> HIDE DEF counted, clean, now, files
    <3> QED  BY <3>1, <3>2, <1>14
  <2>6. \A p, q \in read : p # q /\ now[p].run = now[q].run /\ now[p].once =>
          now[p].origin \cap now[q].origin = {}
    BY <1>5, <1>6
  <2>7. DOMAIN now = read
    BY <1>5
  <2> HIDE DEF now, files
  <2> QED  BY <2>2, <2>3, <2>4, <2>5, <2>6, <2>7 DEF FinalCountsOnce, EventsBehind, now
<1>16. final'.level \in 0 .. Levels
  BY <1>5, LevelsAssumption
<1>17. /\ DiskInv' /\ PastInv' /\ (\A m \in 0 .. Levels : OncePerRun(disk[m].files))'
       /\ PassedDownIsTruth' /\ RerunReplaces' /\ CompleteInv' /\ jobs' \in 0 .. MaxJobs
  BY <1>1, StoredStays
<1>18. JobInv' /\ OutputsInv'
  BY <1>1, JobEndsStep
<1> QED  BY <1>15, <1>16, <1>17, <1>18 DEF IInv

LEMMA Stutter == IInv /\ UNCHANGED vars => IInv'
<1> SUFFICES ASSUME IInv, UNCHANGED vars  PROVE IInv'
  OBVIOUS
<1>1. UNCHANGED <<disk, job, jobs, complete, final>>
  BY DEF vars
<1>2. /\ DiskInv' /\ PastInv' /\ (\A m \in 0 .. Levels : OncePerRun(disk[m].files))'
      /\ PassedDownIsTruth' /\ RerunReplaces' /\ CompleteInv' /\ jobs' \in 0 .. MaxJobs
  BY <1>1, StoredStays
<1>3. JobInv'
  BY <1>1 DEF IInv, JobInv, Input
<1>4. OutputsInv'
  <2>1. /\ Outputs' = Outputs /\ Output' = Output /\ Limit' = Limit
        /\ Input' = Input /\ Once' = Once /\ Full' = Full /\ Whole' = Whole
        /\ \A c : (PathOf(c)' = PathOf(c)) /\ (HasWritten(c)' <=> HasWritten(c))
    BY <1>1
    DEF Outputs, Output, OutFile, Limit, Available, Once, Full, Whole, Input, Chunk, PathOf,
        HasWritten
  <2>2. OutputsInv
    BY DEF IInv
  <2> QED  BY <1>1, <2>1, <2>2 DEF OutputsInv
<1>5. (final.level \in 0 .. Levels /\ FinalCountsOnce)'
  BY <1>1, FinalStays DEF IInv
<1> QED  BY <1>2, <1>3, <1>4, <1>5 DEF IInv

(* The inductive invariant: the files of the running stage are those of    *)
(* its chunks, made from disjoint parts of the input; every file knows the *)
(* original files behind it and has no more entries than these have        *)
(* events, if none came in twice; and what a count, a finished stage or    *)
(* the final step promises was true when it was made and is not disturbed. *)
THEOREM Invariance == Spec => []IInv
<1>1. IInv /\ [Next]_vars => IInv'
  <2> SUFFICES ASSUME IInv, [Next]_vars  PROVE IInv'
    OBVIOUS
  <2>1. CASE \E l \in 1 .. Levels : \E script \in Scripts : RunStages(l, script)
    BY <2>1, RunStagesStep
  <2>2. CASE \E l \in 1 .. Levels : RunFinal(l)
    BY <2>2, RunFinalStep
  <2>3. CASE RunRDF
    BY <2>3, RunRDFStep
  <2>4. CASE RunRDFEnds
    BY <2>4, RunRDFEndsStep
  <2>5. CASE Update
    BY <2>5, UpdateStep
  <2>6. CASE UpdateEnds
    BY <2>6, UpdateEndsStep
  <2>7. CASE UNCHANGED vars
    BY <2>7, Stutter
  <2> QED  BY <2>1, <2>2, <2>3, <2>4, <2>5, <2>6, <2>7 DEF Next
<1> QED  BY InitIsGood, <1>1, PTL DEF Spec

-----------------------------------------------------------------------------
(* The number of events that a stage records is that of the original files *)
(* behind its file, whatever the stages before it kept of the events, if   *)
(* no original file came in twice, --nevents cut no stage short and no     *)
(* input had lost its count; with lost counts it is not larger             *)
(* (ana_run.py:225-263).                                                   *)
THEOREM CountsArePassedDown == Spec => []PassedDownIsTruth
<1>1. IInv => PassedDownIsTruth
  BY DEF IInv
<1> QED  BY <1>1, Invariance, PTL

(* The files of a stage that ended well are all there, each with its       *)
(* count, and divide the files it selected without loss or overlap.  Any   *)
(* other file of its directory was left by an earlier run: the stage       *)
(* removes none (ana_run.py:149-165 and 363-368).                          *)
THEOREM FinishedStagesAreWhole == Spec => []RerunReplaces
<1>1. IInv => RerunReplaces
  BY DEF IInv
<1> QED  BY <1>1, Invariance, PTL

(* The number of processed events that the final step prints, whatever     *)
(* files it finds and in which order it reads them.  It is the number of   *)
(* events in the original files behind them, if no original file is behind *)
(* two of them or came in twice before, no stage was cut short and all     *)
(* counts are there; if counts were lost, it is at most one larger.  Two   *)
(* files share an original file only if different runs left them or their  *)
(* stage had it twice in its input (ana_run.py:410-463).                   *)
THEOREM FinalCountHolds == Spec => []FinalCountsOnce
<1>1. IInv => FinalCountsOnce
  BY DEF IInv
<1> QED  BY <1>1, Invariance, PTL

\* Types of the files, the running stage, the finished ones and the result.
THEOREM TypeCorrect == Spec => []TypeOK
<1>1. IInv => TypeOK
  <2> SUFFICES ASSUME IInv  PROVE TypeOK
    OBVIOUS
  <2>1. jobs \in 0 .. MaxJobs /\ DiskInv /\ JobInv /\ CompleteInv
    BY DEF IInv
  <2>2. ASSUME NEW l \in 0 .. Levels, NEW p \in DOMAIN disk[l].files
        PROVE  /\ p \in Nat \cup {Single} /\ (p # Single => disk[l].dir)
               /\ IsFileRecord(disk[l].files[p])
    <3>1. /\ p \in PathSet /\ (p # Single => disk[l].dir)
          /\ disk[l].files[p] \in Files /\ disk[l].files[p].run <= jobs
      BY <2>1 DEF DiskInv, IsStore
    <3>2. PathSet \subseteq Int
      BY NoMetaIsNot DEF PathSet
    <3>3. disk[l].files[p].run \in 0 .. jobs
      BY <3>1, <2>1, FieldsOfFile, LevelsAssumption
    <3>4. /\ disk[l].files[p].src \subseteq Paths /\ disk[l].files[p].origin \subseteq Paths
          /\ {disk[l].files[p].once, disk[l].files[p].full, disk[l].files[p].whole} \subseteq BOOLEAN
      BY <3>1, <3>2, FieldsOfFile DEF Paths
    <3> QED  BY <3>1, <3>3, <3>4, FieldsOfFile DEF IsFileRecord, PathSet
  <2>3. \A l \in 0 .. Levels : disk[l].dir \in BOOLEAN
    BY <2>1 DEF DiskInv, IsStore
  <2>4. ASSUME job # NoJob
        PROVE  /\ job.level \in 1 .. Levels /\ job.phase \in {"rdf", "update"}
               /\ job.ch \in 0 .. Len(job.chunks) - 1
               /\ UNION {ToSet(job.chunks[c]) : c \in DOMAIN job.chunks} \subseteq job.selected
    <3>1. /\ job.level \in 1 .. Levels /\ job.phase \in {"rdf", "update"} /\ job.ch \in Nat
          /\ job.ch + 1 \in DOMAIN job.chunks /\ job.chunks \in Seq(Seq(PathSet))
      BY <2>1, <2>4, JobFacts
    <3>2. UNION {ToSet(job.chunks[c]) : c \in DOMAIN job.chunks} = job.selected
      BY <2>1, <2>4 DEF JobInv, IsPartition
    <3> QED  BY <3>1, <3>2
  <2>5. ASSUME NEW l \in 1 .. Levels  PROVE complete[l].run \in 0 .. jobs
    <3>1. CASE complete[l] = NoComplete
      BY <3>1, <2>1 DEF NoComplete
    <3>2. CASE complete[l] # NoComplete
      BY <3>2, <2>1, LevelsAssumption DEF CompleteInv, Completes
    <3> QED  BY <3>1, <3>2
  <2>6. final.level \in 0 .. Levels
    BY DEF IInv
  <2> QED  BY <2>1, <2>2, <2>3, <2>4, <2>5, <2>6 DEF TypeOK
<1> QED  BY <1>1, Invariance, PTL
=============================================================================
