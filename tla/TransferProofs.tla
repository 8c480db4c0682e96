--------------------------- MODULE TransferProofs ---------------------------
(***************************************************************************)
(* Proofs about Transfer: types, that an export accounts for all its jobs, *)
(* that an import is visible as a whole or not at all, that it writes only *)
(* to its own tables, and that no two imports wait for each other.         *)
(*                                                                         *)
(* Then about what Transfer carries from end to end: an import loads what  *)
(* a sound export has found, and is not refused for what the export has    *)
(* written or left behind, in a project in which no alias is a table       *)
(* (AliasesApart) and the directories of groups sort first (GroupsFirst).  *)
(* This inductive invariant follows the content of the files: what a       *)
(* worker has written and what its cursor has yet to return (Streamed),    *)
(* the files of the jobs that are done (Ready), the directories in which   *)
(* files of a table may be (Homes), what an import finds in them (Served), *)
(* and what it has found and loaded (LoadInv).                             *)
(***************************************************************************)
EXTENDS Transfer, SequenceLemmas

----------------------------------------------------------------------------
(* Constants and the operators on sequences.                               *)

\* What the assumptions say of the SQL files and their tables.
LEMMA SqlFacts ==
  /\ Len(SqlFiles) \in Nat \ {0} /\ DOMAIN SqlFiles = 1 .. Len(SqlFiles)
  /\ \A i \in 1 .. Len(SqlFiles) : SqlFiles[i] \in Range(SqlFiles)
  /\ \A g \in Range(SqlFiles) : \E i \in 1 .. Len(SqlFiles) : g = SqlFiles[i]
  /\ \A g \in Range(SqlFiles) : TablesOf(g) \subseteq Tables
  /\ \A t \in Tables : \E g \in Range(SqlFiles) : t \in TablesOf(g)
<1>1. SqlFiles \in Seq(Range(SqlFiles)) /\ SqlFiles # <<>>
    BY ArtifactsAssumption
<1>2. Len(SqlFiles) \in Nat \ {0} /\ DOMAIN SqlFiles = 1 .. Len(SqlFiles)
    BY <1>1
<1>3. DOMAIN RootOf = Range(SqlFiles) /\ DOMAIN ChildOf = Range(SqlFiles)
    BY ArtifactsAssumption
<1> QED
    BY <1>2, <1>3 DEF Range, Tables, TablesOf

\* The members of an SQL file: collections exported through it, none twice.
LEMMA MembersFacts ==
  ASSUME NEW g \in Range(SqlFiles)
  PROVE  /\ MembersOf(g) \in Seq(Colls) /\ IsInjective(MembersOf(g))
         /\ ToSet(MembersOf(g)) = {c \in Colls : FileOf[c] = g /\ natural[c] # <<>>}
<1> DEFINE A == Range(DirOrder)
           T == {c \in Colls : FileOf[c] = g /\ natural[c] # <<>>}
<1>1. DirOrder \in Seq(A) /\ IsInjective(DirOrder) /\ Colls \subseteq A
    BY ArtifactsAssumption
<1>2. ToSet(DirOrder) = A
    BY DEF ToSet, Range
<1>3. MembersOf(g) = Pick(DirOrder, T)
    BY DEF MembersOf
<1> HIDE DEF A
<1>4. MembersOf(g) \in Seq(A) /\ IsInjective(MembersOf(g))
    BY <1>1, <1>3, PickProperties, PickInjective
<1>5. ToSet(MembersOf(g)) = A \intersect T
    BY <1>1, <1>2, <1>3, PickProperties
<1>6. A \intersect T = T /\ T \subseteq Colls
    BY <1>1
<1>7. MembersOf(g) \in Seq(Colls)
  <2>1. \A i \in DOMAIN MembersOf(g) : MembersOf(g)[i] \in Colls
      BY <1>5, <1>6 DEF ToSet
  <2> HIDE DEF T
  <2> QED
      BY <1>4, <2>1
<1> QED
    BY <1>4, <1>5, <1>6, <1>7

\* The planned jobs: SQL files with a member, none twice.
LEMMA PlannedFacts ==
  /\ PlannedJobs \in Seq(Range(SqlFiles)) /\ IsInjective(PlannedJobs)
  /\ ToSet(PlannedJobs) = {g \in Range(SqlFiles) : MembersOf(g) # <<>>}
<1> DEFINE A == Range(SqlFiles)
           T == {g \in A : MembersOf(g) # <<>>}
<1>1. SqlFiles \in Seq(A) /\ IsInjective(SqlFiles)
    BY ArtifactsAssumption
<1>2. ToSet(SqlFiles) = A
    BY DEF ToSet, Range
<1>3. PlannedJobs = Pick(SqlFiles, T)
    BY DEF PlannedJobs
<1>4. A \intersect T = T
    OBVIOUS
<1>5. T = {g \in Range(SqlFiles) : MembersOf(g) # <<>>}
    OBVIOUS
<1> HIDE DEF T
<1>6. PlannedJobs \in Seq(A) /\ IsInjective(PlannedJobs)
    BY <1>1, <1>3, PickProperties, PickInjective
<1>7. ToSet(PlannedJobs) = A \intersect T
    BY <1>1, <1>2, <1>3, PickProperties
<1> QED
    BY <1>4, <1>5, <1>6, <1>7

\* The order of _id holds every document once, smaller ones first.
LEMMA IdOrderFacts ==
  /\ \E n \in Nat : DOMAIN IdOrder = 1 .. n
  /\ IdOrder \in Seq(Nat) /\ Docs \subseteq ToSet(IdOrder)
  /\ \A i \in DOMAIN IdOrder : IdOrder[i] = i
<1>1. Docs \subseteq Nat \ {0} /\ IsFiniteSet(Docs)
    BY ArtifactsAssumption
<1> DEFINE S == Docs \union {0}
<1>2. PICK N \in Nat : Docs \subseteq 0 .. N
    BY <1>1, FiniteBounded
<1>3. S \in SUBSET (0 .. N) /\ S # {}
    BY <1>2
<1> HIDE DEF S
<1>4. Max(S) \in S /\ \A x \in S : x <= Max(S)
    BY <1>3, MaxOfBounded
<1>5. Max(S) \in Nat
  <2>1. S \subseteq Nat
      BY <1>3
  <2> QED
      BY <1>4, <2>1, Zenon
<1>6. IdOrder = [d \in 1 .. Max(S) |-> d]
    BY DEF IdOrder, S
<1>7. IdOrder \in Seq(Nat) /\ DOMAIN IdOrder = 1 .. Max(S)
    BY <1>5, <1>6
<1>8. \A i \in 1 .. Max(S) : IdOrder[i] = i
    BY <1>6
<1>9. \A d \in Docs : d \in 1 .. Max(S)
    BY <1>1, <1>4, <1>5 DEF S
<1>10. Docs \subseteq ToSet(IdOrder)
    BY <1>7, <1>8, <1>9 DEF ToSet
<1> QED
    BY <1>5, <1>7, <1>8, <1>10

\* The documents a find returns are documents of the collection.
LEMMA FoundFacts ==
  ASSUME NEW c \in Colls, natural[c] \in Seq(Docs), NEW seen
  PROVE  Found(c, seen) \in Seq(Docs)
<1> DEFINE T == {d \in Range(natural[c]) : d > seen}
<1>1. Range(natural[c]) \subseteq Docs
    BY DEF Range
<1>2. Pick(IdOrder, T) \in Seq(Nat) /\ ToSet(Pick(IdOrder, T)) = ToSet(IdOrder) \intersect T
    BY IdOrderFacts, PickProperties
<1>3. Pick(IdOrder, T) \in Seq(Docs)
  <2>1. \A i \in DOMAIN Pick(IdOrder, T) : Pick(IdOrder, T)[i] \in Docs
    <3>1. ToSet(Pick(IdOrder, T)) \subseteq Docs
        BY <1>1, <1>2
    <3> QED
        BY <3>1 DEF ToSet
  <2> HIDE DEF T
  <2> QED
      BY <1>2, <2>1
<1> QED
    BY <1>3 DEF Found
----------------------------------------------------------------------------
(* Types of the artifacts.                                                 *)

\* All paths and contents are paths and contents of CSV files.
Typed(F) == \A p \in DOMAIN F : p \in Path /\ F[p] \in File

\* The names and the members of the SQL files the export has planned.
MembersOK ==
  /\ members \in [Range(SqlFiles) -> Seq(Colls)]
  /\ \A g \in Range(SqlFiles) : \A i \in DOMAIN members[g] :
       FileOf[members[g][i]] = g

\* Directories of different SQL files are different.
LEMMA DirFacts ==
  ASSUME MembersOK
  PROVE  /\ \A g \in Range(SqlFiles) : DirOf(g) \in Range(DirOrder)
         /\ \A g, h \in Range(SqlFiles) : DirOf(g) = DirOf(h) => g = h
<1>0. /\ Colls \subseteq Range(DirOrder) /\ Range(SqlFiles) \subseteq Range(DirOrder)
      /\ \A c \in Colls : c \in Range(SqlFiles) => FileOf[c] = c
    BY ArtifactsAssumption
<1>1. ASSUME NEW g \in Range(SqlFiles)
      PROVE  \/ DirOf(g) = g /\ Len(members[g]) # 1
             \/ DirOf(g) \in Colls /\ FileOf[DirOf(g)] = g
  <2>1. CASE Len(members[g]) = 1
    <3>1. members[g] \in Seq(Colls)
        BY DEF MembersOK
    <3>2. 1 \in DOMAIN members[g]
        BY <2>1, <3>1
    <3>3. members[g][1] \in Colls /\ FileOf[members[g][1]] = g
        BY <3>1, <3>2 DEF MembersOK
    <3> QED
        BY <2>1, <3>3 DEF DirOf
  <2>2. CASE Len(members[g]) # 1
      BY <2>2 DEF DirOf
  <2> QED
      BY <2>1, <2>2
<1>2. ASSUME NEW g \in Range(SqlFiles), NEW h \in Range(SqlFiles), DirOf(g) = DirOf(h)
      PROVE  g = h
    BY <1>0, <1>1, <1>2
<1> QED
    BY <1>0, <1>1, <1>2

\* The rows of a document are added to files that are there.
LEMMA WithRowsFacts ==
  ASSUME Typed(files), NEW g, NEW d \in Docs, NEW n \in Nat
  PROVE  DOMAIN WithRows(g, d, n) = DOMAIN files /\ Typed(WithRows(g, d, n))
<1>0. d \in Nat /\ KidsOf[d] \in Nat
    BY ArtifactsAssumption
<1>1. RootLine(d) \in Seq(Line)
  <2>1. [key |-> d, doc |-> d] \in Line
      BY <1>0 DEF Line
  <2> QED
      BY <2>1 DEF RootLine
<1>2. ChildLines(d, n) \in Seq(Line)
  <2>1. \A i \in 1 .. KidsOf[d] : [key |-> n + i, doc |-> d] \in Line
      BY <1>0 DEF Line
  <2> QED
      BY <1>0, <2>1 DEF ChildLines
<1>3. DOMAIN WithRows(g, d, n) = DOMAIN files
    BY DEF WithRows
<1>4. ASSUME NEW p \in DOMAIN files PROVE p \in Path /\ WithRows(g, d, n)[p] \in File
  <2>1. p \in Path /\ files[p] \in File
      BY DEF Typed
  <2>2. /\ files[p].lines \in Seq(Line) /\ files[p].whole \in BOOLEAN
        /\ files[p] = [lines |-> files[p].lines, whole |-> files[p].whole]
      BY <2>1 DEF File
  <2>3. ASSUME NEW x \in Seq(Line)
        PROVE  [files[p] EXCEPT !.lines = @ \o x] \in File
    <3>1. files[p].lines \o x \in Seq(Line)
        BY <2>2
    <3> DEFINE y == files[p].lines \o x
    <3>2. y \in Seq(Line)
        BY <3>1
    <3> HIDE DEF y
    <3>3. [files[p] EXCEPT !.lines = y] \in File
        BY <2>1, <3>2 DEF File
    <3> QED
        BY <3>3 DEF y
  <2>4. \/ WithRows(g, d, n)[p] = [files[p] EXCEPT !.lines = @ \o RootLine(d)]
        \/ WithRows(g, d, n)[p] = [files[p] EXCEPT !.lines = @ \o ChildLines(d, n)]
        \/ WithRows(g, d, n)[p] = files[p]
      BY DEF WithRows
  <2> QED
      BY <1>1, <1>2, <2>1, <2>3, <2>4
<1> QED
    BY <1>3, <1>4 DEF Typed

\* A file that is closed.
LEMMA WholeFile ==
  ASSUME NEW f \in File
  PROVE  /\ [f EXCEPT !.whole = TRUE] \in File
         /\ [f EXCEPT !.whole = TRUE].lines = f.lines
         /\ [f EXCEPT !.whole = TRUE].whole = TRUE
<1>1. [f EXCEPT !.whole = TRUE] \in File
    BY DEF File
<1>2. [f EXCEPT !.whole = TRUE].lines = f.lines
    BY DEF File
<1>3. [f EXCEPT !.whole = TRUE].whole = TRUE
    BY DEF File
<1> QED
    BY <1>1, <1>2, <1>3

\* The files of a job that is done: those of its tables, and the aliases.
LEMMA FinishedFacts ==
  ASSUME Typed(files), MembersOK, NEW g \in Range(SqlFiles),
         \A t \in TablesOf(g) : <<DirOf(g), t>> \in DOMAIN files
  PROVE  /\ DOMAIN Finished(g) = DOMAIN files \union Expected(g)
         /\ Typed(Finished(g))
         /\ \A p \in DOMAIN files : p[1] # DirOf(g) => Finished(g)[p] = files[p]
         /\ \A t \in TablesOf(g) :
              /\ Finished(g)[<<DirOf(g), t>>].lines = files[<<DirOf(g), t>>].lines
              /\ Finished(g)[<<DirOf(g), t>>].whole = TRUE
<1> DEFINE dir == DirOf(g)
           src(t) == IF t \in TablesOf(g) THEN t
                     ELSE CHOOSE u \in TablesOf(g) : AliasOf[u] = t
<1>1. DOMAIN Finished(g) = DOMAIN files \union Expected(g)
    BY DEF Finished
<1>2. \A p \in DOMAIN files \union Expected(g) :
         Finished(g)[p] = IF p \in Expected(g)
                          THEN [files[<<dir, src(p[2])>>] EXCEPT !.whole = TRUE]
                          ELSE files[p]
    BY DEF Finished
<1>3. ASSUME NEW p \in Expected(g)
      PROVE  /\ p \in Path /\ p[1] = dir
             /\ src(p[2]) \in TablesOf(g)
             /\ p[2] \in TablesOf(g) => src(p[2]) = p[2]
  <2>1. PICK t : /\ p = <<dir, t>>
                 /\ \/ t \in TablesOf(g)
                    \/ t # None /\ \E u \in TablesOf(g) : AliasOf[u] = t
      BY DEF Expected
  <2>2. dir \in Range(DirOrder)
      BY DirFacts
  <2>3. TablesOf(g) \subseteq Tables /\ DOMAIN AliasOf = Tables
      BY SqlFacts, ArtifactsAssumption
  <2>4. t \in Tables \union Aliases
      BY <2>1, <2>3 DEF Aliases, Range
  <2>5. p \in Path
      BY <2>1, <2>2, <2>4 DEF Path
  <2>6. src(t) \in TablesOf(g)
    <3>1. CASE t \in TablesOf(g)
        BY <3>1
    <3>2. CASE t \notin TablesOf(g)
        BY <2>1, <3>2
    <3> QED
        BY <3>1, <3>2
  <2> HIDE DEF src
  <2>7. p[1] = dir /\ p[2] = t
      BY <2>1
  <2> QED
      BY <2>5, <2>6, <2>7 DEF src
<1>4. \A p \in DOMAIN files : p \in Path /\ files[p] \in File
    BY DEF Typed
<1>5. \A p \in Expected(g) : files[<<dir, src(p[2])>>] \in File
  <2> HIDE DEF src
  <2> QED
      BY <1>3, <1>4
<1> HIDE DEF src
<1>6. Typed(Finished(g))
  <2>1. ASSUME NEW p \in DOMAIN Finished(g)
        PROVE  p \in Path /\ Finished(g)[p] \in File
    <3>1. CASE p \in Expected(g)
      <4>1. Finished(g)[p] = [files[<<dir, src(p[2])>>] EXCEPT !.whole = TRUE]
          BY <1>2, <3>1
      <4> QED
          BY <3>1, <4>1, <1>3, <1>5, WholeFile
    <3>2. CASE p \notin Expected(g)
        BY <1>1, <1>2, <1>4, <2>1, <3>2
    <3> QED
        BY <3>1, <3>2
  <2> QED
      BY <2>1 DEF Typed
<1>7. \A p \in DOMAIN files : p[1] # DirOf(g) => Finished(g)[p] = files[p]
    BY <1>2, <1>3
<1>8. ASSUME NEW t \in TablesOf(g)
      PROVE  /\ Finished(g)[<<DirOf(g), t>>].lines = files[<<DirOf(g), t>>].lines
             /\ Finished(g)[<<DirOf(g), t>>].whole = TRUE
  <2>1. <<dir, t>> \in Expected(g)
      BY DEF Expected
  <2>2. <<dir, t>>[2] = t
      OBVIOUS
  <2>3. src(t) = t
      BY <1>3, <2>1, <2>2
  <2>4. Finished(g)[<<dir, t>>] = [files[<<dir, t>>] EXCEPT !.whole = TRUE]
      BY <1>2, <2>1, <2>2, <2>3
  <2>5. files[<<dir, t>>] \in File
      BY <1>4
  <2> QED
      BY <2>4, <2>5, WholeFile
<1> QED
    BY <1>1, <1>6, <1>7, <1>8
----------------------------------------------------------------------------
(* The export: types, and who works on what.                               *)

ExportTypes ==
  /\ natural \in [Colls -> Seq(Docs)]
  /\ \A c \in Colls : natural[c] \in Seq({d \in Docs : CollOf[d] = c})
  /\ remote \in BOOLEAN /\ Typed(files) /\ Typed(objects)
  /\ ExportTypeOK

\* A worker with a job is at one of its collections, no other worker has that
\* job, and the files of its tables are there until it uploads them.
Shape ==
  /\ MembersOK
  /\ xpc # "running" => \A w \in Workers : wpc[w] = "ended"
  /\ \A w \in Workers : wpc[w] \in {"take", "ended"} <=> job[w] = None
  /\ IsInjective(jobs)
  /\ \A i \in DOMAIN jobs : members[jobs[i]] # <<>>
  /\ \A w \in Workers : job[w] # None =>
       /\ \E i \in DOMAIN jobs : i < next /\ job[w] = jobs[i]
       /\ source[w] \in DOMAIN members[job[w]]
  /\ \A w, v \in Workers : w # v /\ job[w] # None => job[w] # job[v]
  /\ \A w \in Workers : wpc[w] \in {"find", "fetch"} =>
       \A t \in TablesOf(job[w]) : <<DirOf(job[w]), t>> \in DOMAIN files

\* A worker that has a job.
LEMMA BusyFacts ==
  ASSUME ExportTypes, Shape, NEW w \in Workers, wpc[w] \notin {"take", "ended"}
  PROVE  /\ job[w] # None /\ job[w] \in Range(SqlFiles)
         /\ members[job[w]] \in Seq(Colls) /\ source[w] \in DOMAIN members[job[w]]
         /\ CurrentColl(w) \in Colls /\ DirOf(job[w]) \in Range(DirOrder)
<1>1. job[w] # None /\ job[w] \in Range(SqlFiles) \union {None}
    BY DEF ExportTypes, ExportTypeOK, Shape
<1>2. members[job[w]] \in Seq(Colls) /\ source[w] \in DOMAIN members[job[w]]
    BY <1>1 DEF Shape, MembersOK
<1>3. DirOf(job[w]) \in Range(DirOrder)
    BY <1>1, DirFacts DEF Shape
<1> QED
    BY <1>1, <1>2, <1>3 DEF CurrentColl

\* Types of what a worker leaves behind.
LEMMA LeaveJobTypes ==
  ASSUME ExportTypes, NEW w \in Workers, LeaveJob(w, "take"), natural' = natural
  PROVE  /\ wpc' \in [Workers -> {"take", "find", "fetch", "upload", "ended"}]
         /\ job' \in [Workers -> Range(SqlFiles) \union {None}]
         /\ source' \in [Workers -> Nat]
         /\ cursor' \in [Workers -> Seq(Docs)]
         /\ last' \in [Workers -> Docs \union {None}]
         /\ retry' \in [Workers -> 0 .. CursorRetryMax]
         /\ counter' \in [Workers -> Nat]
  BY ExportAssumption DEF ExportTypes, ExportTypeOK, LeaveJob

\* The files of a job that fails are closed as they are.
LEMMA DropWritersFacts ==
  ASSUME Typed(files), NEW g, DropWriters(g)
  PROVE  /\ DOMAIN files' = DOMAIN files /\ Typed(files)'
         /\ \A p \in DOMAIN files : p[1] # DirOf(g) => files'[p] = files[p]
         /\ \A p \in DOMAIN files : files'[p].lines = files[p].lines
<1>1. DOMAIN files' = DOMAIN files
    BY DEF DropWriters
<1>2. ASSUME NEW p \in DOMAIN files
      PROVE  /\ p \in Path /\ files'[p] \in File
             /\ p[1] # DirOf(g) => files'[p] = files[p]
             /\ files'[p].lines = files[p].lines
  <2>1. p \in Path /\ files[p] \in File
      BY DEF Typed
  <2>2. files'[p] = IF p \in InDir(DirOf(g)) THEN [files[p] EXCEPT !.whole = TRUE]
                    ELSE files[p]
      BY DEF DropWriters
  <2> QED
      BY <2>1, <2>2, WholeFile DEF InDir
<1> QED
    BY <1>1, <1>2 DEF Typed

\* What an export step does to its jobs: nothing; or a worker goes on with its
\* job, leaves it, takes one or ends; or the export starts or is over.  Files
\* of directories of other jobs stay.
FilesStay(dir) ==
  \A p \in DOMAIN files : p[1] # dir => p \in DOMAIN files'

Same ==
  /\ UNCHANGED <<xpc, jobs, members, next, wpc, job, source, outcome, remote>>
  /\ DOMAIN files' = DOMAIN files

Moves(w) ==
  /\ UNCHANGED <<xpc, jobs, members, next, job, outcome, remote>>
  /\ wpc[w] \in {"find", "fetch", "upload"}
  /\ \E x \in {"find", "fetch", "upload"} : wpc' = [wpc EXCEPT ![w] = x]
  /\ \A v \in Workers : v # w => source'[v] = source[v]
  /\ source'[w] \in DOMAIN members[job[w]]
  /\ FilesStay(DirOf(job[w]))
  /\ wpc'[w] \in {"find", "fetch"} =>
       wpc[w] \in {"find", "fetch"} /\ DOMAIN files' = DOMAIN files

Leaves(w) ==
  /\ UNCHANGED <<xpc, jobs, members, next, remote>>
  /\ wpc[w] \in {"find", "fetch", "upload"}
  /\ LeaveJob(w, "take")
  /\ doneJobs' \union failedJobs' = doneJobs \union failedJobs \union {job[w]}
  /\ FilesStay(DirOf(job[w]))

Over ==
  /\ xpc' # "running"
  /\ jobs' = <<>> /\ members' = [g \in Range(SqlFiles) |-> <<>>]
  /\ wpc' = [w \in Workers |-> "ended"] /\ job' = [w \in Workers |-> None]

ExportKind ==
  \/ Same \/ Over \/ StartExport
  \/ \E w \in Workers : Moves(w) \/ Leaves(w) \/ TakeJob(w) \/ NoMoreJobs(w)

\* What a worker does to the artifacts and to its job.
LEMMA WorkerEffect ==
  ASSUME ExportTypes, Shape, NEW w \in Workers,
         \/ TakeJob(w) \/ NoMoreJobs(w) \/ OpenCursor(w) \/ FindFails(w)
         \/ Fetch(w) \/ CursorFails(w) \/ NextSource(w) \/ FinishFiles(w)
         \/ Upload(w) \/ UploadFails(w) \/ AllUploaded(w)
  PROVE  ExportTypes' /\ ExportKind
<1> USE DEF outcome, command, stream
<1>0. /\ ExportTypeOK /\ Typed(files) /\ Typed(objects)
      /\ w \in Workers /\ wpc \in [Workers -> {"take", "find", "fetch", "upload", "ended"}]
    BY DEF ExportTypes, ExportTypeOK
<1>1. CASE TakeJob(w)
  <2> DEFINE g == jobs[next]
             dir == DirOf(g)
  <2>1. next \in DOMAIN jobs /\ g \in Range(SqlFiles) /\ next + 1 \in 1 .. Len(jobs) + 1
      BY <1>0, <1>1 DEF TakeJob, ExportTypeOK
  <2>2. dir \in Range(DirOrder) /\ TablesOf(g) \subseteq Tables
      BY <2>1, DirFacts, SqlFacts DEF Shape
  <2>3. Typed(files)'
    <3>1. files' = [p \in (DOMAIN files \ InDir(dir))
                         \union {<<dir, t>> : t \in TablesOf(g)} |->
                    IF p[1] = dir THEN [lines |-> <<>>, whole |-> FALSE]
                    ELSE files[p]]
        BY <1>1 DEF TakeJob
    <3>2. [lines |-> <<>>, whole |-> FALSE] \in File
        BY DEF File
    <3>3. ASSUME NEW p \in DOMAIN files' PROVE p \in Path /\ files'[p] \in File
      <4>1. CASE p \in DOMAIN files \ InDir(dir)
          BY <4>1, <3>1, <3>2, <1>0 DEF Typed
      <4>2. CASE p \in {<<dir, t>> : t \in TablesOf(g)}
          BY <4>2, <2>2, <3>1, <3>2 DEF Path
      <4> QED
          BY <3>1, <4>1, <4>2
    <3> QED
        BY <3>3 DEF Typed
  <2> HIDE DEF g, dir
  <2>4. ExportTypeOK'
    <3>1. job' = [job EXCEPT ![w] = g]
        BY <1>1 DEF TakeJob, g
    <3> QED
        BY <1>0, <1>1, <2>1, <3>1 DEF TakeJob, ExportTypeOK
  <2> QED
      BY <1>1, <2>3, <2>4 DEF TakeJob, ExportTypes, Typed, ExportKind
<1>2. CASE NoMoreJobs(w)
  <2>1. ExportTypes'
      BY <1>0, <1>2 DEF NoMoreJobs, ExportTypes, ExportTypeOK, Typed
  <2> QED
      BY <1>2, <2>1 DEF ExportKind
<1>3. CASE OpenCursor(w)
  <2>1. CurrentColl(w) \in Colls /\ source[w] \in DOMAIN members[job[w]]
      BY <1>3, BusyFacts DEF OpenCursor
  <2>2. Found(CurrentColl(w), last[w]) \in Seq(Docs)
      BY <2>1, FoundFacts DEF ExportTypes
  <2>3. ExportTypes'
    <3> DEFINE F == Found(CurrentColl(w), last[w])
    <3>1. F \in Seq(Docs) /\ cursor' = [cursor EXCEPT ![w] = F]
        BY <1>3, <2>2 DEF OpenCursor
    <3> HIDE DEF F
    <3> QED
        BY <1>0, <1>3, <3>1 DEF OpenCursor, ExportTypes, ExportTypeOK, Typed
  <2>4. Moves(w)
      BY <1>0, <1>3, <2>1 DEF OpenCursor, Moves, FilesStay
  <2> QED
      BY <2>3, <2>4 DEF ExportKind
<1>4. CASE FindFails(w)
  <2>1. LeaveJob(w, "take") /\ DropWriters(job[w]) /\ job[w] \in Range(SqlFiles)
      BY <1>4, BusyFacts DEF FindFails, NoteFailure
  <2>2. ExportTypes'
    <3>1. Typed(files)'
        BY <1>0, <2>1, DropWritersFacts
    <3> QED
        BY <1>0, <1>4, <2>1, <3>1, LeaveJobTypes
           DEF FindFails, NoteFailure, ExportTypes, ExportTypeOK, Typed
  <2>3. Leaves(w)
      BY <1>0, <1>4, <2>1, DropWritersFacts DEF FindFails, NoteFailure, Leaves, FilesStay
  <2> QED
      BY <2>2, <2>3 DEF ExportKind
<1>5. CASE Fetch(w)
  <2> DEFINE d == Head(cursor[w])
  <2>1. d \in Docs /\ Tail(cursor[w]) \in Seq(Docs) /\ KidsOf[d] \in Nat /\ counter[w] \in Nat
    <3>1. cursor[w] \in Seq(Docs) /\ cursor[w] # <<>> /\ counter[w] \in Nat
        BY <1>0, <1>5 DEF Fetch, ExportTypeOK
    <3>2. d \in Docs /\ Tail(cursor[w]) \in Seq(Docs)
        BY <3>1
    <3>3. KidsOf \in [Docs -> Nat]
        BY ArtifactsAssumption
    <3> QED
        BY <3>1, <3>2, <3>3
  <2>2. /\ files' = WithRows(job[w], d, counter[w]) /\ cursor' = [cursor EXCEPT ![w] = Tail(@)]
        /\ last' = [last EXCEPT ![w] = d] /\ counter' = [counter EXCEPT ![w] = @ + KidsOf[d]]
      BY <1>5 DEF Fetch
  <2> HIDE DEF d
  <2>3. DOMAIN files' = DOMAIN files /\ Typed(files)'
    <3>1. /\ DOMAIN WithRows(job[w], d, counter[w]) = DOMAIN files
          /\ Typed(WithRows(job[w], d, counter[w]))
        BY <1>0, <2>1, WithRowsFacts
    <3> QED
        BY <2>2, <3>1 DEF Typed
  <2>4. ExportTypes'
    <3>1. counter' \in [Workers -> Nat]
      <4>1. counter[w] + KidsOf[d] \in Nat
          BY <2>1
      <4> QED
          BY <1>0, <2>2, <4>1 DEF ExportTypeOK
    <3>2. retry' \in [Workers -> 0 .. CursorRetryMax]
        BY <1>0, <1>5, ExportAssumption DEF Fetch, ExportTypeOK
    <3>3. last' \in [Workers -> Docs \union {None}] /\ cursor' \in [Workers -> Seq(Docs)]
        BY <1>0, <2>1, <2>2 DEF ExportTypeOK
    <3> QED
        BY <1>0, <1>5, <2>3, <3>1, <3>2, <3>3
           DEF Fetch, ExportTypes, ExportTypeOK, Typed
  <2>5. Same
      BY <1>5, <2>3 DEF Fetch, Same
  <2> QED
      BY <2>4, <2>5 DEF ExportKind
<1>6. CASE CursorFails(w)
  <2>1. broken' \subseteq Colls
    <3>1. CurrentColl(w) \in Colls
        BY <1>6, BusyFacts DEF CursorFails
    <3> QED
        BY <1>0, <1>6, <3>1 DEF CursorFails, ExportTypeOK
  <2>2. CASE MayRetry(w)
    <3>1. /\ retry' = [retry EXCEPT ![w] = @ + 1] /\ cursor' = [cursor EXCEPT ![w] = <<>>]
          /\ wpc' = [wpc EXCEPT ![w] = "find"]
          /\ UNCHANGED <<files, job, source, last, counter, doneJobs, failedJobs>>
          /\ UNCHANGED <<natural, remote, objects, xpc, jobs, members, exports, started, next>>
        BY <1>6, <2>2 DEF CursorFails
    <3>2. retry' \in [Workers -> 0 .. CursorRetryMax]
      <4>1. retry[w] + 1 \in 0 .. CursorRetryMax
          BY <1>0, <2>2, ExportAssumption DEF ExportTypeOK, MayRetry
      <4> QED
          BY <1>0, <3>1, <4>1 DEF ExportTypeOK
    <3>3. ExportTypes'
        BY <1>0, <2>1, <3>1, <3>2 DEF ExportTypes, ExportTypeOK, Typed
    <3>4. source[w] \in DOMAIN members[job[w]] /\ wpc[w] = "fetch"
        BY <1>6, BusyFacts DEF CursorFails
    <3>5. Moves(w)
        BY <1>0, <3>1, <3>4 DEF Moves, FilesStay
    <3> QED
        BY <3>3, <3>5 DEF ExportKind
  <2>3. CASE ~MayRetry(w)
    <3>1. LeaveJob(w, "take") /\ DropWriters(job[w]) /\ job[w] \in Range(SqlFiles)
        BY <1>6, <2>3, BusyFacts DEF CursorFails, NoteFailure
    <3>2. Typed(files)'
        BY <1>0, <3>1, DropWritersFacts
    <3>3. /\ failedJobs' = failedJobs \union {job[w]} /\ wpc[w] = "fetch"
          /\ UNCHANGED <<doneJobs, natural, remote, objects, xpc, jobs, members, exports, started, next>>
        BY <1>6, <2>3 DEF CursorFails, NoteFailure
    <3>4. ExportTypes'
        BY <1>0, <2>1, <3>1, <3>2, <3>3, LeaveJobTypes
           DEF ExportTypes, ExportTypeOK, Typed
    <3>5. Leaves(w)
        BY <1>0, <3>1, <3>3, DropWritersFacts DEF Leaves, FilesStay
    <3> QED
        BY <3>4, <3>5 DEF ExportKind
  <2> QED
      BY <2>2, <2>3
<1>7. CASE NextSource(w)
  <2>1. members[job[w]] \in Seq(Colls) /\ source[w] \in DOMAIN members[job[w]]
      BY <1>7, BusyFacts DEF NextSource
  <2>2. source[w] + 1 \in DOMAIN members[job[w]] /\ source[w] + 1 \in Nat
      BY <1>7, <2>1 DEF NextSource
  <2>3. ExportTypes'
    <3>1. retry' \in [Workers -> 0 .. CursorRetryMax]
        BY <1>0, <1>7, ExportAssumption DEF NextSource, ExportTypeOK
    <3>2. last' \in [Workers -> Docs \union {None}]
        BY <1>0, <1>7 DEF NextSource, ExportTypeOK
    <3>3. source' \in [Workers -> Nat]
      <4>1. source' = [source EXCEPT ![w] = source[w] + 1] /\ source \in [Workers -> Nat]
          BY <1>0, <1>7 DEF NextSource, ExportTypeOK
      <4> QED
          BY <2>2, <4>1
    <3> QED
        BY <1>0, <1>7, <3>1, <3>2, <3>3
           DEF NextSource, CountOn, ExportTypes, ExportTypeOK, Typed
  <2>4. Moves(w)
    <3>1. source' = [source EXCEPT ![w] = source[w] + 1] /\ source \in [Workers -> Nat]
        BY <1>0, <1>7 DEF NextSource, ExportTypeOK
    <3> QED
        BY <1>0, <1>7, <2>2, <3>1 DEF NextSource, Moves, FilesStay
  <2> QED
      BY <2>3, <2>4 DEF ExportKind
<1>8. CASE FinishFiles(w)
  <2>1. /\ job[w] \in Range(SqlFiles) /\ source[w] \in DOMAIN members[job[w]]
        /\ wpc[w] = "fetch"
      BY <1>8, BusyFacts DEF FinishFiles
  <2>2. \A t \in TablesOf(job[w]) : <<DirOf(job[w]), t>> \in DOMAIN files
      BY <2>1 DEF Shape
  <2>3. /\ DOMAIN files' = DOMAIN files \union Expected(job[w])
        /\ Typed(files)'
    <3>1. files' = Finished(job[w])
        BY <1>8 DEF FinishFiles
    <3>2. /\ DOMAIN Finished(job[w]) = DOMAIN files \union Expected(job[w])
          /\ Typed(Finished(job[w]))
        BY <1>0, <2>1, <2>2, FinishedFacts DEF Shape
    <3> QED
        BY <3>1, <3>2 DEF Typed
  <2>4. UNCHANGED <<natural, remote, objects, xpc, jobs, members, exports, started, next, broken, failedJobs>>
      BY <1>8 DEF FinishFiles
  <2>5. CASE remote
    <3>1. /\ wpc' = [wpc EXCEPT ![w] = "upload"]
          /\ UNCHANGED <<job, doneJobs, source, cursor, last, retry, counter>>
        BY <1>8, <2>5 DEF FinishFiles
    <3>2. ExportTypes'
        BY <1>0, <2>3, <2>4, <3>1 DEF ExportTypes, ExportTypeOK, Typed
    <3>3. Moves(w)
        BY <1>0, <2>1, <2>3, <2>4, <3>1 DEF Moves, FilesStay
    <3> QED
        BY <3>2, <3>3 DEF ExportKind
  <2>6. CASE ~remote
    <3>1. doneJobs' = doneJobs \union {job[w]} /\ LeaveJob(w, "take")
        BY <1>8, <2>6 DEF FinishFiles, JobDone
    <3>2. ExportTypes'
        BY <1>0, <2>1, <2>3, <2>4, <3>1, LeaveJobTypes
           DEF ExportTypes, ExportTypeOK, Typed
    <3>3. Leaves(w)
        BY <1>0, <2>1, <2>3, <2>4, <3>1 DEF Leaves, FilesStay
    <3> QED
        BY <3>2, <3>3 DEF ExportKind
  <2> QED
      BY <2>5, <2>6
<1>9. CASE Upload(w)
  <2>1. /\ job[w] \in Range(SqlFiles) /\ source[w] \in DOMAIN members[job[w]]
        /\ wpc[w] = "upload"
      BY <1>9, BusyFacts DEF Upload
  <2>2. PICK p \in InDir(DirOf(job[w])) :
          /\ objects' = [q \in DOMAIN objects \union {<<job[w], p[2]>>} |->
                            IF q = <<job[w], p[2]>> THEN files[p]
                            ELSE objects[q]]
          /\ files' = Without(files, {p})
      BY <1>9 DEF Upload
  <2>3. p \in DOMAIN files /\ p[1] = DirOf(job[w]) /\ p \in Path /\ files[p] \in File
      BY <1>0, <2>2 DEF InDir, Typed
  <2>4. Typed(objects)'
    <3>1. <<job[w], p[2]>> \in Path
        BY <2>1, <2>3, ArtifactsAssumption DEF Path
    <3> QED
        BY <1>0, <2>2, <2>3, <3>1 DEF Typed
  <2>5. DOMAIN files' = DOMAIN files \ {p} /\ Typed(files)'
      BY <1>0, <2>2 DEF Typed, Without
  <2>6. UNCHANGED <<natural, remote, xpc, jobs, members, exports, started, next,
                    wpc, job, source, cursor, last, retry, counter, broken,
                    doneJobs, failedJobs>>
      BY <1>9 DEF Upload
  <2>7. ExportTypes'
      BY <1>0, <2>4, <2>5, <2>6 DEF ExportTypes, ExportTypeOK
  <2>8. wpc' = [wpc EXCEPT ![w] = "upload"]
      BY <1>0, <2>1, <2>6
  <2>9. Moves(w)
      BY <1>0, <2>1, <2>3, <2>5, <2>6, <2>8 DEF Moves, FilesStay
  <2> QED
      BY <2>7, <2>9 DEF ExportKind
<1>10. CASE UploadFails(w)
  <2>1. LeaveJob(w, "take") /\ job[w] \in Range(SqlFiles)
      BY <1>10, BusyFacts DEF UploadFails, NoteFailure
  <2>2. ExportTypes'
      BY <1>0, <1>10, <2>1, LeaveJobTypes
         DEF UploadFails, NoteFailure, ExportTypes, ExportTypeOK, Typed
  <2>3. Leaves(w)
      BY <1>0, <1>10, <2>1 DEF UploadFails, NoteFailure, Leaves, FilesStay
  <2> QED
      BY <2>2, <2>3 DEF ExportKind
<1>11. CASE AllUploaded(w)
  <2>1. LeaveJob(w, "take") /\ job[w] \in Range(SqlFiles)
      BY <1>11, BusyFacts DEF AllUploaded, JobDone
  <2>2. ExportTypes'
      BY <1>0, <1>11, <2>1, LeaveJobTypes
         DEF AllUploaded, JobDone, ExportTypes, ExportTypeOK, Typed
  <2>3. Leaves(w)
      BY <1>0, <1>11, <2>1 DEF AllUploaded, JobDone, Leaves, FilesStay
  <2> QED
      BY <2>2, <2>3 DEF ExportKind
<1> QED
    BY <1>1, <1>2, <1>3, <1>4, <1>5, <1>6, <1>7, <1>8, <1>9, <1>10, <1>11

\* An export starts with the collections that are there.
LEMMA StartEffect ==
  ASSUME ExportTypes, Shape, StartExport
  PROVE  ExportTypes' /\ Shape'
<1>0. /\ ExportTypeOK /\ Typed(files) /\ Typed(objects)
      /\ wpc \in [Workers -> {"take", "find", "fetch", "upload", "ended"}]
    BY DEF ExportTypes, ExportTypeOK
<1>1. /\ jobs' = PlannedJobs /\ next' = 1 /\ xpc' = "running"
      /\ members' = [g \in Range(SqlFiles) |-> MembersOf(g)]
      /\ wpc' = [w \in Workers |-> "take"] /\ started' = Stored
      /\ failedJobs' = {} /\ doneJobs' = {} /\ broken' = {} /\ xpc # "running"
      /\ UNCHANGED <<natural, remote, objects, job, source, cursor, last, retry, counter>>
    BY DEF StartExport
<1>2. /\ PlannedJobs \in Seq(Range(SqlFiles)) /\ IsInjective(PlannedJobs)
      /\ ToSet(PlannedJobs) = {g \in Range(SqlFiles) : MembersOf(g) # <<>>}
    BY PlannedFacts
<1>3. \A g \in Range(SqlFiles) :
        /\ MembersOf(g) \in Seq(Colls)
        /\ \A i \in DOMAIN MembersOf(g) : FileOf[MembersOf(g)[i]] = g
  <2> TAKE g \in Range(SqlFiles)
  <2>1. /\ MembersOf(g) \in Seq(Colls)
        /\ ToSet(MembersOf(g)) = {c \in Colls : FileOf[c] = g /\ natural[c] # <<>>}
      BY MembersFacts
  <2>2. \A i \in DOMAIN MembersOf(g) : MembersOf(g)[i] \in ToSet(MembersOf(g))
      BY DEF ToSet
  <2> QED
      BY <2>1, <2>2
<1>4. members' \in [Range(SqlFiles) -> Seq(Colls)]
    BY <1>1, <1>3
<1>5. Stored \subseteq Docs
  <2>1. \A c \in Colls : Range(natural[c]) \subseteq Docs
    <3>1. \A c \in Colls : natural[c] \in Seq(Docs)
        BY DEF ExportTypes
    <3> QED
        BY <3>1 DEF Range
  <2> QED
      BY <2>1 DEF Stored
<1>6. ExportTypes'
  <2>1. Typed(files)'
      BY <1>0 DEF StartExport, Typed
  <2>2. exports' \in 0 .. MaxExports
      BY <1>0, ExportAssumption DEF StartExport, ExportTypeOK
  <2>3. jobs' \in Seq(Range(SqlFiles)) /\ next' \in 1 .. Len(jobs') + 1
      BY <1>1, <1>2
  <2>4. started' \subseteq Docs
      BY <1>1, <1>5
  <2> QED
      BY <1>0, <1>1, <1>4, <2>1, <2>2, <2>3, <2>4
         DEF ExportTypes, ExportTypeOK, Typed
<1>7. \A w \in Workers : job[w] = None
    BY <1>1 DEF Shape
<1>8. MembersOK'
    BY <1>1, <1>3, <1>4 DEF MembersOK
<1>9. \A i \in DOMAIN jobs' : members'[jobs'[i]] # <<>>
  <2>1. \A i \in DOMAIN PlannedJobs :
          PlannedJobs[i] \in Range(SqlFiles) /\ MembersOf(PlannedJobs[i]) # <<>>
      BY <1>2 DEF ToSet
  <2> QED
      BY <1>1, <2>1
<1>10. \A w \in Workers : wpc'[w] = "take" /\ job'[w] = None
    BY <1>1, <1>7
<1> QED
    BY <1>1, <1>2, <1>6, <1>8, <1>9, <1>10 DEF Shape

\* An export is over.
LEMMA LeaveExportTypes ==
  ASSUME ExportTypes, NEW pc \in {"ok", "failed", "killed"}, LeaveExport(pc)
  PROVE  ExportTypes' /\ Over
<1>0. ExportTypeOK /\ Typed(files) /\ Typed(objects)
    BY DEF ExportTypes
<1>1. Typed(files)'
    BY <1>0 DEF LeaveExport, Typed
<1>2. /\ jobs' \in Seq(Range(SqlFiles)) /\ next' \in 1 .. Len(jobs') + 1
      /\ members' \in [Range(SqlFiles) -> Seq(Colls)]
    BY DEF LeaveExport
<1>3. /\ retry' \in [Workers -> 0 .. CursorRetryMax]
      /\ cursor' \in [Workers -> Seq(Docs)]
    BY ExportAssumption DEF LeaveExport
<1> QED
    BY <1>0, <1>1, <1>2, <1>3 DEF LeaveExport, ExportTypes, ExportTypeOK, Typed, Over

\* A document is stored.
LEMMA StoreTypes ==
  ASSUME ExportTypes, NEW d \in Docs, Store(d)
  PROVE  ExportTypes' /\ Same
<1> USE DEF outcome, command
<1>0. ExportTypeOK /\ Typed(files) /\ Typed(objects) /\ CollOf[d] \in Colls
    BY ArtifactsAssumption DEF ExportTypes
<1>1. natural' = [natural EXCEPT ![CollOf[d]] = Append(natural[CollOf[d]], d)]
    BY DEF Store
<1>2. natural' \in [Colls -> Seq(Docs)]
    BY <1>0, <1>1 DEF ExportTypes
<1>3. ASSUME NEW c \in Colls PROVE natural'[c] \in Seq({e \in Docs : CollOf[e] = c})
  <2>1. natural[c] \in Seq({e \in Docs : CollOf[e] = c})
      BY DEF ExportTypes
  <2>2. CASE c = CollOf[d]
    <3>1. natural'[c] = Append(natural[c], d) /\ d \in {e \in Docs : CollOf[e] = c}
        BY <1>1, <2>2 DEF ExportTypes
    <3> QED
        BY <2>1, <3>1
  <2>3. CASE c # CollOf[d]
      BY <1>1, <2>1, <2>3 DEF ExportTypes
  <2> QED
      BY <2>2, <2>3
<1>4. cursor' \in [Workers -> Seq(Docs)]
  <2>1. PICK S \in SUBSET Workers :
          cursor' = [w \in Workers |->
                      IF w \in S THEN Append(cursor[w], d) ELSE cursor[w]]
      BY DEF Store
  <2>2. \A w \in Workers : cursor[w] \in Seq(Docs) /\ Append(cursor[w], d) \in Seq(Docs)
      BY <1>0 DEF ExportTypeOK
  <2> QED
      BY <2>1, <2>2
<1>5. ExportTypes'
    BY <1>0, <1>2, <1>3, <1>4 DEF Store, ExportTypes, ExportTypeOK, Typed
<1> QED
    BY <1>5 DEF Store, Same

\* Every kind of step keeps the shape.
LEMMA ShapeNext ==
  ASSUME ExportTypes, Shape, ExportKind
  PROVE  Shape'
<1> USE DEF outcome
<1>0. /\ jobs \in Seq(Range(SqlFiles)) /\ next \in 1 .. Len(jobs) + 1
      /\ wpc \in [Workers -> {"take", "find", "fetch", "upload", "ended"}]
      /\ job \in [Workers -> Range(SqlFiles) \union {None}]
      /\ source \in [Workers -> Nat]
      /\ None \notin Range(SqlFiles)
    BY ArtifactsAssumption DEF ExportTypes, ExportTypeOK
<1>1. CASE Same
    BY <1>0, <1>1 DEF Same, Shape, MembersOK, DirOf
<1>2. CASE Over
  <2>1. members' \in [Range(SqlFiles) -> Seq(Colls)]
      BY <1>2 DEF Over
  <2>2. MembersOK'
      BY <1>2, <2>1 DEF Over, MembersOK
  <2>3. IsInjective(jobs') /\ DOMAIN jobs' = {}
      BY <1>2 DEF Over, IsInjective
  <2>4. \A w \in Workers : wpc'[w] = "ended" /\ job'[w] = None
      BY <1>2 DEF Over
  <2> QED
      BY <1>2, <2>2, <2>3, <2>4 DEF Over, Shape
<1>3. CASE StartExport
    BY <1>3, StartEffect
<1>4. ASSUME NEW w \in Workers, Moves(w) PROVE Shape'
  <2>1. /\ UNCHANGED <<xpc, jobs, members, next, job>>
        /\ wpc[w] \in {"find", "fetch", "upload"}
        /\ \A v \in Workers : v # w => wpc'[v] = wpc[v] /\ source'[v] = source[v]
        /\ wpc'[w] \in {"find", "fetch", "upload"}
        /\ source'[w] \in DOMAIN members[job[w]]
        /\ FilesStay(DirOf(job[w]))
        /\ wpc'[w] \in {"find", "fetch"} =>
             wpc[w] \in {"find", "fetch"} /\ DOMAIN files' = DOMAIN files
      BY <1>0, <1>4 DEF Moves
  <2>2. MembersOK' /\ \A g : DirOf(g)' = DirOf(g)
      BY <2>1 DEF Shape, MembersOK, DirOf
  <2>3. job[w] # None /\ job[w] \in Range(SqlFiles)
      BY <2>1, BusyFacts
  <2>4. \A v \in Workers : v # w /\ job[v] # None =>
          job[v] \in Range(SqlFiles) /\ DirOf(job[v]) # DirOf(job[w])
    <3>1. ASSUME NEW v \in Workers, v # w, job[v] # None
          PROVE  job[v] \in Range(SqlFiles) /\ job[v] # job[w]
        BY <1>0, <3>1 DEF Shape
    <3> QED
        BY <2>3, <3>1, DirFacts DEF Shape
  <2>5. ASSUME NEW v \in Workers, wpc'[v] \in {"find", "fetch"}, NEW t \in TablesOf(job[v])
        PROVE  <<DirOf(job[v]), t>> \in DOMAIN files'
    <3>1. CASE v = w
        BY <2>1, <2>5, <3>1 DEF Shape
    <3>2. CASE v # w
      <4>1. wpc[v] \in {"find", "fetch"}
          BY <2>1, <2>5, <3>2
      <4>2. job[v] # None
          BY <4>1 DEF Shape
      <4>3. <<DirOf(job[v]), t>> \in DOMAIN files
          BY <4>1 DEF Shape
      <4>4. <<DirOf(job[v]), t>>[1] # DirOf(job[w])
          BY <2>4, <3>2, <4>2
      <4> QED
          BY <2>1, <4>3, <4>4 DEF FilesStay
    <3> QED
        BY <3>1, <3>2
  <2>6. \A v \in Workers : wpc'[v] \in {"take", "ended"} <=> job'[v] = None
      BY <2>1, <2>3 DEF Shape
  <2>7. \A v \in Workers : wpc'[v] \in {"find", "fetch"} =>
          \A t \in TablesOf(job'[v]) : <<DirOf(job[v])', t>> \in DOMAIN files'
      BY <2>1, <2>2, <2>5
  <2>8. \A v \in Workers : job'[v] # None => source'[v] \in DOMAIN members'[job'[v]]
      BY <2>1 DEF Shape
  <2>9. xpc' # "running" => \A v \in Workers : wpc'[v] = "ended"
      BY <2>1 DEF Shape
  <2> QED
      BY <2>1, <2>2, <2>6, <2>7, <2>8, <2>9 DEF Shape
<1>5. ASSUME NEW w \in Workers, Leaves(w) PROVE Shape'
  <2>1. /\ UNCHANGED <<xpc, jobs, members, next>>
        /\ wpc[w] \in {"find", "fetch", "upload"}
        /\ \A v \in Workers : v # w =>
             wpc'[v] = wpc[v] /\ source'[v] = source[v] /\ job'[v] = job[v]
        /\ wpc'[w] = "take" /\ job'[w] = None
        /\ FilesStay(DirOf(job[w]))
      BY <1>0, <1>5 DEF Leaves, LeaveJob
  <2>2. MembersOK' /\ \A g : DirOf(g)' = DirOf(g)
      BY <2>1 DEF Shape, MembersOK, DirOf
  <2>3. job[w] # None /\ job[w] \in Range(SqlFiles)
      BY <2>1, BusyFacts
  <2>4. \A v \in Workers : v # w /\ job[v] # None =>
          job[v] \in Range(SqlFiles) /\ DirOf(job[v]) # DirOf(job[w])
    <3>1. ASSUME NEW v \in Workers, v # w, job[v] # None
          PROVE  job[v] \in Range(SqlFiles) /\ job[v] # job[w]
        BY <1>0, <3>1 DEF Shape
    <3> QED
        BY <2>3, <3>1, DirFacts DEF Shape
  <2>5. ASSUME NEW v \in Workers, wpc'[v] \in {"find", "fetch"}, NEW t \in TablesOf(job'[v])
        PROVE  <<DirOf(job'[v]), t>> \in DOMAIN files'
    <3>1. v # w
        BY <2>1, <2>5
    <3>2. wpc[v] \in {"find", "fetch"} /\ job'[v] = job[v]
        BY <2>1, <2>5, <3>1
    <3>3. job[v] # None
        BY <3>2 DEF Shape
    <3>4. <<DirOf(job[v]), t>> \in DOMAIN files
        BY <2>5, <3>2 DEF Shape
    <3>5. <<DirOf(job[v]), t>>[1] # DirOf(job[w])
        BY <2>4, <3>1, <3>3
    <3> QED
        BY <2>1, <3>2, <3>4, <3>5 DEF FilesStay
  <2>6. \A v \in Workers : wpc'[v] \in {"take", "ended"} <=> job'[v] = None
      BY <2>1 DEF Shape
  <2>7. \A v \in Workers : wpc'[v] \in {"find", "fetch"} =>
          \A t \in TablesOf(job'[v]) : <<DirOf(job[v])', t>> \in DOMAIN files'
    <3>1. \A v \in Workers : DirOf(job[v])' = DirOf(job'[v])
        BY <2>1 DEF DirOf
    <3> QED
        BY <2>5, <3>1
  <2>8. \A v \in Workers : job'[v] # None =>
          /\ source'[v] \in DOMAIN members'[job'[v]]
          /\ \E i \in DOMAIN jobs' : i < next' /\ job'[v] = jobs'[i]
      BY <2>1 DEF Shape
  <2>9. xpc' # "running" => \A v \in Workers : wpc'[v] = "ended"
      BY <2>1 DEF Shape
  <2>10. \A u, v \in Workers : u # v /\ job'[u] # None => job'[u] # job'[v]
      BY <2>1 DEF Shape
  <2> QED
      BY <2>1, <2>2, <2>6, <2>7, <2>8, <2>9, <2>10 DEF Shape
<1>6. ASSUME NEW w \in Workers, TakeJob(w) PROVE Shape'
  <2> DEFINE g == jobs[next]
             dir == DirOf(g)
  <2>1. /\ next \in DOMAIN jobs /\ g \in Range(SqlFiles) /\ next' = next + 1
        /\ wpc[w] = "take" /\ g # None /\ next \in Nat
      BY <1>0, <1>6 DEF TakeJob
  <2>2. /\ UNCHANGED <<xpc, jobs, members>>
        /\ \A v \in Workers : v # w =>
             wpc'[v] = wpc[v] /\ source'[v] = source[v] /\ job'[v] = job[v]
        /\ wpc'[w] = "find" /\ job'[w] = g /\ source'[w] = 1
      BY <1>0, <1>6 DEF TakeJob, command
  <2>3. DOMAIN files' = (DOMAIN files \ InDir(dir)) \union {<<dir, t>> : t \in TablesOf(g)}
      BY <1>6 DEF TakeJob
  <2>4. MembersOK' /\ \A h : DirOf(h)' = DirOf(h)
      BY <2>2 DEF Shape, MembersOK, DirOf
  <2>5. \A v \in Workers : job[v] # None => job[v] # g
    <3>1. ASSUME NEW v \in Workers, job[v] # None, job[v] = g PROVE FALSE
      <4>1. PICK i \in DOMAIN jobs : i < next /\ job[v] = jobs[i]
          BY <3>1 DEF Shape
      <4>2. i = next
          BY <2>1, <3>1, <4>1 DEF Shape, IsInjective
      <4> QED
          BY <2>1, <4>1, <4>2
    <3> QED
        BY <3>1
  <2>6. \A v \in Workers : v # w /\ job[v] # None =>
          job[v] \in Range(SqlFiles) /\ DirOf(job[v]) # dir
    <3>1. ASSUME NEW v \in Workers, v # w, job[v] # None
          PROVE  job[v] \in Range(SqlFiles) /\ job[v] # g
        BY <1>0, <2>5, <3>1
    <3> QED
        BY <2>1, <3>1, DirFacts DEF Shape
  <2>7. 1 \in DOMAIN members[g]
    <3>1. members[g] \in Seq(Colls) /\ members[g] # <<>>
        BY <2>1 DEF Shape, MembersOK
    <3> QED
        BY <3>1
  <2> HIDE DEF g, dir
  <2>8. ASSUME NEW v \in Workers, wpc'[v] \in {"find", "fetch"}, NEW t \in TablesOf(job'[v])
        PROVE  <<DirOf(job'[v]), t>> \in DOMAIN files'
    <3>1. CASE v = w
        BY <2>2, <2>3, <2>8, <3>1 DEF dir
    <3>2. CASE v # w
      <4>1. wpc[v] \in {"find", "fetch"} /\ job'[v] = job[v]
          BY <2>2, <2>8, <3>2
      <4>2. job[v] # None
          BY <4>1 DEF Shape
      <4>3. <<DirOf(job[v]), t>> \in DOMAIN files
          BY <2>8, <4>1 DEF Shape
      <4>4. <<DirOf(job[v]), t>>[1] # dir
          BY <2>6, <3>2, <4>2
      <4> QED
          BY <2>3, <4>1, <4>3, <4>4 DEF InDir
    <3> QED
        BY <3>1, <3>2
  <2>9. \A v \in Workers : wpc'[v] \in {"take", "ended"} <=> job'[v] = None
    <3>1. ASSUME NEW v \in Workers
          PROVE  wpc'[v] \in {"take", "ended"} <=> job'[v] = None
      <4>1. CASE v = w
          BY <2>1, <2>2, <4>1
      <4>2. CASE v # w
          BY <2>2, <4>2 DEF Shape
      <4> QED
          BY <4>1, <4>2
    <3> QED
        BY <3>1
  <2>10. \A v \in Workers : wpc'[v] \in {"find", "fetch"} =>
          \A t \in TablesOf(job'[v]) : <<DirOf(job[v])', t>> \in DOMAIN files'
    <3>1. \A v \in Workers : DirOf(job[v])' = DirOf(job'[v])
        BY <2>2 DEF DirOf
    <3> QED
        BY <2>8, <3>1
  <2>11. ASSUME NEW v \in Workers, job'[v] # None
         PROVE  /\ source'[v] \in DOMAIN members'[job'[v]]
                /\ \E i \in DOMAIN jobs' : i < next' /\ job'[v] = jobs'[i]
    <3>1. CASE v = w
      <4>1. next < next' /\ g = jobs[next]
          BY <2>1 DEF g
      <4> QED
          BY <2>1, <2>2, <2>7, <3>1, <4>1
    <3>2. CASE v # w
      <4>1. PICK i \in DOMAIN jobs : i < next /\ job[v] = jobs[i]
          BY <2>2, <2>11, <3>2 DEF Shape
      <4>2. i < next'
          BY <1>0, <2>1, <4>1
      <4> QED
          BY <2>2, <2>11, <3>2, <4>1, <4>2 DEF Shape
    <3> QED
        BY <3>1, <3>2
  <2>12. xpc' # "running" => \A v \in Workers : wpc'[v] = "ended"
      BY <2>1, <2>2 DEF Shape
  <2>13. \A u, v \in Workers : u # v /\ job'[u] # None => job'[u] # job'[v]
      BY <2>2, <2>5 DEF Shape
  <2>14. IsInjective(jobs') /\ \A i \in DOMAIN jobs' : members'[jobs'[i]] # <<>>
      BY <2>2 DEF Shape
  <2> QED
      BY <2>4, <2>9, <2>10, <2>11, <2>12, <2>13, <2>14 DEF Shape
<1>7. ASSUME NEW w \in Workers, NoMoreJobs(w) PROVE Shape'
  <2>1. /\ UNCHANGED <<xpc, jobs, members, next, job, source, files>>
        /\ \A v \in Workers : v # w => wpc'[v] = wpc[v]
        /\ wpc'[w] = "ended" /\ wpc[w] = "take"
      BY <1>0, <1>7 DEF NoMoreJobs, command, stream
  <2>2. MembersOK' /\ \A h : DirOf(h)' = DirOf(h)
      BY <2>1 DEF Shape, MembersOK, DirOf
  <2>3. \A v \in Workers : wpc'[v] \in {"take", "ended"} <=> job'[v] = None
      BY <2>1 DEF Shape
  <2>4. \A v \in Workers : wpc'[v] \in {"find", "fetch"} =>
          \A t \in TablesOf(job'[v]) : <<DirOf(job[v])', t>> \in DOMAIN files'
      BY <2>1, <2>2 DEF Shape
  <2>5. xpc' # "running" => \A v \in Workers : wpc'[v] = "ended"
      BY <2>1 DEF Shape
  <2> QED
      BY <2>1, <2>2, <2>3, <2>4, <2>5 DEF Shape
<1> QED
    BY <1>1, <1>2, <1>3, <1>4, <1>5, <1>6, <1>7 DEF ExportKind

\* While an export runs, the jobs off the counter are those that are over and
\* those of the workers, and a worker ends when there are no more.
Accounted ==
  xpc = "running" =>
    /\ \A g \in Range(SqlFiles) :
         (g \in doneJobs \union failedJobs \/ \E w \in Workers : job[w] = g)
           <=> \E i \in DOMAIN jobs : i < next /\ jobs[i] = g
    /\ \A w \in Workers : wpc[w] = "ended" => next > Len(jobs)

\* Every kind of step keeps the account.
LEMMA AccountedNext ==
  ASSUME ExportTypes, Shape, Accounted, ExportKind
  PROVE  Accounted'
<1> USE DEF outcome
<1>0. /\ jobs \in Seq(Range(SqlFiles)) /\ next \in 1 .. Len(jobs) + 1
      /\ wpc \in [Workers -> {"take", "find", "fetch", "upload", "ended"}]
      /\ job \in [Workers -> Range(SqlFiles) \union {None}]
      /\ None \notin Range(SqlFiles)
    BY ArtifactsAssumption DEF ExportTypes, ExportTypeOK
<1>1. CASE Same
    BY <1>1 DEF Same, Accounted
<1>2. CASE Over
    BY <1>2 DEF Over, Accounted
<1>3. CASE StartExport
  <2>1. /\ next' = 1 /\ doneJobs' = {} /\ failedJobs' = {} /\ job' = job
        /\ wpc' = [w \in Workers |-> "take"] /\ jobs' = PlannedJobs
        /\ xpc # "running"
      BY <1>3 DEF StartExport
  <2>2. \A w \in Workers : job[w] = None
      BY <2>1 DEF Shape
  <2>3. \A i \in DOMAIN jobs' : ~(i < next')
    <3>1. PlannedJobs \in Seq(Range(SqlFiles))
        BY PlannedFacts
    <3> QED
        BY <2>1, <3>1
  <2>4. \A w \in Workers : wpc'[w] # "ended"
      BY <2>1
  <2> QED
      BY <1>0, <2>1, <2>2, <2>3, <2>4 DEF Accounted
<1>4. ASSUME NEW w \in Workers, Moves(w) PROVE Accounted'
  <2>1. /\ UNCHANGED <<xpc, jobs, next, job, doneJobs, failedJobs>>
        /\ \A v \in Workers : wpc'[v] = "ended" => wpc[v] = "ended"
      BY <1>0, <1>4 DEF Moves
  <2> QED
      BY <2>1 DEF Accounted
<1>5. ASSUME NEW w \in Workers, Leaves(w) PROVE Accounted'
  <2>1. /\ UNCHANGED <<xpc, jobs, next>>
        /\ doneJobs' \union failedJobs' = doneJobs \union failedJobs \union {job[w]}
        /\ \A v \in Workers : v # w => wpc'[v] = wpc[v] /\ job'[v] = job[v]
        /\ wpc'[w] = "take" /\ job'[w] = None
      BY <1>0, <1>5 DEF Leaves, LeaveJob
  <2>2. ASSUME NEW g \in Range(SqlFiles)
        PROVE  (g \in doneJobs' \union failedJobs' \/ \E v \in Workers : job'[v] = g)
                 <=> (g \in doneJobs \union failedJobs \/ \E v \in Workers : job[v] = g)
    <3>1. g # None
        BY <1>0
    <3> QED
        BY <2>1, <3>1
  <2> QED
      BY <2>1, <2>2 DEF Accounted
<1>6. ASSUME NEW w \in Workers, TakeJob(w) PROVE Accounted'
  <2>1. /\ UNCHANGED <<xpc, jobs, doneJobs, failedJobs>>
        /\ next \in DOMAIN jobs /\ next' = next + 1 /\ wpc[w] = "take"
        /\ \A v \in Workers : v # w => wpc'[v] = wpc[v] /\ job'[v] = job[v]
        /\ wpc'[w] = "find" /\ job'[w] = jobs[next]
      BY <1>0, <1>6 DEF TakeJob, command
  <2>2. job[w] = None
      BY <2>1 DEF Shape
  <2>3. ASSUME NEW g \in Range(SqlFiles)
        PROVE  (\E v \in Workers : job'[v] = g)
                 <=> (g = jobs[next] \/ \E v \in Workers : job[v] = g)
    <3>1. g # None
        BY <1>0
    <3> QED
        BY <2>1, <2>2, <3>1
  <2>4. ASSUME NEW g
        PROVE  (\E i \in DOMAIN jobs : i < next' /\ jobs[i] = g)
                 <=> (g = jobs[next] \/ \E i \in DOMAIN jobs : i < next /\ jobs[i] = g)
    <3>1. \A i \in DOMAIN jobs : i < next' <=> i < next \/ i = next
        BY <1>0, <2>1
    <3> QED
        BY <2>1, <3>1
  <2>5. \A v \in Workers : wpc'[v] = "ended" => wpc[v] = "ended"
      BY <2>1
  <2>6. xpc = "running" => \A v \in Workers : wpc[v] # "ended"
    <3>1. ~(next > Len(jobs))
        BY <1>0, <2>1
    <3> QED
        BY <3>1 DEF Accounted
  <2> QED
      BY <2>1, <2>3, <2>4, <2>5, <2>6 DEF Accounted
<1>7. ASSUME NEW w \in Workers, NoMoreJobs(w) PROVE Accounted'
  <2>1. /\ UNCHANGED <<xpc, jobs, next, job, doneJobs, failedJobs>>
        /\ next > Len(jobs)
      BY <1>7 DEF NoMoreJobs, command, stream
  <2> QED
      BY <2>1 DEF Accounted
<1> QED
    BY <1>1, <1>2, <1>3, <1>4, <1>5, <1>6, <1>7 DEF ExportKind

\* The invariant of the export.
ExportInv == ExportTypes /\ Shape /\ Accounted

\* A step of the export keeps it.
LEMMA ExportInvNext ==
  ASSUME ExportInv, DoExport
  PROVE  ExportInv' /\ ExportKind
<1> USE DEF ExportInv
<1>1. ASSUME ExportTypes', ExportKind PROVE ExportInv'
    BY <1>1, ShapeNext, AccountedNext
<1>2. CASE StartExport
    BY <1>2, StartEffect, AccountedNext DEF ExportKind
<1>3. CASE WorkerStep
    BY <1>1, <1>3, WorkerEffect DEF WorkerStep
<1>4. CASE \E d \in Docs : Store(d)
    BY <1>1, <1>4, StoreTypes DEF ExportKind
<1>5. CASE EndExport
    BY <1>1, <1>5, LeaveExportTypes DEF ExportKind, EndExport
<1>6. CASE KillExport
    BY <1>1, <1>6, LeaveExportTypes DEF ExportKind, KillExport
<1> QED
    BY <1>2, <1>3, <1>4, <1>5, <1>6 DEF DoExport

\* A step of an import leaves it alone.
LEMMA ExportInvIdle ==
  ASSUME ExportInv, UNCHANGED <<exportVars, natural, remote, files, objects>>
  PROVE  ExportInv'
<1> USE DEF exportVars
<1>1. ExportTypes'
    BY DEF ExportInv, ExportTypes, ExportTypeOK, Typed
<1>2. Shape' /\ Accounted'
    BY DEF ExportInv, Shape, MembersOK, DirOf, Accounted
<1> QED
    BY <1>1, <1>2 DEF ExportInv

----------------------------------------------------------------------------
(* Paths and the choice among them.                                        *)

\* The order of tables has every table once.
LEMMA TableOrderFacts ==
  TableOrder \in Seq(Tables) /\ IsInjective(TableOrder) /\ ToSet(TableOrder) = Tables
<1> DEFINE ss == [i \in DOMAIN SqlFiles |-> <<RootOf[SqlFiles[i]], ChildOf[SqlFiles[i]]>>]
           N == Len(SqlFiles)
<1>0. /\ N \in Nat /\ DOMAIN SqlFiles = 1 .. N /\ DOMAIN ss = 1 .. N
      /\ \A i \in 1 .. N : SqlFiles[i] \in Range(SqlFiles)
      /\ \A g \in Range(SqlFiles) : \E i \in 1 .. N : g = SqlFiles[i]
    BY SqlFacts
<1>1. /\ IsInjective(SqlFiles) /\ IsInjective(RootOf) /\ IsInjective(ChildOf)
      /\ DOMAIN RootOf = Range(SqlFiles) /\ DOMAIN ChildOf = Range(SqlFiles)
      /\ Range(RootOf) \intersect Range(ChildOf) = {}
    BY ArtifactsAssumption
<1>2. \A i \in 1 .. N : ss[i] = <<RootOf[SqlFiles[i]], ChildOf[SqlFiles[i]]>>
    BY <1>0
<1> HIDE DEF ss, N
<1>3. \A g \in Range(SqlFiles) :
        /\ RootOf[g] \in Range(RootOf) /\ ChildOf[g] \in Range(ChildOf)
        /\ RootOf[g] \in Tables /\ ChildOf[g] \in Tables
    BY <1>1 DEF Tables, Range
<1>4. ASSUME NEW i \in 1 .. N
      PROVE  /\ ss[i] \in Seq(Tables) /\ IsInjective(ss[i])
             /\ ToSet(ss[i]) = TablesOf(SqlFiles[i])
  <2>1. /\ RootOf[SqlFiles[i]] \in Tables /\ ChildOf[SqlFiles[i]] \in Tables
        /\ RootOf[SqlFiles[i]] # ChildOf[SqlFiles[i]]
      BY <1>0, <1>1, <1>3
  <2>2. ss[i] \in Seq(Tables) /\ DOMAIN ss[i] = {1, 2}
    <3>1. ASSUME NEW a \in Tables, NEW b \in Tables
          PROVE  <<a, b>> \in Seq(Tables) /\ DOMAIN <<a, b>> = {1, 2}
        OBVIOUS
    <3> DEFINE a == RootOf[SqlFiles[i]]   b == ChildOf[SqlFiles[i]]
    <3>2. a \in Tables /\ b \in Tables /\ ss[i] = <<a, b>>
        BY <1>2, <2>1
    <3> HIDE DEF a, b
    <3>3. <<a, b>> \in Seq(Tables) /\ DOMAIN <<a, b>> = {1, 2}
        BY <3>1, <3>2
    <3> QED
        BY <3>2, <3>3, Zenon
  <2>3. ss[i][1] = RootOf[SqlFiles[i]] /\ ss[i][2] = ChildOf[SqlFiles[i]]
      BY <1>2
  <2>4. IsInjective(ss[i])
      BY <2>1, <2>2, <2>3 DEF IsInjective
  <2>5. ToSet(ss[i]) = TablesOf(SqlFiles[i])
      BY <2>2, <2>3 DEF ToSet, TablesOf
  <2> QED
      BY <2>2, <2>4, <2>5
<1>5. ss \in Seq(Seq(Tables))
  <2>1. ss \in [1 .. N -> Seq(Tables)]
      BY <1>0, <1>4 DEF ss
  <2> QED
      BY <1>0, <2>1
<1>6. ASSUME NEW i \in 1 .. N, NEW j \in 1 .. N, i # j
      PROVE  ToSet(ss[i]) \intersect ToSet(ss[j]) = {}
  <2> DEFINE g == SqlFiles[i]   h == SqlFiles[j]
  <2>1. g \in Range(SqlFiles) /\ h \in Range(SqlFiles) /\ g # h
      BY <1>0, <1>1, <1>6 DEF IsInjective
  <2> HIDE DEF g, h
  <2>2. RootOf[g] # RootOf[h] /\ ChildOf[g] # ChildOf[h]
      BY <1>1, <2>1 DEF IsInjective
  <2>3. RootOf[g] # ChildOf[h] /\ ChildOf[g] # RootOf[h]
      BY <1>1, <1>3, <2>1
  <2>4. TablesOf(g) \intersect TablesOf(h) = {}
      BY <2>2, <2>3 DEF TablesOf
  <2> QED
      BY <1>4, <2>4 DEF g, h
<1>7. TableOrder = FlattenSeq(ss)
    BY DEF TableOrder, ss
<1>8. TableOrder \in Seq(Tables) /\ IsInjective(TableOrder)
    BY <1>0, <1>4, <1>5, <1>6, <1>7, FlattenProperties
<1>9. ToSet(TableOrder) = UNION {ToSet(ss[i]) : i \in 1 .. N}
    BY <1>0, <1>5, <1>7, FlattenProperties
<1>10. UNION {ToSet(ss[i]) : i \in 1 .. N} = Tables
  <2>1. \A t \in Tables : \E i \in 1 .. N : t \in ToSet(ss[i])
    <3> SUFFICES ASSUME NEW t \in Tables PROVE \E i \in 1 .. N : t \in ToSet(ss[i])
        OBVIOUS
    <3>1. PICK g \in Range(SqlFiles) : t \in TablesOf(g)
        BY SqlFacts
    <3>2. PICK i \in 1 .. N : g = SqlFiles[i]
        BY <1>0
    <3> QED
        BY <1>4, <3>1, <3>2
  <2>2. \A i \in 1 .. N : ToSet(ss[i]) \subseteq Tables
      BY <1>0, <1>4, SqlFacts
  <2> QED
      BY <2>1, <2>2
<1> QED
    BY <1>8, <1>9, <1>10

\* The order of paths has every path of a table once.
LEMMA PathOrderFacts ==
  /\ PathOrder \in Seq(Path) /\ IsInjective(PathOrder)
  /\ ToSet(PathOrder) = Range(DirOrder) \X Tables
<1> DEFINE N == Len(DirOrder)   M == Len(TableOrder)
           ss == [i \in DOMAIN DirOrder |->
                    [j \in DOMAIN TableOrder |-> <<DirOrder[i], TableOrder[j]>>]]
<1>1. /\ N \in Nat /\ DOMAIN DirOrder = 1 .. N /\ IsInjective(DirOrder)
      /\ \A i \in 1 .. N : DirOrder[i] \in Range(DirOrder)
    <2>1. DirOrder \in Seq(Range(DirOrder)) /\ IsInjective(DirOrder)
        BY ArtifactsAssumption
    <2> QED
        BY <2>1
<1>2. /\ M \in Nat /\ DOMAIN TableOrder = 1 .. M /\ IsInjective(TableOrder)
      /\ \A j \in 1 .. M : TableOrder[j] \in Tables
    <2>1. TableOrder \in Seq(Tables) /\ IsInjective(TableOrder)
        BY TableOrderFacts
    <2> QED
        BY <2>1
<1>3. /\ DOMAIN ss = 1 .. N
      /\ \A i \in 1 .. N : ss[i] = [j \in 1 .. M |-> <<DirOrder[i], TableOrder[j]>>]
    BY <1>1, <1>2
<1> HIDE DEF ss, N, M
<1>4. ASSUME NEW i \in 1 .. N
      PROVE  /\ ss[i] \in Seq(Path) /\ IsInjective(ss[i])
             /\ ToSet(ss[i]) = {<<DirOrder[i], t>> : t \in Tables}
  <2>1. /\ DOMAIN ss[i] = 1 .. M
        /\ \A j \in 1 .. M : ss[i][j] = <<DirOrder[i], TableOrder[j]>>
      BY <1>3
  <2>2. ss[i] \in Seq(Path)
    <3>1. \A j \in 1 .. M : <<DirOrder[i], TableOrder[j]>> \in Path
        BY <1>1, <1>2 DEF Path
    <3>2. ss[i] \in [1 .. M -> Path]
        BY <1>3, <3>1
    <3> QED
        BY <1>2, <3>2
  <2>3. IsInjective(ss[i])
      BY <1>2, <2>1 DEF IsInjective
  <2>4. ToSet(ss[i]) = {<<DirOrder[i], t>> : t \in Tables}
    <3>1. Tables = {TableOrder[j] : j \in 1 .. M}
        BY <1>2, TableOrderFacts DEF ToSet
    <3>2. ToSet(ss[i]) = {ss[i][j] : j \in 1 .. M}
        BY <2>1 DEF ToSet
    <3> QED
        BY <2>1, <3>1, <3>2
  <2> QED
      BY <2>2, <2>3, <2>4
<1>5. ss \in Seq(Seq(Path))
  <2>1. ss \in [1 .. N -> Seq(Path)]
      BY <1>3, <1>4 DEF ss
  <2> QED
      BY <1>1, <2>1
<1>6. \A i, j \in 1 .. N : i # j => ToSet(ss[i]) \intersect ToSet(ss[j]) = {}
  <2> SUFFICES ASSUME NEW i \in 1 .. N, NEW j \in 1 .. N, i # j
               PROVE  ToSet(ss[i]) \intersect ToSet(ss[j]) = {}
      OBVIOUS
  <2>1. DirOrder[i] # DirOrder[j]
      BY <1>1 DEF IsInjective
  <2>2. ASSUME NEW q \in ToSet(ss[i]), q \in ToSet(ss[j]) PROVE FALSE
    <3>1. q[1] = DirOrder[i] /\ q[1] = DirOrder[j]
        BY <1>4, <2>2
    <3> QED
        BY <2>1, <3>1
  <2> QED
      BY <2>2
<1>7. PathOrder = FlattenSeq(ss)
    BY DEF PathOrder, ss
<1>8. PathOrder \in Seq(Path) /\ IsInjective(PathOrder)
    BY <1>3, <1>4, <1>5, <1>6, <1>7, FlattenProperties
<1>9. ToSet(PathOrder) = UNION {ToSet(ss[i]) : i \in 1 .. N}
    BY <1>3, <1>5, <1>7, FlattenProperties
<1>10. Range(DirOrder) = {DirOrder[i] : i \in 1 .. N}
    BY <1>1 DEF Range
<1>11. UNION {ToSet(ss[i]) : i \in 1 .. N} = Range(DirOrder) \X Tables
  <2>1. \A i \in 1 .. N : ToSet(ss[i]) \subseteq Range(DirOrder) \X Tables
      BY <1>1, <1>4
  <2>2. ASSUME NEW d \in Range(DirOrder), NEW t \in Tables
        PROVE  \E i \in 1 .. N : <<d, t>> \in ToSet(ss[i])
    <3>1. PICK i \in 1 .. N : d = DirOrder[i]
        BY <1>10
    <3> QED
        BY <1>4, <3>1
  <2> QED
      BY <2>1, <2>2
<1> QED
    BY <1>8, <1>9, <1>11

\* The CSV files an import reads, and of those the one for table t, the tables
\* that have one, and the files in the order they are copied.
Shared  == IF remote THEN objects ELSE files
Pref(t) == CHOOSE q \in DOMAIN Shared :
             /\ q[2] = t
             /\ \A r \in DOMAIN Shared : r[2] = t /\ r # q => Earlier(q, r)
Having  == {u \in Tables : \E q \in DOMAIN Shared : q[2] = u}
Plan    == Pick(PathOrder, {Pref(t) : t \in Having})

\* The rows process p reads from the i-th of them, and from the first n.
PlanLines(p, i) ==
  {[table |-> Plan[i][2], key |-> Shared[Plan[i]].lines[k].key,
    doc |-> Shared[Plan[i]].lines[k].doc, by |-> p]
      : k \in DOMAIN Shared[Plan[i]].lines}
Copied(p, n) == UNION {PlanLines(p, i) : i \in 1 .. n}

\* Positions of directories differ.
LEMMA DirAtFacts ==
  /\ \A d \in Range(DirOrder) : DirAt(d) \in Nat
  /\ \A d, e \in Range(DirOrder) : DirAt(d) = DirAt(e) => d = e
<1>1. ASSUME NEW d \in Range(DirOrder)
      PROVE  DirAt(d) \in DOMAIN DirOrder /\ DirOrder[DirAt(d)] = d
  <2>1. \E i \in DOMAIN DirOrder : DirOrder[i] = d
      BY DEF Range
  <2> QED
      BY <2>1 DEF DirAt
<1>2. DOMAIN DirOrder \subseteq Nat
  <2>1. DirOrder \in Seq(Range(DirOrder))
      BY ArtifactsAssumption
  <2> QED
      BY <2>1
<1>3. \A d \in Range(DirOrder) : DirAt(d) \in Nat
    BY <1>1, <1>2
<1>4. \A d, e \in Range(DirOrder) : DirAt(d) = DirAt(e) => d = e
    BY <1>1
<1> QED
    BY <1>3, <1>4

\* Of the files for a table there is one in the first directory.
LEMMA PrefFacts ==
  ASSUME Typed(Shared), NEW t \in Having
  PROVE  /\ Pref(t) \in DOMAIN Shared /\ Pref(t)[2] = t
         /\ \A r \in DOMAIN Shared : r[2] = t /\ r # Pref(t) => Earlier(Pref(t), r)
<1> DEFINE Q == {q \in DOMAIN Shared : q[2] = t}
           T == {DirAt(q[1]) : q \in Q}
           First(q) == \A r \in DOMAIN Shared : r[2] = t /\ r # q => Earlier(q, r)
<1>1. \A q \in Q : q \in Path /\ q = <<q[1], q[2]>> /\ q[1] \in Range(DirOrder) /\ q[2] = t
    BY DEF Typed, Path
<1>2. T \in SUBSET Nat /\ T # {}
    BY <1>1, DirAtFacts DEF Having
<1>3. PICK n \in T : \A m \in T : n <= m
  <2> HIDE DEF T
  <2> QED
      BY <1>2, LeastNat
<1>4. PICK q \in Q : DirAt(q[1]) = n
    OBVIOUS
<1>5. ASSUME NEW r \in DOMAIN Shared, r[2] = t, r # q PROVE Earlier(q, r)
  <2>1. r \in Q /\ DirAt(r[1]) \in T
      BY <1>5
  <2>2. q[1] # r[1]
      BY <1>1, <1>5, <2>1
  <2>3. DirAt(q[1]) # DirAt(r[1]) /\ DirAt(q[1]) \in Nat /\ DirAt(r[1]) \in Nat
      BY <1>1, <2>1, <2>2, DirAtFacts
  <2> QED
      BY <1>3, <1>4, <2>1, <2>3 DEF Earlier
<1>6. q \in DOMAIN Shared /\ q[2] = t /\ First(q)
    BY <1>5
<1>7. Pref(t) = CHOOSE x \in DOMAIN Shared : x[2] = t /\ First(x)
    BY DEF Pref
<1> HIDE DEF First
<1>8. Pref(t) \in DOMAIN Shared /\ Pref(t)[2] = t /\ First(Pref(t))
    BY <1>6, <1>7
<1> QED
    BY <1>8 DEF First

\* The files to copy: one for each table that has one.
LEMMA PlanFacts ==
  ASSUME Typed(Shared)
  PROVE  /\ Plan \in Seq(Path)
         /\ ToSet(Plan) = {Pref(t) : t \in Having}
         /\ \A i \in DOMAIN Plan :
              /\ Plan[i] \in DOMAIN Shared /\ Plan[i][2] \in Having
              /\ Plan[i] = Pref(Plan[i][2]) /\ Shared[Plan[i]] \in File
         /\ \A i, j \in DOMAIN Plan : Plan[i][2] = Plan[j][2] => i = j
<1> DEFINE C == {Pref(t) : t \in Having}
<1>1. C \subseteq ToSet(PathOrder)
  <2>1. ASSUME NEW t \in Having PROVE Pref(t) \in Range(DirOrder) \X Tables
    <3>1. Pref(t) \in Path /\ Pref(t)[2] = t /\ t \in Tables
        BY PrefFacts DEF Typed, Having
    <3> QED
        BY <3>1 DEF Path
  <2> QED
      BY <2>1, PathOrderFacts
<1>2. Plan = Pick(PathOrder, C)
    BY DEF Plan
<1> HIDE DEF C
<1>3. Plan \in Seq(Path) /\ IsInjective(Plan)
    BY <1>2, PathOrderFacts, PickProperties, PickInjective
<1>4. ToSet(Plan) = C
  <2>1. ToSet(Plan) = ToSet(PathOrder) \intersect C
      BY <1>2, PathOrderFacts, PickProperties
  <2> QED
      BY <1>1, <2>1
<1>5. ASSUME NEW i \in DOMAIN Plan
      PROVE  /\ Plan[i] \in DOMAIN Shared /\ Plan[i][2] \in Having
             /\ Plan[i] = Pref(Plan[i][2]) /\ Shared[Plan[i]] \in File
  <2>1. Plan[i] \in C
      BY <1>4 DEF ToSet
  <2>2. PICK t \in Having : Plan[i] = Pref(t)
      BY <2>1 DEF C
  <2>3. Plan[i] \in DOMAIN Shared /\ Plan[i][2] = t
      BY <2>2, PrefFacts
  <2> QED
      BY <2>2, <2>3 DEF Typed
<1>6. \A i, j \in DOMAIN Plan : Plan[i][2] = Plan[j][2] => i = j
    BY <1>3, <1>5 DEF IsInjective
<1> QED
    BY <1>3, <1>4, <1>5, <1>6 DEF C

\* The rows of a process.
LEMMA PlanLinesFacts ==
  ASSUME Typed(Shared), NEW p \in Importers, NEW i \in DOMAIN Plan
  PROVE  /\ PlanLines(p, i) \subseteq Row
         /\ \A r \in PlanLines(p, i) : r.by = p /\ r.table = Plan[i][2]
<1>1. Shared[Plan[i]] \in File /\ Plan[i][2] \in Tables
    BY PlanFacts DEF Having
<1>2. ASSUME NEW k \in DOMAIN Shared[Plan[i]].lines
      PROVE  Shared[Plan[i]].lines[k] \in Line
    BY <1>1, <1>2 DEF File
<1> QED
    BY <1>1, <1>2 DEF PlanLines, Row, Line

----------------------------------------------------------------------------
(* The import: types, and where a process is.                              *)

\* A process past the download reads the files of the bucket, it is at one of
\* the SQL files or one of the files it has chosen, and its transaction has
\* the rows of the files before that one.
Progress(p) ==
  /\ ipc[p] \in AtRest \union {"stage"} => staged[p] = <<>>
  /\ ipc[p] \in {"stage", "discover", "copy", "commit", "report"} => kind[p] \in Imports
  /\ remote /\ kind[p] \in Imports
       /\ ipc[p] \in {"check", "ddl", "discover", "copy", "commit", "report"} =>
     staged[p] = objects
  /\ ipc[p] \in {"check", "ddl"} => nth[p] \in 1 .. Len(SqlFiles)
  /\ ipc[p] \in AtRest \union {"stage", "discover"} => nth[p] = 1
  /\ ipc[p] \in {"copy", "commit", "report"} => csvs[p] = Plan
  /\ ipc[p] = "copy" => nth[p] \in 1 .. Len(Plan)
  /\ ipc[p] = "commit" => nth[p] = Len(Plan) + 1
  /\ ipc[p] \in {"copy", "commit"} => tx[p] = Copied(p, nth[p] - 1)
  /\ ipc[p] \notin {"copy", "commit"} => tx[p] = {}
  /\ ipc[p] # "failed" => why[p] = None

ImportInv ==
  /\ ImportTypeOK /\ staged \in [Importers -> {<<>>, objects}]
  /\ xpc = "running" => \A p \in Importers : ipc[p] = "idle"
  /\ \A p \in Importers : Progress(p)

\* What an import reads does not change.
Still == UNCHANGED <<natural, remote, files, objects>>

\* Then the plan of the files to copy and the rows copied do not change.
LEMMA StillFacts ==
  ASSUME Still
  PROVE  /\ Shared' = Shared /\ Plan' = Plan /\ Having' = Having
         /\ \A p, i : PlanLines(p, i)' = PlanLines(p, i)
         /\ \A p, n : Copied(p, n)' = Copied(p, n)
<1>1. Shared' = Shared
    BY DEF Still, Shared
<1>2. Having' = Having /\ \A t : Pref(t)' = Pref(t)
    BY <1>1 DEF Having, Pref
<1>3. Plan' = Plan
    BY <1>2 DEF Plan
<1>4. \A p, i : PlanLines(p, i)' = PlanLines(p, i)
    BY <1>1, <1>3 DEF PlanLines
<1>5. \A p, n : Copied(p, n)' = Copied(p, n)
    BY <1>4 DEF Copied
<1> QED
    BY <1>1, <1>2, <1>3, <1>4, <1>5

\* A process past the download reads the shared files.
LEMMA DataFacts ==
  ASSUME ImportInv, NEW p \in Importers,
         ipc[p] \in {"discover", "copy", "commit", "report"}
  PROVE  /\ Data(p) = Shared
         /\ Candidates(p) = {Pref(t) : t \in Having}
         /\ ipc[p] # "discover" => \A i : Lines(p, csvs[p][i]) = PlanLines(p, i)
<1>1. Data(p) = Shared
    BY DEF ImportInv, Progress, Data, Shared
<1>2. \A t : Chosen(p, t) = Pref(t)
    BY <1>1 DEF Chosen, Pref
<1>3. Candidates(p) = {Pref(t) : t \in Having}
    BY <1>1, <1>2 DEF Candidates, Having
<1>4. ipc[p] # "discover" => csvs[p] = Plan
    BY DEF ImportInv, Progress
<1>5. ipc[p] # "discover" => \A i : Lines(p, csvs[p][i]) = PlanLines(p, i)
    BY <1>1, <1>4 DEF Lines, PlanLines
<1> QED
    BY <1>1, <1>3, <1>5

\* A process that does nothing stays where it is.
LEMMA ProgressKept ==
  ASSUME Still, NEW v, Progress(v),
         ipc'[v] = ipc[v], staged'[v] = staged[v], kind'[v] = kind[v],
         nth'[v] = nth[v], csvs'[v] = csvs[v], tx'[v] = tx[v], why'[v] = why[v]
  PROVE  Progress(v)'
  BY StillFacts DEF Still, Progress

\* Only process p does something.
Others(p) ==
  \A v \in Importers \ {p} :
    /\ ipc'[v] = ipc[v] /\ staged'[v] = staged[v] /\ kind'[v] = kind[v]
    /\ nth'[v] = nth[v] /\ csvs'[v] = csvs[v] /\ tx'[v] = tx[v]
    /\ why'[v] = why[v]

\* What process p may do.
ImportAction(p) ==
  \/ StartImport(p) \/ StageData(p) \/ CheckFile(p) \/ RunDdl(p) \/ Discover(p)
  \/ Copy(p) \/ CommitLoad(p) \/ WriteReport(p) \/ LoseImport(p)

\* A process that ends.
LEMMA LeaveFacts ==
  ASSUME ImportInv, NEW p \in Importers, NEW pc \in {"done", "failed"},
         NEW reason \in Reasons \union {None}, Leave(p, pc, reason),
         pc = "done" => reason = None
  PROVE  /\ ipc' \in [Importers -> Preload \union AtRest \union {"report"}]
         /\ nth' \in [Importers -> Nat] /\ existing' \in [Importers -> SUBSET Tables]
         /\ csvs' \in [Importers -> Seq(Path)] /\ tx' \in [Importers -> SUBSET Row]
         /\ why' \in [Importers -> Reasons \union {None}]
         /\ staged' \in [Importers -> {<<>>, objects}]
         /\ \A v \in Importers : \A q \in DOMAIN staged'[v] :
              q \in Path /\ staged'[v][q] \in File
         /\ kind' = kind => Others(p)
         /\ ipc'[p] = pc /\ why'[p] = reason /\ staged'[p] = <<>> /\ nth'[p] = 1
         /\ tx'[p] = {}
         /\ Progress(p)'
<1>0. ImportTypeOK /\ staged \in [Importers -> {<<>>, objects}]
    BY DEF ImportInv
<1>1. /\ ipc' \in [Importers -> Preload \union AtRest \union {"report"}]
      /\ nth' \in [Importers -> Nat] /\ existing' \in [Importers -> SUBSET Tables]
      /\ why' \in [Importers -> Reasons \union {None}]
      /\ staged' \in [Importers -> {<<>>, objects}]
    BY <1>0 DEF Leave, ImportTypeOK, AtRest
<1>2. csvs' \in [Importers -> Seq(Path)] /\ tx' \in [Importers -> SUBSET Row]
    BY <1>0 DEF Leave, ImportTypeOK
<1>3. \A v \in Importers : \A q \in DOMAIN staged'[v] :
        q \in Path /\ staged'[v][q] \in File
    BY <1>0 DEF Leave, ImportTypeOK
<1>4. kind' = kind => Others(p)
    BY <1>0 DEF Leave, ImportTypeOK, Others
<1>5. /\ ipc'[p] = pc /\ why'[p] = reason /\ staged'[p] = <<>> /\ nth'[p] = 1
      /\ tx'[p] = {}
    BY <1>0 DEF Leave, ImportTypeOK
<1>6. Progress(p)'
    BY <1>5 DEF Progress, AtRest
<1> QED
    BY <1>1, <1>2, <1>3, <1>4, <1>5, <1>6

\* The invariant, from what is particular to a step.
LEMMA ImportInvFrom ==
  ASSUME ImportInv, NEW p \in Importers, Still, Others(p), ImportTypeOK',
         staged' \in [Importers -> {<<>>, objects}], Progress(p)',
         xpc' = xpc, xpc # "running"
  PROVE  ImportInv'
<1>1. ASSUME NEW v \in Importers PROVE Progress(v)'
  <2>1. CASE v = p
      BY <2>1
  <2>2. CASE v # p
    <3>1. Progress(v)
        BY DEF ImportInv
    <3> QED
        BY <2>2, <3>1, ProgressKept DEF Others
  <2> QED
      BY <2>1, <2>2
<1> QED
    BY <1>1 DEF ImportInv, Still

\* Each step of a process keeps the invariant.
LEMMA ImportStep ==
  ASSUME ImportInv, ExportInv, NEW p \in Importers, ImportAction(p),
         xpc' = xpc, xpc # "running"
  PROVE  ImportInv' /\ Still /\ Others(p)
<1> USE DEF database
<1>0. /\ ImportTypeOK /\ staged \in [Importers -> {<<>>, objects}] /\ Progress(p)
      /\ ipc \in [Importers -> Preload \union AtRest \union {"report"}]
      /\ kind \in [Importers -> Kinds] /\ nth \in [Importers -> Nat]
    BY DEF ImportInv, ImportTypeOK
<1>01. Typed(Shared) /\ Typed(objects)
    BY DEF ExportInv, ExportTypes, Shared
<1>02. ASSUME NEW reason \in Reasons, End(p, reason), Still, kind' = kind,
              UNCHANGED <<tables, rows>>, lost' \in 0 .. MaxLost
       PROVE  ImportInv' /\ Still /\ Others(p)
  <2>1. Leave(p, "failed", reason)
      BY <1>02 DEF End
  <2>2. ImportTypeOK'
      BY <1>0, <1>02, <2>1, LeaveFacts DEF ImportTypeOK
  <2> QED
      BY <1>02, <2>1, <2>2, LeaveFacts, ImportInvFrom
<1>1. CASE StartImport(p)
  <2>1. PICK k \in Kinds :
          /\ kind' = [kind EXCEPT ![p] = k]
          /\ ipc' = [ipc EXCEPT ![p] =
                       IF k \in Imports /\ remote THEN "stage" ELSE "check"]
      BY <1>1 DEF StartImport
  <2>2. /\ ipc[p] = "idle" /\ Still
        /\ UNCHANGED <<tables, rows, nth, existing, staged, csvs, tx, why, lost>>
      BY <1>1 DEF StartImport, Still
  <2>3. ImportTypeOK'
    <3>1. ipc' \in [Importers -> Preload \union AtRest \union {"report"}]
        BY <1>0, <2>1 DEF Preload
    <3>2. kind' \in [Importers -> Kinds]
        BY <1>0, <2>1
    <3> QED
        BY <1>0, <2>2, <3>1, <3>2 DEF ImportTypeOK
  <2>4. Others(p)
      BY <1>0, <2>1, <2>2 DEF Others
  <2>5. /\ kind'[p] = k /\ ipc'[p] = IF k \in Imports /\ remote THEN "stage" ELSE "check"
        /\ staged'[p] = <<>> /\ nth'[p] = 1 /\ tx'[p] = {} /\ why'[p] = None
    <3>1. staged[p] = <<>> /\ nth[p] = 1 /\ tx[p] = {} /\ why[p] = None
        BY <1>0, <2>2 DEF Progress, AtRest
    <3> QED
        BY <1>0, <2>1, <2>2, <3>1
  <2>6. 1 \in 1 .. Len(SqlFiles)
      BY SqlFacts
  <2>7. Progress(p)'
    <3>1. CASE k \in Imports /\ remote
        BY <2>2, <2>5, <3>1 DEF Progress, AtRest, Still
    <3>2. CASE ~(k \in Imports /\ remote)
        BY <2>2, <2>5, <2>6, <3>2 DEF Progress, AtRest, Still
    <3> QED
        BY <3>1, <3>2
  <2>8. staged' \in [Importers -> {<<>>, objects}]
      BY <1>0, <2>2
  <2> QED
      BY <2>2, <2>3, <2>4, <2>7, <2>8, ImportInvFrom
<1>2. CASE StageData(p)
  <2>1. ipc[p] = "stage" /\ Still /\ UNCHANGED <<tables, rows, kind, lost>>
      BY <1>2 DEF StageData, Still
  <2>2. CASE objects = <<>>
    <3>1. End(p, "nofile")
        BY <1>2, <2>2 DEF StageData
    <3>2. "nofile" \in Reasons /\ lost' \in 0 .. MaxLost
        BY <1>0, <2>1 DEF Reasons, ImportTypeOK
    <3> QED
        BY <1>02, <2>1, <3>1, <3>2
  <2>3. CASE objects # <<>>
    <3>1. /\ staged' = [staged EXCEPT ![p] = objects]
          /\ ipc' = [ipc EXCEPT ![p] = "check"]
          /\ UNCHANGED <<nth, existing, csvs, tx, why>>
        BY <1>2, <2>3 DEF StageData
    <3>2. ImportTypeOK'
      <4>1. \A v \in Importers : \A q \in DOMAIN staged'[v] :
              q \in Path /\ staged'[v][q] \in File
          BY <1>0, <1>01, <3>1 DEF ImportTypeOK, Typed
      <4>2. ipc' \in [Importers -> Preload \union AtRest \union {"report"}]
          BY <1>0, <3>1 DEF Preload
      <4> QED
          BY <1>0, <2>1, <3>1, <4>1, <4>2 DEF ImportTypeOK
    <3>3. Others(p)
        BY <1>0, <2>1, <3>1 DEF Others
    <3>4. /\ ipc'[p] = "check" /\ staged'[p] = objects /\ nth'[p] = 1
          /\ tx'[p] = {} /\ why'[p] = None
      <4>1. nth[p] = 1 /\ tx[p] = {} /\ why[p] = None
          BY <1>0, <2>1 DEF Progress
      <4> QED
          BY <1>0, <3>1, <4>1
    <3>5. Progress(p)'
      <4>1. 1 \in 1 .. Len(SqlFiles)
          BY SqlFacts
      <4> QED
          BY <2>1, <3>4, <4>1 DEF Progress, AtRest, Still
    <3>6. staged' \in [Importers -> {<<>>, objects}]
        BY <1>0, <3>1
    <3> QED
        BY <2>1, <3>2, <3>3, <3>5, <3>6, ImportInvFrom
  <2> QED
      BY <2>2, <2>3
<1>3. CASE CheckFile(p)
  <2> DEFINE found == FoundBy(p)
             more  == nth[p] < Len(SqlFiles)
  <2>1. ipc[p] = "check" /\ Still /\ UNCHANGED <<tables, rows, kind, lost>>
      BY <1>3 DEF CheckFile, Still
  <2>2. nth[p] \in 1 .. Len(SqlFiles) /\ SqlFiles[nth[p]] \in Range(SqlFiles)
      BY <1>0, <2>1, SqlFacts DEF Progress
  <2>3. found \subseteq Tables
      BY <1>0, <2>2, SqlFacts DEF FoundBy, ImportTypeOK
  <2> HIDE DEF found
  <2>4. CASE ~more /\ kind[p] \notin Forced /\ found # {}
    <3>1. End(p, "exists")
        BY <1>3, <2>4 DEF CheckFile, found
    <3>2. "exists" \in Reasons /\ lost' \in 0 .. MaxLost
        BY <1>0, <2>1 DEF Reasons, ImportTypeOK
    <3> QED
        BY <1>02, <2>1, <3>1, <3>2
  <2>5. CASE ~(~more /\ kind[p] \notin Forced /\ found # {})
    <3>1. /\ existing' = [existing EXCEPT ![p] = found]
          /\ nth' = [nth EXCEPT ![p] = IF more THEN nth[p] + 1 ELSE 1]
          /\ ipc' = [ipc EXCEPT ![p] = IF more THEN "check" ELSE "ddl"]
          /\ UNCHANGED <<staged, csvs, tx, why>>
        BY <1>3, <2>5 DEF CheckFile, found
    <3>2. (IF more THEN nth[p] + 1 ELSE 1) \in 1 .. Len(SqlFiles)
        BY <2>2, SqlFacts
    <3> DEFINE n == IF more THEN nth[p] + 1 ELSE 1
    <3>3. n \in 1 .. Len(SqlFiles) /\ nth' = [nth EXCEPT ![p] = n] /\ n \in Nat
        BY <3>1, <3>2
    <3> HIDE DEF n, more
    <3>4. ImportTypeOK'
      <4>1. ipc' \in [Importers -> Preload \union AtRest \union {"report"}]
          BY <1>0, <3>1 DEF Preload
      <4>2. nth' \in [Importers -> Nat] /\ existing' \in [Importers -> SUBSET Tables]
          BY <1>0, <2>3, <3>1, <3>3 DEF ImportTypeOK
      <4> QED
          BY <1>0, <2>1, <3>1, <4>1, <4>2 DEF ImportTypeOK
    <3>5. Others(p)
        BY <1>0, <2>1, <3>1, <3>3 DEF Others
    <3>6. /\ ipc'[p] \in {"check", "ddl"} /\ nth'[p] = n
          /\ staged'[p] = staged[p] /\ tx'[p] = {} /\ why'[p] = None /\ kind'[p] = kind[p]
      <4>1. tx[p] = {} /\ why[p] = None
          BY <1>0, <2>1 DEF Progress
      <4> QED
          BY <1>0, <2>1, <3>1, <3>3, <4>1
    <3>7. Progress(p)'
      <4>1. remote /\ kind[p] \in Imports => staged[p] = objects
          BY <1>0, <2>1 DEF Progress
      <4> QED
          BY <2>1, <3>3, <3>6, <4>1 DEF Progress, AtRest, Still
    <3>8. staged' \in [Importers -> {<<>>, objects}]
        BY <1>0, <3>1
    <3> QED
        BY <2>1, <3>4, <3>5, <3>7, <3>8, ImportInvFrom
  <2> QED
      BY <2>4, <2>5
<1>4. CASE RunDdl(p)
  <2> DEFINE g    == SqlFiles[nth[p]]
             more == nth[p] < Len(SqlFiles)
  <2>1. /\ ipc[p] = "ddl" /\ Still /\ UNCHANGED <<rows, kind, lost>>
        /\ tables' = Executed(p, g)
      BY <1>4 DEF RunDdl, Still
  <2>2. nth[p] \in 1 .. Len(SqlFiles) /\ g \in Range(SqlFiles) /\ TablesOf(g) \subseteq Tables
      BY <1>0, <2>1, SqlFacts DEF Progress
  <2> HIDE DEF g
  <2>3. DOMAIN tables' \subseteq Tables /\ Range(tables') \subseteq Importers
    <3>1. CASE tables' = tables
        BY <1>0, <3>1 DEF ImportTypeOK
    <3>2. CASE tables' = [t \in DOMAIN tables \union TablesOf(g) |->
                          IF t \in DOMAIN tables THEN tables[t] ELSE p]
      <4>1. /\ DOMAIN tables' = DOMAIN tables \union TablesOf(g)
            /\ \A t \in DOMAIN tables' : tables'[t] = IF t \in DOMAIN tables THEN tables[t] ELSE p
          BY <3>2
      <4> QED
          BY <1>0, <2>2, <4>1 DEF ImportTypeOK, Range
    <3> QED
        BY <2>1, <3>1, <3>2 DEF Executed
  <2>4. CASE ~Reused(p, g) /\ ~CanCreate(g)
    <3>1. End(p, "ddl")
        BY <1>4, <2>4 DEF RunDdl, g
    <3>2. "ddl" \in Reasons /\ lost' \in 0 .. MaxLost
        BY <1>0, <2>1 DEF Reasons, ImportTypeOK
    <3>3. tables' = tables
        BY <2>1, <2>4 DEF Executed
    <3> QED
        BY <1>02, <2>1, <3>1, <3>2, <3>3
  <2>5. CASE ~(~Reused(p, g) /\ ~CanCreate(g)) /\ ~more /\ kind[p] \in Bootstraps
    <3>1. Leave(p, "done", None)
        BY <1>4, <2>5 DEF RunDdl, g
    <3>2. ImportTypeOK'
        BY <1>0, <2>1, <2>3, <3>1, LeaveFacts DEF ImportTypeOK
    <3> QED
        BY <2>1, <3>1, <3>2, LeaveFacts, ImportInvFrom
  <2>6. CASE ~(~Reused(p, g) /\ ~CanCreate(g)) /\ ~(~more /\ kind[p] \in Bootstraps)
    <3>1. /\ ipc' = [ipc EXCEPT ![p] = IF more THEN "ddl" ELSE "discover"]
          /\ nth' = [nth EXCEPT ![p] = IF more THEN nth[p] + 1 ELSE 1]
          /\ UNCHANGED <<existing, staged, csvs, tx, why>>
        BY <1>4, <2>6 DEF RunDdl, g
    <3>2. /\ IF more THEN nth[p] + 1 \in 1 .. Len(SqlFiles) ELSE kind[p] \in Imports
          /\ (IF more THEN nth[p] + 1 ELSE 1) \in Nat
        BY <1>0, <2>2, <2>6, SqlFacts DEF Kinds
    <3> DEFINE n == IF more THEN nth[p] + 1 ELSE 1
               s == IF more THEN "ddl" ELSE "discover"
    <3>3. /\ nth' = [nth EXCEPT ![p] = n] /\ n \in Nat
          /\ ipc' = [ipc EXCEPT ![p] = s]
          /\ \/ s = "ddl" /\ n \in 1 .. Len(SqlFiles)
             \/ s = "discover" /\ kind[p] \in Imports /\ n = 1
        BY <3>1, <3>2
    <3> HIDE DEF n, s, more
    <3>4. ImportTypeOK'
      <4>1. ipc' \in [Importers -> Preload \union AtRest \union {"report"}]
          BY <1>0, <3>3 DEF Preload
      <4>2. nth' \in [Importers -> Nat]
          BY <1>0, <3>3
      <4> QED
          BY <1>0, <2>1, <2>3, <3>1, <4>1, <4>2 DEF ImportTypeOK
    <3>5. Others(p)
        BY <1>0, <2>1, <3>1, <3>3 DEF Others
    <3>6. /\ ipc'[p] = s /\ nth'[p] = n
          /\ staged'[p] = staged[p] /\ tx'[p] = {} /\ why'[p] = None /\ kind'[p] = kind[p]
      <4>1. tx[p] = {} /\ why[p] = None
          BY <1>0, <2>1 DEF Progress
      <4> QED
          BY <1>0, <2>1, <3>1, <3>3, <4>1
    <3>7. Progress(p)'
      <4>1. remote /\ kind[p] \in Imports => staged[p] = objects
          BY <1>0, <2>1 DEF Progress
      <4> QED
          BY <2>1, <3>3, <3>6, <4>1 DEF Progress, AtRest, Still
    <3>8. staged' \in [Importers -> {<<>>, objects}]
        BY <1>0, <3>1
    <3> QED
        BY <2>1, <3>4, <3>5, <3>7, <3>8, ImportInvFrom
  <2> QED
      BY <2>4, <2>5, <2>6
<1>5. CASE Discover(p)
  <2>1. ipc[p] = "discover" /\ Still /\ UNCHANGED <<tables, rows, kind, lost>>
      BY <1>5 DEF Discover, Still
  <2>2. CASE Candidates(p) = {}
    <3>1. End(p, "nofile")
        BY <1>5, <2>2 DEF Discover
    <3>2. "nofile" \in Reasons /\ lost' \in 0 .. MaxLost
        BY <1>0, <2>1 DEF Reasons, ImportTypeOK
    <3> QED
        BY <1>02, <2>1, <3>1, <3>2
  <2>3. CASE Candidates(p) # {}
    <3>1. /\ csvs' = [csvs EXCEPT ![p] = Pick(PathOrder, Candidates(p))]
          /\ ipc' = [ipc EXCEPT ![p] = "copy"]
          /\ UNCHANGED <<nth, existing, staged, tx, why>>
        BY <1>5, <2>3 DEF Discover, InOrder
    <3>2. Candidates(p) = {Pref(t) : t \in Having}
        BY <2>1, DataFacts
    <3>3. csvs' = [csvs EXCEPT ![p] = Plan]
        BY <3>1, <3>2 DEF Plan
    <3>4. Plan \in Seq(Path) /\ ToSet(Plan) # {}
        BY <1>01, <2>3, <3>2, PlanFacts
    <3>5. 1 \in 1 .. Len(Plan)
      <4>1. Plan # <<>>
          BY <3>4 DEF ToSet
      <4> QED
          BY <3>4, <4>1
    <3>6. ImportTypeOK'
      <4>1. ipc' \in [Importers -> Preload \union AtRest \union {"report"}]
          BY <1>0, <3>1 DEF Preload
      <4>2. csvs' \in [Importers -> Seq(Path)]
          BY <1>0, <3>3, <3>4 DEF ImportTypeOK
      <4> QED
          BY <1>0, <2>1, <3>1, <4>1, <4>2 DEF ImportTypeOK
    <3>7. Others(p)
        BY <1>0, <2>1, <3>1, <3>3 DEF Others, ImportTypeOK
    <3>8. /\ ipc'[p] = "copy" /\ nth'[p] = 1 /\ csvs'[p] = Plan /\ kind'[p] \in Imports
          /\ staged'[p] = staged[p] /\ tx'[p] = {} /\ why'[p] = None
      <4>1. tx[p] = {} /\ why[p] = None /\ nth[p] = 1 /\ kind[p] \in Imports
          BY <1>0, <2>1 DEF Progress, AtRest
      <4> QED
          BY <1>0, <2>1, <3>1, <3>3, <4>1 DEF ImportTypeOK
    <3>9. Copied(p, 0)' = {}
        BY DEF Copied
    <3>10. Progress(p)'
      <4>1. remote => staged[p] = objects
          BY <1>0, <2>1 DEF Progress
      <4>2. Plan' = Plan /\ nth'[p] - 1 = 0
          BY <2>1, <3>8, StillFacts
      <4>3. Copied(p, nth[p] - 1)' = {}
          BY <3>9, <4>2 DEF Copied
      <4> QED
          BY <2>1, <3>5, <3>8, <4>1, <4>2, <4>3 DEF Progress, AtRest, Still
    <3>11. staged' \in [Importers -> {<<>>, objects}]
        BY <1>0, <3>1
    <3> QED
        BY <2>1, <3>6, <3>7, <3>10, <3>11, ImportInvFrom
  <2> QED
      BY <2>2, <2>3
<1>6. CASE Copy(p)
  <2> DEFINE q == csvs[p][nth[p]]
             refusal == IF q[2] \notin DOMAIN tables THEN "missing"
                   ELSE IF ~Data(p)[q].whole THEN "gzip"
                   ELSE IF Collides(p, q) THEN "key" ELSE None
  <2>1. ipc[p] = "copy" /\ Still /\ UNCHANGED <<tables, kind, lost>>
      BY <1>6 DEF Copy, Still
  <2>2. refusal \in Reasons \/ refusal = None
      BY DEF Reasons
  <2>3. CASE refusal # None
    <3>1. End(p, refusal) /\ rows' = rows
        BY <1>6, <2>3 DEF Copy
    <3> HIDE DEF refusal
    <3>2. refusal \in Reasons /\ lost' \in 0 .. MaxLost
        BY <1>0, <2>1, <2>2, <2>3 DEF ImportTypeOK
    <3> QED
        BY <1>02, <2>1, <3>1, <3>2
  <2>4. CASE refusal = None
    <3>1. /\ tx' = [tx EXCEPT ![p] = tx[p] \union Lines(p, q)]
          /\ nth' = [nth EXCEPT ![p] = nth[p] + 1]
          /\ ipc' = [ipc EXCEPT ![p] =
                       IF nth[p] = Len(csvs[p]) THEN "commit" ELSE "copy"]
          /\ UNCHANGED <<existing, staged, csvs, why, rows>>
        BY <1>6, <2>4 DEF Copy, Load
    <3> HIDE DEF refusal
    <3>2. /\ nth[p] \in 1 .. Len(Plan) /\ csvs[p] = Plan /\ Plan \in Seq(Path)
          /\ tx[p] = Copied(p, nth[p] - 1)
        BY <1>0, <1>01, <2>1, PlanFacts DEF Progress
    <3>3. Lines(p, q) = PlanLines(p, nth[p])
        BY <2>1, DataFacts
    <3>4. tx[p] \union Lines(p, q) = Copied(p, nth[p])
      <4>1. 1 .. nth[p] = (1 .. nth[p] - 1) \union {nth[p]}
          BY <3>2
      <4> QED
          BY <3>2, <3>3, <4>1 DEF Copied
    <3>5. Lines(p, q) \subseteq Row
      <4>1. nth[p] \in DOMAIN Plan
          BY <3>2
      <4> QED
          BY <1>01, <3>3, <4>1, PlanLinesFacts
    <3> DEFINE s == IF nth[p] = Len(Plan) THEN "commit" ELSE "copy"
    <3>6. /\ tx' = [tx EXCEPT ![p] = Copied(p, nth[p])]
          /\ ipc' = [ipc EXCEPT ![p] = s]
        BY <3>1, <3>2, <3>4
    <3>7. /\ nth[p] + 1 \in Nat
          /\ \/ s = "copy" /\ nth[p] + 1 \in 1 .. Len(Plan)
             \/ s = "commit" /\ nth[p] + 1 = Len(Plan) + 1
        BY <3>2
    <3> HIDE DEF q, s
    <3>8. ImportTypeOK'
      <4>1. ipc' \in [Importers -> Preload \union AtRest \union {"report"}]
          BY <1>0, <3>6, <3>7 DEF Preload
      <4>2. nth' \in [Importers -> Nat]
          BY <1>0, <3>1, <3>7
      <4>3. tx' \in [Importers -> SUBSET Row]
          BY <1>0, <3>1, <3>5 DEF ImportTypeOK
      <4> QED
          BY <1>0, <2>1, <3>1, <4>1, <4>2, <4>3 DEF ImportTypeOK
    <3>9. Others(p)
        BY <1>0, <2>1, <3>1, <3>6 DEF Others, ImportTypeOK
    <3>10. /\ ipc'[p] = s /\ nth'[p] = nth[p] + 1 /\ csvs'[p] = Plan
           /\ kind'[p] \in Imports /\ staged'[p] = staged[p]
           /\ tx'[p] = Copied(p, nth[p]) /\ why'[p] = None
      <4>1. why[p] = None /\ kind[p] \in Imports
          BY <1>0, <2>1 DEF Progress
      <4> QED
          BY <1>0, <2>1, <3>1, <3>2, <3>6, <4>1 DEF ImportTypeOK
    <3>11. Progress(p)'
      <4>1. remote => staged[p] = objects
          BY <1>0, <2>1 DEF Progress
      <4>2. Plan' = Plan /\ nth'[p] - 1 = nth[p]
          BY <1>0, <2>1, <3>10, StillFacts
      <4>3. Copied(p, nth[p] - 1)' = Copied(p, nth[p])
        <5>1. \A n : Copied(p, n)' = Copied(p, n)
            BY <2>1, StillFacts
        <5> SUFFICES ASSUME NEW n, n = nth'[p] - 1
                     PROVE  Copied(p, n)' = Copied(p, nth[p])
            BY DEF Copied
        <5> QED
            BY <4>2, <5>1
      <4> QED
          BY <2>1, <3>7, <3>10, <4>1, <4>2, <4>3 DEF Progress, AtRest, Still
    <3>12. staged' \in [Importers -> {<<>>, objects}]
        BY <1>0, <3>1
    <3> QED
        BY <2>1, <3>8, <3>9, <3>11, <3>12, ImportInvFrom
  <2> QED
      BY <2>3, <2>4
<1>7. CASE CommitLoad(p)
  <2>1. ipc[p] = "commit" /\ Still /\ UNCHANGED <<tables, kind, lost>>
      BY <1>7 DEF CommitLoad, Still
  <2>2. CASE KeysHold(rows \union tx[p])
    <3>1. /\ rows' = rows \union tx[p] /\ tx' = [tx EXCEPT ![p] = {}]
          /\ ipc' = [ipc EXCEPT ![p] = "report"]
          /\ UNCHANGED <<nth, existing, staged, csvs, why>>
        BY <1>7, <2>2 DEF CommitLoad
    <3>2. ImportTypeOK'
      <4>1. tx[p] \subseteq Row /\ rows \subseteq Row
          BY <1>0 DEF ImportTypeOK
      <4>2. tx' \in [Importers -> SUBSET Row] /\ rows' \subseteq Row
          BY <1>0, <3>1, <4>1 DEF ImportTypeOK
      <4> QED
          BY <1>0, <2>1, <3>1, <4>2 DEF ImportTypeOK
    <3>3. Others(p)
        BY <1>0, <2>1, <3>1 DEF Others, ImportTypeOK
    <3>4. /\ ipc'[p] = "report" /\ csvs'[p] = Plan /\ kind'[p] \in Imports
          /\ staged'[p] = staged[p] /\ tx'[p] = {} /\ why'[p] = None
      <4>1. why[p] = None /\ kind[p] \in Imports /\ csvs[p] = Plan
          BY <1>0, <2>1 DEF Progress
      <4> QED
          BY <1>0, <2>1, <3>1, <4>1 DEF ImportTypeOK
    <3>5. Progress(p)'
      <4>1. remote => staged[p] = objects
          BY <1>0, <2>1 DEF Progress
      <4>2. Plan' = Plan
          BY <2>1, StillFacts
      <4> QED
          BY <2>1, <3>4, <4>1, <4>2 DEF Progress, AtRest, Still
    <3>6. staged' \in [Importers -> {<<>>, objects}]
        BY <1>0, <3>1
    <3> QED
        BY <2>1, <3>2, <3>3, <3>5, <3>6, ImportInvFrom
  <2>3. CASE ~KeysHold(rows \union tx[p])
    <3>1. End(p, "fk") /\ rows' = rows
        BY <1>7, <2>3 DEF CommitLoad
    <3>2. "fk" \in Reasons /\ lost' \in 0 .. MaxLost
        BY <1>0, <2>1 DEF Reasons, ImportTypeOK
    <3> QED
        BY <1>02, <2>1, <3>1, <3>2
  <2> QED
      BY <2>2, <2>3
<1>8. CASE WriteReport(p)
  <2>1. Still /\ UNCHANGED <<tables, rows, kind, lost>>
      BY <1>8 DEF WriteReport, Still
  <2>2. CASE Leave(p, "done", None)
    <3>1. ImportTypeOK'
        BY <1>0, <2>1, <2>2, LeaveFacts DEF ImportTypeOK
    <3> QED
        BY <2>1, <2>2, <3>1, LeaveFacts, ImportInvFrom
  <2>3. CASE End(p, "report")
    <3>1. "report" \in Reasons /\ lost' \in 0 .. MaxLost
        BY <1>0, <2>1 DEF Reasons, ImportTypeOK
    <3> QED
        BY <1>02, <2>1, <2>3, <3>1
  <2> QED
      BY <1>8, <2>2, <2>3 DEF WriteReport
<1>9. CASE LoseImport(p)
  <2>1. /\ Still /\ UNCHANGED <<tables, rows, kind>> /\ End(p, "lost")
        /\ lost < MaxLost /\ lost' = lost + 1
      BY <1>9 DEF LoseImport, Still
  <2>2. "lost" \in Reasons /\ lost' \in 0 .. MaxLost
      BY <1>0, <2>1, ImportAssumption DEF Reasons, ImportTypeOK
  <2> QED
      BY <1>02, <2>1, <2>2
<1> QED
    BY <1>1, <1>2, <1>3, <1>4, <1>5, <1>6, <1>7, <1>8, <1>9 DEF ImportAction

----------------------------------------------------------------------------
(* Rows and tables.                                                        *)

\* Process p has committed its rows.
Committed(p) ==
  \/ ipc[p] \in {"report", "done"}
  \/ ipc[p] = "failed" /\ why[p] = "report"

\* Process p has created table t.
Owns(p, t) == t \in DOMAIN tables /\ tables[t] = p

\* Only processes that have committed have rows, a process that has just
\* committed has all of its rows, and an import without --force has created the
\* tables of the SQL files behind it.
RowsInv ==
  /\ \A r \in rows : Committed(r.by)
  /\ \A p \in Importers : ipc[p] = "report" => Copied(p, Len(Plan)) \subseteq rows
  /\ \A p \in Importers : kind[p] = "import" /\ ipc[p] = "ddl" =>
       \A i \in 1 .. nth[p] - 1 : \A t \in TablesOf(SqlFiles[i]) : Owns(p, t)
  /\ \A p \in Importers :
       kind[p] = "import" /\ (ipc[p] \in {"discover", "copy", "commit"} \/ Committed(p)) =>
         \A t \in Tables : Owns(p, t)

\* No step takes a table from the process that has created it, nor a row.
LEMMA TablesGrow ==
  ASSUME NEW p \in Importers, ImportAction(p)
  PROVE  /\ \A v, t : Owns(v, t) => Owns(v, t)'
         /\ rows \subseteq rows'
         /\ ipc[p] \notin {"done", "failed"}
         /\ rows' # rows => ipc[p] = "commit"
         /\ tables' # tables => ipc[p] = "ddl"
         /\ ipc[p] = "commit" /\ rows' # rows => ipc' = [ipc EXCEPT ![p] = "report"] /\ rows' = rows \union tx[p]
<1> USE DEF database, Owns
<1>1. CASE StartImport(p)
    BY <1>1 DEF StartImport
<1>2. CASE StageData(p)
    BY <1>2 DEF StageData
<1>3. CASE CheckFile(p)
    BY <1>3 DEF CheckFile
<1>4. CASE RunDdl(p)
  <2>1. /\ rows' = rows /\ ipc[p] = "ddl"
        /\ \/ tables' = tables
           \/ \E g : tables' = [t \in DOMAIN tables \union TablesOf(g) |->
                                  IF t \in DOMAIN tables THEN tables[t] ELSE p]
      BY <1>4 DEF RunDdl, Executed
  <2> QED
      BY <2>1
<1>5. CASE Discover(p)
    BY <1>5 DEF Discover
<1>6. CASE Copy(p)
  <2>1. rows' = rows /\ tables' = tables /\ ipc[p] = "copy"
      BY <1>6 DEF Copy, Load
  <2> QED
      BY <2>1
<1>7. CASE CommitLoad(p)
  <2>1. /\ tables' = tables /\ ipc[p] = "commit"
        /\ \/ rows' = rows
           \/ rows' = rows \union tx[p] /\ ipc' = [ipc EXCEPT ![p] = "report"]
      BY <1>7 DEF CommitLoad
  <2> QED
      BY <2>1
<1>8. CASE WriteReport(p)
    BY <1>8 DEF WriteReport
<1>9. CASE LoseImport(p)
    BY <1>9 DEF LoseImport
<1> QED
    BY <1>1, <1>2, <1>3, <1>4, <1>5, <1>6, <1>7, <1>8, <1>9 DEF ImportAction

\* The tables of an SQL file after it has been executed by an import without
\* --force.
LEMMA ExecutedFacts ==
  ASSUME NEW p \in Importers, kind[p] = "import", NEW g,
         tables' = Executed(p, g), ~(~Reused(p, g) /\ ~CanCreate(g))
  PROVE  \A t \in TablesOf(g) : Owns(p, t)'
<1>1. ~Reused(p, g) /\ CanCreate(g)
    BY DEF Reused, Forced
<1>2. tables' = [t \in DOMAIN tables \union TablesOf(g) |->
                   IF t \in DOMAIN tables THEN tables[t] ELSE p]
    BY <1>1 DEF Executed
<1>3. \A t \in TablesOf(g) : t \notin DOMAIN tables
    BY <1>1 DEF CanCreate
<1> QED
    BY <1>2, <1>3 DEF Owns

\* Each step of a process keeps the rows and the tables right.
LEMMA RowsNext ==
  ASSUME ImportInv, ExportInv, RowsInv, NEW p \in Importers, ImportAction(p),
         Still, Others(p), ImportInv'
  PROVE  RowsInv'
<1> USE DEF database
<1>0. /\ ImportTypeOK /\ Progress(p) /\ Typed(Shared)
      /\ ipc \in [Importers -> Preload \union AtRest \union {"report"}]
      /\ kind \in [Importers -> Kinds] /\ nth \in [Importers -> Nat]
      /\ why \in [Importers -> Reasons \union {None}]
    BY DEF ImportInv, ImportTypeOK, ExportInv, ExportTypes, Shared
<1>1. /\ \A v, t : Owns(v, t) => Owns(v, t)'
      /\ rows \subseteq rows'
      /\ ipc[p] \notin {"done", "failed"}
      /\ rows' # rows => ipc[p] = "commit"
      /\ ipc[p] = "commit" /\ rows' # rows =>
           ipc' = [ipc EXCEPT ![p] = "report"] /\ rows' = rows \union tx[p]
    BY TablesGrow
<1>2. \A v \in Importers : v # p => (Committed(v)' <=> Committed(v))
    BY DEF Others, Committed
<1>3. Committed(p) => ipc[p] = "report" /\ WriteReport(p)
  <2>1. Committed(p) => ipc[p] = "report"
      BY <1>1 DEF Committed
  <2>2. ipc[p] = "report" => WriteReport(p)
      BY DEF ImportAction, StartImport, StageData, CheckFile, RunDdl, Discover,
             Copy, CommitLoad, LoseImport
  <2> QED
      BY <2>1, <2>2
<1>4. WriteReport(p) =>
        /\ Committed(p)' /\ ipc[p] = "report" /\ kind' = kind
        /\ ipc'[p] \in {"done", "failed"}
    BY <1>0 DEF WriteReport, Leave, End, Committed
<1>5. ASSUME NEW r \in rows' PROVE Committed(r.by)'
  <2>1. rows \subseteq Row
      BY <1>0 DEF ImportTypeOK
  <2>2. CASE r \in rows
    <3>1. r.by \in Importers /\ Committed(r.by)
        BY <2>1, <2>2 DEF RowsInv, Row
    <3>2. CASE r.by # p
        BY <1>2, <3>1, <3>2
    <3>3. CASE r.by = p
        BY <1>3, <1>4, <3>1, <3>3
    <3> QED
        BY <3>2, <3>3
  <2>3. CASE r \notin rows
    <3>1. r \in tx[p] /\ ipc'[p] = "report" /\ ipc[p] = "commit"
        BY <1>0, <1>1, <1>5, <2>3
    <3>2. tx[p] = Copied(p, Len(Plan)) /\ Plan \in Seq(Path)
      <4>1. tx[p] = Copied(p, nth[p] - 1) /\ nth[p] = Len(Plan) + 1
          BY <1>0, <3>1 DEF Progress
      <4>2. Plan \in Seq(Path)
          BY <1>0, PlanFacts
      <4>3. nth[p] - 1 = Len(Plan)
          BY <4>1, <4>2
      <4> QED
          BY <4>1, <4>2, <4>3
    <3>3. PICK i \in 1 .. Len(Plan) : r \in PlanLines(p, i)
        BY <3>1, <3>2 DEF Copied
    <3>4. r.by = p
      <4>1. i \in DOMAIN Plan
          BY <3>2
      <4> QED
          BY <1>0, <3>3, <4>1, PlanLinesFacts
    <3> QED
        BY <3>1, <3>4 DEF Committed
  <2> QED
      BY <2>2, <2>3
<1>6. ASSUME NEW v \in Importers, ipc'[v] = "report"
      PROVE  Copied(v, Len(Plan))' \subseteq rows'
  <2>1. Copied(v, Len(Plan))' = Copied(v, Len(Plan))
    <3>1. Plan' = Plan /\ \A n : Copied(v, n)' = Copied(v, n)
        BY StillFacts
    <3> SUFFICES ASSUME NEW n, n = Len(Plan') PROVE Copied(v, n)' = Copied(v, Len(Plan))
        BY DEF Copied
    <3> QED
        BY <3>1
  <2>2. CASE v # p
    <3>1. ipc[v] = "report"
        BY <1>6, <2>2 DEF Others
    <3> QED
        BY <1>1, <2>1, <3>1 DEF RowsInv
  <2>3. CASE v = p
    <3>1. CommitLoad(p) /\ KeysHold(rows \union tx[p])
      <4>1. ipc'[p] # "report" \/ CommitLoad(p)
        <5>1. /\ StartImport(p) => ipc'[p] # "report"
              /\ StageData(p) => ipc'[p] # "report"
              /\ CheckFile(p) => ipc'[p] # "report"
              /\ RunDdl(p) => ipc'[p] # "report"
            BY <1>0 DEF StartImport, StageData, CheckFile, RunDdl, End, Leave
        <5>2. /\ Discover(p) => ipc'[p] # "report"
              /\ Copy(p) => ipc'[p] # "report"
              /\ WriteReport(p) => ipc'[p] # "report"
              /\ LoseImport(p) => ipc'[p] # "report"
            BY <1>0 DEF Discover, Copy, WriteReport, LoseImport, End, Leave
        <5> QED
            BY <5>1, <5>2 DEF ImportAction
      <4>2. CommitLoad(p) /\ ~KeysHold(rows \union tx[p]) => ipc'[p] = "failed"
          BY <1>0 DEF CommitLoad, End, Leave
      <4> QED
          BY <1>6, <2>3, <4>1, <4>2
    <3>2. rows' = rows \union tx[p] /\ ipc[p] = "commit"
        BY <3>1 DEF CommitLoad
    <3>3. tx[p] = Copied(p, Len(Plan))
      <4>1. tx[p] = Copied(p, nth[p] - 1) /\ nth[p] = Len(Plan) + 1
          BY <1>0, <3>2 DEF Progress
      <4>2. Plan \in Seq(Path)
          BY <1>0, PlanFacts
      <4>3. nth[p] - 1 = Len(Plan)
          BY <4>1, <4>2
      <4> QED
          BY <4>1, <4>3
    <3> QED
        BY <2>1, <2>3, <3>2, <3>3
  <2> QED
      BY <2>2, <2>3
<1>7. CASE RunDdl(p)
  <2> DEFINE g    == SqlFiles[nth[p]]
             more == nth[p] < Len(SqlFiles)
  <2>1. /\ ipc[p] = "ddl" /\ kind' = kind /\ tables' = Executed(p, g)
      BY <1>7 DEF RunDdl
  <2>2. /\ nth[p] \in 1 .. Len(SqlFiles) /\ Len(SqlFiles) \in Nat
      BY <1>0, <2>1, SqlFacts DEF Progress
  <2> HIDE DEF g
  <2>3. ASSUME kind[p] = "import", ~(~Reused(p, g) /\ ~CanCreate(g)),
               NEW i \in 1 .. nth[p], NEW t \in TablesOf(SqlFiles[i])
        PROVE  Owns(p, t)'
    <3>1. CASE i = nth[p]
        BY <2>1, <2>3, <3>1, ExecutedFacts DEF g
    <3>2. CASE i # nth[p]
      <4>1. i \in 1 .. nth[p] - 1
          BY <2>2, <3>2
      <4> QED
          BY <1>1, <2>1, <2>3, <4>1 DEF RowsInv
    <3> QED
        BY <3>1, <3>2
  <2>4. CASE ~Reused(p, g) /\ ~CanCreate(g)
    <3>1. ipc'[p] = "failed" /\ why'[p] = "ddl"
        BY <1>0, <1>7, <2>4 DEF RunDdl, g, End, Leave
    <3>2. ~Committed(p)' /\ ipc'[p] \notin {"ddl", "discover", "copy", "commit"}
        BY <3>1 DEF Committed
    <3>3. ASSUME NEW v \in Importers, kind'[v] = "import", ipc'[v] = "ddl",
                 NEW i \in 1 .. nth'[v] - 1, NEW t \in TablesOf(SqlFiles[i])
          PROVE  Owns(v, t)'
      <4>1. v # p
          BY <3>2, <3>3
      <4> QED
          BY <1>1, <3>3, <4>1 DEF Others, RowsInv
    <3>4. ASSUME NEW v \in Importers, kind'[v] = "import",
                 ipc'[v] \in {"discover", "copy", "commit"} \/ Committed(v)',
                 NEW t \in Tables
          PROVE  Owns(v, t)'
      <4>1. v # p
          BY <3>2, <3>4
      <4> QED
          BY <1>1, <1>2, <3>4, <4>1 DEF Others, RowsInv
    <3> QED
        BY <1>5, <1>6, <3>3, <3>4 DEF RowsInv
  <2>5. CASE ~(~Reused(p, g) /\ ~CanCreate(g))
    <3>0. /\ kind[p] = "import" => kind[p] \notin Bootstraps
          /\ kind[p] = "import" =>
               /\ ipc' = [ipc EXCEPT ![p] = IF more THEN "ddl" ELSE "discover"]
               /\ nth' = [nth EXCEPT ![p] = IF more THEN nth[p] + 1 ELSE 1]
      <4>1. kind[p] = "import" => kind[p] \notin Bootstraps
          BY DEF Bootstraps
      <4> QED
          BY <1>7, <2>5, <4>1 DEF RunDdl, g
    <3>1. kind[p] = "import" =>
            \/ more /\ ipc'[p] = "ddl" /\ nth'[p] - 1 = nth[p]
            \/ ~more /\ ipc'[p] = "discover" /\ nth[p] = Len(SqlFiles)
        BY <1>0, <2>2, <3>0
    <3> HIDE DEF more
    <3>3. ASSUME NEW v \in Importers, kind'[v] = "import", ipc'[v] = "ddl",
                 NEW i \in 1 .. nth'[v] - 1, NEW t \in TablesOf(SqlFiles[i])
          PROVE  Owns(v, t)'
      <4>1. CASE v # p
          BY <1>1, <3>3, <4>1 DEF Others, RowsInv
      <4>2. CASE v = p
        <5>1. kind[p] = "import" /\ i \in 1 .. nth[p]
            BY <2>1, <3>1, <3>3, <4>2
        <5> QED
            BY <2>3, <2>5, <3>3, <4>2, <5>1
      <4> QED
          BY <4>1, <4>2
    <3>4. ASSUME NEW v \in Importers, kind'[v] = "import",
                 ipc'[v] \in {"discover", "copy", "commit"} \/ Committed(v)',
                 NEW t \in Tables
          PROVE  Owns(v, t)'
      <4>1. CASE v # p
          BY <1>1, <1>2, <3>4, <4>1 DEF Others, RowsInv
      <4>2. CASE v = p
        <5>1. kind[p] = "import" /\ nth[p] = Len(SqlFiles)
            BY <2>1, <3>1, <3>4, <4>2 DEF Committed
        <5>2. PICK h \in Range(SqlFiles) : t \in TablesOf(h)
            BY SqlFacts
        <5>3. PICK i \in 1 .. Len(SqlFiles) : h = SqlFiles[i]
            BY SqlFacts
        <5> QED
            BY <2>3, <2>5, <4>2, <5>1, <5>2, <5>3
      <4> QED
          BY <4>1, <4>2
    <3> QED
        BY <1>5, <1>6, <3>3, <3>4 DEF RowsInv
  <2> QED
      BY <2>4, <2>5
<1>8. CASE ~RunDdl(p)
  <2>1. ipc[p] # "ddl" /\ ipc'[p] = "ddl" =>
          nth'[p] = 1
    <3>1. /\ ~StartImport(p) \/ ipc'[p] # "ddl"
          /\ ~StageData(p) \/ ipc'[p] # "ddl"
          /\ ~Discover(p) \/ ipc'[p] # "ddl"
          /\ ~Copy(p) \/ ipc'[p] # "ddl"
        BY <1>0 DEF StartImport, StageData, Discover, Copy, End, Leave
    <3>2. /\ ~CommitLoad(p) \/ ipc'[p] # "ddl"
          /\ ~WriteReport(p) \/ ipc'[p] # "ddl"
          /\ ~LoseImport(p) \/ ipc'[p] # "ddl"
        BY <1>0 DEF CommitLoad, WriteReport, LoseImport, End, Leave
    <3>3. CheckFile(p) /\ ipc'[p] = "ddl" => nth'[p] = 1
        BY <1>0 DEF CheckFile, End, Leave
    <3> QED
        BY <1>8, <3>1, <3>2, <3>3 DEF ImportAction
  <2>2. ipc[p] # "ddl" \/ ipc'[p] # "ddl"
    <3>1. ipc[p] = "ddl" => LoseImport(p)
        BY <1>8 DEF ImportAction, StartImport, StageData, CheckFile, Discover,
               Copy, CommitLoad, WriteReport
    <3>2. LoseImport(p) => ipc'[p] # "ddl"
        BY <1>0 DEF LoseImport, End, Leave
    <3> QED
        BY <3>1, <3>2
  <2>3. (ipc'[p] \in {"discover", "copy", "commit"} \/ Committed(p)') /\ kind'[p] = "import" =>
          (ipc[p] \in {"discover", "copy", "commit"} \/ Committed(p)) /\ kind[p] = "import"
    <3> DEFINE B == ipc'[p] \in {"discover", "copy", "commit"} \/ Committed(p)'
               A == ipc[p] \in {"discover", "copy", "commit"} \/ Committed(p)
    <3>1. StartImport(p) => ~B
        BY <1>0 DEF StartImport, Committed
    <3>2. StageData(p) => ~B
        BY <1>0 DEF StageData, Committed, End, Leave
    <3>3. CheckFile(p) => ~B
        BY <1>0 DEF CheckFile, Committed, End, Leave
    <3>4. Discover(p) => A /\ kind' = kind
        BY DEF Discover
    <3>5. Copy(p) => A /\ kind' = kind
        BY DEF Copy
    <3>6. CommitLoad(p) => A /\ kind' = kind
        BY DEF CommitLoad
    <3>7. WriteReport(p) => A /\ kind' = kind
        BY DEF WriteReport, Committed
    <3>8. LoseImport(p) => ~B
        BY <1>0 DEF LoseImport, Committed, End, Leave
    <3> HIDE DEF A, B
    <3>9. B => A /\ kind' = kind
        BY <1>8, <3>1, <3>2, <3>3, <3>4, <3>5, <3>6, <3>7, <3>8 DEF ImportAction
    <3> QED
        BY <3>9 DEF A, B
  <2>4. ASSUME NEW v \in Importers, kind'[v] = "import", ipc'[v] = "ddl",
               NEW i \in 1 .. nth'[v] - 1, NEW t \in TablesOf(SqlFiles[i])
        PROVE  Owns(v, t)'
    <3>1. CASE v # p
        BY <1>1, <2>4, <3>1 DEF Others, RowsInv
    <3>2. CASE v = p
        BY <2>1, <2>2, <2>4, <3>2
    <3> QED
        BY <3>1, <3>2
  <2>5. ASSUME NEW v \in Importers, kind'[v] = "import",
               ipc'[v] \in {"discover", "copy", "commit"} \/ Committed(v)',
               NEW t \in Tables
        PROVE  Owns(v, t)'
    <3>1. CASE v # p
        BY <1>1, <1>2, <2>5, <3>1 DEF Others, RowsInv
    <3>2. CASE v = p
        BY <1>1, <2>3, <2>5, <3>2 DEF RowsInv
    <3> QED
        BY <3>1, <3>2
  <2> QED
      BY <1>5, <1>6, <2>4, <2>5 DEF RowsInv
<1> QED
    BY <1>7, <1>8

----------------------------------------------------------------------------
(* The specification.                                                      *)

Inv == ExportInv /\ ImportInv /\ RowsInv

\* run_export_impl and run_import have not started: nothing is at risk.
LEMMA InitInv ==
  ASSUME Init
  PROVE  Inv
<1>1. /\ ExportInit /\ ImportInit /\ remote \in BOOLEAN /\ files = <<>> /\ objects = <<>>
      /\ natural \in [Colls -> BoundedSeq(FirstDocs, MaxScan)]
      /\ \A c \in Colls : natural[c] \in ScansOf(c)
    BY DEF Init
<1>2. \A c \in Colls : natural[c] \in Seq({d \in Docs : CollOf[d] = c})
  <2> SUFFICES ASSUME NEW c \in Colls
               PROVE  natural[c] \in Seq({d \in Docs : CollOf[d] = c})
      OBVIOUS
  <2> DEFINE S == {d \in FirstDocs : CollOf[d] = c}
  <2>1. S \subseteq {d \in Docs : CollOf[d] = c}
      BY FirstDocsAssumption
  <2>2. natural[c] \in [1 .. Cardinality(S) -> S]
      BY <1>1 DEF ScansOf, SetToSeqs
  <2>3. Cardinality(S) \in Nat
    <3>1. IsFiniteSet(Docs) /\ S \subseteq Docs
        BY FirstDocsAssumption, ArtifactsAssumption
    <3> QED
        BY <3>1, FS_Subset, FS_CardinalityType
  <2> HIDE DEF S
  <2>4. natural[c] \in Seq(S)
      BY <2>2, <2>3
  <2> QED
      BY <2>1, <2>4
<1>3. natural \in [Colls -> Seq(Docs)]
  <2>1. ASSUME NEW c \in Colls PROVE natural[c] \in Seq(Docs)
    <3> DEFINE S == {d \in Docs : CollOf[d] = c}
    <3>1. S \subseteq Docs /\ natural[c] \in Seq(S)
        BY <1>2
    <3> HIDE DEF S
    <3> QED
        BY <3>1
  <2> QED
      BY <1>1, <2>1
<1>4. ExportTypeOK
  <2>1. /\ jobs \in Seq(Range(SqlFiles)) /\ next \in 1 .. Len(jobs) + 1
        /\ members \in [Range(SqlFiles) -> Seq(Colls)]
        /\ cursor \in [Workers -> Seq(Docs)]
        /\ retry \in [Workers -> 0 .. CursorRetryMax]
        /\ exports \in 0 .. MaxExports
      BY <1>1, ExportAssumption DEF ExportInit
  <2> QED
      BY <1>1, <2>1 DEF ExportInit, ExportTypeOK
<1>5. ExportTypes
    BY <1>1, <1>2, <1>3, <1>4 DEF ExportTypes, Typed
<1>6. Shape
  <2>1. MembersOK
      BY <1>1, <1>4 DEF ExportInit, MembersOK, ExportTypeOK
  <2>2. \A w \in Workers : wpc[w] = "ended" /\ job[w] = None
      BY <1>1 DEF ExportInit
  <2>3. DOMAIN jobs = {} /\ IsInjective(jobs)
      BY <1>1 DEF ExportInit, IsInjective
  <2> QED
      BY <2>1, <2>2, <2>3 DEF Shape
<1>7. Accounted
    BY <1>1 DEF ExportInit, Accounted
<1>8. ImportTypeOK
  <2>1. lost \in 0 .. MaxLost /\ csvs \in [Importers -> Seq(Path)]
      BY <1>1, ImportAssumption DEF ImportInit
  <2>2. kind \in [Importers -> Kinds]
      BY <1>1 DEF ImportInit, Kinds, Imports
  <2>3. DOMAIN tables = {} /\ Range(tables) = {}
      BY <1>1 DEF ImportInit, Range
  <2>4. \A p \in Importers : DOMAIN staged[p] = {}
      BY <1>1 DEF ImportInit
  <2> QED
      BY <1>1, <2>1, <2>2, <2>3, <2>4 DEF ImportInit, ImportTypeOK, AtRest
<1>9. \A p \in Importers :
        /\ ipc[p] = "idle" /\ staged[p] = <<>> /\ nth[p] = 1 /\ tx[p] = {} /\ why[p] = None
    BY <1>1 DEF ImportInit
<1>10. ImportInv
    BY <1>1, <1>8, <1>9 DEF ImportInit, ImportInv, Progress, AtRest
<1>11. RowsInv
  <2>1. rows = {} /\ \A p \in Importers : ~Committed(p)
      BY <1>1, <1>9 DEF ImportInit, Committed
  <2> QED
      BY <1>9, <2>1 DEF RowsInv
<1> QED
    BY <1>5, <1>6, <1>7, <1>10, <1>11 DEF Inv, ExportInv

\* A step of the exporter leaves the importers alone, and the reverse: the
\* imports read the files only once the export has ended.
LEMMA NextInv ==
  ASSUME Inv, [Next]_vars
  PROVE  Inv'
<1> USE DEF Inv
<1>1. CASE DoExport
  <2>1. ExportInv'
      BY <1>1, ExportInvNext
  <2>2. /\ \A p \in Importers : ipc[p] = "idle"
        /\ UNCHANGED <<tables, rows, ipc, kind, nth, existing, staged, csvs, tx, why, lost>>
      BY <1>1 DEF DoExport, importVars
  <2>3. \A p \in Importers :
          /\ staged[p] = <<>> /\ nth[p] = 1 /\ tx[p] = {} /\ why[p] = None
      BY <2>2 DEF ImportInv, Progress, AtRest
  <2>4. staged' \in [Importers -> {<<>>, objects'}]
      BY <2>2, <2>3 DEF ImportInv
  <2>5. ImportTypeOK'
      BY <2>2 DEF ImportInv, ImportTypeOK
  <2>6. \A p \in Importers : Progress(p)'
    <3> SUFFICES ASSUME NEW p \in Importers PROVE Progress(p)'
        OBVIOUS
    <3>1. /\ ipc'[p] = "idle" /\ staged'[p] = <<>> /\ nth'[p] = 1
          /\ tx'[p] = {} /\ why'[p] = None
        BY <2>2, <2>3
    <3> QED
        BY <3>1 DEF Progress, AtRest
  <2>7. RowsInv'
    <3>1. \A p \in Importers : ~Committed(p)
        BY <2>2 DEF Committed
    <3>2. rows = {}
        BY <3>1 DEF RowsInv, ImportInv, ImportTypeOK, Row
    <3>3. \A p \in Importers : ipc'[p] = "idle" /\ ~Committed(p)'
        BY <2>2 DEF Committed
    <3> QED
        BY <2>2, <3>2, <3>3 DEF RowsInv
  <2> QED
      BY <2>1, <2>2, <2>4, <2>5, <2>6, <2>7 DEF ImportInv
<1>2. ASSUME NEW p \in Importers, ImportAction(p), UNCHANGED exportVars, xpc # "running"
      PROVE  Inv'
  <2>1. xpc' = xpc
      BY <1>2 DEF exportVars
  <2>2. ImportInv' /\ Still /\ Others(p)
      BY <1>2, <2>1, ImportStep
  <2>3. ExportInv'
      BY <1>2, <2>2, ExportInvIdle DEF Still
  <2>4. RowsInv'
      BY <1>2, <2>2, RowsNext
  <2> QED
      BY <2>2, <2>3, <2>4
<1>3. CASE DoImport
  <2>1. PICK p \in Importers :
          \/ StageData(p) \/ CheckFile(p) \/ RunDdl(p) \/ Discover(p)
          \/ Copy(p) \/ CommitLoad(p) \/ WriteReport(p) \/ LoseImport(p)
      BY <1>3 DEF DoImport
  <2>2. ipc[p] # "idle"
      BY <2>1 DEF StageData, CheckFile, RunDdl, Discover, Copy, CommitLoad,
             WriteReport, LoseImport
  <2>3. xpc # "running" /\ UNCHANGED exportVars
      BY <1>3, <2>2 DEF ImportInv, DoImport
  <2> QED
      BY <1>2, <2>1, <2>3 DEF ImportAction
<1>4. CASE \E p \in Importers : BeginImport(p)
  <2>1. PICK p \in Importers : BeginImport(p)
      BY <1>4
  <2>2. xpc # "running" /\ UNCHANGED exportVars /\ StartImport(p)
      BY <2>1 DEF BeginImport
  <2> QED
      BY <1>2, <2>2 DEF ImportAction
<1>5. CASE UNCHANGED vars
  <2>1. /\ UNCHANGED <<exportVars, natural, remote, files, objects>>
        /\ UNCHANGED <<tables, rows, ipc, kind, nth, existing, staged, csvs, tx, why, lost>>
      BY <1>5 DEF vars, exportVars
  <2>2. ExportInv'
      BY <2>1, ExportInvIdle
  <2>3. Still
      BY <2>1 DEF Still
  <2>4. ImportInv'
    <3>1. ImportTypeOK' /\ staged' \in [Importers -> {<<>>, objects'}]
        BY <2>1 DEF ImportInv, ImportTypeOK
    <3>2. \A p \in Importers : Progress(p)'
        BY <2>1, <2>3, ProgressKept DEF ImportInv
    <3> QED
        BY <2>1, <3>1, <3>2 DEF ImportInv, exportVars
  <2>5. RowsInv'
    <3>1. Plan' = Plan /\ \A p, n : Copied(p, n)' = Copied(p, n)
        BY <2>3, StillFacts
    <3>2. \A p : Copied(p, Len(Plan))' = Copied(p, Len(Plan))
      <4> SUFFICES ASSUME NEW p, NEW n, n = Len(Plan')
                   PROVE  Copied(p, n)' = Copied(p, Len(Plan))
          BY DEF Copied
      <4> QED
          BY <3>1
    <3>3. \A p : Committed(p)' <=> Committed(p)
        BY <2>1 DEF Committed
    <3>4. \A p, t : Owns(p, t)' <=> Owns(p, t)
        BY <2>1 DEF Owns
    <3> QED
        BY <2>1, <3>2, <3>3, <3>4 DEF RowsInv
  <2> QED
      BY <2>2, <2>4, <2>5
<1> QED
    BY <1>1, <1>3, <1>4, <1>5 DEF Next

\* The inductive invariant holds throughout.
LEMMA Invariance == Spec => []Inv
<1>1. Init => Inv
    BY InitInv
<1>2. Inv /\ [Next]_vars => Inv'
    BY NextInv
<1> QED
    BY <1>1, <1>2, PTL DEF Spec

\* Every variable has its type: documents of a collection are its documents,
\* files have paths and contents, a worker has a job or none, a process has
\* copied rows of tables, in run_export_impl and run_import alike.
THEOREM TypeCorrect == Spec => []TypeOK
<1>1. Inv => TypeOK
    BY DEF Inv, ExportInv, ImportInv, ExportTypes, Typed, TypeOK
<1> QED
    BY <1>1, Invariance, PTL

\* An export ends only when every job has been done or is named in its error:
\* a worker that fails goes on to the next job, and two workers never take the
\* same one off the shared counter of run_export_jobs.
THEOREM EveryJobAccountedCorrect == Spec => EveryJobAccounted
<1>1. Inv /\ [Next]_vars =>
        [xpc = "running" /\ xpc' \in {"ok", "failed"} =>
           doneJobs \union failedJobs = Range(jobs)]_vars
  <2> SUFFICES ASSUME Inv, [Next]_vars, xpc = "running", xpc' \in {"ok", "failed"}
               PROVE  doneJobs \union failedJobs = Range(jobs)
      OBVIOUS
  <2>1. xpc' # xpc
      OBVIOUS
  <2>2. DoExport
    <3>1. xpc' = xpc \/ DoExport
        BY DEF Next, DoImport, BeginImport, exportVars, vars
    <3> QED
        BY <2>1, <3>1
  <2>3. EndExport
    <3>1. StartExport => xpc # "running"
        BY DEF StartExport
    <3>2. WorkerStep => xpc' = xpc
        BY DEF WorkerStep, TakeJob, NoMoreJobs, OpenCursor, FindFails, Fetch,
               CursorFails, NextSource, FinishFiles, Upload, UploadFails,
               AllUploaded, command
    <3>3. (\E d \in Docs : Store(d)) => xpc' = xpc
        BY DEF Store, command
    <3>4. KillExport => xpc' = "killed"
        BY DEF KillExport, LeaveExport
    <3> QED
        BY <2>1, <2>2, <3>1, <3>2, <3>3, <3>4 DEF DoExport
  <2>4. \A w \in Workers : wpc[w] = "ended" /\ job[w] = None
      BY <2>3 DEF EndExport, Inv, ExportInv, Shape
  <2>5. /\ jobs \in Seq(Range(SqlFiles)) /\ next \in 1 .. Len(jobs) + 1
        /\ failedJobs \subseteq Range(SqlFiles) /\ doneJobs \subseteq Range(SqlFiles)
        /\ None \notin Range(SqlFiles) /\ Workers # {}
      BY ArtifactsAssumption, ExportAssumption DEF Inv, ExportInv, ExportTypes, ExportTypeOK
  <2>6. next > Len(jobs)
      BY <2>4, <2>5 DEF Inv, ExportInv, Accounted
  <2>7. \A i \in DOMAIN jobs : i < next
      BY <2>5, <2>6
  <2>8. \A g \in Range(SqlFiles) :
          g \in doneJobs \union failedJobs <=> \E i \in DOMAIN jobs : jobs[i] = g
      BY <2>4, <2>5, <2>7 DEF Inv, ExportInv, Accounted
  <2>9. Range(jobs) \subseteq Range(SqlFiles)
      BY <2>5 DEF Range
  <2> QED
      BY <2>5, <2>8, <2>9 DEF Range
<1> QED
    BY <1>1, Invariance, PTL DEF Spec, EveryJobAccounted

\* The rows of an import are there as a whole once its transaction has
\* committed, and none of them before or when it fails, whatever other imports
\* do and wherever the process is killed.
THEOREM AllOrNothingCorrect == Spec => []AllOrNothing
<1>1. Inv => AllOrNothing
  <2> SUFFICES ASSUME Inv, NEW p \in Importers
               PROVE  /\ ipc[p] \in Preload \/ why[p] \notin {None, "report"} =>
                           \A r \in rows : r.by # p
                      /\ ipc[p] = "report" =>
                           \A i \in DOMAIN csvs[p] : Lines(p, csvs[p][i]) \subseteq rows
      BY DEF AllOrNothing
  <2>1. ASSUME ipc[p] \in Preload \/ why[p] \notin {None, "report"},
               NEW r \in rows, r.by = p
        PROVE  FALSE
    <3>1. Committed(p)
        BY <2>1 DEF Inv, RowsInv
    <3>2. Progress(p)
        BY DEF Inv, ImportInv
    <3> QED
        BY <2>1, <3>1, <3>2 DEF Committed, Progress, Preload
  <2>2. ASSUME ipc[p] = "report", NEW i \in DOMAIN csvs[p]
        PROVE  Lines(p, csvs[p][i]) \subseteq rows
    <3>1. csvs[p] = Plan /\ Lines(p, csvs[p][i]) = PlanLines(p, i)
        BY <2>2, DataFacts DEF Inv, ImportInv, Progress
    <3>2. Plan \in Seq(Path)
        BY PlanFacts DEF Inv, ExportInv, ExportTypes, Shared
    <3>3. i \in 1 .. Len(Plan)
        BY <2>2, <3>1, <3>2
    <3>4. Copied(p, Len(Plan)) \subseteq rows
        BY <2>2 DEF Inv, RowsInv
    <3> QED
        BY <3>1, <3>3, <3>4 DEF Copied
  <2> QED
      BY <2>1, <2>2
<1> QED
    BY <1>1, Invariance, PTL

\* An import without --force adds rows only to tables its own SQL files have
\* created, also when two of them pass the preflight at the same time.
THEOREM LoadsOnlyOwnTablesCorrect == Spec => []LoadsOnlyOwnTables
<1>1. Inv => LoadsOnlyOwnTables
  <2> SUFFICES ASSUME Inv, NEW p \in Importers, kind[p] = "import",
                      NEW r \in rows, r.by = p
               PROVE  tables[r.table] = p
      BY DEF LoadsOnlyOwnTables
  <2>1. Committed(p) /\ r.table \in Tables
      BY DEF Inv, RowsInv, ImportInv, ImportTypeOK, Row
  <2> QED
      BY <2>1 DEF Inv, RowsInv, Owns
<1> QED
    BY <1>1, Invariance, PTL

\* Two imports of the same files never wait for each other: both copy one file
\* per table in the same order, and COPY waits only for a row of that table.
THEOREM NoMutualWaitCorrect == Spec => []NoMutualWait
<1>1. Inv => NoMutualWait
  <2> SUFFICES ASSUME Inv, NEW p \in Importers, NEW v \in Importers,
                      WaitsFor(p, v), WaitsFor(v, p)
               PROVE  FALSE
      BY DEF NoMutualWait
  <2>0. Typed(Shared)
      BY DEF Inv, ExportInv, ExportTypes, Shared
  <2>1. Plan \in Seq(Path) /\ \A i, j \in DOMAIN Plan : Plan[i][2] = Plan[j][2] => i = j
      BY <2>0, PlanFacts
  <2>2. ASSUME NEW x \in Importers, NEW y \in Importers, WaitsFor(x, y), ipc[y] = "copy"
        PROVE  nth[x] \in 1 .. Len(Plan) /\ nth[y] \in 1 .. Len(Plan) /\ nth[x] < nth[y]
    <3>1. ipc[x] = "copy" /\ Progress(x) /\ Progress(y)
        BY <2>2 DEF WaitsFor, Inv, ImportInv
    <3>2. /\ nth[x] \in 1 .. Len(Plan) /\ nth[y] \in 1 .. Len(Plan)
          /\ tx[y] = Copied(y, nth[y] - 1)
        BY <2>2, <3>1 DEF Progress
    <3>3. Lines(x, csvs[x][nth[x]]) = PlanLines(x, nth[x])
        BY <3>1, DataFacts DEF Inv
    <3>4. PICK r \in PlanLines(x, nth[x]), s \in Copied(y, nth[y] - 1) : SameKey(r, s)
        BY <2>2, <3>2, <3>3 DEF WaitsFor
    <3>5. PICK i \in 1 .. nth[y] - 1 : s \in PlanLines(y, i)
        BY <3>4 DEF Copied
    <3>6. i \in DOMAIN Plan /\ nth[x] \in DOMAIN Plan
        BY <2>1, <3>2
    <3>7. r.table = Plan[nth[x]][2] /\ s.table = Plan[i][2]
        BY <2>0, <3>4, <3>5, <3>6, PlanLinesFacts
    <3>8. i = nth[x]
        BY <2>1, <3>4, <3>6, <3>7 DEF SameKey
    <3> QED
        BY <3>2, <3>8
  <2>3. ipc[p] = "copy" /\ ipc[v] = "copy"
      BY DEF WaitsFor
  <2>4. nth[p] < nth[v] /\ nth[v] < nth[p] /\ nth[p] \in Nat /\ nth[v] \in Nat
      BY <2>2, <2>3
  <2> QED
      BY <2>4
<1> QED
    BY <1>1, Invariance, PTL

----------------------------------------------------------------------------
(* What the files hold.                                                    *)

\* An alias is not the name of a table, of whatever SQL file.
AliasesApart == Aliases \intersect Tables = {}

\* The directory of a group comes before those of its collections: to-pg names
\* a group by what their names begin with.
GroupsFirst == \A c \in Colls : FileOf[c] # c => DirAt(FileOf[c]) < DirAt(c)

DocsOf(s)    == {s[i].doc : i \in DOMAIN s}
Places(s, d) == {i \in DOMAIN s : s[i].doc = d}

\* R and K are lines of the root table and of the child table of SQL file g:
\* a document once, its child rows numbered on from those of the one before.
Pair(g, R, K) ==
  /\ \A i \in DOMAIN R : R[i].key = R[i].doc /\ FileOf[CollOf[R[i].doc]] = g
  /\ \A i, j \in DOMAIN R : R[i].doc = R[j].doc => i = j
  /\ \A i \in DOMAIN K : K[i].key = i /\ K[i].doc \in DocsOf(R)
  /\ \A d \in DocsOf(R) : \E m \in 0 .. Len(K) : Places(K, d) = m + 1 .. m + KidsOf[d]

RootPath(g)  == <<DirOf(g), RootOf[g]>>
ChildPath(g) == <<DirOf(g), ChildOf[g]>>

\* No cursor has been opened again over a scan in another order.
Sane == \A c \in broken : Ordered(c)

\* Where worker w is in its stream: what it has written and what its cursor has
\* yet to return are documents of its collections, none twice, and none is
\* missing that was there when the export started.
Streamed(w) ==
  LET g == job[w]
      c == CurrentColl(w)
      R == files[RootPath(g)].lines
      K == files[ChildPath(g)].lines
      W == DocsOf(R)
  IN  /\ Pair(g, R, K) /\ Len(K) = counter[w]
      /\ W \subseteq Stored
      /\ \A d \in W : \E i \in 1 .. source[w] : CollOf[d] = members[g][i]
      /\ \A d \in started : \A i \in 1 .. source[w] - 1 :
           CollOf[d] = members[g][i] => d \in W
      /\ last[w] = None => \A d \in W : CollOf[d] # c
      /\ last[w] # None => last[w] \in Range(natural[c])
      /\ last[w] # None /\ Ordered(c) => \A d \in W : CollOf[d] = c => d <= last[w]
      /\ wpc[w] = "find" /\ last[w] # None =>
           /\ c \in broken
           /\ \A d \in started : CollOf[d] = c /\ d <= last[w] => d \in W
      /\ wpc[w] = "fetch" =>
           /\ Range(cursor[w]) \subseteq Range(natural[c])
           /\ IsInjective(cursor[w])
           /\ \A d \in Range(cursor[w]) : d \notin W
           /\ \A d \in started : CollOf[d] = c => d \in W \union Range(cursor[w])
           /\ Ordered(c) =>
                /\ \A i, j \in DOMAIN cursor[w] : i < j => cursor[w][i] < cursor[w][j]
                /\ last[w] # None => \A i \in DOMAIN cursor[w] : last[w] < cursor[w][i]

\* The file for a table of g that is done: in its directory, or uploaded.
Art(g, t) == IF <<DirOf(g), t>> \in DOMAIN files THEN files[<<DirOf(g), t>>]
             ELSE objects[<<g, t>>]

Ready(g) ==
  /\ \A t \in TablesOf(g) :
       /\ <<DirOf(g), t>> \in DOMAIN files \/ (remote /\ <<g, t>> \in DOMAIN objects)
       /\ Art(g, t).whole
  /\ Pair(g, Art(g, RootOf[g]).lines, Art(g, ChildOf[g]).lines)
  /\ \A d \in started : FileOf[CollOf[d]] = g => d \in DocsOf(Art(g, RootOf[g]).lines)

\* The collections of g: those of the export that runs, or those there are.
Mem(g) == IF xpc = "running" THEN ToSet(members[g])
          ELSE {c \in Colls : FileOf[c] = g /\ natural[c] # <<>>}

\* A file for a table of g is in the directory of a collection of g, or, when
\* it has several, in that of g.
Homes ==
  \A g \in Range(SqlFiles) : \A t \in TablesOf(g) :
    /\ \A p \in DOMAIN files : p[2] = t =>
         p[1] \in Mem(g) \/ (p[1] = g /\ \E c, e \in Mem(g) : c # e)
    /\ \A p \in DOMAIN objects : p[2] = t => p[1] = g /\ Mem(g) # {}

\* The plan of an export covers what there was when it started, a worker
\* begins its job afresh, and no job is done while a worker has it.
Planned ==
  /\ \A c \in Colls : IsInjective(natural[c])
  /\ \A w \in Workers : wpc[w] \in {"take", "ended"} => last[w] = None /\ counter[w] = 0
  /\ xpc = "running" =>
       /\ \A g \in Range(SqlFiles) : IsInjective(members[g])
       /\ \A g \in Range(SqlFiles) : members[g] # <<>> <=> g \in Range(jobs)
       /\ \A g \in Range(SqlFiles) : \A i \in DOMAIN members[g] : natural[members[g][i]] # <<>>
       /\ started \subseteq Stored
       /\ \A d \in started : CollOf[d] \in ToSet(members[FileOf[CollOf[d]]])
       /\ jobs # <<>>
       /\ \A w \in Workers : job[w] # None => job[w] \notin doneJobs

WrittenInv ==
  xpc = "running" /\ Sane =>
    /\ \A w \in Workers : wpc[w] \in {"find", "fetch"} => Streamed(w)
    /\ \A w \in Workers : wpc[w] = "upload" => remote /\ Ready(job[w])
    /\ \A g \in doneJobs : Ready(g) /\ (remote => InDir(DirOf(g)) = {})

\* The two files of g, the documents of the basis all in them.
Full(g, r, k) ==
  /\ r.whole /\ k.whole /\ Pair(g, r.lines, k.lines)
  /\ \A d \in basis : FileOf[CollOf[d]] = g => d \in DocsOf(r.lines)

\* After a sound export an import finds for an SQL file both files, or none
\* when there was nothing to export.
Served ==
  xpc # "running" /\ basis # None =>
    /\ basis \subseteq Docs /\ Having # {}
    /\ \A g \in Range(SqlFiles) :
         \/ /\ RootOf[g] \notin Having /\ ChildOf[g] \notin Having
            /\ \A d \in basis : FileOf[CollOf[d]] # g
         \/ /\ RootOf[g] \in Having /\ ChildOf[g] \in Having
            /\ Full(g, Shared[Pref(RootOf[g])], Shared[Pref(ChildOf[g])])

ContentInv == Planned /\ Homes /\ WrittenInv /\ Served

----------------------------------------------------------------------------
(* An import that runs alone.                                              *)

Refusals == {"key", "fk", "gzip", "missing", "ddl", "nofile"}

\* No other import runs while p does.
Apart(p) == alone[p] /\ p \in Running => Running = {p}

\* An import without --force that runs alone has found no table, so that there
\* is none but its own, and no row, until it commits.
Fresh(p) ==
  kind[p] = "import" /\ alone[p] =>
    /\ ipc[p] = "check" =>
         \A i \in 1 .. nth[p] - 1 : TablesOf(SqlFiles[i]) \intersect DOMAIN tables \subseteq existing[p]
    /\ ipc[p] = "ddl" =>
         /\ rows = {}
         /\ \A i \in nth[p] .. Len(SqlFiles) : TablesOf(SqlFiles[i]) \intersect DOMAIN tables = {}
    /\ ipc[p] \in {"discover", "copy", "commit"} => rows = {}
    /\ basis # None => why[p] \notin Refusals

LoadInv ==
  /\ alone \in [Importers -> BOOLEAN]
  /\ \A r \in rows : r \in Copied(r.by, Len(Plan)) /\ r.table \in DOMAIN tables
  /\ \A p \in Importers : \A r \in tx[p] : r.table \in DOMAIN tables
  /\ \A p \in Importers : ipc[p] = "stage" => remote
  /\ \A p \in Importers : Apart(p) /\ Fresh(p)

\* Nothing written.
LEMMA PairEmpty == \A g : Pair(g, <<>>, <<>>) /\ DocsOf(<<>>) = {}
  BY DEF Pair, DocsOf

\* S and L are R and K with the rows of document d.
WithDoc(R, K, d, S, L) == S = R \o RootLine(d) /\ L = K \o ChildLines(d, Len(K))

\* A document more, that has not been written before.
LEMMA PairAdd ==
  ASSUME NEW g, NEW R \in Seq(Line), NEW K \in Seq(Line), Pair(g, R, K),
         NEW d \in Docs, FileOf[CollOf[d]] = g, d \notin DocsOf(R),
         NEW S, NEW L, WithDoc(R, K, d, S, L)
  PROVE  /\ DocsOf(S) = DocsOf(R) \union {d}
         /\ Pair(g, S, L) /\ Len(L) = Len(K) + KidsOf[d]
<1> DEFINE n == Len(K)
           C == ChildLines(d, n)
           r == RootLine(d)
           k == KidsOf[d]
<1>a. S = R \o r /\ L = K \o C
    BY DEF WithDoc
<1>0. d \in Nat /\ k \in Nat /\ n \in Nat /\ Len(R) \in Nat
    BY ArtifactsAssumption
<1>1. [key |-> d, doc |-> d] \in Line
    BY <1>0 DEF Line
<1>2. C \in Seq(Line) /\ DOMAIN C = 1 .. k /\ Len(C) = k
      /\ \A i \in 1 .. k : C[i].key = n + i /\ C[i].doc = d
  <2>1. \A i \in 1 .. k : [key |-> n + i, doc |-> d] \in Line
      BY <1>0 DEF Line
  <2> QED
      BY <1>0, <2>1 DEF ChildLines
<1> HIDE DEF C, k
<1>3. /\ DOMAIN S = 1 .. Len(R) + 1 /\ S[Len(R) + 1].key = d /\ S[Len(R) + 1].doc = d
      /\ \A i \in 1 .. Len(R) : S[i] = R[i]
  <2> DEFINE x == [key |-> d, doc |-> d]
  <2>1. S = R \o <<x>> /\ x \in Line /\ x.key = d /\ x.doc = d
      BY <1>a, <1>1 DEF RootLine
  <2> HIDE DEF x
  <2> QED
      BY <2>1
<1>4. /\ DOMAIN L = 1 .. n + k /\ Len(L) = n + k
      /\ \A i \in 1 .. n : L[i] = K[i]
      /\ \A i \in 1 .. n + k : i > n => L[i].key = i /\ L[i].doc = d
  <2>1. /\ DOMAIN L = 1 .. n + k /\ Len(L) = n + k
        /\ \A i \in 1 .. n : L[i] = K[i]
        /\ \A i \in 1 .. n + k : i > n => L[i] = C[i - n] /\ i - n \in 1 .. k
    <3>1. C \in Seq(Line) /\ Len(C) = k /\ Len(K) = n
        BY <1>2
    <3> HIDE DEF n
    <3>2. /\ DOMAIN (K \o C) = 1 .. n + k /\ Len(K \o C) = n + k
          /\ \A i \in 1 .. n : (K \o C)[i] = K[i]
          /\ \A i \in 1 .. n + k : i > n => (K \o C)[i] = C[i - n] /\ i - n \in 1 .. k
        BY <1>0, <3>1
    <3> QED
        BY <1>a, <3>2, Zenon
  <2>2. ASSUME NEW i \in 1 .. n + k, i > n PROVE L[i].key = i /\ L[i].doc = d
    <3>1. L[i] = C[i - n] /\ i - n \in 1 .. k
        BY <2>1, <2>2
    <3>2. C[i - n].key = n + (i - n) /\ C[i - n].doc = d
        BY <1>2, <3>1
    <3> QED
        BY <1>0, <3>1, <3>2
  <2> QED
      BY <2>1, <2>2
<1>5. /\ \A i \in 1 .. Len(R) : R[i].key = R[i].doc /\ FileOf[CollOf[R[i].doc]] = g
      /\ \A i, j \in 1 .. Len(R) : R[i].doc = R[j].doc => i = j
      /\ \A i \in 1 .. n : K[i].key = i /\ K[i].doc \in DocsOf(R)
      /\ \A e \in DocsOf(R) : \E m \in 0 .. n : Places(K, e) = m + 1 .. m + KidsOf[e]
    BY DEF Pair
<1>6. \A i \in 1 .. Len(R) : R[i].doc # d
    BY DEF DocsOf
<1>7. DocsOf(S) = DocsOf(R) \union {d}
  <2>1. \A i \in 1 .. Len(R) : S[i].doc = R[i].doc
      BY <1>3
  <2>2. Len(R) + 1 \in DOMAIN S /\ \A i \in DOMAIN S : i = Len(R) + 1 \/ i \in 1 .. Len(R)
      BY <1>0, <1>3
  <2>3. \A i \in 1 .. Len(R) : i \in DOMAIN S
      BY <1>0, <1>3
  <2> QED
      BY <1>3, <2>1, <2>2, <2>3 DEF DocsOf
<1>8. \A i \in DOMAIN S : S[i].key = S[i].doc /\ FileOf[CollOf[S[i].doc]] = g
    BY <1>0, <1>3, <1>5
<1>9. ASSUME NEW i \in DOMAIN S, NEW j \in DOMAIN S, S[i].doc = S[j].doc PROVE i = j
  <2>1. CASE i \in 1 .. Len(R) /\ j \in 1 .. Len(R)
      BY <1>3, <1>5, <1>9, <2>1
  <2>2. CASE i \notin 1 .. Len(R) \/ j \notin 1 .. Len(R)
      BY <1>0, <1>3, <1>6, <1>9, <2>2
  <2> QED
      BY <2>1, <2>2
<1>10. \A i \in DOMAIN L : L[i].key = i /\ L[i].doc \in DocsOf(S)
  <2> SUFFICES ASSUME NEW i \in DOMAIN L PROVE L[i].key = i /\ L[i].doc \in DocsOf(S)
      OBVIOUS
  <2>1. CASE i \in 1 .. n
      BY <1>4, <1>5, <1>7, <2>1
  <2>2. CASE i \notin 1 .. n
      BY <1>0, <1>4, <1>7, <2>2
  <2> QED
      BY <2>1, <2>2
<1>11. ASSUME NEW e \in DocsOf(S)
       PROVE  \E m \in 0 .. Len(L) : Places(L, e) = m + 1 .. m + KidsOf[e]
  <2>1. CASE e = d
    <3>1. \A i \in 1 .. n : L[i].doc # d
        BY <1>4, <1>5, <2>1
    <3>2. Places(L, d) = n + 1 .. n + k
        BY <1>0, <1>4, <3>1 DEF Places
    <3>3. n \in 0 .. Len(L)
        BY <1>0, <1>4
    <3> QED
        BY <2>1, <3>2, <3>3 DEF k
  <2>2. CASE e # d
    <3>1. PICK m \in 0 .. n : Places(K, e) = m + 1 .. m + KidsOf[e]
        BY <1>5, <1>7, <2>2
    <3>2. \A i \in 1 .. n + k : L[i].doc = e <=> i \in 1 .. n /\ K[i].doc = e
        BY <1>0, <1>4, <2>2
    <3>3. Places(L, e) = Places(K, e)
        BY <1>0, <1>4, <3>2 DEF Places
    <3>4. m \in 0 .. Len(L)
        BY <1>0, <1>4
    <3> QED
        BY <3>1, <3>3, <3>4
  <2> QED
      BY <2>1, <2>2
<1>12. Pair(g, S, L)
  <2> QED
      BY <1>8, <1>9, <1>10, <1>11 DEF Pair
<1> QED
    BY <1>4, <1>7, <1>12 DEF k, C, r

\* The tables of different SQL files are different.
LEMMA TablesApartFacts ==
  /\ \A g, h \in Range(SqlFiles) : \A t \in TablesOf(g) : t \in TablesOf(h) => g = h
  /\ \A g \in Range(SqlFiles) : RootOf[g] # ChildOf[g]
<1>1. /\ DOMAIN RootOf = Range(SqlFiles) /\ DOMAIN ChildOf = Range(SqlFiles)
      /\ IsInjective(RootOf) /\ IsInjective(ChildOf)
      /\ Range(RootOf) \intersect Range(ChildOf) = {}
    BY ArtifactsAssumption
<1>2. \A g, h \in Range(SqlFiles) :
        /\ RootOf[g] = RootOf[h] => g = h
        /\ ChildOf[g] = ChildOf[h] => g = h
    BY <1>1 DEF IsInjective
<1>3. \A g, h \in Range(SqlFiles) : RootOf[g] # ChildOf[h]
  <2>1. \A g \in Range(SqlFiles) : RootOf[g] \in Range(RootOf) /\ ChildOf[g] \in Range(ChildOf)
    <3> DEFINE U == Range(SqlFiles)
    <3>1. DOMAIN RootOf = U /\ DOMAIN ChildOf = U
        BY <1>1
    <3> HIDE DEF U
    <3>2. \A g \in U : RootOf[g] \in Range(RootOf) /\ ChildOf[g] \in Range(ChildOf)
        BY <3>1 DEF Range
    <3> QED
        BY <3>2 DEF U
  <2> QED
      BY <1>1, <2>1
<1> QED
    BY <1>2, <1>3 DEF TablesOf

\* A file of records keeps its closing mark when lines are added.
LEMMA MoreLines ==
  ASSUME NEW f \in File, NEW x \in Seq(Line)
  PROVE  [f EXCEPT !.lines = @ \o x].lines = f.lines \o x
  BY DEF File

\* What the rows of a document do to the files of its job.
LEMMA RowsWritten ==
  ASSUME Typed(files), NEW g \in Range(SqlFiles), NEW d \in Docs, NEW n \in Nat,
         RootPath(g) \in DOMAIN files, ChildPath(g) \in DOMAIN files
  PROVE  /\ WithRows(g, d, n)[RootPath(g)].lines = files[RootPath(g)].lines \o RootLine(d)
         /\ WithRows(g, d, n)[ChildPath(g)].lines = files[ChildPath(g)].lines \o ChildLines(d, n)
         /\ \A p \in DOMAIN files : p[1] # DirOf(g) => WithRows(g, d, n)[p] = files[p]
<1>1. RootPath(g) # ChildPath(g)
    BY TablesApartFacts DEF RootPath, ChildPath
<1>2. files[RootPath(g)] \in File /\ files[ChildPath(g)] \in File
    BY DEF Typed
<1>3. d \in Nat /\ KidsOf[d] \in Nat
    BY ArtifactsAssumption
<1>4. RootLine(d) \in Seq(Line)
  <2>1. [key |-> d, doc |-> d] \in Line
      BY <1>3 DEF Line
  <2> QED
      BY <2>1 DEF RootLine
<1>5. ChildLines(d, n) \in Seq(Line)
  <2>1. \A i \in 1 .. KidsOf[d] : [key |-> n + i, doc |-> d] \in Line
      BY <1>3 DEF Line
  <2> QED
      BY <1>3, <2>1 DEF ChildLines
<1>6. WithRows(g, d, n)[RootPath(g)] = [files[RootPath(g)] EXCEPT !.lines = @ \o RootLine(d)]
    BY DEF WithRows, RootPath
<1>7. WithRows(g, d, n)[ChildPath(g)] = [files[ChildPath(g)] EXCEPT !.lines = @ \o ChildLines(d, n)]
    BY <1>1 DEF WithRows, RootPath, ChildPath
<1>8. \A p \in DOMAIN files : p[1] # DirOf(g) => WithRows(g, d, n)[p] = files[p]
    BY DEF WithRows
<1> QED
    BY <1>2, <1>4, <1>5, <1>6, <1>7, <1>8, MoreLines

\* The documents of a find: the scan, or what comes after the last one seen, in
\* the order of _id.
LEMMA FoundAll ==
  ASSUME NEW c PROVE Found(c, None) = natural[c]
  BY DEF Found

\* A find that resumes returns the documents after the last one, in their order.
LEMMA FoundAfter ==
  ASSUME NEW c \in Colls, natural[c] \in Seq(Docs), NEW seen \in Docs
  PROVE  /\ Range(Found(c, seen)) = {d \in Range(natural[c]) : d > seen}
         /\ \A i, j \in DOMAIN Found(c, seen) : i < j => Found(c, seen)[i] < Found(c, seen)[j]
         /\ IsInjective(Found(c, seen))
<1> DEFINE T == {d \in Range(natural[c]) : d > seen}
           F == Pick(IdOrder, T)
<1>1. IdOrder \in Seq(Nat) /\ Docs \subseteq ToSet(IdOrder) /\ \A i \in DOMAIN IdOrder : IdOrder[i] = i
    BY IdOrderFacts
<1>2. Range(natural[c]) \subseteq Docs /\ seen # None
    BY ArtifactsAssumption DEF Range
<1>3. Found(c, seen) = F
    BY <1>2 DEF Found
<1>4. F \in Seq(Nat) /\ ToSet(F) = ToSet(IdOrder) \intersect T
    BY <1>1, PickProperties
<1>5. ToSet(F) = T
    BY <1>1, <1>2, <1>4
<1>6. \A i, j \in DOMAIN F : i < j =>
        \E a, b \in DOMAIN IdOrder : a < b /\ F[i] = IdOrder[a] /\ F[j] = IdOrder[b]
  <2> HIDE DEF T
  <2> QED
      BY <1>1, PickProperties
<1>7. ASSUME NEW i \in DOMAIN F, NEW j \in DOMAIN F, i < j PROVE F[i] < F[j]
  <2>1. PICK a \in DOMAIN IdOrder, b \in DOMAIN IdOrder :
          a < b /\ F[i] = IdOrder[a] /\ F[j] = IdOrder[b]
      BY <1>6, <1>7
  <2> QED
      BY <1>1, <2>1
<1>8. IsInjective(F)
  <2> HIDE DEF F
  <2>1. ASSUME NEW i \in DOMAIN F, NEW j \in DOMAIN F, F[i] = F[j] PROVE i = j
    <3>1. i \in Nat /\ j \in Nat /\ F[i] \in Nat
        BY <1>4
    <3>2. ~(i < j) /\ ~(j < i)
        BY <1>7, <2>1, <3>1
    <3> QED
        BY <3>1, <3>2
  <2> QED
      BY <2>1 DEF IsInjective
<1>9. Range(F) = ToSet(F)
    BY DEF Range, ToSet
<1> HIDE DEF F
<1> QED
    BY <1>3, <1>5, <1>7, <1>8, <1>9

----------------------------------------------------------------------------
(* What a worker leaves alone.                                             *)

\* Files of other directories and objects of other SQL files stay.
Elsewhere(g) ==
  /\ \A p : p[1] # DirOf(g) =>
       /\ p \in DOMAIN files' <=> p \in DOMAIN files
       /\ p \in DOMAIN files => files'[p] = files[p]
  /\ \A q : q[1] # g =>
       /\ q \in DOMAIN objects' <=> q \in DOMAIN objects
       /\ q \in DOMAIN objects => objects'[q] = objects[q]

OthersStay(w) ==
  \A v \in Workers : v # w =>
    /\ wpc'[v] = wpc[v] /\ job'[v] = job[v] /\ source'[v] = source[v]
    /\ cursor'[v] = cursor[v] /\ last'[v] = last[v] /\ counter'[v] = counter[v]

Frame(w, g) ==
  /\ UNCHANGED <<natural, remote, xpc, jobs, members, started>>
  /\ broken \subseteq broken'
  /\ OthersStay(w)
  /\ doneJobs \subseteq doneJobs' /\ doneJobs' \subseteq doneJobs \union {g}
  /\ Elsewhere(g)

\* A stream goes on as it was while its job and its files stay.
LEMMA StreamedKept ==
  ASSUME NEW v, Streamed(v), UNCHANGED <<natural, members, started>>, broken \subseteq broken',
         wpc'[v] = wpc[v], job'[v] = job[v], source'[v] = source[v],
         cursor'[v] = cursor[v], last'[v] = last[v], counter'[v] = counter[v],
         files'[RootPath(job[v])] = files[RootPath(job[v])],
         files'[ChildPath(job[v])] = files[ChildPath(job[v])]
  PROVE  Streamed(v)'
<1>1. \A h : RootPath(h)' = RootPath(h) /\ ChildPath(h)' = ChildPath(h)
    BY DEF RootPath, ChildPath, DirOf
<1>2. /\ files[RootPath(job[v])]' = files[RootPath(job[v])]
      /\ files[ChildPath(job[v])]' = files[ChildPath(job[v])]
    BY <1>1
<1>3. CurrentColl(v)' = CurrentColl(v) /\ Stored' = Stored
    BY DEF CurrentColl, Stored
<1>4. \A x : Ordered(x)' <=> Ordered(x)
    BY DEF Ordered
<1> QED
    BY <1>2, <1>3, <1>4 DEF Streamed

\* Files that are ready stay so while they are where they are.
Stays(g) ==
  \A t \in TablesOf(g) :
    /\ <<DirOf(g), t>> \in DOMAIN files' <=> <<DirOf(g), t>> \in DOMAIN files
    /\ <<DirOf(g), t>> \in DOMAIN files => files'[<<DirOf(g), t>>] = files[<<DirOf(g), t>>]
    /\ <<g, t>> \in DOMAIN objects' <=> <<g, t>> \in DOMAIN objects
    /\ <<g, t>> \in DOMAIN objects => objects'[<<g, t>>] = objects[<<g, t>>]

\* The files of a job that is done stay as they are.
LEMMA ReadyKept ==
  ASSUME NEW g, Ready(g), UNCHANGED <<members, started, remote>>, Stays(g)
  PROVE  Ready(g)'
<1>1. DirOf(g)' = DirOf(g)
    BY DEF DirOf
<1>2. \A t \in TablesOf(g) : Art(g, t)' = Art(g, t)
    BY <1>1 DEF Art, Stays, Ready
<1>3. \A t \in TablesOf(g) :
         /\ <<DirOf(g), t>>' \in DOMAIN files' \/ (remote' /\ <<g, t>> \in DOMAIN objects')
         /\ Art(g, t).whole'
    BY <1>1, <1>2 DEF Ready, Stays
<1>4. Art(g, RootOf[g])' = Art(g, RootOf[g]) /\ Art(g, ChildOf[g])' = Art(g, ChildOf[g])
    BY <1>2 DEF TablesOf
<1>5. Pair(g, Art(g, RootOf[g]).lines, Art(g, ChildOf[g]).lines)'
    BY <1>4 DEF Ready
<1>6. \A d \in started' : FileOf[CollOf[d]] = g => d \in DocsOf(Art(g, RootOf[g]).lines)'
    BY <1>4 DEF Ready
<1> QED
    BY <1>3, <1>5, <1>6 DEF Ready

\* What the step of a worker with SQL file g does not touch.
LEMMA FrameKept ==
  ASSUME ExportTypes, Shape, NEW w \in Workers, NEW g \in Range(SqlFiles), Frame(w, g)
  PROVE  /\ \A v \in Workers \ {w} :
              wpc[v] \in {"find", "fetch"} /\ job[v] # g /\ Streamed(v) => Streamed(v)'
         /\ \A h \in Range(SqlFiles) \ {g} :
              /\ Ready(h) => Ready(h)'
              /\ InDir(DirOf(h)) = {} => InDir(DirOf(h))' = {}
<1>0. /\ UNCHANGED <<natural, remote, xpc, jobs, members, started>>
      /\ broken \subseteq broken' /\ Elsewhere(g)
      /\ \A v \in Workers : v # w =>
           /\ wpc'[v] = wpc[v] /\ job'[v] = job[v] /\ source'[v] = source[v]
           /\ cursor'[v] = cursor[v] /\ last'[v] = last[v] /\ counter'[v] = counter[v]
    BY DEF Frame, OthersStay
<1>1. \A h \in Range(SqlFiles) \ {g} : DirOf(h) # DirOf(g)
    BY DirFacts DEF Shape
<1>2. ASSUME NEW v \in Workers \ {w}, wpc[v] \in {"find", "fetch"}, job[v] # g, Streamed(v)
      PROVE  Streamed(v)'
  <2>1. job[v] \in Range(SqlFiles)
      BY <1>2, BusyFacts
  <2>2. DirOf(job[v]) # DirOf(g)
      BY <1>1, <1>2, <2>1
  <2>3. /\ files'[RootPath(job[v])] = files[RootPath(job[v])]
        /\ files'[ChildPath(job[v])] = files[ChildPath(job[v])]
    <3>1. RootPath(job[v]) \in DOMAIN files /\ ChildPath(job[v]) \in DOMAIN files
        BY <1>2 DEF Shape, TablesOf, RootPath, ChildPath
    <3> QED
        BY <1>0, <2>2, <3>1 DEF Elsewhere, RootPath, ChildPath
  <2> QED
      BY <1>0, <1>2, <2>3, StreamedKept
<1>3. ASSUME NEW h \in Range(SqlFiles) \ {g}
      PROVE  /\ Ready(h) => Ready(h)'
             /\ InDir(DirOf(h)) = {} => InDir(DirOf(h))' = {}
  <2>1. Stays(h)
    <3>1. \A t : <<DirOf(h), t>>[1] # DirOf(g) /\ <<h, t>>[1] # g
        BY <1>1
    <3> QED
        BY <1>0, <3>1 DEF Elsewhere, Stays
  <2>2. Ready(h) => Ready(h)'
      BY <1>0, <2>1, ReadyKept
  <2>3. DirOf(h)' = DirOf(h)
      BY <1>0 DEF DirOf
  <2>4. \A p \in DOMAIN files' : p[1] = DirOf(h) => p \in DOMAIN files
      BY <1>0, <1>1 DEF Elsewhere
  <2> QED
      BY <2>2, <2>3, <2>4 DEF InDir
<1> QED
    BY <1>2, <1>3

\* What each step of a worker touches.
LEMMA WorkerFrame ==
  ASSUME ExportTypes, Shape, NEW w \in Workers
  PROVE  /\ TakeJob(w) => Frame(w, jobs[next])
         /\ NoMoreJobs(w) => \A g : Frame(w, g)
         /\ OpenCursor(w) \/ FindFails(w) \/ Fetch(w) \/ CursorFails(w) \/ NextSource(w)
              \/ FinishFiles(w) \/ Upload(w) \/ UploadFails(w) \/ AllUploaded(w) =>
            Frame(w, job[w])
<1> USE DEF outcome, command, stream
<1>0. /\ wpc \in [Workers -> {"take", "find", "fetch", "upload", "ended"}]
      /\ job \in [Workers -> Range(SqlFiles) \union {None}] /\ source \in [Workers -> Nat]
      /\ cursor \in [Workers -> Seq(Docs)] /\ last \in [Workers -> Docs \union {None}]
      /\ counter \in [Workers -> Nat] /\ Typed(files) /\ Typed(objects)
    BY DEF ExportTypes, ExportTypeOK
<1>1. LeaveJob(w, "take") => OthersStay(w)
    BY <1>0 DEF LeaveJob, OthersStay
<1>2. \A g : UNCHANGED <<files, objects>> => Elsewhere(g)
    BY DEF Elsewhere
<1>3. ASSUME TakeJob(w) PROVE Frame(w, jobs[next])
  <2>1. OthersStay(w)
      BY <1>0, <1>3 DEF TakeJob, OthersStay
  <2> DEFINE g == jobs[next]
  <2>2. /\ files' = [p \in (DOMAIN files \ InDir(DirOf(g)))
                         \union {<<DirOf(g), t>> : t \in TablesOf(g)} |->
                    IF p[1] = DirOf(g) THEN [lines |-> <<>>, whole |-> FALSE]
                    ELSE files[p]]
        /\ objects' = objects
      BY <1>3 DEF TakeJob
  <2> HIDE DEF g
  <2>3. \A p : p[1] # DirOf(g) =>
          /\ p \in DOMAIN files' <=> p \in DOMAIN files
          /\ p \in DOMAIN files => files'[p] = files[p]
    <3>1. \A p : p[1] # DirOf(g) => p \notin {<<DirOf(g), t>> : t \in TablesOf(g)}
        OBVIOUS
    <3> QED
        BY <2>2, <3>1 DEF InDir
  <2>4. Elsewhere(g)
      BY <2>2, <2>3 DEF Elsewhere
  <2>5. /\ UNCHANGED <<natural, remote, xpc, jobs, members, started>>
        /\ broken' = broken /\ doneJobs' = doneJobs
      BY <1>3 DEF TakeJob
  <2> QED
      BY <2>1, <2>4, <2>5 DEF Frame, g
<1>4. ASSUME NoMoreJobs(w), NEW g PROVE Frame(w, g)
    BY <1>0, <1>2, <1>4 DEF NoMoreJobs, Frame, OthersStay
<1>5. ASSUME OpenCursor(w) PROVE Frame(w, job[w])
    BY <1>0, <1>2, <1>5 DEF OpenCursor, Frame, OthersStay
<1>6. ASSUME NEW g, DropWriters(g), objects' = objects PROVE Elsewhere(g)
    BY <1>0, <1>6, DropWritersFacts DEF Elsewhere
<1>7. ASSUME FindFails(w) PROVE Frame(w, job[w])
  <2>1. LeaveJob(w, "take") /\ DropWriters(job[w]) /\ objects' = objects
      BY <1>7 DEF FindFails, NoteFailure
  <2>2. OthersStay(w)
      BY <1>1, <2>1
  <2>3. Elsewhere(job[w])
      BY <1>6, <2>1
  <2>5. /\ UNCHANGED <<natural, remote, xpc, jobs, members, started>>
        /\ broken \subseteq broken' /\ doneJobs \subseteq doneJobs'
        /\ doneJobs' \subseteq doneJobs \union {job[w]}
      BY <1>7 DEF FindFails, NoteFailure
  <2> QED
      BY <2>2, <2>3, <2>5 DEF Frame
<1>8. ASSUME Fetch(w) PROVE Frame(w, job[w])
  <2>1. OthersStay(w)
      BY <1>0, <1>8 DEF Fetch, OthersStay
  <2>2. files' = WithRows(job[w], Head(cursor[w]), counter[w]) /\ objects' = objects
      BY <1>8 DEF Fetch
  <2>3. Elsewhere(job[w])
    <3> DEFINE d == Head(cursor[w])
    <3>0. files' = WithRows(job[w], d, counter[w])
        BY <2>2
    <3> HIDE DEF d
    <3>1. \A p \in DOMAIN files : p[1] # DirOf(job[w]) => files'[p] = files[p]
      <4> SUFFICES ASSUME NEW p \in DOMAIN files, p[1] # DirOf(job[w]) PROVE files'[p] = files[p]
          OBVIOUS
      <4>1. p # <<DirOf(job[w]), RootOf[job[w]]>> /\ p # <<DirOf(job[w]), ChildOf[job[w]]>>
          OBVIOUS
      <4> QED
          BY <3>0, <4>1 DEF WithRows
    <3>2. DOMAIN files' = DOMAIN files
        BY <2>2 DEF WithRows
    <3> QED
        BY <2>2, <3>1, <3>2 DEF Elsewhere
  <2>5. /\ UNCHANGED <<natural, remote, xpc, jobs, members, started>>
        /\ broken \subseteq broken' /\ doneJobs \subseteq doneJobs'
        /\ doneJobs' \subseteq doneJobs \union {job[w]}
      BY <1>8 DEF Fetch
  <2> QED
      BY <2>1, <2>3, <2>5 DEF Frame
<1>9. ASSUME CursorFails(w) PROVE Frame(w, job[w])
  <2> SUFFICES OthersStay(w) /\ Elsewhere(job[w]) /\ doneJobs' = doneJobs
    <3>1. UNCHANGED <<natural, remote, xpc, jobs, members, started>> /\ broken \subseteq broken'
        BY <1>9 DEF CursorFails
    <3> QED
        BY <3>1 DEF Frame
  <2>1. CASE MayRetry(w)
    <3>1. OthersStay(w)
        BY <1>0, <1>9, <2>1 DEF CursorFails, OthersStay
    <3>2. Elsewhere(job[w])
        BY <1>2, <1>9, <2>1 DEF CursorFails
    <3>3. doneJobs' = doneJobs
        BY <1>9, <2>1 DEF CursorFails
    <3> QED
        BY <3>1, <3>2, <3>3
  <2>2. CASE ~MayRetry(w)
    <3>1. LeaveJob(w, "take") /\ DropWriters(job[w]) /\ objects' = objects /\ doneJobs' = doneJobs
        BY <1>9, <2>2 DEF CursorFails, NoteFailure
    <3>2. OthersStay(w)
        BY <1>1, <3>1
    <3>3. Elsewhere(job[w])
        BY <1>6, <3>1
    <3> QED
        BY <3>1, <3>2, <3>3
  <2> QED
      BY <2>1, <2>2 DEF Frame
<1>10. ASSUME NextSource(w) PROVE Frame(w, job[w])
    BY <1>0, <1>2, <1>10 DEF NextSource, CountOn, Frame, OthersStay
<1>11. ASSUME FinishFiles(w) PROVE Frame(w, job[w])
  <2>1. OthersStay(w) /\ doneJobs' \subseteq doneJobs \union {job[w]} /\ doneJobs \subseteq doneJobs'
      BY <1>0, <1>1, <1>11 DEF FinishFiles, JobDone, OthersStay
  <2>2. files' = Finished(job[w]) /\ objects' = objects
      BY <1>11 DEF FinishFiles
  <2>3. \A p : p[1] # DirOf(job[w]) => p \notin Expected(job[w])
      BY DEF Expected
  <2>4. Elsewhere(job[w])
    <3>1. DOMAIN files' = DOMAIN files \union Expected(job[w])
        BY <2>2 DEF Finished
    <3>2. \A p \in DOMAIN files : p \notin Expected(job[w]) => files'[p] = files[p]
        BY <2>2 DEF Finished
    <3> QED
        BY <2>2, <2>3, <3>1, <3>2 DEF Elsewhere
  <2>5. /\ UNCHANGED <<natural, remote, xpc, jobs, members, started>>
        /\ broken \subseteq broken' /\ doneJobs \subseteq doneJobs'
        /\ doneJobs' \subseteq doneJobs \union {job[w]}
      BY <1>11, <2>1 DEF FinishFiles
  <2> QED
      BY <2>1, <2>4, <2>5 DEF Frame
<1>12. ASSUME Upload(w) PROVE Frame(w, job[w])
  <2>1. PICK p \in InDir(DirOf(job[w])) :
          /\ objects' = [q \in DOMAIN objects \union {<<job[w], p[2]>>} |->
                            IF q = <<job[w], p[2]>> THEN files[p]
                            ELSE objects[q]]
          /\ files' = Without(files, {p})
      BY <1>12 DEF Upload
  <2>2. Elsewhere(job[w])
    <3>1. /\ DOMAIN files' = DOMAIN files \ {p} /\ p[1] = DirOf(job[w])
          /\ \A q \in DOMAIN files : q # p => files'[q] = files[q]
        BY <2>1 DEF Without, InDir
    <3>2. /\ DOMAIN objects' = DOMAIN objects \union {<<job[w], p[2]>>}
          /\ \A q \in DOMAIN objects : q # <<job[w], p[2]>> => objects'[q] = objects[q]
        BY <2>1
    <3>3. \A q : q[1] # job[w] => q # <<job[w], p[2]>>
        OBVIOUS
    <3> QED
        BY <3>1, <3>2, <3>3 DEF Elsewhere
  <2>3. OthersStay(w)
      BY <1>12 DEF Upload, OthersStay
  <2>5. /\ UNCHANGED <<natural, remote, xpc, jobs, members, started>>
        /\ broken \subseteq broken' /\ doneJobs \subseteq doneJobs'
        /\ doneJobs' \subseteq doneJobs \union {job[w]}
      BY <1>12 DEF Upload
  <2> QED
      BY <2>2, <2>3, <2>5 DEF Frame
<1>13. ASSUME UploadFails(w) PROVE Frame(w, job[w])
  <2>1. LeaveJob(w, "take") /\ UNCHANGED <<files, objects>>
      BY <1>13 DEF UploadFails, NoteFailure
  <2>2. OthersStay(w) /\ Elsewhere(job[w])
      BY <1>1, <1>2, <2>1
  <2>5. /\ UNCHANGED <<natural, remote, xpc, jobs, members, started>>
        /\ broken \subseteq broken' /\ doneJobs \subseteq doneJobs'
        /\ doneJobs' \subseteq doneJobs \union {job[w]}
      BY <1>13 DEF UploadFails, NoteFailure
  <2> QED
      BY <2>2, <2>5 DEF Frame
<1>14. ASSUME AllUploaded(w) PROVE Frame(w, job[w])
  <2>1. LeaveJob(w, "take") /\ UNCHANGED <<files, objects>>
      BY <1>14 DEF AllUploaded, JobDone
  <2>2. OthersStay(w) /\ Elsewhere(job[w])
      BY <1>1, <1>2, <2>1
  <2>5. /\ UNCHANGED <<natural, remote, xpc, jobs, members, started>>
        /\ broken \subseteq broken' /\ doneJobs \subseteq doneJobs'
        /\ doneJobs' \subseteq doneJobs \union {job[w]}
      BY <1>14 DEF AllUploaded, JobDone
  <2> QED
      BY <2>2, <2>5 DEF Frame
<1> QED
    BY <1>3, <1>4, <1>5, <1>7, <1>8, <1>9, <1>10, <1>11, <1>12, <1>13, <1>14

----------------------------------------------------------------------------
(* What a worker does to its own stream.                                   *)

\* Documents of a scan.
LEMMA ScanFacts ==
  ASSUME ExportTypes
  PROVE  /\ Stored \subseteq Docs
         /\ \A c \in Colls : /\ natural[c] \in Seq(Docs)
                             /\ Range(natural[c]) \subseteq Stored
                             /\ \A d \in Range(natural[c]) : CollOf[d] = c
         /\ \A d \in Stored : CollOf[d] \in Colls /\ d \in Range(natural[CollOf[d]])
<1>1. \A c \in Colls : natural[c] \in Seq(Docs)
    BY DEF ExportTypes
<1>2. \A c \in Colls : \A d \in Range(natural[c]) : d \in Docs /\ CollOf[d] = c
  <2> SUFFICES ASSUME NEW c \in Colls, NEW i \in DOMAIN natural[c]
               PROVE  natural[c][i] \in Docs /\ CollOf[natural[c][i]] = c
      BY DEF Range
  <2> DEFINE S == {d \in Docs : CollOf[d] = c}
  <2>1. natural[c] \in Seq(S)
      BY DEF ExportTypes
  <2> HIDE DEF S
  <2>2. natural[c][i] \in S
      BY <2>1
  <2> QED
      BY <2>2 DEF S
<1> QED
    BY <1>1, <1>2 DEF Stored

\* A job begins with empty files.
LEMMA TakeStream ==
  ASSUME ExportTypes, Shape, Planned, NEW w \in Workers, TakeJob(w)
  PROVE  Streamed(w)'
<1> SUFFICES ASSUME NEW g, g = jobs[next] PROVE Streamed(w)'
    OBVIOUS
<1>0. /\ wpc \in [Workers -> {"take", "find", "fetch", "upload", "ended"}]
      /\ job \in [Workers -> Range(SqlFiles) \union {None}] /\ source \in [Workers -> Nat]
      /\ last[w] = None /\ counter[w] = 0 /\ wpc[w] = "take"
    BY DEF ExportTypes, ExportTypeOK, Planned, TakeJob
<1>1. job'[w] = g /\ source'[w] = 1 /\ wpc'[w] = "find" /\ last'[w] = None /\ counter'[w] = 0
    BY <1>0 DEF TakeJob, stream
<1>2. \A t \in TablesOf(g) : files'[<<DirOf(g), t>>] = [lines |-> <<>>, whole |-> FALSE]
    BY DEF TakeJob
<1>3. \A t \in TablesOf(g) : files'[<<DirOf(g), t>>].lines = <<>>
    BY <1>2
<1>4. members' = members
    BY DEF TakeJob, command
<1>5. DirOf(g)' = DirOf(g)
    BY <1>4 DEF DirOf
<1>6. RootPath(g)' = <<DirOf(g), RootOf[g]>> /\ ChildPath(g)' = <<DirOf(g), ChildOf[g]>>
    BY <1>5 DEF RootPath, ChildPath
<1>7. files'[RootPath(g)'].lines = <<>> /\ files'[ChildPath(g)'].lines = <<>>
    BY <1>3, <1>6 DEF TablesOf
<1> QED
    BY <1>1, <1>7, PairEmpty DEF Streamed

\* What a worker that streams has to go on.
LEMMA StreamFacts ==
  ASSUME ExportTypes, Shape, Planned, xpc = "running", NEW w \in Workers,
         wpc[w] \in {"find", "fetch"}
  PROVE  /\ job[w] \in Range(SqlFiles) /\ CurrentColl(w) \in Colls
         /\ CurrentColl(w) = members[job[w]][source[w]] /\ source[w] \in DOMAIN members[job[w]]
         /\ FileOf[CurrentColl(w)] = job[w]
         /\ members[job[w]] \in Seq(Colls)
         /\ RootPath(job[w]) \in DOMAIN files /\ ChildPath(job[w]) \in DOMAIN files
         /\ \A d \in started : d \in Docs /\ CollOf[d] \in Colls /\ d \in Range(natural[CollOf[d]])
         /\ cursor[w] \in Seq(Docs) /\ counter[w] \in Nat /\ last[w] \in Docs \union {None}
         /\ wpc \in [Workers -> {"take", "find", "fetch", "upload", "ended"}]
         /\ Docs \subseteq Nat /\ None \notin Docs
<1>1. /\ job[w] \in Range(SqlFiles) /\ CurrentColl(w) \in Colls
      /\ members[job[w]] \in Seq(Colls) /\ source[w] \in DOMAIN members[job[w]]
    BY BusyFacts
<1>2. FileOf[CurrentColl(w)] = job[w]
    BY <1>1 DEF CurrentColl, Shape, MembersOK
<1>3. RootPath(job[w]) \in DOMAIN files /\ ChildPath(job[w]) \in DOMAIN files
    BY DEF Shape, RootPath, ChildPath, TablesOf
<1>4. \A d \in started : d \in Docs /\ CollOf[d] \in Colls /\ d \in Range(natural[CollOf[d]])
    BY ScanFacts DEF Planned
<1>5. /\ cursor[w] \in Seq(Docs) /\ counter[w] \in Nat /\ last[w] \in Docs \union {None}
      /\ wpc \in [Workers -> {"take", "find", "fetch", "upload", "ended"}]
    BY DEF ExportTypes, ExportTypeOK
<1>6. Docs \subseteq Nat /\ None \notin Docs
    BY ArtifactsAssumption
<1> QED
    BY <1>1, <1>2, <1>3, <1>4, <1>5, <1>6 DEF CurrentColl

\* What a stream relies on besides its own variables.
LEMMA SameWorld ==
  ASSUME UNCHANGED <<natural, members>>
  PROVE  /\ Stored' = Stored /\ \A c : Ordered(c)' <=> Ordered(c)
         /\ \A g : DirOf(g)' = DirOf(g) /\ RootPath(g)' = RootPath(g) /\ ChildPath(g)' = ChildPath(g)
  BY DEF Stored, Ordered, DirOf, RootPath, ChildPath

\* A cursor is opened on what is not written yet.
LEMMA OpenStream ==
  ASSUME ExportTypes, Shape, Planned, xpc = "running", Sane, NEW w \in Workers,
         Streamed(w), OpenCursor(w)
  PROVE  Streamed(w)'
<1> USE DEF outcome, command
<1>1. /\ wpc[w] = "find" /\ cursor' = [cursor EXCEPT ![w] = Found(CurrentColl(w), last[w])]
      /\ wpc' = [wpc EXCEPT ![w] = "fetch"]
      /\ UNCHANGED <<natural, members, started, broken, files, job, source, last, counter>>
    BY DEF OpenCursor
<1> DEFINE c == CurrentColl(w)
           W == DocsOf(files[RootPath(job[w])].lines)
           F == Found(c, last[w])
<1>2. /\ c \in Colls /\ last[w] \in Docs \union {None} /\ Docs \subseteq Nat
      /\ \A d \in started : d \in Docs /\ CollOf[d] \in Colls /\ d \in Range(natural[CollOf[d]])
    BY <1>1, StreamFacts
<1>3. cursor'[w] = F /\ wpc'[w] = "fetch"
    BY <1>1 DEF ExportTypes, ExportTypeOK
<1>4. /\ natural[c] \in Seq(Docs) /\ IsInjective(natural[c])
      /\ \A d \in Range(natural[c]) : CollOf[d] = c /\ d \in Docs
    BY <1>2, ScanFacts DEF Planned
<1>5. /\ Range(F) \subseteq Range(natural[c]) /\ IsInjective(F)
      /\ \A d \in Range(F) : d \notin W
      /\ \A d \in started : CollOf[d] = c => d \in W \union Range(F)
      /\ Ordered(c) =>
           /\ \A i, j \in DOMAIN F : i < j => F[i] < F[j]
           /\ last[w] # None => \A i \in DOMAIN F : last[w] < F[i]
  <2>1. CASE last[w] = None
    <3>1. F = natural[c]
        BY <2>1, FoundAll
    <3>2. \A d \in W : CollOf[d] # c
        BY <2>1 DEF Streamed
    <3> QED
        BY <1>2, <1>4, <2>1, <3>1, <3>2 DEF Ordered
  <2>2. CASE last[w] # None
    <3>1. last[w] \in Docs
        BY <1>2, <2>2
    <3>2. /\ Range(F) = {d \in Range(natural[c]) : d > last[w]}
          /\ \A i, j \in DOMAIN F : i < j => F[i] < F[j]
          /\ IsInjective(F)
        BY <1>2, <1>4, <3>1, FoundAfter
    <3>3. c \in broken /\ Ordered(c)
        BY <1>1, <2>2 DEF Streamed, Sane
    <3>4. /\ \A d \in W : CollOf[d] = c => d <= last[w]
          /\ \A d \in started : CollOf[d] = c /\ d <= last[w] => d \in W
        BY <1>1, <2>2, <3>3 DEF Streamed
    <3> HIDE DEF F, W
    <3>5. \A d \in Range(F) : d \notin W
      <4> SUFFICES ASSUME NEW d \in Range(F), d \in W PROVE FALSE
          OBVIOUS
      <4>1. d \in Range(natural[c]) /\ d > last[w]
          BY <3>2
      <4>2. CollOf[d] = c /\ d \in Nat /\ last[w] \in Nat
          BY <1>2, <1>4, <3>1, <4>1
      <4>3. d <= last[w]
          BY <3>4, <4>2
      <4> HIDE DEF c
      <4> QED
          BY <4>1, <4>2, <4>3
    <3>6. \A d \in started : CollOf[d] = c => d \in W \union Range(F)
      <4> SUFFICES ASSUME NEW d \in started, CollOf[d] = c, d \notin W PROVE d \in Range(F)
          OBVIOUS
      <4>1. d \in Range(natural[c]) /\ d \in Nat /\ last[w] \in Nat
          BY <1>2, <3>1
      <4>2. ~(d <= last[w])
          BY <3>4
      <4>3. d > last[w]
          BY <4>1, <4>2
      <4> QED
          BY <3>2, <4>1, <4>3
    <3>7. \A i \in DOMAIN F : last[w] < F[i]
      <4>1. \A i \in DOMAIN F : F[i] \in Range(F)
          BY DEF Range
      <4> QED
          BY <3>2, <4>1
    <3> QED
        BY <3>2, <3>5, <3>6, <3>7
  <2> QED
      BY <2>1, <2>2
<1>6. /\ CurrentColl(w)' = c /\ job'[w] = job[w]
      /\ files[RootPath(job[w])]' = files[RootPath(job[w])]
      /\ files[ChildPath(job[w])]' = files[ChildPath(job[w])]
    BY <1>1, SameWorld DEF CurrentColl
<1> HIDE DEF F
<1> QED
    BY <1>1, <1>3, <1>5, <1>6, SameWorld DEF Streamed
\* What is left of a cursor when it has returned a document.
LEMMA TailFacts ==
  ASSUME NEW s \in Seq(Docs), s # <<>>
  PROVE  /\ Head(s) \in Docs /\ Head(s) = s[1] /\ 1 \in DOMAIN s
         /\ Tail(s) \in Seq(Docs) /\ DOMAIN Tail(s) = 1 .. Len(s) - 1
         /\ \A i \in DOMAIN Tail(s) : i \in Nat /\ i + 1 \in DOMAIN s /\ Tail(s)[i] = s[i + 1]
         /\ Range(s) = {Head(s)} \union Range(Tail(s))
         /\ IsInjective(s) => IsInjective(Tail(s)) /\ Head(s) \notin Range(Tail(s))
<1>1. /\ Head(s) \in Docs /\ Head(s) = s[1] /\ 1 \in DOMAIN s
      /\ Len(s) \in Nat /\ Len(s) > 0 /\ DOMAIN s = 1 .. Len(s)
    OBVIOUS
<1>2. /\ Tail(s) \in Seq(Docs) /\ Len(Tail(s)) = Len(s) - 1
      /\ \A i \in 1 .. Len(s) - 1 : Tail(s)[i] = s[i + 1]
    BY <1>1
<1>3. DOMAIN Tail(s) = 1 .. Len(s) - 1
    BY <1>2
<1>4. \A i \in DOMAIN Tail(s) : i \in Nat /\ i + 1 \in DOMAIN s /\ Tail(s)[i] = s[i + 1]
    BY <1>1, <1>2, <1>3
<1>5. \A i \in DOMAIN s : i = 1 \/ (i - 1 \in DOMAIN Tail(s) /\ Tail(s)[i - 1] = s[i])
  <2> SUFFICES ASSUME NEW i \in DOMAIN s, i # 1 PROVE i - 1 \in DOMAIN Tail(s) /\ Tail(s)[i - 1] = s[i]
      OBVIOUS
  <2>1. i - 1 \in 1 .. Len(s) - 1 /\ (i - 1) + 1 = i
      BY <1>1
  <2>2. Tail(s)[i - 1] = s[(i - 1) + 1]
      BY <1>2, <2>1
  <2> QED
      BY <1>3, <2>1, <2>2
<1> DEFINE T == Tail(s)
           h == Head(s)
<1>6. \A i \in DOMAIN T : i \in Nat /\ i + 1 \in DOMAIN s /\ T[i] = s[i + 1]
    BY <1>4
<1>7. \A i \in DOMAIN s : i = 1 \/ \E j \in DOMAIN T : T[j] = s[i]
    BY <1>5
<1>8. h = s[1] /\ 1 \in DOMAIN s
    BY <1>1
<1>9. h \in Docs /\ T \in Seq(Docs) /\ DOMAIN T = 1 .. Len(s) - 1
    BY <1>1, <1>2, <1>3
<1> HIDE DEF T, h
<1>10. Range(s) = {h} \union Range(T)
    BY <1>6, <1>7, <1>8 DEF Range
<1>11. ASSUME IsInjective(s) PROVE IsInjective(T) /\ h \notin Range(T)
  <2>1. \A i, j \in DOMAIN s : s[i] = s[j] => i = j
      BY <1>11 DEF IsInjective
  <2>2. \A i \in DOMAIN T : s[i + 1] # s[1]
    <3> SUFFICES ASSUME NEW i \in DOMAIN T, s[i + 1] = s[1] PROVE FALSE
        OBVIOUS
    <3>1. i \in Nat /\ i + 1 = 1 /\ DOMAIN T = 1 .. Len(s) - 1 /\ Len(s) \in Nat
        BY <1>6, <1>8, <1>9, <2>1
    <3> QED
        BY <3>1
  <2>3. h \notin Range(T)
      BY <1>6, <1>8, <2>2 DEF Range
  <2>4. ASSUME NEW i \in DOMAIN T, NEW j \in DOMAIN T, T[i] = T[j] PROVE i = j
    <3>1. i + 1 = j + 1 /\ i \in Nat /\ j \in Nat
        BY <1>6, <2>1, <2>4
    <3> QED
        BY <3>1
  <2> QED
      BY <2>3, <2>4 DEF IsInjective
<1> QED
    BY <1>6, <1>8, <1>9, <1>10, <1>11 DEF T, h

\* A document is returned, which is not written yet, and its rows are.
LEMMA FetchStream ==
  ASSUME ExportTypes, Shape, Planned, xpc = "running", NEW w \in Workers,
         Streamed(w), Fetch(w)
  PROVE  Streamed(w)'
<1> USE DEF outcome, command
<1>0. /\ wpc[w] = "fetch" /\ cursor[w] # <<>>
      /\ cursor' = [cursor EXCEPT ![w] = Tail(@)]
      /\ last' = [last EXCEPT ![w] = Head(cursor[w])]
      /\ files' = WithRows(job[w], Head(cursor[w]), counter[w])
      /\ counter' = [counter EXCEPT ![w] = @ + KidsOf[Head(cursor[w])]]
      /\ UNCHANGED <<natural, members, started, broken, job, source, wpc>>
    BY DEF Fetch
<1>1. /\ job[w] \in Range(SqlFiles) /\ CurrentColl(w) \in Colls
      /\ CurrentColl(w) = members[job[w]][source[w]] /\ source[w] \in DOMAIN members[job[w]]
      /\ FileOf[CurrentColl(w)] = job[w]
      /\ members[job[w]] \in Seq(Colls)
      /\ RootPath(job[w]) \in DOMAIN files /\ ChildPath(job[w]) \in DOMAIN files
      /\ \A d \in started : d \in Docs /\ CollOf[d] \in Colls /\ d \in Range(natural[CollOf[d]])
      /\ cursor[w] \in Seq(Docs) /\ counter[w] \in Nat /\ last[w] \in Docs \union {None}
      /\ Docs \subseteq Nat /\ None \notin Docs
    BY <1>0, StreamFacts
<1> DEFINE g == job[w]
           c == CurrentColl(w)
           R == files[RootPath(g)].lines
           K == files[ChildPath(g)].lines
           W == DocsOf(R)
           s == cursor[w]
           d == Head(s)
           T == Tail(s)
<1>2. /\ d \in Docs /\ d = s[1] /\ 1 \in DOMAIN s
      /\ \A i \in DOMAIN T : i \in Nat /\ i + 1 \in DOMAIN s /\ T[i] = s[i + 1]
      /\ Range(s) = {d} \union Range(T)
    BY <1>0, <1>1, TailFacts
<1>3. /\ Pair(g, R, K) /\ Len(K) = counter[w] /\ W \subseteq Stored
      /\ \A e \in W : \E i \in 1 .. source[w] : CollOf[e] = members[g][i]
      /\ \A e \in started : \A i \in 1 .. source[w] - 1 : CollOf[e] = members[g][i] => e \in W
      /\ last[w] = None => \A e \in W : CollOf[e] # c
      /\ last[w] # None /\ Ordered(c) => \A e \in W : CollOf[e] = c => e <= last[w]
    BY DEF Streamed
<1>4. /\ Range(s) \subseteq Range(natural[c]) /\ IsInjective(s)
      /\ \A e \in Range(s) : e \notin W
      /\ \A e \in started : CollOf[e] = c => e \in W \union Range(s)
      /\ Ordered(c) =>
           /\ \A i, j \in DOMAIN s : i < j => s[i] < s[j]
           /\ last[w] # None => \A i \in DOMAIN s : last[w] < s[i]
    BY <1>0 DEF Streamed
<1>5. IsInjective(T) /\ d \notin Range(T)
    BY <1>0, <1>1, <1>4, TailFacts
<1>6. d \in Range(natural[c]) /\ d \notin W /\ d \in Stored /\ CollOf[d] = c /\ FileOf[CollOf[d]] = g
  <2>1. d \in Range(s)
      BY <1>2
  <2>2. d \in Range(natural[c]) /\ d \notin W
      BY <1>4, <2>1
  <2> QED
      BY <1>1, <2>2, ScanFacts
<1>7. R \in Seq(Line) /\ K \in Seq(Line)
    BY <1>1 DEF ExportTypes, Typed, File
<1> DEFINE R2 == R \o RootLine(d)
           K2 == K \o ChildLines(d, counter[w])
<1>8. DocsOf(R2) = W \union {d} /\ Pair(g, R2, K2) /\ Len(K2) = counter[w] + KidsOf[d]
  <2> HIDE DEF R, K, d, g
  <2>1. WithDoc(R, K, d, R2, K2)
      BY <1>3 DEF WithDoc
  <2>2. d \in Docs /\ FileOf[CollOf[d]] = g /\ d \notin DocsOf(R) /\ Pair(g, R, K)
      BY <1>2, <1>3, <1>6
  <2> HIDE DEF R2, K2
  <2>4. DocsOf(R2) = DocsOf(R) \union {d} /\ Pair(g, R2, K2) /\ Len(K2) = Len(K) + KidsOf[d]
      BY <1>7, <2>1, <2>2, PairAdd
  <2> QED
      BY <1>3, <2>4
<1>9. /\ files'[RootPath(g)].lines = R2 /\ files'[ChildPath(g)].lines = K2
  <2>1. Typed(files) /\ g \in Range(SqlFiles) /\ d \in Docs /\ counter[w] \in Nat
      BY <1>1, <1>2 DEF ExportTypes
  <2> HIDE DEF d, g
  <2>2. files' = WithRows(g, d, counter[w])
      BY <1>0 DEF d, g
  <2>3. RootPath(g) \in DOMAIN files /\ ChildPath(g) \in DOMAIN files
      BY <1>1 DEF g
  <2> QED
      BY <2>1, <2>2, <2>3, RowsWritten
<1>10. /\ cursor'[w] = T /\ last'[w] = d /\ counter'[w] = counter[w] + KidsOf[d]
       /\ job'[w] = g /\ source'[w] = source[w] /\ wpc'[w] = "fetch"
       /\ started' = started /\ members' = members /\ natural' = natural /\ broken' = broken
    BY <1>0 DEF ExportTypes, ExportTypeOK
<1>11. /\ CurrentColl(w)' = c /\ Stored' = Stored /\ (Ordered(c)' <=> Ordered(c))
       /\ RootPath(g)' = RootPath(g) /\ ChildPath(g)' = ChildPath(g)
    BY <1>10, SameWorld DEF CurrentColl
<1> HIDE DEF R2, K2, T, s, d, W, R, K
<1> DEFINE W2 == DocsOf(R2)
<1>12. W2 \subseteq Stored
    BY <1>3, <1>6, <1>8
<1>13. \A e \in W2 : \E i \in 1 .. source[w] : CollOf[e] = members[g][i]
  <2>1. source[w] \in 1 .. source[w]
    <3>1. source[w] \in Nat \ {0}
        BY <1>1
    <3> QED
        BY <3>1
  <2> QED
      BY <1>1, <1>3, <1>6, <1>8, <2>1
<1>14. \A e \in started : \A i \in 1 .. source[w] - 1 : CollOf[e] = members[g][i] => e \in W2
    BY <1>3, <1>8
<1>15. d # None
    BY <1>1, <1>2
<1>16. ASSUME Ordered(c), NEW e \in W2, CollOf[e] = c PROVE e <= d
  <2>1. CASE e = d
      BY <1>1, <1>2, <2>1
  <2>2. CASE e # d
    <3>1. e \in W
        BY <1>8, <2>2
    <3>2. last[w] # None /\ e <= last[w]
        BY <1>3, <1>16, <3>1
    <3>3. last[w] < d
        BY <1>2, <1>4, <1>16, <3>2
    <3>4. e \in Nat /\ d \in Nat /\ last[w] \in Nat
      <4>1. Stored \subseteq Docs
          BY ScanFacts
      <4> QED
          BY <1>1, <1>2, <1>3, <3>1, <3>2, <4>1
    <3> HIDE DEF c
    <3> QED
        BY <3>2, <3>3, <3>4
  <2> QED
      BY <2>1, <2>2
<1>17. Range(T) \subseteq Range(natural[c])
    BY <1>2, <1>4
<1>18. \A e \in Range(T) : e \notin W2
    BY <1>2, <1>4, <1>5, <1>8
<1>19. \A e \in started : CollOf[e] = c => e \in W2 \union Range(T)
    BY <1>2, <1>4, <1>8
<1>20. Ordered(c) => /\ \A i, j \in DOMAIN T : i < j => T[i] < T[j]
                     /\ \A i \in DOMAIN T : d < T[i]
  <2> HAVE Ordered(c)
  <2>1. \A i, j \in DOMAIN s : i < j => s[i] < s[j]
      BY <1>4
  <2>2. ASSUME NEW i \in DOMAIN T, NEW j \in DOMAIN T, i < j PROVE T[i] < T[j]
    <3>1. /\ i \in Nat /\ j \in Nat /\ i + 1 \in DOMAIN s /\ j + 1 \in DOMAIN s
          /\ T[i] = s[i + 1] /\ T[j] = s[j + 1]
        BY <1>2
    <3>2. i + 1 < j + 1
        BY <2>2, <3>1
    <3> QED
        BY <2>1, <3>1, <3>2
  <2>3. ASSUME NEW i \in DOMAIN T PROVE d < T[i]
    <3>1. i \in Nat /\ i + 1 \in DOMAIN s /\ T[i] = s[i + 1] /\ d = s[1] /\ 1 \in DOMAIN s
        BY <1>2
    <3>2. s[1] # s[i + 1]
        BY <1>5, <3>1 DEF Range
    <3>3. 1 < i + 1
      <4>1. i + 1 # 1
          BY <3>1, <3>2
      <4> QED
          BY <3>1, <4>1
    <3> QED
        BY <2>1, <3>1, <3>3
  <2> QED
      BY <2>2, <2>3
<1> HIDE DEF c, g
<1> QED
    BY <1>3, <1>5, <1>6, <1>8, <1>9, <1>10, <1>11, <1>12, <1>13, <1>14, <1>15, <1>16,
       <1>17, <1>18, <1>19, <1>20
    DEF Streamed, c, g

\* A cursor that fails after documents in the order of _id is opened again for
\* the others.
LEMMA RetryStream ==
  ASSUME ExportTypes, Shape, Planned, xpc = "running", NEW w \in Workers,
         Streamed(w), CursorFails(w), MayRetry(w), Sane'
  PROVE  Streamed(w)'
<1> USE DEF outcome, command
<1>0. /\ wpc[w] = "fetch"
      /\ broken' = broken \union {CurrentColl(w)}
      /\ wpc' = [wpc EXCEPT ![w] = "find"]
      /\ UNCHANGED <<natural, members, started, files, job, source, last, counter>>
    BY DEF CursorFails
<1>1. /\ \A d \in started : d \in Docs
      /\ last[w] \in Docs \union {None} /\ Docs \subseteq Nat
      /\ wpc \in [Workers -> {"take", "find", "fetch", "upload", "ended"}]
    BY <1>0, StreamFacts
<1> DEFINE c == CurrentColl(w)
           W == DocsOf(files[RootPath(job[w])].lines)
<1>2. /\ CurrentColl(w)' = c /\ Stored' = Stored /\ \A x : Ordered(x)' <=> Ordered(x)
      /\ files[RootPath(job[w])]' = files[RootPath(job[w])]
      /\ files[ChildPath(job[w])]' = files[ChildPath(job[w])]
    BY <1>0, SameWorld DEF CurrentColl
<1>3. c \in broken' /\ Ordered(c) /\ wpc'[w] = "find"
    BY <1>0, <1>1, <1>2 DEF Sane
<1>4. last[w] # None => \A d \in started : CollOf[d] = c /\ d <= last[w] => d \in W
  <2> SUFFICES ASSUME last[w] # None, NEW d \in started, CollOf[d] = c, d <= last[w], d \notin W
               PROVE  FALSE
      OBVIOUS
  <2>1. d \in Range(cursor[w])
      BY <1>0 DEF Streamed
  <2>2. PICK i \in DOMAIN cursor[w] : cursor[w][i] = d
      BY <2>1 DEF Range
  <2>3. last[w] < d
      BY <1>0, <1>3, <2>2 DEF Streamed
  <2>4. last[w] \in Nat /\ d \in Nat
      BY <1>1
  <2> QED
      BY <2>3, <2>4
<1> QED
    BY <1>0, <1>2, <1>3, <1>4 DEF Streamed

\* The next collection: all documents of those before it are written.
LEMMA NextStream ==
  ASSUME ExportTypes, Shape, Planned, xpc = "running", NEW w \in Workers,
         Streamed(w), NextSource(w)
  PROVE  Streamed(w)'
<1> USE DEF outcome, command
<1>0. /\ wpc[w] = "fetch" /\ cursor[w] = <<>>
      /\ source[w] < Len(members[job[w]])
      /\ source' = [source EXCEPT ![w] = @ + 1]
      /\ last' = [last EXCEPT ![w] = None]
      /\ wpc' = [wpc EXCEPT ![w] = "find"]
      /\ UNCHANGED <<natural, members, started, files, job, counter, broken>>
    BY DEF NextSource, CountOn
<1> DEFINE g == job[w]
           W == DocsOf(files[RootPath(g)].lines)
           n == source[w]
<1>1. /\ g \in Range(SqlFiles) /\ n \in DOMAIN members[g] /\ members[g] \in Seq(Colls)
      /\ CurrentColl(w) = members[g][n]
    BY <1>0, StreamFacts
<1>2. n \in Nat \ {0} /\ n + 1 \in DOMAIN members[g] /\ n < Len(members[g]) /\ Len(members[g]) \in Nat
    BY <1>0, <1>1
<1>3. source'[w] = n + 1 /\ last'[w] = None /\ wpc'[w] = "find" /\ job'[w] = g
    BY <1>0 DEF ExportTypes, ExportTypeOK
<1>4. /\ Stored' = Stored
      /\ files[RootPath(g)]' = files[RootPath(g)]
      /\ files[ChildPath(g)]' = files[ChildPath(g)]
      /\ CurrentColl(w)' = members[g][n + 1]
    BY <1>0, <1>3, SameWorld DEF CurrentColl
<1>5. /\ \A d \in W : \E i \in 1 .. n : CollOf[d] = members[g][i]
      /\ \A d \in started : \A i \in 1 .. n - 1 : CollOf[d] = members[g][i] => d \in W
      /\ \A d \in started : CollOf[d] = members[g][n] => d \in W
  <2>1. Range(cursor[w]) = {}
      BY <1>0 DEF Range
  <2> QED
      BY <1>0, <1>1, <2>1 DEF Streamed
<1> HIDE DEF g, W, n
<1>6. \A d \in W : \E i \in 1 .. n + 1 : CollOf[d] = members[g][i]
  <2>1. \A i \in 1 .. n : i \in 1 .. n + 1
      BY <1>2
  <2> QED
      BY <1>5, <2>1
<1>7. \A d \in started : \A i \in 1 .. (n + 1) - 1 : CollOf[d] = members[g][i] => d \in W
  <2>1. \A i \in 1 .. (n + 1) - 1 : i = n \/ i \in 1 .. n - 1
      BY <1>2
  <2> QED
      BY <1>5, <2>1
<1>8. \A d \in W : CollOf[d] # members[g][n + 1]
  <2> SUFFICES ASSUME NEW d \in W, CollOf[d] = members[g][n + 1] PROVE FALSE
      OBVIOUS
  <2>1. PICK i \in 1 .. n : CollOf[d] = members[g][i]
      BY <1>5
  <2>2. IsInjective(members[g])
      BY <1>1 DEF Planned
  <2>3. i \in DOMAIN members[g]
    <3>1. DOMAIN members[g] = 1 .. Len(members[g])
        BY <1>1
    <3> QED
        BY <1>2, <3>1
  <2>4. i = n + 1
      BY <1>2, <2>1, <2>2, <2>3 DEF IsInjective
  <2> QED
      BY <1>2, <2>4
<1> QED
    BY <1>0, <1>3, <1>4, <1>6, <1>7, <1>8 DEF Streamed, g, W

\* The files of a job that has been streamed hold what was there.
LEMMA FinishReady ==
  ASSUME ExportTypes, Shape, Planned, xpc = "running", NEW w \in Workers,
         Streamed(w), FinishFiles(w), NEW g, g = job[w]
  PROVE  Ready(g)'
<1> USE DEF outcome, command
<1>0. /\ wpc[w] = "fetch" /\ cursor[w] = <<>>
      /\ source[w] = Len(members[g]) /\ files' = Finished(g)
      /\ UNCHANGED <<natural, members, started, objects, remote>>
    BY DEF FinishFiles
<1>1. /\ g \in Range(SqlFiles) /\ source[w] \in DOMAIN members[g] /\ members[g] \in Seq(Colls)
      /\ CurrentColl(w) = members[g][source[w]]
    BY <1>0, StreamFacts
<1>2. \A t \in TablesOf(g) : <<DirOf(g), t>> \in DOMAIN files
    BY <1>0 DEF Shape
<1>3. /\ DOMAIN files' = DOMAIN files \union Expected(g)
      /\ \A t \in TablesOf(g) :
              /\ files'[<<DirOf(g), t>>].lines = files[<<DirOf(g), t>>].lines
              /\ files'[<<DirOf(g), t>>].whole = TRUE
    BY <1>0, <1>1, <1>2, FinishedFacts DEF ExportTypes, Shape
<1>4. DirOf(g)' = DirOf(g)
    BY <1>0, SameWorld
<1>5. \A t \in TablesOf(g) : Art(g, t)' = files'[<<DirOf(g), t>>] /\ <<DirOf(g), t>> \in DOMAIN files'
    BY <1>2, <1>3, <1>4 DEF Art
<1>6. /\ Art(g, RootOf[g]).lines' = files[RootPath(g)].lines
      /\ Art(g, ChildOf[g]).lines' = files[ChildPath(g)].lines
    BY <1>3, <1>5 DEF TablesOf, RootPath, ChildPath
<1>7. ASSUME NEW d \in started, FileOf[CollOf[d]] = g PROVE d \in DocsOf(files[RootPath(g)].lines)
  <2>1. CollOf[d] \in ToSet(members[g])
      BY <1>7 DEF Planned
  <2>2. PICK i \in DOMAIN members[g] : CollOf[d] = members[g][i]
      BY <2>1 DEF ToSet
  <2>3. i = source[w] \/ i \in 1 .. source[w] - 1
    <3>1. DOMAIN members[g] = 1 .. Len(members[g]) /\ Len(members[g]) \in Nat
        BY <1>1
    <3> QED
        BY <1>0, <3>1
  <2>4. Range(cursor[w]) = {}
      BY <1>0 DEF Range
  <2> QED
      BY <1>0, <1>1, <2>2, <2>3, <2>4 DEF Streamed
<1>8. Pair(g, files[RootPath(g)].lines, files[ChildPath(g)].lines)
    BY DEF Streamed
<1> QED
    BY <1>0, <1>3, <1>4, <1>5, <1>6, <1>7, <1>8 DEF Ready

\* A file that is uploaded is the object for its table.
LEMMA UploadReady ==
  ASSUME ExportTypes, Shape, NEW w \in Workers, remote, Upload(w), NEW g, g = job[w], Ready(g)
  PROVE  Ready(g)'
<1> USE DEF outcome, command
<1>1. PICK p \in InDir(DirOf(g)) :
         /\ objects' = [q \in DOMAIN objects \union {<<g, p[2]>>} |->
                          IF q = <<g, p[2]>> THEN files[p] ELSE objects[q]]
         /\ files' = Without(files, {p})
    BY DEF Upload
<1>2. UNCHANGED <<members, started, remote, natural>>
    BY DEF Upload
<1>3. p \in DOMAIN files /\ p = <<DirOf(g), p[2]>>
  <2>1. p \in DOMAIN files /\ p[1] = DirOf(g)
      BY DEF InDir
  <2>2. p \in Path
      BY <2>1 DEF ExportTypes, Typed
  <2> QED
      BY <2>1, <2>2 DEF Path
<1>4. /\ DOMAIN files' = DOMAIN files \ {p}
      /\ \A q \in DOMAIN files : q # p => files'[q] = files[q]
    BY <1>1 DEF Without
<1>5. DirOf(g)' = DirOf(g)
    BY <1>2, SameWorld
<1>6. ASSUME NEW t \in TablesOf(g)
      PROVE  /\ <<DirOf(g), t>> \in DOMAIN files' \/ <<g, t>> \in DOMAIN objects'
             /\ Art(g, t)' = Art(g, t)
  <2>1. CASE p[2] = t
    <3>1. p = <<DirOf(g), t>> /\ <<g, t>> = <<g, p[2]>>
        BY <1>3, <2>1
    <3>2. <<g, t>> \in DOMAIN objects' /\ objects'[<<g, t>>] = files[p]
        BY <1>1, <3>1
    <3>3. <<DirOf(g), t>> \notin DOMAIN files'
        BY <1>4, <3>1
    <3> QED
        BY <1>3, <1>5, <3>1, <3>2, <3>3 DEF Art
  <2>2. CASE p[2] # t
    <3>1. <<DirOf(g), t>> # p /\ <<g, t>> # <<g, p[2]>>
        BY <2>2
    <3>2. <<g, t>> \in DOMAIN objects => <<g, t>> \in DOMAIN objects' /\ objects'[<<g, t>>] = objects[<<g, t>>]
        BY <1>1, <3>1
    <3>3. <<DirOf(g), t>> \in DOMAIN files \/ <<g, t>> \in DOMAIN objects
        BY DEF Ready
    <3> QED
        BY <1>4, <1>5, <3>1, <3>2, <3>3 DEF Art
  <2> QED
      BY <2>1, <2>2
<1>7. \A t \in TablesOf(g) :
         /\ <<DirOf(g), t>>' \in DOMAIN files' \/ (remote' /\ <<g, t>> \in DOMAIN objects')
         /\ Art(g, t).whole'
    BY <1>2, <1>5, <1>6 DEF Ready
<1>8. Art(g, RootOf[g])' = Art(g, RootOf[g]) /\ Art(g, ChildOf[g])' = Art(g, ChildOf[g])
    BY <1>6 DEF TablesOf
<1> QED
    BY <1>2, <1>7, <1>8 DEF Ready

----------------------------------------------------------------------------
(* What a step of a worker does to all that is written.                    *)

Work(w) ==
  \/ TakeJob(w) \/ NoMoreJobs(w) \/ OpenCursor(w) \/ FindFails(w)
  \/ Fetch(w) \/ CursorFails(w) \/ NextSource(w) \/ FinishFiles(w)
  \/ Upload(w) \/ UploadFails(w) \/ AllUploaded(w)

\* A job no worker has and none has done.
Untaken(g) == g \notin doneJobs /\ \A v \in Workers : job[v] # g

\* The next job has been taken by no one.
LEMMA NextUntaken ==
  ASSUME ExportInv, xpc = "running", next <= Len(jobs)
  PROVE  jobs[next] \in Range(SqlFiles) /\ jobs[next] \in Range(jobs) /\ Untaken(jobs[next])
<1>1. /\ jobs \in Seq(Range(SqlFiles)) /\ next \in 1 .. Len(jobs) + 1 /\ IsInjective(jobs)
      /\ job \in [Workers -> Range(SqlFiles) \union {None}]
    BY DEF ExportInv, ExportTypes, ExportTypeOK, Shape
<1>2. next \in DOMAIN jobs /\ jobs[next] \in Range(SqlFiles) /\ jobs[next] # None
    BY <1>1, ArtifactsAssumption
<1>3. \A i \in DOMAIN jobs : i < next => jobs[i] # jobs[next]
    BY <1>1, <1>2 DEF IsInjective
<1>4. jobs[next] \notin doneJobs
    BY <1>2, <1>3 DEF ExportInv, Accounted
<1>5. \A v \in Workers : job[v] # jobs[next]
    BY <1>2, <1>3 DEF ExportInv, Shape
<1> QED
    BY <1>2, <1>4, <1>5 DEF Untaken, Range

\* The job in hand is not another worker's, and it is not done.
LEMMA JobHeld ==
  ASSUME ExportInv, Planned, xpc = "running", NEW w \in Workers, wpc[w] \notin {"take", "ended"}
  PROVE  /\ job[w] \in Range(SqlFiles) /\ job[w] # None /\ job[w] \notin doneJobs
         /\ \A v \in Workers \ {w} : job[v] # job[w]
<1>1. job[w] \in Range(SqlFiles) /\ job[w] # None
    BY BusyFacts DEF ExportInv
<1> QED
    BY <1>1 DEF Planned, ExportInv, Shape

\* What is written stays so when the own part of the step does its.
LEMMA WrittenFrom ==
  ASSUME ExportInv, WrittenInv, xpc = "running",
         NEW w \in Workers, NEW g \in Range(SqlFiles), Frame(w, g),
         g \notin doneJobs, \A v \in Workers \ {w} : job[v] # g,
         Sane' => /\ wpc'[w] \in {"find", "fetch"} => Streamed(w)'
                  /\ wpc'[w] = "upload" => job'[w] = g /\ remote /\ Ready(g)'
                  /\ g \in doneJobs' => Ready(g)' /\ (remote => InDir(DirOf(g))' = {})
  PROVE  WrittenInv'
<1>0. /\ UNCHANGED <<natural, remote, xpc, jobs, members, started>>
      /\ broken \subseteq broken'
      /\ doneJobs \subseteq doneJobs' /\ doneJobs' \subseteq doneJobs \union {g}
      /\ \A v \in Workers : v # w => wpc'[v] = wpc[v] /\ job'[v] = job[v]
    BY DEF Frame, OthersStay
<1>1. SUFFICES ASSUME Sane' PROVE
        /\ \A v \in Workers : wpc'[v] \in {"find", "fetch"} => Streamed(v)'
        /\ \A v \in Workers : wpc'[v] = "upload" => remote' /\ Ready(job[v])'
        /\ \A h \in doneJobs' : Ready(h)' /\ (remote' => InDir(DirOf(h))' = {})
    BY DEF WrittenInv
<1>2. Sane
    BY <1>0, <1>1, SameWorld DEF Sane
<1>3. /\ \A v \in Workers : wpc[v] \in {"find", "fetch"} => Streamed(v)
      /\ \A v \in Workers : wpc[v] = "upload" => remote /\ Ready(job[v])
      /\ \A h \in doneJobs : Ready(h) /\ (remote => InDir(DirOf(h)) = {})
    BY <1>2 DEF WrittenInv
<1>4. /\ \A v \in Workers \ {w} :
              wpc[v] \in {"find", "fetch"} /\ job[v] # g /\ Streamed(v) => Streamed(v)'
      /\ \A h \in Range(SqlFiles) \ {g} :
              /\ Ready(h) => Ready(h)'
              /\ InDir(DirOf(h)) = {} => InDir(DirOf(h))' = {}
    BY FrameKept DEF ExportInv
<1>5. ASSUME NEW v \in Workers, wpc'[v] \in {"find", "fetch"} PROVE Streamed(v)'
  <2>1. CASE v = w
      BY <1>1, <1>5, <2>1
  <2>2. CASE v # w
      BY <1>0, <1>3, <1>4, <1>5, <2>2
  <2> QED
      BY <2>1, <2>2
<1>6. ASSUME NEW v \in Workers, wpc'[v] = "upload" PROVE remote' /\ Ready(job[v])'
  <2>1. CASE v = w
    <3>1. job'[v] = g /\ remote /\ Ready(g)'
        BY <1>1, <1>6, <2>1
    <3> QED
        BY <1>0, <3>1
  <2>2. CASE v # w
    <3> SUFFICES ASSUME NEW h, h = job[v] PROVE remote' /\ Ready(job[v])'
        OBVIOUS
    <3>1. wpc[v] = "upload" /\ job'[v] = h /\ remote /\ Ready(h) /\ h # g
        BY <1>0, <1>3, <1>6, <2>2
    <3>2. h \in Range(SqlFiles)
        BY <3>1, BusyFacts DEF ExportInv
    <3>3. Ready(h)'
        BY <1>4, <3>1, <3>2
    <3> QED
        BY <1>0, <3>1, <3>3
  <2> QED
      BY <2>1, <2>2
<1>7. ASSUME NEW h \in doneJobs' PROVE Ready(h)' /\ (remote' => InDir(DirOf(h))' = {})
  <2>1. CASE h = g
      BY <1>0, <1>1, <1>7, <2>1
  <2>2. CASE h # g
    <3>1. h \in doneJobs
        BY <1>0, <1>7, <2>2
    <3>2. h \in Range(SqlFiles)
        BY <3>1 DEF ExportInv, ExportTypes, ExportTypeOK
    <3> QED
        BY <1>0, <1>3, <1>4, <2>2, <3>1, <3>2
  <2> QED
      BY <2>1, <2>2
<1> QED
    BY <1>5, <1>6, <1>7

\* A step of a worker keeps the files right: those it writes by what it does to
\* its stream, those of the others because it does not touch them.
LEMMA WorkWritten ==
  ASSUME ExportInv, Planned, WrittenInv, xpc = "running", NEW w \in Workers, Work(w)
  PROVE  WrittenInv'
<1> USE DEF outcome, command, stream
<1>0. /\ ExportTypes /\ Shape
      /\ wpc \in [Workers -> {"take", "find", "fetch", "upload", "ended"}]
      /\ job \in [Workers -> Range(SqlFiles) \union {None}]
    BY DEF ExportInv, ExportTypes, ExportTypeOK
<1>s. Sane /\ xpc = "running" =>
        /\ wpc[w] \in {"find", "fetch"} => Streamed(w)
        /\ wpc[w] = "upload" => remote /\ Ready(job[w])
    BY DEF WrittenInv
<1>f. /\ TakeJob(w) => Frame(w, jobs[next])
      /\ NoMoreJobs(w) => \A g : Frame(w, g)
      /\ OpenCursor(w) \/ FindFails(w) \/ Fetch(w) \/ CursorFails(w) \/ NextSource(w)
              \/ FinishFiles(w) \/ Upload(w) \/ UploadFails(w) \/ AllUploaded(w) =>
            Frame(w, job[w])
    BY <1>0, WorkerFrame
<1>b. ASSUME NEW g, Frame(w, g), Sane' PROVE Sane
  <2>1. broken \subseteq broken' /\ UNCHANGED <<natural, members>>
      BY <1>b DEF Frame
  <2> QED
      BY <1>b, <2>1, SameWorld DEF Sane
<1>1. CASE TakeJob(w)
  <2> SUFFICES ASSUME NEW g, g = jobs[next] PROVE WrittenInv'
      OBVIOUS
  <2>1. next <= Len(jobs) /\ wpc' = [wpc EXCEPT ![w] = "find"] /\ doneJobs' = doneJobs
      BY <1>1 DEF TakeJob
  <2>2. g \in Range(SqlFiles) /\ Untaken(g)
      BY <2>1, NextUntaken
  <2>3. Streamed(w)' /\ wpc'[w] = "find"
      BY <1>0, <1>1, <2>1, TakeStream
  <2> QED
      BY <1>1, <1>f, <2>1, <2>2, <2>3, WrittenFrom DEF Untaken
<1>2. CASE NoMoreJobs(w)
  <2>1. /\ wpc' = [wpc EXCEPT ![w] = "ended"]
        /\ UNCHANGED <<natural, remote, files, objects, xpc, members, started, broken, job,
                       source, cursor, last, counter, doneJobs>>
      BY <1>2 DEF NoMoreJobs
  <2>2. SUFFICES ASSUME Sane' PROVE
        /\ \A v \in Workers : wpc'[v] \in {"find", "fetch"} => Streamed(v)'
        /\ \A v \in Workers : wpc'[v] = "upload" => remote' /\ Ready(job[v])'
        /\ \A h \in doneJobs' : Ready(h)' /\ (remote' => InDir(DirOf(h))' = {})
      BY DEF WrittenInv
  <2>3. Sane
      BY <2>1, <2>2, SameWorld DEF Sane
  <2>4. /\ \A v \in Workers : wpc[v] \in {"find", "fetch"} => Streamed(v)
        /\ \A v \in Workers : wpc[v] = "upload" => remote /\ Ready(job[v])
        /\ \A h \in doneJobs : Ready(h) /\ (remote => InDir(DirOf(h)) = {})
      BY <2>3 DEF WrittenInv
  <2>5. \A v \in Workers : wpc'[v] # "ended" => wpc'[v] = wpc[v]
      BY <1>0, <2>1
  <2>6. \A h : Ready(h) => Ready(h)'
      BY <2>1, ReadyKept, SameWorld DEF Stays
  <2>7. \A h : InDir(DirOf(h))' = InDir(DirOf(h))
      BY <2>1, SameWorld DEF InDir
  <2>8. \A v \in Workers : wpc'[v] \in {"find", "fetch"} => Streamed(v)'
      BY <2>1, <2>4, <2>5, StreamedKept
  <2>9. \A v \in Workers : wpc'[v] = "upload" => remote' /\ Ready(job[v])'
    <3> SUFFICES ASSUME NEW v \in Workers, wpc'[v] = "upload", NEW h, h = job[v]
                 PROVE  remote' /\ Ready(job[v])'
        OBVIOUS
    <3>1. remote /\ Ready(h) /\ job'[v] = h
        BY <2>1, <2>4, <2>5
    <3>2. Ready(h)'
        BY <2>6, <3>1
    <3> QED
        BY <2>1, <3>1, <3>2
  <2> QED
      BY <2>1, <2>4, <2>6, <2>7, <2>8, <2>9
<1>3. ASSUME OpenCursor(w) \/ FindFails(w) \/ Fetch(w) \/ CursorFails(w) \/ NextSource(w)
              \/ FinishFiles(w) \/ Upload(w) \/ UploadFails(w) \/ AllUploaded(w)
      PROVE  WrittenInv'
  <2> SUFFICES ASSUME NEW g, g = job[w] PROVE WrittenInv'
      OBVIOUS
  <2>1. wpc[w] \in {"find", "fetch", "upload"}
      BY <1>3 DEF OpenCursor, FindFails, Fetch, CursorFails, NextSource, FinishFiles, Upload,
                  UploadFails, AllUploaded
  <2>2. /\ g \in Range(SqlFiles) /\ g # None /\ g \notin doneJobs
        /\ \A v \in Workers \ {w} : job[v] # g
      BY <2>1, JobHeld
  <2>3. Frame(w, g)
      BY <1>3, <1>f
  <2>4. SUFFICES ASSUME Sane' PROVE
                  /\ wpc'[w] \in {"find", "fetch"} => Streamed(w)'
                  /\ wpc'[w] = "upload" => job'[w] = g /\ remote /\ Ready(g)'
                  /\ g \in doneJobs' => Ready(g)' /\ (remote => InDir(DirOf(g))' = {})
      BY <2>2, <2>3, WrittenFrom
  <2>5. Sane
      BY <1>b, <2>3, <2>4
  <2>6. /\ wpc[w] \in {"find", "fetch"} => Streamed(w)
        /\ wpc[w] = "upload" => remote /\ Ready(g)
      BY <1>s, <2>5
  <2>7. ASSUME NoteFailure(w) PROVE wpc'[w] = "take" /\ doneJobs' = doneJobs
      BY <1>0, <2>7 DEF NoteFailure, LeaveJob
  <2>8. CASE OpenCursor(w)
    <3>1. wpc[w] = "find" /\ wpc'[w] = "fetch" /\ doneJobs' = doneJobs
        BY <1>0, <2>8 DEF OpenCursor
    <3> QED
        BY <1>0, <2>2, <2>5, <2>6, <2>8, <3>1, OpenStream
  <2>9. CASE FindFails(w)
      BY <2>2, <2>7, <2>9 DEF FindFails
  <2>10. CASE Fetch(w)
    <3>1. wpc[w] = "fetch" /\ wpc'[w] = "fetch" /\ doneJobs' = doneJobs
        BY <1>0, <2>10 DEF Fetch
    <3> QED
        BY <1>0, <2>2, <2>6, <2>10, <3>1, FetchStream
  <2>11. CASE CursorFails(w)
    <3>1. CASE MayRetry(w)
      <4>1. wpc[w] = "fetch" /\ wpc'[w] = "find" /\ doneJobs' = doneJobs
          BY <1>0, <2>11, <3>1 DEF CursorFails
      <4> QED
          BY <1>0, <2>2, <2>4, <2>6, <2>11, <3>1, <4>1, RetryStream
    <3>2. CASE ~MayRetry(w)
        BY <2>2, <2>7, <2>11, <3>2 DEF CursorFails
    <3> QED
        BY <3>1, <3>2
  <2>12. CASE NextSource(w)
    <3>1. wpc[w] = "fetch" /\ wpc'[w] = "find" /\ doneJobs' = doneJobs
        BY <1>0, <2>12 DEF NextSource
    <3> QED
        BY <1>0, <2>2, <2>6, <2>12, <3>1, NextStream
  <2>13. CASE FinishFiles(w)
    <3>1. wpc[w] = "fetch"
        BY <2>13 DEF FinishFiles
    <3>2. Ready(g)'
        BY <1>0, <2>6, <2>13, <3>1, FinishReady
    <3>3. CASE remote
      <4>1. wpc'[w] = "upload" /\ job'[w] = g /\ doneJobs' = doneJobs
          BY <1>0, <2>13, <3>3 DEF FinishFiles
      <4> QED
          BY <2>2, <3>2, <3>3, <4>1
    <3>4. CASE ~remote
      <4>1. wpc'[w] = "take"
          BY <1>0, <2>13, <3>4 DEF FinishFiles, JobDone, LeaveJob
      <4> QED
          BY <3>2, <3>4, <4>1
    <3> QED
        BY <3>3, <3>4
  <2>14. CASE Upload(w)
    <3>1. wpc[w] = "upload" /\ wpc'[w] = "upload" /\ job'[w] = g /\ doneJobs' = doneJobs
        BY <1>0, <2>14 DEF Upload
    <3>2. Ready(g)'
        BY <1>0, <2>6, <2>14, <3>1, UploadReady
    <3> QED
        BY <2>2, <2>6, <3>1, <3>2
  <2>15. CASE UploadFails(w)
      BY <2>2, <2>7, <2>15 DEF UploadFails
  <2>16. CASE AllUploaded(w)
    <3>1. /\ wpc[w] = "upload" /\ InDir(DirOf(g)) = {} /\ wpc'[w] = "take"
          /\ UNCHANGED <<natural, remote, files, objects, members, started>>
        BY <1>0, <2>16 DEF AllUploaded, JobDone, LeaveJob
    <3>2. Ready(g)'
        BY <2>6, <3>1, ReadyKept, SameWorld DEF Stays
    <3>3. InDir(DirOf(g))' = {}
        BY <3>1, SameWorld DEF InDir
    <3> QED
        BY <3>1, <3>2, <3>3
  <2> QED
      BY <1>3, <2>8, <2>9, <2>10, <2>11, <2>12, <2>13, <2>14, <2>15, <2>16
<1> QED
    BY <1>1, <1>2, <1>3 DEF Work

\* A step of a worker keeps to the plan of the export.
LEMMA WorkPlanned ==
  ASSUME ExportInv, Planned, xpc = "running", NEW w \in Workers, Work(w)
  PROVE  Planned'
<1> USE DEF outcome, command, stream
<1>0. /\ ExportTypes /\ Shape
      /\ wpc \in [Workers -> {"take", "find", "fetch", "upload", "ended"}]
      /\ job \in [Workers -> Range(SqlFiles) \union {None}]
      /\ last \in [Workers -> Docs \union {None}]
      /\ counter \in [Workers -> Nat]
    BY DEF ExportInv, ExportTypes, ExportTypeOK
<1>1. SUFFICES ASSUME
                 UNCHANGED <<natural, remote, xpc, jobs, members, started>>, OthersStay(w),
                 wpc'[w] \in {"take", "ended"} => last'[w] = None /\ counter'[w] = 0,
                 job'[w] # None => job'[w] \notin doneJobs',
                 \A v \in Workers \ {w} : job[v] # None => job[v] \notin doneJobs'
               PROVE  Planned'
  <2>0. ASSUME NEW g, Frame(w, g), \A v \in Workers \ {w} : job[v] # g
        PROVE  /\ UNCHANGED <<natural, remote, xpc, jobs, members, started>> /\ OthersStay(w)
               /\ \A v \in Workers \ {w} : job[v] # None => job[v] \notin doneJobs'
      BY <2>0 DEF Frame, Planned
  <2>1. CASE TakeJob(w)
    <3>1. next <= Len(jobs) /\ wpc'[w] = "find" /\ job'[w] = jobs[next] /\ doneJobs' = doneJobs
        BY <1>0, <2>1 DEF TakeJob
    <3>2. Untaken(jobs[next]) /\ Frame(w, jobs[next])
        BY <1>0, <2>1, <3>1, NextUntaken, WorkerFrame
    <3> QED
        BY <1>1, <2>0, <3>1, <3>2 DEF Untaken
  <2>2. CASE NoMoreJobs(w)
    <3>1. /\ wpc[w] = "take" /\ UNCHANGED <<last, counter, job, doneJobs>>
        BY <2>2 DEF NoMoreJobs
    <3>3. last[w] = None /\ counter[w] = 0
        BY <3>1 DEF Planned
    <3>4. UNCHANGED <<natural, remote, xpc, jobs, members, started>> /\ OthersStay(w)
        BY <1>0, <2>2, WorkerFrame DEF Frame
    <3>5. job[w] = None
        BY <1>0, <3>1 DEF Shape
    <3> QED
        BY <1>1, <3>1, <3>3, <3>4, <3>5 DEF Planned
  <2>3. CASE OpenCursor(w) \/ FindFails(w) \/ Fetch(w) \/ CursorFails(w) \/ NextSource(w)
              \/ FinishFiles(w) \/ Upload(w) \/ UploadFails(w) \/ AllUploaded(w)
    <3>1. wpc[w] \in {"find", "fetch", "upload"}
        BY <2>3 DEF OpenCursor, FindFails, Fetch, CursorFails, NextSource, FinishFiles, Upload,
                    UploadFails, AllUploaded
    <3>2. Frame(w, job[w])
        BY <1>0, <2>3, WorkerFrame
    <3>3. job[w] # None /\ job[w] \notin doneJobs /\ \A v \in Workers \ {w} : job[v] # job[w]
        BY <3>1, JobHeld
    <3>4. \/ job'[w] = None /\ last'[w] = None /\ counter'[w] = 0
          \/ job'[w] = job[w] /\ doneJobs' = doneJobs /\ wpc'[w] \in {"find", "fetch", "upload"}
      <4>1. ASSUME LeaveJob(w, "take") PROVE job'[w] = None /\ last'[w] = None /\ counter'[w] = 0
          BY <1>0, <4>1 DEF LeaveJob
      <4>2. CASE OpenCursor(w)
          BY <1>0, <4>2 DEF OpenCursor
      <4>3. CASE FindFails(w)
          BY <4>1, <4>3 DEF FindFails, NoteFailure
      <4>4. CASE Fetch(w)
          BY <1>0, <4>4 DEF Fetch
      <4>5. CASE CursorFails(w)
        <5>1. CASE MayRetry(w)
            BY <1>0, <4>5, <5>1 DEF CursorFails
        <5>2. CASE ~MayRetry(w)
            BY <4>1, <4>5, <5>2 DEF CursorFails, NoteFailure
        <5> QED
            BY <5>1, <5>2
      <4>6. CASE NextSource(w)
          BY <1>0, <4>6 DEF NextSource
      <4>7. CASE FinishFiles(w)
        <5>1. CASE remote
            BY <1>0, <4>7, <5>1 DEF FinishFiles
        <5>2. CASE ~remote
            BY <4>1, <4>7, <5>2 DEF FinishFiles, JobDone
        <5> QED
            BY <5>1, <5>2
      <4>8. CASE Upload(w)
          BY <1>0, <4>8 DEF Upload
      <4>9. CASE UploadFails(w)
          BY <4>1, <4>9 DEF UploadFails, NoteFailure
      <4>10. CASE AllUploaded(w)
          BY <4>1, <4>10 DEF AllUploaded, JobDone
      <4> QED
          BY <2>3, <4>2, <4>3, <4>4, <4>5, <4>6, <4>7, <4>8, <4>9, <4>10
    <3> QED
        BY <1>1, <2>0, <3>2, <3>3, <3>4
  <2> QED
      BY <2>1, <2>2, <2>3 DEF Work
<1>2. /\ UNCHANGED <<natural, remote, xpc, jobs, members, started>>
      /\ \A v \in Workers : v # w =>
           wpc'[v] = wpc[v] /\ job'[v] = job[v] /\ last'[v] = last[v] /\ counter'[v] = counter[v]
    BY <1>1 DEF OthersStay
<1>3. Stored' = Stored
    BY <1>2, SameWorld
<1>4. \A v \in Workers : wpc'[v] \in {"take", "ended"} => last'[v] = None /\ counter'[v] = 0
    BY <1>1, <1>2 DEF Planned
<1>5. \A v \in Workers : job'[v] # None => job'[v] \notin doneJobs'
  <2> SUFFICES ASSUME NEW v \in Workers, v # w, job'[v] # None PROVE job'[v] \notin doneJobs'
      BY <1>1
  <2> QED
      BY <1>1, <1>2
<1> QED
    BY <1>2, <1>3, <1>4, <1>5 DEF Planned

----------------------------------------------------------------------------
(* Where the files of a table are.                                         *)

\* The collections a job is planned for.
LEMMA MemFacts ==
  ASSUME ExportInv, xpc = "running", NEW g \in Range(SqlFiles)
  PROVE  /\ Mem(g) = {members[g][i] : i \in DOMAIN members[g]}
         /\ \A c \in Mem(g) : c \in Colls /\ FileOf[c] = g
         /\ members[g] \in Seq(Colls)
<1>1. members[g] \in Seq(Colls) /\ \A i \in DOMAIN members[g] : FileOf[members[g][i]] = g
    BY DEF ExportInv, Shape, MembersOK
<1>2. Mem(g) = {members[g][i] : i \in DOMAIN members[g]}
    BY DEF Mem, ToSet
<1> QED
    BY <1>1, <1>2

\* The directory of a job is its own.
LEMMA DirHome ==
  ASSUME ExportInv, xpc = "running", NEW g \in Range(SqlFiles), NEW h \in Range(SqlFiles),
         DirOf(g) \in Mem(h) \union {h}
  PROVE  g = h
<1>0. \A c \in Colls : c \in Range(SqlFiles) => FileOf[c] = c
    BY ArtifactsAssumption
<1>1. \A c \in Mem(h) : c \in Colls /\ FileOf[c] = h
    BY MemFacts
<1>2. DirOf(g) = g \/ (DirOf(g) \in Colls /\ FileOf[DirOf(g)] = g)
  <2>1. members[g] \in Seq(Colls) /\ \A i \in DOMAIN members[g] : FileOf[members[g][i]] = g
      BY DEF ExportInv, Shape, MembersOK
  <2>2. Len(members[g]) = 1 => 1 \in DOMAIN members[g]
      BY <2>1
  <2> QED
      BY <2>1, <2>2 DEF DirOf
<1> QED
    BY <1>0, <1>1, <1>2

\* A worker writes where files of its SQL file belong.
LEMMA OwnHome ==
  ASSUME ExportInv, Planned, xpc = "running", NEW g \in Range(SqlFiles), g \in Range(jobs)
  PROVE  /\ DirOf(g) \in Mem(g) \/ (DirOf(g) = g /\ \E c, e \in Mem(g) : c # e)
         /\ Mem(g) # {}
<1>1. members[g] \in Seq(Colls) /\ Mem(g) = {members[g][i] : i \in DOMAIN members[g]}
    BY MemFacts
<1>2. members[g] # <<>> /\ IsInjective(members[g])
    BY DEF Planned
<1>3. Len(members[g]) \in Nat \ {0} /\ DOMAIN members[g] = 1 .. Len(members[g])
    BY <1>1, <1>2
<1>4. 1 \in DOMAIN members[g] /\ members[g][1] \in Mem(g)
    BY <1>1, <1>3
<1>5. CASE Len(members[g]) = 1
    BY <1>4, <1>5 DEF DirOf
<1>6. CASE Len(members[g]) # 1
  <2>0. \A n \in Nat \ {0} : n # 1 => 2 \in 1 .. n
      OBVIOUS
  <2>1. 2 \in DOMAIN members[g] /\ 1 # 2
    <3>1. 2 \in 1 .. Len(members[g])
        BY <1>3, <1>6, <2>0
    <3> QED
        BY <1>3, <3>1
  <2>2. members[g][2] \in Mem(g) /\ members[g][1] # members[g][2]
      BY <1>1, <1>2, <1>4, <2>1 DEF IsInjective
  <2> QED
      BY <1>4, <1>6, <2>2 DEF DirOf
<1> QED
    BY <1>5, <1>6

\* A step keeps them there that adds files to the directory of a job, or
\* uploads what is in it.
LEMMA HomesFrom ==
  ASSUME ExportInv, Planned, Homes, xpc = "running", UNCHANGED <<xpc, members>>,
         \A p \in DOMAIN files' : \/ p \in DOMAIN files
                                  \/ \E g \in Range(jobs) : /\ p[1] = DirOf(g)
                                                            /\ p[2] \in TablesOf(g) \/ p[2] \notin Tables,
         \A p \in DOMAIN objects' : \/ p \in DOMAIN objects
                                    \/ \E g \in Range(jobs) : \E q \in InDir(DirOf(g)) : p = <<g, q[2]>>
  PROVE  Homes'
<1>1. Range(jobs) \subseteq Range(SqlFiles)
  <2>1. jobs \in Seq(Range(SqlFiles))
      BY DEF ExportInv, ExportTypes, ExportTypeOK
  <2> DEFINE U == Range(SqlFiles)
  <2>2. jobs \in Seq(U)
      BY <2>1
  <2> HIDE DEF U
  <2>3. Range(jobs) \subseteq U
      BY <2>2 DEF Range
  <2> QED
      BY <2>3 DEF U
<1>2. \A h : Mem(h)' = Mem(h)
    BY DEF Mem
<1>3. SUFFICES ASSUME NEW h \in Range(SqlFiles), NEW t \in TablesOf(h)
               PROVE  /\ \A p \in DOMAIN files' : p[2] = t =>
                           p[1] \in Mem(h) \/ (p[1] = h /\ \E c, e \in Mem(h) : c # e)
                      /\ \A p \in DOMAIN objects' : p[2] = t => p[1] = h /\ Mem(h) # {}
    BY <1>2 DEF Homes
<1>4. t \in Tables
    BY SqlFacts
<1>5. ASSUME NEW p \in DOMAIN files', p[2] = t
      PROVE  p[1] \in Mem(h) \/ (p[1] = h /\ \E c, e \in Mem(h) : c # e)
  <2>1. CASE p \in DOMAIN files
      BY <1>5, <2>1 DEF Homes
  <2>2. CASE p \notin DOMAIN files
    <3>1. PICK g \in Range(jobs) : p[1] = DirOf(g) /\ (p[2] \in TablesOf(g) \/ p[2] \notin Tables)
        BY <2>2
    <3>2. g = h
        BY <1>1, <1>4, <1>5, <3>1, TablesApartFacts
    <3> QED
        BY <1>1, <3>1, <3>2, OwnHome
  <2> QED
      BY <2>1, <2>2
<1>6. ASSUME NEW p \in DOMAIN objects', p[2] = t PROVE p[1] = h /\ Mem(h) # {}
  <2>1. CASE p \in DOMAIN objects
      BY <1>6, <2>1 DEF Homes
  <2>2. CASE p \notin DOMAIN objects
    <3>1. PICK g \in Range(jobs) : \E q \in InDir(DirOf(g)) : p = <<g, q[2]>>
        BY <2>2
    <3>2. PICK q \in InDir(DirOf(g)) : p = <<g, q[2]>>
        BY <3>1
    <3>3. q \in DOMAIN files /\ q[1] = DirOf(g) /\ q[2] = t /\ p[1] = g
        BY <1>6, <3>2 DEF InDir
    <3>4. DirOf(g) \in Mem(h) \union {h}
        BY <3>3 DEF Homes
    <3>5. g = h
        BY <1>1, <3>4, DirHome
    <3> QED
        BY <1>1, <3>3, <3>5, OwnHome
  <2> QED
      BY <2>1, <2>2
<1> QED
    BY <1>5, <1>6

\* A step of a worker leaves no file of a table where another SQL file has it.
LEMMA WorkHomes ==
  ASSUME ExportInv, Planned, Homes, AliasesApart, xpc = "running", NEW w \in Workers, Work(w)
  PROVE  Homes'
<1> USE DEF outcome, command, stream
<1>0. ExportTypes /\ Shape /\ Typed(files)
    BY DEF ExportInv, ExportTypes
<1>1. UNCHANGED <<xpc, members>>
    BY <1>0, WorkerFrame DEF Work, Frame
<1>2. ASSUME wpc[w] \in {"find", "fetch", "upload"} PROVE job[w] \in Range(jobs)
    BY <1>0, <1>2, BusyFacts DEF Shape, Range
<1>3. CASE TakeJob(w)
  <2>1. /\ objects' = objects /\ next <= Len(jobs)
        /\ DOMAIN files' = (DOMAIN files \ InDir(DirOf(jobs[next])))
                             \union {<<DirOf(jobs[next]), t>> : t \in TablesOf(jobs[next])}
      BY <1>3 DEF TakeJob
  <2>2. jobs[next] \in Range(jobs)
      BY <2>1, NextUntaken
  <2> QED
      BY <1>1, <2>1, <2>2, HomesFrom
<1>4. CASE DOMAIN files' = DOMAIN files /\ objects' = objects
    BY <1>1, <1>4, HomesFrom
<1>5. CASE NoMoreJobs(w) \/ OpenCursor(w) \/ NextSource(w) \/ UploadFails(w) \/ AllUploaded(w)
    BY <1>4, <1>5 DEF NoMoreJobs, OpenCursor, NextSource, UploadFails, AllUploaded
<1>6. CASE FindFails(w)
    BY <1>0, <1>4, <1>6, DropWritersFacts DEF FindFails
<1>7. CASE Fetch(w)
  <2>1. DOMAIN files' = DOMAIN files /\ objects' = objects
      BY <1>7 DEF Fetch, WithRows
  <2> QED
      BY <1>4, <2>1
<1>8. CASE CursorFails(w)
  <2>1. CASE MayRetry(w)
      BY <1>4, <1>8, <2>1 DEF CursorFails
  <2>2. CASE ~MayRetry(w)
      BY <1>0, <1>4, <1>8, <2>2, DropWritersFacts DEF CursorFails
  <2> QED
      BY <2>1, <2>2
<1>9. CASE FinishFiles(w)
  <2>1. /\ wpc[w] = "fetch" /\ objects' = objects
        /\ DOMAIN files' = DOMAIN files \union Expected(job[w])
      BY <1>9 DEF FinishFiles, Finished
  <2>2. job[w] \in Range(jobs) /\ job[w] \in Range(SqlFiles)
      BY <1>0, <1>2, <2>1, BusyFacts
  <2>3. \A p \in Expected(job[w]) : /\ p[1] = DirOf(job[w])
                                    /\ p[2] \in TablesOf(job[w]) \/ p[2] \notin Tables
    <3> SUFFICES ASSUME NEW p \in Expected(job[w])
                 PROVE  p[1] = DirOf(job[w]) /\ (p[2] \in TablesOf(job[w]) \/ p[2] \notin Tables)
        OBVIOUS
    <3>1. PICK t : /\ p = <<DirOf(job[w]), t>>
                   /\ \/ t \in TablesOf(job[w])
                      \/ t # None /\ \E u \in TablesOf(job[w]) : AliasOf[u] = t
        BY DEF Expected
    <3>2. CASE t \in TablesOf(job[w])
        BY <3>1, <3>2
    <3>3. CASE t # None /\ \E u \in TablesOf(job[w]) : AliasOf[u] = t
      <4>1. TablesOf(job[w]) \subseteq Tables /\ DOMAIN AliasOf = Tables
          BY <2>2, SqlFacts, ArtifactsAssumption
      <4>2. t \in Aliases
          BY <3>3, <4>1 DEF Aliases, Range
      <4> QED
          BY <3>1, <4>2 DEF AliasesApart
    <3> QED
        BY <3>1, <3>2, <3>3
  <2> QED
      BY <1>1, <2>1, <2>2, <2>3, HomesFrom
<1>10. CASE Upload(w)
  <2>1. PICK p \in InDir(DirOf(job[w])) :
          /\ DOMAIN objects' = DOMAIN objects \union {<<job[w], p[2]>>}
          /\ files' = Without(files, {p})
      BY <1>10 DEF Upload
  <2>2. DOMAIN files' \subseteq DOMAIN files
      BY <2>1 DEF Without
  <2>3. job[w] \in Range(jobs)
      BY <1>2, <1>10 DEF Upload
  <2> QED
      BY <1>1, <2>1, <2>2, <2>3, HomesFrom
<1> QED
    BY <1>3, <1>5, <1>6, <1>7, <1>8, <1>9, <1>10 DEF Work

----------------------------------------------------------------------------
(* What the other steps of an export do to what is written.                *)

\* run_export plans its jobs by the collections there are.
LEMMA StartContent ==
  ASSUME ExportInv, Planned, Homes, StartExport
  PROVE  Planned' /\ Homes' /\ WrittenInv' /\ Served'
<1>0. /\ ExportTypes /\ Shape
    BY DEF ExportInv
<1>1. /\ jobs' = PlannedJobs /\ PlannedJobs # <<>> /\ xpc' = "running" /\ xpc # "running"
      /\ members' = [g \in Range(SqlFiles) |-> MembersOf(g)]
      /\ wpc' = [w \in Workers |-> "take"] /\ started' = Stored
      /\ doneJobs' = {} /\ files' = (IF remote THEN <<>> ELSE files)
      /\ UNCHANGED <<natural, remote, objects, job, last, counter>>
    BY DEF StartExport
<1>2. ToSet(PlannedJobs) = {g \in Range(SqlFiles) : MembersOf(g) # <<>>}
    BY PlannedFacts
<1>3. \A g \in Range(SqlFiles) :
        /\ IsInjective(MembersOf(g)) /\ members'[g] = MembersOf(g)
        /\ ToSet(MembersOf(g)) = {c \in Colls : FileOf[c] = g /\ natural[c] # <<>>}
    BY <1>1, MembersFacts
<1>4. \A w \in Workers : job[w] = None /\ last[w] = None /\ counter[w] = 0
    BY <1>0, <1>1 DEF Shape, Planned
<1>5. Stored' = Stored
    BY <1>1 DEF Stored
<1>6. \A d \in Stored : CollOf[d] \in ToSet(MembersOf(FileOf[CollOf[d]])) /\ FileOf[CollOf[d]] \in Range(SqlFiles)
  <2> SUFFICES ASSUME NEW d \in Stored
               PROVE  CollOf[d] \in ToSet(MembersOf(FileOf[CollOf[d]])) /\ FileOf[CollOf[d]] \in Range(SqlFiles)
      OBVIOUS
  <2>1. CollOf[d] \in Colls /\ d \in Range(natural[CollOf[d]])
      BY <1>0, ScanFacts
  <2>2. FileOf[CollOf[d]] \in Range(SqlFiles)
      BY <2>1, ArtifactsAssumption
  <2>3. natural[CollOf[d]] # <<>>
      BY <2>1 DEF Range
  <2> QED
      BY <1>3, <2>1, <2>2, <2>3
<1>7. \A g \in Range(SqlFiles) : members'[g] # <<>> <=> g \in Range(jobs')
  <2>1. Range(jobs') = ToSet(PlannedJobs)
      BY <1>1 DEF Range, ToSet
  <2> QED
      BY <1>2, <1>3, <2>1
<1>8. \A g \in Range(SqlFiles) : \A i \in DOMAIN members'[g] : natural'[members'[g][i]] # <<>>
    BY <1>1, <1>3 DEF ToSet
<1>9. Planned'
  <2>1. \A w \in Workers : last'[w] = None /\ counter'[w] = 0 /\ job'[w] = None
      BY <1>1, <1>4
  <2>2. \A g \in Range(SqlFiles) : IsInjective(members'[g])
      BY <1>3
  <2>3. \A c \in Colls : IsInjective(natural'[c])
      BY <1>1 DEF Planned
  <2>4. \A d \in started' : CollOf[d] \in ToSet(members'[FileOf[CollOf[d]]])
      BY <1>1, <1>3, <1>6
  <2>5. started' \subseteq Stored' /\ jobs' # <<>>
      BY <1>1, <1>5
  <2> QED
      BY <1>7, <1>8, <2>1, <2>2, <2>3, <2>4, <2>5 DEF Planned
<1>10. Homes'
  <2>1. \A g \in Range(SqlFiles) : Mem(g)' = Mem(g)
      BY <1>1, <1>3 DEF Mem
  <2>2. DOMAIN files' \subseteq DOMAIN files /\ DOMAIN objects' = DOMAIN objects
      BY <1>1
  <2> QED
      BY <2>1, <2>2 DEF Homes
<1>11. WrittenInv'
    BY <1>1 DEF WrittenInv
<1>12. Served'
    BY <1>1 DEF Served
<1> QED
    BY <1>9, <1>10, <1>11, <1>12

\* A scan with a document more.
LEMMA AppendFacts ==
  ASSUME NEW s \in Seq(Docs), NEW d \in Docs
  PROVE  /\ Append(s, d) \in Seq(Docs) /\ Append(s, d) # <<>>
         /\ DOMAIN s \subseteq DOMAIN Append(s, d)
         /\ \A i \in DOMAIN s : i \in Nat /\ i < Len(s) + 1 /\ Append(s, d)[i] = s[i]
         /\ \A i \in DOMAIN Append(s, d) : i \in DOMAIN s \/ i = Len(s) + 1
         /\ Len(s) + 1 \in DOMAIN Append(s, d) /\ Append(s, d)[Len(s) + 1] = d
         /\ Len(s) \in Nat
         /\ Range(Append(s, d)) = Range(s) \union {d}
         /\ IsInjective(s) /\ d \notin Range(s) => IsInjective(Append(s, d))
<1> DEFINE u == Append(s, d)
           n == Len(s)
<1>1. /\ u \in Seq(Docs) /\ u # <<>> /\ n \in Nat
      /\ DOMAIN s = 1 .. n /\ DOMAIN u = 1 .. n + 1 /\ u[n + 1] = d
      /\ \A i \in 1 .. n : u[i] = s[i]
    OBVIOUS
<1> HIDE DEF u, n
<1>2. /\ DOMAIN s \subseteq DOMAIN u
      /\ \A i \in DOMAIN s : i \in Nat /\ i < n + 1 /\ u[i] = s[i]
      /\ \A i \in DOMAIN u : i \in DOMAIN s \/ i = n + 1
      /\ n + 1 \in DOMAIN u
    BY <1>1
<1>3. Range(u) = Range(s) \union {d}
    BY <1>1, <1>2 DEF Range
<1>4. IsInjective(s) /\ d \notin Range(s) => IsInjective(u)
    BY <1>1, <1>2 DEF Range, IsInjective
<1> QED
    BY <1>1, <1>2, <1>3, <1>4 DEF u, n

\* A document that is stored comes last in a scan.
LEMMA StoreScan ==
  ASSUME ExportTypes, Planned, NEW d \in Docs, d \notin Stored,
         natural' = [natural EXCEPT ![CollOf[d]] = Append(@, d)]
  PROVE  /\ \A c \in Colls : IsInjective(natural'[c])
         /\ \A c \in Colls : Range(natural[c]) \subseteq Range(natural'[c])
         /\ \A c \in Colls : natural[c] # <<>> => natural'[c] # <<>>
         /\ d \in Range(natural'[CollOf[d]]) /\ CollOf[d] \in Colls
         /\ Stored \subseteq Stored'
         /\ \A c \in Colls : Ordered(c)' => Ordered(c)
         /\ Ordered(CollOf[d])' => \A e \in Range(natural[CollOf[d]]) : e < d
<1> DEFINE k == CollOf[d]
<1>1. k \in Colls
    BY ArtifactsAssumption
<1>2. /\ natural'[k] = Append(natural[k], d)
      /\ \A c \in Colls : c # k => natural'[c] = natural[c]
    BY <1>1 DEF ExportTypes
<1> HIDE DEF k
<1>3. natural[k] \in Seq(Docs) /\ d \notin Range(natural[k])
    BY <1>1, ScanFacts
<1> DEFINE s == natural[k]
           u == Append(natural[k], d)
<1>4. /\ u # <<>> /\ DOMAIN s \subseteq DOMAIN u
      /\ \A i \in DOMAIN s : i \in Nat /\ i < Len(s) + 1 /\ u[i] = s[i]
      /\ Len(s) + 1 \in DOMAIN u /\ u[Len(s) + 1] = d
      /\ Range(u) = Range(s) \union {d}
      /\ IsInjective(s) /\ d \notin Range(s) => IsInjective(u)
    BY <1>3, AppendFacts
<1>5. IsInjective(s)
    BY <1>1 DEF Planned
<1> HIDE DEF s, u
<1>6. natural'[k] = u /\ natural[k] = s
    BY <1>2 DEF s, u
<1>7. \A c \in Colls : c = k \/ natural'[c] = natural[c]
    BY <1>2
<1>8. \A c \in Colls : IsInjective(natural'[c])
    BY <1>3, <1>4, <1>5, <1>6, <1>7 DEF Planned
<1>9. \A c \in Colls : Range(natural[c]) \subseteq Range(natural'[c])
    BY <1>4, <1>6, <1>7
<1>10. \A c \in Colls : natural[c] # <<>> => natural'[c] # <<>>
    BY <1>4, <1>6, <1>7
<1>11. Stored \subseteq Stored'
    BY <1>9 DEF Stored
<1>12. ASSUME NEW c \in Colls, Ordered(c)' PROVE Ordered(c)
    BY <1>4, <1>6, <1>7, <1>12 DEF Ordered
<1>13. ASSUME Ordered(k)', NEW e \in Range(s) PROVE e < d
  <2>1. PICK i \in DOMAIN s : s[i] = e
      BY <1>13 DEF Range
  <2>2. i \in DOMAIN u /\ Len(s) + 1 \in DOMAIN u /\ i < Len(s) + 1 /\ u[i] = e /\ u[Len(s) + 1] = d
      BY <1>4, <2>1
  <2>3. \A a, b \in DOMAIN u : a < b => u[a] < u[b]
      BY <1>6, <1>13 DEF Ordered
  <2> QED
      BY <2>2, <2>3
<1>14. d \in Range(natural'[k])
    BY <1>4, <1>6
<1> QED
    BY <1>1, <1>6, <1>8, <1>9, <1>10, <1>11, <1>12, <1>13, <1>14 DEF k

\* A cursor may or may not return a document that is stored while it is open.
LEMMA StoreStream ==
  ASSUME ExportTypes, Shape, Planned, xpc = "running", NEW d \in Docs, Store(d),
         NEW w \in Workers, wpc[w] \in {"find", "fetch"}, Streamed(w)
  PROVE  Streamed(w)'
<1> USE DEF outcome, command
<1>0. /\ d \notin Stored
      /\ natural' = [natural EXCEPT ![CollOf[d]] = Append(@, d)]
      /\ UNCHANGED <<members, started, broken, files, job, source, last, counter, wpc>>
    BY DEF Store
<1>1. /\ \A c \in Colls : Range(natural[c]) \subseteq Range(natural'[c])
      /\ d \in Range(natural'[CollOf[d]]) /\ CollOf[d] \in Colls
      /\ Stored \subseteq Stored'
      /\ \A c \in Colls : Ordered(c)' => Ordered(c)
      /\ Ordered(CollOf[d])' => \A e \in Range(natural[CollOf[d]]) : e < d
    BY <1>0, StoreScan
<1> SUFFICES ASSUME NEW c, c = CurrentColl(w) PROVE Streamed(w)'
    OBVIOUS
<1> DEFINE s == cursor[w]
           W == DocsOf(files[RootPath(job[w])].lines)
<1>2. /\ c \in Colls /\ s \in Seq(Docs) /\ last[w] \in Docs \union {None}
      /\ \A e \in started : e \in Docs
    BY StreamFacts
<1>3. \/ cursor'[w] = s
      \/ cursor'[w] = Append(s, d) /\ wpc[w] = "fetch" /\ c = CollOf[d]
    BY <1>0 DEF Store
<1>4. /\ CurrentColl(w)' = c
      /\ files[RootPath(job[w])]' = files[RootPath(job[w])]
      /\ files[ChildPath(job[w])]' = files[ChildPath(job[w])]
    BY <1>0 DEF CurrentColl, RootPath, ChildPath, DirOf
<1>5. /\ W \subseteq Stored
      /\ last[w] # None => last[w] \in Range(natural[c])
      /\ wpc[w] = "fetch" =>
           /\ Range(s) \subseteq Range(natural[c])
           /\ IsInjective(s)
           /\ \A e \in Range(s) : e \notin W
           /\ \A e \in started : CollOf[e] = c => e \in W \union Range(s)
           /\ Ordered(c) =>
                /\ \A i, j \in DOMAIN s : i < j => s[i] < s[j]
                /\ last[w] # None => \A i \in DOMAIN s : last[w] < s[i]
    BY DEF Streamed
<1>6. Range(natural[c]) \subseteq Stored
    BY <1>2, ScanFacts
<1>7. wpc[w] = "fetch" =>
           /\ Range(cursor'[w]) \subseteq Range(natural'[c])
           /\ IsInjective(cursor'[w])
           /\ \A e \in Range(cursor'[w]) : e \notin W
           /\ \A e \in started : CollOf[e] = c => e \in W \union Range(cursor'[w])
           /\ Ordered(c)' =>
                /\ \A i, j \in DOMAIN cursor'[w] : i < j => cursor'[w][i] < cursor'[w][j]
                /\ last[w] # None => \A i \in DOMAIN cursor'[w] : last[w] < cursor'[w][i]
  <2> HAVE wpc[w] = "fetch"
  <2>1. CASE cursor'[w] = s
      BY <1>1, <1>2, <1>5, <2>1
  <2>2. CASE cursor'[w] = Append(s, d) /\ c = CollOf[d]
    <3> DEFINE u == Append(s, d)
    <3>1. /\ \A i \in DOMAIN s : i \in Nat /\ i < Len(s) + 1 /\ u[i] = s[i]
          /\ \A i \in DOMAIN u : i \in DOMAIN s \/ i = Len(s) + 1
          /\ u[Len(s) + 1] = d /\ Len(s) \in Nat
          /\ Range(u) = Range(s) \union {d}
          /\ IsInjective(s) /\ d \notin Range(s) => IsInjective(u)
        BY <1>2, AppendFacts
    <3> HIDE DEF u, s, W
    <3>2. d \notin Range(s) /\ d \notin W
        BY <1>0, <1>5, <1>6
    <3>3. /\ Range(u) \subseteq Range(natural'[c]) /\ IsInjective(u)
          /\ \A e \in Range(u) : e \notin W
          /\ \A e \in started : CollOf[e] = c => e \in W \union Range(u)
        BY <1>1, <1>2, <1>5, <2>2, <3>1, <3>2
    <3>4. ASSUME Ordered(c)'
          PROVE  /\ \A i, j \in DOMAIN u : i < j => u[i] < u[j]
                 /\ last[w] # None => \A i \in DOMAIN u : last[w] < u[i]
      <4>1. /\ Ordered(c) /\ \A e \in Range(natural[c]) : e < d
            /\ \A i, j \in DOMAIN s : i < j => s[i] < s[j]
            /\ last[w] # None => \A i \in DOMAIN s : last[w] < s[i]
          BY <1>1, <1>2, <1>5, <2>2, <3>4
      <4>2. \A i \in DOMAIN s : s[i] < d
          BY <1>5, <4>1 DEF Range
      <4>3. last[w] # None => last[w] < d
          BY <1>5, <4>1
      <4>4. ASSUME NEW i \in DOMAIN u, NEW j \in DOMAIN u, i < j PROVE u[i] < u[j]
        <5>1. i \in DOMAIN s
          <6>1. i = Len(s) + 1 => FALSE
            <7>1. j \in Nat /\ j <= Len(s) + 1
                BY <3>1
            <7> QED
                BY <3>1, <4>4, <7>1
          <6> QED
              BY <3>1, <6>1
        <5>2. CASE j \in DOMAIN s
            BY <3>1, <4>1, <4>4, <5>1, <5>2
        <5>3. CASE j \notin DOMAIN s
            BY <3>1, <4>2, <5>1, <5>3
        <5> QED
            BY <5>2, <5>3
      <4>5. last[w] # None => \A i \in DOMAIN u : last[w] < u[i]
          BY <3>1, <4>1, <4>3
      <4> QED
          BY <4>4, <4>5
    <3> QED
        BY <2>2, <3>3, <3>4 DEF u
  <2> QED
      BY <1>3, <2>1, <2>2
<1>8. last[w] # None => last[w] \in Range(natural'[c])
    BY <1>1, <1>2, <1>5
<1>9. W \subseteq Stored' /\ (Ordered(c)' => Ordered(c))
    BY <1>1, <1>2, <1>5
<1> HIDE DEF s, W
<1> QED
    BY <1>0, <1>4, <1>7, <1>8, <1>9 DEF Streamed, W

\* A document that is stored while the export runs is in no plan of it.
LEMMA StoreContent ==
  ASSUME ExportInv, ContentInv, NEW d \in Docs, Store(d), basis' = basis
  PROVE  ContentInv'
<1> USE DEF outcome, command
<1>0. ExportTypes /\ Shape /\ Planned /\ Homes /\ WrittenInv /\ Served
    BY DEF ExportInv, ContentInv
<1>1. /\ d \notin Stored
      /\ natural' = [natural EXCEPT ![CollOf[d]] = Append(@, d)]
      /\ UNCHANGED <<remote, files, objects, xpc, jobs, members, started, wpc, job, source,
                     last, counter, broken, doneJobs>>
    BY DEF Store
<1>2. /\ \A c \in Colls : IsInjective(natural'[c])
      /\ \A c \in Colls : natural[c] # <<>> => natural'[c] # <<>>
      /\ Stored \subseteq Stored'
      /\ \A c \in Colls : Ordered(c)' => Ordered(c)
    BY <1>0, <1>1, StoreScan
<1>3. Planned'
  <2>1. ASSUME xpc = "running", NEW g \in Range(SqlFiles), NEW i \in DOMAIN members[g]
        PROVE  natural'[members[g][i]] # <<>>
    <3>1. members[g][i] \in Colls
        BY <1>0 DEF Shape, MembersOK
    <3> QED
        BY <1>0, <1>2, <2>1, <3>1 DEF Planned
  <2> QED
      BY <1>0, <1>1, <1>2, <2>1 DEF Planned
<1>4. Homes'
  <2>1. \A g : Mem(g) \subseteq Mem(g)'
      BY <1>1, <1>2 DEF Mem
  <2> QED
      BY <1>0, <1>1, <2>1 DEF Homes
<1>5. WrittenInv'
  <2>1. SUFFICES ASSUME xpc = "running", Sane' PROVE
        /\ \A v \in Workers : wpc'[v] \in {"find", "fetch"} => Streamed(v)'
        /\ \A v \in Workers : wpc'[v] = "upload" => remote' /\ Ready(job[v])'
        /\ \A h \in doneJobs' : Ready(h)' /\ (remote' => InDir(DirOf(h))' = {})
      BY <1>1 DEF WrittenInv
  <2>2. Sane
    <3>1. broken \subseteq Colls
        BY <1>0 DEF ExportTypes, ExportTypeOK
    <3> QED
        BY <1>1, <1>2, <2>1, <3>1 DEF Sane
  <2>3. /\ \A v \in Workers : wpc[v] \in {"find", "fetch"} => Streamed(v)
        /\ \A v \in Workers : wpc[v] = "upload" => remote /\ Ready(job[v])
        /\ \A h \in doneJobs : Ready(h) /\ (remote => InDir(DirOf(h)) = {})
      BY <1>0, <2>1, <2>2 DEF WrittenInv
  <2>4. \A h : DirOf(h)' = DirOf(h)
      BY <1>1 DEF DirOf
  <2>5. \A h : Ready(h) => Ready(h)'
      BY <1>1, <2>4, ReadyKept DEF Stays
  <2>6. \A h : InDir(DirOf(h))' = InDir(DirOf(h))
      BY <1>1, <2>4 DEF InDir
  <2>7. \A v \in Workers : wpc'[v] \in {"find", "fetch"} => Streamed(v)'
      BY <1>0, <1>1, <2>1, <2>3, StoreStream
  <2>8. \A v \in Workers : wpc'[v] = "upload" => remote' /\ Ready(job[v])'
    <3> SUFFICES ASSUME NEW v \in Workers, wpc'[v] = "upload", NEW h, h = job[v]
                 PROVE  remote' /\ Ready(job[v])'
        OBVIOUS
    <3>1. remote /\ Ready(h) /\ job'[v] = h
        BY <1>1, <2>3
    <3>2. Ready(h)'
        BY <2>5, <3>1
    <3> QED
        BY <1>1, <3>1, <3>2
  <2> QED
      BY <1>1, <2>3, <2>5, <2>6, <2>7, <2>8
<1>6. Served'
  <2>1. Shared' = Shared
      BY <1>1 DEF Shared
  <2>2. Having' = Having /\ \A t : Pref(t)' = Pref(t)
      BY <2>1 DEF Having, Pref
  <2>3. \A g, r, k : Full(g, r, k)' <=> Full(g, r, k)
      BY DEF Full
  <2> QED
      BY <1>0, <1>1, <2>1, <2>2, <2>3 DEF Served
<1> QED
    BY <1>3, <1>4, <1>5, <1>6 DEF ContentInv

----------------------------------------------------------------------------
(* The end of an export.                                                   *)

\* An import finds for a table of a job that is done what the job has left.
LEMMA Delivered ==
  ASSUME ExportInv, Planned, Homes, GroupsFirst, xpc = "running",
         NEW g \in Range(SqlFiles), g \in Range(jobs), Ready(g),
         remote => InDir(DirOf(g)) = {}, NEW t \in TablesOf(g)
  PROVE  t \in Having /\ Shared[Pref(t)] = Art(g, t)
<1>0. Typed(files) /\ Typed(objects) /\ Typed(Shared) /\ t \in Tables
    BY SqlFacts DEF ExportInv, ExportTypes, Shared
<1> DEFINE q == <<DirOf(g), t>>
<1>1. CASE remote
  <2>1. Shared = objects
      BY <1>1 DEF Shared
  <2>2. q \notin DOMAIN files
      BY <1>1 DEF InDir
  <2>3. <<g, t>> \in DOMAIN objects /\ Art(g, t) = objects[<<g, t>>]
      BY <2>2 DEF Ready, Art
  <2>4. t \in Having
      BY <1>0, <2>1, <2>3 DEF Having
  <2>5. Pref(t) \in DOMAIN objects /\ Pref(t)[2] = t
      BY <1>0, <2>1, <2>4, PrefFacts
  <2>6. Pref(t)[1] = g
      BY <2>5 DEF Homes
  <2>7. Pref(t) = <<g, t>>
    <3>1. Pref(t) \in Path
        BY <1>0, <2>5 DEF Typed
    <3> QED
        BY <2>5, <2>6, <3>1 DEF Path
  <2> QED
      BY <2>1, <2>3, <2>4, <2>7
<1>2. CASE ~remote
  <2>1. Shared = files
      BY <1>2 DEF Shared
  <2>2. q \in DOMAIN files /\ Art(g, t) = files[q]
      BY <1>2 DEF Ready, Art
  <2>3. t \in Having
      BY <1>0, <2>1, <2>2 DEF Having
  <2> DEFINE p == Pref(t)
  <2>4. /\ p \in DOMAIN files /\ p[2] = t
        /\ q # p => Earlier(p, q)
      BY <1>0, <2>1, <2>2, <2>3, PrefFacts
  <2>5. p[1] \in Range(DirOrder) /\ p = <<p[1], t>>
    <3>1. p \in Path
        BY <1>0, <2>4 DEF Typed
    <3> HIDE DEF p
    <3> QED
        BY <2>4, <3>1 DEF Path
  <2> HIDE DEF p
  <2>6. p = q
    <3> SUFFICES ASSUME p[1] # DirOf(g) PROVE FALSE
        BY <2>5
    <3>1. DirAt(p[1]) < DirAt(DirOf(g))
        BY <2>4 DEF Earlier
    <3>2. \/ p[1] \in Mem(g)
          \/ p[1] = g /\ \E c, e \in Mem(g) : c # e
        BY <2>4 DEF Homes
    <3>3. /\ Mem(g) = {members[g][i] : i \in DOMAIN members[g]}
          /\ \A c \in Mem(g) : c \in Colls /\ FileOf[c] = g
          /\ members[g] \in Seq(Colls)
        BY MemFacts
    <3>4. Len(members[g]) # 1
      <4> SUFFICES ASSUME Len(members[g]) = 1 PROVE FALSE
          OBVIOUS
      <4>1. DOMAIN members[g] = {1}
          BY <3>3
      <4>2. Mem(g) = {members[g][1]} /\ DirOf(g) = members[g][1]
          BY <3>3, <4>1 DEF DirOf
      <4> QED
          BY <3>2, <4>2
    <3>5. DirOf(g) = g
        BY <3>4 DEF DirOf
    <3>6. p[1] \in Mem(g) /\ p[1] # g
        BY <3>2, <3>5
    <3>7. DirAt(g) < DirAt(p[1])
        BY <3>3, <3>6 DEF GroupsFirst
    <3>8. DirAt(g) \in Nat /\ DirAt(p[1]) \in Nat
      <4>1. g \in Range(DirOrder)
          BY ArtifactsAssumption
      <4> QED
          BY <2>5, <4>1, DirAtFacts
    <3> QED
        BY <3>1, <3>5, <3>7, <3>8
  <2> QED
      BY <2>1, <2>2, <2>3, <2>6 DEF p
<1> QED
    BY <1>1, <1>2

\* For an SQL file without a job there is nothing.
LEMMA NothingLeft ==
  ASSUME ExportInv, Planned, Homes, xpc = "running", NEW g \in Range(SqlFiles), g \notin Range(jobs)
  PROVE  /\ \A t \in TablesOf(g) : t \notin Having
         /\ \A d \in started : FileOf[CollOf[d]] # g
<1>1. members[g] = <<>>
    BY DEF Planned
<1>2. Mem(g) = {} /\ ToSet(members[g]) = {}
    BY <1>1 DEF Mem, ToSet
<1>3. ASSUME NEW t \in TablesOf(g), t \in Having PROVE FALSE
  <2>1. PICK q \in DOMAIN Shared : q[2] = t
      BY <1>3 DEF Having
  <2>2. q \in DOMAIN files \/ q \in DOMAIN objects
      BY <2>1 DEF Shared
  <2> QED
      BY <1>2, <2>1, <2>2 DEF Homes
<1>4. \A d \in started : FileOf[CollOf[d]] # g
    BY <1>2 DEF Planned
<1> QED
    BY <1>3, <1>4

\* All jobs are done when an export ends without an error.
LEMMA AllDone ==
  ASSUME ExportInv, EndExport, failedJobs = {}
  PROVE  \A g \in Range(jobs) : g \in Range(SqlFiles) /\ g \in doneJobs
<1>1. xpc = "running" /\ \A w \in Workers : wpc[w] = "ended"
    BY DEF EndExport
<1>2. next > Len(jobs)
    BY <1>1, ExportAssumption DEF ExportInv, Accounted
<1>3. jobs \in Seq(Range(SqlFiles)) /\ next \in 1 .. Len(jobs) + 1
    BY DEF ExportInv, ExportTypes, ExportTypeOK
<1>4. \A w \in Workers : job[w] = None
    BY <1>1 DEF ExportInv, Shape
<1> SUFFICES ASSUME NEW g \in Range(jobs) PROVE g \in Range(SqlFiles) /\ g \in doneJobs
    OBVIOUS
<1>5. PICK i \in DOMAIN jobs : jobs[i] = g
    BY DEF Range
<1>6. g \in Range(SqlFiles) /\ i < next
  <2>1. i \in 1 .. Len(jobs) /\ Len(jobs) \in Nat
      BY <1>3
  <2> QED
      BY <1>2, <1>3, <1>5, <2>1
<1>7. g # None
    BY <1>6, ArtifactsAssumption
<1> QED
    BY <1>1, <1>4, <1>5, <1>6, <1>7 DEF ExportInv, Accounted

\* When the command has ended the plan is what the collections are again.
LEMMA OverContent ==
  ASSUME ExportInv, Planned, Homes, NEW pc \in {"ok", "failed", "killed"}, LeaveExport(pc),
         xpc = "running"
  PROVE  Planned' /\ Homes' /\ WrittenInv'
<1>1. /\ xpc' = pc /\ xpc' # "running"
      /\ wpc' = [w \in Workers |-> "ended"] /\ job' = [w \in Workers |-> None]
      /\ last' = [w \in Workers |-> None] /\ counter' = [w \in Workers |-> 0]
      /\ files' = (IF remote THEN <<>> ELSE files) /\ UNCHANGED <<natural, objects>>
    BY DEF LeaveExport
<1>2. Planned'
    BY <1>1 DEF Planned
<1>3. Homes'
  <2>1. \A g \in Range(SqlFiles) : Mem(g) \subseteq Mem(g)'
    <3> SUFFICES ASSUME NEW g \in Range(SqlFiles), NEW i \in DOMAIN members[g]
                 PROVE  /\ members[g][i] \in Colls /\ FileOf[members[g][i]] = g
                        /\ natural[members[g][i]] # <<>>
      <4>1. \A g \in Range(SqlFiles) : Mem(g) = {members[g][i] : i \in DOMAIN members[g]}
          BY MemFacts
      <4> QED
          BY <1>1, <4>1 DEF Mem
    <3>1. members[g][i] \in Colls /\ FileOf[members[g][i]] = g
        BY DEF ExportInv, Shape, MembersOK
    <3> QED
        BY <3>1 DEF Planned
  <2>2. DOMAIN files' \subseteq DOMAIN files /\ DOMAIN objects' = DOMAIN objects
      BY <1>1
  <2> QED
      BY <2>1, <2>2 DEF Homes
<1>4. WrittenInv'
    BY <1>1 DEF WrittenInv
<1> QED
    BY <1>2, <1>3, <1>4

\* An export that has ended without an error leaves for every SQL file either
\* both files, with all that was there when it started, or none.
LEMMA EndServed ==
  ASSUME ExportInv, ContentInv, GroupsFirst, EndExport,
         basis' = IF Sound THEN started ELSE None
  PROVE  Served'
<1>0. Planned /\ Homes /\ WrittenInv /\ xpc = "running"
    BY DEF ContentInv, EndExport
<1>1. CASE ~Sound
    BY <1>1 DEF Served
<1>2. CASE Sound
  <2>1. /\ Sane /\ failedJobs = {} /\ basis' = started
      BY <1>2 DEF Sound, Sane
  <2>2. \A g \in Range(jobs) : g \in Range(SqlFiles) /\ Ready(g) /\ (remote => InDir(DirOf(g)) = {})
      BY <1>0, <2>1, AllDone DEF WrittenInv
  <2>3. \A g \in Range(jobs) : \A t \in TablesOf(g) : t \in Having /\ Shared[Pref(t)] = Art(g, t)
      BY <1>0, <2>2, Delivered
  <2>4. Shared' = Shared
      BY DEF EndExport, LeaveExport, Shared
  <2>5. Having' = Having /\ \A t : Pref(t)' = Pref(t)
      BY <2>4 DEF Having, Pref
  <2>6. started \subseteq Docs
      BY DEF ExportInv, ExportTypes, ExportTypeOK
  <2>7. Having # {}
    <3>1. jobs \in Seq(Range(SqlFiles)) /\ jobs # <<>>
        BY <1>0 DEF Planned, ExportInv, ExportTypes, ExportTypeOK
    <3>2. 1 \in DOMAIN jobs
        BY <3>1
    <3>3. jobs[1] \in Range(jobs)
        BY <3>2 DEF Range
    <3>4. RootOf[jobs[1]] \in Having
        BY <2>3, <3>3 DEF TablesOf
    <3> QED
        BY <3>4
  <2>8. ASSUME NEW g \in Range(SqlFiles)
        PROVE  \/ /\ RootOf[g] \notin Having /\ ChildOf[g] \notin Having
                  /\ \A d \in started : FileOf[CollOf[d]] # g
               \/ /\ RootOf[g] \in Having /\ ChildOf[g] \in Having
                  /\ Shared[Pref(RootOf[g])].whole /\ Shared[Pref(ChildOf[g])].whole
                  /\ Pair(g, Shared[Pref(RootOf[g])].lines, Shared[Pref(ChildOf[g])].lines)
                  /\ \A d \in started : FileOf[CollOf[d]] = g =>
                       d \in DocsOf(Shared[Pref(RootOf[g])].lines)
    <3>1. CASE g \in Range(jobs)
        BY <2>2, <2>3, <3>1 DEF Ready, TablesOf
    <3>2. CASE g \notin Range(jobs)
        BY <1>0, <3>2, NothingLeft DEF TablesOf
    <3> QED
        BY <3>1, <3>2
  <2>9. \A g, r, k : Full(g, r, k)' <=> /\ r.whole /\ k.whole /\ Pair(g, r.lines, k.lines)
                                        /\ \A d \in started : FileOf[CollOf[d]] = g => d \in DocsOf(r.lines)
      BY <2>1 DEF Full
  <2> QED
      BY <2>1, <2>4, <2>5, <2>6, <2>7, <2>8, <2>9 DEF Served
<1> QED
    BY <1>1, <1>2

----------------------------------------------------------------------------
(* The files hold what was there, throughout.                              *)

\* At first there is nothing to find.
LEMMA InitContent ==
  ASSUME Init
  PROVE  ContentInv
<1>1. /\ ExportInit /\ files = <<>> /\ objects = <<>> /\ basis = None
      /\ \A c \in Colls : natural[c] \in ScansOf(c)
    BY DEF Init
<1>2. \A c \in Colls : IsInjective(natural[c])
  <2> SUFFICES ASSUME NEW c \in Colls PROVE IsInjective(natural[c])
      OBVIOUS
  <2> DEFINE S == {d \in FirstDocs : CollOf[d] = c}
             D == 1 .. Cardinality(S)
             s == natural[c]
  <2>1. s \in {f \in [D -> S] : \A i, j \in D : i # j => f[i] # f[j]}
      BY <1>1 DEF ScansOf, SetToSeqs
  <2> HIDE DEF S, D, s
  <2>2. DOMAIN s = D /\ \A i, j \in D : i # j => s[i] # s[j]
      BY <2>1
  <2>3. IsInjective(s)
      BY <2>2 DEF IsInjective
  <2> QED
      BY <2>3 DEF s
<1>3. xpc = "idle" /\ \A w \in Workers : last[w] = None /\ counter[w] = 0
    BY <1>1 DEF ExportInit
<1>4. Planned
    BY <1>2, <1>3 DEF Planned
<1>5. Homes
    BY <1>1 DEF Homes
<1>6. WrittenInv /\ Served
    BY <1>1, <1>3 DEF WrittenInv, Served
<1> QED
    BY <1>4, <1>5, <1>6 DEF ContentInv

\* While no export runs nothing happens to the files.
LEMMA IdleContent ==
  ASSUME ContentInv, xpc # "running", UNCHANGED <<exportVars, basis>>, Still
  PROVE  ContentInv'
<1>0. UNCHANGED <<natural, remote, files, objects, xpc, members, wpc, last, counter, basis>>
    BY DEF exportVars, Still
<1>1. Planned'
    BY <1>0 DEF ContentInv, Planned
<1>2. Homes'
  <2>1. \A g : Mem(g)' = Mem(g)
      BY <1>0 DEF Mem
  <2> QED
      BY <1>0, <2>1 DEF ContentInv, Homes
<1>3. WrittenInv'
    BY <1>0 DEF WrittenInv
<1>4. Served'
  <2>1. Shared' = Shared
      BY <1>0 DEF Shared
  <2>2. Having' = Having /\ \A t : Pref(t)' = Pref(t)
      BY <2>1 DEF Having, Pref
  <2>3. \A g, r, k : Full(g, r, k)' <=> Full(g, r, k)
      BY <1>0 DEF Full
  <2> QED
      BY <1>0, <2>1, <2>2, <2>3 DEF ContentInv, Served
<1> QED
    BY <1>1, <1>2, <1>3, <1>4 DEF ContentInv

\* Each step of an export keeps what the files hold.
LEMMA ExportContent ==
  ASSUME ExportInv, ContentInv, AliasesApart, GroupsFirst, DoExport
  PROVE  ContentInv'
<1>0. Planned /\ Homes /\ WrittenInv /\ Served
    BY DEF ContentInv
<1>1. CASE StartExport
    BY <1>0, <1>1, StartContent DEF ContentInv
<1>2. CASE WorkerStep
  <2>1. PICK w \in Workers : Work(w)
      BY <1>2 DEF WorkerStep, Work
  <2>2. wpc[w] # "ended"
      BY <2>1 DEF Work, TakeJob, NoMoreJobs, OpenCursor, FindFails, Fetch, CursorFails,
                  NextSource, FinishFiles, Upload, UploadFails, AllUploaded
  <2>3. xpc = "running"
      BY <2>2 DEF ExportInv, Shape
  <2>4. xpc' = "running"
      BY <2>1, <2>3, WorkerFrame DEF Work, Frame, ExportInv
  <2>5. Planned' /\ Homes' /\ WrittenInv'
      BY <1>0, <2>1, <2>3, WorkPlanned, WorkHomes, WorkWritten
  <2> QED
      BY <2>4, <2>5 DEF ContentInv, Served
<1>3. CASE (\E d \in Docs : Store(d)) /\ basis' = basis
    BY <1>3, StoreContent
<1>4. CASE EndExport /\ basis' = IF Sound THEN started ELSE None
  <2>1. Planned' /\ Homes' /\ WrittenInv'
      BY <1>0, <1>4, OverContent DEF EndExport
  <2> QED
      BY <1>4, <2>1, EndServed DEF ContentInv
<1>5. CASE KillExport /\ basis' = None
  <2>1. Planned' /\ Homes' /\ WrittenInv'
      BY <1>0, <1>5, OverContent DEF KillExport
  <2> QED
      BY <1>5, <2>1 DEF ContentInv, Served
<1> QED
    BY <1>1, <1>2, <1>3, <1>4, <1>5 DEF DoExport

\* So does every step.
LEMMA NextContent ==
  ASSUME Inv, ContentInv, AliasesApart, GroupsFirst, [Next]_vars
  PROVE  ContentInv'
<1>1. CASE DoExport
    BY <1>1, ExportContent DEF Inv
<1>2. ASSUME NEW p \in Importers, ImportAction(p), UNCHANGED <<exportVars, basis>>, xpc # "running"
      PROVE  ContentInv'
  <2>1. Still
      BY <1>2, ImportStep DEF Inv, exportVars
  <2> QED
      BY <1>2, <2>1, IdleContent
<1>3. CASE DoImport
  <2>1. PICK p \in Importers :
          \/ StageData(p) \/ CheckFile(p) \/ RunDdl(p) \/ Discover(p)
          \/ Copy(p) \/ CommitLoad(p) \/ WriteReport(p) \/ LoseImport(p)
      BY <1>3 DEF DoImport
  <2>2. ipc[p] # "idle"
      BY <2>1 DEF StageData, CheckFile, RunDdl, Discover, Copy, CommitLoad,
             WriteReport, LoseImport
  <2>3. xpc # "running" /\ UNCHANGED <<exportVars, basis>>
      BY <1>3, <2>2 DEF Inv, ImportInv, DoImport
  <2> QED
      BY <1>2, <2>1, <2>3 DEF ImportAction
<1>4. CASE \E p \in Importers : BeginImport(p)
  <2>1. PICK p \in Importers : BeginImport(p)
      BY <1>4
  <2>2. xpc # "running" /\ UNCHANGED <<exportVars, basis>> /\ StartImport(p)
      BY <2>1 DEF BeginImport
  <2> QED
      BY <1>2, <2>2 DEF ImportAction
<1>5. CASE UNCHANGED vars
  <2>1. UNCHANGED <<natural, remote, files, objects, xpc, jobs, members, started, next, wpc, job,
                    source, cursor, last, counter, broken, doneJobs, basis>>
      BY <1>5 DEF vars
  <2>2. Planned'
      BY <2>1 DEF ContentInv, Planned, Stored
  <2>3. Homes'
    <3>1. \A g : Mem(g)' = Mem(g)
        BY <2>1 DEF Mem
    <3> QED
        BY <2>1, <3>1 DEF ContentInv, Homes
  <2>4. WrittenInv'
    <3>1. SUFFICES ASSUME xpc = "running", Sane' PROVE
            /\ \A v \in Workers : wpc'[v] \in {"find", "fetch"} => Streamed(v)'
            /\ \A v \in Workers : wpc'[v] = "upload" => remote' /\ Ready(job[v])'
            /\ \A h \in doneJobs' : Ready(h)' /\ (remote' => InDir(DirOf(h))' = {})
        BY <2>1 DEF WrittenInv
    <3>2. Sane
        BY <2>1, <3>1, SameWorld DEF Sane
    <3>3. /\ \A v \in Workers : wpc[v] \in {"find", "fetch"} => Streamed(v)
          /\ \A v \in Workers : wpc[v] = "upload" => remote /\ Ready(job[v])
          /\ \A h \in doneJobs : Ready(h) /\ (remote => InDir(DirOf(h)) = {})
        BY <3>1, <3>2 DEF ContentInv, WrittenInv
    <3>4. \A h : DirOf(h)' = DirOf(h)
        BY <2>1 DEF DirOf
    <3>5. \A h : Ready(h) => Ready(h)'
        BY <2>1, <3>4, ReadyKept DEF Stays
    <3>6. \A h : InDir(DirOf(h))' = InDir(DirOf(h))
        BY <2>1, <3>4 DEF InDir
    <3>7. \A v \in Workers : wpc'[v] \in {"find", "fetch"} => Streamed(v)'
        BY <2>1, <3>3, StreamedKept
    <3>8. \A v \in Workers : wpc'[v] = "upload" => remote' /\ Ready(job[v])'
      <4> SUFFICES ASSUME NEW v \in Workers, wpc'[v] = "upload", NEW h, h = job[v]
                   PROVE  remote' /\ Ready(job[v])'
          OBVIOUS
      <4>1. remote /\ Ready(h) /\ job'[v] = h
          BY <2>1, <3>3
      <4>2. Ready(h)'
          BY <3>5, <4>1
      <4> QED
          BY <2>1, <4>1, <4>2
    <3> QED
        BY <2>1, <3>3, <3>5, <3>6, <3>7, <3>8
  <2>5. Served'
    <3>1. Shared' = Shared
        BY <2>1 DEF Shared
    <3>2. Having' = Having /\ \A t : Pref(t)' = Pref(t)
        BY <3>1 DEF Having, Pref
    <3>3. \A g, r, k : Full(g, r, k)' <=> Full(g, r, k)
        BY <2>1 DEF Full
    <3> QED
        BY <2>1, <3>1, <3>2, <3>3 DEF ContentInv, Served
  <2> QED
      BY <2>2, <2>3, <2>4, <2>5 DEF ContentInv
<1> QED
    BY <1>1, <1>3, <1>4, <1>5 DEF Next
----------------------------------------------------------------------------
(* What an import finds in the files.                                      *)

\* After a sound export there is no file with an error in it.
LEMMA FilesServed ==
  ASSUME Inv, Served, xpc # "running", basis # None, NEW t \in Having
  PROVE  LET f == Shared[Pref(t)]
         IN  /\ f.whole
             /\ \A i, j \in DOMAIN f.lines : f.lines[i].key = f.lines[j].key => i = j
<1>1. PICK g \in Range(SqlFiles) : t \in TablesOf(g)
    BY SqlFacts DEF Having
<1>2. t = RootOf[g] \/ t = ChildOf[g]
    BY <1>1 DEF TablesOf
<1> DEFINE R == Shared[Pref(RootOf[g])]
           K == Shared[Pref(ChildOf[g])]
<1>3. Full(g, R, K)
    BY <1>1, <1>2 DEF Served
<1> HIDE DEF R, K
<1>4. R.whole /\ \A i, j \in DOMAIN R.lines : R.lines[i].key = R.lines[j].key => i = j
    BY <1>3 DEF Full, Pair
<1>5. K.whole /\ \A i, j \in DOMAIN K.lines : K.lines[i].key = K.lines[j].key => i = j
    BY <1>3 DEF Full, Pair
<1> QED
    BY <1>2, <1>4, <1>5 DEF R, K

\* The rows of a table are the lines of its file.
LEMMA TableRows ==
  ASSUME Typed(Shared), NEW p, NEW r
  PROVE  r \in Copied(p, Len(Plan)) <=>
           \E t \in Having : \E k \in DOMAIN Shared[Pref(t)].lines :
             r = [table |-> t, key |-> Shared[Pref(t)].lines[k].key,
                  doc |-> Shared[Pref(t)].lines[k].doc, by |-> p]
<1>1. /\ DOMAIN Plan = 1 .. Len(Plan) /\ ToSet(Plan) = {Pref(t) : t \in Having}
      /\ \A i \in DOMAIN Plan : Plan[i][2] \in Having /\ Plan[i] = Pref(Plan[i][2])
      /\ \A t \in Having : Pref(t)[2] = t
    BY PlanFacts, PrefFacts
<1>2. ASSUME r \in Copied(p, Len(Plan))
      PROVE  \E t \in Having : \E k \in DOMAIN Shared[Pref(t)].lines :
               r = [table |-> t, key |-> Shared[Pref(t)].lines[k].key,
                    doc |-> Shared[Pref(t)].lines[k].doc, by |-> p]
  <2>1. PICK i \in 1 .. Len(Plan) : r \in PlanLines(p, i)
      BY <1>2 DEF Copied
  <2>2. PICK t \in Having : t = Plan[i][2] /\ Plan[i] = Pref(t)
      BY <1>1
  <2> QED
      BY <2>1, <2>2 DEF PlanLines
<1>3. ASSUME NEW t \in Having, NEW k \in DOMAIN Shared[Pref(t)].lines,
             r = [table |-> t, key |-> Shared[Pref(t)].lines[k].key,
                  doc |-> Shared[Pref(t)].lines[k].doc, by |-> p]
      PROVE  r \in Copied(p, Len(Plan))
  <2>1. PICK i \in 1 .. Len(Plan) : Plan[i] = Pref(t)
      BY <1>1 DEF ToSet
  <2>2. r \in PlanLines(p, i)
      BY <1>1, <1>3, <2>1 DEF PlanLines
  <2> QED
      BY <2>2 DEF Copied
<1> QED
    BY <1>2, <1>3

\* The rows of a sound export are taken when they are committed.
LEMMA KeysServed ==
  ASSUME Inv, Served, xpc # "running", basis # None, NEW p
  PROVE  KeysHold(Copied(p, Len(Plan)))
<1> SUFFICES ASSUME NEW g \in Range(SqlFiles), NEW r \in Copied(p, Len(Plan)),
                    r.table = ChildOf[g]
             PROVE  \E s \in Copied(p, Len(Plan)) : s.table = RootOf[g] /\ s.key = r.doc
    BY DEF KeysHold
<1>0. Typed(Shared)
    BY DEF Inv, ExportInv, ExportTypes, Shared
<1>10. PICK t \in Having : \E k \in DOMAIN Shared[Pref(t)].lines :
         r = [table |-> t, key |-> Shared[Pref(t)].lines[k].key,
              doc |-> Shared[Pref(t)].lines[k].doc, by |-> p]
    BY <1>0, TableRows
<1>1. PICK k \in DOMAIN Shared[Pref(t)].lines :
        r = [table |-> t, key |-> Shared[Pref(t)].lines[k].key,
             doc |-> Shared[Pref(t)].lines[k].doc, by |-> p]
    BY <1>10
<1> DEFINE R == Shared[Pref(RootOf[g])].lines
           K == Shared[Pref(ChildOf[g])].lines
<1>2. t = ChildOf[g] /\ r.doc = K[k].doc /\ k \in DOMAIN K
    BY <1>1
<1>3. RootOf[g] \in Having /\ Pair(g, R, K)
    BY <1>1, <1>2 DEF Served, Full
<1> HIDE DEF K
<1>4. PICK j \in DOMAIN R : R[j].doc = r.doc /\ R[j].key = r.doc
    BY <1>2, <1>3 DEF Pair, DocsOf
<1> DEFINE s == [table |-> RootOf[g], key |-> R[j].key, doc |-> R[j].doc, by |-> p]
<1>5. s \in Copied(p, Len(Plan))
    BY <1>0, <1>3, TableRows
<1>6. s.table = RootOf[g] /\ s.key = r.doc
    BY <1>4
<1> QED
    BY <1>5, <1>6

----------------------------------------------------------------------------
(* An import that runs alone.                                              *)

\* Committed and copied rows are lines of the plan, in tables that exist.
LEMMA RowsLoad ==
  ASSUME Inv, LoadInv, NEW p \in Importers, ImportAction(p), Still, Others(p), Inv'
  PROVE  /\ \A r \in rows' : r \in Copied(r.by, Len(Plan))' /\ r.table \in DOMAIN tables'
         /\ \A v \in Importers : \A r \in tx'[v] : r.table \in DOMAIN tables'
<1>0. /\ ImportTypeOK /\ ImportTypeOK' /\ Progress(p) /\ Progress(p)' /\ Typed(Shared)
      /\ tx \in [Importers -> SUBSET Row]
    BY DEF Inv, ImportInv, ImportTypeOK, ExportInv, ExportTypes, Shared
<1>1. DOMAIN tables \subseteq DOMAIN tables'
  <2>1. \A v, t : Owns(v, t) => Owns(v, t)'
      BY TablesGrow
  <2>2. ASSUME NEW t \in DOMAIN tables PROVE t \in DOMAIN tables'
      BY <2>1 DEF Owns
  <2> QED
      BY <2>2
<1>2. Plan' = Plan /\ \A v, n : Copied(v, n)' = Copied(v, n)
    BY StillFacts
<1>3. \A v : Copied(v, Len(Plan))' = Copied(v, Len(Plan))
  <2> SUFFICES ASSUME NEW v, NEW n, n = Len(Plan')
               PROVE  Copied(v, n)' = Copied(v, Len(Plan))
      BY DEF Copied
  <2> QED
      BY <1>2
<1>4. rows' = rows \/ (ipc[p] = "commit" /\ rows' = rows \union tx[p])
    BY TablesGrow
<1>5. ASSUME ipc[p] = "commit", NEW r \in tx[p]
      PROVE  r \in Copied(r.by, Len(Plan)) /\ r.table \in DOMAIN tables
  <2>1. Plan \in Seq(Path)
      BY <1>0, PlanFacts
  <2>2. tx[p] = Copied(p, nth[p] - 1) /\ nth[p] - 1 = Len(Plan)
      BY <1>0, <1>5, <2>1 DEF Progress
  <2>3. PICK t \in Having : \E k \in DOMAIN Shared[Pref(t)].lines :
          r = [table |-> t, key |-> Shared[Pref(t)].lines[k].key,
               doc |-> Shared[Pref(t)].lines[k].doc, by |-> p]
      BY <1>0, <1>5, <2>2, TableRows
  <2>4. r.by = p
      BY <2>3
  <2> QED
      BY <1>5, <2>2, <2>4 DEF LoadInv
<1>6. \A r \in rows' : r \in Copied(r.by, Len(Plan)) /\ r.table \in DOMAIN tables
    BY <1>4, <1>5 DEF LoadInv
<1>7. ASSUME NEW r \in tx'[p] PROVE r.table \in DOMAIN tables'
  <2>1. CASE r \in tx[p]
      BY <1>1, <2>1 DEF LoadInv
  <2>2. CASE r \notin tx[p]
    <3>1. Copy(p)
      <4>1. StartImport(p) \/ StageData(p) \/ CheckFile(p) \/ RunDdl(p) \/ Discover(p)
              \/ CommitLoad(p) \/ WriteReport(p) \/ LoseImport(p) => tx'[p] \subseteq tx[p]
          BY <1>0 DEF StartImport, StageData, CheckFile, RunDdl, Discover, CommitLoad,
                      WriteReport, LoseImport, End, Leave
      <4> QED
          BY <1>7, <2>2, <4>1 DEF ImportAction
    <3>2. \/ tx'[p] = {}
          \/ /\ tx'[p] = tx[p] \union Lines(p, csvs[p][nth[p]])
             /\ csvs[p][nth[p]][2] \in DOMAIN tables
      <4> DEFINE q == csvs[p][nth[p]]
                 new == Lines(p, q)
                 bad == IF q[2] \notin DOMAIN tables THEN "missing"
                        ELSE IF ~Data(p)[q].whole THEN "gzip"
                        ELSE IF Collides(p, q) THEN "key" ELSE None
      <4>1. \/ bad # None /\ End(p, bad)
            \/ bad = None /\ Load(p, new)
          BY <3>1 DEF Copy
      <4>2. bad = None => q[2] \in DOMAIN tables
          BY ReasonsAssumption DEF Reasons
      <4> HIDE DEF new, bad, q
      <4>3. End(p, bad) => tx'[p] = {}
          BY <1>0 DEF End, Leave
      <4>4. Load(p, new) => tx'[p] = tx[p] \union new
          BY <1>0 DEF Load
      <4> QED
          BY <4>1, <4>2, <4>3, <4>4 DEF new, q
    <3>3. r \in Lines(p, csvs[p][nth[p]]) /\ csvs[p][nth[p]][2] \in DOMAIN tables
        BY <1>7, <2>2, <3>2
    <3>4. r.table = csvs[p][nth[p]][2]
        BY <3>3 DEF Lines
    <3> QED
        BY <1>1, <3>3, <3>4
  <2> QED
      BY <2>1, <2>2
<1>8. \A v \in Importers : \A r \in tx'[v] : r.table \in DOMAIN tables'
    BY <1>1, <1>7 DEF Others, LoadInv
<1> QED
    BY <1>1, <1>3, <1>6, <1>8

\* What a step does to who runs, and to who has run alone.
AloneStep(p) ==
  \/ ~StartImport(p) /\ alone' = alone
  \/ /\ StartImport(p)
     /\ alone' = [q \in Importers |-> IF q = p THEN Running = {}
                                      ELSE alone[q] /\ q \notin Running]

\* An import runs alone until another one begins.
LEMMA AloneLoad ==
  ASSUME Inv, LoadInv, NEW p \in Importers, ImportAction(p), Others(p), AloneStep(p)
  PROVE  /\ alone' \in [Importers -> BOOLEAN]
         /\ \A v \in Importers : Apart(v)'
         /\ \A v \in Importers \ {p} : alone'[v] => alone[v] /\ v \notin Running
<1>0. alone \in [Importers -> BOOLEAN] /\ \A v \in Importers : Apart(v)
    BY DEF LoadInv
<1>1. \A v \in Importers \ {p} : v \in Running' <=> v \in Running
    BY DEF Others, Running
<1>2. CASE ~StartImport(p) /\ alone' = alone
  <2>1. p \in Running
      BY <1>2 DEF ImportAction, StageData, CheckFile, RunDdl, Discover, Copy,
                  CommitLoad, WriteReport, LoseImport, Running, AtRest
  <2>2. ASSUME NEW v \in Importers, alone[v], v \in Running PROVE v = p
      BY <1>0, <2>1, <2>2 DEF Apart
  <2>3. ASSUME NEW v \in Importers, alone'[v], v \in Running' PROVE Running' = {v}
    <3>1. v = p
        BY <1>1, <1>2, <2>2, <2>3
    <3>2. Running = {p}
        BY <1>0, <1>2, <2>1, <2>3, <3>1 DEF Apart
    <3>3. Running' \subseteq Importers
        BY DEF Running
    <3> QED
        BY <1>1, <2>3, <3>1, <3>2, <3>3
  <2> QED
      BY <1>0, <1>2, <2>2, <2>3 DEF Apart
<1>3. CASE /\ StartImport(p)
           /\ alone' = [q \in Importers |-> IF q = p THEN Running = {}
                                            ELSE alone[q] /\ q \notin Running]
  <2>1. alone' \in [Importers -> BOOLEAN]
      BY <1>0, <1>3
  <2>2. \A v \in Importers \ {p} : alone'[v] => alone[v] /\ v \notin Running
      BY <1>3
  <2>3. alone'[p] => Running = {}
      BY <1>3
  <2>4. ASSUME NEW v \in Importers, alone'[v], v \in Running' PROVE Running' = {v}
    <3>1. v = p
        BY <1>1, <2>2, <2>4
    <3>2. Running' \subseteq Importers
        BY DEF Running
    <3> QED
        BY <1>1, <2>3, <2>4, <3>1, <3>2
  <2> QED
      BY <2>1, <2>2, <2>4 DEF Apart
<1> QED
    BY <1>2, <1>3 DEF AloneStep

\* The import that does the step, while it runs alone.
LEMMA FreshSelf ==
  ASSUME Inv, Served, LoadInv, NEW p \in Importers, ImportAction(p), Still, Others(p), Inv',
         xpc # "running", basis' = basis, ~StartImport(p), alone' = alone
  PROVE  Fresh(p)'
<1> USE DEF database
<1>0. /\ ImportTypeOK /\ ImportTypeOK' /\ Progress(p) /\ Progress(p)' /\ Typed(Shared)
      /\ ipc \in [Importers -> Preload \union AtRest \union {"report"}]
      /\ kind \in [Importers -> Kinds] /\ nth \in [Importers -> Nat]
      /\ why \in [Importers -> Reasons \union {None}]
      /\ existing \in [Importers -> SUBSET Tables]
    BY DEF Inv, ImportInv, ImportTypeOK, ExportInv, ExportTypes, Shared
<1>00. None \notin Refusals
    BY ReasonsAssumption DEF Reasons, Refusals
<1>01. kind' = kind
    BY DEF ImportAction, StageData, CheckFile, RunDdl, Discover, Copy, CommitLoad,
           WriteReport, LoseImport
<1>1. SUFFICES ASSUME kind[p] = "import", alone[p]
               PROVE  /\ ipc'[p] = "check" =>
                           \A i \in 1 .. nth'[p] - 1 :
                             TablesOf(SqlFiles[i]) \intersect DOMAIN tables' \subseteq existing'[p]
                      /\ ipc'[p] = "ddl" =>
                           /\ rows' = {}
                           /\ \A i \in nth'[p] .. Len(SqlFiles) :
                                TablesOf(SqlFiles[i]) \intersect DOMAIN tables' = {}
                      /\ ipc'[p] \in {"discover", "copy", "commit"} => rows' = {}
                      /\ basis # None => why'[p] \notin Refusals
    BY <1>01 DEF Fresh
<1>2. /\ ipc[p] = "stage" => remote
      /\ ipc[p] = "check" =>
           \A i \in 1 .. nth[p] - 1 : TablesOf(SqlFiles[i]) \intersect DOMAIN tables \subseteq existing[p]
      /\ ipc[p] = "ddl" =>
           /\ rows = {}
           /\ \A i \in nth[p] .. Len(SqlFiles) : TablesOf(SqlFiles[i]) \intersect DOMAIN tables = {}
      /\ ipc[p] \in {"discover", "copy", "commit"} => rows = {}
      /\ basis # None => why[p] \notin Refusals
  <2>1. Fresh(p) /\ (ipc[p] = "stage" => remote)
      BY DEF LoadInv
  <2> QED
      BY <1>1, <2>1, Zenon DEF Fresh
<1>3. p \in DOMAIN ipc /\ p \in DOMAIN why
    BY <1>0
<1>4. ASSUME NEW reason, End(p, reason), basis # None => reason \notin Refusals
      PROVE  /\ ipc'[p] = "failed" /\ (basis # None => why'[p] \notin Refusals)
    BY <1>3, <1>4 DEF End, Leave
<1>5. ipc'[p] # "failed" => why'[p] \notin Refusals
    BY <1>0, <1>00 DEF Progress
<1>6. SqlFiles # <<>> /\ Len(SqlFiles) \in Nat \ {0}
    BY SqlFacts, ArtifactsAssumption
<1>7. CASE StageData(p)
  <2>1. CASE objects = <<>>
    <3>1. End(p, "nofile")
        BY <1>7, <2>1 DEF StageData
    <3>2. basis = None
      <4>1. Shared = <<>>
          BY <1>2, <1>7, <2>1 DEF StageData, Shared
      <4>2. DOMAIN Shared = {}
          BY <4>1
      <4> QED
          BY <4>2 DEF Served, Having
    <3> QED
        BY <1>4, <3>1, <3>2
  <2>2. CASE objects # <<>>
    <3>1. ipc'[p] = "check" /\ nth'[p] = 1
        BY <1>0, <1>7, <2>2 DEF StageData, Progress
    <3> QED
        BY <1>5, <3>1
  <2> QED
      BY <2>1, <2>2
<1>8. CASE CheckFile(p)
  <2> DEFINE found == FoundBy(p)
             more == nth[p] < Len(SqlFiles)
  <2>1. /\ ipc[p] = "check" /\ UNCHANGED <<tables, rows>> /\ nth[p] \in 1 .. Len(SqlFiles)
      BY <1>0, <1>8 DEF CheckFile, Progress
  <2>2. \A i \in 1 .. nth[p] : TablesOf(SqlFiles[i]) \intersect DOMAIN tables \subseteq found
    <3>1. \A i \in 1 .. nth[p] : i \in 1 .. nth[p] - 1 \/ i = nth[p]
        BY <2>1
    <3> QED
        BY <1>2, <2>1, <3>1 DEF FoundBy
  <2>3. CASE End(p, "exists")
    <3>1. "exists" \notin Refusals
        BY DEF Refusals
    <3> QED
        BY <1>4, <2>3, <3>1
  <2>4. CASE /\ more \/ found = {}
             /\ existing' = [existing EXCEPT ![p] = found]
             /\ nth' = [nth EXCEPT ![p] = IF more THEN @ + 1 ELSE 1]
             /\ ipc' = [ipc EXCEPT ![p] = IF more THEN "check" ELSE "ddl"]
    <3> HIDE DEF found
    <3>1. CASE more
      <4>1. ipc'[p] = "check" /\ nth'[p] - 1 = nth[p] /\ existing'[p] = found
          BY <1>0, <2>1, <2>4, <3>1
      <4> QED
          BY <1>5, <2>1, <2>2, <4>1
    <3>2. CASE ~more
      <4>1. ipc'[p] = "ddl" /\ nth'[p] = 1 /\ found = {} /\ nth[p] = Len(SqlFiles)
          BY <1>0, <1>6, <2>1, <2>4, <3>2
      <4>2. \A i \in 1 .. Len(SqlFiles) : TablesOf(SqlFiles[i]) \intersect DOMAIN tables = {}
          BY <2>2, <4>1
      <4>3. \A t \in Tables : \E i \in 1 .. Len(SqlFiles) : t \in TablesOf(SqlFiles[i])
          BY SqlFacts
      <4>4. \A t \in Tables : t \notin DOMAIN tables
          BY <4>2, <4>3
      <4>5. \A r \in rows : r.table \in Tables /\ r.table \in DOMAIN tables
          BY <1>0 DEF LoadInv, ImportTypeOK, Row
      <4>6. rows = {}
          BY <4>4, <4>5
      <4> QED
          BY <1>5, <2>1, <4>1, <4>2, <4>6
    <3> QED
        BY <3>1, <3>2
  <2>5. kind[p] \notin Forced
      BY <1>1 DEF Forced
  <2> QED
      BY <1>8, <2>3, <2>4, <2>5 DEF CheckFile
<1>9. CASE RunDdl(p)
  <2> DEFINE g == SqlFiles[nth[p]]
             more == nth[p] < Len(SqlFiles)
  <2>1. /\ ipc[p] = "ddl" /\ nth[p] \in 1 .. Len(SqlFiles) /\ rows' = rows
        /\ tables' = Executed(p, g)
      BY <1>0, <1>9 DEF RunDdl, Progress
  <2>2. CanCreate(g) /\ ~Reused(p, g) /\ kind[p] \notin Bootstraps
      BY <1>1, <1>2, <2>1 DEF CanCreate, Reused, Forced, Bootstraps
  <2>3. /\ ipc' = [ipc EXCEPT ![p] = IF more THEN "ddl" ELSE "discover"]
        /\ nth' = [nth EXCEPT ![p] = IF more THEN @ + 1 ELSE 1]
      BY <1>9, <2>2 DEF RunDdl
  <2>4. DOMAIN tables' = DOMAIN tables \union TablesOf(g)
      BY <2>1, <2>2 DEF Executed
  <2>5. CASE more
    <3>1. ipc'[p] = "ddl" /\ nth'[p] = nth[p] + 1
        BY <1>0, <2>3, <2>5
    <3>2. ASSUME NEW i \in nth[p] + 1 .. Len(SqlFiles)
          PROVE  TablesOf(SqlFiles[i]) \intersect DOMAIN tables' = {}
      <4>1. i \in 1 .. Len(SqlFiles) /\ i \in nth[p] .. Len(SqlFiles) /\ i # nth[p]
          BY <1>6, <2>1
      <4>2. SqlFiles[i] \in Range(SqlFiles) /\ g \in Range(SqlFiles)
          BY <2>1, <4>1, SqlFacts
      <4>3. SqlFiles[i] # g
        <5>1. IsInjective(SqlFiles) /\ DOMAIN SqlFiles = 1 .. Len(SqlFiles)
            BY SqlFacts, ArtifactsAssumption
        <5> QED
            BY <2>1, <4>1, <5>1 DEF IsInjective
      <4>4. TablesOf(SqlFiles[i]) \intersect TablesOf(g) = {}
          BY <4>2, <4>3, TablesApartFacts
      <4> QED
          BY <1>2, <2>1, <2>4, <4>1, <4>4
    <3> QED
        BY <1>2, <1>5, <2>1, <3>1, <3>2
  <2>6. CASE ~more
    <3>1. ipc'[p] = "discover"
        BY <1>0, <2>3, <2>6
    <3> QED
        BY <1>2, <1>5, <2>1, <3>1
  <2> QED
      BY <2>5, <2>6
<1>10. CASE Discover(p)
  <2>1. ipc[p] = "discover" /\ rows' = rows
      BY <1>10 DEF Discover
  <2>2. CASE Candidates(p) = {}
    <3>1. End(p, "nofile")
        BY <1>10, <2>2 DEF Discover
    <3>2. Having = {}
        BY <2>1, <2>2, DataFacts DEF Inv
    <3>3. basis = None
        BY <3>2 DEF Served
    <3> QED
        BY <1>4, <3>1, <3>3
  <2>3. CASE Candidates(p) # {}
    <3>1. ipc'[p] = "copy"
        BY <1>0, <1>10, <2>3 DEF Discover
    <3> QED
        BY <1>2, <1>5, <2>1, <3>1
  <2> QED
      BY <2>2, <2>3
<1>11. CASE Copy(p)
  <2> DEFINE q == csvs[p][nth[p]]
             f == Shared[q]
             bad == IF q[2] \notin DOMAIN tables THEN "missing"
                    ELSE IF ~Data(p)[q].whole THEN "gzip"
                    ELSE IF Collides(p, q) THEN "key" ELSE None
  <2>1. /\ ipc[p] = "copy" /\ rows = {} /\ rows' = rows
        /\ \/ bad # None /\ End(p, bad)
           \/ /\ bad = None
              /\ ipc' = [ipc EXCEPT ![p] =
                           IF nth[p] = Len(csvs[p]) THEN "commit" ELSE "copy"]
      BY <1>2, <1>11 DEF Copy, Load
  <2>2. basis # None => bad = None
    <3> SUFFICES ASSUME basis # None PROVE bad = None
        OBVIOUS
    <3>1. Data(p) = Shared /\ csvs[p] = Plan /\ nth[p] \in 1 .. Len(Plan)
        BY <1>0, <2>1, DataFacts DEF Inv, Progress
    <3>2. PICK t \in Having : q[2] = t /\ q = Pref(t)
      <4>1. nth[p] \in DOMAIN Plan
          BY <1>0, <3>1, PlanFacts
      <4> QED
          BY <1>0, <3>1, <4>1, PlanFacts
    <3>3. t \in DOMAIN tables
        BY <1>1, <2>1, <3>2 DEF Inv, RowsInv, Owns, Having
    <3>4. f.whole /\ \A i, j \in DOMAIN f.lines : f.lines[i].key = f.lines[j].key => i = j
        BY <3>2, FilesServed
    <3> HIDE DEF q
    <3>5. ~Collides(p, q)
      <4>1. ~\E i, j \in DOMAIN f.lines : i < j /\ f.lines[i].key = f.lines[j].key
        <5> SUFFICES ASSUME NEW i \in DOMAIN f.lines, NEW j \in DOMAIN f.lines,
                            i < j, f.lines[i].key = f.lines[j].key
                     PROVE  FALSE
            OBVIOUS
        <5>1. i = j
            BY <3>4
        <5>2. f \in File
            BY <1>0, <3>2, PrefFacts DEF Typed
        <5>3. f.lines \in Seq(Line)
            BY <5>2 DEF File
        <5>4. i \in Nat
          <6> DEFINE l == f.lines
          <6>1. l \in Seq(Line) /\ i \in DOMAIN l
              BY <5>3
          <6> HIDE DEF l
          <6> QED
              BY <6>1
        <5> QED
            BY <5>1, <5>4
      <4> QED
          BY <2>1, <3>1, <4>1 DEF Collides
    <3> QED
        BY <3>1, <3>2, <3>3, <3>4, <3>5
  <2> HIDE DEF bad, q
  <2>3. CASE bad # None
    <3>1. basis = None /\ End(p, bad)
        BY <2>1, <2>2, <2>3
    <3> QED
        BY <1>4, <3>1
  <2>4. CASE bad = None
    <3>1. ipc'[p] \in {"commit", "copy"}
        BY <1>0, <2>1, <2>4
    <3> QED
        BY <1>5, <2>1, <3>1
  <2> QED
      BY <2>3, <2>4
<1>12. CASE CommitLoad(p)
  <2>1. ipc[p] = "commit" /\ rows = {} /\ tx[p] = Copied(p, Len(Plan))
    <3>1. ipc[p] = "commit" /\ rows = {}
        BY <1>2, <1>12 DEF CommitLoad
    <3>2. Plan \in Seq(Path)
        BY <1>0, PlanFacts
    <3>3. nth[p] - 1 = Len(Plan)
        BY <1>0, <3>1, <3>2 DEF Progress
    <3> QED
        BY <1>0, <3>1, <3>3 DEF Progress
  <2>2. CASE KeysHold(rows \union tx[p])
    <3>1. ipc'[p] = "report"
        BY <1>0, <1>12, <2>2 DEF CommitLoad
    <3> QED
        BY <1>5, <3>1
  <2>3. CASE ~KeysHold(rows \union tx[p])
    <3>1. rows \union tx[p] = Copied(p, Len(Plan))
        BY <2>1
    <3> DEFINE U == rows \union tx[p]
    <3>2. basis = None
      <4>1. ~KeysHold(U)
          BY <2>3
      <4> HIDE DEF U
      <4>2. U = Copied(p, Len(Plan))
          BY <3>1 DEF U
      <4> QED
          BY <4>1, <4>2, KeysServed
    <3>3. End(p, "fk")
        BY <1>12, <2>3 DEF CommitLoad
    <3> QED
        BY <1>4, <3>2, <3>3
  <2> QED
      BY <2>2, <2>3
<1>13. CASE WriteReport(p)
  <2>1. ipc'[p] \in {"done", "failed"} /\ why'[p] \in {None, "report"}
      BY <1>0, <1>13 DEF WriteReport, End, Leave
  <2>2. "report" \notin Refusals
      BY DEF Refusals
  <2> QED
      BY <1>00, <2>1, <2>2
<1>14. CASE LoseImport(p)
  <2>1. End(p, "lost") /\ "lost" \notin Refusals
      BY <1>14 DEF LoseImport, Refusals
  <2> QED
      BY <1>4, <2>1
<1> QED
    BY <1>7, <1>8, <1>9, <1>10, <1>11, <1>12, <1>13, <1>14 DEF ImportAction

\* The importers that do nothing in the step, and the one that starts.
LEMMA ImportLoad ==
  ASSUME Inv, Served, LoadInv, NEW p \in Importers, ImportAction(p), Still, Others(p), Inv',
         xpc # "running", basis' = basis, AloneStep(p)
  PROVE  LoadInv'
<1>1. /\ \A r \in rows' : r \in Copied(r.by, Len(Plan))' /\ r.table \in DOMAIN tables'
      /\ \A v \in Importers : \A r \in tx'[v] : r.table \in DOMAIN tables'
    BY RowsLoad
<1>2. /\ alone' \in [Importers -> BOOLEAN]
      /\ \A v \in Importers : Apart(v)'
      /\ \A v \in Importers \ {p} : alone'[v] => alone[v] /\ v \notin Running
    BY AloneLoad
<1>3. \A v \in Importers : Fresh(v) /\ (ipc[v] = "stage" => remote)
    BY DEF LoadInv
<1>4. ASSUME NEW v \in Importers \ {p} PROVE Fresh(v)' /\ (ipc'[v] = "stage" => remote')
  <2>1. ipc'[v] = ipc[v] /\ kind'[v] = kind[v] /\ why'[v] = why[v] /\ remote' = remote
      BY DEF Others, Still
  <2>2. SUFFICES ASSUME kind[v] = "import", alone'[v] PROVE Fresh(v)'
      BY <1>3, <2>1 DEF Fresh
  <2>3. alone[v] /\ v \notin Running
      BY <1>2, <2>2
  <2>4. ipc[v] \in AtRest
      BY <2>3 DEF Running
  <2>5. ipc[v] \notin {"check", "ddl", "discover", "copy", "commit"}
      BY <2>4 DEF AtRest
  <2>6. basis # None => why[v] \notin Refusals
      BY <1>3, <2>2, <2>3 DEF Fresh
  <2> QED
      BY <2>1, <2>5, <2>6 DEF Fresh
<1>5. Fresh(p)' /\ (ipc'[p] = "stage" => remote')
  <2>0. /\ Progress(p) /\ remote' = remote /\ ImportTypeOK
        /\ ipc \in [Importers -> Preload \union AtRest \union {"report"}]
      BY DEF Inv, ImportInv, Still, ImportTypeOK
  <2>1. CASE StartImport(p)
    <3>1. /\ ipc[p] = "idle" /\ UNCHANGED <<nth, why>>
          /\ ipc'[p] \in {"stage", "check"} /\ (ipc'[p] = "stage" => remote)
        BY <2>0, <2>1 DEF StartImport
    <3>2. nth'[p] = 1 /\ why'[p] = None
        BY <2>0, <3>1 DEF Progress, AtRest
    <3>3. None \notin Refusals
        BY ReasonsAssumption DEF Reasons, Refusals
    <3> QED
        BY <2>0, <3>1, <3>2, <3>3 DEF Fresh
  <2>2. CASE ~StartImport(p)
    <3>1. alone' = alone
        BY <2>2 DEF AloneStep
    <3>2. Fresh(p)'
        BY <2>2, <3>1, FreshSelf
    <3>3. ipc'[p] # "stage"
        BY <2>0, <2>2 DEF ImportAction, StageData, CheckFile, RunDdl, Discover, Copy,
               CommitLoad, WriteReport, LoseImport, End, Leave
    <3> QED
        BY <3>2, <3>3
  <2> QED
      BY <2>1, <2>2
<1>6. \A v \in Importers : Fresh(v)' /\ (ipc'[v] = "stage" => remote')
    BY <1>4, <1>5
<1> QED
    BY <1>1, <1>2, <1>6 DEF LoadInv

\* At first no import has begun.
LEMMA InitLoad ==
  ASSUME Init
  PROVE  LoadInv
<1>1. /\ rows = {} /\ basis = None /\ alone = [p \in Importers |-> TRUE]
      /\ \A p \in Importers : ipc[p] = "idle" /\ tx[p] = {}
    BY DEF Init, ImportInit
<1> QED
    BY <1>1 DEF LoadInv, Apart, Fresh, Running, AtRest

\* Nobody has begun an import: there is nothing to say.
LEMMA IdleLoad ==
  ASSUME Inv, LoadInv, \A p \in Importers : ipc[p] = "idle", UNCHANGED <<importVars, alone>>
  PROVE  LoadInv'
<1>1. UNCHANGED <<tables, rows, ipc, kind, tx, why, alone>>
    BY DEF importVars
<1>2. \A p \in Importers : tx[p] = {} /\ why[p] = None
    BY DEF Inv, ImportInv, Progress, AtRest
<1>3. rows = {}
    BY DEF Inv, ImportInv, ImportTypeOK, RowsInv, Row, Committed
<1>4. None \notin Refusals
    BY ReasonsAssumption DEF Reasons, Refusals
<1> QED
    BY <1>1, <1>2, <1>3, <1>4 DEF LoadInv, Apart, Fresh, Running, AtRest

\* Each step keeps what imports have found and loaded.
LEMMA NextLoad ==
  ASSUME Inv, Served, LoadInv, [Next]_vars, Inv'
  PROVE  LoadInv'
<1>1. CASE DoExport
    BY <1>1, IdleLoad DEF DoExport
<1>2. ASSUME NEW p \in Importers, ImportAction(p), UNCHANGED <<exportVars, basis>>,
             xpc # "running", AloneStep(p)
      PROVE  LoadInv'
  <2>1. Still /\ Others(p)
      BY <1>2, ImportStep DEF Inv, exportVars
  <2> QED
      BY <1>2, <2>1, ImportLoad
<1>3. CASE DoImport
  <2>1. PICK p \in Importers :
          \/ StageData(p) \/ CheckFile(p) \/ RunDdl(p) \/ Discover(p)
          \/ Copy(p) \/ CommitLoad(p) \/ WriteReport(p) \/ LoseImport(p)
      BY <1>3 DEF DoImport
  <2>2. ipc[p] # "idle"
      BY <2>1 DEF StageData, CheckFile, RunDdl, Discover, Copy, CommitLoad,
             WriteReport, LoseImport
  <2>3. xpc # "running" /\ UNCHANGED <<exportVars, basis, alone>>
      BY <1>3, <2>2 DEF Inv, ImportInv, DoImport
  <2>4. ~StartImport(p)
      BY <2>2 DEF StartImport
  <2>5. AloneStep(p) /\ ImportAction(p)
      BY <2>1, <2>3, <2>4 DEF AloneStep, ImportAction
  <2> QED
      BY <1>2, <2>3, <2>5
<1>4. CASE \E p \in Importers : BeginImport(p)
  <2>1. PICK p \in Importers : BeginImport(p)
      BY <1>4
  <2>2. xpc # "running" /\ UNCHANGED <<exportVars, basis>> /\ AloneStep(p) /\ ImportAction(p)
      BY <2>1 DEF BeginImport, AloneStep, ImportAction
  <2> QED
      BY <1>2, <2>2
<1>5. CASE UNCHANGED vars
  <2>1. UNCHANGED <<natural, remote, files, objects, tables, rows, ipc, kind, nth, existing,
                    tx, why, basis, alone>>
      BY <1>5 DEF vars
  <2>2. Plan' = Plan /\ \A v, n : Copied(v, n)' = Copied(v, n)
      BY <2>1, StillFacts DEF Still
  <2>3. \A v : Copied(v, Len(Plan))' = Copied(v, Len(Plan))
    <3> SUFFICES ASSUME NEW v, NEW n, n = Len(Plan')
                 PROVE  Copied(v, n)' = Copied(v, Len(Plan))
        BY DEF Copied
    <3> QED
        BY <2>2
  <2>4. /\ alone' \in [Importers -> BOOLEAN]
        /\ \A r \in rows' : r \in Copied(r.by, Len(Plan))' /\ r.table \in DOMAIN tables'
        /\ \A v \in Importers : \A r \in tx'[v] : r.table \in DOMAIN tables'
        /\ \A v \in Importers : ipc'[v] = "stage" => remote'
      BY <2>1, <2>3 DEF LoadInv
  <2>5. \A v \in Importers : Apart(v)' /\ Fresh(v)'
      BY <2>1 DEF LoadInv, Apart, Fresh, Running
  <2> QED
      BY <2>4, <2>5 DEF LoadInv
<1> QED
    BY <1>1, <1>3, <1>4, <1>5 DEF Next

\* What is loaded, and by whom, throughout.
LEMMA LoadInvariance ==
  ASSUME AliasesApart, GroupsFirst
  PROVE  Spec => [](Inv /\ ContentInv /\ LoadInv)
<1>1. Init => Inv /\ ContentInv /\ LoadInv
    BY InitInv, InitContent, InitLoad
<1>2. Inv /\ ContentInv /\ LoadInv /\ [Next]_vars => (Inv /\ ContentInv /\ LoadInv)'
  <2> SUFFICES ASSUME Inv, ContentInv, LoadInv, [Next]_vars
               PROVE  (Inv /\ ContentInv /\ LoadInv)'
      OBVIOUS
  <2>1. Inv'
      BY NextInv
  <2>2. ContentInv'
      BY NextContent
  <2>3. LoadInv'
      BY <2>1, NextLoad DEF ContentInv
  <2> QED
      BY <2>1, <2>2, <2>3
<1> QED
    BY <1>1, <1>2, PTL DEF Spec

----------------------------------------------------------------------------
(* End to end.                                                             *)

\* What process p has loaded into table t once it has committed.
LEMMA LoadedRows ==
  ASSUME Inv, LoadInv, NEW p \in Importers, ipc[p] = "report", NEW t
  PROVE  Loaded(p, t) =
           IF t \in Having
           THEN {[table |-> t, key |-> Shared[Pref(t)].lines[k].key,
                  doc |-> Shared[Pref(t)].lines[k].doc, by |-> p]
                   : k \in DOMAIN Shared[Pref(t)].lines}
           ELSE {}
<1>1. Typed(Shared)
    BY DEF Inv, ExportInv, ExportTypes, Shared
<1>2. \A r \in rows : r.by = p => r \in Copied(p, Len(Plan))
    BY DEF LoadInv
<1>3. Copied(p, Len(Plan)) \subseteq rows
    BY DEF Inv, RowsInv
<1>4. ASSUME NEW r
      PROVE  r \in Copied(p, Len(Plan)) <=>
               \E u \in Having : \E k \in DOMAIN Shared[Pref(u)].lines :
                 r = [table |-> u, key |-> Shared[Pref(u)].lines[k].key,
                      doc |-> Shared[Pref(u)].lines[k].doc, by |-> p]
    BY <1>1, TableRows
<1>5. ASSUME NEW r
      PROVE  r \in Loaded(p, t) <=> r \in Copied(p, Len(Plan)) /\ r.table = t
  <2>1. r \in Copied(p, Len(Plan)) => r.by = p
      BY <1>4
  <2> QED
      BY <1>2, <1>3, <2>1 DEF Loaded
<1> DEFINE T == IF t \in Having
                THEN {[table |-> t, key |-> Shared[Pref(t)].lines[k].key,
                       doc |-> Shared[Pref(t)].lines[k].doc, by |-> p]
                        : k \in DOMAIN Shared[Pref(t)].lines}
                ELSE {}
<1>6. ASSUME NEW r
      PROVE  r \in T <=>
               /\ t \in Having
               /\ \E k \in DOMAIN Shared[Pref(t)].lines :
                    r = [table |-> t, key |-> Shared[Pref(t)].lines[k].key,
                         doc |-> Shared[Pref(t)].lines[k].doc, by |-> p]
    OBVIOUS
<1> HIDE DEF T
<1>7. ASSUME NEW r PROVE r \in Loaded(p, t) <=> r \in T
    BY <1>4, <1>5, <1>6
<1>8. Loaded(p, t) = T
    BY <1>7
<1> QED
    BY <1>8 DEF T

\* The rows of document d among lines K of table t.
RowsOf(p, t, K, d) ==
  {[table |-> t, key |-> K[i].key, doc |-> K[i].doc, by |-> p] : i \in Places(K, d)}

\* A document has as many lines in a file as it has places there, when no key
\* is there twice.
LEMMA CountRows ==
  ASSUME NEW K \in Seq(Line), NEW t, NEW p, NEW d, NEW m \in Nat, NEW n \in Nat,
         \A i \in DOMAIN K : K[i].key = i, Places(K, d) = m + 1 .. m + n
  PROVE  Cardinality(RowsOf(p, t, K, d)) = n
<1> DEFINE row(i) == [table |-> t, key |-> K[i].key, doc |-> K[i].doc, by |-> p]
           S == m + 1 .. m + n
           T == {row(i) : i \in Places(K, d)}
           f == [i \in S |-> row(i)]
<1>1. IsFiniteSet(S) /\ Cardinality(S) = n
  <2>1. m + 1 \in Int /\ m + n \in Int
      OBVIOUS
  <2>2. /\ IsFiniteSet(S)
        /\ Cardinality(S) = IF m + 1 > m + n THEN 0 ELSE (m + n) - (m + 1) + 1
      BY <2>1, FS_Interval
  <2> QED
      BY <2>2
<1>2. \A i \in S : i \in DOMAIN K /\ K[i].key = i
    BY DEF Places
<1>3. \A i, j \in S : row(i) = row(j) => i = j
  <2> SUFFICES ASSUME NEW i \in S, NEW j \in S, row(i) = row(j) PROVE i = j
      OBVIOUS
  <2>1. row(i).key = K[i].key /\ row(j).key = K[j].key
      OBVIOUS
  <2>2. row(i).key = row(j).key
      OBVIOUS
  <2> HIDE DEF row
  <2> QED
      BY <1>2, <2>1, <2>2
<1> HIDE DEF row, S
<1>4. f \in Bijection(S, T)
  <2>0. Places(K, d) = S
      BY DEF S
  <2>1. f \in [S -> T]
      BY <2>0
  <2>2. \A i, j \in S : f[i] = f[j] => i = j
      BY <1>3
  <2>3. \A r \in T : \E i \in S : f[i] = r
      BY <2>0
  <2> HIDE DEF f, T
  <2>4. DOMAIN f = S
      BY <2>1
  <2>5. f \in Injection(S, T) /\ f \in Surjection(S, T)
      BY <2>1, <2>2, <2>3, <2>4 DEF Injection, Surjection, IsInjective
  <2> QED
      BY <2>5 DEF Bijection
<1>5. ExistsBijection(S, T)
    BY <1>4 DEF ExistsBijection
<1>6. Cardinality(T) = n
    BY <1>1, <1>5, FS_Bijection
<1> QED
    BY <1>6 DEF T, row, RowsOf

\* An import into new tables that commits after a sound export has loaded, for
\* every document that was there when run_export started, its root row and all
\* its child rows, and no document in part: whatever cursors, workers and
\* uploads have failed, and whichever of the files left over from earlier
\* exports discover_csv_files finds besides.
THEOREM LoadedIsExportedCorrect ==
  ASSUME AliasesApart, GroupsFirst
  PROVE  Spec => []LoadedIsExported
<1>1. Inv /\ ContentInv /\ LoadInv => LoadedIsExported
  <2> SUFFICES ASSUME Inv, ContentInv, LoadInv, NEW p \in Importers,
                      ipc[p] = "report", kind[p] = "import", basis # None
               PROVE  LET roots == UNION {Loaded(p, RootOf[g]) : g \in Range(SqlFiles)}
                          kids  == UNION {Loaded(p, ChildOf[g]) : g \in Range(SqlFiles)}
                      IN  /\ basis \subseteq {r.doc : r \in roots}
                          /\ \A r \in roots :
                               Cardinality({k \in kids : k.doc = r.doc}) = KidsOf[r.doc]
      BY DEF LoadedIsExported
  <2> DEFINE roots == UNION {Loaded(p, RootOf[g]) : g \in Range(SqlFiles)}
             kids  == UNION {Loaded(p, ChildOf[g]) : g \in Range(SqlFiles)}
             R(g)  == Shared[Pref(RootOf[g])].lines
             K(g)  == Shared[Pref(ChildOf[g])].lines
             root(g, i) == [table |-> RootOf[g], key |-> R(g)[i].key, doc |-> R(g)[i].doc, by |-> p]
             kid(g, i)  == [table |-> ChildOf[g], key |-> K(g)[i].key, doc |-> K(g)[i].doc, by |-> p]
             Has(g) == RootOf[g] \in Having /\ ChildOf[g] \in Having
  <2>1. xpc # "running" /\ Typed(Shared) /\ Served
      BY DEF Inv, ImportInv, ExportInv, ExportTypes, Shared, ContentInv
  <2>2. \A g \in Range(SqlFiles) :
          /\ Loaded(p, RootOf[g]) = IF RootOf[g] \in Having THEN {root(g, i) : i \in DOMAIN R(g)} ELSE {}
          /\ Loaded(p, ChildOf[g]) = IF ChildOf[g] \in Having THEN {kid(g, i) : i \in DOMAIN K(g)} ELSE {}
      BY LoadedRows
  <2>3. \A g \in Range(SqlFiles) :
          \/ /\ RootOf[g] \notin Having /\ ChildOf[g] \notin Having
             /\ \A d \in basis : FileOf[CollOf[d]] # g
          \/ /\ Has(g) /\ Pair(g, R(g), K(g))
             /\ \A d \in basis : FileOf[CollOf[d]] = g => d \in DocsOf(R(g))
      BY <2>1 DEF Served, Full
  <2>4. \A g \in Range(SqlFiles) : Has(g) => R(g) \in Seq(Line) /\ K(g) \in Seq(Line)
    <3> SUFFICES ASSUME NEW g \in Range(SqlFiles), Has(g)
                 PROVE  R(g) \in Seq(Line) /\ K(g) \in Seq(Line)
        OBVIOUS
    <3>1. Shared[Pref(RootOf[g])] \in File /\ Shared[Pref(ChildOf[g])] \in File
        BY <2>1, PrefFacts DEF Typed
    <3> QED
        BY <3>1 DEF File
  <2> HIDE DEF R, K
  <2>5. basis \subseteq {r.doc : r \in roots}
    <3> SUFFICES ASSUME NEW d \in basis PROVE \E r \in roots : r.doc = d
        OBVIOUS
    <3>1. d \in Docs /\ CollOf[d] \in Colls
        BY <2>1, ArtifactsAssumption DEF Served
    <3> DEFINE g == FileOf[CollOf[d]]
    <3>2. g \in Range(SqlFiles)
        BY <3>1, ArtifactsAssumption
    <3> HIDE DEF g
    <3>3. Has(g) /\ d \in DocsOf(R(g))
        BY <2>3, <3>2 DEF g
    <3>4. PICK i \in DOMAIN R(g) : R(g)[i].doc = d
        BY <3>3 DEF DocsOf
    <3>5. root(g, i) \in Loaded(p, RootOf[g])
        BY <2>2, <3>2, <3>3
    <3>6. root(g, i).doc = d
        BY <3>4
    <3> QED
        BY <3>2, <3>5, <3>6
  <2>6. ASSUME NEW r \in roots
        PROVE  Cardinality({k \in kids : k.doc = r.doc}) = KidsOf[r.doc]
    <3>1. PICK g \in Range(SqlFiles) : r \in Loaded(p, RootOf[g])
        BY <2>6
    <3>2. Has(g) /\ Pair(g, R(g), K(g))
        BY <2>2, <2>3, <3>1
    <3>3. PICK i \in DOMAIN R(g) : r = root(g, i)
        BY <2>2, <3>1, <3>2
    <3> DEFINE d == R(g)[i].doc
    <3>4. r.doc = d /\ d \in DocsOf(R(g)) /\ FileOf[CollOf[d]] = g
        BY <3>2, <3>3 DEF DocsOf, Pair
    <3>5. KidsOf[d] \in Nat
      <4>1. R(g)[i] \in Line
        <5> DEFINE s == R(g)
        <5>1. s \in Seq(Line) /\ i \in DOMAIN s
            BY <2>4, <3>2, <3>3
        <5> HIDE DEF s
        <5>2. s[i] \in Line
            BY <5>1
        <5> QED
            BY <5>2 DEF s
      <4>2. d \in Docs
          BY <4>1 DEF Line
      <4> QED
          BY <4>2, ArtifactsAssumption
    <3> HIDE DEF d
    <3>6. PICK m \in 0 .. Len(K(g)) : Places(K(g), d) = m + 1 .. m + KidsOf[d]
        BY <3>2, <3>4 DEF Pair
    <3>7. m \in Nat
        BY <3>6
    <3>8. \A j \in DOMAIN K(g) : K(g)[j].key = j
        BY <3>2 DEF Pair
    <3> DEFINE T == {kid(g, j) : j \in Places(K(g), d)}
    <3>9. ASSUME NEW k PROVE k \in kids /\ k.doc = d <=> k \in T
      <4>1. ASSUME k \in kids, k.doc = d PROVE k \in T
        <5>1. PICK h \in Range(SqlFiles) : k \in Loaded(p, ChildOf[h])
            BY <4>1
        <5>2. Has(h) /\ Pair(h, R(h), K(h))
            BY <2>2, <2>3, <5>1
        <5>3. PICK j \in DOMAIN K(h) : k = kid(h, j)
            BY <2>2, <5>1, <5>2
        <5>4. K(h)[j].doc = d
            BY <4>1, <5>3
        <5>5. d \in DocsOf(R(h))
            BY <5>2, <5>4 DEF Pair
        <5>6. FileOf[CollOf[d]] = h
            BY <5>2, <5>5 DEF Pair, DocsOf
        <5>7. h = g /\ j \in Places(K(g), d)
            BY <3>4, <5>4, <5>6 DEF Places
        <5> QED
            BY <5>3, <5>7
      <4>2. ASSUME k \in T PROVE k \in kids /\ k.doc = d
        <5>1. PICK j \in DOMAIN K(g) : k = kid(g, j) /\ K(g)[j].doc = d
            BY <4>2 DEF Places
        <5>2. k \in Loaded(p, ChildOf[g])
            BY <2>2, <3>2, <5>1
        <5>3. k.doc = d
            BY <5>1
        <5> QED
            BY <5>2, <5>3
      <4> QED
          BY <4>1, <4>2
    <3>10. Cardinality(T) = KidsOf[d]
      <4> DEFINE s == K(g)
                 t == ChildOf[g]
                 n == KidsOf[d]
      <4>1. s \in Seq(Line) /\ n \in Nat /\ (\A j \in DOMAIN s : s[j].key = j)
              /\ Places(s, d) = m + 1 .. m + n
          BY <2>4, <3>2, <3>5, <3>6, <3>8
      <4>2. T = RowsOf(p, t, s, d)
          BY DEF RowsOf
      <4> HIDE DEF s, t, n, T
      <4>3. Cardinality(RowsOf(p, t, s, d)) = n
          BY <3>7, <4>1, CountRows
      <4>4. Cardinality(T) = n
          BY <4>2, <4>3
      <4> QED
          BY <4>4 DEF n
    <3> HIDE DEF T, kids
    <3>11. {k \in kids : k.doc = d} = T
        BY <3>9
    <3> QED
        BY <3>4, <3>10, <3>11
  <2> QED
      BY <2>5, <2>6
<1> QED
    BY <1>1, LoadInvariance, PTL

\* An import that runs alone after a sound export is not refused for what
\* run_export has written or left behind: it finds the files of all tables, no
\* broken one, no key twice, no child row without its root row, and it creates
\* every table itself.
THEOREM SoundExportLoadsCorrect ==
  ASSUME AliasesApart, GroupsFirst
  PROVE  Spec => []SoundExportLoads
<1>1. Inv /\ ContentInv /\ LoadInv => SoundExportLoads
    BY DEF LoadInv, Fresh, SoundExportLoads, Refusals
<1> QED
    BY <1>1, LoadInvariance, PTL
=============================================================================
