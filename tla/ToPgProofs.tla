----------------------------- MODULE ToPgProofs -----------------------------
(***************************************************************************)
(* Proofs about Infer and ToPg: types, the size of a sample and how often  *)
(* its documents are counted, that no mapping file is lost on its way to   *)
(* the bucket, that no two collections share a table by accident, and that *)
(* the SQL files say in the end what the mapping files say.                *)
(***************************************************************************)
EXTENDS ToPg, SequenceLemmas

----------------------------------------------------------------------------
(* Sampling.                                                               *)

\* The collections are finitely many, and so are their documents.
LEMMA CollectionFacts ==
  /\ IsFiniteSet(Collections)
  /\ \A c \in Collections : Len(Docs[c]) \in Nat /\ c \in Seq(STRING) \ {<<>>}
<1>1. Order \in Seq(Seq(STRING) \ {<<>>})
    BY InferAssumption
<1>2. IsFiniteSet(Collections) /\ Collections \subseteq Seq(STRING) \ {<<>>}
    BY <1>1, ToSetFacts DEF Collections
<1>3. \A c \in Collections : Len(Docs[c]) \in Nat
    BY InferAssumption
<1> QED
    BY <1>2, <1>3

LEMMA OrderSeq == Order \in Seq(Collections)
<1>1. DOMAIN Order = 1 .. Len(Order) /\ Len(Order) \in Nat /\ Order = [i \in DOMAIN Order |-> Order[i]]
    BY InferAssumption
<1>2. \A i \in DOMAIN Order : Order[i] \in Collections
    BY DEF Collections, ToSet
<1> QED
    BY <1>1, <1>2

\* The documents behind the last one, and the first k of them.
LEMMA ChunkFacts ==
  ASSUME NEW c \in Collections, last[c] \in 0 .. Len(Docs[c]),
         processed[c] \in Nat, processed[c] < SampleSize
  PROVE  /\ InChunk(c) \in Nat /\ InChunk(c) <= ChunkSize
         /\ InChunk(c) <= SampleSize - processed[c]
         /\ InChunk(c) <= Len(Docs[c]) - last[c]
         /\ InChunk(c) = 0 => last[c] = Len(Docs[c])
         /\ \A k \in Nat : First(c, k) = {d \in Ids(c) : last[c] < d /\ d <= last[c] + k}
<1> DEFINE N == Len(Docs[c])
           m == last[c]
<1>1. N \in Nat /\ m \in 0 .. N /\ ChunkSize \in Nat \ {0} /\ SampleSize \in Nat \ {0}
    BY CollectionFacts, InferAssumption
<1>2. Following(c) = (m + 1) .. N
    BY <1>1 DEF Following, Ids
<1>3. Cardinality(Following(c)) = N - m
  <2>1. m + 1 \in Int /\ N \in Int
      BY <1>1
  <2>2. Cardinality((m + 1) .. N) = IF m + 1 > N THEN 0 ELSE N - (m + 1) + 1
      BY <2>1, FS_Interval
  <2> QED
      BY <1>1, <1>2, <2>2
<1>4. \A k \in Nat : First(c, k) = {d \in Ids(c) : last[c] < d /\ d <= last[c] + k}
    BY <1>1 DEF First, Following, Ids
<1> QED
    BY <1>1, <1>3, <1>4 DEF InChunk, ThisChunk, Fewest

\* What the functions of the jobs are defined on.
JobDomains ==
  /\ job \in [Collections -> Jobs] /\ cut \in [Collections -> BOOLEAN]
  /\ DOMAIN counted = Collections /\ DOMAIN last = Collections
  /\ DOMAIN processed = Collections /\ DOMAIN attempt = Collections
  /\ DOMAIN refusals = Collections
  /\ faults \in 0 .. MaxFaults

\* How often each document of a collection has been counted.
IsCount(c, n) == n = [d \in Ids(c) |-> n[d]]

\* Nothing of a collection is sampled.
Blank(c) ==
  /\ counted[c] = NoneCounted(c) /\ last[c] = 0 /\ processed[c] = 0
  /\ attempt[c] = 0 /\ refusals[c] = 0 /\ cut[c] = FALSE

\* The chunks up to the last document are counted, once and again for each
\* time one was refused; those behind it as often as theirs was refused.
Chunked(c) ==
  /\ last[c] = processed[c] /\ processed[c] < SampleSize /\ ~cut[c]
  /\ \A d \in Ids(c) :
       /\ d <= last[c] => counted[c][d] \in 1 .. 1 + refusals[c]
       /\ last[c] < d => counted[c][d] \in 0 .. refusals[c]

\* The documents counted.
Sampled(c) == {d \in Ids(c) : counted[c][d] > 0}

\* A sample is read.
Taken(c) ==
  /\ processed[c] <= SampleSize
  /\ \A d \in Ids(c) : counted[c][d] \in 0 .. 1 + refusals[c]
  /\ ~cut[c] => Cardinality(Sampled(c)) >= Fewest(SampleSize, Len(Docs[c]))

Sample(c) ==
  /\ IsCount(c, counted[c])
  /\ last[c] \in 0 .. Len(Docs[c]) /\ processed[c] \in Nat
  /\ attempt[c] \in 0 .. RetryMax /\ refusals[c] \in 0 .. faults
  /\ job[c] \in {"none", "waiting", "sample", "done", "skipped"} => Blank(c)
  /\ job[c] = "chunk" => Chunked(c)
  /\ job[c] = "write" => Taken(c)

\* The jobs of a run.
Sampling ==
  /\ JobDomains
  /\ \A c \in Collections : Sample(c)
  /\ phase # "infer" => \A c \in Collections : job[c] = "none"
  /\ Cardinality(InFlight) <= Workers

\* Only the job of c moves.
OnlyJob(c) ==
  /\ JobDomains' /\ faults <= faults'
  /\ \A e \in Collections \ {c} :
       /\ job'[e] = job[e] /\ counted'[e] = counted[e] /\ last'[e] = last[e]
       /\ processed'[e] = processed[e] /\ attempt'[e] = attempt[e]
       /\ refusals'[e] = refusals[e] /\ cut'[e] = cut[e]

\* A job that is skipped, or done, leaves nothing behind.
LEMMA LeftBlank ==
  ASSUME JobDomains, NEW c \in Collections, faults' \in 0 .. MaxFaults, faults <= faults',
         Skip(c) \/ (job' = [job EXCEPT ![c] = "done"] /\ Leave(c))
  PROVE  /\ OnlyJob(c) /\ Blank(c)' /\ job'[c] \in {"skipped", "done"}
         /\ IsCount(c, counted'[c])
<1>1. /\ OnlyJob(c) /\ job'[c] \in {"skipped", "done"}
    BY DEF OnlyJob, JobDomains, Jobs, Skip, Leave
<1>2. /\ Blank(c)' /\ counted'[c] = NoneCounted(c)
    BY DEF JobDomains, Skip, Leave, Blank, NoneCounted, Ids
<1>3. IsCount(c, NoneCounted(c))
    BY DEF IsCount, NoneCounted
<1> QED
    BY <1>1, <1>2, <1>3

\* A step of a job moves that job only, and counts for a document what a
\* document can count for.
LEMMA JobMoves ==
  ASSUME JobDomains, NEW c \in Collections, Job(c)
  PROVE  /\ OnlyJob(c) /\ phase' = phase
         /\ \/ job[c] \in {"sample", "chunk", "write"}
            \/ job[c] = "waiting" /\ phase = "infer" /\ Cardinality(InFlight) < Workers
<1> USE DEF JobDomains, Jobs
<1>1. CASE StartJob(c)
    BY <1>1 DEF StartJob, OnlyJob, runVars
<1>2. CASE SampleDone(c)
    BY <1>2 DEF SampleDone, OnlyJob, runVars
<1>3. CASE SampleFails(c)
    BY <1>3, InferAssumption DEF SampleFails, OnlyJob, Fault
<1>4. CASE Undecodable(c)
  <2>1. faults' \in 0 .. MaxFaults /\ faults <= faults'
      BY <1>4, InferAssumption DEF Undecodable, Fault
  <2> QED
      BY <1>4, <2>1, LeftBlank DEF Undecodable
<1>5. ASSUME NEW k, NEW n, Advance(c, k, n), faults' \in 0 .. MaxFaults, faults <= faults',
             refusals' = refusals, cut' = cut \/ \E b \in BOOLEAN : cut' = [cut EXCEPT ![c] = b]
      PROVE  OnlyJob(c)
    BY <1>5 DEF Advance, OnlyJob
<1>6. CASE ReadChunk(c)
  <2>1. faults' = faults /\ phase' = phase /\ refusals' = refusals /\ cut' = cut
        /\ Advance(c, InChunk(c), InChunk(c)) /\ job[c] = "chunk"
      BY <1>6 DEF ReadChunk, runVars
  <2> QED
      BY <1>5, <2>1
<1>7. ASSUME NEW k \in 0 .. InChunk(c), CursorBreaks(c, k)
      PROVE  OnlyJob(c) /\ phase' = phase /\ job[c] = "chunk"
  <2>1. /\ faults' \in 0 .. MaxFaults /\ faults <= faults' /\ phase' = phase
        /\ refusals' = refusals /\ Advance(c, k, k) /\ job[c] = "chunk"
        /\ cut' = [cut EXCEPT ![c] = (k = 0)]
      BY <1>7, InferAssumption DEF CursorBreaks, GoOn, Fault
  <2>2. \E b \in BOOLEAN : cut' = [cut EXCEPT ![c] = b]
      BY <2>1
  <2> QED
      BY <1>5, <2>1, <2>2
<1>8. ASSUME NEW k \in 0 .. InChunk(c), CursorRefused(c, k)
      PROVE  OnlyJob(c) /\ phase' = phase /\ job[c] = "chunk"
  <2>1. faults' \in 0 .. MaxFaults /\ faults <= faults' /\ phase' = phase /\ job[c] = "chunk"
      BY <1>8, InferAssumption DEF CursorRefused, Fault
  <2>2. CASE Skip(c)
      BY <2>1, <2>2, LeftBlank
  <2>3. CASE ~Skip(c)
      BY <1>8, <2>1, <2>3 DEF CursorRefused, OnlyJob
  <2> QED
      BY <2>2, <2>3
<1>9. CASE FindFails(c)
    BY <1>9 DEF FindFails, OnlyJob, runVars
<1>10. CASE WriteFiles(c)
  <2>1. /\ faults' \in 0 .. MaxFaults /\ faults <= faults' /\ phase' = phase
        /\ job[c] = "write" /\ job' = [job EXCEPT ![c] = "done"] /\ Leave(c)
      BY <1>10 DEF WriteFiles, runVars
  <2>2. OnlyJob(c)
      BY <2>1, LeftBlank
  <2> QED
      BY <2>1, <2>2
<1>11. CASE WriteFails(c)
    BY <1>11, LeftBlank DEF WriteFails
<1> QED
    BY <1>1, <1>2, <1>3, <1>4, <1>6, <1>7, <1>8, <1>9, <1>10, <1>11 DEF Job, Chunk, Undecodable

\* The number of jobs in flight keeps to its limit.
LEMMA FlightBounded ==
  ASSUME JobDomains, Cardinality(InFlight) <= Workers, NEW c \in Collections, OnlyJob(c),
         \/ job[c] \in {"sample", "chunk", "write"}
         \/ Cardinality(InFlight) < Workers
  PROVE  Cardinality(InFlight') <= Workers
<1>1. InFlight \subseteq Collections /\ IsFiniteSet(InFlight) /\ Cardinality(InFlight) \in Nat
    BY CollectionFacts, CardSub DEF InFlight
<1>2. InFlight' \subseteq InFlight \union {c}
    BY DEF InFlight, OnlyJob
<1>3. Workers \in Nat
    BY InferAssumption
<1>4. IsFiniteSet(InFlight \union {c})
    BY <1>1, FS_AddElement
<1>5. IsFiniteSet(InFlight') /\ Cardinality(InFlight') \in Nat
    BY <1>2, <1>4, CardSub
<1>6. CASE c \in InFlight
  <2>1. InFlight' \subseteq InFlight
      BY <1>2, <1>6
  <2>2. Cardinality(InFlight') <= Cardinality(InFlight)
      BY <1>1, <2>1, CardSub
  <2> QED
      BY <1>1, <1>3, <1>5, <2>2
<1>7. CASE c \notin InFlight
  <2>1. Cardinality(InFlight) < Workers
      BY <1>7 DEF InFlight
  <2>2. Cardinality(InFlight') <= Cardinality(InFlight) + 1
      BY <1>1, <1>2, CardAdd
  <2> QED
      BY <1>1, <1>3, <1>5, <2>1, <2>2
<1> QED
    BY <1>6, <1>7

\* What a job does to its sample.
LEMMA SampleStep ==
  ASSUME JobDomains, NEW c \in Collections, Sample(c), Job(c)
  PROVE  Sample(c)'
<1>0. /\ OnlyJob(c) /\ faults \in Nat /\ faults' \in Nat /\ faults <= faults'
      /\ SampleSize \in Nat \ {0} /\ RetryMax \in Nat
      /\ Len(Docs[c]) \in Nat /\ IsFiniteSet(Ids(c)) /\ Cardinality(Ids(c)) = Len(Docs[c])
  <2>0. Len(Docs[c]) \in Nat /\ SampleSize \in Nat \ {0} /\ RetryMax \in Nat
      BY CollectionFacts, InferAssumption
  <2>1. 1 \in Int /\ Len(Docs[c]) \in Int
      BY <2>0
  <2>2. IsFiniteSet(1 .. Len(Docs[c])) /\ Cardinality(1 .. Len(Docs[c])) = Len(Docs[c])
      BY <2>1, FS_Interval
  <2>3. OnlyJob(c)
      BY JobMoves
  <2>4. faults \in Nat /\ faults' \in Nat /\ faults <= faults'
      BY <2>3 DEF OnlyJob, JobDomains
  <2> QED
      BY <2>0, <2>2, <2>3, <2>4 DEF Ids
<1>1. \* what is left of a sample that is given up or written
      ASSUME Blank(c)', job'[c] \in {"skipped", "done"}, IsCount(c, counted'[c])
      PROVE  Sample(c)'
    BY <1>0, <1>1 DEF Sample, Blank
<1>2. CASE StartJob(c)
  <2>1. Blank(c) /\ job'[c] = "sample"
      BY <1>2 DEF StartJob, Sample, JobDomains
  <2>2. Blank(c)' /\ IsCount(c, counted'[c])
      BY <1>2, <2>1 DEF StartJob, Blank, Sample
  <2> QED
      BY <1>0, <2>1, <2>2 DEF Sample, Blank
<1>3. CASE SampleDone(c)
  <2>1. PICK docs \in SUBSET Ids(c) :
           /\ Cardinality(docs) = Fewest(SampleSize, Len(Docs[c]))
           /\ counted' = [counted EXCEPT ![c] = Count(c, docs)]
      BY <1>3 DEF SampleDone
  <2>2. /\ Blank(c) /\ job[c] = "sample" /\ job'[c] = "write" /\ refusals' = refusals /\ last' = last
        /\ processed' = processed /\ attempt' = attempt /\ cut' = cut
      BY <1>3 DEF SampleDone, Sample, JobDomains
  <2>3. /\ counted'[c] = Count(c, docs)
        /\ \A d \in Ids(c) : counted'[c][d] = IF d \in docs THEN 1 ELSE 0
      BY <2>1, <2>2 DEF Count, Blank, NoneCounted, JobDomains
  <2>4. Sampled(c)' = docs
      BY <2>1, <2>3 DEF Sampled
  <2>5. Fewest(SampleSize, Len(Docs[c])) \in Nat
      BY <1>0 DEF Fewest
  <2>6. Taken(c)'
      BY <1>0, <2>1, <2>2, <2>3, <2>4, <2>5 DEF Taken, Blank
  <2>7. IsCount(c, Count(c, docs))
      BY DEF IsCount, Count
  <2> QED
      BY <1>0, <2>2, <2>3, <2>6, <2>7 DEF Sample, Blank
<1>4. CASE SampleFails(c)
  <2>1. /\ Blank(c) /\ job[c] = "sample" /\ job'[c] = "chunk" /\ refusals' = refusals /\ last' = last
        /\ processed' = processed /\ attempt' = attempt /\ cut' = cut
        /\ counted'[c] = NoneCounted(c)
      BY <1>4 DEF SampleFails, Restarted, Sample, JobDomains
  <2>2. Chunked(c)'
      BY <1>0, <2>1 DEF Chunked, Blank, NoneCounted, Ids
  <2>3. IsCount(c, NoneCounted(c))
      BY DEF IsCount, NoneCounted
  <2> QED
      BY <1>0, <2>1, <2>2, <2>3 DEF Sample, Blank
<1>5. CASE Undecodable(c)
  <2>1. Skip(c)
      BY <1>5 DEF Undecodable
  <2>2. faults' \in 0 .. MaxFaults
      BY <1>0 DEF OnlyJob, JobDomains
  <2> QED
      BY <1>0, <1>1, <2>1, <2>2, LeftBlank
<1>6. ASSUME job[c] = "chunk", NEW k \in 0 .. InChunk(c)
      PROVE  \* the documents of the chunk are counted
             /\ IsCount(c, Count(c, First(c, k)))
             /\ \A d \in Ids(c) :
                  /\ d <= last[c] + k => Count(c, First(c, k))[d] \in 1 .. 1 + refusals[c]
                  /\ d <= last[c] => Count(c, First(c, k))[d] = counted[c][d]
                  /\ d > last[c] => Count(c, First(c, k))[d] \in 0 .. 1 + refusals[c]
                  /\ last[c] + k < d => Count(c, First(c, k))[d] \in 0 .. refusals[c]
  <2>1. Chunked(c) /\ last[c] \in 0 .. Len(Docs[c]) /\ processed[c] \in Nat /\ refusals[c] \in Nat
      BY <1>0, <1>6 DEF Sample
  <2>2. k \in Nat /\ First(c, k) = {d \in Ids(c) : last[c] < d /\ d <= last[c] + k}
      BY <2>1, ChunkFacts DEF Chunked
  <2>3. ASSUME NEW d \in Ids(c)
        PROVE  Count(c, First(c, k))[d]
                 = counted[c][d] + (IF last[c] < d /\ d <= last[c] + k THEN 1 ELSE 0)
      BY <2>2 DEF Count
  <2>4. ASSUME NEW d \in Ids(c)
        PROVE  /\ d <= last[c] => counted[c][d] \in 1 .. 1 + refusals[c]
               /\ last[c] < d => counted[c][d] \in 0 .. refusals[c]
      BY <2>1 DEF Chunked
  <2>5. IsCount(c, Count(c, First(c, k)))
      BY DEF IsCount, Count
  <2>6. \A d \in Ids(c) : d \in Nat
      BY DEF Ids
  <2>7. ASSUME NEW d \in Ids(c)
        PROVE  /\ d <= last[c] + k => Count(c, First(c, k))[d] \in 1 .. 1 + refusals[c]
               /\ d <= last[c] => Count(c, First(c, k))[d] = counted[c][d]
               /\ d > last[c] => Count(c, First(c, k))[d] \in 0 .. 1 + refusals[c]
               /\ last[c] + k < d => Count(c, First(c, k))[d] \in 0 .. refusals[c]
    <3>1. d \in Nat /\ last[c] \in Nat /\ k \in Nat /\ refusals[c] \in Nat
        BY <2>1, <2>2, <2>6
    <3>2. CASE d <= last[c]
      <4>1. Count(c, First(c, k))[d] = counted[c][d] + 0 /\ counted[c][d] \in 1 .. 1 + refusals[c]
          BY <2>3, <2>4, <3>1, <3>2
      <4> QED
          BY <3>1, <3>2, <4>1
    <3>3. CASE last[c] < d /\ d <= last[c] + k
      <4>1. Count(c, First(c, k))[d] = counted[c][d] + 1 /\ counted[c][d] \in 0 .. refusals[c]
          BY <2>3, <2>4, <3>1, <3>3
      <4> QED
          BY <3>1, <3>3, <4>1
    <3>4. CASE last[c] + k < d
      <4>1. Count(c, First(c, k))[d] = counted[c][d] + 0 /\ counted[c][d] \in 0 .. refusals[c]
          BY <2>3, <2>4, <3>1, <3>4
      <4> QED
          BY <3>1, <3>4, <4>1
    <3> QED
        BY <3>1, <3>2, <3>3, <3>4
  <2> QED
      BY <2>5, <2>7
<1>7. ASSUME job[c] = "chunk", NEW k \in 0 .. InChunk(c), Advance(c, k, k), refusals' = refusals,
             k = 0 => cut'[c] \/ InChunk(c) = 0, k > 0 => ~cut'[c]
      PROVE  Sample(c)'
  <2>1. /\ Chunked(c) /\ last[c] \in 0 .. Len(Docs[c]) /\ processed[c] \in Nat /\ refusals[c] \in Nat
        /\ processed[c] < SampleSize /\ last[c] = processed[c] /\ refusals[c] \in 0 .. faults
      BY <1>0, <1>7 DEF Sample, Chunked
  <2>2. /\ InChunk(c) \in Nat /\ InChunk(c) <= SampleSize - processed[c]
        /\ InChunk(c) <= Len(Docs[c]) - last[c]
        /\ InChunk(c) = 0 => last[c] = Len(Docs[c])
      BY <2>1, ChunkFacts
  <2>3. /\ counted'[c] = Count(c, First(c, k)) /\ last'[c] = last[c] + k
        /\ processed'[c] = processed[c] + k /\ attempt'[c] = 0
        /\ job'[c] = IF k = 0 \/ processed[c] + k >= SampleSize THEN "write" ELSE "chunk"
      BY <1>7 DEF Advance, JobDomains
  <2>4. /\ k \in Nat /\ k <= InChunk(c) /\ last'[c] \in 0 .. Len(Docs[c])
        /\ processed'[c] \in Nat /\ processed'[c] <= SampleSize /\ last'[c] = processed'[c]
    <3>1. k \in Nat /\ k <= InChunk(c)
        BY <2>2
    <3> QED
        BY <1>0, <2>1, <2>2, <2>3, <3>1
  <2>5. \A d \in Ids(c) :
          /\ d <= last'[c] => counted'[c][d] \in 1 .. 1 + refusals'[c]
          /\ last'[c] < d => counted'[c][d] \in 0 .. refusals'[c]
      BY <1>6, <1>7, <2>3
  <2>6. CASE job'[c] = "chunk"
    <3>1. processed'[c] < SampleSize /\ ~cut'[c]
        BY <1>0, <1>7, <2>1, <2>3, <2>4, <2>6
    <3>2. Chunked(c)'
        BY <2>4, <2>5, <3>1 DEF Chunked
    <3> QED
        BY <1>0, <1>6, <1>7, <2>1, <2>3, <2>4, <2>6, <3>2 DEF Sample
  <2>7. CASE job'[c] = "write"
    <3>1. \A d \in Ids(c) : counted'[c][d] \in 0 .. 1 + refusals'[c]
      <4>1. refusals'[c] \in Nat /\ \A d \in Ids(c) : d \in Nat
          BY <1>7, <2>1 DEF Ids
      <4> QED
          BY <2>4, <2>5, <4>1
    <3>2. Cardinality(Sampled(c)') >= last'[c]
      <4>1. 1 .. last'[c] \subseteq Sampled(c)'
        <5>1. \A d \in 1 .. last'[c] : d \in Ids(c) /\ d <= last'[c]
            BY <1>0, <2>4 DEF Ids
        <5>2. \A d \in 1 .. last'[c] : counted'[c][d] > 0
            BY <1>7, <2>1, <2>5, <5>1
        <5> QED
            BY <5>1, <5>2 DEF Sampled
      <4>2. IsFiniteSet(Sampled(c)')
          BY <1>0, CardSub DEF Sampled
      <4>3. Cardinality(1 .. last'[c]) = last'[c]
        <5>1. 1 \in Int /\ last'[c] \in Int
            BY <2>4
        <5>2. Cardinality(1 .. last'[c]) = IF 1 > last'[c] THEN 0 ELSE last'[c] - 1 + 1
            BY <5>1, FS_Interval
        <5> QED
            BY <2>4, <5>2
      <4>4. /\ Cardinality(1 .. last'[c]) <= Cardinality(Sampled(c)')
            /\ Cardinality(Sampled(c)') \in Nat
          BY <4>1, <4>2, CardSub
      <4> QED
          BY <2>4, <4>3, <4>4
    <3>3. ~cut'[c] => last'[c] >= Fewest(SampleSize, Len(Docs[c]))
        BY <1>0, <1>7, <2>1, <2>2, <2>3, <2>4, <2>7 DEF Fewest
    <3>4. Cardinality(Sampled(c)') \in Nat /\ Fewest(SampleSize, Len(Docs[c])) \in Nat
        BY <1>0, CardSub DEF Sampled, Fewest
    <3>5. Taken(c)'
        BY <2>4, <3>1, <3>2, <3>3, <3>4 DEF Taken
    <3> QED
        BY <1>0, <1>6, <1>7, <2>1, <2>3, <2>4, <2>7, <3>5 DEF Sample
  <2> QED
      BY <2>3, <2>6, <2>7
<1>8. CASE ReadChunk(c)
  <2>1. /\ job[c] = "chunk" /\ Advance(c, InChunk(c), InChunk(c)) /\ refusals' = refusals
        /\ cut' = cut
      BY <1>8 DEF ReadChunk
  <2>2. ~cut[c] /\ InChunk(c) \in 0 .. InChunk(c)
    <3>1. Chunked(c) /\ last[c] \in 0 .. Len(Docs[c]) /\ processed[c] \in Nat
        BY <2>1 DEF Sample
    <3>2. InChunk(c) \in Nat
        BY <3>1, ChunkFacts DEF Chunked
    <3> QED
        BY <3>1, <3>2 DEF Chunked
  <2> QED
      BY <1>7, <2>1, <2>2
<1>9. ASSUME NEW k \in 0 .. InChunk(c), CursorBreaks(c, k) PROVE Sample(c)'
  <2>1. /\ job[c] = "chunk" /\ Advance(c, k, k) /\ refusals' = refusals
        /\ cut' = [cut EXCEPT ![c] = (k = 0)] /\ DOMAIN cut = Collections
      BY <1>9 DEF CursorBreaks, GoOn, JobDomains
  <2>2. (k = 0) = TRUE => cut'[c]
      BY <2>1
  <2>3. (k = 0) = FALSE => ~cut'[c]
      BY <2>1
  <2>4. k = 0 => cut'[c]
      BY <2>2
  <2>5. k > 0 => ~cut'[c]
    <3>1. k > 0 => (k = 0) = FALSE
        OBVIOUS
    <3> QED
        BY <2>3, <3>1
  <2> QED
      BY <1>7, <2>1, <2>4, <2>5
<1>10. ASSUME NEW k \in 0 .. InChunk(c), CursorRefused(c, k) PROVE Sample(c)'
  <2>1. CASE Skip(c)
    <3>1. faults' \in 0 .. MaxFaults
        BY <1>0 DEF OnlyJob, JobDomains
    <3> QED
        BY <1>0, <1>1, <2>1, <3>1, LeftBlank
  <2>2. CASE ~Skip(c)
    <3>1. /\ job[c] = "chunk" /\ faults' = faults + 1 /\ attempt[c] < RetryMax
          /\ counted'[c] = Count(c, First(c, k)) /\ attempt'[c] = attempt[c] + 1
          /\ refusals'[c] = refusals[c] + 1
          /\ job' = job /\ last' = last /\ processed' = processed /\ cut' = cut
        BY <1>10, <2>2 DEF CursorRefused, Fault, MayRetry, JobDomains
    <3>2. Chunked(c) /\ refusals[c] \in 0 .. faults /\ attempt[c] \in 0 .. RetryMax
        BY <3>1 DEF Sample
    <3>3. \A d \in Ids(c) :
            /\ d <= last[c] => counted'[c][d] \in 1 .. 1 + refusals[c]
            /\ last[c] < d => counted'[c][d] \in 0 .. 1 + refusals[c]
        BY <1>6, <3>1, <3>2 DEF Chunked
    <3>4. Chunked(c)'
        BY <1>0, <3>1, <3>2, <3>3 DEF Chunked
    <3>5. attempt'[c] \in 0 .. RetryMax /\ refusals'[c] \in 0 .. faults'
        BY <1>0, <3>1, <3>2
    <3> QED
        BY <1>0, <1>6, <3>1, <3>4, <3>5 DEF Sample
  <2> QED
      BY <2>1, <2>2
<1>11. CASE FindFails(c)
    BY <1>0, <1>11 DEF FindFails, Sample, Chunked, JobDomains, runVars
<1>12. CASE WriteFiles(c) \/ WriteFails(c)
  <2>1. Skip(c) \/ (job' = [job EXCEPT ![c] = "done"] /\ Leave(c))
      BY <1>12 DEF WriteFiles, WriteFails
  <2>2. faults' \in 0 .. MaxFaults
      BY <1>0 DEF OnlyJob, JobDomains
  <2> QED
      BY <1>0, <1>1, <2>1, <2>2, LeftBlank
<1> QED
    BY <1>2, <1>3, <1>4, <1>5, <1>8, <1>9, <1>10, <1>11, <1>12 DEF Job, Chunk


\* Steps that leave the jobs alone.
LEMMA SamplingKept ==
  ASSUME Sampling, UNCHANGED jobVars, faults' \in 0 .. MaxFaults, faults <= faults',
         phase' = phase \/ phase \notin {"idle", "infer"}, phase' = phase \/ phase' # "infer"
  PROVE  Sampling'
<1> USE DEF jobVars
<1>1. JobDomains' /\ (phase' # "infer" => \A c \in Collections : job'[c] = "none")
    BY DEF Sampling, JobDomains
<1>2. ASSUME NEW c \in Collections
      PROVE  Sample(c)'
  <2>1. Sample(c) /\ faults \in Nat
      BY DEF Sampling, JobDomains
  <2>2. Sampled(c)' = Sampled(c) /\ Blank(c)' = Blank(c)
      BY DEF Sampled, Blank, NoneCounted
  <2> QED
      BY <2>1, <2>2 DEF Sample, Chunked, Taken
<1>3. Cardinality(InFlight') <= Workers
    BY DEF Sampling, InFlight
<1> QED
    BY <1>1, <1>2, <1>3 DEF Sampling

\* A process that has ended has forgotten its samples.
LEMMA SamplingForgotten ==
  ASSUME Forget, faults' \in 0 .. MaxFaults
  PROVE  Sampling'
<1>1. ASSUME NEW c \in Collections
      PROVE  Blank(c)' /\ IsCount(c, counted'[c]) /\ job'[c] = "none"
  <2>1. counted'[c] = NoneCounted(c)
      BY DEF Forget
  <2>2. IsCount(c, NoneCounted(c))
      BY DEF IsCount, NoneCounted
  <2> QED
      BY <2>1, <2>2 DEF Forget, Blank, NoneCounted, Ids
<1>2. JobDomains'
  <2>1. job' \in [Collections -> Jobs]
      BY DEF Forget, Jobs
  <2>2. cut' \in [Collections -> BOOLEAN]
      BY DEF Forget
  <2>3. /\ DOMAIN counted' = Collections /\ DOMAIN last' = Collections
        /\ DOMAIN processed' = Collections /\ DOMAIN attempt' = Collections
        /\ DOMAIN refusals' = Collections
      BY DEF Forget
  <2> QED
      BY <2>1, <2>2, <2>3 DEF JobDomains
<1>3. ASSUME NEW c \in Collections
      PROVE  Sample(c)'
  <2>1. Len(Docs[c]) \in Nat /\ RetryMax \in Nat /\ faults' \in Nat
      BY CollectionFacts, InferAssumption
  <2>2. /\ job'[c] = "none" /\ Blank(c)' /\ IsCount(c, counted'[c])
        /\ last'[c] = 0 /\ processed'[c] = 0 /\ attempt'[c] = 0 /\ refusals'[c] = 0
      BY <1>1 DEF Blank
  <2> QED
      BY <2>1, <2>2 DEF Sample
<1>4. Cardinality(InFlight') <= Workers
  <2>1. InFlight' = {}
      BY <1>1 DEF InFlight
  <2> QED
      BY <2>1, FS_EmptySet, InferAssumption
<1> QED
    BY <1>1, <1>2, <1>3, <1>4 DEF Sampling

LEMMA SamplingInit == InferInit => Sampling
<1> SUFFICES ASSUME InferInit
             PROVE  Sampling
    OBVIOUS
<1>1. ASSUME NEW c \in Collections
      PROVE  Blank(c) /\ IsCount(c, counted[c]) /\ job[c] = "none"
  <2>1. counted[c] = NoneCounted(c)
      BY DEF InferInit
  <2>2. IsCount(c, NoneCounted(c))
      BY DEF IsCount, NoneCounted
  <2> QED
      BY <2>1, <2>2 DEF InferInit, Blank
<1>2. JobDomains
  <2>1. job \in [Collections -> Jobs]
      BY DEF InferInit, Jobs
  <2>2. cut \in [Collections -> BOOLEAN] /\ faults \in 0 .. MaxFaults
      BY InferAssumption DEF InferInit
  <2>3. /\ DOMAIN counted = Collections /\ DOMAIN last = Collections
        /\ DOMAIN processed = Collections /\ DOMAIN attempt = Collections
        /\ DOMAIN refusals = Collections
      BY DEF InferInit
  <2> QED
      BY <2>1, <2>2, <2>3 DEF JobDomains
<1>3. ASSUME NEW c \in Collections
      PROVE  Sample(c)
  <2>1. Len(Docs[c]) \in Nat /\ RetryMax \in Nat /\ faults \in Nat
      BY CollectionFacts, InferAssumption DEF InferInit
  <2>2. /\ job[c] = "none" /\ Blank(c) /\ IsCount(c, counted[c])
        /\ last[c] = 0 /\ processed[c] = 0 /\ attempt[c] = 0 /\ refusals[c] = 0
      BY <1>1 DEF Blank
  <2> QED
      BY <2>1, <2>2 DEF Sample
<1>4. Cardinality(InFlight) <= Workers
  <2>1. InFlight = {}
      BY <1>1 DEF InFlight
  <2> QED
      BY <2>1, FS_EmptySet, InferAssumption
<1> QED
    BY <1>1, <1>2, <1>3, <1>4 DEF Sampling

LEMMA SamplingJob ==
  ASSUME Sampling, NEW c \in Collections, Job(c)
  PROVE  Sampling'
<1>1. JobDomains /\ Sample(c) /\ Cardinality(InFlight) <= Workers
    BY DEF Sampling
<1>2. /\ OnlyJob(c) /\ phase' = phase
      /\ \/ job[c] \in {"sample", "chunk", "write"}
         \/ Cardinality(InFlight) < Workers
    BY <1>1, JobMoves
<1>3. Sample(c)'
    BY <1>1, SampleStep
<1>4. ASSUME NEW e \in Collections, e # c
      PROVE  Sample(e)'
  <2>1. /\ job'[e] = job[e] /\ counted'[e] = counted[e] /\ last'[e] = last[e]
        /\ processed'[e] = processed[e] /\ attempt'[e] = attempt[e]
        /\ refusals'[e] = refusals[e] /\ cut'[e] = cut[e]
        /\ faults <= faults' /\ faults \in Nat /\ faults' \in Nat
      BY <1>1, <1>2, <1>4 DEF OnlyJob, JobDomains
  <2>2. Sampled(e)' = Sampled(e) /\ Blank(e)' = Blank(e)
      BY <2>1 DEF Sampled, Blank, NoneCounted
  <2>3. Sample(e) /\ Chunked(e)' = Chunked(e) /\ Taken(e)' = Taken(e)
      BY <2>1, <2>2 DEF Sampling, Chunked, Taken
  <2> QED
      BY <2>1, <2>2, <2>3 DEF Sample
<1>5. Cardinality(InFlight') <= Workers
    BY <1>1, <1>2, FlightBounded
<1>6. phase = "infer"
  <2>1. job[c] # "none"
    <3>1. phase = "infer" \/ job[c] = "none"
        BY DEF Sampling
    <3>2. job[c] = "waiting" \/ job[c] \in {"sample", "chunk", "write"}
        BY <1>1, JobMoves
    <3> QED
        BY <3>2
  <2> QED
      BY <2>1 DEF Sampling
<1> QED
    BY <1>2, <1>3, <1>4, <1>5, <1>6 DEF Sampling, OnlyJob

LEMMA SamplingBegin ==
  ASSUME Sampling, BeginRun
  PROVE  Sampling'
<1>1. PICK p \in SUBSET Collections :
         job' = [c \in Collections |-> IF c \in p THEN "waiting" ELSE "none"]
    BY DEF BeginRun
<1>2. JobDomains' /\ faults' = faults /\ phase' = "infer" /\ counted' = counted /\ last' = last
      /\ processed' = processed /\ attempt' = attempt /\ refusals' = refusals /\ cut' = cut
    BY <1>1 DEF BeginRun, Sampling, JobDomains, Jobs
<1>3. ASSUME NEW c \in Collections
      PROVE  Sample(c)'
  <2>1. job[c] = "none" /\ Sample(c) /\ job'[c] \in {"waiting", "none"}
      BY <1>1 DEF BeginRun, Sampling
  <2>2. Blank(c)' = Blank(c)
      BY <1>2 DEF Blank, NoneCounted
  <2> QED
      BY <1>2, <2>1, <2>2 DEF Sample
<1>4. Cardinality(InFlight') <= Workers
  <2>1. InFlight' = {}
      BY <1>1 DEF InFlight
  <2> QED
      BY <2>1, FS_EmptySet, InferAssumption
<1> QED
    BY <1>2, <1>3, <1>4 DEF Sampling

\* The jobs and the counters, whatever the command does.
LEMMA SamplingStep == Sampling /\ [Next]_vars => Sampling'
<1> SUFFICES ASSUME Sampling, [Next]_vars
             PROVE  Sampling'
    OBVIOUS
<1>0. faults \in 0 .. MaxFaults /\ MaxFaults \in Nat
    BY InferAssumption DEF Sampling, JobDomains
<1>1. CASE Begin
    BY <1>1, SamplingBegin DEF Begin
<1>2. CASE InferNext
  <2>1. ASSUME NEW c \in Collections, Job(c) PROVE Sampling'
      BY <2>1, SamplingJob
  <2>2. ASSUME NEW c \in Collections, KillWriting(c) PROVE Sampling'
      BY <1>0, <2>2, SamplingForgotten DEF KillWriting, Fault
  <2>3. CASE JobsDone
      BY <1>0, <2>3, SamplingForgotten DEF JobsDone
  <2>4. CASE Move
      BY <1>0, <2>4, SamplingKept DEF Move, MoveDone, Upload, UploadFails, Purge, Fault, runVars
  <2>5. CASE KillInfer
      BY <1>0, <2>5, SamplingForgotten DEF KillInfer, Fault
  <2> QED
      BY <1>2, <2>1, <2>2, <2>3, <2>4, <2>5 DEF InferNext
<1>3. CASE BeginToPg
  <2>1. /\ phase \notin {"idle", "infer"} /\ phase' # "infer" /\ UNCHANGED jobVars
        /\ faults' \in 0 .. MaxFaults /\ faults <= faults'
      BY <1>0, <1>3 DEF BeginToPg
  <2> QED
      BY <2>1, SamplingKept
<1>4. CASE GroupStep
  <2>1. ASSUME NEW g, SkipGroup(g) \/ OpenGroup(g) PROVE Sampling'
      BY <1>0, <2>1, SamplingKept DEF SkipGroup, OpenGroup, runVars
  <2>2. CASE RewriteMember
      BY <1>0, <2>2, SamplingKept DEF RewriteMember, runVars
  <2>3. CASE RewriteFails
      BY <1>0, <2>3, SamplingKept DEF RewriteFails, Fault
  <2>4. CASE GroupsDone
      BY <1>0, <2>4, SamplingKept DEF GroupsDone
  <2> QED
      BY <1>4, <2>1, <2>2, <2>3, <2>4 DEF GroupStep
<1>5. CASE SqlStep
    BY <1>0, <1>5, SamplingKept DEF SqlStep, WriteSql, SqlFails, SqlDone, NextSql, Fault, runVars
<1>6. CASE Publish \/ PublishFails \/ KillToPg
    BY <1>0, <1>6, SamplingKept DEF Publish, PublishFails, KillToPg, Fault
<1>7. CASE UNCHANGED vars
    BY <1>0, <1>7, SamplingKept DEF vars, inferVars, runVars
<1> QED
    BY <1>1, <1>2, <1>3, <1>4, <1>5, <1>6, <1>7 DEF Next, Rest

THEOREM SamplingCorrect == Spec => []Sampling
<1>1. ToPgInit => Sampling
    BY SamplingInit DEF ToPgInit
<1> QED
    BY <1>1, SamplingStep, PTL DEF Spec

\* The statistics of a sample are those of its documents: a document is counted
\* again only for a chunk that was read again (infer.rs, sample_with_chunks).
THEOREM RecountedOnlyByRetriesCorrect == Spec => []RecountedOnlyByRetries
<1>1. Sampling => RecountedOnlyByRetries
  <2> SUFFICES ASSUME Sampling, NEW c \in Collections, NEW d \in Ids(c)
               PROVE  counted[c][d] <= 1 + refusals[c]
      BY DEF RecountedOnlyByRetries
  <2>1. Sample(c) /\ faults \in Nat /\ refusals[c] \in Nat /\ job[c] \in Jobs /\ d \in Nat
      BY DEF Sampling, JobDomains, Sample, Ids
  <2>2. CASE Blank(c)
      BY <2>1, <2>2 DEF Blank, NoneCounted
  <2>3. CASE job[c] = "chunk"
    <3>1. /\ d <= last[c] => counted[c][d] \in 1 .. 1 + refusals[c]
          /\ last[c] < d => counted[c][d] \in 0 .. refusals[c]
          /\ last[c] \in Nat
        BY <2>1, <2>3 DEF Sample, Chunked
    <3> QED
        BY <2>1, <3>1
  <2>4. CASE job[c] = "write"
      BY <2>1, <2>4 DEF Sample, Taken
  <2> QED
      BY <2>1, <2>2, <2>3, <2>4 DEF Sample, Jobs
<1> QED
    BY <1>1, SamplingCorrect, PTL

\* A sample that no error cut short has its size, or is the whole collection
\* (infer.rs, the loop over the chunks).
THEOREM SampleIsFullCorrect == Spec => []SampleIsFull
<1>1. Sampling => SampleIsFull
    BY DEF Sampling, Sample, Taken, Sampled, SampleIsFull
<1> QED
    BY <1>1, SamplingCorrect, PTL

----------------------------------------------------------------------------
(* The names of tables.                                                    *)

\* The name of the n-th field, behind the names in p.
Named(parent, fields, taken, n, p) ==
    Unique(parent, fields[n], FALSE, taken \cup {parent} \cup ToSet(p))

\* What UniqueNames computes, step by step.
LEMMA NamesSteps ==
  ASSUME NEW A, NEW fields \in Seq(A), NEW parent, NEW taken
  PROVE  \E f : /\ UniqueNames(parent, fields, taken) = f[Len(fields)]
                /\ f[0] = <<>>
                /\ \A n \in 1 .. Len(fields) :
                     f[n] = Append(f[n - 1], Named(parent, fields, taken, n, f[n - 1]))
<1> DEFINE
      N == Len(fields)
      U(n, p) == Named(parent, fields, taken, n, p)
      Good(f, m) == f[0] = <<>> /\ \A n \in 1 .. m : f[n] = Append(f[n - 1], U(n, f[n - 1]))
      S == {m \in 0 .. N : \E f : DOMAIN f = 0 .. m /\ Good(f, m)}
      Eq(f) == f = [n \in 0 .. N |-> IF n = 0 THEN <<>> ELSE Append(f[n - 1], U(n, f[n - 1]))]
      g == CHOOSE h : Eq(h)
<1>0. N \in Nat
    OBVIOUS
<1>1. UniqueNames(parent, fields, taken) = g[N]
    BY DEF UniqueNames, Named
<1> HIDE DEF U, N
<1>2. 0 \in S
  <2> DEFINE h == [i \in 0 .. 0 |-> <<>>]
  <2>1. DOMAIN h = 0 .. 0 /\ h[0] = <<>> /\ 1 .. 0 = {} /\ 0 \in 0 .. N
      BY <1>0
  <2> QED
      BY <2>1
<1>3. ASSUME NEW n \in 1 .. N, n - 1 \in S PROVE n \in S
  <2>1. PICK f : DOMAIN f = 0 .. n - 1 /\ Good(f, n - 1)
      BY <1>3
  <2> DEFINE h == [i \in 0 .. n |-> IF i = n THEN Append(f[n - 1], U(n, f[n - 1])) ELSE f[i]]
  <2>2. n \in Nat /\ n \in 0 .. N /\ DOMAIN h = 0 .. n /\ h[0] = <<>>
      BY <1>0, <2>1
  <2>3. ASSUME NEW k \in 1 .. n PROVE h[k] = Append(h[k - 1], U(k, h[k - 1]))
    <3>1. k - 1 \in 0 .. n /\ k - 1 # n /\ k \in 0 .. n /\ h[k - 1] = f[k - 1]
        BY <2>2
    <3>2. CASE k = n
        BY <3>1, <3>2
    <3>3. CASE k # n
      <4>1. k \in 1 .. n - 1 /\ h[k] = f[k]
          BY <2>2, <3>1, <3>3
      <4> QED
          BY <2>1, <3>1, <4>1
    <3> QED
        BY <3>2, <3>3
  <2> QED
      BY <2>2, <2>3
<1>4. N \in S
  <2> HIDE DEF S
  <2>1. 0 .. N \subseteq S
      BY <1>0, <1>2, <1>3, UpTo
  <2> QED
      BY <1>0, <2>1
<1>5. \E h : Eq(h)
  <2>1. PICK f : DOMAIN f = 0 .. N /\ Good(f, N)
      BY <1>4
  <2> DEFINE h == [n \in 0 .. N |-> f[n]]
  <2>2. ASSUME NEW n \in 0 .. N
        PROVE  h[n] = IF n = 0 THEN <<>> ELSE Append(h[n - 1], U(n, h[n - 1]))
    <3>1. CASE n = 0
        BY <1>0, <2>1, <3>1
    <3>2. CASE n # 0
      <4>1. n \in 1 .. N /\ n - 1 \in 0 .. N /\ h[n - 1] = f[n - 1] /\ h[n] = f[n]
          BY <1>0, <3>2
      <4>2. f[n] = Append(f[n - 1], U(n, f[n - 1]))
          BY <2>1, <4>1
      <4> QED
          BY <3>2, <4>1, <4>2
    <3> QED
        BY <3>1, <3>2
  <2> DEFINE k == [n \in 0 .. N |-> IF n = 0 THEN <<>> ELSE Append(h[n - 1], U(n, h[n - 1]))]
  <2>3. DOMAIN h = DOMAIN k /\ h = [n \in DOMAIN h |-> h[n]] /\ k = [n \in DOMAIN k |-> k[n]]
      OBVIOUS
  <2>4. \A n \in DOMAIN h : h[n] = k[n]
      BY <2>2
  <2>5. h = k
    <3> HIDE DEF h, k
    <3> QED
        BY <2>3, <2>4
  <2> QED
      BY <2>5
<1>6. Eq(g)
    BY <1>5
<1> HIDE DEF g
<1>7. ASSUME NEW n \in 0 .. N
      PROVE  g[n] = IF n = 0 THEN <<>> ELSE Append(g[n - 1], U(n, g[n - 1]))
    BY <1>6
<1>8. g[0] = <<>>
  <2>1. 0 \in 0 .. N
      BY <1>0
  <2> QED
      BY <1>7, <2>1
<1>9. ASSUME NEW n \in 1 .. N PROVE g[n] = Append(g[n - 1], U(n, g[n - 1]))
  <2>1. n \in 0 .. N /\ n # 0
      BY <1>0
  <2> QED
      BY <1>7, <2>1
<1> QED
    BY <1>1, <1>8, <1>9 DEF N, U

\* The names before the n-th, and a name that is none of some.
Earlier(names, n) == {names[j] : j \in 1 .. n - 1}
Chosen(parent, field, taken) == Unique(parent, field, FALSE, taken)

NamesOf(names, parent, fields, taken) ==
    \A i \in 1 .. Len(fields) :
        names[i] = Chosen(parent, fields[i], taken \cup {parent} \cup Earlier(names, i))

\* Each field gets a name, looked for behind those of the fields before it.
LEMMA NamesFacts ==
  ASSUME NEW A, NEW fields \in Seq(A), NEW parent, NEW taken
  PROVE  LET names == UniqueNames(parent, fields, taken)
         IN  /\ \E V : names \in Seq(V)
             /\ Len(names) = Len(fields)
             /\ NamesOf(names, parent, fields, taken)
<1> DEFINE
      N == Len(fields)
      U(i, T) == Unique(parent, fields[i], FALSE, taken \cup {parent} \cup T)
      Good(p, n) == /\ \E V : p \in Seq(V)
                    /\ Len(p) = n
                    /\ \A i \in 1 .. n : p[i] = U(i, {p[j] : j \in 1 .. i - 1})
<1>1. PICK f : /\ UniqueNames(parent, fields, taken) = f[N]
               /\ f[0] = <<>>
               /\ \A n \in 1 .. N : f[n] = Append(f[n - 1], Named(parent, fields, taken, n, f[n - 1]))
    BY NamesSteps
<1>2. \A n \in 1 .. N : f[n] = Append(f[n - 1], U(n, ToSet(f[n - 1])))
    BY <1>1 DEF Named
<1>0. N \in Nat
    OBVIOUS
<1> HIDE DEF U, N
<1> DEFINE S == {n \in 0 .. N : Good(f[n], n)}
<1>3. 0 \in S
  <2>1. <<>> \in Seq({}) /\ Len(<<>>) = 0 /\ 1 .. 0 = {} /\ 0 \in 0 .. N
      BY DEF N
  <2> QED
      BY <1>1, <2>1
<1>4. ASSUME NEW n \in 1 .. N, n - 1 \in S PROVE n \in S
  <2> DEFINE p == f[n - 1]   u == U(n, ToSet(p))   q == f[n]
  <2>1. PICK V : p \in Seq(V)
      BY <1>4
  <2>2. n \in Nat /\ n \in 0 .. N /\ Len(p) = n - 1 /\ q = Append(p, u)
        /\ \A i \in 1 .. n - 1 : p[i] = U(i, {p[j] : j \in 1 .. i - 1})
    <3>1. Good(p, n - 1)
        BY <1>4
    <3>2. q = Append(p, u)
        BY <1>2
    <3>3. n \in Nat /\ n \in 0 .. N
        BY <1>0
    <3> QED
        BY <3>1, <3>2, <3>3
  <2> HIDE DEF u, p, q
  <2>3. p \in Seq(V \cup {u})
      BY <2>1
  <2>4. q \in Seq(V \cup {u}) /\ Len(q) = n /\ q[n] = u /\ \A i \in 1 .. n - 1 : q[i] = p[i]
      BY <2>2, <2>3
  <2>5. ToSet(p) = {q[j] : j \in 1 .. n - 1}
    <3>1. DOMAIN p = 1 .. n - 1
        BY <2>1, <2>2
    <3> QED
        BY <2>4, <3>1 DEF ToSet
  <2>6. ASSUME NEW i \in 1 .. n PROVE q[i] = U(i, {q[j] : j \in 1 .. i - 1})
    <3>1. CASE i = n
        BY <2>4, <2>5, <3>1 DEF u
    <3>2. CASE i # n
      <4>1. i \in 1 .. n - 1 /\ \A j \in 1 .. i - 1 : j \in 1 .. n - 1
          BY <2>2, <3>2
      <4>2. {q[j] : j \in 1 .. i - 1} = {p[j] : j \in 1 .. i - 1}
          BY <2>4, <4>1
      <4> QED
          BY <2>2, <2>4, <4>1, <4>2
    <3> QED
        BY <3>1, <3>2
  <2> QED
      BY <2>2, <2>4, <2>6 DEF q
<1>5. Good(f[N], N)
  <2> HIDE DEF S
  <2>1. 0 .. N \subseteq S
      BY <1>0, <1>3, <1>4, UpTo
  <2>2. N \in 0 .. N
      BY <1>0
  <2> QED
      BY <2>1, <2>2 DEF S
<1> QED
    BY <1>1, <1>5 DEF N, U, NamesOf, Chosen, Earlier

\* Firsts picks of a sequence.
LEMMA FirstsType ==
  ASSUME NEW A, NEW s \in Seq(A)
  PROVE  Firsts(s) \in Seq(A)
<1> DEFINE
      I == [i \in 1 .. Len(s) |-> i]
      T == {i \in 1 .. Len(s) : \A j \in 1 .. i - 1 : s[j] # s[i]}
      places == Pick(I, T)
<1>1. I \in Seq(1 .. Len(s))
    OBVIOUS
<1> HIDE DEF I, T
<1>2. places \in Seq(1 .. Len(s))
    BY <1>1, PickProperties
<1>3. Firsts(s) = [k \in DOMAIN places |-> s[places[k]]]
    BY DEF Firsts, I, T
<1> HIDE DEF places
<1>4. DOMAIN places = 1 .. Len(places) /\ Len(places) \in Nat
    BY <1>2
<1>5. \A k \in 1 .. Len(places) : s[places[k]] \in A
    BY <1>2, <1>4
<1> QED
    BY <1>3, <1>4, <1>5

LEMMA ObservedType ==
  ASSUME NEW c \in Collections
  PROVE  Observed(c) \in Seq(Seq(STRING))
<1> DEFINE D == Docs[c]   ss == [d \in Ids(c) |-> IF counted[c][d] > 0 THEN D[d] ELSE <<>>]
<1>1. D \in Seq(Seq(Seq(STRING))) /\ Ids(c) = 1 .. Len(D)
    BY InferAssumption DEF Ids
<1>2. ss \in Seq(Seq(Seq(STRING)))
  <2> DEFINE B == Seq(Seq(STRING))
  <2>1. <<>> \in B /\ D \in Seq(B)
      BY <1>1
  <2> HIDE DEF B, D
  <2>2. Len(D) \in Nat /\ \A d \in 1 .. Len(D) : D[d] \in B
      BY <2>1
  <2>3. ss = [d \in 1 .. Len(D) |-> IF counted[c][d] > 0 THEN D[d] ELSE <<>>]
      BY <1>1
  <2>4. ss \in Seq(B)
      BY <2>1, <2>2, <2>3
  <2> QED
      BY <2>4 DEF B
<1> HIDE DEF ss
<1>3. FlattenSeq(ss) \in Seq(Seq(STRING))
    BY <1>2, FlattenProperties
<1>4. Firsts(FlattenSeq(ss)) \in Seq(Seq(STRING))
    BY <1>3, FirstsType
<1> QED
    BY <1>4 DEF Observed, ss, D

----------------------------------------------------------------------------
(* The files of a collection.                                              *)

IsFile(f) == f = File(f.stem, f.table, f.with, f.whole) /\ f.whole \in BOOLEAN

IsDir(dir) ==
  /\ dir = [json |-> dir.json, files |-> dir.files]
  /\ dir.json \in Jsons
  /\ \A f \in dir.files : IsFile(f)

\* The mapping files a collection gets: its root, and one for each field met.
LEMMA MappingsFacts ==
  ASSUME NEW c \in Collections
  PROVE  /\ Len(Mappings(c)) \in Nat /\ DOMAIN Mappings(c) = 1 .. Len(Mappings(c))
         /\ \A i \in DOMAIN Mappings(c) :
              LET f == Mappings(c)[i]
              IN  IsFile(f) /\ f.whole /\ f.with = plan /\ f.table = f.stem
         /\ Mappings(c) # <<>> =>
              /\ Len(Mappings(c)) = 1 + Len(Observed(c))
              /\ Mappings(c)[1].table = c
              /\ \A i \in 1 .. Len(Observed(c)) :
                   Mappings(c)[i + 1].table
                     = UniqueNames(c, Observed(c), Reserved(c))[i]
<1> DEFINE names == UniqueNames(c, Observed(c), Reserved(c))
           tables == <<c>> \o names
           N == Len(Observed(c))
<1>1. PICK V : names \in Seq(V) /\ Len(names) = N
    BY ObservedType, NamesFacts
<1>2. N \in Nat
    BY ObservedType
<1> HIDE DEF names, N
<1>3. /\ DOMAIN tables = 1 .. 1 + N /\ tables[1] = c
      /\ \A i \in 1 .. N : tables[i + 1] = names[i]
  <2>1. <<c>> \in Seq(V \cup {c}) /\ names \in Seq(V \cup {c}) /\ Len(<<c>>) = 1 /\ <<c>>[1] = c
      BY <1>1
  <2>2. /\ DOMAIN tables = 1 .. 1 + N /\ tables[1] = c
        /\ \A i \in 1 .. N : tables[i + 1] = names[(i + 1) - 1]
      BY <1>1, <1>2, <2>1
  <2> QED
      BY <1>2, <2>2
<1> HIDE DEF tables
<1> DEFINE M == [i \in DOMAIN tables |-> File(tables[i], tables[i], plan, TRUE)]
<1>4. Mappings(c) = <<>> \/ Mappings(c) = M
    BY DEF Mappings, tables, names
<1>5. /\ Len(M) = 1 + N /\ DOMAIN M = 1 .. Len(M)
      /\ \A i \in DOMAIN M : M[i] = File(tables[i], tables[i], plan, TRUE)
    BY <1>2, <1>3
<1> HIDE DEF M
<1>6. ASSUME NEW i \in DOMAIN M
      PROVE  /\ IsFile(M[i]) /\ M[i].whole /\ M[i].with = plan /\ M[i].table = M[i].stem
             /\ M[i].table = tables[i]
  <2> DEFINE x == tables[i]
  <2>1. M[i] = File(x, x, plan, TRUE)
      BY <1>5
  <2> HIDE DEF x
  <2>2. /\ IsFile(File(x, x, plan, TRUE)) /\ File(x, x, plan, TRUE).stem = x
        /\ File(x, x, plan, TRUE).table = x /\ File(x, x, plan, TRUE).with = plan
        /\ File(x, x, plan, TRUE).whole = TRUE
      BY DEF IsFile, File
  <2> QED
      BY <2>1, <2>2 DEF x
<1>7. CASE Mappings(c) = <<>>
    BY <1>7
<1>8. CASE Mappings(c) = M
  <2>1. 1 \in DOMAIN M /\ \A i \in 1 .. N : i + 1 \in DOMAIN M
      BY <1>2, <1>5
  <2>2. /\ M[1].table = c /\ \A i \in 1 .. N : M[i + 1].table = names[i]
      BY <1>3, <1>6, <2>1
  <2> QED
      BY <1>2, <1>5, <1>6, <1>8, <2>2 DEF N, names
<1> QED
    BY <1>4, <1>7, <1>8

\* Writing the artifacts of a collection ends with just its mapping files, and
\* leaves a directory wherever it is broken off.
LEMMA WrittenFacts ==
  ASSUME NEW c \in Collections, IsDir(disk[c])
  PROVE  /\ Written(c, 2 + Len(Mappings(c)))
              = [json |-> Schema(c), files |-> ToSet(Mappings(c))]
         /\ IsDir(Written(c, 2 + Len(Mappings(c))))
         /\ \A n \in 0 .. 1 + Len(Mappings(c)) : IsDir(BrokenOff(c, n))
<1> DEFINE
      new == Mappings(c)
      L == Len(Mappings(c))
      kept(n) == {f \in disk[c].files : n < 2 \/ \E i \in DOMAIN new : new[i].stem = f.stem}
      lim(n) == IF n < 2 THEN 0 ELSE n - 2
      done(n) == {new[i] : i \in 1 .. lim(n)}
      left(n) == done(n) \cup {f \in kept(n) : \A g \in done(n) : g.stem # f.stem}
      json(n) == IF n = 0 THEN disk[c].json ELSE Schema(c)
<1>1. /\ L \in Nat /\ DOMAIN new = 1 .. L
      /\ \A i \in 1 .. L : IsFile(new[i]) /\ new[i].whole
    BY MappingsFacts
<1>2. \A n : Written(c, n) = [json |-> json(n), files |-> left(n)]
    BY DEF Written
<1> HIDE DEF new, L
<1>3. ASSUME NEW n \in 0 .. 2 + L
      PROVE  /\ \A f \in left(n) : IsFile(f)
             /\ json(n) \in Jsons
  <2>1. \A i \in 1 .. lim(n) : i \in 1 .. L
      BY <1>1
  <2>2. \A f \in done(n) : IsFile(f)
      BY <1>1, <2>1
  <2>3. \A f \in kept(n) : IsFile(f)
      BY DEF IsDir
  <2>4. Schema(c) \in Jsons
      BY DEF Schema, Jsons
  <2> QED
      BY <2>2, <2>3, <2>4 DEF IsDir
<1>4. left(2 + L) = {new[i] : i \in 1 .. L} /\ json(2 + L) = Schema(c)
  <2>1. 2 + L # 0 /\ ~(2 + L < 2) /\ 2 + L - 2 = L
      BY <1>1
  <2>2. done(2 + L) = {new[i] : i \in 1 .. L}
    <3> HIDE DEF L
    <3>1. lim(2 + L) = L
        BY <1>1, <2>1
    <3> HIDE DEF lim
    <3> QED
        BY <3>1
  <2>3. \A f \in kept(2 + L) : \E g \in done(2 + L) : g.stem = f.stem
      BY <1>1, <2>1, <2>2
  <2> QED
      BY <2>1, <2>2, <2>3
<1>5. ToSet(new) = {new[i] : i \in 1 .. L}
    BY <1>1 DEF ToSet
<1>6. \A n \in 0 .. 2 + L : IsDir(Written(c, n))
    BY <1>2, <1>3 DEF IsDir
<1>7. ASSUME NEW n \in 0 .. 1 + L
      PROVE  IsDir(BrokenOff(c, n))
  <2> DEFINE dir == Written(c, n)
             torn == File(new[n - 1].stem, new[n - 1].table, new[n - 1].with, FALSE)
  <2>1. n \in 0 .. 2 + L
      BY <1>1
  <2>2. IsDir(dir)
      BY <1>6, <2>1
  <2>3. BrokenOff(c, n) =
          IF n = 0 THEN [dir EXCEPT !.json = "torn"]
          ELSE IF n = 1 THEN dir
               ELSE [dir EXCEPT !.files = {torn} \cup {f \in dir.files : f.stem # new[n - 1].stem}]
      BY DEF BrokenOff, new
  <2> HIDE DEF dir
  <2>4. CASE n = 0
      BY <2>2, <2>3, <2>4 DEF IsDir, Jsons
  <2>5. CASE n = 1
      BY <2>2, <2>3, <2>5
  <2>6. CASE n > 1
    <3>1. n - 1 \in 1 .. L
        BY <1>1, <2>6
    <3>2. IsFile(torn)
        BY DEF IsFile, File
    <3> HIDE DEF torn
    <3>3. \A f \in {torn} \cup {f \in dir.files : f.stem # new[n - 1].stem} : IsFile(f)
        BY <2>2, <3>2 DEF IsDir
    <3> DEFINE F == {torn} \cup {f \in dir.files : f.stem # new[n - 1].stem}
    <3>4. BrokenOff(c, n) = [dir EXCEPT !.files = F] /\ \A f \in F : IsFile(f)
        BY <1>1, <2>3, <2>6, <3>3
    <3> HIDE DEF F
    <3> QED
        BY <2>2, <3>4 DEF IsDir
  <2> QED
      BY <1>1, <2>4, <2>5, <2>6
<1>8. 2 + L \in 0 .. 2 + L
    BY <1>1
<1>9. Written(c, 2 + L) = [json |-> Schema(c), files |-> ToSet(new)]
    BY <1>2, <1>4, <1>5
<1>10. IsDir(Written(c, 2 + L))
    BY <1>6, <1>8
<1> QED
    BY <1>7, <1>9, <1>10 DEF L, new

\* The files of one directory over those of another.
LEMMA OverlayDir ==
  ASSUME NEW old, NEW new, IsDir(old), IsDir(new)
  PROVE  IsDir(Overlay(old, new))
<1> DEFINE F == new.files \cup {f \in old.files : \A g \in new.files : g.stem # f.stem}
           j == IF new.json = "none" THEN old.json ELSE new.json
<1>1. j \in Jsons /\ \A f \in F : IsFile(f)
    BY DEF IsDir
<1>2. Overlay(old, new) = [json |-> j, files |-> F]
    BY DEF Overlay
<1> HIDE DEF F, j
<1> QED
    BY <1>1, <1>2 DEF IsDir

LEMMA NoArtifactsDir == IsDir(NoArtifacts)
  BY DEF IsDir, NoArtifacts, Jsons

\* Rewriting a member changes one of its files, and not its name.
LEMMA RewrittenFacts ==
  ASSUME NEW c, IsDir(Source(c)), Source(c).files # {}, NEW t, NEW b \in BOOLEAN
  PROVE  LET root == RootFile(c)
             file == File(root.stem, t, root.with, b)
         IN  /\ root \in Source(c).files
             /\ Rewritten(c, t, b)
                  = [json |-> Source(c).json, files |-> (Source(c).files \ {root}) \cup {file}]
             /\ IsFile(file) /\ file.stem = root.stem /\ file.table = t /\ file.whole = b
             /\ file.with = root.with
             /\ IsDir(Rewritten(c, t, b)) /\ Rewritten(c, t, b).files # {}
<1> DEFINE root == RootFile(c)
           file == File(root.stem, t, root.with, b)
           F == (Source(c).files \ {root}) \cup {file}
<1>1. root \in Source(c).files
    BY DEF RootFile
<1>2. IsFile(file) /\ file.stem = root.stem /\ file.table = t /\ file.whole = b
      /\ file.with = root.with
    BY DEF IsFile, File
<1>3. Rewritten(c, t, b) = [Source(c) EXCEPT !.files = F]
    BY DEF Rewritten
<1> HIDE DEF root, file
<1>4. \A f \in F : IsFile(f)
    BY <1>2 DEF IsDir
<1>5. F # {}
    OBVIOUS
<1> DEFINE S == Source(c)
<1>6. S = [json |-> S.json, files |-> S.files] /\ S.json \in Jsons
    BY DEF IsDir
<1> HIDE DEF S, F
<1>7. [S EXCEPT !.files = F] = [json |-> S.json, files |-> F]
    BY <1>6
<1>8. Rewritten(c, t, b) = [json |-> S.json, files |-> F]
    BY <1>3, <1>7 DEF S
<1>9. IsDir(Rewritten(c, t, b)) /\ Rewritten(c, t, b).files # {}
    BY <1>4, <1>5, <1>6, <1>8 DEF IsDir
<1> QED
    BY <1>1, <1>2, <1>8, <1>9 DEF F, S, root, file

----------------------------------------------------------------------------
(* The course of a run.                                                    *)

Control ==
  /\ remote \in BOOLEAN /\ runs \in 0 .. MaxRuns
  /\ plan \subseteq Collections /\ warned \in BOOLEAN
  /\ phase \in Phases /\ outcome \in {"none", "ok", "failed"}
  /\ moved \subseteq Collections
  /\ phase \in {"move", "purge", "publish"} => remote
  /\ phase \notin {"move", "purge"} => moved = {}
  /\ groupOf \in [Collections -> SqlNames \cup {<<>>}]
  /\ membersLeft \in Seq(Collections)
  /\ membersLeft # <<>> => phase = "group"

\* A member to be rewritten is a collection, and so is what it leaves.
LEMMA MembersFacts ==
  ASSUME membersLeft \in Seq(Collections), membersLeft # <<>>
  PROVE  /\ Head(membersLeft) \in Collections /\ Tail(membersLeft) \in Seq(Collections)
         /\ 1 \in DOMAIN membersLeft /\ membersLeft[1] = Head(membersLeft)
         /\ \A i \in DOMAIN Tail(membersLeft) :
              i + 1 \in DOMAIN membersLeft /\ Tail(membersLeft)[i] = membersLeft[i + 1]
  OBVIOUS

LEMMA MappedFacts ==
  ASSUME NEW g
  PROVE  /\ Mapped(g) \in Seq(Collections)
         /\ \A i \in DOMAIN Mapped(g) : Source(Mapped(g)[i]).files # {}
<1> DEFINE M == Members(g, HasJson)
           T == {c \in Collections : Source(c).files # {}}
<1>1. Order \in Seq(Collections)
    BY OrderSeq
<1>2. M \in Seq(Collections)
    BY <1>1, PickProperties DEF Members
<1> HIDE DEF M, T
<1>3. Pick(M, T) \in Seq(Collections) /\ ToSet(Pick(M, T)) = ToSet(M) \intersect T
    BY <1>2, PickProperties
<1>4. ASSUME NEW i \in DOMAIN Pick(M, T)
      PROVE  Source(Pick(M, T)[i]).files # {}
  <2>1. Pick(M, T)[i] \in T
      BY <1>3 DEF ToSet
  <2> QED
      BY <2>1 DEF T
<1> QED
    BY <1>3, <1>4 DEF Mapped, M, T

LEMMA ControlInit == ToPgInit => Control
<1> SUFFICES ASSUME ToPgInit
             PROVE  Control
    OBVIOUS
<1>1. groupOf \in [Collections -> SqlNames \cup {<<>>}]
    BY DEF ToPgInit
<1>2. runs \in 0 .. MaxRuns
    BY InferAssumption DEF ToPgInit, InferInit
<1>3. /\ remote \in BOOLEAN /\ plan = {} /\ warned = FALSE /\ phase = "idle" /\ outcome = "none"
      /\ moved = {} /\ membersLeft = <<>>
    BY DEF ToPgInit, InferInit
<1>4. <<>> \in Seq(Collections)
    OBVIOUS
<1> QED
    BY <1>1, <1>2, <1>3, <1>4 DEF Control, Phases

LEMMA ControlStep == Sampling /\ Control /\ [Next]_vars => Control'
<1> SUFFICES ASSUME Sampling, Control, [Next]_vars
             PROVE  Control'
    OBVIOUS
<1> USE DEF Control, Phases
<1>1. CASE Begin
  <2>1. groupOf' \in [Collections -> SqlNames \cup {<<>>}]
      BY <1>1 DEF Begin
  <2>2. runs' \in 0 .. MaxRuns
      BY <1>1, InferAssumption DEF Begin, BeginRun
  <2> QED
      BY <1>1, <2>1, <2>2 DEF Begin, BeginRun, fileVars
<1>2. CASE InferNext /\ UNCHANGED toPgVars
  <2>0. UNCHANGED <<outcome, groupOf, membersLeft>>
      BY <1>2 DEF toPgVars
  <2>1. ASSUME NEW c \in Collections, Job(c) PROVE Control'
    <3>1. phase' = phase
        BY <2>1, JobMoves DEF Sampling
    <3>2. warned' \in BOOLEAN /\ UNCHANGED <<remote, runs, plan, moved>>
        BY <2>1 DEF Job, StartJob, SampleDone, SampleFails, Undecodable, Skip, Chunk, ReadChunk,
                    CursorRefused, CursorBreaks, FindFails, WriteFiles, WriteFails, runVars, fileVars
    <3> QED
        BY <2>0, <3>1, <3>2
  <2>2. ASSUME NEW c \in Collections, KillWriting(c) PROVE Control'
      BY <2>0, <2>2 DEF KillWriting
  <2>3. CASE JobsDone
      BY <2>0, <2>3 DEF JobsDone, fileVars
  <2>4. CASE Move
    <3>1. ASSUME NEW c \in Collections, Upload(c) \/ UploadFails(c) \/ Purge(c) PROVE Control'
        BY <2>0, <3>1 DEF Upload, UploadFails, Purge, runVars
    <3>2. CASE MoveDone
        BY <2>0, <3>2 DEF MoveDone
    <3> QED
        BY <2>4, <3>1, <3>2 DEF Move
  <2>5. CASE KillInfer
      BY <2>0, <2>5 DEF KillInfer
  <2> QED
      BY <1>2, <2>1, <2>2, <2>3, <2>4, <2>5 DEF InferNext
<1>3. CASE BeginToPg
    BY <1>3 DEF BeginToPg, fileVars
<1>4. CASE GroupStep
  <2>1. ASSUME NEW g, SkipGroup(g) \/ OpenGroup(g) PROVE Control'
      BY <2>1, MappedFacts DEF SkipGroup, OpenGroup, runVars, fileVars
  <2>2. CASE RewriteMember
    <3>1. Head(membersLeft) \in Collections /\ membersLeft' \in Seq(Collections) /\ phase = "group"
        BY <2>2, MembersFacts DEF RewriteMember
    <3>2. groupOf' \in [Collections -> SqlNames \cup {<<>>}]
      <4> DEFINE g == Prefix(Head(membersLeft))
      <4>1. g \in SqlNames \cup {<<>>}
          BY <3>1 DEF SqlNames
      <4>2. \/ groupOf' = groupOf
            \/ groupOf' = [d \in Collections |->
                             IF d \in ToSet(Members(g, HasJson)) THEN g ELSE groupOf[d]]
          BY <2>2 DEF RewriteMember
      <4> HIDE DEF g
      <4> QED
          BY <4>1, <4>2
    <3> QED
        BY <2>2, <3>1, <3>2 DEF RewriteMember, runVars
  <2>3. CASE RewriteFails
      BY <2>3 DEF RewriteFails
  <2>4. CASE GroupsDone
      BY <2>4 DEF GroupsDone, toPgVars, fileVars
  <2> QED
      BY <1>4, <2>1, <2>2, <2>3, <2>4 DEF GroupStep
<1>5. CASE SqlStep
  <2>1. CASE WriteSql
      BY <2>1 DEF WriteSql, runVars, fileVars
  <2>2. CASE SqlFails
      BY <2>2 DEF SqlFails, NextSql, fileVars
  <2>3. CASE SqlDone
      BY <2>3 DEF SqlDone, fileVars
  <2> QED
      BY <1>5, <2>1, <2>2, <2>3 DEF SqlStep
<1>6. CASE Publish \/ PublishFails \/ KillToPg
  <2>1. CASE Publish
      BY <2>1 DEF Publish
  <2>2. CASE PublishFails
      BY <2>2 DEF PublishFails
  <2>3. CASE KillToPg
      BY <2>3 DEF KillToPg, fileVars
  <2> QED
      BY <1>6, <2>1, <2>2, <2>3
<1>7. CASE UNCHANGED vars
    BY <1>7 DEF vars, inferVars, runVars, fileVars, toPgVars
<1> QED
    BY <1>1, <1>2, <1>3, <1>4, <1>5, <1>6, <1>7 DEF Next, Rest

----------------------------------------------------------------------------
(* The directories.                                                        *)

Dirs ==
  /\ DOMAIN disk = Collections /\ DOMAIN bucket = Collections /\ DOMAIN staged = Collections
  /\ \A c \in Collections : IsDir(disk[c]) /\ IsDir(bucket[c]) /\ IsDir(staged[c])
  /\ \A i \in DOMAIN membersLeft : Source(membersLeft[i]).files # {}

\* Steps that leave to-pg's directory, and the list of members, alone.
DirsKept ==
  /\ DOMAIN disk' = Collections /\ DOMAIN bucket' = Collections /\ DOMAIN staged' = Collections
  /\ \A c \in Collections : IsDir(disk'[c]) /\ IsDir(bucket'[c]) /\ IsDir(staged'[c])
  /\ membersLeft' = <<>>

LEMMA DirsKeptDirs == DirsKept => Dirs'
  BY DEF DirsKept, Dirs

\* What PutSource does.
LEMMA PutSourceFacts ==
  ASSUME Dirs, NEW c \in Collections, NEW dir, PutSource(c, dir), remote' = remote
  PROVE  /\ DOMAIN disk' = Collections /\ DOMAIN staged' = Collections
         /\ Source(c)' = dir
         /\ \A d \in Collections \ {c} : disk'[d] = disk[d] /\ staged'[d] = staged[d]
         /\ IF remote THEN disk' = disk /\ staged'[c] = dir ELSE staged' = staged /\ disk'[c] = dir
  BY DEF PutSource, Source, Dirs

LEMMA DirsInit == ToPgInit => Dirs
<1> SUFFICES ASSUME ToPgInit
             PROVE  Dirs
    OBVIOUS
<1>1. /\ DOMAIN disk = Collections /\ DOMAIN bucket = Collections /\ DOMAIN staged = Collections
      /\ \A c \in Collections : disk[c] = NoArtifacts /\ bucket[c] = NoArtifacts /\ staged[c] = NoArtifacts
      /\ membersLeft = <<>>
    BY DEF ToPgInit, InferInit
<1> QED
    BY <1>1, NoArtifactsDir DEF Dirs

\* A member is rewritten, whole or torn.
LEMMA DirsRewritten ==
  ASSUME Dirs, Control, membersLeft # <<>>, NEW t, NEW b \in BOOLEAN,
         PutSource(Head(membersLeft), Rewritten(Head(membersLeft), t, b)),
         membersLeft' = Tail(membersLeft) \/ membersLeft' = <<>>,
         remote' = remote, bucket' = bucket
  PROVE  Dirs'
<1>1. PICK c \in Collections : c = Head(membersLeft) /\ Source(c).files # {} /\ IsDir(Source(c))
  <2> DEFINE h == Head(membersLeft)
  <2>1. h \in Collections /\ Source(h).files # {} /\ IsDir(Source(h))
      BY MembersFacts DEF Control, Dirs, Source
  <2> QED
      BY <2>1
<1>2. PICK dir : dir = Rewritten(c, t, b) /\ IsDir(dir) /\ dir.files # {}
    BY <1>1, RewrittenFacts
<1>3. /\ DOMAIN disk' = Collections /\ DOMAIN staged' = Collections
      /\ Source(c)' = dir
      /\ \A d \in Collections \ {c} : disk'[d] = disk[d] /\ staged'[d] = staged[d]
      /\ IF remote THEN disk' = disk /\ staged'[c] = dir ELSE staged' = staged /\ disk'[c] = dir
  <2>1. PutSource(c, dir)
      BY <1>1, <1>2
  <2> QED
      BY <2>1, PutSourceFacts
<1>4. \A d \in Collections : IsDir(disk'[d]) /\ IsDir(bucket'[d]) /\ IsDir(staged'[d])
    BY <1>2, <1>3 DEF Dirs
<1>5. ASSUME NEW i \in DOMAIN membersLeft'
      PROVE  (Source(membersLeft[i]).files)' # {}
  <2>1. PICK d \in Collections : membersLeft'[i] = d /\ Source(d).files # {}
    <3>1. i + 1 \in DOMAIN membersLeft /\ membersLeft'[i] = membersLeft[i + 1]
        BY <1>5, MembersFacts DEF Control
    <3>2. membersLeft[i + 1] \in Collections /\ Source(membersLeft[i + 1]).files # {}
        BY <3>1 DEF Dirs, Control
    <3> QED
        BY <3>1, <3>2
  <2>2. (Source(d).files)' # {}
    <3>1. CASE d = c
        BY <1>2, <1>3, <3>1
    <3>2. CASE d # c
        BY <1>3, <2>1, <3>2 DEF Source
    <3> QED
        BY <3>1, <3>2
  <2> QED
      BY <2>1, <2>2 DEF Source
<1> QED
    BY <1>3, <1>4, <1>5 DEF Dirs

LEMMA DirsStep == Sampling /\ Control /\ Dirs /\ [Next]_vars => Dirs'
<1> SUFFICES ASSUME Sampling, Control, Dirs, [Next]_vars
             PROVE  Dirs'
    OBVIOUS
<1>0. /\ \A c \in Collections : IsDir(disk[c]) /\ IsDir(bucket[c]) /\ IsDir(staged[c])
      /\ DOMAIN disk = Collections /\ DOMAIN bucket = Collections /\ DOMAIN staged = Collections
    BY DEF Dirs
<1>1. ASSUME UNCHANGED <<remote, disk, bucket, staged, membersLeft>> PROVE Dirs'
    BY <1>1 DEF Dirs, Source
<1>2. CASE Begin
    BY <1>1, <1>2 DEF Begin, BeginRun, fileVars
<1>3. CASE InferNext /\ UNCHANGED toPgVars
  <2>0. staged' = staged /\ membersLeft' = membersLeft
      BY <1>3 DEF toPgVars
  <2>1. ASSUME NEW c \in Collections, Job(c), ~WriteFiles(c), ~WriteFails(c) PROVE Dirs'
      BY <1>1, <2>0, <2>1
         DEF Job, StartJob, SampleDone, SampleFails, Undecodable, Chunk, ReadChunk, CursorRefused,
             CursorBreaks, FindFails, runVars, fileVars
  <2>2. ASSUME phase \in {"infer", "move", "purge"},
               DOMAIN disk' = Collections, DOMAIN bucket' = Collections,
               \A c \in Collections : IsDir(disk'[c]) /\ IsDir(bucket'[c])
        PROVE  Dirs'
      BY <1>0, <2>0, <2>2, DirsKeptDirs DEF DirsKept, Control
  <2>3. ASSUME NEW c \in Collections, WriteFiles(c) PROVE Dirs'
    <3>1. phase = "infer"
        BY <2>3 DEF WriteFiles, Sampling
    <3>2. /\ disk' = [disk EXCEPT ![c] = Written(c, 2 + Len(Mappings(c)))] /\ bucket' = bucket
          /\ IsDir(Written(c, 2 + Len(Mappings(c))))
        BY <1>0, <2>3, WrittenFacts DEF WriteFiles
    <3> QED
        BY <1>0, <2>2, <3>1, <3>2
  <2>4. ASSUME NEW c \in Collections, WriteFails(c) PROVE Dirs'
    <3>1. phase = "infer"
        BY <2>4 DEF WriteFails, Sampling
    <3>2. disk' = [disk EXCEPT ![c] = [disk[c] EXCEPT !.json = Schema(c)]] /\ bucket' = bucket
        BY <2>4 DEF WriteFails
    <3>3. Schema(c) \in Jsons
        BY DEF Schema, Jsons
    <3>4. IsDir([disk[c] EXCEPT !.json = Schema(c)])
      <4> DEFINE D == disk[c]   j == Schema(c)
      <4>1. IsDir(D) /\ j \in Jsons
          BY <1>0, <3>3
      <4> HIDE DEF D, j
      <4>2. IsDir([D EXCEPT !.json = j])
          BY <4>1 DEF IsDir
      <4> QED
          BY <4>2 DEF D, j
    <3> QED
        BY <1>0, <2>2, <3>1, <3>2, <3>4
  <2>5. ASSUME NEW c \in Collections, KillWriting(c) PROVE Dirs'
    <3>1. PICK n \in 0 .. 1 + Len(Mappings(c)) :
             disk' = [disk EXCEPT ![c] = BrokenOff(c, n)]
        BY <2>5 DEF KillWriting
    <3>2. IsDir(BrokenOff(c, n)) /\ phase = "infer" /\ bucket' = bucket
        BY <1>0, <2>5, WrittenFacts DEF KillWriting
    <3> QED
        BY <1>0, <2>2, <3>1, <3>2
  <2>6. CASE JobsDone \/ KillInfer
      BY <1>1, <2>0, <2>6 DEF JobsDone, KillInfer, fileVars
  <2>7. ASSUME NEW c \in Collections, Upload(c) PROVE Dirs'
    <3>1. phase = "move" /\ disk' = disk /\ bucket' = [bucket EXCEPT ![c] = Overlay(bucket[c], disk[c])]
        BY <2>7 DEF Upload
    <3>2. IsDir(Overlay(bucket[c], disk[c]))
        BY <1>0, OverlayDir
    <3> QED
        BY <1>0, <2>2, <3>1, <3>2
  <2>8. ASSUME NEW c \in Collections, UploadFails(c) PROVE Dirs'
    <3> DEFINE part(files) == [disk[c] EXCEPT !.files = files]
    <3>1. PICK files \in SUBSET disk[c].files :
             bucket' = [bucket EXCEPT ![c] = Overlay(bucket[c], part(files))]
        BY <2>8 DEF UploadFails
    <3>2. phase = "move" /\ disk' = disk
        BY <2>8 DEF UploadFails
    <3>3. IsDir(part(files))
        BY <1>0 DEF IsDir
    <3> HIDE DEF part
    <3>4. IsDir(Overlay(bucket[c], part(files)))
        BY <1>0, <3>3, OverlayDir
    <3> QED
        BY <1>0, <2>2, <3>1, <3>2, <3>4
  <2>9. ASSUME NEW c \in Collections, Purge(c) PROVE Dirs'
      BY <1>0, <2>2, <2>9, NoArtifactsDir DEF Purge
  <2>10. CASE MoveDone
      BY <1>1, <2>0, <2>10 DEF MoveDone
  <2> QED
      BY <1>3, <2>1, <2>3, <2>4, <2>5, <2>6, <2>7, <2>8, <2>9, <2>10 DEF InferNext, Move
<1>4. CASE BeginToPg
  <2>1. membersLeft' = <<>> /\ disk' = disk /\ bucket' = bucket /\ (staged' = staged \/ staged' = bucket)
      BY <1>4 DEF BeginToPg, Control, fileVars
  <2> QED
      BY <1>0, <2>1, DirsKeptDirs DEF DirsKept
<1>5. CASE GroupStep
  <2>1. ASSUME NEW g, SkipGroup(g) PROVE Dirs'
      BY <1>1, <2>1 DEF SkipGroup, fileVars
  <2>2. ASSUME NEW g, OpenGroup(g) PROVE Dirs'
    <3>1. membersLeft' = Mapped(g) /\ UNCHANGED <<remote, disk, bucket, staged>>
        BY <2>2 DEF OpenGroup, runVars, fileVars
    <3>2. ASSUME NEW i \in DOMAIN membersLeft'
          PROVE  (Source(membersLeft[i]).files)' # {}
        BY <3>1, <3>2, MappedFacts DEF Source
    <3> QED
        BY <1>0, <3>1, <3>2 DEF Dirs
  <2>3. CASE RewriteMember
    <3> DEFINE t == Prefix(Head(membersLeft))
    <3>1. /\ membersLeft # <<>> /\ PutSource(Head(membersLeft), Rewritten(Head(membersLeft), t, TRUE))
          /\ membersLeft' = Tail(membersLeft) /\ remote' = remote /\ bucket' = bucket
        BY <2>3 DEF RewriteMember, runVars
    <3> HIDE DEF t
    <3> QED
        BY <3>1, DirsRewritten
  <2>4. CASE RewriteFails
    <3> DEFINE t == Prefix(Head(membersLeft))
    <3>1. /\ membersLeft # <<>> /\ PutSource(Head(membersLeft), Rewritten(Head(membersLeft), t, FALSE))
          /\ membersLeft' = <<>> /\ remote' = remote /\ bucket' = bucket
        BY <2>4 DEF RewriteFails
    <3> HIDE DEF t
    <3> QED
        BY <3>1, DirsRewritten
  <2>5. CASE GroupsDone
      BY <1>1, <2>5 DEF GroupsDone, fileVars, toPgVars
  <2> QED
      BY <1>5, <2>1, <2>2, <2>3, <2>4, <2>5 DEF GroupStep
<1>6. CASE SqlStep
    BY <1>1, <1>6 DEF SqlStep, WriteSql, SqlFails, SqlDone, runVars, fileVars
<1>7. CASE Publish \/ PublishFails
  <2>1. PICK collections, names : PutInBucket(collections, names)
      BY <1>7 DEF Publish, PublishFails
  <2>2. /\ DOMAIN bucket' = Collections
        /\ \A c \in Collections : bucket'[c] = Overlay(bucket[c], staged[c]) \/ bucket'[c] = bucket[c]
      BY <2>1 DEF PutInBucket
  <2>3. disk' = disk /\ membersLeft' = <<>> /\ DropStage
      BY <1>7 DEF Publish, PublishFails, Control
  <2>4. DOMAIN staged' = Collections /\ \A c \in Collections : staged'[c] = NoArtifacts
      BY <2>3 DEF DropStage
  <2> QED
      BY <1>0, <2>2, <2>3, <2>4, OverlayDir, NoArtifactsDir, DirsKeptDirs DEF DirsKept
<1>8. CASE KillToPg
  <2>1. disk' = disk /\ bucket' = bucket /\ membersLeft' = <<>> /\ DropStage
      BY <1>8 DEF KillToPg, fileVars
  <2>2. DOMAIN staged' = Collections /\ \A c \in Collections : staged'[c] = NoArtifacts
      BY <2>1 DEF DropStage
  <2> QED
      BY <1>0, <2>1, <2>2, NoArtifactsDir, DirsKeptDirs DEF DirsKept
<1>9. CASE UNCHANGED vars
    BY <1>1, <1>9 DEF vars, inferVars, runVars, fileVars, toPgVars
<1> QED
    BY <1>2, <1>3, <1>4, <1>5, <1>6, <1>7, <1>8, <1>9 DEF Next, Rest

THEOREM StateCorrect == Spec => [](Sampling /\ Control /\ Dirs)
<1>1. ToPgInit => Sampling /\ Control /\ Dirs
    BY SamplingInit, ControlInit, DirsInit DEF ToPgInit
<1>2. Sampling /\ Control /\ Dirs /\ [Next]_vars => (Sampling /\ Control /\ Dirs)'
    BY SamplingStep, ControlStep, DirsStep
<1> QED
    BY <1>1, <1>2, PTL DEF Spec

\* The state of infer and to-pg is what it is meant to be.
THEOREM TypeCorrect == Spec => []TypeOK
<1>1. Sampling /\ Control /\ Dirs => TypeOK
  <2> SUFFICES ASSUME Sampling, Control, Dirs
               PROVE  TypeOK
      OBVIOUS
  <2>1. ASSUME NEW c \in Collections
        PROVE  /\ counted[c] \in [Ids(c) -> 0 .. (MaxFaults + 1)]
               /\ last[c] \in 0 .. Len(Docs[c])
               /\ processed[c] \in 0 .. SampleSize
               /\ attempt[c] \in 0 .. RetryMax
               /\ refusals[c] \in 0 .. MaxFaults
    <3>1. /\ Sample(c) /\ faults \in 0 .. MaxFaults /\ MaxFaults \in Nat /\ SampleSize \in Nat
          /\ job[c] \in Jobs
        BY InferAssumption DEF Sampling, JobDomains
    <3>2. \A d \in Ids(c) : d \in Nat
        BY DEF Ids
    <3>3. last[c] \in 0 .. Len(Docs[c]) /\ last[c] \in Int /\ attempt[c] \in 0 .. RetryMax
          /\ refusals[c] \in 0 .. MaxFaults
          /\ IsCount(c, counted[c])
        BY <3>1 DEF Sample
    <3>4. processed[c] \in 0 .. SampleSize /\ \A d \in Ids(c) : counted[c][d] \in 0 .. 1 + refusals[c]
      <4>1. CASE Blank(c)
          BY <3>1, <3>3, <4>1 DEF Blank, NoneCounted
      <4>2. CASE job[c] = "chunk"
          BY <3>1, <3>2, <3>3, <4>2 DEF Sample, Chunked
      <4>3. CASE job[c] = "write"
          BY <3>1, <3>3, <4>3 DEF Sample, Taken
      <4> QED
          BY <3>1, <4>1, <4>2, <4>3 DEF Sample, Jobs
    <3>5. \A d \in Ids(c) : counted[c][d] \in 0 .. (MaxFaults + 1)
        BY <3>1, <3>3, <3>4
    <3>6. counted[c] \in [Ids(c) -> 0 .. (MaxFaults + 1)]
        BY <3>3, <3>5 DEF IsCount
    <3> QED
        BY <3>3, <3>4, <3>6
  <2>2. \A c \in Collections : disk[c].json \in Jsons /\ bucket[c].json \in Jsons /\ staged[c].json \in Jsons
      BY DEF Dirs, IsDir
  <2>3. InferTypeOK
      BY <2>1, <2>2 DEF InferTypeOK, Sampling, JobDomains, Control
  <2> QED
      BY <2>2, <2>3 DEF TypeOK, Control
<1> QED
    BY <1>1, StateCorrect, PTL

----------------------------------------------------------------------------
(* No mapping file is lost.                                                *)

\* The mapping files of a name are whole, and there is one.
AllWhole(dir, s) == \A f \in dir.files : f.stem = s => f.whole
Holds(dir, s) == AllWhole(dir, s) /\ \E f \in dir.files : f.stem = s

\* The files of a collection have been uploaded in this run.
Behind(c) ==
  \/ phase = "move" /\ c \in moved
  \/ phase = "purge"
  \/ remote /\ phase \in {"topg", "group", "sql", "publish"}

\* to-pg works on the staged copy.
AtWork == remote /\ phase \in {"group", "sql", "publish"}

\* A file that was written is in the project directory or in the bucket, in
\* the bucket once it is uploaded, and torn nowhere.
KeptFile(c, s) ==
  /\ AllWhole(disk[c], s)
  /\ Holds(disk[c], s) \/ Holds(bucket[c], s)
  /\ Behind(c) => Holds(bucket[c], s)
  /\ AtWork => AllWhole(staged[c], s)

Kept ==
  /\ DOMAIN settled = Collections
  /\ \A c \in Collections : \A s \in settled[c] : KeptFile(c, s)

\* An upload loses nothing, and brings what is whole.
LEMMA HoldsOverlay ==
  ASSUME NEW old, NEW new, NEW s, AllWhole(new, s), Holds(old, s) \/ Holds(new, s)
  PROVE  Holds(Overlay(old, new), s)
<1> DEFINE F == new.files \cup {f \in old.files : \A g \in new.files : g.stem # f.stem}
<1>1. Overlay(old, new).files = F
    BY DEF Overlay
<1>2. CASE \E f \in new.files : f.stem = s
    BY <1>1, <1>2 DEF Holds, AllWhole
<1>3. CASE \A f \in new.files : f.stem # s
  <2>1. \A f \in old.files : f.stem = s => f \in F
      BY <1>3
  <2>2. \A f \in F : f.stem = s => f \in old.files
      BY <1>3
  <2>3. Holds(old, s)
      BY <1>3 DEF Holds
  <2> HIDE DEF F
  <2> QED
      BY <1>1, <2>1, <2>2, <2>3 DEF Holds, AllWhole
<1> QED
    BY <1>2, <1>3

\* A member that is rewritten keeps its files.
LEMMA HoldsRewritten ==
  ASSUME NEW c, IsDir(Source(c)), Source(c).files # {}, NEW t, NEW s, AllWhole(Source(c), s)
  PROVE  /\ AllWhole(Rewritten(c, t, TRUE), s)
         /\ Holds(Source(c), s) => Holds(Rewritten(c, t, TRUE), s)
<1> DEFINE root == RootFile(c)
           file == File(root.stem, t, root.with, TRUE)
           F == (Source(c).files \ {root}) \cup {file}
<1>1. root \in Source(c).files
    BY DEF RootFile
<1>2. file.stem = root.stem /\ file.whole
    BY DEF File
<1>3. Rewritten(c, t, TRUE).files = F
  <2> DEFINE S == Source(c)
  <2>1. Rewritten(c, t, TRUE) = [S EXCEPT !.files = F]
      BY DEF Rewritten
  <2>2. S = [json |-> S.json, files |-> S.files]
      BY DEF IsDir
  <2> HIDE DEF S, F
  <2> QED
      BY <2>1, <2>2
<1> HIDE DEF root, file
<1> QED
    BY <1>1, <1>2, <1>3 DEF Holds, AllWhole

LEMMA KeptInit == ToPgInit => Kept
  BY DEF ToPgInit, InferInit, Kept

\* Steps that leave the files alone.
LEMMA KeptSame ==
  ASSUME Kept, UNCHANGED <<disk, bucket, settled>>,
         \A c \in Collections : Behind(c)' => Behind(c),
         AtWork' => AtWork /\ staged' = staged
  PROVE  Kept'
  BY DEF Kept, KeptFile

\* Steps of a run that is at its end.
LEMMA KeptIdle ==
  ASSUME Kept, phase' = "idle", UNCHANGED <<disk, bucket, settled>>
  PROVE  Kept'
  BY KeptSame DEF Behind, AtWork

LEMMA KeptInfer ==
  ASSUME Sampling, Control, Dirs, Kept, InferNext, UNCHANGED toPgVars
  PROVE  Kept'
<1>0. /\ staged' = staged
      /\ DOMAIN disk = Collections /\ DOMAIN bucket = Collections /\ DOMAIN settled = Collections
      /\ \A c \in Collections : IsDir(disk[c]) /\ IsDir(bucket[c])
    BY DEF toPgVars, Dirs, Kept
<1>1. ASSUME NEW c \in Collections, Job(c) PROVE phase' = "infer" /\ phase = "infer" /\ remote' = remote
  <2>1. phase' = phase /\ job[c] # "none"
      BY <1>1, JobMoves DEF Sampling
  <2>2. remote' = remote
      BY <1>1 DEF Job, StartJob, SampleDone, SampleFails, Undecodable, Chunk, ReadChunk, CursorRefused,
                  CursorBreaks, FindFails, WriteFiles, WriteFails, runVars
  <2> QED
      BY <2>1, <2>2 DEF Sampling
<1>2. ASSUME NEW c \in Collections, Job(c), ~WriteFiles(c), ~WriteFails(c) PROVE Kept'
  <2>1. UNCHANGED <<disk, bucket, settled>>
      BY <1>2 DEF Job, StartJob, SampleDone, SampleFails, Undecodable, Chunk, ReadChunk, CursorRefused,
                  CursorBreaks, FindFails, fileVars
  <2> QED
      BY <1>1, <1>2, <2>1, KeptSame DEF Behind, AtWork
<1>3. ASSUME NEW c \in Collections, WriteFiles(c) PROVE Kept'
  <2>1. phase' = "infer"
      BY <1>1, <1>3 DEF Job
  <2>2. /\ disk' = [disk EXCEPT ![c] = Written(c, 2 + Len(Mappings(c)))] /\ bucket' = bucket
        /\ settled' = [settled EXCEPT ![c] = {f.stem : f \in ToSet(Mappings(c))}]
        /\ Written(c, 2 + Len(Mappings(c))).files = ToSet(Mappings(c))
    <3>1. Written(c, 2 + Len(Mappings(c))) = [json |-> Schema(c), files |-> ToSet(Mappings(c))]
        BY <1>0, WrittenFacts
    <3>2. Written(c, 2 + Len(Mappings(c))).files = ToSet(Mappings(c))
        BY <3>1
    <3> QED
        BY <1>3, <3>2 DEF WriteFiles
  <2>3. \A f \in ToSet(Mappings(c)) : f.whole
      BY MappingsFacts DEF ToSet
  <2>4. ASSUME NEW s \in settled'[c]
        PROVE  AllWhole(disk'[c], s) /\ Holds(disk'[c], s)
    <3>1. disk'[c].files = ToSet(Mappings(c)) /\ settled'[c] = {f.stem : f \in ToSet(Mappings(c))}
        BY <1>0, <2>2
    <3> QED
        BY <2>3, <2>4, <3>1 DEF AllWhole, Holds
  <2>5. ASSUME NEW d \in Collections, NEW s \in settled'[d]
        PROVE  KeptFile(d, s)'
    <3>1. ~Behind(d)' /\ ~AtWork'
        BY <2>1 DEF Behind, AtWork
    <3>2. CASE d = c
        BY <2>4, <2>5, <3>1, <3>2 DEF KeptFile
    <3>3. CASE d # c
      <4>1. disk'[d] = disk[d] /\ bucket'[d] = bucket[d] /\ s \in settled[d]
          BY <1>0, <2>2, <2>5, <3>3
      <4>2. KeptFile(d, s)
          BY <4>1 DEF Kept
      <4> QED
          BY <3>1, <4>1, <4>2 DEF KeptFile
    <3> QED
        BY <3>2, <3>3
  <2> QED
      BY <1>0, <2>2, <2>5 DEF Kept
<1>4. ASSUME NEW c \in Collections, WriteFails(c) PROVE Kept'
  <2>1. phase' = "infer"
      BY <1>1, <1>4 DEF Job
  <2>2. disk' = [disk EXCEPT ![c] = [disk[c] EXCEPT !.json = Schema(c)]] /\ UNCHANGED <<bucket, settled>>
      BY <1>4 DEF WriteFails
  <2>3. \A d \in Collections : disk'[d].files = disk[d].files
    <3> DEFINE D == disk[c]   j == Schema(c)
    <3>1. D = [json |-> D.json, files |-> D.files]
        BY <1>0 DEF IsDir
    <3> HIDE DEF D, j
    <3>2. [D EXCEPT !.json = j].files = D.files
        BY <3>1
    <3>3. disk'[c].files = disk[c].files
        BY <1>0, <2>2, <3>2 DEF D, j
    <3> QED
        BY <1>0, <2>2, <3>3
  <2>4. ASSUME NEW d \in Collections, NEW s \in settled'[d]
        PROVE  KeptFile(d, s)'
    <3>1. ~Behind(d)' /\ ~AtWork'
        BY <2>1 DEF Behind, AtWork
    <3>2. KeptFile(d, s)
        BY <2>2 DEF Kept
    <3> QED
        BY <2>2, <2>3, <3>1, <3>2 DEF KeptFile, AllWhole, Holds
  <2> QED
      BY <1>0, <2>2, <2>4 DEF Kept
<1>5. ASSUME NEW c \in Collections, KillWriting(c) PROVE Kept'
  <2>1. PICK n : disk' = [disk EXCEPT ![c] = BrokenOff(c, n)]
      BY <1>5 DEF KillWriting
  <2>2. settled' = [settled EXCEPT ![c] = {}] /\ bucket' = bucket /\ phase' = "idle"
      BY <1>5 DEF KillWriting
  <2>3. ASSUME NEW d \in Collections, NEW s \in settled'[d]
        PROVE  KeptFile(d, s)'
    <3>1. ~Behind(d)' /\ ~AtWork'
        BY <2>2 DEF Behind, AtWork
    <3>2. d # c /\ s \in settled[d] /\ disk'[d] = disk[d] /\ bucket'[d] = bucket[d]
        BY <1>0, <2>1, <2>2, <2>3
    <3>3. KeptFile(d, s)
        BY <3>2 DEF Kept
    <3> QED
        BY <3>1, <3>2, <3>3 DEF KeptFile
  <2> QED
      BY <1>0, <2>2, <2>3 DEF Kept
<1>6. CASE JobsDone
  <2>1. UNCHANGED <<disk, bucket, settled, moved, remote>> /\ moved = {}
        /\ phase' = IF remote THEN "move" ELSE "topg"
      BY <1>6 DEF JobsDone, fileVars, Control
  <2> QED
      BY <2>1, KeptSame DEF Behind, AtWork, Control
<1>7. CASE KillInfer
    BY <1>7, KeptIdle DEF KillInfer
<1>8. ASSUME NEW c \in Collections, Upload(c) PROVE Kept'
  <2>1. /\ phase = "move" /\ phase' = phase /\ remote' = remote /\ disk' = disk /\ settled' = settled
        /\ bucket' = [bucket EXCEPT ![c] = Overlay(bucket[c], disk[c])] /\ moved' = moved \cup {c}
      BY <1>8 DEF Upload, runVars
  <2>2. ASSUME NEW d \in Collections, NEW s \in settled[d]
        PROVE  KeptFile(d, s)'
    <3>1. KeptFile(d, s) /\ ~AtWork'
        BY <2>1 DEF Kept, AtWork
    <3>2. CASE d = c
      <4>1. Holds(Overlay(bucket[d], disk[d]), s)
          BY <3>1, HoldsOverlay DEF KeptFile
      <4>2. bucket'[d] = Overlay(bucket[d], disk[d])
          BY <1>0, <2>1, <3>2
      <4> QED
          BY <2>1, <3>1, <4>1, <4>2 DEF KeptFile
    <3>3. CASE d # c
      <4>1. bucket'[d] = bucket[d] /\ (Behind(d)' => Behind(d))
          BY <1>0, <2>1, <3>3 DEF Behind
      <4> QED
          BY <2>1, <3>1, <4>1 DEF KeptFile
    <3> QED
        BY <3>2, <3>3
  <2> QED
      BY <1>0, <2>1, <2>2 DEF Kept
<1>9. ASSUME NEW c \in Collections, UploadFails(c) PROVE Kept'
  <2> DEFINE part(files) == [disk[c] EXCEPT !.files = files]
  <2>1. PICK files \in SUBSET disk[c].files :
           bucket' = [bucket EXCEPT ![c] = Overlay(bucket[c], part(files))]
      BY <1>9 DEF UploadFails
  <2>2. phase' = "idle" /\ disk' = disk /\ settled' = settled
      BY <1>9 DEF UploadFails
  <2>3. part(files).files = files
      BY <1>0 DEF IsDir
  <2> HIDE DEF part
  <2>4. ASSUME NEW d \in Collections, NEW s \in settled[d]
        PROVE  KeptFile(d, s)'
    <3>1. KeptFile(d, s) /\ ~AtWork' /\ ~Behind(d)'
        BY <2>2 DEF Kept, AtWork, Behind
    <3>2. CASE d = c
      <4>1. AllWhole(part(files), s)
          BY <2>3, <3>1, <3>2 DEF KeptFile, AllWhole
      <4>2. Holds(bucket[d], s) => Holds(Overlay(bucket[d], part(files)), s)
          BY <4>1, HoldsOverlay
      <4>3. bucket'[d] = Overlay(bucket[d], part(files))
          BY <1>0, <2>1, <3>2
      <4> QED
          BY <2>2, <3>1, <4>2, <4>3 DEF KeptFile
    <3>3. CASE d # c
      <4>1. bucket'[d] = bucket[d]
          BY <1>0, <2>1, <3>3
      <4> QED
          BY <2>2, <3>1, <4>1 DEF KeptFile
    <3> QED
        BY <3>2, <3>3
  <2> QED
      BY <1>0, <2>2, <2>4 DEF Kept
<1>10. ASSUME NEW c \in Collections, Purge(c) PROVE Kept'
  <2>1. /\ phase = "purge" \/ (phase = "move" /\ moved = Collections)
        /\ phase' = "purge" /\ disk' = [disk EXCEPT ![c] = NoArtifacts] /\ UNCHANGED <<bucket, settled>>
      BY <1>10 DEF Purge, Purgeable
  <2>2. ASSUME NEW d \in Collections, NEW s \in settled[d]
        PROVE  KeptFile(d, s)'
    <3>1. KeptFile(d, s) /\ Behind(d) /\ ~AtWork'
        BY <2>1 DEF Kept, AtWork, Behind
    <3>2. AllWhole(NoArtifacts, s)
        BY DEF AllWhole, NoArtifacts
    <3>3. disk'[d] = disk[d] \/ disk'[d] = NoArtifacts
        BY <1>0, <2>1
    <3>4. AllWhole(disk'[d], s)
        BY <3>1, <3>2, <3>3 DEF KeptFile
    <3> QED
        BY <2>1, <3>1, <3>4 DEF KeptFile
  <2> QED
      BY <1>0, <2>1, <2>2 DEF Kept
<1>11. CASE MoveDone
  <2>1. /\ phase = "purge" \/ (phase = "move" /\ moved = Collections)
        /\ phase' = "topg" /\ UNCHANGED <<disk, bucket, settled>>
      BY <1>11 DEF MoveDone, Purgeable
  <2>2. ~AtWork' /\ \A c \in Collections : Behind(c)
      BY <2>1 DEF Behind, AtWork
  <2> QED
      BY <2>1, <2>2, KeptSame
<1> QED
    BY <1>2, <1>3, <1>4, <1>5, <1>6, <1>7, <1>8, <1>9, <1>10, <1>11 DEF InferNext, Move

\* A member is rewritten, and its file is not torn.
LEMMA KeptRewritten ==
  ASSUME Control, Dirs, Kept, membersLeft # <<>>, NEW t, NEW b \in BOOLEAN,
         PutSource(Head(membersLeft), Rewritten(Head(membersLeft), t, b)),
         UNCHANGED <<runVars, bucket>> \/ UNCHANGED <<remote, phase, bucket>>,
         \/ b = TRUE /\ settled' = settled
         \/ settled' = [settled EXCEPT ![Head(membersLeft)] = {}]
  PROVE  Kept'
<1>1. PICK c \in Collections : c = Head(membersLeft) /\ Source(c).files # {} /\ IsDir(Source(c))
  <2> DEFINE h == Head(membersLeft)
  <2>1. h \in Collections /\ Source(h).files # {} /\ IsDir(Source(h))
      BY MembersFacts DEF Control, Dirs, Source
  <2> QED
      BY <2>1
<1>2. PICK dir : dir = Rewritten(c, t, b)
    OBVIOUS
<1>3. phase = "group" /\ phase' = phase /\ remote' = remote /\ bucket' = bucket
    BY DEF Control, runVars
<1>4. /\ DOMAIN disk' = Collections /\ DOMAIN staged' = Collections
      /\ Source(c)' = dir
      /\ \A d \in Collections \ {c} : disk'[d] = disk[d] /\ staged'[d] = staged[d]
      /\ IF remote THEN disk' = disk /\ staged'[c] = dir ELSE staged' = staged /\ disk'[c] = dir
  <2>1. PutSource(c, dir)
      BY <1>1, <1>2
  <2> QED
      BY <1>3, <2>1, PutSourceFacts
<1>5. ASSUME NEW d \in Collections, NEW s \in settled'[d]
      PROVE  KeptFile(d, s)'
  <2>1. s \in settled[d] /\ (d = c => b = TRUE)
      BY <1>1, <1>5 DEF Kept
  <2>2. KeptFile(d, s) /\ Behind(d)' = Behind(d) /\ AtWork' = AtWork
      BY <1>3, <2>1 DEF Kept, Behind, AtWork
  <2>3. CASE d # c
      BY <1>3, <1>4, <2>2, <2>3 DEF KeptFile
  <2>4. CASE d = c
    <3>1. dir = Rewritten(c, t, TRUE)
        BY <1>2, <2>1, <2>4
    <3>2. AllWhole(Source(c), s)
        BY <1>3, <2>2, <2>4 DEF KeptFile, Source, AtWork
    <3>3. AllWhole(dir, s) /\ (Holds(Source(c), s) => Holds(dir, s))
        BY <1>1, <3>1, <3>2, HoldsRewritten
    <3>4. CASE remote
        BY <1>3, <1>4, <2>2, <2>4, <3>3, <3>4 DEF KeptFile
    <3>5. CASE ~remote
        BY <1>3, <1>4, <2>2, <2>4, <3>3, <3>5 DEF KeptFile, Source, AtWork
    <3> QED
        BY <3>4, <3>5
  <2> QED
      BY <2>3, <2>4
<1>6. DOMAIN settled' = Collections
    BY DEF Kept
<1> QED
    BY <1>5, <1>6 DEF Kept

LEMMA KeptStep == Sampling /\ Control /\ Dirs /\ Kept /\ [Next]_vars => Kept'
<1> SUFFICES ASSUME Sampling, Control, Dirs, Kept, [Next]_vars
             PROVE  Kept'
    OBVIOUS
<1>1. CASE Begin
  <2>1. phase' = "infer" /\ UNCHANGED <<disk, bucket, settled>>
      BY <1>1 DEF Begin, BeginRun, fileVars
  <2> QED
      BY <2>1, KeptSame DEF Behind, AtWork
<1>2. CASE InferNext /\ UNCHANGED toPgVars
    BY <1>2, KeptInfer
<1>3. CASE BeginToPg
  <2>1. phase = "topg" /\ UNCHANGED <<remote, disk, bucket, settled>>
      BY <1>3 DEF BeginToPg, fileVars
  <2>2. CASE phase' = "idle"
      BY <2>1, <2>2, KeptIdle
  <2>3. CASE phase' # "idle"
    <3>1. phase' = "group" /\ staged' = IF remote THEN bucket ELSE staged
        BY <1>3, <2>3 DEF BeginToPg
    <3>2. ASSUME NEW c \in Collections, NEW s \in settled[c]
          PROVE  KeptFile(c, s)'
      <4>1. KeptFile(c, s) /\ (Behind(c)' => Behind(c)) /\ (AtWork' => remote)
          BY <2>1, <3>1 DEF Kept, Behind, AtWork
      <4>2. remote => Holds(bucket[c], s) /\ staged'[c] = bucket[c]
          BY <2>1, <3>1, <4>1 DEF KeptFile, Behind
      <4> QED
          BY <2>1, <4>1, <4>2 DEF KeptFile, Holds
    <3> QED
        BY <2>1, <3>2 DEF Kept
  <2> QED
      BY <2>2, <2>3
<1>4. CASE GroupStep
  <2>1. ASSUME NEW g, SkipGroup(g) \/ OpenGroup(g) PROVE Kept'
    <3>1. UNCHANGED <<remote, phase, moved, disk, bucket, settled, staged>>
        BY <2>1 DEF SkipGroup, OpenGroup, runVars, fileVars
    <3> QED
        BY <3>1, KeptSame DEF Behind, AtWork
  <2>2. CASE RewriteMember
    <3>1. PICK t : t = Prefix(Head(membersLeft))
        OBVIOUS
    <3>2. /\ membersLeft # <<>> /\ PutSource(Head(membersLeft), Rewritten(Head(membersLeft), t, TRUE))
          /\ UNCHANGED <<runVars, bucket>> /\ settled' = settled
        BY <2>2, <3>1 DEF RewriteMember
    <3> QED
        BY <3>2, KeptRewritten
  <2>3. CASE RewriteFails
    <3>1. PICK t : t = Prefix(Head(membersLeft))
        OBVIOUS
    <3>2. /\ membersLeft # <<>> /\ PutSource(Head(membersLeft), Rewritten(Head(membersLeft), t, FALSE))
          /\ UNCHANGED <<remote, phase, bucket>>
          /\ settled' = [settled EXCEPT ![Head(membersLeft)] = {}]
        BY <2>3, <3>1 DEF RewriteFails
    <3> QED
        BY <3>2, KeptRewritten
  <2>4. CASE GroupsDone
    <3>1. phase = "group" /\ phase' = "sql" /\ UNCHANGED <<remote, disk, bucket, settled, staged>>
        BY <2>4 DEF GroupsDone, fileVars, toPgVars
    <3> QED
        BY <3>1, KeptSame DEF Behind, AtWork
  <2> QED
      BY <1>4, <2>1, <2>2, <2>3, <2>4 DEF GroupStep
<1>5. CASE SqlStep
  <2>1. UNCHANGED <<remote, disk, bucket, settled, staged>>
      BY <1>5 DEF SqlStep, WriteSql, SqlFails, SqlDone, runVars, fileVars
  <2>2. phase = "sql" /\ phase' \in {"sql", "publish", "idle"}
      BY <1>5 DEF SqlStep, WriteSql, SqlFails, SqlDone, NextSql, runVars
  <2> QED
      BY <2>1, <2>2, KeptSame DEF Behind, AtWork
<1>6. CASE Publish \/ PublishFails
  <2>1. PICK collections, names : PutInBucket(collections, names)
      BY <1>6 DEF Publish, PublishFails
  <2>2. phase = "publish" /\ phase' = "idle" /\ UNCHANGED <<disk, settled>> /\ remote
      BY <1>6 DEF Publish, PublishFails, Control
  <2>3. ASSUME NEW c \in Collections, NEW s \in settled[c]
        PROVE  KeptFile(c, s)'
    <3>1. KeptFile(c, s) /\ Behind(c) /\ AtWork /\ ~Behind(c)' /\ ~AtWork'
        BY <2>2 DEF Kept, Behind, AtWork
    <3>2. Holds(bucket[c], s) /\ Holds(Overlay(bucket[c], staged[c]), s)
        BY <3>1, HoldsOverlay DEF KeptFile
    <3>3. bucket'[c] = Overlay(bucket[c], staged[c]) \/ bucket'[c] = bucket[c]
        BY <2>1 DEF PutInBucket
    <3>4. Holds(bucket'[c], s)
        BY <3>2, <3>3
    <3> QED
        BY <2>2, <3>1, <3>4 DEF KeptFile
  <2> QED
      BY <2>2, <2>3 DEF Kept
<1>7. CASE KillToPg
  <2>1. phase' = "idle" /\ UNCHANGED <<disk, bucket, settled>>
      BY <1>7 DEF KillToPg, fileVars
  <2> QED
      BY <2>1, KeptIdle
<1>8. CASE UNCHANGED vars
  <2>1. UNCHANGED <<remote, phase, moved, disk, bucket, settled, staged>>
      BY <1>8 DEF vars, inferVars, runVars, fileVars, toPgVars
  <2> QED
      BY <2>1, KeptSame DEF Behind, AtWork
<1> QED
    BY <1>1, <1>2, <1>3, <1>4, <1>5, <1>6, <1>7, <1>8 DEF Next, Rest

\* A mapping file that was written stays in the project directory until it is
\* in the bucket, whichever upload fails and wherever the process is killed
\* (infer.rs, move_artifacts_to_remote).
THEOREM NothingLostByMoveCorrect == Spec => []NothingLostByMove
<1>1. Kept => NothingLostByMove
    BY DEF Kept, KeptFile, Holds, AllWhole, NothingLostByMove
<1>2. ToPgInit => Kept
    BY KeptInit
<1>3. Sampling /\ Control /\ Dirs /\ Kept /\ [Next]_vars => Kept'
    BY KeptStep
<1> QED
    BY <1>1, <1>2, <1>3, StateCorrect, PTL DEF Spec

----------------------------------------------------------------------------
(* No table has two collections.                                           *)

\* Different numbers are written differently.
Numerals == \A m, n \in Nat : Numeral(m) = Numeral(n) => m = n

LEMMA ImageFinite ==
  ASSUME NEW S, IsFiniteSet(S), NEW f, NEW T, T = {f[x] : x \in S}
  PROVE  IsFiniteSet(T)
<1> DEFINE h == [x \in S |-> f[x]]
<1>1. h \in Surjection(S, T)
    BY DEF Surjection
<1> QED
    BY <1>1, FS_Surjection DEF ExistsSurjection

LEMMA PreferredType ==
  ASSUME NEW parent \in Seq(STRING), NEW field \in Seq(STRING)
  PROVE  Preferred(parent, field, FALSE) \in Seq(STRING)
<1>1. CASE \E i \in DOMAIN parent : <<parent[i]>> = field
  <2>1. Len(parent) \in Nat /\ Len(parent) > 0
      BY <1>1
  <2>2. Last(parent) \in STRING
      BY <2>1 DEF Last
  <2>3. <<Last(parent)>> \o field \in Seq(STRING)
      BY <2>2
  <2> QED
      BY <1>1, <2>3 DEF Preferred
<1> QED
    BY <1>1 DEF Preferred

\* A number that is still free is found.
LEMMA NumberedFree ==
  ASSUME Numerals, NEW parent \in Seq(STRING), NEW base \in Seq(STRING),
         NEW taken, IsFiniteSet(taken)
  PROVE  \E n \in 2 .. (Cardinality(taken) + 2) :
           /\ Numbered(parent, base, n) \notin taken
           /\ \A m \in 2 .. (n - 1) : Numbered(parent, base, m) \in taken
<1> DEFINE K == Cardinality(taken)
           I == 2 .. (K + 2)
           N(n) == Numbered(parent, base, n)
<1>1. K \in Nat
    BY FS_CardinalityType
<1>2. ASSUME NEW m \in Nat, NEW n \in Nat, N(m) = N(n)
      PROVE  m = n
  <2> DEFINE A == STRING \cup {Numeral(m), Numeral(n)}
             x == parent \o base
  <2>1. x \in Seq(A)
      OBVIOUS
  <2>2. N(m) = x \o <<Numeral(m)>> /\ N(n) = x \o <<Numeral(n)>>
      BY DEF Numbered
  <2> HIDE DEF x
  <2> DEFINE a == Numeral(m)   b == Numeral(n)
  <2>3. a \in A /\ b \in A
      OBVIOUS
  <2> HIDE DEF a, b, A
  <2>4. (x \o <<a>>)[Len(x) + 1] = a /\ (x \o <<b>>)[Len(x) + 1] = b
      BY <2>1, <2>3
  <2>5. x \o <<a>> = x \o <<b>>
      BY <1>2, <2>2 DEF a, b
  <2>6. a = b
      BY <2>4, <2>5
  <2> QED
      BY <2>6 DEF a, b, Numerals
<1>3. \E n \in I : N(n) \notin taken
  <2> SUFFICES ASSUME \A n \in I : N(n) \in taken
               PROVE  FALSE
      OBVIOUS
  <2> DEFINE f == [n \in I |-> N(n)]
  <2>1. f \in [I -> taken]
      OBVIOUS
  <2>2. IsFiniteSet(I) /\ Cardinality(I) = K + 1
    <3>1. 2 \in Int /\ K + 2 \in Int /\ 2 <= K + 2
        BY <1>1
    <3>2. IsFiniteSet(2 .. (K + 2))
          /\ Cardinality(2 .. (K + 2)) = IF 2 > K + 2 THEN 0 ELSE (K + 2) - 2 + 1
        BY <3>1, FS_Interval
    <3> QED
        BY <1>1, <3>1, <3>2
  <2>3. Cardinality(taken) < Cardinality(I)
      BY <1>1, <2>2
  <2>4. PICK x \in I, y \in I : x # y /\ f[x] = f[y]
    <3> HIDE DEF f, I
    <3> QED
        BY <2>1, <2>2, <2>3, FS_PigeonHole
  <2>5. x \in Nat /\ y \in Nat /\ N(x) = N(y)
      BY <1>1, <2>4
  <2> QED
      BY <1>2, <2>4, <2>5
<1> HIDE DEF N
<1> DEFINE T == {n \in I : N(n) \notin taken}
<1>4. T \in SUBSET Nat /\ T # {}
    BY <1>1, <1>3
<1>5. PICK n \in T : \A m \in T : n <= m
  <2> HIDE DEF T
  <2> QED
      BY <1>4, LeastNat
<1>6. \A m \in 2 .. (n - 1) : N(m) \in taken
    BY <1>1, <1>5
<1> QED
    BY <1>5, <1>6 DEF N

\* The name that is chosen is free.
LEMMA UniqueFree ==
  ASSUME Numerals, NEW parent \in Seq(STRING), NEW field \in Seq(STRING),
         NEW taken, IsFiniteSet(taken)
  PROVE  Unique(parent, field, FALSE, taken) \notin taken
<1> DEFINE
      base == Preferred(parent, field, FALSE)
      all  == Candidates(parent, base)
      free == Pick(all, ToSet(all) \ taken)
      Found(n) == /\ Numbered(parent, base, n) \notin taken
                  /\ \A m \in 2 .. (n - 1) : Numbered(parent, base, m) \in taken
      number == CHOOSE n \in 2 .. (Cardinality(taken) + 2) : Found(n)
<1>1. Unique(parent, field, FALSE, taken)
        = IF free # <<>> THEN free[1] ELSE Numbered(parent, base, number)
    BY DEF Unique
<1>2. base \in Seq(STRING)
    BY PreferredType
<1> HIDE DEF base
<1>3. Numbered(parent, base, number) \notin taken
  <2>1. \E n \in 2 .. (Cardinality(taken) + 2) : Found(n)
      BY <1>2, NumberedFree
  <2> HIDE DEF Found
  <2>2. Found(number)
      BY <2>1
  <2> HIDE DEF number
  <2> QED
      BY <2>2 DEF Found
<1>4. \E A : all \in Seq(A)
  <2> DEFINE w == [d \in 1 .. Len(parent) |->
                     SubSeq(parent, Len(parent) - d + 1, Len(parent)) \o base]
             A == {base} \cup {w[d] : d \in 1 .. Len(parent)}
  <2>1. all = <<base>> \o w
      BY DEF Candidates
  <2>2. Len(parent) \in Nat /\ \A d \in 1 .. Len(parent) : w[d] \in A
    <3>1. Len(parent) \in Nat
        OBVIOUS
    <3> HIDE DEF w
    <3> QED
        BY <3>1
  <2>6. w = [d \in 1 .. Len(parent) |-> w[d]]
    <3>1. DOMAIN w = 1 .. Len(parent)
        OBVIOUS
    <3>2. w = [d \in DOMAIN w |-> w[d]]
        OBVIOUS
    <3> HIDE DEF w
    <3> QED
        BY <3>1, <3>2
  <2>3. base \in A
      OBVIOUS
  <2> HIDE DEF w, A
  <2>4. w \in Seq(A)
      BY <2>2, <2>6
  <2>5. all \in Seq(A)
      BY <2>1, <2>3, <2>4
  <2> QED
      BY <2>5
<1>5. PICK A : all \in Seq(A)
    BY <1>4
<1> HIDE DEF all
<1>6. free \in Seq(A) /\ ToSet(free) = ToSet(all) \intersect (ToSet(all) \ taken)
    BY <1>5, PickProperties
<1>7. free # <<>> => free[1] \notin taken
  <2> HIDE DEF free
  <2>1. free # <<>> => 1 \in DOMAIN free
      BY <1>6
  <2>2. free # <<>> => free[1] \in ToSet(free)
      BY <2>1 DEF ToSet
  <2> QED
      BY <1>6, <2>2
<1> QED
    BY <1>1, <1>3, <1>7

\* Two files of different collections do not share a table by accident.
Apart(c, f, d, g) ==
  f.table = g.table =>
    \/ f.table # f.stem
    \/ g.table # g.stem
    \/ f.table = c /\ c \notin g.with
    \/ g.table = d /\ d \notin f.with

\* A file has the root's table, or one that is no root of its run.
Own(c, f) == f.table = f.stem => f.table = c \/ f.table \notin f.with \ {c}

\* A file that goes with the files of the other collections.
Fits(c, f) ==
  /\ Own(c, f)
  /\ \A d \in Collections \ {c} : \A g \in disk[d].files : Apart(c, f, d, g)

\* The root of a collection has one mapping file.
OneRoot(c, dir) == \A f, g \in dir.files : f.stem = c /\ g.stem = c => f = g

\* The root of a collection is there if any of its mapping files is.
Rooted(c, dir) ==
  IsFiniteSet(dir.files) /\ (dir.files # {} => \E f \in dir.files : f.stem = c)

TablesApart ==
  \A c \in Collections :
    /\ Rooted(c, disk[c])
    /\ \A f \in disk[c].files : Fits(c, f)

\* A collection gets new files.
LEMMA DiskChanged ==
  ASSUME TablesApart, DOMAIN disk = Collections, NEW c \in Collections, NEW dir,
         disk' = [disk EXCEPT ![c] = dir],
         Rooted(c, dir), \A f \in dir.files : f \in disk[c].files \/ Fits(c, f)
  PROVE  TablesApart'
<1>1. disk'[c] = dir /\ \A d \in Collections \ {c} : disk'[d] = disk[d]
    OBVIOUS
<1>2. \A f \in dir.files : Fits(c, f)
    BY DEF TablesApart
<1>3. ASSUME NEW f \in dir.files
      PROVE  Fits(c, f)'
    BY <1>1, <1>2 DEF Fits
<1>4. ASSUME NEW d \in Collections, d # c, NEW f \in disk[d].files
      PROVE  Fits(d, f)'
  <2>1. Fits(d, f)
      BY <1>4 DEF TablesApart
  <2>2. ASSUME NEW g \in dir.files
        PROVE  Apart(d, f, c, g)
    <3>1. Apart(c, g, d, f)
        BY <1>2, <1>4, <2>2 DEF Fits
    <3> QED
        BY <3>1 DEF Apart
  <2> QED
      BY <1>1, <2>1, <2>2 DEF Fits
<1>5. \A d \in Collections : Rooted(d, disk'[d])
    BY <1>1 DEF TablesApart
<1> QED
    BY <1>1, <1>3, <1>4, <1>5 DEF TablesApart

LEMMA ReservedHas ==
  ASSUME NEW c \in Collections
  PROVE  /\ plan \ {c} \subseteq Reserved(c)
         /\ \A d \in Collections \ {c} : \A g \in disk[d].files : g.table \in Reserved(c)
<1>1. plan \ {c} \subseteq Reserved(c)
    BY DEF Reserved
<1>2. ASSUME NEW d \in Collections \ {c}, NEW g \in disk[d].files
      PROVE  g.table \in Reserved(c)
  <2>1. g.table \in TablesIn(disk[d])
      BY DEF TablesIn
  <2>2. g.table \in UNION {TablesIn(disk[e]) : e \in Collections \ {c}}
      BY <2>1
  <2> QED
      BY <2>2 DEF Reserved
<1> QED
    BY <1>1, <1>2

LEMMA ReservedFinite ==
  ASSUME TablesApart, plan \subseteq Collections, NEW c \in Collections
  PROVE  IsFiniteSet(Reserved(c))
<1> DEFINE t == [d \in Collections |-> TablesIn(disk[d])]
           S == {t[d] : d \in Collections \ {c}}
<1>1. ASSUME NEW d \in Collections PROVE IsFiniteSet(TablesIn(disk[d]))
  <2> DEFINE F == disk[d].files   h == [f \in F |-> f.table]
  <2>1. IsFiniteSet(F)
      BY DEF TablesApart, Rooted
  <2>2. TablesIn(disk[d]) = {h[f] : f \in F}
      BY DEF TablesIn
  <2> HIDE DEF F, h
  <2> QED
      BY <2>1, <2>2, ImageFinite
<1>2. IsFiniteSet(Collections \ {c}) /\ IsFiniteSet(plan \ {c})
  <2>1. Collections \ {c} \subseteq Collections /\ plan \ {c} \subseteq Collections
      OBVIOUS
  <2> QED
      BY <2>1, CollectionFacts, FS_Subset
<1>3. \A T \in S : IsFiniteSet(T)
    BY <1>1
<1>4. Reserved(c) = (UNION S) \cup (plan \ {c})
    BY DEF Reserved
<1> HIDE DEF t
<1>5. IsFiniteSet(S)
    BY <1>2, ImageFinite
<1> HIDE DEF S
<1> DEFINE U == UNION S   P == plan \ {c}
<1>6. IsFiniteSet(U)
    BY <1>3, <1>5, FS_UNION
<1>7. IsFiniteSet(P) /\ Reserved(c) = U \cup P
    BY <1>2, <1>4
<1> HIDE DEF U, P
<1> QED
    BY <1>6, <1>7, FS_Union

\* The tables of the mapping files a collection gets are new but for its root.
LEMMA MappingsNew ==
  ASSUME Numerals, TablesApart, plan \subseteq Collections, NEW c \in Collections,
         NEW i \in DOMAIN Mappings(c)
  PROVE  /\ Mappings(c)[i].table = c \/ Mappings(c)[i].table \notin Reserved(c)
         /\ i # 1 => Mappings(c)[i].table # c
<1> DEFINE fields == Observed(c)
           names == UniqueNames(c, fields, Reserved(c))
           taken(k) == Reserved(c) \cup {c} \cup Earlier(names, k)
<1>1. /\ Mappings(c) # <<>> /\ i \in 1 .. 1 + Len(fields) /\ Mappings(c)[1].table = c
      /\ \A k \in 1 .. Len(fields) : Mappings(c)[k + 1].table = names[k]
  <2>1. DOMAIN Mappings(c) = 1 .. Len(Mappings(c)) /\ Len(Mappings(c)) \in Nat
      BY MappingsFacts
  <2>2. Mappings(c) # <<>>
    <3>1. DOMAIN <<>> = {}
        OBVIOUS
    <3> QED
        BY <3>1
  <2> QED
      BY <2>1, <2>2, MappingsFacts
<1>2. fields \in Seq(Seq(STRING)) /\ c \in Seq(STRING) /\ IsFiniteSet(Reserved(c))
    BY ObservedType, CollectionFacts, ReservedFinite
<1> HIDE DEF fields
<1>3. ASSUME NEW k \in 1 .. Len(fields)
      PROVE  names[k] = Chosen(c, fields[k], taken(k))
  <2> DEFINE ns == names   R == Reserved(c)   A == Seq(STRING)
  <2>1. ns = UniqueNames(c, fields, R) /\ fields \in Seq(A)
      BY <1>2
  <2> HIDE DEF ns, R, A
  <2>2. ns[k] = Chosen(c, fields[k], R \cup {c} \cup Earlier(ns, k))
    <3>1. NamesOf(ns, c, fields, R)
        BY <2>1, NamesFacts
    <3> QED
        BY <3>1 DEF NamesOf
  <2> QED
      BY <2>2 DEF ns, R
<1>4. ASSUME NEW k \in 1 .. Len(fields)
      PROVE  names[k] \notin Reserved(c) /\ names[k] # c
  <2>1. fields[k] \in Seq(STRING) /\ k \in Nat
      BY <1>2
  <2>2. IsFiniteSet(taken(k))
    <3> DEFINE T == Earlier(names, k)
    <3>1. IsFiniteSet(1 .. k - 1)
      <4>1. 1 \in Int /\ k - 1 \in Int
          BY <2>1
      <4> QED
          BY <4>1, FS_Interval
    <3>2. IsFiniteSet(T)
      <4> HIDE DEF names
      <4> QED
          BY <3>1, ImageFinite DEF Earlier
    <3> HIDE DEF T
    <3>3. IsFiniteSet(Reserved(c) \cup {c})
        BY <1>2, FS_AddElement
    <3>4. IsFiniteSet((Reserved(c) \cup {c}) \cup T)
        BY <3>2, <3>3, FS_Union
    <3> QED
        BY <3>4 DEF T
  <2> HIDE DEF names
  <2>3. names[k] = Chosen(c, fields[k], taken(k))
      BY <1>3
  <2> DEFINE x == fields[k]   t == taken(k)
  <2>4. Reserved(c) \subseteq t /\ c \in t
      OBVIOUS
  <2> HIDE DEF x, t
  <2>5. Chosen(c, x, t) \notin t
      BY <1>2, <2>1, <2>2, UniqueFree DEF x, t, Chosen
  <2> QED
      BY <2>3, <2>4, <2>5 DEF x, t
<1>5. CASE i = 1
    BY <1>1, <1>5
<1>6. CASE i # 1
  <2>1. Len(fields) \in Nat
      BY <1>2
  <2>2. i - 1 \in 1 .. Len(fields) /\ (i - 1) + 1 = i
      BY <1>1, <1>6, <2>1
  <2> QED
      BY <1>1, <1>4, <2>2
<1> QED
    BY <1>5, <1>6

\* A file of the collection's new mapping, torn or not, goes with all others.
LEMMA MappingFits ==
  ASSUME Numerals, TablesApart, plan \subseteq Collections, NEW c \in Collections, NEW f,
         NEW i \in DOMAIN Mappings(c), f.stem = Mappings(c)[i].stem,
         f.table = Mappings(c)[i].table, f.with = Mappings(c)[i].with
  PROVE  Fits(c, f)
<1>1. f.with = plan /\ f.table = f.stem /\ (f.table = c \/ f.table \notin Reserved(c))
    BY MappingsFacts, MappingsNew
<1>2. Own(c, f)
    BY <1>1, ReservedHas DEF Own
<1>3. ASSUME NEW d \in Collections \ {c}, NEW g \in disk[d].files, f.table = g.table, g.table = g.stem
      PROVE  f.table = c /\ c \notin g.with
  <2>1. g.table \in Reserved(c)
      BY ReservedHas
  <2>2. f.table = c
      BY <1>1, <1>3, <2>1
  <2>3. Own(d, g)
      BY DEF TablesApart, Fits
  <2> QED
      BY <1>3, <2>2, <2>3 DEF Own
<1> QED
    BY <1>2, <1>3 DEF Fits, Apart

\* The files that are there when the writing of a collection is broken off.
LEMMA BrokenOffFacts ==
  ASSUME TablesApart, NEW c \in Collections, IsDir(disk[c]), NEW n \in 0 .. 1 + Len(Mappings(c))
  PROVE  /\ Rooted(c, BrokenOff(c, n))
         /\ \A f \in BrokenOff(c, n).files :
              \/ f \in disk[c].files
              \/ \E i \in DOMAIN Mappings(c) :
                   /\ f.stem = Mappings(c)[i].stem /\ f.table = Mappings(c)[i].table
                   /\ f.with = Mappings(c)[i].with
         /\ /\ \A i \in DOMAIN Mappings(c) : i # 1 => Mappings(c)[i].stem # c
            /\ OneRoot(c, disk[c])
            => OneRoot(c, BrokenOff(c, n))
<1> DEFINE
      new == Mappings(c)
      L == Len(Mappings(c))
      old == disk[c].files
      kept == {f \in disk[c].files : n < 2 \/ \E i \in DOMAIN new : new[i].stem = f.stem}
      done == {new[i] : i \in 1 .. (IF n < 2 THEN 0 ELSE n - 2)}
      left == done \cup {f \in kept : \A g \in done : g.stem # f.stem}
      dir == Written(c, n)
      torn == File(new[n - 1].stem, new[n - 1].table, new[n - 1].with, FALSE)
      rest == {f \in left : f.stem # new[n - 1].stem}
<1>1. L \in Nat /\ DOMAIN new = 1 .. L /\ n \in Nat
    BY MappingsFacts
<1>2. dir.files = left
    BY DEF Written
<1>3. /\ n <= 1 => BrokenOff(c, n).files = left
      /\ n > 1 => BrokenOff(c, n).files = {torn} \cup rest
  <2> DEFINE j == IF n = 0 THEN disk[c].json ELSE Schema(c)
  <2>1. dir = [json |-> j, files |-> left]
      BY DEF Written
  <2>2. BrokenOff(c, n) =
          IF n = 0 THEN [dir EXCEPT !.json = "torn"]
          ELSE IF n = 1 THEN dir
               ELSE [dir EXCEPT !.files = {torn} \cup {f \in dir.files : f.stem # new[n - 1].stem}]
      BY DEF BrokenOff
  <2> HIDE DEF dir, left, torn, new, j
  <2> QED
      BY <1>1, <2>1, <2>2
<1> DEFINE Once == \A i \in DOMAIN new : i # 1 => new[i].stem # c
<1>4. IsFiniteSet(old) /\ (old # {} => \E f \in old : f.stem = c)
    BY DEF TablesApart, Rooted
<1>5. torn.stem = new[n - 1].stem /\ torn.table = new[n - 1].table /\ torn.with = new[n - 1].with
    BY DEF File
<1>6. L > 0 => new[1].stem = c
  <2>1. L > 0 => 1 \in DOMAIN new /\ new # <<>>
      BY <1>1
  <2> QED
      BY <2>1, MappingsFacts
<1> HIDE DEF new, L, dir, torn
<1>7. CASE n <= 1
  <2>1. done = {}
    <3>1. 1 .. (IF n < 2 THEN 0 ELSE n - 2) = {}
        BY <1>1, <1>7
    <3> QED
        BY <3>1
  <2>2. left = old
      BY <1>1, <1>7, <2>1
  <2> QED
      BY <1>3, <1>4, <1>7, <2>2 DEF Rooted, OneRoot
<1>8. CASE n > 1
  <2> DEFINE m == IF n < 2 THEN 0 ELSE n - 2
  <2>1. m = n - 2 /\ n - 1 \in 1 .. L /\ m \in Nat /\ 1 .. m \subseteq 1 .. L
      BY <1>1, <1>8 DEF L
  <2>2. done = {new[i] : i \in 1 .. m}
      OBVIOUS
  <2> HIDE DEF m
  <2>3. IsFiniteSet(done)
    <3>1. IsFiniteSet(1 .. m)
      <4>1. 1 \in Int /\ m \in Int
          BY <2>1
      <4> QED
          BY <4>1, FS_Interval
    <3> HIDE DEF done
    <3> QED
        BY <2>2, <3>1, ImageFinite
  <2>4. left \subseteq done \cup old
      OBVIOUS
  <2>5. IsFiniteSet({torn} \cup rest)
    <3>1. IsFiniteSet(done \cup old)
      <4> HIDE DEF done, old
      <4> QED
          BY <1>4, <2>3, FS_Union
    <3>2. IsFiniteSet((done \cup old) \cup {torn})
        BY <3>1, FS_AddElement
    <3>3. {torn} \cup rest \subseteq (done \cup old) \cup {torn}
        BY <2>4
    <3> QED
        BY <3>2, <3>3, FS_Subset
  <2>6. \E f \in {torn} \cup rest : f.stem = c
    <3>1. CASE new[n - 1].stem = c
        BY <1>5, <3>1
    <3>2. CASE new[n - 1].stem # c
      <4>1. n - 1 # 1 /\ new[1].stem = c
        <5>1. L > 0
            BY <1>1, <2>1
        <5> QED
            BY <1>6, <3>2, <5>1
      <4>2. 1 \in 1 .. m
          BY <1>1, <1>8, <2>1, <4>1
      <4>3. new[1] \in done
          BY <2>2, <4>2
      <4> QED
          BY <3>2, <4>1, <4>3
    <3> QED
        BY <3>1, <3>2
  <2>7. ASSUME NEW f \in {torn} \cup rest
        PROVE  \/ f \in old
               \/ \E i \in DOMAIN new :
                    /\ f.stem = new[i].stem /\ f.table = new[i].table
                    /\ f.with = new[i].with
    <3>1. CASE f = torn
        BY <1>1, <1>5, <2>1, <3>1
    <3>2. CASE f \in done
      <4>1. PICK i \in 1 .. m : f = new[i]
          BY <2>2, <3>2
      <4> QED
          BY <1>1, <2>1, <4>1
    <3> QED
        BY <2>4, <2>7, <3>1, <3>2
  <2>8. BrokenOff(c, n).files = {torn} \cup rest
      BY <1>3, <1>8
  <2>9. ASSUME Once, OneRoot(c, disk[c]), NEW f \in {torn} \cup rest, NEW g \in {torn} \cup rest,
               f.stem = c, g.stem = c
        PROVE  f = g
    <3>1. L > 0 /\ new[1].stem = c /\ DOMAIN new = 1 .. L /\ L \in Nat
        BY <1>1, <1>6, <2>1
    <3>2. CASE n - 1 = 1
      <4>1. torn.stem = c
          BY <1>5, <3>1, <3>2
      <4> QED
          BY <1>5, <2>9, <4>1
    <3>3. CASE n - 1 # 1
      <4>1. 1 \in 1 .. m /\ torn.stem # c
          BY <1>1, <1>5, <1>8, <2>1, <2>9, <3>1, <3>3
      <4>2. new[1] \in done
          BY <2>2, <4>1
      <4>3. ASSUME NEW h \in {torn} \cup rest, h.stem = c PROVE h = new[1]
        <5>1. h \in done
            BY <3>1, <4>1, <4>2, <4>3
        <5>2. PICK i \in 1 .. m : h = new[i]
            BY <2>2, <5>1
        <5>3. i = 1
            BY <2>1, <2>9, <3>1, <4>3, <5>2
        <5> QED
            BY <5>2, <5>3
      <4> QED
          BY <2>9, <4>3
    <3> QED
        BY <3>2, <3>3
  <2> HIDE DEF rest, old
  <2> QED
      BY <2>5, <2>6, <2>7, <2>8, <2>9 DEF Rooted, OneRoot, new, old
<1> QED
    BY <1>1, <1>7, <1>8

LEMMA ApartInit == ToPgInit => TablesApart
<1> SUFFICES ASSUME ToPgInit
             PROVE  TablesApart
    OBVIOUS
<1>1. \A c \in Collections : disk[c].files = {}
    BY DEF ToPgInit, InferInit, NoArtifacts
<1> QED
    BY <1>1, FS_EmptySet DEF TablesApart, Rooted

\* A member is rewritten: its root's file is the one of the group from now on.
LEMMA ApartRewritten ==
  ASSUME Control, Dirs, TablesApart, membersLeft # <<>>, NEW b \in BOOLEAN,
         PutSource(Head(membersLeft),
                   Rewritten(Head(membersLeft), Prefix(Head(membersLeft)), b)),
         remote' = remote
  PROVE  TablesApart'
<1>1. PICK c \in Collections : c = Head(membersLeft) /\ Source(c).files # {} /\ IsDir(Source(c))
  <2> DEFINE h == Head(membersLeft)
  <2>1. h \in Collections /\ Source(h).files # {} /\ IsDir(Source(h))
      BY MembersFacts DEF Control, Dirs, Source
  <2> QED
      BY <2>1
<1>2. CASE remote
    BY <1>2 DEF PutSource, TablesApart, Fits
<1>3. CASE ~remote
  <2> DEFINE root == RootFile(c)
             t == Prefix(c)
             file == File(root.stem, t, root.with, b)
             F == (Source(c).files \ {root}) \cup {file}
  <2>1. /\ root \in Source(c).files
        /\ Rewritten(c, t, b) = [json |-> Source(c).json, files |-> F]
        /\ file.stem = root.stem /\ file.table = t
      BY <1>1, RewrittenFacts
  <2>2. Source(c) = disk[c]
      BY <1>3 DEF Source
  <2>3. disk' = [disk EXCEPT ![c] = Rewritten(c, t, b)]
      BY <1>1, <1>3 DEF PutSource
  <2>4. root.stem = c
    <3>1. \E f \in disk[c].files : f.stem = c
        BY <1>1, <2>2 DEF TablesApart, Rooted
    <3> QED
        BY <2>2, <3>1 DEF RootFile
  <2>5. t # c
    <3>1. c \in Seq(STRING) \ {<<>>}
        BY CollectionFacts
    <3>2. Len(c) \in Nat /\ Len(c) > 0
        BY <3>1
    <3>3. Len(SubSeq(c, 1, Len(c) - 1)) = Len(c) - 1
      <4> DEFINE k == Len(c) - 1
      <4>1. 1 \in Int /\ k \in Int /\ k >= 0 /\ \A i \in 1 .. k : c[i] \in STRING
          BY <3>1, <3>2
      <4> HIDE DEF k
      <4>2. Len(SubSeq(c, 1, k)) = IF 1 <= k THEN k - 1 + 1 ELSE 0
          BY <4>1, SubSeqProperties
      <4>3. Len(SubSeq(c, 1, k)) = k
          BY <4>1, <4>2
      <4> QED
          BY <4>3 DEF k
    <3> QED
        BY <3>2, <3>3 DEF Prefix
  <2> HIDE DEF root, t, file
  <2>6. Fits(c, file)
      BY <2>1, <2>4, <2>5 DEF Fits, Own, Apart
  <2> DEFINE dir == Rewritten(c, t, b)
  <2>7. dir.files = F
      BY <2>1
  <2>8. Rooted(c, dir)
    <3>1. IsFiniteSet(disk[c].files)
        BY DEF TablesApart, Rooted
    <3>2. IsFiniteSet(disk[c].files \ {root})
        BY <3>1, FS_RemoveElement, FS_Subset
    <3>3. IsFiniteSet((disk[c].files \ {root}) \cup {file})
        BY <3>2, FS_AddElement
    <3>4. file \in F /\ file.stem = c
        BY <2>1, <2>4
    <3> QED
        BY <2>2, <2>7, <3>3, <3>4 DEF Rooted
  <2>9. \A f \in dir.files : f \in disk[c].files \/ Fits(c, f)
      BY <2>2, <2>6, <2>7
  <2> HIDE DEF dir
  <2> QED
      BY <2>3, <2>8, <2>9, DiskChanged DEF dir, Dirs
<1> QED
    BY <1>2, <1>3

LEMMA ApartStep ==
  ASSUME Numerals
  PROVE  Control /\ Dirs /\ TablesApart /\ [Next]_vars => TablesApart'
<1> SUFFICES ASSUME Control, Dirs, TablesApart, [Next]_vars
             PROVE  TablesApart'
    OBVIOUS
<1>0. /\ \A c \in Collections : IsDir(disk[c])
      /\ DOMAIN disk = Collections /\ plan \subseteq Collections
    BY DEF Dirs, Control
<1>1. ASSUME disk' = disk PROVE TablesApart'
    BY <1>1 DEF TablesApart, Fits
<1>2. CASE Begin
    BY <1>1, <1>2 DEF Begin, BeginRun, fileVars
<1>3. CASE InferNext
  <2>1. ASSUME NEW c \in Collections, Job(c), ~WriteFiles(c), ~WriteFails(c) PROVE TablesApart'
      BY <1>1, <2>1
         DEF Job, StartJob, SampleDone, SampleFails, Undecodable, Chunk, ReadChunk, CursorRefused,
             CursorBreaks, FindFails, fileVars
  <2>2. ASSUME NEW c \in Collections, WriteFiles(c) PROVE TablesApart'
    <3> DEFINE dir == Written(c, 2 + Len(Mappings(c)))
    <3>1. disk' = [disk EXCEPT ![c] = dir]
        BY <2>2 DEF WriteFiles
    <3>2. dir.files = ToSet(Mappings(c))
      <4>1. dir = [json |-> Schema(c), files |-> ToSet(Mappings(c))]
          BY <1>0, WrittenFacts
      <4> QED
          BY <4>1
    <3>3. DOMAIN Mappings(c) = 1 .. Len(Mappings(c)) /\ Len(Mappings(c)) \in Nat
        BY MappingsFacts
    <3>4. ToSet(Mappings(c)) = {Mappings(c)[i] : i \in DOMAIN Mappings(c)}
        BY DEF ToSet
    <3>5. IsFiniteSet(ToSet(Mappings(c)))
      <4> DEFINE M == Mappings(c)   L == Len(Mappings(c))
      <4>1. IsFiniteSet(1 .. L)
        <5>1. 1 \in Int /\ L \in Int
            BY <3>3
        <5> QED
            BY <5>1, FS_Interval
      <4>2. ToSet(M) = {M[i] : i \in 1 .. L}
          BY <3>3, <3>4
      <4> DEFINE T == ToSet(M)
      <4>3. T = {M[i] : i \in 1 .. L}
          BY <4>2
      <4> HIDE DEF M, L, T
      <4>4. IsFiniteSet(T)
          BY <4>1, <4>3, ImageFinite
      <4> QED
          BY <4>4 DEF M, T
    <3>6. ToSet(Mappings(c)) # {} => \E f \in ToSet(Mappings(c)) : f.stem = c
      <4>1. ASSUME NEW i \in DOMAIN Mappings(c)
            PROVE  1 \in DOMAIN Mappings(c) /\ Mappings(c)[1].stem = c
        <5>1. 1 \in DOMAIN Mappings(c)
            BY <3>3
        <5>2. Mappings(c) # <<>>
            BY <5>1
        <5> QED
            BY <5>1, <5>2, MappingsFacts
      <4> QED
          BY <3>4, <4>1
    <3>7. \A f \in dir.files : Fits(c, f)
        BY <1>0, <3>2, <3>4, MappingFits
    <3>8. Rooted(c, dir)
        BY <3>2, <3>5, <3>6 DEF Rooted
    <3> HIDE DEF dir
    <3> QED
        BY <1>0, <3>1, <3>7, <3>8, DiskChanged
  <2>3. ASSUME NEW c \in Collections, WriteFails(c) PROVE TablesApart'
    <3> DEFINE dir == [disk[c] EXCEPT !.json = Schema(c)]
    <3>1. disk' = [disk EXCEPT ![c] = dir]
        BY <2>3 DEF WriteFails
    <3>2. dir.files = disk[c].files
      <4> DEFINE D == disk[c]   j == Schema(c)
      <4>1. D = [json |-> D.json, files |-> D.files]
          BY <1>0 DEF IsDir
      <4> HIDE DEF D, j
      <4>2. [D EXCEPT !.json = j].files = D.files
          BY <4>1
      <4> QED
          BY <4>2 DEF D, j
    <3>3. Rooted(c, dir)
        BY <3>2 DEF TablesApart, Rooted
    <3> HIDE DEF dir
    <3> QED
        BY <1>0, <3>1, <3>2, <3>3, DiskChanged
  <2>4. ASSUME NEW c \in Collections, KillWriting(c) PROVE TablesApart'
    <3>1. PICK n \in 0 .. 1 + Len(Mappings(c)) :
             disk' = [disk EXCEPT ![c] = BrokenOff(c, n)]
        BY <2>4 DEF KillWriting
    <3> DEFINE dir == BrokenOff(c, n)
    <3>2. /\ Rooted(c, dir)
          /\ \A f \in dir.files :
               \/ f \in disk[c].files
               \/ \E i \in DOMAIN Mappings(c) :
                    /\ f.stem = Mappings(c)[i].stem /\ f.table = Mappings(c)[i].table
                    /\ f.with = Mappings(c)[i].with
        BY <1>0, BrokenOffFacts
    <3>3. \A f \in dir.files : f \in disk[c].files \/ Fits(c, f)
        BY <1>0, <3>2, MappingFits
    <3> HIDE DEF dir
    <3> QED
        BY <1>0, <3>1, <3>2, <3>3, DiskChanged DEF dir
  <2>5. CASE JobsDone \/ KillInfer
      BY <1>1, <2>5 DEF JobsDone, KillInfer, fileVars
  <2>6. ASSUME NEW c \in Collections, Upload(c) \/ UploadFails(c) PROVE TablesApart'
      BY <1>1, <2>6 DEF Upload, UploadFails
  <2>7. ASSUME NEW c \in Collections, Purge(c) PROVE TablesApart'
    <3>1. disk' = [disk EXCEPT ![c] = NoArtifacts]
        BY <2>7 DEF Purge
    <3>2. NoArtifacts.files = {} /\ Rooted(c, NoArtifacts)
        BY FS_EmptySet DEF NoArtifacts, Rooted
    <3> QED
        BY <1>0, <3>1, <3>2, DiskChanged
  <2>8. CASE MoveDone
      BY <1>1, <2>8 DEF MoveDone
  <2> QED
      BY <1>3, <2>1, <2>2, <2>3, <2>4, <2>5, <2>6, <2>7, <2>8 DEF InferNext, Move
<1>4. CASE BeginToPg
    BY <1>1, <1>4 DEF BeginToPg, fileVars
<1>5. CASE GroupStep
  <2>1. ASSUME NEW g, SkipGroup(g) \/ OpenGroup(g) PROVE TablesApart'
      BY <1>1, <2>1 DEF SkipGroup, OpenGroup, fileVars
  <2>2. CASE RewriteMember
      BY <2>2, ApartRewritten DEF RewriteMember, runVars
  <2>3. CASE RewriteFails
      BY <2>3, ApartRewritten DEF RewriteFails
  <2>4. CASE GroupsDone
      BY <1>1, <2>4 DEF GroupsDone, fileVars
  <2> QED
      BY <1>5, <2>1, <2>2, <2>3, <2>4 DEF GroupStep
<1>6. CASE SqlStep
    BY <1>1, <1>6 DEF SqlStep, WriteSql, SqlFails, SqlDone, fileVars
<1>7. CASE Publish \/ PublishFails \/ KillToPg
    BY <1>1, <1>7 DEF Publish, PublishFails, KillToPg, fileVars
<1>8. CASE UNCHANGED vars
    BY <1>1, <1>8 DEF vars, inferVars, fileVars
<1> QED
    BY <1>2, <1>3, <1>4, <1>5, <1>6, <1>7, <1>8 DEF Next, Rest

\* In a local project two collections share a table only as the members of a
\* group, or when the one was inferred by a run that had excluded the other:
\* no order in which the jobs finish gives one name to two of their tables
\* (infer.rs, the names reserved for a collection).  That different numbers are
\* written differently is all that is asked of ToString.
THEOREM OneCollectionPerTableCorrect ==
  ASSUME Numerals
  PROVE  Spec => []OneCollectionPerTable
<1>1. TablesApart => OneCollectionPerTable
    BY DEF TablesApart, Fits, Apart, OneCollectionPerTable
<1>2. ToPgInit => TablesApart
    BY ApartInit
<1>3. Sampling /\ Control /\ Dirs /\ TablesApart /\ [Next]_vars => TablesApart'
    BY ApartStep
<1> QED
    BY <1>1, <1>2, <1>3, StateCorrect, PTL DEF Spec
-----------------------------------------------------------------------------
(* SQL files and mapping files.                                            *)

\* The directories to-pg works on and the SQL files it writes, and where they
\* are in the end.
Sources == IF remote THEN staged ELSE disk
Sqls == IF remote THEN stagedSql ELSE sql
Homes == IF remote THEN bucket ELSE disk

\* The root of every collection has one mapping file, wherever it is.
Roots ==
  \A c \in Collections : OneRoot(c, disk[c]) /\ OneRoot(c, bucket[c]) /\ OneRoot(c, staged[c])

\* The collections with a schema, and those of a group.
Present(dirs) == {c \in Collections : dirs[c].json # "none"}
InGroup(g, dirs) == {c \in Present(dirs) : Prefix(c) = g}

\* The root of a collection is mapped to the table of its group.
MappedTo(c, g, dirs) ==
  /\ \A f \in dirs[c].files : f.stem = c => f.table = g
  /\ dirs[c].files # {} => g \in TablesIn(dirs[c])

\* A group that is settled has all collections of its prefix.
Grouped(dirs) ==
  \A c \in Collections : groupOf[c] # <<>> =>
    /\ c \in InGroup(groupOf[c], dirs)
    /\ \A e \in InGroup(groupOf[c], dirs) : groupOf[e] = groupOf[c]
    /\ MappedTo(c, groupOf[c], dirs)

\* Of the group at hand all members are rewritten or still to be.
Rewriting ==
  LET g == Prefix(Head(membersLeft))
  IN  membersLeft # <<>> =>
        /\ g # <<>>
        /\ \A i \in DOMAIN membersLeft : membersLeft[i] \in InGroup(g, Sources)
        /\ \A e \in InGroup(g, Sources) : e \in ToSet(membersLeft) \/ MappedTo(e, g, Sources)

\* What the SQL files say of a collection, unless another has the same name.
Shared(n) == n \in Collections /\ \E d \in Collections : groupOf[d] = n
Stands(c, dirs) == groupOf[c] = <<>> \/ c = Head(Pick(Order, InGroup(groupOf[c], dirs)))
TablesFor(c, dirs) == IF dirs[c].files = {} THEN {SqlName(c)} ELSE TablesIn(dirs[c])
SqlOf(tables) == [tables |-> tables, whole |-> TRUE]
Told(c, dirs, sqls) ==
  Stands(c, dirs) /\ ~Shared(SqlName(c)) => sqls[SqlName(c)] = SqlOf(TablesFor(c, dirs))
Silent(c, dirs, sqls) ==
  ~Stands(c, dirs) /\ ~Shared(c) => sqls[c] = NoSql

\* Each file of the one is replaced by a file of the other.
Covers(new, old) ==
  /\ new.json = old.json
  /\ \A f \in old.files : \E g \in new.files : g.stem = f.stem

Course ==
  /\ phase \in {"infer", "move", "purge", "topg"} => \A c \in Collections : groupOf[c] = <<>>
  /\ phase \in {"infer", "move", "purge", "topg", "group"} => outcome = "none"
  /\ phase = "sql" => outcome # "ok"
  /\ phase = "group" => Present(Sources) \subseteq ToSet(sqlLeft)
  /\ phase = "publish" => sqlLeft = <<>>
  /\ sqlLeft \in Seq(Collections)
  /\ <<>> \notin groupsLeft
  /\ DOMAIN sql = SqlNames /\ DOMAIN stagedSql = SqlNames
  /\ remote /\ phase \in {"group", "sql", "publish"} =>
       \A c \in Collections : Covers(staged[c], bucket[c])

Groups ==
  /\ phase \in {"group", "sql", "publish"} => Grouped(Sources)
  /\ phase = "idle" /\ outcome = "ok" => Grouped(Homes)
  /\ Rewriting

SqlSays ==
  /\ phase = "sql" /\ outcome = "none" =>
       \A c \in Present(Sources) \ ToSet(sqlLeft) :
         Told(c, Sources, Sqls) /\ Silent(c, Sources, Sqls)
  /\ phase = "publish" /\ outcome = "ok" =>
       \A c \in Present(Sources) : Told(c, Sources, Sqls)
  /\ phase = "idle" /\ outcome = "ok" =>
       \A c \in Present(Homes) : Told(c, Homes, sql) /\ (~remote => Silent(c, Homes, sql))

\* Rewriting a member maps its root to the table of the group.
LEMMA RewrittenRoot ==
  ASSUME NEW c, IsDir(Source(c)), Source(c).files # {}, OneRoot(c, Source(c)), NEW t, NEW b \in BOOLEAN
  PROVE  LET dir == Rewritten(c, t, b)
         IN  /\ OneRoot(c, dir)
             /\ \A f \in dir.files : f.stem = c => f.table = t
             /\ t \in TablesIn(dir)
             /\ Covers(dir, Source(c))
             /\ IsDir(dir)
<1> DEFINE root == RootFile(c)
           file == File(root.stem, t, root.with, b)
           old == Source(c).files
           F == (old \ {root}) \cup {file}
           dir == Rewritten(c, t, b)
<1>1. /\ root \in old /\ dir = [json |-> Source(c).json, files |-> F] /\ IsDir(dir)
      /\ file.stem = root.stem /\ file.table = t
    BY RewrittenFacts
<1>2. \A f \in old : f.stem = c => f = root
  <2> DEFINE roots == {f \in old : f.stem = c}
  <2>1. ASSUME NEW f \in old, f.stem = c PROVE f = root
    <3>1. roots # {}
        BY <2>1
    <3>2. root = CHOOSE h \in roots : TRUE
        BY <3>1 DEF RootFile
    <3>3. root \in roots
      <4> HIDE DEF roots, root
      <4> QED
          BY <3>1, <3>2
    <3> QED
        BY <2>1, <3>3 DEF OneRoot
  <2> QED
      BY <2>1
<1>3. dir.files = F /\ dir.json = Source(c).json
    BY <1>1
<1> HIDE DEF dir, file, root
<1>4. \A f \in F : f.stem = c => f = file
    BY <1>1, <1>2
<1>5. file \in F /\ (\A f \in old : \E g \in F : g.stem = f.stem)
  <2>1. file \in F
      OBVIOUS
  <2>2. ASSUME NEW f \in old PROVE \E g \in F : g.stem = f.stem
    <3>1. CASE f = root
        BY <1>1, <2>1, <3>1
    <3>2. CASE f # root
        BY <3>2
    <3> QED
        BY <3>1, <3>2
  <2> QED
      BY <2>1, <2>2
<1> HIDE DEF F
<1> QED
    BY <1>1, <1>3, <1>4, <1>5 DEF OneRoot, TablesIn, Covers, old, dir

\* What replaces each file of a directory replaces the directory.
LEMMA OverlayCovered ==
  ASSUME NEW old, NEW new, IsDir(new), Covers(new, old)
  PROVE  Overlay(old, new) = new
<1> DEFINE F == new.files \cup {f \in old.files : \A g \in new.files : g.stem # f.stem}
           j == IF new.json = "none" THEN old.json ELSE new.json
<1>1. Overlay(old, new) = [json |-> j, files |-> F]
    BY DEF Overlay
<1>2. F = new.files /\ j = new.json
    BY DEF Covers
<1>3. new = [json |-> new.json, files |-> new.files]
    BY DEF IsDir
<1> HIDE DEF F, j
<1> QED
    BY <1>1, <1>2, <1>3

LEMMA OneRootOverlay ==
  ASSUME NEW c, NEW old, NEW new, OneRoot(c, old), OneRoot(c, new)
  PROVE  OneRoot(c, Overlay(old, new))
<1> DEFINE F == new.files \cup {f \in old.files : \A g \in new.files : g.stem # f.stem}
<1>1. Overlay(old, new).files = F
    BY DEF Overlay
<1>2. \A f, g \in F : f.stem = c /\ g.stem = c => f = g
    BY DEF OneRoot
<1> QED
    BY <1>1, <1>2 DEF OneRoot

\* New mappings have one file for the root.
LEMMA MappingsOneRoot ==
  ASSUME Numerals, TablesApart, plan \subseteq Collections, NEW c \in Collections
  PROVE  \A i \in DOMAIN Mappings(c) : i # 1 => Mappings(c)[i].stem # c
<1>1. ASSUME NEW i \in DOMAIN Mappings(c), i # 1 PROVE Mappings(c)[i].stem # c
  <2>1. Mappings(c)[i].table # c
      BY <1>1, MappingsNew
  <2>2. Mappings(c)[i].table = Mappings(c)[i].stem
      BY MappingsFacts
  <2> QED
      BY <2>1, <2>2
<1> QED
    BY <1>1

LEMMA RootsInit == ToPgInit => Roots
<1> SUFFICES ASSUME ToPgInit
             PROVE  Roots
    OBVIOUS
<1>1. \A c \in Collections : disk[c] = NoArtifacts /\ bucket[c] = NoArtifacts /\ staged[c] = NoArtifacts
    BY DEF ToPgInit, InferInit
<1>2. \A c : OneRoot(c, NoArtifacts)
    BY DEF OneRoot, NoArtifacts
<1> QED
    BY <1>1, <1>2 DEF Roots

LEMMA RootsRewritten ==
  ASSUME Roots, Dirs, Control, membersLeft # <<>>, NEW t, NEW b \in BOOLEAN,
         PutSource(Head(membersLeft), Rewritten(Head(membersLeft), t, b)),
         remote' = remote, bucket' = bucket
  PROVE  Roots'
<1>1. PICK c \in Collections : c = Head(membersLeft) /\ Source(c).files # {} /\ IsDir(Source(c))
                               /\ OneRoot(c, Source(c))
  <2> DEFINE h == Head(membersLeft)
  <2>1. h \in Collections /\ Source(h).files # {} /\ IsDir(Source(h)) /\ OneRoot(h, Source(h))
      BY MembersFacts DEF Control, Dirs, Source, Roots
  <2> QED
      BY <2>1
<1>2. PICK dir : dir = Rewritten(c, t, b) /\ OneRoot(c, dir)
    BY <1>1, RewrittenRoot
<1>3. PutSource(c, dir)
    BY <1>1, <1>2
<1>4. /\ \A d \in Collections \ {c} : disk'[d] = disk[d] /\ staged'[d] = staged[d]
      /\ IF remote THEN disk' = disk /\ staged'[c] = dir ELSE staged' = staged /\ disk'[c] = dir
    BY <1>3, PutSourceFacts
<1>5. ASSUME NEW d \in Collections
      PROVE  OneRoot(d, disk'[d]) /\ OneRoot(d, bucket'[d]) /\ OneRoot(d, staged'[d])
  <2>1. CASE d = c
      BY <1>2, <1>4, <2>1 DEF Roots
  <2>2. CASE d # c
      BY <1>4, <2>2 DEF Roots
  <2> QED
      BY <2>1, <2>2
<1> QED
    BY <1>5 DEF Roots

LEMMA RootsStep ==
  ASSUME Numerals
  PROVE  Control /\ Dirs /\ TablesApart /\ Roots /\ [Next]_vars => Roots'
<1> SUFFICES ASSUME Control, Dirs, TablesApart, Roots, [Next]_vars
             PROVE  Roots'
    OBVIOUS
<1>0. /\ \A c \in Collections : IsDir(disk[c])
      /\ DOMAIN disk = Collections /\ DOMAIN bucket = Collections /\ plan \subseteq Collections
      /\ \A c \in Collections : OneRoot(c, disk[c]) /\ OneRoot(c, bucket[c]) /\ OneRoot(c, staged[c])
      /\ \A c : OneRoot(c, NoArtifacts)
    BY DEF Dirs, Control, Roots, OneRoot, NoArtifacts
<1>1. ASSUME UNCHANGED <<disk, bucket, staged>> PROVE Roots'
    BY <1>1 DEF Roots
<1>2. CASE Begin
    BY <1>1, <1>2 DEF Begin, BeginRun, fileVars
<1>3. CASE InferNext /\ UNCHANGED toPgVars
  <2>0. staged' = staged
      BY <1>3 DEF toPgVars
  <2>1. ASSUME NEW c \in Collections, Job(c), ~WriteFiles(c), ~WriteFails(c) PROVE Roots'
      BY <1>1, <2>0, <2>1
         DEF Job, StartJob, SampleDone, SampleFails, Undecodable, Chunk, ReadChunk, CursorRefused,
             CursorBreaks, FindFails, fileVars
  <2>2. ASSUME NEW c \in Collections, NEW dir, OneRoot(c, dir), bucket' = bucket,
               disk' = [disk EXCEPT ![c] = dir]
        PROVE  Roots'
      BY <1>0, <2>0, <2>2 DEF Roots
  <2>3. ASSUME NEW c \in Collections, NEW dir, OneRoot(c, dir), disk' = disk,
               bucket' = [bucket EXCEPT ![c] = dir]
        PROVE  Roots'
      BY <1>0, <2>0, <2>3 DEF Roots
  <2>4. ASSUME NEW c \in Collections, WriteFiles(c) PROVE Roots'
    <3> DEFINE dir == Written(c, 2 + Len(Mappings(c)))
    <3>1. disk' = [disk EXCEPT ![c] = dir] /\ bucket' = bucket
        BY <2>4 DEF WriteFiles
    <3>2. dir.files = ToSet(Mappings(c))
      <4>1. dir = [json |-> Schema(c), files |-> ToSet(Mappings(c))]
          BY <1>0, WrittenFacts
      <4> QED
          BY <4>1
    <3>3. \A f \in ToSet(Mappings(c)) : f.stem = c => f = Mappings(c)[1]
        BY <1>0, MappingsOneRoot DEF ToSet
    <3>4. OneRoot(c, dir)
      <4> HIDE DEF dir
      <4> QED
          BY <3>2, <3>3 DEF OneRoot
    <3> HIDE DEF dir
    <3> QED
        BY <2>2, <3>1, <3>4
  <2>5. ASSUME NEW c \in Collections, WriteFails(c) PROVE Roots'
    <3> DEFINE dir == [disk[c] EXCEPT !.json = Schema(c)]
    <3>1. disk' = [disk EXCEPT ![c] = dir] /\ bucket' = bucket
        BY <2>5 DEF WriteFails
    <3>2. dir.files = disk[c].files
      <4> DEFINE D == disk[c]   j == Schema(c)
      <4>1. D = [json |-> D.json, files |-> D.files]
          BY <1>0 DEF IsDir
      <4> HIDE DEF D, j
      <4>2. [D EXCEPT !.json = j].files = D.files
          BY <4>1
      <4> QED
          BY <4>2 DEF D, j
    <3>3. OneRoot(c, dir)
        BY <1>0, <3>2 DEF OneRoot
    <3> HIDE DEF dir
    <3> QED
        BY <2>2, <3>1, <3>3
  <2>6. ASSUME NEW c \in Collections, KillWriting(c) PROVE Roots'
    <3>1. PICK n \in 0 .. 1 + Len(Mappings(c)) : disk' = [disk EXCEPT ![c] = BrokenOff(c, n)]
        BY <2>6 DEF KillWriting
    <3>2. bucket' = bucket
        BY <2>6 DEF KillWriting
    <3>3. OneRoot(c, BrokenOff(c, n))
        BY <1>0, BrokenOffFacts, MappingsOneRoot
    <3> QED
        BY <2>2, <3>1, <3>2, <3>3
  <2>7. CASE JobsDone \/ KillInfer
      BY <1>1, <2>0, <2>7 DEF JobsDone, KillInfer, fileVars
  <2>8. ASSUME NEW c \in Collections, Upload(c) PROVE Roots'
    <3>1. bucket' = [bucket EXCEPT ![c] = Overlay(bucket[c], disk[c])] /\ disk' = disk
        BY <2>8 DEF Upload
    <3> QED
        BY <1>0, <2>3, <3>1, OneRootOverlay
  <2>9. ASSUME NEW c \in Collections, UploadFails(c) PROVE Roots'
    <3> DEFINE part(files) == [disk[c] EXCEPT !.files = files]
    <3>1. PICK files \in SUBSET disk[c].files :
             bucket' = [bucket EXCEPT ![c] = Overlay(bucket[c], part(files))]
        BY <2>9 DEF UploadFails
    <3>2. disk' = disk
        BY <2>9 DEF UploadFails
    <3>3. OneRoot(c, part(files))
      <4> DEFINE D == disk[c]
      <4>1. D = [json |-> D.json, files |-> D.files] /\ OneRoot(c, D) /\ files \subseteq D.files
          BY <1>0 DEF IsDir
      <4> HIDE DEF D
      <4>2. [D EXCEPT !.files = files].files = files
          BY <4>1
      <4> QED
          BY <4>1, <4>2 DEF OneRoot, D
    <3> HIDE DEF part
    <3>4. OneRoot(c, Overlay(bucket[c], part(files)))
        BY <1>0, <3>3, OneRootOverlay
    <3> QED
        BY <2>3, <3>1, <3>2, <3>4
  <2>10. ASSUME NEW c \in Collections, Purge(c) PROVE Roots'
      BY <1>0, <2>2, <2>10 DEF Purge
  <2>11. CASE MoveDone
      BY <1>1, <2>0, <2>11 DEF MoveDone
  <2> QED
      BY <1>3, <2>1, <2>4, <2>5, <2>6, <2>7, <2>8, <2>9, <2>10, <2>11 DEF InferNext, Move
<1>4. CASE BeginToPg
  <2>1. disk' = disk /\ bucket' = bucket /\ (staged' = staged \/ staged' = bucket)
      BY <1>4 DEF BeginToPg, fileVars
  <2> QED
      BY <1>0, <2>1 DEF Roots
<1>5. CASE GroupStep
  <2>1. ASSUME NEW g, SkipGroup(g) \/ OpenGroup(g) PROVE Roots'
      BY <1>1, <2>1 DEF SkipGroup, OpenGroup, fileVars
  <2>2. CASE RewriteMember
      BY <2>2, RootsRewritten DEF RewriteMember, runVars
  <2>3. CASE RewriteFails
      BY <2>3, RootsRewritten DEF RewriteFails
  <2>4. CASE GroupsDone
      BY <1>1, <2>4 DEF GroupsDone, fileVars, toPgVars
  <2> QED
      BY <1>5, <2>1, <2>2, <2>3, <2>4 DEF GroupStep
<1>6. CASE SqlStep
    BY <1>1, <1>6 DEF SqlStep, WriteSql, SqlFails, SqlDone, fileVars
<1>7. ASSUME disk' = disk, DropStage,
             \A c \in Collections : bucket'[c] = Overlay(bucket[c], staged[c]) \/ bucket'[c] = bucket[c]
      PROVE  Roots'
  <2>1. \A c \in Collections : staged'[c] = NoArtifacts
      BY <1>7 DEF DropStage
  <2> QED
      BY <1>0, <1>7, <2>1, OneRootOverlay DEF Roots
<1>8. CASE Publish \/ PublishFails
  <2>1. PICK collections, names : PutInBucket(collections, names)
      BY <1>8 DEF Publish, PublishFails
  <2>2. \A c \in Collections : bucket'[c] = Overlay(bucket[c], staged[c]) \/ bucket'[c] = bucket[c]
      BY <2>1 DEF PutInBucket
  <2>3. disk' = disk /\ DropStage
      BY <1>8 DEF Publish, PublishFails
  <2> QED
      BY <1>7, <2>2, <2>3
<1>9. CASE KillToPg
    BY <1>7, <1>9 DEF KillToPg, fileVars
<1>10. CASE UNCHANGED vars
    BY <1>1, <1>10 DEF vars, inferVars, fileVars, toPgVars
<1> QED
    BY <1>2, <1>3, <1>4, <1>5, <1>6, <1>8, <1>9, <1>10 DEF Next, Rest

\* What infer does to the course of a run.
LEMMA InferLeaves ==
  ASSUME Sampling, Control, InferNext
  PROVE  /\ phase \in {"infer", "move", "purge"}
         /\ phase' \in {"infer", "move", "purge", "topg", "idle"}
<1>1. ASSUME NEW c \in Collections, Job(c)
      PROVE  phase = "infer" /\ phase' = phase
  <2>1. phase' = phase
      BY <1>1, JobMoves DEF Sampling
  <2>2. phase # "infer" => job[c] = "none"
      BY DEF Sampling
  <2>3. job[c] # "none" \/ phase = "infer"
      BY <1>1 DEF Job, StartJob, SampleDone, SampleFails, Undecodable, Chunk, ReadChunk,
                  CursorRefused, CursorBreaks, FindFails, WriteFiles, WriteFails
  <2> QED
      BY <2>1, <2>2, <2>3
<1>2. ASSUME NEW c \in Collections, KillWriting(c)
      PROVE  phase = "infer" /\ phase' = "idle"
    BY <1>2 DEF KillWriting
<1>3. CASE JobsDone
    BY <1>3 DEF JobsDone
<1>4. CASE Move
  <2>1. ASSUME NEW c \in Collections, Upload(c) \/ UploadFails(c) \/ Purge(c)
        PROVE  phase \in {"move", "purge"} /\ phase' \in {"move", "purge", "idle"}
      BY <2>1 DEF Upload, UploadFails, Purge, runVars
  <2>2. CASE MoveDone
      BY <2>2 DEF MoveDone
  <2> QED
      BY <1>4, <2>1, <2>2 DEF Move
<1>5. CASE KillInfer
    BY <1>5 DEF KillInfer
<1> QED
    BY <1>1, <1>2, <1>3, <1>4, <1>5 DEF InferNext

\* Rewriting the first member, in terms of the directories to-pg works on.
LEMMA SourcesRewritten ==
  ASSUME Roots, Dirs, Control, membersLeft # <<>>, NEW t, NEW b \in BOOLEAN,
         PutSource(Head(membersLeft), Rewritten(Head(membersLeft), t, b)), remote' = remote
  PROVE  \E c \in Collections :
           /\ c = Head(membersLeft)
           /\ \A d \in Collections \ {c} : Sources'[d] = Sources[d]
           /\ \A f \in Sources'[c].files : f.stem = c => f.table = t
           /\ t \in TablesIn(Sources'[c])
           /\ Covers(Sources'[c], Sources[c])
           /\ remote => Sources' = staged' /\ Sources = staged
<1>1. PICK c \in Collections : c = Head(membersLeft) /\ Source(c).files # {} /\ IsDir(Source(c))
                               /\ OneRoot(c, Source(c))
  <2> DEFINE h == Head(membersLeft)
  <2>1. h \in Collections /\ Source(h).files # {} /\ IsDir(Source(h)) /\ OneRoot(h, Source(h))
      BY MembersFacts DEF Control, Dirs, Source, Roots
  <2> QED
      BY <2>1
<1>2. PICK dir :
         /\ dir = Rewritten(c, t, b)
         /\ \A f \in dir.files : f.stem = c => f.table = t
         /\ t \in TablesIn(dir)
         /\ Covers(dir, Source(c))
    BY <1>1, RewrittenRoot
<1>3. PutSource(c, dir)
    BY <1>1, <1>2
<1>4. /\ \A d \in Collections \ {c} : disk'[d] = disk[d] /\ staged'[d] = staged[d]
      /\ IF remote THEN disk' = disk /\ staged'[c] = dir ELSE staged' = staged /\ disk'[c] = dir
    BY <1>3, PutSourceFacts
<1>5. \A d \in Collections \ {c} : Sources'[d] = Sources[d]
    BY <1>4 DEF Sources
<1>6. Sources'[c] = dir /\ Source(c) = Sources[c]
    BY <1>4 DEF Sources, Source
<1>7. remote => Sources' = staged' /\ Sources = staged
    BY DEF Sources
<1>8. /\ \A f \in Sources'[c].files : f.stem = c => f.table = t
      /\ t \in TablesIn(Sources'[c])
      /\ Covers(Sources'[c], Sources[c])
    BY <1>2, <1>6
<1> QED
    BY <1>1, <1>5, <1>7, <1>8

\* A group is told from the directories of its members.
LEMMA MembersSet ==
  ASSUME NEW g
  PROVE  /\ Members(g, HasJson) = Pick(Order, InGroup(g, Sources))
         /\ ToSet(Members(g, HasJson)) = InGroup(g, Sources)
<1>1. Order \in Seq(Collections)
    BY OrderSeq
<1>2. {c \in HasJson : Prefix(c) = g} = InGroup(g, Sources)
    BY DEF HasJson, InGroup, Present, Sources, Source
<1>3. Members(g, HasJson) = Pick(Order, InGroup(g, Sources))
    BY <1>2 DEF Members
<1>4. ToSet(Pick(Order, InGroup(g, Sources))) = ToSet(Order) \intersect InGroup(g, Sources)
    BY <1>1, PickProperties
<1>5. InGroup(g, Sources) \subseteq ToSet(Order)
    BY DEF InGroup, Present, Collections
<1> QED
    BY <1>3, <1>4, <1>5

LEMMA CourseInit == ToPgInit => Course
<1> SUFFICES ASSUME ToPgInit
             PROVE  Course
    OBVIOUS
<1>1. phase = "idle" /\ sqlLeft = <<>> /\ groupsLeft = {}
    BY DEF ToPgInit, InferInit
<1>2. DOMAIN sql = SqlNames /\ DOMAIN stagedSql = SqlNames
    BY DEF ToPgInit
<1>3. <<>> \in Seq(Collections)
    OBVIOUS
<1> QED
    BY <1>1, <1>2, <1>3 DEF Course

LEMMA CoversTwice ==
  ASSUME NEW a, NEW b, NEW c, Covers(a, b), Covers(b, c)
  PROVE  Covers(a, c)
  BY DEF Covers

LEMMA CoursePutSql ==
  ASSUME NEW n, NEW file, PutSql(n, file), DOMAIN sql = SqlNames, DOMAIN stagedSql = SqlNames
  PROVE  DOMAIN sql' = SqlNames /\ DOMAIN stagedSql' = SqlNames
  BY DEF PutSql

LEMMA CourseRewritten ==
  ASSUME Course, Roots, Dirs, Control, membersLeft # <<>>, NEW t, NEW b \in BOOLEAN,
         PutSource(Head(membersLeft), Rewritten(Head(membersLeft), t, b)),
         remote' = remote, bucket' = bucket, phase' = phase, phase = "group",
         UNCHANGED <<outcome, sqlLeft, sql, stagedSql>>, groupsLeft' \subseteq groupsLeft
  PROVE  Course'
<1>1. PICK c \in Collections :
           /\ \A d \in Collections \ {c} : Sources'[d] = Sources[d]
           /\ Covers(Sources'[c], Sources[c])
           /\ remote => Sources' = staged' /\ Sources = staged
    BY SourcesRewritten
<1>2. Present(Sources)' \subseteq ToSet(sqlLeft')
  <2>1. \A d \in Collections : Sources'[d].json = Sources[d].json
      BY <1>1 DEF Covers
  <2> QED
      BY <2>1 DEF Present, Course
<1>3. ASSUME remote, NEW d \in Collections
      PROVE  Covers(staged'[d], bucket'[d])
  <2>1. Covers(staged[d], bucket[d])
      BY <1>3 DEF Course
  <2>2. CASE d = c
      BY <1>1, <1>3, <2>1, <2>2, CoversTwice
  <2>3. CASE d # c
      BY <1>1, <1>3, <2>1, <2>3
  <2> QED
      BY <2>2, <2>3
<1> QED
    BY <1>2, <1>3 DEF Course

LEMMA CourseStep ==
  Sampling /\ Control /\ Dirs /\ Roots /\ Course /\ [Next]_vars => Course'
<1> SUFFICES ASSUME Sampling, Control, Dirs, Roots, Course, [Next]_vars
             PROVE  Course'
    OBVIOUS
<1>1. CASE Begin
  <2>1. \A c \in Collections : groupOf'[c] = <<>>
      BY <1>1 DEF Begin
  <2>2. /\ phase' = "infer" /\ outcome' = "none"
        /\ UNCHANGED <<sqlLeft, groupsLeft, sql, stagedSql>>
      BY <1>1 DEF Begin, BeginRun
  <2> QED
      BY <2>1, <2>2 DEF Course
<1>2. CASE InferNext /\ UNCHANGED toPgVars
  <2>1. UNCHANGED <<groupOf, outcome, sqlLeft, groupsLeft, sql, stagedSql>>
      BY <1>2 DEF toPgVars
  <2> QED
      BY <1>2, <2>1, InferLeaves DEF Course
<1>3. CASE BeginToPg
  <2>1. /\ phase = "topg" /\ UNCHANGED <<outcome, sql, stagedSql, groupOf, remote, disk, bucket>>
      BY <1>3 DEF BeginToPg, fileVars
  <2>2. CASE remote /\ \A c \in Collections : bucket[c] = NoArtifacts
    <3>1. phase' = "idle" /\ sqlLeft' = sqlLeft /\ groupsLeft' = groupsLeft
        BY <1>3, <2>2 DEF BeginToPg
    <3> QED
        BY <2>1, <3>1 DEF Course
  <2>3. CASE ~(remote /\ \A c \in Collections : bucket[c] = NoArtifacts)
    <3> DEFINE dir == IF remote THEN bucket ELSE disk
               present == {c \in Collections : dir[c].json # "none"}
    <3>1. /\ staged' = IF remote THEN bucket ELSE staged
          /\ groupsLeft' = IF Grouping THEN CandidateGroups(present) ELSE {}
          /\ sqlLeft' = Pick(Order, present)
          /\ phase' = "group"
        BY <1>3, <2>3 DEF BeginToPg
    <3>2. Order \in Seq(Collections)
        BY OrderSeq
    <3>3. present = Present(Sources)'
      <4>1. dir = Sources'
          BY <2>1, <3>1 DEF Sources
      <4> QED
          BY <4>1 DEF Present
    <3>4. <<>> \notin groupsLeft'
      <4>1. <<>> \notin CandidateGroups(present)
        <5> HIDE DEF present
        <5> QED
            BY DEF CandidateGroups
      <4> QED
          BY <3>1, <4>1
    <3>5. remote => \A c \in Collections : Covers(staged'[c], bucket'[c])
        BY <2>1, <3>1 DEF Covers
    <3> HIDE DEF present
    <3>6. sqlLeft' \in Seq(Collections) /\ ToSet(sqlLeft') = ToSet(Order) \intersect present
        BY <3>1, <3>2, PickProperties
    <3>7. Present(Sources)' \subseteq ToSet(sqlLeft')
      <4>1. Present(Sources)' \subseteq ToSet(Order)
          BY DEF Present, Collections
      <4> QED
          BY <3>3, <3>6, <4>1
    <3> QED
        BY <2>1, <3>1, <3>4, <3>5, <3>6, <3>7 DEF Course
  <2> QED
      BY <2>2, <2>3
<1>4. CASE GroupStep
  <2>1. ASSUME NEW g, SkipGroup(g) PROVE Course'
      BY <2>1 DEF SkipGroup, fileVars, Course, Sources, Present
  <2>2. ASSUME NEW g, OpenGroup(g) PROVE Course'
      BY <2>2 DEF OpenGroup, runVars, fileVars, Course, Sources, Present
  <2>3. CASE RewriteMember
    <3> DEFINE t == Prefix(Head(membersLeft))
    <3>1. /\ membersLeft # <<>> /\ PutSource(Head(membersLeft), Rewritten(Head(membersLeft), t, TRUE))
          /\ remote' = remote /\ bucket' = bucket /\ phase' = phase /\ phase = "group"
          /\ UNCHANGED <<outcome, sqlLeft, sql, stagedSql>> /\ groupsLeft' \subseteq groupsLeft
        BY <2>3 DEF RewriteMember, runVars, Control
    <3> HIDE DEF t
    <3> QED
        BY <3>1, CourseRewritten
  <2>4. CASE RewriteFails
    <3> DEFINE t == Prefix(Head(membersLeft))
    <3>1. /\ membersLeft # <<>> /\ PutSource(Head(membersLeft), Rewritten(Head(membersLeft), t, FALSE))
          /\ remote' = remote /\ bucket' = bucket /\ phase' = phase /\ phase = "group"
          /\ UNCHANGED <<outcome, sqlLeft, sql, stagedSql>> /\ groupsLeft' \subseteq groupsLeft
        BY <2>4 DEF RewriteFails, Control
    <3> HIDE DEF t
    <3> QED
        BY <3>1, CourseRewritten
  <2>5. CASE GroupsDone
      BY <2>5 DEF GroupsDone, fileVars, toPgVars, Course
  <2> QED
      BY <1>4, <2>1, <2>2, <2>3, <2>4, <2>5 DEF GroupStep
<1>5. CASE SqlStep
  <2>1. CASE WriteSql
    <3>1. PICK n, file : PutSql(n, file)
        BY <2>1 DEF WriteSql, RemoveOwn
    <3>2. DOMAIN sql' = SqlNames /\ DOMAIN stagedSql' = SqlNames
        BY <3>1, CoursePutSql DEF Course
    <3>3. /\ phase = "sql" /\ sqlLeft' = Tail(sqlLeft) /\ sqlLeft # <<>>
          /\ UNCHANGED <<remote, phase, staged, bucket, outcome, groupsLeft>>
        BY <2>1 DEF WriteSql, NextSql, runVars, fileVars
    <3>4. Tail(sqlLeft) \in Seq(Collections)
        BY <3>3 DEF Course
    <3> QED
        BY <3>2, <3>3, <3>4 DEF Course
  <2>2. CASE SqlFails
    <3>1. UNCHANGED <<sql, stagedSql>> \/ \E n, file : PutSql(n, file)
        BY <2>2 DEF SqlFails
    <3>2. DOMAIN sql' = SqlNames /\ DOMAIN stagedSql' = SqlNames
        BY <3>1, CoursePutSql DEF Course
    <3>3. /\ phase = "sql" /\ sqlLeft' = <<>> /\ outcome' = "failed"
          /\ UNCHANGED <<remote, phase, staged, bucket, groupsLeft>>
        BY <2>2 DEF SqlFails, NextSql, fileVars
    <3>4. <<>> \in Seq(Collections)
        OBVIOUS
    <3> QED
        BY <3>2, <3>3, <3>4 DEF Course
  <2>3. CASE SqlDone
      BY <2>3 DEF SqlDone, fileVars, Course
  <2> QED
      BY <1>5, <2>1, <2>2, <2>3 DEF SqlStep
<1>6. CASE Publish \/ PublishFails
  <2>1. PICK collections, names : PutInBucket(collections, names)
      BY <1>6 DEF Publish, PublishFails
  <2>2. DOMAIN sql' = SqlNames
      BY <2>1 DEF PutInBucket
  <2>3. phase' = "idle" /\ UNCHANGED <<groupsLeft, sqlLeft>> /\ DropStage
      BY <1>6 DEF Publish, PublishFails
  <2>4. DOMAIN stagedSql' = SqlNames
      BY <2>3 DEF DropStage
  <2> QED
      BY <2>2, <2>3, <2>4 DEF Course
<1>7. CASE KillToPg
  <2>1. phase' = "idle" /\ sql' = sql /\ groupsLeft' = {} /\ sqlLeft' = <<>> /\ DropStage
      BY <1>7 DEF KillToPg
  <2>2. DOMAIN stagedSql' = SqlNames
      BY <2>1 DEF DropStage
  <2>3. <<>> \in Seq(Collections)
      OBVIOUS
  <2> QED
      BY <2>1, <2>2, <2>3 DEF Course
<1>8. CASE UNCHANGED vars
    BY <1>8 DEF vars, inferVars, runVars, fileVars, toPgVars, Course, Sources, Present
<1> QED
    BY <1>1, <1>2, <1>3, <1>4, <1>5, <1>6, <1>7, <1>8 DEF Next, Rest

\* What is said of directories depends on those of the collections only.
LEMMA Alike ==
  ASSUME NEW d, NEW e, \A c \in Collections : d[c] = e[c]
  PROVE  /\ Present(d) = Present(e)
         /\ \A g : InGroup(g, d) = InGroup(g, e)
         /\ \A c \in Collections : \A g : MappedTo(c, g, d) <=> MappedTo(c, g, e)
         /\ Grouped(d) <=> Grouped(e)
         /\ \A c : Stands(c, d) <=> Stands(c, e)
         /\ \A c \in Collections : TablesFor(c, d) = TablesFor(c, e)
<1>1. Present(d) = Present(e)
    BY DEF Present
<1>2. \A g : InGroup(g, d) = InGroup(g, e)
    BY <1>1 DEF InGroup
<1>3. \A c \in Collections : \A g : MappedTo(c, g, d) <=> MappedTo(c, g, e)
    BY DEF MappedTo
<1>4. Grouped(d) <=> Grouped(e)
    BY <1>2, <1>3 DEF Grouped
<1>5. \A c : Stands(c, d) <=> Stands(c, e)
    BY <1>2 DEF Stands
<1>6. \A c \in Collections : TablesFor(c, d) = TablesFor(c, e)
    BY DEF TablesFor
<1> QED
    BY <1>1, <1>2, <1>3, <1>4, <1>5, <1>6

\* A rewritten member stays in its group, as all others do.
LEMMA GroupedRewritten ==
  ASSUME NEW d, NEW e, NEW c \in Collections, NEW t,
         \A x \in Collections \ {c} : e[x] = d[x],
         e[c].json = d[c].json,
         \A f \in e[c].files : f.stem = c => f.table = t,
         t \in TablesIn(e[c])
  PROVE  /\ Present(e) = Present(d)
         /\ \A g : InGroup(g, e) = InGroup(g, d)
         /\ MappedTo(c, t, e)
         /\ \A x \in Collections : \A g : x # c => (MappedTo(x, g, e) <=> MappedTo(x, g, d))
         /\ t = Prefix(c) /\ Grouped(d) => Grouped(e)
<1>1. Present(e) = Present(d)
    BY DEF Present
<1>2. \A g : InGroup(g, e) = InGroup(g, d)
    BY <1>1 DEF InGroup
<1>3. MappedTo(c, t, e)
    BY DEF MappedTo
<1>4. \A x \in Collections : \A g : x # c => (MappedTo(x, g, e) <=> MappedTo(x, g, d))
    BY DEF MappedTo
<1>5. ASSUME t = Prefix(c), Grouped(d)
      PROVE  Grouped(e)
  <2>1. ASSUME NEW x \in Collections, groupOf[x] # <<>>
        PROVE  /\ x \in InGroup(groupOf[x], e)
               /\ \A y \in InGroup(groupOf[x], e) : groupOf[y] = groupOf[x]
               /\ MappedTo(x, groupOf[x], e)
    <3>1. /\ x \in InGroup(groupOf[x], d)
          /\ \A y \in InGroup(groupOf[x], d) : groupOf[y] = groupOf[x]
          /\ MappedTo(x, groupOf[x], d)
        BY <1>5, <2>1 DEF Grouped
    <3>2. CASE x = c
      <4>1. groupOf[x] = t
          BY <1>5, <3>1, <3>2 DEF InGroup
      <4> QED
          BY <1>2, <1>3, <3>1, <3>2, <4>1
    <3>3. CASE x # c
        BY <1>2, <1>4, <3>1, <3>3
    <3> QED
        BY <3>2, <3>3
  <2> QED
      BY <2>1 DEF Grouped
<1> QED
    BY <1>1, <1>2, <1>3, <1>4, <1>5

LEMMA GroupsInit == ToPgInit => Groups
<1> SUFFICES ASSUME ToPgInit
             PROVE  Groups
    OBVIOUS
<1>1. phase = "idle" /\ outcome = "none" /\ membersLeft = <<>>
    BY DEF ToPgInit, InferInit
<1> QED
    BY <1>1 DEF Groups, Rewriting

\* The group whose members are to be rewritten.
LEMMA OpenedGroup ==
  ASSUME Control, Course, NEW g, OpenGroup(g)
  PROVE  Rewriting'
<1>1. /\ g \in groupsLeft /\ membersLeft' = Mapped(g) /\ UNCHANGED <<remote, disk, staged>>
    BY DEF OpenGroup, runVars, fileVars
<1>2. g # <<>>
    BY <1>1 DEF Course
<1> DEFINE M == Members(g, HasJson)
           T == {c \in Collections : Source(c).files # {}}
<1>3. M = Pick(Order, InGroup(g, Sources)) /\ ToSet(M) = InGroup(g, Sources)
    BY MembersSet
<1>4. Order \in Seq(Collections)
    BY OrderSeq
<1>5. M \in Seq(Collections)
    BY <1>3, <1>4, PickProperties
<1> HIDE DEF M, T
<1>6. Mapped(g) = Pick(M, T)
    BY DEF Mapped, M, T
<1>7. Pick(M, T) \in Seq(Collections) /\ ToSet(Pick(M, T)) = ToSet(M) \intersect T
    BY <1>5, PickProperties
<1> DEFINE L == Mapped(g)
           G == InGroup(g, Sources)
<1>8. L \in Seq(Collections) /\ ToSet(L) = G \intersect T
    BY <1>3, <1>6, <1>7
<1> HIDE DEF L, G
<1>9. \A i \in DOMAIN L : L[i] \in G /\ L[i] \in T
    BY <1>8 DEF ToSet
<1>10. \A x \in G : Prefix(x) = g
    BY DEF G, InGroup
<1>11. \A x \in G : x \in ToSet(L) \/ MappedTo(x, g, Sources)
  <2>1. ASSUME NEW x \in G, x \notin T PROVE MappedTo(x, g, Sources)
    <3>1. x \in Collections
        BY DEF G, InGroup, Present
    <3>2. Sources[x].files = {}
        BY <2>1, <3>1 DEF T, Source, Sources
    <3> QED
        BY <3>2 DEF MappedTo
  <2> QED
      BY <1>8, <2>1
<1>12. L # <<>> => Prefix(Head(L)) = g
  <2>1. L # <<>> => 1 \in DOMAIN L /\ L[1] = Head(L)
      BY <1>8
  <2> QED
      BY <1>9, <1>10, <2>1
<1>13. Sources' = Sources /\ membersLeft' = L
    BY <1>1 DEF Sources, L
<1> QED
    BY <1>2, <1>9, <1>11, <1>12, <1>13 DEF Rewriting, G

LEMMA GroupsRewritten ==
  ASSUME Groups, Course, Roots, Dirs, Control, RewriteMember
  PROVE  Groups'
<1> DEFINE c == Head(membersLeft)
           g == Prefix(c)
<1>1. /\ membersLeft # <<>> /\ PutSource(c, Rewritten(c, g, TRUE)) /\ membersLeft' = Tail(membersLeft)
      /\ UNCHANGED <<remote, phase, outcome>> /\ phase = "group"
      /\ IF Tail(membersLeft) = <<>>
         THEN groupOf' = [d \in Collections |->
                            IF d \in ToSet(Members(g, HasJson)) THEN g ELSE groupOf[d]]
         ELSE groupOf' = groupOf
    BY DEF RewriteMember, runVars, Control
<1> DEFINE d == Sources
           e == Sources'
<1>2. /\ c \in Collections /\ \A x \in Collections \ {c} : e[x] = d[x]
      /\ \A f \in e[c].files : f.stem = c => f.table = g
      /\ g \in TablesIn(e[c])
      /\ e[c].json = d[c].json
  <2> DEFINE t == g
  <2>1. PutSource(Head(membersLeft), Rewritten(Head(membersLeft), t, TRUE))
      BY <1>1
  <2> HIDE DEF t
  <2>2. \E x \in Collections :
           /\ x = Head(membersLeft)
           /\ \A y \in Collections \ {x} : Sources'[y] = Sources[y]
           /\ \A f \in Sources'[x].files : f.stem = x => f.table = t
           /\ t \in TablesIn(Sources'[x])
           /\ Covers(Sources'[x], Sources[x])
      BY <1>1, <2>1, SourcesRewritten
  <2> QED
      BY <2>2 DEF Covers, t
<1> DEFINE G == InGroup(g, d)
<1>3. /\ g # <<>>
      /\ \A i \in DOMAIN membersLeft : membersLeft[i] \in G
      /\ \A x \in G : x \in ToSet(membersLeft) \/ MappedTo(x, g, d)
    BY <1>1 DEF Groups, Rewriting
<1>4. ToSet(Members(g, HasJson)) = G
    BY MembersSet
<1>5. Grouped(d)
    BY <1>1 DEF Groups
<1>6. \A i \in DOMAIN Tail(membersLeft) : Tail(membersLeft)[i] \in G
    BY <1>1, <1>3, MembersFacts DEF Control
<1>7. \A x \in ToSet(membersLeft) : x = c \/ x \in ToSet(Tail(membersLeft))
  <2>1. ASSUME NEW i \in DOMAIN membersLeft
        PROVE  membersLeft[i] = c
                 \/ \E j \in DOMAIN Tail(membersLeft) : Tail(membersLeft)[j] = membersLeft[i]
    <3> DEFINE L == membersLeft
    <3>1. L \in Seq(Collections) /\ L # <<>> /\ c = Head(L)
        BY <1>1 DEF Control
    <3> HIDE DEF L, c
    <3>2. i \in 1 .. Len(L) /\ Len(L) \in Nat /\ L[1] = c
        BY <2>1, <3>1 DEF L
    <3>3. CASE i = 1
        BY <3>2, <3>3 DEF L
    <3>4. CASE i # 1
      <4>1. i - 1 \in 1 .. Len(L) - 1 /\ (i - 1) + 1 = i
          BY <3>2, <3>4
      <4>2. i - 1 \in DOMAIN Tail(L) /\ Tail(L)[i - 1] = L[i]
          BY <3>1, <3>2, <4>1
      <4> QED
          BY <4>2 DEF L
    <3> QED
        BY <3>3, <3>4
  <2> QED
      BY <2>1 DEF ToSet
<1>8. \A x \in G : x \in Collections /\ Prefix(x) = g
    BY DEF InGroup, Present
<1> HIDE DEF c, d, e
<1>9. /\ \A x : InGroup(x, e) = InGroup(x, d)
      /\ MappedTo(c, g, e)
      /\ \A x \in Collections : \A h : x # c => (MappedTo(x, h, e) <=> MappedTo(x, h, d))
      /\ Grouped(e)
    BY <1>2, <1>5, GroupedRewritten
<1> HIDE DEF g, G
<1>10. \A x \in G : x \in ToSet(Tail(membersLeft)) \/ MappedTo(x, g, e)
    BY <1>3, <1>7, <1>8, <1>9
<1>11. CASE Tail(membersLeft) # <<>>
  <2>1. membersLeft' # <<>> /\ groupOf' = groupOf
      BY <1>1, <1>11
  <2>2. Prefix(Head(membersLeft')) = g
    <3>1. 1 \in DOMAIN Tail(membersLeft) /\ Tail(membersLeft)[1] = Head(Tail(membersLeft))
        BY <1>1, <1>11 DEF Control
    <3> QED
        BY <1>1, <1>6, <1>8, <3>1
  <2>3. Grouped(Sources)'
      BY <1>9, <2>1 DEF Grouped, e
  <2>4. /\ \A i \in DOMAIN membersLeft' : membersLeft'[i] \in InGroup(g, Sources')
        /\ \A x \in InGroup(g, Sources') : x \in ToSet(membersLeft') \/ MappedTo(x, g, Sources')
    <3>1. InGroup(g, Sources') = G
        BY <1>9 DEF e, G
    <3> QED
        BY <1>1, <1>6, <1>10, <3>1 DEF e
  <2>5. Rewriting'
      BY <1>3, <2>2, <2>4 DEF Rewriting
  <2> QED
      BY <1>1, <2>3, <2>5 DEF Groups
<1>12. CASE Tail(membersLeft) = <<>>
  <2>1. \A x \in Collections : groupOf'[x] = IF x \in G THEN g ELSE groupOf[x]
      BY <1>1, <1>4, <1>12 DEF g
  <2>2. \A x \in G : MappedTo(x, g, e)
    <3>1. ToSet(Tail(membersLeft)) = {}
        BY <1>12 DEF ToSet
    <3> QED
        BY <1>10, <3>1
  <2>3. ASSUME NEW x \in Collections, groupOf'[x] # <<>>
        PROVE  /\ x \in InGroup(groupOf'[x], e)
               /\ \A y \in InGroup(groupOf'[x], e) : groupOf'[y] = groupOf'[x]
               /\ MappedTo(x, groupOf'[x], e)
    <3>1. CASE x \in G
      <4>1. groupOf'[x] = g /\ InGroup(g, e) = G
          BY <1>9, <2>1, <3>1 DEF G
      <4> QED
          BY <1>8, <2>1, <2>2, <3>1, <4>1
    <3>2. CASE x \notin G
      <4> DEFINE h == groupOf[x]
      <4>1. groupOf'[x] = h /\ h # <<>>
          BY <2>1, <2>3, <3>2
      <4>2. /\ x \in InGroup(h, e)
            /\ \A y \in InGroup(h, e) : groupOf[y] = h
            /\ MappedTo(x, h, e)
          BY <1>9, <4>1 DEF Grouped
      <4>3. \A y \in InGroup(h, e) : y \in Collections /\ y \in InGroup(Prefix(y), d) /\ Prefix(y) = h
          BY <1>9 DEF InGroup, Present
      <4>4. h # g
          BY <1>9, <3>2, <4>2 DEF G
      <4>5. \A y \in InGroup(h, e) : y \notin G
          BY <1>8, <4>3, <4>4
      <4> HIDE DEF h
      <4> QED
          BY <2>1, <4>1, <4>2, <4>3, <4>5
    <3> QED
        BY <3>1, <3>2
  <2>4. Grouped(Sources)'
      BY <2>3 DEF Grouped, e
  <2>5. Rewriting'
      BY <1>1, <1>12 DEF Rewriting
  <2> QED
      BY <1>1, <2>4, <2>5 DEF Groups
<1> QED
    BY <1>11, <1>12

LEMMA GroupsStep ==
  Sampling /\ Control /\ Dirs /\ Roots /\ Course /\ Groups /\ [Next]_vars => Groups'
<1> SUFFICES ASSUME Sampling, Control, Dirs, Roots, Course, Groups, [Next]_vars
             PROVE  Groups'
    OBVIOUS
<1>0. ASSUME phase' \in {"infer", "move", "purge", "topg", "idle"}, outcome' # "ok" \/ phase' # "idle",
             membersLeft' = <<>>
      PROVE  Groups'
    BY <1>0 DEF Groups, Rewriting
<1>1. CASE Begin
    BY <1>0, <1>1 DEF Begin, BeginRun, Control
<1>2. CASE InferNext /\ UNCHANGED toPgVars
  <2>1. membersLeft' = membersLeft /\ outcome' = outcome
      BY <1>2 DEF toPgVars
  <2> QED
      BY <1>0, <1>2, <2>1, InferLeaves DEF Course, Control
<1>3. CASE BeginToPg
  <2>1. /\ phase = "topg" /\ UNCHANGED <<outcome, groupOf, membersLeft>> /\ phase' \in {"idle", "group"}
      BY <1>3 DEF BeginToPg
  <2>2. membersLeft = <<>> /\ outcome = "none" /\ \A c \in Collections : groupOf[c] = <<>>
      BY <2>1 DEF Control, Course
  <2>3. Grouped(Sources)' /\ Rewriting'
      BY <2>1, <2>2 DEF Grouped, Rewriting
  <2> QED
      BY <2>1, <2>2, <2>3 DEF Groups
<1>4. CASE GroupStep
  <2>1. ASSUME NEW g, SkipGroup(g) PROVE Groups'
    <3>1. UNCHANGED <<phase, outcome, membersLeft, groupOf, remote, disk, staged, bucket>>
        BY <2>1 DEF SkipGroup, fileVars
    <3>2. Sources' = Sources /\ Homes' = Homes
        BY <3>1 DEF Sources, Homes
    <3> QED
        BY <3>1, <3>2 DEF Groups, Rewriting, Grouped
  <2>2. ASSUME NEW g, OpenGroup(g) PROVE Groups'
    <3>1. UNCHANGED <<phase, outcome, groupOf, remote, disk, staged, bucket>>
        BY <2>2 DEF OpenGroup, runVars, fileVars
    <3>2. Sources' = Sources /\ Homes' = Homes
        BY <3>1 DEF Sources, Homes
    <3>3. Rewriting'
        BY <2>2, OpenedGroup
    <3> QED
        BY <3>1, <3>2, <3>3 DEF Groups, Grouped
  <2>3. CASE RewriteMember
      BY <2>3, GroupsRewritten
  <2>4. CASE RewriteFails
    <3> DEFINE c == Head(membersLeft)
               g == Prefix(c)
    <3>1. /\ membersLeft # <<>> /\ PutSource(c, Rewritten(c, g, FALSE)) /\ membersLeft' = <<>>
          /\ UNCHANGED <<remote, phase, outcome, groupOf>> /\ phase = "group"
        BY <2>4 DEF RewriteFails, Control
    <3> DEFINE d == Sources
               e == Sources'
    <3>2. /\ c \in Collections /\ \A x \in Collections \ {c} : e[x] = d[x]
          /\ \A f \in e[c].files : f.stem = c => f.table = g
          /\ g \in TablesIn(e[c])
          /\ e[c].json = d[c].json
      <4> DEFINE t == g
      <4>1. PutSource(Head(membersLeft), Rewritten(Head(membersLeft), t, FALSE))
          BY <3>1
      <4> HIDE DEF t
      <4>2. \E x \in Collections :
               /\ x = Head(membersLeft)
               /\ \A y \in Collections \ {x} : Sources'[y] = Sources[y]
               /\ \A f \in Sources'[x].files : f.stem = x => f.table = t
               /\ t \in TablesIn(Sources'[x])
               /\ Covers(Sources'[x], Sources[x])
          BY <3>1, <4>1, SourcesRewritten
      <4> QED
          BY <4>2 DEF Covers, t
    <3>3. Grouped(d)
        BY <3>1 DEF Groups
    <3> HIDE DEF c, d, e
    <3>4. Grouped(e)
        BY <3>2, <3>3, GroupedRewritten
    <3>5. Grouped(Sources)'
        BY <3>1, <3>4 DEF Grouped, e
    <3> QED
        BY <3>1, <3>5 DEF Groups, Rewriting
  <2>5. CASE GroupsDone
    <3>1. /\ UNCHANGED <<outcome, membersLeft, groupOf, remote, disk, staged, bucket>>
          /\ phase = "group" /\ phase' = "sql" /\ membersLeft = <<>>
        BY <2>5 DEF GroupsDone, fileVars, toPgVars
    <3>2. Sources' = Sources
        BY <3>1 DEF Sources
    <3> QED
        BY <3>1, <3>2 DEF Groups, Rewriting, Grouped
  <2> QED
      BY <1>4, <2>1, <2>2, <2>3, <2>4, <2>5 DEF GroupStep
<1>5. CASE SqlStep
  <2>1. /\ UNCHANGED <<membersLeft, groupOf, remote, disk, staged, bucket>>
        /\ phase = "sql" /\ phase' \in {"sql", "publish", "idle"} /\ (phase' = "idle" => ~remote)
      BY <1>5 DEF SqlStep, WriteSql, SqlFails, SqlDone, NextSql, runVars, fileVars
  <2>2. Sources' = Sources /\ Homes' = Homes /\ (~remote => Homes = Sources) /\ membersLeft = <<>>
      BY <2>1 DEF Sources, Homes, Control
  <2> QED
      BY <2>1, <2>2 DEF Groups, Rewriting, Grouped
<1>6. CASE Publish
  <2>1. /\ phase = "publish" /\ phase' = "idle" /\ UNCHANGED <<remote, membersLeft, groupOf, disk>>
        /\ PutInBucket(Collections, SqlNames)
      BY <1>6 DEF Publish
  <2>2. remote /\ membersLeft = <<>>
      BY <2>1 DEF Control
  <2>3. \A c \in Collections : bucket'[c] = staged[c]
      BY <2>1, <2>2, OverlayCovered DEF PutInBucket, Course, Dirs
  <2>4. \A c \in Collections : Homes'[c] = Sources[c]
      BY <2>1, <2>2, <2>3 DEF Homes, Sources
  <2> DEFINE d == Sources
             e == Homes'
  <2>5. Grouped(d)
      BY <2>1 DEF Groups
  <2> HIDE DEF d, e
  <2>6. Grouped(e)
      BY <2>4, <2>5, Alike DEF d, e
  <2>7. Grouped(Homes)'
      BY <2>1, <2>6 DEF Grouped, e
  <2> QED
      BY <2>1, <2>2, <2>7 DEF Groups, Rewriting
<1>7. CASE PublishFails
    BY <1>0, <1>7 DEF PublishFails, Control
<1>8. CASE KillToPg
    BY <1>0, <1>8 DEF KillToPg
<1>9. CASE UNCHANGED vars
  <2>1. UNCHANGED <<phase, outcome, membersLeft, groupOf, remote, disk, staged, bucket>>
      BY <1>9 DEF vars, inferVars, runVars, fileVars, toPgVars
  <2>2. Sources' = Sources /\ Homes' = Homes
      BY <2>1 DEF Sources, Homes
  <2> QED
      BY <2>1, <2>2 DEF Groups, Rewriting, Grouped
<1> QED
    BY <1>1, <1>2, <1>3, <1>4, <1>5, <1>6, <1>7, <1>8, <1>9 DEF Next, Rest

\* Who stands for a group, and the tables of an SQL file.
LEMMA StandsFor ==
  ASSUME NEW c
  PROVE  (Represents(c) <=> Stands(c, Sources)) /\ Tables(c) = TablesFor(c, Sources)
<1>1. Represents(c) <=> Stands(c, Sources)
  <2> DEFINE g == groupOf[c]
  <2>1. Representative(g) = Head(Pick(Order, InGroup(g, Sources)))
      BY MembersSet DEF Representative
  <2> QED
      BY <2>1 DEF Represents, Stands
<1>2. Tables(c) = TablesFor(c, Sources)
    BY DEF Tables, TablesFor, Source, Sources
<1> QED
    BY <1>1, <1>2

\* An SQL file has a table.
LEMMA SqlOfTables ==
  ASSUME NEW c, NEW dirs
  PROVE  SqlOf(TablesFor(c, dirs)) # NoSql
<1>1. TablesFor(c, dirs) # {}
    BY DEF TablesFor, TablesIn
<1>2. SqlOf(TablesFor(c, dirs)).tables = TablesFor(c, dirs) /\ NoSql.tables = {}
    BY DEF SqlOf, NoSql
<1> QED
    BY <1>1, <1>2

LEMMA SqlNamed ==
  ASSUME Control, NEW c \in Collections
  PROVE  SqlName(c) \in SqlNames /\ c \in SqlNames
<1>1. c # <<>>
    BY CollectionFacts
<1>2. c \in SqlNames
    BY <1>1 DEF SqlNames
<1>3. groupOf[c] \in SqlNames \cup {<<>>}
    BY DEF Control
<1> QED
    BY <1>2, <1>3 DEF SqlName

\* The file written for one collection is not that of another.
LEMMA OtherSql ==
  ASSUME NEW c \in Collections, NEW d \in Collections, c # d, NEW dirs, NEW sqls, NEW new,
         IF Stands(c, dirs)
         THEN \A n \in SqlNames : n # SqlName(c) => new[n] = sqls[n]
         ELSE \A n \in SqlNames : n # c => new[n] = sqls[n],
         Control
  PROVE  /\ Told(d, dirs, sqls) => Told(d, dirs, new)
         /\ Silent(d, dirs, sqls) => Silent(d, dirs, new)
<1>0. SqlName(d) \in SqlNames /\ d \in SqlNames
    BY SqlNamed
<1>1. ASSUME Told(d, dirs, sqls), Stands(d, dirs), ~Shared(SqlName(d))
      PROVE  new[SqlName(d)] = sqls[SqlName(d)]
  <2>1. CASE ~Stands(c, dirs)
    <3>1. SqlName(d) # c
        BY <1>1 DEF SqlName, Shared
    <3> QED
        BY <1>0, <2>1, <3>1
  <2>2. CASE Stands(c, dirs)
    <3>1. SqlName(d) # SqlName(c)
        BY <1>1, <2>2 DEF SqlName, Shared, Stands
    <3> QED
        BY <1>0, <2>2, <3>1
  <2> QED
      BY <2>1, <2>2
<1>2. ASSUME Silent(d, dirs, sqls), ~Stands(d, dirs), ~Shared(d)
      PROVE  new[d] = sqls[d]
  <2>1. CASE ~Stands(c, dirs)
      BY <1>0, <2>1
  <2>2. CASE Stands(c, dirs)
    <3>1. d # SqlName(c)
        BY <1>2 DEF SqlName, Shared
    <3> QED
        BY <1>0, <2>2, <3>1
  <2> QED
      BY <2>1, <2>2
<1> QED
    BY <1>1, <1>2 DEF Told, Silent

LEMMA SqlInit == ToPgInit => SqlSays
<1> SUFFICES ASSUME ToPgInit
             PROVE  SqlSays
    OBVIOUS
<1>1. phase = "idle" /\ outcome = "none"
    BY DEF ToPgInit, InferInit
<1> QED
    BY <1>1 DEF SqlSays

\* One collection of the list.
LEMMA SqlWritten ==
  ASSUME Control, Course, SqlSays, WriteSql, outcome = "none"
  PROVE  \A d \in Present(Sources) \ ToSet(Tail(sqlLeft)) :
           Told(d, Sources, Sqls') /\ Silent(d, Sources, Sqls')
<1> DEFINE c == Head(sqlLeft)
           old == Sqls
           new == Sqls'
           dirs == Sources
<1>1. /\ sqlLeft # <<>> /\ phase = "sql" /\ sqlLeft \in Seq(Collections) /\ remote' = remote
    BY DEF WriteSql, NextSql, runVars, Course
<1>2. c \in Collections
    BY <1>1
<1>3. DOMAIN old = SqlNames
    BY DEF Course, Sqls
<1>4. \/ ~Stands(c, dirs) /\ new = [old EXCEPT ![c] = NoSql]
      \/ Stands(c, dirs) /\ new = [old EXCEPT ![SqlName(c)] = SqlOf(TablesFor(c, dirs))]
  <2>1. \/ ~Represents(c) /\ PutSql(c, NoSql)
        \/ Represents(c) /\ PutSql(SqlName(c), SqlOf(Tables(c)))
      BY DEF WriteSql, RemoveOwn, SqlOf
  <2>2. \A n, file : PutSql(n, file) => new = [old EXCEPT ![n] = file]
      BY <1>1 DEF PutSql, Sqls
  <2> QED
      BY <2>1, <2>2, StandsFor
<1>5. SqlName(c) \in SqlNames /\ c \in SqlNames
    BY <1>2, SqlNamed
<1>6. /\ ~Stands(c, dirs) => new[c] = NoSql /\ \A n \in SqlNames : n # c => new[n] = old[n]
      /\ Stands(c, dirs) => /\ new[SqlName(c)] = SqlOf(TablesFor(c, dirs))
                            /\ \A n \in SqlNames : n # SqlName(c) => new[n] = old[n]
  <2> HIDE DEF c, old, new, dirs
  <2> DEFINE file == SqlOf(TablesFor(c, dirs))
             n == SqlName(c)
  <2> HIDE DEF file, n
  <2> QED
      BY <1>3, <1>4, <1>5 DEF file, n
<1>7. Told(c, dirs, new) /\ Silent(c, dirs, new)
  <2> HIDE DEF c, old, new, dirs
  <2> QED
      BY <1>6 DEF Told, Silent
<1>8. ASSUME NEW d \in Present(dirs) \ ToSet(Tail(sqlLeft)), d # c
      PROVE  Told(d, dirs, new) /\ Silent(d, dirs, new)
  <2>1. d \in Collections
      BY DEF Present
  <2>2. d \notin ToSet(sqlLeft)
    <3>1. ASSUME NEW i \in DOMAIN sqlLeft, sqlLeft[i] = d PROVE FALSE
      <4> DEFINE L == sqlLeft
      <4>1. L \in Seq(Collections) /\ L # <<>> /\ c = Head(L)
          BY <1>1
      <4>2. i \in 1 .. Len(L) /\ Len(L) \in Nat /\ L[1] = c /\ L[i] = d
          BY <3>1, <4>1
      <4>3. \A j \in DOMAIN Tail(L) : Tail(L)[j] # d
          BY <1>8 DEF ToSet
      <4> HIDE DEF L, c
      <4>4. i # 1
          BY <1>8, <4>2
      <4>5. i - 1 \in 1 .. Len(L) - 1 /\ (i - 1) + 1 = i
          BY <4>2, <4>4
      <4>6. i - 1 \in DOMAIN Tail(L) /\ Tail(L)[i - 1] = L[i]
          BY <4>1, <4>2, <4>5
      <4> QED
          BY <4>2, <4>3, <4>6
    <3> QED
        BY <3>1 DEF ToSet
  <2>3. Told(d, dirs, old) /\ Silent(d, dirs, old)
      BY <1>1, <1>8, <2>2 DEF SqlSays
  <2> HIDE DEF c, old, new, dirs
  <2>4. IF Stands(c, dirs)
        THEN \A n \in SqlNames : n # SqlName(c) => new[n] = old[n]
        ELSE \A n \in SqlNames : n # c => new[n] = old[n]
      BY <1>6
  <2> QED
      BY <1>2, <1>8, <2>1, <2>3, <2>4, OtherSql
<1> HIDE DEF c
<1> QED
    BY <1>7, <1>8

LEMMA SqlStepKept ==
  Sampling /\ Control /\ Dirs /\ Roots /\ Course /\ SqlSays /\ [Next]_vars => SqlSays'
<1> SUFFICES ASSUME Sampling, Control, Dirs, Roots, Course, SqlSays, [Next]_vars
             PROVE  SqlSays'
    OBVIOUS
<1>0. ASSUME phase' \in {"infer", "move", "purge", "topg", "group", "idle"},
             outcome' # "ok" \/ phase' # "idle"
      PROVE  SqlSays'
    BY <1>0 DEF SqlSays
<1>1. CASE Begin
    BY <1>0, <1>1 DEF Begin, BeginRun
<1>2. CASE InferNext /\ UNCHANGED toPgVars
  <2>1. outcome' = outcome
      BY <1>2 DEF toPgVars
  <2> QED
      BY <1>0, <1>2, <2>1, InferLeaves DEF Course
<1>3. CASE BeginToPg
  <2>1. phase = "topg" /\ outcome' = outcome /\ phase' \in {"idle", "group"}
      BY <1>3 DEF BeginToPg
  <2> QED
      BY <1>0, <2>1 DEF Course
<1>4. CASE GroupStep
  <2>1. CASE GroupsDone
    <3>1. /\ UNCHANGED <<outcome, groupOf, remote, disk, staged, sqlLeft, sql, stagedSql>>
          /\ phase = "group" /\ phase' = "sql"
        BY <2>1 DEF GroupsDone, fileVars, toPgVars
    <3>2. Present(Sources)' \subseteq ToSet(sqlLeft')
        BY <3>1 DEF Course, Present, Sources
    <3>3. Present(Sources)' = Present(Sources')
        BY DEF Present
    <3> QED
        BY <3>1, <3>2 DEF SqlSays
  <2>2. ASSUME NEW g, SkipGroup(g) \/ OpenGroup(g) PROVE SqlSays'
    <3>1. phase = "group" /\ phase' = phase
        BY <2>2 DEF SkipGroup, OpenGroup, runVars
    <3> QED
        BY <1>0, <3>1
  <2>3. CASE RewriteMember \/ RewriteFails
    <3>1. phase = "group" /\ phase' = phase
        BY <2>3 DEF RewriteMember, RewriteFails, runVars, Control
    <3> QED
        BY <1>0, <3>1
  <2> QED
      BY <1>4, <2>1, <2>2, <2>3 DEF GroupStep
<1>5. CASE WriteSql
  <2>1. /\ phase = "sql" /\ phase' = "sql" /\ sqlLeft' = Tail(sqlLeft)
        /\ UNCHANGED <<outcome, groupOf, remote, disk, staged>>
      BY <1>5 DEF WriteSql, NextSql, runVars, fileVars
  <2>2. Sources' = Sources
      BY <2>1 DEF Sources
  <2>3. ASSUME outcome = "none"
        PROVE  \A d \in Present(Sources) \ ToSet(Tail(sqlLeft)) :
                 Told(d, Sources, Sqls') /\ Silent(d, Sources, Sqls')
      BY <1>5, <2>3, SqlWritten
  <2>4. ASSUME outcome = "none"
        PROVE  (\A d \in Present(Sources) \ ToSet(sqlLeft) :
                 Told(d, Sources, Sqls) /\ Silent(d, Sources, Sqls))'
      BY <2>1, <2>2, <2>3, <2>4 DEF Told, Silent, Stands, Shared, SqlName, TablesFor, Present
  <2> QED
      BY <2>1, <2>4 DEF SqlSays
<1>6. CASE SqlFails
  <2>1. phase = "sql" /\ phase' = "sql" /\ outcome' = "failed"
      BY <1>6 DEF SqlFails, NextSql
  <2> QED
      BY <2>1 DEF SqlSays
<1>7. CASE SqlDone
  <2>1. /\ phase = "sql" /\ sqlLeft = <<>>
        /\ UNCHANGED <<groupOf, remote, disk, bucket, staged, sql, stagedSql>>
        /\ phase' = IF remote THEN "publish" ELSE "idle"
        /\ outcome' = "ok" => outcome = "none"
      BY <1>7 DEF SqlDone, fileVars, Course
  <2>2. /\ Sources' = Sources /\ Sqls' = Sqls /\ Homes' = Homes /\ sql' = sql
        /\ ~remote => Homes = Sources /\ sql = Sqls
      BY <2>1 DEF Sources, Sqls, Homes
  <2>3. ASSUME outcome' = "ok"
        PROVE  \A d \in Present(Sources) : Told(d, Sources, Sqls) /\ Silent(d, Sources, Sqls)
    <3>1. ToSet(sqlLeft) = {}
        BY <2>1 DEF ToSet
    <3> QED
        BY <2>1, <2>3, <3>1 DEF SqlSays
  <2>4. ASSUME outcome' = "ok"
        PROVE  (\A d \in Present(Sources) : Told(d, Sources, Sqls) /\ Silent(d, Sources, Sqls))'
      BY <2>1, <2>2, <2>3, <2>4 DEF Told, Silent, Stands, Shared, SqlName, TablesFor, Present
  <2>5. ASSUME outcome' = "ok", ~remote
        PROVE  (\A d \in Present(Homes) : Told(d, Homes, sql) /\ Silent(d, Homes, sql))'
      BY <2>1, <2>2, <2>3, <2>5 DEF Told, Silent, Stands, Shared, SqlName, TablesFor, Present
  <2> QED
      BY <2>1, <2>4, <2>5 DEF SqlSays
<1>8. CASE Publish
  <2>1. /\ phase = "publish" /\ phase' = "idle" /\ UNCHANGED <<remote, groupOf, disk, outcome>>
        /\ PutInBucket(Collections, SqlNames)
      BY <1>8 DEF Publish
  <2>2. remote
      BY <2>1 DEF Control
  <2>3. \A c \in Collections : bucket'[c] = staged[c]
      BY <2>1, <2>2, OverlayCovered DEF PutInBucket, Course, Dirs
  <2>4. \A c \in Collections : Homes'[c] = Sources[c]
      BY <2>1, <2>2, <2>3 DEF Homes, Sources
  <2>5. \A n \in SqlNames : stagedSql[n] # NoSql => sql'[n] = stagedSql[n]
      BY <2>1 DEF PutInBucket
  <2> DEFINE d == Sources
             e == Homes'
             new == sql'
  <2>6. \A c \in Collections : e[c] = d[c]
      BY <2>4
  <2>7. ASSUME outcome = "ok"
        PROVE  \A c \in Present(d) : Told(c, d, stagedSql)
      BY <2>1, <2>2, <2>7 DEF SqlSays, Sqls
  <2> HIDE DEF d, e
  <2>8. ASSUME outcome = "ok", NEW c \in Present(e)
        PROVE  Told(c, e, new)
    <3>1. c \in Collections /\ c \in Present(d)
        BY <2>6, <2>8, Alike DEF Present
    <3>2. Told(c, d, stagedSql)
        BY <2>7, <2>8, <3>1
    <3>3. (Stands(c, e) <=> Stands(c, d)) /\ TablesFor(c, e) = TablesFor(c, d)
        BY <2>6, <3>1, Alike
    <3>4. SqlName(c) \in SqlNames
        BY <3>1, SqlNamed
    <3>5. SqlOf(TablesFor(c, d)) # NoSql
        BY SqlOfTables
    <3> HIDE DEF new
    <3> QED
        BY <2>5, <3>2, <3>3, <3>4, <3>5 DEF Told, new
  <2>9. ASSUME outcome = "ok"
        PROVE  (\A c \in Present(Homes) : Told(c, Homes, sql))'
      BY <2>1, <2>8, <2>9 DEF Told, Stands, Shared, SqlName, TablesFor, Present, e
  <2> QED
      BY <2>1, <2>2, <2>9 DEF SqlSays
<1>9. CASE PublishFails \/ KillToPg
    BY <1>0, <1>9 DEF PublishFails, KillToPg
<1>10. CASE UNCHANGED vars
  <2>1. UNCHANGED <<phase, outcome, sqlLeft, groupOf, remote, disk, staged, bucket, sql, stagedSql>>
      BY <1>10 DEF vars, inferVars, runVars, fileVars, toPgVars
  <2>2. Sources' = Sources /\ Homes' = Homes /\ Sqls' = Sqls
      BY <2>1 DEF Sources, Homes, Sqls
  <2> QED
      BY <2>1, <2>2 DEF SqlSays, Told, Silent, Stands, Shared, SqlName, TablesFor, Present
<1> QED
    BY <1>1, <1>2, <1>3, <1>4, <1>5, <1>6, <1>7, <1>8, <1>9, <1>10 DEF Next, Rest, SqlStep

\* What stands in the SQL files and mapping files after to-pg.
LEMMA SqlMatches == Groups /\ SqlSays /\ Control => SqlMatchesMappings
<1> SUFFICES ASSUME Groups, SqlSays, Control, phase = "idle", outcome = "ok", NEW c \in Collections
             PROVE  LET home(x) == IF remote THEN bucket[x] ELSE disk[x]
                        tables(x) == IF home(x).files = {} THEN {x} ELSE TablesIn(home(x))
                        stands(x) == x = Head(Pick(Order, {d \in Collections : groupOf[d] = groupOf[x]}))
                        shared(n) == n \in Collections /\ \E d \in Collections : groupOf[d] = n
                    IN  /\ home(c).json # "none" /\ groupOf[c] = <<>> /\ ~shared(c) =>
                             sql[c] = [tables |-> tables(c), whole |-> TRUE]
                        /\ ~(groupOf[c] = <<>>) =>
                             /\ ~shared(groupOf[c]) => groupOf[c] \in sql[groupOf[c]].tables
                             /\ \A f \in home(c).files : f.stem = c => f.table = groupOf[c]
                             /\ ~remote /\ ~stands(c) /\ ~shared(c) => sql[c] = NoSql
    BY DEF SqlMatchesMappings
<1> DEFINE g == groupOf[c]
<1>1. Homes[c] = (IF remote THEN bucket[c] ELSE disk[c])
    BY DEF Homes
<1>2. /\ Grouped(Homes)
      /\ \A x \in Present(Homes) : Told(x, Homes, sql) /\ (~remote => Silent(x, Homes, sql))
    BY DEF Groups, SqlSays
<1>3. ASSUME Homes[c].json # "none", g = <<>>, ~Shared(c)
      PROVE  sql[c] = SqlOf(IF Homes[c].files = {} THEN {c} ELSE TablesIn(Homes[c]))
  <2>1. Told(c, Homes, sql) /\ Stands(c, Homes) /\ SqlName(c) = c
      BY <1>2, <1>3 DEF Present, Stands, SqlName
  <2> QED
      BY <1>3, <2>1 DEF Told, TablesFor
<1>4. ASSUME g # <<>>
      PROVE  /\ g \in SqlNames
             /\ c \in InGroup(g, Homes)
             /\ \A e \in InGroup(g, Homes) : groupOf[e] = g
             /\ MappedTo(c, g, Homes)
    BY <1>2, <1>4 DEF Grouped, Control
<1>5. ASSUME g # <<>>, ~Shared(g)
      PROVE  g \in sql[g].tables
  <2> DEFINE G == InGroup(g, Homes)
             r == Head(Pick(Order, G))
  <2>1. r \in G
    <3>1. Order \in Seq(Collections)
        BY OrderSeq
    <3> DEFINE P == Pick(Order, G)
    <3>2. c \in G /\ G \subseteq ToSet(Order)
        BY <1>4, <1>5 DEF InGroup, Present, Collections
    <3> HIDE DEF G
    <3>3. P \in Seq(Collections) /\ ToSet(P) = ToSet(Order) \intersect G
        BY <3>1, PickProperties
    <3> HIDE DEF P
    <3>4. P # <<>>
        BY <3>2, <3>3 DEF ToSet
    <3>5. 1 \in DOMAIN P /\ P[1] = Head(P)
        BY <3>3, <3>4
    <3>6. Head(P) \in ToSet(P)
        BY <3>5 DEF ToSet
    <3> QED
        BY <3>3, <3>6 DEF P
  <2> HIDE DEF r
  <2>2. r \in Collections /\ r \in Present(Homes) /\ groupOf[r] = g
      BY <1>4, <1>5, <2>1 DEF InGroup, Present
  <2>3. Stands(r, Homes) /\ SqlName(r) = g
      BY <1>5, <2>2 DEF Stands, SqlName, r
  <2>4. sql[g] = SqlOf(TablesFor(r, Homes))
      BY <1>2, <1>5, <2>2, <2>3 DEF Told
  <2>5. MappedTo(r, g, Homes)
      BY <1>2, <1>5, <2>2 DEF Grouped
  <2>6. g \in TablesFor(r, Homes)
      BY <2>3, <2>5 DEF TablesFor, MappedTo
  <2> QED
      BY <2>4, <2>6 DEF SqlOf
<1>6. ASSUME g # <<>>, NEW f \in Homes[c].files, f.stem = c
      PROVE  f.table = g
    BY <1>4, <1>6 DEF MappedTo
<1>7. ASSUME g # <<>>, ~remote, c # Head(Pick(Order, {d \in Collections : groupOf[d] = groupOf[c]})), ~Shared(c)
      PROVE  sql[c] = NoSql
  <2>1. {d \in Collections : groupOf[d] = groupOf[c]} = InGroup(g, Homes)
    <3>1. ASSUME NEW d \in Collections, groupOf[d] = g PROVE d \in InGroup(g, Homes)
        BY <1>2, <1>7, <3>1 DEF Grouped
    <3>2. \A d \in InGroup(g, Homes) : d \in Collections /\ groupOf[d] = g
        BY <1>4, <1>7 DEF InGroup, Present
    <3> QED
        BY <3>1, <3>2
  <2>2. ~Stands(c, Homes)
      BY <1>7, <2>1 DEF Stands
  <2>3. c \in Present(Homes)
      BY <1>4, <1>7 DEF InGroup
  <2> QED
      BY <1>2, <1>7, <2>2, <2>3 DEF Silent
<1> QED
    BY <1>1, <1>3, <1>4, <1>5, <1>6, <1>7 DEF Shared, SqlOf

\* When to-pg came to its end the SQL files say what the mapping files say
\* (to_pg.rs, the groups and the loop over the collections; infer.rs, the
\* upload of the staged copy): a file is written once, for one that stands for
\* itself or its group, and nothing it was written from changes after that.
THEOREM SqlMatchesMappingsCorrect ==
  ASSUME Numerals
  PROVE  Spec => []SqlMatchesMappings
<1>1. ToPgInit => TablesApart /\ Roots /\ Course /\ Groups /\ SqlSays
    BY ApartInit, RootsInit, CourseInit, GroupsInit, SqlInit
<1>2. Sampling /\ Control /\ Dirs /\ (TablesApart /\ Roots /\ Course /\ Groups /\ SqlSays) /\ [Next]_vars
        => (TablesApart /\ Roots /\ Course /\ Groups /\ SqlSays)'
    BY ApartStep, RootsStep, CourseStep, GroupsStep, SqlStepKept
<1>3. Control /\ Groups /\ SqlSays => SqlMatchesMappings
    BY SqlMatches
<1> QED
    BY <1>1, <1>2, <1>3, StateCorrect, PTL DEF Spec

=============================================================================
