------------------------- MODULE ChunkIndex_proofs -------------------------
(* What ChunkIndex guarantees for every set of pages, bodies and jobs. *)
EXTENDS ChunkIndex, TLAPS

-----------------------------------------------------------------------------
(* Job records *)

\* What is left of a batch after a version is taken is a batch.
LEMMA SmallerBatch ==
  ASSUME NEW q \in Batch, NEW w
  PROVE  q \ {w} \in Batch
BY DEF Batch

\* A job between two versions holds nothing but the rest of its batch.
LEMMA NextOfOK ==
  ASSUME NEW q \in Batch
  PROVE  /\ NextOf(q) \in JobState
         /\ JobOK(NextOf(q))
         /\ NextOf(q).recs = <<>> /\ NextOf(q).pc = "next"
         /\ NextOf(q).queue = q /\ NextOf(q).inserted = 0
BY DEF NextOf, Unoccupied, JobState, JobOK

LEMMA IdleJobOK ==
  /\ IdleJob \in JobState
  /\ JobOK(IdleJob)
  /\ IdleJob.recs = <<>> /\ IdleJob.inserted = 0
BY DEF IdleJob, Unoccupied, JobState, JobOK, Batch

-----------------------------------------------------------------------------
(* Type correctness *)

LEMMA Assumptions ==
  /\ Sections \in [Contents -> Nat]
  /\ NoWork \notin Work
  /\ MaxLog \in Nat
BY SectionsAssumption, NoWorkAssumption, MaxLogAssumption

\* The two stores after a record is appended: the older records stay.
LEMMA AppendedRecord ==
  ASSUME log \in Seq(LogRecord), Len(log) <= MaxLog,
         NEW rec \in LogRecord, Append1(rec)
  PROVE  /\ log' \in Seq(LogRecord)
         /\ Len(log') = Len(log) + 1 /\ Len(log') <= MaxLog
         /\ log'[Len(log) + 1] = rec
         /\ \A o \in 1..Len(log) : log'[o] = log[o]
BY MaxLogAssumption DEF Append1

\* A step that replaces the record of one job by a well-formed one.
LEMMA OneJobChanges ==
  ASSUME job \in [Jobs -> JobState], \A k \in Jobs : JobOK(job[k]),
         NEW j \in Jobs, NEW jb \in JobState, JobOK(jb),
         job' = [job EXCEPT ![j] = jb]
  PROVE  job' \in [Jobs -> JobState] /\ \A k \in Jobs : JobOK(job'[k])
OBVIOUS

\* The step of a job that produces, or has produced, its next record.
LEMMA ProduceType ==
  ASSUME IndexTypeOK, NEW j \in Jobs, Produce(j)
  PROVE  IndexTypeOK'
<1> DEFINE w == job[j].work
           s == Len(job[j].recs) + 1
           jb == [job[j] EXCEPT !.recs = Append(@, Len(log) + 1),
                                !.pc = IF s = Sections[w.text] THEN "insert" ELSE @]
<1>1. /\ job[j] \in JobState /\ JobOK(job[j])
      /\ job[j].pc = "produce" /\ w \in Work /\ s <= Sections[w.text]
      /\ w.version \in Versions /\ w.text \in Contents
      /\ s \in Nat \ {0} /\ Sections[w.text] \in Nat
  BY SectionsAssumption DEF IndexTypeOK, Produce, JobState, JobOK, Work
<1>2. ChunkRecord(w.version, s, w.text) \in LogRecord
  BY <1>1 DEF ChunkRecord, LogRecord
<1>3. log' \in Seq(LogRecord) /\ Len(log') <= MaxLog
  BY <1>2, AppendedRecord DEF IndexTypeOK, Produce
<1>4. Len(log) + 1 \in Nat \ {0}
  BY DEF IndexTypeOK
<1>5. Append(job[j].recs, Len(log) + 1) \in Seq(Nat \ {0})
  BY <1>1, <1>4 DEF JobState
<1>6. /\ jb.pc = IF s = Sections[w.text] THEN "insert" ELSE "produce"
      /\ jb.recs = Append(job[j].recs, Len(log) + 1) /\ Len(jb.recs) = s
      /\ jb.work = w /\ jb.inserted = 0 /\ jb.queue = job[j].queue
  BY <1>1 DEF JobState, JobOK
<1>9. jb \in JobState
  BY <1>1, <1>5 DEF JobState
<1>10. JobOK(jb)
  BY <1>1, <1>6 DEF JobOK
<1>7. job' = [job EXCEPT ![j] = jb]
  BY DEF Produce, IndexTypeOK
<1>8. job' \in [Jobs -> JobState] /\ \A k \in Jobs : JobOK(job'[k])
  BY <1>7, <1>9, <1>10, OneJobChanges DEF IndexTypeOK
<1> QED
  BY <1>3, <1>8 DEF IndexTypeOK, Produce

\* A step that appends to the topic or not, and returns the job to its batch.
LEMMA GiveUpType ==
  ASSUME IndexTypeOK, NEW j \in Jobs, NEW q \in Batch,
         job' = [job EXCEPT ![j] = NextOf(q)]
  PROVE  job' \in [Jobs -> JobState] /\ \A k \in Jobs : JobOK(job'[k])
BY NextOfOK, OneJobChanges DEF IndexTypeOK

LEMMA DeleteType ==
  ASSUME IndexTypeOK, NEW j \in Jobs, Delete(j)
  PROVE  IndexTypeOK'
<1>1. PICK w \in job[j].queue :
        /\ DeleteRows(w.version)
        /\ job' = [job EXCEPT ![j] =
             IF Sections[w.text] = 0
               THEN NextOf(@.queue \ {w})
               ELSE [NextOf(@.queue \ {w}) EXCEPT !.pc = "produce", !.work = w]]
  BY DEF Delete
<1>2. chunks' \subseteq Row
  BY <1>1 DEF IndexTypeOK, DeleteRows
<1>3. job[j].queue \in Batch /\ w \in Work
  BY DEF IndexTypeOK, JobState, Batch
<1> DEFINE q  == job[j].queue \ {w}
           jb == [NextOf(q) EXCEPT !.pc = "produce", !.work = w]
<1>4. q \in Batch
  BY <1>3, SmallerBatch
<1>5. job' \in [Jobs -> JobState] /\ \A k \in Jobs : JobOK(job'[k])
  <2>1. CASE Sections[w.text] = 0
    <3>1. job' = [job EXCEPT ![j] = NextOf(q)]
      BY <1>1, <2>1 DEF IndexTypeOK
    <3> QED  BY <1>4, <3>1, GiveUpType
  <2>2. CASE Sections[w.text] # 0
    <3>1. Sections[w.text] \in Nat /\ Sections[w.text] > 0
      BY <1>3, <2>2, SectionsAssumption DEF Work
    <3>2. jb.pc = "produce" /\ jb.work = w /\ jb.recs = <<>> /\ jb.inserted = 0
      BY <1>4, NextOfOK DEF JobState
    <3>3. jb \in JobState
      <4>1. ASSUME NEW nx \in JobState
            PROVE  [nx EXCEPT !.pc = "produce", !.work = w] \in JobState
        BY <1>3 DEF JobState
      <4> QED  BY <1>4, <4>1, NextOfOK
    <3>5. JobOK(jb)
      BY <1>3, <3>1, <3>2 DEF JobOK
    <3>4. job' = [job EXCEPT ![j] = jb]
      BY <1>1, <2>2 DEF IndexTypeOK
    <3> QED  BY <3>3, <3>4, <3>5, OneJobChanges DEF IndexTypeOK
  <2> QED  BY <2>1, <2>2
<1> QED
  BY <1>2, <1>5 DEF IndexTypeOK, Delete

LEMMA InsertType ==
  ASSUME IndexTypeOK, NEW j \in Jobs, Insert(j)
  PROVE  IndexTypeOK'
<1> DEFINE w   == job[j].work
           s   == job[j].inserted + 1
           row == [version |-> w.version, section |-> s, text |-> w.text,
                   offset |-> job[j].recs[s]]
           jb  == [job[j] EXCEPT !.inserted = s]
<1>1. /\ job[j] \in JobState /\ JobOK(job[j]) /\ job[j].pc = "insert"
      /\ w \in Work /\ w.version \in Versions /\ w.text \in Contents
      /\ s \in 1..Len(job[j].recs)
  BY DEF IndexTypeOK, Insert, JobState, JobOK, Work
<1>2. job[j].recs[s] \in Nat \ {0}
  BY <1>1 DEF JobState
<1>3. chunks' = chunks \union {row} /\ row \in Row
  BY <1>1, <1>2 DEF Insert, Row
<1>4. job' \in [Jobs -> JobState] /\ \A k \in Jobs : JobOK(job'[k])
  <2>1. CASE s = Len(job[j].recs)
    <3>1. job' = [job EXCEPT ![j] = NextOf(job[j].queue)]
      BY <2>1 DEF Insert, IndexTypeOK
    <3>2. job[j].queue \in Batch
      BY <1>1 DEF JobState
    <3> QED  BY <3>1, <3>2, GiveUpType
  <2>2. CASE s # Len(job[j].recs)
    <3>1. job' = [job EXCEPT ![j] = jb]
      BY <2>2 DEF Insert, IndexTypeOK
    <3>2. /\ jb.pc = "insert" /\ jb.work = w /\ jb.recs = job[j].recs
          /\ jb.inserted = s
      BY <1>1 DEF JobState
    <3>3. jb \in JobState
      BY <1>1 DEF JobState
    <3>4. JobOK(jb)
      BY <1>1, <2>2, <3>2 DEF JobOK, JobState
    <3> QED  BY <3>1, <3>3, <3>4, OneJobChanges DEF IndexTypeOK
  <2> QED  BY <2>1, <2>2
<1> QED
  BY <1>3, <1>4 DEF IndexTypeOK, Insert

\* Every step of the index keeps it well typed.
LEMMA IndexTypeStep ==
  ASSUME IndexTypeOK, [IndexNext]_indexVars
  PROVE  IndexTypeOK'
<1>1. ASSUME NEW j \in Jobs, NEW q \in Batch, StartJob(j, q)
      PROVE  IndexTypeOK'
  BY <1>1, GiveUpType DEF StartJob, IndexTypeOK
<1>2. ASSUME NEW j \in Jobs, Delete(j)        PROVE IndexTypeOK'
  BY <1>2, DeleteType
<1>3. ASSUME NEW j \in Jobs, DeleteFails(j)   PROVE IndexTypeOK'
  <2>1. PICK w \in job[j].queue : job' = [job EXCEPT ![j] = NextOf(job[j].queue \ {w})]
    BY <1>3 DEF DeleteFails, IndexTypeOK
  <2>2. job[j].queue \ {w} \in Batch
    BY SmallerBatch DEF IndexTypeOK, JobState
  <2> QED  BY <1>3, <2>1, <2>2, GiveUpType DEF DeleteFails, IndexTypeOK
<1>4. ASSUME NEW j \in Jobs, Produce(j)       PROVE IndexTypeOK'
  BY <1>4, ProduceType
<1>5. ASSUME NEW j \in Jobs, ProduceFails(j)  PROVE IndexTypeOK'
  <2> DEFINE w == job[j].work
             s == Len(job[j].recs) + 1
  <2>1. job[j].queue \in Batch /\ job' = [job EXCEPT ![j] = NextOf(job[j].queue)]
    BY <1>5 DEF ProduceFails, IndexTypeOK, JobState
  <2>2. ChunkRecord(w.version, s, w.text) \in LogRecord
    BY <1>5 DEF ProduceFails, IndexTypeOK, JobState, JobOK, Work, ChunkRecord, LogRecord
  <2>3. log' \in Seq(LogRecord) /\ Len(log') <= MaxLog
    BY <1>5, <2>2, AppendedRecord DEF ProduceFails, IndexTypeOK
  <2> QED  BY <1>5, <2>1, <2>3, GiveUpType DEF ProduceFails, IndexTypeOK
<1>6. ASSUME NEW j \in Jobs, Insert(j)        PROVE IndexTypeOK'
  BY <1>6, InsertType
<1>7. ASSUME NEW j \in Jobs, InsertFails(j)   PROVE IndexTypeOK'
  BY <1>7, GiveUpType DEF InsertFails, IndexTypeOK, JobState
<1>8. ASSUME NEW j \in Jobs, EndJob(j)        PROVE IndexTypeOK'
  BY <1>8, IdleJobOK, OneJobChanges DEF EndJob, IndexTypeOK
<1>9. ASSUME NEW v \in Versions, Clear(v)     PROVE IndexTypeOK'
  BY <1>9 DEF Clear, DeleteRows, IndexTypeOK
<1>10. ASSUME NEW v \in Versions, EventArrives(v) PROVE IndexTypeOK'
  <2>1. EventRecord(v) \in LogRecord
    BY DEF EventRecord, LogRecord
  <2> QED  BY <1>10, <2>1, AppendedRecord DEF EventArrives, IndexTypeOK
<1>11. CASE StopJobs
  BY <1>11, IdleJobOK DEF StopJobs, IndexTypeOK
<1>12. CASE UNCHANGED indexVars
  BY <1>12 DEF indexVars, IndexTypeOK
<1> QED
  BY <1>1, <1>2, <1>3, <1>4, <1>5, <1>6, <1>7, <1>8, <1>9, <1>10, <1>11, <1>12
     DEF IndexNext, JobStep

\* The stores and the jobs are well typed whatever is interleaved: a job that
\* inserts has one record for every section of its body, so that no row is
\* written without the offset of its own record.
THEOREM IndexTypeCorrect == IndexSpec => []IndexTypeOK
<1>1. IndexInit => IndexTypeOK
  BY IdleJobOK, MaxLogAssumption DEF IndexInit, IndexTypeOK
<1>2. IndexTypeOK /\ [IndexNext]_indexVars => IndexTypeOK'
  BY IndexTypeStep
<1> QED
  BY <1>1, <1>2, PTL DEF IndexSpec

-----------------------------------------------------------------------------
(* Rows and records *)

\* What every step does to the topic: records are added, never changed.
LEMMA LogGrows ==
  ASSUME IndexTypeOK, [IndexNext]_indexVars
  PROVE  /\ Len(log) <= Len(log')
         /\ \A o \in 1..Len(log) : log'[o] = log[o]
<1>1. ASSUME NEW rec, Append1(rec)
      PROVE  /\ Len(log) <= Len(log')
             /\ \A o \in 1..Len(log) : log'[o] = log[o]
  BY <1>1 DEF Append1, IndexTypeOK
<1>2. CASE UNCHANGED log
  BY <1>2 DEF IndexTypeOK
<1> QED
  BY <1>1, <1>2 DEF IndexNext, JobStep, StartJob, Delete, DeleteFails, Produce,
     ProduceFails, Insert, InsertFails, EndJob, Clear, EventArrives, StopJobs,
     indexVars

\* A step that adds no row and gives no job a record, or takes a job's records
\* away, keeps the invariant.
LEMMA NothingGained ==
  ASSUME IndexInv, [IndexNext]_indexVars,
         chunks' \subseteq chunks,
         \A j \in Jobs : \/ job'[j].recs = <<>>
                         \/ /\ job'[j].recs = job[j].recs
                            /\ job'[j].work = job[j].work
                            /\ job'[j].inserted = job[j].inserted
  PROVE  IndexInv'
<1>1. IndexTypeOK'
  BY IndexTypeStep DEF IndexInv
<1>2. /\ Len(log) <= Len(log') /\ Len(log) \in Nat /\ Len(log') \in Nat
      /\ \A o \in 1..Len(log) : log'[o] = log[o]
  BY <1>1, LogGrows DEF IndexInv, IndexTypeOK
<1>3. RowsPointAtTheirRecord'
  <2>1. SUFFICES ASSUME NEW row \in chunks'
                 PROVE  /\ row.offset \in 1..Len(log')
                        /\ log'[row.offset]
                             = ChunkRecord(row.version, row.section, row.text)
    BY DEF RowsPointAtTheirRecord, ChunkRecord
  <2>2. /\ row.offset \in 1..Len(log)
        /\ log[row.offset] = ChunkRecord(row.version, row.section, row.text)
    BY DEF IndexInv, RowsPointAtTheirRecord
  <2> QED  BY <1>2, <2>2
<1>4. OffsetsUnique'
  BY DEF IndexInv, OffsetsUnique
<1>5. \A j \in Jobs : job'[j].recs = <<>> => Len(job'[j].recs) = 0
  OBVIOUS
<1>6. RecordsOwned'
  BY <1>2, <1>5 DEF IndexInv, RecordsOwned, ChunkRecord
<1>a. \A j \in Jobs : \A i \in 1..Len(job'[j].recs) :
         i \in 1..Len(job[j].recs) /\ job'[j].recs[i] = job[j].recs[i]
  BY <1>5
<1>7. RecordsNotShared'
  BY <1>a DEF IndexInv, RecordsNotShared
<1>8. PendingNotInRows'
  BY <1>1, <1>5 DEF IndexInv, PendingNotInRows, PendingRecords, IndexTypeOK, JobState
<1> QED
  BY <1>1, <1>3, <1>4, <1>6, <1>7, <1>8 DEF IndexInv

\* The new record is nobody else's: its offset is beyond every known one.
LEMMA ProduceInv ==
  ASSUME IndexInv, NEW j \in Jobs, Produce(j)
  PROVE  IndexInv'
<1> DEFINE w == job[j].work
           n == Len(job[j].recs)
           o == Len(log) + 1
<1>1. IndexTypeOK /\ IndexTypeOK'
  BY ProduceType DEF IndexInv
<1>2. /\ job[j] \in JobState /\ job[j].recs \in Seq(Nat \ {0})
      /\ job[j].inserted \in Nat /\ n \in Nat /\ o \in Nat \ {0} /\ Len(log) \in Nat
  BY <1>1 DEF IndexTypeOK, JobState
<1>3. /\ job'[j].recs = Append(job[j].recs, o)
      /\ job'[j].work = w /\ job'[j].inserted = job[j].inserted
      /\ \A k \in Jobs \ {j} : job'[k] = job[k]
  BY <1>1, <1>2 DEF Produce, IndexTypeOK, JobState
<1>4. /\ Len(job'[j].recs) = n + 1 /\ job'[j].recs[n + 1] = o
      /\ \A i \in 1..n : job'[j].recs[i] = job[j].recs[i]
  BY <1>2, <1>3
<1>5. ChunkRecord(w.version, n + 1, w.text) \in LogRecord
  <2>1. w \in Work
    BY <1>1 DEF Produce, IndexTypeOK, JobOK
  <2>2. w.version \in Versions /\ w.text \in Contents /\ n + 1 \in Nat \ {0}
    BY <1>2, <2>1 DEF Work
  <2> QED  BY <2>2 DEF ChunkRecord, LogRecord
<1>6. /\ Len(log') = o /\ log'[o] = ChunkRecord(w.version, n + 1, w.text)
      /\ \A i \in 1..Len(log) : log'[i] = log[i]
  BY <1>1, <1>5, AppendedRecord DEF Produce, IndexTypeOK
<1>7. chunks' = chunks
  BY DEF Produce
<1>8. RowsPointAtTheirRecord'
  <2>1. \A row \in chunks :
          /\ row.offset \in 1..Len(log)
          /\ log[row.offset] = ChunkRecord(row.version, row.section, row.text)
    BY DEF IndexInv, RowsPointAtTheirRecord
  <2>2. \A i \in 1..Len(log) : i \in 1..Len(log')
    BY <1>2, <1>6
  <2> QED  BY <1>6, <1>7, <2>1, <2>2 DEF RowsPointAtTheirRecord, ChunkRecord
<1>9. OffsetsUnique'
  BY <1>7 DEF IndexInv, OffsetsUnique
<1>10. \A k \in Jobs : \A i \in 1..Len(job[k].recs) : job[k].recs[i] \in 1..Len(log)
  BY DEF IndexInv, RecordsOwned
<1>11. RecordsOwned'
  <2>1. SUFFICES ASSUME NEW k \in Jobs, NEW i \in 1..Len(job'[k].recs)
                 PROVE  /\ job'[k].recs[i] \in 1..Len(log')
                        /\ log'[job'[k].recs[i]]
                             = ChunkRecord(job'[k].work.version, i, job'[k].work.text)
    BY DEF RecordsOwned, ChunkRecord
  <2>2. CASE k = j /\ i = n + 1
    BY <2>2, <1>2, <1>3, <1>4, <1>6
  <2>3. CASE k # j \/ i # n + 1
    <3>1. /\ i \in 1..Len(job[k].recs) /\ job'[k].recs[i] = job[k].recs[i]
          /\ job'[k].work = job[k].work
      <4>1. CASE k # j
        BY <4>1, <1>3
      <4>2. CASE k = j
        BY <4>2, <2>3, <1>2, <1>3, <1>4
      <4> QED  BY <4>1, <4>2
    <3> QED  BY <3>1, <1>2, <1>6 DEF IndexInv, RecordsOwned
  <2> QED  BY <2>2, <2>3
<1>12. RecordsNotShared'
  <2>1. SUFFICES ASSUME NEW k \in Jobs, NEW l \in Jobs,
                        NEW i \in 1..Len(job'[k].recs), NEW m \in 1..Len(job'[l].recs),
                        job'[k].recs[i] = job'[l].recs[m]
                 PROVE  k = l /\ i = m
    BY DEF RecordsNotShared
  <2> DEFINE New(h, x) == h = j /\ x = n + 1
  <2>2. ASSUME NEW h \in Jobs, NEW x \in 1..Len(job'[h].recs), ~ New(h, x)
        PROVE  /\ x \in 1..Len(job[h].recs) /\ job'[h].recs[x] = job[h].recs[x]
               /\ job'[h].recs[x] \in 1..Len(log)
    <3>1. CASE h # j
      BY <2>2, <3>1, <1>3, <1>10
    <3>2. CASE h = j
      <4>1. x \in 1..(n + 1) /\ x # n + 1
        BY <2>2, <3>2, <1>4
      <4>2. x \in 1..n
        BY <4>1, <1>2
      <4> QED  BY <3>2, <4>2, <1>4, <1>10
    <3> QED  BY <3>1, <3>2
  <2>3. ASSUME NEW h \in Jobs, NEW x, New(h, x)
        PROVE  job'[h].recs[x] = o
    BY <2>3, <1>4
  <2>4. CASE ~ New(k, i) /\ ~ New(l, m)
    BY <2>1, <2>2, <2>4 DEF IndexInv, RecordsNotShared
  <2>5. CASE New(k, i) /\ New(l, m)
    BY <2>5
  <2>6. CASE New(k, i) /\ ~ New(l, m)
    <3>1. job'[k].recs[i] = o
      BY <2>3, <2>6
    <3>2. job'[l].recs[m] \in 1..Len(log)
      BY <2>2, <2>6
    <3> QED  BY <1>2, <2>1, <3>1, <3>2
  <2>7. CASE ~ New(k, i) /\ New(l, m)
    <3>1. job'[l].recs[m] = o
      BY <2>3, <2>7
    <3>2. job'[k].recs[i] \in 1..Len(log)
      BY <2>2, <2>7
    <3> QED  BY <1>2, <2>1, <3>1, <3>2
  <2> QED  BY <2>4, <2>5, <2>6, <2>7
<1>13. PendingNotInRows'
  <2>1. SUFFICES ASSUME NEW k \in Jobs, NEW i \in PendingRecords(k)', NEW row \in chunks
                 PROVE  row.offset # job'[k].recs[i]
    BY <1>7 DEF PendingNotInRows
  <2>2. row.offset \in 1..Len(log)
    BY DEF IndexInv, RowsPointAtTheirRecord
  <2>3. CASE k = j /\ i = n + 1
    BY <2>2, <2>3, <1>2, <1>4
  <2>4. CASE k # j \/ i # n + 1
    <3>1. i \in PendingRecords(k) /\ job'[k].recs[i] = job[k].recs[i]
      <4>1. CASE k # j
        BY <4>1, <1>3 DEF PendingRecords
      <4>2. CASE k = j
        <5>1. i \in (job[j].inserted + 1)..(n + 1)
          BY <4>2, <1>3, <1>4 DEF PendingRecords
        <5>2. i \in (job[j].inserted + 1)..n
          BY <4>2, <5>1, <2>4, <1>2
        <5>3. i \in 1..n
          BY <5>2, <1>2
        <5> QED  BY <4>2, <5>2, <5>3, <1>4 DEF PendingRecords
      <4> QED  BY <4>1, <4>2
    <3> QED  BY <3>1 DEF IndexInv, PendingNotInRows
  <2> QED  BY <2>3, <2>4
<1> QED
  BY <1>1, <1>8, <1>9, <1>11, <1>12, <1>13 DEF IndexInv

\* The new row takes the offset of the first pending record of its job.
LEMMA InsertInv ==
  ASSUME IndexInv, NEW j \in Jobs, Insert(j)
  PROVE  IndexInv'
<1> DEFINE w   == job[j].work
           s   == job[j].inserted + 1
           new == [version |-> w.version, section |-> s, text |-> w.text,
                   offset |-> job[j].recs[s]]
<1>1. IndexTypeOK /\ IndexTypeOK'
  BY InsertType DEF IndexInv
<1>2. /\ job[j] \in JobState /\ job[j].inserted \in Nat
      /\ s \in 1..Len(job[j].recs) /\ s \in PendingRecords(j)
  BY <1>1 DEF Insert, IndexTypeOK, JobState, JobOK, PendingRecords
<1>3. log' = log /\ chunks' = chunks \union {new}
  BY DEF Insert
<1>4. /\ \A k \in Jobs \ {j} : job'[k] = job[k]
      /\ \/ job'[j].recs = <<>>
         \/ /\ job'[j].recs = job[j].recs /\ job'[j].work = w
            /\ job'[j].inserted = s
  <2>1. CASE s = Len(job[j].recs)
    BY <1>1, <2>1, NextOfOK DEF Insert, IndexTypeOK, JobState
  <2>2. CASE s # Len(job[j].recs)
    BY <1>1, <1>2, <2>2 DEF Insert, IndexTypeOK, JobState
  <2> QED  BY <2>1, <2>2
<1>5. RowsPointAtTheirRecord'
  <2>1. /\ new.offset \in 1..Len(log)
        /\ log[new.offset] = ChunkRecord(new.version, new.section, new.text)
    BY <1>2 DEF IndexInv, RecordsOwned
  <2> QED  BY <1>3, <2>1 DEF IndexInv, RowsPointAtTheirRecord, ChunkRecord
<1>6. OffsetsUnique'
  <2>1. \A row \in chunks : row.offset # new.offset
    BY <1>2 DEF IndexInv, PendingNotInRows
  <2> QED  BY <1>3, <2>1 DEF IndexInv, OffsetsUnique
<1>7. \A k \in Jobs : \A i \in 1..Len(job'[k].recs) :
        /\ job'[k].recs = job[k].recs /\ job'[k].work = job[k].work
        /\ i \in 1..Len(job[k].recs)
  BY <1>4
<1>8. RecordsOwned'
  BY <1>3, <1>7 DEF IndexInv, RecordsOwned, ChunkRecord
<1>9. RecordsNotShared'
  <2>1. SUFFICES ASSUME NEW k \in Jobs, NEW l \in Jobs,
                        NEW i \in 1..Len(job'[k].recs), NEW m \in 1..Len(job'[l].recs),
                        job'[k].recs[i] = job'[l].recs[m]
                 PROVE  k = l /\ i = m
    BY DEF RecordsNotShared
  <2>2. /\ i \in 1..Len(job[k].recs) /\ m \in 1..Len(job[l].recs)
        /\ job[k].recs[i] = job[l].recs[m]
    BY <1>7, <2>1
  <2> QED  BY <2>2 DEF IndexInv, RecordsNotShared
<1>10. PendingNotInRows'
  <2>1. SUFFICES ASSUME NEW k \in Jobs, NEW i \in PendingRecords(k)', NEW row \in chunks'
                 PROVE  row.offset # job'[k].recs[i]
    BY DEF PendingNotInRows
  <2>2. /\ i \in 1..Len(job'[k].recs) /\ i \in 1..Len(job[k].recs)
        /\ job'[k].recs[i] = job[k].recs[i]
    <3>1. /\ job' \in [Jobs -> JobState]
          /\ i \in (job'[k].inserted + 1)..Len(job'[k].recs)
      BY <1>1, <2>1 DEF PendingRecords, IndexTypeOK
    <3>2. job'[k].inserted \in Nat /\ Len(job'[k].recs) \in Nat
      BY <3>1 DEF JobState
    <3>3. i \in 1..Len(job'[k].recs)
      BY <3>1, <3>2
    <3> QED  BY <1>7, <3>3
  <2>3. i \in PendingRecords(k) /\ (k = j => i # s)
    <3>1. CASE k # j
      BY <2>1, <3>1, <1>4 DEF PendingRecords
    <3>2. CASE k = j
      <4>1. job'[j].recs = job[j].recs /\ job'[j].inserted = s
        BY <1>4, <2>2, <3>2
      <4>2. i \in (s + 1)..Len(job[j].recs)
        BY <3>2, <4>1 DEF PendingRecords
      <4> QED  BY <3>2, <4>2, <1>2 DEF PendingRecords
    <3> QED  BY <3>1, <3>2
  <2>4. CASE row \in chunks
    BY <2>2, <2>3, <2>4 DEF IndexInv, PendingNotInRows
  <2>5. CASE row = new
    <3>1. job[j].recs[s] = job[k].recs[i] => j = k /\ s = i
      BY <1>2, <2>2 DEF IndexInv, RecordsNotShared
    <3> QED  BY <2>2, <2>3, <2>5, <3>1
  <2> QED  BY <1>3, <2>4, <2>5
<1> QED
  BY <1>1, <1>5, <1>6, <1>8, <1>9, <1>10 DEF IndexInv

\* Every other step gains nothing.
LEMMA IndexInvStep ==
  ASSUME IndexInv, [IndexNext]_indexVars
  PROVE  IndexInv'
<1> USE DEF IndexTypeOK
<1>1. job \in [Jobs -> JobState] /\ \A j \in Jobs : job[j].queue \in Batch
  BY DEF IndexInv, JobState
<1>2. ASSUME NEW j \in Jobs, NEW q \in Batch, job' = [job EXCEPT ![j] = NextOf(q)]
      PROVE  \A k \in Jobs : job'[k].recs = <<>> \/ job'[k] = job[k]
  BY <1>1, <1>2, NextOfOK
<1>3. ASSUME NEW j \in Jobs, NEW q \in Batch, StartJob(j, q)  PROVE IndexInv'
  BY <1>2, <1>3, NothingGained DEF StartJob
<1>4. ASSUME NEW j \in Jobs, Delete(j)       PROVE IndexInv'
  <2>1. PICK w \in job[j].queue :
          /\ DeleteRows(w.version)
          /\ job' = [job EXCEPT ![j] =
               IF Sections[w.text] = 0
                 THEN NextOf(@.queue \ {w})
                 ELSE [NextOf(@.queue \ {w}) EXCEPT !.pc = "produce", !.work = w]]
    BY <1>4 DEF Delete
  <2>2. job[j].queue \ {w} \in Batch
    BY <1>1, SmallerBatch
  <2> DEFINE nx == NextOf(job[j].queue \ {w})
  <2>3. nx \in JobState /\ nx.recs = <<>>
    BY <2>2, NextOfOK
  <2>4. [nx EXCEPT !.pc = "produce", !.work = w].recs = <<>>
    <3>1. ASSUME NEW jb \in JobState
          PROVE  [jb EXCEPT !.pc = "produce", !.work = w].recs = jb.recs
      BY DEF JobState
    <3> QED  BY <2>3, <3>1
  <2>5. \A k \in Jobs : job'[k].recs = <<>> \/ job'[k] = job[k]
    BY <1>1, <2>1, <2>3, <2>4
  <2>6. chunks' \subseteq chunks
    BY <2>1 DEF DeleteRows
  <2> QED  BY <2>5, <2>6, NothingGained
<1>5. ASSUME NEW j \in Jobs, DeleteFails(j)  PROVE IndexInv'
  <2>1. PICK w \in job[j].queue : job' = [job EXCEPT ![j] = NextOf(job[j].queue \ {w})]
    BY <1>1, <1>5 DEF DeleteFails
  <2>2. job[j].queue \ {w} \in Batch
    BY <1>1, SmallerBatch
  <2> QED  BY <1>2, <1>5, <2>1, <2>2, NothingGained DEF DeleteFails
<1>6. ASSUME NEW j \in Jobs, Produce(j)      PROVE IndexInv'
  BY <1>6, ProduceInv
<1>7. ASSUME NEW j \in Jobs, ProduceFails(j) PROVE IndexInv'
  <2>1. job' = [job EXCEPT ![j] = NextOf(job[j].queue)] /\ chunks' = chunks
    BY <1>1, <1>7 DEF ProduceFails
  <2> QED  BY <1>1, <1>2, <2>1, NothingGained
<1>8. ASSUME NEW j \in Jobs, Insert(j)       PROVE IndexInv'
  BY <1>8, InsertInv
<1>9. ASSUME NEW j \in Jobs, InsertFails(j)  PROVE IndexInv'
  <2>1. job' = [job EXCEPT ![j] = NextOf(job[j].queue)] /\ chunks' = chunks
    BY <1>1, <1>9 DEF InsertFails
  <2> QED  BY <1>1, <1>2, <2>1, NothingGained
<1>10. ASSUME NEW j \in Jobs, EndJob(j)      PROVE IndexInv'
  <2>1. chunks' = chunks /\ \A k \in Jobs : job'[k].recs = <<>> \/ job'[k] = job[k]
    BY <1>1, <1>10, IdleJobOK DEF EndJob
  <2> QED  BY <2>1, NothingGained
<1>11. ASSUME NEW v \in Versions, Clear(v)   PROVE IndexInv'
  BY <1>11, NothingGained DEF Clear, DeleteRows
<1>12. ASSUME NEW v \in Versions, EventArrives(v)  PROVE IndexInv'
  BY <1>12, NothingGained DEF EventArrives
<1>13. CASE StopJobs
  <2>1. chunks' = chunks /\ \A k \in Jobs : job'[k].recs = <<>>
    BY <1>13, IdleJobOK DEF StopJobs
  <2> QED  BY <2>1, NothingGained
<1>14. CASE UNCHANGED indexVars
  BY <1>14, NothingGained DEF indexVars
<1> QED
  BY <1>3, <1>4, <1>5, <1>6, <1>7, <1>8, <1>9, <1>10, <1>11, <1>12, <1>13, <1>14
     DEF IndexNext, JobStep

LEMMA IndexStart == IndexInit => IndexInv
<1> SUFFICES ASSUME IndexInit  PROVE IndexInv
  OBVIOUS
<1>1. IndexTypeOK
  BY IdleJobOK, MaxLogAssumption DEF IndexInit, IndexTypeOK
<1>2. chunks = {} /\ \A j \in Jobs : Len(job[j].recs) = 0
  BY IdleJobOK DEF IndexInit
<1> QED
  BY <1>1, <1>2 DEF IndexInv, RowsPointAtTheirRecord, OffsetsUnique, RecordsOwned,
     RecordsNotShared, PendingNotInRows, PendingRecords, IndexTypeOK, JobState

\* The inductive invariant holds of the index alone, and so of every system
\* whose steps on the index are steps of the index.
THEOREM IndexInvariant == IndexSpec => []IndexInv
<1>1. IndexInv /\ [IndexNext]_indexVars => IndexInv'
  BY IndexInvStep
<1> QED
  BY <1>1, IndexStart, PTL DEF IndexSpec

\* The offset of every row addresses the record of the same version, section
\* and text: an MCP hit is never enriched with another page's metadata.
THEOREM RowsAreFaithful == IndexSpec => []RowsPointAtTheirRecord
<1>1. IndexInv => RowsPointAtTheirRecord
  BY DEF IndexInv
<1> QED
  BY <1>1, IndexInvariant, PTL

\* No two rows share an offset: the enrichment map has one entry per row.
THEOREM OffsetsAreUnique == IndexSpec => []OffsetsUnique
<1>1. IndexInv => OffsetsUnique
  BY DEF IndexInv
<1> QED
  BY <1>1, IndexInvariant, PTL

=============================================================================
