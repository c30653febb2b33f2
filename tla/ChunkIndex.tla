----------------------------- MODULE ChunkIndex -----------------------------
(***************************************************************************)
(* The search index of published pages and the tasks that write it.        *)
(*                                                                         *)
(* A page version is one language of one page.  Its markdown is split into *)
(* sections; each section is produced as one record of the Chronik topic   *)
(* published-pages and then one row of the Postgres table chunks keeps the *)
(* record's offset.  The MCP server turns a search hit (an offset) back    *)
(* into a page through that row.                                           *)
(*                                                                         *)
(* A job is a task spawned by POST /pages/{id}/publish, by the admin       *)
(* reindex or by the boot-time backfill.  It takes a batch of versions     *)
(* with the markdown it has read and, for each of them, deletes the rows,  *)
(* produces the records one by one and inserts the rows one by one.  No    *)
(* lock and no transaction spans these steps: every database statement and *)
(* every produce call is an action here, and anything may happen between.  *)
(***************************************************************************)
EXTENDS Integers, Sequences, FiniteSets

CONSTANTS
  Pages,        \* page ids
  Languages,    \* language tags of the workspace
  Contents,     \* the markdown bodies a version may hold
  Sections,     \* number of chunks the chunker makes of a body (0 if empty)
  Jobs,         \* slots for the tasks spawned by the API process
  NoWork,       \* a job that is not working on any version
  MaxLog        \* bound: the topic holds at most MaxLog records

Versions == Pages \X Languages          \* UNIQUE (page_id, language)
Work     == [version : Versions, text : Contents]

ASSUME SectionsAssumption == Sections \in [Contents -> Nat]
ASSUME NoWorkAssumption   == NoWork \notin Work
ASSUME MaxLogAssumption   == MaxLog \in Nat

VARIABLES
  log,      \* the records of the topic, in offset order (offset + 1 = index)
  chunks,   \* the rows of the table chunks
  job       \* the state of each job

indexVars == <<log, chunks, job>>

-----------------------------------------------------------------------------
(* Data *)

\* What the pipeline produces for section s (section_index + 1) of a body.
ChunkRecord(v, s, c) == [version |-> v, section |-> s, text |-> c]

\* What the domain event page.published leaves in the SAME topic.
EventRecord(v) == [event |-> "page.published", version |-> v]

\* text stands for the columns copied from the chunk: heading path, tokens...
Row == [version : Versions, section : Nat \ {0}, text : Contents,
        offset : Nat \ {0}]

RowsOf(v) == {row \in chunks : row.version = v}

\* A batch never names a version twice: it is the result of one SELECT.
Batch == {q \in SUBSET Work : \A w, x \in q : w.version = x.version => w = x}

\* A job with no version in hand: idle, or going on with the rest of a batch.
Unoccupied(pc, q) == [pc |-> pc, queue |-> q, work |-> NoWork,
                      recs |-> <<>>, inserted |-> 0]
IdleJob   == Unoccupied("idle", {})
NextOf(q) == Unoccupied("next", q)

-----------------------------------------------------------------------------
(* Statements on the two stores, shared with the modules that extend this *)

Append1(rec) == /\ Len(log) < MaxLog
                /\ log' = Append(log, rec)

DeleteRows(v) == chunks' = chunks \ RowsOf(v)

\* UNIQUE (page_version_id, section_index)
Conflicts(v, s) == \E row \in chunks : row.version = v /\ row.section = s

-----------------------------------------------------------------------------
(* The jobs *)

StartJob(j, q) ==
  /\ job[j].pc = "idle"
  /\ job' = [job EXCEPT ![j] = NextOf(q)]
  /\ UNCHANGED <<log, chunks>>

\* Faulty variant of Delete: the rows of the last publish stay.
DeleteNothing(j) ==
  /\ job[j].pc = "next"
  /\ \E w \in job[j].queue :
       job' = [job EXCEPT ![j] =
            IF Sections[w.text] = 0
              THEN NextOf(@.queue \ {w})
              ELSE [NextOf(@.queue \ {w}) EXCEPT !.pc = "produce", !.work = w]]
  /\ UNCHANGED <<log, chunks>>

\* run(): DELETE FROM chunks, then chunk_markdown; nothing to do for an
\* empty body, whose rows stay deleted.
Delete(j) ==
  /\ job[j].pc = "next"
  /\ \E w \in job[j].queue :
       /\ DeleteRows(w.version)
       /\ job' = [job EXCEPT ![j] =
            IF Sections[w.text] = 0
              THEN NextOf(@.queue \ {w})
              ELSE [NextOf(@.queue \ {w}) EXCEPT !.pc = "produce", !.work = w]]
  /\ UNCHANGED log

\* The DELETE fails: the caller logs the error and takes the next version.
DeleteFails(j) ==
  /\ job[j].pc = "next"
  /\ \E w \in job[j].queue :
       job' = [job EXCEPT ![j] = NextOf(@.queue \ {w})]
  /\ UNCHANGED <<log, chunks>>

\* Faulty variant of Produce: it stops one section short.
ProduceShort(j) ==
  LET w == job[j].work
      s == Len(job[j].recs) + 1
  IN  /\ job[j].pc = "produce"
      /\ Append1(ChunkRecord(w.version, s, w.text))
      /\ job' = [job EXCEPT
                   ![j].recs = Append(@, Len(log) + 1),
                   ![j].pc   = IF s + 1 = Sections[w.text] THEN "insert" ELSE @]
      /\ UNCHANGED chunks

\* Faulty variant of Produce: it notes the first offset for every section.
ProduceBaseOffset(j) ==
  LET w == job[j].work
      s == Len(job[j].recs) + 1
      o == IF s = 1 THEN Len(log) + 1 ELSE job[j].recs[1]
  IN  /\ job[j].pc = "produce"
      /\ Append1(ChunkRecord(w.version, s, w.text))
      /\ job' = [job EXCEPT
                   ![j].recs = Append(@, o),
                   ![j].pc   = IF s = Sections[w.text] THEN "insert" ELSE @]
      /\ UNCHANGED chunks

\* produce_chunks(): one record per section, each awaited.
Produce(j) ==
  LET w == job[j].work
      s == Len(job[j].recs) + 1
  IN  /\ job[j].pc = "produce"
      /\ Append1(ChunkRecord(w.version, s, w.text))
      /\ job' = [job EXCEPT
                   ![j].recs = Append(@, Len(log) + 1),
                   ![j].pc   = IF s = Sections[w.text] THEN "insert" ELSE @]
      /\ UNCHANGED chunks

\* A produce call fails, and the records before it stay in the topic.  The
\* broker may have stored the record of the failed call as well.
ProduceFails(j) ==
  LET w == job[j].work
      s == Len(job[j].recs) + 1
  IN  /\ job[j].pc = "produce"
      /\ \/ UNCHANGED log
         \/ Append1(ChunkRecord(w.version, s, w.text))
      /\ job' = [job EXCEPT ![j] = NextOf(@.queue)]
      /\ UNCHANGED chunks

\* Faulty variant of Insert: the offset is that of the last record.
InsertLastOffset(j) ==
  LET w == job[j].work
      s == job[j].inserted + 1
  IN  /\ job[j].pc = "insert"
      /\ ~ Conflicts(w.version, s)
      /\ chunks' = chunks \union
           {[version |-> w.version, section |-> s, text |-> w.text,
             offset |-> job[j].recs[Len(job[j].recs)]]}
      /\ job' = [job EXCEPT ![j] =
            IF s = Len(@.recs) THEN NextOf(@.queue)
                               ELSE [@ EXCEPT !.inserted = s]]
      /\ UNCHANGED log

\* insert_batch(): one INSERT per chunk, no transaction around them.
Insert(j) ==
  LET w == job[j].work
      s == job[j].inserted + 1
  IN  /\ job[j].pc = "insert"
      /\ ~ Conflicts(w.version, s)
      /\ chunks' = chunks \union
           {[version |-> w.version, section |-> s, text |-> w.text,
             offset |-> job[j].recs[s]]}
      /\ job' = [job EXCEPT ![j] =
            IF s = Len(@.recs) THEN NextOf(@.queue)
                               ELSE [@ EXCEPT !.inserted = s]]
      /\ UNCHANGED log

\* The INSERT fails (always when it breaks the unique constraint): the rows
\* already inserted stay, the rest of this version is given up.
InsertFails(j) ==
  /\ job[j].pc = "insert"
  /\ job' = [job EXCEPT ![j] = NextOf(@.queue)]
  /\ UNCHANGED <<log, chunks>>

EndJob(j) ==
  /\ job[j].pc = "next"
  /\ job[j].queue = {}
  /\ job' = [job EXCEPT ![j] = IdleJob]
  /\ UNCHANGED <<log, chunks>>

JobStep(j) ==
  \/ Delete(j)  \/ DeleteFails(j)
  \/ Produce(j) \/ ProduceFails(j)
  \/ Insert(j)  \/ InsertFails(j)
  \/ EndJob(j)

-----------------------------------------------------------------------------
(* The rest of the system, as far as the two stores see it *)

\* POST /pages/{id}/draft clears a version whatever the jobs are doing.
Clear(v) ==
  /\ DeleteRows(v)
  /\ UNCHANGED <<log, job>>

\* The fire-and-forget event of a publish reaches the topic.
EventArrives(v) ==
  /\ Append1(EventRecord(v))
  /\ UNCHANGED <<chunks, job>>

\* The API process stops: its tasks are gone, the two stores are not.
StopJobs ==
  /\ job' = [j \in Jobs |-> IdleJob]
  /\ UNCHANGED <<log, chunks>>

IndexInit ==
  /\ log = <<>>
  /\ chunks = {}
  /\ job = [j \in Jobs |-> IdleJob]

IndexNext ==
  \/ \E j \in Jobs : JobStep(j) \/ \E q \in Batch : StartJob(j, q)
  \/ \E v \in Versions : Clear(v) \/ EventArrives(v)
  \/ StopJobs

IndexSpec == IndexInit /\ [][IndexNext]_indexVars

-----------------------------------------------------------------------------
(* Properties *)

JobState == [pc : {"idle", "next", "produce", "insert"}, queue : Batch,
             work : Work \union {NoWork}, recs : Seq(Nat \ {0}), inserted : Nat]

LogRecord == [version : Versions, section : Nat \ {0}, text : Contents]
               \union [event : {"page.published"}, version : Versions]

\* The type invariant: a job has a version in hand exactly while it produces
\* (and lacks a record) or inserts (with every record, and lacks a row).
JobOK(jb) ==
  /\ jb.pc = "produce" => /\ jb.work \in Work
                          /\ Len(jb.recs) < Sections[jb.work.text]
                          /\ jb.inserted = 0
  /\ jb.pc = "insert"  => /\ jb.work \in Work
                          /\ Len(jb.recs) = Sections[jb.work.text]
                          /\ jb.inserted < Len(jb.recs)
  /\ jb.pc \in {"idle", "next"} =>
       jb.work = NoWork /\ jb.recs = <<>> /\ jb.inserted = 0

IndexTypeOK ==
  /\ log \in Seq(LogRecord)
  /\ Len(log) <= MaxLog
  /\ chunks \subseteq Row
  /\ job \in [Jobs -> JobState]
  /\ \A j \in Jobs : JobOK(job[j])

\* "Row exists iff the corresponding embedding has been written"
\* (migrations/0001), in the direction the code can keep: the offset of every
\* row addresses the record produced for the same version, section and text,
\* however many pipelines, clears, failures and restarts are interleaved.
RowsPointAtTheirRecord ==
  \A row \in chunks :
    /\ row.offset \in 1..Len(log)
    /\ log[row.offset] = ChunkRecord(row.version, row.section, row.text)

\* The MCP enrichment builds a map keyed on the offset of a hit: no two rows
\* share an offset, so a hit is attributed to one page version.
OffsetsUnique ==
  \A r1, r2 \in chunks : r1.offset = r2.offset => r1 = r2

\* Why the two hold: the records a job has produced are its own, no other job
\* shares them, and those it has not inserted yet are in no row.
PendingRecords(j) == (job[j].inserted + 1)..Len(job[j].recs)

RecordsOwned ==
  \A j \in Jobs : \A i \in 1..Len(job[j].recs) :
    /\ job[j].recs[i] \in 1..Len(log)
    /\ log[job[j].recs[i]] = ChunkRecord(job[j].work.version, i, job[j].work.text)

RecordsNotShared ==
  \A j, k \in Jobs : \A i \in 1..Len(job[j].recs), m \in 1..Len(job[k].recs) :
    job[j].recs[i] = job[k].recs[m] => j = k /\ i = m

PendingNotInRows ==
  \A j \in Jobs : \A i \in PendingRecords(j), row \in chunks :
    row.offset # job[j].recs[i]

IndexInv == /\ IndexTypeOK
            /\ RowsPointAtTheirRecord
            /\ OffsetsUnique
            /\ RecordsOwned
            /\ RecordsNotShared
            /\ PendingNotInRows

=============================================================================
