--------------------------- MODULE PageLifecycle ---------------------------
(***************************************************************************)
(* Pages, their versions and their history, and the HTTP requests that     *)
(* change them, on top of the search index of ChunkIndex.                  *)
(*                                                                         *)
(* A request is a sequence of database statements, each committed on its   *)
(* own; a request slot holds where it is.  The first statement of a        *)
(* request is the action that starts it, because nothing has happened      *)
(* before; a request that its first statement refuses leaves no trace.     *)
(* A publish is answered when its pass is over; the task it spawns reads   *)
(* the versions later, beside whatever the client asks for next.  Requests,*)
(* tasks and event deliveries interleave freely, a statement may fail, and *)
(* the API process may stop and start between any two of them.             *)
(***************************************************************************)
EXTENDS ChunkIndex

CONSTANTS
  Requests,     \* slots for the requests the API is serving
  EmptyBody,    \* the body of a version created by a title-only update
  Keep,         \* an update that does not mention the body
  None,         \* no such row, or an unused field of a request
  MaxRequests,  \* bound: requests served
  MaxFaults     \* bound: statements that fail and process stops

\* A row of page_versions.
Versioned == [status : {"draft", "published"}, text : Contents]

ASSUME EmptyBodyAssumption == EmptyBody \in Contents /\ Sections[EmptyBody] = 0
ASSUME BoundsAssumption    == MaxRequests \in Nat /\ MaxFaults \in Nat
ASSUME DistinctAssumption  == /\ Keep \notin Contents
                              /\ None \notin Pages \union Languages \union Contents
                              /\ None \notin Versions \union Versioned
                              /\ None \notin {"draft", "published"}
                              /\ Keep # None

VARIABLES
  page,           \* pages.status, or None
  version,        \* page_versions row of each (page, language), or None
  history,        \* page_version_history rows, by version_number
  req,            \* the requests being served
  events,         \* page.published events sent and not yet delivered
  tasks,          \* tasks spawned for each page that have not read it yet
  served,         \* number of requests served (bounded)
  faults,         \* number of faults so far (bounded)
  everPublished,  \* history variable: the pages that have been published
  overwritten,    \* history variable: the versions whose body the editor has
                  \* replaced under a published page since it was published
  disturbed,      \* history variable: the pages with a request cut short, or
                  \* overlapped by another, since a publish or draft of the
                  \* page last began alone
  contested       \* history variable: the versions that a task took up beside
                  \* another, gave up or lost, since one last took them alone

ghosts   == <<everPublished, overwritten>>
dbVars   == <<page, version, history, ghosts>>
sent     == <<events, tasks>>
allVars  == <<indexVars, dbVars, req, sent, served, faults, disturbed, contested>>

-----------------------------------------------------------------------------

IdleReq == [op |-> "none", pc |-> "idle", page |-> None, lang |-> None,
            text |-> None, todo |-> {}]

At(r, pc) == req[r].pc = pc
Goto(r, pc) == req' = [req EXCEPT ![r].pc = pc]
Finish(r) == req' = [req EXCEPT ![r] = IdleReq]

\* The requests in progress on page p.
Serving(p) == {r \in Requests : ~ At(r, "idle") /\ req[r].page = p}

\* A new request takes slot r, alone on its page or beside another.
Accept(r, rec) ==
  /\ At(r, "idle") /\ served < MaxRequests
  /\ req' = [req EXCEPT ![r] = rec]
  /\ served' = served + 1
  /\ disturbed' = IF Serving(rec.page) # {} THEN disturbed \union {rec.page}
                  ELSE IF rec.pc = "page" THEN disturbed \ {rec.page}
                  ELSE disturbed
  /\ UNCHANGED <<faults, contested>>

\* The next statement of a request already accepted.
Continue(r, pc) == At(r, pc) /\ UNCHANGED <<served, faults, disturbed, contested>>

\* A statement that fails.
Fault == faults < MaxFaults /\ faults' = faults + 1 /\ UNCHANGED served

Current(r) == <<req[r].page, req[r].lang>>

\* What a request reads: the page and its status; the version of one language,
\* or nothing yet; the entries of its history, and the body of one of them.
Editable(p)     == page[p] = "draft"
BodyOf(v)       == IF version[v] = None THEN EmptyBody ELSE version[v].text
Entries(v)      == DOMAIN history[v]
EntryBody(v, i) == history[v][i].text

\* has_recent_snapshot: any snapshot may be younger than 30 seconds.
MayBeRecent(v) == Entries(v) # {}

\* find_all_published_in_workspace
PublishedVersions == {v \in Versions : version[v] # None /\ version[v].status = "published"}

\* SELECT ... FROM page_versions WHERE page_id = p: what the pipeline is given.
VersionsOf(p) == {w \in Work : /\ w.version[1] = p
                               /\ version[w.version] # None
                               /\ version[w.version].text = w.text}

\* The versions a job has in its batch or in hand.
Held(jb) == {w.version : w \in (jb.queue \union {jb.work}) \ {NoWork}}

\* A task takes up a batch, beside what the other tasks hold.
TakeUp(j, q) ==
  LET named == {w.version : w \in q}
      held  == UNION {Held(job[k]) : k \in Jobs}
  IN  /\ StartJob(j, q)
      /\ contested' = (contested \ named) \union (named \intersect held)

\* A task gives up a version.
GiveUp(j) == contested' = contested \union (Held(job[j]) \ Held(job'[j]))

Snapshot(c, published) == [text |-> c, published |-> published]

\* INSERT INTO page_version_history, or an error that is only logged.
Record(v, snap) == history' = [history EXCEPT ![v] = Append(@, snap)]

-----------------------------------------------------------------------------
(* POST /pages: the page row, then its first version. *)

CreatePage(r, p, l, c) ==
  /\ page[p] = None
  /\ page' = [page EXCEPT ![p] = "draft"]
  /\ Accept(r, [IdleReq EXCEPT !.op = "create", !.pc = "upsert",
                               !.page = p, !.lang = l, !.text = c])
  /\ UNCHANGED <<indexVars, version, history, ghosts, sent>>

(* PATCH /pages/{id}: a published page is refused. *)

UpdatePage(r, p, l, patch) ==
  /\ Editable(p)
  /\ Accept(r, [IdleReq EXCEPT !.op = "update", !.pc = "read",
                               !.page = p, !.lang = l, !.text = patch])
  /\ UNCHANGED <<indexVars, dbVars, sent>>

\* A patch without a body keeps the body of the version as read here.
ReadVersion(r) ==
  /\ Continue(r, "read")
  /\ req' = [req EXCEPT ![r].pc = "upsert",
                         ![r].text = IF @ = Keep THEN BodyOf(Current(r)) ELSE @]
  /\ UNCHANGED <<indexVars, dbVars, sent>>

(* POST /pages/{id}/versions/history/{hid}/restore: the same refusal; the  *)
(* entry is immutable, so it is read with the page.                        *)

RestoreVersion(r, p, l, i) ==
  /\ Editable(p)
  /\ i \in Entries(<<p, l>>)
  /\ Accept(r, [IdleReq EXCEPT !.op = "restore", !.pc = "upsert", !.page = p,
                     !.lang = l, !.text = EntryBody(<<p, l>>, i)])
  /\ UNCHANGED <<indexVars, dbVars, sent>>

\* INSERT INTO page_versions ... ON CONFLICT DO UPDATE, always as a draft;
\* create ends here, update and restore go on to the history.
UpsertVersion(r) ==
  /\ Continue(r, "upsert")
  /\ version' = [version EXCEPT ![Current(r)] =
                   [status |-> "draft", text |-> req[r].text]]
  /\ IF req[r].op = "create" THEN Finish(r) ELSE Goto(r, "snapshot")
  /\ UNCHANGED <<indexVars, page, history, ghosts, sent>>

\* Update: skipped when a snapshot was taken in the last 30 seconds.
\* Restore: always recorded.
SnapshotSaved(r) ==
  /\ Continue(r, "snapshot")
  /\ \/ Record(Current(r), Snapshot(req[r].text, FALSE))
     \/ /\ req[r].op = "update"
        /\ MayBeRecent(Current(r))
        /\ UNCHANGED history
  /\ Finish(r)
  /\ UNCHANGED <<indexVars, page, version, ghosts, sent>>

-----------------------------------------------------------------------------
(* POST /pages/{id}/publish and /draft: the page's status, then the status *)
(* of all its versions, then a pass over the versions.                     *)

Target(op) == IF op = "publish" THEN "published" ELSE "draft"

ChangeStatus(r, p, op) ==
  /\ page[p] # None
  /\ Accept(r, [IdleReq EXCEPT !.op = op, !.pc = "page", !.page = p])
  /\ UNCHANGED <<indexVars, dbVars, sent>>

SetPageStatus(r) ==
  /\ Continue(r, "page")
  /\ page' = [page EXCEPT ![req[r].page] = Target(req[r].op)]
  /\ everPublished' = IF req[r].op = "publish"
                        THEN everPublished \union {req[r].page}
                        ELSE everPublished
  /\ Goto(r, "versions")
  /\ UNCHANGED <<indexVars, version, history, overwritten, sent>>

\* Faulty variant of SetVersionStatus: only publish cascades.
SetVersionStatusOnPublish(r) ==
  /\ Continue(r, "versions")
  /\ version' = [v \in Versions |->
       IF v[1] = req[r].page /\ version[v] # None /\ req[r].op = "publish"
         THEN [version[v] EXCEPT !.status = "published"]
         ELSE version[v]]
  /\ Goto(r, "load")
  /\ UNCHANGED <<indexVars, page, history, ghosts, sent>>

SetVersionStatus(r) ==
  /\ Continue(r, "versions")
  /\ version' = [v \in Versions |->
       IF v[1] = req[r].page /\ version[v] # None
         THEN [version[v] EXCEPT !.status = Target(req[r].op)]
         ELSE version[v]]
  /\ Goto(r, "load")
  /\ UNCHANGED <<indexVars, page, history, ghosts, sent>>

LoadVersions(r) ==
  /\ Continue(r, "load")
  /\ req' = [req EXCEPT ![r].pc = "each", ![r].todo = VersionsOf(req[r].page)]
  /\ overwritten' = IF req[r].op = "publish"
                      THEN {v \in overwritten : v[1] # req[r].page}
                      ELSE overwritten
  /\ UNCHANGED <<indexVars, page, version, history, everPublished, sent>>

\* Faulty variant of PublishVersion: the snapshot is taken as a save.
PublishVersionAsSave(r, w) ==
  /\ Continue(r, "each") /\ req[r].op = "publish"
  /\ w \in req[r].todo
  /\ Record(w.version, Snapshot(w.text, FALSE))
  /\ events' = [events EXCEPT ![w.version] = @ + 1]
  /\ req' = [req EXCEPT ![r].todo = @ \ {w}]
  /\ UNCHANGED <<indexVars, page, version, ghosts, tasks>>

\* Publish: a snapshot and an event for each version.
PublishVersion(r, w) ==
  /\ Continue(r, "each") /\ req[r].op = "publish"
  /\ w \in req[r].todo
  /\ Record(w.version, Snapshot(w.text, TRUE))
  /\ events' = [events EXCEPT ![w.version] = @ + 1]
  /\ req' = [req EXCEPT ![r].todo = @ \ {w}]
  /\ UNCHANGED <<indexVars, page, version, ghosts, tasks>>

\* Draft: the chunk rows of each version are deleted.
DraftVersion(r, w) ==
  /\ Continue(r, "each") /\ req[r].op = "draft"
  /\ w \in req[r].todo
  /\ Clear(w.version)
  /\ req' = [req EXCEPT ![r].todo = @ \ {w}]
  /\ UNCHANGED <<dbVars, sent>>

\* Faulty variant of EndPass: no task is spawned.
EndPassUnspawned(r) ==
  /\ Continue(r, "each")
  /\ req[r].todo = {}
  /\ Finish(r)
  /\ UNCHANGED <<indexVars, dbVars, sent>>

\* The pass is over: a publish spawns a task, and the answer is sent.
EndPass(r) ==
  /\ Continue(r, "each")
  /\ req[r].todo = {}
  /\ tasks' = IF req[r].op = "publish" THEN [tasks EXCEPT ![req[r].page] = @ + 1]
                                       ELSE tasks
  /\ Finish(r)
  /\ UNCHANGED <<indexVars, dbVars, events>>

-----------------------------------------------------------------------------
(* The task of a publish: it reads the versions of the page again, as they *)
(* are by then, whatever their status, and runs the pipeline on them.      *)

TaskReads(p) == /\ tasks[p] > 0
                /\ tasks' = [tasks EXCEPT ![p] = @ - 1]
                /\ UNCHANGED <<dbVars, req, events, disturbed>>

StartPipeline(p, j) ==
  /\ TaskReads(p)
  /\ TakeUp(j, VersionsOf(p))
  /\ UNCHANGED <<served, faults>>

\* The read fails: the error is logged and the task is over.
TaskFails(p) ==
  /\ TaskReads(p)
  /\ Fault
  /\ contested' = contested \union {v \in Versions : v[1] = p}
  /\ UNCHANGED indexVars

-----------------------------------------------------------------------------
(* POST /admin/workspace/reindex: every published version, with the body   *)
(* it has now, is given to a spawned task.                                 *)

\* Faulty variant of PublishedWork: drafts are not filtered out.
AllWork == UNION {VersionsOf(p) : p \in Pages}

PublishedWork == {w \in UNION {VersionsOf(p) : p \in Pages} :
                    w.version \in PublishedVersions}

Reindex(j) ==
  /\ served < MaxRequests /\ served' = served + 1
  /\ TakeUp(j, PublishedWork)
  /\ UNCHANGED <<dbVars, req, sent, faults, disturbed>>

-----------------------------------------------------------------------------
(* The editor's WebSocket: a reply with a canvas part replaces the body of *)
(* the version where it is, whatever its status, if the row exists.        *)

WriteCanvas(v, c) ==
  /\ served < MaxRequests /\ served' = served + 1
  /\ version[v] # None
  /\ c # EmptyBody
  /\ version' = [version EXCEPT ![v].text = c]
  /\ overwritten' = IF page[v[1]] = "published" /\ version[v].text # c
                      THEN overwritten \union {v}
                      ELSE overwritten
  /\ UNCHANGED <<indexVars, page, history, everPublished, req, sent, faults,
                 disturbed, contested>>

-----------------------------------------------------------------------------
(* Jobs, events and faults *)

\* A pipeline's step; losing the race for a unique row is no fault.
Pipeline(j) ==
  /\ \/ Delete(j) \/ Produce(j) \/ Insert(j) \/ EndJob(j)
     \/ /\ InsertFails(j)
        /\ Conflicts(job[j].work.version, job[j].inserted + 1)
  /\ UNCHANGED <<dbVars, req, sent, served, faults, disturbed, contested>>

PipelineFails(j) ==
  /\ Fault
  /\ DeleteFails(j) \/ ProduceFails(j) \/ InsertFails(j)
  /\ GiveUp(j)
  /\ UNCHANGED <<dbVars, req, sent, disturbed>>

DeliverEvent(v) ==
  /\ events[v] > 0
  /\ EventArrives(v)
  /\ events' = [events EXCEPT ![v] = @ - 1]
  /\ UNCHANGED <<dbVars, req, tasks, served, faults, disturbed, contested>>

LoseEvent(v) ==
  /\ Fault
  /\ events[v] > 0
  /\ events' = [events EXCEPT ![v] = @ - 1]
  /\ UNCHANGED <<indexVars, dbVars, req, tasks, disturbed, contested>>

\* A failed statement cuts its request short.
CutShort(r) == /\ Fault
               /\ disturbed' = disturbed \union {req[r].page}
               /\ UNCHANGED <<tasks, contested>>

\* A statement that ends the request with an error.
RequestFails(r) ==
  /\ CutShort(r)
  /\ req[r].pc \in {"read", "upsert", "page", "versions", "load"}
  /\ Finish(r)
  /\ UNCHANGED <<indexVars, dbVars, events>>

\* A snapshot, or the deletion of a version's rows, that fails with a warning.
PassFails(r) ==
  /\ CutShort(r)
  /\ \/ At(r, "snapshot") /\ Finish(r) /\ UNCHANGED events
     \/ /\ At(r, "each")
        /\ \E w \in req[r].todo :
             /\ req' = [req EXCEPT ![r].todo = @ \ {w}]
             /\ IF req[r].op = "publish"
                  THEN events' = [events EXCEPT ![w.version] = @ + 1]
                  ELSE UNCHANGED events
  /\ UNCHANGED <<indexVars, dbVars>>

\* What the process had in memory, and the client's requests with it.
Forget ==
  /\ req' = [r \in Requests |-> IdleReq]
  /\ events' = [v \in Versions |-> 0]
  /\ tasks' = [p \in Pages |-> 0]
  /\ disturbed' = disturbed \union {p \in Pages : Serving(p) # {}}
  /\ contested' = contested \union (UNION {Held(job[j]) : j \in Jobs})
                            \union {v \in Versions : tasks[v[1]] > 0}

\* Faulty variant of Restart: the store of the records is in memory.
RestartInMemory ==
  /\ Fault
  /\ log' = <<>>
  /\ job' = [j \in Jobs |-> IdleJob]
  /\ Forget
  /\ UNCHANGED <<chunks, dbVars>>

\* The API process stops and starts again: requests, tasks and events in
\* flight are gone (a graceful shutdown waits for the requests only).
Restart ==
  /\ Fault
  /\ StopJobs
  /\ Forget
  /\ UNCHANGED dbVars

-----------------------------------------------------------------------------

Init ==
  /\ IndexInit
  /\ page = [p \in Pages |-> None]
  /\ version = [v \in Versions |-> None]
  /\ history = [v \in Versions |-> <<>>]
  /\ everPublished = {}
  /\ overwritten = {}
  /\ disturbed = {}
  /\ contested = {}
  /\ req = [r \in Requests |-> IdleReq]
  /\ events = [v \in Versions |-> 0]
  /\ tasks = [p \in Pages |-> 0]
  /\ served = 0
  /\ faults = 0

NewRequest(r) ==
  \E p \in Pages :
    \/ \E l \in Languages :
         \/ \E c \in Contents : CreatePage(r, p, l, c)
         \/ \E c \in Contents \union {Keep} : UpdatePage(r, p, l, c)
         \/ \E i \in Entries(<<p, l>>) : RestoreVersion(r, p, l, i)
    \/ \E op \in {"publish", "draft"} : ChangeStatus(r, p, op)

RequestStep(r) ==
  \/ ReadVersion(r) \/ UpsertVersion(r) \/ SnapshotSaved(r)
  \/ SetPageStatus(r) \/ SetVersionStatus(r) \/ LoadVersions(r)
  \/ \E w \in req[r].todo : PublishVersion(r, w) \/ DraftVersion(r, w)
  \/ EndPass(r)

\* What a running process does.
Serve ==
  \/ \E r \in Requests : NewRequest(r) \/ RequestStep(r)
                           \/ RequestFails(r) \/ PassFails(r)
  \/ \E p \in Pages : TaskFails(p) \/ \E j \in Jobs : StartPipeline(p, j)
  \/ \E j \in Jobs : Reindex(j) \/ Pipeline(j) \/ PipelineFails(j)
  \/ \E v \in Versions : \/ DeliverEvent(v) \/ LoseEvent(v)
                          \/ \E c \in Contents : WriteCanvas(v, c)

Next == Serve \/ Restart

Spec == Init /\ [][Next]_allVars

\* The runtime polls the handlers of accepted requests and the spawned tasks.
\* Nothing makes a request come in, a statement fail or an event arrive.
FairSpec == /\ Spec
            /\ \A r \in Requests : WF_allVars(RequestStep(r))
            /\ \A p \in Pages : WF_allVars(\E j \in Jobs : StartPipeline(p, j))
            /\ \A j \in Jobs : WF_allVars(Pipeline(j))

-----------------------------------------------------------------------------
(* Properties *)

Request == [op : {"none", "create", "update", "restore", "publish", "draft"},
            pc : {"idle", "read", "upsert", "snapshot", "page", "versions",
                  "load", "each"},
            page : Pages \union {None}, lang : Languages \union {None},
            text : Contents \union {Keep, None}, todo : Batch]

\* The type invariant.  Only an update that has not read the version yet may
\* still hold Keep, and only a pass over the versions has any left to do.
TypeOK ==
  /\ IndexTypeOK
  /\ page \in [Pages -> {"draft", "published", None}]
  /\ version \in [Versions -> Versioned \union {None}]
  /\ history \in [Versions -> Seq([text : Contents, published : BOOLEAN])]
  /\ req \in [Requests -> Request]
  /\ \A r \in Requests :
       /\ req[r].pc # "idle" => req[r].page \in Pages
       /\ req[r].pc \in {"read", "upsert", "snapshot"} => req[r].lang \in Languages
       /\ req[r].pc = "read" => req[r].text # None
       /\ req[r].pc \in {"upsert", "snapshot"} => req[r].text \in Contents
       /\ req[r].todo # {} => req[r].pc = "each"
  /\ events \in [Versions -> Nat]
  /\ tasks \in [Pages -> Nat]
  /\ served \in 0..MaxRequests
  /\ faults \in 0..MaxFaults
  /\ everPublished \subseteq Pages
  /\ overwritten \subseteq Versions
  /\ disturbed \subseteq Pages
  /\ contested \subseteq Versions

\* Nothing is being done to the database or the topic.
Quiet == /\ \A r \in Requests : At(r, "idle")
         /\ \A p \in Pages : tasks[p] = 0
         /\ \A j \in Jobs : job[j].pc = "idle"
         /\ \A v \in Versions : events[v] = 0

\* "Drafts stay private", as far as it holds: a page that has never been
\* published is in no record of the topic, no row and no job, whatever the
\* requests in flight, the reindexes, the faults and the restarts.
NeverPublishedNeverIndexed ==
  \A v \in Versions : v[1] \notin everPublished =>
    /\ RowsOf(v) = {}
    /\ \A i \in 1..Len(log) : log[i].version # v
    /\ \A j \in Jobs, c \in Contents :
         LET w == [version |-> v, text |-> c]
         IN  w \notin job[j].queue /\ job[j].work # w
    /\ version[v] # None => version[v].status = "draft"

\* A page between requests, none of which met another or was cut short since
\* its last publish or draft.
Undisturbed(p) == Serving(p) = {} /\ p \notin disturbed

\* publish and draft cascade to every version of the page: a version has the
\* status of its page, unless the requests on the page overlapped or failed.
StatusAgrees ==
  \A v \in Versions : Undisturbed(v[1]) =>
    (version[v] # None => version[v].status = page[v[1]])

Published(v) == /\ page[v[1]] = "published"
                /\ version[v] # None
                /\ version[v].status = "published"

\* Published, and the editor has not written over it since.
AsPublished(v) == Published(v) /\ v \notin overwritten

\* Publishing snapshots what it publishes: while a version is as published,
\* its newest snapshot is a published one of its current body, unless the
\* requests on the page overlapped or failed.
PublishedIsRecorded ==
  \A v \in Versions : Undisturbed(v[1]) /\ AsPublished(v) =>
    /\ history[v] # <<>>
    /\ history[v][Len(history[v])] = Snapshot(version[v].text, TRUE)

\* The rows of a version are the sections of its current body, each of them
\* once ("a published page is queryable", sprint-04).
Indexed(v) ==
  LET c == version[v].text
  IN  /\ Cardinality(RowsOf(v)) = Sections[c]
      /\ \A s \in 1..Sections[c] :
           \E row \in RowsOf(v) : row.section = s /\ row.text = c

\* What publishing promises to index: neither the requests on the page nor the
\* tasks on the version met each other or failed.
ToIndex(v) == AsPublished(v) /\ v[1] \notin disturbed /\ v \notin contested

\* Publishing indexes what it publishes, however the task is overtaken by the
\* requests that follow the answer: it is so when everything is at rest.
PublishedIsIndexed == Quiet => \A v \in Versions : ToIndex(v) => Indexed(v)

\* A publish is never forgotten: what is to be indexed comes to be indexed,
\* unless it is taken back, written over, or met by another request or task.
PublishLeadsToIndexed ==
  \A v \in Versions : ToIndex(v) ~> (ToIndex(v) => Indexed(v))

=============================================================================
