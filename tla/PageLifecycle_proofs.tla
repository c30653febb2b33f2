------------------------ MODULE PageLifecycle_proofs ------------------------
(* What the requests, the tasks, the editor and the boot guarantee together, *)
(* for every number of pages, languages, bodies, requests, tasks and faults: *)
(* whatever they do, the index sees a behaviour of IndexSpec, and a page     *)
(* that was never published does not get into it.  A page whose requests     *)
(* neither met nor failed since its last publish or draft has one status and *)
(* a publish of it is recorded; and what no two tasks met over is indexed,   *)
(* whatever is asked for between the answer and the task.  The task of the   *)
(* first boot indexes or counts what is published.                           *)
EXTENDS Backfill, ChunkIndex_proofs, FiniteSetTheorems

LEMMA Marks ==
  /\ EmptyBody \in Contents
  /\ None \notin Pages /\ None \notin Languages /\ None \notin Contents
  /\ Keep \notin Contents /\ Keep # None
BY EmptyBodyAssumption, DistinctAssumption

-----------------------------------------------------------------------------
(* What a task is given *)

\* A version has one body: a SELECT over the versions of a page is a batch.
LEMMA VersionsAreABatch ==
  ASSUME NEW p
  PROVE  /\ VersionsOf(p) \in Batch
         /\ \A w \in VersionsOf(p) : /\ w \in Work /\ w.version[1] = p
                                     /\ version[w.version] # None
<1>1. VersionsOf(p) \subseteq Work
  BY DEF VersionsOf
<1>2. \A w, x \in VersionsOf(p) : w.version = x.version => w = x
  BY DEF VersionsOf, Work
<1> QED  BY <1>1, <1>2 DEF Batch, VersionsOf

LEMMA PublishedWorkIsABatch ==
  /\ PublishedWork \in Batch
  /\ \A w \in PublishedWork : w.version \in PublishedVersions
<1>1. PublishedWork \subseteq Work
  BY DEF PublishedWork, VersionsOf
<1>2. \A w, x \in PublishedWork : w.version = x.version => w = x
  BY DEF PublishedWork, VersionsOf, Work
<1> QED  BY <1>1, <1>2 DEF Batch, PublishedWork

-----------------------------------------------------------------------------
(* The API implements the index *)

\* Each step of the API is a step of the index, or leaves the index alone.
LEMMA StepOfTheIndex ==
  ASSUME TypeOK, [Next]_allVars
  PROVE  [IndexNext]_indexVars
<1>1. ASSUME NEW r \in Requests, NewRequest(r)  PROVE UNCHANGED indexVars
  BY <1>1 DEF NewRequest, CreatePage, UpdatePage, RestoreVersion, ChangeStatus
<1>2. ASSUME NEW r \in Requests, RequestStep(r)  PROVE [IndexNext]_indexVars
  <2>1. CASE \E w \in req[r].todo : DraftVersion(r, w)
    <3>1. PICK w \in req[r].todo : Clear(w.version)
      BY <2>1 DEF DraftVersion
    <3>2. w.version \in Versions
      BY DEF TypeOK, Request, Batch, Work
    <3> QED  BY <3>1, <3>2 DEF IndexNext
  <2>2. CASE \/ ReadVersion(r) \/ UpsertVersion(r) \/ SnapshotSaved(r)
             \/ SetPageStatus(r) \/ SetVersionStatus(r) \/ LoadVersions(r)
             \/ \E w \in req[r].todo : PublishVersion(r, w)
             \/ EndPass(r)
    BY <2>2 DEF ReadVersion, UpsertVersion, SnapshotSaved, SetPageStatus,
                SetVersionStatus, LoadVersions, PublishVersion, EndPass
  <2> QED  BY <1>2, <2>1, <2>2 DEF RequestStep
<1>3. ASSUME NEW r \in Requests, RequestFails(r) \/ PassFails(r)
      PROVE  UNCHANGED indexVars
  BY <1>3 DEF RequestFails, PassFails
<1>4. ASSUME NEW j \in Jobs, Reindex(j)  PROVE IndexNext
  BY <1>4, PublishedWorkIsABatch DEF Reindex, TakeUp, IndexNext
<1>5. ASSUME NEW j \in Jobs, Pipeline(j) \/ PipelineFails(j)  PROVE IndexNext
  BY <1>5 DEF Pipeline, PipelineFails, IndexNext, JobStep
<1>6. ASSUME NEW v \in Versions, DeliverEvent(v)  PROVE IndexNext
  BY <1>6 DEF DeliverEvent, IndexNext
<1>7. ASSUME NEW v \in Versions, LoseEvent(v) \/ \E c \in Contents : WriteCanvas(v, c)
      PROVE  UNCHANGED indexVars
  BY <1>7 DEF LoseEvent, WriteCanvas
<1>8. CASE Restart
  BY <1>8 DEF Restart, IndexNext
<1>9. ASSUME NEW p \in Pages, NEW j \in Jobs, StartPipeline(p, j)  PROVE IndexNext
  BY <1>9, VersionsAreABatch DEF StartPipeline, TakeUp, IndexNext
<1>10. ASSUME NEW p \in Pages, TaskFails(p)  PROVE UNCHANGED indexVars
  BY <1>10 DEF TaskFails
<1>11. CASE UNCHANGED allVars
  BY <1>11 DEF allVars
<1> QED
  BY <1>1, <1>2, <1>3, <1>4, <1>5, <1>6, <1>7, <1>8, <1>9, <1>10, <1>11
     DEF Next, Serve

-----------------------------------------------------------------------------
(* Type correctness *)

\* The parts of TypeOK: the tables, the requests, the bounds.
TablesOK ==
  /\ page \in [Pages -> {"draft", "published", None}]
  /\ version \in [Versions -> Versioned \union {None}]
  /\ history \in [Versions -> Seq([text : Contents, published : BOOLEAN])]
  /\ events \in [Versions -> Nat]
  /\ everPublished \subseteq Pages
  /\ overwritten \subseteq Versions

RequestOK(rec) ==
  /\ rec \in Request
  /\ rec.pc # "idle" => rec.page \in Pages
  /\ rec.pc \in {"read", "upsert", "snapshot"} => rec.lang \in Languages
  /\ rec.pc = "read" => rec.text # None
  /\ rec.pc \in {"upsert", "snapshot"} => rec.text \in Contents
  /\ rec.todo # {} => rec.pc = "each"

RequestsOK == req \in [Requests -> Request] /\ \A r \in Requests : RequestOK(req[r])

BoundsOK == served \in 0..MaxRequests /\ faults \in 0..MaxFaults

TasksOK == tasks \in [Pages -> Nat]

TracesOK == disturbed \subseteq Pages /\ contested \subseteq Versions

LEMMA PartsOfTypeOK ==
  TypeOK <=> /\ IndexTypeOK /\ TablesOK /\ RequestsOK /\ BoundsOK
             /\ TasksOK /\ TracesOK
BY DEF TypeOK, TablesOK, RequestsOK, RequestOK, BoundsOK, TasksOK, TracesOK

LEMMA IdleReqOK == RequestOK(IdleReq)
BY DEF IdleReq, RequestOK, Request, Batch

\* A step that gives one request a well-formed record.
LEMMA OneRequestMoves ==
  ASSUME RequestsOK, NEW r \in Requests, NEW rec, RequestOK(rec),
         req' = [req EXCEPT ![r] = rec]
  PROVE  RequestsOK'
BY DEF RequestsOK, RequestOK

LEMMA FinishOK ==
  ASSUME RequestsOK, NEW r \in Requests, Finish(r)
  PROVE  RequestsOK'
BY IdleReqOK, OneRequestMoves DEF Finish

\* A request accepted is well typed, and so are the bounds.
LEMMA AcceptOK ==
  ASSUME RequestsOK, BoundsOK, NEW r \in Requests, NEW rec, RequestOK(rec),
         Accept(r, rec)
  PROVE  RequestsOK' /\ BoundsOK'
<1>1. RequestsOK'
  BY OneRequestMoves DEF Accept
<1>2. BoundsOK'
  BY BoundsAssumption DEF Accept, BoundsOK
<1> QED  BY <1>1, <1>2

LEMMA FaultOK ==
  ASSUME BoundsOK, Fault
  PROVE  BoundsOK'
BY BoundsAssumption DEF Fault, BoundsOK

\* Events are counted per version.
LEMMA OneEventMore ==
  ASSUME events \in [Versions -> Nat], NEW v \in Versions,
         events' = [events EXCEPT ![v] = @ + 1]
  PROVE  events' \in [Versions -> Nat]
<1>1. events[v] + 1 \in Nat
  OBVIOUS
<1> QED  BY <1>1

LEMMA OneEventLess ==
  ASSUME events \in [Versions -> Nat], NEW v \in Versions, events[v] > 0,
         events' = [events EXCEPT ![v] = @ - 1]
  PROVE  events' \in [Versions -> Nat]
<1>1. events[v] - 1 \in Nat
  OBVIOUS
<1> QED  BY <1>1

\* A snapshot is added to the history of a version.
LEMMA RecordOK ==
  ASSUME TablesOK, NEW v \in Versions, NEW c \in Contents, NEW b \in BOOLEAN,
         Record(v, Snapshot(c, b))
  PROVE  history' \in [Versions -> Seq([text : Contents, published : BOOLEAN])]
<1> DEFINE Entry == [text : Contents, published : BOOLEAN]
<1>1. Snapshot(c, b) \in Entry
  BY DEF Snapshot
<1>2. history \in [Versions -> Seq(Entry)] /\ history[v] \in Seq(Entry)
  BY DEF TablesOK
<1> HIDE DEF Entry
<1>3. Append(history[v], Snapshot(c, b)) \in Seq(Entry)
  BY <1>1, <1>2
<1>4. history' \in [Versions -> Seq(Entry)]
  BY <1>2, <1>3 DEF Record
<1> QED  BY <1>4 DEF Entry

LEMMA NewRequestType ==
  ASSUME TypeOK, NEW r \in Requests, NewRequest(r)
  PROVE  TablesOK' /\ RequestsOK' /\ BoundsOK'
<1> USE PartsOfTypeOK DEF sent
<1>1. PICK p \in Pages :
        \/ \E l \in Languages :
             \/ \E c \in Contents : CreatePage(r, p, l, c)
             \/ \E c \in Contents \union {Keep} : UpdatePage(r, p, l, c)
             \/ \E i \in Entries(<<p, l>>) : RestoreVersion(r, p, l, i)
        \/ \E op \in {"publish", "draft"} : ChangeStatus(r, p, op)
  BY DEF NewRequest
<1>2. ASSUME NEW l \in Languages, NEW c \in Contents, CreatePage(r, p, l, c)
      PROVE  TablesOK' /\ RequestsOK' /\ BoundsOK'
  <2>1. RequestOK([IdleReq EXCEPT !.op = "create", !.pc = "upsert",
                                  !.page = p, !.lang = l, !.text = c])
    BY DEF RequestOK, Request, IdleReq, Batch
  <2>2. TablesOK'
    BY <1>2 DEF CreatePage, TablesOK, ghosts
  <2> QED  BY <1>2, <2>1, <2>2, AcceptOK DEF CreatePage
<1>3. ASSUME NEW l \in Languages, NEW c \in Contents \union {Keep}, UpdatePage(r, p, l, c)
      PROVE  TablesOK' /\ RequestsOK' /\ BoundsOK'
  <2>1. RequestOK([IdleReq EXCEPT !.op = "update", !.pc = "read",
                                  !.page = p, !.lang = l, !.text = c])
    BY Marks DEF RequestOK, Request, IdleReq, Batch
  <2>2. TablesOK'
    BY <1>3 DEF UpdatePage, TablesOK, dbVars, ghosts
  <2> QED  BY <1>3, <2>1, <2>2, AcceptOK DEF UpdatePage
<1>4. ASSUME NEW l \in Languages, NEW i \in Entries(<<p, l>>), RestoreVersion(r, p, l, i)
      PROVE  TablesOK' /\ RequestsOK' /\ BoundsOK'
  <2>0. EntryBody(<<p, l>>, i) \in Contents
    <3> DEFINE Entry == [text : Contents, published : BOOLEAN]
    <3>1. history[<<p, l>>] \in Seq(Entry) /\ i \in DOMAIN history[<<p, l>>]
      BY DEF TablesOK, Versions, Entries
    <3>2. history[<<p, l>>][i] \in Entry
      <4> HIDE DEF Entry
      <4> QED  BY <3>1
    <3> QED  BY <3>2 DEF EntryBody
  <2>1. RequestOK([IdleReq EXCEPT !.op = "restore", !.pc = "upsert", !.page = p,
                                  !.lang = l, !.text = EntryBody(<<p, l>>, i)])
    BY <2>0 DEF RequestOK, Request, IdleReq, Batch
  <2>2. TablesOK'
    BY <1>4 DEF RestoreVersion, TablesOK, dbVars, ghosts
  <2> QED  BY <1>4, <2>1, <2>2, AcceptOK DEF RestoreVersion
<1>5. ASSUME NEW op \in {"publish", "draft"}, ChangeStatus(r, p, op)
      PROVE  TablesOK' /\ RequestsOK' /\ BoundsOK'
  <2>1. RequestOK([IdleReq EXCEPT !.op = op, !.pc = "page", !.page = p])
    BY DEF RequestOK, Request, IdleReq, Batch
  <2>2. TablesOK'
    BY <1>5 DEF ChangeStatus, TablesOK, dbVars, ghosts
  <2> QED  BY <1>5, <2>1, <2>2, AcceptOK DEF ChangeStatus
<1> QED  BY <1>1, <1>2, <1>3, <1>4, <1>5

LEMMA RequestStepType ==
  ASSUME TypeOK, NEW r \in Requests, RequestStep(r)
  PROVE  TablesOK' /\ RequestsOK' /\ BoundsOK'
<1> USE PartsOfTypeOK DEF sent
<1>0. /\ RequestOK(req[r]) /\ req[r] \in Request
      /\ TablesOK /\ RequestsOK /\ BoundsOK
  BY DEF RequestsOK
<1>1. CASE ReadVersion(r)
  <2> DEFINE text == IF req[r].text = Keep THEN BodyOf(Current(r)) ELSE req[r].text
             rec  == [req[r] EXCEPT !.pc = "upsert", !.text = text]
  <2>1. Current(r) \in Versions
    BY <1>0, <1>1 DEF RequestOK, ReadVersion, Continue, At, Current, Versions
  <2>2. text \in Contents
    <3>1. BodyOf(Current(r)) \in Contents
      BY <1>0, <2>1, Marks DEF BodyOf, TablesOK, Versioned
    <3>2. req[r].text # Keep => req[r].text \in Contents
      BY <1>0, <1>1 DEF RequestOK, Request, ReadVersion, Continue, At
    <3> QED  BY <3>1, <3>2
  <2>3. RequestOK(rec)
    BY <1>0, <1>1, <2>2 DEF RequestOK, Request, ReadVersion, Continue, At
  <2>4. req' = [req EXCEPT ![r] = rec]
    BY <1>0, <1>1 DEF ReadVersion, RequestsOK
  <2> HIDE DEF rec
  <2>5. RequestsOK'
    BY <1>0, <2>3, <2>4, OneRequestMoves
  <2> QED  BY <1>0, <1>1, <2>5 DEF ReadVersion, Continue, TablesOK, BoundsOK, dbVars, ghosts
<1>2. CASE UpsertVersion(r)
  <2>1. /\ Current(r) \in Versions
        /\ [status |-> "draft", text |-> req[r].text] \in Versioned
    BY <1>0, <1>2 DEF RequestOK, UpsertVersion, Continue, At, Current, Versions, Versioned
  <2>2. TablesOK'
    BY <1>0, <1>2, <2>1 DEF UpsertVersion, TablesOK, ghosts
  <2>3. RequestsOK'
    <3>1. CASE Finish(r)
      BY <1>0, <3>1, FinishOK
    <3>2. CASE Goto(r, "snapshot")
      <4>1. RequestOK([req[r] EXCEPT !.pc = "snapshot"])
        BY <1>0, <1>2 DEF RequestOK, Request, UpsertVersion, Continue, At
      <4>2. req' = [req EXCEPT ![r] = [req[r] EXCEPT !.pc = "snapshot"]]
        BY <1>0, <3>2 DEF Goto, RequestsOK
      <4> QED  BY <1>0, <4>1, <4>2, OneRequestMoves
    <3> QED  BY <1>2, <3>1, <3>2 DEF UpsertVersion
  <2> QED  BY <1>0, <1>2, <2>2, <2>3 DEF UpsertVersion, Continue, BoundsOK
<1>3. CASE SnapshotSaved(r)
  <2>1. Current(r) \in Versions /\ req[r].text \in Contents
    BY <1>0, <1>3 DEF RequestOK, SnapshotSaved, Continue, At, Current, Versions
  <2>2. history' \in [Versions -> Seq([text : Contents, published : BOOLEAN])]
    BY <1>0, <1>3, <2>1, RecordOK DEF SnapshotSaved, TablesOK
  <2>3. RequestsOK'
    BY <1>0, <1>3, FinishOK DEF SnapshotSaved
  <2> QED  BY <1>0, <1>3, <2>2, <2>3 DEF SnapshotSaved, Continue, TablesOK, BoundsOK, ghosts
<1>4. CASE SetPageStatus(r)
  <2>1. req[r].page \in Pages
    BY <1>0, <1>4 DEF RequestOK, SetPageStatus, Continue, At
  <2>2. TablesOK'
    BY <1>0, <1>4, <2>1 DEF SetPageStatus, TablesOK, Target
  <2>3. RequestOK([req[r] EXCEPT !.pc = "versions"])
    BY <1>0, <1>4 DEF RequestOK, Request, SetPageStatus, Continue, At
  <2>4. req' = [req EXCEPT ![r] = [req[r] EXCEPT !.pc = "versions"]]
    BY <1>0, <1>4 DEF SetPageStatus, Goto, RequestsOK
  <2>5. RequestsOK'
    BY <1>0, <2>3, <2>4, OneRequestMoves
  <2> QED  BY <1>0, <1>4, <2>2, <2>5 DEF SetPageStatus, Continue, BoundsOK
<1>5. CASE SetVersionStatus(r)
  <2>1. ASSUME NEW v \in Versions, version[v] # None
        PROVE  [version[v] EXCEPT !.status = Target(req[r].op)] \in Versioned
    BY <1>0, <2>1 DEF TablesOK, Versioned, Target
  <2>2. TablesOK'
    BY <1>0, <1>5, <2>1 DEF SetVersionStatus, TablesOK, ghosts
  <2>3. RequestOK([req[r] EXCEPT !.pc = "load"])
    BY <1>0, <1>5 DEF RequestOK, Request, SetVersionStatus, Continue, At
  <2>4. req' = [req EXCEPT ![r] = [req[r] EXCEPT !.pc = "load"]]
    BY <1>0, <1>5 DEF SetVersionStatus, Goto, RequestsOK
  <2>5. RequestsOK'
    BY <1>0, <2>3, <2>4, OneRequestMoves
  <2> QED  BY <1>0, <1>5, <2>2, <2>5 DEF SetVersionStatus, Continue, BoundsOK
<1>6. CASE LoadVersions(r)
  <2> DEFINE rec == [req[r] EXCEPT !.pc = "each", !.todo = VersionsOf(req[r].page)]
  <2>1. RequestOK(rec)
    BY <1>0, <1>6, VersionsAreABatch DEF RequestOK, Request, LoadVersions, Continue, At
  <2>2. req' = [req EXCEPT ![r] = rec]
    BY <1>0, <1>6 DEF LoadVersions, RequestsOK
  <2> HIDE DEF rec
  <2>3. RequestsOK'
    BY <1>0, <2>1, <2>2, OneRequestMoves
  <2>4. TablesOK'
    BY <1>0, <1>6 DEF LoadVersions, TablesOK
  <2> QED  BY <1>0, <1>6, <2>3, <2>4 DEF LoadVersions, Continue, BoundsOK
<1>7. ASSUME NEW w \in req[r].todo, PublishVersion(r, w) \/ DraftVersion(r, w)
      PROVE  TablesOK' /\ RequestsOK' /\ BoundsOK'
  <2> DEFINE rec == [req[r] EXCEPT !.todo = @ \ {w}]
  <2>1. w \in Work /\ w.version \in Versions /\ w.text \in Contents
    BY <1>0 DEF Request, Batch, Work
  <2>2. req[r].todo \ {w} \in Batch
    BY <1>0, SmallerBatch DEF Request
  <2>3. RequestOK(rec)
    BY <1>0, <1>7, <2>2 DEF RequestOK, Request
  <2>4. req' = [req EXCEPT ![r] = rec]
    BY <1>0, <1>7 DEF PublishVersion, DraftVersion, RequestsOK
  <2> HIDE DEF rec
  <2>5. RequestsOK'
    BY <1>0, <2>3, <2>4, OneRequestMoves
  <2>6. TablesOK'
    <3>1. CASE PublishVersion(r, w)
      <4>1. history' \in [Versions -> Seq([text : Contents, published : BOOLEAN])]
        BY <1>0, <2>1, <3>1, RecordOK DEF PublishVersion
      <4>2. events' \in [Versions -> Nat]
        BY <1>0, <2>1, <3>1, OneEventMore DEF PublishVersion, TablesOK
      <4> QED  BY <1>0, <3>1, <4>1, <4>2 DEF PublishVersion, TablesOK, ghosts
    <3>2. CASE DraftVersion(r, w)
      BY <1>0, <3>2 DEF DraftVersion, TablesOK, dbVars, ghosts
    <3> QED  BY <1>7, <3>1, <3>2
  <2> QED  BY <1>0, <1>7, <2>5, <2>6 DEF PublishVersion, DraftVersion, Continue, BoundsOK
<1>8. CASE EndPass(r)
  BY <1>0, <1>8, FinishOK DEF EndPass, Continue, TablesOK, BoundsOK, dbVars, ghosts
<1> QED
  BY <1>1, <1>2, <1>3, <1>4, <1>5, <1>6, <1>7, <1>8 DEF RequestStep

\* Failures, tasks, events, the editor and restarts.
LEMMA OtherStepType ==
  ASSUME TypeOK,
         \/ \E r \in Requests : RequestFails(r) \/ PassFails(r)
         \/ \E p \in Pages : TaskFails(p) \/ \E j \in Jobs : StartPipeline(p, j)
         \/ \E j \in Jobs : Reindex(j) \/ Pipeline(j) \/ PipelineFails(j)
         \/ \E v \in Versions : \/ DeliverEvent(v) \/ LoseEvent(v)
                                 \/ \E c \in Contents : WriteCanvas(v, c)
         \/ Restart
         \/ UNCHANGED allVars
  PROVE  TablesOK' /\ RequestsOK' /\ BoundsOK'
<1> USE DEF sent, CutShort, Forget
<1>0. TablesOK /\ RequestsOK /\ BoundsOK
  BY PartsOfTypeOK
<1>1. ASSUME NEW r \in Requests, RequestFails(r)
      PROVE  TablesOK' /\ RequestsOK' /\ BoundsOK'
  <2>1. RequestsOK' /\ BoundsOK'
    BY <1>0, <1>1, FinishOK, FaultOK DEF RequestFails
  <2> QED  BY <1>0, <1>1, <2>1 DEF RequestFails, TablesOK, dbVars, ghosts
<1>2. ASSUME NEW r \in Requests, PassFails(r)
      PROVE  TablesOK' /\ RequestsOK' /\ BoundsOK'
  <2>1. BoundsOK'
    BY <1>0, <1>2, FaultOK DEF PassFails
  <2>2. CASE At(r, "snapshot") /\ Finish(r) /\ UNCHANGED events
    <3>1. RequestsOK'
      BY <1>0, <2>2, FinishOK
    <3> QED  BY <1>0, <1>2, <2>1, <2>2, <3>1 DEF PassFails, TablesOK, dbVars, ghosts
  <2>3. CASE At(r, "each") /\ ~ (At(r, "snapshot") /\ Finish(r) /\ UNCHANGED events)
    <3>1. PICK w \in req[r].todo :
            /\ req' = [req EXCEPT ![r].todo = @ \ {w}]
            /\ IF req[r].op = "publish"
                 THEN events' = [events EXCEPT ![w.version] = @ + 1]
                 ELSE UNCHANGED events
      BY <1>2, <2>3 DEF PassFails
    <3>2. /\ req[r] \in Request /\ RequestOK(req[r])
          /\ w.version \in Versions
      BY <1>0 DEF RequestsOK, Request, Batch, Work
    <3>3. req[r].todo \ {w} \in Batch
      BY <3>2, SmallerBatch DEF Request
    <3>4. RequestOK([req[r] EXCEPT !.todo = @ \ {w}])
      BY <2>3, <3>2, <3>3 DEF RequestOK, Request, At
    <3>5. req' = [req EXCEPT ![r] = [req[r] EXCEPT !.todo = @ \ {w}]]
      BY <1>0, <3>1 DEF RequestsOK
    <3>6. RequestsOK'
      BY <1>0, <3>4, <3>5, OneRequestMoves
    <3>8. events' \in [Versions -> Nat]
      BY <1>0, <3>1, <3>2, OneEventMore DEF TablesOK
    <3>7. TablesOK'
      BY <1>0, <1>2, <3>8 DEF PassFails, TablesOK, dbVars, ghosts
    <3> QED  BY <2>1, <3>6, <3>7
  <2> QED  BY <1>2, <2>2, <2>3 DEF PassFails
<1>3. ASSUME NEW j \in Jobs, Reindex(j)
      PROVE  TablesOK' /\ RequestsOK' /\ BoundsOK'
  <2>1. BoundsOK'
    BY <1>0, <1>3, BoundsAssumption DEF Reindex, BoundsOK
  <2> QED  BY <1>0, <1>3, <2>1 DEF Reindex, TablesOK, RequestsOK, RequestOK, dbVars, ghosts
<1>4. ASSUME NEW j \in Jobs, Pipeline(j)
      PROVE  TablesOK' /\ RequestsOK' /\ BoundsOK'
  BY <1>0, <1>4 DEF Pipeline, TablesOK, RequestsOK, RequestOK, BoundsOK, dbVars, ghosts
<1>5. ASSUME NEW j \in Jobs, PipelineFails(j)
      PROVE  TablesOK' /\ RequestsOK' /\ BoundsOK'
  BY <1>0, <1>5, FaultOK DEF PipelineFails, TablesOK, RequestsOK, RequestOK, dbVars, ghosts
<1>6. ASSUME NEW v \in Versions, DeliverEvent(v)
      PROVE  TablesOK' /\ RequestsOK' /\ BoundsOK'
  <2>1. events' \in [Versions -> Nat]
    BY <1>0, <1>6, OneEventLess DEF DeliverEvent, TablesOK
  <2> QED
    BY <1>0, <1>6, <2>1
       DEF DeliverEvent, TablesOK, RequestsOK, RequestOK, BoundsOK, dbVars, ghosts
<1>7. ASSUME NEW v \in Versions, LoseEvent(v)
      PROVE  TablesOK' /\ RequestsOK' /\ BoundsOK'
  <2>1. events' \in [Versions -> Nat]
    BY <1>0, <1>7, OneEventLess DEF LoseEvent, TablesOK
  <2> QED
    BY <1>0, <1>7, <2>1, FaultOK
       DEF LoseEvent, TablesOK, RequestsOK, RequestOK, dbVars, ghosts
<1>8. ASSUME NEW v \in Versions, NEW c \in Contents, WriteCanvas(v, c)
      PROVE  TablesOK' /\ RequestsOK' /\ BoundsOK'
  <2>1. [version[v] EXCEPT !.text = c] \in Versioned
    BY <1>0, <1>8 DEF WriteCanvas, TablesOK, Versioned
  <2>2. TablesOK'
    BY <1>0, <1>8, <2>1 DEF WriteCanvas, TablesOK
  <2> QED
    BY <1>0, <1>8, <2>2, BoundsAssumption
       DEF WriteCanvas, RequestsOK, RequestOK, BoundsOK
<1>9. CASE Restart
  <2>1. RequestsOK'
    BY <1>9, IdleReqOK DEF Restart, RequestsOK, RequestOK
  <2>2. TablesOK' /\ BoundsOK'
    BY <1>0, <1>9, FaultOK DEF Restart, TablesOK, dbVars, ghosts
  <2> QED  BY <2>1, <2>2
<1>10. CASE UNCHANGED allVars
  BY <1>0, <1>10 DEF allVars, TablesOK, RequestsOK, RequestOK, BoundsOK, dbVars, ghosts
<1>11. ASSUME NEW p \in Pages, TaskFails(p) \/ \E j \in Jobs : StartPipeline(p, j)
       PROVE  TablesOK' /\ RequestsOK' /\ BoundsOK'
  BY <1>0, <1>11, FaultOK
     DEF TaskFails, StartPipeline, TaskReads, TablesOK, RequestsOK, RequestOK,
         BoundsOK, dbVars, ghosts
<1> QED
  BY <1>1, <1>2, <1>3, <1>4, <1>5, <1>6, <1>7, <1>8, <1>9, <1>10, <1>11

\* The tasks spawned are counted per page.
LEMMA TasksStep ==
  ASSUME TypeOK, [Next]_allVars
  PROVE  TasksOK'
<1> USE DEF sent
<1>0. tasks \in [Pages -> Nat] /\ RequestsOK
  BY PartsOfTypeOK DEF TasksOK
<1>1. ASSUME NEW p \in Pages, tasks' = [tasks EXCEPT ![p] = @ + 1]  PROVE TasksOK'
  <2>1. tasks[p] + 1 \in Nat
    BY <1>0
  <2> QED  BY <1>0, <1>1, <2>1 DEF TasksOK
<1>2. ASSUME NEW p \in Pages, TaskReads(p)  PROVE TasksOK'
  <2>1. tasks[p] - 1 \in Nat
    BY <1>0, <1>2 DEF TaskReads
  <2> QED  BY <1>0, <1>2, <2>1 DEF TasksOK, TaskReads
<1>3. ASSUME NEW r \in Requests, NewRequest(r)  PROVE UNCHANGED tasks
  BY <1>3 DEF NewRequest, CreatePage, UpdatePage, RestoreVersion, ChangeStatus
<1>4. ASSUME NEW r \in Requests, RequestStep(r)  PROVE TasksOK'
  <2>1. CASE EndPass(r)
    <3>1. req[r].page \in Pages
      BY <1>0, <2>1 DEF EndPass, Continue, At, RequestsOK, RequestOK
    <3> QED  BY <1>0, <1>1, <2>1, <3>1 DEF EndPass, TasksOK
  <2>2. CASE ~ EndPass(r)
    BY <1>0, <1>4, <2>2
       DEF RequestStep, ReadVersion, UpsertVersion, SnapshotSaved, SetPageStatus,
           SetVersionStatus, LoadVersions, PublishVersion, DraftVersion, TasksOK
  <2> QED  BY <2>1, <2>2
<1>5. ASSUME NEW r \in Requests, RequestFails(r) \/ PassFails(r)  PROVE UNCHANGED tasks
  BY <1>5 DEF RequestFails, PassFails, CutShort
<1>6. ASSUME NEW p \in Pages, TaskFails(p) \/ \E j \in Jobs : StartPipeline(p, j)
      PROVE  TasksOK'
  BY <1>2, <1>6 DEF TaskFails, StartPipeline
<1>7. ASSUME NEW j \in Jobs, Reindex(j) \/ Pipeline(j) \/ PipelineFails(j)
      PROVE  UNCHANGED tasks
  BY <1>7 DEF Reindex, Pipeline, PipelineFails
<1>8. ASSUME NEW v \in Versions,
             DeliverEvent(v) \/ LoseEvent(v) \/ \E c \in Contents : WriteCanvas(v, c)
      PROVE  UNCHANGED tasks
  BY <1>8 DEF DeliverEvent, LoseEvent, WriteCanvas
<1>9. CASE Restart
  BY <1>9 DEF Restart, Forget, TasksOK
<1>10. CASE UNCHANGED allVars
  BY <1>0, <1>10 DEF allVars, TasksOK
<1> QED
  BY <1>0, <1>3, <1>4, <1>5, <1>6, <1>7, <1>8, <1>9, <1>10 DEF Next, Serve, TasksOK

\* What a task holds is versions.
LEMMA HeldAreVersions ==
  ASSUME IndexTypeOK, NEW j \in Jobs
  PROVE  Held(job[j]) \subseteq Versions
BY DEF IndexTypeOK, JobState, Held, Batch, Work

\* What is marked as met or lost is a page, or a version.
LEMMA TracesStep ==
  ASSUME TypeOK, [Next]_allVars
  PROVE  TracesOK'
<1> USE DEF sent, TracesOK
<1>0. TracesOK /\ RequestsOK /\ IndexTypeOK
  BY PartsOfTypeOK
<1>1. ASSUME NEW r \in Requests, NewRequest(r)  PROVE TracesOK'
  <2>1. PICK rec : Accept(r, rec) /\ rec.page \in Pages
    <3>1. PICK p \in Pages :
            \/ \E l \in Languages :
                 \/ \E c \in Contents : CreatePage(r, p, l, c)
                 \/ \E c \in Contents \union {Keep} : UpdatePage(r, p, l, c)
                 \/ \E i \in Entries(<<p, l>>) : RestoreVersion(r, p, l, i)
            \/ \E op \in {"publish", "draft"} : ChangeStatus(r, p, op)
      BY <1>1 DEF NewRequest
    <3> DEFINE Rec(op, pc, l, c) == [IdleReq EXCEPT !.op = op, !.pc = pc, !.page = p,
                                                    !.lang = l, !.text = c]
    <3>2. \/ \E l, c : \/ Accept(r, Rec("create", "upsert", l, c))
                       \/ Accept(r, Rec("update", "read", l, c))
                       \/ Accept(r, Rec("restore", "upsert", l, c))
          \/ \E op : Accept(r, [IdleReq EXCEPT !.op = op, !.pc = "page", !.page = p])
      BY <3>1 DEF CreatePage, UpdatePage, RestoreVersion, ChangeStatus
    <3>3. \A op, pc, l, c : Rec(op, pc, l, c).page = p
      BY DEF IdleReq
    <3>4. \A op : [IdleReq EXCEPT !.op = op, !.pc = "page", !.page = p].page = p
      BY DEF IdleReq
    <3> HIDE DEF Rec
    <3> QED  BY <3>2, <3>3, <3>4
  <2> QED  BY <1>0, <2>1 DEF Accept
<1>2. ASSUME NEW r \in Requests, RequestStep(r)  PROVE UNCHANGED <<disturbed, contested>>
  BY <1>2
     DEF RequestStep, ReadVersion, UpsertVersion, SnapshotSaved, SetPageStatus,
         SetVersionStatus, LoadVersions, PublishVersion, DraftVersion, EndPass, Continue
<1>3. ASSUME NEW r \in Requests, RequestFails(r) \/ PassFails(r)  PROVE TracesOK'
  BY <1>0, <1>3 DEF RequestFails, PassFails, CutShort, At, RequestsOK, RequestOK
<1>4. ASSUME NEW p \in Pages, TaskFails(p)  PROVE TracesOK'
  BY <1>0, <1>4 DEF TaskFails, TaskReads
<1>5. ASSUME NEW j \in Jobs, NEW q \in Batch, TakeUp(j, q), UNCHANGED disturbed
      PROVE  TracesOK'
  BY <1>0, <1>5, HeldAreVersions DEF TakeUp
<1>6. ASSUME NEW j \in Jobs,
             Reindex(j) \/ \E p \in Pages : StartPipeline(p, j)
      PROVE  TracesOK'
  BY <1>5, <1>6, VersionsAreABatch, PublishedWorkIsABatch
     DEF Reindex, StartPipeline, TaskReads
<1>7. ASSUME NEW j \in Jobs, Pipeline(j) \/ PipelineFails(j)  PROVE TracesOK'
  BY <1>0, <1>7, HeldAreVersions DEF Pipeline, PipelineFails, GiveUp
<1>8. ASSUME NEW v \in Versions,
             DeliverEvent(v) \/ LoseEvent(v) \/ \E c \in Contents : WriteCanvas(v, c)
      PROVE  UNCHANGED <<disturbed, contested>>
  BY <1>8 DEF DeliverEvent, LoseEvent, WriteCanvas
<1>9. CASE Restart
  <2>1. UNION {Held(job[j]) : j \in Jobs} \subseteq Versions
    BY <1>0, HeldAreVersions
  <2>2. disturbed' \subseteq Pages
    BY <1>0, <1>9 DEF Restart, Forget
  <2>3. contested' \subseteq Versions
    <3> DEFINE held == UNION {Held(job[j]) : j \in Jobs}
    <3>1. contested' = contested \union held \union {v \in Versions : tasks[v[1]] > 0}
      BY <1>9 DEF Restart, Forget
    <3> HIDE DEF held
    <3> QED  BY <1>0, <2>1, <3>1 DEF held
  <2> QED  BY <2>2, <2>3
<1>10. CASE UNCHANGED allVars
  BY <1>0, <1>10 DEF allVars
<1> QED
  BY <1>0, <1>1, <1>2, <1>3, <1>4, <1>6, <1>7, <1>8, <1>9, <1>10 DEF Next, Serve

LEMMA TypeStep ==
  ASSUME TypeOK, [Next]_allVars
  PROVE  TypeOK'
<1>1. IndexTypeOK'
  BY StepOfTheIndex, IndexTypeStep DEF TypeOK
<1>2. TablesOK' /\ RequestsOK' /\ BoundsOK'
  BY NewRequestType, RequestStepType, OtherStepType DEF Next, Serve
<1> QED
  BY <1>1, <1>2, TasksStep, TracesStep, PartsOfTypeOK
     DEF TypeOK, TablesOK, RequestsOK, RequestOK, BoundsOK, TasksOK, TracesOK

\* The rows, the requests in every stage and the tasks keep their types: a
\* body that is written is one that was given or read, and a pass over the
\* versions of a page names each of them once.
THEOREM LifecycleTypeCorrect == Spec => []TypeOK
<1>1. Init => TypeOK
  <2>1. Init => IndexTypeOK
    BY IdleJobOK, MaxLogAssumption DEF Init, IndexInit, IndexTypeOK
  <2>2. Init => TablesOK /\ RequestsOK /\ BoundsOK /\ TasksOK /\ TracesOK
    BY IdleReqOK, BoundsAssumption
       DEF Init, TablesOK, RequestsOK, RequestOK, BoundsOK, TasksOK, TracesOK
  <2> QED  BY <2>1, <2>2, PartsOfTypeOK
<1>2. TypeOK /\ [Next]_allVars => TypeOK'
  BY TypeStep
<1> QED
  BY <1>1, <1>2, PTL DEF Spec

\* Whatever requests, tasks, events, failures and restarts are interleaved,
\* what happens to the two stores is a behaviour of the index alone.
THEOREM LifecycleImplementsIndex == Spec => IndexSpec
<1>1. Init => IndexInit
  BY DEF Init
<1>2. TypeOK /\ [Next]_allVars => [IndexNext]_indexVars
  BY StepOfTheIndex
<1> QED
  BY <1>1, <1>2, LifecycleTypeCorrect, PTL DEF Spec, IndexSpec

\* So the theorems about the index are theorems about the API: its rows
\* address the records of their own version, section and text.
THEOREM LifecycleRowsAreFaithful == Spec => [](RowsPointAtTheirRecord /\ OffsetsUnique)
BY LifecycleImplementsIndex, RowsAreFaithful, OffsetsAreUnique, PTL
-----------------------------------------------------------------------------
(* A page that was never published does not get into the index *)

\* Everything in the index, and everything the tasks hold, is of a page that
\* has been published.
JobsHoldPublished ==
  \A j \in Jobs :
    /\ \A w \in job[j].queue : w.version[1] \in everPublished
    /\ job[j].work # NoWork => job[j].work.version[1] \in everPublished

IndexHoldsPublished ==
  /\ \A row \in chunks : row.version[1] \in everPublished
  /\ \A i \in 1..Len(log) : log[i].version[1] \in everPublished
  /\ JobsHoldPublished

\* So is what is on its way there: the versions marked published, the events
\* sent, the tasks spawned and the pass of a publish request.
PublishedTables ==
  /\ \A v \in Versions : version[v] # None /\ version[v].status = "published"
                           => v[1] \in everPublished
  /\ \A v \in Versions : events[v] > 0 => v[1] \in everPublished
  /\ \A p \in Pages : tasks[p] > 0 => p \in everPublished

PublishOK(rec, published) ==
  /\ rec.op = "publish" /\ rec.pc \in {"versions", "load", "each"}
       => rec.page \in published
  /\ \A w \in rec.todo : w.version[1] = rec.page

PublishRequests == \A r \in Requests : PublishOK(req[r], everPublished)

PublishedInv == IndexHoldsPublished /\ PublishedTables /\ PublishRequests

\* A task takes from its batch, and has in hand what it took.
LEMMA TasksTakeFromTheirBatch ==
  ASSUME IndexTypeOK, NEW j \in Jobs, JobStep(j), NEW k \in Jobs
  PROVE  /\ job'[k].queue \subseteq job[k].queue
         /\ job'[k].work \in job[k].queue \union {job[k].work, NoWork}
<1>0. job \in [Jobs -> JobState] /\ job[j] \in JobState
  BY DEF IndexTypeOK
<1>1. ASSUME NEW q, q \subseteq job[j].queue, job' = [job EXCEPT ![j] = NextOf(q)]
      PROVE  /\ job'[k].queue \subseteq job[k].queue
             /\ job'[k].work \in job[k].queue \union {job[k].work, NoWork}
  BY <1>0, <1>1 DEF NextOf, Unoccupied
<1>2. CASE Delete(j)
  <2>1. PICK w \in job[j].queue :
          job' = [job EXCEPT ![j] =
            IF Sections[w.text] = 0
              THEN NextOf(@.queue \ {w})
              ELSE [NextOf(@.queue \ {w}) EXCEPT !.pc = "produce", !.work = w]]
    BY <1>2 DEF Delete
  <2>2. CASE Sections[w.text] = 0
    BY <1>1, <2>1, <2>2
  <2>3. CASE Sections[w.text] # 0
    BY <1>0, <2>1, <2>3 DEF NextOf, Unoccupied
  <2> QED  BY <2>2, <2>3
<1>3. CASE DeleteFails(j)
  <2>1. PICK w \in job[j].queue : job' = [job EXCEPT ![j] = NextOf(job[j].queue \ {w})]
    BY <1>0, <1>3 DEF DeleteFails
  <2> QED  BY <1>1, <2>1
<1>4. CASE Produce(j)
  BY <1>0, <1>4 DEF Produce, JobState
<1>5. CASE ProduceFails(j) \/ InsertFails(j)
  <2>1. job' = [job EXCEPT ![j] = NextOf(job[j].queue)]
    BY <1>0, <1>5 DEF ProduceFails, InsertFails
  <2> QED  BY <1>1, <2>1
<1>6. CASE Insert(j)
  <2>1. CASE job[j].inserted + 1 = Len(job[j].recs)
    <3>1. job' = [job EXCEPT ![j] = NextOf(job[j].queue)]
      BY <1>0, <1>6, <2>1 DEF Insert
    <3> QED  BY <1>1, <3>1
  <2>2. CASE job[j].inserted + 1 # Len(job[j].recs)
    BY <1>0, <1>6, <2>2 DEF Insert, JobState
  <2> QED  BY <2>1, <2>2
<1>7. CASE EndJob(j)
  BY <1>0, <1>7 DEF EndJob, IdleJob, Unoccupied
<1> QED
  BY <1>2, <1>3, <1>4, <1>5, <1>6, <1>7 DEF JobStep

\* The records a task appends are of the version it has in hand.
LEMMA RecordsAppended ==
  ASSUME IndexTypeOK, NEW rec \in LogRecord, Append1(rec),
         rec.version[1] \in everPublished, everPublished \subseteq everPublished',
         \A i \in 1..Len(log) : log[i].version[1] \in everPublished
  PROVE  \A i \in 1..Len(log') : log'[i].version[1] \in everPublished'
<1>1. /\ Len(log') = Len(log) + 1 /\ log'[Len(log) + 1] = rec
      /\ \A o \in 1..Len(log) : log'[o] = log[o]
      /\ Len(log) \in Nat
  BY AppendedRecord DEF IndexTypeOK
<1> SUFFICES ASSUME NEW i \in 1..Len(log')
             PROVE  log'[i].version[1] \in everPublished'
  OBVIOUS
<1>2. i \in 1..Len(log) \/ i = Len(log) + 1
  BY <1>1
<1> QED  BY <1>1, <1>2

LEMMA TaskKeepsIndexPublished ==
  ASSUME IndexTypeOK, IndexHoldsPublished, NEW j \in Jobs, JobStep(j),
         everPublished \subseteq everPublished'
  PROVE  IndexHoldsPublished'
<1>0. job[j] \in JobState /\ JobOK(job[j])
  BY DEF IndexTypeOK
<1>1. JobsHoldPublished'
  BY TasksTakeFromTheirBatch DEF IndexHoldsPublished, JobsHoldPublished
<1>2. job[j].pc \in {"produce", "insert"} =>
        /\ job[j].work \in Work /\ job[j].work.version[1] \in everPublished
  BY <1>0, NoWorkAssumption DEF JobOK, IndexHoldsPublished, JobsHoldPublished
<1>3. \A row \in chunks' : row.version[1] \in everPublished'
  <2>1. CASE Insert(j)
    BY <1>2, <2>1 DEF Insert, IndexHoldsPublished
  <2>2. CASE ~ Insert(j)
    BY <2>2 DEF JobStep, Delete, DeleteFails, Produce, ProduceFails, InsertFails,
                EndJob, DeleteRows, RowsOf, IndexHoldsPublished
  <2> QED  BY <2>1, <2>2
<1>4. \A i \in 1..Len(log') : log'[i].version[1] \in everPublished'
  <2>1. CASE /\ job[j].pc = "produce"
             /\ Append1(ChunkRecord(job[j].work.version, Len(job[j].recs) + 1,
                                    job[j].work.text))
    <3> DEFINE rec == ChunkRecord(job[j].work.version, Len(job[j].recs) + 1,
                                  job[j].work.text)
    <3>1. rec \in LogRecord /\ rec.version[1] \in everPublished
      BY <1>0, <1>2, <2>1 DEF ChunkRecord, LogRecord, Work, JobState
    <3> HIDE DEF rec
    <3>2. Append1(rec)
      BY <2>1 DEF rec
    <3> QED  BY <3>1, <3>2, RecordsAppended DEF IndexHoldsPublished
  <2>2. CASE UNCHANGED log
    BY <2>2 DEF IndexHoldsPublished
  <2> QED
    BY <2>1, <2>2 DEF JobStep, Delete, DeleteFails, Produce, ProduceFails, Insert,
                      InsertFails, EndJob
<1> QED  BY <1>1, <1>3, <1>4 DEF IndexHoldsPublished

\* A task that is started with versions of published pages.
LEMMA StartKeepsIndexPublished ==
  ASSUME IndexTypeOK, IndexHoldsPublished, NEW j \in Jobs, NEW q, StartJob(j, q),
         \A w \in q : w.version[1] \in everPublished,
         everPublished \subseteq everPublished'
  PROVE  IndexHoldsPublished'
<1>1. ASSUME NEW k \in Jobs
      PROVE  \/ job'[k].queue = q /\ job'[k].work = NoWork
             \/ job'[k] = job[k]
  BY <1>1 DEF StartJob, IndexTypeOK, NextOf, Unoccupied
<1>2. JobsHoldPublished'
  BY <1>1 DEF IndexHoldsPublished, JobsHoldPublished
<1> QED  BY <1>2 DEF StartJob, IndexHoldsPublished

LEMMA UntouchedIndexPublished ==
  ASSUME IndexHoldsPublished, UNCHANGED indexVars, everPublished \subseteq everPublished'
  PROVE  IndexHoldsPublished'
BY DEF indexVars, IndexHoldsPublished, JobsHoldPublished

LEMMA IdlePublishOK == ASSUME NEW S PROVE PublishOK(IdleReq, S)
BY DEF PublishOK, IdleReq

LEMMA OnePublishMoves ==
  ASSUME RequestsOK, PublishRequests, everPublished \subseteq everPublished',
         NEW r \in Requests, NEW rec, PublishOK(rec, everPublished'),
         req' = [req EXCEPT ![r] = rec]
  PROVE  PublishRequests'
BY DEF RequestsOK, PublishRequests, PublishOK

LEMMA FinishPublishOK ==
  ASSUME RequestsOK, PublishRequests, everPublished \subseteq everPublished',
         NEW r \in Requests, Finish(r)
  PROVE  PublishRequests'
BY IdlePublishOK, OnePublishMoves DEF Finish

\* Versions, events and tasks as they were.
LEMMA UntouchedTablesPublished ==
  ASSUME PublishedTables, UNCHANGED <<version, events, tasks>>,
         everPublished \subseteq everPublished'
  PROVE  PublishedTables'
BY DEF PublishedTables

LEMMA NewRequestPublished ==
  ASSUME TypeOK, PublishedInv, NEW r \in Requests, NewRequest(r)
  PROVE  PublishedInv'
<1>1. /\ UNCHANGED <<indexVars, version, sent, everPublished>>
      /\ \E rec : Accept(r, rec) /\ PublishOK(rec, everPublished)
  <2>1. ASSUME NEW p \in Pages, NEW l \in Languages,
               \/ \E c \in Contents : CreatePage(r, p, l, c)
               \/ \E c \in Contents \union {Keep} : UpdatePage(r, p, l, c)
               \/ \E i \in Entries(<<p, l>>) : RestoreVersion(r, p, l, i)
        PROVE  /\ UNCHANGED <<indexVars, version, sent, everPublished>>
               /\ \E rec : Accept(r, rec) /\ PublishOK(rec, everPublished)
    <3> DEFINE Rec(op, pc, c) == [IdleReq EXCEPT !.op = op, !.pc = pc, !.page = p,
                                                 !.lang = l, !.text = c]
    <3>1. /\ UNCHANGED <<indexVars, version, sent, everPublished>>
          /\ \E c : \/ Accept(r, Rec("create", "upsert", c))
                    \/ Accept(r, Rec("update", "read", c))
                    \/ Accept(r, Rec("restore", "upsert", c))
      BY <2>1 DEF CreatePage, UpdatePage, RestoreVersion, dbVars, ghosts
    <3>2. \A c : /\ PublishOK(Rec("create", "upsert", c), everPublished)
                 /\ PublishOK(Rec("update", "read", c), everPublished)
                 /\ PublishOK(Rec("restore", "upsert", c), everPublished)
      BY DEF PublishOK, IdleReq
    <3> QED  BY <3>1, <3>2
  <2>2. ASSUME NEW p \in Pages, NEW op \in {"publish", "draft"}, ChangeStatus(r, p, op)
        PROVE  /\ UNCHANGED <<indexVars, version, sent, everPublished>>
               /\ \E rec : Accept(r, rec) /\ PublishOK(rec, everPublished)
    <3>1. PublishOK([IdleReq EXCEPT !.op = op, !.pc = "page", !.page = p], everPublished)
      BY DEF PublishOK, IdleReq
    <3> QED  BY <2>2, <3>1 DEF ChangeStatus, dbVars, ghosts
  <2> QED  BY <2>1, <2>2 DEF NewRequest
<1>2. PublishRequests'
  <2>1. PICK rec : Accept(r, rec) /\ PublishOK(rec, everPublished)
    BY <1>1
  <2> QED  BY <1>1, <2>1, PartsOfTypeOK, OnePublishMoves DEF Accept, PublishedInv
<1> QED
  BY <1>1, <1>2, UntouchedIndexPublished, UntouchedTablesPublished
     DEF sent, PublishedInv

LEMMA RequestStepPublished ==
  ASSUME TypeOK, PublishedInv, NEW r \in Requests, RequestStep(r)
  PROVE  PublishedInv'
<1> USE DEF sent
<1>0. /\ req[r] \in Request /\ RequestOK(req[r])
      /\ RequestsOK /\ TablesOK /\ IndexTypeOK /\ TasksOK
      /\ PublishOK(req[r], everPublished)
      /\ IndexHoldsPublished /\ PublishedTables /\ PublishRequests
  BY PartsOfTypeOK DEF PublishedInv, RequestsOK, PublishRequests
<1>1. CASE ReadVersion(r)
  <2>1. PICK c : req' = [req EXCEPT ![r] = [req[r] EXCEPT !.pc = "upsert", !.text = c]]
    BY <1>0, <1>1 DEF ReadVersion, RequestsOK
  <2>2. PublishOK([req[r] EXCEPT !.pc = "upsert", !.text = c], everPublished)
    BY <1>0 DEF PublishOK, Request
  <2>3. PublishRequests'
    BY <1>0, <1>1, <2>1, <2>2, OnePublishMoves DEF ReadVersion, dbVars, ghosts
  <2> QED
    BY <1>0, <1>1, <2>3, UntouchedIndexPublished, UntouchedTablesPublished
       DEF ReadVersion, dbVars, ghosts, PublishedInv
<1>2. CASE UpsertVersion(r)
  <2>1. PublishRequests'
    <3>1. CASE Finish(r)
      BY <1>0, <1>2, <3>1, FinishPublishOK DEF UpsertVersion, ghosts
    <3>2. CASE Goto(r, "snapshot")
      <4>1. PublishOK([req[r] EXCEPT !.pc = "snapshot"], everPublished)
        BY <1>0 DEF PublishOK, Request
      <4>2. req' = [req EXCEPT ![r] = [req[r] EXCEPT !.pc = "snapshot"]]
        BY <1>0, <3>2 DEF Goto, RequestsOK
      <4> QED  BY <1>0, <1>2, <4>1, <4>2, OnePublishMoves DEF UpsertVersion, ghosts
    <3> QED  BY <1>2, <3>1, <3>2 DEF UpsertVersion
  <2>2. PublishedTables'
    BY <1>0, <1>2 DEF UpsertVersion, PublishedTables, TablesOK, ghosts
  <2> QED
    BY <1>0, <1>2, <2>1, <2>2, UntouchedIndexPublished
       DEF UpsertVersion, ghosts, PublishedInv
<1>3. CASE SnapshotSaved(r)
  BY <1>0, <1>3, FinishPublishOK, UntouchedIndexPublished, UntouchedTablesPublished
     DEF SnapshotSaved, ghosts, PublishedInv
<1>4. CASE SetPageStatus(r)
  <2>1. everPublished \subseteq everPublished'
    BY <1>4 DEF SetPageStatus
  <2>2. PublishOK([req[r] EXCEPT !.pc = "versions"], everPublished')
    BY <1>0, <1>4, <2>1 DEF SetPageStatus, Continue, At, PublishOK, Request
  <2>3. req' = [req EXCEPT ![r] = [req[r] EXCEPT !.pc = "versions"]]
    BY <1>0, <1>4 DEF SetPageStatus, Goto, RequestsOK
  <2>4. PublishRequests'
    BY <1>0, <2>1, <2>2, <2>3, OnePublishMoves
  <2> QED
    BY <1>0, <1>4, <2>1, <2>4, UntouchedIndexPublished, UntouchedTablesPublished
       DEF SetPageStatus, PublishedInv
<1>5. CASE SetVersionStatus(r)
  <2>0. everPublished' = everPublished /\ At(r, "versions")
    BY <1>5 DEF SetVersionStatus, Continue, ghosts
  <2>1. PublishOK([req[r] EXCEPT !.pc = "load"], everPublished)
    BY <1>0, <2>0 DEF At, PublishOK, Request
  <2>2. req' = [req EXCEPT ![r] = [req[r] EXCEPT !.pc = "load"]]
    BY <1>0, <1>5 DEF SetVersionStatus, Goto, RequestsOK
  <2>3. PublishRequests'
    BY <1>0, <2>0, <2>1, <2>2, OnePublishMoves
  <2>4. \A v \in Versions : version'[v] # None /\ version'[v].status = "published"
                              => v[1] \in everPublished
    <3> SUFFICES ASSUME NEW v \in Versions,
                        version'[v] # None /\ version'[v].status = "published"
                 PROVE  v[1] \in everPublished
      OBVIOUS
    <3>1. CASE v[1] = req[r].page /\ version[v] # None
      <4>1. version'[v].status = Target(req[r].op)
        BY <1>0, <1>5, <3>1 DEF SetVersionStatus, TablesOK, Versioned
      <4>2. req[r].op = "publish"
        BY <4>1 DEF Target
      <4> QED  BY <1>0, <2>0, <3>1, <4>2 DEF At, PublishOK
    <3>2. CASE ~ (v[1] = req[r].page /\ version[v] # None)
      BY <1>0, <1>5, <3>2 DEF SetVersionStatus, PublishedTables
    <3> QED  BY <3>1, <3>2
  <2>5. PublishedTables'
    BY <1>0, <1>5, <2>0, <2>4 DEF SetVersionStatus, PublishedTables
  <2> QED
    BY <1>0, <1>5, <2>0, <2>3, <2>5, UntouchedIndexPublished
       DEF SetVersionStatus, PublishedInv
<1>6. CASE LoadVersions(r)
  <2>0. everPublished' = everPublished /\ At(r, "load")
    BY <1>6 DEF LoadVersions, Continue
  <2> DEFINE rec == [req[r] EXCEPT !.pc = "each", !.todo = VersionsOf(req[r].page)]
  <2>1. PublishOK(rec, everPublished)
    BY <1>0, <2>0, VersionsAreABatch DEF At, PublishOK, Request
  <2>2. req' = [req EXCEPT ![r] = rec]
    BY <1>0, <1>6 DEF LoadVersions, RequestsOK
  <2> HIDE DEF rec
  <2>3. PublishRequests'
    BY <1>0, <2>0, <2>1, <2>2, OnePublishMoves
  <2> QED
    BY <1>0, <1>6, <2>0, <2>3, UntouchedIndexPublished, UntouchedTablesPublished
       DEF LoadVersions, PublishedInv
<1>7. ASSUME NEW w \in req[r].todo, PublishVersion(r, w) \/ DraftVersion(r, w)
      PROVE  PublishedInv'
  <2>0. /\ everPublished' = everPublished /\ At(r, "each")
        /\ w \in Work /\ w.version \in Versions /\ w.version[1] = req[r].page
    BY <1>0, <1>7
       DEF PublishVersion, DraftVersion, Continue, dbVars, ghosts, PublishOK,
           Request, Batch, Work
  <2>1. PublishOK([req[r] EXCEPT !.todo = @ \ {w}], everPublished)
    BY <1>0 DEF PublishOK, Request
  <2>2. req' = [req EXCEPT ![r] = [req[r] EXCEPT !.todo = @ \ {w}]]
    BY <1>0, <1>7 DEF PublishVersion, DraftVersion, RequestsOK
  <2>3. PublishRequests'
    BY <1>0, <2>0, <2>1, <2>2, OnePublishMoves
  <2>4. CASE PublishVersion(r, w)
    <3>1. w.version[1] \in everPublished
      BY <1>0, <2>0, <2>4 DEF PublishVersion, At, PublishOK
    <3>2. PublishedTables'
      BY <1>0, <2>0, <2>4, <3>1 DEF PublishVersion, PublishedTables, TablesOK
    <3> QED
      BY <1>0, <2>0, <2>3, <2>4, <3>2, UntouchedIndexPublished
         DEF PublishVersion, PublishedInv
  <2>5. CASE DraftVersion(r, w)
    <3>1. IndexHoldsPublished'
      BY <1>0, <2>0, <2>5
         DEF DraftVersion, Clear, DeleteRows, RowsOf, IndexHoldsPublished,
             JobsHoldPublished
    <3> QED
      BY <1>0, <2>0, <2>3, <2>5, <3>1, UntouchedTablesPublished
         DEF DraftVersion, dbVars, PublishedInv
  <2> QED  BY <1>7, <2>4, <2>5
<1>8. CASE EndPass(r)
  <2>0. /\ UNCHANGED <<everPublished, version, events, indexVars>>
        /\ At(r, "each") /\ req[r].page \in Pages
    BY <1>0, <1>8 DEF EndPass, Continue, At, dbVars, ghosts, RequestOK
  <2>1. PublishedTables'
    BY <1>0, <1>8, <2>0 DEF EndPass, At, PublishOK, PublishedTables, TasksOK
  <2> QED
    BY <1>0, <1>8, <2>0, <2>1, FinishPublishOK, UntouchedIndexPublished
       DEF EndPass, PublishedInv
<1> QED
  BY <1>1, <1>2, <1>3, <1>4, <1>5, <1>6, <1>7, <1>8 DEF RequestStep

LEMMA OtherStepPublished ==
  ASSUME TypeOK, PublishedInv,
         \/ \E r \in Requests : RequestFails(r) \/ PassFails(r)
         \/ \E p \in Pages : TaskFails(p) \/ \E j \in Jobs : StartPipeline(p, j)
         \/ \E j \in Jobs : Reindex(j) \/ Pipeline(j) \/ PipelineFails(j)
         \/ \E v \in Versions : \/ DeliverEvent(v) \/ LoseEvent(v)
                                 \/ \E c \in Contents : WriteCanvas(v, c)
         \/ Restart
         \/ UNCHANGED allVars
  PROVE  PublishedInv'
<1> USE DEF sent
<1>0. /\ RequestsOK /\ TablesOK /\ IndexTypeOK /\ TasksOK
      /\ IndexHoldsPublished /\ PublishedTables /\ PublishRequests
  BY PartsOfTypeOK DEF PublishedInv
<1>1. ASSUME NEW r \in Requests, RequestFails(r)  PROVE PublishedInv'
  BY <1>0, <1>1, FinishPublishOK, UntouchedIndexPublished, UntouchedTablesPublished
     DEF RequestFails, CutShort, dbVars, ghosts, PublishedInv
<1>2. ASSUME NEW r \in Requests, PassFails(r)  PROVE PublishedInv'
  <2>0. UNCHANGED <<everPublished, indexVars, version, tasks>>
    BY <1>2 DEF PassFails, CutShort, dbVars, ghosts
  <2>1. CASE Finish(r) /\ UNCHANGED events
    BY <1>0, <2>0, <2>1, FinishPublishOK, UntouchedIndexPublished,
       UntouchedTablesPublished DEF PublishedInv
  <2>2. CASE ~ (Finish(r) /\ UNCHANGED events)
    <3>1. PICK w \in req[r].todo :
            /\ req' = [req EXCEPT ![r].todo = @ \ {w}]
            /\ IF req[r].op = "publish"
                 THEN events' = [events EXCEPT ![w.version] = @ + 1]
                 ELSE UNCHANGED events
      BY <1>2, <2>2 DEF PassFails
    <3>2. At(r, "each")
      BY <1>2, <2>2 DEF PassFails
    <3>3. /\ req[r] \in Request /\ PublishOK(req[r], everPublished)
          /\ w.version \in Versions /\ w.version[1] = req[r].page
      BY <1>0, <3>1
         DEF RequestsOK, PublishRequests, PublishOK, Request, Batch, Work
    <3>4. PublishOK([req[r] EXCEPT !.todo = @ \ {w}], everPublished)
      BY <3>3 DEF PublishOK, Request
    <3>5. req' = [req EXCEPT ![r] = [req[r] EXCEPT !.todo = @ \ {w}]]
      BY <1>0, <3>1 DEF RequestsOK
    <3>6. PublishRequests'
      BY <1>0, <2>0, <3>4, <3>5, OnePublishMoves
    <3>7. req[r].op = "publish" => w.version[1] \in everPublished
      BY <3>2, <3>3 DEF At, PublishOK
    <3>8. PublishedTables'
      BY <1>0, <2>0, <3>1, <3>3, <3>7 DEF PublishedTables, TablesOK
    <3> QED  BY <1>0, <2>0, <3>6, <3>8, UntouchedIndexPublished DEF PublishedInv
  <2> QED  BY <2>1, <2>2
<1>3. ASSUME NEW j \in Jobs, Reindex(j)  PROVE PublishedInv'
  <2>1. \A w \in PublishedWork : w.version[1] \in everPublished
    BY <1>0, PublishedWorkIsABatch DEF PublishedVersions, PublishedTables
  <2>2. UNCHANGED <<everPublished, version, sent, req>>
    BY <1>3 DEF Reindex, dbVars, ghosts
  <2>3. IndexHoldsPublished'
    BY <1>0, <1>3, <2>1, <2>2, StartKeepsIndexPublished DEF Reindex, TakeUp
  <2> QED
    BY <1>0, <2>2, <2>3, UntouchedTablesPublished DEF PublishRequests, PublishedInv
<1>4. ASSUME NEW j \in Jobs, Pipeline(j) \/ PipelineFails(j)  PROVE PublishedInv'
  <2>1. JobStep(j) /\ UNCHANGED <<everPublished, version, sent, req>>
    BY <1>4 DEF Pipeline, PipelineFails, JobStep, dbVars, ghosts
  <2>2. IndexHoldsPublished'
    BY <1>0, <2>1, TaskKeepsIndexPublished
  <2> QED
    BY <1>0, <2>1, <2>2, UntouchedTablesPublished DEF PublishRequests, PublishedInv
<1>5. ASSUME NEW v \in Versions, DeliverEvent(v)  PROVE PublishedInv'
  <2>1. UNCHANGED <<everPublished, version, tasks, req, chunks, job>>
    BY <1>5 DEF DeliverEvent, EventArrives, dbVars, ghosts
  <2>2. \A i \in 1..Len(log') : log'[i].version[1] \in everPublished'
    <3>1. EventRecord(v) \in LogRecord /\ EventRecord(v).version[1] \in everPublished
      BY <1>0, <1>5 DEF EventRecord, LogRecord, DeliverEvent, PublishedTables
    <3>2. Append1(EventRecord(v))
      BY <1>5 DEF DeliverEvent, EventArrives
    <3> QED  BY <1>0, <2>1, <3>1, <3>2, RecordsAppended DEF IndexHoldsPublished
  <2>3. IndexHoldsPublished'
    BY <1>0, <2>1, <2>2 DEF IndexHoldsPublished, JobsHoldPublished
  <2>4. PublishedTables'
    BY <1>0, <1>5, <2>1 DEF DeliverEvent, PublishedTables, TablesOK
  <2> QED  BY <1>0, <2>1, <2>3, <2>4 DEF PublishRequests, PublishedInv
<1>6. ASSUME NEW v \in Versions, LoseEvent(v)  PROVE PublishedInv'
  <2>1. UNCHANGED <<everPublished, version, tasks, req, indexVars>>
    BY <1>6 DEF LoseEvent, dbVars, ghosts
  <2>2. PublishedTables'
    BY <1>0, <1>6, <2>1 DEF LoseEvent, PublishedTables, TablesOK
  <2> QED
    BY <1>0, <2>1, <2>2, UntouchedIndexPublished DEF PublishRequests, PublishedInv
<1>7. ASSUME NEW v \in Versions, NEW c \in Contents, WriteCanvas(v, c)
      PROVE  PublishedInv'
  <2>1. UNCHANGED <<everPublished, req, indexVars, sent>>
    BY <1>7 DEF WriteCanvas
  <2>2. PublishedTables'
    BY <1>0, <1>7, <2>1 DEF WriteCanvas, PublishedTables, TablesOK, Versioned
  <2> QED
    BY <1>0, <2>1, <2>2, UntouchedIndexPublished DEF PublishRequests, PublishedInv
<1>8. CASE Restart
  <2>1. UNCHANGED <<everPublished, version, log, chunks>>
    BY <1>8 DEF Restart, StopJobs, dbVars, ghosts
  <2>2. PublishedTables'
    BY <1>0, <1>8, <2>1 DEF Restart, Forget, PublishedTables
  <2>3. IndexHoldsPublished'
    BY <1>0, <1>8, <2>1
       DEF Restart, StopJobs, IndexHoldsPublished, JobsHoldPublished, IdleJob, Unoccupied
  <2>4. PublishRequests'
    BY <1>8, IdlePublishOK DEF Restart, Forget, PublishRequests
  <2> QED  BY <2>2, <2>3, <2>4 DEF PublishedInv
<1>9. CASE UNCHANGED allVars
  BY <1>0, <1>9, UntouchedIndexPublished, UntouchedTablesPublished
     DEF allVars, dbVars, ghosts, PublishRequests, PublishedInv
<1>10. ASSUME NEW p \in Pages, TaskReads(p)
       PROVE  /\ UNCHANGED <<everPublished, version, req>> /\ p \in everPublished
              /\ PublishedTables'
  <2>1. /\ UNCHANGED <<everPublished, version, req, events>> /\ p \in everPublished
        /\ \A q \in Pages : tasks'[q] > 0 => tasks[q] > 0
    BY <1>0, <1>10 DEF TaskReads, dbVars, ghosts, PublishedTables, TasksOK
  <2> QED  BY <1>0, <2>1 DEF PublishedTables
<1>11. ASSUME NEW p \in Pages, TaskFails(p)  PROVE PublishedInv'
  BY <1>0, <1>10, <1>11, UntouchedIndexPublished
     DEF TaskFails, PublishRequests, PublishedInv
<1>12. ASSUME NEW p \in Pages, NEW j \in Jobs, StartPipeline(p, j)  PROVE PublishedInv'
  <2>1. IndexHoldsPublished'
    BY <1>0, <1>10, <1>12, VersionsAreABatch, StartKeepsIndexPublished
       DEF StartPipeline, TakeUp
  <2> QED
    BY <1>0, <1>10, <1>12, <2>1 DEF StartPipeline, PublishRequests, PublishedInv
<1> QED
  BY <1>1, <1>2, <1>3, <1>4, <1>5, <1>6, <1>7, <1>8, <1>9, <1>11, <1>12

LEMMA PublishedInvariant == Spec => []PublishedInv
<1>1. Init => PublishedInv
  BY IdlePublishOK
     DEF Init, IndexInit, IdleJob, Unoccupied, PublishedInv, IndexHoldsPublished,
         JobsHoldPublished, PublishedTables, PublishRequests
<1>2. TypeOK /\ PublishedInv /\ [Next]_allVars => PublishedInv'
  BY NewRequestPublished, RequestStepPublished, OtherStepPublished DEF Next, Serve
<1> QED
  BY <1>1, <1>2, LifecycleTypeCorrect, PTL DEF Spec

\* "Drafts stay private": whatever requests overlap, whatever a task has read
\* before the page was taken back, and whatever fails or restarts, a page that
\* was never published has no row, no record, no task and no published version.
THEOREM NeverPublishedIsPrivate == Spec => []NeverPublishedNeverIndexed
<1>1. TypeOK /\ PublishedInv => NeverPublishedNeverIndexed
  <2> SUFFICES ASSUME TypeOK, PublishedInv, NEW v \in Versions, v[1] \notin everPublished
               PROVE  /\ RowsOf(v) = {}
                      /\ \A i \in 1..Len(log) : log[i].version # v
                      /\ \A j \in Jobs, c \in Contents :
                           LET w == [version |-> v, text |-> c]
                           IN  w \notin job[j].queue /\ job[j].work # w
                      /\ version[v] # None => version[v].status = "draft"
    BY DEF NeverPublishedNeverIndexed
  <2>1. RowsOf(v) = {} /\ \A i \in 1..Len(log) : log[i].version # v
    BY DEF RowsOf, PublishedInv, IndexHoldsPublished
  <2>2. ASSUME NEW j \in Jobs, NEW c \in Contents
        PROVE  /\ [version |-> v, text |-> c] \notin job[j].queue
               /\ job[j].work # [version |-> v, text |-> c]
    <3>1. [version |-> v, text |-> c] # NoWork
      BY NoWorkAssumption DEF Work
    <3> QED  BY <3>1 DEF PublishedInv, IndexHoldsPublished, JobsHoldPublished
  <2>3. version[v] # None => version[v].status = "draft"
    BY PartsOfTypeOK DEF TablesOK, Versioned, PublishedInv, PublishedTables
  <2> QED  BY <2>1, <2>2, <2>3
<1> QED
  BY <1>1, PublishedInvariant, LifecycleTypeCorrect, PTL

-----------------------------------------------------------------------------
(* One page between two publishes *)

\* The versions of a page.
VersionsOn(p) == {v \in Versions : v[1] = p}

Recorded(v) == /\ history[v] # <<>>
               /\ history[v][Len(history[v])] = Snapshot(version[v].text, TRUE)

\* A version with the body it has now, as a pass or a task holds it.
Holding(v) == [version |-> v, text |-> version[v].text]

\* A publish or a draft that has not set the page yet leaves open what it finds;
\* after that, what is published and not recorded is what a publish has still to
\* record.
ToRecord(r, v) ==
  \/ req[r].pc = "page"
  \/ /\ req[r].op = "publish"
     /\ req[r].pc \in {"versions", "load"} \/ Holding(v) \in req[r].todo

\* Where a request that has page p to itself has brought the page, and that what
\* a publish is about to record is the body as it is, or was overwritten.
StageOK(r, p) ==
  /\ req[r].pc \in {"versions", "load", "each"} => page[p] = Target(req[r].op)
  /\ req[r].pc \in {"read", "upsert", "snapshot"} => page[p] = "draft"
  /\ req[r].op = "publish" => \A w \in req[r].todo :
       version[w.version].text = w.text \/ w.version \in overwritten

\* The versions of p agree with the page and its history, as far as request r
\* has gone.
PageWith(r, p) ==
  /\ StageOK(r, p)
  /\ \A v \in VersionsOn(p) :
       /\ version[v] # None =>
            version[v].status = page[p] \/ req[r].pc \in {"page", "versions"}
       /\ AsPublished(v) => Recorded(v) \/ ToRecord(r, v)

\* The same of all the requests on the page, who are one at most.
PageOK(p) ==
  /\ \A r, q \in Serving(p) : r = q
  /\ \A r \in Serving(p) : StageOK(r, p)
  /\ \A v \in VersionsOn(p) :
       /\ version[v] # None =>
            \/ version[v].status = page[p]
            \/ \E r \in Serving(p) : req[r].pc \in {"page", "versions"}
       /\ AsPublished(v) => Recorded(v) \/ \E r \in Serving(p) : ToRecord(r, v)

PageInv(p) == p \notin disturbed => PageOK(p)

\* The request on a page has it to itself.
LEMMA SoleRequest ==
  ASSUME NEW p, PageOK(p), NEW r \in Serving(p)
  PROVE  Serving(p) = {r} /\ PageWith(r, p)
BY DEF PageOK, PageWith

\* A request that moves on the page, or ends, keeps it in order.
LEMMA SoleRequestMoves ==
  ASSUME NEW p, NEW r \in Requests, RequestsOK', Serving(p)' \subseteq {r}, PageWith(r, p)',
         req'[r].pc = "idle" \/ req'[r].page = p
  PROVE  PageOK(p)'
<1>1. CASE req'[r].pc = "idle"
  <2>1. Serving(p)' = {}
    BY <1>1 DEF Serving, At, ToRecord, RequestsOK, RequestOK
  <2>2. \A v : ~ ToRecord(r, v)'
    BY <1>1 DEF ToRecord, RequestsOK, RequestOK
  <2> QED  BY <1>1, <2>1, <2>2 DEF PageWith, PageOK
<1>2. CASE req'[r].pc # "idle" /\ req'[r].page = p
  <2>1. Serving(p)' = {r}
    BY <1>2 DEF Serving, At
  <2> QED  BY <2>1 DEF PageWith, PageOK
<1> QED  BY <1>1, <1>2

\* Steps that touch neither the page nor a request on it.
LEMMA PageStands ==
  ASSUME NEW p, PageOK(p), PublishedInv, page'[p] = page[p],
         \A v \in VersionsOn(p) :
           /\ version'[v] = version[v] /\ history'[v] = history[v]
           /\ v \in overwritten' <=> v \in overwritten,
         \A r \in Requests : r \in Serving(p) \union Serving(p)' => req'[r] = req[r],
         RequestsOK
  PROVE  PageOK(p)'
<1>1. Serving(p)' = Serving(p) /\ \A r \in Serving(p) : r \in Requests /\ req'[r] = req[r]
  BY DEF Serving, At
<1>2. \A r \in Serving(p) : StageOK(r, p)'
  <2> SUFFICES ASSUME NEW r \in Serving(p)  PROVE StageOK(r, p)'
    OBVIOUS
  <2>1. \A w \in req[r].todo : w.version \in VersionsOn(p)
    BY <1>1 DEF PublishedInv, PublishRequests, PublishOK, Serving, VersionsOn,
                RequestsOK, Request, Batch, Work
  <2>2. StageOK(r, p)
    BY DEF PageOK
  <2> QED  BY <1>1, <2>1, <2>2 DEF StageOK
<1>3. ASSUME NEW v \in VersionsOn(p)
      PROVE  /\ version'[v] # None =>
                  \/ version'[v].status = page'[p]
                  \/ \E r \in Serving(p)' : req'[r].pc \in {"page", "versions"}
             /\ AsPublished(v)' => Recorded(v)' \/ \E r \in Serving(p)' : ToRecord(r, v)'
  <2>1. AsPublished(v)' = AsPublished(v) /\ Recorded(v)' = Recorded(v)
    BY <1>3 DEF AsPublished, Published, Recorded, VersionsOn
  <2>2. \A r \in Serving(p) : ToRecord(r, v) => ToRecord(r, v)'
    BY <1>1 DEF ToRecord, Holding
  <2> QED  BY <1>1, <1>3, <2>1, <2>2 DEF PageOK
<1> QED  BY <1>1, <1>2, <1>3 DEF PageOK

\* What the moves of a request slot leave in it.
LEMMA GotoFacts ==
  ASSUME RequestsOK, NEW r \in Requests, NEW pc, Goto(r, pc)
  PROVE  /\ req'[r].pc = pc /\ req'[r].op = req[r].op /\ req'[r].page = req[r].page
         /\ req'[r].lang = req[r].lang /\ req'[r].text = req[r].text
         /\ req'[r].todo = req[r].todo
BY DEF RequestsOK, Goto, Request

LEMMA FinishFacts ==
  ASSUME RequestsOK, NEW r \in Requests, Finish(r)
  PROVE  req'[r].pc = "idle" /\ req'[r].op = "none" /\ req'[r].todo = {}
BY DEF RequestsOK, Finish, IdleReq

LEMMA TodoFacts ==
  ASSUME RequestsOK, NEW r \in Requests, NEW w,
         req' = [req EXCEPT ![r].todo = @ \ {w}]
  PROVE  /\ req'[r].pc = req[r].pc /\ req'[r].op = req[r].op /\ req'[r].page = req[r].page
         /\ req'[r].todo = req[r].todo \ {w}
BY DEF RequestsOK, Request

\* Only a pass over the versions holds any.
LEMMA OnlyAPassHolds ==
  ASSUME RequestsOK, NEW r \in Requests, req[r].todo # {}
  PROVE  req[r].pc = "each"
BY DEF RequestsOK, RequestOK

\* Steps of the request that write neither the versions nor their history.
LEMMA PageWithStands ==
  ASSUME NEW r, NEW p, PageWith(r, p), UNCHANGED <<page, version, history, overwritten>>,
         StageOK(r, p)',
         req[r].pc \in {"page", "versions"} => req'[r].pc \in {"page", "versions"},
         \A v \in VersionsOn(p) : ToRecord(r, v) => ToRecord(r, v)'
  PROVE  PageWith(r, p)'
<1>1. \A v : AsPublished(v)' = AsPublished(v) /\ Recorded(v)' = Recorded(v)
  BY DEF AsPublished, Published, Recorded
<1> QED  BY <1>1 DEF PageWith, VersionsOn

\* An edit writes drafts of a draft page.
LEMMA EditKeepsPage ==
  ASSUME NEW r \in Requests, TypeOK, NEW p, req[r].page = p, PageWith(r, p),
         ReadVersion(r) \/ UpsertVersion(r) \/ SnapshotSaved(r)
  PROVE  PageWith(r, p)'
<1> DEFINE v0 == Current(r)
<1>0. /\ RequestsOK /\ TablesOK /\ RequestOK(req[r])
      /\ req[r].pc \in {"read", "upsert", "snapshot"}
  BY PartsOfTypeOK DEF RequestsOK, ReadVersion, UpsertVersion, SnapshotSaved, Continue, At
<1>1. /\ req[r].todo = {} /\ v0 \in VersionsOn(p) /\ page[p] = "draft"
  BY <1>0, OnlyAPassHolds DEF RequestOK, PageWith, StageOK, Current, Versions, VersionsOn
<1>2. \A v \in VersionsOn(p) : ~ ToRecord(r, v) /\ ~ AsPublished(v)
  BY <1>0, <1>1 DEF ToRecord, AsPublished, Published, VersionsOn
<1>3. CASE ReadVersion(r)
  <2>1. /\ req'[r].pc = "upsert" /\ req'[r].todo = {}
        /\ UNCHANGED <<page, version, history, overwritten>>
    BY <1>0, <1>1, <1>3 DEF ReadVersion, RequestsOK, Request, dbVars, ghosts
  <2>2. StageOK(r, p)'
    BY <1>1, <2>1 DEF StageOK
  <2> QED  BY <1>0, <1>2, <2>1, <2>2, PageWithStands
<1>4. CASE UpsertVersion(r)
  <2>1. /\ version'[v0].status = "draft" /\ \A v \in Versions \ {v0} : version'[v] = version[v]
        /\ UNCHANGED <<page, history, overwritten>>
    <3>1. version' = [version EXCEPT ![v0] = [status |-> "draft", text |-> req[r].text]]
      BY <1>4 DEF UpsertVersion
    <3> QED  BY <1>0, <1>1, <1>4, <3>1 DEF UpsertVersion, TablesOK, VersionsOn, ghosts
  <2>2. req'[r].pc \in {"idle", "snapshot"} /\ req'[r].todo = {}
    BY <1>0, <1>1, <1>4, FinishFacts, GotoFacts DEF UpsertVersion
  <2>3. ASSUME NEW v \in VersionsOn(p), version'[v] # None  PROVE  version'[v].status = page[p]
    BY <1>0, <1>1, <2>1, <2>3 DEF PageWith, VersionsOn
  <2>4. \A v \in VersionsOn(p) : ~ AsPublished(v)'
    BY <1>1, <2>1 DEF AsPublished, Published, VersionsOn
  <2> QED  BY <1>1, <2>1, <2>2, <2>3, <2>4 DEF PageWith, StageOK, VersionsOn
<1>5. CASE SnapshotSaved(r)
  <2>1. UNCHANGED <<page, version, overwritten>>
    BY <1>5 DEF SnapshotSaved, ghosts
  <2>2. req'[r].pc = "idle" /\ req'[r].todo = {}
    BY <1>0, <1>5, FinishFacts DEF SnapshotSaved
  <2>3. \A v \in VersionsOn(p) : ~ AsPublished(v)'
    BY <1>2, <2>1 DEF AsPublished, Published
  <2> QED  BY <1>0, <2>1, <2>2, <2>3 DEF PageWith, StageOK, VersionsOn
<1> QED  BY <1>3, <1>4, <1>5

\* What a request that changes a status aims at.
LEMMA TargetIsPublish ==
  ASSUME NEW op, Target(op) = "published"  PROVE  op = "publish"
BY DEF Target

\* A publish or a draft sets the page, then its versions, then reads them.
LEMMA StatusStepKeepsPage ==
  ASSUME NEW r \in Requests, TypeOK, NEW p, req[r].page = p, PageWith(r, p),
         SetPageStatus(r) \/ SetVersionStatus(r) \/ LoadVersions(r)
  PROVE  PageWith(r, p)'
<1>0. /\ RequestsOK /\ TablesOK /\ RequestOK(req[r])
      /\ req[r].pc \in {"page", "versions", "load"}
  BY PartsOfTypeOK DEF RequestsOK, SetPageStatus, SetVersionStatus, LoadVersions, Continue, At
<1>1. req[r].todo = {} /\ p \in Pages
  BY <1>0, OnlyAPassHolds DEF RequestOK
<1>3. CASE SetPageStatus(r)
  <2>1. /\ page'[p] = Target(req[r].op)
        /\ UNCHANGED <<version, history, overwritten>>
    BY <1>0, <1>1, <1>3 DEF SetPageStatus, TablesOK
  <2>2. req'[r].pc = "versions" /\ req'[r].op = req[r].op /\ req'[r].todo = {}
    BY <1>0, <1>1, <1>3, GotoFacts DEF SetPageStatus
  <2>3. ASSUME NEW v \in VersionsOn(p), AsPublished(v)'  PROVE  ToRecord(r, v)'
    <3>1. req[r].op = "publish"
      BY <2>1, <2>3, TargetIsPublish DEF AsPublished, Published, VersionsOn
    <3> QED  BY <2>2, <3>1 DEF ToRecord
  <2> QED  BY <2>1, <2>2, <2>3 DEF PageWith, StageOK, VersionsOn
<1>4. CASE SetVersionStatus(r)
  <2>1. /\ \A v \in VersionsOn(p) : version'[v] # None =>
             version'[v].status = Target(req[r].op)
        /\ UNCHANGED <<page, history, overwritten>>
    <3>1. ASSUME NEW v \in VersionsOn(p), version'[v] # None
          PROVE  version'[v].status = Target(req[r].op)
      <4>1. version[v] # None /\ v \in Versions /\ v[1] = p
        BY <1>4, <3>1 DEF SetVersionStatus, VersionsOn
      <4>2. version[v] \in Versioned
        BY <1>0, <4>1 DEF TablesOK
      <4> QED  BY <1>4, <3>1, <4>1, <4>2 DEF SetVersionStatus, Versioned
    <3> QED  BY <1>4, <3>1 DEF SetVersionStatus, ghosts
  <2>2. req'[r].pc = "load" /\ req'[r].op = req[r].op /\ req'[r].todo = {}
    BY <1>0, <1>1, <1>4, GotoFacts DEF SetVersionStatus
  <2>3. page[p] = Target(req[r].op)
    BY <1>4 DEF PageWith, StageOK, SetVersionStatus, Continue, At
  <2>4. ASSUME NEW v \in VersionsOn(p), AsPublished(v)'  PROVE  ToRecord(r, v)'
    <3>1. req[r].op = "publish"
      BY <2>1, <2>3, <2>4, TargetIsPublish DEF AsPublished, Published, VersionsOn
    <3> QED  BY <2>2, <3>1 DEF ToRecord
  <2> QED  BY <2>1, <2>2, <2>3, <2>4 DEF PageWith, StageOK, VersionsOn
<1>5. CASE LoadVersions(r)
  <2>1. /\ UNCHANGED <<page, version, history>>
        /\ req[r].op # "publish" => overwritten' = overwritten
    BY <1>5 DEF LoadVersions
  <2>2. /\ req'[r].pc = "each" /\ req'[r].op = req[r].op
        /\ req'[r].todo = VersionsOf(p)
    BY <1>0, <1>5 DEF LoadVersions, RequestsOK, Request
  <2>3. page[p] = Target(req[r].op)
    BY <1>5 DEF PageWith, StageOK, LoadVersions, Continue, At
  <2>4. StageOK(r, p)'
    <3>1. \A w \in VersionsOf(p) : version[w.version].text = w.text
      BY DEF VersionsOf
    <3> QED  BY <2>1, <2>2, <2>3, <3>1 DEF StageOK
  <2>5. ASSUME NEW v \in VersionsOn(p), AsPublished(v)'  PROVE  ToRecord(r, v)'
    <3>1. req[r].op = "publish"
      BY <2>1, <2>3, <2>5, TargetIsPublish DEF AsPublished, Published, VersionsOn
    <3>2. version[v] \in Versioned /\ version[v] # None
      BY <1>0, <2>1, <2>5 DEF TablesOK, AsPublished, Published, VersionsOn
    <3>3. Holding(v) \in VersionsOf(p)
      BY <3>2 DEF Holding, VersionsOf, VersionsOn, Work, Versioned
    <3>4. Holding(v)' = Holding(v)
      BY <2>1 DEF Holding
    <3> QED  BY <2>2, <3>1, <3>3, <3>4 DEF ToRecord
  <2>6. \A v \in VersionsOn(p) : version[v] # None => version[v].status = page[p]
    BY <1>5 DEF PageWith, LoadVersions, Continue, At
  <2> QED  BY <2>1, <2>4, <2>5, <2>6 DEF PageWith, VersionsOn
<1> QED  BY <1>3, <1>4, <1>5

\* A publish records the versions it read, one by one.
LEMMA PassStepKeepsPage ==
  ASSUME NEW r \in Requests, TypeOK, NEW p, req[r].page = p, PageWith(r, p),
         \/ \E w \in req[r].todo : PublishVersion(r, w) \/ DraftVersion(r, w)
         \/ EndPass(r)
  PROVE  PageWith(r, p)'
<1>0. RequestsOK /\ TablesOK /\ RequestOK(req[r])
  BY PartsOfTypeOK DEF RequestsOK
<1>1. ASSUME NEW w \in req[r].todo, PublishVersion(r, w)  PROVE  PageWith(r, p)'
  <2>1. w \in Work /\ w.version \in Versions
    BY <1>0 DEF RequestOK, Request, Batch, Work
  <2>2. /\ history'[w.version] = Append(history[w.version], Snapshot(w.text, TRUE))
        /\ \A v \in Versions \ {w.version} : history'[v] = history[v]
        /\ UNCHANGED <<page, version, overwritten>>
    BY <1>0, <1>1, <2>1 DEF PublishVersion, Record, TablesOK, ghosts
  <2>3. /\ req'[r].pc = "each" /\ req'[r].op = "publish" /\ req[r].op = "publish"
        /\ req[r].pc = "each" /\ req'[r].todo = req[r].todo \ {w}
    BY <1>0, <1>1, TodoFacts DEF PublishVersion, Continue, At
  <2>4. StageOK(r, p)'
    BY <2>2, <2>3 DEF PageWith, StageOK
  <2>5. ASSUME NEW v \in VersionsOn(p), AsPublished(v)'  PROVE  Recorded(v)' \/ ToRecord(r, v)'
    <3>1. AsPublished(v) /\ v \in Versions
      BY <2>2, <2>5 DEF AsPublished, Published, VersionsOn
    <3>2. CASE v = w.version
      <4>1. version[v].text = w.text
        BY <2>3, <3>1, <3>2 DEF PageWith, StageOK, AsPublished
      <4>2. history[v] \in Seq([text : Contents, published : BOOLEAN])
        BY <1>0, <3>1 DEF TablesOK
      <4> DEFINE list == history[v]
                 snap == Snapshot(w.text, TRUE)
      <4>3. snap \in [text : Contents, published : BOOLEAN]
        BY <2>1 DEF Snapshot, Work
      <4> HIDE DEF list, snap
      <4>4. Append(list, snap) # <<>> /\ Append(list, snap)[Len(Append(list, snap))] = snap
        BY <4>2, <4>3 DEF list
      <4> QED  BY <2>2, <3>2, <4>1, <4>4 DEF Recorded, list, snap
    <3>3. CASE v # w.version
      <4>1. Recorded(v) \/ ToRecord(r, v)
        BY <2>5, <3>1 DEF PageWith
      <4>2. Holding(v)' = Holding(v)
        BY <2>2 DEF Holding
      <4>3. Holding(v) # w
        BY <3>3 DEF Holding
      <4>4. Recorded(v) => Recorded(v)'
        BY <2>2, <3>1, <3>3 DEF Recorded
      <4> QED  BY <2>3, <4>1, <4>2, <4>3, <4>4 DEF ToRecord
    <3> QED  BY <3>2, <3>3
  <2> QED  BY <2>2, <2>3, <2>4, <2>5 DEF PageWith, VersionsOn
<1>2. ASSUME NEW w \in req[r].todo, DraftVersion(r, w)  PROVE  PageWith(r, p)'
  <2>1. /\ req'[r].pc = "each" /\ req[r].op = "draft" /\ req'[r].op = "draft"
        /\ req[r].pc = "each"
        /\ UNCHANGED <<page, version, history, overwritten>>
    BY <1>0, <1>2, TodoFacts DEF DraftVersion, Continue, At, dbVars, ghosts
  <2>2. \A v : ~ ToRecord(r, v)
    BY <2>1 DEF ToRecord
  <2>3. StageOK(r, p)'
    BY <2>1 DEF PageWith, StageOK
  <2> QED  BY <2>1, <2>2, <2>3, PageWithStands
<1>3. CASE EndPass(r)
  <2>1. req[r].pc = "each" /\ req[r].todo = {}
    BY <1>3 DEF EndPass, Continue, At
  <2>2. /\ req'[r].pc = "idle" /\ req'[r].todo = {}
        /\ UNCHANGED <<page, version, history, overwritten>>
    BY <1>0, <1>3, FinishFacts DEF EndPass, dbVars, ghosts
  <2>3. \A v : ~ ToRecord(r, v)
    BY <2>1 DEF ToRecord
  <2>4. StageOK(r, p)'
    BY <2>2 DEF StageOK
  <2> QED  BY <2>1, <2>2, <2>3, <2>4, PageWithStands
<1> QED  BY <1>1, <1>2, <1>3

\* A canvas leaves the status alone, and marks what it overwrites.
LEMMA CanvasKeepsPage ==
  ASSUME TypeOK, PublishedInv, NEW p, PageOK(p),
         NEW v \in Versions, NEW c \in Contents, WriteCanvas(v, c)
  PROVE  PageOK(p)'
<1>0. RequestsOK /\ TablesOK
  BY PartsOfTypeOK
<1>1. version[v] \in Versioned /\ version[v] # None
  BY <1>0 DEF TablesOK, WriteCanvas
<1>2. /\ version'[v] = [status |-> version[v].status, text |-> c]
      /\ \A u \in Versions \ {v} : version'[u] = version[u]
      /\ UNCHANGED <<page, history, req>>
      /\ overwritten \subseteq overwritten'
      /\ page[v[1]] = "published" /\ version[v].text # c => v \in overwritten'
  BY <1>0, <1>1 DEF WriteCanvas, TablesOK, Versioned
<1>3. Serving(p)' = Serving(p)
  BY <1>2 DEF Serving, At
<1>4. ASSUME NEW u \in VersionsOn(p)
      PROVE  /\ version'[u] # None =>
                  \/ version'[u].status = page'[p]
                  \/ \E r \in Serving(p)' : req'[r].pc \in {"page", "versions"}
             /\ AsPublished(u)' => Recorded(u)' \/ \E r \in Serving(p)' : ToRecord(r, u)'
  <2>0. u \in Versions
    BY <1>4 DEF VersionsOn
  <2>1. version'[u] # None => version[u] # None /\ version'[u].status = version[u].status
    BY <1>1, <1>2, <2>0
  <2>2. ASSUME AsPublished(u)'
        PROVE  Recorded(u)' \/ \E r \in Serving(p) : ToRecord(r, u)'
    <3>1. version'[u] = version[u]
      <4>1. CASE u = v
        <5>1. version[v].text = c
          BY <1>2, <2>2, <4>1 DEF AsPublished, Published
        <5> QED  BY <1>1, <1>2, <4>1, <5>1 DEF Versioned
      <4> QED  BY <1>2, <2>0, <4>1
    <3>2. AsPublished(u)
      BY <1>2, <2>2, <3>1 DEF AsPublished, Published
    <3>3. Recorded(u) \/ \E r \in Serving(p) : ToRecord(r, u)
      BY <1>4, <3>2 DEF PageOK
    <3> QED  BY <1>2, <3>1, <3>3 DEF Recorded, ToRecord, Holding
  <2> QED  BY <1>2, <1>3, <1>4, <2>1, <2>2 DEF PageOK
<1>5. ASSUME NEW r \in Serving(p)  PROVE  StageOK(r, p)'
  <2>1. StageOK(r, p) /\ r \in Requests /\ req[r].page = p
    BY DEF PageOK, Serving
  <2>2. ASSUME NEW w \in req[r].todo, req[r].op = "publish"
        PROVE  version'[w.version].text = w.text \/ w.version \in overwritten'
    <3>1. version[w.version].text = w.text \/ w.version \in overwritten
      BY <2>1, <2>2 DEF StageOK
    <3>2. w.version \in Versions /\ w.version[1] = p
      BY <1>0, <2>1, <2>2
         DEF RequestsOK, Request, Batch, Work, PublishedInv, PublishRequests, PublishOK
    <3>3. page[p] = "published"
      <4>1. req[r].pc = "each"
        BY <1>0, <2>1, <2>2, OnlyAPassHolds
      <4> QED  BY <2>1, <2>2, <4>1 DEF StageOK, Target
    <3>4. CASE w.version = v
      BY <1>2, <3>1, <3>2, <3>3, <3>4
    <3> QED  BY <1>2, <3>1, <3>2, <3>4
  <2> QED  BY <1>2, <2>1, <2>2 DEF StageOK
<1> QED  BY <1>2, <1>3, <1>4, <1>5 DEF PageOK

\* A request that comes to a page marks it, unless it is alone there.
LEMMA NewRequestKeepsPage ==
  ASSUME TypeOK, PublishedInv, NEW p \in Pages, PageInv(p),
         NEW r \in Requests, NewRequest(r)
  PROVE  PageInv(p)'
<1>0. RequestsOK /\ TablesOK
  BY PartsOfTypeOK
<1>1. PICK q \in Pages :
        \/ \E l \in Languages :
             \/ \E c \in Contents : CreatePage(r, q, l, c)
             \/ \E c \in Contents \union {Keep} : UpdatePage(r, q, l, c)
             \/ \E i \in Entries(<<q, l>>) : RestoreVersion(r, q, l, i)
        \/ \E op \in {"publish", "draft"} : ChangeStatus(r, q, op)
  BY DEF NewRequest
<1>2. \E rec : /\ Accept(r, rec) /\ rec.page = q /\ rec.todo = {}
               /\ \/ /\ page[q] = None /\ page' = [page EXCEPT ![q] = "draft"]
                     /\ rec.pc = "upsert"
                  \/ page[q] = "draft" /\ page' = page /\ rec.pc \in {"read", "upsert"}
                  \/ page' = page /\ rec.pc = "page"
  <2>1. ASSUME NEW l \in Languages, NEW c \in Contents, CreatePage(r, q, l, c)
        PROVE  \E rec : /\ Accept(r, rec) /\ rec.page = q /\ rec.todo = {}
                        /\ page[q] = None /\ page' = [page EXCEPT ![q] = "draft"]
                        /\ rec.pc = "upsert"
    <3> DEFINE rec == [IdleReq EXCEPT !.op = "create", !.pc = "upsert",
                                      !.page = q, !.lang = l, !.text = c]
    <3>1. rec.page = q /\ rec.pc = "upsert" /\ rec.todo = {}
      BY DEF IdleReq
    <3>2. Accept(r, rec) /\ page[q] = None /\ page' = [page EXCEPT ![q] = "draft"]
      BY <2>1 DEF CreatePage
    <3> HIDE DEF rec
    <3> QED  BY <3>1, <3>2
  <2>2. ASSUME NEW l \in Languages, NEW c \in Contents \union {Keep}, UpdatePage(r, q, l, c)
        PROVE  \E rec : /\ Accept(r, rec) /\ rec.page = q /\ rec.todo = {}
                        /\ page[q] = "draft" /\ page' = page /\ rec.pc = "read"
    <3> DEFINE rec == [IdleReq EXCEPT !.op = "update", !.pc = "read",
                                      !.page = q, !.lang = l, !.text = c]
    <3>1. rec.page = q /\ rec.pc = "read" /\ rec.todo = {}
      BY DEF IdleReq
    <3>2. Accept(r, rec) /\ page[q] = "draft" /\ page' = page
      BY <2>2 DEF UpdatePage, Editable, dbVars
    <3> HIDE DEF rec
    <3> QED  BY <3>1, <3>2
  <2>3. ASSUME NEW l \in Languages, NEW i \in Entries(<<q, l>>), RestoreVersion(r, q, l, i)
        PROVE  \E rec : /\ Accept(r, rec) /\ rec.page = q /\ rec.todo = {}
                        /\ page[q] = "draft" /\ page' = page /\ rec.pc = "upsert"
    <3> DEFINE rec == [IdleReq EXCEPT !.op = "restore", !.pc = "upsert", !.page = q,
                                      !.lang = l, !.text = EntryBody(<<q, l>>, i)]
    <3>1. rec.page = q /\ rec.pc = "upsert" /\ rec.todo = {}
      BY DEF IdleReq
    <3>2. Accept(r, rec) /\ page[q] = "draft" /\ page' = page
      BY <2>3 DEF RestoreVersion, Editable, dbVars
    <3> HIDE DEF rec
    <3> QED  BY <3>1, <3>2
  <2>4. ASSUME NEW op, ChangeStatus(r, q, op)
        PROVE  \E rec : /\ Accept(r, rec) /\ rec.page = q /\ rec.todo = {}
                        /\ page' = page /\ rec.pc = "page"
    <3> DEFINE rec == [IdleReq EXCEPT !.op = op, !.pc = "page", !.page = q]
    <3>1. rec.page = q /\ rec.pc = "page" /\ rec.todo = {}
      BY DEF IdleReq
    <3>2. Accept(r, rec) /\ page' = page
      BY <2>4 DEF ChangeStatus, dbVars
    <3> HIDE DEF rec
    <3> QED  BY <3>1, <3>2
  <2> QED  BY <1>1, <2>1, <2>2, <2>3, <2>4
<1>3. UNCHANGED <<version, history, overwritten>>
  BY <1>1 DEF CreatePage, UpdatePage, RestoreVersion, ChangeStatus, dbVars, ghosts
<1>4. PICK rec : /\ Accept(r, rec) /\ rec.page = q /\ rec.todo = {}
                 /\ \/ /\ page[q] = None /\ page' = [page EXCEPT ![q] = "draft"]
                       /\ rec.pc = "upsert"
                    \/ page[q] = "draft" /\ page' = page /\ rec.pc \in {"read", "upsert"}
                    \/ page' = page /\ rec.pc = "page"
  BY <1>2
<1>5. /\ req[r].pc = "idle" /\ req'[r] = rec
      /\ \A x \in Requests \ {r} : req'[x] = req[x]
  BY <1>0, <1>4 DEF Accept, At, RequestsOK
<1> SUFFICES ASSUME p \notin disturbed'  PROVE PageOK(p)'
  BY DEF PageInv
<1>6. CASE p # q
  <2>1. p \notin disturbed
    BY <1>4, <1>6 DEF Accept
  <2>2. page'[p] = page[p]
    BY <1>0, <1>4, <1>6 DEF TablesOK
  <2>3. \A x \in Requests : x \in Serving(p) \union Serving(p)' => req'[x] = req[x]
    BY <1>4, <1>5, <1>6 DEF Serving, At
  <2> QED  BY <1>0, <1>3, <2>1, <2>2, <2>3, PageStands DEF PageInv
<1>7. CASE p = q
  <2>1. Serving(p) = {}
    BY <1>4, <1>7 DEF Accept
  <2>2. Serving(p)' \subseteq {r} /\ req'[r].page = p
    BY <1>4, <1>5, <1>7, <2>1 DEF Serving, At
  <2>3. StageOK(r, p)'
    <3>1. page' = [page EXCEPT ![q] = "draft"] => page'[p] = "draft"
      BY <1>0, <1>7 DEF TablesOK
    <3> QED  BY <1>4, <1>5, <1>7, <3>1 DEF StageOK
  <2>4. CASE rec.pc = "page"
    <3>1. \A v : ToRecord(r, v)'
      BY <1>5, <2>4 DEF ToRecord
    <3>2. PageWith(r, p)'
      BY <1>5, <2>3, <2>4, <3>1 DEF PageWith
    <3> QED  BY <2>2, <3>2, SoleRequestMoves, NewRequestType
  <2>5. CASE rec.pc # "page"
    <3>1. p \notin disturbed
      BY <1>4, <1>7, <2>1, <2>5 DEF Accept
    <3>2. \A v \in VersionsOn(p) : version[v] # None => version[v].status = page[p]
      BY <2>1, <3>1 DEF PageInv, PageOK
    <3>3. page'[p] = "draft"
      BY <1>0, <1>4, <1>7, <2>5 DEF TablesOK
    <3>4. page[p] # "draft" => \A v \in VersionsOn(p) : version[v] = None
      <4>1. page[p] # "draft" => page[p] = None
        BY <1>4, <1>7, <2>5
      <4>2. \A v \in VersionsOn(p) : version[v] # None => version[v].status # None
        BY <1>0, DistinctAssumption DEF TablesOK, Versioned, VersionsOn
      <4> QED  BY <3>2, <4>1, <4>2
    <3>5. \A v \in VersionsOn(p) : ~ AsPublished(v)'
      BY <3>3 DEF AsPublished, Published, VersionsOn
    <3>6. PageWith(r, p)'
      BY <1>3, <2>3, <3>2, <3>3, <3>4, <3>5 DEF PageWith, VersionsOn
    <3> QED  BY <2>2, <3>6, SoleRequestMoves, NewRequestType
  <2> QED  BY <2>4, <2>5
<1> QED  BY <1>6, <1>7

\* A step of a request: on its own page, where it is alone, or elsewhere.
LEMMA RequestStepKeepsPage ==
  ASSUME TypeOK, PublishedInv, NEW p \in Pages, PageOK(p),
         NEW r \in Requests, RequestStep(r), RequestsOK'
  PROVE  PageOK(p)'
<1>0. RequestsOK /\ TablesOK /\ RequestOK(req[r]) /\ req[r].pc # "idle"
  BY PartsOfTypeOK
     DEF RequestsOK, RequestStep, ReadVersion, UpsertVersion, SnapshotSaved, SetPageStatus,
         SetVersionStatus, LoadVersions, PublishVersion, DraftVersion, EndPass, Continue, At
<1>1. /\ \A x \in Requests \ {r} : req'[x] = req[x]
      /\ req'[r].pc = "idle" \/ req'[r].page = req[r].page
  <2>1. CASE SnapshotSaved(r) \/ EndPass(r)
    <3>1. Finish(r)
      BY <2>1 DEF SnapshotSaved, EndPass
    <3> QED  BY <1>0, <3>1, FinishFacts DEF Finish, RequestsOK
  <2>2. CASE SetPageStatus(r) \/ SetVersionStatus(r)
    BY <1>0, <2>2 DEF SetPageStatus, SetVersionStatus, Goto, RequestsOK, Request
  <2>3. CASE UpsertVersion(r)
    BY <1>0, <2>3 DEF UpsertVersion, Finish, Goto, RequestsOK, Request, IdleReq
  <2>4. CASE ReadVersion(r) \/ LoadVersions(r)
    BY <1>0, <2>4 DEF ReadVersion, LoadVersions, RequestsOK, Request
  <2>5. ASSUME NEW w \in req[r].todo, PublishVersion(r, w) \/ DraftVersion(r, w)
        PROVE  /\ \A x \in Requests \ {r} : req'[x] = req[x]
               /\ req'[r].page = req[r].page
    BY <1>0, <2>5 DEF PublishVersion, DraftVersion, RequestsOK, Request
  <2> QED  BY <2>1, <2>2, <2>3, <2>4, <2>5 DEF RequestStep
<1>2. CASE req[r].page = p
  <2>1. r \in Serving(p)
    BY <1>0, <1>2 DEF Serving, At
  <2>2. Serving(p) = {r} /\ PageWith(r, p)
    BY <2>1, SoleRequest
  <2>3. PageWith(r, p)'
    BY <1>2, <2>2, EditKeepsPage, StatusStepKeepsPage, PassStepKeepsPage DEF RequestStep
  <2>4. Serving(p)' \subseteq {r}
    BY <1>1, <2>2 DEF Serving, At
  <2> QED  BY <1>1, <1>2, <2>3, <2>4, SoleRequestMoves
<1>3. CASE req[r].page # p
  <2>1. \A x \in Requests : x \in Serving(p) \union Serving(p)' => req'[x] = req[x]
    BY <1>1, <1>3 DEF Serving, At
  <2>2. /\ page'[p] = page[p]
        /\ \A v \in VersionsOn(p) : v \in overwritten' <=> v \in overwritten
    BY <1>0, <1>3
       DEF RequestStep, ReadVersion, UpsertVersion, SnapshotSaved, SetPageStatus,
           SetVersionStatus, LoadVersions, PublishVersion, DraftVersion, EndPass,
           dbVars, ghosts, VersionsOn, TablesOK
  <2>3. ASSUME NEW v \in VersionsOn(p)
        PROVE  version'[v] = version[v] /\ history'[v] = history[v]
    <3>0. v \in Versions /\ v[1] # req[r].page
      BY <1>3, <2>3 DEF VersionsOn
    <3>1. CASE UpsertVersion(r) \/ SnapshotSaved(r)
      <4>1. v # Current(r)
        BY <3>0 DEF Current
      <4> QED  BY <1>0, <3>0, <3>1, <4>1 DEF UpsertVersion, SnapshotSaved, Record, TablesOK
    <3>2. CASE SetVersionStatus(r)
      BY <1>0, <3>0, <3>2 DEF SetVersionStatus, TablesOK
    <3>3. ASSUME NEW w \in req[r].todo, PublishVersion(r, w)
          PROVE  version'[v] = version[v] /\ history'[v] = history[v]
      <4>1. v # w.version
        BY <3>0 DEF PublishedInv, PublishRequests, PublishOK
      <4> QED  BY <1>0, <3>0, <3>3, <4>1 DEF PublishVersion, Record, TablesOK
    <3>4. CASE ReadVersion(r) \/ SetPageStatus(r) \/ LoadVersions(r) \/ EndPass(r)
      BY <3>4 DEF ReadVersion, SetPageStatus, LoadVersions, EndPass, dbVars
    <3>5. ASSUME NEW w \in req[r].todo, DraftVersion(r, w)
          PROVE  version'[v] = version[v] /\ history'[v] = history[v]
      BY <3>5 DEF DraftVersion, dbVars
    <3> QED  BY <3>1, <3>2, <3>3, <3>4, <3>5 DEF RequestStep
  <2> QED  BY <1>0, <2>1, <2>2, <2>3, PageStands
<1> QED  BY <1>2, <1>3

\* A statement that fails marks the page of its request.
LEMMA CutShortKeepsPage ==
  ASSUME TypeOK, PublishedInv, NEW p \in Pages, PageInv(p),
         NEW r \in Requests, RequestFails(r) \/ PassFails(r)
  PROVE  PageInv(p)'
<1> SUFFICES ASSUME p \notin disturbed'  PROVE PageOK(p)'
  BY DEF PageInv
<1>0. RequestsOK /\ UNCHANGED <<page, version, history, overwritten>>
  BY PartsOfTypeOK DEF RequestFails, PassFails, dbVars, ghosts
<1>1. p \notin disturbed /\ req[r].page # p
  BY DEF RequestFails, PassFails, CutShort
<1>2. /\ \A x \in Requests \ {r} : req'[x] = req[x]
      /\ req'[r].pc = "idle" \/ req'[r].page = req[r].page
  BY <1>0 DEF RequestFails, PassFails, Finish, RequestsOK, Request, IdleReq
<1>3. \A x \in Requests : x \in Serving(p) \union Serving(p)' => req'[x] = req[x]
  BY <1>1, <1>2 DEF Serving, At
<1> QED  BY <1>0, <1>1, <1>3, PageStands DEF PageInv

LEMMA PageStep ==
  ASSUME TypeOK, PublishedInv, NEW p \in Pages, PageInv(p), [Next]_allVars
  PROVE  PageInv(p)'
<1>0. RequestsOK /\ TablesOK /\ RequestsOK'
  BY TypeStep, PartsOfTypeOK DEF TypeOK, RequestsOK, RequestOK
<1>1. CASE UNCHANGED <<dbVars, req, disturbed>>
  BY <1>0, <1>1, PageStands DEF PageInv, dbVars, ghosts
<1>2. ASSUME NEW r \in Requests, RequestStep(r)  PROVE PageInv(p)'
  <2>1. disturbed' = disturbed
    BY <1>2
       DEF RequestStep, ReadVersion, UpsertVersion, SnapshotSaved, SetPageStatus,
           SetVersionStatus, LoadVersions, PublishVersion, DraftVersion, EndPass, Continue
  <2> QED  BY <1>0, <1>2, <2>1, RequestStepKeepsPage DEF PageInv
<1>3. ASSUME NEW v \in Versions, NEW c \in Contents, WriteCanvas(v, c)  PROVE PageInv(p)'
  <2>1. disturbed' = disturbed
    BY <1>3 DEF WriteCanvas
  <2> QED  BY <1>3, <2>1, CanvasKeepsPage DEF PageInv
<1>4. CASE Restart
  <2>1. /\ UNCHANGED dbVars /\ Serving(p)' = {}
        /\ p \notin disturbed' => p \notin disturbed /\ Serving(p) = {}
    BY <1>4 DEF Restart, Forget, Serving, At, IdleReq
  <2> QED  BY <1>0, <2>1, PageStands DEF PageInv, dbVars, ghosts
<1>5. ASSUME \/ \E q \in Pages : TaskFails(q) \/ \E j \in Jobs : StartPipeline(q, j)
             \/ \E j \in Jobs : Reindex(j) \/ Pipeline(j) \/ PipelineFails(j)
             \/ \E v \in Versions : DeliverEvent(v) \/ LoseEvent(v)
             \/ UNCHANGED allVars
      PROVE  UNCHANGED <<dbVars, req, disturbed>>
  BY <1>5 DEF TaskFails, StartPipeline, TaskReads, Reindex, Pipeline, PipelineFails,
              DeliverEvent, LoseEvent, allVars
<1> QED
  BY <1>1, <1>2, <1>3, <1>4, <1>5, NewRequestKeepsPage, CutShortKeepsPage DEF Next, Serve

LEMMA PagesInOrder == Spec => []\A p \in Pages : PageInv(p)
<1>1. Init => \A p \in Pages : PageInv(p)
  BY DEF Init, PageInv, PageOK, Serving, At, IdleReq, AsPublished, Published, VersionsOn
<1>2. TypeOK /\ PublishedInv /\ (\A p \in Pages : PageInv(p)) /\ [Next]_allVars
        => (\A p \in Pages : PageInv(p))'
  <2> SUFFICES ASSUME TypeOK, PublishedInv, \A p \in Pages : PageInv(p), [Next]_allVars,
                      NEW p \in Pages
               PROVE  PageInv(p)'
    OBVIOUS
  <2> QED  BY PageStep
<1> QED  BY <1>1, <1>2, LifecycleTypeCorrect, PublishedInvariant, PTL DEF Spec

\* publish and draft cascade (publish_page.rs, draft_page.rs): between requests,
\* every version has the status of its page, whatever the tasks and the editor do
\* and whatever happens on other pages, unless a request on the page was cut short
\* or met by another since its last publish or draft.
THEOREM StatusFollowsPage == Spec => []StatusAgrees
<1>1. (\A p \in Pages : PageInv(p)) => StatusAgrees
  BY DEF PageInv, PageOK, StatusAgrees, Undisturbed, VersionsOn, Versions
<1> QED  BY <1>1, PagesInOrder, PTL

\* publish_page.rs snapshots what it publishes: between requests, the newest
\* snapshot of a version that is as published is a published one of the body it
\* has, with the same exception.
THEOREM PublishIsRecorded == Spec => []PublishedIsRecorded
<1>1. (\A p \in Pages : PageInv(p)) => PublishedIsRecorded
  <2> SUFFICES ASSUME \A p \in Pages : PageInv(p), NEW v \in Versions,
                      Undisturbed(v[1]), AsPublished(v)
               PROVE  Recorded(v)
    BY DEF PublishedIsRecorded, Recorded
  <2>1. v[1] \in Pages /\ v \in VersionsOn(v[1])
    BY DEF Versions, VersionsOn
  <2> QED  BY <2>1 DEF PageInv, PageOK, Undisturbed
<1> QED  BY <1>1, PagesInOrder, PTL

-----------------------------------------------------------------------------
(* What is published comes to be indexed *)

\* The rows of v are the first n sections of body c, each of them once.
SectionsAre(v, c, n) ==
  /\ \A row \in RowsOf(v) : row.section \in 1..n /\ row.text = c
  /\ \A s \in 1..n : \E row \in RowsOf(v) : row.section = s
  /\ \A x, y \in RowsOf(v) : x.section = y.section => x = y

AllThere(v) == SectionsAre(v, version[v].text, Sections[version[v].text])

Unnamed(q, v) == \A w \in q : w.version # v

\* Where the rows of v are: still to be written by task j, being written, or all
\* there, in which case the task holds no body that could replace them.
Queued(j, v)  == Holding(v) \in job[j].queue
Working(j, v) == /\ job[j].pc \in {"produce", "insert"}
                 /\ job[j].work = Holding(v)
                 /\ Unnamed(job[j].queue, v)
                 /\ SectionsAre(v, version[v].text, job[j].inserted)
Settled(j, v) == /\ AllThere(v)
                 /\ Unnamed(job[j].queue, v)
                 /\ job[j].work = NoWork \/ job[j].work.version # v

InHand(j, v)  == Queued(j, v) \/ Working(j, v) \/ Settled(j, v)

\* The same of all the tasks: one is at it, or all is there and none holds it.
BeingIndexed(v) == \/ \E j \in Jobs : Queued(j, v) \/ Working(j, v)
                   \/ AllThere(v) /\ \A j \in Jobs : v \notin Held(job[j])

\* A pass that may still spawn a task, or a task that is still to read.
Passing(r)  == \/ req[r].pc = "page"
               \/ req[r].op = "publish" /\ req[r].pc \in {"versions", "load", "each"}
Expected(v) == tasks[v[1]] > 0 \/ \E r \in Serving(v[1]) : Passing(r)

IdleJobsHoldNothing == \A j \in Jobs : job[j].pc = "idle" => job[j].queue = {}

HeldByOne == \A v \in Versions \ contested, j, k \in Jobs :
               v \in Held(job[j]) /\ v \in Held(job[k]) => j = k

IndexedInv == /\ IdleJobsHoldNothing
              /\ HeldByOne
              /\ \A v \in Versions : ToIndex(v) => Expected(v) \/ BeingIndexed(v)

\* What is not held is neither in the batch nor in hand.
LEMMA NotHeld ==
  ASSUME IndexTypeOK, NEW j \in Jobs, NEW v
  PROVE  v \notin Held(job[j]) <=> /\ Unnamed(job[j].queue, v)
                                   /\ job[j].work = NoWork \/ job[j].work.version # v
<1>1. \A w \in job[j].queue : w # NoWork
  BY NoWorkAssumption DEF IndexTypeOK, JobState, Batch
<1> QED  BY <1>1 DEF Held, Unnamed

LEMMA HoldersHold ==
  ASSUME IndexTypeOK, NEW j \in Jobs, NEW v \in Versions, version[v] \in Versioned,
         Queued(j, v) \/ Working(j, v)
  PROVE  v \in Held(job[j])
<1>1. Holding(v) \in Work /\ Holding(v).version = v
  BY DEF Holding, Work, Versioned
<1> QED  BY <1>1, NotHeld, NoWorkAssumption DEF Queued, Working, Unnamed

LEMMA IdleHoldsNothing ==
  ASSUME IndexTypeOK, IdleJobsHoldNothing, NEW j \in Jobs, job[j].pc = "idle"
  PROVE  Held(job[j]) = {} /\ \A v : ~ Queued(j, v) /\ ~ Working(j, v)
BY DEF IndexTypeOK, JobOK, IdleJobsHoldNothing, Held, Queued, Working

\* A row more: section n + 1.
LEMMA OneSectionMore ==
  ASSUME NEW v, NEW c, NEW n \in Nat, SectionsAre(v, c, n), NEW row,
         row.version = v, row.section = n + 1, row.text = c,
         chunks' = chunks \union {row}
  PROVE  SectionsAre(v, c, n + 1)'
<1>1. RowsOf(v)' = RowsOf(v) \union {row}
  BY DEF RowsOf
<1>2. \A x \in RowsOf(v) : x.section \in 1..n
  BY DEF SectionsAre
<1>3. \A x \in RowsOf(v)' : x.section \in 1..(n + 1) /\ x.text = c
  BY <1>1, <1>2 DEF SectionsAre
<1>4. ASSUME NEW s \in 1..(n + 1)  PROVE  \E x \in RowsOf(v)' : x.section = s
  <2>1. CASE s \in 1..n
    BY <1>1, <2>1 DEF SectionsAre
  <2>2. CASE s = n + 1
    BY <1>1, <2>2
  <2> QED  BY <2>1, <2>2
<1>5. \A x, y \in RowsOf(v)' : x.section = y.section => x = y
  <2>1. \A x \in RowsOf(v) : x.section # n + 1
    BY <1>2
  <2> QED  BY <1>1, <2>1 DEF SectionsAre
<1> QED  BY <1>3, <1>4, <1>5 DEF SectionsAre

\* A task goes on with a version it has in hand until its rows are there.
LEMMA TaskInHand ==
  ASSUME IndexTypeOK, NEW j \in Jobs, NEW v \in Versions, version[v] \in Versioned,
         InHand(j, v), Pipeline(j)
  PROVE  InHand(j, v)'
<1> PICK c : c = version[v].text
  OBVIOUS
<1>0. /\ job \in [Jobs -> JobState] /\ JobOK(job[j]) /\ c \in Contents
      /\ version' = version /\ version'[v].text = c /\ Holding(v)' = Holding(v) /\ Holding(v).version = v
      /\ Holding(v).text = c /\ Holding(v) # NoWork
  BY NoWorkAssumption DEF IndexTypeOK, Versioned, Pipeline, dbVars, Holding, Work
<1>1. CASE Delete(j)
  <2>1. PICK w \in job[j].queue :
          /\ DeleteRows(w.version)
          /\ job' = [job EXCEPT ![j] =
               IF Sections[w.text] = 0
                 THEN NextOf(@.queue \ {w})
                 ELSE [NextOf(@.queue \ {w}) EXCEPT !.pc = "produce", !.work = w]]
    BY <1>1 DEF Delete
  <2>2. /\ job'[j].queue = job[j].queue \ {w}
        /\ Sections[w.text] = 0 => job'[j].work = NoWork
        /\ Sections[w.text] # 0 => /\ job'[j].pc = "produce" /\ job'[j].work = w
                                   /\ job'[j].inserted = 0
    BY <1>0, <2>1 DEF NextOf, Unoccupied
  <2>3. job[j].queue \in Batch /\ w \in Work
    BY <1>0 DEF JobState, Batch
  <2>4. ~ Working(j, v)
    BY <1>1 DEF Delete, Working
  <2>5. CASE w.version = v
    <3>1. w = Holding(v)
      BY <1>0, <2>3, <2>4, <2>5 DEF InHand, Queued, Settled, Unnamed, Batch
    <3>2. Unnamed(job[j].queue \ {w}, v)
      BY <2>3, <2>5 DEF Unnamed, Batch
    <3>3. RowsOf(v)' = {}
      BY <2>1, <2>5 DEF DeleteRows, RowsOf
    <3>4. SectionsAre(v, c, 0)'
      BY <3>3 DEF SectionsAre
    <3>5. CASE Sections[c] = 0
      BY <1>0, <2>2, <3>1, <3>2, <3>4, <3>5 DEF InHand, Settled, AllThere
    <3>6. CASE Sections[c] # 0
      BY <1>0, <2>2, <3>1, <3>2, <3>4, <3>6 DEF InHand, Working
    <3> QED  BY <3>5, <3>6
  <2>6. CASE w.version # v
    <3>1. CASE Queued(j, v)
      BY <1>0, <2>2, <2>6, <3>1 DEF InHand, Queued
    <3>2. CASE Settled(j, v)
      <4>1. RowsOf(v)' = RowsOf(v)
        BY <2>1, <2>6 DEF DeleteRows, RowsOf
      <4>2. SectionsAre(v, c, Sections[c])'
        BY <3>2, <4>1 DEF Settled, AllThere, SectionsAre
      <4>3. Unnamed(job'[j].queue, v)
        BY <2>2, <3>2 DEF Settled, Unnamed
      <4> QED  BY <1>0, <2>2, <2>6, <4>2, <4>3 DEF InHand, Settled, AllThere
    <3> QED  BY <2>4, <3>1, <3>2 DEF InHand
  <2> QED  BY <2>5, <2>6
<1>2. CASE Produce(j)
  <2>1. /\ chunks' = chunks /\ job[j].pc = "produce"
        /\ job'[j].pc \in {"produce", "insert"} /\ job'[j].queue = job[j].queue
        /\ job'[j].work = job[j].work /\ job'[j].inserted = job[j].inserted
    BY <1>0, <1>2 DEF Produce, JobState
  <2>2. \A n : SectionsAre(v, c, n) => SectionsAre(v, c, n)'
    BY <2>1 DEF SectionsAre, RowsOf
  <2> QED  BY <1>0, <2>1, <2>2 DEF InHand, Queued, Working, Settled, AllThere
<1>3. CASE Insert(j)
  <2> PICK n : n = job[j].inserted
    OBVIOUS
  <2> DEFINE w   == job[j].work
             row == [version |-> w.version, section |-> n + 1, text |-> w.text,
                     offset |-> job[j].recs[n + 1]]
  <2>1. /\ chunks' = chunks \union {row} /\ job[j].pc = "insert" /\ n \in Nat
        /\ w \in Work /\ Len(job[j].recs) = Sections[w.text]
    BY <1>0, <1>3 DEF Insert, JobOK, JobState
  <2>2. /\ job'[j].queue = job[j].queue
        /\ n + 1 = Sections[w.text] => job'[j].work = NoWork
        /\ n + 1 # Sections[w.text] => /\ job'[j].pc = "insert" /\ job'[j].work = w
                                       /\ job'[j].inserted = n + 1
    BY <1>0, <1>3, <2>1 DEF Insert, JobState, NextOf, Unoccupied
  <2>3. CASE Queued(j, v)
    BY <1>0, <2>2, <2>3 DEF InHand, Queued
  <2>4. CASE Working(j, v)
    <3>1. SectionsAre(v, c, n + 1)'
      <4>1. SectionsAre(v, c, n) /\ w.version = v /\ w.text = c
        BY <1>0, <2>4 DEF Working
      <4>2. row.version = v /\ row.section = n + 1 /\ row.text = c
        BY <4>1
      <4> HIDE DEF row
      <4> QED  BY <2>1, <4>1, <4>2, OneSectionMore
    <3>2. w = Holding(v) /\ Unnamed(job'[j].queue, v)
      BY <2>2, <2>4 DEF Working
    <3>3. CASE n + 1 = Sections[c]
      BY <1>0, <2>2, <3>1, <3>2, <3>3 DEF InHand, Settled, AllThere
    <3>4. CASE n + 1 # Sections[c]
      BY <1>0, <2>2, <3>1, <3>2, <3>4 DEF InHand, Working
    <3> QED  BY <3>3, <3>4
  <2>5. CASE Settled(j, v)
    <3>1. w.version # v
      BY <2>1, <2>5, NoWorkAssumption DEF Settled
    <3>2. RowsOf(v)' = RowsOf(v)
      BY <2>1, <3>1 DEF RowsOf
    <3>3. SectionsAre(v, c, Sections[c])' /\ Unnamed(job'[j].queue, v)
      BY <2>2, <2>5, <3>2 DEF Settled, AllThere, SectionsAre
    <3>4. job'[j].work = NoWork \/ job'[j].work.version # v
      BY <2>2, <3>1
    <3> QED  BY <1>0, <3>3, <3>4 DEF InHand, Settled, AllThere
  <2> QED  BY <2>3, <2>4, <2>5 DEF InHand
<1>4. CASE EndJob(j) \/ (InsertFails(j) /\ Conflicts(job[j].work.version, job[j].inserted + 1))
  <2>1. /\ chunks' = chunks /\ job'[j].queue = job[j].queue /\ job'[j].work = NoWork
    <3>1. CASE EndJob(j)
      BY <1>0, <3>1 DEF EndJob, IdleJob, Unoccupied
    <3>2. CASE InsertFails(j)
      BY <1>0, <3>2 DEF InsertFails, NextOf, Unoccupied
    <3> QED  BY <1>4, <3>1, <3>2
  <2>2. ~ Working(j, v)
    <3>1. ASSUME Working(j, v)  PROVE FALSE
      <4>1. Conflicts(v, job[j].inserted + 1)
        BY <1>0, <1>4, <3>1 DEF Working, EndJob
      <4>2. PICK row \in RowsOf(v) : row.section = job[j].inserted + 1
        BY <4>1 DEF Conflicts, RowsOf
      <4>3. job[j].inserted \in Nat /\ row.section \in 1..job[j].inserted
        BY <1>0, <3>1, <4>2 DEF Working, SectionsAre, JobState
      <4> QED  BY <4>2, <4>3
    <3> QED  BY <3>1
  <2>3. SectionsAre(v, c, Sections[c]) => SectionsAre(v, c, Sections[c])'
    BY <2>1 DEF SectionsAre, RowsOf
  <2> QED  BY <1>0, <2>1, <2>2, <2>3 DEF InHand, Queued, Settled, AllThere
<1> QED  BY <1>1, <1>2, <1>3, <1>4 DEF Pipeline

\* Rows and tasks as they were, as far as v is concerned.
LEMMA BeingIndexedStands ==
  ASSUME NEW v, BeingIndexed(v), UNCHANGED <<version[v], RowsOf(v)>>,
         \A j \in Jobs : Queued(j, v) \/ Working(j, v) => job'[j] = job[j],
         \A j \in Jobs : v \notin Held(job[j]) => v \notin Held(job'[j])
  PROVE  BeingIndexed(v)'
<1>1. Holding(v)' = Holding(v)
  BY DEF Holding
<1>2. \A c, n : SectionsAre(v, c, n) => SectionsAre(v, c, n)'
  BY DEF SectionsAre
<1>3. AllThere(v) => AllThere(v)'
  BY <1>2 DEF AllThere
<1>4. ASSUME NEW j \in Jobs, Queued(j, v) \/ Working(j, v)
      PROVE  Queued(j, v)' \/ Working(j, v)'
  <2>1. job'[j] = job[j]
    BY <1>4
  <2> QED  BY <1>1, <1>2, <1>4, <2>1 DEF Queued, Working
<1> QED  BY <1>3, <1>4 DEF BeingIndexed

\* A step that leaves the tasks alone, and of v the body, the rows, the requests
\* that may spawn a task and the tasks spawned.
LEMMA VersionStands ==
  ASSUME IndexedInv, NEW v \in Versions, ToIndex(v), job' = job,
         UNCHANGED <<version[v], RowsOf(v)>>, Expected(v) => Expected(v)'
  PROVE  Expected(v)' \/ BeingIndexed(v)'
<1>1. CASE Expected(v)
  BY <1>1
<1>2. CASE BeingIndexed(v)
  BY <1>2, BeingIndexedStands
<1> QED  BY <1>1, <1>2 DEF IndexedInv

\* A task's step: it holds no more than before, and leaves alone what it does not
\* hold.
LEMMA TaskHoldsLess ==
  ASSUME IndexTypeOK, NEW j \in Jobs, JobStep(j)
  PROVE  /\ \A k \in Jobs \ {j} : job'[k] = job[k]
         /\ Held(job'[j]) \subseteq Held(job[j])
         /\ \A v : v \notin Held(job[j]) => RowsOf(v)' = RowsOf(v)
<1>0. job \in [Jobs -> JobState] /\ job[j] \in JobState /\ JobOK(job[j])
  BY DEF IndexTypeOK
<1>1. \A k \in Jobs \ {j} : job'[k] = job[k]
  BY <1>0 DEF JobStep, Delete, DeleteFails, Produce, ProduceFails, Insert, InsertFails, EndJob
<1>2. Held(job'[j]) \subseteq Held(job[j])
  BY TasksTakeFromTheirBatch DEF Held
<1>3. ASSUME NEW v, v \notin Held(job[j])  PROVE RowsOf(v)' = RowsOf(v)
  <2>1. CASE Delete(j)
    <3>1. PICK w \in job[j].queue : DeleteRows(w.version)
      BY <2>1 DEF Delete
    <3>2. w.version # v
      BY <1>3, NotHeld DEF Unnamed
    <3> QED  BY <3>1, <3>2 DEF DeleteRows, RowsOf
  <2>2. CASE Insert(j)
    <3>1. job[j].work \in Work /\ job[j].work.version # v
      BY <1>0, <1>3, <2>2, NotHeld, NoWorkAssumption DEF Insert, JobOK
    <3> QED  BY <2>2, <3>1 DEF Insert, RowsOf
  <2>3. CASE chunks' = chunks
    BY <2>3 DEF RowsOf
  <2> QED
    BY <2>1, <2>2, <2>3
       DEF JobStep, DeleteFails, Produce, ProduceFails, InsertFails, EndJob
<1> QED  BY <1>1, <1>2, <1>3

LEMMA IdleAfterTask ==
  ASSUME IndexTypeOK, IdleJobsHoldNothing, NEW j \in Jobs, JobStep(j)
  PROVE  IdleJobsHoldNothing'
<1>0. job \in [Jobs -> JobState] /\ job[j] \in JobState
  BY DEF IndexTypeOK
<1>1. ASSUME NEW q, job' = [job EXCEPT ![j] = NextOf(q)]  PROVE job'[j].pc = "next"
  BY <1>0, <1>1 DEF NextOf, Unoccupied
<1>2. job'[j].pc = "idle" => job'[j].queue = {}
  <2>1. CASE Delete(j)
    BY <1>0, <2>1 DEF Delete, NextOf, Unoccupied
  <2>2. CASE Produce(j)
    BY <1>0, <2>2 DEF Produce, JobState
  <2>3. CASE Insert(j)
    BY <1>0, <2>3 DEF Insert, NextOf, Unoccupied, JobState
  <2>4. CASE DeleteFails(j) \/ ProduceFails(j) \/ InsertFails(j)
    BY <1>0, <2>4 DEF DeleteFails, ProduceFails, InsertFails, NextOf, Unoccupied
  <2>5. CASE EndJob(j)
    BY <1>0, <2>5 DEF EndJob, IdleJob, Unoccupied
  <2> QED  BY <2>1, <2>2, <2>3, <2>4, <2>5 DEF JobStep
<1> QED  BY <1>2, TaskHoldsLess DEF IdleJobsHoldNothing

\* A task that fails has given up the version, or still has it in its batch.
LEMMA FailureInHand ==
  ASSUME IndexTypeOK, NEW j \in Jobs, NEW v \in Versions,
         DeleteFails(j) \/ ProduceFails(j) \/ InsertFails(j),
         UNCHANGED version[v], v \in Held(job'[j]), Queued(j, v) \/ Working(j, v)
  PROVE  Queued(j, v)'
<1>0. job \in [Jobs -> JobState] /\ Holding(v)' = Holding(v) /\ Holding(v).version = v
  BY DEF IndexTypeOK, Holding
<1>1. CASE DeleteFails(j)
  <2>1. PICK w \in job[j].queue : job' = [job EXCEPT ![j] = NextOf(job[j].queue \ {w})]
    BY <1>0, <1>1 DEF DeleteFails
  <2>2. job'[j].queue = job[j].queue \ {w} /\ job'[j].work = NoWork
    BY <1>0, <2>1 DEF NextOf, Unoccupied
  <2>3. Queued(j, v)
    BY <1>1 DEF DeleteFails, Working
  <2>4. PICK x \in job[j].queue \ {w} : x.version = v
    BY <2>2 DEF Held
  <2>5. x = Holding(v)
    BY <1>0, <2>3, <2>4 DEF Queued, JobState, Batch
  <2> QED  BY <1>0, <2>2, <2>4, <2>5 DEF Queued
<1>2. CASE ProduceFails(j) \/ InsertFails(j)
  <2>1. job'[j].queue = job[j].queue /\ job'[j].work = NoWork
    BY <1>0, <1>2 DEF ProduceFails, InsertFails, NextOf, Unoccupied
  <2>2. ~ Unnamed(job[j].queue, v)
    BY <2>1 DEF Held, Unnamed
  <2> QED  BY <1>0, <2>1, <2>2 DEF Queued, Working
<1> QED  BY <1>1, <1>2

\* The step of a task and a version that no other task holds.
LEMMA TaskIndexes ==
  ASSUME TypeOK, IndexedInv, NEW j \in Jobs, Pipeline(j) \/ PipelineFails(j),
         NEW v \in Versions, v \notin contested', version[v] \in Versioned, BeingIndexed(v)
  PROVE  BeingIndexed(v)'
<1>0. /\ IndexTypeOK /\ IndexTypeOK' /\ JobStep(j) /\ UNCHANGED version
      /\ v \notin contested
  <2>1. JobStep(j) /\ UNCHANGED version /\ v \notin contested
    BY DEF Pipeline, PipelineFails, GiveUp, JobStep, dbVars
  <2> QED  BY <2>1, IndexTypeStep DEF TypeOK, IndexNext
<1>1. /\ \A k \in Jobs \ {j} : job'[k] = job[k]
      /\ Held(job'[j]) \subseteq Held(job[j])
      /\ v \notin Held(job[j]) => RowsOf(v)' = RowsOf(v)
  BY <1>0, TaskHoldsLess
<1>2. CASE v \notin Held(job[j])
  <2>1. ~ Queued(j, v) /\ ~ Working(j, v)
    BY <1>0, <1>2, HoldersHold
  <2> QED  BY <1>0, <1>1, <1>2, <2>1, BeingIndexedStands
<1>3. CASE v \in Held(job[j])
  <2>1. \A k \in Jobs \ {j} : v \notin Held(job[k])
    BY <1>0, <1>3 DEF IndexedInv, HeldByOne
  <2>2. Queued(j, v) \/ Working(j, v)
    BY <1>0, <1>3, <2>1, HoldersHold DEF BeingIndexed
  <2>3. CASE Pipeline(j)
    <3>1. InHand(j, v)'
      BY <1>0, <2>2, <2>3, TaskInHand DEF InHand
    <3>2. Settled(j, v)' => AllThere(v)' /\ \A k \in Jobs : v \notin Held(job'[k])
      <4>1. Settled(j, v)' => v \notin Held(job'[j])
        <5>1. \A w \in job'[j].queue : w # NoWork
          BY <1>0, NoWorkAssumption DEF IndexTypeOK, JobState, Batch
        <5> QED  BY <5>1 DEF Settled, Held, Unnamed
      <4> QED  BY <1>1, <2>1, <4>1 DEF Settled
    <3> QED  BY <3>1, <3>2 DEF InHand, BeingIndexed
  <2>4. CASE PipelineFails(j)
    <3>1. v \in Held(job'[j])
      BY <1>3, <2>4 DEF PipelineFails, GiveUp
    <3> QED  BY <1>0, <2>2, <2>4, <3>1, FailureInHand DEF PipelineFails, BeingIndexed
  <2> QED  BY <2>3, <2>4
<1> QED  BY <1>2, <1>3

\* A task that is given a batch: what is in it is queued, and the rest stays as
\* it was.
LEMMA TakenUp ==
  ASSUME TypeOK, IndexedInv, NEW j \in Jobs, NEW q \in Batch, TakeUp(j, q),
         NEW v \in Versions, version[v] \in Versioned, UNCHANGED version[v],
         Holding(v) \in q \/ (Unnamed(q, v) /\ BeingIndexed(v))
  PROVE  BeingIndexed(v)'
<1>0. /\ IndexTypeOK /\ job[j].pc = "idle" /\ job' = [job EXCEPT ![j] = NextOf(q)]
      /\ job \in [Jobs -> JobState] /\ chunks' = chunks
  BY DEF TypeOK, TakeUp, StartJob, IndexTypeOK
<1>1. job'[j].queue = q /\ job'[j].work = NoWork /\ \A k \in Jobs \ {j} : job'[k] = job[k]
  BY <1>0 DEF NextOf, Unoccupied
<1>2. CASE Holding(v) \in q
  <2>1. Holding(v)' = Holding(v)
    BY DEF Holding
  <2> QED  BY <1>1, <1>2, <2>1 DEF Queued, BeingIndexed
<1>3. CASE Unnamed(q, v) /\ BeingIndexed(v)
  <2>1. \A k \in Jobs : Queued(k, v) \/ Working(k, v) => job'[k] = job[k]
    BY <1>0, <1>1, IdleHoldsNothing DEF IndexedInv
  <2>2. v \notin Held(job'[j])
    BY <1>1, <1>3 DEF Held, Unnamed
  <2>3. RowsOf(v)' = RowsOf(v)
    BY <1>0 DEF RowsOf
  <2> QED  BY <1>1, <1>3, <2>1, <2>2, <2>3, BeingIndexedStands
<1> QED  BY <1>2, <1>3

\* A request that comes changes the page at most, and what it is asked to do.
LEMMA NewRequestLeaves ==
  ASSUME NEW r \in Requests, NewRequest(r)
  PROVE  /\ UNCHANGED <<indexVars, version, overwritten, sent, contested, faults>>
         /\ served' = served + 1
<1> DEFINE Leaves ==
      /\ UNCHANGED <<indexVars, version, overwritten, sent, contested, faults>>
      /\ served' = served + 1
<1>1. PICK p \in Pages :
        \/ \E l \in Languages :
             \/ \E c \in Contents : CreatePage(r, p, l, c)
             \/ \E c \in Contents \union {Keep} : UpdatePage(r, p, l, c)
             \/ \E i \in Entries(<<p, l>>) : RestoreVersion(r, p, l, i)
        \/ \E op \in {"publish", "draft"} : ChangeStatus(r, p, op)
  BY DEF NewRequest
<1>2. ASSUME NEW l, NEW c, CreatePage(r, p, l, c)
      PROVE  Leaves
  BY <1>2 DEF CreatePage, Accept, ghosts
<1>3. ASSUME NEW l, NEW c, UpdatePage(r, p, l, c)
      PROVE  Leaves
  BY <1>3 DEF UpdatePage, Accept, dbVars, ghosts
<1>4. ASSUME NEW l, NEW i, RestoreVersion(r, p, l, i)
      PROVE  Leaves
  BY <1>4 DEF RestoreVersion, Accept, dbVars, ghosts
<1>5. ASSUME NEW op, ChangeStatus(r, p, op)
      PROVE  Leaves
  BY <1>5 DEF ChangeStatus, Accept, dbVars, ghosts
<1> QED  BY <1>1, <1>2, <1>3, <1>4, <1>5

\* One task at most holds a version that is not contested.
LEMMA HoldersStep ==
  ASSUME TypeOK, IndexedInv, [Next]_allVars
  PROVE  IdleJobsHoldNothing' /\ HeldByOne'
<1>0. IndexTypeOK /\ IdleJobsHoldNothing /\ HeldByOne /\ job \in [Jobs -> JobState]
  BY DEF TypeOK, IndexTypeOK, IndexedInv
<1>1. CASE job' = job /\ contested \subseteq contested'
  BY <1>0, <1>1 DEF IdleJobsHoldNothing, HeldByOne
<1>2. ASSUME NEW j \in Jobs, Pipeline(j) \/ PipelineFails(j)
      PROVE  IdleJobsHoldNothing' /\ HeldByOne'
  <2>1. JobStep(j) /\ contested \subseteq contested'
    BY <1>2 DEF Pipeline, PipelineFails, GiveUp, JobStep
  <2>2. \A k \in Jobs : Held(job'[k]) \subseteq Held(job[k])
    BY <1>0, <2>1, TaskHoldsLess
  <2> QED  BY <1>0, <2>1, <2>2, IdleAfterTask DEF HeldByOne
<1>3. ASSUME NEW j \in Jobs, NEW q \in Batch, TakeUp(j, q)
      PROVE  IdleJobsHoldNothing' /\ HeldByOne'
  <2>1. /\ Held(job[j]) = {} /\ job'[j] = NextOf(q)
        /\ \A k \in Jobs \ {j} : job'[k] = job[k]
    BY <1>0, <1>3, IdleHoldsNothing DEF TakeUp, StartJob
  <2>2. Held(job'[j]) = {w.version : w \in q}
    <3>1. \A w \in q : w # NoWork
      BY NoWorkAssumption DEF Batch
    <3> QED  BY <2>1, <3>1 DEF Held, NextOf, Unoccupied
  <2>3. IdleJobsHoldNothing'
    BY <1>0, <2>1 DEF IdleJobsHoldNothing, NextOf, Unoccupied
  <2>4. ASSUME NEW v \in Versions, v \notin contested'
        PROVE  \/ v \notin Held(job'[j]) /\ v \notin contested
               \/ \A k \in Jobs : v \notin Held(job[k])
    <3> DEFINE named == {w.version : w \in q}
               held  == UNION {Held(job[k]) : k \in Jobs}
    <3>1. contested' = (contested \ named) \union (named \intersect held)
      BY <1>3 DEF TakeUp
    <3> HIDE DEF held
    <3>2. \/ v \notin named /\ v \notin contested
          \/ v \notin held
      BY <2>4, <3>1
    <3> QED  BY <2>2, <3>2 DEF held
  <2>5. HeldByOne'
    BY <1>0, <2>1, <2>4 DEF HeldByOne
  <2> QED  BY <2>3, <2>5
<1>4. CASE Restart
  <2>1. \A j \in Jobs : job'[j] = IdleJob
    BY <1>4 DEF Restart, StopJobs
  <2> QED  BY <2>1 DEF IdleJobsHoldNothing, HeldByOne, IdleJob, Unoccupied, Held
<1>5. ASSUME NEW r \in Requests,
             NewRequest(r) \/ RequestStep(r) \/ RequestFails(r) \/ PassFails(r)
      PROVE  job' = job /\ contested' = contested
  <2>1. CASE NewRequest(r)
    BY <2>1, NewRequestLeaves DEF indexVars
  <2>2. CASE RequestStep(r)
    BY <2>2
       DEF RequestStep, ReadVersion, UpsertVersion, SnapshotSaved, SetPageStatus,
           SetVersionStatus, LoadVersions, PublishVersion, DraftVersion, EndPass, Continue,
           Clear, indexVars
  <2>3. CASE RequestFails(r) \/ PassFails(r)
    BY <2>3 DEF RequestFails, PassFails, CutShort, indexVars
  <2> QED  BY <1>5, <2>1, <2>2, <2>3
<1>6. ASSUME NEW p \in Pages, TaskFails(p)  PROVE job' = job /\ contested \subseteq contested'
  BY <1>6 DEF TaskFails, indexVars
<1>7. ASSUME NEW v \in Versions,
             DeliverEvent(v) \/ LoseEvent(v) \/ \E c \in Contents : WriteCanvas(v, c)
      PROVE  job' = job /\ contested' = contested
  BY <1>7 DEF DeliverEvent, EventArrives, LoseEvent, WriteCanvas, indexVars
<1>8. CASE UNCHANGED allVars
  BY <1>1, <1>8 DEF allVars, indexVars
<1>9. ASSUME NEW j \in Jobs, Reindex(j) \/ \E p \in Pages : StartPipeline(p, j)
      PROVE  IdleJobsHoldNothing' /\ HeldByOne'
  BY <1>3, <1>9, VersionsAreABatch, PublishedWorkIsABatch DEF Reindex, StartPipeline
<1> QED
  BY <1>1, <1>2, <1>4, <1>5, <1>6, <1>7, <1>8, <1>9 DEF Next, Serve

\* A request that comes to the page of v, or to another.
LEMMA NewRequestIndexes ==
  ASSUME TypeOK, IndexedInv, NEW r \in Requests, NewRequest(r),
         NEW v \in Versions, ToIndex(v)'
  PROVE  Expected(v)' \/ BeingIndexed(v)'
<1>0. RequestsOK /\ TablesOK /\ v[1] \in Pages
  BY PartsOfTypeOK DEF Versions
<1>1. /\ UNCHANGED <<job, chunks, version, overwritten, tasks, contested>>
      /\ page'[v[1]] = "published" => page[v[1]] = "published"
  <2>1. UNCHANGED <<job, chunks, version, overwritten, tasks, contested>>
    BY NewRequestLeaves DEF indexVars, sent
  <2>2. page' = page \/ \E p \in Pages : page' = [page EXCEPT ![p] = "draft"]
    BY DEF NewRequest, CreatePage, UpdatePage, RestoreVersion, ChangeStatus, dbVars
  <2>3. page'[v[1]] = "published" => page[v[1]] = "published"
    BY <1>0, <2>2 DEF TablesOK
  <2> QED  BY <2>1, <2>3
<1>2. PICK rec : Accept(r, rec)
  BY DEF NewRequest, CreatePage, UpdatePage, RestoreVersion, ChangeStatus
<1>3. /\ req[r].pc = "idle" /\ req'[r] = rec
      /\ \A x \in Requests \ {r} : req'[x] = req[x]
  BY <1>0, <1>2 DEF Accept, At, RequestsOK
<1>4. CASE rec.page = v[1] /\ rec.pc = "page"
  BY <1>3, <1>4 DEF Expected, Serving, At, Passing
<1>5. CASE ~ (rec.page = v[1] /\ rec.pc = "page")
  <2>1. v[1] \notin disturbed
    BY <1>2, <1>5 DEF ToIndex, Accept
  <2>2. ToIndex(v)
    BY <1>1, <2>1 DEF ToIndex, AsPublished, Published
  <2>3. RowsOf(v)' = RowsOf(v)
    BY <1>1 DEF RowsOf
  <2>4. Expected(v) => Expected(v)'
    BY <1>1, <1>3 DEF Expected, Serving, At, Passing
  <2> QED  BY <1>1, <2>2, <2>3, <2>4, VersionStands
<1> QED  BY <1>4, <1>5

\* A step of the request on the page of v: the page is a draft, or the request
\* goes on to spawn a task.
LEMMA OwnStepIndexes ==
  ASSUME TypeOK, PublishedInv, NEW r \in Requests, RequestStep(r),
         NEW v \in Versions, req[r].page = v[1], PageInv(v[1]), ToIndex(v)'
  PROVE  Expected(v)'
<1> DEFINE p == v[1]
<1>0. /\ RequestsOK /\ TablesOK /\ TasksOK /\ RequestOK(req[r]) /\ p \in Pages
      /\ UNCHANGED disturbed /\ page'[p] = "published" /\ req[r].pc # "idle"
  BY PartsOfTypeOK
     DEF RequestsOK, RequestStep, ReadVersion, UpsertVersion, SnapshotSaved, SetPageStatus,
         SetVersionStatus, LoadVersions, PublishVersion, DraftVersion, EndPass, Continue, At,
         Versions, ToIndex, AsPublished, Published
<1>1. StageOK(r, p)
  <2>1. p \notin disturbed /\ r \in Serving(p)
    BY <1>0 DEF ToIndex, Serving, At
  <2> QED  BY <2>1 DEF PageInv, PageOK
<1>2. CASE ReadVersion(r) \/ UpsertVersion(r) \/ SnapshotSaved(r)
  BY <1>0, <1>1, <1>2
     DEF ReadVersion, UpsertVersion, SnapshotSaved, Continue, At, StageOK, dbVars
<1>3. ASSUME req'[r].op = "publish", req'[r].pc \in {"versions", "load", "each"},
             req'[r].page = p
      PROVE  Expected(v)'
  BY <1>3 DEF Expected, Serving, At, Passing
<1>4. CASE SetPageStatus(r)
  <2>1. page'[p] = Target(req[r].op)
    BY <1>0, <1>4 DEF SetPageStatus, TablesOK
  <2> QED  BY <1>0, <1>3, <1>4, <2>1, TargetIsPublish, GotoFacts DEF SetPageStatus
<1>5. CASE SetVersionStatus(r)
  <2>1. page'[p] = Target(req[r].op)
    BY <1>1, <1>5 DEF SetVersionStatus, Continue, At, StageOK
  <2> QED  BY <1>0, <1>3, <1>5, <2>1, TargetIsPublish, GotoFacts DEF SetVersionStatus
<1>6. CASE LoadVersions(r)
  <2>1. page'[p] = Target(req[r].op)
    BY <1>1, <1>6 DEF LoadVersions, Continue, At, StageOK
  <2>2. req'[r].pc = "each" /\ req'[r].op = req[r].op /\ req'[r].page = p
    BY <1>0, <1>6 DEF LoadVersions, RequestsOK, Request
  <2> QED  BY <1>0, <1>3, <2>1, <2>2, TargetIsPublish
<1>7. ASSUME NEW w \in req[r].todo, PublishVersion(r, w)  PROVE Expected(v)'
  <2>1. req'[r].pc = "each" /\ req'[r].op = "publish" /\ req'[r].page = p
    BY <1>0, <1>7, TodoFacts DEF PublishVersion, Continue, At
  <2> QED  BY <1>3, <2>1
<1>8. ASSUME NEW w \in req[r].todo, DraftVersion(r, w)  PROVE FALSE
  BY <1>0, <1>1, <1>8 DEF DraftVersion, Continue, At, StageOK, Target, dbVars
<1>9. CASE EndPass(r)
  <2>1. page[p] = Target(req[r].op)
    BY <1>1, <1>9 DEF EndPass, Continue, At, StageOK
  <2>2. req[r].op = "publish"
    BY <1>0, <1>9, <2>1, TargetIsPublish DEF EndPass, dbVars
  <2>3. tasks'[p] = tasks[p] + 1 /\ tasks[p] \in Nat
    BY <1>0, <1>9, <2>2 DEF EndPass, TasksOK
  <2> QED  BY <2>3 DEF Expected
<1> QED  BY <1>2, <1>4, <1>5, <1>6, <1>7, <1>8, <1>9 DEF RequestStep

\* A step, or the failure, of a request on another page.
LEMMA StepElsewhereIndexes ==
  ASSUME TypeOK, PublishedInv, IndexedInv, NEW r \in Requests,
         RequestStep(r) \/ RequestFails(r) \/ PassFails(r),
         NEW v \in Versions, req[r].page # v[1], ToIndex(v)'
  PROVE  Expected(v)' \/ BeingIndexed(v)'
<1> DEFINE p == v[1]
<1>0. RequestsOK /\ TablesOK /\ TasksOK /\ RequestOK(req[r]) /\ p \in Pages
  BY PartsOfTypeOK DEF RequestsOK, Versions
<1>1. /\ page'[p] = page[p] /\ version'[v] = version[v] /\ job' = job
      /\ v \in overwritten' <=> v \in overwritten
      /\ RowsOf(v)' = RowsOf(v) /\ tasks'[p] = tasks[p]
      /\ p \in disturbed => p \in disturbed'
      /\ contested' = contested
  <2>1. CASE UpsertVersion(r)
    <3>1. v # Current(r)
      BY DEF Current
    <3> QED
      BY <1>0, <2>1, <3>1 DEF UpsertVersion, Continue, TablesOK, RowsOf, indexVars, ghosts, sent
  <2>2. CASE EndPass(r)
    BY <1>0, <2>2 DEF EndPass, Continue, TasksOK, RowsOf, indexVars, dbVars, ghosts
  <2>3. ASSUME NEW w \in req[r].todo, DraftVersion(r, w)
        PROVE  /\ UNCHANGED <<dbVars, job, tasks, contested, disturbed>>
               /\ RowsOf(v)' = RowsOf(v)
    <3>1. w.version # v
      BY DEF PublishedInv, PublishRequests, PublishOK
    <3> QED  BY <2>3, <3>1 DEF DraftVersion, Continue, Clear, DeleteRows, RowsOf, sent
  <2>4. CASE SetPageStatus(r) \/ SetVersionStatus(r) \/ LoadVersions(r)
    BY <1>0, <2>4 DEF SetPageStatus, SetVersionStatus, LoadVersions, Continue, TablesOK, RowsOf,
                      indexVars, ghosts, sent
  <2>5. CASE \/ ReadVersion(r) \/ SnapshotSaved(r)
             \/ \E w \in req[r].todo : PublishVersion(r, w)
    BY <2>5 DEF ReadVersion, SnapshotSaved, PublishVersion, Continue, RowsOf, indexVars, dbVars,
                ghosts, sent
  <2>6. CASE RequestFails(r) \/ PassFails(r)
    BY <2>6 DEF RequestFails, PassFails, CutShort, RowsOf, indexVars, dbVars, ghosts
  <2> QED  BY <2>1, <2>2, <2>3, <2>4, <2>5, <2>6 DEF RequestStep, dbVars, ghosts
<1>2. \A x \in Requests \ {r} : req'[x] = req[x]
  <2>1. CASE \/ ReadVersion(r) \/ UpsertVersion(r) \/ SnapshotSaved(r) \/ SetPageStatus(r)
             \/ SetVersionStatus(r) \/ LoadVersions(r) \/ EndPass(r)
    BY <1>0, <2>1 DEF ReadVersion, UpsertVersion, SnapshotSaved, SetPageStatus,
                      SetVersionStatus, LoadVersions, EndPass, Finish, Goto, RequestsOK
  <2>2. CASE \E w \in req[r].todo : PublishVersion(r, w) \/ DraftVersion(r, w)
    BY <1>0, <2>2 DEF PublishVersion, DraftVersion, RequestsOK
  <2>3. CASE RequestFails(r) \/ PassFails(r)
    BY <1>0, <2>3 DEF RequestFails, PassFails, Finish, RequestsOK
  <2> QED  BY <2>1, <2>2, <2>3 DEF RequestStep
<1>3. ToIndex(v)
  BY <1>1 DEF ToIndex, AsPublished, Published
<1>4. Expected(v) => Expected(v)'
  BY <1>1, <1>2 DEF Expected, Serving, At, Passing
<1> QED  BY <1>1, <1>3, <1>4, VersionStands

\* A task of a publish, or of a reindex, that takes up a batch.
LEMMA TakeUpIndexes ==
  ASSUME TypeOK, IndexedInv, NEW j \in Jobs,
         Reindex(j) \/ \E p \in Pages : StartPipeline(p, j),
         NEW v \in Versions, ToIndex(v)'
  PROVE  Expected(v)' \/ BeingIndexed(v)'
<1>0. TablesOK /\ RequestsOK /\ TasksOK /\ v[1] \in Pages
  BY PartsOfTypeOK DEF Versions
<1>1. UNCHANGED <<page, version, overwritten, req, disturbed>>
  BY DEF Reindex, StartPipeline, TaskReads, dbVars, ghosts
<1>2. /\ AsPublished(v) /\ version[v] \in Versioned /\ version[v] # None
      /\ version[v].status = "published" /\ Holding(v) \in VersionsOf(v[1])
  <2>1. AsPublished(v)
    BY <1>1 DEF ToIndex, AsPublished, Published
  <2>2. version[v] \in Versioned /\ version[v] # None /\ version[v].status = "published"
    BY <1>0, <2>1 DEF AsPublished, Published, TablesOK
  <2> QED  BY <2>1, <2>2 DEF Holding, VersionsOf, Work, Versioned
<1>3. CASE Reindex(j)
  <2>1. Holding(v) \in PublishedWork
    BY <1>0, <1>2 DEF PublishedWork, PublishedVersions, Holding
  <2> QED  BY <1>1, <1>2, <1>3, <2>1, TakenUp, PublishedWorkIsABatch DEF Reindex
<1>4. ASSUME NEW p \in Pages, StartPipeline(p, j)
      PROVE  Expected(v)' \/ BeingIndexed(v)'
  <2>0. TakeUp(j, VersionsOf(p)) /\ VersionsOf(p) \in Batch
    BY <1>4, VersionsAreABatch DEF StartPipeline
  <2>1. CASE p = v[1]
    BY <1>1, <1>2, <2>0, <2>1, TakenUp
  <2>2. CASE p # v[1]
    <3>1. Unnamed(VersionsOf(p), v)
      BY <2>2, VersionsAreABatch DEF Unnamed
    <3>2. v \notin contested
      BY <2>0, <3>1 DEF TakeUp, ToIndex, Unnamed
    <3>3. ToIndex(v)
      BY <1>1, <1>2, <3>2 DEF ToIndex
    <3>4. tasks'[v[1]] = tasks[v[1]]
      BY <1>0, <1>4, <2>2 DEF StartPipeline, TaskReads, TasksOK
    <3>5. Expected(v) => Expected(v)'
      BY <1>1, <3>4 DEF Expected, Serving, At, Passing
    <3>6. BeingIndexed(v) => BeingIndexed(v)'
      BY <1>1, <1>2, <2>0, <3>1, TakenUp
    <3> QED  BY <3>3, <3>5, <3>6 DEF IndexedInv
  <2> QED  BY <2>1, <2>2
<1> QED  BY <1>3, <1>4

\* Steps of a task, deliveries, the editor, and what fails or stops.
LEMMA OtherStepIndexes ==
  ASSUME TypeOK, IndexedInv,
         \/ \E p \in Pages : TaskFails(p)
         \/ \E j \in Jobs : Pipeline(j) \/ PipelineFails(j)
         \/ \E u \in Versions : \/ DeliverEvent(u) \/ LoseEvent(u)
                                \/ \E c \in Contents : WriteCanvas(u, c)
         \/ Restart
         \/ UNCHANGED allVars,
         NEW v \in Versions, ToIndex(v)'
  PROVE  Expected(v)' \/ BeingIndexed(v)'
<1>0. TablesOK /\ TasksOK /\ v[1] \in Pages /\ IndexTypeOK
  BY PartsOfTypeOK DEF Versions
<1>1. ASSUME NEW p \in Pages, TaskFails(p)  PROVE Expected(v)' \/ BeingIndexed(v)'
  <2>1. p # v[1] /\ v \notin contested
    BY <1>1 DEF TaskFails, ToIndex
  <2>2. /\ UNCHANGED <<job, chunks, page, version, overwritten, disturbed, req>>
        /\ tasks'[v[1]] = tasks[v[1]]
    BY <1>0, <1>1, <2>1 DEF TaskFails, TaskReads, indexVars, dbVars, ghosts, TasksOK
  <2>3. ToIndex(v)
    BY <2>1, <2>2 DEF ToIndex, AsPublished, Published
  <2> QED
    BY <2>2, <2>3, VersionStands DEF RowsOf, Expected, Serving, At, Passing
<1>2. ASSUME NEW j \in Jobs, Pipeline(j) \/ PipelineFails(j)
      PROVE  Expected(v)' \/ BeingIndexed(v)'
  <2>1. /\ UNCHANGED <<page, version, overwritten, disturbed, req, tasks>>
        /\ v \notin contested
    BY <1>2 DEF Pipeline, PipelineFails, GiveUp, ToIndex, dbVars, ghosts, sent
  <2>2. ToIndex(v) /\ version[v] \in Versioned /\ v \notin contested'
    BY <1>0, <2>1 DEF ToIndex, AsPublished, Published, TablesOK
  <2>3. Expected(v) => Expected(v)'
    BY <2>1 DEF Expected, Serving, At, Passing
  <2>4. BeingIndexed(v) => BeingIndexed(v)'
    BY <1>2, <2>2, TaskIndexes
  <2> QED  BY <2>2, <2>3, <2>4 DEF IndexedInv
<1>3. ASSUME NEW u \in Versions, NEW c \in Contents, WriteCanvas(u, c)
      PROVE  Expected(v)' \/ BeingIndexed(v)'
  <2>1. /\ UNCHANGED <<job, chunks, page, disturbed, contested, req, tasks>>
        /\ overwritten \subseteq overwritten'
        /\ version[u] # None /\ version[u] \in Versioned
        /\ version'[u] = [status |-> version[u].status, text |-> c]
        /\ \A x \in Versions \ {u} : version'[x] = version[x]
        /\ page[u[1]] = "published" /\ version[u].text # c => u \in overwritten'
    BY <1>0, <1>3 DEF WriteCanvas, TablesOK, Versioned, indexVars, sent
  <2>2. version'[v] = version[v]
    <3>1. CASE v = u
      <4>1. version[u].text = c
        BY <2>1, <3>1 DEF ToIndex, AsPublished, Published
      <4> QED  BY <2>1, <3>1, <4>1 DEF Versioned
    <3> QED  BY <2>1, <3>1
  <2>3. ToIndex(v)
    BY <2>1, <2>2 DEF ToIndex, AsPublished, Published
  <2> QED
    BY <2>1, <2>2, <2>3, VersionStands DEF RowsOf, Expected, Serving, At, Passing
<1>4. CASE Restart
  <2>1. /\ UNCHANGED <<chunks, page, version, overwritten>>
        /\ \A j \in Jobs : job'[j] = IdleJob
    BY <1>4 DEF Restart, StopJobs, dbVars, ghosts
  <2>2. /\ v \notin contested /\ ~ (tasks[v[1]] > 0)
        /\ \A j \in Jobs : v \notin Held(job[j])
    <3> DEFINE held == UNION {Held(job[j]) : j \in Jobs}
    <3>1. contested' = contested \union held \union {u \in Versions : tasks[u[1]] > 0}
      BY <1>4 DEF Restart, Forget
    <3> HIDE DEF held
    <3>2. v \notin contested /\ v \notin held /\ ~ (tasks[v[1]] > 0)
      BY <3>1 DEF ToIndex
    <3> QED  BY <3>2 DEF held
  <2>3. v[1] \notin disturbed /\ Serving(v[1]) = {}
    BY <1>0, <1>4 DEF Restart, Forget, ToIndex
  <2>4. ToIndex(v) /\ ~ Expected(v)
    BY <2>1, <2>2, <2>3 DEF ToIndex, AsPublished, Published, Expected
  <2>5. version[v] \in Versioned
    BY <1>0, <2>4 DEF ToIndex, AsPublished, Published, TablesOK
  <2>6. AllThere(v)
    BY <1>0, <2>2, <2>4, <2>5, HoldersHold DEF IndexedInv, BeingIndexed
  <2>7. AllThere(v)' /\ \A j \in Jobs : v \notin Held(job'[j])
    BY <2>1, <2>6 DEF AllThere, SectionsAre, RowsOf, IdleJob, Unoccupied, Held
  <2> QED  BY <2>7 DEF BeingIndexed
<1>5. CASE \/ \E u \in Versions : DeliverEvent(u) \/ LoseEvent(u)
           \/ UNCHANGED allVars
  <2>1. UNCHANGED <<job, chunks, page, version, overwritten, disturbed, contested, req, tasks>>
    BY <1>5 DEF DeliverEvent, EventArrives, LoseEvent, allVars, indexVars, dbVars, ghosts, sent
  <2>2. ToIndex(v)
    BY <2>1 DEF ToIndex, AsPublished, Published
  <2> QED
    BY <2>1, <2>2, VersionStands DEF RowsOf, Expected, Serving, At, Passing
<1> QED  BY <1>1, <1>2, <1>3, <1>4, <1>5

LEMMA IndexedAlways == Spec => []IndexedInv
<1>1. Init => IndexedInv
  BY DEF Init, IndexInit, IdleJob, Unoccupied, IndexedInv, IdleJobsHoldNothing, HeldByOne,
         Held, ToIndex, AsPublished, Published
<1>2. /\ TypeOK /\ PublishedInv /\ (\A p \in Pages : PageInv(p))
      /\ IndexedInv /\ [Next]_allVars
      => IndexedInv'
  <2> SUFFICES ASSUME TypeOK, PublishedInv, \A p \in Pages : PageInv(p), IndexedInv,
                      [Next]_allVars
               PROVE  IndexedInv'
    OBVIOUS
  <2>1. ASSUME NEW v \in Versions, ToIndex(v)'  PROVE Expected(v)' \/ BeingIndexed(v)'
    <3>1. v[1] \in Pages
      BY DEF Versions
    <3>2. ASSUME NEW r \in Requests, RequestStep(r) \/ RequestFails(r) \/ PassFails(r)
          PROVE  Expected(v)' \/ BeingIndexed(v)'
      <4>1. CASE req[r].page = v[1]
        <5>1. RequestStep(r)
          BY <2>1, <3>2, <4>1 DEF RequestFails, PassFails, CutShort, ToIndex
        <5> QED  BY <2>1, <3>1, <4>1, <5>1, OwnStepIndexes
      <4> QED  BY <2>1, <3>2, <4>1, StepElsewhereIndexes
    <3> QED
      BY <2>1, <3>2, NewRequestIndexes, TakeUpIndexes, OtherStepIndexes DEF Next, Serve
  <2> QED  BY <2>1, HoldersStep DEF IndexedInv
<1> QED
  BY <1>1, <1>2, LifecycleTypeCorrect, PublishedInvariant, PagesInOrder, PTL DEF Spec

\* n rows, one for each section.
LEMMA RowsAreCounted ==
  ASSUME NEW v, NEW c, NEW n \in Nat, SectionsAre(v, c, n)
  PROVE  Cardinality(RowsOf(v)) = n
<1> DEFINE at == [s \in 1..n |-> CHOOSE row \in RowsOf(v) : row.section = s]
<1>1. \A s \in 1..n : at[s] \in RowsOf(v) /\ at[s].section = s
  BY DEF SectionsAre
<1>2. at \in Bijection(1..n, RowsOf(v))
  <2>1. at \in [1..n -> RowsOf(v)]
    BY <1>1
  <2>2. \A s, t \in 1..n : at[s] = at[t] => s = t
    BY <1>1
  <2>3. \A row \in RowsOf(v) : \E s \in 1..n : at[s] = row
    BY <1>1 DEF SectionsAre
  <2> HIDE DEF at
  <2> QED  BY <2>1, <2>2, <2>3 DEF Bijection, Injection, Surjection, IsInjective
<1>3. IsFiniteSet(1..n) /\ Cardinality(1..n) = n
  BY FS_Interval
<1>4. ExistsBijection(1..n, RowsOf(v))
  BY <1>2 DEF ExistsBijection
<1> QED  BY <1>3, <1>4, FS_Bijection

\* "A published page is queryable": once everything has come to rest, the rows of a
\* version that is as published are the sections of the body it has, each of them
\* once.  The task reads and works after the answer, beside the requests, the editor,
\* the other tasks and what fails elsewhere; the exception is a version whose requests
\* or tasks met each other or failed.
THEOREM PublishIsIndexed == Spec => []PublishedIsIndexed
<1>1. TypeOK /\ IndexedInv => PublishedIsIndexed
  <2> SUFFICES ASSUME TypeOK, IndexedInv, Quiet, NEW v \in Versions, ToIndex(v)
               PROVE  Indexed(v)
    BY DEF PublishedIsIndexed
  <2>1. version[v].text \in Contents /\ Sections[version[v].text] \in Nat
    BY SectionsAssumption, PartsOfTypeOK DEF TablesOK, Versioned, ToIndex, AsPublished, Published
  <2>2. ~ Expected(v)
    BY DEF Quiet, At, Expected, Serving, Versions
  <2>3. \A j \in Jobs : ~ Queued(j, v) /\ ~ Working(j, v)
    BY IdleHoldsNothing DEF Quiet, TypeOK, IndexedInv
  <2>4. SectionsAre(v, version[v].text, Sections[version[v].text])
    BY <2>2, <2>3 DEF IndexedInv, BeingIndexed, AllThere
  <2>5. Cardinality(RowsOf(v)) = Sections[version[v].text]
    BY <2>1, <2>4, RowsAreCounted
  <2> QED  BY <2>4, <2>5 DEF Indexed, SectionsAre
<1> QED  BY <1>1, IndexedAlways, LifecycleTypeCorrect, PTL

-----------------------------------------------------------------------------
(* The task of the boot: what it does to the stores and the tables *)

\* Steps of the task leave the tables, the requests and what they sent alone.
LEMMA TaskKeepsTypes ==
  ASSUME TypeOK, [IndexNext]_indexVars, UNCHANGED <<dbVars, req, sent, disturbed>>,
         contested' \subseteq Versions,
         UNCHANGED <<served, faults>> \/ Fault
  PROVE  TypeOK'
<1>1. TablesOK /\ RequestsOK /\ BoundsOK /\ TasksOK /\ TracesOK /\ IndexTypeOK'
  BY PartsOfTypeOK, IndexTypeStep
<1>2. TablesOK' /\ RequestsOK'
  BY <1>1 DEF TablesOK, RequestsOK, RequestOK, dbVars, ghosts, sent
<1>3. BoundsOK'
  BY <1>1, FaultOK DEF BoundsOK
<1>4. TasksOK' /\ TracesOK'
  BY <1>1 DEF TasksOK, TracesOK, sent
<1> QED
  BY <1>1, <1>2, <1>3, <1>4
     DEF TypeOK, TablesOK, RequestsOK, RequestOK, BoundsOK, TasksOK, TracesOK

\* What run_one() hands to the pipeline.
LEMMA OneVersionIsABatch ==
  ASSUME TypeOK, NEW v \in Versions, version[v] # None
  PROVE  {[version |-> v, text |-> version[v].text]} \in Batch
<1>1. version[v] \in Versioned
  BY PartsOfTypeOK DEF TablesOK
<1>2. [version |-> v, text |-> version[v].text] \in Work
  BY <1>1 DEF Versioned, Work
<1> QED  BY <1>2 DEF Batch

\* A row of page_versions is never deleted.
LEMMA VersionsStay ==
  ASSUME TypeOK, [Next]_allVars, NEW v \in Versions, version[v] # None
  PROVE  version'[v] # None
<1>0. TablesOK /\ RequestsOK /\ None \notin Versioned
  BY PartsOfTypeOK, DistinctAssumption
<1>1. ASSUME NEW r \in Requests, UpsertVersion(r)  PROVE version'[v] # None
  <2>1. [status |-> "draft", text |-> req[r].text] \in Versioned
    BY <1>0, <1>1 DEF UpsertVersion, Continue, At, RequestsOK, RequestOK, Versioned
  <2> QED  BY <1>0, <1>1, <2>1 DEF UpsertVersion, TablesOK
<1>2. ASSUME NEW r \in Requests, SetVersionStatus(r)  PROVE version'[v] # None
  <2>1. version[v] \in Versioned
    BY <1>0 DEF TablesOK
  <2>2. [version[v] EXCEPT !.status = Target(req[r].op)] \in Versioned
    BY <2>1 DEF Versioned, Target
  <2> QED  BY <1>0, <1>2, <2>2 DEF SetVersionStatus
<1>3. ASSUME NEW u \in Versions, NEW c \in Contents, WriteCanvas(u, c)
      PROVE  version'[v] # None
  <2>1. [version[u] EXCEPT !.text = c] \in Versioned
    BY <1>0, <1>3 DEF WriteCanvas, TablesOK, Versioned
  <2> QED  BY <1>0, <1>3, <2>1 DEF WriteCanvas, TablesOK
<1>4. CASE version' = version
  BY <1>4
<1>5. ASSUME NEW r \in Requests, NewRequest(r) \/ RequestFails(r) \/ PassFails(r)
      PROVE  version' = version
  BY <1>5 DEF NewRequest, CreatePage, UpdatePage, RestoreVersion, ChangeStatus, RequestFails,
              PassFails, dbVars
<1>6. ASSUME NEW r \in Requests, RequestStep(r), ~ UpsertVersion(r), ~ SetVersionStatus(r)
      PROVE  version' = version
  BY <1>6 DEF RequestStep, ReadVersion, SnapshotSaved, SetPageStatus, LoadVersions,
              PublishVersion, DraftVersion, EndPass, dbVars
<1>8. ASSUME NEW p \in Pages, TaskFails(p) \/ \E j \in Jobs : StartPipeline(p, j)
      PROVE  version' = version
  BY <1>8 DEF TaskFails, StartPipeline, TaskReads, dbVars
<1>7. ASSUME \/ \E j \in Jobs : Reindex(j) \/ Pipeline(j) \/ PipelineFails(j)
             \/ \E u \in Versions : DeliverEvent(u) \/ LoseEvent(u)
             \/ Restart \/ UNCHANGED allVars
      PROVE  version' = version
  BY <1>7 DEF Reindex, Pipeline, PipelineFails, DeliverEvent, LoseEvent, Restart, allVars,
              dbVars
<1> QED  BY <1>1, <1>2, <1>3, <1>4, <1>5, <1>6, <1>7, <1>8 DEF Next, Serve

\* Each step beside and of the task is a step of the index, or leaves it alone.
LEMMA BootStepOfTheIndex ==
  ASSUME BootTypeOK, [BootNext]_bfVars
  PROVE  [IndexNext]_indexVars
<1>0. TypeOK /\ BackfillJob \in Jobs
  BY BackfillJobAssumption DEF BootTypeOK
<1>1. CASE Others \/ Reboot
  BY <1>0, <1>1, StepOfTheIndex DEF Others, Reboot, Next
<1>2. ASSUME NEW v \in Versions, Take(v)  PROVE IndexNext
  <2>1. version[v] # None
    BY <1>2 DEF Take, BootTypeOK
  <2> QED  BY <1>0, <1>2, <2>1, OneVersionIsABatch DEF Take, TakeUp, IndexNext
<1>3. CASE WorkStep \/ WorkFails \/ WorkDone
  BY <1>0, <1>3 DEF WorkStep, WorkFails, WorkDone, IndexNext, JobStep
<1>4. CASE \/ Begin \/ Probe \/ ProbeFails \/ List \/ ListFails \/ Complete \/ ServerUp
           \/ \E v \in Versions : TakeFails(v)
           \/ UNCHANGED bfVars
  BY <1>4 DEF Begin, Probe, ProbeFails, List, ListFails, Complete, ServerUp, TakeFails, bfVars,
              allVars
<1> QED  BY <1>1, <1>2, <1>3, <1>4 DEF BootNext, BackfillStep

\* The parts of BootTypeOK that are about the task.
BfState == [pc : {"spawned", "probe", "list", "each", "work", "ended"},
            state : {"disabled", "running", "completed", "failed"},
            attempt : 0..Retries, known : SUBSET Versions,
            todo : SUBSET Versions, version : Versions \union {None},
            failed : SUBSET Versions,
            boot : 1..(MaxFaults + 1), serving : BOOLEAN]

TaskOK == /\ bf \in BfState
          /\ BfAt("work") <=> job[BackfillJob].pc # "idle"
          /\ BfAt("spawned") <=> bf.state = "disabled"
          /\ BfAt("ended") <=> bf.state \in {"completed", "failed"}
          /\ BfAt("work") <=> bf.version # None
          /\ \A v \in bf.todo : version[v] # None

LEMMA PartsOfBootTypeOK == BootTypeOK <=> TypeOK /\ TaskOK
BY DEF BootTypeOK, TaskOK, BfState

\* The typed state with, for each boot but the first, the restart that caused it.
BootInv == BootTypeOK /\ bf.boot <= faults + 1

LEMMA CountsInBounds ==
  ASSUME TypeOK  PROVE  MaxFaults \in Nat /\ faults \in 0..MaxFaults /\ faults \in Nat
BY BoundsAssumption DEF TypeOK

LEMMA OneEntry ==
  ASSUME NEW S, NEW x \in S  PROVE  <<x>> \in Seq(S)
OBVIOUS

\* A step of the task between two versions.
LEMMA TaskStepOK ==
  ASSUME BootInv, Begin \/ Probe \/ ProbeFails \/ List \/ ListFails \/ Complete \/ ServerUp
  PROVE  BootInv'
<1>0. TypeOK /\ TaskOK /\ bf \in BfState /\ Retries \in Nat /\ faults \in Nat
  BY PartsOfBootTypeOK, CountsInBounds, RetriesAssumption DEF BootInv, TaskOK
<1>1. TypeOK' /\ job' = job /\ version' = version /\ faults <= faults' /\ faults' \in Nat
  <2>1. CASE ListFails
    <3>1. contested' \subseteq Versions
      BY <1>0, <2>1 DEF ListFails, TypeOK
    <3> QED  BY <1>0, <2>1, <3>1, TaskKeepsTypes DEF ListFails, Fault, indexVars, dbVars
  <2>2. CASE UNCHANGED allVars
    BY <1>0, <2>2, TypeStep DEF allVars, indexVars, dbVars
  <2> QED  BY <2>1, <2>2 DEF Begin, Probe, ProbeFails, List, Complete, ServerUp
<1>2. SyncedVersions \subseteq Versions
  BY <1>0 DEF SyncedVersions, TypeOK, IndexTypeOK, LogRecord
<1>3. bf' \in BfState /\ bf'.boot = bf.boot /\ bf'.version = bf.version
  <2>1. CASE Begin
    BY <1>0, <2>1 DEF Begin, BfState
  <2>2. CASE Probe
    BY <1>0, <1>2, <2>2 DEF Probe, BfState
  <2>3. CASE ProbeFails
    <3>1. CASE bf.attempt < Retries
      BY <1>0, <2>3, <3>1 DEF ProbeFails, BfState
    <3>2. CASE ~ (bf.attempt < Retries)
      BY <1>0, <2>3, <3>2 DEF ProbeFails, BfState
    <3> QED  BY <3>1, <3>2
  <2>4. CASE List
    BY <1>0, <2>4 DEF List, ExpectedVersions, BfState
  <2>5. CASE ListFails
    BY <1>0, <2>5 DEF ListFails, BfState
  <2>6. CASE Complete
    BY <1>0, <2>6 DEF Complete, BfState
  <2>7. CASE ServerUp
    BY <1>0, <2>7 DEF ServerUp, BfState
  <2> QED  BY <2>1, <2>2, <2>3, <2>4, <2>5, <2>6, <2>7
<1>4. /\ BfAt("work")' <=> BfAt("work")
      /\ BfAt("spawned")' <=> bf'.state = "disabled"
      /\ BfAt("ended")' <=> bf'.state \in {"completed", "failed"}
  BY <1>0 DEF Begin, Probe, ProbeFails, List, ListFails, Complete, ServerUp, BfAt, TaskOK,
              BfState
<1>5. \A v \in bf'.todo : version[v] # None
  <2>1. CASE List
    BY <1>0, <2>1 DEF List, ExpectedVersions, BfState
  <2>2. CASE ~ List
    <3>1. bf'.todo = bf.todo
      BY <1>0, <2>2 DEF Begin, Probe, ProbeFails, ListFails, Complete, ServerUp, BfState
    <3> QED  BY <1>0, <3>1 DEF TaskOK
  <2> QED  BY <2>1, <2>2
<1>6. TaskOK'
  BY <1>0, <1>1, <1>3, <1>4, <1>5 DEF TaskOK, BfAt
<1>7. bf'.boot <= faults' + 1
  BY <1>0, <1>1, <1>3 DEF BootInv, BfState
<1> QED
  BY <1>1, <1>6, <1>7 DEF BootInv, BootTypeOK, TaskOK, BfState

\* A step on one version: the slot is busy exactly while it is worked on.
LEMMA VersionStepOK ==
  ASSUME BootInv,
         \/ \E v \in Versions : Take(v) \/ TakeFails(v)
         \/ WorkStep \/ WorkFails \/ WorkDone
  PROVE  BootInv'
<1>0. /\ TypeOK /\ TaskOK /\ bf \in BfState /\ BackfillJob \in Jobs /\ faults \in Nat
      /\ job \in [Jobs -> JobState] /\ None \notin Versions /\ BootTypeOK
  <2>1. BootTypeOK /\ TypeOK /\ TaskOK
    BY PartsOfBootTypeOK DEF BootInv
  <2>2. BackfillJob \in Jobs /\ None \notin Versions
    BY BackfillJobAssumption, DistinctAssumption
  <2> QED  BY <2>1, <2>2, CountsInBounds DEF TaskOK, TypeOK, IndexTypeOK
<1>1. TypeOK' /\ version' = version /\ faults <= faults' /\ faults' \in Nat
  <2>1. [IndexNext]_indexVars
    BY <1>0, BootStepOfTheIndex DEF BootNext, BackfillStep
  <2>2. /\ UNCHANGED <<dbVars, req, sent, disturbed>>
        /\ UNCHANGED <<served, faults>> \/ Fault
    BY DEF Take, TakeFails, WorkStep, WorkFails, WorkDone
  <2>3. contested' \subseteq Versions
    <3>1. contested \subseteq Versions /\ IndexTypeOK
      BY <1>0 DEF TypeOK
    <3>2. ASSUME NEW v \in Versions, Take(v)  PROVE contested' \subseteq Versions
      <4>1. TakeUp(BackfillJob, {[version |-> v, text |-> version[v].text]})
        BY <3>2 DEF Take
      <4>2. \A w \in {[version |-> v, text |-> version[v].text]} : w.version = v
        OBVIOUS
      <4> QED  BY <3>1, <4>1, <4>2 DEF TakeUp
    <3>3. CASE WorkFails
      BY <1>0, <3>1, <3>3, HeldAreVersions DEF WorkFails, GiveUp
    <3> QED  BY <3>1, <3>2, <3>3 DEF TakeFails, WorkStep, WorkDone
  <2> QED  BY <1>0, <2>1, <2>2, <2>3, TaskKeepsTypes DEF Fault, dbVars
<1>2. /\ bf' \in BfState /\ bf'.boot = bf.boot /\ bf'.todo \subseteq bf.todo
      /\ bf'.state = bf.state /\ bf'.pc \in {"each", "work"}
      /\ bf.pc \in {"each", "work"}
      /\ BfAt("work")' <=> bf'.version # None
  <2>1. ASSUME NEW v \in Versions, Take(v)
        PROVE  /\ bf' \in BfState /\ bf'.boot = bf.boot /\ bf'.todo \subseteq bf.todo
               /\ bf'.state = bf.state /\ bf'.pc = "work" /\ bf.pc = "each"
               /\ bf'.version # None
    BY <1>0, <2>1 DEF Take, BfAt, BfState
  <2>2. ASSUME NEW v \in Versions, TakeFails(v)
        PROVE  /\ bf' \in BfState /\ bf'.boot = bf.boot /\ bf'.todo \subseteq bf.todo
               /\ bf'.state = bf.state /\ bf'.pc = "each" /\ bf.pc = "each"
               /\ bf'.version = bf.version
    BY <1>0, <2>2 DEF TakeFails, BfAt, BfState
  <2>3. CASE WorkStep
    BY <1>0, <2>3 DEF WorkStep, TaskOK, BfAt
  <2>4. CASE WorkFails
    <3>1. bf.version \in Versions
      BY <1>0, <2>4 DEF WorkFails, TaskOK, BfState
    <3>2. /\ bf' = [bf EXCEPT !.failed = @ \union {bf.version}] /\ bf.pc = "work"
      BY <2>4 DEF WorkFails, BfAt
    <3> QED  BY <1>0, <3>1, <3>2 DEF TaskOK, BfAt, BfState
  <2>5. CASE WorkDone
    BY <1>0, <2>5 DEF WorkDone, BfAt, BfState
  <2> QED  BY <1>0, <2>1, <2>2, <2>3, <2>4, <2>5 DEF TaskOK, BfAt
<1>3. BfAt("work")' <=> job'[BackfillJob].pc # "idle"
  <2>1. ASSUME NEW v \in Versions, Take(v)
        PROVE  bf'.pc = "work" /\ job'[BackfillJob].pc = "next"
    BY <1>0, <2>1 DEF Take, TakeUp, StartJob, NextOf, Unoccupied, BfState
  <2>2. ASSUME NEW v \in Versions, TakeFails(v)  PROVE  bf'.pc = "each" /\ job' = job
    BY <1>0, <2>2 DEF TakeFails, BfAt, BfState, indexVars
  <2>6. BfAt("work") <=> job[BackfillJob].pc # "idle"
    BY <1>0 DEF TaskOK
  <2>7. ASSUME NEW v \in Versions, Take(v) \/ TakeFails(v)
        PROVE  BfAt("work")' <=> job'[BackfillJob].pc # "idle"
    <3>1. CASE Take(v)
      BY <2>1, <3>1 DEF BfAt
    <3>2. CASE TakeFails(v)
      <4>1. job[BackfillJob].pc = "idle"
        BY <2>6, <3>2 DEF TakeFails, BfAt
      <4> QED  BY <2>2, <3>2, <4>1 DEF BfAt
    <3> QED  BY <2>7, <3>1, <3>2
  <2>3. CASE WorkStep
    <3>1. job'[BackfillJob].pc # "idle"
      <4>1. CASE Delete(BackfillJob)
        BY <1>0, <4>1 DEF Delete, NextOf, Unoccupied
      <4>2. CASE Produce(BackfillJob)
        BY <1>0, <4>2 DEF Produce, JobState
      <4>3. CASE Insert(BackfillJob)
        BY <1>0, <4>3 DEF Insert, NextOf, Unoccupied, JobState
      <4> QED  BY <2>3, <4>1, <4>2, <4>3 DEF WorkStep
    <3> QED  BY <2>3, <3>1 DEF WorkStep, BfAt
  <2>4. CASE WorkFails
    <3>1. job'[BackfillJob].pc # "idle"
      BY <1>0, <2>4 DEF WorkFails, DeleteFails, ProduceFails, InsertFails, NextOf, Unoccupied
    <3> QED  BY <1>0, <2>4, <3>1 DEF WorkFails, BfAt, BfState
  <2>5. CASE WorkDone
    BY <1>0, <2>5 DEF WorkDone, EndJob, IdleJob, Unoccupied, BfAt, BfState
  <2> QED  BY <2>3, <2>4, <2>5, <2>7
<1>4. TaskOK'
  BY <1>0, <1>1, <1>2, <1>3 DEF TaskOK, BfAt
<1>5. bf'.boot <= faults' + 1
  BY <1>0, <1>1, <1>2 DEF BootInv, BfState
<1> QED
  BY <1>1, <1>4, <1>5 DEF BootInv, BootTypeOK, TaskOK, BfState

LEMMA BootStep ==
  ASSUME BootInv, [BootNext]_bfVars
  PROVE  BootInv'
<1>0. /\ TypeOK /\ TaskOK /\ bf \in BfState /\ BackfillJob \in Jobs /\ MaxFaults \in Nat
      /\ faults \in 0..MaxFaults /\ Retries \in Nat
  BY PartsOfBootTypeOK, BackfillJobAssumption, CountsInBounds, RetriesAssumption
     DEF BootInv, TaskOK
<1>1. CASE Others
  <2>1. TypeOK' /\ \A v \in Versions : version[v] # None => version'[v] # None
    BY <1>0, <1>1, TypeStep, VersionsStay DEF Others, Next
  <2>2. faults <= faults' /\ faults' \in Nat
    <3>1. UNCHANGED faults \/ Fault
      <4>1. ASSUME NEW r \in Requests, NewRequest(r) \/ RequestStep(r)
            PROVE  UNCHANGED faults
        <5>1. CASE NewRequest(r)
          BY <5>1, NewRequestLeaves
        <5>2. CASE RequestStep(r)
          BY <5>2 DEF RequestStep, ReadVersion, UpsertVersion, SnapshotSaved, SetPageStatus,
                      SetVersionStatus, LoadVersions, PublishVersion, DraftVersion, EndPass,
                      Continue
        <5> QED  BY <4>1, <5>1, <5>2
      <4>2. ASSUME NEW r \in Requests, RequestFails(r) \/ PassFails(r)  PROVE Fault
        BY <4>2 DEF RequestFails, PassFails, CutShort
      <4>3. ASSUME NEW j \in Jobs, Reindex(j) \/ Pipeline(j) \/ PipelineFails(j)
            PROVE  UNCHANGED faults \/ Fault
        BY <4>3 DEF Reindex, Pipeline, PipelineFails
      <4>4. ASSUME NEW v \in Versions,
                   DeliverEvent(v) \/ LoseEvent(v) \/ \E c \in Contents : WriteCanvas(v, c)
            PROVE  UNCHANGED faults \/ Fault
        BY <4>4 DEF DeliverEvent, LoseEvent, WriteCanvas
      <4>5. ASSUME NEW p \in Pages, TaskFails(p) \/ \E j \in Jobs : StartPipeline(p, j)
            PROVE  UNCHANGED faults \/ Fault
        BY <4>5 DEF TaskFails, StartPipeline
      <4> QED  BY <1>1, <4>1, <4>2, <4>3, <4>4, <4>5 DEF Others, Serve
    <3> QED  BY <1>0, <3>1 DEF Fault
  <2>3. TaskOK'
    BY <1>0, <1>1, <2>1 DEF Others, TaskOK, BfAt, BfState
  <2>4. bf'.boot <= faults' + 1
    BY <1>0, <1>1, <2>2 DEF Others, BootInv, BfState
  <2> QED  BY <2>1, <2>3, <2>4 DEF BootInv, BootTypeOK, TaskOK, BfState
<1>2. CASE Reboot
  <2>1. TypeOK'
    BY <1>0, <1>2, TypeStep DEF Reboot, Next
  <2>2. faults' = faults + 1 /\ faults < MaxFaults /\ job' = [j \in Jobs |-> IdleJob]
    BY <1>2 DEF Reboot, Restart, Fault, StopJobs
  <2>3. bf.boot + 1 \in 1..(MaxFaults + 1) /\ bf.boot <= faults + 1
    BY <1>0, <2>2 DEF BootInv, BfState
  <2>4. bf' = Spawned(bf.boot + 1)
    BY <1>2 DEF Reboot
  <2>5. TaskOK'
    BY <1>0, <2>2, <2>3, <2>4 DEF Spawned, TaskOK, BfAt, BfState, IdleJob, Unoccupied
  <2>6. bf'.boot <= faults' + 1
    BY <1>0, <2>2, <2>3, <2>4 DEF Spawned, BfState
  <2> QED  BY <2>1, <2>5, <2>6 DEF BootInv, BootTypeOK, TaskOK, BfState
<1>3. CASE UNCHANGED bfVars
  <2>1. TypeOK'
    BY <1>0, <1>3, TypeStep DEF bfVars
  <2>2. UNCHANGED <<bf, job, version, faults>>
    BY <1>3 DEF bfVars, allVars, indexVars, dbVars
  <2>3. TaskOK' /\ bf'.boot <= faults' + 1
    BY <1>0, <2>2 DEF TaskOK, BfAt, BootInv, BfState
  <2> QED  BY <2>1, <2>3 DEF BootInv, BootTypeOK, TaskOK, BfState
<1> QED
  BY <1>1, <1>2, <1>3, TaskStepOK, VersionStepOK DEF BootNext, BackfillStep

LEMMA BootInvAlways == BootSpec => []BootInv
<1>1. BootInit => BootInv
  <2> SUFFICES ASSUME BootInit  PROVE  BootInv
    OBVIOUS
  <2>0. BackfillJob \in Jobs /\ MaxFaults \in Nat /\ Retries \in Nat
    BY BackfillJobAssumption, BoundsAssumption, RetriesAssumption
  <2>1. IndexTypeOK
    BY IdleJobOK, MaxLogAssumption DEF BootInit, IndexInit, IndexTypeOK
  <2>2. RequestsOK /\ BoundsOK /\ TasksOK /\ TracesOK
    BY IdleReqOK, BoundsAssumption
       DEF BootInit, RequestsOK, RequestOK, BoundsOK, TasksOK, TracesOK
  <2>3. TablesOK
    <3>1. \A v \in Versions : history[v] \in Seq([text : Contents, published : BOOLEAN])
      <4>1. ASSUME NEW v \in Versions, Published(v)
            PROVE  <<Snapshot(version[v].text, TRUE)>> \in Seq([text : Contents, published : BOOLEAN])
        <5>1. Snapshot(version[v].text, TRUE) \in [text : Contents, published : BOOLEAN]
          BY <4>1 DEF BootInit, Published, Snapshot
        <5> QED  BY <5>1, OneEntry
      <4>2. <<>> \in Seq([text : Contents, published : BOOLEAN])
        OBVIOUS
      <4> QED  BY <4>1, <4>2 DEF BootInit
    <3>2. history \in [Versions -> Seq([text : Contents, published : BOOLEAN])]
      BY <3>1 DEF BootInit
    <3> QED  BY <3>2 DEF BootInit, TablesOK, Versioned
  <2>4. TaskOK /\ bf.boot = 1 /\ faults = 0
    BY <2>0 DEF BootInit, IndexInit, IdleJob, Unoccupied, Spawned, TaskOK, BfAt, BfState
  <2> QED  BY <2>1, <2>2, <2>3, <2>4, PartsOfTypeOK, PartsOfBootTypeOK DEF BootInv
<1>2. BootInv /\ [BootNext]_bfVars => BootInv'
  BY BootStep
<1> QED  BY <1>1, <1>2, PTL DEF BootSpec

\* The state GET /health/ready answers from is where the task is, whatever runs
\* beside it and however often the process starts again: the slot is busy exactly
\* while a version is worked on, and what is still to do exists.
THEOREM BootTypeCorrect == BootSpec => []BootTypeOK
<1>1. BootInv => BootTypeOK
  BY DEF BootInv
<1> QED  BY <1>1, BootInvAlways, PTL

\* The boot's task only reaches the stores by the steps of the index, as the
\* requests do.
THEOREM BootImplementsIndex == BootSpec => IndexSpec
<1>1. BootInit => IndexInit
  BY DEF BootInit
<1>2. BootTypeOK /\ [BootNext]_bfVars => [IndexNext]_indexVars
  BY BootStepOfTheIndex
<1> QED  BY <1>1, <1>2, BootTypeCorrect, PTL DEF BootSpec, IndexSpec

-----------------------------------------------------------------------------
(* What the task of the first boot has not indexed, it has counted *)

\* Until a request comes in there is nobody but the task: no other task, none
\* that is still to read, and no event of a publish.
FirstBoot == bf.boot = 1 /\ served = 0

Alone == /\ \A r \in Requests : req[r].pc = "idle"
         /\ \A v \in Versions : events[v] = 0
         /\ \A p \in Pages : tasks[p] = 0
         /\ \A k \in Jobs \ {BackfillJob} : job[k].pc = "idle"

\* The slot holds no version but the one that the task works on.
OwnWork == /\ job[BackfillJob].pc = "idle" => job[BackfillJob].queue = {}
           /\ \A w \in job[BackfillJob].queue : w.version = bf.version
           /\ job[BackfillJob].work # NoWork => job[BackfillJob].work.version = bf.version

\* Nothing published is forgotten: it is still to do, counted or in hand.
Covered == \A v \in Versions : Published(v) =>
             v \in bf.todo \union bf.failed \/ InHand(BackfillJob, v)

FirstRun == /\ Alone /\ OwnWork
            /\ bf.pc \in {"spawned", "probe"} => log = <<>>
            /\ bf.pc = "list" => bf.known = {}
            /\ bf.pc \in {"each", "work"} \/ bf.state = "completed" => Covered
            /\ bf.state = "completed" => bf.todo = {}

\* No step of a task leaves its slot as it was.
LEMMA TaskMoves ==
  ASSUME IndexTypeOK, NEW j \in Jobs, Pipeline(j) \/ PipelineFails(j)
  PROVE  job'[j] # job[j]
<1>0. job \in [Jobs -> JobState] /\ JobOK(job[j])
  BY DEF IndexTypeOK
<1>1. CASE Delete(j) \/ DeleteFails(j)
  <2>1. PICK w \in job[j].queue : job'[j].queue = job[j].queue \ {w}
    <3>1. CASE Delete(j)
      BY <1>0, <3>1 DEF Delete, NextOf, Unoccupied
    <3>2. CASE DeleteFails(j)
      BY <1>0, <3>2 DEF DeleteFails, NextOf, Unoccupied
    <3> QED  BY <1>1, <3>1, <3>2
  <2> QED  BY <2>1
<1>2. CASE Produce(j)
  <2>1. job[j].recs \in Seq(Nat \ {0}) /\ Len(log) + 1 \in Nat \ {0}
    BY <1>0 DEF JobState, IndexTypeOK
  <2>2. job'[j].recs = Append(job[j].recs, Len(log) + 1)
    BY <1>0, <1>2 DEF Produce, JobState
  <2>3. Len(job'[j].recs) = Len(job[j].recs) + 1 /\ Len(job[j].recs) \in Nat
    BY <2>1, <2>2
  <2> QED  BY <2>3
<1>3. CASE Insert(j)
  <2>1. job[j].pc = "insert" /\ job[j].inserted \in Nat
    BY <1>0, <1>3 DEF Insert, JobState
  <2>2. job'[j].pc = "next" \/ job'[j].inserted = job[j].inserted + 1
    BY <1>0, <1>3 DEF Insert, NextOf, Unoccupied, JobState
  <2> QED  BY <2>1, <2>2
<1>4. CASE ProduceFails(j) \/ InsertFails(j)
  BY <1>0, <1>4 DEF ProduceFails, InsertFails, NextOf, Unoccupied
<1>5. CASE EndJob(j)
  BY <1>0, <1>5 DEF EndJob, IdleJob, Unoccupied
<1> QED  BY <1>1, <1>2, <1>3, <1>4, <1>5 DEF Pipeline, PipelineFails

\* While there is nobody but the task, all that can come is a first request.
LEMMA OnlyARequestComes ==
  ASSUME TypeOK, Alone, served = 0, Serve, job'[BackfillJob] = job[BackfillJob]
  PROVE  served' = 1
<1>1. ASSUME NEW r \in Requests, NewRequest(r)  PROVE served' = 1
  <2>1. served' = served + 1
    BY <1>1, NewRequestLeaves
  <2> QED  BY <2>1
<1>2. ASSUME NEW r \in Requests, RequestStep(r) \/ RequestFails(r) \/ PassFails(r)  PROVE FALSE
  <2>1. req[r].pc = "idle"
    BY DEF Alone
  <2> QED
    BY <1>2, <2>1 DEF RequestStep, ReadVersion, UpsertVersion, SnapshotSaved, SetPageStatus,
                      SetVersionStatus, LoadVersions, PublishVersion, DraftVersion, EndPass,
                      Continue, At, RequestFails, PassFails
<1>3. ASSUME NEW j \in Jobs, Reindex(j)  PROVE served' = 1
  BY <1>3 DEF Reindex
<1>4. ASSUME NEW j \in Jobs, Pipeline(j) \/ PipelineFails(j)  PROVE FALSE
  <2>1. CASE j = BackfillJob
    BY <1>4, <2>1, TaskMoves DEF TypeOK
  <2>2. CASE j # BackfillJob
    <3>1. job[j].pc = "idle"
      BY <2>2 DEF Alone
    <3> QED  BY <1>4, <3>1 DEF Pipeline, PipelineFails, Delete, DeleteFails, Produce,
                               ProduceFails, Insert, InsertFails, EndJob
  <2> QED  BY <2>1, <2>2
<1>5. ASSUME NEW v \in Versions, DeliverEvent(v) \/ LoseEvent(v)  PROVE FALSE
  BY <1>5 DEF DeliverEvent, LoseEvent, Alone
<1>6. ASSUME NEW v \in Versions, NEW c \in Contents, WriteCanvas(v, c)  PROVE served' = 1
  BY <1>6 DEF WriteCanvas
<1>7. ASSUME NEW p \in Pages, TaskFails(p) \/ \E j \in Jobs : StartPipeline(p, j)
      PROVE  FALSE
  BY <1>7 DEF TaskFails, StartPipeline, TaskReads, Alone
<1> QED  BY <1>1, <1>2, <1>3, <1>4, <1>5, <1>6, <1>7 DEF Serve

\* Requests are counted and never taken back.
LEMMA ServedGrows ==
  ASSUME TypeOK, Serve, served' = 0  PROVE served = 0
<1>0. served \in Nat
  BY BoundsAssumption DEF TypeOK
<1>1. served' = served \/ served' = served + 1
  <2>1. ASSUME NEW r \in Requests, NewRequest(r)  PROVE served' = served + 1
    BY <2>1, NewRequestLeaves
  <2>2. ASSUME NEW r \in Requests, RequestStep(r) \/ RequestFails(r) \/ PassFails(r)
        PROVE  served' = served
    BY <2>2 DEF RequestStep, ReadVersion, UpsertVersion, SnapshotSaved, SetPageStatus,
                SetVersionStatus, LoadVersions, PublishVersion, DraftVersion, EndPass,
                Continue, RequestFails, PassFails, CutShort, Fault
  <2>3. ASSUME NEW j \in Jobs, Reindex(j) \/ Pipeline(j) \/ PipelineFails(j)
        PROVE  served' = served \/ served' = served + 1
    BY <2>3 DEF Reindex, Pipeline, PipelineFails, Fault
  <2>4. ASSUME NEW v \in Versions,
               DeliverEvent(v) \/ LoseEvent(v) \/ \E c \in Contents : WriteCanvas(v, c)
        PROVE  served' = served \/ served' = served + 1
    BY <2>4 DEF DeliverEvent, LoseEvent, WriteCanvas, Fault
  <2>5. ASSUME NEW p \in Pages, TaskFails(p) \/ \E j \in Jobs : StartPipeline(p, j)
        PROVE  served' = served
    BY <2>5 DEF TaskFails, StartPipeline, Fault
  <2> QED  BY <2>1, <2>2, <2>3, <2>4, <2>5 DEF Serve
<1> QED  BY <1>0, <1>1

LEMMA FirstBootBefore ==
  ASSUME BootInv, [BootNext]_bfVars, FirstBoot'
  PROVE  FirstBoot
<1>0. TypeOK /\ bf \in BfState
  BY PartsOfBootTypeOK DEF BootInv, TaskOK
<1>1. CASE Others
  BY <1>0, <1>1, ServedGrows DEF Others, FirstBoot
<1>2. CASE Reboot
  BY <1>0, <1>2 DEF Reboot, Spawned, FirstBoot, BfState
<1>3. CASE BackfillStep \/ ServerUp \/ UNCHANGED bfVars
  <2>1. served' = served
    BY <1>3 DEF BackfillStep, Begin, Probe, ProbeFails, List, ListFails, Take, TakeFails,
                WorkStep, WorkFails, WorkDone, Complete, ServerUp, Fault, bfVars, allVars
  <2>2. bf'.boot = bf.boot
    BY <1>0, <1>3 DEF BackfillStep, Begin, Probe, ProbeFails, List, ListFails, Take, TakeFails,
                WorkStep, WorkFails, WorkDone, Complete, ServerUp, bfVars, BfState
  <2> QED  BY <2>1, <2>2 DEF FirstBoot
<1> QED  BY <1>1, <1>2, <1>3 DEF BootNext

\* What a step of the task leaves: the tables, and everybody else.
LEMMA TaskLeaves ==
  ASSUME TypeOK, BackfillStep \/ ServerUp, Alone
  PROVE  /\ Alone' /\ version' = version /\ page' = page
         /\ \A v \in Versions : Published(v)' = Published(v)
<1>0. job \in [Jobs -> JobState]
  BY DEF TypeOK, IndexTypeOK
<1>1. \A k \in Jobs \ {BackfillJob} : job'[k] = job[k]
  <2>1. CASE \E v \in Versions : Take(v)
    BY <1>0, <2>1 DEF Take, TakeUp, StartJob
  <2>2. CASE WorkStep
    BY <1>0, <2>2 DEF WorkStep, Delete, Produce, Insert
  <2>3. CASE WorkFails
    BY <1>0, <2>3 DEF WorkFails, DeleteFails, ProduceFails, InsertFails
  <2>4. CASE WorkDone
    BY <1>0, <2>4 DEF WorkDone, EndJob
  <2>5. CASE \/ Begin \/ Probe \/ ProbeFails \/ List \/ ListFails \/ Complete \/ ServerUp
             \/ \E v \in Versions : TakeFails(v)
    BY <2>5 DEF Begin, Probe, ProbeFails, List, ListFails, Complete, ServerUp, TakeFails,
                allVars, indexVars
  <2> QED  BY <2>1, <2>2, <2>3, <2>4, <2>5 DEF BackfillStep
<1>2. UNCHANGED <<req, events, tasks, version, page>>
  BY DEF BackfillStep, Begin, Probe, ProbeFails, List, ListFails, Take, TakeFails, WorkStep,
         WorkFails, WorkDone, Complete, ServerUp, allVars, dbVars, sent
<1>3. Alone'
  BY <1>1, <1>2 DEF Alone
<1> QED  BY <1>2, <1>3 DEF Published

LEMMA HoldingFacts ==
  ASSUME TypeOK, NEW v \in Versions, Published(v)
  PROVE  /\ version[v] \in Versioned /\ version[v] # None
         /\ Holding(v).version = v /\ Holding(v) # NoWork
<1>1. version[v] \in Versioned /\ version[v] # None
  BY PartsOfTypeOK DEF TablesOK, Published
<1>2. Holding(v) \in Work
  BY <1>1 DEF Holding, Work, Versioned
<1> QED  BY <1>1, <1>2, NoWorkAssumption DEF Holding

\* What is in hand stays so while its rows and the tasks stay as they are.
LEMMA InHandStands ==
  ASSUME NEW j, NEW v, UNCHANGED <<job, version[v], RowsOf(v)>>, InHand(j, v)
  PROVE  InHand(j, v)'
<1>1. Holding(v)' = Holding(v)
  BY DEF Holding
<1>2. \A c, n : SectionsAre(v, c, n) => SectionsAre(v, c, n)'
  BY DEF SectionsAre
<1> QED  BY <1>1, <1>2 DEF InHand, Queued, Working, Settled, AllThere

\* A slot that is given a batch has in hand what is in it, and what was settled.
LEMMA StartInHand ==
  ASSUME IndexTypeOK, NEW j \in Jobs, NEW v, NEW q, StartJob(j, q),
         UNCHANGED version[v], Holding(v).version = v,
         Holding(v) \in q \/ (Unnamed(q, v) /\ Settled(j, v))
  PROVE  InHand(j, v)'
<1>1. job'[j].queue = q /\ job'[j].work = NoWork /\ chunks' = chunks
  BY DEF StartJob, IndexTypeOK, NextOf, Unoccupied
<1>2. Holding(v)' = Holding(v)
  BY DEF Holding
<1>3. CASE Holding(v) \in q
  BY <1>1, <1>2, <1>3 DEF InHand, Queued
<1>4. CASE Unnamed(q, v) /\ Settled(j, v)
  <2>1. AllThere(v)'
    BY <1>1, <1>4 DEF Settled, AllThere, SectionsAre, RowsOf
  <2> QED  BY <1>1, <1>4, <2>1 DEF InHand, Settled
<1> QED  BY <1>3, <1>4

\* With an idle slot, what is in hand is settled.
LEMMA IdleIsSettled ==
  ASSUME NEW j, NEW v, job[j].pc = "idle", job[j].queue = {}, InHand(j, v)
  PROVE  Settled(j, v)
BY DEF InHand, Queued, Working

\* The task takes a version, or gives it up at once.
LEMMA TakeCovers ==
  ASSUME BootInv, FirstRun, NEW v \in Versions, Take(v) \/ TakeFails(v)
  PROVE  FirstRun'
<1>0. /\ TypeOK /\ TaskOK /\ bf \in BfState /\ BackfillJob \in Jobs /\ IndexTypeOK
      /\ job \in [Jobs -> JobState] /\ version[v] # None
  BY PartsOfBootTypeOK, BackfillJobAssumption
     DEF BootInv, TaskOK, TypeOK, IndexTypeOK, Take, TakeFails
<1>1. /\ Alone' /\ version' = version /\ \A u \in Versions : Published(u)' = Published(u)
      /\ bf.pc = "each" /\ bf.state = "running" /\ Covered /\ OwnWork
  <2>1. bf.pc = "each"
    BY DEF Take, TakeFails, BfAt
  <2>2. bf.state = "running"
    BY <1>0, <2>1 DEF TaskOK, BfAt, BfState
  <2> QED  BY <1>0, <2>1, <2>2, TaskLeaves DEF BackfillStep, FirstRun
<1>2. job[BackfillJob].pc = "idle" /\ job[BackfillJob].queue = {}
  BY <1>0, <1>1 DEF TaskOK, BfAt, OwnWork
<1>3. CASE Take(v)
  <2> DEFINE q == {[version |-> v, text |-> version[v].text]}
  <2>1. /\ StartJob(BackfillJob, q) /\ bf'.pc = "work" /\ bf'.todo = bf.todo \ {v}
        /\ bf'.version = v /\ bf'.failed = bf.failed /\ bf'.state = "running"
    BY <1>0, <1>1, <1>3 DEF Take, TakeUp, BfState
  <2>2. job'[BackfillJob].queue = q /\ job'[BackfillJob].pc = "next"
        /\ job'[BackfillJob].work = NoWork
    BY <1>0, <2>1 DEF StartJob, NextOf, Unoccupied
  <2>3. OwnWork'
    BY <2>1, <2>2 DEF OwnWork
  <2>4. ASSUME NEW u \in Versions, Published(u)
        PROVE  u \in bf'.todo \union bf'.failed \/ InHand(BackfillJob, u)'
    <3>1. CASE u \in (bf.todo \ {v}) \union bf.failed
      BY <2>1, <3>1
    <3>2. CASE u = v
      <4>1. Holding(u) \in q
        BY <3>2 DEF Holding
      <4> HIDE DEF q
      <4> QED  BY <1>0, <1>1, <2>1, <2>4, <4>1, HoldingFacts, StartInHand
    <3>3. CASE u # v /\ u \notin bf.todo \union bf.failed
      <4>1. Settled(BackfillJob, u)
        BY <1>1, <1>2, <2>4, <3>3, IdleIsSettled DEF Covered
      <4>2. Unnamed(q, u)
        BY <3>3 DEF Unnamed
      <4> HIDE DEF q
      <4> QED  BY <1>0, <1>1, <2>1, <2>4, <4>1, <4>2, HoldingFacts, StartInHand
    <3> QED  BY <3>1, <3>2, <3>3
  <2>5. Covered'
    BY <1>1, <2>4 DEF Covered
  <2> QED  BY <1>1, <2>1, <2>3, <2>5 DEF FirstRun
<1>4. CASE TakeFails(v)
  <2>1. /\ UNCHANGED <<job, chunks>> /\ bf'.pc = "each" /\ bf'.todo = bf.todo \ {v}
        /\ bf'.version = bf.version /\ bf'.failed = bf.failed \union {v} /\ bf'.state = "running"
    BY <1>0, <1>1, <1>4 DEF TakeFails, BfState, indexVars
  <2>2. OwnWork'
    BY <1>1, <2>1 DEF OwnWork
  <2>3. \A u \in Versions : InHand(BackfillJob, u) => InHand(BackfillJob, u)'
    <3>1. \A u \in Versions : RowsOf(u)' = RowsOf(u)
      BY <2>1 DEF RowsOf
    <3> QED  BY <1>1, <2>1, <3>1, InHandStands
  <2>4. Covered'
    BY <1>1, <2>1, <2>3 DEF Covered
  <2> QED  BY <1>1, <2>1, <2>2, <2>4 DEF FirstRun
<1> QED  BY <1>3, <1>4

\* The pipeline works on the version taken, or gives it up and it is counted.
LEMMA WorkCovers ==
  ASSUME BootInv, FirstRun, WorkStep \/ WorkFails \/ WorkDone
  PROVE  FirstRun'
<1> DEFINE b == BackfillJob
<1>0. /\ TypeOK /\ TaskOK /\ bf \in BfState /\ b \in Jobs /\ IndexTypeOK
      /\ job \in [Jobs -> JobState] /\ JobOK(job[b])
  BY PartsOfBootTypeOK, BackfillJobAssumption DEF BootInv, TaskOK, TypeOK, IndexTypeOK
<1>1. /\ Alone' /\ version' = version /\ \A u \in Versions : Published(u)' = Published(u)
      /\ bf.pc = "work" /\ bf.state = "running" /\ Covered /\ OwnWork
  <2>1. bf.pc = "work"
    BY DEF WorkStep, WorkFails, WorkDone, BfAt
  <2>2. bf.state = "running"
    BY <1>0, <2>1 DEF TaskOK, BfAt, BfState
  <2> QED  BY <1>0, <2>1, <2>2, TaskLeaves DEF BackfillStep, FirstRun
<1>2. CASE WorkStep \/ WorkDone
  <2>1. Pipeline(b)
    BY <1>2 DEF WorkStep, WorkDone, Pipeline
  <2>2. bf'.todo = bf.todo /\ bf'.failed = bf.failed /\ bf'.state = "running"
        /\ bf'.pc \in {"each", "work"}
    BY <1>0, <1>1, <1>2 DEF WorkStep, WorkDone, BfState
  <2>3. Covered'
    <3>1. ASSUME NEW u \in Versions, Published(u)
          PROVE  u \in bf'.todo \union bf'.failed \/ InHand(b, u)'
      <4>1. u \in bf.todo \union bf.failed \/ InHand(b, u)
        BY <1>1, <3>1 DEF Covered
      <4> QED  BY <1>0, <2>1, <2>2, <3>1, <4>1, HoldingFacts, TaskInHand
    <3> QED  BY <1>1, <3>1 DEF Covered
  <2>4. OwnWork'
    <3>1. CASE Delete(b) /\ bf' = bf
      <4>1. PICK w \in job[b].queue :
              /\ job'[b].queue = job[b].queue \ {w} /\ job'[b].pc # "idle"
              /\ job'[b].work \in {NoWork, w}
        BY <1>0, <3>1 DEF Delete, NextOf, Unoccupied
      <4> QED  BY <1>1, <3>1, <4>1 DEF OwnWork
    <3>2. CASE Produce(b) /\ bf' = bf
      <4>1. /\ job'[b].queue = job[b].queue /\ job'[b].work = job[b].work
            /\ job'[b].pc # "idle"
        BY <1>0, <3>2 DEF Produce, JobState
      <4> QED  BY <1>1, <3>2, <4>1 DEF OwnWork
    <3>3. CASE Insert(b) /\ bf' = bf
      <4>1. /\ job'[b].queue = job[b].queue /\ job'[b].work \in {NoWork, job[b].work}
            /\ job'[b].pc # "idle"
        BY <1>0, <3>3 DEF Insert, NextOf, Unoccupied, JobState
      <4> QED  BY <1>1, <3>3, <4>1 DEF OwnWork
    <3>4. CASE EndJob(b)
      <4>1. job'[b].queue = {} /\ job'[b].work = NoWork
        BY <1>0, <3>4 DEF EndJob, IdleJob, Unoccupied
      <4> QED  BY <4>1 DEF OwnWork
    <3> QED  BY <1>2, <3>1, <3>2, <3>3, <3>4 DEF WorkStep, WorkDone
  <2> QED  BY <1>1, <2>2, <2>3, <2>4 DEF FirstRun
<1>3. CASE WorkFails
  <2>1. /\ bf'.todo = bf.todo /\ bf'.failed = bf.failed \union {bf.version}
        /\ bf'.state = "running" /\ bf'.pc = "work" /\ bf'.version = bf.version
    BY <1>0, <1>1, <1>3 DEF WorkFails, BfState
  <2>2. /\ chunks' = chunks /\ job'[b].queue \subseteq job[b].queue
        /\ job'[b].work = NoWork /\ job'[b].pc = "next"
    <3>1. CASE DeleteFails(b)
      BY <1>0, <3>1 DEF DeleteFails, NextOf, Unoccupied
    <3>2. CASE ProduceFails(b) \/ InsertFails(b)
      BY <1>0, <3>2 DEF ProduceFails, InsertFails, NextOf, Unoccupied
    <3> QED  BY <1>3, <3>1, <3>2 DEF WorkFails
  <2>3. OwnWork'
    BY <1>1, <2>1, <2>2 DEF OwnWork
  <2>4. ASSUME NEW u \in Versions, Published(u), u \notin bf.todo \union bf.failed,
               u # bf.version
        PROVE  InHand(b, u)'
    <3>1. ~ Queued(b, u) /\ ~ Working(b, u)
      BY <1>0, <1>1, <2>4, HoldingFacts DEF OwnWork, Queued, Working
    <3>2. Settled(b, u)
      BY <1>1, <2>4, <3>1 DEF Covered, InHand
    <3>3. SectionsAre(u, version[u].text, Sections[version[u].text])'
      BY <1>1, <2>2, <3>2 DEF Settled, AllThere, SectionsAre, RowsOf
    <3>4. Unnamed(job'[b].queue, u)
      BY <2>2, <3>2 DEF Settled, Unnamed
    <3> QED  BY <2>2, <3>3, <3>4 DEF InHand, Settled, AllThere
  <2>5. Covered'
    BY <1>1, <2>1, <2>4 DEF Covered
  <2> QED  BY <1>1, <2>1, <2>3, <2>5 DEF FirstRun
<1> QED  BY <1>2, <1>3

\* The steps before the first version and after the last one.
LEMMA RunCovers ==
  ASSUME BootInv, FirstRun,
         Begin \/ Probe \/ ProbeFails \/ List \/ ListFails \/ Complete \/ ServerUp
  PROVE  FirstRun'
<1>0. TypeOK /\ TaskOK /\ bf \in BfState
  BY PartsOfBootTypeOK DEF BootInv, TaskOK
<1>1. /\ Alone' /\ version' = version /\ page' = page
      /\ \A u \in Versions : Published(u)' = Published(u)
  BY <1>0, TaskLeaves DEF BackfillStep, FirstRun
<1>2. UNCHANGED <<log, chunks, job>> /\ bf'.version = bf.version
  BY <1>0 DEF Begin, Probe, ProbeFails, List, ListFails, Complete, ServerUp, allVars, indexVars,
              BfState
<1>3. OwnWork'
  BY <1>2 DEF OwnWork, FirstRun
<1>4. \A u \in Versions : InHand(BackfillJob, u) => InHand(BackfillJob, u)'
  <2>1. \A u \in Versions : RowsOf(u)' = RowsOf(u)
    BY <1>2 DEF RowsOf
  <2> QED  BY <1>1, <1>2, <2>1, InHandStands
<1>5. CASE Begin
  <2>1. bf'.pc = "probe" /\ bf'.state = "running" /\ log = <<>>
    BY <1>0, <1>5 DEF Begin, BfAt, BfState, FirstRun
  <2> QED  BY <1>1, <1>2, <1>3, <2>1 DEF FirstRun
<1>6. CASE Probe
  <2>1. bf'.pc = "list" /\ bf'.state = bf.state /\ bf'.known = SyncedVersions /\ log = <<>>
        /\ bf.state # "completed"
    BY <1>0, <1>6 DEF Probe, BfAt, BfState, FirstRun, TaskOK
  <2>2. bf'.known = {}
    BY <2>1 DEF SyncedVersions
  <2> QED  BY <1>1, <1>3, <2>1, <2>2 DEF FirstRun
<1>7. CASE ProbeFails
  <2>1. /\ log = <<>> /\ bf'.pc \in {"probe", "ended"} /\ bf'.state # "completed"
    BY <1>0, <1>7 DEF ProbeFails, BfAt, BfState, FirstRun, TaskOK
  <2> QED  BY <1>1, <1>2, <1>3, <2>1 DEF FirstRun
<1>8. CASE List
  <2>1. /\ bf'.pc = "each" /\ bf'.state = bf.state /\ bf.state # "completed"
        /\ bf'.todo = ExpectedVersions \ {}
    BY <1>0, <1>8 DEF List, BfAt, BfState, FirstRun, TaskOK
  <2>2. Covered'
    BY <1>1, <2>1 DEF Covered, ExpectedVersions, Published
  <2> QED  BY <1>1, <1>3, <2>1, <2>2 DEF FirstRun
<1>9. CASE ListFails
  <2>1. bf'.pc = "ended" /\ bf'.state = "failed"
    BY <1>0, <1>9 DEF ListFails, BfState
  <2> QED  BY <1>1, <1>3, <2>1 DEF FirstRun
<1>10. CASE Complete
  <2>1. /\ bf'.pc = "ended" /\ bf'.todo = {} /\ bf.todo = {} /\ bf'.failed = bf.failed
        /\ bf.pc = "each"
    BY <1>0, <1>10 DEF Complete, BfAt, BfState
  <2>2. Covered'
    BY <1>1, <1>4, <2>1 DEF Covered, FirstRun
  <2> QED  BY <1>1, <1>3, <2>1, <2>2 DEF FirstRun
<1>11. CASE ServerUp
  <2>1. /\ bf'.pc = bf.pc /\ bf'.state = bf.state /\ bf'.todo = bf.todo
        /\ bf'.failed = bf.failed /\ bf'.known = bf.known
    BY <1>0, <1>11 DEF ServerUp, BfState
  <2>2. Covered => Covered'
    BY <1>1, <1>4, <2>1 DEF Covered
  <2> QED  BY <1>1, <1>2, <1>3, <2>1, <2>2 DEF FirstRun
<1> QED  BY <1>5, <1>6, <1>7, <1>8, <1>9, <1>10, <1>11

LEMMA FirstRunKept ==
  ASSUME BootInv, FirstBoot => FirstRun, [BootNext]_bfVars, FirstBoot'
  PROVE  FirstRun'
<1>0. FirstBoot /\ FirstRun /\ TypeOK
  BY FirstBootBefore DEF BootInv, BootTypeOK
<1>1. CASE Others
  BY <1>0, <1>1, OnlyARequestComes DEF Others, FirstRun, FirstBoot
<1>2. CASE Reboot
  <2>1. bf.boot = 1 /\ bf'.boot = bf.boot + 1
    BY <1>0, <1>2 DEF Reboot, Spawned, FirstBoot
  <2> QED  BY <2>1 DEF FirstBoot
<1>3. CASE UNCHANGED bfVars
  BY <1>0, <1>3 DEF bfVars, allVars, indexVars, dbVars, FirstRun, Alone, OwnWork, Covered,
                    Published, InHand, Queued, Working, Settled, AllThere,
                    SectionsAre, RowsOf, Holding, sent
<1> QED
  BY <1>0, <1>1, <1>2, <1>3, TakeCovers, WorkCovers, RunCovers DEF BootNext, BackfillStep

\* "A fresh deploy with N published pages ... results in N pages being queryable
\* within one boot cycle": when the task of the first boot ends as completed and no
\* request has come in, it has counted as failed every published version whose rows
\* are not the sections of its body, whichever of its calls failed in the middle.
THEOREM BootGapsAreCounted == BootSpec => []GapsAreCounted
<1>1. BootInit => (FirstBoot => FirstRun)
  <2> SUFFICES ASSUME BootInit  PROVE  FirstRun
    OBVIOUS
  <2>1. /\ \A j \in Jobs : /\ job[j].pc = "idle" /\ job[j].queue = {} /\ job[j].work = NoWork
        /\ BackfillJob \in Jobs
    BY BackfillJobAssumption DEF BootInit, IndexInit, IdleJob, Unoccupied
  <2>2. Alone /\ OwnWork
    BY <2>1 DEF BootInit, IdleReq, Alone, OwnWork
  <2>3. bf.pc = "spawned" /\ bf.state = "disabled" /\ log = <<>>
    BY DEF BootInit, IndexInit, Spawned
  <2> QED  BY <2>2, <2>3 DEF FirstRun
<1>2. BootInv /\ (FirstBoot => FirstRun) /\ [BootNext]_bfVars => (FirstBoot => FirstRun)'
  BY FirstRunKept
<1>3. BootInv /\ (FirstBoot => FirstRun) => GapsAreCounted
  <2> SUFFICES ASSUME BootInv, FirstRun, bf.state = "completed", NEW v \in Versions,
                      Published(v), v \notin bf.failed
               PROVE  Indexed(v)
    BY DEF GapsAreCounted, Ready, FirstBoot, Unindexed
  <2>1. TypeOK /\ TaskOK
    BY PartsOfBootTypeOK DEF BootInv
  <2>2. job[BackfillJob].pc = "idle" /\ job[BackfillJob].queue = {}
    BY <2>1 DEF TaskOK, BfAt, FirstRun, OwnWork
  <2>3. InHand(BackfillJob, v)
    BY DEF FirstRun, Covered
  <2>4. version[v].text \in Contents /\ Sections[version[v].text] \in Nat
    BY <2>1, SectionsAssumption, HoldingFacts DEF Versioned
  <2>5. SectionsAre(v, version[v].text, Sections[version[v].text])
    BY <2>2, <2>3, IdleIsSettled DEF Settled, AllThere
  <2>6. Cardinality(RowsOf(v)) = Sections[version[v].text]
    BY <2>4, <2>5, RowsAreCounted
  <2> QED  BY <2>5, <2>6 DEF Indexed, SectionsAre
<1>4. BootSpec => []BootInv
  BY BootInvAlways
<1> QED  BY <1>1, <1>2, <1>3, <1>4, PTL DEF BootSpec

=============================================================================
