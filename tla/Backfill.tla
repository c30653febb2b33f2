------------------------------ MODULE Backfill ------------------------------
(***************************************************************************)
(* The task that refills the index when the API process boots.             *)
(*                                                                         *)
(* With BACKFILL_ON_BOOT the process spawns one task beside the server.    *)
(* The task asks Chronik which page versions the topic mentions (retrying  *)
(* a few times), asks Postgres which belong to a published page, and runs  *)
(* the pipeline on those that are missing, one after the other.  The state *)
(* it leaves behind is what GET /health/ready answers from.                *)
(*                                                                         *)
(* The task works in the job slot BackfillJob; requests, pipelines and     *)
(* event deliveries of PageLifecycle go on at the same time, and every     *)
(* restart of the process spawns the task again.                           *)
(***************************************************************************)
EXTENDS PageLifecycle

CONSTANTS
  BackfillJob,  \* the job slot the task works in
  Retries       \* length of PROBE_BACKOFF

ASSUME BackfillJobAssumption == BackfillJob \in Jobs
ASSUME RetriesAssumption     == Retries \in Nat

VARIABLE bf     \* the task, its BackfillState and its counters

bfVars == <<allVars, bf>>

-----------------------------------------------------------------------------

\* The state shared with /health/ready is still Disabled until the spawned
\* task runs for the first time.  The counter of failures is the set of the
\* versions it counts, which the task logs.
Spawned(boot) ==
  [pc |-> "spawned", state |-> "disabled", attempt |-> 0, known |-> {},
   todo |-> {}, version |-> None, failed |-> {},
   boot |-> boot, serving |-> FALSE]

\* SELECT DISTINCT the "page_version_id" of the records of the topic, whatever
\* else a record holds.
SyncedVersions == {log[i].version : i \in 1..Len(log)}

\* SELECT the versions of the pages whose status is published.
ExpectedVersions == {v \in Versions : version[v] # None /\ page[v[1]] = "published"}

BfAt(pc) == bf.pc = pc

Begin ==
  /\ BfAt("spawned")
  /\ bf' = [bf EXCEPT !.pc = "probe", !.state = "running"]
  /\ UNCHANGED allVars

Probe ==
  /\ BfAt("probe")
  /\ bf' = [bf EXCEPT !.pc = "list", !.known = SyncedVersions]
  /\ UNCHANGED allVars

\* Three retries, then the task gives up for good.
ProbeFails ==
  /\ BfAt("probe")
  /\ bf' = IF bf.attempt < Retries
             THEN [bf EXCEPT !.attempt = @ + 1]
             ELSE [bf EXCEPT !.pc = "ended", !.state = "failed"]
  /\ UNCHANGED allVars

List ==
  /\ BfAt("list")
  /\ bf' = [bf EXCEPT !.pc = "each", !.todo = ExpectedVersions \ bf.known]
  /\ UNCHANGED allVars

ListFails ==
  /\ BfAt("list")
  /\ Fault
  /\ bf' = [bf EXCEPT !.pc = "ended", !.state = "failed"]
  /\ UNCHANGED <<indexVars, dbVars, req, sent, disturbed, contested>>

\* Faulty variant of Take: the version stays on the list.
TakeAgain(v) ==
  /\ BfAt("each")
  /\ v \in bf.todo
  /\ TakeUp(BackfillJob, {[version |-> v, text |-> version[v].text]})
  /\ bf' = [bf EXCEPT !.pc = "work", !.version = v]
  /\ UNCHANGED <<dbVars, req, sent, served, faults, disturbed>>

\* run_one(): reads the body and hands it to the pipeline.
Take(v) ==
  /\ BfAt("each")
  /\ v \in bf.todo
  /\ TakeUp(BackfillJob, {[version |-> v, text |-> version[v].text]})
  /\ bf' = [bf EXCEPT !.pc = "work", !.todo = @ \ {v}, !.version = v]
  /\ UNCHANGED <<dbVars, req, sent, served, faults, disturbed>>

TakeFails(v) ==
  /\ BfAt("each")
  /\ v \in bf.todo
  /\ Fault
  /\ bf' = [bf EXCEPT !.todo = @ \ {v}, !.failed = @ \union {v}]
  /\ UNCHANGED <<indexVars, dbVars, req, sent, disturbed, contested>>

WorkStep ==
  /\ BfAt("work")
  /\ Delete(BackfillJob) \/ Produce(BackfillJob) \/ Insert(BackfillJob)
  /\ UNCHANGED <<dbVars, req, sent, served, faults, disturbed, contested, bf>>

\* Faulty variant of WorkFails: the failure is not counted.
WorkFailsUncounted ==
  /\ BfAt("work")
  /\ Fault
  /\ DeleteFails(BackfillJob) \/ ProduceFails(BackfillJob) \/ InsertFails(BackfillJob)
  /\ GiveUp(BackfillJob)
  /\ UNCHANGED <<dbVars, req, sent, disturbed, bf>>

\* Faulty variant of WorkFails: the task goes on while the slot is busy.
WorkFailsEarly ==
  /\ BfAt("work")
  /\ Fault
  /\ DeleteFails(BackfillJob) \/ ProduceFails(BackfillJob) \/ InsertFails(BackfillJob)
  /\ bf' = [bf EXCEPT !.pc = "each", !.version = None]
  /\ GiveUp(BackfillJob)
  /\ UNCHANGED <<dbVars, req, sent, disturbed>>

WorkFails ==
  /\ BfAt("work")
  /\ \/ Fault /\ (DeleteFails(BackfillJob) \/ ProduceFails(BackfillJob)
                    \/ InsertFails(BackfillJob))
     \/ /\ InsertFails(BackfillJob)
        /\ Conflicts(job[BackfillJob].work.version, job[BackfillJob].inserted + 1)
        /\ UNCHANGED <<served, faults>>
  /\ bf' = [bf EXCEPT !.failed = @ \union {bf.version}]
  /\ GiveUp(BackfillJob)
  /\ UNCHANGED <<dbVars, req, sent, disturbed>>

WorkDone ==
  /\ BfAt("work")
  /\ EndJob(BackfillJob)
  /\ bf' = [bf EXCEPT !.pc = "each", !.version = None]
  /\ UNCHANGED <<dbVars, req, sent, served, faults, disturbed, contested>>

Complete ==
  /\ BfAt("each")
  /\ bf.todo = {}
  /\ bf' = [bf EXCEPT !.pc = "ended", !.state = "completed"]
  /\ UNCHANGED allVars

\* What GET /health/ready answers while the server serves: 200 where the status
\* is "ready", 503 otherwise.
Ready ==
  [status   |-> IF bf.state \in {"disabled", "completed"} THEN "ready" ELSE "not_ready",
   backfill |-> bf.state,
   failed   |-> IF bf.state = "completed" THEN bf.failed ELSE {}]

\* main() goes on to axum::serve without waiting for the task.
ServerUp ==
  /\ ~ bf.serving
  /\ bf' = [bf EXCEPT !.serving = TRUE]
  /\ UNCHANGED allVars

BackfillStep ==
  \/ Begin \/ Probe \/ ProbeFails \/ List \/ ListFails
  \/ \E v \in Versions : Take(v) \/ TakeFails(v)
  \/ WorkStep \/ WorkFails \/ WorkDone
  \/ Complete

-----------------------------------------------------------------------------

\* The first boot of a deployment that brings its pages along and starts with
\* an empty topic (or of a new one, which has no pages).
BootInit ==
  /\ IndexInit
  /\ page \in [Pages -> {None, "draft", "published"}]
  /\ version \in [Versions -> {None} \union
                     [status : {"draft", "published"}, text : Contents]]
  /\ \A v \in Versions : version[v] # None => version[v].status = page[v[1]]
  /\ history = [v \in Versions |->
       IF Published(v) THEN <<Snapshot(version[v].text, TRUE)>> ELSE <<>>]
  /\ everPublished = {p \in Pages : page[p] = "published"}
  /\ overwritten = {}
  /\ disturbed = {}
  /\ contested = Versions
  /\ req = [r \in Requests |-> IdleReq]
  /\ events = [v \in Versions |-> 0]
  /\ tasks = [p \in Pages |-> 0]
  /\ served = 0
  /\ faults = 0
  /\ bf = Spawned(1)

\* The server and the other tasks, which leave the task's slot alone.
Others == /\ bf.serving /\ Serve
          /\ job'[BackfillJob] = job[BackfillJob]
          /\ UNCHANGED bf

Reboot == Restart /\ bf' = Spawned(bf.boot + 1)

BootNext == BackfillStep \/ ServerUp \/ Others \/ Reboot

BootSpec == BootInit /\ [][BootNext]_bfVars

\* The runtime polls the spawned task.
FairBootSpec == BootSpec /\ WF_bfVars(BackfillStep)

-----------------------------------------------------------------------------
(* Properties *)

Unindexed == {v \in Versions : Published(v) /\ ~ Indexed(v)}

\* The type invariant: the task's slot is busy exactly while a version is
\* being worked on, and the state agrees with where the task is.
BootTypeOK ==
  /\ TypeOK
  /\ bf \in [pc : {"spawned", "probe", "list", "each", "work", "ended"},
             state : {"disabled", "running", "completed", "failed"},
             attempt : 0..Retries, known : SUBSET Versions,
             todo : SUBSET Versions, version : Versions \union {None},
             failed : SUBSET Versions,
             boot : 1..(MaxFaults + 1), serving : BOOLEAN]
  /\ BfAt("work") <=> job[BackfillJob].pc # "idle"
  /\ BfAt("spawned") <=> bf.state = "disabled"
  /\ BfAt("ended") <=> bf.state \in {"completed", "failed"}
  /\ BfAt("work") <=> bf.version # None
  /\ \A v \in bf.todo : version[v] # None

\* "A fresh deploy with N published pages and an empty Chronik results in N
\* pages being queryable within one boot cycle" (backfill spec): where the
\* first run is reported as completed, each version that is not indexed is
\* among the failures it reports.
GapsAreCounted ==
  Ready.backfill = "completed" /\ bf.boot = 1 /\ served = 0
    => Unindexed \subseteq Ready.failed

\* "The backfill never aborts on a single-page failure", and the probe's
\* retries are bounded: the task comes to an end in every boot.
BackfillEnds == bf.state \notin {"completed", "failed"}
                  ~> bf.state \in {"completed", "failed"}

=============================================================================
