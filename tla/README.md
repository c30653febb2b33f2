# Historiador: models, checks and proofs

Historiador is a documentation server. Authors write markdown pages (one
*version* per language) with the help of a language model, publish them, and
other language models search what was published through an MCP server. This
directory holds TLA+ modules translated from the source, configurations that
check them with TLC on small instances, and proofs checked by TLAPS.

All paths below are relative to the repository. `api/` stands for
`apps/api/src/`, `db/` for `crates/db/src/`, `web/` for `apps/web/`.

1. [The system](#the-system): components, state, operations, interaction
2. [Modules](#modules): which module models what, and how it corresponds
3. [Runs](#runs): what is checked, on which instances, why they are enough
4. [Fairness](#fairness)
5. [Proofs](#proofs)
6. [Where code and documents disagree](#where-code-and-documents-disagree)
7. [What is not modelled](#what-is-not-modelled)
8. [Plan](#plan)

## The system

Three processes and two stores. The API (`apps/api`, axum on tokio) serves
authors; the MCP server (`apps/mcp`) serves language models and only reads; the
web client (`apps/web`, Next.js) talks to the API. Postgres holds everything
but the search index. Chronik, a Kafka-compatible log with vector search, holds
the records that are searched; a record is addressed by its offset.

| component | state | operations | talks to |
|---|---|---|---|
| search index and chunk pipeline (`api/infrastructure/chunker/pipeline.rs`, `db/vector_store.rs`, `db/postgres/chunks.rs`) | topic `published-pages`, table `chunks` (version, section, offset) | `run` (delete rows, cut, produce records, insert rows), `clear` | called by publish, draft, reindex, backfill; read by the MCP server |
| pages (`api/application/pages`) | `pages.status`, `page_versions` (body, status) | create, update, restore, publish, draft | spawns a pipeline task per publish; sends events |
| version history (`db/postgres/page_version_history.rs`) | append-only snapshots numbered per page and language | insert, `has_recent_snapshot`, list | written by update, restore, publish |
| domain events (`api/infrastructure/chronik`, `db/chronik/producer.rs`) | none; records in Chronik topics | fire-and-forget produce | `page.published` lands in the topic of the search index |
| admin reindex (`api/presentation/handler/admin/workspace.rs`) | none | spawn one task over all published versions | pipeline |
| boot-time backfill (`api/infrastructure/backfill`) | `BackfillState`, read by `/health/ready` | probe with retries, diff, run the missing versions | Chronik SQL, pipeline |
| MCP server (`apps/mcp`) | token of its environment, workspace row read at start | query, JSON-RPC methods | Chronik search, `chunks`, the query log of the API |
| editor sessions (`api/presentation/handler/editor_ws.rs`, `web/lib/editor-ws.ts`, `web/features/editor/chat`) | transcript row per page, language and author; a task per socket; what the tab shows | message, replay, skip discovery, review; canvas write | language model, `page_versions` |
| block documents (`crates/blocks`, `crates/tools`, `api/application/editor`) | block tree, open proposals, checkpoint buffer | five tool calls, accept, reject, batches, readiness check | chunker |
| chunker (`crates/chunker`) | none | markdown to chunks | pipeline |
| live editor (`web/app/(dashboard)/editor/page.tsx`, `api/presentation/handler/editor.rs`, `crates/llm`) | draft buffer, comments, open stream, loads and saves under way | draft, refine, comment, load, save | language model, pages |
| accounts (`api/application/auth`, `api/application/admin`, `web/lib/api.ts`) | users, sessions (refresh-token hashes), the pair in localStorage | login, refresh (rotate), logout, invite, activate, deactivate | every route |
| setup and settings (`api/application/setup`, middleware `setup_gate`, `update_llm_config.rs`, `web/app/setup`) | `installation` row, `workspaces` row, in-memory flag, client built at boot | probe, initialise, patch the settings | language model, every route |
| collections (`api/application/collections`, `db/postgres/collections.rs`) | parent pointers, slugs | create, rename, move, delete | pages; read by sidebar, export, MCP server |

### What is hard

Setup excepted, nothing above opens a transaction, and nothing takes a lock.
Every handler is a chain of awaited single statements; tokio and Postgres
interleave the chains of different requests, of tasks spawned by requests that
have been answered already, and of the backfill. Any statement can fail in the
middle of a chain, and a stop of the process removes all chains at once while
the stores stay. A browser adds its own: two tabs share tokens, a socket comes
back while the task of the old one still waits for the model, a page that was
asked for arrives when another one is on the screen. So the questions worth
asking are about order and staleness:

* What may a pipeline of a version do to another one of the same version?
* What does a guard (`page.status`, a session row, a workspace row) mean two
  statements later?
* Which work is lost with the process, and who repairs it?
* Which number does a snapshot or a turn get when two writers ask at once?
* What does "already synced" mean to the backfill?
* What is a search hit worth when the rows it is joined with have changed?
* What does a proposal mean on a document that is no longer the one it was made
  for?
* What is a reply worth that was cut off, and to which page does an answer belong?

### What makes each component correct

* *Index*: a row addresses the record of its own version, section and text; two
  rows never share an offset (the MCP server keys a map on it); one failing
  version does not take its batch along.
* *Pages*: what was never published is in no record, row or task; the status of
  a version is the status of its page; publishing records and indexes exactly
  what it publishes.
* *History*: numbers without gaps, nothing rewritten, no snapshot lost, saves at
  least a window apart, dates in the order of the numbers.
* *Backfill*: it always ends; when the first run has completed, everything
  published is indexed or counted as failed.
* *MCP server*: a result is the section its hit was produced for; the log counts
  what was answered.
* *Editor session*: a number is a position of the transcript; a reconnection
  fills every gap and shows no turn twice; no turn is lost.
* *Documents*: ids are unique, a proposal changes its block and nothing else,
  what is appended to a section comes at its end, batches keep order and respect
  structure, chunks lose nothing and name the headings they are under.
* *Live editor*: the draft is a whole document; a comment is settled by its own
  turn; what was loaded is on the page it was loaded for.
* *Accounts*: an account only advances; a deactivation ends what has not looked
  at the user yet; a tab throws away only a pair that is of no use.
* *Setup and settings*: the gate follows the table; what is stored was accepted
  by a probe; the client of the next start has a way in.
* *Collections*: a page is at one place, and at the same one for all three
  readers; entries of the export do not collide.

## Modules

| module | code it stands for | role |
|---|---|---|
| `ChunkIndex` | pipeline, chunk rows, produce calls | the two stores and the tasks; also the abstract specification of the index |
| `PageLifecycle` | page use cases and handlers, reindex, events, restart | extends `ChunkIndex`; implements its `IndexSpec` |
| `Backfill` | backfill service and state, boot order in `main` | extends `PageLifecycle` |
| `McpSearch` | MCP server, search and join, query log | extends `ChunkIndex`: the reader beside the writers |
| `AppendOnlyHistory` | the promise of migration 0003 | abstract: a sequence that only grows |
| `VersionHistory` | history statements and debounce | implements `AppendOnlyHistory` |
| `EditorSession` | editor WebSocket, both ends, transcript | sessions, tabs and messages |
| `Chunker` | chunker | pure functions, with what a chunk ought to be |
| `Documents` | block operations, proposals, batcher, readiness | extends `Chunker` |
| `LiveEditor` | editor page, stream handler, model clients | one browser tab |
| `Accounts` | users, sessions, token handling of the web client | server statements and tabs |
| `Installation` | setup, gate, model settings, setup page | requests, restarts, one browser |
| `Collections` | collections, pages in them, tree walks | tables and three readers |
| `ChunkIndex_proofs`, `VersionHistory_proofs`, `McpSearch_proofs`, `EditorSession_proofs`, `LiveEditor_proofs` | | theorems about the module of that name |
| `PageLifecycle_proofs` | | theorems about `PageLifecycle` and `Backfill` |
| `Documents_proofs` | | theorems about `Chunker` and `Documents` |
| `Workspace_proofs` | | theorems about `Accounts`, `Installation` and `Collections`, which share nothing |
| `MC*` | | instances |

**ChunkIndex.** `log` is the topic, `chunks` the table, `job[j]` a spawned task.
A job holds `queue` (the versions it still has, with the body it *read*; the
code moves owned strings into the task), `work`, `recs` (the offsets returned so
far) and `inserted`. `Delete` is `DELETE FROM chunks` and the cut that follows
it without an await; `Produce` is one awaited produce call; `Insert` is one
`INSERT` (insert_batch loops without a transaction). `DeleteFails`,
`ProduceFails` and `InsertFails` are the error returns: the caller logs and
takes the next version. A produce call that fails may have stored its record.
`Clear` is the draft request's delete, `EventArrives` the record of a
`page.published` event, `StopJobs` the end of the process. A body is a constant
with a number of sections: how markdown is cut is the matter of `Chunker`. The
order of a batch is left open (no statement orders it the same way everywhere).

**PageLifecycle.** `page[p]` and `version[v]` are rows, `history[v]` the
snapshots, `req[r]` a request being served with the program counter of its next
statement, `events[v]` the events sent and not yet delivered. One action is one
statement: an update is `UpdatePage` (page lookup and guard), `ReadVersion`,
`UpsertVersion`, `SnapshotSaved`; a publish is `ChangeStatus`, `SetPageStatus`,
`SetVersionStatus`, `LoadVersions`, one `PublishVersion` per version and `EndPass`.
`EndPass` is the 202: it frees the slot and spawns a task, which `tasks[p]` counts
until `StartPipeline(p, j)` reads the versions again, as they are by then, and takes
a job slot. Between the two, and beside the tasks of earlier publishes, the client
may ask for anything. Draft shares the first four actions, clears each version and
spawns nothing. `WriteCanvas` is the direct `UPDATE` of the editor's WebSocket
session, which looks at no status. `RequestFails`, `PassFails`, `PipelineFails`,
`TaskFails`, `LoseEvent` and `Restart` are the faults. The time-based debounce is a
choice here and is modelled with a clock in `VersionHistory`. `everPublished`,
`overwritten`, `disturbed` and `contested` are history variables: no guard reads
them.

**Backfill.** `bf` is the spawned task: `pc`, the shared `state`, `attempt`,
`known` (the probe's answer), `todo` (the diff), `version`, `failed` (the set the
code counts), and the boot number. It works in the slot `BackfillJob` of
`ChunkIndex` through the same actions, so pipelines of requests overlap with it.
`Spawned` starts with state `disabled`, because `main` spawns the task and goes
on to `axum::serve` (`ServerUp`); the first poll sets it to running (`Begin`).
`Ready` is what `/health/ready` answers from the shared state.
`Reboot` is `Restart` plus a fresh task. `SyncedVersions` is the SQL of
`list_synced_page_version_ids`, which asks for the field of *any* record.

**McpSearch.** A call is one HTTP request in either dialect (`POST /query`,
JSON-RPC). `Post` passes the bearer check, `Dispatch` decides by endpoint,
version, method, tool and arguments, `Search` is the request to Chronik,
`Enrich` the join with `chunks`, `pages` and `page_versions`, `LogQuery` the
fire-and-forget record, which needs not reach the API (`LoseLog`). Hits are any
subset of the matching records that fits the limit: the ranking is Chronik's.
Beside it `Save`, `Index`, `Clear`, `EventArrives` and the steps of `ChunkIndex`
go on. A version is in the language of its rows. `RestartMcp` takes every call
that is under way with it.

**VersionHistory.** `rows` is the table as a function of `version_number`;
`writer[w]` a request inside the history statements. An `INSERT` is three
actions, since READ COMMITTED lets others in between: `Arrive` (its `now()`),
`Number` (the common table expression reads `MAX`), `Insert` (the unique
constraint decides). `GiveUp` is any error, which the caller logs or drops.
`overlap` is a history variable that remembers whether two requests have been
under way at once.

**EditorSession.** `session[s]` is the server task behind a socket: its `pc`
walks through the loop of `run_socket` (take a frame, echo, read the transcript,
write it back, build the prompt, answer), `seq` is its counter. `tab[c]` is what
the hooks of a tab keep: thread, connection, `lastSeq`, the turns shown.
`toServer` and `toClient` are the frames under way; a socket that breaks drops
them, and the task finds out only when it sends (`SendThen`). `FindByKey` and
`Upsert` may fail, which the session logs and ignores. `clean[t]` is history: so
far no second task of the thread has come between and no statement has failed.

**Chunker** and **Documents.** A markdown node is a kind, a level and a number of
tokens; sections and chunks hold the places of nodes. `Collect` is one turn of the
loop over the document with its stack of headings, `Pack` one turn of the loop over
a section's blocks; `Collected` and `Packed` are the states of these loops after
every turn, as recursive functions, and `Split` what one section adds.
`CoversInOrder`, `UnderItsHeadings` and `WithinLimit` say what chunks ought to be
without mentioning a stack. `Documents` puts the block tree of the editor in
front: `Dispatch...` checks a tool call against the document as it is when the
call comes and makes a proposal, `Accept` applies it (`Applied`) to the document
as it is then. `Edit`, `Write` and `Erase` are the author's typing. `Push` and
`Timeout` are the checkpoint batcher. The handlers do not call these functions
yet, so the actions call them whenever their signatures let a caller do so.

**LiveEditor.** `stream` is the open event stream with the rest of the reply and
the buffer so far; a document is two fragments, so that it can be cut. `Items`
is what the client of each vendor makes of a frame (text, nothing, an error, the
end), `Sent` what the handler sends on, `Collected` what the page takes it for.
`loads` are the GET requests of the load effect: a new address cancels the older
ones, an answer of a cancelled one is dropped. `dialog` and `saves` are the save
dialog and its requests, from the click over the table (`Store`) and the answer
(`SaveSeen`) to the navigation it asks for (`Replace`), which a newer navigation
may drop (`UnderWay`).

**Accounts.** `user` and `pair` are the tables `users` and `sessions` (a pair is
an access token, which expires, and a refresh token, which is a row). `req[c]` is
the login or refresh request of a tab with the statement it is at, `call[k]` an
API call with its one retry, `store` the pair in localStorage, `leaving[c]` the pair
a tab is logging out with, from the click (`Logout`) over the server's `DELETE`
(`SignOut`) to the end of the wait (`LoggedOut`). `InviteStep`,
`LinkStep` and `UserStep` are the administrators' and the invited user's side.
`LoseRequest` is a dropped connection or a stop of the process between two
statements. `barred` is history: the user was deactivated when the request had
not looked yet.

**Installation.** `init[i]` is a request to `/setup/init` (`ProbeInit`, `Commit`
the transaction, `OpenGate`), `patch[p]` one to `/admin/workspace/llm`
(`ReadWorkspace`, `ProbePatch`, `WriteSettings` with the `COALESCE` of the SQL),
`wizard` the setup page with its form and its test button. `client` is what
`main` built at the last start. `accepted` and `halfway` are history.

**Collections.** `coll` and `page` are the tables with their constraints (foreign
keys, unique slugs among siblings, where NULLs differ from each other);
`request[r]` a creation between the lookup of its parent and its INSERT, the one
operation of two statements. `Reached` is what the cascade and the sidebar follow
the pointers to, the least set closed under them; `Walks` are the rows of a
recursive query, and `Sidebar`, `ExportPath` and `McpPath` what the three readers
make of them. `strayed` is history: collections that were moved beneath themselves
or into another workspace, which no statement prevents. Nor does any prevent a page
from being created in a collection of another workspace; `AtHome` tells those apart.

Definitions called "Faulty variant of X" are the plausible bugs the properties
are tested against; no specification uses them.

## Runs

Passing runs explore their instance completely.

| run | instance | distinct states | shows |
|---|---|---|---|
| `mcp_search` | 1 page in 2 languages, bodies of 1 and 2 sections, 1 pipeline, 3 records, 2 saves, 1 call of any of 5 kinds, at most 2 results | 970,000 | `ResultsAreTheirHits`, `LoggedAsAnswered` |
| `lifecycle_faults` | 1 page, bodies of 0, 1 and 2 sections, 2 requests and 2 jobs at a time, 4 requests, 4 records, 1 fault | 1,440,000 | `RowsPointAtTheirRecord`, `OffsetsUnique`, `NeverPublishedNeverIndexed`; `StatusAgrees`, `PublishedIsRecorded` and `PublishedIsIndexed` with their exceptions; `IndexSpec`: whatever the API does is a behaviour of the index module |
| `lifecycle_client` | 1 page, a body of no section and two of one, 1 request at a time, 5 in all, 2 jobs, no fault | 920,000 | `PublishLeadsToIndexed`, under fairness |
| `history` | 3 writers, window 2, clock to 3, 4 snapshots asked for | 560,000 | `AppendsOnly` always; `SerialKeepsAll`, `SerialDebounced`, `SerialInOrder` until requests overlap |
| `backfill` | 2 pages, 1 language, bodies of 0 and 1 sections, 1 request, 2 jobs, 1 fault, 7 records | 930,000 | `GapsAreCounted`, `BackfillEnds` |
| `editor_session` | 2 threads, 1 tab, 2 server tasks, 2 turns of the author, 1 frame under way to the server | 5,380,000 | `SeqIsPosition`, `CaughtUp`, `TranscriptOnlyGrows` |
| `accounts` | 1 address, 2 administrators, 2 clicks on a link, 2 tabs with 2 calls, 2 pairs | 2,580,000 | `NoPairAfterDeactivation`, `AccountsOnlyAdvance`, `NothingLiveThrownAway` |
| `installation` | 2 providers, 1 key, 1 address, 2 setup requests, 2 administrators, 2 workspaces | 2,210,000 | `GateFollowsTable`, `StoredWereAccepted`, `AlwaysAWayIn` |
| `documents` | 2 opening bodies, 2 tool calls, 1 edit of the author, 5 ids, batches of 2, chunks of 8 tokens, paragraphs that may be empty | 1,290,000 | the properties of `Documents` |
| `live_editor` | 2 pages, 2 comments, 2 blocks, 3 vendors, 2 replies, 2 saves, 2 moves | 2,810,000 | `DraftWhole`, `CommentsFollowTheirTurn`, `LoadedIsOnScreen` |
| `collections` | 3 collections, 2 pages, 2 workspaces, 3 names of which one has a slash and one no slug, 1 creation at a time | 760,000 | `EveryPageIsShown`, `EntriesApart` |
| `key_cleared` | `installation` with 1 administrator | | a counterexample to a comment and a test (below) |

*Bounds.* Every bound caps a counter that the program does not cap, and each is a
guard named in its module. A race between two pipelines needs two jobs, a partial
one a body of two sections. `lifecycle_faults` allows create, publish, a change and
a second publish, with any one step of them failing, and four records are what two
overlapping runs of two sections produce. `lifecycle_client` is one author who waits
for each answer and for nothing else: create, publish, draft, edit, publish is five
requests, and two tasks can then be at work on two bodies. The topic has all the
room these can use (12 records), so that the bound never stops a pipeline and the
liveness property is not vacuous. `backfill` gives the topic room for two boots over
two pages, a publish with its event and the records of failed calls. `history` needs
three writers for two of them to number rows while a third checks. `mcp_search`
needs a version saved and indexed again while a call waits, so two bodies and three
records: the old ones stay in the topic. `editor_session` needs two turns for a
replay to have a gap and an order, and two tasks for a tab that reconnects while the
old one waits; `MaxInFlight` bounds only the frames of the browser, since a task
sends one frame at a time. `accounts` needs two pairs for the old and the new one of
a refresh; the loser of two refreshes comes with two tabs. `installation` needs two
of everything that can overlap. `documents` needs two proposals for one to change
the document under the other, and an edit between them; five ids are three blocks
and two more. In `collections` three collections are the shortest cycle with one
beside it, or a path of three.

*Constraints.* `MCEditorSession` follows a behaviour only as long as every thread
is undisturbed: all properties are about threads that are, and a thread that was
disturbed stays so. `MCInstallation` follows either the setup page or the
settings at one time, not both.

*Deadlock* is checked where the system cannot stop by itself. It is not in the
runs whose requests or ids are used up in the end (`lifecycle_*`, `history`,
`backfill`, `documents`, `live_editor`, `collections`).

*Exceptions.* Some properties are false of the code in situations it does not
prevent (below). No theorem leaves these situations out, nor does a run, but for the
constraint on `editor_session`: a history variable remembers what has met one, and
the property speaks of the rest.

* `disturbed`: a page two of whose requests have overlapped, or one of whose
  requests has failed halfway, until a publish or draft begins on it alone.
  `StatusAgrees` and `PublishedIsRecorded` are about the other pages, between
  requests (`Undisturbed`).
* `contested`: a version that a task took up while another one held it, or that a
  task gave up or lost in a restart, until a task takes it up alone. `ToIndex`
  leaves out these versions and the disturbed pages, so `PublishedIsIndexed` and
  `PublishLeadsToIndexed` are about the rest. Neither the request slot nor the
  task of the same client keeps a page out of either set: one author who sends one
  request after the other can have two tasks on a version, and then it is contested.
* `overwritten`: a version whose body the editor's session replaced under a
  published page, by design of the code, until it is next published (`AsPublished`).
* `overlap`, in `history`: two requests have been under way on the version at once.
  The `Serial...` properties are about the time before.
* `strayed` and `AtHome`, in `collections`: a collection moved beneath itself or
  into another workspace, and a page created in another workspace's collection.
* `clean` in `editor_session`, `lost` and `barred` in `accounts`, `missed` in
  `editor_session`: each names the one situation in which the code does not keep
  the property, and the section on disagreements describes it.

## Fairness

`FairSpec` has weak fairness of `RequestStep(r)`, of `StartPipeline` for each page
with a task to start, and of `Pipeline(j)`; `FairBootSpec` of `BackfillStep`. The
code justifies them: the handlers and the tasks are futures on the tokio runtime,
which polls a future that can go on, and all of them await only statements and
calls that return or fail. Of the calls to Chronik this is an assumption:
`db/chronik/mod.rs:74` builds the client without a timeout, so one
that never answers would hold its task for good. No fairness is
assumed of new requests, event delivery, faults or restarts. `BackfillStep`
includes failures, because fairness only says that the task goes on, not that it
succeeds. The other modules state no fairness: nothing in them must happen. A
model may never answer, a browser may never come back, and an author need not
accept anything.

## Proofs

TLAPS proves these for every value of the constants: any number of pages,
languages, bodies, requests, tasks, faults, writers, threads, tabs, users and
settings, any window. None narrows this to one request, one task or no fault: what
a property excepts is in its own definition (*Exceptions* above).

| theorem | statement |
|---|---|
| `IndexTypeCorrect` | `IndexSpec => []IndexTypeOK` |
| `IndexInvariant` | `IndexSpec => []IndexInv` |
| `RowsAreFaithful` | `IndexSpec => []RowsPointAtTheirRecord` |
| `OffsetsAreUnique` | `IndexSpec => []OffsetsUnique` |
| `LifecycleTypeCorrect` | `Spec => []TypeOK`, of `PageLifecycle` |
| `LifecycleImplementsIndex` | `Spec => IndexSpec`, the refinement |
| `LifecycleRowsAreFaithful` | `Spec => [](RowsPointAtTheirRecord /\ OffsetsUnique)` |
| `NeverPublishedIsPrivate` | `Spec => []NeverPublishedNeverIndexed` |
| `StatusFollowsPage` | `Spec => []StatusAgrees` |
| `PublishIsRecorded` | `Spec => []PublishedIsRecorded` |
| `PublishIsIndexed` | `Spec => []PublishedIsIndexed` |
| `BootTypeCorrect` | `BootSpec => []BootTypeOK` |
| `BootImplementsIndex` | `BootSpec => IndexSpec`, the refinement with the backfill |
| `BootGapsAreCounted` | `BootSpec => []GapsAreCounted` |
| `HistoryTypeCorrect` | `Spec => []TypeOK`, of `VersionHistory` |
| `HistoryAppendsOnly` | `Spec => AppendsOnly`, the refinement of `AppendOnlyHistory` |
| `SerialHistoryIsComplete`, `...IsDebounced`, `...IsOrdered` | `Spec => []SerialKeepsAll`, `[]SerialDebounced`, `[]SerialInOrder` |
| `SearchUsesTheIndex` | `Spec => IndexSpec`, of `McpSearch` |
| `ResultsAreFaithful`, `LogIsFaithful` | `Spec => []ResultsAreTheirHits`, `[]LoggedAsAnswered` |
| `NumbersAreRight`, `NoTurnIsLost` | `Spec => []SeqIsPosition`, `TranscriptOnlyGrows`, of `EditorSession` |
| `ReconnectionCatchesUp` | `Spec => []CaughtUp` |
| `DraftsAreWhole`, `RepliesFollowTurns`, `LateLoadsAreDropped` | `Spec => []DraftWhole`, `[]CommentsFollowTheirTurn`, `LoadedIsOnScreen`, of `LiveEditor` |
| `AccountsTypeCorrect` | `Spec => []TypeOK`, of `Accounts` |
| `AccountsAdvance`, `RefusedPairIsSpent` | `Spec => AccountsOnlyAdvance`, `NothingLiveThrownAway` |
| `DeactivationStopsRequests` | `Spec => []NoPairAfterDeactivation` |
| `GateIsTheTable`, `NothingUnprobedStored`, `SettingsStayUsable` | `SetupSpec => []GateFollowsTable`, `[]StoredWereAccepted`, `[]AlwaysAWayIn`, of `Installation` |
| `TreeInvariant` | `TreeSpec => []TreeInv`, of `Collections` |
| `PagesAreShown`, `EntriesDiffer` | `TreeSpec => []EveryPageIsShown`, `[]EntriesApart` |
| `DocumentsTypeCorrect`, `OneBlockOnly`, `AppendsLandInSection` | `Spec => []TypeOK`, `OneBlockAtATime`, `AppendsToItsSection`, of `Documents` |
| `BatchesKeepOrder` | `Spec => []BatchesInOrder` |
| `ChunkerCoversEveryBody` | for every sequence of nodes, `CoversInOrder`, `UnderItsHeadings`, `WithinLimit` of its chunks |
| `ChunkerIsRight`, `ReadyMeansFindable` | `Spec => []ChunksCoverDocument`, `[]ReadySectionsAreFound` |

*Index.* Neither `RowsPointAtTheirRecord` nor `OffsetsUnique` is inductive: an
`Insert` copies an offset out of the job, so something must be known of the
offsets jobs hold. `IndexInv` adds `RecordsOwned` (they address the job's own
records), `RecordsNotShared` (no two jobs hold the same) and `PendingNotInRows`
(an offset not inserted yet is in no row). One lemma per action proves that the
action keeps all of it.

*Pages.* `StepOfTheIndex` maps every step of the API to a step of the index or to
none: a statement on the page tables leaves `log`, `chunks` and `job` alone, a
draft's pass is `Clear`, a publish or a reindex is `StartJob`. For that a batch
must name a version once and a pass must hold versions that exist, so the
refinement needs `TypeOK`. It is inductive: what is to be written is a body that
was given or read (`Keep` is gone once the version has been read), and only a
pass has versions left to do. With the refinement the theorems about the index
are theorems about the API. `NeverPublishedNeverIndexed` is not inductive either,
since what is in the index was read long before it arrives there. `PublishedInv`
follows it back to the click: records, rows and tasks hold pages that have been
published, because the versions marked published, the events sent, and the pass
and the task of a publish request do; a publish request marks the page in the
statement before the one that marks the versions. The page may have been taken
back in between, which is why the property speaks of pages that were *ever*
published.

*A page between its requests.* `StatusAgrees` and `PublishedIsRecorded` are about
pages no request is on, so `PageInv` follows the request that is. Of a page that is
not disturbed `PageOK` says that at most one request is on it, and how far that one
has brought the page (`StageOK`): past its first statement the page has the status
it is to have, and what a publish is about to record is the body as it is, or one
the editor has overwritten. A version may differ from its page only before the
statement that marks the versions, and a published version is recorded already or
`ToRecord`. `PageInv` is about one page: requests on other pages do not disturb it,
a second request on the same one, a fault or a restart marks the page, and a publish
or draft that begins alone clears the mark, since it will set all the statuses and
record all the bodies anew.

*What a publish has put into the index.* `IndexedInv` says of a version `ToIndex`
that it is `Expected` (a request on its page may still spawn a task, or a spawned
task is still to read) or `BeingIndexed`: queued in some job with its present body,
being worked on with the sections inserted so far, or all there with no job holding
it. `HeldByOne` says that two tasks hold the same version only when it is contested,
so that no older body can come after the one that counts; a task that reads takes
the body as it is by then, which is why an edit between answer and task does no
harm. A version leaves `ToIndex` when it is written over, taken back, disturbed or
contested, and comes back only by a publish that is then `Expected`, or by a task
that takes it up alone with its present body. `PublishedIsIndexed` counts rows;
`RowsAreCounted` gives the bijection with the sections.

*Backfill.* `BootInv` is `BootTypeOK` with one more fact: every boot but the first
was paid for with a fault, which bounds the boot number. `BootTypeOK` ties the
task to its slot (busy exactly while a version is worked on), so that every step
of the task is one of the index. `GapsAreCounted` is about the first boot while no
request has come. `FirstRun` says for that time that nobody else is at work, that
the topic is empty until the probe, so the probe finds nothing synced and the list
leaves nothing out, and from then on that every published version is still to do,
counted as failed, or `InHand` as above. A failure in the middle of a run moves the
version to the counted ones whatever rows it has left behind.

*History.* `TypeOK` is inductive with two facts that are not types: numbers have
no gaps (`rows` is a sequence), and a number a writer holds is at most one above
the last. `AppendsOnly` follows: an `Insert` whose number is free adds exactly
the next one. For the three `SerialHistory...` theorems the strengthening says
that at most one writer is busy, and what it has checked (nobody is newer than the
window) or read (its number is the next) is still true, since nothing else moves
but the clock.

*MCP server.* `SearchInv` contains the whole `IndexInv`: a result is joined
through an offset, and only `RowsPointAtTheirRecord` says that the row found there
is of the record that was hit, although rows have been deleted and inserted since.
It adds that hits are records of the topic in the language asked for, which stays
true because the topic only grows, that results come from hits, and that a call
that is to be logged was answered.

*Editor session.* `SeqIsPosition` speaks of turns on their way and on the screen,
and depends on a counter the task took from the transcript long before. For
undisturbed threads `CountsTranscript` says that the counter of the active task is
the length of the transcript, or one more while it holds a turn not written yet;
`WritesOverAll` that what it has read is still what is stored. `NothingToNobody`
and `ConnectedToThread` keep the frames of an older socket away from the tab. With
`WritesOverAll` the write of the whole array is an append, which is
`TranscriptOnlyGrows`. `CaughtUp` is about a screen, a wire and a row of the database
at one moment; `CourseInv` follows each tab there. Of a tab *on course* (it lost
nothing, its thread is undisturbed) the numbers shown are 1 to k, what is on its way
goes on from k, and a task that has not replayed yet will first be asked for what
comes after k. That the stream then reaches the end of the transcript follows from
the counter in `SessionInv`, where nobody is about to write. While two tasks of a
thread both are (`Crowded`), counters and screens may part although nothing has been
disturbed yet; the invariant leaves that time out, which is sound because whichever
of the two writes disturbs the thread (`CrowdStays`).

*Live editor.* A buffer is not a document until the reply is complete. `StreamOK`
says that buffer and rest together are one of the replies to the last prompt;
`LoadsWhole` and the saves carry the shape back to the draft. For the comments
`PendingOnLastBlock` is what makes the effect of the page settle all that wait.
`LoadsOnScreen` (only the page the address names is still waited for) gives
`LoadedIsOnScreen`.

*Accounts.* `RequestOK` follows a request from statement to statement: it knows its
user, that user is activated, and once the row of the old token has been deleted,
or the request was refused for good, the old pair has no session. With `StoreOK`
(what a tab put into the store is the pair its refresh presents) a tab throws
nothing live away. `BarredOK` says that a request whose user was deactivated in
time has no pair yet and will look at a user that is not active. It is kept by
every step but an activation, and `Activate` clears the mark, as the definition of
`barred` says. All this is independent of how many tabs, calls and pairs there are.

*Setup.* `ProbedInits` and `ProbedPatches` say of the requests under way what the
properties say of the table: what is about to be written was accepted by a probe,
or was kept from a row whose secrets were. `ProbedPatches` has to hold with the
`COALESCE` of the statement, which may put the kept key beside the new address.
`Marked` (a request between its commit and the gate has marked the table) carries
`GateFollowsTable`.

*Chunker.* The library's induction theorems take an operator as a parameter, which
no installed prover can instantiate. `SetInduction` is the form they accept: a set
of naturals that has 0 and with every member its successor is `Nat`, from the
library's statement that `<` on `Nat` has no infinite descent. With the set of the
lengths for which a function of the wanted equation exists, it gives `CollectedIs`
and `PackedIs` (the recursive functions obey their own equations), and with the set
of the places an invariant holds at, the loops are followed turn by turn.
`CollectInv` is that of `collect_sections`: sections and open nodes deal out the
content so far (`Deals`: each once and in order), and the stack is `Above`, the
headings no later one has closed. `PackInv` is that of the filling of chunks; it
has to know that only a run of one node can exceed the limit, because a chunk is
closed before the node that would not fit. `ChunkerCoversEveryBody` follows for
every body, not only for those a document can become.

*Documents.* `DocInv` says of the proposals what uniqueness of ids needs: the block
of an insert or an append has an id that is in no document and in no other such
proposal, a replacement has the id of the block it names. Every change of the
document is an insertion, a removal or a replacement at one place (`InsertedAt`,
`RemovedAt`, `ReplacedAt`), and `OneBlockOnly` maps the blocks kept before and after
onto each other in both directions. `AppendsLandInSection` rests on `EndIs`: no
heading between the named one and the place is as shallow, and the one at the place
is. For the batches the level the batcher remembers is that of every heading in the
buffer. `ReadyMeansFindable` combines the chunker with the readiness functions: a
path goes down one level at a time because the heading that follows an open one in
the document is at most one level deeper.

*Collections.* What a walk reaches cannot be followed from step to step: one move
changes a whole subtree. `TreeInv` says instead what a walk that fails must meet. A
row that has not strayed is in the workspace of its parent (`OneWorkspace`, which
needs the same of a creation whose parent was found and may be gone, and that no id
is used twice), and any set of rows that holds all its own parents has a member that
strayed (`CyclesStrayed`). A move of `c` to a parent that is not below it keeps
that: take from such a set what was below `c`, and what is left was such a set
before. If a placed page were in no walk, the rows above it that no walk comes to
would be such a set, none of which has strayed. That every row reached (`AtHome`
puts a page under such a row) has a walk, and only one, is shown on the sets of rows
for which it is so, which are closed under the pointers; the walk visits no row
twice, so the query ends. `EntriesDiffer` follows two walks of the same names from
their root, by `SiblingsApart`, with an induction on the place as in the chunker.

*Assumptions.* Only the named ASSUMEs of the modules: `Sections` maps bodies to
naturals, bounds and limits are naturals, a call belongs to a tab, a message goes
to one of the two endpoints, the providers are among the four of the code, a
heading has a rank of 1 to 6, a code block a fence that counts as text, an opening
body no more blocks than ids, collections are finitely many, a name without a
slash has its slug whatever of it the file system takes, and markers such as
`None`, `Keep`, `NoUser`, `NoWork` or `NoLang` are not among the values they stand
beside. TLC evaluates them on every run of a module that has them.

*Only model-checked.* `PublishLeadsToIndexed` and `BackfillEnds`: liveness under
fairness, which the installed provers do not reach. Every other property of a
passing run has a theorem that states it.

## Where code and documents disagree

One disagreement has a run of its own. `key_cleared`: an administrator who
replaces the OpenAI key by an address keeps the key. The use case passes NULL for
it, as its comment says ("wipe stored key"), and
`db/postgres/workspaces.rs:123` reads `COALESCE($3, llm_api_key_encrypted)`. The
unit test of that name uses a repository in memory.

The following were met while modelling. The models have the steps; the
properties name the exception.

*Pages and index*

* A publish answers before its pipeline starts; a draft request in between clears
  nothing, and the pipeline then indexes a drafted page (`draft_page.rs:47`; "Drafts
  stay private", `artifacts/plans/2026-04-25-vector-store-backfill-on-boot-spec.md:26`).
  The task reads the versions of the page, not its status.
* Two tasks of one version interleave delete and insert: the unique constraint
  stops one, and the rows left may be from two bodies (`pipeline.rs:43`, "Republish
  is a full reindex"). One user who waits for every answer suffices: publish, draft,
  edit, publish. Such a version is `contested`.
* The editor session updates `page_versions` directly (`editor_ws.rs:633`). On a
  published page the body then differs from the latest published snapshot
  (`artifacts/sprints/sprint-07.md:31`) and from the index.
* The guard of restore is checked before the upsert; a publish in between is
  overwritten (`version_history.rs:141`; "never overwrites a published page",
  `artifacts/sprints/sprint-07.md:56`). A save does the same, and a slow draft
  request clears the rows of a later publish. Such a page is `disturbed`, as is one
  whose publish or draft failed between its two `UPDATE` statements.
* A title-only save writes back the body it read, and undoes a save in between.
* The common table expression does not prevent two writers from reading the same
  maximum (`page_version_history.rs:37` says so); the second snapshot is dropped.
* A version with one record counts as synced, so one that failed in the middle is
  not picked up at the next boot (`service.rs:94`; the plan, line 127); a
  `page.published` event counts as well (`analytics.rs:212`).
* "Every save and publish snapshots the current content"
  (`page_version_history.rs:3`): create takes no snapshot, a save within 30 seconds
  of one is skipped, and nothing takes it later.
* `/health/ready` answers 200 between `axum::serve` and the first poll of the
  backfill task. The plan wraps the task so that a panic sets `Failed`;
  `main.rs:264` spawns it bare.

*MCP server*

* The token is the one in the environment of the MCP process
  (`apps/mcp/src/main.rs:46`). Regenerating it in the dashboard stores a hash no
  process reads; `docs/architecture.md:261`, `docs/security.md:58` and
  `README.md:149` describe it as the way to rotate the token.
* Hits without a row are dropped after the search, so a search full of orphaned
  records answers with fewer results than there are, or none.
* A message `initialized` is answered with 204 even when it carries an id; a
  `tools/call` without one still searches and is logged.
* A server started before setup logs under the nil workspace until it is restarted.
* A result carries the whole body of the page; `docs/architecture.md:212` says
  that clients never see the markdown.

*Editor session*

* "Worst case: messages interleave" (`editor_ws.rs:454`): two tasks of a thread
  write the whole array, and the later one loses the other's turns. A transcript
  that cannot be read is taken for empty and written over.
* The number is given and the turn is sent before it is written; when the write
  fails, the numbers of the session and the positions part.
* "On reconnect the client replays missed messages" (`editor_ws.rs:6`): the hello
  raises `lastSeq` to the length of the transcript, and a socket lost before the
  turns arrive never asks for them again.
* A canvas is written whatever the mode, also in review, which "may only emit
  comment_posted"; the review flag is used up by a reply that failed; a task whose
  browser has gone writes its canvas when the model answers.
* The optimistic turn of the author is never replaced by the numbered one, and the
  skip button once pressed never comes back.

*Documents*

* `apply`, which only tests call so far, does not compare the block with the
  `original` of the proposal, so a replacement would overwrite what the author has
  typed since. An append to a heading that has become a paragraph goes to the end of
  the document.
* Accepting in the proposal panel changes the list of proposals and not the
  document.
* Tables are never kept whole by the chunker: comrak runs without the extension.
  A page of headings alone has no chunk. The id comments of a serialised document
  count as content.
* A blank paragraph is content for readiness (`readiness.rs:68`) and not for the
  chunker, which drops a node without a word (`chunker/src/lib.rs:143`): a section of
  blanks alone is ready and in no chunk. `ReadySectionsAreFound` excludes it.
* `oversized` is "true if this chunk exceeds `max_tokens`" (`chunker/src/lib.rs:30`).
  A paragraph longer than that which another block follows is closed with `false`
  (line 235); only at the end of its section, or before a long code block, is it marked.

*Live editor*

* A reply that ends in the middle of a document leaves the draft as it was, which
  is right, but says nothing when the chat part was complete. The error events of
  Anthropic are skipped.
* A text frame of Anthropic that does not parse is skipped together with its text
  (`crates/llm/src/anthropic.rs:151`), and the reply goes on without it. The model
  takes the vendors' frames as well formed, so `DraftWhole` does not speak of this.
* A first save puts page and language into the address, which loads the page again;
  the answer may come over a draft that is newer (`page.tsx:74`).
* A page that cannot be loaded leaves the draft of the one before on the screen
  ("fall through to blank editor", `page.tsx:68`); saving it then updates the other
  page. A page that is loaded late replaces a draft that is newer.
* Comments are marked as replied when the stream ends in an error. They are not
  reset when the draft is replaced (`page.tsx:98`).
* Closing the dialog while it saves lets a second POST go. The unique constraint
  `page.tsx:36` relies on does not hold for pages of no collection.

*Accounts*

* Two tabs that refresh the same token: one loses and clears the pair of the
  other. A refresh whose answer is lost leaves a pair no one knows.
* An invitation stays usable when its user is deactivated before activating, and
  an activation that had read it lets a deactivated user in again.
* "Non-activated pending users past this window must be re-invited"
  (`api/infrastructure/auth/refresh_tokens.rs:14`), and an invitation refuses an
  address that exists.
* A logout awaits its POST and then removes whatever pair is in localStorage by then
  (`web/lib/auth-context.tsx:121`). When another tab has refreshed in between, that is
  the new pair, and its session stays.
* The retry after a refresh parses the body of a 204.

*Setup*

* `/setup/init` never looks at `setup_complete`; the README and the OpenAPI
  description promise 409, and migration 0002 a gate "from being called twice".
  Two requests make two workspaces, and the next start takes the older one.
* The flag is set after the commit: a request dropped in between leaves the gate
  shut until the next start.
* The setup page takes the answer of a probe for what the form holds now. The API
  probes again.
* A patch that keeps key or address writes back the one it read, and one that
  changes the provider keeps the other provider's key.

*Collections*

* An update does not look at the parent. A cycle, or a parent of another
  workspace, drops out of every walk from the roots: such pages are `_uncategorized`
  in the export and nowhere in the sidebar.
* `create_page.rs:39` never looks the collection up. A page created in a collection
  of another workspace is likewise in no sidebar, `_uncategorized` in the export of
  its own workspace, and under the other workspace's path in the MCP server's
  results. `EveryPageIsShown` excepts it (`AtHome`).
* "Set to null to move to root" (`api/presentation/handler/collections.rs:36`): null is read
  as unchanged, so a collection never returns to the root.
* Deleting a collection leaves its pages without one; `db/postgres/collections.rs:5`
  and the web client say they are deleted.
* Neither roots nor pages of no collection have unique slugs (NULLs differ), so
  their files in the export may collide. A name with a slash is two directories.
* `slugify` keeps letters that `Slug::parse` refuses: an accented name or title is
  rejected with 400.

## What is not modelled

* Analytics, telemetry, prompts, the health routes: reads and formatting. Text of
  any kind: titles, bodies beyond what a property needs, prompts, answers.
* Roles (one guard at the head of each use case), hashing and encryption.
* Requests and headers of the model clients, and calls without a stream: pure I/O.
* Parsing of markdown, which `comrak` does, and of one block's inside.
* Presence, metrics, outline and comment messages of the editor socket: the server
  does nothing with them. The REST routes for a saved conversation: no page calls
  them. `EditorV2`: no page mounts it.
* `regenerate_token.rs`: a statement whose result nobody reads.
* `api/bin`, one-off tools that are run by hand.
* In the modelled parts: the creation and configuration of Chronik topics (one
  partition), the deletion of pages and versions (no route does it), `sort_order`,
  the graceful shutdown, which waits for requests but not for tasks and so is
  covered by `Restart`.

## Plan

What the project is to go on with:

1. The saves of the live editor against the page use cases: `LiveEditor` stores a
   draft in one step, while `PageLifecycle` has the statements of the update, and
   its refusal on a page that was published meanwhile.
2. Two tabs in `LiveEditor`, on the same page, and two languages of one page.
3. Frames a vendor's client cannot parse, as a third end of a reply in `LiveEditor`,
   with what may then still be claimed of a draft.
