----------------------------- MODULE McpSearch -----------------------------
(***************************************************************************)
(* The MCP server: a client's query is searched in the topic first and     *)
(* turned into pages afterwards, while the API goes on saving bodies,      *)
(* clearing rows and indexing, and the query log goes back to the API.     *)
(*                                                                         *)
(* The server reads the two stores and writes neither.  A call is one HTTP *)
(* request: it passes the bearer check, is told apart by endpoint, method  *)
(* and tool, and a query then waits twice, for the search and for the join *)
(* that turns offsets into rows.  The answer does not wait for the log.    *)
(***************************************************************************)
EXTENDS ChunkIndex

CONSTANTS
  Calls,      \* the requests the clients make
  Messages,   \* the bodies they send: endpoint, id, method, tool, arguments
  TopKs,      \* the numbers of results they ask for
  MaxTopK,    \* the largest number of results of an answer
  NoLang,     \* no language filter
  NoText,     \* the body of a version that does not exist
  NoMessage,  \* a call not made yet
  MaxSaves    \* bound: bodies saved

ASSUME MaxTopKAssumption == MaxTopK \in Nat \ {0}
ASSUME NothingAssumption == NoLang \notin Languages /\ NoText \notin Contents
ASSUME TopKsAssumption == TopKs \subseteq Nat
ASSUME MessagesAssumption == \A m \in Messages : m.endpoint \in {"query", "mcp"}

VARIABLES
  body,       \* page_versions.content_markdown of each version, or NoText
  call,       \* the state of each call
  queries,    \* the records of the topic mcp-queries
  saves       \* number of bodies saved

searchVars == <<indexVars, body, call, queries, saves>>

-----------------------------------------------------------------------------
(* Messages *)

\* tools/call: one tool, whose arguments must parse.
ToolCall(m) ==
  IF m.tool = "query" /\ m.arguments = "valid" THEN "search" ELSE "error"

\* What the server is and can do: told to anyone it lets in.
Discovers(m) == m.method \in {"initialize", "tools/list"}

\* What becomes of a message before any search: POST /query is always a
\* search; JSON-RPC goes by its version, method, tool and arguments.
Dispatch(m) ==
  CASE m.endpoint = "query"                        -> "search"
    [] m.endpoint = "mcp" /\ m.jsonrpc # "2.0"     -> "error"
    [] m.endpoint = "mcp" /\ m.jsonrpc = "2.0"     ->
         CASE Discovers(m)               -> "result"
           [] m.method = "initialized"   -> "nothing"
           [] m.method = "tools/call"    -> ToolCall(m)
           [] OTHER                      -> "error"

\* A JSON-RPC message without an id is a notification.
Notification(m) == m.endpoint = "mcp" /\ ~ m.id

Envelope(m, outcome) == IF Notification(m) THEN "nothing" ELSE outcome

Clamp(k) == IF k < 1 THEN 1 ELSE IF k > MaxTopK THEN MaxTopK ELSE k

-----------------------------------------------------------------------------
(* A call *)

NotMade == [pc |-> "new", message |-> NoMessage, lang |-> NoLang, k |-> 1,
            hits |-> {}, results |-> {}, reply |-> "nothing", toLog |-> FALSE]

Step(c, rec) == call' = [call EXCEPT ![c] = rec]

Answer(c, outcome) ==
  Step(c, [call[c] EXCEPT !.pc = "done", !.reply = Envelope(call[c].message, outcome)])

\* bearer_auth, then the handler of the endpoint.
Post(c, authorized, m, lang, k) ==
  /\ call[c].pc = "new"
  /\ LET sent == [NotMade EXCEPT !.message = m, !.lang = lang, !.k = Clamp(k)]
     IN  Step(c,
           IF ~ authorized
             THEN [sent EXCEPT !.pc = "done", !.reply = "unauthorized"]
           ELSE IF Dispatch(m) = "search" THEN [sent EXCEPT !.pc = "search"]
           ELSE [sent EXCEPT !.pc = "done", !.reply = Envelope(m, Dispatch(m))])
  /\ UNCHANGED <<indexVars, body, queries, saves>>

LanguageOf(rec) == rec.version[2]

\* The broker's search: the records the filter lets through, events included,
\* as far as they have been indexed.
Hits(lang, k) ==
  {hits \in SUBSET {o \in DOMAIN log : lang # NoLang => LanguageOf(log[o]) = lang} :
     Cardinality(hits) <= k}

\* A row joined with its version: the heading path of the chunk, the text of
\* the version as it is now.
Result(row) == [version |-> row.version, section |-> row.section,
                offset |-> row.offset, content |-> body[row.version]]

Answered(c, results) ==
  Step(c, [call[c] EXCEPT !.pc = "done", !.results = results, !.toLog = TRUE,
             !.reply = Envelope(call[c].message, "result")])

\* Nothing found: the answer is there, and no join is made.
Search(c) ==
  /\ call[c].pc = "search"
  /\ \E hits \in Hits(call[c].lang, call[c].k) :
       IF hits = {} THEN Answered(c, {})
                    ELSE Step(c, [call[c] EXCEPT !.hits = hits, !.pc = "enrich"])
  /\ UNCHANGED <<indexVars, body, queries, saves>>

\* Faulty variant of Enrich: an offset without a row is looked up by what its
\* record says it was.
EnrichByRecord(c) ==
  /\ call[c].pc = "enrich"
  /\ Answered(c, {Result(row) : row \in {r \in chunks :
       \E o \in call[c].hits : "section" \in DOMAIN log[o] /\ log[o].section = r.section}})
  /\ UNCHANGED <<indexVars, body, queries, saves>>

\* enrich_chunk_results: one statement; a hit without a row is left out.
Enrich(c) ==
  /\ call[c].pc = "enrich"
  /\ Answered(c, {Result(row) : row \in {r \in chunks : r.offset \in call[c].hits}})
  /\ UNCHANGED <<indexVars, body, queries, saves>>

\* The search or the join fails: an error, and nothing is logged.
QueryFails(c) ==
  /\ call[c].pc \in {"search", "enrich"}
  /\ Answer(c, "error")
  /\ UNCHANGED <<indexVars, body, queries, saves>>

\* Faulty variant of LogQuery: the hits are counted.
LogHits(c) ==
  /\ call[c].toLog
  /\ queries' = queries \union {[call |-> c, count |-> Cardinality(call[c].hits)]}
  /\ Step(c, [call[c] EXCEPT !.toLog = FALSE])
  /\ UNCHANGED <<indexVars, body, saves>>

\* The spawned POST /internal/mcp-log, and the event the API produces of it.
LogQuery(c) ==
  /\ call[c].toLog
  /\ queries' = queries \union {[call |-> c, count |-> Cardinality(call[c].results)]}
  /\ Step(c, [call[c] EXCEPT !.toLog = FALSE])
  /\ UNCHANGED <<indexVars, body, saves>>

\* Neither the POST nor the event is tried again.
LoseLog(c) ==
  /\ call[c].toLog
  /\ Step(c, [call[c] EXCEPT !.toLog = FALSE])
  /\ UNCHANGED <<indexVars, body, queries, saves>>

-----------------------------------------------------------------------------
(* The process *)

\* The server stops and starts: open calls end, logs not sent yet are lost.
RestartMcp ==
  /\ call' = [c \in Calls |->
       IF call[c].pc \in {"search", "enrich"}
         THEN [call[c] EXCEPT !.pc = "done", !.reply = "nothing"]
         ELSE [call[c] EXCEPT !.toLog = FALSE]]
  /\ UNCHANGED <<indexVars, body, queries, saves>>

-----------------------------------------------------------------------------
(* The API, as far as a search sees it *)

\* upsert or update_content_markdown
Save(v, text) ==
  /\ saves < MaxSaves /\ saves' = saves + 1
  /\ body' = [body EXCEPT ![v] = text]
  /\ UNCHANGED <<indexVars, call, queries>>

Bodies == {w \in Work : body[w.version] = w.text}

Index ==
  /\ \/ \E j \in Jobs : JobStep(j) \/ \E q \in SUBSET Bodies : StartJob(j, q)
     \/ \E v \in Versions : Clear(v) \/ EventArrives(v)
     \/ StopJobs
  /\ UNCHANGED <<body, call, queries, saves>>

SearchInit ==
  /\ IndexInit
  /\ body = [v \in Versions |-> NoText]
  /\ call = [c \in Calls |-> NotMade]
  /\ queries = {}
  /\ saves = 0

SearchNext ==
  \/ Index
  \/ \E v \in Versions, text \in Contents : Save(v, text)
  \/ \E c \in Calls :
       \/ \E authorized \in BOOLEAN, m \in Messages, lang \in Languages \union {NoLang},
             k \in TopKs : Post(c, authorized, m, lang, k)
       \/ Search(c) \/ Enrich(c) \/ QueryFails(c)
       \/ LogQuery(c) \/ LoseLog(c)
  \/ RestartMcp

SearchSpec == SearchInit /\ [][SearchNext]_searchVars

-----------------------------------------------------------------------------
(* Properties *)

\* However the search, the join and the writers of the index are interleaved:
\* each result is the page version and the section its hit was produced for,
\* in the language that was asked for; an event in the topic is never one; and
\* an answer has no more results than hits.
ResultsAreTheirHits ==
  \A c \in Calls :
    /\ \A r \in call[c].results :
         /\ r.offset \in call[c].hits
         /\ "section" \in DOMAIN log[r.offset]
         /\ r.version = log[r.offset].version /\ r.section = log[r.offset].section
         /\ call[c].lang # NoLang => r.version[2] = call[c].lang
    /\ Cardinality(call[c].results) <= MaxTopK

\* What the dashboard counts: a record of mcp-queries is there for a query that
\* was let in and answered, once, with the number of results the client was
\* given, zero for those that found nothing.
LoggedAsAnswered ==
  \A q \in queries :
    /\ call[q.call].pc = "done" /\ ~ call[q.call].toLog
    /\ Dispatch(call[q.call].message) = "search"
    /\ call[q.call].reply \in {"result", "nothing"}
    /\ q.count = Cardinality(call[q.call].results)

=============================================================================
