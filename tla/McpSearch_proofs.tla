-------------------------- MODULE McpSearch_proofs --------------------------
(* What a search answers and what is logged of it, for any number of calls, *)
(* pages and pipelines.                                                     *)
EXTENDS McpSearch, ChunkIndex_proofs, FiniteSetTheorems

-----------------------------------------------------------------------------
(* The inductive invariant *)

Found == [version : Versions, section : Nat \ {0}, offset : Nat \ {0},
          content : Contents \union {NoText}]

CallState == [pc : {"new", "search", "enrich", "done"},
              message : Messages \union {NoMessage},
              lang : Languages \union {NoLang}, k : 1..MaxTopK,
              hits : SUBSET (Nat \ {0}), results : SUBSET Found,
              reply : {"result", "nothing", "error", "unauthorized"},
              toLog : BOOLEAN]

CallsTyped == /\ body \in [Versions -> Contents \union {NoText}]
              /\ call \in [Calls -> CallState]

\* The hits are records of the language asked for, and no more than asked for.
HitsOK(cl) ==
  /\ cl.hits \subseteq 1..Len(log) /\ Cardinality(cl.hits) <= MaxTopK
  /\ cl.lang # NoLang => \A o \in cl.hits : LanguageOf(log[o]) = cl.lang

FromHit(cl, r) ==
  /\ r.offset \in cl.hits
  /\ "section" \in DOMAIN log[r.offset]
  /\ r.version = log[r.offset].version /\ r.section = log[r.offset].section

ResultsOK(cl) ==
  /\ \A r \in cl.results : FromHit(cl, r)
  /\ Cardinality(cl.results) <= MaxTopK

\* A call searches only for a query, and logs only once it is answered.
ProgressOK(cl) ==
  /\ cl.pc \in {"search", "enrich"} => Dispatch(cl.message) = "search"
  /\ cl.pc # "done" => ~ cl.toLog /\ cl.results = {}
  /\ cl.toLog => Dispatch(cl.message) = "search" /\ cl.reply \in {"result", "nothing"}

CallOK(cl) == HitsOK(cl) /\ ResultsOK(cl) /\ ProgressOK(cl)

QueriesMade == \A q \in queries : q.call \in Calls

SearchInv == /\ IndexInv /\ CallsTyped
             /\ \A c \in Calls : CallOK(call[c])
             /\ QueriesMade /\ LoggedAsAnswered

-----------------------------------------------------------------------------
(* The index goes on under the searches *)

\* A version has one body, so what a task reads names no version twice.
LEMMA BodiesAreABatch ==
  ASSUME NEW q \in SUBSET Bodies
  PROVE  q \in Batch
<1>1. ASSUME NEW w \in q, NEW x \in q, w.version = x.version  PROVE w = x
  BY <1>1 DEF Bodies, Work
<1> QED  BY <1>1 DEF Batch, Bodies

LEMMA IndexSteps ==
  ASSUME [SearchNext]_searchVars
  PROVE  [IndexNext]_indexVars
<1>1. CASE Index
  BY <1>1, BodiesAreABatch DEF Index, IndexNext
<1>2. CASE UNCHANGED searchVars
  BY <1>2 DEF searchVars
<1>3. CASE SearchNext /\ ~ Index
  BY <1>3 DEF SearchNext, Save, Post, Search, Enrich, QueryFails, LogQuery, LoseLog, RestartMcp
<1> QED  BY <1>1, <1>2, <1>3

\* Records of the topic are never changed and never go.
RecordsStay == /\ Len(log) \in Nat /\ Len(log') \in Nat /\ Len(log) <= Len(log')
               /\ \A o \in 1..Len(log) : log'[o] = log[o]

LEMMA TopicGrows ==
  ASSUME IndexInv, [IndexNext]_indexVars
  PROVE  RecordsStay
<1>0. log \in Seq(LogRecord) /\ Len(log) \in Nat
  BY DEF IndexInv, IndexTypeOK
<1>1. CASE UNCHANGED log
  BY <1>0, <1>1 DEF RecordsStay
<1>2. ASSUME NEW rec, Append1(rec)  PROVE RecordsStay
  BY <1>0, <1>2 DEF Append1, RecordsStay
<1>3. ASSUME NEW j \in Jobs, JobStep(j)  PROVE RecordsStay
  BY <1>1, <1>2, <1>3 DEF JobStep, Delete, DeleteFails, Produce, ProduceFails, Insert,
                          InsertFails, EndJob
<1> QED  BY <1>1, <1>2, <1>3 DEF IndexNext, indexVars, StartJob, Clear, EventArrives, StopJobs

-----------------------------------------------------------------------------
(* Calls *)

LEMMA Bounds == MaxTopK \in Nat /\ MaxTopK >= 1 /\ NoLang \notin Languages
BY MaxTopKAssumption, NothingAssumption

LEMMA ClampBounds ==
  ASSUME NEW k \in TopKs
  PROVE  Clamp(k) \in 1..MaxTopK
BY Bounds, TopKsAssumption DEF Clamp

\* What a call has found stays what it is while the topic grows.
LEMMA CallStaysOK ==
  ASSUME RecordsStay, NEW c \in Calls, CallOK(call[c]), call'[c] = call[c]
  PROVE  CallOK(call[c])'
BY DEF RecordsStay, CallOK, HitsOK, ResultsOK, FromHit, ProgressOK

LEMMA EmptyHasNone == Cardinality({}) = 0 /\ IsFiniteSet({})
BY FS_EmptySet

\* The rows of a set of hits are no more than the hits: offsets are unique.
LEMMA ResultsFitHits ==
  ASSUME OffsetsUnique, NEW hits, IsFiniteSet(hits)
  PROVE  LET found == {Result(row) : row \in {r \in chunks : r.offset \in hits}}
         IN  IsFiniteSet(found) /\ Cardinality(found) <= Cardinality(hits)
<1> DEFINE found == {Result(row) : row \in {r \in chunks : r.offset \in hits}}
           f == [r \in found |-> r.offset]
<1>1. f \in Injection(found, hits)
  <2>1. ASSUME NEW row \in chunks  PROVE Result(row).offset = row.offset
    BY DEF Result
  <2>2. f \in [found -> hits]
    BY <2>1
  <2>3. ASSUME NEW a \in found, NEW b \in found, a.offset = b.offset  PROVE a = b
    BY <2>1, <2>3 DEF OffsetsUnique
  <2> QED  BY <2>2, <2>3 DEF Injection, IsInjective
<1> HIDE DEF found, f
<1> QED  BY <1>1, FS_Injection DEF found

\* A step that moves one call on, which is not logged yet.
LEMMA OneCall ==
  ASSUME SearchInv, [IndexNext]_indexVars, UNCHANGED <<body, queries>>,
         NEW c \in Calls, NEW rec \in CallState, call' = [call EXCEPT ![c] = rec],
         CallOK(call[c])', call[c].pc # "done" \/ call[c].toLog
  PROVE  SearchInv'
<1>1. IndexInv' /\ RecordsStay
  BY IndexInvStep, TopicGrows DEF SearchInv
<1>2. CallsTyped' /\ \A d \in Calls \ {c} : call'[d] = call[d]
  BY DEF SearchInv, CallsTyped
<1>3. \A d \in Calls : CallOK(call[d])'
  BY <1>1, <1>2, CallStaysOK DEF SearchInv
<1>4. QueriesMade' /\ LoggedAsAnswered'
  BY <1>2 DEF SearchInv, QueriesMade, LoggedAsAnswered
<1> QED  BY <1>1, <1>2, <1>3, <1>4 DEF SearchInv

\* A step that moves no call.
LEMMA NoCall ==
  ASSUME SearchInv, [IndexNext]_indexVars, UNCHANGED <<call, queries>>,
         body' \in [Versions -> Contents \union {NoText}]
  PROVE  SearchInv'
<1>1. IndexInv' /\ RecordsStay
  BY IndexInvStep, TopicGrows DEF SearchInv
<1>2. CallsTyped'
  BY DEF SearchInv, CallsTyped
<1>3. \A d \in Calls : CallOK(call[d])'
  BY <1>1, CallStaysOK DEF SearchInv
<1> QED  BY <1>1, <1>2, <1>3 DEF SearchInv, QueriesMade, LoggedAsAnswered

LEMMA DispatchOutcomes ==
  ASSUME NEW m \in Messages
  PROVE  Dispatch(m) \in {"search", "error", "result", "nothing"}
<1>1. m.endpoint \in {"query", "mcp"}
  BY MessagesAssumption
<1>2. CASE m.endpoint = "query"
  BY <1>2 DEF Dispatch
<1>3. CASE m.endpoint = "mcp" /\ m.jsonrpc # "2.0"
  BY <1>3 DEF Dispatch
<1>4. CASE m.endpoint = "mcp" /\ m.jsonrpc = "2.0"
  <2> DEFINE byMethod == CASE Discovers(m)               -> "result"
                           [] m.method = "initialized"   -> "nothing"
                           [] m.method = "tools/call"    -> ToolCall(m)
                           [] OTHER                      -> "error"
  <2>1. Dispatch(m) = byMethod
    BY <1>4 DEF Dispatch
  <2>2. ToolCall(m) \in {"search", "error"}
    BY DEF ToolCall
  <2>3. byMethod \in {"result", "nothing", "search", "error"}
    BY <2>2 DEF Discovers
  <2> QED  BY <2>1, <2>3
<1> QED  BY <1>1, <1>2, <1>3, <1>4

LEMMA PostStep ==
  ASSUME SearchInv, NEW c \in Calls, NEW authorized \in BOOLEAN, NEW m \in Messages,
         NEW lang \in Languages \union {NoLang}, NEW k \in TopKs,
         Post(c, authorized, m, lang, k)
  PROVE  SearchInv'
<1> DEFINE sent == [NotMade EXCEPT !.message = m, !.lang = lang, !.k = Clamp(k)]
           rec == IF ~ authorized
                    THEN [sent EXCEPT !.pc = "done", !.reply = "unauthorized"]
                  ELSE IF Dispatch(m) = "search" THEN [sent EXCEPT !.pc = "search"]
                  ELSE [sent EXCEPT !.pc = "done", !.reply = Envelope(m, Dispatch(m))]
<1>1. /\ call' = [call EXCEPT ![c] = rec] /\ call[c].pc = "new"
      /\ UNCHANGED <<body, queries>> /\ [IndexNext]_indexVars
  BY DEF Post, Step
<1>2. Dispatch(m) # "search" => Envelope(m, Dispatch(m)) \in {"result", "nothing", "error"}
  BY DispatchOutcomes DEF Envelope
<1>3. /\ rec \in CallState
      /\ rec.hits = {} /\ rec.results = {} /\ ~ rec.toLog /\ rec.message = m
      /\ rec.pc = "search" => Dispatch(m) = "search"
      /\ rec.pc # "enrich"
  <2>1. /\ sent \in CallState /\ sent.hits = {} /\ sent.results = {} /\ ~ sent.toLog
        /\ sent.message = m
    BY ClampBounds DEF NotMade, CallState
  <2> HIDE DEF sent
  <2>2. CASE ~ authorized
    BY <2>1, <2>2 DEF CallState
  <2>3. CASE authorized /\ Dispatch(m) = "search"
    BY <2>1, <2>3 DEF CallState
  <2>4. CASE authorized /\ Dispatch(m) # "search"
    BY <1>2, <2>1, <2>4 DEF CallState
  <2> QED  BY <2>2, <2>3, <2>4
<1> HIDE DEF rec
<1>4. call'[c] = rec
  BY <1>1 DEF SearchInv, CallsTyped
<1>5. CallOK(call[c])'
  <2>1. HitsOK(call[c])'
    <3>1. call'[c].hits = {}
      BY <1>3, <1>4
    <3> QED  BY <3>1, EmptyHasNone, Bounds DEF HitsOK
  <2>2. ResultsOK(call[c])'
    BY <1>3, <1>4, EmptyHasNone, Bounds DEF ResultsOK
  <2>3. ProgressOK(call[c])'
    BY <1>3, <1>4 DEF ProgressOK
  <2> QED  BY <2>1, <2>2, <2>3 DEF CallOK
<1> QED  BY <1>1, <1>3, <1>5, OneCall

\* The answer to a query, whatever it found.
LEMMA AnsweredStep ==
  ASSUME SearchInv, NEW c \in Calls, call[c].pc \in {"search", "enrich"},
         UNCHANGED <<indexVars, body, queries>>,
         NEW results \in SUBSET Found, Answered(c, results),
         \A r \in results : FromHit(call[c], r), Cardinality(results) <= MaxTopK
  PROVE  SearchInv'
<1> DEFINE rec == [call[c] EXCEPT !.pc = "done", !.results = results, !.toLog = TRUE,
                     !.reply = Envelope(call[c].message, "result")]
<1>1. /\ call' = [call EXCEPT ![c] = rec] /\ call[c] \in CallState /\ CallOK(call[c])
      /\ call \in [Calls -> CallState] /\ [IndexNext]_indexVars
  BY DEF Answered, Step, SearchInv, CallsTyped
<1>2. Envelope(call[c].message, "result") \in {"result", "nothing"}
  BY DEF Envelope
<1>3. /\ rec \in CallState
      /\ rec.hits = call[c].hits /\ rec.lang = call[c].lang /\ rec.message = call[c].message
      /\ rec.results = results /\ rec.pc = "done" /\ rec.reply \in {"result", "nothing"}
  BY <1>1, <1>2 DEF CallState
<1> HIDE DEF rec
<1>4. call'[c] = rec /\ log' = log
  BY <1>1 DEF indexVars
<1>5. CallOK(call[c])'
  BY <1>1, <1>3, <1>4 DEF CallOK, HitsOK, ResultsOK, FromHit, ProgressOK
<1> QED  BY <1>1, <1>3, <1>5, OneCall

LEMMA SearchStep ==
  ASSUME SearchInv, NEW c \in Calls, Search(c)
  PROVE  SearchInv'
<1>0. /\ call[c] \in CallState /\ call[c].pc = "search" /\ CallOK(call[c])
      /\ call \in [Calls -> CallState]
      /\ UNCHANGED <<indexVars, body, queries>> /\ [IndexNext]_indexVars
      /\ log \in Seq(LogRecord)
  BY DEF Search, SearchInv, CallsTyped, IndexInv, IndexTypeOK
<1>1. PICK hits \in Hits(call[c].lang, call[c].k) :
        IF hits = {} THEN Answered(c, {})
                     ELSE Step(c, [call[c] EXCEPT !.hits = hits, !.pc = "enrich"])
  BY DEF Search
<1>2. CASE hits = {}
  BY <1>0, <1>1, <1>2, EmptyHasNone, Bounds, AnsweredStep
<1>3. CASE hits # {}
  <2> DEFINE rec == [call[c] EXCEPT !.hits = hits, !.pc = "enrich"]
  <2>1. /\ hits \subseteq 1..Len(log) /\ Len(log) \in Nat
        /\ call[c].lang # NoLang => \A o \in hits : LanguageOf(log[o]) = call[c].lang
        /\ Cardinality(hits) <= call[c].k
    BY <1>0, <1>1 DEF Hits
  <2>2. hits \in SUBSET (Nat \ {0})
    BY <2>1
  <2>3. /\ rec \in CallState /\ rec.pc = "enrich" /\ rec.hits = hits
        /\ rec.lang = call[c].lang /\ rec.message = call[c].message
        /\ rec.results = call[c].results /\ rec.toLog = call[c].toLog
    BY <1>0, <2>2 DEF CallState
  <2>4. call' = [call EXCEPT ![c] = rec]
    BY <1>1, <1>3 DEF Step
  <2> HIDE DEF rec
  <2>5. call'[c] = rec /\ log' = log
    BY <1>0, <2>4 DEF indexVars
  <2>6. Cardinality(hits) <= MaxTopK
    <3>1. call[c].k \in 1..MaxTopK
      BY <1>0 DEF CallState
    <3>2. IsFiniteSet(hits)
      <4>1. IsFiniteSet(1..Len(log))
        BY <2>1, FS_Interval
      <4> QED  BY <2>1, <4>1, FS_Subset
    <3>3. Cardinality(hits) \in Nat
      BY <3>2, FS_CardinalityType
    <3> QED  BY <2>1, <3>1, <3>3, Bounds
  <2>7. call[c].results = {}
    BY <1>0 DEF CallOK, ProgressOK
  <2>8. CallOK(call[c])'
    BY <1>0, <2>1, <2>3, <2>5, <2>6, <2>7, EmptyHasNone, Bounds
       DEF CallOK, HitsOK, ResultsOK, ProgressOK
  <2> QED  BY <1>0, <2>3, <2>4, <2>8, OneCall
<1> QED  BY <1>2, <1>3

LEMMA EnrichStep ==
  ASSUME SearchInv, NEW c \in Calls, Enrich(c)
  PROVE  SearchInv'
<1> DEFINE rows == {r \in chunks : r.offset \in call[c].hits}
           found == {Result(row) : row \in rows}
<1>0. /\ call[c] \in CallState /\ call[c].pc = "enrich" /\ CallOK(call[c])
      /\ UNCHANGED <<indexVars, body, queries>> /\ Answered(c, found)
      /\ body \in [Versions -> Contents \union {NoText}]
      /\ chunks \subseteq Row /\ RowsPointAtTheirRecord /\ OffsetsUnique
      /\ log \in Seq(LogRecord)
  BY DEF Enrich, SearchInv, CallsTyped, IndexInv, IndexTypeOK
<1>1. ASSUME NEW row \in rows  PROVE Result(row) \in Found /\ FromHit(call[c], Result(row))
  <2>1. row \in chunks /\ row \in Row /\ row.offset \in call[c].hits
    BY <1>0
  <2>2. /\ Result(row).version = row.version /\ Result(row).section = row.section
        /\ Result(row).offset = row.offset
    BY DEF Result
  <2>3. Result(row) \in Found
    BY <1>0, <2>1 DEF Result, Found, Row
  <2>4. log[row.offset] = ChunkRecord(row.version, row.section, row.text)
    BY <1>0, <2>1 DEF RowsPointAtTheirRecord
  <2>5. /\ "section" \in DOMAIN log[row.offset]
        /\ log[row.offset].version = row.version /\ log[row.offset].section = row.section
    BY <2>4 DEF ChunkRecord
  <2> QED  BY <2>1, <2>2, <2>3, <2>5 DEF FromHit
<1>2. IsFiniteSet(call[c].hits)
  <2>1. Len(log) \in Nat /\ call[c].hits \subseteq 1..Len(log)
    BY <1>0 DEF CallOK, HitsOK
  <2>2. IsFiniteSet(1..Len(log))
    BY <2>1, FS_Interval
  <2> QED  BY <2>1, <2>2, FS_Subset
<1>3. Cardinality(found) <= MaxTopK
  <2>1. IsFiniteSet(found) /\ Cardinality(found) <= Cardinality(call[c].hits)
    BY <1>0, <1>2, ResultsFitHits
  <2>3. Cardinality(found) \in Nat /\ Cardinality(call[c].hits) \in Nat
    BY <1>2, <2>1, FS_CardinalityType
  <2> QED  BY <1>0, <2>1, <2>3, Bounds DEF CallOK, HitsOK
<1>4. found \in SUBSET Found /\ \A r \in found : FromHit(call[c], r)
  BY <1>1
<1> HIDE DEF found, rows
<1> QED  BY <1>0, <1>3, <1>4, AnsweredStep

LEMMA FailStep ==
  ASSUME SearchInv, NEW c \in Calls, QueryFails(c)
  PROVE  SearchInv'
<1> DEFINE rec == [call[c] EXCEPT !.pc = "done", !.reply = Envelope(call[c].message, "error")]
<1>0. /\ call[c] \in CallState /\ call[c].pc \in {"search", "enrich"} /\ CallOK(call[c])
      /\ call' = [call EXCEPT ![c] = rec] /\ call \in [Calls -> CallState]
      /\ UNCHANGED <<indexVars, body, queries>> /\ [IndexNext]_indexVars
  BY DEF QueryFails, Answer, Step, SearchInv, CallsTyped
<1>1. Envelope(call[c].message, "error") \in {"error", "nothing"}
  BY DEF Envelope
<1>2. /\ rec \in CallState /\ rec.pc = "done" /\ rec.hits = call[c].hits
      /\ rec.lang = call[c].lang /\ rec.results = call[c].results
      /\ rec.toLog = call[c].toLog /\ rec.message = call[c].message
  BY <1>0, <1>1 DEF CallState
<1> HIDE DEF rec
<1>3. call'[c] = rec /\ log' = log
  BY <1>0 DEF indexVars
<1>4. ~ call[c].toLog
  BY <1>0 DEF CallOK, ProgressOK
<1>5. CallOK(call[c])'
  BY <1>0, <1>2, <1>3, <1>4 DEF CallOK, HitsOK, ResultsOK, FromHit, ProgressOK
<1> QED  BY <1>0, <1>2, <1>5, OneCall

-----------------------------------------------------------------------------
(* The log of queries, and the process *)

LEMMA UnlogCall ==
  ASSUME NEW cl \in CallState
  PROVE  LET rec == [cl EXCEPT !.toLog = FALSE]
         IN  /\ rec \in CallState /\ ~ rec.toLog /\ rec.pc = cl.pc
             /\ rec.message = cl.message /\ rec.lang = cl.lang /\ rec.hits = cl.hits
             /\ rec.results = cl.results /\ rec.reply = cl.reply
BY DEF CallState

LEMMA LoseLogStep ==
  ASSUME SearchInv, NEW c \in Calls, LoseLog(c)
  PROVE  SearchInv'
<1> DEFINE rec == [call[c] EXCEPT !.toLog = FALSE]
<1>0. /\ call[c] \in CallState /\ call[c].toLog /\ CallOK(call[c])
      /\ call' = [call EXCEPT ![c] = rec] /\ call \in [Calls -> CallState]
      /\ UNCHANGED <<indexVars, body, queries>> /\ [IndexNext]_indexVars
  BY DEF LoseLog, Step, SearchInv, CallsTyped
<1>1. /\ rec \in CallState /\ ~ rec.toLog /\ rec.pc = call[c].pc
      /\ rec.message = call[c].message /\ rec.lang = call[c].lang
      /\ rec.hits = call[c].hits /\ rec.results = call[c].results
  BY <1>0, UnlogCall
<1> HIDE DEF rec
<1>2. call'[c] = rec /\ log' = log
  BY <1>0 DEF indexVars
<1>3. CallOK(call[c])'
  BY <1>0, <1>1, <1>2 DEF CallOK, HitsOK, ResultsOK, FromHit, ProgressOK
<1> QED  BY <1>0, <1>1, <1>3, OneCall

LEMMA LogStep ==
  ASSUME SearchInv, NEW c \in Calls, LogQuery(c)
  PROVE  SearchInv'
<1> DEFINE rec == [call[c] EXCEPT !.toLog = FALSE]
           record == [call |-> c, count |-> Cardinality(call[c].results)]
<1>0. /\ call[c] \in CallState /\ call[c].toLog /\ CallOK(call[c])
      /\ call' = [call EXCEPT ![c] = rec] /\ call \in [Calls -> CallState]
      /\ UNCHANGED <<indexVars, body>> /\ [IndexNext]_indexVars
      /\ queries' = queries \union {record}
  BY DEF LogQuery, Step, SearchInv, CallsTyped
<1>1. /\ rec \in CallState /\ ~ rec.toLog /\ rec.pc = call[c].pc
      /\ rec.message = call[c].message /\ rec.lang = call[c].lang
      /\ rec.hits = call[c].hits /\ rec.results = call[c].results
      /\ rec.reply = call[c].reply
  BY <1>0, UnlogCall
<1> HIDE DEF rec
<1>2. /\ call'[c] = rec /\ log' = log /\ call' \in [Calls -> CallState]
      /\ \A d \in Calls \ {c} : call'[d] = call[d]
  BY <1>0, <1>1 DEF indexVars
<1>3. CallOK(call[c])'
  BY <1>0, <1>1, <1>2 DEF CallOK, HitsOK, ResultsOK, FromHit, ProgressOK
<1>4. IndexInv' /\ RecordsStay
  BY <1>0, IndexInvStep, TopicGrows DEF SearchInv
<1>5. \A d \in Calls : CallOK(call[d])'
  BY <1>2, <1>3, <1>4, CallStaysOK DEF SearchInv
<1>6. call[c].pc = "done" /\ Dispatch(call[c].message) = "search"
      /\ call[c].reply \in {"result", "nothing"}
  BY <1>0 DEF CallOK, ProgressOK, CallState
<1>7. ASSUME NEW q \in queries'
      PROVE  /\ q.call \in Calls
             /\ call'[q.call].pc = "done" /\ ~ call'[q.call].toLog
             /\ Dispatch(call'[q.call].message) = "search"
             /\ call'[q.call].reply \in {"result", "nothing"}
             /\ q.count = Cardinality(call'[q.call].results)
  <2>1. CASE q \in queries
    <3>1. q.call # c /\ q.call \in Calls
      BY <1>0, <2>1 DEF SearchInv, QueriesMade, LoggedAsAnswered
    <3> QED  BY <1>2, <2>1, <3>1 DEF SearchInv, LoggedAsAnswered
  <2>2. CASE q = record
    BY <1>1, <1>2, <1>6, <2>2
  <2> QED  BY <1>0, <2>1, <2>2
<1>8. QueriesMade' /\ LoggedAsAnswered'
  BY <1>7 DEF QueriesMade, LoggedAsAnswered
<1> QED  BY <1>0, <1>2, <1>4, <1>5, <1>8 DEF SearchInv, CallsTyped

LEMMA RestartStep ==
  ASSUME SearchInv, RestartMcp
  PROVE  SearchInv'
<1>0. /\ call \in [Calls -> CallState]
      /\ UNCHANGED <<indexVars, body, queries>> /\ [IndexNext]_indexVars
      /\ \A c \in Calls : CallOK(call[c])
  BY DEF RestartMcp, SearchInv, CallsTyped
<1>1. ASSUME NEW c \in Calls
      PROVE  /\ call'[c] \in CallState
             /\ call'[c].hits = call[c].hits /\ call'[c].results = call[c].results
             /\ call'[c].lang = call[c].lang /\ call'[c].message = call[c].message
             /\ ~ call'[c].toLog
             /\ IF call[c].pc \in {"search", "enrich"}
                  THEN call'[c].pc = "done" /\ call'[c].results = {}
                  ELSE call'[c].pc = call[c].pc /\ call'[c].reply = call[c].reply
  <2>1. CASE call[c].pc \in {"search", "enrich"}
    <3>1. call'[c] = [call[c] EXCEPT !.pc = "done", !.reply = "nothing"]
      BY <2>1 DEF RestartMcp
    <3>2. ~ call[c].toLog /\ call[c].results = {} /\ call[c] \in CallState
      BY <1>0, <2>1 DEF CallOK, ProgressOK
    <3> QED  BY <2>1, <3>1, <3>2 DEF CallState
  <2>2. CASE call[c].pc \notin {"search", "enrich"}
    <3>1. call'[c] = [call[c] EXCEPT !.toLog = FALSE]
      BY <2>2 DEF RestartMcp
    <3>2. call[c] \in CallState
      BY <1>0
    <3> QED  BY <2>2, <3>1, <3>2, UnlogCall
  <2> QED  BY <2>1, <2>2
<1>2. IndexInv' /\ log' = log
  BY <1>0, IndexInvStep DEF SearchInv, indexVars
<1>3. ASSUME NEW c \in Calls  PROVE CallOK(call[c])'
  <2>1. HitsOK(call[c])' /\ ResultsOK(call[c])'
    BY <1>0, <1>1, <1>2 DEF CallOK, HitsOK, ResultsOK, FromHit
  <2>2. ProgressOK(call[c])'
    BY <1>0, <1>1 DEF CallOK, ProgressOK
  <2> QED  BY <2>1, <2>2 DEF CallOK
<1>4. QueriesMade' /\ LoggedAsAnswered'
  BY <1>0, <1>1 DEF SearchInv, QueriesMade, LoggedAsAnswered
<1>5. CallsTyped'
  <2>1. call' \in [Calls -> CallState]
    BY <1>1 DEF RestartMcp
  <2> QED  BY <1>0, <2>1 DEF SearchInv, CallsTyped
<1> QED  BY <1>2, <1>3, <1>4, <1>5 DEF SearchInv

-----------------------------------------------------------------------------
(* The theorems *)

LEMMA SearchStart == SearchInit => SearchInv
<1> SUFFICES ASSUME SearchInit  PROVE SearchInv
  OBVIOUS
<1>1. IndexInv
  BY IndexStart DEF SearchInit
<1>2. /\ NotMade \in CallState /\ NotMade.hits = {} /\ NotMade.results = {}
      /\ ~ NotMade.toLog /\ NotMade.pc = "new"
  BY Bounds DEF NotMade, CallState
<1>3. CallOK(NotMade)
  BY <1>2, EmptyHasNone, Bounds DEF CallOK, HitsOK, ResultsOK, ProgressOK
<1> QED  BY <1>1, <1>2, <1>3 DEF SearchInit, SearchInv, CallsTyped, QueriesMade,
            LoggedAsAnswered

LEMMA SearchKept == SearchInv /\ [SearchNext]_searchVars => SearchInv'
<1> SUFFICES ASSUME SearchInv, [SearchNext]_searchVars  PROVE SearchInv'
  OBVIOUS
<1>1. [IndexNext]_indexVars /\ body \in [Versions -> Contents \union {NoText}]
  BY IndexSteps DEF SearchInv, CallsTyped
<1>2. CASE Index \/ UNCHANGED searchVars
  BY <1>1, <1>2, NoCall DEF Index, searchVars
<1>3. ASSUME NEW v \in Versions, NEW text \in Contents, Save(v, text)  PROVE SearchInv'
  BY <1>1, <1>3, NoCall DEF Save
<1> QED  BY <1>2, <1>3, PostStep, SearchStep, EnrichStep, FailStep, LogStep, LoseLogStep,
            RestartStep DEF SearchNext

LEMMA SearchAlways == SearchSpec => []SearchInv
BY SearchStart, SearchKept, PTL DEF SearchSpec

\* A search is a system around the index, and every step of it is a step of the
\* index or leaves it alone: what is proved of ChunkIndex holds of it.
THEOREM SearchUsesTheIndex == SearchSpec => IndexSpec
<1>1. SearchInit => IndexInit
  BY DEF SearchInit
<1> QED  BY <1>1, IndexSteps, PTL DEF SearchSpec, IndexSpec

\* Every result is the version and the section its hit was produced for, in the
\* language asked for, whatever is saved, cleared, indexed again or lost between
\* the search and the join.
THEOREM ResultsAreFaithful == SearchSpec => []ResultsAreTheirHits
<1>1. SearchInv => ResultsAreTheirHits
  BY DEF SearchInv, CallOK, HitsOK, ResultsOK, FromHit, LanguageOf, ResultsAreTheirHits
<1> QED  BY <1>1, SearchAlways, PTL

\* The query log tells no story of its own: what it says of a call is what the
\* client of that call was given.
THEOREM LogIsFaithful == SearchSpec => []LoggedAsAnswered
<1>1. SearchInv => LoggedAsAnswered
  BY DEF SearchInv
<1> QED  BY <1>1, SearchAlways, PTL

=============================================================================
