------------------------ MODULE EditorSession_proofs ------------------------
(* What the numbers of turns are worth for any number of threads, tabs and    *)
(* tasks, and for as many turns as anyone types.                              *)
EXTENDS EditorSession, SequenceTheorems, TLAPS

-----------------------------------------------------------------------------
(* The inductive invariant *)

Turn == [role : {"none", "user", "assistant"}, id : Nat]

ToServer == [type : {"client_hello"}, seq : Nat]
              \union [type : {"message"}, seq : Nat, turn : Turn]
              \union [type : {"skip_discovery", "review_requested"}]

ToClient == [type : {"hello"}, seq : Nat]
              \union [type : {"message"}, seq : Nat, turn : Turn]

ShownTurn == [seq : Int, turn : Turn, thread : Threads]

SessionState ==
  [pc : {"closed", "ready", "read", "write", "context", "llm", "canvas", "say"},
   thread : Threads \union {None}, seq : Nat,
   synced : BOOLEAN, skip : BOOLEAN, review : BOOLEAN,
   turn : Turn, base : Seq(Turn), reply : SUBSET {"chat", "canvas"},
   mode : {"Review", "Intake", "Conversation"}]

TabState == [conn : Sessions \union {None}, thread : Threads, lastSeq : Nat,
             shown : Seq(ShownTurn), skipped : BOOLEAN, missed : BOOLEAN]

Typed == /\ transcript \in [Threads -> Seq(Turn)]
         /\ session \in [Sessions -> SessionState]
         /\ toServer \in [Sessions -> Seq(ToServer)]
         /\ toClient \in [Sessions -> Seq(ToClient)]
         /\ tab \in [Tabs -> TabState]
         /\ turns \in Nat
         /\ clean \in [Threads -> BOOLEAN]
         /\ \A s \in Sessions : Live(s) => session[s].thread \in Threads

\* A tab talks to a task of its own thread.
ConnectedToThread ==
  \A c \in Tabs : tab[c].conn # None =>
    Live(tab[c].conn) /\ session[tab[c].conn].thread = tab[c].thread

\* Nothing is on its way to a browser that has gone.
NothingToNobody == \A s \in Sessions : ~ Connected(s) => toClient[s] = <<>>

\* A task that may still write.
Writing(s) == session[s].pc \in {"read", "write"}
Active(s)  == Live(s) /\ (Connected(s) \/ session[s].pc # "ready" \/ toServer[s] # <<>>)

\* It counts the transcript, and the turn it is about to write.
CountsTranscript(s) ==
  Active(s) /\ clean[session[s].thread] =>
    session[s].seq = IF Writing(s) THEN Len(transcript[session[s].thread]) + 1
                                   ELSE Len(transcript[session[s].thread])

\* What it has read is what it writes over.
WritesOverAll(s) ==
  session[s].pc = "write" /\ clean[session[s].thread] =>
    session[s].base = transcript[session[s].thread]

SessionInv == /\ Typed /\ ConnectedToThread /\ NothingToNobody
              /\ \A s \in Sessions : CountsTranscript(s) /\ WritesOverAll(s)
              /\ SeqIsPosition

-----------------------------------------------------------------------------
(* Positions *)

\* IsPosition after a step.
PositionAfter(t, n, turn) ==
  \/ n \in 1..Len(transcript'[t]) /\ transcript'[t][n] = turn
  \/ /\ n = Len(transcript'[t]) + 1
     /\ \E s \in Sessions : /\ session'[s].thread = t /\ session'[s].turn = turn
                            /\ session'[s].pc \in {"read", "write"}

PositionsKept ==
  \A t \in Threads : \A n, turn :
    clean'[t] => clean[t] /\ (IsPosition(t, n, turn) => PositionAfter(t, n, turn))

\* A step keeps the numbers right if it keeps the positions, and shows and sends
\* only what was shown or sent before, or stands in its position.
LEMMA NumbersStayRight ==
  ASSUME SeqIsPosition, PositionsKept,
         \A c \in Tabs : \A i \in DOMAIN tab'[c].shown :
           LET m == tab'[c].shown[i]
           IN  /\ m.thread \in Threads
               /\ \/ m.seq <= 0
                  \/ \E j \in DOMAIN tab[c].shown : m = tab[c].shown[j]
                  \/ clean'[m.thread] => PositionAfter(m.thread, m.seq, m.turn),
         \A c \in Tabs : \A i \in DOMAIN tab'[c].shown : tab'[c].shown[i].seq \in Int,
         \A s \in Sessions : \A i \in DOMAIN toClient'[s] :
           LET m == toClient'[s][i]
           IN  /\ session'[s].thread \in Threads
               /\ m.type = "message" =>
                    \/ /\ session'[s].thread = session[s].thread
                       /\ \E j \in DOMAIN toClient[s] : m = toClient[s][j]
                    \/ clean'[session'[s].thread] =>
                         PositionAfter(session'[s].thread, m.seq, m.turn)
  PROVE  SeqIsPosition'
<1>1. ASSUME NEW c \in Tabs, NEW i \in DOMAIN tab'[c].shown,
             tab'[c].shown[i].seq > 0, clean'[tab'[c].shown[i].thread]
      PROVE  PositionAfter(tab'[c].shown[i].thread, tab'[c].shown[i].seq, tab'[c].shown[i].turn)
  <2> DEFINE m == tab'[c].shown[i]
  <2>1. m.thread \in Threads /\ m.seq \in Int /\ m.seq > 0 /\ clean'[m.thread]
    BY <1>1
  <2>2. CASE \E j \in DOMAIN tab[c].shown : m = tab[c].shown[j]
    <3>1. IsPosition(m.thread, m.seq, m.turn)
      BY <2>1, <2>2 DEF SeqIsPosition, PositionsKept
    <3> QED  BY <2>1, <3>1 DEF PositionsKept
  <2> QED  BY <2>1, <2>2
<1>2. ASSUME NEW s \in Sessions, NEW i \in DOMAIN toClient'[s],
             toClient'[s][i].type = "message", clean'[session'[s].thread]
      PROVE  PositionAfter(session'[s].thread, toClient'[s][i].seq, toClient'[s][i].turn)
  <2> DEFINE m == toClient'[s][i]
             t == session'[s].thread
  <2>1. t \in Threads /\ m.type = "message" /\ clean'[t]
    BY <1>2
  <2>2. CASE t = session[s].thread /\ \E j \in DOMAIN toClient[s] : m = toClient[s][j]
    <3>1. IsPosition(t, m.seq, m.turn)
      BY <2>1, <2>2 DEF SeqIsPosition, PositionsKept
    <3> QED  BY <2>1, <3>1 DEF PositionsKept
  <2> QED  BY <2>1, <2>2
<1>3. (\A c \in Tabs : \A i \in DOMAIN tab[c].shown :
         LET m == tab[c].shown[i] IN
         m.seq > 0 /\ clean[m.thread] => IsPosition(m.thread, m.seq, m.turn))'
  BY <1>1 DEF IsPosition, PositionAfter
<1>4. (\A s \in Sessions : \A i \in DOMAIN toClient[s] :
         LET m == toClient[s][i] IN
         m.type = "message" /\ clean[session[s].thread]
           => IsPosition(session[s].thread, m.seq, m.turn))'
  BY <1>2 DEF IsPosition, PositionAfter
<1> QED  BY <1>3, <1>4 DEF SeqIsPosition

\* Where the transcript stays and whoever was about to write still is.
LEMMA NothingWritten ==
  ASSUME transcript' = transcript, \A t \in Threads : clean'[t] => clean[t],
         \A s \in Sessions : Writing(s) /\ clean'[session[s].thread] =>
           /\ session'[s].pc \in {"read", "write"}
           /\ session'[s].thread = session[s].thread /\ session'[s].turn = session[s].turn
  PROVE  PositionsKept
BY DEF PositionsKept, IsPosition, PositionAfter, Writing

-----------------------------------------------------------------------------
(* The steps of a task, the write apart *)

Queues == /\ toServer \in [Sessions -> Seq(ToServer)]
          /\ toClient \in [Sessions -> Seq(ToClient)]

\* Nothing but s moves, and the transcript not at all.
OnlyTask(s) ==
  /\ UNCHANGED <<transcript, tab, turns>>
  /\ session' \in [Sessions -> SessionState] /\ Queues'
  /\ clean' \in [Threads -> BOOLEAN] /\ \A t \in Threads : clean'[t] => clean[t]
  /\ \A u \in Sessions \ {s} : /\ session'[u] = session[u]
                               /\ toServer'[u] = toServer[u]
                               /\ toClient'[u] = toClient[u]

\* A message that was there, or one that stands in its position.
Placed(s, m) ==
  m.type = "message" =>
    \/ \E j \in DOMAIN toClient[s] : m = toClient[s][j]
    \/ clean'[session[s].thread] => PositionAfter(session[s].thread, m.seq, m.turn)

\* s stays with its thread, or ends when neither browser nor write depends on it.
StaysOrEnds(s) ==
  \/ Live(s)' /\ session'[s].thread = session[s].thread
  \/ session'[s] = ClosedSession /\ ~ Connected(s) /\ ~ Writing(s)

QuietTask(s) ==
  /\ Live(s) /\ OnlyTask(s) /\ StaysOrEnds(s)
  /\ CountsTranscript(s)' /\ WritesOverAll(s)'
  /\ Writing(s) /\ clean'[session[s].thread] =>
       Writing(s)' /\ session'[s].turn = session[s].turn
  /\ ~ Connected(s) => toClient'[s] = toClient[s]
  /\ \A i \in DOMAIN toClient'[s] : Placed(s, toClient'[s][i])

LEMMA ConnectedStays ==
  ASSUME UNCHANGED tab, NEW s \in Sessions  PROVE  Connected(s)' = Connected(s)
BY DEF Connected

\* A task that is connected to is a live one.
LEMMA ConnectedIsLive ==
  ASSUME ConnectedToThread, None \notin Sessions, NEW s \in Sessions, Connected(s)
  PROVE  Live(s)
BY DEF ConnectedToThread, Connected

LEMMA QuietTaskKeeps ==
  ASSUME SessionInv, NEW s \in Sessions, QuietTask(s)  PROVE  SessionInv'
<1> USE NoneAssumption
<1>0. \A u \in Sessions : Connected(u)' = Connected(u)
  BY ConnectedStays DEF QuietTask, OnlyTask
<1>1. \A u \in Sessions : Live(u)' => /\ Live(u) /\ session'[u].thread = session[u].thread
                                      /\ session[u].thread \in Threads
  <2> SUFFICES ASSUME NEW u \in Sessions, Live(u)'
               PROVE  Live(u) /\ session'[u].thread = session[u].thread
    BY DEF SessionInv, Typed
  <2>1. CASE u = s
    BY <2>1 DEF QuietTask, StaysOrEnds, Live, ClosedSession
  <2>2. CASE u # s
    BY <2>2 DEF QuietTask, OnlyTask, Live
  <2> QED  BY <2>1, <2>2
<1>2. Typed'
  BY <1>1 DEF QuietTask, OnlyTask, Queues, SessionInv, Typed
<1>3. ConnectedToThread'
  <2> SUFFICES ASSUME NEW c \in Tabs, NEW u, u = tab[c].conn, u # None
               PROVE  Live(u)' /\ session'[u].thread = tab[c].thread
    BY DEF ConnectedToThread, Live, QuietTask, OnlyTask
  <2>1. u \in Sessions /\ Connected(u) /\ Live(u) /\ session[u].thread = tab[c].thread
    BY DEF SessionInv, Typed, TabState, ConnectedToThread, Connected
  <2>2. Live(u)'
    BY <2>1 DEF QuietTask, OnlyTask, StaysOrEnds, Live
  <2> QED  BY <1>1, <2>1, <2>2
<1>4. NothingToNobody'
  BY <1>0 DEF SessionInv, NothingToNobody, QuietTask, OnlyTask
<1>5. ASSUME NEW u \in Sessions  PROVE  CountsTranscript(u)' /\ WritesOverAll(u)'
  <2>1. CASE u = s
    BY <2>1 DEF QuietTask
  <2>2. CASE u # s
    <3>1. /\ session'[u] = session[u] /\ toServer'[u] = toServer[u] /\ transcript' = transcript
          /\ \A t \in Threads : clean'[t] => clean[t]
      BY <2>2 DEF QuietTask, OnlyTask
    <3>2. CountsTranscript(u) /\ WritesOverAll(u) /\ (Live(u) => session[u].thread \in Threads)
      BY DEF SessionInv, Typed
    <3> QED  BY <1>0, <3>1, <3>2 DEF CountsTranscript, WritesOverAll, Active, Live, Writing
  <2> QED  BY <2>1, <2>2
<1>6. SeqIsPosition'
  <2>1. PositionsKept
    <3>1. ASSUME NEW u \in Sessions, Writing(u), clean'[session[u].thread]
          PROVE  /\ session'[u].pc \in {"read", "write"}
                 /\ session'[u].thread = session[u].thread /\ session'[u].turn = session[u].turn
      <4>1. CASE u = s
        <5>1. Writing(s)' /\ session'[s].turn = session[s].turn
          BY <3>1, <4>1 DEF QuietTask
        <5>2. session'[s].thread = session[s].thread
          BY <5>1, <1>1 DEF Writing, Live
        <5> QED  BY <4>1, <5>1, <5>2 DEF Writing
      <4>2. CASE u # s
        BY <3>1, <4>2 DEF QuietTask, OnlyTask, Writing
      <4> QED  BY <4>1, <4>2
    <3> QED  BY <3>1, NothingWritten DEF QuietTask, OnlyTask
  <2>2. \A c \in Tabs : \A i \in DOMAIN tab[c].shown : tab[c].shown[i] \in ShownTurn
    BY DEF SessionInv, Typed, TabState
  <2>3. ASSUME NEW u \in Sessions, NEW i \in DOMAIN toClient'[u]
        PROVE  LET m == toClient'[u][i]
               IN  /\ session'[u].thread \in Threads
                   /\ m.type = "message" =>
                        \/ /\ session'[u].thread = session[u].thread
                           /\ \E j \in DOMAIN toClient[u] : m = toClient[u][j]
                        \/ clean'[session'[u].thread] =>
                             PositionAfter(session'[u].thread, m.seq, m.turn)
    <3>1. toClient'[u] # <<>>
      OBVIOUS
    <3>2. Connected(u)
      BY <1>0, <1>4, <3>1 DEF NothingToNobody
    <3>3. Live(u)
      BY <3>2, ConnectedIsLive DEF SessionInv
    <3>4. Live(u)'
      BY <3>2, <3>3 DEF QuietTask, OnlyTask, StaysOrEnds, Live
    <3>5. session'[u].thread = session[u].thread /\ session[u].thread \in Threads
      BY <1>1, <3>4
    <3>6. CASE u = s
      BY <3>5, <3>6 DEF QuietTask, Placed
    <3>7. CASE u # s
      BY <3>5, <3>7 DEF QuietTask, OnlyTask
    <3> QED  BY <3>6, <3>7
  <2>4. tab' = tab /\ SeqIsPosition
    BY DEF QuietTask, OnlyTask, SessionInv
  <2> QED  BY <2>1, <2>2, <2>3, <2>4, NumbersStayRight DEF ShownTurn
<1> QED  BY <1>2, <1>3, <1>4, <1>5, <1>6 DEF SessionInv

\* A step that neither numbers a turn nor writes one.
LEMMA SilentTaskKeeps ==
  ASSUME SessionInv, NEW s \in Sessions, Active(s), OnlyTask(s), Live(s)',
         session'[s].thread = session[s].thread, session'[s].seq = session[s].seq,
         session'[s].turn = session[s].turn, Writing(s)' <=> Writing(s), WritesOverAll(s)',
         ~ Connected(s) => toClient'[s] = toClient[s],
         \A i \in DOMAIN toClient'[s] : Placed(s, toClient'[s][i])
  PROVE  SessionInv'
<1>1. session[s].thread \in Threads /\ CountsTranscript(s)
  BY DEF SessionInv, Typed, Active
<1>2. CountsTranscript(s)'
  <2>1. transcript' = transcript /\ (clean'[session[s].thread] => clean[session[s].thread])
    BY <1>1 DEF OnlyTask
  <2> QED  BY <1>1, <2>1 DEF CountsTranscript, Writing
<1>3. QuietTask(s)
  BY <1>2 DEF QuietTask, StaysOrEnds, Active
<1> QED  BY <1>3, QuietTaskKeeps

\* What a task's state and queues are made of.
LEMMA TaskTypes ==
  ASSUME Typed, NEW s \in Sessions
  PROVE  /\ session[s] \in SessionState /\ toServer[s] \in Seq(ToServer)
         /\ toClient[s] \in Seq(ToClient)
         /\ toServer[s] # <<>> =>
              Head(toServer[s]) \in ToServer /\ Tail(toServer[s]) \in Seq(ToServer)
<1>1. toServer[s] \in Seq(ToServer)
  BY DEF Typed
<1>2. toServer[s] # <<>> => Head(toServer[s]) \in ToServer /\ Tail(toServer[s]) \in Seq(ToServer)
  BY <1>1, HeadTailProperties
<1> QED  BY <1>1, <1>2 DEF Typed

LEMMA DisturbFalls ==
  ASSUME Typed, NEW s \in Sessions, Live(s), NEW bad \in BOOLEAN, Disturb(s, bad)
  PROVE  /\ clean' \in [Threads -> BOOLEAN] /\ \A t \in Threads : clean'[t] => clean[t]
         /\ clean'[session[s].thread] => ~ bad
BY DEF Typed, Disturb

LEMMA FlagKeeps ==
  ASSUME SessionInv, NEW s \in Sessions, Flag(s)  PROVE  SessionInv'
<1>1. Active(s) /\ session[s].pc = "ready"
  BY DEF Flag, Frame, Active, Live
<1>2. /\ session[s] \in SessionState /\ Tail(toServer[s]) \in Seq(ToServer)
      /\ Typed
  BY TaskTypes DEF SessionInv, Flag, Frame
<1>3. PICK b1 \in BOOLEAN, b2 \in BOOLEAN :
        session' = [session EXCEPT ![s].skip = b1, ![s].review = b2]
  <2>1. /\ (session[s].skip \/ Head(toServer[s]).type = "skip_discovery") \in BOOLEAN
        /\ (session[s].review \/ Head(toServer[s]).type = "review_requested") \in BOOLEAN
    OBVIOUS
  <2> QED  BY <1>2, <2>1 DEF Flag, Typed
<1>4. /\ session'[s] = [session[s] EXCEPT !.skip = b1, !.review = b2]
      /\ session' \in [Sessions -> SessionState]
      /\ \A u \in Sessions \ {s} : session'[u] = session[u]
  BY <1>2, <1>3 DEF Typed, SessionState
<1>5. /\ session'[s].pc = "ready" /\ session'[s].thread = session[s].thread
      /\ session'[s].seq = session[s].seq /\ session'[s].turn = session[s].turn
  BY <1>1, <1>2, <1>4 DEF SessionState
<1>6. OnlyTask(s)
  BY <1>2, <1>4 DEF Flag, Take, OnlyTask, Queues, Typed
<1>7. Live(s)' /\ (Writing(s)' <=> Writing(s)) /\ WritesOverAll(s)'
  BY <1>1, <1>5 DEF Live, Writing, WritesOverAll
<1>8. toClient' = toClient /\ \A i \in DOMAIN toClient'[s] : Placed(s, toClient'[s][i])
  BY DEF Flag, Placed
<1> QED  BY <1>1, <1>5, <1>6, <1>7, <1>8, SilentTaskKeeps

LEMMA ReadTranscriptKeeps ==
  ASSUME SessionInv, NEW s \in Sessions, ReadTranscript(s)  PROVE  SessionInv'
<1>1. Active(s) /\ Live(s) /\ Writing(s)
  BY DEF ReadTranscript, Active, Live, Writing
<1>2. session[s] \in SessionState /\ session[s].thread \in Threads /\ Typed
  BY <1>1, TaskTypes DEF SessionInv, Typed
<1>3. PICK ok \in BOOLEAN :
        /\ session' = [session EXCEPT ![s].pc = "write",
                                      ![s].base = FindByKey(session[s].thread, ok)]
        /\ Disturb(s, ~ ok)
  BY DEF ReadTranscript
<1>4. FindByKey(session[s].thread, ok) \in Seq(Turn)
  BY <1>2 DEF FindByKey, Typed
<1>5. /\ session'[s] = [session[s] EXCEPT !.pc = "write",
                                          !.base = FindByKey(session[s].thread, ok)]
      /\ session' \in [Sessions -> SessionState]
      /\ \A u \in Sessions \ {s} : session'[u] = session[u]
  BY <1>2, <1>3, <1>4 DEF Typed, SessionState
<1>6. /\ session'[s].pc = "write" /\ session'[s].thread = session[s].thread
      /\ session'[s].seq = session[s].seq /\ session'[s].turn = session[s].turn
      /\ session'[s].base = FindByKey(session[s].thread, ok)
  BY <1>2, <1>5 DEF SessionState
<1>7. /\ clean' \in [Threads -> BOOLEAN] /\ \A t \in Threads : clean'[t] => clean[t]
      /\ clean'[session[s].thread] => ok
  BY <1>1, <1>2, <1>3, DisturbFalls
<1>8. OnlyTask(s)
  BY <1>2, <1>5, <1>7 DEF ReadTranscript, net, OnlyTask, Queues, Typed
<1>9. Live(s)' /\ (Writing(s)' <=> Writing(s)) /\ WritesOverAll(s)'
  BY <1>1, <1>6, <1>7 DEF Live, Writing, WritesOverAll, FindByKey, ReadTranscript
<1>10. toClient' = toClient /\ \A i \in DOMAIN toClient'[s] : Placed(s, toClient'[s][i])
  BY DEF ReadTranscript, net, Placed
<1> QED  BY <1>1, <1>6, <1>8, <1>9, <1>10, SilentTaskKeeps

LEMMA BuildPromptKeeps ==
  ASSUME SessionInv, NEW s \in Sessions, BuildPrompt(s)  PROVE  SessionInv'
<1>1. Active(s) /\ ~ Writing(s)
  BY DEF BuildPrompt, Active, Live, Writing
<1>2. session[s] \in SessionState /\ Typed
  BY TaskTypes DEF SessionInv
<1>3. DetermineMode(canvas[session[s].thread], session[s].skip, session[s].review)
        \in {"Review", "Intake", "Conversation"}
  BY DEF DetermineMode
<1>4. PICK m \in {"Review", "Intake", "Conversation"} :
        session' = [session EXCEPT ![s].pc = "llm", ![s].mode = m]
  BY <1>3 DEF BuildPrompt
<1>5. /\ session'[s] = [session[s] EXCEPT !.pc = "llm", !.mode = m]
      /\ session' \in [Sessions -> SessionState]
      /\ \A u \in Sessions \ {s} : session'[u] = session[u]
  BY <1>2, <1>4 DEF Typed, SessionState
<1>6. /\ session'[s].pc = "llm" /\ session'[s].thread = session[s].thread
      /\ session'[s].seq = session[s].seq /\ session'[s].turn = session[s].turn
  BY <1>2, <1>5 DEF SessionState
<1>7. OnlyTask(s)
  BY <1>2, <1>5 DEF BuildPrompt, net, OnlyTask, Queues, Typed
<1>8. Live(s)' /\ (Writing(s)' <=> Writing(s)) /\ WritesOverAll(s)'
  BY <1>1, <1>6 DEF Live, Writing, WritesOverAll
<1>9. toClient' = toClient /\ \A i \in DOMAIN toClient'[s] : Placed(s, toClient'[s][i])
  BY DEF BuildPrompt, net, Placed
<1> QED  BY <1>1, <1>6, <1>7, <1>8, <1>9, SilentTaskKeeps

LEMMA AnswerKeeps ==
  ASSUME SessionInv, NEW s \in Sessions, Answer(s)  PROVE  SessionInv'
<1>1. Active(s) /\ ~ Writing(s)
  BY DEF Answer, Active, Live, Writing
<1>2. session[s] \in SessionState /\ Typed
  BY TaskTypes DEF SessionInv
<1>3. PICK p \in {"canvas", "say", "ready"}, r \in SUBSET {"chat", "canvas"} :
        session' = [session EXCEPT ![s].pc = p, ![s].reply = r,
                                   ![s].mode = "Conversation", ![s].review = FALSE]
  <2>1. PICK reply \in Replies :
          session' = [session EXCEPT
            ![s].pc     = IF "canvas" \in reply THEN "canvas" ELSE AfterCanvas(reply),
            ![s].reply  = IF "canvas" \in reply THEN reply ELSE {},
            ![s].mode   = "Conversation",
            ![s].review = FALSE]
    BY DEF Answer
  <2>2. /\ (IF "canvas" \in reply THEN "canvas" ELSE AfterCanvas(reply))
             \in {"canvas", "say", "ready"}
        /\ (IF "canvas" \in reply THEN reply ELSE {}) \in SUBSET {"chat", "canvas"}
    BY DEF AfterCanvas, Replies
  <2> QED  BY <2>1, <2>2
<1>5. /\ session'[s] = [session[s] EXCEPT !.pc = p, !.reply = r, !.mode = "Conversation",
                                          !.review = FALSE]
      /\ session' \in [Sessions -> SessionState]
      /\ \A u \in Sessions \ {s} : session'[u] = session[u]
  BY <1>2, <1>3 DEF Typed, SessionState
<1>6. /\ session'[s].pc = p /\ session'[s].thread = session[s].thread
      /\ session'[s].seq = session[s].seq /\ session'[s].turn = session[s].turn
  BY <1>2, <1>5 DEF SessionState
<1>7. OnlyTask(s)
  BY <1>2, <1>5 DEF Answer, net, OnlyTask, Queues, Typed
<1>8. Live(s)' /\ (Writing(s)' <=> Writing(s)) /\ WritesOverAll(s)'
  BY <1>1, <1>6 DEF Live, Writing, WritesOverAll
<1>9. toClient' = toClient /\ \A i \in DOMAIN toClient'[s] : Placed(s, toClient'[s][i])
  BY DEF Answer, net, Placed
<1> QED  BY <1>1, <1>6, <1>7, <1>8, <1>9, SilentTaskKeeps

LEMMA WriteCanvasKeeps ==
  ASSUME SessionInv, NEW s \in Sessions, WriteCanvas(s)  PROVE  SessionInv'
<1>1. Active(s) /\ ~ Writing(s)
  BY DEF WriteCanvas, Active, Live, Writing
<1>2. session[s] \in SessionState /\ Typed
  BY TaskTypes DEF SessionInv
<1>3. PICK p \in {"say", "ready"} : session' = [session EXCEPT ![s].pc = p, ![s].reply = {}]
  BY DEF WriteCanvas, AfterCanvas
<1>5. /\ session'[s] = [session[s] EXCEPT !.pc = p, !.reply = {}]
      /\ session' \in [Sessions -> SessionState]
      /\ \A u \in Sessions \ {s} : session'[u] = session[u]
  BY <1>2, <1>3 DEF Typed, SessionState
<1>6. /\ session'[s].pc = p /\ session'[s].thread = session[s].thread
      /\ session'[s].seq = session[s].seq /\ session'[s].turn = session[s].turn
  BY <1>2, <1>5 DEF SessionState
<1>7. OnlyTask(s)
  BY <1>2, <1>5 DEF WriteCanvas, net, OnlyTask, Queues, Typed
<1>8. Live(s)' /\ (Writing(s)' <=> Writing(s)) /\ WritesOverAll(s)'
  BY <1>1, <1>6 DEF Live, Writing, WritesOverAll
<1>9. toClient' = toClient /\ \A i \in DOMAIN toClient'[s] : Placed(s, toClient'[s][i])
  BY DEF WriteCanvas, net, Placed
<1> QED  BY <1>1, <1>6, <1>7, <1>8, <1>9, SilentTaskKeeps

\* A replay is the rest of the transcript, every turn under its position.
LEMMA ReplayIsPlaced ==
  ASSUME Typed, NEW t \in Threads, NEW n \in Nat
  PROVE  /\ Replayed(t, n) \in Seq(ToClient)
         /\ \A i \in 1..Len(Replayed(t, n)) :
              LET m == Replayed(t, n)[i]
              IN  m.seq \in 1..Len(transcript[t]) /\ transcript[t][m.seq] = m.turn
<1> DEFINE len == IF Len(transcript[t]) >= n THEN Len(transcript[t]) - n ELSE 0
<1>1. transcript[t] \in Seq(Turn) /\ Len(transcript[t]) \in Nat
  BY DEF Typed
<1>2. len \in Nat /\ 1..(Len(transcript[t]) - n) = 1..len
  BY <1>1
<1>3. \A i \in 1..len : n + i \in 1..Len(transcript[t]) /\ transcript[t][n + i] \in Turn
  <2> SUFFICES ASSUME NEW i \in 1..len
               PROVE  n + i \in 1..Len(transcript[t]) /\ transcript[t][n + i] \in Turn
    OBVIOUS
  <2>1. n + i \in 1..Len(transcript[t])
    BY <1>1
  <2> QED  BY <1>1, <2>1, ElementOfSeq
<1>4. Replayed(t, n) = [i \in 1..len |-> Message(n + i, transcript[t][n + i])]
  BY <1>2 DEF Replayed
<1> HIDE DEF len
<1>5. \A i \in 1..len : Message(n + i, transcript[t][n + i]) \in ToClient
  BY <1>1, <1>3 DEF Message, ToClient
<1>6. Replayed(t, n) \in [1..len -> ToClient]
  BY <1>4, <1>5
<1>7. Replayed(t, n) \in Seq(ToClient) /\ Len(Replayed(t, n)) = len
  BY <1>2, <1>6, SeqDef, LenProperties
<1>8. ASSUME NEW i \in 1..len
      PROVE  /\ Replayed(t, n)[i].seq \in 1..Len(transcript[t])
             /\ transcript[t][Replayed(t, n)[i].seq] = Replayed(t, n)[i].turn
  <2>1. Replayed(t, n)[i] = Message(n + i, transcript[t][n + i])
    BY <1>4
  <2>2. Replayed(t, n)[i].seq = n + i /\ Replayed(t, n)[i].turn = transcript[t][n + i]
    BY <2>1 DEF Message
  <2> QED  BY <1>3, <2>2
<1> QED  BY <1>7, <1>8

LEMMA SyncKeeps ==
  ASSUME SessionInv, NEW s \in Sessions, Sync(s)  PROVE  SessionInv'
<1> DEFINE t == session[s].thread
           n == Head(toServer[s]).seq
<1>1. Active(s) /\ Live(s) /\ session[s].pc = "ready"
  BY DEF Sync, Frame, Active, Live
<1>2. /\ session[s] \in SessionState /\ Tail(toServer[s]) \in Seq(ToServer)
      /\ toClient[s] \in Seq(ToClient) /\ t \in Threads /\ Typed
  BY <1>1, TaskTypes DEF SessionInv, Sync, Frame, Typed
<1>3. n \in Nat
  <2>1. Head(toServer[s]) \in ToServer /\ Head(toServer[s]).type = "client_hello"
    BY <1>2, TaskTypes DEF Sync, Frame
  <2> QED  BY <2>1 DEF ToServer
<1>4. PICK ok \in BOOLEAN :
        /\ toClient' = [toClient EXCEPT ![s] =
             IF ok /\ Connected(s) THEN @ \o Replayed(t, n) ELSE @]
        /\ Disturb(s, ~ ok)
  BY DEF Sync
<1>5. /\ Replayed(t, n) \in Seq(ToClient)
      /\ \A i \in 1..Len(Replayed(t, n)) :
           LET m == Replayed(t, n)[i]
           IN  m.seq \in 1..Len(transcript[t]) /\ transcript[t][m.seq] = m.turn
  BY <1>2, <1>3, ReplayIsPlaced
<1>6. /\ session'[s] = [session[s] EXCEPT !.synced = TRUE]
      /\ session' \in [Sessions -> SessionState]
      /\ \A u \in Sessions \ {s} : session'[u] = session[u]
  BY <1>2 DEF Sync, Typed, SessionState
<1>7. /\ session'[s].pc = "ready" /\ session'[s].thread = session[s].thread
      /\ session'[s].seq = session[s].seq /\ session'[s].turn = session[s].turn
  BY <1>1, <1>2, <1>6 DEF SessionState
<1>8. /\ toClient'[s] = toClient[s] \/ toClient'[s] = toClient[s] \o Replayed(t, n)
      /\ ~ Connected(s) => toClient'[s] = toClient[s]
      /\ \A u \in Sessions \ {s} : toClient'[u] = toClient[u]
  BY <1>2, <1>4 DEF Typed
<1>9. toClient' \in [Sessions -> Seq(ToClient)]
  <2>1. toClient[s] \o Replayed(t, n) \in Seq(ToClient)
    BY <1>2, <1>5, ConcatProperties
  <2> HIDE DEF t, n
  <2> QED  BY <1>2, <1>4, <2>1 DEF Typed
<1>10. /\ clean' \in [Threads -> BOOLEAN] /\ \A x \in Threads : clean'[x] => clean[x]
  BY <1>1, <1>2, <1>4, DisturbFalls
<1>11. OnlyTask(s)
  <2>1. toServer' \in [Sessions -> Seq(ToServer)] /\ \A u \in Sessions \ {s} : toServer'[u] = toServer[u]
    BY <1>2 DEF Sync, Take, Typed
  <2>2. UNCHANGED <<transcript, tab, turns>>
    BY DEF Sync
  <2> QED  BY <1>6, <1>8, <1>9, <1>10, <2>1, <2>2 DEF OnlyTask, Queues
<1>12. Live(s)' /\ (Writing(s)' <=> Writing(s)) /\ WritesOverAll(s)'
  BY <1>1, <1>7 DEF Live, Writing, WritesOverAll
<1>13. ASSUME NEW i \in DOMAIN toClient'[s]  PROVE  Placed(s, toClient'[s][i])
  <2>1. CASE toClient'[s] = toClient[s]
    BY <2>1 DEF Placed
  <2>2. CASE toClient'[s] = toClient[s] \o Replayed(t, n)
    <3> DEFINE old == toClient[s]
               new == Replayed(t, n)
    <3>0. old \in Seq(ToClient) /\ new \in Seq(ToClient) /\ toClient'[s] = old \o new
      BY <1>2, <1>5, <2>2
    <3> HIDE DEF t, n, old, new
    <3>a. /\ Len(old \o new) = Len(old) + Len(new)
          /\ \A j \in 1..(Len(old) + Len(new)) :
               (old \o new)[j] = IF j <= Len(old) THEN old[j] ELSE new[j - Len(old)]
      BY <3>0, ConcatProperties
    <3>b. i \in 1..Len(old \o new)
      <4>1. old \o new \in Seq(ToClient)
        BY <3>0, ConcatProperties
      <4> QED  BY <3>0, <4>1, LenProperties
    <3>c. /\ Len(old) \in Nat /\ Len(new) \in Nat /\ DOMAIN old = 1..Len(old)
      BY <3>0, LenProperties
    <3>1. /\ i \in 1..(Len(toClient[s]) + Len(Replayed(t, n)))
          /\ Len(toClient[s]) \in Nat /\ Len(Replayed(t, n)) \in Nat
          /\ DOMAIN toClient[s] = 1..Len(toClient[s])
          /\ toClient'[s][i] = IF i <= Len(toClient[s]) THEN toClient[s][i]
                                 ELSE Replayed(t, n)[i - Len(toClient[s])]
      BY <3>0, <3>a, <3>b, <3>c DEF old, new
    <3>2. CASE i <= Len(toClient[s])
      BY <3>1, <3>2 DEF Placed
    <3>3. CASE i > Len(toClient[s])
      <4> DEFINE k == i - Len(toClient[s])
      <4>1. k \in 1..Len(Replayed(t, n)) /\ toClient'[s][i] = Replayed(t, n)[k]
        BY <3>1, <3>3
      <4>2. /\ toClient'[s][i].seq \in 1..Len(transcript[t])
            /\ transcript[t][toClient'[s][i].seq] = toClient'[s][i].turn
        BY <1>5, <4>1
      <4>3. transcript' = transcript
        BY <1>11 DEF OnlyTask
      <4> QED  BY <4>2, <4>3 DEF Placed, PositionAfter, t
    <3> QED  BY <3>1, <3>2, <3>3
  <2> QED  BY <1>8, <2>1, <2>2
<1> QED  BY <1>1, <1>7, <1>8, <1>11, <1>12, <1>13, SilentTaskKeeps

\* A turn goes out under the number after those of the transcript, and the task
\* that sent it is the one that will write it there.
LEMMA NumberedKeeps ==
  ASSUME SessionInv, NEW s \in Sessions, Active(s), ~ Writing(s), NEW turn \in Turn,
         SendThen(s, Message(session[s].seq + 1, turn),
                  [session[s] EXCEPT !.pc = "read", !.seq = session[s].seq + 1,
                                     !.turn = turn]),
         toServer' \in [Sessions -> Seq(ToServer)],
         \A u \in Sessions \ {s} : toServer'[u] = toServer[u],
         UNCHANGED <<transcript, tab, turns, clean>>
  PROVE  SessionInv'
<1> DEFINE n    == session[s].seq + 1
           next == [session[s] EXCEPT !.pc = "read", !.seq = n, !.turn = turn]
<1>1. /\ session[s] \in SessionState /\ toClient[s] \in Seq(ToClient) /\ Typed
      /\ session[s].thread \in Threads /\ CountsTranscript(s) /\ Live(s)
  BY TaskTypes DEF SessionInv, Typed, Active
<1>a. n \in Nat
  BY <1>1 DEF SessionState
<1>2. /\ next \in SessionState /\ next.pc = "read" /\ next.thread = session[s].thread
      /\ next.seq = n /\ next.turn = turn /\ n \in Nat
  <2> HIDE DEF n
  <2>1. next = [session[s] EXCEPT !.pc = "read", !.seq = n, !.turn = turn]
    OBVIOUS
  <2> QED  BY <1>1, <1>a, <2>1 DEF SessionState
<1>3. clean[session[s].thread] => n = Len(transcript[session[s].thread]) + 1
  BY <1>1 DEF CountsTranscript
<1>4. SendThen(s, Message(n, turn), next)
  OBVIOUS
<1> HIDE DEF n, next
<1>5. Message(n, turn) \in ToClient /\ Append(toClient[s], Message(n, turn)) \in Seq(ToClient)
  <2>1. Message(n, turn) \in ToClient
    BY <1>2 DEF Message, ToClient
  <2> QED  BY <1>1, <2>1, AppendProperties
<1>6. ClosedSession \in SessionState
  <2>1. <<>> \in Seq(Turn)
    OBVIOUS
  <2> QED  BY <2>1 DEF ClosedSession, SessionState, NoTurn, Turn
<1>7. /\ session' \in [Sessions -> SessionState] /\ toClient' \in [Sessions -> Seq(ToClient)]
      /\ \A u \in Sessions \ {s} : session'[u] = session[u] /\ toClient'[u] = toClient[u]
      /\ session'[s] = next \/ (session'[s] = ClosedSession /\ ~ Connected(s))
      /\ ~ Connected(s) => toClient'[s] = toClient[s]
      /\ \/ toClient'[s] = toClient[s]
         \/ toClient'[s] = Append(toClient[s], Message(n, turn)) /\ session'[s] = next
  <2> DEFINE longer == Append(toClient[s], Message(n, turn))
  <2>1. /\ session \in [Sessions -> SessionState] /\ toClient \in [Sessions -> Seq(ToClient)]
        /\ longer \in Seq(ToClient)
    BY <1>1, <1>5 DEF Typed
  <2>2. \/ Connected(s) /\ toClient' = [toClient EXCEPT ![s] = longer]
             /\ session' = [session EXCEPT ![s] = next]
        \/ ~ Connected(s) /\ toClient' = toClient
             /\ session' \in {[session EXCEPT ![s] = next],
                             [session EXCEPT ![s] = ClosedSession]}
    BY <1>4 DEF SendThen
  <2> HIDE DEF longer
  <2>3. CASE toClient' = [toClient EXCEPT ![s] = longer]
             /\ session' = [session EXCEPT ![s] = next] /\ Connected(s)
    <3>1. toClient' \in [Sessions -> Seq(ToClient)] /\ toClient'[s] = longer
          /\ \A u \in Sessions \ {s} : toClient'[u] = toClient[u]
      BY <2>1, <2>3
    <3>2. session' \in [Sessions -> SessionState] /\ session'[s] = next
          /\ \A u \in Sessions \ {s} : session'[u] = session[u]
      BY <1>2, <2>1, <2>3
    <3> QED  BY <2>3, <3>1, <3>2 DEF longer
  <2>4. CASE session' = [session EXCEPT ![s] = next] /\ toClient' = toClient
    BY <1>2, <2>1, <2>4
  <2>5. CASE session' = [session EXCEPT ![s] = ClosedSession] /\ toClient' = toClient
             /\ ~ Connected(s)
    BY <1>6, <2>1, <2>5
  <2> QED  BY <2>2, <2>3, <2>4, <2>5
<1>8. OnlyTask(s)
  BY <1>1, <1>7 DEF OnlyTask, Queues, Typed
<1>9. StaysOrEnds(s)
  BY <1>2, <1>7 DEF StaysOrEnds, Live
<1>10. CountsTranscript(s)' /\ WritesOverAll(s)'
  <2>1. transcript' = transcript /\ clean' = clean
    OBVIOUS
  <2>2. CASE session'[s] = next
    <3>1. Writing(s)' /\ session'[s].pc = "read"
      BY <1>2, <2>2 DEF Writing
    <3>2. session'[s].seq = n /\ session'[s].thread = session[s].thread
      BY <1>2, <2>2
    <3> QED  BY <1>3, <2>1, <3>1, <3>2 DEF CountsTranscript, WritesOverAll
  <2>3. CASE session'[s] = ClosedSession
    BY <2>3 DEF CountsTranscript, WritesOverAll, Active, Live, ClosedSession
  <2> QED  BY <1>7, <2>2, <2>3
<1>11. ASSUME NEW i \in DOMAIN toClient'[s]  PROVE  Placed(s, toClient'[s][i])
  <2>1. CASE toClient'[s] = toClient[s]
    BY <2>1 DEF Placed
  <2>2. CASE toClient'[s] = Append(toClient[s], Message(n, turn)) /\ session'[s] = next
    <3>1. /\ Len(toClient[s]) \in Nat /\ i \in 1..(Len(toClient[s]) + 1)
          /\ DOMAIN toClient[s] = 1..Len(toClient[s])
          /\ i # Len(toClient[s]) + 1 => toClient'[s][i] = toClient[s][i]
          /\ i = Len(toClient[s]) + 1 => toClient'[s][i] = Message(n, turn)
      BY <1>1, <1>5, <2>2, AppendProperties, LenProperties
    <3>2. CASE i # Len(toClient[s]) + 1
      BY <3>1, <3>2 DEF Placed
    <3>3. CASE i = Len(toClient[s]) + 1
      <4>1. toClient'[s][i].seq = n /\ toClient'[s][i].turn = turn
        BY <3>1, <3>3 DEF Message
      <4>2. clean'[session[s].thread] => PositionAfter(session[s].thread, n, turn)
        BY <1>2, <1>3, <2>2 DEF PositionAfter
      <4> QED  BY <4>1, <4>2 DEF Placed
    <3> QED  BY <3>2, <3>3
  <2> QED  BY <1>7, <2>1, <2>2
<1>12. QuietTask(s)
  BY <1>1, <1>7, <1>8, <1>9, <1>10, <1>11 DEF QuietTask
<1> QED  BY <1>12, QuietTaskKeeps

LEMMA EchoKeeps ==
  ASSUME SessionInv, NEW s \in Sessions, Echo(s)  PROVE  SessionInv'
<1>1. Active(s) /\ ~ Writing(s)
  BY DEF Echo, Frame, Active, Live, Writing
<1>2. Head(toServer[s]) \in ToServer /\ Tail(toServer[s]) \in Seq(ToServer) /\ Typed
  BY TaskTypes DEF SessionInv, Echo, Frame
<1>3. Head(toServer[s]).turn \in Turn
  BY <1>2 DEF Echo, ToServer
<1>4. /\ toServer' \in [Sessions -> Seq(ToServer)]
      /\ \A u \in Sessions \ {s} : toServer'[u] = toServer[u]
  BY <1>2 DEF Echo, Take, Typed
<1> QED  BY <1>1, <1>3, <1>4, NumberedKeeps DEF Echo

LEMMA SayKeeps ==
  ASSUME SessionInv, NEW s \in Sessions, Say(s)  PROVE  SessionInv'
<1>1. Active(s) /\ ~ Writing(s)
  BY DEF Say, Active, Live, Writing
<1>2. session[s] \in SessionState /\ Typed
  BY TaskTypes DEF SessionInv
<1>3. [session[s].turn EXCEPT !.role = "assistant"] \in Turn
  BY <1>2 DEF SessionState, Turn
<1> QED  BY <1>1, <1>2, <1>3, NumberedKeeps DEF Say, Typed

LEMMA EndSessionKeeps ==
  ASSUME SessionInv, NEW s \in Sessions, EndSession(s)  PROVE  SessionInv'
<1>1. Live(s) /\ ~ Writing(s) /\ ~ Connected(s) /\ Typed
  BY DEF EndSession, Live, Writing, SessionInv
<1>2. ClosedSession \in SessionState /\ <<>> \in Seq(ToServer)
  <2>1. <<>> \in Seq(Turn) /\ <<>> \in Seq(ToServer)
    OBVIOUS
  <2> QED  BY <2>1 DEF ClosedSession, SessionState, NoTurn, Turn
<1>3. session'[s] = ClosedSession
  BY <1>1 DEF EndSession, Typed
<1>4. OnlyTask(s)
  BY <1>1, <1>2 DEF EndSession, OnlyTask, Queues, Typed
<1>5. QuietTask(s)
  BY <1>1, <1>3, <1>4
     DEF QuietTask, StaysOrEnds, CountsTranscript, WritesOverAll, Active, Live, ClosedSession,
         EndSession, Placed
<1> QED  BY <1>5, QuietTaskKeeps

-----------------------------------------------------------------------------
(* The write *)

\* What a write leaves behind where it disturbs nothing: the task alone may
\* write its thread, it had read all of it, and its turn comes after the rest.
LEMMA WriteFacts ==
  ASSUME SessionInv, NEW s \in Sessions, WriteTranscript(s)
  PROVE  /\ session[s].thread \in Threads /\ transcript' \in [Threads -> Seq(Turn)]
         /\ clean' \in [Threads -> BOOLEAN] /\ \A t \in Threads : clean'[t] => clean[t]
         /\ \A t \in Threads \ {session[s].thread} : transcript'[t] = transcript[t]
         /\ clean'[session[s].thread] =>
              /\ Rivals(s) = {}
              /\ transcript'[session[s].thread] =
                   Append(transcript[session[s].thread], session[s].turn)
<1> DEFINE t == session[s].thread
<1>1. /\ session[s] \in SessionState /\ t \in Threads /\ Typed /\ Live(s)
      /\ session[s].pc = "write" /\ WritesOverAll(s)
  BY TaskTypes DEF SessionInv, Typed, WriteTranscript, Live
<1>2. PICK ok \in BOOLEAN :
        /\ Upsert(t, Append(session[s].base, session[s].turn), ok)
        /\ Disturb(s, ~ ok \/ Rivals(s) # {})
  BY DEF WriteTranscript
<1>3. session[s].base \in Seq(Turn) /\ session[s].turn \in Turn
  BY <1>1 DEF SessionState
<1>4. Append(session[s].base, session[s].turn) \in Seq(Turn)
  BY <1>3, AppendProperties
<1>5. /\ transcript' \in [Threads -> Seq(Turn)]
      /\ \A x \in Threads \ {t} : transcript'[x] = transcript[x]
      /\ ok => transcript'[t] = Append(session[s].base, session[s].turn)
  <2> HIDE DEF t
  <2> QED  BY <1>1, <1>2, <1>4 DEF Upsert, Typed
<1>6. (~ ok \/ Rivals(s) # {}) \in BOOLEAN
  OBVIOUS
<1>7. /\ clean' \in [Threads -> BOOLEAN] /\ \A x \in Threads : clean'[x] => clean[x]
      /\ clean'[t] => ~ (~ ok \/ Rivals(s) # {})
  BY <1>1, <1>2, <1>6, DisturbFalls
<1> QED  BY <1>1, <1>5, <1>7 DEF WritesOverAll

LEMMA WriteTranscriptKeeps ==
  ASSUME SessionInv, NEW s \in Sessions, WriteTranscript(s)  PROVE  SessionInv'
<1> USE NoneAssumption
<1> DEFINE t == session[s].thread
<1>1. /\ session[s] \in SessionState /\ Typed /\ Live(s) /\ Writing(s) /\ Active(s)
      /\ session[s].pc = "write" /\ CountsTranscript(s)
  BY TaskTypes DEF SessionInv, WriteTranscript, Live, Writing, Active
<1>2. /\ t \in Threads /\ transcript' \in [Threads -> Seq(Turn)]
      /\ clean' \in [Threads -> BOOLEAN] /\ \A x \in Threads : clean'[x] => clean[x]
      /\ \A x \in Threads \ {t} : transcript'[x] = transcript[x]
      /\ clean'[t] => /\ Rivals(s) = {}
                      /\ transcript'[t] = Append(transcript[t], session[s].turn)
  BY WriteFacts
<1>3. PICK p \in {"context", "ready"} :
        session' = [session EXCEPT ![s].pc = p, ![s].base = <<>>]
  BY DEF WriteTranscript
<1>4. /\ session'[s] = [session[s] EXCEPT !.pc = p, !.base = <<>>]
      /\ session' \in [Sessions -> SessionState]
      /\ \A u \in Sessions \ {s} : session'[u] = session[u]
  <2>1. <<>> \in Seq(Turn)
    OBVIOUS
  <2> QED  BY <1>1, <1>3, <2>1 DEF Typed, SessionState
<1>5. /\ session'[s].pc = p /\ session'[s].thread = t
      /\ session'[s].seq = session[s].seq /\ session'[s].turn = session[s].turn
  BY <1>1, <1>4 DEF SessionState
<1>6. UNCHANGED <<toServer, toClient, tab, turns>>
  BY DEF WriteTranscript, net
<1>7. \A u \in Sessions : /\ Connected(u)' = Connected(u) /\ session'[u].thread = session[u].thread
                          /\ Live(u)' = Live(u)
  BY <1>1, <1>4, <1>5, <1>6 DEF Connected, Live
<1>8. Typed'
  BY <1>1, <1>2, <1>4, <1>6, <1>7 DEF Typed
<1>9. ConnectedToThread' /\ NothingToNobody'
  <2>1. ASSUME NEW c \in Tabs, NEW u, u = tab[c].conn, u # None
        PROVE  Live(u)' /\ session'[u].thread = tab[c].thread
    <3>1. u \in Sessions /\ Live(u) /\ session[u].thread = tab[c].thread
      BY <2>1 DEF SessionInv, Typed, TabState, ConnectedToThread
    <3> QED  BY <1>7, <3>1
  <2>2. ConnectedToThread'
    BY <1>6, <2>1 DEF ConnectedToThread, Live
  <2>3. NothingToNobody'
    BY <1>6, <1>7 DEF NothingToNobody, SessionInv
  <2> QED  BY <2>2, <2>3
\* Another task that may write the thread would be a rival.
<1>10. ASSUME NEW u \in Sessions \ {s}, session[u].thread = t, clean'[t]  PROVE  ~ Active(u)
  BY <1>2, <1>10 DEF Rivals, Active
<1>11. clean'[t] => /\ Len(transcript'[t]) = Len(transcript[t]) + 1
                    /\ Len(transcript[t]) \in Nat
                    /\ transcript'[t][Len(transcript[t]) + 1] = session[s].turn
                    /\ \A i \in 1..Len(transcript[t]) : transcript'[t][i] = transcript[t][i]
  <2>1. transcript[t] \in Seq(Turn) /\ session[s].turn \in Turn
    BY <1>1, <1>2 DEF Typed, SessionState
  <2> DEFINE old  == transcript[t]
             turn == session[s].turn
  <2>2. old \in Seq(Turn) /\ turn \in Turn
    BY <2>1
  <2>3. clean'[t] => transcript'[t] = Append(old, turn)
    BY <1>2
  <2> HIDE DEF old, turn
  <2>4. /\ Len(Append(old, turn)) = Len(old) + 1 /\ Len(old) \in Nat
        /\ Append(old, turn)[Len(old) + 1] = turn
        /\ \A i \in 1..Len(old) : Append(old, turn)[i] = old[i]
    BY <2>2, AppendProperties, LenProperties
  <2> QED  BY <2>3, <2>4 DEF old, turn
<1>12. ASSUME NEW u \in Sessions  PROVE  CountsTranscript(u)' /\ WritesOverAll(u)'
  <2>1. CASE u = s
    <3>1. clean'[t] => session[s].seq = Len(transcript[t]) + 1
      BY <1>1, <1>2 DEF CountsTranscript
    <3>2. ~ Writing(s)' /\ session'[s].pc # "write"
      BY <1>5 DEF Writing
    <3> QED  BY <1>5, <1>11, <2>1, <3>1, <3>2 DEF CountsTranscript, WritesOverAll
  <2>2. CASE u # s /\ session[u].thread = t
    <3>1. clean'[t] => ~ Active(u) /\ session[u].pc # "write"
      BY <1>10, <2>2 DEF Active, Live
    <3>2. session'[u] = session[u] /\ Active(u)' = Active(u)
      BY <1>4, <1>6, <1>7, <2>2 DEF Active
    <3> QED  BY <2>2, <3>1, <3>2 DEF CountsTranscript, WritesOverAll
  <2>3. CASE u # s /\ session[u].thread # t
    <3>1. session'[u] = session[u] /\ Active(u)' = Active(u)
      BY <1>4, <1>6, <1>7, <2>3 DEF Active
    <3>2. Live(u) => session[u].thread \in Threads \ {t}
      BY <1>1, <2>3 DEF Typed
    <3>3. CountsTranscript(u) /\ WritesOverAll(u)
      BY DEF SessionInv
    <3> QED  BY <1>2, <3>1, <3>2, <3>3 DEF CountsTranscript, WritesOverAll, Active, Live, Writing
  <2> QED  BY <2>1, <2>2, <2>3
<1>13. PositionsKept
  <2> SUFFICES ASSUME NEW x \in Threads, NEW n, NEW turn, clean'[x], IsPosition(x, n, turn)
               PROVE  PositionAfter(x, n, turn)
    BY <1>2 DEF PositionsKept
  <2>1. CASE x = t
    <3>1. CASE n \in 1..Len(transcript[t]) /\ transcript[t][n] = turn
      BY <1>11, <2>1, <3>1 DEF PositionAfter
    <3>2. CASE n = Len(transcript[t]) + 1 /\
               \E u \in Sessions : /\ session[u].thread = t /\ session[u].turn = turn
                                   /\ session[u].pc \in {"read", "write"}
      <4>1. PICK u \in Sessions : /\ session[u].thread = t /\ session[u].turn = turn
                                  /\ session[u].pc \in {"read", "write"}
        BY <3>2
      <4>2. u = s
        BY <1>10, <2>1, <4>1 DEF Active, Live
      <4> QED  BY <1>11, <2>1, <3>2, <4>1, <4>2 DEF PositionAfter
    <3> QED  BY <2>1, <3>1, <3>2 DEF IsPosition
  <2>2. CASE x # t
    <3>1. transcript'[x] = transcript[x]
      BY <1>2, <2>2
    <3>2. ASSUME NEW u \in Sessions, session[u].thread = x  PROVE  session'[u] = session[u]
      BY <1>4, <2>2, <3>2
    <3> QED  BY <3>1, <3>2 DEF IsPosition, PositionAfter
  <2> QED  BY <2>1, <2>2
<1>14. SeqIsPosition'
  <2>1. \A c \in Tabs : \A i \in DOMAIN tab[c].shown : tab[c].shown[i] \in ShownTurn
    BY DEF SessionInv, Typed, TabState
  <2>2. ASSUME NEW u \in Sessions, NEW i \in DOMAIN toClient[u]  PROVE  session[u].thread \in Threads
    <3>1. Connected(u)
      BY DEF SessionInv, NothingToNobody
    <3> QED  BY <3>1, ConnectedIsLive DEF SessionInv, Typed
  <2> QED  BY <1>6, <1>7, <1>13, <2>1, <2>2, NumbersStayRight DEF ShownTurn, SessionInv
<1> QED  BY <1>8, <1>9, <1>12, <1>14 DEF SessionInv

-----------------------------------------------------------------------------
(* The steps of a tab *)

\* A step that leaves tasks and transcripts alone, makes no task active, and
\* shows and sends nothing new but what was on its way to the tab.
QuietTab ==
  /\ UNCHANGED <<transcript, session, clean>>
  /\ Queues' /\ tab' \in [Tabs -> TabState] /\ turns' \in Nat
  /\ ConnectedToThread' /\ NothingToNobody'
  /\ \A s \in Sessions : Active(s)' => Active(s)
  /\ \A s \in Sessions : \A i \in DOMAIN toClient'[s] :
       \E j \in DOMAIN toClient[s] : toClient'[s][i] = toClient[s][j]
  /\ \A c \in Tabs : \A i \in DOMAIN tab'[c].shown :
       LET m == tab'[c].shown[i]
       IN  \/ m.seq <= 0
           \/ \E j \in DOMAIN tab[c].shown : m = tab[c].shown[j]
           \/ clean[m.thread] => IsPosition(m.thread, m.seq, m.turn)

LEMMA QuietTabKeeps ==
  ASSUME SessionInv, QuietTab  PROVE  SessionInv'
<1> USE NoneAssumption
<1>1. Typed'
  BY DEF QuietTab, Queues, SessionInv, Typed, Live
<1>2. ASSUME NEW s \in Sessions  PROVE  CountsTranscript(s)' /\ WritesOverAll(s)'
  <2>1. CountsTranscript(s) /\ WritesOverAll(s)
    BY DEF SessionInv
  <2> QED  BY <2>1 DEF CountsTranscript, WritesOverAll, QuietTab, Writing
<1>3. SeqIsPosition'
  <2>1. PositionsKept
    BY NothingWritten DEF QuietTab, Writing
  <2>2. \A t, n, turn : IsPosition(t, n, turn) => PositionAfter(t, n, turn)
    BY DEF IsPosition, PositionAfter, QuietTab
  <2>3. \A c \in Tabs : \A i \in DOMAIN tab'[c].shown : tab'[c].shown[i] \in ShownTurn
    BY DEF QuietTab, TabState
  <2>4. ASSUME NEW c \in Tabs, NEW i \in DOMAIN tab'[c].shown
        PROVE  LET m == tab'[c].shown[i]
               IN  /\ m.thread \in Threads
                   /\ \/ m.seq <= 0
                      \/ \E j \in DOMAIN tab[c].shown : m = tab[c].shown[j]
                      \/ clean'[m.thread] => PositionAfter(m.thread, m.seq, m.turn)
    BY <2>2, <2>3 DEF QuietTab, ShownTurn
  <2>5. ASSUME NEW s \in Sessions, NEW i \in DOMAIN toClient'[s]
        PROVE  /\ session'[s].thread = session[s].thread /\ session'[s].thread \in Threads
               /\ \E j \in DOMAIN toClient[s] : toClient'[s][i] = toClient[s][j]
    <3>1. PICK j \in DOMAIN toClient[s] : toClient'[s][i] = toClient[s][j]
      BY DEF QuietTab
    <3>2. Connected(s)
      BY DEF SessionInv, NothingToNobody
    <3> QED  BY <3>1, <3>2, ConnectedIsLive DEF SessionInv, Typed, QuietTab
  <2> QED  BY <2>1, <2>3, <2>4, <2>5, NumbersStayRight DEF ShownTurn, SessionInv
<1> QED  BY <1>1, <1>2, <1>3 DEF QuietTab, SessionInv

\* What a tab's state is made of, and the task it talks to.
LEMMA TabTypes ==
  ASSUME SessionInv, NEW c \in Tabs
  PROVE  /\ tab[c] \in TabState
         /\ tab[c].conn # None =>
              /\ tab[c].conn \in Sessions /\ Live(tab[c].conn) /\ Connected(tab[c].conn)
              /\ session[tab[c].conn].thread = tab[c].thread
BY DEF SessionInv, Typed, TabState, ConnectedToThread, Connected

\* Where no tab changes its socket, sockets and threads still match.
LEMMA SocketsKept ==
  ASSUME SessionInv, UNCHANGED session, tab' \in [Tabs -> TabState],
         \A c \in Tabs : tab'[c].conn = tab[c].conn /\ tab'[c].thread = tab[c].thread
  PROVE  ConnectedToThread' /\ \A s \in Sessions : Connected(s)' = Connected(s)
<1>1. ASSUME NEW c \in Tabs, NEW s, s = tab[c].conn, s # None
      PROVE  Live(s)' /\ session'[s].thread = tab[c].thread
  BY <1>1 DEF SessionInv, ConnectedToThread, Live
<1> QED  BY <1>1 DEF ConnectedToThread, Connected, Live

\* A frame for the task of the tab's socket.
LEMMA TransmitFacts ==
  ASSUME SessionInv, NEW c \in Tabs, NEW m \in ToServer, CanSend(c), Transmit(c, m)
  PROVE  /\ toServer' \in [Sessions -> Seq(ToServer)]
         /\ \A s \in Sessions : s # tab[c].conn => toServer'[s] = toServer[s]
<1>1. tab[c].conn \in Sessions /\ Typed
  BY TabTypes DEF CanSend, SessionInv
<1>2. toServer[tab[c].conn] \in Seq(ToServer)
  BY <1>1, TaskTypes
<1>3. Append(toServer[tab[c].conn], m) \in Seq(ToServer)
  BY <1>2, AppendProperties
<1> QED  BY <1>1, <1>3 DEF Transmit, Typed

\* Sending makes no task active: its tab is connected to it already.
LEMMA SendingKeeps ==
  ASSUME SessionInv, NEW c \in Tabs, NEW m \in ToServer, CanSend(c), Transmit(c, m),
         UNCHANGED <<transcript, session, clean, toClient>>,
         tab' \in [Tabs -> TabState], turns' \in Nat,
         \A d \in Tabs : tab'[d].conn = tab[d].conn /\ tab'[d].thread = tab[d].thread,
         \A d \in Tabs : \A i \in DOMAIN tab'[d].shown :
           \/ tab'[d].shown[i].seq <= 0
           \/ \E j \in DOMAIN tab[d].shown : tab'[d].shown[i] = tab[d].shown[j]
  PROVE  SessionInv'
<1>1. /\ toServer' \in [Sessions -> Seq(ToServer)]
      /\ \A s \in Sessions : s # tab[c].conn => toServer'[s] = toServer[s]
  BY TransmitFacts
<1>2. ConnectedToThread' /\ \A s \in Sessions : Connected(s)' = Connected(s)
  BY SocketsKept
<1>3. \A s \in Sessions : Active(s)' => Active(s)
  BY <1>1, <1>2, TabTypes DEF Active, Live, CanSend
<1>4. NothingToNobody'
  BY <1>2 DEF NothingToNobody, SessionInv
<1>5. QuietTab
  BY <1>1, <1>2, <1>3, <1>4 DEF QuietTab, Queues, SessionInv, Typed
<1> QED  BY <1>5, QuietTabKeeps

LEMMA SendTurnKeeps ==
  ASSUME SessionInv, NEW c \in Tabs, SendTurn(c)  PROVE  SessionInv'
<1> DEFINE t     == [role |-> "user", id |-> turns + 1]
           list  == tab[c].shown
           mine  == [seq |-> -1 - Len(list), turn |-> t, thread |-> tab[c].thread]
<1>1. tab[c] \in TabState /\ Typed
  BY TabTypes DEF SessionInv
<1>2. t \in Turn /\ turns' \in Nat
  BY <1>1 DEF SendTurn, Typed, Turn
<1>3. Message(0, t) \in ToServer
  BY <1>2 DEF Message, ToServer
<1>4. list \in Seq(ShownTurn) /\ Len(list) \in Nat
  BY <1>1 DEF TabState
<1>5. mine \in ShownTurn /\ mine.seq <= 0
  BY <1>1, <1>2, <1>4 DEF ShownTurn, TabState
<1>6. /\ CanSend(c) /\ Transmit(c, Message(0, t))
      /\ tab' = [tab EXCEPT ![c].shown = Append(list, mine)]
      /\ UNCHANGED <<transcript, session, clean, toClient>>
  BY <1>1 DEF SendTurn, Typed
<1> HIDE DEF t, list, mine
<1>7. /\ Append(list, mine) \in Seq(ShownTurn)
      /\ Len(Append(list, mine)) = Len(list) + 1
      /\ \A i \in 1..Len(list) : Append(list, mine)[i] = list[i]
      /\ Append(list, mine)[Len(list) + 1] = mine
  BY <1>4, <1>5, AppendProperties
<1>8. /\ tab' \in [Tabs -> TabState]
      /\ \A d \in Tabs : tab'[d].conn = tab[d].conn /\ tab'[d].thread = tab[d].thread
      /\ \A d \in Tabs : tab'[d].shown = IF d = c THEN Append(list, mine) ELSE tab[d].shown
  BY <1>1, <1>6, <1>7 DEF Typed, TabState
<1>9. ASSUME NEW i \in DOMAIN Append(list, mine)
      PROVE  \/ Append(list, mine)[i].seq <= 0
             \/ \E j \in DOMAIN list : Append(list, mine)[i] = list[j]
  <2>1. i \in 1..(Len(list) + 1) /\ DOMAIN list = 1..Len(list)
    BY <1>4, <1>7, LenProperties
  <2>2. CASE i = Len(list) + 1
    BY <1>5, <1>7, <2>2
  <2>3. CASE i # Len(list) + 1
    <3>1. i \in 1..Len(list)
      BY <1>4, <2>1, <2>3
    <3> QED  BY <1>7, <2>1, <3>1
  <2> QED  BY <2>2, <2>3
<1>10. ASSUME NEW d \in Tabs, NEW i \in DOMAIN tab'[d].shown
       PROVE  \/ tab'[d].shown[i].seq <= 0
              \/ \E j \in DOMAIN tab[d].shown : tab'[d].shown[i] = tab[d].shown[j]
  BY <1>8, <1>9 DEF list
<1> QED  BY <1>2, <1>3, <1>6, <1>8, <1>10, SendingKeeps

LEMMA PressKeeps ==
  ASSUME SessionInv, NEW c \in Tabs, PressSkip(c) \/ PressReview(c)  PROVE  SessionInv'
<1>1. Typed
  BY DEF SessionInv
<1>2. SkipDiscovery \in ToServer /\ ReviewRequested \in ToServer
  BY DEF SkipDiscovery, ReviewRequested, ToServer
<1>3. CASE PressSkip(c)
  <2>1. /\ tab' \in [Tabs -> TabState] /\ turns' \in Nat
        /\ \A d \in Tabs : /\ tab'[d].conn = tab[d].conn /\ tab'[d].thread = tab[d].thread
                           /\ tab'[d].shown = tab[d].shown
    BY <1>1, <1>3 DEF PressSkip, Typed, TabState
  <2> QED  BY <1>2, <1>3, <2>1, SendingKeeps DEF PressSkip
<1>4. CASE PressReview(c)
  BY <1>1, <1>2, <1>4, SendingKeeps DEF PressReview, Typed
<1> QED  BY <1>3, <1>4

\* An envelope arrives: what is shown for it stood on the wire in its position,
\* and the socket belongs to the thread on the screen.
LEMMA DeliverKeeps ==
  ASSUME SessionInv, NEW c \in Tabs, Deliver(c)  PROVE  SessionInv'
<1> DEFINE s    == tab[c].conn
           m    == Head(toClient[s])
           list == tab[c].shown
           new  == [seq |-> m.seq, turn |-> m.turn, thread |-> tab[c].thread]
<1>1. /\ tab[c] \in TabState /\ Typed /\ s \in Sessions /\ Live(s)
      /\ session[s].thread = tab[c].thread /\ toClient[s] # <<>>
  BY TabTypes DEF Deliver, SessionInv
<1>2. toClient[s] \in Seq(ToClient)
  BY <1>1 DEF Typed
<1>3. /\ m = toClient[s][1] /\ 1 \in DOMAIN toClient[s] /\ m \in ToClient
      /\ Tail(toClient[s]) \in Seq(ToClient)
      /\ \A i \in DOMAIN Tail(toClient[s]) :
           i + 1 \in DOMAIN toClient[s] /\ Tail(toClient[s])[i] = toClient[s][i + 1]
  <2> DEFINE q == toClient[s]
  <2>1. q \in Seq(ToClient) /\ q # <<>>
    BY <1>1, <1>2
  <2> HIDE DEF s, q
  <2>2. q \in Seq(ToClient) /\ Len(q) \in Nat \ {0} /\ DOMAIN q = 1..Len(q)
    BY <2>1, EmptySeq, LenProperties
  <2>3. Head(q) \in ToClient /\ Tail(q) \in Seq(ToClient) /\ Len(Tail(q)) = Len(q) - 1
    BY <2>1, HeadTailProperties
  <2>4. Head(q) = q[1] /\ \A i \in 1..Len(Tail(q)) : Tail(q)[i] = q[i + 1]
    BY <2>1, HeadTailProperties
  <2>5. DOMAIN Tail(q) = 1..Len(Tail(q))
    BY <2>3, LenProperties
  <2> QED  BY <2>2, <2>3, <2>4, <2>5 DEF q
<1>4. m.seq \in Nat /\ Adopt(tab[c].lastSeq, m.seq) \in Nat
  BY <1>1, <1>3 DEF ToClient, Adopt, TabState
<1>5. m.type = "message" =>
        /\ new \in ShownTurn
        /\ clean[new.thread] => IsPosition(new.thread, new.seq, new.turn)
  <2> SUFFICES ASSUME m.type = "message"
               PROVE  /\ new \in ShownTurn
                      /\ clean[new.thread] => IsPosition(new.thread, new.seq, new.turn)
    OBVIOUS
  <2>1. m.turn \in Turn
    BY <1>3 DEF ToClient
  <2>2. new \in ShownTurn
    BY <1>1, <1>4, <2>1 DEF ShownTurn, TabState
  <2>3. clean[session[s].thread] => IsPosition(session[s].thread, m.seq, m.turn)
    BY <1>1, <1>3 DEF SessionInv, SeqIsPosition
  <2> QED  BY <1>1, <2>2, <2>3
<1>6. PICK shown \in {list, Append(list, new)} :
        /\ tab' = [tab EXCEPT ![c].lastSeq = Adopt(tab[c].lastSeq, m.seq), ![c].shown = shown]
        /\ shown # list => m.type = "message"
  <2>1. tab' = [tab EXCEPT
          ![c].lastSeq = Adopt(tab[c].lastSeq, m.seq),
          ![c].shown   = IF m.type = "message" /\ ~ Shown(list, m)
                           THEN Append(list, new) ELSE list]
    BY <1>1 DEF Deliver, Typed
  <2> HIDE DEF m, new, list
  <2> QED  BY <2>1
<1>7. /\ toClient' = [toClient EXCEPT ![s] = Tail(toClient[s])]
      /\ UNCHANGED <<transcript, session, toServer, turns, clean>>
  BY DEF Deliver
<1>8. list \in Seq(ShownTurn) /\ Len(list) \in Nat
  BY <1>1 DEF TabState
<1>. HIDE DEF m, new, list
<1>9. m.type = "message" =>
        /\ Append(list, new) \in Seq(ShownTurn)
        /\ DOMAIN Append(list, new) = 1..(Len(list) + 1) /\ DOMAIN list = 1..Len(list)
        /\ \A i \in 1..Len(list) : Append(list, new)[i] = list[i]
        /\ Append(list, new)[Len(list) + 1] = new
  BY <1>5, <1>8, AppendProperties, LenProperties
<1>10. shown \in Seq(ShownTurn)
  BY <1>6, <1>8, <1>9
<1>11. ASSUME NEW i \in DOMAIN shown
       PROVE  \/ \E j \in DOMAIN list : shown[i] = list[j]
              \/ clean[shown[i].thread] => IsPosition(shown[i].thread, shown[i].seq, shown[i].turn)
  <2>1. CASE shown = list
    BY <2>1
  <2>2. CASE shown # list
    <3>1. m.type = "message" /\ shown = Append(list, new)
      BY <1>6, <2>2
    <3>2. CASE i = Len(list) + 1
      BY <1>5, <1>9, <3>1, <3>2
    <3>3. CASE i # Len(list) + 1
      <4>1. i \in 1..Len(list)
        BY <1>8, <1>9, <3>1, <3>3
      <4> QED  BY <1>9, <3>1, <4>1
    <3> QED  BY <3>2, <3>3
  <2> QED  BY <2>1, <2>2
<1>12. /\ tab' \in [Tabs -> TabState]
       /\ \A d \in Tabs : /\ tab'[d].conn = tab[d].conn /\ tab'[d].thread = tab[d].thread
                          /\ tab'[d].shown = IF d = c THEN shown ELSE tab[d].shown
  BY <1>1, <1>4, <1>6, <1>10 DEF Typed, TabState
<1>13. ConnectedToThread' /\ \A u \in Sessions : Connected(u)' = Connected(u)
  BY <1>7, <1>12, SocketsKept
<1>14. /\ Queues' /\ toClient'[s] = Tail(toClient[s])
       /\ \A u \in Sessions \ {s} : toClient'[u] = toClient[u]
  BY <1>1, <1>3, <1>7 DEF Queues, Typed
<1>15. NothingToNobody'
  <2>1. Connected(s)
    BY <1>1, TabTypes, NoneAssumption
  <2> QED  BY <1>13, <1>14, <2>1 DEF NothingToNobody, SessionInv
<1>16. ASSUME NEW u \in Sessions, NEW i \in DOMAIN toClient'[u]
       PROVE  \E j \in DOMAIN toClient[u] : toClient'[u][i] = toClient[u][j]
  BY <1>3, <1>14
<1>17. \A d \in Tabs : \A i \in DOMAIN tab'[d].shown :
         LET x == tab'[d].shown[i]
         IN  \/ \E j \in DOMAIN tab[d].shown : x = tab[d].shown[j]
             \/ clean[x.thread] => IsPosition(x.thread, x.seq, x.turn)
  BY <1>11, <1>12 DEF list
<1>18. \A u \in Sessions : Active(u)' => Active(u)
  BY <1>7, <1>13 DEF Active, Live
<1>19. QuietTab
  BY <1>1, <1>7, <1>12, <1>13, <1>14, <1>15, <1>16, <1>17, <1>18 DEF QuietTab, Typed
<1> QED  BY <1>19, QuietTabKeeps

\* A tab that lets go of its socket, or moves to another thread without one.
LEMMA LettingGoKeeps ==
  ASSUME SessionInv, NEW c \in Tabs, UNCHANGED <<transcript, session, turns, clean>>,
         tab' \in [Tabs -> TabState], Queues', tab'[c].conn = None,
         \A d \in Tabs : tab'[d].shown = tab[d].shown,
         \A d \in Tabs \ {c} : tab'[d].conn = tab[d].conn /\ tab'[d].thread = tab[d].thread,
         \A s \in Sessions : /\ toServer'[s] # <<>> => toServer'[s] = toServer[s]
                             /\ toClient'[s] # <<>> => toClient'[s] = toClient[s],
         \A s \in Sessions : s = tab[c].conn => toClient'[s] = <<>>
  PROVE  SessionInv'
<1> USE NoneAssumption
<1>1. \A s \in Sessions : /\ Connected(s)' => Connected(s)
                          /\ Connected(s) => Connected(s)' \/ s = tab[c].conn
  BY DEF Connected
<1>2. ConnectedToThread'
  <2>1. ASSUME NEW d \in Tabs \ {c}, NEW s, s = tab[d].conn, s # None
        PROVE  Live(s)' /\ session'[s].thread = tab[d].thread
    BY <2>1 DEF SessionInv, ConnectedToThread, Live
  <2> QED  BY <2>1 DEF ConnectedToThread, Live
<1>3. NothingToNobody'
  BY <1>1 DEF NothingToNobody, SessionInv
<1>4. \A s \in Sessions : Active(s)' => Active(s)
  BY <1>1 DEF Active, Live
<1>5. ASSUME NEW s \in Sessions, NEW i \in DOMAIN toClient'[s]
      PROVE  \E j \in DOMAIN toClient[s] : toClient'[s][i] = toClient[s][j]
  <2>1. toClient'[s] # <<>>
    OBVIOUS
  <2> QED  BY <2>1
<1>6. QuietTab
  BY <1>2, <1>3, <1>4, <1>5 DEF QuietTab, SessionInv, Typed
<1> QED  BY <1>6, QuietTabKeeps

LEMMA DisconnectKeeps ==
  ASSUME SessionInv, NEW c \in Tabs, Disconnect(c)  PROVE  SessionInv'
<1> DEFINE s == tab[c].conn
<1>1. s \in Sessions /\ tab[c] \in TabState /\ Typed
  BY TabTypes DEF Disconnect, SessionInv
<1>2. PICK b \in BOOLEAN : tab' = [tab EXCEPT ![c].conn = None, ![c].missed = b]
  <2>1. (tab[c].missed \/ Overstated(c)) \in BOOLEAN
    OBVIOUS
  <2>2. tab' = [tab EXCEPT ![c].conn = None, ![c].missed = tab[c].missed \/ Overstated(c)]
    BY <1>1 DEF Disconnect, Typed
  <2> QED  BY <2>1, <2>2
<1>3. /\ tab' \in [Tabs -> TabState] /\ tab'[c].conn = None
      /\ \A d \in Tabs : tab'[d].shown = tab[d].shown
      /\ \A d \in Tabs \ {c} : tab'[d] = tab[d]
  BY <1>1, <1>2 DEF Typed, TabState
<1>4. /\ toServer' \in [Sessions -> Seq(ToServer)] /\ toClient' \in [Sessions -> Seq(ToClient)]
      /\ toClient'[s] = <<>>
      /\ \A u \in Sessions : /\ toServer'[u] # <<>> => toServer'[u] = toServer[u]
                             /\ toClient'[u] # <<>> => toClient'[u] = toClient[u]
  <2>1. <<>> \in Seq(ToServer) /\ <<>> \in Seq(ToClient)
    OBVIOUS
  <2> HIDE DEF s
  <2>2. /\ toClient' = [toClient EXCEPT ![s] = <<>>]
        /\ toServer' = toServer \/ toServer' = [toServer EXCEPT ![s] = <<>>]
    BY DEF Disconnect, s
  <2> QED  BY <1>1, <2>1, <2>2 DEF Typed
<1>5. UNCHANGED <<transcript, session, turns, clean>>
  BY DEF Disconnect
<1> QED  BY <1>3, <1>4, <1>5, LettingGoKeeps DEF Queues

LEMMA SwitchThreadKeeps ==
  ASSUME SessionInv, NEW c \in Tabs, NEW t \in Threads, SwitchThread(c, t)
  PROVE  SessionInv'
<1> USE NoneAssumption
<1>1. tab[c] \in TabState /\ tab[c].conn = None /\ Typed
  BY TabTypes DEF SwitchThread, SessionInv
<1>2. /\ tab' \in [Tabs -> TabState] /\ tab'[c].conn = None
      /\ \A d \in Tabs : tab'[d].shown = tab[d].shown
      /\ \A d \in Tabs \ {c} : tab'[d] = tab[d]
  BY <1>1 DEF SwitchThread, Typed, TabState
<1>3. UNCHANGED <<transcript, session, toServer, toClient, turns, clean>> /\ Queues'
  BY <1>1 DEF SwitchThread, net, Queues, Typed
<1> QED  BY <1>1, <1>2, <1>3, LettingGoKeeps

\* A socket opens: its task counts what it read of the transcript, and a thread
\* it did not read is disturbed.
LEMMA ConnectKeeps ==
  ASSUME SessionInv, NEW c \in Tabs, NEW s \in Sessions, Connect(c, s)
  PROVE  SessionInv'
<1> USE NoneAssumption
<1> DEFINE t == tab[c].thread
<1>1. /\ tab[c] \in TabState /\ t \in Threads /\ Typed /\ ~ Live(s) /\ tab[c].conn = None
      /\ transcript[t] \in Seq(Turn) /\ Len(transcript[t]) \in Nat
  BY TabTypes DEF Connect, SessionInv, TabState, Typed
<1>2. PICK n \in LastSeqs(t) :
        /\ session' = [session EXCEPT ![s] =
             [ClosedSession EXCEPT !.pc = "ready", !.thread = t, !.seq = n]]
        /\ toClient' = [toClient EXCEPT ![s] = <<Hello(n)>>]
        /\ clean' = [clean EXCEPT ![t] = clean[t] /\ n = Len(transcript[t])]
  BY <1>1 DEF Connect, Typed
<1>3. n \in Nat
  BY <1>1 DEF LastSeqs
<1> HIDE DEF t
<1>4. /\ session' \in [Sessions -> SessionState]
      /\ session'[s].pc = "ready" /\ session'[s].thread = t /\ session'[s].seq = n
      /\ \A u \in Sessions \ {s} : session'[u] = session[u]
  <2> DEFINE rec == [ClosedSession EXCEPT !.pc = "ready", !.thread = t, !.seq = n]
  <2>0. <<>> \in Seq(Turn)
    OBVIOUS
  <2>1. rec \in SessionState /\ rec.pc = "ready" /\ rec.thread = t /\ rec.seq = n
    BY <1>1, <1>3, <2>0 DEF ClosedSession, SessionState, NoTurn, Turn
  <2> HIDE DEF rec
  <2>2. session' = [session EXCEPT ![s] = rec]
    BY <1>2 DEF rec
  <2> QED  BY <1>1, <2>1, <2>2 DEF Typed
<1>5. /\ clean' \in [Threads -> BOOLEAN] /\ \A x \in Threads : clean'[x] => clean[x]
      /\ clean'[t] => n = Len(transcript[t])
  BY <1>1, <1>2 DEF Typed
<1>6. Hello(n) \in ToClient /\ ClientHello(tab[c].lastSeq) \in ToServer
  BY <1>1, <1>3 DEF Hello, ToClient, ClientHello, ToServer, TabState
<1>7. <<Hello(n)>> \in Seq(ToClient) /\ <<ClientHello(tab[c].lastSeq)>> \in Seq(ToServer)
  <2> DEFINE hello  == Hello(n)
             client == ClientHello(tab[c].lastSeq)
  <2>1. hello \in ToClient /\ client \in ToServer
    BY <1>6
  <2> HIDE DEF hello, client
  <2>2. <<hello>> \in Seq(ToClient) /\ <<client>> \in Seq(ToServer)
    BY <2>1
  <2> QED  BY <2>2 DEF hello, client
<1>8. /\ Queues' /\ toClient'[s] = <<Hello(n)>>
      /\ \A u \in Sessions \ {s} : toClient'[u] = toClient[u] /\ toServer'[u] = toServer[u]
  <2>1. toServer' = [toServer EXCEPT ![s] = <<ClientHello(tab[c].lastSeq)>>]
    BY DEF Connect
  <2> QED  BY <1>1, <1>2, <1>7, <2>1 DEF Queues, Typed
<1>9. /\ tab' \in [Tabs -> TabState] /\ tab'[c].conn = s /\ tab'[c].thread = t
      /\ \A d \in Tabs \ {c} : tab'[d] = tab[d]
      /\ \A d \in Tabs : tab'[d].shown = tab[d].shown
  BY <1>1 DEF Connect, Typed, TabState, t
<1>10. transcript' = transcript /\ turns' = turns
  BY DEF Connect
<1>11. Connected(s)' /\ \A u \in Sessions \ {s} : Connected(u)' = Connected(u)
  BY <1>1, <1>9 DEF Connected
<1>12. Typed'
  <2>1. ASSUME NEW u \in Sessions, Live(u)'  PROVE  session'[u].thread \in Threads
    BY <1>1, <1>4, <2>1 DEF Typed, Live
  <2> QED  BY <1>1, <1>4, <1>5, <1>8, <1>9, <1>10, <2>1 DEF Typed, Queues
<1>13. ConnectedToThread'
  <2>1. ASSUME NEW d \in Tabs \ {c}, NEW u, u = tab[d].conn, u # None
        PROVE  Live(u)' /\ session'[u].thread = tab[d].thread
    <3>1. u \in Sessions /\ Live(u) /\ session[u].thread = tab[d].thread
      BY <2>1, TabTypes
    <3> QED  BY <1>1, <1>4, <3>1 DEF Live
  <2>2. Live(s)' /\ session'[s].thread = tab'[c].thread
    BY <1>4, <1>9 DEF Live
  <2> QED  BY <1>9, <2>1, <2>2 DEF ConnectedToThread, Live
<1>14. NothingToNobody'
  BY <1>8, <1>11 DEF NothingToNobody, SessionInv
<1>15. ASSUME NEW u \in Sessions  PROVE  CountsTranscript(u)' /\ WritesOverAll(u)'
  <2>1. CASE u = s
    <3>1. ~ Writing(s)' /\ session'[s].pc # "write"
      BY <1>4 DEF Writing
    <3> QED  BY <1>4, <1>5, <1>10, <2>1, <3>1 DEF CountsTranscript, WritesOverAll
  <2>2. CASE u # s
    <3>1. /\ session'[u] = session[u] /\ Active(u)' = Active(u) /\ Writing(u)' = Writing(u)
          /\ transcript' = transcript
      BY <1>4, <1>8, <1>10, <1>11, <2>2 DEF Active, Live, Writing
    <3>2. CountsTranscript(u) /\ WritesOverAll(u) /\ (Live(u) => session[u].thread \in Threads)
      BY DEF SessionInv, Typed
    <3> QED  BY <1>5, <3>1, <3>2 DEF CountsTranscript, WritesOverAll, Active, Live
  <2> QED  BY <2>1, <2>2
<1>16. SeqIsPosition'
  <2>1. PositionsKept
    BY <1>1, <1>4, <1>5, <1>10, NothingWritten DEF Writing, Live
  <2>2. \A d \in Tabs : \A i \in DOMAIN tab[d].shown : tab[d].shown[i] \in ShownTurn
    BY <1>1 DEF Typed, TabState
  <2>3. ASSUME NEW u \in Sessions, NEW i \in DOMAIN toClient'[u]
        PROVE  LET m == toClient'[u][i]
               IN  /\ session'[u].thread \in Threads
                   /\ m.type = "message" =>
                        /\ session'[u].thread = session[u].thread
                        /\ \E j \in DOMAIN toClient[u] : m = toClient[u][j]
    <3>1. CASE u = s
      <4> DEFINE hello == Hello(n)
      <4>1. toClient'[s] = <<hello>>
        BY <1>8
      <4> HIDE DEF hello
      <4>2. toClient'[s][i] = hello
        BY <3>1, <4>1
      <4>3. hello.type # "message"
        BY DEF hello, Hello
      <4> QED  BY <1>1, <1>4, <3>1, <4>2, <4>3
    <3>2. CASE u # s
      <4>1. toClient'[u] = toClient[u] /\ session'[u] = session[u]
        BY <1>4, <1>8, <3>2
      <4>2. Connected(u)
        BY <4>1 DEF SessionInv, NothingToNobody
      <4> QED  BY <4>1, <4>2, ConnectedIsLive DEF SessionInv, Typed
    <3> QED  BY <3>1, <3>2
  <2> QED  BY <1>9, <2>1, <2>2, <2>3, NumbersStayRight DEF ShownTurn, SessionInv
<1> QED  BY <1>12, <1>13, <1>14, <1>15, <1>16 DEF SessionInv

-----------------------------------------------------------------------------
(* A restart, and the start *)

\* A restart between an echo and its write disturbs the thread.
LEMMA RestartKeeps ==
  ASSUME SessionInv, Restart  PROVE  SessionInv'
<1> USE NoneAssumption
<1>1. ClosedSession \in SessionState /\ ClosedSession.pc = "closed"
  <2>1. <<>> \in Seq(Turn)
    OBVIOUS
  <2> QED  BY <2>1 DEF ClosedSession, SessionState, NoTurn, Turn
<1>2. <<>> \in Seq(ToServer) /\ <<>> \in Seq(ToClient)
  OBVIOUS
<1>3. /\ session' \in [Sessions -> SessionState] /\ Queues'
      /\ \A s \in Sessions : session'[s] = ClosedSession /\ toClient'[s] = <<>>
      /\ UNCHANGED <<transcript, turns>>
  BY <1>1, <1>2 DEF Restart, Queues
<1>4. /\ clean' \in [Threads -> BOOLEAN] /\ \A t \in Threads : clean'[t] => clean[t]
      /\ \A s \in Sessions : session[s].thread \in Threads /\ clean'[session[s].thread]
                               => ~ Writing(s)
  BY DEF Restart, Writing
<1>5. /\ tab' \in [Tabs -> TabState]
      /\ \A c \in Tabs : tab'[c].conn = None /\ tab'[c].shown = tab[c].shown
  <2> SUFFICES ASSUME NEW c \in Tabs
               PROVE  /\ [tab[c] EXCEPT !.conn = None, !.missed = @ \/ Overstated(c)] \in TabState
                      /\ [tab[c] EXCEPT !.conn = None, !.missed = @ \/ Overstated(c)].conn = None
                      /\ [tab[c] EXCEPT !.conn = None, !.missed = @ \/ Overstated(c)].shown
                           = tab[c].shown
    BY DEF Restart
  <2> DEFINE b == tab[c].missed \/ Overstated(c)
  <2>1. tab[c] \in TabState /\ b \in BOOLEAN
    BY TabTypes
  <2> HIDE DEF b
  <2>2. /\ [tab[c] EXCEPT !.conn = None, !.missed = b] \in TabState
        /\ [tab[c] EXCEPT !.conn = None, !.missed = b].conn = None
        /\ [tab[c] EXCEPT !.conn = None, !.missed = b].shown = tab[c].shown
    BY <2>1 DEF TabState
  <2> QED  BY <2>1, <2>2 DEF b, TabState
<1>6. Typed'
  BY <1>1, <1>3, <1>4, <1>5 DEF SessionInv, Typed, Queues, Live
<1>7. ConnectedToThread' /\ NothingToNobody'
  BY <1>3, <1>5 DEF ConnectedToThread, NothingToNobody
<1>8. \A s \in Sessions : CountsTranscript(s)' /\ WritesOverAll(s)'
  BY <1>1, <1>3 DEF CountsTranscript, WritesOverAll, Active, Live
<1>9. SeqIsPosition'
  <2>1. \A s \in Sessions : Writing(s) => session[s].thread \in Threads
    BY DEF SessionInv, Typed, Writing, Live
  <2>2. PositionsKept
    <3> SUFFICES ASSUME NEW t \in Threads, NEW n, NEW turn, clean'[t], IsPosition(t, n, turn)
                 PROVE  PositionAfter(t, n, turn)
      BY <1>4 DEF PositionsKept
    <3>1. \A s \in Sessions : session[s].thread = t => session[s].pc \notin {"read", "write"}
      BY <1>4 DEF Writing
    <3> QED  BY <1>3, <3>1 DEF IsPosition, PositionAfter
  <2>3. \A c \in Tabs : \A i \in DOMAIN tab[c].shown : tab[c].shown[i] \in ShownTurn
    BY DEF SessionInv, Typed, TabState
  <2>4. \A s \in Sessions : DOMAIN toClient'[s] = {}
    BY <1>3
  <2> QED  BY <1>5, <2>2, <2>3, <2>4, NumbersStayRight DEF ShownTurn, SessionInv
<1> QED  BY <1>6, <1>7, <1>8, <1>9 DEF SessionInv

LEMMA SessionStart == Init => SessionInv
<1> SUFFICES ASSUME Init  PROVE  SessionInv
  OBVIOUS
<1>1. PICK t \in Threads :
        tab = [c \in Tabs |-> [conn |-> None, thread |-> t, lastSeq |-> 0,
                               shown |-> <<>>, skipped |-> FALSE, missed |-> FALSE]]
  BY DEF Init
<1>2. /\ <<>> \in Seq(Turn) /\ <<>> \in Seq(ToServer) /\ <<>> \in Seq(ToClient)
      /\ <<>> \in Seq(ShownTurn)
  OBVIOUS
<1>3. ClosedSession \in SessionState /\ ClosedSession.pc = "closed"
  BY <1>2 DEF ClosedSession, SessionState, NoTurn, Turn
<1>4. Typed
  BY <1>1, <1>2, <1>3 DEF Init, Typed, TabState, Live
<1>5. ConnectedToThread /\ NothingToNobody
  BY <1>1 DEF Init, ConnectedToThread, NothingToNobody
<1>6. \A s \in Sessions : CountsTranscript(s) /\ WritesOverAll(s)
  BY <1>3 DEF Init, CountsTranscript, WritesOverAll, Active, Live
<1>7. SeqIsPosition
  BY <1>1 DEF Init, SeqIsPosition
<1> QED  BY <1>4, <1>5, <1>6, <1>7 DEF SessionInv

LEMMA SessionInductive == SessionInv /\ [Next]_vars => SessionInv'
<1> SUFFICES ASSUME SessionInv, [Next]_vars  PROVE  SessionInv'
  OBVIOUS
<1>1. ASSUME NEW s \in Sessions, SessionStep(s)  PROVE  SessionInv'
  BY <1>1, SyncKeeps, FlagKeeps, EchoKeeps, ReadTranscriptKeeps, WriteTranscriptKeeps,
     BuildPromptKeeps, AnswerKeeps, WriteCanvasKeeps, SayKeeps, EndSessionKeeps
     DEF SessionStep
<1>2. ASSUME NEW c \in Tabs, TabStep(c)  PROVE  SessionInv'
  BY <1>2, ConnectKeeps, DeliverKeeps, SendTurnKeeps, PressKeeps, DisconnectKeeps,
     SwitchThreadKeeps DEF TabStep
<1>3. CASE UNCHANGED vars
  <2>1. QuietTab
    BY <1>3 DEF vars, QuietTab, Queues, SessionInv, Typed, ConnectedToThread, NothingToNobody,
                Connected, Active, Live
  <2> QED  BY <2>1, QuietTabKeeps
<1> QED  BY <1>1, <1>2, <1>3, RestartKeeps DEF Next

-----------------------------------------------------------------------------
(* What a tab shows, and what is on its way to it *)

\* Two tasks of one thread are about to write: whichever does disturbs it.
Crowded(t) ==
  \E u, w \in Sessions : /\ u # w /\ Writing(u) /\ Writing(w)
                         /\ session[u].thread = t /\ session[w].thread = t

\* The numbers shown are 1..k, each once and in order.
UpTo(list, k) ==
  /\ \A i \in DOMAIN list : list[i].seq <= k
  /\ \A n \in 1..k : \E i \in DOMAIN list : list[i].seq = n
  /\ \A i, j \in DOMAIN list : i < j /\ list[i].seq > 0 /\ list[j].seq > 0
                                => list[i].seq < list[j].seq

\* What is on its way goes on where the screen ends: at most a hello, and then
\* the turns after the k-th.
Greets(q)     == IF q # <<>> /\ q[1].type = "hello" THEN 1 ELSE 0
InOrder(q, k) == \A i \in DOMAIN q :
                   IF q[i].type = "hello" THEN i = 1 ELSE q[i].seq = k + i - Greets(q)
EndOf(q, k)   == k + Len(q) - Greets(q)

\* A task that has replayed is followed up to its count; one that has not will
\* first be asked for everything after the k-th.
Flowing(s, k) ==
  /\ InOrder(toClient[s], k)
  /\ session[s].synced => EndOf(toClient[s], k) >= session[s].seq
  /\ ~ session[s].synced => /\ session[s].pc = "ready"
                            /\ Len(toClient[s]) = Greets(toClient[s])
                            /\ toServer[s] # <<>> /\ Head(toServer[s]) = ClientHello(k)

OnCourse(c) == ~ tab[c].missed /\ clean[tab[c].thread] /\ ~ Crowded(tab[c].thread)

Follows(c, k) == /\ UpTo(tab[c].shown, k) /\ k <= tab[c].lastSeq
                 /\ IF tab[c].conn = None THEN tab[c].lastSeq <= k
                                          ELSE Flowing(tab[c].conn, k)

Steered(c) ==
  /\ \A i \in DOMAIN tab[c].shown : tab[c].shown[i].thread = tab[c].thread
  /\ \E k \in Nat : Follows(c, k)

CourseInv ==
  /\ \A c, d \in Tabs : c # d /\ tab[c].conn = tab[d].conn => tab[c].conn = None
  /\ \A c \in Tabs : OnCourse(c) => Steered(c)

LEMMA QueueTail ==
  ASSUME NEW q \in Seq(ToClient), q # <<>>, NEW k \in Nat, InOrder(q, k)
  PROVE  /\ Greets(Tail(q)) = 0
         /\ Head(q).type = "hello" => /\ InOrder(Tail(q), k) /\ EndOf(Tail(q), k) = EndOf(q, k)
                                      /\ Greets(q) = 1
         /\ Head(q).type # "hello" => /\ Head(q).seq = k + 1 /\ Greets(q) = 0
                                      /\ InOrder(Tail(q), k + 1)
                                      /\ EndOf(Tail(q), k + 1) = EndOf(q, k)
<1>1. /\ Len(q) \in Nat \ {0} /\ DOMAIN q = 1..Len(q) /\ Head(q) = q[1]
      /\ Len(Tail(q)) = Len(q) - 1 /\ DOMAIN Tail(q) = 1..Len(Tail(q))
      /\ \A i \in 1..Len(Tail(q)) : Tail(q)[i] = q[i + 1]
  BY HeadTailProperties, EmptySeq, LenProperties
<1>2. \A i \in DOMAIN Tail(q) : i + 1 \in DOMAIN q /\ Tail(q)[i] = q[i + 1]
                                /\ Tail(q)[i].type # "hello"
  BY <1>1 DEF InOrder
<1>3. Greets(Tail(q)) = 0
  <2>1. CASE Tail(q) = <<>>
    BY <2>1 DEF Greets
  <2>2. CASE Tail(q) # <<>>
    <3>1. 1 \in DOMAIN Tail(q)
      BY <1>1, <2>2, HeadTailProperties, EmptySeq, LenProperties
    <3> QED  BY <1>2, <3>1 DEF Greets
  <2> QED  BY <2>1, <2>2
<1>4. CASE Head(q).type = "hello"
  <2>1. Greets(q) = 1
    BY <1>1, <1>4 DEF Greets
  <2>2. \A i \in DOMAIN Tail(q) : Tail(q)[i].seq = k + (i + 1) - 1
    BY <1>2, <2>1 DEF InOrder
  <2> QED  BY <1>1, <1>2, <1>3, <1>4, <2>1, <2>2 DEF InOrder, EndOf
<1>5. CASE Head(q).type # "hello"
  <2>1. Greets(q) = 0
    BY <1>1, <1>5 DEF Greets
  <2>2. \A i \in DOMAIN Tail(q) : Tail(q)[i].seq = k + (i + 1) - 0
    BY <1>2, <2>1 DEF InOrder
  <2>3. Head(q).seq = k + 1
    BY <1>1, <1>5, <2>1 DEF InOrder
  <2>4. InOrder(Tail(q), k + 1)
    BY <1>2, <1>3, <2>2 DEF InOrder
  <2>5. EndOf(Tail(q), k + 1) = EndOf(q, k)
    BY <1>1, <1>3, <2>1 DEF EndOf
  <2> QED  BY <1>3, <1>5, <2>1, <2>3, <2>4, <2>5
<1> QED  BY <1>3, <1>4, <1>5

LEMMA QueueAppend ==
  ASSUME NEW q \in Seq(ToClient), NEW k \in Nat, InOrder(q, k), NEW m \in ToClient,
         m.type # "hello", m.seq = EndOf(q, k) + 1
  PROVE  InOrder(Append(q, m), k) /\ EndOf(Append(q, m), k) = EndOf(q, k) + 1
<1> DEFINE r == Append(q, m)
<1>1. /\ r \in Seq(ToClient) /\ r # <<>> /\ Len(r) = Len(q) + 1 /\ Len(q) \in Nat
      /\ DOMAIN r = 1..(Len(q) + 1) /\ DOMAIN q = 1..Len(q)
      /\ r[Len(q) + 1] = m /\ \A i \in 1..Len(q) : r[i] = q[i]
  BY AppendProperties, LenProperties
<1> HIDE DEF r
<1>2. Greets(r) = Greets(q)
  <2>1. CASE q = <<>>
    <3>1. Len(q) = 0
      BY <2>1
    <3> QED  BY <1>1, <2>1, <3>1 DEF Greets
  <2>2. CASE q # <<>>
    <3>1. 1 \in 1..Len(q)
      BY <1>1, <2>2, EmptySeq
    <3> QED  BY <1>1, <2>2, <3>1 DEF Greets
  <2> QED  BY <2>1, <2>2
<1>3. Greets(q) \in {0, 1}
  BY DEF Greets
<1>4. m.seq = k + (Len(q) + 1) - Greets(q)
  BY <1>1, <1>3 DEF EndOf
<1>5. InOrder(r, k)
  <2> SUFFICES ASSUME NEW i \in DOMAIN r
               PROVE  IF r[i].type = "hello" THEN i = 1 ELSE r[i].seq = k + i - Greets(r)
    BY DEF InOrder
  <2>1. CASE i = Len(q) + 1
    BY <1>1, <1>2, <1>4, <2>1
  <2>2. CASE i # Len(q) + 1
    <3>1. i \in DOMAIN q /\ r[i] = q[i]
      BY <1>1, <2>2
    <3> QED  BY <1>2, <3>1 DEF InOrder
  <2> QED  BY <2>1, <2>2
<1>6. EndOf(r, k) = EndOf(q, k) + 1
  BY <1>1, <1>2, <1>3 DEF EndOf
<1> QED  BY <1>5, <1>6 DEF r

LEMMA QueueReplay ==
  ASSUME NEW q \in Seq(ToClient), NEW k \in Nat, InOrder(q, k), Len(q) = Greets(q),
         NEW r \in Seq(ToClient),
         \A i \in 1..Len(r) : r[i].type # "hello" /\ r[i].seq = k + i
  PROVE  InOrder(q \o r, k) /\ EndOf(q \o r, k) = k + Len(r)
<1> DEFINE both == q \o r
<1>1. /\ both \in Seq(ToClient) /\ Len(both) = Len(q) + Len(r)
      /\ Len(q) \in {0, 1} /\ Len(r) \in Nat /\ DOMAIN both = 1..(Len(q) + Len(r))
      /\ DOMAIN q = 1..Len(q)
      /\ \A i \in 1..(Len(q) + Len(r)) :
           both[i] = IF i <= Len(q) THEN q[i] ELSE r[i - Len(q)]
  <2>1. /\ both \in Seq(ToClient) /\ Len(both) = Len(q) + Len(r)
        /\ \A i \in 1..(Len(q) + Len(r)) :
             both[i] = IF i <= Len(q) THEN q[i] ELSE r[i - Len(q)]
    BY ConcatProperties
  <2>2. Len(q) \in {0, 1}
    BY DEF Greets
  <2> HIDE DEF both
  <2>3. Len(r) \in Nat /\ DOMAIN both = 1..Len(both) /\ DOMAIN q = 1..Len(q)
    BY <2>1, LenProperties
  <2> QED  BY <2>1, <2>2, <2>3
<1> HIDE DEF both
<1>2. Greets(both) = Len(q)
  <2>1. CASE Len(q) = 1
    <3>1. q # <<>> /\ both # <<>>
      <4>1. Len(q) # 0 /\ Len(both) # 0
        BY <1>1, <2>1
      <4> QED  BY <4>1, EmptySeq
    <3>2. both[1] = q[1]
      <4>1. 1 \in 1..(Len(q) + Len(r)) /\ 1 <= Len(q)
        BY <1>1, <2>1
      <4> QED  BY <1>1, <4>1
    <3> QED  BY <2>1, <3>1, <3>2 DEF Greets
  <2>2. CASE Len(q) = 0
    <3>1. CASE Len(r) = 0
      <4>1. both = <<>>
        BY <1>1, <2>2, <3>1, EmptySeq
      <4> QED  BY <2>2, <4>1 DEF Greets
    <3>2. CASE Len(r) # 0
      <4>1. 1 \in 1..Len(r) /\ both[1] = r[1]
        BY <1>1, <2>2, <3>2
      <4> QED  BY <2>2, <4>1 DEF Greets
    <3> QED  BY <3>1, <3>2
  <2> QED  BY <1>1, <2>1, <2>2
<1>3. InOrder(both, k)
  <2> SUFFICES ASSUME NEW i \in DOMAIN both
               PROVE  IF both[i].type = "hello" THEN i = 1
                                                ELSE both[i].seq = k + i - Greets(both)
    BY DEF InOrder
  <2>1. CASE i <= Len(q)
    <3>1. i \in DOMAIN q /\ both[i] = q[i]
      BY <1>1, <2>1
    <3> QED  BY <1>2, <3>1 DEF InOrder
  <2>2. CASE i > Len(q)
    <3>1. i - Len(q) \in 1..Len(r) /\ both[i] = r[i - Len(q)] /\ i \in Nat
      BY <1>1, <2>2
    <3>2. both[i].type # "hello" /\ both[i].seq = k + (i - Len(q))
      BY <3>1
    <3> QED  BY <1>1, <1>2, <3>1, <3>2
  <2> QED  BY <1>1, <2>1, <2>2
<1>4. EndOf(both, k) = k + Len(r)
  BY <1>1, <1>2 DEF EndOf
<1> QED  BY <1>3, <1>4 DEF both

LEMMA ListAppend ==
  ASSUME NEW list \in Seq(ShownTurn), NEW k \in Nat, UpTo(list, k), NEW m \in ShownTurn
  PROVE  /\ m.seq <= 0 => UpTo(Append(list, m), k)
         /\ m.seq = k + 1 => UpTo(Append(list, m), k + 1)
<1> DEFINE new == Append(list, m)
<1>1. /\ new \in Seq(ShownTurn) /\ Len(list) \in Nat
      /\ DOMAIN new = 1..(Len(list) + 1) /\ DOMAIN list = 1..Len(list)
      /\ new[Len(list) + 1] = m /\ \A i \in 1..Len(list) : new[i] = list[i]
  BY AppendProperties, LenProperties
<1>2. /\ \A i \in DOMAIN list : list[i].seq \in Int /\ list[i].seq <= k
      /\ m.seq \in Int
  <2>1. \A i \in DOMAIN list : list[i] \in ShownTurn
    BY <1>1, ElementOfSeq
  <2> QED  BY <2>1 DEF ShownTurn, UpTo
<1> HIDE DEF new
<1>3. ASSUME NEW i \in DOMAIN new
      PROVE  \/ i = Len(list) + 1 /\ new[i] = m
             \/ i \in DOMAIN list /\ i <= Len(list) /\ new[i] = list[i]
  BY <1>1
<1>4. CASE m.seq <= 0
  <2>1. \A i \in DOMAIN new : new[i].seq <= k
    BY <1>2, <1>3, <1>4
  <2>2. ASSUME NEW n \in 1..k  PROVE  \E i \in DOMAIN new : new[i].seq = n
    <3>1. PICK i \in DOMAIN list : list[i].seq = n
      BY DEF UpTo
    <3> QED  BY <1>1, <3>1
  <2>3. ASSUME NEW i \in DOMAIN new, NEW j \in DOMAIN new, i < j, new[i].seq > 0, new[j].seq > 0
        PROVE  new[i].seq < new[j].seq
    <3>1. i \in DOMAIN list /\ j \in DOMAIN list /\ new[i] = list[i] /\ new[j] = list[j]
      BY <1>2, <1>3, <1>4, <2>3
    <3> QED  BY <2>3, <3>1 DEF UpTo
  <2>4. UpTo(new, k)
    BY <2>1, <2>2, <2>3 DEF UpTo
  <2> QED  BY <1>2, <1>4, <2>4 DEF new
<1>5. CASE m.seq = k + 1
  <2>1. \A i \in DOMAIN new : new[i].seq <= k + 1
    BY <1>2, <1>3, <1>5
  <2>2. ASSUME NEW n \in 1..(k + 1)  PROVE  \E i \in DOMAIN new : new[i].seq = n
    <3>1. CASE n = k + 1
      BY <1>1, <1>5, <3>1
    <3>2. CASE n # k + 1
      <4>1. PICK i \in DOMAIN list : list[i].seq = n
        BY <3>2 DEF UpTo
      <4> QED  BY <1>1, <4>1
    <3> QED  BY <3>1, <3>2
  <2>3. ASSUME NEW i \in DOMAIN new, NEW j \in DOMAIN new, i < j, new[i].seq > 0, new[j].seq > 0
        PROVE  new[i].seq < new[j].seq
    <3>1. i \in DOMAIN list /\ new[i] = list[i]
      BY <1>1, <1>3, <2>3
    <3>2. CASE j \in DOMAIN list /\ new[j] = list[j]
      BY <2>3, <3>1, <3>2 DEF UpTo
    <3>3. CASE new[j] = m
      BY <1>2, <1>5, <3>1, <3>3
    <3> QED  BY <1>3, <3>2, <3>3
  <2>4. UpTo(new, k + 1)
    BY <2>1, <2>2, <2>3 DEF UpTo
  <2> QED  BY <1>2, <1>5, <2>4 DEF new
<1> QED  BY <1>4, <1>5

LEMMA NextIsNew ==
  ASSUME NEW list, NEW k \in Nat, UpTo(list, k), NEW m, m.seq = k + 1
  PROVE  ~ Shown(list, m)
<1> SUFFICES ASSUME NEW i \in DOMAIN list, list[i].seq = k + 1  PROVE FALSE
  BY DEF Shown
<1>1. k + 1 <= k
  BY DEF UpTo
<1> QED  BY <1>1

LEMMA HighestIs ==
  ASSUME NEW c \in Tabs, NEW k \in Nat, UpTo(tab[c].shown, k),
         tab[c].shown \in Seq(ShownTurn)
  PROVE  HighestShown(c) = k
<1> DEFINE list == tab[c].shown
           seqs == {list[i].seq : i \in DOMAIN list} \union {0}
<1>1. HighestShown(c) = CHOOSE n \in seqs : \A m \in seqs : m <= n
  BY DEF HighestShown
<1>2. \A m \in seqs : m \in Int /\ m <= k
  <2>1. \A i \in DOMAIN list : list[i] \in ShownTurn
    BY LenProperties, ElementOfSeq
  <2> QED  BY <2>1 DEF ShownTurn, UpTo
<1>3. k \in seqs
  <2>1. CASE k = 0
    BY <2>1
  <2>2. CASE k # 0
    <3>1. PICK i \in DOMAIN list : list[i].seq = k
      BY <2>2 DEF UpTo
    <3> QED  BY <3>1
  <2> QED  BY <2>1, <2>2
<1> HIDE DEF seqs, list
<1>4. \A n \in seqs : (\A m \in seqs : m <= n) <=> n = k
  BY <1>2, <1>3
<1> QED  BY <1>1, <1>3, <1>4

-----------------------------------------------------------------------------
(* A tab stays on course *)

LEMMA SendThenTouches ==
  ASSUME Typed, NEW s \in Sessions, NEW m, NEW next, SendThen(s, m, next)
  PROVE  \A u \in Sessions \ {s} : session'[u] = session[u] /\ toClient'[u] = toClient[u]
BY DEF SendThen, Typed

\* A step of a task leaves the others alone, and one that is about to write goes
\* on to do so.
LEMMA TaskMoves ==
  ASSUME SessionInv, NEW s \in Sessions, SessionStep(s)
  PROVE  /\ Live(s) /\ tab' = tab
         /\ \A u \in Sessions \ {s} : /\ session'[u] = session[u]
                                      /\ toServer'[u] = toServer[u]
                                      /\ toClient'[u] = toClient[u]
         /\ \A t \in Threads : clean'[t] => clean[t]
         /\ Writing(s) => \/ Writing(s)' /\ session'[s].thread = session[s].thread
                          \/ WriteTranscript(s)
<1>0. Typed /\ session[s] \in SessionState
  BY TaskTypes DEF SessionInv
<1>1. CASE Sync(s)
  <2>1. Live(s) /\ ~ Writing(s)
    BY <1>1 DEF Sync, Frame, Live, Writing
  <2>2. \A t \in Threads : clean'[t] => clean[t]
    BY <1>0, <1>1 DEF Sync, Disturb, Typed
  <2> QED  BY <1>0, <1>1, <2>1, <2>2 DEF Sync, Take, Typed
<1>2. CASE Flag(s)
  BY <1>0, <1>2 DEF Flag, Frame, Take, Live, Writing, Typed
<1>3. CASE Echo(s)
  <2>1. Live(s) /\ ~ Writing(s) /\ tab' = tab /\ clean' = clean
    BY <1>3 DEF Echo, Frame, Live, Writing
  <2>2. \A u \in Sessions \ {s} : session'[u] = session[u] /\ toClient'[u] = toClient[u]
    BY <1>0, <1>3, SendThenTouches DEF Echo
  <2> QED  BY <1>0, <1>3, <2>1, <2>2 DEF Echo, Take, Typed
<1>4. CASE ReadTranscript(s)
  <2>1. Live(s) /\ tab' = tab /\ toServer' = toServer /\ toClient' = toClient
    BY <1>4 DEF ReadTranscript, Live, net
  <2>2. \A t \in Threads : clean'[t] => clean[t]
    BY <1>0, <1>4 DEF ReadTranscript, Disturb, Typed
  <2>3. \A u \in Sessions \ {s} : session'[u] = session[u]
    BY <1>0, <1>4 DEF ReadTranscript, Typed
  <2>4. session'[s].pc = "write" /\ session'[s].thread = session[s].thread
    BY <1>0, <1>4 DEF ReadTranscript, Typed, SessionState
  <2> QED  BY <2>1, <2>2, <2>3, <2>4 DEF Writing
<1>5. CASE WriteTranscript(s)
  <2>1. Live(s) /\ tab' = tab /\ toServer' = toServer /\ toClient' = toClient
    BY <1>5 DEF WriteTranscript, Live, net
  <2>2. \A u \in Sessions \ {s} : session'[u] = session[u]
    BY <1>0, <1>5 DEF WriteTranscript, Typed
  <2> QED  BY <1>5, <2>1, <2>2, WriteFacts
<1>6. CASE BuildPrompt(s)
  BY <1>0, <1>6 DEF BuildPrompt, Live, Writing, net, Typed
<1>7. CASE Answer(s)
  BY <1>0, <1>7 DEF Answer, Live, Writing, net, Typed
<1>8. CASE WriteCanvas(s)
  BY <1>0, <1>8 DEF WriteCanvas, Live, Writing, net, Typed
<1>9. CASE Say(s)
  <2>1. Live(s) /\ ~ Writing(s) /\ tab' = tab /\ clean' = clean /\ toServer' = toServer
    BY <1>9 DEF Say, Live, Writing
  <2>2. \A u \in Sessions \ {s} : session'[u] = session[u] /\ toClient'[u] = toClient[u]
    BY <1>0, <1>9, SendThenTouches DEF Say
  <2> QED  BY <2>1, <2>2
<1>10. CASE EndSession(s)
  BY <1>0, <1>10 DEF EndSession, Live, Writing, Typed
<1> QED  BY <1>1, <1>2, <1>3, <1>4, <1>5, <1>6, <1>7, <1>8, <1>9, <1>10 DEF SessionStep

\* A crowd goes on until it disturbs its thread.
LEMMA CrowdStays ==
  ASSUME SessionInv, Next, NEW t \in Threads, clean'[t], ~ Crowded(t)'
  PROVE  clean[t] /\ ~ Crowded(t)
<1>0. Typed
  BY DEF SessionInv
<1>1. CASE \E s \in Sessions : SessionStep(s)
  <2>1. PICK s \in Sessions : SessionStep(s)
    BY <1>1
  <2>2. ASSUME Crowded(t)  PROVE FALSE
    <3>1. PICK u \in Sessions, w \in Sessions :
            /\ u # w /\ Writing(u) /\ Writing(w)
            /\ session[u].thread = t /\ session[w].thread = t
      BY <2>2 DEF Crowded
    <3>2. ASSUME NEW x \in Sessions, NEW y \in Sessions, x # y, Writing(x), Writing(y),
                 session[x].thread = t, session[y].thread = t
          PROVE  Writing(x)' /\ session'[x].thread = t
      <4>1. CASE x # s
        BY <2>1, <3>2, <4>1, TaskMoves DEF Writing
      <4>2. CASE x = s
        <5>1. y \in Rivals(s)
          BY <3>2, <4>2 DEF Rivals, Writing, Live
        <5>2. ~ WriteTranscript(s)
          BY <3>2, <4>2, <5>1, WriteFacts
        <5> QED  BY <2>1, <3>2, <4>2, <5>2, TaskMoves
      <4> QED  BY <4>1, <4>2
    <3>3. Crowded(t)'
      BY <3>1, <3>2 DEF Crowded, Writing
    <3> QED  BY <3>3
  <2> QED  BY <2>1, <2>2, TaskMoves
<1>2. CASE Restart
  BY <1>2 DEF Restart, Crowded, Writing
<1>3. CASE \E c \in Tabs : TabStep(c)
  <2>1. PICK c \in Tabs : TabStep(c)
    BY <1>3
  <2>2. CASE session' = session /\ clean' = clean
    BY <2>2 DEF Crowded, Writing
  <2>3. CASE \E s \in Sessions : Connect(c, s)
    <3>1. PICK s \in Sessions : Connect(c, s)
      BY <2>3
    <3>2. /\ ~ Live(s) /\ \A u \in Sessions \ {s} : session'[u] = session[u]
          /\ clean[t]
      BY <1>0, <3>1 DEF Connect, Typed
    <3>3. ~ Writing(s)
      BY <3>2 DEF Writing, Live
    <3> QED  BY <3>2, <3>3 DEF Crowded, Writing
  <2> QED  BY <2>1, <2>2, <2>3 DEF TabStep, Deliver, SendTurn, PressSkip, PressReview,
                                    Disconnect, SwitchThread
<1> QED  BY <1>1, <1>2, <1>3 DEF Next

LEMMA OnCourseBefore ==
  ASSUME SessionInv, Next, NEW c \in Tabs, OnCourse(c)', tab'[c].thread = tab[c].thread,
         ~ tab'[c].missed => ~ tab[c].missed
  PROVE  OnCourse(c)
<1>1. tab[c].thread \in Threads
  BY TabTypes DEF TabState
<1> QED  BY <1>1, CrowdStays DEF OnCourse, Crowded, Writing

\* Nothing the tab depends on moves.
LEMMA FlowStands ==
  ASSUME NEW s, NEW k, Flowing(s, k), toClient'[s] = toClient[s],
         session'[s].synced = session[s].synced, session'[s].seq = session[s].seq,
         ~ session[s].synced => /\ session'[s].pc = session[s].pc
                                /\ toServer'[s] # <<>> /\ Head(toServer'[s]) = Head(toServer[s])
  PROVE  Flowing(s, k)'
<1>1. InOrder(toClient[s], k)' /\ EndOf(toClient[s], k)' = EndOf(toClient[s], k)
      /\ Greets(toClient[s])' = Greets(toClient[s])
  BY DEF Flowing, InOrder, EndOf, Greets
<1>2. ClientHello(k)' = ClientHello(k)
  BY DEF ClientHello
<1> QED  BY <1>1, <1>2 DEF Flowing

LEMMA SteeredStands ==
  ASSUME NEW c \in Tabs, Steered(c), tab'[c] = tab[c],
         LET s == tab[c].conn IN
         s # None => /\ toClient'[s] = toClient[s] /\ session'[s] = session[s]
                     /\ toServer[s] # <<>> =>
                          toServer'[s] # <<>> /\ Head(toServer'[s]) = Head(toServer[s])
  PROVE  Steered(c)'
<1> DEFINE s == tab[c].conn
<1>1. PICK k \in Nat : Follows(c, k)
  BY DEF Steered
<1>2. UpTo(tab[c].shown, k)'
  BY <1>1 DEF Follows, UpTo
<1>3. CASE s = None
  BY <1>1, <1>2, <1>3 DEF Follows, Steered
<1>4. CASE s # None
  <2>1. Flowing(s, k)
    BY <1>1, <1>4 DEF Follows
  <2>2. Flowing(s, k)'
    BY <1>4, <2>1, FlowStands DEF Flowing
  <2> QED  BY <1>1, <1>2, <1>4, <2>2 DEF Follows, Steered
<1> QED  BY <1>3, <1>4

\* Where nobody is about to write, the stream ends with the transcript.
LEMMA StreamEnds ==
  ASSUME SessionInv, NEW c \in Tabs, tab[c].conn # None, clean[tab[c].thread],
         \A i \in DOMAIN tab[c].shown : tab[c].shown[i].thread = tab[c].thread,
         NEW k \in Nat, UpTo(tab[c].shown, k), Flowing(tab[c].conn, k),
         \A u \in Sessions : session[u].thread = tab[c].thread => ~ Writing(u)
  PROVE  LET s == tab[c].conn
             len == Len(transcript[tab[c].thread])
         IN  /\ len \in Nat /\ session[s].seq = len /\ k <= len
             /\ session[s].synced => EndOf(toClient[s], k) = len
<1> USE NoneAssumption
<1> DEFINE s == tab[c].conn
           t == tab[c].thread
           q == toClient[s]
<1>1. /\ Typed /\ s \in Sessions /\ Live(s) /\ Connected(s) /\ session[s].thread = t
      /\ t \in Threads /\ transcript[t] \in Seq(Turn) /\ Len(transcript[t]) \in Nat
      /\ tab[c].shown \in Seq(ShownTurn)
  BY TabTypes DEF SessionInv, Typed, TabState
<1>2. session[s].seq = Len(transcript[t])
  <2>1. CountsTranscript(s) /\ ~ Writing(s) /\ Active(s)
    BY <1>1 DEF SessionInv, Active
  <2> QED  BY <1>1, <2>1 DEF CountsTranscript
<1>3. \A n, turn : IsPosition(t, n, turn) => n <= Len(transcript[t])
  BY <1>1 DEF IsPosition, Writing
<1>4. k <= Len(transcript[t])
  <2>1. CASE k = 0
    BY <1>1, <2>1
  <2>2. CASE k # 0
    <3>1. PICK i \in DOMAIN tab[c].shown : tab[c].shown[i].seq = k
      BY <2>2 DEF UpTo
    <3>2. IsPosition(t, k, tab[c].shown[i].turn)
      BY <2>2, <3>1 DEF SessionInv, SeqIsPosition
    <3> QED  BY <1>3, <3>2
  <2> QED  BY <2>1, <2>2
<1>5. q \in Seq(ToClient) /\ Len(q) \in Nat /\ DOMAIN q = 1..Len(q) /\ Greets(q) \in {0, 1}
  BY <1>1, LenProperties DEF Typed, Greets
<1>6. session[s].synced => EndOf(q, k) >= Len(transcript[t])
  BY <1>2 DEF Flowing
<1>7. EndOf(q, k) <= Len(transcript[t])
  <2>1. CASE Len(q) <= Greets(q)
    BY <1>1, <1>4, <1>5, <2>1 DEF EndOf
  <2>2. CASE Len(q) > Greets(q)
    <3> DEFINE m == q[Len(q)]
    <3>1. Len(q) \in DOMAIN q /\ m \in ToClient
      BY <1>5, <2>2, ElementOfSeq
    <3>2. m.type # "hello"
      <4>1. CASE Len(q) # 1
        BY <3>1, <4>1 DEF Flowing, InOrder
      <4>2. CASE Len(q) = 1
        <5>1. Greets(q) = 0 /\ q # <<>>
          <6>1. q # <<>>
            BY <1>5, <4>2, EmptySeq
          <6> QED  BY <1>5, <2>2, <4>2, <6>1
        <5> QED  BY <4>2, <5>1 DEF Greets
      <4> QED  BY <4>1, <4>2
    <3>3. m.type = "message" /\ m.seq = EndOf(q, k)
      BY <3>1, <3>2 DEF ToClient, Flowing, InOrder, EndOf
    <3>4. IsPosition(t, m.seq, m.turn)
      BY <1>1, <3>1, <3>3 DEF SessionInv, SeqIsPosition
    <3> QED  BY <1>3, <3>3, <3>4
  <2> QED  BY <1>5, <2>1, <2>2
<1>8. EndOf(q, k) \in Int
  BY <1>5 DEF EndOf
<1> QED  BY <1>1, <1>2, <1>4, <1>6, <1>7, <1>8

\* The premises of a step of the task that a tab talks to.
Talking(c, k) ==
  /\ SessionInv /\ tab[c].conn # None /\ OnCourse(c) /\ OnCourse(c)'
  /\ \A i \in DOMAIN tab[c].shown : tab[c].shown[i].thread = tab[c].thread
  /\ UpTo(tab[c].shown, k) /\ Flowing(tab[c].conn, k)

LEMMA SyncFlows ==
  ASSUME NEW c \in Tabs, NEW k \in Nat, Talking(c, k), NEW s, s = tab[c].conn, Sync(s)
  PROVE  Flowing(s, k)'
<1> DEFINE t == tab[c].thread
           q == toClient[s]
           r == Replayed(t, k)
<1>1. /\ Typed /\ s \in Sessions /\ Live(s) /\ Connected(s) /\ session[s].thread = t
      /\ t \in Threads /\ clean[t] /\ clean'[t] /\ session[s] \in SessionState
      /\ transcript[t] \in Seq(Turn) /\ Len(transcript[t]) \in Nat
      /\ q \in Seq(ToClient)
  <2>1. tab' = tab /\ SessionInv /\ Typed /\ OnCourse(c) /\ OnCourse(c)' /\ s # None
    BY DEF Sync, Talking, SessionInv
  <2>2. /\ tab[c] \in TabState /\ s \in Sessions /\ Live(s) /\ Connected(s)
        /\ session[s].thread = t
    BY <2>1, TabTypes
  <2>3. t \in Threads
    BY <2>2 DEF TabState
  <2>4. clean[t] /\ clean'[t]
    BY <2>1 DEF OnCourse
  <2>5. transcript[t] \in Seq(Turn)
    BY <2>1, <2>3 DEF Typed
  <2>6. Len(transcript[t]) \in Nat
    BY <2>5, LenProperties
  <2> HIDE DEF t, q
  <2>7. session[s] \in SessionState /\ toClient[s] \in Seq(ToClient)
    BY <2>1, <2>2, TaskTypes
  <2> QED  BY <2>1, <2>2, <2>3, <2>4, <2>5, <2>6, <2>7 DEF q
<1>2. /\ ~ session[s].synced /\ session[s].pc = "ready" /\ Head(toServer[s]) = ClientHello(k)
      /\ Len(q) = Greets(q) /\ InOrder(q, k)
  BY DEF Sync, Talking, Flowing
<1>3. Head(toServer[s]).seq = k
  BY <1>2 DEF ClientHello
<1>4. toClient'[s] = q \o r
  <2>1. PICK ok \in BOOLEAN :
          /\ toClient' = [toClient EXCEPT ![s] =
               IF ok /\ Connected(s) THEN @ \o Replayed(session[s].thread, Head(toServer[s]).seq)
                                     ELSE @]
          /\ Disturb(s, ~ ok)
    BY DEF Sync
  <2>2. ok
    BY <1>1, <2>1, DisturbFalls
  <2> QED  BY <1>1, <1>3, <2>1, <2>2 DEF Typed
<1>5. session'[s].synced /\ session'[s].seq = session[s].seq /\ session[s].seq \in Nat
  BY <1>1 DEF Sync, Typed, SessionState
<1>6. session[s].seq = Len(transcript[t])
  <2>1. CountsTranscript(s) /\ ~ Writing(s) /\ Active(s)
    BY <1>1, <1>2 DEF Talking, SessionInv, Active, Writing
  <2> QED  BY <1>1, <2>1 DEF CountsTranscript
<1> HIDE DEF t, q
<1>7. /\ r \in Seq(ToClient) /\ Len(r) \in Nat /\ k + Len(r) >= Len(transcript[t])
      /\ \A i \in 1..Len(r) : r[i].type # "hello" /\ r[i].seq = k + i
  <2>1. r \in Seq(ToClient)
    BY <1>1, ReplayIsPlaced
  <2>2. DOMAIN r = 1..(Len(transcript[t]) - k) /\ DOMAIN r = 1..Len(r) /\ Len(r) \in Nat
    BY <2>1, LenProperties DEF Replayed
  <2>3. k + Len(r) >= Len(transcript[t])
    BY <1>1, <2>2
  <2>4. ASSUME NEW i \in 1..Len(r)  PROVE  r[i].type # "hello" /\ r[i].seq = k + i
    <3>1. r[i] = Message(k + i, transcript[t][k + i])
      BY <2>2 DEF Replayed
    <3> QED  BY <3>1 DEF Message
  <2> QED  BY <2>1, <2>2, <2>3, <2>4
<1> HIDE DEF r
<1>8. InOrder(q \o r, k) /\ EndOf(q \o r, k) = k + Len(r)
  BY <1>1, <1>2, <1>7, QueueReplay
<1>9. InOrder(toClient[s], k)' /\ EndOf(toClient[s], k)' = k + Len(r)
  BY <1>4, <1>8 DEF InOrder, EndOf, Greets
<1> QED  BY <1>5, <1>6, <1>7, <1>9 DEF Flowing

\* A turn is numbered after the last one on its way, because nobody else is
\* about to write: else there would now be a crowd.
LEMMA NumberedFlows ==
  ASSUME NEW c \in Tabs, NEW k \in Nat, Talking(c, k), NEW turn \in Turn,
         NEW s, s = tab[c].conn,
         /\ SessionStep(s) /\ ~ Writing(s) /\ session[s].synced
         /\ SendThen(s, Message(session[s].seq + 1, turn),
                     [session[s] EXCEPT !.pc = "read", !.seq = session[s].seq + 1,
                                        !.turn = turn])
  PROVE  Flowing(s, k)'
<1> DEFINE t == tab[c].thread
           q == toClient[s]
           m == Message(session[s].seq + 1, turn)
<1>1. /\ Typed /\ s \in Sessions /\ Live(s) /\ Connected(s) /\ session[s].thread = t
      /\ t \in Threads /\ session[s] \in SessionState /\ q \in Seq(ToClient) /\ clean[t]
      /\ SessionInv /\ tab' = tab
  BY TabTypes, TaskTypes, TaskMoves DEF Talking, SessionInv, Typed, TabState, OnCourse
<1>2. /\ toClient'[s] = Append(q, m)
      /\ session'[s] = [session[s] EXCEPT !.pc = "read", !.seq = session[s].seq + 1,
                                          !.turn = turn]
  BY <1>1 DEF SendThen, Typed
<1>3. /\ session'[s].pc = "read" /\ session'[s].thread = t
      /\ session'[s].seq = session[s].seq + 1 /\ session'[s].synced
      /\ session[s].seq \in Nat
  BY <1>1, <1>2 DEF SessionState
<1>4. ASSUME NEW u \in Sessions, session[u].thread = t  PROVE  ~ Writing(u)
  <2>1. CASE u = s
    BY <2>1
  <2>2. CASE u # s
    <3>1. ASSUME Writing(u)  PROVE Crowded(t)'
      <4>1. session'[u] = session[u]
        BY <1>1, <2>2, TaskMoves
      <4> QED  BY <1>1, <1>3, <1>4, <2>2, <3>1, <4>1 DEF Crowded, Writing
    <3>2. ~ Crowded(t)'
      BY <1>1 DEF Talking, OnCourse, Crowded, Writing
    <3> QED  BY <3>1, <3>2
  <2> QED  BY <2>1, <2>2
<1>5. EndOf(q, k) = session[s].seq /\ InOrder(q, k)
  BY <1>1, <1>4, StreamEnds DEF Talking, Flowing
<1>6. m \in ToClient /\ m.type # "hello" /\ m.seq = session[s].seq + 1
  BY <1>3 DEF Message, ToClient
<1> HIDE DEF t, q, m
<1>7. InOrder(Append(q, m), k) /\ EndOf(Append(q, m), k) = EndOf(q, k) + 1
  BY <1>1, <1>5, <1>6, QueueAppend
<1>8. InOrder(toClient[s], k)' /\ EndOf(toClient[s], k)' = session[s].seq + 1
  <2> DEFINE after == Append(q, m)
  <2>1. toClient'[s] = after /\ InOrder(after, k) /\ EndOf(after, k) = session[s].seq + 1
    BY <1>2, <1>5, <1>7
  <2> HIDE DEF after
  <2> QED  BY <2>1 DEF InOrder, EndOf, Greets
<1> QED  BY <1>3, <1>8 DEF Flowing

LEMMA OwnTaskFlows ==
  ASSUME NEW c \in Tabs, NEW k \in Nat, Talking(c, k), NEW s, s = tab[c].conn, SessionStep(s)
  PROVE  Flowing(s, k)'
<1>0. /\ Typed /\ s \in Sessions /\ Connected(s) /\ session[s] \in SessionState /\ SessionInv
      /\ Flowing(s, k)
  BY TabTypes, TaskTypes DEF Talking, SessionInv
<1>1. CASE Sync(s)
  BY <1>1, SyncFlows
<1>2. CASE Flag(s)
  <2>1. session[s].synced
    BY <1>0, <1>2 DEF Flowing, Flag, ClientHello
  <2>2. toClient' = toClient /\ session'[s].synced = session[s].synced
        /\ session'[s].seq = session[s].seq
    BY <1>0, <1>2 DEF Flag, Typed, SessionState
  <2> QED  BY <1>0, <2>1, <2>2, FlowStands
<1>3. CASE Echo(s)
  <2>1. session[s].synced
    BY <1>0, <1>3 DEF Flowing, Echo, ClientHello
  <2>2. Head(toServer[s]) \in ToServer /\ Head(toServer[s]).type = "message"
    BY <1>0, <1>3, TaskTypes DEF Echo, Frame
  <2>3. Head(toServer[s]).turn \in Turn /\ ~ Writing(s)
    BY <1>3, <2>2 DEF ToServer, Echo, Frame, Writing
  <2> QED  BY <1>3, <2>1, <2>3, NumberedFlows DEF Echo
<1>4. CASE ReadTranscript(s)
  <2>1. session[s].synced
    BY <1>0, <1>4 DEF Flowing, ReadTranscript
  <2>2. toClient' = toClient /\ session'[s].synced = session[s].synced
        /\ session'[s].seq = session[s].seq
    BY <1>0, <1>4 DEF ReadTranscript, net, Typed, SessionState
  <2> QED  BY <1>0, <2>1, <2>2, FlowStands
<1>5. CASE WriteTranscript(s)
  <2>1. session[s].synced
    BY <1>0, <1>5 DEF Flowing, WriteTranscript
  <2>2. toClient' = toClient /\ session'[s].synced = session[s].synced
        /\ session'[s].seq = session[s].seq
    BY <1>0, <1>5 DEF WriteTranscript, net, Typed, SessionState
  <2> QED  BY <1>0, <2>1, <2>2, FlowStands
<1>6. CASE BuildPrompt(s)
  <2>1. session[s].synced
    BY <1>0, <1>6 DEF Flowing, BuildPrompt
  <2>2. toClient' = toClient /\ session'[s].synced = session[s].synced
        /\ session'[s].seq = session[s].seq
    BY <1>0, <1>6 DEF BuildPrompt, net, Typed, SessionState
  <2> QED  BY <1>0, <2>1, <2>2, FlowStands
<1>7. CASE Answer(s)
  <2>1. session[s].synced
    BY <1>0, <1>7 DEF Flowing, Answer
  <2>2. toClient' = toClient /\ session'[s].synced = session[s].synced
        /\ session'[s].seq = session[s].seq
    BY <1>0, <1>7 DEF Answer, net, Typed, SessionState
  <2> QED  BY <1>0, <2>1, <2>2, FlowStands
<1>8. CASE WriteCanvas(s)
  <2>1. session[s].synced
    BY <1>0, <1>8 DEF Flowing, WriteCanvas
  <2>2. toClient' = toClient /\ session'[s].synced = session[s].synced
        /\ session'[s].seq = session[s].seq
    BY <1>0, <1>8 DEF WriteCanvas, net, Typed, SessionState
  <2> QED  BY <1>0, <2>1, <2>2, FlowStands
<1>9. CASE Say(s)
  <2>1. session[s].synced /\ ~ Writing(s)
    BY <1>0, <1>9 DEF Flowing, Say, Writing
  <2>2. [session[s].turn EXCEPT !.role = "assistant"] \in Turn
    BY <1>0 DEF SessionState, Turn
  <2> QED  BY <1>9, <2>1, <2>2, NumberedFlows DEF Say
<1>10. CASE EndSession(s)
  BY <1>0, <1>10 DEF EndSession
<1> QED  BY <1>1, <1>2, <1>3, <1>4, <1>5, <1>6, <1>7, <1>8, <1>9, <1>10 DEF SessionStep

LEMMA TaskKeepsCourse ==
  ASSUME SessionInv, CourseInv, NEW u \in Sessions, SessionStep(u), Next  PROVE  CourseInv'
<1> USE NoneAssumption
<1>1. tab' = tab
  BY TaskMoves
<1>2. ASSUME NEW c \in Tabs, OnCourse(c)'  PROVE  Steered(c)'
  <2>1. OnCourse(c)
    BY <1>1, <1>2, OnCourseBefore
  <2>2. Steered(c)
    BY <2>1 DEF CourseInv
  <2>3. CASE u # tab[c].conn
    BY <1>1, <2>2, <2>3, TaskMoves, TabTypes, SteeredStands
  <2>4. CASE u = tab[c].conn
    <3>1. PICK k \in Nat : Follows(c, k)
      BY <2>2 DEF Steered
    <3>2. Talking(c, k)
      BY <1>2, <2>1, <2>2, <2>4, <3>1 DEF Talking, Follows, Steered
    <3>3. Flowing(u, k)'
      BY <2>4, <3>2, OwnTaskFlows
    <3>4. UpTo(tab[c].shown, k)'
      BY <1>1, <3>2 DEF Talking, UpTo
    <3> QED  BY <1>1, <2>2, <2>4, <3>1, <3>3, <3>4 DEF Follows, Steered
  <2> QED  BY <2>3, <2>4
<1> QED  BY <1>1, <1>2 DEF CourseInv

\* The sockets of the other tabs go on as they were.
LEMMA OthersKeepCourse ==
  ASSUME SessionInv, CourseInv, Next, NEW c \in Tabs, NEW d \in Tabs \ {c}, OnCourse(d)',
         tab'[d] = tab[d],
         tab[d].conn # None =>
           /\ session'[tab[d].conn] = session[tab[d].conn]
           /\ toClient'[tab[d].conn] = toClient[tab[d].conn]
           /\ toServer[tab[d].conn] # <<>> =>
                /\ toServer'[tab[d].conn] # <<>>
                /\ Head(toServer'[tab[d].conn]) = Head(toServer[tab[d].conn])
  PROVE  Steered(d)'
<1>1. OnCourse(d)
  BY OnCourseBefore
<1>2. Steered(d)
  BY <1>1 DEF CourseInv
<1> QED  BY <1>2, SteeredStands

LEMMA ConnectSteers ==
  ASSUME SessionInv, CourseInv, Next, NEW c \in Tabs, NEW s \in Sessions, Connect(c, s)
  PROVE  CourseInv'
<1> USE NoneAssumption
<1> DEFINE t == tab[c].thread
<1>1. /\ tab[c] \in TabState /\ Typed /\ ~ Live(s) /\ tab[c].conn = None
      /\ tab[c].lastSeq \in Nat
  BY TabTypes DEF Connect, SessionInv, TabState
<1>2. PICK n \in LastSeqs(t) :
        /\ session' = [session EXCEPT ![s] =
             [ClosedSession EXCEPT !.pc = "ready", !.thread = t, !.seq = n]]
        /\ toClient' = [toClient EXCEPT ![s] = <<Hello(n)>>]
  BY DEF Connect
<1>3. /\ toServer' = [toServer EXCEPT ![s] = <<ClientHello(tab[c].lastSeq)>>]
      /\ tab' = [tab EXCEPT ![c].conn = s]
  BY DEF Connect
<1>4. /\ tab'[c].conn = s /\ tab'[c].thread = t /\ tab'[c].missed = tab[c].missed
      /\ tab'[c].shown = tab[c].shown /\ tab'[c].lastSeq = tab[c].lastSeq
      /\ \A d \in Tabs \ {c} : tab'[d] = tab[d]
  BY <1>1, <1>3 DEF Typed, TabState
<1>5. \A d \in Tabs \ {c} : tab[d].conn # s
  BY <1>1, TabTypes
<1>6. ASSUME NEW d \in Tabs \ {c}, OnCourse(d)'  PROVE  Steered(d)'
  <2>1. tab[d].conn # None => tab[d].conn \in Sessions \ {s}
    BY <1>5, TabTypes
  <2> QED  BY <1>1, <1>2, <1>3, <1>4, <1>6, <2>1, OthersKeepCourse DEF Typed
<1>7. ASSUME OnCourse(c)'  PROVE  Steered(c)'
  <2>1. OnCourse(c)
    BY <1>4, <1>7, OnCourseBefore
  <2>2. PICK k \in Nat : Follows(c, k)
    BY <2>1 DEF CourseInv, Steered
  <2>3. tab[c].lastSeq = k /\ UpTo(tab[c].shown, k)
    BY <1>1, <2>2 DEF Follows
  <2>4. /\ toClient'[s] = <<Hello(n)>> /\ toServer'[s] = <<ClientHello(k)>>
        /\ session'[s] = [ClosedSession EXCEPT !.pc = "ready", !.thread = t, !.seq = n]
    BY <1>1, <1>2, <1>3, <2>3 DEF Typed
  <2>5. session'[s].pc = "ready" /\ ~ session'[s].synced
    BY <2>4 DEF ClosedSession
  <2>6. /\ Len(toClient'[s]) = 1 /\ DOMAIN toClient'[s] = {1} /\ toClient'[s] # <<>>
        /\ toClient'[s][1].type = "hello"
    BY <2>4 DEF Hello
  <2>7. InOrder(toClient[s], k)' /\ Greets(toClient[s])' = 1
    BY <2>6 DEF InOrder, Greets
  <2>8. toServer'[s] # <<>> /\ Head(toServer'[s]) = ClientHello(k)
    BY <2>4
  <2>9. Flowing(s, k)'
    BY <2>5, <2>6, <2>7, <2>8 DEF Flowing, ClientHello
  <2>10. UpTo(tab[c].shown, k)'
    BY <1>4, <2>3 DEF UpTo
  <2>11. \A i \in DOMAIN tab'[c].shown : tab'[c].shown[i].thread = tab'[c].thread
    BY <1>4, <2>1 DEF CourseInv, Steered
  <2> QED  BY <1>4, <2>3, <2>9, <2>10, <2>11 DEF Follows, Steered
<1> QED  BY <1>1, <1>4, <1>5, <1>6, <1>7 DEF CourseInv

\* The next frame carries the turn after the last one shown, if any.
LEMMA DeliverSteers ==
  ASSUME SessionInv, CourseInv, Next, NEW c \in Tabs, Deliver(c)  PROVE  CourseInv'
<1> USE NoneAssumption
<1>1. PICK s \in Sessions : s = tab[c].conn
  BY TabTypes DEF Deliver
<1> DEFINE q    == toClient[s]
           m    == Head(q)
           list == tab[c].shown
           new  == [seq |-> m.seq, turn |-> m.turn, thread |-> tab[c].thread]
<1>2. /\ tab[c] \in TabState /\ Typed /\ Live(s) /\ s # None
      /\ q # <<>> /\ q \in Seq(ToClient) /\ m \in ToClient /\ list \in Seq(ShownTurn)
      /\ tab[c].thread \in Threads /\ tab[c].lastSeq \in Nat
  <2>1. /\ tab[c] \in TabState /\ Typed /\ Live(s) /\ q # <<>> /\ s # None
    BY <1>1, TabTypes DEF Deliver, SessionInv
  <2>2. q \in Seq(ToClient)
    BY <2>1 DEF Typed
  <2>3. m \in ToClient
    BY <2>1, <2>2, HeadTailProperties
  <2> QED  BY <2>1, <2>2, <2>3 DEF TabState
<1>3. /\ UNCHANGED <<session, toServer>>
      /\ toClient' = [toClient EXCEPT ![s] = Tail(q)]
      /\ tab' = [tab EXCEPT
           ![c].lastSeq = Adopt(tab[c].lastSeq, m.seq),
           ![c].shown   = IF m.type = "message" /\ ~ Shown(list, m)
                            THEN Append(list, new) ELSE list]
  BY <1>1, <1>2 DEF Deliver, Typed
<1>4. /\ tab'[c].conn = s /\ tab'[c].thread = tab[c].thread /\ tab'[c].missed = tab[c].missed
      /\ tab'[c].lastSeq = Adopt(tab[c].lastSeq, m.seq)
      /\ tab'[c].shown = IF m.type = "message" /\ ~ Shown(list, m)
                           THEN Append(list, new) ELSE list
      /\ \A d \in Tabs \ {c} : tab'[d] = tab[d]
  <2> HIDE DEF m, list, new
  <2> QED  BY <1>1, <1>2, <1>3 DEF Typed, TabState
<1>5. \A d \in Tabs \ {c} : tab[d].conn # s
  BY <1>1, <1>2 DEF CourseInv
<1>6. ASSUME NEW d \in Tabs \ {c}, OnCourse(d)'  PROVE  Steered(d)'
  <2> HIDE DEF m, list, new, q
  <2>1. \A u \in Sessions \ {s} : toClient'[u] = toClient[u]
    BY <1>2, <1>3 DEF Typed
  <2>2. tab[d].conn # None => tab[d].conn \in Sessions \ {s}
    BY <1>5, TabTypes
  <2> QED  BY <1>3, <1>4, <1>6, <2>1, <2>2, OthersKeepCourse
<1>7. ASSUME OnCourse(c)'  PROVE  Steered(c)'
  <2>1. OnCourse(c)
    BY <1>4, <1>7, OnCourseBefore
  <2>2. PICK k \in Nat : Follows(c, k)
    BY <2>1 DEF CourseInv, Steered
  <2>3. UpTo(list, k) /\ k <= tab[c].lastSeq /\ Flowing(s, k) /\ InOrder(q, k)
    BY <1>1, <1>2, <2>2 DEF Follows, Flowing
  <2>4. /\ m.seq \in Nat /\ Adopt(tab[c].lastSeq, m.seq) \in Nat
        /\ Adopt(tab[c].lastSeq, m.seq) >= m.seq
        /\ Adopt(tab[c].lastSeq, m.seq) >= tab[c].lastSeq
    BY <1>2 DEF Adopt, ToClient
  <2>5. \A i \in DOMAIN list : list[i].thread = tab[c].thread
    BY <2>1 DEF CourseInv, Steered
  <2>6. toClient'[s] = Tail(q) /\ session'[s] = session[s]
    BY <1>2, <1>3 DEF Typed
  <2>7. /\ Greets(Tail(q)) = 0
        /\ m.type = "hello" => /\ InOrder(Tail(q), k) /\ EndOf(Tail(q), k) = EndOf(q, k)
                               /\ Greets(q) = 1
        /\ m.type # "hello" => /\ m.seq = k + 1 /\ Greets(q) = 0
                               /\ InOrder(Tail(q), k + 1)
                               /\ EndOf(Tail(q), k + 1) = EndOf(q, k)
    BY <1>2, <2>3, QueueTail
  <2>8. Len(Tail(q)) = Len(q) - 1 /\ Len(q) \in Nat \ {0}
    BY <1>2, HeadTailProperties, EmptySeq, LenProperties
  <2>9. CASE m.type = "hello"
    <3>1. tab'[c].shown = list
      BY <1>4, <2>9
    <3>2. InOrder(toClient[s], k)' /\ EndOf(toClient[s], k)' = EndOf(q, k)
          /\ Greets(toClient[s])' = 0
      BY <2>6, <2>7, <2>9 DEF InOrder, EndOf, Greets
    <3>3. Flowing(s, k)'
      BY <1>3, <2>3, <2>6, <2>7, <2>8, <2>9, <3>2 DEF Flowing, ClientHello
    <3>4. UpTo(tab[c].shown, k)'
      BY <2>3, <3>1 DEF UpTo
    <3>5. k <= tab'[c].lastSeq
      <4> DEFINE after == Adopt(tab[c].lastSeq, m.seq)
      <4>1. after \in Nat /\ after >= tab[c].lastSeq
        BY <2>4
      <4> HIDE DEF after
      <4>2. k <= after
        BY <1>2, <2>3, <4>1
      <4> QED  BY <1>4, <4>2 DEF after
    <3> QED  BY <1>2, <1>4, <2>5, <3>1, <3>3, <3>4, <3>5 DEF Follows, Steered
  <2>10. CASE m.type # "hello"
    <3>1. m.type = "message" /\ m.turn \in Turn
      BY <1>2, <2>10 DEF ToClient
    <3>2. tab'[c].shown = Append(list, new)
      BY <1>4, <2>3, <2>7, <2>10, <3>1, NextIsNew
    <3>3. new \in ShownTurn /\ new.seq = k + 1 /\ new.thread = tab[c].thread
      BY <1>2, <2>4, <2>7, <2>10, <3>1 DEF ShownTurn
    <3>4. UpTo(Append(list, new), k + 1)
      BY <1>2, <2>3, <3>3, ListAppend
    <3>5. UpTo(tab[c].shown, k + 1)'
      BY <3>2, <3>4 DEF UpTo
    <3>6. InOrder(toClient[s], k + 1)' /\ EndOf(toClient[s], k + 1)' = EndOf(q, k)
      BY <2>6, <2>7, <2>10 DEF InOrder, EndOf, Greets
    <3>7. session[s].synced
      BY <2>3, <2>7, <2>8, <2>10 DEF Flowing
    <3>8. Flowing(s, k + 1)'
      BY <2>3, <2>6, <3>6, <3>7 DEF Flowing
    <3>9. k + 1 <= tab'[c].lastSeq /\ k + 1 \in Nat
      BY <1>4, <2>4, <2>7, <2>10
    <3>10. \A i \in DOMAIN tab'[c].shown : tab'[c].shown[i].thread = tab'[c].thread
      <4> HIDE DEF new
      <4>1. /\ DOMAIN Append(list, new) = 1..(Len(list) + 1) /\ DOMAIN list = 1..Len(list)
            /\ Append(list, new)[Len(list) + 1] = new /\ Len(list) \in Nat
            /\ \A i \in 1..Len(list) : Append(list, new)[i] = list[i]
        BY <1>2, <3>3, AppendProperties, LenProperties
      <4>2. ASSUME NEW i \in DOMAIN Append(list, new)
            PROVE  Append(list, new)[i].thread = tab[c].thread
        <5>1. CASE i = Len(list) + 1
          BY <3>3, <4>1, <5>1
        <5>2. CASE i # Len(list) + 1
          <6>1. i \in DOMAIN list /\ i \in 1..Len(list)
            BY <4>1, <5>2
          <6> QED  BY <2>5, <4>1, <6>1
        <5> QED  BY <5>1, <5>2
      <4> QED  BY <1>4, <3>2, <4>2
    <3>11. Follows(c, k + 1)'
      BY <1>2, <1>4, <3>5, <3>8, <3>9 DEF Follows
    <3> QED  BY <3>9, <3>10, <3>11 DEF Steered
  <2> QED  BY <2>9, <2>10
<1> QED  BY <1>2, <1>4, <1>5, <1>6, <1>7 DEF CourseInv

\* Sending leaves the screen in order, the copy shown at once having a negative
\* number, and a client_hello that waits stays first.
LEMMA SendingSteers ==
  ASSUME SessionInv, CourseInv, Next, NEW c \in Tabs, NEW m \in ToServer, CanSend(c),
         Transmit(c, m), UNCHANGED <<session, toClient>>,
         tab'[c].conn = tab[c].conn, tab'[c].thread = tab[c].thread,
         tab'[c].missed = tab[c].missed, tab'[c].lastSeq = tab[c].lastSeq,
         \A d \in Tabs \ {c} : tab'[d] = tab[d],
         \/ tab'[c].shown = tab[c].shown
         \/ \E new \in ShownTurn : /\ new.seq <= 0 /\ new.thread = tab[c].thread
                                   /\ tab'[c].shown = Append(tab[c].shown, new)
  PROVE  CourseInv'
<1> USE NoneAssumption
<1> DEFINE s == tab[c].conn
<1>1. /\ s # None /\ s \in Sessions /\ Typed /\ tab[c].shown \in Seq(ShownTurn)
      /\ toServer[s] \in Seq(ToServer)
  BY TabTypes, TaskTypes DEF CanSend, SessionInv, TabState
<1>2. /\ \A u \in Sessions : u # s => toServer'[u] = toServer[u]
      /\ toServer'[s] = Append(toServer[s], m)
  BY <1>1, TransmitFacts DEF Transmit, Typed
<1>3. toServer[s] # <<>> => toServer'[s] # <<>> /\ Head(toServer'[s]) = Head(toServer[s])
  BY <1>1, <1>2, AppendProperties
<1>4. \A d \in Tabs \ {c} : tab[d].conn # s
  BY <1>1 DEF CourseInv
<1>5. ASSUME NEW d \in Tabs \ {c}, OnCourse(d)'  PROVE  Steered(d)'
  <2>1. tab[d].conn # None => tab[d].conn \in Sessions /\ tab[d].conn # s
    BY <1>4, TabTypes
  <2> HIDE DEF s
  <2> QED  BY <1>2, <1>5, <2>1, OthersKeepCourse
<1>6. ASSUME OnCourse(c)'  PROVE  Steered(c)'
  <2>1. OnCourse(c)
    BY <1>6, OnCourseBefore
  <2>2. Steered(c)
    BY <2>1 DEF CourseInv
  <2>3. PICK k \in Nat : Follows(c, k)
    BY <2>2 DEF Steered
  <2>4. Flowing(s, k) /\ UpTo(tab[c].shown, k) /\ k <= tab[c].lastSeq
    BY <1>1, <2>3 DEF Follows
  <2>5. Flowing(s, k)'
    BY <1>3, <2>4, FlowStands DEF Flowing
  <2>6. /\ UpTo(tab'[c].shown, k)
        /\ \A i \in DOMAIN tab'[c].shown : tab'[c].shown[i].thread = tab[c].thread
    <3>1. CASE tab'[c].shown = tab[c].shown
      BY <2>2, <2>4, <3>1 DEF Steered
    <3>2. CASE tab'[c].shown # tab[c].shown
      <4> DEFINE list == tab[c].shown
      <4>1. PICK new \in ShownTurn : /\ new.seq <= 0 /\ new.thread = tab[c].thread
                                     /\ tab'[c].shown = Append(list, new)
        BY <3>2
      <4>2. /\ DOMAIN Append(list, new) = 1..(Len(list) + 1) /\ DOMAIN list = 1..Len(list)
            /\ Append(list, new)[Len(list) + 1] = new
            /\ \A i \in 1..Len(list) : Append(list, new)[i] = list[i]
            /\ Len(list) \in Nat
        BY <1>1, AppendProperties, LenProperties
      <4>3. UpTo(Append(list, new), k)
        BY <1>1, <2>4, <4>1, ListAppend
      <4>4. \A i \in DOMAIN Append(list, new) : i = Len(list) + 1 \/ i \in 1..Len(list)
        BY <4>2
      <4>5. \A i \in DOMAIN list : list[i].thread = tab[c].thread
        BY <2>2 DEF Steered
      <4> HIDE DEF list
      <4> QED  BY <4>1, <4>2, <4>3, <4>4, <4>5
    <3> QED  BY <3>1, <3>2
  <2>7. UpTo(tab[c].shown, k)'
    BY <2>6 DEF UpTo
  <2> QED  BY <1>1, <2>4, <2>5, <2>6, <2>7 DEF Follows, Steered
<1>7. ASSUME NEW d \in Tabs, NEW e \in Tabs, d # e, tab'[d].conn = tab'[e].conn
      PROVE  tab'[d].conn = None
  <2>1. \A x \in Tabs : tab'[x].conn = tab[x].conn
    OBVIOUS
  <2> QED  BY <1>7, <2>1 DEF CourseInv
<1> QED  BY <1>5, <1>6, <1>7 DEF CourseInv

LEMMA SendTurnSteers ==
  ASSUME SessionInv, CourseInv, Next, NEW c \in Tabs, SendTurn(c)  PROVE  CourseInv'
<1> DEFINE t    == [role |-> "user", id |-> turns + 1]
           list == tab[c].shown
           mine == [seq |-> -1 - Len(list), turn |-> t, thread |-> tab[c].thread]
<1>1. /\ tab[c] \in TabState /\ Typed /\ t \in Turn /\ list \in Seq(ShownTurn)
      /\ Len(list) \in Nat
  BY TabTypes DEF SessionInv, Typed, TabState, Turn
<1>2. Message(0, t) \in ToServer
  BY <1>1 DEF Message, ToServer
<1>3. mine \in ShownTurn /\ mine.seq <= 0 /\ mine.thread = tab[c].thread
  BY <1>1 DEF ShownTurn, TabState
<1>4. /\ CanSend(c) /\ Transmit(c, Message(0, t))
      /\ tab' = [tab EXCEPT ![c].shown = Append(list, mine)]
      /\ UNCHANGED <<session, toClient>>
  BY <1>1 DEF SendTurn, Typed
<1> HIDE DEF t, list, mine
<1>5. /\ tab'[c].conn = tab[c].conn /\ tab'[c].thread = tab[c].thread
      /\ tab'[c].missed = tab[c].missed /\ tab'[c].lastSeq = tab[c].lastSeq
      /\ \A d \in Tabs \ {c} : tab'[d] = tab[d]
      /\ tab'[c].shown = Append(list, mine)
  BY <1>1, <1>4 DEF Typed, TabState
<1>6. \E new \in ShownTurn : /\ new.seq <= 0 /\ new.thread = tab[c].thread
                             /\ tab'[c].shown = Append(tab[c].shown, new)
  BY <1>3, <1>5 DEF list
<1> QED  BY <1>2, <1>4, <1>5, <1>6, SendingSteers

LEMMA PressSteers ==
  ASSUME SessionInv, CourseInv, Next, NEW c \in Tabs, PressSkip(c) \/ PressReview(c)
  PROVE  CourseInv'
<1>1. tab[c] \in TabState /\ Typed
  BY TabTypes DEF SessionInv
<1>2. SkipDiscovery \in ToServer /\ ReviewRequested \in ToServer
  BY DEF SkipDiscovery, ReviewRequested, ToServer
<1>3. CASE PressSkip(c)
  <2>1. /\ tab'[c].conn = tab[c].conn /\ tab'[c].thread = tab[c].thread
        /\ tab'[c].missed = tab[c].missed /\ tab'[c].lastSeq = tab[c].lastSeq
        /\ tab'[c].shown = tab[c].shown
        /\ \A d \in Tabs \ {c} : tab'[d] = tab[d]
    BY <1>1, <1>3 DEF PressSkip, Typed, TabState
  <2> QED  BY <1>2, <1>3, <2>1, SendingSteers DEF PressSkip
<1>4. CASE PressReview(c)
  BY <1>2, <1>4, SendingSteers DEF PressReview
<1> QED  BY <1>3, <1>4

\* A tab that was on course and whose socket closes still is, if what it shows
\* is all it believes to have seen.
LEMMA CloseSteers ==
  ASSUME SessionInv, Next, NEW c \in Tabs, OnCourse(c) => Steered(c), OnCourse(c)',
         tab'[c].conn = None, tab'[c].thread = tab[c].thread, tab'[c].shown = tab[c].shown,
         tab'[c].lastSeq = tab[c].lastSeq,
         ~ tab'[c].missed => ~ tab[c].missed /\ ~ Overstated(c)
  PROVE  Steered(c)'
<1>1. Steered(c)
  BY OnCourseBefore
<1>2. PICK k \in Nat : Follows(c, k)
  BY <1>1 DEF Steered
<1>3. tab[c].shown \in Seq(ShownTurn) /\ tab[c].lastSeq \in Nat
  BY TabTypes DEF TabState
<1>4. HighestShown(c) = k
  BY <1>2, <1>3, HighestIs DEF Follows
<1>5. tab[c].lastSeq <= k
  BY <1>3, <1>4 DEF OnCourse, Overstated
<1>6. UpTo(tab[c].shown, k)'
  BY <1>2 DEF Follows, UpTo
<1> QED  BY <1>1, <1>2, <1>5, <1>6 DEF Follows, Steered

LEMMA DisconnectSteers ==
  ASSUME SessionInv, CourseInv, Next, NEW c \in Tabs, Disconnect(c)  PROVE  CourseInv'
<1> USE NoneAssumption
<1>1. PICK s \in Sessions : s = tab[c].conn /\ s # None
  BY TabTypes DEF Disconnect
<1>2. tab[c] \in TabState /\ Typed
  BY TabTypes DEF SessionInv
<1>3. PICK b \in BOOLEAN : /\ tab' = [tab EXCEPT ![c].conn = None, ![c].missed = b]
                           /\ b <=> tab[c].missed \/ Overstated(c)
  <2>1. (tab[c].missed \/ Overstated(c)) \in BOOLEAN
    OBVIOUS
  <2>2. tab' = [tab EXCEPT ![c].conn = None, ![c].missed = tab[c].missed \/ Overstated(c)]
    BY <1>2 DEF Disconnect, Typed
  <2> QED  BY <2>1, <2>2
<1>4. /\ tab'[c].conn = None /\ tab'[c].thread = tab[c].thread
      /\ tab'[c].shown = tab[c].shown /\ tab'[c].lastSeq = tab[c].lastSeq
      /\ ~ tab'[c].missed => ~ tab[c].missed /\ ~ Overstated(c)
      /\ \A d \in Tabs \ {c} : tab'[d] = tab[d]
  BY <1>2, <1>3 DEF Typed, TabState
<1>5. /\ session' = session
      /\ \A u \in Sessions \ {s} : toServer'[u] = toServer[u] /\ toClient'[u] = toClient[u]
  <2>1. /\ toClient' = [toClient EXCEPT ![s] = <<>>]
        /\ toServer' = toServer \/ toServer' = [toServer EXCEPT ![s] = <<>>]
        /\ session' = session
    BY <1>1 DEF Disconnect
  <2> QED  BY <1>2, <2>1 DEF Typed
<1>6. ASSUME NEW d \in Tabs \ {c}, OnCourse(d)'  PROVE  Steered(d)'
  <2>1. tab[d].conn # None => tab[d].conn \in Sessions \ {s}
    BY <1>1, TabTypes DEF CourseInv
  <2> QED  BY <1>4, <1>5, <1>6, <2>1, OthersKeepCourse
<1>7. ASSUME OnCourse(c)'  PROVE  Steered(c)'
  BY <1>4, <1>7, CloseSteers DEF CourseInv
<1> QED  BY <1>4, <1>6, <1>7 DEF CourseInv

LEMMA SwitchThreadSteers ==
  ASSUME SessionInv, CourseInv, Next, NEW c \in Tabs, NEW t \in Threads, SwitchThread(c, t)
  PROVE  CourseInv'
<1>1. tab[c] \in TabState /\ Typed
  BY TabTypes DEF SessionInv
<1>2. /\ tab'[c].missed /\ tab'[c].conn = tab[c].conn
      /\ \A d \in Tabs \ {c} : tab'[d] = tab[d]
      /\ UNCHANGED <<session, toServer, toClient>>
  BY <1>1 DEF SwitchThread, net, Typed, TabState
<1>3. ASSUME NEW d \in Tabs, OnCourse(d)'  PROVE  Steered(d)'
  <2>1. d # c
    BY <1>2, <1>3 DEF OnCourse
  <2> QED  BY <1>2, <1>3, <2>1, OthersKeepCourse
<1>4. \A d \in Tabs : tab'[d].conn = tab[d].conn
  BY <1>2
<1> QED  BY <1>3, <1>4 DEF CourseInv

LEMMA RestartSteers ==
  ASSUME SessionInv, CourseInv, Next, Restart  PROVE  CourseInv'
<1>1. ASSUME NEW c \in Tabs
      PROVE  /\ tab'[c].conn = None /\ tab'[c].thread = tab[c].thread
             /\ tab'[c].shown = tab[c].shown /\ tab'[c].lastSeq = tab[c].lastSeq
             /\ ~ tab'[c].missed => ~ tab[c].missed /\ ~ Overstated(c)
  <2> DEFINE b == tab[c].missed \/ Overstated(c)
  <2>1. tab[c] \in TabState /\ b \in BOOLEAN
    BY TabTypes
  <2>2. tab'[c] = [tab[c] EXCEPT !.conn = None, !.missed = b]
    BY <2>1 DEF Restart, TabState
  <2>3. b <=> tab[c].missed \/ Overstated(c)
    OBVIOUS
  <2> HIDE DEF b
  <2> QED  BY <2>1, <2>2, <2>3 DEF TabState
<1>2. ASSUME NEW c \in Tabs, OnCourse(c)'  PROVE  Steered(c)'
  BY <1>1, <1>2, CloseSteers DEF CourseInv
<1> QED  BY <1>1, <1>2 DEF CourseInv

LEMMA CourseStart == Init => CourseInv
<1> SUFFICES ASSUME Init  PROVE  CourseInv
  OBVIOUS
<1>1. ASSUME NEW c \in Tabs
      PROVE  tab[c].conn = None /\ tab[c].lastSeq = 0 /\ tab[c].shown = <<>>
  BY <1>1 DEF Init
<1>2. \A list : list = <<>> => UpTo(list, 0)
  BY DEF UpTo
<1>3. ASSUME NEW c \in Tabs  PROVE  Steered(c)
  <2>1. Follows(c, 0)
    BY <1>1, <1>2 DEF Follows
  <2>2. DOMAIN tab[c].shown = {}
    BY <1>1
  <2> QED  BY <2>1, <2>2 DEF Steered
<1> QED  BY <1>1, <1>3 DEF CourseInv

LEMMA CourseInductive == SessionInv /\ CourseInv /\ [Next]_vars => CourseInv'
<1> SUFFICES ASSUME SessionInv, CourseInv, [Next]_vars  PROVE  CourseInv'
  OBVIOUS
<1>1. CASE Next
  <2>1. ASSUME NEW s \in Sessions, SessionStep(s)  PROVE  CourseInv'
    BY <1>1, <2>1, TaskKeepsCourse
  <2>2. ASSUME NEW c \in Tabs, TabStep(c)  PROVE  CourseInv'
    BY <1>1, <2>2, ConnectSteers, DeliverSteers, SendTurnSteers, PressSteers,
       DisconnectSteers, SwitchThreadSteers DEF TabStep
  <2> QED  BY <1>1, <2>1, <2>2, RestartSteers DEF Next
<1>2. CASE UNCHANGED vars
  <2>1. UNCHANGED <<transcript, session, toServer, toClient, tab, clean>>
    BY <1>2 DEF vars
  <2>2. ASSUME NEW c \in Tabs, OnCourse(c)'  PROVE  Steered(c)'
    <3>1. OnCourse(c)
      BY <2>1, <2>2 DEF OnCourse, Crowded, Writing
    <3> QED  BY <2>1, <3>1, SteeredStands DEF CourseInv
  <2> QED  BY <2>1, <2>2 DEF CourseInv
<1> QED  BY <1>1, <1>2

\* With the wire empty and nobody about to write, the screen ends where the
\* transcript does.
LEMMA CourseCatchesUp == SessionInv /\ CourseInv => CaughtUp
<1> USE NoneAssumption
<1> SUFFICES ASSUME SessionInv, CourseInv, NEW c \in Tabs,
                    tab[c].conn # None, ~ tab[c].missed, clean[tab[c].thread],
                    Rivals(tab[c].conn) = {}, session[tab[c].conn].pc = "ready",
                    session[tab[c].conn].synced, toClient[tab[c].conn] = <<>>
             PROVE  LET shown == tab[c].shown
                        turn  == transcript[tab[c].thread]
                    IN  /\ \A i \in FromServer(shown) :
                             /\ shown[i].seq \in DOMAIN turn
                             /\ turn[shown[i].seq] = shown[i].turn
                        /\ \A n \in DOMAIN turn : \E i \in FromServer(shown) : shown[i].seq = n
                        /\ \A i, j \in FromServer(shown) : i < j => shown[i].seq < shown[j].seq
  BY DEF CaughtUp
<1> DEFINE s     == tab[c].conn
           t     == tab[c].thread
           shown == tab[c].shown
           turn  == transcript[t]
<1>1. /\ s \in Sessions /\ session[s].thread = t /\ t \in Threads /\ turn \in Seq(Turn)
      /\ shown \in Seq(ShownTurn)
  BY TabTypes DEF SessionInv, Typed, TabState
<1>2. ASSUME NEW u \in Sessions, session[u].thread = t  PROVE  ~ Writing(u)
  BY <1>1, <1>2 DEF Rivals, Writing, Live
<1>3. OnCourse(c)
  BY <1>2 DEF OnCourse, Crowded
<1>4. PICK k \in Nat : UpTo(shown, k) /\ Flowing(s, k)
  BY <1>3 DEF CourseInv, Steered, Follows
<1>5. \A i \in DOMAIN shown : shown[i].thread = t
  BY <1>3 DEF CourseInv, Steered
<1>6. EndOf(toClient[s], k) = Len(turn)
  BY <1>2, <1>4, <1>5, StreamEnds
<1>7. k = Len(turn) /\ DOMAIN turn = 1..k
  <2>1. Len(toClient[s]) = 0 /\ Greets(toClient[s]) = 0
    BY DEF Greets
  <2> HIDE DEF s, turn
  <2> QED  BY <1>1, <1>6, <2>1, LenProperties DEF EndOf
<1>8. ASSUME NEW i \in FromServer(shown)
      PROVE  shown[i].seq \in DOMAIN turn /\ turn[shown[i].seq] = shown[i].turn
  <2>1. i \in DOMAIN shown /\ shown[i].seq > 0 /\ shown[i].thread = t
    BY <1>5 DEF FromServer
  <2>2. IsPosition(t, shown[i].seq, shown[i].turn)
    BY <2>1 DEF SessionInv, SeqIsPosition
  <2> QED  BY <1>2, <1>7, <2>2 DEF IsPosition, Writing
<1>9. ASSUME NEW n \in DOMAIN turn  PROVE  \E i \in FromServer(shown) : shown[i].seq = n
  <2>1. n \in 1..k
    BY <1>7
  <2>2. PICK i \in DOMAIN shown : shown[i].seq = n
    BY <1>4, <2>1 DEF UpTo
  <2> QED  BY <2>1, <2>2 DEF FromServer
<1>10. ASSUME NEW i \in FromServer(shown), NEW j \in FromServer(shown), i < j
       PROVE  shown[i].seq < shown[j].seq
  BY <1>4, <1>10 DEF UpTo, FromServer
<1> QED  BY <1>8, <1>9, <1>10
-----------------------------------------------------------------------------
(* Theorems *)

\* As long as nothing came between a thread and its one task, the number of a
\* turn, on the screen or on the wire, is its place in the transcript
\* (handle_message and persist_message, editor_ws.rs), for any number of
\* threads, tabs, tasks and turns.
THEOREM NumbersAreRight == Spec => []SeqIsPosition
<1>1. Spec => []SessionInv
  BY SessionStart, SessionInductive, PTL DEF Spec
<1>2. SessionInv => SeqIsPosition
  BY DEF SessionInv
<1> QED  BY <1>1, <1>2, PTL

LEMMA AppendKeepsPrefix ==
  ASSUME NEW S, NEW list \in Seq(S), NEW x \in S
  PROVE  IsPrefix(list, list) /\ IsPrefix(list, Append(list, x))
<1> DEFINE more == Append(list, x)
<1>1. /\ more \in Seq(S) /\ Len(more) = Len(list) + 1 /\ Len(list) \in Nat
      /\ \A i \in 1..Len(list) : more[i] = list[i]
  BY AppendProperties, LenProperties
<1> HIDE DEF more
<1>2. SubSeq(list, 1, Len(list)) = [i \in 1..Len(list) |-> list[i]]
  BY <1>1
<1>3. SubSeq(more, 1, Len(list)) = [i \in 1..Len(list) |-> more[i]]
  BY <1>1
<1> QED  BY <1>1, <1>2, <1>3 DEF IsPrefix, more

\* The upsert replaces the whole array (persist_message, editor_ws.rs); as long
\* as nothing came between, it only ever adds a turn at its end.
THEOREM NoTurnIsLost == Spec => TranscriptOnlyGrows
<1>1. Spec => []SessionInv
  BY SessionStart, SessionInductive, PTL DEF Spec
<1>2. SessionInv /\ [Next]_vars =>
        [\A t \in Threads : clean'[t] => IsPrefix(transcript[t], transcript'[t])]_vars
  <2> SUFFICES ASSUME SessionInv, Next, NEW t \in Threads, clean'[t]
               PROVE  IsPrefix(transcript[t], transcript'[t])
    OBVIOUS
  <2>1. transcript[t] \in Seq(Turn)
    BY DEF SessionInv, Typed
  <2>2. CASE \E s \in Sessions : WriteTranscript(s)
    <3>1. PICK s \in Sessions : WriteTranscript(s)
      BY <2>2
    <3>2. CASE t = session[s].thread
      <4>1. transcript'[t] = Append(transcript[t], session[s].turn)
        BY <3>1, <3>2, WriteFacts
      <4>2. session[s].turn \in Turn
        BY TaskTypes DEF SessionInv, SessionState
      <4> QED  BY <2>1, <4>1, <4>2, AppendKeepsPrefix
    <3>3. CASE t # session[s].thread
      <4>1. transcript'[t] = transcript[t]
        BY <3>1, <3>3, WriteFacts
      <4>2. NoTurn \in Turn
        BY DEF NoTurn, Turn
      <4> QED  BY <2>1, <4>1, <4>2, AppendKeepsPrefix
    <3> QED  BY <3>2, <3>3
  <2>3. CASE ~ \E s \in Sessions : WriteTranscript(s)
    <3>1. transcript' = transcript
      BY <2>3 DEF Next, SessionStep, TabStep, Sync, Flag, Echo, ReadTranscript, BuildPrompt,
                  Answer, WriteCanvas, Say, EndSession, Connect, Deliver, SendTurn,
                  PressSkip, PressReview, Disconnect, SwitchThread, Restart
    <3>2. NoTurn \in Turn
      BY DEF NoTurn, Turn
    <3> QED  BY <2>1, <3>1, <3>2, AppendKeepsPrefix
  <2> QED  BY <2>2, <2>3
<1> QED  BY <1>1, <1>2, PTL DEF Spec, TranscriptOnlyGrows

\* A tab that comes back and has been replayed what it asked for shows the
\* transcript, every turn once and in order (replay_from, editor_ws.rs, and the
\* lastSeq the hook keeps), for any number of threads, tabs, tasks and turns.
THEOREM ReconnectionCatchesUp == Spec => []CaughtUp
<1>1. Init => SessionInv /\ CourseInv
  BY SessionStart, CourseStart
<1>2. SessionInv /\ CourseInv /\ [Next]_vars => SessionInv' /\ CourseInv'
  BY SessionInductive, CourseInductive
<1>3. SessionInv /\ CourseInv => CaughtUp
  BY CourseCatchesUp
<1> QED  BY <1>1, <1>2, <1>3, PTL DEF Spec

=============================================================================
