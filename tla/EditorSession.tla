--------------------------- MODULE EditorSession ---------------------------
(***************************************************************************)
(* The editor WebSocket: one transcript per (page, language, author), the  *)
(* server task behind each socket and the chat pane of each browser tab.   *)
(*                                                                         *)
(* The transcript is one JSONB array, read and written back as a whole.  A *)
(* task numbers the envelopes it sends from the length it read when its    *)
(* socket opened, and nothing ends a task whose browser has gone while it  *)
(* waits for the database or the language model: a tab that reconnects has *)
(* two tasks for a while, each with a counter of its own.                  *)
(***************************************************************************)
EXTENDS Integers, Sequences, FiniteSets, SequencesExt

CONSTANTS
  Threads,     \* transcripts: the (page, language) pairs of one author
  Tabs,        \* browser tabs of that author
  Sessions,    \* slots for the server tasks
  None,        \* no session, no thread
  MaxTurns,    \* bound: user turns typed in the whole behaviour
  MaxInFlight  \* bound: envelopes on their way to the server, per socket

ASSUME NoneAssumption == None \notin Threads \union Sessions

VARIABLES
  transcript,  \* editor_conversations.messages of each thread
  canvas,      \* does page_versions.content_markdown hold text
  session,     \* the server tasks
  toServer,    \* frames on their way to each task
  toClient,    \* frames on their way to the browser
  tab,         \* what each tab's hooks keep
  turns,       \* user turns typed so far
  clean        \* history: nothing has come between a thread and its one task

vars == <<transcript, canvas, session, toServer, toClient, tab, turns, clean>>
net  == <<toServer, toClient>>

-----------------------------------------------------------------------------
(* Data *)

Hello(n)       == [type |-> "hello", seq |-> n]
ClientHello(n) == [type |-> "client_hello", seq |-> n]
Message(n, t)  == [type |-> "message", seq |-> n, turn |-> t]
SkipDiscovery  == [type |-> "skip_discovery"]
ReviewRequested == [type |-> "review_requested"]

\* A turn: its role and the number of the user turn it belongs to.
NoTurn == [role |-> "none", id |-> 0]

\* The channels of a reply: parse() in application/editor/channels.rs.
\* "none" is an LLM error or a blank reply; an untagged reply is all chat.
Replies == {{}, {"chat"}, {"canvas"}, {"chat", "canvas"}}

ClosedSession == [pc |-> "closed", thread |-> None, seq |-> 0, synced |-> FALSE, skip |-> FALSE, review |-> FALSE,
                  turn |-> NoTurn, base |-> <<>>, reply |-> {},
                  mode |-> "Conversation"]

Connected(s) == \E c \in Tabs : tab[c].conn = s
Live(s)      == session[s].pc # "closed"

\* Tasks of the thread other than s that may still write.
Rivals(s) == {u \in Sessions \ {s} :
                /\ Live(u) /\ session[u].thread = session[s].thread
                /\ Connected(u) \/ session[u].pc # "ready" \/ toServer[u] # <<>>}

\* determine_mode, with Review overriding it; no turn asks for Generation and
\* no transcript holds an approved outline, since the handler drops both.
DetermineMode(hasContent, skip, review) ==
  CASE review                      -> "Review"
    [] ~ review /\ ~ hasContent /\ ~ skip -> "Intake"
    [] OTHER                       -> "Conversation"

\* load_last_seq: 0 when there is no row, or it cannot be read.
LastSeqs(t) == {0, Len(transcript[t])}

\* find_by_key and upsert: when one fails, the session only logs it and goes on.
FindByKey(t, ok) == IF ok THEN transcript[t] ELSE <<>>
Upsert(t, messages, ok) ==
  transcript' = IF ok THEN [transcript EXCEPT ![t] = messages] ELSE transcript

\* Sending on a socket the browser has left fails, or is lost unnoticed.
SendThen(s, m, next) ==
  \/ /\ Connected(s)
     /\ toClient' = [toClient EXCEPT ![s] = Append(@, m)]
     /\ session' = [session EXCEPT ![s] = next]
  \/ /\ ~ Connected(s)
     /\ session' \in {[session EXCEPT ![s] = next],
                      [session EXCEPT ![s] = ClosedSession]}
     /\ UNCHANGED toClient

-----------------------------------------------------------------------------
(* The browser *)

\* The hook opens a socket: on connection, after the backoff, or because the
\* effect runs again.
Connect(c, s) ==
  /\ tab[c].conn = None
  /\ ~ Live(s)
  /\ \E n \in LastSeqs(tab[c].thread) :
       /\ session' = [session EXCEPT ![s] =
            [ClosedSession EXCEPT !.pc = "ready", !.thread = tab[c].thread,
                                  !.seq = n]]
       /\ toClient' = [toClient EXCEPT ![s] = <<Hello(n)>>]
       /\ clean' = [clean EXCEPT ![tab[c].thread] =
                      @ /\ n = Len(transcript[tab[c].thread])]
  /\ toServer' = [toServer EXCEPT ![s] = <<ClientHello(tab[c].lastSeq)>>]
  /\ tab' = [tab EXCEPT ![c].conn = s]
  /\ UNCHANGED <<transcript, canvas, turns>>

\* hello: adopt the server's count.  message: raise lastSeq, and show the turn
\* unless one of the same (seq, role) is there already.
HighestShown(c) ==
  LET seqs == {tab[c].shown[i].seq : i \in DOMAIN tab[c].shown} \union {0}
  IN  CHOOSE n \in seqs : \A m \in seqs : m <= n

Adopt(n, m) == IF m > n THEN m ELSE n

Shown(list, m) == \E i \in DOMAIN list :
                    list[i].seq = m.seq /\ list[i].turn.role = m.turn.role

Deliver(c) ==
  LET s == tab[c].conn IN
  /\ s # None /\ toClient[s] # <<>>
  /\ LET m == Head(toClient[s]) IN
       tab' = [tab EXCEPT
         ![c].lastSeq = Adopt(@, m.seq),
         ![c].shown   = IF m.type = "message" /\ ~ Shown(@, m)
                          THEN Append(@, [seq |-> m.seq, turn |-> m.turn,
                                          thread |-> tab[c].thread])
                          ELSE @]
  /\ toClient' = [toClient EXCEPT ![s] = Tail(@)]
  /\ UNCHANGED <<transcript, canvas, session, toServer, turns, clean>>

CanSend(c) == /\ tab[c].conn # None
              /\ Len(toServer[tab[c].conn]) < MaxInFlight

Transmit(c, m) == toServer' = [toServer EXCEPT ![tab[c].conn] = Append(@, m)]

\* sendUserTurn: the optimistic copy has a negative seq and stays for good.
SendTurn(c) ==
  /\ CanSend(c) /\ turns < MaxTurns
  /\ turns' = turns + 1
  /\ LET t == [role |-> "user", id |-> turns + 1] IN
       /\ Transmit(c, Message(0, t))
       /\ tab' = [tab EXCEPT ![c].shown =
                    Append(@, [seq |-> -1 - Len(@), turn |-> t,
                               thread |-> tab[c].thread])]
  /\ UNCHANGED <<transcript, canvas, session, toClient, clean>>

\* handleSkipDiscovery: the button is gone for the life of the pane.
PressSkip(c) ==
  /\ CanSend(c) /\ ~ tab[c].skipped
  /\ Transmit(c, SkipDiscovery)
  /\ tab' = [tab EXCEPT ![c].skipped = TRUE]
  /\ UNCHANGED <<transcript, canvas, session, toClient, turns, clean>>

\* One of the DOM-event bridges of the chat pane.  The others send variants
\* the handler drops: acks, comments, autonomy and outline decisions.
PressReview(c) ==
  /\ CanSend(c)
  /\ Transmit(c, ReviewRequested)
  /\ UNCHANGED <<transcript, canvas, session, toClient, tab, turns, clean>>

\* Whether the tab now believes it has seen turns that it does not show.
Overstated(c) == tab[c].lastSeq > HighestShown(c)

\* The socket closes: the network drops it, or the effect is cleaned up (the
\* shell re-renders and hands the hook a callback of another identity).  What
\* was on its way here is lost; what was on its way there may be.
Disconnect(c) ==
  LET s == tab[c].conn IN
  /\ s # None
  /\ tab' = [tab EXCEPT ![c].conn = None, ![c].missed = @ \/ Overstated(c)]
  /\ toClient' = [toClient EXCEPT ![s] = <<>>]
  /\ toServer' \in {toServer, [toServer EXCEPT ![s] = <<>>]}
  /\ UNCHANGED <<transcript, canvas, session, turns, clean>>

\* The pane is given another language or page: lastSeq and messages stay.
SwitchThread(c, t) ==
  /\ tab[c].conn = None /\ tab[c].thread # t
  /\ tab' = [tab EXCEPT ![c].thread = t, ![c].missed = TRUE]
  /\ UNCHANGED <<transcript, canvas, session, net, turns, clean>>

-----------------------------------------------------------------------------
(* The server task *)

\* The thread of s is disturbed when other tasks may write it, or when a
\* statement on it fails.
Disturb(s, bad) ==
  clean' = [clean EXCEPT ![session[s].thread] = @ /\ ~ bad]

Frame(s) == session[s].pc = "ready" /\ toServer[s] # <<>>
Take(s)  == toServer' = [toServer EXCEPT ![s] = Tail(@)]

\* Faulty variant of Replayed: it leaves out the first turn the client lacks.
ReplayedFromNext(t, n) ==
  [i \in 1..(Len(transcript[t]) - n - 1) |->
     Message(n + i + 1, transcript[t][n + i + 1])]

\* replay_from: every entry past the client's count; nothing on a failed read.
Replayed(t, n) ==
  [i \in 1..(Len(transcript[t]) - n) |-> Message(n + i, transcript[t][n + i])]

\* client_hello, the first one only.
Sync(s) ==
  /\ Frame(s) /\ Head(toServer[s]).type = "client_hello" /\ ~ session[s].synced
  /\ \E ok \in BOOLEAN :
       /\ toClient' = [toClient EXCEPT ![s] =
            IF ok /\ Connected(s)
              THEN @ \o Replayed(session[s].thread, Head(toServer[s]).seq) ELSE @]
       /\ Disturb(s, ~ ok)
  /\ session' = [session EXCEPT ![s].synced = TRUE]
  /\ Take(s)
  /\ UNCHANGED <<transcript, canvas, tab, turns>>

\* skip_discovery and review_requested set a flag of this task.
Flag(s) ==
  /\ Frame(s)
  /\ LET type == Head(toServer[s]).type IN
       /\ type \in {"skip_discovery", "review_requested"}
       /\ session' = [session EXCEPT
            ![s].skip   = @ \/ type = "skip_discovery",
            ![s].review = @ \/ type = "review_requested"]
  /\ Take(s)
  /\ UNCHANGED <<transcript, canvas, toClient, tab, turns, clean>>

\* Faulty variant of Echo: the turn goes out under the number of the last one.
EchoSameSeq(s) ==
  /\ Frame(s) /\ Head(toServer[s]).type = "message"
  /\ LET turn == Head(toServer[s]).turn
         n    == session[s].seq
     IN  SendThen(s, Message(n, turn),
                  [session[s] EXCEPT !.pc = "read", !.seq = n + 1, !.turn = turn])
  /\ Take(s)
  /\ UNCHANGED <<transcript, canvas, tab, turns, clean>>

\* message: number it, echo it, and only then go on to persist it.
Echo(s) ==
  /\ Frame(s) /\ Head(toServer[s]).type = "message"
  /\ LET turn == Head(toServer[s]).turn
         n    == session[s].seq + 1
     IN  SendThen(s, Message(n, turn),
                  [session[s] EXCEPT !.pc = "read", !.seq = n, !.turn = turn])
  /\ Take(s)
  /\ UNCHANGED <<transcript, canvas, tab, turns, clean>>

\* persist_message, the read: an error is taken for an empty transcript.
ReadTranscript(s) ==
  /\ session[s].pc = "read"
  /\ \E ok \in BOOLEAN :
       /\ session' = [session EXCEPT
            ![s].pc   = "write",
            ![s].base = FindByKey(session[s].thread, ok)]
       /\ Disturb(s, ~ ok)
  /\ UNCHANGED <<transcript, canvas, net, tab, turns>>

\* Faulty variant of WriteTranscript: it writes the turn alone.
WriteTurnOnly(s) ==
  /\ session[s].pc = "write"
  /\ \E ok \in BOOLEAN :
       /\ Upsert(session[s].thread, <<session[s].turn>>, ok)
       /\ Disturb(s, ~ ok \/ Rivals(s) # {})
  /\ session' = [session EXCEPT
       ![s].pc   = IF session[s].turn.role = "user" THEN "context" ELSE "ready",
       ![s].base = <<>>]
  /\ UNCHANGED <<canvas, net, tab, turns>>

\* persist_message, the upsert of the whole array; an error is only logged.
\* A user's turn is answered, the assistant's is not.
WriteTranscript(s) ==
  /\ session[s].pc = "write"
  /\ \E ok \in BOOLEAN :
       /\ Upsert(session[s].thread, Append(session[s].base, session[s].turn), ok)
       /\ Disturb(s, ~ ok \/ Rivals(s) # {})
  /\ session' = [session EXCEPT
       ![s].pc   = IF session[s].turn.role = "user" THEN "context" ELSE "ready",
       ![s].base = <<>>]
  /\ UNCHANGED <<canvas, net, tab, turns>>

\* generate_reply: context, mode and prompt, from the stores as they are now.
BuildPrompt(s) ==
  /\ session[s].pc = "context"
  /\ session' = [session EXCEPT
       ![s].pc   = "llm",
       ![s].mode = DetermineMode(canvas[session[s].thread], session[s].skip,
                                 session[s].review)]
  /\ UNCHANGED <<transcript, canvas, net, tab, turns, clean>>

AfterCanvas(reply) == IF "chat" \in reply THEN "say" ELSE "ready"

\* The model's stream ends; a failed one, too, has used up the review request.
Answer(s) ==
  /\ session[s].pc = "llm"
  /\ \E reply \in Replies :
       session' = [session EXCEPT
         ![s].pc     = IF "canvas" \in reply THEN "canvas" ELSE AfterCanvas(reply),
         ![s].reply  = IF "canvas" \in reply THEN reply ELSE {},
         ![s].mode   = "Conversation",
         ![s].review = FALSE]
  /\ UNCHANGED <<transcript, canvas, net, tab, turns, clean>>

\* write_canvas_draft: whatever the mode, and whether or not the browser is
\* there; it has no effect if the page has no row or the statement fails.
WriteCanvas(s) ==
  /\ session[s].pc = "canvas"
  /\ \E ok \in BOOLEAN :
       canvas' = [canvas EXCEPT ![session[s].thread] = @ \/ ok]
  /\ session' = [session EXCEPT ![s].pc = AfterCanvas(session[s].reply),
                                 ![s].reply = {}]
  /\ UNCHANGED <<transcript, net, tab, turns, clean>>

\* The chat channel is numbered and sent, then persisted like a user's turn.
Say(s) ==
  /\ session[s].pc = "say"
  /\ LET turn == [session[s].turn EXCEPT !.role = "assistant"]
         n    == session[s].seq + 1
     IN  SendThen(s, Message(n, turn),
                  [session[s] EXCEPT !.pc = "read", !.seq = n, !.turn = turn])
  /\ UNCHANGED <<transcript, canvas, toServer, tab, turns, clean>>

\* Close, end of stream or a heartbeat that cannot be sent.
EndSession(s) ==
  /\ session[s].pc = "ready" /\ ~ Connected(s)
  /\ session'  = [session EXCEPT ![s] = ClosedSession]
  /\ toServer' = [toServer EXCEPT ![s] = <<>>]
  /\ UNCHANGED <<transcript, canvas, toClient, tab, turns, clean>>

\* The API process stops; an echoed turn that is not yet written is gone.
Restart ==
  /\ session' = [s \in Sessions |-> ClosedSession]
  /\ toServer' = [s \in Sessions |-> <<>>]
  /\ toClient' = [s \in Sessions |-> <<>>]
  /\ tab' = [c \in Tabs |-> [tab[c] EXCEPT !.conn = None,
                                           !.missed = @ \/ Overstated(c)]]
  /\ clean' = [t \in Threads |->
       /\ clean[t]
       /\ \A s \in Sessions : session[s].thread = t
                                => session[s].pc \notin {"read", "write"}]
  /\ UNCHANGED <<transcript, canvas, turns>>

SessionStep(s) ==
  \/ Sync(s) \/ Flag(s) \/ Echo(s)
  \/ ReadTranscript(s) \/ WriteTranscript(s)
  \/ BuildPrompt(s) \/ Answer(s) \/ WriteCanvas(s) \/ Say(s)
  \/ EndSession(s)

TabStep(c) ==
  \/ \E s \in Sessions : Connect(c, s)
  \/ Deliver(c) \/ SendTurn(c) \/ PressSkip(c) \/ PressReview(c)
  \/ Disconnect(c)
  \/ \E t \in Threads : SwitchThread(c, t)

Init ==
  /\ transcript = [t \in Threads |-> <<>>]
  /\ canvas = [t \in Threads |-> FALSE]
  /\ session = [s \in Sessions |-> ClosedSession]
  /\ toServer = [s \in Sessions |-> <<>>]
  /\ toClient = [s \in Sessions |-> <<>>]
  /\ \E t \in Threads :
       tab = [c \in Tabs |-> [conn |-> None, thread |-> t, lastSeq |-> 0,
                              shown |-> <<>>, skipped |-> FALSE, missed |-> FALSE]]
  /\ turns = 0
  /\ clean = [t \in Threads |-> TRUE]

Next ==
  \/ \E s \in Sessions : SessionStep(s)
  \/ \E c \in Tabs : TabStep(c)
  \/ Restart

Spec == Init /\ [][Next]_vars

-----------------------------------------------------------------------------
(* Properties *)

\* "Every message carries a monotonic seq assigned by the server when the
\* envelope is persisted" (editor_ws.rs:4): as long as no second task of the
\* thread got between and no statement failed, turn n of the browser is entry
\* n of the transcript, or the one its task is just about to write.
IsPosition(t, n, turn) ==
  \/ n \in 1..Len(transcript[t]) /\ transcript[t][n] = turn
  \/ /\ n = Len(transcript[t]) + 1
     /\ \E s \in Sessions : /\ session[s].thread = t /\ session[s].turn = turn
                            /\ session[s].pc \in {"read", "write"}

SeqIsPosition ==
  /\ \A c \in Tabs : \A i \in DOMAIN tab[c].shown :
       LET m == tab[c].shown[i] IN
       m.seq > 0 /\ clean[m.thread] => IsPosition(m.thread, m.seq, m.turn)
  /\ \A s \in Sessions : \A i \in DOMAIN toClient[s] :
       LET m == toClient[s][i] IN
       m.type = "message" /\ clean[session[s].thread]
         => IsPosition(session[s].thread, m.seq, m.turn)

\* The upsert writes the whole array: as long as nothing came between, a write
\* keeps every turn that was there.
TranscriptOnlyGrows ==
  [][\A t \in Threads : clean'[t] => IsPrefix(transcript[t], transcript'[t])]_vars

\* "on reconnect the client replays missed messages" (editor_ws.rs:6): once the
\* replay is in, the pane shows the transcript, every turn once and in order.
\* Not so for a tab that lost its socket between the hello that raised lastSeq
\* and the turns it had not received, or that was given another thread.
FromServer(list) == {i \in DOMAIN list : list[i].seq > 0}

CaughtUp ==
  \A c \in Tabs :
    LET s     == tab[c].conn
        shown == tab[c].shown
        turn  == transcript[tab[c].thread]
    IN
    /\ s # None /\ ~ tab[c].missed /\ clean[tab[c].thread] /\ Rivals(s) = {}
    /\ session[s].pc = "ready" /\ session[s].synced
    /\ toClient[s] = <<>>
    => /\ \A i \in FromServer(shown) :
            shown[i].seq \in DOMAIN turn /\ turn[shown[i].seq] = shown[i].turn
       /\ \A n \in DOMAIN turn : \E i \in FromServer(shown) : shown[i].seq = n
       /\ \A i, j \in FromServer(shown) : i < j => shown[i].seq < shown[j].seq

=============================================================================
