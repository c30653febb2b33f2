------------------------------ MODULE LiveEditor ------------------------------
(***************************************************************************)
(* The page /editor in one browser tab (apps/web/app/(dashboard)/editor),  *)
(* the event stream that fills its draft (use-editor-stream.ts,            *)
(* handler/editor.rs) and what the clients of the three vendors make of    *)
(* the frames they read (crates/llm).                                      *)
(*                                                                         *)
(* A document is two fragments, the text up to somewhere in the middle and *)
(* the rest with the closing tag: enough to be cut off.  A page has one    *)
(* language.  The API appears as what it answers to GET, POST and PATCH.   *)
(***************************************************************************)
EXTENDS Naturals, FiniteSets, SequencesExt

CONSTANTS Pages,      \* the rows a page can be stored in
          Vendors,    \* the vendors the installation may use
          Comments,   \* the comments the author may write
          Blocks,     \* the indexes of blocks of the draft
          MaxDocs,    \* bound: documents the model writes
          MaxSaves,   \* bound: saves the author sends
          MaxMoves,   \* bound: changes of the address by the author
          None

VARIABLES
  url,       \* page_id of the address bar, or None
  saved,     \* savedPageId: the page a save updates
  draft,     \* the draft buffer, a sequence of fragments
  loads,     \* GET requests of the load effect, cancelled ones included
  stream,    \* the open event stream
  comments, lastBlock,   \* commentsByBlock and lastCommentBlockRef
  dialog,    \* "closed", "open" or "saving"
  saves,     \* POST and PATCH requests, until the address names their page
  stored,    \* content_markdown of the pages on the server
  asked,     \* the comments the API was sent
  docs, sends, moves   \* counters of the bounds

vars == <<url, saved, draft, loads, stream, comments, lastBlock, dialog, saves,
          stored, asked, docs, sends, moves>>

Half(d, tag) == [doc |-> d, tag |-> tag]
Document(d) == <<Half(d, "open"), Half(d, "close")>>
Chat == <<Half(0, "chat")>>

\* What a reply is made of: a chat part, a canvas, both, or words without tags.
Replies(d) ==
  {Chat, <<Half(0, "plain")>>, Document(d), Chat \o Document(d), Document(d) \o Chat}

Closed == [vendor |-> None, rest |-> <<>>, buffer |-> <<>>, open |-> FALSE]

Init ==
  /\ stored \in {f \in [Pages -> {<<>>} \union {Document(0)}] :
                   \E p \in Pages : f[p] = <<>>}
  /\ url = None /\ saved = None /\ draft = <<>> /\ loads = {}
  /\ stream = Closed
  /\ comments = [c \in Comments |-> [block |-> None, status |-> "none"]]
  /\ lastBlock = None /\ dialog = "closed" /\ saves = {} /\ asked = {}
  /\ docs = 0 /\ sends = 0 /\ moves = 0

-----------------------------------------------------------------------------
\* What a vendor's client makes of a frame that carries no text: "skip" reads
\* on, "end" ends the stream, "error" ends it with an error.  OpenAI's is what
\* the library it maps hands over.
OpenAiItems(frame) ==
  CASE frame = "stop" -> {"end"}
    [] frame = "eof" -> {"end", "error"}
    [] frame \in {"failure", "garbage", "broken"} -> {"error"}
    [] frame = "other" -> {"skip"}

AnthropicItems(frame) ==
  CASE frame \in {"stop", "eof"} -> {"end"}
    [] frame = "broken" -> {"error"}
    [] frame \in {"failure", "garbage", "other"} -> {"skip"}

OllamaItems(frame) ==
  CASE frame \in {"stop", "eof"} -> {"end"}
    [] frame \in {"failure", "garbage", "broken"} -> {"error"}
    [] frame = "other" -> {"skip"}

Items(vendor, frame) ==
  CASE vendor = "openai" -> OpenAiItems(frame)
    [] vendor = "anthropic" -> AnthropicItems(frame)
    [] vendor = "ollama" -> OllamaItems(frame)

\* extractTag: the text between an opening tag and the next closing one, and
\* nothing when either is missing.
TagOpen(buffer) == {i \in DOMAIN buffer : buffer[i].tag = "open"}
SplitOpen(buffer) ==
  IF TagOpen(buffer) = {} THEN <<>>
  ELSE SubSeq(buffer, CHOOSE i \in TagOpen(buffer) : TRUE, Len(buffer))
Canvas(buffer) ==
  LET ends == {j \in DOMAIN buffer : buffer[j].tag = "close"}
  IN  IF TagOpen(buffer) = {} \/ ends = {} THEN <<>>
      ELSE SubSeq(buffer, CHOOSE i \in TagOpen(buffer) : TRUE,
                          CHOOSE j \in ends : TRUE)

\* The handler: text as "delta" events, and "done" in the end, after an error
\* as well.
Sent(item) == IF item = "error" THEN <<"error", "done">> ELSE <<"done">>

\* collectStream: whichever of "error" and "done" comes first decides.
Collected(events) == IF Head(events) = "error" THEN "thrown" ELSE "buffer"

\* runStream: the request leaves with the state of the page at the click.
Start ==
  /\ docs < MaxDocs
  /\ docs' = docs + 1
  /\ \E r \in Replies(docs + 1) :
        stream' = [vendor |-> None, rest |-> r, buffer |-> <<>>, open |-> TRUE]

\* The pane offers one or the other, and neither while a stream is open.
GenerateDraft == draft = <<>> /\ ~ stream.open /\ Start
IterateDraft  == draft # <<>> /\ ~ stream.open /\ Start

\* submitGenerate and submitRefine.
Prompt ==
  /\ GenerateDraft \/ IterateDraft
  /\ UNCHANGED <<url, saved, draft, loads, comments, lastBlock, dialog, saves,
                 stored, asked, sends, moves>>

\* handleBlockComment, from a composer that is disabled while a stream is open
\* (CommentablePreview, submitting): the comment is pending before
\* submitBlockComment looks at draft and streaming itself.
NewComment(c, b) ==
  /\ comments[c].status = "none"
  /\ comments' = [comments EXCEPT ![c] = [block |-> b, status |-> "pending"]]
  /\ lastBlock' = b
  /\ draft # <<>>
  /\ IF stream.open THEN UNCHANGED <<stream, docs, asked>>
                    ELSE Start /\ asked' = asked \union {c}
  /\ UNCHANGED <<url, saved, draft, loads, dialog, saves, stored, sends, moves>>

CommentAnytime == \E c \in Comments, b \in Blocks : NewComment(c, b)
Comment == \E c \in Comments, b \in Blocks : ~ stream.open /\ NewComment(c, b)

\* handleResolveComment.
Resolve(c) ==
  /\ comments[c].status \in {"pending", "replied"}
  /\ comments' = [comments EXCEPT ![c].status = "resolved"]
  /\ UNCHANGED <<url, saved, draft, loads, stream, lastBlock, dialog, saves,
                 stored, asked, docs, sends, moves>>

\* streaming goes from true to false: the effect of page.tsx flips what is
\* pending on the block commented last, whether the stream ended well or not.
StreamOver ==
  /\ stream' = Closed
  /\ lastBlock' = None
  /\ comments' = [c \in Comments |->
       IF comments[c].block = lastBlock /\ comments[c].status = "pending"
       THEN [comments[c] EXCEPT !.status = "replied"] ELSE comments[c]]

\* The handler has the client of some vendor open the reply.
OpenReply ==
  /\ stream.open /\ stream.vendor = None
  /\ \E v \in Vendors : stream' = [stream EXCEPT !.vendor = v]
  /\ UNCHANGED <<url, saved, draft, loads, comments, lastBlock, dialog, saves,
                 stored, asked, docs, sends, moves>>

\* The request is refused, or the vendor does not answer: apiStream throws.
Refused ==
  /\ stream.open /\ stream.vendor = None
  /\ StreamOver
  /\ UNCHANGED <<url, saved, draft, loads, dialog, saves, stored, asked, docs,
                 sends, moves>>

\* The next text of the reply: delta events to the buffer of collectStream.
\* Frames of text are well formed: Anthropic's client would skip one that it
\* cannot parse, and its text with it.
Text ==
  /\ stream.open /\ stream.vendor # None /\ stream.rest # <<>>
  /\ stream' = [stream EXCEPT !.rest = Tail(@), !.buffer = Append(@, Head(stream.rest))]
  /\ UNCHANGED <<url, saved, draft, loads, comments, lastBlock, dialog, saves,
                 stored, asked, docs, sends, moves>>

\* A frame without text: the end of the reply, which a limit of tokens may put
\* anywhere, or trouble.  After a "done" event the canvas, if there is a whole
\* one, becomes the draft; after an "error" event nothing does.
Frame(frame) ==
  /\ stream.open /\ stream.vendor # None
  /\ \E item \in Items(stream.vendor, frame) :
       \/ /\ item = "skip"
          /\ UNCHANGED <<stream, draft, comments, lastBlock>>
       \/ /\ item # "skip"
          /\ StreamOver
          /\ LET canvas == Canvas(stream.buffer)
             IN  draft' = IF Collected(Sent(item)) = "buffer" /\ canvas # <<>>
                            THEN canvas ELSE draft
  /\ UNCHANGED <<url, saved, loads, dialog, saves, stored, asked, docs, sends, moves>>

Frames == {"stop", "eof", "broken", "failure", "garbage", "other"}
-----------------------------------------------------------------------------
\* The address changes, its page or the language it names: the render that sees
\* it takes the page over as the one to save to, the effect of the old address
\* is cleaned up, and the new one asks for the page.  The draft stays what it was.
Cancelled == {[l EXCEPT !.cancelled = TRUE] : l \in loads}
Asked(p) == IF p = None THEN {}
            ELSE {[page |-> p, body |-> <<>>, answered |-> FALSE, cancelled |-> FALSE]}
GoTo(p) ==
  /\ url' = p
  /\ saved' = p
  /\ loads' = Cancelled \union Asked(p)

\* A navigation replaces one that has not come about.
UnderWay == {s \in saves : s.stage # "seen"}

\* Back, forward, or a link to /editor.
Move(p) ==
  /\ p # url /\ moves < MaxMoves
  /\ p # None => stored[p] # <<>>
  /\ GoTo(p)
  /\ saves' = UnderWay
  /\ moves' = moves + 1
  /\ UNCHANGED <<draft, stream, comments, lastBlock, dialog, stored, asked, docs, sends>>

\* GET /pages/:id reads the page.
LoadRead(l) ==
  /\ l \in loads /\ ~ l.answered
  /\ loads' = (loads \ {l}) \union {[l EXCEPT !.answered = TRUE, !.body = stored[l.page]]}
  /\ UNCHANGED <<url, saved, draft, stream, comments, lastBlock, dialog, saves, stored,
                 asked, docs, sends, moves>>

\* Its answer arrives at the effect, which looks at cancelled after the await.
LoadAny(l) ==
  /\ l \in loads /\ l.answered
  /\ loads' = loads \ {l}
  /\ draft' = l.body
  /\ UNCHANGED <<url, saved, stream, comments, lastBlock, dialog, saves, stored,
                 asked, docs, sends, moves>>
LoadSeen(l) ==
  /\ l \in loads /\ l.answered
  /\ loads' = loads \ {l}
  /\ draft' = IF l.cancelled THEN draft ELSE l.body
  /\ UNCHANGED <<url, saved, stream, comments, lastBlock, dialog, saves, stored,
                 asked, docs, sends, moves>>

\* The page cannot be read: the effect keeps silent and the draft stays.
LoadFails(l) ==
  /\ l \in loads
  /\ loads' = loads \ {l}
  /\ UNCHANGED <<url, saved, draft, stream, comments, lastBlock, dialog, saves, stored,
                 asked, docs, sends, moves>>
-----------------------------------------------------------------------------
\* "Salvar" is offered for a draft while no stream is open.
OpenDialog ==
  /\ dialog = "closed" /\ draft # <<>> /\ ~ stream.open
  /\ dialog' = "open"
  /\ UNCHANGED <<url, saved, draft, loads, stream, comments, lastBlock, saves, stored,
                 asked, docs, sends, moves>>

\* Escape and the backdrop close the dialog, also while it is saving.
CloseDialog ==
  /\ dialog # "closed"
  /\ dialog' = "closed"
  /\ UNCHANGED <<url, saved, draft, loads, stream, comments, lastBlock, saves, stored,
                 asked, docs, sends, moves>>

\* submit: PATCH to the page known, POST when none is.
Submit ==
  /\ dialog = "open" /\ draft # <<>> /\ sends < MaxSaves
  /\ dialog' = "saving"
  /\ sends' = sends + 1
  /\ saves' = saves \union {[n |-> sends, page |-> saved, body |-> draft, stage |-> "sent"]}
  /\ UNCHANGED <<url, saved, draft, loads, stream, comments, lastBlock, stored, asked,
                 docs, moves>>

\* The API stores the body in the page, or in a new one.
Store(s) ==
  /\ s \in saves /\ s.stage = "sent"
  /\ \E p \in Pages :
       /\ IF s.page = None THEN stored[p] = <<>> ELSE p = s.page
       /\ stored' = [stored EXCEPT ![p] = s.body]
       /\ saves' = (saves \ {s}) \union {[s EXCEPT !.page = p, !.stage = "stored"]}
  /\ UNCHANGED <<url, saved, draft, loads, stream, comments, lastBlock, dialog, asked,
                 docs, sends, moves>>

\* handleSaved: the page becomes the one a save updates, the router is asked to
\* name it in the address, and the dialog closes, even one opened since.
SaveSeen(s) ==
  /\ s \in saves /\ s.stage = "stored"
  /\ saves' = (UnderWay \ {s}) \union {[s EXCEPT !.stage = "seen"]}
  /\ saved' = s.page
  /\ dialog' = "closed"
  /\ UNCHANGED <<url, draft, loads, stream, comments, lastBlock, stored, asked, docs,
                 sends, moves>>

\* The router replaces the address, with the page and its language; it is no
\* change when the address named both already.
Replace(s) ==
  /\ s \in saves /\ s.stage = "seen"
  /\ saves' = saves \ {s}
  /\ \/ GoTo(s.page)
     \/ s.page = url /\ UNCHANGED <<url, saved, loads>>
  /\ UNCHANGED <<draft, stream, comments, lastBlock, dialog, stored, asked, docs,
                 sends, moves>>

\* Refused, or the answer is lost: the dialog shows an error and may be sent again.
SaveFails(s) ==
  /\ s \in UnderWay
  /\ saves' = saves \ {s}
  /\ dialog' = IF dialog = "saving" THEN "open" ELSE dialog
  /\ UNCHANGED <<url, saved, draft, loads, stream, comments, lastBlock, stored, asked,
                 docs, sends, moves>>
-----------------------------------------------------------------------------
Next ==
  \/ Prompt \/ Comment \/ OpenReply \/ Refused \/ Text \/ OpenDialog \/ CloseDialog \/ Submit
  \/ \E c \in Comments : Resolve(c)
  \/ \E f \in Frames : Frame(f)
  \/ \E p \in Pages \union {None} : Move(p)
  \/ \E l \in loads : LoadRead(l) \/ LoadSeen(l) \/ LoadFails(l)
  \/ \E s \in saves : Store(s) \/ SaveSeen(s) \/ Replace(s) \/ SaveFails(s)

Spec == Init /\ [][Next]_vars
-----------------------------------------------------------------------------
\* Whatever ends a stream (a limit of tokens, a vendor's error, a connection
\* that breaks) and whoever reads it: the draft, every save under way and
\* every page hold no document or a whole one, never one cut off in its middle.
Whole(body) == body = <<>> \/ \E d \in 0..docs : body = Document(d)

DraftWhole ==
  /\ Whole(draft)
  /\ \A p \in Pages : Whole(stored[p])
  /\ \A s \in saves : Whole(s.body)

\* "When the AI responds to a comment turn, mark pending comments on the
\* affected block as replied" (page.tsx:104): a comment marked replied was sent
\* to the API, and one shown as waiting has its turn in the open stream.
CommentsFollowTheirTurn ==
  \A c \in Comments :
    /\ comments[c].status = "replied" => c \in asked
    /\ comments[c].status = "pending" => stream.open /\ c \in asked

\* However the answers of GET requests are delayed and reordered: one that
\* reaches the draft is the page the address bar names at that moment.
LoadedIsOnScreen ==
  [][draft' # draft /\ stream' = stream =>
       \E l \in loads \ loads' : l.page = url /\ draft' = l.body]_vars
=============================================================================
