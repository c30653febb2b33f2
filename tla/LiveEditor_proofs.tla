-------------------------- MODULE LiveEditor_proofs --------------------------
(* What holds of the page /editor for any number of pages, comments, saves   *)
(* and documents, whichever vendor writes them.                              *)
EXTENDS LiveEditor, SequenceTheorems, TLAPS

-----------------------------------------------------------------------------
(* Replies *)

Fragment == [doc : Nat, tag : {"open", "close", "chat", "plain"}]

\* A reply has no canvas, or one, whole and in one place.
CanvasAt(r, d, k) ==
  /\ k \in Nat \ {0} /\ k + 1 <= Len(r)
  /\ r[k] = Half(d, "open") /\ r[k + 1] = Half(d, "close")
  /\ \A i \in 1..Len(r) : /\ r[i].tag = "open" => i = k
                          /\ r[i].tag = "close" => i = k + 1

NoCanvas(r) == \A i \in 1..Len(r) : r[i].tag \notin {"open", "close"}

LEMMA Pieces ==
  ASSUME NEW d \in Nat
  PROVE  /\ Chat \in Seq(Fragment) /\ Len(Chat) = 1 /\ Chat[1] = Half(0, "chat")
         /\ Document(d) \in Seq(Fragment) /\ Len(Document(d)) = 2
         /\ Document(d)[1] = Half(d, "open") /\ Document(d)[2] = Half(d, "close")
<1>1. ASSUME NEW x \in Nat, NEW t \in {"open", "close", "chat", "plain"}
      PROVE  Half(x, t) \in Fragment
  BY DEF Half, Fragment
<1>2. Half(0, "chat") \in Fragment /\ Half(d, "open") \in Fragment /\ Half(d, "close") \in Fragment
  BY <1>1
<1> QED  BY <1>2 DEF Chat, Document

LEMMA ReplyShape ==
  ASSUME NEW d \in Nat, NEW r \in Replies(d)
  PROVE  r \in Seq(Fragment) /\ (NoCanvas(r) \/ \E k \in {1, 2} : CanvasAt(r, d, k))
<1> DEFINE doc == Document(d)
<1>0. /\ Half(0, "plain") \in Fragment /\ Half(0, "plain").tag = "plain"
      /\ Half(0, "chat").tag = "chat"
      /\ Half(d, "open").tag = "open" /\ Half(d, "close").tag = "close"
  BY DEF Half, Fragment
<1>a. /\ Chat \in Seq(Fragment) /\ Len(Chat) = 1 /\ Chat[1] = Half(0, "chat")
      /\ doc \in Seq(Fragment) /\ Len(doc) = 2
      /\ doc[1] = Half(d, "open") /\ doc[2] = Half(d, "close")
  BY Pieces
<1> HIDE DEF doc
<1>1. CASE r = Chat
  BY <1>0, <1>1, <1>a DEF NoCanvas
<1>2. CASE r = <<Half(0, "plain")>>
  <2>1. Half(0, "plain") \in Fragment
    BY <1>0
  <2>2. r \in Seq(Fragment) /\ Len(r) = 1 /\ r[1] = Half(0, "plain")
    BY <1>2, <2>1
  <2> QED  BY <1>0, <2>2 DEF NoCanvas
<1>3. CASE r = doc
  <2>1. CanvasAt(r, d, 1)
    BY <1>0, <1>3, <1>a DEF CanvasAt
  <2> QED  BY <1>3, <1>a, <2>1
<1>4. CASE r = Chat \o doc
  <2>0. /\ Chat \o doc \in Seq(Fragment) /\ Len(Chat \o doc) = Len(Chat) + Len(doc)
        /\ \A i \in 1..(Len(Chat) + Len(doc)) :
             (Chat \o doc)[i] = IF i <= Len(Chat) THEN Chat[i] ELSE doc[i - Len(Chat)]
    BY <1>a, ConcatProperties, Zenon
  <2>1. r \in Seq(Fragment) /\ Len(r) = 3
        /\ \A i \in 1..3 : r[i] = IF i <= 1 THEN Chat[i] ELSE doc[i - 1]
    BY <1>4, <1>a, <2>0
  <2>2. r[1] = Half(0, "chat") /\ r[2] = Half(d, "open") /\ r[3] = Half(d, "close")
    BY <1>a, <2>1
  <2>3. CanvasAt(r, d, 2)
    BY <1>0, <2>1, <2>2 DEF CanvasAt
  <2> QED  BY <2>1, <2>3
<1>5. CASE r = doc \o Chat
  <2>0. /\ doc \o Chat \in Seq(Fragment) /\ Len(doc \o Chat) = Len(doc) + Len(Chat)
        /\ \A i \in 1..(Len(doc) + Len(Chat)) :
             (doc \o Chat)[i] = IF i <= Len(doc) THEN doc[i] ELSE Chat[i - Len(doc)]
    BY <1>a, ConcatProperties, Zenon
  <2>1. r \in Seq(Fragment) /\ Len(r) = 3
        /\ \A i \in 1..3 : r[i] = IF i <= 2 THEN doc[i] ELSE Chat[i - 2]
    BY <1>5, <1>a, <2>0
  <2>2. r[1] = Half(d, "open") /\ r[2] = Half(d, "close") /\ r[3] = Half(0, "chat")
    BY <1>a, <2>1
  <2>3. CanvasAt(r, d, 1)
    BY <1>0, <2>1, <2>2 DEF CanvasAt
  <2> QED  BY <2>1, <2>3
<1> QED  BY <1>1, <1>2, <1>3, <1>4, <1>5 DEF Replies, doc

\* The buffer and what is left of the reply are the reply.
Cut(buffer, rest, r) ==
  /\ buffer \in Seq(Fragment) /\ rest \in Seq(Fragment)
  /\ Len(buffer) + Len(rest) = Len(r)
  /\ \A i \in 1..Len(buffer) : buffer[i] = r[i]
  /\ \A i \in 1..Len(rest) : rest[i] = r[Len(buffer) + i]

\* Wherever a reply is cut, extractTag finds no canvas or the whole one.
LEMMA CanvasIsWhole ==
  ASSUME NEW d \in Nat, NEW r \in Replies(d), NEW buffer, NEW rest, Cut(buffer, rest, r)
  PROVE  Canvas(buffer) \in {<<>>, Document(d)}
<1> DEFINE starts == TagOpen(buffer)
           ends == {j \in DOMAIN buffer : buffer[j].tag = "close"}
<1>0. /\ DOMAIN buffer = 1..Len(buffer) /\ Len(buffer) \in Nat /\ Len(rest) \in Nat
      /\ r \in Seq(Fragment) /\ Len(r) \in Nat /\ Len(buffer) <= Len(r)
      /\ \A i \in 1..Len(buffer) : buffer[i] = r[i]
  BY ReplyShape DEF Cut
<1>1. CASE starts = {} \/ ends = {}
  BY <1>1 DEF Canvas
<1>2. CASE starts # {} /\ ends # {}
  <2>1. PICK k \in {1, 2} : CanvasAt(r, d, k)
    BY <1>0, <1>2, ReplyShape DEF NoCanvas, TagOpen
  <2>2. starts = {k} /\ ends = {k + 1}
    BY <1>0, <1>2, <2>1 DEF CanvasAt, TagOpen
  <2>3. k + 1 <= Len(buffer) /\ buffer[k] = Half(d, "open") /\ buffer[k + 1] = Half(d, "close")
    BY <1>0, <2>1, <2>2 DEF CanvasAt
  <2>4. Canvas(buffer) = SubSeq(buffer, k, k + 1)
    <3>1. (CHOOSE i \in starts : TRUE) = k /\ (CHOOSE j \in ends : TRUE) = k + 1
      BY <2>2
    <3>2. Canvas(buffer) = SubSeq(buffer, CHOOSE i \in starts : TRUE, CHOOSE j \in ends : TRUE)
      BY <1>2 DEF Canvas
    <3> HIDE DEF starts, ends
    <3> QED  BY <3>1, <3>2
  <2>5. SubSeq(buffer, k, k + 1) = Document(d)
    <3> DEFINE s == SubSeq(buffer, k, k + 1)
    <3>1. \A i \in k..(k + 1) : buffer[i] \in Fragment
      BY <1>0, <2>3 DEF Cut
    <3>2. s \in Seq(Fragment) /\ Len(s) = 2 /\ s[1] = buffer[k] /\ s[2] = buffer[k + 1]
      BY <3>1, SubSeqProperties
    <3> HIDE DEF s
    <3>3. \A i \in 1..2 : s[i] = Document(d)[i]
      BY <2>3, <3>2, Pieces
    <3> QED  BY <3>2, <3>3, Pieces, SeqEqual DEF s
  <2> QED  BY <2>4, <2>5
<1> QED  BY <1>1, <1>2

\* The next text moves the cut one fragment on.
LEMMA CutMovesOn ==
  ASSUME NEW r \in Seq(Fragment), NEW buffer, NEW rest, Cut(buffer, rest, r), rest # <<>>
  PROVE  Cut(Append(buffer, Head(rest)), Tail(rest), r)
<1> DEFINE b == Append(buffer, Head(rest))
           t == Tail(rest)
<1>1. /\ buffer \in Seq(Fragment) /\ rest \in Seq(Fragment) /\ Len(buffer) \in Nat
      /\ Len(rest) \in Nat \ {0} /\ Head(rest) = rest[1] /\ rest[1] \in Fragment
  BY DEF Cut
<1>2. /\ b \in Seq(Fragment) /\ Len(b) = Len(buffer) + 1
      /\ \A i \in 1..Len(buffer) : b[i] = buffer[i]
      /\ b[Len(buffer) + 1] = rest[1]
  BY <1>1
<1>3. /\ t \in Seq(Fragment) /\ Len(t) = Len(rest) - 1
      /\ \A i \in 1..Len(t) : t[i] = rest[i + 1]
  BY <1>1
<1> HIDE DEF b, t
<1>4. ASSUME NEW i \in 1..Len(b)  PROVE b[i] = r[i]
  <2>1. /\ \A k \in 1..Len(buffer) : buffer[k] = r[k]
        /\ \A k \in 1..Len(rest) : rest[k] = r[Len(buffer) + k]
    BY DEF Cut
  <2>2. rest[1] = r[Len(buffer) + 1]
    BY <1>1, <2>1
  <2>3. i \in 1..Len(buffer) \/ i = Len(buffer) + 1
    BY <1>1, <1>2
  <2> QED  BY <1>2, <2>1, <2>2, <2>3
<1>5. ASSUME NEW i \in 1..Len(t)  PROVE t[i] = r[Len(b) + i]
  <2>1. i + 1 \in 1..Len(rest) /\ Len(b) + i = Len(buffer) + (i + 1)
    BY <1>1, <1>2, <1>3
  <2> QED  BY <1>3, <2>1 DEF Cut
<1> QED  BY <1>1, <1>2, <1>3, <1>4, <1>5 DEF Cut, b, t

LEMMA CutAtTheStart ==
  ASSUME NEW r \in Seq(Fragment)
  PROVE  Cut(<<>>, r, r)
BY DEF Cut

-----------------------------------------------------------------------------
(* The inductive invariant *)

Bodies == {<<>>} \union {Document(d) : d \in Nat}

Load == [page : Pages, body : Bodies, answered : BOOLEAN, cancelled : BOOLEAN]
SaveRequest == [n : Nat, page : Pages \union {None}, body : Bodies,
                stage : {"sent", "stored", "seen"}]
StreamState == [vendor : Vendors \union {None}, rest : Seq(Fragment),
                buffer : Seq(Fragment), open : BOOLEAN]
CommentState == [block : Blocks \union {None},
                 status : {"none", "pending", "replied", "resolved"}]

Typed == /\ docs \in Nat /\ sends \in Nat
         /\ saved \in Pages \union {None}
         /\ stored \in [Pages -> Bodies]
         /\ draft \in Bodies
         /\ loads \subseteq Load /\ saves \subseteq SaveRequest
         /\ stream \in StreamState
         /\ comments \in [Comments -> CommentState]

\* The open stream carries one of the replies to the last prompt.
StreamOK ==
  stream.open => \E r \in Replies(docs) : Cut(stream.buffer, stream.rest, r)

\* What is loading was stored.
LoadsWhole == \A l \in loads : Whole(l.body)

\* Only the page on screen is still waited for.
LoadsOnScreen == \A l \in loads : ~ l.cancelled => l.page = url

\* What waits for an answer is on the block commented last.
PendingOnLastBlock ==
  \A c \in Comments : comments[c].status = "pending" => comments[c].block = lastBlock

EditorInv == /\ Typed /\ StreamOK /\ DraftWhole /\ LoadsWhole /\ LoadsOnScreen
             /\ PendingOnLastBlock /\ CommentsFollowTheirTurn

-----------------------------------------------------------------------------
(* Prompts and comments *)

LEMMA WholeStays ==
  ASSUME docs \in Nat, docs' = docs \/ docs' = docs + 1, NEW body, Whole(body)
  PROVE  body = <<>> \/ \E d \in 0..docs' : body = Document(d)
BY DEF Whole

\* The buffers are left alone, and no more than the count of documents grows.
LEMMA BodiesStay ==
  ASSUME EditorInv, docs' = docs \/ docs' = docs + 1,
         UNCHANGED <<draft, stored, saves, loads>>
  PROVE  DraftWhole' /\ LoadsWhole' /\ docs' \in Nat
<1>1. docs \in Nat
  BY DEF EditorInv, Typed
<1>2. ASSUME NEW body, Whole(body)  PROVE body = <<>> \/ \E d \in 0..docs' : body = Document(d)
  BY <1>1, <1>2, WholeStays
<1> QED  BY <1>1, <1>2 DEF EditorInv, DraftWhole, LoadsWhole, Whole

LEMMA StartedStream ==
  ASSUME EditorInv, Start
  PROVE  /\ stream' \in StreamState /\ StreamOK' /\ stream'.open /\ docs' = docs + 1
         /\ docs' \in Nat
<1>1. docs \in Nat /\ docs + 1 \in Nat
  BY DEF EditorInv, Typed
<1>2. PICK r \in Replies(docs + 1) :
        stream' = [vendor |-> None, rest |-> r, buffer |-> <<>>, open |-> TRUE]
  BY DEF Start
<1>3. r \in Seq(Fragment) /\ Cut(<<>>, r, r)
  BY <1>1, ReplyShape, CutAtTheStart
<1>4. <<>> \in Seq(Fragment)
  OBVIOUS
<1>5. stream' \in StreamState
  BY <1>2, <1>3, <1>4 DEF StreamState
<1>6. StreamOK' /\ docs' = docs + 1
  BY <1>2, <1>3 DEF StreamOK, Start
<1> QED  BY <1>1, <1>2, <1>5, <1>6

\* No comment waits while no stream is open.
LEMMA NothingPending ==
  ASSUME EditorInv, ~ stream.open, NEW c \in Comments
  PROVE  comments[c].status # "pending"
BY DEF EditorInv, CommentsFollowTheirTurn

LEMMA PromptStep ==
  ASSUME EditorInv, Prompt
  PROVE  EditorInv'
<1>1. /\ Start /\ ~ stream.open
      /\ UNCHANGED <<url, saved, draft, loads, comments, lastBlock, dialog, saves,
                     stored, asked, sends, moves>>
  BY DEF Prompt, GenerateDraft, IterateDraft
<1>2. /\ stream' \in StreamState /\ StreamOK' /\ stream'.open /\ docs' = docs + 1
      /\ docs' \in Nat
  BY <1>1, StartedStream
<1>3. DraftWhole' /\ LoadsWhole'
  BY <1>1, <1>2, BodiesStay
<1>4. Typed'
  BY <1>1, <1>2 DEF EditorInv, Typed
<1> QED  BY <1>1, <1>2, <1>3, <1>4 DEF EditorInv, LoadsOnScreen, PendingOnLastBlock,
            CommentsFollowTheirTurn

LEMMA CommentStep ==
  ASSUME EditorInv, NEW c \in Comments, NEW b \in Blocks, ~ stream.open, NewComment(c, b)
  PROVE  EditorInv'
<1>1. /\ Start /\ asked' = asked \union {c}
      /\ comments' = [comments EXCEPT ![c] = [block |-> b, status |-> "pending"]]
      /\ lastBlock' = b
      /\ UNCHANGED <<url, saved, draft, loads, dialog, saves, stored, sends, moves>>
  BY DEF NewComment
<1>2. /\ stream' \in StreamState /\ StreamOK' /\ stream'.open /\ docs' = docs + 1
      /\ docs' \in Nat
  BY <1>1, StartedStream
<1>3. DraftWhole' /\ LoadsWhole'
  BY <1>1, <1>2, BodiesStay
<1>4. comments' \in [Comments -> CommentState]
      /\ \A e \in Comments \ {c} : comments'[e] = comments[e] /\ comments[e].status # "pending"
      /\ comments'[c] = [block |-> b, status |-> "pending"]
  BY <1>1, NothingPending DEF EditorInv, Typed, CommentState
<1>5. Typed'
  BY <1>1, <1>2, <1>4 DEF EditorInv, Typed
<1>6. PendingOnLastBlock' /\ CommentsFollowTheirTurn'
  BY <1>1, <1>2, <1>4 DEF EditorInv, PendingOnLastBlock, CommentsFollowTheirTurn
<1> QED  BY <1>1, <1>2, <1>3, <1>5, <1>6 DEF EditorInv, LoadsOnScreen

LEMMA ResolveStep ==
  ASSUME EditorInv, NEW c \in Comments, Resolve(c)
  PROVE  EditorInv'
<1>1. /\ comments' = [comments EXCEPT ![c].status = "resolved"]
      /\ UNCHANGED <<url, saved, draft, loads, stream, lastBlock, dialog, saves,
                     stored, asked, docs, sends, moves>>
  BY DEF Resolve
<1>2. /\ comments' \in [Comments -> CommentState]
      /\ \A e \in Comments \ {c} : comments'[e] = comments[e]
      /\ comments'[c].status = "resolved"
  BY <1>1 DEF EditorInv, Typed, CommentState
<1>3. DraftWhole' /\ LoadsWhole'
  BY <1>1, BodiesStay
<1>4. Typed'
  BY <1>1, <1>2 DEF EditorInv, Typed
<1> QED  BY <1>1, <1>2, <1>3, <1>4 DEF EditorInv, StreamOK, LoadsOnScreen, PendingOnLastBlock,
            CommentsFollowTheirTurn

-----------------------------------------------------------------------------
(* The stream *)

\* The end of a stream answers what was waiting, all of it on one block.
LEMMA StreamOverOK ==
  ASSUME EditorInv, stream.open, StreamOver, UNCHANGED asked
  PROVE  /\ stream' \in StreamState /\ StreamOK' /\ stream' # stream
         /\ comments' \in [Comments -> CommentState]
         /\ PendingOnLastBlock' /\ CommentsFollowTheirTurn'
<1>1. stream' \in StreamState /\ ~ stream'.open
  BY EmptySeq DEF StreamOver, Closed, StreamState
<1>2. ASSUME NEW c \in Comments
      PROVE  /\ comments'[c] \in CommentState
             /\ IF comments[c].status = "pending" THEN comments'[c].status = "replied"
                                                  ELSE comments'[c] = comments[c]
  <2>1. comments[c] \in CommentState
    BY DEF EditorInv, Typed
  <2>2. comments[c].status = "pending" => comments[c].block = lastBlock
    BY DEF EditorInv, PendingOnLastBlock
  <2> QED  BY <2>1, <2>2 DEF StreamOver, CommentState
<1>3. comments' \in [Comments -> CommentState]
  BY <1>2 DEF StreamOver
<1>4. \A c \in Comments : comments'[c].status # "pending"
  BY <1>2
<1> QED  BY <1>1, <1>2, <1>3, <1>4 DEF EditorInv, StreamOK, PendingOnLastBlock,
            CommentsFollowTheirTurn

LEMMA OpenReplyStep ==
  ASSUME EditorInv, OpenReply
  PROVE  EditorInv'
<1>1. PICK v \in Vendors : stream' = [stream EXCEPT !.vendor = v]
  BY DEF OpenReply
<1>2. UNCHANGED <<url, saved, draft, loads, comments, lastBlock, dialog, saves,
                  stored, asked, docs, sends, moves>>
  BY DEF OpenReply
<1>3. /\ stream' \in StreamState /\ stream'.buffer = stream.buffer
      /\ stream'.rest = stream.rest /\ stream'.open = stream.open
  BY <1>1 DEF EditorInv, Typed, StreamState
<1>4. DraftWhole' /\ LoadsWhole'
  BY <1>2, BodiesStay
<1>5. Typed'
  BY <1>2, <1>3 DEF EditorInv, Typed
<1>6. StreamOK'
  BY <1>2, <1>3 DEF EditorInv, StreamOK
<1> QED  BY <1>2, <1>3, <1>4, <1>5, <1>6 DEF EditorInv, LoadsOnScreen, PendingOnLastBlock,
            CommentsFollowTheirTurn

LEMMA TextStep ==
  ASSUME EditorInv, Text
  PROVE  EditorInv'
<1>1. /\ stream' = [stream EXCEPT !.rest = Tail(@), !.buffer = Append(@, Head(stream.rest))]
      /\ UNCHANGED <<url, saved, draft, loads, comments, lastBlock, dialog, saves,
                     stored, asked, docs, sends, moves>>
      /\ stream.open /\ stream.rest # <<>> /\ stream \in StreamState /\ docs \in Nat
  BY DEF Text, EditorInv, Typed
<1>2. PICK r \in Replies(docs) : Cut(stream.buffer, stream.rest, r)
  BY <1>1 DEF EditorInv, StreamOK
<1>3. /\ stream'.buffer = Append(stream.buffer, Head(stream.rest))
      /\ stream'.rest = Tail(stream.rest) /\ stream'.open = stream.open
      /\ stream'.vendor = stream.vendor
      /\ stream' = [vendor |-> stream'.vendor, rest |-> stream'.rest,
                    buffer |-> stream'.buffer, open |-> stream'.open]
  BY <1>1 DEF StreamState
<1>4. Cut(stream'.buffer, stream'.rest, r)
  BY <1>1, <1>2, <1>3, ReplyShape, CutMovesOn
<1>5. stream' \in StreamState
  BY <1>1, <1>3, <1>4 DEF StreamState, Cut
<1>6. StreamOK'
  BY <1>1, <1>4 DEF StreamOK
<1>7. DraftWhole' /\ LoadsWhole'
  BY <1>1, BodiesStay
<1>8. Typed'
  BY <1>1, <1>5 DEF EditorInv, Typed
<1> QED  BY <1>1, <1>3, <1>6, <1>7, <1>8 DEF EditorInv, LoadsOnScreen, PendingOnLastBlock,
            CommentsFollowTheirTurn

LEMMA RefusedStep ==
  ASSUME EditorInv, Refused
  PROVE  EditorInv'
<1>1. /\ stream.open /\ StreamOver
      /\ UNCHANGED <<url, saved, draft, loads, dialog, saves, stored, asked, docs,
                     sends, moves>>
  BY DEF Refused
<1>2. /\ stream' \in StreamState /\ StreamOK' /\ comments' \in [Comments -> CommentState]
      /\ PendingOnLastBlock' /\ CommentsFollowTheirTurn'
  BY <1>1, StreamOverOK
<1>3. DraftWhole' /\ LoadsWhole'
  BY <1>1, BodiesStay
<1>4. Typed'
  BY <1>1, <1>2 DEF EditorInv, Typed
<1> QED  BY <1>1, <1>2, <1>3, <1>4 DEF EditorInv, LoadsOnScreen

LEMMA FrameStep ==
  ASSUME EditorInv, NEW frame \in Frames, Frame(frame)
  PROVE  /\ EditorInv'
         /\ draft' = draft \/ stream' # stream
<1>1. /\ stream.open /\ docs \in Nat /\ draft \in Bodies
      /\ UNCHANGED <<url, saved, loads, dialog, saves, stored, asked, docs, sends, moves>>
  BY DEF Frame, EditorInv, Typed
<1>2. CASE UNCHANGED <<stream, draft, comments, lastBlock>>
  <2>1. DraftWhole' /\ LoadsWhole'
    BY <1>1, <1>2, BodiesStay
  <2>2. Typed'
    BY <1>1, <1>2 DEF EditorInv, Typed
  <2> QED  BY <1>1, <1>2, <2>1, <2>2 DEF EditorInv, StreamOK, LoadsOnScreen, PendingOnLastBlock,
              CommentsFollowTheirTurn
<1>3. CASE StreamOver /\ draft' \in {draft, Canvas(stream.buffer)}
  <2>1. /\ stream' \in StreamState /\ StreamOK' /\ stream' # stream
        /\ comments' \in [Comments -> CommentState]
        /\ PendingOnLastBlock' /\ CommentsFollowTheirTurn'
    BY <1>1, <1>3, StreamOverOK
  <2>2. draft' \in {draft, <<>>, Document(docs)}
    <3>1. PICK r \in Replies(docs) : Cut(stream.buffer, stream.rest, r)
      BY <1>1 DEF EditorInv, StreamOK
    <3>2. Canvas(stream.buffer) \in {<<>>, Document(docs)}
      BY <1>1, <3>1, CanvasIsWhole
    <3> QED  BY <1>3, <3>2
  <2>3. draft' \in Bodies /\ Whole(draft')
    <3>1. docs \in 0..docs
      BY <1>1
    <3> QED  BY <1>1, <2>2, <3>1 DEF Bodies, Whole, EditorInv, DraftWhole
  <2>4. DraftWhole' /\ LoadsWhole'
    BY <1>1, <2>3 DEF EditorInv, DraftWhole, LoadsWhole, Whole
  <2>5. Typed'
    BY <1>1, <2>1, <2>3 DEF EditorInv, Typed
  <2> QED  BY <1>1, <2>1, <2>4, <2>5 DEF EditorInv, LoadsOnScreen
<1> QED  BY <1>2, <1>3 DEF Frame

-----------------------------------------------------------------------------
(* Loads and saves *)

\* What a step of a request changes of the rest is none of the stream's.
LEMMA StreamUntouched ==
  ASSUME EditorInv, UNCHANGED <<stream, comments, lastBlock, asked, docs>>
  PROVE  StreamOK' /\ PendingOnLastBlock' /\ CommentsFollowTheirTurn'
BY DEF EditorInv, StreamOK, PendingOnLastBlock, CommentsFollowTheirTurn

LEMMA GoToOK ==
  ASSUME EditorInv, NEW p \in Pages \union {None}, GoTo(p), UNCHANGED docs
  PROVE  /\ loads' \subseteq Load /\ saved' \in Pages \union {None}
         /\ LoadsWhole' /\ LoadsOnScreen'
<1>0. /\ loads \subseteq Load /\ LoadsWhole /\ LoadsOnScreen /\ docs' = docs
      /\ url' = p /\ saved' = p
      /\ loads' = Cancelled \union Asked(p)
  BY DEF EditorInv, Typed, GoTo
<1>1. ASSUME NEW l \in Asked(p)
      PROVE  l \in Load /\ l.page = p /\ l.body = <<>>
  <2>1. p \in Pages /\ l = [page |-> p, body |-> <<>>, answered |-> FALSE, cancelled |-> FALSE]
    BY <1>1 DEF Asked
  <2>2. <<>> \in Bodies
    BY DEF Bodies
  <2> QED  BY <2>1, <2>2 DEF Load
<1>2. ASSUME NEW l \in Cancelled
      PROVE  l \in Load /\ l.cancelled /\ \E old \in loads : l.body = old.body
  <2>1. PICK old \in loads : l = [old EXCEPT !.cancelled = TRUE]
    BY DEF Cancelled
  <2>2. old \in Load
    BY <1>0
  <2> QED  BY <2>1, <2>2 DEF Load
<1>3. loads' \subseteq Load
  BY <1>0, <1>1, <1>2
<1>4. LoadsWhole'
  BY <1>0, <1>1, <1>2 DEF LoadsWhole, Whole
<1>5. LoadsOnScreen'
  BY <1>0, <1>1, <1>2 DEF LoadsOnScreen
<1> QED  BY <1>0, <1>3, <1>4, <1>5

LEMMA MoveStep ==
  ASSUME EditorInv, NEW p \in Pages \union {None}, Move(p)
  PROVE  EditorInv'
<1>1. /\ GoTo(p)
      /\ saves' \subseteq saves
      /\ UNCHANGED <<draft, stream, comments, lastBlock, dialog, stored, asked, docs, sends>>
  BY DEF Move, UnderWay
<1>2. /\ loads' \subseteq Load /\ saved' \in Pages \union {None}
      /\ LoadsWhole' /\ LoadsOnScreen'
  BY <1>1, GoToOK
<1>3. Typed' /\ DraftWhole'
  BY <1>1, <1>2 DEF EditorInv, Typed, DraftWhole, Whole
<1> QED  BY <1>1, <1>2, <1>3, StreamUntouched DEF EditorInv

LEMMA LoadStep ==
  ASSUME EditorInv, NEW l \in loads, LoadRead(l) \/ LoadSeen(l) \/ LoadFails(l)
  PROVE  EditorInv'
<1>0. /\ Typed /\ LoadsWhole /\ LoadsOnScreen /\ DraftWhole
      /\ l \in Load /\ loads \subseteq Load
      /\ UNCHANGED <<url, saved, stream, comments, lastBlock, dialog, saves, stored,
                     asked, docs, sends, moves>>
  BY DEF EditorInv, Typed, LoadRead, LoadSeen, LoadFails
<1>1. CASE LoadRead(l)
  <2> DEFINE new == [l EXCEPT !.answered = TRUE, !.body = stored[l.page]]
  <2>1. /\ new \in Load /\ new.body = stored[l.page] /\ new.page = l.page
        /\ new.cancelled = l.cancelled /\ l.page \in Pages
    BY <1>0 DEF Load, Typed
  <2>2. loads' = (loads \ {l}) \union {new} /\ draft' = draft
    BY <1>1 DEF LoadRead
  <2> HIDE DEF new
  <2>3. Whole(new.body)
    BY <1>0, <2>1 DEF DraftWhole
  <2>4. LoadsWhole' /\ LoadsOnScreen' /\ DraftWhole'
    BY <1>0, <2>1, <2>2, <2>3 DEF LoadsWhole, LoadsOnScreen, DraftWhole, Whole
  <2>5. Typed'
    BY <1>0, <2>1, <2>2 DEF Typed
  <2> QED  BY <1>0, <2>4, <2>5, StreamUntouched DEF EditorInv
<1>2. CASE LoadSeen(l) \/ LoadFails(l)
  <2>1. loads' = loads \ {l} /\ draft' \in {draft, l.body}
    BY <1>2 DEF LoadSeen, LoadFails
  <2>2. draft' \in Bodies /\ Whole(draft')
    BY <1>0, <2>1 DEF Typed, Load, LoadsWhole, DraftWhole
  <2>3. LoadsWhole' /\ LoadsOnScreen' /\ DraftWhole'
    BY <1>0, <2>1, <2>2 DEF LoadsWhole, LoadsOnScreen, DraftWhole, Whole
  <2>4. Typed'
    BY <1>0, <2>1, <2>2 DEF Typed
  <2> QED  BY <1>0, <2>3, <2>4, StreamUntouched DEF EditorInv
<1> QED  BY <1>1, <1>2

LEMMA SaveStep ==
  ASSUME EditorInv, NEW s \in saves, Store(s) \/ SaveSeen(s) \/ Replace(s) \/ SaveFails(s)
  PROVE  EditorInv'
<1>0. /\ Typed /\ LoadsWhole /\ LoadsOnScreen /\ DraftWhole
      /\ s \in SaveRequest /\ saves \subseteq SaveRequest /\ Whole(s.body)
      /\ UNCHANGED <<draft, stream, comments, lastBlock, asked, docs, sends, moves>>
  BY DEF EditorInv, Typed, DraftWhole, Store, SaveSeen, Replace, SaveFails
<1>1. CASE Store(s)
  <2>1. PICK p \in Pages :
          /\ stored' = [stored EXCEPT ![p] = s.body]
          /\ saves' = (saves \ {s}) \union {[s EXCEPT !.page = p, !.stage = "stored"]}
    BY <1>1 DEF Store
  <2>2. UNCHANGED <<url, saved, loads>>
    BY <1>1 DEF Store
  <2> DEFINE new == [s EXCEPT !.page = p, !.stage = "stored"]
  <2>3. new \in SaveRequest /\ new.body = s.body
    BY <1>0 DEF SaveRequest
  <2> HIDE DEF new
  <2>4. saves' \subseteq SaveRequest /\ \A x \in saves' : Whole(x.body)
    BY <1>0, <2>1, <2>3 DEF DraftWhole, new
  <2>5. stored' \in [Pages -> Bodies] /\ \A q \in Pages : Whole(stored'[q])
    BY <1>0, <2>1 DEF Typed, DraftWhole, SaveRequest
  <2>6. DraftWhole' /\ LoadsWhole' /\ LoadsOnScreen'
    BY <1>0, <2>2, <2>4, <2>5 DEF DraftWhole, LoadsWhole, LoadsOnScreen, Whole
  <2>7. Typed'
    BY <1>0, <2>2, <2>4, <2>5 DEF Typed
  <2> QED  BY <1>0, <2>6, <2>7, StreamUntouched DEF EditorInv
<1>2. CASE SaveSeen(s)
  <2> DEFINE new == [s EXCEPT !.stage = "seen"]
  <2>1. /\ saves' \subseteq saves \union {new} /\ saved' = s.page
        /\ UNCHANGED <<url, loads, stored>>
    BY <1>2 DEF SaveSeen, UnderWay
  <2>2. new \in SaveRequest /\ new.body = s.body /\ s.page \in Pages \union {None}
    BY <1>0 DEF SaveRequest
  <2> HIDE DEF new
  <2>3. Typed' /\ DraftWhole' /\ LoadsWhole' /\ LoadsOnScreen'
    BY <1>0, <2>1, <2>2 DEF Typed, DraftWhole, LoadsWhole, LoadsOnScreen, Whole
  <2> QED  BY <1>0, <2>3, StreamUntouched DEF EditorInv
<1>3. CASE Replace(s)
  <2>1. /\ saves' \subseteq saves /\ stored' = stored /\ s.page \in Pages \union {None}
        /\ GoTo(s.page) \/ UNCHANGED <<url, saved, loads>>
    BY <1>0, <1>3 DEF Replace, SaveRequest
  <2>2. /\ loads' \subseteq Load /\ saved' \in Pages \union {None}
        /\ LoadsWhole' /\ LoadsOnScreen'
    <3>1. CASE GoTo(s.page)
      BY <1>0, <2>1, <3>1, GoToOK
    <3>2. CASE UNCHANGED <<url, saved, loads>>
      BY <1>0, <3>2 DEF Typed, LoadsWhole, LoadsOnScreen, Whole
    <3> QED  BY <2>1, <3>1, <3>2
  <2>3. Typed' /\ DraftWhole'
    BY <1>0, <2>1, <2>2 DEF Typed, DraftWhole, Whole
  <2> QED  BY <1>0, <2>2, <2>3, StreamUntouched DEF EditorInv
<1>4. CASE SaveFails(s)
  <2>1. saves' = saves \ {s} /\ UNCHANGED <<url, saved, loads, stored>>
    BY <1>4 DEF SaveFails
  <2>2. Typed' /\ DraftWhole' /\ LoadsWhole' /\ LoadsOnScreen'
    BY <1>0, <2>1 DEF Typed, DraftWhole, LoadsWhole, LoadsOnScreen, Whole
  <2> QED  BY <1>0, <2>2, StreamUntouched DEF EditorInv
<1> QED  BY <1>1, <1>2, <1>3, <1>4

LEMMA SubmitStep ==
  ASSUME EditorInv, Submit
  PROVE  EditorInv'
<1> DEFINE new == [n |-> sends, page |-> saved, body |-> draft, stage |-> "sent"]
<1>1. /\ Typed /\ DraftWhole
      /\ saves' = saves \union {new} /\ sends' = sends + 1
      /\ UNCHANGED <<url, saved, draft, loads, stream, comments, lastBlock, stored, asked,
                     docs, moves>>
  BY DEF Submit, EditorInv
<1>2. new \in SaveRequest /\ Whole(new.body)
  BY <1>1 DEF SaveRequest, Typed, DraftWhole
<1> HIDE DEF new
<1>3. Typed' /\ DraftWhole' /\ LoadsWhole' /\ LoadsOnScreen'
  BY <1>1, <1>2 DEF EditorInv, Typed, DraftWhole, LoadsWhole, LoadsOnScreen, Whole
<1> QED  BY <1>1, <1>3, StreamUntouched DEF EditorInv

LEMMA DialogStep ==
  ASSUME EditorInv, OpenDialog \/ CloseDialog \/ UNCHANGED vars
  PROVE  EditorInv'
<1>1. UNCHANGED <<url, saved, draft, loads, stream, comments, lastBlock, saves, stored,
                  asked, docs, sends, moves>>
  BY DEF OpenDialog, CloseDialog, vars
<1>2. Typed' /\ DraftWhole' /\ LoadsWhole' /\ LoadsOnScreen'
  BY <1>1 DEF EditorInv, Typed, DraftWhole, LoadsWhole, LoadsOnScreen, Whole
<1> QED  BY <1>1, <1>2, StreamUntouched DEF EditorInv

-----------------------------------------------------------------------------
(* The theorems *)

LEMMA EditorStart == Init => EditorInv
<1> SUFFICES ASSUME Init  PROVE EditorInv
  OBVIOUS
<1>1. stored \in [Pages -> Bodies] /\ \A p \in Pages : stored[p] \in {<<>>, Document(0)}
  BY DEF Init, Bodies
<1>2. stream \in StreamState /\ ~ stream.open
  BY EmptySeq DEF Init, Closed, StreamState
<1>3. comments \in [Comments -> CommentState] /\ \A c \in Comments : comments[c].status = "none"
  BY DEF Init, CommentState
<1>4. Typed
  BY <1>1, <1>2, <1>3 DEF Init, Typed, Bodies
<1>5. docs = 0 /\ \A p \in Pages : Whole(stored[p])
  BY <1>1 DEF Init, Whole
<1> QED  BY <1>2, <1>3, <1>4, <1>5 DEF Init, EditorInv, StreamOK, DraftWhole, Whole, LoadsWhole,
            LoadsOnScreen, PendingOnLastBlock, CommentsFollowTheirTurn

LEMMA EditorKept == EditorInv /\ [Next]_vars => EditorInv'
<1> SUFFICES ASSUME EditorInv, [Next]_vars  PROVE EditorInv'
  OBVIOUS
<1> QED  BY PromptStep, CommentStep, OpenReplyStep, RefusedStep, TextStep, FrameStep,
            DialogStep, SubmitStep, ResolveStep, MoveStep, LoadStep, SaveStep
         DEF Next, Comment

LEMMA EditorAlways == Spec => []EditorInv
BY EditorStart, EditorKept, PTL DEF Spec

\* Wherever a reply is cut and whoever wrote it: draft, saves under way and pages
\* hold whole documents.
THEOREM DraftsAreWhole == Spec => []DraftWhole
<1>1. EditorInv => DraftWhole
  BY DEF EditorInv
<1> QED  BY <1>1, EditorAlways, PTL

\* A comment is shown as waiting only while its turn is under way, and as
\* replied only after it was sent: one block at a time is waited for, so the
\* block of the last comment is the block of all that wait.
THEOREM RepliesFollowTurns == Spec => []CommentsFollowTheirTurn
<1>1. EditorInv => CommentsFollowTheirTurn
  BY DEF EditorInv
<1> QED  BY <1>1, EditorAlways, PTL

\* Outside a stream only the page the address bar names gets into the draft,
\* however late its answer comes.
THEOREM LateLoadsAreDropped == Spec => LoadedIsOnScreen
<1> DEFINE OnScreen == draft' # draft /\ stream' = stream =>
                         \E l \in loads \ loads' : l.page = url /\ draft' = l.body
<1>1. EditorInv /\ [Next]_vars => OnScreen
  <2> SUFFICES ASSUME EditorInv, [Next]_vars, draft' # draft, stream' = stream
               PROVE  \E l \in loads \ loads' : l.page = url /\ draft' = l.body
    OBVIOUS
  <2>1. ASSUME NEW f \in Frames, Frame(f)  PROVE FALSE
    BY <2>1, FrameStep
  <2>2. PICK l \in loads : LoadSeen(l)
    BY <2>1 DEF Next, vars, Prompt, Comment, NewComment, OpenReply, Refused, Text, OpenDialog,
                CloseDialog, Submit, Resolve, Move, LoadRead, LoadFails, Store, SaveSeen,
                Replace, SaveFails
  <2> QED  BY <2>2 DEF LoadSeen, EditorInv, LoadsOnScreen
<1>2. OnScreen => (draft' # draft /\ stream' = stream =>
                     \E l \in loads \ loads' : l.page = url /\ draft' = l.body)
  OBVIOUS
<1> HIDE DEF OnScreen
<1> QED  BY <1>1, <1>2, EditorAlways, PTL DEF Spec, LoadedIsOnScreen

=============================================================================
