------------------------------ MODULE Documents ------------------------------
(***************************************************************************)
(* The block document of the editor: the tool calls of the agent, the      *)
(* proposals they become, the batches the author is shown, the document    *)
(* they are applied to, and what readiness check and chunker make of it.   *)
(*                                                                         *)
(* A call is checked against the document as it is when the call comes; a  *)
(* proposal is applied to the document as it is when it is accepted, in    *)
(* any order, while the author types and accepts other proposals.  The     *)
(* functions are those of the library; the handlers do not call them yet,  *)
(* so the actions call them whenever their signatures let a caller do so.  *)
(***************************************************************************)
EXTENDS Chunker

CONSTANTS
  Payloads,    \* what the author writes: kind, level, tokens
  Answers,     \* what the agent writes
  Bodies,      \* the markdown a document is opened with, as payloads
  MaxIds,      \* bound: block ids ever minted
  MaxCalls,    \* bound: tool calls that become proposals
  MaxEdits,    \* bound: edits of the author
  Threshold    \* BATCH_OP_THRESHOLD

ASSUME BoundsAssumption ==
  MaxIds \in Nat /\ MaxCalls \in Nat /\ MaxEdits \in Nat /\ Threshold \in Nat \ {0}

\* The rank of a heading is 1 to 6; the fence of a code block counts as text.
PayloadType ==
  {payload \in [kind : {"heading", "text", "code"}, level : 0..6, tokens : Nat] :
     /\ payload.kind = "heading" => payload.level # 0
     /\ payload.kind = "code" => payload.tokens # 0}

ASSUME PayloadsAssumption ==
  /\ \A payload \in Payloads \union Answers : payload \in PayloadType
  /\ \A body \in Bodies :
       /\ body \in Seq([kind : {"heading", "text", "code"}, level : 0..6, tokens : Nat])
       /\ \A i \in DOMAIN body : body[i] \in PayloadType
       /\ Len(body) <= MaxIds

VARIABLES
  tree,     \* the blocks of the document
  minted,   \* the number of ids minted so far
  pending,  \* the proposals not resolved yet
  calls,    \* the number of proposals made so far
  edits,    \* the number of edits the author has made
  buffer,   \* CheckpointBatcher.buffer: the proposals' numbers and levels
  level,    \* CheckpointBatcher.current_heading_level, 0 for none
  batches   \* history: the batches handed out

batcher == <<buffer, level, batches>>
vars    == <<tree, minted, pending, calls, edits, buffer, level, batches>>

-----------------------------------------------------------------------------
(* Blocks and their markdown *)

BlockOf(payload, id) ==
  [kind |-> payload.kind, level |-> payload.level, tokens |-> payload.tokens, id |-> id]

Found(t, id)   == \E i \in DOMAIN t : t[i].id = id
PlaceOf(t, id) == CHOOSE i \in DOMAIN t : t[i].id = id
Get(t, id)     == t[PlaceOf(t, id)]

\* serialize_markdown: each block after a comment that carries its id, which
\* comrak hands to the chunker as a node of three words.
Comment(id) == [kind |-> "comment", level |-> 0, tokens |-> 3, id |-> id]
Tagged(t) ==
  [i \in 1 .. 2 * Len(t) |->
     IF i % 2 = 1 THEN Comment(t[(i + 1) \div 2].id) ELSE t[i \div 2]]

-----------------------------------------------------------------------------
(* apply *)

\* The place before which a section ends: the next heading of the same or a
\* higher rank.  A block that is no heading counts as one of rank 0.
EndOfSection(t, i) ==
  LET rank  == IF IsHeading(t[i]) THEN t[i].level ELSE 0
      stops == {j \in i + 1 .. Len(t) : IsHeading(t[j]) /\ t[j].level <= rank}
  IN  IF stops = {} THEN Len(t) + 1 ELSE Min(stops)

InsertSeqAt(t, i, new) == SubSeq(t, 1, i - 1) \o new \o SubSeq(t, i, Len(t))

\* Faulty variant of Applied: append puts its blocks right after the heading.
AppliedAfterHeading(t, p) ==
  LET i == PlaceOf(t, p.block) IN
  CASE p.kind = "insert" -> InsertSeqAt(t, IF p.after THEN i + 1 ELSE i, p.new)
    [] p.kind = "append" -> InsertSeqAt(t, i + 1, p.new)
    [] p.kind \in {"replace", "suggest"} -> [t EXCEPT ![i] = p.new[1]]
    [] p.kind = "delete" -> RemoveAt(t, i)

\* Faulty variant of Applied: a replacement puts the rest out.
AppliedToAll(t, p) ==
  LET i == PlaceOf(t, p.block) IN
  CASE p.kind = "insert" -> InsertSeqAt(t, IF p.after THEN i + 1 ELSE i, p.new)
    [] p.kind = "append" -> InsertSeqAt(t, EndOfSection(t, i), p.new)
    [] p.kind \in {"replace", "suggest"} -> p.new
    [] p.kind = "delete" -> RemoveAt(t, i)

Applied(t, p) ==
  LET i == PlaceOf(t, p.block) IN
  CASE p.kind = "insert" -> InsertSeqAt(t, IF p.after THEN i + 1 ELSE i, p.new)
    [] p.kind = "append" -> InsertSeqAt(t, EndOfSection(t, i), p.new)
    [] p.kind \in {"replace", "suggest"} -> [t EXCEPT ![i] = p.new[1]]
    [] p.kind = "delete" -> RemoveAt(t, i)

-----------------------------------------------------------------------------
(* CheckpointBatcher *)

\* heading_level_of: the first block an insert, a replace or an append brings.
LevelOf(p) ==
  IF p.kind \in {"insert", "replace", "append"} /\ IsHeading(p.new[1])
    THEN p.new[1].level ELSE 0

Entry(p) == [number |-> p.number, level |-> LevelOf(p)]

\* Faulty variant of Push: the heading goes with the batch it ends.
PushThenFlush(p) ==
  LET new     == LevelOf(p)
      crossed == new # 0 /\ IF level # 0 THEN level # new ELSE buffer # <<>>
      longer  == Append(buffer, Entry(p))
  IN  IF crossed \/ Len(longer) >= Threshold
        THEN /\ batches' = Append(batches, longer)
             /\ buffer' = <<>> /\ level' = new
        ELSE /\ buffer' = longer /\ level' = (IF new # 0 THEN new ELSE level)
             /\ UNCHANGED batches

Push(p) ==
  LET new     == LevelOf(p)
      crossed == new # 0 /\ IF level # 0 THEN level # new ELSE buffer # <<>>
      longer  == Append(buffer, Entry(p))
  IN  IF crossed
        THEN /\ batches' = (IF buffer = <<>> THEN batches ELSE Append(batches, buffer))
             /\ buffer' = <<Entry(p)>> /\ level' = new
      ELSE IF Len(longer) >= Threshold
        THEN /\ batches' = Append(batches, longer)
             /\ buffer' = <<>> /\ level' = 0
        ELSE /\ buffer' = longer /\ level' = (IF new # 0 THEN new ELSE level)
             /\ UNCHANGED batches

\* flush_on_timeout
Timeout ==
  /\ buffer # <<>>
  /\ batches' = Append(batches, buffer)
  /\ buffer' = <<>> /\ level' = 0
  /\ UNCHANGED <<tree, minted, pending, calls, edits>>

-----------------------------------------------------------------------------
(* dispatch: every refusal leaves everything as it is *)

Fresh(n) == minted' = minted + n /\ minted + n <= MaxIds

Propose(p) ==
  /\ calls < MaxCalls
  /\ calls' = calls + 1
  /\ pending' = pending \union {p}
  /\ Push(p)
  /\ UNCHANGED <<tree, edits>>

Proposal(kind, block, new, after) ==
  [number |-> calls + 1, kind |-> kind, block |-> block, new |-> new, after |-> after]

DispatchInsert(id, payload, after) ==
  /\ Found(tree, id)
  /\ Fresh(1)
  /\ Propose(Proposal("insert", id, <<BlockOf(payload, minted + 1)>>, after))

\* Faulty variant of DispatchReplace: the block it brings has an id of its own.
DispatchReplaceFresh(id, payload) ==
  /\ Found(tree, id)
  /\ minted > 1 /\ UNCHANGED minted
  /\ Propose(Proposal("replace", id, <<BlockOf(payload, minted)>>, FALSE))

\* replace_block keeps the id of the block; an empty id is refused.
DispatchReplace(id, payload) ==
  /\ Found(tree, id)
  /\ UNCHANGED minted
  /\ Propose(Proposal("replace", id, <<BlockOf(payload, id)>>, FALSE))

DispatchAppend(id, payloads) ==
  /\ Found(tree, id) /\ IsHeading(Get(tree, id)) /\ payloads # <<>>
  /\ Fresh(Len(payloads))
  /\ Propose(Proposal("append", id,
       [i \in DOMAIN payloads |-> BlockOf(payloads[i], minted + i)], FALSE))

DispatchDelete(id) ==
  /\ Found(tree, id)
  /\ UNCHANGED minted
  /\ Propose(Proposal("delete", id, <<>>, FALSE))

DispatchSuggest(id, payload) ==
  /\ Found(tree, id)
  /\ UNCHANGED minted
  /\ Propose(Proposal("suggest", id, <<BlockOf(payload, id)>>, FALSE))

-----------------------------------------------------------------------------
(* The author *)

\* BlockNotFound when the block has gone: the proposal is dropped.
Accept(p) ==
  /\ p \in pending
  /\ pending' = pending \ {p}
  /\ IF Found(tree, p.block)
       THEN tree' = Applied(tree, p)
       ELSE UNCHANGED tree
  /\ UNCHANGED <<minted, calls, edits, batcher>>

Reject(p) ==
  /\ p \in pending
  /\ pending' = pending \ {p}
  /\ UNCHANGED <<tree, minted, calls, edits, batcher>>

Edit == edits < MaxEdits /\ edits' = edits + 1

\* Typing in the canvas: rewrite a block, split one off it, or remove it.
Write(payload) ==
  /\ Edit
  /\ \/ /\ \E i \in DOMAIN tree : tree' = [tree EXCEPT ![i] = BlockOf(payload, tree[i].id)]
        /\ UNCHANGED minted
     \/ /\ Fresh(1)
        /\ \E i \in 1 .. Len(tree) + 1 :
             tree' = InsertSeqAt(tree, i, <<BlockOf(payload, minted + 1)>>)
  /\ UNCHANGED <<pending, calls, batcher>>

Erase(i) ==
  /\ Edit
  /\ tree' = RemoveAt(tree, i)
  /\ UNCHANGED <<minted, pending, calls, batcher>>

-----------------------------------------------------------------------------
(* Readiness *)

\* Faulty variant of EmptySections: only the next heading ends a section.
EmptyBeforeNextHeading(t) ==
  {i \in DOMAIN t : /\ IsHeading(t[i])
                    /\ i < Len(t) => IsHeading(t[i + 1])
                    /\ i < Len(t) => t[i + 1].level > t[i].level}

\* check_empty_sections
EmptySections(t) ==
  {i \in DOMAIN t : /\ IsHeading(t[i])
                    /\ \A j \in i + 1 .. EndOfSection(t, i) - 1 : IsHeading(t[j])}

\* check_heading_hierarchy: a level skipped between two headings in a row.
SkippedLevels(t) ==
  {j \in DOMAIN t : /\ IsHeading(t[j])
                    /\ \E i \in 1 .. j - 1 :
                         /\ IsHeading(t[i]) /\ t[j].level > t[i].level + 1
                         /\ \A k \in i + 1 .. j - 1 : ~ IsHeading(t[k])}

\* check_first_heading
OpensTooDeep(t) ==
  \E i \in DOMAIN t : /\ IsHeading(t[i]) /\ t[i].level > 2
                      /\ \A k \in 1 .. i - 1 : ~ IsHeading(t[k])

Ready(t) == EmptySections(t) = {} /\ SkippedLevels(t) = {} /\ ~ OpensTooDeep(t)

-----------------------------------------------------------------------------

Init ==
  /\ \E body \in Bodies :
       /\ tree = [i \in DOMAIN body |-> BlockOf(body[i], i)]
       /\ minted = Len(body)
  /\ pending = {} /\ calls = 0 /\ edits = 0
  /\ buffer = <<>> /\ level = 0 /\ batches = <<>>

Dispatch ==
  \E id \in 1 .. minted, payload \in Answers :
    \/ \E after \in BOOLEAN : DispatchInsert(id, payload, after)
    \/ DispatchReplace(id, payload) \/ DispatchSuggest(id, payload)
    \/ DispatchAppend(id, <<payload>>)
    \/ DispatchDelete(id)

Next ==
  \/ Dispatch
  \/ Timeout
  \/ \E p \in pending : Accept(p) \/ Reject(p)
  \/ \E payload \in Payloads : Write(payload)
  \/ \E i \in DOMAIN tree : Erase(i)

Spec == Init /\ [][Next]_vars

-----------------------------------------------------------------------------
(* Properties *)

\* "Every op references a stable BlockId" (block_ops.rs:9): with the types, no
\* two blocks of the document have the same id, whatever order the proposals
\* are accepted in.
TypeOK ==
  /\ tree \in Seq([kind : {"heading", "text", "code"}, level : 0..6,
                   tokens : Nat, id : 1..MaxIds])
  /\ minted \in 0..MaxIds /\ calls \in 0..MaxCalls /\ edits \in 0..MaxEdits /\ level \in 0..6
  /\ \A p \in pending : p.block \in 1..minted /\ p.number \in 1..calls
  /\ \A i, j \in DOMAIN tree : tree[i].id = tree[j].id => i = j

\* "Full-canvas rewrites are impossible" (tools/lib.rs:36): one accepted
\* proposal changes at most the block it names, and the rest of the document
\* keeps its blocks and their order, the author's latest words included.
Kept(t, p) == {i \in DOMAIN t : t[i].id # p.block /\ t[i] \notin Range(p.new)}

RestOf(t, p) ==
  {<<t[q[1]], t[q[2]]>> : q \in {r \in Kept(t, p) \X Kept(t, p) : r[1] <= r[2]}}

OneBlockAtATime ==
  [][\A p \in pending :
       p \notin pending' /\ tree' # tree => RestOf(tree', p) = RestOf(tree, p)]_vars

\* "At the end of the section - right before the next heading of
\* equal-or-shallower level" (block_ops.rs:141), seen from the block that is
\* appended: it comes under the heading it was meant for, after all that was
\* under it, although the document has changed since the call.
IsUnder(t, i, id) == \E h \in Above(t, i) : t[h].id = id

AppendsToItsSection ==
  [][\A p \in pending :
       /\ p.kind = "append" /\ p \notin pending' /\ tree' # tree
       /\ IsHeading(Get(tree, p.block)) /\ ~ IsHeading(p.new[1])
       => LET at == PlaceOf(tree', p.new[1].id)
          IN  /\ IsUnder(tree', at, p.block)
              /\ \A k \in at + 1 .. Len(tree') :
                   ~ IsHeading(tree'[k]) => ~ IsUnder(tree', k, p.block)]_vars

\* The batches and the buffer hold every proposal, once and in the order of
\* the calls; a batch is never longer than the threshold and never spans two
\* heading levels ("a structural boundary", autonomy.rs:18).
NumbersOf(lists) == [a \in DOMAIN lists |-> [m \in DOMAIN lists[a] |-> lists[a][m].number]]

BatchesInOrder ==
  LET all == Append(batches, buffer)
  IN  /\ Deals(NumbersOf(all), 1 .. calls)
      /\ \A a \in DOMAIN all :
           /\ Len(all[a]) <= Threshold
           /\ \A m, n \in DOMAIN all[a] :
                all[a][m].level # 0 /\ all[a][n].level # 0 => all[a][m].level = all[a][n].level

\* The chunker on whatever the document has become, with its id comments and
\* without them: no block is lost or moved, none is filed under a heading it
\* is not under, and a chunk is too long only when it is one block.
ChunksCoverDocument ==
  \A doc \in {tree, Tagged(tree)} :
    LET chunks == ChunksOf(doc) IN
    CoversInOrder(doc, chunks) /\ UnderItsHeadings(doc, chunks) /\ WithinLimit(doc, chunks)

\* Readiness and chunker agree on what a section is: when the check has
\* nothing to report, every heading of the document is in the path of some
\* chunk, so that a search can find it, and no path leaves out a level.  They
\* do not agree on blank paragraphs, which are content to the check alone.
Blank(node) == ~ IsHeading(node) /\ node.tokens = 0

ReadySectionsAreFound ==
  Ready(tree) /\ (\A i \in DOMAIN tree : ~ Blank(tree[i])) =>
    LET paths == {ChunksOf(tree)[c].path : c \in DOMAIN ChunksOf(tree)}
    IN  /\ \A h \in DOMAIN tree : IsHeading(tree[h]) =>
             \E path \in paths : h \in Range(path)
        /\ \A path \in paths : \A n \in DOMAIN path :
             IF n = 1 THEN tree[path[n]].level <= 2
                      ELSE tree[path[n]].level = tree[path[n - 1]].level + 1

=============================================================================
