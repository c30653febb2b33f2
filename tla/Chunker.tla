------------------------------ MODULE Chunker ------------------------------
(***************************************************************************)
(* The chunker: how a body of markdown is cut into the chunks of the       *)
(* search index, as functions on the sequence of its top-level nodes.      *)
(*                                                                         *)
(* A node is a record: its kind ("heading", "text", "code", or "comment"   *)
(* for an HTML comment), its level when it is a heading, its number of     *)
(* tokens, and the id of the block it was written for.  The text itself is *)
(* left out; parsing markdown is the business of the library comrak.       *)
(***************************************************************************)
EXTENDS Naturals, Sequences, SequencesExt

CONSTANT MaxTokens    \* ChunkConfig.max_tokens

ASSUME MaxTokensAssumption == MaxTokens \in Nat \ {0}

IsHeading(node) == node.kind = "heading"

\* Code blocks; tables would be, but comrak runs without that extension here,
\* so that a table arrives as a paragraph.
Atomic(node) == node.kind = "code"

-----------------------------------------------------------------------------
(* collect_sections: the places of the headings a section is under, and of *)
(* the nodes it holds                                                      *)

\* Faulty variant of Popped: a heading of the same level stays on the stack.
PoppedDeeper(doc, stack, level) ==
  LET keep == {n \in DOMAIN stack : doc[stack[n]].level <= level}
  IN  SubSeq(stack, 1, IF keep = {} THEN 0 ELSE Max(keep))

\* Pop while the top of the stack is at this level or deeper.
Popped(doc, stack, level) ==
  LET keep == {n \in DOMAIN stack : doc[stack[n]].level < level}
  IN  SubSeq(stack, 1, IF keep = {} THEN 0 ELSE Max(keep))

Section(path, nodes) == [path |-> path, nodes |-> nodes]

\* The child of the root at i: a heading closes the section and opens the next.
Collect(doc, acc, i) ==
  IF ~ IsHeading(doc[i])
    THEN [acc EXCEPT !.nodes =
            IF Atomic(doc[i]) \/ doc[i].tokens > 0 THEN Append(@, i) ELSE @]
    ELSE [sections |-> IF acc.nodes # <<>> \/ acc.sections = <<>>
                         THEN Append(acc.sections, Section(acc.stack, acc.nodes))
                         ELSE acc.sections,
          nodes |-> <<>>,
          stack |-> Append(Popped(doc, acc.stack, doc[i].level), i)]

\* The state of the loop after the first i children.
Collected(doc) ==
  LET after[i \in 0 .. Len(doc)] ==
        IF i = 0 THEN [sections |-> <<>>, nodes |-> <<>>, stack |-> <<>>]
                 ELSE Collect(doc, after[i - 1], i)
  IN  after

SectionsOf(doc) ==
  LET end == Collected(doc)[Len(doc)]
  IN  IF end.nodes # <<>> \/ end.sections = <<>>
        THEN Append(end.sections, Section(end.stack, end.nodes))
        ELSE end.sections

-----------------------------------------------------------------------------
(* split_sections_into_chunks; section_index is the place in the sequence *)

Chunk(path, nodes, tokens, oversized) ==
  [path |-> path, nodes |-> nodes, tokens |-> tokens, oversized |-> oversized]

\* The tokens of a section's nodes, summed one after the other.
Total(doc, nodes) ==
  LET upto[k \in 0 .. Len(nodes)] ==
        IF k = 0 THEN 0 ELSE upto[k - 1] + doc[nodes[k]].tokens
  IN  upto[Len(nodes)]

\* Flush what has been gathered, if it has any token.
Flushed(acc, path, oversized) ==
  IF acc.tokens = 0 THEN acc
  ELSE [chunks |-> Append(acc.chunks, Chunk(path, acc.open, acc.tokens, oversized)),
        open |-> <<>>, tokens |-> 0]

\* The node at i, of a section that does not fit in one chunk.
Pack(doc, path, acc, i) ==
  IF Atomic(doc[i]) /\ doc[i].tokens > MaxTokens
    THEN LET f == Flushed(acc, path, acc.tokens > MaxTokens)
         IN  [f EXCEPT !.chunks = Append(@, Chunk(path, <<i>>, doc[i].tokens, TRUE))]
    ELSE LET full == acc.tokens > 0 /\ acc.tokens + doc[i].tokens > MaxTokens
             f == IF full THEN Flushed(acc, path, FALSE) ELSE acc
         IN  [f EXCEPT !.open = Append(@, i), !.tokens = @ + doc[i].tokens]

\* The state of the loop after the first k nodes of s.
Packed(doc, chunks, s) ==
  LET after[k \in 0 .. Len(s.nodes)] ==
        IF k = 0 THEN [chunks |-> chunks, open |-> <<>>, tokens |-> 0]
                 ELSE Pack(doc, s.path, after[k - 1], s.nodes[k])
  IN  after

\* One section: what it adds to the chunks.
Split(doc, chunks, s) ==
  IF s.nodes = <<>> THEN chunks
  ELSE IF Total(doc, s.nodes) <= MaxTokens
    THEN Append(chunks, Chunk(s.path, s.nodes, Total(doc, s.nodes), FALSE))
  ELSE LET end == Packed(doc, chunks, s)[Len(s.nodes)]
       IN  Flushed(end, s.path, end.tokens > MaxTokens).chunks

\* chunk_markdown; an empty body is an error the callers take for no chunk.
ChunksOf(doc) ==
  LET sections == SectionsOf(doc)
      after[n \in 0 .. Len(sections)] ==
        IF n = 0 THEN <<>> ELSE Split(doc, after[n - 1], sections[n])
  IN  after[Len(sections)]

-----------------------------------------------------------------------------
(* What a chunk ought to be *)

\* The headings a place is under: those before it that no heading of the same
\* or a higher rank has closed.
Above(doc, i) ==
  {h \in 1 .. i - 1 : /\ IsHeading(doc[h])
                      /\ \A k \in h + 1 .. i - 1 :
                           IsHeading(doc[k]) => doc[k].level > doc[h].level}

\* The nodes that have something to say.
Content(doc) == {i \in DOMAIN doc : ~ IsHeading(doc[i]) /\ doc[i].tokens > 0}

Increasing(s) == \A m, n \in DOMAIN s : m < n => s[m] < s[n]

\* The lists hold the members of S, each of them once, and in order.
Deals(lists, S) ==
  /\ \A x \in S : \E a \in DOMAIN lists : \E m \in DOMAIN lists[a] : lists[a][m] = x
  /\ \A a \in DOMAIN lists : /\ \A m \in DOMAIN lists[a] : lists[a][m] \in S
                            /\ Increasing(lists[a])
  /\ \A a, b \in DOMAIN lists : a < b =>
       \A m \in DOMAIN lists[a], n \in DOMAIN lists[b] : lists[a][m] < lists[b][n]

NodesOf(parts) == [c \in DOMAIN parts |-> parts[c].nodes]

\* Every node of the body is in one chunk, in the order of the body.
CoversInOrder(doc, chunks) == Deals(NodesOf(chunks), Content(doc))

\* A chunk does not reach over a heading, and names the headings it is under,
\* from the outermost inwards.
UnderItsHeadings(doc, chunks) ==
  \A c \in DOMAIN chunks : \A m \in DOMAIN chunks[c].nodes :
    /\ Range(chunks[c].path) = Above(doc, chunks[c].nodes[m])
    /\ Increasing(chunks[c].path)

\* No chunk is empty, and only a node that cannot be cut makes one too long.
WithinLimit(doc, chunks) ==
  \A c \in DOMAIN chunks :
    /\ chunks[c].nodes # <<>>
    /\ chunks[c].tokens > MaxTokens =>
         \E i \in DOMAIN doc : /\ chunks[c].nodes = <<i>>
                               /\ chunks[c].tokens = doc[i].tokens

=============================================================================
