-------------------------- MODULE Documents_proofs --------------------------
(* What the block document, its batches and the chunker guarantee, for every *)
(* body, every limit and every number of calls and edits.  The chunker and   *)
(* the readiness check are proved as functions, by induction over the nodes; *)
(* the document and the batcher by an inductive invariant.                   *)
EXTENDS Documents, TLAPS, WellFoundedInduction, FiniteSetTheorems

-----------------------------------------------------------------------------
(* Numbers and sequences *)

\* The order of the natural numbers, as a relation that has no infinite descent.
Less == {p \in Nat \X Nat : p[1] < p[2]}

\* A set of natural numbers that is not empty has a least member.
LEMMA LeastElement ==
  ASSUME NEW T \in SUBSET Nat, T # {}
  PROVE  \E x \in T : \A y \in T : x <= y
<1>1. Less = OpToRel(<, Nat)
  BY DEF Less, OpToRel
<1>2. IsWellFoundedOn(Less, Nat)
  BY <1>1, NatLessThanWellFounded
<1>3. \E x \in T : \A y \in T : ~ (<<y, x>> \in Less)
  BY <1>2, WFMin
<1>4. \A x, y \in Nat : x < y => <<x, y>> \in Less
  BY DEF Less
<1>5. \A x, y \in Nat : ~ (x < y) => y <= x
  OBVIOUS
<1> QED BY <1>3, <1>4, <1>5

\* Induction, on a set: the library states it of operators, which no installed
\* prover can instantiate.
LEMMA SetInduction ==
  ASSUME NEW T \in SUBSET Nat, 0 \in T, \A n \in T : n + 1 \in T
  PROVE  T = Nat
<1> SUFFICES ASSUME Nat \ T # {} PROVE FALSE
  OBVIOUS
<1>1. PICK x \in Nat \ T : \A y \in Nat \ T : x <= y
  BY LeastElement
<1>2. x # 0 /\ x - 1 \in Nat /\ x - 1 \in T
  BY <1>1
<1> QED BY <1>1, <1>2

\* A bounded one has a greatest member.
LEMMA GreatestElement ==
  ASSUME NEW n \in Nat, NEW T \in SUBSET (0 .. n), T # {}
  PROVE  \E x \in T : \A y \in T : y <= x
<1> DEFINE U == {u \in 0 .. n : n - u \in T}
<1>1. PICK t : t \in T
  OBVIOUS
<1>2. t \in 0 .. n /\ n - t \in 0 .. n /\ n - (n - t) = t
  BY <1>1
<1>3. U \in SUBSET Nat /\ U # {}
  BY <1>1, <1>2
<1>4. PICK u \in U : \A v \in U : u <= v
  BY <1>3, LeastElement
<1>5. n - u \in T
  OBVIOUS
<1>6. ASSUME NEW y \in T PROVE y <= n - u
  <2>1. y \in 0 .. n /\ n - y \in 0 .. n /\ n - (n - y) = y
    OBVIOUS
  <2>2. n - y \in U
    BY <2>1
  <2> QED BY <1>4, <2>1, <2>2
<1> QED BY <1>5, <1>6

\* What the community modules' Max and Min choose.
LEMMA MaxIs ==
  ASSUME NEW n \in Nat, NEW T \in SUBSET (1 .. n), T # {}
  PROVE  Max(T) \in T /\ \A y \in T : y <= Max(T)
<1>1. T \in SUBSET (0 .. n)
  OBVIOUS
<1>2. PICK x \in T : \A y \in T : y <= x
  BY <1>1, GreatestElement
<1>3. \A y \in T : x >= y
  BY <1>2
<1> QED BY <1>3 DEF Max

LEMMA MinIs ==
  ASSUME NEW T \in SUBSET Nat, T # {}
  PROVE  Min(T) \in T /\ \A y \in T : Min(T) <= y
<1>1. PICK x \in T : \A y \in T : x <= y
  BY LeastElement
<1> QED BY <1>1 DEF Min

-----------------------------------------------------------------------------
(* Deals *)

\* A list put behind the others deals its members after theirs.
LEMMA DealsAdd ==
  ASSUME NEW lists \in Seq(Seq(Nat)), NEW l \in Seq(Nat), NEW S \in SUBSET Nat,
         Deals(lists, S), Increasing(l), \A x \in Range(l), y \in S : y < x
  PROVE  Deals(Append(lists, l), S \union Range(l))
<1> DEFINE longer == Append(lists, l)
           n == Len(lists)
<1>1. /\ n \in Nat /\ DOMAIN lists = 1 .. n /\ DOMAIN longer = 1 .. n + 1
      /\ \A a \in 1 .. n : longer[a] = lists[a] /\ lists[a] \in Seq(Nat)
      /\ longer[n + 1] = l
  OBVIOUS
<1>2. \A m \in DOMAIN l : l[m] \in Range(l)
  BY DEF Range
<1>3. \A x \in Range(l) : \E m \in DOMAIN l : l[m] = x
  BY DEF Range
<1> HIDE DEF longer, n
<1>4. ASSUME NEW x \in S \union Range(l)
      PROVE  \E a \in DOMAIN longer : \E m \in DOMAIN longer[a] : longer[a][m] = x
  <2>1. CASE x \in S
    <3>1. PICK a \in DOMAIN lists : \E m \in DOMAIN lists[a] : lists[a][m] = x
      BY <2>1 DEF Deals
    <3>2. a \in DOMAIN longer /\ longer[a] = lists[a]
      BY <1>1
    <3> QED BY <3>1, <3>2
  <2>2. CASE x \in Range(l)
    <3>1. n + 1 \in DOMAIN longer
      BY <1>1
    <3> QED BY <1>1, <1>3, <2>2, <3>1
  <2> QED BY <2>1, <2>2
<1>5. ASSUME NEW a \in DOMAIN longer
      PROVE  /\ \A m \in DOMAIN longer[a] : longer[a][m] \in S \union Range(l)
             /\ Increasing(longer[a])
  <2>1. CASE a = n + 1
    BY <1>1, <1>2, <2>1
  <2>2. CASE a # n + 1
    <3>1. a \in DOMAIN lists /\ longer[a] = lists[a]
      BY <1>1, <2>2
    <3> QED BY <3>1 DEF Deals
  <2> QED BY <2>1, <2>2
<1>6. ASSUME NEW a \in DOMAIN longer, NEW b \in DOMAIN longer, a < b,
             NEW m \in DOMAIN longer[a], NEW k \in DOMAIN longer[b]
      PROVE  longer[a][m] < longer[b][k]
  <2>1. a \in DOMAIN lists /\ longer[a] = lists[a]
    BY <1>1, <1>6
  <2>2. CASE b = n + 1
    <3>1. longer[b][k] \in Range(l)
      BY <1>1, <1>2, <2>2
    <3>2. longer[a][m] \in S
      BY <2>1 DEF Deals
    <3> QED BY <3>1, <3>2
  <2>3. CASE b # n + 1
    <3>1. b \in DOMAIN lists /\ longer[b] = lists[b]
      BY <1>1, <2>3
    <3> QED BY <1>6, <2>1, <3>1 DEF Deals
  <2> QED BY <2>2, <2>3
<1>7. Deals(longer, S \union Range(l))
  BY <1>4, <1>5, <1>6 DEF Deals
<1> QED BY <1>7 DEF longer

\* An empty list at the end deals nothing.
LEMMA DealsDrop ==
  ASSUME NEW lists \in Seq(Seq(Nat)), NEW S \in SUBSET Nat, Deals(Append(lists, <<>>), S)
  PROVE  Deals(lists, S)
<1> DEFINE longer == Append(lists, <<>>)
           n == Len(lists)
<1>1. /\ n \in Nat /\ DOMAIN lists = 1 .. n /\ DOMAIN longer = 1 .. n + 1
      /\ \A a \in 1 .. n : longer[a] = lists[a]
      /\ longer[n + 1] = <<>> /\ DOMAIN <<>> = {}
  OBVIOUS
<1>2. Deals(longer, S)
  OBVIOUS
<1> HIDE DEF longer, n
<1>3. ASSUME NEW x \in S
      PROVE  \E a \in DOMAIN lists : \E m \in DOMAIN lists[a] : lists[a][m] = x
  <2>1. PICK a \in DOMAIN longer : \E m \in DOMAIN longer[a] : longer[a][m] = x
    BY <1>2 DEF Deals
  <2>2. a # n + 1
    BY <1>1, <2>1
  <2>3. a \in DOMAIN lists /\ longer[a] = lists[a]
    BY <1>1, <2>2
  <2> QED BY <2>1, <2>3
<1>4. \A a \in DOMAIN lists : a \in DOMAIN longer /\ longer[a] = lists[a]
  BY <1>1
<1>5. ASSUME NEW a \in DOMAIN lists
      PROVE  (\A m \in DOMAIN lists[a] : lists[a][m] \in S) /\ Increasing(lists[a])
  BY <1>2, <1>4 DEF Deals
<1>6. ASSUME NEW a \in DOMAIN lists, NEW b \in DOMAIN lists, a < b
      PROVE  \A m \in DOMAIN lists[a], k \in DOMAIN lists[b] : lists[a][m] < lists[b][k]
  BY <1>2, <1>4, <1>6 DEF Deals
<1> QED BY <1>3, <1>5, <1>6 DEF Deals

LEMMA DealsClose ==
  ASSUME NEW lists \in Seq(Seq(Nat)), NEW S \in SUBSET Nat, Deals(lists, S)
  PROVE  Deals(Append(lists, <<>>), S)
<1>1. <<>> \in Seq(Nat) /\ Range(<<>>) = {} /\ Increasing(<<>>)
  BY DEF Range, Increasing
<1>2. S \union Range(<<>>) = S
  BY <1>1
<1> QED BY <1>1, <1>2, DealsAdd

\* The list that is being filled takes one more.
LEMMA DealsMore ==
  ASSUME NEW lists \in Seq(Seq(Nat)), NEW l \in Seq(Nat), NEW S \in SUBSET Nat, NEW x \in Nat,
         Deals(Append(lists, l), S), \A y \in S : y < x
  PROVE  Deals(Append(lists, Append(l, x)), S \union {x})
<1> DEFINE old == Append(lists, l)
           new == Append(lists, Append(l, x))
           n == Len(lists)
           k == Len(l)
<1>1. /\ n \in Nat /\ DOMAIN old = 1 .. n + 1 /\ DOMAIN new = 1 .. n + 1
      /\ \A a \in 1 .. n : old[a] = new[a]
      /\ old[n + 1] = l /\ new[n + 1] = Append(l, x)
  OBVIOUS
<1>2. /\ k \in Nat /\ DOMAIN l = 1 .. k /\ DOMAIN Append(l, x) = 1 .. k + 1
      /\ \A m \in 1 .. k : Append(l, x)[m] = l[m]
      /\ Append(l, x)[k + 1] = x
  OBVIOUS
<1>3. Deals(old, S)
  OBVIOUS
<1> HIDE DEF old, new, n, k
<1>4. \A a \in DOMAIN new : \A m \in DOMAIN new[a] :
        \/ a = n + 1 /\ m = k + 1 /\ new[a][m] = x
        \/ a \in DOMAIN old /\ m \in DOMAIN old[a] /\ new[a][m] = old[a][m]
  <2> SUFFICES ASSUME NEW a \in DOMAIN new, NEW m \in DOMAIN new[a]
               PROVE  \/ a = n + 1 /\ m = k + 1 /\ new[a][m] = x
                      \/ a \in DOMAIN old /\ m \in DOMAIN old[a] /\ new[a][m] = old[a][m]
    OBVIOUS
  <2>1. CASE a = n + 1
    <3>1. new[a] = Append(l, x) /\ old[a] = l /\ a \in DOMAIN old
      BY <1>1, <2>1
    <3>2. m \in 1 .. k + 1
      BY <1>2, <3>1
    <3>3. m = k + 1 \/ m \in 1 .. k
      BY <1>2, <3>2
    <3> QED BY <1>2, <2>1, <3>1, <3>3
  <2>2. CASE a # n + 1
    BY <1>1, <2>2
  <2> QED BY <2>1, <2>2
<1>5. \A a \in DOMAIN old : \A m \in DOMAIN old[a] :
        a \in DOMAIN new /\ m \in DOMAIN new[a] /\ new[a][m] = old[a][m] /\ old[a][m] \in S
  <2> SUFFICES ASSUME NEW a \in DOMAIN old, NEW m \in DOMAIN old[a]
               PROVE  a \in DOMAIN new /\ m \in DOMAIN new[a] /\ new[a][m] = old[a][m]
    BY <1>3 DEF Deals
  <2>1. CASE a = n + 1
    <3>1. new[a] = Append(l, x) /\ old[a] = l /\ a \in DOMAIN new
      BY <1>1, <2>1
    <3>2. m \in 1 .. k /\ m \in 1 .. k + 1
      BY <1>2, <3>1
    <3> QED BY <1>2, <3>1, <3>2
  <2>2. CASE a # n + 1
    BY <1>1, <2>2
  <2> QED BY <2>1, <2>2
<1>6. n + 1 \in DOMAIN new /\ k + 1 \in DOMAIN new[n + 1] /\ new[n + 1][k + 1] = x
  BY <1>1, <1>2
<1>7. ASSUME NEW y \in S \union {x}
      PROVE  \E a \in DOMAIN new : \E m \in DOMAIN new[a] : new[a][m] = y
  <2>1. CASE y = x
    BY <1>6, <2>1
  <2>2. CASE y \in S
    <3>1. PICK a \in DOMAIN old : \E m \in DOMAIN old[a] : old[a][m] = y
      BY <1>3, <2>2 DEF Deals
    <3> QED BY <1>5, <3>1
  <2> QED BY <2>1, <2>2
<1>8. \A a \in DOMAIN new : \A m \in DOMAIN new[a] : new[a][m] \in S \union {x}
  BY <1>4, <1>5
<1>9. ASSUME NEW a \in DOMAIN new, NEW m \in DOMAIN new[a], NEW j \in DOMAIN new[a], m < j
      PROVE  new[a][m] < new[a][j]
  <2>1. ~ (a = n + 1 /\ m = k + 1)
    BY <1>1, <1>2, <1>9
  <2>2. a \in DOMAIN old /\ m \in DOMAIN old[a] /\ new[a][m] = old[a][m] /\ new[a][m] \in S
    BY <1>4, <1>5, <2>1
  <2>3. CASE a = n + 1 /\ j = k + 1
    BY <1>6, <2>2, <2>3
  <2>4. CASE ~ (a = n + 1 /\ j = k + 1)
    <3>1. j \in DOMAIN old[a] /\ new[a][j] = old[a][j]
      BY <1>4, <2>4
    <3> QED BY <1>3, <1>9, <2>2, <3>1 DEF Deals, Increasing
  <2> QED BY <2>3, <2>4
<1>10. ASSUME NEW a \in DOMAIN new, NEW b \in DOMAIN new, a < b,
              NEW m \in DOMAIN new[a], NEW j \in DOMAIN new[b]
       PROVE  new[a][m] < new[b][j]
  <2>1. a # n + 1
    BY <1>1, <1>10
  <2>2. a \in DOMAIN old /\ m \in DOMAIN old[a] /\ new[a][m] = old[a][m] /\ new[a][m] \in S
    BY <1>4, <1>5, <2>1
  <2>3. CASE b = n + 1 /\ j = k + 1
    BY <1>6, <2>2, <2>3
  <2>4. CASE ~ (b = n + 1 /\ j = k + 1)
    <3>1. b \in DOMAIN old /\ j \in DOMAIN old[b] /\ new[b][j] = old[b][j]
      BY <1>4, <2>4
    <3> QED BY <1>3, <1>10, <2>2, <3>1 DEF Deals
  <2> QED BY <2>3, <2>4
<1>11. Deals(new, S \union {x})
  BY <1>7, <1>8, <1>9, <1>10 DEF Deals, Increasing
<1> QED BY <1>11 DEF new

-----------------------------------------------------------------------------
(* Sections *)

\* What the chunker is given, the id comments of the editor included.
Node == [kind : {"heading", "text", "code", "comment"}, level : Nat, tokens : Nat, id : Nat]

\* What the parser hands over: a code block is never without a word.
Docs == {doc \in Seq(Node) : \A i \in DOMAIN doc : Atomic(doc[i]) => doc[i].tokens > 0}

\* The content of a body up to a place.
Upto(doc, i) == {k \in Content(doc) : k <= i}

SectionType == [path : Seq(Nat), nodes : Seq(Nat)]

\* What is known of one node.
LEMMA DocFacts ==
  ASSUME NEW doc \in Docs, NEW i \in DOMAIN doc
  PROVE  /\ Len(doc) \in Nat /\ i \in 1 .. Len(doc) /\ i \in Nat
         /\ doc[i].level \in Nat /\ doc[i].tokens \in Nat
         /\ Atomic(doc[i]) => doc[i].tokens > 0 /\ ~ IsHeading(doc[i])
<1>1. doc \in Seq(Node) /\ (Atomic(doc[i]) => doc[i].tokens > 0)
  BY DEF Docs
<1>2. Len(doc) \in Nat /\ i \in 1 .. Len(doc) /\ i \in Nat /\ doc[i] \in Node
  BY <1>1
<1>3. doc[i].level \in Nat /\ doc[i].tokens \in Nat
  BY <1>2 DEF Node
<1>4. Atomic(doc[i]) => ~ IsHeading(doc[i])
  BY DEF Atomic, IsHeading
<1> QED BY <1>1, <1>2, <1>3, <1>4

\* A block that is no heading closes none.
LEMMA AboveText ==
  ASSUME NEW doc \in Docs, NEW i \in DOMAIN doc, ~ IsHeading(doc[i])
  PROVE  Above(doc, i + 1) = Above(doc, i)
<1>1. i \in Nat /\ i >= 1
  BY DocFacts
<1>2. ASSUME NEW h \in Above(doc, i + 1) PROVE h \in Above(doc, i)
  <2>1. h \in 1 .. i /\ IsHeading(doc[h]) /\ h # i
    BY <1>1 DEF Above
  <2>2. \A k \in h + 1 .. i - 1 : k \in h + 1 .. i + 1 - 1
    BY <1>1, <2>1
  <2> QED BY <1>1, <2>1, <2>2 DEF Above
<1>3. ASSUME NEW h \in Above(doc, i) PROVE h \in Above(doc, i + 1)
  <2>1. h \in 1 .. i + 1 - 1 /\ IsHeading(doc[h])
    BY <1>1 DEF Above
  <2>2. \A k \in h + 1 .. i + 1 - 1 : k = i \/ k \in h + 1 .. i - 1
    BY <1>1, <2>1
  <2> QED BY <1>1, <2>1, <2>2 DEF Above
<1> QED BY <1>2, <1>3

\* A heading closes those that are as deep or deeper, and is open itself.
LEMMA AboveHeading ==
  ASSUME NEW doc \in Docs, NEW i \in DOMAIN doc, IsHeading(doc[i])
  PROVE  Above(doc, i + 1) = {h \in Above(doc, i) : doc[h].level < doc[i].level} \union {i}
<1>1. i \in Nat /\ i >= 1 /\ i + 1 - 1 = i
  BY DocFacts
<1>2. \A h \in 1 .. i : h \in DOMAIN doc
  BY DocFacts DEF Docs
<1>3. ASSUME NEW h \in Above(doc, i + 1), h # i
      PROVE  h \in Above(doc, i) /\ doc[h].level < doc[i].level
  <2>1. h \in 1 .. i - 1 /\ IsHeading(doc[h])
    BY <1>1, <1>3 DEF Above
  <2>2. \A k \in h + 1 .. i - 1 : k \in h + 1 .. i
    BY <1>1, <2>1
  <2>3. i \in h + 1 .. i
    BY <1>1, <2>1
  <2>4. doc[i].level > doc[h].level
    BY <1>1, <2>3 DEF Above
  <2>5. doc[i].level \in Nat /\ doc[h].level \in Nat
    BY <1>2, <2>1, <1>1, DocFacts
  <2> QED BY <1>1, <2>1, <2>2, <2>4, <2>5 DEF Above
<1>4. ASSUME NEW h \in Above(doc, i), doc[h].level < doc[i].level
      PROVE  h \in Above(doc, i + 1)
  <2>1. h \in 1 .. i - 1 /\ h \in 1 .. i + 1 - 1 /\ IsHeading(doc[h])
    BY <1>1 DEF Above
  <2>2. \A k \in h + 1 .. i + 1 - 1 : k = i \/ k \in h + 1 .. i - 1
    BY <1>1, <2>1
  <2>3. doc[i].level \in Nat /\ doc[h].level \in Nat
    BY <1>2, <2>1, <1>1, DocFacts
  <2>4. doc[i].level > doc[h].level
    BY <1>4, <2>3
  <2> QED BY <1>1, <2>1, <2>2, <2>4 DEF Above
<1>5. i \in Above(doc, i + 1)
  <2>1. i + 1 .. i + 1 - 1 = {} /\ i \in 1 .. i + 1 - 1
    BY <1>1
  <2> QED BY <2>1 DEF Above
<1> QED BY <1>3, <1>4, <1>5

\* The levels of the open headings grow inwards.
LEMMA AboveRising ==
  ASSUME NEW doc \in Docs, NEW i \in Nat, i <= Len(doc) + 1,
         NEW g \in Above(doc, i), NEW h \in Above(doc, i), g < h
  PROVE  doc[g].level < doc[h].level
<1>1. g \in 1 .. i - 1 /\ h \in g + 1 .. i - 1 /\ IsHeading(doc[h])
  BY DEF Above
<1>2. doc[h].level > doc[g].level
  BY <1>1 DEF Above
<1>3. g \in DOMAIN doc /\ h \in DOMAIN doc
  BY <1>1 DEF Docs
<1> QED BY <1>2, <1>3, DocFacts

\* The stack keeps the headings above the new one in rank.
LEMMA PoppedIs ==
  ASSUME NEW doc \in Docs, NEW i \in Nat, i <= Len(doc) + 1, NEW stack \in Seq(Nat),
         Range(stack) = Above(doc, i), Increasing(stack), NEW lvl \in Nat
  PROVE  /\ Popped(doc, stack, lvl) \in Seq(Nat)
         /\ Increasing(Popped(doc, stack, lvl))
         /\ Range(Popped(doc, stack, lvl)) = {h \in Above(doc, i) : doc[h].level < lvl}
<1> DEFINE n == Len(stack)
           keep == {m \in DOMAIN stack : doc[stack[m]].level < lvl}
           top == IF keep = {} THEN 0 ELSE Max(keep)
           s == SubSeq(stack, 1, top)
<1>1. n \in Nat /\ DOMAIN stack = 1 .. n /\ keep \in SUBSET (1 .. n)
  OBVIOUS
<1>2. top \in 0 .. n /\ \A m \in keep : m <= top
  <2>1. CASE keep = {}
    BY <1>1, <2>1
  <2>2. CASE keep # {}
    <3> HIDE DEF keep
    <3>1. Max(keep) \in keep /\ \A m \in keep : m <= Max(keep)
      BY <1>1, <2>2, MaxIs
    <3>2. top = Max(keep)
      BY <2>2
    <3>3. top \in 1 .. n
      BY <1>1, <3>1, <3>2
    <3> HIDE DEF top, n
    <3> QED BY <1>1, <3>1, <3>2, <3>3
  <2> QED BY <2>1, <2>2
<1>3. top # 0 => top \in keep
  BY <1>1, MaxIs
<1>4. \A m \in 1 .. n : /\ stack[m] \in Above(doc, i) /\ stack[m] \in DOMAIN doc
                        /\ doc[stack[m]].level \in Nat
  <2> SUFFICES ASSUME NEW m \in 1 .. n
               PROVE  /\ stack[m] \in Above(doc, i) /\ stack[m] \in DOMAIN doc
                      /\ doc[stack[m]].level \in Nat
    OBVIOUS
  <2>1. stack[m] \in Above(doc, i)
    BY <1>1 DEF Range
  <2>2. stack[m] \in DOMAIN doc
    BY <2>1 DEF Above, Docs
  <2> QED BY <2>1, <2>2, DocFacts
<1>5. ASSUME NEW m \in 1 .. top PROVE m \in keep
  <2>1. CASE m = top
    BY <1>2, <1>3, <2>1
  <2>2. CASE m # top
    <3>1. m \in 1 .. n /\ top \in 1 .. n /\ m < top
      BY <1>1, <1>2, <2>2
    <3>2. stack[m] < stack[top]
      BY <1>1, <3>1 DEF Increasing
    <3>3. doc[stack[m]].level < doc[stack[top]].level
      BY <1>4, <3>1, <3>2, AboveRising
    <3>4. doc[stack[top]].level < lvl
      <4>1. top # 0
        BY <1>1, <3>1
      <4>2. top \in keep
        BY <1>3, <4>1
      <4> HIDE DEF top
      <4> QED BY <4>2
    <3> HIDE DEF top, keep
    <3>5. doc[stack[m]].level < lvl
      BY <1>4, <3>1, <3>3, <3>4
    <3> USE DEF keep
    <3> QED BY <1>1, <3>1, <3>5
  <2> QED BY <2>1, <2>2
<1>6. s \in Seq(Nat) /\ DOMAIN s = 1 .. top /\ \A m \in 1 .. top : s[m] = stack[m]
  <2> HIDE DEF top
  <2>1. top \in Nat /\ top <= n
    BY <1>1, <1>2
  <2> QED BY <1>1, <2>1
<1> HIDE DEF s, top
<1>7. Increasing(s)
  <2>1. \A m \in 1 .. top : m \in DOMAIN stack
    BY <1>1, <1>2
  <2> QED BY <1>6, <2>1 DEF Increasing
<1>8. ASSUME NEW h \in Range(s) PROVE h \in Above(doc, i) /\ doc[h].level < lvl
  <2>1. PICK m \in 1 .. top : h = stack[m]
    BY <1>6, <1>8 DEF Range
  <2>2. m \in keep /\ m \in 1 .. n
    BY <1>1, <1>5
  <2> QED BY <1>4, <2>1, <2>2
<1>9. ASSUME NEW h \in Above(doc, i), doc[h].level < lvl PROVE h \in Range(s)
  <2>1. PICK m \in DOMAIN stack : h = stack[m]
    BY DEF Range
  <2>2. m \in keep
    BY <1>9, <2>1
  <2>3. m \in 1 .. top
    BY <1>1, <1>2, <2>2
  <2> QED BY <1>6, <2>1, <2>3 DEF Range
<1>10. Popped(doc, stack, lvl) = s
  BY DEF Popped, s, top
<1> QED BY <1>6, <1>7, <1>8, <1>9, <1>10

\* What Append does, for the provers.
LEMMA AppendIs ==
  ASSUME NEW X, NEW s \in Seq(X), NEW x \in X
  PROVE  /\ Append(s, x) \in Seq(X) /\ Len(s) \in Nat /\ Len(Append(s, x)) = Len(s) + 1
         /\ DOMAIN s = 1 .. Len(s) /\ DOMAIN Append(s, x) = 1 .. Len(s) + 1
         /\ \A m \in DOMAIN s : m \in DOMAIN Append(s, x) /\ Append(s, x)[m] = s[m] /\ s[m] \in X
         /\ Append(s, x)[Len(s) + 1] = x
         /\ Range(Append(s, x)) = Range(s) \union {x}
<1>1. /\ Append(s, x) \in Seq(X) /\ Len(s) \in Nat /\ Len(Append(s, x)) = Len(s) + 1
      /\ DOMAIN s = 1 .. Len(s) /\ DOMAIN Append(s, x) = 1 .. Len(s) + 1
      /\ \A m \in 1 .. Len(s) : Append(s, x)[m] = s[m] /\ s[m] \in X
      /\ Append(s, x)[Len(s) + 1] = x
  OBVIOUS
<1>2. Range(Append(s, x)) \subseteq Range(s) \union {x}
  <2> SUFFICES ASSUME NEW m \in 1 .. Len(s) + 1
               PROVE  Append(s, x)[m] \in Range(s) \union {x}
    BY <1>1 DEF Range
  <2>1. m = Len(s) + 1 \/ m \in 1 .. Len(s)
    BY <1>1
  <2> QED BY <1>1, <2>1 DEF Range
<1>3. \A m \in 1 .. Len(s) : m \in 1 .. Len(s) + 1
  BY <1>1
<1>4. Len(s) + 1 \in 1 .. Len(s) + 1
  BY <1>1
<1>5. Range(s) \union {x} \subseteq Range(Append(s, x))
  <2>1. x \in Range(Append(s, x))
    BY <1>1, <1>4 DEF Range
  <2>2. ASSUME NEW m \in 1 .. Len(s) PROVE s[m] \in Range(Append(s, x))
    <3>1. m \in DOMAIN Append(s, x) /\ Append(s, x)[m] = s[m]
      BY <1>1, <1>3
    <3> QED BY <3>1 DEF Range
  <2> QED BY <1>1, <2>1, <2>2 DEF Range
<1> QED BY <1>1, <1>2, <1>3, <1>5

LEMMA IncreasingMore ==
  ASSUME NEW s \in Seq(Nat), NEW x \in Nat, Increasing(s), \A y \in Range(s) : y < x
  PROVE  Increasing(Append(s, x))
<1>1. /\ DOMAIN s = 1 .. Len(s) /\ DOMAIN Append(s, x) = 1 .. Len(s) + 1 /\ Len(s) \in Nat
      /\ \A m \in DOMAIN s : Append(s, x)[m] = s[m]
      /\ Append(s, x)[Len(s) + 1] = x
  BY AppendIs
<1> SUFFICES ASSUME NEW m \in DOMAIN Append(s, x), NEW n \in DOMAIN Append(s, x), m < n
             PROVE  Append(s, x)[m] < Append(s, x)[n]
  BY DEF Increasing
<1>2. m \in DOMAIN s
  BY <1>1
<1>3. CASE n = Len(s) + 1
  BY <1>1, <1>2, <1>3 DEF Range
<1>4. CASE n # Len(s) + 1
  <2>1. n \in DOMAIN s
    BY <1>1, <1>4
  <2> QED BY <1>1, <1>2, <2>1 DEF Increasing
<1> QED BY <1>3, <1>4

\* The lists of nodes of one part more.
LEMMA NodesMore ==
  ASSUME NEW X, NEW parts \in Seq(X), NEW r \in X, \A x \in X : x.nodes \in Seq(Nat)
  PROVE  /\ NodesOf(parts) \in Seq(Seq(Nat))
         /\ NodesOf(Append(parts, r)) = Append(NodesOf(parts), r.nodes)
<1> DEFINE n == Len(parts)
           f == NodesOf(parts)
<1>1. /\ n \in Nat /\ DOMAIN parts = 1 .. n /\ DOMAIN Append(parts, r) = 1 .. n + 1
      /\ \A m \in 1 .. n : Append(parts, r)[m] = parts[m] /\ parts[m] \in X
      /\ Append(parts, r)[n + 1] = r
  BY AppendIs
<1>2. f = [c \in 1 .. n |-> parts[c].nodes] /\ f \in Seq(Seq(Nat)) /\ Len(f) = n
  BY <1>1 DEF NodesOf
<1>3. Append(f, r.nodes) = [c \in 1 .. n + 1 |-> IF c = n + 1 THEN r.nodes ELSE f[c]]
  BY <1>1, <1>2
<1>4. NodesOf(Append(parts, r)) = [c \in 1 .. n + 1 |-> Append(parts, r)[c].nodes]
  BY <1>1 DEF NodesOf
<1>5. \A c \in 1 .. n + 1 : Append(parts, r)[c].nodes = IF c = n + 1 THEN r.nodes ELSE f[c]
  <2> SUFFICES ASSUME NEW c \in 1 .. n + 1
               PROVE  Append(parts, r)[c].nodes = IF c = n + 1 THEN r.nodes ELSE f[c]
    OBVIOUS
  <2>1. c = n + 1 \/ c \in 1 .. n
    BY <1>1
  <2> QED BY <1>1, <1>2, <2>1
<1> QED BY <1>2, <1>3, <1>4, <1>5

\* What holds of the empty sequence.
LEMMA EmptyIs ==
  /\ \A X : <<>> \in Seq(X)
  /\ DOMAIN <<>> = {} /\ Range(<<>>) = {} /\ Len(<<>>) = 0
  /\ Increasing(<<>>) /\ Deals(<<>>, {}) /\ NodesOf(<<>>) = <<>>
<1>1. (\A X : <<>> \in Seq(X)) /\ DOMAIN <<>> = {} /\ Len(<<>>) = 0
  OBVIOUS
<1>2. Range(<<>>) = {} /\ Increasing(<<>>) /\ Deals(<<>>, {})
  BY <1>1 DEF Range, Increasing, Deals
<1>3. NodesOf(<<>>) = <<>>
  BY DEF NodesOf
<1> QED BY <1>1, <1>2, <1>3

\* The loop of collect_sections: the sections and the nodes gathered hold the
\* content so far, and the stack the headings that are open.
CollectInv(doc, acc, i) ==
  /\ acc \in [sections : Seq(SectionType), nodes : Seq(Nat), stack : Seq(Nat)]
  /\ Deals(Append(NodesOf(acc.sections), acc.nodes), Upto(doc, i))
  /\ UnderItsHeadings(doc, acc.sections)
  /\ Range(acc.stack) = Above(doc, i + 1) /\ Increasing(acc.stack)
  /\ \A m \in DOMAIN acc.nodes : Above(doc, acc.nodes[m]) = Above(doc, i + 1)

\* The state the loop begins with.
Begun == [sections |-> <<>>, nodes |-> <<>>, stack |-> <<>>]

LEMMA CollectBegins ==
  ASSUME NEW doc \in Docs
  PROVE  CollectInv(doc, Begun, 0)
<1>1. Begun \in [sections : Seq(SectionType), nodes : Seq(Nat), stack : Seq(Nat)]
  BY EmptyIs DEF Begun
<1>2. Upto(doc, 0) = {}
  BY DocFacts DEF Upto, Content
<1>3. Deals(Append(NodesOf(<<>>), <<>>), {})
  BY EmptyIs, DealsClose
<1>4. UnderItsHeadings(doc, <<>>)
  BY EmptyIs DEF UnderItsHeadings
<1>5. Above(doc, 0 + 1) = {}
  BY DEF Above
<1> QED BY <1>1, <1>2, <1>3, <1>4, <1>5, EmptyIs DEF CollectInv, Begun

\* A part that is put behind the others.
LEMMA UnderMore ==
  ASSUME NEW doc \in Docs, NEW X, NEW parts \in Seq(X), NEW r \in X,
         UnderItsHeadings(doc, parts), Increasing(r.path),
         \A m \in DOMAIN r.nodes : Range(r.path) = Above(doc, r.nodes[m])
  PROVE  UnderItsHeadings(doc, Append(parts, r))
<1> SUFFICES ASSUME NEW c \in DOMAIN Append(parts, r), NEW m \in DOMAIN Append(parts, r)[c].nodes
             PROVE  /\ Range(Append(parts, r)[c].path) = Above(doc, Append(parts, r)[c].nodes[m])
                    /\ Increasing(Append(parts, r)[c].path)
  BY DEF UnderItsHeadings
<1>1. \/ c \in DOMAIN parts /\ Append(parts, r)[c] = parts[c]
      \/ Append(parts, r)[c] = r
  BY AppendIs
<1> QED BY <1>1 DEF UnderItsHeadings

\* One more node keeps it.
LEMMA CollectStep ==
  ASSUME NEW doc \in Docs, NEW i \in DOMAIN doc, NEW acc, CollectInv(doc, acc, i - 1)
  PROVE  CollectInv(doc, Collect(doc, acc, i), i)
<1> DEFINE new == Collect(doc, acc, i)
<1>1. /\ acc \in [sections : Seq(SectionType), nodes : Seq(Nat), stack : Seq(Nat)]
      /\ Deals(Append(NodesOf(acc.sections), acc.nodes), Upto(doc, i - 1))
      /\ UnderItsHeadings(doc, acc.sections)
      /\ Range(acc.stack) = Above(doc, i) /\ Increasing(acc.stack)
      /\ \A m \in DOMAIN acc.nodes : Above(doc, acc.nodes[m]) = Above(doc, i)
  <2>1. i - 1 + 1 = i
    BY DocFacts
  <2> QED BY <2>1 DEF CollectInv
<1>2. /\ acc.sections \in Seq(SectionType) /\ acc.nodes \in Seq(Nat) /\ acc.stack \in Seq(Nat)
      /\ i \in Nat /\ Len(doc) \in Nat /\ i <= Len(doc) + 1 /\ DOMAIN doc = 1 .. Len(doc)
      /\ Upto(doc, i) \in SUBSET Nat /\ Upto(doc, i - 1) \in SUBSET Nat
      /\ \A x \in SectionType : x.nodes \in Seq(Nat)
  BY <1>1, DocFacts DEF Upto, Content, SectionType, Docs
<1>3. NodesOf(acc.sections) \in Seq(Seq(Nat))
  BY <1>2, EmptyIs, NodesMore, Section(<<>>, <<>>) \in SectionType DEF SectionType, Section
<1>4. \A x \in Upto(doc, i - 1) : x < i
  BY <1>2, DocFacts DEF Upto, Content
<1>5. i \notin Content(doc) => Upto(doc, i) = Upto(doc, i - 1)
  BY <1>2, DocFacts DEF Upto, Content
<1>6. i \in Content(doc) => Upto(doc, i) = Upto(doc, i - 1) \union {i}
  BY <1>2, DocFacts DEF Upto, Content
<1>7. CASE ~ IsHeading(doc[i]) /\ i \notin Content(doc)
  <2>1. ~ (Atomic(doc[i]) \/ doc[i].tokens > 0)
    BY <1>7, DocFacts DEF Content
  <2>2. new = acc
    BY <1>1, <1>7, <2>1 DEF Collect
  <2>3. Above(doc, i + 1) = Above(doc, i)
    BY <1>7, AboveText
  <2> QED BY <1>1, <1>5, <1>7, <2>2, <2>3 DEF CollectInv
<1>8. CASE ~ IsHeading(doc[i]) /\ i \in Content(doc)
  <2>1. doc[i].tokens > 0
    BY <1>8 DEF Content
  <2>2. new = [acc EXCEPT !.nodes = Append(@, i)]
    BY <1>8, <2>1 DEF Collect
  <2>3. /\ new \in [sections : Seq(SectionType), nodes : Seq(Nat), stack : Seq(Nat)]
        /\ new.sections = acc.sections /\ new.stack = acc.stack /\ new.nodes = Append(acc.nodes, i)
    <3>1. new = [sections |-> acc.sections, nodes |-> Append(acc.nodes, i), stack |-> acc.stack]
      BY <1>1, <2>2
    <3>2. Append(acc.nodes, i) \in Seq(Nat)
      BY <1>2, AppendIs
    <3> HIDE DEF new
    <3> QED BY <1>2, <3>1, <3>2
  <2>4. Above(doc, i + 1) = Above(doc, i)
    BY <1>8, AboveText
  <2>5. Deals(Append(NodesOf(acc.sections), Append(acc.nodes, i)), Upto(doc, i))
    <3> DEFINE lists == NodesOf(acc.sections)
               l == acc.nodes
               S == Upto(doc, i - 1)
    <3>1. /\ lists \in Seq(Seq(Nat)) /\ l \in Seq(Nat) /\ S \in SUBSET Nat /\ i \in Nat
          /\ Deals(Append(lists, l), S) /\ \A y \in S : y < i
      BY <1>1, <1>2, <1>3, <1>4
    <3> HIDE DEF lists, l, S
    <3>2. Deals(Append(lists, Append(l, i)), S \union {i})
      BY <3>1, DealsMore
    <3> QED BY <1>6, <1>8, <3>2 DEF lists, l, S
  <2>6. \A m \in DOMAIN Append(acc.nodes, i) :
          \/ m \in DOMAIN acc.nodes /\ Append(acc.nodes, i)[m] = acc.nodes[m]
          \/ Append(acc.nodes, i)[m] = i
    BY <1>2, AppendIs
  <2> QED BY <1>1, <2>3, <2>4, <2>5, <2>6 DEF CollectInv
<1>9. CASE IsHeading(doc[i])
  <2> DEFINE s == Section(acc.stack, acc.nodes)
             closed == IF acc.nodes # <<>> \/ acc.sections = <<>>
                         THEN Append(acc.sections, s) ELSE acc.sections
             left == Popped(doc, acc.stack, doc[i].level)
  <2>1. new = [sections |-> closed, nodes |-> <<>>, stack |-> Append(left, i)]
    BY <1>9 DEF Collect
  <2>2. s \in SectionType /\ s.path = acc.stack /\ s.nodes = acc.nodes
    BY <1>2 DEF Section, SectionType
  <2>3. closed \in Seq(SectionType)
    BY <1>2, <2>2, AppendIs
  <2>4. doc[i].level \in Nat
    BY DocFacts
  <2>5. /\ left \in Seq(Nat) /\ Increasing(left)
        /\ Range(left) = {h \in Above(doc, i) : doc[h].level < doc[i].level}
    <3> DEFINE stack == acc.stack
    <3>1. /\ stack \in Seq(Nat) /\ Range(stack) = Above(doc, i) /\ Increasing(stack)
          /\ i \in Nat /\ i <= Len(doc) + 1
      BY <1>1, <1>2
    <3> HIDE DEF stack
    <3> DEFINE lvl == doc[i].level
    <3>2. lvl \in Nat
      BY <2>4
    <3> HIDE DEF lvl
    <3>3. /\ Popped(doc, stack, lvl) \in Seq(Nat) /\ Increasing(Popped(doc, stack, lvl))
          /\ Range(Popped(doc, stack, lvl)) = {h \in Above(doc, i) : doc[h].level < lvl}
      BY <3>1, <3>2, PoppedIs
    <3> QED BY <3>3 DEF stack, lvl
  <2>6. \A y \in Range(left) : y < i
    BY <1>2, <2>5 DEF Above
  <2> HIDE DEF left
  <2>7. /\ Append(left, i) \in Seq(Nat) /\ Increasing(Append(left, i))
        /\ Range(Append(left, i)) = Above(doc, i + 1)
    <3>1. Append(left, i) \in Seq(Nat) /\ Range(Append(left, i)) = Range(left) \union {i}
      <4>1. left \in Seq(Nat) /\ i \in Nat
        BY <1>2, <2>5
      <4> QED BY <4>1, AppendIs
    <3>2. Increasing(Append(left, i))
      BY <1>2, <2>5, <2>6, IncreasingMore
    <3>3. Range(Append(left, i)) = Above(doc, i + 1)
      BY <1>9, <2>5, <3>1, AboveHeading
    <3> QED BY <3>1, <3>2, <3>3
  <2>8. Deals(NodesOf(closed), Upto(doc, i - 1))
    <3>1. CASE acc.nodes # <<>> \/ acc.sections = <<>>
      <4> DEFINE sections == acc.sections
      <4>1. closed = Append(sections, s) /\ sections \in Seq(SectionType)
        BY <1>2, <3>1
      <4>2. \A x \in SectionType : x.nodes \in Seq(Nat)
        BY DEF SectionType
      <4> HIDE DEF sections, closed, s
      <4>3. NodesOf(closed) = Append(NodesOf(sections), s.nodes)
        BY <2>2, <4>1, <4>2, NodesMore
      <4> QED BY <1>1, <1>2, <2>2, <4>3 DEF sections
    <3>2. CASE ~ (acc.nodes # <<>> \/ acc.sections = <<>>)
      BY <1>1, <1>2, <1>3, <3>2, DealsDrop
    <3> QED BY <3>1, <3>2
  <2>9. UnderItsHeadings(doc, closed)
    <3>1. UnderItsHeadings(doc, Append(acc.sections, s))
      BY <1>1, <1>2, <2>2, UnderMore
    <3> QED BY <1>1, <3>1
  <2>10. NodesOf(closed) \in Seq(Seq(Nat))
    BY <1>2, <2>2, <2>3, NodesMore
  <2> HIDE DEF closed, s
  <2>11. Upto(doc, i) = Upto(doc, i - 1)
    BY <1>5, <1>9 DEF Content
  <2>12. Deals(Append(NodesOf(closed), <<>>), Upto(doc, i))
    BY <1>2, <2>8, <2>10, <2>11, DealsClose
  <2>13. new \in [sections : Seq(SectionType), nodes : Seq(Nat), stack : Seq(Nat)]
    BY <2>1, <2>3, <2>7, EmptyIs
  <2>14. new.sections = closed /\ new.nodes = <<>> /\ new.stack = Append(left, i)
    BY <2>1
  <2> HIDE DEF new
  <2>15. CollectInv(doc, new, i)
    BY <2>7, <2>9, <2>12, <2>13, <2>14, EmptyIs DEF CollectInv
  <2> QED BY <2>15 DEF new
<1> QED BY <1>7, <1>8, <1>9

\* The recursive function of the loop obeys its own equation: there is one for
\* every length.
LEMMA CollectedIs ==
  ASSUME NEW doc \in Docs
  PROVE  Collected(doc) = [i \in 0 .. Len(doc) |->
           IF i = 0 THEN Begun ELSE Collect(doc, Collected(doc)[i - 1], i)]
<1> DEFINE Loop(g, n) == g = [i \in 0 .. n |-> IF i = 0 THEN Begun ELSE Collect(doc, g[i - 1], i)]
           T == {n \in Nat : \E g : Loop(g, n)}
<1>1. 0 \in T
  <2> DEFINE g == [i \in 0 .. 0 |-> Begun]
  <2>1. \A i \in 0 .. 0 : i = 0
    OBVIOUS
  <2>2. Loop(g, 0)
    BY <2>1
  <2> QED BY <2>2
<1>2. ASSUME NEW n \in T PROVE n + 1 \in T
  <2>1. PICK g : Loop(g, n)
    OBVIOUS
  <2> DEFINE h == [i \in 0 .. n + 1 |-> IF i = n + 1 THEN Collect(doc, g[n], n + 1) ELSE g[i]]
  <2>2. ASSUME NEW i \in 0 .. n + 1
        PROVE  h[i] = IF i = 0 THEN Begun ELSE Collect(doc, h[i - 1], i)
    <3>1. CASE i = n + 1
      <4>1. i # 0 /\ i - 1 = n /\ i - 1 \in 0 .. n + 1 /\ h[i - 1] = g[n]
        BY <3>1
      <4> QED BY <3>1, <4>1
    <3>2. CASE i # n + 1
      <4>1. i \in 0 .. n /\ h[i] = g[i]
        BY <3>2
      <4>2. g[i] = IF i = 0 THEN Begun ELSE Collect(doc, g[i - 1], i)
        BY <2>1, <4>1
      <4>3. i # 0 => h[i - 1] = g[i - 1]
        BY <4>1
      <4> QED BY <4>1, <4>2, <4>3
    <3> QED BY <3>1, <3>2
  <2>3. Loop(h, n + 1)
    BY <2>2
  <2> HIDE DEF h, Loop
  <2>4. \E f : Loop(f, n + 1)
    BY <2>3
  <2> QED BY <2>4
<1>3. Len(doc) \in T
  <2>1. T = Nat
    BY <1>1, <1>2, SetInduction
  <2>2. Len(doc) \in Nat
    BY DEF Docs
  <2> QED BY <2>1, <2>2
<1>4. \E g : Loop(g, Len(doc))
  BY <1>3
<1>5. Collected(doc) = CHOOSE g : Loop(g, Len(doc))
  BY DEF Collected, Begun
<1> HIDE DEF T
<1>6. Loop(Collected(doc), Len(doc))
  BY <1>4, <1>5
<1> QED BY <1>6

\* What holds after every node.
LEMMA CollectedRight ==
  ASSUME NEW doc \in Docs
  PROVE  CollectInv(doc, Collected(doc)[Len(doc)], Len(doc))
<1> DEFINE T == {n \in Nat : n <= Len(doc) => CollectInv(doc, Collected(doc)[n], n)}
<1>1. Len(doc) \in Nat /\ DOMAIN doc = 1 .. Len(doc)
  BY DEF Docs
<1>2. \A i \in 0 .. Len(doc) : Collected(doc)[i] =
        IF i = 0 THEN Begun ELSE Collect(doc, Collected(doc)[i - 1], i)
  <2> DEFINE f == Collected(doc)
  <2>1. f = [i \in 0 .. Len(doc) |-> IF i = 0 THEN Begun ELSE Collect(doc, f[i - 1], i)]
    BY CollectedIs
  <2> HIDE DEF f
  <2>2. \A i \in 0 .. Len(doc) : f[i] = IF i = 0 THEN Begun ELSE Collect(doc, f[i - 1], i)
    BY <2>1
  <2> QED BY <2>2 DEF f
<1>3. 0 \in T
  BY <1>1, <1>2, CollectBegins
<1>4. ASSUME NEW n \in T PROVE n + 1 \in T
  <2> SUFFICES ASSUME n + 1 <= Len(doc)
               PROVE  CollectInv(doc, Collected(doc)[n + 1], n + 1)
    OBVIOUS
  <2>1. n \in Nat /\ n + 1 \in DOMAIN doc /\ n + 1 \in 0 .. Len(doc) /\ n + 1 # 0 /\ n + 1 - 1 = n
    BY <1>1
  <2>2. CollectInv(doc, Collected(doc)[n], n)
    BY <1>1, <2>1
  <2>3. Collected(doc)[n + 1] = Collect(doc, Collected(doc)[n], n + 1)
    BY <1>2, <2>1
  <2> QED BY <2>1, <2>2, <2>3, CollectStep
<1> HIDE DEF T
<1>5. T = Nat
  <2>1. T \in SUBSET Nat
    BY DEF T
  <2> QED BY <1>3, <1>4, <2>1, SetInduction
<1> QED BY <1>1, <1>5 DEF T

\* The sections hold the content, in order and under their headings.
LEMMA SectionsRight ==
  ASSUME NEW doc \in Docs
  PROVE  /\ SectionsOf(doc) \in Seq(SectionType)
         /\ Deals(NodesOf(SectionsOf(doc)), Content(doc))
         /\ UnderItsHeadings(doc, SectionsOf(doc))
<1> DEFINE end == Collected(doc)[Len(doc)]
           s == Section(end.stack, end.nodes)
           more == end.nodes # <<>> \/ end.sections = <<>>
<1>1. /\ end \in [sections : Seq(SectionType), nodes : Seq(Nat), stack : Seq(Nat)]
      /\ Deals(Append(NodesOf(end.sections), end.nodes), Upto(doc, Len(doc)))
      /\ UnderItsHeadings(doc, end.sections)
      /\ Range(end.stack) = Above(doc, Len(doc) + 1) /\ Increasing(end.stack)
      /\ \A m \in DOMAIN end.nodes : Above(doc, end.nodes[m]) = Above(doc, Len(doc) + 1)
  BY CollectedRight DEF CollectInv
<1>2. SectionsOf(doc) = IF more THEN Append(end.sections, s) ELSE end.sections
  BY DEF SectionsOf
<1> HIDE DEF end
<1>3. Upto(doc, Len(doc)) = Content(doc) /\ Content(doc) \in SUBSET Nat
  BY DocFacts DEF Upto, Content
<1>4. /\ s \in SectionType /\ s.path = end.stack /\ s.nodes = end.nodes
      /\ end.sections \in Seq(SectionType) /\ \A x \in SectionType : x.nodes \in Seq(Nat)
  BY <1>1 DEF Section, SectionType
<1> HIDE DEF s
<1>5. /\ NodesOf(end.sections) \in Seq(Seq(Nat))
      /\ NodesOf(Append(end.sections, s)) = Append(NodesOf(end.sections), end.nodes)
  BY <1>4, NodesMore
<1>6. CASE more
  <2>1. UnderItsHeadings(doc, Append(end.sections, s))
    BY <1>1, <1>4, UnderMore
  <2>2. Append(end.sections, s) \in Seq(SectionType)
    BY <1>4, AppendIs
  <2> QED BY <1>1, <1>2, <1>3, <1>5, <1>6, <2>1, <2>2
<1>7. CASE ~ more
  BY <1>1, <1>2, <1>3, <1>4, <1>5, <1>7, DealsDrop
<1> QED BY <1>6, <1>7

-----------------------------------------------------------------------------
(* Chunks *)

ChunkType == [path : Seq(Nat), nodes : Seq(Nat), tokens : Nat, oversized : BOOLEAN]

\* A sum of tokens is a number, of a node alone that node's, and zero only
\* when every node is empty.
LEMMA TotalIs ==
  ASSUME NEW doc \in Docs, NEW nodes \in Seq(DOMAIN doc)
  PROVE  Total(doc, nodes) \in Nat
<1> DEFINE len == Len(nodes)
           Loop(g, n) == g = [k \in 0 .. n |-> IF k = 0 THEN 0 ELSE g[k - 1] + doc[nodes[k]].tokens]
           Sum(g, n) == Loop(g, n) /\ \A k \in 0 .. n : g[k] \in Nat
           T == {n \in Nat : n <= len => \E g : Sum(g, n)}
<1>1. len \in Nat /\ \A k \in 1 .. len : nodes[k] \in DOMAIN doc /\ doc[nodes[k]].tokens \in Nat
  BY DocFacts
<1>2. 0 \in T
  <2> DEFINE g == [k \in 0 .. 0 |-> 0]
  <2>1. (\A k \in 0 .. 0 : k = 0) /\ 0 \in 0 .. 0
    OBVIOUS
  <2>2. Sum(g, 0)
    BY <2>1
  <2> HIDE DEF g, Sum
  <2>3. \E f : Sum(f, 0)
    BY <2>2
  <2> QED BY <2>3
<1>3. ASSUME NEW n \in T PROVE n + 1 \in T
  <2> SUFFICES ASSUME n + 1 <= len PROVE \E f : Sum(f, n + 1)
    <3> HIDE DEF Sum
    <3> QED OBVIOUS
  <2>1. PICK g : Sum(g, n)
    <3> HIDE DEF Sum
    <3> QED BY <1>1
  <2> DEFINE t == doc[nodes[n + 1]].tokens
             h == [k \in 0 .. n + 1 |-> IF k = n + 1 THEN g[n] + t ELSE g[k]]
  <2>2. t \in Nat /\ g[n] \in Nat /\ n \in Nat
    BY <1>1, <2>1
  <2>3. ASSUME NEW k \in 0 .. n + 1
        PROVE  /\ h[k] = IF k = 0 THEN 0 ELSE h[k - 1] + doc[nodes[k]].tokens
               /\ h[k] \in Nat
    <3>1. CASE k = n + 1
      <4>1. k # 0 /\ k - 1 = n /\ k - 1 \in 0 .. n + 1 /\ h[k - 1] = g[n] /\ h[k] = g[n] + t
        BY <2>2, <3>1
      <4> QED BY <2>2, <3>1, <4>1
    <3>2. CASE k # n + 1
      <4>1. k \in 0 .. n /\ h[k] = g[k]
        BY <2>2, <3>2
      <4>2. g[k] = (IF k = 0 THEN 0 ELSE g[k - 1] + doc[nodes[k]].tokens) /\ g[k] \in Nat
        BY <2>1, <4>1
      <4>3. k # 0 => h[k - 1] = g[k - 1]
        BY <2>2, <4>1
      <4> QED BY <4>1, <4>2, <4>3
    <3> QED BY <3>1, <3>2
  <2>4. Sum(h, n + 1)
    BY <2>3
  <2> HIDE DEF h, Sum
  <2> QED BY <2>4
<1>4. T = Nat
  <2> HIDE DEF T
  <2>1. T \in SUBSET Nat
    BY DEF T
  <2> QED BY <1>2, <1>3, <2>1, SetInduction
<1>5. PICK g : Sum(g, len)
  BY <1>1, <1>4
<1>6. Total(doc, nodes) = (CHOOSE f : Loop(f, len))[len]
  BY DEF Total
<1> DEFINE f == CHOOSE f : Loop(f, len)
<1>7. Loop(f, len)
  BY <1>5
<1>8. ASSUME NEW u, NEW v, Loop(u, len), Loop(v, len) PROVE u[len] = v[len]
  <2> DEFINE U == {n \in Nat : n <= len => u[n] = v[n]}
  <2>1. 0 \in U
    BY <1>1, <1>8
  <2>2. ASSUME NEW n \in U PROVE n + 1 \in U
    <3> SUFFICES ASSUME n + 1 <= len PROVE u[n + 1] = v[n + 1]
      OBVIOUS
    <3>1. n + 1 \in 0 .. len /\ n + 1 # 0 /\ n + 1 - 1 = n /\ u[n] = v[n]
      BY <1>1
    <3>2. u[n + 1] = u[n] + doc[nodes[n + 1]].tokens
      BY <1>8, <3>1
    <3>3. v[n + 1] = v[n] + doc[nodes[n + 1]].tokens
      BY <1>8, <3>1
    <3> QED BY <3>1, <3>2, <3>3
  <2> HIDE DEF U
  <2>3. U = Nat
    <3>1. U \in SUBSET Nat
      BY DEF U
    <3> QED BY <2>1, <2>2, <3>1, SetInduction
  <2> QED BY <1>1, <2>3 DEF U
<1>9. g[len] \in Nat /\ Loop(g, len)
  <2>1. len \in 0 .. len
    BY <1>1
  <2> QED BY <1>5, <2>1
<1> HIDE DEF f, Loop, len, Sum
<1>10. f[len] = g[len]
  BY <1>7, <1>8, <1>9
<1> QED BY <1>6, <1>9, <1>10 DEF f

\* The loop that fills chunks: what it has closed and what is open hold the
\* nodes so far, and a chunk too long is a single node.
PackInv(doc, path, acc, S) ==
  /\ acc \in [chunks : Seq(ChunkType), open : Seq(Nat), tokens : Nat]
  /\ Deals(Append(NodesOf(acc.chunks), acc.open), S)
  /\ UnderItsHeadings(doc, acc.chunks)
  /\ \A m \in DOMAIN acc.open : Range(path) = Above(doc, acc.open[m])
  /\ WithinLimit(doc, acc.chunks)
  /\ acc.open = <<>> <=> acc.tokens = 0
  /\ acc.tokens > MaxTokens =>
       \E i \in DOMAIN doc : acc.open = <<i>> /\ acc.tokens = doc[i].tokens

LEMMA ChunkNodes == \A x \in ChunkType : x.nodes \in Seq(Nat)
BY DEF ChunkType

\* A chunk that is put behind the others.
LEMMA ChunkMore ==
  ASSUME NEW doc \in Docs, NEW chunks \in Seq(ChunkType), NEW path \in Seq(Nat),
         NEW nodes \in Seq(Nat), NEW tokens \in Nat, NEW over \in BOOLEAN,
         UnderItsHeadings(doc, chunks), WithinLimit(doc, chunks), Increasing(path), nodes # <<>>,
         \A m \in DOMAIN nodes : Range(path) = Above(doc, nodes[m]),
         tokens > MaxTokens =>
           \E i \in DOMAIN doc : nodes = <<i>> /\ tokens = doc[i].tokens
  PROVE  /\ Append(chunks, Chunk(path, nodes, tokens, over)) \in Seq(ChunkType)
         /\ NodesOf(chunks) \in Seq(Seq(Nat))
         /\ NodesOf(Append(chunks, Chunk(path, nodes, tokens, over)))
              = Append(NodesOf(chunks), nodes)
         /\ UnderItsHeadings(doc, Append(chunks, Chunk(path, nodes, tokens, over)))
         /\ WithinLimit(doc, Append(chunks, Chunk(path, nodes, tokens, over)))
<1> DEFINE r == Chunk(path, nodes, tokens, over)
           more == Append(chunks, r)
<1>1. /\ r \in ChunkType /\ r.path = path /\ r.nodes = nodes /\ r.tokens = tokens
  BY DEF Chunk, ChunkType
<1> HIDE DEF r
<1>2. more \in Seq(ChunkType)
  BY <1>1, AppendIs
<1>3. NodesOf(chunks) \in Seq(Seq(Nat)) /\ NodesOf(more) = Append(NodesOf(chunks), nodes)
  BY <1>1, ChunkNodes, NodesMore
<1>4. UnderItsHeadings(doc, more)
  BY <1>1, UnderMore
<1>5. WithinLimit(doc, more)
  <2> SUFFICES ASSUME NEW c \in DOMAIN more
               PROVE  /\ more[c].nodes # <<>>
                      /\ more[c].tokens > MaxTokens =>
                           \E i \in DOMAIN doc : more[c].nodes = <<i>> /\ more[c].tokens = doc[i].tokens
    BY DEF WithinLimit
  <2>1. (c \in DOMAIN chunks /\ more[c] = chunks[c]) \/ more[c] = r
    BY <1>1, AppendIs
  <2> QED BY <1>1, <2>1 DEF WithinLimit
<1> QED BY <1>2, <1>3, <1>4, <1>5 DEF r

\* Closing the open chunk.
LEMMA FlushedRight ==
  ASSUME NEW doc \in Docs, NEW path \in Seq(Nat), NEW acc, NEW S \in SUBSET Nat,
         NEW over \in BOOLEAN, PackInv(doc, path, acc, S), Increasing(path)
  PROVE  /\ PackInv(doc, path, Flushed(acc, path, over), S)
         /\ Flushed(acc, path, over).open = <<>> /\ Flushed(acc, path, over).tokens = 0
<1>1. acc \in [chunks : Seq(ChunkType), open : Seq(Nat), tokens : Nat]
  BY DEF PackInv
<1>2. CASE acc.tokens = 0
  <2>1. Flushed(acc, path, over) = acc /\ acc.open = <<>>
    BY <1>2 DEF Flushed, PackInv
  <2> QED BY <1>2, <2>1
<1>3. CASE acc.tokens # 0
  <2> DEFINE more == Append(acc.chunks, Chunk(path, acc.open, acc.tokens, over))
             new == Flushed(acc, path, over)
  <2>1. new = [chunks |-> more, open |-> <<>>, tokens |-> 0]
    BY <1>3 DEF Flushed
  <2>2. acc.chunks \in Seq(ChunkType) /\ acc.open \in Seq(Nat) /\ acc.tokens \in Nat
    BY <1>1
  <2>3. /\ Deals(Append(NodesOf(acc.chunks), acc.open), S)
        /\ UnderItsHeadings(doc, acc.chunks)
        /\ \A m \in DOMAIN acc.open : Range(path) = Above(doc, acc.open[m])
        /\ WithinLimit(doc, acc.chunks)
        /\ acc.tokens > MaxTokens =>
             \E i \in DOMAIN doc : acc.open = <<i>> /\ acc.tokens = doc[i].tokens
    BY DEF PackInv
  <2>4. /\ more \in Seq(ChunkType) /\ NodesOf(acc.chunks) \in Seq(Seq(Nat))
        /\ NodesOf(more) = Append(NodesOf(acc.chunks), acc.open)
        /\ UnderItsHeadings(doc, more) /\ WithinLimit(doc, more)
    <3> DEFINE chunks == acc.chunks
               nodes == acc.open
               tokens == acc.tokens
    <3>1. /\ chunks \in Seq(ChunkType) /\ nodes \in Seq(Nat) /\ tokens \in Nat
          /\ UnderItsHeadings(doc, chunks) /\ WithinLimit(doc, chunks)
          /\ \A m \in DOMAIN nodes : Range(path) = Above(doc, nodes[m])
          /\ tokens > MaxTokens => \E i \in DOMAIN doc : nodes = <<i>> /\ tokens = doc[i].tokens
          /\ nodes # <<>>
      BY <1>3, <2>2, <2>3 DEF PackInv
    <3> HIDE DEF chunks, nodes, tokens
    <3>2. /\ Append(chunks, Chunk(path, nodes, tokens, over)) \in Seq(ChunkType)
          /\ NodesOf(chunks) \in Seq(Seq(Nat))
          /\ NodesOf(Append(chunks, Chunk(path, nodes, tokens, over)))
               = Append(NodesOf(chunks), nodes)
          /\ UnderItsHeadings(doc, Append(chunks, Chunk(path, nodes, tokens, over)))
          /\ WithinLimit(doc, Append(chunks, Chunk(path, nodes, tokens, over)))
      BY <3>1, ChunkMore
    <3> QED BY <3>2 DEF chunks, nodes, tokens
  <2>5. Append(NodesOf(acc.chunks), acc.open) \in Seq(Seq(Nat))
    <3> DEFINE f == NodesOf(acc.chunks)
    <3>1. f \in Seq(Seq(Nat)) /\ acc.open \in Seq(Nat)
      BY <2>2, <2>4
    <3> HIDE DEF f
    <3>2. Append(f, acc.open) \in Seq(Seq(Nat))
      BY <3>1
    <3> QED BY <3>2 DEF f
  <2> HIDE DEF more, new
  <2>6. Deals(Append(NodesOf(more), <<>>), S)
    BY <2>3, <2>4, <2>5, DealsClose
  <2>7. /\ new \in [chunks : Seq(ChunkType), open : Seq(Nat), tokens : Nat]
        /\ new.chunks = more /\ new.open = <<>> /\ new.tokens = 0
    BY <2>1, <2>4, EmptyIs
  <2>8. ~ (0 > MaxTokens)
    BY MaxTokensAssumption
  <2>9. PackInv(doc, path, new, S)
    BY <2>4, <2>6, <2>7, <2>8, EmptyIs DEF PackInv
  <2> QED BY <2>7, <2>9 DEF new
<1> QED BY <1>2, <1>3

\* One more node of the section.
LEMMA PackStep ==
  ASSUME NEW doc \in Docs, NEW path \in Seq(Nat), NEW acc, NEW S \in SUBSET Nat,
         PackInv(doc, path, acc, S), Increasing(path),
         NEW i \in Content(doc), Range(path) = Above(doc, i), \A y \in S : y < i
  PROVE  PackInv(doc, path, Pack(doc, path, acc, i), S \union {i})
<1> DEFINE t == doc[i].tokens
<1>1. i \in DOMAIN doc /\ i \in Nat /\ t \in Nat /\ t > 0
  BY DocFacts DEF Content
<1>2. acc.tokens \in Nat /\ MaxTokens \in Nat
  BY MaxTokensAssumption DEF PackInv
<1>3. CASE Atomic(doc[i]) /\ t > MaxTokens
  <2> DEFINE f == Flushed(acc, path, acc.tokens > MaxTokens)
             r == Chunk(path, <<i>>, t, TRUE)
             more == Append(f.chunks, r)
             new == Pack(doc, path, acc, i)
  <2>1. PackInv(doc, path, f, S) /\ f.open = <<>> /\ f.tokens = 0
    <3> DEFINE over == acc.tokens > MaxTokens
    <3>1. over \in BOOLEAN
      OBVIOUS
    <3> HIDE DEF over
    <3>2. /\ PackInv(doc, path, Flushed(acc, path, over), S)
          /\ Flushed(acc, path, over).open = <<>> /\ Flushed(acc, path, over).tokens = 0
      BY <3>1, FlushedRight
    <3> QED BY <3>2 DEF over
  <2>2. new = [f EXCEPT !.chunks = more]
    BY <1>3 DEF Pack
  <2> HIDE DEF f
  <2>3. /\ f \in [chunks : Seq(ChunkType), open : Seq(Nat), tokens : Nat]
        /\ Deals(Append(NodesOf(f.chunks), <<>>), S)
        /\ UnderItsHeadings(doc, f.chunks) /\ WithinLimit(doc, f.chunks)
    BY <2>1 DEF PackInv
  <2>4. f.chunks \in Seq(ChunkType)
    BY <2>3
  <2>5. <<i>> \in Seq(Nat) /\ DOMAIN <<i>> = {1} /\ <<i>>[1] = i
    BY <1>1
  <2>6. /\ more \in Seq(ChunkType) /\ NodesOf(f.chunks) \in Seq(Seq(Nat))
        /\ NodesOf(more) = Append(NodesOf(f.chunks), <<i>>)
        /\ UnderItsHeadings(doc, more) /\ WithinLimit(doc, more)
    <3> DEFINE chunks == f.chunks
               nodes == <<i>>
    <3>1. /\ chunks \in Seq(ChunkType) /\ nodes \in Seq(Nat)
          /\ UnderItsHeadings(doc, chunks) /\ WithinLimit(doc, chunks)
          /\ \A m \in DOMAIN nodes : Range(path) = Above(doc, nodes[m])
          /\ t > MaxTokens => \E k \in DOMAIN doc : nodes = <<k>> /\ t = doc[k].tokens
          /\ nodes # <<>>
      BY <1>1, <2>3, <2>4, <2>5
    <3> HIDE DEF chunks, nodes, t
    <3>2. /\ Append(chunks, Chunk(path, nodes, t, TRUE)) \in Seq(ChunkType)
          /\ NodesOf(chunks) \in Seq(Seq(Nat))
          /\ NodesOf(Append(chunks, Chunk(path, nodes, t, TRUE)))
               = Append(NodesOf(chunks), nodes)
          /\ UnderItsHeadings(doc, Append(chunks, Chunk(path, nodes, t, TRUE)))
          /\ WithinLimit(doc, Append(chunks, Chunk(path, nodes, t, TRUE)))
      BY <1>1, <3>1, ChunkMore
    <3> QED BY <3>2 DEF chunks, nodes, t
  <2>7. Deals(NodesOf(more), S \union {i})
    <3> DEFINE lists == NodesOf(f.chunks)
    <3>1. lists \in Seq(Seq(Nat)) /\ Deals(lists, S)
      BY <2>3, <2>6, DealsDrop
    <3>2. Range(<<i>>) = {i} /\ Increasing(<<i>>)
      BY <2>5 DEF Range, Increasing
    <3> HIDE DEF lists
    <3>3. Deals(Append(lists, <<i>>), S \union {i})
      BY <2>5, <3>1, <3>2, DealsAdd
    <3> QED BY <2>6, <3>3 DEF lists
  <2>8. NodesOf(more) \in Seq(Seq(Nat))
    <3>1. r \in ChunkType
      BY <1>1, <2>5 DEF Chunk, ChunkType
    <3> HIDE DEF more, r
    <3> QED BY <2>6, <3>1, ChunkNodes, NodesMore
  <2> HIDE DEF more
  <2>9. Deals(Append(NodesOf(more), <<>>), S \union {i})
    BY <1>1, <2>7, <2>8, DealsClose
  <2>10. new = [chunks |-> more, open |-> <<>>, tokens |-> 0]
    BY <2>1, <2>2, <2>3
  <2> HIDE DEF new
  <2>11. /\ new \in [chunks : Seq(ChunkType), open : Seq(Nat), tokens : Nat]
         /\ new.chunks = more /\ new.open = <<>> /\ new.tokens = 0
    BY <2>6, <2>10, EmptyIs
  <2>12. ~ (0 > MaxTokens)
    BY <1>2
  <2>13. PackInv(doc, path, new, S \union {i})
    BY <2>6, <2>9, <2>11, <2>12, EmptyIs DEF PackInv
  <2> QED BY <2>13 DEF new
<1>4. CASE ~ (Atomic(doc[i]) /\ t > MaxTokens)
  <2> DEFINE full == acc.tokens > 0 /\ acc.tokens + t > MaxTokens
             f == IF full THEN Flushed(acc, path, FALSE) ELSE acc
             new == Pack(doc, path, acc, i)
  <2>1. new = [f EXCEPT !.open = Append(@, i), !.tokens = @ + t]
    BY <1>4 DEF Pack
  <2>2. PackInv(doc, path, f, S) /\ (f.tokens = 0 \/ f.tokens + t <= MaxTokens)
    <3>1. CASE full
      <4>1. f = Flushed(acc, path, FALSE)
        BY <3>1
      <4> HIDE DEF f
      <4> QED BY <4>1, FlushedRight
    <3>2. CASE ~ full
      <4>1. f = acc
        BY <3>2
      <4>2. acc.tokens = 0 \/ acc.tokens + t <= MaxTokens
        BY <1>1, <1>2, <3>2
      <4> HIDE DEF f
      <4> QED BY <4>1, <4>2
    <3> QED BY <3>1, <3>2
  <2> HIDE DEF f
  <2>3. /\ f \in [chunks : Seq(ChunkType), open : Seq(Nat), tokens : Nat]
        /\ Deals(Append(NodesOf(f.chunks), f.open), S)
        /\ UnderItsHeadings(doc, f.chunks) /\ WithinLimit(doc, f.chunks)
        /\ \A m \in DOMAIN f.open : Range(path) = Above(doc, f.open[m])
        /\ f.open = <<>> <=> f.tokens = 0
    BY <2>2 DEF PackInv
  <2>4. f.chunks \in Seq(ChunkType) /\ f.open \in Seq(Nat) /\ f.tokens \in Nat
    BY <2>3
  <2>5. new = [chunks |-> f.chunks, open |-> Append(f.open, i), tokens |-> f.tokens + t]
    BY <2>1, <2>3
  <2>6. Append(f.open, i) \in Seq(Nat) /\ f.tokens + t \in Nat /\ f.tokens + t # 0
    BY <1>1, <2>4
  <2> HIDE DEF new
  <2>7. /\ new \in [chunks : Seq(ChunkType), open : Seq(Nat), tokens : Nat]
        /\ new.chunks = f.chunks /\ new.open = Append(f.open, i) /\ new.tokens = f.tokens + t
    BY <2>4, <2>5, <2>6
  <2>8. Deals(Append(NodesOf(f.chunks), Append(f.open, i)), S \union {i})
    <3> DEFINE lists == NodesOf(f.chunks)
               l == f.open
    <3>1. lists \in Seq(Seq(Nat))
      BY <2>4, ChunkNodes, NodesMore, Chunk(path, <<>>, 0, TRUE) \in ChunkType, EmptyIs DEF Chunk, ChunkType
    <3>2. l \in Seq(Nat) /\ Deals(Append(lists, l), S)
      BY <2>3, <2>4
    <3> HIDE DEF lists, l
    <3>3. Deals(Append(lists, Append(l, i)), S \union {i})
      BY <1>1, <3>1, <3>2, DealsMore
    <3> QED BY <3>3 DEF lists, l
  <2>9. \A m \in DOMAIN Append(f.open, i) : Range(path) = Above(doc, Append(f.open, i)[m])
    <3>1. \A m \in DOMAIN Append(f.open, i) :
            \/ m \in DOMAIN f.open /\ Append(f.open, i)[m] = f.open[m]
            \/ Append(f.open, i)[m] = i
      BY <1>1, <2>4, AppendIs
    <3> QED BY <2>3, <3>1
  <2>10. Append(f.open, i) # <<>>
    <3> DEFINE l == f.open
               longer == Append(l, i)
    <3>1. l \in Seq(Nat)
      BY <2>4
    <3> HIDE DEF l
    <3>2. Len(longer) = Len(l) + 1 /\ Len(l) \in Nat
      BY <1>1, <3>1, AppendIs
    <3> HIDE DEF longer
    <3>3. longer # <<>>
      BY <3>2, EmptyIs
    <3> QED BY <3>3 DEF longer, l
  <2>11. f.tokens + t > MaxTokens =>
           \E k \in DOMAIN doc : Append(f.open, i) = <<k>> /\ f.tokens + t = doc[k].tokens
    <3> SUFFICES ASSUME f.tokens + t > MaxTokens
                 PROVE  Append(f.open, i) = <<i>> /\ f.tokens + t = doc[i].tokens
      BY <1>1
    <3>1. f.tokens = 0
      BY <1>1, <1>2, <2>2, <2>4
    <3>2. f.open = <<>>
      BY <2>3, <3>1
    <3> QED BY <1>1, <3>1, <3>2
  <2>12. PackInv(doc, path, new, S \union {i})
    BY <2>3, <2>6, <2>7, <2>8, <2>9, <2>10, <2>11 DEF PackInv
  <2> QED BY <2>12 DEF new
<1> QED BY <1>3, <1>4

\* The state the filling begins with.
Opened(chunks) == [chunks |-> chunks, open |-> <<>>, tokens |-> 0]

\* The recursive function of that loop obeys its own equation.
LEMMA PackedIs ==
  ASSUME NEW doc, NEW chunks, NEW s, s.nodes \in Seq(Nat)
  PROVE  \A k \in 0 .. Len(s.nodes) : Packed(doc, chunks, s)[k] =
           IF k = 0 THEN Opened(chunks)
                    ELSE Pack(doc, s.path, Packed(doc, chunks, s)[k - 1], s.nodes[k])
<1> DEFINE Loop(g, n) == g = [k \in 0 .. n |->
             IF k = 0 THEN Opened(chunks) ELSE Pack(doc, s.path, g[k - 1], s.nodes[k])]
           T == {n \in Nat : \E g : Loop(g, n)}
<1>1. 0 \in T
  <2> DEFINE g == [k \in 0 .. 0 |-> Opened(chunks)]
  <2>1. \A k \in 0 .. 0 : k = 0
    OBVIOUS
  <2>2. Loop(g, 0)
    BY <2>1
  <2> QED BY <2>2
<1>2. ASSUME NEW n \in T PROVE n + 1 \in T
  <2>1. PICK g : Loop(g, n)
    OBVIOUS
  <2> DEFINE h == [k \in 0 .. n + 1 |->
                     IF k = n + 1 THEN Pack(doc, s.path, g[n], s.nodes[n + 1]) ELSE g[k]]
  <2>2. ASSUME NEW k \in 0 .. n + 1
        PROVE  h[k] = IF k = 0 THEN Opened(chunks) ELSE Pack(doc, s.path, h[k - 1], s.nodes[k])
    <3>1. CASE k = n + 1
      <4>1. k # 0 /\ k - 1 = n /\ k - 1 \in 0 .. n + 1 /\ h[k - 1] = g[n]
        BY <3>1
      <4> QED BY <3>1, <4>1
    <3>2. CASE k # n + 1
      <4>1. k \in 0 .. n /\ h[k] = g[k]
        BY <3>2
      <4>2. g[k] = IF k = 0 THEN Opened(chunks) ELSE Pack(doc, s.path, g[k - 1], s.nodes[k])
        BY <2>1, <4>1
      <4>3. k # 0 => h[k - 1] = g[k - 1]
        BY <4>1
      <4> QED BY <4>1, <4>2, <4>3
    <3> QED BY <3>1, <3>2
  <2>3. Loop(h, n + 1)
    BY <2>2
  <2> HIDE DEF h, Loop
  <2>4. \E f : Loop(f, n + 1)
    BY <2>3
  <2> QED BY <2>4
<1>3. Len(s.nodes) \in T
  <2>1. T = Nat
    BY <1>1, <1>2, SetInduction
  <2> QED BY <2>1
<1>4. \E g : Loop(g, Len(s.nodes))
  BY <1>3
<1> DEFINE f == CHOOSE g : Loop(g, Len(s.nodes))
<1>5. Packed(doc, chunks, s) = f
  BY DEF Packed, Opened
<1>6. Loop(f, Len(s.nodes))
  <2> HIDE DEF Loop
  <2> QED BY <1>4
<1> HIDE DEF f
<1>7. \A k \in 0 .. Len(s.nodes) : f[k] =
        IF k = 0 THEN Opened(chunks) ELSE Pack(doc, s.path, f[k - 1], s.nodes[k])
  BY <1>6
<1> QED BY <1>5, <1>7

\* One section of the loop: the chunks cover what they covered, and its nodes.
LEMMA SplitRight ==
  ASSUME NEW doc \in Docs, NEW chunks \in Seq(ChunkType), NEW s \in SectionType,
         NEW S \in SUBSET Nat,
         Deals(NodesOf(chunks), S), UnderItsHeadings(doc, chunks), WithinLimit(doc, chunks),
         Increasing(s.nodes), s.nodes # <<>> => Increasing(s.path),
         \A m \in DOMAIN s.nodes : /\ s.nodes[m] \in Content(doc)
                                   /\ Range(s.path) = Above(doc, s.nodes[m])
                                   /\ \A y \in S : y < s.nodes[m]
  PROVE  /\ Split(doc, chunks, s) \in Seq(ChunkType)
         /\ Deals(NodesOf(Split(doc, chunks, s)), S \union Range(s.nodes))
         /\ UnderItsHeadings(doc, Split(doc, chunks, s))
         /\ WithinLimit(doc, Split(doc, chunks, s))
<1> DEFINE nodes == s.nodes
           path == s.path
           new == Split(doc, chunks, s)
<1>1. nodes \in Seq(Nat) /\ path \in Seq(Nat)
  BY DEF SectionType
<1>2. /\ Increasing(nodes) /\ (nodes # <<>> => Increasing(path))
      /\ \A m \in DOMAIN nodes : /\ nodes[m] \in Content(doc)
                                 /\ Range(path) = Above(doc, nodes[m])
                                 /\ \A y \in S : y < nodes[m]
  OBVIOUS
<1>3. NodesOf(chunks) \in Seq(Seq(Nat))
  BY ChunkNodes, NodesMore, EmptyIs, [path |-> <<>>, nodes |-> <<>>, tokens |-> 0, oversized |-> TRUE] \in ChunkType
     DEF ChunkType
<1>4. CASE nodes = <<>>
  <2>1. new = chunks
    BY <1>4 DEF Split
  <2>2. S \union Range(s.nodes) = S
    BY <1>4, EmptyIs
  <2> QED BY <2>1, <2>2
<1>5. CASE nodes # <<>> /\ Total(doc, nodes) <= MaxTokens
  <2> DEFINE t == Total(doc, nodes)
  <2>1. new = Append(chunks, Chunk(path, nodes, t, FALSE))
    BY <1>5 DEF Split
  <2>2. nodes \in Seq(DOMAIN doc)
    <3>1. \A m \in DOMAIN nodes : nodes[m] \in DOMAIN doc
      BY <1>2 DEF Content
    <3> HIDE DEF nodes
    <3> QED BY <1>1, <3>1
  <2>3. t \in Nat /\ ~ (t > MaxTokens)
    BY <1>5, <2>2, TotalIs, MaxTokensAssumption
  <2>4. \A x \in Range(nodes), y \in S : y < x
    BY <1>2 DEF Range
  <2> HIDE DEF t, nodes, path
  <2>5. /\ Append(chunks, Chunk(path, nodes, t, FALSE)) \in Seq(ChunkType)
        /\ NodesOf(Append(chunks, Chunk(path, nodes, t, FALSE))) = Append(NodesOf(chunks), nodes)
        /\ UnderItsHeadings(doc, Append(chunks, Chunk(path, nodes, t, FALSE)))
        /\ WithinLimit(doc, Append(chunks, Chunk(path, nodes, t, FALSE)))
    <3>1. /\ UnderItsHeadings(doc, chunks) /\ WithinLimit(doc, chunks)
          /\ Increasing(path) /\ \A m \in DOMAIN nodes : Range(path) = Above(doc, nodes[m])
          /\ t > MaxTokens => \E i \in DOMAIN doc : nodes = <<i>> /\ t = doc[i].tokens
          /\ nodes # <<>>
      BY <1>2, <1>5, <2>3
    <3>2. PICK o \in BOOLEAN : o = FALSE
      OBVIOUS
    <3>3. /\ Append(chunks, Chunk(path, nodes, t, o)) \in Seq(ChunkType)
          /\ NodesOf(Append(chunks, Chunk(path, nodes, t, o))) = Append(NodesOf(chunks), nodes)
          /\ UnderItsHeadings(doc, Append(chunks, Chunk(path, nodes, t, o)))
          /\ WithinLimit(doc, Append(chunks, Chunk(path, nodes, t, o)))
      BY <1>1, <2>3, <3>1, <3>2, ChunkMore
    <3> QED BY <3>2, <3>3
  <2>6. Deals(Append(NodesOf(chunks), nodes), S \union Range(nodes))
    <3> DEFINE lists == NodesOf(chunks)
    <3>1. /\ lists \in Seq(Seq(Nat)) /\ nodes \in Seq(Nat) /\ Deals(lists, S) /\ Increasing(nodes)
          /\ \A x \in Range(nodes), y \in S : y < x
      BY <1>1, <1>2, <1>3, <2>4
    <3> HIDE DEF lists
    <3>2. Deals(Append(lists, nodes), S \union Range(nodes))
      BY <3>1, DealsAdd
    <3> QED BY <3>2 DEF lists
  <2> HIDE DEF new
  <2>7. /\ new \in Seq(ChunkType) /\ Deals(NodesOf(new), S \union Range(nodes))
        /\ UnderItsHeadings(doc, new) /\ WithinLimit(doc, new)
    BY <2>1, <2>5, <2>6
  <2> QED BY <2>7 DEF new, nodes
<1>6. CASE nodes # <<>> /\ ~ (Total(doc, nodes) <= MaxTokens)
  <2> DEFINE len == Len(nodes)
             f == Packed(doc, chunks, s)
             Done(k) == S \union {nodes[m] : m \in 1 .. k}
             T == {k \in Nat : k <= len => PackInv(doc, path, f[k], Done(k))}
  <2>1. len \in Nat /\ DOMAIN nodes = 1 .. len
    BY <1>1
  <2>2. \A k \in 0 .. len : f[k] =
          IF k = 0 THEN Opened(chunks) ELSE Pack(doc, path, f[k - 1], nodes[k])
    BY <1>1, PackedIs
  <2>3. \A k \in 0 .. len : Done(k) \in SUBSET Nat
    <3> SUFFICES ASSUME NEW k \in 0 .. len, NEW m \in 1 .. k PROVE nodes[m] \in Nat
      OBVIOUS
    <3>1. m \in 1 .. len
      BY <2>1
    <3> QED BY <1>1, <3>1
  <2> HIDE DEF f, nodes, path, len
  <2>4. 0 \in T
    <3>1. 0 \in 0 .. len /\ 1 .. 0 = {}
      BY <2>1
    <3>2. Done(0) = S
      BY <3>1
    <3>3. f[0] = Opened(chunks)
      BY <2>2, <3>1
    <3>4. Deals(Append(NodesOf(chunks), <<>>), S)
      BY <1>3, DealsClose
    <3>5. /\ Opened(chunks) \in [chunks : Seq(ChunkType), open : Seq(Nat), tokens : Nat]
          /\ Opened(chunks).chunks = chunks /\ Opened(chunks).open = <<>> /\ Opened(chunks).tokens = 0
      BY EmptyIs DEF Opened
    <3>6. ~ (0 > MaxTokens)
      BY MaxTokensAssumption
    <3>7. PackInv(doc, path, Opened(chunks), S)
      BY <3>4, <3>5, <3>6, EmptyIs DEF PackInv
    <3> QED BY <3>2, <3>3, <3>7
  <2>5. ASSUME NEW k \in T PROVE k + 1 \in T
    <3> SUFFICES ASSUME k + 1 <= len PROVE PackInv(doc, path, f[k + 1], Done(k + 1))
      OBVIOUS
    <3>1. /\ k \in Nat /\ k \in 0 .. len /\ k + 1 \in 1 .. len /\ k + 1 \in 0 .. len
          /\ k + 1 # 0 /\ k + 1 - 1 = k
      BY <2>1
    <3>2. PackInv(doc, path, f[k], Done(k))
      BY <2>1, <3>1
    <3>3. f[k + 1] = Pack(doc, path, f[k], nodes[k + 1])
      BY <2>2, <3>1
    <3>4. Done(k + 1) = Done(k) \union {nodes[k + 1]}
      <4>1. \A m \in 1 .. k + 1 : m = k + 1 \/ m \in 1 .. k
        BY <3>1
      <4>2. \A m \in 1 .. k : m \in 1 .. k + 1
        BY <3>1
      <4>3. k + 1 \in 1 .. k + 1
        BY <3>1
      <4> QED BY <4>1, <4>2, <4>3
    <3>5. nodes[k + 1] \in Content(doc) /\ Range(path) = Above(doc, nodes[k + 1])
      BY <1>2, <2>1, <3>1
    <3>6. \A y \in Done(k) : y < nodes[k + 1]
      <4>1. \A y \in S : y < nodes[k + 1]
        BY <1>2, <2>1, <3>1
      <4>2. ASSUME NEW m \in 1 .. k PROVE nodes[m] < nodes[k + 1]
        <5>1. m \in 1 .. len /\ m < k + 1
          BY <2>1, <3>1
        <5> QED BY <1>2, <2>1, <3>1, <5>1 DEF Increasing
      <4> QED BY <4>1, <4>2
    <3>7. Done(k) \in SUBSET Nat
      BY <2>3, <3>1
    <3> DEFINE D == Done(k)
               acc == f[k]
               i == nodes[k + 1]
    <3>8. /\ D \in SUBSET Nat /\ PackInv(doc, path, acc, D) /\ i \in Content(doc)
          /\ Range(path) = Above(doc, i) /\ \A y \in D : y < i
      BY <3>2, <3>5, <3>6, <3>7
    <3> HIDE DEF D, acc, i
    <3>9. PackInv(doc, path, Pack(doc, path, acc, i), D \union {i})
      <4>1. Increasing(path) /\ path \in Seq(Nat)
        BY <1>1, <1>2, <1>6
      <4> QED BY <3>8, <4>1, PackStep
    <3>10. PackInv(doc, path, Pack(doc, path, f[k], nodes[k + 1]), Done(k) \union {nodes[k + 1]})
      BY <3>9 DEF D, acc, i
    <3> QED BY <3>3, <3>4, <3>10
  <2>6. T = Nat
    <3> HIDE DEF T
    <3>1. T \in SUBSET Nat
      BY DEF T
    <3> QED BY <2>4, <2>5, <3>1, SetInduction
  <2> DEFINE end == f[len]
             over == end.tokens > MaxTokens
  <2>7. PackInv(doc, path, end, Done(len)) /\ Done(len) \in SUBSET Nat
    <3>1. PackInv(doc, path, f[len], Done(len))
      <4>1. len \in T
        BY <2>1, <2>6
      <4>2. len <= len
        BY <2>1
      <4> QED BY <4>1, <4>2
    <3>2. len \in 0 .. len
      BY <2>1
    <3> QED BY <2>3, <3>1, <3>2
  <2>8. new = Flushed(end, path, over).chunks
    BY <1>6 DEF Split, f, len, nodes, path
  <2>9. Done(len) = S \union Range(nodes)
    BY <2>1 DEF Range
  <2>10. over \in BOOLEAN
    OBVIOUS
  <2> DEFINE fl == Flushed(end, path, over)
             D == Done(len)
  <2> HIDE DEF over, end, D, new
  <2>11. D \in SUBSET Nat /\ PackInv(doc, path, end, D) /\ D = S \union Range(nodes)
    BY <2>7, <2>9 DEF D
  <2>12. PackInv(doc, path, fl, D) /\ fl.open = <<>>
    <3>1. Increasing(path) /\ path \in Seq(Nat)
      BY <1>1, <1>2, <1>6
    <3>2. over \in BOOLEAN
      BY <2>10
    <3> QED BY <2>11, <3>1, <3>2, FlushedRight
  <2> HIDE DEF fl
  <2>13. new = fl.chunks
    BY <2>8 DEF fl
  <2>14. /\ fl.chunks \in Seq(ChunkType)
         /\ Deals(Append(NodesOf(fl.chunks), <<>>), D)
         /\ UnderItsHeadings(doc, fl.chunks) /\ WithinLimit(doc, fl.chunks)
    BY <2>12 DEF PackInv
  <2>15. NodesOf(fl.chunks) \in Seq(Seq(Nat))
    BY <2>14, ChunkNodes, NodesMore, EmptyIs,
       [path |-> <<>>, nodes |-> <<>>, tokens |-> 0, oversized |-> TRUE] \in ChunkType
       DEF ChunkType
  <2>16. Deals(NodesOf(fl.chunks), D)
    BY <2>11, <2>14, <2>15, DealsDrop
  <2>17. /\ new \in Seq(ChunkType) /\ Deals(NodesOf(new), S \union Range(nodes))
         /\ UnderItsHeadings(doc, new) /\ WithinLimit(doc, new)
    BY <2>11, <2>13, <2>14, <2>16
  <2> QED BY <2>17 DEF new, nodes
<1> QED BY <1>4, <1>5, <1>6

\* What the chunker promises of a body.
ChunksRight(doc, chunks) ==
  /\ chunks \in Seq(ChunkType)
  /\ CoversInOrder(doc, chunks) /\ UnderItsHeadings(doc, chunks) /\ WithinLimit(doc, chunks)

\* The loop over the sections.
LEMMA ChunksOfRight ==
  ASSUME NEW doc \in Docs
  PROVE  ChunksRight(doc, ChunksOf(doc))
<1> DEFINE secs == SectionsOf(doc)
           len == Len(secs)
           Loop(g, n) == g = [k \in 0 .. n |-> IF k = 0 THEN <<>> ELSE Split(doc, g[k - 1], secs[k])]
           T == {n \in Nat : \E g : Loop(g, n)}
<1>1. secs \in Seq(SectionType) /\ Deals(NodesOf(secs), Content(doc)) /\ UnderItsHeadings(doc, secs)
  BY SectionsRight
<1>2. 0 \in T
  <2> DEFINE g == [k \in 0 .. 0 |-> <<>>]
  <2>1. \A k \in 0 .. 0 : k = 0
    OBVIOUS
  <2>2. Loop(g, 0)
    BY <2>1
  <2> QED BY <2>2
<1>3. ASSUME NEW n \in T PROVE n + 1 \in T
  <2>1. PICK g : Loop(g, n)
    OBVIOUS
  <2> DEFINE h == [k \in 0 .. n + 1 |->
                     IF k = n + 1 THEN Split(doc, g[n], secs[n + 1]) ELSE g[k]]
  <2>2. ASSUME NEW k \in 0 .. n + 1
        PROVE  h[k] = IF k = 0 THEN <<>> ELSE Split(doc, h[k - 1], secs[k])
    <3>1. CASE k = n + 1
      <4>1. k # 0 /\ k - 1 = n /\ k - 1 \in 0 .. n + 1 /\ h[k - 1] = g[n]
        BY <3>1
      <4> QED BY <3>1, <4>1
    <3>2. CASE k # n + 1
      <4>1. k \in 0 .. n /\ h[k] = g[k]
        BY <3>2
      <4>2. g[k] = IF k = 0 THEN <<>> ELSE Split(doc, g[k - 1], secs[k])
        BY <2>1, <4>1
      <4>3. k # 0 => h[k - 1] = g[k - 1]
        BY <4>1
      <4> QED BY <4>1, <4>2, <4>3
    <3> QED BY <3>1, <3>2
  <2>3. Loop(h, n + 1)
    BY <2>2
  <2> HIDE DEF h, Loop
  <2>4. \E f : Loop(f, n + 1)
    BY <2>3
  <2> QED BY <2>4
<1>4. T = Nat
  <2> HIDE DEF T
  <2>1. T \in SUBSET Nat
    BY DEF T
  <2> QED BY <1>2, <1>3, <2>1, SetInduction
<1>5. len \in Nat /\ DOMAIN secs = 1 .. len
  BY <1>1
<1> DEFINE f == CHOOSE g : Loop(g, len)
<1>6. Loop(f, len)
  <2> HIDE DEF Loop
  <2>1. \E g : Loop(g, len)
    BY <1>4, <1>5
  <2> QED BY <2>1
<1>7. ChunksOf(doc) = f[len]
  BY DEF ChunksOf
<1> HIDE DEF f, T
<1>8. \A k \in 0 .. len : f[k] = IF k = 0 THEN <<>> ELSE Split(doc, f[k - 1], secs[k])
  <2> HIDE DEF len, secs
  <2> QED BY <1>6
<1> HIDE DEF Loop, len, secs
<1> DEFINE Done(n) == UNION {Range(secs[k].nodes) : k \in 1 .. n}
           Good(n) == /\ f[n] \in Seq(ChunkType)
                      /\ Deals(NodesOf(f[n]), Done(n))
                      /\ UnderItsHeadings(doc, f[n]) /\ WithinLimit(doc, f[n])
           U == {n \in Nat : n <= len => Good(n)}
<1>9. 0 \in U
  <2>1. f[0] = <<>>
    BY <1>5, <1>8
  <2>2. Done(0) = {}
    OBVIOUS
  <2>3. Good(0)
    BY <2>1, <2>2, EmptyIs DEF UnderItsHeadings, WithinLimit
  <2> QED BY <2>3
<1>10. \A k \in 1 .. len : /\ secs[k] \in SectionType /\ secs[k].nodes \in Seq(Nat)
                           /\ \A m \in DOMAIN secs[k].nodes : secs[k].nodes[m] \in Content(doc)
                           /\ Increasing(secs[k].nodes)
  <2> SUFFICES ASSUME NEW k \in 1 .. len
               PROVE  /\ secs[k] \in SectionType /\ secs[k].nodes \in Seq(Nat)
                      /\ \A m \in DOMAIN secs[k].nodes : secs[k].nodes[m] \in Content(doc)
                      /\ Increasing(secs[k].nodes)
    OBVIOUS
  <2>1. secs[k] \in SectionType
    BY <1>1, <1>5
  <2>2. k \in DOMAIN NodesOf(secs) /\ NodesOf(secs)[k] = secs[k].nodes
    BY <1>5 DEF NodesOf
  <2>3. (\A m \in DOMAIN secs[k].nodes : secs[k].nodes[m] \in Content(doc)) /\ Increasing(secs[k].nodes)
    BY <1>1, <2>2 DEF Deals
  <2> QED BY <2>1, <2>3 DEF SectionType
<1>11. \A n \in 0 .. len : Done(n) \in SUBSET Nat
  <2> SUFFICES ASSUME NEW n \in 0 .. len, NEW k \in 1 .. n, NEW x \in Range(secs[k].nodes)
               PROVE  x \in Nat
    OBVIOUS
  <2>1. k \in 1 .. len
    BY <1>5
  <2> QED BY <1>10, <2>1, DocFacts DEF Range, Content
<1>12. ASSUME NEW n \in U PROVE n + 1 \in U
  <2> SUFFICES ASSUME n + 1 <= len PROVE Good(n + 1)
    OBVIOUS
  <2>1. /\ n \in Nat /\ n \in 0 .. len /\ n + 1 \in 1 .. len /\ n + 1 \in 0 .. len
        /\ n + 1 # 0 /\ n + 1 - 1 = n /\ n <= len
    BY <1>5
  <2>2. Good(n)
    BY <2>1
  <2> DEFINE s == secs[n + 1]
             chunks == f[n]
             S == Done(n)
  <2>3. f[n + 1] = Split(doc, chunks, s)
    BY <1>8, <2>1
  <2>4. s \in SectionType /\ Increasing(s.nodes) /\ S \in SUBSET Nat
    BY <1>10, <1>11, <2>1
  <2>5. ASSUME NEW m \in DOMAIN s.nodes
        PROVE  /\ s.nodes[m] \in Content(doc) /\ Range(s.path) = Above(doc, s.nodes[m])
               /\ Increasing(s.path) /\ \A y \in S : y < s.nodes[m]
    <3>1. n + 1 \in DOMAIN secs
      BY <1>5, <2>1
    <3>2. Range(s.path) = Above(doc, s.nodes[m]) /\ Increasing(s.path)
      BY <1>1, <3>1 DEF UnderItsHeadings
    <3>3. ASSUME NEW y \in S PROVE y < s.nodes[m]
      <4>1. PICK k \in 1 .. n : y \in Range(secs[k].nodes)
        BY <3>3
      <4>2. PICK j \in DOMAIN secs[k].nodes : y = secs[k].nodes[j]
        BY <4>1 DEF Range
      <4>3. k \in DOMAIN secs /\ k < n + 1
        BY <1>5, <2>1
      <4>4. /\ DOMAIN NodesOf(secs) = DOMAIN secs
            /\ \A c \in DOMAIN secs : NodesOf(secs)[c] = secs[c].nodes
        BY DEF NodesOf
      <4> QED BY <1>1, <3>1, <4>2, <4>3, <4>4 DEF Deals
    <3> QED BY <1>10, <2>1, <3>2, <3>3
  <2>6. s.nodes # <<>> => Increasing(s.path)
    <3> SUFFICES ASSUME s.nodes # <<>> PROVE Increasing(s.path)
      OBVIOUS
    <3>1. s.nodes \in Seq(Nat)
      BY <2>4 DEF SectionType
    <3>2. 1 \in DOMAIN s.nodes
      <4> DEFINE l == s.nodes
      <4>1. l \in Seq(Nat) /\ l # <<>>
        BY <3>1
      <4> HIDE DEF l
      <4>2. 1 \in DOMAIN l
        BY <4>1
      <4> QED BY <4>2 DEF l
    <3> QED BY <2>5, <3>2
  <2>7. Done(n + 1) = S \union Range(s.nodes)
    <3>1. \A k \in 1 .. n + 1 : k = n + 1 \/ k \in 1 .. n
      BY <2>1
    <3>2. (\A k \in 1 .. n : k \in 1 .. n + 1) /\ n + 1 \in 1 .. n + 1
      BY <2>1
    <3> QED BY <3>1, <3>2
  <2>8. /\ chunks \in Seq(ChunkType) /\ Deals(NodesOf(chunks), S)
        /\ UnderItsHeadings(doc, chunks) /\ WithinLimit(doc, chunks)
    BY <2>2
  <2> HIDE DEF s, S, chunks, Done
  <2>9. /\ Split(doc, chunks, s) \in Seq(ChunkType)
        /\ Deals(NodesOf(Split(doc, chunks, s)), S \union Range(s.nodes))
        /\ UnderItsHeadings(doc, Split(doc, chunks, s))
        /\ WithinLimit(doc, Split(doc, chunks, s))
    BY <2>4, <2>5, <2>6, <2>8, SplitRight
  <2> QED BY <2>3, <2>7, <2>9
<1>13. U = Nat
  <2> HIDE DEF U
  <2>1. U \in SUBSET Nat
    BY DEF U
  <2> QED BY <1>9, <1>12, <2>1, SetInduction
<1>14. Good(len)
  <2>1. len \in U /\ len <= len
    <3> HIDE DEF U
    <3> QED BY <1>5, <1>13
  <2> QED BY <2>1
<1>15. Done(len) = Content(doc)
  <2>1. ASSUME NEW x \in Content(doc) PROVE x \in Done(len)
    <3>1. PICK k \in DOMAIN NodesOf(secs) : \E m \in DOMAIN NodesOf(secs)[k] : NodesOf(secs)[k][m] = x
      BY <1>1 DEF Deals
    <3>2. k \in 1 .. len /\ NodesOf(secs)[k] = secs[k].nodes
      BY <1>5, <3>1 DEF NodesOf
    <3>3. x \in Range(secs[k].nodes)
      BY <3>1, <3>2 DEF Range
    <3> QED BY <3>2, <3>3
  <2>2. ASSUME NEW k \in 1 .. len, NEW x \in Range(secs[k].nodes) PROVE x \in Content(doc)
    BY <1>10 DEF Range
  <2> QED BY <2>1, <2>2
<1> HIDE DEF Done
<1> QED BY <1>7, <1>14, <1>15 DEF ChunksRight, CoversInOrder

\* The chunker alone, for every sequence of nodes and every limit: no node that
\* has something to say is lost, doubled or moved, a chunk names the headings
\* its nodes are under, and is too long only when it is a single node.
THEOREM ChunkerCoversEveryBody ==
  ASSUME NEW doc \in Docs
  PROVE  /\ CoversInOrder(doc, ChunksOf(doc))
         /\ UnderItsHeadings(doc, ChunksOf(doc))
         /\ WithinLimit(doc, ChunksOf(doc))
BY ChunksOfRight DEF ChunksRight

-----------------------------------------------------------------------------
(* Readiness *)

\* What the next place of a path rests on: a heading g with a level up to lvl
\* at or before h, the next of the path, where no heading between them is open.
LEMMA LevelReached ==
  ASSUME NEW doc \in Docs, NEW n \in DOMAIN doc, NEW h \in Above(doc, n), NEW lvl \in Nat,
         NEW g \in 1 .. h, IsHeading(doc[g]), doc[g].level <= lvl,
         \A k \in Above(doc, n) : g <= k => h <= k
  PROVE  doc[h].level <= lvl
<1> SUFFICES ASSUME ~ (doc[h].level <= lvl) PROVE FALSE
  OBVIOUS
<1>1. /\ n \in Nat /\ h \in 1 .. n - 1 /\ IsHeading(doc[h])
      /\ \A k \in h + 1 .. n - 1 : IsHeading(doc[k]) => doc[k].level > doc[h].level
  BY DocFacts DEF Above
<1>2. \A k \in 1 .. n : k \in DOMAIN doc /\ doc[k].level \in Nat
  BY <1>1, DocFacts DEF Docs
<1> DEFINE T == {k \in 1 .. h : IsHeading(doc[k]) /\ doc[k].level <= lvl /\ g <= k}
<1>3. g \in T /\ h \in Nat
  BY <1>1
<1>4. PICK top \in T : \A k \in T : k <= top
  <2>1. T \in SUBSET (0 .. h)
    BY <1>3
  <2> HIDE DEF T
  <2> QED BY <1>3, <2>1, GreatestElement
<1>5. top \in 1 .. h /\ IsHeading(doc[top]) /\ doc[top].level <= lvl /\ g <= top /\ top # h
  OBVIOUS
<1>6. top \notin Above(doc, n)
  BY <1>1, <1>5
<1>7. PICK k \in top + 1 .. n - 1 : IsHeading(doc[k]) /\ ~ (doc[k].level > doc[top].level)
  BY <1>1, <1>5, <1>6 DEF Above
<1>8. k \in 1 .. n /\ top \in 1 .. n /\ h \in 1 .. n
  BY <1>1, <1>5
<1>9. doc[k].level <= lvl
  BY <1>2, <1>5, <1>7, <1>8
<1>10. ~ (k <= h)
  <2>1. k <= h => k \in T
    BY <1>1, <1>5, <1>7, <1>9
  <2> QED BY <1>1, <1>4, <1>5, <1>7, <2>1
<1>11. k \in h + 1 .. n - 1
  BY <1>1, <1>7, <1>10
<1>12. doc[k].level > doc[h].level
  BY <1>1, <1>7, <1>11
<1> QED BY <1>2, <1>8, <1>9, <1>12

\* The first heading at or after a place.
LEMMA FirstHeading ==
  ASSUME NEW doc \in Docs, NEW lo \in Nat, NEW h \in DOMAIN doc, IsHeading(doc[h]), lo < h
  PROVE  \E f \in lo + 1 .. h : /\ IsHeading(doc[f])
                                /\ \A k \in lo + 1 .. f - 1 : ~ IsHeading(doc[k])
<1> DEFINE T == {k \in lo + 1 .. h : IsHeading(doc[k])}
<1>1. h \in Nat
  BY DocFacts
<1>2. h \in T /\ T \in SUBSET Nat
  BY <1>1
<1>3. PICK f \in T : \A k \in T : f <= k
  <2> HIDE DEF T
  <2> QED BY <1>2, LeastElement
<1>4. ASSUME NEW k \in lo + 1 .. f - 1 PROVE ~ IsHeading(doc[k])
  <2>1. k \in lo + 1 .. h /\ ~ (f <= k)
    BY <1>1
  <2> QED BY <1>3, <2>1
<1> QED BY <1>3, <1>4

\* Where no level is skipped and the first heading is not too deep, a path has
\* every level from the second on.
LEMMA ReadyPaths ==
  ASSUME NEW doc \in Docs, SkippedLevels(doc) = {}, ~ OpensTooDeep(doc),
         NEW n \in DOMAIN doc, NEW path \in Seq(Nat),
         Range(path) = Above(doc, n), Increasing(path), NEW j \in DOMAIN path
  PROVE  IF j = 1 THEN doc[path[j]].level <= 2
                  ELSE doc[path[j]].level = doc[path[j - 1]].level + 1
<1> DEFINE h == path[j]
<1>1. /\ Len(path) \in Nat /\ DOMAIN path = 1 .. Len(path) /\ j \in Nat
      /\ \A m \in DOMAIN path : path[m] \in Above(doc, n) /\ path[m] \in Nat
  BY DEF Range
<1>2. /\ n \in Nat /\ n <= Len(doc) + 1 /\ Len(doc) \in Nat /\ DOMAIN doc = 1 .. Len(doc)
      /\ \A k \in 1 .. n : k \in DOMAIN doc /\ doc[k].level \in Nat
  BY DocFacts DEF Docs
<1>3. h \in 1 .. n - 1 /\ h \in Above(doc, n) /\ IsHeading(doc[h]) /\ h \in DOMAIN doc /\ h \in Nat
  BY <1>1, <1>2 DEF Above
<1>4. CASE j = 1
  <2>1. PICK f \in 0 + 1 .. h : IsHeading(doc[f]) /\ \A k \in 0 + 1 .. f - 1 : ~ IsHeading(doc[k])
    BY <1>3, FirstHeading
  <2>2. f \in 1 .. h /\ f \in DOMAIN doc /\ \A k \in 1 .. f - 1 : ~ IsHeading(doc[k])
    BY <1>2, <1>3, <2>1
  <2>3. ~ (doc[f].level > 2) /\ doc[f].level \in Nat
    BY <2>1, <2>2, DocFacts DEF OpensTooDeep
  <2>4. ASSUME NEW k \in Above(doc, n) PROVE h <= k
    <3>1. PICK m \in DOMAIN path : k = path[m]
      BY DEF Range
    <3>2. m = 1 \/ 1 < m
      BY <1>1
    <3>3. 1 < m => path[1] < path[m]
      BY <1>1, <1>4, <3>1 DEF Increasing
    <3> QED BY <1>1, <1>3, <1>4, <3>1, <3>2, <3>3
  <2> HIDE DEF h
  <2>5. doc[h].level <= 2
    BY <1>3, <2>1, <2>2, <2>3, <2>4, LevelReached
  <2> QED BY <1>4, <2>5 DEF h
<1>5. CASE j # 1
  <2> DEFINE a == path[j - 1]
  <2>1. j - 1 \in DOMAIN path /\ j - 1 < j
    BY <1>1, <1>5
  <2>2. a < h /\ a \in Above(doc, n) /\ a \in Nat
    BY <1>1, <2>1 DEF Increasing
  <2>3. /\ a \in 1 .. n - 1 /\ IsHeading(doc[a]) /\ a \in DOMAIN doc
        /\ \A k \in a + 1 .. n - 1 : IsHeading(doc[k]) => doc[k].level > doc[a].level
    BY <1>2, <2>2 DEF Above
  <2>4. PICK f \in a + 1 .. h : IsHeading(doc[f]) /\ \A k \in a + 1 .. f - 1 : ~ IsHeading(doc[k])
    BY <1>3, <2>2, FirstHeading
  <2>5. f \in 1 .. h /\ f \in DOMAIN doc /\ a \in 1 .. f - 1 /\ f \in Nat
    BY <1>2, <1>3, <2>2, <2>3, <2>4
  <2>6. ~ (doc[f].level > doc[a].level + 1)
    BY <2>3, <2>4, <2>5 DEF SkippedLevels
  <2>7. doc[f].level \in Nat /\ doc[a].level \in Nat /\ doc[h].level \in Nat
    BY <1>3, <2>3, <2>5, DocFacts
  <2>8. ASSUME NEW k \in Above(doc, n), f <= k PROVE h <= k
    <3>1. PICK m \in DOMAIN path : k = path[m]
      BY DEF Range
    <3>2. a < k
      <4>1. k \in Nat
        BY <1>1, <3>1
      <4> QED BY <2>2, <2>5, <2>8, <4>1
    <3>3. ~ (m < j)
      <4> SUFFICES ASSUME m < j PROVE FALSE
        OBVIOUS
      <4>1. m = j - 1 \/ m < j - 1
        BY <1>1
      <4>2. k <= a
        BY <1>1, <2>1, <2>2, <3>1, <4>1 DEF Increasing
      <4> QED BY <1>1, <2>2, <3>1, <3>2, <4>2
    <3>4. m = j \/ j < m
      BY <1>1, <3>3
    <3> QED BY <1>1, <1>3, <3>1, <3>4 DEF Increasing
  <2> DEFINE lvl == doc[a].level + 1
  <2>9. lvl \in Nat /\ doc[f].level <= lvl
    <3> HIDE DEF a
    <3> QED BY <2>6, <2>7
  <2> HIDE DEF h, lvl
  <2>10. doc[h].level <= lvl
    BY <1>3, <2>4, <2>5, <2>8, <2>9, LevelReached
  <2>11. doc[a].level < doc[h].level
    <3> HIDE DEF a
    <3> QED BY <1>2, <1>3, <2>2, AboveRising
  <2>12. doc[h].level = doc[a].level + 1
    <3>1. doc[h].level <= doc[a].level + 1
      BY <2>10 DEF lvl
    <3> HIDE DEF a
    <3> QED BY <2>7, <2>11, <3>1
  <2> QED BY <1>5, <2>12 DEF h
<1> QED BY <1>4, <1>5

\* A heading of a section that is not empty is above one of its blocks.
LEMMA ReadyHeadings ==
  ASSUME NEW doc \in Docs, EmptySections(doc) = {}, \A i \in DOMAIN doc : ~ Blank(doc[i]),
         NEW h \in DOMAIN doc, IsHeading(doc[h])
  PROVE  \E n \in Content(doc) : h \in Above(doc, n)
<1> DEFINE stops == {j \in h + 1 .. Len(doc) : IsHeading(doc[j]) /\ doc[j].level <= doc[h].level}
           stop == IF stops = {} THEN Len(doc) + 1 ELSE Min(stops)
<1>1. h \in Nat /\ h >= 1 /\ Len(doc) \in Nat /\ DOMAIN doc = 1 .. Len(doc) /\ h <= Len(doc)
  BY DocFacts DEF Docs
<1>2. EndOfSection(doc, h) = stop
  BY DEF EndOfSection
<1>3. stop \in h + 1 .. Len(doc) + 1 /\ \A j \in stops : stop <= j
  <2>1. CASE stops = {}
    <3>1. stop = Len(doc) + 1
      BY <2>1
    <3> HIDE DEF stop
    <3> QED BY <1>1, <2>1, <3>1
  <2>2. CASE stops # {}
    <3>1. stop = Min(stops)
      BY <2>2
    <3>2. stops \in SUBSET Nat
      BY <1>1
    <3>3. stops \in SUBSET (h + 1 .. Len(doc))
      OBVIOUS
    <3> HIDE DEF stop, stops
    <3>4. stop \in stops /\ \A j \in stops : stop <= j
      BY <2>2, <3>1, <3>2, MinIs
    <3>5. stop \in h + 1 .. Len(doc)
      BY <3>3, <3>4
    <3> QED BY <1>1, <3>4, <3>5
  <2> QED BY <2>1, <2>2
<1>4. PICK n \in h + 1 .. stop - 1 : ~ IsHeading(doc[n])
  BY <1>2 DEF EmptySections
<1> HIDE DEF stop
<1>5. n \in DOMAIN doc /\ n \in Nat
  BY <1>1, <1>3
<1>6. n \in Content(doc)
  BY <1>4, <1>5, DocFacts DEF Content, Blank
<1>7. ASSUME NEW k \in h + 1 .. n - 1, IsHeading(doc[k]) PROVE doc[k].level > doc[h].level
  <2>1. k \in h + 1 .. Len(doc) /\ k \in DOMAIN doc /\ ~ (stop <= k)
    BY <1>1, <1>3, <1>5
  <2>2. k \notin stops
    BY <1>3, <2>1
  <2>3. doc[k].level \in Nat /\ doc[h].level \in Nat
    BY <2>1, DocFacts
  <2> QED BY <1>7, <2>1, <2>2, <2>3
<1>8. h \in 1 .. n - 1
  BY <1>1, <1>3, <1>5
<1>9. h \in Above(doc, n)
  BY <1>7, <1>8 DEF Above
<1> QED BY <1>6, <1>9

-----------------------------------------------------------------------------
(* The invariant *)

\* The blocks of a document: as much of their types as the functions rest on.
BlockType ==
  {b \in [kind : {"heading", "text", "code"}, level : 0..6, tokens : Nat, id : 1..MaxIds] :
     /\ b.kind = "heading" => b.level # 0
     /\ b.kind = "code" => b.tokens # 0}

\* The ids of a document, and that each of them is of one block.
IdsOf(t) == {t[i].id : i \in DOMAIN t}

Distinct(t) == \A i, j \in DOMAIN t : t[i].id = t[j].id => i = j

\* The proposals that bring a block of their own.
Brings(p) == p.kind \in {"insert", "append"}

\* What a proposal carries, of n ids and k calls.
GoodProposal(p, n, k) ==
  /\ p \in [number : 1..k, kind : {"insert", "append", "replace", "suggest", "delete"},
            block : 1..n, new : Seq(BlockType), after : BOOLEAN]
  /\ IF p.kind = "delete" THEN p.new = <<>>
     ELSE /\ p.new = <<p.new[1]>> /\ p.new[1] \in BlockType /\ p.new[1].id <= n
          /\ ~ Brings(p) => p.new[1].id = p.block

\* A new block is of one proposal, and not in the document before that one is
\* accepted.
ProposalsInv ==
  /\ \A p \in pending : /\ GoodProposal(p, minted, calls)
                        /\ Brings(p) => p.new[1].id \notin IdsOf(tree)
  /\ \A p, q \in pending : Brings(p) /\ Brings(q) /\ p # q => p.new[1].id # q.new[1].id

\* A document holds blocks, each of an id of its own that has been minted.
TreeInv ==
  /\ tree \in Seq(BlockType) /\ Distinct(tree)
  /\ \A i \in DOMAIN tree : tree[i].id <= minted

\* The counters are within their bounds.
CountsInv ==
  minted \in 0..MaxIds /\ calls \in 0..MaxCalls /\ edits \in 0..MaxEdits /\ level \in 0..6

\* What the batcher remembers of a proposal.
EntryType == [number : Nat, level : 0..6]

\* The level the batcher remembers is that of every heading in the buffer.
BatcherInv ==
  /\ batches \in Seq(Seq(EntryType)) /\ buffer \in Seq(EntryType)
  /\ BatchesInOrder
  /\ Len(buffer) < Threshold
  /\ buffer = <<>> => level = 0
  /\ \A m \in DOMAIN buffer : buffer[m].level \in {0, level}

\* The inductive invariant.
DocInv == CountsInv /\ TreeInv /\ ProposalsInv /\ BatcherInv

\* What is known of one block.
LEMMA BlockFacts ==
  ASSUME NEW b \in BlockType
  PROVE  /\ b \in [kind : {"heading", "text", "code"}, level : 0..6, tokens : Nat, id : 1..MaxIds]
         /\ b.kind \in {"heading", "text", "code"} /\ b.level \in 0..6 /\ b.level \in Nat
         /\ b.tokens \in Nat /\ b.id \in 1..MaxIds /\ b.id \in Nat
         /\ (b.kind = "code" => b.tokens # 0)
BY BoundsAssumption DEF BlockType

\* With the invariant, every variable has its type.
LEMMA InvTypeOK == DocInv => TypeOK
<1> SUFFICES ASSUME DocInv PROVE TypeOK
  OBVIOUS
<1>1. CountsInv /\ TreeInv /\ ProposalsInv
  BY DEF DocInv
<1>2. tree \in Seq([kind : {"heading", "text", "code"}, level : 0..6, tokens : Nat, id : 1..MaxIds])
  <2> DEFINE X == [kind : {"heading", "text", "code"}, level : 0..6, tokens : Nat, id : 1..MaxIds]
  <2>1. tree \in Seq(BlockType)
    BY <1>1 DEF TreeInv
  <2>2. \A b \in BlockType : b \in X
    BY BlockFacts
  <2> HIDE DEF X
  <2>3. tree \in Seq(X)
    BY <2>1, <2>2
  <2> QED BY <2>3 DEF X
<1>3. \A p \in pending : p.block \in 1..minted /\ p.number \in 1..calls
  BY <1>1 DEF ProposalsInv, GoodProposal
<1> QED BY <1>1, <1>2, <1>3 DEF TypeOK, CountsInv, TreeInv, Distinct

-----------------------------------------------------------------------------
(* The document as the chunker sees it *)

\* A block is a node for the chunker.
LEMMA BlockIsNode == \A b \in BlockType : b \in Node /\ (Atomic(b) => b.tokens > 0)
BY BlockFacts DEF Node, Atomic

LEMMA TreeIsDoc ==
  ASSUME TreeInv
  PROVE  tree \in Docs
<1>1. tree \in Seq(BlockType)
  BY DEF TreeInv
<1>2. \A i \in DOMAIN tree : tree[i] \in BlockType
  BY <1>1
<1>3. tree \in Seq(Node)
  BY <1>1, BlockIsNode
<1> QED BY <1>2, <1>3, BlockIsNode DEF Docs

\* So is the document with its id comments.
LEMMA TaggedIsDoc ==
  ASSUME TreeInv
  PROVE  Tagged(tree) \in Docs
<1> DEFINE len == Len(tree)
           tagged == Tagged(tree)
<1>1. tree \in Seq(BlockType) /\ len \in Nat /\ \A i \in 1 .. len : tree[i] \in BlockType
  BY DEF TreeInv
<1>2. tagged = [i \in 1 .. 2 * len |->
                  IF i % 2 = 1 THEN Comment(tree[(i + 1) \div 2].id) ELSE tree[i \div 2]]
  BY DEF Tagged
<1>3. ASSUME NEW i \in 1 .. 2 * len
      PROVE  tagged[i] \in Node /\ (Atomic(tagged[i]) => tagged[i].tokens > 0)
  <2>1. CASE i % 2 = 1
    <3>1. (i + 1) \div 2 \in 1 .. len
      BY <1>1, <2>1
    <3>2. tree[(i + 1) \div 2].id \in Nat
      BY <1>1, <3>1, BlockFacts
    <3>3. tagged[i] = Comment(tree[(i + 1) \div 2].id)
      BY <1>2, <2>1
    <3> QED BY <3>2, <3>3 DEF Comment, Node, Atomic
  <2>2. CASE i % 2 # 1
    <3>1. i \div 2 \in 1 .. len
      BY <1>1, <2>2
    <3>2. tagged[i] = tree[i \div 2]
      BY <1>2, <2>2
    <3> QED BY <1>1, <3>1, <3>2, BlockIsNode
  <2> QED BY <2>1, <2>2
<1>4. 2 * len \in Nat /\ DOMAIN tagged = 1 .. 2 * len
  BY <1>1, <1>2
<1> HIDE DEF len
<1>5. tagged = [i \in 1 .. 2 * len |-> tagged[i]]
  BY <1>2
<1> HIDE DEF tagged
<1>6. tagged \in Seq(Node)
  BY <1>3, <1>4, <1>5
<1> QED BY <1>3, <1>4, <1>6 DEF tagged, Docs

\* Whatever the document has become, the chunker does what it promises.
LEMMA InvChunks == DocInv => ChunksCoverDocument
<1> SUFFICES ASSUME DocInv, NEW doc \in {tree, Tagged(tree)}
             PROVE  /\ CoversInOrder(doc, ChunksOf(doc)) /\ UnderItsHeadings(doc, ChunksOf(doc))
                    /\ WithinLimit(doc, ChunksOf(doc))
  BY DEF ChunksCoverDocument
<1>1. doc \in Docs
  BY TreeIsDoc, TaggedIsDoc DEF DocInv
<1> QED BY <1>1, ChunksOfRight DEF ChunksRight

\* And when readiness finds nothing, every heading is found and no level is left out.
LEMMA InvReady == DocInv => ReadySectionsAreFound
<1> SUFFICES ASSUME DocInv, Ready(tree), \A i \in DOMAIN tree : ~ Blank(tree[i])
             PROVE  LET paths == {ChunksOf(tree)[c].path : c \in DOMAIN ChunksOf(tree)}
                    IN  /\ \A h \in DOMAIN tree : IsHeading(tree[h]) =>
                             \E path \in paths : h \in Range(path)
                        /\ \A path \in paths : \A n \in DOMAIN path :
                             IF n = 1 THEN tree[path[n]].level <= 2
                                      ELSE tree[path[n]].level = tree[path[n - 1]].level + 1
  BY DEF ReadySectionsAreFound
<1> DEFINE chunks == ChunksOf(tree)
           paths == {chunks[c].path : c \in DOMAIN chunks}
<1>1. tree \in Docs
  BY TreeIsDoc DEF DocInv
<1>2. /\ chunks \in Seq(ChunkType) /\ Deals(NodesOf(chunks), Content(tree))
      /\ UnderItsHeadings(tree, chunks) /\ WithinLimit(tree, chunks)
  BY <1>1, ChunksOfRight DEF ChunksRight, CoversInOrder
<1> HIDE DEF chunks
<1>3. ASSUME NEW h \in DOMAIN tree, IsHeading(tree[h])
      PROVE  \E path \in paths : h \in Range(path)
  <2>1. PICK n \in Content(tree) : h \in Above(tree, n)
    BY <1>1, <1>3, ReadyHeadings DEF Ready
  <2>2. PICK c \in DOMAIN NodesOf(chunks) : \E m \in DOMAIN NodesOf(chunks)[c] : NodesOf(chunks)[c][m] = n
    BY <1>2 DEF Deals
  <2>3. c \in DOMAIN chunks /\ NodesOf(chunks)[c] = chunks[c].nodes
    BY <2>2 DEF NodesOf
  <2>4. Range(chunks[c].path) = Above(tree, n)
    BY <1>2, <2>2, <2>3 DEF UnderItsHeadings
  <2> QED BY <2>1, <2>3, <2>4
<1>4. ASSUME NEW path \in paths, NEW n \in DOMAIN path
      PROVE  IF n = 1 THEN tree[path[n]].level <= 2
                      ELSE tree[path[n]].level = tree[path[n - 1]].level + 1
  <2>1. PICK c \in DOMAIN chunks : path = chunks[c].path
    OBVIOUS
  <2>2. chunks[c].nodes \in Seq(Nat) /\ path \in Seq(Nat)
    <3>1. chunks[c] \in ChunkType
      BY <1>2, <2>1
    <3> QED BY <2>1, <3>1 DEF ChunkType
  <2>3. chunks[c].nodes # <<>>
    BY <1>2 DEF WithinLimit
  <2> DEFINE l == chunks[c].nodes
  <2>4. 1 \in DOMAIN l
    <3>1. l \in Seq(Nat) /\ l # <<>>
      BY <2>2, <2>3
    <3> HIDE DEF l
    <3> QED BY <3>1
  <2>5. c \in DOMAIN NodesOf(chunks) /\ NodesOf(chunks)[c] = l
    BY DEF NodesOf
  <2>6. l[1] \in Content(tree)
    BY <1>2, <2>4, <2>5 DEF Deals
  <2>7. Range(path) = Above(tree, l[1]) /\ Increasing(path)
    BY <1>2, <2>1, <2>4 DEF UnderItsHeadings
  <2>8. l[1] \in DOMAIN tree /\ SkippedLevels(tree) = {} /\ ~ OpensTooDeep(tree)
    BY <2>6 DEF Content, Ready
  <2> HIDE DEF l, paths
  <2> QED BY <1>1, <2>2, <2>7, <2>8, ReadyPaths
<1> QED BY <1>3, <1>4 DEF chunks

-----------------------------------------------------------------------------
(* What apply does to a sequence of blocks *)

\* The library's insertion and removal, place by place.
LEMMA InsertIs ==
  ASSUME NEW X, NEW t \in Seq(X), NEW i \in 1 .. Len(t) + 1, NEW x \in X
  PROVE  /\ InsertSeqAt(t, i, <<x>>) \in Seq(X)
         /\ DOMAIN InsertSeqAt(t, i, <<x>>) = 1 .. Len(t) + 1
         /\ Len(InsertSeqAt(t, i, <<x>>)) = Len(t) + 1
         /\ \A m \in 1 .. Len(t) + 1 : InsertSeqAt(t, i, <<x>>)[m] =
              IF m < i THEN t[m] ELSE IF m = i THEN x ELSE t[m - 1]
<1> DEFINE n == Len(t)
           a == SubSeq(t, 1, i - 1)
           c == SubSeq(t, i, n)
           r == (a \o <<x>>) \o c
<1>1. n \in Nat /\ i \in Nat /\ i >= 1 /\ i <= n + 1
  OBVIOUS
<1>2. a \in Seq(X) /\ Len(a) = i - 1 /\ \A m \in 1 .. i - 1 : a[m] = t[m]
  BY <1>1
<1>3. c \in Seq(X) /\ Len(c) = n - i + 1 /\ \A m \in 1 .. n - i + 1 : c[m] = t[i + m - 1]
  BY <1>1
<1>4. InsertSeqAt(t, i, <<x>>) = r
  BY DEF InsertSeqAt
<1> HIDE DEF a, c
<1> DEFINE b == a \o <<x>>
<1>5. b \in Seq(X) /\ Len(b) = i /\ (\A m \in 1 .. i - 1 : b[m] = t[m]) /\ b[i] = x
  BY <1>1, <1>2
<1> HIDE DEF b
<1>6. /\ b \o c \in Seq(X) /\ Len(b \o c) = n + 1
      /\ \A m \in 1 .. n + 1 : (b \o c)[m] = IF m <= i THEN b[m] ELSE c[m - i]
  <2>1. Len(b) + Len(c) = n + 1
    BY <1>1, <1>3, <1>5
  <2>2. \A m \in 1 .. n + 1 : m <= Len(b) \/ (m > Len(b) /\ m - Len(b) \in 1 .. Len(c))
    BY <1>1, <1>3, <1>5
  <2>3. /\ b \o c \in Seq(X) /\ Len(b \o c) = Len(b) + Len(c)
        /\ \A m \in 1 .. Len(b) + Len(c) :
             (b \o c)[m] = IF m <= Len(b) THEN b[m] ELSE c[m - Len(b)]
    BY <1>3, <1>5
  <2> QED BY <1>5, <2>1, <2>3
<1>7. ASSUME NEW m \in 1 .. n + 1
      PROVE  (b \o c)[m] = IF m < i THEN t[m] ELSE IF m = i THEN x ELSE t[m - 1]
  <2>1. CASE m < i
    <3>1. m \in 1 .. i - 1
      BY <1>1, <2>1
    <3> QED BY <1>1, <1>5, <1>6, <2>1, <3>1
  <2>2. CASE m = i
    BY <1>1, <1>5, <1>6, <2>2
  <2>3. CASE m > i
    <3>1. m - i \in 1 .. n - i + 1 /\ i + (m - i) - 1 = m - 1 /\ ~ (m <= i) /\ ~ (m < i) /\ m # i
      BY <1>1, <2>3
    <3>2. (b \o c)[m] = c[m - i]
      BY <1>6, <3>1
    <3> QED BY <1>3, <3>1, <3>2
  <2>4. m < i \/ m = i \/ m > i
    BY <1>1
  <2> QED BY <2>1, <2>2, <2>3, <2>4
<1>8. DOMAIN (b \o c) = 1 .. n + 1
  BY <1>6
<1> QED BY <1>4, <1>6, <1>7, <1>8 DEF b

LEMMA RemoveIs ==
  ASSUME NEW X, NEW t \in Seq(X), NEW i \in DOMAIN t
  PROVE  /\ RemoveAt(t, i) \in Seq(X)
         /\ DOMAIN RemoveAt(t, i) = 1 .. Len(t) - 1
         /\ \A m \in 1 .. Len(t) - 1 : RemoveAt(t, i)[m] = IF m < i THEN t[m] ELSE t[m + 1]
<1> DEFINE n == Len(t)
           a == SubSeq(t, 1, i - 1)
           c == SubSeq(t, i + 1, n)
<1>1. n \in Nat /\ i \in Nat /\ i >= 1 /\ i <= n
  OBVIOUS
<1>2. a \in Seq(X) /\ Len(a) = i - 1 /\ \A m \in 1 .. i - 1 : a[m] = t[m]
  BY <1>1
<1>3. c \in Seq(X) /\ Len(c) = n - i /\ \A m \in 1 .. n - i : c[m] = t[i + 1 + m - 1]
  BY <1>1
<1>4. RemoveAt(t, i) = a \o c
  BY DEF RemoveAt
<1> HIDE DEF a, c
<1>5. /\ a \o c \in Seq(X) /\ Len(a \o c) = n - 1
      /\ \A m \in 1 .. n - 1 : (a \o c)[m] = IF m <= i - 1 THEN a[m] ELSE c[m - (i - 1)]
  <2>1. /\ a \o c \in Seq(X) /\ Len(a \o c) = Len(a) + Len(c)
        /\ \A m \in 1 .. Len(a) + Len(c) :
             (a \o c)[m] = IF m <= Len(a) THEN a[m] ELSE c[m - Len(a)]
    <3>1. a \in Seq(X) /\ c \in Seq(X)
      BY <1>2, <1>3
    <3> QED BY <3>1
  <2>2. Len(a) + Len(c) = n - 1
    BY <1>1, <1>2, <1>3
  <2> QED BY <1>2, <2>1, <2>2
<1>6. ASSUME NEW m \in 1 .. n - 1
      PROVE  (a \o c)[m] = IF m < i THEN t[m] ELSE t[m + 1]
  <2>1. CASE m < i
    <3>1. m \in 1 .. i - 1 /\ m <= i - 1
      BY <1>1, <2>1
    <3> QED BY <1>2, <1>5, <2>1, <3>1
  <2>2. CASE ~ (m < i)
    <3>1. m - (i - 1) \in 1 .. n - i /\ i + 1 + (m - (i - 1)) - 1 = m + 1 /\ ~ (m <= i - 1)
      BY <1>1, <2>2
    <3>2. (a \o c)[m] = c[m - (i - 1)]
      BY <1>5, <3>1
    <3> QED BY <1>3, <2>2, <3>1, <3>2
  <2> QED BY <2>1, <2>2
<1>7. DOMAIN (a \o c) = 1 .. n - 1
  BY <1>5
<1> QED BY <1>4, <1>5, <1>6, <1>7

\* The three changes, seen from the blocks: where each comes from.
InsertedAt(t, r, i, x) ==
  /\ i \in 1 .. Len(t) + 1 /\ DOMAIN r = 1 .. Len(t) + 1
  /\ \A m \in 1 .. Len(t) + 1 : r[m] = IF m < i THEN t[m] ELSE IF m = i THEN x ELSE t[m - 1]

RemovedAt(t, r, i) ==
  /\ i \in 1 .. Len(t) /\ DOMAIN r = 1 .. Len(t) - 1
  /\ \A m \in 1 .. Len(t) - 1 : r[m] = IF m < i THEN t[m] ELSE t[m + 1]

ReplacedAt(t, r, i, x) ==
  /\ i \in 1 .. Len(t) /\ DOMAIN r = 1 .. Len(t)
  /\ \A m \in 1 .. Len(t) : r[m] = IF m = i THEN x ELSE t[m]

\* What each change does to the ids.
LEMMA InsertedIds ==
  ASSUME NEW t \in Seq(BlockType), NEW r \in Seq(BlockType), NEW x \in BlockType, NEW i,
         InsertedAt(t, r, i, x), Distinct(t), x.id \notin IdsOf(t)
  PROVE  Distinct(r) /\ IdsOf(r) = IdsOf(t) \union {x.id}
<1> DEFINE n == Len(t)
           From(m) == IF m < i THEN m ELSE m - 1
<1>1. /\ n \in Nat /\ DOMAIN t = 1 .. n /\ i \in 1 .. n + 1 /\ DOMAIN r = 1 .. n + 1
      /\ \A m \in 1 .. n + 1 : r[m] = IF m < i THEN t[m] ELSE IF m = i THEN x ELSE t[m - 1]
  BY DEF InsertedAt
<1>2. \A m \in 1 .. n + 1 : m # i => From(m) \in 1 .. n /\ r[m] = t[From(m)]
  BY <1>1
<1>3. r[i] = x
  BY <1>1
<1>4. \A m \in 1 .. n : t[m].id # x.id /\ t[m].id \in IdsOf(t)
  BY <1>1 DEF IdsOf
<1>5. ASSUME NEW m \in 1 .. n + 1, NEW k \in 1 .. n + 1, r[m].id = r[k].id PROVE m = k
  <2>1. CASE m = i \/ k = i
    BY <1>2, <1>3, <1>4, <1>5, <2>1
  <2>2. CASE m # i /\ k # i
    <3>1. From(m) = From(k)
      <4>1. /\ From(m) \in DOMAIN t /\ From(k) \in DOMAIN t
            /\ r[m] = t[From(m)] /\ r[k] = t[From(k)]
        BY <1>1, <1>2, <2>2
      <4> HIDE DEF From
      <4> QED BY <1>5, <4>1 DEF Distinct
    <3> QED BY <1>1, <2>2, <3>1
  <2> QED BY <2>1, <2>2
<1>6. \A m \in 1 .. n + 1 : r[m].id \in IdsOf(t) \union {x.id}
  BY <1>2, <1>3, <1>4
<1>7. ASSUME NEW m \in 1 .. n PROVE t[m].id \in IdsOf(r)
  <2>1. CASE m < i
    <3>1. m \in 1 .. n + 1 /\ r[m] = t[m]
      BY <1>1, <2>1
    <3> QED BY <1>1, <3>1 DEF IdsOf
  <2>2. CASE ~ (m < i)
    <3>1. m + 1 \in 1 .. n + 1 /\ r[m + 1] = t[m]
      BY <1>1, <2>2
    <3> QED BY <1>1, <3>1 DEF IdsOf
  <2> QED BY <2>1, <2>2
<1>8. x.id \in IdsOf(r)
  BY <1>1, <1>3 DEF IdsOf
<1>9. IdsOf(r) = IdsOf(t) \union {x.id}
  BY <1>1, <1>6, <1>7, <1>8 DEF IdsOf
<1> QED BY <1>1, <1>5, <1>9 DEF Distinct

LEMMA RemovedIds ==
  ASSUME NEW t \in Seq(BlockType), NEW r \in Seq(BlockType), NEW i,
         RemovedAt(t, r, i), Distinct(t)
  PROVE  Distinct(r) /\ IdsOf(r) \subseteq IdsOf(t)
<1> DEFINE n == Len(t)
           From(m) == IF m < i THEN m ELSE m + 1
<1>1. /\ n \in Nat /\ DOMAIN t = 1 .. n /\ i \in 1 .. n /\ DOMAIN r = 1 .. n - 1
      /\ \A m \in 1 .. n - 1 : r[m] = IF m < i THEN t[m] ELSE t[m + 1]
  BY DEF RemovedAt
<1>2. \A m \in 1 .. n - 1 : From(m) \in 1 .. n /\ r[m] = t[From(m)]
  BY <1>1
<1>3. ASSUME NEW m \in 1 .. n - 1, NEW k \in 1 .. n - 1, r[m].id = r[k].id PROVE m = k
  <2>1. From(m) = From(k)
    BY <1>1, <1>2, <1>3 DEF Distinct
  <2> QED BY <1>1, <2>1
<1>4. IdsOf(r) \subseteq IdsOf(t)
  BY <1>1, <1>2 DEF IdsOf
<1> QED BY <1>1, <1>3, <1>4 DEF Distinct

LEMMA ReplacedIds ==
  ASSUME NEW t \in Seq(BlockType), NEW r \in Seq(BlockType), NEW x \in BlockType, NEW i,
         ReplacedAt(t, r, i, x), Distinct(t), x.id = t[i].id
  PROVE  Distinct(r) /\ IdsOf(r) = IdsOf(t)
<1>1. DOMAIN r = DOMAIN t /\ \A m \in DOMAIN t : r[m].id = t[m].id
  BY DEF ReplacedAt
<1> QED BY <1>1 DEF Distinct, IdsOf
-----------------------------------------------------------------------------
(* The blocks a proposal does not speak of *)

\* Two documents have the same rest when the blocks they keep correspond, in
\* both directions and in order.
LEMMA SameRest ==
  ASSUME NEW t, NEW r, NEW p, NEW F,
         \A m \in Kept(r, p) : F[m] \in Kept(t, p) /\ r[m] = t[F[m]],
         \A m, k \in Kept(r, p) : m <= k => F[m] <= F[k],
         NEW G,
         \A m \in Kept(t, p) : G[m] \in Kept(r, p) /\ t[m] = r[G[m]],
         \A m, k \in Kept(t, p) : m <= k => G[m] <= G[k]
  PROVE  RestOf(r, p) = RestOf(t, p)
<1>1. ASSUME NEW e \in RestOf(r, p) PROVE e \in RestOf(t, p)
  <2>1. PICK q \in Kept(r, p) \X Kept(r, p) : q[1] <= q[2] /\ e = <<r[q[1]], r[q[2]]>>
    BY DEF RestOf
  <2> DEFINE u == <<F[q[1]], F[q[2]]>>
  <2>2. u \in Kept(t, p) \X Kept(t, p) /\ u[1] <= u[2] /\ e = <<t[u[1]], t[u[2]]>>
    BY <2>1
  <2> QED BY <2>2 DEF RestOf
<1>2. ASSUME NEW e \in RestOf(t, p) PROVE e \in RestOf(r, p)
  <2>1. PICK q \in Kept(t, p) \X Kept(t, p) : q[1] <= q[2] /\ e = <<t[q[1]], t[q[2]]>>
    BY DEF RestOf
  <2> DEFINE u == <<G[q[1]], G[q[2]]>>
  <2>2. u \in Kept(r, p) \X Kept(r, p) /\ u[1] <= u[2] /\ e = <<r[u[1]], r[u[2]]>>
    BY <2>1
  <2> QED BY <2>2 DEF RestOf
<1> QED BY <1>1, <1>2

LEMMA InsertedRest ==
  ASSUME NEW t \in Seq(BlockType), NEW r \in Seq(BlockType), NEW p, NEW i, NEW x,
         InsertedAt(t, r, i, x), x \in Range(p.new)
  PROVE  RestOf(r, p) = RestOf(t, p)
<1> DEFINE n == Len(t)
           F == [m \in 1 .. n + 1 |-> IF m < i THEN m ELSE m - 1]
           G == [m \in 1 .. n |-> IF m < i THEN m ELSE m + 1]
<1>1. /\ n \in Nat /\ DOMAIN t = 1 .. n /\ i \in 1 .. n + 1 /\ DOMAIN r = 1 .. n + 1
      /\ \A m \in 1 .. n + 1 : r[m] = IF m < i THEN t[m] ELSE IF m = i THEN x ELSE t[m - 1]
  BY DEF InsertedAt
<1>2. \A m \in Kept(r, p) : m \in 1 .. n + 1 /\ m # i
  BY <1>1 DEF Kept
<1>3. \A m \in Kept(r, p) : F[m] \in 1 .. n /\ r[m] = t[F[m]]
  BY <1>1, <1>2
<1>4. \A m \in Kept(r, p) : F[m] \in Kept(t, p) /\ r[m] = t[F[m]]
  BY <1>1, <1>3 DEF Kept
<1>5. \A m, k \in Kept(r, p) : m <= k => F[m] <= F[k]
  BY <1>1, <1>2
<1>6. \A m \in 1 .. n : G[m] \in 1 .. n + 1 /\ t[m] = r[G[m]]
  BY <1>1
<1>7. \A m \in Kept(t, p) : G[m] \in Kept(r, p) /\ t[m] = r[G[m]]
  BY <1>1, <1>6 DEF Kept
<1>8. \A m, k \in Kept(t, p) : m <= k => G[m] <= G[k]
  BY <1>1 DEF Kept
<1> HIDE DEF F, G
<1> QED BY <1>4, <1>5, <1>7, <1>8, SameRest

LEMMA RemovedRest ==
  ASSUME NEW t \in Seq(BlockType), NEW r \in Seq(BlockType), NEW p, NEW i,
         RemovedAt(t, r, i), t[i].id = p.block
  PROVE  RestOf(r, p) = RestOf(t, p)
<1> DEFINE n == Len(t)
           F == [m \in 1 .. n - 1 |-> IF m < i THEN m ELSE m + 1]
           G == [m \in 1 .. n |-> IF m < i THEN m ELSE m - 1]
<1>1. /\ n \in Nat /\ DOMAIN t = 1 .. n /\ i \in 1 .. n /\ DOMAIN r = 1 .. n - 1
      /\ \A m \in 1 .. n - 1 : r[m] = IF m < i THEN t[m] ELSE t[m + 1]
  BY DEF RemovedAt
<1>2. \A m \in Kept(t, p) : m \in 1 .. n /\ m # i
  BY <1>1 DEF Kept
<1>3. \A m \in 1 .. n - 1 : F[m] \in 1 .. n /\ r[m] = t[F[m]]
  BY <1>1
<1>4. \A m \in Kept(r, p) : F[m] \in Kept(t, p) /\ r[m] = t[F[m]]
  BY <1>1, <1>3 DEF Kept
<1>5. \A m, k \in Kept(r, p) : m <= k => F[m] <= F[k]
  BY <1>1 DEF Kept
<1>6. \A m \in Kept(t, p) : G[m] \in 1 .. n - 1 /\ t[m] = r[G[m]]
  BY <1>1, <1>2
<1>7. \A m \in Kept(t, p) : G[m] \in Kept(r, p) /\ t[m] = r[G[m]]
  BY <1>1, <1>6 DEF Kept
<1>8. \A m, k \in Kept(t, p) : m <= k => G[m] <= G[k]
  BY <1>1, <1>2
<1> HIDE DEF F, G
<1> QED BY <1>4, <1>5, <1>7, <1>8, SameRest

LEMMA ReplacedRest ==
  ASSUME NEW t \in Seq(BlockType), NEW r \in Seq(BlockType), NEW p, NEW i, NEW x,
         ReplacedAt(t, r, i, x), t[i].id = p.block, x.id = p.block
  PROVE  RestOf(r, p) = RestOf(t, p)
<1>1. /\ DOMAIN r = DOMAIN t /\ i \in DOMAIN t
      /\ \A m \in DOMAIN t : r[m] = IF m = i THEN x ELSE t[m]
  BY DEF ReplacedAt
<1>2. Kept(r, p) = Kept(t, p) /\ \A m \in Kept(t, p) : r[m] = t[m]
  BY <1>1 DEF Kept
<1> QED BY <1>2 DEF RestOf

\* A section ends at a heading that is no deeper, or at the end, and holds none
\* that is.
LEMMA EndIs ==
  ASSUME NEW t \in Seq(BlockType), NEW i \in DOMAIN t, IsHeading(t[i])
  PROVE  /\ EndOfSection(t, i) \in i + 1 .. Len(t) + 1
         /\ EndOfSection(t, i) <= Len(t) =>
              /\ IsHeading(t[EndOfSection(t, i)])
              /\ ~ (t[EndOfSection(t, i)].level > t[i].level)
         /\ \A j \in i + 1 .. EndOfSection(t, i) - 1 : IsHeading(t[j]) => t[j].level > t[i].level
<1> DEFINE n == Len(t)
           stops == {j \in i + 1 .. n : IsHeading(t[j]) /\ t[j].level <= t[i].level}
           e == IF stops = {} THEN n + 1 ELSE Min(stops)
<1>1. n \in Nat /\ DOMAIN t = 1 .. n /\ i \in 1 .. n /\ \A j \in 1 .. n : t[j].level \in Nat
  BY BlockFacts
<1>2. EndOfSection(t, i) = e
  BY DEF EndOfSection
<1>3. stops \in SUBSET (i + 1 .. n) /\ stops \in SUBSET Nat
  BY <1>1
<1>4. /\ e \in i + 1 .. n + 1 /\ (e <= n => e \in stops) /\ \A j \in stops : e <= j
  <2>1. CASE stops = {}
    <3>1. e = n + 1
      BY <2>1
    <3> HIDE DEF e
    <3> QED BY <1>1, <2>1, <3>1
  <2>2. CASE stops # {}
    <3>1. e = Min(stops)
      BY <2>2
    <3> HIDE DEF e, stops
    <3>2. e \in stops /\ \A j \in stops : e <= j
      BY <1>3, <2>2, <3>1, MinIs
    <3>3. e \in i + 1 .. n
      BY <1>3, <3>2
    <3> QED BY <1>1, <3>2, <3>3
  <2> QED BY <2>1, <2>2
<1> HIDE DEF e
<1>5. ASSUME e <= n PROVE IsHeading(t[e]) /\ ~ (t[e].level > t[i].level)
  <2>1. e \in stops /\ e \in 1 .. n
    BY <1>1, <1>4, <1>5
  <2> QED BY <1>1, <2>1
<1>6. ASSUME NEW j \in i + 1 .. e - 1, IsHeading(t[j]) PROVE t[j].level > t[i].level
  <2>1. j \in i + 1 .. n /\ j \in 1 .. n /\ ~ (e <= j)
    BY <1>1, <1>4
  <2>2. j \notin stops
    BY <1>4, <2>1
  <2> QED BY <1>1, <1>6, <2>1, <2>2
<1> QED BY <1>2, <1>4, <1>5, <1>6

\* Whatever the block, the end is a place an insertion can take.
LEMMA EndRange ==
  ASSUME NEW t \in Seq(BlockType), NEW i \in DOMAIN t
  PROVE  EndOfSection(t, i) \in 1 .. Len(t) + 1
<1> DEFINE n == Len(t)
           rank == IF IsHeading(t[i]) THEN t[i].level ELSE 0
           stops == {j \in i + 1 .. n : IsHeading(t[j]) /\ t[j].level <= rank}
<1>1. n \in Nat /\ i \in 1 .. n
  OBVIOUS
<1>2. EndOfSection(t, i) = IF stops = {} THEN n + 1 ELSE Min(stops)
  BY DEF EndOfSection
<1>3. stops \in SUBSET (1 .. n) /\ stops \in SUBSET Nat
  BY <1>1
<1> HIDE DEF stops
<1>4. CASE stops = {}
  BY <1>1, <1>2, <1>4
<1>5. CASE stops # {}
  <2>1. Min(stops) \in stops
    BY <1>3, <1>5, MinIs
  <2>2. Min(stops) \in 1 .. n
    BY <1>3, <2>1
  <2>3. EndOfSection(t, i) = Min(stops)
    BY <1>2, <1>5
  <2> HIDE DEF n
  <2>4. EndOfSection(t, i) \in 1 .. n + 1
    BY <1>1, <2>2, <2>3
  <2> QED BY <2>4 DEF n
<1> QED BY <1>4, <1>5

\* A block that is found is at its place.
LEMMA PlaceIs ==
  ASSUME NEW t \in Seq(BlockType), NEW id, Found(t, id)
  PROVE  PlaceOf(t, id) \in DOMAIN t /\ t[PlaceOf(t, id)].id = id
BY DEF Found, PlaceOf

\* Each kind of proposal makes its own change.
LEMMA AppliedIs ==
  ASSUME NEW t \in Seq(BlockType), NEW p, NEW n, NEW k, GoodProposal(p, n, k), Found(t, p.block)
  PROVE  /\ Applied(t, p) \in Seq(BlockType)
         /\ p.kind = "insert" => \E e : InsertedAt(t, Applied(t, p), e, p.new[1])
         /\ p.kind = "append" =>
              InsertedAt(t, Applied(t, p), EndOfSection(t, PlaceOf(t, p.block)), p.new[1])
         /\ p.kind \in {"replace", "suggest"} =>
              ReplacedAt(t, Applied(t, p), PlaceOf(t, p.block), p.new[1])
         /\ p.kind = "delete" => RemovedAt(t, Applied(t, p), PlaceOf(t, p.block))
<1> DEFINE i == PlaceOf(t, p.block)
           x == p.new[1]
           r == Applied(t, p)
<1>1. i \in DOMAIN t /\ DOMAIN t = 1 .. Len(t) /\ Len(t) \in Nat
  BY PlaceIs
<1>2. p.kind \in {"insert", "append", "replace", "suggest", "delete"}
  BY DEF GoodProposal
<1>3. p.kind # "delete" => p.new = <<x>> /\ x \in BlockType
  BY DEF GoodProposal
<1> HIDE DEF i, x
<1>4. ASSUME NEW e \in 1 .. Len(t) + 1, p.kind # "delete", r = InsertSeqAt(t, e, p.new)
      PROVE  r \in Seq(BlockType) /\ InsertedAt(t, r, e, x)
  <2> DEFINE s == InsertSeqAt(t, e, <<x>>)
  <2>1. r = s /\ x \in BlockType
    BY <1>3, <1>4
  <2>2. /\ s \in Seq(BlockType) /\ DOMAIN s = 1 .. Len(t) + 1
        /\ \A m \in 1 .. Len(t) + 1 : s[m] = IF m < e THEN t[m] ELSE IF m = e THEN x ELSE t[m - 1]
    BY <2>1, InsertIs
  <2> HIDE DEF s, r
  <2> QED BY <2>1, <2>2 DEF InsertedAt
<1>5. CASE p.kind = "insert"
  <2> DEFINE e == IF p.after THEN i + 1 ELSE i
  <2>1. e \in 1 .. Len(t) + 1
    BY <1>1
  <2>2. r = InsertSeqAt(t, e, p.new)
    BY <1>5 DEF Applied, i
  <2> HIDE DEF e, r
  <2>3. r \in Seq(BlockType) /\ InsertedAt(t, r, e, x)
    BY <1>4, <1>5, <2>1, <2>2
  <2> QED BY <1>5, <2>3 DEF r, x
<1>6. CASE p.kind = "append"
  <2> DEFINE e == EndOfSection(t, i)
  <2>1. e \in 1 .. Len(t) + 1
    BY <1>1, EndRange
  <2>2. r = InsertSeqAt(t, e, p.new)
    BY <1>6 DEF Applied, i
  <2> HIDE DEF e, r
  <2>3. r \in Seq(BlockType) /\ InsertedAt(t, r, e, x)
    BY <1>4, <1>6, <2>1, <2>2
  <2> QED BY <1>6, <2>3 DEF r, x, e, i
<1>7. CASE p.kind \in {"replace", "suggest"}
  <2>1. r = [t EXCEPT ![i] = x]
    BY <1>7 DEF Applied, i, x
  <2>2. x \in BlockType
    BY <1>3, <1>7
  <2>3. r \in Seq(BlockType) /\ ReplacedAt(t, r, i, x)
    <3> HIDE DEF r
    <3> QED BY <1>1, <2>1, <2>2 DEF ReplacedAt
  <2> QED BY <1>7, <2>3 DEF x, i
<1>8. CASE p.kind = "delete"
  <2>1. r = RemoveAt(t, i)
    BY <1>8 DEF Applied, i
  <2>2. r \in Seq(BlockType) /\ RemovedAt(t, r, i)
    <3> HIDE DEF r
    <3> QED BY <1>1, <2>1, RemoveIs DEF RemovedAt
  <2> QED BY <1>8, <2>2 DEF i
<1> QED BY <1>2, <1>5, <1>6, <1>7, <1>8

\* What becomes of the ids.
LEMMA AppliedIds ==
  ASSUME NEW t \in Seq(BlockType), NEW p, NEW n, NEW k, GoodProposal(p, n, k), Found(t, p.block),
         Distinct(t), Brings(p) => p.new[1].id \notin IdsOf(t)
  PROVE  /\ Distinct(Applied(t, p))
         /\ IdsOf(Applied(t, p)) \subseteq
              IF Brings(p) THEN IdsOf(t) \union {p.new[1].id} ELSE IdsOf(t)
<1> DEFINE i == PlaceOf(t, p.block)
           x == p.new[1]
           r == Applied(t, p)
<1>1. i \in DOMAIN t /\ t[i].id = p.block
  BY PlaceIs
<1>2. p.kind \in {"insert", "append", "replace", "suggest", "delete"}
  BY DEF GoodProposal
<1>3. /\ p.kind # "delete" => x \in BlockType
      /\ p.kind \in {"replace", "suggest"} => x.id = p.block
  BY DEF GoodProposal, Brings
<1>4. /\ r \in Seq(BlockType)
      /\ p.kind \in {"insert", "append"} => \E e : InsertedAt(t, r, e, x)
      /\ p.kind \in {"replace", "suggest"} => ReplacedAt(t, r, i, x)
      /\ p.kind = "delete" => RemovedAt(t, r, i)
  BY AppliedIs
<1> HIDE DEF i, r, x
<1>5. CASE p.kind \in {"insert", "append"}
  <2>1. x.id \notin IdsOf(t) /\ Brings(p)
    BY <1>5 DEF Brings, x
  <2>2. PICK e : InsertedAt(t, r, e, x)
    BY <1>4, <1>5
  <2>3. x \in BlockType
    BY <1>3, <1>5
  <2>4. Distinct(r) /\ IdsOf(r) = IdsOf(t) \union {x.id}
    BY <1>4, <2>1, <2>2, <2>3, InsertedIds
  <2> QED BY <2>1, <2>4 DEF r, x
<1>6. CASE p.kind \in {"replace", "suggest"}
  <2>1. Distinct(r) /\ IdsOf(r) = IdsOf(t)
    BY <1>1, <1>3, <1>4, <1>6, ReplacedIds
  <2> QED BY <2>1 DEF r
<1>7. CASE p.kind = "delete"
  <2>1. Distinct(r) /\ IdsOf(r) \subseteq IdsOf(t)
    BY <1>4, <1>7, RemovedIds
  <2> QED BY <2>1 DEF r
<1> QED BY <1>2, <1>5, <1>6, <1>7

\* No proposal touches more than the block it names.
LEMMA AppliedRest ==
  ASSUME NEW t \in Seq(BlockType), NEW p, NEW n, NEW k, GoodProposal(p, n, k), Found(t, p.block)
  PROVE  RestOf(Applied(t, p), p) = RestOf(t, p)
<1> DEFINE i == PlaceOf(t, p.block)
           x == p.new[1]
           r == Applied(t, p)
<1>1. i \in DOMAIN t /\ t[i].id = p.block
  BY PlaceIs
<1>2. p.kind \in {"insert", "append", "replace", "suggest", "delete"}
  BY DEF GoodProposal
<1>3. /\ p.kind # "delete" => p.new = <<x>>
      /\ p.kind \in {"replace", "suggest"} => x.id = p.block
  BY DEF GoodProposal, Brings
<1>4. /\ r \in Seq(BlockType)
      /\ p.kind \in {"insert", "append"} => \E e : InsertedAt(t, r, e, x)
      /\ p.kind \in {"replace", "suggest"} => ReplacedAt(t, r, i, x)
      /\ p.kind = "delete" => RemovedAt(t, r, i)
  BY AppliedIs
<1> HIDE DEF i, r, x
<1>5. CASE p.kind \in {"insert", "append"}
  <2>1. x \in Range(p.new)
    <3>1. 1 \in DOMAIN <<x>> /\ <<x>>[1] = x
      OBVIOUS
    <3> QED BY <1>3, <1>5, <3>1 DEF Range
  <2>2. PICK e : InsertedAt(t, r, e, x)
    BY <1>4, <1>5
  <2>3. RestOf(r, p) = RestOf(t, p)
    BY <1>4, <2>1, <2>2, InsertedRest
  <2> QED BY <2>3 DEF r
<1>6. CASE p.kind \in {"replace", "suggest"}
  <2>1. RestOf(r, p) = RestOf(t, p)
    BY <1>1, <1>3, <1>4, <1>6, ReplacedRest
  <2> QED BY <2>1 DEF r
<1>7. CASE p.kind = "delete"
  <2>1. RestOf(r, p) = RestOf(t, p)
    BY <1>1, <1>4, <1>7, RemovedRest
  <2> QED BY <2>1 DEF r
<1> QED BY <1>2, <1>5, <1>6, <1>7

\* Where the block of an append comes to stand.
LEMMA AppliedUnder ==
  ASSUME NEW t \in Seq(BlockType), NEW p, NEW n, NEW k, GoodProposal(p, n, k), Found(t, p.block),
         Distinct(t), p.kind = "append", p.new[1].id \notin IdsOf(t), IsHeading(Get(t, p.block))
  PROVE  LET r  == Applied(t, p)
             at == PlaceOf(r, p.new[1].id)
         IN  /\ IsUnder(r, at, p.block)
             /\ \A m \in at + 1 .. Len(r) : ~ IsHeading(r[m]) => ~ IsUnder(r, m, p.block)
<1> DEFINE r == Applied(t, p)
           x == p.new[1]
           i == PlaceOf(t, p.block)
           e == EndOfSection(t, i)
           at == PlaceOf(r, x.id)
           len == Len(t)
<1>1. i \in DOMAIN t /\ t[i].id = p.block /\ IsHeading(t[i])
  BY PlaceIs DEF Get
<1>2. r \in Seq(BlockType) /\ InsertedAt(t, r, e, x) /\ x \in BlockType
  BY AppliedIs DEF GoodProposal
<1>3. /\ e \in i + 1 .. len + 1
      /\ e <= len => IsHeading(t[e]) /\ ~ (t[e].level > t[i].level)
      /\ \A j \in i + 1 .. e - 1 : IsHeading(t[j]) => t[j].level > t[i].level
  BY <1>1, EndIs
<1>4. Distinct(r)
  BY <1>2, InsertedIds
<1>5. len \in Nat /\ DOMAIN t = 1 .. len /\ i \in 1 .. len /\ \A j \in 1 .. len : t[j].level \in Nat
  BY <1>1, BlockFacts
<1> HIDE DEF r, x, i, e, at, len
<1>6. /\ DOMAIN r = 1 .. len + 1 /\ Len(r) = len + 1
      /\ \A m \in 1 .. len + 1 : r[m] = IF m < e THEN t[m] ELSE IF m = e THEN x ELSE t[m - 1]
  BY <1>2, <1>5 DEF InsertedAt, len
<1>7. e \in 1 .. len + 1 /\ r[e] = x
  BY <1>3, <1>5, <1>6
<1>8. at = e
  <2>1. Found(r, x.id)
    BY <1>6, <1>7 DEF Found
  <2>2. at \in DOMAIN r /\ r[at].id = x.id
    BY <1>2, <2>1, PlaceIs DEF at
  <2> QED BY <1>4, <1>6, <1>7, <2>2 DEF Distinct
<1>9. i \in 1 .. e - 1 /\ r[i] = t[i]
  BY <1>3, <1>5, <1>6
<1>10. IsUnder(r, e, p.block)
  <2>1. \A m \in i + 1 .. e - 1 : IsHeading(r[m]) => r[m].level > r[i].level
    <3> SUFFICES ASSUME NEW m \in i + 1 .. e - 1, IsHeading(r[m]) PROVE r[m].level > r[i].level
      OBVIOUS
    <3>1. m \in 1 .. len + 1 /\ m < e
      BY <1>3, <1>5
    <3>2. r[m] = t[m]
      BY <1>6, <3>1
    <3> QED BY <1>3, <1>9, <3>2
  <2>2. i \in Above(r, e)
    BY <1>1, <1>9, <2>1 DEF Above
  <2> QED BY <1>1, <1>9, <2>2 DEF IsUnder
<1>11. ASSUME NEW m \in e + 1 .. len + 1, ~ IsHeading(r[m]), IsUnder(r, m, p.block) PROVE FALSE
  <2>1. PICK h \in Above(r, m) : r[h].id = p.block
    BY <1>11 DEF IsUnder
  <2>2. h \in 1 .. m - 1 /\ \A j \in h + 1 .. m - 1 : IsHeading(r[j]) => r[j].level > r[h].level
    BY <2>1 DEF Above
  <2>3. h \in DOMAIN r /\ i \in DOMAIN r
    BY <1>3, <1>5, <1>6, <2>2
  <2>4. h = i
    BY <1>1, <1>4, <1>9, <2>1, <2>3 DEF Distinct
  <2>5. e <= len /\ e + 1 \in 1 .. len + 1
    BY <1>3, <1>5
  <2>6. r[e + 1] = t[e]
    BY <1>3, <1>5, <1>6, <2>5
  <2>7. IsHeading(r[e + 1]) /\ ~ (r[e + 1].level > r[i].level)
    BY <1>3, <1>9, <2>5, <2>6
  <2>8. m # e + 1
    BY <1>11, <2>7
  <2>9. e + 1 \in i + 1 .. m - 1
    BY <1>3, <1>5, <2>8
  <2> QED BY <2>2, <2>4, <2>7, <2>9
<1>12. /\ IsUnder(r, at, p.block)
       /\ \A m \in at + 1 .. Len(r) : ~ IsHeading(r[m]) => ~ IsUnder(r, m, p.block)
  BY <1>6, <1>8, <1>10, <1>11
<1> QED BY <1>12 DEF r, at, x

-----------------------------------------------------------------------------
(* The batcher *)

\* The numbers of a list of entries.
Numbers(l) == [m \in DOMAIN l |-> l[m].number]

\* One entry more.
LEMMA NumbersMore ==
  ASSUME NEW l \in Seq(EntryType), NEW e \in EntryType
  PROVE  /\ Numbers(l) \in Seq(Nat) /\ Numbers(<<>>) = <<>>
         /\ Numbers(Append(l, e)) = Append(Numbers(l), e.number)
<1> DEFINE n == Len(l)
           f == Numbers(l)
<1>1. /\ n \in Nat /\ DOMAIN l = 1 .. n /\ DOMAIN Append(l, e) = 1 .. n + 1
      /\ \A m \in 1 .. n : Append(l, e)[m] = l[m] /\ l[m] \in EntryType /\ l[m].number \in Nat
      /\ Append(l, e)[n + 1] = e
  <2>1. \A x \in EntryType : x.number \in Nat
    BY DEF EntryType
  <2> QED BY <2>1, AppendIs
<1>2. f = [c \in 1 .. n |-> l[c].number] /\ f \in Seq(Nat) /\ Len(f) = n
  BY <1>1 DEF Numbers
<1>3. Append(f, e.number) = [c \in 1 .. n + 1 |-> IF c = n + 1 THEN e.number ELSE f[c]]
  BY <1>1, <1>2
<1>4. Numbers(Append(l, e)) = [c \in 1 .. n + 1 |-> Append(l, e)[c].number]
  BY <1>1 DEF Numbers
<1>5. ASSUME NEW c \in 1 .. n + 1
      PROVE  Append(l, e)[c].number = IF c = n + 1 THEN e.number ELSE f[c]
  <2>1. c = n + 1 \/ c \in 1 .. n
    BY <1>1
  <2> QED BY <1>1, <1>2, <2>1
<1>6. Numbers(<<>>) = <<>>
  BY DEF Numbers
<1> QED BY <1>2, <1>3, <1>4, <1>5, <1>6

\* Append as a function.
LEMMA AppendOf ==
  ASSUME NEW X, NEW s \in Seq(X), NEW x \in X
  PROVE  Append(s, x) = [c \in 1 .. Len(s) + 1 |-> IF c = Len(s) + 1 THEN x ELSE s[c]]
<1> DEFINE r == Append(s, x)
           n == Len(s)
<1>1. r \in Seq(X) /\ DOMAIN r = 1 .. n + 1 /\ r[n + 1] = x /\ n \in Nat
      /\ \A m \in 1 .. n : r[m] = s[m]
  BY AppendIs
<1> HIDE DEF r
<1>2. r = [c \in 1 .. n + 1 |-> r[c]]
  BY <1>1
<1>3. \A c \in 1 .. n + 1 : r[c] = IF c = n + 1 THEN x ELSE s[c]
  <2> SUFFICES ASSUME NEW c \in 1 .. n + 1 PROVE r[c] = IF c = n + 1 THEN x ELSE s[c]
    OBVIOUS
  <2>1. c = n + 1 \/ c \in 1 .. n
    BY <1>1
  <2> QED BY <1>1, <2>1
<1> HIDE DEF n
<1>4. r = [c \in 1 .. n + 1 |-> IF c = n + 1 THEN x ELSE s[c]]
  BY <1>2, <1>3
<1> QED BY <1>4 DEF r, n

\* One list more.
LEMMA ListsMore ==
  ASSUME NEW lists \in Seq(Seq(EntryType)), NEW l \in Seq(EntryType)
  PROVE  /\ NumbersOf(lists) \in Seq(Seq(Nat))
         /\ NumbersOf(Append(lists, l)) = Append(NumbersOf(lists), Numbers(l))
<1> DEFINE n == Len(lists)
           f == NumbersOf(lists)
<1>1. /\ n \in Nat /\ DOMAIN lists = 1 .. n /\ DOMAIN Append(lists, l) = 1 .. n + 1
      /\ \A m \in 1 .. n : Append(lists, l)[m] = lists[m] /\ lists[m] \in Seq(EntryType)
      /\ Append(lists, l)[n + 1] = l
  BY AppendIs
<1>2. \A m \in 1 .. n : Numbers(lists[m]) \in Seq(Nat)
  BY <1>1, NumbersMore, [number |-> 0, level |-> 0] \in EntryType DEF EntryType
<1>3. f = [c \in 1 .. n |-> Numbers(lists[c])]
  BY <1>1 DEF NumbersOf, Numbers
<1>4. f \in Seq(Seq(Nat)) /\ Len(f) = n
  <2> HIDE DEF f
  <2> QED BY <1>1, <1>2, <1>3
<1>5. Append(f, Numbers(l)) = [c \in 1 .. n + 1 |-> IF c = n + 1 THEN Numbers(l) ELSE f[c]]
  <2> DEFINE g == Numbers(l)
  <2> HIDE DEF f, n
  <2>1. g \in Seq(Nat)
    BY NumbersMore, [number |-> 0, level |-> 0] \in EntryType DEF EntryType
  <2> HIDE DEF g
  <2> DEFINE T == Seq(Nat)
  <2>2. f \in Seq(T) /\ g \in T /\ Len(f) = n
    BY <1>4, <2>1
  <2> HIDE DEF T
  <2>3. Append(f, g) = [c \in 1 .. n + 1 |-> IF c = n + 1 THEN g ELSE f[c]]
    BY <2>2, AppendOf
  <2> QED BY <2>3 DEF g
<1>6. NumbersOf(Append(lists, l)) = [c \in 1 .. n + 1 |-> Numbers(Append(lists, l)[c])]
  BY <1>1 DEF NumbersOf, Numbers
<1>7. ASSUME NEW c \in 1 .. n + 1
      PROVE  Numbers(Append(lists, l)[c]) = IF c = n + 1 THEN Numbers(l) ELSE f[c]
  <2>1. c = n + 1 \/ c \in 1 .. n
    BY <1>1
  <2> HIDE DEF f
  <2> QED BY <1>1, <1>3, <2>1
<1> HIDE DEF f
<1> QED BY <1>4, <1>5, <1>6, <1>7 DEF f

\* What may be said of one batch.
OfOneLevel(l) ==
  /\ Len(l) <= Threshold
  /\ \A m, n \in DOMAIN l : l[m].level # 0 /\ l[n].level # 0 => l[m].level = l[n].level

\* What holds of the lists and of one more.
LEMMA BatchesAre ==
  ASSUME NEW lists \in Seq(Seq(EntryType)), NEW l \in Seq(EntryType)
  PROVE  (\A a \in DOMAIN Append(lists, l) : OfOneLevel(Append(lists, l)[a]))
           <=> (\A a \in DOMAIN lists : OfOneLevel(lists[a])) /\ OfOneLevel(l)
<1> DEFINE n == Len(lists)
           more == Append(lists, l)
<1>1. /\ n \in Nat /\ DOMAIN lists = 1 .. n /\ DOMAIN more = 1 .. n + 1
      /\ \A m \in 1 .. n : more[m] = lists[m]
      /\ more[n + 1] = l
  BY AppendIs
<1> HIDE DEF more, n
<1>2. \A c \in 1 .. n + 1 : c = n + 1 \/ c \in 1 .. n
  BY <1>1
<1>3. (\A c \in 1 .. n : c \in 1 .. n + 1) /\ n + 1 \in 1 .. n + 1
  BY <1>1
<1>4. (\A a \in DOMAIN more : OfOneLevel(more[a]))
        <=> (\A a \in DOMAIN lists : OfOneLevel(lists[a])) /\ OfOneLevel(l)
  BY <1>1, <1>2, <1>3
<1> QED BY <1>4 DEF more

\* A list takes an entry of its level, or of none.
LEMMA OneLevelMore ==
  ASSUME NEW l \in Seq(EntryType), NEW e \in EntryType, NEW lvl, Len(l) < Threshold,
         \A m \in DOMAIN l : l[m].level \in {0, lvl}, e.level \in {0, lvl}
  PROVE  /\ OfOneLevel(Append(l, e))
         /\ \A m \in DOMAIN Append(l, e) : Append(l, e)[m].level \in {0, lvl}
<1>1. /\ Len(l) \in Nat /\ Len(Append(l, e)) = Len(l) + 1
      /\ \A m \in DOMAIN Append(l, e) : \/ m \in DOMAIN l /\ Append(l, e)[m] = l[m]
                                        \/ Append(l, e)[m] = e
  BY AppendIs
<1>2. \A m \in DOMAIN Append(l, e) : Append(l, e)[m].level \in {0, lvl}
  BY <1>1
<1>3. Len(Append(l, e)) <= Threshold
  BY <1>1, BoundsAssumption
<1> QED BY <1>2, <1>3 DEF OfOneLevel

\* The property, said of the batches and of the buffer apart.
LEMMA BatchesInOrderIs ==
  ASSUME batches \in Seq(Seq(EntryType)), buffer \in Seq(EntryType)
  PROVE  BatchesInOrder <=>
           /\ Deals(Append(NumbersOf(batches), Numbers(buffer)), 1 .. calls)
           /\ \A a \in DOMAIN batches : OfOneLevel(batches[a])
           /\ OfOneLevel(buffer)
<1>1. NumbersOf(Append(batches, buffer)) = Append(NumbersOf(batches), Numbers(buffer))
  BY ListsMore
<1>2. (\A a \in DOMAIN Append(batches, buffer) : OfOneLevel(Append(batches, buffer)[a]))
        <=> (\A a \in DOMAIN batches : OfOneLevel(batches[a])) /\ OfOneLevel(buffer)
  BY BatchesAre
<1>3. BatchesInOrder <=>
        /\ Deals(NumbersOf(Append(batches, buffer)), 1 .. calls)
        /\ \A a \in DOMAIN Append(batches, buffer) : OfOneLevel(Append(batches, buffer)[a])
  BY DEF BatchesInOrder, OfOneLevel
<1> QED BY <1>1, <1>2, <1>3

\* A buffer that is handed out, and an empty one in its place.
LEMMA HandedOut ==
  ASSUME NEW lists \in Seq(Seq(EntryType)), NEW l \in Seq(EntryType), NEW S \in SUBSET Nat,
         Deals(Append(NumbersOf(lists), Numbers(l)), S)
  PROVE  /\ Append(lists, l) \in Seq(Seq(EntryType))
         /\ Deals(Append(NumbersOf(Append(lists, l)), <<>>), S)
<1> DEFINE s == Seq(EntryType)
           f == NumbersOf(lists)
           g == Numbers(l)
<1>1. Append(lists, l) \in Seq(Seq(EntryType))
  <2>1. lists \in Seq(s) /\ l \in s
    OBVIOUS
  <2> HIDE DEF s
  <2>2. Append(lists, l) \in Seq(s)
    BY <2>1
  <2> QED BY <2>2 DEF s
<1>2. NumbersOf(Append(lists, l)) = Append(f, g) /\ f \in Seq(Seq(Nat))
  BY ListsMore
<1>3. NumbersOf(Append(lists, l)) \in Seq(Seq(Nat))
  BY <1>1, ListsMore
<1> HIDE DEF f, g
<1>4. Deals(NumbersOf(Append(lists, l)), S)
  BY <1>2 DEF f, g
<1> QED BY <1>1, <1>3, <1>4, DealsClose

\* CheckpointBatcher::push: a heading of another level closes the buffer before
\* it, a full buffer is closed after it.
LEMMA PushStep ==
  ASSUME BatcherInv, calls \in Nat, level \in 0..6, calls' = calls + 1, NEW p, p.number = calls + 1,
         LevelOf(p) \in 0..6, Push(p)
  PROVE  BatcherInv' /\ level' \in 0..6
<1> DEFINE new == LevelOf(p)
           e == Entry(p)
           longer == Append(buffer, e)
           S == 1 .. calls
           x == calls + 1
           crossed == new # 0 /\ IF level # 0 THEN level # new ELSE buffer # <<>>
<1>1. /\ batches \in Seq(Seq(EntryType)) /\ buffer \in Seq(EntryType)
      /\ Len(buffer) < Threshold /\ (buffer = <<>> => level = 0)
      /\ \A m \in DOMAIN buffer : buffer[m].level \in {0, level}
  BY DEF BatcherInv
<1>2. /\ Deals(Append(NumbersOf(batches), Numbers(buffer)), S)
      /\ \A a \in DOMAIN batches : OfOneLevel(batches[a])
      /\ OfOneLevel(buffer)
  BY <1>1, BatchesInOrderIs DEF BatcherInv
<1>3. e \in EntryType /\ e.number = x /\ e.level = new
  BY DEF Entry, EntryType
<1>4. S \in SUBSET Nat /\ x \in Nat /\ (\A y \in S : y < x) /\ 1 .. calls' = S \union {x}
  OBVIOUS
<1>5. Threshold \in Nat /\ Threshold >= 1
  BY BoundsAssumption
<1>6. NumbersOf(batches) \in Seq(Seq(Nat))
  BY <1>1, ListsMore
<1>7. S \union {x} \in SUBSET Nat
  BY <1>4
<1>8. ASSUME batches' \in Seq(Seq(EntryType)), buffer' \in Seq(EntryType),
             Deals(Append(NumbersOf(batches'), Numbers(buffer')), S \union {x}),
             \A a \in DOMAIN batches' : OfOneLevel(batches'[a]), OfOneLevel(buffer'),
             Len(buffer') < Threshold, buffer' = <<>> => level' = 0,
             \A m \in DOMAIN buffer' : buffer'[m].level \in {0, level'}
      PROVE  BatcherInv'
  <2>1. BatchesInOrder'
    <3>1. (\A a \in DOMAIN Append(batches', buffer') : OfOneLevel(Append(batches', buffer')[a]))
      BY <1>8, BatchesAre
    <3>2. NumbersOf(Append(batches', buffer')) = Append(NumbersOf(batches'), Numbers(buffer'))
      BY <1>8, ListsMore
    <3> QED BY <1>4, <1>8, <3>1, <3>2 DEF BatchesInOrder, OfOneLevel
  <2> QED BY <1>8, <2>1 DEF BatcherInv
<1> HIDE DEF S, x, e, new
<1>9. CASE crossed
  <2>1. buffer # <<>>
    BY <1>1, <1>9
  <2>2. batches' = Append(batches, buffer) /\ buffer' = <<e>> /\ level' = new
    BY <1>9, <2>1 DEF Push, e, new
  <2>3. /\ batches' \in Seq(Seq(EntryType))
        /\ Deals(Append(NumbersOf(batches'), <<>>), S)
    BY <1>1, <1>2, <1>4, <2>2, HandedOut
  <2>4. buffer' = Append(<<>>, e) /\ buffer' \in Seq(EntryType) /\ Len(buffer') = 1
    BY <1>3, <2>2
  <2>5. Numbers(buffer') = Append(<<>>, x)
    BY <1>3, <2>4, EmptyIs, NumbersMore
  <2> DEFINE lists == NumbersOf(batches')
  <2>6. lists \in Seq(Seq(Nat)) /\ <<>> \in Seq(Nat)
    BY <2>3, <2>4, ListsMore, EmptyIs
  <2>7. Deals(Append(NumbersOf(batches'), Numbers(buffer')), S \union {x})
    <3>1. Deals(Append(lists, <<>>), S)
      BY <2>3
    <3> HIDE DEF lists
    <3>2. Deals(Append(lists, Append(<<>>, x)), S \union {x})
      BY <1>4, <2>6, <3>1, DealsMore
    <3> QED BY <2>5, <3>2 DEF lists
  <2>8. \A a \in DOMAIN batches' : OfOneLevel(batches'[a])
    BY <1>1, <1>2, <2>2, BatchesAre
  <2>9. 1 < Threshold
    <3>1. Len(buffer) # 0 /\ Len(buffer) \in Nat
      BY <1>1, <2>1
    <3> QED BY <1>1, <1>5, <3>1
  <2>10. \A m \in DOMAIN buffer' : buffer'[m] = e
    BY <2>2
  <2>11. OfOneLevel(buffer') /\ \A m \in DOMAIN buffer' : buffer'[m].level \in {0, level'}
    BY <1>3, <1>5, <2>2, <2>4, <2>9, <2>10 DEF OfOneLevel
  <2>12. Len(buffer') < Threshold /\ buffer' # <<>>
    BY <2>4, <2>9
  <2>13. level' \in 0..6
    BY <2>2 DEF new
  <2> QED BY <1>8, <2>3, <2>4, <2>7, <2>8, <2>11, <2>12, <2>13
<1>10. CASE ~ crossed
  <2> DEFINE lvl == IF new # 0 THEN new ELSE level
  <2>1. lvl \in 0..6 /\ e.level \in {0, lvl} /\ \A m \in DOMAIN buffer : buffer[m].level \in {0, lvl}
    <3>1. new # 0 => level = new \/ (level = 0 /\ buffer = <<>>)
      BY <1>10
    <3>2. DOMAIN <<>> = {}
      OBVIOUS
    <3> QED BY <1>1, <1>3, <3>1, <3>2 DEF new
  <2>2. longer \in Seq(EntryType) /\ OfOneLevel(longer) /\ \A m \in DOMAIN longer : longer[m].level \in {0, lvl}
    <3> HIDE DEF lvl
    <3> QED BY <1>1, <1>3, <2>1, AppendIs, OneLevelMore
  <2>3. Deals(Append(NumbersOf(batches), Numbers(longer)), S \union {x})
    <3> DEFINE lists == NumbersOf(batches)
               l == Numbers(buffer)
    <3>1. lists \in Seq(Seq(Nat)) /\ l \in Seq(Nat) /\ Deals(Append(lists, l), S)
      BY <1>1, <1>2, <1>3, <1>6, NumbersMore
    <3>2. Numbers(longer) = Append(l, x)
      BY <1>1, <1>3, NumbersMore
    <3> HIDE DEF lists, l
    <3>3. Deals(Append(lists, Append(l, x)), S \union {x})
      BY <1>4, <3>1, DealsMore
    <3> QED BY <3>2, <3>3 DEF lists
  <2>4. Len(longer) = Len(buffer) + 1 /\ Len(buffer) \in Nat
    BY <1>1, <1>3, AppendIs
  <2>5. longer # <<>>
    <3> HIDE DEF longer
    <3> QED BY <2>4, EmptyIs
  <2>6. CASE Len(longer) >= Threshold
    <3>1. batches' = Append(batches, longer) /\ buffer' = <<>> /\ level' = 0
      BY <1>10, <2>6 DEF Push, e, new
    <3> HIDE DEF longer
    <3>2. /\ batches' \in Seq(Seq(EntryType))
          /\ Deals(Append(NumbersOf(batches'), <<>>), S \union {x})
      BY <1>1, <1>7, <2>2, <2>3, <3>1, HandedOut
    <3>3. Numbers(buffer') = <<>> /\ buffer' \in Seq(EntryType) /\ DOMAIN buffer' = {} /\ Len(buffer') = 0
      BY <3>1, EmptyIs DEF Numbers
    <3>4. \A a \in DOMAIN batches' : OfOneLevel(batches'[a])
      BY <1>1, <1>2, <2>2, <3>1, BatchesAre
    <3>5. OfOneLevel(buffer') /\ Len(buffer') < Threshold
      BY <1>5, <3>3 DEF OfOneLevel
    <3> QED BY <1>8, <3>1, <3>2, <3>3, <3>4, <3>5
  <2>7. CASE ~ (Len(longer) >= Threshold)
    <3>1. batches' = batches /\ buffer' = longer /\ level' = lvl
      BY <1>10, <2>7 DEF Push, e, new
    <3>2. Len(longer) < Threshold
      BY <1>5, <2>4, <2>7
    <3> HIDE DEF longer, lvl
    <3> QED BY <1>1, <1>2, <1>8, <2>1, <2>2, <2>3, <2>5, <3>1, <3>2
  <2> QED BY <2>6, <2>7
<1> QED BY <1>9, <1>10

-----------------------------------------------------------------------------
(* The invariant holds at the start *)

\* A payload with an id is a block.
LEMMA BlockOfIs ==
  ASSUME NEW payload \in PayloadType, NEW id \in 1 .. MaxIds
  PROVE  BlockOf(payload, id) \in BlockType /\ BlockOf(payload, id).id = id
BY DEF BlockOf, PayloadType, BlockType

LEMMA PayloadIs == (Payloads \union Answers) \subseteq PayloadType
BY PayloadsAssumption

\* A body that is opened numbers its blocks from 1.
LEMMA InitInv == Init => DocInv
<1> SUFFICES ASSUME Init PROVE DocInv
  OBVIOUS
<1>1. PICK body \in Bodies : /\ tree = [i \in DOMAIN body |-> BlockOf(body[i], i)]
                             /\ minted = Len(body)
  BY DEF Init
<1>2. pending = {} /\ calls = 0 /\ edits = 0 /\ buffer = <<>> /\ level = 0 /\ batches = <<>>
  BY DEF Init
<1> DEFINE n == Len(body)
<1>3. n \in Nat /\ n <= MaxIds /\ DOMAIN body = 1 .. n /\ \A i \in 1 .. n : body[i] \in PayloadType
  BY PayloadsAssumption
<1>4. MaxIds \in Nat /\ MaxCalls \in Nat /\ MaxEdits \in Nat /\ Threshold \in Nat /\ Threshold > 0
  BY BoundsAssumption
<1>5. \A i \in 1 .. n : BlockOf(body[i], i) \in BlockType /\ BlockOf(body[i], i).id = i /\ i <= n
  BY <1>3, <1>4, BlockOfIs
<1>6. tree \in Seq(BlockType) /\ DOMAIN tree = 1 .. n /\ \A i \in 1 .. n : tree[i].id = i /\ i <= n
  <2> HIDE DEF n
  <2>1. tree = [i \in 1 .. n |-> BlockOf(body[i], i)]
    BY <1>1, <1>3
  <2> QED BY <1>3, <1>5, <2>1
<1>7. TreeInv
  <2>1. Distinct(tree)
    BY <1>6 DEF Distinct
  <2> QED BY <1>1, <1>6, <2>1 DEF TreeInv
<1>8. CountsInv
  BY <1>1, <1>2, <1>3, <1>4 DEF CountsInv
<1>9. ProposalsInv
  BY <1>2 DEF ProposalsInv
<1>10. BatcherInv
  <2>1. /\ batches \in Seq(Seq(EntryType)) /\ buffer \in Seq(EntryType)
        /\ DOMAIN batches = {} /\ DOMAIN buffer = {} /\ Len(buffer) = 0
    BY <1>2
  <2>2. 1 .. calls = {} /\ {} \in SUBSET Nat
    BY <1>2
  <2>3. NumbersOf(batches) = <<>> /\ Numbers(buffer) = <<>>
    BY <1>2 DEF NumbersOf, Numbers
  <2>4. Deals(<<>>, {})
    BY DEF Deals
  <2>5. <<>> \in Seq(Seq(Nat))
    OBVIOUS
  <2>6. Deals(Append(NumbersOf(batches), Numbers(buffer)), 1 .. calls)
    BY <2>2, <2>3, <2>4, <2>5, DealsClose
  <2>7. OfOneLevel(buffer) /\ \A a \in DOMAIN batches : OfOneLevel(batches[a])
    BY <1>4, <2>1 DEF OfOneLevel
  <2>8. BatchesInOrder
    BY <2>1, <2>6, <2>7, BatchesInOrderIs
  <2> QED BY <1>2, <1>4, <2>1, <2>8 DEF BatcherInv
<1> QED BY <1>7, <1>8, <1>9, <1>10 DEF DocInv

-----------------------------------------------------------------------------
(* A call that becomes a proposal *)

\* A proposal stays good when more ids are minted and more calls made.
LEMMA GoodProposalMore ==
  ASSUME NEW p, NEW n \in Nat, NEW k \in Nat, NEW n1 \in Nat, NEW k1 \in Nat,
         n <= n1, k <= k1, GoodProposal(p, n, k)
  PROVE  GoodProposal(p, n1, k1)
<1>1. /\ p \in [number : 1..k, kind : {"insert", "append", "replace", "suggest", "delete"},
                block : 1..n, new : Seq(BlockType), after : BOOLEAN]
      /\ 1 .. k \subseteq 1 .. k1 /\ 1 .. n \subseteq 1 .. n1
  BY DEF GoodProposal
<1>2. p \in [number : 1..k1, kind : {"insert", "append", "replace", "suggest", "delete"},
             block : 1..n1, new : Seq(BlockType), after : BOOLEAN]
  BY <1>1
<1>3. p.kind # "delete" => p.new[1].id <= n1
  <2>1. p.kind # "delete" => p.new[1] \in BlockType /\ p.new[1].id <= n
    BY DEF GoodProposal
  <2> QED BY <2>1, BlockFacts
<1> QED BY <1>2, <1>3 DEF GoodProposal

\* What the calls that bring a block propose.
LEMMA ProposalIs ==
  ASSUME NEW kind \in {"insert", "append", "replace", "suggest"}, NEW n \in Nat,
         NEW id \in 1 .. n, NEW b \in BlockType, b.id <= n, NEW after \in BOOLEAN,
         kind \in {"replace", "suggest"} => b.id = id, calls \in Nat
  PROVE  LET p == Proposal(kind, id, <<b>>, after)
         IN  /\ GoodProposal(p, n, calls + 1) /\ p.number = calls + 1
             /\ p.kind = kind /\ p.new[1] = b /\ LevelOf(p) \in 0..6
<1> DEFINE p == Proposal(kind, id, <<b>>, after)
<1>1. /\ p \in [number : 1 .. calls + 1, kind : {"insert", "append", "replace", "suggest", "delete"},
                block : 1 .. n, new : Seq(BlockType), after : BOOLEAN]
      /\ p.number = calls + 1 /\ p.kind = kind /\ p.new = <<b>> /\ p.new[1] = b /\ p.block = id
  BY DEF Proposal
<1>2. b.level \in 0..6
  BY BlockFacts
<1> HIDE DEF p
<1>3. LevelOf(p) \in 0..6
  BY <1>1, <1>2 DEF LevelOf
<1>4. GoodProposal(p, n, calls + 1)
  BY <1>1 DEF GoodProposal, Brings
<1> QED BY <1>1, <1>3, <1>4 DEF p

\* A proposal whose block is new, or has the id of the one it names.
LEMMA ProposeStep ==
  ASSUME DocInv, minted' \in 0 .. MaxIds, minted <= minted', NEW p,
         GoodProposal(p, minted', calls + 1), p.number = calls + 1, LevelOf(p) \in 0..6,
         Brings(p) => p.new[1].id > minted, Propose(p)
  PROVE  DocInv'
<1>1. /\ minted \in 0 .. MaxIds /\ calls \in 0 .. MaxCalls /\ edits \in 0 .. MaxEdits
      /\ level \in 0..6 /\ minted \in Nat /\ calls \in Nat /\ minted' \in Nat
  BY BoundsAssumption DEF DocInv, CountsInv
<1>2. /\ calls < MaxCalls /\ calls' = calls + 1 /\ pending' = pending \union {p}
      /\ Push(p) /\ UNCHANGED <<tree, edits>>
  BY DEF Propose
<1>3. BatcherInv' /\ level' \in 0..6
  BY <1>1, <1>2, PushStep DEF DocInv
<1>4. CountsInv'
  BY <1>1, <1>2, <1>3, BoundsAssumption DEF CountsInv
<1>5. TreeInv'
  <2>1. tree \in Seq(BlockType) /\ Distinct(tree) /\ \A i \in DOMAIN tree : tree[i].id <= minted
    BY DEF DocInv, TreeInv
  <2>2. \A i \in DOMAIN tree : tree[i].id \in Nat
    BY <2>1, BlockFacts
  <2> QED BY <1>1, <1>2, <2>1, <2>2 DEF TreeInv, Distinct
<1>6. ASSUME NEW q \in pending
      PROVE  /\ GoodProposal(q, minted', calls') /\ GoodProposal(q, minted, calls)
             /\ Brings(q) => q.new[1].id \notin IdsOf(tree) /\ q.new[1].id <= minted
                                                            /\ q.new[1].id \in Nat
  <2>1. GoodProposal(q, minted, calls) /\ (Brings(q) => q.new[1].id \notin IdsOf(tree))
    BY DEF DocInv, ProposalsInv
  <2>2. GoodProposal(q, minted', calls')
    BY <1>1, <1>2, <2>1, GoodProposalMore
  <2>3. Brings(q) => q.new[1] \in BlockType /\ q.new[1].id <= minted
    BY <2>1 DEF GoodProposal, Brings
  <2> QED BY <2>1, <2>2, <2>3, BlockFacts
<1>7. Brings(p) => p.new[1].id \in Nat /\ p.new[1].id \notin IdsOf(tree)
  <2>1. Brings(p) => p.new[1] \in BlockType
    BY DEF GoodProposal, Brings
  <2>2. \A i \in DOMAIN tree : tree[i].id <= minted /\ tree[i].id \in Nat
    BY BlockFacts DEF DocInv, TreeInv
  <2>3. Brings(p) => p.new[1].id \in Nat
    BY <2>1, BlockFacts
  <2> QED BY <1>1, <2>2, <2>3 DEF IdsOf
<1>8. \A q \in pending : Brings(p) /\ Brings(q) => p.new[1].id # q.new[1].id
  BY <1>1, <1>6, <1>7
<1>9. ProposalsInv'
  <2>1. \A q \in pending' : GoodProposal(q, minted', calls') /\ (Brings(q) => q.new[1].id \notin IdsOf(tree'))
    BY <1>2, <1>6, <1>7
  <2>2. \A q, r \in pending' : Brings(q) /\ Brings(r) /\ q # r => q.new[1].id # r.new[1].id
    BY <1>2, <1>8 DEF DocInv, ProposalsInv
  <2> QED BY <2>1, <2>2 DEF ProposalsInv
<1> QED BY <1>3, <1>4, <1>5, <1>9 DEF DocInv

\* Each call of the agent is such a proposal, or is refused.
LEMMA DispatchStep ==
  ASSUME DocInv, Dispatch
  PROVE  DocInv'
<1>1. /\ minted \in 0 .. MaxIds /\ calls \in Nat /\ minted \in Nat /\ MaxIds \in Nat
  BY BoundsAssumption DEF DocInv, CountsInv
<1>2. PICK id \in 1 .. minted, payload \in Answers :
         \/ \E after \in BOOLEAN : DispatchInsert(id, payload, after)
         \/ DispatchReplace(id, payload) \/ DispatchSuggest(id, payload)
         \/ DispatchAppend(id, <<payload>>)
         \/ DispatchDelete(id)
  BY DEF Dispatch
<1>3. payload \in PayloadType /\ id \in Nat
  BY PayloadIs, <1>1
<1> DEFINE kept == BlockOf(payload, id)
           new == BlockOf(payload, minted + 1)
<1>4. kept \in BlockType /\ kept.id = id
  BY <1>1, <1>3, BlockOfIs
<1>5. ASSUME minted + 1 <= MaxIds
      PROVE  new \in BlockType /\ new.id = minted + 1
  BY <1>1, <1>3, <1>5, BlockOfIs
<1> HIDE DEF kept, new
<1>6. ASSUME minted' = minted + 1, minted + 1 <= MaxIds, NEW kind \in {"insert", "append"},
             NEW after \in BOOLEAN, Propose(Proposal(kind, id, <<new>>, after))
      PROVE  DocInv'
  <2> DEFINE p == Proposal(kind, id, <<new>>, after)
  <2>1. minted' \in Nat /\ id \in 1 .. minted' /\ minted' \in 0 .. MaxIds /\ minted <= minted'
    BY <1>1, <1>6
  <2>2. new \in BlockType /\ new.id <= minted' /\ new.id > minted
    BY <1>1, <1>5, <1>6
  <2>3. /\ GoodProposal(p, minted', calls + 1) /\ p.number = calls + 1
        /\ p.new[1] = new /\ LevelOf(p) \in 0..6
    BY <1>1, <1>6, <2>1, <2>2, ProposalIs
  <2> HIDE DEF p
  <2> QED BY <1>6, <2>1, <2>2, <2>3, ProposeStep DEF p
<1>7. ASSUME minted' = minted, NEW kind \in {"replace", "suggest"},
             NEW after \in BOOLEAN, Propose(Proposal(kind, id, <<kept>>, after))
      PROVE  DocInv'
  <2> DEFINE p == Proposal(kind, id, <<kept>>, after)
  <2>1. minted' \in Nat /\ id \in 1 .. minted' /\ minted' \in 0 .. MaxIds /\ minted <= minted'
    BY <1>1, <1>7
  <2>2. /\ kept.id <= minted'
        /\ kind \in {"insert", "append", "replace", "suggest"}
    BY <1>1, <1>3, <1>4, <2>1
  <2>3. /\ GoodProposal(p, minted', calls + 1) /\ p.number = calls + 1
        /\ p.kind = kind /\ LevelOf(p) \in 0..6
    BY <1>1, <1>4, <1>7, <2>1, <2>2, ProposalIs
  <2>4. ~ Brings(p)
    BY <1>7, <2>3 DEF Brings
  <2> HIDE DEF p
  <2> QED BY <1>7, <2>1, <2>3, <2>4, ProposeStep DEF p
<1>8. CASE \E after \in BOOLEAN : DispatchInsert(id, payload, after)
  BY <1>6, <1>8 DEF DispatchInsert, Fresh, new
<1>9. CASE DispatchReplace(id, payload)
  BY <1>7, <1>9 DEF DispatchReplace, kept
<1>10. CASE DispatchSuggest(id, payload)
  BY <1>7, <1>10 DEF DispatchSuggest, kept
<1>11. CASE DispatchAppend(id, <<payload>>)
  <2> DEFINE s == <<payload>>
             r == [i \in DOMAIN s |-> BlockOf(s[i], minted + i)]
  <2>1. Len(s) = 1 /\ DOMAIN s = {1} /\ s[1] = payload
    OBVIOUS
  <2>2. minted' = minted + 1 /\ minted + 1 <= MaxIds /\ Propose(Proposal("append", id, r, FALSE))
    BY <1>11, <2>1 DEF DispatchAppend, Fresh
  <2>3. r = <<new>>
    BY <2>1 DEF new
  <2> HIDE DEF r
  <2> QED BY <1>6, <2>2, <2>3
<1>12. CASE DispatchDelete(id)
  <2> DEFINE p == Proposal("delete", id, <<>>, FALSE)
  <2>1. minted' = minted /\ Propose(p)
    BY <1>12 DEF DispatchDelete
  <2>2. /\ p \in [number : 1 .. calls + 1, kind : {"insert", "append", "replace", "suggest", "delete"},
                  block : 1 .. minted', new : Seq(BlockType), after : BOOLEAN]
        /\ p.number = calls + 1 /\ p.kind = "delete" /\ p.new = <<>>
    BY <1>1, <2>1 DEF Proposal
  <2> HIDE DEF p
  <2>3. GoodProposal(p, minted', calls + 1) /\ ~ Brings(p) /\ LevelOf(p) \in 0..6
    BY <2>2 DEF GoodProposal, Brings, LevelOf
  <2> QED BY <1>1, <2>1, <2>2, <2>3, ProposeStep
<1> QED BY <1>2, <1>8, <1>9, <1>10, <1>11, <1>12

-----------------------------------------------------------------------------
(* The other steps *)

\* A step that changes the document, and resolves proposals or none.
LEMMA TreeStep ==
  ASSUME DocInv, tree' \in Seq(BlockType), Distinct(tree'), minted' \in 0 .. MaxIds,
         minted <= minted', edits' \in 0 .. MaxEdits, pending' \subseteq pending,
         UNCHANGED <<calls, buffer, level, batches>>,
         \A id \in IdsOf(tree') : id <= minted',
         \A p \in pending' : Brings(p) => p.new[1].id \notin IdsOf(tree')
  PROVE  DocInv'
<1>1. /\ minted \in Nat /\ minted' \in Nat /\ calls \in Nat /\ calls' = calls
      /\ calls \in 0 .. MaxCalls /\ level \in 0..6
  BY BoundsAssumption DEF DocInv, CountsInv
<1>2. CountsInv'
  BY <1>1 DEF CountsInv
<1>3. TreeInv'
  BY DEF TreeInv, Distinct, IdsOf
<1>4. ProposalsInv'
  <2>1. \A p \in pending' : GoodProposal(p, minted', calls')
    BY <1>1, GoodProposalMore DEF DocInv, ProposalsInv
  <2>2. \A p, q \in pending' : Brings(p) /\ Brings(q) /\ p # q => p.new[1].id # q.new[1].id
    BY DEF DocInv, ProposalsInv
  <2> QED BY <2>1, <2>2 DEF ProposalsInv
<1>5. BatcherInv'
  BY DEF DocInv, BatcherInv, BatchesInOrder
<1> QED BY <1>2, <1>3, <1>4, <1>5 DEF DocInv

\* flush_on_timeout closes the buffer.
LEMMA TimeoutStep ==
  ASSUME DocInv, Timeout
  PROVE  DocInv'
<1>1. /\ batches' = Append(batches, buffer) /\ buffer' = <<>> /\ level' = 0
      /\ UNCHANGED <<tree, minted, pending, calls, edits>>
  BY DEF Timeout
<1>2. /\ batches \in Seq(Seq(EntryType)) /\ buffer \in Seq(EntryType) /\ BatchesInOrder
      /\ calls \in Nat /\ Threshold \in Nat /\ Threshold > 0
  BY BoundsAssumption DEF DocInv, BatcherInv, CountsInv
<1>3. /\ Deals(Append(NumbersOf(batches), Numbers(buffer)), 1 .. calls)
      /\ \A a \in DOMAIN batches : OfOneLevel(batches[a])
      /\ OfOneLevel(buffer)
  BY <1>2, BatchesInOrderIs
<1>4. 1 .. calls \in SUBSET Nat
  BY <1>2
<1>5. /\ batches' \in Seq(Seq(EntryType))
      /\ Deals(Append(NumbersOf(batches'), <<>>), 1 .. calls)
  BY <1>1, <1>2, <1>3, <1>4, HandedOut
<1>6. /\ buffer' \in Seq(EntryType) /\ DOMAIN buffer' = {} /\ Len(buffer') = 0
      /\ Numbers(buffer') = <<>>
  BY <1>1 DEF Numbers
<1>7. \A a \in DOMAIN batches' : OfOneLevel(batches'[a])
  BY <1>1, <1>2, <1>3, BatchesAre
<1>8. OfOneLevel(buffer')
  BY <1>2, <1>6 DEF OfOneLevel
<1>9. BatchesInOrder'
  <2>1. \A a \in DOMAIN Append(batches', buffer') : OfOneLevel(Append(batches', buffer')[a])
    BY <1>5, <1>6, <1>7, <1>8, BatchesAre
  <2>2. NumbersOf(Append(batches', buffer')) = Append(NumbersOf(batches'), Numbers(buffer'))
    BY <1>5, <1>6, ListsMore
  <2> QED BY <1>1, <1>5, <1>6, <2>1, <2>2 DEF BatchesInOrder, OfOneLevel
<1>10. BatcherInv'
  BY <1>1, <1>2, <1>5, <1>6, <1>9 DEF BatcherInv
<1>11. CountsInv' /\ TreeInv' /\ ProposalsInv'
  BY <1>1 DEF DocInv, CountsInv, TreeInv, Distinct, ProposalsInv
<1> QED BY <1>10, <1>11 DEF DocInv

\* The invariant, as the steps need it.
LEMMA InvFacts ==
  ASSUME DocInv
  PROVE  /\ tree \in Seq(BlockType) /\ Distinct(tree)
         /\ minted \in 0 .. MaxIds /\ minted \in Nat /\ MaxIds \in Nat
         /\ edits \in 0 .. MaxEdits /\ MaxEdits \in Nat
         /\ \A id \in IdsOf(tree) : id <= minted /\ id \in Nat
         /\ \A p \in pending :
              /\ GoodProposal(p, minted, calls)
              /\ Brings(p) => p.new[1].id \notin IdsOf(tree) /\ p.new[1].id <= minted
                                                            /\ p.new[1].id \in Nat
<1>1. /\ tree \in Seq(BlockType) /\ Distinct(tree) /\ \A i \in DOMAIN tree : tree[i].id <= minted
  BY DEF DocInv, TreeInv
<1>2. \A id \in IdsOf(tree) : id <= minted /\ id \in Nat
  <2>1. \A i \in DOMAIN tree : tree[i].id \in Nat
    BY <1>1, BlockFacts
  <2> QED BY <1>1, <2>1 DEF IdsOf
<1>3. /\ minted \in 0 .. MaxIds /\ minted \in Nat /\ MaxIds \in Nat
      /\ edits \in 0 .. MaxEdits /\ MaxEdits \in Nat
  BY BoundsAssumption DEF DocInv, CountsInv
<1>4. ASSUME NEW p \in pending
      PROVE  /\ GoodProposal(p, minted, calls)
             /\ Brings(p) => p.new[1].id \notin IdsOf(tree) /\ p.new[1].id <= minted
                                                            /\ p.new[1].id \in Nat
  <2>1. GoodProposal(p, minted, calls) /\ (Brings(p) => p.new[1].id \notin IdsOf(tree))
    BY DEF DocInv, ProposalsInv
  <2>2. Brings(p) => p.new[1] \in BlockType /\ p.new[1].id <= minted
    BY <2>1 DEF GoodProposal, Brings
  <2> QED BY <2>1, <2>2, BlockFacts
<1> QED BY <1>1, <1>2, <1>3, <1>4

\* An accepted proposal uses up its id.
LEMMA AcceptStep ==
  ASSUME DocInv, NEW p, Accept(p)
  PROVE  DocInv'
<1>1. /\ p \in pending /\ pending' = pending \ {p}
      /\ UNCHANGED <<minted, calls, edits, buffer, level, batches>>
  BY DEF Accept, batcher
<1>2. GoodProposal(p, minted, calls) /\ (Brings(p) => p.new[1].id \notin IdsOf(tree))
  BY <1>1, InvFacts
<1>3. CASE Found(tree, p.block)
  <2> DEFINE r == Applied(tree, p)
  <2>1. tree' = r
    BY <1>3 DEF Accept
  <2>2. r \in Seq(BlockType)
    BY <1>2, <1>3, AppliedIs, InvFacts
  <2>3. /\ Distinct(r)
        /\ IdsOf(r) \subseteq IF Brings(p) THEN IdsOf(tree) \union {p.new[1].id} ELSE IdsOf(tree)
    BY <1>2, <1>3, AppliedIds, InvFacts
  <2> HIDE DEF r
  <2>4. \A id \in IdsOf(r) : id <= minted
    BY <1>1, <2>3, InvFacts
  <2>5. \A q \in pending' : Brings(q) => q.new[1].id \notin IdsOf(r)
    <3>1. \A q \in pending' : Brings(q) /\ Brings(p) => q.new[1].id # p.new[1].id
      BY <1>1 DEF DocInv, ProposalsInv
    <3> QED BY <1>1, <2>3, <3>1, InvFacts
  <2> QED BY <1>1, <2>1, <2>2, <2>3, <2>4, <2>5, InvFacts, TreeStep
<1>4. CASE ~ Found(tree, p.block)
  <2>1. tree' = tree
    BY <1>4 DEF Accept
  <2> QED BY <1>1, <2>1, InvFacts, TreeStep
<1> QED BY <1>3, <1>4

LEMMA RejectStep ==
  ASSUME DocInv, NEW p, Reject(p)
  PROVE  DocInv'
<1>1. /\ pending' \subseteq pending
      /\ UNCHANGED <<tree, minted, calls, edits, buffer, level, batches>>
  BY DEF Reject, batcher
<1> QED BY <1>1, InvFacts, TreeStep

\* The author rewrites a block or splits one off.
LEMMA WriteStep ==
  ASSUME DocInv, NEW payload \in Payloads, Write(payload)
  PROVE  DocInv'
<1>1. /\ edits < MaxEdits /\ edits' = edits + 1
      /\ UNCHANGED <<pending, calls, buffer, level, batches>>
  BY DEF Write, Edit, batcher
<1>2. edits' \in 0 .. MaxEdits /\ payload \in PayloadType
  BY <1>1, InvFacts, PayloadIs
<1>3. tree \in Seq(BlockType) /\ Distinct(tree)
  BY InvFacts
<1>4. CASE /\ \E i \in DOMAIN tree : tree' = [tree EXCEPT ![i] = BlockOf(payload, tree[i].id)]
           /\ UNCHANGED minted
  <2>1. PICK i \in DOMAIN tree : tree' = [tree EXCEPT ![i] = BlockOf(payload, tree[i].id)]
    BY <1>4
  <2> DEFINE x == BlockOf(payload, tree[i].id)
  <2>2. x \in BlockType /\ x.id = tree[i].id
    <3>1. tree[i].id \in 1 .. MaxIds
      BY <1>3, BlockFacts
    <3> QED BY <1>2, <3>1, BlockOfIs
  <2> HIDE DEF x
  <2>3. tree' \in Seq(BlockType) /\ ReplacedAt(tree, tree', i, x)
    <3>1. tree' = [tree EXCEPT ![i] = x]
      BY <2>1 DEF x
    <3> QED BY <1>3, <2>2, <3>1 DEF ReplacedAt
  <2>4. Distinct(tree') /\ IdsOf(tree') = IdsOf(tree)
    BY <1>3, <2>2, <2>3, ReplacedIds
  <2>5. minted' = minted
    BY <1>4
  <2>6. /\ minted' \in 0 .. MaxIds /\ minted <= minted' /\ pending' \subseteq pending
        /\ \A id \in IdsOf(tree') : id <= minted'
        /\ \A p \in pending' : Brings(p) => p.new[1].id \notin IdsOf(tree')
    BY <1>1, <2>4, <2>5, InvFacts
  <2> QED BY <1>1, <1>2, <2>3, <2>4, <2>6, TreeStep
<1>5. CASE /\ Fresh(1)
           /\ \E i \in 1 .. Len(tree) + 1 :
                tree' = InsertSeqAt(tree, i, <<BlockOf(payload, minted + 1)>>)
  <2> DEFINE x == BlockOf(payload, minted + 1)
  <2>1. PICK i \in 1 .. Len(tree) + 1 : tree' = InsertSeqAt(tree, i, <<x>>)
    BY <1>5
  <2>2. /\ minted' = minted + 1 /\ minted' \in 0 .. MaxIds /\ minted <= minted'
        /\ minted + 1 \in 1 .. MaxIds /\ minted \in Nat
    BY <1>5, InvFacts DEF Fresh
  <2>3. x \in BlockType /\ x.id = minted + 1
    BY <1>2, <2>2, BlockOfIs
  <2> HIDE DEF x
  <2>4. tree' \in Seq(BlockType) /\ InsertedAt(tree, tree', i, x)
    <3> DEFINE r == InsertSeqAt(tree, i, <<x>>)
    <3>1. /\ r \in Seq(BlockType) /\ DOMAIN r = 1 .. Len(tree) + 1
          /\ \A m \in 1 .. Len(tree) + 1 :
               r[m] = IF m < i THEN tree[m] ELSE IF m = i THEN x ELSE tree[m - 1]
      BY <1>3, <2>1, <2>3, InsertIs
    <3>2. tree' = r
      BY <2>1
    <3> HIDE DEF r
    <3> QED BY <2>1, <3>1, <3>2 DEF InsertedAt
  <2>5. x.id \notin IdsOf(tree)
    BY <2>2, <2>3, InvFacts
  <2>6. Distinct(tree') /\ IdsOf(tree') = IdsOf(tree) \union {x.id}
    BY <1>3, <2>3, <2>4, <2>5, InsertedIds
  <2>7. \A id \in IdsOf(tree') : id <= minted'
    BY <2>2, <2>3, <2>6, InvFacts
  <2>8. \A p \in pending' : Brings(p) => p.new[1].id \notin IdsOf(tree')
    BY <1>1, <2>2, <2>3, <2>6, InvFacts
  <2> QED BY <1>1, <1>2, <2>2, <2>4, <2>6, <2>7, <2>8, TreeStep
<1> QED BY <1>4, <1>5 DEF Write

\* The author removes a block.
LEMMA EraseStep ==
  ASSUME DocInv, NEW i \in DOMAIN tree, Erase(i)
  PROVE  DocInv'
<1>1. /\ edits < MaxEdits /\ edits' = edits + 1 /\ tree' = RemoveAt(tree, i)
      /\ UNCHANGED <<minted, pending, calls, buffer, level, batches>>
  BY DEF Erase, Edit, batcher
<1>2. edits' \in 0 .. MaxEdits /\ tree \in Seq(BlockType) /\ Distinct(tree)
  BY <1>1, InvFacts
<1>3. tree' \in Seq(BlockType) /\ RemovedAt(tree, tree', i)
  BY <1>1, <1>2, RemoveIs DEF RemovedAt
<1>4. Distinct(tree') /\ IdsOf(tree') \subseteq IdsOf(tree)
  BY <1>2, <1>3, RemovedIds
<1> QED BY <1>1, <1>2, <1>3, <1>4, InvFacts, TreeStep

\* A step that changes nothing.
LEMMA StutterStep ==
  ASSUME DocInv, UNCHANGED vars
  PROVE  DocInv'
BY DEF vars, DocInv, CountsInv, TreeInv, Distinct, ProposalsInv, BatcherInv, BatchesInOrder

-----------------------------------------------------------------------------
(* The theorems *)

\* The invariant holds throughout.
LEMMA DocumentsAlways == Spec => []DocInv
<1>1. Init => DocInv
  BY InitInv
<1>2. DocInv /\ [Next]_vars => DocInv'
  <2> SUFFICES ASSUME DocInv, [Next]_vars PROVE DocInv'
    OBVIOUS
  <2>1. CASE Dispatch
    BY <2>1, DispatchStep
  <2>2. CASE Timeout
    BY <2>2, TimeoutStep
  <2>3. CASE \E p \in pending : Accept(p) \/ Reject(p)
    BY <2>3, AcceptStep, RejectStep
  <2>4. CASE \E payload \in Payloads : Write(payload)
    BY <2>4, WriteStep
  <2>5. CASE \E i \in DOMAIN tree : Erase(i)
    BY <2>5, EraseStep
  <2>6. CASE UNCHANGED vars
    BY <2>6, StutterStep
  <2> QED BY <2>1, <2>2, <2>3, <2>4, <2>5, <2>6 DEF Next
<1> QED BY <1>1, <1>2, PTL DEF Spec

\* However calls, acceptances and typing are interleaved, the document holds
\* blocks of the types of the code, no two of them with the same id.
THEOREM DocumentsTypeCorrect == Spec => []TypeOK
BY DocumentsAlways, InvTypeOK, PTL

\* Every proposal is in one batch or in the buffer, in the order of the calls,
\* and no batch is longer than the threshold or spans two heading levels.
THEOREM BatchesKeepOrder == Spec => []BatchesInOrder
<1>1. DocInv => BatchesInOrder
  BY DEF DocInv, BatcherInv
<1> QED BY <1>1, DocumentsAlways, PTL

\* Whatever the document has become, with its id comments or without, its chunks
\* hold every block once and in order, under the headings the block is under,
\* and a chunk is too long only when it is a single block.
THEOREM ChunkerIsRight == Spec => []ChunksCoverDocument
BY DocumentsAlways, InvChunks, PTL

\* When readiness has nothing to report and no block is blank, every heading is
\* in the path of a chunk and no path leaves out a level.
THEOREM ReadyMeansFindable == Spec => []ReadySectionsAreFound
BY DocumentsAlways, InvReady, PTL

\* A proposal that is resolved while the document changes has been accepted.
LEMMA OnlyAccept ==
  ASSUME [Next]_vars, NEW p \in pending, p \notin pending', tree' # tree
  PROVE  Found(tree, p.block) /\ tree' = Applied(tree, p)
<1>1. ~ Dispatch
  BY DEF Dispatch, DispatchInsert, DispatchReplace, DispatchSuggest, DispatchAppend,
         DispatchDelete, Propose
<1>2. ~ Timeout /\ ~ (UNCHANGED vars)
  BY DEF Timeout, vars
<1>3. /\ \A payload \in Payloads : ~ Write(payload)
      /\ \A i \in DOMAIN tree : ~ Erase(i)
  BY DEF Write, Erase
<1>4. PICK q \in pending : Accept(q) \/ Reject(q)
  BY <1>1, <1>2, <1>3 DEF Next
<1>5. pending' = pending \ {q} /\ ~ Reject(q)
  BY <1>4 DEF Accept, Reject
<1>6. q = p
  BY <1>5
<1> QED BY <1>4, <1>5, <1>6 DEF Accept

\* An accepted proposal leaves every block it does not name, and their order, as
\* the author last left them.
THEOREM OneBlockOnly == Spec => OneBlockAtATime
<1>1. DocInv /\ [Next]_vars =>
        [\A p \in pending :
           p \notin pending' /\ tree' # tree => RestOf(tree', p) = RestOf(tree, p)]_vars
  <2> SUFFICES ASSUME DocInv, [Next]_vars, NEW p \in pending, p \notin pending', tree' # tree
               PROVE  RestOf(tree', p) = RestOf(tree, p)
    OBVIOUS
  <2>1. Found(tree, p.block) /\ tree' = Applied(tree, p)
    BY OnlyAccept
  <2> QED BY <2>1, AppliedRest, InvFacts
<1> QED BY <1>1, DocumentsAlways, PTL DEF Spec, OneBlockAtATime

\* A block that is appended to a section comes under that section's heading, and
\* after all that was under it, whatever has happened since the call.
THEOREM AppendsLandInSection == Spec => AppendsToItsSection
<1>1. DocInv /\ [Next]_vars =>
        [\A p \in pending :
           /\ p.kind = "append" /\ p \notin pending' /\ tree' # tree
           /\ IsHeading(Get(tree, p.block)) /\ ~ IsHeading(p.new[1])
           => LET at == PlaceOf(tree', p.new[1].id)
              IN  /\ IsUnder(tree', at, p.block)
                  /\ \A k \in at + 1 .. Len(tree') :
                       ~ IsHeading(tree'[k]) => ~ IsUnder(tree', k, p.block)]_vars
  <2> SUFFICES ASSUME DocInv, [Next]_vars, NEW p \in pending, p.kind = "append",
                      p \notin pending', tree' # tree, IsHeading(Get(tree, p.block))
               PROVE  LET at == PlaceOf(tree', p.new[1].id)
                      IN  /\ IsUnder(tree', at, p.block)
                          /\ \A k \in at + 1 .. Len(tree') :
                               ~ IsHeading(tree'[k]) => ~ IsUnder(tree', k, p.block)
    OBVIOUS
  <2>1. Found(tree, p.block) /\ tree' = Applied(tree, p)
    BY OnlyAccept
  <2>2. Brings(p)
    BY DEF Brings
  <2> QED BY <2>1, <2>2, AppliedUnder, InvFacts
<1> QED BY <1>1, DocumentsAlways, PTL DEF Spec, AppendsToItsSection

=============================================================================
