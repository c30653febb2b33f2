------------------------ MODULE VersionHistory_proofs ------------------------
(* What VersionHistory guarantees for any number of writers, and what more it *)
(* guarantees when only one of them writes at a time.                         *)
EXTENDS VersionHistory, SequenceTheorems, TLAPS

-----------------------------------------------------------------------------
(* Numbering *)

\* MAX(version_number) + 1 over rows numbered without gaps is one past them.
LEMMA NextIsPastTheEnd ==
  ASSUME rows \in Seq(Entry)
  PROVE  NextNumbers = {Len(rows) + 1}
<1>1. DOMAIN rows = 1..Len(rows) /\ Len(rows) \in Nat
  OBVIOUS
<1>2. Len(rows) + 1 \in NextNumbers
  <2>1. CASE Len(rows) = 0
    BY <1>1, <2>1 DEF NextNumbers
  <2>2. CASE Len(rows) # 0
    <3>1. Len(rows) \in DOMAIN rows
      BY <1>1, <2>2
    <3> QED BY <1>1, <3>1 DEF NextNumbers
  <2> QED BY <2>1, <2>2
<1>3. ASSUME NEW n \in NextNumbers PROVE n = Len(rows) + 1
  <2>1. n \in Nat \ {0}
    BY <1>1 DEF NextNumbers
  <2>2. n <= Len(rows) + 1
    BY <1>1 DEF NextNumbers
  <2>3. \A k \in 1..Len(rows) : k < n
    BY <1>1 DEF NextNumbers
  <2> QED BY <1>1, <2>1, <2>2, <2>3
<1> QED BY <1>2, <1>3

\* An INSERT that the unique constraint lets through adds the last entry.
LEMMA InsertAppends ==
  ASSUME TypeOK, NEW w \in Writers, Insert(w)
  PROVE  /\ [at |-> writer[w].at, kind |-> writer[w].kind] \in Entry
         /\ writer[w].number = Len(rows) + 1
         /\ rows' = Append(rows, [at |-> writer[w].at, kind |-> writer[w].kind])
<1> DEFINE e == [at |-> writer[w].at, kind |-> writer[w].kind]
           n == Len(rows) + 1
<1>1. rows \in Seq(Entry) /\ DOMAIN rows = 1..Len(rows) /\ Len(rows) \in Nat
  BY DEF TypeOK
<1>2. writer[w] \in WriterState /\ now \in 0..MaxTime
  BY DEF TypeOK
<1>3. e \in Entry
  BY <1>2, TimeAssumption DEF WriterState, Entry
<1>4. writer[w].number = n
  BY <1>1 DEF TypeOK, Insert
<1>5. rows' = [k \in 1..n |-> IF k = n THEN e ELSE rows[k]]
  <2>1. rows' = [k \in DOMAIN rows \union {n} |-> IF k = n THEN e ELSE rows[k]]
    BY <1>4 DEF Insert
  <2>2. DOMAIN rows \union {n} = 1..n
    BY <1>1
  <2> QED BY <2>1, <2>2
<1>6. rows' = Append(rows, e)
  <2>1. /\ Append(rows, e) \in Seq(Entry)
        /\ Len(Append(rows, e)) = n
        /\ \A k \in 1..Len(rows) : Append(rows, e)[k] = rows[k]
        /\ Append(rows, e)[n] = e
    BY <1>1, <1>3, AppendProperties
  <2>2. Append(rows, e) = [k \in 1..n |-> Append(rows, e)[k]]
    BY <2>1
  <2>3. \A k \in 1..n : Append(rows, e)[k] = IF k = n THEN e ELSE rows[k]
    BY <1>1, <2>1
  <2> QED BY <1>5, <2>2, <2>3
<1> QED BY <1>3, <1>4, <1>6

-----------------------------------------------------------------------------
(* Any number of writers *)

LEMMA TypeInit == Init => TypeOK
<1> SUFFICES ASSUME Init PROVE TypeOK
  OBVIOUS
<1>1. overlap \in BOOLEAN
  BY DEF Init
<1>2. rows \in Seq(Entry) /\ DOMAIN rows = {}
  BY DEF Init
<1>3. writer \in [Writers -> WriterState]
  BY DEF Init, IdleWriter, WriterState, Kinds
<1>4. \A w \in Writers : writer[w].pc # "insert"
  BY DEF Init, IdleWriter
<1> QED BY <1>1, <1>2, <1>3, <1>4, TimeAssumption DEF Init, TypeOK

\* A step that only moves one writer preserves the type invariant if the
\* writer's new state is well formed.
LEMMA WriterMoves ==
  ASSUME TypeOK, NEW w \in Writers, NEW s \in WriterState,
         s.pc = "insert" => s.number \in 1..(Len(rows) + 1),
         writer' = [writer EXCEPT ![w] = s],
         UNCHANGED <<rows, now>>, calls' \in 0..MaxCalls, overlap' \in BOOLEAN
  PROVE  TypeOK'
<1>1. WriterState' = WriterState
  BY DEF WriterState
<1>2. writer' \in [Writers -> WriterState]
  BY DEF TypeOK
<1>3. \A x \in Writers : writer'[x] = IF x = w THEN s ELSE writer[x]
  BY DEF TypeOK
<1>4. \A x \in Writers : writer'[x].pc = "insert" =>
                          writer'[x].number \in 1..(Len(rows) + 1)
  BY <1>3 DEF TypeOK
<1> QED BY <1>1, <1>2, <1>4 DEF TypeOK

LEMMA IdleIsAState == TypeOK => IdleWriter \in WriterState
  BY DEF TypeOK, IdleWriter, WriterState, Kinds

LEMMA TypeStep == TypeOK /\ [Next]_vars => TypeOK'
<1> SUFFICES ASSUME TypeOK, [Next]_vars PROVE TypeOK'
  OBVIOUS
<1> USE TimeAssumption
<1>0. rows \in Seq(Entry) /\ Len(rows) \in Nat /\ now \in Nat
  BY DEF TypeOK
<1>1. ASSUME NEW w \in Writers, NEW k \in Kinds, Ask(w, k) PROVE TypeOK'
  <2> DEFINE s == [writer[w] EXCEPT !.kind = k,
                                    !.pc = IF k = "save" THEN "check" ELSE "send"]
  <2>1. writer[w] \in WriterState
    BY DEF TypeOK
  <2>2. s \in WriterState /\ s.pc # "insert"
    BY <2>1 DEF WriterState, Kinds
  <2>3. writer' = [writer EXCEPT ![w] = s]
    BY <1>1, <2>1 DEF Ask, TypeOK, WriterState
  <2>4. calls' \in 0..MaxCalls
    BY <1>1 DEF Ask, TypeOK
  <2> HIDE DEF s
  <2> QED BY <1>1, <2>2, <2>3, <2>4, WriterMoves DEF Ask
<1>2. ASSUME NEW w \in Writers, Check(w) PROVE TypeOK'
  <2> DEFINE s == IF Recent THEN IdleWriter ELSE [writer[w] EXCEPT !.pc = "send"]
  <2>1. writer[w] \in WriterState
    BY DEF TypeOK
  <2>2. s \in WriterState /\ s.pc # "insert"
    BY <2>1, IdleIsAState DEF WriterState, IdleWriter
  <2>3. writer' = [writer EXCEPT ![w] = s]
    BY <1>2 DEF Check, TypeOK
  <2> HIDE DEF s
  <2> QED BY <1>2, <2>2, <2>3, WriterMoves DEF Check, TypeOK
<1>3. ASSUME NEW w \in Writers, Arrive(w) PROVE TypeOK'
  <2> DEFINE s == [writer[w] EXCEPT !.pc = "number", !.at = now]
  <2>1. writer[w] \in WriterState
    BY DEF TypeOK
  <2>2. s \in WriterState /\ s.pc # "insert"
    <3>1. now \in 0..now
      BY <1>0
    <3> QED BY <2>1, <3>1 DEF WriterState
  <2>3. writer' = [writer EXCEPT ![w] = s]
    BY <1>3, <2>1 DEF Arrive, TypeOK, WriterState
  <2> HIDE DEF s
  <2> QED BY <1>3, <2>2, <2>3, WriterMoves DEF Arrive, TypeOK
<1>4. ASSUME NEW w \in Writers, Number(w) PROVE TypeOK'
  <2> DEFINE s == [writer[w] EXCEPT !.pc = "insert", !.number = Len(rows) + 1]
  <2>1. writer[w] \in WriterState
    BY DEF TypeOK
  <2>2. s \in WriterState /\ s.number \in 1..(Len(rows) + 1)
    <3>1. Len(rows) + 1 \in Nat /\ Len(rows) + 1 \in 1..(Len(rows) + 1)
      BY <1>0
    <3> QED BY <2>1, <3>1 DEF WriterState
  <2>3. writer' = [writer EXCEPT ![w] = s]
    BY <1>0, <1>4, <2>1, NextIsPastTheEnd DEF Number, TypeOK, WriterState
  <2> HIDE DEF s
  <2> QED BY <1>4, <2>2, <2>3, WriterMoves DEF Number, TypeOK
<1>5. ASSUME NEW w \in Writers, Insert(w) PROVE TypeOK'
  <2> DEFINE e == [at |-> writer[w].at, kind |-> writer[w].kind]
  <2>1. rows' = Append(rows, e) /\ e \in Entry
    BY <1>5, InsertAppends
  <2>2. /\ rows' \in Seq(Entry) /\ Len(rows') = Len(rows) + 1
        /\ \A n \in 1..Len(rows) : rows'[n] = rows[n]
        /\ rows'[Len(rows) + 1] = e
    BY <1>0, <2>1, AppendProperties
  <2>3. e.at \in 0..now
    BY DEF TypeOK, WriterState
  <2>4. \A n \in DOMAIN rows' : rows'[n].at <= now'
    BY <1>0, <1>5, <2>2, <2>3 DEF Insert, TypeOK
  <2>5. /\ writer' \in [Writers -> WriterState]
        /\ \A x \in Writers : writer'[x].pc = "insert" => x # w
        /\ \A x \in Writers : x # w => writer'[x] = writer[x]
    BY <1>5 DEF Insert, TypeOK, WriterState, Kinds, IdleWriter
  <2>6. WriterState' = WriterState
    BY <1>5 DEF Insert, WriterState
  <2>7. \A x \in Writers : writer'[x].pc = "insert" =>
                            writer'[x].number \in 1..(Len(rows') + 1)
    BY <1>0, <2>2, <2>5 DEF TypeOK
  <2> QED BY <1>5, <2>2, <2>4, <2>5, <2>6, <2>7 DEF Insert, TypeOK
<1>6. ASSUME NEW w \in Writers, GiveUp(w) PROVE TypeOK'
  BY <1>6, IdleIsAState, WriterMoves DEF GiveUp, TypeOK, IdleWriter
<1>7. ASSUME Tick PROVE TypeOK'
  <2>1. now' = now + 1 /\ now' \in 0..MaxTime
    BY <1>0, <1>7 DEF Tick
  <2>2. WriterState \subseteq WriterState'
    BY <1>0, <2>1 DEF WriterState
  <2>3. writer' \in [Writers -> WriterState']
    BY <1>7, <2>2 DEF Tick, TypeOK
  <2>4. \A n \in DOMAIN rows : rows[n].at <= now'
    <3>1. \A n \in DOMAIN rows : rows[n] \in Entry /\ rows[n].at <= now
      BY <1>0 DEF TypeOK
    <3> QED BY <1>0, <2>1, <3>1 DEF Entry
  <2> QED BY <1>7, <2>1, <2>3, <2>4 DEF Tick, TypeOK
<1>8. CASE UNCHANGED vars
  BY <1>8 DEF vars, TypeOK, WriterState
<1> QED BY <1>1, <1>2, <1>3, <1>4, <1>5, <1>6, <1>7, <1>8 DEF Next, Step

\* Rows are numbered 1, 2, 3, ..., dated no later than now, and a writer never
\* holds a number beyond the next one.
THEOREM HistoryTypeCorrect == Spec => []TypeOK
  BY TypeInit, TypeStep, PTL DEF Spec

\* The table is an append-only audit trail, whatever the writers do: every
\* step of VersionHistory appends one entry or leaves the entries alone.
THEOREM HistoryAppendsOnly == Spec => AppendsOnly
<1>1. Init => Trail!Init
  BY DEF Init, Trail!Init
<1>2. TypeOK /\ [Next]_vars => [Trail!Next]_rows
  <2> SUFFICES ASSUME TypeOK, [Next]_vars PROVE [Trail!Next]_rows
    OBVIOUS
  <2>1. ASSUME NEW w \in Writers, Insert(w) PROVE Trail!Next
    BY <2>1, InsertAppends DEF Trail!Next
  <2>2. ASSUME rows' = rows PROVE [Trail!Next]_rows
    BY <2>2
  <2> QED BY <2>1, <2>2 DEF Next, Step, Tick, Ask, Check, Arrive, Number, GiveUp, vars
<1> QED BY <1>1, <1>2, HistoryTypeCorrect, PTL DEF Spec, AppendsOnly, Trail!Spec

-----------------------------------------------------------------------------
(* While requests do not overlap *)

OneAtATime ==
  \A x, y \in Writers : writer[x].pc # "idle" /\ writer[y].pc # "idle" => x = y

\* What a lone writer knows: the rows are as it last saw them, so its number
\* is the next one, its date is no earlier than any row's and, if it saves,
\* the window has passed since the last row.
LoneWriter(w) ==
  /\ writer[w].pc = "insert" => writer[w].number = Len(rows) + 1
  /\ writer[w].pc \in {"number", "insert"} =>
       \A n \in DOMAIN rows : rows[n].at <= writer[w].at
  /\ writer[w].kind = "save" /\ writer[w].pc = "send" =>
       \A n \in DOMAIN rows : rows[n].at + Window <= now
  /\ writer[w].kind = "save" /\ writer[w].pc \in {"number", "insert"} =>
       \A n \in DOMAIN rows : rows[n].at + Window <= writer[w].at

Serial == /\ OneAtATime
          /\ Debounced
          /\ NewestIsLast
          /\ \A w \in Writers : LoneWriter(w)

\* A step of one writer, the others being idle, keeps Serial if it keeps the
\* rows well ordered and the writer's own knowledge true.
LEMMA OneMoves ==
  ASSUME NEW w \in Writers, NEW s,
         writer' = [writer EXCEPT ![w] = s],
         writer \in [Writers -> WriterState],
         \A x \in Writers : x # w => writer[x].pc = "idle",
         Debounced', NewestIsLast', LoneWriter(w)'
  PROVE  Serial'
<1>1. \A x \in Writers : x # w => writer'[x].pc = "idle"
  OBVIOUS
<1>2. OneAtATime'
  BY <1>1 DEF OneAtATime
<1>3. \A x \in Writers : LoneWriter(x)'
  BY <1>1 DEF LoneWriter
<1> QED BY <1>2, <1>3 DEF Serial

LEMMA SerialStep ==
  ASSUME TypeOK, Serial, ~ overlap, [Next]_vars, ~ overlap'
  PROVE  Serial'
<1> USE WindowAssumption, TimeAssumption
<1>0. /\ rows \in Seq(Entry) /\ Len(rows) \in Nat /\ now \in Nat
      /\ DOMAIN rows = 1..Len(rows)
      /\ \A n \in DOMAIN rows : rows[n].at \in Nat /\ rows[n].at <= now
      /\ writer \in [Writers -> WriterState]
      /\ \A w \in Writers : writer[w] \in WriterState
                             /\ writer[w].at \in Nat /\ writer[w].at <= now
  <2>1. rows \in Seq(Entry) /\ now \in Nat
    BY DEF TypeOK
  <2>2. \A n \in DOMAIN rows : rows[n] \in Entry /\ rows[n].at <= now
    BY <2>1 DEF TypeOK
  <2>3. writer \in [Writers -> WriterState]
    BY DEF TypeOK
  <2> QED BY <2>1, <2>2, <2>3 DEF Entry, WriterState
<1>a. ASSUME NEW w \in Writers, writer[w].pc # "idle"
      PROVE  \A x \in Writers : x # w => writer[x].pc = "idle"
  BY <1>a DEF Serial, OneAtATime
<1>b. ASSUME UNCHANGED rows PROVE Debounced' /\ NewestIsLast'
  BY <1>b DEF Serial, Debounced, NewestIsLast
<1>1. ASSUME NEW w \in Writers, NEW k \in Kinds, Ask(w, k) PROVE Serial'
  <2> DEFINE s == [writer[w] EXCEPT !.kind = k,
                                    !.pc = IF k = "save" THEN "check" ELSE "send"]
  <2>1. writer' = [writer EXCEPT ![w] = s]
    BY <1>0, <1>1 DEF Ask
  <2>2. \A x \in Writers : writer[x].pc = "idle"
    BY <1>1 DEF Ask
  <2>3. LoneWriter(w)'
    BY <1>0, <1>1, <2>1 DEF Ask, LoneWriter, WriterState
  <2> HIDE DEF s
  <2> QED BY <1>0, <1>1, <1>b, <2>1, <2>2, <2>3, OneMoves DEF Ask
<1>2. ASSUME NEW w \in Writers, Check(w) PROVE Serial'
  <2> DEFINE s == IF Recent THEN IdleWriter ELSE [writer[w] EXCEPT !.pc = "send"]
  <2>1. writer' = [writer EXCEPT ![w] = s]
    BY <1>2 DEF Check
  <2>2. LoneWriter(w)'
    BY <1>0, <1>2, <2>1 DEF Check, Recent, LoneWriter, WriterState, IdleWriter
  <2> HIDE DEF s
  <2> QED BY <1>0, <1>2, <1>a, <1>b, <2>1, <2>2, OneMoves DEF Check
<1>3. ASSUME NEW w \in Writers, Arrive(w) PROVE Serial'
  <2> DEFINE s == [writer[w] EXCEPT !.pc = "number", !.at = now]
  <2>1. writer' = [writer EXCEPT ![w] = s]
    BY <1>0, <1>3 DEF Arrive
  <2>2. LoneWriter(w)'
    BY <1>0, <1>3, <2>1 DEF Arrive, Serial, LoneWriter, WriterState
  <2> HIDE DEF s
  <2> QED BY <1>0, <1>3, <1>a, <1>b, <2>1, <2>2, OneMoves DEF Arrive
<1>4. ASSUME NEW w \in Writers, Number(w) PROVE Serial'
  <2> DEFINE s == [writer[w] EXCEPT !.pc = "insert", !.number = Len(rows) + 1]
  <2>1. writer' = [writer EXCEPT ![w] = s]
    BY <1>0, <1>4, NextIsPastTheEnd DEF Number
  <2>2. LoneWriter(w)'
    BY <1>0, <1>4, <2>1 DEF Number, Serial, LoneWriter, WriterState
  <2> HIDE DEF s
  <2> QED BY <1>0, <1>4, <1>a, <1>b, <2>1, <2>2, OneMoves DEF Number
<1>5. ASSUME NEW w \in Writers, Insert(w) PROVE Serial'
  <2> DEFINE e == [at |-> writer[w].at, kind |-> writer[w].kind]
  <2>1. rows' = Append(rows, e) /\ e \in Entry
    BY <1>5, InsertAppends
  <2>2. /\ Len(rows') = Len(rows) + 1
        /\ DOMAIN rows' = 1..(Len(rows) + 1)
        /\ \A n \in 1..Len(rows) : rows'[n] = rows[n]
        /\ rows'[Len(rows) + 1] = e
    BY <1>0, <2>1, AppendProperties
  <2>3. \A n \in 1..Len(rows) : rows[n].at <= e.at
    BY <1>0, <1>5 DEF Insert, Serial, LoneWriter
  <2>4. e.kind = "save" => \A n \in 1..Len(rows) : rows[n].at + Window <= e.at
    BY <1>0, <1>5 DEF Insert, Serial, LoneWriter
  <2>5. Debounced'
    <3>1. ASSUME NEW m \in DOMAIN rows', NEW n \in DOMAIN rows', m < n,
                 rows'[n].kind = "save"
          PROVE  rows'[m].at + Window <= rows'[n].at
      <4>1. m \in 1..Len(rows) /\ (n \in 1..Len(rows) \/ n = Len(rows) + 1)
        BY <1>0, <2>2, <3>1
      <4>2. CASE n \in 1..Len(rows)
        <5>1. DOMAIN rows = 1..Len(rows)
          BY <1>0
        <5> QED  BY <2>2, <3>1, <4>1, <4>2, <5>1 DEF Serial, Debounced
      <4>3. CASE n = Len(rows) + 1
        BY <2>2, <2>4, <3>1, <4>1, <4>3
      <4> QED  BY <4>1, <4>2, <4>3
    <3> QED  BY <3>1 DEF Debounced
  <2>6. NewestIsLast'
    BY <1>0, <2>2, <2>3 DEF Serial, NewestIsLast
  <2>7. writer' = [writer EXCEPT ![w] = IdleWriter] /\ writer[w].pc # "idle"
    BY <1>5 DEF Insert
  <2>8. LoneWriter(w)'
    BY <1>0, <2>7 DEF LoneWriter, IdleWriter
  <2> QED BY <1>0, <1>a, <2>5, <2>6, <2>7, <2>8, OneMoves
<1>6. ASSUME NEW w \in Writers, GiveUp(w) PROVE Serial'
  <2>1. writer' = [writer EXCEPT ![w] = IdleWriter] /\ writer[w].pc # "idle"
    BY <1>6 DEF GiveUp
  <2>2. LoneWriter(w)'
    BY <1>0, <2>1 DEF LoneWriter, IdleWriter
  <2> QED BY <1>0, <1>6, <1>a, <1>b, <2>1, <2>2, OneMoves DEF GiveUp
<1>7. ASSUME Tick PROVE Serial'
  <2>1. now' = now + 1 /\ UNCHANGED <<rows, writer>>
    BY <1>7 DEF Tick
  <2>2. \A w \in Writers : LoneWriter(w)'
    BY <1>0, <2>1 DEF Serial, LoneWriter
  <2>3. OneAtATime'
    BY <2>1 DEF Serial, OneAtATime
  <2> QED BY <1>b, <2>1, <2>2, <2>3 DEF Serial
<1>8. CASE UNCHANGED vars
  BY <1>8 DEF vars, Serial, OneAtATime, Debounced, NewestIsLast, LoneWriter
<1> QED BY <1>1, <1>2, <1>3, <1>4, <1>5, <1>6, <1>7, <1>8 DEF Next, Step

LEMMA SerialAlways == Spec => [](SerialKeepsAll /\ SerialDebounced /\ SerialInOrder)
<1> DEFINE Inv == ~ overlap => Serial
<1>1. Init => Inv
  BY DEF Init, Serial, OneAtATime, LoneWriter, Debounced, NewestIsLast, IdleWriter
<1>2. TypeOK /\ Inv /\ [Next]_vars => Inv'
  <2>1. [Next]_vars /\ ~ overlap' => ~ overlap
    BY DEF Next, Step, Tick, Ask, Check, Arrive, Number, Insert, GiveUp, vars
  <2> QED BY <2>1, SerialStep
<1>3. TypeOK /\ Inv => SerialKeepsAll /\ SerialDebounced /\ SerialInOrder
  <2> SUFFICES ASSUME TypeOK, Serial PROVE NumberIsFree /\ Debounced /\ NewestIsLast
    BY DEF SerialKeepsAll, SerialDebounced, SerialInOrder
  <2>1. DOMAIN rows = 1..Len(rows) /\ Len(rows) \in Nat
    BY DEF TypeOK
  <2> QED BY <2>1 DEF Serial, LoneWriter, NumberIsFree
<1> QED BY <1>1, <1>2, <1>3, HistoryTypeCorrect, PTL DEF Spec

\* Until requests for a page overlap for the first time, the number a writer
\* has read is free when it inserts: no snapshot is lost to the unique constraint.
THEOREM SerialHistoryIsComplete == Spec => []SerialKeepsAll
BY SerialAlways, PTL

\* Until then two snapshots of saves are at least the window apart.
THEOREM SerialHistoryIsDebounced == Spec => []SerialDebounced
BY SerialAlways, PTL

\* Until then the dates follow the numbers: the list, newest first by created_at,
\* is in the order in which the snapshots were numbered.
THEOREM SerialHistoryIsOrdered == Spec => []SerialInOrder
BY SerialAlways, PTL

=============================================================================
