--------------------------- MODULE VersionHistory ---------------------------
(***************************************************************************)
(* The snapshots of one (page, language), written by requests that do not  *)
(* wait for each other.                                                    *)
(*                                                                         *)
(* A save asks first whether a snapshot is recent and skips its own if so; *)
(* a publish and a restore do not ask.  The INSERT then numbers its row    *)
(* MAX(version_number) + 1 as its own snapshot of the database shows it:   *)
(* under READ COMMITTED a statement does not see rows that others have not *)
(* committed when it starts.  created_at is the clock when the statement   *)
(* arrives, a moment earlier still.  The unique constraint on the number   *)
(* decides at the end; the error is logged (or dropped, in restore) and    *)
(* the request goes on without its snapshot.                               *)
(*                                                                         *)
(* The table is a function from version_number to the rest of the row.     *)
(***************************************************************************)
EXTENDS Integers, Sequences

CONSTANTS
  Writers,    \* requests that may be saving, publishing or restoring
  Window,     \* SNAPSHOT_DEBOUNCE_SECONDS
  MaxTime,    \* bound: the clock
  MaxCalls    \* bound: snapshots asked for

ASSUME WindowAssumption == Window \in Nat
ASSUME TimeAssumption   == MaxTime \in Nat /\ MaxCalls \in Nat

VARIABLES
  rows,     \* version_number -> [at, kind]
  writer,   \* where each request is
  now,      \* the database's clock
  calls,    \* snapshots asked for so far (bounded)
  overlap   \* history variable: two requests have been under way at once

vars == <<rows, writer, now, calls, overlap>>

Kinds == {"save", "restore", "publish"}
Entry == [at : 0..MaxTime, kind : Kinds]

IdleWriter == [pc |-> "idle", kind |-> "save", at |-> 0, number |-> 0]

-----------------------------------------------------------------------------

\* Faulty variant of Recent: only the snapshots of saves count.
RecentSave == \E n \in DOMAIN rows :
                rows[n].kind = "save" /\ rows[n].at > now - Window

\* has_recent_snapshot: created_at > now() - Window
Recent == \E n \in DOMAIN rows : rows[n].at > now - Window

\* Faulty variant of NextNumbers: the highest number instead of the next.
HighestNumbers == {n \in {1} \union DOMAIN rows : \A k \in DOMAIN rows : k <= n}

\* COALESCE(MAX(version_number), 0) + 1, over the rows committed by now
NextNumbers == {n \in {1} \union {k + 1 : k \in DOMAIN rows} :
                  \A k \in DOMAIN rows : k < n}

Ask(w, k) ==
  /\ writer[w].pc = "idle"
  /\ calls < MaxCalls /\ calls' = calls + 1
  /\ overlap' = (overlap \/ \E x \in Writers : writer[x].pc # "idle")
  /\ writer' = [writer EXCEPT ![w].kind = k,
                              ![w].pc = IF k = "save" THEN "check" ELSE "send"]
  /\ UNCHANGED <<rows, now>>

Check(w) ==
  /\ writer[w].pc = "check"
  /\ writer' = [writer EXCEPT ![w] =
                  IF Recent THEN IdleWriter ELSE [@ EXCEPT !.pc = "send"]]
  /\ UNCHANGED <<rows, now, calls, overlap>>

\* Faulty variant of Arrive: only the row of a save is dated.
ArriveUndated(w) ==
  /\ writer[w].pc = "send"
  /\ writer' = [writer EXCEPT ![w].pc = "number",
                              ![w].at = IF writer[w].kind = "save" THEN now ELSE 0]
  /\ UNCHANGED <<rows, now, calls, overlap>>

\* The INSERT arrives at the database, which fixes its now().
Arrive(w) ==
  /\ writer[w].pc = "send"
  /\ writer' = [writer EXCEPT ![w].pc = "number", ![w].at = now]
  /\ UNCHANGED <<rows, now, calls, overlap>>

\* Faulty variant of Number: the number comes from a counter of all calls.
NumberFromCounter(w) ==
  /\ writer[w].pc = "number"
  /\ writer' = [writer EXCEPT ![w].pc = "insert", ![w].number = calls]
  /\ UNCHANGED <<rows, now, calls, overlap>>

\* Its common table expression reads the highest number.
Number(w) ==
  /\ writer[w].pc = "number"
  /\ \E n \in NextNumbers :
       writer' = [writer EXCEPT ![w].pc = "insert", ![w].number = n]
  /\ UNCHANGED <<rows, now, calls, overlap>>

\* Faulty variant of Insert: no unique constraint, the last writer wins.
InsertOrReplace(w) ==
  LET n == writer[w].number
  IN  /\ writer[w].pc = "insert"
      /\ rows' = [k \in DOMAIN rows \union {n} |->
                    IF k = n THEN [at |-> writer[w].at, kind |-> writer[w].kind]
                             ELSE rows[k]]
      /\ writer' = [writer EXCEPT ![w] = IdleWriter]
      /\ UNCHANGED <<now, calls, overlap>>

\* UNIQUE (page_id, language, version_number) lets one row have a number.
Insert(w) ==
  LET n == writer[w].number
  IN  /\ writer[w].pc = "insert"
      /\ n \notin DOMAIN rows
      /\ rows' = [k \in DOMAIN rows \union {n} |->
                    IF k = n THEN [at |-> writer[w].at, kind |-> writer[w].kind]
                             ELSE rows[k]]
      /\ writer' = [writer EXCEPT ![w] = IdleWriter]
      /\ UNCHANGED <<now, calls, overlap>>

\* A statement fails (always when the number is taken): no snapshot.  A check
\* that fails counts as a recent snapshot.
GiveUp(w) ==
  /\ writer[w].pc \in {"check", "number", "insert"}
  /\ writer' = [writer EXCEPT ![w] = IdleWriter]
  /\ UNCHANGED <<rows, now, calls, overlap>>

Tick == /\ now < MaxTime
        /\ now' = now + 1
        /\ UNCHANGED <<rows, writer, calls, overlap>>

Init == /\ rows = <<>>
        /\ writer = [w \in Writers |-> IdleWriter]
        /\ now = 0
        /\ calls = 0
        /\ overlap = FALSE

Step(w) == \/ \E k \in Kinds : Ask(w, k)
           \/ Check(w) \/ Arrive(w) \/ Number(w) \/ Insert(w) \/ GiveUp(w)

Next == Tick \/ \E w \in Writers : Step(w)

Spec == Init /\ [][Next]_vars

-----------------------------------------------------------------------------
(* Properties *)

\* The type invariant: a writer that has a number got it from rows that are
\* still there, and none is dated in the future.
WriterState == [pc : {"idle", "check", "send", "number", "insert"},
                kind : Kinds, at : 0..now, number : Nat]

TypeOK ==
  /\ rows \in Seq(Entry)
  /\ \A n \in DOMAIN rows : rows[n].at <= now
  /\ writer \in [Writers -> WriterState]
  /\ \A w \in Writers : writer[w].pc = "insert" =>
                          writer[w].number \in 1..(Len(rows) + 1)
  /\ now \in 0..MaxTime
  /\ calls \in 0..MaxCalls
  /\ overlap \in BOOLEAN

\* The table is the append-only audit trail its header describes: numbers
\* without gaps, no entry rewritten, however the writers overlap or fail.
Trail == INSTANCE AppendOnlyHistory WITH entries <- rows, Snapshots <- Entry

AppendsOnly == Trail!Spec

\* "Auto-incremented using a CTE to avoid races" (page_version_history.rs):
\* the number a writer is about to insert is nobody's yet, so that its
\* snapshot is not lost.
NumberIsFree ==
  \A w \in Writers : writer[w].pc = "insert" => writer[w].number \notin DOMAIN rows

\* "Debounced snapshot - skip if one was taken within the window"
\* (update_page.rs): the snapshot of a save is at least Window after every
\* earlier one, whatever took that.
Debounced ==
  \A m, n \in DOMAIN rows :
    m < n /\ rows[n].kind = "save" => rows[m].at + Window <= rows[n].at

\* The list shows the newest first by created_at, the insertion numbers them:
\* the two orders agree.
NewestIsLast ==
  \A m, n \in DOMAIN rows : m < n => rows[m].at <= rows[n].at

\* The three hold as long as requests for the page do not overlap: no snapshot
\* is lost to the unique constraint, saves are debounced, the orders agree.
SerialKeepsAll  == ~ overlap => NumberIsFree
SerialDebounced == ~ overlap => Debounced
SerialInOrder   == ~ overlap => NewestIsLast

=============================================================================
