------------------------------ MODULE UsageLedger ------------------------------
(***************************************************************************)
(* What every answer of a model cost, row by row.  The rows of one stage   *)
(* wait in a buffer and are inserted in batches; an insert that raises     *)
(* leaves them where they are.  A row is the number of its call.           *)
(***************************************************************************)
EXTENDS Naturals, Sequences, SequencesExt

CONSTANTS
  Threshold,   \* _FLUSH_THRESHOLD, at least 1
  Cap,         \* _MAX_BUFFERED_ROWS
  Retries,     \* STRUCTURED_RETRIES
  MostCalls    \* bound: answers of one stage

VARIABLES
  made,        \* answers so far
  asking,      \* the structured call under way: attempts left and whether it goes on
  buffer,      \* rows to insert, the oldest first
  flushAt,     \* next_flush_size
  stored,      \* how often each row is in llm_usage
  lost,        \* rows that were reported lost
  late,        \* rows of a task that outlived the context, which nobody reports
  unknown,     \* rows of an insert that raised although the rows were written
  context      \* "open", "closed"

ledgerVars == <<made, asking, buffer, flushAt, stored, lost, late, unknown, context>>

Recorded == DOMAIN stored

Add(rows, f) == [i \in DOMAIN f |-> IF i \in ToSet(rows) THEN f[i] + 1 ELSE f[i]]

-----------------------------------------------------------------------------
(* _trim_buffer: past the cap the oldest rows go, and it is said.          *)
Kept(rows)    == IF Len(rows) > Cap THEN SubSeq(rows, Len(rows) - Cap + 1, Len(rows)) ELSE rows
Dropped(rows) == ToSet(rows) \ ToSet(Kept(rows))

(* _flush_buffer: the rows leave the buffer when the insert was confirmed. *)
(* An insert that raised may have been written all the same.               *)
Outcomes == {"inserted", "refused", "unheard"}
Flush_ClearsFirst(rows, counts, outcome) ==   \* mutant
  /\ buffer' = <<>> /\ flushAt' = Threshold /\ UNCHANGED lost
  /\ stored'  = IF outcome = "refused" THEN counts ELSE Add(rows, counts)
  /\ unknown' = IF outcome = "unheard" THEN unknown \cup ToSet(rows) ELSE unknown
Flush(rows, counts, outcome) ==
  /\ outcome \in Outcomes
  /\ stored'  = IF outcome = "refused" THEN counts ELSE Add(rows, counts)
  /\ unknown' = IF outcome = "unheard" THEN unknown \cup ToSet(rows) ELSE unknown
  /\ IF outcome = "inserted"
     THEN buffer' = <<>> /\ flushAt' = Threshold /\ UNCHANGED lost
     ELSE /\ buffer' = Kept(rows) /\ lost' = lost \cup Dropped(rows)
          /\ flushAt' = Len(rows) + Threshold

(* record_llm_call: the row is buffered, and the buffer inserted when it   *)
(* is full; outside a context it is no row at all.                         *)
Record(outcome) ==
  LET rows   == Append(buffer, made + 1)
      counts == [i \in 1..(made + 1) |-> IF i \in Recorded THEN stored[i] ELSE 0]
  IN /\ made < MostCalls /\ made' = made + 1
     /\ late' = IF context = "closed" THEN late \cup {made + 1} ELSE late
     /\ IF Len(rows) >= flushAt THEN Flush(rows, counts, outcome)
        ELSE buffer' = rows /\ stored' = counts /\ UNCHANGED <<flushAt, lost, unknown>>

-----------------------------------------------------------------------------
Init ==
  /\ made = 0 /\ asking = [left |-> 0, on |-> FALSE]
  /\ buffer = <<>> /\ flushAt = Threshold
  /\ stored = <<>> /\ lost = {} /\ late = {} /\ unknown = {} /\ context = "open"

(* llm_complete, llm_fast, llm_vision: one answer, one row.  A task of the *)
(* stage that is still under way when the context closes goes on using it: *)
(* its rows fill the buffer nobody flushes any more.                       *)
Call(outcome) == Record(outcome) /\ UNCHANGED <<asking, context>>
(* llm_structured: every attempt is metered before it is parsed, and one   *)
(* that does not parse is answered with its error, twice at most.          *)
AskStructured ==
  /\ ~asking.on /\ asking' = [left |-> Retries + 1, on |-> TRUE]
  /\ UNCHANGED <<made, buffer, flushAt, stored, lost, late, unknown, context>>
Attempt(outcome, parses) ==
  /\ asking.on /\ Record(outcome)
  /\ asking' = IF parses \/ asking.left = 1 THEN [left |-> 0, on |-> FALSE]
               ELSE [asking EXCEPT !.left = @ - 1]
  /\ UNCHANGED context
(* The stage ends: a last insert, and what is left then is reported lost.  *)
CloseContext(outcome) ==
  /\ context = "open" /\ context' = "closed"
  /\ IF buffer = <<>> THEN UNCHANGED <<buffer, flushAt, stored, lost, unknown>>
     ELSE IF outcome = "inserted" THEN Flush(buffer, stored, outcome)
     ELSE /\ stored'  = IF outcome = "refused" THEN stored ELSE Add(buffer, stored)
          /\ unknown' = IF outcome = "unheard" THEN unknown \cup ToSet(buffer) ELSE unknown
          /\ buffer' = Kept(buffer) /\ flushAt' = Len(buffer) + Threshold
          /\ lost' = lost \cup ToSet(buffer)
  /\ UNCHANGED <<made, asking, late>>

Next == \/ AskStructured
        \/ \E outcome \in Outcomes :
             Call(outcome) \/ CloseContext(outcome) \/ \E parses \in BOOLEAN : Attempt(outcome, parses)

Spec == Init /\ [][Next]_ledgerVars

-----------------------------------------------------------------------------
(* "The buffer is emptied after a confirmed insert, never before": a row   *)
(* that was recorded is in the table, waits for an insert that will come,  *)
(* or was reported lost, unless its task outlived the context; and it is   *)
(* there twice only after an insert that raised and yet was written.       *)
RowsAccountedFor ==
  \A i \in Recorded :
    /\ \/ stored[i] > 0 \/ i \in lost
       \/ i \in ToSet(buffer) /\ (context = "open" \/ i \in late)
    /\ stored[i] > 1 => i \in unknown
=============================================================================
