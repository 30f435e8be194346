-------------------------- MODULE CapitalShortlist --------------------------
(***************************************************************************)
(* capital_shortlists: POST /capital/shortlist charges, inserts the row at *)
(* `building`, matches, and closes it, all in one request without an await.*)
(* A shortlist with no match on it is delivered and its price given back.  *)
(***************************************************************************)
EXTENDS PaidRows

VARIABLE empty   \* shortlists on which no firm matched

ReapedStates == {"queued", "building"}
RefundStates == {"queued"}
Statuses     == ReapedStates \cup {"none", "complete", "failed"}
PCs          == Resting \cup {"deduct", "insert", "match", "price", "finish"}

-----------------------------------------------------------------------------
Create(j) ==
  (Afford(j) \/ Deduct(j) \/ Insert(j, "building", "match")) /\ UNCHANGED empty

(* build_shortlist: matches, none, or an exception that fails the row.     *)
Match(j) ==
  /\ At(j, "match")
  /\ \/ Goto(j, "finish") /\ UNCHANGED <<status, empty>>
     \/ Goto(j, "price") /\ empty' = empty \cup {j} /\ UNCHANGED status
     \/ /\ Put(j, "failed") \/ UNCHANGED status
        /\ Goto(j, "done") /\ UNCHANGED empty
  /\ UNCHANGED <<purse, old, proc, sweep, deaths>>

Reprice(j) ==
  /\ At(j, "price")
  /\ PayBack(j)
  /\ Goto(j, "finish")
  /\ UNCHANGED <<charged, taken, status, old, proc, sweep, deaths, empty>>

(* One UPDATE writes the matches and `complete`, or it raises.             *)
Finish(j) ==
  /\ At(j, "finish")
  /\ Put(j, "complete") \/ UNCHANGED status
  /\ Goto(j, "done")
  /\ UNCHANGED <<purse, old, proc, sweep, deaths, empty>>

Worker(j) == Match(j) \/ Reprice(j) \/ Finish(j)
=============================================================================
