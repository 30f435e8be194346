----------------------------- MODULE Settlement -----------------------------
(***************************************************************************)
(* What every paid artifact promises the founder who bought it, whatever   *)
(* table it lives in: it is paid for once; it ends delivered or closed,    *)
(* for good; and the price goes back at most once, only for an artifact    *)
(* that is closed and on which no model was ever called.                   *)
(*                                                                         *)
(* The reaper and the workers of website_tasks and revision_tasks spell    *)
(* this contract out in their comments ("whoever moves the row out of      *)
(* these states owns the outcome").                                        *)
(***************************************************************************)
EXTENDS Naturals

CONSTANT Jobs

VARIABLES
  state,     \* where each artifact stands with its founder
  spent,     \* artifacts some model was called for
  refunds    \* times each artifact's price was given back

settlement == <<state, spent, refunds>>

Init ==
  /\ state = [j \in Jobs |-> "unpaid"]
  /\ spent = {}
  /\ refunds = [j \in Jobs |-> 0]

Move(j, from, to) == state[j] = from /\ state' = [state EXCEPT ![j] = to]

Charge(j)  == Move(j, "unpaid", "open") /\ UNCHANGED <<spent, refunds>>
Deliver(j) == Move(j, "open", "delivered") /\ UNCHANGED <<spent, refunds>>
Close(j)   == Move(j, "open", "closed") /\ UNCHANGED <<spent, refunds>>

(* A worker may not know yet that its artifact was closed under it; then   *)
(* no refund may be outstanding.                                           *)
Spend(j) ==
  /\ state[j] \in {"open", "closed"}
  /\ refunds[j] = 0
  /\ spent' = spent \cup {j}
  /\ UNCHANGED <<state, refunds>>

Refund(j) ==
  /\ state[j] = "closed"
  /\ j \notin spent /\ refunds[j] = 0
  /\ refunds' = [refunds EXCEPT ![j] = 1]
  /\ UNCHANGED <<state, spent>>

Next ==
  \E j \in Jobs : Charge(j) \/ Deliver(j) \/ Close(j) \/ Spend(j) \/ Refund(j)

Spec == Init /\ [][Next]_settlement
=============================================================================
