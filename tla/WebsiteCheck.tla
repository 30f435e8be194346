---------------------------- MODULE WebsiteCheck ----------------------------
(***************************************************************************)
(* website_snapshots: POST /website/check, run_website_check and the       *)
(* reaper's rule for the table.  A check is captured, perhaps together     *)
(* with the site its founder admires, then judged by the critics.  The     *)
(* price goes back only when a capture failed, or when the reaper closes   *)
(* the row before the worker had moved it on to `judging`.                 *)
(***************************************************************************)
EXTENDS PaidRows

VARIABLE spent   \* checks whose critics were called
vars == <<paidVars, spent>>

LiveStatuses == {"queued", "capturing", "judging"}
ReapedStates == {"queued", "capturing", "judging"}
Refund_Judging == {"queued", "capturing", "judging"}   \* mutant: refunds spent work
RefundStates == {"queued", "capturing"}
Statuses     == LiveStatuses \cup {"none", "complete", "failed"}
Working      == {"spawned", "capture", "reference", "upload", "judge", "store"}
PCs          == Working \cup Resting \cup {"deduct", "insert", "refund"}

(* Every variable keeps its type: no interleaving of creates takes the     *)
(* balance below zero, which the floor in deduct_credits is there for.     *)
TypeOK ==
  /\ balance \in Nat
  /\ charged \subseteq Jobs
  /\ taken \in [Jobs -> 0..Price]
  /\ status \in [Jobs -> Statuses]
  /\ old \subseteq Jobs
  /\ refunds \in [Jobs -> Nat]
  /\ pc \in [Jobs -> PCs]
  /\ proc \in [Jobs -> Procs]
  /\ found \in [Procs -> [Jobs -> ReapedStates \cup {"none"}]]
  /\ owes \in [Procs -> SUBSET Jobs]
  /\ deaths \in 0..MaxDeaths
  /\ spent \subseteq Jobs

Init == PaidInit /\ spent = {}

-----------------------------------------------------------------------------
(* _advance: a compare-and-set whose result is read.  The loser stops; an  *)
(* UPDATE that raised stops the worker too, landed or not.                 *)
Advance(c, from, new, to) ==
  \/ status[c] = from /\ Put(c, new) /\ Goto(c, to)
  \/ status[c] # from /\ Goto(c, "done") /\ UNCHANGED status
  \/ PutIf(c, {from}, new) /\ Goto(c, "done")
  \/ Goto(c, "done") /\ UNCHANGED status

(* _record_failure: guarded on the row being in flight.  On the paths that *)
(* pay, only the write that landed is followed by the refund.              *)
RecordFailure_AlwaysPays(c, pays) ==   \* mutant: the close is not checked
  \/ PutIf(c, LiveStatuses, "failed") /\ Goto(c, IF pays THEN "refund" ELSE "done")
  \/ Goto(c, "done") /\ UNCHANGED status
RecordFailure(c, pays) ==
  \/ /\ PutIf(c, LiveStatuses, "failed")
     /\ Goto(c, IF pays /\ status[c] \in LiveStatuses THEN "refund" ELSE "done")
  \/ PutIf(c, LiveStatuses, "failed") /\ Goto(c, "done")    \* raised, landed
  \/ Goto(c, "done") /\ UNCHANGED status                    \* raised

Begin(c) ==
  /\ At(c, "spawned")
  /\ Advance(c, "queued", "capturing", "capture")
  /\ UNCHANGED <<purse, old, proc, sweep, deaths, spent>>

(* await capture_website(url); reference_url may name a second page.       *)
Capture(c) ==
  /\ At(c, "capture")
  /\ \/ (Goto(c, "reference") \/ Goto(c, "upload")) /\ UNCHANGED status
     \/ RecordFailure(c, TRUE)
  /\ UNCHANGED <<purse, old, proc, sweep, deaths, spent>>

(* The admired page: not loading and answering with a bot wall both pay.   *)
Reference(c) ==
  /\ At(c, "reference")
  /\ \/ Goto(c, "upload") /\ UNCHANGED status
     \/ RecordFailure(c, TRUE)
  /\ UNCHANGED <<purse, old, proc, sweep, deaths, spent>>

(* The screenshots are stored; from here on models are called.             *)
Upload(c) ==
  /\ At(c, "upload")
  /\ Advance(c, "capturing", "judging", "judge")
  /\ spent' = IF pc'[c] = "judge" THEN spent \cup {c} ELSE spent
  /\ UNCHANGED <<purse, old, proc, sweep, deaths>>

Judge(c) ==
  /\ At(c, "judge")
  /\ \/ Goto(c, "store") /\ UNCHANGED status
     \/ RecordFailure(c, FALSE)
  /\ UNCHANGED <<purse, old, proc, sweep, deaths, spent>>

(* The gallery row and the page document, both awaited, then the verdict.  *)
Store(c) ==
  /\ At(c, "store")
  /\ Advance(c, "judging", "complete", "done")
  /\ UNCHANGED <<purse, old, proc, sweep, deaths, spent>>

(* `except Exception`, around all of the worker.                           *)
Unexpected(c) ==
  /\ pc[c] \in Working /\ LoopFree(c)
  /\ RecordFailure(c, FALSE)
  /\ UNCHANGED <<purse, old, proc, sweep, deaths, spent>>

(* spawn's on_failure, for an exception before the worker's own try.       *)
MarkFailed(c) ==
  /\ At(c, "spawned")
  /\ PutIf(c, LiveStatuses, "failed")
  /\ Goto(c, "done")
  /\ UNCHANGED <<purse, old, proc, sweep, deaths, spent>>

-----------------------------------------------------------------------------
Create(c) == (Afford(c) \/ Deduct(c) \/ Insert(c, "queued", "spawned")) /\ UNCHANGED spent

Worker(c) ==
  \/ Begin(c) \/ Capture(c) \/ Reference(c) \/ Upload(c) \/ Judge(c) \/ Store(c)
  \/ Unexpected(c) \/ MarkFailed(c)
  \/ WorkerRefund(c) /\ UNCHANGED spent

Read(p)     == ReaperRead(p, Jobs, ReapedStates) /\ UNCHANGED spent
Close(p, c) == ReaperClose(p, c, RefundStates) /\ UNCHANGED spent
Repay(p, c) == ReaperRefund(p, c) /\ UNCHANGED spent
Reaper(p) ==
  \/ Read(p)
  \/ \E c \in Jobs : \/ Close(p, c)
                     \/ Repay(p, c)
                     \/ ReaperCloseRaises(p, c) /\ UNCHANGED spent

Next ==
  \/ \E c \in Jobs : Create(c) \/ Worker(c)
  \/ \E p \in Procs : Reaper(p) \/ (Restart(p) /\ UNCHANGED spent)
  \/ \E c \in Jobs : Age(c) /\ UNCHANGED spent

(* Coroutines run on and time passes, sweeps recur and repay what they     *)
(* owe, and the database does not refuse the reaper's UPDATE for ever.     *)
GoesOn(c)  == Worker(c) \/ (Create(c) /\ pc[c] \in Sync) \/ (Age(c) /\ UNCHANGED spent)
Recurs(p)  == Read(p) \/ \E c \in Jobs : Repay(p, c)
Reaches(p) == \E c \in Jobs : Close(p, c)
Fairness ==
  /\ \A c \in Jobs : WF_vars(GoesOn(c))
  /\ \A p \in Procs : WF_vars(Recurs(p)) /\ SF_vars(Reaches(p))

Spec == Init /\ [][Next]_vars
FairSpec == Spec /\ Fairness

-----------------------------------------------------------------------------
(* Properties.                                                             *)

(* Credits go back only for a check that failed before any model was       *)
(* called, and only once, whoever closed the row.                          *)
RefundedUnspent ==
  \A c \in Jobs :
    refunds[c] > 0 => refunds[c] = 1 /\ status[c] = "failed" /\ c \notin spent

(* Seen by the founder, a check keeps the contract of every paid artifact. *)
StateOf(c) ==
  CASE status[c] = "complete" -> "delivered"
    [] status[c] = "failed"   -> "closed"
    [] OTHER -> IF c \in charged THEN "open" ELSE "unpaid"
Contract == INSTANCE Settlement WITH
  state    <- [c \in Jobs |-> StateOf(c)]
Settles == Contract!Spec
=============================================================================
