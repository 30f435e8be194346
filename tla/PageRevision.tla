---------------------------- MODULE PageRevision ----------------------------
(***************************************************************************)
(* page_revisions: POST /website/revision, run_page_revision and the       *)
(* reaper's rule for the table.  A revision re-captures a checked page and *)
(* runs the generate-and-judge loop on it.  The price goes back when it    *)
(* failed before that loop, or when the reaper finds the row `queued`.     *)
(***************************************************************************)
EXTENDS PaidRows

VARIABLE spent   \* revisions whose vision calls began

LiveStatuses  == {"queued", "generating"}
RefundStates  == {"queued"}
Reaped_Running == {"queued", "running"}   \* mutant: the status the rule once watched
ReapedStates  == {"queued", "generating"}
Statuses      == LiveStatuses \cup {"none", "complete", "failed"}
Working       == {"spawned", "prefix", "capture", "reference", "generate", "upload"}
PCs           == Working \cup Resting \cup {"deduct", "insert", "refund"}

-----------------------------------------------------------------------------
(* _advance to a terminal state: guarded, and its result read.             *)
Advance(r, from, new, ifWon) ==
  \/ PutIf(r, from, new) /\ Goto(r, IF status[r] \in from THEN ifWon ELSE "done")
  \/ PutIf(r, from, new) /\ Goto(r, "done")             \* raised, landed
  \/ Goto(r, "done") /\ UNCHANGED status                \* raised

RecordFailure(r, pays) ==
  Advance(r, LiveStatuses, "failed", IF pays THEN "refund" ELSE "done")

(* The check the revision starts from may have gone: closed and repaid.    *)
Begin(r) ==
  /\ At(r, "spawned")
  /\ \/ Goto(r, "prefix") /\ UNCHANGED status
     \/ RecordFailure(r, TRUE)
  /\ UNCHANGED <<purse, old, proc, sweep, deaths, spent>>

(* `generating` is written by id alone, in the same breath as Begin.       *)
Mark(r) ==
  /\ At(r, "prefix")
  /\ Put(r, "generating")
  /\ Goto(r, "capture")
  /\ UNCHANGED <<purse, old, proc, sweep, deaths, spent>>

(* generate_revision is entered on the breath in which the last capture    *)
(* it needs came back.                                                     *)
Generating(r) == Goto(r, "generate") /\ spent' = spent \cup {r} /\ UNCHANGED status

Capture(r) ==
  /\ At(r, "capture")
  /\ \/ Goto(r, "reference") /\ UNCHANGED <<status, spent>>
     \/ Generating(r)
     \/ RecordFailure(r, TRUE) /\ UNCHANGED spent
  /\ UNCHANGED <<purse, old, proc, sweep, deaths>>

Reference(r) ==
  /\ At(r, "reference")
  /\ \/ Generating(r)
     \/ RecordFailure(r, TRUE) /\ UNCHANGED spent
  /\ UNCHANGED <<purse, old, proc, sweep, deaths>>

Generate(r) ==
  /\ At(r, "generate")
  /\ \/ Goto(r, "upload") /\ UNCHANGED status
     \/ RecordFailure(r, FALSE)
  /\ UNCHANGED <<purse, old, proc, sweep, deaths, spent>>

Upload_ById(r) ==   \* mutant: the write this compare-and-set replaced
  /\ At(r, "upload")
  /\ Put(r, "complete") /\ Goto(r, "done")
  /\ UNCHANGED <<purse, old, proc, sweep, deaths, spent>>
Upload(r) ==
  /\ At(r, "upload")
  /\ Advance(r, {"generating"}, "complete", "done")
  /\ UNCHANGED <<purse, old, proc, sweep, deaths, spent>>

Unexpected(r) ==
  /\ pc[r] \in Working /\ LoopFree(r)
  /\ RecordFailure(r, FALSE)
  /\ UNCHANGED <<purse, old, proc, sweep, deaths, spent>>

(* spawn's on_failure, for an exception before the worker's own try.       *)
MarkFailed(r) ==
  /\ At(r, "spawned")
  /\ PutIf(r, LiveStatuses, "failed")
  /\ Goto(r, "done")
  /\ UNCHANGED <<purse, old, proc, sweep, deaths, spent>>

-----------------------------------------------------------------------------
Create(r) == (Afford(r) \/ Deduct(r) \/ Insert(r, "queued", "spawned")) /\ UNCHANGED spent

Worker(r) ==
  \/ Begin(r) \/ Mark(r) \/ Capture(r) \/ Reference(r) \/ Generate(r) \/ Upload(r)
  \/ Unexpected(r) \/ MarkFailed(r)
  \/ WorkerRefund(r) /\ UNCHANGED spent
=============================================================================
