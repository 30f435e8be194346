------------------------------ MODULE Clearance ------------------------------
(***************************************************************************)
(* clearance_runs: POST /clearance, run_clearance and the reaper's rule    *)
(* for the table.  A QUICK run is free and capped per day; the other tiers *)
(* are charged at create.                                                  *)
(***************************************************************************)
EXTENDS PaidRows, FiniteSets

CONSTANT DailyCap   \* QUICK_RUNS_PER_DAY

VARIABLES
  quick,   \* the runs asked for at tier QUICK, all on one day
  spent    \* runs whose searches were entered

LiveStatuses == {"queued", "running"}
ReapedStates == {"queued", "running"}
RefundStates == {"queued"}
Statuses     == LiveStatuses \cup {"none", "complete", "failed"}
PCs          == Resting \cup {"deduct", "insert", "spawned", "search", "raising"}

-----------------------------------------------------------------------------
QuickRows == {j \in quick : status[j] # "none"}

AdmitQuick(j) ==
  /\ At(j, "idle") /\ j \in quick
  /\ Cardinality(QuickRows) < DailyCap
  /\ Goto(j, "insert")
  /\ UNCHANGED <<purse, status, old, proc, sweep, deaths, spent>>

Create(j) ==
  \/ AdmitQuick(j)
  \/ j \notin quick /\ Afford(j) /\ UNCHANGED spent
  \/ Deduct(j) /\ UNCHANGED spent
  \/ Insert(j, "queued", "spawned") /\ UNCHANGED spent

(* The row is read and written `running`, by id, in the first breath; any  *)
(* exception of the worker, from here on, is recorded by RecordFailure.    *)
Begin(j) ==
  /\ At(j, "spawned")
  /\ \/ Put(j, "running") /\ Goto(j, "search") /\ spent' = spent \cup {j}
     \/ Put(j, "running") /\ Goto(j, "raising") /\ UNCHANGED spent
     \/ UNCHANGED <<status, spent>> /\ Goto(j, "raising")
  /\ UNCHANGED <<purse, old, proc, sweep, deaths>>

(* Query plan, tracks, findings and then `complete`, by id.                *)
Search(j) ==
  /\ At(j, "search")
  /\ \/ Put(j, "complete") /\ Goto(j, "done")
     \/ Put(j, "complete") /\ Goto(j, "raising")        \* raised, landed
     \/ UNCHANGED status /\ Goto(j, "raising")
  /\ UNCHANGED <<purse, old, proc, sweep, deaths, spent>>

RecordFailure(j) ==
  /\ At(j, "raising")
  /\ Put(j, "failed") \/ UNCHANGED status
  /\ Goto(j, "done")
  /\ UNCHANGED <<purse, old, proc, sweep, deaths, spent>>

(* spawn's on_failure, for an exception before the worker's own try.       *)
MarkFailed(j) ==
  /\ At(j, "spawned")
  /\ PutIf(j, LiveStatuses, "failed") \/ UNCHANGED status
  /\ Goto(j, "done")
  /\ UNCHANGED <<purse, old, proc, sweep, deaths, spent>>

Worker(j) == Begin(j) \/ Search(j) \/ RecordFailure(j) \/ MarkFailed(j)

(* A QUICK row carries credits_charged = 0, and nothing is paid back.      *)
Repay(p, j) ==
  /\ IF j \in quick
     THEN /\ j \in owes[p]
          /\ owes' = [owes EXCEPT ![p] = {}]
          /\ UNCHANGED <<purse, status, old, pc, proc, found, deaths>>
     ELSE ReaperRefund(p, j)
  /\ UNCHANGED spent
=============================================================================
