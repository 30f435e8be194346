------------------------------ MODULE PaidRows ------------------------------
(***************************************************************************)
(* What every paid artifact shares: the organisation's credit balance, the *)
(* row that is charged for at create, the coroutine spawned to build it,   *)
(* the reaper that closes a row nobody finished, and process death.        *)
(*                                                                         *)
(* The modules that EXTEND this one add the worker of one artifact. Every  *)
(* step is at most one database statement. A coroutine stands at a pc in   *)
(* Sync while its code runs on to the next statement without an await, and *)
(* then nothing else in its process moves (LoopFree, LoopIdle). Procs has  *)
(* two members while a deploy has the old and the new process alive.       *)
(***************************************************************************)
EXTENDS Naturals

CONSTANTS
  Jobs,       \* the artifacts the founders of one organisation order
  Procs,      \* API processes alive at the same time
  Price,      \* credits_charged
  Funds,      \* organizations.credits_balance to begin with
  MaxDeaths,  \* bound: process deaths explored
  Overrun     \* may live work outlast the reaper's deadline?

ASSUME PaidRowsAssumption ==
  /\ Procs # {}
  /\ Price \in Nat \ {0}
  /\ Funds \in Nat
  /\ MaxDeaths \in Nat
  /\ Overrun \in BOOLEAN

VARIABLES
  balance,  \* organizations.credits_balance
  charged,  \* jobs whose deduct_credits reached the database
  taken,    \* history: what that deduction really removed
  status,   \* the row's status column, "none" while there is no row
  old,      \* jobs whose created_at lies before the reaper's cutoff
  refunds,  \* times each job's price was paid back
  pc,       \* where each job's request handler, then its worker, stands
  proc,     \* the process that serves it
  found,    \* per process: the statuses its sweep read, "none" when settled
  owes,     \* per process: jobs its sweep closed and is about to refund
  deaths    \* process deaths so far

purse == <<balance, charged, taken, refunds>>
sweep == <<found, owes>>
paidVars == <<balance, charged, taken, status, old, refunds, pc, proc, found,
              owes, deaths>>

Sync    == {"deduct", "insert", "prefix", "refund", "raising", "match",
            "price", "finish"}
Resting == {"idle", "done", "lost"}
NothingFound == [j \in Jobs |-> "none"]

PaidInit ==
  /\ balance = Funds
  /\ charged = {}
  /\ taken = [j \in Jobs |-> 0]
  /\ status = [j \in Jobs |-> "none"]
  /\ old = {}
  /\ refunds = [j \in Jobs |-> 0]
  /\ pc = [j \in Jobs |-> "idle"]
  /\ proc \in [Jobs -> Procs]
  /\ found = [p \in Procs |-> NothingFound]
  /\ owes = [p \in Procs |-> {}]
  /\ deaths = 0

-----------------------------------------------------------------------------
LoopIdle(p) == \A i \in Jobs : proc[i] = p => pc[i] \notin Sync
Sweeping(p) == found[p] # NothingFound \/ owes[p] # {}
LoopFree(j) ==
  /\ \A i \in Jobs \ {j} : proc[i] = proc[j] => pc[i] \notin Sync
  /\ ~ Sweeping(proc[j])

At(j, from)    == pc[j] = from /\ LoopFree(j)
Goto(j, to)    == pc' = [pc EXCEPT ![j] = to]
Put(j, new)    == status' = [status EXCEPT ![j] = new]

(* An UPDATE guarded by the states it may leave: the row moves, or not.    *)
PutIf(j, from, new) ==
  status' = IF status[j] \in from THEN [status EXCEPT ![j] = new] ELSE status

-----------------------------------------------------------------------------
(* The create handler, one synchronous stretch: a balance check, the       *)
(* deduction, the INSERT and the spawn.  A refusal changes nothing.        *)
Afford_Unchecked(j) ==   \* mutant: the 402 is missing
  /\ At(j, "idle")
  /\ Goto(j, "deduct")
  /\ UNCHANGED <<purse, status, old, proc, sweep, deaths>>
Afford(j) ==
  /\ At(j, "idle")
  /\ balance >= Price
  /\ Goto(j, "deduct")
  /\ UNCHANGED <<purse, status, old, proc, sweep, deaths>>

(* deduct_credits floors the balance at zero.  When the RPC fails the      *)
(* request fails, whether or not Postgres had already run it.              *)
Floored == IF balance >= Price THEN balance - Price ELSE 0
Deduct(j) ==
  /\ At(j, "deduct")
  /\ \/ /\ balance' = Floored
        /\ charged' = charged \cup {j}
        /\ taken' = [taken EXCEPT ![j] = balance - Floored]
        /\ Goto(j, "insert") \/ Goto(j, "done")
     \/ Goto(j, "done") /\ UNCHANGED <<balance, charged, taken>>
  /\ UNCHANGED <<status, old, refunds, proc, sweep, deaths>>

Insert(j, new, first) ==
  /\ At(j, "insert")
  /\ \/ Put(j, new) /\ Goto(j, first)
     \/ Goto(j, "done") /\ UNCHANGED status      \* the INSERT raised
  /\ UNCHANGED <<purse, old, proc, sweep, deaths>>

(* refund_credits: pays the whole price, or logs that it could not.        *)
PayBack(j) ==
  \/ /\ balance' = balance + Price
     /\ refunds' = [refunds EXCEPT ![j] = @ + 1]
  \/ UNCHANGED <<balance, refunds>>

WorkerRefund(j) ==
  /\ At(j, "refund")
  /\ PayBack(j)
  /\ Goto(j, "done")
  /\ UNCHANGED <<charged, taken, status, old, proc, sweep, deaths>>

-----------------------------------------------------------------------------
(* The reaper.  sweep_once takes one table after the other (here its rows),*)
(* reads the stuck ones and then closes them one by one, each by a         *)
(* compare-and-set on the status it read; only a close that matched is     *)
(* followed by a refund, and only from a refund state.                     *)
ReaperRead(p, rows, live) ==
  LET stuck == {j \in rows \cap old : status[j] \in live} IN
  /\ LoopIdle(p) /\ ~ Sweeping(p)
  /\ stuck # {}
  /\ found' = [found EXCEPT ![p] =
                 [j \in Jobs |-> IF j \in stuck THEN status[j] ELSE "none"]]
  /\ UNCHANGED <<purse, status, old, pc, proc, owes, deaths>>

Settled(p, j) == found' = [found EXCEPT ![p][j] = "none"]

ReaperClose(p, j, refundStates) ==
  /\ found[p][j] # "none" /\ owes[p] = {}
  /\ PutIf(j, {found[p][j]}, "failed")
  /\ owes' = [owes EXCEPT ![p] =
                IF status[j] = found[p][j] /\ status[j] \in refundStates
                THEN {j} ELSE {}]
  /\ Settled(p, j)
  /\ UNCHANGED <<purse, old, pc, proc, deaths>>

(* The UPDATE raised, whether or not it had landed: nothing is refunded.   *)
ReaperCloseRaises(p, j) ==
  /\ found[p][j] # "none" /\ owes[p] = {}
  /\ PutIf(j, {found[p][j]}, "failed") \/ UNCHANGED status
  /\ Settled(p, j)
  /\ UNCHANGED <<purse, old, pc, proc, owes, deaths>>

ReaperRefund(p, j) ==
  /\ j \in owes[p]
  /\ PayBack(j)
  /\ owes' = [owes EXCEPT ![p] = {}]
  /\ UNCHANGED <<charged, taken, status, old, pc, proc, found, deaths>>

-----------------------------------------------------------------------------
(* created_at falls behind the cutoff.  A task the loop is about to run, or *)
(* one between two awaits, cannot be that late; one at an await if Overrun. *)
Age(j) ==
  /\ status[j] # "none" /\ j \notin old
  /\ pc[j] \in Resting \/ (Overrun /\ pc[j] \notin Sync \cup {"spawned"})
  /\ old' = old \cup {j}
  /\ UNCHANGED <<purse, status, pc, proc, sweep, deaths>>

(* Nothing durable carries a task, a sweep or a half-done request.         *)
Restart(p) ==
  /\ deaths < MaxDeaths
  /\ deaths' = deaths + 1
  /\ pc' = [j \in Jobs |-> IF proc[j] = p /\ pc[j] \notin Resting
                           THEN "lost" ELSE pc[j]]
  /\ found' = [found EXCEPT ![p] = NothingFound]
  /\ owes' = [owes EXCEPT ![p] = {}]
  /\ UNCHANGED <<purse, status, old, proc>>
=============================================================================
