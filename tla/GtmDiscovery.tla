----------------------------- MODULE GtmDiscovery -----------------------------
(***************************************************************************)
(* Go-to-market discovery: POST /gtm/discover runs inline, is charged for  *)
(* the queries asked, stores each query's candidates as it ends, and       *)
(* settles the charge against what was delivered; POST                     *)
(* /gtm/runs/{id}/reconcile settles a run that closed without it.          *)
(*                                                                         *)
(* A step is what runs between two awaits.  Statements of two processes    *)
(* interleave; in one process the steps in Sync do not.                    *)
(***************************************************************************)
EXTENDS Naturals, FiniteSets

CONSTANTS
  Discoveries,  \* requests, and the gtm_discovery_runs rows they insert
  Queries,      \* the compiled queries of each, one archetype known to all
  Clients,      \* callers of POST /gtm/runs/{id}/reconcile
  Procs,        \* API processes alive at the same time
  CostOf,       \* [count -> estimate_discovery_cost(count).credits]
  Funds,        \* organizations.credits_balance to begin with
  Outages,      \* the search provider may be unavailable
  MaxDeaths     \* bound: process deaths and raised closes explored
Count == 0..Cardinality(Queries)
ASSUME DiscoveryAssumption ==
  /\ IsFiniteSet(Queries) /\ CostOf \in [Count -> Nat]
  /\ \A m, n \in Count : m <= n => CostOf[m] <= CostOf[n]
  /\ Funds \in Nat /\ Outages \in BOOLEAN /\ MaxDeaths \in Nat /\ Procs # {}
  /\ Discoveries \cap Clients = {}
Actors == Discoveries \cup Clients

VARIABLES
  balance,
  status,    \* [row -> its status], "none" before create_run
  counted,   \* queries_completed + queries_empty on the row
  settled,   \* rows with refunded_at set
  refunded,  \* credits_refunded on the row
  query,     \* [row -> [query -> how it ended]]
  pc, proc,  \* where each actor stands, and the process that serves it
  of,        \* the row it settles
  quoted,    \* the refund it computed from the row it read
  taken,     \* history: what the deduction really removed
  returned,  \* history: what the balance got back for the row
  old,       \* rows past the reaper's 30 minutes
  deaths
row  == <<status, counted, settled, refunded>>
cash == <<balance, taken, returned>>
vars == <<row, cash, query, pc, proc, of, quoted, old, deaths>>

Charge    == CostOf[Cardinality(Queries)]
Sync      == {"deduct", "create", "refund"}
Stages    == {"waiting", "delivered", "failed", "gone"}
PCs       == Sync \cup {"idle", "batch", "deadline", "outage", "refused", "raised", "done", "dead"}
Delivered(r) == Cardinality({q \in Queries : query[r][q] = "delivered"})

Own(a) == IF a \in Discoveries THEN a ELSE CHOOSE r \in Discoveries : TRUE

Init ==
  /\ balance = Funds
  /\ status = [r \in Discoveries |-> "none"]
  /\ counted = [r \in Discoveries |-> 0]
  /\ settled = {} /\ refunded = counted
  /\ query = [r \in Discoveries |-> [q \in Queries |-> "waiting"]]
  /\ pc = [a \in Actors |-> "idle"] /\ proc \in [Actors -> Procs]
  /\ of = [a \in Actors |-> Own(a)]
  /\ quoted = [a \in Actors |-> 0] /\ taken = counted /\ returned = counted
  /\ old = {} /\ deaths = 0

-----------------------------------------------------------------------------
LoopFree(a) == \A b \in Actors \ {a} : proc[b] = proc[a] => pc[b] \notin Sync
At(a, here) == pc[a] = here /\ LoopFree(a)
Goto(a, to) == pc' = [pc EXCEPT ![a] = to]

(* check_discovery_budget: refused before anything is spent.               *)
Check(r) ==
  /\ At(r, "idle")
  /\ Goto(r, IF balance >= Charge THEN "deduct" ELSE "refused")
  /\ UNCHANGED <<row, cash, query, proc, of, quoted, old, deaths>>

(* deduct_credits floors at zero.                                          *)
Deduct(r) ==
  /\ At(r, "deduct")
  /\ taken' = [taken EXCEPT ![r] = IF balance >= Charge THEN Charge ELSE balance]
  /\ balance' = balance - taken'[r]
  /\ Goto(r, "create")
  /\ UNCHANGED <<row, returned, query, proc, of, quoted, old, deaths>>

(* create_run, or its insert raises and the request answers 500: with no   *)
(* row, or with one that landed and whose queries nobody asks.             *)
Opened(r) == status' = [status EXCEPT ![r] = "running"]
Create(r) ==
  /\ At(r, "create")
  /\ \/ Opened(r) /\ Goto(r, "batch") /\ UNCHANGED query
     \/ Opened(r) /\ Goto(r, "raised")
          /\ query' = [query EXCEPT ![r] = [q \in Queries |-> "gone"]]
     \/ Goto(r, "raised") /\ UNCHANGED <<status, query>>
  /\ UNCHANGED <<counted, settled, refunded, cash, proc, of, quoted, old, deaths>>

(* One query: adapter.search, then extraction and storage; its candidates  *)
(* are stored, or there were none: delivered either way.  gather raises    *)
(* the first outage and leaves the other queries running; the deadline     *)
(* cancels them.                                                           *)
Live(r) == status[r] # "none" /\ pc[r] # "dead"
End(r, q, to) ==
  /\ Live(r) /\ LoopFree(r) /\ query[r][q] = "waiting"
  /\ query' = [query EXCEPT ![r][q] = to]
Search(r, q) ==
  /\ \E to \in {"delivered", "failed"} : End(r, q, to)
  /\ UNCHANGED <<row, cash, pc, proc, of, quoted, old, deaths>>
Unavailable(r, q) ==
  /\ Outages /\ End(r, q, "failed")
  /\ pc' = IF pc[r] = "batch" THEN [pc EXCEPT ![r] = "outage"] ELSE pc
  /\ UNCHANGED <<row, cash, proc, of, quoted, old, deaths>>
Deadline(r) ==
  /\ At(r, "batch")
  /\ query' = [query EXCEPT ![r] = [q \in Queries |->
       IF @[q] = "waiting" THEN "gone" ELSE @[q]]]
  /\ Goto(r, "deadline")
  /\ UNCHANGED <<row, cash, proc, of, quoted, old, deaths>>

(* finish_run: the terminal status and the counters, by id; then           *)
(* reconcile_discovery_charge prices the row the update returned.          *)
Over(r) ==
  \/ At(r, "batch") /\ \A q \in Queries : query[r][q] # "waiting"
  \/ At(r, "deadline") \/ At(r, "outage")
Outcome(r) ==
  IF pc[r] = "outage" THEN "failed"
  ELSE IF pc[r] = "deadline" \/ \E q \in Queries : query[r][q] = "failed" THEN "partial"
  ELSE "completed"
Owed(n) == Charge - CostOf[n]
Counters_Requested(r) == Cardinality(Queries)   \* mutant: the queries asked for
Counters(r) == Delivered(r)
Finish(r) ==
  /\ Over(r)
  /\ status' = [status EXCEPT ![r] = Outcome(r)]
  /\ counted' = [counted EXCEPT ![r] = Counters(r)]
  /\ quoted' = [quoted EXCEPT ![r] = Owed(Counters(r))]
  /\ Goto(r, "refund")
  /\ UNCHANGED <<settled, refunded, cash, query, proc, of, old, deaths>>

(* The update raises: the request answers 500 and the row stays `running`. *)
FinishRaises(r) ==
  /\ Over(r) /\ deaths < MaxDeaths
  /\ deaths' = deaths + 1
  /\ Goto(r, "raised")
  /\ UNCHANGED <<row, cash, query, proc, of, quoted, old>>

(* POST /gtm/runs/{id}/reconcile: a run that is closed and not yet settled,*)
(* priced from the row as it was read.                                     *)
Ask(c) ==
  /\ c \in Clients /\ At(c, "idle")
  /\ \E r \in Discoveries :
       /\ status[r] \notin {"none", "running"} /\ r \notin settled
       /\ of' = [of EXCEPT ![c] = r]
       /\ quoted' = [quoted EXCEPT ![c] = Owed(counted[r])]
  /\ Goto(c, "refund")
  /\ UNCHANGED <<row, cash, query, proc, old, deaths>>

(* refund_discovery_credits: claim and credit in one transaction; or the   *)
(* call fails and the run stays as it closed.                              *)
Claimed_Ignored(r) == FALSE   \* mutant: no refunded_at IS NULL
Claimed(r) == r \in settled
PayBack(r, credits) ==
  /\ settled' = settled \cup {r}
  /\ refunded' = [refunded EXCEPT ![r] = credits]
  /\ returned' = [returned EXCEPT ![r] = @ + credits]
  /\ balance' = balance + credits
Rest(a) ==
  /\ Goto(a, IF a \in Clients THEN "idle" ELSE "done")
  /\ of' = [of EXCEPT ![a] = Own(a)]
  /\ quoted' = [quoted EXCEPT ![a] = 0]
Refund(a) ==
  /\ At(a, "refund")
  /\ IF Claimed(of[a]) THEN UNCHANGED <<settled, refunded, returned, balance>>
     ELSE PayBack(of[a], quoted[a])
  /\ Rest(a)
  /\ UNCHANGED <<status, counted, taken, query, proc, old, deaths>>
RefundUnavailable(a) ==
  /\ At(a, "refund")
  /\ Rest(a)
  /\ UNCHANGED <<row, cash, query, proc, old, deaths>>

-----------------------------------------------------------------------------
(* Thirty minutes after its start the row can only be orphaned: a batch    *)
(* ends within discovery_deadline_seconds, at most six minutes.            *)
Age(r) ==
  /\ status[r] = "running" /\ pc[r] \in {"dead", "raised"}
  /\ old' = old \cup {r}
  /\ UNCHANGED <<row, cash, query, pc, proc, of, quoted, deaths>>
ReapedStates_None == {}   \* mutant: the table has no rule
ReapedStates == {"running"}
Reap(r) ==
  /\ r \in old /\ status[r] \in ReapedStates
  /\ status' = [status EXCEPT ![r] = "failed"]
  /\ UNCHANGED <<counted, settled, refunded, cash, query, pc, proc, of, quoted, old, deaths>>

Restart(p) ==
  LET dies(a) == proc[a] = p /\ pc[a] \notin {"idle", "refused", "raised"} IN
  /\ deaths < MaxDeaths
  /\ deaths' = deaths + 1
  /\ pc' = [a \in Actors |-> IF ~dies(a) THEN pc[a]
                             ELSE IF a \in Clients THEN "idle" ELSE "dead"]
  /\ of' = [a \in Actors |-> IF dies(a) THEN Own(a) ELSE of[a]]
  /\ quoted' = [a \in Actors |-> IF dies(a) THEN 0 ELSE quoted[a]]
  /\ UNCHANGED <<row, cash, query, proc, old>>

Serve(r) == Check(r) \/ Deduct(r) \/ Create(r)
Batch(r) == \E q \in Queries : Search(r, q) \/ Unavailable(r, q)
Close(r) == Deadline(r) \/ Finish(r) \/ FinishRaises(r)
Settle(a) == Refund(a) \/ RefundUnavailable(a)
Next ==
  \/ \E r \in Discoveries : Serve(r) \/ Batch(r) \/ Close(r) \/ Age(r) \/ Reap(r)
  \/ \E c \in Clients : Ask(c)
  \/ \E a \in Actors : Settle(a)
  \/ \E p \in Procs : Restart(p)
Spec == Init /\ [][Next]_vars

(* The deadline is asyncio.wait_for's, the handler then runs to its end,   *)
(* and the sweep comes round.  No query need ever come back.  The loop     *)
(* takes its ready coroutines in turn: requests that keep coming between   *)
(* them (Ask) do not put off a batch that is over for ever.  A discovery   *)
(* has finitely many steps to make: that some one moves is enough.         *)
GoesOn(r) == Deduct(r) \/ Create(r) \/ Settle(r) \/ Age(r) \/ Reap(r)
Fairness ==
  /\ WF_vars(\E r \in Discoveries : GoesOn(r))
  /\ SF_vars(\E r \in Discoveries : Close(r))
  /\ \A c \in Clients : WF_vars(Settle(c))
FairSpec == Spec /\ Fairness

-----------------------------------------------------------------------------
(* No run gives back more than it took, whoever settles it and however     *)
(* often (refund_discovery_credits claims refunded_at), when one process   *)
(* serves the searches: two can both read the balance before either        *)
(* deducts, and the deduction stops at zero.                               *)
ReturnedWithinTaken ==
  (\A r, s \in Discoveries : proc[r] = proc[s]) =>
    \A r \in Discoveries : returned[r] <= taken[r]

(* Every settled run has kept the price of what it delivered: the queries  *)
(* that stored candidates or found none (discovery.py:49-53).              *)
SettledForDelivery ==
  \A r \in settled : Charge - refunded[r] = CostOf[Delivered(r)]

(* It does for every run that closed otherwise than by an outage, by the   *)
(* counters it closed with, however late the settlement comes.             *)
ClosedPaysDelivery ==
  \A r \in settled : status[r] \in {"completed", "partial"} =>
    Charge - refunded[r] = CostOf[Delivered(r)]

(* A search costs what it delivered and gives back no more than it took.   *)
PaidForDelivery == ClosedPaysDelivery /\ ReturnedWithinTaken

(* What the row says was given back is what the balance got back.          *)
RowMatchesBalance == \A r \in Discoveries : returned[r] = refunded[r]

(* A search that began is closed in the end, though a query never returns  *)
(* or its process dies.                                                    *)
RunningCloses == \A r \in Discoveries : status[r] = "running" ~> status[r] # "running"
=============================================================================
