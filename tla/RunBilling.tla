------------------------------ MODULE RunBilling ------------------------------
(***************************************************************************)
(* How a simulation is paid for: a signed quote, the charge at start and   *)
(* the reconciliation after the report.  A request is one POST to          *)
(* /simulations/{id}/start and, when the start wins, the engine spawned    *)
(* from it; what the engine does to the run's other state is the subject   *)
(* of SimulationLifecycle.  Costs and prices are in credits.               *)
(*                                                                         *)
(* Each step of a start is one database statement.  The handler does not   *)
(* await between them, so they interleave only across Procs, which has two *)
(* members while a deploy has the old and the new process alive.           *)
(***************************************************************************)
EXTENDS Naturals, FiniteSets

CONSTANTS
  Runs,       \* simulations rows, prepared and never started to begin with
  Quotes,     \* run_quotes rows that may be issued
  Requests,   \* start requests
  Procs,      \* API processes alive at the same time
  Depths,     \* the report depths; a price depends on the shape and on this
  PriceAt,    \* [Depths -> credits]: estimate_simulation_cost at one shape
  Standard,   \* the depth check_credit_budget prices, its default
  Costs,      \* what one attempt may really cost
  Funds,      \* organizations.credits_balance to begin with
  MaxDeaths,  \* bound: process deaths explored
  NoRun, NoQuote

ASSUME RunBillingAssumption ==
  /\ PriceAt \in [Depths -> Nat \ {0}]
  /\ Standard \in Depths
  /\ Costs \subseteq Nat
  /\ Funds \in Nat /\ MaxDeaths \in Nat
  /\ NoRun \notin Runs /\ NoQuote \notin Quotes
  /\ Procs # {}

VARIABLES
  balance,   \* organizations.credits_balance
  quoteState,   \* run_quotes: "none" before it is issued, "live", "expired"
  quoteDepth,   \* the depth it was priced at
  redeemedFor,  \* its simulation_id; set together with consumed_at
  status,    \* simulations.status
  ledger,    \* llm_usage summed over the run: every attempt under one id
  pc,        \* where each request, then its engine, stands
  runOf, quoteOf, proc, asked,  \* each request: what it starts, the quote it
             \* brings, the process that serves it, credits_to_charge
  charged,   \* history: what the starts of the run asked deduct_credits for
  taken,     \* history: what those deductions really removed
  topped,    \* history: what reconciliation asked for on top
  settled,   \* history: runs reconciled, and not attempted since
  deaths     \* process deaths so far

quotes == <<quoteState, quoteDepth, redeemedFor>>
args   == <<runOf, quoteOf, proc, asked>>
money  == <<charged, taken, topped, settled>>
vars   == <<balance, quotes, status, ledger, pc, args, money, deaths>>

StartableStatuses == {"ready", "complete", "failed"}

Handler  == {"load", "consume", "budget", "claim", "deduct", "spawn"}
Sync     == Handler \cup {"reconcile"}
Resting  == {"idle", "refused", "raised", "lost", "done"}
PCs      == Sync \cup Resting \cup {"run", "report"}
Claimed  == {"deduct", "spawn", "run"}     \* the run is theirs

(* Every variable keeps its type; the balance never goes below zero.       *)
TypeOK ==
  /\ balance \in Nat
  /\ quoteState \in [Quotes -> {"none", "live", "expired"}]
  /\ quoteDepth \in [Quotes -> Depths]
  /\ redeemedFor \in [Quotes -> Runs \cup {NoRun}]
  /\ status \in [Runs -> StartableStatuses \cup {"running"}]
  /\ ledger \in [Runs -> Nat]
  /\ pc \in [Requests -> PCs]
  /\ runOf \in [Requests -> Runs \cup {NoRun}]
  /\ quoteOf \in [Requests -> Quotes \cup {NoQuote}]
  /\ proc \in [Requests -> Procs]
  /\ asked \in [Requests -> Nat]
  /\ charged \in [Runs -> Nat] /\ taken \in [Runs -> Nat] /\ topped \in [Runs -> Nat]
  /\ settled \subseteq Runs
  /\ deaths \in 0..MaxDeaths

Init ==
  /\ balance = Funds
  /\ quoteState = [q \in Quotes |-> "none"]
  /\ quoteDepth = [q \in Quotes |-> Standard]
  /\ redeemedFor = [q \in Quotes |-> NoRun]
  /\ status = [k \in Runs |-> "ready"]
  /\ ledger = [k \in Runs |-> 0]
  /\ pc = [r \in Requests |-> "idle"]
  /\ runOf = [r \in Requests |-> NoRun]
  /\ quoteOf = [r \in Requests |-> NoQuote]
  /\ proc \in [Requests -> Procs]
  /\ asked = [r \in Requests |-> 0]
  /\ charged = [k \in Runs |-> 0] /\ taken = charged /\ topped = charged
  /\ settled = {}
  /\ deaths = 0

-----------------------------------------------------------------------------
At(r, here) ==
  /\ pc[r] = here
  /\ \A s \in Requests \ {r} : proc[s] = proc[r] => pc[s] \notin Sync
Goto(r, to) == pc' = [pc EXCEPT ![r] = to]

(* deduct_credits: GREATEST(0, balance - amount).                          *)
Less(amount) == IF balance >= amount THEN balance - amount ELSE 0

(* POST /billing/quote.  The balance is shown beside the price and nothing *)
(* is refused for it.                                                      *)
IssueQuote(q, d) ==
  /\ quoteState[q] = "none"
  /\ quoteState' = [quoteState EXCEPT ![q] = "live"]
  /\ quoteDepth' = [quoteDepth EXCEPT ![q] = d]
  /\ UNCHANGED <<redeemedFor, balance, status, ledger, pc, args, money, deaths>>

(* Thirty minutes later.                                                   *)
Expire(q) ==
  /\ quoteState[q] = "live"
  /\ quoteState' = [quoteState EXCEPT ![q] = "expired"]
  /\ UNCHANGED <<quoteDepth, redeemedFor, balance, status, ledger, pc, args, money, deaths>>

-----------------------------------------------------------------------------
(* The row is read and a running one refused; the statement that decides   *)
(* is the claim below.                                                     *)
StartRead(r, k, q) ==
  /\ At(r, "idle")
  /\ q # NoQuote => quoteState[q] # "none"
  /\ runOf' = [runOf EXCEPT ![r] = k]
  /\ quoteOf' = [quoteOf EXCEPT ![r] = q]
  /\ Goto(r, IF status[k] = "running" THEN "refused"
             ELSE IF q = NoQuote THEN "budget" ELSE "load")
  /\ UNCHANGED <<balance, quotes, status, ledger, proc, asked, money, deaths>>

(* load_quote and the shape check: agents, rounds, platforms and variants  *)
(* agree here, and the depth the quote was priced at is not compared.      *)
LoadQuote(r) ==
  /\ At(r, "load")
  /\ LET q == quoteOf[r] IN
     IF quoteState[q] = "live" /\ redeemedFor[q] = NoRun
     THEN /\ Goto(r, "consume")
          /\ asked' = [asked EXCEPT ![r] = PriceAt[quoteDepth[q]]]
     ELSE Goto(r, "refused") /\ UNCHANGED asked
  /\ UNCHANGED <<balance, quotes, status, ledger, runOf, quoteOf, proc, money, deaths>>

(* The redemption, a compare-and-set on consumed_at IS NULL.               *)
Consume_Blind(r) ==   \* mutant: the result of the update is discarded
  /\ At(r, "consume")
  /\ redeemedFor' = [redeemedFor EXCEPT ![quoteOf[r]] = runOf[r]]
  /\ Goto(r, "claim")
  /\ UNCHANGED <<balance, quoteState, quoteDepth, status, ledger, args, money, deaths>>
Consume(r) ==
  /\ At(r, "consume")
  /\ IF redeemedFor[quoteOf[r]] = NoRun
     THEN /\ redeemedFor' = [redeemedFor EXCEPT ![quoteOf[r]] = runOf[r]]
          /\ Goto(r, "claim")
     ELSE Goto(r, "refused") /\ UNCHANGED redeemedFor
  /\ UNCHANGED <<balance, quoteState, quoteDepth, status, ledger, args, money, deaths>>

(* Without a quote: check_credit_budget, which prices the default depth.   *)
CheckBudget(r) ==
  /\ At(r, "budget")
  /\ IF balance >= PriceAt[Standard]
     THEN /\ Goto(r, "claim")
          /\ asked' = [asked EXCEPT ![r] = PriceAt[Standard]]
     ELSE Goto(r, "refused") /\ UNCHANGED asked
  /\ UNCHANGED <<balance, quotes, status, ledger, runOf, quoteOf, proc, money, deaths>>

(* The single-use guard of the run: a compare-and-set to `running`.        *)
Claim(r) ==
  /\ At(r, "claim")
  /\ IF status[runOf[r]] \in StartableStatuses
     THEN /\ status' = [status EXCEPT ![runOf[r]] = "running"]
          /\ Goto(r, "deduct")
     ELSE Goto(r, "refused") /\ UNCHANGED status
  /\ UNCHANGED <<balance, quotes, ledger, args, money, deaths>>

Deduct_Refuses(r) ==   \* mutant: the balance is looked at after the claim
  /\ At(r, "deduct")
  /\ IF balance >= asked[r]
     THEN /\ balance' = balance - asked[r]
          /\ charged' = [charged EXCEPT ![runOf[r]] = @ + asked[r]]
          /\ taken' = [taken EXCEPT ![runOf[r]] = @ + asked[r]]
          /\ Goto(r, "spawn")
     ELSE Goto(r, "refused") /\ UNCHANGED <<balance, charged, taken>>
  /\ UNCHANGED <<quotes, status, ledger, args, topped, settled, deaths>>
Deduct(r) ==
  /\ At(r, "deduct")
  /\ balance' = Less(asked[r])
  /\ charged' = [charged EXCEPT ![runOf[r]] = @ + asked[r]]
  /\ taken' = [taken EXCEPT ![runOf[r]] = @ + (balance - balance')]
  /\ Goto(r, "spawn")
  /\ UNCHANGED <<quotes, status, ledger, args, topped, settled, deaths>>

Spawn(r) ==
  /\ At(r, "spawn")
  /\ Goto(r, "run")
  /\ UNCHANGED <<balance, quotes, status, ledger, args, money, deaths>>

(* A statement of the handler raises.  Whether it had reached the database *)
(* first is the choice between raising here and raising one step later.    *)
Raise(r) ==
  /\ pc[r] \in Handler /\ At(r, pc[r])
  /\ Goto(r, "raised")
  /\ UNCHANGED <<balance, quotes, status, ledger, args, money, deaths>>

-----------------------------------------------------------------------------
(* One engine attempt, its measured cost and how it ends.  The usage rows  *)
(* may be lost on the way to the ledger.  The run is startable again       *)
(* however it ended.                                                       *)
Attempt(r, c, kept) ==
  /\ At(r, "run")
  /\ ledger' = [ledger EXCEPT ![runOf[r]] = IF kept THEN @ + c ELSE @]
  /\ \/ /\ status' = [status EXCEPT ![runOf[r]] = "complete"]
        /\ Goto(r, "report")
     \/ /\ status' = [status EXCEPT ![runOf[r]] =
                        IF @ = "running" THEN "failed" ELSE @]
        /\ Goto(r, "done")
  /\ settled' = settled \ {runOf[r]}
  /\ UNCHANGED <<balance, quotes, args, charged, taken, topped, deaths>>

(* The report is awaited whether or not it could be written.               *)
Report(r) ==
  /\ At(r, "report")
  /\ Goto(r, "reconcile")
  /\ UNCHANGED <<balance, quotes, status, ledger, args, money, deaths>>

(* reconcile_run_cost: the run's ledger against the first quote that names *)
(* the run; a shortfall is charged, and a run no quote names is charged    *)
(* everything it cost.  An exception leaves the run as it is.              *)
QuotesOf(k) == {q \in Quotes : redeemedFor[q] = k}
Shortfall_Absorbed(k, q) == 0   \* mutant: an underestimate is not charged
Shortfall(k, q) ==
  IF ledger[k] > PriceAt[quoteDepth[q]] THEN ledger[k] - PriceAt[quoteDepth[q]] ELSE 0
Bill(k, amount) ==
  /\ balance' = Less(amount)
  /\ topped' = [topped EXCEPT ![k] = @ + amount]
  /\ settled' = settled \cup {k}
Reconcile(r) ==
  /\ At(r, "reconcile")
  /\ Goto(r, "done")
  /\ LET k == runOf[r] IN
     \/ /\ ledger[k] > 0
        /\ IF QuotesOf(k) = {} THEN Bill(k, ledger[k])
           ELSE \E q \in QuotesOf(k) : Bill(k, Shortfall(k, q))
     \/ UNCHANGED <<balance, topped, settled>>     \* no rows, or it raised
  /\ UNCHANGED <<quotes, status, ledger, args, charged, taken, deaths>>

-----------------------------------------------------------------------------
(* The reaper closes a `running` row nobody works on any more, ninety      *)
(* minutes after its claim.                                                *)
Abandoned(k) == \A r \in Requests : runOf[r] = k => pc[r] \notin Claimed
Reap(k) ==
  /\ status[k] = "running" /\ Abandoned(k)
  /\ status' = [status EXCEPT ![k] = "failed"]
  /\ UNCHANGED <<balance, quotes, ledger, pc, args, money, deaths>>

Restart(p) ==
  /\ deaths < MaxDeaths
  /\ deaths' = deaths + 1
  /\ pc' = [r \in Requests |-> IF proc[r] = p /\ pc[r] \notin Resting
                               THEN "lost" ELSE pc[r]]
  /\ UNCHANGED <<balance, quotes, status, ledger, args, money>>

Start(r) ==
  \/ \E k \in Runs, q \in Quotes \cup {NoQuote} : StartRead(r, k, q)
  \/ LoadQuote(r) \/ Consume(r) \/ CheckBudget(r) \/ Claim(r) \/ Deduct(r)
  \/ Spawn(r) \/ Raise(r)
Engine(r) ==
  \/ \E c \in Costs, kept \in BOOLEAN : Attempt(r, c, kept)
  \/ Report(r) \/ Reconcile(r)

Next ==
  \/ \E q \in Quotes : Expire(q) \/ \E d \in Depths : IssueQuote(q, d)
  \/ \E r \in Requests : Start(r) \/ Engine(r)
  \/ \E k \in Runs : Reap(k)
  \/ \E p \in Procs : Restart(p)

Spec == Init /\ [][Next]_vars

-----------------------------------------------------------------------------
(* consume_quote: "a quote is single-use, or one cheap quote could fund    *)
(* unlimited runs".  However two processes interleave two starts, at most  *)
(* one of them is charged under a quote and goes on to an engine.          *)
Started(r) == pc[r] \in {"spawn", "run", "report", "reconcile", "done"}
QuoteFundsOneStart ==
  \A r, s \in Requests :
    Started(r) /\ Started(s) /\ quoteOf[r] = quoteOf[s] /\ quoteOf[r] # NoQuote
      => r = s

(* start_simulation: no refusal leaves a run claimed and unstarted.  A row *)
(* is `running` only while a start or an engine holds it, or after one of  *)
(* them raised or died.                                                    *)
RunningIsHeld ==
  \A k \in Runs : status[k] = "running" =>
    \E r \in Requests : runOf[r] = k /\ pc[r] \in Claimed \cup {"raised", "lost"}

(* reconcile_run_cost charges a shortfall rather than absorbing it: what   *)
(* was asked for a reconciled run covers what it cost to serve, all its    *)
(* attempts included, until it is tried again.  This is for runs quoted    *)
(* at the default depth: a dearer quote names the run from its redemption  *)
(* on, even when its start was refused after it.                           *)
SettledIsCovered ==
  \A k \in settled :
    (\A q \in QuotesOf(k) : quoteDepth[q] = Standard)
      => charged[k] + topped[k] >= ledger[k]

(* The other side of the same sentence: reconciliation asks only for what  *)
(* the starts of the run did not already ask for.                          *)
NeverOverbilled ==
  \A k \in Runs :
    topped[k] <= (IF ledger[k] > charged[k] THEN ledger[k] - charged[k] ELSE 0)

(* Charged at start, so that one run's worth of credits starts one run.    *)
(* When one process serves every request and no start of the run brought a *)
(* quote, deduct_credits removed all it was asked to: the 402, the claim   *)
(* and the deduction are one turn of the loop, and no engine's late        *)
(* reconciliation falls between them.  (A quote is not held to the balance.)*)
PaidInFull ==
  (\A r, s \in Requests : proc[r] = proc[s]) =>
    \A k \in Runs :
      (\A r \in Requests : runOf[r] = k => quoteOf[r] = NoQuote) => taken[k] = charged[k]

(* A start that went through holds its row and was paid for.               *)
StartsHold == RunningIsHeld /\ PaidInFull
=============================================================================
