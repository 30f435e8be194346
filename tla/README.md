# Saibyl: a TLA+ model of the backend

Saibyl lets a founder rehearse a launch: a *simulation* fills a room with generated people, runs
them over a few rounds, and a *report* is written of what happened. Around it the founder buys
artifacts (website checks, page revisions, answer packs, trademark searches, investor shortlists,
go-to-market discoveries) out of one balance of credits. This directory models what is hard to get
right and hard to test: who may write a row and when, what happens to a row and to the money when a
process dies, a call comes twice or two requests race, whether everything that begins also ends;
and, of the pipelines that end in a sentence on the founder's screen, what code keeps of a model's
answer and whether what it then claims follows from what it was given.

Paths below are relative to `src/backend/app/` unless they start with `src/`.

## 1. How the system runs

There is one FastAPI process on one asyncio loop. Everything durable is a row in Supabase
(Postgres), reached through a **synchronous** client: a handler or task that does not `await`
between two statements is not interleaved with other coroutines of its process, but two processes
are, statement by statement. During a deploy the old and the new process are alive together. Long
work is `core/tasks.py:spawn`: an asyncio task with an `on_failure` handler. There is no queue: a
task dies with its process, and nothing restarts it. Instead the *reaper*
(`services/maintenance/reaper.py`, at startup and every 300 s) closes rows that stayed in an
in-flight status longer than the rule for their table allows, and may refund them.

```
 founder ──HTTP──▶ api/*  ──compare-and-set──▶ rows (Supabase)  ◀──close, refund── reaper (300 s)
                     │  └─deduct_credits RPC─▶ organizations.credits_balance ◀─┐
                     └─spawn──▶ workers/* ──writes, refund_credits RPC─────────┤
                                  ▲  model calls, browser, search (await)      │
                    Redis stop key┘                   Stripe ──webhook──▶ api/billing
```

### Inventory

| Component | State | Operations | Hard behaviour | Correct when |
|---|---|---|---|---|
| Simulation lifecycle (`api/simulations.py`, `workers/simulation_tasks.py`) | `simulations.status`, `updated_at`; `simulation_agents`, `simulation_events`; Redis key `simulation:<id>:stop` | prepare, start, stop; preparation task, engine task, `on_failure`, reaper | duplicate clicks, stop and restart of a run whose engine is mid-round, process death, a sweep closing by the status it read | one worker per row, one room per run, a finished row stays finished, nothing in flight for ever |
| Run billing (`services/billing/run_quote.py`, `workers/analysis_tasks.py`, `api/simulations.py:785-996`) | `run_quotes`, `credits_balance`, `llm_usage`, the run's status | issue, expire, redeem; budget check, claim, deduct, spawn; reconcile | check-then-deduct, one quote for two starts, a failing statement between claim and spawn, several attempts under one run id | a quote funds one start; a run is charged what it cost, once |
| Paid artifacts (six tables: `website_snapshots`, `page_revisions`, `answer_packs`, `messaging_docs`/`outbound_sequences`, `clearance_runs`, `capital_shortlists`) | the row's status, `credits_charged`, balance | create (check, deduct, insert, spawn), worker, failure handlers, reaper close and refund | worker racing the reaper, an UPDATE that raised after it landed, death between close and refund | repaid at most once and only when nothing was spent; every row ends |
| Reports (`api/reports.py`, `services/intelligence/report_agent.py`, `workers/report_tasks.py`) | `reports`, `report_sections` | generate, outline, sections in parallel, conclusion, finish, failure handler, delete, reaper | double click, a handler that picks the newest row, `gather` that leaves siblings running, hung model calls | one write-up in flight; a finished one is complete and stays |
| Credit top-ups (`services/billing/stripe_service.py`, `topups.py`, `api/billing.py`, `src/backend/scripts/migrations/031_credit_topups.sql`) | `credit_topups`, `organizations.stripe_customer_id`, Stripe's session | checkout, mint a customer, webhook, `apply_credit_topup` | duplicate, late and lost deliveries; payment before the row; a customer id of another account; a rate change | credited once, as offered, and in the end |
| GTM discovery (`services/gtm/discovery.py`, `store.py`, `api/gtm.py`) | `gtm_discovery_runs` with counters and `refunded_at`, balance | charge, create, parallel queries, deadline, outage, close, settle, replayed settlement, reaper | partial results, two settlers, deadline, outage with siblings still storing | paid for what was delivered, given back once |
| Usage ledger, LLM client (`services/billing/usage_ledger.py`, `core/llm_client.py`) | an in-memory list, `llm_usage` | answer, structured retries, buffer, flush, cap, close | an insert that raises after it landed, an outage longer than the cap | no row lost unreported or inserted twice unknowingly |
| Pricing (`services/billing/agent_pricing.py`, `model_pricing.py`) | none | price of a shape, report depth, smaller run on offer | rounding per stage, thresholds of depth | more never costs less |
| Accounts (`api/auth.py`, `core/rate_limit.py`, `api/organizations.py`, `api/admin.py`) | `organizations`, `organization_members`, sessions, Redis counters | sign-up, in, out, reset, create, grant; the attempt limiter | INCR and EXPIRE apart, statements that raise half-way, a shared auth client | no window lets through more than its limit; nobody ends another's session |
| Documents (`api/documents.py`, `services/ingestion/pipeline.py`, `services/engine/*_processor.py`) | `documents`, the bucket, the storage quota | upload, idea brief, read, classify, relabel, delete, reaper | a delete between a task's two awaits, a restart | a complete row has its text; every upload ends |
| ICP synthesis and packs (`services/engine/personas/*`, `api/icp.py`, `api/personas.py`) | `icp_profiles`, `persona_packs`, `custom_persona_packs`, balance | gather material, synthesize, ground rivals, store, promote, edit, delete | labels change during the model call; names collide with built-in ids | a rival is named on the founder's evidence; a listed pack resolves |
| Casting (`workers/simulation_tasks.py:58-330`, `icp_synthesizer.py`) | none | apportion seats, share material, deal adversaries | rounding in small rooms | nobody starves, sums are exact |
| Rounds and platforms (`workers/simulation_tasks.py`, `services/platforms/*`) | adapter state, `simulation_events` | arenas, turns, verbs, chunked insert, linking | adapter ids against row ids, a chunk whose ids did not come back | a reply hangs from the post it names |
| Re-simulation, inoculation, follow-up, room runs (`api/inoculation.py`, `services/intelligence/inoculation.py`, `services/engine/followup.py`, `services/website/room_run.py`) | `simulations`, variants, `inoculation_assets`, `inoculation_results`, `followup_sends` | create, configure, draft, edit, clone, start, compare, delete, mail | deleting or rebuilding what others are compared with | a comparison keeps its before |
| Analysis and measurement (`workers/analysis_tasks.py`, `services/intelligence/*`) | measured events, `canonical_objections`, `simulation_analysis` | measure, group, replace, publish, rebuild; intervals, trend, scoreboard | phrasings claimed twice, one voice per round, ties | nobody is counted twice, nothing is overclaimed |
| Page checks: browser, graders, rewriting (`services/website/*`) | a semaphore, rounds of drafts | capture, count, taste, machine view; write, scan claims, judge, choose | cancelled and wedged captures; unread parts; a higher mean bought with an invented badge | slots come back; a page cannot be deleted into a better one; no judged round was better |
| GTM documents (`services/gtm/*`) | none of its own | answer pack, messaging document, sequences | figures and names of a model's answer | the room sets no price |
| Clearance search (`services/clearance/*`) | query plan, screened records, artifact | plan, query, retry, sweeps, deep read, compose | zero counts, narrowed queries, private filers | open ground is empty, live art is read first |
| Capital bank (`services/capital/*`) | the bank, curation runs | names, sites, verify, expire, match | evidence kept for months | a shortlist says what firms said |

What has no model is listed with its reason in section 7 and in `PROJECT.json`.

## 2. The modules

| Module | Models | Extends / uses |
|---|---|---|
| `SimulationLifecycle` | one `simulations` row and all who write it | |
| `RoundEngine`, `PlatformAdapters` | the inside of a round; the verbs of the twelve platforms | |
| `RoomCasting` | the arithmetic of seats, shares and adversaries | |
| `AudienceSynthesis` | uploads to profiles to packs | |
| `Resimulation` | creation, variants, inoculation, re-runs, deletion, follow-ups | |
| `RunAnalysis`, `MeasuredOpinion` | objections of a finished run; headline and scoreboard | |
| **`MCSimulation`** | hosts the above for TLC | extends `SimulationLifecycle` |
| `RunBilling`, `MCRunBilling` | quotes, the charge at start, reconciliation | |
| `Pricing` | the price formulas behind `PriceAt` | |
| `UsageLedger` | the metering buffer | |
| `Accounts` | sign-in, limiter, organizations, grants | |
| `ClearanceSearch`, `CapitalCuration`, `GtmDocuments` | the paid searches and documents, inside | |
| `PageVerdicts`, `PageRewriting` | graders that ask no model; the rewriting loop | |
| **`MCOrganization`** | hosts those from `RunBilling` on | extends `MCRunBilling` |
| `ReportWriting` | write-ups of one simulation | |
| `DocumentIngestion`, `PageCapture` | uploads; browser slots | |
| **`MCUnattended`** | hosts those three | extends `ReportWriting` |
| `Settlement` | the abstract contract of every paid artifact | |
| `PaidRows` | what all charge-at-create families share: purse, row, event loop, sweep, death | |
| `WebsiteCheck` | website checks, down to each write | `PaidRows`, implements `Settlement` |
| `PageRevision`, `BuiltArtifact`, `Clearance`, `CapitalShortlist` | the workers of the other families | `PaidRows` |
| `PaidArtifacts` | those four families together on one balance, one loop, one sweep | the four above; implements `Settlement` |
| **`MCPaidArtifacts`** | hosts those and website checks | extends `PaidArtifacts`, uses `WebsiteCheck` |
| `CreditTopup` | top-up checkout and webhook | |
| `GtmDiscovery` | discoveries on one balance | |
| **`MCGtmDiscovery`** | hosts those two | extends `GtmDiscovery`, uses `CreditTopup` |
| `Simulation_proofs`, `Organization_proofs`, `Unattended_proofs` | the theorems of section 5 about the three hosts and the modules they compose | the MC module, TLAPS |
| `RoomCasting_proofs` | folds, orders and totals over finite sets, and the theorem about `RoomCasting` | `MCSimulation`, TLAPS; `Simulation_proofs` builds on it |
| `X_proofs` for `WebsiteCheck`, `PaidArtifacts`, `GtmDiscovery` | the theorems of section 5 about one module | the module, TLAPS |
| `CreditTopup_proofs` | the same about `CreditTopup`, in the names of its host | `MCGtmDiscovery`, TLAPS |

The parts of a host hand each other finished rows and share no step: the engine never runs while the
audience is synthesized, a shortlist never meets a password. A behaviour of a host is therefore one
part alone (`part` is chosen in `MCInit`, the others stand still), which explores each part
completely and their product not at all.

Conventions shared by all of them:

* **A step is at most one database statement**, or the stretch between two awaits where splitting
  it makes no difference to anybody. `pc[x]` says which statement a handler or task executes next.
* **The event loop** is `LoopFree`: a coroutine moves only while every other coroutine of its
  process stands at an await. `Procs` with two members is the deploy overlap; two processes
  interleave freely.
* **A compare-and-set** (`UPDATE … WHERE status IN …`) writes or matches nothing; the code that
  reads its result branches, the code that does not goes on. Both shapes are in the models where
  they are in the code (`WriteIf`, `PutIf` against `Write`, `Put`).
* **A statement that raises** may have reached the database or not: two disjuncts.
* **`deduct_credits`** floors at zero and reports nothing (migration 018): `Less`, `Floored`.
* **History variables** (`taken`, `charged`, `returned`, `received`, `spent`, `phantoms`) record
  what no single column of the database says; no guard reads them.
* Definitions such as `Upload_ById` or `ReapedStates_None`, marked `mutant`, are plausible bugs. No
  specification uses them. Substituted for the definition they are named after they must break a
  property, which is how each property was tested for having teeth.

### Correspondence

*SimulationLifecycle.* `PrepareClaim`, `StartRead`/`StartClaim`/`StartDeduct`,
`StopSignal`/`StopWrite` are the three routes; `PrepareBegin … PrepareReady` is
`run_prepare_agents`; `EngineBegin … EngineTail` is `run_simulation`; `TaskRaises` and `OnFailure`
are an exception leaving a task and `_mark_simulation_failed`; `ReaperRead`/`ReaperClose` are
`sweep_once` on this table; `Restart` is a process death; `FlagExpires` the Redis TTL. `swarm[p]` is
the number of insert batches of preparation `p` now in `simulation_agents`, so a half-written or
mixed room is visible; `posted` says whose people events refer to, which the foreign key and the
two checks in the preparation depend on. `stale` is "`updated_at` is before the cutoff" and is
reset by every write, as the `set_updated_at` trigger does.

*RunBilling.* One request is one `POST /simulations/{id}/start`: `StartRead`, then either
`LoadQuote`, `Consume` or `CheckBudget`, then `Claim`, `Deduct`, `Spawn`; a winning start becomes
an engine (`Attempt`, `Report`, `Reconcile`). `Attempt` is the whole of a run as billing sees it: a
measured cost, rows that reach the ledger or not, success or failure. The price formula is a
constant function of report depth; everything else about the shape of a run is compared when a
quote is loaded and is the same for all requests here.

*PaidRows and its families.* `Afford`, `Deduct`, `Insert` are the create handler; each family adds
its worker and the statuses its reaper rule watches and repays. `WebsiteCheck` and `PageRevision`
use guarded writes whose result is read; `BuiltArtifact` (three tables, one shape) and `Clearance`
write by id; `CapitalShortlist` does everything inside one request. `PaidArtifacts` gives every job
a kind and lets them share balance, processes and sweeps. `Settlement` says what the founder is
promised: charged once, ends delivered or closed for good, repaid at most once, only when closed
and only if no model was ever called.

*ReportWriting.* A writer is a click on "Write it up again" or the run's own report. A row carries
the name of its writer, which the table does not; the failure handler therefore finds its row the
way the code does, as the newest of the simulation. `working` is the set of section coroutines still
running after `gather` has raised.

*CreditTopup.* A customer id, a session and a webhook signature are named by the Stripe account they
belong to. `Deliver` is one delivery of the event with the signature check, the claim of the row in
`apply_credit_topup`, and the answer arriving or getting lost; `Deploy` replaces process, keys and
rate. Stripe itself is external and modelled from how the code uses it.

*GtmDiscovery.* A discovery runs inside its request; `Search`, `Unavailable`, `Deadline` are the
batch, `Finish` the terminal write, `Refund` the RPC of migration 028 that claims `refunded_at` and
credits the balance in one transaction; `Ask` is the replayed settlement by a client.

*RoundEngine.* An arena is one platform under one variant. `Answer` is one agent's turn through
`_decide_action`, `Gather` the end of a round, `WriteChunk`/`InsertRaises` the batched insert with
or without ids coming back, `LinkParent` the second pass that points replies at rows.
`PlatformAdapters` is a table: for each platform its verbs, the event each emits, what it must name,
its weight in the feed and how the feed is ordered.

*AudienceSynthesis.* A synthesis is inline in its request: `Gather` reads the labelled uploads,
`Returned` is the model's answer, `Store` writes profile and packs one after the other, and uploads
are relabelled in between. `GetPack` is the resolution order of `pack_loader.get_pack`.

*RoomCasting, Pricing, MeasuredOpinion, PageVerdicts, GtmDocuments.* Computations: `Init` chooses an
input the program can be given, one step computes the code's answer, the invariant compares it with
an independent statement of what the answer must be.

*Resimulation.* A run is made, started and finished in one step each (its own life is
`SimulationLifecycle`); handlers without an await are one action, a draft is two (`AskDraft`,
`Drafted`) because the model is awaited in between. A finished run may be started again, and a
failed one prepared again, a re-simulation too.

*RunAnalysis.* `Measure` writes measurements once per event, `Load`/`Group`/`Clear`/`Insert`/
`Publish` are `build_simulation_analysis` down to each statement; `Rebuild` is the route.

*UsageLedger.* `Flush` has three outcomes: inserted, refused, and written although it raised. A row
is the number of its call. *Accounts.* `at` says which statement each process executes next;
`Count` and `Expire` are the limiter's two Redis commands, `InsertOrg`/`Fund`/`LinkOwner` the
statements of a sign-up, `Dies` a process death between any two.

*ClearanceSearch, CapitalCuration.* The provider is a set of records; queries fail, die and are
retried as the clients do it, and every count the artifact is built from is the count of a query
that was really sent. *PageRewriting.* A draft is its claims; scores take a few values on both sides
of every line the loop draws.

*DocumentIngestion, PageCapture.* The ingest task with its two awaits beside delete, relabel,
restart and the sweep; the semaphore with queue timeout, deadline, cancellation and a browser that
never answers the cancellation.

## 3. What each run checks

Six runs pass. Several properties are conjunctions of what the modules state one by one; the table
after this one names the parts.

| Run | Module, bounds | Shows |
|---|---|---|
| `RunExclusive` | `MCSimulation`. Lifecycle: 2 prepares, 2 starts, 1 process, 2 batches, 2 rounds, 1 restart, no Stop, no overrun | `WorkerOwnsRow`: the claims give the row exactly one worker, and the status names its phase. `FinishedStaysFinished`: only a claim of the founder moves a finished row. With Stop or with work outlasting 90 minutes both are false in the code (section 6). `SweepSparesTheLiving`: a row that rested for days and is claimed between two sweeps is not closed under its new task; what the sweep closes has no task left. |
| | Rounds: 10 platforms, 2 arenas of 1 agent, 2 rounds, chunks of 1 | `RepliesHangFromTheirPost` |
| | Audience: 2 uploads of which 1 can be funded, 2 segments, 1 synthesis | `PacksHold` |
| | Casting: up to 7 seats over 4 parts | `DealtFairly` |
| | Re-simulation: 2 runs, 1 asset, 1 edit, 2 variants | `BeforeIsKept` |
| | Analysis: 3 people, 3 phrasings, a parent's key, 1 rebuild | `EachPhrasingOnce` |
| | Opinion: 3 people over 2 rounds; crowds around the threshold of 10 pairs | `NothingOverclaimed` |
| `RunRoom` | `SimulationLifecycle`; 2 prepares, 1 start, 1 stop, 1 restart, overrun | `OneRoom`: the agents of a run are of one preparation and so is what is stored of them. `InFlightCloses` under fairness. |
| `RunBilling` | `MCOrganization`. Billing: 2 runs, 1 quote at either of 2 depths, 2 requests, 2 processes, costs 1 and 3 around prices 2 and 3, balance 4, 1 death | `QuoteFundsOneStart`; `StartsHold`; `SettledIsCovered`: what a reconciled run was asked for covers all its attempts |
| | Prices: 3 sizes, 3 lengths, 1, 2 or 8 variants, 3 depths, 4 balances | `MoreCostsMore` |
| | People: 2 people, 2 processes, 1 organization, 1 attempt per window and 1 waved through | `LimitHolds`, `OnlyOwnSessionEnds` |
| | Calls: threshold 2, cap 4, 9 answers, 2 retries | `RowsAccountedFor` |
| | Search: 2 plans, any set of 4 filings, 2 attempts, ceiling 2 | `ArtifactHolds` |
| | Curation: 2 queries, 2 names, firms with every subset of 6 pieces of evidence, 3 founders | `ShortlistHolds` |
| | Documents: 3 kinds over the runs they may be asked of | `RoomSetsNoPrice` |
| | Pages: a plain page, each page that differs in one feature and one of several lapses, each with at most one step of its reading missing, against rewritings that leave things out; 2 rounds of rewriting | `DeletionIsGivenUp`, `NoRoundWasBetter` |
| `RunArtifacts` | `MCPaidArtifacts`; 2 jobs of 7 pairs of kinds, 2 processes, 1 death, free tier of 1 | `PurseHolds`, `Settles` (refinement of `Settlement`), `RowCloses` |
| | Website checks: 2 checks, 2 processes, balance for one and a half, overrun, 1 death | the same three: to the purse and in the contract a check is what a revision is, `judging` where that is `generating` |
| `RunReport` | `MCUnattended`. Reports: 1 click and the run's own writer, 2 sections, 2 processes, 1 death, 1 deletion, with the index of migration 043 | `WriteUpsHold`, `CompleteStays`, `WriteUpsEnd` |
| | Uploads: 1 deck or document, quota of 1 file | `CompleteHasText`, `UploadEnds` |
| | Captures: 2 requests for 1 slot | `SlotsReturned` |
| `RunDiscovery` | `MCGtmDiscovery`; 2 discoveries of 2 queries, 1 client, 2 processes, outages, 1 death or raised close | `RowMatchesBalance`, `PaidForDelivery`, `RunningCloses` |
| | Top-ups: 2 checkouts, 2 processes, 2 accounts, 2 rates, 1 deploy | `AckedIsCredited`, `CreditedAsOffered`, `PaidIsCredited` |
| `RunTwoEngines` | 1 prepare, 2 starts, 1 stop | **violated**: `OneEngine` (finding 1) |
| `RunChargedTwice` | 1 run, no quote | **violated**: `NeverOverbilled` (finding 2) |
| `RunReportLoser` | 2 clicks, 1 process, index in place | **violated**: `OnlyItsWriterFails` (finding 3) |
| `RunDiscoveryOutage` | 1 discovery, 2 queries, outages | **violated**: `SettledForDelivery` (finding 4) |
| `RunSweepRace` | 2 prepares, 1 start, 2 processes, 1 restart | **violated**: `ReaperClosesOnlyStale` (finding 5) |
| `RunFoundUnread` | `PageVerdicts` alone, the pages of `RunBilling` | **violated**: `FoundIsNotGivenUp` (finding 6) |

| Property | is | |
|---|---|---|
| `PacksHold` | `LibraryIdsResolve` ∧ `NamedIsLicensed` | a listed pack is found under its id; an adversary names a rival only on documents labelled so when they were read |
| `DealtFairly` | `EverySeatFilled` ∧ `NoSourceStarved` ∧ `CohortReachesAll` | seats, reading budget and adversaries |
| `NothingOverclaimed` | `NoTrendFromOneVoice` ∧ `WinnerConvertsMore` | |
| `StartsHold` | `RunningIsHeld` ∧ `PaidInFull` | a refusal never leaves a run claimed; an unquoted start took its whole price |
| `ArtifactHolds` | `OpenGroundIsEmpty` ∧ `LiveIsReadFirst` ∧ `NothingPersonalKept` | |
| `ShortlistHolds` | `NothingGuessed` ∧ `NeverAgainstItsWord` | |
| `PurseHolds` | `PaidInFull` ∧ `QuickCapped` ∧ `RefundedUnspent` | |
| `WriteUpsHold` | `OneInFlight` ∧ `NothingPending` ∧ `NothingHidden` | |
| `WriteUpsEnd` | `InFlightCloses` ∧ `StartedIsAnswered` | |
| `DeletionIsGivenUp` | | a rewriting left without a picture, a heading and anything to press is given up by the loop whatever else it puts right; of a page without a fault not one of them can be left out |
| `PaidForDelivery` | `ClosedPaysDelivery` ∧ `ReturnedWithinTaken` | |

Where types matter they are part of a proof (section 5) rather than of a run.

`CHECK_DEADLOCK FALSE` is in every configuration because the systems may really stop: all clicks
are made, all tasks are over, nothing is in flight.

### Bounds, and why they are enough

* **Two of each contender.** The races are between two coroutines (two clicks, two starts, worker
  and reaper, two settlers) over one row or one balance. A third contender loses against the same
  guards. For the properties proved in section 5 the number does not matter.
* **Two processes** is what a deploy produces. The lifecycle in `RunExclusive` and `RunRoom` uses one, because its
  properties are about one loop; the code does not claim them for two.
* **One price for all jobs of a run** in `PaidRows`: two jobs then compete for the same amount and
  `Funds = 3` against `Price = 2` makes every second one short. `RunBilling` has two prices because
  the depth of a quote matters there; costs lie below, between and at them.
* **Ten platforms of twelve** in `RunExclusive`: `threads` has the table of `twitter_x` and
  `hacker_news` the shape of `reddit`, so a round on either is a round on its twin.
* **What is alike is fixed or folded.** Processes differ only in whom they serve, so `Placed` (and
  `Fixed` in `MCUnattended`) gives one actor of `RunBilling`, `RunArtifacts`, `RunDiscovery` and
  `RunReport` its process and leaves the other actors both; of two like discoveries it is the first
  that shares the client's process when one does. `Alike` is the symmetry of the two runs of
  `RunBilling` and of the two processes that answer sign-ups; that run checks no liveness.
* **Pairs of kinds** in `RunArtifacts`: jobs meet only in the balance, the loop and the sweep, so
  every kind is put beside others, and beside itself where its rule counts rows (the free searches)
  or its sweep may hold two of a kind.
* **Small worlds for computations.** The inputs lie on both sides of every line the code draws: 7
  seats over 4 parts leave remainders of every size, 9 answers fill a buffer of threshold 2 and cap 4
  through two failed inserts, crowds lie below, at and above 10 pairs, `AgentCounts`, `RoundCounts`
  and `VariantCounts` are compared with their successors, pages differ from a plain one in one
  feature because the graders judge features one by one; `MostUnread` (1) is how many steps of a
  capture fail. `MostWaved` (1) is how often Redis is away while somebody signs out: those attempts
  pass uncounted, and `LimitHolds` allows for exactly them. The slots and limits (`Slots`,
  `MostTries`) are 1, so that the second contender always meets them; their proofs hold for any.
* **Two batches, two rounds, two sections, two queries** are the smallest numbers for which
  something can happen in the middle. `RunRoom` uses one round: rooms are mixed by batches.
* **`MaxDeaths`, `MaxRestarts`, `MaxDeploys`, `MaxDeletes` = 1** bound how often the environment
  interferes. A death is possible at every step; a second one meets the same rows in flight, with
  the same sweep as the only thing left to close them. In `GtmDiscovery` a raised close counts
  against the same bound.
* **`Overrun`** says whether live work may outlast the reaper's deadline. The deadlines in
  `reaper.py` are set above the sum of the timeouts of the work they watch; `Overrun = TRUE` checks
  what happens when that arithmetic fails. Properties that survive it are checked with it.
* `Age` and the like replace clocks: a row may become stale at any time after it was written, which
  contains every real schedule.

## 4. Fairness

Liveness is checked only under what the scheduling justifies.

* Weak fairness of a handler's or task's next step: asyncio runs every runnable coroutine, and a
  synchronous handler runs to its end. In `ReportWriting` model calls get **no** fairness (the
  outline and the sections are awaited without a timeout) and the reaper has to make up for it. In
  `GtmDiscovery` queries get none either; the deadline of `asyncio.wait_for` does, as part of
  `Close`.
* Weak fairness of reading, repaying, ageing: sweeps recur every 300 s and time passes. In
  `SimulationLifecycle` a round or a generation is allowed to finish (`Progress`), with failures
  always possible.
* Strong fairness of a sweep's closing something (`Reaches`) in `WebsiteCheck` and `PaidArtifacts`:
  `ReaperCloseRaises` disables it for the current sweep and the next sweep enables it again; the
  database does not refuse every UPDATE for ever.
* Strong fairness of some `Close` in `GtmDiscovery`: clients may ask for settlements without end, and
  each one occupies the loop for a moment; the loop's ready queue is first in, first out.
* Weak fairness of the sweep alone in `DocumentIngestion`: extraction may hang or die, the reaper's
  rule for `processing` ends it. Weak fairness of a capture's next step in `PageCapture`, whose every
  wait has a deadline.
* Stripe redelivers until it has seen a 200: weak fairness of some delivery of each event.
  `PaidIsCredited` further supposes that in the end some process stays on the keys of the account
  the session was opened on; without it nobody can verify the signature.
* Clicks, exceptions, deaths, deploys, deletions and outages are never owed.

## 5. What is proved

TLAPS checks every theorem for all values of the constants that satisfy the named assumptions
(`ClicksAssumption`, `BoundsAssumption`, `PaidRowsAssumption`, `RunBillingAssumption`,
`ReportAssumption`, `DiscoveryAssumption`, `SaidAssumption`, `NamesAssumption`, `ValuesAssumption`,
and the hypotheses a theorem states itself), which ask only that bounds are naturals, sets of actors
finite, prices positive and no smaller for more, ids distinct, that some process exists and that
nobody in a room is both a buyer and built to argue. TLC evaluates the assumptions in the passing
runs. Where a theorem supposes more, it is said below.

### One simulation: `Simulation_proofs`

* `TypeCorrect`. `TypeOK` is not inductive: nothing in it says that a preparation still inserting
  has a batch left, or an engine in a round a round left. `LoopBounds` adds that.
* `ExclusiveWorker` proves `WorkerOwnsRow` under `Quiet` (one process, no Stop, no overrun) for any
  number of clicks, batches, rounds and restarts. `ExInv` adds which places a click can stand at
  (`Kinds`), that tasks about to run their failure handler count as busy too (`OneBusy`), and that a
  stale row or a sweep holding a status means nobody is busy (`SweptIdle`), without which a sweep
  could close a row under a live worker. Three lemmas carry the steps: the one busy task moves
  (`BusyStep`), a claim makes one busy when the status shows nobody is (`ClaimStep`), anybody else
  moves (`IdleStep`).
* `EndedRunIsLeftAlone` proves `FinishedStaysFinished` from `ExInv`: an ended row has nobody busy,
  so the only steps left that write the status are claims.
* `SweepTakesFromNobody` proves `SweepSparesTheLiving` for one process and no overrun, Stop and any
  number of clicks allowed. `AgedIsIdle` says that nobody works on an aged row: whoever begins has
  written it, and a write makes it young (`AgedStep`); `SweepHoldsStale` that what a sweep has read
  is still so when it closes.
* `RoomsAreNeverMixed` proves `OneRoom` for one process and nothing else assumed. `RoomInv` adds
  that while a preparation inserts the room holds only its own people (`Fills`) and that people who
  posted are still in the room (`PostersStay`), which the foreign key and the checks before the
  delete keep.
* `BeforesStay` proves `BeforeIsKept` for any number of runs, assets and edits. `KeptInv` adds that
  ids are not used again (`Fresh`), and that a completed run has spoken and a run that spoke has
  people (`Lived`): `Prepare` refuses a room that spoke, `DeleteRun` a run with descendants, and
  nothing else touches either.
* `ThreadsAreRight` proves `RepliesHangFromTheirPost` for any arenas, speakers, rounds and chunk
  size. The property speaks of the table; `RoundInv` speaks of everything on its way there. Events
  keep the order they were said in through the arenas, the queue and the chunks (`Order`,
  `Voiced`), so a reply's post is written no later than the reply; the index is exactly the posts
  whose rows came back (`Threaded`), and a link not yet made is of the round being written
  (`Waiting`).
* `ClaimsAreModest` proves `NothingOverclaimed` for a finite room and `MinPaired >= 4` (the code has
  10). Two bands that span the scale are never apart; and the paired test cannot pass with a lead of
  one or two: `LeadOfThree` is the arithmetic of `Separates`, from `Ahead <= Discordant`.
* `NobodyIsCountedTwice` proves `EachPhrasingOnce` for any people, phrasings, keys of a parent and
  number of objections shown. `Once` says of a list what the property says of the
  artifact: keys and phrasings apart, for and against adding up to who raised it. It holds of the
  groups after each one the model answered was taken (`TakeKeeps`, `CollectKeeps`), of any order
  they are shown in (`RankedKeeps`), of the fallback (`FallbackIsGroups`), and of what was stored.
* `PacksCanBeRun` proves `PacksHold` for any names and a finite set of segments. `PacksInv` says that a row of the
  library is under an id that is nobody else's kind of id (`Shelved`), that an unedited pack names a
  rival only on documents it was licensed by (`Licensed`), and that the answer of a synthesis was
  grounded in the documents it had in hand. A save of several segments is a fold of saves
  (`SavedInTurn`); an id is always free, because a library is finite (`SomeIdIsFree`).
* `SimulationHolds` joins `ExclusiveWorker`, `EndedRunIsLeftAlone`, `SweepTakesFromNobody` and all from `BeforesStay` on,
  `RoomsAreDealtFairly` included: a step of one part leaves the others' variables alone, so the
  composed specification that `RunExclusive` checks implies them together.

### The arithmetic of a room: `RoomCasting_proofs`

`RoomsAreDealtFairly` proves `DealtFairly` for any number of seats, archetypes and sources and any
granularity of the adversarial share. The casting is arithmetic, not interleaving, so its proof is
about what the operators compute:

* **Folds and totals.** A function that folds every subset of a finite set exists (`FoldsExist`), and
  what holds of nothing and survives one more element holds of the set (`FoldsStay`); both by the
  least counterexample, since the library's induction theorems cannot be instantiated here. From
  them: a total does not depend on the order it is taken in (`TotalSums`), adds, scales, counts and
  keeps order (`TotalAdds`, `TotalScales`, `TotalCounts`, `TotalOrders`).
* **Orders.** A finite set can be listed in a total order of its elements (`OrdersExist`,
  `AheadOrders`), the list misses nobody (`OrderIsOnto`), and the first k of it are ahead of the rest
  (`FirstAreAhead`): what the sorts of the code return.
* **`_fair_share`** (`SharesAreFair`): while some still want, everybody else has what it wanted, and
  the passes close in no more of them than there are sources.
* **`apportion`** (`RoomsAreFilled`): the remainders leave no more seats than there are archetypes
  with one (`QuotasLeave`), so floors and remainders fill the room (`SeatedByQuotas`); a seat then
  moves from the fullest to whoever has none, one at a time in the order of weight, and the
  invariant of that loop is `Seating` (`SeatedBegins`, `SeatMoves`, `ServedInTurn`).
* **The deal of a cohort** (`DealsReachAll`): an adversary is met once per round, and once more when
  the last round reaches it (`MetOncePerRound`).
* **`rebalance_adversarial`** leaves weights to be weights (`RebalancedIsWeighed`).

### What an organization pays and asks for: `Organization_proofs`

* `LimitIsKept` proves `LimitHolds` for any processes and people. `LimitInv` bounds the attempts let
  through by the counter while it runs, keeps a place for the process that started it and has not
  yet set its expiry, and sets apart the attempts to sign out that pass when Redis does not answer
  (`rate_limit.py:103-120`), which nobody counts.
* `EveryRowAccountedFor` proves `RowsAccountedFor` for any threshold, cap and number of calls. The
  property alone is not inductive: a row that waits must not have been written yet, as far as
  anybody could hear (`Entered`), or the next insert would double it unexplained. A row recorded
  by a task that outlived its context waits for nobody; the property sets it apart (`late`).
* `BestRoundIsDelivered` proves `NoRoundWasBetter` for any number of rounds, target and allowed
  fall. `AsGood` is the lexicographic order `Better` decides by; that it is total and transitive
  (on rounds whose badges, regressions and means are numbers) is what makes one pass find the best.
* `PricesAreTheFounders` proves `RoomSetsNoPrice` for any caps: every claim a builder keeps has gone
  through the scrubbing of `facts.py`, and each of the three documents is shown only what the
  property allows it to repeat.
* `ShortlistsAreQuoted` proves `ShortlistHolds` for any limit. `ListInv` says of the bank what the
  property says of the list: what a record states was quoted word for word from a page the search
  returned (`Quoted`), whenever it was harvested.
* `ClearanceIsSound` proves `ArtifactHolds`. `SearchInv` adds that a waiting query is the planned
  one or that without its last term (`Sound`), so that an axis recorded as empty is empty in the
  register (`Ground`); that art is read only when no query waits; and that private names are
  dropped in each section of the artifact that is scanned. It supposes answers of the office that are
  well formed, as the model does.
* `PricesGrow` proves `MoreCostsMore` for any numbers of agents, rounds and variants. The depth of
  the report moves with the number of measured events by a table of thresholds: `SectionsAre` reads
  the table, `SectionsGrow` says that no threshold and no depth takes a section away, `CostGrows`
  adds up the stages, and rounding up keeps the order.
* `SessionsEndByTheirOwner` proves `OnlyOwnSessionEnds`: whatever requests interleave, a person who
  was signed in and is no longer had a request of their own at its sign-out or reset.
  `OthersStaySigned` is the reason: what a sign-out takes from the list is one entry of its person.
* `OrganizationHolds` joins these eight with the three about run billing below, as `SimulationHolds`
  does.

And about runs and their price:

* `TypeCorrect`: among other things the balance stays a natural number. A request
  past its first read names a run, and one at the redemption names a quote (`Named`).
* `QuoteIsSingleUse` proves `QuoteFundsOneStart`. `Redemption` strengthens it to
  every request past its compare-and-set, charged or not: its quote is redeemed and no other such
  request brought it.
* `StartsAreHeldAndPaid` proves `StartsHold`. `HoldInv` adds that a request that
  has not begun names no run (`NoRunYet`) and that in one process the balance covers what was checked
  until it is deducted (`Affordable`).
* `SettledRunsAreCovered` proves `SettledIsCovered` for any prices, costs and
  numbers of attempts. `CoverInv` adds `Pricing`: a quote in use was issued first (`IssuedFirst`), a
  request asks for the price of its quote or of the default depth (`AskedPrice`), and past its
  deduction the run has been charged at least that (`Collected`).

`ShortlistsAreQuoted`, `ClearanceIsSound`, `PricesAreTheFounders` and `BestRoundIsDelivered` are
about the proposals, filings, materials and drafts that the modules list; of these the proofs use
how they are built and, of firms, founders and filings, that their fields have their types.

### Sold work

* `WebsiteCheck_proofs!TypeCorrect`, and `RefundOnlyUnspent`, which proves `RefundedUnspent` for any
  checks and processes, with overrun. The invariant is per check (`Safe`): only one party may owe a
  refund (`OneDebtor`), an owed refund is of a failed, unspent, not yet repaid check (`DebtIsOpen`),
  critics are called only after the row has moved to `judging` (`SpentIsLate`), a row exists only
  for a charged check (`RowIsCharged`), and repaid once (`RepaidOnce`); a sweep owes one check at a
  time (`OweOne`). `Local` reduces a step to the check it is about.
* `WebsiteCheck_proofs!KeepsContract` proves the refinement `Spec => Settles`: initial states map to
  initial states, and by the same invariant every step is a step of `Settlement` or a stutter.
* `PaidArtifacts_proofs!PurseIsRight` proves `PurseHolds` for all families side by side, with
  overrun. `PurseInv` is the same invariant per artifact (the kinds' differences are disjuncts) with
  `QueuedIsYoung`, and, in one process, that the balance checked is there until it is deducted
  (`Afforded`) and that a free search past its count has a place under the cap (`Counted`).
* `PaidArtifacts_proofs!ArtifactsSettle` proves the refinement `Spec => Settles` of page revisions
  and built documents when `Overrun` is FALSE: built documents are written by id, and keep the
  contract only because they are written in time (`BuiltInTime`).
* `GtmDiscovery_proofs!RowsTellTheBalance` proves `RowMatchesBalance`, and `DeliveryPaid` proves
  `PaidForDelivery`, for any discoveries, queries, second settlers, outages and deaths. `SettleInv`
  adds that a discovery is settled only when its row is closed, for what its counters say
  (`Accounted`), that whoever is about to pay holds exactly that amount (`Owing`), and that the
  counters a row closes with are the queries that delivered (`Phase`). `OwedIsAPrice` needs the price
  list to grow with the count.
* `CreditTopup_proofs`: `AcknowledgedMoneyIsCredited`, `CreditedOnceAsOffered`,
  `StaleCustomerRecovers`. The invariant says that a row holds the offer on the screen
  (`RowsHoldOffers`), that the founder has a URL only once the row is there (`HandedHasRow`), that
  only what was paid is credited and by what its row says (`CreditFollows`), and that a second
  attempt uses a customer of this process's account (`RemintIsKnown`).

### Unattended work: `Unattended_proofs`

* `WriteUpsAreWhole` proves `WriteUpsHold` with the unique index, and `FinishedStays` proves
  `CompleteStays` with or without it. `RowInv` says that the list and the states of its rows agree,
  `PageInv` what a writer has written by the time it is where it is (a section is pending only while
  somebody writes it), `LoopInv` that in one process what a failure handler read still holds when it
  writes.
* `CompleteIsReadable` proves `CompleteHasText`: a text is in the bucket before a row says so, and
  from the moment its task has it (`TextFirst`).
* `SlotsAreCounted` proves `SlotsReturned` for any number of captures and slots.
* `UnattendedHolds` joins the four.

### Only model-checked

* All liveness (`InFlightCloses`, `RowCloses`, `RunningCloses`, `WriteUpsEnd`, `UploadEnds`,
  `PaidIsCredited`): the provers have no support for fairness with `ENABLED`.
* `DeletionIsGivenUp`: a comparison of computed scores over the pages of the run.
* The properties of the `violation` runs, which do not hold.

## 6. What the models found

Six disagreements between the code and what its comments say are in `PROJECT.json` as findings, each
with a run that exhibits it.

1. **Stop, then start, runs two engines** (`RunTwoEngines`). `/stop` writes `stopped` at once, while
   the engine notices the key only between rounds. `stopped` is in `STARTABLE_STATUSES`
   (`api/simulations.py:675`), so a start in that window claims the row and spawns a second engine
   beside the first, and is charged again.
2. **A run started without a quote is charged twice** (`RunChargedTwice`). The start deducts its
   estimate; `reconcile_run_cost` (`workers/analysis_tasks.py:160`) finds no quote naming the run
   and deducts the whole measured cost "so it is not free".
3. **The loser of a double click fails the winner's report** (`RunReportLoser`). With the unique index in
   place the loser gets `{}` from `generate_report`, `run_generate_report` reads `result["id"]`
   and raises, and `_mark_report_failed` marks the newest row in flight, the winner's. The comment at
   `report_agent.py:1412` says that exactly this must not happen.
4. **After an outage a discovery is settled for less than it delivered** (`RunDiscoveryOutage`).
   `gather` raises the first outage and does not cancel the other queries: they go on storing
   candidates on a run that was already priced and repaid.
5. **A sweep closes a run that has just been started again** (`RunSweepRace`). With two processes
   alive both sweeps may read one dead preparation. The first closes it, the founder prepares again,
   and the second closes the fresh row: its compare-and-set (`reaper.py:384`) names the status, which
   is the same again, and not the age.
6. **A rewriting is held to a crawler's view of it that does not exist** (`RunFoundUnread`).
   `machine_dimension` returns None for "a pasted-HTML review", but `_assemble`
   (`capture.py:1237`) reads machine signals also off a page rendered from a string: out of an empty
   document, so structured data, description and address are missing. Against a founder's page that
   has them the dimension `found` falls by more than 20, and every round has "given it up".

Behaviour the models also contain, which breaks no promise the repository makes, or one that is
stated here with its condition:

* An engine overwrites a stop or a reaper close that came first: it writes `running`, `analyzing`
  and `complete` by id. Hence the conditions of `RunExclusive`.
* The stop key is not deleted when a run ends; a start within the hour halts in its first round.
* `/start` accepts a run whose room is empty or half-built after a failed preparation: it is charged,
  and the engine then fails it if nobody is there.
* With two processes the check and the deduction of two creates interleave, and the floor in
  `deduct_credits` lets one price buy two artifacts. `PaidInFull`, `QuickCapped` and
  `ReturnedWithinTaken` are therefore stated for one process.
* A build that outlasts its deadline writes its outcome over the row the reaper closed and repaid
  (`BuiltArtifact` writes by id). `Settles` covers built documents without overrun; page revisions
  and website checks also with it.
* A clearance whose last write raised after landing is reported as failed: `RecordFailure` has no
  guard. Searches are not part of `Settles`.
* `refund_credits` logs and swallows a failed RPC, and a process may die between closing a row and
  repaying it: what is promised is *at most* one refund, and a capital shortlist that is repaid and
  then fails to be written keeps its refund.
* A quoted start does not look at the balance; a quote's report depth is not compared with the
  run's; an unquoted start is priced at the default depth. A dearer quote names the run from its
  redemption on even when its start is then refused, and reconciliation finds it. `SettledIsCovered`
  and `StartsHold` say so in their conditions.
* Without the index of migration 043 (`Indexed = FALSE`) two write-ups can be in flight: the gate of
  `POST /reports/generate` reads before four further round trips.
* The read-back after `complete` may raise and turns a finished report into a failed one (`Blips`).
* The failure handler of a report writes like everybody else, and its own write may raise; it is
  logged and nothing retries it (`api/reports.py:107-110`). The row, when there is one, is then closed
  by the sweep; when there is none the founder who clicked is told nothing. `StartedIsAnswered`
  excepts that case by name (`unheard` in `ReportWriting`).
* An insert that lands and raises on the way back leaves a discovery charged and `running` with
  nobody on it (`Opened` in `GtmDiscovery`); the sweep closes it.
* An answer of the patent office that is no dictionary, or has no bag, is read as no hits
  (`uspto_client.py:218-223`), and open ground is then claimed of it. `ClearanceSearch` supposes
  well-formed answers, so `ArtifactHolds` does not cover that case.
* A discovery whose process dies is closed by the reaper with its counters at zero, whatever it had
  stored.
* A finished run may be started again; it is charged again, and what it spends is settled under the
  same ledger. `SettledIsCovered` counts all attempts.

Places where a comment or message and the code part, met while translating; no property depends on
them:

* `services/ingestion/pipeline.py:160` says there is "no third state in which the row looks processed
  and holds nothing". A reader that fails returns a placeholder such as "[Unable to extract text from
  this DOCX file]" (`services/engine/document_processor.py:190`, likewise the video, article and
  spreadsheet readers), which is stored and marked complete.
* `services/intelligence/variant_scoreboard.py:573`: when every paired difference is the same, the
  verdict says that everyone "did the same thing on both", also when that difference is not zero.
* `api/billing.py:414` offers a smaller run priced without the subject brief, while the refusal was
  priced with it: the run on offer need not fit the balance.
* `services/capital/discovery.py:674-690`: the thesis must be "the firm's own published words, from
  the firm's own site". The word-for-word quote and the citation of the firm's site may be two
  different pieces of evidence.
* `api/admin.py:291-317` reads the balance, adds in Python and writes the sum: a deduction in between
  is undone.
* `services/intelligence/inoculation.py:679` says the audience of a re-simulation did not change; a
  failed re-simulation may be prepared again and then has new people. `api/inoculation.py:146`
  protects material that was tested from edits, but not material whose run is under way.
* `services/intelligence/objection_canonicalizer.py:672`: between the delete and the last insert of a
  rebuild the table disagrees with the artifact that is still shown.
* `services/billing/usage_ledger.py:161-192`: an insert that landed and raised is kept and inserted
  again, so a run reconciles at more than it cost. The other direction is what its comments guard.
* An invitation writes no `user_id`, which the table requires: it always fails, and `Accounts` has no
  second member of an organization. `process_document`, `get_project_text` and `flush_usage` have no
  callers.

## 7. Not modelled, and why

* **Model calls, browsers, prompts, wording** are one nondeterministic step with the outcomes the
  caller tells apart. So are provider fallback, timeouts and prompt caching in `core/llm_client.py`.
* **Product stages** (`services/stages/product_state.py`) project rows for one screen, keep no state
  and are read back by nobody. **Streaming and websockets** never raise into a run, and nothing reads
  back what they sent.
* **Exports, e-mail, comparison and accuracy pages** render and read. **Projects, products, the work
  list** are single-statement reads and writes.
* **The frontend** appears as the requests it sends.
* Of components modelled in part: subscriptions and flash reports (`stripe_service.py:116-140`,
  `255-330`), report and room chat, the inside of a report section, token verification, admin reads,
  redirects and screenshots of a capture, class mapping of a clearance, `limit(200)` of one sweep.

## 8. Limits, and what would come next

* Hosts explore their parts one at a time. Two compositions would add something: `UsageLedger` under
  `RunBilling` (whose `Attempt` knows only that rows were kept or lost), and `SimulationLifecycle`
  under `Resimulation` (whose runs are made, started and finished in one step).
* `OneRoom`, `SweepSparesTheLiving` and `WorkerOwnsRow` are stated for one process. During a deploy
  two are alive; what then fails is the lifecycle's overwriting by id, described in section 6.
* Subscriptions and flash reports belong beside `CreditTopup`: the same webhook grants their credits.
* A theorem within reach: `Settles` for clearances and shortlists, once `Settlement` says what they
  promise.

## 9. Running it

In this directory, with TLC, the community modules and TLAPS installed:

```
tlc -workers 2 -config RunExclusive.cfg MCSimulation.tla   # each run: PROJECT.json, "runs"
tlapm Simulation_proofs.tla                                # each module named *_proofs
```

`RunBilling` is the largest (735,000 distinct states, about two minutes), then `RunExclusive`
(677,000), `RunDiscovery` (269,000), `RunReport` (230,000), `RunArtifacts` (193,000, two minutes: it
checks a refinement and liveness) and `RunRoom` (101,000); the violations take seconds.
