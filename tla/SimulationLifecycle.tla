------------------------- MODULE SimulationLifecycle -------------------------
(***************************************************************************)
(* One row of the `simulations` table and everybody who writes it: the     *)
(* founder's clicks on /prepare, /start and /stop, the two background      *)
(* tasks those clicks spawn (run_prepare_agents and run_simulation), the   *)
(* on_failure handler of `spawn`, and the reaper.                          *)
(*                                                                         *)
(* A click and the task it spawns are one process: pc[r] walks through the *)
(* request handler and then, if a task was spawned, through the task.      *)
(* Every step is at most one database statement.  Within one API process   *)
(* the asyncio loop lets another coroutine run only at an await, so a step *)
(* of r is enabled only while every other coroutine of proc[r] is parked   *)
(* at one (LoopFree); two API processes, the old and the new one during a  *)
(* deploy, interleave statement by statement.                              *)
(***************************************************************************)
EXTENDS Naturals, FiniteSets

CONSTANTS
  Prepares, Starts, Stops,  \* the clicks on the three routes
  Procs,                    \* API processes alive at the same time
  Batches,                  \* insert batches a prepared room takes
  MaxRounds,                \* simulations.max_rounds
  MaxRestarts,              \* bound: process deaths explored
  Overrun                   \* may live work outlast the reaper's 90 minutes?

ASSUME ClicksAssumption ==
  /\ Prepares \cap Starts = {}
  /\ Prepares \cap Stops = {}
  /\ Starts \cap Stops = {}
ASSUME BoundsAssumption ==
  /\ Procs # {}
  /\ Batches \in Nat \ {0}
  /\ MaxRounds \in Nat \ {0}
  /\ MaxRestarts \in Nat
  /\ Overrun \in BOOLEAN

Clicks == Prepares \cup Starts \cup Stops

VARIABLES
  status,    \* simulations.status
  stale,     \* simulations.updated_at lies before the reaper's cutoff
  stopFlag,  \* the Redis key simulation:<id>:stop exists
  swarm,     \* batches of each preparation's people in simulation_agents
  posted,    \* preparations whose people simulation_events refers to
  pc,        \* where each click, or the task it spawned, stands
  proc,      \* the API process that serves the click
  roster,    \* the people each engine loaded, in the shape of swarm
  round,     \* the round each engine is in
  wrote,     \* engines whose total_events is positive
  reaper,    \* per process: the status the sweep read, or "none"
  restarts   \* process deaths so far

rowVars    == <<status, stale>>
roomVars   == <<swarm, posted>>
engineVars == <<roster, round, wrote>>
vars == <<status, stale, stopFlag, swarm, posted, pc, proc, roster, round,
          wrote, reaper, restarts>>

-----------------------------------------------------------------------------
(* The statuses, and the sets of them the code names.                      *)

Statuses == {"draft", "preparing", "ready", "running", "analyzing",
             "complete", "stopped", "failed"}

UnfinishedStatuses == {"queued", "preparing", "running", "analyzing"}
PreparableStatuses == {"draft", "failed"}
Startable_Analyzing ==   \* mutant: a run in its analysis pass may be started
  {"ready", "complete", "completed", "failed", "stopped", "analyzing"}
StartableStatuses  == {"ready", "complete", "completed", "failed", "stopped"}
Reaped_NotAnalyzing ==   \* mutant: the reaper's rule misses one status
  {"queued", "preparing", "running"}
ReapedStatuses     == {"queued", "preparing", "running", "analyzing"}

(* Where a coroutine can be. Parked is every place an await suspends it,   *)
(* or where it does not exist.                                             *)
Builder == {"prep_spawned", "prep_mark", "prep_generate", "prep_recheck",
            "prep_delete", "prep_insert", "prep_ready", "raising"}
Engine  == {"eng_spawned", "eng_mark", "eng_load", "eng_check", "eng_round",
            "eng_stop", "eng_fail", "eng_analysis", "raising"}
Handler == {"start_claim", "start_deduct", "stop_write"}
Resting == {"idle", "done", "lost"}
PCs     == Builder \cup Engine \cup Handler \cup Resting \cup {"eng_report"}
Parked  == Resting \cup {"prep_spawned", "prep_generate", "eng_spawned",
                         "eng_check", "eng_round", "eng_analysis", "eng_report"}

NoRoom == [p \in Prepares |-> 0]

(* Every variable keeps its type: a preparation never holds more people    *)
(* than its batches, whichever of its inserts a restart or a reader meets. *)
TypeOK ==
  /\ status \in Statuses
  /\ stale \in BOOLEAN
  /\ stopFlag \in BOOLEAN
  /\ swarm \in [Prepares -> 0..Batches]
  /\ posted \subseteq Prepares
  /\ pc \in [Clicks -> PCs]
  /\ proc \in [Clicks -> Procs]
  /\ roster \in [Starts -> [Prepares -> 0..Batches]]
  /\ round \in [Starts -> 0..MaxRounds + 1]
  /\ wrote \subseteq Starts
  /\ reaper \in [Procs -> ReapedStatuses \cup {"none"}]
  /\ restarts \in 0..MaxRestarts

Init ==
  /\ status = "draft"
  /\ stale = FALSE
  /\ stopFlag = FALSE
  /\ swarm = NoRoom
  /\ posted = {}
  /\ pc = [r \in Clicks |-> "idle"]
  /\ proc \in [Clicks -> Procs]
  /\ roster = [s \in Starts |-> NoRoom]
  /\ round = [s \in Starts |-> 0]
  /\ wrote = {}
  /\ reaper = [p \in Procs |-> "none"]
  /\ restarts = 0

-----------------------------------------------------------------------------
(* The event loop of r's process is free for r.                            *)
LoopFree(r) ==
  /\ \A q \in Clicks \ {r} : proc[q] = proc[r] => pc[q] \in Parked
  /\ reaper[proc[r]] = "none"

At(r, from) == pc[r] = from /\ LoopFree(r)
Goto(r, to) == pc' = [pc EXCEPT ![r] = to]

Write_CreatedAt(new) ==        \* mutant: the age is that of the row, not of its flight
  status' = new /\ UNCHANGED stale
(* An UPDATE of the row: the set_updated_at trigger makes it young again,  *)
(* and the two claims stamp it themselves.                                 *)
Write(new) == status' = new /\ stale' = FALSE

(* UPDATE ... WHERE status IN from: writes nothing when it matches no row. *)
WriteIf(from, new) ==
  IF status \in from THEN Write(new) ELSE UNCHANGED rowVars

-----------------------------------------------------------------------------
(* POST /prepare: the compare-and-set decides; the winner spawns the task. *)
PrepareClaim(r) ==
  /\ At(r, "idle")
  /\ WriteIf(PreparableStatuses, "preparing")
  /\ Goto(r, IF status \in PreparableStatuses THEN "prep_spawned" ELSE "done")
  /\ UNCHANGED <<stopFlag, roomVars, proc, engineVars, reaper, restarts>>

(* POST /start reads the row and refuses by name, or for the variants, the *)
(* quote or the balance (a choice here).                                   *)
StartRead(r) ==
  /\ At(r, "idle")
  /\ \/ Goto(r, "done")
     \/ /\ status \notin {"preparing", "draft", "running"}
        /\ Goto(r, "start_claim")
  /\ UNCHANGED <<rowVars, stopFlag, roomVars, proc, engineVars, reaper,
                 restarts>>

StartClaim(r) ==
  /\ At(r, "start_claim")
  /\ WriteIf(StartableStatuses, "running")
  /\ Goto(r, IF status \in StartableStatuses THEN "start_deduct" ELSE "done")
  /\ UNCHANGED <<stopFlag, roomVars, proc, engineVars, reaper, restarts>>

(* The deduction (RunBilling has the money), and the spawn behind it.  A    *)
(* failing RPC answers 500 with the row already claimed.                   *)
StartDeduct(r) ==
  /\ At(r, "start_deduct")
  /\ Goto(r, "eng_spawned") \/ Goto(r, "done")
  /\ UNCHANGED <<rowVars, stopFlag, roomVars, proc, engineVars, reaper,
                 restarts>>

(* POST /stop: the Redis key first, then an unconditional write.           *)
StopSignal(r) ==
  /\ At(r, "idle")
  /\ \/ /\ stopFlag' = TRUE
        /\ Goto(r, "stop_write")
     \/ Goto(r, "done") /\ UNCHANGED <<stopFlag>>   \* Redis raised
  /\ UNCHANGED <<rowVars, roomVars, proc, engineVars, reaper, restarts>>

StopWrite(r) ==
  /\ At(r, "stop_write")
  /\ Write("stopped")
  /\ Goto(r, "done")
  /\ UNCHANGED <<stopFlag, roomVars, proc, engineVars, reaper, restarts>>

(* The key was set with ex=3600; nothing deletes it earlier.               *)
FlagExpires ==
  /\ stopFlag
  /\ stopFlag' = FALSE
  /\ UNCHANGED <<rowVars, roomVars, pc, proc, engineVars, reaper, restarts>>

-----------------------------------------------------------------------------
(* run_prepare_agents.                                                     *)

FailPreparation(r) ==
  /\ WriteIf(UnfinishedStatuses, "failed")
  /\ Goto(r, "raising")

(* Both looks at simulation_events: before any model call, and again just  *)
(* before the DELETE.                                                      *)
RoomCheck(r, from, to) ==
  /\ At(r, from)
  /\ IF posted # {} THEN FailPreparation(r) ELSE Goto(r, to) /\ UNCHANGED rowVars
  /\ UNCHANGED <<stopFlag, roomVars, proc, engineVars, reaper, restarts>>

PrepareBegin(r)   == RoomCheck(r, "prep_spawned", "prep_mark")
PrepareRecheck(r) == RoomCheck(r, "prep_recheck", "prep_delete")

PrepareMark(r) ==
  /\ At(r, "prep_mark")
  /\ Write("preparing")
  /\ Goto(r, "prep_generate")
  /\ UNCHANGED <<stopFlag, roomVars, proc, engineVars, reaper, restarts>>

(* The awaited reads and model calls: people, or one of the failures the   *)
(* task closes with a sentence (no packs, no valid pack, nobody made).     *)
PrepareGenerate(r) ==
  /\ At(r, "prep_generate")
  /\ \/ Goto(r, "prep_recheck") /\ UNCHANGED rowVars
     \/ FailPreparation(r)
  /\ UNCHANGED <<stopFlag, roomVars, proc, engineVars, reaper, restarts>>

PrepareDelete_Skipped(r) ==    \* mutant: the old swarm is not deleted
  /\ At(r, "prep_delete")
  /\ Goto(r, "prep_insert")
  /\ UNCHANGED <<rowVars, stopFlag, roomVars, proc, engineVars, reaper,
                 restarts>>
(* simulation_events.agent_id references simulation_agents without an ON   *)
(* DELETE clause, so the DELETE raises on people who have posted.          *)
PrepareDelete(r) ==
  /\ At(r, "prep_delete")
  /\ IF posted # {}
     THEN Goto(r, "raising") /\ UNCHANGED swarm
     ELSE Goto(r, "prep_insert") /\ swarm' = NoRoom
  /\ UNCHANGED <<rowVars, stopFlag, posted, proc, engineVars, reaper, restarts>>

PrepareInsert(r) ==
  /\ At(r, "prep_insert")
  /\ swarm' = [swarm EXCEPT ![r] = @ + 1]
  /\ Goto(r, IF swarm[r] + 1 = Batches THEN "prep_ready" ELSE "prep_insert")
  /\ UNCHANGED <<rowVars, stopFlag, posted, proc, engineVars, reaper, restarts>>

PrepareReady(r) ==
  /\ At(r, "prep_ready")
  /\ Write("ready")
  /\ Goto(r, "done")
  /\ UNCHANGED <<stopFlag, roomVars, proc, engineVars, reaper, restarts>>

-----------------------------------------------------------------------------
(* run_simulation.                                                         *)

EngineBegin(r) ==
  /\ At(r, "eng_spawned")
  /\ Goto(r, IF status \in {"ready", "running"} THEN "eng_mark" ELSE "done")
  /\ UNCHANGED <<rowVars, stopFlag, roomVars, proc, engineVars, reaper,
                 restarts>>

EngineMark(r) ==
  /\ At(r, "eng_mark")
  /\ Write("running")
  /\ Goto(r, "eng_load")
  /\ UNCHANGED <<stopFlag, roomVars, proc, engineVars, reaper, restarts>>

EngineLoad(r) ==
  /\ At(r, "eng_load")
  /\ roster' = [roster EXCEPT ![r] = swarm]
  /\ round' = [round EXCEPT ![r] = 1]
  /\ Goto(r, IF swarm = NoRoom THEN "eng_fail" ELSE "eng_check")
  /\ UNCHANGED <<rowVars, stopFlag, roomVars, proc, wrote, reaper, restarts>>

(* _check_stop_signal: the Redis key, or the row when Redis is unreachable.*)
(* Before the first round the task can also find no arena to run.          *)
EngineCheckStop(r) ==
  /\ At(r, "eng_check")
  /\ round[r] <= MaxRounds
  /\ \/ \E signal \in {stopFlag, status = "stopped"} :
           Goto(r, IF signal THEN "eng_stop" ELSE "eng_round")
     \/ round[r] = 1 /\ Goto(r, "eng_fail")
  /\ UNCHANGED <<rowVars, stopFlag, roomVars, proc, engineVars, reaper,
                 restarts>>

EngineStop(r) ==
  /\ At(r, "eng_stop")
  /\ \/ Write("stopped") /\ Goto(r, "done")
     \/ UNCHANGED rowVars /\ Goto(r, "eng_fail")    \* the write raised
  /\ UNCHANGED <<stopFlag, roomVars, proc, engineVars, reaper, restarts>>

(* A round: every arena acts, then the events are inserted.  Inserting an  *)
(* event of somebody no longer in simulation_agents raises, like any other *)
(* exception of the round, into the task's own handler.                    *)
EngineRound(r) ==
  /\ At(r, "eng_round")
  /\ \/ /\ \/ UNCHANGED <<posted, wrote>>                    \* nobody acted
           \/ /\ \A p \in Prepares : roster[r][p] <= swarm[p]
              /\ posted' = posted \cup {p \in Prepares : roster[r][p] > 0}
              /\ wrote' = wrote \cup {r}
        /\ round' = [round EXCEPT ![r] = @ + 1]
        /\ Goto(r, "eng_check")
     \/ Goto(r, "eng_fail") /\ UNCHANGED <<posted, wrote, round>>
  /\ UNCHANGED <<rowVars, stopFlag, swarm, proc, roster, reaper, restarts>>

(* No agents, no arena, an exception in the loop, or no event at all.      *)
EngineFail(r) ==
  /\ At(r, "eng_fail")
  /\ Write("failed")
  /\ Goto(r, "done")
  /\ UNCHANGED <<stopFlag, roomVars, proc, engineVars, reaper, restarts>>

EngineAnalyze(r) ==
  /\ At(r, "eng_check")
  /\ round[r] = MaxRounds + 1
  /\ IF r \in wrote
     THEN Write("analyzing") /\ Goto(r, "eng_analysis")
     ELSE Goto(r, "eng_fail") /\ UNCHANGED rowVars
  /\ UNCHANGED <<stopFlag, roomVars, proc, engineVars, reaper, restarts>>

EngineComplete(r) ==
  /\ At(r, "eng_analysis")
  /\ Write("complete")
  /\ Goto(r, "eng_report")
  /\ UNCHANGED <<stopFlag, roomVars, proc, engineVars, reaper, restarts>>

EngineTail_Fails(r) ==         \* mutant: a failed report fails the run
  /\ At(r, "eng_report")
  /\ Write(status) \/ Write("failed")
  /\ Goto(r, "done")
  /\ UNCHANGED <<stopFlag, roomVars, proc, engineVars, reaper, restarts>>

(* The report, the reconciliation, and the retail_cost_usd write, which    *)
(* touches the row without moving its status.                              *)
EngineTail(r) ==
  /\ At(r, "eng_report")
  /\ Write(status)
  /\ Goto(r, "done")
  /\ UNCHANGED <<stopFlag, roomVars, proc, engineVars, reaper, restarts>>

-----------------------------------------------------------------------------
(* An exception leaves a task: any statement of a preparation may raise,   *)
(* and any of run_simulation's outside its own try.  Past `complete` nothing *)
(* can: the report, the reconciliation and the cost write are guarded.     *)
TaskRaises(r) ==
  /\ \/ pc[r] \in Builder \ {"raising"}
     \/ pc[r] \in {"eng_spawned", "eng_mark", "eng_load", "eng_fail",
                   "eng_analysis"}
     \/ pc[r] = "eng_check" /\ round[r] \in {1, MaxRounds + 1}
  /\ LoopFree(r)
  /\ Goto(r, "raising")
  /\ UNCHANGED <<rowVars, stopFlag, roomVars, proc, engineVars, reaper,
                 restarts>>

(* spawn's on_failure: _mark_simulation_failed.                            *)
OnFailure(r) ==
  /\ At(r, "raising")
  /\ WriteIf(UnfinishedStatuses, "failed")
  /\ Goto(r, "done")
  /\ UNCHANGED <<stopFlag, roomVars, proc, engineVars, reaper, restarts>>

-----------------------------------------------------------------------------
(* The reaper, the clock, and the death of a process.                      *)

(* updated_at falls behind the cutoff, as it does on a draft that waits    *)
(* for its founder.  Unless Overrun, 90 minutes outlast all honest work:   *)
(* nothing is then still alive to write the row.                           *)
Age ==
  /\ Overrun \/ \A r \in Clicks : pc[r] \in Resting
  /\ stale' = TRUE
  /\ UNCHANGED <<status, stopFlag, roomVars, pc, proc, engineVars, reaper,
                 restarts>>

ReaperRead(p) ==
  /\ reaper[p] = "none"
  /\ \A q \in Clicks : proc[q] = p => pc[q] \in Parked
  /\ status \in ReapedStatuses /\ stale
  /\ reaper' = [reaper EXCEPT ![p] = status]
  /\ UNCHANGED <<rowVars, stopFlag, roomVars, pc, proc, engineVars, restarts>>

ReaperClose(p) ==
  /\ reaper[p] # "none"
  /\ WriteIf({reaper[p]}, "failed")
  /\ reaper' = [reaper EXCEPT ![p] = "none"]
  /\ UNCHANGED <<stopFlag, roomVars, pc, proc, engineVars, restarts>>

(* Nothing durable carries a task: it dies with its process.               *)
Restart(p) ==
  /\ restarts < MaxRestarts
  /\ restarts' = restarts + 1
  /\ pc' = [r \in Clicks |->
              IF proc[r] = p /\ pc[r] \notin Resting THEN "lost" ELSE pc[r]]
  /\ reaper' = [reaper EXCEPT ![p] = "none"]
  /\ UNCHANGED <<rowVars, stopFlag, roomVars, proc, engineVars>>

-----------------------------------------------------------------------------
HandlerStep(r) ==
  \/ r \in Starts /\ (StartClaim(r) \/ StartDeduct(r))
  \/ r \in Stops /\ StopWrite(r)

PrepareStep(r) ==
  \/ PrepareBegin(r) \/ PrepareMark(r) \/ PrepareGenerate(r)
  \/ PrepareRecheck(r) \/ PrepareDelete(r) \/ PrepareInsert(r)
  \/ PrepareReady(r)

EngineStep(r) ==
  \/ EngineBegin(r) \/ EngineMark(r) \/ EngineLoad(r) \/ EngineCheckStop(r)
  \/ EngineStop(r) \/ EngineRound(r) \/ EngineFail(r) \/ EngineAnalyze(r)
  \/ EngineComplete(r) \/ EngineTail(r)

(* What the running system does by itself, once a click has been made.     *)
Progress(r) ==
  \/ HandlerStep(r)
  \/ r \in Prepares /\ PrepareStep(r)
  \/ r \in Starts /\ EngineStep(r)
  \/ OnFailure(r)

Click(r) ==
  \/ r \in Prepares /\ PrepareClaim(r)
  \/ r \in Starts /\ StartRead(r)
  \/ r \in Stops /\ StopSignal(r)

Sweep(p) == ReaperRead(p) \/ ReaperClose(p)

Next ==
  \/ \E r \in Clicks : Click(r) \/ Progress(r) \/ TaskRaises(r)
  \/ \E p \in Procs : Sweep(p) \/ Restart(p)
  \/ FlagExpires
  \/ Age

(* The event loop schedules every runnable coroutine, the reaper sweeps    *)
(* every five minutes, and time passes; clicks, failures and deaths are    *)
(* never owed.                                                             *)
Fairness ==
  /\ \A r \in Clicks : WF_vars(Progress(r))
  /\ \A p \in Procs : WF_vars(Sweep(p))
  /\ WF_vars(Age)

Spec == Init /\ [][Next]_vars
FairSpec == Spec /\ Fairness

-----------------------------------------------------------------------------
(* Properties.                                                             *)

(* The task a claim spawned is the row's only worker, and the row says so: *)
(* while a preparation is alive the status is `preparing`, from a start's  *)
(* claim to its last write `running` or `analyzing`.  This is what the     *)
(* compare-and-sets in prepare_simulation and start_simulation exist for.  *)
Working(r) == pc[r] \in (Builder \cup Engine \cup {"start_deduct"}) \ {"raising"}
WorkerOwnsRow ==
  /\ \A q, r \in Clicks : Working(q) /\ Working(r) => q = r
  /\ \A r \in Prepares : Working(r) => status = "preparing"
  /\ \A r \in Starts : Working(r) => status \in {"running", "analyzing"}

(* At most one engine acts in a simulation at a time: the statuses that    *)
(* may be started are listed so that a started run is not started again    *)
(* (simulations.py:670-675), whatever /stop and the reaper wrote meanwhile.*)
OneEngine ==
  \A q, r \in Starts : pc[q] \in Engine /\ pc[r] \in Engine => q = r

(* simulation_agents never holds two preparations' people: run_prepare_    *)
(* agents replaces a swarm, it does not add to it; and what is stored of a *)
(* run was said by the people of one preparation.                          *)
OneRoom ==
  /\ \A p, q \in Prepares : swarm[p] > 0 /\ swarm[q] > 0 => p = q
  /\ \A p, q \in posted : p = q

(* A run is never left in flight: whatever dies, a status that means work  *)
(* is under way is sooner or later replaced.                               *)
InFlightCloses == \A s \in UnfinishedStatuses : status = s ~> status # s

(* The sweep takes a run from nobody: what it closes has no task left.     *)
(* The row may have rested for days, and may be started between any two    *)
(* sweeps; what keeps it from being closed at once is that its age is that *)
(* of the flight and not of the row (reaper.py:69-93).                     *)
SweepSparesTheLiving ==
  [][(\E p \in Procs : ReaperClose(p)) /\ status' # status
       => \A r \in Clicks : ~ Working(r)]_vars

(* "The deadline is measured from the transition into flight"              *)
(* (reaper.py:90): a row the sweep closes has been in flight, as it then   *)
(* is, for longer than the deadline.                                       *)
ReaperClosesOnlyStale ==
  [][(\E p \in Procs : ReaperClose(p)) /\ status' # status => stale]_vars

(* A row some writer has finished is moved on only by the founder: by a    *)
(* claim of /prepare or /start, or by /stop.                               *)
FounderMoves ==
  \/ \E r \in Prepares : PrepareClaim(r)
  \/ \E r \in Starts : StartClaim(r)
  \/ \E r \in Stops : StopWrite(r)
FinishedStaysFinished ==
  [][(status \in {"complete", "stopped", "failed"} /\ status' # status)
       => FounderMoves]_vars

=============================================================================
