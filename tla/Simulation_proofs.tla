--------------------------- MODULE Simulation_proofs ---------------------------
(***************************************************************************)
(* Theorems about one simulation and what is derived from it, for any      *)
(* number of clicks, batches, restarts, runs, assets, arenas and rounds.   *)
(***************************************************************************)
EXTENDS RoomCasting_proofs

USE DEF Statuses, UnfinishedStatuses, PreparableStatuses, StartableStatuses,
        ReapedStatuses, rowVars, roomVars, engineVars

-----------------------------------------------------------------------------
(* TypeOK is not inductive: the loops over batches and rounds are bounded  *)
(* by where the task stands in them.                                       *)
LoopBounds ==
  /\ \A p \in Prepares : pc[p] = "prep_insert" => swarm[p] < Batches
  /\ \A s \in Starts : pc[s] = "eng_round" => round[s] <= MaxRounds
TypeInv == TypeOK /\ LoopBounds

(* A draft simulation with no task, no sweep and no events is well typed.  *)
LEMMA TypeInit == Init => TypeInv
<1> SUFFICES ASSUME Init PROVE TypeInv OBVIOUS
<1> USE BoundsAssumption DEF Init
<1>1. NoRoom \in [Prepares -> 0..Batches] BY DEF NoRoom
<1>2. pc \in [Clicks -> PCs] BY DEF PCs, Resting
<1>3. 0 \in 0..MaxRounds + 1 /\ 0 \in 0..MaxRestarts OBVIOUS
<1>4. TypeOK BY <1>1, <1>2, <1>3 DEF TypeOK
<1>5. LoopBounds BY DEF LoopBounds, Clicks
<1>6. QED BY <1>4, <1>5 DEF TypeInv

(* A click, or the rest of a handler.                                      *)
LEMMA TypeClick ==
  ASSUME TypeInv, NEW r \in Clicks, Click(r) \/ HandlerStep(r) PROVE TypeInv'
<1> USE DEF TypeInv, LoopBounds, TypeOK, At, Goto, WriteIf, Write, PCs, Builder,
            Engine, Handler, Resting, Clicks
<1>1. CASE r \in Prepares /\ PrepareClaim(r) BY <1>1 DEF PrepareClaim
<1>2. CASE r \in Starts /\ StartRead(r)      BY <1>2 DEF StartRead
<1>3. CASE r \in Stops /\ StopSignal(r)      BY <1>3 DEF StopSignal
<1>4. CASE r \in Starts /\ StartClaim(r)     BY <1>4 DEF StartClaim
<1>5. CASE r \in Starts /\ StartDeduct(r)    BY <1>5 DEF StartDeduct
<1>6. CASE r \in Stops /\ StopWrite(r)       BY <1>6 DEF StopWrite
<1>7. QED BY <1>1, <1>2, <1>3, <1>4, <1>5, <1>6 DEF Click, HandlerStep

(* run_prepare_agents: every write keeps the types, and its insert loop    *)
(* stays within its batches.                                               *)
LEMMA TypePrepare ==
  ASSUME TypeInv, NEW r \in Prepares, PrepareStep(r) PROVE TypeInv'
<1> USE DEF TypeInv, LoopBounds, TypeOK, At, Goto, WriteIf, Write,
            FailPreparation, PCs, Builder, Resting, Clicks
<1>1. CASE PrepareBegin(r)    BY <1>1 DEF PrepareBegin, RoomCheck
<1>2. CASE PrepareMark(r)     BY <1>2 DEF PrepareMark
<1>3. CASE PrepareGenerate(r) BY <1>3 DEF PrepareGenerate
<1>4. CASE PrepareRecheck(r)  BY <1>4 DEF PrepareRecheck, RoomCheck
<1>5. CASE PrepareDelete(r)
  BY <1>5, BoundsAssumption DEF PrepareDelete, NoRoom
<1>6. CASE PrepareInsert(r)
  BY <1>6, BoundsAssumption DEF PrepareInsert
<1>7. CASE PrepareReady(r)    BY <1>7 DEF PrepareReady
<1>8. QED BY <1>1, <1>2, <1>3, <1>4, <1>5, <1>6, <1>7 DEF PrepareStep

(* run_simulation: the same, and its round counter stays within            *)
(* max_rounds.                                                             *)
LEMMA TypeEngine ==
  ASSUME TypeInv, NEW r \in Starts, EngineStep(r) PROVE TypeInv'
<1> USE BoundsAssumption
    DEF TypeInv, LoopBounds, TypeOK, At, Goto, Write, PCs, Engine, Resting,
        Clicks
<1>1. CASE EngineBegin(r)     BY <1>1 DEF EngineBegin
<1>2. CASE EngineMark(r)      BY <1>2 DEF EngineMark
<1>3. CASE EngineLoad(r)      BY <1>3 DEF EngineLoad
<1>4. CASE EngineCheckStop(r) BY <1>4 DEF EngineCheckStop
<1>5. CASE EngineStop(r)      BY <1>5 DEF EngineStop
<1>6. CASE EngineRound(r)
  <2>1. round' = round \/ round' = [round EXCEPT ![r] = @ + 1]
    BY <1>6 DEF EngineRound
  <2>2. round[r] \in 0..MaxRounds BY <1>6 DEF EngineRound
  <2>3. round' \in [Starts -> 0..MaxRounds + 1] BY <2>1, <2>2
  <2>4. posted' \subseteq Prepares /\ wrote' \subseteq Starts
    BY <1>6 DEF EngineRound
  <2>5. pc' \in [Clicks -> PCs] BY <1>6 DEF EngineRound
  <2>6. LoopBounds' BY <1>6, <2>1 DEF EngineRound
  <2>7. QED BY <1>6, <2>3, <2>4, <2>5, <2>6 DEF EngineRound
<1>7. CASE EngineFail(r)      BY <1>7 DEF EngineFail
<1>8. CASE EngineAnalyze(r)   BY <1>8 DEF EngineAnalyze
<1>9. CASE EngineComplete(r)  BY <1>9 DEF EngineComplete
<1>10. CASE EngineTail(r)     BY <1>10 DEF EngineTail
<1>11. QED
  BY <1>1, <1>2, <1>3, <1>4, <1>5, <1>6, <1>7, <1>8, <1>9, <1>10 DEF EngineStep

(* Failures, the sweep, deaths and the clock.                              *)
LEMMA TypeRest ==
  ASSUME TypeInv,
         \/ \E r \in Clicks : OnFailure(r) \/ TaskRaises(r)
         \/ \E p \in Procs : Sweep(p) \/ Restart(p)
         \/ FlagExpires \/ Age \/ UNCHANGED vars
  PROVE  TypeInv'
<1> USE DEF TypeInv, LoopBounds, TypeOK, At, Goto, WriteIf, Write, PCs, Builder,
            Engine, Resting, Clicks
<1>1. ASSUME NEW r \in Clicks, OnFailure(r)  PROVE TypeInv' BY <1>1 DEF OnFailure
<1>2. ASSUME NEW r \in Clicks, TaskRaises(r) PROVE TypeInv' BY <1>2 DEF TaskRaises
<1>3. ASSUME NEW p \in Procs, ReaperRead(p)  PROVE TypeInv' BY <1>3 DEF ReaperRead
<1>4. ASSUME NEW p \in Procs, ReaperClose(p) PROVE TypeInv'
  BY <1>4 DEF ReaperClose
<1>5. ASSUME NEW p \in Procs, Restart(p)     PROVE TypeInv'
  BY <1>5, BoundsAssumption DEF Restart
<1>6. CASE FlagExpires BY <1>6 DEF FlagExpires
<1>7. CASE Age         BY <1>7 DEF Age
<1>8. CASE UNCHANGED vars BY <1>8 DEF vars
<1>9. QED
  BY <1>1, <1>2, <1>3, <1>4, <1>5, <1>6, <1>7, <1>8 DEF Sweep

(* Whatever the founder, the tasks, the sweep or a death does, the types   *)
(* hold.                                                                   *)
LEMMA TypeNext == TypeInv /\ [Next]_vars => TypeInv'
  BY TypeClick, TypePrepare, TypeEngine, TypeRest DEF Next, Progress

(* Every variable stays in its type: the row holds only the statuses the   *)
(* schema knows, an insert loop never overruns its batches nor an engine   *)
(* its rounds.                                                             *)
THEOREM TypeCorrect == Spec => []TypeOK
<1>1. TypeInv => TypeOK BY DEF TypeInv
<1>2. QED BY TypeInit, TypeNext, <1>1, PTL DEF Spec

-----------------------------------------------------------------------------
(***************************************************************************)
(* One process, nobody presses Stop, and no live work is older than the    *)
(* reaper's deadline.  Under these the compare-and-sets make a claim an    *)
(* ownership.                                                              *)
(*                                                                         *)
(* The strengthening: a task that is unwinding an exception (`raising`)    *)
(* still counts as the one busy task, so nobody claims the row before its  *)
(* on_failure handler has run; and whenever the row is old enough for the  *)
(* sweep, or the sweep holds it, there is no busy task.                    *)
(***************************************************************************)
Quiet == Stops = {} /\ Overrun = FALSE /\ \A p, q \in Procs : p = q

Busy(r) == pc[r] \in Builder \cup Engine \cup {"start_deduct"}

Kinds ==
  /\ \A r \in Prepares : pc[r] \in Builder \cup Resting
  /\ \A r \in Starts : pc[r] \in Engine \cup Resting
                                 \cup {"start_claim", "start_deduct", "eng_report"}
OneBusy == \A q, r \in Clicks : Busy(q) /\ Busy(r) => q = r
RowTells ==
  /\ \A r \in Prepares : Working(r) => status = "preparing"
  /\ \A r \in Starts : Working(r) => status \in {"running", "analyzing"}
SweptIdle ==
  (stale \/ \E p \in Procs : reaper[p] # "none") => \A r \in Clicks : ~ Busy(r)

ExInv == TypeInv /\ Kinds /\ OneBusy /\ RowTells /\ SweptIdle

(* The row as click r leaves it agrees with where r then stands.           *)
Agrees(r) ==
  /\ r \in Prepares => /\ pc'[r] \in Builder \cup Resting
                       /\ Working(r)' => status' = "preparing"
  /\ r \in Starts => /\ pc'[r] \in Engine \cup Resting
                                   \cup {"start_claim", "start_deduct", "eng_report"}
                     /\ Working(r)' => status' \in {"running", "analyzing"}

(* A task that works on the row is a task that has not let go of it.       *)
LEMMA WorkingIsBusy == \A r \in Clicks : Working(r) => Busy(r)
  BY DEF Working, Busy

(* The busy task takes a step: whatever it writes, nobody else is busy.    *)
LEMMA BusyStep ==
  ASSUME ExInv, NEW r \in Clicks, Busy(r), NEW x, Goto(r, x), TypeInv',
         reaper' = reaper, stale' \in {stale, FALSE}, Agrees(r)
  PROVE  ExInv'
<1> USE DEF ExInv, Goto, TypeInv, TypeOK, Clicks
<1>1. \A q \in Clicks \ {r} : ~ Busy(q) /\ ~ Busy(q)' /\ pc'[q] = pc[q]
  BY DEF OneBusy, Busy
<1>2. Kinds' BY <1>1 DEF Kinds, Agrees
<1>3. OneBusy' BY <1>1 DEF OneBusy
<1>4. RowTells'
  <2>1. \A q \in Clicks \ {r} : ~ Working(q)' BY <1>1 DEF Working, Busy
  <2>2. QED BY <2>1 DEF RowTells, Agrees
<1>5. stale = FALSE /\ \A p \in Procs : reaper[p] = "none" BY DEF SweptIdle
<1>6. SweptIdle' BY <1>5 DEF SweptIdle
<1>7. QED BY <1>2, <1>3, <1>4, <1>6

(* A claim: the row was at rest, so nobody was busy, and r becomes it.     *)
LEMMA ClaimStep ==
  ASSUME ExInv, Quiet, NEW r \in Clicks, LoopFree(r), NEW x, Goto(r, x), TypeInv',
         status \notin {"preparing", "running", "analyzing"},
         reaper' = reaper, stale' = FALSE, Agrees(r), r \notin Stops
  PROVE  ExInv'
<1> USE DEF ExInv, Goto, TypeInv, TypeOK, Clicks
<1>1. \A q \in Clicks \ {r} : pc[q] \in Parked BY DEF LoopFree, Quiet
<1>2. \A q \in Clicks : ~ Working(q) BY DEF RowTells, Quiet
<1>3. \A q \in Clicks \ {r} : ~ Busy(q)
  BY <1>1, <1>2 DEF Busy, Working, Parked, Resting
<1>4. \A q \in Clicks \ {r} : pc'[q] = pc[q] /\ ~ Busy(q)' BY <1>3 DEF Busy
<1>5. \A p \in Procs : reaper[p] = "none" BY DEF LoopFree, Quiet
<1>6. Kinds' BY <1>4 DEF Kinds, Agrees
<1>7. OneBusy' BY <1>4 DEF OneBusy
<1>8. RowTells'
  <2>1. \A q \in Clicks \ {r} : ~ Working(q)' BY <1>4 DEF Working, Busy
  <2>2. QED BY <2>1 DEF RowTells, Agrees
<1>9. SweptIdle' BY <1>5 DEF SweptIdle
<1>10. QED BY <1>6, <1>7, <1>8, <1>9

(* A step between two places that are not busy, leaving the status alone.  *)
LEMMA IdleStep ==
  ASSUME ExInv, NEW r \in Clicks, ~ Busy(r), NEW x, Goto(r, x), TypeInv',
         ~ Busy(r)', Agrees(r), status' = status, reaper' = reaper,
         stale' \in {stale, FALSE}
  PROVE  ExInv'
<1> USE DEF ExInv, Goto, TypeInv, TypeOK, Clicks
<1>1. \A q \in Clicks \ {r} : pc'[q] = pc[q] /\ (Busy(q)' <=> Busy(q))
                              /\ (Working(q)' <=> Working(q))
  BY DEF Busy, Working
<1>2. Kinds' BY <1>1 DEF Kinds, Agrees
<1>3. OneBusy' BY <1>1 DEF OneBusy
<1>4. RowTells'
  <2>1. ~ Working(r)' BY DEF Working, Busy
  <2>2. QED BY <1>1, <2>1 DEF RowTells
<1>5. SweptIdle' BY <1>1 DEF SweptIdle
<1>6. QED BY <1>2, <1>3, <1>4, <1>5

(* Nobody works on a simulation that was just created.                     *)
LEMMA ExInit == Init => ExInv
<1> SUFFICES ASSUME Init PROVE ExInv OBVIOUS
<1>1. \A r \in Clicks : pc[r] = "idle" BY DEF Init
<1>2. TypeInv BY TypeInit
<1>3. \A r \in Clicks : ~ Busy(r) /\ ~ Working(r)
  BY <1>1 DEF Busy, Working, Builder, Engine
<1>4. Kinds BY <1>1 DEF Kinds, Resting, Clicks
<1>5. QED BY <1>2, <1>3, <1>4 DEF ExInv, OneBusy, RowTells, SweptIdle, Clicks

(* /prepare and /start: the loser of a compare-and-set leaves no task.     *)
LEMMA ExClick ==
  ASSUME ExInv, Quiet, NEW r \in Clicks, Click(r) \/ HandlerStep(r), TypeInv'
  PROVE  ExInv'
<1> USE DEF At, Goto, WriteIf, Write, Agrees, Busy, Working, Builder, Engine,
            Resting
<1>0. r \notin Stops /\ (r \in Prepares => r \notin Starts)
  BY ClicksAssumption DEF Quiet
<1>1. CASE r \in Prepares /\ PrepareClaim(r)
  <2>1. CASE status \in PreparableStatuses
    BY <1>0, <1>1, <2>1, ClaimStep DEF PrepareClaim, TypeInv, TypeOK
  <2>2. CASE status \notin PreparableStatuses
    BY <1>0, <1>1, <2>2, IdleStep DEF PrepareClaim, ExInv, TypeInv, TypeOK
  <2>3. QED BY <2>1, <2>2
<1>2. CASE r \in Starts /\ StartRead(r)
  BY <1>0, <1>2, IdleStep DEF StartRead, ExInv, TypeInv, TypeOK
<1>3. CASE r \in Starts /\ StartClaim(r)
  <2>1. CASE status \in StartableStatuses
    BY <1>0, <1>3, <2>1, ClaimStep DEF StartClaim, ExInv, TypeInv, TypeOK
  <2>2. CASE status \notin StartableStatuses
    BY <1>0, <1>3, <2>2, IdleStep DEF StartClaim, ExInv, TypeInv, TypeOK
  <2>3. QED BY <2>1, <2>2
<1>4. CASE r \in Starts /\ StartDeduct(r)
  <2>1. status \in {"running", "analyzing"}
    BY <1>4 DEF StartDeduct, ExInv, RowTells
  <2>2. QED BY <1>0, <1>4, <2>1, BusyStep DEF StartDeduct, ExInv, TypeInv, TypeOK
<1>5. QED BY <1>0, <1>1, <1>2, <1>3, <1>4 DEF Click, HandlerStep

(* A preparation writes only while it owns the row.                        *)
LEMMA ExPrepare ==
  ASSUME ExInv, Quiet, NEW r \in Prepares, PrepareStep(r), TypeInv'
  PROVE  ExInv'
<1> USE DEF At, Goto, WriteIf, Write, Agrees, Busy, Working, Builder, Engine,
            Resting
<1>0. r \in Clicks /\ r \notin Starts BY ClicksAssumption DEF Clicks
<1>1. pc[r] \in Builder \ {"raising"}
  BY DEF PrepareStep, PrepareBegin, PrepareMark, PrepareGenerate, PrepareRecheck,
         PrepareDelete, PrepareInsert, PrepareReady, RoomCheck
<1>2. Busy(r) /\ status = "preparing" BY <1>1 DEF ExInv, RowTells
<1> HIDE DEF Busy
<1>3. CASE PrepareBegin(r)
  BY <1>0, <1>2, <1>3, BusyStep
  DEF PrepareBegin, RoomCheck, FailPreparation, ExInv, TypeInv, TypeOK
<1>4. CASE PrepareMark(r)
  BY <1>0, <1>2, <1>4, BusyStep DEF PrepareMark, ExInv, TypeInv, TypeOK
<1>5. CASE PrepareGenerate(r)
  BY <1>0, <1>2, <1>5, BusyStep
  DEF PrepareGenerate, FailPreparation, ExInv, TypeInv, TypeOK
<1>6. CASE PrepareRecheck(r)
  BY <1>0, <1>2, <1>6, BusyStep
  DEF PrepareRecheck, RoomCheck, FailPreparation, ExInv, TypeInv, TypeOK
<1>7. CASE PrepareDelete(r)
  BY <1>0, <1>2, <1>7, BusyStep DEF PrepareDelete, ExInv, TypeInv, TypeOK
<1>8. CASE PrepareInsert(r)
  BY <1>0, <1>2, <1>8, BusyStep DEF PrepareInsert, ExInv, TypeInv, TypeOK
<1>9. CASE PrepareReady(r)
  BY <1>0, <1>2, <1>9, BusyStep DEF PrepareReady, ExInv, TypeInv, TypeOK
<1>10. QED
  BY <1>3, <1>4, <1>5, <1>6, <1>7, <1>8, <1>9 DEF PrepareStep

(* So does an engine, until it has written `complete`.                     *)
LEMMA ExEngine ==
  ASSUME ExInv, Quiet, NEW r \in Starts, EngineStep(r), TypeInv'
  PROVE  ExInv'
<1> USE DEF At, Goto, Write, Agrees, Working, Builder, Engine, Resting
<1>0. r \in Clicks /\ r \notin Prepares BY ClicksAssumption DEF Clicks
<1>1. CASE EngineTail(r)
  BY <1>0, <1>1, IdleStep DEF EngineTail, Busy, ExInv, TypeInv, TypeOK
<1>2. CASE ~ EngineTail(r)
  <2>1. pc[r] \in Engine \ {"raising"}
    BY <1>2 DEF EngineStep, EngineBegin, EngineMark, EngineLoad,
       EngineCheckStop, EngineStop, EngineRound, EngineFail, EngineAnalyze,
       EngineComplete
  <2>2. Busy(r) /\ status \in {"running", "analyzing"}
    BY <2>1 DEF ExInv, RowTells, Busy
  <2> USE <1>0, <2>2, BusyStep DEF ExInv, TypeInv, TypeOK
  <2>3. CASE EngineBegin(r)     BY <2>3 DEF EngineBegin
  <2>4. CASE EngineMark(r)      BY <2>4 DEF EngineMark
  <2>5. CASE EngineLoad(r)      BY <2>5 DEF EngineLoad
  <2>6. CASE EngineCheckStop(r) BY <2>6 DEF EngineCheckStop
  <2>7. CASE EngineStop(r)      BY <2>7 DEF EngineStop
  <2>8. CASE EngineRound(r)     BY <2>8 DEF EngineRound
  <2>9. CASE EngineFail(r)      BY <2>9 DEF EngineFail
  <2>10. CASE EngineAnalyze(r)  BY <2>10 DEF EngineAnalyze
  <2>11. CASE EngineComplete(r) BY <2>11 DEF EngineComplete
  <2>12. QED
    BY <1>2, <2>3, <2>4, <2>5, <2>6, <2>7, <2>8, <2>9, <2>10, <2>11
    DEF EngineStep
<1>3. QED BY <1>1, <1>2

(* An exception unwinds in one breath of the loop, so its handler finds    *)
(* the row as its own task left it.                                        *)
LEMMA ExFailure ==
  ASSUME ExInv, Quiet, NEW r \in Clicks, OnFailure(r) \/ TaskRaises(r), TypeInv'
  PROVE  ExInv'
<1> USE DEF At, Goto, WriteIf, Write, Agrees, Working, Busy, Builder, Engine,
            Resting
<1>1. r \in Prepares \/ r \in Starts BY DEF Quiet, Clicks
<1>2. Busy(r) BY DEF OnFailure, TaskRaises
<1> HIDE DEF Busy
<1>3. CASE OnFailure(r)
  BY <1>1, <1>2, <1>3, BusyStep DEF OnFailure, ExInv, TypeInv, TypeOK
<1>4. CASE TaskRaises(r)
  BY <1>1, <1>2, <1>4, BusyStep, ClicksAssumption
  DEF TaskRaises, ExInv, Kinds, TypeInv, TypeOK
<1>5. QED BY <1>3, <1>4

(* The sweep takes a row only when nothing is alive to own it, and holds   *)
(* the loop until it has closed it; a death can only end tasks.            *)
LEMMA ExRest ==
  ASSUME ExInv, Quiet, TypeInv',
         \/ \E p \in Procs : Sweep(p) \/ Restart(p)
         \/ FlagExpires \/ Age \/ UNCHANGED vars
  PROVE  ExInv'
<1> USE DEF ExInv, Kinds, OneBusy, RowTells, SweptIdle, Write, WriteIf
<1>1. ASSUME NEW p \in Procs, ReaperRead(p) PROVE ExInv'
  BY <1>1 DEF ReaperRead, Busy, Working, TypeInv, TypeOK
<1>2. ASSUME NEW p \in Procs, ReaperClose(p) PROVE ExInv'
  <2>1. \A r \in Clicks : ~ Busy(r) /\ ~ Busy(r)' /\ ~ Working(r)'
    BY <1>2 DEF ReaperClose, Busy, Working
  <2>2. QED BY <1>2, <2>1 DEF ReaperClose, Clicks
<1>3. ASSUME NEW p \in Procs, Restart(p) PROVE ExInv'
  <2>1. \A r \in Clicks : /\ pc'[r] = pc[r] \/ pc'[r] = "lost"
                          /\ Busy(r)' => Busy(r)
                          /\ Working(r)' => Working(r)
    BY <1>3 DEF Restart, Busy, Working, Builder, Engine
  <2>2. \A q \in Procs : reaper'[q] # "none" => reaper[q] # "none"
    BY <1>3 DEF Restart, TypeInv, TypeOK
  <2>3. Kinds' BY <2>1 DEF Resting, Clicks
  <2>4. OneBusy' BY <2>1
  <2>5. RowTells' BY <1>3, <2>1 DEF Restart, Clicks
  <2>6. SweptIdle' BY <1>3, <2>1, <2>2 DEF Restart
  <2>7. QED BY <2>3, <2>4, <2>5, <2>6
<1>4. CASE FlagExpires BY <1>4 DEF FlagExpires, Busy, Working
<1>5. CASE Age
  <2>1. \A r \in Clicks : ~ Busy(r)
    BY <1>5 DEF Age, Quiet, Busy, Builder, Engine, Resting
  <2>2. \A r \in Clicks : (Busy(r)' <=> Busy(r)) /\ (Working(r)' <=> Working(r))
    BY <1>5 DEF Age, Busy, Working
  <2>3. QED BY <1>5, <2>1, <2>2 DEF Age, Clicks
<1>6. CASE UNCHANGED vars BY <1>6 DEF vars, Busy, Working
<1>7. QED BY <1>1, <1>2, <1>3, <1>4, <1>5, <1>6 DEF Sweep

(* No step gives the row a second worker.                                  *)
LEMMA ExNext == ASSUME Quiet PROVE ExInv /\ [Next]_vars => ExInv'
<1> SUFFICES ASSUME ExInv, [Next]_vars PROVE ExInv' OBVIOUS
<1>1. TypeInv' BY TypeNext DEF ExInv
<1>2. QED
  BY <1>1, ExClick, ExPrepare, ExEngine, ExFailure, ExRest DEF Next, Progress

(* In one process, with nobody pressing Stop and the deadline longer than  *)
(* the work, whoever wins the compare-and-set of /prepare or /start is the *)
(* row's only worker until it lets go, however many clicks, failures and   *)
(* restarts there are.                                                     *)
THEOREM ExclusiveWorker == ASSUME Quiet PROVE Spec => []WorkerOwnsRow
<1>1. ExInv => WorkerOwnsRow
  BY WorkingIsBusy DEF ExInv, OneBusy, RowTells, WorkerOwnsRow
<1>2. QED BY ExInit, ExNext, <1>1, PTL DEF Spec

(* Whoever works on the row sees it unfinished; the failure handler and    *)
(* the sweep write only over a status that means work is under way.        *)
LEMMA FinishedStep ==
  ASSUME Quiet, ExInv, [Next]_vars, status \in {"complete", "stopped", "failed"}
  PROVE  status' = status \/ FounderMoves
<1> USE DEF At, Goto, WriteIf, Write
<1>1. ASSUME NEW r \in Clicks, Click(r) \/ HandlerStep(r)
      PROVE  status' = status \/ FounderMoves
  BY <1>1 DEF Click, HandlerStep, StartRead, StopSignal, StartDeduct, FounderMoves
<1>2. ASSUME NEW r \in Prepares, PrepareStep(r) PROVE status' = status
  <2>1. Working(r)
    BY <1>2 DEF PrepareStep, PrepareBegin, PrepareMark, PrepareGenerate,
       PrepareRecheck, PrepareDelete, PrepareInsert, PrepareReady, RoomCheck,
       Working, Builder
  <2>2. QED BY <2>1 DEF ExInv, RowTells
<1>3. ASSUME NEW r \in Starts, EngineStep(r) PROVE status' = status
  <2>1. CASE EngineTail(r) BY <2>1 DEF EngineTail
  <2>2. CASE ~ EngineTail(r)
    <3>1. Working(r)
      BY <1>3, <2>2 DEF EngineStep, EngineBegin, EngineMark, EngineLoad,
         EngineCheckStop, EngineStop, EngineRound, EngineFail, EngineAnalyze,
         EngineComplete, Working, Engine
    <3>2. QED BY <3>1 DEF ExInv, RowTells
  <2>3. QED BY <2>1, <2>2
<1>4. ASSUME NEW r \in Clicks, OnFailure(r) \/ TaskRaises(r) PROVE status' = status
  BY <1>4 DEF OnFailure, TaskRaises
<1>5. ASSUME NEW p \in Procs, Sweep(p) PROVE status' = status
  BY <1>5 DEF Sweep, ReaperRead, ReaperClose, ExInv, TypeInv, TypeOK
<1>6. ASSUME NEW p \in Procs, Restart(p) PROVE status' = status
  BY <1>6 DEF Restart
<1>7. CASE FlagExpires \/ Age \/ UNCHANGED vars
  BY <1>7 DEF FlagExpires, Age, vars
<1>8. QED
  BY <1>1, <1>2, <1>3, <1>4, <1>5, <1>6, <1>7 DEF Next, Progress

(* Under the same conditions a run that has ended stays as it ended until  *)
(* the founder prepares or starts it: no task, failure handler or sweep    *)
(* that comes late writes over it.                                         *)
THEOREM EndedRunIsLeftAlone == ASSUME Quiet PROVE Spec => FinishedStaysFinished
<1>1. ExInv /\ [Next]_vars =>
        [(status \in {"complete", "stopped", "failed"} /\ status' # status)
           => FounderMoves]_vars
  BY FinishedStep
<1>2. QED BY ExInit, ExNext, <1>1, PTL DEF Spec, FinishedStaysFinished

-----------------------------------------------------------------------------
(***************************************************************************)
(* What one process is enough for, with Stop: nothing moves between the    *)
(* sweep's read and its close, and, with work past the deadline too,       *)
(* nothing between the delete of an old room and the last insert of a new  *)
(* one.                                                                    *)
(***************************************************************************)
OneProcess == \A p, q \in Procs : p = q

SweepHoldsStale == \A p \in Procs : reaper[p] # "none" => stale

(* A step of a click finds no sweep under way, and starts none.            *)
LEMMA ClicksFindNoSweep ==
  ASSUME TypeInv, OneProcess, NEW r \in Clicks, Click(r) \/ Progress(r) \/ TaskRaises(r)
  PROVE  reaper' = reaper /\ \A p \in Procs : reaper[p] = "none"
<1>1. LoopFree(r)
  BY DEF Click, Progress, TaskRaises, HandlerStep, PrepareStep, EngineStep, OnFailure,
     PrepareClaim, StartRead, StopSignal, StartClaim, StartDeduct, StopWrite,
     PrepareBegin, PrepareMark, PrepareGenerate, PrepareRecheck, PrepareDelete,
     PrepareInsert, PrepareReady, RoomCheck, EngineBegin, EngineMark, EngineLoad,
     EngineCheckStop, EngineStop, EngineRound, EngineFail, EngineAnalyze,
     EngineComplete, EngineTail, At
<1>2. reaper' = reaper
  BY DEF Click, Progress, TaskRaises, HandlerStep, PrepareStep, EngineStep, OnFailure,
     PrepareClaim, StartRead, StopSignal, StartClaim, StartDeduct, StopWrite,
     PrepareBegin, PrepareMark, PrepareGenerate, PrepareRecheck, PrepareDelete,
     PrepareInsert, PrepareReady, RoomCheck, EngineBegin, EngineMark, EngineLoad,
     EngineCheckStop, EngineStop, EngineRound, EngineFail, EngineAnalyze,
     EngineComplete, EngineTail
<1>3. QED BY <1>1, <1>2 DEF LoopFree, OneProcess, TypeInv, TypeOK

(* A sweep under way has read a stale row, and it is still that row.       *)
LEMMA SweepStep ==
  ASSUME TypeInv, OneProcess, SweepHoldsStale, [Next]_vars PROVE SweepHoldsStale'
<1> USE DEF SweepHoldsStale
<1>1. ASSUME NEW r \in Clicks, Click(r) \/ Progress(r) \/ TaskRaises(r)
      PROVE  SweepHoldsStale'
  BY <1>1, ClicksFindNoSweep
<1>2. ASSUME NEW p \in Procs, Sweep(p) PROVE SweepHoldsStale'
  BY <1>2 DEF Sweep, ReaperRead, ReaperClose, OneProcess, TypeInv, TypeOK
<1>3. ASSUME NEW p \in Procs, Restart(p) PROVE SweepHoldsStale'
  BY <1>3 DEF Restart, OneProcess, TypeInv, TypeOK
<1>4. CASE FlagExpires \/ Age \/ UNCHANGED vars
  BY <1>4 DEF FlagExpires, Age, vars
<1>5. QED BY <1>1, <1>2, <1>3, <1>4 DEF Next

(* A row past the deadline has no task left: while none could outlast it,  *)
(* and a claim, the only way to a new one, starts the clock again.         *)
AgedIsIdle == stale => \A r \in Clicks : ~ Working(r)

(* Whoever begins to work has made the row young.                          *)
LEMMA BeginsYoung ==
  ASSUME TypeInv, NEW r \in Clicks, Click(r) \/ Progress(r) \/ TaskRaises(r),
         ~ Working(r)
  PROVE  ~ stale' \/ ~ Working(r)'
<1> USE DEF TypeInv, TypeOK, At, Goto, Working
<1>1. CASE Click(r)
  BY <1>1 DEF Click, PrepareClaim, StartRead, StopSignal, WriteIf, Write, Builder, Engine
<1>2. CASE HandlerStep(r)
  BY <1>2 DEF HandlerStep, StartClaim, StartDeduct, StopWrite, WriteIf, Write, Builder, Engine
<1>3. CASE r \in Prepares /\ PrepareStep(r)
  <2>1. pc[r] \in Builder \ {"raising"}
    BY <1>3 DEF PrepareStep, PrepareBegin, PrepareMark, PrepareGenerate, PrepareRecheck,
       PrepareDelete, PrepareInsert, PrepareReady, RoomCheck, Builder
  <2>2. QED BY <2>1
<1>4. CASE r \in Starts /\ EngineStep(r)
  <2>1. CASE EngineTail(r) BY <2>1 DEF EngineTail, Write
  <2>2. CASE ~ EngineTail(r)
    <3>1. pc[r] \in Engine \ {"raising"}
      BY <1>4, <2>2 DEF EngineStep, EngineBegin, EngineMark, EngineLoad, EngineCheckStop,
         EngineStop, EngineRound, EngineFail, EngineAnalyze, EngineComplete, Engine
    <3>2. QED BY <3>1
  <2>3. QED BY <2>1, <2>2
<1>5. CASE OnFailure(r) \/ TaskRaises(r)
  BY <1>5 DEF OnFailure, TaskRaises, Builder, Engine
<1>6. QED BY <1>1, <1>2, <1>3, <1>4, <1>5 DEF Progress

(* A click or a task moves nobody else, and can only make the row younger. *)
LEMMA MovesItself ==
  ASSUME TypeInv, NEW r \in Clicks, Click(r) \/ Progress(r) \/ TaskRaises(r)
  PROVE  stale' \in {stale, FALSE} /\ \A q \in Clicks \ {r} : pc'[q] = pc[q]
<1> USE DEF TypeInv, TypeOK, Goto, WriteIf, Write
<1>1. CASE Click(r)
  BY <1>1 DEF Click, PrepareClaim, StartRead, StopSignal, rowVars
<1>2. CASE HandlerStep(r)
  BY <1>2 DEF HandlerStep, StartClaim, StartDeduct, StopWrite, rowVars
<1>3. CASE r \in Prepares /\ PrepareStep(r)
  BY <1>3 DEF PrepareStep, PrepareBegin, PrepareMark, PrepareGenerate, PrepareRecheck,
     PrepareDelete, PrepareInsert, PrepareReady, RoomCheck, FailPreparation, rowVars
<1>4. CASE r \in Starts /\ EngineStep(r)
  BY <1>4 DEF EngineStep, EngineBegin, EngineMark, EngineLoad, EngineCheckStop, EngineStop,
     EngineRound, EngineFail, EngineAnalyze, EngineComplete, EngineTail, rowVars
<1>5. CASE OnFailure(r) \/ TaskRaises(r)
  BY <1>5 DEF OnFailure, TaskRaises, rowVars
<1>6. QED BY <1>1, <1>2, <1>3, <1>4, <1>5 DEF Progress

(* No row ages while somebody works on it, and whoever begins writes it.   *)
LEMMA AgedStep ==
  ASSUME TypeInv, Overrun = FALSE, AgedIsIdle, [Next]_vars PROVE AgedIsIdle'
<1>1. ASSUME NEW r \in Clicks, Click(r) \/ Progress(r) \/ TaskRaises(r)
      PROVE  AgedIsIdle'
  <2> SUFFICES ASSUME stale', NEW q \in Clicks' PROVE ~ Working(q)'
    BY DEF AgedIsIdle
  <2>1. stale /\ \A c \in Clicks \ {r} : pc'[c] = pc[c]
    BY <1>1, MovesItself DEF TypeInv, TypeOK
  <2>2. ~ Working(r) /\ ~ Working(q)  BY <2>1 DEF AgedIsIdle, Clicks
  <2>3. CASE q = r  BY <1>1, <2>2, <2>3, BeginsYoung
  <2>4. CASE q # r  BY <2>1, <2>2, <2>4 DEF Working, Clicks
  <2>5. QED BY <2>3, <2>4
<1>2. ASSUME NEW p \in Procs, Sweep(p) PROVE AgedIsIdle'
  BY <1>2 DEF Sweep, ReaperRead, ReaperClose, WriteIf, Write, rowVars, AgedIsIdle, Working, Clicks
<1>3. ASSUME NEW p \in Procs, Restart(p) PROVE AgedIsIdle'
  BY <1>3 DEF Restart, rowVars, AgedIsIdle, Working, Clicks, Builder, Engine
<1>4. CASE Age
  BY <1>4 DEF Age, AgedIsIdle, Working, Clicks, Resting, Builder, Engine
<1>5. CASE FlagExpires \/ UNCHANGED vars
  BY <1>5 DEF FlagExpires, vars, rowVars, AgedIsIdle, Working, Clicks
<1>6. QED BY <1>1, <1>2, <1>3, <1>4, <1>5 DEF Next

(* While no work outlasts the deadline, one process's sweep closes no run  *)
(* that anybody still prepares or runs, however long its row had rested    *)
(* before, and whatever is clicked, /stop and a second start included.     *)
THEOREM SweepTakesFromNobody ==
  ASSUME OneProcess, Overrun = FALSE PROVE Spec => SweepSparesTheLiving
<1> DEFINE Swept == TypeInv /\ SweepHoldsStale /\ AgedIsIdle
<1>1. Init => Swept
  BY TypeInit DEF Init, SweepHoldsStale, AgedIsIdle
<1>2. Swept /\ [Next]_vars => Swept'
  <2>1. ASSUME Swept, [Next]_vars PROVE TypeInv'
    BY <2>1, TypeNext
  <2>2. ASSUME Swept, [Next]_vars PROVE SweepHoldsStale'
    BY <2>2, SweepStep
  <2>3. ASSUME Swept, [Next]_vars PROVE AgedIsIdle'
    <3>1. Overrun = FALSE  OBVIOUS
    <3>2. QED BY <2>3, <3>1, AgedStep, Zenon
  <2>4. QED BY <2>1, <2>2, <2>3
<1>3. Swept /\ [Next]_vars =>
        [(\E p \in Procs : ReaperClose(p)) /\ status' # status
           => \A r \in Clicks : ~ Working(r)]_vars
  BY DEF SweepHoldsStale, AgedIsIdle, ReaperClose
<1>4. QED BY <1>1, <1>2, <1>3, PTL DEF Spec, SweepSparesTheLiving

-----------------------------------------------------------------------------
(* While a preparation inserts, the room is empty but for its own people;  *)
(* and who has posted is still there, or the delete would have raised.     *)
Fills == \A r \in Prepares : pc[r] = "prep_insert" =>
           \A q \in Prepares : swarm[q] > 0 => q = r
PostersStay == \A p \in posted : swarm[p] > 0
RoomInv == OneRoom /\ Fills /\ PostersStay

(* A step that leaves the room alone and lets nobody begin to insert.      *)
LEMMA RoomUntouched ==
  ASSUME RoomInv, swarm' = swarm, posted' = posted,
         \A r \in Prepares : pc'[r] = "prep_insert" => pc[r] = "prep_insert"
  PROVE  RoomInv'
  BY DEF RoomInv, OneRoom, Fills, PostersStay

(* The three steps that do touch it: the delete, an insert, a round.       *)
LEMMA RoomStep ==
  ASSUME TypeInv, OneProcess, RoomInv, NEW r \in Clicks,
         \/ r \in Prepares /\ (PrepareDelete(r) \/ PrepareInsert(r))
         \/ r \in Starts /\ EngineRound(r)
  PROVE  RoomInv'
<1> USE DEF At, Goto, TypeInv, TypeOK, Clicks
<1>1. \A q \in Prepares \ {r} : pc[q] # "prep_insert"
  BY DEF PrepareDelete, PrepareInsert, EngineRound, LoopFree, OneProcess, Parked, Resting
<1>2. CASE r \in Prepares /\ PrepareDelete(r)
  <2>1. CASE posted # {} BY <1>2, <2>1, RoomUntouched DEF PrepareDelete
  <2>2. CASE posted = {}
    BY <1>2, <2>2 DEF PrepareDelete, NoRoom, RoomInv, OneRoom, Fills, PostersStay
  <2>3. QED BY <2>1, <2>2
<1>3. CASE r \in Prepares /\ PrepareInsert(r)
  <2>1. \A q \in Prepares \ {r} : swarm[q] = 0 /\ swarm'[q] = 0
    BY <1>3 DEF PrepareInsert, RoomInv, Fills
  <2>2. swarm'[r] > 0 BY <1>3 DEF PrepareInsert
  <2>3. OneRoom'
    BY <1>3, <2>1 DEF PrepareInsert, RoomInv, OneRoom
  <2>4. Fills' BY <1>1, <1>3, <2>1 DEF PrepareInsert, Fills
  <2>5. PostersStay' BY <1>3, <2>1, <2>2 DEF PrepareInsert, RoomInv, PostersStay
  <2>6. QED BY <2>3, <2>4, <2>5 DEF RoomInv
<1>4. CASE r \in Starts /\ EngineRound(r)
  <2>1. swarm' = swarm /\ \A q \in Prepares : pc'[q] = "prep_insert" => pc[q] = "prep_insert"
    BY <1>4 DEF EngineRound
  <2>2. \A p \in posted' : p \in Prepares /\ swarm[p] > 0
    <3>1. CASE posted' = posted BY <3>1 DEF RoomInv, PostersStay
    <3>2. CASE /\ \A p \in Prepares : roster[r][p] <= swarm[p]
               /\ posted' = posted \cup {p \in Prepares : roster[r][p] > 0}
      BY <1>4, <3>2 DEF RoomInv, PostersStay
    <3>3. QED BY <1>4, <3>1, <3>2 DEF EngineRound
  <2>3. QED BY <2>1, <2>2 DEF RoomInv, OneRoom, Fills, PostersStay
<1>5. QED BY <1>2, <1>3, <1>4

(* Nobody else touches the room.                                           *)
LEMMA RoomRest ==
  ASSUME TypeInv, RoomInv, [Next]_vars,
         ~ \E r \in Prepares : PrepareDelete(r) \/ PrepareInsert(r),
         ~ \E r \in Starts : EngineRound(r)
  PROVE  RoomInv'
<1> USE DEF At, Goto, WriteIf, Write, TypeInv, TypeOK
<1>1. ASSUME NEW r \in Clicks, Click(r) \/ HandlerStep(r) PROVE RoomInv'
  BY <1>1, RoomUntouched DEF Click, HandlerStep, PrepareClaim, StartRead, StopSignal,
     StartClaim, StartDeduct, StopWrite, Clicks
<1>2. ASSUME NEW r \in Prepares, PrepareStep(r) PROVE RoomInv'
  BY <1>2, RoomUntouched DEF PrepareStep, PrepareBegin, PrepareMark, PrepareGenerate,
     PrepareRecheck, PrepareReady, RoomCheck, FailPreparation, Clicks
<1>3. ASSUME NEW r \in Starts, EngineStep(r) PROVE RoomInv'
  BY <1>3, RoomUntouched DEF EngineStep, EngineBegin, EngineMark, EngineLoad,
     EngineCheckStop, EngineStop, EngineFail, EngineAnalyze, EngineComplete,
     EngineTail, Clicks
<1>4. ASSUME NEW r \in Clicks, OnFailure(r) \/ TaskRaises(r) PROVE RoomInv'
  BY <1>4, RoomUntouched DEF OnFailure, TaskRaises, Clicks
<1>5. ASSUME NEW p \in Procs, Sweep(p) \/ Restart(p) PROVE RoomInv'
  BY <1>5, RoomUntouched DEF Sweep, ReaperRead, ReaperClose, Restart, Clicks
<1>6. CASE FlagExpires \/ Age \/ UNCHANGED vars
  BY <1>6, RoomUntouched DEF FlagExpires, Age, vars
<1>7. QED
  BY <1>1, <1>2, <1>3, <1>4, <1>5, <1>6 DEF Next, Progress

(* In one process a room never holds the people of two preparations, and   *)
(* nobody of another preparation has ever spoken in it: not after a        *)
(* failure between two inserts, a stop, or a preparation that outlasted    *)
(* its deadline.                                                           *)
THEOREM RoomsAreNeverMixed == ASSUME OneProcess PROVE Spec => []OneRoom
<1>1. Init => TypeInv /\ RoomInv
  BY TypeInit DEF Init, RoomInv, OneRoom, Fills, PostersStay, NoRoom
<1>2. TypeInv /\ RoomInv /\ [Next]_vars => (TypeInv /\ RoomInv)'
  <2> SUFFICES ASSUME TypeInv, RoomInv, [Next]_vars PROVE TypeInv' /\ RoomInv' OBVIOUS
  <2>1. TypeInv' BY TypeNext
  <2>2. RoomInv' BY RoomStep, RoomRest DEF Clicks
  <2>3. QED BY <2>1, <2>2
<1>3. RoomInv => OneRoom BY DEF RoomInv
<1>4. QED BY <1>1, <1>2, <1>3, PTL DEF Spec

-----------------------------------------------------------------------------

(* The cardinality Resimulation counts with is the cardinality.            *)
LEMMA Counted == \A S : Resim!Cardinality(S) = Cardinality(S)
BY DEF Resim!Cardinality, Cardinality

(* Every run has its columns, and an id that was not given out before.     *)
Columned(x) ==
  x = [status |-> x.status, parent |-> x.parent, assets |-> x.assets, variants |-> x.variants,
       copies |-> x.copies, people |-> x.people, arenas |-> x.arenas, read |-> x.read,
       spoke |-> x.spoke]
(* Only a room with people in it speaks, and only one that spoke finishes. *)
Lived(x) == (x.status = "complete" => x.spoke) /\ (x.spoke => x.people # "none")
(* What others are compared with is still there in y.                      *)
KeepsPast(x, y) ==
  y.parent = x.parent /\ y.assets = x.assets /\ (x.spoke => y.spoke)
Fresh ==
  /\ gone = [runs |-> gone.runs, assets |-> gone.assets] /\ gone.runs \in Nat
  /\ IsFiniteSet(Resim!Ids(runs)) /\ Resim!Ids(runs) \subseteq Nat
  /\ \A r \in Resim!Ids(runs) : r < Resim!NextRun
KeptInv ==
  /\ Fresh /\ \A r \in Resim!Ids(runs) : Columned(runs[r]) /\ Lived(runs[r])
  /\ Resim!BeforeIsKept

LEMMA NextIsNew ==
  ASSUME Fresh
  PROVE  Resim!NextRun \in Nat /\ Resim!NextRun \notin Resim!Ids(runs) /\ Cardinality(Resim!Ids(runs)) \in Nat
BY FS_CardinalityType, Counted DEF Fresh, Resim!NextRun

(* A step that silences no run and moves no parent.                        *)
LEMMA Onward ==
  ASSUME KeptInv, UNCHANGED results, gone'.runs = gone.runs,
         gone' = [runs |-> gone'.runs, assets |-> gone'.assets],
         DOMAIN runs' = DOMAIN runs,
         \A c \in Resim!Ids(runs) :
           Columned(runs'[c]) /\ Lived(runs'[c]) /\ KeepsPast(runs[c], runs'[c])
  PROVE  KeptInv'
<1>1. Resim!NextRun' = Resim!NextRun /\ Fresh'  BY Counted DEF KeptInv, Fresh, Resim!NextRun, Resim!Ids
<1>2. Resim!BeforeIsKept'  BY DEF KeptInv, Resim!BeforeIsKept, Resim!Ids, KeepsPast, Lived
<1>3. QED  BY <1>1, <1>2 DEF KeptInv, Resim!Ids

(* The same, of one row.                                                   *)
LEMMA OneRow ==
  ASSUME KeptInv, UNCHANGED <<results, gone>>, NEW r \in Resim!Ids(runs), NEW row, Columned(row),
         runs' = [runs EXCEPT ![r] = row], Lived(row), KeepsPast(runs[r], row)
  PROVE  KeptInv'
<1>1. DOMAIN runs' = DOMAIN runs /\ runs'[r] = row
      /\ \A c \in Resim!Ids(runs) \ {r} : runs'[c] = runs[c]
  BY DEF Resim!Ids
<1>2. gone' = [runs |-> gone'.runs, assets |-> gone'.assets]  BY DEF KeptInv, Fresh
<1>3. QED  BY <1>1, <1>2, Onward DEF KeptInv, KeepsPast

(* A new run: nothing refers to its id, and its own before has spoken.     *)
LEMMA NewRow ==
  ASSUME KeptInv, UNCHANGED <<results, gone>>, NEW row, Columned(row),
         runs' = Resim!With(runs, Resim!NextRun, row), Lived(row),
         row.assets # {} => row.parent \in Resim!Ids(runs) /\ runs[row.parent].spoke
  PROVE  KeptInv'
<1>1. Resim!NextRun \in Nat /\ Resim!NextRun \notin Resim!Ids(runs) /\ Cardinality(Resim!Ids(runs)) \in Nat
  BY NextIsNew DEF KeptInv
<1>2. /\ DOMAIN runs' = DOMAIN runs \cup {Resim!NextRun} /\ runs'[Resim!NextRun] = row
      /\ \A c \in DOMAIN runs : runs'[c] = runs[c]
  BY <1>1 DEF Resim!With, Resim!Ids
<1>3. IsFiniteSet(Resim!Ids(runs')) /\ Cardinality(Resim!Ids(runs')) = Cardinality(Resim!Ids(runs)) + 1
  BY <1>1, <1>2, FS_AddElement DEF KeptInv, Fresh, Resim!Ids
<1>4. Resim!NextRun' = Resim!NextRun + 1  BY Counted, <1>1, <1>3 DEF Resim!NextRun, KeptInv, Fresh
<1>5. Fresh'  BY <1>1, <1>2, <1>3, <1>4 DEF KeptInv, Fresh, Resim!Ids
<1>6. Resim!BeforeIsKept'
  <2>1. \A c \in Resim!Ids(runs) : runs[c].assets # {} => runs[c].parent \in Resim!Ids(runs)
    BY DEF KeptInv, Resim!BeforeIsKept
  <2>2. QED  BY <1>1, <1>2, <2>1 DEF KeptInv, Resim!BeforeIsKept, Resim!Ids, Lived
<1>7. QED  BY <1>2, <1>5, <1>6 DEF KeptInv, Resim!Ids

(* The comparison is stored against the parent the run has.                *)
LEMMA Compared ==
  ASSUME KeptInv, NEW c \in Resim!Ids(runs), results' = Resim!PutResult(c), UNCHANGED gone,
         DOMAIN runs' = DOMAIN runs,
         \A r \in Resim!Ids(runs) :
           Columned(runs'[r]) /\ Lived(runs'[r]) /\ KeepsPast(runs[r], runs'[r])
  PROVE  KeptInv'
<1>1. Resim!NextRun' = Resim!NextRun /\ Fresh'  BY Counted DEF KeptInv, Fresh, Resim!NextRun, Resim!Ids
<1>2. \A x \in results' : x.child \in Resim!Ids(runs) /\ runs[x.child].parent = x.parent
  BY DEF Resim!PutResult, Resim!Measured, KeptInv, Resim!BeforeIsKept
<1>3. Resim!BeforeIsKept'  BY <1>2 DEF KeptInv, Resim!BeforeIsKept, Resim!Ids, KeepsPast, Lived
<1>4. QED  BY <1>1, <1>3 DEF KeptInv, Resim!Ids

(* DELETE: what is left keeps its before, since the row was nobody's.      *)
LEMMA DeletionKeeps ==
  ASSUME KeptInv, NEW r \in Resim!Ids(runs), Resim!DeleteRun(r)
  PROVE  KeptInv'
<1>1. \A c \in Resim!Ids(runs) : runs[c].parent # r /\ Columned(runs[c])
  BY DEF Resim!DeleteRun, Resim!MayDelete, KeptInv
<1>2. DOMAIN runs' = DOMAIN runs \ {r} /\ \A c \in DOMAIN runs \ {r} : runs'[c] = runs[c]
  <2>1. runs' = [c \in Resim!Ids(runs) \ {r} |->
                   [runs[c] EXCEPT !.parent = IF @ = r THEN Resim!NoRun ELSE @]]
    BY DEF Resim!DeleteRun
  <2>2. ASSUME NEW c \in Resim!Ids(runs) \ {r}
        PROVE  [runs[c] EXCEPT !.parent = IF @ = r THEN Resim!NoRun ELSE @] = runs[c]
    BY <1>1 DEF Columned
  <2>3. QED  BY <2>1, <2>2 DEF Resim!Ids
<1>3. /\ IsFiniteSet(Resim!Ids(runs')) /\ Cardinality(Resim!Ids(runs')) = Cardinality(Resim!Ids(runs)) - 1
      /\ Cardinality(Resim!Ids(runs)) \in Nat
  BY <1>2, FS_RemoveElement, FS_CardinalityType DEF KeptInv, Fresh, Resim!Ids
<1>4. gone'.runs = gone.runs + 1 /\ gone' = [runs |-> gone'.runs, assets |-> gone'.assets]
  BY DEF Resim!DeleteRun
<1>5. Resim!NextRun' = Resim!NextRun  BY Counted, <1>3, <1>4 DEF Resim!NextRun, KeptInv, Fresh
<1>6. Fresh'  BY <1>2, <1>3, <1>4, <1>5 DEF KeptInv, Fresh, Resim!Ids
<1>7. Resim!BeforeIsKept'  BY <1>1, <1>2 DEF Resim!DeleteRun, KeptInv, Resim!BeforeIsKept, Resim!Ids
<1>8. QED  BY <1>2, <1>6, <1>7 DEF KeptInv, Resim!Ids

(* A column at a time: the row keeps its shape, its parent, its assets and *)
(* the other columns of its past.                                          *)
Beside(x, y) == Columned(y) /\ y.parent = x.parent /\ y.assets = x.assets
SamePast(x, y) == y.status = x.status /\ y.people = x.people /\ y.spoke = x.spoke

(* The status.                                                             *)
LEMMA SetStatus ==
  ASSUME NEW x, Columned(x), NEW v
  PROVE  /\ Beside(x, [x EXCEPT !.status = v]) /\ [x EXCEPT !.status = v].status = v
         /\ [x EXCEPT !.status = v].people = x.people /\ [x EXCEPT !.status = v].spoke = x.spoke
BY DEF Columned, Beside, SamePast

(* The people.                                                             *)
LEMMA SetPeople ==
  ASSUME NEW x, Columned(x), NEW v
  PROVE  /\ Beside(x, [x EXCEPT !.people = v]) /\ [x EXCEPT !.people = v].status = x.status
         /\ [x EXCEPT !.people = v].people = v /\ [x EXCEPT !.people = v].spoke = x.spoke
BY DEF Columned, Beside, SamePast

(* What they said.                                                         *)
LEMMA SetSpoke ==
  ASSUME NEW x, Columned(x), NEW v
  PROVE  /\ Beside(x, [x EXCEPT !.spoke = v]) /\ [x EXCEPT !.spoke = v].status = x.status
         /\ [x EXCEPT !.spoke = v].people = x.people /\ [x EXCEPT !.spoke = v].spoke = v
BY DEF Columned, Beside, SamePast

(* The variants a run is priced for, and the copies it holds.              *)
LEMMA SetVariantsOf ==
  ASSUME NEW x, Columned(x), NEW v
  PROVE  /\ Beside(x, [x EXCEPT !.variants = v]) /\ SamePast(x, [x EXCEPT !.variants = v])
         /\ Beside(x, [x EXCEPT !.copies = v]) /\ SamePast(x, [x EXCEPT !.copies = v])
BY DEF Columned, Beside, SamePast

(* What the engine loads.                                                  *)
LEMMA SetLoaded ==
  ASSUME NEW x, Columned(x), NEW v
  PROVE  /\ Beside(x, [x EXCEPT !.arenas = v]) /\ SamePast(x, [x EXCEPT !.arenas = v])
         /\ Beside(x, [x EXCEPT !.read = v]) /\ SamePast(x, [x EXCEPT !.read = v])
BY DEF Columned, Beside, SamePast

(* What a founder does to a run of their own.                              *)
LEMMA RunsKept ==
  ASSUME KeptInv, NEW r \in Resim!Ids(runs)
  PROVE  /\ \A n \in 0..PlanVariants : Resim!SetVariants(r, n) => KeptInv'
         /\ \A built \in {"none", "part", "all"} : Resim!Prepare(r, built) => KeptInv'
         /\ \A lost \in BOOLEAN : Resim!Start(r, lost) => KeptInv'
         /\ \A s \in {"complete", "failed"}, spoken \in BOOLEAN : Resim!FinishAlone(r, s, spoken) => KeptInv'
<1>0. Columned(runs[r]) /\ Lived(runs[r])  BY DEF KeptInv
<1>1. ASSUME NEW n \in 0..PlanVariants, Resim!SetVariants(r, n) PROVE KeptInv'
  <2> DEFINE v == IF n = 0 THEN 1 ELSE n
             mid == [runs[r] EXCEPT !.copies = n]
             row == [mid EXCEPT !.variants = v]
  <2>1. Beside(runs[r], mid) /\ SamePast(runs[r], mid)  BY <1>0, SetVariantsOf
  <2>2. Beside(mid, row) /\ SamePast(mid, row)
    <3> HIDE DEF mid, v
    <3>1. QED  BY <2>1, SetVariantsOf DEF Beside
  <2>3. runs' = [runs EXCEPT ![r] = row] /\ UNCHANGED <<results, gone>>  BY <1>1 DEF Resim!SetVariants
  <2> HIDE DEF row, mid
  <2>4. Columned(row) /\ Lived(row) /\ KeepsPast(runs[r], row)
    BY <1>0, <2>1, <2>2 DEF Beside, SamePast, Lived, KeepsPast
  <2>5. QED  BY <2>3, <2>4, OneRow
<1>2. ASSUME NEW built \in {"none", "part", "all"}, Resim!Prepare(r, built) PROVE KeptInv'
  <2> DEFINE st == IF built = "all" THEN "ready" ELSE "failed"
             mid == [runs[r] EXCEPT !.status = st]
             row == [mid EXCEPT !.people = built]
  <2>0. st # "complete"  OBVIOUS
  <2> HIDE DEF st
  <2>1. Beside(runs[r], mid) /\ mid.status = st /\ mid.spoke = runs[r].spoke
    BY <1>0, SetStatus
  <2>2. Beside(mid, row) /\ row.status = mid.status /\ row.spoke = mid.spoke
    <3> HIDE DEF mid
    <3>1. QED  BY <2>1, SetPeople DEF Beside
  <2>3. /\ runs' = [runs EXCEPT ![r] = row] /\ UNCHANGED <<results, gone>>
        /\ ~ runs[r].spoke /\ st # "complete"
    BY <1>2, <2>0 DEF Resim!Prepare, st
  <2> HIDE DEF row, mid, st
  <2>4. Columned(row) /\ Lived(row) /\ KeepsPast(runs[r], row)
    BY <2>1, <2>2, <2>3 DEF Beside, Lived, KeepsPast
  <2>5. QED  BY <2>3, <2>4, OneRow
<1>3. ASSUME NEW lost \in BOOLEAN, Resim!Start(r, lost) PROVE KeptInv'
  <2> DEFINE opened == IF lost \/ runs[r].copies = 0 THEN 1 ELSE runs[r].copies
             texts  == [a \in runs[r].assets \cap Resim!Ids(assets) |-> assets[a].copy]
             one == [runs[r] EXCEPT !.status = "running"]
             two == [one EXCEPT !.arenas = opened]
             row == [two EXCEPT !.read = texts]
  <2>1. runs' = [runs EXCEPT ![r] = row] /\ UNCHANGED <<results, gone>>  BY <1>3 DEF Resim!Start
  <2> HIDE DEF opened, texts
  <2>2. /\ Beside(runs[r], one) /\ one.status = "running"
        /\ one.people = runs[r].people /\ one.spoke = runs[r].spoke
    BY <1>0, SetStatus
  <2> HIDE DEF one
  <2>3. Beside(one, two) /\ SamePast(one, two)    BY <2>2, SetLoaded DEF Beside
  <2> HIDE DEF two
  <2>4. Beside(two, row) /\ SamePast(two, row)  BY <2>3, SetLoaded DEF Beside
  <2> HIDE DEF row
  <2>5. Columned(row) /\ Lived(row) /\ KeepsPast(runs[r], row)
    BY <1>0, <2>2, <2>3, <2>4 DEF Beside, SamePast, Lived, KeepsPast
  <2>6. QED  BY <2>1, <2>5, OneRow
<1>4. ASSUME NEW s \in {"complete", "failed"}, NEW spoken \in BOOLEAN, Resim!FinishAlone(r, s, spoken)
      PROVE  KeptInv'
  <2> DEFINE ever == runs[r].spoke \/ spoken
             mid == [runs[r] EXCEPT !.status = s]
             row == [mid EXCEPT !.spoke = ever]
  <2>1. Beside(runs[r], mid) /\ mid.status = s /\ mid.people = runs[r].people
    BY <1>0, SetStatus
  <2>2. Beside(mid, row) /\ row.status = s /\ row.people = runs[r].people /\ row.spoke = ever
    <3> HIDE DEF mid, ever
    <3>1. Beside(mid, row) /\ row.status = mid.status /\ row.people = mid.people
          /\ row.spoke = ever
      BY <2>1, SetSpoke DEF Beside
    <3>2. QED  BY <2>1, <3>1
  <2>3. /\ runs' = [runs EXCEPT ![r] = row] /\ UNCHANGED <<results, gone>>
        /\ (s = "complete" => spoken) /\ (spoken => runs[r].people # "none")
    <3>1. runs' = [runs EXCEPT ![r] = row]
      <4>1. runs' = [runs EXCEPT ![r].status = s, ![r].spoke = runs[r].spoke \/ spoken]
        BY <1>4 DEF Resim!FinishAlone
      <4>2. QED  BY <4>1 DEF Resim!Ids
    <3>2. QED  BY <1>4, <3>1 DEF Resim!FinishAlone
  <2> HIDE DEF row, mid
  <2>4. Columned(row) /\ Lived(row) /\ KeepsPast(runs[r], row)
    <3>1. Columned(row)  BY <2>2 DEF Beside
    <3>2. row.status = "complete" => row.spoke  BY <2>2, <2>3
    <3>3. row.spoke => row.people # "none"  BY <1>0, <2>2, <2>3 DEF Lived
    <3>4. runs[r].spoke => row.spoke  BY <2>2
    <3>5. row.parent = runs[r].parent /\ row.assets = runs[r].assets
      BY <2>1, <2>2 DEF Beside
    <3>6. QED  BY <3>1, <3>2, <3>3, <3>4, <3>5 DEF Lived, KeepsPast
  <2>5. QED  BY <2>3, <2>4, OneRow
<1>5. QED  BY <1>1, <1>2, <1>3, <1>4

(* A comparison, at the end of the run or built again.                     *)
LEMMA ComparisonsKept ==
  ASSUME KeptInv, NEW c \in Resim!Ids(runs)
  PROVE  /\ Resim!FinishMeasured(c) => KeptInv'
         /\ Resim!Rebuild(c) => KeptInv'
<1>0. \A r \in Resim!Ids(runs) : Columned(runs[r]) /\ Lived(runs[r]) /\ KeepsPast(runs[r], runs[r])
  BY DEF KeptInv, KeepsPast
<1>1. ASSUME Resim!FinishMeasured(c) PROVE KeptInv'
  <2> DEFINE mid == [runs[c] EXCEPT !.status = "complete"]
             row == [mid EXCEPT !.spoke = TRUE]
  <2>1. Beside(runs[c], mid) /\ mid.status = "complete" /\ mid.people = runs[c].people
    BY <1>0, SetStatus
  <2>2. Beside(mid, row) /\ row.status = "complete" /\ row.people = mid.people /\ row.spoke = TRUE
    <3> HIDE DEF mid
    <3>1. Beside(mid, row) /\ row.status = mid.status /\ row.people = mid.people
          /\ row.spoke = TRUE
      BY <2>1, SetSpoke DEF Beside
    <3>2. QED  BY <2>1, <3>1
  <2>3. /\ runs' = [runs EXCEPT ![c] = row] /\ runs[c].people # "none"
        /\ results' = Resim!PutResult(c) /\ UNCHANGED gone
    BY <1>1 DEF Resim!FinishMeasured
  <2> HIDE DEF row, mid
  <2>4. Columned(row) /\ Lived(row) /\ KeepsPast(runs[c], row)
    BY <2>1, <2>2, <2>3 DEF Beside, Lived, KeepsPast
  <2>5. DOMAIN runs' = DOMAIN runs /\ runs'[c] = row
        /\ \A r \in Resim!Ids(runs) \ {c} : runs'[r] = runs[r]
    BY <2>3 DEF Resim!Ids
  <2>6. QED  BY <1>0, <2>3, <2>4, <2>5, Compared
<1>2. ASSUME Resim!Rebuild(c) PROVE KeptInv'
  BY <1>0, <1>2, Compared DEF Resim!Rebuild
<1>3. QED  BY <1>1, <1>2

(* What makes a run: from nothing, from a finished one, from a page.       *)
LEMMA MadeKept ==
  ASSUME KeptInv
  PROVE  /\ \A v \in 1..(PlanVariants + 1), s, i \in BOOLEAN : Resim!CreateRun(v, s, i) => KeptInv'
         /\ \A p \in Resim!Ids(runs), ids \in SUBSET Resim!Ids(assets), k \in {"none", "part", "all"} :
              Resim!Resimulate(p, ids, k) => KeptInv'
         /\ \A k \in {"none", "part", "all"} : Resim!LaunchRoomRun(k) => KeptInv'
<1>1. \A st, p, a, v, k : /\ Columned(Resim!Run(st, p, a, v, k))
                          /\ Resim!Run(st, p, a, v, k).parent = p /\ Resim!Run(st, p, a, v, k).assets = a
                          /\ st # "complete" => Lived(Resim!Run(st, p, a, v, k))
  BY DEF Resim!Run, Columned, Lived
<1>2. ASSUME NEW v \in 1..(PlanVariants + 1), NEW s \in BOOLEAN, NEW i \in BOOLEAN,
             Resim!CreateRun(v, s, i)
      PROVE  KeptInv'
  <2> DEFINE row == Resim!Run("draft", Resim!NoRun, {}, v, "none")
  <2>1. Columned(row) /\ Lived(row) /\ row.assets = {}  BY <1>1
  <2>2. runs' = Resim!With(runs, Resim!NextRun, row) /\ UNCHANGED <<results, gone>>  BY <1>2 DEF Resim!CreateRun
  <2> HIDE DEF row
  <2>3. QED  BY <2>1, <2>2, NewRow
<1>3. ASSUME NEW p \in Resim!Ids(runs), NEW ids \in SUBSET Resim!Ids(assets), NEW k \in {"none", "part", "all"},
             Resim!Resimulate(p, ids, k)
      PROVE  KeptInv'
  <2> DEFINE row == Resim!Child(p, ids, k)
  <2>1. Columned(row) /\ Lived(row) /\ row.parent = p  BY <1>1 DEF Resim!Child
  <2>2. /\ runs' = Resim!With(runs, Resim!NextRun, row) /\ UNCHANGED <<results, gone>>
        /\ runs[p].spoke
    BY <1>3 DEF Resim!Resimulate, KeptInv, Lived
  <2> HIDE DEF row
  <2>3. QED  BY <2>1, <2>2, NewRow
<1>4. ASSUME NEW k \in {"none", "part", "all"}, Resim!LaunchRoomRun(k) PROVE KeptInv'
  <2>1. PICK p \in Resim!Eligible : /\ runs' = Resim!With(runs, Resim!NextRun, Resim!Child(p, {Resim!NextAsset}, k))
                              /\ UNCHANGED <<results, gone>>
    BY <1>4 DEF Resim!LaunchRoomRun
  <2>2. p \in Resim!Ids(runs) /\ runs[p].spoke  BY DEF Resim!Eligible, KeptInv, Lived
  <2> DEFINE row == Resim!Child(p, {Resim!NextAsset}, k)
  <2>3. Columned(row) /\ Lived(row) /\ row.parent = p  BY <1>1 DEF Resim!Child
  <2> HIDE DEF row
  <2>4. QED  BY <2>1, <2>2, <2>3, NewRow DEF row
<1>5. QED  BY <1>2, <1>3, <1>4

(* Steps that leave the runs and the comparisons alone.                    *)
LEMMA AsideKept ==
  ASSUME KeptInv, UNCHANGED <<runs, results>>, gone'.runs = gone.runs,
         gone' = [runs |-> gone'.runs, assets |-> gone'.assets]
  PROVE  KeptInv'
BY Onward DEF KeptInv, KeepsPast

(* Every step keeps the befores.                                           *)
LEMMA KeptStep ==
  ASSUME KeptInv, [Resim!Next]_(Resim!resimVars) PROVE KeptInv'
<1>0. gone = [runs |-> gone.runs, assets |-> gone.assets]  BY DEF KeptInv, Fresh
<1>1. CASE UNCHANGED Resim!resimVars  BY <1>0, <1>1, AsideKept DEF Resim!resimVars
<1>2. CASE \E v \in 1..(PlanVariants + 1), s, i \in BOOLEAN : Resim!CreateRun(v, s, i)
  BY <1>2, MadeKept
<1>3. ASSUME NEW r \in Resim!Ids(runs),
             \/ \E n \in 0..PlanVariants : Resim!SetVariants(r, n)
             \/ \E built \in {"none", "part", "all"} : Resim!Prepare(r, built)
             \/ Resim!FinishMeasured(r) \/ Resim!Rebuild(r) \/ Resim!DeleteRun(r)
             \/ \E lost \in BOOLEAN : Resim!Start(r, lost)
             \/ \E s \in {"complete", "failed"}, spoken \in BOOLEAN : Resim!FinishAlone(r, s, spoken)
             \/ \E ids \in SUBSET Resim!Ids(assets), c \in {"none", "part", "all"} : Resim!Resimulate(r, ids, c)
      PROVE  KeptInv'
  BY <1>3, RunsKept, ComparisonsKept, DeletionKeeps, MadeKept
<1>4. ASSUME NEW r \in Resim!Ids(runs),
             Resim!AskDraft(r) \/ \E s \in Stages : Resim!AskFounder(r, s)
      PROVE  KeptInv'
  BY <1>0, <1>4, AsideKept DEF Resim!AskDraft, Resim!AskFounder
<1>5. ASSUME NEW r \in drafting, NEW d \in Resim!Drafts, Resim!Drafted(r, d) PROVE KeptInv'
  BY <1>0, <1>5, AsideKept DEF Resim!Drafted
<1>6. ASSUME NEW a \in Resim!Ids(assets), Resim!EditAsset(a) PROVE KeptInv'
  BY <1>0, <1>6, AsideKept DEF Resim!EditAsset
<1>7. ASSUME NEW a \in Resim!Ids(assets), Resim!DeleteAsset(a) PROVE KeptInv'
  BY <1>0, <1>7, AsideKept DEF Resim!DeleteAsset
<1>8. CASE \E c \in {"none", "part", "all"} : Resim!LaunchRoomRun(c)  BY <1>8, MadeKept
<1>9. QED  BY <1>1, <1>2, <1>3, <1>4, <1>5, <1>6, <1>7, <1>8 DEF Resim!Next

(* inoculation.py: a comparison cannot be rebuilt without its before, and  *)
(* nothing a founder can do takes it away.                                 *)
THEOREM BeforesStay == Resim!Spec => []BeforeIsKept
<1>1. Resim!Init => KeptInv
  <2> SUFFICES ASSUME Resim!Init PROVE KeptInv  OBVIOUS
  <2> DEFINE first == Resim!Run("complete", Resim!NoRun, {}, 1, "all")
             mid == [first EXCEPT !.arenas = 1]
             row == [mid EXCEPT !.spoke = TRUE]
  <2>1. Columned(first) /\ first.assets = {} /\ first.people = "all"  BY DEF Resim!Run, Columned
  <2>2. Columned(row) /\ Lived(row) /\ row.assets = {}
    <3> HIDE DEF first
    <3>1. Beside(first, mid) /\ mid.people = "all"  BY <2>1, SetLoaded DEF SamePast
    <3> HIDE DEF mid
    <3>2. Beside(mid, row) /\ row.people = mid.people /\ row.spoke = TRUE
      BY <3>1, SetSpoke DEF Beside
    <3>3. QED  BY <2>1, <3>1, <3>2 DEF Beside, Lived
  <2>3. runs = <<row>> /\ results = {} /\ gone = [runs |-> 0, assets |-> 0]  BY DEF Resim!Init
  <2> HIDE DEF first, mid, row
  <2>4. Resim!Ids(runs) = {1} /\ runs[1] = row  BY <2>3 DEF Resim!Ids
  <2>5. IsFiniteSet({1}) /\ Cardinality({1}) = 1
    <3>1. IsFiniteSet({} \cup {1}) /\ Cardinality({} \cup {1}) = 1
      BY FS_EmptySet, FS_AddElement
    <3>2. {} \cup {1} = {1}  OBVIOUS
    <3>3. QED  BY <3>1, <3>2
  <2>6. Resim!NextRun = 2 /\ gone.runs = 0  BY Counted, <2>3, <2>4, <2>5 DEF Resim!NextRun
  <2>7. Fresh  BY <2>3, <2>4, <2>5, <2>6 DEF Fresh
  <2>8. Resim!BeforeIsKept  BY <2>2, <2>3, <2>4 DEF Resim!BeforeIsKept
  <2>9. QED  BY <2>2, <2>4, <2>7, <2>8 DEF KeptInv
<1>2. KeptInv /\ [Resim!Next]_(Resim!resimVars) => KeptInv'  BY KeptStep
<1>3. KeptInv => BeforeIsKept  BY DEF KeptInv, Resim!BeforeIsKept, BeforeIsKept, Resim!Ids
<1>4. QED  BY <1>1, <1>2, <1>3, PTL DEF Resim!Spec

-----------------------------------------------------------------------------
(***************************************************************************)
(* The rounds.  A reply is linked to the row of the post it names, so what *)
(* has to be known is in which order posts and replies reach the table:    *)
(* the ids of the adapters rise along an arena, through what its agents    *)
(* said, what is waiting to be inserted and what is stored, so a post is   *)
(* never behind its replies and no two posts of an arena share an id.      *)
(***************************************************************************)
Words == UNION {{Engines!Adapters[p].verbs[x].event : x \in DOMAIN Engines!Adapters[p].verbs} :
                  p \in Platforms}
Announced == [arena : Variants, event : Words, ref : Nat]
Inserted == [arena : Variants, event : Words, ref : Nat,
             round : Nat, parent : Nat, paired : BOOLEAN]
RoundTypes ==
  /\ arenas \subseteq Variants /\ engineRound \in Nat /\ made \in Nat
  /\ stage # "idle" => platform \in Platforms
  /\ said \in [Variants -> Seq(Announced)]
  /\ queue \in Seq(Announced) /\ events \in Seq(Inserted)

(* Of two events of one arena, a post is the younger only with a higher id.*)
Before(x, y) == x.arena = y.arena /\ y.event = "post" => x.ref < y.ref
Sorted(s) == \A i, j \in DOMAIN s : i < j => Before(s[i], s[j])
Rising(s, t) == \A i \in DOMAIN s, j \in DOMAIN t : Before(s[i], t[j])
Within(s, n) == \A i \in DOMAIN s : s[i].ref <= n
Order ==
  /\ Sorted(events) /\ Sorted(queue) /\ Rising(events, queue)
  /\ Within(events, made) /\ Within(queue, made)
Voiced ==
  /\ stage = "idle" => arenas = {}
  /\ \A v \in Variants :
       /\ v \notin arenas => said[v] = <<>>
       /\ Sorted(said[v]) /\ Rising(events, said[v]) /\ Rising(queue, said[v])
       /\ Within(said[v], made) /\ \A i \in DOMAIN said[v] : said[v][i].arena = v

(* post_event_ids is exactly the posts whose rows came back; a link still  *)
(* to be made is the present round's and points back; a reply whose post   *)
(* is known is linked, waits to be, or is counted as unlinked.             *)
Entry(s, i) == [arena |-> s[i].arena, ref |-> s[i].ref, row |-> i]
Known(s) == {Entry(s, i) : i \in {j \in DOMAIN s : s[j].event = "post" /\ s[j].paired}}
Link(p, c) == [parent |-> p, child |-> c]
Waiting ==
  /\ links # {} => stage \in {"write", "link"}
  /\ \A x \in links :
       /\ x = Link(x.parent, x.child)
       /\ x.child \in DOMAIN events /\ x.parent \in DOMAIN events /\ x.parent < x.child
       /\ Engines!Names(events[x.child], events[x.parent])
       /\ events[x.child].round = engineRound
Backwards ==
  \A i \in DOMAIN events : events[i].parent # 0 =>
    events[i].parent < i /\ Engines!Names(events[i], events[events[i].parent])
NoneForgotten ==
  \A i, j \in DOMAIN events :
    /\ Engines!Names(events[i], events[j]) /\ events[i].paired /\ events[j].paired
    /\ i \notin unlinked
    => events[i].parent = j \/ Link(j, i) \in links
Threaded == index = Known(events) /\ Waiting /\ Backwards /\ NoneForgotten
RoundInv == RoundTypes /\ Order /\ Voiced /\ Threaded

(* A reply and the post it names: the post is the earlier row, and no      *)
(* other row is the one it names.                                          *)
LEMMA OnePost ==
  ASSUME NEW s \in Seq(Inserted), Sorted(s), NEW i \in DOMAIN s, NEW j \in DOMAIN s,
         Engines!Names(s[i], s[j])
  PROVE  j < i /\ \A k \in DOMAIN s : Engines!Names(s[i], s[k]) => k = j
<1>1. DOMAIN s \subseteq Nat /\ \A k \in DOMAIN s : s[k] \in Inserted
  BY ElementOfSeq
<1>2. ASSUME NEW k \in DOMAIN s, Engines!Names(s[i], s[k]) PROVE k < i
  <2>1. s[k].event = "post" /\ s[i].event # "post" /\ s[i].arena = s[k].arena
        /\ s[i].ref = s[k].ref
    BY <1>2 DEF Engines!Names
  <2>2. ~ (i < k)
    <3>1. s[k].ref \in Nat  BY <1>1 DEF Inserted
    <3>2. ~ Before(s[i], s[k])  BY <2>1, <3>1 DEF Before
    <3>3. QED  BY <3>2 DEF Sorted
  <2>3. i # k  BY <2>1
  <2>4. QED  BY <1>1, <2>2, <2>3
<1>3. ASSUME NEW k \in DOMAIN s, Engines!Names(s[i], s[k]) PROVE k = j
  <2>1. s[k].event = "post" /\ s[j].event = "post" /\ s[k].arena = s[j].arena
        /\ s[k].ref = s[j].ref
    BY <1>3 DEF Engines!Names
  <2>2. s[k].ref \in Nat /\ s[j].ref = s[k].ref  BY <1>1, <2>1 DEF Inserted
  <2>3. ~ Before(s[k], s[j]) /\ ~ Before(s[j], s[k])  BY <2>1, <2>2 DEF Before
  <2>4. ~ (k < j) /\ ~ (j < k)  BY <2>3 DEF Sorted
  <2>5. QED  BY <1>1, <2>4
<1>4. QED  BY <1>2, <1>3

(* A step inside a round that stores nothing, says nothing and links       *)
(* nothing.                                                                *)
LEMMA RoundAside ==
  ASSUME RoundInv, UNCHANGED <<said, queue, events, index, links, unlinked, made>>,
         UNCHANGED <<platform, arenas, engineRound>>,
         stage # "idle", stage' # "idle", links # {} => stage' \in {"write", "link"}
  PROVE  RoundInv'
<1>1. RoundTypes'  BY DEF RoundInv, RoundTypes
<1>2. Order' /\ Voiced'  BY DEF RoundInv, Order, Voiced
<1>3. Waiting'  BY DEF RoundInv, Threaded, Waiting
<1>4. Threaded'  BY <1>3 DEF RoundInv, Threaded, Backwards, NoneForgotten
<1>5. QED  BY <1>1, <1>2, <1>4 DEF RoundInv

LEMMA RoundsBegin == Engines!Init => RoundInv
<1> SUFFICES ASSUME Engines!Init PROVE RoundInv  OBVIOUS
<1> USE DEF Engines!Init
<1>1. said = [v \in Variants |-> <<>>]  BY DEF Engines!Quiet
<1>2. RoundTypes  BY <1>1 DEF RoundTypes
<1>3. Order /\ Voiced  BY <1>1 DEF Order, Voiced, Sorted, Rising, Within
<1>4. Known(events) = {}  BY DEF Known
<1>5. Threaded  BY <1>4 DEF Threaded, Waiting, Backwards, NoneForgotten
<1>6. QED  BY <1>2, <1>3, <1>5 DEF RoundInv

(* An agent's answer: a post's id is above every id handed out before it.  *)
LEMMA AnswerKept ==
  ASSUME RoundInv, NEW v \in arenas,
         NEW verb \in DOMAIN Engines!Adapters[platform].verbs, NEW target \in 0..made,
         Engines!Answer(v, verb, target)
  PROVE  RoundInv'
<1> DEFINE does == Engines!Adapters[platform].verbs[verb]
           ref == IF does.event = "post" THEN made + 1 ELSE target
           e == [arena |-> v, event |-> does.event, ref |-> ref]
           s == said[v]
<1>1. /\ stage = "speak" /\ UNCHANGED <<stage, platform, arenas, engineRound, queue, events>>
      /\ UNCHANGED <<index, links, unlinked>>
      /\ said' = [said EXCEPT ![v] = Append(s, e)]
      /\ made' = IF does.event \in {"post", "comment"} THEN made + 1 ELSE made
  BY DEF Engines!Answer
<1>2. v \in Variants /\ made \in Nat /\ platform \in Platforms /\ s \in Seq(Announced)
  BY <1>1 DEF RoundInv, RoundTypes
<1>3. does.event \in Words
  BY <1>2 DEF Words
<1> HIDE DEF does
<1>4. e \in Announced /\ made' \in Nat /\ made <= made' /\ e.ref <= made' /\ e.arena = v
      /\ (e.event = "post" => e.ref > made)
  BY <1>1, <1>2, <1>3 DEF Announced
<1> HIDE DEF e, s
<1>5. /\ Append(s, e) \in Seq(Announced) /\ DOMAIN Append(s, e) = 1..Len(s) + 1
      /\ DOMAIN s = 1..Len(s) /\ Len(s) \in Nat
      /\ Append(s, e)[Len(s) + 1] = e /\ \A i \in DOMAIN s : Append(s, e)[i] = s[i]
  BY <1>2, <1>4
<1>6. /\ said' \in [Variants -> Seq(Announced)] /\ said'[v] = Append(s, e)
      /\ \A w \in Variants \ {v} : said'[w] = said[w]
  BY <1>1, <1>2, <1>5 DEF RoundInv, RoundTypes
<1>7. RoundTypes'  BY <1>1, <1>4, <1>6 DEF RoundInv, RoundTypes
<1>8. ASSUME NEW t, NEW R, t \in Seq(R), Within(t, made),
             \A i \in DOMAIN t : t[i].ref \in Nat
      PROVE  Within(t, made') /\ \A i \in DOMAIN t : Before(t[i], e)
  BY <1>2, <1>4, <1>8 DEF Within, Before, Announced
<1>9. /\ \A i \in DOMAIN events : events[i].ref \in Nat
      /\ \A i \in DOMAIN queue : queue[i].ref \in Nat
      /\ \A w \in Variants : \A i \in DOMAIN said[w] : said[w][i].ref \in Nat
  <2>1. /\ \A i \in DOMAIN events : events[i] \in Inserted
        /\ \A i \in DOMAIN queue : queue[i] \in Announced
        /\ \A w \in Variants : \A i \in DOMAIN said[w] : said[w][i] \in Announced
    BY ElementOfSeq DEF RoundInv, RoundTypes
  <2>2. QED  BY <2>1 DEF Inserted, Announced
<1>10. /\ Within(events, made') /\ \A i \in DOMAIN events : Before(events[i], e)
       /\ Within(queue, made') /\ \A i \in DOMAIN queue : Before(queue[i], e)
       /\ \A w \in Variants : Within(said[w], made')
       /\ \A i \in DOMAIN s : Before(s[i], e)
  BY <1>2, <1>8, <1>9 DEF RoundInv, RoundTypes, Order, Voiced, s
<1>11. Order'  BY <1>1, <1>10 DEF RoundInv, Order
<1>12. Voiced'
  <2>1. /\ Sorted(s) /\ Rising(events, s) /\ Rising(queue, s) /\ Within(s, made')
        /\ \A i \in DOMAIN s : s[i].arena = v
    BY <1>2, <1>10 DEF RoundInv, Voiced, s
  <2>2. /\ Sorted(Append(s, e)) /\ Rising(events, Append(s, e)) /\ Rising(queue, Append(s, e))
        /\ Within(Append(s, e), made')
        /\ \A i \in DOMAIN Append(s, e) : Append(s, e)[i].arena = v
    <3>1. Sorted(Append(s, e))  BY <1>5, <1>10, <2>1 DEF Sorted
    <3>2. Rising(events, Append(s, e))  BY <1>5, <1>10, <2>1 DEF Rising
    <3>3. Rising(queue, Append(s, e))  BY <1>5, <1>10, <2>1 DEF Rising
    <3>4. Within(Append(s, e), made')  BY <1>4, <1>5, <2>1 DEF Within
    <3>5. \A i \in DOMAIN Append(s, e) : Append(s, e)[i].arena = v  BY <1>4, <1>5, <2>1
    <3>6. QED  BY <3>1, <3>2, <3>3, <3>4, <3>5
  <2>3. QED  BY <1>1, <1>2, <1>6, <1>10, <2>2 DEF RoundInv, Voiced
<1>13. Threaded'
  BY <1>1 DEF RoundInv, Threaded, Waiting, Backwards, NoneForgotten
<1>14. QED  BY <1>7, <1>11, <1>12, <1>13 DEF RoundInv

(* One sequence behind another.                                            *)
LEMMA Joining ==
  ASSUME NEW R, NEW s \in Seq(R), NEW t \in Seq(R)
  PROVE  /\ s \o t \in Seq(R) /\ Len(s \o t) = Len(s) + Len(t)
         /\ Sorted(s) /\ Sorted(t) /\ Rising(s, t) => Sorted(s \o t)
         /\ \A u : Rising(u, s) /\ Rising(u, t) => Rising(u, s \o t)
         /\ \A u : Rising(s, u) /\ Rising(t, u) => Rising(s \o t, u)
         /\ \A n : Within(s, n) /\ Within(t, n) => Within(s \o t, n)
<1> DEFINE st == s \o t
<1>1. /\ st \in Seq(R) /\ Len(st) = Len(s) + Len(t)
      /\ \A i \in 1..Len(s) + Len(t) : st[i] = IF i <= Len(s) THEN s[i] ELSE t[i - Len(s)]
  BY ConcatProperties
<1>2. /\ DOMAIN st = 1..Len(s) + Len(t) /\ DOMAIN s = 1..Len(s) /\ DOMAIN t = 1..Len(t)
      /\ Len(s) \in Nat /\ Len(t) \in Nat
  BY <1>1
<1>3. \A i \in DOMAIN st : \/ i \in DOMAIN s /\ st[i] = s[i]
                           \/ /\ i - Len(s) \in DOMAIN t /\ st[i] = t[i - Len(s)]
                              /\ i \notin DOMAIN s
  BY <1>1, <1>2
<1> HIDE DEF st
<1>4. ASSUME Sorted(s), Sorted(t), Rising(s, t), NEW i \in DOMAIN st, NEW j \in DOMAIN st, i < j
      PROVE  Before(st[i], st[j])
  <2>1. CASE i \in DOMAIN s /\ j \in DOMAIN s  BY <1>1, <1>2, <1>4, <2>1 DEF Sorted
  <2>2. CASE i \in DOMAIN s /\ j \notin DOMAIN s  BY <1>3, <1>2, <1>4, <2>2 DEF Rising
  <2>3. CASE i \notin DOMAIN s
    <3>1. i - Len(s) \in DOMAIN t /\ st[i] = t[i - Len(s)]  BY <1>3, <2>3
    <3>2. j \notin DOMAIN s  BY <1>2, <1>4, <2>3
    <3>3. j - Len(s) \in DOMAIN t /\ st[j] = t[j - Len(s)]  BY <1>3, <3>2
    <3>4. i - Len(s) < j - Len(s)  BY <1>2, <1>4
    <3>5. QED  BY <1>4, <3>1, <3>3, <3>4 DEF Sorted
  <2>4. QED  BY <2>1, <2>2, <2>3
<1>5. QED  BY <1>1, <1>3, <1>4 DEF Sorted, Rising, Within, st

(* The gather: one arena's events go behind what was gathered before.      *)
LEMMA GatherKept ==
  ASSUME RoundInv, Engines!Gather
  PROVE  RoundInv'
<1>1. /\ stage = "speak" /\ stage' \in {"speak", "write"}
      /\ UNCHANGED <<platform, arenas, engineRound, events, index, links, unlinked, made>>
      /\ IF said = Engines!Quiet THEN UNCHANGED <<queue, said>>
         ELSE Engines!Extend(CHOOSE v \in arenas : said[v] # <<>>)
  BY DEF Engines!Gather
<1>2. links = {}  BY <1>1 DEF RoundInv, Threaded, Waiting
<1>3. CASE said = Engines!Quiet  BY <1>1, <1>2, <1>3, RoundAside
<1>4. CASE said # Engines!Quiet
  <2>1. \E v \in arenas : said[v] # <<>>
    BY <1>4 DEF RoundInv, RoundTypes, Voiced, Engines!Quiet
  <2>2. PICK v \in arenas : Engines!Extend(v)  BY <1>1, <1>4, <2>1
  <2>3. /\ v \in Variants /\ queue' = queue \o said[v] /\ said[v] \in Seq(Announced)
        /\ said' = [said EXCEPT ![v] = <<>>]
    BY <2>2 DEF Engines!Extend, RoundInv, RoundTypes
  <2>4. said' \in [Variants -> Seq(Announced)] /\ said'[v] = <<>>
        /\ \A w \in Variants \ {v} : said'[w] = said[w]
    BY <2>3 DEF RoundInv, RoundTypes
  <2>5. /\ Sorted(said[v]) /\ Rising(events, said[v]) /\ Rising(queue, said[v])
        /\ Within(said[v], made) /\ Sorted(queue) /\ Rising(events, queue)
        /\ Within(queue, made) /\ queue \in Seq(Announced)
    BY <2>3 DEF RoundInv, RoundTypes, Order, Voiced
  <2>6. /\ queue' \in Seq(Announced) /\ Sorted(queue') /\ Rising(events, queue')
        /\ Within(queue', made)
        /\ \A u : Rising(queue, u) /\ Rising(said[v], u) => Rising(queue', u)
    BY <2>3, <2>5, Joining
  <2>7. RoundTypes'  BY <1>1, <2>4, <2>6 DEF RoundInv, RoundTypes
  <2>8. Order'  BY <1>1, <2>6 DEF RoundInv, Order
  <2>9. ASSUME NEW w \in Variants \ {v} PROVE Rising(queue', said[w])
    <3>1. \A i \in DOMAIN said[v], j \in DOMAIN said[w] : said[v][i].arena # said[w][j].arena
      BY <2>3 DEF RoundInv, Voiced
    <3>2. Rising(said[v], said[w])  BY <3>1 DEF Rising, Before
    <3>3. Rising(queue, said[w])  BY DEF RoundInv, Voiced
    <3>4. QED  BY <2>6, <3>2, <3>3
  <2>10. Voiced'
    <3>1. Sorted(<<>>) /\ Rising(events, <<>>) /\ Rising(queue', <<>>) /\ Within(<<>>, made)
      BY DEF Sorted, Rising, Within
    <3>2. \A w \in Variants \ {v} :
            /\ w \notin arenas => said[w] = <<>>
            /\ Sorted(said[w]) /\ Rising(events, said[w]) /\ Within(said[w], made)
            /\ \A i \in DOMAIN said[w] : said[w][i].arena = w
      BY DEF RoundInv, Voiced
    <3>3. \A w \in Variants :
            /\ w \notin arenas => said'[w] = <<>>
            /\ Sorted(said'[w]) /\ Rising(events, said'[w]) /\ Rising(queue', said'[w])
            /\ Within(said'[w], made) /\ \A i \in DOMAIN said'[w] : said'[w][i].arena = w
      BY <2>4, <2>9, <3>1, <3>2
    <3>4. stage' # "idle"  BY <1>1
    <3>5. QED  BY <1>1, <3>3, <3>4 DEF Voiced
  <2>11. Threaded'
    BY <1>1, <1>2 DEF RoundInv, Threaded, Waiting, Backwards, NoneForgotten
  <2>12. QED  BY <2>7, <2>8, <2>10, <2>11 DEF RoundInv
<1>5. QED  BY <1>3, <1>4

(* The updates of one parent: the children that were waiting for it point  *)
(* at it, or are counted as unlinked; everyone else is as before.          *)
LEMMA LinkKept ==
  ASSUME RoundInv, NEW p \in DOMAIN events, NEW ok \in BOOLEAN, Engines!LinkParent(p, ok)
  PROVE  RoundInv'
<1> DEFINE children == {x.child : x \in {y \in links : y.parent = p}}
<1>1. /\ stage = "link"
      /\ events' = [i \in DOMAIN events |-> IF ok /\ i \in children
                      THEN [events[i] EXCEPT !.parent = p] ELSE events[i]]
      /\ unlinked' = IF ok THEN unlinked ELSE unlinked \cup children
      /\ links' = {x \in links : x.parent # p}
      /\ UNCHANGED <<stage, platform, arenas, said, engineRound, queue, index, made>>
  BY DEF Engines!LinkParent
<1>2. \A i \in DOMAIN events : i \in children =>
        p < i /\ Engines!Names(events[i], events[p]) /\ Link(p, i) \in links
  BY DEF RoundInv, Threaded, Waiting
<1>3. \A i \in Nat : Link(p, i) \in links => i \in children  BY DEF Link
<1> HIDE DEF children
<1>4. /\ DOMAIN events \subseteq Nat /\ p \in Nat /\ events \in Seq(Inserted)
      /\ \A i \in DOMAIN events : events[i] \in Inserted
  BY ElementOfSeq DEF RoundInv, RoundTypes
<1>5. /\ events' \in Seq(Inserted) /\ DOMAIN events' = DOMAIN events
      /\ \A i \in DOMAIN events :
           /\ events'[i] \in Inserted
           /\ events'[i].arena = events[i].arena /\ events'[i].event = events[i].event
           /\ events'[i].ref = events[i].ref /\ events'[i].round = events[i].round
           /\ events'[i].paired = events[i].paired
           /\ events'[i].parent = IF ok /\ i \in children THEN p ELSE events[i].parent
  <2>1. DOMAIN events' = DOMAIN events  BY <1>1
  <2>2. ASSUME NEW i \in DOMAIN events
        PROVE  /\ events'[i] \in Inserted
               /\ events'[i].arena = events[i].arena /\ events'[i].event = events[i].event
               /\ events'[i].ref = events[i].ref /\ events'[i].round = events[i].round
               /\ events'[i].paired = events[i].paired
               /\ events'[i].parent = IF ok /\ i \in children THEN p ELSE events[i].parent
    BY <1>1, <1>4 DEF Inserted
  <2>3. events' = [i \in 1..Len(events) |-> events'[i]] /\ Len(events) \in Nat
    BY <1>1, <1>4, <2>1
  <2>4. events' \in Seq(Inserted)  BY <1>4, <2>2, <2>3
  <2>5. QED  BY <2>1, <2>2, <2>4
<1>6. \A i, j \in DOMAIN events :
        Engines!Names(events'[i], events'[j]) <=> Engines!Names(events[i], events[j])
  BY <1>5 DEF Engines!Names
<1>7. RoundTypes'  BY <1>1, <1>5 DEF RoundInv, RoundTypes
<1>8. Order'
  BY <1>1, <1>5 DEF RoundInv, Order, Sorted, Rising, Within, Before
<1>9. Voiced'
  <2>1. \A v \in Variants : Rising(events, said[v]) => Rising(events', said[v])
    BY <1>5 DEF Rising, Before
  <2>2. QED  BY <1>1, <2>1 DEF RoundInv, Voiced
<1>10. Known(events') = Known(events)  BY <1>5 DEF Known, Entry
<1>11. Waiting'  BY <1>1, <1>5, <1>6 DEF RoundInv, Threaded, Waiting
<1>12. Backwards'
  <2> SUFFICES ASSUME NEW i \in DOMAIN events, events'[i].parent # 0
               PROVE  /\ events'[i].parent < i
                      /\ Engines!Names(events'[i], events'[events'[i].parent])
    BY <1>5 DEF Backwards
  <2>1. CASE ok /\ i \in children  BY <1>2, <1>5, <1>6, <2>1
  <2>2. CASE ~ (ok /\ i \in children)
    <3>1. events'[i].parent = events[i].parent  BY <1>5, <2>2
    <3>2. /\ events[i].parent < i /\ events[i].parent \in Nat
          /\ Engines!Names(events[i], events[events[i].parent])
      BY <1>4, <3>1 DEF RoundInv, Threaded, Backwards, Inserted
    <3>3. events[i].parent \in DOMAIN events  BY <1>4, <3>1, <3>2
    <3>4. QED  BY <1>6, <3>1, <3>2, <3>3
  <2>3. QED  BY <2>1, <2>2
<1>13. NoneForgotten'
  <2> SUFFICES ASSUME NEW i \in DOMAIN events, NEW j \in DOMAIN events,
                      Engines!Names(events[i], events[j]), events[i].paired, events[j].paired,
                      i \notin unlinked'
               PROVE  events'[i].parent = j \/ Link(j, i) \in links'
    BY <1>5, <1>6 DEF NoneForgotten
  <2>1. events[i].parent = j \/ Link(j, i) \in links
    BY <1>1 DEF RoundInv, Threaded, NoneForgotten
  <2>2. CASE i \in children
    <3>1. p = j  BY <1>2, <1>4, <2>2, OnePost DEF RoundInv, Order
    <3>2. ok  BY <1>1, <2>2
    <3>3. QED  BY <1>5, <2>2, <3>1, <3>2
  <2>3. CASE i \notin children
    <3>1. events'[i].parent = events[i].parent  BY <1>5, <2>3
    <3>2. Link(j, i) \in links => Link(j, i) \in links'
      <4>1. Link(j, i).parent = j  BY DEF Link
      <4>2. Link(j, i) \in links => j # p  BY <1>3, <1>4, <2>3
      <4>3. QED  BY <1>1, <4>1, <4>2
    <3>3. QED  BY <2>1, <3>1, <3>2
  <2>4. QED  BY <2>2, <2>3
<1>14. QED
  BY <1>1, <1>7, <1>8, <1>9, <1>10, <1>11, <1>12, <1>13 DEF RoundInv, Threaded

(* A chunk is inserted: a reply in it finds the post it names in the index *)
(* or earlier in the chunk, since no post is behind its replies.           *)
LEMMA ChunkKept ==
  ASSUME RoundInv, ChunkSize \in Nat, NEW paired \in BOOLEAN, Engines!WriteChunk(paired)
  PROVE  RoundInv'
<1> DEFINE n == Engines!Least(ChunkSize, Len(queue))
           L == Len(events)
           chunk == SubSeq(queue, 1, n)
           rest == SubSeq(queue, n + 1, Len(queue))
           new == [i \in 1..n |->
             [arena |-> chunk[i].arena, event |-> chunk[i].event, ref |-> chunk[i].ref,
              round |-> engineRound, parent |-> 0, paired |-> paired]]
           posts == {[arena |-> chunk[i].arena, ref |-> chunk[i].ref, row |-> L + i] :
                       i \in {j \in 1..n : chunk[j].event = "post"}}
           known(i) == index \cup {x \in posts : x.row < L + i}
           naming == UNION {{[parent |-> p, child |-> L + i] :
                               p \in Engines!ParentOf(known(i), chunk[i])} :
                              i \in {j \in 1..n : chunk[j].event \in {"comment", "react"}}}
<1>1. /\ stage = "write" /\ queue' = rest /\ events' = events \o new
      /\ index' = IF paired THEN index \cup posts ELSE index
      /\ links' = IF ~paired THEN links ELSE links \cup naming
      /\ UNCHANGED <<stage, platform, arenas, said, engineRound, unlinked, made>>
  BY DEF Engines!WriteChunk
<1>2. /\ queue \in Seq(Announced) /\ events \in Seq(Inserted) /\ Len(queue) \in Nat /\ L \in Nat
      /\ engineRound \in Nat /\ n \in 0..Len(queue)
  BY DEF RoundInv, RoundTypes, Engines!Least
<1>3. /\ chunk \in Seq(Announced) /\ Len(chunk) = n
      /\ rest \in Seq(Announced) /\ Len(rest) = Len(queue) - n
      /\ \A i \in 1..n : chunk[i] = queue[i]
      /\ \A i \in 1..(Len(queue) - n) : rest[i] = queue[n + i]
  <2> HIDE DEF n
  <2>1. /\ chunk \in Seq(Announced) /\ Len(chunk) = n /\ \A i \in 1..n : chunk[i] = queue[i]
    BY <1>2
  <2>2. /\ rest \in Seq(Announced) /\ Len(rest) = Len(queue) - n
        /\ \A i \in 1..(Len(queue) - n) : rest[i] = queue[n + i]
    BY <1>2
  <2>3. QED  BY <2>1, <2>2
<1> HIDE DEF n, chunk, rest
<1>4. /\ \A i \in 1..n : chunk[i] \in Announced
      /\ DOMAIN rest = 1..(Len(queue) - n) /\ DOMAIN queue = 1..Len(queue)
      /\ DOMAIN events = 1..L /\ \A i \in 1..L : events[i] \in Inserted
  BY <1>2, <1>3, ElementOfSeq
<1>5. /\ new \in Seq(Inserted) /\ Len(new) = n /\ DOMAIN new = 1..n
      /\ \A i \in 1..n : /\ new[i].arena = queue[i].arena /\ new[i].event = queue[i].event
                         /\ new[i].ref = queue[i].ref /\ new[i].round = engineRound
                         /\ new[i].parent = 0 /\ new[i].paired = paired
  <2>1. \A i \in 1..n : new[i] \in Inserted  BY <1>2, <1>4 DEF Inserted, Announced
  <2>2. new \in Seq(Inserted) /\ Len(new) = n  BY <1>2, <2>1
  <2>3. QED  BY <1>3, <2>2
<1> HIDE DEF new
<1>6. /\ events' \in Seq(Inserted) /\ DOMAIN events' = 1..L + n
      /\ \A i \in 1..L : events'[i] = events[i]
      /\ \A i \in 1..n : events'[L + i] = new[i]
  <2>1. /\ events' \in Seq(Inserted) /\ Len(events') = L + n
        /\ \A i \in 1..L + n : events'[i] = IF i <= L THEN events[i] ELSE new[i - L]
    BY <1>1, <1>2, <1>5, ConcatProperties
  <2>2. QED  BY <1>2, <2>1
<1>7. RoundTypes'  BY <1>1, <1>3, <1>6 DEF RoundInv, RoundTypes
<1>8. /\ Sorted(new) /\ Rising(events, new) /\ Within(new, made)
      /\ Sorted(rest) /\ Rising(events, rest) /\ Rising(new, rest) /\ Within(rest, made)
  <2>1. Sorted(queue) /\ Rising(events, queue) /\ Within(queue, made)
    BY DEF RoundInv, Order
  <2>2. /\ \A i \in 1..n : i \in DOMAIN queue
        /\ \A i \in DOMAIN rest : n + i \in DOMAIN queue /\ rest[i] = queue[n + i] /\ i \in Nat
    <3>1. \A i \in 1..n : i \in DOMAIN queue  BY <1>2, <1>4
    <3>2. \A i \in DOMAIN rest : n + i \in DOMAIN queue /\ i \in Nat  BY <1>2, <1>4
    <3>3. \A i \in DOMAIN rest : rest[i] = queue[n + i]  BY <1>3, <1>4
    <3>4. QED  BY <3>1, <3>2, <3>3
  <2>3. Sorted(new)  BY <1>5, <2>1, <2>2 DEF Sorted, Before
  <2>4. Rising(events, new)  BY <1>5, <2>1, <2>2 DEF Rising, Before
  <2>5. Within(new, made)  BY <1>5, <2>1, <2>2 DEF Within
  <2>6. Sorted(rest)
    <3>1. \A i, j \in DOMAIN rest : i < j => n + i < n + j  BY <1>2, <2>2
    <3>2. QED  BY <2>1, <2>2, <3>1 DEF Sorted
  <2>7. Rising(events, rest)  BY <2>1, <2>2 DEF Rising
  <2>8. Rising(new, rest)
    <3>1. \A i \in 1..n, j \in DOMAIN rest : i < n + j  BY <1>2, <1>4
    <3>2. QED  BY <1>5, <2>1, <2>2, <3>1 DEF Sorted, Rising, Before
  <2>9. Within(rest, made)  BY <2>1, <2>2 DEF Within
  <2>10. QED  BY <2>3, <2>4, <2>5, <2>6, <2>7, <2>8, <2>9
<1>9. /\ Sorted(events') /\ Within(events', made)
      /\ \A u : Rising(events, u) /\ Rising(new, u) => Rising(events', u)
  BY <1>1, <1>2, <1>5, <1>8, Joining DEF RoundInv, Order
<1>10. Order'  BY <1>1, <1>8, <1>9 DEF Order
<1>11. Voiced'
  <2>1. ASSUME NEW v \in Variants PROVE Rising(new, said[v]) /\ Rising(rest, said[v])
    <3>1. Rising(queue, said[v])  BY DEF RoundInv, Voiced
    <3>2. \A i \in 1..n : i \in DOMAIN queue  BY <1>2, <1>4
    <3>3. \A i \in DOMAIN rest : n + i \in DOMAIN queue /\ rest[i] = queue[n + i]
      BY <1>2, <1>3, <1>4
    <3>4. QED  BY <1>5, <3>1, <3>2, <3>3 DEF Rising, Before
  <2>2. QED  BY <1>1, <1>9, <2>1 DEF RoundInv, Voiced
<1>12. /\ index = Known(events)
       /\ \A x \in links : /\ x = Link(x.parent, x.child)
                           /\ x.child \in 1..L /\ x.parent \in 1..L /\ x.parent < x.child
                           /\ Engines!Names(events[x.child], events[x.parent])
                           /\ events[x.child].round = engineRound
  BY <1>4 DEF RoundInv, Threaded, Waiting
(* The posts of the chunk, at the rows they have now.                      *)
<1>13. \A x : x \in posts <=> \E i \in 1..n : /\ new[i].event = "post"
                                              /\ x = Entry(events', L + i)
  <2>1. \A i \in 1..n : /\ chunk[i].event = new[i].event
                        /\ [arena |-> chunk[i].arena, ref |-> chunk[i].ref, row |-> L + i]
                             = Entry(events', L + i)
    BY <1>3, <1>5, <1>6 DEF Entry
  <2>2. QED  BY <2>1
<1> HIDE DEF posts
<1>14. \A x : x \in index <=> \E i \in 1..L : /\ events'[i].event = "post" /\ events'[i].paired
                                              /\ x = Entry(events', i)
  BY <1>4, <1>6, <1>12 DEF Known, Entry
<1>15. index' = Known(events')
  <2>1. \A x : x \in Known(events') <=> \E i \in 1..L + n :
                 events'[i].event = "post" /\ events'[i].paired /\ x = Entry(events', i)
    BY <1>6 DEF Known
  <2>2. ASSUME NEW x PROVE x \in index' <=> x \in Known(events')
    <3>1. ASSUME x \in index' PROVE x \in Known(events')
      <4>1. CASE x \in index
        <5>1. PICK i \in 1..L : events'[i].event = "post" /\ events'[i].paired
                                /\ x = Entry(events', i)
          BY <1>14, <4>1
        <5>2. i \in 1..L + n  BY <1>2
        <5>3. QED  BY <2>1, <5>1, <5>2
      <4>2. CASE x \notin index
        <5>1. paired /\ x \in posts  BY <1>1, <3>1, <4>2
        <5>2. PICK i \in 1..n : new[i].event = "post" /\ x = Entry(events', L + i)
          BY <1>13, <5>1
        <5>3. L + i \in 1..L + n /\ events'[L + i] = new[i]  BY <1>2, <1>6
        <5>4. new[i].paired  BY <1>5, <5>1
        <5>5. QED  BY <2>1, <5>2, <5>3, <5>4
      <4>3. QED  BY <4>1, <4>2
    <3>2. ASSUME x \in Known(events') PROVE x \in index'
      <4>1. PICK i \in 1..L + n : events'[i].event = "post" /\ events'[i].paired
                                  /\ x = Entry(events', i)
        BY <2>1, <3>2
      <4>2. CASE i \in 1..L
        <5>1. x \in index  BY <1>14, <4>1, <4>2
        <5>2. QED  BY <1>1, <5>1
      <4>3. CASE i \notin 1..L
        <5>1. i - L \in 1..n /\ L + (i - L) = i  BY <1>2, <4>3
        <5>2. events'[i] = new[i - L]  BY <1>6, <5>1
        <5>3. x \in posts  BY <1>13, <4>1, <5>1, <5>2
        <5>4. paired  BY <1>5, <4>1, <5>1, <5>2
        <5>5. QED  BY <1>1, <5>3, <5>4
      <4>4. QED  BY <4>2, <4>3
    <3>3. QED  BY <3>1, <3>2
  <2>3. QED  BY <2>2
(* What a reply of the chunk can find, and that it does.                   *)
<1>16. \A i \in 1..n : \A p : p \in Engines!ParentOf(known(i), chunk[i]) =>
         /\ p \in 1..L + n /\ p < L + i
         /\ events'[p].event = "post" /\ events'[p].arena = new[i].arena
         /\ events'[p].ref = new[i].ref
  <2> SUFFICES ASSUME NEW i \in 1..n, NEW p, p \in Engines!ParentOf(known(i), chunk[i])
               PROVE  /\ p \in 1..L + n /\ p < L + i
                      /\ events'[p].event = "post" /\ events'[p].arena = new[i].arena
                      /\ events'[p].ref = new[i].ref
    OBVIOUS
  <2>1. PICK x \in known(i) : x.arena = new[i].arena /\ x.ref = new[i].ref /\ p = x.row
    BY <1>3, <1>5 DEF Engines!ParentOf
  <2>2. CASE x \in index
    <3>1. PICK k \in 1..L : events'[k].event = "post" /\ x = Entry(events', k)
      BY <1>14, <2>2
    <3>2. p = k /\ events'[k].arena = new[i].arena /\ events'[k].ref = new[i].ref
      BY <2>1, <3>1 DEF Entry
    <3>3. QED  BY <1>2, <3>1, <3>2
  <2>3. CASE x \in posts /\ x.row < L + i
    <3>1. PICK k \in 1..n : new[k].event = "post" /\ x = Entry(events', L + k)
      BY <1>13, <2>3
    <3>2. p = L + k /\ events'[L + k].arena = new[i].arena /\ events'[L + k].ref = new[i].ref
      BY <2>1, <3>1 DEF Entry
    <3>3. events'[L + k].event = "post"  BY <1>6, <3>1
    <3>4. QED  BY <1>2, <2>1, <2>3, <3>2, <3>3
  <2>4. QED  BY <2>1, <2>2, <2>3
<1>17. ASSUME NEW i \in 1..n, NEW j \in 1..L + n, Engines!Names(new[i], events'[j]),
              events'[j].paired, paired
       PROVE  j \in Engines!ParentOf(known(i), chunk[i])
  <2>1. events'[j].event = "post" /\ events'[j].arena = chunk[i].arena
        /\ events'[j].ref = chunk[i].ref
    BY <1>3, <1>5, <1>17 DEF Engines!Names
  <2>2. L + i \in DOMAIN events' /\ events'[L + i] = new[i]  BY <1>2, <1>6
  <2>3. j < L + i  BY <1>6, <1>9, <1>17, <2>2, OnePost
  <2>4. Entry(events', j).row = j /\ Entry(events', j).arena = chunk[i].arena
        /\ Entry(events', j).ref = chunk[i].ref
    BY <2>1 DEF Entry
  <2>5. Entry(events', j) \in known(i)
    <3>1. CASE j \in 1..L
      <4>1. Entry(events', j) \in index  BY <1>14, <1>17, <2>1, <3>1
      <4>2. QED  BY <4>1
    <3>2. CASE j \notin 1..L
      <4>1. j - L \in 1..n /\ L + (j - L) = j  BY <1>2, <3>2
      <4>2. events'[j] = new[j - L]  BY <1>6, <4>1
      <4>3. Entry(events', j) \in posts  BY <1>13, <2>1, <4>1, <4>2
      <4>4. QED  BY <2>3, <2>4, <4>3
    <3>3. QED  BY <3>1, <3>2
  <2>6. QED  BY <2>4, <2>5 DEF Engines!ParentOf
<1> HIDE DEF known
<1>18. \A x : x \in naming <=> \E i \in 1..n : \E p \in Engines!ParentOf(known(i), chunk[i]) :
                 new[i].event \in {"comment", "react"} /\ x = Link(p, L + i)
  <2>1. \A i \in 1..n : chunk[i].event = new[i].event  BY <1>3, <1>5
  <2>2. QED  BY <2>1 DEF Link
<1> HIDE DEF naming
<1>19. Waiting'
  <2>1. stage' = "write"  BY <1>1
  <2>2. ASSUME NEW x \in links'
        PROVE  /\ x = Link(x.parent, x.child)
               /\ x.child \in 1..L + n /\ x.parent \in 1..L + n /\ x.parent < x.child
               /\ Engines!Names(events'[x.child], events'[x.parent])
               /\ events'[x.child].round = engineRound
    <3>1. CASE x \in links
      <4>1. x.child \in 1..L + n /\ x.parent \in 1..L + n  BY <1>2, <1>12, <3>1
      <4>2. events'[x.child] = events[x.child] /\ events'[x.parent] = events[x.parent]
        BY <1>6, <1>12, <3>1
      <4>3. QED  BY <1>12, <3>1, <4>1, <4>2
    <3>2. CASE x \notin links
      <4>1. PICK i \in 1..n : \E p \in Engines!ParentOf(known(i), chunk[i]) :
                 new[i].event \in {"comment", "react"} /\ x = Link(p, L + i)
        BY <1>1, <1>18, <2>2, <3>2
      <4>2. PICK p \in Engines!ParentOf(known(i), chunk[i]) :
                 new[i].event \in {"comment", "react"} /\ x = Link(p, L + i)
        BY <4>1
      <4>3. x = Link(x.parent, x.child) /\ x.parent = p /\ x.child = L + i
        BY <4>2 DEF Link
      <4>4. L + i \in 1..L + n /\ events'[L + i] = new[i] /\ new[i].round = engineRound
        BY <1>2, <1>5, <1>6
      <4>5. /\ p \in 1..L + n /\ p < L + i /\ events'[p].event = "post"
            /\ events'[p].arena = new[i].arena /\ events'[p].ref = new[i].ref
        BY <1>16
      <4>6. Engines!Names(new[i], events'[p])  BY <4>2, <4>5 DEF Engines!Names
      <4>7. QED  BY <4>3, <4>4, <4>5, <4>6
    <3>3. QED  BY <3>1, <3>2
  <2>3. QED  BY <1>1, <1>6, <2>1, <2>2 DEF Waiting
<1>20. Backwards'
  <2> SUFFICES ASSUME NEW i \in 1..L + n, events'[i].parent # 0
               PROVE  /\ events'[i].parent < i
                      /\ Engines!Names(events'[i], events'[events'[i].parent])
    BY <1>6 DEF Backwards
  <2>1. i \in 1..L
    <3>1. i \notin 1..L => i - L \in 1..n /\ L + (i - L) = i  BY <1>2
    <3>2. i \notin 1..L => events'[i].parent = 0  BY <1>5, <1>6, <3>1
    <3>3. QED  BY <3>2
  <2>2. events'[i] = events[i] /\ i \in Nat  BY <1>6, <2>1
  <2>3. /\ events[i].parent < i /\ events[i].parent \in Nat
        /\ Engines!Names(events[i], events[events[i].parent])
    BY <1>4, <2>1, <2>2 DEF RoundInv, Threaded, Backwards, Inserted
  <2>4. events[i].parent \in 1..L  BY <1>2, <2>1, <2>2, <2>3
  <2>5. QED  BY <1>6, <2>2, <2>3, <2>4
<1>21. NoneForgotten'
  <2> SUFFICES ASSUME NEW i \in 1..L + n, NEW j \in 1..L + n,
                      Engines!Names(events'[i], events'[j]),
                      events'[i].paired, events'[j].paired, i \notin unlinked
               PROVE  events'[i].parent = j \/ Link(j, i) \in links'
    BY <1>1, <1>6 DEF NoneForgotten
  <2>1. CASE i \in 1..L
    <3>1. j < i  BY <1>6, <1>9, OnePost
    <3>2. j \in 1..L  BY <1>2, <2>1, <3>1
    <3>3. events'[i] = events[i] /\ events'[j] = events[j]  BY <1>6, <2>1, <3>2
    <3>4. events[i].parent = j \/ Link(j, i) \in links
      BY <1>4, <2>1, <3>2, <3>3 DEF RoundInv, Threaded, NoneForgotten
    <3>5. QED  BY <1>1, <3>3, <3>4
  <2>2. CASE i \notin 1..L
    <3> DEFINE k == i - L
    <3>1. k \in 1..n /\ L + k = i  BY <1>2, <2>2
    <3> HIDE DEF k
    <3>2. events'[i] = new[k] /\ new[k].paired = paired  BY <1>5, <1>6, <3>1
    <3>3. paired  BY <3>2
    <3>4. j \in Engines!ParentOf(known(k), chunk[k])  BY <1>17, <3>1, <3>2, <3>3
    <3>5. new[k].event \in {"comment", "react"}  BY <3>2 DEF Engines!Names
    <3>6. Link(j, i) \in naming  BY <1>18, <3>1, <3>4, <3>5
    <3>7. QED  BY <1>1, <3>3, <3>6
  <2>3. QED  BY <2>1, <2>2
<1>22. QED
  BY <1>7, <1>10, <1>11, <1>15, <1>19, <1>20, <1>21 DEF RoundInv, Threaded

(* The insert raises: the replies that were waiting count as unlinked.     *)
LEMMA RaiseKept ==
  ASSUME RoundInv, Engines!InsertRaises
  PROVE  RoundInv'
<1>1. /\ stage' = "failed" /\ stage = "write" /\ links' = {}
      /\ unlinked' = unlinked \cup {x.child : x \in links}
      /\ UNCHANGED <<platform, arenas, said, engineRound, queue, events, index, made>>
  BY DEF Engines!InsertRaises
<1>2. RoundTypes'  BY <1>1 DEF RoundInv, RoundTypes
<1>3. Order' /\ Voiced'  BY <1>1 DEF RoundInv, Order, Voiced
<1>4. Waiting' /\ Backwards' /\ index' = Known(events)
  BY <1>1 DEF RoundInv, Threaded, Waiting, Backwards
<1>5. NoneForgotten'
  <2>1. \A i, j \in DOMAIN events : Link(j, i) \in links => i \in unlinked'
    <3>1. \A i, j \in DOMAIN events : Link(j, i).child = i  BY DEF Link
    <3>2. QED  BY <1>1, <3>1
  <2>2. \A i : i \notin unlinked' => i \notin unlinked  BY <1>1
  <2>3. QED  BY <1>1, <2>1, <2>2 DEF RoundInv, Threaded, NoneForgotten
<1>6. QED  BY <1>1, <1>2, <1>3, <1>4, <1>5 DEF RoundInv, Threaded

(* The arenas open while nothing has been said in any of them, and a round *)
(* ends when none of its links is left to make.                            *)
LEMMA RoundEdges ==
  ASSUME RoundInv,
         \/ \E p \in Platforms, loaded, up \in SUBSET Variants :
              Engines!OpenArenas(p, loaded, up)
         \/ Engines!EndRound
  PROVE  RoundInv'
<1>1. ASSUME NEW p \in Platforms, NEW loaded \in SUBSET Variants, NEW up \in SUBSET Variants,
             Engines!OpenArenas(p, loaded, up)
      PROVE  RoundInv'
  <2>1. /\ stage = "idle" /\ stage' \in {"failed", "speak"} /\ platform' = p /\ arenas' = up
        /\ UNCHANGED <<said, engineRound, queue, events, index, links, unlinked, made>>
    BY <1>1 DEF Engines!OpenArenas
  <2>2. RoundTypes'  BY <2>1 DEF RoundInv, RoundTypes
  <2>3. \A v \in Variants : said[v] = <<>>  BY <2>1 DEF RoundInv, Voiced
  <2>4. Order' /\ Voiced'  BY <2>1, <2>3 DEF RoundInv, Order, Voiced
  <2>5. links = {}  BY <2>1 DEF RoundInv, Threaded, Waiting
  <2>6. Threaded'
    BY <2>1, <2>5 DEF RoundInv, Threaded, Waiting, Backwards, NoneForgotten
  <2>7. QED  BY <2>2, <2>4, <2>6 DEF RoundInv
<1>2. CASE Engines!EndRound
  <2>1. /\ stage = "link" /\ links = {} /\ engineRound' = engineRound + 1
        /\ UNCHANGED <<platform, arenas, said, queue, events, index, links, unlinked, made>>
    BY <1>2 DEF Engines!EndRound
  <2>2. stage' # "idle"  BY <1>2 DEF Engines!EndRound, Engines!Over
  <2>3. RoundTypes'  BY <2>1 DEF RoundInv, RoundTypes
  <2>4. Order' /\ Voiced'  BY <2>1, <2>2 DEF RoundInv, Order, Voiced
  <2>5. Threaded'
    BY <2>1 DEF RoundInv, Threaded, Waiting, Backwards, NoneForgotten
  <2>6. QED  BY <2>3, <2>4, <2>5 DEF RoundInv
<1>3. QED  BY <1>1, <1>2

(* Every step of an engine keeps the threads.                              *)
LEMMA RoundStep ==
  ASSUME RoundInv, ChunkSize \in Nat, [Engines!Next]_(Engines!vars)
  PROVE  RoundInv'
<1>1. CASE UNCHANGED Engines!vars
  <2>1. UNCHANGED <<stage, platform, arenas, said, engineRound, queue, events, index, links,
                    unlinked, made>>
    BY <1>1 DEF Engines!vars
  <2>2. RoundTypes'  BY <2>1 DEF RoundInv, RoundTypes
  <2>3. Order' /\ Voiced'  BY <2>1 DEF RoundInv, Order, Voiced
  <2>4. Threaded'
    BY <2>1 DEF RoundInv, Threaded, Waiting, Backwards, NoneForgotten
  <2>5. QED  BY <2>2, <2>3, <2>4 DEF RoundInv
<1>2. ASSUME NEW v \in arenas, Engines!SayNothing(v) \/ Engines!ArenaRaises(v) PROVE RoundInv'
  <2>1. /\ stage = "speak" /\ UNCHANGED <<stage, platform, arenas, engineRound>>
        /\ UNCHANGED <<said, queue, events, index, links, unlinked, made>>
    BY <1>2 DEF Engines!SayNothing, Engines!ArenaRaises
  <2>2. links # {} => stage \in {"write", "link"}  BY DEF RoundInv, Threaded, Waiting
  <2>3. QED  BY <2>1, <2>2, RoundAside
<1>3. ASSUME NEW v \in arenas, NEW verb \in DOMAIN Engines!Adapters[platform].verbs,
             NEW target \in 0..made, Engines!Answer(v, verb, target)
      PROVE  RoundInv'
  BY <1>3, AnswerKept
<1>4. CASE Engines!RoundStored
  <2>1. /\ stage = "write" /\ stage' = "link" /\ UNCHANGED <<platform, arenas, engineRound>>
        /\ UNCHANGED <<said, queue, events, index, links, unlinked, made>>
    BY <1>4 DEF Engines!RoundStored
  <2>2. QED  BY <2>1, RoundAside
<1>5. QED
  BY <1>1, <1>2, <1>3, <1>4, GatherKept, ChunkKept, RaiseKept, RoundEdges, LinkKept
  DEF Engines!Next

(* simulation_runner.py: what is read as the propagation graph is what was *)
(* said.  However the arenas interleave, whichever chunks come back        *)
(* without their ids and whichever updates are refused, a linked reply     *)
(* points back at the stored post it names, and at the end of a round none *)
(* that could be linked is left unlinked.                                  *)
THEOREM ThreadsAreRight ==
  ASSUME ChunkSize \in Nat PROVE Engines!Spec => []RepliesHangFromTheirPost
<1>1. RoundInv => RepliesHangFromTheirPost
  <2> SUFFICES ASSUME RoundInv PROVE RepliesHangFromTheirPost  OBVIOUS
  <2>1. ASSUME NEW i \in DOMAIN events, NEW j \in DOMAIN events,
               Engines!Names(events[i], events[j]), events[i].paired, events[j].paired,
               i \notin unlinked,
               stage \in {"write", "link"} => events[i].round < engineRound
        PROVE  events[i].parent = j
    <3>1. Link(j, i).child = i  BY DEF Link
    <3>2. Link(j, i) \notin links
      <4>1. Link(j, i) \in links => /\ stage \in {"write", "link"}
                                    /\ events[i].round = engineRound
        BY <3>1 DEF RoundInv, Threaded, Waiting
      <4>2. engineRound \in Nat  BY DEF RoundInv, RoundTypes
      <4>3. QED  BY <2>1, <4>1, <4>2
    <3>3. QED  BY <2>1, <3>2 DEF RoundInv, Threaded, NoneForgotten
  <2>2. QED
    BY <2>1 DEF RepliesHangFromTheirPost, Engines!RepliesHangFromTheirPost, RoundInv, Threaded,
                Backwards
<1>2. QED  BY <1>1, RoundsBegin, RoundStep, PTL DEF Engines!Spec

-----------------------------------------------------------------------------
(***************************************************************************)
(* The headline and the scoreboard claim no more than the room showed.     *)
(***************************************************************************)
(* A round in which one person spoke has the widest band there is, and two *)
(* such bands are never apart.                                             *)
LEMMA OneVoiceIsNoTrend ==
  ASSUME IsFiniteSet(Voices), \A r \in 1..Rounds : Opinions!Cardinality(Opinions!Heard({r})) <= 1
  PROVE  /\ Opinions!Trajectory = "flat"
         /\ \A f \in Opinions!Flashpoints : ~f.significant
<1>1. ASSUME NEW r \in Opinions!Timeline
      PROVE  Opinions!At(r).lower = -10000 /\ Opinions!At(r).upper = 10000
  <2> DEFINE people == Opinions!Heard({r})
  <2>1. r \in 1..Rounds /\ people # {}  BY DEF Opinions!Timeline
  <2>2. people \subseteq Voices  BY DEF Opinions!Heard
  <2> HIDE DEF people
  <2>3. IsFiniteSet(people)  BY <2>2, FS_Subset
  <2>4. Cardinality(people) \in Nat /\ Cardinality(people) # 0
    BY <2>1, <2>3, FS_CardinalityType, FS_EmptySet
  <2>5. Opinions!Cardinality(people) = Cardinality(people)
    BY DEF Opinions!Cardinality, Cardinality
  <2>6. Opinions!Cardinality(people) <= 1  BY <2>1 DEF people
  <2>7. Opinions!Cardinality(people) = 1  BY <2>4, <2>5, <2>6
  <2>8. Opinions!Interval({r}) = [mean |-> Opinions!Centre({r}), lower |-> -10000, upper |-> 10000]
    BY <2>7 DEF Opinions!Interval, Opinions!One, people
  <2>9. QED  BY <2>8 DEF Opinions!At
<1>2. ASSUME NEW p \in Opinions!Timeline \X Opinions!Timeline
      PROVE  /\ ~(Opinions!At(p[2]).lower > Opinions!At(p[1]).upper)
             /\ ~(Opinions!At(p[2]).upper < Opinions!At(p[1]).lower)
  BY <1>1
<1>3. Opinions!Trajectory = "flat"
  BY <1>2 DEF Opinions!Trajectory, Opinions!Ends
<1>4. ASSUME NEW f \in Opinions!Flashpoints PROVE ~f.significant
  <2>1. PICK p \in Opinions!Adjacent :
          f = [round |-> p[2], significant |-> Opinions!Apart(Opinions!At(p[1]), Opinions!At(p[2]))]
    BY DEF Opinions!Flashpoints
  <2>2. p \in Opinions!Timeline \X Opinions!Timeline  BY DEF Opinions!Adjacent
  <2>3. ~Opinions!Apart(Opinions!At(p[1]), Opinions!At(p[2]))  BY <1>2, <2>2 DEF Opinions!Apart
  <2>4. QED  BY <2>1, <2>3
<1>5. QED  BY <1>3, <1>4

CrowdTyped ==
  /\ crowd.both \in Nat /\ crowd.first \in Nat /\ crowd.second \in Nat /\ crowd.neither \in Nat
  /\ board.winner \subseteq {"first", "second"}

LEMMA TimesGrows ==
  ASSUME NEW a \in Nat, NEW b \in Nat, NEW c \in Nat, a <= b
  PROVE  a * c \in Nat /\ b * c \in Nat /\ a * c <= b * c
<1>1. PICK j \in Nat : b = a + j
  <2>1. b - a \in Nat /\ b = a + (b - a)  OBVIOUS
  <2>2. QED  BY <2>1
<1>2. a * c \in Nat /\ j * c \in Nat /\ b * c = a * c + j * c  BY <1>1
<1>3. QED  BY <1>2

(* A lead of one or two is never apart from none: its band reaches zero.   *)
LEMMA LeadOfThree ==
  ASSUME CrowdTyped, MinPaired \in Nat, MinPaired >= 4, Opinions!Shared >= MinPaired, Opinions!Separates
  PROVE  Opinions!Ahead >= 3
<1> DEFINE a == Opinions!Ahead  d == Opinions!Discordant  n == Opinions!Shared
<1>1. a \in Int /\ d \in Nat /\ n \in Nat /\ a <= d /\ n >= 4
  BY DEF CrowdTyped, Opinions!Ahead, Opinions!Discordant, Opinions!Shared, Opinions!For
<1>2. a > 0 /\ 38416 * (d * n - a * a) < 10000 * a * a * (n - 1)
  BY DEF Opinions!Separates
<1> HIDE DEF a, d, n
<1>3. a # 1
  <2> SUFFICES ASSUME a = 1 PROVE FALSE  OBVIOUS
  <2>1. d * n \in Nat /\ 1 * n <= d * n
    <3>1. 1 \in Nat /\ d \in Nat /\ n \in Nat /\ 1 <= d /\ n <= n  BY <1>1
    <3>2. QED  BY <3>1, TimesGrows
  <2>2. 38416 * (d * n - 1) < 10000 * (n - 1)  BY <1>1, <1>2
  <2>3. QED  BY <1>1, <2>1, <2>2
<1>4. a # 2
  <2> SUFFICES ASSUME a = 2 PROVE FALSE  OBVIOUS
  <2>1. d * n \in Nat /\ 2 * n <= d * n
    <3>1. 2 \in Nat /\ d \in Nat /\ n \in Nat /\ 2 <= d /\ n <= n  BY <1>1
    <3>2. QED  BY <3>1, TimesGrows
  <2>2. 38416 * (d * n - 4) < 40000 * (n - 1)  BY <1>1, <1>2
  <2>3. QED  BY <1>1, <2>1, <2>2
<1>5. QED  BY <1>1, <1>2, <1>3, <1>4 DEF a

ClaimInv == CrowdTyped /\ NothingOverclaimed

(* analysis_builder and variant_scoreboard: whatever a room of any size    *)
(* says, no trend and no significant shift is read off rounds in which one *)
(* person spoke, and a paired winner converted at least three people more  *)
(* of those who saw both.                                                  *)
THEOREM ClaimsAreModest ==
  ASSUME IsFiniteSet(Voices), MinPaired \in Nat, MinPaired >= 4
  PROVE  Opinions!Spec => []NothingOverclaimed
<1> USE DEF NothingOverclaimed, Opinions!NothingOverclaimed
<1>1. Opinions!Init => ClaimInv
  <2> SUFFICES ASSUME Opinions!Init PROVE ClaimInv  OBVIOUS
  <2>1. CrowdTyped
    BY DEF Opinions!Init, Opinions!Nobody, Opinions!Crowds, CrowdTyped
  <2>2. Opinions!NoTrendFromOneVoice
    BY DEF Opinions!Init, Opinions!NoTrendFromOneVoice
  <2>3. Opinions!WinnerConvertsMore
    BY DEF Opinions!Init, Opinions!WinnerConvertsMore
  <2>4. QED  BY <2>1, <2>2, <2>3 DEF ClaimInv
<1>2. ClaimInv /\ [Opinions!Next]_(Opinions!opinionVars) => ClaimInv'
  <2> SUFFICES ASSUME ClaimInv, [Opinions!Next]_(Opinions!opinionVars) PROVE ClaimInv'  OBVIOUS
  <2>1. CASE Opinions!BuildHeadline
    <3>1. CrowdTyped' /\ Opinions!WinnerConvertsMore'
      BY <2>1 DEF Opinions!BuildHeadline, ClaimInv, CrowdTyped, Opinions!WinnerConvertsMore,
                  Opinions!For, Opinions!Shared
    <3>2. /\ claimed'.trajectory = Opinions!Trajectory /\ claimed'.flash = Opinions!Flashpoints
          /\ heard' = heard
      BY <2>1 DEF Opinions!BuildHeadline
    <3>3. \A r : Opinions!Heard({r})' = Opinions!Heard({r})
      BY <3>2 DEF Opinions!Heard, Opinions!Spoken
    <3>4. Opinions!NoTrendFromOneVoice'
      BY <3>2, <3>3, OneVoiceIsNoTrend DEF Opinions!NoTrendFromOneVoice
    <3>5. QED  BY <3>1, <3>4 DEF ClaimInv
  <2>2. CASE Opinions!BuildScoreboard
    <3>1. heard' = heard /\ claimed' = claimed /\ crowd' = crowd /\ board' = Opinions!Board
      BY <2>2 DEF Opinions!BuildScoreboard
    <3>2. Opinions!NoTrendFromOneVoice'
      <4>1. \A r : Opinions!Heard({r})' = Opinions!Heard({r})
        BY <3>1 DEF Opinions!Heard, Opinions!Spoken
      <4>2. QED  BY <3>1, <4>1 DEF ClaimInv, Opinions!NoTrendFromOneVoice
    <3>3. Opinions!Shared' = Opinions!Shared /\ \A w : Opinions!For(w)' = Opinions!For(w)
      BY <3>1 DEF Opinions!Shared, Opinions!For
    <3>4. Opinions!Ranked[1].key \in {"first", "second"} /\ Opinions!Ranked[2].key \in {"first", "second"}
          /\ Opinions!Ranked[1].key # Opinions!Ranked[2].key
      BY DEF Opinions!Ranked, Opinions!Score
    <3>5. CrowdTyped'
      <4>1. Opinions!Paired.winner \in {{}, {Opinions!Ranked[1].key}}
        BY DEF Opinions!Paired
      <4>2. Opinions!Unpaired.winner \in {{}, {Opinions!Ranked[1].key}}
        BY DEF Opinions!Unpaired
      <4>3. Opinions!Board.winner \subseteq {"first", "second"}
        BY <3>4, <4>1, <4>2 DEF Opinions!Board
      <4>4. QED  BY <3>1, <4>3 DEF ClaimInv, CrowdTyped
    <3>6. ASSUME NEW w \in Opinions!Board.winner, Opinions!Shared >= MinPaired
          PROVE  Opinions!For(w) >= Opinions!For(IF w = "first" THEN "second" ELSE "first") + 3
      <4>1. Opinions!Shared \in Nat  BY DEF ClaimInv, CrowdTyped, Opinions!Shared
      <4>2. Opinions!Board = Opinions!Paired  BY <3>6, <4>1 DEF Opinions!Board
      <4>3. Opinions!Separates /\ w = Opinions!Ranked[1].key
        <5>1. w \in Opinions!Paired.winner  BY <3>6, <4>2
        <5>2. CASE Opinions!NoSpread  BY <5>1, <5>2 DEF Opinions!Paired
        <5>3. CASE ~Opinions!NoSpread /\ Opinions!Separates
          <6>1. Opinions!Paired = [winner |-> {Opinions!Ranked[1].key}, verdict |-> "leads"]
            BY <5>3 DEF Opinions!Paired
          <6>2. QED  BY <5>1, <5>3, <6>1
        <5>4. CASE ~Opinions!NoSpread /\ ~Opinions!Separates
          <6>1. Opinions!Paired = [winner |-> {}, verdict |-> "includes_zero"]
            BY <5>4 DEF Opinions!Paired
          <6>2. Opinions!Paired.winner = {}  BY <6>1
          <6>3. QED  BY <5>1, <6>2
        <5>5. QED  BY <5>2, <5>3, <5>4
      <4>4. Opinions!Ahead >= 3  BY <3>6, <4>3, LeadOfThree DEF ClaimInv
      <4>5. Opinions!Ranked[2].key = IF w = "first" THEN "second" ELSE "first"
        BY <3>4, <4>3
      <4>6. Opinions!For(w) \in Nat /\ Opinions!For(Opinions!Ranked[2].key) \in Nat
        BY DEF ClaimInv, CrowdTyped, Opinions!For
      <4>7. QED  BY <4>3, <4>4, <4>5, <4>6 DEF Opinions!Ahead
    <3>7. Opinions!WinnerConvertsMore'
      BY <3>1, <3>3, <3>6 DEF Opinions!WinnerConvertsMore
    <3>8. QED  BY <3>2, <3>5, <3>7 DEF ClaimInv
  <2>3. CASE UNCHANGED Opinions!opinionVars
    <3>1. heard' = heard /\ claimed' = claimed /\ crowd' = crowd /\ board' = board
      BY <2>3 DEF Opinions!opinionVars
    <3>2. \A r : Opinions!Heard({r})' = Opinions!Heard({r})
      BY <3>1 DEF Opinions!Heard, Opinions!Spoken
    <3>3. Opinions!NoTrendFromOneVoice'  BY <3>1, <3>2 DEF ClaimInv, Opinions!NoTrendFromOneVoice
    <3>4. QED
      BY <3>1, <3>3 DEF ClaimInv, CrowdTyped, Opinions!WinnerConvertsMore, Opinions!For, Opinions!Shared
  <2>4. QED  BY <2>1, <2>2, <2>3 DEF Opinions!Next
<1>3. ClaimInv => NothingOverclaimed  BY DEF ClaimInv
<1>4. QED  BY <1>1, <1>2, <1>3, PTL DEF Opinions!Spec

-----------------------------------------------------------------------------
(***************************************************************************)
(* The artifact counts nobody twice, whatever groups the model answers.    *)
(***************************************************************************)
LEMMA MaxIsOne ==
  ASSUME NEW n \in Nat, NEW s \in SUBSET (1..n), s # {}
  PROVE  Ana!Max(s) \in s
<1> DEFINE T == {k \in Nat : \A x \in s : x <= k}
<1>1. PICK m \in T : \A k \in T : m <= k
  <2>1. T \subseteq Nat /\ n \in T  OBVIOUS
  <2> HIDE DEF T
  <2>2. QED  BY <2>1, LeastNatural
<1>2. m \in Nat /\ \A x \in s : x <= m  OBVIOUS
<1>3. m \in s
  <2> SUFFICES ASSUME m \notin s PROVE FALSE  OBVIOUS
  <2>1. \A x \in s : x \in Nat /\ x >= 1 /\ x <= m - 1  BY <1>2
  <2>2. m - 1 \in T
    <3>1. PICK x \in s : TRUE  OBVIOUS
    <3>2. m - 1 \in Nat  BY <1>2, <2>1, <3>1
    <3>3. QED  BY <2>1, <3>2
  <2>3. QED  BY <1>1, <1>2, <2>2
<1>4. \A y \in s : m >= y  BY <1>2
<1>5. QED  BY <1>3, <1>4, Zenon DEF Ana!Max

(* A label has a key that was not given out.                               *)
LEMMA KeysAreFree ==
  ASSUME NEW seen, IsFiniteSet(seen), NEW label
  PROVE  /\ Ana!FreeKey(label, seen) \in {label} \X Nat
         /\ Ana!FreeKey(label, seen) \notin seen
<1> DEFINE n == Cardinality(seen) + 1
           T == {k \in 1..n : <<label, k>> \notin seen}
<1>1. n \in Nat /\ Cardinality(seen) \in Nat  BY FS_CardinalityType
<1>2. T # {}
  <2> SUFFICES ASSUME T = {} PROVE FALSE  OBVIOUS
  <2> DEFINE f == [k \in 1..n |-> <<label, k>>]
  <2>1. f \in [1..n -> seen]  OBVIOUS
  <2>2. IsFiniteSet(1..n) /\ Cardinality(1..n) = n
    <3> HIDE DEF n
    <3>1. 1 \in Int /\ n \in Int  BY <1>1
    <3>2. IsFiniteSet(1..n) /\ Cardinality(1..n) = IF 1 > n THEN 0 ELSE n - 1 + 1
      BY <3>1, FS_Interval, Zenon
    <3>3. QED  BY <1>1, <3>2
  <2>3. Cardinality(seen) < Cardinality(1..n)  BY <1>1, <2>2
  <2>4. \A x, y \in 1..n : x # y => f[x] # f[y]  OBVIOUS
  <2> DEFINE I == 1..n
  <2>5. IsFiniteSet(I) /\ Cardinality(seen) < Cardinality(I) /\ f \in [I -> seen]  BY <2>1, <2>2, <2>3
  <2> HIDE DEF f, I
  <2>6. \E x, y \in I : x # y /\ f[x] = f[y]  BY <2>5, FS_PigeonHole
  <2>7. QED  BY <2>4, <2>6 DEF I
<1>3. PICK m \in T : \A k \in T : m <= k
  <2>1. T \subseteq Nat  BY <1>1
  <2> HIDE DEF T
  <2>2. QED  BY <1>2, <2>1, LeastNatural
<1>4. Ana!Min(T) \in T
  <2> HIDE DEF T
  <2>1. QED  BY <1>3, Zenon DEF Ana!Min
<1>5. Ana!FreeKey(label, seen) = <<label, Ana!Min(T)>>
  <2>1. Ana!Cardinality(seen) = Cardinality(seen)  BY Zenon DEF Ana!Cardinality, Cardinality
  <2>2. QED  BY <2>1, Zenon DEF Ana!FreeKey
<1>6. Ana!Min(T) \in Nat /\ <<label, Ana!Min(T)>> \notin seen  BY <1>1, <1>4
<1> HIDE DEF T
<1>7. QED  BY <1>5, <1>6

(* Sums of whole strengths are whole.                                      *)
LEMMA StrengthIsWhole ==
  ASSUME NEW spoken \in SUBSET Said
  PROVE  Ana!Strength(spoken) \in Nat
<1> DEFINE pick == [s \in SUBSET spoken |-> CHOOSE x \in s : TRUE]
           step == [p \in spoken \X Nat |-> p[2] + p[1].strength]
           Summed(f) == f = [s \in SUBSET spoken |-> IF s = {} THEN 0
                             ELSE f[s \ {CHOOSE x \in s : TRUE}] + (CHOOSE x \in s : TRUE).strength]
           sum == CHOOSE f : Summed(f)
<1>1. IsFiniteSet(spoken)  BY SaidAssumption, FS_Subset
<1>2. \A e \in spoken : e.strength \in Nat  BY SaidAssumption
<1>3. \A s \in SUBSET spoken : s # {} => pick[s] \in s /\ pick[s] = CHOOSE x \in s : TRUE  OBVIOUS
<1>4. \A x \in spoken, b \in Nat : step[<<x, b>>] = b + x.strength /\ step[<<x, b>>] \in Nat  BY <1>2
<1> HIDE DEF pick, step
<1>5. PICK f \in [SUBSET spoken -> Nat] : Folds(f, spoken, 0, pick, step)
  <2>1. Foldable(spoken, Nat, 0, pick, step)  BY <1>3, <1>4 DEF Foldable
  <2>2. QED  BY <1>1, <2>1, FoldsExist
<1>6. Summed(f)
  <2>1. ASSUME NEW s \in SUBSET spoken
        PROVE  f[s] = IF s = {} THEN 0 ELSE f[s \ {CHOOSE x \in s : TRUE}] + (CHOOSE x \in s : TRUE).strength
    <3>1. CASE s = {}  BY <1>5, <3>1 DEF Folds
    <3>2. CASE s # {}
      <4>1. f[s] = step[<<pick[s], f[s \ {pick[s]}]>>]  BY <1>5, <3>2 DEF Folds
      <4>2. pick[s] \in spoken /\ s \ {pick[s]} \in SUBSET spoken /\ f[s \ {pick[s]}] \in Nat  BY <1>3, <1>5, <3>2
      <4>3. f[s] = f[s \ {pick[s]}] + pick[s].strength  BY <1>4, <4>1, <4>2
      <4>4. QED  BY <1>3, <3>2, <4>3, Zenon
    <3>3. QED  BY <3>1, <3>2
  <2>2. QED  BY <2>1
<1> HIDE DEF Summed
<1>7. Summed(sum)  BY <1>6, Zenon
<1> HIDE DEF sum
<1>8. sum[spoken] \in Nat
  <2> DEFINE Holds == {s \in SUBSET spoken : sum[s] \in Nat}
  <2>1. {} \in Holds  BY <1>7 DEF Summed
  <2>2. ASSUME NEW s \in SUBSET spoken, s # {} PROVE \E x \in s : s \ {x} \in Holds => s \in Holds
    <3> DEFINE x == CHOOSE x \in s : TRUE
    <3>1. x \in s  BY <2>2
    <3>2. sum[s] = sum[s \ {x}] + x.strength  BY <1>7, <2>2 DEF Summed
    <3> HIDE DEF x
    <3>3. sum[s \ {x}] \in Nat => sum[s] \in Nat  BY <1>2, <3>1, <3>2
    <3>4. QED  BY <3>1, <3>3
  <2> HIDE DEF Holds
  <2>3. Grows(spoken, Holds)  BY <2>1, <2>2 DEF Grows
  <2>4. spoken \in Holds  BY <1>1, <2>3, FoldsStay
  <2>5. QED  BY <2>4 DEF Holds
<1>9. Ana!Strength(spoken) = sum[spoken]
  BY Zenon DEF Ana!Strength, Ana!FoldSet, Ana!MapThenFoldSet, sum, Summed
<1>10. QED  BY <1>8, <1>9

(* What was grouped so far: no key twice, no phrasing twice, and each      *)
(* objection the summary of phrasings that somebody said.                  *)
Keyed == (Ana!Labels \cup Ana!Raw) \X Nat
Summaries == {Ana!Summary(p[1], p[2]) : p \in Keyed \X ((SUBSET Ana!Raw) \ {{}})}
Apart(os) == \A i, j \in DOMAIN os : i # j =>
               os[i].key # os[j].key /\ os[i].phrasings \cap os[j].phrasings = {}
Grouped ==
  {acc \in [claimed : SUBSET Ana!Raw, seen : SUBSET Keyed, out : Seq(Summaries)] :
     /\ IsFiniteSet(acc.seen) /\ Apart(acc.out)
     /\ \A i \in DOMAIN acc.out : acc.out[i].key \in acc.seen /\ acc.out[i].phrasings \subseteq acc.claimed}
Groupable ==
  [label : Ana!Labels \cup Ana!Raw, members : (SUBSET Ana!Raw) \ {{}}, key : {{}} \cup {{p} : p \in Priors}]

LEMMA TakeKeeps ==
  ASSUME NEW acc \in Grouped, NEW g \in Groupable
  PROVE  Ana!Take(acc, g) \in Grouped
<1> DEFINE members == g.members \ acc.claimed
           key == Ana!Key(g, acc.seen)
           o == Ana!Summary(key, members)
           new == [claimed |-> acc.claimed \cup members, seen |-> acc.seen \cup {key},
                   out |-> Append(acc.out, o)]
<1>1. Ana!Take(acc, g) = IF members = {} THEN acc ELSE new  BY DEF Ana!Take
<1>2. acc \in [claimed : SUBSET Ana!Raw, seen : SUBSET Keyed, out : Seq(Summaries)]
      /\ IsFiniteSet(acc.seen) /\ Apart(acc.out)
      /\ \A i \in DOMAIN acc.out : acc.out[i].key \in acc.seen /\ acc.out[i].phrasings \subseteq acc.claimed
  BY DEF Grouped
<1>3. /\ acc.claimed \in SUBSET Ana!Raw /\ acc.seen \in SUBSET Keyed /\ acc.out \in Seq(Summaries)
      /\ acc = [claimed |-> acc.claimed, seen |-> acc.seen, out |-> acc.out]
  BY <1>2
<1>4. g.label \in Ana!Labels \cup Ana!Raw /\ g.members \in SUBSET Ana!Raw
      /\ g.key \in {{}} \cup {{p} : p \in Priors}
  BY DEF Groupable
<1>5. key \in Keyed /\ key \notin acc.seen
  <2>1. CASE g.key \subseteq acc.seen
    <3>1. key = Ana!FreeKey(g.label, acc.seen)  BY <2>1 DEF Ana!Key
    <3>2. key \in {g.label} \X Nat /\ key \notin acc.seen  BY <1>2, <3>1, KeysAreFree
    <3> HIDE DEF key
    <3>3. QED  BY <1>4, <3>2 DEF Keyed
  <2>2. CASE ~(g.key \subseteq acc.seen)
    <3>1. PICK p \in Priors : g.key = {p}  BY <1>4, <2>2
    <3>2. key = p
      <4>1. key = CHOOSE k \in g.key : TRUE  BY <2>2, Zenon DEF Ana!Key
      <4>2. (CHOOSE k \in g.key : TRUE) \in g.key  BY <3>1
      <4> HIDE DEF key
      <4>3. QED  BY <3>1, <4>1, <4>2
    <3>3. p \in Keyed  BY SaidAssumption DEF Keyed
    <3> HIDE DEF key
    <3>4. QED  BY <2>2, <3>1, <3>2, <3>3
  <2>3. QED  BY <2>1, <2>2
<1>6. ASSUME members # {} PROVE new \in Grouped
  <2>1. members \in (SUBSET Ana!Raw) \ {{}}  BY <1>4, <1>6
  <2>2. o \in Summaries
    <3> HIDE DEF key, members
    <3>1. <<key, members>> \in Keyed \X ((SUBSET Ana!Raw) \ {{}})  BY <1>5, <2>1
    <3>2. o = Ana!Summary(<<key, members>>[1], <<key, members>>[2])  BY <3>1
    <3> HIDE DEF o
    <3>3. QED  BY <3>1, <3>2, Zenon DEF Summaries
  <2>3. o.key = key /\ o.phrasings = members  BY DEF Ana!Summary
  <2>4. IsFiniteSet(acc.seen \cup {key})
    <3> HIDE DEF key
    <3>1. QED  BY <1>2, FS_AddElement
  <2> DEFINE n == Len(acc.out)
             out == Append(acc.out, o)
  <2> HIDE DEF o, key, members
  <2>5. n \in Nat /\ DOMAIN acc.out = 1..n  BY <1>3
  <2>6. /\ out \in Seq(Summaries) /\ DOMAIN out = 1..(n + 1) /\ out[n + 1] = o
        /\ \A i \in 1..n : out[i] = acc.out[i]
    BY <1>3, <2>2
  <2> HIDE DEF out, n
  <2>7. \A i \in 1..n : /\ out[i].key \in acc.seen /\ out[i].phrasings \subseteq acc.claimed
                        /\ out[i].key # o.key /\ out[i].phrasings \cap o.phrasings = {}
    <3>1. members \cap acc.claimed = {}  BY DEF members
    <3>2. QED  BY <1>2, <1>5, <2>3, <2>5, <2>6, <3>1
  <2>8. Apart(out)
    <3> SUFFICES ASSUME NEW i \in 1..(n + 1), NEW j \in 1..(n + 1), i # j
                 PROVE  out[i].key # out[j].key /\ out[i].phrasings \cap out[j].phrasings = {}
      BY <2>6 DEF Apart
    <3>1. CASE i \in 1..n /\ j \in 1..n
      <4>1. out[i] = acc.out[i] /\ out[j] = acc.out[j]  BY <2>6, <3>1
      <4>2. acc.out[i].key # acc.out[j].key /\ acc.out[i].phrasings \cap acc.out[j].phrasings = {}
        BY <1>2, <2>5, <3>1 DEF Apart
      <4>3. QED  BY <4>1, <4>2
    <3>2. CASE i \in 1..n /\ j = n + 1  BY <2>6, <2>7, <3>2
    <3>3. CASE j \in 1..n /\ i = n + 1
      <4>1. out[j].key # o.key /\ out[j].phrasings \cap o.phrasings = {} /\ out[i] = o  BY <2>6, <2>7, <3>3
      <4>2. QED  BY <4>1
    <3>4. QED  BY <2>5, <3>1, <3>2, <3>3
  <2>9. \A i \in DOMAIN out : out[i].key \in acc.seen \cup {key}
                              /\ out[i].phrasings \subseteq acc.claimed \cup members
    <3> SUFFICES ASSUME NEW i \in 1..(n + 1)
                 PROVE  out[i].key \in acc.seen \cup {key} /\ out[i].phrasings \subseteq acc.claimed \cup members
      BY <2>6
    <3>1. CASE i \in 1..n  BY <2>7, <3>1
    <3>2. CASE i = n + 1  BY <2>3, <2>6, <3>2
    <3>3. QED  BY <2>5, <3>1, <3>2
  <2>10. acc.claimed \cup members \in SUBSET Ana!Raw /\ acc.seen \cup {key} \in SUBSET Keyed
    BY <1>3, <1>5, <2>1
  <2>11. new = [claimed |-> acc.claimed \cup members, seen |-> acc.seen \cup {key}, out |-> out]
    BY DEF out
  <2> HIDE DEF new
  <2>12. /\ new \in [claimed : SUBSET Ana!Raw, seen : SUBSET Keyed, out : Seq(Summaries)]
         /\ new.claimed = acc.claimed \cup members /\ new.seen = acc.seen \cup {key} /\ new.out = out
    BY <2>6, <2>10, <2>11
  <2>13. QED  BY <2>4, <2>8, <2>9, <2>12 DEF Grouped
<1> HIDE DEF new
<1>7. QED  BY <1>1, <1>6

(* However many groups there are.                                          *)
LEMMA CollectKeeps ==
  ASSUME NEW gs \in Seq(Groupable)
  PROVE  \E acc \in Grouped : Ana!Canonicalize(gs) = Ana!Ranked(acc.out)
<1> DEFINE D == DOMAIN gs
           base == [claimed |-> {}, seen |-> {}, out |-> <<>>]
           pick == [s \in SUBSET D |-> Ana!Max(s)]
           step == [p \in D \X Grouped |-> Ana!Take(p[2], gs[p[1]])]
           Collects(f) == f = [s \in SUBSET D |-> IF s = {} THEN base
                                 ELSE Ana!Take(f[s \ {Ana!Max(s)}], gs[Ana!Max(s)])]
           kept == CHOOSE f : Collects(f)
<1>1. PICK n \in Nat : D = 1..n  BY LenProperties
<1>2. IsFiniteSet(D)
  <2>1. 1 \in Int /\ n \in Int  OBVIOUS
  <2>2. QED  BY <1>1, <2>1, FS_Interval
<1>3. base \in Grouped
  <2>1. IsFiniteSet({})  BY FS_EmptySet
  <2>2. <<>> \in Seq(Summaries) /\ DOMAIN <<>> = {}  BY EmptySeq
  <2>3. QED  BY <2>1, <2>2 DEF Grouped, Apart
<1>4. \A s \in SUBSET D : s # {} => Ana!Max(s) \in s /\ pick[s] = Ana!Max(s)
  <2> HIDE DEF D
  <2>1. QED  BY <1>1, MaxIsOne
<1>5. \A x \in D, b \in Grouped : step[<<x, b>>] = Ana!Take(b, gs[x]) /\ step[<<x, b>>] \in Grouped
  BY TakeKeeps
<1> HIDE DEF pick, step, D, base
<1>6. PICK f \in [SUBSET D -> Grouped] : Folds(f, D, base, pick, step)
  <2>1. Foldable(D, Grouped, base, pick, step)  BY <1>3, <1>4, <1>5 DEF Foldable
  <2>2. QED  BY <1>2, <2>1, FoldsExist
<1>7. Collects(f)
  <2>1. ASSUME NEW s \in SUBSET D
        PROVE  f[s] = IF s = {} THEN base ELSE Ana!Take(f[s \ {Ana!Max(s)}], gs[Ana!Max(s)])
    <3>1. CASE s = {}  BY <1>6, <3>1 DEF Folds
    <3>2. CASE s # {}
      <4>1. f[s] = step[<<pick[s], f[s \ {pick[s]}]>>]  BY <1>6, <3>2 DEF Folds
      <4>2. pick[s] = Ana!Max(s) /\ pick[s] \in D /\ s \ {pick[s]} \in SUBSET D  BY <1>4, <3>2
      <4>3. f[s \ {pick[s]}] \in Grouped  BY <4>2
      <4>4. f[s] = Ana!Take(f[s \ {pick[s]}], gs[pick[s]])  BY <1>5, <4>1, <4>2, <4>3
      <4>5. QED  BY <3>2, <4>2, <4>4
    <3>3. QED  BY <3>1, <3>2
  <2>2. QED  BY <2>1
<1> HIDE DEF Collects
<1>8. Collects(kept)  BY <1>7, Zenon
<1> HIDE DEF kept
<1>9. kept[D] \in Grouped
  <2> DEFINE Holds == {s \in SUBSET D : kept[s] \in Grouped}
  <2>1. {} \in Holds  BY <1>3, <1>8 DEF Collects
  <2>2. ASSUME NEW s \in SUBSET D, s # {} PROVE \E x \in s : s \ {x} \in Holds => s \in Holds
    <3> DEFINE x == Ana!Max(s)
    <3>1. x \in s  BY <1>4, <2>2
    <3>2. kept[s] = Ana!Take(kept[s \ {x}], gs[x])  BY <1>8, <2>2 DEF Collects
    <3> HIDE DEF x
    <3>3. gs[x] \in Groupable  BY <3>1 DEF D
    <3>4. kept[s \ {x}] \in Grouped => kept[s] \in Grouped  BY <3>2, <3>3, TakeKeeps
    <3>5. QED  BY <3>1, <3>4
  <2> HIDE DEF Holds
  <2>3. Grows(D, Holds)  BY <2>1, <2>2 DEF Grows
  <2>4. D \in Holds  BY <1>2, <2>3, FoldsStay
  <2>5. QED  BY <2>4 DEF Holds
<1>10. Ana!Canonicalize(gs) = Ana!Ranked(kept[D].out)
  BY Zenon DEF Ana!Canonicalize, Ana!FoldLeft, Ana!MapThenFoldSet, kept, Collects, D, base
<1>11. QED  BY <1>9, <1>10

(* Summaries are weighed with whole numbers, and count everybody once.     *)
LEMMA SummariesCount ==
  ASSUME taken \subseteq Said, NEW o \in Summaries
  PROVE  o.score \in Nat /\ o.buyers + o.against = o.agents /\ o.agents > 0
<1>1. PICK p \in Keyed \X ((SUBSET Ana!Raw) \ {{}}) : o = Ana!Summary(p[1], p[2])  BY DEF Summaries
<1> DEFINE spoken == Ana!Raising(p[2])
           for == {e \in spoken : ~e.against}
           con == {e \in spoken : e.against}
<1>2. \A S : Ana!Cardinality(S) = Cardinality(S)  BY Zenon DEF Ana!Cardinality, Cardinality
<1>3. /\ o.score = Ana!Score(spoken) /\ o.agents = Cardinality(Ana!Agents(spoken))
      /\ o.buyers = Cardinality(Ana!Agents(for)) /\ o.against = Cardinality(Ana!Agents(con))
  BY <1>1, <1>2 DEF Ana!Summary
<1>4. spoken \subseteq taken /\ spoken \subseteq Said /\ spoken # {}
  <2>1. p[2] \subseteq Ana!Raw /\ p[2] # {}  BY <1>1
  <2>2. PICK x \in p[2] : x \in UNION {e.phrasings : e \in taken}  BY <2>1 DEF Ana!Raw
  <2>3. PICK e \in taken : x \in e.phrasings  BY <2>2
  <2>4. e \in spoken  BY <2>3 DEF Ana!Raising
  <2>5. QED  BY <2>4 DEF Ana!Raising
<1>5. ASSUME NEW S \in SUBSET Said
      PROVE  /\ IsFiniteSet(S) /\ Cardinality(S) \in Nat /\ (S # {} => Cardinality(S) > 0)
             /\ IsFiniteSet(Ana!Agents(S)) /\ Cardinality(Ana!Agents(S)) \in Nat
             /\ (S # {} => Cardinality(Ana!Agents(S)) > 0)
             /\ IsFiniteSet(Ana!Cohorts(S)) /\ Cardinality(Ana!Cohorts(S)) \in Nat
             /\ (S # {} => Cardinality(Ana!Cohorts(S)) > 0)
  <2>1. IsFiniteSet(S)  BY SaidAssumption, FS_Subset
  <2> DEFINE f == [e \in S |-> e.agent]  h == [e \in S |-> e.cohort]
  <2>2. f \in Surjection(S, Ana!Agents(S))  BY DEF Surjection, Ana!Agents
  <2>3. h \in Surjection(S, Ana!Cohorts(S))  BY DEF Surjection, Ana!Cohorts
  <2> HIDE DEF f, h
  <2>4. IsFiniteSet(Ana!Agents(S)) /\ IsFiniteSet(Ana!Cohorts(S))  BY <2>1, <2>2, <2>3, FS_Surjection
  <2>5. S # {} => Ana!Agents(S) # {} /\ Ana!Cohorts(S) # {}  BY DEF Ana!Agents, Ana!Cohorts
  <2>6. \A T : IsFiniteSet(T) => Cardinality(T) \in Nat /\ (T # {} => Cardinality(T) > 0)
    <3> SUFFICES ASSUME NEW T, IsFiniteSet(T)
                 PROVE  Cardinality(T) \in Nat /\ (T # {} => Cardinality(T) > 0)
      OBVIOUS
    <3>1. Cardinality(T) \in Nat /\ (Cardinality(T) = 0 <=> T = {})  BY FS_CardinalityType, FS_EmptySet
    <3>2. QED  BY <3>1
  <2>7. QED  BY <2>1, <2>4, <2>5, <2>6
<1>6. o.agents > 0  BY <1>3, <1>4, <1>5
<1>7. o.score \in Nat
  <2> DEFINE reach == Cardinality(Ana!Agents(spoken))  spread == Cardinality(Ana!Cohorts(spoken))
             strength == Ana!Strength(spoken)  n == Cardinality(spoken)
             people == Cardinality(Ana!Agents(taken))  groups == Cardinality(Ana!Cohorts(taken))
  <2>1. reach \in Nat /\ spread \in Nat /\ strength \in Nat  BY <1>4, <1>5, StrengthIsWhole
  <2>2. n \in Nat /\ n > 0 /\ people \in Nat /\ people > 0 /\ groups \in Nat /\ groups > 0
    BY <1>4, <1>5
  <2>3. Ana!Score(spoken) = (100 * reach * strength * spread) \div (people * n * groups)
    BY <1>2 DEF Ana!Score
  <2> HIDE DEF reach, spread, strength, n, people, groups, spoken
  <2>4. 100 * reach * strength * spread \in Nat
    <3>1. 100 * reach \in Nat  BY <2>1
    <3>2. 100 * reach * strength \in Nat  BY <2>1, <3>1, SMT
    <3>3. QED  BY <2>1, <3>2
  <2>5. people * n * groups \in Nat /\ people * n * groups > 0
    <3>1. people * n \in Nat /\ people * n > 0  BY <2>2
    <3>2. QED  BY <2>2, <3>1
  <2> DEFINE a == 100 * reach * strength * spread  b == people * n * groups
  <2> HIDE DEF a, b
  <2>6. a \in Nat /\ b \in Nat /\ b > 0  BY <2>4, <2>5 DEF a, b
  <2>7. a \div b \in Nat  BY <2>6
  <2>8. QED  BY <1>3, <2>3, <2>7 DEF a, b
<1>8. o.buyers + o.against = o.agents
  <2>1. for \in SUBSET Said /\ con \in SUBSET Said  BY <1>4
  <2>2. Ana!Agents(spoken) = Ana!Agents(for) \cup Ana!Agents(con)  BY DEF Ana!Agents
  <2>3. Ana!Agents(for) \cap Ana!Agents(con) = {}
    <3> SUFFICES ASSUME NEW e \in for, NEW g \in con, e.agent = g.agent PROVE FALSE  BY DEF Ana!Agents
    <3>1. e.against = g.against /\ e.against \in BOOLEAN  BY <1>4, SaidAssumption
    <3>2. ~e.against /\ g.against  OBVIOUS
    <3>3. QED  BY <3>1, <3>2
  <2> DEFINE A == Ana!Agents(for)  B == Ana!Agents(con)
  <2>4. IsFiniteSet(A) /\ IsFiniteSet(B) /\ Cardinality(A) \in Nat /\ Cardinality(B) \in Nat  BY <1>5, <2>1
  <2> HIDE DEF A, B, for, con, spoken
  <2>5. Cardinality(A \cup B) = Cardinality(A) + Cardinality(B) - Cardinality(A \cap B)  BY <2>4, FS_Union
  <2>6. Cardinality(A \cap B) = 0  BY <2>3, FS_EmptySet DEF A, B
  <2>7. Cardinality(A \cup B) = Cardinality(A) + Cardinality(B)  BY <2>4, <2>5, <2>6
  <2>8. QED  BY <1>3, <2>2, <2>7 DEF A, B
<1>9. QED  BY <1>6, <1>7, <1>8

(* The order they are shown in loses none and repeats none.                *)
Once(os) ==
  /\ Len(os) \in Nat /\ os = [i \in 1..Len(os) |-> os[i]] /\ Apart(os)
  /\ \A i \in DOMAIN os : os[i].buyers + os[i].against = os[i].agents /\ os[i].agents > 0

LEMMA RankedKeeps ==
  ASSUME taken \subseteq Said, NEW acc \in Grouped PROVE Once(Ana!Ranked(acc.out))
<1> DEFINE os == acc.out  n == Len(os)
           Above(i, j) == \/ os[i].score > os[j].score
                          \/ os[i].score = os[j].score /\ i < j
           Places(p) == \A i, j \in DOMAIN os : i < j => Above(p[i], p[j])
           place == CHOOSE p \in [DOMAIN os -> DOMAIN os] : Places(p)
           R == {p \in (1..n) \X (1..n) : Above(p[1], p[2])}
<1>1. os \in Seq(Summaries) /\ Apart(os)  BY DEF Grouped
<1>2. n \in Nat /\ DOMAIN os = 1..n /\ \A i \in 1..n : os[i] \in Summaries  BY <1>1
<1>3. \A i \in 1..n : os[i].score \in Nat /\ os[i].buyers + os[i].against = os[i].agents /\ os[i].agents > 0
  BY <1>2, SummariesCount
<1> HIDE DEF os, n
<1>4. IsFiniteSet(1..n) /\ Cardinality(1..n) = n
  <2>1. 1 \in Int /\ n \in Int  BY <1>2
  <2>2. IsFiniteSet(1..n) /\ Cardinality(1..n) = IF 1 > n THEN 0 ELSE n - 1 + 1
    BY <2>1, FS_Interval, Zenon
  <2>3. QED  BY <1>2, <2>2
<1>5. \E p \in [1..n -> 1..n] : \A i, j \in 1..n : i < j => p[i] # p[j] /\ <<p[i], p[j]>> \in R
  <2> DEFINE S == 1..n
  <2>1. \A x, y \in S : <<x, y>> \in R <=> Above(x, y)  OBVIOUS
  <2>2. \A x \in S : x \in Int /\ os[x].score \in Int  BY <1>2, <1>3
  <2> HIDE DEF R, S
  <2>3. \A x \in S : <<x, x>> \notin R  BY <2>1, <2>2
  <2>4. \A x, y \in S : x # y => <<x, y>> \in R \/ <<y, x>> \in R
    <3> SUFFICES ASSUME NEW x \in S, NEW y \in S, x # y PROVE Above(x, y) \/ Above(y, x)
      BY <2>1
    <3>1. x < y \/ y < x  BY <2>2
    <3>2. QED  BY <2>2, <3>1
  <2>5. \A x, y, z \in S : <<x, y>> \in R /\ <<y, z>> \in R => <<x, z>> \in R  BY <2>1, <2>2
  <2>6. IsFiniteSet(S) /\ Cardinality(S) = n  BY <1>4 DEF S
  <2>7. \E p \in [1..Cardinality(S) -> S] : \A i, j \in 1..Cardinality(S) :
           i < j => p[i] # p[j] /\ <<p[i], p[j]>> \in R
    BY <2>3, <2>4, <2>5, <2>6, OrdersExist
  <2>8. QED  BY <2>6, <2>7 DEF S
<1>6. \E p \in [DOMAIN os -> DOMAIN os] : Places(p)
  <2>1. PICK p \in [1..n -> 1..n] : \A i, j \in 1..n : i < j => p[i] # p[j] /\ <<p[i], p[j]>> \in R  BY <1>5
  <2>2. ASSUME NEW i \in DOMAIN os, NEW j \in DOMAIN os, i < j PROVE Above(p[i], p[j])
    <3>1. <<p[i], p[j]>> \in R  BY <1>2, <2>1, <2>2
    <3> HIDE DEF n
    <3>2. QED  BY <3>1
  <2>3. Places(p)  BY <2>2
  <2> HIDE DEF Places
  <2>4. QED  BY <1>2, <2>1, <2>3
<1>7. place \in [DOMAIN os -> DOMAIN os] /\ Places(place)
  <2> HIDE DEF Places
  <2>1. QED  BY <1>6
<1>8. Ana!Ranked(os) = [i \in DOMAIN os |-> os[place[i]]]  BY Zenon DEF Ana!Ranked
<1> HIDE DEF place
<1>9. \A i, j \in 1..n : i # j => place[i] # place[j]
  <2> SUFFICES ASSUME NEW i \in 1..n, NEW j \in 1..n, i < j, place[i] = place[j] PROVE FALSE
    BY <1>2
  <2>1. Above(place[i], place[i])  BY <1>2, <1>7
  <2>2. place[i] \in 1..n  BY <1>2, <1>7
  <2>3. os[place[i]].score \in Nat /\ place[i] \in Nat  BY <1>2, <1>3, <2>2
  <2>4. QED  BY <2>1, <2>3
<1> DEFINE out == [i \in 1..n |-> os[place[i]]]
<1>10. DOMAIN out = 1..n /\ Len(out) = n /\ out = [i \in 1..Len(out) |-> out[i]]
       /\ \A i \in 1..n : out[i] = os[place[i]] /\ place[i] \in 1..n
  BY <1>2, <1>7
<1> HIDE DEF out
<1>11. Apart(out)
  <2> SUFFICES ASSUME NEW i \in 1..n, NEW j \in 1..n, i # j
               PROVE  out[i].key # out[j].key /\ out[i].phrasings \cap out[j].phrasings = {}
    BY <1>10 DEF Apart
  <2>1. place[i] \in DOMAIN os /\ place[j] \in DOMAIN os /\ place[i] # place[j]  BY <1>2, <1>9, <1>10
  <2>2. QED  BY <1>1, <1>10, <2>1 DEF Apart
<1>12. Once(out)  BY <1>2, <1>3, <1>10, <1>11 DEF Once
<1>13. QED  BY <1>2, <1>8, <1>12 DEF os, out

(* What may be read is read of what was said, and its phrasings are some.  *)
LEMMA FallbackIsGroups ==
  ASSUME taken \subseteq Said PROVE Ana!Fallback \in Seq(Groupable)
<1> DEFINE order == Ana!SetToSeq(Ana!Raw)
<1>1. IsFiniteSet(Ana!Raw)
  <2>1. \A e \in Said : IsFiniteSet(e.phrasings)  BY SaidAssumption
  <2>2. IsFiniteSet(taken)  BY SaidAssumption, FS_Subset
  <2> DEFINE f == [e \in taken |-> e.phrasings]
             phrased == {e.phrasings : e \in taken}
  <2>3. f \in Surjection(taken, phrased)  BY DEF Surjection
  <2>4. \A S \in phrased : IsFiniteSet(S)  BY <2>1
  <2> HIDE DEF f, phrased
  <2>5. IsFiniteSet(phrased)  BY <2>2, <2>3, FS_Surjection
  <2>6. IsFiniteSet(UNION phrased)  BY <2>4, <2>5, FS_UNION
  <2>7. QED  BY <2>6 DEF Ana!Raw, phrased
<1> DEFINE n == Cardinality(Ana!Raw)
<1>2. n \in Nat  BY <1>1, FS_CardinalityType
<1>3. order \in [1..n -> Ana!Raw]
  <2>1. order = CHOOSE f \in [1..n -> Ana!Raw] : Ana!IsInjective(f)
    <3>1. Ana!Cardinality(Ana!Raw) = n  BY Zenon DEF Ana!Cardinality, Cardinality
    <3>2. QED  BY <3>1, Zenon DEF Ana!SetToSeq
  <2>2. PICK f : f \in Bijection(1..n, Ana!Raw)  BY <1>1, FS_CardinalityType DEF ExistsBijection
  <2>3. f \in [1..n -> Ana!Raw] /\ Ana!IsInjective(f)
    BY <2>2 DEF Bijection, Injection, IsInjective, Ana!IsInjective
  <2> HIDE DEF n, order
  <2>4. QED  BY <2>1, <2>3
<1> HIDE DEF n, order
<1>4. Ana!Fallback = [i \in 1..n |-> [label |-> order[i], members |-> {order[i]}, key |-> {}]]
  <2>1. Ana!Fallback = [i \in DOMAIN order |-> [label |-> order[i], members |-> {order[i]}, key |-> {}]]
    BY Zenon DEF Ana!Fallback, order
  <2>2. QED  BY <1>3, <2>1
<1>5. \A i \in 1..n : [label |-> order[i], members |-> {order[i]}, key |-> {}] \in Groupable
  BY <1>3 DEF Groupable
<1>6. QED  BY <1>2, <1>4, <1>5

AnalysisInv ==
  /\ measured \subseteq Said /\ taken \subseteq Said
  /\ Once(found) /\ Once(artifact.objections)

LEMMA NoneIsOnce == Once(<<>>)
<1>1. Len(<<>>) = 0 /\ DOMAIN <<>> = {} /\ <<>> = [i \in 1..0 |-> <<>>[i]]  OBVIOUS
<1>2. QED  BY <1>1 DEF Once, Apart

(* canonicalize_objections, whatever was answered.                         *)
LEMMA FoundOnce ==
  ASSUME AnalysisInv, NEW gs, Ana!Group(gs),
         gs = <<>> \/ (\E g \in Ana!Groups : gs = <<g>>) \/ (\E g, h \in Ana!Groups : gs = <<g, h>>)
  PROVE  Once(found')
<1>1. taken \subseteq Said  BY DEF AnalysisInv
<1>2. Ana!Groups \subseteq Groupable  BY DEF Ana!Groups, Groupable
<1>3. CASE Ana!Raw = {}
  <2>1. found' = <<>>  BY <1>3 DEF Ana!Group
  <2>2. QED  BY <2>1, NoneIsOnce
<1>4. CASE Ana!Raw # {}
  <2> DEFINE answered == IF gs = <<>> THEN Ana!Fallback ELSE gs
  <2>1. found' = Ana!Canonicalize(answered)  BY <1>4 DEF Ana!Group
  <2>2. answered \in Seq(Groupable)
    <3>1. CASE gs = <<>>  BY <1>1, <3>1, FallbackIsGroups
    <3>2. CASE gs # <<>>
      <4>1. gs \in Seq(Groupable)
        <5>1. ASSUME NEW g \in Groupable, gs = <<g>> PROVE gs \in Seq(Groupable)  BY <5>1
        <5>2. ASSUME NEW g \in Groupable, NEW h \in Groupable, gs = <<g, h>> PROVE gs \in Seq(Groupable)
          BY <5>2
        <5>3. QED  BY <1>2, <3>2, <5>1, <5>2
      <4>2. QED  BY <3>2, <4>1
    <3>3. QED  BY <3>1, <3>2
  <2> HIDE DEF answered
  <2>3. PICK acc \in Grouped : Ana!Canonicalize(answered) = Ana!Ranked(acc.out)  BY <2>2, CollectKeeps
  <2>4. QED  BY <1>1, <2>1, <2>3, RankedKeeps
<1>5. QED  BY <1>3, <1>4

(* canonicalize_objections, build_simulation_analysis: no two objections   *)
(* of an artifact share a phrasing or a key, and whoever raised one is     *)
(* counted once, whichever answers come back and whichever write fails.    *)
THEOREM NobodyIsCountedTwice ==
  ASSUME MostShown \in Nat PROVE Ana!Spec => []EachPhrasingOnce
<1>1. Ana!Init => AnalysisInv  BY NoneIsOnce DEF Ana!Init, AnalysisInv
<1>2. AnalysisInv /\ [Ana!Next]_(Ana!analysisVars) => AnalysisInv'
  <2> SUFFICES ASSUME AnalysisInv, [Ana!Next]_(Ana!analysisVars) PROVE AnalysisInv'  OBVIOUS
  <2>1. ASSUME UNCHANGED <<found, artifact>>, measured' \subseteq Said, taken' \subseteq Said
        PROVE  AnalysisInv'
    BY <2>1 DEF AnalysisInv, Once, Apart
  <2>2. ASSUME NEW answered \in SUBSET Said, Ana!Measure(answered) PROVE AnalysisInv'
    BY <2>1, <2>2 DEF Ana!Measure, AnalysisInv
  <2>3. CASE Ana!Load  BY <2>1, <2>3 DEF Ana!Load, AnalysisInv
  <2>4. ASSUME NEW gs, Ana!Group(gs),
               gs = <<>> \/ (\E g \in Ana!Groups : gs = <<g>>) \/ (\E g, h \in Ana!Groups : gs = <<g, h>>)
        PROVE  AnalysisInv'
    <3>1. Once(found')  BY <2>4, FoundOnce
    <3>2. UNCHANGED <<measured, taken, artifact>>  BY <2>4 DEF Ana!Group
    <3>3. Once(artifact'.objections)  BY <3>2 DEF AnalysisInv
    <3>4. QED  BY <3>1, <3>2, <3>3 DEF AnalysisInv, Once, Apart
  <2>5. CASE Ana!Clear  BY <2>1, <2>5 DEF Ana!Clear, AnalysisInv
  <2>6. CASE Ana!Insert  BY <2>1, <2>6 DEF Ana!Insert, AnalysisInv
  <2>7. CASE Ana!Publish
    <3> DEFINE n == IF Len(found) < MostShown THEN Len(found) ELSE MostShown
               os == SubSeq(found, 1, n)
    <3>1. UNCHANGED <<measured, taken, found>> /\ artifact'.objections = os  BY <2>7 DEF Ana!Publish
    <3>2. Len(found) \in Nat /\ DOMAIN found = 1..Len(found)  BY DEF AnalysisInv, Once
    <3>3. n \in Nat /\ n <= Len(found)  BY <3>2
    <3>4. os = [i \in 1..n |-> found[i]]
      <4>1. os = [i \in 1..(1 + n - 1) |-> found[1 + i - 1]]  BY <3>2, <3>3
      <4> HIDE DEF n
      <4>2. 1 + n - 1 = n /\ \A i \in 1..n : 1 + i - 1 = i  BY <3>3
      <4>3. QED  BY <4>1, <4>2
    <3> HIDE DEF n, os
    <3>5. DOMAIN os = 1..n /\ Len(os) = n /\ \A i \in 1..n : os[i] = found[i] /\ i \in DOMAIN found
      BY <3>2, <3>3, <3>4
    <3>6. Apart(os)  BY <3>5 DEF AnalysisInv, Once, Apart
    <3>7. Once(os)
      <4>1. os = [i \in 1..Len(os) |-> os[i]]  BY <3>4, <3>5
      <4>2. \A i \in DOMAIN os : os[i].buyers + os[i].against = os[i].agents /\ os[i].agents > 0
        BY <3>5 DEF AnalysisInv, Once
      <4>3. QED  BY <3>3, <3>5, <3>6, <4>1, <4>2 DEF Once
    <3>8. Once(found') /\ Once(artifact'.objections)
      <4>1. Once(found)  BY DEF AnalysisInv
      <4>2. QED  BY <3>1, <3>7, <4>1
    <3>9. QED  BY <3>1, <3>8 DEF AnalysisInv, Once, Apart
  <2>8. CASE Ana!Fails
    <3>1. UNCHANGED <<measured, taken, found>>
          /\ (artifact'.objections = <<>> \/ artifact'.objections = artifact.objections)
      BY <2>8 DEF Ana!Fails
    <3>2. Once(found') /\ Once(artifact'.objections)
      <4>1. Once(found) /\ Once(artifact.objections)  BY DEF AnalysisInv
      <4>2. QED  BY <3>1, <4>1, NoneIsOnce
    <3>3. QED  BY <3>1, <3>2 DEF AnalysisInv, Once, Apart
  <2>9. CASE Ana!Rebuild  BY <2>1, <2>9 DEF Ana!Rebuild, AnalysisInv
  <2>10. CASE UNCHANGED Ana!analysisVars  BY <2>1, <2>10 DEF Ana!analysisVars, AnalysisInv
  <2>11. QED
    BY <2>2, <2>3, <2>4, <2>5, <2>6, <2>7, <2>8, <2>9, <2>10 DEF Ana!Next
<1>3. AnalysisInv => EachPhrasingOnce
  BY DEF AnalysisInv, Once, Apart, EachPhrasingOnce, Ana!EachPhrasingOnce
<1>4. QED  BY <1>1, <1>2, <1>3, PTL DEF Ana!Spec

-----------------------------------------------------------------------------
(***************************************************************************)
(* A pack that is offered can be found, and names no rival unlicensed.     *)
(***************************************************************************)
(* A pack has its columns, and names a competitor only on the documents    *)
(* its licence has, unless the founder wrote it.                           *)
Licensed(p) ==
  /\ p = [id |-> p.id, name |-> p.name, buyers |-> p.buyers, cohort |-> p.cohort,
          licence |-> p.licence, edited |-> p.edited]
  /\ ~p.edited => \A a \in p.cohort : a.named => a.grounded # {} /\ a.grounded \subseteq p.licence
(* A row of the library is under an id that is nobody else's kind of id.   *)
Shelved(r) ==
  /\ r = [id |-> r.id, source |-> r.source, pack |-> r.pack]
  /\ r.id.icp = 0 /\ ~Synth!IsBuiltin(r.id) /\ r.pack.id = r.id /\ Licensed(r.pack)
Shelf(lib) == IsFiniteSet(lib) /\ \A r \in lib : Shelved(r)
PacksInv ==
  /\ Shelf(library)
  /\ \A p \in profiles : p = [id |-> p.id, pack |-> p.pack] /\ Licensed(p.pack)
  /\ DOMAIN at = Syntheses /\ DOMAIN bag = Syntheses /\ DOMAIN answer = Syntheses
  /\ \A s \in Syntheses : at[s] = "built" =>
       /\ answer[s].buyers \subseteq Segments
       /\ \A a \in answer[s].cohort : a.named => a.grounded # {} /\ a.grounded \subseteq bag[s].rivals

(* _free_id finds one: the library has only so many.                       *)
LEMMA SomeIdIsFree ==
  ASSUME NEW lib, IsFiniteSet(lib), NEW name
  PROVE  \E k \in Nat : Synth!FreeId(lib, Synth!BaseId(name)) = [Synth!BaseId(name) EXCEPT !.n = k]
<1> DEFINE b == Synth!BaseId(name)
           ids == {r.id : r \in lib}
           n == Cardinality(lib) + 1
           numbered(k) == [b EXCEPT !.n = k]
           T == {k \in 1..n : numbered(k) \notin ids}
<1>1. n \in Nat /\ Cardinality(lib) \in Nat  BY FS_CardinalityType
<1>2. IsFiniteSet(ids) /\ Cardinality(ids) <= Cardinality(lib) /\ Cardinality(ids) \in Nat
  <2> DEFINE f == [r \in lib |-> r.id]
  <2>1. f \in Surjection(lib, ids)  BY DEF Surjection
  <2> HIDE DEF f, ids
  <2>2. IsFiniteSet(ids) /\ Cardinality(ids) <= Cardinality(lib)  BY <2>1, FS_Surjection
  <2>3. QED  BY <2>2, FS_CardinalityType
<1>3. \A j, k : numbered(j) = numbered(k) => j = k
  BY DEF Synth!BaseId, Synth!PlainId
<1> HIDE DEF b, numbered, ids
<1>4. T # {}
  <2> SUFFICES ASSUME T = {} PROVE FALSE  OBVIOUS
  <2> DEFINE I == 1..n  f == [k \in I |-> numbered(k)]
  <2>1. f \in [I -> ids]  OBVIOUS
  <2>2. IsFiniteSet(I) /\ Cardinality(I) = n
    <3> HIDE DEF n
    <3>1. 1 \in Int /\ n \in Int  BY <1>1
    <3>2. IsFiniteSet(1..n) /\ Cardinality(1..n) = IF 1 > n THEN 0 ELSE n - 1 + 1
      BY <3>1, FS_Interval, Zenon
    <3>3. QED  BY <1>1, <3>2
  <2>3. Cardinality(ids) < Cardinality(I)  BY <1>1, <1>2, <2>2
  <2>4. \A x, y \in I : x # y => f[x] # f[y]  BY <1>3
  <2> HIDE DEF f, I
  <2>5. \E x, y \in I : x # y /\ f[x] = f[y]  BY <1>2, <2>1, <2>2, <2>3, FS_PigeonHole
  <2>6. QED  BY <2>4, <2>5
<1>5. PICK m \in T : \A k \in T : m <= k
  <2>1. T \subseteq Nat  BY <1>1
  <2> HIDE DEF T
  <2>2. QED  BY <1>4, <2>1, LeastNatural
<1>6. m \in 1..n /\ numbered(m) \notin ids /\ \A j \in 1..(m - 1) : numbered(j) \in ids
  <2>1. m \in 1..n /\ numbered(m) \notin ids  OBVIOUS
  <2>2. ASSUME NEW j \in 1..(m - 1), numbered(j) \notin ids PROVE FALSE
    <3>1. j \in 1..n /\ j < m  BY <1>1, <2>1
    <3>2. j \in T  BY <2>2, <3>1
    <3>3. QED  BY <1>1, <1>5, <2>1, <3>1, <3>2
  <2>3. QED  BY <2>1, <2>2
<1> DEFINE c == CHOOSE k \in 1..n : numbered(k) \notin ids /\ \A j \in 1..(k - 1) : numbered(j) \in ids
<1>7. c \in 1..n
  <2> HIDE DEF n, T
  <2>1. QED  BY <1>6, Zenon
<1>8. Synth!FreeId(lib, b) = numbered(c)
  <2>1. Synth!Cardinality(lib) = Cardinality(lib)  BY Zenon DEF Synth!Cardinality, Cardinality
  <2>2. QED  BY <2>1, Zenon DEF Synth!FreeId, numbered, ids
<1>9. c \in Nat  BY <1>1, <1>7
<1> HIDE DEF c
<1>10. QED  BY <1>8, <1>9 DEF b, numbered

(* An id of the library's own space is no built-in's, however numbered.    *)
LEMMA BaseIsOwn ==
  ASSUME NEW name, NEW k, NEW id, id = [Synth!BaseId(name) EXCEPT !.n = k]
  PROVE  id.icp = 0 /\ ~Synth!IsBuiltin(id)
<1>1. id = [icp |-> 0, base |-> name, lib |-> Synth!IsBuiltin(Synth!PlainId(name)), n |-> k]
  BY DEF Synth!BaseId, Synth!PlainId
<1>2. ASSUME Synth!IsBuiltin(id) PROVE FALSE
  <2>1. PICK w \in Builtin : id = Synth!PlainId(w)  BY <1>2 DEF Synth!IsBuiltin
  <2>2. id.lib = FALSE /\ w = name  BY <1>1, <2>1 DEF Synth!PlainId
  <2>3. Synth!IsBuiltin(Synth!PlainId(name))  BY <2>2 DEF Synth!IsBuiltin
  <2>4. QED  BY <1>1, <2>2, <2>3
<1>3. QED  BY <1>1, <1>2

(* save_org_pack, wherever the pack comes from.                            *)
RowOf(i, source, p) == [id |-> i, source |-> source, pack |-> [p EXCEPT !.id = i]]
LEMMA SavedIsShelved ==
  ASSUME NEW lib, Shelf(lib), NEW p, Licensed(p), NEW source
  PROVE  /\ Shelf(Synth!SaveOrgPack(lib, p, source))
         /\ \A r \in Synth!SaveOrgPack(lib, p, source) :
              \/ r \in lib
              \/ \E i \in {x.id : x \in lib} \cup {[Synth!BaseId(p.name) EXCEPT !.n = k] : k \in Nat} :
                   r = RowOf(i, source, p)
<1> DEFINE before == {r \in lib : r.source = source}
           id == IF before # {} THEN (CHOOSE r \in before : TRUE).id
                 ELSE Synth!FreeId(lib, Synth!BaseId(p.name))
           row == [id |-> id, source |-> source, pack |-> [p EXCEPT !.id = id]]
           others == {r \in lib : r.id # id}
<1>1. Synth!SaveOrgPack(lib, p, source) = others \cup {row}  BY Zenon DEF Synth!SaveOrgPack
<1>2. /\ id.icp = 0 /\ ~Synth!IsBuiltin(id)
      /\ id \in {x.id : x \in lib} \cup {[Synth!BaseId(p.name) EXCEPT !.n = k] : k \in Nat}
  <2>1. CASE before # {}
    <3>1. PICK r \in lib : id = r.id  BY <2>1
    <3> HIDE DEF id
    <3>2. QED  BY <3>1 DEF Shelf, Shelved
  <2>2. CASE before = {}
    <3>1. id = Synth!FreeId(lib, Synth!BaseId(p.name))  BY <2>2
    <3> HIDE DEF id, before
    <3>2. PICK k \in Nat : id = [Synth!BaseId(p.name) EXCEPT !.n = k]
      <4>1. IsFiniteSet(lib)  BY DEF Shelf
      <4>2. \E k \in Nat : Synth!FreeId(lib, Synth!BaseId(p.name)) = [Synth!BaseId(p.name) EXCEPT !.n = k]
        BY <4>1, SomeIdIsFree, Zenon
      <4>3. QED  BY <3>1, <4>2, Zenon
    <3>3. id.icp = 0 /\ ~Synth!IsBuiltin(id)  BY <3>2, BaseIsOwn
    <3>4. QED  BY <3>2, <3>3
  <2>3. QED  BY <2>1, <2>2
<1> HIDE DEF id
<1>3. Shelved(row)
  <2>1. row.id = id /\ row.pack.id = id /\ Licensed(row.pack)  BY DEF Licensed
  <2>2. QED  BY <1>2, <2>1 DEF Shelved
<1>4. IsFiniteSet(others \cup {row})
  <2>1. others \in SUBSET lib  OBVIOUS
  <2> HIDE DEF others, row
  <2>2. IsFiniteSet(others)  BY <2>1, FS_Subset DEF Shelf
  <2>3. QED  BY <2>2, FS_AddElement
<1>5. Shelf(others \cup {row})  BY <1>3, <1>4 DEF Shelf
<1>6. row = RowOf(id, source, p)  BY DEF RowOf
<1> HIDE DEF row
<1>7. QED  BY <1>1, <1>2, <1>5, <1>6

(* A pack after another, however many.                                     *)
SaveEach(lib, segs, source) ==
  (CHOOSE f : f = [s \in SUBSET DOMAIN segs |-> IF s = {} THEN lib
                     ELSE Synth!SaveOrgPack(f[s \ {Synth!Max(s)}], segs[Synth!Max(s)], source)])[DOMAIN segs]
LEMMA SavedInTurn ==
  ASSUME NEW P, \A p \in P : Licensed(p), NEW lib, Shelf(lib), NEW segs \in Seq(P), NEW source
  PROVE  Shelf(SaveEach(lib, segs, source))
<1> DEFINE D == DOMAIN segs
           I == {x.id : x \in lib} \cup {[Synth!BaseId(p.name) EXCEPT !.n = k] : p \in P, k \in Nat}
           X == lib \cup {RowOf(q[1], source, q[2]) : q \in I \X P}
           B == {l \in SUBSET X : Shelf(l)}
           Put(l, p) == Synth!SaveOrgPack(l, p, source)
           pick == [s \in SUBSET D |-> Synth!Max(s)]
           step == [x \in D \X B |-> Put(x[2], segs[x[1]])]
           Saves(f) == f = [s \in SUBSET D |-> IF s = {} THEN lib
                              ELSE Put(f[s \ {Synth!Max(s)}], segs[Synth!Max(s)])]
           kept == CHOOSE f : Saves(f)
<1>1. PICK n \in Nat : D = 1..n  BY LenProperties
<1>2. IsFiniteSet(D)
  <2>1. 1 \in Int /\ n \in Int  OBVIOUS
  <2>2. QED  BY <1>1, <2>1, FS_Interval
<1>3. lib \in B  OBVIOUS
<1>4. \A s \in SUBSET D : s # {} => Synth!Max(s) \in s /\ pick[s] = Synth!Max(s)
  <2> HIDE DEF D
  <2>1. \A s : Synth!Max(s) = Ana!Max(s)  BY Zenon DEF Synth!Max, Ana!Max
  <2>2. QED  BY <1>1, <2>1, MaxIsOne
<1>5. ASSUME NEW x \in D, NEW l \in B PROVE Put(l, segs[x]) \in B
  <2> DEFINE p == segs[x]  new == Put(l, p)
             row(i) == RowOf(i, source, p)
             ids == {y.id : y \in l} \cup {[Synth!BaseId(p.name) EXCEPT !.n = k] : k \in Nat}
  <2>1. p \in P
    <3>1. x \in DOMAIN segs  OBVIOUS
    <3> HIDE DEF B
    <3>2. QED  BY <3>1
  <2>2. \A y \in X : y.id \in I
    <3>1. \A y \in lib : y.id \in I  OBVIOUS
    <3> HIDE DEF I
    <3>2. \A q \in I \X P : RowOf(q[1], source, q[2]).id = q[1]  BY DEF RowOf
    <3>3. QED  BY <3>1, <3>2
  <2>3. \A i \in I : row(i) \in X
    <3> HIDE DEF I, p
    <3>1. ASSUME NEW i \in I PROVE <<i, p>> \in I \X P /\ row(i) = RowOf(<<i, p>>[1], source, <<i, p>>[2])
      BY <2>1
    <3> HIDE DEF row
    <3>2. QED  BY <3>1
  <2>4. {[Synth!BaseId(p.name) EXCEPT !.n = k] : k \in Nat} \subseteq I
    <3> HIDE DEF p
    <3>1. QED  BY <2>1
  <2> HIDE DEF X, I
  <2>5. Licensed(p) /\ Shelf(l) /\ l \in SUBSET X  BY <2>1
  <2>6. ids \subseteq I  BY <2>2, <2>4, <2>5
  <2>7. Shelf(new) /\ \A r \in new : r \in l \/ \E i \in ids : r = row(i)
    <3> HIDE DEF p
    <3>1. QED  BY <2>5, SavedIsShelved
  <2> HIDE DEF new, row, ids, p
  <2>8. new \subseteq X  BY <2>3, <2>5, <2>6, <2>7
  <2>9. new \in B  BY <2>7, <2>8
  <2>10. QED  BY <2>9 DEF new, p
<1> HIDE DEF B
<1>6. \A x \in D, l \in B : step[<<x, l>>] = Put(l, segs[x]) /\ step[<<x, l>>] \in B  BY <1>5
<1> HIDE DEF pick, step, D, Put, X
<1>7. PICK f \in [SUBSET D -> B] : Folds(f, D, lib, pick, step)
  <2>1. Foldable(D, B, lib, pick, step)  BY <1>3, <1>4, <1>6 DEF Foldable
  <2>2. QED  BY <1>2, <2>1, FoldsExist
<1>8. Saves(f)
  <2>1. ASSUME NEW s \in SUBSET D
        PROVE  f[s] = IF s = {} THEN lib ELSE Put(f[s \ {Synth!Max(s)}], segs[Synth!Max(s)])
    <3>1. CASE s = {}  BY <1>7, <3>1 DEF Folds
    <3>2. CASE s # {}
      <4>1. f[s] = step[<<pick[s], f[s \ {pick[s]}]>>]  BY <1>7, <3>2 DEF Folds
      <4>2. pick[s] = Synth!Max(s) /\ pick[s] \in D /\ s \ {pick[s]} \in SUBSET D  BY <1>4, <3>2
      <4>3. f[s \ {pick[s]}] \in B  BY <4>2
      <4>4. f[s] = Put(f[s \ {pick[s]}], segs[pick[s]])  BY <1>6, <4>1, <4>2, <4>3
      <4>5. QED  BY <3>2, <4>2, <4>4
    <3>3. QED  BY <3>1, <3>2
  <2>2. QED  BY <2>1
<1> HIDE DEF Saves
<1>9. Saves(kept)  BY <1>8, Zenon
<1> HIDE DEF kept
<1>10. kept[D] \in B
  <2> DEFINE Holds == {s \in SUBSET D : kept[s] \in B}
  <2>1. {} \in Holds  BY <1>3, <1>9 DEF Saves
  <2>2. ASSUME NEW s \in SUBSET D, s # {} PROVE \E x \in s : s \ {x} \in Holds => s \in Holds
    <3> DEFINE x == Synth!Max(s)
    <3>1. x \in s  BY <1>4, <2>2
    <3>2. kept[s] = Put(kept[s \ {x}], segs[x])  BY <1>9, <2>2 DEF Saves
    <3> HIDE DEF x
    <3>3. kept[s \ {x}] \in B => kept[s] \in B  BY <1>5, <3>1, <3>2
    <3>4. QED  BY <3>1, <3>3
  <2> HIDE DEF Holds
  <2>3. Grows(D, Holds)  BY <2>1, <2>2 DEF Grows
  <2>4. D \in Holds  BY <1>2, <2>3, FoldsStay
  <2>5. QED  BY <2>4 DEF Holds
<1>11. SaveEach(lib, segs, source) = kept[D]  BY Zenon DEF SaveEach, kept, Saves, D, Put
<1>12. QED  BY <1>10, <1>11 DEF B

(* compile_packs: every segment's pack is licensed like the whole answer.  *)
LEMMA SegmentsAreLicensed ==
  ASSUME IsFiniteSet(Segments), NEW a, a.buyers \subseteq Segments, NEW licence, NEW id,
         \A x \in a.cohort : x.named => x.grounded # {} /\ x.grounded \subseteq licence
  PROVE  \E P : /\ \A p \in P : Licensed(p)
                /\ Synth!SegmentPacks(a, id, licence) \in Seq(P)
<1> DEFINE pk(g) == Synth!Pack(Synth!ProfileId(id, <<g>>), a.name \o <<g>>, {g}, a.cohort, licence)
           P == {pk(g) : g \in a.buyers}
           n == Cardinality(P)
<1>1. \A p \in P : Licensed(p)
  <2> SUFFICES ASSUME NEW g PROVE Licensed(pk(g))  OBVIOUS
  <2>1. pk(g) = [id |-> Synth!ProfileId(id, <<g>>), name |-> a.name \o <<g>>, buyers |-> {g},
                 cohort |-> a.cohort, licence |-> licence, edited |-> FALSE]
    BY DEF Synth!Pack
  <2> HIDE DEF pk
  <2>2. QED  BY <2>1 DEF Licensed
<1>2. IsFiniteSet(P) /\ n \in Nat
  <2> DEFINE f == [g \in a.buyers |-> pk(g)]
  <2>1. IsFiniteSet(a.buyers)  BY FS_Subset
  <2>2. f \in Surjection(a.buyers, P)  BY DEF Surjection
  <2> HIDE DEF f, P
  <2>3. IsFiniteSet(P)  BY <2>1, <2>2, FS_Surjection
  <2>4. QED  BY <2>3, FS_CardinalityType
<1>3. Synth!SegmentPacks(a, id, licence)
        = IF Synth!Cardinality(a.buyers) <= 1 THEN <<>> ELSE Synth!SetToSeq(P)
  BY Zenon DEF Synth!SegmentPacks
<1> HIDE DEF P, n
<1>4. Synth!SetToSeq(P) \in [1..n -> P]
  <2>1. Synth!SetToSeq(P) = CHOOSE f \in [1..n -> P] : Synth!IsInjective(f)
    <3>1. Synth!Cardinality(P) = n  BY Zenon DEF Synth!Cardinality, Cardinality, n
    <3>2. QED  BY <3>1, Zenon DEF Synth!SetToSeq
  <2>2. PICK f : f \in Bijection(1..n, P)  BY <1>2, FS_CardinalityType DEF ExistsBijection, n
  <2>3. f \in [1..n -> P] /\ Synth!IsInjective(f)
    BY <2>2 DEF Bijection, Injection, IsInjective, Synth!IsInjective
  <2>4. QED  BY <2>1, <2>3
<1>5. Synth!SegmentPacks(a, id, licence) \in Seq(P)
  <2>1. Synth!SetToSeq(P) \in Seq(P)  BY <1>2, <1>4
  <2>2. QED  BY <1>3, <2>1
<1>6. QED  BY <1>1, <1>5 DEF P

LEMMA PacksBegin == Synth!Init => PacksInv
<1> SUFFICES ASSUME Synth!Init PROVE PacksInv  OBVIOUS
<1> DEFINE id(n) == Synth!BaseId(n)
           row(n) == [id |-> id(n), source |-> 0,
                      pack |-> [Synth!Pack(id(n), n, Segments, {}, {}) EXCEPT !.edited = TRUE]]
<1>1. library = {row(n) : n \in PackNames}  BY DEF Synth!Init, Synth!Shelf
<1>2. ASSUME NEW n \in PackNames PROVE Shelved(row(n))
  <2> DEFINE own == id(n)
  <2>1. own = [Synth!BaseId(n) EXCEPT !.n = 1]
    <3> DEFINE lib == Synth!IsBuiltin(Synth!PlainId(n))
    <3>1. own = [icp |-> 0, base |-> n, lib |-> lib, n |-> 1]  BY DEF Synth!BaseId, Synth!PlainId
    <3> HIDE DEF lib
    <3>2. [own EXCEPT !.n = 1] = own  BY <3>1
    <3>3. QED  BY <3>2
  <2>2. own.icp = 0 /\ ~Synth!IsBuiltin(own)
    <3> HIDE DEF own, id
    <3>1. QED  BY <2>1, BaseIsOwn
  <2> DEFINE p == [Synth!Pack(own, n, Segments, {}, {}) EXCEPT !.edited = TRUE]
  <2>3. row(n) = [id |-> own, source |-> 0, pack |-> p]  OBVIOUS
  <2> HIDE DEF own, id, row
  <2>4. p = [id |-> own, name |-> n, buyers |-> Segments, cohort |-> {}, licence |-> {},
             edited |-> TRUE]
    <3> DEFINE before == Synth!Pack(own, n, Segments, {}, {})
    <3>1. before = [id |-> own, name |-> n, buyers |-> Segments, cohort |-> {}, licence |-> {},
                    edited |-> FALSE]
      BY DEF Synth!Pack
    <3>2. p = [before EXCEPT !.edited = TRUE]  OBVIOUS
    <3> HIDE DEF before, p
    <3>3. QED  BY <3>1, <3>2
  <2> HIDE DEF p
  <2>5. Licensed(p) /\ p.id = own  BY <2>4 DEF Licensed
  <2>6. QED  BY <2>2, <2>3, <2>5 DEF Shelved
<1> DEFINE f == [n \in PackNames |-> row(n)]
<1>3. Shelf(library)
  <2>1. f \in Surjection(PackNames, library)  BY <1>1 DEF Surjection
  <2> HIDE DEF f
  <2>2. IsFiniteSet(library)  BY <2>1, NamesAssumption, FS_Surjection
  <2> HIDE DEF row
  <2>3. QED  BY <1>1, <1>2, <2>2 DEF Shelf
<1> HIDE DEF row, f
<1>4. profiles = {} /\ DOMAIN at = Syntheses /\ DOMAIN bag = Syntheses /\ DOMAIN answer = Syntheses
      /\ \A s \in Syntheses : at[s] = "idle"
  BY DEF Synth!Init
<1>5. QED  BY <1>3, <1>4 DEF PacksInv

(* What is asked, read or answered leaves the stored packs alone.          *)
Stored == <<profiles, library>>
LEMMA AnswersAreLicensed ==
  ASSUME PacksInv, UNCHANGED Stored, DOMAIN at' = Syntheses, DOMAIN bag' = Syntheses,
         DOMAIN answer' = Syntheses,
         \A s \in Syntheses : at'[s] = "built" =>
           /\ answer'[s].buyers \subseteq Segments
           /\ \A a \in answer'[s].cohort : a.named => a.grounded # {} /\ a.grounded \subseteq bag'[s].rivals
  PROVE  PacksInv'
<1>1. Shelf(library')  BY DEF PacksInv, Stored
<1>2. \A p \in profiles' : p = [id |-> p.id, pack |-> p.pack] /\ Licensed(p.pack)  BY DEF PacksInv, Stored
<1>3. QED  BY <1>1, <1>2 DEF PacksInv, Shelf, Licensed, Shelved, Synth!IsBuiltin, Synth!PlainId

(* Storing an answer: its profile, then its segments' packs, one by one.   *)
LEMMA StoredAreLicensed ==
  ASSUME IsFiniteSet(Segments), PacksInv, NEW s \in Syntheses, NEW saved, Synth!Store(s, saved)
  PROVE  PacksInv'
<1> DEFINE id == 1 + Synth!FoldSet(LAMBDA p, k : IF p.id > k THEN p.id ELSE k, 0, profiles)
           a == answer[s]
           licence == bag[s].rivals
           segs == Synth!SegmentPacks(a, id, licence)
           stored == IF saved = Len(segs) + 1 THEN segs ELSE SubSeq(segs, 1, saved)
           whole == Synth!Pack(Synth!ProfileId(id, <<>>), a.name, a.buyers, a.cohort, licence)
<1>1. /\ at[s] = "built" /\ saved \in 0..(Len(segs) + 1)
      /\ profiles' = profiles \cup {[id |-> id, pack |-> whole]}
      /\ at' = [at EXCEPT ![s] = IF saved = Len(segs) + 1 THEN "done" ELSE "raised"]
      /\ bag' = [bag EXCEPT ![s] = Synth!NoBag]
      /\ answer' = [answer EXCEPT ![s] = Synth!NoAnswer]
  BY Zenon DEF Synth!Store
<1>2. library' = SaveEach(library, stored, id)
  BY Zenon DEF Synth!Store, Synth!FoldLeft, Synth!MapThenFoldSet, SaveEach
<1> HIDE DEF id
<1>3. PICK P : (\A p \in P : Licensed(p)) /\ segs \in Seq(P)
  <2>1. a.buyers \subseteq Segments
        /\ \A x \in a.cohort : x.named => x.grounded # {} /\ x.grounded \subseteq licence
    BY <1>1 DEF PacksInv
  <2> HIDE DEF a, licence
  <2>2. QED  BY <2>1, SegmentsAreLicensed
<1>4. stored \in Seq(P)
  <2> HIDE DEF segs
  <2>1. CASE saved = Len(segs) + 1  BY <1>3, <2>1
  <2>2. CASE saved # Len(segs) + 1
    <3>1. saved \in Int /\ saved <= Len(segs) /\ 1 \in Int  BY <1>1, <1>3, <2>2, LenProperties
    <3>2. \A i \in 1..saved : segs[i] \in P  BY <1>3, <3>1, ElementOfSeq, LenProperties
    <3>3. SubSeq(segs, 1, saved) \in Seq(P)  BY <3>1, <3>2, SubSeqProperties
    <3>4. QED  BY <2>2, <3>3
  <2>3. QED  BY <2>1, <2>2
<1> HIDE DEF stored, segs
<1>5. Shelf(library')
  <2>1. Shelf(library)  BY DEF PacksInv
  <2>2. QED  BY <1>2, <1>3, <1>4, <2>1, SavedInTurn
<1>6. Licensed(whole)
  <2>1. \A x \in a.cohort : x.named => x.grounded # {} /\ x.grounded \subseteq licence
    BY <1>1 DEF PacksInv
  <2> HIDE DEF a, licence
  <2>2. whole = [id |-> Synth!ProfileId(id, <<>>), name |-> a.name, buyers |-> a.buyers,
                 cohort |-> a.cohort, licence |-> licence, edited |-> FALSE]
    BY DEF Synth!Pack
  <2> HIDE DEF whole
  <2>3. QED  BY <2>1, <2>2 DEF Licensed
<1> HIDE DEF whole
<1>7. \A p \in profiles' : p = [id |-> p.id, pack |-> p.pack] /\ Licensed(p.pack)
  BY <1>1, <1>6 DEF PacksInv
<1>8. /\ DOMAIN at' = Syntheses /\ DOMAIN bag' = Syntheses /\ DOMAIN answer' = Syntheses
      /\ \A t \in Syntheses : at'[t] = "built" =>
           at[t] = "built" /\ answer'[t] = answer[t] /\ bag'[t] = bag[t]
  BY <1>1 DEF PacksInv
<1>9. QED  BY <1>5, <1>7, <1>8 DEF PacksInv, Shelf, Shelved, Licensed, Synth!IsBuiltin, Synth!PlainId

(* _verify_and_ground: what is kept of an answer is what it may say.       *)
LEMMA GroundIsLicensed ==
  ASSUME NEW c \in Synth!Cohorts, NEW a \in c, NEW allowed
  PROVE  Synth!Ground(a, allowed).named =>
           /\ Synth!Ground(a, allowed).grounded # {}
           /\ Synth!Ground(a, allowed).grounded \subseteq allowed
<1> DEFINE kept == a.grounded \cap allowed
<1>1. PICK g, n : a = [named |-> n, grounded |-> g]
  BY DEF Synth!Cohorts, Synth!Unnamed
<1>2. CASE a.named /\ kept # {}
  <2>1. Synth!Ground(a, allowed) = [named |-> n, grounded |-> kept]
    BY <1>1, <1>2 DEF Synth!Ground
  <2>2. QED  BY <1>2, <2>1
<1>3. CASE ~(a.named /\ kept # {})
  BY <1>3 DEF Synth!Ground, Synth!Unnamed
<1>4. QED  BY <1>2, <1>3

(* PacksHold: whatever is uploaded, relabelled, answered, stored in part,  *)
(* edited, promoted or deleted, a pack of the library is found under the   *)
(* id it reports and by no other resolver's rule, and names a rival only   *)
(* on the documents that licensed it, for every number of segments,        *)
(* uploads and requests.                                                   *)
THEOREM PacksCanBeRun ==
  ASSUME IsFiniteSet(Segments)
  PROVE  Synth!Spec => []PacksHold
<1>1. Synth!Init => PacksInv  BY PacksBegin
<1>2. PacksInv /\ [Synth!Next]_(Synth!vars) => PacksInv'
  <2> SUFFICES ASSUME PacksInv, [Synth!Next]_(Synth!vars) PROVE PacksInv'  OBVIOUS
  <2>1. ASSUME UNCHANGED Stored, UNCHANGED <<at, bag, answer>> PROVE PacksInv'
    BY <2>1, AnswersAreLicensed DEF PacksInv
  <2>2. ASSUME NEW k, NEW t, Synth!Upload(k, t) PROVE PacksInv'
    BY <2>1, <2>2 DEF Synth!Upload, Stored
  <2>3. ASSUME NEW d, NEW k, Synth!Relabel(d, k) PROVE PacksInv'
    BY <2>1, <2>3 DEF Synth!Relabel, Stored
  <2>4. ASSUME NEW s \in Syntheses, NEW unread, Synth!Gather(s, unread) PROVE PacksInv'
    <3>1. UNCHANGED Stored /\ answer' = answer /\ at[s] = "idle"
          /\ (\E v \in {"refused", "asked"} : at' = [at EXCEPT ![s] = v])
          /\ (\E v : bag' = [bag EXCEPT ![s] = v])
      BY <2>4 DEF Synth!Gather, Stored
    <3>2. DOMAIN at' = Syntheses /\ DOMAIN bag' = Syntheses /\ DOMAIN answer' = Syntheses
      BY <3>1 DEF PacksInv
    <3>3. \A t \in Syntheses : at'[t] = "built" => at[t] = "built" /\ bag'[t] = bag[t]
      BY <3>1 DEF PacksInv
    <3>4. QED  BY <3>1, <3>2, <3>3, AnswersAreLicensed DEF PacksInv
  <2>5. ASSUME NEW s \in Syntheses, NEW b \in SUBSET Segments, NEW c \in Synth!Cohorts, NEW name,
               Synth!Returned(s, b, c, name)
        PROVE  PacksInv'
    <3> DEFINE kept == {Synth!Ground(a, bag[s].rivals) : a \in c}
    <3>1. UNCHANGED Stored /\ bag' = bag /\ at' = [at EXCEPT ![s] = "built"]
          /\ answer' = [answer EXCEPT ![s] = [buyers |-> b, name |-> name, cohort |-> kept]]
      BY <2>5 DEF Synth!Returned, Stored
    <3>2. \A a \in kept : a.named => a.grounded # {} /\ a.grounded \subseteq bag[s].rivals
      BY GroundIsLicensed
    <3> HIDE DEF kept
    <3>3. DOMAIN at' = Syntheses /\ DOMAIN bag' = Syntheses /\ DOMAIN answer' = Syntheses
      BY <3>1 DEF PacksInv
    <3>4. answer'[s].buyers = b /\ answer'[s].cohort = kept  BY <3>1 DEF PacksInv
    <3>5. \A t \in Syntheses \ {s} : at'[t] = at[t] /\ answer'[t] = answer[t]  BY <3>1 DEF PacksInv
    <3>6. ASSUME NEW t \in Syntheses, at'[t] = "built"
          PROVE  /\ answer'[t].buyers \subseteq Segments
                 /\ \A a \in answer'[t].cohort : a.named => a.grounded # {} /\ a.grounded \subseteq bag'[t].rivals
      <4>1. CASE t = s  BY <3>1, <3>2, <3>4, <4>1
      <4>2. CASE t # s  BY <3>1, <3>5, <3>6, <4>2 DEF PacksInv
      <4>3. QED  BY <4>1, <4>2
    <3>7. QED  BY <3>1, <3>3, <3>6, AnswersAreLicensed
  <2>6. ASSUME NEW s \in Syntheses, Synth!Unparsed(s) PROVE PacksInv'
    <3>1. UNCHANGED Stored /\ bag' = bag /\ answer' = answer
          /\ \E v \in {"refused", "again"} : at' = [at EXCEPT ![s] = v]
      BY <2>6 DEF Synth!Unparsed, Stored
    <3>2. DOMAIN at' = Syntheses /\ \A t \in Syntheses : at'[t] = "built" => at[t] = "built"
      BY <3>1 DEF PacksInv
    <3>3. QED  BY <3>1, <3>2, AnswersAreLicensed DEF PacksInv
  <2>7. ASSUME NEW s \in Syntheses, Synth!StoreRaises(s) PROVE PacksInv'
    <3>1. UNCHANGED Stored /\ at' = [at EXCEPT ![s] = "raised"]
          /\ bag' = [bag EXCEPT ![s] = Synth!NoBag]
          /\ answer' = [answer EXCEPT ![s] = Synth!NoAnswer]
      BY <2>7 DEF Synth!StoreRaises, Stored
    <3>2. DOMAIN at' = Syntheses /\ DOMAIN bag' = Syntheses /\ DOMAIN answer' = Syntheses
      BY <3>1 DEF PacksInv
    <3>3. \A t \in Syntheses : at'[t] = "built" =>
            at[t] = "built" /\ bag'[t] = bag[t] /\ answer'[t] = answer[t]
      BY <3>1 DEF PacksInv
    <3>4. QED  BY <3>1, <3>2, <3>3, AnswersAreLicensed DEF PacksInv
  <2>8. ASSUME NEW s \in Syntheses, NEW k, Synth!Store(s, k) PROVE PacksInv'
    BY <2>8, StoredAreLicensed
  (* A founder's own change of the rows asks nothing of the model.         *)
  <2>9. ASSUME UNCHANGED <<at, bag, answer>>, Shelf(library'),
               \A p \in profiles' : p = [id |-> p.id, pack |-> p.pack] /\ Licensed(p.pack)
        PROVE  PacksInv'
    BY <2>9 DEF PacksInv, Shelf, Shelved, Licensed, Synth!IsBuiltin, Synth!PlainId
  <2>10. ASSUME NEW p \in profiles, NEW b, NEW c, Synth!EditProfile(p, b, c) PROVE PacksInv'
    <3> DEFINE q == [p EXCEPT !.pack.buyers = b, !.pack.cohort = c, !.pack.edited = TRUE]
    <3>1. profiles' = (profiles \ {p}) \cup {q} /\ library' = library /\ UNCHANGED <<at, bag, answer>>
      BY <2>10 DEF Synth!EditProfile
    <3>2. p = [id |-> p.id, pack |-> p.pack] /\ Licensed(p.pack)  BY DEF PacksInv
    <3>3. q = [id |-> p.id, pack |-> [id |-> p.pack.id, name |-> p.pack.name, buyers |-> b,
                 cohort |-> c, licence |-> p.pack.licence, edited |-> TRUE]]
      <4> DEFINE i == p.id  j == p.pack.id  n == p.pack.name  u == p.pack.buyers
                 h == p.pack.cohort  l == p.pack.licence  e == p.pack.edited
                 is(r, v, w, x) == r = [id |-> i, pack |-> [id |-> j, name |-> n, buyers |-> v,
                                          cohort |-> w, licence |-> l, edited |-> x]]
                 q1 == [p EXCEPT !.pack.buyers = b]
                 q2 == [q1 EXCEPT !.pack.cohort = c]
                 q3 == [q2 EXCEPT !.pack.edited = TRUE]
      <4>1. is(p, u, h, e)  BY <3>2, Zenon DEF Licensed
      <4>2. q = q3  OBVIOUS
      <4> HIDE DEF i, j, n, u, h, l, e, q
      <4>3. is(q1, b, h, e)  BY <4>1
      <4> HIDE DEF q1
      <4>4. is(q2, b, c, e)  BY <4>3
      <4> HIDE DEF q2
      <4>5. ASSUME NEW t PROVE is([q2 EXCEPT !.pack.edited = t], b, c, t)  BY <4>4
      <4>6. is(q3, b, c, TRUE)  BY <4>5, Zenon
      <4> HIDE DEF q3
      <4>7. QED  BY <4>2, <4>6 DEF i, j, n, l
    <3> HIDE DEF q
    <3>4. q = [id |-> q.id, pack |-> q.pack] /\ Licensed(q.pack)  BY <3>3 DEF Licensed
    <3>5. Shelf(library')
      <4>1. Shelf(library)  BY DEF PacksInv
      <4>2. QED  BY <3>1, <4>1
    <3>6. QED  BY <2>9, <3>1, <3>4, <3>5 DEF PacksInv
  <2>11. ASSUME NEW p \in profiles, Synth!DeleteProfile(p) PROVE PacksInv'
    <3> DEFINE free(r) == [r EXCEPT !.source = IF @ = p.id THEN 0 ELSE @]
               f == [r \in library |-> free(r)]
               freed == {free(r) : r \in library}
    <3>1. profiles' = profiles \ {p} /\ library' = freed /\ UNCHANGED <<at, bag, answer>>
      BY <2>11 DEF Synth!DeleteProfile
    <3>2. \A r \in library : Shelved(r) /\ IsFiniteSet(library)  BY DEF PacksInv, Shelf
    <3>3. ASSUME NEW r \in library PROVE Shelved(free(r))
      <4>1. PICK v : free(r) = [id |-> r.id, source |-> v, pack |-> r.pack]
        <5> DEFINE v == IF r.source = p.id THEN 0 ELSE r.source
        <5>1. free(r) = [r EXCEPT !.source = v]  OBVIOUS
        <5>2. r = [id |-> r.id, source |-> r.source, pack |-> r.pack]  BY <3>2, Zenon DEF Shelved
        <5> HIDE DEF v
        <5>3. [r EXCEPT !.source = v] = [id |-> r.id, source |-> v, pack |-> r.pack]  BY <5>2
        <5>4. QED  BY <5>1, <5>3
      <4> HIDE DEF free
      <4>2. QED  BY <3>2, <4>1 DEF Shelved
    <3>4. f \in Surjection(library, freed)  BY DEF Surjection
    <3> HIDE DEF f, free
    <3>5. IsFiniteSet(freed)
      <4> HIDE DEF freed
      <4>1. IsFiniteSet(library)  BY DEF PacksInv, Shelf
      <4>2. QED  BY <3>4, <4>1, FS_Surjection
    <3>6. Shelf(library')  BY <3>1, <3>3, <3>5 DEF Shelf
    <3>7. QED  BY <2>9, <3>1, <3>6 DEF PacksInv
  <2>12. ASSUME NEW p \in profiles, NEW name, Synth!Promote(p, name) PROVE PacksInv'
    <3> DEFINE q == [p.pack EXCEPT !.name = name]
    <3>1. library' = Synth!SaveOrgPack(library, q, p.id) /\ UNCHANGED <<profiles, at, bag, answer>>
      BY <2>12 DEF Synth!Promote
    <3>2. Licensed(p.pack) /\ Shelf(library)  BY DEF PacksInv
    <3>3. Licensed(q)
      <4> DEFINE o == p.pack
      <4>1. q = [id |-> o.id, name |-> name, buyers |-> o.buyers, cohort |-> o.cohort,
                 licence |-> o.licence, edited |-> o.edited]
        BY <3>2 DEF Licensed
      <4> HIDE DEF q
      <4>2. QED  BY <3>2, <4>1 DEF Licensed
    <3> HIDE DEF q
    <3>4. Shelf(library')  BY <3>1, <3>2, <3>3, SavedIsShelved
    <3>5. QED  BY <2>9, <3>1, <3>4 DEF PacksInv
  <2>13. ASSUME NEW r, Synth!DeletePack(r) PROVE PacksInv'
    <3>1. library' \in SUBSET library /\ UNCHANGED <<profiles, at, bag, answer>>
      BY <2>13 DEF Synth!DeletePack
    <3>2. IsFiniteSet(library')  BY <3>1, FS_Subset DEF PacksInv, Shelf
    <3>3. Shelf(library')  BY <3>1, <3>2 DEF PacksInv, Shelf
    <3>4. QED  BY <2>9, <3>1, <3>3 DEF PacksInv
  <2>14. ASSUME NEW name, Synth!CreateCustom(name) PROVE PacksInv'
    BY <2>1, <2>14 DEF Synth!CreateCustom, Stored
  <2>15. CASE UNCHANGED Synth!vars  BY <2>1, <2>15 DEF Synth!vars, Stored
  <2>16. QED
    BY <2>2, <2>3, <2>4, <2>5, <2>6, <2>7, <2>8, <2>10, <2>11, <2>12, <2>13, <2>14, <2>15
    DEF Synth!Next
<1>3. PacksInv => PacksHold
  <2> SUFFICES ASSUME PacksInv PROVE Synth!LibraryIdsResolve /\ Synth!NamedIsLicensed
    BY DEF PacksHold, Synth!PacksHold
  <2>1. \A r \in library : r.id.icp = 0 /\ ~Synth!IsBuiltin(r.id) /\ r.pack.id = r.id /\ Licensed(r.pack)
    BY DEF PacksInv, Shelf, Shelved
  <2>2. Synth!LibraryIdsResolve  BY <2>1 DEF Synth!LibraryIdsResolve, Synth!GetPack
  <2>3. \A pack \in {p.pack : p \in profiles} \cup {r.pack : r \in library} : Licensed(pack)
    <3>1. \A p \in profiles : Licensed(p.pack)  BY DEF PacksInv
    <3>2. QED  BY <2>1, <3>1, Zenon
  <2>4. \A pack : Licensed(pack) => (~pack.edited => \A a \in pack.cohort :
                     a.named => a.grounded # {} /\ a.grounded \subseteq pack.licence)
    BY Zenon DEF Licensed
  <2>5. Synth!NamedIsLicensed  BY <2>3, <2>4, Zenon DEF Synth!NamedIsLicensed
  <2>6. QED  BY <2>2, <2>5
<1>4. QED  BY <1>1, <1>2, <1>3, PTL DEF Synth!Spec

-----------------------------------------------------------------------------
(* Beside one another the parts promise the same: a step of the lifecycle, *)
(* of a round, of a synthesis, of a casting, of a re-simulation or of the  *)
(* analysis leaves the others' variables alone.                            *)
THEOREM SimulationHolds ==
  ASSUME Quiet, ChunkSize \in Nat, IsFiniteSet(Voices), MinPaired \in Nat, MinPaired >= 4,
         MostShown \in Nat, IsFiniteSet(Segments),
         MostSeats \in Nat, MostParts \in Nat, ShareUnits \in Nat
  PROVE  MCSpec => /\ [](/\ WorkerOwnsRow /\ RepliesHangFromTheirPost /\ BeforeIsKept
                         /\ NothingOverclaimed /\ EachPhrasingOnce /\ PacksHold /\ DealtFairly)
                   /\ FinishedStaysFinished /\ SweepSparesTheLiving
<1>1. MCInit => /\ Init /\ Engines!Init /\ Synth!Init /\ Cast!Init /\ Resim!Init
                /\ Ana!Init /\ Opinions!Init
  BY DEF MCInit
<1>2. [MCNext]_all => [Next]_vars  BY DEF MCNext, all
<1>3. [MCNext]_all => [Engines!Next]_(Engines!vars)  BY DEF MCNext, all, engine, Engines!vars
<1>4. [MCNext]_all => [Resim!Next]_(Resim!resimVars)  BY DEF MCNext, all, resim, Resim!resimVars
<1>5. [MCNext]_all => [Opinions!Next]_(Opinions!opinionVars)
  BY DEF MCNext, all, opinion, Opinions!opinionVars
<1>6. [MCNext]_all => [Ana!Next]_(Ana!analysisVars)
  BY DEF MCNext, all, analysis, Ana!analysisVars
<1>7. [MCNext]_all => [Synth!Next]_(Synth!vars)  BY DEF MCNext, all, audience, Synth!vars
<1>8. [MCNext]_all => [Cast!Next]_(Cast!castVars)  BY DEF MCNext, all, Cast!castVars
<1>9. MCSpec => /\ Spec /\ Engines!Spec /\ Resim!Spec /\ Opinions!Spec
                /\ Ana!Spec /\ Synth!Spec /\ Cast!Spec
  BY <1>1, <1>2, <1>3, <1>4, <1>5, <1>6, <1>7, <1>8, PTL
  DEF MCSpec, Spec, Engines!Spec, Resim!Spec, Opinions!Spec, Ana!Spec, Synth!Spec, Cast!Spec
<1>10. Spec => []WorkerOwnsRow  BY ExclusiveWorker
<1>11. Spec => FinishedStaysFinished  BY EndedRunIsLeftAlone
<1>12. Engines!Spec => []RepliesHangFromTheirPost  BY ThreadsAreRight
<1>13. Resim!Spec => []BeforeIsKept  BY BeforesStay
<1>14. Opinions!Spec => []NothingOverclaimed  BY ClaimsAreModest
<1>15. Ana!Spec => []EachPhrasingOnce  BY NobodyIsCountedTwice
<1>16. Synth!Spec => []PacksHold  BY PacksCanBeRun
<1>17. Cast!Spec => []DealtFairly  BY RoomsAreDealtFairly
<1>18. Spec => SweepSparesTheLiving
  <2>1. OneProcess  BY DEF Quiet, OneProcess
  <2>2. Overrun = FALSE  BY DEF Quiet
  <2>3. QED  BY <2>1, <2>2, SweepTakesFromNobody
<1>19. QED
  BY <1>9, <1>10, <1>11, <1>12, <1>13, <1>14, <1>15, <1>16, <1>17, <1>18, PTL
=============================================================================
