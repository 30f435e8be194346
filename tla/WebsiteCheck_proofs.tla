------------------------ MODULE WebsiteCheck_proofs ------------------------
(***************************************************************************)
(* Theorems about WebsiteCheck, for any number of checks, processes and    *)
(* deaths, whatever the price and the balance.                             *)
(***************************************************************************)
EXTENDS WebsiteCheck, TLAPS

USE DEF LiveStatuses, ReapedStates, RefundStates, Statuses, Working, PCs, Sync, Resting,
        purse, sweep

-----------------------------------------------------------------------------
(* TypeOK is inductive as it stands: floors keep the balance a number.     *)

(* No rows, no sweep and the whole balance: well typed.                    *)
LEMMA TypeInit == Init => TypeOK
<1> SUFFICES ASSUME Init PROVE TypeOK OBVIOUS
<1> USE PaidRowsAssumption DEF Init, PaidInit, NothingFound
<1>1. 0 \in 0..Price /\ 0 \in 0..MaxDeaths OBVIOUS
<1>2. QED BY <1>1 DEF TypeOK

(* POST /website-checks: the floor of deduct_credits keeps the balance a   *)
(* number.                                                                 *)
LEMMA TypeCreate ==
  ASSUME TypeOK, NEW c \in Jobs, Create(c) PROVE TypeOK'
<1> USE PaidRowsAssumption DEF TypeOK, Create, At, Goto, Put
<1>1. CASE Afford(c) BY <1>1 DEF Afford
<1>2. CASE Deduct(c)
  <2>1. Floored \in Nat /\ balance - Floored \in 0..Price BY DEF Floored
  <2>2. balance' \in Nat /\ charged' \subseteq Jobs /\ taken' \in [Jobs -> 0..Price]
    BY <1>2, <2>1 DEF Deduct
  <2>3. pc' \in [Jobs -> PCs] BY <1>2 DEF Deduct
  <2>4. QED BY <1>2, <2>2, <2>3 DEF Deduct
<1>3. CASE Insert(c, "queued", "spawned") BY <1>3 DEF Insert
<1>4. QED BY <1>1, <1>2, <1>3

(* run_website_check writes only statuses the table has.                   *)
LEMMA TypeWorker ==
  ASSUME TypeOK, NEW c \in Jobs, Worker(c) PROVE TypeOK'
<1> USE DEF TypeOK, At, Goto, Put, PutIf, Advance, RecordFailure
<1>1. CASE Begin(c)      BY <1>1 DEF Begin
<1>2. CASE Capture(c)    BY <1>2 DEF Capture
<1>3. CASE Reference(c)  BY <1>3 DEF Reference
<1>4. CASE Upload(c)     BY <1>4 DEF Upload
<1>5. CASE Judge(c)      BY <1>5 DEF Judge
<1>6. CASE Store(c)      BY <1>6 DEF Store
<1>7. CASE Unexpected(c) BY <1>7 DEF Unexpected
<1>8. CASE MarkFailed(c) BY <1>8 DEF MarkFailed
<1>9. CASE WorkerRefund(c) /\ UNCHANGED spent
  BY <1>9, PaidRowsAssumption DEF WorkerRefund, PayBack
<1>10. QED
  BY <1>1, <1>2, <1>3, <1>4, <1>5, <1>6, <1>7, <1>8, <1>9 DEF Worker

(* So does the sweep, and it reads and owes for rows of this table only.   *)
LEMMA TypeReaper ==
  ASSUME TypeOK, NEW p \in Procs, Reaper(p) PROVE TypeOK'
<1> USE PaidRowsAssumption DEF TypeOK, PutIf, Settled
<1>1. CASE Read(p)
  BY <1>1 DEF Read, ReaperRead
<1>2. ASSUME NEW c \in Jobs, Close(p, c) PROVE TypeOK'
  BY <1>2 DEF Close, ReaperClose
<1>3. ASSUME NEW c \in Jobs, Repay(p, c) PROVE TypeOK'
  BY <1>3 DEF Repay, ReaperRefund, PayBack
<1>4. ASSUME NEW c \in Jobs, ReaperCloseRaises(p, c), UNCHANGED spent PROVE TypeOK'
  BY <1>4 DEF ReaperCloseRaises
<1>5. QED BY <1>1, <1>2, <1>3, <1>4 DEF Reaper

(* Every step keeps the types.                                             *)
LEMMA TypeNext == TypeOK /\ [Next]_vars => TypeOK'
<1> SUFFICES ASSUME TypeOK, [Next]_vars PROVE TypeOK' OBVIOUS
<1>1. ASSUME NEW p \in Procs, Restart(p), UNCHANGED spent PROVE TypeOK'
  BY <1>1, PaidRowsAssumption DEF TypeOK, Restart, NothingFound
<1>2. ASSUME NEW c \in Jobs, Age(c), UNCHANGED spent PROVE TypeOK'
  BY <1>2 DEF TypeOK, Age
<1>3. CASE UNCHANGED vars BY <1>3 DEF TypeOK, vars, paidVars
<1>4. QED BY TypeCreate, TypeWorker, TypeReaper, <1>1, <1>2, <1>3 DEF Next

(* Every variable of WebsiteCheck keeps its type whatever create, worker,  *)
(* failure handler, sweep and death do to each other; the balance never    *)
(* goes below zero, because deduct_credits floors it.                      *)
THEOREM TypeCorrect == Spec => []TypeOK
BY TypeInit, TypeNext, PTL DEF Spec

-----------------------------------------------------------------------------
(***************************************************************************)
(* Why nobody pays twice.  A refund is owed (Owed) from the guarded close  *)
(* that matched until the statement behind it.  Whoever owes it moved the  *)
(* row to `failed`, which no writer can do again and no writer undoes; so  *)
(* there is one debtor at most, nothing was repaid before, and the critics *)
(* were never called: they are called only by the worker that itself moved *)
(* the row out of the refundable states.                                   *)
(***************************************************************************)
Early == {"idle", "deduct", "insert", "spawned", "capture", "reference", "upload"}

Owed(c) == pc[c] = "refund" \/ \E p \in Procs : c \in owes[p]

OneDebtor(c) ==
  /\ pc[c] = "refund" => \A p \in Procs : c \notin owes[p]
  /\ \A p, q \in Procs : c \in owes[p] /\ c \in owes[q] => p = q
DebtIsOpen(c) ==
  Owed(c) => refunds[c] = 0 /\ status[c] = "failed" /\ c \notin spent
SpentIsLate(c) ==
  c \in spent => status[c] \in {"judging", "complete", "failed"} /\ pc[c] \notin Early
RowIsCharged(c) ==
  /\ status[c] # "none" \/ pc[c] = "insert" => c \in charged
  /\ pc[c] \in {"idle", "deduct"} => c \notin charged
  /\ pc[c] \in {"idle", "deduct", "insert"} => status[c] = "none"
RepaidOnce(c) ==
  refunds[c] > 0 => refunds[c] = 1 /\ status[c] = "failed" /\ c \notin spent

Safe(c) == OneDebtor(c) /\ DebtIsOpen(c) /\ SpentIsLate(c) /\ RowIsCharged(c)
           /\ RepaidOnce(c)
OweOne  == \A p \in Procs : \A c, d \in owes[p] : c = d

Inv == TypeOK /\ OweOne /\ \A c \in Jobs : Safe(c)

(* A step about one check leaves the others as safe as they were.          *)
Same(d) ==
  /\ pc'[d] = pc[d] /\ status'[d] = status[d] /\ refunds'[d] = refunds[d]
  /\ (d \in spent' <=> d \in spent) /\ (d \in charged' <=> d \in charged)
  /\ \A p \in Procs : d \in owes'[p] <=> d \in owes[p]

(* If no refund, debt, row or spending of d changed, what Inv says of d    *)
(* still holds.                                                            *)
LEMMA Local ==
  ASSUME Inv, TypeOK', OweOne', NEW c \in Jobs, Safe(c)',
         \A d \in Jobs \ {c} : Same(d)
  PROVE  Inv'
BY DEF Inv, Safe, Same, OneDebtor, DebtIsOpen, SpentIsLate, RowIsCharged,
       RepaidOnce, Owed

(* What the handler, the worker and the sweep do to one check stays there. *)
LEMMA FrameFounder ==
  ASSUME TypeOK, OweOne, NEW c \in Jobs, Create(c) \/ Worker(c)
  PROVE  OweOne' /\ \A d \in Jobs \ {c} : Same(d)
BY DEF TypeOK, At, Goto, Put, PutIf, Advance, RecordFailure, Same, OweOne,
       Create, Afford, Deduct, Insert, Worker, Begin, Capture, Reference, Upload,
       Judge, Store, Unexpected, MarkFailed, WorkerRefund, PayBack

SweepsOne(p, c) == \/ Close(p, c) \/ Repay(p, c)
                   \/ ReaperCloseRaises(p, c) /\ UNCHANGED spent

(* The sweep touches the one check it is closing or repaying.              *)
LEMMA FrameSweep ==
  ASSUME TypeOK, OweOne, NEW p \in Procs, NEW c \in Jobs, SweepsOne(p, c)
  PROVE  OweOne' /\ \A d \in Jobs \ {c} : Same(d)
<1> USE DEF TypeOK, SweepsOne, PutIf, Settled
<1>1. owes[p] \subseteq {c} /\ owes'[p] \subseteq {c}
      /\ \A q \in Procs \ {p} : owes'[q] = owes[q]
  BY DEF OweOne, Close, ReaperClose, Repay, ReaperRefund, ReaperCloseRaises
<1>2. \A d \in Jobs \ {c} : status'[d] = status[d] /\ refunds'[d] = refunds[d]
  BY DEF Close, ReaperClose, Repay, ReaperRefund, PayBack, ReaperCloseRaises
<1>3. UNCHANGED <<pc, spent, charged>>
  BY DEF Close, ReaperClose, Repay, ReaperRefund, ReaperCloseRaises
<1>4. \A d \in Jobs \ {c}, q \in Procs : d \in owes'[q] <=> d \in owes[q]
  BY <1>1
<1>5. OweOne'
  <2>1. \A x, y \in owes'[p] : x = y BY <1>1
  <2>2. ASSUME NEW q \in Procs \ {p}, NEW x \in owes[q], NEW y \in owes[q]
        PROVE  x = y
    BY DEF OweOne
  <2>3. QED BY <1>1, <2>1, <2>2 DEF OweOne
<1>6. QED BY <1>2, <1>3, <1>4, <1>5 DEF Same

(* With no rows, nothing is owed, spent or repaid.                         *)
LEMMA InvInit == Init => Inv
<1> SUFFICES ASSUME Init PROVE Inv OBVIOUS
<1>1. TypeOK BY TypeInit
<1>2. QED
  BY <1>1 DEF Init, PaidInit, Inv, Safe, OneDebtor, DebtIsOpen, SpentIsLate,
     RowIsCharged, OweOne, RepaidOnce, Owed

(* Nobody owes anything yet: there is no row to close.                     *)
LEMMA InvCreate ==
  ASSUME Inv, NEW c \in Jobs, Create(c), TypeOK' PROVE Inv'
<1> USE DEF Inv, TypeOK, Create, At, Goto, Put
<1>1. OweOne' /\ \A d \in Jobs \ {c} : Same(d) BY FrameFounder
<1>2. Safe(c)'
  <2> USE DEF Safe, OneDebtor, DebtIsOpen, SpentIsLate, RowIsCharged, RepaidOnce,
              Owed, Early
  <2>1. CASE Afford(c) BY <2>1 DEF Afford
  <2>2. CASE Deduct(c) BY <2>2 DEF Deduct
  <2>3. CASE Insert(c, "queued", "spawned") BY <2>3 DEF Insert
  <2>4. QED BY <2>1, <2>2, <2>3
<1>3. QED BY <1>1, <1>2, Local

(* The worker comes to owe a refund only by a close of its own that        *)
(* matched a live row, and calls the critics only after its own move to    *)
(* `judging`.                                                              *)
LEMMA InvWorker ==
  ASSUME Inv, NEW c \in Jobs, Worker(c), TypeOK' PROVE Inv'
<1> USE DEF Inv, TypeOK, At, Goto, Put, PutIf, Advance, RecordFailure
<1>1. OweOne' /\ \A d \in Jobs \ {c} : Same(d) BY FrameFounder
<1>2. Safe(c)'
  <2> USE DEF Safe, OneDebtor, DebtIsOpen, SpentIsLate, RowIsCharged, RepaidOnce,
              Owed, Early
  <2>1. CASE Begin(c)      BY <2>1 DEF Begin
  <2>2. CASE Capture(c)    BY <2>2 DEF Capture
  <2>3. CASE Reference(c)  BY <2>3 DEF Reference
  <2>4. CASE Upload(c)     BY <2>4 DEF Upload
  <2>5. CASE Judge(c)      BY <2>5 DEF Judge
  <2>6. CASE Store(c)      BY <2>6 DEF Store
  <2>7. CASE Unexpected(c) BY <2>7 DEF Unexpected
  <2>8. CASE MarkFailed(c) BY <2>8 DEF MarkFailed
  <2>9. CASE WorkerRefund(c) /\ UNCHANGED spent BY <2>9 DEF WorkerRefund, PayBack
  <2>10. QED
    BY <2>1, <2>2, <2>3, <2>4, <2>5, <2>6, <2>7, <2>8, <2>9 DEF Worker
<1>3. QED BY <1>1, <1>2, Local

(* The sweep owes only what its own compare-and-set moved.                 *)
LEMMA InvReaper ==
  ASSUME Inv, NEW p \in Procs, Reaper(p), TypeOK' PROVE Inv'
<1> USE DEF Inv, TypeOK, PutIf, Settled
<1>1. CASE Read(p)
  BY <1>1 DEF Read, ReaperRead, Safe, OneDebtor, DebtIsOpen, SpentIsLate,
     RowIsCharged, OweOne, RepaidOnce, Owed
<1>2. ASSUME NEW c \in Jobs, SweepsOne(p, c) PROVE Inv'
  <2>1. OweOne' /\ \A d \in Jobs \ {c} : Same(d) BY <1>2, FrameSweep
  <2>2. Safe(c)'
    <3> USE DEF Safe, OneDebtor, DebtIsOpen, SpentIsLate, RowIsCharged,
                RepaidOnce, Owed
    <3>1. CASE Close(p, c) BY <3>1 DEF Close, ReaperClose
    <3>2. CASE Repay(p, c) BY <3>2 DEF Repay, ReaperRefund, PayBack
    <3>3. CASE ReaperCloseRaises(p, c) /\ UNCHANGED spent
      BY <3>3 DEF ReaperCloseRaises
    <3>4. QED BY <1>2, <3>1, <3>2, <3>3 DEF SweepsOne
  <2>3. QED BY <2>1, <2>2, Local
<1>3. QED BY <1>1, <1>2 DEF Reaper, SweepsOne

(* No step repays a check twice, repays a spent one, or owes what it       *)
(* should not.                                                             *)
LEMMA InvNext == Inv /\ [Next]_vars => Inv'
<1> SUFFICES ASSUME Inv, [Next]_vars PROVE Inv' OBVIOUS
<1>1. TypeOK' BY TypeNext DEF Inv
<1> USE DEF Inv, Safe, OneDebtor, DebtIsOpen, SpentIsLate, RowIsCharged, OweOne,
            RepaidOnce, Owed, Early
<1>2. ASSUME NEW p \in Procs, Restart(p), UNCHANGED spent PROVE Inv'
  BY <1>1, <1>2 DEF Restart, TypeOK
<1>3. ASSUME NEW c \in Jobs, Age(c), UNCHANGED spent PROVE Inv'
  BY <1>1, <1>3 DEF Age
<1>4. CASE UNCHANGED vars BY <1>1, <1>4 DEF vars, paidVars
<1>5. QED BY <1>1, InvCreate, InvWorker, InvReaper, <1>2, <1>3, <1>4 DEF Next

(* A check is repaid at most once, only when it is failed, and never once  *)
(* its critics were called: run_website_check and the reaper each pay only *)
(* after a compare-and-set of their own closed the row.                    *)
THEOREM RefundOnlyUnspent == Spec => []RefundedUnspent
<1>1. Inv => RefundedUnspent BY DEF Inv, Safe, RepaidOnce, RefundedUnspent
<1>2. QED BY InvInit, InvNext, <1>1, PTL DEF Spec

-----------------------------------------------------------------------------
(* A check keeps the contract of every paid artifact: each step is, seen   *)
(* by the founder, one step of Settlement or none.                         *)
State == [x \in Jobs |-> StateOf(x)]

(* A step about check c moves State at c only.                             *)
LEMMA StateMoves ==
  ASSUME NEW c \in Jobs, \A d \in Jobs \ {c} : Same(d)
  PROVE  State' = [State EXCEPT ![c] = StateOf(c)']
<1>1. \A d \in Jobs \ {c} : StateOf(d)' = StateOf(d) BY DEF Same, StateOf
<1>2. QED BY <1>1 DEF State

(* Before its create a check is unpaid, unspent and not repaid.            *)
LEMMA ContractInit == Init => Contract!Init
<1> SUFFICES ASSUME Init PROVE Contract!Init OBVIOUS
<1>1. \A c \in Jobs : StateOf(c) = "unpaid"
  BY DEF Init, PaidInit, StateOf
<1>2. QED BY <1>1 DEF Init, PaidInit, Contract!Init

(* What a step about check c may do to it, with its frame.                 *)
Keeps(c) == StateOf(c)' = StateOf(c)
Contracted(c) ==
  \/ Keeps(c) /\ UNCHANGED <<spent, refunds>>
  \/ /\ StateOf(c) = "unpaid" /\ StateOf(c)' = "open"
     /\ UNCHANGED <<spent, refunds>>
  \/ /\ StateOf(c) = "open" /\ StateOf(c)' \in {"delivered", "closed"}
     /\ UNCHANGED <<spent, refunds>>
  \/ /\ StateOf(c) = "open" /\ Keeps(c) /\ refunds[c] = 0
     /\ spent' = spent \cup {c} /\ UNCHANGED refunds
  \/ /\ StateOf(c) = "closed" /\ Keeps(c) /\ c \notin spent /\ refunds[c] = 0
     /\ refunds' = [refunds EXCEPT ![c] = 1] /\ UNCHANGED spent

(* A step that moves one check along the contract, or not at all, is a     *)
(* step of Settlement or a stutter.                                        *)
LEMMA ContractStep ==
  ASSUME TypeOK, NEW c \in Jobs, \A d \in Jobs \ {c} : Same(d), Contracted(c)
  PROVE  [Contract!Next]_(Contract!settlement)
<1> USE DEF Keeps, Contract!Next, Contract!settlement
<1>1. State' = [State EXCEPT ![c] = StateOf(c)'] BY StateMoves
<1>2. State = [x \in Jobs |-> StateOf(x)] /\ State[c] = StateOf(c) BY DEF State
<1>3. Keeps(c) => UNCHANGED State BY <1>1, <1>2
<1>4. CASE Keeps(c) /\ UNCHANGED <<spent, refunds>>
  BY <1>3, <1>4 DEF State
<1>5. CASE StateOf(c) = "unpaid" /\ StateOf(c)' = "open" /\ UNCHANGED <<spent, refunds>>
  BY <1>1, <1>2, <1>5 DEF State, Contract!Charge, Contract!Move
<1>6. CASE StateOf(c) = "open" /\ StateOf(c)' \in {"delivered", "closed"}
           /\ UNCHANGED <<spent, refunds>>
  BY <1>1, <1>2, <1>6 DEF State, Contract!Deliver, Contract!Close, Contract!Move
<1>7. CASE StateOf(c) = "open" /\ Keeps(c) /\ refunds[c] = 0
           /\ spent' = spent \cup {c} /\ UNCHANGED refunds
  BY <1>2, <1>3, <1>7 DEF State, Contract!Spend
<1>8. CASE StateOf(c) = "closed" /\ Keeps(c) /\ c \notin spent /\ refunds[c] = 0
           /\ refunds' = [refunds EXCEPT ![c] = 1] /\ UNCHANGED spent
  BY <1>2, <1>3, <1>8 DEF State, Contract!Refund
<1>9. QED BY <1>4, <1>5, <1>6, <1>7, <1>8 DEF Contracted

(* Create, worker and failure handler move the contract one step at most.  *)
LEMMA FounderContracted ==
  ASSUME Inv, NEW c \in Jobs, Create(c) \/ Worker(c) PROVE Contracted(c)
<1> USE DEF Inv, TypeOK, At, Goto, Put, PutIf, Advance, RecordFailure, StateOf,
            Contracted, Keeps
<1>1. Safe(c) BY DEF Inv
<1> USE <1>1 DEF Safe, RowIsCharged
<1>2. CASE Create(c)
  <2>1. CASE Afford(c) BY <1>2, <2>1 DEF Afford, Create
  <2>2. CASE Deduct(c) BY <1>2, <2>2 DEF Deduct, Create
  <2>3. CASE Insert(c, "queued", "spawned") BY <1>2, <2>3 DEF Insert, Create
  <2>4. QED BY <1>2, <2>1, <2>2, <2>3 DEF Create
<1>3. CASE Begin(c)      BY <1>3 DEF Begin
<1>4. CASE Capture(c)    BY <1>4 DEF Capture
<1>5. CASE Reference(c)  BY <1>5 DEF Reference
<1>6. CASE Upload(c)     BY <1>6 DEF Upload, RepaidOnce
<1>7. CASE Judge(c)      BY <1>7 DEF Judge
<1>8. CASE Store(c)      BY <1>8 DEF Store
<1>9. CASE Unexpected(c) BY <1>9 DEF Unexpected
<1>10. CASE MarkFailed(c) BY <1>10 DEF MarkFailed
<1>11. CASE WorkerRefund(c) /\ UNCHANGED spent
  BY <1>11 DEF WorkerRefund, PayBack, DebtIsOpen, Owed
<1>12. QED
  BY <1>2, <1>3, <1>4, <1>5, <1>6, <1>7, <1>8, <1>9, <1>10, <1>11 DEF Worker

(* So does the sweep: what it closes was open, what it repays was closed.  *)
LEMMA SweepContracted ==
  ASSUME Inv, NEW p \in Procs, NEW c \in Jobs, SweepsOne(p, c) PROVE Contracted(c)
<1> USE DEF Inv, TypeOK, PutIf, StateOf, Contracted, Keeps
<1>1. Safe(c) BY DEF Inv
<1> USE <1>1 DEF Safe, RowIsCharged
<1>2. CASE Close(p, c) BY <1>2 DEF Close, ReaperClose
<1>3. CASE Repay(p, c)
  BY <1>3 DEF Repay, ReaperRefund, PayBack, DebtIsOpen, Owed
<1>4. CASE ReaperCloseRaises(p, c) /\ UNCHANGED spent BY <1>4 DEF ReaperCloseRaises
<1>5. QED BY <1>2, <1>3, <1>4 DEF SweepsOne

(* Every step of WebsiteCheck is a step of Settlement or a stutter.        *)
LEMMA ContractNext ==
  Inv /\ [Next]_vars => [Contract!Next]_(Contract!settlement)
<1> SUFFICES ASSUME Inv, [Next]_vars PROVE [Contract!Next]_(Contract!settlement)
  OBVIOUS
<1>1. TypeOK /\ OweOne BY DEF Inv
<1>2. ASSUME NEW c \in Jobs, Create(c) \/ Worker(c)
      PROVE  [Contract!Next]_(Contract!settlement)
  BY <1>1, <1>2, FrameFounder, FounderContracted, ContractStep
<1>3. ASSUME NEW p \in Procs, NEW c \in Jobs, SweepsOne(p, c)
      PROVE  [Contract!Next]_(Contract!settlement)
  BY <1>1, <1>3, FrameSweep, SweepContracted, ContractStep
<1>4. CASE UNCHANGED <<status, charged, spent, refunds>>
  BY <1>4 DEF StateOf, Contract!settlement
<1>5. QED
  BY <1>2, <1>3, <1>4
  DEF Next, Reaper, Read, ReaperRead, SweepsOne, Restart, Age, vars, paidVars

(* Whatever interleaves and whatever dies, a website check is an           *)
(* implementation of Settlement: paid once, ended once, repaid at most     *)
(* once, and only if it was closed before any model call.                  *)
THEOREM KeepsContract == Spec => Settles
<1>1. QED BY InvInit, InvNext, ContractInit, ContractNext, PTL
          DEF Spec, Settles, Contract!Spec
=============================================================================
