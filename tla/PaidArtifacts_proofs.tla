------------------------ MODULE PaidArtifacts_proofs ------------------------
(***************************************************************************)
(* Theorems about PaidArtifacts, for any jobs of any kinds, any processes, *)
(* prices, balances and deaths: no price goes back twice or for work a     *)
(* model was called for, one process sells nothing it is not paid for and  *)
(* no free search above the cap, and revisions and built documents keep    *)
(* the contract of Settlement.                                             *)
(***************************************************************************)
EXTENDS PaidArtifacts, FiniteSetTheorems, TLAPS

Statuses == {"none", "queued", "generating", "building", "running", "complete", "failed"}
Live     == {"queued", "generating", "building", "running"}
Early    == {"idle", "deduct", "insert", "spawned", "prefix", "capture", "reference"}
Ended    == {"done", "lost"}
Inside   == {"capture", "reference", "generate", "upload", "build", "search"}
Unborn   == {"idle", "deduct", "insert"}
PCs      == Early \cup Ended \cup Inside \cup {"raising", "refund", "match", "price", "finish"}

-----------------------------------------------------------------------------
TypeInv ==
  /\ balance \in Nat /\ deaths \in Nat
  /\ charged \subseteq Jobs /\ old \subseteq Jobs /\ spent \subseteq Jobs /\ empty \subseteq Jobs
  /\ taken \in [Jobs -> Nat] /\ refunds \in [Jobs -> Nat]
  /\ status \in [Jobs -> Statuses] /\ pc \in [Jobs -> PCs]
  /\ kind \in [Jobs -> Kinds] /\ proc \in [Jobs -> Procs]
  /\ found \in [Procs -> [Jobs -> Live \cup {"none"}]]
  /\ owes \in [Procs -> SUBSET Jobs]

(* A refund is owed from the close that matched to the statement behind    *)
(* it, by whoever closed the row: the worker or one sweep.                 *)
Owed(c) == pc[c] = "refund" \/ \E p \in Procs : c \in owes[p]
OneDebtor(c) ==
  /\ pc[c] = "refund" => \A p \in Procs : c \notin owes[p]
  /\ \A p, q \in Procs : c \in owes[p] /\ c \in owes[q] => p = q
DebtIsOpen(c) ==
  Owed(c) => /\ refunds[c] = 0 /\ status[c] = "failed" /\ c \notin spent
             /\ kind[c] # "shortlist" /\ pc[c] \in Ended \cup {"refund"}

(* What was charged for: every row but the free searches'.                 *)
RowIsCharged(c) ==
  /\ status[c] # "none" \/ pc[c] = "insert" => kind[c] = "quick" \/ c \in charged
  /\ pc[c] \in {"idle", "deduct"} => c \notin charged
  /\ kind[c] = "quick" => pc[c] # "deduct" /\ c \notin charged
  /\ pc[c] \in Unborn => status[c] = "none"
  /\ status[c] = "none" => pc[c] \in Unborn \cup Ended

(* A row still `queued` is young while its worker lives: the sweep takes   *)
(* it for unstarted, and repays it, only when nobody will start it.        *)
QueuedIsYoung(c) ==
  /\ status[c] = "none" => c \notin old
  /\ pc[c] \in {"spawned", "prefix"} => status[c] = "queued" /\ c \notin old
  /\ pc[c] \in Inside => status[c] # "queued"
  /\ status[c] = "queued" => kind[c] # "shortlist" /\ (c \in old => pc[c] \in Ended)
  /\ \A p \in Procs : found[p][c] # "none" => c \in old

(* Model calls begin behind the statuses a refund may come from.           *)
SpentIsLate(c) ==
  c \in spent => /\ status[c] \notin {"none", "queued"} /\ pc[c] \notin Early
                 /\ kind[c] # "shortlist"

(* The price goes back when the work is over, or to an empty shortlist.    *)
RepaidOnce(c) ==
  /\ pc[c] = "price" => c \in empty
  /\ kind[c] = "shortlist" => pc[c] \in Unborn \cup Ended \cup {"match", "price", "finish"}
  /\ refunds[c] > 0 =>
       /\ refunds[c] = 1 /\ c \in charged \ spent
       /\ IF kind[c] = "shortlist" THEN c \in empty /\ pc[c] \in Ended \cup {"finish"}
          ELSE status[c] = "failed" /\ pc[c] \in Ended

Safe(c) == OneDebtor(c) /\ DebtIsOpen(c) /\ RowIsCharged(c) /\ QueuedIsYoung(c)
           /\ SpentIsLate(c) /\ RepaidOnce(c)
OweOne  == \A p \in Procs : \A c, d \in owes[p] : c = d

Inv == TypeInv /\ OweOne /\ \A c \in Jobs : Safe(c)

(* In one process a request that passed its check is paid for, or counted, *)
(* before another passes.                                                  *)
Afforded(c) ==
  /\ pc[c] = "deduct" => balance >= Price
  /\ kind[c] # "quick" /\ (pc[c] = "insert" \/ status[c] # "none") => taken[c] = Price
QuickRows == {j \in Of("quick") : status[j] # "none"}
Counted ==
  /\ Cardinality(QuickRows) <= DailyCap
  /\ \A c \in Of("quick") : pc[c] = "insert" => Cardinality(QuickRows) < DailyCap
PurseInv ==
  /\ Inv /\ IsFiniteSet(QuickRows)
  /\ OneLoop => Counted /\ \A c \in Jobs : Afforded(c)


-----------------------------------------------------------------------------
(***************************************************************************)
(* The kinds' actions are those of PaidRows; At, Goto and the writes say   *)
(* the same in every instance.                                             *)
(***************************************************************************)
USE DEF At, Goto, Put, PutIf, Settled, purse, sweep, PayBack, Statuses, Live, Early, Ended,
        Inside, Unborn, PCs, Kinds,
        R!At, R!Goto, R!Put, R!PutIf, R!purse, R!sweep, R!PayBack, R!LiveStatuses,
        R!Advance, R!RecordFailure, R!Generating,
        B!At, B!Goto, B!Put, B!PutIf, B!purse, B!sweep, B!LiveStatuses, B!WriteOrRaise,
        C!At, C!Goto, C!Put, C!PutIf, C!purse, C!sweep, C!LiveStatuses,
        K!At, K!Goto, K!Put, K!purse, K!sweep, K!PayBack

(* The request of every kind, in the terms of PaidRows.                    *)
AdmitQuick(c) ==
  /\ At(c, "idle") /\ kind[c] = "quick"
  /\ Cardinality(QuickRows) < DailyCap
  /\ Goto(c, "insert")
  /\ UNCHANGED <<purse, status, old, proc, sweep, deaths>>
Opens(c) ==
  /\ \/ AdmitQuick(c)
     \/ kind[c] # "quick" /\ Afford(c)
     \/ Deduct(c)
     \/ kind[c] # "shortlist" /\ Insert(c, "queued", "spawned")
     \/ kind[c] = "shortlist" /\ Insert(c, "building", "match")
  /\ UNCHANGED <<spent, empty>>
LEMMA CreateOpens == ASSUME NEW c \in Jobs, Create(c) PROVE Opens(c)
<1> USE DEF Opens, LoopFree, Sweeping, NothingFound, Floored, Afford, Deduct, Insert
<1>1. CASE kind[c] = "revision" /\ R!Create(c) /\ UNCHANGED empty
  BY <1>1 DEF R!Create, R!Afford, R!Deduct, R!Insert, R!LoopFree, R!Sweeping, R!NothingFound,
              R!Floored, R!Sync, Sync
<1>2. CASE kind[c] = "built" /\ B!Create(c) /\ UNCHANGED empty
  BY <1>2 DEF B!Create, B!Afford, B!Deduct, B!Insert, B!LoopFree, B!Sweeping, B!NothingFound,
              B!Floored, B!Sync, Sync
<1>3. CASE kind[c] = "shortlist" /\ K!Create(c) /\ UNCHANGED spent
  BY <1>3 DEF K!Create, K!Afford, K!Deduct, K!Insert, K!LoopFree, K!Sweeping, K!NothingFound,
              K!Floored, K!Sync, Sync
<1>4. CASE kind[c] \in {"search", "quick"} /\ C!Create(c) /\ UNCHANGED empty
  <2>1. c \in Of("quick") <=> kind[c] = "quick"  BY DEF Of
  <2>2. C!QuickRows = QuickRows  BY DEF C!QuickRows, QuickRows
  <2>0. \A S : C!Cardinality(S) = Cardinality(S)  BY DEF C!Cardinality, Cardinality
  <2>3. CASE C!AdmitQuick(c)
    <3>1. Cardinality(QuickRows) < DailyCap /\ UNCHANGED spent /\ kind[c] = "quick"
      BY <2>0, <2>1, <2>2, <2>3 DEF C!AdmitQuick
    <3>2. At(c, "idle")
      BY <2>3 DEF C!AdmitQuick, C!LoopFree, C!Sweeping, C!NothingFound, C!Sync, Sync
    <3>3. QED  BY <1>4, <2>3, <3>1, <3>2 DEF C!AdmitQuick, AdmitQuick
  <2> USE <1>4, <2>1
      DEF C!LoopFree, C!Sweeping, C!NothingFound, C!Floored, C!Sync, Sync
  <2>4. CASE c \notin Of("quick") /\ C!Afford(c) /\ UNCHANGED spent  BY <2>4 DEF C!Afford
  <2>5. CASE C!Deduct(c) /\ UNCHANGED spent  BY <2>5 DEF C!Deduct
  <2>6. CASE C!Insert(c, "queued", "spawned") /\ UNCHANGED spent  BY <2>6 DEF C!Insert
  <2>7. QED  BY <2>3, <2>4, <2>5, <2>6 DEF C!Create
<1>5. QED  BY <1>1, <1>2, <1>3, <1>4 DEF Create

(* What the repayment of a sweep does, whatever the kind: pays, logs that  *)
(* it could not, or has nothing to pay for a free search.                  *)
Repays(p, c) ==
  /\ c \in owes[p] /\ owes' = [owes EXCEPT ![p] = {}]
  /\ \/ kind[c] # "quick" /\ balance' = balance + Price
        /\ refunds' = [refunds EXCEPT ![c] = @ + 1]
     \/ UNCHANGED <<balance, refunds>>
  /\ UNCHANGED <<charged, taken, status, old, pc, proc, found, deaths, spent, empty>>
LEMMA RepayIs ==
  ASSUME NEW p \in Procs, NEW c \in Jobs, Repay(p, c), UNCHANGED <<spent, empty>>
  PROVE  Repays(p, c)
<1>1. c \in Of("quick") <=> kind[c] = "quick"  BY DEF Of
<1>2. QED  BY <1>1 DEF Repay, ReaperRefund, Repays, C!Repay, C!ReaperRefund, C!PayBack

(* Every rule of the sweep repays what it finds `queued`, and no other row.*)
LEMMA RefundOfQueued == ASSUME NEW k \in Kinds PROVE RefundOf(k) = {"queued"}
BY DEF RefundOf, R!RefundStates, B!RefundStates, C!RefundStates, K!RefundStates

LEMMA LateIs ==
  ASSUME NEW c \in Jobs, Late(c)
  PROVE  /\ status[c] # "none" /\ old' = old \cup {c}
         /\ pc[c] \notin {"idle", "deduct", "insert", "prefix", "refund", "raising", "match",
                          "price", "finish", "spawned"} \/ pc[c] \in Resting
         /\ kind[c] = "built" /\ ~Overrun => pc[c] \in Resting
         /\ UNCHANGED <<purse, status, pc, proc, sweep, deaths, spent, empty>>
BY DEF Late, Age, R!Age, C!Age, Sync, R!Sync, C!Sync, Resting, R!Resting, C!Resting

-----------------------------------------------------------------------------
(* A step about one job leaves the others as safe as they were.            *)
Same(d) ==
  /\ pc'[d] = pc[d] /\ status'[d] = status[d] /\ refunds'[d] = refunds[d]
  /\ taken'[d] = taken[d]
  /\ (d \in spent' <=> d \in spent) /\ (d \in charged' <=> d \in charged)
  /\ (d \in old' <=> d \in old) /\ (d \in empty' <=> d \in empty)
  /\ \A p \in Procs : (d \in owes'[p] <=> d \in owes[p]) /\ found'[p][d] = found[p][d]
OneJob(c) == OweOne' /\ kind' = kind /\ \A d \in Jobs \ {c} : Same(d)

LEMMA Local ==
  ASSUME Inv, TypeInv', NEW c \in Jobs, OneJob(c), Safe(c)'
  PROVE  Inv'
<1>1. ASSUME NEW d \in Jobs \ {c} PROVE Safe(d)'
  <2>1. Safe(d) /\ Same(d) /\ kind' = kind  BY DEF OneJob, Inv
  <2>2. OneDebtor(d)' /\ DebtIsOpen(d)'  BY <2>1 DEF Safe, Same, OneDebtor, DebtIsOpen, Owed
  <2>3. RowIsCharged(d)'  BY <2>1 DEF Safe, Same, RowIsCharged
  <2>4. QueuedIsYoung(d)'  BY <2>1 DEF Safe, Same, QueuedIsYoung
  <2>5. SpentIsLate(d)' /\ RepaidOnce(d)'  BY <2>1 DEF Safe, Same, SpentIsLate, RepaidOnce
  <2>6. QED  BY <2>2, <2>3, <2>4, <2>5 DEF Safe
<1>2. QED  BY <1>1 DEF Inv, OneJob

LEMMA InvInit == Init => Inv
<1> SUFFICES ASSUME Init PROVE Inv  OBVIOUS
<1> USE PaidRowsAssumption, OrdersAssumption DEF Init, PaidInit, NothingFound
<1>1. TypeInv  BY DEF TypeInv
<1>2. OweOne  BY DEF OweOne
<1>3. ASSUME NEW c \in Jobs PROVE Safe(c)
  BY DEF Safe, OneDebtor, DebtIsOpen, Owed, RowIsCharged, QueuedIsYoung, SpentIsLate, RepaidOnce
<1>4. QED  BY <1>1, <1>2, <1>3 DEF Inv

(* The request: nothing is owed yet, for there is no row to close.         *)
LEMMA OpensOne ==
  ASSUME Inv, NEW c \in Jobs, Opens(c), kind' = kind
  PROVE  TypeInv' /\ OneJob(c) /\ Safe(c)'
<1>0. TypeInv  BY DEF Inv
<1>1. TypeInv'
  <2> USE <1>0 DEF TypeInv
  <2>1. CASE AdmitQuick(c)  BY <2>1 DEF AdmitQuick, Opens
  <2>2. CASE kind[c] # "quick" /\ Afford(c)  BY <2>2 DEF Afford, Opens
  <2>3. CASE Deduct(c)
    <3>1. Floored \in Nat /\ balance - Floored \in Nat  BY PaidRowsAssumption DEF Floored
    <3>2. balance' \in Nat /\ charged' \subseteq Jobs /\ taken' \in [Jobs -> Nat]
      BY <2>3, <3>1 DEF Deduct
    <3>3. pc' \in [Jobs -> PCs]  BY <2>3 DEF Deduct
    <3>4. QED  BY <2>3, <3>2, <3>3 DEF Deduct, Opens
  <2>4. CASE Insert(c, "queued", "spawned") \/ Insert(c, "building", "match")
    <3>1. status' \in [Jobs -> Statuses]  BY <2>4 DEF Insert
    <3>2. pc' \in [Jobs -> PCs]  BY <2>4 DEF Insert
    <3>3. QED  BY <2>4, <3>1, <3>2 DEF Insert, Opens
  <2>5. QED  BY <2>1, <2>2, <2>3, <2>4 DEF Opens
<1>2. OneJob(c)
  BY <1>0 DEF Opens, AdmitQuick, Afford, Deduct, Insert, OneJob, Same, OweOne, Inv, TypeInv
<1>3. Safe(c)'
  <2>1. Safe(c)  BY DEF Inv
  <2> USE <1>0, <2>1 DEF TypeInv, Safe, OneDebtor, DebtIsOpen, Owed, RowIsCharged, QueuedIsYoung,
                   SpentIsLate, RepaidOnce
  <2>2. CASE AdmitQuick(c)  BY <2>2 DEF AdmitQuick, Opens
  <2>3. CASE kind[c] # "quick" /\ Afford(c)  BY <2>3 DEF Afford, Opens
  <2>4. CASE Deduct(c)  BY <2>4 DEF Deduct, Opens
  <2>5. CASE kind[c] # "shortlist" /\ Insert(c, "queued", "spawned")  BY <2>5 DEF Insert, Opens
  <2>6. CASE kind[c] = "shortlist" /\ Insert(c, "building", "match")  BY <2>6 DEF Insert, Opens
  <2>7. QED  BY <2>2, <2>3, <2>4, <2>5, <2>6 DEF Opens
<1>4. QED  BY <1>1, <1>2, <1>3

(* A worker's step is about its own job.                                   *)
WorkerFrame(c) ==
  /\ pc[c] \notin Unborn \cup Ended
  /\ UNCHANGED <<old, proc, found, owes, deaths, charged, taken>>
  /\ kind' = kind
  /\ \/ UNCHANGED <<balance, refunds>>
     \/ balance' = balance + Price /\ refunds' = [refunds EXCEPT ![c] = @ + 1]
  /\ \E s \in Statuses \ {"none", "queued"} : status' = status \/ status' = [status EXCEPT ![c] = s]
  /\ \E x \in PCs \ Unborn : pc' = [pc EXCEPT ![c] = x]
  /\ spent' = spent \/ spent' = spent \cup {c}
  /\ empty' = empty \/ empty' = empty \cup {c}
LEMMA WorkerFrames ==
  ASSUME Inv, NEW c \in Jobs, Worker(c), kind' = kind PROVE WorkerFrame(c)
<1>1. CASE kind[c] = "revision" /\ R!Worker(c) /\ UNCHANGED empty
  BY <1>1 DEF R!Worker, R!Begin, R!Mark, R!Capture, R!Reference, R!Generate, R!Upload,
              R!Unexpected, R!Working, R!MarkFailed, R!WorkerRefund, WorkerFrame
<1>2. CASE kind[c] = "built" /\ B!Worker(c) /\ UNCHANGED empty
  BY <1>2 DEF B!Worker, B!Begin, B!Finish, B!MarkFailed, WorkerFrame
<1>3. CASE kind[c] \in {"search", "quick"} /\ C!Worker(c) /\ UNCHANGED empty
  BY <1>3 DEF C!Worker, C!Begin, C!Search, C!RecordFailure, C!MarkFailed, WorkerFrame
<1>4. CASE kind[c] = "shortlist" /\ K!Worker(c) /\ UNCHANGED spent
  BY <1>4 DEF K!Worker, K!Match, K!Reprice, K!Finish, WorkerFrame
<1>5. QED  BY <1>1, <1>2, <1>3, <1>4 DEF Worker

LEMMA WorkerOne ==
  ASSUME Inv, NEW c \in Jobs, WorkerFrame(c) PROVE TypeInv' /\ OneJob(c)
<1>0. TypeInv  BY DEF Inv
<1>1. TypeInv'
  <2> USE <1>0 DEF TypeInv
  <2>1. balance' \in Nat  BY PaidRowsAssumption DEF WorkerFrame
  <2>2. refunds' \in [Jobs -> Nat]
    <3>1. [refunds EXCEPT ![c] = @ + 1] \in [Jobs -> Nat]  OBVIOUS
    <3>2. refunds' = refunds \/ refunds' = [refunds EXCEPT ![c] = @ + 1]  BY DEF WorkerFrame
    <3>3. QED  BY <3>1, <3>2
  <2>3. status' \in [Jobs -> Statuses]
    <3>1. PICK s \in Statuses \ {"none", "queued"} : status' = status \/ status' = [status EXCEPT ![c] = s]
      BY DEF WorkerFrame
    <3>2. QED  BY <3>1
  <2>4. pc' \in [Jobs -> PCs]  BY DEF WorkerFrame
  <2>5. spent' \subseteq Jobs /\ empty' \subseteq Jobs  BY DEF WorkerFrame
  <2>6. QED  BY <2>1, <2>2, <2>3, <2>4, <2>5 DEF WorkerFrame
<1>2. OneJob(c)  BY <1>0 DEF WorkerFrame, OneJob, Same, OweOne, Inv, TypeInv
<1>3. QED  BY <1>1, <1>2

(* The worker comes to owe a refund only by a close of its own that        *)
(* matched a live row, and pays only what it owes; a shortlist is repriced *)
(* only when empty.                                                        *)
LEMMA WorkerSafe ==
  ASSUME Inv, NEW c \in Jobs, Worker(c), kind' = kind, TypeInv' PROVE Safe(c)'
<1>0. Safe(c) /\ TypeInv  BY DEF Inv
<1> USE <1>0 DEF TypeInv, Safe, OneDebtor, DebtIsOpen, Owed, RowIsCharged, QueuedIsYoung,
                 SpentIsLate, RepaidOnce
<1>1. CASE kind[c] = "revision" /\ R!Worker(c) /\ UNCHANGED empty
  <2>1. CASE R!Begin(c)       BY <1>1, <2>1 DEF R!Begin
  <2>2. CASE R!Mark(c)        BY <1>1, <2>2 DEF R!Mark
  <2>3. CASE R!Capture(c)     BY <1>1, <2>3 DEF R!Capture
  <2>4. CASE R!Reference(c)   BY <1>1, <2>4 DEF R!Reference
  <2>5. CASE R!Generate(c)    BY <1>1, <2>5 DEF R!Generate
  <2>6. CASE R!Upload(c)      BY <1>1, <2>6 DEF R!Upload
  <2>7. CASE R!Unexpected(c)  BY <1>1, <2>7 DEF R!Unexpected, R!Working
  <2>8. CASE R!MarkFailed(c)  BY <1>1, <2>8 DEF R!MarkFailed
  <2>9. CASE R!WorkerRefund(c) /\ UNCHANGED spent  BY <1>1, <2>9 DEF R!WorkerRefund
  <2>10. QED
    BY <1>1, <2>1, <2>2, <2>3, <2>4, <2>5, <2>6, <2>7, <2>8, <2>9 DEF R!Worker
<1>2. CASE kind[c] = "built" /\ B!Worker(c) /\ UNCHANGED empty
  <2>1. CASE B!Begin(c)       BY <1>2, <2>1 DEF B!Begin
  <2>2. CASE B!Finish(c)      BY <1>2, <2>2 DEF B!Finish
  <2>3. CASE B!MarkFailed(c)  BY <1>2, <2>3 DEF B!MarkFailed
  <2>4. QED  BY <1>2, <2>1, <2>2, <2>3 DEF B!Worker
<1>3. CASE kind[c] \in {"search", "quick"} /\ C!Worker(c) /\ UNCHANGED empty
  <2>1. CASE C!Begin(c)          BY <1>3, <2>1 DEF C!Begin
  <2>2. CASE C!Search(c)         BY <1>3, <2>2 DEF C!Search
  <2>3. CASE C!RecordFailure(c)  BY <1>3, <2>3 DEF C!RecordFailure
  <2>4. CASE C!MarkFailed(c)     BY <1>3, <2>4 DEF C!MarkFailed
  <2>5. QED  BY <1>3, <2>1, <2>2, <2>3, <2>4 DEF C!Worker
<1>4. CASE kind[c] = "shortlist" /\ K!Worker(c) /\ UNCHANGED spent
  <2>1. CASE K!Match(c)    BY <1>4, <2>1 DEF K!Match
  <2>2. CASE K!Reprice(c)  BY <1>4, <2>2 DEF K!Reprice
  <2>3. CASE K!Finish(c)   BY <1>4, <2>3 DEF K!Finish
  <2>4. QED  BY <1>4, <2>1, <2>2, <2>3 DEF K!Worker
<1>5. QED  BY <1>1, <1>2, <1>3, <1>4 DEF Worker

(* Time passes for a row that waits at an await, or that nobody serves.    *)
LEMMA LateOne ==
  ASSUME Inv, NEW c \in Jobs, Late(c), kind' = kind
  PROVE  TypeInv' /\ OneJob(c) /\ Safe(c)'
<1>0. Safe(c) /\ TypeInv /\ OweOne  BY DEF Inv
<1> USE <1>0, LateIs
<1>1. TypeInv'  BY DEF TypeInv
<1>2. OneJob(c)  BY DEF OneJob, Same, OweOne
<1>3. Safe(c)'
  BY DEF TypeInv, Safe, OneDebtor, DebtIsOpen, Owed, RowIsCharged, QueuedIsYoung,
         SpentIsLate, RepaidOnce, Resting
<1>4. QED  BY <1>1, <1>2, <1>3

(* The sweep owes only what its own compare-and-set moved.                 *)
Closes(p, c) == Close(p, c) \/ ReaperCloseRaises(p, c)
LEMMA CloseOne ==
  ASSUME Inv, NEW p \in Procs, NEW c \in Jobs, Closes(p, c), UNCHANGED <<spent, empty, kind>>
  PROVE  TypeInv' /\ OneJob(c) /\ Safe(c)'
<1>0. Safe(c) /\ TypeInv /\ OweOne /\ RefundOf(kind[c]) = {"queued"}
  BY RefundOfQueued DEF Inv, TypeInv
<1> USE <1>0 DEF TypeInv
<1>1. /\ owes[p] = {} /\ owes'[p] \subseteq {c} /\ \A q \in Procs \ {p} : owes'[q] = owes[q]
      /\ found'[p][c] = "none" /\ \A d \in Jobs \ {c} : found'[p][d] = found[p][d]
      /\ \A q \in Procs \ {p} : found'[q] = found[q]
  BY DEF Closes, Close, ReaperClose, ReaperCloseRaises
<1>2. /\ UNCHANGED <<purse, old, pc, proc, deaths>>
      /\ found[p][c] # "none" /\ found[p][c] \in Live
      /\ \/ status' = status /\ owes'[p] = {}
         \/ status[c] = found[p][c] /\ status' = [status EXCEPT ![c] = "failed"]
            /\ (c \in owes'[p] => status[c] = "queued")
  BY DEF Closes, Close, ReaperClose, ReaperCloseRaises
<1>3. TypeInv'
  <2>1. \/ owes' = owes \/ owes' = [owes EXCEPT ![p] = {c}] \/ owes' = [owes EXCEPT ![p] = {}]
    BY DEF Closes, Close, ReaperClose, ReaperCloseRaises
  <2>2. owes' \in [Procs -> SUBSET Jobs]  BY <2>1
  <2>3. found' = [found EXCEPT ![p] = [@ EXCEPT ![c] = "none"]]
    BY DEF Closes, Close, ReaperClose, ReaperCloseRaises
  <2>4. [found[p] EXCEPT ![c] = "none"] \in [Jobs -> Live \cup {"none"}]  OBVIOUS
  <2>5. found' \in [Procs -> [Jobs -> Live \cup {"none"}]]  BY <2>3, <2>4
  <2>6. status' \in [Jobs -> Statuses]  BY <1>2
  <2>7. QED  BY <1>2, <2>2, <2>5, <2>6
<1>4. OneJob(c)
  <2>1. \A d \in Jobs \ {c} : status'[d] = status[d]  BY <1>2
  <2>2. \A d \in Jobs \ {c} : Same(d)  BY <1>1, <1>2, <2>1 DEF Same
  <2>3. OweOne'  BY <1>1 DEF OweOne
  <2>4. QED  BY <2>2, <2>3 DEF OneJob
<1>5. Safe(c)'
  <2>1. c \in old /\ status'[c] \in {status[c], "failed"} /\ (status[c] = "none" => status'[c] = "none")
    BY <1>2 DEF Safe, QueuedIsYoung
  <2>2. c \in owes'[p] => /\ status[c] = "queued" /\ status'[c] = "failed"
                          /\ pc[c] \in Ended /\ kind[c] # "shortlist"
                          /\ refunds[c] = 0 /\ c \notin spent
                          /\ \A q \in Procs : c \notin owes[q]
    BY <1>2, <2>1 DEF Safe, QueuedIsYoung, SpentIsLate, RepaidOnce, DebtIsOpen, Owed
  <2>3. OneDebtor(c)' /\ DebtIsOpen(c)'
    <3>1. CASE c \in owes'[p]
      BY <1>1, <1>2, <2>2, <3>1 DEF OneDebtor, DebtIsOpen, Owed
    <3>2. CASE c \notin owes'[p]
      <4>1. \A q \in Procs : c \in owes'[q] => c \in owes[q]  BY <1>1, <3>2
      <4>2. Owed(c)' => Owed(c)  BY <1>2, <4>1 DEF Owed
      <4>3. status[c] = "failed" => status'[c] = "failed"  BY <1>2
      <4>4. QED  BY <1>2, <4>1, <4>2, <4>3 DEF Safe, OneDebtor, DebtIsOpen
    <3>3. QED  BY <3>1, <3>2
  <2>4. RowIsCharged(c)'  BY <1>2, <2>1 DEF Safe, RowIsCharged
  <2>5. QueuedIsYoung(c)'  BY <1>1, <1>2, <2>1 DEF Safe, QueuedIsYoung
  <2>6. SpentIsLate(c)' /\ RepaidOnce(c)'  BY <1>2, <2>1 DEF Safe, SpentIsLate, RepaidOnce
  <2>7. QED  BY <2>3, <2>4, <2>5, <2>6 DEF Safe
<1>6. QED  BY <1>3, <1>4, <1>5

LEMMA RepayOne ==
  ASSUME Inv, NEW p \in Procs, NEW c \in Jobs, Repays(p, c), kind' = kind
  PROVE  TypeInv' /\ OneJob(c) /\ Safe(c)'
<1>0. Safe(c) /\ TypeInv /\ OweOne  BY DEF Inv
<1> USE <1>0, PaidRowsAssumption DEF TypeInv, Repays
<1>1. TypeInv'
  <2>1. owes' \in [Procs -> SUBSET Jobs]  OBVIOUS
  <2>2. balance' \in Nat /\ refunds' \in [Jobs -> Nat]  OBVIOUS
  <2>3. QED  BY <2>1, <2>2
<1>2. owes[p] \subseteq {c} /\ owes'[p] = {} /\ \A q \in Procs \ {p} : owes'[q] = owes[q]
  BY DEF OweOne
<1>3. OneJob(c)
  <2>1. \A d \in Jobs \ {c} : Same(d)  BY <1>2 DEF Same
  <2>2. OweOne'  BY <1>2 DEF OweOne
  <2>3. QED  BY <2>1, <2>2 DEF OneJob
<1>4. Safe(c)'
  BY <1>2 DEF Safe, OneDebtor, DebtIsOpen, Owed, RowIsCharged, QueuedIsYoung, SpentIsLate, RepaidOnce
<1>5. QED  BY <1>1, <1>3, <1>4
(* The sweep reads old live rows of one table.                             *)
LEMMA ReadKeeps ==
  ASSUME Inv, NEW p \in Procs, Read(p), UNCHANGED <<spent, empty, kind>> PROVE Inv'
<1> DEFINE stuck == {j \in Jobs : j \in old /\ found'[p][j] # "none"}
<1>1. \E rows \in SUBSET Jobs, live \in SUBSET Live : ReaperRead(p, rows, live)
  BY DEF Read, R!ReapedStates, B!ReapedStates, C!ReapedStates, K!ReapedStates, Of
<1>2. UNCHANGED <<purse, status, old, pc, proc, owes, deaths>>  BY <1>1 DEF ReaperRead
<1>3. /\ found' \in [Procs -> [Jobs -> Live \cup {"none"}]]
      /\ \A q \in Procs, c \in Jobs : found'[q][c] # "none" => c \in old
  <2>1. PICK rows \in SUBSET Jobs, live \in SUBSET Live : ReaperRead(p, rows, live)  BY <1>1
  <2>2. TypeInv /\ \A q \in Procs, c \in Jobs : found[q][c] # "none" => c \in old
    BY DEF Inv, Safe, QueuedIsYoung
  <2>3. QED  BY <2>1, <2>2 DEF ReaperRead, TypeInv
<1>4. TypeInv'  BY <1>2, <1>3 DEF Inv, TypeInv
<1>5. ASSUME NEW c \in Jobs PROVE Safe(c)'
  <2>1. Safe(c)  BY DEF Inv
  <2>2. QED
    BY <1>2, <1>3, <2>1 DEF Safe, OneDebtor, DebtIsOpen, Owed, RowIsCharged, QueuedIsYoung,
                            SpentIsLate, RepaidOnce
<1>6. QED  BY <1>2, <1>4, <1>5 DEF Inv, OweOne

LEMMA RestartKeeps ==
  ASSUME Inv, NEW p \in Procs, Restart(p), UNCHANGED <<spent, empty, kind>> PROVE Inv'
<1>0. TypeInv /\ OweOne  BY DEF Inv
<1>1. /\ TypeInv'
      /\ UNCHANGED <<purse, status, old, proc>>
      /\ \A q \in Procs : owes'[q] \subseteq owes[q]
      /\ \A q \in Procs, c \in Jobs : found'[q][c] # "none" => found[q][c] # "none"
  BY <1>0 DEF TypeInv, Restart, NothingFound
<1>2. \A c \in Jobs : pc'[c] = pc[c] \/ pc'[c] = "lost"  BY <1>0 DEF TypeInv, Restart
<1>3. ASSUME NEW c \in Jobs PROVE Safe(c)'
  <2>1. Safe(c)  BY DEF Inv
  <2>2. OneDebtor(c)' /\ DebtIsOpen(c)'
    <3>1. \A q \in Procs : c \in owes'[q] => c \in owes[q]  BY <1>1
    <3>2. QED  BY <1>1, <1>2, <2>1, <3>1 DEF Safe, OneDebtor, DebtIsOpen, Owed
  <2>3. RowIsCharged(c)' /\ QueuedIsYoung(c)'
    BY <1>1, <1>2, <2>1 DEF Safe, RowIsCharged, QueuedIsYoung
  <2>4. SpentIsLate(c)' /\ RepaidOnce(c)'
    BY <1>1, <1>2, <2>1 DEF Safe, SpentIsLate, RepaidOnce
  <2>5. QED  BY <2>2, <2>3, <2>4 DEF Safe
<1>4. QED  BY <1>0, <1>1, <1>3 DEF Inv, OweOne

(* Every step is a request's, a worker's, the clock's, a sweep's about one *)
(* row, a sweep's reading, or a death.                                     *)
Steps ==
  /\ kind' = kind
  /\ \/ \E c \in Jobs : Opens(c) \/ Worker(c) \/ Late(c)
     \/ \E p \in Procs, c \in Jobs : Closes(p, c) /\ UNCHANGED <<spent, empty>>
     \/ \E p \in Procs, c \in Jobs : Repays(p, c)
     \/ \E p \in Procs : (Read(p) \/ Restart(p)) /\ UNCHANGED <<spent, empty>>
LEMMA NextIs == Next => Steps
<1> SUFFICES ASSUME Next PROVE Steps  OBVIOUS
<1>1. kind' = kind  BY DEF Next
<1>2. ASSUME NEW p \in Procs, Sweep(p) PROVE Steps
  <2>1. CASE Read(p)  BY <1>1, <1>2, <2>1 DEF Sweep, Steps
  <2>2. ASSUME NEW c \in Jobs, Close(p, c) \/ ReaperCloseRaises(p, c) PROVE Steps
    BY <1>1, <1>2, <2>2 DEF Sweep, Steps, Closes
  <2>3. ASSUME NEW c \in Jobs, Repay(p, c) PROVE Steps
    BY <1>1, <1>2, <2>3, RepayIs DEF Sweep, Steps
  <2>4. QED  BY <1>2, <2>1, <2>2, <2>3 DEF Sweep
<1>3. QED  BY <1>1, <1>2, CreateOpens DEF Next, Steps

LEMMA InvNext == Inv /\ [Next]_vars => Inv'
<1> SUFFICES ASSUME Inv, [Next]_vars PROVE Inv'  OBVIOUS
<1>1. CASE UNCHANGED vars
  <2>1. TypeInv' /\ OweOne'  BY <1>1 DEF Inv, TypeInv, OweOne, vars, paidVars
  <2>2. \A c \in Jobs : Safe(c)'
    BY <1>1 DEF Inv, Safe, OneDebtor, DebtIsOpen, Owed, RowIsCharged, QueuedIsYoung,
                SpentIsLate, RepaidOnce, vars, paidVars
  <2>3. QED  BY <2>1, <2>2 DEF Inv
<1>2. CASE Steps
  <2>0. kind' = kind  BY <1>2 DEF Steps
  <2>1. ASSUME NEW c \in Jobs, Opens(c) PROVE Inv'  BY <2>0, <2>1, OpensOne, Local
  <2>2. ASSUME NEW c \in Jobs, Worker(c) PROVE Inv'
    <3>1. TypeInv' /\ OneJob(c)  BY <2>0, <2>2, WorkerFrames, WorkerOne
    <3>2. QED  BY <2>0, <2>2, <3>1, WorkerSafe, Local
  <2>3. ASSUME NEW c \in Jobs, Late(c) PROVE Inv'  BY <2>0, <2>3, LateOne, Local
  <2>4. ASSUME NEW p \in Procs, NEW c \in Jobs, Closes(p, c), UNCHANGED <<spent, empty>> PROVE Inv'
    BY <2>0, <2>4, CloseOne, Local
  <2>5. ASSUME NEW p \in Procs, NEW c \in Jobs, Repays(p, c) PROVE Inv'
    BY <2>0, <2>5, RepayOne, Local
  <2>6. ASSUME NEW p \in Procs, Read(p) \/ Restart(p), UNCHANGED <<spent, empty>> PROVE Inv'
    BY <2>0, <2>6, ReadKeeps, RestartKeeps
  <2>7. QED  BY <1>2, <2>1, <2>2, <2>3, <2>4, <2>5, <2>6 DEF Steps
<1>3. QED  BY <1>1, <1>2, NextIs

(* No price goes back twice, or for work a model was called for.           *)
LEMMA InvRepays == Inv => RefundedUnspent
<1> SUFFICES ASSUME Inv, NEW c \in Jobs, refunds[c] > 0
             PROVE  /\ refunds[c] = 1 /\ c \in charged \ spent
                    /\ IF kind[c] = "shortlist" THEN c \in empty ELSE status[c] = "failed"
  BY DEF RefundedUnspent
<1> QED  BY DEF Inv, Safe, RepaidOnce
-----------------------------------------------------------------------------
(***************************************************************************)
(* Why one process sells nothing unpaid and no free search above the cap:  *)
(* from the check to the deduction and the INSERT the loop is the          *)
(* request's, and everyone else only adds to the balance.                  *)
(***************************************************************************)
LEMMA PurseInit == Init => PurseInv
<1> SUFFICES ASSUME Init PROVE PurseInv  OBVIOUS
<1>1. QuickRows = {}  BY DEF Init, PaidInit, QuickRows, Of
<1>2. IsFiniteSet(QuickRows) /\ Cardinality(QuickRows) = 0  BY <1>1, FS_EmptySet
<1>3. Counted /\ \A c \in Jobs : Afforded(c)
  BY <1>2, OrdersAssumption DEF Counted, Afforded, Init, PaidInit, Of
<1>4. QED  BY <1>2, <1>3, InvInit DEF PurseInv

(* A step that opens no row, admits nobody and takes nothing.              *)
LEMMA PurseStands ==
  ASSUME PurseInv, Inv', UNCHANGED <<kind, proc, taken>>, balance' >= balance,
         \A j \in Jobs : /\ pc'[j] \in {"deduct", "insert"} => pc'[j] = pc[j]
                         /\ status'[j] # "none" <=> status[j] # "none"
  PROVE  PurseInv'
<1>1. QuickRows' = QuickRows  BY DEF QuickRows, Of
<1>2. OneLoop' = OneLoop  BY DEF OneLoop
<1>3. Counted => Counted'  BY <1>1 DEF Counted, Of
<1>4. \A c \in Jobs : Afforded(c) => Afforded(c)'
  BY PaidRowsAssumption DEF PurseInv, Inv, TypeInv, Afforded
<1>5. QED  BY <1>1, <1>2, <1>3, <1>4 DEF PurseInv

LEMMA OpensPurse ==
  ASSUME PurseInv, Inv', NEW c \in Jobs, Opens(c), kind' = kind PROVE PurseInv'
<1>0. /\ Inv /\ TypeInv /\ TypeInv' /\ proc' = proc
      /\ OneLoop' = OneLoop /\ \A d \in Jobs \ {c} : Same(d)
  <2>1. proc' = proc  BY DEF Opens, AdmitQuick, Afford, Deduct, Insert
  <2>2. QED  BY <2>1, OpensOne DEF PurseInv, Inv, OneJob, OneLoop
<1>1. CASE Insert(c, "queued", "spawned") \/ Insert(c, "building", "match")
  <2>1. IsFiniteSet(QuickRows')
        /\ Cardinality(QuickRows') <= Cardinality(QuickRows) + 1
    <3>1. QuickRows' = QuickRows \/ QuickRows' = QuickRows \cup {c}
      BY <1>0, <1>1 DEF QuickRows, Of, Same, Insert, TypeInv
    <3>2. IsFiniteSet(QuickRows)  BY DEF PurseInv
    <3>3. Cardinality(QuickRows) \in Nat  BY <3>2, FS_CardinalityType
    <3>4. /\ IsFiniteSet(QuickRows \cup {c})
          /\ Cardinality(QuickRows \cup {c}) <= Cardinality(QuickRows) + 1
      <4>1. /\ IsFiniteSet(QuickRows \cup {c})
            /\ Cardinality(QuickRows \cup {c})
                 = IF c \in QuickRows THEN Cardinality(QuickRows) ELSE Cardinality(QuickRows) + 1
        BY <3>2, FS_AddElement, Zenon
      <4>2. QED  BY <3>3, <4>1
    <3>5. CASE QuickRows' = QuickRows  BY <3>2, <3>3, <3>5
    <3>6. CASE QuickRows' = QuickRows \cup {c}  BY <3>4, <3>6
    <3>7. QED  BY <3>1, <3>5, <3>6
  <2>2. kind[c] # "quick" => QuickRows' = QuickRows
    BY <1>0, <1>1 DEF QuickRows, Of, Same, Insert, TypeInv
  <2>3. Cardinality(QuickRows) \in Nat /\ Cardinality(QuickRows') \in Nat
    BY <2>1, FS_CardinalityType DEF PurseInv
  <2>4. pc'[c] # "insert"  BY <1>0, <1>1 DEF Insert, TypeInv
  <2>5. OneLoop => \A d \in Jobs \ {c} : pc[d] \notin Sync
    BY <1>1 DEF Insert, OneLoop, LoopFree
  <2>6. OneLoop => Counted'
    <3>1. SUFFICES ASSUME OneLoop PROVE Counted'  OBVIOUS
    <3>2. \A d \in Jobs : pc'[d] # "insert"  BY <1>0, <2>4, <2>5, <3>1 DEF Same, Sync
    <3>3. Counted  BY <3>1 DEF PurseInv
    <3>4. Cardinality(QuickRows') <= DailyCap
      <4>1. CASE kind[c] = "quick"
        <5>1. Cardinality(QuickRows) < DailyCap
          BY <1>1, <3>3, <4>1 DEF Counted, Of, Insert
        <5>2. QED  BY <2>1, <2>3, <5>1, OrdersAssumption
      <4>2. CASE kind[c] # "quick"  BY <2>2, <3>3, <4>2 DEF Counted
      <4>3. QED  BY <4>1, <4>2
    <3>5. QED  BY <3>2, <3>4 DEF Counted, Of
  <2>7. OneLoop => \A d \in Jobs : Afforded(d)'
    <3>1. UNCHANGED <<balance, taken>>  BY <1>1 DEF Insert
    <3>2. Afforded(c) => Afforded(c)'
      BY <1>0, <1>1, <3>1 DEF Insert, Afforded, TypeInv
    <3>3. \A d \in Jobs \ {c} : Afforded(d) => Afforded(d)'
      BY <1>0, <3>1 DEF Same, Afforded
    <3>4. QED  BY <3>2, <3>3 DEF PurseInv
  <2>8. QED  BY <1>0, <2>1, <2>6, <2>7 DEF PurseInv
<1>2. CASE AdmitQuick(c) \/ (kind[c] # "quick" /\ Afford(c)) \/ Deduct(c)
  <2>1. status' = status  BY <1>2 DEF AdmitQuick, Afford, Deduct
  <2>2. QuickRows' = QuickRows  BY <2>1 DEF QuickRows, Of
  <2>3. Counted => Counted'
    <3>1. \A d \in Of("quick") : pc'[d] = "insert" =>
            pc[d] = "insert" \/ Cardinality(QuickRows) < DailyCap
      <4>1. CASE AdmitQuick(c)  BY <1>0, <4>1 DEF AdmitQuick, Same, Of
      <4>2. CASE kind[c] # "quick" /\ Afford(c)  BY <1>0, <4>2 DEF Afford, TypeInv, Of
      <4>3. CASE Deduct(c)
        <5>1. kind[c] # "quick"
          BY <1>0, <4>3 DEF Deduct, Inv, Safe, RowIsCharged
        <5>2. QED  BY <1>0, <5>1 DEF Same, Of
      <4>4. QED  BY <1>2, <4>1, <4>2, <4>3
    <3>2. Of("quick")' = Of("quick")  BY DEF Of
    <3>3. QED  BY <2>2, <3>1, <3>2 DEF Counted
  <2>4. ASSUME OneLoop, \A d \in Jobs : Afforded(d) PROVE \A d \in Jobs : Afforded(d)'
    <3>1. CASE Deduct(c)
      <4>1. Afforded(c) /\ pc[c] = "deduct"  BY <2>4, <3>1 DEF Deduct
      <4>2. balance >= Price /\ Floored = balance - Price /\ balance \in Nat
        BY <1>0, <4>1 DEF Afforded, Floored, TypeInv
      <4>3. \A d \in Jobs \ {c} : pc[d] # "deduct"
        BY <2>4, <3>1 DEF Deduct, OneLoop, LoopFree, Sync
      <4>4. pc'[c] = "insert" => taken'[c] = Price
        BY <1>0, <3>1, <4>2, PaidRowsAssumption DEF Deduct, TypeInv
      <4>5. pc'[c] # "deduct" /\ status[c] = "none"
        BY <1>0, <3>1 DEF Deduct, TypeInv, Inv, Safe, RowIsCharged
      <4>6. Afforded(c)'  BY <2>1, <4>4, <4>5 DEF Afforded
      <4>7. \A d \in Jobs \ {c} : Afforded(d)'
        BY <1>0, <2>4, <4>3 DEF Same, Afforded
      <4>8. QED  BY <4>6, <4>7
    <3>2. CASE AdmitQuick(c)  BY <1>0, <2>4, <3>2 DEF AdmitQuick, Afforded, TypeInv
    <3>3. CASE kind[c] # "quick" /\ Afford(c)
      BY <1>0, <2>4, <3>3 DEF Afford, Afforded, TypeInv
    <3>4. QED  BY <1>2, <3>1, <3>2, <3>3
  <2>5. QED  BY <1>0, <2>2, <2>3, <2>4 DEF PurseInv
<1>3. QED  BY <1>1, <1>2 DEF Opens

LEMMA PurseNext == PurseInv /\ [Next]_vars => PurseInv'
<1> SUFFICES ASSUME PurseInv, [Next]_vars PROVE PurseInv'  OBVIOUS
<1>0. Inv /\ Inv' /\ TypeInv  BY InvNext DEF PurseInv, Inv
<1>1. CASE UNCHANGED vars  BY <1>0, <1>1, PurseStands DEF vars, paidVars, TypeInv
<1>2. CASE Steps
  <2>0. kind' = kind  BY <1>2 DEF Steps
  <2>1. ASSUME NEW c \in Jobs, Opens(c) PROVE PurseInv'  BY <1>0, <2>0, <2>1, OpensPurse
  <2>2. ASSUME NEW c \in Jobs, Worker(c) PROVE PurseInv'
    <3>1. WorkerFrame(c)  BY <1>0, <2>0, <2>2, WorkerFrames
    <3>2. status[c] # "none"  BY <1>0, <3>1 DEF WorkerFrame, Inv, Safe, RowIsCharged
    <3>3. balance' >= balance /\ UNCHANGED <<kind, proc, taken>>
      BY <1>0, <3>1, PaidRowsAssumption DEF WorkerFrame, TypeInv
    <3>4. \A j \in Jobs : /\ pc'[j] \in {"deduct", "insert"} => pc'[j] = pc[j]
                          /\ status'[j] # "none" <=> status[j] # "none"
      BY <1>0, <3>1, <3>2 DEF WorkerFrame, TypeInv
    <3>5. QED  BY <1>0, <3>3, <3>4, PurseStands
  <2>3. ASSUME NEW c \in Jobs, Late(c) PROVE PurseInv'
    BY <1>0, <2>0, <2>3, LateIs, PurseStands DEF TypeInv
  <2>4. ASSUME NEW p \in Procs, NEW c \in Jobs, Closes(p, c), UNCHANGED <<spent, empty>>
        PROVE  PurseInv'
    <3>1. status[c] # "none" \/ status' = status
      BY <1>0, <2>4 DEF Closes, Close, ReaperClose, ReaperCloseRaises
    <3>2. \A j \in Jobs : status'[j] # "none" <=> status[j] # "none"
      BY <1>0, <2>4, <3>1 DEF Closes, Close, ReaperClose, ReaperCloseRaises, TypeInv
    <3>3. UNCHANGED <<proc, taken, pc, balance>>
      BY <2>4 DEF Closes, Close, ReaperClose, ReaperCloseRaises
    <3>4. QED  BY <1>0, <2>0, <3>2, <3>3, PurseStands DEF TypeInv
  <2>5. ASSUME NEW p \in Procs, NEW c \in Jobs, Repays(p, c) PROVE PurseInv'
    <3>1. balance' >= balance  BY <1>0, <2>5, PaidRowsAssumption DEF Repays, TypeInv
    <3>2. QED  BY <1>0, <2>0, <2>5, <3>1, PurseStands DEF Repays
  <2>6. ASSUME NEW p \in Procs, Read(p), UNCHANGED <<spent, empty>> PROVE PurseInv'
    <3>1. UNCHANGED <<balance, taken, status, pc, proc>>
      BY <2>6 DEF Read, ReaperRead
    <3>2. QED  BY <1>0, <2>0, <3>1, PurseStands DEF TypeInv
  <2>7. ASSUME NEW p \in Procs, Restart(p), UNCHANGED <<spent, empty>> PROVE PurseInv'
    BY <1>0, <2>0, <2>7, PurseStands DEF Restart, TypeInv
  <2>8. QED  BY <1>2, <2>1, <2>2, <2>3, <2>4, <2>5, <2>6, <2>7 DEF Steps
<1>3. QED  BY <1>1, <1>2, NextIs

(* Whatever is ordered beside what and whoever dies: no price goes back    *)
(* twice or for work a model was called for, and one process is paid for   *)
(* all it sells and gives no more free searches a day than the cap.        *)
THEOREM PurseIsRight == Spec => []PurseHolds
<1>1. PurseInv => PurseHolds
  <2> SUFFICES ASSUME PurseInv PROVE PurseHolds  OBVIOUS
  <2>1. RefundedUnspent  BY InvRepays DEF PurseInv
  <2>2. PaidInFull  BY DEF PurseInv, PaidInFull, Afforded
  <2>3. QuickCapped  BY DEF PurseInv, QuickCapped, Counted, QuickRows, C!QuickRows
  <2>4. QED  BY <2>1, <2>2, <2>3 DEF PurseHolds
<1>2. QED  BY <1>1, PurseInit, PurseNext, PTL DEF Spec
-----------------------------------------------------------------------------
(***************************************************************************)
(* Settlement, seen by the founder of a revision or a built document.      *)
(* Revisions keep it however late they are, because their writes are       *)
(* guarded; built documents are written by id, and keep it because they    *)
(* are written in time (Overrun is FALSE): the sweep then takes only rows  *)
(* nobody builds.                                                          *)
(***************************************************************************)
BuiltInTime(c) ==
  kind[c] = "built" =>
    /\ pc[c] \notin Ended => c \notin old
    /\ pc[c] = "build" => status[c] = "building"
RevisionGuarded(c) ==
  kind[c] = "revision" /\ pc[c] \in Inside => status[c] \in {"generating", "failed"}
ContractInv == Inv /\ \A c \in Jobs : BuiltInTime(c) /\ RevisionGuarded(c)

LEMMA ContractInvNext ==
  ASSUME Overrun = FALSE, ContractInv, [Next]_vars PROVE ContractInv'
<1> DEFINE Promise(c) == BuiltInTime(c) /\ RevisionGuarded(c)
<1>0. Inv /\ Inv' /\ TypeInv /\ \A c \in Jobs : Safe(c)  BY InvNext DEF ContractInv, Inv
<1>s. ASSUME NEW c \in Jobs, Same(c), kind' = kind PROVE Promise(c)'
  BY <1>s DEF ContractInv, BuiltInTime, RevisionGuarded, Same
<1>1. CASE UNCHANGED vars
  BY <1>0, <1>1 DEF ContractInv, BuiltInTime, RevisionGuarded, vars, paidVars
<1>2. CASE Steps
  <2>0. kind' = kind  BY <1>2 DEF Steps
  <2>1. ASSUME NEW c \in Jobs, OneJob(c), Promise(c)' PROVE ContractInv'
    BY <1>0, <1>s, <2>1 DEF OneJob, ContractInv
  <2>2. ASSUME NEW c \in Jobs, Opens(c) PROVE ContractInv'
    <3>1. Safe(c) /\ BuiltInTime(c)  BY <1>0 DEF ContractInv
    <3>2. old' = old /\ pc'[c] \in Unborn \cup Ended \cup {"spawned", "match"}
      BY <1>0, <2>2 DEF Opens, AdmitQuick, Afford, Deduct, Insert, TypeInv
    <3>3. pc[c] \notin Ended
      BY <2>2 DEF Opens, AdmitQuick, Afford, Deduct, Insert
    <3>4. Promise(c)'  BY <2>0, <3>1, <3>2, <3>3 DEF BuiltInTime, RevisionGuarded
    <3>5. OneJob(c)  BY <1>0, <2>0, <2>2, OpensOne
    <3>6. QED  BY <2>1, <3>4, <3>5
  <2>3. ASSUME NEW c \in Jobs, Worker(c) PROVE ContractInv'
    <3>1. OneJob(c) /\ WorkerFrame(c)  BY <1>0, <2>0, <2>3, WorkerFrames, WorkerOne
    <3>2. Promise(c)'
      <4>1. kind[c] = "built" /\ pc[c] \notin Ended => c \notin old'
        BY <3>1 DEF WorkerFrame, ContractInv, BuiltInTime
      <4>2. CASE kind[c] = "built" /\ B!Worker(c)
        BY <1>0, <2>0, <3>1, <4>1, <4>2 DEF WorkerFrame, B!Worker, B!Begin, B!Finish, B!MarkFailed,
           BuiltInTime, RevisionGuarded, TypeInv
      <4>3. CASE kind[c] = "revision" /\ R!Worker(c)
        <5>1. RevisionGuarded(c) /\ (pc[c] = "prefix" => status[c] = "queued")
          BY <1>0 DEF ContractInv, Safe, QueuedIsYoung
        <5>2. pc'[c] \in Inside => status'[c] \in {"generating", "failed"}
          BY <1>0, <4>3, <5>1 DEF R!Worker, R!Begin, R!Mark, R!Capture, R!Reference, R!Generate,
             R!Upload, R!Unexpected, R!MarkFailed, R!WorkerRefund, RevisionGuarded, TypeInv
        <5>3. QED  BY <2>0, <4>3, <5>2 DEF BuiltInTime, RevisionGuarded
      <4>4. CASE kind[c] \notin {"built", "revision"}
        BY <2>0, <4>4 DEF BuiltInTime, RevisionGuarded
      <4>5. QED  BY <2>3, <4>2, <4>3, <4>4 DEF Worker
    <3>3. QED  BY <2>1, <3>1, <3>2
  <2>4. ASSUME NEW c \in Jobs, Late(c) PROVE ContractInv'
    <3>1. OneJob(c) /\ UNCHANGED <<pc, status>>  BY <1>0, <2>0, <2>4, LateOne, LateIs
    <3>2. BuiltInTime(c) /\ RevisionGuarded(c) /\ Safe(c)  BY <1>0 DEF ContractInv
    <3>3. kind[c] = "built" => pc[c] \in {"idle", "done", "lost"} /\ status[c] # "none"
      BY <2>4, LateIs DEF Resting
    <3>4. Promise(c)'
      BY <2>0, <3>1, <3>2, <3>3 DEF BuiltInTime, RevisionGuarded, Safe, RowIsCharged
    <3>5. QED  BY <2>1, <3>1, <3>4
  <2>5. ASSUME NEW p \in Procs, NEW c \in Jobs, Closes(p, c), UNCHANGED <<spent, empty>>
        PROVE  ContractInv'
    <3>1. OneJob(c)  BY <1>0, <2>0, <2>5, CloseOne
    <3>2. UNCHANGED <<pc, old>> /\ status'[c] \in {status[c], "failed"} /\ found[p][c] # "none"
      BY <1>0, <2>5 DEF Closes, Close, ReaperClose, ReaperCloseRaises, TypeInv
    <3>3. c \in old /\ BuiltInTime(c) /\ RevisionGuarded(c)
      BY <1>0, <3>2 DEF ContractInv, Safe, QueuedIsYoung
    <3>4. Promise(c)'  BY <2>0, <3>2, <3>3 DEF BuiltInTime, RevisionGuarded
    <3>5. QED  BY <2>1, <3>1, <3>4
  <2>6. ASSUME NEW p \in Procs, NEW c \in Jobs, Repays(p, c) PROVE ContractInv'
    <3>1. OneJob(c)  BY <1>0, <2>0, <2>6, RepayOne
    <3>2. Promise(c)'
      BY <2>0, <2>6 DEF Repays, ContractInv, BuiltInTime, RevisionGuarded
    <3>3. QED  BY <2>1, <3>1, <3>2
  <2>7. ASSUME NEW p \in Procs, Read(p) PROVE ContractInv'
    <3>1. UNCHANGED <<pc, old, status>>  BY <2>7 DEF Read, ReaperRead
    <3>2. QED  BY <1>0, <2>0, <3>1 DEF ContractInv, BuiltInTime, RevisionGuarded
  <2>8. ASSUME NEW p \in Procs, Restart(p) PROVE ContractInv'
    <3>1. UNCHANGED <<old, status>> /\ \A c \in Jobs : pc'[c] \in {pc[c], "lost"}
      BY <1>0, <2>8 DEF Restart, TypeInv
    <3>2. QED  BY <1>0, <2>0, <3>1 DEF ContractInv, BuiltInTime, RevisionGuarded
  <2>9. QED  BY <1>2, <2>2, <2>3, <2>4, <2>5, <2>6, <2>7, <2>8 DEF Steps
<1>3. QED  BY <1>1, <1>2, NextIs
State  == [x \in Jobs |-> StateOf(x)]
SpentP == {x \in spent : Promised(x)}
RefP   == [x \in Jobs |-> IF Promised(x) THEN refunds[x] ELSE 0]
Keeps(c)  == StateOf(c)' = StateOf(c)
Stays(c)  == (c \in spent' <=> c \in spent) /\ refunds'[c] = refunds[c]

(* What a step about job c may do to it.                                   *)
Contracted(c) ==
  \/ ~Promised(c)
  \/ Keeps(c) /\ Stays(c)
  \/ StateOf(c) = "unpaid" /\ StateOf(c)' = "open" /\ Stays(c)
  \/ StateOf(c) = "open" /\ StateOf(c)' \in {"delivered", "closed"} /\ Stays(c)
  \/ /\ StateOf(c) \in {"open", "closed"} /\ Keeps(c) /\ refunds[c] = 0
     /\ c \in spent' /\ refunds'[c] = refunds[c]
  \/ /\ StateOf(c) = "closed" /\ Keeps(c) /\ c \notin spent /\ refunds[c] = 0
     /\ refunds'[c] = 1 /\ (c \in spent' <=> c \in spent)

(* A step that moves one job along the contract, or not at all, is a step  *)
(* of Settlement or a stutter.                                             *)
LEMMA ContractStep ==
  ASSUME TypeInv, TypeInv', NEW c \in Jobs, OneJob(c), Contracted(c)
  PROVE  [Contract!Next]_(Contract!settlement)
<1>0. kind' = kind /\ (Promised(c)' <=> Promised(c))  BY DEF OneJob, Promised
<1>1. State' = [State EXCEPT ![c] = StateOf(c)'] /\ State[c] = StateOf(c)
  <2>1. \A d \in Jobs \ {c} : StateOf(d)' = StateOf(d)
    BY <1>0 DEF OneJob, Same, StateOf, Promised
  <2>2. QED  BY <2>1 DEF State
<1>2. \A d \in Jobs \ {c} : (d \in SpentP' <=> d \in SpentP) /\ RefP'[d] = RefP[d]
  BY <1>0 DEF OneJob, Same, SpentP, RefP, Promised
<1>3. /\ SpentP \subseteq Jobs /\ SpentP' \subseteq Jobs
      /\ RefP \in [Jobs -> Nat] /\ RefP' \in [Jobs -> Nat]
  BY DEF TypeInv, SpentP, RefP
<1>4. Keeps(c) => State' = State
  <2>1. State = [x \in Jobs |-> State[x]]  BY DEF State
  <2>2. QED  BY <1>1, <2>1 DEF Keeps, State
<1>5. Stays(c) => SpentP' = SpentP /\ RefP' = RefP
  <2>1. ASSUME Stays(c) PROVE (c \in SpentP' <=> c \in SpentP) /\ RefP'[c] = RefP[c]
    BY <1>0, <2>1 DEF Stays, SpentP, RefP
  <2>2. QED  BY <1>2, <1>3, <2>1
<1> USE DEF Contract!Next, Contract!settlement
<1>6. CASE ~Promised(c)
  <2>1. StateOf(c)' = StateOf(c)  BY <1>0, <1>6 DEF StateOf
  <2>2. (c \in SpentP' <=> c \in SpentP) /\ RefP'[c] = RefP[c]
    BY <1>0, <1>6 DEF SpentP, RefP
  <2>3. State' = State /\ SpentP' = SpentP /\ RefP' = RefP
    BY <1>2, <1>3, <1>4, <2>1, <2>2 DEF Keeps
  <2>4. QED  BY <2>3 DEF State, SpentP, RefP
<1>7. CASE Keeps(c) /\ Stays(c)
  BY <1>4, <1>5, <1>7 DEF State, SpentP, RefP
<1>8. CASE StateOf(c) = "unpaid" /\ StateOf(c)' = "open" /\ Stays(c)
  BY <1>1, <1>5, <1>8 DEF State, SpentP, RefP, Contract!Charge, Contract!Move
<1>9. CASE StateOf(c) = "open" /\ StateOf(c)' \in {"delivered", "closed"} /\ Stays(c)
  BY <1>1, <1>5, <1>9 DEF State, SpentP, RefP, Contract!Deliver, Contract!Close, Contract!Move
<1>10. CASE Promised(c) /\ StateOf(c) \in {"open", "closed"} /\ Keeps(c) /\ refunds[c] = 0
            /\ c \in spent' /\ refunds'[c] = refunds[c]
  <2>1. State' = State /\ State[c] \in {"open", "closed"}  BY <1>1, <1>4, <1>10
  <2>2. c \in SpentP' /\ RefP[c] = 0 /\ RefP'[c] = 0  BY <1>0, <1>10 DEF SpentP, RefP
  <2>3. SpentP' = SpentP \cup {c} /\ RefP' = RefP  BY <1>2, <1>3, <2>2
  <2>4. QED  BY <2>1, <2>2, <2>3 DEF State, SpentP, RefP, Contract!Spend
<1>11. CASE Promised(c) /\ StateOf(c) = "closed" /\ Keeps(c) /\ c \notin spent /\ refunds[c] = 0
            /\ refunds'[c] = 1 /\ (c \in spent' <=> c \in spent)
  <2>1. State' = State /\ State[c] = "closed"  BY <1>1, <1>4, <1>11
  <2>2. c \notin SpentP /\ c \notin SpentP' /\ RefP[c] = 0 /\ RefP'[c] = 1
    BY <1>0, <1>11 DEF SpentP, RefP
  <2>3. SpentP' = SpentP /\ RefP' = [RefP EXCEPT ![c] = 1]  BY <1>2, <1>3, <2>2
  <2>4. QED  BY <2>1, <2>2, <2>3 DEF State, SpentP, RefP, Contract!Refund
<1>12. QED  BY <1>6, <1>7, <1>8, <1>9, <1>10, <1>11 DEF Contracted

(* The request pays; the worker begins, delivers or closes, or repays what *)
(* it closed.                                                              *)
LEMMA FounderContracted ==
  ASSUME ContractInv, NEW c \in Jobs, Opens(c) \/ Worker(c), kind' = kind PROVE Contracted(c)
<1>0. Safe(c) /\ TypeInv /\ BuiltInTime(c) /\ RevisionGuarded(c)  BY DEF ContractInv, Inv
<1> USE <1>0 DEF TypeInv, Contracted, Keeps, Stays, StateOf, Promised
<1>1. CASE Opens(c)
  <2> USE <1>1 DEF Opens, Safe, RowIsCharged
  <2>1. CASE AdmitQuick(c)  BY <2>1 DEF AdmitQuick
  <2>2. CASE kind[c] # "quick" /\ Afford(c)  BY <2>2 DEF Afford
  <2>3. CASE Deduct(c)  BY <2>3 DEF Deduct
  <2>4. CASE kind[c] # "shortlist" /\ Insert(c, "queued", "spawned")  BY <2>4 DEF Insert
  <2>5. CASE kind[c] = "shortlist" /\ Insert(c, "building", "match")  BY <2>5 DEF Insert
  <2>6. QED  BY <2>1, <2>2, <2>3, <2>4, <2>5
<1>2. CASE kind[c] = "revision" /\ R!Worker(c)
  <2> USE <1>2 DEF Safe, RowIsCharged, QueuedIsYoung, RepaidOnce, SpentIsLate, RevisionGuarded
  <2>1. CASE R!Begin(c)       BY <2>1 DEF R!Begin
  <2>2. CASE R!Mark(c)        BY <2>2 DEF R!Mark
  <2>3. CASE R!Capture(c)     BY <2>3 DEF R!Capture
  <2>4. CASE R!Reference(c)   BY <2>4 DEF R!Reference
  <2>5. CASE R!Generate(c)    BY <2>5 DEF R!Generate
  <2>6. CASE R!Upload(c)      BY <2>6 DEF R!Upload
  <2>7. CASE R!Unexpected(c)  BY <2>7 DEF R!Unexpected, R!Working
  <2>8. CASE R!MarkFailed(c)  BY <2>8 DEF R!MarkFailed
  <2>9. CASE R!WorkerRefund(c) /\ UNCHANGED spent
    BY <2>9 DEF R!WorkerRefund, DebtIsOpen, Owed
  <2>10. QED
    BY <2>1, <2>2, <2>3, <2>4, <2>5, <2>6, <2>7, <2>8, <2>9 DEF R!Worker
<1>3. CASE kind[c] = "built" /\ B!Worker(c)
  <2> USE <1>3 DEF Safe, RowIsCharged, QueuedIsYoung, RepaidOnce, BuiltInTime
  <2>1. CASE B!Begin(c)       BY <2>1 DEF B!Begin
  <2>2. CASE B!Finish(c)      BY <2>2 DEF B!Finish
  <2>3. CASE B!MarkFailed(c)  BY <2>3 DEF B!MarkFailed
  <2>4. QED  BY <2>1, <2>2, <2>3 DEF B!Worker
<1>4. QED  BY <1>1, <1>2, <1>3 DEF Worker

(* What the sweep closes was open, what it repays was closed.              *)
LEMMA SweepContracted ==
  ASSUME ContractInv, kind' = kind, NEW p \in Procs, NEW c \in Jobs,
         (Closes(p, c) /\ UNCHANGED <<spent, empty>>) \/ Repays(p, c)
  PROVE  Contracted(c)
<1>0. Safe(c) /\ TypeInv  BY DEF ContractInv, Inv
<1> USE <1>0 DEF TypeInv, Contracted, Keeps, Stays, StateOf, Promised
<1>1. CASE Closes(p, c) /\ UNCHANGED <<spent, empty>>
  <2>1. UNCHANGED <<refunds, charged, spent>> /\ found[p][c] # "none"
    BY <1>1 DEF Closes, Close, ReaperClose, ReaperCloseRaises
  <2>2. \/ status' = status
        \/ status[c] = found[p][c] /\ status' = [status EXCEPT ![c] = "failed"]
    BY <1>1 DEF Closes, Close, ReaperClose, ReaperCloseRaises
  <2>3. CASE status' = status  BY <2>1, <2>3
  <2>4. CASE status[c] = found[p][c] /\ status' = [status EXCEPT ![c] = "failed"]
    <3>1. found[p][c] \in Live  BY <2>1
    <3>2. status[c] \in Live /\ status'[c] = "failed"  BY <2>4, <3>1
    <3>3. QED  BY <2>1, <3>2 DEF Safe, RowIsCharged
  <2>5. QED  BY <2>2, <2>3, <2>4
<1>2. CASE Repays(p, c)
  BY <1>2 DEF Repays, Safe, DebtIsOpen, Owed
<1>3. QED  BY <1>1, <1>2

LEMMA ContractNext ==
  ASSUME ContractInv, [Next]_vars PROVE [Contract!Next]_(Contract!settlement)
<1>0. Inv /\ TypeInv /\ TypeInv'  BY InvNext DEF ContractInv, Inv
<1>1. CASE UNCHANGED <<status, charged, spent, refunds, kind>>
  BY <1>1 DEF StateOf, Promised, Contract!settlement
<1>2. CASE Steps
  <2>0. kind' = kind  BY <1>2 DEF Steps
  <2>1. ASSUME NEW c \in Jobs, Opens(c) PROVE [Contract!Next]_(Contract!settlement)
    BY <1>0, <2>0, <2>1, OpensOne, FounderContracted, ContractStep
  <2>2. ASSUME NEW c \in Jobs, Worker(c) PROVE [Contract!Next]_(Contract!settlement)
    <3>1. OneJob(c)  BY <1>0, <2>0, <2>2, WorkerFrames, WorkerOne
    <3>2. QED  BY <1>0, <2>0, <2>2, <3>1, FounderContracted, ContractStep
  <2>3. ASSUME NEW p \in Procs, NEW c \in Jobs, Closes(p, c), UNCHANGED <<spent, empty>>
        PROVE  [Contract!Next]_(Contract!settlement)
    BY <1>0, <2>0, <2>3, CloseOne, SweepContracted, ContractStep
  <2>4. ASSUME NEW p \in Procs, NEW c \in Jobs, Repays(p, c)
        PROVE  [Contract!Next]_(Contract!settlement)
    BY <1>0, <2>0, <2>4, RepayOne, SweepContracted, ContractStep
  <2>5. CASE \E c \in Jobs : Late(c)
    <3>1. UNCHANGED <<status, charged, spent, refunds>>  BY <2>5, LateIs
    <3>2. QED  BY <1>1, <2>0, <3>1
  <2>6. ASSUME NEW p \in Procs, (Read(p) \/ Restart(p)) /\ UNCHANGED <<spent, empty>>
        PROVE  [Contract!Next]_(Contract!settlement)
    <3>1. UNCHANGED <<status, charged, spent, refunds>>
      BY <2>6 DEF Read, ReaperRead, Restart
    <3>2. QED  BY <1>1, <2>0, <3>1
  <2>7. QED  BY <1>2, <2>1, <2>2, <2>3, <2>4, <2>5, <2>6 DEF Steps
<1>3. QED  BY <1>0, <1>1, <1>2, NextIs DEF vars, paidVars

LEMMA ContractInit == Init => ContractInv /\ Contract!Init
<1> SUFFICES ASSUME Init PROVE ContractInv /\ Contract!Init  OBVIOUS
<1>1. \A c \in Jobs : pc[c] = "idle" /\ status[c] = "none" /\ c \notin old
                      /\ c \notin charged /\ refunds[c] = 0
  BY DEF Init, PaidInit
<1>2. ContractInv
  BY <1>1, InvInit DEF ContractInv, BuiltInTime, RevisionGuarded
<1>3. \A c \in Jobs : StateOf(c) = "unpaid"  BY <1>1 DEF StateOf
<1>4. Contract!Init  BY <1>1, <1>3 DEF Init, Contract!Init
<1>5. QED  BY <1>2, <1>4

(* When built documents are written in time, revisions and built documents *)
(* implement Settlement, whatever is ordered beside them.                  *)
THEOREM ArtifactsSettle == ASSUME Overrun = FALSE PROVE Spec => Settles
<1>1. ContractInv /\ [Next]_vars => ContractInv'  BY ContractInvNext
<1>2. ContractInv /\ [Next]_vars => [Contract!Next]_(Contract!settlement)  BY ContractNext
<1>3. QED  BY <1>1, <1>2, ContractInit, PTL DEF Spec, Settles, Contract!Spec
=============================================================================
