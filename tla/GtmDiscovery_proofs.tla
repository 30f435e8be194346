-------------------------- MODULE GtmDiscovery_proofs --------------------------
(***************************************************************************)
(* Proofs about GtmDiscovery, for any searches, queries, clients and       *)
(* processes, with outages and deaths: what a row says was given back is   *)
(* what the balance got back, a run that closed has kept the price of what *)
(* it delivered, and in one process no run gives back more than it took.   *)
(***************************************************************************)
EXTENDS GtmDiscovery, FiniteSetTheorems, TLAPS

USE DEF Actors, Sync, Stages, PCs, row, cash, At, Goto

Statuses == {"none", "running", "completed", "partial", "failed"}
Open   == {"none", "running"}
Asked  == {"idle", "refused", "deduct", "create"}   \* before create_run
Paying == {"batch", "deadline", "outage"}           \* between create_run and finish_run

-----------------------------------------------------------------------------
TypeInv ==
  /\ balance \in Nat /\ deaths \in Nat
  /\ status \in [Discoveries -> Statuses] /\ counted \in [Discoveries -> Count]
  /\ settled \subseteq Discoveries /\ old \subseteq Discoveries
  /\ refunded \in [Discoveries -> Nat]
  /\ taken \in [Discoveries -> Nat] /\ returned \in [Discoveries -> Nat]
  /\ query \in [Discoveries -> [Queries -> Stages]]
  /\ pc \in [Actors -> PCs] /\ proc \in [Actors -> Procs]
  /\ DOMAIN of = Actors /\ quoted \in [Actors -> Nat]
  /\ \A a \in Actors : pc[a] = "refund" => of[a] \in Discoveries
  /\ \A r \in Discoveries : of[r] = r

(* The queries that delivered are counted within the price list, and the   *)
(* price list never asks less for more: what is owed back is a price.      *)
LEMMA DeliveredIsCounted ==
  ASSUME NEW r \in Discoveries PROVE Delivered(r) \in Count
<1> DEFINE D == {q \in Queries : query[r][q] = "delivered"}
<1>1. IsFiniteSet(Queries) /\ D \subseteq Queries  BY DiscoveryAssumption
<1>2. Cardinality(Queries) \in Nat /\ Cardinality(D) \in Nat
      /\ Cardinality(D) <= Cardinality(Queries)
  BY <1>1, FS_Subset, FS_CardinalityType
<1>3. QED  BY <1>2 DEF Delivered, Count

LEMMA OwedIsAPrice ==
  /\ Charge \in Nat
  /\ \A n \in Count : CostOf[n] \in Nat /\ Owed(n) \in Nat /\ Owed(n) <= Charge
                      /\ Charge - Owed(n) = CostOf[n]
<1>1. Cardinality(Queries) \in Nat  BY DiscoveryAssumption, FS_CardinalityType
<1>2. Cardinality(Queries) \in Count /\ 0 \in Count
      /\ \A n \in Count : n <= Cardinality(Queries)
  BY <1>1 DEF Count
<1>3. \A n \in Count : CostOf[n] \in Nat /\ CostOf[n] <= CostOf[Cardinality(Queries)]
  BY <1>2, DiscoveryAssumption
<1>4. CostOf[Cardinality(Queries)] \in Nat  BY <1>2, <1>3
<1>5. QED  BY <1>3, <1>4 DEF Owed, Charge

(* A discovery is its own row, whoever it is asked of.                     *)
LEMMA OwnRow == \A r \in Discoveries : Own(r) = r
BY DEF Own

LEMMA TypeInit == Init => TypeInv
<1> SUFFICES ASSUME Init PROVE TypeInv  OBVIOUS
<1> USE DiscoveryAssumption, OwnRow DEF Init
<1>1. 0 \in Count  BY FS_CardinalityType DEF Count
<1>2. QED  BY <1>1 DEF TypeInv, Statuses

(* Every step keeps the types.                                             *)
LEMMA TypeNext == TypeInv /\ [Next]_vars => TypeInv'
<1> SUFFICES ASSUME TypeInv, [Next]_vars PROVE TypeInv'  OBVIOUS
<1> USE DiscoveryAssumption, OwnRow, OwedIsAPrice, DeliveredIsCounted DEF TypeInv, Statuses
<1>1. ASSUME NEW r \in Discoveries, Check(r) PROVE TypeInv'  BY <1>1 DEF Check
<1>2. ASSUME NEW r \in Discoveries, Deduct(r) PROVE TypeInv'
  <2>1. taken' \in [Discoveries -> Nat] /\ balance' \in Nat
    <3>1. Charge \in Nat /\ balance \in Nat  OBVIOUS
    <3>2. \A n \in Nat : [taken EXCEPT ![r] = n] \in [Discoveries -> Nat]  OBVIOUS
    <3> HIDE DiscoveryAssumption, OwnRow, OwedIsAPrice, DeliveredIsCounted DEF TypeInv
    <3>3. QED  BY <1>2, <3>1, <3>2 DEF Deduct
  <2>2. QED  BY <1>2, <2>1 DEF Deduct
<1>3. ASSUME NEW r \in Discoveries, Create(r) PROVE TypeInv'
  <2>0. query' = query \/ query' = [query EXCEPT ![r] = [q \in Queries |-> "gone"]]
    BY <1>3 DEF Create
  <2>5. query' \in [Discoveries -> [Queries -> Stages]]
    <3>1. [q \in Queries |-> "gone"] \in [Queries -> Stages]  BY DEF Stages
    <3>2. QED  BY <2>0, <3>1
  <2>1. status' = status \/ status' = [status EXCEPT ![r] = "running"]  BY <1>3 DEF Create, Opened
  <2>6. status' \in [Discoveries -> Statuses]  BY <2>1
  <2>2. pc' \in [Actors -> PCs]
    <3>1. pc' = [pc EXCEPT ![r] = "batch"] \/ pc' = [pc EXCEPT ![r] = "raised"]
      BY <1>3 DEF Create, Goto
    <3>2. QED  BY <3>1 DEF PCs
  <2>3. \A a \in Actors : pc'[a] = "refund" => of'[a] \in Discoveries  BY <1>3 DEF Create
  <2>4. QED  BY <1>3, <2>5, <2>6, <2>2, <2>3 DEF Create
<1>4. ASSUME NEW r \in Discoveries, Batch(r) PROVE TypeInv'
  <2>1. ASSUME NEW q \in Queries, Search(r, q) PROVE TypeInv'  BY <2>1 DEF Search, End
  <2>2. ASSUME NEW q \in Queries, Unavailable(r, q) PROVE TypeInv'
    BY <2>2 DEF Unavailable, End
  <2>3. QED  BY <1>4, <2>1, <2>2 DEF Batch
<1>5. ASSUME NEW r \in Discoveries, Deadline(r) PROVE TypeInv'  BY <1>5 DEF Deadline
<1>6. ASSUME NEW r \in Discoveries, Finish(r) PROVE TypeInv'
  <2>1. Counters(r) \in Count /\ Owed(Counters(r)) \in Nat  BY DEF Counters
  <2>2. QED  BY <1>6, <2>1 DEF Finish, Outcome
<1>7. ASSUME NEW r \in Discoveries, FinishRaises(r) PROVE TypeInv'
  BY <1>7 DEF FinishRaises
<1>8. ASSUME NEW r \in Discoveries, Age(r) \/ Reap(r) PROVE TypeInv'
  BY <1>8 DEF Age, Reap
<1>9. ASSUME NEW c \in Clients, Ask(c) PROVE TypeInv'  BY <1>9 DEF Ask
<1>10. ASSUME NEW a \in Actors, Refund(a) PROVE TypeInv'
  <2>1. of[a] \in Discoveries /\ quoted[a] \in Nat  BY <1>10 DEF Refund
  <2>2. /\ settled' \subseteq Discoveries /\ balance' \in Nat
        /\ refunded' \in [Discoveries -> Nat] /\ returned' \in [Discoveries -> Nat]
    BY <1>10, <2>1 DEF Refund, PayBack
  <2>3. QED  BY <1>10, <2>2 DEF Refund, Rest
<1>11. ASSUME NEW a \in Actors, RefundUnavailable(a) PROVE TypeInv'
  BY <1>11 DEF RefundUnavailable, Rest
<1>12. ASSUME NEW p \in Procs, Restart(p) PROVE TypeInv'  BY <1>12 DEF Restart
<1>13. CASE UNCHANGED vars  BY <1>13 DEF vars
<1>14. QED
  BY <1>1, <1>2, <1>3, <1>4, <1>5, <1>6, <1>7, <1>8, <1>9, <1>10, <1>11, <1>12, <1>13
     DEF Next, Serve, Close, Settle

-----------------------------------------------------------------------------
(***************************************************************************)
(* Why a settlement pays for delivery.  A run is priced once it is closed, *)
(* by the counters it closed with, and from then on nothing moves its row: *)
(* the reaper takes only rows whose search is gone, and the queries of a   *)
(* run that closed otherwise than by an outage are all over.               *)
(***************************************************************************)
AllOver(r) == \A q \in Queries : query[r][q] # "waiting"
Phase(r) ==
  /\ pc[r] \in Asked => status[r] = "none"
  /\ pc[r] \in Paying => status[r] = "running"
  /\ r \in old => pc[r] \in {"dead", "raised"}
  /\ pc[r] = "deadline" => AllOver(r)
  /\ status[r] \in {"completed", "partial"} => AllOver(r) /\ counted[r] = Delivered(r)
Accounted(r) ==
  /\ returned[r] = refunded[r]
  /\ r \in settled => status[r] \notin Open /\ refunded[r] = Owed(counted[r])
  /\ r \notin settled => refunded[r] = 0
(* Whoever is about to pay a run back holds what its closed row says.      *)
Owing(a) ==
  pc[a] = "refund" => status[of[a]] \notin Open /\ quoted[a] = Owed(counted[of[a]])
SettleInv ==
  /\ TypeInv
  /\ \A r \in Discoveries : Phase(r) /\ Accounted(r)
  /\ \A a \in Actors : Owing(a)

(* A step that changes neither the rows nor how a query ended, and sends   *)
(* nobody to pay.                                                          *)
LEMMA RowsStand ==
  ASSUME SettleInv, TypeInv', UNCHANGED <<row, returned, query, old>>,
         \A r \in Discoveries :
           /\ pc'[r] \in Asked => pc[r] \in Asked
           /\ pc'[r] \in Paying => pc[r] \in Paying
           /\ pc'[r] = "deadline" => pc[r] = "deadline"
           /\ pc[r] \in {"dead", "raised"} => pc'[r] \in {"dead", "raised"},
         \A a \in Actors : pc'[a] = "refund" =>
           pc[a] = "refund" /\ of'[a] = of[a] /\ quoted'[a] = quoted[a]
  PROVE  SettleInv'
<1> USE DEF SettleInv
<1>1. \A r \in Discoveries : Phase(r)'  BY DEF Phase, AllOver, Delivered
<1>2. \A r \in Discoveries : Accounted(r)'  BY DEF Accounted, Owed
<1>3. \A a \in Actors : Owing(a)'  BY DEF Owing, Owed
<1>4. QED  BY <1>1, <1>2, <1>3

(* What a query's end leaves: it was waiting, so its run was not closed as *)
(* complete or partial.                                                    *)
LEMMA QueryEnds ==
  ASSUME SettleInv, TypeInv', NEW r \in Discoveries, NEW q \in Queries, NEW to \in Stages \ {"waiting"},
         End(r, q, to), UNCHANGED <<row, cash, of, quoted, old>>,
         \/ UNCHANGED pc
         \/ pc[r] = "batch" /\ pc' = [pc EXCEPT ![r] = "outage"]
  PROVE  SettleInv'
<1> USE DEF SettleInv
<1>1. query[r][q] = "waiting" /\ status[r] \notin {"completed", "partial"} /\ pc[r] # "deadline"
  BY DEF End, Phase, AllOver
<1>2. \A s \in Discoveries : s # r => query'[s] = query[s]  BY DEF End, TypeInv
<1>3. \A s \in Discoveries : s # r => Phase(s)'
  <2>1. \A s \in Discoveries : s # r => Delivered(s)' = Delivered(s) /\ (AllOver(s))' = AllOver(s)
    BY <1>2 DEF Delivered, AllOver
  <2>2. \A s \in Discoveries : s # r => pc'[s] = pc[s]  BY DEF TypeInv
  <2>3. QED  BY <2>1, <2>2 DEF Phase
<1>4. Phase(r)'  BY <1>1 DEF Phase, Asked, Paying, TypeInv
<1>5. \A s \in Discoveries : Accounted(s)'  BY DEF Accounted, Owed
<1>6. \A a \in Actors : Owing(a)'  BY DEF Owing, Owed, TypeInv
<1>7. QED  BY <1>3, <1>4, <1>5, <1>6

(* finish_run writes the counters and the price is taken from them.        *)
LEMMA FinishPrices ==
  ASSUME SettleInv, TypeInv', NEW r \in Discoveries, Finish(r) PROVE SettleInv'
<1> USE DEF SettleInv
<1>1. status[r] = "running" /\ r \notin settled /\ r \notin old
  BY DEF Finish, Over, Phase, Paying, Accounted, Open
<1>2. status'[r] \in {"completed", "partial", "failed"} /\ counted'[r] = Delivered(r)
  BY DEF Finish, Outcome, Counters, TypeInv
<1>3. status'[r] \in {"completed", "partial"} => AllOver(r)
  <2>1. CASE pc[r] = "outage"
    <3>1. Outcome(r) = "failed"  BY <2>1 DEF Outcome
    <3>2. QED  BY <3>1 DEF Finish, TypeInv
  <2>2. CASE pc[r] = "deadline"  BY <2>2 DEF Phase
  <2>3. CASE pc[r] = "batch"  BY <2>3 DEF Finish, Over, AllOver
  <2>4. QED  BY <2>1, <2>2, <2>3 DEF Finish, Over
<1>4. Phase(r)'
  <2>1. Delivered(r)' = Delivered(r) /\ (AllOver(r))' = AllOver(r)  BY DEF Finish, Delivered, AllOver
  <2>2. pc'[r] = "refund"  BY DEF Finish, TypeInv
  <2>3. QED  BY <1>1, <1>2, <1>3, <2>1, <2>2 DEF Phase, Asked, Paying, Finish
<1>5. \A s \in Discoveries : s # r => /\ status'[s] = status[s] /\ counted'[s] = counted[s]
                                      /\ pc'[s] = pc[s]
  BY DEF Finish, TypeInv
<1>6. \A s \in Discoveries : s # r => Phase(s)'
  <2>1. \A s \in Discoveries : Delivered(s)' = Delivered(s) /\ (AllOver(s))' = AllOver(s)
    BY DEF Finish, Delivered, AllOver
  <2>2. QED  BY <1>5, <2>1 DEF Phase, Finish
<1>7. \A s \in Discoveries : Accounted(s)'
  BY <1>1, <1>5 DEF Accounted, Owed, Finish
<1>8. Owing(r)'
  <2>1. of'[r] = r /\ quoted'[r] = Owed(Counters(r)) /\ counted'[r] = Counters(r)
    BY DEF Finish, TypeInv
  <2>2. QED  BY <1>2, <2>1 DEF Owing, Open, Owed
<1>9. \A a \in Actors : a # r => Owing(a)'
  <2>1. \A a \in Actors : a # r => pc'[a] = pc[a] /\ of'[a] = of[a] /\ quoted'[a] = quoted[a]
    BY DEF Finish, TypeInv
  <2>2. \A a \in Actors : a # r /\ pc[a] = "refund" => of[a] # r /\ of[a] \in Discoveries
    BY <1>1 DEF Owing, Open, TypeInv
  <2>3. QED  BY <1>5, <2>1, <2>2 DEF Owing, Owed
<1>10. QED  BY <1>4, <1>6, <1>7, <1>8, <1>9

(* refund_discovery_credits claims the row and pays in one transaction.    *)
LEMMA RefundOnce ==
  ASSUME SettleInv, TypeInv', NEW a \in Actors, Refund(a) PROVE SettleInv'
<1> USE DEF SettleInv
<1>0. /\ pc[a] = "refund" /\ of[a] \in Discoveries
      /\ status[of[a]] \notin Open /\ quoted[a] = Owed(counted[of[a]])
  BY DEF Refund, Owing, TypeInv
<1>1. pc'[a] \in {"idle", "done"} /\ (a \in Discoveries => pc'[a] = "done")
  BY DiscoveryAssumption DEF Refund, Rest, TypeInv
<1>2. \A b \in Actors : b # a => pc'[b] = pc[b] /\ of'[b] = of[b] /\ quoted'[b] = quoted[b]
  BY DEF Refund, Rest, TypeInv
<1>3. \A r \in Discoveries : Phase(r)'
  <2>1. UNCHANGED <<status, counted, query, old>>  BY DEF Refund
  <2>2. \A r \in Discoveries : pc'[r] = pc[r] \/ (r = a /\ pc[r] = "refund" /\ pc'[r] = "done")
    BY <1>0, <1>1, <1>2
  <2>3. \A r \in Discoveries : Delivered(r)' = Delivered(r) /\ (AllOver(r))' = AllOver(r)
    BY <2>1 DEF Delivered, AllOver
  <2>4. QED  BY <2>1, <2>2, <2>3 DEF Phase, Asked, Paying
<1>4. \A b \in Actors : Owing(b)'
  <2>1. UNCHANGED <<status, counted>>  BY DEF Refund
  <2>2. QED  BY <1>1, <1>2, <2>1 DEF Owing, Owed
<1>5. \A r \in Discoveries : Accounted(r)'
  <2>1. CASE of[a] \in settled
    <3>1. UNCHANGED <<settled, refunded, returned, status, counted>>  BY <2>1 DEF Refund, Claimed
    <3>2. QED  BY <3>1 DEF Accounted, Owed
  <2>2. CASE of[a] \notin settled
    <3>1. PayBack(of[a], quoted[a]) /\ UNCHANGED <<status, counted>>
      BY <2>2 DEF Refund, Claimed
    <3>2. refunded'[of[a]] = quoted[a] /\ returned'[of[a]] = quoted[a] /\ of[a] \in settled'
      BY <1>0, <2>2, <3>1 DEF PayBack, Accounted, TypeInv
    <3>3. \A r \in Discoveries : r # of[a] =>
            /\ refunded'[r] = refunded[r] /\ returned'[r] = returned[r]
            /\ r \in settled' <=> r \in settled
      BY <3>1 DEF PayBack, TypeInv
    <3>4. QED  BY <1>0, <3>1, <3>2, <3>3 DEF Accounted, Owed
  <2>3. QED  BY <2>1, <2>2
<1>6. QED  BY <1>3, <1>4, <1>5

(* create_run: the row is new, nobody reads it yet.                        *)
LEMMA RowOpens ==
  ASSUME SettleInv, TypeInv', NEW r \in Discoveries, Create(r),
         Opened(r), NEW to \in {"batch", "raised"}, Goto(r, to)
  PROVE  SettleInv'
<1> USE DEF SettleInv
<1>1. status[r] = "none" /\ r \notin settled /\ r \notin old
  BY DEF Create, Phase, Asked, Accounted, Open
<1>a. \A s \in Discoveries : s # r => query'[s] = query[s]  BY DEF Create, TypeInv
<1>2. \A s \in Discoveries :
        s # r => Delivered(s)' = Delivered(s) /\ (AllOver(s))' = AllOver(s)
  BY <1>a DEF Delivered, AllOver
<1>3. status'[r] = "running" /\ pc'[r] = to  BY DEF TypeInv, Opened, Goto
<1>4. \A s \in Discoveries : s # r => status'[s] = status[s]  BY DEF TypeInv, Opened
<1>5. \A a \in Actors : a # r => pc'[a] = pc[a]  BY DEF TypeInv, Goto
<1>6. \A s \in Discoveries : Phase(s)'
  BY <1>1, <1>2, <1>3, <1>4, <1>5 DEF Create, Phase, Asked, Paying
<1>7. \A s \in Discoveries : Accounted(s)'
  BY <1>1, <1>3, <1>4 DEF Create, Accounted, Owed
<1>8. \A a \in Actors : Owing(a)'
  <2>1. \A a \in Actors : pc[a] = "refund" => of[a] # r /\ of[a] \in Discoveries
    BY <1>1 DEF Owing, Open, TypeInv
  <2>2. QED  BY <1>3, <1>4, <1>5, <2>1 DEF Create, Owing, Owed
<1>9. QED  BY <1>6, <1>7, <1>8

(* The deadline cancels what still waits: the run closes on what is over.  *)
LEMMA DeadlineCancels ==
  ASSUME SettleInv, TypeInv', NEW r \in Discoveries, Deadline(r) PROVE SettleInv'
<1> USE DEF SettleInv
<1>1. /\ pc[r] = "batch" /\ status[r] = "running" /\ r \notin old
      /\ pc'[r] = "deadline" /\ (AllOver(r))'
  BY DEF Deadline, Phase, Paying, AllOver, TypeInv
<1>2. \A s \in Discoveries : s # r => pc'[s] = pc[s] /\ query'[s] = query[s]
  BY DEF Deadline, TypeInv
<1>3. \A s \in Discoveries : s # r => Delivered(s)' = Delivered(s) /\ (AllOver(s))' = AllOver(s)
  BY <1>2 DEF Delivered, AllOver
<1>4. \A s \in Discoveries : Phase(s)'
  BY <1>1, <1>2, <1>3 DEF Deadline, Phase, Asked, Paying
<1>5. \A s \in Discoveries : Accounted(s)'  BY DEF Deadline, Accounted, Owed
<1>6. \A a \in Actors : Owing(a)'  BY DEF Deadline, Owing, Owed, TypeInv
<1>7. QED  BY <1>4, <1>5, <1>6

(* The sweep fails rows nobody serves any more, and touches no counter.    *)
LEMMA ReapFails ==
  ASSUME SettleInv, TypeInv', NEW r \in Discoveries, Reap(r) PROVE SettleInv'
<1> USE DEF SettleInv
<1>1. status[r] = "running" /\ r \notin settled /\ pc[r] \in {"dead", "raised"}
      /\ status'[r] = "failed"
  BY DEF Reap, ReapedStates, Phase, Accounted, Open, TypeInv
<1>2. \A s \in Discoveries : s # r => status'[s] = status[s]  BY DEF Reap, TypeInv
<1>3. \A s \in Discoveries : Delivered(s)' = Delivered(s) /\ (AllOver(s))' = AllOver(s)
  BY DEF Reap, Delivered, AllOver
<1>4. \A s \in Discoveries : Phase(s)'
  BY <1>1, <1>2, <1>3 DEF Reap, Phase, Asked, Paying
<1>5. \A s \in Discoveries : Accounted(s)'
  BY <1>1, <1>2 DEF Reap, Accounted, Owed
<1>6. \A a \in Actors : Owing(a)'
  <2>1. \A a \in Actors : pc[a] = "refund" => of[a] # r /\ of[a] \in Discoveries
    BY <1>1 DEF Owing, Open, TypeInv
  <2>2. QED  BY <1>2, <2>1 DEF Reap, Owing, Owed
<1>7. QED  BY <1>4, <1>5, <1>6

(* A client prices a closed row by the counters it closed with.            *)
LEMMA AskPrices ==
  ASSUME SettleInv, TypeInv', NEW c \in Clients, Ask(c) PROVE SettleInv'
<1> USE DEF SettleInv
<1>1. \A a \in Actors : a # c => pc'[a] = pc[a] /\ of'[a] = of[a] /\ quoted'[a] = quoted[a]
  BY DEF Ask, TypeInv
<1>2. \A s \in Discoveries : Delivered(s)' = Delivered(s) /\ (AllOver(s))' = AllOver(s)
                            /\ pc'[s] = pc[s]
  BY <1>1, DiscoveryAssumption DEF Ask, Delivered, AllOver
<1>3. \A s \in Discoveries : Phase(s)'  BY <1>2 DEF Ask, Phase
<1>4. \A s \in Discoveries : Accounted(s)'  BY DEF Ask, Accounted, Owed
<1>5. Owing(c)'
  <2>1. PICK r \in Discoveries :
          /\ status[r] \notin Open
          /\ of' = [of EXCEPT ![c] = r] /\ quoted' = [quoted EXCEPT ![c] = Owed(counted[r])]
    BY DEF Ask, Open
  <2>2. of'[c] = r /\ quoted'[c] = Owed(counted[r])  BY <2>1 DEF TypeInv
  <2>3. QED  BY <2>1, <2>2 DEF Ask, Owing, Owed
<1>6. \A a \in Actors : a # c => Owing(a)'  BY <1>1 DEF Ask, Owing, Owed
<1>7. QED  BY <1>3, <1>4, <1>5, <1>6

LEMMA SettleInit == Init => SettleInv
<1> SUFFICES ASSUME Init PROVE SettleInv  OBVIOUS
<1>1. TypeInv  BY TypeInit
<1>2. \A r \in Discoveries : Phase(r) /\ Accounted(r)
  BY DEF Init, Phase, Accounted, Asked, Paying
<1>3. \A a \in Actors : Owing(a)  BY DEF Init, Owing
<1>4. QED  BY <1>1, <1>2, <1>3 DEF SettleInv

LEMMA SettleNext == SettleInv /\ [Next]_vars => SettleInv'
<1> SUFFICES ASSUME SettleInv, [Next]_vars PROVE SettleInv'  OBVIOUS
<1>0. TypeInv /\ TypeInv'  BY TypeNext DEF SettleInv
<1>1. ASSUME NEW r \in Discoveries, Check(r) PROVE SettleInv'
  BY <1>0, <1>1, RowsStand DEF Check, TypeInv, Asked, Paying
<1>2. ASSUME NEW r \in Discoveries, Deduct(r) PROVE SettleInv'
  BY <1>0, <1>2, RowsStand DEF Deduct, TypeInv, Asked, Paying
<1>3. ASSUME NEW r \in Discoveries, Create(r) PROVE SettleInv'
  <2>1. CASE UNCHANGED <<status, query>> /\ Goto(r, "raised")
    BY <1>0, <1>3, <2>1, RowsStand DEF Create, TypeInv, Asked, Paying, Statuses, SettleInv, Phase
  <2>2. ASSUME NEW to \in {"batch", "raised"}, Opened(r), Goto(r, to) PROVE SettleInv'
    BY <1>0, <1>3, <2>2, RowOpens
  <2>3. QED  BY <1>3, <2>1, <2>2 DEF Create
<1>4. ASSUME NEW r \in Discoveries, Batch(r) PROVE SettleInv'
  <2>1. ASSUME NEW q \in Queries, Search(r, q) PROVE SettleInv'
    BY <1>0, <2>1, QueryEnds DEF Search
  <2>2. ASSUME NEW q \in Queries, Unavailable(r, q) PROVE SettleInv'
    BY <1>0, <2>2, QueryEnds DEF Unavailable
  <2>3. QED  BY <1>4, <2>1, <2>2 DEF Batch
<1>5. ASSUME NEW r \in Discoveries, Deadline(r) PROVE SettleInv'
  BY <1>0, <1>5, DeadlineCancels
<1>6. ASSUME NEW r \in Discoveries, Finish(r) PROVE SettleInv'  BY <1>0, <1>6, FinishPrices
<1>7. ASSUME NEW r \in Discoveries, FinishRaises(r) PROVE SettleInv'
  BY <1>0, <1>7, RowsStand DEF FinishRaises, Over, TypeInv, Asked, Paying
<1>8. ASSUME NEW r \in Discoveries, Age(r) PROVE SettleInv'
  <2>1. \A s \in Discoveries : Delivered(s)' = Delivered(s) /\ (AllOver(s))' = AllOver(s)
    BY <1>8 DEF Age, Delivered, AllOver
  <2>2. \A s \in Discoveries : Phase(s)'  BY <1>8, <2>1 DEF Age, SettleInv, Phase
  <2>3. \A s \in Discoveries : Accounted(s)'  BY <1>8 DEF Age, SettleInv, Accounted, Owed
  <2>4. \A a \in Actors : Owing(a)'  BY <1>8 DEF Age, SettleInv, Owing, Owed
  <2>5. QED  BY <1>0, <2>2, <2>3, <2>4 DEF SettleInv
<1>9. ASSUME NEW r \in Discoveries, Reap(r) PROVE SettleInv'  BY <1>0, <1>9, ReapFails
<1>10. ASSUME NEW c \in Clients, Ask(c) PROVE SettleInv'  BY <1>0, <1>10, AskPrices
<1>11. ASSUME NEW a \in Actors, Refund(a) PROVE SettleInv'  BY <1>0, <1>11, RefundOnce
<1>12. ASSUME NEW a \in Actors, RefundUnavailable(a) PROVE SettleInv'
  BY <1>0, <1>12, RowsStand, DiscoveryAssumption
     DEF RefundUnavailable, Rest, TypeInv, Asked, Paying
<1>13. ASSUME NEW p \in Procs, Restart(p) PROVE SettleInv'
  BY <1>0, <1>13, RowsStand, DiscoveryAssumption DEF Restart, TypeInv, Asked, Paying
<1>14. CASE UNCHANGED vars  BY <1>0, <1>14, RowsStand DEF vars
<1>15. QED
  BY <1>1, <1>2, <1>3, <1>4, <1>5, <1>6, <1>7, <1>8, <1>9, <1>10, <1>11, <1>12, <1>13, <1>14
     DEF Next, Serve, Close, Settle
LEMMA SettleAlways == Spec => []SettleInv
<1> USE SettleInit, SettleNext
<1> QED  BY PTL DEF Spec

(* Whatever is settled by whom, in whatever order, the row and the balance *)
(* agree on what a run gave back.                                          *)
THEOREM RowsTellTheBalance == Spec => []RowMatchesBalance
<1>1. SettleInv => RowMatchesBalance  BY DEF SettleInv, Accounted, RowMatchesBalance
<1>2. QED  BY <1>1, SettleAlways, PTL

-----------------------------------------------------------------------------
(***************************************************************************)
(* Why one process returns no more than it took.  Between the check of the *)
(* balance and the deduction the event loop is this request's: nobody else *)
(* deducts, and everyone else only pays back.                              *)
(***************************************************************************)
OneProcess == \A r, s \in Discoveries : proc[r] = proc[s]
Afforded(r) ==
  /\ pc[r] = "deduct" => balance >= Charge
  /\ pc[r] = "create" \/ status[r] # "none" => taken[r] = Charge
TakenInv == SettleInv /\ (OneProcess => \A r \in Discoveries : Afforded(r))

LEMMA TakenInit == Init => TakenInv
<1>1. Init => \A r \in Discoveries : Afforded(r)  BY DEF Init, Afforded
<1>2. QED  BY <1>1, SettleInit DEF TakenInv

(* A step that takes nothing from anyone and neither opens a row nor lets  *)
(* a request deduct.                                                       *)
LEMMA NothingTaken ==
  ASSUME SettleInv, \A r \in Discoveries : Afforded(r),
         taken' = taken, balance' \in Nat, balance' >= balance,
         \A r \in Discoveries :
           /\ pc'[r] \in {"deduct", "create"} => pc'[r] = pc[r]
           /\ status'[r] # "none" => status[r] # "none"
  PROVE  \A r \in Discoveries : Afforded(r)'
<1>1. balance \in Nat /\ Charge \in Nat /\ Charge' = Charge
  BY OwedIsAPrice DEF SettleInv, TypeInv, Charge
<1>2. QED  BY <1>1 DEF Afforded

LEMMA TakenNext == TakenInv /\ [Next]_vars => TakenInv'
<1> SUFFICES ASSUME TakenInv, [Next]_vars PROVE TakenInv'  OBVIOUS
<1>0. SettleInv /\ SettleInv' /\ TypeInv /\ TypeInv'
  BY SettleNext DEF TakenInv, SettleInv
<1>p. proc' = proc
  BY DEF vars, Next, Serve, Close, Settle, Batch, Check, Deduct, Create, Search, Unavailable,
         Deadline, Finish, FinishRaises, Age, Reap, Ask, Refund, RefundUnavailable, Restart
<1> SUFFICES ASSUME OneProcess, \A r \in Discoveries : Afforded(r)
             PROVE  \A r \in Discoveries : Afforded(r)'
  BY <1>0, <1>p DEF TakenInv, OneProcess
<1>c. Charge' = Charge /\ Charge \in Nat  BY OwedIsAPrice DEF Charge
<1>1. ASSUME NEW r \in Discoveries, Check(r)
      PROVE  \A s \in Discoveries : Afforded(s)'
  <2>1. pc'[r] = "deduct" => balance >= Charge  BY <1>0, <1>1 DEF Check, TypeInv
  <2>2. pc'[r] # "create" /\ \A s \in Discoveries : s # r => pc'[s] = pc[s]
    BY <1>0, <1>1 DEF Check, TypeInv
  <2>3. QED  BY <1>1, <1>c, <2>1, <2>2 DEF Check, Afforded
<1>2. ASSUME NEW r \in Discoveries, Deduct(r)
      PROVE  \A s \in Discoveries : Afforded(s)'
  <2>1. balance >= Charge /\ \A s \in Discoveries : s # r => pc[s] # "deduct"
    BY <1>2 DEF Deduct, Afforded, LoopFree, OneProcess
  <2>2. taken'[r] = Charge /\ pc'[r] = "create"  BY <1>0, <1>2, <2>1 DEF Deduct, TypeInv
  <2>3. \A s \in Discoveries : s # r => pc'[s] = pc[s] /\ taken'[s] = taken[s]
    BY <1>0, <1>2 DEF Deduct, TypeInv
  <2>4. QED  BY <1>2, <1>c, <2>1, <2>2, <2>3 DEF Deduct, Afforded
<1>3. ASSUME NEW r \in Discoveries, Create(r)
      PROVE  \A s \in Discoveries : Afforded(s)'
  <2>1. taken[r] = Charge /\ pc'[r] \in {"batch", "raised"}
    BY <1>0, <1>3 DEF Create, Afforded, TypeInv
  <2>2. \A s \in Discoveries : s # r => pc'[s] = pc[s] /\ status'[s] = status[s]
    BY <1>0, <1>3 DEF Create, Opened, TypeInv
  <2>3. QED  BY <1>3, <1>c, <2>1, <2>2 DEF Create, Afforded
<1>4. ASSUME NEW r \in Discoveries, Batch(r)
      PROVE  \A s \in Discoveries : Afforded(s)'
  BY <1>0, <1>4, NothingTaken DEF Batch, Search, Unavailable, TypeInv
<1>5. ASSUME NEW r \in Discoveries, Close(r)
      PROVE  \A s \in Discoveries : Afforded(s)'
  <2>1. status[r] # "none" \/ status' = status
    BY <1>0, <1>5 DEF Close, Deadline, Finish, FinishRaises, Over, SettleInv, Phase, Paying
  <2>2. QED
    BY <1>0, <1>5, <2>1, NothingTaken DEF Close, Deadline, Finish, FinishRaises, TypeInv
<1>6. ASSUME NEW r \in Discoveries, Age(r) \/ Reap(r)
      PROVE  \A s \in Discoveries : Afforded(s)'
  BY <1>0, <1>6, NothingTaken DEF Age, Reap, ReapedStates, TypeInv
<1>7. ASSUME NEW c \in Clients, Ask(c)
      PROVE  \A s \in Discoveries : Afforded(s)'
  BY <1>0, <1>7, NothingTaken DEF Ask, TypeInv
<1>8. ASSUME NEW a \in Actors, Settle(a)
      PROVE  \A s \in Discoveries : Afforded(s)'
  <2>1. balance' >= balance /\ taken' = taken /\ status' = status
    BY <1>0, <1>8 DEF Settle, Refund, RefundUnavailable, PayBack, TypeInv
  <2>2. \A s \in Discoveries : pc'[s] \in {"deduct", "create"} => pc'[s] = pc[s]
    BY <1>0, <1>8 DEF Settle, Refund, RefundUnavailable, Rest, TypeInv
  <2>3. QED  BY <1>0, <2>1, <2>2, NothingTaken DEF TypeInv
<1>9. ASSUME NEW p \in Procs, Restart(p)
      PROVE  \A s \in Discoveries : Afforded(s)'
  BY <1>0, <1>9, NothingTaken DEF Restart, TypeInv
<1>10. CASE UNCHANGED vars  BY <1>0, <1>10, NothingTaken DEF vars, TypeInv
<1>11. QED
  BY <1>1, <1>2, <1>3, <1>4, <1>5, <1>6, <1>7, <1>8, <1>9, <1>10 DEF Next, Serve

(* A discovery that closed pays for what it delivered, and the searches of *)
(* one process give back no more than they took.                           *)
THEOREM DeliveryPaid == Spec => []PaidForDelivery
<1>1. TakenInv => PaidForDelivery
  <2> SUFFICES ASSUME TakenInv PROVE PaidForDelivery  OBVIOUS
  <2> USE OwedIsAPrice DEF TakenInv, SettleInv
  <2>1. ClosedPaysDelivery
    BY DEF ClosedPaysDelivery, Accounted, Phase, TypeInv
  <2>2. ReturnedWithinTaken
    <3> SUFFICES ASSUME OneProcess, NEW r \in Discoveries PROVE returned[r] <= taken[r]
      BY DEF ReturnedWithinTaken, OneProcess
    <3>1. CASE r \in settled
      BY <3>1 DEF Accounted, Afforded, Open, TypeInv
    <3>2. CASE r \notin settled  BY <3>2 DEF Accounted, TypeInv
    <3>3. QED  BY <3>1, <3>2
  <2>3. QED  BY <2>1, <2>2 DEF PaidForDelivery
<1>2. QED  BY <1>1, TakenInit, TakenNext, PTL DEF Spec
=============================================================================
