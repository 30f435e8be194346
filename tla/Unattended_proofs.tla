--------------------------- MODULE Unattended_proofs ---------------------------
(***************************************************************************)
(* For any writers, processes, uploads and captures: the table of write-   *)
(* ups holds, a finished one stays, a complete document has its text and   *)
(* every slot of the browser pool is accounted for.                        *)
(***************************************************************************)
EXTENDS MCUnattended, FiniteSetTheorems, SequenceTheorems, TLAPS

States == {"none"} \cup InFlight \cup Terminal

TypeInv ==
  /\ rows \in Seq(Writers) /\ status \in [Writers -> States]
  /\ section \in [Writers -> [Sections -> PieceStates]]
  /\ closing \in [Writers -> PieceStates]
  /\ pc \in [Writers -> PCs] /\ working \in [Writers -> SUBSET Sections]
  /\ proc \in [Writers -> Procs] /\ seen \in [Writers -> Writers \cup {NoRow}]
  /\ old \subseteq Writers /\ phantoms \subseteq Writers
  /\ deaths \in Nat /\ deletes \in Nat

(* The list and the states of its rows agree, and a writer that has not    *)
(* inserted its row, or found the table empty, has none.                   *)
Distinct == \A i, j \in DOMAIN rows : rows[i] = rows[j] => i = j
Listed   == \A w \in Writers : Exists(w) <=> status[w] # "none"
NotYet   == \A w \in Writers :
              pc[w] \in {"idle", "refused", "spawned"} \/ (pc[w] = "marking" /\ seen[w] = NoRow)
                => status[w] = "none"
Haunted  == \A w \in phantoms : pc[w] = "done"
RowInv   == Distinct /\ Listed /\ NotYet /\ Haunted

(* What a writer has written by the time it is where it is.                *)
Writing == {"outline", "sections", "conclusion", "summary"}
Unfinished == \A w \in Writers : pc[w] \in Writing => status[w] # "complete"
Skeleton == \A w \in Writers : pc[w] = "sections" /\ status[w] # "none" =>
  \A s \in Sections : section[w][s] # "none" /\ (s \in working[w] \/ section[w][s] = "complete")
Assembled == \A w \in Writers : pc[w] \in {"conclusion", "summary"} /\ status[w] # "none" =>
  \A s \in Sections : section[w][s] = "complete"
Closed == \A w \in Writers : pc[w] = "summary" /\ status[w] # "none" =>
  closing[w] \in {"complete", "failed"}
PageInv == Unfinished /\ Skeleton /\ Assembled /\ Closed /\ NothingPending

(* One process runs one stretch between awaits at a time, so what a        *)
(* failure handler read holds until it writes.                             *)
Alone == \A v, w \in Writers :
  v # w /\ proc[v] = proc[w] => ~(pc[v] \in Sync /\ pc[w] \in Sync)
Fresh == OneLoop => \A w \in Writers : pc[w] = "marking" =>
  IF seen[w] = NoRow THEN rows = <<>> ELSE status[seen[w]] # "complete"
Foremost == OneLoop => \A j \in DOMAIN rows : rows[j] \in phantoms => j = 1
LoopInv == Alone /\ Fresh /\ Foremost

Inv == TypeInv /\ RowInv /\ PageInv /\ LoopInv

-----------------------------------------------------------------------------
(* A row is appended behind the others.                                    *)
LEMMA Appended ==
  ASSUME NEW S, NEW q \in Seq(S), NEW e \in S
  PROVE  /\ Append(q, e) \in Seq(S) /\ Append(q, e) # <<>>
         /\ DOMAIN Append(q, e) = 1..(Len(q) + 1)
         /\ \A i \in DOMAIN q : Append(q, e)[i] = q[i]
         /\ Append(q, e)[Len(q) + 1] = e
         /\ ToSet(Append(q, e)) = ToSet(q) \cup {e}
<1>1. DOMAIN q = 1..Len(q) /\ Len(q) \in Nat  OBVIOUS
<1>2. /\ Append(q, e) \in Seq(S) /\ Append(q, e) # <<>>
      /\ DOMAIN Append(q, e) = 1..(Len(q) + 1)
      /\ \A i \in DOMAIN q : Append(q, e)[i] = q[i]
      /\ Append(q, e)[Len(q) + 1] = e
  BY <1>1, AppendProperties
<1>3. ToSet(Append(q, e)) = ToSet(q) \cup {e}
  <2>1. \A x : x \in ToSet(Append(q, e)) => x \in ToSet(q) \cup {e}
    BY <1>1, <1>2 DEF ToSet
  <2>2. e \in ToSet(Append(q, e))
    BY <1>1, <1>2 DEF ToSet
  <2>3. \A x \in ToSet(q) : x \in ToSet(Append(q, e))
    BY <1>1, <1>2 DEF ToSet
  <2>4. QED  BY <2>1, <2>2, <2>3
<1>4. QED  BY <1>2, <1>3

(* A row is taken out, and those behind it move up.                        *)
LEMMA TakenOut ==
  ASSUME NEW S, NEW q \in Seq(S), NEW k \in DOMAIN q
  PROVE  LET r == RemoveAt(q, k) IN
         /\ r \in Seq(S) /\ DOMAIN r = 1..(Len(q) - 1)
         /\ \A i \in DOMAIN r : r[i] = IF i < k THEN q[i] ELSE q[i + 1]
<1> DEFINE a == SubSeq(q, 1, k - 1)
           b == SubSeq(q, k + 1, Len(q))
<1>1. DOMAIN q = 1..Len(q) /\ Len(q) \in Nat /\ k \in 1..Len(q)  OBVIOUS
<1>2. /\ a \in Seq(S) /\ Len(a) = k - 1
      /\ \A i \in 1..(k - 1) : a[i] = q[i]
  BY <1>1
<1>3. /\ b \in Seq(S) /\ Len(b) = Len(q) - k
      /\ \A i \in 1..(Len(q) - k) : b[i] = q[k + i]
  <2>1. b \in Seq(S)  BY <1>1
  <2>2. Len(b) = Len(q) - k  BY <1>1
  <2>3. ASSUME NEW i \in 1..(Len(q) - k) PROVE b[i] = q[k + i]  BY <1>1
  <2>4. QED  BY <2>1, <2>2, <2>3
<1>4. /\ a \o b \in Seq(S) /\ Len(a \o b) = Len(a) + Len(b)
      /\ \A i \in 1..(Len(a) + Len(b)) :
           (a \o b)[i] = IF i <= Len(a) THEN a[i] ELSE b[i - Len(a)]
  <2> HIDE DEF a, b
  <2>1. QED  BY <1>2, <1>3, ConcatProperties
<1>5. RemoveAt(q, k) = a \o b  BY DEF RemoveAt
<1> HIDE DEF a, b
<1>6. Len(a) + Len(b) = Len(q) - 1  BY <1>1, <1>2, <1>3
<1>7. DOMAIN (a \o b) = 1..(Len(q) - 1)  BY <1>4, <1>6
<1>8. ASSUME NEW i \in 1..(Len(q) - 1)
      PROVE  (a \o b)[i] = IF i < k THEN q[i] ELSE q[i + 1]
  <2>1. CASE i < k
    BY <2>1, <1>1, <1>2, <1>4, <1>6
  <2>2. CASE ~(i < k)
    <3>1. i - (k - 1) \in 1..(Len(q) - k) /\ k + (i - (k - 1)) = i + 1  BY <2>2, <1>1
    <3>2. (a \o b)[i] = b[i - (k - 1)]  BY <2>2, <1>1, <1>2, <1>4, <1>6
    <3>3. QED  BY <2>2, <3>1, <3>2, <1>3
  <2>3. QED  BY <2>1, <2>2
<1>9. QED  BY <1>4, <1>5, <1>7, <1>8

(* Of distinct rows, exactly the one taken out is gone.                    *)
LEMMA OthersStay ==
  ASSUME NEW S, NEW q \in Seq(S), NEW k \in DOMAIN q,
         \A i, j \in DOMAIN q : q[i] = q[j] => i = j
  PROVE  LET r == RemoveAt(q, k) IN
         /\ \A i, j \in DOMAIN r : r[i] = r[j] => i = j
         /\ ToSet(r) = ToSet(q) \ {q[k]}
<1> DEFINE r == RemoveAt(q, k)
<1>1. DOMAIN q = 1..Len(q) /\ Len(q) \in Nat /\ k \in 1..Len(q)  OBVIOUS
<1>2. /\ DOMAIN r = 1..(Len(q) - 1)
      /\ \A i \in DOMAIN r : r[i] = IF i < k THEN q[i] ELSE q[i + 1]
  BY TakenOut
<1> HIDE DEF r
<1>3. \A i, j \in DOMAIN r : r[i] = r[j] => i = j
  <2> SUFFICES ASSUME NEW i \in DOMAIN r, NEW j \in DOMAIN r, r[i] = r[j] PROVE i = j  OBVIOUS
  <2>1. PICK m \in DOMAIN q : m = (IF i < k THEN i ELSE i + 1) /\ r[i] = q[m]  BY <1>1, <1>2
  <2>2. PICK n \in DOMAIN q : n = (IF j < k THEN j ELSE j + 1) /\ r[j] = q[n]  BY <1>1, <1>2
  <2>3. m = n  BY <2>1, <2>2
  <2>4. QED  BY <2>1, <2>2, <2>3, <1>1, <1>2
<1>4. ASSUME NEW x \in ToSet(r) PROVE x \in ToSet(q) \ {q[k]}
  <2>1. PICK i \in DOMAIN r : x = r[i]  BY DEF ToSet
  <2>2. PICK m \in DOMAIN q : m # k /\ r[i] = q[m]  BY <1>1, <1>2
  <2>3. QED  BY <2>1, <2>2 DEF ToSet
<1>5. ASSUME NEW x \in ToSet(q) \ {q[k]} PROVE x \in ToSet(r)
  <2>1. PICK m \in DOMAIN q : x = q[m] /\ m # k  BY DEF ToSet
  <2>2. PICK i \in DOMAIN r : m = (IF i < k THEN i ELSE i + 1)
    <3>1. CASE m < k  BY <3>1, <1>1, <1>2
    <3>2. CASE m > k
      <4>1. m - 1 \in DOMAIN r /\ ~(m - 1 < k) /\ m = (m - 1) + 1  BY <3>2, <1>1, <1>2
      <4>2. QED  BY <4>1
    <3>3. QED  BY <2>1, <3>1, <3>2, <1>1
  <2>3. r[i] = q[m]  BY <2>2, <1>2
  <2>4. QED  BY <2>1, <2>3 DEF ToSet
<1>6. ToSet(r) = ToSet(q) \ {q[k]}  BY <1>4, <1>5
<1>7. QED  BY <1>3, <1>6 DEF r

-----------------------------------------------------------------------------
(* A step is one writer's, one row's, or the end of a process.             *)
LEMMA StepIsOne ==
  ASSUME Next
  PROVE  \/ \E w \in Writers :
              \/ Generate(w) \/ EngineReport(w) \/ Delete(w)
              \/ LoadRaises(w) \/ Open(w) \/ Lose(w)
              \/ Outline(w) \/ Assemble(w) \/ Finish(w) \/ WriteRaises(w)
              \/ \E came \in BOOLEAN : Conclude(w, came)
              \/ \E s \in Sections : Section(w, s) \/ SectionRaises(w, s)
              \/ Fail(w) \/ EngineCatches(w) \/ MarkRead(w) \/ MarkOpen(w) \/ MarkInsert(w)
              \/ HandlerRaises(w) \/ Age(w) \/ Reap(w)
         \/ \E p \in Procs : Restart(p)
BY DEF Next, Start, Model, Handle, Reaper

USE DEF At, Goto, InsertRow, table, bounds, InFlight, Terminal, Sync, PCs, PieceStates, States

(* Every step leaves every variable in its type.                           *)
LEMMA TypeKept ==
  ASSUME ReportAssumption, TypeInv, [Next]_vars
  PROVE  TypeInv'
<1> USE DEF TypeInv
<1>1. CASE UNCHANGED vars  BY <1>1 DEF vars
<1>2. ASSUME NEW p \in Procs, Restart(p) PROVE TypeInv'  BY <1>2 DEF Restart
<1>3. ASSUME NEW w \in Writers PROVE
      /\ Generate(w) => TypeInv'
      /\ EngineReport(w) => TypeInv'
      /\ LoadRaises(w) => TypeInv'
      /\ Open(w) => TypeInv'
      /\ Lose(w) => TypeInv'
  <2>1. Generate(w) => TypeInv'  BY DEF Generate
  <2>2. EngineReport(w) => TypeInv'  BY DEF EngineReport
  <2>3. LoadRaises(w) => TypeInv'  BY DEF LoadRaises
  <2>4. Open(w) => TypeInv'  BY Appended DEF Open
  <2>5. Lose(w) => TypeInv'  BY DEF Lose
  <2>6. QED  BY <2>1, <2>2, <2>3, <2>4, <2>5
<1>4. ASSUME NEW w \in Writers PROVE
      /\ Outline(w) => TypeInv'
      /\ Assemble(w) => TypeInv'
      /\ Finish(w) => TypeInv'
      /\ WriteRaises(w) => TypeInv'
      /\ \A came \in BOOLEAN : Conclude(w, came) => TypeInv'
      /\ \A s \in Sections : Section(w, s) \/ SectionRaises(w, s) => TypeInv'
  <2>1. Outline(w) => TypeInv'  BY DEF Outline
  <2>2. Assemble(w) => TypeInv'  BY DEF Assemble
  <2>3. Finish(w) => TypeInv'  BY DEF Finish
  <2>4. WriteRaises(w) => TypeInv'  BY DEF WriteRaises
  <2>5. \A came \in BOOLEAN : Conclude(w, came) => TypeInv'  BY DEF Conclude
  <2>6. ASSUME NEW s \in Sections, Section(w, s) PROVE TypeInv'  BY <2>6 DEF Section
  <2>7. ASSUME NEW s \in Sections, SectionRaises(w, s) PROVE TypeInv'  BY <2>7 DEF SectionRaises
  <2>8. QED  BY <2>1, <2>2, <2>3, <2>4, <2>5, <2>6, <2>7
<1>5. ASSUME NEW w \in Writers PROVE
      /\ Fail(w) => TypeInv'
      /\ EngineCatches(w) => TypeInv'
      /\ MarkRead(w) => TypeInv'
      /\ MarkOpen(w) => TypeInv'
      /\ MarkInsert(w) => TypeInv'
      /\ HandlerRaises(w) => TypeInv'
  <2>1. Fail(w) => TypeInv'  BY DEF Fail
  <2>2. EngineCatches(w) => TypeInv'  BY DEF EngineCatches
  <2>3. ASSUME MarkRead(w) PROVE TypeInv'
    <3>1. rows # <<>> => Last(rows) \in Writers  BY DEF Last
    <3>2. QED  BY <2>3, <3>1 DEF MarkRead
  <2>4. MarkOpen(w) => TypeInv'  BY DEF MarkOpen
  <2>5. MarkInsert(w) => TypeInv'  BY Appended DEF MarkInsert
  <2>6. HandlerRaises(w) => TypeInv'  BY DEF HandlerRaises
  <2>7. QED  BY <2>1, <2>2, <2>3, <2>4, <2>5, <2>6
<1>6. ASSUME NEW w \in Writers PROVE
      /\ Delete(w) => TypeInv'
      /\ Age(w) => TypeInv'
      /\ Reap(w) => TypeInv'
  <2>1. Delete(w) => TypeInv'  BY TakenOut DEF Delete
  <2>2. Age(w) => TypeInv'  BY DEF Age
  <2>3. Reap(w) => TypeInv'  BY DEF Reap, ReapedStates
  <2>4. QED  BY <2>1, <2>2, <2>3
<1>7. QED  BY <1>1, <1>2, <1>3, <1>4, <1>5, <1>6, StepIsOne

(* The rows and their states stay in step.                                 *)
LEMMA RowsKept ==
  ASSUME ReportAssumption, TypeInv, RowInv, [Next]_vars
  PROVE  RowInv'
<1> USE DEF TypeInv, RowInv, Distinct, Listed, NotYet, Haunted, Exists
<1>1. CASE UNCHANGED vars  BY <1>1 DEF vars
<1>2. ASSUME NEW p \in Procs, Restart(p) PROVE RowInv'
  <2>1. UNCHANGED <<rows, status, phantoms, seen>>  BY <1>2 DEF Restart
  <2>2. \A v \in Writers : pc'[v] = (IF proc[v] = p /\ pc[v] \notin {"idle", "refused", "done", "unheard"}
                                     THEN "dead" ELSE pc[v])
    BY <1>2 DEF Restart
  <2>3. \A v \in Writers : pc'[v] = pc[v] \/ (pc'[v] = "dead" /\ pc[v] # "done")  BY <2>2
  <2>4. QED  BY <2>1, <2>3
<1>3. ASSUME NEW w \in Writers, UNCHANGED <<rows, status, phantoms, seen>>,
             NEW to \in PCs, pc' = [pc EXCEPT ![w] = to],
             to \in {"refused", "spawned"} => pc[w] = "idle",
             to # "idle" /\ to # "marking", pc[w] # "done"
      PROVE  RowInv'
  BY <1>3
<1>4. ASSUME NEW w \in Writers PROVE
      Generate(w) \/ EngineReport(w) \/ LoadRaises(w) \/ Lose(w) => RowInv'
  <2>1. Generate(w) => RowInv'  BY <1>3 DEF Generate
  <2>2. EngineReport(w) => RowInv'  BY <1>3 DEF EngineReport
  <2>3. LoadRaises(w) => RowInv'  BY <1>3 DEF LoadRaises
  <2>4. Lose(w) => RowInv'  BY <1>3 DEF Lose
  <2>5. QED  BY <2>1, <2>2, <2>3, <2>4
<1>5. ASSUME NEW w \in Writers PROVE
      /\ Outline(w) \/ Assemble(w) \/ WriteRaises(w) \/ EngineCatches(w) \/ HandlerRaises(w) => RowInv'
      /\ \A came \in BOOLEAN : Conclude(w, came) => RowInv'
      /\ \A s \in Sections : Section(w, s) \/ SectionRaises(w, s) => RowInv'
  <2>1. Outline(w) => RowInv'  BY <1>3 DEF Outline
  <2>2. Assemble(w) => RowInv'  BY <1>3 DEF Assemble
  <2>3. WriteRaises(w) => RowInv'  BY <1>3 DEF WriteRaises
  <2>4. EngineCatches(w) => RowInv'  BY <1>3 DEF EngineCatches
  <2>5. \A came \in BOOLEAN : Conclude(w, came) => RowInv'  BY <1>3 DEF Conclude
  <2>6. ASSUME NEW s \in Sections, Section(w, s) PROVE RowInv'  BY <2>6 DEF Section
  <2>7. ASSUME NEW s \in Sections, SectionRaises(w, s) PROVE RowInv'
    BY <2>7, <1>3 DEF SectionRaises
  <2>8. HandlerRaises(w) => RowInv'  BY <1>3 DEF HandlerRaises
  <2>9. QED  BY <2>1, <2>2, <2>3, <2>4, <2>5, <2>6, <2>7, <2>8
<1>6. ASSUME NEW w \in Writers, status[w] = "none", InsertRow(w, "generating") \/ InsertRow(w, "failed"),
             pc' \in {[pc EXCEPT ![w] = "outline"], [pc EXCEPT ![w] = "done"]}, UNCHANGED seen,
             phantoms' = phantoms \/ (pc'[w] = "done" /\ phantoms' = phantoms \cup {w}),
             pc[w] # "done"
      PROVE  RowInv'
  <2>1. w \notin ToSet(rows)  BY <1>6
  <2>2. rows' = Append(rows, w) /\ DOMAIN rows = 1..Len(rows) /\ Len(rows) \in Nat  BY <1>6
  <2>3. /\ DOMAIN rows' = 1..(Len(rows) + 1)
        /\ \A i \in DOMAIN rows : rows'[i] = rows[i]
        /\ rows'[Len(rows) + 1] = w
        /\ ToSet(rows') = ToSet(rows) \cup {w}
    BY <2>2, Appended
  <2>4. \A i \in DOMAIN rows : rows[i] # w  BY <2>1 DEF ToSet
  <2>5. Distinct'  BY <2>2, <2>3, <2>4
  <2>6. Listed'  BY <1>6, <2>3
  <2>7. \A v \in Writers \ {w} : pc'[v] = pc[v] /\ status'[v] = status[v]  BY <1>6
  <2>8. pc'[w] \in {"outline", "done"} /\ w \notin phantoms  BY <1>6
  <2>9. NotYet'  BY <1>6, <2>7, <2>8
  <2>10. Haunted'  BY <1>6, <2>7, <2>8
  <2>11. QED  BY <2>5, <2>6, <2>9, <2>10
<1>7. ASSUME NEW w \in Writers PROVE Open(w) \/ MarkInsert(w) => RowInv'
  <2>1. ASSUME Open(w) PROVE RowInv'
    <3>1. status[w] = "none" /\ pc[w] # "done"  BY <2>1 DEF Open
    <3>2. /\ InsertRow(w, "generating") /\ pc' = [pc EXCEPT ![w] = "outline"]
          /\ UNCHANGED seen /\ phantoms' = phantoms
      BY <2>1 DEF Open
    <3>3. QED  BY <3>1, <3>2, <1>6
  <2>2. ASSUME MarkInsert(w) PROVE RowInv'
    <3>1. status[w] = "none" /\ pc[w] # "done"  BY <2>2 DEF MarkInsert
    <3>2. /\ InsertRow(w, "failed") /\ pc' = [pc EXCEPT ![w] = "done"]
          /\ UNCHANGED seen /\ phantoms' = phantoms \cup {w}
      BY <2>2 DEF MarkInsert
    <3>3. QED  BY <3>1, <3>2, <1>6
  <2>3. QED  BY <2>1, <2>2
<1>8. ASSUME NEW w \in Writers, Finish(w) \/ Fail(w) \/ MarkOpen(w) \/ Reap(w) PROVE RowInv'
  <2>1. UNCHANGED <<rows, phantoms, seen>>  BY <1>8 DEF Finish, Fail, MarkOpen, Reap
  <2>2. \A v \in Writers : status'[v] # "none" <=> status[v] # "none"
    <3>1. CASE Finish(w)    BY <3>1 DEF Finish
    <3>2. CASE Fail(w)      BY <3>2 DEF Fail
    <3>3. CASE MarkOpen(w)  BY <3>3 DEF MarkOpen
    <3>4. CASE Reap(w)      BY <3>4 DEF Reap, ReapedStates
    <3>5. QED  BY <1>8, <3>1, <3>2, <3>3, <3>4
  <2>3. \A v \in Writers : pc'[v] = pc[v] \/ (pc[v] # "done" /\ pc'[v] \in {"failing", "raising", "done"})
    <3>1. CASE Finish(w)    BY <3>1 DEF Finish
    <3>2. CASE Fail(w)      BY <3>2 DEF Fail
    <3>3. CASE MarkOpen(w)  BY <3>3 DEF MarkOpen
    <3>4. CASE Reap(w)      BY <3>4 DEF Reap, ReapedStates
    <3>5. QED  BY <1>8, <3>1, <3>2, <3>3, <3>4
  <2>4. QED  BY <2>1, <2>2, <2>3
<1>9. ASSUME NEW w \in Writers, MarkRead(w) PROVE RowInv'
  <2>1. UNCHANGED <<rows, status, phantoms>>  BY <1>9 DEF MarkRead
  <2>2. rows = <<>> => status[w] = "none"  BY DEF ToSet
  <2>3. rows # <<>> => Last(rows) # NoRow
    BY DEF Last, ReportAssumption
  <2>4. QED  BY <1>9, <2>1, <2>2, <2>3 DEF MarkRead
<1>10. ASSUME NEW w \in Writers, Delete(w) PROVE RowInv'
  <2>1. PICK k \in DOMAIN rows : rows[k] = w /\ rows' = RemoveAt(rows, k)  BY <1>10 DEF Delete
  <2>2. /\ \A i, j \in DOMAIN rows' : rows'[i] = rows'[j] => i = j
        /\ ToSet(rows') = ToSet(rows) \ {w}
    BY <2>1, OthersStay
  <2>3. Listed' /\ NotYet' /\ Haunted'  BY <1>10, <2>2 DEF Delete
  <2>4. QED  BY <2>2, <2>3
<1>11. ASSUME NEW w \in Writers, Age(w) PROVE RowInv'  BY <1>11 DEF Age
<1>12. QED
  BY <1>1, <1>2, <1>4, <1>5, <1>7, <1>8, <1>9, <1>10, <1>11, StepIsOne

(* No write-up is finished before everything it announced is in.           *)
LEMMA PagesKept ==
  ASSUME ReportAssumption, TypeInv, RowInv, PageInv, [Next]_vars
  PROVE  PageInv'
<1> USE DEF TypeInv, PageInv, Unfinished, Skeleton, Assembled, Closed, NothingPending, Writing
<1>1. CASE UNCHANGED vars  BY <1>1 DEF vars
<1>2. ASSUME NEW p \in Procs, Restart(p) PROVE PageInv'
  <2>1. UNCHANGED table  BY <1>2 DEF Restart
  <2>2. \A v \in Writers : pc'[v] \in Writing => pc'[v] = pc[v] /\ working'[v] = working[v]
    BY <1>2 DEF Restart
  <2>3. QED  BY <2>1, <2>2
<1>3. ASSUME NEW w \in Writers, UNCHANGED <<table, working>>, NEW to \in PCs \ Writing,
             pc' = [pc EXCEPT ![w] = to]
      PROVE  PageInv'
  BY <1>3
<1>4. ASSUME NEW w \in Writers PROVE
      Generate(w) \/ EngineReport(w) \/ LoadRaises(w) \/ Lose(w) \/ EngineCatches(w)
        \/ MarkRead(w) \/ WriteRaises(w) \/ HandlerRaises(w) => PageInv'
  <2>1. Generate(w) => PageInv'  BY <1>3 DEF Generate
  <2>2. EngineReport(w) => PageInv'  BY <1>3 DEF EngineReport
  <2>3. LoadRaises(w) => PageInv'  BY <1>3 DEF LoadRaises
  <2>4. Lose(w) => PageInv'  BY <1>3 DEF Lose
  <2>5. EngineCatches(w) => PageInv'  BY <1>3 DEF EngineCatches
  <2>6. MarkRead(w) => PageInv'  BY <1>3 DEF MarkRead
  <2>7. WriteRaises(w) => PageInv'  BY <1>3 DEF WriteRaises
  <2>8. HandlerRaises(w) => PageInv'  BY <1>3 DEF HandlerRaises
  <2>9. QED  BY <2>1, <2>2, <2>3, <2>4, <2>5, <2>6, <2>7, <2>8
<1>5. ASSUME NEW w \in Writers, Age(w) PROVE PageInv'  BY <1>5 DEF Age
<1>6. ASSUME NEW w \in Writers, Open(w) \/ MarkInsert(w) PROVE PageInv'
  <2>1. \A v \in Writers \ {w} : status'[v] = status[v] /\ pc'[v] = pc[v]
    BY <1>6 DEF Open, MarkInsert
  <2>2. status'[w] \in {"generating", "failed"} /\ pc'[w] \in {"outline", "done"}
    BY <1>6 DEF Open, MarkInsert
  <2>3. UNCHANGED <<section, closing, working>>  BY <1>6 DEF Open, MarkInsert
  <2>4. ASSUME NEW v \in Writers, pc'[v] \in {"sections", "conclusion", "summary"} \/ status'[v] = "complete"
        PROVE  v # w /\ pc'[v] = pc[v] /\ status'[v] = status[v]
    BY <2>1, <2>2, <2>4
  <2>5. Unfinished'  BY <2>1, <2>2
  <2>6. Skeleton' /\ Assembled' /\ Closed' /\ NothingPending'  BY <2>3, <2>4
  <2>7. QED  BY <2>5, <2>6
<1>7. ASSUME NEW w \in Writers, Outline(w) PROVE PageInv'
  BY <1>7 DEF Outline
<1>8. ASSUME NEW w \in Writers, NEW s \in Sections, Section(w, s) PROVE PageInv'
  BY <1>8 DEF Section
<1>9. ASSUME NEW w \in Writers, NEW s \in Sections, SectionRaises(w, s) PROVE PageInv'
  <2>1. UNCHANGED table  BY <1>9 DEF SectionRaises
  <2>2. \A v \in Writers : pc'[v] \in Writing => pc'[v] = pc[v]  BY <1>9 DEF SectionRaises
  <2>3. \A v \in Writers : pc'[v] = "sections" => working'[v] = working[v]  BY <1>9 DEF SectionRaises
  <2>4. QED  BY <2>1, <2>2, <2>3
<1>10. ASSUME NEW w \in Writers, Assemble(w) PROVE PageInv'
  <2>1. \A s \in Sections : status[w] # "none" => section[w][s] = "complete"
    BY <1>10 DEF Assemble
  <2>2. status[w] # "complete"  BY <1>10 DEF Assemble
  <2>3. QED  BY <1>10, <2>1, <2>2 DEF Assemble
<1>11. ASSUME NEW w \in Writers, NEW came \in BOOLEAN, Conclude(w, came) PROVE PageInv'
  BY <1>11 DEF Conclude, RowInv, Listed
<1>12. ASSUME NEW w \in Writers, Finish(w) PROVE PageInv'
  BY <1>12 DEF Finish, RowInv, Listed
<1>13. ASSUME NEW w \in Writers, Fail(w) \/ MarkOpen(w) \/ Reap(w) PROVE PageInv'
  <2>1. UNCHANGED <<section, closing, working>>  BY <1>13 DEF Fail, MarkOpen, Reap
  <2>2. \A v \in Writers : status'[v] = status[v] \/ (status[v] # "none" /\ status'[v] = "failed")
    <3>1. CASE Fail(w)      BY <3>1 DEF Fail, RowInv, Listed
    <3>2. CASE MarkOpen(w)  BY <3>2 DEF MarkOpen, RowInv, Listed
    <3>3. CASE Reap(w)      BY <3>3 DEF Reap, ReapedStates
    <3>4. QED  BY <1>13, <3>1, <3>2, <3>3
  <2>3. \A v \in Writers : pc'[v] \in Writing => pc'[v] = pc[v]
    BY <1>13 DEF Fail, MarkOpen, Reap
  <2>4. Unfinished'  BY <2>2, <2>3
  <2>5. Skeleton'  BY <2>1, <2>2, <2>3
  <2>6. Assembled' /\ Closed'  BY <2>1, <2>2, <2>3
  <2>7. NothingPending'  BY <2>1, <2>2
  <2>8. QED  BY <2>4, <2>5, <2>6, <2>7
<1>14. ASSUME NEW w \in Writers, Delete(w) PROVE PageInv'
  BY <1>14 DEF Delete
<1>15. QED
  BY <1>1, <1>2, <1>4, <1>5, <1>6, <1>7, <1>8, <1>9, <1>10, <1>11, <1>12, <1>13, <1>14, StepIsOne

(* The writer that moves is alone between its awaits in its process.       *)
Moves(w) == /\ LoopFree(w) /\ UNCHANGED proc
            /\ \E to \in PCs : pc' = [pc EXCEPT ![w] = to]
LEMMA MoverAlone ==
  ASSUME TypeInv, Alone, NEW w \in Writers, Moves(w) PROVE Alone'
BY DEF TypeInv, Alone, Moves, LoopFree

LEMMA WriterMoves ==
  ASSUME NEW w \in Writers
  PROVE  /\ Generate(w) \/ EngineReport(w) \/ LoadRaises(w) \/ Lose(w) \/ Open(w) => Moves(w)
         /\ Outline(w) \/ Assemble(w) \/ Finish(w) \/ WriteRaises(w) => Moves(w)
         /\ \A came \in BOOLEAN : Conclude(w, came) => Moves(w)
         /\ Fail(w) \/ EngineCatches(w) \/ MarkRead(w) \/ MarkOpen(w) => Moves(w)
         /\ MarkInsert(w) \/ HandlerRaises(w) => Moves(w)
<1> USE DEF Moves
<1>1. Generate(w) => Moves(w)  BY DEF Generate
<1>2. EngineReport(w) => Moves(w)  BY DEF EngineReport
<1>3. LoadRaises(w) => Moves(w)  BY DEF LoadRaises
<1>4. Lose(w) => Moves(w)  BY DEF Lose
<1>5. Open(w) => Moves(w)  BY DEF Open
<1>6. Outline(w) => Moves(w)  BY DEF Outline
<1>7. Assemble(w) => Moves(w)  BY DEF Assemble
<1>8. Finish(w) => Moves(w)  BY DEF Finish
<1>9. WriteRaises(w) => Moves(w)  BY DEF WriteRaises
<1>10. \A came \in BOOLEAN : Conclude(w, came) => Moves(w)  BY DEF Conclude
<1>11. Fail(w) => Moves(w)  BY DEF Fail
<1>12. EngineCatches(w) => Moves(w)  BY DEF EngineCatches
<1>13. MarkRead(w) => Moves(w)  BY DEF MarkRead
<1>14. MarkOpen(w) => Moves(w)  BY DEF MarkOpen
<1>15. MarkInsert(w) => Moves(w)  BY DEF MarkInsert
<1>16. HandlerRaises(w) => Moves(w)  BY DEF HandlerRaises
<1> HIDE DEF Moves
<1>17. QED
  BY <1>1, <1>2, <1>3, <1>4, <1>5, <1>6, <1>7, <1>8, <1>9, <1>10, <1>11, <1>12, <1>13, <1>14, <1>15,
     <1>16

LEMMA AloneKept ==
  ASSUME TypeInv, Alone, [Next]_vars
  PROVE  Alone'
<1>1. CASE UNCHANGED vars  BY <1>1 DEF vars, Alone
<1>2. ASSUME NEW w \in Writers, Moves(w) PROVE Alone'  BY <1>2, MoverAlone
<1>3. ASSUME UNCHANGED <<proc, pc>> PROVE Alone'  BY <1>3 DEF Alone
<1>4. ASSUME NEW p \in Procs, Restart(p) PROVE Alone'
  <2>1. \A v \in Writers : pc'[v] \in Sync => pc[v] \in Sync  BY <1>4 DEF Restart, TypeInv
  <2>2. UNCHANGED proc  BY <1>4 DEF Restart
  <2>3. QED  BY <2>1, <2>2 DEF Alone
<1>5. ASSUME NEW w \in Writers, NEW s \in Sections, Section(w, s) PROVE Alone'
  BY <1>3, <1>5 DEF Section
<1>6. ASSUME NEW w \in Writers, NEW s \in Sections, SectionRaises(w, s) PROVE Alone'
  <2>1. UNCHANGED pc \/ Moves(w)  BY <1>6 DEF SectionRaises, Moves
  <2>2. UNCHANGED proc  BY <1>6 DEF SectionRaises
  <2>3. QED  BY <1>2, <1>3, <2>1, <2>2
<1>7. ASSUME NEW w \in Writers, Delete(w) \/ Age(w) \/ Reap(w) PROVE Alone'
  BY <1>3, <1>7 DEF Delete, Age, Reap
<1>8. QED  BY <1>1, <1>2, <1>4, <1>5, <1>6, <1>7, WriterMoves, StepIsOne

(* In one process, nobody writes between a handler's read and its write    *)
(* but the founder and the reaper, and neither finishes a row or adds one. *)
LEMMA FreshKept ==
  ASSUME ReportAssumption, TypeInv, RowInv, LoopInv, [Next]_vars
  PROVE  Fresh'
<1> SUFFICES ASSUME OneLoop', NEW v \in Writers, pc'[v] = "marking"
             PROVE  IF seen'[v] = NoRow THEN rows' = <<>> ELSE status'[seen'[v]] # "complete"
  BY DEF Fresh
<1> USE DEF TypeInv, LoopInv, Fresh
<1>1. UNCHANGED proc
  BY StepIsOne DEF vars, Generate, EngineReport, Delete, LoadRaises, Open, Lose, Outline, Assemble,
     Finish, WriteRaises, Conclude, Section, SectionRaises, Fail, EngineCatches, MarkRead, MarkOpen,
     MarkInsert, HandlerRaises, Age, Reap, Restart
<1>2. OneLoop  BY <1>1 DEF OneLoop
<1>3. CASE UNCHANGED vars  BY <1>2, <1>3 DEF vars
<1>4. ASSUME NEW p \in Procs, Restart(p) PROVE pc[v] = "marking" /\ UNCHANGED <<rows, status, seen>>
  BY <1>4 DEF Restart
<1>5. ASSUME NEW w \in Writers, LoopFree(w), NEW to \in PCs \ {"marking"},
             pc' = [pc EXCEPT ![w] = to] \/ (UNCHANGED pc /\ pc[w] # "marking")
      PROVE  FALSE
  BY <1>2, <1>5 DEF LoopFree, OneLoop
<1>6. ASSUME NEW w \in Writers, MarkRead(w)
      PROVE  IF seen'[v] = NoRow THEN rows' = <<>> ELSE status'[seen'[v]] # "complete"
  <2>1. w = v  BY <1>2, <1>6 DEF MarkRead, LoopFree, OneLoop
  <2>2. rows # <<>> => Last(rows) \in Writers /\ Last(rows) # NoRow
    BY DEF Last, ReportAssumption
  <2>3. QED  BY <1>6, <2>1, <2>2 DEF MarkRead
<1>7. ASSUME NEW w \in Writers, Delete(w)
      PROVE  IF seen'[v] = NoRow THEN rows' = <<>> ELSE status'[seen'[v]] # "complete"
  <2>1. rows # <<>>  BY <1>7 DEF Delete, Exists, ToSet
  <2>2. pc[v] = "marking" /\ seen' = seen  BY <1>7 DEF Delete
  <2>3. seen[v] \in Writers /\ status[seen[v]] # "complete"  BY <1>2, <2>1, <2>2
  <2>4. status'[seen[v]] \in {status[seen[v]], "none"}  BY <1>7, <2>3 DEF Delete
  <2>5. seen[v] # NoRow  BY <1>2, <2>1, <2>2
  <2>6. QED  BY <2>2, <2>3, <2>4, <2>5
<1>8. ASSUME NEW w \in Writers, Age(w) \/ Reap(w)
      PROVE  IF seen'[v] = NoRow THEN rows' = <<>> ELSE status'[seen'[v]] # "complete"
  <2>1. pc[v] = "marking" /\ UNCHANGED <<rows, seen>>  BY <1>8 DEF Age, Reap
  <2>2. \A u \in Writers : status'[u] \in {status[u], "failed"}  BY <1>8 DEF Age, Reap
  <2>3. QED  BY <1>2, <2>1, <2>2
<1>9. ASSUME NEW w \in Writers, NEW s \in Sections, Section(w, s) \/ SectionRaises(w, s)
      PROVE  pc[v] = "marking" /\ UNCHANGED <<rows, status, seen>>
  <2>1. CASE Section(w, s)  BY <2>1 DEF Section
  <2>2. CASE SectionRaises(w, s)  BY <2>2 DEF SectionRaises
  <2>3. QED  BY <1>9, <2>1, <2>2
<1>10. ASSUME NEW w \in Writers PROVE
       ~(Generate(w) \/ EngineReport(w) \/ LoadRaises(w) \/ Lose(w) \/ Open(w) \/ Outline(w))
  BY <1>5 DEF Generate, EngineReport, LoadRaises, Lose, Open, Outline
<1>11. ASSUME NEW w \in Writers, NEW came \in BOOLEAN PROVE
       ~(Assemble(w) \/ Finish(w) \/ WriteRaises(w) \/ Conclude(w, came))
  BY <1>5 DEF Assemble, Finish, WriteRaises, Conclude
<1>12. ASSUME NEW w \in Writers PROVE
       ~(Fail(w) \/ EngineCatches(w) \/ MarkOpen(w) \/ MarkInsert(w) \/ HandlerRaises(w))
  BY <1>5 DEF Fail, EngineCatches, MarkOpen, MarkInsert, HandlerRaises
<1>13. QED
  BY <1>2, <1>3, <1>4, <1>6, <1>7, <1>8, <1>9, <1>10, <1>11, <1>12, StepIsOne

(* A handler's row stays the first: no other was there when it was added,  *)
(* and a deletion only moves rows up.                                      *)
LEMMA ForemostKept ==
  ASSUME ReportAssumption, TypeInv, RowInv, LoopInv, [Next]_vars
  PROVE  Foremost'
<1> SUFFICES ASSUME OneLoop', NEW j \in DOMAIN rows', rows'[j] \in phantoms'
             PROVE  j = 1
  BY DEF Foremost
<1> USE DEF TypeInv, LoopInv
<1>1. OneLoop
  BY StepIsOne DEF OneLoop, vars, Generate, EngineReport, Delete, LoadRaises, Open, Lose, Outline,
     Assemble, Finish, WriteRaises, Conclude, Section, SectionRaises, Fail, EngineCatches, MarkRead,
     MarkOpen, MarkInsert, HandlerRaises, Age, Reap, Restart
<1>2. CASE UNCHANGED <<rows, phantoms>>  BY <1>1, <1>2 DEF Foremost
<1>3. ASSUME NEW w \in Writers, Open(w) PROVE j = 1
  <2>1. w \notin phantoms  BY <1>3 DEF Open, RowInv, Haunted
  <2>2. /\ DOMAIN rows = 1..Len(rows) /\ Len(rows) \in Nat /\ DOMAIN rows' = 1..(Len(rows) + 1)
        /\ \A i \in DOMAIN rows : rows'[i] = rows[i]
        /\ rows'[Len(rows) + 1] = w /\ phantoms' = phantoms
    BY <1>3, Appended DEF Open
  <2>3. j \in DOMAIN rows  BY <2>1, <2>2
  <2>4. QED  BY <1>1, <2>2, <2>3 DEF Foremost
<1>4. ASSUME NEW w \in Writers, MarkInsert(w) PROVE j = 1
  <2>1. rows = <<>>  BY <1>1, <1>4 DEF MarkInsert, Fresh
  <2>2. Len(rows) = 0 /\ DOMAIN rows' = 1..(Len(rows) + 1)  BY <1>4, <2>1, Appended DEF MarkInsert
  <2>3. QED  BY <2>2
<1>5. ASSUME NEW w \in Writers, Delete(w) PROVE j = 1
  <2>1. PICK k \in DOMAIN rows : rows[k] = w /\ rows' = RemoveAt(rows, k)  BY <1>5 DEF Delete
  <2>2. /\ DOMAIN rows = 1..Len(rows) /\ Len(rows) \in Nat /\ DOMAIN rows' = 1..(Len(rows) - 1)
        /\ rows'[j] = IF j < k THEN rows[j] ELSE rows[j + 1]
    BY <2>1, TakenOut
  <2>3. phantoms' = phantoms  BY <1>5 DEF Delete
  <2>4. CASE j < k  BY <1>1, <2>2, <2>3, <2>4 DEF Foremost
  <2>5. CASE ~(j < k)
    <3>1. j + 1 \in DOMAIN rows /\ rows[j + 1] \in phantoms  BY <2>2, <2>3, <2>5
    <3>2. j + 1 = 1  BY <1>1, <3>1 DEF Foremost
    <3>3. QED  BY <2>2, <3>2
  <2>6. QED  BY <2>4, <2>5
<1>6. Next /\ ~(\E w \in Writers : Open(w) \/ MarkInsert(w) \/ Delete(w)) => UNCHANGED <<rows, phantoms>>
  BY StepIsOne DEF Generate, EngineReport, LoadRaises, Lose, Outline,
     Assemble, Finish, WriteRaises, Conclude, Section, SectionRaises, Fail, EngineCatches, MarkRead,
     MarkOpen, HandlerRaises, Age, Reap, Restart
<1>7. QED  BY <1>2, <1>3, <1>4, <1>5, <1>6 DEF vars

-----------------------------------------------------------------------------
(* The table is empty when nobody has written.                             *)
LEMMA StartHolds ==
  ASSUME ReportAssumption, Init
  PROVE  Inv
<1>1. TypeInv  BY DEF Init, TypeInv
<1>2. rows = <<>> /\ DOMAIN rows = {} /\ ToSet(rows) = {}  BY DEF Init, ToSet
<1>3. RowInv  BY <1>2 DEF Init, RowInv, Distinct, Listed, NotYet, Haunted, Exists
<1>4. PageInv
  BY DEF Init, PageInv, Unfinished, Skeleton, Assembled, Closed, NothingPending, Writing
<1>5. Alone /\ Fresh  BY DEF Init, Alone, Fresh
<1>6. Foremost  BY <1>2 DEF Foremost
<1>7. QED  BY <1>1, <1>3, <1>4, <1>5, <1>6 DEF Inv, LoopInv

LEMMA StepHolds ==
  ASSUME ReportAssumption, Inv, [Next]_vars
  PROVE  Inv'
BY TypeKept, RowsKept, PagesKept, AloneKept, FreshKept, ForemostKept DEF Inv, LoopInv

(* A row is in flight from the moment its writer inserts it, and from no   *)
(* other; with the index, the insert finds none in flight.                 *)
LEMMA OneInFlightKept ==
  ASSUME ReportAssumption, Indexed = TRUE, TypeInv, OneInFlight, [Next]_vars
  PROVE  OneInFlight'
<1> USE DEF TypeInv, OneInFlight
<1>1. CASE \A v \in Writers : status'[v] \in InFlight => status[v] \in InFlight  BY <1>1
<1>2. ASSUME NEW w \in Writers, Open(w) PROVE OneInFlight'
  <2>1. \A v \in Writers : status[v] \notin InFlight  BY <1>2 DEF Open, Duplicate, Busy
  <2>2. \A v \in Writers \ {w} : status'[v] = status[v]  BY <1>2 DEF Open
  <2>3. QED  BY <2>1, <2>2
<1>3. ASSUME NEW w \in Writers,
             Finish(w) \/ Fail(w) \/ MarkOpen(w) \/ MarkInsert(w) \/ Delete(w) \/ Reap(w)
      PROVE  \A v \in Writers : status'[v] \in InFlight => status[v] \in InFlight
  <2>1. CASE Finish(w)  BY <2>1 DEF Finish
  <2>2. CASE Fail(w)  BY <2>2 DEF Fail
  <2>3. CASE MarkOpen(w)  BY <2>3 DEF MarkOpen
  <2>4. CASE MarkInsert(w)  BY <2>4 DEF MarkInsert
  <2>5. CASE Delete(w)  BY <2>5 DEF Delete
  <2>6. CASE Reap(w)  BY <2>6 DEF Reap
  <2>7. QED  BY <1>3, <2>1, <2>2, <2>3, <2>4, <2>5, <2>6
<1>4. Next /\ ~(\E w \in Writers : Open(w) \/ Finish(w) \/ Fail(w) \/ MarkOpen(w) \/ MarkInsert(w)
                                     \/ Delete(w) \/ Reap(w)) => UNCHANGED status
  BY StepIsOne DEF Generate, EngineReport, LoadRaises, Lose, Outline, Assemble, WriteRaises,
     Conclude, Section, SectionRaises, EngineCatches, MarkRead, HandlerRaises, Age, Restart
<1>5. QED  BY <1>1, <1>2, <1>3, <1>4 DEF vars

(* report_agent.py:1404-1410, api/reports.py: with the index of migration  *)
(* 043 a run has one write-up in flight however many clicks, runs and      *)
(* processes write, a finished one has all its sections, and with one      *)
(* process no handler's row hides one.                                     *)
THEOREM WriteUpsAreWhole ==
  ASSUME ReportAssumption, Indexed = TRUE
  PROVE  Spec => []WriteUpsHold
<1>1. Init => Inv /\ OneInFlight
  <2>1. Init => OneInFlight  BY DEF Init, OneInFlight
  <2>2. QED  BY <2>1, StartHolds
<1>2. Inv /\ OneInFlight /\ [Next]_vars => (Inv /\ OneInFlight)'
  BY StepHolds, OneInFlightKept DEF Inv
<1>3. Inv /\ OneInFlight => WriteUpsHold
  <2> SUFFICES ASSUME Inv PROVE NothingPending /\ NothingHidden  BY DEF WriteUpsHold
  <2>1. NothingPending  BY DEF Inv, PageInv
  <2>2. \A i, j \in DOMAIN rows : i \in 1..Len(rows) /\ j \in 1..Len(rows) /\ Len(rows) \in Nat
    BY DEF Inv, TypeInv
  <2>3. NothingHidden  BY <2>2 DEF Inv, LoopInv, Foremost, NothingHidden
  <2>4. QED  BY <2>1, <2>3
<1>4. QED  BY <1>1, <1>2, <1>3, PTL DEF Spec

(* A step that finishes, fails or takes back a write-up is its writer's,   *)
(* or touches one that was not finished.                                   *)
LEMMA FinishedIsLeft ==
  ASSUME ReportAssumption, Inv, [Next]_vars, OneLoop, NEW u \in Writers, status[u] = "complete"
  PROVE  status'[u] \in {"complete", "none"} \/ pc[u] = "failing"
<1> USE DEF Inv, TypeInv
<1>1. ASSUME NEW w \in Writers, MarkOpen(w)
      PROVE  status'[u] \in {"complete", "none"} \/ pc[u] = "failing"
  <2>1. seen[w] \in Writers /\ status[seen[w]] # "complete"  BY <1>1 DEF MarkOpen, LoopInv, Fresh
  <2>2. QED  BY <1>1, <2>1 DEF MarkOpen
<1>2. ASSUME NEW w \in Writers, Open(w) \/ MarkInsert(w)
      PROVE  status'[u] \in {"complete", "none"} \/ pc[u] = "failing"
  <2>1. status[w] = "none"  BY <1>2 DEF Open, MarkInsert, RowInv, NotYet
  <2>2. QED  BY <1>2, <2>1 DEF Open, MarkInsert
<1>3. ASSUME NEW w \in Writers, Finish(w) \/ Fail(w) \/ Delete(w) \/ Reap(w)
      PROVE  status'[u] \in {"complete", "none"} \/ pc[u] = "failing"
  <2>1. CASE Finish(w)  BY <2>1 DEF Finish
  <2>2. CASE Fail(w)  BY <2>2 DEF Fail
  <2>3. CASE Delete(w)  BY <2>3 DEF Delete
  <2>4. CASE Reap(w)  BY <2>4 DEF Reap, ReapedStates
  <2>5. QED  BY <1>3, <2>1, <2>2, <2>3, <2>4
<1>4. Next /\ ~(\E w \in Writers : Open(w) \/ Finish(w) \/ Fail(w) \/ MarkOpen(w) \/ MarkInsert(w)
                                     \/ Delete(w) \/ Reap(w)) => UNCHANGED status
  BY StepIsOne DEF Generate, EngineReport, LoadRaises, Lose, Outline, Assemble, WriteRaises,
     Conclude, Section, SectionRaises, EngineCatches, MarkRead, HandlerRaises, Age, Restart
<1>5. QED  BY <1>1, <1>2, <1>3, <1>4 DEF vars

(* api/reports.py:47-95: in one process, a finished write-up stays so      *)
(* until it is deleted or its own writer cannot read it back, whichever    *)
(* handler, writer or sweep comes by.                                      *)
THEOREM FinishedStays ==
  ASSUME ReportAssumption
  PROVE  Spec => CompleteStays
<1>1. Init => Inv  BY StartHolds
<1>2. Inv /\ [Next]_vars => Inv'  BY StepHolds
<1>3. Inv /\ [Next]_vars =>
        [OneLoop => \A w \in Writers :
          status[w] = "complete" => status'[w] \in {"complete", "none"} \/ pc[w] = "failing"]_vars
  BY FinishedIsLeft
<1>4. QED  BY <1>1, <1>2, <1>3, PTL DEF Spec, CompleteStays

-----------------------------------------------------------------------------
(* The uploads.                                                            *)
Readings == {"text", "prose"}
Contents == [type : Types \cup {"plain"}, holds : {"text", "nothing", "broken"}]
Row == [status : {"pending", "processing", "complete", "failed"}, file : Contents,
        kind : {"own", "market", "idea_brief"}, path : BOOLEAN,
        read : Readings \cup {"none"}, suggested : {"none", "market"}]
Steps == {"none", "queued", "reading", "judging", "ended"}

UploadTypes ==
  /\ documents \in [Uploads -> Row \cup {Ingestion!Absent}] /\ used \in Nat
  /\ stored \subseteq Uploads \X {"file", "text"} /\ torn \subseteq Uploads
  /\ tasks \in [Uploads -> Steps] /\ texts = [d \in Uploads |-> texts[d]]
(* What a task holds is what it has read so far.                           *)
Holds == \A d \in Uploads :
  /\ tasks[d] = "reading" => texts[d] \in [file : Contents]
  /\ tasks[d] = "judging" => texts[d] \in [got : Readings]
(* A text is in the bucket before a row says so, and from the moment its   *)
(* task has it; only the row's own deletion takes it out.                  *)
TextFirst == \A d \in Uploads \ torn :
  (tasks[d] = "judging" /\ Ingestion!Live(d)) \/ documents[d].status = "complete"
    => <<d, "text">> \in stored
UploadInv == UploadTypes /\ Holds /\ TextFirst

LEMMA ExtractType ==
  ASSUME NEW f \in Contents, NEW up \in BOOLEAN, NEW link \in BOOLEAN
  PROVE  Ingestion!Extract(f, up, link) \in Readings \cup {"raise", "none"}
BY DEF Contents, Readings, Ingestion!Extract, Ingestion!ReadPlain, Ingestion!ReadDocx,
   Ingestion!ReadDeck, Ingestion!ReadImage, Ingestion!ReadVideo, Ingestion!ReadSheet,
   Ingestion!ReadArticle

(* One row changes, and with it nothing that says its text is there.       *)
LEMMA RowWritten ==
  ASSUME UploadInv, NEW d \in Uploads, NEW row \in Row \cup {Ingestion!Absent},
         documents' = [documents EXCEPT ![d] = row],
         UNCHANGED torn, used' \in Nat, stored' \subseteq Uploads \X {"file", "text"},
         \A e \in Uploads : <<e, "text">> \in stored =>
           <<e, "text">> \in stored' \/ (e = d /\ row = Ingestion!Absent),
         NEW to \in Steps \ {"reading", "judging"}, NEW held,
         \/ tasks' = [tasks EXCEPT ![d] = to] /\ texts' = [texts EXCEPT ![d] = held]
         \/ UNCHANGED <<tasks, texts>> /\ Ingestion!Live(d),
         row.status = "complete" =>
           documents[d].status = "complete" \/ <<d, "text">> \in stored \/ d \in torn
  PROVE  UploadInv'
<1> USE DEF UploadInv, UploadTypes, Holds, TextFirst, Ingestion!Live, Ingestion!Absent, Row, Steps
<1>1. UploadTypes'  OBVIOUS
<1>2. Holds'  OBVIOUS
<1>3. ASSUME NEW e \in Uploads \ torn,
             (tasks'[e] = "judging" /\ documents'[e].status # "absent") \/ documents'[e].status = "complete"
      PROVE  <<e, "text">> \in stored'
  <2>1. CASE e # d  BY <1>3, <2>1
  <2>2. CASE e = d
    <3>1. documents'[d] = row  OBVIOUS
    <3>2. CASE row.status = "complete"  BY <2>2, <3>2, <1>3
    <3>3. CASE tasks'[d] = "judging"  BY <2>2, <3>3, <1>3
    <3>4. QED  BY <1>3, <2>2, <3>1, <3>2, <3>3
  <2>3. QED  BY <2>1, <2>2
<1>4. QED  BY <1>1, <1>2, <1>3

LEMMA RowAlone ==
  ASSUME UploadInv, NEW d \in Uploads, NEW row \in Row \cup {Ingestion!Absent},
         documents' = [documents EXCEPT ![d] = row], Ingestion!Live(d),
         UNCHANGED <<tasks, texts, torn>>, used' \in Nat, stored' \subseteq Uploads \X {"file", "text"},
         \A e \in Uploads : <<e, "text">> \in stored =>
           <<e, "text">> \in stored' \/ (e = d /\ row = Ingestion!Absent),
         row.status = "complete" => documents[d].status = "complete"
  PROVE  UploadInv'
<1>1. "ended" \in Steps \ {"reading", "judging"}  BY DEF Steps
<1>2. QED  BY <1>1, RowWritten

(* A task that gives up closes its row, if there is one.                   *)
LEMMA FailingKeeps ==
  ASSUME UploadInv, NEW d \in Uploads, Ingestion!Failing(d), UNCHANGED <<stored, used, torn>>
  PROVE  UploadInv'
<1> DEFINE row == IF Ingestion!Live(d) THEN [documents[d] EXCEPT !.status = "failed"]
                  ELSE documents[d]
<1> USE DEF UploadInv, UploadTypes, Ingestion!Live, Ingestion!Absent, Row
<1>1. row \in Row \cup {Ingestion!Absent} /\ row.status # "complete"
  <2>1. CASE Ingestion!Live(d)  BY <2>1
  <2>2. CASE ~Ingestion!Live(d)  BY <2>2
  <2>3. QED  BY <2>1, <2>2
<1>2. documents' = [documents EXCEPT ![d] = row]
  BY DEF Ingestion!Failing, Ingestion!Write
<1>3. /\ tasks' = [tasks EXCEPT ![d] = "ended"]
      /\ texts' = [texts EXCEPT ![d] = Ingestion!Unread]
  BY DEF Ingestion!Failing, Ingestion!Ends
<1> HIDE DEF row
<1>4. "ended" \in Steps \ {"reading", "judging"}  BY DEF Steps
<1>5. QED  BY ONLY <1>1, <1>2, <1>3, <1>4, RowWritten, UploadInv, d \in Uploads,
             UNCHANGED <<stored, used, torn>> DEF UploadInv, UploadTypes

(* What a finished reading leaves: nothing and a closed row, or a text in  *)
(* the bucket and a task that holds it.                                    *)
LEMMA ReadKeeps ==
  ASSUME UploadInv, NEW d \in Uploads, Ingestion!Read(d)
  PROVE  UploadInv'
<1>1. PICK up \in BOOLEAN, link \in BOOLEAN :
        LET got == Ingestion!Extract(texts[d].file, up, link) IN
        Ingestion!ReadEmpty(d, got) \/ Ingestion!TextLost(d, got) \/ Ingestion!TextStored(d, got)
  BY DEF Ingestion!Read
<1> DEFINE got == Ingestion!Extract(texts[d].file, up, link)
<1>2. tasks[d] = "reading" /\ UNCHANGED <<used, torn>>  BY DEF Ingestion!Read
<1>3. texts[d].file \in Contents  BY <1>2 DEF UploadInv, Holds
<1>4. got \in Readings \cup {"raise", "none"}  BY <1>3, ExtractType
<1>5. Ingestion!ReadEmpty(d, got) \/ Ingestion!TextLost(d, got) \/ Ingestion!TextStored(d, got)
  BY <1>1
<1> HIDE DEF got
<1>6. CASE Ingestion!ReadEmpty(d, got) \/ Ingestion!TextLost(d, got)
  BY <1>2, <1>6, FailingKeeps DEF Ingestion!ReadEmpty, Ingestion!TextLost
<1>7. CASE Ingestion!TextStored(d, got)
  <2>1. /\ got \in Readings /\ tasks' = [tasks EXCEPT ![d] = "judging"]
        /\ stored' = stored \cup {<<d, "text">>}
        /\ texts' = [texts EXCEPT ![d] = [got |-> got]] /\ UNCHANGED documents
    BY <1>4, <1>7 DEF Ingestion!TextStored
  <2>2. QED
    BY <1>2, <2>1 DEF UploadInv, UploadTypes, Holds, TextFirst, Ingestion!Live, Steps
<1>8. QED  BY <1>5, <1>6, <1>7

LEMMA UploadKept ==
  ASSUME UploadInv, Limit \in Nat, [Ingestion!Next]_(Ingestion!ingestVars)
  PROVE  UploadInv'
<1>1. CASE UNCHANGED Ingestion!ingestVars
  BY <1>1 DEF Ingestion!ingestVars, UploadInv, UploadTypes, Holds, TextFirst, Ingestion!Live
<1>2. CASE Ingestion!Restart
  BY <1>2 DEF Ingestion!Restart, UploadInv, UploadTypes, Holds, TextFirst, Ingestion!Live, Steps
<1>3. ASSUME NEW d \in Uploads, NEW f \in Contents, NEW kind \in {"own", "idea_brief"},
             Ingestion!Upload(d, f, kind)
      PROVE  UploadInv'
  <2> DEFINE row == [status |-> "pending", file |-> f, kind |-> kind,
                     path |-> FALSE, read |-> "none", suggested |-> "none"]
  <2>1. row \in Row /\ row.status # "complete"  BY DEF Row, Contents
  <2>2. /\ documents' = [documents EXCEPT ![d] = row]
        /\ stored' = stored \cup {<<d, "file">>} /\ used' \in {used, used + 1}
        /\ tasks' = [tasks EXCEPT ![d] = "queued"] /\ UNCHANGED <<texts, torn>>
    BY <1>3 DEF Ingestion!Upload, UploadInv, UploadTypes
  <2>3. texts' = [texts EXCEPT ![d] = texts[d]]
    BY <2>2 DEF UploadInv, UploadTypes
  <2> HIDE DEF row
  <2>4. used' \in Nat /\ stored' \subseteq Uploads \X {"file", "text"}
    BY <2>2 DEF UploadInv, UploadTypes
  <2>5. \A e \in Uploads : <<e, "text">> \in stored => <<e, "text">> \in stored'  BY <2>2
  <2>6. "queued" \in Steps \ {"reading", "judging"}  BY DEF Steps
  <2>7. QED  BY <2>1, <2>2, <2>3, <2>4, <2>5, <2>6, RowWritten
<1>4. ASSUME NEW d \in Uploads, Ingestion!InsertFails(d) \/ Ingestion!NotFound(d)
      PROVE  UploadInv'
  BY <1>4 DEF Ingestion!InsertFails, Ingestion!NotFound, Ingestion!Ends, UploadInv, UploadTypes,
     Holds, TextFirst, Ingestion!Live, Steps
<1>5. ASSUME NEW d \in Uploads, Ingestion!Start(d) PROVE UploadInv'
  <2> USE DEF UploadInv, UploadTypes, Ingestion!Live, Ingestion!Absent, Row, Steps
  <2>1. tasks[d] = "queued" /\ documents[d] \in Row /\ UNCHANGED <<stored, used, torn>>
    BY <1>5 DEF Ingestion!Start
  <2>2. CASE <<d, "file">> \in stored
    <3>1. /\ documents' = [documents EXCEPT ![d] = [documents[d] EXCEPT !.status = "processing"]]
          /\ tasks' = [tasks EXCEPT ![d] = "reading"]
          /\ texts' = [texts EXCEPT ![d] = [file |-> documents[d].file]]
      BY <1>5, <2>1, <2>2 DEF Ingestion!Start, Ingestion!Write
    <3>2. documents[d].file \in Contents  BY <2>1
    <3>3. QED  BY <2>1, <3>1, <3>2 DEF Holds, TextFirst
  <2>3. CASE <<d, "file">> \notin stored
    BY <1>5, <2>1, <2>3, FailingKeeps DEF Ingestion!Start
  <2>4. QED  BY <2>2, <2>3
<1>6. ASSUME NEW d \in Uploads, Ingestion!WriteFails(d) PROVE UploadInv'
  BY <1>6, FailingKeeps DEF Ingestion!WriteFails
<1>7. ASSUME NEW d \in Uploads, Ingestion!Conclude(d) PROVE UploadInv'
  <2>1. PICK s \in {"none", "market"} :
          Ingestion!Write(d, [documents[d] EXCEPT !.status = "complete", !.path = TRUE,
                                                  !.read = texts[d].got, !.suggested = s])
    BY <1>7 DEF Ingestion!Conclude, Ingestion!Suggestions
  <2> DEFINE row == IF Ingestion!Live(d)
                    THEN [documents[d] EXCEPT !.status = "complete", !.path = TRUE,
                                              !.read = texts[d].got, !.suggested = s]
                    ELSE documents[d]
  <2>2. tasks[d] = "judging" /\ UNCHANGED <<stored, used, torn>>  BY <1>7 DEF Ingestion!Conclude
  <2>3. texts[d].got \in Readings  BY <2>2 DEF UploadInv, Holds
  <2>4. row \in Row \cup {Ingestion!Absent}
    <3> USE DEF UploadInv, UploadTypes, Ingestion!Live, Ingestion!Absent, Row
    <3>1. CASE Ingestion!Live(d)
      <4>1. documents[d] \in Row  BY <3>1
      <4>2. [documents[d] EXCEPT !.status = "complete", !.path = TRUE,
                                 !.read = texts[d].got, !.suggested = s] \in Row
        BY ONLY <4>1, <2>3, s \in {"none", "market"} DEF Row, Readings
      <4>3. QED  BY <3>1, <4>2
    <3>2. CASE ~Ingestion!Live(d)  BY <3>2
    <3>3. QED  BY <3>1, <3>2
  <2>5. documents' = [documents EXCEPT ![d] = row]
    BY <2>1 DEF Ingestion!Write, UploadInv, UploadTypes
  <2>6. /\ tasks' = [tasks EXCEPT ![d] = "ended"]
        /\ texts' = [texts EXCEPT ![d] = Ingestion!Unread]
    BY <1>7 DEF Ingestion!Conclude, Ingestion!Ends
  <2>7. Ingestion!Live(d) => <<d, "text">> \in stored \/ d \in torn
    BY <2>2 DEF UploadInv, TextFirst
  <2>8. row.status = "complete" => documents[d].status = "complete" \/ <<d, "text">> \in stored \/ d \in torn
    BY <2>7
  <2> HIDE DEF row
  <2>9. QED  BY <2>2, <2>4, <2>5, <2>6, <2>8, RowWritten DEF UploadInv, UploadTypes, Steps
<1>8. ASSUME NEW d \in Uploads, NEW kind \in {"own", "market"}, Ingestion!Reap(d) \/ Ingestion!Relabel(d, kind)
      PROVE  UploadInv'
  <2>1. PICK row \in Row : documents' = [documents EXCEPT ![d] = row]
                           /\ (row.status = "complete" => documents[d].status = "complete")
    <3> USE DEF UploadInv, UploadTypes, Ingestion!Live, Ingestion!Absent, Row
    <3>1. CASE Ingestion!Reap(d)
      <4>1. documents[d] \in Row  BY <3>1 DEF Ingestion!Reap, Ingestion!Stuck, Ingestion!Open
      <4>2. [documents[d] EXCEPT !.status = "failed"] \in Row  BY <4>1
      <4>3. QED  BY <3>1, <4>2 DEF Ingestion!Reap
    <3>2. CASE Ingestion!Relabel(d, kind)
      <4>1. documents[d] \in Row  BY <3>2 DEF Ingestion!Relabel
      <4>2. [documents[d] EXCEPT !.kind = kind] \in Row  BY <4>1
      <4>3. QED  BY <3>2, <4>2 DEF Ingestion!Relabel
    <3>3. QED  BY <1>8, <3>1, <3>2
  <2>2. UNCHANGED <<stored, used, tasks, texts, torn>> /\ Ingestion!Live(d)
    BY <1>8 DEF Ingestion!Reap, Ingestion!Stuck, Ingestion!Open, Ingestion!Relabel, Ingestion!Live
  <2>3. QED  BY <2>1, <2>2, RowAlone DEF UploadInv, UploadTypes
<1>9. ASSUME NEW d \in Uploads, Ingestion!Delete(d) PROVE UploadInv'
  <2>1. /\ Ingestion!Live(d) /\ stored' = stored \ Ingestion!Objects(d)
        /\ documents' = [documents EXCEPT ![d] = Ingestion!Absent] /\ used' \in Nat
        /\ UNCHANGED <<tasks, texts, torn>>
    BY <1>9 DEF Ingestion!Delete, UploadInv, UploadTypes
  <2>2. Ingestion!Objects(d) \subseteq {<<d, "file">>, <<d, "text">>}  BY DEF Ingestion!Objects
  <2>3. Ingestion!Absent.status # "complete"  BY DEF Ingestion!Absent
  <2>4. stored' \subseteq Uploads \X {"file", "text"}  BY <2>1 DEF UploadInv, UploadTypes
  <2>5. \A e \in Uploads : <<e, "text">> \in stored => <<e, "text">> \in stored' \/ e = d
    BY <2>1, <2>2
  <2>6. QED  BY <2>1, <2>3, <2>4, <2>5, RowAlone
<1>10. ASSUME NEW d \in Uploads, Ingestion!DeleteHalf(d) PROVE UploadInv'
  <2>1. Ingestion!Objects(d) \subseteq {<<d, "file">>, <<d, "text">>}  BY DEF Ingestion!Objects
  <2>2. /\ stored' = stored \ Ingestion!Objects(d) /\ torn' = torn \cup {d}
        /\ UNCHANGED <<documents, used, tasks, texts>>
    BY <1>10 DEF Ingestion!DeleteHalf
  <2>3. QED  BY <2>1, <2>2 DEF UploadInv, UploadTypes, Holds, TextFirst, Ingestion!Live
<1>11. ASSUME NEW d \in Uploads, Ingestion!Handled(d) PROVE UploadInv'
  BY <1>4, <1>5, <1>6, <1>7, <1>11, ReadKeeps DEF Ingestion!Handled
<1>12. ASSUME NEW d \in Uploads, \/ \E f \in Ingestion!Files : Ingestion!Upload(d, f, "own")
                                 \/ Ingestion!IdeaBrief(d)
       PROVE  UploadInv'
  BY <1>3, <1>12 DEF Ingestion!Files, Ingestion!IdeaBrief, Contents
<1>13. QED
  BY <1>1, <1>2, <1>4, <1>8, <1>9, <1>10, <1>11, <1>12 DEF Ingestion!Next

(* services/ingestion/pipeline.py: whatever is deleted, relabelled, reaped *)
(* or lost in between, a document said to be complete has its text.        *)
THEOREM CompleteIsReadable ==
  ASSUME Limit \in Nat
  PROVE  Ingestion!Spec => []CompleteHasText
<1>1. Ingestion!Init => UploadInv
  BY DEF Ingestion!Init, UploadInv, UploadTypes, Holds, TextFirst, Ingestion!Live, Ingestion!Absent, Steps
<1>2. UploadInv /\ [Ingestion!Next]_(Ingestion!ingestVars) => UploadInv'  BY UploadKept
<1>3. UploadInv => CompleteHasText
  BY DEF UploadInv, TextFirst, CompleteHasText, Ingestion!CompleteHasText
<1>4. QED  BY <1>1, <1>2, <1>3, PTL DEF Ingestion!Spec

-----------------------------------------------------------------------------
(* The captures.                                                           *)
Places == {"idle", "queued", "launching", "desktop", "mobile", "cancelled", "wedged", "failed", "read"}
Steady == /\ free \in Nat /\ at \in [Requests -> Places]
          /\ free + Cardinality(Capture!Holding) = Slots

(* Taking a slot adds one capture to the holders.                          *)
LEMMA OneMore ==
  ASSUME IsFiniteSet(Requests), NEW r \in Requests, NEW S \in SUBSET Requests, r \notin S
  PROVE  /\ Cardinality(S) \in Nat
         /\ Cardinality(S \cup {r}) = Cardinality(S) + 1
<1>1. IsFiniteSet(S)  BY FS_Subset
<1>2. QED  BY <1>1, FS_AddElement, FS_CardinalityType

(* Giving it back takes that capture from them.                            *)
LEMMA OneLess ==
  ASSUME IsFiniteSet(Requests), NEW r \in Requests, NEW S \in SUBSET Requests, r \in S
  PROVE  /\ Cardinality(S) \in Nat
         /\ Cardinality(S \ {r}) = Cardinality(S) - 1
<1>1. IsFiniteSet(S)  BY FS_Subset
<1>2. QED  BY <1>1, FS_RemoveElement, FS_CardinalityType

(* A capture that keeps its slot, or never had one, changes no count.      *)
LEMMA Moved ==
  ASSUME Steady, NEW r \in Requests, NEW to \in Places,
         at' = [at EXCEPT ![r] = to], UNCHANGED free,
         at[r] \in {"launching", "desktop", "mobile", "cancelled", "wedged"}
           <=> to \in {"launching", "desktop", "mobile", "cancelled", "wedged"}
  PROVE  Steady'
<1>1. Capture!Holding' = Capture!Holding  BY DEF Capture!Holding, Steady
<1>2. QED  BY <1>1 DEF Steady

(* A capture that ends on any of the ways out leaves its slot behind.      *)
LEMMA Returned ==
  ASSUME IsFiniteSet(Requests), Steady, NEW r \in Requests, NEW to \in {"failed", "read"},
         at' = [at EXCEPT ![r] = to], free' = free + 1,
         at[r] \in {"launching", "desktop", "mobile", "cancelled"}
  PROVE  Steady'
<1>1. Capture!Holding' = Capture!Holding \ {r} /\ r \in Capture!Holding  BY DEF Capture!Holding, Steady
<1>2. Cardinality(Capture!Holding) \in Nat /\ Cardinality(Capture!Holding') = Cardinality(Capture!Holding) - 1
  BY <1>1, OneLess DEF Capture!Holding
<1>3. QED  BY <1>2 DEF Steady, Places

(* Every step of a capture keeps the count.                                *)
LEMMA StepKeeps ==
  ASSUME IsFiniteSet(Requests), Slots \in Nat, Steady, [Capture!Next]_(Capture!captureVars)
  PROVE  Steady'
<1>1. CASE UNCHANGED Capture!captureVars
  BY <1>1 DEF Capture!captureVars, Steady, Capture!Holding
<1>2. ASSUME NEW r \in Requests, Capture!Ask(r) \/ Capture!Proceed(r)
      PROVE  Steady'
  <2>1. CASE Capture!Ask(r)            BY <2>1, Moved DEF Capture!Ask, Capture!Move, Places
  <2>2. CASE Capture!Acquire(r)
    <3>1. Capture!Holding' = Capture!Holding \cup {r} /\ r \notin Capture!Holding
      BY <2>2 DEF Capture!Acquire, Capture!Move, Capture!Holding, Steady
    <3>2. Cardinality(Capture!Holding) \in Nat /\ Cardinality(Capture!Holding') = Cardinality(Capture!Holding) + 1
      BY <3>1, OneMore DEF Capture!Holding
    <3>3. QED  BY <2>2, <3>2 DEF Capture!Acquire, Capture!Move, Steady, Places
  <2>3. CASE Capture!QueueWaitEnds(r)  BY <2>3, Moved DEF Capture!QueueWaitEnds, Capture!Move, Places
  <2>4. CASE Capture!Launched(r)       BY <2>4, Moved DEF Capture!Launched, Capture!Move, Places
  <2>5. CASE Capture!DesktopRead(r)    BY <2>5, Moved DEF Capture!DesktopRead, Capture!Move, Places
  <2>6. CASE Capture!Raise(r)          BY <2>6, Returned DEF Capture!Raise
  <2>7. CASE Capture!Overrun(r)        BY <2>7, Moved DEF Capture!Overrun, Places
  <2>8. CASE Capture!Cancelled(r)      BY <2>8, Returned DEF Capture!Cancelled, Capture!Move
  <2>9. CASE Capture!Wedge(r)          BY <2>9, Moved DEF Capture!Wedge, Capture!Move, Places
  <2>10. CASE Capture!Finish(r)        BY <2>10, Returned DEF Capture!Finish, Capture!Move
  <2>11. QED
    BY <1>2, <2>1, <2>2, <2>3, <2>4, <2>5, <2>6, <2>7, <2>8, <2>9, <2>10 DEF Capture!Proceed
<1>3. QED  BY <1>1, <1>2 DEF Capture!Next

(* capture.py: no capture takes a slot it does not give back while it is   *)
(* alive, and none gives back what it did not take.                        *)
THEOREM SlotsAreCounted ==
  ASSUME IsFiniteSet(Requests), Slots \in Nat
  PROVE  Capture!Spec => []SlotsReturned
<1>1. Capture!Init => Steady
  <2> SUFFICES ASSUME Capture!Init PROVE Steady OBVIOUS
  <2>1. Capture!Holding = {}  BY DEF Capture!Init, Capture!Holding
  <2>2. QED  BY <2>1, FS_EmptySet DEF Capture!Init, Steady, Places
<1>2. Steady /\ [Capture!Next]_(Capture!captureVars) => Steady'  BY StepKeeps
<1>3. Steady => SlotsReturned
  <2>1. Capture!Cardinality(Capture!Holding) = Cardinality(Capture!Holding)
    BY DEF Capture!Cardinality, Cardinality
  <2>2. QED  BY <2>1 DEF Steady, SlotsReturned, Capture!SlotsReturned
<1>4. QED  BY <1>1, <1>2, <1>3, PTL DEF Capture!Spec

-----------------------------------------------------------------------------
(* Side by side they promise the same: a step of one leaves the variables  *)
(* of the others alone.                                                    *)
THEOREM UnattendedHolds ==
  ASSUME ReportAssumption, Indexed = TRUE, Limit \in Nat,
         IsFiniteSet(Requests), Slots \in Nat
  PROVE  MCSpec => [](WriteUpsHold /\ CompleteHasText /\ SlotsReturned) /\ CompleteStays
<1>1. MCInit => Init /\ Ingestion!Init /\ Capture!Init  BY DEF MCInit
<1>2. [MCNext]_all =>
        [Next]_vars /\ [Ingestion!Next]_(Ingestion!ingestVars) /\ [Capture!Next]_(Capture!captureVars)
  BY DEF MCNext, Reporting, Uploading, Capturing, all, uploads, captures,
     Ingestion!ingestVars, Capture!captureVars
<1>3. MCSpec => Spec /\ Ingestion!Spec /\ Capture!Spec
  BY <1>1, <1>2, PTL DEF MCSpec, Spec, Ingestion!Spec, Capture!Spec
<1>4. Spec => []WriteUpsHold  BY WriteUpsAreWhole
<1>5. Spec => CompleteStays  BY FinishedStays
<1>6. Ingestion!Spec => []CompleteHasText  BY CompleteIsReadable
<1>7. Capture!Spec => []SlotsReturned  BY SlotsAreCounted
<1>8. QED  BY <1>3, <1>4, <1>5, <1>6, <1>7, PTL
=============================================================================
