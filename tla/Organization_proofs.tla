-------------------------- MODULE Organization_proofs --------------------------
(***************************************************************************)
(* Theorems about what an organization pays and asks for, for any number   *)
(* of processes, people, attempts, calls and rows.                         *)
(***************************************************************************)
EXTENDS MCOrganization, FiniteSetTheorems, SequenceTheorems, TLAPS

-----------------------------------------------------------------------------
(***************************************************************************)
(* One window of the limiter lets through no more than its limit, although *)
(* INCR and EXPIRE are two commands and a process may die between them.    *)
(***************************************************************************)
(* What a process is answering keeps its fields, and asks for something    *)
(* that has a handler.                                                     *)
Shaped(x) ==
  /\ x = [who |-> x.who, ask |-> x.ask, step |-> x.step, org |-> x.org, was |-> x.was]
  /\ x.ask \in Accounting!Asks \cup {"none"}
Starting(r) == at[r].step = "expire"
(* Whoever started the counter has yet to be let through, and its number   *)
(* is one nobody else can have had: that place is kept for it.             *)
LimitInv ==
  /\ DOMAIN at = Processes /\ \A r \in Processes : Shaped(at[r])
  /\ hits \in [count : Nat, expires : BOOLEAN] /\ passed \in Nat /\ waved \in Nat
  /\ passed <= hits.count + waved /\ passed <= MostTries + waved
  /\ hits.expires => hits.count > 0
  /\ \A q, r \in Processes : Starting(q) /\ Starting(r) => q = r
  /\ (\E r \in Processes : Starting(r)) =>
       /\ ~hits.expires /\ hits.count > 0 /\ passed + 1 <= hits.count + waved
       /\ MostTries > 0 => passed + 1 <= MostTries + waved

(* A step that starts no counter and counts nobody.                        *)
LEMMA Quiet ==
  ASSUME MostTries \in Nat, LimitInv, UNCHANGED <<hits, passed, waved>>,
         DOMAIN at' = Processes, \A r \in Processes : Shaped(at'[r]),
         \A r \in Processes : at'[r].step = "expire" => Starting(r)
  PROVE  LimitInv'
BY DEF LimitInv, Starting, Shaped

(* An answer, and the step of a handler that is not the limiter's.         *)
LEMMA Stepping ==
  ASSUME LimitInv, NEW r \in Processes, NEW s, s # "expire", Accounting!To(r, s)
  PROVE  /\ DOMAIN at' = Processes /\ \A q \in Processes : Shaped(at'[q])
         /\ \A q \in Processes : at'[q].step = "expire" => Starting(q) /\ q # r
<1>1. \A q \in Processes : q # r => at'[q] = at[q]  BY DEF LimitInv, Accounting!To
<1>2. at'[r] = [at[r] EXCEPT !.step = s]  BY DEF LimitInv, Accounting!To
<1>3. Shaped(at[r])  BY DEF LimitInv
<1>4. at'[r].step = s /\ Shaped(at'[r])  BY <1>2, <1>3 DEF Shaped
<1>5. QED  BY <1>1, <1>4 DEF LimitInv, Accounting!To, Starting
LEMMA Answering ==
  ASSUME LimitInv, NEW r \in Processes, Accounting!Answered(r)
  PROVE  /\ DOMAIN at' = Processes /\ \A q \in Processes : Shaped(at'[q])
         /\ \A q \in Processes : at'[q].step = "expire" => Starting(q) /\ q # r
BY DEF LimitInv, Accounting!Answered, Accounting!Idle, Shaped, Starting

(* One more let through: the place it takes was there.                     *)
LEMMA Passing ==
  ASSUME LimitInv, NEW r \in Processes, Accounting!To(r, at[r].ask)
  PROVE  /\ DOMAIN at' = Processes /\ \A q \in Processes : Shaped(at'[q])
         /\ \A q \in Processes : at'[q].step = "expire" => Starting(q) /\ q # r
BY Stepping DEF LimitInv, Shaped, Accounting!Asks, Accounting!Limited

(* INCR.                                                                   *)
LEMMA CountKeeps ==
  ASSUME MostTries \in Nat, LimitInv, NEW r \in Processes, Accounting!Count(r)
  PROVE  LimitInv'
<1>0. /\ hits' \in [count : Nat, expires : BOOLEAN]
      /\ hits'.count = hits.count + 1 /\ hits'.expires = hits.expires /\ waved' = waved
  BY DEF Accounting!Count, LimitInv
<1>1. CASE hits'.count = 1
  <2>1. Accounting!To(r, "expire") /\ UNCHANGED passed  BY <1>1 DEF Accounting!Count
  <2>2. hits.count = 0 /\ passed <= waved /\ \A q \in Processes : ~Starting(q)
    BY <1>0, <1>1 DEF LimitInv
  <2>3. at'[r].step = "expire" /\ Shaped(at'[r])
        /\ \A q \in Processes \ {r} : at'[q] = at[q]
    BY <2>1 DEF Accounting!To, LimitInv, Shaped
  <2>4. DOMAIN at' = Processes  BY <2>1 DEF Accounting!To, LimitInv
  <2>5. QED  BY <1>0, <1>1, <2>1, <2>2, <2>3, <2>4 DEF LimitInv, Starting
<1>2. CASE hits'.count # 1 /\ Accounting!Over(hits'.count)
  <2>1. Accounting!Answered(r) /\ UNCHANGED passed  BY <1>2 DEF Accounting!Count, Accounting!LetThrough
  <2>2. QED  BY <1>0, <2>1, Answering DEF LimitInv, Starting
<1>3. CASE hits'.count # 1 /\ ~Accounting!Over(hits'.count)
  <2>1. Accounting!To(r, at[r].ask) /\ passed' = passed + 1  BY <1>3 DEF Accounting!Count, Accounting!LetThrough
  <2>2. hits'.count <= MostTries  BY <1>0, <1>3 DEF Accounting!Over, LimitInv
  <2>3. QED  BY <1>0, <2>1, <2>2, Passing DEF LimitInv, Starting
<1>4. QED  BY <1>1, <1>2, <1>3

(* EXPIRE: the place that was kept is taken.                               *)
LEMMA ExpireKeeps ==
  ASSUME MostTries \in Nat, LimitInv, NEW r \in Processes, Accounting!Expire(r)
  PROVE  LimitInv'
<1>0. /\ hits' \in [count : Nat, expires : BOOLEAN]
      /\ hits'.count = hits.count /\ Starting(r)
      /\ waved' = waved
      /\ hits.count > 0 /\ passed + 1 <= hits.count + waved /\ (MostTries > 0 => passed + 1 <= MostTries + waved)
  BY DEF Accounting!Expire, LimitInv, Starting
<1>1. CASE Accounting!Over(1)
  <2>1. Accounting!Answered(r) /\ UNCHANGED passed  BY <1>1 DEF Accounting!Expire, Accounting!LetThrough
  <2>2. QED  BY <1>0, <2>1, Answering DEF LimitInv, Starting
<1>2. CASE ~Accounting!Over(1)
  <2>1. Accounting!To(r, at[r].ask) /\ passed' = passed + 1  BY <1>2 DEF Accounting!Expire, Accounting!LetThrough
  <2>2. MostTries > 0  BY <1>2 DEF Accounting!Over
  <2>3. QED  BY <1>0, <2>1, <2>2, Passing DEF LimitInv, Starting
<1>3. QED  BY <1>1, <1>2

(* Every step keeps the places.                                            *)
LEMMA LimitStep ==
  ASSUME MostTries \in Nat, LimitInv, [Accounting!Next]_(Accounting!accountsVars)
  PROVE  LimitInv'
<1>1. CASE UNCHANGED Accounting!accountsVars  BY <1>1 DEF Accounting!accountsVars, LimitInv, Starting, Shaped
<1>2. ASSUME NEW r \in Processes, NEW p \in People \cup {Accounting!Platform}, NEW a \in Accounting!Asks,
             NEW o \in 0..MostOrgs, Accounting!Arrive(r, p, a, o)
      PROVE  LimitInv'
  BY <1>2, Quiet DEF Accounting!Arrive, LimitInv, Starting, Shaped
<1>3. ASSUME NEW r \in Processes, Accounting!Count(r) PROVE LimitInv'   BY <1>3, CountKeeps
<1>4. ASSUME NEW r \in Processes, Accounting!Expire(r) PROVE LimitInv'  BY <1>4, ExpireKeeps
<1>5. ASSUME NEW r \in Processes, Accounting!LimiterRaises(r) PROVE LimitInv'
  <2>1. CASE Accounting!To(r, "logout") /\ passed' = passed + 1 /\ waved' = waved + 1 /\ UNCHANGED hits
    BY <2>1, Stepping DEF LimitInv, Starting
  <2>2. CASE Accounting!Answered(r) /\ UNCHANGED <<hits, passed, waved>>  BY <2>2, Answering, Quiet
  <2>3. QED  BY <1>5, <2>1, <2>2 DEF Accounting!LimiterRaises
<1>6. ASSUME NEW r \in Processes, Accounting!CreateUser(r) PROVE LimitInv'
  <2>1. CASE Accounting!To(r, "insert")  BY <1>6, <2>1, Stepping, Quiet DEF Accounting!CreateUser
  <2>2. CASE Accounting!Answered(r)      BY <1>6, <2>2, Answering, Quiet DEF Accounting!CreateUser
  <2>3. QED  BY <1>6, <2>1, <2>2 DEF Accounting!CreateUser
<1>7. ASSUME NEW r \in Processes, Accounting!InsertOrg(r) PROVE LimitInv'
  <2> DEFINE next == IF at[r].ask = "signup" THEN "fund" ELSE "link"
  <2>1. at' = [at EXCEPT ![r] = [at[r] EXCEPT !.org = Len(orgs'), !.step = next]]
    BY <1>7 DEF Accounting!InsertOrg, LimitInv
  <2>2. at'[r] = [at[r] EXCEPT !.org = Len(orgs'), !.step = next] /\ Shaped(at[r])
    BY <2>1 DEF LimitInv
  <2>3. Shaped(at'[r]) /\ at'[r].step \in {"fund", "link"}  BY <2>2 DEF Shaped
  <2>4. QED  BY <1>7, <2>1, <2>3, Quiet DEF Accounting!InsertOrg, LimitInv, Starting
<1>8. ASSUME NEW r \in Processes, Accounting!Fund(r) PROVE LimitInv'
  BY <1>8, Stepping, Quiet DEF Accounting!Fund
<1>9. ASSUME NEW r \in Processes, Accounting!ReadBalance(r) PROVE LimitInv'
  <2>1. at' = [at EXCEPT ![r] = [at[r] EXCEPT !.was = orgs[at[r].org].held, !.step = "write"]]
    BY <1>9 DEF Accounting!ReadBalance, LimitInv
  <2>2. /\ at'[r] = [at[r] EXCEPT !.was = orgs[at[r].org].held, !.step = "write"]
        /\ Shaped(at[r])
    BY <2>1 DEF LimitInv
  <2>3. Shaped(at'[r]) /\ at'[r].step = "write"  BY <2>2 DEF Shaped
  <2>4. QED  BY <1>9, <2>1, <2>3, Quiet DEF Accounting!ReadBalance, Accounting!Account, LimitInv, Starting
<1>10. ASSUME NEW r \in Processes,
              \/ Accounting!LinkOwner(r) \/ Accounting!Dies(r) \/ Accounting!Login(r) \/ Accounting!Reset(r) \/ Accounting!Logout(r) \/ Accounting!WriteBalance(r)
       PROVE  LimitInv'
  <2>1. Accounting!Answered(r) /\ UNCHANGED <<hits, passed, waved>>
    BY <1>10 DEF Accounting!LinkOwner, Accounting!Dies, Accounting!Login, Accounting!Reset, Accounting!Logout, Accounting!WriteBalance, Accounting!Account
  <2>2. QED  BY <2>1, Answering, Quiet
<1>11. CASE Accounting!WindowEnds
  BY <1>11 DEF Accounting!WindowEnds, LimitInv, Starting, Shaped
<1>12. ASSUME NEW p \in People, Accounting!Spend(p) PROVE LimitInv'
  BY <1>12 DEF Accounting!Spend, LimitInv, Starting, Shaped
<1>13. QED
  BY <1>1, <1>2, <1>3, <1>4, <1>5, <1>6, <1>7, <1>8, <1>9, <1>10, <1>11, <1>12 DEF Accounting!Next

(* rate_limit.py: however attempts interleave, and whoever fails between   *)
(* INCR and EXPIRE, a window passes no more than the limit.                *)
THEOREM LimitIsKept ==
  ASSUME MostTries \in Nat
  PROVE  Accounting!Spec => []LimitHolds
<1>1. Accounting!Init => LimitInv  BY DEF Accounting!Init, LimitInv, Accounting!Idle, Shaped, Starting
<1>2. LimitInv /\ [Accounting!Next]_(Accounting!accountsVars) => LimitInv'  BY LimitStep
<1>3. LimitInv => LimitHolds  BY DEF LimitInv, LimitHolds, Accounting!LimitHolds
<1>4. QED  BY <1>1, <1>2, <1>3, PTL DEF Accounting!Spec

-----------------------------------------------------------------------------
(***************************************************************************)
(* Sessions end by the token of whoever asked.                             *)
(***************************************************************************)
Anybody == People \cup {Accounting!Platform, "nobody"}
SessionInv == /\ signed \in Seq(Anybody) /\ DOMAIN at = Processes
              /\ \A r \in Processes : at[r].who \in Anybody

(* The others stay signed in.                                              *)
LEMMA OthersStaySigned ==
  ASSUME signed \in Seq(Anybody), NEW p
  PROVE  LET s == Accounting!Without(p) IN
         s \in Seq(Anybody) /\ \A q \in Accounting!ToSet(signed) : q # p => q \in Accounting!ToSet(s)
<1> DEFINE theirs == {i \in DOMAIN signed : signed[i] = p}
           k == CHOOSE i \in theirs : TRUE
           a == SubSeq(signed, 1, k - 1)
           b == SubSeq(signed, k + 1, Len(signed))
<1>1. CASE theirs = {}  BY <1>1 DEF Accounting!Without
<1>2. CASE theirs # {}
  <2>1. k \in theirs  BY <1>2
  <2>2. Accounting!Without(p) = a \o b
    <3>1. Accounting!Without(p) = IF theirs = {} THEN signed ELSE Accounting!RemoveAt(signed, k)
      BY DEF Accounting!Without
    <3>2. Accounting!RemoveAt(signed, k) = a \o b  BY Zenon DEF Accounting!RemoveAt
    <3> HIDE DEF theirs, k, a, b
    <3>3. QED  BY <1>2, <3>1, <3>2
  <2>3. DOMAIN signed = 1..Len(signed) /\ Len(signed) \in Nat  OBVIOUS
  <2>4. k \in 1..Len(signed) /\ signed[k] = p  BY <2>1, <2>3
  <2> HIDE DEF k
  <2>5. /\ a \in Seq(Anybody) /\ Len(a) = k - 1
        /\ \A i \in 1..(k - 1) : a[i] = signed[i]
    BY <2>3, <2>4
  <2>6. b \in Seq(Anybody) /\ Len(b) = Len(signed) - k
    <3>1. b \in Seq(Anybody)  BY <2>3, <2>4
    <3>2. k + 1 \in Int /\ Len(signed) \in Int /\ k + 1 <= Len(signed) + 1  BY <2>3, <2>4
    <3>4. Len(b) = Len(signed) - k  BY <2>4, <3>2
    <3>3. QED  BY <3>1, <3>4
  <2>7. \A i \in 1..(Len(signed) - k) : b[i] = signed[k + i]  BY <2>3, <2>4
  <2> HIDE DEF a, b
  <2>8. /\ a \o b \in Seq(Anybody) /\ Len(a \o b) = Len(a) + Len(b)
        /\ \A i \in 1..(Len(a) + Len(b)) :
             (a \o b)[i] = IF i <= Len(a) THEN a[i] ELSE b[i - Len(a)]
    BY <2>5, <2>6, ConcatProperties
  <2>9. DOMAIN (a \o b) = 1..(Len(a) + Len(b))  BY <2>8
  <2>10. ASSUME NEW q \in Accounting!ToSet(signed), q # p PROVE q \in Accounting!ToSet(a \o b)
    <3>1. PICK i \in 1..Len(signed) : signed[i] = q  BY <2>3, <2>10 DEF Accounting!ToSet
    <3>2. CASE i < k
      <4>1. i \in DOMAIN (a \o b) /\ (a \o b)[i] = q
        BY <2>3, <2>4, <2>5, <2>6, <2>8, <2>9, <3>1, <3>2
      <4>2. QED  BY <4>1 DEF Accounting!ToSet
    <3>3. CASE i > k
      <4>1. i - k \in 1..(Len(signed) - k) /\ k + (i - k) = i  BY <2>3, <2>4, <3>1, <3>3
      <4>2. i - 1 \in 1..(Len(a) + Len(b)) /\ ~(i - 1 <= Len(a)) /\ (i - 1) - Len(a) = i - k
        BY <2>3, <2>4, <2>5, <2>6, <3>1, <3>3
      <4>3. (a \o b)[i - 1] = b[i - k]  BY <2>8, <4>2
      <4>4. (a \o b)[i - 1] = q  BY <2>7, <3>1, <4>1, <4>3
      <4>5. QED  BY <2>9, <4>2, <4>4 DEF Accounting!ToSet
    <3>4. i # k  BY <2>4, <2>10, <3>1
    <3>5. QED  BY <2>3, <2>4, <3>1, <3>2, <3>3, <3>4
  <2>11. QED  BY <2>2, <2>8, <2>10
<1>3. QED  BY <1>1, <1>2

LEMMA SessionStep ==
  ASSUME SessionInv, [Accounting!Next]_(Accounting!accountsVars)
  PROVE  /\ SessionInv'
         /\ \A p \in Accounting!ToSet(signed) : p \notin Accounting!ToSet(signed') =>
              \E r \in Processes : at[r].who = p /\ at[r].step \in {"reset", "logout"}
<1> DEFINE Typed == DOMAIN at' = Processes /\ \A r \in Processes : at'[r].who \in Anybody
           Kept  == UNCHANGED signed /\ Typed
<1> USE DEF SessionInv
<1>1. ASSUME NEW r \in Processes, NEW s, Accounting!To(r, s) PROVE Typed
  <2>1. \A q \in Processes : at'[q].who \in {at[q].who, at[r].who}  BY <1>1 DEF Accounting!To
  <2>2. QED  BY <1>1, <2>1 DEF Accounting!To
<1>2. ASSUME NEW r \in Processes, Accounting!Answered(r) PROVE Typed
  BY <1>2 DEF Accounting!Answered, Accounting!Idle, Anybody
<1>3. ASSUME UNCHANGED at PROVE Typed  BY <1>3
<1>4. CASE UNCHANGED Accounting!accountsVars  BY <1>3, <1>4 DEF Accounting!accountsVars
<1>5. ASSUME NEW r \in Processes, NEW p \in People \cup {Accounting!Platform}, NEW a, NEW o,
             Accounting!Arrive(r, p, a, o)
      PROVE  Kept
  BY <1>5 DEF Accounting!Arrive, Anybody
<1>6. ASSUME NEW r \in Processes, NEW n, Accounting!LetThrough(r, n) PROVE Typed
  BY <1>1, <1>2, <1>6 DEF Accounting!LetThrough
<1>7. ASSUME NEW r \in Processes,
             Accounting!Count(r) \/ Accounting!Expire(r) \/ Accounting!LimiterRaises(r)
      PROVE  Kept
  BY <1>1, <1>2, <1>6, <1>7 DEF Accounting!Count, Accounting!Expire, Accounting!LimiterRaises
<1>8. ASSUME NEW r \in Processes, Accounting!CreateUser(r) \/ Accounting!Fund(r) \/ Accounting!LinkOwner(r)
      PROVE  Kept
  BY <1>1, <1>2, <1>8 DEF Accounting!CreateUser, Accounting!Fund, Accounting!LinkOwner
<1>9. ASSUME NEW r \in Processes, Accounting!InsertOrg(r) PROVE Kept
  <2>1. DOMAIN at' = Processes /\ \A q \in Processes : at'[q].who \in {at[q].who, at[r].who}
    BY <1>9 DEF Accounting!InsertOrg
  <2>2. QED  BY <1>9, <2>1 DEF Accounting!InsertOrg
<1>10. ASSUME NEW r \in Processes, Accounting!ReadBalance(r) PROVE Kept
  <2>1. DOMAIN at' = Processes /\ \A q \in Processes : at'[q].who \in {at[q].who, at[r].who}
    BY <1>10 DEF Accounting!ReadBalance
  <2>2. QED  BY <1>10, <2>1 DEF Accounting!ReadBalance, Accounting!Account
<1>11. ASSUME NEW r \in Processes, Accounting!Dies(r) \/ Accounting!WriteBalance(r) PROVE Kept
  BY <1>2, <1>11 DEF Accounting!Dies, Accounting!WriteBalance, Accounting!Account
<1>12. ASSUME Accounting!WindowEnds \/ \E p \in People : Accounting!Spend(p) PROVE Kept
  BY <1>3, <1>12 DEF Accounting!WindowEnds, Accounting!Spend
<1>13. ASSUME NEW r \in Processes, Accounting!Login(r)
       PROVE  SessionInv' /\ \A p \in Accounting!ToSet(signed) : p \in Accounting!ToSet(signed')
  <2> DEFINE s == Accounting!Without(at[r].who)
  <2>1. Typed  BY <1>2, <1>13 DEF Accounting!Login
  <2>2. s \in Seq(Anybody) /\ \A q \in Accounting!ToSet(signed) : q # at[r].who => q \in Accounting!ToSet(s)
    BY OthersStaySigned
  <2>3. signed' = Append(s, at[r].who) \/ signed' = signed  BY <1>13 DEF Accounting!Login
  <2> HIDE DEF s
  <2>4. /\ Append(s, at[r].who) \in Seq(Anybody)
        /\ \A q : q = at[r].who \/ q \in Accounting!ToSet(s) => q \in Accounting!ToSet(Append(s, at[r].who))
    <3>1. at[r].who \in Anybody  OBVIOUS
    <3>2. /\ Append(s, at[r].who) \in Seq(Anybody)
          /\ DOMAIN Append(s, at[r].who) = 1..(Len(s) + 1) /\ DOMAIN s = 1..Len(s) /\ Len(s) \in Nat
          /\ Append(s, at[r].who)[Len(s) + 1] = at[r].who
          /\ \A i \in 1..Len(s) : Append(s, at[r].who)[i] = s[i]
      BY <2>2, <3>1, AppendProperties
    <3>3. QED  BY <3>2 DEF Accounting!ToSet
  <2>5. QED  BY <2>1, <2>2, <2>3, <2>4
<1>14. ASSUME NEW r \in Processes, Accounting!Reset(r) \/ Accounting!Logout(r)
       PROVE  SessionInv' /\ \A p \in Accounting!ToSet(signed) : p \notin Accounting!ToSet(signed') =>
                at[r].who = p /\ at[r].step \in {"reset", "logout"}
  <2> DEFINE s == Accounting!Without(at[r].who)
  <2>1. Typed  BY <1>2, <1>14 DEF Accounting!Reset, Accounting!Logout
  <2>2. s \in Seq(Anybody) /\ \A q \in Accounting!ToSet(signed) : q # at[r].who => q \in Accounting!ToSet(s)
    BY OthersStaySigned
  <2>3. signed' = s \/ signed' = signed
    BY <1>14 DEF Accounting!Reset, Accounting!Logout, Accounting!Evicted
  <2>4. at[r].step \in {"reset", "logout"}  BY <1>14 DEF Accounting!Reset, Accounting!Logout
  <2> HIDE DEF s
  <2>5. QED  BY <2>1, <2>2, <2>3, <2>4
<1>15. QED
  BY <1>4, <1>5, <1>7, <1>8, <1>9, <1>10, <1>11, <1>12, <1>13, <1>14 DEF Accounting!Next

(* Nobody is signed out by what somebody else asked for, or but by signing *)
(* out and resetting the password.                                         *)
THEOREM SessionsEndByTheirOwner == Accounting!Spec => OnlyOwnSessionEnds
<1>1. Accounting!Init => SessionInv
  BY EmptySeq DEF Accounting!Init, Accounting!Idle, SessionInv, Anybody
<1>2. SessionInv /\ [Accounting!Next]_(Accounting!accountsVars) => SessionInv'  BY SessionStep
<1>3. SessionInv /\ [Accounting!Next]_(Accounting!accountsVars) =>
        [\A p \in Accounting!ToSet(signed) : p \notin Accounting!ToSet(signed') =>
           \E r \in Processes : at[r].who = p /\ at[r].step \in {"reset", "logout"}]_(Accounting!accountsVars)
  BY SessionStep
<1>4. QED
  BY <1>1, <1>2, <1>3, PTL DEF Accounting!Spec, OnlyOwnSessionEnds, Accounting!OnlyOwnSessionEnds

-----------------------------------------------------------------------------
(***************************************************************************)
(* No answer of a model drops out of the accounts unreported, and none is  *)
(* entered twice unless an insert that raised had been written.            *)
(***************************************************************************)
(* A row that waits has not been written, as far as anybody could hear:    *)
(* that is why the insert that empties the buffer enters it once.          *)
Entered(i) ==
  /\ stored[i] > 0 \/ i \in Ledger!ToSet(buffer) \cup lost
  /\ stored[i] > 1 => i \in unknown
  /\ i \in Ledger!ToSet(buffer) /\ i \notin unknown => stored[i] = 0
LedgerInv ==
  /\ made \in Nat /\ buffer \in Seq(1..made) /\ flushAt \in Nat
  /\ stored \in [1..made -> Nat] /\ unknown \subseteq 1..made
  /\ \A i \in 1..made : Entered(i)

(* _trim_buffer keeps rows it was given, and no others.                    *)
LEMMA KeptAreThere ==
  ASSUME Cap \in Nat, NEW S, NEW rows \in Seq(S)
  PROVE  Ledger!Kept(rows) \in Seq(S) /\ Ledger!ToSet(Ledger!Kept(rows)) \subseteq Ledger!ToSet(rows)
<1>1. CASE Len(rows) > Cap
  <2> DEFINE from == Len(rows) - Cap + 1
  <2>1. Ledger!Kept(rows) = SubSeq(rows, from, Len(rows))  BY <1>1 DEF Ledger!Kept
  <2>2. /\ SubSeq(rows, from, Len(rows)) \in Seq(S)
        /\ \A i \in 1..Len(SubSeq(rows, from, Len(rows))) :
             /\ from + i - 1 \in 1..Len(rows)
             /\ SubSeq(rows, from, Len(rows))[i] = rows[from + i - 1]
    <3> DEFINE n == Len(rows)  kept == SubSeq(rows, from, n)
    <3>1. from \in 1..n + 1 /\ n \in Nat /\ \A i \in from..n : rows[i] \in S  BY <1>1
    <3> HIDE DEF from, n
    <3>2. from \in Int /\ n \in Int /\ from <= n + 1  BY <3>1
    <3>3. /\ SubSeq(rows, from, n) \in Seq(S)
          /\ Len(SubSeq(rows, from, n)) = IF from <= n THEN n - from + 1 ELSE 0
          /\ \A i \in 1..n - from + 1 : SubSeq(rows, from, n)[i] = rows[from + i - 1]
      BY <3>1, <3>2, SubSeqProperties
    <3>4. Len(kept) = n - from + 1  BY <3>2, <3>3
    <3> HIDE DEF kept
    <3>5. \A i \in 1..Len(kept) : from + i - 1 \in 1..n  BY <3>1, <3>4
    <3>6. QED  BY <3>3, <3>4, <3>5 DEF kept, n
  <2>3. QED  BY <2>1, <2>2 DEF Ledger!ToSet
<1>2. CASE ~(Len(rows) > Cap)  BY <1>2 DEF Ledger!Kept
<1>3. QED  BY <1>1, <1>2

(* What a buffer holds once a row is appended.                             *)
LEMMA Appended ==
  ASSUME NEW S, NEW rows \in Seq(S), NEW x \in S
  PROVE  Append(rows, x) \in Seq(S) /\ Ledger!ToSet(Append(rows, x)) = Ledger!ToSet(rows) \cup {x}
<1>1. /\ Append(rows, x) \in Seq(S) /\ DOMAIN rows = 1..Len(rows)
      /\ DOMAIN Append(rows, x) = 1..(Len(rows) + 1)
      /\ Append(rows, x)[Len(rows) + 1] = x
      /\ \A i \in 1..Len(rows) : Append(rows, x)[i] = rows[i]
  BY AppendProperties
<1>2. Len(rows) \in Nat  BY LenProperties
<1>3. QED  BY <1>1, <1>2 DEF Ledger!ToSet

(* A row between two inserts: what holds of the rows and counts that are   *)
(* handed to one.                                                          *)
Ready(n, rows, counts) ==
  /\ n \in Nat /\ rows \in Seq(1..n) /\ counts \in [1..n -> Nat] /\ unknown \subseteq 1..n
  /\ \A i \in 1..n :
       /\ counts[i] > 0 \/ i \in Ledger!ToSet(rows) \cup lost
       /\ counts[i] > 1 => i \in unknown
       /\ i \in Ledger!ToSet(rows) /\ i \notin unknown => counts[i] = 0

(* _flush_buffer: an insert, however it ends, keeps the accounts.          *)
LEMMA FlushKeeps ==
  ASSUME Cap \in Nat, Threshold \in Nat, NEW n, NEW rows, NEW counts, Ready(n, rows, counts),
         made' = n, NEW outcome \in Ledger!Outcomes, Ledger!Flush(rows, counts, outcome)
  PROVE  LedgerInv'
<1>0. Ledger!ToSet(rows) \subseteq 1..n /\ Len(rows) \in Nat  BY LenProperties, ElementOfSeq DEF Ready, Ledger!ToSet
<1>1. Ledger!Kept(rows) \in Seq(1..n) /\ Ledger!ToSet(Ledger!Kept(rows)) \subseteq Ledger!ToSet(rows)
  BY KeptAreThere DEF Ready
<1>2. /\ Ledger!Add(rows, counts) \in [1..n -> Nat]
      /\ \A i \in 1..n : Ledger!Add(rows, counts)[i] = IF i \in Ledger!ToSet(rows) THEN counts[i] + 1 ELSE counts[i]
  BY DEF Ledger!Add, Ready
<1>3. CASE outcome = "inserted"
  <2>1. /\ buffer' = <<>> /\ flushAt' = Threshold /\ UNCHANGED <<lost, unknown>>
        /\ stored' = Ledger!Add(rows, counts)
    BY <1>3 DEF Ledger!Flush
  <2>2. Ledger!ToSet(<<>>) = {}  BY DEF Ledger!ToSet
  <2>3. QED  BY <1>2, <2>1, <2>2 DEF Ready, LedgerInv, Entered
<1>4. CASE outcome # "inserted"
  <2>1. /\ buffer' = Ledger!Kept(rows) /\ lost' = lost \cup (Ledger!ToSet(rows) \ Ledger!ToSet(Ledger!Kept(rows)))
        /\ flushAt' = Len(rows) + Threshold
    BY <1>4 DEF Ledger!Flush, Ledger!Dropped
  <2>2. CASE outcome = "refused"
    <3>1. stored' = counts /\ unknown' = unknown  BY <2>2 DEF Ledger!Flush
    <3>2. QED  BY <1>0, <1>1, <2>1, <3>1 DEF Ready, LedgerInv, Entered
  <2>3. CASE outcome = "unheard"
    <3>1. stored' = Ledger!Add(rows, counts) /\ unknown' = unknown \cup Ledger!ToSet(rows)  BY <2>3 DEF Ledger!Flush
    <3>2. /\ made' \in Nat /\ buffer' \in Seq(1..made') /\ flushAt' \in Nat
          /\ stored' \in [1..made' -> Nat] /\ unknown' \subseteq 1..made'
      <4>1. n \in Nat /\ unknown \subseteq 1..n /\ 1..made' = 1..n  BY DEF Ready
      <4>2. buffer' \in Seq(1..made') /\ flushAt' \in Nat  BY <1>0, <1>1, <2>1, <4>1
      <4>3. stored' \in [1..made' -> Nat]  BY <1>2, <3>1, <4>1
      <4>4. unknown' \subseteq 1..made'  BY <1>0, <3>1, <4>1
      <4>5. QED  BY <4>1, <4>2, <4>3, <4>4
    <3>3. ASSUME NEW i \in 1..n PROVE Entered(i)'
      <4>1. CASE i \in Ledger!ToSet(rows)
        <5>1. stored'[i] = counts[i] + 1 /\ counts[i] \in Nat /\ i \in unknown'
          BY <1>2, <3>1, <4>1 DEF Ready
        <5>2. QED  BY <5>1 DEF Entered
      <4>2. CASE i \notin Ledger!ToSet(rows)
        <5>1. stored'[i] = counts[i] /\ i \notin Ledger!ToSet(buffer')  BY <1>1, <1>2, <2>1, <3>1, <4>2
        <5>2. QED  BY <2>1, <3>1, <4>2, <5>1 DEF Ready, Entered
      <4>3. QED  BY <4>1, <4>2
    <3>4. QED  BY <3>2, <3>3 DEF LedgerInv
  <2>4. QED  BY <1>4, <2>2, <2>3 DEF Ledger!Outcomes
<1>5. QED  BY <1>3, <1>4

(* record_llm_call.                                                        *)
LEMMA RecordKeeps ==
  ASSUME Cap \in Nat, Threshold \in Nat, LedgerInv, NEW outcome \in Ledger!Outcomes, Ledger!Record(outcome)
  PROVE  LedgerInv'
<1> DEFINE n == made + 1
           rows == Append(buffer, n)
           counts == [i \in 1..n |-> IF i \in Ledger!Recorded THEN stored[i] ELSE 0]
<1>0. made \in Nat /\ n \in Nat /\ made' = n /\ 1..n = (1..made) \cup {n} /\ n \notin 1..made
  BY DEF Ledger!Record, LedgerInv
<1>1. buffer \in Seq(1..n) /\ \A i \in Ledger!ToSet(buffer) : i \in 1..made
  BY <1>0, ElementOfSeq, LenProperties DEF LedgerInv, Ledger!ToSet
<1>2. rows \in Seq(1..n) /\ Ledger!ToSet(rows) = Ledger!ToSet(buffer) \cup {n}
  BY <1>0, <1>1, Appended
<1>3. Ledger!Recorded = 1..made  BY DEF Ledger!Recorded, LedgerInv
<1>4. /\ counts \in [1..n -> Nat] /\ counts[n] = 0
      /\ \A i \in 1..made : counts[i] = stored[i]
  BY <1>0, <1>3 DEF LedgerInv
<1>5. Ready(n, rows, counts)
  <2> HIDE DEF n, rows, counts
  <2>1. unknown \subseteq 1..n /\ n \notin unknown  BY <1>0 DEF LedgerInv
  <2>2. ASSUME NEW i \in 1..n
        PROVE  /\ counts[i] > 0 \/ i \in Ledger!ToSet(rows) \cup lost
               /\ counts[i] > 1 => i \in unknown
               /\ i \in Ledger!ToSet(rows) /\ i \notin unknown => counts[i] = 0
    <3>1. CASE i = n  BY <1>2, <1>4, <3>1
    <3>2. CASE i \in 1..made  BY <1>0, <1>2, <1>4, <3>2 DEF LedgerInv, Entered
    <3>3. QED  BY <1>0, <3>1, <3>2
  <2>3. QED  BY <1>0, <1>2, <1>4, <2>1, <2>2 DEF Ready
<1>6. CASE Len(rows) >= flushAt
  <2>1. Ledger!Flush(rows, counts, outcome)  BY <1>6 DEF Ledger!Record
  <2> HIDE DEF n, rows, counts
  <2>2. QED  BY <1>0, <1>5, <2>1, FlushKeeps
<1>7. CASE ~(Len(rows) >= flushAt)
  <2>1. buffer' = rows /\ stored' = counts /\ UNCHANGED <<flushAt, lost, unknown>>
    BY <1>7 DEF Ledger!Record
  <2> HIDE DEF n, rows, counts
  <2>2. QED  BY <1>0, <1>5, <2>1 DEF Ready, LedgerInv, Entered
<1>8. QED  BY <1>6, <1>7

(* The stage's last insert.                                                *)
LEMMA CloseKeeps ==
  ASSUME Cap \in Nat, Threshold \in Nat, LedgerInv, NEW outcome \in Ledger!Outcomes, Ledger!CloseContext(outcome)
  PROVE  LedgerInv'
<1>0. made' = made /\ Ready(made, buffer, stored)
  BY DEF Ledger!CloseContext, Ready, LedgerInv, Entered
<1>1. CASE buffer = <<>>
  BY <1>0, <1>1 DEF Ledger!CloseContext, LedgerInv, Entered
<1>2. CASE buffer # <<>> /\ outcome = "inserted"
  BY <1>0, <1>2, FlushKeeps DEF Ledger!CloseContext
<1>3. CASE buffer # <<>> /\ outcome # "inserted"
  <2>1. Ledger!ToSet(buffer) \subseteq 1..made /\ Len(buffer) \in Nat
    BY LenProperties, ElementOfSeq DEF LedgerInv, Ledger!ToSet
  <2>2. Ledger!Kept(buffer) \in Seq(1..made) /\ Ledger!ToSet(Ledger!Kept(buffer)) \subseteq Ledger!ToSet(buffer)
    BY KeptAreThere DEF LedgerInv
  <2>3. /\ Ledger!Add(buffer, stored) \in [1..made -> Nat]
        /\ \A i \in 1..made :
             Ledger!Add(buffer, stored)[i] = IF i \in Ledger!ToSet(buffer) THEN stored[i] + 1 ELSE stored[i]
    BY DEF Ledger!Add, LedgerInv
  <2>4. /\ buffer' = Ledger!Kept(buffer) /\ lost' = lost \cup Ledger!ToSet(buffer)
        /\ flushAt' = Len(buffer) + Threshold
        /\ \/ stored' = stored /\ unknown' = unknown
           \/ stored' = Ledger!Add(buffer, stored) /\ unknown' = unknown \cup Ledger!ToSet(buffer)
    BY <1>3 DEF Ledger!CloseContext, Ledger!Outcomes
  <2>5. /\ made' \in Nat /\ buffer' \in Seq(1..made') /\ flushAt' \in Nat
        /\ stored' \in [1..made' -> Nat] /\ unknown' \subseteq 1..made'
    <3>1. made \in Nat /\ 1..made' = 1..made /\ stored \in [1..made -> Nat]
          /\ unknown \subseteq 1..made
      BY <1>0 DEF LedgerInv
    <3>2. buffer' \in Seq(1..made')  BY <2>2, <2>4, <3>1
    <3>3. flushAt' \in Nat  BY <2>1, <2>4
    <3>4. stored' \in [1..made' -> Nat]  BY <2>3, <2>4, <3>1
    <3>5. unknown' \subseteq 1..made'  BY <2>1, <2>4, <3>1
    <3>6. made' \in Nat  BY <1>0, <3>1
    <3>7. QED  BY <3>2, <3>3, <3>4, <3>5, <3>6
  <2>6. ASSUME NEW i \in 1..made PROVE Entered(i)'
    <3>1. Entered(i) /\ stored[i] \in Nat  BY DEF LedgerInv
    <3>2. CASE i \in Ledger!ToSet(buffer)
      <4>1. i \in lost'  BY <2>4, <3>2
      <4>2. CASE stored' = stored /\ unknown' = unknown
        BY <2>2, <3>1, <3>2, <4>1, <4>2 DEF Entered
      <4>3. CASE stored' = Ledger!Add(buffer, stored) /\ i \in unknown'
        BY <2>3, <3>1, <3>2, <4>1, <4>3 DEF Entered
      <4>4. QED  BY <2>4, <3>2, <4>2, <4>3
    <3>3. CASE i \notin Ledger!ToSet(buffer)
      <4>1. stored'[i] = stored[i] /\ i \notin Ledger!ToSet(buffer') /\ (i \in unknown => i \in unknown')
            /\ (i \in lost => i \in lost')
        BY <2>2, <2>3, <2>4, <3>3
      <4>2. QED  BY <3>1, <3>3, <4>1 DEF Entered
    <3>4. QED  BY <3>2, <3>3
  <2>7. QED  BY <1>0, <2>5, <2>6 DEF LedgerInv
<1>4. QED  BY <1>1, <1>2, <1>3

(* Once the context is closed, what the buffer still holds was reported    *)
(* lost or came later.                                                     *)
ReportedOrLate ==
  /\ context \in {"open", "closed"}
  /\ context = "closed" => Ledger!ToSet(buffer) \subseteq lost \cup late
LEMMA LateStep ==
  ASSUME Cap \in Nat, LedgerInv, ReportedOrLate, [Ledger!Next]_(Ledger!ledgerVars)
  PROVE  ReportedOrLate'
<1>1. ASSUME NEW outcome \in Ledger!Outcomes, Ledger!Record(outcome), UNCHANGED context
      PROVE  ReportedOrLate'
  <2> DEFINE n == made + 1
             rows == Append(buffer, n)
             counts == [i \in 1..n |-> IF i \in Ledger!Recorded THEN stored[i] ELSE 0]
  <2>1. made \in Nat /\ n \in Nat /\ buffer \in Seq(1..n) /\ n \in 1..n  BY DEF LedgerInv
  <2>2. rows \in Seq(1..n) /\ Ledger!ToSet(rows) = Ledger!ToSet(buffer) \cup {n}
    BY <2>1, Appended
  <2>3. Ledger!ToSet(Ledger!Kept(rows)) \subseteq Ledger!ToSet(rows)  BY <2>2, KeptAreThere
  <2>4. Ledger!ToSet(<<>>) = {}  BY DEF Ledger!ToSet
  <2>5. context = "closed" => late' = late \cup {n}  BY <1>1 DEF Ledger!Record
  <2>6. lost \subseteq lost' /\ Ledger!ToSet(buffer') \subseteq Ledger!ToSet(rows)
    <3>1. CASE Len(rows) >= flushAt
      <4>1. Ledger!Flush(rows, counts, outcome)  BY <1>1, <3>1 DEF Ledger!Record
      <4> HIDE DEF rows, counts
      <4>2. QED  BY <2>3, <2>4, <4>1 DEF Ledger!Flush
    <3>2. CASE ~(Len(rows) >= flushAt)
      <4>1. buffer' = rows /\ lost' = lost  BY <1>1, <3>2 DEF Ledger!Record
      <4>2. QED  BY <4>1
    <3>3. QED  BY <3>1, <3>2
  <2> HIDE DEF n, rows, counts
  <2>7. QED  BY <1>1, <2>2, <2>5, <2>6 DEF ReportedOrLate
<1>2. ASSUME NEW outcome \in Ledger!Outcomes, Ledger!CloseContext(outcome) PROVE ReportedOrLate'
  <2>0. context' = "closed"  BY <1>2 DEF Ledger!CloseContext
  <2>1. Ledger!ToSet(<<>>) = {}  BY DEF Ledger!ToSet
  <2>2. CASE buffer' = <<>>  BY <2>0, <2>1, <2>2 DEF ReportedOrLate
  <2>3. CASE buffer' = Ledger!Kept(buffer) /\ lost' = lost \cup Ledger!ToSet(buffer)
    <3>1. Ledger!ToSet(Ledger!Kept(buffer)) \subseteq Ledger!ToSet(buffer)  BY KeptAreThere DEF LedgerInv
    <3>2. QED  BY <2>0, <2>3, <3>1 DEF ReportedOrLate
  <2>4. QED  BY <1>2, <2>2, <2>3 DEF Ledger!CloseContext, Ledger!Flush
<1>3. CASE UNCHANGED Ledger!ledgerVars  BY <1>3 DEF Ledger!ledgerVars, ReportedOrLate
<1>4. CASE Ledger!AskStructured         BY <1>4 DEF Ledger!AskStructured, ReportedOrLate
<1>5. QED
  BY <1>1, <1>2, <1>3, <1>4 DEF Ledger!Next, Ledger!Call, Ledger!Attempt

(* usage_ledger.py: "The buffer is emptied after a confirmed insert, never *)
(* before", for every interleaving of calls, retries and failing inserts.  *)
THEOREM EveryRowAccountedFor ==
  ASSUME Cap \in Nat, Threshold \in Nat
  PROVE  Ledger!Spec => []RowsAccountedFor
<1>1. Ledger!Init => LedgerInv /\ ReportedOrLate
  BY DEF Ledger!Init, LedgerInv, ReportedOrLate, Entered, Ledger!ToSet
<1>2. LedgerInv /\ [Ledger!Next]_(Ledger!ledgerVars) => LedgerInv'
  <2> SUFFICES ASSUME LedgerInv, [Ledger!Next]_(Ledger!ledgerVars) PROVE LedgerInv'  OBVIOUS
  <2>1. CASE UNCHANGED Ledger!ledgerVars  BY <2>1 DEF Ledger!ledgerVars, LedgerInv, Entered
  <2>2. CASE Ledger!AskStructured         BY <2>2 DEF Ledger!AskStructured, LedgerInv, Entered
  <2>3. ASSUME NEW outcome \in Ledger!Outcomes, Ledger!Call(outcome) PROVE LedgerInv'
    BY <2>3, RecordKeeps DEF Ledger!Call
  <2>4. ASSUME NEW outcome \in Ledger!Outcomes, NEW parses \in BOOLEAN, Ledger!Attempt(outcome, parses)
        PROVE  LedgerInv'
    BY <2>4, RecordKeeps DEF Ledger!Attempt
  <2>5. ASSUME NEW outcome \in Ledger!Outcomes, Ledger!CloseContext(outcome) PROVE LedgerInv'
    BY <2>5, CloseKeeps
  <2>6. QED  BY <2>1, <2>2, <2>3, <2>4, <2>5 DEF Ledger!Next
<1>3. LedgerInv /\ ReportedOrLate /\ [Ledger!Next]_(Ledger!ledgerVars) => ReportedOrLate'
  BY LateStep
<1>4. LedgerInv /\ ReportedOrLate => RowsAccountedFor
  BY DEF LedgerInv, ReportedOrLate, Entered, RowsAccountedFor, Ledger!RowsAccountedFor, Ledger!Recorded
<1>5. QED  BY <1>1, <1>2, <1>3, <1>4, PTL DEF Ledger!Spec

-----------------------------------------------------------------------------
(***************************************************************************)
(* The page that is delivered is the best of the rounds that were judged.  *)
(***************************************************************************)
(* What a page of the model may claim, and a round that was judged.        *)
Ever == UNION Rewriting!Drafts
Dimensions == {"copy", "design", "measured"}
JudgedRounds ==
  [claims : SUBSET Ever, scores : Rewriting!Scores, fallen : SUBSET Dimensions]

LEMMA ThreeMoreAreFinite ==
  ASSUME NEW S, IsFiniteSet(S), NEW a, NEW b, NEW c
  PROVE  IsFiniteSet(S \cup {a, b, c})
<1>1. IsFiniteSet(S \cup {a})  BY FS_AddElement
<1>2. IsFiniteSet((S \cup {a}) \cup {b})  BY <1>1, FS_AddElement
<1>3. IsFiniteSet(((S \cup {a}) \cup {b}) \cup {c})  BY <1>2, FS_AddElement
<1>4. ((S \cup {a}) \cup {b}) \cup {c} = S \cup {a, b, c}  OBVIOUS
<1>5. QED  BY <1>3, <1>4
LEMMA EverIsFinite == IsFiniteSet(Ever)
<1> DEFINE a == Rewriting!Badge("soc2")
           b == Rewriting!Figure("percent", 124, 1)
           c == Rewriting!Scale("teams", 40000)
           d == Rewriting!Badge("hipaa")
           e == Rewriting!Figure("percent", 120, 0)
           f == Rewriting!Figure("percent", 130, 0)
           g == Rewriting!Scale("teams", 50000)
           h == Rewriting!Badge("iso27001")
           i == Rewriting!Figure("dollars", 120, 0)
           mine == {a, b, c}   more == mine \cup {d, e, f}   whole == more \cup {g, h, i}
<1>1. \A p \in Rewriting!Drafts : p \subseteq whole
  BY DEF Rewriting!Drafts, Rewriting!HomePage
<1> HIDE DEF a, b, c, d, e, f, g, h, i
<1>2. IsFiniteSet(mine)
  <2>1. IsFiniteSet({} \cup {a, b, c})  BY FS_EmptySet, ThreeMoreAreFinite
  <2>2. {} \cup {a, b, c} = mine  OBVIOUS
  <2>3. QED  BY <2>1, <2>2
<1> HIDE DEF mine
<1>3. IsFiniteSet(more)  BY <1>2, ThreeMoreAreFinite
<1> HIDE DEF more
<1>4. IsFiniteSet(whole)  BY <1>3, ThreeMoreAreFinite
<1> HIDE DEF whole
<1>5. Ever \subseteq whole  BY <1>1 DEF Ever
<1>6. QED  BY <1>4, <1>5, FS_Subset

LEMMA DimensionsAreFinite ==
  /\ IsFiniteSet(Dimensions)
  /\ Cardinality({"copy", "design"}) = 2 /\ Cardinality(Dimensions) = 3
<1>1. IsFiniteSet({"copy"}) /\ Cardinality({"copy"}) = 1  BY FS_Singleton
<1>2. /\ IsFiniteSet({"copy"} \cup {"design"})
      /\ Cardinality({"copy"} \cup {"design"}) = 2
  BY <1>1, FS_AddElement
<1>3. {"copy"} \cup {"design"} = {"copy", "design"}  OBVIOUS
<1>4. /\ IsFiniteSet({"copy", "design"} \cup {"measured"})
      /\ Cardinality({"copy", "design"} \cup {"measured"}) = 3
  BY <1>2, <1>3, FS_AddElement
<1>5. {"copy", "design"} \cup {"measured"} = Dimensions  BY DEF Dimensions
<1>6. QED  BY <1>2, <1>3, <1>4, <1>5

(* What two rounds are compared by are numbers.                            *)
LEMMA RoundsAreMeasured ==
  ASSUME NEW x \in JudgedRounds
  PROVE  /\ Rewriting!Forged(x.claims) \in Nat /\ Rewriting!Cardinality(x.fallen) \in Nat
         /\ Rewriting!Overall(x.scores) \in Int
<1>1. Rewriting!Forged(x.claims) \in Nat
  <2> DEFINE badges == {c \in x.claims : c.kind = "certification"}
  <2>1. badges \in SUBSET Ever  BY DEF JudgedRounds
  <2>2. IsFiniteSet(badges)  BY <2>1, EverIsFinite, FS_Subset
  <2>3. Cardinality(badges) \in Nat  BY <2>2, FS_CardinalityType
  <2>4. Rewriting!Forged(x.claims) = Rewriting!Cardinality(badges)  BY DEF Rewriting!Forged
  <2>5. Rewriting!Cardinality(badges) = Cardinality(badges)  BY DEF Rewriting!Cardinality, Cardinality
  <2>6. QED  BY <2>3, <2>4, <2>5
<1>2. Rewriting!Cardinality(x.fallen) \in Nat
  <2>1. x.fallen \in SUBSET Dimensions  BY DEF JudgedRounds
  <2>2. IsFiniteSet(x.fallen)  BY <2>1, DimensionsAreFinite, FS_Subset
  <2>3. Rewriting!Cardinality(x.fallen) = Cardinality(x.fallen)
    BY DEF Rewriting!Cardinality, Cardinality
  <2>4. QED  BY <2>2, <2>3, FS_CardinalityType
<1>3. Rewriting!Overall(x.scores) \in Int
  <2> DEFINE s == x.scores  n == Rewriting!Cardinality(DOMAIN s)
  <2>1. /\ s["copy"] \in Int /\ s["design"] \in Int
        /\ "measured" \in DOMAIN s => s["measured"] \in Int
        /\ DOMAIN s = {"copy", "design"} \/ DOMAIN s = Dimensions
    BY DEF JudgedRounds, Rewriting!Scores, Dimensions
  <2>2. n = Cardinality(DOMAIN s)  BY DEF Rewriting!Cardinality, Cardinality
  <2>3. n = 2 \/ n = 3  BY <2>1, <2>2, DimensionsAreFinite
  <2>4. Rewriting!Sum(s) \in Int  BY <2>1 DEF Rewriting!Sum
  <2>5. Rewriting!Overall(s) = (2 * Rewriting!Sum(s) + n) \div (2 * n)  BY DEF Rewriting!Overall
  <2> HIDE DEF s, n
  <2>6. Rewriting!Overall(s) \in Int  BY <2>3, <2>4, <2>5
  <2>7. QED  BY <2>6 DEF s
<1>4. QED  BY <1>1, <1>2, <1>3

(* b is no worse than x.                                                   *)
AsGood(b, x) ==
  /\ Rewriting!Forged(b.claims) <= Rewriting!Forged(x.claims)
  /\ Rewriting!Forged(b.claims) = Rewriting!Forged(x.claims)
       => Rewriting!Cardinality(b.fallen) <= Rewriting!Cardinality(x.fallen)
  /\ (/\ Rewriting!Forged(b.claims) = Rewriting!Forged(x.claims)
      /\ Rewriting!Cardinality(b.fallen) = Rewriting!Cardinality(x.fallen))
       => Rewriting!Overall(b.scores) >= Rewriting!Overall(x.scores)
LEMMA BetterIsAsGood ==
  ASSUME NEW x \in JudgedRounds, NEW b \in JudgedRounds, NEW new \in JudgedRounds
  PROVE  /\ AsGood(x, x)
         /\ AsGood(b, x) /\ Rewriting!Better(new, b) => AsGood(new, x)
         /\ ~Rewriting!Better(new, b) => AsGood(b, new)
<1> DEFINE f(y) == Rewriting!Forged(y.claims)  d(y) == Rewriting!Cardinality(y.fallen)
           m(y) == Rewriting!Overall(y.scores)
<1>1. \A y \in {x, b, new} : f(y) \in Nat /\ d(y) \in Nat /\ m(y) \in Int  BY RoundsAreMeasured
<1>2. \A y, z \in {x, b, new} :
        AsGood(y, z) <=> /\ f(y) <= f(z) /\ (f(y) = f(z) => d(y) <= d(z))
                         /\ ((f(y) = f(z) /\ d(y) = d(z)) => m(y) >= m(z))
  BY DEF AsGood
<1>3. Rewriting!Better(new, b) <=> IF f(new) # f(b) THEN f(new) < f(b)
                                   ELSE IF d(new) # d(b) THEN d(new) < d(b) ELSE m(new) > m(b)
  BY DEF Rewriting!Better
<1> HIDE DEF f, d, m
<1>4. QED  BY <1>1, <1>2, <1>3

RewriteInv ==
  /\ draft.claims \subseteq Ever
  /\ rounds \in Seq(JudgedRounds)
  /\ best \in 0..Len(rounds) /\ (best = 0 => rounds = <<>>)
  /\ best # 0 => \A i \in 1..Len(rounds) : AsGood(rounds[best], rounds[i])

LEMMA JudgeKeeps ==
  ASSUME RewriteInv, NEW scores \in Rewriting!Scores, Rewriting!JudgeRound(scores)
  PROVE  RewriteInv'
<1> DEFINE this == [claims |-> draft.claims, scores |-> scores, fallen |-> Rewriting!Fallen(scores)]
           n == Len(rounds) + 1
<1>1. /\ rounds' = Append(rounds, this)
      /\ best' = IF best = 0 \/ Rewriting!Better(this, rounds[best]) THEN n ELSE best
      /\ draft' = Rewriting!NoDraft
  BY DEF Rewriting!JudgeRound
<1>2. this \in JudgedRounds
  <2>1. DOMAIN scores \subseteq Dimensions  BY DEF Rewriting!Scores, Dimensions
  <2>2. Rewriting!Fallen(scores) \subseteq Dimensions  BY <2>1 DEF Rewriting!Fallen
  <2>3. QED  BY <2>2 DEF JudgedRounds, RewriteInv
<1> HIDE DEF this
<1>3. /\ rounds' \in Seq(JudgedRounds) /\ Len(rounds') = n /\ rounds'[n] = this
      /\ \A i \in 1..Len(rounds) : rounds'[i] = rounds[i] /\ rounds[i] \in JudgedRounds
      /\ Len(rounds) \in Nat
  BY <1>1, <1>2 DEF RewriteInv
<1>4. draft'.claims \subseteq Ever  BY <1>1 DEF Rewriting!NoDraft
<1>5. best' \in 1..n  BY <1>1, <1>3 DEF RewriteInv
<1>6. ASSUME NEW i \in 1..n PROVE AsGood(rounds'[best'], rounds'[i])
  <2>1. CASE best = 0
    <3>1. n = 1 /\ best' = 1  BY <1>1, <2>1 DEF RewriteInv
    <3>2. rounds'[best'] = this /\ rounds'[i] = this  BY <1>3, <3>1
    <3>3. QED  BY <1>2, <3>2, BetterIsAsGood
  <2>2. CASE best # 0 /\ Rewriting!Better(this, rounds[best])
    <3>1. rounds'[best'] = this /\ rounds[best] \in JudgedRounds  BY <1>1, <1>3, <2>2 DEF RewriteInv
    <3>2. CASE i = n  BY <1>2, <1>3, <3>1, <3>2, BetterIsAsGood
    <3>3. CASE i \in 1..Len(rounds)
      <4>1. AsGood(rounds[best], rounds[i]) /\ rounds'[i] = rounds[i] /\ rounds[i] \in JudgedRounds
        BY <1>3, <2>2, <3>3 DEF RewriteInv
      <4>2. QED  BY <1>2, <2>2, <3>1, <4>1, BetterIsAsGood
    <3>4. QED  BY <1>3, <3>2, <3>3
  <2>3. CASE best # 0 /\ ~Rewriting!Better(this, rounds[best])
    <3>1. best' = best /\ best \in 1..Len(rounds)  BY <1>1, <2>3 DEF RewriteInv
    <3>2. rounds'[best'] = rounds[best] /\ rounds[best] \in JudgedRounds  BY <1>3, <3>1
    <3>3. CASE i = n  BY <1>2, <1>3, <2>3, <3>2, <3>3, BetterIsAsGood
    <3>4. CASE i \in 1..Len(rounds)
      <4>1. AsGood(rounds[best], rounds[i]) /\ rounds'[i] = rounds[i]  BY <1>3, <2>3, <3>4 DEF RewriteInv
      <4>2. QED  BY <3>2, <4>1
    <3>5. QED  BY <1>3, <3>3, <3>4
  <2>4. QED  BY <2>1, <2>2, <2>3
<1>7. QED  BY <1>3, <1>4, <1>5, <1>6 DEF RewriteInv

(* "A higher mean is not allowed to buy" an invented certification or a    *)
(* dimension given up, whatever the rounds, the target and the limits are. *)
THEOREM BestRoundIsDelivered == Rewriting!Spec => []NoRoundWasBetter
<1>1. Rewriting!Init => RewriteInv
  BY DEF Rewriting!Init, RewriteInv, Rewriting!NoDraft
<1>2. RewriteInv /\ [Rewriting!Next]_(Rewriting!rewriteVars) => RewriteInv'
  <2> SUFFICES ASSUME RewriteInv, [Rewriting!Next]_(Rewriting!rewriteVars) PROVE RewriteInv'  OBVIOUS
  <2>0. ASSUME UNCHANGED <<rounds, best>>, draft'.claims \subseteq Ever PROVE RewriteInv'
    BY <2>0 DEF RewriteInv
  <2>1. CASE UNCHANGED Rewriting!rewriteVars
    BY <2>0, <2>1 DEF Rewriting!rewriteVars, RewriteInv
  <2>2. ASSUME NEW from \in Rewriting!Sources, NEW scores \in Rewriting!Scores, Rewriting!Ask(from, scores)
        PROVE  RewriteInv'
    BY <2>0, <2>2 DEF Rewriting!Ask, RewriteInv
  <2>3. ASSUME NEW answer \in Rewriting!Drafts, Rewriting!Written(answer) \/ Rewriting!Rewritten(answer)
        PROVE  RewriteInv'
    <3>1. Rewriting!Unsupported(source, answer) \subseteq Ever  BY DEF Rewriting!Unsupported, Ever
    <3>2. UNCHANGED <<rounds, best>> /\ draft'.claims \subseteq Ever
      BY <2>3, <3>1 DEF Rewriting!Written, Rewriting!Rewritten, RewriteInv
    <3>3. QED  BY <2>0, <3>2
  <2>4. CASE Rewriting!Unreadable
    BY <2>0, <2>4 DEF Rewriting!Unreadable, Rewriting!NoDraft
  <2>5. CASE Rewriting!UnreadableAgain
    BY <2>0, <2>5 DEF Rewriting!UnreadableAgain, Rewriting!GiveUp, RewriteInv
  <2>6. CASE Rewriting!ModelRaises
    BY <2>0, <2>6 DEF Rewriting!ModelRaises, Rewriting!GiveUp, RewriteInv
  <2>7. CASE Rewriting!Gauntlet
    <3>1. CASE Rewriting!JudgeFails
      BY <2>0, <3>1 DEF Rewriting!JudgeFails, Rewriting!GiveUp, RewriteInv
    <3>2. ASSUME NEW s \in Rewriting!Scores, Rewriting!JudgeRound(s) PROVE RewriteInv'  BY <3>2, JudgeKeeps
    <3>3. QED  BY <2>7, <3>1, <3>2 DEF Rewriting!Gauntlet
  <2>8. QED  BY <2>1, <2>2, <2>3, <2>4, <2>5, <2>6, <2>7 DEF Rewriting!Next
<1>3. RewriteInv => NoRoundWasBetter
  BY DEF RewriteInv, AsGood, NoRoundWasBetter, Rewriting!NoRoundWasBetter
<1>4. QED  BY <1>1, <1>2, <1>3, PTL DEF Rewriting!Spec

-----------------------------------------------------------------------------
(***************************************************************************)
(* A price in a document is the founder's, and a length of time was told.  *)
(***************************************************************************)
DocumentInv == run \in Documents!Asked /\ RoomSetsNoPrice

LEMMA SlotsAreANumber == Documents!PainSlots \in Int
<1> DEFINE slots == {Documents!Skeleton[i][2] : i \in DOMAIN Documents!Skeleton}
<1>1. slots \subseteq 0..3 /\ 3 \in slots
  BY DEF Documents!Skeleton
<1>2. \E x \in slots : \A y \in slots : x >= y  BY <1>1
<1>3. Documents!Max(slots) \in slots  BY <1>2 DEF Documents!Max
<1>4. QED  BY <1>1, <1>3 DEF Documents!PainSlots

(* The objections a document loads are among those that were measured.     *)
LEMMA RanksWereMeasured ==
  ASSUME NEW n \in Nat, NEW limit \in Int
  PROVE  Documents!Ranks(n, limit) \subseteq 1..n
BY DEF Documents!Ranks

(* What a document takes its figures from.                                 *)
Licensed(c) ==
  /\ c.kind = "money" /\ Documents!Priced => c.n \in Documents!Numbers(Documents!FounderSaid)
  /\ c.kind = "span" => <<c.n, c.unit>> \in run.column \cup Documents!Said(run.copy, run.tested)
                          \cup run.buyers \cup Documents!Said(run.room, 1..run.measured)
LEMMA ScrubbedIsTold ==
  ASSUME NEW limit \in Int, NEW keys, keys \subseteq run.tested, run.measured \in Nat,
         NEW more, more \subseteq run.buyers, NEW material,
         material = Documents!Material(limit, keys) \cup more,
         NEW claim, NEW c \in Documents!Scrub(claim, material)
  PROVE  Licensed(c)
<1>1. c = claim /\ Documents!Supported(c, material)  BY DEF Documents!Scrub
<1>2. c.kind = "money" /\ Documents!Priced => c.n \in Documents!Numbers(Documents!FounderSaid)
  BY <1>1 DEF Documents!Supported, Documents!Offer
<1>3. ASSUME c.kind = "span"
      PROVE  <<c.n, c.unit>> \in run.column \cup Documents!Said(run.copy, run.tested)
               \cup run.buyers \cup Documents!Said(run.room, 1..run.measured)
  <2>1. <<c.n, c.unit>> \in material  BY <1>1, <1>3 DEF Documents!Supported, Documents!Offer, Documents!Told
  <2>2. Documents!Said(run.copy, keys) \subseteq Documents!Said(run.copy, run.tested)
    BY DEF Documents!Said
  <2>3. Documents!Said(run.room, Documents!Ranks(run.measured, limit))
          \subseteq Documents!Said(run.room, 1..run.measured)
    BY RanksWereMeasured DEF Documents!Said
  <2>4. QED  BY <2>1, <2>2, <2>3 DEF Documents!Material
<1>4. QED  BY <1>2, <1>3 DEF Licensed

(* gtm_documents: neither what a buyer said it costs nor a count licenses  *)
(* a price, however many objections each document loads.                   *)
THEOREM PricesAreTheFounders ==
  ASSUME MaxRows \in Int, MaxObjections \in Int
  PROVE  Documents!Spec => []RoomSetsNoPrice
<1> USE DEF RoomSetsNoPrice
<1>1. Documents!Init => DocumentInv
  BY DEF Documents!Init, DocumentInv, Documents!RoomSetsNoPrice, Documents!Built
<1>2. DocumentInv /\ [Documents!Next]_(Documents!docVars) => DocumentInv'
  <2> SUFFICES ASSUME DocumentInv, [Documents!Next]_(Documents!docVars) PROVE DocumentInv'  OBVIOUS
  <2>0. run.measured \in Nat  BY DEF DocumentInv, Documents!Asked
  <2>1. CASE UNCHANGED Documents!docVars
    BY <2>1 DEF Documents!docVars, DocumentInv, Documents!RoomSetsNoPrice, Documents!Built, Documents!Priced,
                Documents!FounderSaid
  <2>2. ASSUME doc' = [kind |-> "refused"], UNCHANGED run PROVE DocumentInv'
    BY <2>2 DEF DocumentInv, Documents!RoomSetsNoPrice, Documents!Built
  <2>3. ASSUME UNCHANGED run, NEW limit \in Int, NEW keys, keys \subseteq run.tested,
               NEW more, more \subseteq run.buyers, NEW claim,
               doc'.claims = Documents!Scrub(claim, Documents!Material(limit, keys) \cup more)
        PROVE  DocumentInv'
    <3>1. \A c \in doc'.claims : Licensed(c)
      <4>1. PICK material : material = Documents!Material(limit, keys) \cup more  OBVIOUS
      <4>2. doc'.claims = Documents!Scrub(claim, material)  BY <2>3, <4>1
      <4>3. \A c \in Documents!Scrub(claim, material) : Licensed(c)  BY <2>0, <2>3, <4>1, ScrubbedIsTold
      <4>4. QED  BY <4>2, <4>3
    <3>2. (Documents!Priced)' <=> Documents!Priced  BY <2>3 DEF Documents!Priced, Documents!FounderSaid
    <3>3. (Documents!FounderSaid)' = Documents!FounderSaid  BY <2>3 DEF Documents!FounderSaid
    <3>4. QED  BY <2>3, <3>1, <3>2, <3>3 DEF DocumentInv, Documents!RoomSetsNoPrice, Licensed
  <2>4. ASSUME NEW cited, NEW cards, NEW claim, Documents!BuildAnswerPack(cited, cards, claim)
        PROVE  DocumentInv'
    <3>1. CASE run.measured = 0
      BY <2>2, <2>4, <3>1 DEF Documents!BuildAnswerPack, Documents!Refuse
    <3>2. CASE run.measured # 0
      <4>1. doc'.claims = Documents!Scrub(claim, Documents!Material(MaxRows, {})) /\ UNCHANGED run
        BY <2>4, <3>2 DEF Documents!BuildAnswerPack
      <4>2. Documents!Material(MaxRows, {}) \cup {} = Documents!Material(MaxRows, {})  OBVIOUS
      <4>3. QED  BY <2>3, <4>1, <4>2
    <3>3. QED  BY <3>1, <3>2
  <2>5. ASSUME NEW cited, NEW sets, NEW claim, Documents!BuildMessagingDoc(cited, sets, claim)
        PROVE  DocumentInv'
    <3>1. CASE run.measured = 0
      BY <2>2, <2>5, <3>1 DEF Documents!BuildMessagingDoc, Documents!Refuse
    <3>2. CASE run.measured # 0
      <4>1. doc'.claims = Documents!Scrub(claim, Documents!Material(MaxObjections, run.tested)) /\ UNCHANGED run
        BY <2>5, <3>2 DEF Documents!BuildMessagingDoc
      <4>2. Documents!Material(MaxObjections, run.tested) \cup {} = Documents!Material(MaxObjections, run.tested)
        OBVIOUS
      <4>3. QED  BY <2>3, <4>1, <4>2
    <3>3. QED  BY <3>1, <3>2
  <2>6. ASSUME NEW a, NEW claim, Documents!BuildSequences(a, claim) PROVE DocumentInv'
    <3> DEFINE lead == {k \in Documents!Winner : \E s \in run.copy : s[1] = k}
    <3>1. CASE run.measured = 0 \/ run.archetypes = 0
      <4>1. doc' = [kind |-> "refused"] /\ UNCHANGED run
        BY <2>6, <3>1 DEF Documents!BuildSequences, Documents!Refuse
      <4>2. QED  BY <2>2, <4>1
    <3>2. CASE ~(run.measured = 0 \/ run.archetypes = 0)
      <4>1. /\ doc'.claims = Documents!Scrub(claim, Documents!Material(Documents!PainSlots, lead) \cup run.buyers)
            /\ UNCHANGED run
        BY <2>6, <3>2 DEF Documents!BuildSequences
      <4>2. lead \subseteq run.tested  BY DEF Documents!Winner
      <4>3. QED  BY <2>3, <4>1, <4>2, SlotsAreANumber
    <3>3. QED  BY <3>1, <3>2
  <2>7. QED  BY <2>1, <2>4, <2>5, <2>6 DEF Documents!Next
<1>3. DocumentInv => RoomSetsNoPrice  BY DEF DocumentInv
<1>4. QED  BY <1>1, <1>2, <1>3, PTL DEF Documents!Spec

-----------------------------------------------------------------------------
(***************************************************************************)
(* What a shortlist says of a firm, the firm said.                         *)
(***************************************************************************)
(* A sector, a stage or an end of the range that is known was quoted.      *)
Quoted(r) ==
  /\ \A field \in Curating!Claimed(r) :
       \E e \in r.firm.evidence : e.field = field /\ e.verbatim /\ e.url \in r.pages
  /\ r.low \in Nat /\ r.high \in Nat
(* Nobody the record rules out.                                            *)
Speaks(r, c) ==
  /\ r.stages = {} \/ c.stage \in r.stages \cup {"none"}
  /\ c.need = 0 \/ (r.low <= c.need /\ (r.high = 0 \/ c.need <= r.high))
(* One record to a domain.                                                 *)
OneToADomain(S) == \A r, q \in S : r.firm.domain = q.firm.domain => r = q
ListInv ==
  /\ IsFiniteSet(bank) /\ OneToADomain(bank) /\ \A r \in bank : Quoted(r)
  /\ OneToADomain(Curating!ToSet(shortlist.matches))
  /\ \A r \in Curating!ToSet(shortlist.matches) : Quoted(r) /\ Speaks(r, shortlist.for)
  /\ \A r \in shortlist.refusals : Quoted(r)
  /\ shortlist.refusals \cap (Curating!ToSet(shortlist.matches) \cup shortlist.withheld) = {}

LEMMA SampleIsTyped ==
  /\ \A f \in SomeFirms : f.low \in Nat /\ f.high \in Nat
  /\ \A c \in ThreeFounders : c.need \in Nat
BY DEF SomeFirms, Firm, ThreeFounders, Founder

(* verify_firms: what is recorded was quoted from a page the search        *)
(* returned.                                                               *)
LEMMA RecordsAreQuoted ==
  ASSUME NEW f \in SomeFirms, NEW urls
  PROVE  Quoted(Curating!Record(f, urls))
<1> DEFINE r == Curating!Record(f, urls)
<1>1. /\ r.firm = f /\ r.pages = urls
      /\ r.sectors = Curating!Kept(f, urls, "sectors", f.sectors, {})
      /\ r.stages = Curating!Kept(f, urls, "stages", f.stages, {})
      /\ r.low = Curating!Kept(f, urls, "low", f.low, 0)
      /\ r.high = Curating!Kept(f, urls, "high", f.high, 0)
  BY DEF Curating!Record, Curating!Low, Curating!High
<1> HIDE DEF r
<1>2. Curating!Claimed(r) \subseteq Curating!Supported(f, urls) /\ r.low \in Nat /\ r.high \in Nat
  BY <1>1, SampleIsTyped DEF Curating!Kept, Curating!Claimed
<1>3. \A field \in Curating!Supported(f, urls) :
        \E e \in f.evidence : e.field = field /\ e.verbatim /\ e.url \in urls
  BY DEF Curating!Supported
<1>4. QED  BY <1>1, <1>2, <1>3 DEF Quoted, r

(* The first of a ranking are among what was ranked.                       *)
LEMMA FirstAreRanked ==
  ASSUME MostMatches \in Nat, NEW S, IsFiniteSet(S), NEW c, NEW ranked \in Curating!Ranked(S, c)
  PROVE  Curating!ToSet(SubSeq(ranked, 1, Curating!Min({MostMatches, Len(ranked)}))) \subseteq S
<1> DEFINE n == Cardinality(S)  m == Curating!Min({MostMatches, Len(ranked)})
<1>1. n \in Nat  BY FS_CardinalityType
<1>2. Curating!Cardinality(S) = n  BY DEF Curating!Cardinality, Cardinality
<1>3. ranked \in [1..n -> S]  BY <1>2 DEF Curating!Ranked, Curating!SetToSeqs
<1> HIDE DEF n
<1>4. ranked \in Seq(S) /\ Len(ranked) = n  BY <1>1, <1>3
<1>5. m \in {MostMatches, n} /\ m <= n
  <2>1. \E x \in {MostMatches, n} : \A y \in {MostMatches, n} : x =< y  BY <1>1
  <2>2. m = CHOOSE x \in {MostMatches, n} : \A y \in {MostMatches, n} : x =< y
    BY <1>4 DEF Curating!Min
  <2>3. QED  BY <2>1, <2>2
<1> HIDE DEF m
<1>6. m \in Int /\ \A i \in 1..m : ranked[i] \in S  BY <1>1, <1>3, <1>5
<1>7. SubSeq(ranked, 1, m) \in Seq(S)  BY <1>6, SubSeqProperties
<1>8. \A t \in Seq(S) : Curating!ToSet(t) \subseteq S  BY DEF Curating!ToSet
<1>9. Curating!ToSet(SubSeq(ranked, 1, m)) \subseteq S  BY <1>7, <1>8
<1>10. QED  BY <1>9 DEF m

LEMMA ListKeeps ==
  ASSUME MostMatches \in Nat, ListInv, NEW c \in ThreeFounders, Curating!BuildShortlist(c)
  PROVE  ListInv'
<1> DEFINE fresh == {r \in bank : clock < r.stale}
           matching == {r \in fresh : Curating!Matches(r, c)}
<1>1. PICK ranked \in Curating!Ranked(matching, c) :
        shortlist' = [for |-> c, withheld |-> bank \ fresh,
                      refusals |-> {r \in fresh : Curating!RuledOut(r, c)},
                      matches |-> SubSeq(ranked, 1, Curating!Min({MostMatches, Len(ranked)}))]
  BY DEF Curating!BuildShortlist
<1>2. bank' = bank  BY DEF Curating!BuildShortlist
<1>3. IsFiniteSet(matching)  BY FS_Subset DEF ListInv
<1> DEFINE first == SubSeq(ranked, 1, Curating!Min({MostMatches, Len(ranked)}))
<1>4. Curating!ToSet(first) \subseteq matching
  <2> HIDE DEF matching
  <2>1. QED  BY <1>3, FirstAreRanked
<1>5. /\ shortlist'.for = c /\ shortlist'.matches = first /\ shortlist'.withheld = bank \ fresh
      /\ shortlist'.refusals = {r \in fresh : Curating!RuledOut(r, c)}
  BY <1>1
<1> HIDE DEF first
<1>6. ASSUME NEW r \in matching PROVE Quoted(r) /\ Speaks(r, c) /\ ~Curating!RuledOut(r, c)
  <2>1. r \in bank /\ ~Curating!RuledOut(r, c)  BY DEF Curating!Matches
  <2>2. Quoted(r)  BY <2>1 DEF ListInv
  <2>3. Curating!StagePosition(r, c) # "refusal" /\ Curating!CheckPosition(r, c) # "refusal"
    BY <2>1 DEF Curating!RuledOut
  <2>4. r.stages = {} \/ c.stage \in r.stages \cup {"none"}  BY <2>3 DEF Curating!StagePosition
  <2>5. c.need = 0 \/ (r.low <= c.need /\ (r.high = 0 \/ c.need <= r.high))
    BY <2>2, <2>3, SampleIsTyped DEF Curating!CheckPosition, Quoted
  <2>6. QED  BY <2>1, <2>2, <2>4, <2>5 DEF Speaks
<1>7. \A r \in shortlist'.refusals : Quoted(r) /\ Curating!RuledOut(r, c) /\ r \in fresh
  BY <1>5 DEF ListInv
<1>8. OneToADomain(Curating!ToSet(first))  BY <1>4 DEF ListInv, OneToADomain
<1>9. QED  BY <1>2, <1>4, <1>5, <1>6, <1>7, <1>8 DEF ListInv

(* capital: nobody is sent to a firm that publishes a position against     *)
(* them, on what the firm's pages say word for word and nothing else.      *)
THEOREM ShortlistsAreQuoted ==
  ASSUME MostMatches \in Nat
  PROVE  Curating!Spec => []ShortlistHolds
<1>1. Curating!Init => ListInv
  BY FS_EmptySet DEF Curating!Init, Curating!NoList, Curating!ToSet, OneToADomain, ListInv
<1>2. ListInv /\ [Curating!Next]_(Curating!curationVars) => ListInv'
  <2> SUFFICES ASSUME ListInv, [Curating!Next]_(Curating!curationVars) PROVE ListInv'  OBVIOUS
  <2>0. ASSUME UNCHANGED <<bank, shortlist>> PROVE ListInv'  BY <2>0 DEF ListInv
  <2>1. CASE UNCHANGED Curating!curationVars  BY <2>0, <2>1 DEF Curating!curationVars
  <2>2. CASE Curating!SearchFails             BY <2>0, <2>2 DEF Curating!SearchFails
  <2>3. CASE Curating!Harvest                 BY <2>0, <2>3 DEF Curating!Harvest
  <2>4. CASE Curating!ToSites                 BY <2>0, <2>4 DEF Curating!ToSites
  <2>5. CASE Curating!ReadSite
    <3>1. CASE bank' = bank  BY <2>0, <2>5, <3>1 DEF Curating!ReadSite
    <3>2. ASSUME NEW urls, NEW f \in SomeFirms, NEW g \in SomeFirms,
                 Curating!Verified(f, urls, {r.firm.domain : r \in bank}),
                 Curating!Verified(g, urls, {r.firm.domain : r \in bank}),
                 f = g \/ f.domain # g.domain,
                 bank' = bank \cup {Curating!Record(f, urls), Curating!Record(g, urls)}
          PROVE  ListInv'
      <4> DEFINE x == Curating!Record(f, urls)  y == Curating!Record(g, urls)
      <4>1. shortlist' = shortlist  BY <2>5 DEF Curating!ReadSite
      <4>2. /\ x.firm = f /\ y.firm = g
            /\ f = g => x = y
            /\ \A r \in bank : r.firm.domain # f.domain /\ r.firm.domain # g.domain
        BY <3>2 DEF Curating!Record, Curating!Verified
      <4>3. Quoted(x) /\ Quoted(y)  BY RecordsAreQuoted
      <4> HIDE DEF x, y
      <4>4. IsFiniteSet(bank')
        <5>1. IsFiniteSet(bank \cup {x})  BY FS_AddElement DEF ListInv
        <5>2. IsFiniteSet((bank \cup {x}) \cup {y})  BY <5>1, FS_AddElement
        <5>3. bank' = (bank \cup {x}) \cup {y}  BY <3>2 DEF x, y
        <5>4. QED  BY <5>2, <5>3
      <4>5. bank' = bank \cup {x, y}  BY <3>2 DEF x, y
      <4>6. OneToADomain(bank')
        <5>1. OneToADomain(bank)  BY DEF ListInv
        <5>2. x = y \/ x.firm.domain # y.firm.domain  BY <3>2, <4>2
        <5>3. \A r \in bank : r.firm.domain # x.firm.domain /\ r.firm.domain # y.firm.domain  BY <4>2
        <5>4. QED  BY <4>5, <5>1, <5>2, <5>3 DEF OneToADomain
      <4>7. \A r \in bank' : Quoted(r)  BY <4>3, <4>5 DEF ListInv
      <4>8. QED  BY <4>1, <4>4, <4>6, <4>7 DEF ListInv
    <3>3. QED  BY <2>5, <3>1, <3>2 DEF Curating!ReadSite
  <2>6. CASE Curating!Finish                  BY <2>0, <2>6 DEF Curating!Finish
  <2>7. CASE Curating!Tick                    BY <2>0, <2>7 DEF Curating!Tick
  <2>8. ASSUME NEW c \in ThreeFounders, Curating!BuildShortlist(c) PROVE ListInv'  BY <2>8, ListKeeps
  <2>9. QED  BY <2>1, <2>2, <2>3, <2>4, <2>5, <2>6, <2>7, <2>8 DEF Curating!Next
<1>3. ListInv => ShortlistHolds
  BY DEF ListInv, Quoted, Speaks, OneToADomain, ShortlistHolds, Curating!ShortlistHolds, Curating!NothingGuessed,
         Curating!NeverAgainstItsWord
<1>4. QED  BY <1>1, <1>2, <1>3, PTL DEF Curating!Spec

-----------------------------------------------------------------------------
(***************************************************************************)
(* A clearance artifact claims no ground that is taken, and was read from  *)
(* the live end.                                                           *)
(***************************************************************************)
(* A queue of queries that are what they say they are: the planned one, or *)
(* it without its last term.                                               *)
Sound(e) ==
  /\ e.why \in {"planned", "broadened"} => Len(e.terms) \in Int
  /\ e.why = "planned" => e.q = Searching!Words(e.terms)
  /\ e.why = "broadened" => Len(e.terms) > 1 /\ e.q = Searching!Words(Searching!Front(e.terms))
SoundQueue(t) == \E S : t \in Seq(S) /\ \A e \in S : Sound(e)
(* The records that a query, or it without its last term, would find.      *)
Ground(terms) ==
  Searching!Matching(Searching!Words(IF Len(terms) > 1 THEN Searching!Front(terms) ELSE terms))
SearchInv ==
  /\ office \subseteq FourFilings
  /\ SoundQueue(todo) /\ \E n \in Nat : DOMAIN searchPlan.cpc = 1..n
  /\ \A x \in DOMAIN zeros : Ground(zeros[x]) = {}
  /\ DOMAIN screen \subseteq office /\ \A r \in DOMAIN screen : IsFiniteSet(screen[r])
  /\ art # {} => todo = <<>> /\ searchStage \in {"continuity", "examiners", "compose", "done", "failed"}
  /\ Searching!LiveIsReadFirst
  /\ \A a \in artifact : a.open \subseteq DOMAIN zeros
  /\ Searching!NothingPersonalKept

LEMMA PlansAreTyped ==
  \A raw \in TwoPlans :
    /\ \E n \in Nat : DOMAIN raw.cpc = 1..n
    /\ \E n \in Nat : DOMAIN raw.queries = 1..n
    /\ \A i \in DOMAIN raw.queries : Len(raw.queries[i].terms) \in Int
<1>1. \A raw \in TwoPlans : \E n \in Nat : DOMAIN raw.cpc = 1..n
  <2>1. \A raw \in TwoPlans : raw.cpc = <<>> \/ raw.cpc = <<"G06">>  BY DEF TwoPlans
  <2>2. DOMAIN <<>> = 1..0 /\ DOMAIN <<"G06">> = 1..1  OBVIOUS
  <2>3. QED  BY <2>1, <2>2
<1>2. \A raw \in TwoPlans : DOMAIN raw.queries = 1..5 \/ DOMAIN raw.queries = 1..3  BY DEF TwoPlans
<1>3. \A axis : \A a, b : Len(Query(axis, <<a>>).terms) = 1 /\ Len(Query(axis, <<a, b>>).terms) = 2
  BY DEF Query
<1>4. \A raw \in TwoPlans : \A i \in DOMAIN raw.queries : Len(raw.queries[i].terms) \in Int
  BY <1>3 DEF TwoPlans
<1>5. QED  BY <1>1, <1>2, <1>4
LEMMA FilingsAreTyped ==
  \A r \in FourFilings : IsFiniteSet(r.title) /\ IsFiniteSet(r.abstract) /\ r.live \in BOOLEAN
<1> DEFINE a == Filing(1, {"prompt"}, {"filter"}, TRUE, TRUE, "acme", "RED")
           b == Filing(2, {"prompt"}, {"filter"}, FALSE, TRUE, "private", "RED")
           c == Filing(3, {"prompt"}, {"chat"}, TRUE, FALSE, "private", "odd")
           d == Filing(4, {"lattice"}, {"prompt"}, TRUE, FALSE, "acme", "none")
<1>1. FourFilings = {a, b, c, d}  BY DEF FourFilings
<1>2. \A x : IsFiniteSet({x})  BY FS_Singleton
<1>3. IsFiniteSet(a.title) /\ IsFiniteSet(a.abstract) /\ a.live \in BOOLEAN  BY <1>2 DEF Filing
<1>4. IsFiniteSet(b.title) /\ IsFiniteSet(b.abstract) /\ b.live \in BOOLEAN  BY <1>2 DEF Filing
<1>5. IsFiniteSet(c.title) /\ IsFiniteSet(c.abstract) /\ c.live \in BOOLEAN  BY <1>2 DEF Filing
<1>6. IsFiniteSet(d.title) /\ IsFiniteSet(d.abstract) /\ d.live \in BOOLEAN  BY <1>2 DEF Filing
<1> HIDE DEF a, b, c, d
<1>7. QED  BY <1>1, <1>3, <1>4, <1>5, <1>6

LEMMA OfficeIsFinite == ASSUME NEW S, S \subseteq FourFilings PROVE IsFiniteSet(S)
<1> DEFINE a == Filing(1, {"prompt"}, {"filter"}, TRUE, TRUE, "acme", "RED")
           b == Filing(2, {"prompt"}, {"filter"}, FALSE, TRUE, "private", "RED")
           c == Filing(3, {"prompt"}, {"chat"}, TRUE, FALSE, "private", "odd")
           d == Filing(4, {"lattice"}, {"prompt"}, TRUE, FALSE, "acme", "none")
<1>1. FourFilings = {a, b, c, d}  BY DEF FourFilings
<1> HIDE DEF a, b, c, d
<1>2. IsFiniteSet({a} \cup {b, c, d})  BY FS_Singleton, ThreeMoreAreFinite
<1>3. {a} \cup {b, c, d} = FourFilings  BY <1>1
<1>4. QED  BY <1>2, <1>3, FS_Subset

(* Whatever is screened, in any order, makes such a queue.                 *)
LEMMA ListedQueue ==
  ASSUME NEW n \in Nat, NEW f, DOMAIN f = 1..n, f = [i \in DOMAIN f |-> f[i]],
         \A i \in 1..n : Sound(f[i])
  PROVE  SoundQueue(f)
<1> DEFINE S == {f[i] : i \in 1..n}
<1>1. f \in [1..n -> S]  OBVIOUS
<1>2. f \in Seq(S)  BY <1>1
<1>3. \A e \in S : Sound(e)  OBVIOUS
<1>4. QED  BY <1>2, <1>3 DEF SoundQueue

LEMMA Queues ==
  /\ SoundQueue(<<>>)
  /\ \A e : Sound(e) => SoundQueue(<<e>>)
  /\ \A t : SoundQueue(t) /\ t # <<>> => Sound(Head(t)) /\ SoundQueue(Tail(t))
  /\ \A s, t : SoundQueue(s) /\ SoundQueue(t) => SoundQueue(s \o t)
<1>1. SoundQueue(<<>>)
  <2>1. DOMAIN <<>> = 1..0 /\ <<>> = [i \in DOMAIN <<>> |-> <<>>[i]] /\ \A i \in 1..0 : Sound(<<>>[i])
    OBVIOUS
  <2>2. QED  BY <2>1, ListedQueue
<1>2. ASSUME NEW e, Sound(e) PROVE SoundQueue(<<e>>)
  <2>1. DOMAIN <<e>> = 1..1 /\ <<e>> = [i \in DOMAIN <<e>> |-> <<e>>[i]] /\ \A i \in 1..1 : Sound(<<e>>[i])
    BY <1>2
  <2>2. QED  BY <2>1, ListedQueue
<1>3. ASSUME NEW t, SoundQueue(t), t # <<>> PROVE Sound(Head(t)) /\ SoundQueue(Tail(t))
  <2>1. PICK S : t \in Seq(S) /\ \A e \in S : Sound(e)  BY <1>3 DEF SoundQueue
  <2>2. Head(t) \in S /\ Tail(t) \in Seq(S)  BY <1>3, <2>1, HeadTailProperties
  <2>3. QED  BY <2>1, <2>2 DEF SoundQueue
<1>4. ASSUME NEW s, NEW t, SoundQueue(s), SoundQueue(t) PROVE SoundQueue(s \o t)
  <2>1. PICK S : s \in Seq(S) /\ \A e \in S : Sound(e)  BY <1>4 DEF SoundQueue
  <2>2. PICK T : t \in Seq(T) /\ \A e \in T : Sound(e)  BY <1>4 DEF SoundQueue
  <2>3. s \in Seq(S \cup T) /\ t \in Seq(S \cup T)  BY <2>1, <2>2
  <2>4. s \o t \in Seq(S \cup T)  BY <2>3, ConcatProperties
  <2>5. \A e \in S \cup T : Sound(e)  BY <2>1, <2>2
  <2>6. QED  BY <2>4, <2>5 DEF SoundQueue
<1>5. QED  BY <1>1, <1>2, <1>3, <1>4

(* _normalize: what is kept of a plan becomes the queue.                   *)
LEMMA PlanKeeps == ASSUME SearchInv, Searching!BuildPlan PROVE SearchInv'
<1>1. PICK raw \in TwoPlans, hint \in {"none", "name", "invention", "both"} :
        \E order \in Searching!KeptIn(raw.queries) :
          searchPlan' = Searching!Clamp(raw, hint, "item", order)
  BY DEF Searching!BuildPlan
<1>2. PICK order \in Searching!KeptIn(raw.queries) : searchPlan' = Searching!Clamp(raw, hint, "item", order)
  BY <1>1
<1>3. /\ searchPlan'.cpc = raw.cpc
      /\ searchPlan'.queries = [i \in DOMAIN order |-> raw.queries[order[i]]]
  BY <1>2 DEF Searching!Clamp
<1>4. PICK n \in Nat : DOMAIN raw.queries = 1..n  BY PlansAreTyped
<1>5. PICK places \in SUBSET (1..n) : order \in Searching!SetToSeqs(places)
  BY <1>4 DEF Searching!KeptIn
<1>6. Cardinality(places) \in Nat
  <2>1. IsFiniteSet(1..n)  BY FS_Interval
  <2>2. IsFiniteSet(places)  BY <2>1, FS_Subset
  <2>3. QED  BY <2>2, FS_CardinalityType
<1>7. order \in [1..Cardinality(places) -> places]
  <2>1. Searching!Cardinality(places) = Cardinality(places)  BY DEF Searching!Cardinality, Cardinality
  <2>2. QED  BY <1>5, <2>1 DEF Searching!SetToSeqs
<1>8. todo' = [i \in DOMAIN order |-> Searching!Planned(raw.queries[order[i]])]
  BY <1>3 DEF Searching!BuildPlan
<1>9. \A i \in DOMAIN order : Sound(todo'[i])
  BY <1>4, <1>7, <1>8, PlansAreTyped DEF Sound, Searching!Planned
<1>10. SoundQueue(todo')  BY <1>6, <1>7, <1>8, <1>9, ListedQueue
<1>11. /\ art = {} /\ UNCHANGED <<office, zeros, screen, art, artifact>> /\ \E k \in Nat : DOMAIN searchPlan'.cpc = 1..k
  BY <1>3, PlansAreTyped DEF SearchInv, Searching!BuildPlan
<1>12. QED
  BY <1>10, <1>11 DEF SearchInv, Ground, Searching!Matching, Searching!LiveIsReadFirst, Searching!NothingPersonalKept

(* A query that is sent again says what it is.                             *)
LEMMA NextIsSound ==
  ASSUME NEW e, Sound(e), NEW n
  PROVE  SoundQueue(Searching!Next1(e, n))
<1>1. CASE Searching!Next1(e, n) = <<>>  BY <1>1, Queues
<1>2. CASE Searching!Next1(e, n) = Searching!Broadened(e) /\ e.why = "planned" /\ Searching!Broadened(e) # <<>>
  <2> DEFINE again == Searching!Rerun(e, "broadened", Searching!Front(e.terms))
  <2>1. ~(Len(e.terms) < 2) /\ Searching!Broadened(e) = <<again>>  BY <1>2 DEF Searching!Broadened
  <2>2. again.why = "broadened" /\ again.terms = e.terms /\ again.q = Searching!Words(Searching!Front(e.terms))
    BY DEF Searching!Rerun
  <2>3. Len(e.terms) \in Int  BY <1>2 DEF Sound
  <2>4. Sound(again)  BY <2>1, <2>2, <2>3 DEF Sound
  <2> HIDE DEF again
  <2>5. QED  BY <1>2, <2>1, <2>4, Queues
<1>3. CASE Searching!Next1(e, n) = Searching!Narrowed(e) /\ Searching!Narrowed(e) # <<>>
  <2>1. PICK ts : Searching!Narrowed(e) = <<Searching!Rerun(e, "narrowed", ts)>>
    BY <1>3 DEF Searching!Narrowed
  <2>2. Searching!Rerun(e, "narrowed", ts).why = "narrowed"  BY DEF Searching!Rerun
  <2>3. Sound(Searching!Rerun(e, "narrowed", ts))  BY <2>2 DEF Sound
  <2>4. QED  BY <1>3, <2>1, <2>3, Queues
<1>4. QED  BY <1>1, <1>2, <1>3 DEF Searching!Next1

(* A query that confirms open ground found nothing, and so did the shorter *)
(* one.                                                                    *)
LEMMA ConfirmedIsOpen ==
  ASSUME office \subseteq FourFilings, NEW e, Sound(e),
         Searching!Confirms(e, Searching!Cardinality(Searching!Matching(e.q)))
  PROVE  Ground(e.terms) = {}
<1>1. Searching!Matching(e.q) = {}
  <2>1. Searching!Matching(e.q) \subseteq FourFilings  BY DEF Searching!Matching
  <2>2. IsFiniteSet(Searching!Matching(e.q))  BY <2>1, OfficeIsFinite
  <2>3. Searching!Cardinality(Searching!Matching(e.q)) = Cardinality(Searching!Matching(e.q))
    BY DEF Searching!Cardinality, Cardinality
  <2>4. Cardinality(Searching!Matching(e.q)) = 0  BY <2>3 DEF Searching!Confirms
  <2>5. QED  BY <2>2, <2>4, FS_EmptySet
<1>2. CASE e.why = "broadened"
  <2>1. Len(e.terms) > 1 /\ e.q = Searching!Words(Searching!Front(e.terms))  BY <1>2 DEF Sound
  <2>2. QED  BY <1>1, <2>1 DEF Ground
<1>3. CASE e.why = "planned" /\ Searching!Broadened(e) = <<>>
  <2>1. e.q = Searching!Words(e.terms) /\ Len(e.terms) \in Int  BY <1>3 DEF Sound
  <2>2. Len(e.terms) < 2
    <3>1. \A x : <<x>> # <<>>  OBVIOUS
    <3>2. QED  BY <1>3, <3>1 DEF Searching!Broadened
  <2>3. QED  BY <1>1, <2>1, <2>2 DEF Ground
<1>4. QED  BY <1>2, <1>3 DEF Searching!Confirms

LEMMA SearchKeeps == ASSUME SearchInv, Searching!Search PROVE SearchInv'
<1> DEFINE e == Head(todo)  n == Searching!Cardinality(Searching!Matching(e.q))
<1>1. /\ todo # <<>> /\ todo' = Searching!Next1(e, n) \o Tail(todo)
      /\ zeros' = IF Searching!Confirms(e, n) /\ e.axis \notin DOMAIN zeros
                  THEN [a \in DOMAIN zeros \cup {e.axis} |-> IF a = e.axis THEN e.terms ELSE zeros[a]]
                  ELSE zeros
      /\ UNCHANGED <<office, searchPlan, tier, searchStage, art, artifact>>
  BY DEF Searching!Search
<1>2. PICK got \in SUBSET Searching!Matching(e.q) :
        screen' = [r \in DOMAIN screen \cup got |->
                     (IF r \in DOMAIN screen THEN screen[r] ELSE {}) \cup IF r \in got THEN {e.q} ELSE {}]
  BY DEF Searching!Search
<1> HIDE DEF n
<1>3. Sound(e) /\ SoundQueue(Tail(todo))  BY <1>1, Queues DEF SearchInv
<1> HIDE DEF e
<1>4. SoundQueue(todo')  BY <1>1, <1>3, NextIsSound, Queues
<1>5. \A x \in DOMAIN zeros' : Ground(zeros'[x]) = {}
  <2>1. CASE zeros' = zeros  BY <2>1 DEF SearchInv
  <2>2. CASE Searching!Confirms(e, n) /\ e.axis \notin DOMAIN zeros
    <3>1. Ground(e.terms) = {}  BY <1>3, <2>2, ConfirmedIsOpen DEF SearchInv, n
    <3>2. \A x \in DOMAIN zeros' : zeros'[x] = e.terms \/ (x \in DOMAIN zeros /\ zeros'[x] = zeros[x])
      BY <1>1, <2>2
    <3>3. QED  BY <3>1, <3>2 DEF SearchInv
  <2>3. QED  BY <1>1, <2>1, <2>2
<1>6. DOMAIN zeros \subseteq DOMAIN zeros'  BY <1>1
<1>7. DOMAIN screen' \subseteq office  BY <1>2 DEF SearchInv, Searching!Matching
<1>8. ASSUME NEW r \in DOMAIN screen' PROVE IsFiniteSet(screen'[r])
  <2>1. PICK had : had = IF r \in DOMAIN screen THEN screen[r] ELSE {}  OBVIOUS
  <2>2. screen'[r] = had \cup {e.q} \/ screen'[r] = had  BY <1>2, <2>1
  <2>3. IsFiniteSet(had)  BY <2>1, FS_EmptySet DEF SearchInv
  <2>4. IsFiniteSet(had \cup {e.q})  BY <2>3, FS_AddElement
  <2>5. QED  BY <2>2, <2>3, <2>4
<1>9. art = {} /\ art' = {}  BY <1>1 DEF SearchInv
<1>10. \A terms : Ground(terms)' = Ground(terms)  BY <1>1 DEF Ground, Searching!Matching
<1>11. QED
  BY <1>1, <1>4, <1>5, <1>6, <1>7, <1>8, <1>9, <1>10 DEF SearchInv, Searching!LiveIsReadFirst, Searching!NothingPersonalKept

(* A new queue, before anything is read.                                   *)
LEMMA TurnKeeps ==
  ASSUME SearchInv, NEW from \in {"words", "names", "repeats"}, NEW to, NEW qs, SoundQueue(qs),
         Searching!Turn(from, to, qs)
  PROVE  SearchInv'
<1>1. /\ todo' = qs /\ art = {}
      /\ UNCHANGED <<office, searchPlan, tier, searched, screen, zeros, art, artifact>>
  BY DEF Searching!Turn, SearchInv
<1>2. QED
  BY <1>1 DEF SearchInv, Ground, Searching!Matching, Searching!LiveIsReadFirst, Searching!NothingPersonalKept

(* The sweeps.                                                             *)
LEMMA SweepIsSound == ASSUME NEW q PROVE Sound(Searching!Sweep(q))
BY DEF Sound, Searching!Sweep
LEMMA RepeatsAreAQueue ==
  ASSUME SearchInv, NEW skip
  PROVE  SoundQueue(Searching!SetToSeq({Searching!Sweep(Searching!ByName(x)) :
                                          x \in Searching!RepeatAssignees(skip)}))
<1> DEFINE S == {Searching!Sweep(Searching!ByName(x)) : x \in Searching!RepeatAssignees(skip)}
           T == {r \in DOMAIN screen : r.assignee \in Searching!RepeatAssignees(skip)}
           f == [r \in T |-> Searching!Sweep(Searching!ByName(r.assignee))]
<1>1. IsFiniteSet(T)
  <2>1. T \subseteq FourFilings  BY DEF SearchInv
  <2>2. QED  BY <2>1, OfficeIsFinite
<1>2. \A x \in Searching!RepeatAssignees(skip) : \E r \in T : r.assignee = x
  BY DEF Searching!RepeatAssignees
<1>3. f \in Surjection(T, S)
  <2>1. f \in [T -> S]  OBVIOUS
  <2>2. \A s \in S : \E r \in T : f[r] = s  BY <1>2
  <2>3. QED  BY <2>1, <2>2 DEF Surjection
<1>4. \A s \in S : Sound(s)  BY SweepIsSound
<1> HIDE DEF S, f, T
<1>5. IsFiniteSet(S)  BY <1>1, <1>3, FS_Surjection
<1>6. PICK g : g \in Bijection(1..Cardinality(S), S)  BY <1>5, FS_CardinalityType DEF ExistsBijection
<1>7. Cardinality(S) \in Nat  BY <1>5, FS_CardinalityType
<1>8. g \in [1..Cardinality(S) -> S] /\ \A a, b \in DOMAIN g : g[a] = g[b] => a = b
  BY <1>6 DEF Bijection, Injection, IsInjective
<1>9. Searching!SetToSeq(S) = CHOOSE h \in [1..Cardinality(S) -> S] : Searching!IsInjective(h)
  <2>1. Searching!Cardinality(S) = Cardinality(S)  BY DEF Searching!Cardinality, Cardinality
  <2>2. QED  BY <2>1 DEF Searching!SetToSeq
<1>10. Searching!IsInjective(g)  BY <1>8 DEF Searching!IsInjective
<1>11. Searching!SetToSeq(S) \in [1..Cardinality(S) -> S]  BY <1>8, <1>9, <1>10
<1>12. QED  BY <1>4, <1>7, <1>11, ListedQueue DEF S

(* _deep_read: what is read is the closest, and a live record is three     *)
(* halves closer than a dead one like it.                                  *)
LEMMA ClosenessIsANumber ==
  ASSUME SearchInv, NEW r \in DOMAIN screen
  PROVE  /\ Searching!Cardinality(Searching!PlanTerms \cap r.title) \in Int
         /\ Searching!Cardinality(Searching!PlanTerms \cap (r.abstract \ r.title)) \in Int
         /\ Searching!Min({3, Searching!Cardinality(screen[r]) - 1}) \in Int
         /\ r.live \in BOOLEAN
<1>1. IsFiniteSet(r.title) /\ IsFiniteSet(r.abstract) /\ IsFiniteSet(screen[r]) /\ r.live \in BOOLEAN
  BY FilingsAreTyped DEF SearchInv
<1>2. \A S : Searching!Cardinality(S) = Cardinality(S)  BY DEF Searching!Cardinality, Cardinality
<1>3. \A S : IsFiniteSet(S) => Searching!Cardinality(S) \in Int  BY <1>2, FS_CardinalityType
<1>4. IsFiniteSet(Searching!PlanTerms \cap r.title)  BY <1>1, FS_Subset
<1>5. IsFiniteSet(Searching!PlanTerms \cap (r.abstract \ r.title))  BY <1>1, FS_Subset
<1>6. ASSUME NEW k \in Int PROVE Searching!Min({3, k}) \in Int
  <2>1. \E x \in {3, k} : \A y \in {3, k} : x =< y  OBVIOUS
  <2>2. QED  BY <2>1 DEF Searching!Min
<1>7. QED  BY <1>1, <1>3, <1>4, <1>5, <1>6

LEMMA ReadKeeps == ASSUME SearchInv, Searching!DeepRead PROVE SearchInv'
<1>1. /\ todo = <<>> /\ todo' = todo /\ searchStage' \in {"continuity", "compose"}
      /\ UNCHANGED <<office, searchPlan, zeros, screen, artifact>>
  BY DEF Searching!DeepRead
<1>2. PICK rs \in Searching!Ranked(DOMAIN screen, Searching!DeepReads[tier]), missed \in SUBSET DOMAIN screen :
        art' = {[ref |-> r, risk |-> Searching!Risk(r, r \notin missed)] : r \in rs}
  BY DEF Searching!DeepRead
<1>3. /\ rs \subseteq DOMAIN screen
      /\ \A x \in rs, y \in DOMAIN screen \ rs : Searching!Closeness(x) >= Searching!Closeness(y)
  BY DEF Searching!Ranked
<1>4. {x.ref : x \in art'} = rs
  <2> DEFINE entry(r) == [ref |-> r, risk |-> Searching!Risk(r, r \notin missed)]
  <2>1. art' = {entry(r) : r \in rs}  BY <1>2
  <2>2. \A r : entry(r).ref = r  OBVIOUS
  <2> HIDE DEF entry
  <2>3. QED  BY <2>1, <2>2
<1>5. ASSUME NEW x \in rs, NEW r \in DOMAIN screen \ rs, r.live, ~x.live,
             Searching!Cardinality(screen[r]) = Searching!Cardinality(screen[x]),
             Searching!PlanTerms \cap (x.title \cup x.abstract) = Searching!PlanTerms \cap (r.title \cup r.abstract),
             Searching!PlanTerms \cap x.title = Searching!PlanTerms \cap r.title
      PROVE  FALSE
  <2>1. Searching!PlanTerms \cap (x.abstract \ x.title) = Searching!PlanTerms \cap (r.abstract \ r.title)
    BY <1>5
  <2>2. Searching!Closeness(x) >= Searching!Closeness(r)  BY <1>3
  <2> DEFINE t == Searching!Cardinality(Searching!PlanTerms \cap r.title)
             a == Searching!Cardinality(Searching!PlanTerms \cap (r.abstract \ r.title))
             m == Searching!Min({3, Searching!Cardinality(screen[r]) - 1})
  <2>3. t \in Int /\ a \in Int /\ m \in Int  BY ClosenessIsANumber
  <2>4. Searching!Closeness(r) = 4 * t + 2 * a + 3 + m  BY <1>5 DEF Searching!Closeness
  <2>5. Searching!Closeness(x) = 4 * t + 2 * a + 0 + m  BY <1>5, <2>1 DEF Searching!Closeness
  <2> HIDE DEF t, a, m
  <2>6. QED  BY <2>2, <2>3, <2>4, <2>5
<1>6. Searching!LiveIsReadFirst'
  <2>1. Searching!PlanTerms' = Searching!PlanTerms  BY <1>1 DEF Searching!PlanTerms
  <2>2. \A e \in art' : e.ref \in rs  BY <1>4
  <2>3. QED  BY <1>1, <1>4, <1>5, <2>1, <2>2 DEF Searching!LiveIsReadFirst
<1>7. \A terms : Ground(terms)' = Ground(terms)  BY <1>1 DEF Ground, Searching!Matching
<1>8. QED  BY <1>1, <1>6, <1>7 DEF SearchInv, Searching!NothingPersonalKept

(* scrub_clearance_artifact: whatever section a name comes by.             *)
LEMMA ComposeKeeps == ASSUME SearchInv, Searching!Compose PROVE SearchInv'
<1>1. UNCHANGED <<office, searchPlan, todo, screen, zeros, art>> /\ searchStage' = "done"
  BY DEF Searching!Compose
<1>2. \A ns, section : section \in Searching!Scanned => "private" \notin Searching!Scrub(ns, section)
  BY DEF Searching!Scrub, Searching!Redacted
<1>3. Searching!Whitespace \subseteq DOMAIN zeros  BY DEF Searching!Whitespace
<1>4. \A x \in artifact' :
        /\ x.open = Searching!Whitespace
        /\ "private" \notin x.closest_art \cup x.notable_pending \cup x.watch_list \cup x.queries_run
  BY <1>2 DEF Searching!Compose, Searching!Scanned
<1>5. Searching!LiveIsReadFirst'
  BY <1>1 DEF SearchInv, Searching!LiveIsReadFirst, Searching!PlanTerms
<1>6. \A terms : Ground(terms)' = Ground(terms)  BY <1>1 DEF Ground, Searching!Matching
<1>7. QED  BY <1>1, <1>3, <1>4, <1>5, <1>6 DEF SearchInv, Searching!NothingPersonalKept

(* clearance/tracks.py: an axis is open only where the office answered the *)
(* query and its shorter form with nothing, whatever is retried or fails.  *)
THEOREM ClearanceIsSound == Searching!Spec => []ArtifactHolds
<1>1. Searching!Init => SearchInv
  <2>1. DOMAIN <<>> = 1..0 /\ Searching!NoPlan.cpc = <<>>  BY DEF Searching!NoPlan
  <2>2. QED
    BY <2>1, Queues DEF Searching!Init, SearchInv, Searching!LiveIsReadFirst, Searching!NothingPersonalKept
<1>2. SearchInv /\ [Searching!Next]_(Searching!searchVars) => SearchInv'
  <2> SUFFICES ASSUME SearchInv, [Searching!Next]_(Searching!searchVars) PROVE SearchInv'  OBVIOUS
  <2>0. ASSUME UNCHANGED <<office, searchPlan, screen, zeros, art, artifact>>,
               todo' = todo \/ todo' = <<>>, art # {} => searchStage' \in {"continuity", "examiners", "compose", "done", "failed"}
        PROVE  SearchInv'
    <3>1. \A terms : Ground(terms)' = Ground(terms)  BY <2>0 DEF Ground, Searching!Matching
    <3>2. Searching!LiveIsReadFirst'
      BY <2>0 DEF SearchInv, Searching!LiveIsReadFirst, Searching!PlanTerms
    <3>3. SoundQueue(todo')  BY <2>0, Queues DEF SearchInv
    <3>4. QED  BY <2>0, <3>1, <3>2, <3>3 DEF SearchInv, Searching!NothingPersonalKept
  <2>1. CASE UNCHANGED Searching!searchVars   BY <2>0, <2>1 DEF Searching!searchVars, SearchInv
  <2>2. CASE Searching!BuildPlan              BY <2>2, PlanKeeps
  <2>3. CASE Searching!Search                 BY <2>3, SearchKeeps
  <2>4. CASE Searching!Retry                  BY <2>0, <2>4 DEF Searching!Retry, SearchInv
  <2>5. CASE Searching!CpcSweep
    <3>1. PICK to, qs : Searching!Turn("words", to, qs)
                        /\ (qs = <<>> \/ qs = [i \in DOMAIN searchPlan.cpc |->
                              Searching!Sweep(Searching!ByClass(searchPlan.cpc[i], Searching!Function))])
      BY <2>5 DEF Searching!CpcSweep
    <3>2. PICK n \in Nat : DOMAIN searchPlan.cpc = 1..n  BY DEF SearchInv
    <3>3. SoundQueue(qs)
      <4>1. CASE qs = <<>>  BY <4>1, Queues
      <4>2. CASE qs = [i \in 1..n |-> Searching!Sweep(Searching!ByClass(searchPlan.cpc[i], Searching!Function))]
        <5>1. DOMAIN qs = 1..n /\ qs = [i \in DOMAIN qs |-> qs[i]] /\ \A i \in 1..n : Sound(qs[i])
          BY <4>2, SweepIsSound
        <5>2. QED  BY <5>1, ListedQueue
      <4>3. QED  BY <3>1, <3>2, <4>1, <4>2
    <3>4. QED  BY <3>1, <3>3, TurnKeeps
  <2>6. CASE Searching!AssigneeSweep
    <3>1. PICK named \in {<<>>, <<Searching!Sweep(Searching!ByName("acme"))>>} :
            Searching!Turn("names", IF tier = "COMPREHENSIVE" THEN "repeats" ELSE "read", named)
      BY <2>6 DEF Searching!AssigneeSweep
    <3>2. SoundQueue(named)  BY Queues, SweepIsSound
    <3>3. QED  BY <3>1, <3>2, TurnKeeps
  <2>7. CASE Searching!RepeatSweep
    BY <2>7, RepeatsAreAQueue, TurnKeeps DEF Searching!RepeatSweep
  <2>8. CASE Searching!DeepRead               BY <2>8, ReadKeeps
  <2>9. CASE Searching!Examiners
    <3>1. /\ UNCHANGED <<office, searchPlan, screen, zeros, art, artifact, todo>> /\ searchStage' = "compose"
      BY <2>9 DEF Searching!Examiners
    <3>2. QED  BY <2>0, <3>1
  <2>10. CASE Searching!Compose               BY <2>10, ComposeKeeps
  <2>11. CASE Searching!Continuity
    BY <2>0, <2>11 DEF Searching!Continuity
  <2>12. QED  BY <2>1, <2>2, <2>3, <2>4, <2>5, <2>6, <2>7, <2>8, <2>9, <2>10, <2>11 DEF Searching!Next
<1>3. SearchInv => ArtifactHolds
  BY DEF SearchInv, Ground, ArtifactHolds, Searching!ArtifactHolds, Searching!OpenGroundIsEmpty
<1>4. QED  BY <1>1, <1>2, <1>3, PTL DEF Searching!Spec

-----------------------------------------------------------------------------
(***************************************************************************)
(* No bigger, deeper or better briefed run is cheaper.                     *)
(***************************************************************************)
AnyShape ==
  [agents : Nat, rounds : Nat, variants : Nat, brief : BOOLEAN,
   depth : {"brief", "standard", "deep"}, assets : Nat, reuse : BOOLEAN]
Units(s) == s.agents * s.rounds * s.variants
Deeper(d, e) == d = e \/ (d = "brief" /\ e # "brief") \/ (d = "standard" /\ e = "deep")

LEMMA ProductGrows ==
  ASSUME NEW a \in Nat, NEW b \in Nat, NEW c \in Nat, NEW d \in Nat, a <= b, c <= d
  PROVE  a * c \in Nat /\ b * d \in Nat /\ a * c <= b * d
<1>1. PICK j \in Nat : b = a + j
  <2>1. b - a \in Nat /\ b = a + (b - a)  OBVIOUS
  <2>2. QED  BY <2>1
<1>2. PICK k \in Nat : d = c + k
  <2>1. d - c \in Nat /\ d = c + (d - c)  OBVIOUS
  <2>2. QED  BY <2>1
<1>3. a * c \in Nat /\ a * k \in Nat /\ j * c \in Nat /\ j * k \in Nat  OBVIOUS
<1>4. b * d = a * c + a * k + j * c + j * k  BY <1>1, <1>2
<1>5. QED  BY <1>3, <1>4

(* report_section_count, by how much was measured.                         *)
Measured(n) == IF n < 150 THEN 2 ELSE IF n < 400 THEN 3 ELSE IF n < 900 THEN 4
               ELSE IF n < 1800 THEN 5 ELSE IF n < 3500 THEN 6 ELSE 7
LEMMA SectionsAre ==
  ASSUME NEW n \in Nat, NEW depth \in {"brief", "standard", "deep"}
  PROVE  Prices!Sections(n, depth) =
           Prices!Clamp(IF depth = "brief" THEN Measured(n) - 1
                        ELSE IF depth = "deep" THEN Measured(n) + 1 ELSE Measured(n))
<1> DEFINE under == {i \in DOMAIN Prices!Thresholds : n < Prices!Thresholds[i][1]}
           first == CHOOSE i \in under : \A j \in under : i <= j
           count == IF under = {} THEN 7 ELSE Prices!Thresholds[first][2]
<1>1. /\ DOMAIN Prices!Thresholds = 1..5
      /\ Prices!Thresholds[1] = <<150, 2>> /\ Prices!Thresholds[2] = <<400, 3>>
      /\ Prices!Thresholds[3] = <<900, 4>> /\ Prices!Thresholds[4] = <<1800, 5>>
      /\ Prices!Thresholds[5] = <<3500, 6>>
  BY DEF Prices!Thresholds
<1>2. \A i \in 1..5 : i \in under <=> n < Prices!Thresholds[i][1]  BY <1>1
<1>3. under \subseteq 1..5  BY <1>1
<1> HIDE DEF under
<1>4. \A m \in under : (\A j \in under : m <= j) => first = m
  <2> SUFFICES ASSUME NEW m \in under, \A j \in under : m <= j PROVE first = m  OBVIOUS
  <2>1. first \in under /\ \A j \in under : first <= j  OBVIOUS
  <2> HIDE DEF first
  <2>2. m \in Int /\ first \in Int  BY <1>3, <2>1
  <2>3. QED  BY <2>1, <2>2
<1> HIDE DEF first
<1>5. count = Measured(n)
  <2>1. CASE n < 150
    <3>1. 1 \in under /\ \A j \in under : 1 <= j  BY <1>1, <1>2, <1>3, <2>1
    <3>2. QED  BY <1>1, <1>4, <2>1, <3>1 DEF Measured
  <2>2. CASE 150 <= n /\ n < 400
    <3>1. 2 \in under /\ \A j \in under : 2 <= j  BY <1>1, <1>2, <1>3, <2>2
    <3>2. QED  BY <1>1, <1>4, <2>2, <3>1 DEF Measured
  <2>3. CASE 400 <= n /\ n < 900
    <3>1. 3 \in under /\ \A j \in under : 3 <= j  BY <1>1, <1>2, <1>3, <2>3
    <3>2. QED  BY <1>1, <1>4, <2>3, <3>1 DEF Measured
  <2>4. CASE 900 <= n /\ n < 1800
    <3>1. 4 \in under /\ \A j \in under : 4 <= j  BY <1>1, <1>2, <1>3, <2>4
    <3>2. QED  BY <1>1, <1>4, <2>4, <3>1 DEF Measured
  <2>5. CASE 1800 <= n /\ n < 3500
    <3>1. 5 \in under /\ \A j \in under : 5 <= j  BY <1>1, <1>2, <1>3, <2>5
    <3>2. QED  BY <1>1, <1>4, <2>5, <3>1 DEF Measured
  <2>6. CASE 3500 <= n
    <3>1. under = {}  BY <1>1, <1>2, <1>3, <2>6
    <3>2. QED  BY <2>6, <3>1 DEF Measured
  <2>7. QED  BY <2>1, <2>2, <2>3, <2>4, <2>5, <2>6
<1>6. Prices!Sections(n, depth) =
        Prices!Clamp(CASE depth = "brief" -> count - 1 [] depth = "deep" -> count + 1 [] OTHER -> count)
  BY DEF Prices!Sections, under, first
<1> HIDE DEF count
<1>7. QED  BY <1>5, <1>6

LEMMA SectionsGrow ==
  ASSUME NEW m \in Nat, NEW n \in Nat, m <= n,
         NEW d \in {"brief", "standard", "deep"}, NEW e \in {"brief", "standard", "deep"}, Deeper(d, e)
  PROVE  /\ Prices!Sections(m, d) \in Nat /\ Prices!Sections(n, e) \in Nat
         /\ Prices!Sections(m, d) <= Prices!Sections(n, e)
<1>1. Measured(m) \in 2..7 /\ Measured(n) \in 2..7 /\ Measured(m) <= Measured(n)  BY DEF Measured
<1>2. QED  BY <1>1, SectionsAre DEF Prices!Clamp, Deeper

(* _stage_costs, stage by stage: an action's cost, and the cost of a shape.  *)
PerAction(s) ==
  (750 + (IF s.brief THEN 375 ELSE 0) + s.assets * 225)
    + (170 + (IF s.brief THEN 12 ELSE 0) + s.assets * 7) * 5
Made(s) == IF s.reuse THEN 0 ELSE s.agents
LEMMA CostIs ==
  ASSUME NEW s \in AnyShape
  PROVE  Prices!Actual(s) =
           Units(s) * PerAction(s) + Made(s) * 4650 + Units(s) * 559
             + (IF s.reuse THEN 470000 ELSE 320000)
             + (Prices!Sections(Units(s), s.depth) + 2) * 145250
             + (IF s.brief /\ ~s.reuse THEN 60500 ELSE 0)
<1> DEFINE c == Prices!StageCosts(s)
<1>1. Units(s) \in Nat
  BY ProductGrows DEF AnyShape, Units
<1>2. Prices!Sections(Units(s), s.depth) \in Nat
  <2> DEFINE n == Units(s)  d == s.depth
  <2>1. n \in Nat /\ n <= n /\ d \in {"brief", "standard", "deep"} /\ Deeper(d, d)
    BY <1>1 DEF AnyShape, Deeper
  <2> HIDE DEF n, d
  <2>2. Prices!Sections(n, d) \in Nat
    BY <2>1, SectionsGrow
  <2>3. QED  BY <2>2 DEF n, d
<1>3. c.agent_actions = Units(s) * PerAction(s)
  <2>1. c.agent_actions = Units(s) * Prices!Fast(
           750 + (IF s.brief THEN 375 ELSE 0) + s.assets * 225,
           170 + (IF s.brief THEN 12 ELSE 0) + s.assets * 7)
    BY DEF Prices!StageCosts, Prices!Tokens, Units
  <2>2. QED  BY <2>1 DEF Prices!Fast, PerAction, AnyShape
<1>4. c.agent_generation = Made(s) * 4650
  BY DEF Prices!StageCosts, Prices!Tokens, Prices!Fast, Made
<1>5. c.event_measurement = Units(s) * 559
  BY DEF Prices!StageCosts, Prices!Tokens, Prices!Fast, Units
<1>6. c.objections = IF s.reuse THEN 470000 ELSE 320000
  BY DEF Prices!StageCosts, Prices!Tokens, Prices!Main
<1>7. c.report = (Prices!Sections(Units(s), s.depth) + 2) * 145250
  BY DEF Prices!StageCosts, Prices!Tokens, Prices!Main, Units
<1>8. c.distillation = IF s.brief /\ ~s.reuse THEN 60500 ELSE 0
  BY DEF Prices!StageCosts, Prices!Tokens, Prices!Main
<1>9. Prices!Actual(s) = c.agent_actions + c.agent_generation + c.event_measurement + c.objections
                           + c.report + c.distillation
  BY DEF Prices!Actual
<1> HIDE DEF c
<1>10. QED  BY <1>3, <1>4, <1>5, <1>6, <1>7, <1>8, <1>9

(* The stages' costs only grow with the run's size, depth and material.    *)
LEMMA CostGrows ==
  ASSUME NEW s \in AnyShape, NEW t \in AnyShape, Units(s) <= Units(t), s.agents <= t.agents,
         s.assets <= t.assets, s.brief => t.brief, s.reuse = t.reuse, Deeper(s.depth, t.depth)
  PROVE  Prices!Actual(s) \in Nat /\ Prices!Actual(t) \in Nat /\ Prices!Actual(s) <= Prices!Actual(t)
<1>1. Units(s) \in Nat /\ Units(t) \in Nat
  BY ProductGrows DEF AnyShape, Units
<1>2. PerAction(s) \in Nat /\ PerAction(t) \in Nat /\ PerAction(s) <= PerAction(t)
  BY DEF PerAction, AnyShape
<1>3. Made(s) \in Nat /\ Made(t) \in Nat /\ Made(s) <= Made(t)
  BY DEF Made, AnyShape
<1>4. /\ Prices!Sections(Units(s), s.depth) \in Nat /\ Prices!Sections(Units(t), t.depth) \in Nat
      /\ Prices!Sections(Units(s), s.depth) <= Prices!Sections(Units(t), t.depth)
  BY <1>1, SectionsGrow DEF AnyShape
<1>5. /\ Units(s) * PerAction(s) \in Nat /\ Units(t) * PerAction(t) \in Nat
      /\ Units(s) * PerAction(s) <= Units(t) * PerAction(t)
  BY <1>1, <1>2, ProductGrows
<1>6. (s.brief /\ ~s.reuse) => (t.brief /\ ~t.reuse)
  OBVIOUS
<1> DEFINE us == Units(s)  ut == Units(t)  xs == Units(s) * PerAction(s)  xt == Units(t) * PerAction(t)
           ms == Made(s)  mt == Made(t)
           ns == Prices!Sections(Units(s), s.depth)  nt == Prices!Sections(Units(t), t.depth)
<1>7. Prices!Actual(s) = xs + ms * 4650 + us * 559 + (IF s.reuse THEN 470000 ELSE 320000)
                           + (ns + 2) * 145250 + (IF s.brief /\ ~s.reuse THEN 60500 ELSE 0)
  BY CostIs
<1>8. Prices!Actual(t) = xt + mt * 4650 + ut * 559 + (IF t.reuse THEN 470000 ELSE 320000)
                           + (nt + 2) * 145250 + (IF t.brief /\ ~t.reuse THEN 60500 ELSE 0)
  BY CostIs
<1>9. us \in Nat /\ ut \in Nat /\ xs \in Nat /\ xt \in Nat /\ ms \in Nat /\ mt \in Nat /\ ns \in Nat /\ nt \in Nat
  BY <1>1, <1>3, <1>4, <1>5
<1>10. us <= ut /\ xs <= xt /\ ms <= mt /\ ns <= nt
  BY <1>3, <1>4, <1>5
<1> HIDE DEF us, ut, xs, xt, ms, mt, ns, nt
<1>11. QED  BY <1>6, <1>7, <1>8, <1>9, <1>10

LEMMA PriceGrows ==
  ASSUME NEW s \in AnyShape, NEW t \in AnyShape, Units(s) <= Units(t), s.agents <= t.agents,
         s.assets <= t.assets, s.brief => t.brief, s.reuse = t.reuse, Deeper(s.depth, t.depth)
  PROVE  Prices!Price(t) >= Prices!Price(s)
<1>1. Prices!Actual(s) \in Nat /\ Prices!Actual(t) \in Nat /\ Prices!Actual(s) <= Prices!Actual(t)
  BY CostGrows
<1>2. \A a, b \in Nat : a <= b => (b + 999) \div 1000 >= (a + 999) \div 1000
  OBVIOUS
<1>3. QED  BY <1>1, <1>2 DEF Prices!Price, Prices!Credits

(* FREE_RUN_SHAPE fits in FREE_RUN_GRANT, at the depth it is sold at.      *)
LEMMA GrantCovers ==
  ASSUME NEW s \in AnyShape, Prices!FreeRun(s), s.depth = "standard"
  PROVE  Prices!Price(s) <= Prices!Grant
<1> USE DEF Prices!FreeRun
<1>1. Units(s) \in Nat /\ Units(s) <= 90
  <2>1. s.agents * s.rounds \in Nat /\ s.agents * s.rounds <= 30 * 3
    BY ProductGrows DEF AnyShape
  <2>2. /\ (s.agents * s.rounds) * s.variants \in Nat
        /\ (s.agents * s.rounds) * s.variants <= (30 * 3) * 1
    <3> HIDE DEF Prices!FreeRun
    <3>1. s.variants \in Nat /\ s.variants <= 1  BY DEF AnyShape, Prices!FreeRun
    <3>2. 30 * 3 \in Nat /\ 1 \in Nat  OBVIOUS
    <3>3. QED  BY <2>1, <3>1, <3>2, ProductGrows
  <2>3. QED  BY <2>2 DEF Units
<1>2. PerAction(s) \in Nat /\ PerAction(s) <= 2035
  BY DEF PerAction, AnyShape
<1>3. Units(s) * PerAction(s) \in Nat /\ Units(s) * PerAction(s) <= 90 * 2035
  BY <1>1, <1>2, ProductGrows
<1>4. Prices!Sections(Units(s), s.depth) = 2
  BY <1>1, SectionsAre DEF Measured, Prices!Clamp
<1>5. Made(s) \in Nat /\ Made(s) <= 30
  BY DEF Made, AnyShape
<1> DEFINE u == Units(s)  a == Units(s) * PerAction(s)  m == Made(s)
<1>6. Prices!Actual(s) = a + m * 4650 + u * 559 + 320000 + (2 + 2) * 145250
                           + (IF s.brief /\ ~s.reuse THEN 60500 ELSE 0)
  BY <1>4, CostIs
<1>7. u \in Nat /\ u <= 90 /\ a \in Nat /\ a <= 90 * 2035 /\ m \in Nat /\ m <= 30
  BY <1>1, <1>3, <1>5
<1> HIDE DEF u, a, m
<1>8. Prices!Actual(s) \in Nat /\ Prices!Actual(s) <= 2000000
  BY <1>6, <1>7
<1>9. QED  BY <1>8 DEF Prices!Price, Prices!Credits, Prices!Grant

(* A price that was quoted for a run is the price of one of the shapes     *)
(* that can be asked about.                                                *)
QuoteInv == quoted.kind = "run" => (quoted.shape \in AnyShape /\ quoted.price = Prices!Price(quoted.shape))

(* No run quoted is cheaper than a smaller, shallower or worse briefed     *)
(* one, whichever stages its size moves (a step function of the number of  *)
(* measured events among them), and the first run's grant covers every     *)
(* configuration of it: agent_pricing's _stage_costs, credits_for and      *)
(* report_section_count, for any number of agents, rounds and variants.    *)
THEOREM PricesGrow ==
  ASSUME AgentCounts \subseteq Nat, RoundCounts \subseteq Nat, VariantCounts \subseteq Nat
  PROVE  Prices!Spec => []MoreCostsMore
<1> USE DEF QuoteInv
<1>1. Prices!Shapes \subseteq AnyShape
  <2> DEFINE fresh == [agents : AgentCounts, rounds : RoundCounts, variants : VariantCounts, brief : BOOLEAN,
                       depth : {"brief", "standard", "deep"}, assets : {0}, reuse : {FALSE}]
             again == [agents : AgentCounts, rounds : RoundCounts, variants : {1}, brief : BOOLEAN,
                       depth : {"standard"}, assets : 1..2, reuse : {TRUE}]
  <2>1. ASSUME NEW s \in fresh PROVE s \in AnyShape
    <3>1. s = [agents |-> s.agents, rounds |-> s.rounds, variants |-> s.variants, brief |-> s.brief,
               depth |-> s.depth, assets |-> s.assets, reuse |-> s.reuse]  OBVIOUS
    <3>2. s.agents \in Nat /\ s.rounds \in Nat /\ s.variants \in Nat /\ s.assets \in Nat
      <4>1. s.agents \in AgentCounts /\ s.rounds \in RoundCounts /\ s.variants \in VariantCounts /\ s.assets \in {0}
        BY Zenon
      <4> HIDE DEF fresh
      <4>2. s.agents \in Nat /\ s.rounds \in Nat /\ s.variants \in Nat  BY <4>1, Zenon
      <4>3. s.assets \in Nat  BY <4>1
      <4>4. QED  BY <4>2, <4>3
    <3>3. s.brief \in BOOLEAN  OBVIOUS
    <3>4. s.reuse \in BOOLEAN  OBVIOUS
    <3>5. s.depth \in {"brief", "standard", "deep"}  OBVIOUS
    <3> HIDE DEF fresh
    <3>6. QED  BY <3>1, <3>2, <3>3, <3>4, <3>5, Zenon DEF AnyShape
  <2>2. ASSUME NEW s \in again PROVE s \in AnyShape
    <3>1. s = [agents |-> s.agents, rounds |-> s.rounds, variants |-> s.variants, brief |-> s.brief,
               depth |-> s.depth, assets |-> s.assets, reuse |-> s.reuse]  OBVIOUS
    <3>2. s.agents \in Nat /\ s.rounds \in Nat /\ s.variants \in Nat /\ s.assets \in Nat
      <4>1. s.agents \in AgentCounts /\ s.rounds \in RoundCounts /\ s.variants \in {1} /\ s.assets \in 1..2
        BY Zenon
      <4> HIDE DEF again
      <4>2. s.agents \in Nat /\ s.rounds \in Nat  BY <4>1, Zenon
      <4>3. s.variants \in Nat /\ s.assets \in Nat  BY <4>1
      <4>4. QED  BY <4>2, <4>3
    <3>3. s.brief \in BOOLEAN  OBVIOUS
    <3>4. s.reuse \in BOOLEAN  OBVIOUS
    <3>5. s.depth \in {"brief", "standard", "deep"}  OBVIOUS
    <3> HIDE DEF again
    <3>6. QED  BY <3>1, <3>2, <3>3, <3>4, <3>5, Zenon DEF AnyShape
  <2>3. Prices!Shapes = fresh \cup again  BY DEF Prices!Shapes
  <2> HIDE DEF fresh, again
  <2>4. QED  BY <2>1, <2>2, <2>3
<1>2. Prices!Init => QuoteInv
  BY DEF Prices!Init
<1>3. QuoteInv /\ [Prices!Next]_Prices!pricingVars => QuoteInv'
  <2> SUFFICES ASSUME QuoteInv, [Prices!Next]_Prices!pricingVars PROVE QuoteInv'  OBVIOUS
  <2>1. ASSUME NEW s \in Prices!Shapes, Prices!Quote(s) PROVE QuoteInv'
    BY <1>1, <2>1 DEF Prices!Quote
  <2>2. ASSUME NEW s \in Prices!Shapes, NEW b \in Balances, Prices!Offer(s, b) PROVE QuoteInv'
    BY <2>2 DEF Prices!Offer
  <2>3. ASSUME NEW stage \in DOMAIN Prices!OneOffs, Prices!QuoteOneOff(stage) PROVE QuoteInv'
    BY <2>3 DEF Prices!QuoteOneOff, Prices!OneOffs
  <2>4. CASE UNCHANGED Prices!pricingVars
    BY <2>4 DEF Prices!pricingVars
  <2>5. QED  BY <2>1, <2>2, <2>3, <2>4 DEF Prices!Next
<1>4. QuoteInv => MoreCostsMore
  <2> SUFFICES ASSUME QuoteInv, quoted.kind = "run" PROVE MoreCostsMore
    BY DEF MoreCostsMore, Prices!MoreCostsMore
  <2> DEFINE s == quoted.shape
  <2>1. s \in AnyShape /\ quoted.price = Prices!Price(s)  OBVIOUS
  <2> HIDE DEF s
  <2>2. ASSUME NEW t \in {[s EXCEPT !.agents = @ + 1], [s EXCEPT !.rounds = @ + 1], [s EXCEPT !.variants = @ + 1],
                          [s EXCEPT !.brief = TRUE], [s EXCEPT !.assets = @ + 1]}
        PROVE  Prices!Price(t) >= quoted.price
    <3>1. /\ t \in AnyShape /\ s.agents <= t.agents /\ s.rounds <= t.rounds /\ s.variants <= t.variants
          /\ s.assets <= t.assets /\ (s.brief => t.brief) /\ s.reuse = t.reuse /\ s.depth = t.depth
      <4> USE <2>1 DEF AnyShape
      <4>1. CASE t = [s EXCEPT !.agents = @ + 1]  BY <4>1
      <4>2. CASE t = [s EXCEPT !.rounds = @ + 1]  BY <4>2
      <4>3. CASE t = [s EXCEPT !.variants = @ + 1]  BY <4>3
      <4>4. CASE t = [s EXCEPT !.brief = TRUE]
        <5>1. t.agents = s.agents /\ t.rounds = s.rounds /\ t.variants = s.variants /\ t.assets = s.assets
          BY <4>4
        <5>2. t.brief = TRUE /\ t.reuse = s.reuse /\ t.depth = s.depth  BY <4>4
        <5>3. t \in AnyShape  BY <4>4, Zenon
        <5>4. s.agents \in Nat /\ s.rounds \in Nat /\ s.variants \in Nat /\ s.assets \in Nat  OBVIOUS
        <5>5. QED  BY <5>1, <5>2, <5>3, <5>4
      <4>5. CASE t = [s EXCEPT !.assets = @ + 1]  BY <4>5
      <4>6. QED  BY <2>2, <4>1, <4>2, <4>3, <4>4, <4>5
    <3>2. s.agents * s.rounds \in Nat /\ t.agents * t.rounds \in Nat /\ s.agents * s.rounds <= t.agents * t.rounds
      BY <2>1, <3>1, ProductGrows DEF AnyShape
    <3>3. Units(s) <= Units(t)
      BY <2>1, <3>1, <3>2, ProductGrows DEF AnyShape, Units
    <3>4. QED  BY <2>1, <3>1, <3>3, PriceGrows DEF Deeper
  <2>3. ASSUME NEW t \in AnyShape, \E e \in {"standard", "deep"} : t = [s EXCEPT !.depth = e] /\ Deeper(s.depth, e)
        PROVE  Prices!Price(t) >= quoted.price
    <3>1. /\ t.agents = s.agents /\ t.rounds = s.rounds /\ t.variants = s.variants /\ t.brief = s.brief
          /\ t.assets = s.assets /\ t.reuse = s.reuse /\ Deeper(s.depth, t.depth)
      BY <2>1, <2>3 DEF AnyShape
    <3>2. Units(s) = Units(t) /\ Units(s) \in Nat
      BY <2>1, <3>1, ProductGrows DEF Units, AnyShape
    <3>3. s.agents \in Nat /\ s.assets \in Nat  BY <2>1 DEF AnyShape
    <3>4. QED  BY <2>1, <3>1, <3>2, <3>3, PriceGrows
  <2>4. s.depth = "brief" => Prices!Price([s EXCEPT !.depth = "standard"]) >= quoted.price
    <3>1. [s EXCEPT !.depth = "standard"] \in AnyShape  BY <2>1 DEF AnyShape
    <3>2. QED  BY <2>3, <3>1 DEF Deeper
  <2>5. s.depth = "standard" => Prices!Price([s EXCEPT !.depth = "deep"]) >= quoted.price
    <3>1. [s EXCEPT !.depth = "deep"] \in AnyShape  BY <2>1 DEF AnyShape
    <3>2. QED  BY <2>3, <3>1 DEF Deeper
  <2>6. Prices!FreeRun(s) /\ s.depth = "standard" => quoted.price <= Prices!Grant
    BY <2>1, GrantCovers
  <2>7. QED  BY <2>2, <2>4, <2>5, <2>6 DEF MoreCostsMore, Prices!MoreCostsMore, s
<1>5. QED  BY <1>2, <1>3, <1>4, PTL DEF Prices!Spec

-----------------------------------------------------------------------------
(***************************************************************************)
(* Run billing, for any runs, quotes, requests, processes and prices: its  *)
(* types, that a quote pays for one start, that a start that went through  *)
(* holds its row and was paid for, and that a settled run is covered.      *)
(***************************************************************************)
USE DEF StartableStatuses, Handler, Sync, Resting, PCs, Claimed, money, args, quotes, At, Goto

-----------------------------------------------------------------------------
(* A request past its first statement names a run; one that is about to    *)
(* load or to consume a quote names a quote, one without a quote does not. *)
Named(r) ==
  /\ pc[r] # "idle" => runOf[r] \in Runs
  /\ pc[r] \in {"load", "consume"} => quoteOf[r] \in Quotes
  /\ pc[r] = "budget" => quoteOf[r] = NoQuote
TypeInv == TypeOK /\ \A r \in Requests : Named(r)

(* deduct_credits takes no more than there is.                             *)
LEMMA LessType ==
  ASSUME balance \in Nat, NEW a \in Nat
  PROVE  Less(a) \in Nat /\ balance - Less(a) \in Nat
BY DEF Less

(* The rows, the purse and the requests begin with values of their types.  *)
LEMMA TypeInit == Init => TypeInv
<1> SUFFICES ASSUME Init PROVE TypeInv OBVIOUS
<1> USE RunBillingAssumption DEF Init
<1>1. \A r \in Requests : Named(r)  BY DEF Named
<1>2. TypeOK  BY DEF TypeOK
<1>3. QED  BY <1>1, <1>2 DEF TypeInv

(* Every statement of POST /start keeps the types.                         *)
LEMMA TypeStart ==
  ASSUME TypeInv, NEW r \in Requests, Start(r) PROVE TypeInv'
<1> USE RunBillingAssumption DEF TypeInv, TypeOK, Named
<1>1. ASSUME NEW k \in Runs, NEW q \in Quotes \cup {NoQuote}, StartRead(r, k, q)
      PROVE  TypeInv'
  BY <1>1 DEF StartRead
<1>2. CASE LoadQuote(r)    BY <1>2 DEF LoadQuote
<1>3. CASE Consume(r)      BY <1>3 DEF Consume
<1>4. CASE CheckBudget(r)  BY <1>4 DEF CheckBudget
<1>5. CASE Claim(r)
  <2>1. status' \in [Runs -> StartableStatuses \cup {"running"}]
    BY <1>5 DEF Claim
  <2>2. pc' \in [Requests -> PCs]  BY <1>5 DEF Claim
  <2>3. \A s \in Requests : Named(s)'  BY <1>5 DEF Claim
  <2>4. QED  BY <1>5, <2>1, <2>2, <2>3 DEF Claim
<1>6. CASE Deduct(r)
  <2>1. balance' \in Nat /\ balance - balance' \in Nat
    BY <1>6, LessType DEF Deduct
  <2>2. charged' \in [Runs -> Nat] /\ taken' \in [Runs -> Nat]
    BY <1>6, <2>1 DEF Deduct
  <2>3. QED  BY <1>6, <2>1, <2>2 DEF Deduct
<1>7. CASE Spawn(r)        BY <1>7 DEF Spawn
<1>8. CASE Raise(r)        BY <1>8 DEF Raise
<1>9. QED
  BY <1>1, <1>2, <1>3, <1>4, <1>5, <1>6, <1>7, <1>8 DEF Start

(* So does the engine: what it adds to the ledger, and the bill after it.  *)
LEMMA TypeEngine ==
  ASSUME TypeInv, NEW r \in Requests, Engine(r) PROVE TypeInv'
<1> USE RunBillingAssumption DEF TypeInv, TypeOK, Named
<1>1. ASSUME NEW c \in Costs, NEW kept \in BOOLEAN, Attempt(r, c, kept)
      PROVE  TypeInv'
  BY <1>1 DEF Attempt
<1>2. CASE Report(r)  BY <1>2 DEF Report
<1>3. CASE Reconcile(r)
  <2>1. ASSUME NEW a \in Nat, Bill(runOf[r], a)
        PROVE  balance' \in Nat /\ topped' \in [Runs -> Nat] /\ settled' \subseteq Runs
    <3>1. runOf[r] \in Runs  BY <1>3 DEF Reconcile
    <3>2. QED  BY <2>1, <3>1, LessType DEF Bill
  <2>2. ledger[runOf[r]] \in Nat  BY <1>3 DEF Reconcile
  <2>3. \A q \in QuotesOf(runOf[r]) : Shortfall(runOf[r], q) \in Nat
    BY <2>2 DEF QuotesOf, Shortfall
  <2>4. balance' \in Nat /\ topped' \in [Runs -> Nat] /\ settled' \subseteq Runs
    BY <1>3, <2>1, <2>2, <2>3 DEF Reconcile
  <2>5. QED  BY <1>3, <2>4 DEF Reconcile
<1>4. QED  BY <1>1, <1>2, <1>3 DEF Engine

(* And so does every other step.                                           *)
LEMMA TypeNext == TypeInv /\ [Next]_vars => TypeInv'
<1> SUFFICES ASSUME TypeInv, [Next]_vars PROVE TypeInv' OBVIOUS
<1> USE RunBillingAssumption DEF TypeInv, TypeOK, Named
<1>1. ASSUME NEW q \in Quotes, Expire(q) PROVE TypeInv'
  BY <1>1 DEF Expire
<1>2. ASSUME NEW q \in Quotes, NEW d \in Depths, IssueQuote(q, d) PROVE TypeInv'
  BY <1>2 DEF IssueQuote
<1>3. ASSUME NEW k \in Runs, Reap(k) PROVE TypeInv'
  BY <1>3 DEF Reap
<1>4. ASSUME NEW p \in Procs, Restart(p) PROVE TypeInv'
  BY <1>4 DEF Restart
<1>5. CASE UNCHANGED vars  BY <1>5 DEF vars
<1>6. QED  BY TypeStart, TypeEngine, <1>1, <1>2, <1>3, <1>4, <1>5 DEF Next

(* Every variable of RunBilling keeps its type, the balance included: the  *)
(* floor of deduct_credits holds it at zero or above.                      *)
THEOREM TypeCorrect == Spec => []TypeOK
<1>1. TypeInv => TypeOK  BY DEF TypeInv
<1>2. QED  BY TypeInit, TypeNext, <1>1, PTL DEF Spec

-----------------------------------------------------------------------------
(***************************************************************************)
(* Why a quote funds one start.  A request that stands behind the          *)
(* compare-and-set has set consumed_at (the quote names a run), nothing    *)
(* clears it, and the compare-and-set lets nobody through once it is set.  *)
(***************************************************************************)
Redeemed(r) == pc[r] \in {"claim", "deduct"} \/ Started(r)
Redemption ==
  /\ \A r \in Requests :
       Redeemed(r) /\ quoteOf[r] # NoQuote => redeemedFor[quoteOf[r]] # NoRun
  /\ \A r, s \in Requests :
       Redeemed(r) /\ Redeemed(s) /\ quoteOf[r] = quoteOf[s] /\ quoteOf[r] # NoQuote
         => r = s
Inv == TypeInv /\ Redemption

(* A step that redeems nothing, takes no quote from a request and clears   *)
(* no consumed_at leaves the redemptions as they were.                     *)
LEMMA NothingRedeemed ==
  ASSUME Redemption,
         \A r \in Requests : Redeemed(r)' /\ quoteOf'[r] # NoQuote =>
           Redeemed(r) /\ quoteOf'[r] = quoteOf[r],
         \A q \in Quotes : redeemedFor[q] # NoRun => redeemedFor'[q] # NoRun,
         TypeInv
  PROVE  Redemption'
BY DEF Redemption, TypeInv, TypeOK

(* The compare-and-set of consume_quote.                                   *)
LEMMA ConsumeOnce ==
  ASSUME Inv, NEW r \in Requests, Consume(r) PROVE Redemption'
<1> USE RunBillingAssumption DEF Inv, TypeInv, TypeOK, Named, Redeemed, Started
<1>1. CASE pc' = [pc EXCEPT ![r] = "refused"] /\ UNCHANGED redeemedFor
  BY <1>1, NothingRedeemed DEF Consume
<1>2. CASE /\ redeemedFor[quoteOf[r]] = NoRun
           /\ redeemedFor' = [redeemedFor EXCEPT ![quoteOf[r]] = runOf[r]]
           /\ pc' = [pc EXCEPT ![r] = "claim"]
  <2>1. quoteOf[r] \in Quotes /\ runOf[r] \in Runs  BY DEF Consume
  <2>2. \A s \in Requests : Redeemed(s) /\ quoteOf[s] # NoQuote
                            => quoteOf[s] # quoteOf[r]
    BY <1>2, <2>1 DEF Redemption
  <2>3. quoteOf' = quoteOf  BY DEF Consume
  <2>4. \A s \in Requests \ {r} : Redeemed(s)' => Redeemed(s)  BY <1>2
  <2>5. redeemedFor'[quoteOf[r]] # NoRun  BY <1>2, <2>1
  <2>6. \A q \in Quotes : q # quoteOf[r] => redeemedFor'[q] = redeemedFor[q]  BY <1>2, <2>1
  <2>7. \A s \in Requests : Redeemed(s)' /\ quoteOf'[s] # NoQuote
                            => redeemedFor'[quoteOf'[s]] # NoRun
    BY <2>1, <2>2, <2>3, <2>4, <2>5, <2>6 DEF Redemption
  <2>8. QED  BY <2>2, <2>3, <2>4, <2>7 DEF Redemption
<1>3. QED  BY <1>1, <1>2 DEF Consume

(* Everything else.                                                        *)
LEMMA RedemptionNext == Inv /\ [Next]_vars => Redemption'
<1> SUFFICES ASSUME Inv, [Next]_vars PROVE Redemption' OBVIOUS
<1> USE RunBillingAssumption, NothingRedeemed
        DEF Inv, TypeInv, TypeOK, Named, Redeemed, Started
<1>1. ASSUME NEW r \in Requests, Start(r) PROVE Redemption'
  <2>1. ASSUME NEW k \in Runs, NEW q \in Quotes \cup {NoQuote}, StartRead(r, k, q)
        PROVE  Redemption'
    BY <2>1 DEF StartRead
  <2>2. CASE LoadQuote(r)    BY <2>2 DEF LoadQuote
  <2>3. CASE Consume(r)      BY <2>3, ConsumeOnce
  <2>4. CASE CheckBudget(r)  BY <2>4 DEF CheckBudget
  <2>5. CASE Claim(r)        BY <2>5 DEF Claim
  <2>6. CASE Deduct(r)       BY <2>6 DEF Deduct
  <2>7. CASE Spawn(r)        BY <2>7 DEF Spawn
  <2>8. CASE Raise(r)        BY <2>8 DEF Raise
  <2>9. QED
    BY <1>1, <2>1, <2>2, <2>3, <2>4, <2>5, <2>6, <2>7, <2>8 DEF Start
<1>2. ASSUME NEW r \in Requests, Engine(r) PROVE Redemption'
  BY <1>2 DEF Engine, Attempt, Report, Reconcile
<1>3. ASSUME NEW q \in Quotes, Expire(q) PROVE Redemption'
  BY <1>3 DEF Expire
<1>4. ASSUME NEW q \in Quotes, NEW d \in Depths, IssueQuote(q, d) PROVE Redemption'
  BY <1>4 DEF IssueQuote
<1>5. ASSUME NEW k \in Runs, Reap(k) PROVE Redemption'
  BY <1>5 DEF Reap
<1>6. ASSUME NEW p \in Procs, Restart(p) PROVE Redemption'
  BY <1>6 DEF Restart
<1>7. CASE UNCHANGED vars  BY <1>7 DEF vars
<1>8. QED  BY <1>1, <1>2, <1>3, <1>4, <1>5, <1>6, <1>7 DEF Next

(* consume_quote is a compare-and-set whose result is read: however many   *)
(* starts race for a quote, one at most is charged under it and spawned.   *)
THEOREM QuoteIsSingleUse == Spec => []QuoteFundsOneStart
<1>1. Init => Inv
  BY TypeInit DEF Inv, Init, Redemption, Redeemed, Started
<1>2. Inv /\ [Next]_vars => Inv'
  BY TypeNext, RedemptionNext DEF Inv
<1>3. Inv => QuoteFundsOneStart
  BY DEF Inv, Redemption, Redeemed, QuoteFundsOneStart
<1>4. QED  BY <1>1, <1>2, <1>3, PTL DEF Spec

-----------------------------------------------------------------------------
(***************************************************************************)
(* Why a start holds its row, and pays.  A row is running from the claim   *)
(* on, and whoever claimed it keeps it until the attempt writes how it     *)
(* ended.  In one process nobody else moves between the look at the        *)
(* balance and the deduction, so what was affordable still is.             *)
(***************************************************************************)
OneProcess == \A r, s \in Requests : proc[r] = proc[s]
NoRunYet == \A r \in Requests : pc[r] = "idle" => runOf[r] = NoRun
Affordable ==
  OneProcess => \A r \in Requests :
    pc[r] \in {"claim", "deduct"} /\ quoteOf[r] = NoQuote => asked[r] <= balance
HoldInv == TypeInv /\ NoRunYet /\ RunningIsHeld /\ Affordable /\ PaidInFull

(* A step after which each running row has the holder it had.              *)
LEMMA HeldStays ==
  ASSUME RunningIsHeld, runOf' = runOf,
         \A k \in Runs : status'[k] = "running" => status[k] = "running",
         \A r \in Requests : pc[r] \in Claimed \cup {"raised", "lost"} =>
                             pc'[r] \in Claimed \cup {"raised", "lost"}
  PROVE  RunningIsHeld'
BY DEF RunningIsHeld

(* While r stands before its deduction it alone moves: a step of another   *)
(* request finds nobody there.                                             *)
LEMMA Alone ==
  ASSUME OneProcess, TypeInv, NEW r \in Requests, NEW here, At(r, here)
  PROVE  \A s \in Requests \ {r} : pc[s] \notin Sync
BY DEF OneProcess

(* Nobody new comes before a deduction, the purse and its history stand    *)
(* still.                                                                  *)
LEMMA PurseStays ==
  ASSUME Affordable, PaidInFull, balance' = balance, charged' = charged, taken' = taken,
         runOf' = runOf, quoteOf' = quoteOf, proc' = proc, asked' = asked,
         \A r \in Requests : pc'[r] \in {"claim", "deduct"} => pc[r] \in {"claim", "deduct"}
  PROVE  Affordable' /\ PaidInFull'
<1>1. OneProcess' <=> OneProcess  BY DEF OneProcess
<1>2. Affordable'  BY <1>1 DEF Affordable
<1>3. PaidInFull'  BY DEF PaidInFull
<1>4. QED  BY <1>2, <1>3

(* The deduction: all of it is taken when the balance covers it.           *)
LEMMA HoldDeduct ==
  ASSUME HoldInv, NEW r \in Requests, Deduct(r) PROVE Affordable' /\ PaidInFull'
<1> USE DEF HoldInv, TypeInv, TypeOK, Named, Deduct
<1>1. runOf[r] \in Runs /\ asked[r] \in Nat  OBVIOUS
<1>2. OneProcess' <=> OneProcess  BY DEF OneProcess
<1>3. Affordable'
  <2> SUFFICES ASSUME OneProcess PROVE
        \A s \in Requests : pc'[s] \notin {"claim", "deduct"}
    BY <1>2 DEF Affordable
  <2>1. At(r, "deduct")  OBVIOUS
  <2>2. \A s \in Requests \ {r} : pc[s] \notin Sync  BY <2>1, Alone
  <2>3. QED  BY <2>2
<1>4. PaidInFull'
  <2> SUFFICES ASSUME OneProcess, NEW k \in Runs,
                      \A s \in Requests : runOf[s] = k => quoteOf[s] = NoQuote
               PROVE  taken'[k] = charged'[k]
    BY <1>2 DEF PaidInFull, OneProcess
  <2>1. taken[k] = charged[k]  BY DEF PaidInFull, OneProcess
  <2>2. CASE runOf[r] = k
    <3>1. asked[r] <= balance  BY <2>2 DEF Affordable
    <3>2. balance - balance' = asked[r]  BY <1>1, <3>1 DEF Less
    <3>3. QED  BY <2>1, <2>2, <3>2
  <2>3. CASE runOf[r] # k  BY <2>1, <2>3, <1>1
  <2>4. QED  BY <2>2, <2>3
<1>5. QED  BY <1>3, <1>4

(* Reconciliation moves the purse, but with nobody before a deduction.     *)
LEMMA HoldReconcile ==
  ASSUME HoldInv, NEW r \in Requests, Reconcile(r) PROVE Affordable' /\ PaidInFull'
<1> USE DEF HoldInv, TypeInv, TypeOK, Reconcile
<1>1. OneProcess' <=> OneProcess  BY DEF OneProcess
<1>2. Affordable'
  <2> SUFFICES ASSUME OneProcess PROVE
        \A s \in Requests : pc'[s] \notin {"claim", "deduct"}
    BY <1>1 DEF Affordable
  <2>1. At(r, "reconcile")  OBVIOUS
  <2>2. \A s \in Requests \ {r} : pc[s] \notin Sync  BY <2>1, Alone
  <2>3. QED  BY <2>2
<1>3. PaidInFull'  BY DEF PaidInFull
<1>4. QED  BY <1>2, <1>3

(* A request arrives: it was of no run before.                             *)
LEMMA HoldRead ==
  ASSUME HoldInv, NEW r \in Requests, NEW k \in Runs, NEW q \in Quotes \cup {NoQuote},
         StartRead(r, k, q), TypeInv'
  PROVE  HoldInv'
<1> USE RunBillingAssumption DEF HoldInv, TypeInv, TypeOK, StartRead
<1>1. NoRunYet'  BY DEF NoRunYet
<1>2. RunningIsHeld'
  <2> SUFFICES ASSUME NEW j \in Runs, status[j] = "running"
               PROVE  \E s \in Requests : runOf'[s] = j /\ pc'[s] \in Claimed \cup {"raised", "lost"}
    BY DEF RunningIsHeld
  <2>1. PICK s \in Requests : runOf[s] = j /\ pc[s] \in Claimed \cup {"raised", "lost"}
    BY DEF RunningIsHeld
  <2>2. s # r  BY <2>1
  <2>3. QED  BY <2>1, <2>2
<1>3. OneProcess' <=> OneProcess  BY DEF OneProcess
<1>4. Affordable'  BY <1>3 DEF Affordable
<1>5. PaidInFull'
  <2>1. \A j \in Runs :
          (\A s \in Requests : runOf'[s] = j => quoteOf'[s] = NoQuote) =>
          (\A s \in Requests : runOf[s] = j => quoteOf[s] = NoQuote)
    BY DEF NoRunYet
  <2>2. QED  BY <2>1 DEF PaidInFull
<1>6. QED  BY <1>1, <1>2, <1>4, <1>5

(* The rest of POST /start.                                                *)
LEMMA HoldStart ==
  ASSUME HoldInv, NEW r \in Requests, Start(r), TypeInv' PROVE HoldInv'
<1> USE RunBillingAssumption DEF TypeInv, TypeOK, Named
<1>1. ASSUME NEW k \in Runs, NEW q \in Quotes \cup {NoQuote}, StartRead(r, k, q)
      PROVE  HoldInv'
  BY <1>1, HoldRead
<1>2. CASE LoadQuote(r)
  <2>1. RunningIsHeld'  BY <1>2, HeldStays DEF HoldInv, LoadQuote
  <2>2. quoteOf[r] # NoQuote  BY <1>2 DEF HoldInv, LoadQuote
  <2>3. Affordable'
    BY <1>2, <2>2 DEF HoldInv, LoadQuote, Affordable, OneProcess
  <2>4. PaidInFull'  BY <1>2 DEF HoldInv, LoadQuote, PaidInFull
  <2>5. QED  BY <1>2, <2>1, <2>3, <2>4 DEF HoldInv, NoRunYet, LoadQuote
<1>3. CASE Consume(r)
  <2>1. RunningIsHeld'  BY <1>3, HeldStays DEF HoldInv, Consume
  <2>2. quoteOf[r] # NoQuote  BY <1>3 DEF HoldInv, Consume
  <2>3. Affordable'
    BY <1>3, <2>2 DEF HoldInv, Consume, Affordable, OneProcess
  <2>4. PaidInFull'  BY <1>3 DEF HoldInv, Consume, PaidInFull
  <2>5. QED  BY <1>3, <2>1, <2>3, <2>4 DEF HoldInv, NoRunYet, Consume
<1>4. CASE CheckBudget(r)
  <2>1. RunningIsHeld'  BY <1>4, HeldStays DEF HoldInv, CheckBudget
  <2>2. Affordable'
    BY <1>4 DEF HoldInv, CheckBudget, Affordable, OneProcess
  <2>3. PaidInFull'  BY <1>4 DEF HoldInv, CheckBudget, PaidInFull
  <2>4. QED  BY <1>4, <2>1, <2>2, <2>3 DEF HoldInv, NoRunYet, CheckBudget
<1>5. CASE Claim(r)
  <2>1. RunningIsHeld'
    <3> SUFFICES ASSUME NEW j \in Runs, status'[j] = "running"
                 PROVE  \E s \in Requests : runOf'[s] = j /\ pc'[s] \in Claimed \cup {"raised", "lost"}
      BY DEF RunningIsHeld
    <3>1. CASE status[j] = "running"
      <4>1. PICK s \in Requests : runOf[s] = j /\ pc[s] \in Claimed \cup {"raised", "lost"}
        BY <3>1 DEF HoldInv, RunningIsHeld
      <4>2. s # r  BY <1>5, <4>1 DEF Claim
      <4>3. QED  BY <1>5, <4>1, <4>2 DEF HoldInv, Claim
    <3>2. CASE status[j] # "running"
      BY <1>5, <3>2 DEF HoldInv, Claim
    <3>3. QED  BY <3>1, <3>2
  <2>2. Affordable' /\ PaidInFull'  BY <1>5, PurseStays DEF HoldInv, Claim
  <2>3. QED  BY <1>5, <2>1, <2>2 DEF HoldInv, NoRunYet, Claim
<1>6. CASE Deduct(r)
  <2>1. RunningIsHeld'  BY <1>6, HeldStays DEF HoldInv, Deduct
  <2>2. QED  BY <1>6, <2>1, HoldDeduct DEF HoldInv, NoRunYet, Deduct
<1>7. CASE Spawn(r)
  <2>1. RunningIsHeld'  BY <1>7, HeldStays DEF HoldInv, Spawn
  <2>2. Affordable' /\ PaidInFull'  BY <1>7, PurseStays DEF HoldInv, Spawn
  <2>3. QED  BY <1>7, <2>1, <2>2 DEF HoldInv, NoRunYet, Spawn
<1>8. CASE Raise(r)
  <2>1. RunningIsHeld'  BY <1>8, HeldStays DEF HoldInv, Raise
  <2>2. Affordable' /\ PaidInFull'  BY <1>8, PurseStays DEF HoldInv, Raise
  <2>3. QED  BY <1>8, <2>1, <2>2 DEF HoldInv, NoRunYet, Raise
<1>9. QED
  BY <1>1, <1>2, <1>3, <1>4, <1>5, <1>6, <1>7, <1>8 DEF Start

(* The engine, the sweep, the quotes and a death.                          *)
LEMMA HoldNext == HoldInv /\ [Next]_vars => HoldInv'
<1> SUFFICES ASSUME HoldInv, [Next]_vars PROVE HoldInv' OBVIOUS
<1>0. TypeInv'  BY TypeNext DEF HoldInv
<1> USE RunBillingAssumption, <1>0 DEF TypeInv, TypeOK, Named
<1>1. ASSUME NEW r \in Requests, Start(r) PROVE HoldInv'
  BY <1>1, HoldStart DEF HoldInv
<1>2. ASSUME NEW r \in Requests, NEW c \in Costs, NEW kept \in BOOLEAN, Attempt(r, c, kept)
      PROVE  HoldInv'
  <2>1. RunningIsHeld'
    <3> SUFFICES ASSUME NEW j \in Runs, status'[j] = "running"
                 PROVE  \E s \in Requests : runOf'[s] = j /\ pc'[s] \in Claimed \cup {"raised", "lost"}
      BY DEF RunningIsHeld
    <3>1. j # runOf[r] /\ status[j] = "running"  BY <1>2 DEF HoldInv, Attempt
    <3>2. PICK s \in Requests : runOf[s] = j /\ pc[s] \in Claimed \cup {"raised", "lost"}
      BY <3>1 DEF HoldInv, RunningIsHeld
    <3>3. QED  BY <1>2, <3>1, <3>2 DEF HoldInv, Attempt
  <2>2. Affordable' /\ PaidInFull'  BY <1>2, PurseStays DEF HoldInv, Attempt
  <2>3. QED  BY <1>2, <2>1, <2>2 DEF HoldInv, NoRunYet, Attempt
<1>3. ASSUME NEW r \in Requests, Report(r) PROVE HoldInv'
  <2>1. RunningIsHeld'  BY <1>3, HeldStays DEF HoldInv, Report
  <2>2. Affordable' /\ PaidInFull'  BY <1>3, PurseStays DEF HoldInv, Report
  <2>3. QED  BY <1>3, <2>1, <2>2 DEF HoldInv, NoRunYet, Report
<1>4. ASSUME NEW r \in Requests, Reconcile(r) PROVE HoldInv'
  <2>1. RunningIsHeld'  BY <1>4, HeldStays DEF HoldInv, Reconcile
  <2>2. QED  BY <1>4, <2>1, HoldReconcile DEF HoldInv, NoRunYet, Reconcile
<1>5. ASSUME NEW q \in Quotes, \/ Expire(q) \/ \E d \in Depths : IssueQuote(q, d)
      PROVE  HoldInv'
  <2>1. RunningIsHeld'  BY <1>5, HeldStays DEF HoldInv, Expire, IssueQuote
  <2>2. Affordable' /\ PaidInFull'  BY <1>5, PurseStays DEF HoldInv, Expire, IssueQuote
  <2>3. QED  BY <1>5, <2>1, <2>2 DEF HoldInv, NoRunYet, Expire, IssueQuote
<1>6. ASSUME NEW k \in Runs, Reap(k) PROVE HoldInv'
  <2>1. RunningIsHeld'  BY <1>6, HeldStays DEF HoldInv, Reap
  <2>2. Affordable' /\ PaidInFull'  BY <1>6, PurseStays DEF HoldInv, Reap
  <2>3. QED  BY <1>6, <2>1, <2>2 DEF HoldInv, NoRunYet, Reap
<1>7. ASSUME NEW p \in Procs, Restart(p) PROVE HoldInv'
  <2>1. RunningIsHeld'  BY <1>7, HeldStays DEF HoldInv, Restart
  <2>2. Affordable' /\ PaidInFull'  BY <1>7, PurseStays DEF HoldInv, Restart
  <2>3. QED  BY <1>7, <2>1, <2>2 DEF HoldInv, NoRunYet, Restart
<1>8. CASE UNCHANGED vars
  <2>1. RunningIsHeld'  BY <1>8, HeldStays DEF HoldInv, vars
  <2>2. Affordable' /\ PaidInFull'  BY <1>8, PurseStays DEF HoldInv, vars
  <2>3. QED  BY <1>8, <2>1, <2>2 DEF HoldInv, NoRunYet, vars
<1>9. QED
  BY <1>1, <1>2, <1>3, <1>4, <1>5, <1>6, <1>7, <1>8 DEF Next, Engine

(* No refusal leaves a run claimed; and in one process an unquoted start   *)
(* takes all that it asks for: a balance that was looked at is not spent   *)
(* by somebody else before it is deducted from.                            *)
THEOREM StartsAreHeldAndPaid == Spec => []StartsHold
<1>1. Init => HoldInv
  <2> SUFFICES ASSUME Init PROVE HoldInv  OBVIOUS
  <2>1. TypeInv  BY TypeInit
  <2>2. QED  BY <2>1 DEF Init, HoldInv, NoRunYet, RunningIsHeld, Affordable, PaidInFull
<1>2. HoldInv => StartsHold  BY DEF HoldInv, StartsHold
<1>3. QED  BY <1>1, HoldNext, <1>2, PTL DEF Spec

-----------------------------------------------------------------------------
(***************************************************************************)
(* Why what was asked covers what a run cost.  The engine that reconciles  *)
(* it was charged at least the price that reconciliation compares with,    *)
(* nothing lowers what was asked, and the ledger grows with an attempt     *)
(* only, whose own reconciliation is then still to come.                   *)
(***************************************************************************)
Charging(r) == pc[r] \in {"claim", "deduct", "spawn", "run", "report", "reconcile"}
IssuedFirst ==
  /\ \A r \in Requests : quoteOf[r] # NoQuote => quoteState[quoteOf[r]] # "none"
  /\ \A q \in Quotes : redeemedFor[q] # NoRun => quoteState[q] # "none"
AskedPrice ==
  \A r \in Requests :
    /\ pc[r] = "consume" => asked[r] = PriceAt[quoteDepth[quoteOf[r]]]
    /\ Charging(r) =>
         IF quoteOf[r] = NoQuote THEN asked[r] = PriceAt[Standard]
         ELSE /\ redeemedFor[quoteOf[r]] = runOf[r]
              /\ asked[r] = PriceAt[quoteDepth[quoteOf[r]]]
Collected ==
  \A r \in Requests : pc[r] \in {"spawn", "run", "report", "reconcile"} => asked[r] <= charged[runOf[r]]

Pricing == IssuedFirst /\ AskedPrice /\ Collected
CoverInv == TypeInv /\ Pricing /\ SettledIsCovered

(* What a request asks for is the price of what it brought, from the load  *)
(* of its quote or the budget check on; a quote is priced once.            *)
LEMMA PricingNext ==
  ASSUME TypeInv, TypeInv', Pricing, [Next]_vars PROVE Pricing'
<1> USE RunBillingAssumption
        DEF TypeInv, TypeOK, Named, Pricing, IssuedFirst, AskedPrice, Collected, Charging
<1>1. ASSUME NEW r \in Requests, Start(r) PROVE Pricing'
  <2>1. ASSUME NEW k \in Runs, NEW q \in Quotes \cup {NoQuote}, StartRead(r, k, q)
        PROVE  Pricing'
    BY <2>1 DEF StartRead
  <2>2. CASE LoadQuote(r)    BY <2>2 DEF LoadQuote
  <2>3. CASE Consume(r)
    <3>1. CASE redeemedFor[quoteOf[r]] = NoRun
      <4>1. quoteOf[r] \in Quotes /\ runOf[r] \in Runs  BY <2>3 DEF Consume
      <4>2. IssuedFirst'  BY <2>3, <3>1, <4>1 DEF Consume
      <4>3. AskedPrice'
        <5> SUFFICES ASSUME NEW s \in Requests PROVE
              /\ pc'[s] = "consume" => asked'[s] = PriceAt[quoteDepth'[quoteOf'[s]]]
              /\ Charging(s)' =>
                   IF quoteOf'[s] = NoQuote THEN asked'[s] = PriceAt[Standard]
                   ELSE /\ redeemedFor'[quoteOf'[s]] = runOf'[s]
                        /\ asked'[s] = PriceAt[quoteDepth'[quoteOf'[s]]]
          OBVIOUS
        <5>1. CASE s = r  BY <2>3, <3>1, <4>1, <5>1 DEF Consume
        <5>2. CASE s # r
          <6>1. Charging(s) /\ quoteOf[s] # NoQuote => quoteOf[s] # quoteOf[r]
            BY <3>1, <4>1
          <6>2. QED  BY <2>3, <3>1, <4>1, <5>2, <6>1 DEF Consume
        <5>3. QED  BY <5>1, <5>2
      <4>4. Collected'  BY <2>3, <3>1 DEF Consume
      <4>5. QED  BY <4>2, <4>3, <4>4
    <3>2. CASE redeemedFor[quoteOf[r]] # NoRun  BY <2>3, <3>2 DEF Consume
    <3>3. QED  BY <3>1, <3>2
  <2>4. CASE CheckBudget(r)  BY <2>4 DEF CheckBudget
  <2>5. CASE Claim(r)        BY <2>5 DEF Claim
  <2>6. CASE Deduct(r)
    <3>1. \A k \in Runs : charged[k] <= charged'[k]  BY <2>6 DEF Deduct
    <3>2. asked[r] <= charged'[runOf[r]]  BY <2>6 DEF Deduct
    <3>3. Collected'  BY <2>6, <3>1, <3>2 DEF Deduct
    <3>4. AskedPrice' /\ IssuedFirst'  BY <2>6 DEF Deduct
    <3>5. QED  BY <3>3, <3>4
  <2>7. CASE Spawn(r)        BY <2>7 DEF Spawn
  <2>8. CASE Raise(r)        BY <2>8 DEF Raise
  <2>9. QED
    BY <1>1, <2>1, <2>2, <2>3, <2>4, <2>5, <2>6, <2>7, <2>8 DEF Start
<1>2. ASSUME NEW r \in Requests, Engine(r) PROVE Pricing'
  BY <1>2 DEF Engine, Attempt, Report, Reconcile
<1>3. ASSUME NEW q \in Quotes, Expire(q) PROVE Pricing'  BY <1>3 DEF Expire
<1>4. ASSUME NEW q \in Quotes, NEW d \in Depths, IssueQuote(q, d) PROVE Pricing'
  <2>1. \A j \in Quotes : quoteState[j] # "none" =>
          quoteState'[j] # "none" /\ quoteDepth'[j] = quoteDepth[j]
    BY <1>4 DEF IssueQuote
  <2>2. IssuedFirst'  BY <1>4, <2>1 DEF IssueQuote
  <2>3. AskedPrice'  BY <1>4, <2>1 DEF IssueQuote
  <2>4. QED  BY <1>4, <2>2, <2>3 DEF IssueQuote
<1>5. ASSUME NEW k \in Runs, Reap(k) PROVE Pricing'  BY <1>5 DEF Reap
<1>6. ASSUME NEW p \in Procs, Restart(p) PROVE Pricing'  BY <1>6 DEF Restart
<1>7. CASE UNCHANGED vars  BY <1>7 DEF vars
<1>8. QED
  BY <1>1, <1>2, <1>3, <1>4, <1>5, <1>6, <1>7 DEF Next

(* A run whose quotes are all of the default depth had no other quote      *)
(* before the step either: no step renames or reprices one.                *)
LEMMA QuotesOnlyGrow ==
  ASSUME TypeInv, IssuedFirst, [Next]_vars, NEW k \in Runs,
         \A q \in QuotesOf(k)' : quoteDepth'[q] = Standard
  PROVE  \A q \in QuotesOf(k) : quoteDepth[q] = Standard
<1> USE RunBillingAssumption DEF TypeInv, TypeOK, Named
<1>1. \A q \in Quotes : redeemedFor[q] # NoRun =>
        redeemedFor'[q] = redeemedFor[q] /\ quoteDepth'[q] = quoteDepth[q]
  <2>1. ASSUME NEW r \in Requests, Start(r)
        PROVE  \A q \in Quotes : redeemedFor[q] # NoRun =>
                 redeemedFor'[q] = redeemedFor[q] /\ quoteDepth'[q] = quoteDepth[q]
    BY <2>1 DEF Start, StartRead, LoadQuote, Consume, CheckBudget, Claim, Deduct, Spawn, Raise
  <2>2. ASSUME NEW r \in Requests, Engine(r)
        PROVE  UNCHANGED <<redeemedFor, quoteDepth>>
    BY <2>2 DEF Engine, Attempt, Report, Reconcile
  <2>3. ASSUME NEW q \in Quotes, Expire(q) PROVE UNCHANGED <<redeemedFor, quoteDepth>>
    BY <2>3 DEF Expire
  <2>4. ASSUME NEW j \in Quotes, NEW d \in Depths, IssueQuote(j, d)
        PROVE  \A q \in Quotes : redeemedFor[q] # NoRun =>
                 redeemedFor'[q] = redeemedFor[q] /\ quoteDepth'[q] = quoteDepth[q]
    BY <2>4 DEF IssueQuote, IssuedFirst
  <2>5. ASSUME NEW j \in Runs, Reap(j) PROVE UNCHANGED <<redeemedFor, quoteDepth>>
    BY <2>5 DEF Reap
  <2>6. ASSUME NEW p \in Procs, Restart(p) PROVE UNCHANGED <<redeemedFor, quoteDepth>>
    BY <2>6 DEF Restart
  <2>7. CASE UNCHANGED vars  BY <2>7 DEF vars
  <2>8. QED  BY <2>1, <2>2, <2>3, <2>4, <2>5, <2>6, <2>7 DEF Next
<1>2. QED  BY <1>1 DEF QuotesOf

(* A step that reconciles nothing leaves the ledger of a settled run, and  *)
(* lowers nothing that was asked for it.                                   *)
LEMMA SettledStays ==
  ASSUME TypeInv, TypeInv', IssuedFirst, SettledIsCovered, [Next]_vars, settled' \subseteq settled,
         \A k \in settled' : /\ ledger'[k] = ledger[k]
                             /\ charged[k] <= charged'[k] /\ topped[k] <= topped'[k]
  PROVE  SettledIsCovered'
<1> SUFFICES ASSUME NEW k \in settled',
                    \A q \in QuotesOf(k)' : quoteDepth'[q] = Standard
             PROVE  charged'[k] + topped'[k] >= ledger'[k]
  BY DEF SettledIsCovered
<1>1. k \in Runs  BY DEF TypeInv, TypeOK
<1>2. charged[k] + topped[k] >= ledger[k]
  BY <1>1, QuotesOnlyGrow DEF SettledIsCovered
<1>3. QED  BY <1>1, <1>2 DEF TypeInv, TypeOK

(* The reconciliation itself: the run that settles was charged the default *)
(* price at least, or is billed everything.                                *)
LEMMA SettledHere ==
  ASSUME CoverInv, TypeInv', [Next]_vars, NEW r \in Requests, Reconcile(r)
  PROVE  SettledIsCovered'
<1> USE RunBillingAssumption DEF CoverInv, TypeInv, TypeOK, Named, Pricing
<1> DEFINE k == runOf[r]
<1>0. /\ k \in Runs /\ ledger[k] \in Nat /\ charged[k] \in Nat /\ topped[k] \in Nat
      /\ PriceAt[Standard] \in Nat /\ UNCHANGED <<quotes, ledger, charged>>
  BY DEF Reconcile
<1>1. CASE UNCHANGED <<topped, settled>>
  BY <1>0, <1>1, SettledStays
<1>2. ASSUME NEW a \in Nat, Bill(k, a),
             (\A q \in QuotesOf(k) : quoteDepth[q] = Standard) => charged[k] + a >= ledger[k]
      PROVE  SettledIsCovered'
  <2> SUFFICES ASSUME NEW j \in settled',
                      \A q \in QuotesOf(j) : quoteDepth[q] = Standard
               PROVE  charged[j] + topped'[j] >= ledger[j]
    BY <1>0 DEF SettledIsCovered, QuotesOf
  <2>1. CASE j = k
    <3>1. charged[k] + a >= ledger[k]  BY <1>2, <2>1
    <3>2. topped'[k] = topped[k] + a  BY <1>0, <1>2 DEF Bill
    <3>3. QED  BY <1>0, <2>1, <3>1, <3>2
  <2>2. CASE j # k
    <3>1. j \in settled /\ topped'[j] = topped[j]  BY <1>0, <1>2, <2>2 DEF Bill
    <3>2. QED  BY <3>1 DEF SettledIsCovered
  <2>3. QED  BY <2>1, <2>2
<1>3. CASE QuotesOf(k) = {} /\ Bill(k, ledger[k])
  BY <1>0, <1>2, <1>3
<1>4. ASSUME NEW q \in QuotesOf(k), Bill(k, Shortfall(k, q)) PROVE SettledIsCovered'
  <2>1. Shortfall(k, q) \in Nat /\ ledger[k] <= PriceAt[quoteDepth[q]] + Shortfall(k, q)
    <3> DEFINE cost == ledger[k]  price == PriceAt[quoteDepth[q]]
    <3>1. cost \in Nat /\ price \in Nat  BY <1>0 DEF QuotesOf
    <3>2. Shortfall(k, q) = IF cost > price THEN cost - price ELSE 0  BY DEF Shortfall
    <3> HIDE DEF cost, price
    <3>3. Shortfall(k, q) \in Nat /\ cost <= price + Shortfall(k, q)  BY <3>1, <3>2
    <3>4. QED  BY <3>3 DEF cost, price
  <2>2. ASSUME \A j \in QuotesOf(k) : quoteDepth[j] = Standard
        PROVE  charged[k] + Shortfall(k, q) >= ledger[k]
    <3>1. asked[r] <= charged[k]  BY DEF Reconcile, Collected
    <3>2. asked[r] = PriceAt[Standard]
      <4>1. Charging(r)  BY DEF Reconcile, Charging
      <4>2. CASE quoteOf[r] = NoQuote  BY <4>1, <4>2 DEF AskedPrice
      <4>3. CASE quoteOf[r] # NoQuote
        <5>1. quoteOf[r] \in QuotesOf(k) /\ asked[r] = PriceAt[quoteDepth[quoteOf[r]]]
          BY <4>1, <4>3 DEF AskedPrice, QuotesOf
        <5>2. QED  BY <2>2, <5>1
      <4>4. QED  BY <4>2, <4>3
    <3>3. PriceAt[quoteDepth[q]] = PriceAt[Standard]  BY <2>2
    <3>4. QED  BY <1>0, <2>1, <3>1, <3>2, <3>3
  <2>3. QED  BY <1>2, <1>4, <2>1, <2>2
<1>5. QED  BY <1>1, <1>3, <1>4 DEF Reconcile

(* Anybody else.                                                           *)
LEMMA SettledElsewhere ==
  ASSUME CoverInv, TypeInv', [Next]_vars, ~ \E r \in Requests : Reconcile(r)
  PROVE  SettledIsCovered'
<1> USE RunBillingAssumption DEF CoverInv, TypeInv, TypeOK, Named, Pricing
<1>1. ASSUME NEW r \in Requests, Start(r) PROVE SettledIsCovered'
  <2>1. CASE Deduct(r)
    <3>1. \A k \in Runs : charged[k] <= charged'[k]  BY <2>1 DEF Deduct
    <3>2. QED  BY <2>1, <3>1, SettledStays DEF Deduct
  <2>2. CASE ~ Deduct(r)
    <3>1. UNCHANGED <<settled, ledger, charged, topped>>
      BY <1>1, <2>2 DEF Start, StartRead, LoadQuote, Consume, CheckBudget, Claim, Spawn, Raise
    <3>2. QED  BY <3>1, SettledStays
  <2>3. QED  BY <2>1, <2>2
<1>2. ASSUME NEW r \in Requests, NEW c \in Costs, NEW kept \in BOOLEAN, Attempt(r, c, kept)
      PROVE  SettledIsCovered'
  <2>1. /\ settled' = settled \ {runOf[r]} /\ UNCHANGED <<charged, topped>>
        /\ \A k \in settled' : ledger'[k] = ledger[k]
    BY <1>2 DEF Attempt
  <2>2. QED  BY <2>1, SettledStays
<1>3. ASSUME \/ \E r \in Requests : Report(r)
             \/ \E q \in Quotes : Expire(q) \/ \E d \in Depths : IssueQuote(q, d)
             \/ \E k \in Runs : Reap(k)
             \/ \E p \in Procs : Restart(p)
             \/ UNCHANGED vars
      PROVE  SettledIsCovered'
  <2>1. UNCHANGED <<settled, ledger, charged, topped>>
    BY <1>3 DEF Report, Expire, IssueQuote, Reap, Restart, vars
  <2>2. QED  BY <2>1, SettledStays
<1>4. QED  BY <1>1, <1>2, <1>3 DEF Next, Engine

(* A run that was reconciled has been asked for all that it cost, failed   *)
(* attempts under the same id included, whichever of the quotes that name  *)
(* it the reconciliation found.                                            *)
THEOREM SettledRunsAreCovered == Spec => []SettledIsCovered
<1>1. Init => CoverInv
  <2> SUFFICES ASSUME Init PROVE CoverInv  OBVIOUS
  <2>1. TypeInv  BY TypeInit
  <2>3. Pricing  BY DEF Init, Pricing, IssuedFirst, AskedPrice, Collected, Charging
  <2>4. SettledIsCovered  BY DEF Init, SettledIsCovered
  <2>5. QED  BY <2>1, <2>3, <2>4 DEF CoverInv
<1>2. CoverInv /\ [Next]_vars => CoverInv'
  <2> SUFFICES ASSUME CoverInv, [Next]_vars PROVE CoverInv'  OBVIOUS
  <2>1. TypeInv'  BY TypeNext DEF CoverInv
  <2>2. Pricing'  BY <2>1, PricingNext DEF CoverInv
  <2>3. SettledIsCovered'  BY <2>1, SettledHere, SettledElsewhere
  <2>4. QED  BY <2>1, <2>2, <2>3 DEF CoverInv
<1>3. CoverInv => SettledIsCovered  BY DEF CoverInv
<1>4. QED  BY <1>1, <1>2, <1>3, PTL DEF Spec

HIDE DEF StartableStatuses, Handler, Sync, Resting, PCs, Claimed, money, args, quotes, At, Goto

-----------------------------------------------------------------------------
(* Side by side the parts promise the same: a step of one leaves the       *)
(* variables of the others alone.                                          *)
THEOREM OrganizationHolds ==
  ASSUME MostTries \in Nat, Cap \in Nat, Threshold \in Nat, MostMatches \in Nat,
         MaxRows \in Int, MaxObjections \in Int,
         AgentCounts \subseteq Nat, RoundCounts \subseteq Nat, VariantCounts \subseteq Nat
  PROVE  MCSpec => [](/\ QuoteFundsOneStart /\ StartsHold /\ SettledIsCovered
                      /\ LimitHolds /\ RowsAccountedFor /\ NoRoundWasBetter /\ RoomSetsNoPrice
                      /\ ShortlistHolds /\ ArtifactHolds /\ MoreCostsMore)
                 /\ OnlyOwnSessionEnds
<1>0. MCInit => Init  BY DEF MCInit, Billed
<1>1. MCInit => /\ Accounting!Init /\ Ledger!Init /\ Rewriting!Init /\ Documents!Init
                /\ Curating!Init /\ Searching!Init /\ Prices!Init
  BY DEF MCInit, Searched, Documented
<1>2a. [MCNext]_all => [Next]_vars
  BY DEF MCNext, all
<1>2. [MCNext]_all => [Accounting!Next]_(Accounting!accountsVars)
  BY DEF MCNext, all, people, Accounting!accountsVars
<1>3. [MCNext]_all => [Ledger!Next]_(Ledger!ledgerVars)
  BY DEF MCNext, all, calls, Ledger!ledgerVars
<1>4. [MCNext]_all => [Rewriting!Next]_(Rewriting!rewriteVars)
  BY DEF MCNext, all, page, Rewriting!rewriteVars
<1>5. [MCNext]_all => [Documents!Next]_(Documents!docVars)
  BY DEF MCNext, all, gtm, Documents!docVars
<1>6. [MCNext]_all => [Curating!Next]_(Curating!curationVars)
  BY DEF MCNext, all, curation, Curating!curationVars
<1>7. [MCNext]_all => [Searching!Next]_(Searching!searchVars)
  BY DEF MCNext, all, search, Searching!searchVars
<1>8. [MCNext]_all => [Prices!Next]_(Prices!pricingVars)
  BY DEF MCNext, all, prices, Prices!pricingVars
<1>9. MCSpec => /\ Spec /\ Accounting!Spec /\ Ledger!Spec /\ Rewriting!Spec /\ Documents!Spec
                /\ Curating!Spec /\ Searching!Spec /\ Prices!Spec
  BY <1>0, <1>1, <1>2a, <1>2, <1>3, <1>4, <1>5, <1>6, <1>7, <1>8, PTL
  DEF MCSpec, Spec, Accounting!Spec, Ledger!Spec, Rewriting!Spec, Documents!Spec, Curating!Spec,
      Searching!Spec, Prices!Spec
<1>10. Accounting!Spec => []LimitHolds  BY LimitIsKept
<1>11. Ledger!Spec => []RowsAccountedFor  BY EveryRowAccountedFor
<1>12. Rewriting!Spec => []NoRoundWasBetter  BY BestRoundIsDelivered
<1>13. Documents!Spec => []RoomSetsNoPrice  BY PricesAreTheFounders
<1>14. Curating!Spec => []ShortlistHolds  BY ShortlistsAreQuoted
<1>15. Searching!Spec => []ArtifactHolds  BY ClearanceIsSound
<1>16. Prices!Spec => []MoreCostsMore  BY PricesGrow
<1>17. Accounting!Spec => OnlyOwnSessionEnds  BY SessionsEndByTheirOwner
<1>18. Spec => [](QuoteFundsOneStart /\ StartsHold /\ SettledIsCovered)
  BY QuoteIsSingleUse, StartsAreHeldAndPaid, SettledRunsAreCovered, PTL
<1>19. QED
  BY <1>9, <1>10, <1>11, <1>12, <1>13, <1>14, <1>15, <1>16, <1>17, <1>18, PTL
=============================================================================
