------------------------- MODULE CreditTopup_proofs -------------------------
(***************************************************************************)
(* For any number of top-ups, processes, accounts, rates and deploys: the  *)
(* balance gains what was offered, once, for what was paid; an event Stripe*)
(* stops asking about is one that was credited; nobody is turned away for  *)
(* a dead customer id.  In the names of the host, where a checkout stands  *)
(* at `at`, its server is `server` and its row is `line`.                  *)
(***************************************************************************)
EXTENDS MCGtmDiscovery, TLAPS

(* A row holds the offer it was made for.                                  *)
RowsHoldOffers == \A t \in Topups :
  /\ line[t] \in {0, offered[t]}
  /\ at[t] = "idle" => line[t] = 0
  /\ at[t] \in Topup!Handler \cup {"done"} => offered[t] # 0
  /\ at[t] = "return" => line[t] = offered[t]

(* The URL goes out last: what a founder can pay has its row and is over.  *)
HandedHasRow == \A t \in handed : line[t] # 0 /\ at[t] = "done"

(* Only what was paid is credited, and by what its row says.               *)
CreditFollows ==
  /\ paid \subseteq handed /\ credited \subseteq paid
  /\ \A t \in Topups : received[t] = IF t \in credited THEN line[t] ELSE 0

(* A customer minted after a refusal is known to the process that minted.  *)
RemintIsKnown == \A t \in Topups : at[t] = "rebuild" => held[t] = keys[server[t]]

Inv ==
  /\ Topup!TypeOK /\ RowsHoldOffers /\ HandedHasRow /\ CreditFollows
  /\ AckedIsCredited /\ RemintIsKnown /\ Topup!NeverRejected

(* The initial states satisfy the invariant.                               *)
LEMMA InvInit == ASSUME Topup!Init PROVE Inv
BY ValuesAssumption DEF Topup!TopupAssumption, Topup!Init, Inv, Topup!TypeOK, RowsHoldOffers,
   HandedHasRow, CreditFollows, AckedIsCredited, Topup!AckedIsCredited, RemintIsKnown,
   Topup!NeverRejected, Topup!PCs, Topup!Handler

(* What a first claim adds is what the row holds.                          *)
LEMMA ClaimAddsRow ==
  ASSUME Topup!TypeOK, CreditFollows, NEW t \in Topups, t \notin credited
  PROVE  received[t] + line[t] = line[t] /\ line[t] \in Rates \cup {0}
<1>1. received[t] = 0 /\ line[t] \in Rates \cup {0}
  BY DEF Topup!TypeOK, CreditFollows
<1>2. CASE line[t] = 0
  BY <1>1, <1>2
<1>3. CASE line[t] \in Rates
  <2>1. line[t] \in Nat
    BY <1>3, ValuesAssumption DEF Topup!TopupAssumption
  <2> QED
    BY <1>1, <2>1
<1> QED
  BY <1>1, <1>2, <1>3

(* Types survive every step.                                               *)
LEMMA TypeNext == ASSUME Topup!TypeOK, CreditFollows, [Topup!Next]_(Topup!vars) PROVE Topup!TypeOK'
<1> USE ValuesAssumption DEF Topup!TopupAssumption, Topup!TypeOK, Topup!PCs, Topup!Handler,
     Topup!Goto, Topup!checkout, Topup!webhook, Topup!env
<1>1. ASSUME NEW t \in Topups, Topup!Ask(t) PROVE Topup!TypeOK'
  BY <1>1 DEF Topup!Ask
<1>2. ASSUME NEW t \in Topups, Topup!Mint(t) PROVE Topup!TypeOK'
  BY <1>2 DEF Topup!Mint
<1>3. ASSUME NEW t \in Topups, Topup!Build(t) PROVE Topup!TypeOK'
  BY <1>3 DEF Topup!Build
<1>4. ASSUME NEW t \in Topups, Topup!Insert(t) PROVE Topup!TypeOK'
  BY <1>4 DEF Topup!Insert
<1>5. ASSUME NEW t \in Topups, Topup!HandBack(t) PROVE Topup!TypeOK'
  BY <1>5 DEF Topup!HandBack
<1>6. ASSUME NEW t \in Topups, Topup!CheckoutRaises(t) PROVE Topup!TypeOK'
  BY <1>6 DEF Topup!CheckoutRaises
<1>7. ASSUME NEW t \in Topups, Topup!Pay(t) PROVE Topup!TypeOK'
  BY <1>7 DEF Topup!Pay
<1>8. ASSUME NEW t \in Topups, NEW p \in Procs, Topup!Deliver(t, p) PROVE Topup!TypeOK'
  <2>1. acked' \subseteq Topups
    BY <1>8 DEF Topup!Deliver
  <2>2. Topup!Apply(t)
    BY <1>8 DEF Topup!Deliver
  <2>3. CASE line[t] = 0 \/ t \in credited
    BY <1>8, <2>1, <2>2, <2>3 DEF Topup!Apply, Topup!Deliver
  <2>4. CASE line[t] # 0 /\ t \notin credited
    <3>1. received' = [received EXCEPT ![t] = @ + line[t]] /\ credited' = credited \cup {t}
      BY <2>2, <2>4 DEF Topup!Apply
    <3>2. received[t] + line[t] \in Rates \cup {0}
      BY <2>4, ClaimAddsRow
    <3> QED
      BY <1>8, <2>1, <3>1, <3>2 DEF Topup!Deliver
  <2> QED
    BY <2>3, <2>4
<1>9. ASSUME NEW p \in Procs, Topup!Deploy(p) PROVE Topup!TypeOK'
  BY <1>9 DEF Topup!Deploy
<1>10. CASE UNCHANGED Topup!vars
  BY <1>10 DEF Topup!vars
<1> QED
  BY <1>1, <1>2, <1>3, <1>4, <1>5, <1>6, <1>7, <1>8, <1>9, <1>10 DEF Topup!Next, Topup!Serve

(* The invariant survives every step.                                      *)
LEMMA InvNext == ASSUME Inv, [Topup!Next]_(Topup!vars) PROVE Inv'
<1>t. Topup!TypeOK'
  BY TypeNext DEF Inv
<1> USE <1>t DEF Inv, Topup!TypeOK, RowsHoldOffers, HandedHasRow, CreditFollows, AckedIsCredited,
     Topup!AckedIsCredited, RemintIsKnown, Topup!NeverRejected, Topup!Handler, Topup!Goto,
     Topup!checkout, Topup!webhook, Topup!env
<1>1. ASSUME NEW t \in Topups, Topup!Ask(t) PROVE Inv'
  BY <1>1, ValuesAssumption DEF Topup!TopupAssumption, Topup!Ask
<1>2. ASSUME NEW t \in Topups, Topup!Mint(t) PROVE Inv'
  BY <1>2 DEF Topup!Mint
<1>3. ASSUME NEW t \in Topups, Topup!Build(t) PROVE Inv'
  BY <1>3 DEF Topup!Build
<1>4. ASSUME NEW t \in Topups, Topup!Insert(t) PROVE Inv'
  BY <1>4 DEF Topup!Insert
<1>5. ASSUME NEW t \in Topups, Topup!HandBack(t) PROVE Inv'
  BY <1>5 DEF Topup!HandBack
<1>6. ASSUME NEW t \in Topups, Topup!CheckoutRaises(t) PROVE Inv'
  BY <1>6 DEF Topup!CheckoutRaises
<1>7. ASSUME NEW t \in Topups, Topup!Pay(t) PROVE Inv'
  BY <1>7 DEF Topup!Pay
<1>8. ASSUME NEW t \in Topups, NEW p \in Procs, Topup!Deliver(t, p) PROVE Inv'
  <2>1. t \in handed /\ line[t] # 0
    BY <1>8 DEF Topup!Deliver
  <2>2. CASE t \in credited
    BY <1>8, <2>1, <2>2 DEF Topup!Deliver, Topup!Apply
  <2>3. CASE t \notin credited
    <3>1. /\ credited' = credited \cup {t}
          /\ received' = [received EXCEPT ![t] = @ + line[t]]
      BY <1>8, <2>1, <2>3 DEF Topup!Deliver, Topup!Apply
    <3>2. received[t] + line[t] = line[t]
      BY <2>3, ClaimAddsRow
    <3>3. \A u \in Topups : received'[u] = IF u \in credited' THEN line[u] ELSE 0
      BY <3>1, <3>2
    <3>4. acked' \subseteq acked \cup {t}
      BY <1>8 DEF Topup!Deliver
    <3>5. t \in paid /\ UNCHANGED <<Topup!checkout, handed, paid, Topup!env>>
      BY <1>8 DEF Topup!Deliver
    <3> QED
      BY <3>1, <3>3, <3>4, <3>5
  <2> QED
    BY <2>2, <2>3
<1>9. ASSUME NEW p \in Procs, Topup!Deploy(p) PROVE Inv'
  BY <1>9 DEF Topup!Deploy
<1>10. CASE UNCHANGED Topup!vars
  BY <1>10 DEF Topup!vars
<1> QED
  BY <1>1, <1>2, <1>3, <1>4, <1>5, <1>6, <1>7, <1>8, <1>9, <1>10 DEF Topup!Next, Topup!Serve

(* The invariant holds throughout.                                         *)
LEMMA Invariant == Topup!Spec => []Inv
BY InvInit, InvNext, PTL DEF Topup!Spec

(* An event Stripe has a 200 for is credited: nothing paid is dropped by   *)
(* an acknowledgement (handle_webhook answers 200 whatever the RPC found). *)
THEOREM AcknowledgedMoneyIsCredited == Topup!Spec => []AckedIsCredited
<1>1. Inv => AckedIsCredited
  BY DEF Inv, AckedIsCredited, Topup!AckedIsCredited
<1> QED
  BY <1>1, Invariant, PTL

(* Each top-up moves the balance by the credits it was offered, at most    *)
(* once, through any redelivery, deploy or change of rate.                 *)
THEOREM CreditedOnceAsOffered == Topup!Spec => []CreditedAsOffered
<1>1. Inv => CreditedAsOffered
  BY DEF Inv, Topup!TypeOK, RowsHoldOffers, HandedHasRow, CreditFollows, CreditedAsOffered,
     Topup!CreditedAsOffered
<1> QED
  BY <1>1, Invariant, PTL

(* The retry after a refused customer is never refused for it again.       *)
THEOREM StaleCustomerRecovers == Topup!Spec => []Topup!NeverRejected
<1>1. Inv => Topup!NeverRejected
  BY DEF Inv
<1> QED
  BY <1>1, Invariant, PTL
=============================================================================
