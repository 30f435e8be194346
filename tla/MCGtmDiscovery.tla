--------------------------- MODULE MCGtmDiscovery ---------------------------
(***************************************************************************)
(* What settles in credits with the world outside: discoveries against a   *)
(* search provider, and top-ups against Stripe.  The two meet in no row,   *)
(* so a behaviour is one of them alone.  Three credits for nothing found   *)
(* would be a refund of everything, and the price rises with each query    *)
(* delivered.                                                              *)
(***************************************************************************)
EXTENDS GtmDiscovery

CONSTANTS Topups, Accounts, Rates, MaxDeploys, NoAccount

VARIABLES
  part,
  customer, keys, rate, at, server, held, offered, session, line, handed, paid,
  credited, received, acked, deploys
topup == <<customer, keys, rate, at, server, held, offered, session, line, handed, paid,
           credited, received, acked, deploys>>
all == <<part, vars, topup>>

Rising == [n \in Count |-> IF n = 0 THEN 0 ELSE n + 1]
Topup  == INSTANCE CreditTopup WITH pc <- at, proc <- server, row <- line
ASSUME ValuesAssumption == Topup!TopupAssumption

(* Processes are alike, and so are discoveries: only which of them are     *)
(* served together with the client, and how many, makes a difference.  A   *)
(* part not under way starts the same.                                     *)
SomeProc == CHOOSE p \in Procs : TRUE
Placed ==
  IF part = "discovery"
  THEN /\ \A c \in Clients : proc[c] = SomeProc
       /\ (\E r \in Discoveries : proc[r] = SomeProc) =>
             proc[CHOOSE r \in Discoveries : TRUE] = SomeProc
  ELSE proc = [a \in Actors |-> SomeProc]
ToppedUp ==
  /\ Topup!Init
  /\ IF part = "topup" THEN server[CHOOSE t \in Topups : TRUE] = SomeProc
     ELSE /\ customer = NoAccount /\ server = [t \in Topups |-> SomeProc]
          /\ keys = [p \in Procs |-> CHOOSE k \in Accounts : TRUE]
          /\ rate = [p \in Procs |-> CHOOSE c \in Rates : TRUE]
MCInit == part \in {"discovery", "topup"} /\ Init /\ Placed /\ ToppedUp

(* Steps of one part, the other standing still.                            *)
Discovering(A) == part = "discovery" /\ A /\ UNCHANGED <<part, topup>>
Topping(A)     == part = "topup" /\ A /\ UNCHANGED <<part, vars>>
MCNext == Discovering(Next) \/ Topping(Topup!Next)

(* The fairness of each part, as its module states it.                     *)
MCFairness ==
  /\ WF_all(Discovering(\E r \in Discoveries : GoesOn(r)))
  /\ SF_all(Discovering(\E r \in Discoveries : Close(r)))
  /\ \A c \in Clients : WF_all(Discovering(Settle(c)))
  /\ \A t \in Topups : WF_all(Topping(Topup!GoesOn(t)))
MCSpec == MCInit /\ [][MCNext]_all /\ MCFairness

(* What the top-ups promise, under the name their module states it by.     *)
AckedIsCredited == Topup!AckedIsCredited
CreditedAsOffered == Topup!CreditedAsOffered
PaidIsCredited == Topup!PaidIsCredited
=============================================================================
