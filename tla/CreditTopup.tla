----------------------------- MODULE CreditTopup -----------------------------
(***************************************************************************)
(* Buying credits: POST /billing/topup opens Stripe Checkout, the founder  *)
(* pays at Stripe, the webhook credits the balance.                        *)
(*                                                                         *)
(* A Stripe customer, a session and a webhook signature belong to the      *)
(* account whose keys the process holds, so each is named by that account. *)
(* A handler does not await: in one process its steps and the webhook's do *)
(* not interleave, and a deploy replaces process, keys and rate together.  *)
(***************************************************************************)
EXTENDS Naturals

CONSTANTS
  Topups,      \* checkouts asked for
  Procs,       \* API processes alive at the same time
  Accounts,    \* Stripe accounts (sandbox, live)
  Rates,       \* what the amount buys, in credits, at one rate or another
  MaxDeploys,  \* bound: deploys explored
  NoAccount
TopupAssumption ==
  /\ NoAccount \notin Accounts /\ Rates \subseteq Nat \ {0} /\ MaxDeploys \in Nat

VARIABLES
  customer,  \* organizations.stripe_customer_id
  keys,      \* [process -> account of its secret key and webhook secret]
  rate,      \* [process -> credits_for_topup of the amount]
  pc, proc,  \* where each checkout stands, and the process that serves it
  held,      \* the customer it hands to Stripe
  offered,   \* quote.credits, the number on the screen
  session,   \* the Checkout session: the account it was opened on
  row,       \* credit_topups.credits, 0 when there is no row
  handed,    \* checkouts whose URL the founder has
  paid,      \* checkouts paid at Stripe
  credited,  \* rows with credited_at set
  received,  \* history: what the balance gained for each
  acked,     \* events Stripe has a 200 for, and stops asking about
  deploys
checkout == <<customer, pc, proc, held, offered, session, row>>
webhook  == <<credited, received, acked>>
env      == <<keys, rate, deploys>>
vars     == <<checkout, handed, paid, webhook, env>>

Handler == {"mint", "build", "remint", "rebuild", "insert", "return"}
PCs     == Handler \cup {"idle", "done", "raised", "rejected", "dead"}

(* Every variable keeps its type through deploys and redeliveries: what    *)
(* one top-up added to the balance is never more than one offer.           *)
TypeOK ==
  /\ customer \in Accounts \cup {NoAccount}
  /\ keys \in [Procs -> Accounts] /\ rate \in [Procs -> Rates]
  /\ pc \in [Topups -> PCs] /\ proc \in [Topups -> Procs]
  /\ held \in [Topups -> Accounts \cup {NoAccount}]
  /\ offered \in [Topups -> Rates \cup {0}]
  /\ session \in [Topups -> Accounts \cup {NoAccount}]
  /\ row \in [Topups -> Rates \cup {0}]
  /\ handed \subseteq Topups /\ paid \subseteq Topups
  /\ credited \subseteq Topups /\ acked \subseteq Topups
  /\ received \in [Topups -> Rates \cup {0}]
  /\ deploys \in 0..MaxDeploys

Init ==
  /\ customer \in Accounts \cup {NoAccount}
  /\ keys \in [Procs -> Accounts] /\ rate \in [Procs -> Rates]
  /\ pc = [t \in Topups |-> "idle"] /\ proc \in [Topups -> Procs]
  /\ held = [t \in Topups |-> NoAccount]
  /\ offered = [t \in Topups |-> 0]
  /\ session = held /\ row = offered /\ received = offered
  /\ handed = {} /\ paid = {} /\ credited = {} /\ acked = {}
  /\ deploys = 0

-----------------------------------------------------------------------------
Idle(p)     == \A t \in Topups : proc[t] = p => pc[t] \notin Handler
Goto(t, to) == pc' = [pc EXCEPT ![t] = to]

(* Quote the amount and read the organization.                             *)
Ask(t) ==
  /\ pc[t] = "idle" /\ Idle(proc[t])
  /\ offered' = [offered EXCEPT ![t] = rate[proc[t]]]
  /\ held' = [held EXCEPT ![t] = customer]
  /\ Goto(t, IF customer = NoAccount THEN "mint" ELSE "build")
  /\ UNCHANGED <<customer, proc, session, row, handed, paid, webhook, env>>

(* _mint_customer, before the first attempt or after Stripe refused it.    *)
Mint(t) ==
  /\ pc[t] \in {"mint", "remint"}
  /\ Goto(t, IF pc[t] = "mint" THEN "build" ELSE "rebuild")
  /\ customer' = keys[proc[t]]
  /\ held' = [held EXCEPT ![t] = keys[proc[t]]]
  /\ UNCHANGED <<proc, offered, session, row, handed, paid, webhook, env>>

(* Session.create: opened for a customer of this account; otherwise        *)
(* resource_missing, survived once.                                        *)
Build(t) ==
  /\ pc[t] \in {"build", "rebuild"}
  /\ LET known == held[t] = keys[proc[t]]
     IN  /\ session' = IF known THEN [session EXCEPT ![t] = held[t]] ELSE session
         /\ Goto(t, IF known THEN "insert"
                    ELSE IF pc[t] = "build" THEN "remint" ELSE "rejected")
  /\ UNCHANGED <<customer, proc, held, offered, row, handed, paid, webhook, env>>

(* The credit_topups row, then the URL.                                    *)
Insert_Late(t) ==   \* mutant: the URL goes out before the row
  /\ pc[t] = "insert"
  /\ Goto(t, "return")
  /\ UNCHANGED <<customer, proc, held, offered, session, row, handed, paid, webhook, env>>
Insert(t) ==
  /\ pc[t] = "insert"
  /\ row' = [row EXCEPT ![t] = offered[t]]
  /\ Goto(t, "return")
  /\ UNCHANGED <<customer, proc, held, offered, session, handed, paid, webhook, env>>

HandBack(t) ==
  /\ pc[t] = "return"
  /\ handed' = handed \cup {t}
  /\ Goto(t, "done")
  /\ UNCHANGED <<customer, proc, held, offered, session, row, paid, webhook, env>>

(* Any other error of Stripe or of the database reaches the founder.       *)
CheckoutRaises(t) ==
  /\ pc[t] \in Handler \ {"return"}
  /\ Goto(t, "raised")
  /\ UNCHANGED <<customer, proc, held, offered, session, row, handed, paid, webhook, env>>

(* External: the founder pays the session whose URL they were given.       *)
Pay(t) ==
  /\ t \in handed
  /\ paid' = paid \cup {t}
  /\ UNCHANGED <<checkout, handed, webhook, env>>

(* handle_webhook on checkout.session.completed, delivered as often as     *)
(* Stripe likes.  apply_credit_topup is one transaction, and what it finds *)
(* is a 200 either way; the 200 may be lost on its way back.               *)
Apply_AtRate(t) ==   \* mutant: the credits recomputed when the payment lands
  IF row[t] = 0 \/ t \in credited THEN UNCHANGED <<credited, received>>
  ELSE /\ credited' = credited \cup {t}
       /\ received' = [received EXCEPT ![t] = @ + rate[proc[t]]]
Apply(t) ==
  IF row[t] = 0 \/ t \in credited THEN UNCHANGED <<credited, received>>
  ELSE /\ credited' = credited \cup {t}
       /\ received' = [received EXCEPT ![t] = @ + row[t]]

Deliver_Never(t, p) ==   \* mutant: nothing branches on kind = credit_topup
  /\ t \in paid /\ keys[p] = session[t] /\ Idle(p)
  /\ acked' = acked \cup {t}
  /\ UNCHANGED <<checkout, handed, paid, credited, received, env>>
Deliver(t, p) ==
  /\ t \in paid /\ keys[p] = session[t] /\ Idle(p)
  /\ Apply(t)
  /\ \E heard \in BOOLEAN : acked' = IF heard THEN acked \cup {t} ELSE acked
  /\ UNCHANGED <<checkout, handed, paid, env>>

(* A deploy: the process dies in whatever it was doing, its successor may  *)
(* hold other keys and another rate.                                       *)
Deploy(p) ==
  /\ deploys < MaxDeploys
  /\ deploys' = deploys + 1
  /\ \E k \in Accounts, c \in Rates :
       keys' = [keys EXCEPT ![p] = k] /\ rate' = [rate EXCEPT ![p] = c]
  /\ pc' = [t \in Topups |-> IF proc[t] = p /\ pc[t] \in Handler THEN "dead" ELSE pc[t]]
  /\ UNCHANGED <<customer, proc, held, offered, session, row, handed, paid, webhook>>

Serve(t) == Mint(t) \/ Build(t) \/ Insert(t) \/ HandBack(t) \/ CheckoutRaises(t)
Next ==
  \/ \E t \in Topups : Ask(t) \/ Serve(t) \/ Pay(t) \/ \E p \in Procs : Deliver(t, p)
  \/ \E p \in Procs : Deploy(p)
Spec == Init /\ [][Next]_vars

(* A handler runs to its end, and Stripe delivers until it has been told   *)
(* 200: some delivery reaches a live process and the database.             *)
GoesOn(t) == Serve(t) \/ \E p \in Procs : Deliver(t, p)
Fairness == \A t \in Topups : WF_vars(GoesOn(t))
FairSpec == Spec /\ Fairness

-----------------------------------------------------------------------------
(* Money answered with a 200 is money credited: Stripe stops asking then,  *)
(* so a paid session must have had its row before the founder could pay it *)
(* (create_topup_checkout inserts before it returns the URL).              *)
AckedIsCredited == acked \subseteq credited

(* However often the event is delivered, by whichever process and at       *)
(* whichever rate, the balance gains what the screen offered, once         *)
(* (apply_credit_topup claims the row; the row stores the credits).        *)
CreditedAsOffered ==
  \A t \in Topups : received[t] = IF t \in credited THEN offered[t] ELSE 0

(* No founder is turned away for a customer id Stripe has never heard of:  *)
(* the id a process mints after the refusal is one its own account knows   *)
(* (_checkout_recovering_stale_customer).                                  *)
NeverRejected == \A t \in Topups : pc[t] # "rejected"

(* What is paid is credited in the end, when some process goes on holding  *)
(* the keys of the account the session was opened on.                      *)
PaidIsCredited ==
  \A t \in Topups :
    <>[](\E p \in Procs : keys[p] = session[t]) => (t \in paid ~> t \in credited)
=============================================================================
