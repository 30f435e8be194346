------------------------------- MODULE Accounts -------------------------------
(***************************************************************************)
(* Signing up, in, out and resetting a password, behind the attempt        *)
(* limiter; the organizations accounts lead to, and the platform owner's   *)
(* grants to them.  A handler runs statement by statement in its process.  *)
(* An invitation cannot be stored (its row names no user), so nobody but   *)
(* its founder is ever a member of an organization.                        *)
(***************************************************************************)
EXTENDS Naturals, Sequences, FiniteSets, SequencesExt

CONSTANTS
  Processes,   \* the processes that serve requests
  People,      \* addresses
  MostOrgs,    \* bound: organizations
  MostTries,   \* attempts the limiter lets through in one window
  MostHits,    \* bound: attempts counted in one window
  MostWaved,   \* bound: attempts let through uncounted in one window
  MostPaid     \* bound: what an organization is given in all

VARIABLES
  accounts,    \* the auth service: people with an account
  signed,      \* people signed in, in the order they signed in
  orgs,        \* organizations: founder, whether the membership row is there, money
  at,          \* what each process is answering: who asked, what for, and how far it is
  hits,        \* the limiter's counter in Redis, and whether it expires
  passed,      \* attempts let through since the counter started
  waved        \* of those, the ones to sign out that nobody counted: Redis did not answer

accountsVars == <<accounts, signed, orgs, at, hits, passed, waved>>

Idle == [who |-> "nobody", ask |-> "none", step |-> "none", org |-> 0, was |-> 0]
Platform == "the platform owner"
Limited == {"signup", "login", "reset", "logout"}
Asks == Limited \cup {"create", "grant"}
TierGrant == 1
Comped == 1

Init ==
  /\ accounts = {} /\ signed = <<>> /\ orgs = <<>>
  /\ at = [r \in Processes |-> Idle]
  /\ hits = [count |-> 0, expires |-> FALSE] /\ passed = 0 /\ waved = 0

-----------------------------------------------------------------------------
(* get_current_org: the oldest membership, or none.                        *)
Home(p) == {o \in DOMAIN orgs : orgs[o].who = p /\ orgs[o].linked
              /\ \A e \in 1..(o - 1) : ~(orgs[e].who = p /\ orgs[e].linked)}
(* Sessions are ended by the token of whoever asked: everyone else's stay. *)
Evicted_Ambient(p) ==   \* mutant: the shared client's session, whoever signed in last
  IF signed = <<>> THEN p ELSE Last(signed)
Evicted(p) == p
Without(gone) ==
  LET theirs == {i \in DOMAIN signed : signed[i] = gone} IN
  IF theirs = {} THEN signed ELSE RemoveAt(signed, CHOOSE i \in theirs : TRUE)

Arrive(r, p, a, o) ==
  /\ at[r] = Idle
  /\ CASE a = "create" -> p \in accounts /\ o = 0
       [] a = "grant" -> p = Platform /\ o \in DOMAIN orgs /\ orgs[o].paid < MostPaid
       [] OTHER -> p \in People /\ o = 0
  /\ at' = [at EXCEPT ![r] = [who |-> p, ask |-> a, org |-> o, was |-> 0,
              step |-> IF a \in Limited THEN "count" ELSE IF a = "create" THEN "insert" ELSE "read"]]
  /\ UNCHANGED <<accounts, signed, orgs, hits, passed, waved>>
To(r, step) == at' = [at EXCEPT ![r].step = step]
Answered(r) == at' = [at EXCEPT ![r] = Idle]

(* check_rate_limit: INCR, then EXPIRE by whoever started the counter; an  *)
(* attempt is judged by the number its own INCR returned.                  *)
Over_ByOne(n) == n > MostTries + 1   \* mutant
Over(n) == n > MostTries
LetThrough(r, n) ==
  IF Over(n) THEN Answered(r) /\ UNCHANGED passed
  ELSE To(r, at[r].ask) /\ passed' = passed + 1
Count(r) ==
  /\ at[r].step = "count" /\ hits.count < MostHits
  /\ hits' = [hits EXCEPT !.count = @ + 1]
  /\ IF hits'.count = 1 THEN To(r, "expire") /\ UNCHANGED passed ELSE LetThrough(r, hits'.count)
  /\ UNCHANGED <<accounts, signed, orgs, waved>>
Expire(r) ==
  /\ at[r].step = "expire" /\ hits' = [hits EXCEPT !.expires = TRUE]
  /\ LetThrough(r, 1) /\ UNCHANGED <<accounts, signed, orgs, waved>>
(* Redis does not answer: refused, but for signing out, which nobody then  *)
(* counts.                                                                 *)
LimiterRaises(r) ==
  /\ at[r].step \in {"count", "expire"}
  /\ \/ /\ at[r].ask = "logout" /\ waved < MostWaved /\ To(r, "logout")
        /\ passed' = passed + 1 /\ waved' = waved + 1
     \/ at[r].ask # "logout" /\ Answered(r) /\ UNCHANGED <<passed, waved>>
  /\ UNCHANGED <<accounts, signed, orgs, hits>>
WindowEnds ==
  /\ hits.expires /\ hits' = [count |-> 0, expires |-> FALSE] /\ passed' = 0 /\ waved' = 0
  /\ UNCHANGED <<accounts, signed, orgs, at>>

-----------------------------------------------------------------------------
Account == <<accounts, signed, orgs, hits, passed, waved>>
(* create_user, refused when the address has an account.                   *)
CreateUser(r) ==
  /\ at[r].step = "signup"
  /\ IF at[r].who \in accounts THEN Answered(r) /\ UNCHANGED accounts
     ELSE To(r, "insert") /\ accounts' = accounts \cup {at[r].who}
  /\ UNCHANGED <<signed, orgs, hits, passed, waved>>
InsertOrg(r) ==
  /\ at[r].step = "insert" /\ Len(orgs) < MostOrgs
  /\ orgs' = Append(orgs, [who |-> at[r].who, linked |-> FALSE, held |-> 0, paid |-> 0])
  /\ at' = [at EXCEPT ![r].org = Len(orgs'), ![r].step = IF at[r].ask = "signup" THEN "fund" ELSE "link"]
  /\ UNCHANGED <<accounts, signed, hits, passed, waved>>
(* The free grant may fail: logged, and the sign-up goes on.               *)
Fund(r) ==
  /\ at[r].step = "fund" /\ To(r, "link")
  /\ \/ orgs[at[r].org].held + TierGrant <= MostPaid
        /\ orgs' = [orgs EXCEPT ![at[r].org].held = TierGrant, ![at[r].org].paid = @ + TierGrant]
     \/ UNCHANGED orgs
  /\ UNCHANGED <<accounts, signed, hits, passed, waved>>
LinkOwner(r) ==
  /\ at[r].step = "link" /\ Answered(r)
  /\ orgs' = [orgs EXCEPT ![at[r].org].linked = TRUE]
  /\ UNCHANGED <<accounts, signed, hits, passed, waved>>
(* The statement raises, or the process dies: what was written stays.      *)
Dies(r) == at[r] # Idle /\ Answered(r) /\ UNCHANGED Account

Login(r) ==
  /\ at[r].step = "login" /\ Answered(r)
  /\ signed' = IF at[r].who \in accounts THEN Append(Without(at[r].who), at[r].who) ELSE signed
  /\ UNCHANGED <<accounts, orgs, hits, passed, waved>>
(* The password is set first; failing to end the sessions is logged.       *)
Reset(r) ==
  /\ at[r].step = "reset" /\ Answered(r)
  /\ signed' \in IF at[r].who \in accounts THEN {Without(Evicted(at[r].who)), signed} ELSE {signed}
  /\ UNCHANGED <<accounts, orgs, hits, passed, waved>>
Logout(r) ==
  /\ at[r].step = "logout" /\ Answered(r)
  /\ signed' \in IF at[r].who \in ToSet(signed) THEN {Without(Evicted(at[r].who)), signed} ELSE {signed}
  /\ UNCHANGED <<accounts, orgs, hits, passed, waved>>

(* The platform owner's grant: the balance is read, then written.          *)
ReadBalance(r) ==
  /\ at[r].step = "read" /\ orgs[at[r].org].held < MostPaid
  /\ at' = [at EXCEPT ![r].was = orgs[at[r].org].held, ![r].step = "write"]
  /\ UNCHANGED Account
WriteBalance(r) ==
  /\ at[r].step = "write" /\ orgs[at[r].org].paid < MostPaid /\ Answered(r)
  /\ orgs' = [orgs EXCEPT ![at[r].org].held = at[r].was + Comped, ![at[r].org].paid = @ + Comped]
  /\ UNCHANGED <<accounts, signed, hits, passed, waved>>
(* deduct_credits, by a founder whose membership leads to the organization. *)
Spend(p) ==
  \E o \in Home(p) :
    /\ p \in ToSet(signed) /\ orgs[o].held > 0 /\ orgs[o].paid > 0
    /\ orgs' = [orgs EXCEPT ![o].held = @ - 1, ![o].paid = @ - 1]
    /\ UNCHANGED <<accounts, signed, at, hits, passed, waved>>

Next ==
  \/ \E r \in Processes :
       \/ \E p \in People \cup {Platform}, a \in Asks, o \in 0..MostOrgs : Arrive(r, p, a, o)
       \/ Count(r) \/ Expire(r) \/ LimiterRaises(r) \/ CreateUser(r) \/ InsertOrg(r) \/ Fund(r)
       \/ LinkOwner(r) \/ Dies(r) \/ Login(r) \/ Reset(r) \/ Logout(r) \/ ReadBalance(r) \/ WriteBalance(r)
  \/ WindowEnds \/ \E p \in People : Spend(p)

Spec == Init /\ [][Next]_accountsVars

-----------------------------------------------------------------------------
(* However attempts from several processes interleave, no more of them are *)
(* let through in one window than the limit, and the attempts to sign out  *)
(* that are let through uncounted while Redis does not answer.             *)
LimitHolds == passed <= MostTries + waved

(* Nobody is signed out by what somebody else asked for, or but by signing *)
(* out and resetting the password.                                         *)
OnlyOwnSessionEnds ==
  [][\A p \in ToSet(signed) : p \notin ToSet(signed') =>
       \E r \in Processes : at[r].who = p /\ at[r].step \in {"reset", "logout"}]_accountsVars
=============================================================================
