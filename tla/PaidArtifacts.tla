---------------------------- MODULE PaidArtifacts ----------------------------
(***************************************************************************)
(* What one organisation buys: page revisions, built documents, trademark  *)
(* searches of both tiers and capital shortlists, all drawing on one       *)
(* balance, run by the same event loops and closed by the same sweep.      *)
(* Each artifact is of one kind, which says what its row and its worker    *)
(* are; PaidRows has what they share.  (Website checks are WebsiteCheck.)  *)
(***************************************************************************)
EXTENDS PaidRows, FiniteSets

CONSTANTS
  Orders,    \* the assignments of a kind to each job that are explored
  DailyCap   \* QUICK_RUNS_PER_DAY
Kinds == {"revision", "built", "search", "quick", "shortlist"}
ASSUME OrdersAssumption == Orders \subseteq [Jobs -> Kinds] /\ DailyCap \in Nat \ {0}

VARIABLES
  kind,    \* what each job is
  spent,   \* revisions, builds and searches whose model calls began
  empty    \* shortlists on which no firm matched
vars == <<paidVars, kind, spent, empty>>

Of(k) == {j \in Jobs : kind[j] = k}

(* Revisions guard every write and may outlast the sweep's deadline; so    *)
(* may searches, whose rows promise less.                                  *)
R == INSTANCE PageRevision WITH Overrun <- TRUE
B == INSTANCE BuiltArtifact
C == INSTANCE Clearance WITH Overrun <- TRUE, quick <- Of("quick")
K == INSTANCE CapitalShortlist

Init == PaidInit /\ kind \in Orders /\ spent = {} /\ empty = {}

-----------------------------------------------------------------------------
(* One job's own steps: its request, its worker, its age.                  *)
Create(j) ==
  \/ kind[j] = "revision"           /\ R!Create(j) /\ UNCHANGED empty
  \/ kind[j] = "built"              /\ B!Create(j) /\ UNCHANGED empty
  \/ kind[j] \in {"search","quick"} /\ C!Create(j) /\ UNCHANGED empty
  \/ kind[j] = "shortlist"          /\ K!Create(j) /\ UNCHANGED spent
Worker(j) ==
  \/ kind[j] = "revision"           /\ R!Worker(j) /\ UNCHANGED empty
  \/ kind[j] = "built"              /\ B!Worker(j) /\ UNCHANGED empty
  \/ kind[j] \in {"search","quick"} /\ C!Worker(j) /\ UNCHANGED empty
  \/ kind[j] = "shortlist"          /\ K!Worker(j) /\ UNCHANGED spent
Late(j) ==
  /\ \/ kind[j] = "revision"           /\ R!Age(j)
     \/ kind[j] \in {"search","quick"} /\ C!Age(j)
     \/ kind[j] \in {"built","shortlist"} /\ Age(j)
  /\ UNCHANGED <<spent, empty>>

(* The sweep goes through the tables by one rule each.                     *)
Read(p) ==
  \/ ReaperRead(p, Of("revision"), R!ReapedStates)
  \/ ReaperRead(p, Of("built"), B!ReapedStates)
  \/ ReaperRead(p, Of("search") \cup Of("quick"), C!ReapedStates)
  \/ ReaperRead(p, Of("shortlist"), K!ReapedStates)
RefundOf(k) ==
  CASE k = "revision" -> R!RefundStates [] k = "built" -> B!RefundStates
    [] k = "shortlist" -> K!RefundStates [] OTHER -> C!RefundStates
Close(p, j) == ReaperClose(p, j, RefundOf(kind[j]))
Repay(p, j) ==
  IF kind[j] \in {"search", "quick"} THEN C!Repay(p, j) ELSE ReaperRefund(p, j)
Sweep(p) ==
  /\ \/ Read(p)
     \/ \E j \in Jobs : Close(p, j) \/ Repay(p, j) \/ ReaperCloseRaises(p, j)
  /\ UNCHANGED <<spent, empty>>

Next ==
  /\ \/ \E j \in Jobs : Create(j) \/ Worker(j) \/ Late(j)
     \/ \E p \in Procs : Sweep(p) \/ (Restart(p) /\ UNCHANGED <<spent, empty>>)
  /\ UNCHANGED kind

(* Tasks run on and time passes, sweeps recur and repay what they owe, and *)
(* the database does not refuse the reaper's UPDATE for ever.              *)
GoesOn(j)  == Worker(j) \/ (Create(j) /\ pc[j] \in Sync) \/ Late(j)
Recurs(p)  == (Read(p) \/ \E j \in Jobs : Repay(p, j)) /\ UNCHANGED <<spent, empty>>
Reaches(p) == (\E j \in Jobs : Close(p, j)) /\ UNCHANGED <<spent, empty>>
Fairness ==
  /\ \A j \in Jobs : WF_vars(GoesOn(j) /\ UNCHANGED kind)
  /\ \A p \in Procs : WF_vars(Recurs(p) /\ UNCHANGED kind) /\ SF_vars(Reaches(p) /\ UNCHANGED kind)

Spec == Init /\ [][Next]_vars
FairSpec == Spec /\ Fairness

-----------------------------------------------------------------------------
(* A price goes back at most once: for an artifact that failed before a    *)
(* model was called for it, or for a shortlist with no firm on it, which   *)
(* the sweep that closes it after a death does not repay again.            *)
RefundedUnspent ==
  \A j \in Jobs : refunds[j] > 0 =>
    /\ refunds[j] = 1 /\ j \in charged \ spent
    /\ IF kind[j] = "shortlist" THEN j \in empty ELSE status[j] = "failed"

(* Seen by the founder, revisions (whose `generating` is written without a *)
(* guard) and built documents (written by id, in time) keep the contract   *)
(* of every artifact.                                                      *)
Promised(j) == kind[j] \in {"revision", "built"}
StateOf(j) ==
  IF ~Promised(j)                THEN "unpaid"
  ELSE IF status[j] = "complete" THEN "delivered"
  ELSE IF status[j] = "failed"   THEN "closed"
  ELSE IF j \in charged          THEN "open"
  ELSE "unpaid"
Contract == INSTANCE Settlement WITH
  state   <- [j \in Jobs |-> StateOf(j)],
  spent   <- {j \in spent : Promised(j)},
  refunds <- [j \in Jobs |-> IF Promised(j) THEN refunds[j] ELSE 0]
Settles == Contract!Spec

(* Served by one process, artifacts of different kinds ordered at once are *)
(* each paid in full from the one balance, and the free searches of a day  *)
(* stay within their cap.                                                  *)
OneLoop == \A i, j \in Jobs : proc[i] = proc[j]
PaidInFull ==
  OneLoop => \A j \in Jobs : status[j] # "none" /\ kind[j] # "quick" => taken[j] = Price
QuickCapped == OneLoop => Cardinality(C!QuickRows) <= DailyCap

(* What the purse is owed and owes: the two, and no price given back twice *)
(* or for work a model was called for.                                     *)
PurseHolds == PaidInFull /\ QuickCapped /\ RefundedUnspent

(* No artifact is left spinning: the rule of each table watches the        *)
(* statuses its workers write.                                             *)
RowCloses ==
  \A j \in Jobs :
    status[j] \notin {"none", "complete", "failed"} ~> status[j] \in {"complete", "failed"}
=============================================================================
