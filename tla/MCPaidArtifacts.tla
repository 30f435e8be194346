--------------------------- MODULE MCPaidArtifacts ---------------------------
(***************************************************************************)
(* Two jobs at a time: each kind beside others, the free searches beside   *)
(* each other for their cap, built documents and shortlists beside their   *)
(* own; and, as a part of its own, two website checks.  Jobs meet in the   *)
(* balance, the loop and the sweep only, and two are enough to contend for *)
(* each.                                                                   *)
(***************************************************************************)
EXTENDS PaidArtifacts

CONSTANTS first, second
VARIABLE part    \* artifacts of PaidArtifacts' kinds, or checks
all == <<part, vars>>

Checks == INSTANCE WebsiteCheck WITH Overrun <- TRUE

-----------------------------------------------------------------------------
Order(k, l) == [j \in {first, second} |-> IF j = first THEN k ELSE l]
Pairs ==
  {Order("revision", "built"), Order("revision", "quick"), Order("built", "built"),
   Order("built", "search"), Order("search", "shortlist"),
   Order("quick", "quick"), Order("shortlist", "shortlist")}
(* To the purse, and in the contract, a check is what a revision is.       *)
BothChecks == Order("revision", "revision")

(* Processes are alike: which of them serves the first job is no matter,   *)
(* only whether it serves the second.                                      *)
Placed == proc[first] = CHOOSE p \in Procs : TRUE

MCInit ==
  /\ part \in {"artifacts", "checks"}
  /\ PaidInit /\ Placed /\ spent = {} /\ empty = {}
  /\ IF part = "artifacts" THEN kind \in Orders ELSE kind = BothChecks

(* Steps of one part, the other standing still.                            *)
Artifact(A) == part = "artifacts" /\ A /\ UNCHANGED <<part, kind>>
Checking(A) == part = "checks" /\ A /\ UNCHANGED <<part, kind, empty>>
MCNext == Artifact(Next) \/ Checking(Checks!Next)

(* The fairness of each part, as its module states it.                     *)
MCFairness ==
  /\ \A j \in Jobs : WF_all(Artifact(GoesOn(j)) \/ Checking(Checks!GoesOn(j)))
  /\ \A p \in Procs : /\ WF_all(Artifact(Recurs(p)) \/ Checking(Checks!Recurs(p)))
                       /\ SF_all(Artifact(Reaches(p)) \/ Checking(Checks!Reaches(p)))
MCSpec == MCInit /\ [][MCNext]_all /\ MCFairness
=============================================================================
