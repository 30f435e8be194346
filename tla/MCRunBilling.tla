---------------------------- MODULE MCRunBilling ----------------------------
(* Values for RunBilling: the default depth and a dearer one.              *)
EXTENDS RunBilling

CONSTANTS standard, deep
TwoDepths == {standard, deep}
TwoPrices == [d \in TwoDepths |-> IF d = deep THEN 3 ELSE 2]
OneDepth  == {standard}
OnePrice  == [d \in OneDepth |-> 2]

(* Processes are alike: which of them serves one of the requests is no     *)
(* matter, only who else it serves.                                        *)
Placed == proc[CHOOSE r \in Requests : TRUE] = CHOOSE p \in Procs : TRUE
=============================================================================
