---------------------------- MODULE BuiltArtifact ----------------------------
(***************************************************************************)
(* answer_packs, messaging_docs and outbound_sequences: three tables with  *)
(* one worker shape.  The row is written `building` in the worker's first  *)
(* breath, one awaited build follows, and its outcome is written by row    *)
(* id alone; only on_failure guards its write.                             *)
(***************************************************************************)
EXTENDS PaidRows

VARIABLE spent   \* artifacts whose build was entered

LiveStatuses == {"queued", "building"}
ReapedStates == {"queued", "building"}
RefundStates == {"queued"}
Statuses     == LiveStatuses \cup {"none", "complete", "failed"}
PCs          == Resting \cup {"deduct", "insert", "spawned", "build", "raising"}

-----------------------------------------------------------------------------
(* A write by id that may raise, landed or not; on_failure comes next.     *)
WriteOrRaise(b, new, to) ==
  \/ Put(b, new) /\ (Goto(b, to) \/ Goto(b, "raising"))
  \/ UNCHANGED status /\ Goto(b, "raising")

Begin(b) ==
  /\ At(b, "spawned")
  /\ WriteOrRaise(b, "building", "build")
  /\ spent' = IF pc'[b] = "build" THEN spent \cup {b} ELSE spent
  /\ UNCHANGED <<purse, old, proc, sweep, deaths>>

(* The build returns, refuses (ValueError), or fails; _fail never repays.  *)
Finish(b) ==
  /\ At(b, "build")
  /\ \E outcome \in {"complete", "failed"} : WriteOrRaise(b, outcome, "done")
  /\ UNCHANGED <<purse, old, proc, sweep, deaths, spent>>

(* spawn's on_failure; if it fails too, that is only logged.               *)
MarkFailed(b) ==
  /\ At(b, "raising")
  /\ PutIf(b, LiveStatuses, "failed") \/ UNCHANGED status
  /\ Goto(b, "done")
  /\ UNCHANGED <<purse, old, proc, sweep, deaths, spent>>

-----------------------------------------------------------------------------
Create(b) == (Afford(b) \/ Deduct(b) \/ Insert(b, "queued", "spawned")) /\ UNCHANGED spent
Worker(b) == Begin(b) \/ Finish(b) \/ MarkFailed(b)
=============================================================================
