------------------------------ MODULE PageCapture ------------------------------
(***************************************************************************)
(* Captures queue for one of the few browsers the instance can afford, run *)
(* under a deadline and return their slot whatever happens.  What is read  *)
(* of a page and what is made of it is PageVerdicts.                       *)
(***************************************************************************)
EXTENDS Naturals, FiniteSets

CONSTANTS
  Requests,   \* captures asked for
  Slots       \* WEBSITE_CAPTURE_CONCURRENCY, at least 1

VARIABLES
  free,       \* the semaphore's value
  pc          \* where a capture is

captureVars == <<free, pc>>

Holding == {r \in Requests : pc[r] \in {"launching", "desktop", "mobile", "cancelled", "wedged"}}

-----------------------------------------------------------------------------
Init == free = Slots /\ pc = [r \in Requests |-> "idle"]

Move(r, from, to) == pc[r] = from /\ pc' = [pc EXCEPT ![r] = to]

Ask(r) == Move(r, "idle", "queued") /\ UNCHANGED free
Acquire(r) == free > 0 /\ Move(r, "queued", "launching") /\ free' = free - 1
(* A capture that waited too long gives up; it never had a slot.           *)
QueueWaitEnds_Releases(r) ==   \* mutant: the wait is inside the try
  Move(r, "queued", "failed") /\ free' = free + 1
QueueWaitEnds(r) == Move(r, "queued", "failed") /\ UNCHANGED free

Launched(r) == Move(r, "launching", "desktop") /\ UNCHANGED free
DesktopRead(r) == Move(r, "desktop", "mobile") /\ UNCHANGED free
(* The browser fails, a required step times out, or the address the page   *)
(* ended at may not be read: the slot is returned on the way out.          *)
Raise(r) ==
  /\ pc[r] \in {"launching", "desktop", "mobile"}
  /\ pc' = [pc EXCEPT ![r] = "failed"] /\ free' = free + 1
(* The deadline cancels the capture and waits for that to take: it does,   *)
(* and the slot is returned, or it never does.                             *)
Overrun(r) ==
  /\ pc[r] \in {"launching", "desktop", "mobile"}
  /\ pc' = [pc EXCEPT ![r] = "cancelled"] /\ UNCHANGED free
Cancelled(r) == Move(r, "cancelled", "failed") /\ free' = free + 1
Wedge(r) == Move(r, "cancelled", "wedged") /\ UNCHANGED free
(* Both viewports were read.                                               *)
Finish(r) == Move(r, "mobile", "read") /\ free' = free + 1

Proceed(r) == \/ Acquire(r) \/ QueueWaitEnds(r) \/ Launched(r) \/ DesktopRead(r) \/ Raise(r)
              \/ Overrun(r) \/ Cancelled(r) \/ Wedge(r) \/ Finish(r)
Next == \E r \in Requests : Ask(r) \/ Proceed(r)

Spec == Init /\ [][Next]_captureVars

-----------------------------------------------------------------------------
(* Every slot is free or held by a capture that has not ended; a capture   *)
(* that gave up in the queue neither takes one nor gives one back.         *)
SlotsReturned == free + Cardinality(Holding) = Slots
=============================================================================
