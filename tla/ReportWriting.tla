---------------------------- MODULE ReportWriting ----------------------------
(***************************************************************************)
(* The write-ups of one simulation: POST /reports/generate and the run     *)
(* itself start writers, generate_report inserts a row and writes sections,*)
(* on_failure and the reaper close what stopped, the founder may delete.   *)
(*                                                                         *)
(* A row carries the name of the writer that inserted it.  A step is what  *)
(* runs between two awaits, split where two processes can interleave       *)
(* statements to some effect; in one process such steps do not interleave. *)
(***************************************************************************)
EXTENDS Naturals, SequencesExt

CONSTANTS
  Clicks,      \* presses of "Write it up again", each one POST
  Engines,     \* writers awaited by run_simulation: no gate and no handler
  Procs,       \* API processes alive at the same time
  Sections,    \* the outline's sections
  Indexed,     \* idx_reports_one_in_flight_per_simulation exists
  Blips,       \* the read-back of a written report may raise
  MaxDeaths,   \* bound: process deaths explored
  MaxDeletes,  \* bound: deletions explored
  NoRow
Writers == Clicks \cup Engines
ASSUME ReportAssumption ==
  /\ Clicks \cap Engines = {} /\ NoRow \notin Writers /\ Procs # {}
  /\ Indexed \in BOOLEAN /\ Blips \in BOOLEAN
  /\ MaxDeaths \in Nat /\ MaxDeletes \in Nat

VARIABLES
  rows,     \* the ids in reports, oldest first (created_at)
  status,   \* [row -> reports.status], "none" when there is no such row
  section,  \* [row -> [Sections -> report_sections.status]]
  closing,  \* [row -> status of the conclusion's section row]
  pc,       \* where each writer stands
  working,  \* [writer -> its section coroutines still running]
  proc,     \* the process that runs it
  seen,     \* the newest row its failure handler read
  old,      \* rows past the reaper's 40 minutes
  phantoms, \* history: rows a failure handler inserted
  deaths, deletes
table  == <<rows, status, section, closing>>
bounds == <<deaths, deletes>>
vars   == <<table, pc, working, proc, seen, old, phantoms, bounds>>

InFlight     == {"queued", "generating"}
Terminal     == {"complete", "failed"}
Sync         == {"failing", "raising", "marking"}
PieceStates  == {"none", "pending", "complete", "failed"}
PCs          == Sync \cup {"idle", "refused", "spawned", "outline", "sections",
                           "conclusion", "summary", "done", "unheard", "dead"}
Exists(w) == w \in ToSet(rows)

Init ==
  /\ rows = <<>>
  /\ status = [w \in Writers |-> "none"]
  /\ section = [w \in Writers |-> [s \in Sections |-> "none"]]
  /\ closing = [w \in Writers |-> "none"]
  /\ pc = [w \in Writers |-> "idle"]
  /\ working = [w \in Writers |-> {}]
  /\ proc \in [Writers -> Procs]
  /\ seen = [w \in Writers |-> NoRow]
  /\ old = {} /\ phantoms = {} /\ deaths = 0 /\ deletes = 0

-----------------------------------------------------------------------------
LoopFree(w) == \A v \in Writers \ {w} : proc[v] = proc[w] => pc[v] \notin Sync
At(w, here) == pc[w] = here /\ LoopFree(w)
Goto(w, to) == pc' = [pc EXCEPT ![w] = to]

Busy == \E w \in Writers : status[w] \in InFlight
(* The partial unique index: an insert beside a row in flight is refused.  *)
Duplicate == Indexed /\ Busy

(* POST /reports/generate: read for a row in flight, then spawn.           *)
Generate(w) ==
  /\ w \in Clicks /\ At(w, "idle")
  /\ Goto(w, IF Busy THEN "refused" ELSE "spawned")
  /\ UNCHANGED <<table, working, proc, seen, old, phantoms, bounds>>

(* run_simulation awaits run_generate_report and reads no gate.            *)
EngineReport(w) ==
  /\ w \in Engines /\ At(w, "idle")
  /\ Goto(w, "spawned")
  /\ UNCHANGED <<table, working, proc, seen, old, phantoms, bounds>>

(* ReACTConfig, the simulation and the counts: any of them may raise.      *)
LoadRaises(w) ==
  /\ At(w, "spawned")
  /\ Goto(w, "raising")
  /\ UNCHANGED <<table, working, proc, seen, old, phantoms, bounds>>

InsertRow(w, state) ==
  /\ rows' = Append(rows, w)
  /\ status' = [status EXCEPT ![w] = state]

Open(w) ==
  /\ At(w, "spawned") /\ ~Duplicate
  /\ InsertRow(w, "generating")
  /\ Goto(w, "outline")
  /\ UNCHANGED <<section, closing, working, proc, seen, old, phantoms, bounds>>

(* The loser of the index: generate_report returns {} and its caller reads *)
(* result["id"], which raises KeyError.                                    *)
Lose(w) ==
  /\ At(w, "spawned") /\ Duplicate
  /\ Goto(w, "raising")
  /\ UNCHANGED <<table, working, proc, seen, old, phantoms, bounds>>

(* The outline comes back: skeleton rows, then every section at once.  A   *)
(* deleted report refuses the skeletons.                                   *)
Outline(w) ==
  /\ At(w, "outline") /\ Exists(w)
  /\ section' = [section EXCEPT ![w] = [s \in Sections |-> "pending"]]
  /\ working' = [working EXCEPT ![w] = Sections]
  /\ Goto(w, "sections")
  /\ UNCHANGED <<rows, status, closing, proc, seen, old, phantoms, bounds>>

(* One section's loop ends; its update goes by the id of the report, and   *)
(* finds nothing once that is deleted (a row a handler inserts is another).*)
Section(w, s) ==
  /\ s \in working[w] /\ LoopFree(w)
  /\ working' = [working EXCEPT ![w] = @ \ {s}]
  /\ section' = IF section[w][s] = "none" THEN section
                ELSE [section EXCEPT ![w][s] = "complete"]
  /\ UNCHANGED <<rows, status, closing, pc, proc, seen, old, phantoms, bounds>>

(* gather raises the first failure; the other sections go on running.      *)
SectionRaises(w, s) ==
  /\ s \in working[w] /\ LoopFree(w)
  /\ working' = [working EXCEPT ![w] = @ \ {s}]
  /\ pc' = IF pc[w] = "sections" THEN [pc EXCEPT ![w] = "failing"] ELSE pc
  /\ UNCHANGED <<table, proc, seen, old, phantoms, bounds>>

(* Every section is in: the conclusion's row.                              *)
Assemble(w) ==
  /\ At(w, "sections") /\ working[w] = {} /\ Exists(w)
  /\ closing' = [closing EXCEPT ![w] = "pending"]
  /\ Goto(w, "conclusion")
  /\ UNCHANGED <<rows, status, section, working, proc, seen, old, phantoms, bounds>>

(* The conclusion comes back, or its 300 seconds pass and its row closes.  *)
Conclude_LeftPending(w, came) ==   \* mutant: a missing conclusion stays pending
  /\ At(w, "conclusion")
  /\ closing' = IF Exists(w) /\ came THEN [closing EXCEPT ![w] = "complete"] ELSE closing
  /\ Goto(w, "summary")
  /\ UNCHANGED <<rows, status, section, working, proc, seen, old, phantoms, bounds>>
Conclude(w, came) ==
  /\ At(w, "conclusion")
  /\ closing' = IF ~Exists(w) THEN closing
                ELSE [closing EXCEPT ![w] = IF came THEN "complete" ELSE "failed"]
  /\ Goto(w, "summary")
  /\ UNCHANGED <<rows, status, section, working, proc, seen, old, phantoms, bounds>>

(* The summary comes back or does not; the document is written by id and   *)
(* read back.                                                              *)
Finish(w) ==
  /\ At(w, "summary") /\ Exists(w)
  /\ status' = [status EXCEPT ![w] = "complete"]
  /\ \/ Goto(w, "done")
     \/ Blips /\ Goto(w, "failing")
  /\ UNCHANGED <<rows, section, closing, working, proc, seen, old, phantoms, bounds>>

(* A model call or a statement of the database raised: there is no phase   *)
(* without one, and a row deleted under the writer is one more reason.     *)
WriteRaises(w) ==
  /\ \/ At(w, "outline")
     \/ At(w, "sections") /\ working[w] = {}
     \/ At(w, "conclusion")
     \/ At(w, "summary")
  /\ Goto(w, "failing")
  /\ UNCHANGED <<table, working, proc, seen, old, phantoms, bounds>>

(* generate_report's except: failed, by id, and an exception goes on: the  *)
(* one it caught, or that of an update that never reached the table.       *)
Fail(w) ==
  /\ At(w, "failing")
  /\ \/ status' = IF Exists(w) THEN [status EXCEPT ![w] = "failed"] ELSE status
     \/ UNCHANGED status
  /\ Goto(w, "raising")
  /\ UNCHANGED <<rows, section, closing, working, proc, seen, old, phantoms, bounds>>

-----------------------------------------------------------------------------
(* run_simulation catches what its report raises.                          *)
EngineCatches(w) ==
  /\ w \in Engines /\ At(w, "raising")
  /\ Goto(w, "done")
  /\ UNCHANGED <<table, working, proc, seen, old, phantoms, bounds>>

(* _mark_report_failed: the newest row of the simulation, whoever wrote it.*)
(* A row in a terminal state is left alone.                                *)
MarkRead_AnyState(w) ==   \* mutant: no look at _REPORT_TERMINAL
  /\ w \in Clicks /\ At(w, "raising")
  /\ seen' = [seen EXCEPT ![w] = IF rows = <<>> THEN NoRow ELSE Last(rows)]
  /\ Goto(w, "marking")
  /\ UNCHANGED <<table, working, proc, old, phantoms, bounds>>
MarkRead(w) ==
  /\ w \in Clicks /\ At(w, "raising")
  /\ seen' = [seen EXCEPT ![w] = IF rows = <<>> THEN NoRow ELSE Last(rows)]
  /\ Goto(w, IF rows # <<>> /\ status[Last(rows)] \in Terminal THEN "done" ELSE "marking")
  /\ UNCHANGED <<table, working, proc, old, phantoms, bounds>>

(* The row it read was open: failed, by id.                                *)
MarkOpen(w) ==
  /\ At(w, "marking") /\ seen[w] # NoRow
  /\ status' = IF Exists(seen[w]) THEN [status EXCEPT ![seen[w]] = "failed"] ELSE status
  /\ Goto(w, "done")
  /\ UNCHANGED <<rows, section, closing, working, proc, seen, old, phantoms, bounds>>

(* There was no row: one that carries the sentence.                        *)
MarkInsert_Skipped(w) ==   \* mutant: the handler can only update
  /\ At(w, "marking") /\ seen[w] = NoRow
  /\ Goto(w, "done")
  /\ UNCHANGED <<table, working, proc, seen, old, phantoms, bounds>>
MarkInsert(w) ==
  /\ At(w, "marking") /\ seen[w] = NoRow
  /\ InsertRow(w, "failed")
  /\ phantoms' = phantoms \cup {w}
  /\ Goto(w, "done")
  /\ UNCHANGED <<section, closing, working, proc, seen, old, bounds>>

(* Its own read or write raises: that is logged, and no row says so.       *)
HandlerRaises(w) ==
  /\ w \in Clicks /\ (At(w, "raising") \/ At(w, "marking"))
  /\ Goto(w, "unheard")
  /\ UNCHANGED <<table, working, proc, seen, old, phantoms, bounds>>

-----------------------------------------------------------------------------
(* DELETE /reports/{id}: the sections, then the row.                       *)
Delete(w) ==
  /\ Exists(w) /\ deletes < MaxDeletes
  /\ \E i \in DOMAIN rows : rows[i] = w /\ rows' = RemoveAt(rows, i)
  /\ status' = [status EXCEPT ![w] = "none"]
  /\ section' = [section EXCEPT ![w] = [s \in Sections |-> "none"]]
  /\ closing' = [closing EXCEPT ![w] = "none"]
  /\ old' = old \ {w}
  /\ deletes' = deletes + 1
  /\ UNCHANGED <<pc, working, proc, seen, phantoms, deaths>>

(* Forty minutes go by, whether or not its writer is still at work.        *)
Age(w) ==
  /\ status[w] \in InFlight /\ w \notin old
  /\ old' = old \cup {w}
  /\ UNCHANGED <<table, pc, working, proc, seen, phantoms, bounds>>

(* sweep_once on reports.  Its close is conditional on the state it read,  *)
(* and no row returns to "generating", so read and close are one step.     *)
ReapedStates_None == {}   \* mutant: the table has no rule
ReapedStates == {"queued", "generating"}
Reap(w) ==
  /\ w \in old /\ status[w] \in ReapedStates
  /\ status' = [status EXCEPT ![w] = "failed"]
  /\ UNCHANGED <<rows, section, closing, pc, working, proc, seen, old, phantoms, bounds>>

(* A process dies: its tasks with it; a new one serves what comes next.    *)
Restart(p) ==
  /\ deaths < MaxDeaths
  /\ deaths' = deaths + 1
  /\ pc' = [w \in Writers |->
       IF proc[w] = p /\ pc[w] \notin {"idle", "refused", "done", "unheard"} THEN "dead" ELSE pc[w]]
  /\ working' = [w \in Writers |-> IF proc[w] = p THEN {} ELSE working[w]]
  /\ UNCHANGED <<table, proc, seen, old, phantoms, deletes>>

Start(w)  == LoadRaises(w) \/ Open(w) \/ Lose(w)
Handle(w) ==
  \/ Fail(w) \/ EngineCatches(w)
  \/ MarkRead(w) \/ MarkOpen(w) \/ MarkInsert(w) \/ HandlerRaises(w)
Model(w)  ==
  \/ Outline(w) \/ Assemble(w) \/ Finish(w) \/ WriteRaises(w)
  \/ \E came \in BOOLEAN : Conclude(w, came)
  \/ \E s \in Sections : Section(w, s) \/ SectionRaises(w, s)
Reaper(w) == Age(w) \/ Reap(w)

Next ==
  \/ \E w \in Writers : Generate(w) \/ EngineReport(w) \/ Delete(w)
  \/ \E w \in Writers : Start(w) \/ Model(w) \/ Handle(w) \/ Reaper(w)
  \/ \E p \in Procs : Restart(p)
Spec == Init /\ [][Next]_vars

(* A spawned task runs until its first await, a handler runs to its end,   *)
(* minutes pass and the sweep comes round.  Nothing obliges a model call   *)
(* to return: the outline and the sections are awaited without a timeout.  *)
Fairness ==
  \A w \in Writers : WF_vars(Start(w)) /\ WF_vars(Handle(w)) /\ WF_vars(Reaper(w))
FairSpec == Spec /\ Fairness

-----------------------------------------------------------------------------
(* A run never has two write-ups in flight: the index refuses the second   *)
(* insert whatever the gate of POST /reports/generate missed               *)
(* (report_agent.py:1404-1410).                                            *)
OneInFlight == \A v, w \in Writers : status[v] \in InFlight /\ status[w] \in InFlight => v = w

(* Only its own writer or the reaper fails a write-up in flight: the       *)
(* double click that loses the race does not kill the report it raced      *)
(* (report_agent.py:1412-1414).                                            *)
OnlyItsWriterFails ==
  [][\A w \in Writers :
       status[w] = "generating" /\ status'[w] = "failed" =>
         w \in old \/ pc[w] \in {"failing", "marking"}]_vars

(* A finished write-up stays finished until it is deleted: neither another *)
(* writer, nor the failure handler of one, nor the reaper takes it back.   *)
(* Its own writer does when it cannot read the row back, and with two      *)
(* processes a handler can read the row before it is finished.             *)
OneLoop == \A v, w \in Writers : proc[v] = proc[w]
CompleteStays ==
  [][OneLoop => \A w \in Writers :
       status[w] = "complete" => status'[w] \in {"complete", "none"} \/ pc[w] = "failing"]_vars

(* A finished write-up has every section of its outline and no row left    *)
(* pending: progress is counted from those rows, and one left pending is   *)
(* how a dead report once read as done.                                    *)
NothingPending ==
  \A w \in Writers : status[w] = "complete" =>
    /\ \A s \in Sections : section[w][s] = "complete"
    /\ closing[w] \in {"complete", "failed"}

(* The row a failure handler inserts never hides a write-up's sections:    *)
(* GET /reports/by-simulation returns the newest row only.  (With two      *)
(* processes a row can be opened between the handler's read and its insert.)*)
NothingHidden ==
  OneLoop => \A i, j \in DOMAIN rows :
    i < j /\ rows[j] \in phantoms => \A s \in Sections : section[rows[i]][s] = "none"

(* A write-up in flight is closed in the end, though a model call hangs,   *)
(* its process dies or the founder deletes it.                             *)
InFlightCloses == \A w \in Writers : status[w] \in InFlight ~> status[w] \notin InFlight

(* A click that was told "started" is answered by a closed row in the end: *)
(* the client that polls is not left on 404 (api/reports.py:49-57), unless *)
(* the task dies with its process, the founder deletes a row, or the       *)
(* failure handler's own statement raises and is only logged.              *)
StartedIsAnswered ==
  \A w \in Clicks :
    pc[w] = "spawned" ~>
      (\E v \in Writers : status[v] \in Terminal) \/ pc[w] \in {"dead", "unheard"} \/ deletes > 0

(* The table as a reader meets it: one write-up in flight, finished ones   *)
(* whole, and none behind a row that only reports a failure.               *)
WriteUpsHold == OneInFlight /\ NothingPending /\ NothingHidden

(* And in the end it holds an answer: nothing in flight, nobody on 404.    *)
WriteUpsEnd == InFlightCloses /\ StartedIsAnswered
=============================================================================
