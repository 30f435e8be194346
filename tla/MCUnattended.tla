----------------------------- MODULE MCUnattended -----------------------------
(***************************************************************************)
(* What nobody waits on and a restart can strand, side by side: the        *)
(* write-ups of a simulation, the uploads, the captures.  They share       *)
(* nothing but the event loop, so a behaviour is one of the three alone.   *)
(***************************************************************************)
EXTENDS ReportWriting

CONSTANTS Uploads, Types, Limit, Requests, Slots

VARIABLES part, documents, stored, used, tasks, texts, torn, free, at
uploads  == <<documents, stored, used, tasks, texts, torn>>
captures == <<free, at>>
all      == <<part, vars, uploads, captures>>

Ingestion == INSTANCE DocumentIngestion WITH rows <- documents
Capture   == INSTANCE PageCapture WITH pc <- at

(* Steps of one part, the others standing still.                           *)
Reporting(A) == part = "report" /\ A /\ UNCHANGED <<part, uploads, captures>>
Uploading(A) == part = "upload" /\ A /\ UNCHANGED <<part, vars, captures>>
Capturing(A) == part = "capture" /\ A /\ UNCHANGED <<part, vars, uploads>>

(* Processes are alike, so one writer's may be fixed; where no writer      *)
(* moves, all of them.                                                     *)
SomeProc == CHOOSE p \in Procs : TRUE
Fixed    == IF part = "report" THEN {CHOOSE w \in Writers : TRUE} ELSE Writers

MCInit ==
  /\ part \in {"report", "upload", "capture"} /\ Ingestion!Init /\ Capture!Init
  /\ Init /\ Fixed \subseteq {w \in Writers : proc[w] = SomeProc}
MCNext == Reporting(Next) \/ Uploading(Ingestion!Next) \/ Capturing(Capture!Next)

(* The fairness of each part, as its module states it.                     *)
MCFairness ==
  /\ \A w \in Writers : /\ WF_all(Reporting(Start(w))) /\ WF_all(Reporting(Handle(w)))
                        /\ WF_all(Reporting(Reaper(w)))
  /\ \A d \in Uploads : WF_all(Uploading(Ingestion!Reap(d)))
  /\ \A r \in Requests : WF_all(Capturing(Capture!Proceed(r)))
MCSpec == MCInit /\ [][MCNext]_all /\ MCFairness

(* What the other parts promise, under the name their modules state it by. *)
CompleteHasText == Ingestion!CompleteHasText
UploadEnds == Ingestion!UploadEnds
SlotsReturned == Capture!SlotsReturned
=============================================================================
