--------------------------- MODULE DocumentIngestion ---------------------------
(***************************************************************************)
(* An upload becomes a stored object, a documents row and a task that      *)
(* reads the file, stores its text beside it and classifies it.  The row   *)
(* may be deleted, relabelled or reaped while the task runs, and a restart *)
(* loses every task: nothing but the row is durable.                       *)
(***************************************************************************)
EXTENDS Naturals

CONSTANTS
  Uploads,    \* uploads asked for, each once
  Types,      \* the kinds of file explored
  Limit       \* the organization's storage, in files

VARIABLES
  rows,       \* documents: a record, or Absent
  stored,     \* objects in the bucket: <<upload, "file" or "text">>
  used,       \* organizations.storage_bytes_used, in files
  tasks,      \* the ingest task of each upload
  texts,      \* what the task holds between its two awaits
  torn        \* history: uploads a delete removed the objects of, but not the row

ingestVars == <<rows, stored, used, tasks, texts, torn>>

Files == [type : Types, holds : {"text", "nothing", "broken"}]
Absent == [status |-> "absent"]
Unread == [unread |-> TRUE]
Live(d) == rows[d].status # "absent"
Open == {"pending", "processing"}

-----------------------------------------------------------------------------
(* What a processor makes of a file: its "text", "prose" standing for text *)
(* it could not get, "none", or an exception.  up: the model, the          *)
(* transcriber or the address answers; link: the upload came with one.     *)
ReadPlain(f) ==
  IF f.type = "pdf" /\ f.holds = "broken" THEN "raise"
  ELSE IF f.holds = "nothing" THEN "none" ELSE "text"
ReadDocx(f) == IF f.holds = "text" THEN "text" ELSE "prose"
ReadDeck(f) == IF f.holds = "text" THEN "text" ELSE "raise"
ReadImage(up) == IF up THEN "text" ELSE "raise"
ReadVideo(f, up) == IF f.holds = "text" /\ up THEN "text" ELSE "prose"
ReadSheet(f) ==
  CASE f.holds = "text" -> "text" [] f.holds = "nothing" -> "prose" [] OTHER -> "raise"
(* The link is followed only when the file itself is empty.                *)
ReadArticle(f, up, link) ==
  IF f.holds # "nothing" THEN IF f.holds = "text" THEN "text" ELSE "none"
  ELSE IF link THEN IF up THEN "text" ELSE "prose"
  ELSE "none"

Extract(f, up, link) ==
  CASE f.type = "docx" -> ReadDocx(f)
    [] f.type = "presentation" -> ReadDeck(f)
    [] f.type = "image" -> ReadImage(up)
    [] f.type = "video" -> ReadVideo(f, up)
    [] f.type = "spreadsheet" -> ReadSheet(f)
    [] f.type = "news_article" -> ReadArticle(f, up, link)
    [] OTHER -> ReadPlain(f)

(* A label is proposed, and only for a text long enough to judge; a model  *)
(* that fails or names no known label proposes none.                       *)
Suggestions == {"none", "market"}
Fits == used + 1 <= Limit

-----------------------------------------------------------------------------
Init ==
  /\ rows = [d \in Uploads |-> Absent] /\ stored = {} /\ used = 0
  /\ tasks = [d \in Uploads |-> "none"] /\ texts = [d \in Uploads |-> Unread] /\ torn = {}

(* store_upload has no await after the file is read: the check, the        *)
(* object, the row and the count are one step, unless one of them raises.  *)
Upload(d, f, kind) ==
  /\ tasks[d] = "none" /\ Fits
  /\ stored' = stored \cup {<<d, "file">>}
  /\ rows' = [rows EXCEPT ![d] = [status |-> "pending", file |-> f, kind |-> kind,
                                  path |-> FALSE, read |-> "none", suggested |-> "none"]]
  /\ \E counted \in {0, 1} : used' = used + counted
  /\ tasks' = [tasks EXCEPT ![d] = "queued"] /\ UNCHANGED <<texts, torn>>
(* The brief is composed of five answers, and is the founder's own words.  *)
IdeaBrief(d) ==
  Upload(d, [type |-> "plain", holds |-> "text"], "idea_brief")
InsertFails(d) ==
  /\ tasks[d] = "none" /\ Fits
  /\ stored' = stored \cup {<<d, "file">>} /\ tasks' = [tasks EXCEPT ![d] = "ended"]
  /\ UNCHANGED <<rows, used, texts, torn>>

(* Neither this write nor the later ones ask what the row says by now; a   *)
(* deleted row takes none of them.                                         *)
Write(d, row) == rows' = IF Live(d) THEN [rows EXCEPT ![d] = row] ELSE rows
Ends(d) ==
  tasks' = [tasks EXCEPT ![d] = "ended"] /\ texts' = [texts EXCEPT ![d] = Unread]
Failing(d) == Write(d, [rows[d] EXCEPT !.status = "failed"]) /\ Ends(d)

NotFound(d) ==
  /\ tasks[d] = "queued" /\ ~Live(d)
  /\ Ends(d) /\ UNCHANGED <<rows, stored, used, torn>>
Start(d) ==
  /\ tasks[d] = "queued" /\ Live(d)
  /\ IF <<d, "file">> \in stored
     THEN Write(d, [rows[d] EXCEPT !.status = "processing"]) /\ tasks' = [tasks EXCEPT ![d] = "reading"]
          /\ texts' = [texts EXCEPT ![d] = [file |-> rows[d].file]]
     ELSE Failing(d)
  /\ UNCHANGED <<stored, used, torn>>

ReadEmpty(d, got) == got \in {"raise", "none"} /\ Failing(d) /\ UNCHANGED stored
TextLost_Swallowed(d, got) ==   \* mutant: the upload's exception is logged
  got \notin {"raise", "none"} /\ tasks' = [tasks EXCEPT ![d] = "judging"]
  /\ texts' = [texts EXCEPT ![d] = [got |-> got]] /\ UNCHANGED <<rows, stored>>
TextLost(d, got) ==
  got \notin {"raise", "none"} /\ Failing(d) /\ UNCHANGED stored
TextStored(d, got) ==
  /\ got \notin {"raise", "none"} /\ tasks' = [tasks EXCEPT ![d] = "judging"]
  /\ stored' = stored \cup {<<d, "text">>}
  /\ texts' = [texts EXCEPT ![d] = [got |-> got]] /\ UNCHANGED rows
Read(d) ==
  /\ tasks[d] = "reading" /\ UNCHANGED <<used, torn>>
  /\ \E up, link \in BOOLEAN : LET got == Extract(texts[d].file, up, link) IN
       ReadEmpty(d, got) \/ TextLost(d, got) \/ TextStored(d, got)

Conclude(d) ==
  /\ tasks[d] = "judging"
  /\ \E s \in Suggestions :
       Write(d, [rows[d] EXCEPT !.status = "complete", !.path = TRUE, !.read = texts[d].got,
                                !.suggested = s])
  /\ Ends(d) /\ UNCHANGED <<stored, used, torn>>
WriteFails(d) == tasks[d] = "judging" /\ Failing(d) /\ UNCHANGED <<stored, used, torn>>

Restart ==
  /\ \E d \in Uploads : tasks[d] \in {"queued", "reading", "judging"}
  /\ tasks' = [d \in Uploads |->
                 IF tasks[d] \in {"queued", "reading", "judging"} THEN "ended" ELSE tasks[d]]
  /\ texts' = [d \in Uploads |-> Unread] /\ UNCHANGED <<rows, stored, used, torn>>

(* Ten minutes after the upload, whatever the task is doing.               *)
Stuck_Processing(d) == rows[d].status = "processing"   \* mutant: one status
Stuck(d) == rows[d].status \in Open
Reap(d) ==
  /\ Stuck(d) /\ rows' = [rows EXCEPT ![d].status = "failed"]
  /\ UNCHANGED <<stored, used, tasks, texts, torn>>

(* An idea brief keeps its label.                                          *)
Relabel(d, kind) ==
  /\ Live(d) /\ rows[d].kind # "idea_brief"
  /\ rows' = [rows EXCEPT ![d].kind = kind]
  /\ UNCHANGED <<stored, used, tasks, texts, torn>>

Objects(d) == {<<d, "file">>} \cup (IF rows[d].path THEN {<<d, "text">>} ELSE {})
Delete(d) ==
  /\ Live(d) /\ stored' = stored \ Objects(d)
  /\ rows' = [rows EXCEPT ![d] = Absent]
  /\ used' \in {used, IF used = 0 THEN 0 ELSE used - 1}
  /\ UNCHANGED <<tasks, texts, torn>>
(* The objects are gone and the row's own delete raised.                   *)
DeleteHalf(d) ==
  /\ Live(d) /\ stored' = stored \ Objects(d)
  /\ torn' = torn \cup {d}
  /\ UNCHANGED <<rows, used, tasks, texts>>

Handled(d) == NotFound(d) \/ Start(d) \/ Read(d) \/ Conclude(d) \/ WriteFails(d)
Next ==
  \/ \E d \in Uploads :
       \/ \E f \in Files : Upload(d, f, "own")
       \/ IdeaBrief(d) \/ InsertFails(d) \/ Handled(d) \/ Reap(d)
       \/ \E kind \in {"own", "market"} : Relabel(d, kind)
       \/ Delete(d) \/ DeleteHalf(d)
  \/ Restart

(* Sweeps recur: ten minutes pass for every row, and it is closed.         *)
Spec == Init /\ [][Next]_ingestVars
FairSpec == Spec /\ \A d \in Uploads : WF_ingestVars(Reap(d))

-----------------------------------------------------------------------------
(* A row said to be complete has its text in the bucket, whatever was      *)
(* deleted, reaped or lost on the way; only a delete that raised between   *)
(* the objects and the row leaves one without.                             *)
CompleteHasText ==
  \A d \in Uploads \ torn : rows[d].status = "complete" => <<d, "text">> \in stored

(* The spinner ends: every upload is read, refused or deleted, also when   *)
(* the process that was reading it is gone.                                *)
UploadEnds == \A d \in Uploads : rows[d].status \in Open ~> rows[d].status \notin Open
=============================================================================
