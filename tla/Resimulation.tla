------------------------------ MODULE Resimulation ------------------------------
(***************************************************************************)
(* Before and after.  A founder configures runs and their variants, drafts *)
(* material against the objections of a finished run, re-runs the same     *)
(* people with that material in front of them, and reads what moved.  A    *)
(* run's own life is SimulationLifecycle's; here it is made, started and   *)
(* finished.  Every handler but the draft runs without an await.           *)
(***************************************************************************)
EXTENDS Naturals, Sequences, FiniteSets

CONSTANTS
  MostRuns,     \* bound: simulations ever created
  MostAssets,   \* bound: inoculation assets ever created
  MostEdits,    \* bound: edits of one asset
  PlanVariants, \* the least of MAX_RUNNABLE_VARIANTS and tier_caps(plan).max_variants
  Objections,   \* canonical objection keys of a finished run
  Stages        \* followup STAGES

VARIABLES
  runs,      \* simulations by id
  assets,    \* inoculation_assets by id
  gone,      \* ids of deleted runs and assets are not used again
  results,   \* inoculation_results
  drafting,  \* draft requests that await the model: the run each writes for
  asked      \* followup_sends: (run, stage), however the mail went

resimVars == <<runs, assets, gone, results, drafting, asked>>

NoRun == 0
Ids(f) == DOMAIN f
Without(f, S) == [i \in DOMAIN f \ S |-> f[i]]
With(f, i, x) == [j \in DOMAIN f \cup {i} |-> IF j = i THEN x ELSE f[j]]
NextRun   == gone.runs + Cardinality(Ids(runs)) + 1
NextAsset == gone.assets + Cardinality(Ids(assets)) + 1

Run(status, parent, ids, variants, people) ==
  [status |-> status, parent |-> parent, assets |-> ids, variants |-> variants,
   copies |-> 0, people |-> people, arenas |-> 0, read |-> <<>>,
   spoke |-> FALSE]   \* whether simulation_events has anything of the run

-----------------------------------------------------------------------------
(* POST /simulations: the plan's caps, and a share of adversaries only     *)
(* with an ICP profile to take them from.                                  *)
CreateRun(variants, share, icp) ==
  /\ NextRun <= MostRuns
  /\ variants <= PlanVariants /\ (share => icp)
  /\ runs' = With(runs, NextRun, Run("draft", NoRun, {}, variants, "none"))
  /\ UNCHANGED <<assets, gone, results, drafting, asked>>

(* PUT /variants: none or at least two, replacing what was there.          *)
SetVariants(r, n) ==
  /\ r \in Ids(runs) /\ runs[r].status \in {"draft", "ready"}
  /\ n # 1 /\ n <= PlanVariants
  /\ runs' = [runs EXCEPT ![r].copies = n, ![r].variants = IF n = 0 THEN 1 ELSE n]
  /\ UNCHANGED <<assets, gone, results, drafting, asked>>

(* SimulationLifecycle's preparation as one step: a room that has spoken   *)
(* is left as it is, any other is built anew, a re-simulation's too.       *)
Prepare(r, built) ==
  /\ r \in Ids(runs) /\ runs[r].status \in {"draft", "failed"} /\ ~ runs[r].spoke
  /\ runs' = [runs EXCEPT ![r].status = IF built = "all" THEN "ready" ELSE "failed",
                          ![r].people = built]
  /\ UNCHANGED <<assets, gone, results, drafting, asked>>

(* start_simulation: a run priced for more variants than carry copy is     *)
(* refused.                                                                *)
MayStart(r) ==
  /\ runs[r].status \in {"ready", "complete", "failed"}
  /\ runs[r].variants > 1 => runs[r].copies >= runs[r].variants
(* The engine then loads the material and the arenas, once; a variant      *)
(* lookup that raises makes it one arena.                                  *)
Start(r, lost) ==
  /\ r \in Ids(runs) /\ MayStart(r)
  /\ lost => runs[r].copies > 0
  /\ runs' = [runs EXCEPT ![r].status = "running",
       ![r].arenas = IF lost \/ runs[r].copies = 0 THEN 1 ELSE runs[r].copies,
       ![r].read = [a \in runs[r].assets \cap Ids(assets) |-> assets[a].copy]]
  /\ UNCHANGED <<assets, gone, results, drafting, asked>>

-----------------------------------------------------------------------------
(* measure_inoculation: the objections of both runs are compared, the      *)
(* stored result names the material by its present title, and the material *)
(* becomes tested.                                                         *)
Measured(c) ==
  [parent |-> runs[c].parent, child |-> c,
   names |-> [a \in runs[c].assets \cap Ids(assets) |-> assets[a].copy]]
Tested(c) == [a \in Ids(assets) |-> IF a \in runs[c].assets
                                    THEN [assets[a] EXCEPT !.status = "tested"] ELSE assets[a]]
PutResult(c) == {x \in results : x.parent # runs[c].parent \/ x.child # c} \cup {Measured(c)}

(* The run completes, which takes something said, or fails with or without *)
(* it; a comparison that raises is logged and the run completes without    *)
(* one.                                                                    *)
FinishAlone(r, status, said) ==
  /\ r \in Ids(runs) /\ runs[r].status = "running"
  /\ status = "complete" => said
  /\ said => runs[r].people # "none"
  /\ runs' = [runs EXCEPT ![r].status = status, ![r].spoke = runs[r].spoke \/ said]
  /\ UNCHANGED <<assets, gone, results, drafting, asked>>
FinishMeasured(c) ==
  /\ c \in Ids(runs) /\ runs[c].status = "running" /\ runs[c].parent # NoRun
  /\ runs[c].people # "none"
  /\ runs' = [runs EXCEPT ![c].status = "complete", ![c].spoke = TRUE]
  /\ results' = PutResult(c) /\ assets' = Tested(c)
  /\ UNCHANGED <<gone, drafting, asked>>
(* POST result/rebuild: any re-simulation, finished or not.                *)
Rebuild(c) ==
  /\ c \in Ids(runs) /\ runs[c].parent # NoRun
  /\ results' = PutResult(c) /\ assets' = Tested(c)
  /\ UNCHANGED <<runs, gone, drafting, asked>>

-----------------------------------------------------------------------------
(* draft_assets: the model is awaited; of what it wrote, drafts that do    *)
(* not name an objection of the run, claim evidence nobody uploaded, lead  *)
(* away from the product or cannot be published are dropped, and of the    *)
(* concessions to one objection the first is kept.                         *)
AskDraft(r) ==
  /\ r \in Ids(runs) /\ runs[r].status = "complete" /\ r \notin drafting
  /\ drafting' = drafting \cup {r}
  /\ UNCHANGED <<runs, assets, gone, results, asked>>
Capped(drafts) ==
  {i \in DOMAIN drafts : drafts[i].concedes =>
     \A j \in 1..(i - 1) : drafts[j].concedes => drafts[j].answers # drafts[i].answers}
Kept(drafts) == Cardinality(Capped(SelectSeq(drafts, LAMBDA d : d.usable)))
Drafted(r, drafts) ==
  LET kept == Kept(drafts)
      at(i) == NextAsset + i - 1
  IN /\ r \in drafting /\ NextAsset + kept - 1 <= MostAssets
     /\ drafting' = drafting \ {r}
     /\ assets' = IF r \notin Ids(runs) THEN assets
          ELSE [a \in Ids(assets) \cup {at(i) : i \in 1..kept} |->
             IF a \in Ids(assets) THEN assets[a]
             ELSE [run |-> r, status |-> "draft", copy |-> 1]]
     /\ UNCHANGED <<runs, gone, results, asked>>

(* PATCH an asset: not one that has been tested.                           *)
EditAsset(a) ==
  /\ a \in Ids(assets) /\ assets[a].status # "tested" /\ assets[a].copy <= MostEdits
  /\ assets' = [assets EXCEPT ![a].copy = @ + 1]
  /\ UNCHANGED <<runs, gone, results, drafting, asked>>
DeleteAsset(a) ==
  /\ a \in Ids(assets)
  /\ assets' = Without(assets, {a})
  /\ gone' = [gone EXCEPT !.assets = @ + 1]
  /\ UNCHANGED <<runs, results, drafting, asked>>

-----------------------------------------------------------------------------
(* create_resimulation: the child is ready from the start and its people   *)
(* are copied twenty at a time; an insert that raises leaves it as it is.  *)
Child(p, ids, copied) ==
  Run("ready", p, ids, runs[p].variants, IF copied = "all" THEN runs[p].people ELSE copied)
Selected(S) == [a \in Ids(assets) |-> IF a \in S
                  THEN [assets[a] EXCEPT !.status = "selected"] ELSE assets[a]]
Resimulate(p, ids, copied) ==
  /\ NextRun <= MostRuns
  /\ p \in Ids(runs) /\ runs[p].status = "complete"
  /\ ids # {} /\ ids \subseteq {a \in Ids(assets) : assets[a].run = p}
  /\ copied \in {"none", "part", "all"}
  /\ runs' = With(runs, NextRun, Child(p, ids, copied))
  /\ assets' = IF copied = "all" THEN Selected(ids) ELSE assets
  /\ UNCHANGED <<gone, results, drafting, asked>>

(* launch_room_run: the revised page becomes material against the heaviest *)
(* objection of the newest finished run that has people, and that run is   *)
(* re-run with it.                                                         *)
Eligible == {r \in Ids(runs) : runs[r].status = "complete" /\ runs[r].people # "none"}
LaunchRoomRun(copied) ==
  \E p \in Eligible :
    LET a == NextAsset
        page == [run |-> p, copy |-> 1,
                 status |-> IF copied = "all" THEN "selected" ELSE "draft"]
    IN /\ \A q \in Eligible : q <= p
       /\ NextRun <= MostRuns /\ a <= MostAssets
       /\ copied \in {"none", "part", "all"}
       /\ assets' = With(assets, a, page)
       /\ runs' = With(runs, NextRun, Child(p, {a}, copied))
       /\ UNCHANGED <<gone, results, drafting, asked>>

(* DELETE a run: refused while it runs and while it is a before; what      *)
(* refers to it goes with it, or loses the reference.                      *)
MayDelete_Parent(r) == runs[r].status # "running"   \* mutant: a run that others are compared with may go
MayDelete(r) ==
  /\ runs[r].status # "running"
  /\ \A c \in Ids(runs) : runs[c].parent # r
DeleteRun(r) ==
  LET theirs == {a \in Ids(assets) : assets[a].run = r} IN
  /\ r \in Ids(runs) /\ MayDelete(r)
  /\ runs' = [c \in Ids(runs) \ {r} |->
       [runs[c] EXCEPT !.parent = IF @ = r THEN NoRun ELSE @]]
  /\ assets' = Without(assets, theirs)
  /\ results' = {x \in results : r \notin {x.parent, x.child}}
  /\ gone' = [runs |-> gone.runs + 1, assets |-> gone.assets + Cardinality(theirs)]
  /\ asked' = {x \in asked : x.run # r}
  /\ UNCHANGED drafting

(* send_followups: the row goes in before the mail goes out, and is unique *)
(* for a run and a stage; a mail that failed is not sent again.            *)
AskFounder(r, stage) ==
  /\ r \in Ids(runs) /\ runs[r].status = "complete"
  /\ [run |-> r, stage |-> stage] \notin asked
  /\ asked' = asked \cup {[run |-> r, stage |-> stage]}
  /\ UNCHANGED <<runs, assets, gone, results, drafting>>

-----------------------------------------------------------------------------
Drafts == {<<d>> : d \in [answers : Objections, concedes : BOOLEAN, usable : BOOLEAN]}
  \cup {<<d, d>> : d \in [answers : Objections, concedes : {TRUE}, usable : {TRUE}]}
Init ==   \* one finished run to begin with
  /\ runs = <<[Run("complete", NoRun, {}, 1, "all") EXCEPT !.arenas = 1, !.spoke = TRUE]>>
  /\ assets = <<>> /\ gone = [runs |-> 0, assets |-> 0]
  /\ results = {} /\ drafting = {} /\ asked = {}
Next ==
  \/ \E v \in 1..(PlanVariants + 1), s, i \in BOOLEAN : CreateRun(v, s, i)
  \/ \E r \in Ids(runs) :
       \/ \E n \in 0..PlanVariants : SetVariants(r, n)
       \/ \E built \in {"none", "part", "all"} : Prepare(r, built)
       \/ FinishMeasured(r) \/ Rebuild(r) \/ AskDraft(r) \/ DeleteRun(r)
       \/ \E lost \in BOOLEAN : Start(r, lost)
       \/ \E s \in {"complete", "failed"}, said \in BOOLEAN : FinishAlone(r, s, said)
       \/ \E ids \in SUBSET Ids(assets), c \in {"none", "part", "all"} : Resimulate(r, ids, c)
       \/ \E s \in Stages : AskFounder(r, s)
  \/ \E r \in drafting, d \in Drafts : Drafted(r, d)
  \/ \E a \in Ids(assets) : EditAsset(a) \/ DeleteAsset(a)
  \/ \E c \in {"none", "part", "all"} : LaunchRoomRun(c)

Spec == Init /\ [][Next]_resimVars

-----------------------------------------------------------------------------
(* The comparison the founder paid for cannot be rebuilt, so it is never   *)
(* lost to tidying, nor to a second start or preparation of what it is     *)
(* compared with: a re-simulation's before exists, with its people and     *)
(* what they said, and is what its stored result was measured against.     *)
BeforeIsKept ==
  /\ \A c \in Ids(runs) : runs[c].assets # {} =>
       LET before == runs[c].parent IN
       before \in Ids(runs) /\ runs[before].spoke /\ runs[before].people # "none"
  /\ \A x \in results : x.child \in Ids(runs) /\ runs[x.child].parent = x.parent
=============================================================================
