------------------------------ MODULE RunAnalysis ------------------------------
(***************************************************************************)
(* What was said in a finished run is measured once; the phrasings that    *)
(* were measured are grouped into objections; the objections replace the   *)
(* rows of an earlier build, and the artifact names the same ones.  The    *)
(* artifact can be asked for again, from the stored measurements.          *)
(***************************************************************************)
EXTENDS Naturals, Sequences, FiniteSets, SequencesExt, FiniteSetsExt, Functions

CONSTANTS
  Said,         \* the events: [agent, cohort, against, round, phrasings, strength, words]
  Priors,       \* the keys of the parent run's objections
  MostShown,        \* MAX_OBJECTIONS_IN_ARTIFACT
  Chunk,        \* rows of one insert
  MostRebuilds  \* bound: requests to build the artifact again

VARIABLES
  measured,     \* the events measured_at was written of
  builder,      \* where the build under way is
  taken,        \* the events it read
  found,        \* the objections it made, the heaviest first
  rows,         \* canonical_objections of the run
  artifact,     \* simulation_analysis of the run
  rebuilds

analysisVars == <<measured, builder, taken, found, rows, artifact, rebuilds>>

Labels   == {"price", "sso"}
Contentless(e) == ~e.words

-----------------------------------------------------------------------------
(* measure_simulation_events: what carries no words is marked without a    *)
(* model; of the rest each batch, and each entry, may come back unusable   *)
(* and stays unmeasured.                                                   *)
Measure(answered) ==
  /\ builder = "measuring" /\ answered \subseteq {e \in Said \ measured : e.words}
  /\ measured' = measured \cup answered \cup {e \in Said : Contentless(e)}
  /\ builder' = "loading" /\ UNCHANGED <<taken, found, rows, artifact, rebuilds>>

(* load_run_data: only measured events are read.                           *)
Load ==
  /\ builder = "loading" /\ taken' = measured
  /\ builder' = "grouping" /\ UNCHANGED <<measured, found, rows, artifact, rebuilds>>

-----------------------------------------------------------------------------
(* _collect_raw: who said each phrasing.  A key is a label and a suffix.   *)
Raw == UNION {e.phrasings : e \in taken}
Raising(phrasings) == {e \in taken : e.phrasings \cap phrasings # {}}
Agents(events)  == {e.agent : e \in events}
Cohorts(events) == {e.cohort : e \in events}
FreeKey(label, seen) == <<label, Min({n \in 1..(Cardinality(seen) + 1) : <<label, n>> \notin seen})>>

(* _score: reach, strength and spread, in hundredths.                      *)
Strength(events) == FoldSet(LAMBDA e, n : n + e.strength, 0, events)
Score(events) ==
  (100 * Cardinality(Agents(events)) * Strength(events) * Cardinality(Cohorts(events)))
    \div (Cardinality(Agents(taken)) * Cardinality(events) * Cardinality(Cohorts(taken)))

(* _build_summary and _attribute_objection_cohorts.                        *)
Summary(key, phrasings) ==
  LET events == Raising(phrasings)
      first  == Min({e.round : e \in events})
  IN [key |-> key, phrasings |-> phrasings, agents |-> Cardinality(Agents(events)),
      buyers  |-> Cardinality(Agents({e \in events : ~e.against})),
      against |-> Cardinality(Agents({e \in events : e.against})),
      first   |-> first, origin |-> \A e \in events : e.round = first => e.against,
      score   |-> Score(events)]

(* _cluster: the model's groups, each a label, phrasings by number and the *)
(* key of a prior or none; without a readable answer every phrasing is a   *)
(* group of its own.                                                       *)
Groups == [label : Labels, members : (SUBSET Raw) \ {{}}, key : {{}} \cup {{p} : p \in Priors}]
Fallback == LET order == SetToSeq(Raw) IN
  [i \in DOMAIN order |-> [label |-> order[i], members |-> {order[i]}, key |-> {}]]

Key(g, seen) == IF g.key \subseteq seen THEN FreeKey(g.label, seen) ELSE CHOOSE k \in g.key : TRUE

(* canonicalize_objections: a phrasing belongs to the first group that     *)
(* names it, a prior's key to the first group that claims it.              *)
Take_Again(acc, g) ==   \* mutant
  LET members == g.members
      key     == Key(g, acc.seen)
  IN IF members = {} THEN acc
     ELSE [claimed |-> acc.claimed \cup members, seen |-> acc.seen \cup {key},
           out |-> Append(acc.out, Summary(key, members))]
Take(acc, g) ==
  LET members == g.members \ acc.claimed
      key     == Key(g, acc.seen)
  IN IF members = {} THEN acc
     ELSE [claimed |-> acc.claimed \cup members, seen |-> acc.seen \cup {key},
           out |-> Append(acc.out, Summary(key, members))]
Ranked(objections) ==   \* equals stay in the order of the groups
  LET Before(i, j) == \/ objections[i].score > objections[j].score
                      \/ objections[i].score = objections[j].score /\ i < j
      place == CHOOSE p \in [DOMAIN objections -> DOMAIN objections] :
                 \A i, j \in DOMAIN objections : i < j => Before(p[i], p[j])
  IN [i \in DOMAIN objections |-> objections[place[i]]]
Canonicalize(groups) ==
  Ranked(FoldLeft(Take, [claimed |-> {}, seen |-> {}, out |-> <<>>], groups).out)

Group(groups) ==
  /\ builder = "grouping" /\ builder' = "clearing"
  /\ found' = IF Raw = {} THEN <<>> ELSE Canonicalize(IF groups = <<>> THEN Fallback ELSE groups)
  /\ UNCHANGED <<measured, taken, rows, artifact, rebuilds>>

-----------------------------------------------------------------------------
(* persist_objections: the rows of the earlier build go, and the new ones  *)
(* come a chunk at a time.                                                 *)
Clear ==
  /\ builder = "clearing" /\ rows' = <<>> /\ builder' = "writing"
  /\ UNCHANGED <<measured, taken, found, artifact, rebuilds>>
Insert ==
  /\ builder = "writing" /\ Len(rows) < Len(found)
  /\ rows' = SubSeq(found, 1, IF Len(rows) + Chunk < Len(found) THEN Len(rows) + Chunk ELSE Len(found))
  /\ UNCHANGED <<measured, builder, taken, found, artifact, rebuilds>>

(* build_simulation_analysis, _persist.                                    *)
Publish ==
  /\ builder = "writing" /\ Len(rows) = Len(found)
  /\ artifact' = [status |-> "complete", objections |-> SubSeq(found, 1, IF Len(found) < MostShown THEN Len(found) ELSE MostShown),
                  events |-> taken]
  /\ builder' = "idle" /\ UNCHANGED <<measured, taken, found, rows, rebuilds>>

(* A statement of the database raises.  The first build says so in the     *)
(* artifact's row (run_analysis); a rebuild only answers 500.              *)
Fails ==
  /\ builder \in {"measuring", "loading", "clearing", "writing"}
  /\ artifact' = IF rebuilds = 0 THEN [status |-> "failed", objections |-> <<>>, events |-> {}] ELSE artifact
  /\ builder' = "idle" /\ UNCHANGED <<measured, taken, found, rows, rebuilds>>

(* rebuild_analysis: whatever the state of the run or the artifact.        *)
Rebuild ==
  /\ builder = "idle" /\ rebuilds < MostRebuilds /\ rebuilds' = rebuilds + 1
  /\ builder' = "loading" /\ UNCHANGED <<measured, taken, found, rows, artifact>>

-----------------------------------------------------------------------------
Init ==
  /\ measured = {} /\ builder = "measuring" /\ taken = {} /\ found = <<>> /\ rows = <<>>
  /\ artifact = [status |-> "none", objections |-> <<>>, events |-> {}] /\ rebuilds = 0

Next ==
  \/ \E answered \in SUBSET Said : Measure(answered)
  \/ Load \/ Group(<<>>) \/ Clear \/ Insert \/ Publish \/ Fails \/ Rebuild
  \/ builder = "grouping" /\ \E g \in Groups : Group(<<g>>) \/ \E h \in Groups : Group(<<g, h>>)

Spec == Init /\ [][Next]_analysisVars

-----------------------------------------------------------------------------
(* An artifact counts nobody twice: no phrasing is in two objections, no   *)
(* two objections share a key, and whoever raised an objection is counted  *)
(* once, among the buyers or among those who were built to argue.          *)
EachPhrasingOnce ==
  LET os == artifact.objections IN
  /\ \A i, j \in DOMAIN os : i # j => /\ os[i].key # os[j].key
                                      /\ os[i].phrasings \cap os[j].phrasings = {}
  /\ \A i \in DOMAIN os : os[i].buyers + os[i].against = os[i].agents /\ os[i].agents > 0
===============================================================================
