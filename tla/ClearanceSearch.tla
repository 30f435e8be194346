---------------------------- MODULE ClearanceSearch ----------------------------
(***************************************************************************)
(* What run_clearance does between its two writes: the model's plan is     *)
(* clamped, the patent office is searched query by query through a client  *)
(* that retries, the closest records are read, and what was found becomes  *)
(* the stored artifact.  The row and the money are module Clearance.       *)
(***************************************************************************)
EXTENDS Naturals, Sequences, FiniteSets, SequencesExt, FiniteSetsExt

CONSTANTS
  Plans,      \* what the model answers when asked for a plan
  Filings,    \* bound: the records the office may hold
  Attempts,   \* _MAX_ATTEMPTS
  Ceiling,    \* BROAD_HIT_CEILING
  PerAxis     \* MAX_QUERIES_PER_AXIS

VARIABLES
  office,     \* the records the office holds
  plan,       \* the clamped plan
  tier, stage, todo, tries,   \* how deep, how far, the queries still to send, attempts at the first
  asked,      \* queries_run: every query with its hits
  screen,     \* the screened records, each with the queries that surfaced it
  zeros,      \* axis -> the query that confirmed the zero
  art,        \* closest_art
  artifact    \* what is stored

searchVars == <<office, plan, tier, stage, todo, tries, asked, screen, zeros, art, artifact>>

Tiers == {"QUICK", "STANDARD", "COMPREHENSIVE"}
Axes == {"FUNCTION", "STRUCTURE", "DOMAIN"}
DeepReads == [t \in Tiers |-> CASE t = "QUICK" -> 0 [] t = "STANDARD" -> 1 [] OTHER -> 2]
Limit(t) == IF t = "QUICK" THEN 1 ELSE 2   \* records asked for per search
NoPlan == [kind |-> "none", queries |-> <<>>, cpc |-> <<>>, marks |-> <<>>]

-----------------------------------------------------------------------------
(* _normalize: the places of the queries that are kept, in order.  One     *)
(* without a known axis, said before, or beyond the cap of its axis is not.*)
KeptIn(qs) ==
  {order \in UNION {SetToSeqs(places) : places \in SUBSET DOMAIN qs} :
     /\ \A i, j \in DOMAIN order : i < j => order[i] < order[j]
     /\ \A p \in DOMAIN qs :
          LET before == {k \in ToSet(order) : k < p} IN
          p \in ToSet(order) <=>
            /\ qs[p].axis \in Axes /\ qs[p].terms # <<>>
            /\ \A k \in before : qs[k].terms # qs[p].terms
            /\ Cardinality({k \in before : qs[k].axis = qs[p].axis}) < PerAxis}
(* A hint wins over the model's reading; an invention has no mark to check.*)
Clamp(raw, hint, item, order) ==
  LET kind == IF hint # "none" THEN hint
              ELSE IF raw.kind \in {"name", "invention", "both"} THEN raw.kind ELSE "both"
  IN [kind |-> kind, queries |-> [i \in DOMAIN order |-> raw.queries[order[i]]], cpc |-> raw.cpc,
      marks |-> IF kind = "invention" THEN <<>> ELSE IF raw.marks = <<>> THEN <<item>> ELSE raw.marks]

Words(ts) == [by |-> "words", terms |-> ToSet(ts), of |-> "none"]
ByClass(c, ts) == [by |-> "class", terms |-> ts, of |-> c]
ByName(n) == [by |-> "name", terms |-> {}, of |-> n]
(* The office's own count for a query; that its answers are well formed is *)
(* assumed of it (a body without a list of records would read as none).    *)
Matching(q) ==
  {r \in office : CASE q.by = "words" -> q.terms \subseteq r.title \cup r.abstract
                    [] q.by = "class" -> r.cpc = q.of /\ q.terms \cap (r.title \cup r.abstract) # {}
                    [] OTHER -> r.assignee = q.of}
TermsOf(axis) == FlattenSeq([i \in DOMAIN plan.queries |->
                   IF plan.queries[i].axis = axis THEN plan.queries[i].terms ELSE <<>>])
PlanTerms == UNION {ToSet(plan.queries[i].terms) : i \in DOMAIN plan.queries}

Planned(q) == [q |-> Words(q.terms), why |-> "planned", axis |-> q.axis, terms |-> q.terms]
Sweep(q) == [q |-> q, why |-> "sweep", axis |-> "none", terms |-> <<>>]
Rerun(e, why, ts) == [q |-> Words(ts), why |-> why, axis |-> e.axis, terms |-> e.terms]
(* A query that found nothing loses its last term, once; one that found    *)
(* too much gains the first term of another axis it does not have.         *)
Broadened(e) == IF Len(e.terms) < 2 THEN <<>> ELSE <<Rerun(e, "broadened", Front(e.terms))>>
Narrowed(e) ==
  LET more == SelectSeq(TermsOf(IF e.axis # "FUNCTION" THEN "FUNCTION" ELSE "DOMAIN"),
                        LAMBDA t : t \notin ToSet(e.terms))
  IN IF more = <<>> THEN <<>> ELSE <<Rerun(e, "narrowed", Append(e.terms, Head(more)))>>
Next1(e, n) == IF e.why # "planned" THEN <<>>
               ELSE IF n = 0 THEN Broadened(e) ELSE IF n > Ceiling THEN Narrowed(e) ELSE <<>>
(* A zero counts once the broadened query, if there is one, found nothing. *)
Confirms_AtOnce(e, n) == n = 0 /\ e.why = "planned"   \* mutant: without asking the broadened query
Confirms(e, n) ==
  n = 0 /\ (e.why = "broadened" \/ (e.why = "planned" /\ Broadened(e) = <<>>))
Whitespace == IF Cardinality(DOMAIN zeros) >= 2 THEN DOMAIN zeros ELSE {}

(* _closeness, in halves.                                                  *)
Closeness(r) ==
  4 * Cardinality(PlanTerms \cap r.title) + 2 * Cardinality(PlanTerms \cap (r.abstract \ r.title))
  + (IF r.live THEN 3 ELSE 0) + Min({3, Cardinality(screen[r]) - 1})
Ranked(rs, n) == {s \in SUBSET rs : Cardinality(s) = Min({n, Cardinality(rs)})
                    /\ \A x \in s, y \in rs \ s : Closeness(x) >= Closeness(y)}
RepeatAssignees(skip) ==
  {n \in {r.assignee : r \in DOMAIN screen} \ skip : Cardinality({r \in DOMAIN screen : r.assignee = n}) >= 2}

-----------------------------------------------------------------------------
Init ==
  /\ office \in SUBSET Filings /\ tier \in Tiers /\ stage = "plan" /\ plan = NoPlan
  /\ todo = <<>> /\ tries = 1 /\ asked = <<>> /\ screen = <<>> /\ zeros = <<>> /\ art = {} /\ artifact = {}

BuildPlan ==
  /\ stage = "plan" /\ stage' = "words"
  /\ \E raw \in Plans, hint \in {"none", "name", "invention", "both"} :
       \E order \in KeptIn(raw.queries) : plan' = Clamp(raw, hint, "item", order)
  /\ todo' = [i \in DOMAIN plan'.queries |-> Planned(plan'.queries[i])]
  /\ UNCHANGED <<office, tier, tries, asked, screen, zeros, art, artifact>>

(* _run_query: the answer is recorded, whatever it is; the records of one  *)
(* that is not too broad are screened, as many as were asked for.          *)
Search ==
  /\ todo # <<>>
  /\ LET e == Head(todo)  n == Cardinality(Matching(e.q)) IN
     /\ asked' = Append(asked, [q |-> e.q, hits |-> n])
     /\ todo' = Next1(e, n) \o Tail(todo) /\ tries' = 1
     /\ zeros' = IF Confirms(e, n) /\ e.axis \notin DOMAIN zeros
                 THEN [a \in DOMAIN zeros \cup {e.axis} |-> IF a = e.axis THEN e.terms ELSE zeros[a]] ELSE zeros
     /\ \E got \in SUBSET Matching(e.q) :
          /\ Cardinality(got) = IF n > Ceiling THEN 0 ELSE Min({n, Limit(tier)})
          /\ screen' = [r \in DOMAIN screen \cup got |->
               (IF r \in DOMAIN screen THEN screen[r] ELSE {}) \cup IF r \in got THEN {e.q} ELSE {}]
  /\ UNCHANGED <<office, plan, tier, stage, art, artifact>>
(* _send: no answer, or one worth trying again; the last try raises, and   *)
(* the run fails.                                                          *)
Retry ==
  /\ todo # <<>> \/ stage \in {"read", "examiners"} \/ (stage = "continuity" /\ art # {})
  /\ IF tries < Attempts THEN tries' = tries + 1 /\ UNCHANGED <<stage, todo>>
     ELSE stage' = "failed" /\ todo' = <<>> /\ tries' = 1
  /\ UNCHANGED <<office, plan, tier, asked, screen, zeros, art, artifact>>

Turn(from, to, qs) ==
  /\ stage = from /\ todo = <<>> /\ stage' = to /\ todo' = qs /\ tries' = 1
  /\ UNCHANGED <<office, plan, tier, asked, screen, zeros, art, artifact>>
Function == ToSet(SubSeq(TermsOf("FUNCTION"), 1, Min({2, Len(TermsOf("FUNCTION"))})))
CpcSweep ==
  Turn("words", IF tier = "QUICK" THEN "read" ELSE "names",
       IF tier = "QUICK" \/ Function = {} THEN <<>>
       ELSE [i \in DOMAIN plan.cpc |-> Sweep(ByClass(plan.cpc[i], Function))])
AssigneeSweep ==
  /\ \E named \in {<<>>, <<Sweep(ByName("acme"))>>} :
       Turn("names", IF tier = "COMPREHENSIVE" THEN "repeats" ELSE "read", named)
RepeatSweep ==
  LET swept == {a.q.of : a \in ToSet(asked)} IN
  Turn("repeats", "read", SetToSeq({Sweep(ByName(n)) : n \in RepeatAssignees(swept)}))

(* Claims that cannot be had leave a live reference at YELLOW.             *)
Risk(r, fetched) ==
  IF fetched /\ r.claims \in {"RED", "YELLOW", "GREEN"} THEN r.claims
  ELSE IF fetched /\ r.claims # "none" THEN "YELLOW" ELSE IF r.live THEN "YELLOW" ELSE "GREEN"
DeepRead ==
  /\ stage = "read" /\ todo = <<>> /\ stage' = (IF tier = "QUICK" THEN "compose" ELSE "continuity")
  /\ \E rs \in Ranked(DOMAIN screen, DeepReads[tier]), missed \in SUBSET DOMAIN screen :
       /\ missed \subseteq rs
       /\ art' = {[ref |-> r, risk |-> Risk(r, r \notin missed)] : r \in rs}
  /\ tries' = 1 /\ UNCHANGED <<office, plan, tier, todo, asked, screen, zeros, artifact>>
(* _track_c asks the office for the family of every reference; one that    *)
(* cannot be had fails the run (Retry), a missing one changes nothing.     *)
Continuity ==
  /\ stage = "continuity" /\ stage' = (IF tier = "COMPREHENSIVE" THEN "examiners" ELSE "compose")
  /\ tries' = 1 /\ UNCHANGED <<office, plan, tier, todo, asked, screen, zeros, art, artifact>>
(* Two searches of examiners' records, on the first FUNCTION query.        *)
Examiners ==
  /\ stage = "examiners" /\ stage' = "compose" /\ tries' = 1
  /\ asked' = IF plan.queries = <<>> THEN asked
              ELSE asked \o [i \in 1..2 |-> [q |-> Words(<<"rejections">>), hits |-> 0]]
  /\ UNCHANGED <<office, plan, tier, todo, screen, zeros, art, artifact>>

Rollup(entries) ==
  LET live == {e \in entries : e.ref.live} IN
  IF \E e \in live : e.risk = "RED" THEN "RED" ELSE IF \E e \in live : e.risk = "YELLOW" THEN "YELLOW" ELSE "GREEN"
Pending == IF tier = "QUICK" THEN {} ELSE {r \in DOMAIN screen : ~r.granted /\ r.live}
WatchList == IF tier # "COMPREHENSIVE" THEN {} ELSE RepeatAssignees({})

(* scrub_clearance_artifact, on the names the office supplies: a section   *)
(* that is not listed is left as it is.                                    *)
Scanned_WithoutQueries == {"closest_art", "notable_pending", "watch_list"}   \* mutant
Scanned == {"closest_art", "notable_pending", "watch_list", "queries_run"}
Redacted(name) == IF name = "private" THEN "removed" ELSE name
Scrub(names, section) == IF section \in Scanned THEN {Redacted(n) : n \in names} ELSE names
Compose ==
  /\ stage = "compose" /\ stage' = "done"
  /\ artifact' = {[overall |-> Rollup(art), open |-> Whitespace, marks |-> "NOT_SEARCHED",
       closest_art |-> Scrub({e.ref.assignee : e \in art}, "closest_art"),
       notable_pending |-> Scrub({r.assignee : r \in Pending}, "notable_pending"),
       watch_list |-> Scrub(WatchList, "watch_list"),
       queries_run |-> Scrub({a.q.of : a \in ToSet(asked)}, "queries_run")]}
  /\ UNCHANGED <<office, plan, tier, todo, tries, asked, screen, zeros, art>>

Next == \/ BuildPlan \/ Search \/ Retry \/ CpcSweep \/ AssigneeSweep \/ RepeatSweep
        \/ DeepRead \/ Continuity \/ Examiners \/ Compose

Spec == Init /\ [][Next]_searchVars

-----------------------------------------------------------------------------
(* Where the artifact says an axis is open ground, the office holds no     *)
(* record for the query it names, nor for that query without its last term.*)
OpenGroundIsEmpty ==
  \A a \in artifact : \A x \in a.open :
    Matching(Words(IF Len(zeros[x]) > 1 THEN Front(zeros[x]) ELSE zeros[x])) = {}

(* No live record is left unread for a dead one that matches no better.    *)
LiveIsReadFirst ==
  \A e \in art, r \in DOMAIN screen :
    (r \notin {x.ref : x \in art} /\ r.live /\ ~e.ref.live
       /\ Cardinality(screen[r]) = Cardinality(screen[e.ref]))
    => \/ PlanTerms \cap (e.ref.title \cup e.ref.abstract) # PlanTerms \cap (r.title \cup r.abstract)
       \/ PlanTerms \cap e.ref.title # PlanTerms \cap r.title

(* A private filer's contact detail, which reaches the artifact by four    *)
(* ways, is in none of its sections (privacy.py: "leaving one out is the   *)
(* failure mode").                                                         *)
NothingPersonalKept ==
  \A a \in artifact : "private" \notin a.closest_art \cup a.notable_pending \cup a.watch_list \cup a.queries_run

(* The artifact may be handed to the founder's counsel: it claims no ground*)
(* that is taken, was read from the live end and names no private person.  *)
ArtifactHolds == OpenGroundIsEmpty /\ LiveIsReadFirst /\ NothingPersonalKept
=============================================================================
