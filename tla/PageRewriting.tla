----------------------------- MODULE PageRewriting -----------------------------
(***************************************************************************)
(* generate_revision: a page is rewritten, scanned for claims its source   *)
(* does not make, rendered and judged, up to MaxRounds times, and the best *)
(* round is delivered.  A claim is its kind, unit and value; a score is    *)
(* one of a few, on both sides of the lines the loop draws.                *)
(***************************************************************************)
EXTENDS Naturals, Sequences, FiniteSets, SequencesExt

CONSTANTS
  MaxRounds,   \* MAX_REVISION_ROUNDS
  Target,      \* target_overall
  MostFall     \* DIMENSION_REGRESSION_LIMIT

VARIABLES
  stage,       \* "asked", "write", "again", "judge", "delivered", "failed"
  source,      \* the claims of the founder's own page
  baseline,    \* its scores by dimension
  draft,       \* what the first answer of this round was
  rounds,      \* the rounds that were judged
  best         \* which of them is the best so far; 0: none

rewriteVars == <<stage, source, baseline, draft, rounds, best>>

-----------------------------------------------------------------------------
(* A figure's amount is in tenths, written to that many places.            *)
Badge(name) == [kind |-> "certification", unit |-> name, amount |-> 0, places |-> 0]
Figure(unit, amount, places) == [kind |-> "figure", unit |-> unit, amount |-> amount, places |-> places]
Scale(unit, amount) == [kind |-> "scale", unit |-> unit, amount |-> amount, places |-> 0]
HomePage == {Badge("soc2"), Figure("percent", 124, 1), Scale("teams", 40000)}
Drafts == {HomePage, HomePage \cup {Badge("hipaa")}, {Figure("percent", 120, 0)},
           {Figure("percent", 130, 0), Scale("teams", 50000)}, {Badge("hipaa"), Badge("iso27001"), Figure("dollars", 120, 0)}}
Sources == {HomePage, {}}

(* unsupported_claims: by key, where 4k and 4,000+ are one, and a figure   *)
(* may be the rounding of a sourced one.                                   *)
Key(c) == [kind |-> c.kind, unit |-> c.unit, amount |-> c.amount]
HalfEven(tenths) ==
  LET whole == tenths \div 10  rest == tenths % 10 IN
  10 * IF rest > 5 \/ (rest = 5 /\ whole % 2 = 1) THEN whole + 1 ELSE whole
RoundsTo(c, sourced) ==
  \E s \in sourced : /\ s.kind # "certification" /\ s.unit = c.unit
                     /\ c.amount = IF c.places = 0 THEN HalfEven(s.amount) ELSE s.amount
Unsupported(from, written) ==
  {c \in written : /\ Key(c) \notin {Key(s) : s \in from}
                   /\ c.kind = "figure" => ~RoundsTo(c, from)}
Forged(claims) == Cardinality({c \in claims : c.kind = "certification"})
NoWorse(a, b) ==   \* _fabrication, compared
  \/ Forged(a) < Forged(b)
  \/ Forged(a) = Forged(b) /\ Cardinality(a) <= Cardinality(b)

-----------------------------------------------------------------------------
(* The gauntlet: critics that look, and "measured", that may be absent.    *)
Scores == [{"copy", "design"} -> {50, 80}] \cup [{"copy", "design", "measured"} -> {50, 80}]
Sum(s) == (IF "measured" \in DOMAIN s THEN s["measured"] ELSE 0) + s["copy"] + s["design"]
Overall(s) ==   \* round(): no mean of these scores falls on a half
  LET n == Cardinality(DOMAIN s) IN (2 * Sum(s) + n) \div (2 * n)
(* run_critic_gauntlet: an answer that cannot be read is asked for once    *)
(* more; one critic without an answer fails the lot.                       *)
Outcomes == {"answers", "answers the second time", "unreadable twice", "raises"}
Answered(outcome) == outcome \in {"answers", "answers the second time"}
Judged(outcomes) == \A c \in DOMAIN outcomes : Answered(outcomes[c])

(* _regressions: against the founder's page; absent dimensions are         *)
(* skipped.                                                                *)
Fallen(scores) ==
  {d \in DOMAIN baseline \cap DOMAIN scores : baseline[d] > scores[d] + MostFall}
Better_ByScore(new, old) == Overall(new.scores) > Overall(old.scores)   \* mutant
Better(new, old) ==
  LET badges(x) == Forged(x.claims)  fallen(x) == Cardinality(x.fallen) IN
  IF badges(new) # badges(old) THEN badges(new) < badges(old)
  ELSE IF fallen(new) # fallen(old) THEN fallen(new) < fallen(old)
  ELSE Overall(new.scores) > Overall(old.scores)

-----------------------------------------------------------------------------
NoDraft == [read |-> FALSE, claims |-> {}]
Init ==
  /\ stage = "asked" /\ source = {} /\ baseline = <<>>
  /\ draft = NoDraft /\ rounds = <<>> /\ best = 0

Ask(from, scores) ==
  /\ stage = "asked" /\ stage' = "write"
  /\ source' = from /\ baseline' = scores
  /\ UNCHANGED <<draft, rounds, best>>

(* A round that fails leaves the best one standing; the first has none.    *)
GiveUp ==
  /\ stage' = IF best = 0 THEN "failed" ELSE "delivered"
  /\ UNCHANGED <<source, baseline, draft, rounds, best>>

(* _generate_html: a page that is no document, or that invents, is asked   *)
(* for once more.                                                          *)
Written(answer) ==
  LET claims == Unsupported(source, answer) IN
  /\ stage = "write"
  /\ draft' = [read |-> TRUE, claims |-> claims]
  /\ stage' = IF claims = {} THEN "judge" ELSE "again"
  /\ UNCHANGED <<source, baseline, rounds, best>>
Unreadable ==
  /\ stage = "write"
  /\ draft' = NoDraft /\ stage' = "again"
  /\ UNCHANGED <<source, baseline, rounds, best>>
Rewritten(answer) ==
  LET claims == Unsupported(source, answer) IN
  /\ stage = "again"
  /\ draft' = IF ~draft.read \/ NoWorse(claims, draft.claims) THEN [read |-> TRUE, claims |-> claims] ELSE draft
  /\ stage' = "judge"
  /\ UNCHANGED <<source, baseline, rounds, best>>
UnreadableAgain ==
  /\ stage = "again"
  /\ IF draft.read THEN stage' = "judge" /\ UNCHANGED <<source, baseline, draft, rounds, best>>
                   ELSE GiveUp
ModelRaises == stage \in {"write", "again"} /\ GiveUp

(* capture_html and the gauntlet, and whether to go another round.         *)
JudgeFails == stage = "judge" /\ GiveUp
JudgeRound(scores) ==
  LET this == [claims |-> draft.claims, scores |-> scores, fallen |-> Fallen(scores)]
      n    == Len(rounds) + 1
  IN /\ stage = "judge"
     /\ rounds' = Append(rounds, this)
     /\ best' = IF best = 0 \/ Better(this, rounds[best]) THEN n ELSE best
     /\ stage' = IF n = MaxRounds \/ (Overall(scores) >= Target /\ Forged(draft.claims) = 0)
                 THEN "delivered" ELSE "write"
     /\ draft' = NoDraft
     /\ UNCHANGED <<source, baseline>>
Gauntlet ==
  \E copy, design \in Outcomes :
    IF Judged([c |-> copy, d |-> design]) THEN \E s \in Scores : JudgeRound(s) ELSE JudgeFails

Next ==
  \/ \E from \in Sources, scores \in Scores : Ask(from, scores)
  \/ \E answer \in Drafts : Written(answer) \/ Rewritten(answer)
  \/ Unreadable \/ UnreadableAgain \/ ModelRaises \/ Gauntlet

Spec == Init /\ [][Next]_rewriteVars

-----------------------------------------------------------------------------
(* "A higher mean is not allowed to buy" an invented certification or a    *)
(* dimension given up: of all the rounds that were judged, none has fewer  *)
(* badges than the one delivered, none as few and fewer regressions, and   *)
(* none as few of both and a higher score.                                 *)
NoRoundWasBetter ==
  best # 0 => \A i \in DOMAIN rounds :
    LET x == rounds[i]  b == rounds[best] IN
    /\ Forged(b.claims) <= Forged(x.claims)
    /\ Forged(b.claims) = Forged(x.claims) => Cardinality(b.fallen) <= Cardinality(x.fallen)
    /\ Forged(b.claims) = Forged(x.claims) /\ Cardinality(b.fallen) = Cardinality(x.fallen)
         => Overall(b.scores) >= Overall(x.scores)
=============================================================================
