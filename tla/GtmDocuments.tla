------------------------------ MODULE GtmDocuments ------------------------------
(***************************************************************************)
(* The three documents written from one run: the answer pack, the          *)
(* messaging document and the outbound sequences.  A model writes them and *)
(* code decides what of its answer is kept.  An objection is its rank in   *)
(* the measurement, 0 one nobody raised; a statement is a number and what  *)
(* it counts; a name is whose it is and how it is spelled.                 *)
(***************************************************************************)
EXTENDS Naturals, Sequences, FiniteSets, SequencesExt, FiniteSetsExt

CONSTANTS
  MaxRows,        \* MAX_ROWS of the answer pack
  MaxObjections,  \* MAX_OBJECTIONS of the messaging document
  MaxArchetypes   \* MAX_ARCHETYPES

VARIABLES
  run,            \* what the database holds of the run the documents are asked of
  doc             \* the last document that was built, or that it was refused

docVars == <<run, doc>>

Ranks(n, limit) == 1..(IF n < limit THEN n ELSE limit)

-----------------------------------------------------------------------------
(* founder_material, _fact_material: what the founder said in either       *)
(* summary, and what each document may take a figure from: the summary,    *)
(* the objections it loaded, and the copy it was shown.                    *)
Said(pairs, keys) == {s[2] : s \in {p \in pairs : p[1] \in keys}}
FounderSaid == run.column \cup run.blob
Numbers(statements) == {s[1] : s \in statements}
Material(limit, keys) ==
  run.column \cup Said(run.room, Ranks(run.measured, limit)) \cup Said(run.copy, keys)
Priced == \E s \in FounderSaid : s[2] = "usd"

(* _is_meeting_ask: a length of time that is asked for is no claim.        *)
Offer(c) == c.kind = "offer"
Told(c, material) == <<c.n, c.unit>> \in material   \* sourced_durations

(* _scrub_text: an offer of time stands; a span must have been told with   *)
(* its unit; money is the founder's once the founder named a price; any    *)
(* other figure must be a number of the material.                          *)
Supported_ByAnyone(c, material) ==   \* mutant
  \/ Offer(c)
  \/ c.kind = "span" /\ Told(c, material)
  \/ c.kind \in {"money", "share"} /\ c.n \in Numbers(material)
Supported(c, material) ==
  \/ Offer(c)
  \/ c.kind = "span" /\ Told(c, material)
  \/ c.kind = "money" /\ Priced /\ c.n \in Numbers(FounderSaid)
  \/ c.kind = "money" /\ ~Priced /\ c.n \in Numbers(material)
  \/ c.kind = "share" /\ c.n \in Numbers(material)
Scrub(c, material) == IF Supported(c, material) THEN {c} ELSE {}
Blanks(c, material) == 1 - Cardinality(Scrub(c, material))

(* The names a document may argue against: the founder's, the two every    *)
(* founder has, and what a buyer said, each in the spelling it came in     *)
(* first.                                                                  *)
Always == {<<"nothing", "own">>}
Named  == {<<w, "own">> : w \in run.rivals} \cup Always
Spoken(limit) == UNION {r[2] : r \in {s \in run.spoken : s[1] \in Ranks(run.measured, limit)}}
Who(names) == {n[1] : n \in names}
Allowed(nominated) ==   \* _allowed_alternatives
  FoldLeft(LAMBDA known, n :
             IF n[1] \in Who(known) \/ n[1] \notin Spoken(MaxObjections) THEN known
             ELSE known \cup {n}, Named, nominated)

-----------------------------------------------------------------------------
(* What a model answers.                                                   *)
Claims == {[kind |-> k, n |-> n, unit |-> "usd"] : k \in {"money", "share"}, n \in 7..9}
          \cup {[kind |-> "span", n |-> n, unit |-> u] : n \in 7..8, u \in {"hour", "day"}}
          \cup {[kind |-> "offer", n |-> 7, unit |-> "day"]}
Cited == {<<>>, <<2, 0, 1, 1>>}
Rivals == {<<"acme", "own">>, <<"acme", "other">>, <<"globex", "own">>, <<"initech", "own">>}
Sets == {<<>>} \cup {<<{r}, {r}, {r}>> : r \in Rivals} \cup
        {<<{<<"acme", "own">>}, {<<"globex", "own">>, <<"acme", "own">>}, {<<"globex", "other">>}, {}>>,
         <<{}, {<<"acme", "own">>}, {}>>}

(* A document is only ever built from objections that were measured.       *)
Refuse == doc' = [kind |-> "refused"] /\ UNCHANGED run
Kept(cited, limit) == SelectSeq(cited, LAMBDA k : k \in Ranks(run.measured, limit))
InOrder(ranks) == SortSeq(ranks, <)

(* build_answer_pack: every row of a measured objection is kept, and a     *)
(* card against a name somebody gave.                                      *)
BuildAnswerPack(cited, cards, claim) ==
  LET material == Material(MaxRows, {}) IN
  IF run.measured = 0 THEN Refuse
  ELSE /\ doc' = [kind |-> "pack", rows |-> InOrder(Kept(cited, MaxRows)),
                  rivals |-> {c \in cards : c[1] \in Who(Named) \cup Spoken(MaxRows)},
                  claims |-> Scrub(claim, material), blanks |-> Blanks(claim, material)]
       /\ UNCHANGED run

-----------------------------------------------------------------------------
(* build_messaging_doc.  The winner is the scoreboard's, and only while    *)
(* its variant's row is there.                                             *)
Winner == IF run.winner \in run.tested THEN {run.winner} ELSE {}
Once(ranks) == FoldLeft(LAMBDA acc, k : IF Contains(acc, k) THEN acc ELSE Append(acc, k), <<>>, ranks)
Nominations(sets) == FlattenSeq([i \in DOMAIN sets |-> SetToSeq(sets[i])])
Claimed(sets, allowed) ==   \* the first three differentiators, the names they keep
  [i \in Ranks(Len(sets), 3) |-> sets[i] \cap allowed]
ThreeWayVerdict(claimed, allowed) ==
  IF Len(claimed) < 3 THEN "not run"
  ELSE IF \E n \in allowed : \A i \in DOMAIN claimed : n \in claimed[i] THEN "broken" ELSE "defensible"
BuildMessagingDoc(cited, sets, claim) ==
  LET material == Material(MaxObjections, run.tested)
      allowed  == Allowed(Nominations(sets))
      claimed  == Claimed(sets, allowed)
      lines    == Kept(cited, MaxObjections)
  IN IF run.measured = 0 THEN Refuse
     ELSE /\ doc' = [kind |-> "messaging", rows |-> InOrder(Once(lines)), rivals |-> allowed,
                     sources |-> lines, said |-> sets, verdict |-> ThreeWayVerdict(claimed, allowed),
                     winner |-> Winner, caveat |-> Cardinality(run.tested) > 1 /\ Winner = {},
                     claims |-> Scrub(claim, material), blanks |-> Blanks(claim, material)]
          /\ UNCHANGED run

-----------------------------------------------------------------------------
(* SEQUENCE_SKELETON: the channel of each touch, the slot of the objection *)
(* it answers (0 for none) and the angle.                                  *)
Skeleton ==
  <<<<"email", 0, 0>>, <<"linkedin", 0, 0>>, <<"phone", 0, 0>>, <<"email", 0, 0>>, <<"linkedin", 0, 0>>,
    <<"phone", 0, 0>>, <<"email", 1, 1>>, <<"linkedin", 0, 0>>, <<"email", 2, 1>>, <<"linkedin", 1, 2>>,
    <<"email", 3, 1>>, <<"linkedin", 2, 2>>, <<"phone", 0, 0>>, <<"linkedin", 3, 2>>, <<"email", 0, 0>>,
    <<"linkedin", 0, 0>>>>
PainSlots == Max({Skeleton[i][2] : i \in DOMAIN Skeleton})

(* The steps the model leaves empty, and those that carry a contact        *)
(* detail in the subject or the body.                                      *)
Answers == {[empty |-> e, subject |-> s, body |-> b] :
              e \in {{}, {9, 11, 12}}, s \in {{}, {2, 7}}, b \in {{}, {10}}}

(* _assemble: a touch without its objection, without words or with a       *)
(* contact detail is dropped; only an email keeps its subject.             *)
Assemble(a) ==
  {i \in DOMAIN Skeleton :
     /\ Skeleton[i][2] \in Ranks(run.measured, PainSlots) \cup {0}
     /\ i \notin a.empty \cup a.body
     /\ ~(Skeleton[i][1] = "email" /\ i \in a.subject)}

(* build_outbound_sequences: one sequence for each of the heaviest         *)
(* archetypes, all of them answered alike here.  They lead with the winner *)
(* if its copy is there.                                                   *)
BuildSequences(a, claim) ==
  LET lead     == {k \in Winner : \E s \in run.copy : s[1] = k}
      material == Material(PainSlots, lead) \cup run.buyers
  IN IF run.measured = 0 \/ run.archetypes = 0 THEN Refuse
     ELSE /\ doc' = [kind |-> "sequences", rows |-> [k \in Ranks(run.measured, PainSlots) |-> k],
                     sequences |-> Ranks(run.archetypes, MaxArchetypes), steps |-> Assemble(a),
                     rivals |-> {}, winner |-> lead,
                     claims |-> Scrub(claim, material), blanks |-> Blanks(claim, material)]
          /\ UNCHANGED run
-----------------------------------------------------------------------------
(* The runs: what was measured and said, and by whom.                      *)
Asked ==
  [measured : {0, 1, 4}, rivals : {{}, {"acme"}}, spoken : {{}, {<<1, {"globex"}>>, <<4, {"initech"}>>}},
   column : {{<<7, "usd">>}, {<<7, "hour">>}}, blob : {{}, {<<8, "usd">>}},
   room : {{}, {<<1, <<9, "usd">>>>, <<4, <<8, "hour">>>>}},
   copy : {{}, {<<"b", <<7, "day">>>>}}, tested : {{}, {"a", "b"}}, winner : {"b"},
   archetypes : {0, 2}, buyers : {{<<9, "day">>}}]
Init == doc = [kind |-> "none"] /\ run \in Asked

Next ==
  /\ doc.kind = "none"
  /\ \/ \E cited \in Cited, cards \in {{}, Rivals}, c \in Claims : BuildAnswerPack(cited, cards, c)
     \/ \E cited \in Cited, sets \in Sets, c \in Claims : BuildMessagingDoc(cited, sets, c)
     \/ \E a \in Answers, c \in Claims : BuildSequences(a, c)

Spec == Init /\ [][Next]_docVars

-----------------------------------------------------------------------------
Built == doc.kind \in {"pack", "messaging", "sequences"}
(* A price in a document is the founder's whenever the founder named one   *)
(* in either summary: what a buyer said it costs, or a count, licenses no  *)
(* price; and a length of time was told as that length by somebody the     *)
(* document was shown.                                                     *)
RoomSetsNoPrice ==
  Built => \A c \in doc.claims :
             /\ c.kind = "money" /\ Priced => c.n \in Numbers(FounderSaid)
             /\ c.kind = "span" => <<c.n, c.unit>> \in run.column \cup Said(run.copy, run.tested)
                                     \cup run.buyers \cup Said(run.room, 1..run.measured)
===============================================================================
