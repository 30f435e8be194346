------------------------------ MODULE PageVerdicts ------------------------------
(***************************************************************************)
(* What three graders that ask no model make of a captured page: what can  *)
(* be counted, a standard of taste, and how the page looks to the crawlers *)
(* that answer questions; and what a rewriting of the page gives up by     *)
(* them.  Counts are kept where a rule draws a line through them.          *)
(***************************************************************************)
EXTENDS Naturals, Sequences, FiniteSets, FiniteSetsExt

CONSTANTS
  MostFall,    \* the fall in a dimension that is still taken for noise
  MostUnread   \* optional steps of one capture that fail

VARIABLES
  verdict,   \* the founder's page: how it was captured, and what was read of it
  redone     \* a rewriting of it, as it was rendered

-----------------------------------------------------------------------------
(* What a browser would read of a page.  The founder's differs from Plain  *)
(* in one feature, or breaks every rule of taste it can with all it needs. *)
Shade(n, layer) == {[id |-> i, layers |-> {layer}] : i \in 1..n}
Group(agents, shuts, opens) == [agents |-> agents, shuts |-> shuts, opens |-> opens]
Crawlers == {"gptbot", "claudebot"}
Plain ==
  [words |-> TRUE, dashes |-> 0, h |-> <<1, 1, 1, 0>>, sections |-> 4, above |-> 0,
   actions |-> 1, names |-> 1, spellings |-> 1, buttons |-> 1, media |-> 1, radii |-> 3,
   families |-> {"own"}, colors |-> {"own"}, shadows |-> Shade(2, "elevation"),
   moving |-> 0, still |-> 0, headline |-> TRUE, jsonld |-> 1, described |-> TRUE,
   address |-> TRUE, images |-> 3, noalt |-> 0, robots |-> <<>>, llms |-> TRUE]
Beige == {"#f5f1ea", "#b08947", "#1a1714"}
Tasteless ==
  [Plain EXCEPT !.families = {"fraunces"}, !.colors = Beige, !.above = 4, !.moving = 4, !.still = 4,
                !.names = 2, !.spellings = 2]
Pages ==
  {Tasteless} \cup {[Plain EXCEPT !.dashes = n] : n \in {0, 7, 12}}
  \cup {[Plain EXCEPT !.words = FALSE, !.dashes = 12]}
  \cup {[Plain EXCEPT !.h = s] : s \in {<<0, 1, 1, 0>>, <<2, 1, 1, 0>>, <<1, 0, 1, 0>>, <<1, 0, 0, 1>>}}
  \cup {[Plain EXCEPT !.above = n, !.sections = m] : n \in {1, 3, 4}, m \in {3, 4, 9}}
  \cup {[Plain EXCEPT !.names = n, !.spellings = n] : n \in {2, 4}} \cup {[Plain EXCEPT !.spellings = 2]}
  \cup {[Plain EXCEPT !.buttons = 0, !.actions = n, !.names = n, !.spellings = n] : n \in 0..1}
  \cup {[Plain EXCEPT !.media = 0]} \cup {[Plain EXCEPT !.radii = n] : n \in {5, 9}}
  \cup {[Plain EXCEPT !.families = s] : s \in {{"own", "fraunces"}, {"a", "b", "c", "d"}}}
  \cup {[Plain EXCEPT !.colors = s] : s \in {Beige, Beige \cup {"e", "f", "g", "h"}}}
  \cup {[Plain EXCEPT !.shadows = s] : s \in {Shade(5, "elevation"), Shade(9, "elevation"),
         Shade(9, "ring"), Shade(9, "nothing"), {[id |-> i, layers |-> {"ring", "elevation"}] : i \in 1..5}}}
  \cup {[Plain EXCEPT !.moving = 4, !.still = n] : n \in {0, 2, 4}}
  \cup {[Plain EXCEPT !.headline = FALSE], [Plain EXCEPT !.jsonld = 0],
        [Plain EXCEPT !.described = FALSE], [Plain EXCEPT !.address = FALSE], [Plain EXCEPT !.llms = FALSE]}
  \cup {[Plain EXCEPT !.noalt = n] : n \in {1, 3}}
  \cup {[Plain EXCEPT !.robots = s] : s \in {<<Group({"*"}, TRUE, FALSE)>>,
         <<Group({"gptbot"}, TRUE, TRUE)>>, <<Group({"other"}, TRUE, FALSE), Group({"gptbot"}, FALSE, FALSE)>>}}
(* A rewriting leaves things out, for better or worse: pictures, its       *)
(* heading, everything there is to press, or all of them.                  *)
Without(p, things) ==
  [p EXCEPT !.media = IF "media" \in things THEN 0 ELSE @, !.h = IF "h1" \in things THEN <<0, 1, 1, 0>> ELSE @,
            !.buttons = IF "action" \in things THEN 0 ELSE @, !.actions = IF "action" \in things THEN 0 ELSE @,
            !.names = IF "action" \in things THEN 0 ELSE @, !.spellings = IF "action" \in things THEN 0 ELSE @]
Rewritings == {Without(p, things) : p \in {Plain, Tasteless}, things \in SUBSET {"media", "h1", "action"}}

(* The steps a capture can do without; a page that was not fetched has no  *)
(* address to ask the last three of.                                       *)
OptionalSteps(k) == {"census", "motion", "headline"} \cup
                    IF k = "check" THEN {"raw_html", "robots", "llms"} ELSE {}
Reads(k) == {S \in SUBSET OptionalSteps(k) : Cardinality(OptionalSteps(k) \ S) <= MostUnread}

-----------------------------------------------------------------------------
(* _normalize_census: the rows, by the names the dossier gives them.       *)
StyleCensus(p) ==
  [fonts |-> p.families, color |-> p.colors, shape |-> [radii |-> p.radii, shadows |-> p.shadows],
   structure |-> [h |-> p.h, buttons |-> p.buttons, media |-> p.media, sections |-> p.sections],
   labels |-> p.above, actions |-> [rows |-> p.actions, names |-> p.names, spellings |-> p.spellings]]
Motion(p, read) ==   \* _motion: undecided on a still page
  [moving |-> p.moving, respects |-> IF p.moving = 0 \/ "motion" \notin read THEN "unknown"
                                     ELSE IF p.still < p.moving THEN "yes" ELSE "no"]

(* _shadow_device: a stack is an elevation when any layer that paints is.  *)
Device(v) ==
  LET paints == v.layers \ {"nothing"} IN
  IF "elevation" \in paints THEN "elevation"
  ELSE IF paints = {} THEN "none" ELSE CHOOSE d \in paints : TRUE

Cost(findings, weight) == FoldSet(LAMBDA f, acc : acc + weight[f[2]], 0, findings)
Floor0(n, m) == IF m > n THEN 0 ELSE n - m
When(cond, what, severity) == IF cond THEN {<<what, severity>>} ELSE {}
Sprawl(what, count, limit) ==
  When(count > limit, what, IF count > limit * 2 THEN "major" ELSE "minor")

EmDash(p) ==
  When(p.words /\ p.dashes > 6, "em-dashes", IF p.dashes < 12 THEN "minor" ELSE "major")
Headings(h) ==
  When(h[1] = 0, "no h1", "major") \cup When(h[1] > 1, "several h1", "minor")
  \cup When(h[3] > 0 /\ h[2] = 0, "no h2", "minor") \cup When(h[4] > 0 /\ h[3] = 0, "no h3", "minor")
Labels(above, sections) ==
  When(sections >= 4 /\ above >= 2 /\ above > (IF sections \div 3 > 1 THEN sections \div 3 ELSE 1),
       "labels", IF above >= sections THEN "major" ELSE "minor")
Actions(a) == When(a.names > 1, "actions", IF a.names >= 4 THEN "major" ELSE "minor")
Elevation(shadows) == Sprawl("shadows", Cardinality({v \in shadows : Device(v) = "elevation"}), 4)

(* measure_page: None without a census unless there are words enough.      *)
Counted(p, read) ==
  LET c == StyleCensus(p) IN
  EmDash(p) \cup
  IF "census" \notin read THEN {} ELSE
    Headings(c.structure.h) \cup Labels(c.labels, c.structure.sections) \cup Actions(c.actions)
    \cup Sprawl("radii", c.shape.radii, 4) \cup Sprawl("families", Cardinality(c.fonts), 3)
    \cup Sprawl("colors", Cardinality(c.color), 6) \cup Elevation(c.shape.shadows)
    \cup When(c.structure.media = 0, "media", "major")
Measured(p, read) ==
  [judged |-> "census" \in read \/ p.words, findings |-> Counted(p, read),
   score |-> Floor0(100, Cost(Counted(p, read), [minor |-> 5, major |-> 12]))]

-----------------------------------------------------------------------------
(* taste.py: every rule looks its evidence up by key; a key the census     *)
(* does not have is an empty map.                                          *)
Under(c, key) == IF key \in DOMAIN c THEN c[key] ELSE {}
BannedFace(c) == "fraunces" \in Under(c, "font_families")
SlopPalette(c) ==
  Cardinality((Under(c, "background_colors") \cup Under(c, "text_colors")) \cap Beige) >= 3
Eyebrows(c) == c.labels > 3 /\ c.labels * 5 >= c.structure.sections * 3
NothingToPress(c) == c.structure.buttons = 0 /\ c.actions.rows = 0
Offences(p, read) ==
  LET c == StyleCensus(p) IN
  IF "census" \notin read THEN {} ELSE
    When(c.structure.media = 0, "requires_an_image", "required")
    \cup When(c.structure.h[1] # 1, "requires_one_h1", "required")
    \cup When(NothingToPress(c), "requires_an_action", "vital")
    \cup When(BannedFace(c), "no_banned_display_face", "major")
    \cup When(SlopPalette(c), "not_the_slop_palette", "major")
    \cup When(Eyebrows(c), "eyebrow_restraint", "minor")
    \cup When(Motion(p, read).respects = "no", "motion_stops_when_asked", "major")
    \cup When(c.actions.spellings > 1, "one_destination_one_label", "major")
OfTaste_NeedsCostAsMuch(p, read) ==   \* mutant: a thing that is missing costs what a lapse costs
  [judged |-> "census" \in read, findings |-> Offences(p, read),
   score |-> Floor0(100, Cost(Offences(p, read), [minor |-> 7, major |-> 18, required |-> 18, vital |-> 34])),
   praised |-> IF "census" \in read /\ Motion(p, read).respects = "yes" THEN {"motion"} ELSE {}]
OfTaste(p, read) ==
  [judged |-> "census" \in read, findings |-> Offences(p, read),
   score |-> Floor0(100, Cost(Offences(p, read), [minor |-> 7, major |-> 18, required |-> 27, vital |-> 51])),
   praised |-> IF "census" \in read /\ Motion(p, read).respects = "yes" THEN {"motion"} ELSE {}]

-----------------------------------------------------------------------------
(* read_machine_signals, from an HTML and a robots.txt that are empty when *)
(* they could not be read.                                                 *)
Blocked(robots) ==
  {c \in Crawlers : \E i \in DOMAIN robots :
     robots[i].shuts /\ ~robots[i].opens /\ {c, "*"} \cap robots[i].agents # {}}
Signals(p, read) ==
  LET raw == "raw_html" \in read IN
  [blocked   |-> IF "robots" \in read THEN Blocked(p.robots) ELSE {},
   headline  |-> IF "headline" \notin read THEN "unknown" ELSE IF raw /\ p.headline THEN "yes" ELSE "no",
   jsonld    |-> IF raw THEN p.jsonld ELSE 0,
   described |-> raw /\ p.described,
   address   |-> raw /\ p.address,
   images    |-> IF raw THEN p.images ELSE 0,
   noalt     |-> IF raw THEN p.noalt ELSE 0,
   llms      |-> IF "llms" \notin read THEN "unknown" ELSE IF p.llms THEN "yes" ELSE "no"]
(* machine_dimension: None only for a capture without signals, which       *)
(* _assemble never makes.                                                  *)
NotFound(s) ==
  When(s.blocked # {}, "blocked", "critical") \cup When(s.headline = "no", "headline", "critical")
  \cup When(s.jsonld = 0, "structured data", "major") \cup When(~s.described, "description", "major")
  \cup When(~s.address, "address", "minor")
  \cup When(s.noalt > 0, "alt text", IF s.noalt * 2 > s.images THEN "major" ELSE "minor")
  \cup When(s.llms = "no", "llms.txt", "minor")
Found(p, read) ==
  LET gone == NotFound(Signals(p, read)) IN
  [judged |-> TRUE, findings |-> gone,
   score |-> Floor0(100, Cost(gone, [minor |-> 7, major |-> 18, critical |-> 34]))]


(* The dimensions of a verdict that ask no model, each left out when there *)
(* was nothing to judge; and those a rewriting gives up (_regressions),    *)
(* against the founder's own page and never against zero.                  *)
Scores(c) ==
  LET graded == [measured |-> Measured(c.page, c.read), standard |-> OfTaste(c.page, c.read),
                 found |-> Found(c.page, c.read)]
  IN  [d \in {d \in DOMAIN graded : graded[d].judged} |-> graded[d].score]
GivenUp(before, after) ==
  {d \in DOMAIN before \cap DOMAIN after : before[d] > after[d] + MostFall}
Regressions == GivenUp(Scores(verdict), Scores(redone))

-----------------------------------------------------------------------------
NotYet == [kind |-> "none", page |-> Plain, read |-> {}]
Init == verdict = NotYet /\ redone = NotYet
(* _assemble: whatever could not be read is empty.                         *)
Assemble(k, p, read) ==
  /\ verdict.kind = "none"
  /\ verdict' = [kind |-> k, page |-> p, read |-> read]
  /\ UNCHANGED redone
(* The loop renders what it wrote with capture_html and compares.          *)
Rerender(p, read) ==
  /\ verdict.kind # "none" /\ redone.kind = "none"
  /\ redone' = [kind |-> "render", page |-> p, read |-> read]
  /\ UNCHANGED verdict
Next ==
  \/ \E k \in {"check", "render"} : \E p \in Pages, read \in Reads(k) : Assemble(k, p, read)
  \/ \E p \in Rewritings, read \in Reads("render") : Rerender(p, read)
Spec == Init /\ [][Next]_<<verdict, redone>>

-----------------------------------------------------------------------------
(* A page cannot be deleted into a better one: a rewriting left without a  *)
(* picture, a heading and anything to press gives the standard up whatever *)
(* else it puts right, as long as the founder's page had more of it to     *)
(* lose than noise; and of a founder's page without a fault no one of the  *)
(* three can be left out (taste.py, _WEIGHT and the half more that a       *)
(* requirement costs; revise.py, DIMENSION_REGRESSION_LIMIT).              *)
DeletionIsGivenUp ==
  redone.kind # "none" /\ "census" \in verdict.read \cap redone.read =>
    LET missing == {f \in Offences(redone.page, redone.read) : f[2] \in {"required", "vital"}}
        before  == Scores(verdict)["standard"]
    IN  (Cardinality(missing) = 3 /\ before > MostFall) \/ (missing # {} /\ before = 100)
          => "standard" \in Regressions

(* What was never fetched is not given up: a rewriting has no server, no   *)
(* address and no robots.txt, and its crawlers' dimension is absent and    *)
(* skipped (found.py, machine_dimension: "`None` when the capture holds no *)
(* machine signals at all"; revise.py, _regressions: "A dimension absent   *)
(* from either side is skipped rather than treated as zero").              *)
FoundIsNotGivenUp == "found" \notin Regressions
=============================================================================
