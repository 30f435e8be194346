---------------------------- MODULE CapitalCuration ----------------------------
(***************************************************************************)
(* The family-office bank: filled by searching for names and then for each *)
(* name's own site, keeping what a page says word for word, and read when  *)
(* a founder's shortlist is built.  The row and the price of the shortlist *)
(* are module CapitalShortlist.                                            *)
(***************************************************************************)
EXTENDS Naturals, Sequences, FiniteSets, SequencesExt, FiniteSetsExt

CONSTANTS
  Queries,      \* the queries of the first stage
  NamesFound,        \* names a page may yield
  Proposals,    \* what the model may record as a firm
  Founders,     \* the contexts shortlists are built from
  Fresh,        \* DEFAULT_FRESHNESS_DAYS, in ticks
  MostTicks,    \* bound: how long the bank is watched
  MostMatches   \* MAX_MATCHES

VARIABLES
  stage,        \* "names", "sites", then how the pass ended
  plan, names,  \* queries left; names left, each with the templates left for it
  ran, failed, down,   \* queries that ran, failed, and failed because the provider is down
  bank, clock,  \* the records, and the day
  shortlist     \* the last shortlist, and whom it was for

curationVars == <<stage, plan, names, ran, failed, down, bank, clock, shortlist>>

Templates == 2
Urls == {"own", "news"}       \* a page of the firm's site, and somebody else's
Quoted == {"thesis", "sectors", "stages", "low", "high", "inbound_kind", "inbound_value"}
NoList == [for |-> "none", matches |-> <<>>, refusals |-> {}, withheld |-> {}]

-----------------------------------------------------------------------------
(* verify_firms: a field is kept when some page says it, in those words.   *)
Supported(f, urls) ==
  {e.field : e \in {x \in f.evidence : x.field \in Quoted /\ x.url \in urls /\ x.verbatim}}
OnItsSite(f, urls) ==
  f.domain # "none" /\ \E e \in f.evidence : e.field = "thesis" /\ e.url \in urls \cap {"own"}
Kept_Anyway(f, urls, field, value, none) == value   \* mutant: the band is plausible
Kept(f, urls, field, value, none) == IF field \in Supported(f, urls) THEN value ELSE none
(* An inbound position nobody quotes becomes the most conservative one.    *)
Inbound(f, urls) ==
  IF "inbound_kind" \notin Supported(f, urls) THEN "no_inbound"
  ELSE IF f.inbound \in {"warm_intro_only", "no_inbound"} THEN f.inbound
  ELSE IF "inbound_value" \in Supported(f, urls) THEN f.inbound ELSE "no_inbound"
(* The two ends of a firm's range are quoted apart; 0 is no such end.      *)
Low(f, urls)  == Kept(f, urls, "low", f.low, 0)
High(f, urls) == Kept(f, urls, "high", f.high, 0)
(* FamilyOffice: personal data anywhere, a range upside down, or an address *)
(* that is not the firm's refuses the whole record.                        *)
Refused(f, urls) ==
  \/ f.personal
  \/ High(f, urls) > 0 /\ Low(f, urls) > High(f, urls)
  \/ Inbound(f, urls) = "firm_address" /\ ~f.role
Record(f, urls) ==
  [firm |-> f, pages |-> urls, thesis |-> f.thesis,
   sectors |-> Kept(f, urls, "sectors", f.sectors, {}), stages |-> Kept(f, urls, "stages", f.stages, {}),
   low |-> Low(f, urls), high |-> High(f, urls),
   inbound |-> Inbound(f, urls), stale |-> clock + Fresh]
(* A firm is known by its domain; one without is refused anyway.           *)
Verified(f, urls, known) ==
  /\ f.source \in urls /\ f.domain \notin known
  /\ "thesis" \in Supported(f, urls) /\ f.thesis # {} /\ OnItsSite(f, urls) /\ ~Refused(f, urls)

-----------------------------------------------------------------------------
Init ==
  /\ stage = "names" /\ plan = Queries /\ names = <<>> /\ ran = 0 /\ failed = 0 /\ down = 0
  /\ bank = {} /\ clock = 0 /\ shortlist = NoList

Onward == IF Head(names).left > 1 THEN <<[Head(names) EXCEPT !.left = @ - 1]>> \o Tail(names) ELSE Tail(names)
(* A search that cannot be had: the next query, or the next template.      *)
SearchFails ==
  /\ \/ stage = "names" /\ plan > 0 /\ plan' = plan - 1 /\ UNCHANGED names
     \/ stage = "sites" /\ names # <<>> /\ names' = Onward /\ UNCHANGED plan
  /\ failed' = failed + 1 /\ \/ down' = down + 1 \/ UNCHANGED down
  /\ UNCHANGED <<stage, ran, bank, clock, shortlist>>
(* harvest_names: names not seen yet, or an exception and none.            *)
Harvest ==
  /\ stage = "names" /\ plan > 0 /\ plan' = plan - 1 /\ ran' = ran + 1
  /\ \E got \in SUBSET (NamesFound \ {names[i].name : i \in DOMAIN names}) :
       names' = names \o [i \in 1..Cardinality(got) |-> [name |-> SetToSeq(got)[i], left |-> Templates]]
  /\ UNCHANGED <<stage, failed, down, bank, clock, shortlist>>
ToSites ==
  /\ stage = "names" /\ plan = 0 /\ stage' = "sites"
  /\ UNCHANGED <<plan, names, ran, failed, down, bank, clock, shortlist>>
(* propose_firms on what came back, or an exception: at most two firms, of *)
(* this name or others, one to a domain; a name whose site answered needs  *)
(* no second template.                                                     *)
ReadSite ==
  /\ stage = "sites" /\ names # <<>> /\ ran' = ran + 1
  /\ \/ names' = Onward /\ UNCHANGED bank
     \/ \E urls \in SUBSET Urls :
          LET fit == {f \in Proposals : Verified(f, urls, {r.firm.domain : r \in bank})} IN
          \E f, g \in fit :
            /\ f = g \/ f.domain # g.domain
            /\ bank' = bank \cup {Record(f, urls), Record(g, urls)} /\ names' = Tail(names)
  /\ UNCHANGED <<stage, plan, failed, down, clock, shortlist>>
Finish ==
  /\ stage = "sites" /\ names = <<>>
  /\ stage' = IF down > 0 /\ ran = 0 THEN "unavailable" ELSE "done"
  /\ UNCHANGED <<plan, names, ran, failed, down, bank, clock, shortlist>>
Tick == stage = "done" /\ clock < MostTicks /\ clock' = clock + 1
        /\ UNCHANGED <<stage, plan, names, ran, failed, down, bank, shortlist>>

-----------------------------------------------------------------------------
(* Reasons are words both sides used.                                      *)
Bridge(r, c) == \E o \in c.objections : Cardinality(o \cap r.thesis) >= 2
Reasons(r, c) ==
  (IF Cardinality(r.thesis \cap c.material) >= 2 THEN {"thesis"} ELSE {})
  \cup (IF c.sector \in r.sectors THEN {"sector"} ELSE {}) \cup (IF Bridge(r, c) THEN {"bridge"} ELSE {})
StagePosition(r, c) ==
  IF r.stages = {} \/ c.stage = "none" THEN "not_stated" ELSE IF c.stage \in r.stages THEN "match" ELSE "refusal"
CheckPosition(r, c) ==
  IF c.need = 0 \/ (r.low = 0 /\ r.high = 0) THEN "not_stated"
  ELSE IF c.need < r.low \/ (r.high > 0 /\ c.need > r.high) THEN "refusal" ELSE "match"
RuledOut(r, c) == "refusal" \in {StagePosition(r, c), CheckPosition(r, c)}
Matches(r, c) == ~RuledOut(r, c) /\ Reasons(r, c) \cap {"bridge", "thesis"} # {}
Score(r, c) ==
  SumSet({CASE d = "bridge" -> 40 [] d = "thesis" -> 25 [] d = "sector" -> 15
            [] d = "stage" -> 10 [] OTHER -> 5 :
          d \in Reasons(r, c) \cup (IF StagePosition(r, c) = "match" THEN {"stage"} ELSE {})
                \cup (IF CheckPosition(r, c) = "match" THEN {"check"} ELSE {})})
(* matches.sort: by score; the names that order equals are left open.      *)
Ranked(matching, c) ==
  {ranked \in SetToSeqs(matching) :
     \A i, j \in DOMAIN ranked : i < j => Score(ranked[i], c) >= Score(ranked[j], c)}
BuildShortlist(c) ==
  LET fresh == {r \in bank : clock < r.stale} IN
  /\ stage = "done"
  /\ \E ranked \in Ranked({r \in fresh : Matches(r, c)}, c) :
       shortlist' = [for |-> c, withheld |-> bank \ fresh, refusals |-> {r \in fresh : RuledOut(r, c)},
                     matches |-> SubSeq(ranked, 1, Min({MostMatches, Len(ranked)}))]
  /\ UNCHANGED <<stage, plan, names, ran, failed, down, bank, clock>>

Next == SearchFails \/ Harvest \/ ToSites \/ ReadSite \/ Finish \/ Tick \/ \E c \in Founders : BuildShortlist(c)
Spec == Init /\ [][Next]_curationVars

-----------------------------------------------------------------------------
(* A range, a stage or a sector that rules a founder out, or in, was       *)
(* quoted word for word from a page the search returned: never a plausible *)
(* band.                                                                   *)
Claimed(r) ==
  (IF r.sectors # {} THEN {"sectors"} ELSE {}) \cup (IF r.stages # {} THEN {"stages"} ELSE {})
  \cup (IF r.low > 0 THEN {"low"} ELSE {}) \cup (IF r.high > 0 THEN {"high"} ELSE {})
NothingGuessed ==
  \A r \in ToSet(shortlist.matches) \cup shortlist.refusals : \A field \in Claimed(r) :
    \E e \in r.firm.evidence : e.field = field /\ e.verbatim /\ e.url \in r.pages

(* Nobody is sent to a firm that publishes a position against them, no     *)
(* firm is approached twice under two names, and each firm of the bank is  *)
(* offered, ruled out or withheld, never two.                              *)
NeverAgainstItsWord ==
  /\ \A r \in ToSet(shortlist.matches) :
       /\ r.stages = {} \/ shortlist.for.stage \in r.stages \cup {"none"}
       /\ shortlist.for.need = 0
            \/ (r.low <= shortlist.for.need /\ (r.high = 0 \/ shortlist.for.need <= r.high))
  /\ shortlist.refusals \cap (ToSet(shortlist.matches) \cup shortlist.withheld) = {}
  /\ \A r, q \in ToSet(shortlist.matches) : r.firm.domain = q.firm.domain => r = q

(* What the shortlist says of a firm, the firm said.                       *)
ShortlistHolds == NothingGuessed /\ NeverAgainstItsWord
=============================================================================
