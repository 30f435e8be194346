---------------------------- MODULE MCOrganization ----------------------------
(***************************************************************************)
(* An organization's money and what it buys: run billing, and beside it    *)
(* the prices, the accounts, the ledger of model calls, and what the paid  *)
(* searches, documents and page checks put on the founder's screen.  The   *)
(* parts pass each other rows and share no step, so a behaviour is one of  *)
(* them alone; the parts that are not under way start the same.            *)
(***************************************************************************)
EXTENDS MCRunBilling, Sequences, SequencesExt

CONSTANTS AgentCounts, RoundCounts, VariantCounts, Balances,
          Processes, People, MostOrgs, MostTries, MostHits, MostWaved, MostPaid,
          Threshold, Cap, Retries, MostCalls,
          Attempts, Ceiling, PerAxis, Queries, NamesFound, Fresh, MostTicks, MostMatches,
          MaxRows, MaxObjections, MaxArchetypes, MaxRounds, Target, MostFall, MostUnread

VARIABLES
  part,
  quoted, offered,
  made, asking, buffer, flushAt, stored, lost, late, unknown, context,
  accounts, signed, orgs, at, hits, passed, waved,
  office, searchPlan, tier, searchStage, todo, tries, searched, screen, zeros, art, artifact,
  curationStage, plan, names, ran, failed, down, bank, clock, shortlist,
  run, doc,
  verdict, redone,
  pageStage, source, baseline, draft, rounds, best

prices   == <<quoted, offered>>
people   == <<accounts, signed, orgs, at, hits, passed, waved>>
calls    == <<made, asking, buffer, flushAt, stored, lost, late, unknown, context>>
search   == <<office, searchPlan, tier, searchStage, todo, tries, searched, screen, zeros, art,
              artifact>>
curation == <<curationStage, plan, names, ran, failed, down, bank, clock, shortlist>>
gtm      == <<run, doc>>
graded   == <<verdict, redone>>
page     == <<pageStage, source, baseline, draft, rounds, best>>
all == <<part, vars, prices, people, calls, search, curation, gtm, graded, page>>

-----------------------------------------------------------------------------
(* A model that is unsure and repeats itself, and one that names a mark;   *)
(* records that match, died, belong to a person or answer oddly.           *)
Query(axis, terms) == [axis |-> axis, terms |-> terms]
TwoPlans ==
  {[kind |-> "unsure", marks |-> <<>>, cpc |-> <<"G06">>,
    queries |-> <<Query("FUNCTION", <<"prompt", "filter">>), Query("SIDEWAYS", <<"chat">>),
                  Query("FUNCTION", <<"prompt", "filter">>), Query("STRUCTURE", <<"lattice">>),
                  Query("DOMAIN", <<"chat", "kitchen">>)>>],
   [kind |-> "invention", marks |-> <<"m">>, cpc |-> <<>>,
    queries |-> <<Query("STRUCTURE", <<"prompt">>), Query("FUNCTION", <<"chat">>),
                  Query("FUNCTION", <<"filter">>)>>]}
Filing(id, title, abstract, live, granted, owner, claims) ==
  [id |-> id, title |-> title, abstract |-> abstract, live |-> live, granted |-> granted,
   assignee |-> owner, claims |-> claims, cpc |-> "G06"]
FourFilings ==
  {Filing(1, {"prompt"}, {"filter"}, TRUE, TRUE, "acme", "RED"),
   Filing(2, {"prompt"}, {"filter"}, FALSE, TRUE, "private", "RED"),
   Filing(3, {"prompt"}, {"chat"}, TRUE, FALSE, "private", "odd"),
   Filing(4, {"lattice"}, {"prompt"}, TRUE, FALSE, "acme", "none")}

(* Firms quoted from their own page or somebody else's, word for word or   *)
(* not, with or without a domain, a way in or a personal address.          *)
Item(field, url, verbatim) == [field |-> field, url |-> url, verbatim |-> verbatim]
Thesis == Item("thesis", "own", TRUE)
Paraphrase == Item("thesis", "own", FALSE)
Elsewhere == Item("thesis", "news", TRUE)
Terms == {Item("sectors", "own", TRUE), Item("stages", "own", TRUE), Item("low", "own", TRUE),
          Item("high", "news", FALSE), Item("high", "own", TRUE)}
WayIn == {Item("thesis", "own", TRUE), Item("inbound_kind", "own", TRUE),
          Item("inbound_value", "own", TRUE)}
Firm(name, domain, evidence, way, low, high, personal) ==
  [name |-> name, domain |-> domain, source |-> "own", thesis |-> {"a", "b"}, sectors |-> {"x"},
   stages |-> {"seed"}, low |-> low, high |-> high, inbound |-> way, personal |-> personal,
   role |-> TRUE, evidence |-> evidence]
SomeFirms ==
  {Firm("f1", "f1", e \cup {Thesis}, "firm_address", 2, 4, FALSE) : e \in SUBSET Terms}
  \cup {Firm("f1", "f1", t, "no_inbound", 0, 0, FALSE) : t \in {{Paraphrase}, {Paraphrase, Elsewhere}}}
  \cup {Firm("f2", d, WayIn, way, 7, 2, FALSE) :
          d \in {"f1", "f2", "none"}, way \in {"firm_address", "warm_intro_only"}}
  \cup {Firm("f2", "f2", WayIn \cup Terms, "form", 7, high, personal) :
          high \in {0, 2, 9}, personal \in BOOLEAN}
Founder(material, stage, need, heard) ==
  [material |-> material, sector |-> "x", stage |-> stage, need |-> need, objections |-> heard]
ThreeFounders == {Founder({"a", "b"}, "seed", 3, {}), Founder({"a"}, "none", 1, {{"a", "b"}}),
                  Founder({"a", "b"}, "late", 0, {})}

Prices    == INSTANCE Pricing
Accounting == INSTANCE Accounts
Ledger    == INSTANCE UsageLedger
Searching == INSTANCE ClearanceSearch WITH Plans <- TwoPlans, Filings <- FourFilings,
               plan <- searchPlan, stage <- searchStage, asked <- searched
Curating  == INSTANCE CapitalCuration WITH Proposals <- SomeFirms, Founders <- ThreeFounders,
               stage <- curationStage
Documents == INSTANCE GtmDocuments
Verdicts  == INSTANCE PageVerdicts
Rewriting == INSTANCE PageRewriting WITH stage <- pageStage

-----------------------------------------------------------------------------
(* Runs are alike, and so are the processes that serve sign-ups.           *)
Alike == Permutations(Runs) \cup Permutations(Processes)

(* The same start for a part that is not under way.                        *)
Billed == IF part = "billing" THEN Init /\ Placed
          ELSE proc = [r \in Requests |-> CHOOSE p \in Procs : TRUE] /\ Init
Searched == IF part = "search" THEN Searching!Init
            ELSE office = {} /\ tier = "QUICK" /\ Searching!Init
Documented == IF part = "documents" THEN Documents!Init
              ELSE run = (CHOOSE r \in Documents!Asked : TRUE) /\ Documents!Init

Parts == {"billing", "prices", "people", "calls", "search", "curation", "documents", "verdict",
          "page"}
MCInit ==
  /\ part \in Parts /\ Billed /\ Prices!Init /\ Accounting!Init /\ Ledger!Init /\ Searched
  /\ Curating!Init /\ Documented /\ Verdicts!Init /\ Rewriting!Init

MCNext ==
  /\ UNCHANGED part
  /\ \/ /\ part = "billing" /\ Next
        /\ UNCHANGED <<prices, people, calls, search, curation, gtm, graded, page>>
     \/ /\ part = "prices" /\ Prices!Next
        /\ UNCHANGED <<vars, people, calls, search, curation, gtm, graded, page>>
     \/ /\ part = "people" /\ Accounting!Next
        /\ UNCHANGED <<vars, prices, calls, search, curation, gtm, graded, page>>
     \/ /\ part = "calls" /\ Ledger!Next
        /\ UNCHANGED <<vars, prices, people, search, curation, gtm, graded, page>>
     \/ /\ part = "search" /\ Searching!Next
        /\ UNCHANGED <<vars, prices, people, calls, curation, gtm, graded, page>>
     \/ /\ part = "curation" /\ Curating!Next
        /\ UNCHANGED <<vars, prices, people, calls, search, gtm, graded, page>>
     \/ /\ part = "documents" /\ Documents!Next
        /\ UNCHANGED <<vars, prices, people, calls, search, curation, graded, page>>
     \/ /\ part = "verdict" /\ Verdicts!Next
        /\ UNCHANGED <<vars, prices, people, calls, search, curation, gtm, page>>
     \/ /\ part = "page" /\ Rewriting!Next
        /\ UNCHANGED <<vars, prices, people, calls, search, curation, gtm, graded>>
MCSpec == MCInit /\ [][MCNext]_all

(* What each part promises, under the name its module states it by.        *)
MoreCostsMore == Prices!MoreCostsMore
LimitHolds == Accounting!LimitHolds
RowsAccountedFor == Ledger!RowsAccountedFor
OnlyOwnSessionEnds == Accounting!OnlyOwnSessionEnds
ArtifactHolds == Searching!ArtifactHolds
ShortlistHolds == Curating!ShortlistHolds
RoomSetsNoPrice == Documents!RoomSetsNoPrice
DeletionIsGivenUp == Verdicts!DeletionIsGivenUp
NoRoundWasBetter == Rewriting!NoRoundWasBetter
=============================================================================
