-------------------------------- MODULE Pricing --------------------------------
(***************************************************************************)
(* What a run costs and what it is sold for.  Costs are whole millionths   *)
(* of a dollar, credits are thousandths, rounded up.                       *)
(***************************************************************************)
EXTENDS Naturals, Sequences, FiniteSets

CONSTANTS
  AgentCounts, RoundCounts, VariantCounts,  \* the shapes that are asked about, all within RUN_CAPS
  Balances                                  \* credits an organisation may have left

VARIABLES
  quoted,    \* the last estimate: its shape and its price
  offered    \* largest_affordable_run's answer to it, <<>> if none

pricingVars == <<quoted, offered>>

-----------------------------------------------------------------------------
(* cost_usd, of tokens in and out; the fast model is Haiku, the main one   *)
(* Opus.                                                                   *)
Fast(in, out) == in * 1 + out * 5
Main(in, out) == in * 5 + out * 25

Tokens == [action |-> <<750, 170>>, brief |-> <<375, 12>>, asset |-> <<225, 7>>,
           generation |-> <<1900, 550>>, measurement |-> <<99, 92>>, objections |-> <<14000, 10000>>,
           objectionsAgain |-> <<14000, 16000>>, distillation |-> <<7600, 900>>, section |-> <<7450, 4320>>]
OneOffs == [icp_synthesis |-> <<14000, 4500>>, inoculation_draft |-> <<4500, 5700>>]

(* report_section_count: by how much was measured, then by depth.          *)
Thresholds == <<<<150, 2>>, <<400, 3>>, <<900, 4>>, <<1800, 5>>, <<3500, 6>>>>
Clamp(n) == IF n < 2 THEN 2 ELSE IF n > 7 THEN 7 ELSE n
Sections_Deepest(events, depth) == IF events < 150 THEN 7 ELSE 2   \* mutant: the table upside down
Sections(events, depth) ==
  LET under == {i \in DOMAIN Thresholds : events < Thresholds[i][1]}
      first == CHOOSE i \in under : \A j \in under : i <= j
      n     == IF under = {} THEN 7 ELSE Thresholds[first][2]
  IN Clamp(CASE depth = "brief" -> n - 1 [] depth = "deep" -> n + 1 [] OTHER -> n)

(* _stage_costs: every action carries the brief and the material; agents   *)
(* and the distillation are not paid for twice; nothing depends on the     *)
(* number of platforms.                                                    *)
StageCosts(s) ==
  LET units   == s.agents * s.rounds * s.variants
      perIn   == Tokens.action[1] + (IF s.brief THEN Tokens.brief[1] ELSE 0) + s.assets * Tokens.asset[1]
      perOut  == Tokens.action[2] + (IF s.brief THEN Tokens.brief[2] ELSE 0) + s.assets * Tokens.asset[2]
      objects == IF s.reuse THEN Tokens.objectionsAgain ELSE Tokens.objections
  IN [agent_actions     |-> units * Fast(perIn, perOut),
      agent_generation  |-> (IF s.reuse THEN 0 ELSE s.agents) * Fast(Tokens.generation[1], Tokens.generation[2]),
      event_measurement |-> units * Fast(Tokens.measurement[1], Tokens.measurement[2]),
      objections        |-> Main(objects[1], objects[2]),
      report            |-> (Sections(units, s.depth) + 2) * Main(Tokens.section[1], Tokens.section[2]),
      distillation      |-> IF s.brief /\ ~s.reuse THEN Main(Tokens.distillation[1], Tokens.distillation[2]) ELSE 0]
Actual(s) == LET c == StageCosts(s) IN
  c.agent_actions + c.agent_generation + c.event_measurement + c.objections + c.report + c.distillation
Credits(cost) == (cost + 999) \div 1000   \* credits_for: rounded up
Price(s) == Credits(Actual(s))
OneOffPrice(stage) == Credits(Main(OneOffs[stage][1], OneOffs[stage][2]))

Grant == 2000                                            \* FREE_RUN_GRANT
FreeRun(s) == s.agents <= 30 /\ s.rounds <= 3 /\ s.variants <= 1 /\ s.assets = 0 /\ ~s.reuse   \* FREE_RUN_SHAPE

-----------------------------------------------------------------------------
Shapes ==
  [agents : AgentCounts, rounds : RoundCounts, variants : VariantCounts, brief : BOOLEAN,
   depth : {"brief", "standard", "deep"}, assets : {0}, reuse : {FALSE}]
  \cup [agents : AgentCounts, rounds : RoundCounts, variants : {1}, brief : BOOLEAN,
        depth : {"standard"}, assets : 1..2, reuse : {TRUE}]

Init == quoted = [kind |-> "none"] /\ offered = <<>>
Quote(s) ==
  /\ quoted' = [kind |-> "run", shape |-> s, price |-> Price(s)] /\ offered' = <<>>
QuoteOneOff(stage) ==
  /\ quoted' = [kind |-> stage, price |-> OneOffPrice(stage)] /\ offered' = <<>>

(* largest_affordable_run: variants are given up last and agents first,    *)
(* five at a time; every candidate is priced without a brief.              *)
Candidates(s) ==
  {[s EXCEPT !.agents = s.agents - 5 * k, !.rounds = r, !.variants = v, !.brief = FALSE,
             !.assets = 0, !.reuse = FALSE] :
     k \in 0..((s.agents - 5) \div 5), r \in 1..s.rounds, v \in 1..s.variants}
Larger(a, b) ==
  \/ a.variants > b.variants
  \/ a.variants = b.variants /\ (a.rounds > b.rounds \/ (a.rounds = b.rounds /\ a.agents > b.agents))
Largest(s, balance) ==
  LET fit == {c \in Candidates(s) : Price(c) <= balance} IN
  IF balance = 0 \/ fit = {} THEN <<>>
  ELSE <<CHOOSE c \in fit : \A d \in fit \ {c} : Larger(c, d)>>
(* estimate-cost: a run the balance does not cover comes with the offer.   *)
Offer(s, balance) ==
  /\ Price(s) > balance
  /\ quoted' = [kind |-> "offer", shape |-> s, price |-> Price(s), balance |-> balance]
  /\ offered' = Largest(s, balance)

Next ==
  /\ quoted.kind = "none"
  /\ \/ \E s \in Shapes : Quote(s) \/ \E b \in Balances : ~s.reuse /\ Offer(s, b)
     \/ \E stage \in DOMAIN OneOffs : QuoteOneOff(stage)

Spec == Init /\ [][Next]_pricingVars

-----------------------------------------------------------------------------
(* No bigger, deeper or better briefed run is cheaper, whatever stage its  *)
(* size moves; and "a grant that does not cover one run makes the tier     *)
(* unusable": the first run is covered however it is configured.           *)
MoreCostsMore ==
  quoted.kind = "run" =>
    LET s == quoted.shape IN
    /\ \A t \in {[s EXCEPT !.agents = @ + 1], [s EXCEPT !.rounds = @ + 1], [s EXCEPT !.variants = @ + 1],
                 [s EXCEPT !.brief = TRUE], [s EXCEPT !.assets = @ + 1]} : Price(t) >= quoted.price
    /\ s.depth = "brief" => Price([s EXCEPT !.depth = "standard"]) >= quoted.price
    /\ s.depth = "standard" => Price([s EXCEPT !.depth = "deep"]) >= quoted.price
    /\ FreeRun(s) /\ s.depth = "standard" => quoted.price <= Grant
=============================================================================
