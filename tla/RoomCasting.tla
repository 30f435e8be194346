------------------------------ MODULE RoomCasting ------------------------------
(***************************************************************************)
(* The arithmetic of who is in the room: how a bucket's characters are     *)
(* shared by its sources, how the swarm is apportioned over the archetypes *)
(* of a pack, and how the adversaries are dealt over the buyer segments.   *)
(* Quotas are kept over a common denominator: float error is left out.     *)
(***************************************************************************)
EXTENDS Naturals, Sequences, FiniteSets, SequencesExt

CONSTANTS
  MostSeats,  \* bound: agents, characters or adversaries
  MostParts,  \* bound: archetypes, sources or segments
  ShareUnits  \* bound: adversarial_share is a multiple of 1 / ShareUnits

VARIABLES casting   \* the last computation: its kind, what it was asked and gave

castVars == <<casting>>

Total(s) == FoldSeq(LAMBDA x, acc : x + acc, 0, s)
Of(w, S) == [i \in DOMAIN w |-> IF i \in S THEN w[i] ELSE 0]
Positive(w) == {i \in DOMAIN w : w[i] > 0}
Ranked(S, Before(_, _)) == CHOOSE s \in [1..Cardinality(S) -> S] :
  \A i, j \in 1..Cardinality(S) : i < j => s[i] # s[j] /\ Before(s[i], s[j])

-----------------------------------------------------------------------------
(* _fair_share: everyone who wants no more than an equal share gets it and *)
(* leaves; when nobody does, each gets that share and the rest is unused.  *)
(* A pass that is not the last lets somebody leave.                        *)
Pass(wants, s) ==
  LET share   == IF s.wanting = {} THEN 0 ELSE s.left \div Cardinality(s.wanting)
      content == {i \in s.wanting : wants[i] <= share}
      gets(who, what(_)) == [i \in DOMAIN wants |-> IF i \in who THEN what(i) ELSE s.got[i]]
  IN IF share = 0 THEN [s EXCEPT !.wanting = {}]
     ELSE IF content = {}
     THEN [got |-> gets(s.wanting, LAMBDA i : share), wanting |-> {}, left |-> s.left]
     ELSE [got |-> gets(content, LAMBDA i : wants[i]), wanting |-> s.wanting \ content,
           left |-> s.left - Total(Of(wants, content))]
FairShare_FirstCome(wants, budget) ==   \* mutant: raced, not shared
  [i \in DOMAIN wants |->
     LET used == Total(SubSeq(wants, 1, i - 1)) IN
     IF used >= budget THEN 0 ELSE IF wants[i] < budget - used THEN wants[i] ELSE budget - used]
FairShare(wants, budget) ==
  LET after[n \in 0..Len(wants)] ==
        IF n = 0 THEN [got |-> [i \in DOMAIN wants |-> 0], wanting |-> Positive(wants), left |-> budget]
        ELSE Pass(wants, after[n - 1])
  IN after[Len(wants)].got

(* apportion: the floors of the quotas, the seats left over to the largest *)
(* remainders, and a seat from the largest count for every archetype of    *)
(* positive weight that has none.                                          *)
Seated(w, seats) ==
  LET even  == Positive(w) = {}
      part  == IF even THEN [i \in DOMAIN w |-> 1] ELSE w
      whole == Total(part)
      floor == [i \in DOMAIN w |-> (part[i] * seats) \div whole]
      rest  == [i \in DOMAIN w |-> (part[i] * seats) % whole]
      order == Ranked(DOMAIN w, LAMBDA i, j :
                 \/ rest[i] > rest[j]
                 \/ rest[i] = rest[j] /\ (part[i] > part[j] \/ (part[i] = part[j] /\ i < j)))
      extra == {order[k] : k \in 1..(seats - Total(floor))}
  IN [i \in DOMAIN w |-> floor[i] + IF i \in extra THEN 1 ELSE 0]
TakeSeat(counts, i) ==
  LET donors == {j \in DOMAIN counts : counts[j] > 1}
      donor  == CHOOSE j \in donors : \A k \in donors \ {j} :
                  counts[j] > counts[k] \/ (counts[j] = counts[k] /\ j < k)
  IN IF donors = {} THEN counts ELSE [counts EXCEPT ![donor] = @ - 1, ![i] = 1]
Apportion(w, seats) ==
  LET counts  == Seated(w, seats)
      some    == IF Positive(w) = {} THEN DOMAIN w ELSE Positive(w)
      starved == {i \in some : counts[i] = 0}
      order   == Ranked(starved, LAMBDA i, j : w[i] > w[j] \/ (w[i] = w[j] /\ i < j))
  IN IF seats = 0 THEN [i \in DOMAIN w |-> 0] ELSE FoldLeft(TakeSeat, counts, order)

(* rebalance_adversarial, over a common denominator: buyers keep what the  *)
(* adversaries' share leaves; at share 0 an adversary weighs a 10,000th of *)
(* a whole pack.                                                           *)
Rebalance(buyers, adversaries, share) ==
  LET b == Total(buyers)  a == Total(adversaries) IN
  IF adversaries = <<>> \/ buyers = <<>> THEN buyers \o adversaries
  ELSE IF share = 0
    THEN [i \in DOMAIN buyers |-> buyers[i] * 10000] \o [i \in DOMAIN adversaries |-> b]
    ELSE [i \in DOMAIN buyers |-> buyers[i] * a * (ShareUnits - share)]
         \o [i \in DOMAIN adversaries |-> adversaries[i] * b * share]

(* compile_packs: the cohort is dealt round and round, the same number to  *)
(* every segment.                                                          *)
PerPack(cohort, segments) == (cohort + segments - 1) \div segments
Deal(cohort, segments) ==
  LET each == PerPack(cohort, segments) IN
  [s \in 1..segments |-> {1 + (((s - 1) * each + k) % cohort) : k \in 0..(each - 1)}]

-----------------------------------------------------------------------------
Weights == UNION {[1..n -> 0..3] : n \in 1..MostParts}
SomeBuyers == UNION {[1..n -> 1..3] : n \in 1..2}
Init == casting = [kind |-> "none"]
ShareBudget == \E w \in Weights, b \in 0..MostSeats :
  casting' = [kind |-> "share", asked |-> w, total |-> b, got |-> FairShare(w, b)]
SeatSwarm == \E w \in Weights, n \in 0..MostSeats :
  casting' = [kind |-> "seat", asked |-> w, total |-> n, got |-> Apportion(w, n)]
SeatPack == \E b \in SomeBuyers, a \in SomeBuyers, share \in 0..(ShareUnits - 1), n \in 1..MostSeats :
  casting' = [kind |-> "pack", asked |-> Rebalance(b, a, share), total |-> n,
              got |-> Apportion(Rebalance(b, a, share), n), buyers |-> Len(b), share |-> share]
DealCohort == \E c \in 1..MostSeats, n \in 1..MostParts :
  casting' = [kind |-> "deal", total |-> c, got |-> Deal(c, n)]
Next == casting.kind = "none" /\ (ShareBudget \/ SeatSwarm \/ SeatPack \/ DealCohort)
Spec == Init /\ [][Next]_castVars

-----------------------------------------------------------------------------
(* "A billing invariant": the swarm that was paid for is the swarm that is *)
(* seated, nobody of weight is missing when there are seats for all, and a *)
(* heavier archetype never has two seats fewer than a lighter one.         *)
EverySeatFilled ==
  casting.kind \in {"seat", "pack"} =>
    LET w == casting.asked  got == casting.got  n == casting.total IN
    /\ Total(got) = n
    /\ n >= Cardinality(Positive(w)) => \A i \in Positive(w) : got[i] > 0
    /\ \A i, j \in DOMAIN w : w[i] > w[j] => got[i] + 1 >= got[j]

(* The budget is shared, not raced: nobody gets more than it wants, what   *)
(* is left over could not be split, and one that was cut got as much as    *)
(* anybody did.                                                            *)
NoSourceStarved ==
  casting.kind = "share" =>
    LET w == casting.asked  got == casting.got
        cut == {i \in DOMAIN w : got[i] < w[i]} IN
    /\ \A i \in DOMAIN w : got[i] <= w[i]
    /\ Total(got) <= casting.total
    /\ cut # {} => casting.total - Total(got) < Cardinality(cut)
    /\ \A i \in cut, j \in DOMAIN w : got[j] <= got[i]

(* Every segment faces adversaries, every adversary faces a segment, and   *)
(* none is met twice more often than another.                              *)
CohortReachesAll ==
  casting.kind = "deal" =>
    LET met(c) == Cardinality({s \in DOMAIN casting.got : c \in casting.got[s]}) IN
    /\ \A s \in DOMAIN casting.got : casting.got[s] # {}
    /\ \A c, d \in 1..casting.total : met(c) > 0 /\ met(c) <= met(d) + 1

(* Every split of the room or of its reading is a fair one.                *)
DealtFairly == EverySeatFilled /\ NoSourceStarved /\ CohortReachesAll
=============================================================================
