---------------------------- MODULE MeasuredOpinion ----------------------------
(***************************************************************************)
(* What is claimed of a room from the valence of what its people said, and *)
(* which version of a message is called the winner.  People are counted,   *)
(* not posts; a claim needs bands that do not touch.  Numbers are in ten   *)
(* thousandths.                                                            *)
(***************************************************************************)
EXTENDS Integers, Sequences, FiniteSets, SequencesExt, FiniteSetsExt

CONSTANTS
  Voices,      \* people of a room
  Rounds,      \* rounds of a run, at least 1
  MinPaired,   \* _MIN_PAIRED_AGENTS
  MostAlone    \* bound: people who saw one version only

VARIABLES
  room,        \* what each person said in each round, or silence
  crowd,       \* how many converted on both versions, on one, on neither
  claimed,     \* the headline and the flashpoints of the room
  board        \* the scoreboard of the crowd

opinionVars == <<room, crowd, claimed, board>>

One     == 10000
Silence == 2 * One
Valence == {-8000, 2000, 8000}

Abs(x) == IF x < 0 THEN -x ELSE x
Root(k) == FoldLeft(LAMBDA r, b : IF (r + b) * (r + b) <= k THEN r + b ELSE r, 0,
                    <<16384, 8192, 4096, 2048, 1024, 512, 256, 128, 64, 32, 16, 8, 4, 2, 1>>)
Total(S, f(_)) == FoldSet(LAMBDA x, n : n + f(x), 0, S)
Least(x, y) == IF x < y THEN x ELSE y
Most(x, y)  == IF x > y THEN x ELSE y

-----------------------------------------------------------------------------
(* mean_interval: the mean of the people's means with its 95% band; one    *)
(* person says nothing about the rest.                                     *)
Spoken(who, rounds) == {r \in rounds : room[who][r] # Silence}
Heard(rounds) == {who \in Voices : Spoken(who, rounds) # {}}
Mean(who, rounds) == LET said == Spoken(who, rounds) IN
  Total(said, LAMBDA r : room[who][r]) \div Cardinality(said)
Band(mean, half) == [mean |-> mean, lower |-> Most(-One, mean - half), upper |-> Least(One, mean + half)]
Spread(people, rounds, mean) ==
  Total(people, LAMBDA w : (Mean(w, rounds) - mean) * (Mean(w, rounds) - mean)) \div (Cardinality(people) - 1)
Centre(rounds) ==
  LET people == Heard(rounds) IN Total(people, LAMBDA w : Mean(w, rounds)) \div Cardinality(people)
Around(rounds, mean) ==
  LET people == Heard(rounds)
      n      == Cardinality(people)
  IN IF n < 2 THEN Band(mean, 0) ELSE Band(mean, (196 * Root(Spread(people, rounds, mean) \div n)) \div 100)
Interval_NoFloor(rounds) ==   \* mutant: one person is the room
  IF Heard(rounds) = {} THEN Band(0, 0) ELSE Around(rounds, Centre(rounds))
Interval(rounds) ==
  LET n == Cardinality(Heard(rounds)) IN
  IF n = 0 THEN Band(0, 0)
  ELSE IF n = 1 THEN [mean |-> Centre(rounds), lower |-> -One, upper |-> One]
  ELSE Around(rounds, Centre(rounds))

(* _timeline: the rounds in which anything was measured.                   *)
Timeline == {r \in 1..Rounds : Heard({r}) # {}}
At(r) == Interval({r})
Apart(a, b) == b.lower > a.upper \/ b.upper < a.lower
Between(p) == {r \in Timeline : p[1] < r /\ r < p[2]}
Adjacent == {p \in Timeline \X Timeline : p[1] < p[2] /\ Between(p) = {}}

(* _headline: a trend only between a first and a last band that are apart. *)
Ends == {p \in Timeline \X Timeline : p[1] < p[2] /\ Timeline \ Between(p) = {p[1], p[2]}}
Trajectory ==
  IF \E p \in Ends : At(p[2]).lower > At(p[1]).upper THEN "improving"
  ELSE IF \E p \in Ends : At(p[2]).upper < At(p[1]).lower THEN "declining" ELSE "flat"
Opposed ==   \* polarization: the share of posts against the mean's sign
  LET mean  == Interval(1..Rounds).mean
      posts == {p \in Voices \X (1..Rounds) : room[p[1]][p[2]] # Silence}
  IN IF posts = {} THEN 0
     ELSE (100 * Cardinality({p \in posts : (room[p[1]][p[2]] < 0) # (mean < 0)})) \div Cardinality(posts)

(* _flashpoints: a move of 0.15 between two rounds of the timeline.        *)
Flashpoints ==
  {[round |-> p[2], significant |-> Apart(At(p[1]), At(p[2]))] :
     p \in {q \in Adjacent : Abs(At(q[2]).mean - At(q[1]).mean) >= 1500}}

(* _quality: how wide the bands are on average.                            *)
Confidence ==
  LET width == IF Timeline = {} THEN 2 * One
               ELSE Total(Timeline, LAMBDA r : At(r).upper - At(r).lower) \div Cardinality(Timeline)
  IN IF width <= 2500 THEN "high" ELSE IF width <= 5000 THEN "moderate" ELSE "low"

-----------------------------------------------------------------------------
(* build_scoreboard, of two versions.  A crowd counts its people by what   *)
(* they did: alone saw the first version only, and converted on it.        *)
Shared == crowd.both + crowd.first + crowd.second + crowd.neither
Score(v) == [key  |-> v, hits |-> crowd.both + (IF v = "first" THEN crowd.first + crowd.alone ELSE crowd.second),
             n    |-> Shared + (IF v = "first" THEN crowd.alone ELSE 0)]

(* _proportion_interval: nobody of n is a rate of up to 3 in n.            *)
Rate(s) ==
  LET p == IF s.n = 0 THEN 0 ELSE (One * s.hits) \div s.n IN
  IF s.n = 0 THEN Band(0, 0)
  ELSE IF s.hits = 0 THEN [mean |-> 0, lower |-> 0, upper |-> Least(One, (3 * One) \div s.n)]
  ELSE LET half == (196 * Root((p * (One - p)) \div s.n)) \div 100
       IN [mean |-> p, lower |-> Most(0, p - half), upper |-> Least(One, p + half)]
Ranked == IF Rate(Score("second")).mean > Rate(Score("first")).mean
          THEN <<Score("second"), Score("first")>> ELSE <<Score("first"), Score("second")>>

(* _resolve_winner: the best band clears the next.                         *)
Unpaired ==
  IF Ranked[1].n = 0 THEN [winner |-> {}, verdict |-> "unmeasured"]
  ELSE IF Rate(Ranked[1]).lower > Rate(Ranked[2]).upper
  THEN [winner |-> {Ranked[1].key}, verdict |-> "clears"] ELSE [winner |-> {}, verdict |-> "overlap"]

(* _paired_verdict: of those who saw both, the difference between the two, *)
(* and the 95% band of its mean; without any spread no winner at all.      *)
For(key)     == IF key = "first" THEN crowd.first ELSE crowd.second
Ahead        == For(Ranked[1].key) - For(Ranked[2].key)
Discordant   == crowd.first + crowd.second
Separates    == Ahead > 0 /\ 38416 * (Discordant * Shared - Ahead * Ahead) < 10000 * Ahead * Ahead * (Shared - 1)
NoSpread     == Discordant * Shared = Ahead * Ahead
Paired ==
  IF NoSpread THEN [winner |-> {}, verdict |-> "same"]
  ELSE IF Separates THEN [winner |-> {Ranked[1].key}, verdict |-> "leads"]
  ELSE [winner |-> {}, verdict |-> "includes_zero"]
Board == IF Shared < MinPaired THEN Unpaired ELSE Paired

-----------------------------------------------------------------------------
(* A room of one message, or a crowd that met two; neither is both here.   *)
Nothing == [trajectory |-> "none", flash |-> {}, confidence |-> "none", opposed |-> 0]
Crowds == {c \in [both : 0..MinPaired, first : 0..MinPaired, second : 0..MinPaired,
                  neither : 0..MinPaired, alone : 0..MostAlone] :
             c.both + c.first + c.second + c.neither \in {MinPaired - 1, MinPaired}}
Nobody == [both |-> 0, first |-> 0, second |-> 0, neither |-> 0, alone |-> 0]
Init ==
  /\ \/ room \in [Voices -> [1..Rounds -> Valence \cup {Silence}]] /\ crowd = Nobody
     \/ room = [v \in Voices |-> [r \in 1..Rounds |-> Silence]] /\ crowd \in Crowds
  /\ claimed = Nothing /\ board = [winner |-> {}, verdict |-> "none"]

(* build_simulation_analysis, of the room and of the crowd.                *)
BuildHeadline ==
  /\ claimed = Nothing /\ crowd = Nobody
  /\ claimed' = [trajectory |-> Trajectory, flash |-> Flashpoints, confidence |-> Confidence, opposed |-> Opposed]
  /\ UNCHANGED <<room, crowd, board>>
BuildScoreboard == board.verdict = "none" /\ crowd # Nobody /\ board' = Board /\ UNCHANGED <<room, crowd, claimed>>

Next == BuildHeadline \/ BuildScoreboard

Spec == Init /\ [][Next]_opinionVars

-----------------------------------------------------------------------------
(* Nothing is claimed to have moved between two rounds in each of which a  *)
(* single person spoke, however far apart they are.                        *)
NoTrendFromOneVoice ==
  claimed # Nothing /\ (\A r \in 1..Rounds : Cardinality(Heard({r})) <= 1) =>
    claimed.trajectory = "flat" /\ \A f \in claimed.flash : ~f.significant

(* A version that is called the winner in a room of ten that saw both      *)
(* converted at least three people more than the other did.                *)
WinnerConvertsMore ==
  \A w \in board.winner :
    Shared >= MinPaired =>
      LET other == IF w = "first" THEN "second" ELSE "first"
      IN For(w) >= For(other) + 3

(* The headline and the scoreboard claim no more than the room showed.     *)
NothingOverclaimed == NoTrendFromOneVoice /\ WinnerConvertsMore
=============================================================================
