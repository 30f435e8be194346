----------------------------- MODULE MCSimulation -----------------------------
(***************************************************************************)
(* One simulation from its claims to what is read off it: the lifecycle of *)
(* its row, and beside it the audience and the seats it is prepared with,  *)
(* the rounds, their measurement and analysis, the opinion drawn from them *)
(* and the simulations derived from it.  The parts pass each other rows    *)
(* and share no step, so a behaviour is one of them alone.                 *)
(***************************************************************************)
EXTENDS SimulationLifecycle

CONSTANTS Platforms, Variants, Speakers, EngineRounds, ChunkSize, Picked,
          Uploads, Fundable, Segments, PackNames, Builtin, Syntheses, Price, Credit,
          MostSeats, MostParts, ShareUnits,
          MostRuns, MostAssets, MostEdits, PlanVariants, Objections, Stages,
          Said, Priors, MostShown, Chunk, MostRebuilds, Voices, Rounds, MinPaired, MostAlone

VARIABLES
  part,
  stage, platform, arenas, room, turn, said, engineRound, queue, events, index, links,
  unlinked, made,
  docs, at, bag, answer, profiles, library, custom, purse,
  casting,
  runs, assets, gone, results, drafting, asked,
  measured, builder, taken, found, objections, artifact, rebuilds,
  heard, crowd, claimed, board

engine   == <<stage, platform, arenas, room, turn, said, engineRound, queue, events, index, links,
              unlinked, made>>
audience == <<docs, at, bag, answer, profiles, library, custom, purse>>
resim    == <<runs, assets, gone, results, drafting, asked>>
analysis == <<measured, builder, taken, found, objections, artifact, rebuilds>>
opinion  == <<heard, crowd, claimed, board>>
all == <<part, vars, engine, audience, casting, resim, analysis, opinion>>

(* For a run: a built-in pack a founder's own may be named like; two       *)
(* people who share a complaint under different words and one who says     *)
(* nothing; a parent whose key one of the groups may ask for.              *)
Startup == {<<"startup">>}
Event(agent, cohort, against, n, phrasings, strength) ==
  [agent |-> agent, cohort |-> cohort, against |-> against, round |-> n,
   phrasings |-> phrasings, strength |-> strength, words |-> phrasings # {}]
TwoSpeakers == {Event("a", "x", FALSE, 2, {"dear", "slow"}, 5),
                Event("b", "x", TRUE, 1, {"dear", "costs"}, 9), Event("c", "y", TRUE, 2, {}, 0)}
PriceRaised == {<<"price", 1>>}

Engines == INSTANCE RoundEngine WITH round <- engineRound, rows <- events
Synth == INSTANCE AudienceSynthesis WITH Names <- PackNames, pc <- at
Cast  == INSTANCE RoomCasting
Resim == INSTANCE Resimulation
Ana   == INSTANCE RunAnalysis WITH rows <- objections
Opinions == INSTANCE MeasuredOpinion WITH room <- heard

(* What was said was said by buyers or by people built to argue, nobody    *)
(* both; a parent's keys are labels with a number.                         *)
ASSUME SaidAssumption ==
  /\ IsFiniteSet(Said)
  /\ \A e \in Said : /\ e.strength \in Nat /\ e.round \in Nat /\ e.against \in BOOLEAN
                     /\ IsFiniteSet(e.phrasings)
  /\ \A e, f \in Said : e.agent = f.agent => e.against = f.against
  /\ Priors \subseteq Ana!Labels \X Nat
ASSUME NamesAssumption == IsFiniteSet(PackNames) /\ Builtin \subseteq PackNames

-----------------------------------------------------------------------------
Parts == {"lifecycle", "engine", "audience", "casting", "resimulation", "analysis", "opinion"}
MCInit ==
  /\ part \in Parts /\ Init /\ Engines!Init /\ Synth!Init /\ Cast!Init /\ Resim!Init
  /\ Ana!Init /\ Opinions!Init
  /\ part # "opinion" =>
       crowd = Opinions!Nobody /\ \A v \in Voices, r \in 1..Rounds : heard[v][r] = Opinions!Silence

MCNext ==
  \/ /\ part = "lifecycle" /\ Next
     /\ UNCHANGED <<part, engine, audience, casting, resim, analysis, opinion>>
  \/ /\ part = "engine" /\ Engines!Next
     /\ UNCHANGED <<part, vars, audience, casting, resim, analysis, opinion>>
  \/ /\ part = "audience" /\ Synth!Next
     /\ UNCHANGED <<part, vars, engine, casting, resim, analysis, opinion>>
  \/ /\ part = "casting" /\ Cast!Next
     /\ UNCHANGED <<part, vars, engine, audience, resim, analysis, opinion>>
  \/ /\ part = "resimulation" /\ Resim!Next
     /\ UNCHANGED <<part, vars, engine, audience, casting, analysis, opinion>>
  \/ /\ part = "analysis" /\ Ana!Next
     /\ UNCHANGED <<part, vars, engine, audience, casting, resim, opinion>>
  \/ /\ part = "opinion" /\ Opinions!Next
     /\ UNCHANGED <<part, vars, engine, audience, casting, resim, analysis>>
MCSpec == MCInit /\ [][MCNext]_all

(* What each part promises, under the name its module states it by.        *)
RepliesHangFromTheirPost == Engines!RepliesHangFromTheirPost
PacksHold == Synth!PacksHold
DealtFairly == Cast!DealtFairly
BeforeIsKept == Resim!BeforeIsKept
NothingOverclaimed == Opinions!NothingOverclaimed
EachPhrasingOnce == Ana!EachPhrasingOnce
=============================================================================
