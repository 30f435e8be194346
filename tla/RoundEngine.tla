------------------------------ MODULE RoundEngine ------------------------------
(***************************************************************************)
(* What an engine does inside the rounds of one run: SimulationLifecycle   *)
(* takes a whole round as one step.  An arena is one platform under one    *)
(* variant of the idea.  Arenas are gathered concurrently and share        *)
(* nothing; inside an arena the agents answer one after the other.  When   *)
(* every arena has finished, the round's events are inserted in chunks and *)
(* each reply is then linked to the row of the post it names.              *)
(***************************************************************************)
EXTENDS PlatformAdapters, Sequences, FiniteSets

CONSTANTS
  Platforms,   \* ids in Adapters the run may be on
  Variants,    \* simulation_variants.variant_key; the default arena is "a"
  Speakers,    \* how many agents each arena has
  EngineRounds,  \* bound: simulations.max_rounds
  ChunkSize,   \* _EVENT_INSERT_CHUNK
  Picked       \* bound: how far down the feed an agent looks

VARIABLES
  stage,    \* "idle", "speak", "write", "link", then how the rounds ended
  platform, \* simulations.platforms
  arenas,   \* the variants whose adapter initialised
  room,     \* each arena's adapter: its posts with their scores, its comments
  turn,     \* the agent whose turn it is in each arena
  said,     \* the events each arena has yielded this round
  round,
  queue,    \* round_events not inserted yet
  rows,     \* simulation_events, in the order of their ids
  index,    \* post_event_ids
  links,    \* the round's parents, each with the rows to point at it
  unlinked, \* history: rows whose link update raised
  made      \* ids the adapters have handed out

vars == <<stage, platform, arenas, room, turn, said, round, queue, rows,
            index, links, unlinked, made>>

Nobody == 0     \* an id that names nothing an event announced
Quiet  == [v \in Variants |-> <<>>]

Init ==
  /\ stage = "idle" /\ platform = "none" /\ arenas = {}
  /\ room = [v \in Variants |-> [posts |-> <<>>, talk |-> <<>>]]
  /\ turn = [v \in Variants |-> 1]
  /\ said = Quiet /\ round = 1 /\ queue = <<>> /\ rows = <<>>
  /\ index = {} /\ links = {} /\ unlinked = {} /\ made = 0

-----------------------------------------------------------------------------
(* load_arenas: the variants, or the default one alone when the lookup     *)
(* raised.  An adapter that does not initialise drops its arena; a run     *)
(* with none is failed.                                                    *)
OpenArenas(p, loaded, up) ==
  /\ stage = "idle"
  /\ loaded \in {Variants, {"a"}} /\ up \subseteq loaded
  /\ platform' = p /\ arenas' = up
  /\ stage' = IF up = {} THEN "failed" ELSE "speak"
  /\ UNCHANGED <<room, turn, said, round, queue, rows, index, links, unlinked, made>>

(* get_feed: what the prompt shows of an arena.                            *)
Ahead(posts, i, j) ==
  CASE Adapters[platform].order = "ranked" ->
         posts[i].score > posts[j].score \/ (posts[i].score = posts[j].score /\ i < j)
    [] Adapters[platform].order = "aged" -> FALSE
    [] OTHER -> i > j
Least(m, n) == IF m < n THEN m ELSE n
Shown(v) ==
  LET posts == IF Adapters[platform].order = "comments" THEN room[v].talk ELSE room[v].posts
      seen  == Least(Picked, Adapters[platform].window)
  IN {posts[i].ref : i \in {j \in DOMAIN posts :
        Cardinality({k \in DOMAIN posts : Ahead(posts, k, j)}) < seen}}

(* One agent's turn: the model's answer is one of the platform's verbs,    *)
(* naming something it was shown or an id of its own invention.            *)
Answer(v, verb, target) ==
  LET does == Adapters[platform].verbs[verb]
      own  == made + 1
      makes == does.event \in {"post", "comment"}
      ref  == IF does.event = "post" THEN own ELSE target
      here == room[v]
  IN /\ stage = "speak" /\ v \in arenas /\ turn[v] <= Speakers
     /\ target \in (IF does.needs = "none" THEN {Nobody} ELSE Shown(v) \cup {Nobody})
     /\ turn' = [turn EXCEPT ![v] = @ + 1]
     /\ made' = IF makes THEN own ELSE made
     /\ room' = [room EXCEPT ![v] =
          [posts |-> LET scored == [i \in DOMAIN here.posts |-> IF here.posts[i].ref = target
                             THEN [here.posts[i] EXCEPT !.score = @ + does.weight]
                             ELSE here.posts[i]]
                     IN IF does.event = "post" /\ does.shown
                        THEN Append(scored, [ref |-> own, score |-> 0]) ELSE scored,
           talk |-> IF does.event = "comment" /\ Adapters[platform].order = "comments"
                    THEN Append(here.talk, [ref |-> own, score |-> 0]) ELSE here.talk]]
     /\ said' = [said EXCEPT ![v] = Append(@, [arena |-> v, event |-> does.event, ref |-> ref])]
  /\ UNCHANGED <<stage, platform, arenas, round, queue, rows, index, links, unlinked>>

(* NOTHING, an answer in no known form, or a reaction outside the          *)
(* platform's vocabulary: no event and no change.                          *)
SayNothing(v) ==
  /\ stage = "speak" /\ v \in arenas /\ turn[v] <= Speakers
  /\ turn' = [turn EXCEPT ![v] = @ + 1]
  /\ UNCHANGED <<stage, platform, arenas, room, said, round, queue, rows, index, links, unlinked, made>>

(* The call for one agent raises: the agents after it lose their turn, and *)
(* what the arena yielded before it is kept.                               *)
ArenaRaises(v) ==
  /\ stage = "speak" /\ v \in arenas /\ turn[v] <= Speakers
  /\ turn' = [turn EXCEPT ![v] = Speakers + 1]
  /\ UNCHANGED <<stage, platform, arenas, room, said, round, queue, rows, index, links, unlinked, made>>

(* The gather returns: round_events is extended by the arenas that yielded *)
(* anything, in their order, a loop that nothing observes before its end.  *)
Extend(v) ==
  /\ queue' = queue \o said[v]
  /\ said' = [said EXCEPT ![v] = <<>>]
Gather ==
  /\ stage = "speak" /\ \A v \in arenas : turn[v] > Speakers
  /\ IF said = Quiet THEN UNCHANGED <<queue, said>>
     ELSE Extend(CHOOSE v \in arenas : said[v] # <<>>)
  /\ stage' = IF said' = Quiet THEN "write" ELSE "speak"
  /\ UNCHANGED <<platform, arenas, room, turn, round, rows, index, links, unlinked, made>>

-----------------------------------------------------------------------------
(* _write_round_events, one chunk: the rows are inserted, posts enter the  *)
(* index, and each reply is noted under the row of the post it names.  A   *)
(* chunk that returned fewer rows than it was given is not paired.         *)
ParentOf(known, e) == {x.row : x \in {y \in known : y.arena = e.arena /\ y.ref = e.ref}}
WriteChunk(paired) ==
  LET n == Least(ChunkSize, Len(queue))
      chunk == SubSeq(queue, 1, n)
      at(i) == Len(rows) + i
      posts == {[arena |-> chunk[i].arena, ref |-> chunk[i].ref, row |-> at(i)] :
                  i \in {j \in 1..n : chunk[j].event = "post"}}
      known(i) == index \cup {x \in posts : x.row < at(i)}
  IN /\ stage = "write" /\ queue # <<>>
     /\ queue' = SubSeq(queue, n + 1, Len(queue))
     /\ rows' = rows \o [i \in 1..n |->
          [arena |-> chunk[i].arena, event |-> chunk[i].event, ref |-> chunk[i].ref,
           round |-> round, parent |-> 0, paired |-> paired]]
     /\ index' = IF paired THEN index \cup posts ELSE index
     /\ links' = IF ~paired THEN links ELSE links \cup
          UNION {{[parent |-> p, child |-> at(i)] : p \in ParentOf(known(i), chunk[i])} :
                   i \in {j \in 1..n : chunk[j].event \in {"comment", "react"}}}
     /\ UNCHANGED <<stage, platform, arenas, room, turn, said, round, unlinked, made>>

(* The insert raises: the run is failed, and the replies of the round that *)
(* were already inserted are never linked.                                 *)
InsertRaises ==
  /\ stage = "write" /\ queue # <<>>
  /\ stage' = "failed"
  /\ unlinked' = unlinked \cup {x.child : x \in links}
  /\ links' = {}
  /\ UNCHANGED <<platform, arenas, room, turn, said, round, queue, rows, index, made>>

RoundStored ==
  /\ stage = "write" /\ queue = <<>>
  /\ stage' = "link"
  /\ UNCHANGED <<platform, arenas, room, turn, said, round, queue, rows, index, links, unlinked, made>>

(* One update per parent; one that raises is logged and the next one made. *)
LinkParent(p, ok) ==
  LET children == {x.child : x \in {y \in links : y.parent = p}} IN
  /\ stage = "link" /\ children # {}
  /\ rows' = [i \in DOMAIN rows |-> IF ok /\ i \in children
                THEN [rows[i] EXCEPT !.parent = p] ELSE rows[i]]
  /\ unlinked' = IF ok THEN unlinked ELSE unlinked \cup children
  /\ links' = {x \in links : x.parent # p}
  /\ UNCHANGED <<stage, platform, arenas, room, turn, said, round, queue, index, made>>

(* The next round, or the end: a run whose inserts returned no row at all  *)
(* is failed, and what an unpaired chunk returned is not known here.       *)
Over == IF \E i \in DOMAIN rows : rows[i].paired THEN {"analyzing"}
        ELSE IF rows = <<>> THEN {"failed"} ELSE {"analyzing", "failed"}
EndRound_Forgets ==   \* mutant: post_event_ids is rebuilt each round
  /\ stage = "link" /\ links = {}
  /\ index' = {}
  /\ round' = round + 1
  /\ turn' = [v \in Variants |-> 1]
  /\ stage' \in IF round < EngineRounds THEN {"speak"} ELSE Over
  /\ UNCHANGED <<platform, arenas, room, said, queue, rows, links, unlinked, made>>
EndRound ==
  /\ stage = "link" /\ links = {}
  /\ round' = round + 1
  /\ turn' = [v \in Variants |-> 1]
  /\ stage' \in IF round < EngineRounds THEN {"speak"} ELSE Over
  /\ UNCHANGED <<platform, arenas, room, said, queue, rows, index, links, unlinked, made>>

Next ==
  \/ \E p \in Platforms, loaded, up \in SUBSET Variants : OpenArenas(p, loaded, up)
  \/ \E v \in arenas : SayNothing(v) \/ ArenaRaises(v)
        \/ \E verb \in DOMAIN Adapters[platform].verbs, target \in 0..made : Answer(v, verb, target)
  \/ Gather \/ RoundStored \/ InsertRaises \/ EndRound
  \/ \E paired \in BOOLEAN : WriteChunk(paired)
  \/ \E p \in DOMAIN rows, ok \in BOOLEAN : LinkParent(p, ok)

Spec == Init /\ [][Next]_vars

-----------------------------------------------------------------------------
(* The propagation graph is what was said: a linked reply points at the    *)
(* stored post it names, in its own arena and no later than itself; and    *)
(* once its round is linked, every reply that names a stored post of its   *)
(* arena is linked, whichever round that post is from, unless the database *)
(* did not return the rows' ids or refused the update.                     *)
Names(r, p) ==
  /\ r.event \in {"comment", "react"} /\ p.event = "post"
  /\ r.arena = p.arena /\ r.ref = p.ref
RepliesHangFromTheirPost ==
  /\ \A i \in DOMAIN rows : rows[i].parent # 0 =>
       rows[i].parent < i /\ Names(rows[i], rows[rows[i].parent])
  /\ \A i, j \in DOMAIN rows :
       /\ Names(rows[i], rows[j]) /\ rows[i].paired /\ rows[j].paired
       /\ i \notin unlinked
       /\ stage \in {"write", "link"} => rows[i].round < round
       => rows[i].parent = j
=============================================================================
