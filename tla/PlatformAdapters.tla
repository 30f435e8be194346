--------------------------- MODULE PlatformAdapters ---------------------------
(***************************************************************************)
(* The twelve platform adapters, each reduced to what its _decide_action   *)
(* tells apart.  An agent's answer is one verb; a verb makes at most one   *)
(* event, may name a post or a comment, and moves the score its platform   *)
(* ranks by.  Wording, lengths, hash tags and snapshots are left out.      *)
(***************************************************************************)
EXTENDS Naturals, TLC

(* event: the EventType it emits; needs: what the verb must name ("none", a *)
(* "ref", or a ref and a recognised reaction, "verb"); weight: what it adds *)
(* to the score of the post it names; shown: whether a post enters the feed.*)
Says(event, needs, weight) ==
  [event |-> event, needs |-> needs, weight |-> weight, shown |-> TRUE]
Posts == Says("post", "none", 0)

(* order: "ranked" sorts by score, the stable sort keeping older posts     *)
(* first; "aged" divides a score by the age of the post, so any order may  *)
(* come out; "newest" and "latest" are by time, the first newest on top.   *)
(* window: how many of them the prompt shows.                              *)
Adapter(order, window, verbs) == [order |-> order, window |-> window, verbs |-> verbs]

TwitterX == Adapter("ranked", 8,
  "POST" :> Posts @@ "REPLY" :> Says("comment", "ref", 0)
  @@ "LIKE" :> Says("react", "ref", 2) @@ "REPOST" :> Says("react", "ref", 5))

Threads == Adapter("ranked", 8,
  "POST" :> Posts @@ "REPLY" :> Says("comment", "ref", 0)
  @@ "LIKE" :> Says("react", "ref", 2) @@ "REPOST" :> Says("react", "ref", 5))

(* HAHA, WOW and SAD are counted in the breakdown and not in the score; a  *)
(* word that is no reaction makes the whole answer void.                   *)
Facebook == Adapter("ranked", 8,
  "POST" :> Posts @@ "COMMENT" :> Says("comment", "ref", 3)
  @@ "REACT love" :> Says("react", "verb", 2) @@ "REACT haha" :> Says("react", "verb", 0)
  @@ "REACT like" :> Says("react", "verb", 1) @@ "SHARE" :> Says("react", "ref", 5))

(* The engine gives no agent `connections`, so only reactions rank.        *)
LinkedIn == Adapter("ranked", 6,
  "POST" :> Posts @@ "COMMENT" :> Says("comment", "ref", 0)
  @@ "REACT" :> Says("react", "verb", 1))

(* A story is a `post` event of a post no feed ever shows.                 *)
Instagram == Adapter("ranked", 6,
  "POST" :> Posts @@ "STORY" :> [Posts EXCEPT !.shown = FALSE]
  @@ "COMMENT" :> Says("comment", "ref", 3) @@ "LIKE" :> Says("react", "ref", 1))

(* A duet names a post and is a post of its own; nothing raises `shares`.  *)
TikTok == Adapter("ranked", 6,
  "POST" :> Posts @@ "DUET" :> Says("post", "ref", 0)
  @@ "COMMENT" :> Says("comment", "ref", 3) @@ "LIKE" :> Says("react", "ref", 1))

(* A dislike ranks a video up as well.                                     *)
YouTube == Adapter("ranked", 6,
  "POST" :> Posts @@ "COMMENT" :> Says("comment", "ref", 3)
  @@ "LIKE" :> Says("react", "ref", 2) @@ "DISLIKE" :> Says("react", "ref", 1))

Reddit == Adapter("aged", 8,
  "POST" :> Posts @@ "COMMENT" :> Says("comment", "ref", 0)
  @@ "UPVOTE" :> Says("react", "ref", 1) @@ "DOWNVOTE" :> Says("react", "ref", 0))

HackerNews == Adapter("aged", 8,
  "POST" :> Posts @@ "COMMENT" :> Says("comment", "ref", 0)
  @@ "UPVOTE" :> Says("react", "ref", 1) @@ "FLAG" :> Says("react", "ref", 0))

(* A direct message names a user, not a post.                              *)
Discord == Adapter("latest", 8,
  "MSG" :> Posts @@ "REPLY" :> Says("comment", "ref", 0)
  @@ "REACT" :> Says("react", "ref", 0) @@ "DM" :> Says("dm", "none", 0))

(* The engine passes no platform_config: the default algorithm is          *)
(* chronological, and a reaction needs no type.                            *)
Custom == Adapter("newest", 8,
  "POST" :> Posts @@ "COMMENT" :> Says("comment", "ref", 3)
  @@ "REACT" :> Says("react", "ref", 2))

(* The prompt shows the comments; the one post, the article, is made by    *)
(* initialize and no event announces it.                                   *)
NewsComments == Adapter("comments", 10,
  "COMMENT" :> Says("comment", "none", 0) @@ "REPLY" :> Says("comment", "ref", 0)
  @@ "UPVOTE" :> Says("react", "ref", 1))

Adapters == [twitter_x |-> TwitterX, threads |-> Threads, facebook |-> Facebook,
  linkedin |-> LinkedIn, instagram |-> Instagram, tiktok |-> TikTok,
  youtube |-> YouTube, reddit |-> Reddit, hacker_news |-> HackerNews,
  discord |-> Discord, custom |-> Custom, news_comments |-> NewsComments]
=============================================================================
