SPECIFICATION MCSpec
CONSTANTS
  Prepares = {p1, p2}
  Starts = {s1, s2}
  Stops = {}
  Procs = {a}
  Batches = 2
  MaxRounds = 2
  MaxRestarts = 1
  Overrun = FALSE
  Platforms = {"twitter_x", "facebook", "linkedin", "instagram", "tiktok",
    "youtube", "reddit", "discord", "custom", "news_comments"}
  Variants = {"a", "b"}
  Speakers = 1
  EngineRounds = 2
  ChunkSize = 1
  Picked = 1
  Uploads = 2
  Fundable = 1
  Segments = {"a", "b"}
  PackNames <- Startup
  Builtin <- Startup
  Syntheses = {1}
  Price = 1
  Credit = 1
  MostSeats = 7
  MostParts = 4
  ShareUnits = 3
  MostRuns = 2
  MostAssets = 1
  MostEdits = 1
  PlanVariants = 2
  Objections = {o1}
  Stages = {"two_week"}
  Said <- TwoSpeakers
  Priors <- PriceRaised
  MostShown = 2
  Chunk = 1
  MostRebuilds = 1
  Voices = {1, 2, 3}
  Rounds = 2
  MinPaired = 10
  MostAlone = 1
INVARIANTS WorkerOwnsRow RepliesHangFromTheirPost PacksHold DealtFairly
  BeforeIsKept EachPhrasingOnce NothingOverclaimed
PROPERTIES FinishedStaysFinished SweepSparesTheLiving
CHECK_DEADLOCK FALSE
