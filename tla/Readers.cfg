SPECIFICATION AllSpec
CONSTANTS
  Articles = {u1}
  RssArticles = {}
  Legacy = {}
  EventIds = {e1, e2, e3}
  MaxVersion = 3
  MaxFaults = 0
  DeliveryLimit = 0
  ListIds = {1, 2}
  ListSorts = {1, 2}
  Clients = {d1}
  ListSize = 1
  MaxChecked = 2
  LatestTTL = 1
  MaxRead = 1
  MaxMinute = 3
  MaxEdits = 2
  MaxScrolls = 2
  HitIds = {1, 2, 3}
  Hits <- ByKeyword
  Near <- ByNearness
  SearchSize = 1
  BatchSize = 1
  MaxCandidates = 2
  BM25Candidates = 2
  KNNCandidates = 2
  KeepAlive = 1
  HybridTTL = 1
  MaxHour = 1
  MaxUpdates = 1
  MaxSearches = 1
  MaxMishaps = 1
  CardIds = {1, 2}
  CardSorts = {1, 2}
  Topic <- OneTopic
  Liked = {1}
  Recalls <- Recalled
  FeedbackKinds = {"read", "dislike"}
  PageSize = 1
  DayLength = 2
  ReadRetention = 0
  DislikeTTL = 1
  PlanTTL = 1
  CursorTTL = 2
  MaxWindow = 2
  MaxChanges = 1
  MaxFeedback = 1
  MaxQueries = 1
SYMMETRY EventSymmetry
CHECK_DEADLOCK FALSE
INVARIANTS TaskReflectsFact ObservedCoversConsumed OneEventPerVersion AllTypesOK LatestWalk NothingWithdrawn SearchWalk PitsAccounted RecommendWalk
PROPERTIES GenerationFences ImplementsTaskConvergence FeedbackHolds
