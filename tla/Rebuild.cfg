SPECIFICATION AllSpec
CONSTANTS
  First = j1
  Second = j2
  Articles = {1}
  RssArticles = {}
  MaxVersion = 2
  MaxAttempts = 1
  Indexes = {i1, i2, i3}
  FirstIndex = i1
  Legacy = {1}
  Sampled = {}
  SlowInserts = FALSE
  CleansCandidates = FALSE
  CrashSteps <- PairedSteps
  MaxCrashes = 2
  MaxLost = 0
  MaxAbandons = 0
SYMMETRY CandidateSymmetry
CHECK_DEADLOCK FALSE
INVARIANTS ServedOrOwed CandidateComplete FaultyTypesOK FaultyAliasIsLive
