SPECIFICATION Spec
CONSTANTS
  Articles = {1}
  RssArticles = {}
  MaxVersion = 3
  MaxAttempts = 1
  Indexes = {i1, i2, i3}
  FirstIndex = i1
  Legacy = {1}
  Sampled = {}
  SlowInserts = FALSE
  CleansCandidates = FALSE
  CrashSteps <- PairedSteps
  MaxCrashes = 0
  MaxLost = 1
  MaxAbandons = 0
SYMMETRY CandidateSymmetry
CHECK_DEADLOCK FALSE
INVARIANTS ServedOrOwed
