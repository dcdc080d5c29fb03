SPECIFICATION Spec
CONSTANTS
  Articles = {r1}
  RssArticles = {r1}
  MaxVersion = 1
  MaxAttempts = 1
  MaxGeneration = 1
  MaxFaults = 1
  Deployments <- Steady
CHECK_DEADLOCK FALSE
INVARIANTS AttemptsBounded
