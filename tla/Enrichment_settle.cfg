SPECIFICATION FairSpec
CONSTANTS
  Articles = {r1}
  RssArticles = {r1}
  MaxVersion = 2
  MaxAttempts = 2
  MaxGeneration = 1
  MaxFaults = 1
  Deployments <- Upgrades
CHECK_DEADLOCK FALSE
INVARIANTS TypeOK SucceededIsComplete RepairOnce
PROPERTIES SelectionNeverRegresses TaskSettles
