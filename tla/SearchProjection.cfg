SPECIFICATION FairSpec
CONSTANTS
  Articles = {u1}
  RssArticles = {}
  MaxVersion = 2
  MaxAttempts = 2
  Indexes = {i1, i2}
  Budgets <- VersionsOrFaulty
CHECK_DEADLOCK FALSE
INVARIANTS TypeOK SucceededIsCurrent
PROPERTIES IndexNeverRegresses SuccessIsFinal SlotSettles
