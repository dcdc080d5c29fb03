SPECIFICATION Spec
CONSTANTS
  Articles = {u1}
  RssArticles = {}
  MaxVersion = 1
  MaxAttempts = 2
  Indexes = {i1, i2}
  Budgets <- OneFault
CHECK_DEADLOCK FALSE
INVARIANTS FailureIsIsolated
