SPECIFICATION AllSpec
CONSTANTS
  Articles = {u1}
  RssArticles = {}
  Legacy = {}
  EventIds = {e1}
  MaxVersion = 1
  MaxFaults = 3
  DeliveryLimit = 1
  Sources = {s1}
  Keys = {k1}
  DegradeAt = 2
  MaxClaims = 3
  MaxWrites = 2
  MaxBreaks = 1
  Hosts = {"a", "b"}
  Documents <- Served
  MaxRedirects = 2
  MaxItems = 3
  MaxFetches = 2
  Images = {a1, a2}
  Drafts = {t1}
  Quota = 1
  PendingLimit = 2
  MaxImages = 1
  MaxEdits = 2
  MaxConfirms = 2
  MaxFailures = 1
CHECK_DEADLOCK FALSE
INVARIANTS ImagesStay
