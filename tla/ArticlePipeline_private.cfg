SPECIFICATION Spec
CONSTANTS
  Articles = {r1}
  RssArticles = {r1}
  Legacy = {}
  EventIds = {e1, e2, e3}
  MaxVersion = 3
  MaxFaults = 0
  DeliveryLimit = 0
CHECK_DEADLOCK FALSE
PROPERTIES PrivateEditIsSilent
