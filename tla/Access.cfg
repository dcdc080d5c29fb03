SPECIFICATION AllSpec
CONSTANTS
  Users = {u1, u2}
  Requests = {r1, r2}
  Commands = {c1, c2}
  SessionTTL = 1
  Retention = 0
  MaxSessions = 1
  MaxTokens = 2
  MaxVersion = 3
  MaxTime = 1
  MaxInFlight = 2
  Names = {a1}
  Peers = {p1, x1}
  Proxies = {x1}
  Logins = {l1, l2}
  AccountLimit = 1
  IPLimit = 2
  AccountWindow = 2
  IPWindow = 3
  BlockDuration = 2
  FailureRetention = 3
  BlockRetention = 1
  MaxLogin = 1
  MaxMinute = 4
SYMMETRY Symmetry
CHECK_DEADLOCK FALSE
INVARIANTS AllTypesOK OneChain FailuresCounted
PROPERTIES DecisionsHold
