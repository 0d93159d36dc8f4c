SPECIFICATION FairSpec
CONSTANTS
  r1 = r1
  r2 = r2
  m = m
  u = u
  k1 = k1
  NoEntry = NoEntry
  NoChute = NoChute
  Request <- TwoRequests
  Model <- OneModel
  Uuid <- OneUuid
  Chute <- Chutes
  Lists <- ThreeLists
  MODEL_MAP_TTL_S = 1
  ALLOW_NON_CONFIDENTIAL = FALSE
  MaxClock = 2
INVARIANTS ResolvedAsListed CacheFresh
PROPERTIES EventuallyResolved
