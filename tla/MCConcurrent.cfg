SPECIFICATION Spec
CONSTANTS
  a = a
  b = b
  c = c
  ka = ka
  kb = kb
  rogue = rogue
  junk = junk
  Nil = Nil
  NoKey = NoKey
  NoDoc = NoDoc
  r1 = r1
  r2 = r2
  Instance <- Two
  Request <- TwoRequests
  Streaming = {}
  Key <- Keys
  Decodable <- Base64Keys
  Sealable <- Base64Keys
  GenuineKey <- GenuineKeys
  BALANCED_N = 2
  ROUTE_BAN_S = 1
  PIN_INSTANCE_ID = Nil
  MODE = "enforce"
  ATTEST_TTL_S = 1
  ATTEST_FAIL_TTL_S = 1
  ATTEST_ALLOW_DEBUG_TD = FALSE
  Modes = {"agent"}
  BatchShapes <- ShapesRich
  Evidence <- EvidenceRich
  Scores <- ScoresFlat
  UpstreamStatus = {200, 403}
  NONCE_TTL_S = 1
  MaxBatches = 8
  MaxTime = 2
  MaxPicks = 1
SYMMETRY RequestSymmetry
INVARIANTS NonceSingleUse SealedToGenuineKey AttestationFresh AtMostOneDelivery
PROPERTIES LedgerSpec
