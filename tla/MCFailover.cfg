SPECIFICATION FairSpec
CONSTANTS
  a = a
  b = b
  c = c
  ka = ka
  kb = kb
  rogue = rogue
  junk = junk
  Nil = Nil
  NoKey = NoKey
  NoDoc = NoDoc
  r1 = r1
  r2 = r2
  Instance <- Two
  Request <- TwoRequests
  Streaming <- OneRequest
  Key <- Keys
  Decodable <- Base64Keys
  Sealable <- Base64Keys
  GenuineKey <- GenuineKeys
  BALANCED_N = 2
  ROUTE_BAN_S = 1
  PIN_INSTANCE_ID = Nil
  MODE = "enforce"
  ATTEST_TTL_S = 1
  ATTEST_FAIL_TTL_S = 1
  ATTEST_ALLOW_DEBUG_TD = FALSE
  Modes = {"agent"}
  BatchShapes <- ShapesOne
  Evidence <- EvidenceSmall
  Scores <- ScoresFlat
  UpstreamStatus = {200, 403, 404, 500}
  NONCE_TTL_S = 1
  MaxBatches = 8
  MaxTime = 1
  MaxPicks = 2
PROPERTIES EventuallyAnswered
