SPECIFICATION FairEnvSpec
CONSTANTS
  MaxLen = 2
  UINT_MAX = 255
  RequestSizes = {1, 40, 190, 191, 192}
  AnswerSizes = {0, 1, 150, 230, 231, 254, 255, 256, 257}
  ChunkSizes = {0, 1, 63, 64, 130}
INVARIANTS UsedOnlyFilled ExactBothWays ErrorHasCause NothingLeftBehind AllFreed
PROPERTIES ExchangeEnds
