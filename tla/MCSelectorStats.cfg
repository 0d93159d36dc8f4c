SPECIFICATION Spec
CONSTANTS
  a = a
  b = b
  Nil = Nil
  Instance <- Two
  BALANCED_N = 2
  ROUTE_BAN_S = 1
  PIN_INSTANCE_ID = Nil
  PERF_COLD_START_S = 2
  PERF_EWMA_ALPHA <- Alpha
  SLOW = 10
  FLOAT_MAX = 18
  Samples = {1, 4}
  Batches <- BatchesTwo
  Modes = {"agent", "balanced", "performance"}
  MaxSamples = 2
  MaxTime = 3
  Forgotten = 3
INVARIANTS SlowEpisodeForgotten
PROPERTIES FailurePenalised AgentSticks
