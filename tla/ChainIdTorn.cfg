SPECIFICATION CacheSpec
CONSTANTS
  Callers = {c1, c2}
  ChainIds = {sepolia}
  NoId = NoId
  MaxRestarts = 0
INVARIANTS
  SharedProviderIsSafe
CHECK_DEADLOCK FALSE
