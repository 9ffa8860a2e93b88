SPECIFICATION ProviderSpec
CONSTANTS
  Txs <- OnChain
  NodeCodes = {10, 20, 24, 27, 28, 29, 31, 32, 33, 34, 40, 41, 51, 52, 56, 59, 61, 63}
  Callers = {c1, c2, c3}
  ChainIds = {main, sepolia}
  NoId = NoId
  MaxRestarts = 1
INVARIANTS
  TypeOK
  RefusalsKeepTheirMeaning
  ReadingsAgree
  ReadsWhatWasSent
  CacheTypeOK
  SettledCacheIsStable
  LateIdIsWhole
CHECK_DEADLOCK FALSE
