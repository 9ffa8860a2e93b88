SPECIFICATION Spec
CONSTANTS
  Txs <- OnChain
  NodeCodes = {24}
INVARIANTS
  SyncingIsReported
