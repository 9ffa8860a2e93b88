SPECIFICATION Spec
CONSTANTS
  Waiters = {w1}
  Txs = {t1}
  NoTx = NoTx
  MaxBlock = 1
INVARIANTS
  HealthyWaitEndsWithReceipt
CHECK_DEADLOCK FALSE
