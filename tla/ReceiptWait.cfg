SPECIFICATION FairSpec
CONSTANTS
  Waiters = {w1}
  Txs = {t1}
  NoTx = NoTx
  MaxBlock = 3
INVARIANTS
  TypeOK
  ReceiptWasTrueDuringWait
  NoPanic
  NotFoundIsNotTheEnd
PROPERTIES
  CancelledWaitReturns
  AcceptedTxIsReported
  KeepsPromise
CHECK_DEADLOCK FALSE
