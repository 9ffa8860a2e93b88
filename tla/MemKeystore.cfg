SPECIFICATION FairSpec
CONSTANTS
  Clients = {g1, g2, g3}
  Senders = {s1}
  Keys = {k1, k2}
  Messages = {m1, m2, m3}
  Unhashable = {m2}
  Unsignable = {m3}
  NoKey = NoKey
  NoRequest = NoRequest
  Free = Free
INVARIANTS
  TypeOK
  MapIsNotRaced
  SignatureIsCurrent
PROPERTIES
  EveryCallReturns
  KeepsPromise
CHECK_DEADLOCK FALSE
