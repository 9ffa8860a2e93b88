SPECIFICATION Spec
CONSTANTS
  P = 43
  N = 37
  Beta = 5
  Bits = 5
  EcGen <- MCEcGen
  Shift <- MCShift
  Messages <- MCMessages
  PubKeys <- MCPubKeys
  MaxSeed = 2
INVARIANTS
  TypeOK
  SignatureVerifies
  VerifyIsEcdsa
CHECK_DEADLOCK FALSE
