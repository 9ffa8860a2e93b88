SPECIFICATION Spec
CONSTANTS
  Typers = {g1, g2}
  NoFelt = NoFelt
  Zero = Zero
  Torn = Torn
  Mail = Mail
  One = One
  Nil = Nil
  NoNumber = NoNumber
  ChainId = ChainId
  U128 = 4
  U32 = 3
  MaxHashes = 1
  Texts <- MCTexts
  Parsed <- MCParsed
  Definitions <- MCDefinitions
  Domains <- MCDomains
  Txs <- MCTxs
  Variants <- MCVariants
  Invokes <- MCInvokes
  Calls <- MCCalls
  Classes <- MCClasses
  Casms <- MCCasms
INVARIANTS
  TypeOK
  HashIsReference
  SoloHashIsOwn
  HashSeparatesTxs
CHECK_DEADLOCK FALSE
