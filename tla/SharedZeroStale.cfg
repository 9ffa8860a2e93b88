SPECIFICATION Spec
CONSTANTS
  Typers = {g1}
  NoFelt = NoFelt
  Zero = Zero
  Torn = Torn
  Mail = Mail
  One = One
  Nil = Nil
  NoNumber = NoNumber
  ChainId = ChainId
  U128 = 4
  U32 = 3
  MaxHashes = 2
  Texts <- MCTexts
  Parsed <- MCParsed
  Definitions <- MCDefinitions
  Domains <- MCDomains
  Txs <- MCTxs
  Variants <- MCVariants
  Invokes <- MCInvokes
  Calls <- MCCalls
  Classes <- MCClasses
  Casms <- MCCasms
INVARIANTS
  HashIsFunctionOfTx
CHECK_DEADLOCK FALSE
