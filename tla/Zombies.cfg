SPECIFICATION Spec
CONSTANTS
  Address = {a1}
  Slot = {}
  Word = {zero}
  ZeroHash = zero
  Code = {none}
  EmptyCode = none
  NoEntry = NoEntry
  NoObject = NoObject
  Module = {}
  AsmMap <- OneAsm
  Tx = {t1}
  Ripemd = rip
  DeleteEmpty = TRUE
  Calls <- ZombieCalls
  Amount = {0, 1}
  Nonce = {1}
  Gas = {}
  MaxBalance = 2
  MaxEntries = 2
  MaxRevisions = 0
  MaxTxs = 4
  Genesis <- GenesisFunded
PROPERTY ZombiesCleanedUp
CHECK_DEADLOCK FALSE
