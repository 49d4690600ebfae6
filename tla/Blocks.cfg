SPECIFICATION Spec
CONSTANTS
  Address = {a1}
  Slot = {k1}
  Word = {zero, w1}
  ZeroHash = zero
  Code = {none}
  EmptyCode = none
  NoEntry = NoEntry
  NoObject = NoObject
  Module = {}
  AsmMap <- OneAsm
  Tx = {t1}
  Ripemd = rip
  DeleteEmpty = TRUE
  Calls <- BlockCalls
  Amount = {0, 1}
  Nonce = {1}
  Gas = {}
  MaxBalance = 1
  MaxEntries = 2
  MaxRevisions = 1
  MaxTxs = 3
  Genesis <- GenesisStorage
INVARIANTS UpdatedAccountsLive DeltaTracksSupply
PROPERTIES CommitPersistsView UpdateIsReversible
CHECK_DEADLOCK FALSE
