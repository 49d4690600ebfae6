SPECIFICATION Spec
CONSTANTS
  Address = {rip, a1}
  Slot = {k1}
  Word = {zero, w1}
  ZeroHash = zero
  Code = {none, c1}
  EmptyCode = none
  NoEntry = NoEntry
  NoObject = NoObject
  Module = {}
  AsmMap <- OneAsm
  Tx = {t1}
  Ripemd = rip
  DeleteEmpty = TRUE
  Calls <- AccountCalls
  Amount = {0, 1}
  Nonce = {1}
  Gas = {}
  MaxBalance = 2
  MaxEntries = 3
  MaxRevisions = 2
  MaxTxs = 1
  Genesis <- GenesisFunded
INVARIANTS TypeOK ChangedIsDirty JournalUndoable
PROPERTY RevertRestores
CHECK_DEADLOCK FALSE
