SPECIFICATION Spec
CONSTANTS
  Address = {a1, a2}
  Slot = {k1, k2}
  Word = {zero, w1}
  ZeroHash = zero
  Code = {none}
  EmptyCode = none
  NoEntry = NoEntry
  NoObject = NoObject
  Module = {m1, m2}
  AsmMap <- AnyAsm
  Tx = {t1, t2}
  Ripemd = rip
  DeleteEmpty = TRUE
  Calls <- EffectCalls
  Amount = {1}
  Nonce = {1}
  Gas = {1}
  MaxBalance = 2
  MaxEntries = 3
  MaxRevisions = 2
  MaxTxs = 2
  Genesis <- GenesisNone
INVARIANTS AccessListSound
CONSTRAINT OneEffect
SYMMETRY Alike
PROPERTY RevertRestores
CHECK_DEADLOCK FALSE
