SPECIFICATION Spec
CONSTANTS
  g = g
  a1 = a1
  a2 = a2
  b2 = b2
  s = s
  x = x
  y = y
  rg = rg
  ra = ra
  rc = rc
  Node <- Nodes
  Children <- Inside
  StorageRoots <- Storages
  NodeOrder <- InOrder
  Nil = Nil
  Client = {c1, c2}
  Block = {g, a1, a2, b2}
  GenesisBlock = g
  Parent <- Tree
  RootOf <- StateRoots
  BadRoot = rc
  Free = Free
  MaxReorgs = 1
  MaxCancels = 1
  MaxRestarts = 1
  MaxWrites = 1
  Shared = {a2}
SYMMETRY Symmetry
INVARIANTS OpenStateAvailable FoundMeansComplete FlushListIntact ParentsCounted ReferencesCounted RecreatedIsTarget
PROPERTY RequestsAdvance
