SPECIFICATION HeapsSpec
CONSTANTS
  c1 = c1
  c2 = c2
  Client <- MCClient
  Align = 2
  Header = 4
  MinSize = 4
  Begin = 1
  End = 47
  Sizes = {0, 3, 6}
  Null = Null
INVARIANTS
  HeapDivided
  NoFreeNeighbours
  FreeBlocksIndexed
PROPERTIES
  ImplementsAllocator
