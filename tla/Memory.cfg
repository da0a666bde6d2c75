SPECIFICATION Spec
CONSTANTS
  AddrSize = 32
  WordBytes = 2
  Content = {0, 1}
  Zero = 0
  NoSnapshot = NoSnapshot
  Requests = {0, 2, 5, 30}
  MaxBlocks = 3
  Region <- MCRegion
  Start <- MCStart
  Size <- MCSize
INVARIANTS
  MemoryTypeOK
  BlocksDisjoint
  BlocksInRegion
