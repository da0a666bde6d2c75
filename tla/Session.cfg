SPECIFICATION InterfaceSpec
CONSTANTS
  AddrSize = 64
  WordBytes = 2
  Content = {0, 1, 2, 3, 4, 5, 6, 7, 8, 9, 10}
  Zero = 0
  NoSnapshot = NoSnapshot
  NoCpu = NoCpu
  Inputs = {0, 7}
  MaxCycle = 8
  File = {1, 2, 3, 4, 5, 6, 7, 8, 9, 10}
  Region <- MCRegion
  Start <- MCStart
  Size <- MCSize
  Source <- MCSource
INVARIANTS
  InterfaceTypeOK
  ReplayReproduces
  SnapshotsAreOfProgram
  WindowShowsCycle
  ClicksSurvive
  OneConfiguration
CHECK_DEADLOCK FALSE
