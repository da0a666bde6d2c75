SPECIFICATION Spec
CONSTANTS
  AddrSize = 131072
  WordBytes = 4
  Content <- MCContent
  Zero <- MCZero
  NoSnapshot = NoSnapshot
  MaxLines = 6
  Region <- MCRegion
  Start <- MCStart
  Size <- MCSize
  LineAt <- MCLineAt
  Rest <- MCRest
  Digits <- MCDigits
INVARIANTS
  AssemblerTypeOK
  TargetsAreLabels
  WordsDecode
  AddressesReachData
  AllocatesWhereItWrites
CHECK_DEADLOCK FALSE
