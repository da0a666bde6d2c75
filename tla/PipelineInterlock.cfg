SPECIFICATION DiagramSpec
CONSTANTS
  WordSize = 16
  RA = 3
  V0 = 2
  A0 = 1
  TextStart = 1
  TextEnd = 5
  Exit = {10}
  Output = {1, 4}
  Inputs = {1, 10}
  MaxDiagram = 14
  MaxDiaCycles = 10
  Reg <- MCReg
  DataAddr <- MCDataAddr
  Result <- MCResult
  Refused <- MCRefused
  InitialData <- MCInitialData
  Setups <- MCSetups
INVARIANTS
  OperandsReady
  RowsNameInstructions
  RowsInOrder
  RowsAreWhole
  WindowHolds
PROPERTIES
  ThrowIsFinal
