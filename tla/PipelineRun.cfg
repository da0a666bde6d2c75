SPECIFICATION RunSpec
CONSTANTS
  WordSize = 16
  RA = 3
  V0 = 2
  A0 = 1
  TextStart = 1
  TextEnd = 11
  Exit = {10}
  Output = {1, 4}
  Inputs = {1, 10}
  MaxDiagram = 80
  Reg <- MCReg
  DataAddr <- MCDataAddr
  Result <- MCResult
  Refused <- MCRefused
  InitialData <- MCInitialData
  Setups <- MCSetups
PROPERTY
  RunsToExit
CHECK_DEADLOCK FALSE
