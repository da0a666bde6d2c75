SPECIFICATION Spec
CONSTANTS
  WordSize = 16
  RA = 3
  V0 = 2
  A0 = 1
  TextStart = 1
  TextEnd = 5
  Exit = {10}
  Output = {1, 4}
  Inputs = {1, 10}
  MaxDiagram = 9
  Reg <- MCReg
  DataAddr <- MCDataAddr
  Result <- MCResult
  Refused <- MCRefused
  InitialData <- MCInitialData
  Setups <- MCSetups
INVARIANTS
  TypeOK
  SyscallAlone
  SignalsArrive
CHECK_DEADLOCK FALSE
