SPECIFICATION DriveSpec
CONSTANTS
  WordSize = 16
  RA = 3
  V0 = 2
  A0 = 1
  TextStart = 1
  TextEnd = 9
  Exit = {10}
  Output = {1, 4}
  Inputs = {1, 10}
  MaxDiagram = 24
  Reg <- MCReg
  DataAddr <- MCDataAddr
  Result <- MCResult
  Refused <- MCRefused
  InitialData <- MCInitialData
  Setups <- BranchSetups
PROPERTY
  BranchesLead
