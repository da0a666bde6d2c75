SPECIFICATION UserSpec
CONSTANTS
  WordSize = 16
  RA = 3
  V0 = 2
  A0 = 1
  TextStart = 1
  TextEnd = 11
  Exit = {10}
  Output = {1, 4}
  Inputs = {1, 10}
  MaxUnits = 7
  MaxCount = 8
  Garbage = {0}
  CountGarbage <- MCCountGarbage
  CopGarbage = {FALSE, TRUE}
  Fuel = 64
  Reg <- MCReg
  FReg <- MCFReg
  DataAddr <- MCDataAddr
  Result <- MCResult
  Refused <- MCRefused
  InitialData <- MCInitialData
  Delay <- MCDelay
  Counts <- MCCounts
  Setups <- MCSetups
INVARIANTS
  FlexTypeOK
  DestsInFlight
  CountIsBusy
  ServiceAlone
  IntegerResultsAreSequential
  FloatResultsAreSequential
PROPERTY
  RunsToExit

CHECK_DEADLOCK FALSE
