SPECIFICATION SpecSlices
CONSTANTS
  NumPackages = 3
  Requirements = {1, 2, 3, 4}
  MaxWaves = 2
INVARIANTS
  TypeOK
  RequirementsBuiltEarlier
  CycleErrorExact
  AcyclicGraphKept
  NoIdleWave
  StackIsLeastClosure
PROPERTIES
  Terminates
CHECK_DEADLOCK FALSE
