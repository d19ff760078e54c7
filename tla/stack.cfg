SPECIFICATION MCSpec
CONSTANTS
  lib = lib
  tool = tool
  app = app
  other = other
  api = api
  helper = helper
  None = None
  Packages = {lib, tool, app}
  Foreign = {other}
  Names = {api, helper}
  Requirements <- SomeRequirements
  Surveys <- SomeSurveys
  MaxWaves = 3
  Workers = 2
  MaxKills = 1
  StackFaults = {"build", "clean"}
INVARIANTS
  StackTypeOK
  EarlierWavesOnly
  FailureHasCause
  CheckedMeansBuilt
CHECK_DEADLOCK FALSE
