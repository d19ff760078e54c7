SPECIFICATION Spec
CONSTANTS
  lib = lib
  app = app
  tool = tool
  held = held
  main = main
  feature = feature
  latest = latest
  branch = branch
  None = None
  Packages = {lib, app, tool}
  Versions = {v1, v2}
  BuildRequires <- Siblings
  Wave <- LibFirst
  Blocked = {}
  Installed <- AppOnly
  Required <- AppOnly
  Refs = {main}
  Main = main
  Tags = {latest}
  TagOf <- StreamOf
  Faults = {"build", "step", "pull"}
  Asks <- SomeAsks
  Reruns = TRUE
  MaxRequests = 2
SYMMETRY SomeVersions
INVARIANTS
  BuildInputsOrdered
CHECK_DEADLOCK FALSE
