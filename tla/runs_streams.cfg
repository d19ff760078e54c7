SPECIFICATION Spec
CONSTANTS
  lib = lib
  app = app
  tool = tool
  held = held
  main = main
  feature = feature
  latest = latest
  branch = branch
  None = None
  Packages = {lib, app, held}
  Versions = {v1, v2}
  BuildRequires <- Uses
  Wave <- LibFirst
  Blocked = {held}
  Installed <- AppOnly
  Required <- AppOnly
  Refs = {main, feature}
  Main = main
  Tags = {latest, branch}
  TagOf <- StreamOf
  Faults = {"build", "step"}
  Asks <- SomeAsks
  Reruns = FALSE
  MaxRequests = 3
SYMMETRY SomeVersions
INVARIANTS
  TypeOK
  WitnessFaithful
  TagVerified
PROPERTIES
  KeepsPrevious
  RepoSpec
CHECK_DEADLOCK FALSE
