SPECIFICATION FairSpec
CONSTANTS
  lib = lib
  app = app
  tool = tool
  held = held
  main = main
  feature = feature
  latest = latest
  branch = branch
  None = None
  Packages = {lib, app, tool}
  Versions = {v1, v2}
  BuildRequires <- Uses
  Wave <- LibFirst
  Blocked = {}
  Installed <- AppOnly
  Required <- AppOnly
  Refs = {main}
  Main = main
  Tags = {latest}
  TagOf <- StreamOf
  Faults = {"build", "step"}
  Asks <- PlainAsks
  Reruns = FALSE
  MaxRequests = 3
INVARIANTS
  GreenMeansPublished
PROPERTIES
  QueueDrains
  Converges
  NeverStale
CHECK_DEADLOCK FALSE
