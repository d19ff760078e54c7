SPECIFICATION Spec
CONSTANTS
  lib = lib
  app = app
  tool = tool
  held = held
  main = main
  feature = feature
  latest = latest
  branch = branch
  None = None
  Packages = {lib, app, tool}
  Versions = {v1, v2}
  BuildRequires <- Uses
  Wave <- LibFirst
  Blocked = {}
  Installed <- AppOnly
  Required <- AppOnly
  Refs = {main}
  Main = main
  Tags = {latest}
  TagOf <- StreamOf
  Faults = {}
  Asks <- AppAsks
  Reruns = FALSE
  MaxRequests = 3
PROPERTIES
  ReplacementKeepsChanges
CHECK_DEADLOCK FALSE
