SPECIFICATION FairSpec
CONSTANTS
  MaxCommits = 2
  Faults = {"step"}
  MaxReleases = 2
  DocsPushes = FALSE
  Budgets <- All
INVARIANTS
  TypeOK
  StableWasVerified
  UnsignedStableReported
  MergedWasTested
PROPERTIES
  HeadPromoted
CHECK_DEADLOCK FALSE
