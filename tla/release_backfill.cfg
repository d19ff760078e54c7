SPECIFICATION FairSpec
CONSTANTS
  MaxCommits = 2
  Faults = {}
  MaxReleases = 0
  DocsPushes = TRUE
  Budgets <- OnlyPromotions
PROPERTIES
  HeadPromoted
CHECK_DEADLOCK FALSE
