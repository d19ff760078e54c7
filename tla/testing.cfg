SPECIFICATION MCSpec
CONSTANTS
  Slices = {{"uranium"}, {"uranium-nvidia"}, {"uranium", "patience"}, {"uranium-nvidia", "patience"}}
  MaxCommits = 2
  Faults = {"build", "step", "suite"}
  HeadBranches = {"testing", "main"}
  MaxReruns = 1
INVARIANTS
  TypeOK
  UnsignedAccounted
  
  
PROPERTIES
  TagsSpec
  CalmAssembled
  CalmHeadTested
CHECK_DEADLOCK FALSE
