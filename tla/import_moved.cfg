SPECIFICATION MCSpec
CONSTANTS
  shell = shell
  config = config
  archive = archive
  newArchive = newArchive
  mirror = mirror
  tarball = tarball
  newTarball = newTarball
  crates = crates
  pam = pam
  odd = odd
  oddFile = oddFile
  good = good
  changed = changed
  None = None
  Newest = Newest
  CutShort = CutShort
  Packages = {shell, config}
  Archives <- SomeArchives
  Asks <- SomeAsks
  MaxKills = 1
  Urls = {archive, newArchive, mirror, odd}
  Mirrors = {mirror}
  Files = {tarball, newTarball, crates, pam, oddFile}
  FileOf <- LocalNames
  Carried = {pam}
  Bytes = {good, changed}
  VendorOf <- CratesOf
  SpecsOf <- Named
  Bumps <- NextVersion
  Spellings <- Handwritten
  LockFaults = {"write"}
  Unpackable = {oddFile}
  Attempts = 4
  StageFaults = {"swap", "vendor", "kill"}
  SourcesOf <- NamedBy
INVARIANTS
  ChecksumNamesRecipe
CHECK_DEADLOCK FALSE
