SPECIFICATION MCSpec
CONSTANTS
  p1 = p1
  p2 = p2
  r1 = r1
  r2 = r2
  Packages = {p1, p2}
  Repositories = {r1, r2}
  RepositoryOf <- MCRepositoryOf
  NamedUnder <- MCNamedUnder
  VersionString <- MCVersionString
  Newer <- MCNewer
  Ops = {o1, o2}
  MaxVersion = 2
  MaxCommands = 3
  None = None
SYMMETRY MCSymmetry
INVARIANTS
  PcmInv
  InstalledPackagesAreWhole
