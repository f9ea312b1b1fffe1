CONSTANTS
  Resolvers = {p1, p2}
  CMT = CMT
  Platforms = {linux, windows}
  Branches = {master, main}
  MaxCommits = 2
  MaxReleases = 1
  MaxOld = 1
SPECIFICATION Spec
SYMMETRY Symmetry
INVARIANTS NoTeardownUnderTest EntryWaits KeepsNothing
PROPERTIES VersionNotLost
CHECK_DEADLOCK FALSE
