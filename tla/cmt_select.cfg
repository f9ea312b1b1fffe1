SPECIFICATION SelectSpec
CONSTANTS
  Releases <- MCReleases
  ConfigLists <- MCConfig
  DefaultList <- MCDefault
INVARIANTS
  AnchorsKept OneCandidate CandidateTested PromotedTagWins CapKeepsEnds
CHECK_DEADLOCK FALSE
