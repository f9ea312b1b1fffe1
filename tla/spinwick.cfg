CONSTANTS
  Handlers = {h1, h2}
  Setups <- MCSetups
  MaxCommits = 2
  MaxActs = 3
  MaxInstallations = 2
SPECIFICATION Spec
SYMMETRY Symmetry
INVARIANTS TwoOnlyInOneWindow NothingLeftBehind ServerForLabel UpToDate
CHECK_DEADLOCK FALSE
