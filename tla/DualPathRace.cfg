CONSTANTS
  CoverageCallers = {c1, c2}
  LinkCallers = {l1}
  NoCaller = NoCaller
  LinkStates = {s1, s2}
  FullLoss = FullLoss
  NoState = NoState
SPECIFICATION Spec
SYMMETRY Symmetry
INVARIANTS
  NoImpairmentsOutOfCoverage
