CONSTANTS
  Horizon = 5
  Evaluators = {"profile", "sequence"}
  Schedule <- Timeline
  Ticking = TRUE
  PromptDriver = FALSE
  Callers = {f1, f2}
SPECIFICATION Spec
SYMMETRY CallersAlike
INVARIANTS
  TypeOK
  TimeAccounted
  SegmentFaithful
  RunCovered
PROPERTIES
  FrozenOnceFinalized
CHECK_DEADLOCK FALSE
