CONSTANTS
  Horizon = 5
  Evaluators = {"profile"}
  Schedule <- Timeline
  Ticking = TRUE
  PromptDriver = TRUE
  Callers = {f1}
SPECIFICATION Spec
INVARIANTS
  CountsScheduled
CHECK_DEADLOCK FALSE
