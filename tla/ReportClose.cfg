CONSTANTS
  Horizon = 5
  Evaluators = {"profile"}
  Schedule <- Timeline
  Ticking = TRUE
  PromptDriver = FALSE
  Callers = {f1}
SPECIFICATION FairSpec
PROPERTIES
  CloseReturns
CHECK_DEADLOCK FALSE
