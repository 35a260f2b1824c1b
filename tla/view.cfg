SPECIFICATION Spec
CHECK_DEADLOCK FALSE
CONSTANTS
  Contracts = {"token", "sale"}
  Hooks = {"mint", "open", "success"}
  Elements <- InOrder
  EndHooks = {"success"}
  FailHooks <- OnFail
  Args <- Takes
  Needs <- Declared
  Calls <- Sends
  Configurable = {"sale"}
  MaxRuns = 4
INVARIANTS ProgressExact StatusTruthful CauseShown SummaryExact SummaryFailsAfterLoss
