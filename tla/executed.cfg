SPECIFICATION Spec
CHECK_DEADLOCK FALSE
CONSTANTS
  Contracts <- SaleContracts
  Events <- SaleEvents
  Accounts <- SaleAccounts
  Order <- SaleOrder
  OnFail <- NoHooks
  Args <- SaleArgs
  Libs <- SaleLibs
  Deps <- SaleDeps
  Kind <- SaleKind
  Calls <- CallEach
  FnEvent <- NoFn
  NoEvent = "none"
  Forced = {}
  MaySkip = {}
  Faults = {"crash", "reject", "revert", "wait", "throw"}
  MaxRuns = 3
  MaxEdits = 0
INVARIANT ExecutedMeansCalled
PROPERTY RunEnds
