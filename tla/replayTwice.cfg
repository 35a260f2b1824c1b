SPECIFICATION Spec
CHECK_DEADLOCK FALSE
CONSTANTS
  Contracts <- SaleContracts
  Events <- SaleEvents
  Accounts <- SaleAccounts
  Order <- SaleOrder
  OnFail <- NoHooks
  Args <- SaleArgs
  Libs <- SaleLibs
  Deps <- SaleDeps
  Kind <- SaleKind
  Calls <- CallThrice
  FnEvent <- NoFn
  NoEvent = "none"
  Forced = {}
  MaySkip = {}
  Faults = {"throw"}
  MaxRuns = 2
  MaxEdits = 0
INVARIANT ExecutedMeansCalled
