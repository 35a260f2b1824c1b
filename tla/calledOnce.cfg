SPECIFICATION Spec
CHECK_DEADLOCK FALSE
CONSTANTS
  Contracts <- SaleContracts
  Events <- SaleEvents
  Accounts <- SaleAccounts
  Order <- SaleOrder
  OnFail <- NoHooks
  Args <- SaleArgs
  Libs <- SaleLibs
  Deps <- SaleDeps
  Kind <- SaleKind
  Calls <- CallAndPay
  FnEvent <- NoFn
  NoEvent = "none"
  Forced = {}
  MaySkip = {}
  Faults = {"reject", "revert", "throw"}
  MaxRuns = 3
  MaxEdits = 1
INVARIANT NoRepeatedCall
