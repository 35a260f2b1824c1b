SPECIFICATION Spec
CHECK_DEADLOCK FALSE
CONSTANTS
  Contracts <- ProxyContracts
  Events <- ProxyEvents
  Accounts <- SaleAccounts
  Order <- ProxyOrder
  OnFail <- NoHooks
  Args <- ProxyArgs
  Libs <- ProxyLibs
  Deps <- ProxyDeps
  Kind <- ProxyKind
  Calls <- ProxyCalls
  FnEvent <- ProxyFn
  NoEvent = "none"
  Forced = {}
  MaySkip = {}
  Faults = {"crash", "reject", "revert", "wait", "throw"}
  MaxRuns = 2
  MaxEdits = 1
INVARIANTS Inductive CustomStaysCustom
PROPERTY KeepsDeployed
