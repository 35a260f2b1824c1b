SPECIFICATION Spec
CHECK_DEADLOCK FALSE
CONSTANTS
  Contracts <- SaleContracts
  Events <- SaleEvents
  Accounts <- SaleAccounts
  Order <- SaleOrderStart
  OnFail <- Alarm
  Args <- SaleArgs
  Libs <- SaleLibs
  Deps <- SaleDeps
  Kind <- SaleKind
  Calls <- CallOnOutcome
  FnEvent <- NoFn
  NoEvent = "none"
  Forced = {}
  MaySkip = {"token", "sale"}
  Faults = {"crash", "revert", "wait", "throw"}
  MaxRuns = 3
  MaxEdits = 1
INVARIANTS TypeOK RecordedAddressesExist WiredCorrectly FileInSync
PROPERTIES DoneMeansDeployed ImplementsChecklist RerunSendsNothing
