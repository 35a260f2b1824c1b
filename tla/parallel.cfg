SPECIFICATION Spec
CHECK_DEADLOCK FALSE
CONSTANTS
  Contracts = {"token", "vault", "sale"}
  Hooks = {"mint", "grant", "open", "close"}
  Senders = {"alice", "bob"}
  Batches <- ThreeBatches
  Args <- TokenFirst
  Deps <- Declared
  Calls <- FewCalls
  Signer <- AllByAlice
  OnRecord = {"token"}
  MayDeployFn = {"sale"}
  MaySkip = {"vault"}
  MayFail = TRUE
INVARIANTS NoncesInSequence ExecutedMeansSent AddressesInTime DoneMeansRecorded
PROPERTY Settles
