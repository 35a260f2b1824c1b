SPECIFICATION Spec
CHECK_DEADLOCK FALSE
CONSTANTS
  Names = {"token", "sale", "open"}
  Codes = {"old", "new"}
  Values = {"v"}
  AtEnds = {"onStart", "onCompletion"}
  Initial <- Token
  FailHook = "onFail"
  MaxEdits = 1
INVARIANT SilentMeansSame
