SPECIFICATION BatchSpec
CHECK_DEADLOCK FALSE
CONSTANTS
  a = a
  b = b
  c = c
  t = t
  e1 = e1
  e2 = e2
  s = s
  Names = {a, b, c}
  Hooks = {e1, e2}
  Templates = {t}
  SubModules = {s}
  Literals <- SmallNumbers
  Abi <- SmallAbi
  Libraries <- SmallLibraries
  Compiled <- AllCompiled
  HookTypes = {"beforeDeploy", "afterDeploy", "onChange"}
  ModuleHooks = {"onStart"}
  MaxArgs = 1
  MaxGroup = 2
  MaxBindings = 3
  MaxHooks = 2
ACTION_CONSTRAINTS ContractsFirst HooksWhereBuilt SubModuleFirst
CONSTRAINT Small
INVARIANTS ArgumentsFit DeclarationsRespected NothingLost OverflowMeansCircle BatchesRespected EverythingBatched
