SPECIFICATION MCSpec
CONSTANTS
  Hotkey = {1, 2, 3}
  Validator = {11}
  Model = {m, n}
  Uid = {1, 2, 3, 4}
  Policy = {"old", "new"}
  Scale = 100
  None = None
  ColdkeyOf <- MCColdkeyOf
  WindowEpochs = 1
  ResetWindow = 3
  UpgradeWindow = 2
  OldPolicy = "old"
  NewPolicy = "new"
  Registrations <- OneChallenger
  Stakes <- OneEvaluator
  Shapes <- ResetShapes
  LateShapes <- LateTerminal
  Scripted = 4
  MaxBlock = 9
  MaxEpoch = 4
  MaxCommitments = 10
  MaxRows = 1
CHECK_DEADLOCK FALSE
INVARIANTS
  ReadmittedAfterReset
PROPERTIES
  UsesNeverRewritten
