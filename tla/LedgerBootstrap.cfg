SPECIFICATION MCSpec
CONSTANTS
  Hotkey = {1, 2, 3}
  Validator = {11}
  Model = {m}
  Uid = {1, 2, 3, 4}
  Policy = {"old", "new"}
  Scale = 100
  None = None
  ColdkeyOf <- MCColdkeyOf
  WindowEpochs = 1
  ResetWindow = 99
  UpgradeWindow = 2
  OldPolicy = "old"
  NewPolicy = "new"
  Registrations <- Churn
  Stakes <- OneEvaluator
  Shapes <- BootstrapShapes
  LateShapes <- LateTerminal
  Scripted = 1
  MaxBlock = 6
  MaxEpoch = 3
  MaxCommitments = 6
  MaxRows = 1
CHECK_DEADLOCK FALSE
INVARIANTS
  BootstrapAllOrNothing
PROPERTIES
  ClosedWindowsFrozen
