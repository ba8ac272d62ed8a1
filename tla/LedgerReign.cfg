SPECIFICATION MCSpec
CONSTANTS
  Hotkey = {1, 2, 3}
  Validator = {11, 12}
  Model = {m}
  Uid = {1, 2, 3, 4}
  Policy = {"old", "new"}
  Scale = 100
  None = None
  ColdkeyOf <- MCColdkeyOf
  WindowEpochs = 1
  ResetWindow = 99
  UpgradeWindow = 2
  OldPolicy = "old"
  NewPolicy = "new"
  Registrations <- OneChallenger
  Stakes <- TwoEvaluators
  Shapes <- ReignShapes
  LateShapes <- LateTerminal
  Scripted = 4
  MaxBlock = 8
  MaxEpoch = 4
  MaxCommitments = 9
  MaxRows = 2
CHECK_DEADLOCK FALSE
INVARIANTS
  OneConclusiveVote
  UnresolvedBoundKeepsAttempt
  CrownedByTerminalResults
  Succession
PROPERTIES
  EveryMeasurementWeighs
  KeepsPromise
