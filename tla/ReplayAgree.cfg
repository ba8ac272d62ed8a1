SPECIFICATION MCSpec
CONSTANTS
  Hotkey = {1, 2}
  Validator = {11, 12}
  Model = {m}
  Uid = {1, 2}
  Policy = {"old", "new"}
  Scale = 100
  None = None
  ColdkeyOf <- MCColdkeyOf
  WindowEpochs = 1
  ResetWindow = 2
  UpgradeWindow = 2
  OldPolicy = "old"
  NewPolicy = "new"
  Registrations <- Moves
  Stakes <- Moving
  Shapes <- Scores
  LateShapes = {}
  Opening0 = 1
  MaxBlock = 5
  MaxEpoch = 3
  MaxCommitments = 5
  MaxRows = 1
CHECK_DEADLOCK FALSE
PROPERTIES FollowersAgree
