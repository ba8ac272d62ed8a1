SPECIFICATION Spec
CONSTANTS
  Hotkey = {1}
  ColdkeyOf <- OneOwner
  None = None
  TimeoutLimit = 1
  Backoff = 1
  Delay = 2
  Reasons = {"miner", "round", "infrastructure_round"}
  MaxBlock = 5
  MaxWindow = 2
  MaxCommits = 1
  MaxCrashes = 1
  MaxFailures = 1
CONSTRAINT Short
INVARIANTS LimitHonoured BaselineFirst UsesReconciled
PROPERTIES ReadmittedOnce ParkedUntilRotation NoRepublication ConsumedStaysDone
