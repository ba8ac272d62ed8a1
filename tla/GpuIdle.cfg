\* Nothing fails, nobody crashes and the cap is never reached.
CONSTANTS
  a = a
  b = b
  None = None
  Pod = {a, b}
  Volume = TRUE
  MaxFailures = 0
  MaxCrashes = 0
  MaxMidnights = 0
SPECIFICATION Spec
PROPERTY WorkStartsPod
CHECK_DEADLOCK FALSE
