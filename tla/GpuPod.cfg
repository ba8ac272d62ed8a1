\* One failed request, one crash or hang, one midnight; jobs without end.
\* With the latch set and no pod to stop, everything waits for the operator.
CONSTANTS
  a = a
  b = b
  None = None
  Pod = {a, b}
  Volume = TRUE
  MaxFailures = 1
  MaxCrashes = 1
  MaxMidnights = 1
SPECIFICATION FairSpec
INVARIANTS OnePod
PROPERTIES CapStops LatchStops
CHECK_DEADLOCK FALSE
