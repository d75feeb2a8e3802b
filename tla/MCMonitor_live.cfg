SPECIFICATION FairSpec
CONSTANTS
  Calls <- LiveCalls
  Policies <- LivePolicies
  Faults = {"kill", "signal", "badpath", "nolind", "raise", "odd", "wild"}
PROPERTIES
  StopsAreResumed
  DeathEndsMonitor
