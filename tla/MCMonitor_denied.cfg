SPECIFICATION Spec
CONSTANTS
  Calls <- AllCalls
  Policies <- ShippedOnly
  Faults = {}
INVARIANT DeniedNotExecuted
