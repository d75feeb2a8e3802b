SPECIFICATION Spec
CONSTANTS
  Calls <- AllCalls
  Policies <- AllPolicies
  Faults = {"kill", "signal", "badpath", "odd"}
INVARIANTS
  ResultDelivered
  BuffersDelivered
  
  InputsIntact
  ArgumentsPreserved
  TracedUntilDenied
