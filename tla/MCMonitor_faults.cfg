SPECIFICATION Spec
CONSTANTS
  Calls <- FewCalls
  Policies <- FewPolicies
  Faults = {"kill", "signal", "badpath", "nolind", "raise", "odd", "wild"}
INVARIANTS
  PhaseAgreement
  ExactlyOnce
  LindOnCurrentCall
  DeniedNeverReturns
  CleanEnd
  IInv
PROPERTY
  ImplementsMediation
