SPECIFICATION Spec
CONSTANTS
  Calls <- AllCalls
  Policies <- ShippedOnly
  Faults = {}
INVARIANT PreadDelivered
