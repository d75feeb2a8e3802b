SPECIFICATION Spec
CONSTANTS
  IntMax = 3
  StructSize = 2
  MaxLen = 3
  FuncRefs = 1
  MaxErrors = 2
INVARIANTS
  TypeOK
  GilPaired
  RefsBalanced
  FunctionIntact
  ResultMeans
  CopyWithin
PROPERTY
  ImplementsService
CHECK_DEADLOCK FALSE
