SPECIFICATION Spec
CONSTANTS
  IntMax = 1
  MaxPos = 5
  MaxCount = 2
INVARIANTS
  TypeOK
  DamageLocal
PROPERTY
  ImplementsFile
