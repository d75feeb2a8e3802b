SPECIFICATION Spec
CONSTANTS
  Calls = {"read", "mmap"}
  Files <- MCFiles
INVARIANTS
  TypeOK
  TableCorrect
  Outcome
PROPERTY
  AssignedOnce
