SPECIFICATION Spec
CONSTANTS
  Capacity = 4
  Values = {0, 1, 2}
INVARIANT
  TypeOK
PROPERTY
  ImplementsQueue
