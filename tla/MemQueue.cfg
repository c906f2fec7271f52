SPECIFICATION MemQueueSpec
CONSTANTS
  Item = {a, b}
  length = 3
INVARIANTS
  RingInv
PROPERTY
  ImplementsFifo
