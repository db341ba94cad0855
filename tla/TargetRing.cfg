\* The list holds 3 of 5 foreign objects: it fills, wraps and evicts ids that come back.
CONSTANTS
  n1 = n1
  n2 = n2
  n3 = n3
  n4 = n4
  n5 = n5
  bot = bot
  none = none
  ObjectIds <- MCObjectIds
  Self = bot
  NoObject = none
  Capacity = 3
SPECIFICATION Spec
INVARIANTS
  RingInv
PROPERTY
  EvictsOldest
