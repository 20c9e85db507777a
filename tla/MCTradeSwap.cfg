SPECIFICATION Spec
CONSTANTS
  Players = {ann, bob, cid}
  Items = {bag, sword, coin}
  Containers = {bag}
  Stackable = {coin}
  Spots = {0, 1, 3}
  Capacity = 1
  None = None
SYMMETRY PlayerSymmetry
CHECK_DEADLOCK FALSE
PROPERTY AllOrNothing
