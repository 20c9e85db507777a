SPECIFICATION Spec
CONSTANTS
  Players = {ann, bob, cid}
  Items = {bag, box, coin}
  Containers = {bag, box}
  Stackable = {coin}
  Spots = {0, 1, 3}
  Capacity = 1
  None = None
SYMMETRY PlayerSymmetry
CHECK_DEADLOCK FALSE
INVARIANT OffersSound
INVARIANT OffersAsShown
