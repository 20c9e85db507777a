SPECIFICATION AnySpec
CONSTANTS
  Players = {a, b}
  HouseGoods = {chest}
  NoPlayer = NoPlayer
  MaxWarnings = 1
  Savers = {p1, p2}
  NotSaved = {p2}
  MaxVersion = 1
  MaxFaults = 3
SYMMETRY Interchangeable
CHECK_DEADLOCK FALSE
INVARIANT HouseholdAgrees
INVARIANT NoDuplicates
INVARIANT SavesIsolated
INVARIANT LogoutDurable
