SPECIFICATION CreaturesSpec
CONSTANTS
  Players = {p}
  Monsters = {m, n}
  Nobody = Nobody
  Places <- MCPlaces
  SameFloor <- MCSameFloor
  InSight <- MCInSight
  TooFar <- MCTooFar
  Blocks = {b}
  Home <- MCHome
  Temple = "hall"
SYMMETRY Interchangeable
INVARIANT TargetsPresent
INVARIANT SummonsAgree
INVARIANT ChecksServed
