SPECIFICATION AnySpec
CONSTANTS
  Players = {p1, p2, v1, v2, gm}
  Premium = {v1, v2}
  AlwaysLogin = {gm}
  MaxPlayers = 2
  MaxTime = 5
  SizeModulus = 8
  Friends = {f1, f2, f3}
  Hosts = {f1}
  Guild = {f2}
  PartyRooms = {a1}
  Addresses = {a1, a2}
  NoParty = NoParty
  Places = {"here", "away"}
  Items = {i1, i2}
  Creatures = {m1}
  Conds = {c1}
  Classes = {"Item", "Monster", "Condition"}
  MaxEnv = 2
  MaxNesting = 2
  MaxHeld = 2
  MaxTimers = 1
  MaxResults = 1
  Keys = {k1, k2}
  NoKey = nokey
  MaxPerKey = 2
  MaxStrays = 1
CHECK_DEADLOCK FALSE
PROPERTY PlacesKept
PROPERTY ObjectsSound
INVARIANT PartiesAgree
INVARIANT ChannelsLive
INVARIANT RegistriesAgree
