SPECIFICATION AnySpec
CONSTANTS
  Players = {p1, p2}
  Weak = {}
  NoPlayer = NoPlayer
  KillsToRed = 1
  KillsToBlack = 2
  MaxHits = 1
  MaxFrags = 2
  Ids = {"combat", "ring"}
  SlotIds = {"ring"}
  MaxTicks = 2
  MaxDeferred = 1
  MaxPower = 2
  Amounts = {1, 3}
  MaxFields = 2
  MaxHealth = 2
  MaxMana = 1
  MaxDamage = 2
  MaxCharges = 1
  MaxStack = 2
  Size <- MCSize
  CarryLimit = 4
  Supply = 3
  ExpTable <- MCExp
  ReqTable <- MCReq
  Gains = {1, 4}
  MaxGained = 6
  MaxCalls = 2
  ClientOrders = {o1, o2}
  MaxRoute = 2
  MaxPosted = 1
SYMMETRY Interchangeable
CHECK_DEADLOCK FALSE
INVARIANT MarksAgree
INVARIANT ConditionsAccounted
INVARIANT HitAccounted
INVARIANT ItemsAccounted
INVARIANT ProgressAccounted
INVARIANT OrdersAgree
