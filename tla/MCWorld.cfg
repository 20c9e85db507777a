SPECIFICATION WorldSpec
CONSTANTS
  StepReach = 3
  TargetDistance = 4
  AttackRange = 3
  RaySize = 5
  MaxSide = 3
  Width = 2
  Requests <- MCRequests
  MaxNodes = 8
  MaxClosed = 6
  Hindered <- MCHindered
  CacheReach = 1
  Edge = 2
  Objects = 2
CHECK_DEADLOCK FALSE
INVARIANT StepsFit
INVARIANT RayStaysOnLine
INVARIANT AreaSameAllAround
INVARIANT PathShortest
INVARIANT CacheAgrees
