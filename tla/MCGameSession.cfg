SPECIFICATION Spec
CONSTANTS
  Conns = {c1, c2}
  Objs = {o1, o2}
  None = None
  MaxTasks = 2
CHECK_DEADLOCK FALSE
INVARIANT ReferencesAgree
INVARIANT ReaderSafe
INVARIANT AutosendServed
PROPERTY ClosedConnectionsGo
