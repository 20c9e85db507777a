SPECIFICATION Spec
CONSTANTS
  Events = {e1, e2}
  DispatcherThread = disp
  Callers = {disp, net}
  NoEvent = NoEvent
  Delays = {1, 2}
  MaxTime = 3
  IdModulus = 3
CHECK_DEADLOCK FALSE
INVARIANT EventsTracked
INVARIANT NeverEarly
INVARIANT NeverOversleeps
PROPERTY EventsRun
