SPECIFICATION Spec
CONSTANTS
  Clients = {net, sched}
  SchedulerThread = sched
  DispatcherThread = disp
  Tasks = {t1, t2, t3, game}
  Expiring = {t2}
  GameShutdown = game
  Terminator = term
  NoTask = NoTask
CHECK_DEADLOCK FALSE
INVARIANT NoLostWakeup
INVARIANT OwnedOnce
INVARIANT NothingStranded
PROPERTY WorkEnds
PROPERTY ImplementsExecutor
