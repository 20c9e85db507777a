SPECIFICATION Spec
CONSTANTS
  Queries = {q1, q2, q3}
  WithCallback = {q1}
  Worker = worker
  DispatcherThread = disp
  MainThread = main
  Network = {net}
  NoQuery = NoQuery
CHECK_DEADLOCK FALSE
INVARIANT QueueSound
PROPERTY QueriesServed
