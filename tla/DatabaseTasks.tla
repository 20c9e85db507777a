---------------------------- MODULE DatabaseTasks ----------------------------
(***************************************************************************)
(* The asynchronous database queue (databasetasks.cpp): queries that do    *)
(* not concern the running task are queued for a thread with a connection  *)
(* of its own.  flush() makes the calling thread empty the queue itself,   *)
(* at the same time as that thread; saveGameState() calls it to have       *)
(* everything written before it goes on, and shutdown() before it ends.    *)
(*                                                                         *)
(* Granularity is that of Dispatcher.tla.  A runner is a thread executing  *)
(* runTask(): the worker, or a thread inside flush().                      *)
(***************************************************************************)
EXTENDS Naturals, Sequences, FiniteSets

CONSTANTS
  Queries,          \* database tasks; each is added at most once
  WithCallback,     \* those that have a callback
  Worker,           \* the thread of DatabaseTasks
  DispatcherThread, \* calls addTask, flush and, from Game::shutdown, shutdown
  MainThread,       \* calls shutdown when no service is running
  Network,          \* other threads that call addTask
  NoQuery

Flushers == {DispatcherThread, MainThread}
Runners == {Worker} \cup Flushers
Clients == {DispatcherThread} \cup Network

ASSUME DatabaseTasksAssumption ==
  /\ WithCallback \subseteq Queries
  /\ NoQuery \notin Queries \cup Flushers
  /\ Worker \notin Flushers
  /\ DispatcherThread # MainThread
  /\ Network \cap Runners = {}

VARIABLES
  threadState, \* ThreadHolder::threadState
  tasks,       \* DatabaseTasks::tasks
  pc,          \* pc[r]: where runner r is
  hand,        \* hand[r]: the local variable task of runner r
  notifying,   \* threads between unlock() and notify_one() in addTask
  shutdownBy,  \* the thread that called shutdown(), if any
  dispOpen,    \* g_dispatcher accepts tasks
  accepted,    \* history: the queries accepted, in that order
  executed,    \* history: the queries executed, in that order
  posted       \* callbacks handed to the dispatcher

vars == <<threadState, tasks, pc, hand, notifying, shutdownBy, dispOpen,
          accepted, executed, posted>>

WorkerPCs == {"test", "lock", "wait", "woken", "run", "callback", "exit"}
FlusherPCs == {"idle", "flush", "run", "callback", "notify"}

TypeOK ==
  /\ threadState \in {"RUNNING", "CLOSING", "TERMINATED"}
  /\ tasks \in Seq(Queries)
  /\ pc \in [Runners -> WorkerPCs \cup FlusherPCs]
  /\ pc[Worker] \in WorkerPCs
  /\ \A f \in Flushers : pc[f] \in FlusherPCs
  /\ hand \in [Runners -> Queries \cup {NoQuery}]
  /\ notifying \subseteq Clients
  /\ shutdownBy \in Flushers \cup {NoQuery}
  /\ dispOpen \in BOOLEAN
  /\ accepted \in Seq(Queries)
  /\ executed \in Seq(Queries)
  /\ posted \subseteq WithCallback

Init ==
  /\ threadState = "RUNNING"
  /\ tasks = <<>>
  /\ pc = [r \in Runners |-> IF r = Worker THEN "test" ELSE "idle"]
  /\ hand = [r \in Runners |-> NoQuery]
  /\ notifying = {}
  /\ shutdownBy = NoQuery
  /\ dispOpen = TRUE
  /\ accepted = <<>>
  /\ executed = <<>>
  /\ posted = {}

InSeq(q, s) == \E i \in DOMAIN s : s[i] = q

-----------------------------------------------------------------------------
Woken(f) == IF f[Worker] = "wait" THEN [f EXCEPT ![Worker] = "woken"] ELSE f

CanCall(th) ==
  /\ th \notin notifying
  /\ th \in Flushers => pc[th] = "idle"

MustSignal == tasks = <<>>

(* DatabaseTasks::addTask up to its unlock(); in another state than        *)
(* RUNNING the query is dropped and nothing changes.                       *)
AddTask(th, q) ==
  /\ CanCall(th)
  /\ ~InSeq(q, accepted)
  /\ threadState = "RUNNING"
  /\ tasks' = Append(tasks, q)
  /\ accepted' = Append(accepted, q)
  /\ notifying' = IF MustSignal THEN notifying \cup {th} ELSE notifying
  /\ UNCHANGED <<threadState, pc, hand, shutdownBy, dispOpen, executed, posted>>

Notify(th) ==
  /\ th \in notifying
  /\ notifying' = notifying \ {th}
  /\ pc' = Woken(pc)
  /\ UNCHANGED <<threadState, tasks, hand, shutdownBy, dispOpen, accepted,
                 executed, posted>>

-----------------------------------------------------------------------------
(* runTask(), by whichever thread took the query.                          *)

(* Where a runner goes after runTask().                                    *)
After(r) == IF r = Worker THEN "test" ELSE "flush"

\* Mutant: front() without pop_front().
TakeWithoutPop(r) ==
  /\ tasks # <<>>
  /\ hand' = [hand EXCEPT ![r] = Head(tasks)]
  /\ pc' = [pc EXCEPT ![r] = "run"]
  /\ UNCHANGED <<threadState, tasks, notifying, shutdownBy, dispOpen, accepted,
                 executed, posted>>

Take(r) ==
  /\ tasks # <<>>
  /\ hand' = [hand EXCEPT ![r] = Head(tasks)]
  /\ tasks' = Tail(tasks)
  /\ pc' = [pc EXCEPT ![r] = "run"]
  /\ UNCHANGED <<threadState, notifying, shutdownBy, dispOpen, accepted,
                 executed, posted>>

(* storeQuery or executeQuery: the connection's databaseLock lets one      *)
(* runner through at a time.                                               *)
Execute(r) ==
  /\ pc[r] = "run"
  /\ executed' = Append(executed, hand[r])
  /\ IF hand[r] \in WithCallback
     THEN pc' = [pc EXCEPT ![r] = "callback"] /\ UNCHANGED hand
     ELSE /\ pc' = [pc EXCEPT ![r] = After(r)]
          /\ hand' = [hand EXCEPT ![r] = NoQuery]
  /\ UNCHANGED <<threadState, tasks, notifying, shutdownBy, dispOpen, accepted,
                 posted>>

(* The callback goes to the dispatcher, which deletes it once stopped.     *)
PostCallback(r) ==
  /\ pc[r] = "callback"
  /\ posted' = IF dispOpen THEN posted \cup {hand[r]} ELSE posted
  /\ hand' = [hand EXCEPT ![r] = NoQuery]
  /\ pc' = [pc EXCEPT ![r] = After(r)]
  /\ UNCHANGED <<threadState, tasks, notifying, shutdownBy, dispOpen, accepted,
                 executed>>

-----------------------------------------------------------------------------
(* DatabaseTasks::threadMain.                                              *)

Goto(r, l) ==
  /\ pc' = [pc EXCEPT ![r] = l]
  /\ UNCHANGED <<threadState, tasks, hand, notifying, shutdownBy, dispOpen,
                 accepted, executed, posted>>

TestState ==
  /\ pc[Worker] = "test"
  /\ Goto(Worker, IF threadState # "TERMINATED" THEN "lock" ELSE "exit")

WaitForSignal ==
  /\ pc[Worker] = "lock"
  /\ tasks = <<>>
  /\ Goto(Worker, "wait")

SpuriousWakeup ==
  /\ pc[Worker] = "wait"
  /\ Goto(Worker, "woken")

WorkerTake ==
  /\ pc[Worker] \in {"lock", "woken"}
  /\ Take(Worker)

NothingToTake ==
  /\ pc[Worker] = "woken"
  /\ tasks = <<>>
  /\ Goto(Worker, "test")

-----------------------------------------------------------------------------
(* flush(), stop() and shutdown().                                         *)

(* saveGameState() on the dispatcher's thread.                             *)
BeginFlush ==
  /\ CanCall(DispatcherThread)
  /\ threadState = "CLOSING" => ~dispOpen
  /\ Goto(DispatcherThread, "flush")

FlushTake(f) ==
  /\ pc[f] = "flush"
  /\ Take(f)

\* Mutant: flush() may return before the queue is empty.
FlushEndEarly(f) ==
  /\ pc[f] = "flush"
  /\ Goto(f, IF shutdownBy = f THEN "notify" ELSE "idle")

(* The queue is found empty: flush() returns, to shutdown() or to its      *)
(* other caller.                                                           *)
FlushEnd(f) ==
  /\ pc[f] = "flush"
  /\ tasks = <<>>
  /\ Goto(f, IF shutdownBy = f THEN "notify" ELSE "idle")

(* Game::setGameState(GAME_STATE_SHUTDOWN) stops this queue and then the   *)
(* dispatcher.                                                             *)
Stop ==
  /\ CanCall(DispatcherThread)
  /\ threadState = "RUNNING"
  /\ threadState' = "CLOSING"
  /\ UNCHANGED <<tasks, pc, hand, notifying, shutdownBy, dispOpen, accepted,
                 executed, posted>>

StopDispatcher ==
  /\ CanCall(DispatcherThread)
  /\ threadState = "CLOSING"
  /\ dispOpen
  /\ dispOpen' = FALSE
  /\ UNCHANGED <<threadState, tasks, pc, hand, notifying, shutdownBy, accepted,
                 executed, posted>>

(* shutdown(): TERMINATED is set under the lock, then it flushes.  Called  *)
(* by Game::shutdown after the stops, or by main() without any.            *)
Shutdown(f) ==
  /\ CanCall(f)
  /\ shutdownBy = NoQuery
  /\ IF f = DispatcherThread THEN ~dispOpen ELSE threadState = "RUNNING"
  /\ threadState' = "TERMINATED"
  /\ shutdownBy' = f
  /\ pc' = [pc EXCEPT ![f] = "flush"]
  /\ UNCHANGED <<tasks, hand, notifying, dispOpen, accepted, executed, posted>>

(* Its notify_one(), made without the lock.                                *)
ShutdownNotify(f) ==
  /\ pc[f] = "notify"
  /\ pc' = [Woken(pc) EXCEPT ![f] = "idle"]
  /\ UNCHANGED <<threadState, tasks, hand, notifying, shutdownBy, dispOpen,
                 accepted, executed, posted>>

-----------------------------------------------------------------------------
RunnerStep(r) == Execute(r) \/ PostCallback(r)

WorkerStep == TestState \/ WaitForSignal \/ WorkerTake \/ NothingToTake
                \/ RunnerStep(Worker)

FlusherStep(f) == FlushTake(f) \/ FlushEnd(f) \/ ShutdownNotify(f)
                    \/ RunnerStep(f)

Next ==
  \/ \E th \in Clients, q \in Queries : AddTask(th, q)
  \/ \E th \in Clients : Notify(th)
  \/ WorkerStep
  \/ SpuriousWakeup
  \/ \E f \in Flushers : FlusherStep(f) \/ Shutdown(f)
  \/ BeginFlush
  \/ Stop
  \/ StopDispatcher

(* Every thread is scheduled, and the database server answers: a query     *)
(* that finds the connection lost is retried every second.                 *)
Fairness ==
  /\ WF_vars(WorkerStep)
  /\ \A f \in Flushers : WF_vars(FlusherStep(f))
  /\ \A th \in Clients : WF_vars(Notify(th))

Spec == Init /\ [][Next]_vars /\ Fairness

-----------------------------------------------------------------------------
(* Safety.                                                                 *)

(* The worker never sleeps over a query unless somebody is about to wake   *)
(* it up or to take the query itself.                                      *)
NoLostWakeup ==
  (pc[Worker] = "wait" /\ tasks # <<>>) => notifying # {}

(* With two threads popping the same list, no query is executed twice, and *)
(* a query that left the list is executed or in some runner's hand.        *)
ExecutedOnce ==
  /\ \A i, j \in DOMAIN executed : executed[i] = executed[j] => i = j
  /\ \A i \in DOMAIN accepted :
       \/ InSeq(accepted[i], tasks)
       \/ InSeq(accepted[i], executed)
       \/ \E r \in Runners : hand[r] = accepted[i]

(* Queries are executed in the order they were added, except that one in   *)
(* a runner's hand may be overtaken by those another runner executes       *)
(* meanwhile: flush() breaks the order by that much and no more.           *)
OvertakenOnlyInHand ==
  \A i, j \in DOMAIN accepted :
    (i < j /\ InSeq(accepted[j], executed) /\ ~InSeq(accepted[i], executed))
      => \E r \in Runners : hand[r] = accepted[i]

(* When the worker has left threadMain and shutdown() has returned, every  *)
(* query that was ever accepted has been executed.                         *)
ShutdownLosesNothing ==
  (/\ pc[Worker] = "exit"
   /\ \A f \in Flushers : pc[f] = "idle")
    => \A i \in DOMAIN accepted : InSeq(accepted[i], executed)

(* flush() promises its caller less than it seems to: when it returns, a   *)
(* query added before may still be executing, but only one per other       *)
(* runner, and none is left in the list.                                   *)
FlushDrains ==
  [][\A f \in Flushers :
       (pc[f] = "flush" /\ pc'[f] # pc[f] /\ pc'[f] # "run") =>
         \A i \in DOMAIN accepted :
           \/ InSeq(accepted[i], executed)
           \/ \E r \in Runners \ {f} : hand[r] = accepted[i]]_vars

(* Liveness: every accepted query is executed and its callback reaches the *)
(* dispatcher, unless that was stopped.                                    *)
AcceptedQueriesEnd ==
  \A q \in Queries :
    InSeq(q, accepted) ~>
      /\ InSeq(q, executed)
      /\ (q \in WithCallback => q \in posted \/ ~dispOpen)

(* What signals.cpp says of SIGINT and SIGTERM, "Shuts the server down":   *)
(* once shutdown() has been called, the worker leaves threadMain, so that  *)
(* main() gets past g_databaseTasks.join().                                *)
ShutdownEnds == (threadState = "TERMINATED") ~> (pc[Worker] = "exit")

(* The queue, between the worker and a thread that flushes it: no query is *)
(* overlooked, executed twice, overtaken needlessly or lost at shutdown.   *)
QueueSound ==
  TypeOK /\ NoLostWakeup /\ ExecutedOnce /\ OvertakenOnlyInHand /\ ShutdownLosesNothing

(* A flush leaves nothing waiting, and every accepted query is executed.   *)
QueriesServed == FlushDrains /\ AcceptedQueriesEnd
=============================================================================
