----------------------------- MODULE Dispatcher -----------------------------
(***************************************************************************)
(* The dispatcher (tasks.cpp, tasks.h, thread_holder_base.h): one thread   *)
(* that executes, one after the other, the tasks that the network, the     *)
(* scheduler, the database thread and the running task itself post.        *)
(*                                                                         *)
(* Granularity.  Everything the code does between taskLock.lock() and      *)
(* taskLock.unlock() is one step: the only shared variable that is also    *)
(* written outside the lock is threadState, each section reads it at most  *)
(* once, and a write that falls inside a section cannot be told from one   *)
(* that follows it.  The unlocked test of threadState in the loop head,    *)
(* the wait, the wake-up and every notify_one() made after unlock() are    *)
(* steps of their own.                                                     *)
(***************************************************************************)
EXTENDS Naturals, Sequences, FiniteSets

CONSTANTS
  Clients,          \* threads other than the dispatcher that call addTask
  SchedulerThread,  \* the client that passes push_front = TRUE
  DispatcherThread, \* the dispatcher's own thread: tasks post tasks
  Tasks,            \* task objects; each is posted at most once
  Expiring,         \* the tasks created with an expiration time
  GameShutdown,     \* the task that runs Game::shutdown
  Terminator,       \* the task that Dispatcher::shutdown creates
  NoTask            \* no task in hand

ASSUME DispatcherAssumption ==
  /\ SchedulerThread \in Clients
  /\ DispatcherThread \notin Clients
  /\ Expiring \subseteq Tasks
  /\ GameShutdown \in Tasks \ Expiring
  /\ Terminator \notin Tasks
  /\ NoTask \notin Tasks \cup {Terminator}

VARIABLES
  threadState,     \* ThreadHolder::threadState
  taskList,        \* Dispatcher::taskList
  pc,              \* where the dispatcher's thread is in threadMain
  current,         \* the local variable task of threadMain
  notifying,       \* threads between unlock() and notify_one() in addTask
  status,          \* what became of each task
  dispatcherCycle, \* Dispatcher::dispatcherCycle
  bailed           \* main() called shutdown() because no service is running

vars == <<threadState, taskList, pc, current, notifying, status,
          dispatcherCycle, bailed>>

Threads == Clients \cup {DispatcherThread}
AllTasks == Tasks \cup {Terminator}
ThreadStates == {"RUNNING", "CLOSING", "TERMINATED"}
PCs == {"test", "lock", "wait", "woken", "taken", "run", "stop", "exit"}
Statuses == {"new", "queued", "taken", "done", "expired", "deleted"}

TypeOK ==
  /\ threadState \in ThreadStates
  /\ taskList \in Seq(AllTasks)
  /\ pc \in PCs
  /\ current \in AllTasks \cup {NoTask}
  /\ notifying \subseteq Threads
  /\ status \in [AllTasks -> Statuses]
  /\ dispatcherCycle \in Nat
  /\ bailed \in BOOLEAN

Init ==
  /\ threadState = "RUNNING"
  /\ taskList = <<>>
  /\ pc = "test"
  /\ current = NoTask
  /\ notifying = {}
  /\ status = [t \in AllTasks |-> "new"]
  /\ dispatcherCycle = 0
  /\ bailed = FALSE

-----------------------------------------------------------------------------
(* taskSignal: the dispatcher is the only thread that ever waits on it, so *)
(* a notification either wakes it up or is lost.                           *)

Wake(p) == IF p = "wait" THEN "woken" ELSE p

(* A thread may call into the dispatcher when it is not inside a call; the *)
(* dispatcher's own thread, only from the task it is running.              *)
CanCall(th) ==
  /\ th \notin notifying
  /\ th = DispatcherThread => pc = "run" /\ current # Terminator

(* The list addTask leaves behind, and whether it has to signal.           *)
Pushed(th, task) ==
  IF th = SchedulerThread THEN <<task>> \o taskList ELSE Append(taskList, task)

\* Mutant: the list is looked at after the push.
MustSignalAfterPush == FALSE

MustSignal == taskList = <<>>

\* Mutant: addTask does not look at the state.
AcceptInAnyState(th, task) ==
  /\ taskList' = Pushed(th, task)
  /\ status' = [status EXCEPT ![task] = "queued"]
  /\ notifying' = IF MustSignal THEN notifying \cup {th} ELSE notifying

(* The part of addTask under the lock, when the dispatcher is running.     *)
Accept(th, task) ==
  /\ threadState = "RUNNING"
  /\ taskList' = Pushed(th, task)
  /\ status' = [status EXCEPT ![task] = "queued"]
  /\ notifying' = IF MustSignal THEN notifying \cup {th} ELSE notifying

(* Dispatcher::addTask up to its unlock().                                 *)
AddTask(th, task) ==
  /\ CanCall(th)
  /\ task # GameShutdown
  /\ status[task] = "new"
  /\ \/ Accept(th, task)
     \/ /\ threadState # "RUNNING"
        /\ status' = [status EXCEPT ![task] = "deleted"]
        /\ UNCHANGED <<taskList, notifying>>
  /\ UNCHANGED <<threadState, pc, current, dispatcherCycle, bailed>>

(* The notify_one() at the end of addTask.                                 *)
Notify(th) ==
  /\ th \in notifying
  /\ notifying' = notifying \ {th}
  /\ pc' = Wake(pc)
  /\ UNCHANGED <<threadState, taskList, current, status, dispatcherCycle,
                 bailed>>

-----------------------------------------------------------------------------
(* Dispatcher::threadMain.                                                 *)

(* The loop condition, read without the lock.                              *)
TestState ==
  /\ pc = "test"
  /\ pc' = IF threadState # "TERMINATED" THEN "lock" ELSE "exit"
  /\ UNCHANGED <<threadState, taskList, current, notifying, status,
                 dispatcherCycle, bailed>>

(* The list is empty: taskSignal.wait() releases the lock and blocks.      *)
WaitForSignal ==
  /\ pc = "lock"
  /\ taskList = <<>>
  /\ pc' = "wait"
  /\ UNCHANGED <<threadState, taskList, current, notifying, status,
                 dispatcherCycle, bailed>>

(* A condition variable may wake up without being notified.                *)
SpuriousWakeup ==
  /\ pc = "wait"
  /\ pc' = "woken"
  /\ UNCHANGED <<threadState, taskList, current, notifying, status,
                 dispatcherCycle, bailed>>

\* Mutant: front() without pop_front().
TakeWithoutPop ==
  /\ pc \in {"lock", "woken"}
  /\ taskList # <<>>
  /\ current' = Head(taskList)
  /\ status' = [status EXCEPT ![Head(taskList)] = "taken"]
  /\ pc' = "taken"
  /\ UNCHANGED <<threadState, taskList, notifying, dispatcherCycle, bailed>>

(* The dispatcher has the lock and the list is not empty.                  *)
TakeTask ==
  /\ pc \in {"lock", "woken"}
  /\ taskList # <<>>
  /\ current' = Head(taskList)
  /\ taskList' = Tail(taskList)
  /\ status' = [status EXCEPT ![Head(taskList)] = "taken"]
  /\ pc' = "taken"
  /\ UNCHANGED <<threadState, notifying, dispatcherCycle, bailed>>

(* Woken up and the list is still empty: unlock and go round again.        *)
NothingToTake ==
  /\ pc = "woken"
  /\ taskList = <<>>
  /\ pc' = "test"
  /\ UNCHANGED <<threadState, taskList, current, notifying, status,
                 dispatcherCycle, bailed>>

\* Mutant: every task may be found expired.
DropAny ==
  /\ pc = "taken"
  /\ status' = [status EXCEPT ![current] = "expired"]
  /\ current' = NoTask
  /\ pc' = "test"
  /\ UNCHANGED <<threadState, taskList, notifying, dispatcherCycle, bailed>>

(* hasExpired(): a task with an expiration time may be too late; it is     *)
(* deleted without being executed.                                         *)
DropExpired ==
  /\ pc = "taken"
  /\ current \in Expiring
  /\ status' = [status EXCEPT ![current] = "expired"]
  /\ current' = NoTask
  /\ pc' = "test"
  /\ UNCHANGED <<threadState, taskList, notifying, dispatcherCycle, bailed>>

BeginTask ==
  /\ pc = "taken"
  /\ dispatcherCycle' = dispatcherCycle + 1
  /\ pc' = "run"
  /\ UNCHANGED <<threadState, taskList, current, notifying, status, bailed>>

(* The task returns and is deleted.  Game::shutdown does not return before *)
(* it has called Dispatcher::shutdown, and the terminating task is         *)
(* RunTerminator.                                                          *)
EndTask ==
  /\ pc = "run"
  /\ DispatcherThread \notin notifying
  /\ current # Terminator
  /\ current = GameShutdown => status[Terminator] # "new"
  /\ status' = [status EXCEPT ![current] = "done"]
  /\ current' = NoTask
  /\ pc' = "test"
  /\ UNCHANGED <<threadState, taskList, notifying, dispatcherCycle, bailed>>

(* The task Dispatcher::shutdown creates; the dispatcher runs it itself,   *)
(* so its notify_one() finds nobody waiting.                               *)
RunTerminator ==
  /\ pc = "run"
  /\ current = Terminator
  /\ threadState' = "TERMINATED"
  /\ status' = [status EXCEPT ![Terminator] = "done"]
  /\ current' = NoTask
  /\ pc' = "test"
  /\ UNCHANGED <<taskList, notifying, dispatcherCycle, bailed>>

-----------------------------------------------------------------------------
(* Shutting down.                                                          *)

(* Game::setGameState(GAME_STATE_SHUTDOWN), called by some task: it posts  *)
(* Game::shutdown and then stops the dispatcher.  gameState makes it final *)
(* ("this cannot be stopped"), so it happens once.                         *)
BeginShutdown ==
  /\ CanCall(DispatcherThread)
  /\ status[GameShutdown] = "new"
  /\ ~bailed
  /\ Accept(DispatcherThread, GameShutdown)
  /\ pc' = "stop"
  /\ UNCHANGED <<threadState, current, dispatcherCycle, bailed>>

(* ThreadHolder::stop(), outside the lock.                                 *)
Stop ==
  /\ pc = "stop"
  /\ DispatcherThread \notin notifying
  /\ threadState' = "CLOSING"
  /\ pc' = "run"
  /\ UNCHANGED <<taskList, current, notifying, status, dispatcherCycle, bailed>>

(* Dispatcher::shutdown(): it pushes whatever the state is, and notifies   *)
(* before it releases the lock.                                            *)
Shutdown ==
  /\ status[Terminator] = "new"
  /\ taskList' = Append(taskList, Terminator)
  /\ status' = [status EXCEPT ![Terminator] = "queued"]
  /\ pc' = Wake(pc)
  /\ UNCHANGED <<threadState, current, notifying, dispatcherCycle>>

(* Game::shutdown calls it from the dispatcher's thread.                   *)
ShutdownByGame ==
  /\ CanCall(DispatcherThread)
  /\ current = GameShutdown
  /\ Shutdown
  /\ UNCHANGED bailed

(* main() calls it when the loader ends and no service is running.  It     *)
(* never calls stop() first.                                               *)
ShutdownByMain ==
  /\ status[GameShutdown] = "new"
  /\ Shutdown
  /\ bailed' = TRUE

-----------------------------------------------------------------------------
DispatcherStep ==
  \/ TestState
  \/ WaitForSignal
  \/ TakeTask
  \/ NothingToTake
  \/ DropExpired
  \/ BeginTask
  \/ EndTask
  \/ RunTerminator
  \/ Stop
  \/ ShutdownByGame

Next ==
  \/ \E th \in Threads, task \in Tasks : AddTask(th, task)
  \/ \E th \in Threads : Notify(th)
  \/ DispatcherStep
  \/ SpuriousWakeup
  \/ BeginShutdown
  \/ ShutdownByMain

(* The operating system runs every thread: the dispatcher's thread moves   *)
(* on when it can (tasks return), and a thread that has left the lock      *)
(* reaches its notify_one().  Nothing forces anybody to post a task, or    *)
(* the condition variable to wake up by itself.                            *)
Fairness ==
  /\ WF_vars(DispatcherStep)
  /\ \A th \in Threads : WF_vars(Notify(th))

Spec == Init /\ [][Next]_vars /\ Fairness

-----------------------------------------------------------------------------
(* Safety.                                                                 *)

(* addTask notifies only when it finds the list empty, and after releasing *)
(* the lock.  That is enough: the dispatcher never blocks on a list that   *)
(* holds a task unless a thread is on its way to wake it up.               *)
NoLostWakeup ==
  (pc = "wait" /\ taskList # <<>>) => notifying # {}

(* Each accepted task is in exactly one place: queued once, or in the      *)
(* dispatcher's hand, and the pointer is not there any more once the task  *)
(* object has been deleted.                                                *)
OwnedOnce ==
  /\ \A i, j \in DOMAIN taskList : taskList[i] = taskList[j] => i = j
  /\ \A t \in AllTasks :
       /\ status[t] = "queued" <=> \E i \in DOMAIN taskList : taskList[i] = t
       /\ status[t] = "taken" <=> current = t

(* stop() before shutdown() makes the end orderly: when the dispatcher     *)
(* terminates, no task it accepted is left behind in the list, whatever    *)
(* the other threads were posting meanwhile.  (main() does not call stop() *)
(* when it bails out.)                                                     *)
NothingStranded ==
  (threadState = "TERMINATED" /\ ~bailed) => taskList = <<>>

(* Liveness.                                                               *)

(* Every task that is accepted is executed or found expired, unless main() *)
(* bailed out.                                                             *)
AcceptedTasksEnd ==
  \A t \in Tasks : (status[t] = "queued") ~>
                     (status[t] \in {"done", "expired"} \/ bailed)

(* A shutdown, once begun, ends with the dispatcher's thread out of        *)
(* threadMain, so that join() in main() returns.                           *)
ShutdownEnds ==
  (threadState = "CLOSING" \/ bailed) ~> (pc = "exit")

-----------------------------------------------------------------------------
(* Refinement: the dispatcher implements the serial executor.              *)

Fate(s) ==
  CASE s \in {"queued", "taken"} -> "accepted"
    [] s = "expired" -> "dropped"
    [] s = "deleted" -> "refused"
    [] OTHER -> s

Executor == INSTANCE SerialExecutor WITH
  Jobs <- AllTasks,
  Poison <- Terminator,
  NoJob <- NoTask,
  queue <- taskList,
  fate <- [t \in AllTasks |-> Fate(status[t])],
  closed <- (threadState = "TERMINATED")

(* The dispatcher implements SerialExecutor: tasks run alone, in list      *)
(* order, once, and are not left waiting.                                  *)
ImplementsExecutor == Executor!Spec

(* Every accepted task and every shutdown comes to its end.                *)
WorkEnds == AcceptedTasksEnd /\ ShutdownEnds
=============================================================================
