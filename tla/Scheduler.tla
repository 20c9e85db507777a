------------------------------ MODULE Scheduler ------------------------------
(***************************************************************************)
(* The scheduler (scheduler.cpp, scheduler.h, thread_holder_base.h): a     *)
(* thread that keeps the timed events of the server and hands each one,    *)
(* when its time has come, to the dispatcher, in front of what is queued   *)
(* there.  The dispatcher is the serial executor it is shown to implement  *)
(* in Dispatcher.tla.                                                      *)
(*                                                                         *)
(* Granularity is that of Dispatcher.tla: a section under eventLock is one *)
(* step; the loop test, the waits, the wake-ups and the notify_one() after *)
(* an unlock() are steps of their own.  The heap eventList is the set of   *)
(* its events: of several with the smallest cycle, any may be on top.      *)
(***************************************************************************)
EXTENDS Integers, Sequences, FiniteSets

CONSTANTS
  Events,           \* scheduler tasks; each is added at most once
  Callers,          \* threads that call addEvent and stopEvent
  DispatcherThread, \* the caller that runs the game's tasks
  NoEvent,          \* no event in hand
  Delays,           \* delays an event may be created with
  MaxTime,          \* bound on the clock
  IdModulus         \* 2^32 in the code: event ids are uint32_t

ASSUME SchedulerAssumption ==
  /\ DispatcherThread \in Callers
  /\ NoEvent \notin Events
  /\ Delays \subseteq Nat
  /\ MaxTime \in Nat
  /\ IdModulus \in Nat \ {0, 1}
  /\ IsFiniteSet(Events) /\ Cardinality(Events) < IdModulus

VARIABLES
  threadState,  \* ThreadHolder::threadState
  eventList,    \* Scheduler::eventList, as a set
  eventIds,     \* Scheduler::eventIds
  lastEventId,  \* Scheduler::lastEventId
  eventId,      \* SchedulerTask::eventId of each event, 0 before addEvent
  cycle,        \* Task::expiration of each event, its getCycle()
  pc,           \* where the scheduler's thread is in threadMain
  deadline,     \* the argument of wait_until
  task,         \* the local variable task of threadMain
  notifying,    \* threads between unlock() and notify_one() in addEvent
  stopped,      \* events whose stopEvent returned true
  shutdownPc,   \* progress of Scheduler::shutdown
  now,          \* the clock
  dispOpen,     \* g_dispatcher is RUNNING: it accepts tasks
  dispQueue,    \* the dispatcher's list (its scheduler tasks)
  dispTask,     \* the scheduler task the dispatcher is executing
  fate          \* what the dispatcher did with each event

schedVars == <<threadState, eventList, eventIds, lastEventId, eventId, cycle,
               pc, deadline, task, notifying, stopped, shutdownPc>>
dispVars == <<dispOpen, dispQueue, dispTask, fate>>
vars == <<schedVars, dispVars, now>>

D == INSTANCE SerialExecutor WITH
  Jobs <- Events, Poison <- NoEvent, NoJob <- NoEvent,
  queue <- dispQueue, current <- dispTask, closed <- FALSE

PCs == {"test", "lock", "wait", "waitUntil", "woken", "timeout", "handoff",
        "exit"}

TypeOK ==
  /\ threadState \in {"RUNNING", "CLOSING", "TERMINATED"}
  /\ eventList \subseteq Events
  /\ eventIds \subseteq 1 .. IdModulus - 1
  /\ lastEventId \in 0 .. IdModulus - 1
  /\ eventId \in [Events -> 0 .. IdModulus - 1]
  /\ cycle \in [Events -> Nat]
  /\ pc \in PCs
  /\ deadline \in Nat
  /\ task \in Events \cup {NoEvent}
  /\ notifying \subseteq Callers
  /\ stopped \subseteq Events
  /\ shutdownPc \in {"no", "set", "cleared", "done"}
  /\ now \in Nat
  /\ dispOpen \in BOOLEAN
  /\ dispQueue \in Seq(Events)
  /\ dispTask \in Events \cup {NoEvent}
  /\ fate \in [Events -> {"new", "accepted", "refused", "done"}]

(* The server has been up for a while: any number of events came and went. *)
Init ==
  /\ threadState = "RUNNING"
  /\ eventList = {}
  /\ eventIds = {}
  /\ lastEventId \in 0 .. IdModulus - 1
  /\ eventId = [e \in Events |-> 0]
  /\ cycle = [e \in Events |-> 0]
  /\ pc = "test"
  /\ deadline = 0
  /\ task = NoEvent
  /\ notifying = {}
  /\ stopped = {}
  /\ shutdownPc = "no"
  /\ now = 0
  /\ dispOpen = TRUE
  /\ D!Init

-----------------------------------------------------------------------------
(* eventSignal: the scheduler's thread is the only one that waits on it.   *)
Wake(p) == IF p \in {"wait", "waitUntil"} THEN "woken" ELSE p

(* eventList.top() when the heap holds S.                                  *)
IsTop(e, S) == e \in S /\ \A f \in S : cycle[e] <= cycle[f]

(* ++lastEventId, skipping 0 when it wraps around.                         *)
NextId(id) == IF (id + 1) % IdModulus = 0 THEN 1 ELSE (id + 1) % IdModulus

(* The dispatcher's thread is not inside Game::shutdown's call of          *)
(* Scheduler::shutdown (when main() makes that call, g_dispatcher is not   *)
(* stopped and its thread goes on).                                        *)
DispatcherFree == shutdownPc \in {"no", "done"} \/ dispOpen

CanCall(th) ==
  /\ th \notin notifying
  /\ th = DispatcherThread => DispatcherFree

\* Mutants: the heap's order is reversed in the comparison; no signal.
BecomesLast(due) == \A f \in eventList : due > cycle[f]
NeverSignals(due) == FALSE

(* Does addEvent signal?  task == eventList.top() holds for a new event    *)
(* only if it is due strictly before every event of the heap.              *)
BecomesTop(due) == \A f \in eventList : due < cycle[f]

(* createSchedulerTask and Scheduler::addEvent up to its unlock().         *)
AddEvent(th, e, delay) ==
  /\ CanCall(th)
  /\ eventId[e] = 0
  /\ threadState = "RUNNING"
  /\ now + delay <= MaxTime
  /\ lastEventId' = NextId(lastEventId)
  /\ eventId' = [eventId EXCEPT ![e] = lastEventId']
  /\ cycle' = [cycle EXCEPT ![e] = now + delay]
  /\ eventIds' = eventIds \cup {lastEventId'}
  /\ eventList' = eventList \cup {e}
  /\ notifying' = IF BecomesTop(now + delay) THEN notifying \cup {th}
                                             ELSE notifying
  /\ UNCHANGED <<threadState, pc, deadline, task, stopped, shutdownPc, now,
                 dispVars>>

(* addEvent in any other state deletes the event and returns 0: nothing    *)
(* changes.  The notify_one() at its end:                                  *)
Notify(th) ==
  /\ th \in notifying
  /\ notifying' = notifying \ {th}
  /\ pc' = Wake(pc)
  /\ UNCHANGED <<threadState, eventList, eventIds, lastEventId, eventId, cycle,
                 deadline, task, stopped, shutdownPc, now, dispVars>>

(* Scheduler::stopEvent with the id addEvent returned for e; when it finds *)
(* no such id it returns false and changes nothing.                        *)
StopEvent(th, e) ==
  /\ CanCall(th)
  /\ eventId[e] # 0
  /\ eventId[e] \in eventIds
  /\ eventIds' = eventIds \ {eventId[e]}
  /\ stopped' = stopped \cup {e}
  /\ UNCHANGED <<threadState, eventList, lastEventId, eventId, cycle, pc,
                 deadline, task, notifying, shutdownPc, now, dispVars>>

-----------------------------------------------------------------------------
(* Scheduler::threadMain.                                                  *)

TestState ==
  /\ pc = "test"
  /\ pc' = IF threadState # "TERMINATED" THEN "lock" ELSE "exit"
  /\ UNCHANGED <<threadState, eventList, eventIds, lastEventId, eventId, cycle,
                 deadline, task, notifying, stopped, shutdownPc, now, dispVars>>

Block ==
  /\ pc = "lock"
  /\ \/ /\ eventList = {}
        /\ pc' = "wait"
        /\ UNCHANGED deadline
     \/ /\ pc' = "waitUntil"
        /\ \E e \in eventList : IsTop(e, eventList) /\ deadline' = cycle[e]
  /\ UNCHANGED <<threadState, eventList, eventIds, lastEventId, eventId, cycle,
                 task, notifying, stopped, shutdownPc, now, dispVars>>

Timeout ==
  /\ pc = "waitUntil"
  /\ now >= deadline
  /\ pc' = "timeout"
  /\ UNCHANGED <<threadState, eventList, eventIds, lastEventId, eventId, cycle,
                 deadline, task, notifying, stopped, shutdownPc, now, dispVars>>

(* A condition variable may wake up without being notified; wait_until     *)
(* reports a timeout once its deadline has passed.                         *)
SpuriousWakeup ==
  /\ pc = "wait" \/ (pc = "waitUntil" /\ now < deadline)
  /\ pc' = "woken"
  /\ UNCHANGED <<threadState, eventList, eventIds, lastEventId, eventId, cycle,
                 deadline, task, notifying, stopped, shutdownPc, now, dispVars>>

(* Woken without a timeout, or with the heap emptied meanwhile: unlock.    *)
GoRound ==
  /\ pc = "woken" \/ (pc = "timeout" /\ eventList = {})
  /\ pc' = "test"
  /\ UNCHANGED <<threadState, eventList, eventIds, lastEventId, eventId, cycle,
                 deadline, task, notifying, stopped, shutdownPc, now, dispVars>>

\* Mutant: the ids are not looked at.
PopStoppedToo(e) ==
  /\ pc = "timeout"
  /\ IsTop(e, eventList)
  /\ eventList' = eventList \ {e}
  /\ eventIds' = eventIds \ {eventId[e]}
  /\ pc' = "handoff" /\ task' = e
  /\ UNCHANGED <<threadState, lastEventId, eventId, cycle, deadline, notifying,
                 stopped, shutdownPc, now, dispVars>>

\* Mutant: the result of wait_until is not looked at.
PopWhenWoken(e) ==
  /\ pc \in {"timeout", "woken"}
  /\ IsTop(e, eventList)
  /\ eventList' = eventList \ {e}
  /\ eventIds' = eventIds \ {eventId[e]}
  /\ IF eventId[e] \in eventIds
     THEN pc' = "handoff" /\ task' = e
     ELSE pc' = "test" /\ UNCHANGED task
  /\ UNCHANGED <<threadState, lastEventId, eventId, cycle, deadline, notifying,
                 stopped, shutdownPc, now, dispVars>>

(* After a timeout the top is popped.  If its id is gone the event was     *)
(* stopped and is deleted; otherwise the id goes and the event is handed   *)
(* over after the unlock.                                                  *)
PopEvent(e) ==
  /\ pc = "timeout"
  /\ IsTop(e, eventList)
  /\ eventList' = eventList \ {e}
  /\ eventIds' = eventIds \ {eventId[e]}
  /\ IF eventId[e] \in eventIds
     THEN pc' = "handoff" /\ task' = e
     ELSE pc' = "test" /\ UNCHANGED task
  /\ UNCHANGED <<threadState, lastEventId, eventId, cycle, deadline, notifying,
                 stopped, shutdownPc, now, dispVars>>

(* setDontExpire(); g_dispatcher.addTask(task, true).                      *)
HandOff ==
  /\ pc = "handoff"
  /\ \/ dispOpen /\ D!Accept(task) /\ dispQueue' = <<task>> \o dispQueue
     \/ ~dispOpen /\ D!Refuse(task)
  /\ task' = NoEvent
  /\ pc' = "test"
  /\ UNCHANGED <<threadState, eventList, eventIds, lastEventId, eventId, cycle,
                 deadline, notifying, stopped, shutdownPc, now, dispOpen>>

-----------------------------------------------------------------------------
(* The dispatcher executes what it was handed.                             *)
RunEvents ==
  /\ DispatcherFree
  /\ D!Take \/ D!Complete
  /\ UNCHANGED <<schedVars, dispOpen, now>>

Tick ==
  /\ now < MaxTime
  /\ now' = now + 1
  /\ UNCHANGED <<schedVars, dispVars>>

-----------------------------------------------------------------------------
(* Shutting down: Game::setGameState stops the scheduler and then the      *)
(* dispatcher; the next task, Game::shutdown, calls Scheduler::shutdown.   *)
(* main() calls it without stopping anything when no service is running.   *)

Stop ==
  /\ threadState = "RUNNING"
  /\ shutdownPc = "no"
  /\ threadState' = "CLOSING"
  /\ UNCHANGED <<eventList, eventIds, lastEventId, eventId, cycle, pc, deadline,
                 task, notifying, stopped, shutdownPc, now, dispVars>>

StopDispatcher ==
  /\ threadState = "CLOSING"
  /\ dispOpen
  /\ dispOpen' = FALSE
  /\ UNCHANGED <<schedVars, dispQueue, dispTask, fate, now>>

(* Scheduler::shutdown: the state is set before the lock is taken ...      *)
ShutdownSetState ==
  /\ shutdownPc = "no"
  /\ threadState = "RUNNING" \/ ~dispOpen
  /\ threadState' = "TERMINATED"
  /\ shutdownPc' = "set"
  /\ UNCHANGED <<eventList, eventIds, lastEventId, eventId, cycle, pc, deadline,
                 task, notifying, stopped, now, dispVars>>

(* ... under the lock all events are deleted ...                           *)
ShutdownClear ==
  /\ shutdownPc = "set"
  /\ eventList' = {}
  /\ eventIds' = {}
  /\ shutdownPc' = "cleared"
  /\ UNCHANGED <<threadState, lastEventId, eventId, cycle, pc, deadline, task,
                 notifying, stopped, now, dispVars>>

(* ... and the thread is notified after it has been released.              *)
ShutdownNotify ==
  /\ shutdownPc = "cleared"
  /\ shutdownPc' = "done"
  /\ pc' = Wake(pc)
  /\ UNCHANGED <<threadState, eventList, eventIds, lastEventId, eventId, cycle,
                 deadline, task, notifying, stopped, now, dispVars>>

-----------------------------------------------------------------------------
SchedulerStep ==
  \/ TestState
  \/ Block
  \/ Timeout
  \/ GoRound
  \/ \E e \in Events : PopEvent(e)
  \/ HandOff

ShutdownStep == StopDispatcher \/ ShutdownSetState \/ ShutdownClear
                  \/ ShutdownNotify

Next ==
  \/ \E th \in Callers, e \in Events, d \in Delays : AddEvent(th, e, d)
  \/ \E th \in Callers : Notify(th)
  \/ \E th \in Callers, e \in Events : StopEvent(th, e)
  \/ SchedulerStep
  \/ SpuriousWakeup
  \/ RunEvents
  \/ Tick
  \/ Stop
  \/ ShutdownStep

(* Threads are scheduled, time passes, and a shutdown that Game::          *)
(* setGameState began is carried through.  Nothing forces a spurious       *)
(* wake-up, a new event, or the beginning of a shutdown.                   *)
Fairness ==
  /\ WF_vars(SchedulerStep)
  /\ WF_vars(RunEvents)
  /\ WF_vars(Tick)
  /\ WF_vars(ShutdownStep /\ threadState # "RUNNING")
  /\ \A th \in Callers : WF_vars(Notify(th))

Spec == Init /\ [][Next]_vars /\ Fairness

-----------------------------------------------------------------------------
(* Safety.                                                                 *)

(* The ids a caller can still cancel are exactly those of the events in    *)
(* the heap that nobody stopped: stopEvent returns true if and only if     *)
(* the event will not run because of it.                                   *)
IdsTrackPending ==
  eventIds = {eventId[e] : e \in eventList \ stopped}

(* An event whose stopEvent returned true never reaches the dispatcher,    *)
(* whatever the scheduler's thread was doing at that moment.               *)
StoppedNeverRuns ==
  \A e \in stopped : task # e /\ fate[e] = "new"

(* The timeout may be that of a deadline read before other events came in  *)
(* and went, and the code pops the top without looking at the clock; yet   *)
(* no event leaves the heap before its time.                               *)
NeverEarly ==
  \A e \in Events : (task = e \/ fate[e] # "new") => cycle[e] <= now

(* addEvent signals only when the new event becomes the top.  The thread   *)
(* never sleeps past the first event of the heap unless a thread is on its *)
(* way to wake it up.                                                      *)
NeverOversleeps ==
  \A e \in eventList :
    (pc = "wait" \/ (pc = "waitUntil" /\ cycle[e] < deadline)) => notifying # {}

(* Liveness.                                                               *)

(* An event that nobody stops is executed, unless the server shuts down.   *)
EventsRun ==
  \A e \in Events :
    (e \in eventList) ~>
      (fate[e] = "done" \/ e \in stopped \/ threadState # "RUNNING")

(* What signals.cpp says of SIGINT and SIGTERM, "Shuts the server down":   *)
(* once Scheduler::shutdown has been called, the scheduler's thread leaves *)
(* threadMain, so that main() gets past g_scheduler.join().                *)
ShutdownEnds == (threadState = "TERMINATED") ~> (pc = "exit")

(* Ids name the events that are pending, and no others: an event that was  *)
(* stopped is not run by the reuse of its place or its id.                 *)
EventsTracked == TypeOK /\ IdsTrackPending /\ StoppedNeverRuns
=============================================================================
