--------------------------- MODULE SchedulerProofs ---------------------------
(***************************************************************************)
(* Proofs about Scheduler, for any number of threads and events and any    *)
(* delays: its thread never oversleeps, no event runs before its time, and *)
(* ids name one event each although their counter wraps around.            *)
(***************************************************************************)
EXTENDS Scheduler, TLAPS, FiniteSetTheorems

(* ++lastEventId never yields 0, the id that means "no event".             *)
LEMMA NextIdType ==
  ASSUME NEW id \in 0 .. IdModulus - 1
  PROVE  NextId(id) \in 1 .. IdModulus - 1
<1>1. IdModulus \in Nat /\ IdModulus > 1
  BY SchedulerAssumption
<1>2. (id + 1) % IdModulus \in 0 .. IdModulus - 1
  BY <1>1
<1> QED
  BY <1>1, <1>2 DEF NextId

(* threadMain has an event to hand over exactly where it does so.          *)
HandMatchesPc == pc = "handoff" <=> task # NoEvent

(* shutdown() terminates the thread first of all.                          *)
StateSetFirst == shutdownPc # "no" => threadState = "TERMINATED"

TypeInv == TypeOK /\ HandMatchesPc /\ StateSetFirst

(* A scheduler that has just been started has well-typed state.            *)
LEMMA TypeInit == Init => TypeInv
<1> SUFFICES ASSUME Init
             PROVE  TypeInv
  OBVIOUS
<1>1. dispOpen \in BOOLEAN
  BY Zenon DEF Init
<1>2. IdModulus \in Nat /\ IdModulus > 1
  BY SchedulerAssumption
<1> QED
  BY <1>1, <1>2 DEF Init, D!Init, TypeInv, TypeOK, PCs, HandMatchesPc,
     StateSetFirst

(* Every variable keeps its type along every step.                         *)
LEMMA TypeStep == TypeInv /\ [Next]_vars => TypeInv'
<1> SUFFICES ASSUME TypeInv, [Next]_vars
             PROVE  TypeInv'
  OBVIOUS
<1> USE DEF TypeInv, TypeOK, HandMatchesPc, StateSetFirst, PCs, dispVars,
        schedVars
<1>w. Wake(pc) \in PCs /\ (Wake(pc) = "handoff" <=> pc = "handoff")
  BY DEF Wake
<1>1. CASE \E th \in Callers, e \in Events, d \in Delays : AddEvent(th, e, d)
  <2> PICK th \in Callers, e \in Events, d \in Delays : AddEvent(th, e, d)
    BY <1>1
  <2>1. lastEventId' \in 1 .. IdModulus - 1
    BY NextIdType DEF AddEvent
  <2>2. now + d \in Nat
    BY SchedulerAssumption
  <2>3. IdModulus \in Nat
    BY SchedulerAssumption
  <2>4. /\ eventIds' \subseteq 1 .. IdModulus - 1
        /\ lastEventId' \in 0 .. IdModulus - 1
        /\ eventId' \in [Events -> 0 .. IdModulus - 1]
    <3>1. lastEventId' \in 0 .. IdModulus - 1
      BY <2>1, <2>3
    <3>2. eventIds' \subseteq 1 .. IdModulus - 1
      BY <2>1 DEF AddEvent
    <3>3. eventId' = [eventId EXCEPT ![e] = lastEventId']
      BY DEF AddEvent
    <3>4. eventId' \in [Events -> 0 .. IdModulus - 1]
      BY <3>1, <3>3
    <3> QED
      BY <3>1, <3>2, <3>4
  <2>5. /\ eventList' \subseteq Events
        /\ cycle' \in [Events -> Nat]
        /\ notifying' \subseteq Callers
    BY <2>2 DEF AddEvent
  <2> QED
    BY <2>4, <2>5 DEF AddEvent
<1>2. CASE \E th \in Callers : Notify(th)
  BY <1>2, <1>w DEF Notify
<1>3. CASE \E th \in Callers, e \in Events : StopEvent(th, e)
  BY <1>3 DEF StopEvent
<1>4. CASE TestState
  BY <1>4 DEF TestState
<1>5. CASE Block
  BY <1>5 DEF Block
<1>6. CASE Timeout
  BY <1>6 DEF Timeout
<1>7. CASE GoRound
  BY <1>7 DEF GoRound
<1>8. CASE \E e \in Events : PopEvent(e)
  <2> PICK e \in Events : PopEvent(e)
    BY <1>8
  <2>1. e # NoEvent
    BY SchedulerAssumption
  <2>2. CASE eventId[e] \in eventIds
    BY <2>1, <2>2 DEF PopEvent
  <2>3. CASE eventId[e] \notin eventIds
    BY <2>3 DEF PopEvent
  <2> QED
    BY <2>2, <2>3
<1>9. CASE HandOff
  <2>1. task \in Events
    BY <1>9 DEF HandOff
  <2>2. <<task>> \in Seq(Events)
    BY <2>1
  <2>3. <<task>> \o dispQueue \in Seq(Events)
    BY <2>2
  <2>4. dispQueue' \in Seq(Events) /\ dispTask' = dispTask
    BY <1>9, <2>3 DEF HandOff, D!Accept, D!Refuse
  <2>5. fate' \in [Events -> {"new", "accepted", "refused", "done"}]
    BY <1>9, <2>1 DEF HandOff, D!Accept, D!Refuse
  <2> QED
    BY <1>9, <2>4, <2>5 DEF HandOff
<1>10. CASE SpuriousWakeup
  BY <1>10 DEF SpuriousWakeup
<1>11. CASE RunEvents
  <2>1. CASE D!Take
    <3>1. Head(dispQueue) \in Events /\ Tail(dispQueue) \in Seq(Events)
      BY <2>1 DEF D!Take
    <3> QED
      BY <1>11, <2>1, <3>1 DEF RunEvents, D!Take
  <2>2. CASE D!Complete
    BY <1>11, <2>2 DEF RunEvents, D!Complete
  <2> QED
    BY <1>11, <2>1, <2>2 DEF RunEvents
<1>12. CASE Tick
  BY <1>12 DEF Tick
<1>13. CASE Stop
  BY <1>13 DEF Stop
<1>14. CASE StopDispatcher
  <2>1. dispOpen' \in BOOLEAN
    BY <1>14, Zenon DEF StopDispatcher
  <2> QED
    BY <1>14, <2>1 DEF StopDispatcher
<1>15. CASE ShutdownSetState
  BY <1>15 DEF ShutdownSetState
<1>16. CASE ShutdownClear
  BY <1>16 DEF ShutdownClear
<1>17. CASE ShutdownNotify
  BY <1>17, <1>w DEF ShutdownNotify
<1>18. CASE UNCHANGED vars
  BY <1>18 DEF vars
<1> QED
  BY <1>1, <1>2, <1>3, <1>4, <1>5, <1>6, <1>7, <1>8, <1>9, <1>10, <1>11, <1>12,
     <1>13, <1>14, <1>15, <1>16, <1>17, <1>18
     DEF Next, SchedulerStep, ShutdownStep

(* Type correctness of scheduler.cpp's shared state.                       *)
THEOREM TypeCorrect == Spec => []TypeOK
<1>1. TypeInv => TypeOK
  BY DEF TypeInv
<1> QED
  BY <1>1, TypeInit, TypeStep, PTL DEF Spec

-----------------------------------------------------------------------------
(* The inductive invariant behind NeverOversleeps and NeverEarly.          *)

(* An event without an id has not been seen by anybody.                    *)
FreshUntilAdded ==
  \A e \in Events :
    eventId[e] = 0 => e \notin eventList /\ task # e /\ fate[e] = "new"

(* While the thread waits with a deadline, or has just timed out, some     *)
(* event of the heap is due by then: others may come before it, but only   *)
(* shutdown() takes events away, and then none comes any more.             *)
DeadlineHasEvent ==
  pc \in {"waitUntil", "timeout"} =>
    \/ \E e \in eventList : cycle[e] <= deadline
    \/ eventList = {} /\ threadState = "TERMINATED"

TimeoutIsPast == pc = "timeout" => deadline <= now

(* The dispatcher has only what it was handed.                             *)
HandedOver ==
  /\ dispTask # NoEvent => fate[dispTask] # "new"
  /\ \A i \in DOMAIN dispQueue : fate[dispQueue[i]] # "new"

TimeInv ==
  /\ FreshUntilAdded
  /\ NeverOversleeps
  /\ DeadlineHasEvent
  /\ TimeoutIsPast
  /\ HandedOver
  /\ NeverEarly

(* A scheduler that has just been started satisfies the invariant.         *)
LEMMA TimeInit == Init => TimeInv
BY SchedulerAssumption
   DEF Init, D!Init, TimeInv, FreshUntilAdded, NeverOversleeps,
       DeadlineHasEvent, TimeoutIsPast, HandedOver, NeverEarly

(* Every step of Scheduler preserves the invariant.                        *)
LEMMA TimeStep == TypeInv /\ TimeInv /\ [Next]_vars => TimeInv'
<1> SUFFICES ASSUME TypeOK, HandMatchesPc, StateSetFirst, TimeInv, [Next]_vars
             PROVE  TimeInv'
  BY DEF TypeInv
<1> USE DEF TimeInv
<1>t. /\ cycle \in [Events -> Nat]
      /\ eventId \in [Events -> 0 .. IdModulus - 1]
      /\ fate \in [Events -> {"new", "accepted", "refused", "done"}]
      /\ dispQueue \in Seq(Events)
      /\ dispTask \in Events \cup {NoEvent}
      /\ task \in Events \cup {NoEvent}
      /\ eventList \subseteq Events
      /\ deadline \in Nat /\ now \in Nat
      /\ NoEvent \notin Events
  BY SchedulerAssumption DEF TypeOK
\* Steps that at most move the thread to a place where it is awake.
<1>m. ASSUME UNCHANGED <<eventList, eventId, cycle, task, now, fate, dispQueue,
                         dispTask>>,
             pc' \notin {"wait", "waitUntil", "timeout"}
      PROVE  TimeInv'
  BY <1>m DEF FreshUntilAdded, NeverOversleeps, DeadlineHasEvent, TimeoutIsPast,
     HandedOver, NeverEarly
\* Steps that leave the thread where it is, and its time too.
<1>s. ASSUME UNCHANGED <<eventList, eventId, cycle, task, now, fate, dispQueue,
                         dispTask, pc, deadline>>,
             notifying' = notifying,
             threadState' = threadState \/ threadState # "TERMINATED"
      PROVE  TimeInv'
  BY <1>s DEF FreshUntilAdded, NeverOversleeps, DeadlineHasEvent, TimeoutIsPast,
     HandedOver, NeverEarly
<1>1. CASE \E th \in Callers, e \in Events, d \in Delays : AddEvent(th, e, d)
  <2> PICK th \in Callers, e \in Events, d \in Delays : AddEvent(th, e, d)
    BY <1>1
  <2> DEFINE due == now + d
  <2>1. due \in Nat
    BY <1>t, SchedulerAssumption
  <2> HIDE DEF due
  <2>2. /\ eventList' = eventList \cup {e}
        /\ eventId[e] = 0
        /\ eventId' = [eventId EXCEPT ![e] = lastEventId']
        /\ cycle' = [cycle EXCEPT ![e] = due]
        /\ notifying' = IF BecomesTop(due) THEN notifying \cup {th} ELSE notifying
        /\ UNCHANGED <<pc, deadline, task, now, fate, dispQueue, dispTask, threadState>>
        /\ threadState = "RUNNING"
    BY DEF AddEvent, dispVars, due
  <2>3. lastEventId' # 0
    BY NextIdType DEF AddEvent, TypeOK
  <2>4. e \notin eventList /\ task # e /\ fate[e] = "new"
    BY <2>2 DEF FreshUntilAdded
  <2>5. /\ cycle'[e] = due
        /\ \A f \in Events \ {e} : cycle'[f] = cycle[f] /\ eventId'[f] = eventId[f]
        /\ eventId'[e] = lastEventId'
    BY <1>t, <2>2
  <2>6. FreshUntilAdded'
    BY <1>t, <2>2, <2>3, <2>5 DEF FreshUntilAdded
  <2>7. NeverOversleeps'
    <3>1. CASE BecomesTop(due)
      BY <2>2, <3>1 DEF NeverOversleeps
    <3>2. CASE ~BecomesTop(due)
      <4>1. PICK f \in eventList : ~(due < cycle[f])
        BY <3>2 DEF BecomesTop
      <4>2. cycle[f] \in Nat /\ cycle[f] <= due
        BY <1>t, <2>1, <4>1
      <4>3. ASSUME NEW g \in eventList',
                   pc' = "wait" \/ (pc' = "waitUntil" /\ cycle'[g] < deadline')
            PROVE  notifying' # {}
        <5>1. CASE g = e
          BY <1>t, <2>1, <2>2, <2>5, <3>2, <4>1, <4>2, <4>3, <5>1 DEF NeverOversleeps
        <5>2. CASE g # e
          BY <1>t, <2>2, <2>5, <3>2, <4>3, <5>2 DEF NeverOversleeps
        <5> QED
          BY <5>1, <5>2
      <4> QED
        BY <4>3 DEF NeverOversleeps
    <3> QED
      BY <3>1, <3>2
  <2>8. DeadlineHasEvent'
    BY <1>t, <2>2, <2>4, <2>5 DEF DeadlineHasEvent
  <2>9. TimeoutIsPast' /\ HandedOver'
    BY <2>2 DEF TimeoutIsPast, HandedOver
  <2>10. NeverEarly'
    BY <1>t, <2>2, <2>4, <2>5 DEF NeverEarly
  <2> QED
    BY <2>6, <2>7, <2>8, <2>9, <2>10
<1>2. CASE \E th \in Callers : Notify(th)
  <2> PICK th \in Callers : Notify(th)
    BY <1>2
  <2>1. CASE pc = "timeout"
    BY <2>1 DEF Notify, Wake, dispVars, FreshUntilAdded, NeverOversleeps,
       DeadlineHasEvent, TimeoutIsPast, HandedOver, NeverEarly
  <2>2. CASE pc # "timeout"
    BY <2>2, <1>m DEF Notify, Wake, dispVars
  <2> QED
    BY <2>1, <2>2
<1>3. CASE \E th \in Callers, e \in Events : StopEvent(th, e)
  BY <1>3, <1>s DEF StopEvent, dispVars
<1>4. CASE TestState
  BY <1>4, <1>m DEF TestState, dispVars
<1>5. CASE Block
  <2>1. UNCHANGED <<eventList, eventId, cycle, task, now, fate, dispQueue, dispTask>>
    BY <1>5 DEF Block, dispVars
  <2>2. CASE eventList = {} /\ pc' = "wait"
    BY <2>1, <2>2 DEF FreshUntilAdded, NeverOversleeps, DeadlineHasEvent,
       TimeoutIsPast, HandedOver, NeverEarly
  <2>3. CASE /\ pc' = "waitUntil"
             /\ \E e \in eventList : IsTop(e, eventList) /\ deadline' = cycle[e]
    <3> PICK e \in eventList : IsTop(e, eventList) /\ deadline' = cycle[e]
      BY <2>3
    <3>1. \A f \in eventList : ~(cycle[f] < deadline')
      BY <1>t DEF IsTop
    <3>2. cycle[e] <= deadline'
      BY <1>t
    <3>3. NeverOversleeps' /\ DeadlineHasEvent'
      BY <2>1, <2>3, <3>1, <3>2 DEF NeverOversleeps, DeadlineHasEvent
    <3> QED
      BY <2>1, <2>3, <3>3 DEF FreshUntilAdded, TimeoutIsPast, HandedOver, NeverEarly
  <2> QED
    BY <1>5, <2>2, <2>3 DEF Block
<1>6. CASE Timeout
  BY <1>6, <1>t DEF Timeout, dispVars, FreshUntilAdded, NeverOversleeps,
     DeadlineHasEvent, TimeoutIsPast, HandedOver, NeverEarly
<1>7. CASE GoRound
  BY <1>7, <1>m DEF GoRound, dispVars
<1>8. CASE \E e \in Events : PopEvent(e)
  <2> PICK e \in Events : PopEvent(e)
    BY <1>8
  <2>1. /\ pc = "timeout" /\ IsTop(e, eventList)
        /\ eventList' = eventList \ {e}
        /\ task' = e \/ task' = task
        /\ pc' \in {"handoff", "test"}
        /\ UNCHANGED <<eventId, cycle, now, fate, dispQueue, dispTask>>
    BY DEF PopEvent, dispVars
  <2>2. cycle[e] <= now
    <3>1. PICK f \in eventList : cycle[f] <= deadline
      BY <2>1 DEF DeadlineHasEvent, IsTop
    <3>2. cycle[e] <= cycle[f] /\ deadline <= now
      BY <2>1 DEF IsTop, TimeoutIsPast
    <3> QED
      BY <1>t, <3>1, <3>2
  <2>3. FreshUntilAdded'
    BY <2>1 DEF FreshUntilAdded, IsTop
  <2>4. NeverEarly'
    BY <2>1, <2>2 DEF NeverEarly
  <2> QED
    BY <2>1, <2>3, <2>4 DEF NeverOversleeps, DeadlineHasEvent, TimeoutIsPast, HandedOver
<1>9. CASE HandOff
  <2>1. /\ pc = "handoff" /\ pc' = "test" /\ task \in Events /\ task' = NoEvent
        /\ UNCHANGED <<eventList, eventId, cycle, now, dispTask>>
    BY <1>9, <1>t DEF HandOff, HandMatchesPc, D!Accept, D!Refuse
  <2>2. /\ \A e \in Events : fate'[e] # fate[e] => e = task
        /\ fate'[task] # "new"
        /\ fate' \in [Events -> {"new", "accepted", "refused", "done"}]
    BY <1>9, <1>t, <2>1 DEF HandOff, D!Accept, D!Refuse
  <2>3. FreshUntilAdded'
    BY <1>t, <2>1, <2>2 DEF FreshUntilAdded
  <2>4. NeverEarly'
    BY <1>t, <2>1, <2>2 DEF NeverEarly
  <2>5. HandedOver'
    <3>1. dispTask' # NoEvent => fate'[dispTask'] # "new"
      BY <1>t, <2>1, <2>2 DEF HandedOver
    <3>2. CASE dispQueue' = dispQueue
      <4>1. \A i \in DOMAIN dispQueue : dispQueue[i] \in Events
        BY <1>t
      <4> QED
        BY <2>2, <3>1, <3>2, <4>1 DEF HandedOver
    <3>3. CASE dispQueue' = <<task>> \o dispQueue
      <4>1. \A i \in DOMAIN dispQueue' :
              dispQueue'[i] = task
                \/ \E j \in DOMAIN dispQueue : dispQueue'[i] = dispQueue[j]
        <5> DEFINE q == <<task>> \o dispQueue
        <5>1. /\ Len(dispQueue) \in Nat
              /\ DOMAIN dispQueue = 1 .. Len(dispQueue)
              /\ DOMAIN q = 1 .. Len(dispQueue) + 1
              /\ q[1] = task
              /\ \A i \in 2 .. Len(dispQueue) + 1 : q[i] = dispQueue[i - 1]
          BY <1>t, <2>1
        <5> HIDE DEF q
        <5>2. \A i \in DOMAIN q :
                q[i] = task \/ \E j \in DOMAIN dispQueue : q[i] = dispQueue[j]
          BY <5>1
        <5> QED
          BY <3>3, <5>2 DEF q
      <4>2. \A j \in DOMAIN dispQueue : dispQueue[j] \in Events
        BY <1>t
      <4> QED
        BY <2>2, <3>1, <4>1, <4>2 DEF HandedOver
    <3> QED
      BY <1>9, <3>2, <3>3 DEF HandOff, D!Refuse
  <2> QED
    BY <2>1, <2>3, <2>4, <2>5 DEF NeverOversleeps, DeadlineHasEvent, TimeoutIsPast
<1>10. CASE SpuriousWakeup
  BY <1>10, <1>m DEF SpuriousWakeup, dispVars
<1>11. CASE RunEvents
  <2>1. UNCHANGED <<eventList, eventId, cycle, task, now, pc, deadline, notifying,
                    threadState>>
    BY <1>11 DEF RunEvents, schedVars
  <2>2. CASE D!Take
    <3>1. /\ dispQueue # <<>> /\ dispTask' = Head(dispQueue)
          /\ dispQueue' = Tail(dispQueue) /\ fate' = fate
      BY <2>2 DEF D!Take
    <3>2. HandedOver'
      <4>1. /\ 1 \in DOMAIN dispQueue /\ Head(dispQueue) = dispQueue[1]
            /\ \A i \in DOMAIN Tail(dispQueue) :
                 i + 1 \in DOMAIN dispQueue /\ Tail(dispQueue)[i] = dispQueue[i + 1]
        BY <1>t, <3>1
      <4> QED
        BY <3>1, <4>1 DEF HandedOver
    <3> QED
      BY <2>1, <3>1, <3>2 DEF FreshUntilAdded, NeverOversleeps, DeadlineHasEvent,
         TimeoutIsPast, NeverEarly
  <2>3. CASE D!Complete
    <3>1. /\ dispTask \in Events /\ fate[dispTask] # "new"
          /\ dispTask' = NoEvent /\ dispQueue' = dispQueue
          /\ fate' = [fate EXCEPT ![dispTask] = "done"]
      BY <1>t, <2>3 DEF D!Complete, HandedOver
    <3>2. \A e \in Events : fate'[e] = "new" <=> fate[e] = "new"
      BY <1>t, <3>1
    <3>3. \A i \in DOMAIN dispQueue : dispQueue[i] \in Events
      BY <1>t
    <3>4. FreshUntilAdded' /\ NeverEarly'
      BY <2>1, <3>2 DEF FreshUntilAdded, NeverEarly
    <3>5. HandedOver'
      BY <3>1, <3>2, <3>3 DEF HandedOver
    <3> QED
      BY <2>1, <3>4, <3>5 DEF NeverOversleeps, DeadlineHasEvent, TimeoutIsPast
  <2> QED
    BY <1>11, <2>2, <2>3 DEF RunEvents
<1>12. CASE Tick
  <2>1. /\ now' = now + 1
        /\ UNCHANGED <<eventList, eventId, cycle, task, pc, deadline, notifying,
                       threadState, fate, dispQueue, dispTask>>
    BY <1>12 DEF Tick, schedVars, dispVars
  <2>2. TimeoutIsPast' /\ NeverEarly'
    BY <1>t, <2>1 DEF TimeoutIsPast, NeverEarly
  <2> QED
    BY <2>1, <2>2 DEF FreshUntilAdded, NeverOversleeps, DeadlineHasEvent, HandedOver
<1>13. CASE Stop
  BY <1>13, <1>s DEF Stop, dispVars
<1>14. CASE StopDispatcher
  BY <1>14, <1>s DEF StopDispatcher, schedVars
<1>15. CASE ShutdownSetState
  BY <1>15 DEF ShutdownSetState, dispVars, FreshUntilAdded, NeverOversleeps,
     DeadlineHasEvent, TimeoutIsPast, HandedOver, NeverEarly
<1>16. CASE ShutdownClear
  BY <1>16 DEF ShutdownClear, StateSetFirst, dispVars, FreshUntilAdded, NeverOversleeps,
     DeadlineHasEvent, TimeoutIsPast, HandedOver, NeverEarly
<1>17. CASE ShutdownNotify
  <2>1. CASE pc = "timeout"
    BY <1>17, <2>1 DEF ShutdownNotify, Wake, dispVars, FreshUntilAdded,
       NeverOversleeps, DeadlineHasEvent, TimeoutIsPast, HandedOver, NeverEarly
  <2>2. CASE pc # "timeout"
    BY <1>17, <2>2, <1>m DEF ShutdownNotify, Wake, dispVars
  <2> QED
    BY <2>1, <2>2
<1>18. CASE UNCHANGED vars
  BY <1>18, <1>s DEF vars, schedVars, dispVars
<1> QED
  BY <1>1, <1>2, <1>3, <1>4, <1>5, <1>6, <1>7, <1>8, <1>9, <1>10, <1>11, <1>12,
     <1>13, <1>14, <1>15, <1>16, <1>17, <1>18
     DEF Next, SchedulerStep, ShutdownStep

(* The scheduler's thread never sleeps past the first event of its heap    *)
(* unless addEvent is about to wake it up: a notification for the new top  *)
(* only, made outside the lock, is enough.                                 *)
THEOREM SchedulerNeverOversleeps == Spec => []NeverOversleeps
<1>1. TimeInv => NeverOversleeps
  BY DEF TimeInv
<1> QED
  BY <1>1, TypeInit, TypeStep, TimeInit, TimeStep, PTL DEF Spec

(* No event reaches the dispatcher before its time, although threadMain    *)
(* pops the top without comparing it with the clock.                       *)
THEOREM SchedulerNeverEarly == Spec => []NeverEarly
<1>1. TimeInv => NeverEarly
  BY DEF TimeInv
<1> QED
  BY <1>1, TypeInit, TypeStep, TimeInit, TimeStep, PTL DEF Spec

-----------------------------------------------------------------------------
(* The inductive invariant behind EventsTracked.  Ids are given out one    *)
(* after the other, so those in use are the last ones before lastEventId:  *)
(* the next one is free as long as there are fewer events than ids, even   *)
(* after a wrap-around.                                                    *)

Added == {e \in Events : eventId[e] # 0}

(* How many ids were given out after id, when the last one was last.       *)
Behind(last, id) == IF id <= last THEN last - id ELSE last - id + (IdModulus - 1)

IdsDistinct ==
  /\ \A e \in Added : Behind(lastEventId, eventId[e]) < Cardinality(Added)
  /\ \A e, f \in Added : eventId[e] = eventId[f] => e = f

(* An event is in the heap, or in the hands of the thread, or handed over. *)
OnePlace ==
  /\ \A e \in eventList : task # e /\ fate[e] = "new"
  /\ task # NoEvent => fate[task] = "new" /\ eventId[task] # 0
  /\ stopped \subseteq Added

IdInv ==
  /\ IdsDistinct
  /\ OnePlace
  /\ IdsTrackPending
  /\ StoppedNeverRuns

(* The next id, without the remainder.                                     *)
LEMMA NextIdIs ==
  ASSUME NEW id \in 0 .. IdModulus - 1
  PROVE  NextId(id) = IF id = IdModulus - 1 THEN 1 ELSE id + 1
<1>1. IdModulus \in Nat /\ IdModulus > 1
  BY SchedulerAssumption
<1>2. ASSUME NEW m \in Nat, m > 1 PROVE m % m = 0
  BY <1>2, Z3
<1>3. ASSUME NEW m \in Nat, m > 1, NEW x \in 0 .. m - 1 PROVE x % m = x
  BY <1>3, Z3
<1>4. CASE id = IdModulus - 1
  BY <1>1, <1>2, <1>4 DEF NextId
<1>5. CASE id # IdModulus - 1
  <2>1. id + 1 \in 0 .. IdModulus - 1 /\ id + 1 # 0
    BY <1>1, <1>5
  <2> QED BY <1>1, <1>3, <1>5, <2>1 DEF NextId
<1> QED
  BY <1>4, <1>5

(* Giving out an id: all others are one further behind.                    *)
LEMMA BehindNext ==
  ASSUME NEW last \in 0 .. IdModulus - 1, NEW id \in 1 .. IdModulus - 1,
         Behind(last, id) < IdModulus - 2
  PROVE  /\ NextId(last) # id
         /\ Behind(NextId(last), id) = Behind(last, id) + 1
<1>1. IdModulus \in Nat /\ IdModulus > 1
  BY SchedulerAssumption
<1>2. CASE last = IdModulus - 1
  BY <1>1, <1>2, NextIdIs DEF Behind
<1>3. CASE last # IdModulus - 1
  BY <1>1, <1>3, NextIdIs DEF Behind
<1> QED
  BY <1>2, <1>3

(* addEvent gives out an id that no event has.                             *)
LEMMA AddDistinct ==
  ASSUME TypeOK, IdsDistinct, NEW e \in Events, eventId[e] = 0,
         lastEventId' = NextId(lastEventId),
         eventId' = [eventId EXCEPT ![e] = lastEventId']
  PROVE  /\ IdsDistinct'
         /\ Added' = Added \cup {e}
         /\ \A f \in Added : eventId[f] # lastEventId'
<1> DEFINE k == Cardinality(Added)
<1>1. /\ IdModulus \in Nat /\ IdModulus > 1
      /\ IsFiniteSet(Events) /\ Cardinality(Events) < IdModulus
  BY SchedulerAssumption
<1>2. /\ eventId \in [Events -> 0 .. IdModulus - 1]
      /\ lastEventId \in 0 .. IdModulus - 1
  BY DEF TypeOK
<1>3. lastEventId' \in 1 .. IdModulus - 1
  BY <1>2, NextIdType
<1>4. /\ eventId'[e] = lastEventId' /\ lastEventId' # 0
      /\ \A f \in Events \ {e} : eventId'[f] = eventId[f]
  BY <1>1, <1>2, <1>3
<1>5. Added' = Added \cup {e} /\ e \notin Added
  BY <1>4 DEF Added
<1>6. IsFiniteSet(Added) /\ k \in Nat /\ Cardinality(Added \cup {e}) = k + 1
  <2>1. IsFiniteSet(Added)
    BY <1>1, FS_Subset DEF Added
  <2> QED BY <1>5, <2>1, FS_AddElement, FS_CardinalityType
<1>7. k + 1 <= IdModulus - 1
  <2>1. Added \cup {e} \subseteq Events
    BY DEF Added
  <2>2. Cardinality(Added \cup {e}) <= Cardinality(Events) /\ Cardinality(Events) \in Nat
    BY <1>1, <2>1, FS_Subset, FS_CardinalityType
  <2> QED BY <1>1, <1>6, <2>2
<1>8. Cardinality(Added') = k + 1
  BY <1>5, <1>6
<1> HIDE DEF k
<1>9. ASSUME NEW f \in Added
      PROVE  /\ eventId[f] # lastEventId'
             /\ Behind(lastEventId', eventId[f]) < k + 1
  <2>1. eventId[f] \in 1 .. IdModulus - 1
    BY <1>1, <1>2 DEF Added
  <2>2. Behind(lastEventId, eventId[f]) < k /\ Behind(lastEventId, eventId[f]) \in Int
    BY <1>1, <1>2, <2>1 DEF IdsDistinct, k, Behind
  <2>3. Behind(lastEventId, eventId[f]) < IdModulus - 2
    BY <1>1, <1>6, <1>7, <2>2
  <2>4. /\ NextId(lastEventId) # eventId[f]
        /\ Behind(NextId(lastEventId), eventId[f]) = Behind(lastEventId, eventId[f]) + 1
    BY <1>2, <2>1, <2>3, BehindNext
  <2> QED BY <1>6, <2>2, <2>4
<1>10. \A f \in Added' : Behind(lastEventId', eventId'[f]) < Cardinality(Added')
  <2> SUFFICES ASSUME NEW f \in Added'
               PROVE  Behind(lastEventId', eventId'[f]) < k + 1
    BY <1>8
  <2>1. CASE f = e
    BY <1>3, <1>4, <1>6, <2>1 DEF Behind
  <2>2. CASE f # e
    <3>1. f \in Added /\ eventId'[f] = eventId[f]
      BY <1>4, <1>5, <2>2 DEF Added
    <3> QED BY <1>9, <3>1
  <2> QED BY <2>1, <2>2
<1>11. \A f, g \in Added' : eventId'[f] = eventId'[g] => f = g
  BY <1>4, <1>5, <1>9 DEF IdsDistinct, Added
<1> QED
  BY <1>5, <1>9, <1>10, <1>11 DEF IdsDistinct

(* What the ids depend on.                                                 *)
idVars == <<eventList, eventIds, lastEventId, eventId, stopped>>

LEMMA IdsStay ==
  ASSUME UNCHANGED <<eventId, lastEventId>>, IdsDistinct
  PROVE  IdsDistinct' /\ Added' = Added
BY DEF IdsDistinct, Added

(* A scheduler that has just been started satisfies the invariant.         *)
LEMMA IdInit == Init => IdInv
BY SchedulerAssumption
   DEF Init, D!Init, IdInv, IdsDistinct, Added, OnePlace, IdsTrackPending, StoppedNeverRuns

(* Every step of Scheduler preserves it.                                   *)
LEMMA IdStep == TypeInv /\ TimeInv /\ IdInv /\ [Next]_vars => IdInv'
<1> SUFFICES ASSUME TypeOK, HandMatchesPc, FreshUntilAdded, HandedOver, IdInv, [Next]_vars
             PROVE  IdInv'
  BY DEF TypeInv, TimeInv
<1>t. /\ eventId \in [Events -> 0 .. IdModulus - 1]
      /\ fate \in [Events -> {"new", "accepted", "refused", "done"}]
      /\ dispTask \in Events \cup {NoEvent}
      /\ task \in Events \cup {NoEvent}
      /\ eventList \subseteq Events /\ stopped \subseteq Events
      /\ NoEvent \notin Events
  BY SchedulerAssumption DEF TypeOK
<1>l. eventList \subseteq Added
  BY <1>t DEF FreshUntilAdded, Added
\* Steps that only move the thread.
<1>m. ASSUME UNCHANGED <<idVars, task, fate>>
      PROVE  IdInv'
  <2>1. UNCHANGED <<eventList, eventIds, lastEventId, eventId, stopped>> /\ UNCHANGED <<task, fate>>
    BY <1>m DEF idVars
  <2>2. IdsDistinct' /\ Added' = Added
    BY <2>1, IdsStay DEF IdInv
  <2> QED BY <2>1, <2>2 DEF IdInv, OnePlace, IdsTrackPending, StoppedNeverRuns
<1>1. CASE \E th \in Callers, e \in Events, d \in Delays : AddEvent(th, e, d)
  <2>1. PICK th \in Callers, e \in Events, d \in Delays : AddEvent(th, e, d)
    BY <1>1
  <2>2. /\ eventId[e] = 0
        /\ lastEventId' = NextId(lastEventId)
        /\ eventId' = [eventId EXCEPT ![e] = lastEventId']
        /\ eventIds' = eventIds \cup {lastEventId'}
        /\ eventList' = eventList \cup {e}
        /\ UNCHANGED <<task, stopped, fate>>
    BY <2>1 DEF AddEvent, dispVars
  <2>3. /\ IdsDistinct' /\ Added' = Added \cup {e}
        /\ \A f \in Added : eventId[f] # lastEventId'
    BY <2>2, AddDistinct DEF IdInv
  <2>4. e \notin eventList /\ task # e /\ fate[e] = "new" /\ e \notin stopped
    BY <2>2 DEF FreshUntilAdded, IdInv, OnePlace, Added
  <2>5. eventId'[e] = lastEventId' /\ \A f \in Events \ {e} : eventId'[f] = eventId[f]
    BY <1>t, <2>2
  <2>6. OnePlace'
    BY <1>t, <2>2, <2>3, <2>4, <2>5 DEF IdInv, OnePlace
  <2>7. IdsTrackPending'
    <3>1. eventList' \ stopped' = (eventList \ stopped) \cup {e}
      BY <2>2, <2>4
    <3>2. {eventId'[f] : f \in eventList' \ stopped'}
            = {eventId[f] : f \in eventList \ stopped} \cup {lastEventId'}
      BY <1>t, <2>4, <2>5, <3>1
    <3> QED BY <2>2, <3>2 DEF IdInv, IdsTrackPending
  <2>8. StoppedNeverRuns'
    BY <2>2 DEF IdInv, StoppedNeverRuns
  <2> QED BY <2>3, <2>6, <2>7, <2>8 DEF IdInv
<1>2. CASE \E th \in Callers, e \in Events : StopEvent(th, e)
  <2>1. PICK th \in Callers, e \in Events : StopEvent(th, e)
    BY <1>2
  <2>2. /\ eventId[e] # 0 /\ eventId[e] \in eventIds
        /\ eventIds' = eventIds \ {eventId[e]}
        /\ stopped' = stopped \cup {e}
        /\ UNCHANGED <<eventList, lastEventId, eventId, task, fate>>
    BY <2>1 DEF StopEvent, dispVars
  <2>3. IdsDistinct' /\ Added' = Added /\ e \in Added
    BY <2>2, IdsStay DEF IdInv, Added
  <2>4. e \in eventList \ stopped
    BY <1>l, <2>2, <2>3 DEF IdInv, IdsTrackPending, IdsDistinct
  <2>5. OnePlace'
    BY <2>2, <2>3 DEF IdInv, OnePlace
  <2>6. IdsTrackPending'
    BY <1>l, <2>2, <2>3, <2>4 DEF IdInv, IdsTrackPending, IdsDistinct
  <2>7. StoppedNeverRuns'
    BY <2>2, <2>4 DEF IdInv, OnePlace, StoppedNeverRuns
  <2> QED BY <2>3, <2>5, <2>6, <2>7 DEF IdInv
<1>3. CASE \E e \in Events : PopEvent(e)
  <2>1. PICK e \in Events : PopEvent(e)
    BY <1>3
  <2>2. /\ e \in eventList /\ pc = "timeout"
        /\ eventList' = eventList \ {e}
        /\ eventIds' = eventIds \ {eventId[e]}
        /\ IF eventId[e] \in eventIds THEN task' = e ELSE task' = task
        /\ UNCHANGED <<lastEventId, eventId, stopped, fate>>
    BY <2>1 DEF PopEvent, IsTop, dispVars
  <2>3. IdsDistinct' /\ Added' = Added
    BY <2>2, IdsStay DEF IdInv
  <2>4. task = NoEvent /\ e \in Added /\ fate[e] = "new"
    BY <1>l, <2>2 DEF HandMatchesPc, IdInv, OnePlace
  <2>5. eventId[e] \in eventIds <=> e \notin stopped
    BY <1>l, <2>2 DEF IdInv, IdsTrackPending, IdsDistinct
  <2>6. OnePlace'
    BY <1>t, <2>2, <2>3, <2>4 DEF IdInv, OnePlace, Added
  <2>7. IdsTrackPending'
    BY <1>l, <2>2, <2>5 DEF IdInv, IdsTrackPending, IdsDistinct
  <2>8. StoppedNeverRuns'
    BY <1>t, <2>2, <2>4, <2>5 DEF IdInv, StoppedNeverRuns
  <2> QED BY <2>3, <2>6, <2>7, <2>8 DEF IdInv
<1>4. CASE HandOff
  <2>1. /\ task # NoEvent /\ task' = NoEvent
        /\ \/ fate' = [fate EXCEPT ![task] = "accepted"]
           \/ fate' = [fate EXCEPT ![task] = "refused"]
        /\ UNCHANGED <<eventList, eventIds, lastEventId, eventId, stopped>>
    BY <1>4 DEF HandOff, D!Accept, D!Refuse, HandMatchesPc
  <2>2. IdsDistinct' /\ Added' = Added
    BY <2>1, IdsStay DEF IdInv
  <2>3. \A f \in Events \ {task} : fate'[f] = fate[f]
    BY <1>t, <2>1
  <2>4. OnePlace'
    BY <1>t, <2>1, <2>2, <2>3 DEF IdInv, OnePlace
  <2>5. StoppedNeverRuns'
    BY <1>t, <2>1, <2>3 DEF IdInv, StoppedNeverRuns
  <2> QED BY <2>1, <2>2, <2>4, <2>5 DEF IdInv, IdsTrackPending
<1>5. CASE RunEvents
  <2>1. UNCHANGED <<eventList, eventIds, lastEventId, eventId, stopped>> /\ UNCHANGED task
    BY <1>5 DEF RunEvents, schedVars
  <2>2. IdsDistinct' /\ Added' = Added
    BY <2>1, IdsStay DEF IdInv
  <2>3. \/ UNCHANGED fate
        \/ dispTask # NoEvent /\ fate' = [fate EXCEPT ![dispTask] = "done"]
    BY <1>5 DEF RunEvents, D!Take, D!Complete
  <2>4. \A f \in Events : fate[f] = "new" => fate'[f] = "new"
    BY <1>t, <2>3 DEF HandedOver
  <2>5. OnePlace' /\ StoppedNeverRuns'
    BY <1>t, <2>1, <2>2, <2>4 DEF IdInv, OnePlace, StoppedNeverRuns
  <2> QED BY <2>1, <2>2, <2>5 DEF IdInv, IdsTrackPending
<1>6. CASE ShutdownClear
  <2>1. /\ eventList' = {} /\ eventIds' = {}
        /\ UNCHANGED <<lastEventId, eventId, task, stopped, fate>>
    BY <1>6 DEF ShutdownClear, dispVars
  <2>2. IdsDistinct' /\ Added' = Added
    BY <2>1, IdsStay DEF IdInv
  <2> QED BY <2>1, <2>2 DEF IdInv, OnePlace, IdsTrackPending, StoppedNeverRuns
<1>7. CASE \/ \E th \in Callers : Notify(th)
           \/ TestState \/ Block \/ Timeout \/ GoRound \/ SpuriousWakeup \/ Tick \/ Stop
           \/ StopDispatcher \/ ShutdownSetState \/ ShutdownNotify \/ UNCHANGED vars
  BY <1>7, <1>m DEF Notify, TestState, Block, Timeout, GoRound, SpuriousWakeup, Tick, Stop,
     StopDispatcher, ShutdownSetState, ShutdownNotify, vars, schedVars, dispVars, idVars
<1> QED
  BY <1>1, <1>2, <1>3, <1>4, <1>5, <1>6, <1>7 DEF Next, SchedulerStep, ShutdownStep

(* An event whose stopEvent returned true never reaches the dispatcher,    *)
(* and the ids that can be cancelled are those of the events still to      *)
(* come, wherever the counter stands and whether or not it wraps around.   *)
(* The assumption on Events is what it needs: fewer events than ids.       *)
THEOREM IdsNameEvents == Spec => []EventsTracked
<1>1. TypeInv /\ IdInv => EventsTracked
  BY DEF TypeInv, IdInv, EventsTracked
<1> QED
  BY <1>1, TypeInit, TypeStep, TimeInit, TimeStep, IdInit, IdStep, PTL DEF Spec
=============================================================================
