-------------------------- MODULE DispatcherProofs --------------------------
(***************************************************************************)
(* Proofs about Dispatcher, for any number of threads and tasks.           *)
(*                                                                         *)
(* Type correctness and the absence of lost wake-ups are inductive as they *)
(* stand.  That a task is owned once, and that an orderly shutdown strands *)
(* none, need to know which of the places in threadMain have a task in     *)
(* hand, and where the terminating task can be.                            *)
(***************************************************************************)
EXTENDS Dispatcher, TLAPS

(* Both ways addTask extends the list leave a list of tasks.               *)
LEMMA PushedType ==
  ASSUME NEW S, NEW s \in Seq(S), NEW e \in S
  PROVE  /\ <<e>> \o s \in Seq(S)
         /\ Append(s, e) \in Seq(S)
<1>1. <<e>> \in Seq(S)
  OBVIOUS
<1> QED
  BY <1>1

(* Every variable keeps its type along every step of the dispatcher and of *)
(* the threads that call it.                                               *)
LEMMA TypeStep == TypeOK /\ [Next]_vars => TypeOK'
<1> USE DispatcherAssumption DEF TypeOK, ThreadStates, PCs, Statuses
<1> SUFFICES ASSUME TypeOK, [Next]_vars
             PROVE  TypeOK'
  OBVIOUS
<1>1. ASSUME NEW th \in Threads, NEW task \in AllTasks, Accept(th, task)
      PROVE  /\ taskList' \in Seq(AllTasks)
             /\ status' \in [AllTasks -> Statuses]
             /\ notifying' \subseteq Threads
  <2>1. taskList' \in Seq(AllTasks)
    BY <1>1, PushedType DEF Accept, Pushed
  <2>2. status' \in [AllTasks -> Statuses]
    BY <1>1 DEF Accept
  <2>3. notifying' \subseteq Threads
    BY <1>1 DEF Accept
  <2> QED
    BY <2>1, <2>2, <2>3
<1>2. Wake(pc) \in PCs
  BY DEF Wake
<1> USE DEF AllTasks
<1>3. ASSUME Shutdown
      PROVE  /\ taskList' \in Seq(AllTasks)
             /\ status' \in [AllTasks -> Statuses]
             /\ pc' \in PCs
             /\ UNCHANGED <<threadState, current, notifying, dispatcherCycle>>
  BY <1>2, <1>3 DEF Shutdown
<1>4. CASE \E th \in Threads, task \in Tasks : AddTask(th, task)
  <2> PICK th \in Threads, task \in Tasks : AddTask(th, task)
    BY <1>4
  <2>1. CASE Accept(th, task)
    BY <2>1, <1>1 DEF AddTask
  <2>2. CASE ~Accept(th, task)
    BY <2>2 DEF AddTask
  <2> QED
    BY <2>1, <2>2
<1>5. CASE \E th \in Threads : Notify(th)
  BY <1>5, <1>2 DEF Notify
<1>6. CASE TestState
  BY <1>6 DEF TestState
<1>7. CASE WaitForSignal
  BY <1>7 DEF WaitForSignal
<1>8. CASE TakeTask
  BY <1>8 DEF TakeTask
<1>9. CASE NothingToTake
  BY <1>9 DEF NothingToTake
<1>10. CASE DropExpired
  BY <1>10 DEF DropExpired
<1>11. CASE BeginTask
  BY <1>11 DEF BeginTask
<1>12. CASE EndTask
  BY <1>12 DEF EndTask
<1>13. CASE RunTerminator
  BY <1>13 DEF RunTerminator
<1>14. CASE Stop
  BY <1>14 DEF Stop
<1>15. CASE ShutdownByGame
  BY <1>15, <1>3 DEF ShutdownByGame
<1>16. CASE SpuriousWakeup
  BY <1>16 DEF SpuriousWakeup
<1>17. CASE BeginShutdown
  BY <1>17, <1>1 DEF BeginShutdown, Threads
<1>18. CASE ShutdownByMain
  <2>1. bailed' \in BOOLEAN
    BY <1>18, Zenon DEF ShutdownByMain
  <2> QED
    BY <1>18, <1>3, <2>1 DEF ShutdownByMain
<1>19. CASE UNCHANGED vars
  BY <1>19 DEF vars
<1> QED
  BY <1>4, <1>5, <1>6, <1>7, <1>8, <1>9, <1>10, <1>11, <1>12, <1>13, <1>14,
     <1>15, <1>16, <1>17, <1>18, <1>19 DEF Next, DispatcherStep

(* A dispatcher that has just been started has well-typed state.           *)
LEMMA TypeInit == Init => TypeOK
<1> SUFFICES ASSUME Init
             PROVE  TypeOK
  OBVIOUS
<1>1. bailed \in BOOLEAN
  BY Zenon DEF Init
<1> QED
  BY <1>1 DEF Init, TypeOK, ThreadStates, PCs, Statuses

(* Type correctness of tasks.cpp's shared state.                           *)
THEOREM TypeCorrect == Spec => []TypeOK
BY TypeInit, TypeStep, PTL DEF Spec

(* A notification made outside the lock, and only when the list was empty, *)
(* is never lost (Dispatcher::addTask against threadMain's wait).          *)
THEOREM WakeupNeverLost == Spec => []NoLostWakeup
<1>1. Init => NoLostWakeup
  BY DEF Init, NoLostWakeup
<1>2. NoLostWakeup /\ [Next]_vars => NoLostWakeup'
  <2> SUFFICES ASSUME NoLostWakeup, [Next]_vars
               PROVE  NoLostWakeup'
    OBVIOUS
  <2> USE DEF NoLostWakeup
  <2>1. ASSUME NEW th, NEW task, Accept(th, task), pc' = pc
        PROVE  NoLostWakeup'
    <3>1. CASE taskList = <<>>
      BY <2>1, <3>1 DEF Accept, MustSignal
    <3>2. CASE taskList # <<>>
      BY <2>1, <3>2 DEF Accept, MustSignal
    <3> QED
      BY <3>1, <3>2
  <2>2. Wake(pc) # "wait"
    BY DEF Wake
  <2>3. CASE \E th \in Threads, task \in Tasks : AddTask(th, task)
    BY <2>3, <2>1 DEF AddTask
  <2>4. CASE \E th \in Threads : Notify(th)
    BY <2>4, <2>2 DEF Notify
  <2>5. CASE DispatcherStep \/ SpuriousWakeup
    BY <2>5, <2>2 DEF DispatcherStep, SpuriousWakeup, TestState, WaitForSignal,
       TakeTask, NothingToTake, DropExpired, BeginTask, EndTask, RunTerminator,
       Stop, ShutdownByGame, Shutdown
  <2>6. CASE BeginShutdown
    BY <2>6 DEF BeginShutdown
  <2>7. CASE ShutdownByMain
    BY <2>7, <2>2 DEF ShutdownByMain, Shutdown
  <2>8. CASE UNCHANGED vars
    BY <2>8 DEF vars
  <2> QED
    BY <2>3, <2>4, <2>5, <2>6, <2>7, <2>8 DEF Next
<1> QED
  BY <1>1, <1>2, PTL DEF Spec

-----------------------------------------------------------------------------
(* The inductive invariant behind OwnedOnce and NothingStranded.           *)

(* A task is in hand exactly between the pop and the delete of threadMain. *)
HandMatchesPc ==
  current # NoTask <=> pc \in {"taken", "run", "stop"}

(* Until stop() is called, Game::shutdown is at most queued, by the task   *)
(* that is about to call stop().                                           *)
StopFollowsPost ==
  (threadState = "RUNNING" /\ status[GameShutdown] # "new")
    => pc = "stop" /\ status[GameShutdown] = "queued"

(* Unless main() bailed out, the terminating task comes after stop(), and  *)
(* nothing comes after it.                                                 *)
TerminatorLast ==
  ~bailed =>
    /\ status[Terminator] # "new" => threadState # "RUNNING"
    /\ status[Terminator] = "queued" => taskList[Len(taskList)] = Terminator
    /\ status[Terminator] \in {"taken", "done"} => taskList = <<>>
    /\ threadState = "TERMINATED" => status[Terminator] = "done"

IInv ==
  /\ TypeOK
  /\ HandMatchesPc
  /\ OwnedOnce
  /\ StopFollowsPost
  /\ TerminatorLast

-----------------------------------------------------------------------------
(* Lists of distinct tasks.                                                *)

Distinct(s) == \A i, j \in DOMAIN s : s[i] = s[j] => i = j
In(t, s) == \E i \in DOMAIN s : s[i] = t

(* Adding a new task at the end, as addTask and shutdown() do.             *)
LEMMA AppendFacts ==
  ASSUME NEW S, NEW s \in Seq(S), NEW e \in S, Distinct(s), ~In(e, s)
  PROVE  /\ Distinct(Append(s, e))
         /\ \A t : In(t, Append(s, e)) <=> (t = e \/ In(t, s))
         /\ Append(s, e)[Len(Append(s, e))] = e
<1> DEFINE a == Append(s, e)
<1>1. /\ Len(s) \in Nat
      /\ Len(a) = Len(s) + 1
      /\ DOMAIN s = 1 .. Len(s)
      /\ DOMAIN a = 1 .. Len(s) + 1
      /\ \A i \in 1 .. Len(s) : a[i] = s[i]
      /\ a[Len(s) + 1] = e
  OBVIOUS
<1> HIDE DEF a
<1>2. Distinct(a)
  BY <1>1 DEF Distinct, In
<1>3. ASSUME NEW t
      PROVE  In(t, a) <=> (t = e \/ In(t, s))
  <2>1. ASSUME In(t, a), t # e
        PROVE  In(t, s)
    BY <1>1, <2>1 DEF In
  <2>2. ASSUME In(t, s)
        PROVE  In(t, a)
    BY <1>1, <2>2 DEF In
  <2>3. In(e, a)
    BY <1>1 DEF In
  <2> QED
    BY <2>1, <2>2, <2>3
<1>4. a[Len(a)] = e
  BY <1>1
<1> QED
  BY <1>2, <1>3, <1>4 DEF a

(* Adding a new task in front, as addTask does for the scheduler.          *)
LEMMA PrependFacts ==
  ASSUME NEW S, NEW s \in Seq(S), NEW e \in S, Distinct(s), ~In(e, s)
  PROVE  /\ Distinct(<<e>> \o s)
         /\ \A t : In(t, <<e>> \o s) <=> (t = e \/ In(t, s))
<1> DEFINE a == <<e>> \o s
<1>1. /\ Len(s) \in Nat
      /\ DOMAIN s = 1 .. Len(s)
      /\ DOMAIN a = 1 .. Len(s) + 1
      /\ a[1] = e
      /\ \A i \in 2 .. Len(s) + 1 : a[i] = s[i - 1]
  OBVIOUS
<1> HIDE DEF a
<1>2. Distinct(a)
  BY <1>1 DEF Distinct, In
<1>3. ASSUME NEW t
      PROVE  In(t, a) <=> (t = e \/ In(t, s))
  <2>1. ASSUME In(t, a), t # e
        PROVE  In(t, s)
    BY <1>1, <2>1 DEF In
  <2>2. ASSUME In(t, s)
        PROVE  In(t, a)
    <3>1. PICK i \in 1 .. Len(s) : s[i] = t
      BY <1>1, <2>2 DEF In
    <3>2. i + 1 \in 2 .. Len(s) + 1 /\ a[i + 1] = t
      BY <1>1, <3>1
    <3> QED
      BY <1>1, <3>2 DEF In
  <2>3. In(e, a)
    BY <1>1 DEF In
  <2> QED
    BY <2>1, <2>2, <2>3
<1> QED
  BY <1>2, <1>3 DEF a

(* Taking the head, as threadMain does.                                    *)
LEMMA TailFacts ==
  ASSUME NEW S, NEW s \in Seq(S), s # <<>>, Distinct(s)
  PROVE  /\ Head(s) \in S
         /\ In(Head(s), s)
         /\ Distinct(Tail(s))
         /\ \A t : In(t, Tail(s)) <=> (t # Head(s) /\ In(t, s))
         /\ Tail(s) # <<>> => Tail(s)[Len(Tail(s))] = s[Len(s)]
         /\ Head(s) = s[Len(s)] => Tail(s) = <<>>
<1> DEFINE a == Tail(s)
<1>1. /\ Len(s) \in Nat /\ Len(s) > 0
      /\ DOMAIN s = 1 .. Len(s)
      /\ Head(s) = s[1] /\ s[1] \in S
      /\ a \in Seq(S)
      /\ Len(a) = Len(s) - 1
      /\ DOMAIN a = 1 .. Len(s) - 1
      /\ \A i \in 1 .. Len(s) - 1 : a[i] = s[i + 1]
      /\ a # <<>> <=> Len(a) # 0
  <2>1. Len(s) \in Nat /\ Len(s) > 0 /\ DOMAIN s = 1 .. Len(s)
    OBVIOUS
  <2>2. Head(s) = s[1] /\ s[1] \in S
    BY <2>1
  <2>3. a \in Seq(S) /\ Len(a) = Len(s) - 1
    OBVIOUS
  <2>4. DOMAIN a = 1 .. Len(s) - 1
    BY <2>3
  <2>5. \A i \in 1 .. Len(s) - 1 : a[i] = s[i + 1]
    OBVIOUS
  <2>6. a # <<>> <=> Len(a) # 0
    BY <2>3
  <2> QED
    BY <2>1, <2>2, <2>3, <2>4, <2>5, <2>6
<1> HIDE DEF a
<1>2. Distinct(a)
  <2> SUFFICES ASSUME NEW i \in DOMAIN a, NEW j \in DOMAIN a, a[i] = a[j]
               PROVE  i = j
    BY DEF Distinct
  <2>1. i + 1 \in DOMAIN s /\ j + 1 \in DOMAIN s /\ s[i + 1] = s[j + 1]
    BY <1>1
  <2>2. i + 1 = j + 1
    BY <2>1 DEF Distinct
  <2> QED
    BY <1>1, <2>2
<1>3. ASSUME NEW t
      PROVE  In(t, a) <=> (t # Head(s) /\ In(t, s))
  <2>1. ASSUME In(t, a)
        PROVE  t # Head(s) /\ In(t, s)
    BY <1>1, <2>1 DEF In, Distinct
  <2>2. ASSUME t # Head(s), In(t, s)
        PROVE  In(t, a)
    <3>1. PICK i \in 1 .. Len(s) : s[i] = t
      BY <1>1, <2>2 DEF In
    <3>2. i - 1 \in 1 .. Len(s) - 1 /\ a[i - 1] = t
      BY <1>1, <2>2, <3>1
    <3> QED
      BY <1>1, <3>2 DEF In
  <2> QED
    BY <2>1, <2>2
<1>4. a # <<>> => a[Len(a)] = s[Len(s)]
  BY <1>1
<1>5. Head(s) = s[Len(s)] => a = <<>>
  BY <1>1 DEF Distinct
<1>6. Head(s) \in S /\ In(Head(s), s)
  BY <1>1 DEF In
<1> QED
  BY <1>2, <1>3, <1>4, <1>5, <1>6 DEF a

-----------------------------------------------------------------------------
(* OwnedOnce in the terms of the lemmas above.                             *)
LEMMA OwnedMeans ==
  OwnedOnce <=>
    /\ Distinct(taskList)
    /\ \A t \in AllTasks : /\ status[t] = "queued" <=> In(t, taskList)
                           /\ status[t] = "taken" <=> current = t
BY DEF OwnedOnce, Distinct, In

(* The same for the next state.                                            *)
LEMMA OwnedMeansNext ==
  OwnedOnce' <=>
    /\ Distinct(taskList')
    /\ \A t \in AllTasks : /\ status'[t] = "queued" <=> In(t, taskList')
                           /\ status'[t] = "taken" <=> current' = t
BY DEF OwnedOnce, Distinct, In

(* A new task put into the list is owned once: by the list.                *)
LEMMA OwnedPush ==
  ASSUME IInv, NEW task \in AllTasks, status[task] = "new",
         taskList' = Append(taskList, task) \/ taskList' = <<task>> \o taskList,
         status' = [status EXCEPT ![task] = "queued"],
         current' = current
  PROVE  OwnedOnce'
<1>1. taskList \in Seq(AllTasks) /\ status \in [AllTasks -> Statuses]
  BY DEF IInv, TypeOK
<1>2. Distinct(taskList) /\ ~In(task, taskList) /\ current # task
  BY OwnedMeans DEF IInv
<1>3. Distinct(taskList') /\ \A t : In(t, taskList') <=> (t = task \/ In(t, taskList))
  <2>1. CASE taskList' = Append(taskList, task)
    BY <1>1, <1>2, <2>1, AppendFacts
  <2>2. CASE taskList' = <<task>> \o taskList
    BY <1>1, <1>2, <2>2, PrependFacts
  <2> QED
    BY <2>1, <2>2
<1>4. ASSUME NEW t \in AllTasks
      PROVE  /\ status'[t] = "queued" <=> In(t, taskList')
             /\ status'[t] = "taken" <=> current' = t
  <2>1. CASE t = task
    BY <1>1, <1>2, <1>3, <2>1
  <2>2. CASE t # task
    BY <1>1, <1>3, <2>2, OwnedMeans DEF IInv
  <2> QED
    BY <2>1, <2>2
<1> QED
  BY <1>3, <1>4, OwnedMeansNext

(* The task in hand is deleted: nobody owns it any more.                   *)
LEMMA OwnedFinish ==
  ASSUME IInv, NEW fate \in {"done", "expired"}, current # NoTask,
         status' = [status EXCEPT ![current] = fate],
         current' = NoTask, taskList' = taskList
  PROVE  OwnedOnce'
<1>1. /\ status \in [AllTasks -> Statuses]
      /\ current \in AllTasks
      /\ NoTask \notin AllTasks
  BY DispatcherAssumption DEF IInv, TypeOK, AllTasks
<1>2. Distinct(taskList) /\ ~In(current, taskList) /\ status[current] = "taken"
  BY <1>1, OwnedMeans DEF IInv
<1>3. ASSUME NEW t \in AllTasks
      PROVE  /\ status'[t] = "queued" <=> In(t, taskList')
             /\ status'[t] = "taken" <=> current' = t
  <2>1. CASE t = current
    BY <1>1, <1>2, <2>1
  <2>2. CASE t # current
    BY <1>1, <2>2, OwnedMeans DEF IInv
  <2> QED
    BY <2>1, <2>2
<1> QED
  BY <1>2, <1>3, OwnedMeansNext

(* The head of the list passes to the dispatcher's hand.                   *)
LEMMA OwnedTake ==
  ASSUME IInv, TakeTask
  PROVE  OwnedOnce'
<1>1. /\ status \in [AllTasks -> Statuses]
      /\ taskList \in Seq(AllTasks)
      /\ NoTask \notin AllTasks
      /\ current = NoTask
  BY DispatcherAssumption DEF IInv, TypeOK, AllTasks, TakeTask, HandMatchesPc
<1>2. taskList # <<>> /\ Distinct(taskList)
  BY OwnedMeans DEF IInv, TakeTask
<1>3. /\ Head(taskList) \in AllTasks
      /\ In(Head(taskList), taskList)
      /\ Distinct(Tail(taskList))
      /\ \A t : In(t, Tail(taskList)) <=> (t # Head(taskList) /\ In(t, taskList))
  BY <1>1, <1>2, TailFacts
<1>4. ASSUME NEW t \in AllTasks
      PROVE  /\ status'[t] = "queued" <=> In(t, taskList')
             /\ status'[t] = "taken" <=> current' = t
  <2>1. CASE t = Head(taskList)
    BY <1>1, <1>3, <2>1 DEF TakeTask
  <2>2. CASE t # Head(taskList)
    <3>1. status'[t] = status[t] /\ current' # t /\ current # t
      BY <1>1, <1>3, <2>2 DEF TakeTask
    <3>2. In(t, taskList') <=> In(t, taskList)
      BY <1>3, <2>2 DEF TakeTask
    <3> QED
      BY <3>1, <3>2, OwnedMeans DEF IInv
  <2> QED
    BY <2>1, <2>2
<1>5. Distinct(taskList')
  BY <1>3 DEF TakeTask
<1> QED
  BY <1>4, <1>5, OwnedMeansNext

-----------------------------------------------------------------------------
(* Every step of Dispatcher preserves the invariant.                       *)
LEMMA IInvStep == IInv /\ [Next]_vars => IInv'
<1> SUFFICES ASSUME IInv, [Next]_vars
             PROVE  IInv'
  OBVIOUS
<1> USE DEF IInv
<1>t. TypeOK'
  BY TypeStep
<1>a. /\ GameShutdown \in AllTasks /\ Terminator \in AllTasks
      /\ GameShutdown # Terminator
      /\ NoTask \notin AllTasks
      /\ status \in [AllTasks -> Statuses]
      /\ taskList \in Seq(AllTasks)
  BY DispatcherAssumption DEF AllTasks, TypeOK
\* Steps that move a thread and leave lists, tasks and states alone.
<1>m. ASSUME UNCHANGED <<threadState, taskList, current, status, bailed>>,
             pc' \in {"taken", "run", "stop"} <=> pc \in {"taken", "run", "stop"},
             pc' = "stop" <=> pc = "stop"
      PROVE  IInv'
  BY <1>t, <1>m DEF HandMatchesPc, OwnedOnce, StopFollowsPost, TerminatorLast
<1>w. /\ Wake(pc) \in {"taken", "run", "stop"} <=> pc \in {"taken", "run", "stop"}
      /\ Wake(pc) = "stop" <=> pc = "stop"
  BY DEF Wake
<1>1. CASE \E th \in Threads, task \in Tasks : AddTask(th, task)
  <2> PICK th \in Threads, task \in Tasks : AddTask(th, task)
    BY <1>1
  <2>1. /\ task \in AllTasks /\ task # Terminator /\ task # GameShutdown
        /\ status[task] = "new"
        /\ UNCHANGED <<threadState, pc, current, bailed>>
    BY DispatcherAssumption DEF AddTask, AllTasks
  <2>2. CASE Accept(th, task)
    <3>1. OwnedOnce'
      BY <2>1, <2>2, OwnedPush DEF Accept, Pushed
    <3>2. HandMatchesPc' /\ StopFollowsPost'
      BY <1>a, <2>1, <2>2 DEF Accept, HandMatchesPc, StopFollowsPost
    <3>3. TerminatorLast'
      BY <1>a, <2>1, <2>2 DEF Accept, TerminatorLast
    <3> QED
      BY <1>t, <3>1, <3>2, <3>3
  <2>3. CASE ~Accept(th, task)
    <3>1. /\ status' = [status EXCEPT ![task] = "deleted"]
          /\ taskList' = taskList
      BY <2>3 DEF AddTask
    <3>2. \A t \in AllTasks : /\ status'[t] = "queued" <=> status[t] = "queued"
                              /\ status'[t] = "taken" <=> status[t] = "taken"
      BY <1>a, <2>1, <3>1
    <3>3. OwnedOnce'
      BY <2>1, <3>1, <3>2 DEF OwnedOnce
    <3>4. HandMatchesPc' /\ StopFollowsPost' /\ TerminatorLast'
      BY <1>a, <2>1, <3>1 DEF HandMatchesPc, StopFollowsPost, TerminatorLast
    <3> QED
      BY <1>t, <3>3, <3>4
  <2> QED
    BY <2>2, <2>3
<1>2. CASE \E th \in Threads : Notify(th)
  BY <1>2, <1>m, <1>w DEF Notify
<1>3. CASE TestState
  BY <1>3, <1>m DEF TestState
<1>4. CASE WaitForSignal
  BY <1>4, <1>m DEF WaitForSignal
<1>5. CASE SpuriousWakeup
  BY <1>5, <1>m DEF SpuriousWakeup
<1>6. CASE NothingToTake
  BY <1>6, <1>m DEF NothingToTake
<1>7. CASE BeginTask
  BY <1>7, <1>m DEF BeginTask
<1>8. CASE TakeTask
  <2>1. OwnedOnce'
    BY <1>8, OwnedTake
  <2>2. /\ taskList # <<>> /\ Distinct(taskList)
        /\ Head(taskList) \in AllTasks /\ In(Head(taskList), taskList)
        /\ Tail(taskList) # <<>>
             => Tail(taskList)[Len(Tail(taskList))] = taskList[Len(taskList)]
        /\ Head(taskList) = taskList[Len(taskList)] => Tail(taskList) = <<>>
    <3>1. taskList # <<>> /\ Distinct(taskList)
      BY <1>8, OwnedMeans DEF TakeTask
    <3> QED
      BY <1>a, <3>1, TailFacts
  <2>3. HandMatchesPc'
    BY <1>8, <1>a, <2>2 DEF TakeTask, HandMatchesPc
  <2>4. StopFollowsPost'
    <3>1. status[Head(taskList)] = "queued"
      BY <2>2, OwnedMeans
    <3> QED
      BY <1>8, <1>a, <2>2, <3>1 DEF TakeTask, StopFollowsPost
  <2>5. TerminatorLast'
    <3> SUFFICES ASSUME ~bailed'
                 PROVE  TerminatorLast'
      BY DEF TerminatorLast
    <3> USE <1>8 DEF TakeTask, TerminatorLast
    <3>1. status[Head(taskList)] = "queued"
      BY <2>2, OwnedMeans
    <3>2. CASE Head(taskList) = Terminator
      BY <1>a, <2>2, <3>1, <3>2
    <3>3. CASE Head(taskList) # Terminator
      <4>1. status'[Terminator] = status[Terminator]
        BY <1>a, <2>2, <3>3
      <4>2. status[Terminator] = "queued" => Tail(taskList) # <<>>
        <5>1. ASSUME status[Terminator] = "queued"
              PROVE  In(Terminator, Tail(taskList))
          <6>1. In(Terminator, taskList)
            BY <5>1, <1>a, OwnedMeans
          <6> QED
            BY <1>a, <2>2, <3>3, <6>1, TailFacts
        <5>2. ASSUME In(Terminator, Tail(taskList))
              PROVE  Tail(taskList) # <<>>
          BY <5>2 DEF In
        <5> QED
          BY <5>1, <5>2
      <4> QED
        BY <1>a, <2>2, <3>1, <4>1, <4>2
    <3> QED
      BY <3>2, <3>3
  <2> QED
    BY <1>t, <2>1, <2>3, <2>4, <2>5
<1>9. CASE DropExpired
  <2>1. current # NoTask /\ current # Terminator /\ current # GameShutdown
    BY <1>9, DispatcherAssumption DEF DropExpired, HandMatchesPc
  <2>2. OwnedOnce'
    BY <1>9, <2>1, OwnedFinish DEF DropExpired
  <2>3. HandMatchesPc' /\ StopFollowsPost' /\ TerminatorLast'
    BY <1>9, <1>a, <2>1 DEF DropExpired, HandMatchesPc, StopFollowsPost, TerminatorLast
  <2> QED
    BY <1>t, <2>2, <2>3
<1>10. CASE EndTask
  <2>1. current # NoTask /\ current # Terminator
    BY <1>10 DEF EndTask, HandMatchesPc
  <2>2. OwnedOnce'
    BY <1>10, <2>1, OwnedFinish DEF EndTask
  <2>3. HandMatchesPc' /\ TerminatorLast'
    BY <1>10, <1>a, <2>1 DEF EndTask, HandMatchesPc, TerminatorLast
  <2>4. StopFollowsPost'
    <3>1. current = GameShutdown => status[GameShutdown] = "taken"
      BY <1>a, OwnedMeans
    <3> QED
      BY <1>10, <1>a, <3>1 DEF EndTask, StopFollowsPost
  <2> QED
    BY <1>t, <2>2, <2>3, <2>4
<1>11. CASE RunTerminator
  <2>1. current = Terminator /\ current # NoTask /\ status[Terminator] = "taken"
    BY <1>11, <1>a, OwnedMeans DEF RunTerminator
  <2>2. OwnedOnce'
    BY <1>11, <2>1, OwnedFinish DEF RunTerminator
  <2>3. HandMatchesPc' /\ StopFollowsPost'
    BY <1>11, <1>a, <2>1 DEF RunTerminator, HandMatchesPc, StopFollowsPost
  <2>4. TerminatorLast'
    BY <1>11, <1>a, <2>1 DEF RunTerminator, TerminatorLast
  <2> QED
    BY <1>t, <2>2, <2>3, <2>4
<1>12. CASE Stop
  BY <1>12, <1>t, <1>a DEF Stop, HandMatchesPc, OwnedOnce, StopFollowsPost, TerminatorLast
<1>13. ASSUME Shutdown, bailed' \/ threadState # "RUNNING",
              UNCHANGED bailed \/ bailed'
       PROVE  IInv'
  <2>1. OwnedOnce'
    BY <1>13, <1>a, OwnedPush DEF Shutdown
  <2>2. HandMatchesPc' /\ StopFollowsPost'
    BY <1>13, <1>a, <1>w DEF Shutdown, HandMatchesPc, StopFollowsPost
  <2>3. TerminatorLast'
    <3>1. ~In(Terminator, taskList) /\ Distinct(taskList)
      BY <1>13, <1>a, OwnedMeans DEF Shutdown
    <3>2. taskList'[Len(taskList')] = Terminator
      BY <1>13, <1>a, <3>1, AppendFacts DEF Shutdown
    <3> QED
      BY <1>13, <1>a, <3>2 DEF Shutdown, TerminatorLast
  <2> QED
    BY <1>t, <2>1, <2>2, <2>3
<1>14. CASE ShutdownByGame
  <2>1. status[GameShutdown] = "taken" /\ pc = "run"
    BY <1>14, <1>a, OwnedMeans DEF ShutdownByGame, CanCall
  <2>2. threadState # "RUNNING"
    BY <2>1 DEF StopFollowsPost
  <2> QED
    BY <1>13, <1>14, <2>2 DEF ShutdownByGame
<1>15. CASE ShutdownByMain
  BY <1>13, <1>15 DEF ShutdownByMain
<1>16. CASE BeginShutdown
  <2>1. OwnedOnce'
    BY <1>16, <1>a, OwnedPush DEF BeginShutdown, Accept, Pushed
  <2>2. HandMatchesPc' /\ StopFollowsPost'
    BY <1>16, <1>a DEF BeginShutdown, Accept, CanCall, HandMatchesPc, StopFollowsPost
  <2>3. TerminatorLast'
    BY <1>16, <1>a DEF BeginShutdown, Accept, TerminatorLast
  <2> QED
    BY <1>t, <2>1, <2>2, <2>3
<1>17. CASE UNCHANGED vars
  BY <1>17, <1>m DEF vars
<1> QED
  BY <1>1, <1>2, <1>3, <1>4, <1>5, <1>6, <1>7, <1>8, <1>9, <1>10, <1>11, <1>12,
     <1>14, <1>15, <1>16, <1>17 DEF Next, DispatcherStep

(* A dispatcher that has just been started satisfies the invariant.        *)
LEMMA IInvInit == Init => IInv
<1> SUFFICES ASSUME Init
             PROVE  IInv
  OBVIOUS
<1>1. TypeOK
  BY TypeInit
<1>2. HandMatchesPc /\ StopFollowsPost /\ TerminatorLast
  BY DispatcherAssumption
     DEF Init, AllTasks, HandMatchesPc, StopFollowsPost, TerminatorLast
<1>3. OwnedOnce
  BY DispatcherAssumption DEF Init, AllTasks, OwnedOnce
<1> QED
  BY <1>1, <1>2, <1>3 DEF IInv

(* Every task object of tasks.cpp has one owner: the list, once, or the    *)
(* dispatcher's hand; a deleted task has none.                             *)
THEOREM TasksOwnedOnce == Spec => []OwnedOnce
<1>1. IInv => OwnedOnce
  BY DEF IInv
<1> QED
  BY <1>1, IInvInit, IInvStep, PTL DEF Spec

(* stop() before shutdown(): the dispatcher never terminates with accepted *)
(* tasks in its list, unless main() bailed out.                            *)
THEOREM NoTaskStranded == Spec => []NothingStranded
<1>1. IInv => NothingStranded
  BY DEF IInv, TerminatorLast, NothingStranded
<1> QED
  BY <1>1, IInvInit, IInvStep, PTL DEF Spec

-----------------------------------------------------------------------------
(* The dispatcher implements SerialExecutor, as far as safety goes.        *)

(* threadMain takes nothing more once it has run the terminating task.     *)
TerminatedLeaves == threadState = "TERMINATED" => pc \in {"test", "exit"}

LEMMA TerminatedLeavesStep ==
  ASSUME TypeOK, TerminatedLeaves, [Next]_vars
  PROVE  TerminatedLeaves'
<1> USE DEF TerminatedLeaves
<1>1. Wake(pc) = IF pc = "wait" THEN "woken" ELSE pc
  BY DEF Wake
<1>2. CASE \E th \in Threads, task \in Tasks : AddTask(th, task)
  BY <1>2 DEF AddTask
<1>3. CASE \E th \in Threads : Notify(th)
  BY <1>1, <1>3 DEF Notify
<1>4. CASE DispatcherStep
  BY <1>1, <1>4 DEF DispatcherStep, TestState, WaitForSignal, TakeTask, NothingToTake,
     DropExpired, BeginTask, EndTask, RunTerminator, Stop, ShutdownByGame, Shutdown
<1>5. CASE SpuriousWakeup \/ BeginShutdown \/ ShutdownByMain
  BY <1>1, <1>5 DEF SpuriousWakeup, BeginShutdown, Accept, ShutdownByMain, Shutdown
<1>6. CASE UNCHANGED vars
  BY <1>6 DEF vars
<1> QED
  BY <1>2, <1>3, <1>4, <1>5, <1>6 DEF Next

(* What the executor sees of the states of the tasks.                      *)
Fates == [t \in AllTasks |-> Fate(status[t])]
Closed == threadState = "TERMINATED"

(* One task changes its state: so does one job, in the way Fate says.      *)
LEMMA FatesExcept ==
  ASSUME TypeOK, NEW t \in AllTasks, NEW s \in Statuses,
         status' = [status EXCEPT ![t] = s]
  PROVE  Fates' = [Fates EXCEPT ![t] = Fate(s)]
<1>1. status \in [AllTasks -> Statuses]
  BY DEF TypeOK
<1>2. \A u \in AllTasks : status'[u] = IF u = t THEN s ELSE status[u]
  BY <1>1
<1>3. \A u \in AllTasks : Fate(status'[u]) = IF u = t THEN Fate(s) ELSE Fate(status[u])
  BY <1>2
<1> QED
  BY <1>3 DEF Fates

(* How the states of a task appear to the executor.                        *)
LEMMA FateValues ==
  /\ Fate("new") = "new" /\ Fate("queued") = "accepted" /\ Fate("taken") = "accepted"
  /\ Fate("expired") = "dropped" /\ Fate("deleted") = "refused" /\ Fate("done") = "done"
BY DEF Fate

(* addTask and shutdown() put a new task into the list: a job is accepted. *)
LEMMA AcceptRefines ==
  ASSUME TypeOK, NEW t \in AllTasks, status[t] = "new",
         taskList' = Append(taskList, t) \/ taskList' = <<t>> \o taskList,
         status' = [status EXCEPT ![t] = "queued"],
         current' = current, threadState' = threadState
  PROVE  Executor!Next
<1>1. Fates[t] = "new" /\ Fates' = [Fates EXCEPT ![t] = "accepted"]
  <2>1. "queued" \in Statuses
    BY DEF Statuses
  <2> QED
    BY <2>1, FatesExcept, FateValues DEF Fates
<1>2. Executor!Accept(t)
  BY <1>1 DEF Executor!Accept, Fates
<1> QED
  BY <1>2 DEF Executor!Next

(* The task in hand ends: the job is completed, or dropped if it was too   *)
(* late; only the terminating task closes the executor.                    *)
LEMMA EndRefines ==
  ASSUME IInv, current # NoTask, NEW s \in {"done", "expired"},
         status' = [status EXCEPT ![current] = s],
         current' = NoTask, taskList' = taskList,
         s = "expired" => current # Terminator,
         threadState' = IF current = Terminator THEN "TERMINATED" ELSE threadState
  PROVE  Executor!Next
<1>1. current \in AllTasks /\ s \in Statuses /\ TypeOK
  BY DEF IInv, TypeOK, Statuses, AllTasks
<1>2. Fates' = [Fates EXCEPT ![current] = Fate(s)]
  BY <1>1, FatesExcept
<1>3. Closed' = (Closed \/ current = Terminator)
  <2>1. CASE current = Terminator
    BY <2>1 DEF Closed
  <2>2. CASE current # Terminator
    BY <2>2 DEF Closed
  <2> QED
    BY <2>1, <2>2
<1>4. CASE s = "done"
  <2>1. Executor!Complete
    BY <1>2, <1>3, <1>4, FateValues DEF Executor!Complete, Fates, Closed
  <2> QED
    BY <2>1 DEF Executor!Next
<1>5. CASE s = "expired"
  <2>1. Closed' = Closed
    BY <1>5 DEF Closed
  <2>2. Executor!Drop
    BY <1>2, <1>5, <2>1, FateValues DEF Executor!Drop, Fates, Closed
  <2> QED
    BY <2>2 DEF Executor!Next
<1> QED
  BY <1>4, <1>5

(* Every step of the dispatcher and of its callers is a step of the        *)
(* executor, or one the executor does not see.                             *)
LEMMA StepRefines ==
  ASSUME IInv, TerminatedLeaves, [Next]_vars
  PROVE  [Executor!Next]_(Executor!avars)
<1> USE DEF IInv
<1>0. /\ TypeOK /\ status \in [AllTasks -> Statuses]
      /\ GameShutdown \in AllTasks /\ Terminator \in AllTasks
      /\ NoTask \notin AllTasks
  BY DispatcherAssumption DEF TypeOK, AllTasks
<1>s. ASSUME UNCHANGED <<taskList, current, status>>, Closed' = Closed
      PROVE  UNCHANGED Executor!avars
  BY <1>s DEF Executor!avars, Closed
<1>1. CASE \E th \in Threads, task \in Tasks : AddTask(th, task)
  <2> PICK th \in Threads, task \in Tasks : AddTask(th, task)
    BY <1>1
  <2>0. task \in AllTasks /\ status[task] = "new"
    BY DEF AddTask, AllTasks
  <2>1. CASE Accept(th, task)
    BY <1>0, <2>0, <2>1, AcceptRefines DEF AddTask, Accept, Pushed
  <2>2. CASE ~Accept(th, task)
    <3>1. Fates[task] = "new" /\ Fates' = [Fates EXCEPT ![task] = "refused"]
      <4>1. "deleted" \in Statuses
        BY DEF Statuses
      <4> QED
        BY <1>0, <2>0, <2>2, <4>1, FatesExcept, FateValues DEF AddTask, Fates
    <3>2. Executor!Refuse(task)
      BY <2>2, <3>1 DEF AddTask, Executor!Refuse, Fates
    <3> QED
      BY <2>0, <3>2 DEF Executor!Next
  <2> QED
    BY <2>1, <2>2
<1>2. CASE \E th \in Threads : Notify(th)
  BY <1>2, <1>s DEF Notify, Closed
<1>3. CASE TestState \/ WaitForSignal \/ NothingToTake \/ BeginTask \/ SpuriousWakeup
  BY <1>3, <1>s DEF TestState, WaitForSignal, NothingToTake, BeginTask, SpuriousWakeup,
     Closed
<1>4. CASE TakeTask
  <2>1. ~Closed /\ current = NoTask
    BY <1>4 DEF TakeTask, TerminatedLeaves, Closed, HandMatchesPc
  <2>2. Head(taskList) \in AllTasks /\ status[Head(taskList)] = "queued"
    BY <1>0, <1>4, TailFacts, OwnedMeans DEF TakeTask, TypeOK
  <2>3. Fates' = Fates
    <3>1. \A t \in AllTasks : Fate(status'[t]) = Fate(status[t])
      BY <1>0, <1>4, <2>2, FateValues DEF TakeTask
    <3> QED
      BY <3>1 DEF Fates
  <2>4. Executor!Take
    BY <1>4, <2>1, <2>3 DEF TakeTask, Executor!Take, Fates, Closed
  <2> QED
    BY <2>4 DEF Executor!Next
<1>5. CASE DropExpired
  BY <1>5, EndRefines, DispatcherAssumption DEF DropExpired, HandMatchesPc
<1>6. CASE EndTask
  BY <1>6, EndRefines DEF EndTask, HandMatchesPc
<1>7. CASE RunTerminator
  BY <1>7, EndRefines DEF RunTerminator, HandMatchesPc
<1>8. CASE Stop
  <2>1. Closed' = Closed
    BY <1>8 DEF Stop, Closed, TerminatedLeaves
  <2> QED
    BY <1>8, <1>s, <2>1 DEF Stop
<1>9. CASE BeginShutdown
  BY <1>0, <1>9, AcceptRefines DEF BeginShutdown, Accept, Pushed
<1>10. CASE ShutdownByGame \/ ShutdownByMain
  BY <1>0, <1>10, AcceptRefines DEF ShutdownByGame, ShutdownByMain, Shutdown
<1>11. CASE UNCHANGED vars
  BY <1>11, <1>s DEF vars, Closed
<1> QED
  BY <1>1, <1>2, <1>3, <1>4, <1>5, <1>6, <1>7, <1>8, <1>9, <1>10, <1>11
     DEF Next, DispatcherStep

(* Tasks run one at a time, in the order of the list, each at most once,   *)
(* and after Dispatcher::shutdown's task none: every step of tasks.cpp is  *)
(* a step of SerialExecutor or leaves the executor's state alone.  (That   *)
(* they are run eventually is in ImplementsExecutor, which TLC checks.)    *)
THEOREM ImplementsExecutorSafely ==
  Spec => Executor!Init /\ [][Executor!Next]_(Executor!avars)
<1>1. Init => Executor!Init
  <2> SUFFICES ASSUME Init
               PROVE  Executor!Init
    OBVIOUS
  <2>1. Fates = [t \in AllTasks |-> "new"]
    BY FateValues DEF Init, Fates
  <2>2. Closed = FALSE
    BY DEF Init, Closed
  <2> QED
    BY <2>1, <2>2 DEF Init, Executor!Init, Fates, Closed
<1>2. Init => TerminatedLeaves
  BY DEF Init, TerminatedLeaves
<1>3. IInv /\ TerminatedLeaves /\ [Next]_vars
        => IInv' /\ TerminatedLeaves' /\ [Executor!Next]_(Executor!avars)
  BY IInvStep, TerminatedLeavesStep, StepRefines DEF IInv
<1> QED
  BY <1>1, <1>2, <1>3, IInvInit, PTL DEF Spec
=============================================================================
