------------------------- MODULE DatabaseTasksProofs -------------------------
(***************************************************************************)
(* Proofs about DatabaseTasks, for any number of queries and of threads    *)
(* that add them.                                                          *)
(*                                                                         *)
(* The argument rests on where the queue is in the history: the list is    *)
(* always the end of `accepted', what is before it has been taken, and     *)
(* whatever was taken is either executed or in the hand of exactly one     *)
(* runner.  That two threads pop the same list changes the order in which  *)
(* hands are emptied and nothing else.                                     *)
(***************************************************************************)
EXTENDS DatabaseTasks, TLAPS

Distinct(s) == \A i, j \in DOMAIN s : s[i] = s[j] => i = j

(* How many of the accepted queries have left the list.                    *)
Taken == Len(accepted) - Len(tasks)

(* A runner has a query in hand exactly between the pop and the delete.    *)
HandMatchesPc ==
  \A r \in Runners :
    /\ hand[r] # NoQuery <=> pc[r] \in {"run", "callback"}
    /\ pc[r] = "callback" => hand[r] \in WithCallback

(* The list is the end of the history: push_back and pop_front keep the    *)
(* order.                                                                  *)
TasksAreRest ==
  /\ Len(tasks) <= Len(accepted)
  /\ \A i \in 1 .. Len(tasks) : tasks[i] = accepted[Taken + i]

(* What a runner is about to execute was taken, by it alone, and is not    *)
(* executed yet.                                                           *)
RunningOnce ==
  \A r \in Runners : pc[r] = "run" =>
    /\ \E i \in 1 .. Taken : accepted[i] = hand[r]
    /\ ~InSeq(hand[r], executed)
    /\ \A s \in Runners : pc[s] = "run" /\ hand[s] = hand[r] => s = r

(* Every query that was taken is executed, or some runner is about to.     *)
TakenAccounted ==
  \A i \in 1 .. Taken :
    \/ InSeq(accepted[i], executed)
    \/ \E r \in Runners : pc[r] = "run" /\ hand[r] = accepted[i]

(* Nothing else is ever executed.                                          *)
ExecutedWereTaken ==
  \A k \in DOMAIN executed : \E i \in 1 .. Taken : accepted[i] = executed[k]

(* Until the flush of shutdown() has found the list empty, the thread that *)
(* called it is inside that flush; the worker leaves only afterwards.      *)
ShutdownFlushes ==
  /\ threadState = "TERMINATED" <=> shutdownBy # NoQuery
  /\ pc[Worker] = "exit" => threadState = "TERMINATED"
  /\ (shutdownBy # NoQuery /\ tasks # <<>>)
       => pc[shutdownBy] \in {"flush", "run", "callback"}

(* Where every query is.                                                   *)
QueriesTracked ==
  /\ HandMatchesPc
  /\ Distinct(accepted)
  /\ Distinct(executed)
  /\ TasksAreRest
  /\ RunningOnce
  /\ TakenAccounted
  /\ ExecutedWereTaken

IInv == TypeOK /\ QueriesTracked /\ NoLostWakeup /\ ShutdownFlushes

-----------------------------------------------------------------------------
(* push_back.                                                              *)
LEMMA AppendFacts ==
  ASSUME NEW S, NEW s \in Seq(S), NEW e \in S
  PROVE  /\ Append(s, e) \in Seq(S)
         /\ Len(s) \in Nat
         /\ Len(Append(s, e)) = Len(s) + 1
         /\ DOMAIN s = 1 .. Len(s)
         /\ DOMAIN Append(s, e) = 1 .. Len(s) + 1
         /\ \A i \in 1 .. Len(s) : Append(s, e)[i] = s[i]
         /\ Append(s, e)[Len(s) + 1] = e
OBVIOUS

(* pop_front.                                                              *)
LEMMA TailFacts ==
  ASSUME NEW S, NEW s \in Seq(S), s # <<>>
  PROVE  /\ Tail(s) \in Seq(S)
         /\ Len(s) \in Nat \ {0}
         /\ Len(Tail(s)) = Len(s) - 1
         /\ Head(s) \in S
         /\ Head(s) = s[1]
         /\ \A i \in 1 .. Len(s) - 1 : Tail(s)[i] = s[i + 1]
<1>1. Tail(s) \in Seq(S) /\ Len(Tail(s)) = Len(s) - 1 /\ Len(s) \in Nat \ {0}
  OBVIOUS
<1>2. Head(s) = s[1] /\ s[1] \in S
  OBVIOUS
<1>3. \A i \in 1 .. Len(s) - 1 : Tail(s)[i] = s[i + 1]
  OBVIOUS
<1> QED
  BY <1>1, <1>2, <1>3

(* A query that is appended is in the list, with those that were.          *)
LEMMA InAppend ==
  ASSUME NEW S, NEW s \in Seq(S), NEW e \in S, NEW q
  PROVE  InSeq(q, Append(s, e)) <=> (q = e \/ InSeq(q, s))
<1>1. /\ Len(s) \in Nat
      /\ DOMAIN s = 1 .. Len(s)
      /\ DOMAIN Append(s, e) = 1 .. Len(s) + 1
      /\ \A i \in 1 .. Len(s) : Append(s, e)[i] = s[i]
      /\ Append(s, e)[Len(s) + 1] = e
  BY AppendFacts
<1> DEFINE a == Append(s, e)
<1> HIDE DEF a
<1>2. /\ DOMAIN a = 1 .. Len(s) + 1
      /\ \A i \in 1 .. Len(s) : a[i] = s[i]
      /\ a[Len(s) + 1] = e
  BY <1>1 DEF a
<1>3. InSeq(q, a) => (q = e \/ InSeq(q, s))
  BY <1>1, <1>2 DEF InSeq
<1>4. InSeq(q, s) => InSeq(q, a)
  BY <1>1, <1>2 DEF InSeq
<1>5. q = e => InSeq(q, a)
  BY <1>1, <1>2 DEF InSeq
<1> QED
  BY <1>3, <1>4, <1>5 DEF a

(* Appending what is not there keeps the elements distinct.                *)
LEMMA DistinctAppend ==
  ASSUME NEW S, NEW s \in Seq(S), NEW e \in S, Distinct(s), ~InSeq(e, s)
  PROVE  Distinct(Append(s, e))
<1> DEFINE a == Append(s, e)
<1>1. /\ Len(s) \in Nat
      /\ DOMAIN s = 1 .. Len(s)
      /\ DOMAIN a = 1 .. Len(s) + 1
      /\ \A i \in 1 .. Len(s) : a[i] = s[i]
      /\ a[Len(s) + 1] = e
  BY AppendFacts
<1> HIDE DEF a
<1>2. Distinct(a)
  BY <1>1 DEF Distinct, InSeq
<1> QED
  BY <1>2 DEF a

(* What the types say of the threads, in the form the steps below need.    *)
LEMMA ThreadFacts ==
  ASSUME TypeOK
  PROVE  /\ Worker \in Runners
         /\ \A f \in Flushers : f \in Runners /\ f # Worker
         /\ NoQuery \notin Queries
         /\ NoQuery \notin Flushers
         /\ pc \in [Runners -> WorkerPCs \cup FlusherPCs]
         /\ hand \in [Runners -> Queries \cup {NoQuery}]
         /\ DispatcherThread \in Flushers
BY DatabaseTasksAssumption DEF TypeOK, Runners, Flushers

(* notify_one() changes the worker's place, and only if it waits.          *)
LEMMA WokenFacts ==
  ASSUME TypeOK
  PROVE  /\ Woken(pc) \in [Runners -> WorkerPCs \cup FlusherPCs]
         /\ \A r \in Runners : r # Worker => Woken(pc)[r] = pc[r]
         /\ Woken(pc)[Worker] = IF pc[Worker] = "wait" THEN "woken" ELSE pc[Worker]
BY ThreadFacts DEF Woken, WorkerPCs, FlusherPCs

-----------------------------------------------------------------------------
(* Every variable keeps its type along every step of the queue's threads.  *)
LEMMA TypeStep ==
  ASSUME TypeOK, HandMatchesPc, [Next]_vars
  PROVE  TypeOK'
<1> USE DatabaseTasksAssumption
<1>0. /\ Worker \in Runners
      /\ \A f \in Flushers : f \in Runners /\ f # Worker
      /\ NoQuery \notin Queries
      /\ DispatcherThread \in Flushers
  BY ThreadFacts
\* A runner moves to one of its own places.
<1>p. ASSUME NEW r \in Runners, NEW l, pc' = [pc EXCEPT ![r] = l],
             l \in IF r = Worker THEN WorkerPCs ELSE FlusherPCs
      PROVE  /\ pc' \in [Runners -> WorkerPCs \cup FlusherPCs]
             /\ pc'[Worker] \in WorkerPCs
             /\ \A f \in Flushers : pc'[f] \in FlusherPCs
  BY <1>0, <1>p DEF TypeOK
<1>w. /\ Woken(pc) \in [Runners -> WorkerPCs \cup FlusherPCs]
      /\ Woken(pc)[Worker] \in WorkerPCs
      /\ \A f \in Flushers : Woken(pc)[f] \in FlusherPCs
  BY <1>0, WokenFacts DEF TypeOK, WorkerPCs
<1>r. /\ {"run", "callback"} \subseteq WorkerPCs \cap FlusherPCs
      /\ \A r \in Runners :
           After(r) \in IF r = Worker THEN WorkerPCs ELSE FlusherPCs
  BY DEF After, WorkerPCs, FlusherPCs
<1>1. CASE \E th \in Clients, q \in Queries : AddTask(th, q)
  BY <1>1, AppendFacts DEF AddTask, TypeOK
<1>2. CASE \E th \in Clients : Notify(th)
  BY <1>2, <1>w DEF Notify, TypeOK
<1>t. ASSUME NEW r \in Runners, Take(r)
      PROVE  TypeOK'
  <2>1. Head(tasks) \in Queries /\ Tail(tasks) \in Seq(Queries)
    BY <1>t, TailFacts DEF Take, TypeOK
  <2>2. hand' \in [Runners -> Queries \cup {NoQuery}]
    BY <1>t, <2>1 DEF Take, TypeOK
  <2> QED
    BY <1>t, <1>p, <1>r, <2>1, <2>2 DEF Take, TypeOK
<1>g. ASSUME NEW r \in Runners, NEW l, Goto(r, l),
             l \in IF r = Worker THEN WorkerPCs ELSE FlusherPCs
      PROVE  TypeOK'
  BY <1>g, <1>p DEF Goto, TypeOK
<1>e. ASSUME NEW r \in Runners, RunnerStep(r)
      PROVE  TypeOK'
  <2>1. hand[r] \in Queries
    BY <1>e DEF RunnerStep, Execute, PostCallback, HandMatchesPc, TypeOK
  <2>2. CASE Execute(r)
    <3>1. executed' \in Seq(Queries)
      BY <2>1, <2>2, AppendFacts DEF Execute, TypeOK
    <3>2. /\ pc' \in [Runners -> WorkerPCs \cup FlusherPCs]
          /\ pc'[Worker] \in WorkerPCs
          /\ \A f \in Flushers : pc'[f] \in FlusherPCs
          /\ hand' \in [Runners -> Queries \cup {NoQuery}]
      <4>1. CASE hand[r] \in WithCallback
        BY <2>2, <4>1, <1>p, <1>r DEF Execute, TypeOK
      <4>2. CASE hand[r] \notin WithCallback
        BY <2>2, <4>2, <1>p, <1>r DEF Execute, TypeOK
      <4> QED
        BY <4>1, <4>2
    <3> QED
      BY <2>2, <3>1, <3>2 DEF Execute, TypeOK
  <2>3. CASE PostCallback(r)
    BY <1>p, <1>r, <2>1, <2>3 DEF PostCallback, TypeOK, HandMatchesPc
  <2> QED
    BY <1>e, <2>2, <2>3 DEF RunnerStep
<1>3. CASE WorkerStep
  <2>1. CASE TestState
    BY <2>1, <1>0, <1>g DEF TestState, WorkerPCs
  <2>2. CASE WaitForSignal \/ NothingToTake
    BY <2>2, <1>0, <1>g DEF WaitForSignal, NothingToTake, WorkerPCs
  <2>3. CASE WorkerTake
    BY <2>3, <1>0, <1>t DEF WorkerTake
  <2>4. CASE RunnerStep(Worker)
    BY <2>4, <1>0, <1>e
  <2> QED
    BY <1>3, <2>1, <2>2, <2>3, <2>4 DEF WorkerStep
<1>4. CASE SpuriousWakeup
  BY <1>4, <1>0, <1>g DEF SpuriousWakeup, WorkerPCs
<1>5. CASE \E f \in Flushers : FlusherStep(f)
  <2> PICK f \in Flushers : FlusherStep(f)
    BY <1>5
  <2>1. CASE FlushTake(f)
    BY <2>1, <1>0, <1>t DEF FlushTake
  <2>2. CASE FlushEnd(f)
    BY <2>2, <1>0, <1>g DEF FlushEnd, FlusherPCs
  <2>3. CASE ShutdownNotify(f)
    BY <2>3, <1>0, <1>w DEF ShutdownNotify, TypeOK, FlusherPCs
  <2>4. CASE RunnerStep(f)
    BY <2>4, <1>0, <1>e
  <2> QED
    BY <2>1, <2>2, <2>3, <2>4 DEF FlusherStep
<1>6. CASE \E f \in Flushers : Shutdown(f)
  <2> PICK f \in Flushers : Shutdown(f)
    BY <1>6
  <2>1. /\ pc' \in [Runners -> WorkerPCs \cup FlusherPCs]
        /\ pc'[Worker] \in WorkerPCs
        /\ \A g \in Flushers : pc'[g] \in FlusherPCs
    BY <1>0, <1>p DEF Shutdown, FlusherPCs
  <2> QED
    BY <2>1 DEF Shutdown, TypeOK
<1>7. CASE BeginFlush
  BY <1>7, <1>0, <1>g DEF BeginFlush, FlusherPCs
<1>8. CASE Stop
  BY <1>8 DEF Stop, TypeOK
<1>9. CASE StopDispatcher
  BY <1>9 DEF StopDispatcher, TypeOK
<1>10. CASE UNCHANGED vars
  BY <1>10 DEF vars, TypeOK
<1> QED
  BY <1>1, <1>2, <1>3, <1>4, <1>5, <1>6, <1>7, <1>8, <1>9, <1>10 DEF Next

-----------------------------------------------------------------------------
(* The invariant of the threads.                                           *)

(* Neither a wake-up lost nor a flush of shutdown() that ends too early.   *)
LEMMA ThreadsStep ==
  ASSUME TypeOK, NoLostWakeup, ShutdownFlushes, [Next]_vars
  PROVE  NoLostWakeup' /\ ShutdownFlushes'
<1> USE DatabaseTasksAssumption
<1>0. /\ Worker \in Runners
      /\ \A f \in Flushers : f \in Runners /\ f # Worker
      /\ NoQuery \notin Flushers
      /\ DispatcherThread \in Flushers
      /\ pc \in [Runners -> WorkerPCs \cup FlusherPCs]
      /\ shutdownBy \in Flushers \cup {NoQuery}
      /\ threadState \in {"RUNNING", "CLOSING", "TERMINATED"}
  BY ThreadFacts DEF TypeOK
<1>w. /\ \A r \in Runners : r # Worker => Woken(pc)[r] = pc[r]
      /\ Woken(pc)[Worker] = IF pc[Worker] = "wait" THEN "woken" ELSE pc[Worker]
  BY WokenFacts
<1> USE DEF NoLostWakeup, ShutdownFlushes
<1>1. CASE \E th \in Clients, q \in Queries : AddTask(th, q)
  <2> PICK th \in Clients, q \in Queries : AddTask(th, q)
    BY <1>1
  <2>1. th \in notifying' \/ (tasks # <<>> /\ notifying' = notifying)
    BY DEF AddTask, MustSignal
  <2> QED
    BY <2>1, <1>0 DEF AddTask
<1>2. CASE \E th \in Clients : Notify(th)
  BY <1>2, <1>0, <1>w DEF Notify
\* The flush of shutdown() goes on while there is something in the list.
<1>t. ASSUME NEW r \in Runners, Take(r), pc[r] # "wait"
      PROVE  NoLostWakeup' /\ ShutdownFlushes'
  BY <1>t, <1>0 DEF Take
<1>e. ASSUME NEW r \in Runners, RunnerStep(r)
      PROVE  NoLostWakeup' /\ ShutdownFlushes'
  <2>1. /\ UNCHANGED <<tasks, threadState, shutdownBy, notifying>>
        /\ \A q \in Runners : pc'[q] = pc[q] \/ (q = r /\ pc'[q] \in {"callback", After(r)})
    BY <1>e, <1>0 DEF RunnerStep, Execute, PostCallback
  <2> QED
    BY <2>1, <1>0 DEF After
<1>3. CASE WorkerStep
  <2>1. CASE TestState
    BY <2>1, <1>0 DEF TestState, Goto
  <2>2. CASE WaitForSignal \/ NothingToTake
    BY <2>2, <1>0 DEF WaitForSignal, NothingToTake, Goto
  <2>3. CASE WorkerTake
    BY <2>3, <1>0, <1>t DEF WorkerTake
  <2>4. CASE RunnerStep(Worker)
    BY <2>4, <1>0, <1>e
  <2> QED
    BY <1>3, <2>1, <2>2, <2>3, <2>4 DEF WorkerStep
<1>4. CASE SpuriousWakeup
  BY <1>4, <1>0 DEF SpuriousWakeup, Goto
<1>5. CASE \E f \in Flushers : FlusherStep(f)
  <2> PICK f \in Flushers : FlusherStep(f)
    BY <1>5
  <2>1. CASE FlushTake(f)
    BY <2>1, <1>0, <1>t DEF FlushTake
  <2>2. CASE FlushEnd(f)
    BY <2>2, <1>0 DEF FlushEnd, Goto
  <2>3. CASE ShutdownNotify(f)
    BY <2>3, <1>0, <1>w, WokenFacts DEF ShutdownNotify
  <2>4. CASE RunnerStep(f)
    BY <2>4, <1>0, <1>e
  <2> QED
    BY <2>1, <2>2, <2>3, <2>4 DEF FlusherStep
<1>6. CASE \E f \in Flushers : Shutdown(f)
  BY <1>6, <1>0 DEF Shutdown, CanCall
<1>7. CASE BeginFlush
  BY <1>7, <1>0 DEF BeginFlush, CanCall, Goto
<1>8. CASE Stop
  BY <1>8 DEF Stop
<1>9. CASE StopDispatcher
  BY <1>9 DEF StopDispatcher
<1>10. CASE UNCHANGED vars
  BY <1>10 DEF vars
<1> QED
  BY <1>1, <1>2, <1>3, <1>4, <1>5, <1>6, <1>7, <1>8, <1>9, <1>10 DEF Next
-----------------------------------------------------------------------------
(* The invariant of the queries.                                           *)

(* A thread that is not in runTask() moves: nothing happens to a query.    *)
LEMMA TrackedMove ==
  ASSUME QueriesTracked, UNCHANGED <<tasks, hand, accepted, executed>>,
         \A r \in Runners : /\ pc'[r] = "run" <=> pc[r] = "run"
                            /\ pc'[r] = "callback" <=> pc[r] = "callback"
  PROVE  QueriesTracked'
<1> USE DEF QueriesTracked
<1>1. HandMatchesPc'
  BY DEF HandMatchesPc
<1>2. Distinct(accepted)' /\ Distinct(executed)'
  BY DEF Distinct
<1>3. Taken' = Taken
  BY DEF Taken
<1>4. TasksAreRest'
  BY <1>3 DEF TasksAreRest
<1>5. RunningOnce'
  BY <1>3 DEF RunningOnce, InSeq
<1>6. TakenAccounted'
  BY <1>3 DEF TakenAccounted, InSeq
<1>7. ExecutedWereTaken'
  BY <1>3 DEF ExecutedWereTaken
<1> QED
  BY <1>1, <1>2, <1>4, <1>5, <1>6, <1>7

(* push_back: the list and the history grow by the same query.             *)
LEMMA TrackedAdd ==
  ASSUME TypeOK, QueriesTracked, NEW th, NEW q \in Queries, AddTask(th, q)
  PROVE  QueriesTracked'
<1> USE DEF QueriesTracked
<1>0. /\ accepted \in Seq(Queries) /\ tasks \in Seq(Queries)
      /\ accepted' = Append(accepted, q) /\ tasks' = Append(tasks, q)
      /\ UNCHANGED <<pc, hand, executed>>
      /\ ~InSeq(q, accepted)
  BY DEF AddTask, TypeOK
<1>1. /\ Len(accepted) \in Nat /\ Len(accepted') = Len(accepted) + 1
      /\ \A i \in 1 .. Len(accepted) : accepted'[i] = accepted[i]
      /\ accepted'[Len(accepted) + 1] = q
  BY <1>0, AppendFacts
<1>2. /\ Len(tasks) \in Nat /\ Len(tasks') = Len(tasks) + 1
      /\ \A i \in 1 .. Len(tasks) : tasks'[i] = tasks[i]
      /\ tasks'[Len(tasks) + 1] = q
  BY <1>0, AppendFacts
<1>3. /\ Taken' = Taken /\ Taken \in Nat /\ Taken <= Len(accepted)
      /\ Len(accepted) = Taken + Len(tasks)
  BY <1>1, <1>2 DEF Taken, TasksAreRest
<1>4. \A i \in 1 .. Taken : accepted'[i] = accepted[i]
  BY <1>1, <1>3
<1>5. Distinct(accepted)'
  BY <1>0, DistinctAppend
<1>6. TasksAreRest'
  <2> SUFFICES ASSUME NEW i \in 1 .. Len(tasks')
               PROVE  tasks'[i] = accepted'[Taken + i]
    BY <1>1, <1>2, <1>3 DEF TasksAreRest
  <2>1. CASE i = Len(tasks) + 1
    BY <1>1, <1>2, <1>3, <2>1
  <2>2. CASE i # Len(tasks) + 1
    <3>1. i \in 1 .. Len(tasks) /\ Taken + i \in 1 .. Len(accepted)
      BY <1>1, <1>2, <1>3, <2>2
    <3> QED
      BY <1>1, <1>2, <3>1 DEF TasksAreRest
  <2> QED
    BY <2>1, <2>2
<1>7. HandMatchesPc' /\ Distinct(executed)'
  BY <1>0 DEF HandMatchesPc, Distinct
<1>8. RunningOnce'
  <2> SUFFICES ASSUME NEW r \in Runners, pc'[r] = "run"
               PROVE  /\ \E i \in 1 .. Taken' : accepted'[i] = hand'[r]
                      /\ ~InSeq(hand[r], executed)'
                      /\ \A s \in Runners : pc'[s] = "run" /\ hand'[s] = hand'[r] => s = r
    BY DEF RunningOnce
  <2>1. pc[r] = "run" /\ UNCHANGED <<pc, hand, executed>>
    BY <1>0
  <2>2. PICK i \in 1 .. Taken : accepted[i] = hand[r]
    BY <2>1 DEF RunningOnce
  <2>3. \E j \in 1 .. Taken' : accepted'[j] = hand'[r]
    <3>1. i \in 1 .. Taken'
      BY <1>3
    <3>2. accepted'[i] = hand'[r]
      BY <1>4, <2>1, <2>2
    <3> QED BY <3>1, <3>2
  <2>4. ~InSeq(hand[r], executed)'
    BY <2>1 DEF RunningOnce, InSeq
  <2>5. \A s \in Runners : pc'[s] = "run" /\ hand'[s] = hand'[r] => s = r
    BY <2>1 DEF RunningOnce
  <2> QED BY <2>3, <2>4, <2>5
<1>9. TakenAccounted'
  <2> SUFFICES ASSUME NEW i \in 1 .. Taken
               PROVE  \/ InSeq(accepted[i], executed)
                      \/ \E r \in Runners : pc[r] = "run" /\ hand[r] = accepted[i]
    <3>1. TakenAccounted' <=>
            \A i \in 1 .. Taken' :
              \/ InSeq(accepted'[i], executed')
              \/ \E r \in Runners : pc'[r] = "run" /\ hand'[r] = accepted'[i]
      BY DEF TakenAccounted, InSeq
    <3> QED
      BY <1>0, <1>3, <1>4, <3>1
  <2> QED
    BY DEF TakenAccounted
<1>10. ExecutedWereTaken'
  <2> SUFFICES ASSUME NEW j \in DOMAIN executed'
               PROVE  \E i \in 1 .. Taken' : accepted'[i] = executed'[j]
    BY DEF ExecutedWereTaken
  <2>1. PICK i \in 1 .. Taken : accepted[i] = executed[j]
    BY <1>0 DEF ExecutedWereTaken
  <2>2. i \in 1 .. Taken' /\ accepted'[i] = executed'[j]
    BY <1>0, <1>3, <1>4, <2>1
  <2> QED BY <2>2
<1> QED
  BY <1>5, <1>6, <1>7, <1>8, <1>9, <1>10

(* front() and pop_front() under one lock: the query at the boundary       *)
(* passes from the list to the runner.                                     *)
LEMMA TrackedTake ==
  ASSUME TypeOK, QueriesTracked, NEW r \in Runners, Take(r),
         pc[r] \notin {"run", "callback"}
  PROVE  QueriesTracked'
<1> USE DEF QueriesTracked
<1> DEFINE q == Head(tasks)
<1>0. /\ accepted \in Seq(Queries) /\ tasks \in Seq(Queries) /\ tasks # <<>>
      /\ tasks' = Tail(tasks) /\ UNCHANGED <<accepted, executed>>
      /\ pc' = [pc EXCEPT ![r] = "run"] /\ hand' = [hand EXCEPT ![r] = q]
      /\ pc \in [Runners -> WorkerPCs \cup FlusherPCs]
      /\ hand \in [Runners -> Queries \cup {NoQuery}]
      /\ NoQuery \notin Queries
  BY ThreadFacts DEF Take, TypeOK
<1>1. /\ Len(tasks) \in Nat \ {0} /\ Len(tasks') = Len(tasks) - 1
      /\ \A i \in 1 .. Len(tasks) - 1 : tasks'[i] = tasks[i + 1]
      /\ q \in Queries /\ q = tasks[1]
  BY <1>0, TailFacts
<1>2. /\ Len(accepted) \in Nat /\ DOMAIN accepted = 1 .. Len(accepted)
      /\ accepted' = accepted
  BY <1>0
<1> HIDE DEF q
<1>3. /\ Taken \in Nat /\ Taken' = Taken + 1 /\ Len(accepted) = Taken + Len(tasks)
      /\ Taken + 1 \in DOMAIN accepted
  BY <1>1, <1>2 DEF Taken, TasksAreRest
<1>4. accepted[Taken + 1] = q
  BY <1>1, <1>3 DEF TasksAreRest
<1>5. \A i \in 1 .. Taken : accepted[i] # q
  BY <1>2, <1>3, <1>4 DEF Distinct
<1>6. ~InSeq(q, executed)
  BY <1>5 DEF InSeq, ExecutedWereTaken
<1>7. \A s \in Runners : pc[s] = "run" => hand[s] # q
  BY <1>5 DEF RunningOnce
<1>8. HandMatchesPc'
  BY <1>0, <1>1 DEF HandMatchesPc
<1>9. TasksAreRest'
  <2> SUFFICES ASSUME NEW i \in 1 .. Len(tasks')
               PROVE  tasks'[i] = accepted[Taken' + i]
    BY <1>1, <1>2, <1>3 DEF TasksAreRest
  <2>1. i + 1 \in 1 .. Len(tasks) /\ tasks'[i] = tasks[i + 1]
    BY <1>1
  <2>2. tasks[i + 1] = accepted[Taken + (i + 1)]
    BY <2>1 DEF TasksAreRest
  <2>3. Taken + (i + 1) = Taken' + i
    BY <1>3
  <2> QED
    BY <2>1, <2>2, <2>3
<1>10. RunningOnce'
  <2> SUFFICES ASSUME NEW s \in Runners, pc'[s] = "run"
               PROVE  /\ \E i \in 1 .. Taken' : accepted[i] = hand'[s]
                      /\ ~InSeq(hand'[s], executed)
                      /\ \A t \in Runners : pc'[t] = "run" /\ hand'[t] = hand'[s] => t = s
    BY <1>0 DEF RunningOnce, InSeq
  <2>1. CASE s = r
    BY <1>0, <1>3, <1>4, <1>6, <1>7, <2>1
  <2>2. CASE s # r
    BY <1>0, <1>3, <1>7, <2>2 DEF RunningOnce
  <2> QED
    BY <2>1, <2>2
<1>11. TakenAccounted'
  <2> SUFFICES ASSUME NEW i \in 1 .. Taken'
               PROVE  \/ InSeq(accepted[i], executed)
                      \/ \E s \in Runners : pc'[s] = "run" /\ hand'[s] = accepted[i]
    BY <1>0 DEF TakenAccounted, InSeq
  <2>1. CASE i = Taken + 1
    BY <1>0, <1>4, <2>1
  <2>2. CASE i # Taken + 1
    <3>1. i \in 1 .. Taken
      BY <1>3, <2>2
    <3> QED
      BY <1>0, <3>1 DEF TakenAccounted
  <2> QED
    BY <2>1, <2>2
<1>12. ExecutedWereTaken'
  BY <1>0, <1>3 DEF ExecutedWereTaken
<1>13. Distinct(accepted)' /\ Distinct(executed)'
  BY <1>0 DEF Distinct
<1> QED
  BY <1>8, <1>9, <1>10, <1>11, <1>12, <1>13

(* The query is executed: it leaves the hands and enters the history.      *)
LEMMA TrackedExecute ==
  ASSUME TypeOK, QueriesTracked, NEW r \in Runners, Execute(r)
  PROVE  QueriesTracked'
<1> USE DEF QueriesTracked
<1> DEFINE q == hand[r]
<1>0. /\ executed \in Seq(Queries) /\ executed' = Append(executed, q)
      /\ UNCHANGED <<accepted, tasks>> /\ Taken' = Taken
      /\ pc[r] = "run" /\ q \in Queries
      /\ NoQuery \notin Queries
      /\ pc \in [Runners -> WorkerPCs \cup FlusherPCs]
      /\ hand \in [Runners -> Queries \cup {NoQuery}]
  BY ThreadFacts DEF Execute, TypeOK, HandMatchesPc, Taken
<1>1. /\ ~InSeq(q, executed)
      /\ \E i \in 1 .. Taken : accepted[i] = q
      /\ \A s \in Runners : pc[s] = "run" /\ hand[s] = q => s = r
  BY <1>0 DEF RunningOnce
<1>2. /\ pc'[r] \in {"callback", After(r)} /\ pc'[r] # "run"
      /\ \A s \in Runners \ {r} : pc'[s] = pc[s] /\ hand'[s] = hand[s]
      /\ pc'[r] = "callback" <=> q \in WithCallback
      /\ hand'[r] = IF q \in WithCallback THEN q ELSE NoQuery
  <2>1. CASE q \in WithCallback
    BY <1>0, <2>1 DEF Execute, After
  <2>2. CASE q \notin WithCallback
    BY <1>0, <2>2 DEF Execute, After
  <2> QED
    BY <2>1, <2>2
<1> HIDE DEF q
<1>3. \A x : InSeq(x, executed') <=> (x = q \/ InSeq(x, executed))
  BY <1>0, InAppend
<1>4. HandMatchesPc'
  BY <1>0, <1>2 DEF HandMatchesPc, After
<1>5. Distinct(executed)'
  BY <1>0, <1>1, DistinctAppend
<1>6. RunningOnce'
  <2> SUFFICES ASSUME NEW s \in Runners, pc'[s] = "run"
               PROVE  /\ \E i \in 1 .. Taken : accepted[i] = hand'[s]
                      /\ ~InSeq(hand'[s], executed')
                      /\ \A t \in Runners : pc'[t] = "run" /\ hand'[t] = hand'[s] => t = s
    BY <1>0 DEF RunningOnce, InSeq
  <2>1. s # r /\ pc[s] = "run" /\ hand'[s] = hand[s] /\ hand[s] # q
    BY <1>1, <1>2
  <2> QED
    BY <1>2, <1>3, <2>1 DEF RunningOnce
<1>7. TakenAccounted'
  <2> SUFFICES ASSUME NEW i \in 1 .. Taken
               PROVE  \/ InSeq(accepted[i], executed')
                      \/ \E s \in Runners : pc'[s] = "run" /\ hand'[s] = accepted[i]
    BY <1>0 DEF TakenAccounted, InSeq
  <2>1. CASE InSeq(accepted[i], executed)
    BY <1>3, <2>1
  <2>2. CASE \E s \in Runners : pc[s] = "run" /\ hand[s] = accepted[i]
    <3> PICK s \in Runners : pc[s] = "run" /\ hand[s] = accepted[i]
      BY <2>2
    <3>1. s = r => accepted[i] = q
      BY DEF q
    <3> QED
      BY <1>2, <1>3, <3>1
  <2> QED
    BY <2>1, <2>2 DEF TakenAccounted
<1>8. ExecutedWereTaken'
  <2> SUFFICES ASSUME NEW k \in DOMAIN executed'
               PROVE  \E i \in 1 .. Taken : accepted[i] = executed'[k]
    BY <1>0 DEF ExecutedWereTaken
  <2>1. executed'[k] = q \/ InSeq(executed'[k], executed)
    BY <1>3 DEF InSeq
  <2> QED
    BY <1>1, <2>1 DEF ExecutedWereTaken, InSeq
<1>9. Distinct(accepted)' /\ TasksAreRest'
  BY <1>0 DEF Distinct, TasksAreRest
<1> QED
  BY <1>4, <1>5, <1>6, <1>7, <1>8, <1>9

(* The callback is handed on and the query is deleted.                     *)
LEMMA TrackedPost ==
  ASSUME TypeOK, QueriesTracked, NEW r \in Runners, PostCallback(r)
  PROVE  QueriesTracked'
<1> USE DEF QueriesTracked
<1>0. /\ UNCHANGED <<accepted, executed, tasks>> /\ Taken' = Taken
      /\ pc[r] = "callback"
      /\ pc'[r] = After(r) /\ hand'[r] = NoQuery
      /\ \A s \in Runners \ {r} : pc'[s] = pc[s] /\ hand'[s] = hand[s]
      /\ After(r) \notin {"run", "callback"}
  BY ThreadFacts DEF PostCallback, TypeOK, Taken, After
<1>1. HandMatchesPc'
  BY <1>0 DEF HandMatchesPc
<1>2. \A s \in Runners : /\ pc'[s] = "run" <=> pc[s] = "run"
                         /\ pc[s] = "run" => hand'[s] = hand[s]
  BY <1>0
<1>3. RunningOnce'
  BY <1>0, <1>2 DEF RunningOnce, InSeq
<1>4. TakenAccounted'
  <2> SUFFICES ASSUME NEW i \in 1 .. Taken, ~InSeq(accepted[i], executed)
               PROVE  \E s \in Runners : pc'[s] = "run" /\ hand'[s] = accepted[i]
    BY <1>0 DEF TakenAccounted, InSeq
  <2> QED
    BY <1>2 DEF TakenAccounted
<1>5. ExecutedWereTaken' /\ Distinct(accepted)' /\ Distinct(executed)' /\ TasksAreRest'
  BY <1>0 DEF ExecutedWereTaken, Distinct, TasksAreRest
<1> QED
  BY <1>1, <1>3, <1>4, <1>5

(* Every step keeps track of every query.                                  *)
LEMMA TrackedStep ==
  ASSUME TypeOK, QueriesTracked, [Next]_vars
  PROVE  QueriesTracked'
<1>0. /\ Worker \in Runners
      /\ \A f \in Flushers : f \in Runners /\ f # Worker
      /\ DispatcherThread \in Flushers
      /\ pc \in [Runners -> WorkerPCs \cup FlusherPCs]
  BY ThreadFacts
<1>g. ASSUME NEW r \in Runners, NEW l, Goto(r, l),
             pc[r] \notin {"run", "callback"}, l \notin {"run", "callback"}
      PROVE  QueriesTracked'
  BY <1>0, <1>g, TrackedMove DEF Goto
<1>w. \A r \in Runners : /\ Woken(pc)[r] = "run" <=> pc[r] = "run"
                         /\ Woken(pc)[r] = "callback" <=> pc[r] = "callback"
  BY WokenFacts
<1>1. CASE \E th \in Clients, q \in Queries : AddTask(th, q)
  BY <1>1, TrackedAdd
<1>2. CASE \E th \in Clients : Notify(th)
  BY <1>2, <1>w, TrackedMove DEF Notify
<1>r. ASSUME NEW r \in Runners, RunnerStep(r)
      PROVE  QueriesTracked'
  BY <1>r, TrackedExecute, TrackedPost DEF RunnerStep
<1>3. CASE WorkerStep
  <2>1. CASE TestState \/ WaitForSignal \/ NothingToTake
    BY <2>1, <1>0, <1>g DEF TestState, WaitForSignal, NothingToTake
  <2>2. CASE WorkerTake
    BY <2>2, <1>0, TrackedTake DEF WorkerTake
  <2> QED
    BY <1>3, <1>0, <1>r, <2>1, <2>2 DEF WorkerStep
<1>4. CASE SpuriousWakeup
  BY <1>4, <1>0, <1>g DEF SpuriousWakeup
<1>5. CASE \E f \in Flushers : FlusherStep(f)
  <2> PICK f \in Flushers : FlusherStep(f)
    BY <1>5
  <2>1. CASE FlushTake(f)
    BY <2>1, <1>0, TrackedTake DEF FlushTake
  <2>2. CASE FlushEnd(f)
    BY <2>2, <1>0, <1>g DEF FlushEnd
  <2>3. CASE ShutdownNotify(f)
    <3>1. \A r \in Runners : /\ pc'[r] = "run" <=> pc[r] = "run"
                             /\ pc'[r] = "callback" <=> pc[r] = "callback"
      BY <2>3, <1>0, <1>w, WokenFacts DEF ShutdownNotify
    <3> QED
      BY <2>3, <3>1, TrackedMove DEF ShutdownNotify
  <2> QED
    BY <1>0, <1>r, <2>1, <2>2, <2>3 DEF FlusherStep
<1>6. CASE \E f \in Flushers : Shutdown(f)
  <2> PICK f \in Flushers : Shutdown(f)
    BY <1>6
  <2> QED
    BY <1>0, TrackedMove DEF Shutdown, CanCall
<1>7. CASE BeginFlush
  BY <1>7, <1>0, <1>g DEF BeginFlush, CanCall
<1>8. CASE Stop \/ StopDispatcher \/ UNCHANGED vars
  BY <1>8, TrackedMove DEF Stop, StopDispatcher, vars
<1> QED
  BY <1>1, <1>2, <1>3, <1>4, <1>5, <1>6, <1>7, <1>8 DEF Next

(* The queue of a server that has just been started.                       *)
LEMMA IInvInit == Init => IInv
<1> SUFFICES ASSUME Init
             PROVE  IInv
  OBVIOUS
<1> USE DatabaseTasksAssumption DEF Init
<1>0. tasks = <<>> /\ Len(tasks) = 0 /\ Taken = 0
  BY DEF Taken
<1>1. TypeOK
  BY DEF TypeOK, Runners, Flushers, WorkerPCs, FlusherPCs
<1>2. NoLostWakeup /\ ShutdownFlushes
  BY DEF NoLostWakeup, ShutdownFlushes, Runners
<1>3. HandMatchesPc /\ RunningOnce
  BY DEF HandMatchesPc, RunningOnce
<1>4. Distinct(accepted) /\ Distinct(executed) /\ ExecutedWereTaken
  BY DEF Distinct, ExecutedWereTaken
<1>5. TasksAreRest /\ TakenAccounted
  BY <1>0 DEF TasksAreRest, TakenAccounted
<1> QED
  BY <1>1, <1>2, <1>3, <1>4, <1>5 DEF IInv, QueriesTracked

(* The inductive invariant along a step.                                   *)
LEMMA IInvStep == IInv /\ [Next]_vars => IInv'
BY TypeStep, ThreadsStep, TrackedStep DEF IInv, QueriesTracked

-----------------------------------------------------------------------------
(* What has left the list but is not executed is in somebody's hand.       *)
LEMMA NotWaiting ==
  ASSUME TypeOK, QueriesTracked, NEW i \in DOMAIN accepted
  PROVE  \/ i > Taken /\ InSeq(accepted[i], tasks) /\ ~InSeq(accepted[i], executed)
         \/ /\ i <= Taken
            /\ \/ InSeq(accepted[i], executed)
               \/ \E r \in Runners : pc[r] = "run" /\ hand[r] = accepted[i]
<1> USE DEF QueriesTracked
<1>0. /\ accepted \in Seq(Queries) /\ tasks \in Seq(Queries)
      /\ Len(accepted) \in Nat /\ Len(tasks) \in Nat
      /\ DOMAIN accepted = 1 .. Len(accepted) /\ DOMAIN tasks = 1 .. Len(tasks)
  BY DEF TypeOK
<1>1. Taken \in Nat /\ Len(accepted) = Taken + Len(tasks)
  BY <1>0 DEF Taken, TasksAreRest
<1>2. CASE i <= Taken
  BY <1>0, <1>1, <1>2 DEF TakenAccounted
<1>3. CASE i > Taken
  <2>1. i - Taken \in 1 .. Len(tasks)
    BY <1>0, <1>1, <1>3
  <2>2. tasks[i - Taken] = accepted[i]
    BY <1>0, <1>1, <2>1 DEF TasksAreRest
  <2>3. ~InSeq(accepted[i], executed)
    BY <1>0, <1>1, <1>3 DEF InSeq, ExecutedWereTaken, Distinct
  <2> QED
    BY <1>0, <1>3, <2>1, <2>2, <2>3 DEF InSeq
<1> QED
  BY <1>0, <1>1, <1>2, <1>3

(* The queue of databasetasks.cpp between the worker and the threads that  *)
(* flush it: no query is overlooked, executed twice, overtaken except in a *)
(* runner's hand, or lost when the server shuts down.                      *)
THEOREM QueueIsSound == Spec => []QueueSound
<1>1. IInv => QueueSound
  <2> SUFFICES ASSUME IInv
               PROVE  QueueSound
    OBVIOUS
  <2> USE DEF IInv
  <2>0. /\ accepted \in Seq(Queries) /\ Len(accepted) \in Nat
        /\ DOMAIN accepted = 1 .. Len(accepted)
    BY DEF TypeOK
  <2>1. ExecutedOnce
    <3>1. \A i, j \in DOMAIN executed : executed[i] = executed[j] => i = j
      BY DEF QueriesTracked, Distinct
    <3> QED
      BY <3>1, NotWaiting DEF ExecutedOnce
  <2>2. OvertakenOnlyInHand
    <3> SUFFICES ASSUME NEW i \in DOMAIN accepted, NEW j \in DOMAIN accepted, i < j,
                        InSeq(accepted[j], executed), ~InSeq(accepted[i], executed)
                 PROVE  \E r \in Runners : hand[r] = accepted[i]
      BY DEF OvertakenOnlyInHand
    <3>1. j <= Taken
      BY NotWaiting
    <3>2. ~(i > Taken)
      BY <2>0, <3>1 DEF Taken, TypeOK
    <3> QED
      BY <3>2, NotWaiting
  <2>3. ShutdownLosesNothing
    <3> SUFFICES ASSUME pc[Worker] = "exit", \A f \in Flushers : pc[f] = "idle",
                        NEW i \in DOMAIN accepted
                 PROVE  InSeq(accepted[i], executed)
      BY DEF ShutdownLosesNothing
    <3>1. tasks = <<>>
      BY DatabaseTasksAssumption DEF ShutdownFlushes, TypeOK
    <3>2. ~InSeq(accepted[i], tasks)
      BY <3>1 DEF InSeq
    <3>3. \A r \in Runners : pc[r] # "run"
      BY DEF Runners
    <3> QED
      BY <3>2, <3>3, NotWaiting
  <2> QED
    BY <2>1, <2>2, <2>3 DEF QueueSound
<1> QED
  BY <1>1, IInvInit, IInvStep, PTL DEF Spec

(* What flush() promises saveGameState(): when it returns, every query     *)
(* added before is executed, or is in the hand of another thread.          *)
THEOREM FlushLeavesNothing == Spec => FlushDrains
<1> DEFINE Drained ==
      \A f \in Flushers :
        (pc[f] = "flush" /\ pc'[f] # pc[f] /\ pc'[f] # "run") =>
          \A i \in DOMAIN accepted :
            \/ InSeq(accepted[i], executed)
            \/ \E r \in Runners \ {f} : hand[r] = accepted[i]
<1>1. IInv /\ [Next]_vars => Drained
  <2> SUFFICES ASSUME IInv, [Next]_vars, NEW f \in Flushers, pc[f] = "flush",
                      pc'[f] # "flush", pc'[f] # "run", NEW i \in DOMAIN accepted
               PROVE  \/ InSeq(accepted[i], executed)
                      \/ \E r \in Runners \ {f} : hand[r] = accepted[i]
    OBVIOUS
  <2> USE DEF IInv
  <2>0. /\ Worker \in Runners
        /\ \A g \in Flushers : g \in Runners /\ g # Worker
        /\ DispatcherThread \in Flushers
        /\ pc \in [Runners -> WorkerPCs \cup FlusherPCs]
        /\ \A r \in Runners : r # Worker => Woken(pc)[r] = pc[r]
    BY ThreadFacts, WokenFacts
  <2>1. tasks = <<>>
    \* Only a step of f itself takes it out of flush().
    <3>1. ASSUME NEW r \in Runners, r # f, pc' = [pc EXCEPT ![r] = pc'[r]]
          PROVE  FALSE
      BY <2>0, <3>1
    <3>2. CASE WorkerStep \/ SpuriousWakeup
      BY <2>0, <3>1, <3>2 DEF WorkerStep, RunnerStep, Execute, PostCallback, TestState,
         WaitForSignal, WorkerTake, Take, NothingToTake, Goto, SpuriousWakeup
    <3>3. CASE \E g \in Flushers : FlusherStep(g) \/ Shutdown(g)
      <4> PICK g \in Flushers : FlusherStep(g) \/ Shutdown(g)
        BY <3>3
      <4>1. g = f
        <5> SUFFICES ASSUME g # f
                     PROVE  FALSE
          OBVIOUS
        <5>1. CASE ShutdownNotify(g)
          BY <2>0, <5>1 DEF ShutdownNotify
        <5>2. CASE FlushTake(g) \/ FlushEnd(g) \/ RunnerStep(g) \/ Shutdown(g)
          BY <2>0, <3>1, <5>2 DEF RunnerStep, Execute, PostCallback, FlushTake,
             Take, FlushEnd, Goto, Shutdown
        <5> QED
          BY <5>1, <5>2 DEF FlusherStep
      <4>2. FlushEnd(f)
        BY <2>0, <4>1 DEF FlusherStep, RunnerStep, Execute, PostCallback, FlushTake,
           Take, ShutdownNotify, Shutdown, CanCall
      <4> QED
        BY <4>2 DEF FlushEnd
    <3>4. CASE \E th \in Clients : Notify(th)
      BY <2>0, <3>4 DEF Notify
    <3>5. CASE BeginFlush
      BY <2>0, <3>5 DEF BeginFlush, CanCall, Goto
    <3>6. CASE (\E th \in Clients, q \in Queries : AddTask(th, q))
                 \/ Stop \/ StopDispatcher \/ UNCHANGED vars
      BY <3>6 DEF AddTask, Stop, StopDispatcher, vars
    <3> QED
      BY <3>2, <3>3, <3>4, <3>5, <3>6 DEF Next
  <2>2. ~InSeq(accepted[i], tasks)
    BY <2>1 DEF InSeq
  <2>3. CASE \E r \in Runners : pc[r] = "run" /\ hand[r] = accepted[i]
    BY <2>3
  <2> QED
    BY <2>2, <2>3, NotWaiting
<1> QED
  BY <1>1, IInvInit, IInvStep, PTL DEF Spec, FlushDrains
=============================================================================
