--------------------------- MODULE SerialExecutor ---------------------------
(***************************************************************************)
(* What the dispatcher promises to the rest of the server: the game logic  *)
(* is written without locks because every task it is made of runs alone,   *)
(* in queue order, once, and is run eventually.                            *)
(*                                                                         *)
(* A job is accepted at either end of the queue or refused; the executor   *)
(* takes the head when it has no job in hand, and completes or drops it.   *)
(* Completing the job Poison closes the executor: it takes nothing more.   *)
(***************************************************************************)
EXTENDS Sequences

CONSTANTS Jobs,     \* everything that may be handed to the executor
          Poison,   \* the job that closes it
          NoJob     \* the value of current when no job is in hand

VARIABLES queue,    \* accepted jobs that have not been taken
          current,  \* the job in hand, or NoJob
          fate,     \* fate[j]: what became of job j
          closed    \* TRUE once Poison has been completed

avars == <<queue, current, fate, closed>>

Init ==
  /\ queue = <<>>
  /\ current = NoJob
  /\ fate = [j \in Jobs |-> "new"]
  /\ closed = FALSE

Accept(j) ==
  /\ fate[j] = "new"
  /\ queue' = Append(queue, j) \/ queue' = <<j>> \o queue
  /\ fate' = [fate EXCEPT ![j] = "accepted"]
  /\ closed' = closed
  /\ UNCHANGED current

Refuse(j) ==
  /\ fate[j] = "new"
  /\ fate' = [fate EXCEPT ![j] = "refused"]
  /\ closed' = closed
  /\ UNCHANGED <<queue, current>>

Take ==
  /\ ~closed
  /\ current = NoJob
  /\ queue # <<>>
  /\ current' = Head(queue)
  /\ queue' = Tail(queue)
  /\ closed' = closed
  /\ UNCHANGED fate

Complete ==
  /\ current # NoJob
  /\ fate' = [fate EXCEPT ![current] = "done"]
  /\ closed' = (closed \/ current = Poison)
  /\ current' = NoJob
  /\ UNCHANGED queue

Drop ==
  /\ current # NoJob
  /\ current # Poison
  /\ fate' = [fate EXCEPT ![current] = "dropped"]
  /\ current' = NoJob
  /\ closed' = closed
  /\ UNCHANGED queue

Next ==
  \/ \E j \in Jobs : Accept(j) \/ Refuse(j)
  \/ Take
  \/ Complete
  \/ Drop

(***************************************************************************)
(* The executor never sits on a job: it takes the next one and brings the  *)
(* one in hand to an end.                                                  *)
(***************************************************************************)
Spec ==
  /\ Init
  /\ [][Next]_avars
  /\ WF_avars(Take)
  /\ WF_avars(Complete \/ Drop)
=============================================================================
