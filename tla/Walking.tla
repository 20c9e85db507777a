------------------------------ MODULE Walking ------------------------------
(***************************************************************************)
(* One player on the move: listWalkDir and the walk event (Creature::on-   *)
(* Walk, addEventWalk), what is to be done at the end of the walk          *)
(* (walkTask), what has to wait until the next action is due (actionTask-  *)
(* Event), and the client's requests that set them.  An event that the     *)
(* scheduler has fired is first in the dispatcher's queue; the handler in  *)
(* progress can no longer stop it.                                         *)
(***************************************************************************)
EXTENDS Naturals, FiniteSets, Sequences

CONSTANTS
  Orders,    \* requests of the client: each is made once
  MaxRoute,  \* steps of a walk
  MaxPosted  \* tasks in the dispatcher's queue

NoOrder == "none"
Swing == "swing"  \* checkCreatureAttack, in the place of an order
Kinds == {"walk", "task", "action"}

VARIABLES
  route,          \* length of listWalkDir
  eventWalk, walkTaskEvent, actionTaskEvent,  \* ids of events, 0 for none
  cancelNextWalk,
  walkTask,       \* the order to carry out when the walk is complete
  moving,         \* getSpeed() > 0
  following,      \* followCreature is set
  pending,        \* events of the scheduler: [id, kind, order]
  due,            \* events fired, their tasks first in the dispatcher's queue
  posted,         \* routes of the playerAutoWalk tasks in the queue
  inHand,         \* a handler is in progress while an event fires
  asked, done,    \* history: orders made, times each was carried out
  stranded        \* history: walk event taken away since it was last set

walkVars == <<route, eventWalk, walkTaskEvent, actionTaskEvent, cancelNextWalk, walkTask, moving,
              following, pending, due, posted, inHand, asked, done, stranded>>

\* What the handlers change, as one value.
Walk == [route |-> route, eventWalk |-> eventWalk, walkTaskEvent |-> walkTaskEvent,
         actionTaskEvent |-> actionTaskEvent, cancel |-> cancelNextWalk, walkTask |-> walkTask,
         following |-> following, pending |-> pending, posted |-> posted, done |-> done, stranded |-> stranded]

Become(w) ==
  /\ route' = w.route /\ eventWalk' = w.eventWalk /\ walkTaskEvent' = w.walkTaskEvent
  /\ actionTaskEvent' = w.actionTaskEvent /\ cancelNextWalk' = w.cancel
  /\ walkTask' = w.walkTask /\ following' = w.following
  /\ pending' = w.pending /\ posted' = w.posted
  /\ done' = w.done /\ stranded' = w.stranded

Init ==
  /\ route = 0 /\ eventWalk = 0 /\ walkTaskEvent = 0 /\ actionTaskEvent = 0
  /\ cancelNextWalk = FALSE /\ walkTask = NoOrder /\ moving = TRUE /\ following = FALSE
  /\ pending = {} /\ due = {} /\ posted = <<>> /\ inHand = FALSE
  /\ asked = {} /\ done = [o \in Orders |-> 0] /\ stranded = FALSE

-----------------------------------------------------------------------------
(* Scheduler events: an id is not used again while anyone knows it.  (The  *)
(* kinds have ids of their own as long as these suffice: runs that differ  *)
(* only in the numbers are then one.)                                      *)

Known(w) == {e.id : e \in w.pending \cup due} \cup {w.eventWalk, w.walkTaskEvent, w.actionTaskEvent}
OwnIds(kind) == CASE kind = "walk" -> 1..3 [] kind = "task" -> 4..6 [] OTHER -> 7..9
FreshId(w, kind) ==
  CHOOSE i \in 1..9 : i \notin Known(w) /\ (i \in OwnIds(kind) \/ OwnIds(kind) \subseteq Known(w))
AddEvent(w, kind, o) == [w EXCEPT !.pending = @ \cup {[id |-> FreshId(w, kind), kind |-> kind, order |-> o]}]
StopEvent(w, i) == [w EXCEPT !.pending = {e \in @ : e.id # i}]

-----------------------------------------------------------------------------
(* Creature and Player.                                                    *)

StopEventWalk(w) ==
  IF w.eventWalk = 0 THEN w
  ELSE [StopEvent(w, w.eventWalk) EXCEPT !.eventWalk = 0, !.stranded = TRUE]

SetNextWalkActionTask(w, o) ==
  [StopEvent(w, w.walkTaskEvent) EXCEPT !.walkTaskEvent = 0, !.walkTask = o]

SetNextActionTask(w, o) ==
  LET v == [StopEvent(w, w.actionTaskEvent) EXCEPT !.actionTaskEvent = 0]
  IN IF o = NoOrder THEN v ELSE [AddEvent(v, "action", o) EXCEPT !.actionTaskEvent = FreshId(v, "action")]

OnWalkAborted(w) == SetNextWalkActionTask(w, NoOrder)

\* Mutant: the task stays with the player when it is scheduled.
OnWalkCompleteKeep(w) ==
  IF w.walkTask = NoOrder THEN w
  ELSE [AddEvent(w, "task", w.walkTask) EXCEPT !.walkTaskEvent = FreshId(w, "task")]

OnWalkComplete(w) ==
  IF w.walkTask = NoOrder THEN w
  ELSE [AddEvent(w, "task", w.walkTask) EXCEPT !.walkTaskEvent = FreshId(w, "task"), !.walkTask = NoOrder]

\* The end of addEventWalk.
QueueWalk(w) == [AddEvent(w, "walk", NoOrder) EXCEPT !.eventWalk = FreshId(w, "walk"), !.stranded = FALSE]

\* How a step goes: rested is getWalkDelay() <= 0, thrown that it ended in a teleport,
\* lost that the player no longer sees whom he follows.
Steps == {s \in [rested : BOOLEAN, thrown : BOOLEAN, lost : BOOLEAN] :
            s.thrown \/ s.lost => s.rested}
NoStep == [rested |-> FALSE, thrown |-> FALSE, lost |-> FALSE]

\* getNextStep and internalMoveCreature: a step takes the place of what waits for the
\* next action.
MoveOn(w, s) ==
  LET v == SetNextActionTask([w EXCEPT !.route = @ - 1], NoOrder)
      u == IF s.thrown THEN StopEventWalk(v) ELSE v
  IN IF s.lost /\ u.following THEN [u EXCEPT !.following = FALSE, !.cancel = TRUE] ELSE u

\* Creature::onWalk up to the new walk event.
Stride(w, s) ==
  LET after == IF ~s.rested THEN w
               ELSE IF w.route > 0 THEN MoveOn(w, s) ELSE StopEventWalk(OnWalkComplete(w))
  IN IF after.cancel THEN [OnWalkAborted([after EXCEPT !.route = 0]) EXCEPT !.cancel = FALSE]
     ELSE after

\* Creature::addEventWalk: a walk of one step takes it right away.  (The speed of a
\* step of a player is never 0: Player::getStepSpeed.)
AddEventWalk(w, first, s) ==
  LET v == [w EXCEPT !.cancel = FALSE] IN
  IF v.eventWalk # 0 THEN v
  ELSE QueueWalk(IF first /\ s.rested THEN Stride(v, s) ELSE v)

OnWalk(w, s) ==
  LET v == Stride(w, s) IN
  IF v.eventWalk = 0 THEN v ELSE AddEventWalk([v EXCEPT !.eventWalk = 0], FALSE, s)

StartAutoWalk(w, n, s) == AddEventWalk([w EXCEPT !.route = n], n = 1, s)

\* goToFollowCreature: no path is looked for while something waits for the walk;
\* found is that there is one.
GoToFollow(w, found, n, s) ==
  IF w.walkTask # NoOrder THEN w
  ELSE IF found THEN StartAutoWalk(w, n, s) ELSE [w EXCEPT !.route = 0]

-----------------------------------------------------------------------------
(* Orders.  One is too far away and has the player walk first, has to wait *)
(* for the next action, is carried out or refused.                         *)

Ways == {"far", "wait", "act", "refused"}
Sorts == {"move", "use", "rotate"}

WalkFirst(w, o, n) == SetNextWalkActionTask([w EXCEPT !.posted = Append(@, n)], o)

\* playerMoveItem and playerMoveCreature
MoveAttempt(w, o, how, n) ==
  LET v == SetNextActionTask(w, NoOrder) IN
  CASE how = "wait" -> SetNextActionTask(w, o)
    [] how = "far" -> WalkFirst(v, o, n)
    [] how = "act" -> [v EXCEPT !.done[o] = @ + 1]
    [] OTHER -> v

\* playerUseItem, playerUseItemEx and playerUseWithCreature
UseAttempt(w, o, how, n) ==
  CASE how = "wait" -> SetNextActionTask(w, o)
    [] how = "far" -> WalkFirst(w, o, n)
    [] how = "act" -> [SetNextActionTask(w, NoOrder) EXCEPT !.done[o] = @ + 1, !.cancel = TRUE]
    [] OTHER -> w

\* playerRotateItem and playerRequestTrade
RotateAttempt(w, o, how, n) ==
  CASE how = "far" -> WalkFirst(w, o, n)
    [] how = "act" -> [w EXCEPT !.done[o] = @ + 1]
    [] OTHER -> w

Attempt(w, o, sort, how, n) ==
  CASE sort = "move" -> MoveAttempt(w, o, how, n)
    [] sort = "use" -> UseAttempt(w, o, how, n)
    [] OTHER -> RotateAttempt(w, o, how, n)

-----------------------------------------------------------------------------
\* A handler runs when no fired event is ahead of it, or was in progress when
\* the event fired.
Handler == /\ due = {} \/ inHand
           /\ inHand' = FALSE

Fire(e) ==
  /\ due = {} \/ inHand
  /\ pending' = pending \ {e} /\ due' = due \cup {e} /\ inHand' = TRUE
  /\ UNCHANGED <<route, eventWalk, walkTaskEvent, actionTaskEvent, cancelNextWalk, walkTask,
                 moving, following, posted, asked, done, stranded>>

Same == UNCHANGED <<moving, due, asked>>

\* In the actions below a step matters only for a walk of one step or a walk event,
\* and n only for an order that is far: choices that differ in nothing else are
\* made once.

\* checkCreatureWalk
RunWalk(e) == \E s \in Steps :
  /\ e.kind = "walk" /\ Become(OnWalk(Walk, s))
  /\ due' = due \ {e} /\ inHand' = FALSE /\ UNCHANGED <<moving, asked>>

\* The order of an event is tried again.
RunOrder(e) == \E sort \in Sorts, how \in Ways, n \in 0..MaxRoute :
  /\ e.order \in Orders /\ IF how = "far" THEN Len(posted) < MaxPosted ELSE n = 0
  /\ Become(Attempt(Walk, e.order, sort, how, n))
  /\ due' = due \ {e} /\ inHand' = FALSE /\ UNCHANGED <<moving, asked>>

Request(o) == Handler /\ o \notin asked /\ \E sort \in Sorts, how \in Ways, n \in 0..MaxRoute :
  /\ IF how = "far" THEN Len(posted) < MaxPosted ELSE n = 0
  /\ asked' = asked \cup {o}
  /\ Become(Attempt(Walk, o, sort, how, n))
  /\ UNCHANGED <<moving, due>>

\* Player::doAttacking: the next swing takes the place of what waits for the next action.
Attack == Handler /\ Same /\ Become(SetNextActionTask(Walk, Swing))

\* checkCreatureAttack, when the player may swing again or not
RunSwing(e) ==
  /\ e.order = Swing
  /\ \/ Become(SetNextActionTask(Walk, Swing))
     \/ Become(Walk)
  /\ due' = due \ {e} /\ inHand' = FALSE /\ UNCHANGED <<moving, asked>>

\* playerAutoWalk, from the client or from the queue
AutoWalk == Handler /\ Same /\ \E n \in 0..MaxRoute, s \in Steps :
  /\ s.rested => n = 1
  /\ \/ n > 0 /\ Become(StartAutoWalk(Walk, n, s))
     \/ /\ posted # <<>> /\ n = Head(posted)
        /\ Become(StartAutoWalk([Walk EXCEPT !.posted = Tail(@)], n, s))

PlayerMove == Handler /\ Same /\ \E s \in Steps :
  Become(StartAutoWalk(SetNextWalkActionTask(Walk, NoOrder), 1, s))

\* playerStopAutoWalk, playerCancelAttackAndFollow, setFollowCreature(nullptr)
StopWalk == Handler /\ Same /\ \E f \in {following, FALSE} :
  Become([Walk EXCEPT !.cancel = TRUE, !.following = f])

\* setFollowCreature: playerFollowCreature lets go of whom the player follows first,
\* chasing an opponent does not.
Follow == Handler /\ Same /\ \E chasing \in BOOLEAN :
  LET w == [Walk EXCEPT !.cancel = @ \/ (following /\ ~chasing), !.following = TRUE]
  IN Become(IF route > 0 THEN OnWalkAborted([w EXCEPT !.route = 0]) ELSE w)

\* updateCreatureWalk and onThink
UpdateFollow == Handler /\ Same /\ following /\ \E found \in BOOLEAN, n \in 0..MaxRoute, s \in Steps :
  /\ s.rested => n = 1
  /\ ~found => n = 0
  /\ Become(GoToFollow(Walk, found, n, s))

\* Creature::setSpeed
SetSpeed == Handler /\ UNCHANGED <<due, asked>> /\ \E faster \in BOOLEAN :
  /\ moving' = faster
  /\ Become(IF ~faster THEN [StopEventWalk(Walk) EXCEPT !.cancel = TRUE]
            ELSE IF ~moving /\ route > 0 THEN AddEventWalk(Walk, FALSE, NoStep) ELSE Walk)

\* Somebody else teleports the player.
Teleport == Handler /\ Same /\ Become(StopEventWalk(Walk))

Next ==
  \/ \E e \in pending : Fire(e)
  \/ \E e \in due : RunWalk(e) \/ RunOrder(e) \/ RunSwing(e)
  \/ \E o \in Orders : Request(o)
  \/ Attack \/ AutoWalk \/ PlayerMove \/ StopWalk \/ Follow \/ UpdateFollow \/ SetSpeed \/ Teleport

Spec == Init /\ [][Next]_walkVars

-----------------------------------------------------------------------------
Ahead(kind) == {e \in pending : e.kind = kind}

\* An order the client gave once is carried out at most once, however often it
\* is put off: it waits for the end of a walk, or for the scheduler, or has been
\* carried out, and never two of these.
OrderOnce ==
  \A o \in Orders :
    done[o] + Cardinality({e \in pending \cup due : e.order = o})
      + (IF walkTask = o THEN 1 ELSE 0) <= 1

\* Of each kind at most one event is pending, and it is the one whose id the
\* player keeps: what is pending can always be stopped.
EventsStoppable ==
  /\ \A e \in Ahead("walk") : e.id = eventWalk
  /\ \A e \in Ahead("task") : e.id = walkTaskEvent
  /\ \A e \in Ahead("action") : e.id = actionTaskEvent

\* A player with something to do at the end of the walk is walking there, or is
\* about to, unless a teleport or a speed of nothing took the walk event away:
\* then walkTask stays, and keeps the player from following anyone.
WalkTaskServed ==
  walkTask # NoOrder /\ ~stranded =>
    posted # <<>> \/ \E e \in pending \cup due : e.kind = "walk"

\* Orders and their events: nothing is done twice, what is pending can be
\* stopped, and what waits for the end of a walk has a walk to wait for.
OrdersAgree == OrderOnce /\ EventsStoppable /\ WalkTaskServed
=============================================================================
