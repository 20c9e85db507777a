----------------------------- MODULE Creatures -----------------------------
(***************************************************************************)
(* The life of creatures (creature.cpp, monster.cpp, spawn.cpp and the     *)
(* creature part of game.cpp): placing and removing them, the reference    *)
(* counted lists that keep them allocated, the plain pointers they keep to *)
(* one another (attackedCreature, followCreature, master), the list of     *)
(* creatures to think for, idle monsters, summons and the spawn.           *)
(*                                                                         *)
(* Each handler is an operator on the record of all creature state, since  *)
(* handlers call one another: a step of a master removes a summon that is  *)
(* left behind, whose removal is told to everyone who sees it.  checkCrea- *)
(* tures visits a creature at a time: every creature can have one of the   *)
(* buckets for itself.  Reference counts are not kept, Owned lists owners. *)
(***************************************************************************)
EXTENDS Naturals, FiniteSets

CONSTANTS
  Players, Monsters, Nobody,
  Places,    \* parts of the map
  InSight,   \* pairs of places whose creatures are spectators of each other
  SameFloor, \* pairs of places in sight and on one floor
  TooFar,    \* pairs of places more than 30 tiles or 2 floors apart
  Blocks, Home, \* spawn blocks and the place of each
  Temple     \* where players log in

Creatures == Players \cup Monsters
Stray == "stray"     \* key 0 of spawnedMap
NotSpawned == "none"

\* A place is on the floor of itself, and what is on one floor is in sight.
ASSUME CreaturesAssumption ==
  /\ IsFiniteSet(Creatures) /\ Players \cap Monsters = {} /\ Nobody \notin Creatures
  /\ IsFiniteSet(Blocks) /\ {Stray, NotSpawned} \cap Blocks = {}
  /\ SameFloor \subseteq InSight /\ \A p \in Places : <<p, p>> \in SameFloor
  /\ Temple \in Places /\ Home \in [Blocks -> Places]

VARIABLES
  status,     \* "none" (no object), "placed" or "removed"
  where,      \* place of a creature
  alive,      \* health > 0
  attacked, follow, master,
  summons,    \* Creature::summons, holds references
  targets, idle,  \* Monster::targetList, holds references, and isIdle
  afflicted,  \* monsters with a condition
  check,      \* Creature::creatureCheck
  listed,     \* inCheckCreaturesVector, holds a reference
  release,    \* release[c]: entries of c in ToReleaseCreatures
  spawned,    \* spawned[m]: the key of m in spawnedMap, holds a reference
  spawnEvent, \* checkSpawnEvent # 0
  minded      \* history: how many monsters the spawn looks after

creatureVars == <<status, where, alive, attacked, follow, master, summons, targets,
                  idle, afflicted, check, listed, release, spawned, spawnEvent, minded>>

\* The state as one value, and the step that makes it the next state.
World == [status |-> status, where |-> where, alive |-> alive, attacked |-> attacked,
          follow |-> follow, master |-> master, summons |-> summons,
          targets |-> targets, idle |-> idle,
          afflicted |-> afflicted, check |-> check, listed |-> listed,
          release |-> release, spawned |-> spawned, spawnEvent |-> spawnEvent,
          minded |-> minded]

Become(w) ==
  /\ status' = w.status /\ where' = w.where /\ alive' = w.alive
  /\ attacked' = w.attacked /\ follow' = w.follow /\ master' = w.master
  /\ summons' = w.summons /\ targets' = w.targets
  /\ idle' = w.idle /\ afflicted' = w.afflicted /\ check' = w.check
  /\ listed' = w.listed /\ release' = w.release /\ spawned' = w.spawned
  /\ spawnEvent' = w.spawnEvent /\ minded' = w.minded

\* Spawn::startup: a monster for each block where spawnMonster did not fail, idle
\* and in no list.  No check is started, not even for a block that stays empty.
CreaturesInit ==
  \E Made \in SUBSET Blocks : \E born \in [Made -> Monsters] :
    /\ \A b1, b2 \in Made : born[b1] = born[b2] => b1 = b2
    /\ LET First == {born[b] : b \in Made}
           block(m) == CHOOSE b \in Made : born[b] = m
       IN /\ status = [c \in Creatures |-> IF c \in First THEN "placed" ELSE "none"]
          /\ where = [c \in Creatures |-> IF c \in First THEN Home[block(c)] ELSE Temple]
          /\ spawned = [m \in Monsters |-> IF m \in First THEN block(m) ELSE NotSpawned]
    /\ alive = [c \in Creatures |-> TRUE]
    /\ attacked = [c \in Creatures |-> Nobody] /\ follow = attacked /\ master = attacked
    /\ summons = [c \in Creatures |-> {}]
    /\ targets = [m \in Monsters |-> {}]
    /\ idle = [m \in Monsters |-> TRUE] /\ afflicted = {}
    /\ check = [c \in Creatures |-> FALSE] /\ listed = check
    /\ release = [c \in Creatures |-> 0]
    /\ spawnEvent = FALSE /\ minded = Cardinality(Made)

-----------------------------------------------------------------------------
(* Who sees whom, and what monsters make of it.                            *)

Placed(w) == {c \in Creatures : w.status[c] = "placed"}
Sees(w, x, c) == <<w.where[x], w.where[c]>> \in InSight
OnFloor(w, x, c) == <<w.where[x], w.where[c]>> \in SameFloor

\* What a loop over S does, a step for each of it.  FoldSet, as a function that
\* proofs can be about.
Each(S, w, Step(_, _)) ==
  LET told[T \in SUBSET S] ==
        IF T = {} THEN w
        ELSE LET x == CHOOSE x \in T : TRUE IN Step(told[T \ {x}], x)
  IN told[S]

\* Map::getSpectators(pos, multifloor)
Spectators(w, c) == {x \in Placed(w) : Sees(w, x, c)}

IsSummon(w, c) == w.master[c] # Nobody
OfPlayer(w, c) == w.master[c] \in Players

IsOpponent(w, x, c) ==
  IF OfPlayer(w, x) THEN c # w.master[x] ELSE c \in Players \/ OfPlayer(w, c)

\* Mutant: a dead monster may go idle, too.
SetIdleDead(w, x, b) ==
  IF w.status[x] = "removed" THEN w
  ELSE IF b THEN [w EXCEPT !.idle[x] = TRUE, !.targets[x] = {}, !.check[x] = FALSE]
  ELSE [w EXCEPT !.idle[x] = FALSE, !.check[x] = TRUE, !.listed[x] = TRUE]

\* Monster::setIdle, with addCreatureCheck and removeCreatureCheck.
SetIdle(w, x, b) ==
  IF w.status[x] = "removed" \/ ~w.alive[x] THEN w
  ELSE IF b THEN [w EXCEPT !.idle[x] = TRUE, !.targets[x] = {}, !.check[x] = FALSE]
  ELSE [w EXCEPT !.idle[x] = FALSE, !.check[x] = TRUE, !.listed[x] = TRUE]

UpdateIdleStatus(w, x) ==
  SetIdle(w, x, x \notin w.afflicted /\ ~IsSummon(w, x) /\ w.targets[x] = {})

OnCreatureFound(w, x, c) ==
  UpdateIdleStatus([w EXCEPT
    !.targets[x] = IF IsOpponent(w, x, c) THEN @ \cup {c} ELSE @], x)

\* Only what c is now is taken off: the lists are not those of what c was.
OnCreatureLeave(w, x, c) ==
  LET v == [w EXCEPT !.targets[x] = IF IsOpponent(w, x, c) THEN @ \ {c} ELSE @]
  IN IF IsOpponent(w, x, c) /\ v.targets[x] = {} THEN UpdateIdleStatus(v, x) ELSE v

UpdateTargetList(w, x) ==
  LET v == [w EXCEPT !.targets[x] = {c \in @ : w.alive[c] /\ Sees(w, x, c)}]
  IN Each(Spectators(w, x) \ {x}, v, LAMBDA acc, c : OnCreatureFound(acc, x, c))

-----------------------------------------------------------------------------
(* Pointers between creatures.                                             *)

Household(w, X) ==
  LET one == X \cup UNION {w.summons[x] : x \in X}
  IN one \cup UNION {w.summons[x] : x \in one}

\* setAttackedCreature(nullptr) is passed on to the summons.
StopAttack(w, X) ==
  [w EXCEPT !.attacked = [x \in Creatures |-> IF x \in Household(w, X) THEN Nobody ELSE @[x]]]

\* setAttackedCreature(c) of x and of its summons: each one only if it sees c.
StartAttack(w, x, c) ==
  IF ~OnFloor(w, x, c) THEN [w EXCEPT !.attacked[x] = Nobody]
  ELSE [w EXCEPT !.attacked = [y \in Creatures |->
          IF y \notin Household(w, {x}) THEN @[y]
          ELSE IF OnFloor(w, y, c) THEN c ELSE Nobody]]

SetFollow(w, x, c) ==
  [w EXCEPT !.follow[x] = IF c # Nobody /\ OnFloor(w, x, c) THEN c ELSE Nobody]

IsTarget(w, x, c) == w.status[c] = "placed" /\ OnFloor(w, x, c)

\* Monster::selectTarget
SelectTarget(w, x, c) ==
  IF IsTarget(w, x, c) /\ c \in w.targets[x] THEN SetFollow(StartAttack(w, x, c), x, c) ELSE w

\* onCreatureDisappear of x, for what it attacks and for what it follows.
OnCreatureDisappear(w, x, c) ==
  LET v == IF w.attacked[x] = c THEN StopAttack(w, {x}) ELSE w
  IN IF v.follow[x] = c THEN [v EXCEPT !.follow[x] = Nobody] ELSE v

SetMaster(w, c, m) ==
  [w EXCEPT !.master[c] = m,
            !.summons = [x \in Creatures |->
               IF x = m THEN @[x] \cup {c} ELSE IF x = w.master[c] THEN @[x] \ {c} ELSE @[x]]]

\* onRemoveCreature of the creature itself.
LeaveMaster(w, c) ==
  IF IsSummon(w, c) /\ w.status[w.master[c]] # "removed" THEN SetMaster(w, c, Nobody) ELSE w

-----------------------------------------------------------------------------
(* Game::placeCreature and Game::removeCreature.                           *)

Appear(w, x, c) ==
  IF x \notin Monsters THEN w
  ELSE IF x = c THEN UpdateIdleStatus(UpdateTargetList(w, x), x)
  ELSE OnCreatureFound(w, x, c)

PlaceCreature(w, c, p) ==
  LET v == [w EXCEPT !.status[c] = "placed", !.where[c] = p]
      u == Each(Spectators(v, c), v, LAMBDA acc, x : Appear(acc, x, c))
  IN [u EXCEPT !.check[c] = TRUE, !.listed[c] = TRUE]

\* onRemoveCreature of a spectator x other than c.
Disappear(w, x, c) ==
  LET v == OnCreatureDisappear(w, x, c)
  IN IF x \in Monsters THEN OnCreatureLeave(v, x, c) ELSE v

\* onRemoveCreature of c itself.
DisappearSelf(w, c) ==
  LET v == LeaveMaster(OnCreatureDisappear(w, c, c), c)
  IN IF c \notin Monsters THEN v
     ELSE SetIdle([v EXCEPT !.spawnEvent = @ \/ v.spawned[c] # NotSpawned], c, TRUE)

\* removeCreature without the summons.  The order of the spectators is that of
\* the map: c may be told of its own removal first or last.  What c attacked and
\* followed stays in the object and is read by nobody: it is not kept here.
TakeOut(w, c, selfFirst) ==
  LET others == Spectators(w, c) \ {c}
      tell(v) == Each(others, v, LAMBDA acc, x : Disappear(acc, x, c))
      u == IF selfFirst THEN tell(DisappearSelf(w, c)) ELSE DisappearSelf(tell(w), c)
  IN IF w.status[c] # "placed" THEN w
     ELSE [u EXCEPT !.status[c] = "removed", !.check[c] = FALSE, !.release[c] = @ + 1,
                    !.attacked[c] = Nobody, !.follow[c] = Nobody, !.afflicted = @ \ {c}]

\* The summons go after their master, who is removed by then, and stay his.
RemoveCreature(w, c, selfFirst) ==
  LET v == TakeOut(w, c, selfFirst)
      tree == Household(v, {c}) \ {c}
  IN Each(tree, v, LAMBDA acc, s : TakeOut(acc, s, selfFirst))

\* Game::cleanup
Cleanup(w) == [w EXCEPT !.release = [c \in Creatures |-> 0]]

-----------------------------------------------------------------------------
(* Map::moveCreature: everyone who sees one of the two places is told.     *)

\* Mutant: only what the creature that moved attacks and follows is checked.
LosesSightMover(w, x, c, q) ==
  IF x # c THEN w
  ELSE LET lost(t) == t # Nobody /\ ~OnFloor(w, x, t)
           v == IF lost(w.follow[x]) THEN OnCreatureDisappear(w, x, w.follow[x]) ELSE w
       IN IF lost(v.attacked[x]) THEN OnCreatureDisappear(v, x, v.attacked[x]) ELSE v

\* Creature::onCreatureMove: whoever changes floor or gets out of sight is dropped.
LosesSight(w, x, c, q) ==
  LET lost(t) == t # Nobody /\ c \in {x, t} /\ ~OnFloor(w, x, t)
      v == IF lost(w.follow[x]) THEN OnCreatureDisappear(w, x, w.follow[x]) ELSE w
  IN IF lost(v.attacked[x]) THEN OnCreatureDisappear(v, x, v.attacked[x]) ELSE v

\* Monster::onCreatureMove of a monster x that sees c move from p.
SeesMove(w, x, c, p) ==
  LET now == Sees(w, x, c)
      before == <<w.where[x], p>> \in InSight
      v == UpdateIdleStatus(IF now /\ ~before THEN OnCreatureFound(w, x, c)
                            ELSE IF ~now /\ before THEN OnCreatureLeave(w, x, c) ELSE w, x)
  IN IF ~IsSummon(v, x) /\ v.follow[x] = Nobody /\ IsOpponent(v, x, c)
     THEN SelectTarget(v, x, c) ELSE v

OnCreatureMove(w, x, c, p) ==
  LET v == LosesSight(w, x, c, p)
  IN IF x \notin Monsters THEN v
     ELSE IF x = c THEN UpdateIdleStatus(UpdateTargetList(v, x), x)
     ELSE SeesMove(v, x, c, p)

\* Summons left behind are removed while the move is told.
MoveCreature(w, c, q) ==
  LET p == w.where[c]
      v == [w EXCEPT !.where[c] = q]
      behind == {s \in v.summons[c] : <<q, v.where[s]>> \in TooFar}
      u == Each(behind, v, LAMBDA acc, s : RemoveCreature(acc, s, FALSE))
      watching == Spectators(w, c) \cup Spectators(v, c)
  IN Each(watching, u, LAMBDA acc, x : OnCreatureMove(acc, x, c, p))

-----------------------------------------------------------------------------
(* Thinking.                                                               *)

\* The orders of a summon: attack with the master, follow the target or him.
Obey(w, x) ==
  LET m == w.master[x] IN
  IF w.attacked[x] = Nobody
  THEN IF w.attacked[m] # Nobody THEN SelectTarget(w, x, w.attacked[m]) ELSE SetFollow(w, x, m)
  ELSE SetFollow(w, x, IF w.attacked[x] = x THEN Nobody ELSE w.attacked[x])

\* Monster::onThink; where a target is searched, any target that can be selected.
Thoughts(w, x) ==
  LET away == w.spawned[x] \in Blocks /\ w.where[x] # Home[w.spawned[x]]
      v == UpdateIdleStatus(w, x)
      found == {c \in v.targets[x] : IsTarget(v, x, c)}
  IN (IF away THEN {SetIdle(MoveCreature(w, x, Home[w.spawned[x]]), x, TRUE)} ELSE {})
     \cup (IF v.idle[x] THEN {v}
           ELSE IF IsSummon(v, x) THEN {Obey(v, x)}
           ELSE {v} \cup {SelectTarget(v, x, c) : c \in found})

\* Mutant: removeMaster is left out.
OrphanKept(w, s) == [SetIdle(w, s, FALSE) EXCEPT !.alive[s] = FALSE]

\* Monster::death, for a summon: it dies, too, and as a wild monster.
Orphan(w, s) == [SetIdle(w, s, FALSE) EXCEPT !.alive[s] = FALSE, !.master[s] = Nobody]

\* Monster::death, and onDeath: a monster leaves its master.
Die(w, c) ==
  LET v == StopAttack(w, {c})
      u == Each(v.summons[c], v, Orphan)
      d == [u EXCEPT !.summons[c] = {}, !.targets[c] = {}]
  IN IF IsSummon(d, c) THEN SetMaster(d, c, Nobody) ELSE d

\* Player::death fills the health up, and without skill loss it sends the player
\* to the temple.  What the player attacks and follows stays.
Revive(w, c, q) ==
  LET v == [w EXCEPT !.alive[c] = TRUE]
  IN IF q = w.where[c] THEN v ELSE MoveCreature(v, c, q)

\* checkCreatures, for one creature of the bucket.  Who dropped a corpse is removed:
\* everyone but a player killed by a player in a PvP zone.
CheckCreature(c) ==
  /\ listed[c]
  /\ \/ /\ check[c] /\ alive[c]
        /\ IF c \in Monsters THEN \E w \in Thoughts(World, c) : Become(Cleanup(w))
           ELSE Become(Cleanup(World))
     \/ /\ check[c] /\ ~alive[c]
        /\ IF c \in Monsters
           THEN \E first \in BOOLEAN : Become(Cleanup(RemoveCreature(Die(World, c), c, first)))
           ELSE \E q \in {where[c], Temple} :
                  LET w == Revive(World, c, q)
                  IN \/ Become(Cleanup(w))
                     \/ \E first \in BOOLEAN : Become(Cleanup(RemoveCreature(w, c, first)))
     \/ /\ ~check[c]
        /\ Become(Cleanup([World EXCEPT !.listed[c] = FALSE]))

-----------------------------------------------------------------------------
(* What happens to creatures.                                              *)

Login(p) == status[p] = "none" /\ Become(PlaceCreature(World, p, Temple))

\* Logout, and a script that removes a monster.
TakeAway(c) ==
  /\ status[c] = "placed"
  /\ \E first \in BOOLEAN : Become(RemoveCreature(World, c, first))

\* A step of its own, by checkCreatureWalk, or a push or a teleport of anyone.
Walk(c, q) ==
  /\ status[c] = "placed" /\ q # where[c]
  /\ \/ alive[c] /\ (c \in Monsters => ~idle[c]) /\ Become(Cleanup(MoveCreature(World, c, q)))
     \/ Become(MoveCreature(World, c, q))

\* playerSetAttackedCreature, with or without chase mode, and the cancel.
PlayerAttack(p, c, chase) ==
  /\ status[p] = "placed" /\ c # p
  /\ \/ /\ status[c] = "placed" /\ OnFloor(World, p, c)
        /\ Become(LET v == StartAttack(World, p, c)
                  IN SetFollow(v, p, IF chase THEN c ELSE Nobody))
     \/ attacked[p] = c /\ Become(SetFollow(StopAttack(World, {p}), p, Nobody))

\* checkCreatureAttack: a hit that kills, or one that only wakes a monster.
Hit(c, kills) ==
  /\ \E a \in Placed(World) : attacked[a] = c /\ alive[a]
  /\ status[c] = "placed" /\ alive[c]
  /\ Become(LET v == IF c \in Monsters THEN SetIdle(World, c, FALSE) ELSE World
            IN [v EXCEPT !.alive[c] = ~kills])

\* onThinkDefense: a monster with a path to its target calls a summon.
Summon(m, s) ==
  /\ status[m] = "placed" /\ alive[m] /\ check[m] /\ ~idle[m] /\ ~IsSummon(World, m)
  /\ follow[m] # Nobody /\ summons[m] = {} /\ status[s] = "none"
  /\ Become(Cleanup(SetMaster(PlaceCreature(World, s, where[m]), s, m)))

\* A spell script makes a monster the summon of a player.
Convince(p, m) ==
  /\ status[p] = "placed" /\ status[m] = "placed" /\ alive[m] /\ Sees(World, p, m)
  /\ master[m] # p
  /\ Become(SetMaster(World, m, p))

\* onAddCondition and onEndCondition.
Afflict(m) ==
  /\ status[m] = "placed" /\ alive[m]
  /\ Become(UpdateIdleStatus([World EXCEPT
              !.afflicted = IF m \in @ THEN @ \ {m} ELSE @ \cup {m}], m))

\* Spawn::checkSpawn sets the next check up while there are too few monsters.
FurtherCheck(kept) == kept < Cardinality(Blocks)

\* Spawn::cleanup and checkSpawn: at most one block is filled, out of sight.  From
\* now on the spawn looks after every block, those that startup left empty, too.
CheckSpawn ==
  /\ spawnEvent
  /\ LET swept == [m \in Monsters |->
           IF status[m] = "removed" THEN NotSpawned
           ELSE IF spawned[m] \in Blocks /\ where[m] # Home[spawned[m]] THEN Stray
           ELSE spawned[m]]
         count(s) == Cardinality({m \in Monsters : s[m] # NotSpawned})
         w == [World EXCEPT !.spawned = swept, !.minded = Cardinality(Blocks)]
         open == {b \in Blocks : \A m \in Monsters : swept[m] # b}
         watched(b) == \E p \in Players : status[p] = "placed" /\ <<where[p], Home[b]>> \in SameFloor
     IN \/ Become([w EXCEPT !.spawnEvent = FurtherCheck(count(swept))])
        \/ \E b \in {o \in open : ~watched(o)}, m \in Monsters :
             /\ status[m] = "none"
             /\ Become([PlaceCreature(w, m, Home[b]) EXCEPT !.spawned[m] = b,
                          !.spawnEvent = FurtherCheck(count(swept) + 1)])

-----------------------------------------------------------------------------
(* The last reference.                                                     *)

Owned(c) ==
  \/ status[c] = "placed" \/ listed[c] \/ release[c] > 0
  \/ c \in Monsters /\ spawned[c] # NotSpawned
  \/ \E x \in Creatures : status[x] # "none" /\ c \in summons[x]
  \/ \E x \in Monsters : status[x] # "none" /\ c \in targets[x]

\* Game::cleanup at the end of a task.
ReleaseAll == (\E c \in Creatures : release[c] > 0) /\ Become(Cleanup(World))

\* ~Creature, ~Monster
Free(c) ==
  /\ status[c] = "removed" /\ ~Owned(c)
  /\ LET S == summons[c]
         w == StopAttack(World, S)
     IN Become([w EXCEPT !.status[c] = "none", !.alive[c] = TRUE, !.where[c] = Temple,
                  !.attacked[c] = Nobody, !.follow[c] = Nobody, !.summons[c] = {},
                  !.master = [x \in Creatures |-> IF x \in S \cup {c} THEN Nobody ELSE @[x]],
                  !.targets = [x \in Monsters |-> IF x = c THEN {} ELSE @[x]],
                  !.idle = [x \in Monsters |-> x = c \/ @[x]], !.afflicted = @ \ {c}])

CreaturesNext ==
  \/ \E c \in Creatures : CheckCreature(c) \/ TakeAway(c) \/ Free(c)
  \/ \E c \in Creatures, q \in Places : Walk(c, q)
  \/ \E p \in Players : Login(p)
  \/ \E p \in Players, c \in Creatures, chase \in BOOLEAN : PlayerAttack(p, c, chase)
  \/ \E c \in Creatures, kills \in BOOLEAN : Hit(c, kills)
  \/ \E m, s \in Monsters : Summon(m, s)
  \/ \E p \in Players, m \in Monsters : Convince(p, m)
  \/ \E m \in Monsters : Afflict(m)
  \/ CheckSpawn \/ ReleaseAll

CreaturesSpec == CreaturesInit /\ [][CreaturesNext]_creatureVars

-----------------------------------------------------------------------------
(* Properties.                                                             *)

\* attackedCreature and followCreature hold no reference: what a creature in the
\* game attacks or follows is in the game, whatever moved, died or was removed.
TargetsPresent ==
  \A c \in Placed(World) : {attacked[c], follow[c]} \subseteq Placed(World) \cup {Nobody}

\* A master and its summons know each other, so that removing or freeing the one
\* reaches the other: nobody is left with a pointer to a master that is gone.
SummonsAgree ==
  \A c \in Creatures : status[c] # "none" =>
    /\ master[c] # Nobody => c \in summons[master[c]] /\ status[master[c]] # "none"
    /\ \A s \in summons[c] : master[s] = c

\* A dead creature that is still in the game, and a monster that is not idle, are
\* in the list checkCreatures goes through: the dead one is removed, the other acts.
ServedByCheck ==
  \A c \in Placed(World) :
    ~alive[c] \/ (c \in Monsters /\ ~idle[c]) => check[c] /\ listed[c]

\* When the spawn has fewer monsters in the game than those it looks after (what
\* startup made, and every block once a check has run), a check is pending.
SpawnChecked ==
  Cardinality({m \in Monsters : status[m] = "placed" /\ spawned[m] # NotSpawned})
    < minded => spawnEvent

\* What must be looked at again is on its list: creatures on the check lists,
\* spawns with an event.
ChecksServed == ServedByCheck /\ SpawnChecked
=============================================================================
