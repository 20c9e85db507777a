---------------------------- MODULE MonsterSteps ----------------------------
(***************************************************************************)
(* Where a monster that keeps its distance, flees or dances around its     *)
(* target steps next: Monster::getDistanceStep, getDanceStep and           *)
(* getRandomStep, and where it looks, updateLookDirection.  Directions are *)
(* vectors <<x, y>> with y growing to the south, and the eight cases of    *)
(* the code are one case up to the signs of the offset.                    *)
(***************************************************************************)
EXTENDS Integers, FiniteSets, Sequences

CONSTANTS
  Reach,          \* offsets of the target are within -Reach..Reach
  TargetDistance, \* MonsterType::targetDistance
  AttackRange     \* range of the attack spell

VARIABLES
  offset,  \* position of the monster relative to its target
  open,    \* directions the monster can walk to
  sight,   \* squares, relative to the target, the target can be shot from
  facing,  \* Creature::direction
  mode,    \* "keep", "flee", "dance" or "danceFleeing": what is asked for
  step     \* the direction chosen; Stay when there is none yet

stepVars == <<offset, open, sight, facing, mode, step>>

Stay == <<0, 0>>
Straight == {<<0, -1>>, <<1, 0>>, <<0, 1>>, <<-1, 0>>}
Diagonal == {<<1, -1>>, <<1, 1>>, <<-1, 1>>, <<-1, -1>>}

Abs(n) == IF n < 0 THEN -n ELSE n
Sign(n) == IF n < 0 THEN -1 ELSE 1
Larger(a, b) == IF a > b THEN a ELSE b
Plus(a, b) == <<a[1] + b[1], a[2] + b[2]>>
Minus(a) == <<-a[1], -a[2]>>
Distance(o) == Larger(Abs(o[1]), Abs(o[2]))

\* The first of the sets that has a direction one can walk to.
FirstOpen(W, sets) ==
  LET usable == {i \in 1..Len(sets) : sets[i] \cap W # {}}
  IN IF usable = {} THEN {Stay}
     ELSE sets[CHOOSE i \in usable : \A j \in usable : i <= j] \cap W

\* getRandomStep
RandomStep(W) == FirstOpen(W, <<Straight>>)

\* The target is on a diagonal: away from it, else along it, last around it.
DiagonalEscape(o, W, flee) ==
  LET h == <<Sign(o[1]), 0>>
      v == <<0, Sign(o[2])>>
      around(d, corner) == IF corner \in W THEN {d} ELSE {}
      first == around(Minus(h), <<-h[1], v[2]>>)
      second == around(Minus(v), <<h[1], -v[2]>>)
  IN FirstOpen(W, <<{h, v}, {Plus(h, v)},
                    IF flee THEN {Minus(h), Minus(v)} ELSE {}>>
                  \o IF o[1] < 0 /\ o[2] < 0 THEN <<second, first>> ELSE <<first, second>>)

\* The side steps that do not pass the target.
SidesAway(l, r, o) == IF o = 0 THEN {l, r} ELSE IF o < 0 THEN {l} ELSE {r}

\* The target is ahead: a is straight away from it, l and r are the sides, o the
\* offset along them and first the side that is tried first in a corner.
StraightEscape(a, l, r, o, first, W, flee) ==
  LET second == IF first = l THEN r ELSE l
      corners == {Plus(a, l), Plus(a, r)}
  IN FirstOpen(W, <<{a}, SidesAway(l, r, o), IF flee THEN {l, r} ELSE {}>>
        \o (IF corners \subseteq W THEN <<corners>>
            ELSE IF corners \cap W = {} THEN << >>
            ELSE <<{first}, {Plus(a, first)}, {second}, {Plus(a, second)}>>)
        \o <<IF flee THEN {Minus(a)} ELSE {}>>)

\* getDistanceStep, once it is not left to the path search.
DistanceStep(o, W, flee) ==
  LET west == <<-1, 0>>  east == <<1, 0>>  north == <<0, -1>>  south == <<0, 1>> IN
  CASE o = Stay -> RandomStep(W)
    [] o # Stay /\ Abs(o[1]) = Abs(o[2]) -> DiagonalEscape(o, W, flee)
    [] Abs(o[2]) > Abs(o[1]) ->
         StraightEscape(<<0, Sign(o[2])>>, west, east, o[1], west, W, flee)
    [] OTHER ->
         StraightEscape(<<Sign(o[1]), 0>>, north, south, o[2],
                        IF o[1] < 0 THEN north ELSE south, W, flee)

\* canUseAttack
CanUseAttack(o) == Distance(o) <= AttackRange /\ o \in sight

\* Mutant: the distance is not looked at.
DanceAnywhere(o, W, keepAttack, keepDistance) == W \cap Straight

\* getDanceStep: steps that leave the distance as it is.
DanceStep(o, W, keepAttack, keepDistance) ==
  {d \in W \cap Straight :
     /\ keepDistance => o[1] * d[1] + o[2] * d[2] <= 0
     /\ Distance(Plus(o, d)) = Distance(o)
     /\ keepAttack /\ CanUseAttack(o) => CanUseAttack(Plus(o, d))}

\* updateLookDirection; on a diagonal the vertical directions turn, too.
LookDirection(o, dir) ==
  LET toX == <<-Sign(o[1]), 0>>
      toY == <<0, IF o[2] < 0 THEN 1 ELSE -1>>
      right == <<1, 0>>  down == <<0, 1>>
  IN CASE o = Stay -> (IF dir[1] = 0 THEN right ELSE IF dir = Minus(right) THEN down ELSE dir)
       [] o # Stay /\ Abs(o[1]) > Abs(o[2]) -> toX
       [] o # Stay /\ Abs(o[1]) < Abs(o[2]) -> toY
       [] OTHER -> (IF dir = Minus(toX) THEN toY ELSE toX)

Init ==
  /\ offset \in (-Reach..Reach) \X (-Reach..Reach)
  /\ open \in SUBSET (Straight \cup Diagonal)
  /\ sight = {} /\ facing \in Straight
  /\ mode = "none" /\ step = Stay

\* goToFollowCreature: a fleeing monster, or one closer than it wants to be.
KeepAway(flee) ==
  /\ mode = "none"
  /\ flee \/ Distance(offset) < TargetDistance
  /\ mode' = IF flee THEN "flee" ELSE "keep"
  /\ step' \in DistanceStep(offset, open, flee)
  /\ UNCHANGED <<offset, open, sight, facing>>

\* getNextStep, when there is no path to walk: the dance around the target.
Dance(flee) ==
  /\ mode = "none" /\ offset # Stay
  /\ mode' = IF flee THEN "danceFleeing" ELSE "dance"
  /\ \E S \in {{}, {offset}, {Plus(offset, d) : d \in Straight} \cup {offset}} :
       /\ sight' = S
       /\ step' \in {Stay} \cup DanceStep(offset, open, ~flee, ~flee)
  /\ UNCHANGED <<offset, open, facing>>

\* doAttacking turns to the target.
Look ==
  /\ mode = "none" /\ open = {}
  /\ mode' = "look" /\ facing' = LookDirection(offset, facing)
  /\ UNCHANGED <<offset, open, sight, step>>

Next == (\E flee \in BOOLEAN : KeepAway(flee) \/ Dance(flee)) \/ Look

Spec == Init /\ [][Next]_stepVars

-----------------------------------------------------------------------------
\* A monster never steps to where it cannot walk.  One that keeps its distance
\* or dances gets no closer to its target, and one that flees does so only when
\* every straight direction away from the target or to its sides is closed.
StepKeepsDistance ==
  LET after == Plus(offset, step)
      sideways == {d \in Straight : Distance(Plus(offset, d)) >= Distance(offset)}
  IN /\ step # Stay => step \in open
     /\ mode \in {"keep", "dance", "danceFleeing"} => Distance(after) >= Distance(offset)
     /\ mode = "flee" /\ Distance(after) < Distance(offset) => sideways \cap open = {}

\* A monster that turned to attack has its target in front of it.
LooksAtTarget ==
  mode = "look" /\ offset # Stay => facing[1] * offset[1] + facing[2] * offset[2] < 0

\* Wherever the monster stands and whatever is closed around it.
StepsFit == StepKeepsDistance /\ LooksAtTarget
=============================================================================
