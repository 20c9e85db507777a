----------------------------- MODULE Conditions -----------------------------
(***************************************************************************)
(* The conditions of a player (condition.cpp and the condition list of     *)
(* creature.cpp): haste and paralysis, changed attributes, damage over     *)
(* time, invisibility, outfits, light, and being in a fight.  A condition  *)
(* changes the player when it starts and takes the change back when it     *)
(* ends; it is renewed when one of its type and id comes again.            *)
(* Adding haste to a paralysed player, and removing paralysis, wait for    *)
(* the end of the step the player is making.                               *)
(*                                                                         *)
(* Time is in units of the think interval.  left is the time to endTime,   *)
(* by the wall clock; ticks and the rounds of a damage count the think     *)
(* calls, which are never early (each starts the interval to the next) but *)
(* may be late.  Forever is the ticks value -1.  A behaviour is about one  *)
(* group of kinds that depend on each other.                               *)
(***************************************************************************)
EXTENDS Integers, Sequences, FiniteSets, SequencesExt, FiniteSetsExt

CONSTANTS
  Ids,        \* condition ids: combat, and the slot of an item
  SlotIds,    \* those of items, which are not saved
  MaxTicks,   \* bound on the ticks of a condition
  MaxDeferred,\* bound on the events that wait for the end of a step
  MaxPower,   \* bound on what a condition changes
  Amounts,    \* damage of conditions
  MaxFields   \* bound on the think intervals on a field

Groups == {{"haste", "paralyze"}, {"attributes"}, {"invisible", "outfit"}, {"damage"},
           {"light"}, {"infight"}}
Forever == -1
Own == 0  \* the default outfit
Hidden == -1

VARIABLES
  kinds,       \* the group of this behaviour
  conditions,  \* Creature::conditions
  deferred,    \* forceAddCondition and forceRemoveCondition events
  resting,     \* getWalkDelay() = 0
  thinkDue,    \* time has passed since executeConditions
  late,        \* history: thinks missed, Hurried once a damage was cut short
  baseSkill, varSkill, varSpeed,
  outfit, shown,   \* current outfit, and what spectators were last sent
  light,
  pzLocked,
  fields,      \* think intervals yet to be spent on a field
  onField,     \* a field of the damage type is on the tile
  owed         \* history: damage of the conditions started, less the rounds done

body == <<baseSkill, varSkill, varSpeed, outfit, shown, light, pzLocked, fields, onField, owed>>
conditionVars == <<kinds, conditions, deferred, resting, thinkDue, late, body>>

Hurried == 2  \* bound on late

-----------------------------------------------------------------------------
(* ConditionDamage::generateDamageList: rounds of start, start - 1, .. 1,  *)
(* as many of each as bring the sum nearest to its share of the amount.    *)
(* In a tie the code's floating point rounding decides; here it stops.     *)

\* x1 < x2, the distances from 1 of (sum + i) / med and of sum / med
Closer(sum, i, med) ==
  LET away(n) == IF n < med THEN med - n ELSE n - med
  IN med # 0 /\ away(sum + i) < away(sum)

\* The rounds of value i: one, and more while that comes closer.
RoundsOf(sum, i, med, bound) ==
  1 + Cardinality({k \in 1..bound : \A j \in 1..k : Closer(sum + j * i, i, med)})

GenerateDamageList(amount, start) ==
  LET add(acc, i) ==
        LET n == RoundsOf(acc.sum, i, ((start + 1 - i) * amount) \div start, amount)
        IN [sum |-> acc.sum + n * i, list |-> acc.list \o [k \in 1..n |-> i]]
  IN FoldLeft(add, [sum |-> 0, list |-> <<>>], [k \in 1..start |-> start + 1 - k]).list

\* ConditionDamage::init for a condition without a list: the start value
StartDamage(amount) == LET tenth == (amount + 19) \div 20 IN IF tenth < 1 THEN 1 ELSE tenth

-----------------------------------------------------------------------------
(* A player is changed as one record.                                      *)

Player == [list |-> conditions, deferred |-> deferred, base |-> baseSkill, skill |-> varSkill,
           speed |-> varSpeed, outfit |-> outfit, shown |-> shown, light |-> light,
           locked |-> pzLocked, owed |-> owed]

Become(p) ==
  /\ conditions' = p.list /\ deferred' = p.deferred /\ baseSkill' = p.base /\ varSkill' = p.skill
  /\ varSpeed' = p.speed /\ outfit' = p.outfit /\ shown' = p.shown /\ light' = p.light
  /\ pzLocked' = p.locked /\ owed' = p.owed

Has(p, type) == \E i \in DOMAIN p.list : p.list[i].type = type

\* Creature::hasCondition: not one whose time is over
HasCondition(p, type) ==
  \E i \in DOMAIN p.list : p.list[i].type = type /\ (p.list[i].left >= 0 \/ p.list[i].ticks = Forever)

\* Game::changeSpeed
ChangeSpeed(p, delta) == [p EXCEPT !.speed = @ + delta]

\* Game::internalCreatureChangeOutfit
ChangeOutfit(p, o) ==
  [p EXCEPT !.outfit = o, !.shown = IF Has(p, "invisible") THEN @ ELSE o]

\* Game::internalCreatureChangeVisible
ChangeVisible(p, visible) == [p EXCEPT !.shown = IF visible THEN p.outfit ELSE Hidden]

\* ConditionAttributes::updatePercentSkills: what a condition changes the
\* skill by, kept in it as power.
UpdatePercentSkills(p, c) ==
  IF c.type = "attributes" /\ c.percent # 0 THEN [c EXCEPT !.power = (p.base * (c.percent - 100)) \div 100] ELSE c

UpdateSkills(p, c) == [p EXCEPT !.skill = @ + c.power]

\* Condition::setTicks
SetTicks(c, t) == [c EXCEPT !.ticks = t, !.left = t]

SumOf(list) == MapThenSumSet(LAMBDA i : list[i].value, DOMAIN list)
Rest(list) == MapThenSumSet(LAMBDA i : SumOf(list[i].rounds), DOMAIN list)

\* ConditionDamage::init and addDamage: each round is an interval of 2 later
InitDamage(c) ==
  LET list == GenerateDamageList(c.amount, StartDamage(c.amount))
  IN [SetTicks(c, 2 * Len(list)) EXCEPT
        !.rounds = [i \in DOMAIN list |-> [timeLeft |-> 2, value |-> list[i]]]]

Both(p, c) == [player |-> p, condition |-> c]

\* ConditionDamage::getNextDamage and doDamage: the first round at once
FirstDamage(p, c) ==
  IF c.delayed THEN Both(p, c)
  ELSE Both([p EXCEPT !.owed = @ - c.rounds[1].value], [c EXCEPT !.rounds = Tail(@)])

StartDamageCondition(p, c) == FirstDamage([p EXCEPT !.owed = @ + c.amount], InitDamage(c))

StartAttributes(p, c) == LET d == UpdatePercentSkills(p, c) IN Both(UpdateSkills(p, d), d)

StartLight(p, c) == Both([p EXCEPT !.light = c.power], c)

StartCondition(p, c) ==
  LET d == IF c.ticks > 0 THEN [c EXCEPT !.left = c.ticks] ELSE c IN
  CASE c.type \in {"haste", "paralyze"} -> Both(ChangeSpeed(p, c.power), d)
    [] c.type = "attributes" -> StartAttributes(p, d)
    [] c.type = "invisible" -> Both(ChangeVisible(p, FALSE), d)
    [] c.type = "outfit" -> Both(ChangeOutfit(p, c.power), d)
    [] c.type = "damage" -> StartDamageCondition(p, d)
    [] c.type = "light" -> StartLight(p, d)
    [] c.type = "infight" -> Both(p, d)

EndSpeed(p, c) == ChangeSpeed(p, -c.power)

EndInvisible(p) == IF Has(p, "invisible") THEN p ELSE ChangeVisible(p, TRUE)

\* Player::onEndCondition
OnEndInFight(p) == [p EXCEPT !.locked = FALSE]

\* endCondition and onEndCondition, after c has left the list
EndCondition(p, c) ==
  CASE c.type \in {"haste", "paralyze"} -> EndSpeed(p, c)
    [] c.type = "attributes" -> [p EXCEPT !.skill = @ - c.power]
    [] c.type = "invisible" -> EndInvisible(p)
    [] c.type = "outfit" -> ChangeOutfit(p, Own)
    [] c.type = "light" -> [p EXCEPT !.light = 0]
    [] c.type = "infight" -> OnEndInFight(p)
    [] OTHER -> p

-----------------------------------------------------------------------------
(* Renewing condition d by c of the same type and id (addCondition of the  *)
(* condition).                                                             *)

\* Condition::updateCondition
UpdateCondition(d, c) ==
  /\ ~(d.ticks = Forever /\ c.ticks > 0)
  /\ ~(c.ticks >= 0 /\ (d.left > c.ticks \/ d.ticks = Forever))

\* Mutant: the new speed is added to the old one.
RenewSpeedAdds(p, d, c) ==
  IF d.ticks = Forever /\ c.ticks > 0 THEN Both(p, d)
  ELSE Both(ChangeSpeed(p, c.power), [SetTicks(d, c.ticks) EXCEPT !.power = c.power])

RenewSpeed(p, d, c) ==
  IF d.ticks = Forever /\ c.ticks > 0 THEN Both(p, d)
  ELSE Both(ChangeSpeed(p, c.power - d.power), [SetTicks(d, c.ticks) EXCEPT !.power = c.power])

RenewAttributes(p, d, c) ==
  IF ~UpdateCondition(d, c) THEN Both(p, d)
  ELSE LET q == EndCondition(p, d)
           n == UpdatePercentSkills(q, [SetTicks(d, c.ticks) EXCEPT !.power = c.power, !.percent = c.percent])
       IN Both(UpdateSkills(q, n), n)

RenewOutfit(p, d, c) ==
  IF ~UpdateCondition(d, c) THEN Both(p, d)
  ELSE Both(ChangeOutfit(p, c.power), [SetTicks(d, c.ticks) EXCEPT !.power = c.power])

RenewLight(p, d, c) ==
  IF ~UpdateCondition(d, c) THEN Both(p, d)
  ELSE Both([p EXCEPT !.light = c.power], [SetTicks(d, c.ticks) EXCEPT !.power = c.power])

RenewGeneric(p, d, c) == Both(p, IF UpdateCondition(d, c) THEN SetTicks(d, c.ticks) ELSE d)

\* A worse damage takes the place of the rest of the old one, and keeps the
\* time to the next round.
RenewDamage(p, d, c) ==
  LET total(x) == IF x.rounds = <<>> THEN x.amount ELSE SumOf(x.rounds)
      i == InitDamage([c EXCEPT !.delayed = d.delayed])
      next == IF d.rounds = <<>> THEN 2 ELSE d.rounds[1].timeLeft
  IN IF total(c) <= total(d) THEN Both(p, d)
     ELSE FirstDamage([p EXCEPT !.owed = @ - SumOf(d.rounds) + c.amount], [i EXCEPT !.rounds[1].timeLeft = next])

Renew(p, d, c) ==
  CASE c.type \in {"haste", "paralyze"} -> RenewSpeed(p, d, c)
    [] c.type = "attributes" -> RenewAttributes(p, d, c)
    [] c.type = "outfit" -> RenewOutfit(p, d, c)
    [] c.type = "light" -> RenewLight(p, d, c)
    [] c.type = "damage" -> RenewDamage(p, d, c)
    [] OTHER -> RenewGeneric(p, d, c)

-----------------------------------------------------------------------------
(* The list.                                                               *)

Defer(p, e) == [p EXCEPT !.deferred = Append(@, e)]

RemoveNth(p, i) == EndCondition([p EXCEPT !.list = RemoveAt(@, i)], p.list[i])

\* Creature::removeCondition(type), and with ids of one element that of (type, id)
\* or of one condition: all of them, unless paralysis has to wait
RemoveCondition(p, type, ids, force, rests) ==
  LET hits == {i \in DOMAIN p.list : p.list[i].type = type /\ p.list[i].id \in ids}
      drop(q, i) == RemoveNth(q, SelectInSeq(q.list, LAMBDA c : c.type = type /\ c.id \in ids))
  IN IF hits = {} THEN p
     ELSE IF ~force /\ type = "paralyze" /\ ~rests THEN Defer(p, [act |-> "remove"])
     ELSE FoldSet(LAMBDA i, q : drop(q, i), p, hits)

\* Creature::onAddCondition
OnAddCondition(p, type, rests) ==
  CASE type = "paralyze" /\ HasCondition(p, "haste") -> RemoveCondition(p, "haste", Ids, FALSE, rests)
    [] type = "haste" /\ HasCondition(p, "paralyze") -> RemoveCondition(p, "paralyze", Ids, FALSE, rests)
    [] OTHER -> p

\* startCondition is false for a damage whose first round is not taken (hits is
\* what doDamage returns: the player may be safe or immune).
Starts(c, hits) == c.type # "damage" \/ c.delayed \/ hits

\* Creature::addCondition
AddCondition(p, c, hits, force, rests) ==
  LET i == SelectInSeq(p.list, LAMBDA d : d.type = c.type /\ d.id = c.id)
      renewed == Renew(p, p.list[i], c)
      started == StartCondition(p, c)
  IN IF ~force /\ c.type = "haste" /\ HasCondition(p, "paralyze") /\ ~rests
     THEN Defer(p, [act |-> "add", condition |-> c])
     ELSE IF i # 0 THEN [renewed.player EXCEPT !.list[i] = renewed.condition]
     ELSE IF ~Starts(c, hits) THEN p
     ELSE OnAddCondition([started.player EXCEPT !.list = Append(@, started.condition)], c.type, rests)

-----------------------------------------------------------------------------
(* executeCondition, one think interval.                                   *)

CountDown(c) == [c EXCEPT !.ticks = IF @ > 0 THEN @ - 1 ELSE @]

\* A field of the damage's type under the player repeats the round, and holds
\* the time of the condition.
ExecuteDamage(p, c) ==
  LET r == [c.rounds[1] EXCEPT !.timeLeft = @ - 1]
      done == r.timeLeft <= 0
  IN IF c.rounds = <<>> THEN Both(p, CountDown(c))
     ELSE Both(IF done THEN [p EXCEPT !.owed = @ - r.value] ELSE p,
               IF onField
               THEN [c EXCEPT !.rounds[1] = IF done THEN [r EXCEPT !.timeLeft = 2] ELSE r,
                              !.left = IF c.ticks > 0 THEN @ + 1 ELSE @]
               ELSE CountDown([c EXCEPT !.rounds = IF done THEN Tail(@) ELSE <<r>> \o Tail(@)]))

ExecuteLight(p, c) == Both([p EXCEPT !.light = IF @ > 0 THEN @ - 1 ELSE @], CountDown(c))

ExecuteCondition(p, c) ==
  CASE c.type = "damage" -> ExecuteDamage(p, c)
    [] c.type = "light" -> ExecuteLight(p, c)
    [] OTHER -> Both(p, CountDown(c))

\* One condition of Creature::executeConditions, the one with key k, if it is
\* still in the list.
ExecuteOne(p, k) ==
  LET i == SelectInSeq(p.list, LAMBDA c : c.type = k.type /\ c.id = k.id)
      done == ExecuteCondition(p, p.list[i])
      q == [done.player EXCEPT !.list[i] = done.condition]
  IN IF i = 0 THEN p
     ELSE IF done.condition.left >= 0 \/ done.condition.ticks = Forever THEN q
     ELSE RemoveNth(q, i)

ExecuteConditions(p) == FoldLeft(ExecuteOne, p, p.list)

-----------------------------------------------------------------------------
New(type, id, ticks, power, percent, delayed, amount) ==
  [type |-> type, id |-> id, ticks |-> ticks, left |-> -1, power |-> power, percent |-> percent,
   delayed |-> delayed, amount |-> amount, rounds |-> <<>>]

\* What spells, weapons, items, fields and scripts may give.  An item's
\* condition lasts as long as it is worn.
Offers(type) ==
  LET times(id) == IF id \in SlotIds THEN {Forever} ELSE 1..MaxTicks
      powers == 1..IF type \in {"invisible", "infight", "paralyze"} THEN 1 ELSE MaxPower
      plain == UNION {{New(type, id, t, n, 0, FALSE, 0) : t \in times(id), n \in powers} : id \in Ids}
  IN CASE type = "paralyze" -> {[c EXCEPT !.power = -c.power] : c \in plain}
       [] type = "attributes" -> plain \cup {[c EXCEPT !.power = 0, !.percent = 200] : c \in plain}
       [] type = "damage" -> {New(type, id, 0, 0, 0, d, a) : id \in Ids \ SlotIds, d \in BOOLEAN, a \in Amounts}
       [] OTHER -> plain

Init ==
  /\ kinds \in Groups /\ conditions = <<>> /\ deferred = <<>> /\ resting = TRUE /\ thinkDue = FALSE /\ late = 0
  /\ baseSkill = 1 /\ varSkill = 0 /\ varSpeed = 0 /\ outfit = Own /\ shown = Own /\ light = 0
  /\ pzLocked = FALSE /\ fields = MaxFields /\ onField = FALSE /\ owed = 0

Fits(p) == Len(p.deferred) <= MaxDeferred

\* Creature::addCondition and addCombatCondition
Give(c) == \E hits \in {TRUE, Starts(c, FALSE)} :
  /\ \E p \in {AddCondition(Player, c, hits, FALSE, resting)} : Fits(p) /\ Become(p)
  /\ UNCHANGED <<kinds, resting, thinkDue, late, fields, onField>>

\* Player::addInFightTicks(pzlock)
AddInFightTicks(pzlock) ==
  /\ "infight" \in kinds
  /\ \E id \in Ids \ SlotIds :
       Become(AddCondition([Player EXCEPT !.locked = @ \/ pzlock], New("infight", id, MaxTicks, 1, 0, FALSE, 0),
                           TRUE, FALSE, resting))
  /\ UNCHANGED <<kinds, resting, thinkDue, late, fields, onField>>

\* removeCondition: a cure, a script, or an item taken off.  The rest of a damage
\* is no longer owed.
Take(type, ids) ==
  LET p == RemoveCondition(Player, type, ids, FALSE, resting)
  IN /\ p # Player /\ Fits(p)
     /\ Become([p EXCEPT !.owed = @ - (Rest(conditions) - Rest(p.list))])
     /\ UNCHANGED <<kinds, resting, thinkDue, late, fields, onField>>

\* Player::onCombatRemoveCondition of a condition that no item gives, before the
\* next action is allowed: it lasts until then.
CutShort(i, t) ==
  /\ conditions[i].id \notin SlotIds
  /\ conditions' = [conditions EXCEPT ![i] = SetTicks(@, t)]
  /\ late' = IF conditions[i].type = "damage" THEN Hurried ELSE late
  /\ UNCHANGED <<kinds, deferred, resting, thinkDue, body>>

\* forceAddCondition, forceRemoveCondition
RunDeferred(i) ==
  LET e == deferred[i]
      p == [Player EXCEPT !.deferred = RemoveAt(@, i)]
      q == IF e.act = "add" THEN AddCondition(p, e.condition, TRUE, TRUE, resting)
           ELSE RemoveCondition(p, "paralyze", Ids, TRUE, resting)
  IN Fits(q) /\ Become(q) /\ UNCHANGED <<kinds, resting, thinkDue, late, fields, onField>>

Step ==
  /\ "haste" \in kinds /\ resting' = ~resting
  /\ UNCHANGED <<kinds, conditions, deferred, thinkDue, late, body>>

\* The time of one interval, which the think at its end may miss.
Pass ==
  /\ thinkDue' = TRUE
  /\ late' = IF thinkDue /\ "damage" \in kinds THEN late + 1 ELSE late
  /\ late' <= Hurried
  /\ conditions' = [i \in DOMAIN conditions |->
       IF conditions[i].left >= 0 THEN [conditions[i] EXCEPT !.left = @ - 1] ELSE conditions[i]]
  /\ UNCHANGED <<kinds, deferred, resting, body>>

\* What a damage did not do in time, hurried, is no longer owed.
Settled(p) == IF late = Hurried /\ p.owed > Rest(p.list) THEN [p EXCEPT !.owed = Rest(p.list)] ELSE p

Think ==
  /\ thinkDue /\ thinkDue' = FALSE /\ Become(Settled(ExecuteConditions(Player)))
  /\ onField => fields > 0
  /\ fields' = IF onField THEN fields - 1 ELSE fields
  /\ UNCHANGED <<kinds, resting, late, onField>>

\* A field is put under the player, or left.
Field ==
  /\ "damage" \in kinds /\ onField' = ~onField
  /\ UNCHANGED <<kinds, conditions, deferred, resting, thinkDue, late, baseSkill, varSkill, varSpeed,
                 outfit, shown, light, pzLocked, fields, owed>>

\* Player::addSkillAdvance
Advance ==
  /\ "attributes" \in kinds /\ baseSkill < 2 /\ baseSkill' = baseSkill + 1
  /\ UNCHANGED <<kinds, conditions, deferred, resting, thinkDue, late, varSkill, varSpeed, outfit, shown,
                 light, pzLocked, fields, onField, owed>>

\* Condition::serialize, unserialize, and the stored list of a login: only what
\* is persistent, with the percentages already worked out, and a damage with the
\* time of its remaining rounds.
Restored(c) ==
  IF c.type = "damage" THEN SetTicks(c, 2 * Len(c.rounds)) ELSE [c EXCEPT !.percent = 0, !.left = -1]

RestoreOne(p, c, hits) ==
  IF c.type # "damage" THEN AddCondition(p, Restored(c), hits, FALSE, TRUE)
  ELSE IF c.rounds = <<>> THEN p
  ELSE IF ~Starts(c, hits) THEN [p EXCEPT !.owed = @ - SumOf(c.rounds)]
  ELSE LET f == FirstDamage(p, Restored(c)) IN [f.player EXCEPT !.list = Append(@, f.condition)]

Relog == \E hits \in BOOLEAN :
  LET kept == SelectSeq(conditions, LAMBDA c : c.id \notin SlotIds /\ c.ticks # Forever)
      fresh == [Player EXCEPT !.list = <<>>, !.deferred = <<>>, !.skill = 0, !.speed = 0, !.outfit = Own,
                              !.shown = Own, !.light = 0, !.locked = FALSE]
  IN /\ hits \/ "damage" \in kinds
     /\ Become(FoldLeft(LAMBDA p, c : RestoreOne(p, c, hits), fresh, Reverse(kept)))
     /\ resting' = TRUE /\ onField' = FALSE /\ UNCHANGED <<kinds, thinkDue, late, fields>>

Next ==
  \/ \E type \in kinds : \E c \in Offers(type) : Give(c)
  \/ \E pzlock \in BOOLEAN : AddInFightTicks(pzlock)
  \/ \E type \in kinds, ids \in {Ids} \cup {{id} : id \in Ids} : Take(type, ids)
  \/ \E i \in DOMAIN conditions, t \in 0..1 : CutShort(i, t)
  \/ \E i \in DOMAIN deferred : RunDeferred(i)
  \/ Step \/ Pass \/ Think \/ Field \/ Advance \/ Relog

Spec == Init /\ [][Next]_conditionVars

-----------------------------------------------------------------------------
Total(types) ==
  MapThenSumSet(LAMBDA i : IF conditions[i].type \in types THEN conditions[i].power ELSE 0, DOMAIN conditions)

\* What conditions change is what the conditions in the list change, however they
\* were renewed, deferred, cut short, saved or ended: speed and skill are the sum
\* of theirs, spectators see the player's outfit unless it is invisible, light
\* and outfit are the player's own without a condition, and a locked player is in
\* a fight, whose end unlocks it.
EffectsAgree ==
  /\ varSpeed = Total({"haste", "paralyze"})
  /\ varSkill = Total({"attributes"})
  /\ shown = IF Has(Player, "invisible") THEN Hidden ELSE outfit
  /\ Has(Player, "light") \/ light = 0
  /\ Has(Player, "outfit") \/ outfit = Own
  /\ pzLocked => Has(Player, "infight")

\* A damage condition that is left to itself does the damage it was given: its
\* rounds add up to it, and the wall clock does not end it before the last of them
\* as long as no more than one think is missed.  However it is renewed, saved and
\* late, it never does more.  Only a field of its kind under the player does the
\* damage of a round once more and then holds up the next; later rounds that are
\* missed then are never worth more than what the field did.
DamageDone ==
  /\ late < Hurried => owed <= Rest(conditions)
  /\ fields = MaxFields => owed >= Rest(conditions)

\* What conditions change and what they owe, together.
ConditionsAccounted == EffectsAgree /\ DamageDone
=============================================================================
