----------------------------- MODULE MCCharacter ----------------------------
(***************************************************************************)
(* The components of a character, each followed on its own:                *)
(* part names the one whose behaviour this is, and the variables of the    *)
(* others are not used.                                                    *)
(***************************************************************************)
EXTENDS Fights, TLC

CONSTANTS
  Ids, SlotIds, MaxTicks, MaxDeferred, MaxPower, Amounts, MaxFields,
  MaxHealth, MaxMana, MaxDamage, MaxCharges, MaxStack, Size, CarryLimit,
  Supply, ExpTable, ReqTable, Gains, MaxGained, MaxCalls,
  ClientOrders, MaxRoute, MaxPosted

VARIABLES
  part,  \* the component that is followed, "fights" for that of Fights
  group, conditionList, deferred, resting, thinkDue, late, baseSkill, varSkill,
  varSpeed, outfit, outfitShown, light, conditionLock, fields, onField,
  owed, health, mana, manaShield, blockCount, charges, scripts, hit,
  stage, spent, content, totalWeight, inventoryWeight, coinsMade,
  dropped, experience, level, rung, tries, calls, losing, triesOwed,
  route, eventWalk, walkTaskEvent, actionTaskEvent, cancelNextWalk,
  walkTask, moving, following, pending, due, posted, inHand, ordersAsked,
  ordersDone, stranded

Cond == INSTANCE Conditions WITH
  shown <- outfitShown, kinds <- group, pzLocked <- conditionLock,
  conditions <- conditionList
Dmg == INSTANCE Damage WITH
  MaxHit <- MaxDamage

ASSUME DamageAssumption == Dmg!ConstantsFit

Goods == INSTANCE Items WITH
  made <- coinsMade
Prog == INSTANCE Progress WITH
  owed <- triesOwed, step <- rung
Walks == INSTANCE Walking WITH
  Orders <- ClientOrders, asked <- ordersAsked, done <- ordersDone

ASSUME ProgressAssumption == Prog!TablesFit

ASSUME WalkingAssumption == {"none", "swing"} \cap ClientOrders = {} /\ MaxRoute \in Nat

Unused == 0  \* what the variables of the other components hold

conditionsVars == <<group, conditionList, deferred, resting, thinkDue,
                    late, baseSkill, varSkill, varSpeed, outfit, outfitShown,
                    light, conditionLock, fields, onField, owed>>
NoCond ==
  /\ group = Unused /\ conditionList = Unused /\ deferred = Unused
  /\ resting = Unused /\ thinkDue = Unused /\ late = Unused /\ baseSkill = Unused
  /\ varSkill = Unused /\ varSpeed = Unused /\ outfit = Unused
  /\ outfitShown = Unused /\ light = Unused /\ conditionLock = Unused
  /\ fields = Unused /\ onField = Unused /\ owed = Unused

damageVars == <<health, mana, manaShield, blockCount, charges, scripts,
                hit, stage, spent>>
NoDmg ==
  /\ health = Unused /\ mana = Unused /\ manaShield = Unused
  /\ blockCount = Unused /\ charges = Unused /\ scripts = Unused
  /\ hit = Unused /\ stage = Unused /\ spent = Unused

itemsVars == <<content, totalWeight, inventoryWeight, coinsMade, dropped>>
NoGoods ==
  /\ content = Unused /\ totalWeight = Unused /\ inventoryWeight = Unused
  /\ coinsMade = Unused /\ dropped = Unused

progressVars == <<experience, level, rung, tries, calls, losing, triesOwed>>
NoProg ==
  /\ experience = Unused /\ level = Unused /\ rung = Unused
  /\ tries = Unused /\ calls = Unused /\ losing = Unused
  /\ triesOwed = Unused

walkingVars == <<route, eventWalk, walkTaskEvent, actionTaskEvent,
                 cancelNextWalk, walkTask, moving, following, pending, due,
                 posted, inHand, ordersAsked, ordersDone, stranded>>
NoWalks ==
  /\ route = Unused /\ eventWalk = Unused /\ walkTaskEvent = Unused
  /\ actionTaskEvent = Unused /\ cancelNextWalk = Unused
  /\ walkTask = Unused /\ moving = Unused /\ following = Unused
  /\ pending = Unused /\ due = Unused /\ posted = Unused
  /\ inHand = Unused /\ ordersAsked = Unused /\ ordersDone = Unused
  /\ stranded = Unused

AnyInit ==
  \/ part = "fights" /\ Init /\ NoCond /\ NoDmg /\ NoGoods /\ NoProg /\ NoWalks
  \/ part = "conditions" /\ Init /\ party = {} /\ Cond!Init /\ NoDmg /\ NoGoods /\ NoProg /\ NoWalks
  \/ part = "damage" /\ Init /\ party = {} /\ Dmg!Init /\ NoCond /\ NoGoods /\ NoProg /\ NoWalks
  \/ part = "items" /\ Init /\ party = {} /\ Goods!Init /\ NoCond /\ NoDmg /\ NoProg /\ NoWalks
  \/ part = "progress" /\ Init /\ party = {} /\ Prog!Init /\ NoCond /\ NoDmg /\ NoGoods /\ NoWalks
  \/ part = "walking" /\ Init /\ party = {} /\ Walks!Init /\ NoCond /\ NoDmg /\ NoGoods /\ NoProg

AnyNext ==
  \/ part = "fights" /\ UNCHANGED <<part, conditionsVars, damageVars, itemsVars, progressVars, walkingVars>>
       /\ Next
  \/ part = "conditions" /\ UNCHANGED <<part, vars, damageVars, itemsVars, progressVars, walkingVars>>
       /\ Cond!Next
  \/ part = "damage" /\ UNCHANGED <<part, vars, conditionsVars, itemsVars, progressVars, walkingVars>>
       /\ Dmg!Next
  \/ part = "items" /\ UNCHANGED <<part, vars, conditionsVars, damageVars, progressVars, walkingVars>>
       /\ Goods!Next
  \/ part = "progress" /\ UNCHANGED <<part, vars, conditionsVars, damageVars, itemsVars, walkingVars>>
       /\ Prog!Next
  \/ part = "walking" /\ UNCHANGED <<part, vars, conditionsVars, damageVars, itemsVars, progressVars>>
       /\ Walks!Next

AnySpec ==
  AnyInit /\ [][AnyNext]_<<vars, part, conditionsVars, damageVars, itemsVars, progressVars, walkingVars>>

-----------------------------------------------------------------------------
\* See Conditions: speed, skills, looks, light and the lock of a creature are
\* what its conditions make them, and a damage condition does all its damage.
ConditionsAccounted == part = "conditions" => Cond!ConditionsAccounted

\* See Damage: what an attacker is credited with is what the victim lost, and no
\* more than the blocks left of the hit.
HitAccounted == part = "damage" => Dmg!HitAccounted

\* See Items: coins, bags and weights are accounted for wherever they are moved.
ItemsAccounted == part = "items" => Goods!ItemsAccounted

\* See Progress: tries, mana and experience add up, and the levels fit them.
ProgressAccounted == part = "progress" => Prog!ProgressAccounted

\* See Walking: orders that wait for a walk or for their turn are carried out once,
\* can be stopped, and have what they wait for.
OrdersAgree == part = "walking" => Walks!OrdersAgree

\* Orders differ in nothing.
Interchangeable == Permutations(ClientOrders)
MCSize == [bag |-> 2, box |-> 1, locker |-> 2]
MCExp == <<0, 2, 5>>
MCReq == [skill |-> <<2, 3, 5>>, magic |-> <<1, 4>>]
=============================================================================
