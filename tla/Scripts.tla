------------------------------ MODULE Scripts ------------------------------
(***************************************************************************)
(* The Lua side of the server: the stack of script environments, the        *)
(* userdata that scripts hold, the items and conditions they make, and the  *)
(* timers and queries they start.                                           *)
(*                                                                          *)
(* A script is run by an event of the engine: reserveScriptEnv takes the    *)
(* next of the sixteen environments, the event's arguments are pushed as    *)
(* userdata (raw pointers), and resetScriptEnv gives the environment back.  *)
(* A binding called by the script may start another event, so scripts nest. *)
(* Items and creatures taken out of the world go to the release lists that  *)
(* Game::cleanup empties at the end of a task, and also inside a script that *)
(* makes a creature take its first step at once.                            *)
(*                                                                          *)
(* A binding is abstracted to the classes of the userdata it can return     *)
(* ("Value" for numbers, strings and tables copied by value); the bindings  *)
(* that make, move, remove or free an object are actions.  Scripts keep     *)
(* userdata no longer than their run, except as arguments of addEvent, and  *)
(* call delete() only on conditions they made.                              *)
(***************************************************************************)
EXTENDS Naturals, Sequences, FiniteSets

CONSTANTS
    Items,       \* item objects
    Creatures,   \* creature objects, monsters here
    Conds,       \* condition objects
    Classes,     \* the Lua classes whose userdata are tracked
    MaxEnv,      \* environments of the stack (16 in the code)
    MaxNesting,  \* bound: events that may be nested
    MaxHeld,     \* bound: userdata a script holds at a time
    MaxTimers,   \* bound: timer events pending
    MaxResults   \* bound: query results open

VARIABLES
    envIndex,    \* scriptEnvIndex + 1: environments taken
    running,     \* the scripts running, outermost first: the userdata each holds
    tempItems,   \* tempItems: the items kept for each environment
    where,       \* where each item and creature is: "freed" by a cleanup with no
                 \* script running, "lost" when freed inside a script
    toRelease,   \* ToReleaseItems and ToReleaseCreatures
    owner,       \* who owns each condition
    garbage,     \* userdata no script can reach any more
    timers,      \* timerEvents: the arguments of each pending timer event
    registry,    \* registry references held for the timers
    results      \* tempResults: query results open

vars == <<envIndex, running, tempItems, where, toRelease, owner, garbage,
          timers, registry, results>>
world == <<where, toRelease>>
lua == <<timers, registry, results>>

Things == Items \cup Creatures

-----------------------------------------------------------------------------
(* The classes and what their bindings return.                              *)

\* Classes whose metatable has a type tag: addEvent knows their userdata.
ThingTypes == {"Item", "Container", "Teleport", "Player", "Monster", "Npc"}

ItemClasses == {"Item", "Container", "Teleport"}
CreatureClasses == {"Player", "Monster", "Npc"}

\* Classes whose userdata free their object when they are collected.
Collected == {"NetworkMessage", "Condition", "Loot", "MonsterSpell"}

\* One set for each stretch of bindings that hands out userdata, with the
\* constructor where it has one: the classes of what they return.  Stretches whose
\* bindings return values only are left out.  Getters and setters alternate in the
\* source; what a setter changes is no part of this module, but for what it can do
\* to objects that scripts hold: run another script (RunScript), remove a thing
\* (RemoveThing) or take a step (StepInScript), actions open to a script at any
\* time.

\* Game.
GameLists == CreatureClasses \cup {"House", "MonsterType", "Town", "Value"}
GameMakes == {"Monster", "MonsterType", "Npc", "Tile", "Value"}

\* Tile.
TileThings == ItemClasses \cup CreatureClasses \cup {"Tile", "Value"}
TileFinds == ItemClasses \cup {"Value"}
TileLists == ItemClasses \cup CreatureClasses \cup {"Value"}
TileCreatures == ItemClasses \cup CreatureClasses \cup {"Value"}
TileHouse == {"House", "Value"}

\* Item and Container.
ItemParents == ItemClasses \cup CreatureClasses \cup {"Tile", "Value"}
ItemReads == {"Tile", "Value"}
ContainerGives == ItemClasses \cup {"Value"}

\* Creature.
CreatureGives == CreatureClasses \cup {"Value"}
CreatureRelations == ItemClasses \cup CreatureClasses \cup {"Tile", "Value"}
CreatureValues == {"Tile", "Value"}
CreatureSays == CreatureClasses \cup {"Value"}

\* Player.
PlayerAccount == {"Player", "Value"}
PlayerChest == ItemClasses \cup {"Value"}
PlayerMembership == ItemClasses \cup {"Town", "Vocation", "Value"}
PlayerGroup == {"Group", "Guild", "Value"}
PlayerSlots == ItemClasses \cup {"Party", "Value"}
PlayerHouse == {"House", "Value"}
PlayerContainers == {"Container", "Value"}

\* Monster and Npc.
MonsterGives == {"Monster", "MonsterType", "Value"}
MonsterLists == CreatureClasses \cup {"Value"}
NpcGives == {"Npc", "Value"}

\* Guild, Group, Vocation, Town and House.
GuildGives == {"Guild", "Player", "Value"}
GroupGives == {"Group", "Value"}
VocationGives == {"Vocation", "Value"}
VocationRanks == {"Vocation", "Value"}
TownGives == {"Town", "Value"}
HouseGives == {"House", "Town", "Value"}
HouseBeds == ItemClasses \cup {"Tile", "Value"}

\* ItemType.
ItemTypeTests == {"ItemType", "Value"}

\* Combat.
CombatGives == {"Combat", "Value"}

\* MonsterType, Loot and MonsterSpell.
MonsterTypeTests == {"MonsterType", "Value"}
MonsterTypeAttacks == {"CombatSpell", "Value"}
MonsterTypeDefenses == {"CombatSpell", "Value"}
LootGives == {"Loot", "Value"}
SpellGives == {"MonsterSpell", "Value"}

\* Party.
PartyGives == {"Player", "Value"}

CreatureReturns ==
    CreatureGives \cup CreatureRelations \cup CreatureValues \cup CreatureSays
PlayerReturns ==
    PlayerAccount \cup PlayerChest \cup PlayerMembership \cup PlayerGroup
    \cup PlayerSlots \cup PlayerHouse \cup PlayerContainers
MonsterTypeReturns ==
    MonsterTypeTests \cup MonsterTypeAttacks \cup MonsterTypeDefenses

\* The userdata a binding of class c may return.
Gives(c) ==
    CASE c \in ItemClasses -> ItemParents \cup ItemReads \cup ContainerGives
      [] c = "Player" -> CreatureReturns \cup PlayerReturns
      [] c = "Monster" -> CreatureReturns \cup MonsterGives \cup MonsterLists
      [] c = "Npc" -> CreatureReturns \cup NpcGives
      [] c = "Tile" -> TileThings \cup TileFinds \cup TileLists \cup TileCreatures
                       \cup TileHouse
      [] c = "House" -> HouseGives \cup HouseBeds
      [] c = "Guild" -> GuildGives
      [] c = "Group" -> GroupGives
      [] c = "Vocation" -> VocationGives \cup VocationRanks
      [] c = "Town" -> TownGives
      [] c = "ItemType" -> ItemTypeTests
      [] c = "MonsterType" -> MonsterTypeReturns
      [] c = "Party" -> PartyGives
      [] c \in {"Condition", "NetworkMessage"} -> {"Value"}
      [] c = "Combat" -> CombatGives
      [] c = "Loot" -> LootGives
      [] c = "MonsterSpell" -> SpellGives
      [] OTHER -> GameLists \cup GameMakes

-----------------------------------------------------------------------------
(* The arguments of the events that run a script.                           *)

MonsterSpawnArgs == {"Monster"}
DropLootArgs == {"Monster", "Container"}
CreatureArgs == CreatureClasses \cup {"Tile"}
PartyArgs == {"Party", "Player"}
PlayerLookArgs == {"Player"} \cup ItemClasses \cup CreatureClasses
PlayerMoveArgs == {"Player", "Tile"} \cup ItemClasses \cup CreatureClasses
PlayerReportArgs == {"Player"}
PlayerTradeArgs == {"Player"} \cup ItemClasses
PlayerGainArgs == {"Player"} \cup CreatureClasses
LoginArgs == {"Player"} \cup CreatureClasses
DeathArgs == CreatureClasses \cup ItemClasses
TextEditArgs == {"Player", "Item"}
OpcodeArgs == {"Player"}

\* The argument lists, by event.
EventArgs == {MonsterSpawnArgs, DropLootArgs, CreatureArgs, PartyArgs,
              PlayerLookArgs, PlayerMoveArgs, PlayerReportArgs,
              PlayerTradeArgs, PlayerGainArgs, LoginArgs, DeathArgs,
              TextEditArgs, OpcodeArgs}

-----------------------------------------------------------------------------
(* Userdata.                                                                *)

None == "none"

\* A userdata: its class, the object it points to (None for those whose life is
\* not followed: parties, and what lasts as long as the server) and whether its
\* metatable is a weak one.
Userdata(c, o, weak) == [class |-> c, object |-> o, weak |-> weak]

\* The objects of class c a userdata may be pushed for: what is in the world.
Pushable(c) ==
    CASE c \in ItemClasses -> {i \in Items : where[i] = "world"}
      [] c \in CreatureClasses -> {m \in Creatures : where[m] = "world"}
      [] OTHER -> {None}

\* setItemMetatable, setCreatureMetatable and setMetatable.
PushUserdata(c) == {Userdata(c, o, FALSE) : o \in Pushable(c)}

\* setWeakMetatable: the metatable of the class without __gc.
WeakUserdata(c, o) == Userdata(c, o, TRUE)

Top == Len(running)
Held == running[Top]
Hold(hs) == running' = [running EXCEPT ![Top] = hs]
Room == Cardinality(Held) < MaxHeld

Holding(h) == Top > 0 /\ h \in Held

-----------------------------------------------------------------------------
(* Environments.                                                            *)

\* reserveScriptEnv: the index moves on even when no environment is left.
ReserveScriptEnv == envIndex' = envIndex + 1

Init ==
    /\ envIndex = 0
    /\ running = << >>
    /\ tempItems = [e \in 1..(MaxEnv + 1) |-> {}]
    /\ where \in {w \in [Things -> {"none", "world"}] :
                    \E t \in Things : w[t] = "world"}
    /\ toRelease = {}
    /\ owner \in [Conds -> {"none", "engine"}]
    /\ garbage = {}
    /\ timers = << >>
    /\ registry = 0
    /\ results = 0

\* An event runs a script with some of its arguments.  When no environment
\* is left it gives up ("Call stack overflow") and the index stays moved.
RunScript ==
    /\ Top < MaxNesting
    /\ ReserveScriptEnv
    /\ IF envIndex < MaxEnv
       THEN \E args \in EventArgs :
              \E c \in args \cap Classes : \E h \in PushUserdata(c) :
                 running' = Append(running, {h})
       ELSE UNCHANGED running
    /\ UNCHANGED <<tempItems, where, toRelease, owner, garbage, timers,
                   registry, results>>

\* resetEnv: items the script made and never placed are released.
ReleasedByReset(e) == {i \in tempItems[e] : where[i] = "virtual"}

\* resetScriptEnv at the end of callFunction; what the script held becomes
\* garbage.  All query results are dropped, those of outer scripts too.  A
\* temporary item that was freed inside the script is read nevertheless: it may
\* or may not look like one to release.
EndScript ==
    /\ Top > 0
    /\ \E again \in SUBSET {i \in tempItems[envIndex] : where[i] = "lost"} :
         toRelease' = toRelease \cup ReleasedByReset(envIndex) \cup again
    /\ tempItems' = [tempItems EXCEPT ![envIndex] = {}]
    /\ envIndex' = envIndex - 1
    /\ running' = SubSeq(running, 1, Top - 1)
    /\ garbage' = garbage \cup {h \in Held : h.object \in Conds}
    /\ results' = 0
    /\ UNCHANGED <<where, owner, timers, registry>>

\* Mutant: released at once.
CleanupAnyTime == TRUE

\* Tasks run cleanup when their work, scripts included, is done.
CleanupDue == Top = 0

\* Game::cleanup frees what was released.
Free(fate) ==
    /\ toRelease # {}
    /\ where' = [t \in Things |-> IF t \in toRelease THEN fate ELSE where[t]]
    /\ toRelease' = {}
    /\ UNCHANGED <<envIndex, running, tempItems, owner, garbage, timers,
                   registry, results>>

Cleanup == CleanupDue /\ Free("freed")

\* A script sends a creature one step away (selfMoveTo of an npc): addEventWalk
\* takes the step at once, and checkCreatureWalk ends with a cleanup.  What the
\* script then does with an object that was freed under it is not followed.
StepInScript == Top > 0 /\ Free("lost")

-----------------------------------------------------------------------------
(* Bindings that read.                                                      *)

\* A binding called on a userdata returns another one.
Read(h) ==
    /\ Holding(h) /\ Room
    /\ \E c \in Gives(h.class) \cap Classes : \E g \in PushUserdata(c) :
         Hold(Held \cup {g})
    /\ UNCHANGED <<envIndex, tempItems, world, owner, garbage, lua>>

\* The script drops a userdata it holds.
Forget(h) ==
    /\ Holding(h)
    /\ Hold(Held \ {h})
    /\ garbage' = IF h.object \in Conds THEN garbage \cup {h} ELSE garbage
    /\ UNCHANGED <<envIndex, tempItems, world, owner, lua>>

-----------------------------------------------------------------------------
(* Items made, placed and removed by scripts.                               *)

Unused == {i \in Items : where[i] = "none"}
NewItem(i) == Userdata("Item", i, FALSE)

\* Game.createItem, Game.createContainer, item:clone and the part that
\* item:split takes off: an item without a place, kept for the environment.
CreateItem ==
    /\ Top > 0 /\ Room
    /\ \E i \in Unused :
         /\ where' = [where EXCEPT ![i] = "virtual"]
         /\ tempItems' = [tempItems EXCEPT ![envIndex] = @ \cup {i}]
         /\ Hold(Held \cup {NewItem(i)})
    /\ UNCHANGED <<envIndex, toRelease, owner, garbage, lua>>

\* Game.createItem with a position, tile:addItem, container:addItem and
\* player:addItem put the new item into the world at once.
AddItem ==
    /\ Top > 0 /\ Room
    /\ \E i \in Unused :
         /\ where' = [where EXCEPT ![i] = "world"]
         /\ Hold(Held \cup {NewItem(i)})
    /\ UNCHANGED <<envIndex, tempItems, toRelease, owner, garbage, lua>>

\* removeTempItem: the first entry of the item, whatever its environment.
RemoveTempItem(i) == [e \in DOMAIN tempItems |-> tempItems[e] \ {i}]

\* addItemEx of a tile, a container or a player: placed, or merged into a
\* stack and released; refused, it stays as it is.
AddItemEx(h) ==
    /\ Holding(h) /\ h.object \in Items
    /\ where[h.object] = "virtual"
    /\ \/ where' = [where EXCEPT ![h.object] = "world"] /\ UNCHANGED toRelease
       \/ /\ where' = [where EXCEPT ![h.object] = "removed"]
          /\ toRelease' = toRelease \cup {h.object}
    /\ tempItems' = RemoveTempItem(h.object)
    /\ UNCHANGED <<envIndex, running, owner, garbage, lua>>

\* item:moveTo of an item without a place: it stays listed as temporary
\* unless it is merged away.
MoveTo(h) ==
    /\ Holding(h) /\ h.object \in Items
    /\ where[h.object] = "virtual"
    /\ \/ /\ where' = [where EXCEPT ![h.object] = "world"]
          /\ UNCHANGED <<toRelease, tempItems>>
       \/ /\ where' = [where EXCEPT ![h.object] = "removed"]
          /\ toRelease' = toRelease \cup {h.object}
          /\ tempItems' = RemoveTempItem(h.object)
    /\ UNCHANGED <<envIndex, running, owner, garbage, lua>>

\* A thing in the world is removed, held by a script or not: item:remove (an
\* item without a place stays), player:removeItem and removeMoney, and what the
\* engine takes away by itself, in a task of its own or under a script.
RemoveThing(t) ==
    /\ where[t] = "world"
    /\ where' = [where EXCEPT ![t] = "removed"]
    /\ toRelease' = toRelease \cup {t}
    /\ tempItems' = RemoveTempItem(t)
    /\ UNCHANGED <<envIndex, running, owner, garbage, lua>>

\* item:transform into an item of another kind: a new item takes its place
\* and the userdata is made to point to it.
Transform(h) ==
    /\ Holding(h) /\ h.object \in Items
    /\ where[h.object] = "world"
    /\ \E i \in Unused :
         /\ where' = [where EXCEPT ![h.object] = "removed", ![i] = "world"]
         /\ Hold((Held \ {h}) \cup {NewItem(i)})
    /\ toRelease' = toRelease \cup {h.object}
    /\ UNCHANGED <<envIndex, tempItems, owner, garbage, lua>>

\* creature:remove: the userdata it was called on is cleared.
RemoveCreature(h) ==
    /\ Holding(h) /\ h.object \in Creatures
    /\ where[h.object] = "world"
    /\ where' = [where EXCEPT ![h.object] = "removed"]
    /\ toRelease' = toRelease \cup {h.object}
    /\ Hold(Held \ {h})
    /\ UNCHANGED <<envIndex, tempItems, owner, garbage, lua>>

-----------------------------------------------------------------------------
(* Conditions: made by scripts, or owned by a creature and lent to them.    *)

\* Condition(type), condition:clone(): the userdata owns the object.
CreateCondition ==
    /\ Top > 0 /\ Room
    /\ \E o \in Conds :
         /\ owner[o] = "none"
         /\ owner' = [owner EXCEPT ![o] = "script"]
         /\ Hold(Held \cup {Userdata("Condition", o, FALSE)})
    /\ UNCHANGED <<envIndex, tempItems, world, garbage, lua>>

\* creature:getCondition: the condition stays with the creature.
GetCondition ==
    /\ Top > 0 /\ Room
    /\ \E o \in Conds :
         /\ owner[o] = "engine"
         /\ Hold(Held \cup {WeakUserdata("Condition", o)})
    /\ UNCHANGED <<envIndex, tempItems, world, owner, garbage, lua>>

\* creature:addCondition gives the creature a clone of the script's.
AddCondition(h) ==
    /\ Holding(h) /\ h.object \in Conds
    /\ \E o \in Conds :
         /\ owner[o] = "none"
         /\ owner' = [owner EXCEPT ![o] = "engine"]
    /\ UNCHANGED <<envIndex, running, tempItems, world, garbage, lua>>

\* condition:delete(): freed, and the userdata cleared.
DeleteCondition(h) ==
    /\ Holding(h) /\ h.object \in Conds /\ ~h.weak
    /\ owner' = [owner EXCEPT ![h.object] = "freed"]
    /\ Hold(Held \ {h})
    /\ UNCHANGED <<envIndex, tempItems, world, garbage, lua>>

\* The collector finalises a userdata: __gc frees its object.
Collect ==
    \E h \in garbage :
       /\ garbage' = garbage \ {h}
       /\ owner' = IF h.class \in Collected /\ ~h.weak
                   THEN [owner EXCEPT ![h.object] = "freed"] ELSE owner
       /\ UNCHANGED <<envIndex, running, tempItems, world, lua>>

-----------------------------------------------------------------------------
(* Timers and queries.                                                      *)

\* convertUnsafeScripts: items and creatures are replaced by their ids.
ConvertUnsafe(h) ==
    IF h.class \in ThingTypes THEN Userdata("Value", None, FALSE) ELSE h

\* References taken by addEvent: the function and one per argument.
RefsOf(a) == 2

\* addEvent(callback, delay, argument).
AddEvent(h) ==
    /\ Holding(h) /\ Len(timers) < MaxTimers
    /\ timers' = Append(timers, ConvertUnsafe(h))
    /\ registry' = registry + RefsOf(h)
    /\ UNCHANGED <<envIndex, running, tempItems, world, owner, garbage, results>>

Without(s, k) == SubSeq(s, 1, k - 1) \o SubSeq(s, k + 1, Len(s))

\* stopEvent from a script.
StopEvent(k) ==
    /\ Top > 0
    /\ timers' = Without(timers, k)
    /\ registry' = registry - RefsOf(timers[k])
    /\ UNCHANGED <<envIndex, running, tempItems, world, owner, garbage, results>>

\* executeTimerEvent: a task of its own, the callback gets the argument.
ExecuteTimerEvent(k) ==
    /\ Top = 0 /\ envIndex < MaxEnv
    /\ ReserveScriptEnv
    /\ running' = << IF timers[k].class = "Value" THEN {} ELSE {timers[k]} >>
    /\ timers' = Without(timers, k)
    /\ registry' = registry - RefsOf(timers[k])
    /\ UNCHANGED <<tempItems, world, owner, garbage, results>>

\* Item(uid), Monster(id): the id a timer was given is looked up again.
LookUp ==
    /\ Top > 0 /\ Room
    /\ \E c \in ThingTypes \cap Classes : \E g \in PushUserdata(c) :
         Hold(Held \cup {g})
    /\ UNCHANGED <<envIndex, tempItems, world, owner, garbage, lua>>

\* db.storeQuery.
StoreQuery ==
    /\ Top > 0 /\ results < MaxResults
    /\ results' = results + 1
    /\ UNCHANGED <<envIndex, running, tempItems, world, owner, garbage,
                   timers, registry>>

\* result.free.
FreeResult ==
    /\ Top > 0 /\ results > 0
    /\ results' = results - 1
    /\ UNCHANGED <<envIndex, running, tempItems, world, owner, garbage,
                   timers, registry>>

Handles == UNION {running[k] : k \in DOMAIN running}

Next ==
    \/ RunScript
    \/ EndScript
    \/ Cleanup
    \/ StepInScript
    \/ \E t \in Things : RemoveThing(t)
    \/ CreateItem
    \/ AddItem
    \/ CreateCondition
    \/ GetCondition
    \/ Collect
    \/ LookUp
    \/ StoreQuery
    \/ FreeResult
    \/ \E h \in Handles :
          \/ Read(h)
          \/ Forget(h)
          \/ AddItemEx(h)
          \/ MoveTo(h)
          \/ Transform(h)
          \/ RemoveCreature(h)
          \/ AddCondition(h)
          \/ DeleteCondition(h)
          \/ AddEvent(h)
    \/ \E k \in DOMAIN timers : StopEvent(k) \/ ExecuteTimerEvent(k)

Spec == Init /\ [][Next]_vars

-----------------------------------------------------------------------------
(* Properties.                                                              *)

\* A userdata of an item or a creature that a running script holds, or that
\* the callback of a timer gets, and an item kept for an environment, point to an
\* object that no cleanup between scripts has freed: only a step taken inside a
\* script frees an object under it, and then only one that had been removed.
HandlesAlive ==
    /\ \A h \in Handles : h.object \in Things => where[h.object] # "freed"
    /\ \A e \in DOMAIN tempItems : \A i \in tempItems[e] : where[i] # "freed"

\* An item that a script made is never lost: when no script runs it is in the
\* world, or on its way to be freed; and what is released is not in the world.
MadeItemsKept ==
    /\ Top = 0 => \A i \in Items :
                     where[i] \in {"virtual", "removed"} => i \in toRelease
    /\ \A t \in toRelease : where[t] # "world"

\* A condition that a creature has is not freed by the collector, whatever
\* scripts held a userdata of it; and every freed one was a script's own.
LentConditionStays == \A o \in Conds : owner[o] = "engine" => owner'[o] # "freed"

\* The assertion of getScriptEnv: while a script runs, the index of its
\* environment is below the size of the array.
EnvIndexInRange == Top > 0 => envIndex \in 1..MaxEnv
=============================================================================
