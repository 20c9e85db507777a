# TibiaOTS: models, checks and proofs

TibiaOTS (a fork of The Forgotten Server) is a game server: about 75 000 lines
of C++ in `src/src`. This directory holds TLA+ models of the parts that carry
its concurrency and its multi-step protocols, the TLC configurations that check
them on small instances, and TLAPS proofs for all instances.
`PROJECT.json` lists components, runs, mutants, findings, hazards and, for each
definition, the source lines it models.

## The system

Four threads and their hand-overs:

```
 network thread ──addTask──▶ dispatcher ──addEvent/stopEvent──▶ scheduler
   (asio, connections)          ▲  ▲  │                            │
                                │  └──┼──── addTask(front) ────────┘
                                │     └──addTask──▶ database thread
                                └──── callbacks ────────┘
```

Game logic has no locks: it runs only as tasks of the dispatcher. Everything
else is about getting work there and answers back.

| Component | State | Operations | What is hard | What makes it correct |
|---|---|---|---|---|
| Dispatcher (`tasks.*`, `thread_holder_base.h`) | task list, thread state | `addTask`, `threadMain`, `stop`, `shutdown` | notify after unlock, stop outside the lock | no lost wake-up, each task run once, orderly end |
| Scheduler (`scheduler.*`) | heap, ids, last id | `addEvent`, `stopEvent`, `threadMain`, `shutdown` | timeout against stop, stale deadlines, ids that wrap | never early, never oversleeping, stopped means stopped |
| Database queue (`databasetasks.*`) | query list | `addTask`, `threadMain`, `runTask`, `flush`, `shutdown` | two threads empty one list | each query once, order, nothing lost at shutdown |
| Login queue (`waitlist.*`) | two lists of waiting players | `clientLogin` | retries, expiry, unsigned arithmetic | one place each, no overtaking |
| Connections and game protocol (`connection.*`, `protocol*`, `outputmessage.*`) | sockets, protocols, player pointers, autosend list | accept, read, write, time-out, close; login, connect, logout, release | network thread and dispatcher share objects; reference counts | exact counts, no use after free, closed connections are released and go |
| Trade (`game.cpp`, `player.cpp`, `container.cpp`) | trade state, partner, item, registry | request, accept, close; everything that disturbs a trade | long protocol among several players | partners agree, offers registered once, disjoint and as shown, all or nothing |
| Persistence (`database.*`, `iologindata.*`, `iomapserialize.*`) | rows, the transaction, the lock, what memory holds | login, logout, `saveGameState`, each statement | a crash, an error or a lost connection between two statements; retries; one connection for all threads | a save is whole or absent, a logout durable, no dirty read |
| Houses and beds (`house.*`, `housetile.*`, `bed.*`) | owner, lists, who is inside, sleeper, goods | edit lists, buy, transfer, kick, sleep, wake, rent, restart | long sequences of several players, events that come later | only the invited inside, sleepers known, no item twice |
| Creatures and spawns (`creature.*`, `monster.*`, `spawn.*`, `game.cpp`) | targets, masters, summons, check lists | appear, move, attack, summon, die, remove, free, check | raw pointers among objects that go in any order | no pointer outlives its object, everybody is served |
| Walking and orders (`game.cpp`, `player.cpp`) | walk list, three pending events | orders, steps, stops, teleports | events replaced while pending | an order is done once, what is pending can be stopped |
| Monster steps, sight, areas, paths, walk cache (`monster.*`, `map.*`, `combat.*`, `creature.*`) | offsets, rays, matrices, node table, cached squares | choose a step, cast a ray, turn an area, search, shift the cache | case analysis over directions, index arithmetic, limits | a reference definition of each |
| Items (`container.*`, `tile.*`, `game.cpp`, `player.cpp`) | contents, stacks, weights | move, split, merge, swap, add, remove, transform | partial moves, nested containers | nothing made or lost, weights right |
| Conditions (`condition.*`) | list of conditions, what they changed | add, renew, defer, tick, end, save, load | effects are taken back by differences | effects are those of the list |
| Fights (`player.cpp`, `creature.cpp`, `combat.cpp`) | attacked sets, skulls, locks, frags | attack, kill, die, log in and out, end of a fight | marks kept at several places | marks end with the fight, victims see them |
| Damage (`game.cpp`, `combat.cpp`) | one hit on its way, blocks, charges, mana | block, absorb, scripts, drain, heal | the function calls itself after a script | the hit is accounted for |
| Progress (`player.cpp`, `vocation.cpp`) | experience, level, tries, mana spent | gain, lose, die, load | scripts in the middle of an advance | levels fit, tries add up |
| Parties (`party.*`) | members, invitations, leader, sharing | invite, join, leave, pass on, disband, share | mutual raw pointers, addresses used again | pointers agree, sharing is up to date |
| Chat (`chat.*`) | channels and their users | open, close, invite, exclude, log out | channels filed under addresses | users are in the game, private is private |
| Scripts (`luascript.*`, `events.*`) | environments, userdata, temporary items, timers | run, nest, make, place, remove, collect | raw pointers held by scripts | nothing freed under a script between scripts, nothing lost |
| Event registries (`baseevents.*` and its subclasses) | events, callbacks, bits, timers | load, register, clear, reload | two halves reloaded apart | calls reach the right function |
| Decay, raids, npcs; guilds, quests, bans; other protocols, encoding | buckets, tables, bytes | timers, look-ups, parsing | | not modelled |

Startup is modelled only where `main()` gives up and shuts the threads down; the
shutdown begun by `Game::setGameState(GAME_STATE_SHUTDOWN)` appears in the
three thread modules as the actions `Stop...`, `Shutdown...`.

## The modules

| Module | Models | Uses |
|---|---|---|
| `SerialExecutor` | what the dispatcher promises: accept or refuse, take in order, complete or drop | |
| `Dispatcher` | `tasks.cpp`, `tasks.h`, `thread_holder_base.h` | implements `SerialExecutor` |
| `Scheduler` | `scheduler.cpp`, `scheduler.h` | the dispatcher as an instance of `SerialExecutor` |
| `DatabaseTasks` | `databasetasks.cpp` | |
| `WaitList` | `waitlist.cpp` | |
| `GameSession` | `connection.cpp`, `protocol.h`, `protocolgame.cpp`, `outputmessage.cpp`, and login, logout, death and check lists of `player.cpp` and `game.cpp` | |
| `Trade` | trading in `game.cpp`, `player.cpp`, `container.cpp` | |
| `Persistence` | `database.cpp`, saving and loading in `iologindata.cpp`, `iomapserialize.cpp`, logout in `player.cpp` | |
| `Houses` | `house.cpp`, `housetile.cpp`, `bed.cpp` | |
| `Creatures` | `creature.cpp`, `monster.cpp`, `spawn.cpp` and the creature part of `game.cpp` | |
| `Walking` | orders and walk events of `game.cpp`, `player.cpp`, `creature.cpp` | |
| `MonsterSteps` | `getDistanceStep`, `getDanceStep`, `getRandomStep`, `updateLookDirection` of `monster.cpp` | |
| `SightLine`, `PathSearch` | `checkSightLine`, `getPathMatching` and `AStarNodes` of `map.cpp` | |
| `CombatArea` | `AreaCombat`, `MatrixArea` of `combat.*` | |
| `WalkCache` | `localMapCache` of `creature.cpp` | |
| `Items` | moving and adding in `game.cpp`, `tile.cpp`, `container.cpp`, the inventory of `player.cpp` | |
| `Conditions` | `condition.cpp`, the condition list of `creature.cpp` | |
| `Fights` | attacks, skulls and kills of `player.cpp`, `creature.cpp`, `combat.cpp` | |
| `Damage` | `combatBlockHit`, `combatChangeHealth`, `combatChangeMana` of `game.cpp` | |
| `Progress` | experience, skills and magic level of `player.cpp` | |
| `Parties`, `Chat` | `party.cpp`, `chat.cpp` | |
| `Scripts` | the environments and bindings of `luascript.cpp`, `events.cpp` | |
| `Registries` | the registries derived from `baseevents.cpp`, reloading in `game.cpp` | |
| `MCWorld` | a sum of `MonsterSteps`, `SightLine`, `CombatArea`, `PathSearch`, `WalkCache` | |
| `MCCharacter` | a sum of `Fights`, `Conditions`, `Damage`, `Items`, `Progress`, `Walking` | |
| `MCEstate` | a sum of `Houses`, `Persistence` | |
| `MCSociety` | a sum of `WaitList`, `Parties`, `Chat`, `Scripts`, `Registries` | |
| the other `MC*` | instances for TLC | |
| `DispatcherProofs`, `SchedulerProofs`, `DatabaseTasksProofs` | theorems about the module of that name | extend it |
| `GameSessionProofs` | theorems about `GameSession` and `Creatures` | extends them |
| `EstateProofs` | theorems about `MCEstate`, so about `Houses` and `Persistence` | |
| `CharacterProofs` | theorems about `MCCharacter`, so about `Fights`, `Damage`, `Walking` and `Progress` | |
| `WorldProofs` | theorems about `Trade`, and about `MCWorld`, so about `MonsterSteps`, `SightLine`, `CombatArea`, `WalkCache` and `PathSearch` | extends `Trade` |
| `SocietyProofs` | theorems about `MCSociety`, so about `WaitList`, `Parties`, `Chat`, `Scripts` and `Registries` | |

Operators whose comment starts with "Mutant" are plausible faults of the
definition that follows them. They are part of no specification; each is
substituted for that definition to see the property it belongs to fail.

### Sums

The components below the level of threads run inside single tasks and share, in
the models, no state: `Items` does not look at a condition, `Parties` not at a
script. A product of them would multiply their states and show nothing more. A
sum module follows one of them in each behaviour: `part` (in `MCWorld`: `scene`)
names it, its `Next` is the step, and the variables of the others hold `Unused`
(`Absent`). Each property of a
sum is that of the component, under the hypothesis that it is the one followed.
Where a component does touch another, its module has the other's doing as a
nondeterministic action (a party's pointer in `Chat`, scripts in `Progress`).

### Granularity

In the thread modules a section between `lock()` and `unlock()` is one step.
The loop test of `threadState`, the wait, the wake-up (which may be spurious)
and each `notify_one()` made after the unlock are separate steps, since that is
where wake-ups can be lost. A notification wakes the thread only if it is
waiting at that moment.

In `GameSession` a task of the dispatcher is one step (that is what
`ImplementsExecutor` justifies). A network handler is two: while it is inside,
it holds the connection's lock and a reference to the connection, and the
dispatcher runs on. In the modules of the game's rules each handler is
one task, except where something else may really get in between: statements of
a save (`Persistence`), advance scripts in the middle of `addSkillAdvance`
(`Progress`), events nested by scripts (`Scripts`), the loops of the search and
of the ray, of which one turn is a step.

### How state and actions correspond to the code

*Dispatcher.* `taskList`, `threadState`, `dispatcherCycle` and `current` are the
variables of that name (`current` is the local `task`). `notifying` is the set of
threads between `unlock()` and `notify_one()`. `AddTask`/`Notify` are the two
halves of `addTask`; `TestState`, `WaitForSignal`, `TakeTask`,
`NothingToTake`, `DropExpired`, `BeginTask` and `EndTask` the places in
`threadMain`; `BeginShutdown` and `Stop` the end of `setGameState`; `Shutdown` is
`Dispatcher::shutdown`, called by `Game::shutdown` or by `main()`;
`RunTerminator` is the task it posts.

*Scheduler.* The heap is the set of its events, and any of those with the
smallest cycle may be on top. Ids are counted modulo `IdModulus` (2^32 in the
code). `AddEvent` signals if the event became the top; `PopEvent` pops after a
timeout without looking at the clock, as the code does; `HandOff` is
`addTask(task, true)`. Initially any number of events has come and gone, so
`lastEventId` is arbitrary.

*DatabaseTasks.* A runner is a thread inside `runTask()`: the worker, the
dispatcher (`flush()` from `saveGameState()`, `shutdown()` from
`Game::shutdown`) or the main thread (when no service is running). `accepted`
and `executed` are histories.

*WaitList.* Both lists, and separately what `size()` returns, because
`clientLogin` erases an iterator of `priorityWaitList` through `waitList`: with
the standard library's list the node leaves its own list and the other one's
size is decremented, modulo the width of `size_t`. Time is in units of five
seconds; `cleanupList` removes an entry only when its unsigned difference is
zero, that is in its very millisecond, so within one unit it may or may not
(`Remaining`: the increasing choices of positions that leave out no other entry).

*GameSession.* One character; `REPLACE_KICK_ON_LOGIN` on and `ALLOW_CLONES` off
(the shipped `config.lua`). A connection and its `ProtocolGame` share an
identity. A `shared_ptr` to a connection is held by the manager, a pending read,
a pending write, or the handler that runs: `Expired(c)` says nobody holds one.
Scheduled `connect()` calls are `connectEvents`; they reach the dispatcher in
front of its list. `CheckCreatures` is `Game::checkCreatures` with `cleanup()`.
`Shut` is the part of `close()` under the lock: with messages still queued and
no force it leaves the socket open, and only `WriteDone` shuts it then. The
close that a timer makes later returns at once, the state being `CLOSED` already.

*Trade.* An item's `parent` is a slot, a tile, a container or nothing. `Chain`
is what the loop of `getTopParent` passes through: the least set with the item
in it that is closed under `parent` (`Within`), and what that ends in. Positions
are numbers on a line. One "hand" stands for the slots that take anything
(hands and arrow slot with `classicEquipmentSlots`), one "back" for the
backpack slot. Weight, line of sight, scripts and everything else that may make
a query refuse is a nondeterministic choice. `Closed(ps)` are the players whose
trade ends when those in `ps` close theirs; `DisturbedByRemove` and
`DisturbedByAdd` compute `ps` from the notifications a moved item causes.
`MoveToPlayer` is `internalMoveItem` with `INDEX_WHEREEVER`: it includes the path
on which `Player::addThing` returns without adding the item.

*Persistence.* `store` are the committed rows, `staged` what the shared
connection sees, `mem` what the game holds. `Statements(k)` is the order in
which a save writes; `Execute`, `StatementFails` and `ConnectionLost` are the
three things that can become of a statement. `ConnectionLost` models
`executeQuery`: it repeats the statement until the client library has connected
again, and the server has dropped the transaction. `Ended` has the retries of
`Player::onRemoveCreature` and of `Map::save`. `CheckSave` is the `SELECT` before
a save, which may fail as well. A player changes his depot once he has opened it
(`OpenDepot`), and others at any time, by mail or as the old owner of a house
(`ReceiveItems`); only an opened one is written.

*Houses.* A player who is offline exists as rows only. `KickUninvited` is the
loop of `setAccessList`, `KickSleeper` the event that `BedItem::sleep` schedules.
`Restart` saves, loads and collects the rent.

*Creatures.* A handler is an operator from the record `World` of all creature
state to the next one, because handlers call each other; an action applies it
with `Become`. `Each` is a loop over spectators or summons, one call of a handler
for each of them; TLC takes one order, and what is proved holds for any. `Disappear`, `OnCreatureDisappear`, `LosesSight` and `Orphan` are
what the removal of a creature and its destructor do to others; `CheckCreature`
is one creature's turn in `checkCreatures`, and `Free` the release of a removed
creature that nothing owns. `CreaturesInit` is `Spawn::startup`: the monsters of
any blocks may have failed, and then no check is started. `minded` is the history of how
many monsters the spawn looks after: what startup made, and from the first check
on one for each block, since `checkSpawn` goes on until all are filled. A player
who dies leaves the game, or stays: killed in a PvP zone he drops no corpse, is
filled up and sent to the temple or left where he is (`Revive`); his target and
whom he follows stay, as only `Monster::death` clears them.

*Walking.* `pending` holds the events in the scheduler, `due` those it has handed
to the front of the dispatcher's list, which nobody can stop any more, and
`posted` the tasks of `playerAutoWalk` behind them. A handler of `game.cpp` that
is too early or too far away puts itself off with an event or a walk. The
handlers differ in when they give up what waited before, so there are three
sorts of orders: `MoveAttempt` clears it as soon as the player may act,
`UseAttempt` when it goes through, `RotateAttempt` never. Each step clears it,
too (`MoveOn`), and each swing of an attack takes its place (`Attack`,
`RunSwing`). `GoToFollow` finds a path, an empty one, or none; `AddEventWalk` has no test of the
speed, since `Player::getStepSpeed` is never below its minimum, and `SetSpeed`
takes the event away when the speed itself is 0. `stranded` is a history: the
walk event was taken away by a teleport or so since it was last set.

*MonsterSteps, SightLine, CombatArea, PathSearch, WalkCache.* The algorithms as
operators, with one action that applies them to every input of the bound
(`PathSearch` and `SightLine`: one turn of the loop). Each is compared with a
definition of what it is for, not with itself: squares blocked, distances,
areas seen from the caster, least costs, the map. An area for diagonal
directions whose list is not square is mirrored about a wrong centre, since
`copyArea` takes the rows for the columns; `SetupExtArea` does the same, and
`AreaSameAllAround` asks of such an area only that no cell is written outside its
matrix and that the right one is found again.

*Items.* The contents of a container and its stored weight, and the weight a
player carries, are updated by hand in the code, item by item; so they are here
(`content`, `totalWeight`, `inventoryWeight`). `MoveItem` has the swap of two
items (`Exchange`), the merge into a stack (`Merge`), the part that stays
behind, and the notifications (`Notify`) that bring the weights up to date.
`PickUp` is the move to the capacity window: `PlayerDestination` looks through
slots and bags and passes over the item itself. `TransformItem` is
`transformItem` of a stack into one of another count. A tile may refuse
what is put on it (`TileQueryAdd`, by a choice of its own in each move), but not
what the engine puts there by itself.

*Conditions.* What the conditions of a creature change in it is computed from
their list in the property, and by differences in the actions, as `changeSpeed`
and `setVarSkill` do. `Offers` are the conditions that are added; `Defer` and
`RunDeferred` the scheduled removals, `Relog` saving and loading. There are two
clocks: `endTime` is wall clock, and `Pass` lets it run on, while `ticks` and the
rounds of a damage count thinks (`Think`), of which there are never more
than intervals, since each call of `checkCreatures` schedules the next. `late` counts
the thinks missed. `DamageDone` asks that the rounds left are worth what is owed
as long as not more than one think is missed (`Hurried`), and that no more than
that is ever done, but by a field under the player, which repeats a round. A
condition that is shortened (`CutShort`, when an item that removes it is used
early) counts as hurried. One whose `doDamage` fails does not start: the code
drops it.

*Fights.* `attacked` (the code's `attackedSet`), `skull`, `pzLocked` and `inFight`
(the `INFIGHT` condition) are kept apart as in `Player`. `shown` is what each
client was told.

*Damage.* A `hit` passes the stages of `combatBlockHit` and
`combatChangeHealth`; `scripts` says at which of them an event is registered,
and a script may change the hit in any way within `MaxHit`.

*Progress.* `calls` is the stack of `addSkillAdvance`, `addManaSpent` and
`addExperience` calls that advance scripts have interrupted.

*Parties.* A `Party` is an address of `Addresses` and may be allocated again. A
pointer that is left behind shows as a player or an invitation that names a
party which does not know him.

*Chat.* `SetParty` changes `partyOf` as `Parties` does, without telling the
channel.

*Scripts.* `envIndex` is `scriptEnvIndex`, `running` the userdata of each nested
script, `where` the place of an item or creature, `toRelease` the lists of
`Game::cleanup`. What bindings hand out is kept as sets of classes (`...Gives`,
`...Lists`, `...Makes` and so on), one for each stretch of bindings in
`luascript.cpp` with userdata to return; stretches that return values only have
none. Getters and setters alternate there. What a setter changes is not kept,
but for what it can do to objects that scripts hold, and that is an action of its
own, open to a script at any time: `RunScript` (another event), `RemoveThing`,
and `StepInScript` (a step at once, with the cleanup at its end). An item or
creature freed by a cleanup with no script running is "freed"; one freed
inside a script is "lost", and how that script goes on is not followed.

*Registries.* One kind of registry in each behaviour (`kind`; `registryKind` in
the sum). `home` is the table an event's callback belongs to, `live` whether its
number is still valid there; `book` is the registry, `task` the load in
progress, `strays` the events that no registry holds any more.

## What TLC checks

All runs explore the whole state space of their instance.

| Run | Instance | States | Checks |
|---|---|---|---|
| `dispatcher` | two clients and the dispatcher itself; three tasks, one expiring, and the shutdown task | 5 553 | `NoLostWakeup`, `OwnedOnce`, `NothingStranded`, liveness `WorkEnds` (accepted tasks end, the shutdown ends), refinement `ImplementsExecutor` |
| `scheduler` | two events, two callers, delays 1 and 2, clock to 3, ids modulo 3 | 505 744 | `EventsTracked` (ids lead to what is pending, what was stopped never runs), `NeverEarly`, `NeverOversleeps`, liveness `EventsRun` |
| `database_tasks` | three queries, one with callback, worker, dispatcher, main and a network thread | 25 353 | `QueueSound` (no lost wake-up, executed once, overtaken only in hand, shutdown loses nothing), `QueriesServed` (a flush drains, accepted queries end) |
| `game_session` | two connections, two `Player` objects | 226 016 | `ReferencesAgree` (counts are exact, a protocol is the client of its player), `ReaderSafe`, `AutosendServed`, liveness `ClosedConnectionsGo` (released, and gone once the socket is shut) |
| `trade` | three players, two containers and a stack, three spots at distances 1, 2 and 3 | 217 866 | `OffersSound` (partners agree, offers registered and disjoint), `OffersAsShown` |
| `creatures` | a player, two monsters, a hall, a loft that sees it and a place out of sight, one spawn block | 504 736 | `TargetsPresent`, `SummonsAgree`, `ChecksServed` |
| `estate` | houses: two players, one item, one warning; persistence: two players (one not to be saved), the houses, one change, three faults | 4 328 685 | `HouseholdAgrees`, `NoDuplicates`; `SavesIsolated`, `LogoutDurable` |
| `world` | offsets to 3; squares of side 5 and 3; paths in a 3 by 3 field; a cache of 3 by 3 | 1 157 321 | `StepsFit`, `RayStaysOnLine`, `AreaSameAllAround`, `PathShortest`, `CacheAgrees` |
| `character` | two players in fights; conditions of two ids; hits to 2; four coins of weight and two bags; three levels; walks of two steps and two orders (up to exchanging the orders) | 624 701 | `MarksAgree`, `OrdersAgree`, `ConditionsAccounted`, `HitAccounted`, `ItemsAccounted`, `ProgressAccounted` |
| `society` | two seats and five players; three friends and two party addresses; scripts with two items, a monster and a condition; two event keys | 1 564 910 | `PlacesKept`, `PartiesAgree`, `ChannelsLive`, `ObjectsSound`, `RegistriesAgree` |

All explore their state space to the end. The names in a module that a combined
property consists of (`OrdersAgree == OrderOnce /\ ...`) each have their own
comment in the module; `TypeOK` is part of the first one where it says
something about the code: ids are never 0, sizes wrap, counts never go below
zero.

### Disagreements between the code and what it says

Two are shown by runs that expect a violation:

* `game_session_leak`: `connect()` takes an expired connection as the sign that
  `release()` has run. A closed connection stays alive while an operation or a
  handler holds it. If `release()` and then the scheduled `connect()` run in
  that window, the player is attached to a released protocol and never
  detached. The window is short: the connection has to be held until the
  `connect` event runs.
* `trade_swap`: when the only room is inside the container that is being
  offered, the tests of `playerAcceptTrade` pass, the move finds no place, and
  `internalMoveItem` reports success for an item that was added nowhere.

The others are stated in their modules as properties that no run lists, since
TLC finds each of them violated, or as exceptions of properties that hold with
them:

| Property | What the code does |
|---|---|
| `ShutdownEnds` of `Scheduler` and of `DatabaseTasks` | both `shutdown()` functions notify without the lock. A thread that has tested its state and not yet begun to wait misses the notification and sleeps for ever; `main()` hangs in `join()`. `Dispatcher::shutdown`, which notifies under the lock and posts a task, ends |
| `NoStaleEntries` of `WaitList` | entries past their timeout are kept, against the comment in `getTimeout`, because the difference is unsigned (`waitlist.cpp:49`) |
| `ItemsReachDepot` of `Houses` | "send items to depot" (`house.cpp:58`): for an owner who is offline `transferToDepot` fills a copy whose `lastDepotId` is -1, so `savePlayer` does not write the depot (`iologindata.cpp:781`) and the goods are gone |
| `CacheUpdated` of `WalkCache` | `getDistanceY` is never negative, so a diagonal step to the south skips the first row instead of the last (`creature.cpp:525`, `548`): the row just read is shifted once more, and the northern row not at all |
| `NothingDropped` of `Items` | "send items to depot" again: a locker that holds more than its size gets the rest of a stack at an index past its size, where `Container::addThing` adds nothing. And an item dropped on the capacity window by a player without room: `queryAdd` of index 0 forgets its `RETURNVALUE_NOTENOUGHROOM` (`player.cpp:2330`, `2349`), and `addThing` returns without adding (`player.cpp:2593`) |
| `LogoutDurable` without its exception for depots | a depot that was not opened is not written (`iologindata.cpp:781`), also when mail (`mailbox.cpp:104`) or the goods of a house (`house.cpp:221`) came into it since: they are gone with the logout |
| `ClosedConnectionsGo` without its exception for open sockets | "will be closed by the destructor or onWriteOperation" (`connection.cpp:83`): with a peer that takes no more data neither comes, and the close of the write timer returns at once (`connection.cpp:70`). The write keeps the connection for ever |
| `HandlesAlive` of `Scripts` without its exception | a script that makes a creature take its first step at once (`creature.cpp:276`) runs `Game::cleanup` (`game.cpp:3334`), which frees what the script removed before and still holds; `resetEnv` then reads a temporary item that was freed |
| `SpawnChecked` for all blocks | `Spawn::startup` ignores a `spawnMonster` that fails (`spawn.cpp:209`) and starts no check: the block stays empty until some other monster of the spawn goes |
| `MostDamageJudged` of `Fights` | the loop of `onDeath` removes the victim from every attacker's `attackedSet` before the most-damage killer is judged (`creature.cpp:640` and `666`) |
| `EnvIndexInRange` of `Scripts` | a failed `reserveScriptEnv` has already counted up, and not every caller resets; with sixteen nested events `getScriptEnv` is past its array, against its assertion (`luascript.h:223`) |
| `EventsServed`, `LoginEventsLoaded` of `Registries` | a reload of the scripts stops the timers of all global events, and only a newly registered event starts one (`globalevent.cpp:54`, `game.cpp:4953`); `playerLogin` also fires events that were cleared and not registered again (`creatureevent.cpp:122`) |
| `PartyTalkPrivate` of `Chat` | `Party` sets a player's party to null before `sendClosePrivate(CHANNEL_PARTY)` looks for the channel through that pointer (`party.cpp:45`, `110`): a former member stays a user of the channel |

### Bounds, and why they are enough

* `MaxTime`, `Delays` (scheduler): the clock has to pass the later of two
  deadlines, with an event added in front of and behind a pending one.
* `IdModulus = 3` with two events makes ids wrap in every run, with the largest
  number of pending events that the assumption allows.
* Three queries: one in the worker's hand, one in a flusher's, one queued.
* `SizeModulus = 8` exceeds every length that occurs, so a wrapped size shows;
  `MaxTime = 5` (login queue) passes every timeout.
* `MaxTasks = 2` bounds only the packets a client may have queued; tasks of the
  server itself are not bounded.
* Two connections: one replaced, one replacing. Two `Player` objects: one
  removed but not yet freed, and one newly loaded. A third login of a removed
  character waits for an object, which cuts the model off there.
* Three players trade: two partners and a third who interferes or trades with
  one of them. Two containers and `Capacity = 1` give nesting and full
  inventories. `PlayerSymmetry` and `Interchangeable` permute players,
  monsters or orders, which no definition tells apart.
* `MaxFaults = 3` lets all three tries of a logout fail, or a crash follow two
  failures; with `MaxVersion = 1` memory and rows differ once, in every table.
* `MaxWarnings = 1`: a warning, and then the house is lost.
* Two monsters: one the master of the other, or rivals for a spawn block.
* `MaxRoute = 2`, `MaxPosted = 1`: a walk with a step to come, while a task is
  in the dispatcher's queue; two orders, of which one replaces the other.
* `StepReach = 3` and `TargetDistance = 4`: all signs and orders of the offsets,
  at, above and below the distance; `RaySize = 5`: rays of every octant and slope
  up to five squares; `MaxSide = 3`: odd and even sides with every center.
* `Width = 2` and `MaxNodes = 8`, `MaxClosed = 6`: nine squares, so both limits
  are reached; `Hindered` makes one square dear. `CacheReach = 1`, `Edge = 2`,
  `Objects = 2`: the cache is as large as the map or looks past its edge.
* `MaxHits`, `MaxFrags`, `KillsToRed = 1`, `KillsToBlack = 2`: each skull is
  reached and runs off again.
* `MaxTicks`, `MaxPower`, `Amounts`, `MaxDeferred`, `MaxFields`: a condition runs
  out, is renewed by a weaker and by a stronger one, and is deferred once.
  `Hurried = 2` thinks late is enough for a round to be lost.
* `MaxHealth`, `MaxMana`, `MaxDamage`, `MaxCharges`: hits below, at and above
  what is left, with the shield used up in the middle.
* `MaxStack = 2`, `MCSize`, `CarryLimit = 4`, `Supply = 3`: full stacks, full
  containers and a player who cannot carry more.
* `MCExp`, `MCReq`, `Gains`, `MaxGained = 6`, `MaxCalls = 2`: gains that pass one
  and several levels, the top, and a script that trains once more.
* Three friends and two addresses: a party whose address is used again by
  another while the third player still may point to it.
* `MaxEnv`, `MaxNesting`, `MaxHeld`, `MaxTimers`, `MaxResults` (scripts): nesting
  up to the last environment, two handles on one object, one timer.
* `MaxPerKey = 2`, `MaxStrays = 1` (registries): two move events under one item,
  and a timer that outlives its registry.

`CHECK_DEADLOCK FALSE` is set where the system may come to rest: all tasks
posted and executed, the server shut down, all connections used, all players
gone, an algorithm done. In a sum some components come to rest and others do
not, so it is set there too. The creatures never come to rest, and deadlock is
checked there.

### Fairness

Threads are scheduled and tasks return: weak fairness of each thread's steps and
of each pending `notify_one()`. Nothing forces a spurious wake-up, a new task or
event, or the begin of a shutdown. In `Scheduler` time passes and a shutdown
that was begun is carried through by the dispatcher. In `DatabaseTasks` the
database answers: `Database` retries a lost connection every second. In
`GameSession` the dispatcher gets a connection's lock eventually (strong
fairness: the network thread takes and releases it again and again), and an
operation on a socket that was shut completes, with an error: asio ends what is
pending on it. Nothing is asked of an operation on an open socket, whether the
connection is `OPEN` or closed and draining: the peer owes nothing, and the timers end
such an operation only while the connection is `OPEN`. The
other modules state no fairness: players need not do anything, and what must
not be forgotten is stated as an invariant (it is on the list or has the event
that will serve it).

## What is proved

TLAPS checks the following for every value of the constants that satisfies the
module's `ASSUME`. The assumptions are that special values are none of the
ordinary ones (`NoQuery`, `None`, `NoPlayer`, no party at a null address in
`PartiesAssumption`, an item that is also a place, in `PlacesAssumption`), that
objects of two kinds are not the same (`ScriptsAssumption`), what a map is like
(`CreaturesAssumption`: what is on one floor is in sight, a place is on the floor
of itself, spawn blocks and the temple have places; creatures and blocks are
finitely many, and players are not monsters), that constants which
are numbers are natural numbers (`DamageAssumption`, `SaversAssumption`,
`WaitListAssumption`, `WorldAssumption`, `ProgressAssumption`, which also has that
every level of a skill takes some tries and the first level no experience, and
`WalkingAssumption`, which also has that an order is not "none"), and two about sizes: connections are finitely many,
and there are fewer events than ids. TLC evaluates each of them.

Threads:

* `DispatcherProofs`: `TypeCorrect`, `WakeupNeverLost`, `TasksOwnedOnce`,
  `NoTaskStranded`, `ImplementsExecutorSafely`. `NoLostWakeup` is inductive
  together with the types: the thread goes to sleep only on an empty list, and
  only `addTask` on an empty list makes it non-empty, which puts the caller into
  `notifying`; each notification that leaves `notifying` also ends the wait. The
  others need `IInv`: which places in `threadMain` have a task in hand
  (`HandMatchesPc`), that the list has no duplicates and agrees with the status
  of each task (`OwnedOnce`), that the dispatcher is stopped only after
  `Game::shutdown` was posted (`StopFollowsPost`), and that after an orderly stop
  nothing is ever behind the terminating task (`TerminatorLast`). The last one is
  what `NothingStranded` rests on and is not visible in it. The refinement is
  proved step by step: every action is, under the mapping of
  `ImplementsExecutor`, an action of `SerialExecutor` or a stutter.
* `SchedulerProofs`: `TypeCorrect`, `SchedulerNeverOversleeps`,
  `SchedulerNeverEarly`, `IdsNameEvents`. `NeverEarly` is not inductive: the code
  pops the top without looking at the clock. `TimeInv` adds that the event whose
  cycle is the deadline is still in the heap, or the heap has been cleared and
  takes nothing more (`DeadlineHasEvent`); that a timeout means the deadline has
  passed (`TimeoutIsPast`), so that the top, due no later than the deadline's
  event, is due; that an event not yet added is nowhere (`FreshUntilAdded`); and
  that the dispatcher has only what it was handed (`HandedOver`).
  `IdsNameEvents` needs `IdInv`: the ids given out are the last ones that
  `lastEventId` passed, as many as events were added (`IdsDistinct`). With fewer
  events than ids the counter cannot come round to one of them, wherever it
  stands at the begin. What the assumption excludes is an event that is pending
  while 2^32 - 1 others are added; it would share its id with another.
* `DatabaseTasksProofs`: `QueueIsSound`, and `FlushLeavesNothing`, the action
  property `FlushDrains` (half of `QueriesServed`). The list is always the end of
  `accepted`; what is before it has been taken, and is executed or in exactly one
  runner's hand (`QueriesTracked`). A flush and the worker on the same list
  change the order in which hands are emptied and nothing else. After a
  shutdown the thread that began it is inside its flush until the list has been
  found empty, and the worker leaves only afterwards (`ShutdownFlushes`).
* `GameSessionProofs`: `SessionsAgree`, `ReaderNeverDangles`, `AutosendKept`.
  Counting references is exact because a protocol is attached at most once: a
  connection sends one login, which becomes at most one connect event, and until
  that has run nobody sets `ProtocolGame::player` (`AttachedOnce`). The rest is
  the order of the dispatcher's list (`ListInOrder`): `close()` posts `release()`
  in the step that ends `OPEN`, behind the login, and connect events, which go in
  front, do not touch the autosend list. `PlayersCounted` has the counts, and that
  each client is that of its player; `ReaderSafe` follows, since a connection that is open
  has not posted its release.

Rules of the game:

* `GameSessionProofs` has those of `Creatures` as well: `TargetsStayPresent`,
  `SummonsAlwaysAgree`, `ChecksAlwaysServed`, for any number of creatures, places
  and blocks, by way of one invariant, `Good` (`WorldAlwaysGood`). What a creature
  in the game attacks or follows is in the game and on its floor (`Fits`: being
  in the game is not inductive, since who is removed tells only those in sight of
  it). Masters and summons point at each other, and a monster's summon has none of its
  own (`Kin`); the master of one in the game is in the game (`Present`); an object
  not made, or freed, points nowhere and has no summons (`Fresh`); who is dead or
  awake is in a list that is gone through (`Visited`), and a spawn with fewer
  monsters than it minds has an event (`Counted`), whichever blocks failed at
  startup. Handlers call each other, and in the middle of one
  the invariant does not hold of the creature that it is about. So each has a lemma
  on what it may do to the world: `Drops`, creatures let go of targets, wake or go
  idle; `Turns`, and take others on their floor; `Passes`, and one creature leaves
  the game; `Leaves`, and those left behind on a move do. These relations are
  transitive, so a loop over spectators or summons has that of its one step, by
  induction on the set that it goes over (`OneByOne`, from `WFMin`).
* `WorldProofs`: `OffersAlwaysSound`, `OffersStayAsShown`. While a trade is open,
  nothing that the offered item is in, and nothing that is in it, changes its
  place without ending the trade. `OffersAsShown` is not inductive without
  `OffersWithOwner`: an item on offer is carried by its owner or lies on the
  ground, never carried by somebody else. So the two that are told of a removal
  (who carries the item, and who stands next to it) are enough. The lemmas before
  the theorems are about `Chain` when one parent changes; they hold for
  containers nested to any depth, also in a circle, since a least closed set
  needs no recursion.
  Then the algorithms of `MCWorld`, for any reach, ray and area.
  `CacheAlwaysAgrees`: a step shifts the cache's rows and columns, and square by
  square what is shifted in is what the map has there (`StepMoves`); the one case
  that fails is the step excluded, a diagonal one to the south. `RayAlwaysOnLine`:
  with `a` and `b` squares to go down and across, of which `v` and `u` are left,
  the line says `n = a*u - b*v` of a square. A turn of the loop (`Turn`) changes
  `n` by `b`, `-a` or both, whichever leaves it nearest to 0, and always shortens
  the longer way; where both are equal it stays at 0. So there are no more turns
  than squares on the longer way. `StepsAlwaysFit`: a monster takes the first set
  of squares in its order of preference that has an open one (`FirstOpenIs`), and
  only the last set of one that flees gets nearer (`EscapeIs`); that a set has a
  first is `LeastOf`, again from `WFMin`. `AreasAlwaysSame`: turning a matrix
  turns the squares that it hits (`RotateHits`, `MirrorHits`, `FlipHits`), which
  seen from the caster are the same again, or the mirror image, as the code has
  it, for northeast and southwest.
  `PathAlwaysShortest` has two halves of an invariant (`SearchInv`). `Tree`: a
  square has one node, a node's parent is closed, its costs are its parent's and
  the step's, and no open node is cheaper than a closed one. `Closure`: each way
  on from a closed node leads to a square that is blocked or has a node no
  dearer. The code does not look at eight squares around a node but at five
  (`Neighbors`), those not on the parent's side; `FewAreEnough` shows that each
  of the other three is the parent or next to the parent by a step, which
  comes to it no dearer. When the search stops, the best square found is exact
  or no square that fits is left open; that the trail from it comes to the start
  is a pigeonhole argument, since the costs fall from node to node.
* `EstateProofs`: `TransactionsIsolated`, `LogoutsDurable`, for any number of
  players, changes and faults. Until `COMMIT` the shared connection differs from
  what is stored in the rows of one save only (`OnlyJobStaged`), and there, table
  by table, it holds what the last statement on the table left
  (`ProgressTracked`). At `COMMIT` no table is behind; that of a
  depot not opened is left out, and excepted. And `HouseholdKept`, `GoodsNeverDoubled`:
  `NoDuplicates` counts; the invariant says instead, place by place, that no two
  of them have the item (`PlacedOnce`), and needs one fact more: the locker of a
  player who has not used a depot holds at least what the rows hold
  (`UnusedDepotKept`). So the rows that such a save does not write bring nothing
  back.
* `CharacterProofs`: `MarksAlwaysAgree`, `HitsAccounted`, `OrdersAlwaysAgree` and
  `ProgressAlwaysAccounted`. The first passes `Marks`, one record, through the handlers: each keeps `Seen` (everybody is shown
  a skull on a player who has one or has attacked him, and nobody has attacked
  himself), and those that end a task settle it, with `FightOver` as well. The
  second follows one hit through its stages: `Books` says at each what was taken
  and what is left of the hit, which together stay within what blocks and scripts
  allowed, though a script may call `combatChangeHealth` again.
  The third passes the record of a walk through the handlers. `WalkInv` says that
  the three ids are different and name every pending event of their kind
  (`Stoppable`), so `stopEvent` never stops another's; that an order done, or put
  off to the end of a walk, is in no event (`Single`); and that the walk event which
  the player knows of is pending or has just been fired (`Expected`, `Expecting`). What
  waits for a walk has one that the player knows of, or was stranded (`Served`).
  A swing in the place of an order is none of the client's (`ClientOrders`), and
  may come any number of times. Events of each kind have fired at most once, so six ids
  are known at most, and the model's `FreshId` always finds another.
  The fourth keeps books (`Ledger`) for a player's skill and magic: what was
  gained and not lost is what the levels took (`Reach`), and the tries towards the
  next one, and what the calls under way have still to add (`Pends`), without what
  a death has still to take. Advance scripts run in the middle of `addSkillAdvance`
  and may train the player again; so only the innermost call can be outside a
  script, and there `next` is still what the next level needs (a stale one would
  give levels away). Tries are fewer than the next level needs except in the
  middle of a death, when the lost level's whole need is put back first (`Fits`).
  The level is where the loops over the levels stop (`LevelUpFits`,
  `LevelDownFits`), for any table that begins with 0.
* `SocietyProofs`: `ChannelsStayLive` (inductive with its types),
  `PartiesStayInStep`, `RegistriesStayInStep`, `PlacesAlwaysKept` and
  `ObjectsAlwaysSound`. `PartiesAgree` is inductive with
  its types (`GroupInv`). Every command changes one party (`OneChanged`) or ends
  one (`OneEnded`), and is right about the rest because nobody is in two. Only a logout
  touches many parties: they are those that invited the player, and each that then
  has nobody but its leader goes, with its own people and no others
  (`InvitationsCleared`). What is in force of shared experience depends on members,
  places and ticks, so a step is right if it computes it again or changes none of them.
  For the registries, a clear of either half may be followed by a load, by
  another clear, or by nothing. `Follows` is what all of them keep: every list
  that a creature points to still begins with an event of the same type.
  `LeftBy` says what is between `clear()` and `reInitState`: nothing loaded of
  the half that was cleared, so the numbers that die with the table belong to
  nobody. `TimersKept` adds to `FreshServed` that a timer is spent only while
  the server runs: an event registered while scripts load finds its timer
  waiting, on its way, or never started. What a clear leaves of a list is a
  recursive function over the list; `AmongOK` is an induction by hand, from
  `WFMin` of the library, which has no operator parameter.
  For the login queue, a login ends in one of four ways (`Entered`,
  `EnteredBehind`, `WaitsOn`, `Enlisted`), each on what `cleanupList` leaves of the
  lists. That is an increasing map of positions (`Thinned`), so those that remain
  keep their order and only move forward; `QueueInv` has that a player has one
  place, in the list of his kind.
  For the scripts, `LuaInv` says what a handle may point to (`Fine`): not to a
  object freed between scripts, and to an item without a place only while it is kept for the
  handle's environment; and that such an item is kept for exactly one
  environment in use, or is released (`Placed`). `ObjectsAlwaysSound` has a hypothesis,
  `MaxNesting <= MaxEnv`: with deeper nesting the index of the environments no
  longer says which script runs. That is the disagreement `EnvIndexInRange` of
  the table above.

Left to TLC, because the prover cannot: liveness, and with it the fairness of
`ImplementsExecutor` and the half `AcceptedQueriesEnd` of `QueriesServed`
(no rules for `ENABLED`); and what `Items` and `Conditions` add up over bags and
lists with folds, which take an operator as a parameter. These are
`ItemsAccounted` and `ConditionsAccounted`.

## What is not modelled

* In `Scheduler`: a clock that is set back; a caller that keeps an id after its
  event ran, until the id is given to another event.
* In `GameSession`: the flag `isConnecting` (set when `connect()` is scheduled
  and not cleared when it gives up), `closeAll()` at shutdown, more than one
  character, packets other than logout.
* In `Trade`: items that change in place (decay, transform), merging of stacks in
  ordinary moves, the limit of 100 items, house transfer documents, floors.
* In `Persistence`: queries that are not part of a save, `updateOnlineStatus`, the
  schema, guild and market tables.
* Between `Persistence` and `Houses`: a crash between the transaction of a player
  and that of the houses. The one has crashes but no items, the other items and
  an orderly save before each restart.
* In `Houses`: door lists, the text and the parsing of access lists, more than
  one house, items that cannot be picked up.
* In `Creatures`: spells, npcs, raids; a creature on several floors; reference
  counts (which lists own a creature is kept instead).
* In `Walking`: what an order does when it gets through, and the map: a step may
  succeed or fail.
* In `PathSearch` and `SightLine`: several floors; in `CombatArea`: rounding of
  sines and cosines, which are of multiples of 90 degrees; in `WalkCache`: changes
  of what `queryAdd` answers that come without an event of the tile.
* In `Items`: `transformItem` into another kind of item, decay, mail to others, teleports and trash holders, item types with
  attributes of their own.
* In `Conditions`: damage without end (rounds -1, as fields with `periodic` have
  it), and a clock that is set.
* In `Conditions`, `Damage`, `Progress`: the formulas. They are small tables or
  any number within a bound.
* In `Fights`: guild wars, blessings, what a death drops, a player who leaves the
  game in a fight without dying.
* In `Chat`: who may talk (`canJoin`, `onSpeak` are scripts).
* In `Scripts`: what a binding reads, and what it changes but for the actions
  named above; how a script goes on with an object freed under it; `/reload`
  from a script that runs (`Registries`).
  Scripts that keep userdata in globals, against the engine's rules, are left
  out.
* The components marked `not_modelled` in `PROJECT.json`, with the reasons there.

## Plan

1. Done: the thread modules with their proofs, login queue, sessions and trade;
   then persistence, houses, creatures, walking, maps and paths, items,
   conditions, fights, damage, progress, parties, chat, scripts and registries.
2. Done, proofs: the safety of every thread module, of sessions, trade, saves,
   houses, creatures, marks, hits and walks, of channels, parties and registries, of
   the login queue and of scripts, of experience and skills, and of the algorithms
   of `MCWorld`. Next: `ItemsAccounted` and `ConditionsAccounted`, with their sums
   written as recursive functions, as `Reach` in `Progress` is.
3. Next, models: the decay buckets with the references they hold, raids, and item
   updates in `Trade`; the composition of `Parties` and `Chat` on one pointer.
