----------------------------- MODULE Registries -----------------------------
(***************************************************************************)
(* The registries of scripted events: actions, talk actions, creature      *)
(* events, global events, move events, spells and weapons.  Each is filled *)
(* twice, from its XML file (scripts of its own interface) and by the      *)
(* scripts of the Scripts interface, and each half is cleared and loaded   *)
(* again on its own (Game::reload).  The registries share no state, so one *)
(* behaviour follows one of them (`kind').                                 *)
(*                                                                         *)
(* An event's callback is a number in the table of its interface (`home'). *)
(* reInitState throws the table away, so every number handed out before it *)
(* is dead (`live').  `fromLua' is the flag that clear() goes by.          *)
(***************************************************************************)
EXTENDS Naturals, Sequences, SequencesExt, FiniteSets

CONSTANTS Keys,       \* item ids, words or names
          NoKey,      \* item id 0, the empty string
          MaxPerKey,  \* bound: move events under one key
          MaxStrays   \* bound: timer tasks whose id is forgotten

VARIABLES kind,       \* the registry that is followed
          phase,      \* "start", "loading" (scripts are being loaded), "running"
          book,       \* key -> its events, the one that is found first in front
          made,       \* the userdata a script is configuring, if any
          list, bits, \* a creature's eventsList and scriptEventsBitField
          task,       \* GlobalEvents::thinkEventId, timerEventId
          strays      \* tasks still scheduled that no id remembers

vars == <<kind, phase, book, made, list, bits, task, strays>>

Kinds == {"action", "talk", "creature", "global", "move", "spell", "weapon"}
Slots == Keys \cup {NoKey}
NotMade == [keys |-> <<>>, type |-> "none", home |-> "none", scripted |-> FALSE]
Timers == {"think", "timer"}

\* The event types that the registry tells apart ("login" stands for the types
\* that CreatureEvents fires for every player, "death" for the others).
CreatureTypes == {"login", "death"}
GlobalTypes == {"think", "timer", "server"}

TypesOf(k) ==
    CASE k = "creature" -> CreatureTypes
      [] k = "global"   -> GlobalTypes
      [] OTHER          -> {"use"}

Event(type, fromLua, home) ==
    [type |-> type, fromLua |-> fromLua, home |-> home, live |-> TRUE,
     loaded |-> TRUE, fresh |-> TRUE]

-----------------------------------------------------------------------------
\* Registering one event under one key.

Emplace(events, e) == IF events = <<>> THEN <<e>> ELSE events

RegisterAction(events, e) == Emplace(events, e)
RegisterTalkAction(events, e) == Emplace(events, e)
RegisterSpell(events, e) == Emplace(events, e)
RegisterWeapon(events, e) == Emplace(events, e)
RegisterLuaWeapon(events, e) == <<e>>

AddMoveEvent(events, e) == IF Len(events) < MaxPerKey THEN Append(events, e) ELSE events
RegisterMoveEvent(events, e) == AddMoveEvent(events, e)

\* An event that was cleared is filled again; its flag fromLua stays.
CopyEvent(old, e) ==
    [old EXCEPT !.home = e.home, !.live = TRUE, !.loaded = TRUE, !.fresh = TRUE]

RegisterCreatureEvent(events, e) ==
    IF events = <<>> THEN <<e>>
    ELSE IF ~events[1].loaded /\ events[1].type = e.type
         THEN <<CopyEvent(events[1], e)>>
         ELSE events

\* Three maps: the same name may be in each of them once.
RegisterGlobalEvent(events, e) ==
    IF \E i \in DOMAIN events : events[i].type = e.type
    THEN events ELSE Append(events, e)

Register(events, e) ==
    CASE kind = "action"   -> RegisterAction(events, e)
      [] kind = "talk"     -> RegisterTalkAction(events, e)
      [] kind = "creature" -> RegisterCreatureEvent(events, e)
      [] kind = "global"   -> RegisterGlobalEvent(events, e)
      [] kind = "move"     -> RegisterMoveEvent(events, e)
      [] kind = "spell"    -> RegisterSpell(events, e)
      [] kind = "weapon"   -> RegisterWeapon(events, e)

\* The timer of a map starts with its first event, unless it has an id already.
Started(t, added) == [x \in Timers |-> IF t[x] = "none" /\ x \in added
                                       THEN "waiting" ELSE t[x]]

-----------------------------------------------------------------------------
\* Clearing one half of a registry.

\* The events of a list that are in S, in their order.
Among(events, S) ==
    LET kept[i \in 0 .. Len(events)] ==
          IF i = 0 THEN <<>>
          ELSE IF events[i] \in S THEN Append(kept[i - 1], events[i]) ELSE kept[i - 1]
    IN kept[Len(events)]

Staying(events, fromLua) == Among(events, {e \in ToSet(events) : e.fromLua # fromLua})

ClearActions(b, fromLua) == [n \in Slots |-> Staying(b[n], fromLua)]
ClearTalkActions(b, fromLua) == [n \in Slots |-> Staying(b[n], fromLua)]
ClearSpells(b, fromLua) == [n \in Slots |-> Staying(b[n], fromLua)]
ClearWeapons(b, fromLua) == [n \in Slots |-> Staying(b[n], fromLua)]
ClearMoveEvents(b, fromLua) == [n \in Slots |-> Staying(b[n], fromLua)]

\* Mutant: clearing leaves the creature events marked as loaded.
ClearCreatureEventsLoaded(b, fromLua) == b

\* Creatures keep pointers to creature events: they are emptied, never erased.
ClearCreatureEvents(b, fromLua) ==
    [n \in Slots |-> [i \in DOMAIN b[n] |->
        IF b[n][i].fromLua = fromLua
        THEN [b[n][i] EXCEPT !.loaded = FALSE, !.live = FALSE, !.home = "none"]
        ELSE b[n][i]]]

Quiet(events) == [i \in DOMAIN events |-> [events[i] EXCEPT !.fresh = FALSE]]

ClearGlobalEvents(b, fromLua) == [n \in Slots |-> Quiet(Staying(b[n], fromLua))]

\* stopEvent takes the event out of the scheduler unless it was handed to the
\* dispatcher already; the id is forgotten either way.
StopTimers(t) == [x \in Timers |-> "none"]

Forgotten(t, x) == IF t[x] = "handed" THEN 1 ELSE 0

\* reInitState: a new table for the scripts of the registry's own interface.
Lapsed(e) == IF e.home = "own" THEN [e EXCEPT !.live = FALSE] ELSE e

ReInitState(b, fromLua) ==
    IF fromLua THEN b
    ELSE [n \in Slots |-> LET events == b[n]
                           IN  [i \in DOMAIN events |-> Lapsed(events[i])]]

Cleared(b, fromLua) ==
    ReInitState(
        CASE kind = "action"   -> ClearActions(b, fromLua)
          [] kind = "talk"     -> ClearTalkActions(b, fromLua)
          [] kind = "creature" -> ClearCreatureEvents(b, fromLua)
          [] kind = "global"   -> ClearGlobalEvents(b, fromLua)
          [] kind = "move"     -> ClearMoveEvents(b, fromLua)
          [] kind = "spell"    -> ClearSpells(b, fromLua)
          [] kind = "weapon"   -> ClearWeapons(b, fromLua),
        fromLua)

-----------------------------------------------------------------------------
\* Loading the XML half: the nodes that configure and load, one for each key.

LoadFromXml(b, nodes) ==
    [n \in Slots |-> IF n \in DOMAIN nodes
                     THEN Register(b[n], Event(nodes[n], FALSE, "own")) ELSE b[n]]

\* Item types without a weapon get one (it has no script).
LoadDefaults(b, armed) ==
    [n \in Slots |-> IF kind = "weapon" /\ n \in armed
                     THEN Emplace(b[n], Event("use", FALSE, "none")) ELSE b[n]]

AddedTypes(b) ==
    UNION {{b[n][i].type : i \in {j \in DOMAIN b[n] : b[n][j].fresh}} : n \in Slots}

\* BaseEvents::reload of the registry, and what Game::reload does after it.
ReloadedBook(nodes, armed) ==
    LoadDefaults(LoadFromXml(Cleared(book, FALSE), nodes), armed)

GlobalsOnly(t) == IF kind = "global" THEN t ELSE task

Nodes == UNION {[ns -> TypesOf(kind)] : ns \in SUBSET Keys}

StraysStay == \A x \in Timers : strays[x] + Forgotten(task, x) <= MaxStrays

Stray == strays' = [x \in Timers |-> strays[x] + Forgotten(task, x)]

Startup(nodes, armed) ==
    /\ phase = "start"
    /\ book' = LoadDefaults(LoadFromXml(book, nodes), armed)
    /\ task' = GlobalsOnly(Started(task, AddedTypes(book')))
    /\ phase' = "loading"
    /\ UNCHANGED <<kind, made, list, bits, strays>>

ReloadXml(nodes, armed) ==
    /\ phase = "running" /\ StraysStay
    /\ book' = ReloadedBook(nodes, armed)
    /\ task' = GlobalsOnly(Started(StopTimers(task), AddedTypes(book')))
    /\ Stray
    /\ UNCHANGED <<kind, phase, made, list, bits>>

ReloadScripts(armed) ==
    /\ phase = "running" /\ StraysStay
    /\ book' = LoadDefaults(Cleared(book, TRUE), armed)
    /\ task' = GlobalsOnly(StopTimers(task))
    /\ Stray
    /\ phase' = "loading" /\ made' = NotMade
    /\ UNCHANGED <<kind, list, bits>>

\* Everything: the XML half is loaded, then the other half is cleared, which
\* stops the timers that the XML half has just started.
ReloadAll(nodes, armed) ==
    /\ phase = "running" /\ StraysStay
    /\ book' = LoadDefaults(Cleared(LoadFromXml(Cleared(book, FALSE), nodes), TRUE), armed)
    /\ task' = GlobalsOnly(StopTimers(task))
    /\ Stray
    /\ phase' = "loading" /\ made' = NotMade
    /\ UNCHANGED <<kind, list, bits>>

Loaded ==
    /\ phase = "loading" /\ phase' = "running" /\ made' = NotMade
    /\ UNCHANGED <<kind, book, list, bits, task, strays>>

-----------------------------------------------------------------------------
\* What the scripts do while they are loaded: create, configure, register.

NewEvent(keys, type, home) ==
    [keys |-> keys, type |-> type, home |-> home, scripted |-> FALSE]

CreateAction == {NewEvent(<<>>, "use", "scripts")}
CreateTalkAction == {NewEvent(<<n>>, "use", "scripts") : n \in Keys}
CreateCreatureEvent == {NewEvent(<<n>>, "none", "scripts") : n \in Keys}
CreateGlobalEvent == {NewEvent(<<n>>, "think", "scripts") : n \in Keys}
CreateMoveEvent == {NewEvent(<<>>, "use", "scripts")}
CreateWeapon == {NewEvent(<<NoKey>>, "use", "scripts")}

\* Spell() is the only one that any interface may call.
CreateSpell == {NewEvent(<<NoKey>>, "use", home) : home \in {"own", "scripts"}}

LuaCreate ==
    /\ phase = "loading" /\ made = NotMade
    /\ made' \in CASE kind = "action"   -> CreateAction
                   [] kind = "talk"     -> CreateTalkAction
                   [] kind = "creature" -> CreateCreatureEvent
                   [] kind = "global"   -> CreateGlobalEvent
                   [] kind = "move"     -> CreateMoveEvent
                   [] kind = "spell"    -> CreateSpell
                   [] kind = "weapon"   -> CreateWeapon
    /\ UNCHANGED <<kind, phase, book, list, bits, task, strays>>

ActionIds(n) == kind = "action" /\ made' = [made EXCEPT !.keys = Append(@, n)]
MoveEventIds(n) == kind = "move" /\ made' = [made EXCEPT !.keys = Append(@, n)]
SpellWords(n) == kind = "spell" /\ made' = [made EXCEPT !.keys = <<n>>]
SpellRuneId(n) == kind = "spell" /\ made' = [made EXCEPT !.keys = <<n>>]
WeaponId(n) == kind = "weapon" /\ made' = [made EXCEPT !.keys = <<n>>]

LuaSetKey ==
    /\ phase = "loading" /\ made # NotMade
    /\ \E n \in Keys \ ToSet(made.keys) :
          ActionIds(n) \/ MoveEventIds(n) \/ SpellWords(n) \/ SpellRuneId(n) \/ WeaponId(n)
    /\ UNCHANGED <<kind, phase, book, list, bits, task, strays>>

CreatureEventType ==
    kind = "creature" /\ \E t \in TypesOf(kind) : made' = [made EXCEPT !.type = t]
GlobalEventType == kind = "global" /\ made' = [made EXCEPT !.type = "server"]
GlobalEventTime == kind = "global" /\ made' = [made EXCEPT !.type = "timer"]

LuaSetType ==
    /\ phase = "loading" /\ made # NotMade
    /\ CreatureEventType \/ GlobalEventType \/ GlobalEventTime
    /\ UNCHANGED <<kind, phase, book, list, bits, task, strays>>

LoadCallback ==
    /\ phase = "loading" /\ made # NotMade
    /\ ~made.scripted
    /\ made' = [made EXCEPT !.scripted = TRUE]
    /\ UNCHANGED <<kind, phase, book, list, bits, task, strays>>

MadeEvent == Event(made.type, kind # "weapon",
                   IF made.scripted THEN made.home ELSE "none")

RegisterAll(keys, Put(_, _)) ==
    [n \in Slots |-> IF n \in ToSet(keys) THEN Put(book[n], MadeEvent) ELSE book[n]]

RegisterLuaAction == kind = "action" /\ made.scripted
                     /\ book' = RegisterAll(made.keys, RegisterAction)
RegisterLuaTalkAction == kind = "talk" /\ made.scripted
                         /\ book' = RegisterAll(made.keys, RegisterTalkAction)
RegisterLuaCreatureEvent == kind = "creature" /\ made.scripted
                            /\ book' = IF made.type = "none" THEN book
                                       ELSE RegisterAll(made.keys, RegisterCreatureEvent)
RegisterLuaGlobalEvent == kind = "global" /\ made.scripted
                          /\ book' = RegisterAll(made.keys, RegisterGlobalEvent)
RegisterLuaSpell == kind = "spell" /\ made.scripted
                    /\ book' = RegisterAll(made.keys, RegisterSpell)
RegisterLuaWeaponEvent == kind = "weapon"
                          /\ book' = RegisterAll(made.keys, RegisterLuaWeapon)

\* Move events without a callback run a function of the server; of several ids
\* the first one is skipped.
RegisterLuaFunction == kind = "move" /\ ~made.scripted
    /\ book' = RegisterAll(IF Len(made.keys) > 1 THEN Tail(made.keys) ELSE made.keys,
                           AddMoveEvent)
RegisterLuaMoveEvent == kind = "move" /\ made.scripted
                        /\ book' = RegisterAll(made.keys, AddMoveEvent)

\* Registering hands the event over (the userdata is not used again); an event
\* without the callback it needs is refused and stays with the script.
LuaRegister ==
    /\ phase = "loading" /\ made # NotMade
    /\ \/ RegisterLuaAction \/ RegisterLuaTalkAction \/ RegisterLuaCreatureEvent
       \/ RegisterLuaGlobalEvent \/ RegisterLuaSpell \/ RegisterLuaWeaponEvent
       \/ RegisterLuaFunction \/ RegisterLuaMoveEvent
    /\ made' = NotMade
    /\ task' = IF book' = book THEN task ELSE GlobalsOnly(Started(task, {made.type}))
    /\ UNCHANGED <<kind, phase, list, bits, strays>>

-----------------------------------------------------------------------------
\* What runs between the reloads.

\* Creature::registerCreatureEvent.
AddToCreature(n) ==
    /\ phase = "running" /\ kind = "creature"
    /\ book[n] # <<>> /\ book[n][1].loaded
    /\ ~(book[n][1].type \in bits /\ n \in list)
    /\ bits' = bits \cup {book[n][1].type}
    /\ list' = list \cup {n}
    /\ UNCHANGED <<kind, phase, book, made, task, strays>>

\* Creature::unregisterCreatureEvent.
RemoveFromCreature(n) ==
    /\ phase = "running" /\ kind = "creature"
    /\ book[n] # <<>> /\ book[n][1].loaded /\ book[n][1].type \in bits
    /\ list' = list \ {n}
    /\ bits' = IF \E m \in list' : book[m][1].type = book[n][1].type
               THEN bits ELSE bits \ {book[n][1].type}
    /\ UNCHANGED <<kind, phase, book, made, task, strays>>

\* The scheduler hands the timer's task to the dispatcher, also while scripts load.
HandOver(x) ==
    /\ task[x] = "waiting"
    /\ task' = [task EXCEPT ![x] = "handed"]
    /\ UNCHANGED <<kind, phase, book, made, list, bits, strays>>

InMap(b, x) == \E n \in Slots : \E i \in DOMAIN b[n] : b[n][i].type = x

\* The scripts that may fail: only those of timed events matter.
Failing(x) == IF x = "timer" THEN SUBSET Keys ELSE {{}}

\* GlobalEvents::think keeps its events, GlobalEvents::timer drops those whose
\* script fails.
AfterThink(x, failed) == book
AfterTimer(x, failed) ==
    [n \in Slots |-> IF n \in failed
                     THEN Among(book[n], {e \in ToSet(book[n]) : e.type # x}) ELSE book[n]]

AfterRun(x, failed) == IF x = "timer" THEN AfterTimer(x, failed) ELSE AfterThink(x, failed)

RunTimer(x, failed) ==
    /\ phase = "running" /\ task[x] = "handed"
    /\ book' = AfterRun(x, failed)
    /\ task' = [task EXCEPT ![x] = IF InMap(book', x) THEN "waiting" ELSE "spent"]
    /\ UNCHANGED <<kind, phase, made, list, bits, strays>>

\* A task that clear() could not stop runs as well; it schedules a next one and
\* overwrites the id of the task that was scheduled meanwhile.
RunStray(x, failed) ==
    /\ phase = "running" /\ strays[x] > 0
    /\ book' = AfterRun(x, failed)
    /\ IF InMap(book', x)
       THEN /\ task' = [task EXCEPT ![x] = "waiting"]
            /\ strays' = IF task[x] \in {"waiting", "handed"} THEN strays
                         ELSE [strays EXCEPT ![x] = @ - 1]
       ELSE /\ strays' = [strays EXCEPT ![x] = @ - 1]
            /\ UNCHANGED task
    /\ UNCHANGED <<kind, phase, made, list, bits>>

-----------------------------------------------------------------------------
Init ==
    /\ kind \in Kinds
    /\ phase = "start"
    /\ book = [n \in Slots |-> <<>>]
    /\ made = NotMade
    /\ list = {} /\ bits = {}
    /\ task = [x \in Timers |-> "none"]
    /\ strays = [x \in Timers |-> 0]

Armed == IF kind = "weapon" THEN SUBSET Keys ELSE {{}}

Load ==
    /\ phase # "loading"
    /\ \E nodes \in Nodes, armed \in Armed :
          Startup(nodes, armed) \/ ReloadXml(nodes, armed) \/ ReloadAll(nodes, armed)

Next ==
    \/ Load
    \/ \E armed \in Armed : ReloadScripts(armed)
    \/ Loaded
    \/ LuaCreate \/ LuaSetKey \/ LuaSetType \/ LoadCallback \/ LuaRegister
    \/ \E n \in Keys : AddToCreature(n) \/ RemoveFromCreature(n)
    \/ \E x \in Timers : HandOver(x)
    \/ phase = "running" /\ \E x \in Timers : \E failed \in Failing(x) :
          RunTimer(x, failed) \/ RunStray(x, failed)

Spec == Init /\ [][Next]_vars

\* CreatureEvents::playerLogin and its like fire every event of their type.
FiredForAll(e) == e.type = "login"

-----------------------------------------------------------------------------
\* CallsLive: a loaded event's callback is in the present table of its interface,
\* after any sequence of reloads, so no call runs another event's function.  It is
\* not promised for events that carry fromLua but belong to the registry's own
\* interface: clear() then keeps them and reInitState kills their number.
CallsLive ==
    \A n \in Slots : \A i \in DOMAIN book[n] :
        LET e == book[n][i] IN
        e.loaded /\ ~(e.fromLua /\ e.home = "own") => e.live

\* BitsAgree: the bits by which a creature skips whole event types agree with the
\* events in its list, though the events are emptied and filled again under it.
BitsAgree == bits = {book[n][1].type : n \in list}

\* FreshServed: an interval or timed event that was registered after the registry
\* was last cleared has a task that will run it.
FreshServed ==
    \A x \in Timers :
        (\E n \in Slots : \E i \in DOMAIN book[n] : book[n][i].type = x /\ book[n][i].fresh)
            => task[x] \in {"waiting", "handed"} \/ strays[x] > 0

\* EventsServed: every interval or timed event of the registry has a task that will
\* run it once the scripts are loaded.
EventsServed ==
    phase = "running" => \A x \in Timers : InMap(book, x) =>
        task[x] \in {"waiting", "handed"} \/ strays[x] > 0

\* LoginEventsLoaded: a creature event that is fired for every player is loaded.
LoginEventsLoaded ==
    phase = "running" => \A n \in Slots : \A i \in DOMAIN book[n] :
        FiredForAll(book[n][i]) => book[n][i].loaded

\* RegistriesAgree: the three together, for every registry and order of reloads.
RegistriesAgree == CallsLive /\ BitsAgree /\ FreshServed
=============================================================================
