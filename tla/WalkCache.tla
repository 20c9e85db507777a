----------------------------- MODULE WalkCache -----------------------------
(***************************************************************************)
(* Creature::localMapCache: the squares around a monster, TRUE where it    *)
(* could walk.  The path search believes it (Map::canWalkTo).  When the    *)
(* monster makes a step the cache is moved the other way and only the row  *)
(* and the column that come into view are read from the map.               *)
(***************************************************************************)
EXTENDS Integers, FiniteSets

CONSTANTS
  Reach,   \* maxWalkCacheWidth and maxWalkCacheHeight
  Edge,    \* the map has the squares (0..Edge) \X (0..Edge)
  Objects  \* at most so many squares are blocked

Field == (0..Edge) \X (0..Edge)
Window == (-Reach..Reach) \X (-Reach..Reach)

VARIABLES
  at,       \* the monster's position
  shut,     \* squares that queryAdd refuses: items, walls, other creatures
  cache,    \* localMapCache, by the offset <<dx, dy>> from the monster
  skewed    \* history: a step southeast or southwest since the last updateMapCache

cacheVars == <<at, shut, cache, skewed>>

Passable(q, closed) == q \in Field /\ q \notin closed
Plus(p, d) == <<p[1] + d[1], p[2] + d[2]>>
Read(p, closed) == [d \in Window |-> Passable(Plus(p, d), closed)]

Init ==
  /\ at \in Field
  /\ shut \in {s \in SUBSET (Field \ {at}) : Cardinality(s) <= Objects}
  /\ cache = Read(at, shut) /\ skewed = FALSE

\* The rows move first, then a new row is read.
MoveRows(c, new, dy) ==
  [d \in Window |->
    IF dy = 0 THEN c[d]
    ELSE IF d[2] = dy * Reach THEN Passable(Plus(new, d), shut)
    ELSE c[<<d[1], d[2] + dy>>]]

\* Mutant: no row is left out when the columns move.
MoveColumnsAll(c, new, dx, dy) ==
  [d \in Window |->
    IF dx = 0 THEN c[d]
    ELSE IF d[1] = dx * Reach THEN Passable(Plus(new, d), shut)
    ELSE c[<<d[1] + dx, d[2]>>]]

\* Then the columns.  dy of the code is a distance, never below zero: after any
\* diagonal step the top row is left out, also when the new row is the bottom one.
MoveColumns(c, new, dx, dy) ==
  [d \in Window |->
    IF dx = 0 THEN c[d]
    ELSE IF d[1] = dx * Reach THEN Passable(Plus(new, d), shut)
    ELSE IF dy # 0 /\ d[2] = -Reach THEN c[d]
    ELSE c[<<d[1] + dx, d[2]>>]]

UpdateTileCache(c, p, q, closed) ==
  [d \in Window |-> IF Plus(p, d) = q THEN Passable(q, closed) ELSE c[d]]

\* onCreatureMove of the monster itself
Step(dx, dy) ==
  LET new == <<at[1] + dx, at[2] + dy>> IN
  /\ Passable(new, shut) /\ new # at
  /\ at' = new
  /\ cache' = UpdateTileCache(MoveColumns(MoveRows(cache, new, dy), new, dx, dy), new, at, shut)
  /\ skewed' = (skewed \/ (dx # 0 /\ dy = 1))
  /\ UNCHANGED shut

\* A teleport or a step to another floor: updateMapCache
Teleport(new) ==
  /\ Passable(new, shut) /\ new # at
  /\ at' = new /\ cache' = Read(new, shut) /\ skewed' = FALSE
  /\ UNCHANGED shut

\* Something comes to q or goes: onAddTileItem, onUpdateTileItem,
\* onRemoveTileItem, onCreatureAppear, onRemoveCreature
Change(q) ==
  /\ q # at
  /\ shut' = IF q \in shut THEN shut \ {q} ELSE shut \cup {q}
  /\ Cardinality(shut') <= Objects
  /\ cache' = UpdateTileCache(cache, at, q, shut')
  /\ UNCHANGED <<at, skewed>>

\* onCreatureMove of another creature, from p to q
OtherMoves(p, q) ==
  /\ p \in shut /\ q \notin shut /\ q # at
  /\ shut' = (shut \ {p}) \cup {q}
  /\ cache' = UpdateTileCache(UpdateTileCache(cache, at, q, shut'), at, p, shut')
  /\ UNCHANGED <<at, skewed>>

Next ==
  \/ \E dx, dy \in -1..1 : Step(dx, dy)
  \/ \E q \in Field : Teleport(q) \/ Change(q)
  \/ \E p, q \in Field : OtherMoves(p, q)

Spec == Init /\ [][Next]_cacheVars

-----------------------------------------------------------------------------
Agrees == \A d \in Window \ {<<0, 0>>} : cache[d] = Passable(Plus(at, d), shut)

\* Until the monster makes a diagonal step to the south, the cache says of every
\* square around it what the map says, whatever moves in whatever order.
CacheAgrees == skewed \/ Agrees

\* "//update map cache": after its own steps, too, the cache of a monster is the
\* map around it.
CacheUpdated == Agrees
=============================================================================
