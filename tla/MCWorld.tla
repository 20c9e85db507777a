------------------------------- MODULE MCWorld ------------------------------
(***************************************************************************)
(* The components that move creatures over the map, each followed on its   *)
(* own: scene names the one whose behaviour this is, and the variables of  *)
(* the others are not used.  They share no state in the models; one run    *)
(* checks them side by side.                                               *)
(***************************************************************************)
EXTENDS Naturals

CONSTANTS
  StepReach, TargetDistance, AttackRange, RaySize, MaxSide, Width, Requests,
  MaxNodes, MaxClosed, Hindered, CacheReach, Edge, Objects

VARIABLES
  scene,  \* the component that is followed
  offset, open, sight, facing, mode, step, rayFrom, rayTo, ray, crossed,
  wall, seen, given, turned, extended, start, goal, request, blocked,
  nodes, closedNodes, bestMatch, found, verdict, at, shut, cache, skewed

Steps == INSTANCE MonsterSteps WITH
  Reach <- StepReach
Sight == INSTANCE SightLine WITH
  Size <- RaySize, from <- rayFrom, to <- rayTo
Area == INSTANCE CombatArea
Search == INSTANCE PathSearch
Cache == INSTANCE WalkCache WITH
  Reach <- CacheReach

\* A board has sides of some length, a monster sees so far, and a search has so
\* many nodes.
ASSUME WorldAssumption ==
  /\ StepReach \in Nat /\ TargetDistance \in Nat /\ AttackRange \in Nat
  /\ RaySize \in Nat /\ MaxSide \in Nat /\ CacheReach \in Nat /\ Edge \in Nat
  /\ Width \in Nat /\ MaxNodes \in Nat

Absent == 0  \* what the variables of the other components hold

stepsVars == <<offset, open, sight, facing, mode, step>>
NoSteps ==
  /\ offset = Absent /\ open = Absent /\ sight = Absent
  /\ facing = Absent /\ mode = Absent /\ step = Absent

rayVars == <<rayFrom, rayTo, ray, crossed, wall, seen>>
NoSight ==
  /\ rayFrom = Absent /\ rayTo = Absent /\ ray = Absent
  /\ crossed = Absent /\ wall = Absent /\ seen = Absent

areaVars == <<given, turned, extended>>
NoArea ==
  /\ given = Absent /\ turned = Absent /\ extended = Absent

searchVars == <<start, goal, request, blocked, nodes, closedNodes,
                bestMatch, found, verdict>>
NoSearch ==
  /\ start = Absent /\ goal = Absent /\ request = Absent
  /\ blocked = Absent /\ nodes = Absent /\ closedNodes = Absent
  /\ bestMatch = Absent /\ found = Absent /\ verdict = Absent

cachedVars == <<at, shut, cache, skewed>>
NoCache ==
  /\ at = Absent /\ shut = Absent /\ cache = Absent
  /\ skewed = Absent

WorldInit ==
  \/ scene = "steps" /\ Steps!Init /\ NoSight /\ NoArea /\ NoSearch /\ NoCache
  \/ scene = "ray" /\ Sight!Init /\ NoSteps /\ NoArea /\ NoSearch /\ NoCache
  \/ scene = "area" /\ Area!Init /\ NoSteps /\ NoSight /\ NoSearch /\ NoCache
  \/ scene = "search" /\ Search!Init /\ NoSteps /\ NoSight /\ NoArea /\ NoCache
  \/ scene = "cached" /\ Cache!Init /\ NoSteps /\ NoSight /\ NoArea /\ NoSearch

WorldNext ==
  \/ scene = "steps" /\ Steps!Next
       /\ UNCHANGED <<scene, rayVars, areaVars, searchVars, cachedVars>>
  \/ scene = "ray" /\ Sight!Next
       /\ UNCHANGED <<scene, stepsVars, areaVars, searchVars, cachedVars>>
  \/ scene = "area" /\ Area!Next
       /\ UNCHANGED <<scene, stepsVars, rayVars, searchVars, cachedVars>>
  \/ scene = "search" /\ Search!Next
       /\ UNCHANGED <<scene, stepsVars, rayVars, areaVars, cachedVars>>
  \/ scene = "cached" /\ Cache!Next
       /\ UNCHANGED <<scene, stepsVars, rayVars, areaVars, searchVars>>

WorldSpec == WorldInit /\ [][WorldNext]_<<scene, stepsVars, rayVars, areaVars, searchVars, cachedVars>>

-----------------------------------------------------------------------------
\* See MonsterSteps: a monster's step keeps the distance that was asked for, and
\* its look meets the target.
StepsFit == scene = "steps" => Steps!StepsFit

\* See SightLine: the ray of Map::checkSightLine crosses the squares of the line.
RayStaysOnLine == scene = "ray" => Sight!RayStaysOnLine

\* See CombatArea: a spell hits the same squares in all directions.
AreaSameAllAround == scene = "area" => Area!AreaSameAllAround

\* See PathSearch: Map::getPathMatching finds the cheapest path, if there is one.
PathShortest == scene = "search" => Search!PathShortest

\* See WalkCache: a monster's cache of the squares around it agrees with the map,
\* but after a diagonal step to the south.
CacheAgrees == scene = "cached" => Cache!CacheAgrees

MCRequests ==
  {[maxTargetDist |-> 1, minTargetDist |-> 1, fullPathSearch |-> TRUE,
    keepDistance |-> FALSE, maxSearchDist |-> 0],
   [maxTargetDist |-> 2, minTargetDist |-> 1, fullPathSearch |-> FALSE,
    keepDistance |-> FALSE, maxSearchDist |-> 12],
   [maxTargetDist |-> 2, minTargetDist |-> 1, fullPathSearch |-> FALSE,
    keepDistance |-> TRUE, maxSearchDist |-> 1]}
MCHindered == {<<1, 1>>}
=============================================================================
