----------------------------- MODULE PathSearch -----------------------------
(***************************************************************************)
(* Map::getPathMatching: the search for a way to a square from which the   *)
(* target can be reached.  One step is one turn of the search loop: take   *)
(* the cheapest open node, try it against FrozenPathingConditionCall and   *)
(* open its neighbours.  A node that has a parent only looks at five of    *)
(* its eight neighbours.  clearSight is taken to be met (see SightLine).   *)
(***************************************************************************)
EXTENDS Integers, Sequences

CONSTANTS
  Width,       \* the squares are (0..Width) \X (0..Width)
  Requests,    \* the FindPathParams that are searched with
  MaxNodes,    \* MAX_NODES of map.h
  MaxClosed,   \* the nodes closed before an unbounded search gives up
  Hindered     \* the squares that cost extra: a creature stands there

Cell == (0..Width) \X (0..Width)

VARIABLES
  start, goal,  \* the creature's position and targetPos
  request,      \* fpp
  blocked,      \* the squares canWalkTo refuses
  nodes,        \* AStarNodes::nodes: [at, f, parent, open], parent 0 for none
  closedNodes,  \* closed less reopened
  bestMatch,
  found,        \* index of the node found, 0 for none
  verdict       \* "searching", "path" or "none"

searchVars == <<start, goal, request, blocked, nodes, closedNodes, bestMatch, found, verdict>>

Gap(a, b) == IF a < b THEN b - a ELSE a - b
Farther(a, b) == IF a < b THEN b ELSE a
Distance(p, q) == Farther(Gap(p[1], q[1]), Gap(p[2], q[2]))

AllNeighbors == << <<-1, 0>>, <<0, 1>>, <<1, 0>>, <<0, -1>>, <<-1, -1>>, <<1, -1>>, <<1, 1>>, <<-1, 1>> >>

North == << <<-1, 0>>, <<0, 1>>, <<1, 0>>, <<1, 1>>, <<-1, 1>> >>
East == << <<-1, 0>>, <<0, 1>>, <<0, -1>>, <<-1, -1>>, <<-1, 1>> >>
South == << <<-1, 0>>, <<1, 0>>, <<0, -1>>, <<-1, -1>>, <<1, -1>> >>
West == << <<0, 1>>, <<1, 0>>, <<0, -1>>, <<1, -1>>, <<1, 1>> >>
SouthWest == << <<1, 0>>, <<0, -1>>, <<-1, -1>>, <<1, -1>>, <<1, 1>> >>
SouthEast == << <<-1, 0>>, <<0, -1>>, <<-1, -1>>, <<1, -1>>, <<-1, 1>> >>
NorthWest == << <<0, 1>>, <<1, 0>>, <<1, -1>>, <<1, 1>>, <<-1, 1>> >>
NorthEast == << <<-1, 0>>, <<0, 1>>, <<-1, -1>>, <<1, 1>>, <<-1, 1>> >>

\* Mutant: a node reached by a diagonal step only looks straight ahead.
NeighborsAhead(dx, dy) ==
  IF dx = 0 THEN IF dy = -1 THEN North ELSE South
  ELSE IF dx = -1 THEN West ELSE East

\* dirNeighbors: where a node looks whose parent lies by (dx, dy).
DirNeighbors(dx, dy) ==
  CASE dy = 0 -> IF dx = -1 THEN West ELSE East
    [] dx = 0 -> IF dy = -1 THEN North ELSE South
    [] dy = -1 /\ dx # 0 -> IF dx = -1 THEN NorthWest ELSE NorthEast
    [] OTHER -> IF dx = -1 THEN SouthWest ELSE SouthEast

\* FrozenPathingConditionCall::isInRange: without fullPathSearch the creature
\* stays on its own side of the target.
IsInRange(p) ==
  LET reach == request.maxTargetDist
      most(i) == IF request.fullPathSearch \/ goal[i] <= start[i] THEN reach ELSE 0
      least(i) == IF request.fullPathSearch \/ goal[i] >= start[i] THEN reach ELSE 0
  IN \A i \in 1..2 : goal[i] - least(i) <= p[i] /\ p[i] <= goal[i] + most(i)

\* FrozenPathingConditionCall::operator(): whether p will do, when the best so
\* far is best away from the target.
Matches(p, best) ==
  LET d == Distance(goal, p) IN
  /\ IsInRange(p)
  /\ d >= request.minTargetDist /\ d <= request.maxTargetDist
  /\ request.maxTargetDist = 1 \/ d = request.maxTargetDist \/ d > best

BestMatch(p, best) ==
  LET d == Distance(goal, p) IN
  IF request.maxTargetDist = 1 THEN best ELSE IF d = request.maxTargetDist THEN 0 ELSE d

\* getMapWalkCost and getTileWalkCost, in tens.
WalkCost(p, q) == IF Gap(p[1], q[1]) = Gap(p[2], q[2]) THEN 25 ELSE 10
TileCost(p) == IF p \in Hindered THEN 30 ELSE 0

CanWalkTo(p) == p \in Cell \ blocked \/ p = start

\* getBestNode: the first of the cheapest open nodes, 0 when none is open.
BestNode ==
  LET opened == {i \in DOMAIN nodes : nodes[i].open}
      cheapest == {i \in opened : \A j \in opened : nodes[i].f <= nodes[j].f}
  IN IF opened = {} THEN 0 ELSE CHOOSE i \in cheapest : \A j \in cheapest : i <= j

\* The table that n looks by, and the k-th square it looks at.
Neighbors(n) ==
  LET at == nodes[n].at
      up == nodes[n].parent
  IN IF up = 0 THEN AllNeighbors
     ELSE DirNeighbors(nodes[up].at[1] - at[1], nodes[up].at[2] - at[2])

Square(n, k) ==
  <<nodes[n].at[1] + Neighbors(n)[k][1], nodes[n].at[2] + Neighbors(n)[k][2]>>

\* The squares the request lets the search look at.
Allowed(p) ==
  /\ request.maxSearchDist = 0 \/ Distance(start, p) <= request.maxSearchDist
  /\ ~request.keepDistance \/ IsInRange(p)

\* One neighbour of the loop; full says that createOpenNode had no node left.
Look(n, s, p) ==
  LET known == {i \in DOMAIN s.nodes : s.nodes[i].at = p}
      cost == s.nodes[n].f + WalkCost(s.nodes[n].at, p) + TileCost(p)
      old == CHOOSE i \in known : TRUE
  IN IF \/ s.full \/ ~Allowed(p)
        \/ known = {} /\ ~CanWalkTo(p)
        \/ known # {} /\ s.nodes[old].f <= cost
     THEN s
     ELSE IF known # {} THEN
       [s EXCEPT !.nodes[old] = [@ EXCEPT !.f = cost, !.parent = n, !.open = TRUE],
                 !.closed = IF s.nodes[old].open THEN @ ELSE @ - 1]
     ELSE IF Len(s.nodes) = MaxNodes THEN [s EXCEPT !.full = TRUE]
     ELSE [s EXCEPT !.nodes = Append(@, [at |-> p, f |-> cost, parent |-> n, open |-> TRUE])]

\* The loop over the neighbours of n.
Around(n) ==
  LET seen[k \in 0..Len(Neighbors(n))] ==
        IF k = 0 THEN [nodes |-> nodes, closed |-> closedNodes, full |-> FALSE]
        ELSE Look(n, seen[k - 1], Square(n, k))
  IN seen[Len(Neighbors(n))]

Init ==
  /\ start \in Cell /\ goal \in Cell /\ request \in Requests
  /\ blocked \in SUBSET (Cell \ {start})
  /\ nodes = <<[at |-> start, f |-> 0, parent |-> 0, open |-> TRUE]>>
  /\ closedNodes = 0 /\ bestMatch = 0 /\ found = 0 /\ verdict = "searching"

MayGoOn == request.maxSearchDist # 0 \/ closedNodes < MaxClosed

Ending == IF found = 0 THEN "none" ELSE "path"

\* The loop ends: out of nodes to look at, or out of patience.
GiveUp ==
  /\ verdict = "searching"
  /\ ~MayGoOn \/ BestNode = 0
  /\ verdict' = Ending
  /\ UNCHANGED <<start, goal, request, blocked, nodes, closedNodes, bestMatch, found>>

\* The loop looks at its best node and finds what it wants.
Hit ==
  LET n == BestNode IN
  /\ verdict = "searching" /\ MayGoOn /\ n # 0
  /\ Matches(nodes[n].at, bestMatch) /\ BestMatch(nodes[n].at, bestMatch) = 0
  /\ found' = n /\ bestMatch' = 0 /\ verdict' = "path"
  /\ UNCHANGED <<start, goal, request, blocked, nodes, closedNodes>>

\* The loop looks at its best node, perhaps the best so far, and goes on with
\* the neighbours.
Expand ==
  LET n == BestNode
      match == n # 0 /\ Matches(nodes[n].at, bestMatch)
      after == Around(n)
  IN /\ verdict = "searching" /\ MayGoOn /\ n # 0
     /\ ~(match /\ BestMatch(nodes[n].at, bestMatch) = 0)
     /\ found' = IF match THEN n ELSE found
     /\ bestMatch' = IF match THEN BestMatch(nodes[n].at, bestMatch) ELSE bestMatch
     /\ verdict' = IF after.full /\ found' = 0 THEN "none" ELSE "searching"
     /\ nodes' = [after.nodes EXCEPT ![n].open = FALSE]
     /\ closedNodes' = after.closed + 1
     /\ UNCHANGED <<start, goal, request, blocked>>

Next == GiveUp \/ Hit \/ Expand

Spec == Init /\ [][Next]_searchVars

-----------------------------------------------------------------------------
\* The nodes from the start to n, as the parent pointers give them.
Trail(n) ==
  LET back[k \in 0..Len(nodes)] ==
        IF k = 0 THEN n ELSE IF back[k - 1] = 0 THEN 0 ELSE nodes[back[k - 1]].parent
  IN [k \in 0..Len(nodes) |-> back[k]]

\* The directions the search hands to the walk: over neighbouring squares that
\* can be walked, from the creature's own, at the cost the nodes say.
Walkable ==
  verdict = "path" =>
    LET t == Trail(found) IN
    /\ t[Len(nodes)] = 0
    /\ \A k \in 0..Len(nodes) :
         t[k] # 0 => /\ CanWalkTo(nodes[t[k]].at)
                     /\ IF nodes[t[k]].parent = 0 THEN nodes[t[k]].at = start
                        ELSE LET up == nodes[nodes[t[k]].parent] IN
                             /\ Distance(nodes[t[k]].at, up.at) = 1
                             /\ nodes[t[k]].f = up.f + WalkCost(up.at, nodes[t[k]].at)
                                                     + TileCost(nodes[t[k]].at)

\* Five neighbours are enough: while no limit is hit, every way on from a
\* closed node, in all the eight directions, leads to a node that costs no more
\* than that way, and the path is made of such ways.  So no walkable square is
\* passed over and no cost is above the least; a search that ends without a path
\* had nothing to find, and one that stops at a square of the wanted distance
\* stops at one of the cheapest.
PathShortest ==
  LET usable(p) == CanWalkTo(p) /\ Allowed(p)
      exact == {i \in DOMAIN nodes : Matches(nodes[i].at, 0) /\ BestMatch(nodes[i].at, 0) = 0}
  IN Walkable /\ (Len(nodes) < MaxNodes =>
       /\ \A i \in DOMAIN nodes : ~nodes[i].open =>
            \A q \in Cell : Distance(nodes[i].at, q) = 1 /\ usable(q) =>
              \E j \in DOMAIN nodes :
                nodes[j].at = q /\ nodes[j].f <= nodes[i].f + WalkCost(nodes[i].at, q) + TileCost(q)
       /\ verdict = "none" /\ MayGoOn => \A i \in DOMAIN nodes : ~Matches(nodes[i].at, 0)
       /\ verdict = "path" /\ MayGoOn /\ exact # {} =>
            found \in exact /\ \A i \in exact : nodes[found].f <= nodes[i].f)
=============================================================================
