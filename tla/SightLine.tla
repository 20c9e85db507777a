----------------------------- MODULE SightLine -----------------------------
(***************************************************************************)
(* Map::checkSightLine: the ray from one square to another, a square at a  *)
(* time, and Map::isSightClear, which casts it both ways.  The loop of the *)
(* code has no bound but its own arithmetic.                               *)
(***************************************************************************)
EXTENDS Integers, FiniteSets

CONSTANT Size  \* the squares are 0..Size in both directions

Square == (0..Size) \X (0..Size)

VARIABLES
  from, to,   \* fromPos and toPos of checkSightLine
  ray,        \* the square the ray has reached
  crossed,    \* history: the squares it went through
  wall,       \* the square that blocks projectiles
  seen        \* "looking", "clear" or "blocked"

sightVars == <<from, to, ray, crossed, wall, seen>>

Magnitude(n) == IF n < 0 THEN -n ELSE n
Toward(a, b) == IF a < b THEN 1 ELSE IF a = b THEN 0 ELSE -1

\* A*x + B*y + C of the line through from and to.
Line(x, y) ==
  (to[2] - from[2]) * x + (from[1] - to[1]) * y
    - ((to[2] - from[2]) * to[1] + (from[1] - to[1]) * to[2])

\* Mutant: the ray moves only while it gets closer to the line by it.
NextSquareStrict(p) ==
  LET mx == Toward(from[1], to[1])  my == Toward(from[2], to[2])
      hor == Magnitude(Line(p[1] + mx, p[2]))
      ver == Magnitude(Line(p[1], p[2] + my))
      y == IF p[2] # to[2] /\ (p[1] = to[1] \/ hor > ver) THEN p[2] + my ELSE p[2]
      x == IF p[1] # to[1] /\ (y = to[2] \/ ver > hor) THEN p[1] + mx ELSE p[1]
  IN <<x, y>>

\* One iteration of the loop.
NextSquare(p) ==
  LET mx == Toward(from[1], to[1])  my == Toward(from[2], to[2])
      hor == Magnitude(Line(p[1] + mx, p[2]))
      ver == Magnitude(Line(p[1], p[2] + my))
      cross == Magnitude(Line(p[1] + mx, p[2] + my))
      y == IF p[2] # to[2] /\ (p[1] = to[1] \/ hor > ver \/ hor > cross) THEN p[2] + my ELSE p[2]
      x == IF p[1] # to[1] /\ (y = to[2] \/ ver > hor \/ ver > cross) THEN p[1] + mx ELSE p[1]
  IN <<x, y>>

Init ==
  /\ from \in Square /\ to \in Square /\ wall \in Square
  /\ ray = from /\ crossed = {} /\ seen = "looking"

Advance ==
  /\ seen = "looking" /\ ray # to
  /\ ray' = NextSquare(ray)
  /\ crossed' = crossed \cup {ray'}
  /\ seen' = IF ray' = wall THEN "blocked" ELSE "looking"
  /\ UNCHANGED <<from, to, wall>>

Arrive ==
  /\ seen = "looking" /\ ray = to /\ seen' = "clear"
  /\ UNCHANGED <<from, to, ray, crossed, wall>>

Next == Advance \/ Arrive

Spec == Init /\ [][Next]_sightVars

-----------------------------------------------------------------------------
\* The loop of checkSightLine ends with the square it aims at: every iteration
\* gets nearer to it, none leaves the box between the two squares, and the ray
\* never strays from the straight line by more than half a square.
RayStaysOnLine ==
  LET w == Magnitude(to[1] - from[1])  h == Magnitude(to[2] - from[2])
      between(i) == \/ from[i] <= ray[i] /\ ray[i] <= to[i]
                    \/ to[i] <= ray[i] /\ ray[i] <= from[i]
  IN /\ between(1) /\ between(2)
     /\ 2 * Magnitude(Line(ray[1], ray[2])) <= IF w > h THEN w ELSE h
     /\ ray # to /\ seen = "looking" => NextSquare(ray) # ray
     /\ Cardinality(crossed) <= IF w > h THEN w ELSE h
=============================================================================
