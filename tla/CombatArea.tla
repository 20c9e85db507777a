----------------------------- MODULE CombatArea -----------------------------
(***************************************************************************)
(* AreaCombat: the area of a spell is given once, for the north or for the *)
(* north-west, and turned or mirrored into the other directions by         *)
(* copyArea.  A matrix is a record of its size, its centre and its cells   *)
(* <<row, col>>; the rotation is exact, the code rounds sines and cosines  *)
(* of multiples of 90 degrees.                                             *)
(***************************************************************************)
EXTENDS Integers, FiniteSets

CONSTANT MaxSide  \* rows and columns of the areas that are set up

VARIABLES
  given,   \* the matrix createArea made of the list
  turned,  \* AreaCombat::areas
  extended \* hasExtArea

areaVars == <<given, turned, extended>>

Matrix(n) ==
  UNION {[rows : {s[1]}, cols : {s[2]}, cy : 0..(s[1] - 1), cx : 0..(s[2] - 1),
          cells : SUBSET ((0..(s[1] - 1)) \X (0..(s[2] - 1)))] : s \in (1..n) \X (1..n)}

\* MatrixArea(maxOutput, maxOutput)
Blank(m) ==
  LET side == 2 * (IF m.cols > m.rows THEN m.cols ELSE m.rows)
  IN [rows |-> side, cols |-> side, cy |-> 0, cx |-> 0, cells |-> {}]

\* Mutant: the area is turned the other way.
TurnOpposite(angle, x, y) ==
  CASE angle = 90 -> <<y, -x>> [] angle = 180 -> <<-x, -y>> [] angle = 270 -> <<-y, x>>

\* The new coordinates <<x, y>>, relative to the centre.
Turn(angle, x, y) ==
  CASE angle = 90 -> <<-y, x>> [] angle = 180 -> <<-x, -y>> [] angle = 270 -> <<y, -x>>

\* copyArea for the rotations.
Rotate(m, angle) ==
  LET out == Blank(m)
      cx == (out.cols \div 2) - 1
      cy == (out.rows \div 2) - 1
      at(c) == LET t == Turn(angle, c[2] - m.cx, c[1] - m.cy) IN <<t[2] + cy, t[1] + cx>>
  IN [out EXCEPT !.cells = {at(c) : c \in m.cells}, !.cy = cy, !.cx = cx]

\* The centre of a mirrored area is taken from the rows, that of a flipped one
\* from the columns.
Mirror(m, out) ==
  [out EXCEPT !.cells = {<<c[1], (m.cols - 1) - c[2]>> : c \in m.cells},
              !.cy = m.cy, !.cx = (m.rows - 1) - m.cx]

Flip(m, out) ==
  [out EXCEPT !.cells = {<<(m.rows - 1) - c[1], c[2]>> : c \in m.cells},
              !.cy = (m.cols - 1) - m.cy, !.cx = m.cx]

\* getArea: east and west win over north and south; diagonals need an own area.
Direction(dx, dy, ext) ==
  CASE ext /\ dx < 0 /\ dy < 0 -> "NW" [] ext /\ dx > 0 /\ dy < 0 -> "NE"
    [] ext /\ dx < 0 /\ dy > 0 -> "SW" [] ext /\ dx > 0 /\ dy > 0 -> "SE"
    [] OTHER -> IF dx < 0 THEN "W" ELSE IF dx > 0 THEN "E" ELSE IF dy < 0 THEN "N" ELSE "S"

\* setupArea and setupExtArea
NoAreas == << >>

Init == given \in Matrix(MaxSide) /\ turned = NoAreas /\ extended = FALSE

SetupArea ==
  /\ turned = NoAreas
  /\ turned' = [N |-> given, S |-> Rotate(given, 180), E |-> Rotate(given, 90),
                W |-> Rotate(given, 270)]
  /\ UNCHANGED <<given, extended>>

SetupExtArea ==
  /\ turned = NoAreas
  /\ LET sw == Flip(given, Blank(given))
     IN turned' = [NW |-> given, NE |-> Mirror(given, Blank(given)), SW |-> sw,
                   SE |-> Mirror(sw, Blank(given))]
  /\ extended' = TRUE
  /\ UNCHANGED given

Next == SetupArea \/ SetupExtArea

Spec == Init /\ [][Next]_areaVars

-----------------------------------------------------------------------------
(* What getList hits, relative to the target, without the walls.           *)

Hits(m) == {<<c[2] - m.cx, c[1] - m.cy>> : c \in m.cells}

\* The square next to the caster the spell is aimed at, by direction.
Ahead == [N |-> <<0, -1>>, S |-> <<0, 1>>, E |-> <<1, 0>>, W |-> <<-1, 0>>,
          NW |-> <<-1, -1>>, NE |-> <<1, -1>>, SW |-> <<-1, 1>>, SE |-> <<1, 1>>]

\* A spell hits the same squares whatever the direction, seen from its caster:
\* as far ahead, and as far to the sides, as the area it was given as.  (A diagonal
\* area whose list is not square is mirrored about a wrong centre: copyArea takes
\* the rows for the columns.)  No cell is written outside its matrix, square or
\* not, and the right area is found again by the aim.
AreaSameAllAround ==
  LET along(d, h) == h[1] * Ahead[d][1] + h[2] * Ahead[d][2]
      across(d, h) == h[1] * Ahead[d][2] - h[2] * Ahead[d][1]
      first == IF extended THEN "NW" ELSE "N"
      shape(d) == {<<along(d, h), across(d, h)>> : h \in Hits(turned[d])}
      mirrored(d) == {<<along(d, h), -across(d, h)>> : h \in Hits(turned[d])}
  IN \A d \in DOMAIN turned :
       /\ \A c \in turned[d].cells : c[1] \in 0..(turned[d].rows - 1)
                                  /\ c[2] \in 0..(turned[d].cols - 1)
       /\ (extended => given.rows = given.cols) =>
          (IF d \in {"NE", "SW"} THEN mirrored(d) ELSE shape(d)) = shape(first)
       /\ Direction(Ahead[d][1], Ahead[d][2], extended) = d
=============================================================================
