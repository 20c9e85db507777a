---------------------------- MODULE MCCreatures ----------------------------
(* One player and two monsters, of which one can be the other's summon, a  *)
(* hall with a loft that sees it, and a place out of sight of both; one    *)
(* spawn block in the hall.  Monsters are interchangeable.                 *)
EXTENDS Creatures, TLC

MCPlaces == {"hall", "loft", "wild"}
MCSameFloor == {<<p, p>> : p \in MCPlaces}
MCInSight == MCSameFloor \cup {<<"hall", "loft">>, <<"loft", "hall">>}
MCTooFar == {pq \in MCPlaces \X MCPlaces : pq \notin MCInSight}
MCHome == [b \in Blocks |-> "hall"]
Interchangeable == Permutations(Monsters)
=============================================================================
