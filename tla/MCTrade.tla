------------------------------ MODULE MCTrade ------------------------------
(* A small instance of Trade: three players, so that a trade can be        *)
(* disturbed from outside, one container and two loose items, and spots at *)
(* distances one, two and three.                                           *)
EXTENDS Trade, TLC

PlayerSymmetry == Permutations(Players)
=============================================================================
