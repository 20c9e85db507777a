---------------------------- MODULE MCGameSession ----------------------------
(* A small instance of GameSession: a client and a second one that takes   *)
(* the character over, and a Player object for each.                       *)
EXTENDS GameSession
=============================================================================
