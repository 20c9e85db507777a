--------------------------- MODULE MCDatabaseTasks ---------------------------
(* A small instance of DatabaseTasks: the game and a network thread add    *)
(* three queries, one with a callback; the game flushes; game or main      *)
(* shuts down.                                                             *)
EXTENDS DatabaseTasks
=============================================================================
