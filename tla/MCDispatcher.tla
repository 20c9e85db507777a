---------------------------- MODULE MCDispatcher ----------------------------
(* A small instance of Dispatcher: a network thread, the scheduler and the *)
(* dispatcher itself post two ordinary tasks (one may expire) and          *)
(* Game::shutdown.                                                         *)
EXTENDS Dispatcher
=============================================================================
