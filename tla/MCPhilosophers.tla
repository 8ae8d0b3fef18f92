--------------------------- MODULE MCPhilosophers ---------------------------
(* Model checking Philosophers.                                            *)
EXTENDS Philosophers

ChopstickAndRoom == {0, Room}
=============================================================================
