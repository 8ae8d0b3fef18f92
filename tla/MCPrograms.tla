----------------------------- MODULE MCPrograms -----------------------------
(* Model checking the small programs.                                      *)
EXTENDS Programs

CONSTANTS r1, r2, r3   \* processes

ThreeRuns == {r1, r2, r3}
TwoRuns == {r1, r2}
OneRun == {r3}
AnyCall == {"setup", "accept", "handshake"}
=============================================================================
