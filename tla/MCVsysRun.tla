----------------------------- MODULE MCVsysRun -----------------------------
(* Model checking VsysRun: process slots for overlapping programs.         *)
EXTENDS VsysRun

CONSTANTS p1, p2, p3

ThreeProgs == {p1, p2, p3}
=============================================================================
