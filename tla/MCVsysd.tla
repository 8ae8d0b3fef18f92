------------------------------ MODULE MCVsysd ------------------------------
(* Model checking Vsysd: model values and the symmetry of the runs in      *)
(* which either every client or none may send nothing.                     *)
EXTENDS VsysServiceProofs, TLC

CONSTANTS i1, i2, c1, c2, c3, p1, p2

TwoIds == {i1, i2}
OneId == {i1}
TwoClients == {c1, c2}
ThreeClients == {c1, c2, c3}
TwoProcs == {p1, p2}
OneProc == {p1}
NoFaults == {}
NoClients == {}
LostConnections == {"accept"}
ResourceFaults == {"pipe", "memory", "clone"}
CloneFails == {"clone"}
EveryFault == FaultNames

Symmetry == Permutations({i1, i2}) \cup Permutations({c1, c2})
            \cup Permutations({p1, p2})
=============================================================================
