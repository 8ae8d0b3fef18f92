---------------------------- MODULE MCVsysdCrash ----------------------------
(* Model checking VsysdCrash.                                              *)
EXTENDS VsysdCrash, TLC

CONSTANTS i1, i2, c1, c2, p1, p2

TwoIds == {i1, i2}
OneId == {i1}
TwoClients == {c1, c2}
TwoProcs == {p1, p2}
NoClients == {}
CloneFails == {"clone"}

Symmetry == Permutations({i1, i2}) \cup Permutations({c1, c2})
            \cup Permutations({p1, p2})
=============================================================================
