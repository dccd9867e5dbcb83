----------------------------- MODULE MCKbSessions -----------------------------
(* Model values and symmetry for checking KbSessions. *)
EXTENDS KbSessions, TLC

CONSTANTS s1, s2, s3, u1, u2, u3, ka, kb

MCSessions == {s1, s2}
MCThree    == {s1, s2, s3}
MCUpdates  == {u1, u2, u3}
MCSalts    == {ka, kb}
MCSymmetryThree == Permutations(MCThree) \cup Permutations(MCUpdates) \cup Permutations(MCSalts)
=============================================================================
