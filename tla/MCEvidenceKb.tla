----------------------------- MODULE MCEvidenceKb -----------------------------
(* Values for checking EvidenceKb: two captures and one key.  The run          *)
(* "correlate" has one claim and many kinds of frames, the run "evidence" two  *)
(* claims that argue.                                                          *)
EXTENDS EvidenceKb, TLC

CONSTANTS k1, x1, x2, n1, n2

MCOneKey   == {k1}
MCSubjects == {k1, FrameId(1)}
MCOneClaim == {x1}
MCClaims   == {x1, x2}
MCOneName  == {n1}
MCNames    == {n1, n2}
MCSymmetry == Permutations(MCClaims) \cup Permutations(MCNames)
MCCapture  == {1, 2}
MCCaptureName == [c \in MCCapture |-> "idle"]
MCNumber   == {[is |-> "number", n |-> 1, status |-> 200]}
MCPayloads == MCNumber \cup {[is |-> "text", n |-> 1, status |-> 200],
                             [is |-> "none", n |-> 0, status |-> 200],
                             [is |-> "empty", n |-> 0, status |-> 404]}
=============================================================================
