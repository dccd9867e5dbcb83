---------------------------- MODULE MCCaptureStore ----------------------------
(* Model values and symmetry for checking CaptureStore. *)
EXTENDS CaptureStore, TLC

CONSTANTS c1, c2, o1

MCOne  == {c1}
MCBoth == {c1, c2}
MCOther == {o1}

MCSymmetry == Permutations(MCBoth)
=============================================================================
