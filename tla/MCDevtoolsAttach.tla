-------------------------- MODULE MCDevtoolsAttach --------------------------
(* Values for checking DevtoolsAttach: three responses, one event. *)
EXTENDS DevtoolsAttach

CONSTANTS r1, r2, r3, e1

MCThree == {r1, r2, r3}
MCOne   == {e1}
=============================================================================
