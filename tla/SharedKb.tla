------------------------------- MODULE SharedKb -------------------------------
(***************************************************************************)
(* What kb.json promises to the sessions that share it, in the words of    *)
(* docs/decisions/009: "Two live sessions can no longer lose each other's  *)
(* writes".  The file is a set of updates that only grows: a session adds  *)
(* updates, and once the call that made an update has returned, the update *)
(* is in the file for good.                                                *)
(***************************************************************************)
EXTENDS Naturals

CONSTANT Updates      \* changes to captures and claims that clients ask for

VARIABLES file,       \* the updates that kb.json holds
          acked       \* the updates whose call has returned

Init == file \in SUBSET Updates /\ acked = {}

\* A save replaces kb.json and keeps all it held.
Commit ==
    /\ \E new \in SUBSET Updates : file' = file \cup new
    /\ UNCHANGED acked

\* A call returns for updates that are in the file.
Acknowledge ==
    /\ \E done \in SUBSET file : acked' = acked \cup done
    /\ UNCHANGED file

Next == Commit \/ Acknowledge

Spec == Init /\ [][Next]_<<file, acked>>
=============================================================================
