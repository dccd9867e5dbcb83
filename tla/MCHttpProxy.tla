----------------------------- MODULE MCHttpProxy -----------------------------
(* Clients for checking HttpProxy. *)
EXTENDS HttpProxy

CONSTANTS a, b, c3

MCClients == {a, b, c3}
=============================================================================
