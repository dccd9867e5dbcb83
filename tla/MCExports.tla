------------------------------ MODULE MCExports ------------------------------
(* Values for checking Exports, Listings and ReAnchor: one path on two hosts, *)
(* with two query shapes on the first, a response from each, and names that   *)
(* share a tool.  The legacy claims: two that argue about one v1 key, one about       *)
(* another, and one that was made under the new keys.                         *)
EXTENDS ReAnchor, Listings

MCRequest(h, q) == [kind |-> "request", host |-> h, method |-> "GET", path |-> 1, query |-> q]
MCResponse(h, s) == [kind |-> "response", host |-> h, path |-> 1, status |-> s]

MCRequests  == {MCRequest("a", "v"), MCRequest("a", "en"), MCRequest("b", "v")}
MCResponses == {MCResponse("a", 200), MCResponse("b", 404)}
MCList == [tool |-> "demo", action |-> "list"]
MCGet  == [tool |-> "demo", action |-> "get"]
MCNames     == {MCList, MCGet}

MCClaim(o, name, conf) == [subject |-> o, name |-> name, conf |-> conf]
MCLegacies == {<<MCClaim(MCRequest("any", "v"), MCList, 0),
                 MCClaim(MCRequest("b", "v"), MCGet, 40),
                 MCClaim(MCRequest("any", "v"), MCGet, 0)>>,
               <<MCClaim(MCResponse("any", 200), MCList, 80),
                 MCClaim(MCRequest("any", "v"), MCGet, 0)>>}
=============================================================================
