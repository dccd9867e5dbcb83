-------------------------------- MODULE Exports --------------------------------
(***************************************************************************)
(* The projections of the evidence graph in apire/export: the endpoint     *)
(* rows with their evidence, the confidence floor, and the candidate MCP   *)
(* surface.  All of them are computed anew from the frames and the claims  *)
(* at each call, so they are state functions here; frames and claims are   *)
(* what changes.                                                           *)
(*                                                                         *)
(* An HTTP observation is a record of what its canonical key is made of.   *)
(* An export covers all captures.  Shapes, urls and dates are left out; a  *)
(* semantic name is the pair of the tool and the action that               *)
(* mcp_candidate makes of it, and paths are numbers in their sort order.   *)
(***************************************************************************)
EXTENDS Naturals, Sequences, FiniteSets, SequencesExt

CONSTANTS
    Requests,      \* records [host, method, path, query]
    Responses,     \* records [host, path, status]
    Names,         \* records [tool, action]
    Confidences,   \* confidences of claims, in percent
    Floors,        \* ranks of the levels that callers ask for
    MaxFrames,     \* bound on the frames
    MaxClaims      \* bound on the claims

ASSUME ExportsAssumption ==
    /\ Confidences \subseteq 0..100
    /\ Floors \subseteq 0..3        \* CONFIRMED to INFERRED
    /\ MaxFrames \in Nat /\ MaxClaims \in Nat
    /\ \A r \in Requests : r.path \in Nat

Observations == Requests \cup Responses

VARIABLES
    log,       \* the observation of each frame, in the order of the captures
    claims     \* the semantic_name claims, in the order in which they were made

vars == <<log, claims>>

Seen == {log[i] : i \in DOMAIN log}
SeenRequests == Seen \cap Requests

\* Claims of one kind about one subject argue when their values differ.
RivalsOf(cs, i) ==
    {j \in DOMAIN cs : cs[j].subject = cs[i].subject /\ cs[j].name # cs[i].name}

Sightings(o) == Cardinality({i \in DOMAIN log : log[i] = o})

FirstSeen(o) == CHOOSE i \in DOMAIN log : log[i] = o /\ \A j \in 1..(i - 1) : log[j] # o

\* S in the order `before`.
Sorted(S, before(_, _)) ==
    CHOOSE s \in SetToSeqs(S) : \A j, k \in DOMAIN s : j < k => before(s[j], s[k])

-----------------------------------------------------------------------------
(* Evidence.                                                                *)

\* The place of a level in LEVEL_ORDER: 0 is CONFIRMED, 5 is UNKNOWN.
Rank(conf) == Cardinality({t \in {95, 80, 60, 40, 10} : conf < t})

\* Of two claims on an endpoint the one with the higher confidence leads; of
\* equals the one on the request, then the one on the response seen first
\* (endpoint_rows), and for one subject the older one (claims_by_subject).
Place(r, i) == IF claims[i].subject = r THEN 0 ELSE FirstSeen(claims[i].subject)

Leads(r, i, j) ==
    \/ claims[i].conf > claims[j].conf
    \/ /\ claims[i].conf = claims[j].conf
       /\ Place(r, i) < Place(r, j) \/ (Place(r, i) = Place(r, j) /\ i <= j)

\* endpoint_rows joins a request with the responses that have its path.
ResponsesOf(r) == {s \in Seen \cap Responses : s.path = r.path}

ClaimsOn(r) == {i \in DOMAIN claims : claims[i].subject \in {r} \cup ResponsesOf(r)}

BestOn(r) == CHOOSE i \in ClaimsOn(r) : \A j \in ClaimsOn(r) : Leads(r, i, j)

\* Mutant: a bare proposal is passed over.
EvidenceBeyondProposals(r) ==
    IF \A i \in ClaimsOn(r) : claims[i].conf < 10
    THEN [rank |-> Rank(80), conf |-> 80, claim |-> 0]
    ELSE LET i == BestOn(r)
         IN  [rank |-> Rank(claims[i].conf), conf |-> claims[i].conf, claim |-> i]

\* evidence_block of the best claim on the request or on one of its responses;
\* without any, the presence in the traffic: OBSERVED at 80.
Evidence(r) ==
    IF ClaimsOn(r) = {}
    THEN [rank |-> Rank(80), conf |-> 80, claim |-> 0]
    ELSE LET i == BestOn(r)
         IN  [rank |-> Rank(claims[i].conf), conf |-> claims[i].conf, claim |-> i]

\* split_by_floor
Accepted(floor) == {r \in SeenRequests : Evidence(r).rank <= floor}

-----------------------------------------------------------------------------
(* The candidate MCP surface.                                              *)

Template(r) == <<r.method, r.path>>

\* mcp_candidate_document: the tool and the action a row belongs to ...
Name(r) == LET c == Evidence(r).claim IN
           IF c # 0 THEN claims[c].name ELSE [tool |-> r.host, action |-> Template(r)]
Key(r)  == <<Name(r).tool, Name(r).action, Template(r)>>

\* ... and _add_action, which merges the rows of one key one after the other.
\* A row as an action of its own: its observation, what was seen of it, and the
\* evidence on it.
Alone(r) == [ids |-> <<r>>, sightings |-> Sightings(r), evidence |-> Evidence(r)]

\* Mutant: the evidence of the row that comes last.
JoinedLast(a, r) ==
    [ids |-> Append(a.ids, r), sightings |-> a.sightings + Sightings(r), evidence |-> Evidence(r)]

\* The action a, once the row r with the same key has come.
Joined(a, r) ==
    [ids       |-> Append(a.ids, r),
     sightings |-> a.sightings + Sightings(r),
     evidence  |-> IF Evidence(r).conf > a.evidence.conf THEN Evidence(r) ELSE a.evidence]

\* _add_action: the actions so far, by key, after the row r.
AddAction(actions, r) ==
    [k \in DOMAIN actions \cup {Key(r)} |->
        IF k # Key(r) THEN actions[k]
        ELSE IF k \in DOMAIN actions THEN Joined(actions[k], r) ELSE Alone(r)]

\* The loop over the accepted rows, which come by falling number of sightings,
\* then by path, then as they were seen (endpoint_rows).
Above(a, b) ==
    \/ Sightings(a) > Sightings(b)
    \/ Sightings(a) = Sightings(b) /\ a.path < b.path
    \/ Sightings(a) = Sightings(b) /\ a.path = b.path /\ FirstSeen(a) < FirstSeen(b)

Rows(floor) == Sorted(Accepted(floor), Above)

Surface(floor) ==
    LET rows == Rows(floor)
        after[n \in 0..Len(rows)] == IF n = 0 THEN <<>> ELSE AddAction(after[n - 1], rows[n])
    IN  after[Len(rows)]

-----------------------------------------------------------------------------
(* What changes the answers.                                                *)

Init == log = <<>> /\ claims = <<>>

\* A listener appends a frame.
Observe(o) ==
    /\ Len(log) < MaxFrames
    /\ log' = Append(log, o)
    /\ UNCHANGED claims

\* propose: a name for an observation in the store, at confidence 0.
Propose(o, name) ==
    /\ o \in Seen /\ Len(claims) < MaxClaims
    /\ claims' = Append(claims, [subject |-> o, name |-> name, conf |-> 0])
    /\ UNCHANGED log

\* raise_confidence replaces the claim in its place; the new confidence may
\* also be lower.
Revise(i, conf) ==
    /\ claims' = [claims EXCEPT ![i].conf = conf]
    /\ UNCHANGED log

Next ==
    \/ \E o \in Observations : Observe(o)
    \/ \E o \in Observations, n \in Names : Propose(o, n)
    \/ \E i \in DOMAIN claims, conf \in Confidences : Revise(i, conf)

Spec == Init /\ [][Next]_vars

-----------------------------------------------------------------------------
(* Properties.                                                              *)

\* The types of the frames and claims; a conjunct of McpKeepsEveryObservation.
TypeOK ==
    /\ log \in Seq(Observations)
    /\ \A i \in DOMAIN claims : claims[i].name \in Names /\ claims[i].conf \in Confidences \cup {0}

\* Merging keeps "every observation id and the best evidence" (mcp_candidate.py),
\* in whatever order the rows come: each accepted row is in one action and there
\* once, an action counts each frame of its rows once, and it shows the evidence
\* of one of them, which none of the others exceeds.
McpKeepsEveryObservation ==
    TypeOK /\ \A floor \in Floors :
       LET surface == Surface(floor)
           at(k, r) == {j \in DOMAIN surface[k].ids : surface[k].ids[j] = r}
       IN  /\ \A r \in Accepted(floor) : \E k \in DOMAIN surface :
                 /\ Cardinality(at(k, r)) = 1
                 /\ \A other \in DOMAIN surface \ {k} : at(other, r) = {}
           /\ \A k \in DOMAIN surface :
                 LET a == surface[k]
                     of == {a.ids[j] : j \in DOMAIN a.ids}
                 IN  /\ of \subseteq Accepted(floor)
                     /\ a.sightings = Cardinality({i \in DOMAIN log : log[i] \in of})
                     /\ \E r \in of : a.evidence = Evidence(r)
                     /\ \A r \in of : Evidence(r).conf <= a.evidence.conf

\* More traffic and more confidence never take an element out of a document:
\* only a fresh proposal (which turns "observed" into "unknown"), a lowered
\* confidence or a claim that moves to another subject does.
MoreEvidenceNeverDemotes ==
    [][(/\ Len(claims') = Len(claims)
        /\ \A i \in DOMAIN claims : /\ claims'[i].subject = claims[i].subject
                                    /\ claims[i].conf <= claims'[i].conf)
       => \A floor \in Floors : Accepted(floor) \subseteq Accepted(floor)']_vars

=============================================================================
