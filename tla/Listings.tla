-------------------------------- MODULE Listings --------------------------------
(***************************************************************************)
(* What the reading tools answer about the frames and claims of Exports:   *)
(* the listings of server.py (api_re_observations, api_re_protocol,        *)
(* api_re_evidence) over apire/project.py, the unknowns and contradictions *)
(* of apire/kb.py, and the experiments of apire/experiments.py, which turn *)
(* the open questions into proposals.  An answer is cut at the limit that  *)
(* the caller asks for, and says whether it was.                           *)
(*                                                                         *)
(* A row is left of what it names: an observation, or a claim by its place *)
(* in `claims`.  Claims that argue know each other (RivalsLinked of        *)
(* EvidenceKb).  Shapes, wording and the filters by kind, prefix, class    *)
(* and level are left out.                                                 *)
(***************************************************************************)
EXTENDS Exports

CONSTANTS
    Limits,        \* the limits that callers ask for
    UnknownsCut,   \* rows that the unknowns keep: 100 in the code
    Unlabelled     \* captures that have frames and no label

ASSUME ListingsAssumption ==
    Limits \subseteq Nat /\ UnknownsCut \in Nat /\ Unlabelled \in Nat

Cut(rows, n) == SubSeq(rows, 1, Min({n, Len(rows)}))

\* The two ways to answer: count, then cut; or cut, then guess.
CountThenCut(rows, limit) == [rows |-> Cut(rows, limit), truncated |-> Len(rows) > limit]
CutThenCount(rows, limit) ==
    [rows |-> Cut(rows, limit), truncated |-> Len(Cut(rows, limit)) >= limit]

-----------------------------------------------------------------------------
(* Observations and endpoints.                                              *)

\* By falling number of sightings; of equals the one seen first.
Ahead(a, b) == \/ Sightings(a) > Sightings(b)
               \/ Sightings(a) = Sightings(b) /\ FirstSeen(a) < FirstSeen(b)

Ranked(S) == Sorted(S, Ahead)

\* semantic_for: the strongest claim on an observation, of equals the oldest;
\* 0 without any.
Semantic(o) ==
    LET on == {i \in DOMAIN claims : claims[i].subject = o} IN
    IF on = {} THEN 0
    ELSE CHOOSE i \in on : \A j \in on : \/ claims[i].conf > claims[j].conf
                                         \/ claims[i].conf = claims[j].conf /\ i <= j

\* observations list
ObservationRows(limit) == CountThenCut(Ranked(Seen), limit)

\* endpoints: of several requests with one template the last one stands for all.
LastOf(t) ==
    CHOOSE r \in SeenRequests :
       /\ Template(r) = t
       /\ \A q \in SeenRequests : Template(q) = t => FirstSeen(q) <= FirstSeen(r)

EndpointRows(limit) ==
    CountThenCut(Ranked({LastOf(Template(r)) : r \in SeenRequests}), limit)

-----------------------------------------------------------------------------
(* Open questions.                                                          *)

\* Observations with no claim at or above the floor of HYPOTHESIS, cut.
IsUnknown(o) == \A i \in DOMAIN claims : claims[i].subject = o => claims[i].conf < 10
Unknowns     == Cut(Ranked({o \in Seen : IsUnknown(o)}), UnknownsCut)

UnknownRows(limit) == CountThenCut(Unknowns, limit)

\* The rows of the experiments, by what they cite in their evidence_refs; a
\* capture is not told apart.
Row(kind, about, cited) == [kind |-> kind, claims |-> about, observations |-> cited]

\* Mutant: claims above the corroboration threshold are not asked about.
RaisableAt40 == {i \in DOMAIN claims : claims[i].conf < 40}

Raisable == {i \in DOMAIN claims : claims[i].conf < 80}

\* By falling confidence; of equals the older one.
Stronger(i, j) == \/ claims[i].conf > claims[j].conf
                  \/ claims[i].conf = claims[j].conf /\ i < j

RaiseRows ==
    LET order == Sorted(Raisable, Stronger)
    IN  [k \in DOMAIN order |-> Row("raise_claim", {order[k]}, {claims[order[k]].subject})]

\* Subjects are hashes: their order is any order.
ContradictionRows ==
    LET rivals == SetToSeq({i \in DOMAIN claims : RivalsOf(claims, i) # {}})
    IN  [k \in DOMAIN rivals |->
            Row("resolve_contradiction", {rivals[k]} \cup RivalsOf(claims, rivals[k]), {})]

LabelRows == [k \in 1..(IF log = <<>> THEN 0 ELSE Unlabelled) |-> Row("label_capture", {}, {})]

\* propose; what is left of the limit goes to the unknowns.
Experiments(limit) ==
    LET known == RaiseRows \o ContradictionRows \o LabelRows
        room  == IF limit > Len(known) THEN limit - Len(known) ELSE 0
        asked == Cut(Unknowns, room)
    IN  CutThenCount(known \o [k \in DOMAIN asked |-> Row("interpret_unknown", {}, {asked[k]})],
                     limit)

-----------------------------------------------------------------------------
(* Properties.                                                              *)

Answered(a) == {a.rows[k] : k \in DOMAIN a.rows}

\* An answer that does not say it is truncated has everything: each observation
\* is listed, each that no claim explains is among the unknowns, each template
\* of a request has its endpoint.
UntruncatedIsComplete ==
    \A limit \in Limits :
       /\ ~ObservationRows(limit).truncated => Answered(ObservationRows(limit)) = Seen
       /\ ~UnknownRows(limit).truncated =>
             Answered(UnknownRows(limit)) = {o \in Seen : IsUnknown(o)}
       /\ ~EndpointRows(limit).truncated =>
             {Template(r) : r \in Answered(EndpointRows(limit))} = {Template(r) : r \in SeenRequests}

\* Every observation is settled by a claim of at least 80 that nothing argues
\* with, or an experiment asks about it, if the experiments are not truncated.
SettledOrAsked ==
    \A limit \in Limits :
       LET asked == Answered(Experiments(limit)) IN
       ~Experiments(limit).truncated =>
          \A o \in Seen :
             \/ Semantic(o) # 0 /\ claims[Semantic(o)].conf >= 80
                                /\ RivalsOf(claims, Semantic(o)) = {}
             \/ \E row \in asked : \/ o \in row.observations
                                   \/ \E i \in row.claims : claims[i].subject = o

\* What the listings call explained is never missing from an export with the
\* floor of HYPOTHESIS, and no listing shows more confidence than the export of
\* the same request does.
ListedIsExported ==
    \A r \in SeenRequests :
       /\ ~IsUnknown(r) => Evidence(r).rank <= Rank(10)
       /\ Semantic(r) # 0 => claims[Semantic(r)].conf <= Evidence(r).conf

\* "The honesty surface" (docs/tool-surface.md): between the listings, the
\* experiments and the exports, which read the same claims through different
\* thresholds, no observation falls through.
NothingFallsThrough == UntruncatedIsComplete /\ SettledOrAsked /\ ListedIsExported

=============================================================================
