------------------------------ MODULE EvidenceKb ------------------------------
(***************************************************************************)
(* The claims of the evidence KB and the policy gate before them:          *)
(* apire/kb.py (save_claim, _verify_class, _link_contradictions) behind    *)
(* apire/semantics.py (propose, raise_confidence, link), over the frames   *)
(* and labels of Correlate.                                                *)
(*                                                                         *)
(* One tool call runs at a time (`call`); listener threads append frames   *)
(* and save kb.json at any moment in between.  save_claim verifies the     *)
(* provenance record by record, each against the frames of that moment,    *)
(* changes the claim in memory, saves, and then links it with its rivals,  *)
(* with one save for each of them.                                         *)
(*                                                                         *)
(* Abstractions: confidences are whole percents; a level is a function of  *)
(* the confidence; a subject is an observation (a key), a frame, a claim,  *)
(* or some other name; notes, details and dates are left out.              *)
(***************************************************************************)
EXTENDS Correlate, Integers, SequencesExt

CONSTANTS
    ClaimIds,       \* ids that save_claim may draw
    Subjects,       \* what clients propose names for
    Names,          \* well-formed names
    Classes,        \* provenance classes that clients attach
    Afters,         \* sequence numbers that they cite for an order in time
    Confidences,    \* confidences that clients ask for, in percent
    MaxRevisions,   \* bound on the history of a claim
    Faults          \* TRUE: a save may fail, and the server may be restarted

\* CLASSES: the highest confidence a class supports, and which of them the
\* policy calls verifiable.
Cap(cls) ==
    CASE cls = "captured_traffic"              -> 95
      [] cls = "differential_exclusive"        -> 80
      [] cls = "temporal_correlation"          -> 60
      [] cls = "cross_transport_corroboration" -> 70
      [] cls = "schema_induction"              -> 60
      [] cls = "field_discrimination"          -> 70
      [] cls = "js_static_analysis"            -> 40
      [] cls = "string_reference"              -> 30
      [] cls = "authoritative_spec"            -> 100
      [] cls = "human_observation_label"       -> 95
      [] cls = "community_source"              -> 50
      [] cls = "llm_proposal"                  -> 0

Asserted == {"authoritative_spec", "human_observation_label", "community_source", "llm_proposal"}

Verifiable == {"captured_traffic", "differential_exclusive", "temporal_correlation",
               "cross_transport_corroboration", "schema_induction",
               "field_discrimination", "js_static_analysis", "string_reference"}

KnownClasses == Verifiable \cup Asserted

CorroborationThreshold == 40

ASSUME EvidenceAssumption ==
    /\ Classes \subseteq KnownClasses
    /\ Afters \subseteq Int
    /\ Confidences \subseteq 0..100
    /\ MaxRevisions \in Nat
    /\ Faults \in BOOLEAN

\* Provenance records, with the fields their verifiers read.  Every class but
\* llm_proposal must cite an artifact; a record without one is refused.
Exclusive == [class : {"differential_exclusive"}, caps : SUBSET Captures \ {{}},
              key : Keys, label : Labels]
Temporal  == [class : {"temporal_correlation"}, cap : Captures, after : Afters]
Schema    == [class : {"schema_induction"}, key : Keys]
Plain     == [class : KnownClasses \ {"differential_exclusive", "temporal_correlation",
                                      "schema_induction"}]
Evidence  == {p \in Exclusive \cup Temporal \cup Schema \cup Plain : p.class \in Classes}

Proposal == [class |-> "llm_proposal"]

VARIABLES
    claims,     \* the claims in memory
    stored,     \* the claims of kb.json
    call        \* the tool call inside save_claim

kbVars == <<claims, stored, call>>
vars   == <<correlateVars, kbVars>>

None   == [kind |-> "none"]
Exists(id) == claims[id].kind # "none"

Idle == [pc |-> "idle"]

EvidenceInit ==
    /\ CorrelateInit
    /\ claims = [id \in ClaimIds |-> None]
    /\ stored = [id \in ClaimIds |-> None]
    /\ call = Idle

-----------------------------------------------------------------------------
(* The policy gate.                                                         *)

\* What save_claim refuses before it looks at any frame.
Gate(prov, conf) ==
    LET classes == {p.class : p \in prov} IN
    /\ prov # {}
    /\ conf <= Max({Cap(cls) : cls \in classes})
    /\ conf > CorroborationThreshold => Cardinality(classes) >= 2

\* find_observation builds the observations of all captures.
Observed(s) == Builds(Captures) /\ Group(Captures, s) # {}

\* The id of a frame, and what is the id of one in the store.
FrameId(i) == <<"frm", i>>
IsFrame(s) == \E i \in DOMAIN log : s = FrameId(i)

\* The shape of an observation has an entry for each field that a body has, for the
\* status if there is one only, and for the payload around the bodies as long
\* as none of them is a dictionary.
HasShape(k) ==
    LET seen == Seen(Captures, k) IN
    \/ \A b \in seen : b.is = "none"
    \/ \E b \in seen : b.is \notin {"empty", "none"}
    \/ Cardinality({b.status : b \in seen}) = 1

\* _verify_class.  Any other class has no verifier and passes.  A verifier that
\* raises refuses the claim as well.
Verify(s, p) ==
    CASE p.class = "captured_traffic" ->
            (s \in Keys /\ Observed(s)) \/ IsFrame(s)
      [] p.class = "differential_exclusive" ->
            RecomputeExclusive(p.caps, p.key, <<"label", p.label>>)
      [] p.class = "temporal_correlation" ->
            /\ Observed(s)
            /\ \E i \in Sightings(Captures, s) : log[i].cap = p.cap /\ log[i].seq > p.after
      [] p.class = "schema_induction" -> Observed(p.key) /\ HasShape(p.key)
      [] OTHER -> TRUE

-----------------------------------------------------------------------------
(* The three tool calls that save a claim.                                  *)

Claim(s, kind, value, conf, prov) ==
    [kind |-> kind, subject |-> s, value |-> value, conf |-> conf, prov |-> prov,
     history |-> <<>>, rivals |-> {}]

\* The call passes the gate; `todo` is what is left to verify.
Begin(id, claim) ==
    /\ call = Idle
    /\ Gate(claim.prov, claim.conf)
    /\ call' = [pc |-> "verify", id |-> id, claim |-> claim, todo |-> claim.prov]
    /\ UNCHANGED <<correlateVars, claims, stored>>

\* propose: an observation must be in the store; any other subject is taken
\* as it is.
Propose(id, s, name) ==
    /\ ~Exists(id)
    /\ s \in Keys => Observed(s)
    /\ Begin(id, Claim(s, "semantic_name", name, 0, {Proposal}))

\* raise_confidence: the old provenance and the new, under the same gate.
AttachEvidence(id, p, conf) ==
    /\ Exists(id)
    /\ Len(claims[id].history) < MaxRevisions
    /\ Begin(id, [claims[id] EXCEPT !.prov = @ \cup {p}, !.conf = conf])

\* link: a claim about a claim.
Link(id, of, related) ==
    /\ ~Exists(id) /\ Exists(of)
    /\ \A r \in related : Exists(r)
    /\ Begin(id, Claim(of, "relationship", related, 0, {Proposal}))

\* Mutant: the answer of the verifier is not looked at.
VerifyNone ==
    /\ call.pc = "verify"
    /\ \E p \in call.todo : call' = [call EXCEPT !.todo = @ \ {p}]
    /\ UNCHANGED <<correlateVars, claims, stored>>

\* One record is verified, or refuses the whole claim.
VerifyOne ==
    /\ call.pc = "verify"
    /\ \E p \in call.todo :
          call' = IF Verify(call.claim.subject, p) THEN [call EXCEPT !.todo = @ \ {p}] ELSE Idle
    /\ UNCHANGED <<correlateVars, claims, stored>>

\* _save_kb under the store's lock, or its failure.
Saves == stored' = claims'
SaveRaises == Faults /\ stored' = stored

\* Mutant: a revision overwrites.
RevisedInPlace(old, new) == new

\* A revision keeps what it supersedes.
Revised(old, new) ==
    IF old.kind = "none" \/ (old.conf = new.conf /\ old.value = new.value)
    THEN new
    ELSE [new EXCEPT !.history = Append(@, [value |-> old.value, conf |-> old.conf])]

\* The claim changes in memory and is saved.
Commit ==
    /\ call.pc = "verify" /\ call.todo = {}
    /\ claims' = [claims EXCEPT ![call.id] = Revised(@, call.claim)]
    /\ \/ Saves /\ call' = [pc |-> "rivals", id |-> call.id]
       \/ SaveRaises /\ call' = Idle
    /\ UNCHANGED correlateVars

\* Claims of one kind about one subject argue when their values differ.
Argue(a, b) ==
    /\ a.kind # "none" /\ a.kind = b.kind
    /\ a.subject = b.subject /\ a.value # b.value

RivalsOf(id) == {r \in ClaimIds : Argue(claims[r], claims[id])}

\* Mutant: the rivals do not learn of the claim.
FindRivalsOneWay ==
    /\ call.pc = "rivals"
    /\ claims' = [claims EXCEPT ![call.id].rivals = RivalsOf(call.id)]
    /\ call' = [pc |-> "link", id |-> call.id, todo |-> {}]
    /\ UNCHANGED <<correlateVars, stored>>

\* _link_contradictions: the claim learns its rivals in memory ...
FindRivals ==
    /\ call.pc = "rivals"
    /\ claims' = [claims EXCEPT ![call.id].rivals = RivalsOf(call.id)]
    /\ call' = [pc |-> "link", id |-> call.id, todo |-> RivalsOf(call.id)]
    /\ UNCHANGED <<correlateVars, stored>>

\* ... and each rival learns of it, with a save of its own.
LinkRival ==
    /\ call.pc = "link"
    /\ \E r \in call.todo :
          /\ claims' = [claims EXCEPT ![r].rivals = @ \cup {call.id}]
          /\ \/ Saves /\ call' = [call EXCEPT !.todo = @ \ {r}]
             \/ SaveRaises /\ call' = Idle
    /\ UNCHANGED correlateVars

Return ==
    /\ call.pc = "link" /\ call.todo = {}
    /\ call' = Idle
    /\ UNCHANGED <<correlateVars, claims, stored>>

-----------------------------------------------------------------------------
(* The other actors.                                                        *)

\* A listener's append saves all of memory, half-linked claims included.
ListenerSaves ==
    /\ stored # claims
    /\ stored' = claims
    /\ UNCHANGED <<correlateVars, claims, call>>

\* The capture tool's label action is a tool call of its own.
Annotate(c, l) ==
    /\ call = Idle
    /\ Relabel(c, l)
    /\ UNCHANGED kbVars

Restart ==
    /\ Faults
    /\ claims' = stored
    /\ call' = Idle
    /\ UNCHANGED <<correlateVars, stored>>

EvidenceNext ==
    \/ \E c \in Captures, k \in Keys, b \in Payloads : Observe(c, k, b) /\ UNCHANGED kbVars
    \/ \E c \in Captures, l \in Labels \cup {NoLabel} : Annotate(c, l)
    \/ Tick /\ UNCHANGED kbVars
    \/ \E id \in ClaimIds, s \in Subjects, n \in Names : Propose(id, s, n)
    \/ \E id \in ClaimIds, p \in Evidence, conf \in Confidences : AttachEvidence(id, p, conf)
    \/ \E id, of \in ClaimIds, related \in SUBSET ClaimIds : Link(id, of, related)
    \/ VerifyOne \/ Commit
    \/ FindRivals \/ LinkRival \/ Return
    \/ ListenerSaves
    \/ Restart

EvidenceSpec == EvidenceInit /\ [][EvidenceNext]_vars

-----------------------------------------------------------------------------
(* Properties.                                                              *)

IsClaim(id, claim) ==
    /\ claim.kind \in {"semantic_name", "relationship"}
    /\ claim.prov \subseteq Evidence \cup {Proposal}
    /\ claim.conf \in Confidences \cup {0}
    /\ claim.rivals \subseteq ClaimIds \ {id}
    /\ Len(claim.history) <= MaxRevisions

\* The types of frames, claims and of the call under way; no claim is its own
\* rival.  A conjunct of FirmEvidenceHolds.
EvidenceTypeOK ==
    /\ CorrelateTypeOK
    /\ \A id \in ClaimIds : claims[id] # None => IsClaim(id, claims[id])
    /\ \A id \in ClaimIds : stored[id] # None => IsClaim(id, stored[id])
    /\ call.pc \in {"idle", "verify", "rivals", "link"}

InForce(kb) == {kb[id] : id \in {i \in ClaimIds : kb[i] # None}}

\* What the frames have for a record, and will have for ever: for an order in
\* time, a frame that the seconds before it left among the sightings.
Before(s, i) == {j \in Group(Captures, s) : log[j].ts < log[i].ts}
Since(s, p)  ==
    {i \in Group(Captures, s) : log[i].cap = p.cap /\ log[i].seq > p.after
                                  /\ Cardinality(Before(s, i)) < MaxSightings}

Backed(s, p) ==
    CASE p.class = "captured_traffic" ->
            Group(Captures, s) # {} \/ IsFrame(s)
      [] p.class = "temporal_correlation" -> Since(s, p) # {}
      [] p.class = "schema_induction" -> Group(Captures, p.key) # {}
      [] OTHER -> TRUE

\* What hides it from the verifier all the same: a number and a text in one field;
\* as many sightings of the same second; dictionaries without a field.
Crowded(s, i) ==
    Cardinality({j \in Group(Captures, s) : log[j].ts <= log[i].ts}) > MaxSightings

Hidden(s, p) ==
    \/ ~Builds(Captures) /\ ~(p.class = "captured_traffic" /\ IsFrame(s))
    \/ p.class = "temporal_correlation" /\ \A i \in Since(s, p) : Crowded(s, i)
    \/ p.class = "schema_induction" /\ ~HasShape(p.key)

\* "A claim that cannot re-derive from captured evidence does not exist" (kb.py):
\* a claim that was once verified by captured traffic, by an order in time or
\* by a schema has its frames for ever, whatever was captured while it was saved
\* and after; and it verifies again, but for the three cases of Hidden.
FirmEvidenceHolds ==
    EvidenceTypeOK /\ \A claim \in InForce(claims) \cup InForce(stored) : \A p \in claim.prov :
       Backed(claim.subject, p)
         /\ (p.class \in {"captured_traffic", "temporal_correlation", "schema_induction"}
               => Verify(claim.subject, p) \/ Hidden(claim.subject, p))

\* Rivals know each other (test_kb.py: "rival interpretations must be linked"):
\* when save_claim is about to return, kb.json holds the claim and every rival
\* of it, each in the other's list, whatever listeners have saved in between.
\* (A call that a failing save cuts short leaves its rivals unlinked.)
RivalsLinked ==
    call.pc = "link" /\ call.todo = {} =>
       \A r \in RivalsOf(call.id) :
          r \in stored[call.id].rivals /\ call.id \in stored[r].rivals

\* A claim is never silently rewritten (evidence-model.md): when kb.json changes
\* the value or the confidence of a claim, the claim's history keeps the old
\* pair, and all that it held before, across failed saves and restarts.
NeverSilentlyRewritten ==
    [][\A id \in ClaimIds :
          LET old == stored[id]  new == stored'[id] IN
          old # None =>
             /\ new # None /\ IsPrefix(old.history, new.history)
             /\ <<new.value, new.conf>> # <<old.value, old.conf>> =>
                   \E i \in (Len(old.history) + 1)..Len(new.history) :
                      new.history[i] = [value |-> old.value, conf |-> old.conf]]_vars

=============================================================================
