--------------------------- MODULE EvidenceKb_proofs ---------------------------
(* Theorems about Correlate and EvidenceKb, and about Induction, with their  *)
(* proofs: what APIRE concludes from frames, and what it stores of them.     *)
(* The two models share no state; Induction begins at LeastExists.           *)
EXTENDS EvidenceKb, Induction, FiniteSetTheorems, SequenceTheorems, TLAPS

Frames   == [cap : Captures, key : Keys, body : Payloads, seq : Nat, ts : Nat]
Values   == Names \cup SUBSET ClaimIds
Percents == Confidences \cup {0}
Versions == [value : Values, conf : Percents]

Claims ==
    [kind : {"semantic_name", "relationship"}, subject : Subjects \cup ClaimIds,
     value : Values, conf : Percents, prov : SUBSET (Evidence \cup {Proposal}),
     history : Seq(Versions), rivals : SUBSET ClaimIds]

Calls ==
    {Idle}
    \cup [pc : {"verify"}, id : ClaimIds, claim : Claims, todo : SUBSET (Evidence \cup {Proposal})]
    \cup [pc : {"rivals"}, id : ClaimIds]
    \cup [pc : {"link"}, id : ClaimIds, todo : SUBSET ClaimIds]

KbTypeOK ==
    /\ claims \in [ClaimIds -> Claims \cup {None}]
    /\ stored \in [ClaimIds -> Claims \cup {None}]
    /\ call \in Calls

\* What a call in save_claim knows about the claims: one it revises exists, and
\* keeps its subject, its value, its history and its rivals until it is saved.
CallKnows ==
    /\ call.pc = "verify" =>
          LET old == claims[call.id]  new == call.claim IN
          /\ new.prov # {} /\ Gate(new.prov, new.conf)
          /\ old = None  => new.history = <<>> /\ new.rivals = {}
          /\ old # None => /\ new.value = old.value /\ new.subject = old.subject
                           /\ new.kind = old.kind /\ new.rivals = old.rivals
                           /\ new.history = old.history /\ Len(old.history) < MaxRevisions
    /\ call.pc \in {"rivals", "link"} => claims[call.id] # None
    /\ call.pc = "link" => \A r \in call.todo : claims[r] # None /\ r # call.id

TypeInv == CorrelateTypeOK /\ KbTypeOK /\ CallKnows

-----------------------------------------------------------------------------
(* Types.                                                                    *)

\* What the type invariant says of one frame.
LEMMA FrameTypes ==
  ASSUME CorrelateTypeOK, NEW i \in DOMAIN log
  PROVE  /\ log[i].cap \in Captures /\ log[i].cap \in Nat /\ log[i].key \in Keys
         /\ log[i].seq \in Nat /\ log[i].ts \in Nat /\ log[i].ts <= clock /\ clock \in Nat
<1>1. log \in Seq(Frames) /\ log[i].ts <= clock /\ clock \in Nat
  BY DEF CorrelateTypeOK, Frames
<1>2. log[i] \in Frames
  BY <1>1
<1>. QED
  BY <1>1, <1>2, CorrelateAssumption DEF Frames

\* Frames, labels and the clock keep their types.
LEMMA CorrelateTypeStep == CorrelateTypeOK /\ [CorrelateNext]_correlateVars => CorrelateTypeOK'
<1> SUFFICES ASSUME CorrelateTypeOK, [CorrelateNext]_correlateVars PROVE CorrelateTypeOK'
  OBVIOUS
<1>1. ASSUME NEW c \in Captures, NEW k \in Keys, NEW b \in Payloads, Observe(c, k, b)
      PROVE  CorrelateTypeOK'
  <2>1. log \in Seq(Frames) /\ clock \in Nat
    BY DEF CorrelateTypeOK, Frames
  <2>2. Cardinality(FramesOf(c)) \in Nat
    <3>1. DOMAIN log = 1..Len(log) /\ Len(log) \in Nat
      BY <2>1
    <3>2. IsFiniteSet(DOMAIN log) /\ FramesOf(c) \in SUBSET DOMAIN log
      BY <3>1, FS_Interval DEF FramesOf
    <3>. QED
      BY <3>2, FS_Subset, FS_CardinalityType
  <2>. DEFINE f == [cap |-> c, key |-> k, body |-> b, seq |-> Cardinality(FramesOf(c)), ts |-> clock]
  <2>3. f \in Frames /\ f.ts = clock /\ log' = Append(log, f) /\ clock' = clock
    BY <1>1, <2>1, <2>2 DEF Frames, Observe
  <2>. HIDE DEF f
  <2>4. log' \in Seq(Frames)
    BY <2>1, <2>3, AppendProperties
  <2>5. \A i \in DOMAIN log' : log'[i].ts <= clock
    <3>1. DOMAIN log' = 1..(Len(log) + 1) /\ DOMAIN log = 1..Len(log) /\ Len(log) \in Nat
      BY <2>1, <2>3
    <3>2. \A i \in DOMAIN log' : log'[i] = f \/ (i \in DOMAIN log /\ log'[i] = log[i])
      BY <2>1, <2>3, <3>1
    <3>. QED
      BY <2>1, <2>3, <3>2 DEF CorrelateTypeOK
  <2>. QED
    BY <1>1, <2>3, <2>4, <2>5 DEF Observe, CorrelateTypeOK, Frames
<1>2. ASSUME NEW c \in Captures, NEW l \in Labels \cup {NoLabel}, Relabel(c, l)
      PROVE  CorrelateTypeOK'
  BY <1>2 DEF Relabel, CorrelateTypeOK
<1>3. CASE Tick
  <2>1. \A i \in DOMAIN log : log[i].ts \in Nat /\ log[i].ts <= clock
    BY FrameTypes
  <2>2. clock \in Nat /\ clock' = clock + 1 /\ UNCHANGED <<log, label>>
    BY <1>3 DEF Tick, CorrelateTypeOK
  <2>3. \A i \in DOMAIN log' : log'[i].ts <= clock'
    BY <2>1, <2>2
  <2>. QED
    BY <2>2, <2>3 DEF CorrelateTypeOK
<1>4. CASE UNCHANGED correlateVars
  BY <1>4 DEF correlateVars, CorrelateTypeOK
<1>. QED
  BY <1>1, <1>2, <1>3, <1>4 DEF CorrelateNext

\* They have them in the beginning.
LEMMA CorrelateTypeInitial == CorrelateInit => CorrelateTypeOK
BY DEF CorrelateInit, CorrelateTypeOK

\* The steps of EvidenceNext, by what they do to the frames and to the call.
FramesStep == CorrelateNext /\ UNCHANGED kbVars
BeginStep ==
    \/ \E id \in ClaimIds, s \in Subjects, n \in Names : Propose(id, s, n)
    \/ \E id \in ClaimIds, p \in Evidence, conf \in Confidences : AttachEvidence(id, p, conf)
    \/ \E id, of \in ClaimIds, related \in SUBSET ClaimIds : Link(id, of, related)

\* Every step is one of these.
LEMMA StepKinds ==
  ASSUME [EvidenceNext]_vars
  PROVE  \/ FramesStep \/ BeginStep
         \/ VerifyOne \/ Commit \/ FindRivals \/ LinkRival \/ Return
         \/ ListenerSaves \/ Restart \/ UNCHANGED vars
BY DEF EvidenceNext, FramesStep, BeginStep, CorrelateNext, Annotate

\* Only frames, labels and time change the state of Correlate.
LEMMA CorrelateStep == [EvidenceNext]_vars => [CorrelateNext]_correlateVars
<1> SUFFICES ASSUME [EvidenceNext]_vars PROVE [CorrelateNext]_correlateVars
  OBVIOUS
<1>1. CASE BeginStep
  BY <1>1 DEF BeginStep, Propose, AttachEvidence, Link, Begin
<1>2. CASE FramesStep \/ VerifyOne \/ Commit \/ FindRivals \/ LinkRival \/ Return
           \/ ListenerSaves \/ Restart
  BY <1>2 DEF FramesStep, VerifyOne, Commit, FindRivals, LinkRival, Return, ListenerSaves, Restart
<1>3. CASE UNCHANGED vars
  BY <1>3 DEF vars
<1>. QED
  BY <1>1, <1>2, <1>3, StepKinds

\* A call that begins has a well-formed claim that passed the gate.
LEMMA BeginEffect ==
  ASSUME KbTypeOK, BeginStep
  PROVE  \E id \in ClaimIds, new \in Claims :
            /\ call = Idle
            /\ call' = [pc |-> "verify", id |-> id, claim |-> new, todo |-> new.prov]
            /\ UNCHANGED <<claims, stored>>
            /\ Gate(new.prov, new.conf)
            /\ \/ claims[id] = None /\ new.history = <<>> /\ new.rivals = {} /\ new.prov = {Proposal}
               \/ /\ claims[id] # None
                  /\ new.value = claims[id].value /\ new.subject = claims[id].subject
                  /\ new.kind = claims[id].kind /\ new.rivals = claims[id].rivals
                  /\ new.history = claims[id].history /\ Len(new.history) < MaxRevisions
                  /\ claims[id].prov \subseteq new.prov
<1>0. \A id \in ClaimIds : Exists(id) <=> claims[id] \in Claims /\ claims[id] # None
  BY DEF Exists, None, KbTypeOK, Claims
<1>e. <<>> \in Seq(Versions) /\ 0 \in Percents /\ {} \in SUBSET ClaimIds
  BY DEF Percents
<1>1. ASSUME NEW id \in ClaimIds, NEW s \in Subjects, NEW n \in Names, Propose(id, s, n)
      PROVE  \E new \in Claims :
                /\ Begin(id, new) /\ claims[id] = None
                /\ new.history = <<>> /\ new.rivals = {} /\ new.prov = {Proposal}
  <2>. DEFINE new == Claim(s, "semantic_name", n, 0, {Proposal})
  <2>1. new \in Claims
    BY <1>e DEF Claim, Claims, Values
  <2>2. new.history = <<>> /\ new.rivals = {} /\ new.prov = {Proposal}
    BY DEF Claim
  <2>3. claims[id] = None
    BY <1>1, <1>0 DEF Propose, KbTypeOK, Exists, Claims
  <2>. QED
    BY <1>1, <2>1, <2>2, <2>3 DEF Propose
<1>2. ASSUME NEW id \in ClaimIds, NEW of \in ClaimIds, NEW related \in SUBSET ClaimIds,
             Link(id, of, related)
      PROVE  \E new \in Claims :
                /\ Begin(id, new) /\ claims[id] = None
                /\ new.history = <<>> /\ new.rivals = {} /\ new.prov = {Proposal}
  <2>. DEFINE new == Claim(of, "relationship", related, 0, {Proposal})
  <2>1. new \in Claims
    BY <1>e DEF Claim, Claims, Values
  <2>2. new.history = <<>> /\ new.rivals = {} /\ new.prov = {Proposal}
    BY DEF Claim
  <2>3. claims[id] = None
    BY <1>2, <1>0 DEF Link, KbTypeOK, Exists, Claims
  <2>. QED
    BY <1>2, <2>1, <2>2, <2>3 DEF Link
<1>3. ASSUME NEW id \in ClaimIds, NEW p \in Evidence, NEW conf \in Confidences,
             AttachEvidence(id, p, conf)
      PROVE  \E new \in Claims :
                /\ Begin(id, new) /\ claims[id] # None
                /\ new.value = claims[id].value /\ new.subject = claims[id].subject
                /\ new.kind = claims[id].kind /\ new.rivals = claims[id].rivals
                /\ new.history = claims[id].history /\ Len(new.history) < MaxRevisions
                /\ claims[id].prov \subseteq new.prov
  <2>. DEFINE new == [claims[id] EXCEPT !.prov = claims[id].prov \cup {p}, !.conf = conf]
  <2>0. claims[id] \in Claims /\ claims[id] # None
    BY <1>3, <1>0 DEF AttachEvidence
  <2>1. new \in Claims
    BY <2>0 DEF Claims, Percents
  <2>2. /\ new.value = claims[id].value /\ new.subject = claims[id].subject
        /\ new.kind = claims[id].kind /\ new.rivals = claims[id].rivals
        /\ new.history = claims[id].history
        /\ claims[id].prov \subseteq new.prov
    BY <2>0 DEF Claims
  <2>3. Begin(id, new) /\ Len(new.history) < MaxRevisions
    BY <1>3, <2>2 DEF AttachEvidence
  <2>. QED
    BY <2>0, <2>1, <2>2, <2>3
<1>4. CASE \E id \in ClaimIds, s \in Subjects, n \in Names : Propose(id, s, n)
  BY <1>1, <1>4 DEF Begin
<1>5. CASE \E id \in ClaimIds, p \in Evidence, conf \in Confidences : AttachEvidence(id, p, conf)
  BY <1>3, <1>5 DEF Begin
<1>6. CASE \E id, of \in ClaimIds, related \in SUBSET ClaimIds : Link(id, of, related)
  BY <1>2, <1>6 DEF Begin
<1>. QED
  BY <1>4, <1>5, <1>6 DEF BeginStep

\* What the claim under the call's id becomes in memory.
LEMMA RevisedEffect ==
  ASSUME NEW old \in Claims \cup {None}, NEW new \in Claims
  PROVE  /\ Revised(old, new) \in Claims
         /\ Revised(old, new).kind = new.kind /\ Revised(old, new).subject = new.subject
         /\ Revised(old, new).value = new.value /\ Revised(old, new).conf = new.conf
         /\ Revised(old, new).prov = new.prov /\ Revised(old, new).rivals = new.rivals
         /\ \/ Revised(old, new).history = new.history
               /\ (old = None \/ (old.conf = new.conf /\ old.value = new.value))
            \/ /\ old # None
               /\ [value |-> old.value, conf |-> old.conf] \in Versions
               /\ Revised(old, new).history
                    = Append(new.history, [value |-> old.value, conf |-> old.conf])
<1>1. CASE old.kind = "none" \/ (old.conf = new.conf /\ old.value = new.value)
  <2>1. Revised(old, new) = new
    BY <1>1 DEF Revised
  <2>2. old.kind = "none" => old = None
    BY DEF Claims
  <2>. QED
    BY <1>1, <2>1, <2>2
<1>2. CASE ~(old.kind = "none" \/ (old.conf = new.conf /\ old.value = new.value))
  <2>. DEFINE version == [value |-> old.value, conf |-> old.conf]
              longer  == Append(new.history, version)
  <2>1. old \in Claims /\ old # None
    BY <1>2 DEF None
  <2>2. version \in Versions /\ new.history \in Seq(Versions)
    BY <2>1 DEF Claims, Versions
  <2>3. longer \in Seq(Versions)
    BY <2>2, AppendProperties
  <2>4. Revised(old, new) = [new EXCEPT !.history = longer]
    BY <1>2, Zenon DEF Revised
  <2>. HIDE DEF longer
  <2>5. /\ Revised(old, new) \in Claims
        /\ Revised(old, new).kind = new.kind /\ Revised(old, new).subject = new.subject
        /\ Revised(old, new).value = new.value /\ Revised(old, new).conf = new.conf
        /\ Revised(old, new).prov = new.prov /\ Revised(old, new).rivals = new.rivals
        /\ Revised(old, new).history = longer
    BY <2>3, <2>4 DEF Claims
  <2>. QED
    BY <2>1, <2>2, <2>5 DEF longer
<1>. QED
  BY <1>1, <1>2

\* Claims exist exactly when they are no None.
LEMMA NoneIsNoClaim == None \notin Claims
BY DEF None, Claims

\* The types are kept by every step.
LEMMA TypeStep == TypeInv /\ [EvidenceNext]_vars => TypeInv'
<1> SUFFICES ASSUME TypeInv, [EvidenceNext]_vars PROVE TypeInv'
  OBVIOUS
<1>t. KbTypeOK /\ CallKnows
  BY DEF TypeInv
<1>c. CorrelateTypeOK'
  BY CorrelateStep, CorrelateTypeStep DEF TypeInv
<1>1. CASE FramesStep \/ UNCHANGED vars
  <2>1. UNCHANGED kbVars
    BY <1>1 DEF FramesStep, vars
  <2>. QED
    BY <1>c, <1>t, <2>1 DEF TypeInv, KbTypeOK, CallKnows, kbVars
<1>2. CASE BeginStep
  <2>1. PICK id \in ClaimIds, new \in Claims :
            /\ call' = [pc |-> "verify", id |-> id, claim |-> new, todo |-> new.prov]
            /\ UNCHANGED <<claims, stored>>
            /\ Gate(new.prov, new.conf)
            /\ \/ claims[id] = None /\ new.history = <<>> /\ new.rivals = {}
               \/ /\ claims[id] # None
                  /\ new.value = claims[id].value /\ new.subject = claims[id].subject
                  /\ new.kind = claims[id].kind /\ new.rivals = claims[id].rivals
                  /\ new.history = claims[id].history /\ Len(new.history) < MaxRevisions
    BY <1>2, <1>t, BeginEffect
  <2>2. new.prov \in SUBSET (Evidence \cup {Proposal})
    BY DEF Claims
  <2>3. KbTypeOK'
    BY <1>t, <2>1, <2>2 DEF KbTypeOK, Calls
  <2>4. new.prov # {}
    BY <2>1 DEF Gate
  <2>5. CallKnows'
    BY <2>1, <2>4 DEF CallKnows
  <2>. QED
    BY <1>c, <2>3, <2>5 DEF TypeInv
<1>3. CASE VerifyOne
  <2>1. /\ UNCHANGED <<claims, stored>> /\ call.pc = "verify"
        /\ call \in [pc : {"verify"}, id : ClaimIds, claim : Claims,
                     todo : SUBSET (Evidence \cup {Proposal})]
    BY <1>3, <1>t DEF VerifyOne, KbTypeOK, Calls, Idle
  <2>2. CASE call' = Idle
    BY <1>t, <1>c, <2>1, <2>2 DEF TypeInv, KbTypeOK, CallKnows, Calls, Idle
  <2>3. ASSUME NEW p \in call.todo, call' = [call EXCEPT !.todo = call.todo \ {p}]
        PROVE  TypeInv'
    <3>1. /\ call' \in [pc : {"verify"}, id : ClaimIds, claim : Claims,
                        todo : SUBSET (Evidence \cup {Proposal})]
          /\ call'.id = call.id /\ call'.claim = call.claim
      BY <2>1, <2>3
    <3>2. KbTypeOK'
      BY <1>t, <2>1, <3>1 DEF KbTypeOK, Calls
    <3>3. CallKnows'
      BY <1>t, <2>1, <3>1 DEF CallKnows
    <3>. QED
      BY <1>c, <3>2, <3>3 DEF TypeInv
  <2>. QED
    BY <1>3, <2>2, <2>3 DEF VerifyOne
<1>4. CASE Commit
  <2>1. call.pc = "verify" /\ call.id \in ClaimIds /\ call.claim \in Claims
    BY <1>4, <1>t DEF Commit, KbTypeOK, Calls, Idle
  <2>2. Revised(claims[call.id], call.claim) \in Claims
    BY <1>t, <2>1, RevisedEffect DEF KbTypeOK
  <2>3. /\ claims' \in [ClaimIds -> Claims \cup {None}]
        /\ claims'[call.id] \in Claims
    BY <1>4, <1>t, <2>1, <2>2 DEF Commit, KbTypeOK
  <2>4. stored' \in [ClaimIds -> Claims \cup {None}]
    BY <1>4, <1>t, <2>3 DEF Commit, Saves, SaveRaises, KbTypeOK
  <2>5. call' = Idle \/ call' = [pc |-> "rivals", id |-> call.id]
    BY <1>4 DEF Commit
  <2>6. KbTypeOK'
    BY <2>1, <2>3, <2>4, <2>5 DEF KbTypeOK, Calls
  <2>7. CallKnows'
    BY <2>3, <2>5, NoneIsNoClaim DEF CallKnows, Idle
  <2>. QED
    BY <1>c, <2>6, <2>7 DEF TypeInv
<1>5. CASE FindRivals
  <2>1. call.pc = "rivals" /\ call.id \in ClaimIds
    BY <1>5, <1>t DEF FindRivals, KbTypeOK, Calls, Idle
  <2>2. claims[call.id] \in Claims
    BY <1>t, <2>1 DEF KbTypeOK, CallKnows
  <2>3. RivalsOf(call.id) \in SUBSET ClaimIds
    BY DEF RivalsOf
  <2>. DEFINE new == [claims[call.id] EXCEPT !.rivals = RivalsOf(call.id)]
  <2>4. new \in Claims
    BY <2>2, <2>3 DEF Claims
  <2>5. claims' = [claims EXCEPT ![call.id] = new]
    BY <1>5, Zenon DEF FindRivals
  <2>. HIDE DEF new
  <2>6. /\ claims' \in [ClaimIds -> Claims \cup {None}] /\ claims'[call.id] \in Claims
        /\ \A r \in ClaimIds : claims[r] # None => claims'[r] # None
    BY <1>t, <2>1, <2>4, <2>5, NoneIsNoClaim DEF KbTypeOK
  <2>7. \A r \in RivalsOf(call.id) : claims[r] # None /\ r # call.id
    BY DEF RivalsOf, Argue, None
  <2>8. /\ call' = [pc |-> "link", id |-> call.id, todo |-> RivalsOf(call.id)] /\ stored' = stored
    BY <1>5 DEF FindRivals
  <2>9. KbTypeOK'
    BY <1>t, <2>1, <2>3, <2>6, <2>8 DEF KbTypeOK, Calls
  <2>10. CallKnows'
    BY <2>3, <2>6, <2>7, <2>8, NoneIsNoClaim DEF CallKnows
  <2>. QED
    BY <1>c, <2>9, <2>10 DEF TypeInv
<1>6. CASE LinkRival
  <2>1. /\ call.pc = "link" /\ call.id \in ClaimIds
        /\ call \in [pc : {"link"}, id : ClaimIds, todo : SUBSET ClaimIds]
    BY <1>6, <1>t DEF LinkRival, KbTypeOK, Calls, Idle
  <2>2. PICK r \in call.todo :
          /\ claims' = [claims EXCEPT ![r].rivals = @ \cup {call.id}]
          /\ \/ Saves /\ call' = [call EXCEPT !.todo = @ \ {r}]
             \/ SaveRaises /\ call' = Idle
    BY <1>6 DEF LinkRival
  <2>. DEFINE new == [claims[r] EXCEPT !.rivals = claims[r].rivals \cup {call.id}]
  <2>3. r \in ClaimIds /\ claims[r] \in Claims
    BY <1>t, <2>1 DEF KbTypeOK, CallKnows
  <2>4. new \in Claims
    BY <2>1, <2>3 DEF Claims
  <2>5. claims' = [claims EXCEPT ![r] = new]
    BY <2>2, Zenon
  <2>. HIDE DEF new
  <2>6. /\ claims' \in [ClaimIds -> Claims \cup {None}]
        /\ \A d \in ClaimIds : claims[d] # None => claims'[d] # None
    BY <1>t, <2>3, <2>4, <2>5, NoneIsNoClaim DEF KbTypeOK
  <2>7. stored' \in [ClaimIds -> Claims \cup {None}]
    BY <1>t, <2>2, <2>6 DEF KbTypeOK, Saves, SaveRaises
  <2>8. CASE call' = Idle
    BY <1>c, <2>6, <2>7, <2>8 DEF TypeInv, KbTypeOK, CallKnows, Calls, Idle
  <2>9. CASE call' = [call EXCEPT !.todo = @ \ {r}]
    <3>1. /\ call' \in [pc : {"link"}, id : ClaimIds, todo : SUBSET ClaimIds]
          /\ call'.id = call.id /\ call'.todo \subseteq call.todo
      BY <2>1, <2>9
    <3>2. KbTypeOK'
      BY <2>6, <2>7, <3>1 DEF KbTypeOK, Calls
    <3>3. CallKnows'
      BY <1>t, <2>1, <2>6, <3>1 DEF CallKnows
    <3>. QED
      BY <1>c, <3>2, <3>3 DEF TypeInv
  <2>. QED
    BY <2>2, <2>8, <2>9
<1>7. CASE Return
  BY <1>7, <1>t, <1>c DEF Return, TypeInv, KbTypeOK, CallKnows, Calls, Idle
<1>8. CASE ListenerSaves
  BY <1>8, <1>t, <1>c DEF ListenerSaves, TypeInv, KbTypeOK, CallKnows
<1>9. CASE Restart
  BY <1>9, <1>t, <1>c DEF Restart, TypeInv, KbTypeOK, CallKnows, Calls, Idle
<1>. QED
  BY <1>1, <1>2, <1>3, <1>4, <1>5, <1>6, <1>7, <1>8, <1>9, StepKinds

\* A server starts with types in order and no call under way.
LEMMA TypeInitial == EvidenceInit => TypeInv
BY CorrelateTypeInitial DEF EvidenceInit, TypeInv, KbTypeOK, CallKnows, Calls, Idle

\* Frames, claims, kb.json and the call under way have their types.
THEOREM TypeCorrect == EvidenceSpec => []TypeInv
BY TypeInitial, TypeStep, PTL DEF EvidenceSpec

-----------------------------------------------------------------------------
(* Histories.                                                                *)

\* The claim `new` keeps what the claim `old` said, and all it had said before.
Keeps(old, new) ==
    /\ IsPrefix(old.history, new.history)
    /\ <<new.value, new.conf>> # <<old.value, old.conf>> =>
          \E i \in (Len(old.history) + 1)..Len(new.history) :
             new.history[i] = [value |-> old.value, conf |-> old.conf]

\* What memory holds keeps what kb.json holds.
HistoryKept == \A id \in ClaimIds : stored[id] # None =>
                  claims[id] # None /\ Keeps(stored[id], claims[id])

\* A prefix has the same elements.
LEMMA PrefixElements ==
  ASSUME NEW s \in Seq(Versions), NEW t \in Seq(Versions)
  PROVE  IsPrefix(s, t) <=> Len(s) <= Len(t) /\ \A i \in 1..Len(s) : s[i] = t[i]
<1>1. Len(s) \in Nat /\ Len(t) \in Nat
  OBVIOUS
<1>2. SubSeq(s, 1, Len(s)) = s
  BY SubSeqFull
<1>3. ASSUME Len(s) <= Len(t)
      PROVE  /\ SubSeq(t, 1, Len(s)) \in Seq(Versions) /\ Len(SubSeq(t, 1, Len(s))) = Len(s)
             /\ \A i \in 1..Len(s) : SubSeq(t, 1, Len(s))[i] = t[i]
  <2>1. \A i \in 1..Len(s) : t[i] \in Versions
    BY <1>1, <1>3
  <2>. QED
    BY <1>1, <2>1, SubSeqProperties
<1>4. ASSUME Len(s) <= Len(t), \A i \in 1..Len(s) : s[i] = t[i]
      PROVE  SubSeq(t, 1, Len(s)) = s
  BY <1>3, <1>4, SeqEqual
<1>. QED
  BY <1>2, <1>3, <1>4 DEF IsPrefix

\* A claim keeps what it is.
LEMMA KeepsItself == ASSUME NEW a \in Claims PROVE Keeps(a, a)
<1>1. a.history \in Seq(Versions)
  BY DEF Claims
<1>. QED
  BY <1>1, PrefixElements DEF Keeps

\* What is kept twice is kept.
LEMMA KeepsTransitive ==
  ASSUME NEW a \in Claims, NEW b \in Claims, NEW c \in Claims, Keeps(a, b), Keeps(b, c)
  PROVE  Keeps(a, c)
<1>1. a.history \in Seq(Versions) /\ b.history \in Seq(Versions) /\ c.history \in Seq(Versions)
  BY DEF Claims
<1>2. PICK l, m, n \in Nat : l = Len(a.history) /\ m = Len(b.history) /\ n = Len(c.history)
  BY <1>1
<1>3. /\ l <= m /\ m <= n
      /\ \A i \in 1..l : a.history[i] = b.history[i]
      /\ \A i \in 1..m : b.history[i] = c.history[i]
  BY <1>1, <1>2, PrefixElements DEF Keeps
<1>4. IsPrefix(a.history, c.history)
  <2>1. l <= n /\ \A i \in 1..l : a.history[i] = c.history[i]
    BY <1>2, <1>3
  <2>. QED
    BY <1>1, <1>2, <2>1, PrefixElements
<1>5. ASSUME <<c.value, c.conf>> # <<a.value, a.conf>>
      PROVE  \E i \in (l + 1)..n : c.history[i] = [value |-> a.value, conf |-> a.conf]
  <2>1. CASE <<b.value, b.conf>> = <<a.value, a.conf>>
    <3>1. PICK i \in (m + 1)..n : c.history[i] = [value |-> b.value, conf |-> b.conf]
      BY <1>2, <1>5, <2>1 DEF Keeps
    <3>2. i \in (l + 1)..n
      BY <1>2, <1>3
    <3>. QED
      BY <2>1, <3>1, <3>2
  <2>2. CASE <<b.value, b.conf>> # <<a.value, a.conf>>
    <3>1. PICK i \in (l + 1)..m : b.history[i] = [value |-> a.value, conf |-> a.conf]
      BY <1>2, <2>2 DEF Keeps
    <3>2. i \in (l + 1)..n /\ i \in 1..m
      BY <1>2, <1>3
    <3>. QED
      BY <1>3, <3>1, <3>2
  <2>. QED
    BY <2>1, <2>2
<1>. QED
  BY <1>2, <1>4, <1>5 DEF Keeps

\* A revision keeps what it supersedes.
LEMMA RevisionKeeps ==
  ASSUME NEW old \in Claims, NEW new \in Claims,
         new.value = old.value, new.history = old.history
  PROVE  Keeps(old, Revised(old, new))
<1>. DEFINE next == Revised(old, new)
<1>0. old \in Claims \cup {None}
  OBVIOUS
<1>1. next \in Claims /\ next.value = new.value /\ next.conf = new.conf
  BY <1>0, RevisedEffect, Zenon
<1>2. old.history \in Seq(Versions) /\ next.history \in Seq(Versions)
  BY <1>1 DEF Claims
<1>3. CASE next.history = new.history /\ (old = None \/ (old.conf = new.conf /\ old.value = new.value))
  BY <1>1, <1>2, <1>3, PrefixElements, NoneIsNoClaim DEF Keeps
<1>4. CASE /\ [value |-> old.value, conf |-> old.conf] \in Versions
           /\ next.history = Append(new.history, [value |-> old.value, conf |-> old.conf])
  <2>1. /\ Len(next.history) = Len(old.history) + 1
        /\ \A i \in 1..Len(old.history) : next.history[i] = old.history[i]
        /\ next.history[Len(old.history) + 1] = [value |-> old.value, conf |-> old.conf]
    BY <1>2, <1>4, AppendProperties
  <2>2. IsPrefix(old.history, next.history)
    BY <1>2, <2>1, PrefixElements
  <2>3. Len(old.history) + 1 \in (Len(old.history) + 1)..Len(next.history)
    BY <1>2, <2>1
  <2>. QED
    BY <2>1, <2>2, <2>3 DEF Keeps
<1>5. \/ next.history = new.history /\ (old = None \/ (old.conf = new.conf /\ old.value = new.value))
      \/ /\ [value |-> old.value, conf |-> old.conf] \in Versions
         /\ next.history = Append(new.history, [value |-> old.value, conf |-> old.conf])
  BY <1>0, RevisedEffect, Zenon
<1>. QED
  BY <1>3, <1>4, <1>5

\* In memory a claim is only replaced by one that keeps it, or, in a restart,
\* by the one of kb.json; kb.json only changes into what memory holds.
LEMMA ClaimsStep ==
  ASSUME TypeInv, [EvidenceNext]_vars
  PROVE  /\ \/ claims' = stored /\ stored' = stored
            \/ \A id \in ClaimIds : claims[id] # None =>
                  claims'[id] # None /\ Keeps(claims[id], claims'[id])
         /\ stored' \in {stored, claims, claims'}
<1>t. KbTypeOK /\ CallKnows /\ TypeInv'
  BY TypeStep DEF TypeInv
<1>k. \A id \in ClaimIds : claims[id] # None => claims[id] \in Claims
  BY <1>t DEF KbTypeOK
<1>0. ASSUME UNCHANGED claims
      PROVE  \A id \in ClaimIds : claims[id] # None =>
                claims'[id] # None /\ Keeps(claims[id], claims'[id])
  BY <1>k, <1>0, KeepsItself
<1>1. CASE FramesStep \/ UNCHANGED vars \/ BeginStep \/ VerifyOne \/ Return \/ ListenerSaves
  <2>1. UNCHANGED claims /\ stored' \in {stored, claims}
    <3>1. CASE BeginStep
      BY <1>t, <3>1, BeginEffect
    <3>2. CASE FramesStep \/ UNCHANGED vars \/ VerifyOne \/ Return \/ ListenerSaves
      BY <3>2 DEF FramesStep, vars, kbVars, VerifyOne, Return, ListenerSaves
    <3>. QED
      BY <1>1, <3>1, <3>2
  <2>. QED
    BY <1>0, <2>1
<1>2. CASE Commit
  <2>1. call.pc = "verify" /\ call.id \in ClaimIds /\ call.claim \in Claims
    BY <1>2, <1>t DEF Commit, KbTypeOK, Calls, Idle
  <2>2. \A id \in ClaimIds :
           claims'[id] = IF id = call.id THEN Revised(claims[id], call.claim) ELSE claims[id]
    BY <1>2, <1>t DEF Commit, KbTypeOK
  <2>3. ASSUME claims[call.id] # None
        PROVE  claims'[call.id] # None /\ Keeps(claims[call.id], claims'[call.id])
    <3>1. claims[call.id] \in Claims /\ call.claim.value = claims[call.id].value
          /\ call.claim.history = claims[call.id].history
      BY <1>k, <1>t, <2>1, <2>3 DEF CallKnows
    <3>2. Revised(claims[call.id], call.claim) \in Claims
      BY <2>1, <3>1, RevisedEffect
    <3>. QED
      BY <2>1, <2>2, <3>1, <3>2, RevisionKeeps, NoneIsNoClaim
  <2>4. stored' \in {stored, claims'}
    BY <1>2 DEF Commit, Saves, SaveRaises
  <2>. QED
    BY <1>k, <2>2, <2>3, <2>4, KeepsItself
<1>3. CASE FindRivals \/ LinkRival
  <2>1. PICK r \in ClaimIds, who \in SUBSET ClaimIds :
           /\ claims[r] \in Claims
           /\ claims' = [claims EXCEPT ![r] = [claims[r] EXCEPT !.rivals = who]]
    <3>1. CASE FindRivals
      <4>1. call.pc = "rivals" /\ call.id \in ClaimIds /\ claims[call.id] \in Claims
        BY <3>1, <1>t, <1>k DEF FindRivals, KbTypeOK, CallKnows, Calls, Idle
      <4>2. claims' = [claims EXCEPT ![call.id] = [claims[call.id] EXCEPT !.rivals = RivalsOf(call.id)]]
        BY <3>1, Zenon DEF FindRivals
      <4>3. RivalsOf(call.id) \in SUBSET ClaimIds
        BY DEF RivalsOf
      <4>. QED
        BY <4>1, <4>2, <4>3
    <3>2. CASE LinkRival
      <4>1. /\ call.pc = "link" /\ call.id \in ClaimIds /\ call.todo \subseteq ClaimIds
            /\ \A r \in call.todo : claims[r] \in Claims
        BY <3>2, <1>t, <1>k DEF LinkRival, KbTypeOK, CallKnows, Calls, Idle
      <4>2. PICK r \in call.todo :
               claims' = [claims EXCEPT ![r] = [claims[r] EXCEPT !.rivals = claims[r].rivals \cup {call.id}]]
        BY <3>2, Zenon DEF LinkRival
      <4>3. claims[r].rivals \cup {call.id} \in SUBSET ClaimIds
        BY <4>1 DEF Claims
      <4>. QED
        BY <4>1, <4>2, <4>3
    <3>. QED
      BY <1>3, <3>1, <3>2
  <2>. DEFINE new == [claims[r] EXCEPT !.rivals = who]
  <2>2. /\ new \in Claims /\ new.history = claims[r].history
        /\ new.value = claims[r].value /\ new.conf = claims[r].conf
    BY <2>1 DEF Claims
  <2>3. claims[r].history \in Seq(Versions)
    BY <2>1 DEF Claims
  <2>4. Keeps(claims[r], new)
    BY <2>2, <2>3, PrefixElements DEF Keeps
  <2>5. \A id \in ClaimIds : claims'[id] = IF id = r THEN new ELSE claims[id]
    BY <1>t, <2>1 DEF KbTypeOK
  <2>. HIDE DEF new
  <2>6. stored' \in {stored, claims'}
    BY <1>3 DEF FindRivals, LinkRival, Saves, SaveRaises
  <2>. QED
    BY <1>k, <2>2, <2>4, <2>5, <2>6, KeepsItself, NoneIsNoClaim
<1>4. CASE Restart
  BY <1>4 DEF Restart
<1>. QED
  BY <1>1, <1>2, <1>3, <1>4, StepKinds

\* Every step keeps HistoryKept, and what kb.json says in a later state keeps
\* what it says now.
LEMMA HistoryStep ==
  ASSUME TypeInv, HistoryKept, [EvidenceNext]_vars
  PROVE  /\ HistoryKept'
         /\ \A id \in ClaimIds : stored[id] # None =>
               stored'[id] # None /\ Keeps(stored[id], stored'[id])
<1>t. KbTypeOK /\ KbTypeOK'
  BY TypeStep DEF TypeInv
<1>k. \A id \in ClaimIds : /\ claims[id] # None => claims[id] \in Claims
                           /\ stored[id] # None => stored[id] \in Claims
                           /\ claims'[id] # None => claims'[id] \in Claims
  BY <1>t DEF KbTypeOK
<1>1. CASE claims' = stored /\ stored' = stored
  BY <1>k, <1>1, KeepsItself DEF HistoryKept
<1>2. CASE \A id \in ClaimIds : claims[id] # None =>
              claims'[id] # None /\ Keeps(claims[id], claims'[id])
  <2>1. ASSUME NEW id \in ClaimIds, stored[id] # None
        PROVE  claims'[id] # None /\ Keeps(stored[id], claims'[id])
    BY <1>2, <1>k, <2>1, KeepsTransitive DEF HistoryKept
  <2>2. stored' \in {stored, claims, claims'}
    BY ClaimsStep
  <2>3. CASE stored' = stored
    BY <1>k, <2>1, <2>3, KeepsItself DEF HistoryKept
  <2>4. CASE stored' = claims
    BY <1>2, <1>k, <2>4 DEF HistoryKept
  <2>5. CASE stored' = claims'
    BY <1>k, <2>1, <2>5, KeepsItself DEF HistoryKept
  <2>. QED
    BY <2>2, <2>3, <2>4, <2>5
<1>. QED
  BY <1>1, <1>2, ClaimsStep

(* A claim is never silently rewritten, whatever saves fail and whatever     *)
(* restarts fall between its change in memory and its save.                  *)
THEOREM ClaimsKeepTheirHistory == EvidenceSpec => NeverSilentlyRewritten
<1>1. EvidenceInit => HistoryKept
  BY DEF EvidenceInit, HistoryKept
<1>2. TypeInv /\ HistoryKept /\ [EvidenceNext]_vars => HistoryKept'
  BY HistoryStep
<1>3. EvidenceSpec => []HistoryKept
  BY <1>1, <1>2, TypeCorrect, PTL DEF EvidenceSpec
<1>4. TypeInv /\ HistoryKept /\ [EvidenceNext]_vars =>
         [\A id \in ClaimIds :
             LET old == stored[id]  new == stored'[id] IN
             old # None =>
                /\ new # None /\ IsPrefix(old.history, new.history)
                /\ <<new.value, new.conf>> # <<old.value, old.conf>> =>
                      \E i \in (Len(old.history) + 1)..Len(new.history) :
                         new.history[i] = [value |-> old.value, conf |-> old.conf]]_vars
  BY HistoryStep DEF Keeps
<1>. QED
  BY <1>3, <1>4, TypeCorrect, PTL DEF EvidenceSpec, NeverSilentlyRewritten

-----------------------------------------------------------------------------
(* Rivals.                                                                   *)

\* While save_claim links the rivals of its claim, no other claim can become
\* one, those done know of it, and kb.json holds what memory does once one of
\* them was saved.
RivalsInv ==
    call.pc = "link" =>
       /\ call.todo \subseteq RivalsOf(call.id)
       /\ \A r \in RivalsOf(call.id) :
             /\ r \in claims[call.id].rivals
             /\ r \notin call.todo => call.id \in claims[r].rivals
       /\ call.todo = RivalsOf(call.id) \/ stored = claims

\* Who argues with whom does not depend on the lists of rivals.
LEMMA RivalsSettled ==
  ASSUME NEW id \in ClaimIds,
         \A c \in ClaimIds : /\ claims'[c].kind = claims[c].kind
                             /\ claims'[c].subject = claims[c].subject
                             /\ claims'[c].value = claims[c].value
  PROVE  RivalsOf(id)' = RivalsOf(id)
BY DEF RivalsOf, Argue

\* RivalsInv is inductive.
LEMMA RivalsStep == TypeInv /\ RivalsInv /\ [EvidenceNext]_vars => RivalsInv'
<1> SUFFICES ASSUME TypeInv, RivalsInv, [EvidenceNext]_vars PROVE RivalsInv'
  OBVIOUS
<1>t. KbTypeOK /\ CallKnows
  BY DEF TypeInv
<1>1. CASE FramesStep \/ UNCHANGED vars
  <2>1. UNCHANGED <<claims, stored, call>>
    BY <1>1 DEF FramesStep, vars, kbVars
  <2>. QED
    BY <2>1 DEF RivalsInv, RivalsOf, Argue
<1>2. CASE BeginStep \/ VerifyOne \/ Commit \/ Return \/ Restart
  <2>1. call'.pc # "link"
    <3>1. CASE BeginStep
      BY <1>t, <3>1, BeginEffect
    <3>2. CASE VerifyOne
      BY <1>t, <3>2 DEF VerifyOne, KbTypeOK, Calls, Idle
    <3>3. CASE Commit \/ Return \/ Restart
      BY <3>3 DEF Commit, Return, Restart, Idle
    <3>. QED
      BY <1>2, <3>1, <3>2, <3>3
  <2>. QED
    BY <2>1 DEF RivalsInv
<1>3. CASE FindRivals
  <2>1. call.pc = "rivals" /\ call.id \in ClaimIds /\ claims[call.id] \in Claims
    BY <1>3, <1>t DEF FindRivals, KbTypeOK, CallKnows, Calls, Idle
  <2>. PICK id \in ClaimIds : id = call.id
    BY <2>1
  <2>2. call' = [pc |-> "link", id |-> id, todo |-> RivalsOf(id)]
    BY <1>3 DEF FindRivals
  <2>3. claims' = [claims EXCEPT ![id] = [claims[id] EXCEPT !.rivals = RivalsOf(id)]]
    BY <1>3, Zenon DEF FindRivals
  <2>4. /\ claims'[id].rivals = RivalsOf(id)
        /\ \A c \in ClaimIds : /\ claims'[c].kind = claims[c].kind
                               /\ claims'[c].subject = claims[c].subject
                               /\ claims'[c].value = claims[c].value
    BY <1>t, <2>1, <2>3 DEF KbTypeOK, Claims
  <2>5. RivalsOf(id)' = RivalsOf(id)
    BY <2>4, RivalsSettled
  <2>. QED
    BY <2>2, <2>4, <2>5 DEF RivalsInv
<1>4. CASE LinkRival
  <2>1. /\ call.pc = "link" /\ call.id \in ClaimIds /\ call.todo \subseteq ClaimIds
        /\ call \in [pc : {"link"}, id : ClaimIds, todo : SUBSET ClaimIds]
    BY <1>4, <1>t DEF LinkRival, KbTypeOK, Calls, Idle
  <2>. PICK id \in ClaimIds : id = call.id
    BY <2>1
  <2>2. PICK r \in call.todo :
          /\ claims' = [claims EXCEPT ![r].rivals = @ \cup {call.id}]
          /\ \/ Saves /\ call' = [call EXCEPT !.todo = @ \ {r}]
             \/ SaveRaises /\ call' = Idle
    BY <1>4 DEF LinkRival
  <2>3. claims' = [claims EXCEPT ![r] = [claims[r] EXCEPT !.rivals = claims[r].rivals \cup {id}]]
    BY <2>2, Zenon
  <2>4. r \in ClaimIds /\ claims[r] \in Claims /\ r # id
    BY <1>t, <2>1 DEF KbTypeOK, CallKnows
  <2>5. /\ id \in claims'[r].rivals
        /\ \A c \in ClaimIds : /\ claims'[c].kind = claims[c].kind
                               /\ claims'[c].subject = claims[c].subject
                               /\ claims'[c].value = claims[c].value
                               /\ c # r => claims'[c].rivals = claims[c].rivals
    BY <1>t, <2>3, <2>4 DEF KbTypeOK, Claims
  <2>6. RivalsOf(id)' = RivalsOf(id)
    BY <2>5, RivalsSettled
  <2>7. CASE call' = Idle
    BY <2>7 DEF RivalsInv, Idle
  <2>8. CASE stored' = claims' /\ call' = [call EXCEPT !.todo = @ \ {r}]
    <3>1. call'.pc = "link" /\ call'.id = id /\ call'.todo = call.todo \ {r}
      BY <2>1, <2>8
    <3>2. \A q \in RivalsOf(id) : /\ q \in claims'[id].rivals
                                  /\ q \notin call'.todo => id \in claims'[q].rivals
      <4>1. \A q \in RivalsOf(id) : /\ q \in ClaimIds /\ q \in claims[id].rivals
                                    /\ q \notin call.todo => id \in claims[q].rivals
        BY <2>1 DEF RivalsInv, RivalsOf
      <4>. QED
        BY <2>4, <2>5, <3>1, <4>1
    <3>3. call'.todo \subseteq RivalsOf(id)
      BY <2>1, <3>1 DEF RivalsInv
    <3>. QED
      BY <2>6, <2>8, <3>1, <3>2, <3>3 DEF RivalsInv
  <2>. QED
    BY <2>2, <2>7, <2>8 DEF Saves
<1>5. CASE ListenerSaves
  BY <1>5 DEF ListenerSaves, RivalsInv, RivalsOf, Argue
<1>. QED
  BY <1>1, <1>2, <1>3, <1>4, <1>5, StepKinds

(* Rivals know each other in kb.json when save_claim is about to return,     *)
(* whatever listeners have saved while it linked them.                       *)
THEOREM RivalsKnowEachOther == EvidenceSpec => []RivalsLinked
<1>1. EvidenceInit => RivalsInv
  BY DEF EvidenceInit, RivalsInv, Idle
<1>2. EvidenceSpec => []RivalsInv
  BY <1>1, RivalsStep, TypeCorrect, PTL DEF EvidenceSpec
<1>3. RivalsInv => RivalsLinked
  BY DEF RivalsInv, RivalsLinked
<1>. QED
  BY <1>2, <1>3, PTL

-----------------------------------------------------------------------------
(* Correlation.                                                              *)

\* The bound on the frames holds.
LogBounded == Len(log) <= MaxFrames

\* Frames stay in the log where they are (Store.append_frames only appends).
LEMMA LogGrows ==
  ASSUME CorrelateTypeOK, [CorrelateNext]_correlateVars
  PROVE  /\ DOMAIN log \subseteq DOMAIN log'
         /\ \A i \in DOMAIN log : log'[i] = log[i]
         /\ \A i \in DOMAIN log' \ DOMAIN log : log'[i].ts = clock
         /\ LogBounded => LogBounded'
<1>1. log \in Seq(Frames) /\ Len(log) \in Nat /\ DOMAIN log = 1..Len(log)
  BY DEF CorrelateTypeOK, Frames
<1>2. ASSUME NEW c \in Captures, NEW k \in Keys, NEW b \in Payloads, Observe(c, k, b)
      PROVE  /\ DOMAIN log \subseteq DOMAIN log'
             /\ \A i \in DOMAIN log : log'[i] = log[i]
             /\ \A i \in DOMAIN log' \ DOMAIN log : log'[i].ts = clock
             /\ LogBounded'
  <2>1. log' \in Seq(Frames)
    <3>1. CorrelateTypeOK'
      BY CorrelateTypeStep
    <3>. QED
      BY <3>1 DEF CorrelateTypeOK, Frames
  <2>2. PICK f : log' = Append(log, f) /\ f.ts = clock
    BY <1>2 DEF Observe
  <2>3. /\ Len(log') = Len(log) + 1 /\ \A i \in 1..Len(log) : log'[i] = log[i]
        /\ log'[Len(log) + 1] = f
    BY <1>1, <2>2
  <2>4. DOMAIN log' = 1..Len(log')
    BY <2>1
  <2>. QED
    BY <1>1, <1>2, <2>2, <2>3, <2>4, CorrelateAssumption DEF Observe, LogBounded
<1>3. CASE UNCHANGED log
  BY <1>3 DEF LogBounded
<1>4. (\E c \in Captures, k \in Keys, b \in Payloads : Observe(c, k, b)) \/ UNCHANGED log
  BY DEF CorrelateNext, Relabel, Tick, correlateVars
<1>. QED
  BY <1>2, <1>3, <1>4

\* The frames of an observation are finitely many, no more than there are.
LEMMA GroupFinite ==
  ASSUME CorrelateTypeOK, NEW cs, NEW k
  PROVE  /\ IsFiniteSet(Group(cs, k)) /\ Cardinality(Group(cs, k)) \in Nat
         /\ Cardinality(Group(cs, k)) <= Len(log) /\ Len(log) \in Nat
<1>1. DOMAIN log = 1..Len(log) /\ Len(log) \in Nat
  BY DEF CorrelateTypeOK
<1>2. IsFiniteSet(1..Len(log)) /\ Cardinality(1..Len(log)) = Len(log)
  <2>. PICK n \in Nat : n = Len(log)
    BY <1>1
  <2>1. 1 \in Int /\ n \in Int
    OBVIOUS
  <2>2. IsFiniteSet(1..n) /\ Cardinality(1..n) = IF 1 > n THEN 0 ELSE n - 1 + 1
    BY <2>1, FS_Interval, Zenon
  <2>. QED
    BY <2>2
<1>3. Group(cs, k) \in SUBSET (1..Len(log))
  BY <1>1 DEF Group
<1>. QED
  BY <1>1, <1>2, <1>3, FS_Subset, FS_CardinalityType

\* When no more frames of a key were captured than sightings are kept, all of
\* its frames are sightings.
LEMMA AllAreSightings ==
  ASSUME CorrelateTypeOK, NEW cs \in SUBSET Captures, NEW k,
         Cardinality(Group(cs, k)) <= MaxSightings
  PROVE  Sightings(cs, k) = Group(cs, k)
<1> SUFFICES ASSUME NEW i \in Group(cs, k)
             PROVE  Cardinality({j \in Group(cs, k) : Earlier(j, i)}) < MaxSightings
  BY DEF Sightings
<1>. DEFINE before == {j \in Group(cs, k) : Earlier(j, i)}
<1>1. log[i].cap \in Nat /\ log[i].seq \in Nat /\ log[i].ts \in Nat
  <2>1. log \in Seq(Frames) /\ i \in DOMAIN log
    BY DEF Group, CorrelateTypeOK, Frames
  <2>2. log[i] \in Frames
    BY <2>1
  <2>. QED
    BY <2>2, CorrelateAssumption DEF Frames
<1>2. ~Earlier(i, i)
  BY <1>1 DEF Earlier
<1>3. before \in SUBSET (Group(cs, k) \ {i})
  BY <1>2
<1>4. /\ IsFiniteSet(Group(cs, k) \ {i})
      /\ Cardinality(Group(cs, k) \ {i}) = Cardinality(Group(cs, k)) - 1
  BY GroupFinite, FS_RemoveElement
<1>5. /\ Cardinality(before) <= Cardinality(Group(cs, k) \ {i})
      /\ Cardinality(before) \in Nat
  BY <1>3, <1>4, FS_Subset, FS_CardinalityType
<1>6. Cardinality(Group(cs, k)) \in Nat /\ MaxSightings \in Nat
  BY GroupFinite, CorrelateAssumption
<1>. QED
  BY <1>4, <1>5, <1>6

(* A key that the verifier calls exclusive to a condition has no frame under *)
(* another one in the captures that were cited, unless it has more frames    *)
(* than an observation keeps sightings.                                      *)
THEOREM ExclusiveWithinTheCap ==
  CorrelateSpec => [](\A cs \in SUBSET Captures, k \in Keys, l \in Conditions :
                         /\ RecomputeExclusive(cs, k, l) \/ Candidate(cs, k, l)
                         /\ Cardinality(Group(cs, k)) <= MaxSightings
                         => \A i \in Group(cs, k) : Condition(log[i].cap) = l)
<1>1. CorrelateSpec => []CorrelateTypeOK
  BY CorrelateTypeInitial, CorrelateTypeStep, PTL DEF CorrelateSpec
<1>2. CorrelateTypeOK => \A cs \in SUBSET Captures, k \in Keys, l \in Conditions :
         /\ RecomputeExclusive(cs, k, l) \/ Candidate(cs, k, l)
         /\ Cardinality(Group(cs, k)) <= MaxSightings
         => \A i \in Group(cs, k) : Condition(log[i].cap) = l
  <2> SUFFICES ASSUME CorrelateTypeOK,
                      NEW cs \in SUBSET Captures, NEW k \in Keys, NEW l \in Conditions,
                      RecomputeExclusive(cs, k, l) \/ Candidate(cs, k, l),
                      Cardinality(Group(cs, k)) <= MaxSightings,
                      NEW i \in Group(cs, k)
               PROVE  Condition(log[i].cap) = l
    OBVIOUS
  <2>1. ConditionsSeen(cs, k) = {l}
    BY DEF RecomputeExclusive, Candidate
  <2>2. i \in Sightings(cs, k)
    BY AllAreSightings
  <2>. QED
    BY <2>1, <2>2 DEF ConditionsSeen
<1>. QED
  BY <1>1, <1>2, PTL

\* A frame of an earlier second is preceded by the same frames for ever: what is
\* captured later has the stamp of a later second.
LEMMA SettledStays ==
  ASSUME CorrelateTypeOK, [CorrelateNext]_correlateVars,
         NEW cs, NEW k, NEW i \in Sightings(cs, k), log[i].ts < clock
  PROVE  i \in Sightings(cs, k)' /\ log'[i] = log[i]
<1>1. i \in Group(cs, k) /\ i \in DOMAIN log
      /\ Cardinality({j \in Group(cs, k) : Earlier(j, i)}) < MaxSightings
  BY DEF Sightings, Group
<1>2. i \in Group(cs, k)' /\ log'[i] = log[i]
  BY <1>1, LogGrows DEF Group
<1>3. clock \in Nat /\ log[i].ts \in Nat
  BY <1>1, FrameTypes
<1>4. ASSUME NEW j
      PROVE  (j \in Group(cs, k)' /\ Earlier(j, i)') <=> (j \in Group(cs, k) /\ Earlier(j, i))
  <2>1. CASE j \in DOMAIN log
    <3>1. log'[j] = log[j] /\ j \in DOMAIN log'
      BY <2>1, LogGrows
    <3>. QED
      BY <1>2, <2>1, <3>1 DEF Group, Earlier
  <2>2. CASE j \in DOMAIN log' /\ j \notin DOMAIN log
    <3>1. log'[j].ts = clock
      BY <2>2, LogGrows
    <3>2. ~Earlier(j, i)'
      BY <1>2, <1>3, <3>1 DEF Earlier
    <3>. QED
      BY <2>2, <3>2 DEF Group
  <2>3. CASE j \notin DOMAIN log' /\ j \notin DOMAIN log
    BY <2>3 DEF Group
  <2>. QED
    BY <2>1, <2>2, <2>3
<1>5. {j \in Group(cs, k)' : Earlier(j, i)'} = {j \in Group(cs, k) : Earlier(j, i)}
  BY <1>4
<1>. QED
  BY <1>1, <1>2, <1>5 DEF Sightings

(* A key with sightings of two conditions in the seconds that are over never *)
(* becomes exclusive to one of them, however many frames follow; the cap on  *)
(* sightings only cuts off what comes after.                                 *)
THEOREM SharedIsNeverExclusive == CorrelateSpec => SharedStaysShared
<1>1. ASSUME CorrelateTypeOK, [CorrelateNext]_correlateVars, label' = label,
             NEW cs \in SUBSET Captures, NEW k \in Keys, NEW l \in Conditions,
             (RecomputeExclusive(cs, k, l) \/ Candidate(cs, k, l))'
      PROVE  ~(Cardinality({Condition(log[i].cap) : i \in Settled(cs, k)}) > 1)
  <2>1. (ConditionsSeen(cs, k) = {l})'
    BY <1>1 DEF RecomputeExclusive, Candidate
  <2>2. \A i \in Settled(cs, k) : i \in Sightings(cs, k)' /\ log'[i] = log[i]
    BY <1>1, SettledStays DEF Settled
  <2>3. \A i \in Sightings(cs, k)' : Condition(log[i].cap)' = l
    BY <2>1 DEF ConditionsSeen
  <2>4. \A i \in Settled(cs, k) : Condition(log[i].cap) = l
    BY <1>1, <2>2, <2>3 DEF Condition
  <2>. DEFINE seen == {Condition(log[i].cap) : i \in Settled(cs, k)}
  <2>5. seen \in SUBSET {l}
    BY <2>4
  <2>. HIDE DEF seen
  <2>6. Cardinality(seen) \in Nat /\ Cardinality(seen) <= 1
    <3>1. IsFiniteSet({l}) /\ Cardinality({l}) = 1
      BY FS_Singleton, Zenon
    <3>2. IsFiniteSet(seen) /\ Cardinality(seen) <= Cardinality({l})
      BY <2>5, <3>1, FS_Subset
    <3>. QED
      BY <3>1, <3>2, FS_CardinalityType
  <2>7. ~(Cardinality(seen) > 1)
    BY <2>6
  <2>. QED
    BY <2>7 DEF seen
<1>2. ASSUME CorrelateTypeOK, [CorrelateNext]_correlateVars
      PROVE  [\A cs \in SUBSET Captures, k \in Keys :
                 label' = label /\ Cardinality({Condition(log[i].cap) : i \in Settled(cs, k)}) > 1
                   => \A l \in Conditions :
                         ~(RecomputeExclusive(cs, k, l) \/ Candidate(cs, k, l))']_correlateVars
  BY <1>1, <1>2
<1>3. CorrelateSpec => []CorrelateTypeOK
  BY CorrelateTypeInitial, CorrelateTypeStep, PTL DEF CorrelateSpec
<1>. QED
  BY <1>2, <1>3, PTL DEF CorrelateSpec, SharedStaysShared

-----------------------------------------------------------------------------
(* Evidence.                                                                 *)

\* The records ps have their frames.
Supported(s, ps) == \A p \in ps : Backed(s, p)

\* What the verifier confirms has its frames: only frames of an earlier second
\* come before a sighting.
LEMMA VerifiedIsBacked ==
  ASSUME CorrelateTypeOK, NEW s, NEW p, Verify(s, p)
  PROVE  Backed(s, p)
<1>1. CASE p.class = "captured_traffic"
  BY <1>1 DEF Verify, Backed, Observed
<1>2. CASE p.class = "schema_induction"
  BY <1>2 DEF Verify, Backed, Observed
<1>3. CASE p.class = "temporal_correlation"
  <2>1. PICK i \in Sightings(Captures, s) : log[i].cap = p.cap /\ log[i].seq > p.after
    BY <1>3 DEF Verify
  <2>. DEFINE E == {j \in Group(Captures, s) : Earlier(j, i)}
  <2>2. i \in Group(Captures, s) /\ Cardinality(E) < MaxSightings
    BY <2>1 DEF Sightings
  <2>3. Before(s, i) \in SUBSET E
    BY DEF Before, Earlier
  <2>4. E \in SUBSET Group(Captures, s)
    OBVIOUS
  <2>. HIDE DEF E
  <2>5. IsFiniteSet(E) /\ Cardinality(E) \in Nat
    BY <2>4, GroupFinite, FS_Subset, FS_CardinalityType
  <2>6. Cardinality(Before(s, i)) \in Nat /\ Cardinality(Before(s, i)) <= Cardinality(E)
    BY <2>3, <2>5, FS_Subset, FS_CardinalityType
  <2>7. Cardinality(Before(s, i)) < MaxSightings
    BY <2>2, <2>5, <2>6, CorrelateAssumption
  <2>8. i \in Since(s, p)
    BY <2>1, <2>2, <2>7 DEF Since
  <2>. QED
    BY <1>3, <2>8 DEF Backed
<1>. QED
  BY <1>1, <1>2, <1>3 DEF Backed

\* What has its frames is confirmed, or something hides it.
LEMMA BackedVerifies ==
  ASSUME CorrelateTypeOK, NEW s, NEW p, Backed(s, p),
         p.class \in {"captured_traffic", "temporal_correlation", "schema_induction"}
  PROVE  Verify(s, p) \/ Hidden(s, p)
<1> SUFFICES ASSUME ~Hidden(s, p) PROVE Verify(s, p)
  OBVIOUS
<1>1. ASSUME NEW i \in Group(Captures, s) PROVE s \in Keys
  BY <1>1, FrameTypes DEF Group
<1>2. CASE p.class = "captured_traffic"
  BY <1>1, <1>2 DEF Verify, Backed, Hidden, Observed
<1>3. CASE p.class = "schema_induction"
  BY <1>3 DEF Verify, Backed, Hidden, Observed
<1>4. CASE p.class = "temporal_correlation"
  <2>1. Builds(Captures)
    BY <1>4 DEF Hidden
  <2>2. PICK i \in Since(s, p) : ~Crowded(s, i)
    BY <1>4 DEF Hidden
  <2>3. i \in Group(Captures, s) /\ log[i].cap = p.cap /\ log[i].seq > p.after
    BY <2>2 DEF Since
  <2>. DEFINE C == {j \in Group(Captures, s) : log[j].ts <= log[i].ts}
              E == {j \in Group(Captures, s) : Earlier(j, i)}
  <2>4. \A j \in Group(Captures, s) : log[j].ts \in Nat /\ log[j].seq \in Nat /\ log[j].cap \in Nat
    BY FrameTypes DEF Group
  <2>5. i \in C /\ C \in SUBSET Group(Captures, s)
    BY <2>3, <2>4
  <2>6. E \in SUBSET (C \ {i})
    BY <2>3, <2>4 DEF Earlier
  <2>7. ~(Cardinality(C) > MaxSightings)
    BY <2>2 DEF Crowded
  <2>. HIDE DEF C, E
  <2>8. IsFiniteSet(C) /\ Cardinality(C) \in Nat
    BY <2>5, GroupFinite, FS_Subset, FS_CardinalityType
  <2>9. IsFiniteSet(C \ {i}) /\ Cardinality(C \ {i}) = Cardinality(C) - 1
    BY <2>5, <2>8, FS_RemoveElement
  <2>10. Cardinality(E) \in Nat /\ Cardinality(E) <= Cardinality(C \ {i})
    BY <2>6, <2>9, FS_Subset, FS_CardinalityType
  <2>11. Cardinality(E) < MaxSightings
    BY <2>7, <2>8, <2>9, <2>10, CorrelateAssumption
  <2>12. i \in Sightings(Captures, s)
    BY <2>3, <2>11 DEF Sightings, E
  <2>. QED
    BY <1>4, <2>1, <2>3, <2>12 DEF Verify, Observed
<1>. QED
  BY <1>2, <1>3, <1>4

\* What has its frames has them for ever.
LEMMA SupportLasts ==
  ASSUME CorrelateTypeOK, [CorrelateNext]_correlateVars,
         NEW s, NEW ps, Supported(s, ps)
  PROVE  Supported(s, ps)'
<1> SUFFICES ASSUME NEW p \in ps, Backed(s, p) PROVE Backed(s, p)'
  BY DEF Supported
<1>1. \A cs, k : \A i \in Group(cs, k) : i \in Group(cs, k)' /\ log'[i] = log[i]
  BY LogGrows DEF Group
<1>2. IsFrame(s) => IsFrame(s)'
  BY LogGrows DEF IsFrame
<1>3. CASE p.class = "captured_traffic"
  BY <1>1, <1>2, <1>3 DEF Backed
<1>4. CASE p.class = "schema_induction"
  BY <1>1, <1>4 DEF Backed
<1>5. CASE p.class = "temporal_correlation"
  <2>1. PICK i : i \in Since(s, p)
    BY <1>5 DEF Backed
  <2>2. /\ i \in Group(Captures, s) /\ log[i].cap = p.cap /\ log[i].seq > p.after
        /\ Cardinality(Before(s, i)) < MaxSightings
    BY <2>1 DEF Since
  <2>3. i \in Group(Captures, s)' /\ log'[i] = log[i]
    BY <1>1, <2>2
  <2>4. clock \in Nat /\ log[i].ts \in Nat /\ log[i].ts <= clock
    BY <2>2, FrameTypes DEF Group
  <2>5. ASSUME NEW j
        PROVE  (j \in Group(Captures, s)' /\ log'[j].ts < log'[i].ts)
                  <=> (j \in Group(Captures, s) /\ log[j].ts < log[i].ts)
    <3>1. CASE j \in DOMAIN log
      <4>1. log'[j] = log[j] /\ j \in DOMAIN log'
        BY <3>1, LogGrows
      <4>. QED
        BY <2>3, <3>1, <4>1 DEF Group
    <3>2. CASE j \in DOMAIN log' /\ j \notin DOMAIN log
      <4>1. log'[j].ts = clock
        BY <3>2, LogGrows
      <4>. QED
        BY <2>3, <2>4, <3>2, <4>1 DEF Group
    <3>3. CASE j \notin DOMAIN log' /\ j \notin DOMAIN log
      BY <3>3 DEF Group
    <3>. QED
      BY <3>1, <3>2, <3>3
  <2>6. Before(s, i)' = Before(s, i)
    BY <2>5 DEF Before
  <2>7. i \in Since(s, p)'
    BY <2>2, <2>3, <2>6 DEF Since
  <2>. QED
    BY <1>5, <2>7 DEF Backed
<1>. QED
  BY <1>3, <1>4, <1>5 DEF Backed

\* A claim that save_claim let through: its confidence is earned, and what it
\* cites has its frames.
Sound(id, claim) ==
    /\ Gate(claim.prov, claim.conf)
    /\ Supported(claim.subject, claim.prov)
    /\ id \notin claim.rivals
    /\ Len(claim.history) <= MaxRevisions

SoundInv ==
    /\ \A id \in ClaimIds : \A c \in {claims[id], stored[id]} \ {None} : Sound(id, c)
    /\ call.pc = "verify" =>
          \A s \in {call.claim.subject}, ps \in {call.claim.prov \ call.todo} : Supported(s, ps)

\* What is sound stays sound when frames are captured.
LEMMA SoundLasts ==
  ASSUME CorrelateTypeOK, LogBounded, [CorrelateNext]_correlateVars,
         NEW id, NEW claim, Sound(id, claim)
  PROVE  Sound(id, claim)'
BY SupportLasts DEF Sound

\* The claims of a step: those of memory or of kb.json before it, one of them
\* with another list of rivals, or the one whose evidence has been verified.
LEMMA SoundStep ==
  ASSUME TypeInv, LogBounded, SoundInv, [EvidenceNext]_vars
  PROVE  SoundInv'
<1>t. KbTypeOK /\ CallKnows /\ KbTypeOK'
  BY TypeStep DEF TypeInv
<1>f. CorrelateTypeOK /\ LogBounded /\ [CorrelateNext]_correlateVars
  BY CorrelateStep DEF TypeInv
<1>s. \A id \in ClaimIds : /\ claims[id] # None => Sound(id, claims[id])
                           /\ stored[id] # None => Sound(id, stored[id])
  BY DEF SoundInv
<1>1. ASSUME \A id \in ClaimIds : claims'[id] # None => Sound(id, claims'[id]),
             stored' \in {stored, claims, claims'},
             call'.pc = "verify" => Supported(call'.claim.subject, call'.claim.prov \ call'.todo)
      PROVE  SoundInv'
  <2>1. \A id \in ClaimIds : stored'[id] # None => Sound(id, stored'[id])
    BY <1>1, <1>s
  <2>2. \A id \in ClaimIds : \A c \in {claims'[id], stored'[id]} \ {None} : Sound(id, c)'
    <3>1. \A id \in ClaimIds : \A c \in {claims'[id], stored'[id]} \ {None} : Sound(id, c)
      BY <1>1, <2>1
    <3>. QED
      BY <1>f, <3>1, SoundLasts
  <2>3. call'.pc = "verify" =>
           \A s \in {call'.claim.subject}, ps \in {call'.claim.prov \ call'.todo} : Supported(s, ps)'
    <3>1. call'.pc = "verify" =>
             \A s \in {call'.claim.subject}, ps \in {call'.claim.prov \ call'.todo} : Supported(s, ps)
      BY <1>1
    <3>. QED
      BY <1>f, <3>1, SupportLasts
  <2>. QED
    BY <2>2, <2>3 DEF SoundInv
<1>2. stored' \in {stored, claims, claims'}
  BY ClaimsStep
<1>3. CASE UNCHANGED <<claims, call>>
  <2>1. call.pc = "verify" => Supported(call.claim.subject, call.claim.prov \ call.todo)
    BY DEF SoundInv
  <2>2. call'.pc = "verify" => Supported(call'.claim.subject, call'.claim.prov \ call'.todo)
    BY <1>3, <2>1
  <2>3. \A id \in ClaimIds : claims'[id] # None => Sound(id, claims'[id])
    BY <1>3, <1>s
  <2>. QED
    BY <1>1, <1>2, <2>2, <2>3
<1>4. CASE BeginStep
  <2>1. PICK id \in ClaimIds, new \in Claims :
            /\ call' = [pc |-> "verify", id |-> id, claim |-> new, todo |-> new.prov]
            /\ UNCHANGED claims
    BY <1>4, <1>t, BeginEffect
  <2>2. call'.claim.prov \ call'.todo = {}
    BY <2>1
  <2>3. Supported(call'.claim.subject, call'.claim.prov \ call'.todo)
    BY <2>2 DEF Supported
  <2>4. \A c \in ClaimIds : claims'[c] # None => Sound(c, claims'[c])
    BY <1>s, <2>1
  <2>. QED
    BY <1>1, <1>2, <2>3, <2>4
<1>5. CASE VerifyOne
  <2>1. /\ UNCHANGED <<claims, correlateVars>> /\ call.pc = "verify"
        /\ call \in [pc : {"verify"}, id : ClaimIds, claim : Claims,
                     todo : SUBSET (Evidence \cup {Proposal})]
    BY <1>5, <1>t DEF VerifyOne, KbTypeOK, Calls, Idle
  <2>2. \A c \in ClaimIds : claims'[c] # None => Sound(c, claims'[c])
    BY <1>s, <2>1
  <2>3. CASE call' = Idle
    BY <1>1, <1>2, <2>2, <2>3 DEF Idle
  <2>4. ASSUME NEW p \in call.todo, call' = [call EXCEPT !.todo = call.todo \ {p}],
               Verify(call.claim.subject, p)
        PROVE  SoundInv'
    <3>1. /\ call'.claim = call.claim /\ call'.todo = call.todo \ {p}
      BY <2>1, <2>4
    <3>2. Supported(call.claim.subject, call.claim.prov \ (call.todo \ {p}))
      <4>1. Backed(call.claim.subject, p)
        BY <1>f, <2>4, VerifiedIsBacked
      <4>. QED
        BY <2>1, <4>1 DEF SoundInv, Supported
    <3>3. Supported(call'.claim.subject, call'.claim.prov \ call'.todo)
      BY <3>1, <3>2
    <3>. QED
      BY <1>1, <1>2, <2>2, <3>3
  <2>. QED
    BY <1>5, <2>3, <2>4 DEF VerifyOne
<1>6. CASE Commit
  <2>1. call.pc = "verify" /\ call.id \in ClaimIds /\ call.claim \in Claims /\ call.todo = {}
    BY <1>6, <1>t DEF Commit, KbTypeOK, Calls, Idle
  <2>. DEFINE old == claims[call.id]
              new == Revised(old, call.claim)
  <2>2. \A id \in ClaimIds : claims'[id] = IF id = call.id THEN new ELSE claims[id]
    BY <1>6, <1>t DEF Commit, KbTypeOK
  <2>3. old \in Claims \cup {None}
    BY <1>t, <2>1 DEF KbTypeOK
  <2>4. /\ new.subject = call.claim.subject /\ new.prov = call.claim.prov
        /\ new.conf = call.claim.conf /\ new.rivals = call.claim.rivals
        /\ \/ new.history = call.claim.history
           \/ /\ old # None /\ \E v \in Versions : new.history = Append(call.claim.history, v)
    BY <2>1, <2>3, RevisedEffect, Zenon
  <2>5. Gate(new.prov, new.conf)
    BY <1>t, <2>1, <2>4 DEF CallKnows
  <2>6. Supported(new.subject, new.prov)
    <3>1. call.claim.prov \ call.todo = call.claim.prov
      BY <2>1
    <3>. QED
      BY <2>1, <2>4, <3>1 DEF SoundInv
  <2>7. call.id \notin new.rivals
    BY <1>t, <2>1, <2>4 DEF CallKnows, SoundInv, Sound
  <2>8. Len(new.history) <= MaxRevisions
    <3>1. CASE old = None
      BY <1>t, <2>1, <2>4, <3>1, EvidenceAssumption DEF CallKnows
    <3>2. CASE old # None
      <4>1. call.claim.history = old.history /\ Len(old.history) < MaxRevisions
        BY <1>t, <2>1, <3>2 DEF CallKnows
      <4>2. call.claim.history \in Seq(Versions) /\ Len(call.claim.history) \in Nat
        BY <2>1 DEF Claims
      <4>3. \A v \in Versions : Len(Append(call.claim.history, v)) = Len(call.claim.history) + 1
        BY <4>2, AppendProperties
      <4>. QED
        BY <2>4, <4>1, <4>2, <4>3, EvidenceAssumption
    <3>. QED
      BY <3>1, <3>2
  <2>9. Sound(call.id, new)
    BY <2>5, <2>6, <2>7, <2>8 DEF Sound
  <2>10. \A id \in ClaimIds : claims'[id] # None => Sound(id, claims'[id])
    BY <1>s, <2>2, <2>9
  <2>11. call'.pc # "verify"
    BY <1>6 DEF Commit, Idle
  <2>. QED
    BY <1>1, <1>2, <2>10, <2>11
<1>7. CASE FindRivals \/ LinkRival
  <2>1. /\ call.pc \in {"rivals", "link"} /\ call.id \in ClaimIds /\ claims[call.id] # None
        /\ call.pc = "link" => /\ call \in [pc : {"link"}, id : ClaimIds, todo : SUBSET ClaimIds]
                               /\ \A r \in call.todo : claims[r] # None /\ r # call.id
    BY <1>7, <1>t DEF FindRivals, LinkRival, KbTypeOK, CallKnows, Calls, Idle
  <2>2. PICK r \in ClaimIds, who \in SUBSET ClaimIds :
           /\ claims[r] \in Claims /\ claims[r] # None /\ r \notin who
           /\ claims' = [claims EXCEPT ![r] = [claims[r] EXCEPT !.rivals = who]]
    <3>1. CASE FindRivals
      <4>1. claims' = [claims EXCEPT ![call.id] = [claims[call.id] EXCEPT !.rivals = RivalsOf(call.id)]]
        BY <3>1, Zenon DEF FindRivals
      <4>2. RivalsOf(call.id) \in SUBSET ClaimIds /\ call.id \notin RivalsOf(call.id)
        BY DEF RivalsOf, Argue
      <4>3. claims[call.id] \in Claims
        BY <1>t, <2>1 DEF KbTypeOK
      <4>. QED
        BY <2>1, <4>1, <4>2, <4>3
    <3>2. CASE LinkRival
      <4>1. PICK r \in call.todo :
               claims' = [claims EXCEPT ![r] = [claims[r] EXCEPT !.rivals = claims[r].rivals \cup {call.id}]]
        BY <3>2, Zenon DEF LinkRival
      <4>2. call.pc = "link"
        BY <3>2 DEF LinkRival
      <4>3. r \in ClaimIds /\ claims[r] \in Claims /\ claims[r] # None /\ r # call.id
        BY <1>t, <2>1, <4>2 DEF KbTypeOK
      <4>4. claims[r].rivals \cup {call.id} \in SUBSET ClaimIds
        BY <2>1, <4>3 DEF Claims
      <4>5. r \notin claims[r].rivals \cup {call.id}
        BY <4>3 DEF SoundInv, Sound
      <4>. QED
        BY <4>1, <4>3, <4>4, <4>5
    <3>. QED
      BY <1>7, <3>1, <3>2
  <2>. DEFINE new == [claims[r] EXCEPT !.rivals = who]
  <2>3. /\ new.prov = claims[r].prov /\ new.conf = claims[r].conf
        /\ new.subject = claims[r].subject /\ new.history = claims[r].history /\ new.rivals = who
    BY <2>2 DEF Claims
  <2>4. \A id \in ClaimIds : claims'[id] = IF id = r THEN new ELSE claims[id]
    BY <1>t, <2>2 DEF KbTypeOK
  <2>. HIDE DEF new
  <2>5. Sound(r, new)
    BY <2>2, <2>3 DEF SoundInv, Sound
  <2>6. \A id \in ClaimIds : claims'[id] # None => Sound(id, claims'[id])
    BY <1>s, <2>4, <2>5
  <2>7. call'.pc # "verify"
    <3>1. CASE FindRivals
      BY <3>1 DEF FindRivals
    <3>2. CASE LinkRival
      BY <2>1, <3>2 DEF LinkRival, Idle
    <3>. QED
      BY <1>7, <3>1, <3>2
  <2>. QED
    BY <1>1, <1>2, <2>6, <2>7
<1>8. CASE Return \/ Restart
  <2>1. \A id \in ClaimIds : claims'[id] # None => Sound(id, claims'[id])
    BY <1>8, <1>s DEF Return, Restart
  <2>. QED
    BY <1>1, <1>2, <1>8, <2>1 DEF Return, Restart, Idle
<1>9. CASE FramesStep \/ ListenerSaves \/ UNCHANGED vars
  BY <1>3, <1>9 DEF FramesStep, ListenerSaves, vars, kbVars
<1>. QED
  BY <1>4, <1>5, <1>6, <1>7, <1>8, <1>9, StepKinds

\* A server starts without claims.
LEMMA SoundInitial == EvidenceInit => LogBounded /\ SoundInv
BY CorrelateAssumption DEF EvidenceInit, CorrelateInit, LogBounded, SoundInv, Idle

(* What save_claim let through keeps passing the gate, and what it cites     *)
(* keeps the frames that it was verified with, in memory and in kb.json.     *)
THEOREM SoundCorrect == EvidenceSpec => [](TypeInv /\ LogBounded /\ SoundInv)
<1>1. TypeInv /\ LogBounded /\ SoundInv /\ [EvidenceNext]_vars => LogBounded' /\ SoundInv'
  BY SoundStep, CorrelateStep, LogGrows DEF TypeInv
<1>. QED
  BY <1>1, SoundInitial, TypeCorrect, PTL DEF EvidenceSpec

\* The claims that someone can read, of memory and of kb.json.
Readable == InForce(claims) \cup InForce(stored)

(* No claim is more confident than the strongest class of its evidence       *)
(* allows, nor above the threshold on one class alone.                       *)
THEOREM ConfidenceIsEarned ==
  EvidenceSpec => [](\A claim \in Readable : Gate(claim.prov, claim.conf))
<1>1. SoundInv => \A claim \in Readable : Gate(claim.prov, claim.conf)
  BY DEF SoundInv, Sound, Readable, InForce
<1>. QED
  BY <1>1, SoundCorrect, PTL

(* The records of every claim keep the frames they were verified with,       *)
(* however many follow, and each is confirmed again unless Hidden says why   *)
(* the verifier cannot see it.                                               *)
THEOREM EvidenceHolds == EvidenceSpec => []FirmEvidenceHolds
<1>1. TypeInv /\ SoundInv => EvidenceTypeOK
  <2> SUFFICES ASSUME TypeInv, SoundInv PROVE EvidenceTypeOK
    OBVIOUS
  <2>1. \A id \in ClaimIds : claims[id] # None => IsClaim(id, claims[id])
    BY DEF TypeInv, KbTypeOK, Claims, Percents, SoundInv, Sound, IsClaim
  <2>2. \A id \in ClaimIds : stored[id] # None => IsClaim(id, stored[id])
    BY DEF TypeInv, KbTypeOK, Claims, Percents, SoundInv, Sound, IsClaim
  <2>3. call.pc \in {"idle", "verify", "rivals", "link"}
    BY DEF TypeInv, KbTypeOK, Calls, Idle
  <2>. QED
    BY <2>1, <2>2, <2>3 DEF TypeInv, EvidenceTypeOK
<1>2. SoundInv => \A claim \in InForce(claims) \cup InForce(stored) : \A p \in claim.prov :
         Backed(claim.subject, p)
  BY DEF SoundInv, Sound, Supported, InForce
<1>3. TypeInv /\ SoundInv => FirmEvidenceHolds
  <2> SUFFICES ASSUME TypeInv, SoundInv PROVE FirmEvidenceHolds
    OBVIOUS
  <2>1. CorrelateTypeOK
    BY DEF TypeInv
  <2>2. ASSUME NEW claim \in InForce(claims) \cup InForce(stored), NEW p \in claim.prov
        PROVE  /\ Backed(claim.subject, p)
               /\ p.class \in {"captured_traffic", "temporal_correlation", "schema_induction"}
                    => Verify(claim.subject, p) \/ Hidden(claim.subject, p)
    BY <1>2, <2>1, <2>2, BackedVerifies
  <2>. QED
    BY <1>1, <2>2 DEF FirmEvidenceHolds
<1>. QED
  BY <1>3, SoundCorrect, PTL

(* Evidence by captured traffic about a frame is confirmed for ever; about   *)
(* an observation it is as long as no key has a number and a text in one     *)
(* field, however many frames follow.                                        *)
THEOREM CapturedEvidenceHolds ==
  EvidenceSpec => [](\A claim \in Readable : \A p \in claim.prov :
                        p.class = "captured_traffic" /\ (Builds(Captures) \/ IsFrame(claim.subject))
                           => Verify(claim.subject, p))
<1>1. FirmEvidenceHolds =>
         \A claim \in Readable : \A p \in claim.prov :
            p.class = "captured_traffic" /\ (Builds(Captures) \/ IsFrame(claim.subject))
               => Verify(claim.subject, p)
  BY DEF FirmEvidenceHolds, Readable, Hidden
<1>. QED
  BY <1>1, EvidenceHolds, PTL

-----------------------------------------------------------------------------
(* INDUCTION.                                                                *)

\* A set of numbers has a least one.
LEMMA LeastExists ==
  ASSUME NEW S \in SUBSET Nat, S # {}
  PROVE  \E x \in S : \A y \in S : x <= y
<1>. DEFINE R == StrictSubsetOrdering(Nat)
            F == {0..x : x \in S}
<1>1. IsWellFoundedOn(R, FiniteSubsetsOf(Nat))
  BY FS_StrictSubsetOrderingWellFounded, Zenon
<1>2. F \subseteq FiniteSubsetsOf(Nat) /\ F # {}
  <2>1. ASSUME NEW x \in S PROVE IsFiniteSet(0..x) /\ 0..x \in SUBSET Nat
    <3>1. 0 \in Int /\ x \in Int
      OBVIOUS
    <3>2. IsFiniteSet(0..x)
      BY <3>1, FS_Interval, Zenon
    <3>. QED
      BY <3>2
  <2>. QED
    BY <2>1 DEF FiniteSubsetsOf
<1>3. PICK X \in F : \A Y \in F : ~ (<<Y, X>> \in R)
  BY <1>1, <1>2, WFMin, Zenon
<1>4. PICK x \in S : X = 0..x
  OBVIOUS
<1>5. ASSUME NEW y \in S PROVE x <= y
  <2>1. <<0..y, 0..x>> \notin R
    BY <1>3, <1>4, <1>5
  <2>2. 0..y \in SUBSET Nat /\ 0..x \in SUBSET Nat
    OBVIOUS
  <2>3. ~ (0..y \subseteq 0..x /\ 0..y # 0..x)
    BY <2>1, <2>2, Zenon DEF StrictSubsetOrdering
  <2>4. y < x => 0..y \subseteq 0..x /\ x \in 0..x /\ x \notin 0..y
    OBVIOUS
  <2>. QED
    BY <2>3, <2>4
<1>. QED
  BY <1>5

\* Induction along an interval, upwards.
LEMMA Upward ==
  ASSUME NEW lo \in Nat, NEW hi \in Nat, NEW P,
         \A k \in lo..hi : (\A j \in lo..hi : j < k => j \in P) => k \in P
  PROVE  lo..hi \subseteq P
<1>. DEFINE Bad == (lo..hi) \ P
<1>1. SUFFICES ASSUME Bad # {} PROVE FALSE
  OBVIOUS
<1>2. Bad \in SUBSET Nat
  OBVIOUS
<1>3. PICK k \in Bad : \A j \in Bad : k <= j
  BY <1>1, <1>2, LeastExists
<1>4. \A j \in lo..hi : j < k => j \in P
  BY <1>3
<1>. QED
  BY <1>3, <1>4

\* A function of a set into itself can be applied again and again.
Iterated(V, F, a, n) == \E f \in [0..n -> V] : f[0] = a /\ \A i \in 1..n : f[i] = F[f[i - 1]]

LEMMA IterationExists ==
  ASSUME NEW V, NEW F \in [V -> V], NEW a \in V, NEW n \in Nat
  PROVE  Iterated(V, F, a, n)
<1>. DEFINE P == {k \in 0..n : \E f \in [0..k -> V] :
                                  f[0] = a /\ \A i \in 1..k : f[i] = F[f[i - 1]]}
<1>1. ASSUME NEW k \in 0..n, \A j \in 0..n : j < k => j \in P PROVE k \in P
  <2>1. CASE k = 0
    <3>. DEFINE g == [i \in 0..0 |-> a]
    <3>1. g \in [0..0 -> V] /\ g[0] = a /\ 1..0 = {}
      OBVIOUS
    <3>. QED
      BY <2>1, <3>1
  <2>2. CASE k # 0
    <3>1. k - 1 \in 0..n /\ k - 1 < k
      BY <2>2
    <3>2. k - 1 \in P
      BY <1>1, <3>1
    <3>3. PICK f \in [0..(k - 1) -> V] : f[0] = a /\ \A i \in 1..(k - 1) : f[i] = F[f[i - 1]]
      BY <3>2
    <3>. DEFINE g == [i \in 0..k |-> IF i = k THEN F[f[k - 1]] ELSE f[i]]
    <3>4. \A i \in 0..k : i # k => i \in 0..(k - 1)
      BY <2>2
    <3>5. k - 1 \in 0..(k - 1) /\ 0 \in 0..k /\ k # 0
      BY <2>2
    <3>6. g \in [0..k -> V] /\ g[0] = a
      BY <3>3, <3>4, <3>5
    <3>7. ASSUME NEW i \in 1..k PROVE g[i] = F[g[i - 1]]
      <4>1. i \in 0..k /\ i - 1 \in 0..k /\ i - 1 # k /\ (i # k => i \in 1..(k - 1))
        BY <2>2
      <4>. QED
        BY <3>3, <4>1
    <3>. QED
      BY <3>6, <3>7
  <2>. QED
    BY <2>1, <2>2
<1>2. 0..n \subseteq P
  <2>. HIDE DEF P
  <2>. QED
    BY <1>1, Upward
<1>. QED
  BY <1>2 DEF Iterated

-----------------------------------------------------------------------------
(* What redaction makes of a leaf.                                           *)

\* The URL u whose parameter has the value y.
With(u, y) == Url(u.param, y, u.tail, u.form)

\* What the value of a URL's parameter may become.
Becomes(u) ==
  {With(u, y) : y \in {Redacted, u.val} \cup [is : {"pseudonym"}, of : {Redacted, u.val}, times : Nat]}

\* A pass over a URL.
LEMMA PassIs ==
  ASSUME NEW u, IsLeaf(u), u.is = "url", NEW s \in BOOLEAN, NEW x \in Becomes(u)
  PROVE  /\ RedactUrl(x, s) \in Becomes(u)
         /\ x.is = "url" /\ x.param = u.param /\ x.tail = u.tail /\ x.form = u.form
         /\ RedactUrl(x, s) =
              LET y == Scrub(x.val) IN
              With(u, IF u.param \in SensitiveKeys /\ y # NoText THEN RedactValue(y, u.param, s) ELSE y)
<1>1. u = Url(u.param, u.val, u.tail, u.form) /\ u.val.is = "text" /\ u.val = Text(u.val.word, u.val.looks)
  BY DEF IsLeaf
<1>2. PICK y \in {Redacted, u.val} \cup [is : {"pseudonym"}, of : {Redacted, u.val}, times : Nat] :
         x = With(u, y)
  BY DEF Becomes
<1>3. x = [is |-> "url", param |-> u.param, val |-> y, tail |-> u.tail, form |-> u.form]
  BY <1>2 DEF With, Url
<1>. DEFINE z == Scrub(y)
            v == IF u.param \in SensitiveKeys /\ z # NoText THEN RedactValue(z, u.param, s) ELSE z
<1>4. RedactUrl(x, s) = With(u, v)
  BY <1>3 DEF RedactUrl, With, Url, NoText
<1>5. Redacted = [is |-> "text", word |-> "<REDACTED>", looks |-> "redacted"]
  BY DEF Redacted, Text
<1>6. z = y \/ z = Redacted
  BY DEF Scrub
<1>7. z \in {Redacted, u.val} \cup [is : {"pseudonym"}, of : {Redacted, u.val}, times : Nat]
  BY <1>6
<1>8. RedactValue(z, u.param, s) \in {Redacted, z, Pseudonym(z)}
  BY DEF RedactValue
<1>9. Pseudonym(z) \in [is : {"pseudonym"}, of : {Redacted, u.val}, times : Nat]
  <2>1. CASE z \in {Redacted, u.val}
    <3>1. z.is = "text"
      BY <1>1, <1>5, <2>1
    <3>. QED
      BY <2>1, <3>1 DEF Pseudonym
  <2>2. CASE z \in [is : {"pseudonym"}, of : {Redacted, u.val}, times : Nat]
    BY <2>2 DEF Pseudonym
  <2>. QED
    BY <1>7, <2>1, <2>2
<1>10. v \in {Redacted, u.val} \cup [is : {"pseudonym"}, of : {Redacted, u.val}, times : Nat]
  BY <1>7, <1>8, <1>9
<1>. QED
  BY <1>3, <1>4, <1>10 DEF Becomes

\* What has become of a URL after n turns: its value is gone, it stayed as it
\* is, or n pseudonyms were put on its value.
Gone(x)        == Base(x.val) = Redacted
Stays(u, x, n) == x = u /\ u.val.looks \notin {"embeds", "opens"}
                        /\ (n # 0 /\ u.param \in SensitiveKeys => u.val = NoText)
Veiled(u, n)  == With(u, [is |-> "pseudonym", of |-> u.val, times |-> n])
IsVeiled(u, x, n, s) ==
  /\ u.param \in SensitiveKeys /\ u.val # NoText /\ s /\ u.param \notin HeaderKeys
  /\ u.val.looks \notin {"credential", "embeds", "opens"}
  /\ x = Veiled(u, n)

PassedTo(u, x, n, s) == Gone(x) \/ Stays(u, x, n) \/ IsVeiled(u, x, n, s)

LEMMA FirstPass ==
  ASSUME NEW u, IsLeaf(u), u.is = "url", NEW s \in BOOLEAN
  PROVE  u \in Becomes(u) /\ PassedTo(u, RedactUrl(u, s), 1, s)
<1>1. u = Url(u.param, u.val, u.tail, u.form) /\ u.val.is = "text" /\ u.val = Text(u.val.word, u.val.looks)
  BY DEF IsLeaf
<1>2. u = With(u, u.val)
  BY <1>1 DEF With
<1>3. u \in Becomes(u)
  BY <1>2 DEF Becomes
<1>. DEFINE y == Scrub(u.val)
<1>4. RedactUrl(u, s) =
        With(u, IF u.param \in SensitiveKeys /\ y # NoText THEN RedactValue(y, u.param, s) ELSE y)
  BY <1>3, PassIs
<1>5. Redacted.is = "text" /\ Redacted.looks = "redacted" /\ Redacted # NoText
  BY DEF Redacted, NoText, Text
<1>6. \A z : With(u, z).val = z
  BY DEF With, Url
<1>7. CASE y = Redacted
  <2>1. RedactValue(y, u.param, s) \in {Redacted, Pseudonym(Redacted)}
    BY <1>7 DEF RedactValue
  <2>2. Base(Redacted) = Redacted /\ Base(Pseudonym(Redacted)) = Redacted
    BY <1>5 DEF Base, Pseudonym
  <2>3. Base(RedactUrl(u, s).val) = Redacted
    BY <1>4, <1>6, <1>7, <2>1, <2>2
  <2>. QED
    BY <1>3, <2>3 DEF PassedTo, Gone
<1>8. CASE y # Redacted
  <2>1. y = u.val /\ u.val.looks \notin {"embeds", "opens"}
    BY <1>1, <1>8 DEF Scrub
  <2>2. CASE u.param \in SensitiveKeys /\ y # NoText
    <3>1. RedactUrl(u, s) = With(u, RedactValue(y, u.param, s))
      BY <1>4, <2>2
    <3>2. CASE RedactValue(y, u.param, s) = Redacted
      <4>1. Base(Redacted) = Redacted
        BY <1>5 DEF Base
      <4>. QED
        BY <1>3, <1>6, <3>1, <3>2, <4>1 DEF PassedTo, Gone
    <3>3. CASE RedactValue(y, u.param, s) # Redacted
      <4>1. /\ u.val.looks # "credential" /\ u.param \notin HeaderKeys /\ s
            /\ RedactValue(y, u.param, s) = Pseudonym(y)
        BY <1>1, <2>1, <2>2, <3>3 DEF RedactValue
      <4>2. Pseudonym(y) = [is |-> "pseudonym", of |-> u.val, times |-> 1]
        BY <1>1, <2>1 DEF Pseudonym
      <4>. QED
        BY <1>3, <2>1, <2>2, <3>1, <4>1, <4>2 DEF PassedTo, IsVeiled, Veiled
    <3>. QED
      BY <3>2, <3>3
  <2>3. CASE ~(u.param \in SensitiveKeys /\ y # NoText)
    <3>1. RedactUrl(u, s) = u
      BY <1>2, <1>4, <2>1, <2>3
    <3>. QED
      BY <1>3, <2>1, <2>3, <3>1 DEF PassedTo, Stays
  <2>. QED
    BY <2>2, <2>3
<1>. QED
  BY <1>7, <1>8

LEMMA NextPass ==
  ASSUME NEW u, IsLeaf(u), u.is = "url", NEW s \in BOOLEAN, NEW n \in Nat,
         NEW x \in Becomes(u), PassedTo(u, x, n, s), n # 0 \/ Gone(x)
  PROVE  PassedTo(u, RedactUrl(x, s), n + 1, s)
<1>. DEFINE y == Scrub(x.val)
<1>1. RedactUrl(x, s) =
        With(u, IF u.param \in SensitiveKeys /\ y # NoText THEN RedactValue(y, u.param, s) ELSE y)
  BY PassIs
<1>2. \A z : With(u, z).val = z
  BY DEF With, Url
<1>3. /\ Redacted.is = "text" /\ Redacted.looks = "redacted" /\ Redacted # NoText
      /\ NoText.is = "text" /\ Base(Redacted) = Redacted
  BY DEF Redacted, NoText, Text, Base
<1>4. CASE Gone(x)
  <2>1. x.val = Redacted \/ \E k \in Nat : x.val = [is |-> "pseudonym", of |-> Redacted, times |-> k]
    <3>1. PICK z \in {Redacted, u.val} \cup [is : {"pseudonym"}, of : {Redacted, u.val}, times : Nat] :
             x = With(u, z)
      BY DEF Becomes
    <3>2. x.val = z /\ Base(z) = Redacted
      BY <1>2, <1>4, <3>1 DEF Gone
    <3>3. u.val.is = "text"
      BY DEF IsLeaf
    <3>4. CASE z \in {Redacted, u.val}
      BY <3>2, <3>3, <3>4, <1>3 DEF Base
    <3>5. CASE z \in [is : {"pseudonym"}, of : {Redacted, u.val}, times : Nat]
      BY <3>2, <3>5 DEF Base
    <3>. QED
      BY <3>1, <3>4, <3>5
  <2>2. y = x.val /\ y # NoText
    <3>1. CASE x.val = Redacted
      BY <1>3, <3>1 DEF Scrub
    <3>2. ASSUME NEW k \in Nat, x.val = [is |-> "pseudonym", of |-> Redacted, times |-> k]
          PROVE  y = x.val /\ y # NoText
      <4>1. x.val.is = "pseudonym"
        BY <3>2
      <4>. QED
        BY <1>3, <4>1 DEF Scrub
    <3>. QED
      BY <2>1, <3>1, <3>2
  <2>3. RedactValue(y, u.param, s) \in {Redacted, y, Pseudonym(y)}
    BY DEF RedactValue
  <2>4. Base(y) = Redacted /\ Base(Pseudonym(y)) = Redacted
    <3>1. CASE y = Redacted
      <4>1. Pseudonym(y) = [is |-> "pseudonym", of |-> Redacted, times |-> 1]
        BY <1>3, <3>1 DEF Pseudonym
      <4>. QED
        BY <1>3, <3>1, <4>1 DEF Base
    <3>2. ASSUME NEW k \in Nat, y = [is |-> "pseudonym", of |-> Redacted, times |-> k]
          PROVE  Base(y) = Redacted /\ Base(Pseudonym(y)) = Redacted
      <4>1. Pseudonym(y) = [is |-> "pseudonym", of |-> Redacted, times |-> k + 1]
        BY <3>2 DEF Pseudonym
      <4>. QED
        BY <3>2, <4>1 DEF Base
    <3>. QED
      BY <2>1, <2>2, <3>1, <3>2
  <2>5. Base(RedactUrl(x, s).val) = Redacted
    BY <1>1, <1>2, <1>3, <2>3, <2>4
  <2>. QED
    BY <2>5 DEF PassedTo, Gone
<1>5. CASE Stays(u, x, n) /\ n # 0
  <2>1. y = u.val
    BY <1>5 DEF Stays, Scrub
  <2>2. RedactUrl(x, s) = With(u, u.val)
    BY <1>1, <1>5, <2>1 DEF Stays
  <2>3. u = With(u, u.val)
    BY DEF With, IsLeaf
  <2>. QED
    BY <1>5, <2>2, <2>3 DEF PassedTo, Stays
<1>6. CASE IsVeiled(u, x, n, s)
  <2>1. x.val = [is |-> "pseudonym", of |-> u.val, times |-> n]
    BY <1>2, <1>6 DEF IsVeiled, Veiled
  <2>2. y = x.val /\ y # NoText
    BY <1>3, <2>1 DEF Scrub
  <2>3. RedactValue(y, u.param, s) = Pseudonym(y)
    BY <1>6, <2>1, <2>2 DEF RedactValue, IsVeiled
  <2>4. Pseudonym(y) = [is |-> "pseudonym", of |-> u.val, times |-> n + 1]
    BY <2>1, <2>2 DEF Pseudonym
  <2>5. RedactUrl(x, s) = Veiled(u, n + 1)
    BY <1>1, <1>6, <2>2, <2>3, <2>4 DEF IsVeiled, Veiled
  <2>. QED
    BY <1>6, <2>5 DEF PassedTo, IsVeiled
<1>. QED
  BY <1>4, <1>5, <1>6 DEF PassedTo

\* Before the first turn only the patterns have been applied.
LEMMA NoPass ==
  ASSUME NEW u, IsLeaf(u), u.is = "url", NEW s \in BOOLEAN
  PROVE  /\ ScrubUrl(u) \in Becomes(u) /\ PassedTo(u, ScrubUrl(u), 0, s)
         /\ Gone(ScrubUrl(u)) \/ ScrubUrl(u) = u
<1>1. u = Url(u.param, u.val, u.tail, u.form) /\ u.val.is = "text" /\ u.val = Text(u.val.word, u.val.looks)
  BY DEF IsLeaf
<1>2. ScrubUrl(u) = With(u, Scrub(u.val)) /\ u = With(u, u.val)
  BY <1>1 DEF ScrubUrl, With, Url
<1>3. \A z : With(u, z).val = z
  BY DEF With, Url
<1>4. Base(Redacted) = Redacted
  BY DEF Redacted, Text, Base
<1>5. CASE Scrub(u.val) = Redacted
  <2>1. ScrubUrl(u) \in Becomes(u)
    BY <1>2, <1>5 DEF Becomes
  <2>2. Gone(ScrubUrl(u))
    BY <1>2, <1>3, <1>4, <1>5 DEF Gone
  <2>. QED
    BY <2>1, <2>2 DEF PassedTo
<1>6. CASE Scrub(u.val) # Redacted
  <2>1. Scrub(u.val) = u.val /\ u.val.looks \notin {"embeds", "opens"}
    BY <1>1, <1>6 DEF Scrub
  <2>2. ScrubUrl(u) = u /\ u \in Becomes(u)
    BY <1>2, <2>1 DEF Becomes
  <2>. QED
    BY <2>1, <2>2 DEF PassedTo, Stays
<1>. QED
  BY <1>5, <1>6

LEMMA NoTurn ==
  ASSUME NEW u, NEW s
  PROVE  Rewritten(u, 0, s) = ScrubUrl(u)
<1>. DEFINE Pass(f) == [i \in 0..0 |-> IF i = 0 THEN ScrubUrl(u) ELSE RedactUrl(f[i - 1], s)]
            g == [i \in 0..0 |-> ScrubUrl(u)]
            pass == CHOOSE f : f = Pass(f)
<1>1. g = Pass(g)
  OBVIOUS
<1>2. pass = Pass(pass)
  <2>. HIDE DEF Pass, g
  <2>. QED
    BY <1>1
<1>3. Rewritten(u, 0, s) = pass[0]
  BY DEF Rewritten
<1>4. pass[0] = ScrubUrl(u)
  <2>. HIDE DEF pass
  <2>. QED
    BY <1>2
<1>. QED
  BY <1>3, <1>4

\* A URL after n turns.
LEMMA RewrittenIs ==
  ASSUME NEW u, IsLeaf(u), u.is = "url", NEW s \in BOOLEAN, NEW n \in Nat
  PROVE  Rewritten(u, n, s) \in Becomes(u) /\ PassedTo(u, Rewritten(u, n, s), n, s)
<1>. DEFINE V == Becomes(u)
            F == [x \in V |-> RedactUrl(x, s)]
            Pass(f) == [i \in 0..n |-> IF i = 0 THEN ScrubUrl(u) ELSE RedactUrl(f[i - 1], s)]
<1>1. ScrubUrl(u) \in V /\ F \in [V -> V]
  BY NoPass, PassIs
<1>2. \E f : f = Pass(f)
  <2>. HIDE DEF V
  <2>1. PICK f \in [0..n -> V] : f[0] = ScrubUrl(u) /\ \A i \in 1..n : f[i] = F[f[i - 1]]
    <3>. HIDE DEF F
    <3>1. Iterated(V, F, ScrubUrl(u), n)
      BY <1>1, IterationExists
    <3>. QED
      BY <3>1 DEF Iterated
  <2>2. ASSUME NEW i \in 0..n PROVE f[i] = Pass(f)[i]
    <3>1. i # 0 => i \in 1..n /\ i - 1 \in 0..n
      OBVIOUS
    <3>. QED
      BY <2>1, <3>1
  <2>3. f = Pass(f)
    BY <2>1, <2>2
  <2>. QED
    BY <2>3
<1>. DEFINE pass == CHOOSE f : f = Pass(f)
<1>3. pass = Pass(pass)
  <2>. HIDE DEF Pass
  <2>. QED
    BY <1>2
<1>4. Rewritten(u, n, s) = pass[n]
  BY DEF Rewritten
<1>. HIDE DEF pass
<1>. DEFINE P == {i \in 0..n : pass[i] \in V /\ PassedTo(u, pass[i], i, s)}
<1>5. ASSUME NEW k \in 0..n, \A j \in 0..n : j < k => j \in P PROVE k \in P
  <2>1. CASE k = 0
    <3>1. pass[0] = ScrubUrl(u)
      BY <1>3
    <3>. QED
      BY <2>1, <3>1, NoPass
  <2>2. CASE k # 0
    <3>1. k - 1 \in 0..n /\ k - 1 < k /\ k - 1 \in Nat /\ (k - 1) + 1 = k
      BY <2>2
    <3>2. pass[k - 1] \in V /\ PassedTo(u, pass[k - 1], k - 1, s)
      BY <1>5, <3>1
    <3>3. pass[k] = RedactUrl(pass[k - 1], s)
      BY <1>3, <2>2
    <3>4. pass[k] \in V
      BY <3>2, <3>3, PassIs
    <3>5. CASE k - 1 # 0 \/ Gone(pass[k - 1])
      <4>1. PassedTo(u, RedactUrl(pass[k - 1], s), (k - 1) + 1, s)
        BY <3>1, <3>2, <3>5, NextPass
      <4>. QED
        BY <3>1, <3>3, <3>4, <4>1
    <3>6. CASE k - 1 = 0 /\ ~Gone(pass[k - 1])
      <4>1. k = 1 /\ pass[0] = ScrubUrl(u)
        BY <1>3, <3>1, <3>6
      <4>2. pass[0] = u
        BY <3>6, <4>1, NoPass
      <4>3. pass[k] = RedactUrl(u, s)
        BY <3>3, <4>1, <4>2
      <4>. QED
        BY <3>4, <4>1, <4>3, FirstPass
    <3>. QED
      BY <3>5, <3>6
  <2>. QED
    BY <2>1, <2>2
<1>6. 0..n \subseteq P
  <2>. HIDE DEF P
  <2>1. 0 \in Nat
    OBVIOUS
  <2>. QED
    BY <1>5, <2>1, Upward
<1>7. n \in 0..n
  OBVIOUS
<1>. QED
  BY <1>4, <1>6, <1>7

\* The turns of a URL that is seen to be one by itself, and of one in the place
\* p of a value.
Passes(p) == Cardinality(Texts(p)) + 1

\* Nothing is left of what stood at a place but, perhaps, a pseudonym of it.
ErasedLeaf(r) == Base(r) = Redacted \/ (Base(r).is = "url" /\ Base(Base(r).val) = Redacted)

\* Whether a leaf is rewritten alike whatever else stands in the texts around it.
SteadyLeaf(x) == x.is = "url" /\ x.param \in SensitiveKeys => x.form \notin {"query", "relative"}

\* What stands for the leaf x at p otherwise, whether there was a salt or not.
Shown(x, p) ==
  IF x.is = "url" /\ x.param \in SensitiveKeys /\ x.val # NoText /\ x.form # "anchor"
  THEN Veiled(x, Passes(p)) ELSE x

Image(x, p) ==
  IF x.is \in {"number", "dict", "list"} THEN x
  ELSE IF KeyAt(p) \in SensitiveKeys
       THEN [is |-> "pseudonym", of |-> Shown(x, p), times |-> 1]
       ELSE Shown(x, p)

\* What _redact_value leaves.
LEMMA ValueIs ==
  ASSUME NEW x, NEW key, NEW s, x.is # "pseudonym"
  PROVE  \/ RedactValue(x, key, s) = Redacted
         \/ /\ key \in SensitiveKeys /\ s
            /\ RedactValue(x, key, s) = [is |-> "pseudonym", of |-> x, times |-> 1]
         \/ /\ key \notin SensitiveKeys /\ key \notin HeaderKeys
            /\ ~(x.is = "text" /\ x.looks = "credential")
            /\ RedactValue(x, key, s) = x
BY DEF RedactValue, Pseudonym

LEMMA RedactedIs ==
  /\ Redacted.is = "text" /\ Redacted.looks = "redacted" /\ Redacted # NoText
  /\ Base(Redacted) = Redacted /\ ErasedLeaf(Redacted)
  /\ \A x, n : Base([is |-> "pseudonym", of |-> x, times |-> n]) = x
BY DEF Redacted, NoText, Text, Base, ErasedLeaf

\* The JSON texts that a place is in.
LEMMA TextsAre ==
  ASSUME NEW p, IsPlace(p)
  PROVE  Texts(p) \subseteq 1..Len(p) /\ Cardinality(Texts(p)) \in Nat /\ Len(p) \in Nat
<1>. DEFINE T == {p[i] : i \in DOMAIN p}
<1>1. p \in Seq(T)
  BY DEF IsPlace
<1>. HIDE DEF T
<1>2. Len(p) \in Nat /\ DOMAIN p = 1..Len(p)
  BY <1>1, LenProperties
<1>3. Texts(p) \subseteq 1..Len(p)
  BY <1>2 DEF Texts
<1>4. IsFiniteSet(1..Len(p))
  <2>1. 1 \in Int /\ Len(p) \in Int
    BY <1>2
  <2>. QED
    BY <2>1, FS_Interval
<1>5. IsFiniteSet(Texts(p))
  BY <1>3, <1>4, FS_Subset
<1>. QED
  BY <1>2, <1>3, <1>5, FS_CardinalityType

\* How often the URL at p has its turn.
LEMMA TurnsAre ==
  ASSUME NEW v, NEW p \in DOMAIN v, IsPlace(p), IsLeaf(v[p]), v[p].is = "url"
  PROVE  /\ Turns(v, p) \in Nat
         /\ Turns(v, p) = 0 =>
               \/ v[p].form = "anchor"
               \/ v[p].form = "relative" /\ \A i \in Texts(p) : ~Addressed(v, p, i)
         /\ v[p].form = "anchor" => Turns(v, p) = 0
         /\ v[p].form = "absolute" => Turns(v, p) = Passes(p)
<1>. DEFINE A == {i \in Texts(p) : Addressed(v, p, i)}
<1>1. Texts(p) \subseteq 1..Len(p) /\ Len(p) \in Nat
  BY TextsAre
<1>2. IsFiniteSet(1..Len(p))
  <2>1. 1 \in Int /\ Len(p) \in Int
    BY <1>1
  <2>. QED
    BY <2>1, FS_Interval
<1>3. IsFiniteSet(Texts(p)) /\ IsFiniteSet(A)
  BY <1>1, <1>2, FS_Subset
<1>4. Cardinality(A) \in Nat /\ (Cardinality(A) = 0 <=> A = {})
  BY <1>3, FS_CardinalityType, FS_EmptySet
<1>5. v[p].form = "absolute" => A = Texts(p)
  <2>1. ASSUME NEW i \in Texts(p), v[p].form = "absolute" PROVE Addressed(v, p, i)
    <3>1. p \in Inside(v, p, i)
      BY <1>1 DEF Inside
    <3>2. HasAddress(v[p])
      BY <2>1 DEF HasAddress
    <3>. QED
      BY <3>1, <3>2 DEF Addressed
  <2>. QED
    BY <2>1
<1>6. Turns(v, p) = IF v[p].form = "anchor" THEN 0
                    ELSE Cardinality(A) + (IF v[p].form \in {"absolute", "query"} THEN 1 ELSE 0)
  BY DEF Turns
<1>7. v[p].form \in {"absolute", "query", "relative", "anchor"}
  BY DEF IsLeaf
<1>8. A = {} <=> \A i \in Texts(p) : ~Addressed(v, p, i)
  OBVIOUS
<1>. HIDE DEF A
<1>9. Turns(v, p) \in Nat
  BY <1>4, <1>6
<1>10. Turns(v, p) = 0 => \/ v[p].form = "anchor"
                          \/ v[p].form = "relative" /\ Cardinality(A) = 0
  BY <1>4, <1>6, <1>7
<1>. QED
  BY <1>4, <1>5, <1>6, <1>8, <1>9, <1>10 DEF Passes

\* A leaf is erased, or its image does not depend on when it was stored, nor on
\* what stands beside it.
LEMMA LeafKept ==
  ASSUME NEW v, NEW p \in DOMAIN v, IsPlace(p), IsLeaf(v[p]), SteadyLeaf(v[p]), NEW s \in BOOLEAN
  PROVE  ErasedLeaf(RedactLeaf(v, p, s)) \/ RedactLeaf(v, p, s) = Image(v[p], p)
<1>. DEFINE x == v[p]
<1>1. CASE x.is \in {"number", "dict", "list"}
  BY <1>1 DEF RedactLeaf, Image
<1>2. CASE x.is = "text"
  <2>1. RedactLeaf(v, p, s) = RedactValue(Scrub(x), KeyAt(p), s)
    BY <1>2 DEF RedactLeaf
  <2>2. Scrub(x) = Redacted \/ Scrub(x) = x
    BY DEF Scrub
  <2>3. CASE Scrub(x) = Redacted
    <3>1. \/ RedactLeaf(v, p, s) = Redacted
          \/ RedactLeaf(v, p, s) = [is |-> "pseudonym", of |-> Redacted, times |-> 1]
      BY <2>1, <2>3, ValueIs, RedactedIs
    <3>. QED
      BY <3>1, RedactedIs DEF ErasedLeaf
  <2>4. CASE Scrub(x) = x
    <3>1. Image(x, p) = IF KeyAt(p) \in SensitiveKeys
                        THEN [is |-> "pseudonym", of |-> x, times |-> 1] ELSE x
      BY <1>2 DEF Image, Shown
    <3>. QED
      BY <1>2, <2>1, <2>4, <3>1, ValueIs, RedactedIs
  <2>. QED
    BY <2>2, <2>3, <2>4
<1>3. CASE x.is = "url"
  <2>. DEFINE n == Turns(v, p)
              R == Rewritten(x, n, s)
  <2>1. n \in Nat /\ (x.form = "anchor" => n = 0) /\ (x.form = "absolute" => n = Passes(p))
        /\ (x.form = "absolute" => n # 0)
    BY <1>3, TurnsAre
  <2>2. R \in Becomes(x) /\ PassedTo(x, R, n, s)
    <3>. HIDE DEF n
    <3>. QED
      BY <1>3, <2>1, RewrittenIs
  <2>3. RedactLeaf(v, p, s) = RedactValue(R, KeyAt(p), s)
    BY <1>3 DEF RedactLeaf
  <2>. HIDE DEF n, R, x
  <2>4. R.is = "url"
    BY <1>3, <2>2, PassIs DEF x
  <2>5. Base(R) = R
    BY <2>4 DEF Base
  <2>6. \/ RedactLeaf(v, p, s) = Redacted
        \/ /\ KeyAt(p) \in SensitiveKeys
           /\ RedactLeaf(v, p, s) = [is |-> "pseudonym", of |-> R, times |-> 1]
        \/ KeyAt(p) \notin SensitiveKeys /\ RedactLeaf(v, p, s) = R
    BY <2>3, <2>4, ValueIs
  <2>7. CASE Gone(R)
    BY <2>4, <2>5, <2>6, <2>7, RedactedIs DEF ErasedLeaf, Gone
  <2>8. CASE ~Gone(R)
    <3>1. x.param \in SensitiveKeys => x.form = "absolute" \/ x.form = "anchor"
      BY <1>3 DEF SteadyLeaf, IsLeaf, x
    <3>2. R = Shown(x, p)
      <4>1. CASE x.param \in SensitiveKeys /\ x.val # NoText /\ x.form # "anchor"
        <5>1. n = Passes(p) /\ n # 0
          BY <2>1, <3>1, <4>1
        <5>2. IsVeiled(x, R, n, s)
          BY <2>2, <2>8, <4>1, <5>1 DEF PassedTo, Stays
        <5>. QED
          BY <1>3, <4>1, <5>1, <5>2 DEF IsVeiled, Shown
      <4>2. CASE ~(x.param \in SensitiveKeys /\ x.val # NoText /\ x.form # "anchor")
        <5>1. Shown(x, p) = x
          BY <1>3, <4>2 DEF Shown
        <5>2. CASE Stays(x, R, n)
          BY <5>1, <5>2 DEF Stays
        <5>3. CASE IsVeiled(x, R, n, s)
          <6>1. x.form = "anchor" /\ n = 0 /\ x.param \in SensitiveKeys /\ x.val # NoText
            BY <2>1, <4>2, <5>3 DEF IsVeiled
          <6>2. R = ScrubUrl(x)
            BY <6>1, NoTurn DEF R
          <6>3. R = x
            BY <1>3, <2>8, <6>2, NoPass DEF x
          <6>. QED
            BY <5>1, <6>3
        <5>. QED
          BY <2>2, <2>8, <5>2, <5>3 DEF PassedTo
      <4>. QED
        BY <4>1, <4>2
    <3>3. Image(x, p) = IF KeyAt(p) \in SensitiveKeys
                        THEN [is |-> "pseudonym", of |-> R, times |-> 1] ELSE R
      BY <1>3, <3>2 DEF Image
    <3>. QED
      BY <2>6, <3>3, RedactedIs DEF x
  <2>. QED
    BY <2>7, <2>8
<1>. QED
  BY <1>1, <1>2, <1>3 DEF IsLeaf

\* Different leaves have different images.
LEMMA ImagesDiffer ==
  ASSUME NEW x, NEW y, IsLeaf(x), IsLeaf(y), NEW p, Image(x, p) = Image(y, p)
  PROVE  x = y
<1>1. \A z, q : IsLeaf(z) => Shown(z, q).is = z.is
  BY DEF IsLeaf, Shown, Veiled, With, Url
<1>2. \A z : z.is \in {"number", "dict", "list"} => Image(z, p) = z
  BY DEF Image
<1>3. \A z : IsLeaf(z) /\ z.is \notin {"number", "dict", "list"} =>
               IF KeyAt(p) \in SensitiveKeys
               THEN Image(z, p).is = "pseudonym" /\ Image(z, p).of = Shown(z, p)
               ELSE Image(z, p) = Shown(z, p)
  BY DEF Image
<1>4. CASE x.is \in {"number", "dict", "list"} \/ y.is \in {"number", "dict", "list"}
  <2>1. x.is \in {"number", "dict", "list"} /\ y.is \in {"number", "dict", "list"}
    BY <1>1, <1>2, <1>3, <1>4 DEF IsLeaf
  <2>. QED
    BY <1>2, <2>1
<1>5. CASE ~(x.is \in {"number", "dict", "list"} \/ y.is \in {"number", "dict", "list"})
  <2>. DEFINE n == Passes(p)
  <2>1. Shown(x, p) = Shown(y, p)
    BY <1>3, <1>5
  <2>. HIDE DEF n
  <2>2. x.is = y.is
    BY <1>1, <2>1
  <2>3. CASE x.is # "url"
    BY <2>1, <2>2, <2>3 DEF Shown
  <2>4. CASE x.is = "url"
    <3>1. /\ x = Url(x.param, x.val, x.tail, x.form) /\ x.val.is = "text"
          /\ y = Url(y.param, y.val, y.tail, y.form) /\ y.val.is = "text"
      BY <2>2, <2>4 DEF IsLeaf
    <3>2. \A z : /\ Veiled(z, n).param = z.param /\ Veiled(z, n).tail = z.tail /\ Veiled(z, n).form = z.form
                 /\ Veiled(z, n).val = [is |-> "pseudonym", of |-> z.val, times |-> n]
      BY DEF Veiled, With, Url
    <3>4. \A z, w : [is |-> "pseudonym", of |-> z, times |-> n] = [is |-> "pseudonym", of |-> w, times |-> n]
                      => z = w
      OBVIOUS
    <3>5. \A z : [is |-> "pseudonym", of |-> z, times |-> n].is = "pseudonym"
      OBVIOUS
    <3>6. \A z : Shown(z, p) = z \/ Shown(z, p) = Veiled(z, n)
      BY DEF Shown, n
    <3>7. CASE Shown(x, p) = x /\ Shown(y, p) = y
      BY <2>1, <3>7
    <3>8. CASE Shown(x, p) = Veiled(x, n) /\ Shown(y, p) = Veiled(y, n)
      <4>1. x.param = y.param /\ x.tail = y.tail /\ x.val = y.val /\ x.form = y.form
        BY <2>1, <3>2, <3>4, <3>8
      <4>. QED
        BY <3>1, <4>1
    <3>9. CASE Shown(x, p) = x /\ Shown(y, p) = Veiled(y, n)
      <4>1. x.val = [is |-> "pseudonym", of |-> y.val, times |-> n]
        BY <2>1, <3>2, <3>9
      <4>. QED
        BY <3>1, <3>5, <4>1
    <3>10. CASE Shown(x, p) = Veiled(x, n) /\ Shown(y, p) = y
      <4>1. y.val = [is |-> "pseudonym", of |-> x.val, times |-> n]
        BY <2>1, <3>2, <3>10
      <4>. QED
        BY <3>1, <3>5, <4>1
    <3>. QED
      BY <3>6, <3>7, <3>8, <3>9, <3>10
  <2>. QED
    BY <2>3, <2>4
<1>. QED
  BY <1>4, <1>5

-----------------------------------------------------------------------------
(* Values.                                                                   *)

\* A step and what stands below it.
LEMMA UnderIs ==
  ASSUME NEW a, NEW q, IsPlace(q)
  PROVE  /\ IsPlace(Under(a, q)) /\ Under(a, q) # <<>>
         /\ Under(a, q)[1] = a /\ Tail(Under(a, q)) = q
         /\ Len(Under(a, q)) = Len(q) + 1 /\ Len(q) \in Nat
         /\ \A i \in 1..Len(q) : Under(a, q)[i + 1] = q[i]
<1>. DEFINE T == {q[i] : i \in DOMAIN q}
            p == <<a>> \o q
<1>0. q \in Seq(T) /\ p = Under(a, q)
  BY DEF IsPlace, Under
<1>. HIDE DEF T
<1>1. q \in Seq(T \cup {a}) /\ <<a>> \in Seq(T \cup {a}) /\ Len(q) \in Nat /\ DOMAIN q = 1..Len(q)
  <2>. DEFINE U == T \cup {a}
  <2>1. q \in Seq(U)
    BY <1>0, SeqMonotonic
  <2>. QED
    BY <2>1, LenProperties
<1>2. /\ p \in Seq(T \cup {a}) /\ Len(p) = Len(q) + 1
      /\ p[1] = a /\ \A i \in 1..Len(q) : p[i + 1] = q[i]
  BY <1>1, ConcatProperties
<1>. HIDE DEF p
<1>3. p # <<>> /\ DOMAIN p = 1..(Len(q) + 1)
  BY <1>1, <1>2, LenProperties
<1>4. IsPlace(p)
  <2>. DEFINE W == {p[i] : i \in DOMAIN p}
  <2>1. \A i \in 1..Len(p) : p[i] \in W
    BY <1>2, <1>3
  <2>2. Len(p) \in Nat /\ p = [i \in 1..Len(p) |-> p[i]]
    BY <1>2, LenProperties
  <2>3. p \in Seq(W)
    <3>. HIDE DEF W
    <3>1. p \in [1..Len(p) -> W]
      BY <2>1, <2>2
    <3>. QED
      BY <2>2, <3>1, SeqDef
  <2>. QED
    BY <2>3 DEF IsPlace
<1>5. Tail(p) = q
  <2>1. Tail(p) \in Seq(T \cup {a}) /\ Len(Tail(p)) = Len(q)
    BY <1>1, <1>2, <1>3, HeadTailProperties
  <2>2. \A i \in 1..Len(q) : Tail(p)[i] = q[i]
    BY <1>1, <1>2, <1>3, HeadTailProperties
  <2>. QED
    BY <1>1, <2>1, <2>2, SeqEqual
<1>. QED
  BY <1>0, <1>1, <1>2, <1>3, <1>4, <1>5

\* The places of a dictionary, of a list or of a JSON text.
LEMMA BranchIs ==
  ASSUME NEW kind, NEW f, DOMAIN f # {}, \A k \in DOMAIN f : IsValue(f[k])
  PROVE  /\ IsValue(Branch(kind, f))
         /\ \A k \in DOMAIN f : \A q \in DOMAIN f[k] :
               /\ Under(<<kind, k>>, q) \in DOMAIN Branch(kind, f)
               /\ Branch(kind, f)[Under(<<kind, k>>, q)] = f[k][q]
         /\ \A p \in DOMAIN Branch(kind, f) :
               \E k \in DOMAIN f : \E q \in DOMAIN f[k] : p = Under(<<kind, k>>, q)
<1>. DEFINE D == UNION {{Under(<<kind, k>>, q) : q \in DOMAIN f[k]} : k \in DOMAIN f}
            v == [p \in D |-> f[p[1][2]][Tail(p)]]
<1>1. Branch(kind, f) = v
  BY DEF Branch
<1>2. ASSUME NEW k \in DOMAIN f, NEW q \in DOMAIN f[k]
      PROVE  /\ Under(<<kind, k>>, q) \in D /\ v[Under(<<kind, k>>, q)] = f[k][q]
             /\ IsPlace(Under(<<kind, k>>, q))
  <2>1. IsPlace(q)
    BY DEF IsValue
  <2>. DEFINE p == Under(<<kind, k>>, q)
  <2>2. p[1] = <<kind, k>> /\ Tail(p) = q /\ IsPlace(p)
    BY <2>1, UnderIs
  <2>3. p \in D
    OBVIOUS
  <2>. HIDE DEF p, D
  <2>4. p[1][2] = k
    BY <2>2
  <2>5. v[p] = f[k][q]
    BY <2>2, <2>3, <2>4
  <2>. QED
    BY <2>2, <2>3, <2>5 DEF p
<1>3. \A p \in D : \E k \in DOMAIN f : \E q \in DOMAIN f[k] : p = Under(<<kind, k>>, q)
  OBVIOUS
<1>. HIDE DEF D
<1>4. D # {}
  <2>1. PICK k \in DOMAIN f : TRUE
    OBVIOUS
  <2>2. PICK q \in DOMAIN f[k] : TRUE
    BY DEF IsValue
  <2>. QED
    BY <1>2
<1>5. DOMAIN v = D /\ v = [p \in DOMAIN v |-> v[p]]
  OBVIOUS
<1>. HIDE DEF v
<1>6. ASSUME NEW p \in D PROVE IsPlace(p) /\ IsLeaf(v[p])
  <2>1. PICK k \in DOMAIN f : \E q \in DOMAIN f[k] : p = Under(<<kind, k>>, q)
    BY <1>3
  <2>2. PICK q \in DOMAIN f[k] : p = Under(<<kind, k>>, q)
    BY <2>1
  <2>3. IsLeaf(f[k][q])
    BY DEF IsValue
  <2>. QED
    BY <1>2, <2>2, <2>3
<1>7. IsValue(v)
  BY <1>4, <1>5, <1>6 DEF IsValue
<1>. QED
  BY <1>1, <1>2, <1>3, <1>5, <1>7

\* What stands below a step there, in that value or in another one that has the
\* same places.
LEMMA BelowIs ==
  ASSUME NEW kind, NEW f, DOMAIN f # {}, \A k \in DOMAIN f : IsValue(f[k]),
         NEW w, DOMAIN w = DOMAIN Branch(kind, f)
  PROVE  /\ Kind(w) = kind /\ FieldsOf(w) = DOMAIN f
         /\ \A k \in DOMAIN f :
               Below(w, <<kind, k>>) = [q \in DOMAIN f[k] |-> w[Under(<<kind, k>>, q)]]
<1>0. IsValue(Branch(kind, f))
  BY BranchIs
<1>1. /\ \A k \in DOMAIN f : \A q \in DOMAIN f[k] : Under(<<kind, k>>, q) \in DOMAIN w
      /\ \A p \in DOMAIN w : \E k \in DOMAIN f : \E q \in DOMAIN f[k] : p = Under(<<kind, k>>, q)
      /\ DOMAIN w # {}
  BY <1>0, BranchIs DEF IsValue
<1>2. ASSUME NEW k \in DOMAIN f, NEW q \in DOMAIN f[k]
      PROVE  /\ Under(<<kind, k>>, q) # <<>> /\ Under(<<kind, k>>, q)[1] = <<kind, k>>
             /\ Tail(Under(<<kind, k>>, q)) = q
  <2>1. IsPlace(q)
    BY DEF IsValue
  <2>. QED
    BY <2>1, UnderIs
<1>3. \A p \in DOMAIN w : p # <<>> /\ p[1][1] = kind /\ p[1][2] \in DOMAIN f
  <2>1. ASSUME NEW p \in DOMAIN w PROVE p # <<>> /\ p[1][1] = kind /\ p[1][2] \in DOMAIN f
    <3>1. PICK k \in DOMAIN f : \E q \in DOMAIN f[k] : p = Under(<<kind, k>>, q)
      BY <1>1
    <3>2. p # <<>> /\ p[1] = <<kind, k>>
      BY <1>2, <3>1
    <3>. QED
      BY <3>2
  <2>. QED
    BY <2>1
<1>4. Kind(w) = kind
  BY <1>1, <1>3 DEF Kind
<1>5. FieldsOf(w) = DOMAIN f
  <2>1. ASSUME NEW k \in DOMAIN f PROVE k \in FieldsOf(w)
    <3>1. PICK q \in DOMAIN f[k] : TRUE
      BY DEF IsValue
    <3>. DEFINE p == Under(<<kind, k>>, q)
    <3>3. p \in DOMAIN w /\ p # <<>> /\ p[1] = <<kind, k>>
      BY <1>1, <1>2
    <3>. HIDE DEF p
    <3>4. p[1][2] = k
      BY <3>3
    <3>. QED
      BY <3>3, <3>4 DEF FieldsOf
  <2>. QED
    BY <1>3, <2>1 DEF FieldsOf
<1>6. ASSUME NEW k \in DOMAIN f
      PROVE  Below(w, <<kind, k>>) = [q \in DOMAIN f[k] |-> w[Under(<<kind, k>>, q)]]
  <2>1. {Tail(p) : p \in {r \in DOMAIN w : r # <<>> /\ r[1] = <<kind, k>>}} = DOMAIN f[k]
    <3>1. ASSUME NEW q \in DOMAIN f[k]
          PROVE  \E p \in DOMAIN w : p # <<>> /\ p[1] = <<kind, k>> /\ Tail(p) = q
      BY <1>1, <1>2
    <3>2. ASSUME NEW p \in DOMAIN w, p[1] = <<kind, k>> PROVE Tail(p) \in DOMAIN f[k]
      <4>1. PICK j \in DOMAIN f : \E q \in DOMAIN f[j] : p = Under(<<kind, j>>, q)
        BY <1>1
      <4>2. PICK q \in DOMAIN f[j] : p = Under(<<kind, j>>, q)
        BY <4>1
      <4>3. p[1] = <<kind, j>> /\ Tail(p) = q
        BY <1>2, <4>2
      <4>4. j = k
        BY <3>2, <4>3
      <4>. QED
        BY <4>3, <4>4
    <3>. QED
      BY <3>1, <3>2
  <2>. QED
    BY <2>1 DEF Below
<1>. QED
  BY <1>4, <1>5, <1>6

\* A value that is a single leaf, such as an empty dictionary.
LEMMA LeafIs ==
  ASSUME NEW w, DOMAIN w = {<<>>}
  PROVE  Kind(w) = w[<<>>].is /\ FieldsOf(w) = {}
BY DEF Kind, FieldsOf

LEMMA SingleIs ==
  ASSUME NEW x, IsLeaf(x)
  PROVE  IsValue(Leaf(x)) /\ DOMAIN Leaf(x) = {<<>>} /\ Leaf(x)[<<>>] = x
<1>1. IsPlace(<<>>)
  BY EmptySeq DEF IsPlace
<1>. QED
  BY <1>1 DEF Leaf, IsValue

\* A branch is a value, also if nothing stands below it.
LEMMA BranchIsValue ==
  ASSUME NEW kind \in {"dict", "list", "json"}, NEW f, kind = "json" => DOMAIN f # {},
         \A k \in DOMAIN f : IsValue(f[k])
  PROVE  IsValue(Branch(kind, f)) /\ Kind(Branch(kind, f)) = kind
                                  /\ FieldsOf(Branch(kind, f)) = DOMAIN f
<1>1. CASE DOMAIN f # {}
  BY <1>1, BranchIs, BelowIs
<1>2. CASE DOMAIN f = {}
  <2>1. Branch(kind, f) = Leaf([is |-> kind])
    BY <1>2 DEF Branch
  <2>2. IsLeaf([is |-> kind])
    BY <1>2 DEF IsLeaf
  <2>. QED
    BY <1>2, <2>1, <2>2, LeafIs, SingleIs
<1>. QED
  BY <1>1, <1>2

-----------------------------------------------------------------------------
(* JSON texts that are no JSON any more.                                     *)

LEMMA OuterIs ==
  ASSUME NEW p, Texts(p) \subseteq Nat, NEW n \in Texts(p), \A j \in Texts(p) : n <= j
  PROVE  Outer(p) = n
<1>1. \A i \in Texts(p) : (\A j \in Texts(p) : i <= j) => i = n
  OBVIOUS
<1>. QED
  BY <1>1 DEF Outer

\* The first steps of a place.
LEMMA FirstSteps ==
  ASSUME NEW p, IsPlace(p), NEW n \in Nat, n <= Len(p), n # 0
  PROVE  /\ SubSeq(p, 1, n) \in Seq({p[i] : i \in DOMAIN p}) /\ Len(SubSeq(p, 1, n)) = n
         /\ \A i \in 1..n : SubSeq(p, 1, n)[i] = p[i]
<1>. DEFINE T == {p[i] : i \in DOMAIN p}
<1>1. p \in Seq(T)
  BY DEF IsPlace
<1>2. DOMAIN p = 1..Len(p) /\ Len(p) \in Nat
  <2>. HIDE DEF T
  <2>. QED
    BY <1>1, LenProperties
<1>3. \A i \in 1..n : p[i] \in T
  BY <1>2
<1>. HIDE DEF T
<1>4. 1 \in Int /\ n \in Int
  OBVIOUS
<1>5. /\ SubSeq(p, 1, n) \in Seq(T)
      /\ Len(SubSeq(p, 1, n)) = IF 1 <= n THEN n - 1 + 1 ELSE 0
      /\ \A i \in 1..(n - 1 + 1) : SubSeq(p, 1, n)[i] = p[1 + i - 1]
  BY <1>3, <1>4, SubSeqProperties
<1>6. n - 1 + 1 = n /\ \A i \in 1..n : 1 + i - 1 = i
  OBVIOUS
<1>. QED
  BY <1>5, <1>6 DEF T

LEMMA OneIs ==
  ASSUME NEW S, NEW s \in Seq(S), Len(s) = 1
  PROVE  s = <<s[1]>>
<1>1. s \in [1..1 -> S] /\ 1 \in 1..1
  BY LenProperties
<1>. QED
  BY <1>1

LEMMA TwoAre ==
  ASSUME NEW S, NEW s \in Seq(S), Len(s) = 2
  PROVE  s = <<s[1], s[2]>>
<1>1. s \in [1..2 -> S]
  BY LenProperties
<1>2. \A i : i \in 1..2 <=> i = 1 \/ i = 2
  OBVIOUS
<1>3. DOMAIN s = 1..2 /\ s = [i \in 1..2 |-> s[i]]
  BY <1>1
<1>. QED
  BY <1>2, <1>3

\* What breaks the JSON text whose places are T.
BreaksIn(v, T, q) ==
  \/ v[q].is = "text" /\ v[q].looks = "opens"
  \/ /\ v[q].is = "url" /\ v[q].form # "anchor" /\ \E r \in T : HasAddress(v[r])
     /\ v[q].param \in SensitiveKeys /\ ~v[q].tail

\* If every JSON text of a value is within one JSON text, that one breaks or
\* none does.
LEMMA BrokenIs ==
  ASSUME NEW v, NEW n \in Nat, NEW pre, NEW T, T = {p \in DOMAIN v : Texts(p) # {}},
         \A p \in T : Outer(p) = n /\ Len(p) >= n /\ SubSeq(p, 1, n) = pre,
         \A p \in DOMAIN v \ T : ~(Len(p) >= n /\ SubSeq(p, 1, n) = pre)
  PROVE  Broken(v) = IF \E q \in T : BreaksIn(v, T, q) THEN T ELSE {}
<1>1. \A p \in T : Inside(v, p, Outer(p)) = T
  BY DEF Inside
<1>2. \A p \in T : Breaks(v, p) <=> BreaksIn(v, T, p)
  BY <1>1 DEF Breaks, BreaksIn, Addressed
<1>3. \A p \in T : (\E q \in Inside(v, p, Outer(p)) : Breaks(v, q)) <=> \E q \in T : BreaksIn(v, T, q)
  BY <1>1, <1>2
<1>4. Broken(v) = {p \in T : \E q \in Inside(v, p, Outer(p)) : Breaks(v, q)}
  BY DEF Broken
<1>. QED
  BY <1>3, <1>4

\* It does not matter where the text stands.
LEMMA BreaksAlike ==
  ASSUME NEW v, NEW T, NEW w, NEW U,
         \A q \in T : \E r \in U : w[r] = v[q], \A r \in U : \E q \in T : v[q] = w[r]
  PROVE  (\E q \in T : BreaksIn(v, T, q)) <=> \E r \in U : BreaksIn(w, U, r)
<1>1. (\E r \in T : HasAddress(v[r])) <=> \E r \in U : HasAddress(w[r])
  <2>1. ASSUME NEW r \in T, HasAddress(v[r]) PROVE \E t \in U : HasAddress(w[t])
    BY <2>1
  <2>2. ASSUME NEW r \in U, HasAddress(w[r]) PROVE \E t \in T : HasAddress(v[t])
    BY <2>2
  <2>. QED
    BY <2>1, <2>2
<1>2. \A q \in T, r \in U : v[q] = w[r] => (BreaksIn(v, T, q) <=> BreaksIn(w, U, r))
  BY <1>1 DEF BreaksIn
<1>. QED
  BY <1>2

\* A JSON text, and a JSON text in a field.
BodyStep == <<"dict", "body_sample">>
JsonStep == <<"json", 1>>

LEMMA InText ==
  ASSUME NEW q, IsPlace(q)
  PROVE  LET p == Under(JsonStep, q) IN
         /\ IsPlace(p) /\ Texts(p) # {} /\ Outer(p) = 1
         /\ Len(p) >= 1 /\ SubSeq(p, 1, 1) = <<JsonStep>>
<1>. DEFINE p == Under(JsonStep, q)
<1>1. IsPlace(p) /\ p[1] = JsonStep /\ Len(p) = Len(q) + 1 /\ Len(q) \in Nat
  BY UnderIs
<1>. HIDE DEF p
<1>2. JsonStep[1] = "json"
  BY DEF JsonStep
<1>3. DOMAIN p = 1..Len(p)
  BY <1>1, LenProperties DEF IsPlace
<1>4. Texts(p) \subseteq 1..Len(p) /\ 1 \in Texts(p)
  BY <1>1, <1>2, <1>3, TextsAre DEF Texts
<1>5. Outer(p) = 1
  BY <1>1, <1>4, OuterIs
<1>6. SubSeq(p, 1, 1) = <<JsonStep>>
  <2>1. /\ SubSeq(p, 1, 1) \in Seq({p[i] : i \in DOMAIN p}) /\ Len(SubSeq(p, 1, 1)) = 1
        /\ SubSeq(p, 1, 1)[1] = JsonStep
    BY <1>1, FirstSteps
  <2>. QED
    BY <2>1, OneIs
<1>. QED
  BY <1>1, <1>4, <1>5, <1>6 DEF p

LEMMA InField ==
  ASSUME NEW q, IsPlace(q)
  PROVE  LET p == Under(BodyStep, Under(JsonStep, q)) IN
         /\ IsPlace(p) /\ Texts(p) # {} /\ Outer(p) = 2
         /\ Len(p) >= 2 /\ SubSeq(p, 1, 2) = <<BodyStep, JsonStep>>
         /\ SubSeq(p, 1, 1) = <<BodyStep>>
<1>. DEFINE r == Under(JsonStep, q)
            p == Under(BodyStep, r)
<1>0. IsPlace(r) /\ r[1] = JsonStep /\ Len(r) = Len(q) + 1 /\ Len(q) \in Nat
  BY UnderIs
<1>. HIDE DEF r
<1>1. IsPlace(p) /\ p[1] = BodyStep /\ Len(p) = Len(r) + 1 /\ p[1 + 1] = r[1]
  BY <1>0, UnderIs
<1>. HIDE DEF p
<1>2. JsonStep[1] = "json" /\ BodyStep[1] = "dict"
  BY DEF JsonStep, BodyStep
<1>3. DOMAIN p = 1..Len(p)
  BY <1>1, LenProperties DEF IsPlace
<1>4. Texts(p) \subseteq 1..Len(p) /\ 2 \in Texts(p) /\ 1 \notin Texts(p)
  BY <1>0, <1>1, <1>2, <1>3, TextsAre DEF Texts
<1>5. Outer(p) = 2
  <2>1. \A j \in Texts(p) : 2 <= j
    BY <1>0, <1>1, <1>4
  <2>2. Texts(p) \subseteq Nat
    BY <1>4
  <2>. QED
    BY <1>4, <2>1, <2>2, OuterIs
<1>6. SubSeq(p, 1, 2) = <<BodyStep, JsonStep>>
  <2>1. /\ SubSeq(p, 1, 2) \in Seq({p[i] : i \in DOMAIN p}) /\ Len(SubSeq(p, 1, 2)) = 2
        /\ SubSeq(p, 1, 2)[1] = BodyStep /\ SubSeq(p, 1, 2)[2] = JsonStep
    BY <1>0, <1>1, FirstSteps
  <2>. QED
    BY <2>1, TwoAre
<1>7. SubSeq(p, 1, 1) = <<BodyStep>>
  <2>1. /\ SubSeq(p, 1, 1) \in Seq({p[i] : i \in DOMAIN p}) /\ Len(SubSeq(p, 1, 1)) = 1
        /\ SubSeq(p, 1, 1)[1] = BodyStep
    <3>1. 1 \in Nat /\ 1 <= Len(p)
      BY <1>0, <1>1
    <3>. QED
      BY <1>1, <3>1, FirstSteps
  <2>. QED
    BY <2>1, OneIs
<1>. QED
  BY <1>0, <1>1, <1>4, <1>5, <1>6, <1>7 DEF p, r

-----------------------------------------------------------------------------
(* Frames and bodies.                                                        *)

Spoilt(d) == \E q \in DOMAIN d : BreaksIn(d, DOMAIN d, q)

HeaderPlace(h) == Under(<<"dict", "headers">>, Under(<<"dict", h>>, <<>>))

HeaderValues == Dict([h \in {"authorization", "accept"} |-> Leaf(Text(h, "plain"))])

LEMMA HeadersAre ==
  /\ IsValue(HeaderValues)
  /\ \A p \in DOMAIN HeaderValues : \E h \in {"authorization", "accept"} :
        p = Under(<<"dict", h>>, <<>>) /\ HeaderValues[p] = Text(h, "plain")
<1>. DEFINE g == [h \in {"authorization", "accept"} |-> Leaf(Text(h, "plain"))]
<1>1. ASSUME NEW h \in DOMAIN g
      PROVE  IsValue(g[h]) /\ DOMAIN g[h] = {<<>>} /\ g[h][<<>>] = Text(h, "plain")
  <2>1. IsLeaf(Text(h, "plain"))
    BY DEF IsLeaf, Text
  <2>. QED
    BY <2>1, SingleIs
<1>2. DOMAIN g = {"authorization", "accept"}
  OBVIOUS
<1>. HIDE DEF g
<1>3. DOMAIN g # {}
  BY <1>2
<1>4. HeaderValues = Branch("dict", g)
  BY DEF HeaderValues, Dict, g
<1>5. IsValue(Branch("dict", g))
  BY <1>1, <1>3, BranchIs
<1>6. ASSUME NEW p \in DOMAIN Branch("dict", g)
      PROVE  \E h \in DOMAIN g : p = Under(<<"dict", h>>, <<>>) /\ Branch("dict", g)[p] = Text(h, "plain")
  <2>1. PICK h \in DOMAIN g : \E q \in DOMAIN g[h] : p = Under(<<"dict", h>>, q)
    BY <1>1, <1>3, BranchIs
  <2>2. p = Under(<<"dict", h>>, <<>>) /\ <<>> \in DOMAIN g[h]
    BY <1>1, <2>1
  <2>3. Branch("dict", g)[Under(<<"dict", h>>, <<>>)] = g[h][<<>>]
    BY <1>1, <1>3, <2>2, BranchIs
  <2>. QED
    BY <1>1, <2>2, <2>3
<1>. QED
  BY <1>2, <1>4, <1>5, <1>6

LEMMA FrameIs ==
  ASSUME NEW b, IsValue(b)
  PROVE  /\ IsValue(FrameOf(b))
         /\ \A r \in DOMAIN b : /\ Under(BodyStep, r) \in DOMAIN FrameOf(b)
                                /\ FrameOf(b)[Under(BodyStep, r)] = b[r]
         /\ \A p \in DOMAIN FrameOf(b) :
               \/ \E r \in DOMAIN b : p = Under(BodyStep, r)
               \/ \E h \in {"authorization", "accept"} :
                     p = HeaderPlace(h) /\ FrameOf(b)[p] = Text(h, "plain")
<1>. DEFINE g == [k \in {"headers", "body_sample"} |-> IF k = "body_sample" THEN b ELSE HeaderValues]
<1>1. DOMAIN g = {"headers", "body_sample"} /\ g["body_sample"] = b /\ g["headers"] = HeaderValues
  OBVIOUS
<1>2. FrameOf(b) = Branch("dict", g)
  BY DEF FrameOf, HeaderValues, Dict
<1>. HIDE DEF g
<1>3. DOMAIN g # {} /\ \A k \in DOMAIN g : IsValue(g[k])
  BY <1>1, HeadersAre
<1>4. IsValue(Branch("dict", g))
  BY <1>3, BranchIs
<1>5. \A r \in DOMAIN b : /\ Under(BodyStep, r) \in DOMAIN Branch("dict", g)
                          /\ Branch("dict", g)[Under(BodyStep, r)] = b[r]
  <2>1. \A k \in DOMAIN g : \A q \in DOMAIN g[k] :
           /\ Under(<<"dict", k>>, q) \in DOMAIN Branch("dict", g)
           /\ Branch("dict", g)[Under(<<"dict", k>>, q)] = g[k][q]
    BY <1>3, BranchIs
  <2>. QED
    BY <1>1, <2>1 DEF BodyStep
<1>6. ASSUME NEW p \in DOMAIN Branch("dict", g)
      PROVE  \/ \E r \in DOMAIN b : p = Under(BodyStep, r)
             \/ \E h \in {"authorization", "accept"} :
                   p = HeaderPlace(h) /\ Branch("dict", g)[p] = Text(h, "plain")
  <2>1. PICK k \in DOMAIN g : \E q \in DOMAIN g[k] : p = Under(<<"dict", k>>, q)
    BY <1>3, BranchIs
  <2>2. PICK q \in DOMAIN g[k] : p = Under(<<"dict", k>>, q)
    BY <2>1
  <2>3. CASE k = "body_sample"
    BY <1>1, <2>2, <2>3 DEF BodyStep
  <2>4. CASE k = "headers"
    <3>1. q \in DOMAIN HeaderValues
      BY <1>1, <2>4
    <3>2. PICK h \in {"authorization", "accept"} :
             q = Under(<<"dict", h>>, <<>>) /\ HeaderValues[q] = Text(h, "plain")
      BY <3>1, HeadersAre
    <3>3. Branch("dict", g)[Under(<<"dict", k>>, q)] = g[k][q]
      BY <1>3, BranchIs
    <3>4. p = HeaderPlace(h) /\ Branch("dict", g)[p] = Text(h, "plain")
      BY <1>1, <2>2, <2>4, <3>2, <3>3 DEF HeaderPlace
    <3>. QED
      BY <3>4
  <2>. QED
    BY <1>1, <2>3, <2>4
<1>. QED
  BY <1>2, <1>4, <1>5, <1>6

\* A header is in no JSON text.
LEMMA HeaderPlaceIs ==
  ASSUME NEW h
  PROVE  LET p == HeaderPlace(h) IN
         /\ IsPlace(p) /\ p # <<>> /\ p[1] = <<"dict", "headers">>
         /\ Texts(p) = {} /\ Len(p) = 2
<1>. DEFINE a == <<"dict", h>>
            c == <<"dict", "headers">>
            r == Under(a, <<>>)
            p == Under(c, r)
<1>0. IsPlace(<<>>) /\ Len(<<>>) = 0 /\ a[1] = "dict" /\ c[1] = "dict"
  BY EmptySeq DEF IsPlace
<1>. HIDE DEF a, c
<1>1. IsPlace(r) /\ r[1] = a /\ Len(r) = 1
  <2>1. IsPlace(r) /\ r[1] = a /\ Len(r) = Len(<<>>) + 1
    BY <1>0, UnderIs
  <2>. QED
    BY <1>0, <2>1
<1>. HIDE DEF r
<1>2. IsPlace(p) /\ p # <<>> /\ p[1] = c /\ Len(p) = 2 /\ p[1 + 1] = r[1]
  <2>1. IsPlace(p) /\ p # <<>> /\ p[1] = c /\ Len(p) = Len(r) + 1
    BY <1>1, UnderIs
  <2>2. p[1 + 1] = r[1]
    <3>1. 1 \in 1..Len(r)
      BY <1>1
    <3>. QED
      BY <1>1, <3>1, UnderIs
  <2>. HIDE DEF p
  <2>. QED
    BY <1>1, <2>1, <2>2
<1>. HIDE DEF p
<1>3. Texts(p) \subseteq 1..2
  BY <1>2, TextsAre
<1>4. p[1][1] = "dict" /\ p[2][1] = "dict"
  BY <1>0, <1>1, <1>2
<1>5. Texts(p) = {}
  BY <1>3, <1>4 DEF Texts
<1>. QED
  BY <1>2, <1>5 DEF p, r, a, c, HeaderPlace

\* A body that is the JSON text of d.
LEMMA JsonIs ==
  ASSUME NEW d, IsValue(d)
  PROVE  /\ IsValue(Json(d)) /\ Json(d) = Branch("json", <<d>>)
         /\ \A q \in DOMAIN d : /\ Under(JsonStep, q) \in DOMAIN Json(d)
                                /\ Json(d)[Under(JsonStep, q)] = d[q]
         /\ \A p \in DOMAIN Json(d) : \E q \in DOMAIN d : p = Under(JsonStep, q)
<1>. DEFINE g == <<d>>
<1>1. DOMAIN g = {1} /\ g[1] = d
  OBVIOUS
<1>. HIDE DEF g
<1>2. DOMAIN g # {} /\ \A k \in DOMAIN g : IsValue(g[k])
  BY <1>1
<1>3. /\ IsValue(Branch("json", g))
      /\ \A k \in DOMAIN g : \A q \in DOMAIN g[k] :
            /\ Under(<<"json", k>>, q) \in DOMAIN Branch("json", g)
            /\ Branch("json", g)[Under(<<"json", k>>, q)] = g[k][q]
      /\ \A p \in DOMAIN Branch("json", g) :
            \E k \in DOMAIN g : \E q \in DOMAIN g[k] : p = Under(<<"json", k>>, q)
  BY <1>2, BranchIs
<1>. QED
  BY <1>1, <1>3 DEF Json, JsonStep, g

\* A body that breaks is broken as a whole.
LEMMA BrokenJson ==
  ASSUME NEW d, IsValue(d)
  PROVE  /\ Broken(Json(d)) = {} <=> ~Spoilt(d)
         /\ Broken(FrameOf(Json(d))) =
               IF Spoilt(d) THEN {Under(BodyStep, r) : r \in DOMAIN Json(d)} ELSE {}
<1>. DEFINE b == Json(d)
            v == FrameOf(b)
            T == {p \in DOMAIN v : Texts(p) # {}}
            U == {p \in DOMAIN b : Texts(p) # {}}
<1>1. \A q \in DOMAIN d : IsPlace(q)
  BY DEF IsValue
<1>2. DOMAIN d # {}
  BY DEF IsValue
<1>3. /\ IsValue(b)
      /\ \A q \in DOMAIN d : Under(JsonStep, q) \in DOMAIN b /\ b[Under(JsonStep, q)] = d[q]
      /\ \A p \in DOMAIN b : \E q \in DOMAIN d : p = Under(JsonStep, q)
  BY JsonIs
<1>. HIDE DEF b
<1>4. (\E q \in DOMAIN b : BreaksIn(b, DOMAIN b, q)) <=> Spoilt(d)
  BY <1>3, BreaksAlike DEF Spoilt
<1>5. \A p \in DOMAIN b : /\ Texts(p) # {} /\ Outer(p) = 1
                          /\ Len(p) >= 1 /\ SubSeq(p, 1, 1) = <<JsonStep>>
  BY <1>1, <1>3, InText
<1>6. Broken(b) = {} <=> ~Spoilt(d)
  <2>1. U = DOMAIN b
    BY <1>5
  <2>2. Broken(b) = IF \E q \in U : BreaksIn(b, U, q) THEN U ELSE {}
    <3>1. /\ \A p \in U : Outer(p) = 1 /\ Len(p) >= 1 /\ SubSeq(p, 1, 1) = <<JsonStep>>
          /\ \A p \in DOMAIN b \ U : ~(Len(p) >= 1 /\ SubSeq(p, 1, 1) = <<JsonStep>>)
      BY <1>5, <2>1
    <3>. HIDE DEF U
    <3>2. U = {p \in DOMAIN b : Texts(p) # {}}
      BY DEF U
    <3>. QED
      BY <3>1, <3>2, BrokenIs
  <2>. QED
    BY <1>3, <1>4, <2>1, <2>2 DEF IsValue
<1>7. \A r \in DOMAIN b :
         LET p == Under(BodyStep, r) IN
         /\ p \in DOMAIN v /\ v[p] = b[r]
         /\ Texts(p) # {} /\ Outer(p) = 2
         /\ Len(p) >= 2 /\ SubSeq(p, 1, 2) = <<BodyStep, JsonStep>>
  <2>1. ASSUME NEW r \in DOMAIN b
        PROVE  LET p == Under(BodyStep, r) IN
               /\ p \in DOMAIN v /\ v[p] = b[r]
               /\ Texts(p) # {} /\ Outer(p) = 2
               /\ Len(p) >= 2 /\ SubSeq(p, 1, 2) = <<BodyStep, JsonStep>>
    <3>1. PICK q \in DOMAIN d : r = Under(JsonStep, q)
      BY <1>3
    <3>. QED
      BY <1>1, <1>3, <3>1, InField, FrameIs
  <2>. QED
    BY <2>1
<1>8. ASSUME NEW p \in DOMAIN v, Texts(p) # {}
      PROVE  \E r \in DOMAIN b : p = Under(BodyStep, r)
  BY <1>3, <1>8, FrameIs, HeaderPlaceIs
<1>9. \A p \in DOMAIN v : Texts(p) = {} => ~(Len(p) >= 2 /\ SubSeq(p, 1, 2) = <<BodyStep, JsonStep>>)
  <2>1. ASSUME NEW p \in DOMAIN v, Texts(p) = {}, SubSeq(p, 1, 2) = <<BodyStep, JsonStep>>
        PROVE  FALSE
    <3>1. PICK h \in {"authorization", "accept"} : p = HeaderPlace(h)
      BY <1>3, <1>7, <2>1, FrameIs
    <3>2. IsPlace(p) /\ p[1] = <<"dict", "headers">> /\ Len(p) = 2
      BY <3>1, HeaderPlaceIs
    <3>3. SubSeq(p, 1, 2)[1] = p[1]
      BY <3>2, FirstSteps
    <3>4. <<BodyStep, JsonStep>>[1] = BodyStep
      OBVIOUS
    <3>5. BodyStep # <<"dict", "headers">>
      BY DEF BodyStep
    <3>. QED
      BY <2>1, <3>2, <3>3, <3>4, <3>5
  <2>. QED
    BY <2>1
<1>10. T = {Under(BodyStep, r) : r \in DOMAIN b}
  BY <1>7, <1>8
<1>11. Broken(v) = IF \E q \in T : BreaksIn(v, T, q) THEN T ELSE {}
  <2>1. /\ \A p \in T : Outer(p) = 2 /\ Len(p) >= 2 /\ SubSeq(p, 1, 2) = <<BodyStep, JsonStep>>
        /\ \A p \in DOMAIN v \ T : ~(Len(p) >= 2 /\ SubSeq(p, 1, 2) = <<BodyStep, JsonStep>>)
    BY <1>7, <1>8, <1>9
  <2>2. T = {p \in DOMAIN v : Texts(p) # {}}
    OBVIOUS
  <2>. HIDE DEF T, v
  <2>. QED
    BY <2>1, <2>2, BrokenIs
<1>12. (\E q \in T : BreaksIn(v, T, q)) <=> \E r \in DOMAIN b : BreaksIn(b, DOMAIN b, r)
  <2>. HIDE DEF T, v
  <2>1. \A q \in T : \E r \in DOMAIN b : b[r] = v[q]
    BY <1>7, <1>10
  <2>2. \A r \in DOMAIN b : \E q \in T : v[q] = b[r]
    BY <1>7, <1>10
  <2>. QED
    BY <2>1, <2>2, BreaksAlike
<1>. QED
  BY <1>4, <1>6, <1>10, <1>11, <1>12 DEF b

-----------------------------------------------------------------------------
(* What is stored of a body.                                                 *)

StoredBody(b, s) == Below(Walk(FrameOf(b), s), BodyStep)

InBody(q)    == Under(BodyStep, Under(JsonStep, q))
Place(k, q)  == InBody(Under(<<"dict", k>>, q))

\* What is stored of the value of field k of a dictionary.
StoredField(d, k, s) ==
  [q \in DOMAIN d[k] |-> RedactLeaf(FrameOf(Json(Dict(d))), Place(k, q), s)]

\* What stands where in a frame.
LEMMA InBodyIs ==
  ASSUME NEW d, IsValue(d), NEW q \in DOMAIN d
  PROVE  /\ InBody(q) \in DOMAIN FrameOf(Json(d)) /\ FrameOf(Json(d))[InBody(q)] = d[q]
         /\ IsPlace(InBody(q)) /\ IsPlace(q)
<1>1. IsValue(Json(d)) /\ Under(JsonStep, q) \in DOMAIN Json(d) /\ Json(d)[Under(JsonStep, q)] = d[q]
  BY JsonIs
<1>2. IsPlace(q)
  BY DEF IsValue
<1>. QED
  BY <1>1, <1>2, FrameIs, InField DEF InBody

LEMMA BodyPlaces ==
  ASSUME NEW b, IsValue(b), NEW p \in DOMAIN FrameOf(b)
  PROVE  p # <<>> /\ (p[1] = BodyStep <=> \E r \in DOMAIN b : p = Under(BodyStep, r))
<1>1. BodyStep # <<"dict", "headers">>
  BY DEF BodyStep
<1>2. CASE \E r \in DOMAIN b : p = Under(BodyStep, r)
  <2>1. PICK r \in DOMAIN b : p = Under(BodyStep, r)
    BY <1>2
  <2>2. IsPlace(r)
    BY DEF IsValue
  <2>. QED
    BY <1>2, <2>1, <2>2, UnderIs
<1>3. CASE ~\E r \in DOMAIN b : p = Under(BodyStep, r)
  <2>1. PICK h \in {"authorization", "accept"} : p = HeaderPlace(h)
    BY <1>3, FrameIs
  <2>2. p # <<>> /\ p[1] = <<"dict", "headers">>
    BY <2>1, HeaderPlaceIs
  <2>. QED
    BY <1>1, <1>3, <2>2
<1>. QED
  BY <1>2, <1>3

LEMMA BodyOf ==
  ASSUME NEW b, IsValue(b), NEW v, DOMAIN v = DOMAIN FrameOf(b)
  PROVE  Below(v, BodyStep) = [r \in DOMAIN b |-> v[Under(BodyStep, r)]]
<1>1. {Tail(p) : p \in {r \in DOMAIN v : r # <<>> /\ r[1] = BodyStep}} = DOMAIN b
  <2>1. ASSUME NEW q \in DOMAIN b
        PROVE  \E p \in DOMAIN v : p # <<>> /\ p[1] = BodyStep /\ Tail(p) = q
    <3>1. IsPlace(q)
      BY DEF IsValue
    <3>. QED
      BY <3>1, UnderIs, FrameIs
  <2>2. ASSUME NEW p \in DOMAIN v, p[1] = BodyStep PROVE Tail(p) \in DOMAIN b
    <3>2. PICK r \in DOMAIN b : p = Under(BodyStep, r)
      BY <2>2, BodyPlaces
    <3>3. IsPlace(r)
      BY DEF IsValue
    <3>. QED
      BY <3>2, <3>3, UnderIs
  <2>. QED
    BY <2>1, <2>2
<1>. QED
  BY <1>1 DEF Below

LEMMA WalkIs ==
  ASSUME NEW v, NEW s, Broken(v) = {}
  PROVE  /\ DOMAIN Walk(v, s) = DOMAIN v
         /\ \A p \in DOMAIN v : Walk(v, s)[p] = RedactLeaf(v, p, s)
<1>. DEFINE fragments == {SubSeq(p, 1, Outer(p) - 1) : p \in Broken(v)}
<1>1. fragments = {}
  OBVIOUS
<1>2. Walk(v, s) = [p \in (DOMAIN v \ Broken(v)) \cup fragments |->
                      IF p \in fragments THEN RedactValue(LeftOf(v, p, s), KeyAt(p), s)
                      ELSE RedactLeaf(v, p, s)]
  BY DEF Walk
<1>. HIDE DEF fragments
<1>. QED
  BY <1>1, <1>2

LEMMA StoredJson ==
  ASSUME NEW d, IsValue(d), ~Spoilt(d), NEW s
  PROVE  LET w == StoredBody(Json(d), s) IN
         /\ Kind(w) = "json"
         /\ Below(w, JsonStep) = [q \in DOMAIN d |-> RedactLeaf(FrameOf(Json(d)), InBody(q), s)]
<1>. DEFINE b == Json(d)
            v == Walk(FrameOf(b), s)
            w == Below(v, BodyStep)
<1>1. /\ IsValue(b) /\ b = Branch("json", <<d>>)
      /\ \A q \in DOMAIN d : Under(JsonStep, q) \in DOMAIN b /\ b[Under(JsonStep, q)] = d[q]
  BY JsonIs
<1>2. Broken(FrameOf(b)) = {}
  BY BrokenJson
<1>. HIDE DEF b
<1>3. /\ DOMAIN v = DOMAIN FrameOf(b)
      /\ \A p \in DOMAIN FrameOf(b) : v[p] = RedactLeaf(FrameOf(b), p, s)
  BY <1>2, WalkIs
<1>4. w = [r \in DOMAIN b |-> v[Under(BodyStep, r)]]
  BY <1>1, <1>3, BodyOf
<1>5. \A r \in DOMAIN b : w[r] = RedactLeaf(FrameOf(b), Under(BodyStep, r), s)
  BY <1>1, <1>3, <1>4, FrameIs
<1>6. DOMAIN w = DOMAIN b
  BY <1>4
<1>. HIDE DEF w, v
<1>. DEFINE g == <<d>>
<1>7. DOMAIN g = {1} /\ g[1] = d
  OBVIOUS
<1>8. DOMAIN w = DOMAIN Branch("json", g)
  BY <1>1, <1>6
<1>. HIDE DEF g
<1>9. DOMAIN g # {} /\ \A k \in DOMAIN g : IsValue(g[k])
  BY <1>7
<1>10. /\ Kind(w) = "json"
       /\ \A k \in DOMAIN g : Below(w, <<"json", k>>) = [q \in DOMAIN g[k] |-> w[Under(<<"json", k>>, q)]]
  BY <1>8, <1>9, BelowIs
<1>11. Below(w, JsonStep) = [q \in DOMAIN d |-> w[Under(JsonStep, q)]]
  BY <1>7, <1>10 DEF JsonStep
<1>12. \A q \in DOMAIN d : w[Under(JsonStep, q)] = RedactLeaf(FrameOf(b), InBody(q), s)
  BY <1>1, <1>5 DEF InBody
<1>. QED
  BY <1>10, <1>11, <1>12 DEF StoredBody, w, v, b

LEMMA FragmentIs ==
  ASSUME NEW v, NEW t, NEW key, NEW s
  PROVE  LET x == LeftOf(v, t, s)
             r == RedactValue(x, key, s) IN
         /\ x.is = "fragment"
         /\ r = Redacted \/ r = x \/ r = [is |-> "pseudonym", of |-> x, times |-> 1]
<1>. DEFINE x == LeftOf(v, t, s)
<1>1. x.is = "fragment"
  BY DEF LeftOf, Fragment
<1>. HIDE DEF x
<1>2. x.is # "pseudonym"
  BY <1>1
<1>. QED
  BY <1>1, <1>2, ValueIs DEF x

LEMMA StoredSpoilt ==
  ASSUME NEW d, IsValue(d), Spoilt(d), NEW s
  PROVE  Kind(StoredBody(Json(d), s)) # "json"
<1>. DEFINE b == Json(d)
            v == FrameOf(b)
            w == Below(Walk(v, s), BodyStep)
            bad == {Under(BodyStep, r) : r \in DOMAIN b}
            fragments == {SubSeq(p, 1, Outer(p) - 1) : p \in Broken(v)}
<1>1. /\ IsValue(b) /\ DOMAIN b # {}
      /\ \A p \in DOMAIN b : \E q \in DOMAIN d : p = Under(JsonStep, q)
  BY JsonIs DEF IsValue
<1>2. Broken(v) = bad
  BY BrokenJson
<1>. HIDE DEF b
<1>3. \A p \in bad : SubSeq(p, 1, Outer(p) - 1) = <<BodyStep>>
  <2>1. ASSUME NEW r \in DOMAIN b
        PROVE  SubSeq(Under(BodyStep, r), 1, Outer(Under(BodyStep, r)) - 1) = <<BodyStep>>
    <3>1. PICK q \in DOMAIN d : r = Under(JsonStep, q)
      BY <1>1
    <3>2. IsPlace(q)
      BY DEF IsValue
    <3>3. Outer(Under(BodyStep, r)) = 2 /\ SubSeq(Under(BodyStep, r), 1, 1) = <<BodyStep>>
      BY <3>1, <3>2, InField
    <3>. QED
      BY <3>3
  <2>. QED
    BY <2>1
<1>4. fragments = {<<BodyStep>>}
  <2>1. bad # {}
    BY <1>1
  <2>. HIDE DEF bad
  <2>. QED
    BY <1>2, <1>3, <2>1
<1>5. Walk(v, s) = [p \in (DOMAIN v \ Broken(v)) \cup fragments |->
                      IF p \in fragments THEN RedactValue(LeftOf(v, p, s), KeyAt(p), s)
                      ELSE RedactLeaf(v, p, s)]
  BY DEF Walk
<1>6. \A p \in DOMAIN v \ bad : p[1] # BodyStep
  BY <1>1, BodyPlaces
<1>. DEFINE p0 == <<BodyStep>>
<1>7. /\ p0 # <<>> /\ p0[1] = BodyStep /\ Tail(p0) = <<>> /\ Under(BodyStep, <<>>) = p0
  <2>1. IsPlace(<<>>)
    BY EmptySeq DEF IsPlace
  <2>2. Under(BodyStep, <<>>) = p0
    BY DEF Under
  <2>. QED
    BY <2>1, <2>2, UnderIs
<1>8. \A p : p \in fragments <=> p = p0
  BY <1>4
<1>. HIDE DEF fragments, p0, bad, v
<1>. DEFINE x == Walk(v, s)
<1>9. /\ DOMAIN x = (DOMAIN v \ bad) \cup {p0}
      /\ x[p0] = RedactValue(LeftOf(v, p0, s), KeyAt(p0), s)
  BY <1>2, <1>5, <1>8
<1>. HIDE DEF x
<1>10. {Tail(p) : p \in {r \in DOMAIN x : r # <<>> /\ r[1] = BodyStep}} = {<<>>}
  <2>1. {r \in DOMAIN x : r # <<>> /\ r[1] = BodyStep} = {p0}
    BY <1>6, <1>7, <1>9
  <2>2. {Tail(p) : p \in {p0}} = {<<>>}
    BY <1>7
  <2>. QED
    BY <2>1, <2>2
<1>11. Below(x, BodyStep) = [q \in {<<>>} |-> x[Under(BodyStep, q)]]
  BY <1>10 DEF Below
<1>12. w[<<>>] = x[p0] /\ DOMAIN w = {<<>>}
  BY <1>7, <1>11 DEF x
<1>13. Kind(w) = x[p0].is
  <2>. HIDE DEF w
  <2>. QED
    BY <1>12, LeafIs
<1>14. x[p0].is # "json"
  <2>. DEFINE y == LeftOf(v, p0, s)
  <2>1. y.is # "json" /\ Redacted.is # "json" /\ [is |-> "pseudonym", of |-> y, times |-> 1].is # "json"
    BY RedactedIs, FragmentIs
  <2>. QED
    BY <1>9, <2>1, FragmentIs
<1>. QED
  BY <1>13, <1>14 DEF StoredBody, w, x, v, b

LEMMA DictIs ==
  ASSUME NEW d \in Dicts
  PROVE  /\ DOMAIN d \subseteq Fields /\ \A k \in DOMAIN d : d[k] \in FieldValues /\ IsValue(d[k])
         /\ IsValue(Dict(d)) /\ Kind(Dict(d)) = "dict" /\ FieldsOf(Dict(d)) = DOMAIN d
<1>1. PICK fields \in SUBSET Fields : d \in [fields -> FieldValues]
  BY DEF Dicts
<1>2. \A k \in DOMAIN d : d[k] \in FieldValues /\ IsValue(d[k])
  BY <1>1, InductionAssumption
<1>. QED
  BY <1>1, <1>2, BranchIsValue DEF Dict

LEMMA ListIs ==
  LET e == List(<<>>) IN
  IsValue(e) /\ DOMAIN e = {<<>>} /\ e[<<>>] = [is |-> "list"] /\ ~Spoilt(e)
<1>1. List(<<>>) = Leaf([is |-> "list"])
  BY DEF List, Branch
<1>2. IsLeaf([is |-> "list"])
  BY DEF IsLeaf
<1>3. \A v, T, q : v[q] = [is |-> "list"] => ~BreaksIn(v, T, q)
  BY DEF BreaksIn
<1>. QED
  BY <1>1, <1>2, <1>3, SingleIs DEF Spoilt

LEMMA PageIs ==
  LET e == Leaf(Text("page", "plain")) IN
  IsValue(e) /\ DOMAIN e = {<<>>} /\ e[<<>>] = Text("page", "plain")
<1>1. IsLeaf(Text("page", "plain"))
  BY DEF IsLeaf, Text
<1>. QED
  BY <1>1, SingleIs

LEMMA BodyIsValue ==
  ASSUME NEW b \in Bodies
  PROVE  IsValue(b)
<1>1. CASE b \in {Json(Dict(d)) : d \in Sent}
  BY <1>1, DictIs, JsonIs, InductionAssumption
<1>2. CASE b \in {Json(List(<<>>)), Leaf(Text("page", "plain"))}
  BY <1>2, ListIs, JsonIs, PageIs
<1>. QED
  BY <1>1, <1>2 DEF Bodies

\* What is stored of the fields of a dictionary.
LEMMA DictStored ==
  ASSUME NEW d \in Dicts, ~Spoilt(Dict(d)), NEW s
  PROVE  LET w == StoredBody(Json(Dict(d)), s)
             z == Below(w, JsonStep) IN
         /\ Kind(w) = "json" /\ Kind(z) = "dict" /\ FieldsOf(z) = DOMAIN d
         /\ \A k \in DOMAIN d : Below(z, <<"dict", k>>) = StoredField(d, k, s)
<1>. DEFINE e == Dict(d)
            w == StoredBody(Json(e), s)
            z == Below(w, JsonStep)
<1>1. IsValue(e) /\ e = Branch("dict", d) /\ \A k \in DOMAIN d : IsValue(d[k])
  BY DictIs DEF Dict
<1>2. Kind(w) = "json" /\ z = [q \in DOMAIN e |-> RedactLeaf(FrameOf(Json(e)), InBody(q), s)]
  BY <1>1, StoredJson
<1>3. DOMAIN z = DOMAIN e /\ \A q \in DOMAIN e : z[q] = RedactLeaf(FrameOf(Json(e)), InBody(q), s)
  BY <1>2
<1>. HIDE DEF e, w, z
<1>4. CASE DOMAIN d # {}
  <2>1. DOMAIN z = DOMAIN Branch("dict", d)
    BY <1>1, <1>3
  <2>2. /\ Kind(z) = "dict" /\ FieldsOf(z) = DOMAIN d
        /\ \A k \in DOMAIN d : Below(z, <<"dict", k>>) = [q \in DOMAIN d[k] |-> z[Under(<<"dict", k>>, q)]]
    BY <1>1, <1>4, <2>1, BelowIs
  <2>3. ASSUME NEW k \in DOMAIN d PROVE Below(z, <<"dict", k>>) = StoredField(d, k, s)
    <3>1. \A q \in DOMAIN d[k] : z[Under(<<"dict", k>>, q)] = RedactLeaf(FrameOf(Json(e)), Place(k, q), s)
      <4>1. \A q \in DOMAIN d[k] : /\ Under(<<"dict", k>>, q) \in DOMAIN e
                                   /\ e[Under(<<"dict", k>>, q)] = d[k][q]
        BY <1>1, <1>4, BranchIs
      <4>. QED
        BY <1>3, <4>1 DEF Place
    <3>. QED
      BY <2>2, <3>1 DEF StoredField, e
  <2>. QED
    BY <1>2, <2>2, <2>3 DEF w, z, e
<1>5. CASE DOMAIN d = {}
  <2>1. e = Leaf([is |-> "dict"])
    BY <1>1, <1>5 DEF Branch
  <2>2. DOMAIN z = {<<>>} /\ z[<<>>].is = "dict"
    <3>1. DOMAIN e = {<<>>} /\ e[<<>>] = [is |-> "dict"]
      BY <2>1 DEF Leaf
    <3>2. FrameOf(Json(e))[InBody(<<>>)] = [is |-> "dict"]
      BY <1>1, <3>1, InBodyIs
    <3>3. RedactLeaf(FrameOf(Json(e)), InBody(<<>>), s) = [is |-> "dict"]
      BY <3>2 DEF RedactLeaf
    <3>. QED
      BY <1>3, <3>1, <3>3
  <2>3. Kind(z) = "dict" /\ FieldsOf(z) = {}
    BY <2>2, LeafIs
  <2>. QED
    BY <1>2, <1>5, <2>3 DEF w, z, e
<1>. QED
  BY <1>4, <1>5

LEMMA ArrayStored ==
  ASSUME NEW s
  PROVE  Kind(Below(StoredBody(Json(List(<<>>)), s), JsonStep)) = "list"
<1>. DEFINE e == List(<<>>)
            z == Below(StoredBody(Json(e), s), JsonStep)
<1>1. IsValue(e) /\ DOMAIN e = {<<>>} /\ e[<<>>] = [is |-> "list"] /\ ~Spoilt(e)
  BY ListIs
<1>2. z = [q \in DOMAIN e |-> RedactLeaf(FrameOf(Json(e)), InBody(q), s)]
  BY <1>1, StoredJson
<1>3. RedactLeaf(FrameOf(Json(e)), InBody(<<>>), s) = [is |-> "list"]
  <2>1. FrameOf(Json(e))[InBody(<<>>)] = [is |-> "list"]
    BY <1>1, InBodyIs
  <2>. QED
    BY <2>1 DEF RedactLeaf
<1>4. DOMAIN z = {<<>>} /\ z[<<>>].is = "list"
  BY <1>1, <1>2, <1>3
<1>. HIDE DEF z
<1>. QED
  BY <1>4, LeafIs DEF z

LEMMA PageStored ==
  ASSUME NEW s
  PROVE  Kind(StoredBody(Leaf(Text("page", "plain")), s)) # "json"
<1>. DEFINE b == Leaf(Text("page", "plain"))
            v == FrameOf(b)
            w == Below(Walk(v, s), BodyStep)
<1>1. IsValue(b) /\ DOMAIN b = {<<>>} /\ b[<<>>] = Text("page", "plain")
  BY PageIs
<1>. HIDE DEF b
<1>2. Texts(Under(BodyStep, <<>>)) = {}
  <2>. DEFINE p == Under(BodyStep, <<>>)
              z == <<>>
  <2>1. IsPlace(z) /\ Len(z) = 0
    BY EmptySeq DEF IsPlace
  <2>2. IsPlace(p) /\ p[1] = BodyStep /\ Len(p) = Len(z) + 1
    BY <2>1, UnderIs
  <2>. HIDE DEF p, z
  <2>3. Texts(p) \subseteq 1..1
    BY <2>1, <2>2, TextsAre
  <2>4. p[1][1] = "dict"
    BY <2>2 DEF BodyStep
  <2>5. \A i \in 1..1 : i = 1
    OBVIOUS
  <2>6. Texts(p) = {}
    BY <2>3, <2>4, <2>5 DEF Texts
  <2>. QED
    BY <2>6 DEF p
<1>3. \A p \in DOMAIN v : Texts(p) = {}
  BY <1>1, <1>2, FrameIs, HeaderPlaceIs
<1>4. Broken(v) = {}
  BY <1>3 DEF Broken
<1>. HIDE DEF v
<1>5. DOMAIN Walk(v, s) = DOMAIN v /\ \A p \in DOMAIN v : Walk(v, s)[p] = RedactLeaf(v, p, s)
  BY <1>4, WalkIs
<1>6. w = [r \in DOMAIN b |-> Walk(v, s)[Under(BodyStep, r)]]
  BY <1>1, <1>5, BodyOf DEF v
<1>7. Under(BodyStep, <<>>) \in DOMAIN v /\ v[Under(BodyStep, <<>>)] = Text("page", "plain")
  BY <1>1, FrameIs DEF v
<1>. DEFINE p == Under(BodyStep, <<>>)
            x == Text("page", "plain")
<1>8. DOMAIN w = {<<>>} /\ w[<<>>] = RedactLeaf(v, p, s) /\ v[p] = x
  BY <1>1, <1>5, <1>6, <1>7
<1>. HIDE DEF w, p
<1>9. Kind(w) = RedactLeaf(v, p, s).is
  BY <1>8, LeafIs
<1>10. x.is = "text" /\ x.looks = "plain"
  BY DEF Text
<1>. HIDE DEF x
<1>11. RedactLeaf(v, p, s) = RedactValue(x, KeyAt(p), s)
  BY <1>8, <1>10 DEF RedactLeaf, Scrub
<1>12. RedactLeaf(v, p, s).is # "json"
  <2>1. [is |-> "pseudonym", of |-> x, times |-> 1].is # "json" /\ x.is # "json" /\ Redacted.is # "json"
    BY <1>10, RedactedIs
  <2>. QED
    BY <1>10, <1>11, <2>1, ValueIs
<1>. QED
  BY <1>9, <1>12 DEF StoredBody, w, v, b

-----------------------------------------------------------------------------
(* The frames of the observation.                                            *)

\* What is stored is what redaction makes of what was sent, with a salt or
\* without.
FramesInv ==
  /\ TypeOK /\ IsFiniteSet(frames)
  /\ \A g \in frames : \E s \in BOOLEAN : g.stored = Walk(FrameOf(g.sent), s)

\* TYPE: every frame of the observation is a body that the application sent, as
\* redaction left it when it was appended, whatever became of the salt since.
THEOREM FramesCorrect == Spec => []FramesInv
<1>1. Init => FramesInv
  BY FS_EmptySet DEF Init, FramesInv, TypeOK
<1>2. FramesInv /\ [Next]_bodyVars => FramesInv'
  <2>. SUFFICES ASSUME FramesInv, [Next]_bodyVars PROVE FramesInv'
    OBVIOUS
  <2>1. CASE AddSalt
    BY <2>1 DEF AddSalt, FramesInv, TypeOK
  <2>2. ASSUME NEW b \in Bodies, AppendFrame(b) PROVE FramesInv'
    <3>. DEFINE g == [sent |-> b, stored |-> Stored(b)]
    <3>1. frames' = frames \cup {g} /\ salted' = salted /\ salted \in BOOLEAN
      BY <2>2 DEF AppendFrame, FramesInv, TypeOK
    <3>2. g.sent = b /\ g.stored = Walk(FrameOf(b), salted)
      BY <3>1 DEF Stored, Walked
    <3>. HIDE DEF g
    <3>3. IsFiniteSet(frames')
      BY <3>1, FS_AddElement DEF FramesInv
    <3>. QED
      BY <3>1, <3>2, <3>3 DEF FramesInv, TypeOK
  <2>3. CASE UNCHANGED bodyVars
    BY <2>3 DEF bodyVars, FramesInv, TypeOK
  <2>. QED
    BY <2>1, <2>2, <2>3 DEF Next
<1>. QED
  BY <1>1, <1>2, PTL DEF Spec

-----------------------------------------------------------------------------
(* StoredIsClean.                                                            *)

\* What a pass of the patterns and any number of turns leave of a URL.
LEMMA UrlShows ==
  ASSUME NEW u, IsLeaf(u), u.is = "url", u.val \notin {NoText, Redacted}, NEW s \in BOOLEAN,
         NEW n \in Nat, Rewritten(u, n, s).val = u.val
  PROVE  ~Scrubbed(u) /\ (u.param \in SensitiveKeys => n = 0)
<1>. DEFINE R == Rewritten(u, n, s)
<1>1. PassedTo(u, R, n, s)
  BY RewrittenIs
<1>. HIDE DEF R
<1>2. u.val.is = "text" /\ Base(u.val) = u.val
  BY DEF IsLeaf, Base
<1>3. ~Gone(R)
  BY <1>2 DEF Gone, R
<1>4. ~IsVeiled(u, R, n, s)
  <2>1. Veiled(u, n).val.is = "pseudonym"
    BY DEF Veiled, With, Url
  <2>. QED
    BY <1>2, <2>1 DEF IsVeiled, R
<1>5. Stays(u, R, n)
  BY <1>1, <1>3, <1>4 DEF PassedTo
<1>. QED
  BY <1>5 DEF Stays, Scrubbed

\* The secret in a leaf that is redacted, and in one that is left of a broken
\* JSON text.
LEMMA RedactedShows ==
  ASSUME NEW v, NEW p \in DOMAIN v, IsPlace(p), IsLeaf(v[p]), NEW s \in BOOLEAN,
         Secret(v[p], KeyAt(p)), Shows(RedactLeaf(v, p, s), v[p])
  PROVE  LetThrough(v, p)
<1>. DEFINE x == v[p]
            y == RedactLeaf(v, p, s)
<1>1. CASE x.is = "text"
  <2>1. y = x /\ x # Redacted /\ y = RedactValue(Scrub(x), KeyAt(p), s)
    BY <1>1 DEF Shows, Secret, RedactLeaf
  <2>. HIDE DEF y
  <2>2. Scrub(x) = x /\ x.looks \notin {"embeds", "opens"}
    <3>1. CASE Scrub(x) = Redacted
      <4>1. y = Redacted \/ y = [is |-> "pseudonym", of |-> Redacted, times |-> 1]
        BY <2>1, <3>1, ValueIs, RedactedIs
      <4>2. y.is = "text" /\ y # Redacted
        BY <1>1, <2>1
      <4>3. [is |-> "pseudonym", of |-> Redacted, times |-> 1].is = "pseudonym"
        OBVIOUS
      <4>. QED
        BY <4>1, <4>2, <4>3, Zenon
    <3>2. CASE Scrub(x) # Redacted
      BY <1>1, <3>2 DEF Scrub
    <3>. QED
      BY <2>1, <3>1, <3>2
  <2>3. KeyAt(p) \notin SensitiveKeys /\ KeyAt(p) \notin HeaderKeys /\ x.looks # "credential"
    <3>1. x.is # "pseudonym" /\ y.is = "text" /\ y # Redacted /\ y = RedactValue(x, KeyAt(p), s)
      BY <1>1, <2>1, <2>2
    <3>2. [is |-> "pseudonym", of |-> x, times |-> 1].is = "pseudonym"
      OBVIOUS
    <3>3. /\ KeyAt(p) \notin SensitiveKeys /\ KeyAt(p) \notin HeaderKeys
          /\ ~(x.is = "text" /\ x.looks = "credential")
      BY <3>1, <3>2, ValueIs
    <3>. QED
      BY <1>1, <3>3
  <2>. QED
    BY <1>1, <2>2, <2>3 DEF Secret, Named
<1>2. CASE x.is = "url"
  <2>. DEFINE n == Turns(v, p)
              R == Rewritten(x, n, s)
  <2>1. /\ n \in Nat
        /\ n = 0 => \/ x.form = "anchor"
                    \/ x.form = "relative" /\ \A i \in Texts(p) : ~Addressed(v, p, i)
    BY <1>2, TurnsAre
  <2>. HIDE DEF n
  <2>2. R \in Becomes(x)
    BY <1>2, <2>1, RewrittenIs
  <2>3. R.is = "url"
    BY <1>2, <2>2, PassIs
  <2>4. y = RedactValue(R, KeyAt(p), s)
    BY <1>2 DEF RedactLeaf, n
  <2>5. y.is = "url" /\ y.val = x.val /\ x.val \notin {NoText, Redacted}
    BY <1>2 DEF Shows, Secret
  <2>. HIDE DEF R, y
  <2>6. y = R /\ ~Named(KeyAt(p))
    <3>1. y # Redacted
      BY <2>5, RedactedIs
    <3>. QED
      BY <2>3, <2>4, <2>5, <3>1, ValueIs DEF Named
  <2>7. ~Scrubbed(x) /\ (x.param \in SensitiveKeys => n = 0)
    BY <1>2, <2>1, <2>5, <2>6, UrlShows DEF R
  <2>. QED
    BY <1>2, <2>1, <2>6, <2>7 DEF LetThrough
<1>. QED
  BY <1>1, <1>2 DEF Secret

LEMMA LeftShows ==
  ASSUME NEW v, NEW p \in Broken(v), IsLeaf(v[p]), NEW s \in BOOLEAN,
         Secret(v[p], KeyAt(p)), Shows(LeaveLeaf(v, p, s), v[p])
  PROVE  LetThrough(v, p)
<1>. DEFINE x == v[p]
            y == LeaveLeaf(v, p, s)
<1>1. CASE x.is = "text"
  <2>1. y = x /\ x # Redacted /\ y = Scrub(x)
    BY <1>1 DEF Shows, Secret, LeaveLeaf
  <2>2. x.looks \notin {"embeds", "opens"}
    BY <1>1, <2>1 DEF Scrub
  <2>. QED
    BY <1>1, <2>2 DEF LetThrough, Scrubbed
<1>2. CASE x.is = "url"
  <2>. DEFINE n == IF x.form # "anchor" /\ Addressed(v, p, Outer(p)) THEN 1 ELSE 0
  <2>1. n \in Nat
    OBVIOUS
  <2>2. y = Rewritten(x, n, s)
    BY <1>2 DEF LeaveLeaf
  <2>. HIDE DEF n
  <2>3. y.val = x.val /\ x.val \notin {NoText, Redacted}
    BY <1>2 DEF Shows, Secret
  <2>4. ~Scrubbed(x)
    BY <1>2, <2>1, <2>2, <2>3, UrlShows
  <2>. QED
    BY <2>4 DEF LetThrough
<1>. QED
  BY <1>1, <1>2 DEF Secret

\* A leaf that is redacted is no fragment.
LEMMA NoFragment ==
  ASSUME NEW v, NEW p \in DOMAIN v, IsPlace(p), IsLeaf(v[p]), NEW s \in BOOLEAN
  PROVE  RedactLeaf(v, p, s).is # "fragment"
<1>. DEFINE x == v[p]
<1>1. \A z, key : z.is \notin {"fragment", "pseudonym"} => RedactValue(z, key, s).is # "fragment"
  BY ValueIs, RedactedIs
<1>2. CASE x.is \in {"number", "dict", "list"}
  BY <1>2 DEF RedactLeaf
<1>3. CASE x.is = "text"
  <2>1. Scrub(x).is = "text"
    BY <1>3, RedactedIs DEF Scrub
  <2>2. RedactLeaf(v, p, s) = RedactValue(Scrub(x), KeyAt(p), s)
    BY <1>3 DEF RedactLeaf
  <2>. QED
    BY <1>1, <2>1, <2>2
<1>4. CASE x.is = "url"
  <2>. DEFINE n == Turns(v, p)
              R == Rewritten(x, n, s)
  <2>1. n \in Nat
    BY <1>4, TurnsAre
  <2>. HIDE DEF n
  <2>2. R \in Becomes(x)
    BY <1>4, <2>1, RewrittenIs
  <2>3. R.is = "url"
    BY <1>4, <2>2, PassIs
  <2>4. RedactLeaf(v, p, s) = RedactValue(R, KeyAt(p), s)
    BY <1>4 DEF RedactLeaf, n
  <2>. QED
    BY <1>1, <2>3, <2>4
<1>. QED
  BY <1>2, <1>3, <1>4 DEF IsLeaf

\* What shows of a secret in what is stored of a value is what LetThrough names.
LEMMA WalkShows ==
  ASSUME NEW v, IsValue(v), NEW s \in BOOLEAN, NEW p \in DOMAIN v, Secret(v[p], KeyAt(p)),
         NEW y \in StoredAt(Walk(v, s), p), Shows(y, v[p])
  PROVE  LetThrough(v, p)
<1>. DEFINE fragments == {SubSeq(q, 1, Outer(q) - 1) : q \in Broken(v)}
            w == Walk(v, s)
            x == v[p]
<1>1. w = [q \in (DOMAIN v \ Broken(v)) \cup fragments |->
             IF q \in fragments THEN RedactValue(LeftOf(v, q, s), KeyAt(q), s)
             ELSE RedactLeaf(v, q, s)]
  BY DEF Walk
<1>2. \A q \in DOMAIN v : IsPlace(q) /\ IsLeaf(v[q])
  BY DEF IsValue
<1>3. /\ \A q \in fragments : w[q] = RedactValue(LeftOf(v, q, s), KeyAt(q), s)
      /\ \A q \in DOMAIN w : q \notin fragments => q \in DOMAIN v /\ w[q] = RedactLeaf(v, q, s)
  BY <1>1
<1>4. \/ p \in DOMAIN w /\ y = w[p]
      \/ \E t \in DOMAIN w : w[t].is = "fragment" /\ p \in DOMAIN w[t].left /\ y = w[t].left[p]
  BY DEF StoredAt
<1>. HIDE DEF fragments, w
<1>5. \A q \in fragments :
         LET z == LeftOf(v, q, s) IN
         w[q] = Redacted \/ w[q] = z \/ w[q] = [is |-> "pseudonym", of |-> z, times |-> 1]
  BY <1>3, FragmentIs
<1>6. x.is \in {"text", "url"}
  BY DEF Secret
<1>7. CASE p \in DOMAIN w /\ y = w[p]
  <2>1. CASE p \in fragments
    <3>. DEFINE z == LeftOf(v, p, s)
    <3>1. y = Redacted \/ y = z \/ y = [is |-> "pseudonym", of |-> z, times |-> 1]
      BY <1>5, <1>7, <2>1
    <3>2. z.is = "fragment"
      BY FragmentIs
    <3>. HIDE DEF z
    <3>3. y.is \notin {"text", "url"} \/ y = Redacted
      BY <3>1, <3>2
    <3>. QED
      BY <1>6, <3>3, RedactedIs DEF Shows, Secret
  <2>2. CASE p \notin fragments
    BY <1>2, <1>3, <1>7, <2>2, RedactedShows
  <2>. QED
    BY <2>1, <2>2
<1>8. ASSUME NEW t \in DOMAIN w, w[t].is = "fragment", p \in DOMAIN w[t].left, y = w[t].left[p]
      PROVE  LetThrough(v, p)
  <2>1. t \in fragments
    BY <1>2, <1>3, <1>8, NoFragment
  <2>. DEFINE z == LeftOf(v, t, s)
  <2>2. w[t] = z
    <3>1. [is |-> "pseudonym", of |-> z, times |-> 1].is = "pseudonym"
      OBVIOUS
    <3>. QED
      BY <1>5, <1>8, <2>1, <3>1, RedactedIs
  <2>3. p \in Broken(v) /\ y = LeaveLeaf(v, p, s)
    BY <1>8, <2>2 DEF LeftOf, Fragment
  <2>. QED
    BY <1>2, <2>3, LeftShows
<1>. QED
  BY <1>4, <1>7, <1>8

\* SAFETY: what append_frames writes shows no secret, be it a credential or
\* whatever stands under a sensitive key, however deep in dictionaries, lists,
\* queries and JSON texts it was sent, with a salt or without; but for what the
\* code lets through, which LetThrough names.
THEOREM StoresNoSecret == Spec => []StoredIsClean
<1>1. ASSUME FramesInv PROVE StoredIsClean
  <2>1. ASSUME NEW f \in frames, NEW p \in DOMAIN FrameOf(f.sent),
               Secret(FrameOf(f.sent)[p], KeyAt(p)),
               NEW y \in StoredAt(f.stored, p), Shows(y, FrameOf(f.sent)[p])
        PROVE  LetThrough(FrameOf(f.sent), p)
    <3>1. PICK s \in BOOLEAN : f.stored = Walk(FrameOf(f.sent), s)
      BY <1>1 DEF FramesInv
    <3>2. f.sent \in Bodies
      BY <1>1 DEF FramesInv, TypeOK
    <3>3. IsValue(FrameOf(f.sent))
      BY <3>2, BodyIsValue, FrameIs
    <3>. QED
      BY <2>1, <3>1, <3>3, WalkShows
  <2>. QED
    BY <1>1, <2>1 DEF StoredIsClean, FramesInv
<1>. QED
  BY <1>1, FramesCorrect, PTL

-----------------------------------------------------------------------------
(* LearnsOnly.                                                               *)

LEMMA ImageIsFinite ==
  ASSUME NEW S, IsFiniteSet(S), NEW f, DOMAIN f = S, f = [x \in DOMAIN f |-> f[x]]
  PROVE  IsFiniteSet({f[x] : x \in S})
<1>1. f \in Surjection(S, {f[x] : x \in S})
  BY DEF Surjection
<1>. QED
  BY <1>1, FS_Surjection

LEMMA DictsGrow ==
  ASSUME NEW F, NEW G, F \subseteq G
  PROVE  DictBodies(F) \subseteq DictBodies(G)
BY DEF DictBodies, Decoded, Parsed

LEMMA DictsFinite ==
  ASSUME NEW F, IsFiniteSet(F)
  PROVE  IsFiniteSet(DictBodies(F))
<1>. DEFINE B == {Below(f.stored, BodyStep) : f \in F}
            C == {c \in B : Kind(c) = "json"}
            P == {Below(b, JsonStep) : b \in C}
<1>1. IsFiniteSet(B)
  <2>. DEFINE h == [f \in F |-> Below(f.stored, BodyStep)]
  <2>1. IsFiniteSet({h[f] : f \in F})
    <3>1. DOMAIN h = F /\ h = [f \in DOMAIN h |-> h[f]]
      OBVIOUS
    <3>. HIDE DEF h
    <3>. QED
      BY <3>1, ImageIsFinite
  <2>. QED
    BY <2>1
<1>. HIDE DEF B
<1>2. IsFiniteSet(C)
  BY <1>1, FS_Subset
<1>. HIDE DEF C
<1>3. IsFiniteSet(P)
  <2>. DEFINE h == [b \in C |-> Below(b, JsonStep)]
  <2>1. IsFiniteSet({h[b] : b \in C})
    <3>1. DOMAIN h = C /\ h = [b \in DOMAIN h |-> h[b]]
      OBVIOUS
    <3>. HIDE DEF h
    <3>. QED
      BY <1>2, <3>1, ImageIsFinite
  <2>. QED
    BY <2>1
<1>4. Parsed(B) = P
  BY DEF Parsed, C, JsonStep
<1>. HIDE DEF P
<1>5. DictBodies(F) = {v \in P : Kind(v) = "dict"}
  BY <1>4 DEF DictBodies, Decoded, BodyStep, B
<1>. QED
  BY <1>3, <1>5, FS_Subset

LEMMA ValuesFinite ==
  ASSUME NEW ps, IsFiniteSet(ps), NEW k
  PROVE  IsFiniteSet(ValuesOf(ps, k))
<1>. DEFINE Q == {q \in ps : k \in FieldsOf(q)}
            h == [p \in Q |-> Below(p, <<"dict", k>>)]
<1>1. IsFiniteSet(Q)
  BY FS_Subset
<1>2. DOMAIN h = Q /\ h = [p \in DOMAIN h |-> h[p]]
  OBVIOUS
<1>3. ValuesOf(ps, k) = {h[p] : p \in Q}
  BY DEF ValuesOf
<1>. HIDE DEF h, Q
<1>. QED
  BY <1>1, <1>2, <1>3, ImageIsFinite

\* Which entry is a constant.
LEMMA EntryIs ==
  ASSUME NEW vs, IsFiniteSet(vs)
  PROVE  /\ Entry(vs).types = {Signature(v) : v \in vs}
         /\ Entry(vs).how = "constant" <=> (\A v \in vs : Scalar(v)) /\ \E v : vs = {v}
<1>1. Cardinality(vs) = 1 <=> \E v : vs = {v}
  BY FS_Singleton
<1>2. Entry(vs).types = {Signature(v) : v \in vs}
  BY DEF Entry
<1>3. Entry(vs).how = "constant" <=> (\A v \in vs : Scalar(v)) /\ Cardinality(vs) = 1
  BY DEF Entry
<1>. QED
  BY <1>1, <1>2, <1>3

LEMMA ShapeIs ==
  ASSUME NEW F
  PROVE  /\ Shape(F).from = "dict" <=> ~Raises(DictBodies(F)) /\ DictBodies(F) # {}
         /\ Shape(F).from = "dict" => Shape(F).fields = InducedFrom(DictBodies(F))
BY DEF Shape

LEMMA InducedIs ==
  ASSUME NEW ps
  PROVE  /\ DOMAIN InducedFrom(ps) = UNION {FieldsOf(p) : p \in ps}
         /\ \A f \in DOMAIN InducedFrom(ps) : /\ InducedFrom(ps)[f] = Entry(ValuesOf(ps, f))
                                              /\ ValuesOf(ps, f) # {}
<1>1. \A f : (\E p \in ps : f \in FieldsOf(p)) => ValuesOf(ps, f) # {}
  BY DEF ValuesOf
<1>. QED
  BY <1>1 DEF InducedFrom

LEMMA ShapeGrows ==
  ASSUME NEW F, NEW G, F \subseteq G, IsFiniteSet(G), Shape(F).from = "dict",
         ~Raises(DictBodies(G))
  PROVE  /\ Shape(G).from = "dict"
         /\ \A f \in DOMAIN Shape(F).fields :
               /\ f \in DOMAIN Shape(G).fields
               /\ Shape(F).fields[f].types \subseteq Shape(G).fields[f].types
               /\ Shape(F).fields[f].how # "constant" => Shape(G).fields[f].how # "constant"
<1>. DEFINE D == DictBodies(F)
            E == DictBodies(G)
<1>1. D # {} /\ D \subseteq E /\ E # {}
  BY DictsGrow, ShapeIs
<1>2. /\ Shape(F).from = "dict" /\ Shape(F).fields = InducedFrom(D)
      /\ Shape(G).from = "dict" /\ Shape(G).fields = InducedFrom(E)
  BY <1>1, ShapeIs
<1>3. IsFiniteSet(D) /\ IsFiniteSet(E)
  BY <1>1, DictsFinite, FS_Subset
<1>. HIDE DEF D, E
<1>4. ASSUME NEW f \in DOMAIN InducedFrom(D)
      PROVE  /\ f \in DOMAIN InducedFrom(E)
             /\ InducedFrom(D)[f].types \subseteq InducedFrom(E)[f].types
             /\ InducedFrom(D)[f].how # "constant" => InducedFrom(E)[f].how # "constant"
  <2>. DEFINE A == ValuesOf(D, f)
              B == ValuesOf(E, f)
  <2>1. f \in DOMAIN InducedFrom(E)
    <3>1. /\ DOMAIN InducedFrom(D) = UNION {FieldsOf(p) : p \in D}
          /\ DOMAIN InducedFrom(E) = UNION {FieldsOf(p) : p \in E}
      BY InducedIs
    <3>. QED
      BY <1>1, <3>1
  <2>2. InducedFrom(D)[f] = Entry(A) /\ InducedFrom(E)[f] = Entry(B) /\ A # {}
    BY <2>1, InducedIs
  <2>3. A \subseteq B
    BY <1>1 DEF ValuesOf
  <2>4. IsFiniteSet(A) /\ IsFiniteSet(B)
    BY <1>3, ValuesFinite
  <2>. HIDE DEF A, B
  <2>5. Entry(A).types \subseteq Entry(B).types
    BY <2>3, <2>4, EntryIs
  <2>6. ASSUME Entry(B).how = "constant" PROVE Entry(A).how = "constant"
    <3>1. (\A v \in B : Scalar(v)) /\ \E v : B = {v}
      BY <2>4, <2>6, EntryIs
    <3>2. A = B
      BY <2>2, <2>3, <3>1
    <3>. QED
      BY <2>6, <3>2
  <2>. QED
    BY <2>1, <2>2, <2>5, <2>6
<1>. QED
  BY <1>2, <1>4

\* SAFETY: what any of the frames taught of the fields is not taken back by those
\* that came later: _induce_shape does not call a field constant again that
\* varied, forgets no type and no field; a number and a text in one field stop
\* it, and nothing else.
THEOREM ShapesOnlyLearn == Spec => []LearnsOnly
<1>1. ASSUME FramesInv PROVE LearnsOnly
  <2>1. IsFiniteSet(frames)
    BY <1>1 DEF FramesInv
  <2>. QED
    BY <2>1, ShapeGrows DEF LearnsOnly
<1>. QED
  BY <1>1, FramesCorrect, PTL

-----------------------------------------------------------------------------
(* EqualitySurvives.                                                         *)

\* What stands for a value that nothing was taken out of.
ImageOf(u, k) == [q \in DOMAIN u |-> Image(u[q], Place(k, q))]

LEMMA FieldKept ==
  ASSUME NEW d \in Dicts, NEW k \in DOMAIN d, Steady(d[k]), NEW s \in BOOLEAN,
         ~Erased(StoredField(d, k, s))
  PROVE  StoredField(d, k, s) = ImageOf(d[k], k)
<1>. DEFINE v == StoredField(d, k, s)
            F == FrameOf(Json(Dict(d)))
<1>1. DOMAIN v = DOMAIN d[k] /\ \A q \in DOMAIN d[k] : v[q] = RedactLeaf(F, Place(k, q), s)
  BY DEF StoredField
<1>2. \A q \in DOMAIN v : ~ErasedLeaf(v[q])
  <2>. HIDE DEF v
  <2>1. ~Erased(v)
    BY DEF v
  <2>. QED
    BY <2>1 DEF Erased, ErasedLeaf
<1>3. IsValue(Dict(d)) /\ Dict(d) = Branch("dict", d) /\ \A j \in DOMAIN d : IsValue(d[j])
  BY DictIs DEF Dict
<1>4. ASSUME NEW q \in DOMAIN d[k]
      PROVE  RedactLeaf(F, Place(k, q), s) = Image(d[k][q], Place(k, q))
  <2>1. IsLeaf(d[k][q])
    BY <1>3 DEF IsValue
  <2>2. Under(<<"dict", k>>, q) \in DOMAIN Dict(d) /\ Dict(d)[Under(<<"dict", k>>, q)] = d[k][q]
    BY <1>3, BranchIs
  <2>3. Place(k, q) \in DOMAIN F /\ F[Place(k, q)] = d[k][q] /\ IsPlace(Place(k, q))
    BY <1>3, <2>2, InBodyIs DEF Place
  <2>4. SteadyLeaf(d[k][q])
    BY DEF SteadyLeaf, Steady, Urls
  <2>5. ~ErasedLeaf(RedactLeaf(F, Place(k, q), s))
    BY <1>1, <1>2
  <2>. HIDE DEF F, v
  <2>. QED
    BY <2>1, <2>3, <2>4, <2>5, LeafKept
<1>. QED
  BY <1>4 DEF StoredField, ImageOf

LEMMA ImagesDifferOf ==
  ASSUME NEW u, IsValue(u), NEW t, IsValue(t), NEW k, ImageOf(u, k) = ImageOf(t, k)
  PROVE  u = t
<1>1. DOMAIN ImageOf(u, k) = DOMAIN u /\ DOMAIN ImageOf(t, k) = DOMAIN t
  BY DEF ImageOf
<1>2. DOMAIN u = DOMAIN t
  BY <1>1
<1>3. ASSUME NEW q \in DOMAIN u PROVE u[q] = t[q]
  <2>1. Image(u[q], Place(k, q)) = Image(t[q], Place(k, q))
    <3>1. ImageOf(u, k)[q] = Image(u[q], Place(k, q)) /\ ImageOf(t, k)[q] = Image(t[q], Place(k, q))
      BY <1>2 DEF ImageOf
    <3>. QED
      BY <3>1
  <2>2. IsLeaf(u[q]) /\ IsLeaf(t[q])
    BY <1>2 DEF IsValue
  <2>. QED
    BY <2>1, <2>2, ImagesDiffer
<1>4. u = [q \in DOMAIN u |-> u[q]] /\ t = [q \in DOMAIN t |-> t[q]]
  BY DEF IsValue
<1>. QED
  BY <1>2, <1>3, <1>4

\* A number, a text, a URL stay what can be compared.
LEMMA ImageScalar ==
  ASSUME NEW u, IsValue(u), NEW k
  PROVE  Scalar(ImageOf(u, k)) <=> Scalar(u)
<1>. DEFINE v == ImageOf(u, k)
<1>1. DOMAIN v = DOMAIN u /\ \A q \in DOMAIN u : v[q] = Image(u[q], Place(k, q))
  BY DEF ImageOf
<1>. HIDE DEF v
<1>2. \A w : Scalar(w) <=> Kind(w) \notin {"dict", "list"}
  BY DEF Scalar, IsString
<1>3. CASE <<>> \notin DOMAIN u
  BY <1>1, <1>2, <1>3 DEF Kind, v
<1>4. CASE <<>> \in DOMAIN u
  <2>1. Kind(u) = u[<<>>].is /\ Kind(v) = v[<<>>].is
    BY <1>1, <1>4 DEF Kind
  <2>2. v[<<>>] = Image(u[<<>>], Place(k, <<>>)) /\ IsLeaf(u[<<>>])
    BY <1>1, <1>4 DEF IsValue
  <2>3. \A x, p : IsLeaf(x) => (Image(x, p).is \in {"dict", "list"} <=> x.is \in {"dict", "list"})
    <3>1. \A x, n : IsLeaf(x) => Shown(x, n).is = x.is
      BY DEF IsLeaf, Shown, Veiled, With, Url
    <3>. QED
      BY <3>1 DEF Image, IsLeaf
  <2>4. Kind(v) \in {"dict", "list"} <=> Kind(u) \in {"dict", "list"}
    BY <2>1, <2>2, <2>3
  <2>. QED
    BY <1>2, <2>4 DEF v
<1>. QED
  BY <1>3, <1>4

\* The dictionaries that were sent and are JSON still.
Whole == {d \in Dicts : ~Spoilt(Dict(d)) /\ \E g \in frames : g.sent = Json(Dict(d))}

WholeBodies ==
  {v \in Parsed({f.sent : f \in {g \in frames : Broken(g.sent) = {}}}) : Kind(v) = "dict"}

\* A JSON text that is read again.
LEMMA ReadAgain ==
  ASSUME NEW d, IsValue(d)
  PROVE  Kind(Json(d)) = "json" /\ Below(Json(d), JsonStep) = d
<1>. DEFINE g == <<d>>
<1>1. DOMAIN g = {1} /\ g[1] = d
  OBVIOUS
<1>2. /\ Json(d) = Branch("json", g)
      /\ \A q \in DOMAIN d : Json(d)[Under(JsonStep, q)] = d[q]
  BY JsonIs
<1>. HIDE DEF g
<1>3. DOMAIN g # {} /\ \A k \in DOMAIN g : IsValue(g[k])
  BY <1>1
<1>4. /\ Kind(Json(d)) = "json"
      /\ \A k \in DOMAIN g : Below(Json(d), <<"json", k>>) =
                                [q \in DOMAIN g[k] |-> Json(d)[Under(<<"json", k>>, q)]]
  BY <1>2, <1>3, BelowIs
<1>5. Below(Json(d), JsonStep) = [q \in DOMAIN d |-> Json(d)[Under(JsonStep, q)]]
  BY <1>1, <1>4 DEF JsonStep
<1>6. Below(Json(d), JsonStep) = [q \in DOMAIN d |-> d[q]]
  BY <1>2, <1>5
<1>7. d = [q \in DOMAIN d |-> d[q]]
  BY DEF IsValue
<1>. QED
  BY <1>4, <1>6, <1>7

\* The kinds of bodies are told apart.
LEMMA BodyKinds ==
  ASSUME NEW b \in Bodies
  PROVE  \/ \E d \in Dicts : b = Json(Dict(d))
         \/ b = Json(List(<<>>)) /\ Kind(Below(b, JsonStep)) = "list"
         \/ b = Leaf(Text("page", "plain")) /\ Kind(b) = "text"
<1>1. CASE b = Json(List(<<>>))
  <2>1. Below(b, JsonStep) = List(<<>>)
    BY <1>1, ListIs, ReadAgain
  <2>2. Kind(List(<<>>)) = "list"
    <3>1. DOMAIN List(<<>>) = {<<>>} /\ List(<<>>)[<<>>].is = "list"
      BY ListIs
    <3>. QED
      BY <3>1, LeafIs
  <2>. QED
    BY <1>1, <2>1, <2>2
<1>2. CASE b = Leaf(Text("page", "plain"))
  <2>1. DOMAIN b = {<<>>} /\ b[<<>>].is = "text"
    BY <1>2, PageIs DEF Text
  <2>. QED
    BY <1>2, <2>1, LeafIs
<1>. QED
  BY <1>1, <1>2, InductionAssumption DEF Bodies

LEMMA WholeAre ==
  ASSUME FramesInv
  PROVE  WholeBodies = {Dict(d) : d \in Whole}
<1>1. ASSUME NEW d \in Whole PROVE Dict(d) \in WholeBodies
  <2>1. PICK g \in frames : g.sent = Json(Dict(d))
    BY DEF Whole
  <2>2. d \in Dicts /\ ~Spoilt(Dict(d))
    BY DEF Whole
  <2>3. IsValue(Dict(d)) /\ Kind(Dict(d)) = "dict"
    BY <2>2, DictIs
  <2>4. Broken(g.sent) = {}
    BY <2>1, <2>2, <2>3, BrokenJson
  <2>5. Kind(g.sent) = "json" /\ Below(g.sent, JsonStep) = Dict(d)
    BY <2>1, <2>3, ReadAgain
  <2>. QED
    BY <2>3, <2>4, <2>5 DEF WholeBodies, Parsed, JsonStep
<1>2. ASSUME NEW v \in WholeBodies PROVE \E d \in Whole : v = Dict(d)
  <2>1. PICK g \in frames : Broken(g.sent) = {} /\ Kind(g.sent) = "json" /\ v = Below(g.sent, JsonStep)
    BY DEF WholeBodies, Parsed, JsonStep
  <2>2. Kind(v) = "dict"
    BY DEF WholeBodies
  <2>3. g.sent \in Bodies
    BY DEF FramesInv, TypeOK
  <2>4. PICK d \in Dicts : g.sent = Json(Dict(d))
    BY <2>1, <2>2, <2>3, BodyKinds
  <2>5. IsValue(Dict(d))
    BY DictIs
  <2>6. v = Dict(d) /\ ~Spoilt(Dict(d))
    BY <2>1, <2>4, <2>5, ReadAgain, BrokenJson
  <2>. QED
    BY <2>4, <2>6 DEF Whole
<1>. QED
  BY <1>1, <1>2

\* A stored dictionary is one that was sent, and the other way round.
LEMMA StoredAre ==
  ASSUME FramesInv
  PROVE  /\ \A d \in Whole : \E s \in BOOLEAN :
               Below(StoredBody(Json(Dict(d)), s), JsonStep) \in DictBodies(frames)
         /\ \A v \in DictBodies(frames) : \E d \in Whole : \E s \in BOOLEAN :
               v = Below(StoredBody(Json(Dict(d)), s), JsonStep)
<1>1. ASSUME NEW d \in Whole
      PROVE  \E s \in BOOLEAN : Below(StoredBody(Json(Dict(d)), s), JsonStep) \in DictBodies(frames)
  <2>1. PICK g \in frames : g.sent = Json(Dict(d))
    BY DEF Whole
  <2>2. d \in Dicts /\ ~Spoilt(Dict(d))
    BY DEF Whole
  <2>3. PICK s \in BOOLEAN : g.stored = Walk(FrameOf(g.sent), s)
    BY DEF FramesInv
  <2>. DEFINE w == StoredBody(Json(Dict(d)), s)
  <2>4. w = Below(g.stored, BodyStep)
    BY <2>1, <2>3 DEF StoredBody
  <2>5. Kind(w) = "json" /\ Kind(Below(w, JsonStep)) = "dict"
    BY <2>2, DictStored
  <2>. HIDE DEF w
  <2>6. Below(w, JsonStep) \in DictBodies(frames)
    BY <2>4, <2>5 DEF DictBodies, Decoded, Parsed, JsonStep, BodyStep
  <2>. QED
    BY <2>6 DEF w
<1>2. ASSUME NEW v \in DictBodies(frames)
      PROVE  \E d \in Whole : \E s \in BOOLEAN : v = Below(StoredBody(Json(Dict(d)), s), JsonStep)
  <2>1. PICK g \in frames : LET w == Below(g.stored, BodyStep)
                            IN  Kind(w) = "json" /\ v = Below(w, JsonStep)
    BY DEF DictBodies, Decoded, Parsed, JsonStep, BodyStep
  <2>2. Kind(v) = "dict"
    BY DEF DictBodies
  <2>3. PICK s \in BOOLEAN : g.stored = Walk(FrameOf(g.sent), s)
    BY DEF FramesInv
  <2>4. g.sent \in Bodies
    BY DEF FramesInv, TypeOK
  <2>5. /\ Kind(StoredBody(g.sent, s)) = "json" /\ v = Below(StoredBody(g.sent, s), JsonStep)
    BY <2>1, <2>3 DEF StoredBody
  <2>6. g.sent # Leaf(Text("page", "plain"))
    BY <2>5, PageStored
  <2>7. g.sent # Json(List(<<>>))
    BY <2>2, <2>5, ArrayStored
  <2>8. PICK d \in Dicts : g.sent = Json(Dict(d))
    BY <2>4, <2>6, <2>7, BodyKinds
  <2>9. ~Spoilt(Dict(d))
    BY <2>5, <2>8, DictIs, StoredSpoilt
  <2>. QED
    BY <2>5, <2>8, <2>9 DEF Whole
<1>. QED
  BY <1>1, <1>2

\* The values of a field, sent and stored.
LEMMA FieldsStored ==
  ASSUME FramesInv, NEW f
  PROVE  /\ \A u \in ValuesOf(WholeBodies, f) :
               IsValue(u) /\ \E d \in Dicts : \E s \in BOOLEAN :
                  f \in DOMAIN d /\ d[f] = u /\ StoredField(d, f, s) \in ValuesOf(DictBodies(frames), f)
         /\ \A v \in ValuesOf(DictBodies(frames), f) : \E d \in Dicts : \E s \in BOOLEAN :
               f \in DOMAIN d /\ d[f] \in ValuesOf(WholeBodies, f) /\ v = StoredField(d, f, s)
<1>1. ASSUME NEW d \in Whole, f \in FieldsOf(Dict(d))
      PROVE  /\ f \in DOMAIN d /\ IsValue(d[f]) /\ Below(Dict(d), <<"dict", f>>) = d[f]
  <2>1. d \in Dicts
    BY DEF Whole
  <2>2. f \in DOMAIN d /\ \A k \in DOMAIN d : IsValue(d[k])
    BY <1>1, <2>1, DictIs
  <2>3. DOMAIN d # {}
    BY <2>2
  <2>4. Below(Branch("dict", d), <<"dict", f>>) =
           [q \in DOMAIN d[f] |-> Branch("dict", d)[Under(<<"dict", f>>, q)]]
    BY <2>2, <2>3, BelowIs
  <2>5. \A q \in DOMAIN d[f] : Branch("dict", d)[Under(<<"dict", f>>, q)] = d[f][q]
    BY <2>2, <2>3, BranchIs
  <2>6. d[f] = [q \in DOMAIN d[f] |-> d[f][q]]
    BY <2>2 DEF IsValue
  <2>. QED
    BY <2>2, <2>4, <2>5, <2>6 DEF Dict
<1>2. ASSUME NEW d \in Whole, NEW s \in BOOLEAN
      PROVE  LET z == Below(StoredBody(Json(Dict(d)), s), JsonStep) IN
             /\ FieldsOf(z) = FieldsOf(Dict(d))
             /\ f \in FieldsOf(z) => Below(z, <<"dict", f>>) = StoredField(d, f, s)
  BY DictStored, DictIs DEF Whole
<1>3. ASSUME NEW u \in ValuesOf(WholeBodies, f)
      PROVE  IsValue(u) /\ \E d \in Dicts : \E s \in BOOLEAN :
                f \in DOMAIN d /\ d[f] = u /\ StoredField(d, f, s) \in ValuesOf(DictBodies(frames), f)
  <2>1. PICK d \in Whole : f \in FieldsOf(Dict(d)) /\ u = Below(Dict(d), <<"dict", f>>)
    BY WholeAre DEF ValuesOf
  <2>2. IsValue(u) /\ u = d[f] /\ f \in DOMAIN d /\ d \in Dicts
    BY <1>1, <2>1 DEF Whole
  <2>3. PICK s \in BOOLEAN : Below(StoredBody(Json(Dict(d)), s), JsonStep) \in DictBodies(frames)
    BY StoredAre
  <2>. DEFINE z == Below(StoredBody(Json(Dict(d)), s), JsonStep)
  <2>4. z \in DictBodies(frames) /\ f \in FieldsOf(z) /\ Below(z, <<"dict", f>>) = StoredField(d, f, s)
    BY <1>2, <2>1, <2>2, <2>3
  <2>. HIDE DEF z
  <2>5. StoredField(d, f, s) \in ValuesOf(DictBodies(frames), f)
    BY <2>4 DEF ValuesOf
  <2>. QED
    BY <2>2, <2>5
<1>4. ASSUME NEW v \in ValuesOf(DictBodies(frames), f)
      PROVE  \E d \in Dicts : \E s \in BOOLEAN :
                f \in DOMAIN d /\ d[f] \in ValuesOf(WholeBodies, f) /\ v = StoredField(d, f, s)
  <2>1. PICK z \in DictBodies(frames) : f \in FieldsOf(z) /\ v = Below(z, <<"dict", f>>)
    BY DEF ValuesOf
  <2>2. PICK d \in Whole : \E s \in BOOLEAN : z = Below(StoredBody(Json(Dict(d)), s), JsonStep)
    BY StoredAre
  <2>3. PICK s \in BOOLEAN : z = Below(StoredBody(Json(Dict(d)), s), JsonStep)
    BY <2>2
  <2>4. f \in FieldsOf(Dict(d)) /\ v = StoredField(d, f, s)
    BY <1>2, <2>1, <2>3
  <2>5. d[f] = Below(Dict(d), <<"dict", f>>) /\ f \in DOMAIN d /\ d \in Dicts
    BY <1>1, <2>4 DEF Whole
  <2>6. d[f] \in ValuesOf(WholeBodies, f)
    BY <2>4, <2>5, WholeAre DEF ValuesOf
  <2>. QED
    BY <2>4, <2>5, <2>6
<1>. QED
  BY <1>3, <1>4

\* SAFETY: as long as a field's values are kept or replaced by pseudonyms, and its
\* URLs are seen to be some by themselves, its observation calls it constant exactly if all bodies agree about it: redaction
\* maps equal values to equal ones and different values to different ones, also
\* when the salt comes between two frames, and _induce_shape compares those.
THEOREM EqualityOutlivesRedaction == Spec => []EqualitySurvives
<1>1. ASSUME FramesInv, Shape(frames).from = "dict", NEW f \in DOMAIN Shape(frames).fields,
             \A v \in ValuesOf(DictBodies(frames), f) : ~Erased(v),
             \A v \in ValuesOf(WholeBodies, f) : Steady(v)
      PROVE  Shape(frames).fields[f].how = "constant"
             <=> \E v \in ValuesOf(WholeBodies, f) : Scalar(v) /\ ValuesOf(WholeBodies, f) = {v}
  <2>. DEFINE A == ValuesOf(DictBodies(frames), f)
              B == ValuesOf(WholeBodies, f)
  <2>1. Shape(frames).fields = InducedFrom(DictBodies(frames))
    BY <1>1, ShapeIs
  <2>2. Shape(frames).fields[f] = Entry(A) /\ A # {}
    BY <1>1, <2>1, InducedIs
  <2>3. IsFiniteSet(A)
    BY <1>1, DictsFinite, ValuesFinite DEF FramesInv
  <2>4. \A u \in B : IsValue(u) /\ \E d \in Dicts : \E s \in BOOLEAN :
                        f \in DOMAIN d /\ d[f] = u /\ StoredField(d, f, s) \in A
    BY <1>1, FieldsStored
  <2>5. \A v \in A : \E d \in Dicts : \E s \in BOOLEAN :
                        f \in DOMAIN d /\ d[f] \in B /\ v = StoredField(d, f, s)
    BY <1>1, FieldsStored
  <2>6. (\A v \in A : ~Erased(v)) /\ \A u \in B : Steady(u)
    BY <1>1
  <2>. HIDE DEF A, B
  <2>7. \A u \in B : ImageOf(u, f) \in A
    BY <2>4, <2>6, FieldKept
  <2>8. \A v \in A : \E u \in B : v = ImageOf(u, f)
    BY <2>5, <2>6, FieldKept
  <2>9. Entry(A).how = "constant" <=> (\A v \in A : Scalar(v)) /\ \E v : A = {v}
    BY <2>3, EntryIs
  <2>10. ASSUME Entry(A).how = "constant" PROVE \E v \in B : Scalar(v) /\ B = {v}
    <3>1. (\A v \in A : Scalar(v)) /\ \E v : A = {v}
      BY <2>9, <2>10
    <3>2. PICK a \in A : A = {a}
      BY <3>1
    <3>3. PICK u \in B : a = ImageOf(u, f)
      BY <2>8
    <3>4. ASSUME NEW t \in B PROVE t = u
      <4>1. ImageOf(t, f) = ImageOf(u, f)
        BY <2>7, <3>2, <3>3
      <4>. QED
        BY <2>4, <4>1, ImagesDifferOf
    <3>5. Scalar(u)
      BY <2>4, <3>1, <3>3, ImageScalar
    <3>. QED
      BY <3>4, <3>5
  <2>11. ASSUME NEW v \in B, Scalar(v), B = {v} PROVE Entry(A).how = "constant"
    <3>1. A = {ImageOf(v, f)}
      BY <2>7, <2>8, <2>11
    <3>2. Scalar(ImageOf(v, f))
      BY <2>4, <2>11, ImageScalar
    <3>. QED
      BY <2>9, <3>1, <3>2
  <2>. QED
    BY <2>2, <2>10, <2>11 DEF B
<1>2. FramesInv => EqualitySurvives
  BY <1>1 DEF EqualitySurvives, WholeBodies
<1>. QED
  BY <1>2, FramesCorrect, PTL

=============================================================================
