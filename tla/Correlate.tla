------------------------------- MODULE Correlate -------------------------------
(***************************************************************************)
(* Differential correlation over the frames of labelled captures:          *)
(* apire/correlate.py, with Store.build_observations and                   *)
(* normalize.observation_from_group as far as it reads them.               *)
(*                                                                         *)
(* Everything is computed anew from the frames at each call, so the        *)
(* operators below are state functions, and only appends, labels and the   *)
(* passing of time change the state.  A frame is an HTTP response: its      *)
(* capture, its canonical key, its capture_seq, the second in which it was *)
(* appended, and of its payload the status and what the body has in one    *)
(* field.  Captures are numbered in the order in which they were started,  *)
(* and a caller cites each of them once, in that order.                    *)
(***************************************************************************)
EXTENDS Naturals, FiniteSets, FiniteSetsExt, Sequences

CONSTANTS
    Keys,           \* canonical keys (an observation id is the hash of its key)
    Captures,       \* captures, numbered
    CaptureName,    \* the name of each capture; several may share one
    Labels,         \* condition labels that clients set
    Payloads,       \* responses: records [is, n, status]
    MaxSorted,      \* values that an enum_sample keeps: 8 in the code
    MaxSightings,   \* sightings that an observation keeps: 200 in the code
    MaxFrames       \* bound on the frames of all captures

NoLabel == ""

ASSUME CorrelateAssumption ==
    /\ Captures \subseteq Nat
    /\ DOMAIN CaptureName = Captures
    /\ NoLabel \notin Labels
    /\ MaxSightings \in Nat \ {0} /\ MaxSorted \in Nat \ {0} /\ MaxFrames \in Nat
    /\ \A b \in Payloads : b.is \in {"number", "text", "other", "empty", "none"}

VARIABLES log,      \* the frames of all manifests, in the order of their appends
          label,    \* the label of each capture
          clock     \* the current second

correlateVars == <<log, label, clock>>

FramesOf(c) == {i \in DOMAIN log : log[i].cap = c}

\* The condition a capture stands for: its label, else "unlabeled:<name>".
Condition(c) ==
    IF label[c] = NoLabel THEN <<"unlabeled", CaptureName[c]>> ELSE <<"label", label[c]>>

Conditions == {<<"label", l>> : l \in Labels} \cup {<<"unlabeled", CaptureName[c]>> : c \in Captures}

-----------------------------------------------------------------------------
(* Observations.                                                            *)

\* build_observations: the frames of key k in the captures cs.
Group(cs, k) == {i \in DOMAIN log : log[i].cap \in cs /\ log[i].key = k}

\* The payloads of a key; `is` says what the field of a body holds: the number n,
\* the text n, something that is not compared, or nothing.  "none" has no body
\* that is a JSON dictionary.
Seen(cs, k) == {log[i].body : i \in Group(cs, k)}

\* _induce_shape sorts a field's values if they can all be compared and are few;
\* for numbers and texts that raises TypeError.
Unsortable(cs, k) ==
    LET values == {<<b.is, b.n>> : b \in {x \in Seen(cs, k) : x.is \notin {"empty", "none"}}}
    IN  {v[1] : v \in values} = {"number", "text"} /\ Cardinality(values) <= MaxSorted

\* The error of one key ends build_observations for all of them, and so every call
\* that reads an observation.
Builds(cs) == \A k \in Keys : ~Unsortable(cs, k)

\* Mutant: they are left as build_observations has grouped them.
EarlierAsGrouped(i, j) ==
    LET a == log[i]  b == log[j] IN a.cap < b.cap \/ (a.cap = b.cap /\ a.seq < b.seq)

\* They are sorted by (ts_utc, capture_seq); the sort is stable, and time
\* stamps are whole seconds, so frames of different captures may tie.
Earlier(i, j) ==
    LET a == log[i]  b == log[j] IN
    \/ a.ts < b.ts
    \/ a.ts = b.ts /\ a.seq < b.seq
    \/ a.ts = b.ts /\ a.seq = b.seq /\ a.cap < b.cap

\* observation_from_group keeps the first of them as sightings.
Sightings(cs, k) ==
    {i \in Group(cs, k) : Cardinality({j \in Group(cs, k) : Earlier(j, i)}) < MaxSightings}

\* pstdev / mean < 0.25 for the distances of neighbours in seqs, without
\* division: n distances of sum s and sum of squares q.
Regular(seqs) ==
    LET next(a) == Min({b \in seqs : b > a})
        starts  == seqs \ {Max(seqs)}
        n == Cardinality(starts)
        s == Max(seqs) - Min(seqs)
        q == MapThenSumSet(LAMBDA a : (next(a) - a) * (next(a) - a), starts)
    IN  16 * n * q < 17 * s * s

\* is_periodic: some capture has at least four sightings at a regular interval.
Periodic(cs, k) ==
    \E c \in cs :
       LET seqs == {log[i].seq : i \in {j \in Sightings(cs, k) : log[j].cap = c}}
       IN  Cardinality(seqs) >= 4 /\ Regular(seqs)

-----------------------------------------------------------------------------
(* correlate and its verifier.                                              *)

ConditionsSeen(cs, k) == {Condition(log[i].cap) : i \in Sightings(cs, k)}

ConditionsWithFrames(cs) == {Condition(c) : c \in {d \in cs : FramesOf(d) # {}}}

\* correlate offers k as a candidate signal, exclusive to condition l.
Candidate(cs, k, l) ==
    /\ Cardinality(cs) >= 2 /\ Builds(cs)
    /\ ConditionsSeen(cs, k) = {l}
    /\ Cardinality(ConditionsWithFrames(cs)) > 1
    /\ Cardinality(Group(cs, k)) >= 2
    /\ ~Periodic(cs, k)

\* recompute_exclusive: the verifier of the class differential_exclusive.
RecomputeExclusive(cs, k, l) ==
    /\ Builds(cs)
    /\ ConditionsSeen(cs, k) = {l}
    /\ ~Periodic(cs, k)

-----------------------------------------------------------------------------
(* What changes the answers.                                                *)

CorrelateInit ==
    /\ log = <<>>
    /\ label = [c \in Captures |-> NoLabel]
    /\ clock = 0

\* append_frames: capture_seq counts the frames of the capture.
Observe(c, k, b) ==
    /\ Len(log) < MaxFrames
    /\ log' = Append(log, [cap |-> c, key |-> k, body |-> b,
                           seq |-> Cardinality(FramesOf(c)), ts |-> clock])
    /\ UNCHANGED <<label, clock>>

\* Store.label; an empty label takes the condition away.
Relabel(c, l) ==
    /\ label' = [label EXCEPT ![c] = l]
    /\ UNCHANGED <<log, clock>>

\* A second without frames cannot be told from the next one.
Tick ==
    /\ log # <<>> /\ log[Len(log)].ts = clock
    /\ clock' = clock + 1
    /\ UNCHANGED <<log, label>>

CorrelateNext ==
    \/ \E c \in Captures, k \in Keys, b \in Payloads : Observe(c, k, b)
    \/ \E c \in Captures, l \in Labels \cup {NoLabel} : Relabel(c, l)
    \/ Tick

CorrelateSpec == CorrelateInit /\ [][CorrelateNext]_correlateVars

-----------------------------------------------------------------------------
(* Properties.                                                              *)

\* The types of the frames and labels; time does not run back.
CorrelateTypeOK ==
    /\ log \in Seq([cap : Captures, key : Keys, body : Payloads, seq : Nat, ts : Nat])
    /\ label \in [Captures -> Labels \cup {NoLabel}]
    /\ clock \in Nat
    /\ \A i \in DOMAIN log : log[i].ts <= clock

\* Sightings of the seconds that are over.
Settled(cs, k) == {i \in Sightings(cs, k) : log[i].ts < clock}

\* Evidence only refutes: once sightings of two conditions have settled, nothing
\* that is captured later, however much it is, makes the key exclusive to one of
\* them again, for the verifier ("never under any other labeled capture",
\* correlate.py) or as a candidate signal; only a new label can.
SharedStaysShared ==
    [][\A cs \in SUBSET Captures, k \in Keys :
          label' = label /\ Cardinality({Condition(log[i].cap) : i \in Settled(cs, k)}) > 1
             => \A l \in Conditions : ~(RecomputeExclusive(cs, k, l) \/ Candidate(cs, k, l))']_correlateVars

=============================================================================
