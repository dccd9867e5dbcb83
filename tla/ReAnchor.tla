-------------------------------- MODULE ReAnchor --------------------------------
(***************************************************************************)
(* scripts/reanchor_v2.py: the migration of a kb.json that dates from      *)
(* before the host was part of the HTTP keys (docs/decisions/009).  No     *)
(* frame has the subjects of its claims any more: they are stranded.  The  *)
(* script is a process of its own; it loads the claims, and moves them one *)
(* after the other, with a save for the moved claim, one for each rival it *)
(* meets at its new subject (save_claim and _link_contradictions of        *)
(* apire/kb.py), and one for the entry in its history.  A save may fail,   *)
(* the script may be killed at any point, and it may be run again.         *)
(*                                                                         *)
(* Frames and claims are those of Exports.  A KB is either new, and then   *)
(* Exports is all that happens to it, or it holds legacy claims, which are *)
(* only migrated.  A v1 key is an observation of the host AnyHost.         *)
(* Provenance is left out but for its effect: the gate may refuse a claim  *)
(* above 0 at its new subject; a claim at 0 stands for a bare proposal.    *)
(***************************************************************************)
EXTENDS Exports

CONSTANTS
    AnyHost,        \* the host of no observation
    Legacies,       \* the sequences of claims that a kb.json may hold
    MaxFaults,      \* bound on kills and failing saves
    MoreFrames      \* TRUE: frames are captured between two runs of the script

\* _v1_key
OldKey(o) == [o EXCEPT !.host = AnyHost]

\* What claims are about, under old keys and new ones.
Subjects == Observations \cup {OldKey(o) : o \in Observations}

ASSUME ReAnchorAssumption ==
    /\ \A o \in Observations : "host" \in DOMAIN o /\ o.host # AnyHost
    /\ Legacies \subseteq Seq([subject : Subjects, name : Names, conf : Confidences \cup {0}])
    /\ MaxFaults \in Nat /\ MoreFrames \in BOOLEAN

VARIABLES
    margin,      \* what else the claims in memory hold: rivals, note, history
    kb,          \* the claims of kb.json, with their margins
    script,      \* the run of the script: pc, claim at hand, rivals to tell, failures
    legacy,      \* the claims before the first run
    faults

allVars == <<vars, margin, kb, script, legacy, faults>>

Off(how) == [pc |-> how, at |-> 0, todo |-> {}, failed |-> FALSE]

Running == script.pc \in {"claims", "rivals", "history"}

MigrationInit ==
    /\ log = <<>>
    /\ claims \in Legacies \cup {<<>>}
    /\ margin = [i \in DOMAIN claims |->
                   [rivals |-> RivalsOf(claims, i), noted |-> FALSE, history |-> <<>>]]
    /\ kb = [claims |-> claims, margin |-> margin]
    /\ script = Off("never run")
    /\ legacy = claims
    /\ faults = 0

-----------------------------------------------------------------------------
(* build_maps.                                                              *)

\* The v1 keys that the stored frames produce.
Producible == {OldKey(o) : o \in Seen}

\* id_map: of several frames with one v1 key the last one decides.
NewSubject(old) ==
    log[CHOOSE i \in DOMAIN log :
          /\ OldKey(log[i]) = old
          /\ \A j \in DOMAIN log : j > i => OldKey(log[j]) # old]

\* find_observation(subject) is None
Stranded(c) == c.subject \notin Seen

-----------------------------------------------------------------------------
(* migrate.  A save that fails raises; that is reported, and the next claim *)
(* is tried.                                                                *)

Saved     == kb' = [claims |-> claims', margin |-> margin'] /\ UNCHANGED faults
SaveFails == faults < MaxFaults /\ faults' = faults + 1 /\ UNCHANGED kb

NextClaim == [script EXCEPT !.pc = "claims", !.at = @ + 1, !.todo = {}]
Reported  == [NextClaim EXCEPT !.failed = TRUE]

Movable == Stranded(claims[script.at]) /\ claims[script.at].subject \in Producible

AtClaim == script.pc = "claims" /\ script.at \in DOMAIN claims

Start ==
    /\ legacy # <<>> /\ ~Running
    /\ script' = [Off("claims") EXCEPT !.at = 1]
    /\ UNCHANGED <<vars, margin, kb, legacy, faults>>

\* A claim is not stranded, or no frame produces its subject.
SkipClaim ==
    /\ AtClaim /\ ~Movable
    /\ script' = NextClaim
    /\ UNCHANGED <<vars, margin, kb, legacy, faults>>

\* save_claim refuses, before it changes anything.
GateRefuses ==
    /\ AtClaim /\ Movable /\ claims[script.at].conf > 0
    /\ script' = Reported
    /\ UNCHANGED <<vars, margin, kb, legacy, faults>>

\* save_claim changes the claim in memory and saves; then the claim learns its
\* rivals, in memory.
Move ==
    /\ AtClaim /\ Movable
    /\ LET i == script.at
           moved == [claims EXCEPT ![i].subject = NewSubject(@)]
       IN  /\ claims' = moved
           /\ \/ /\ margin' = [margin EXCEPT ![i].noted = TRUE, ![i].rivals = RivalsOf(moved, i)]
                 /\ kb' = [claims |-> moved, margin |-> [margin EXCEPT ![i].noted = TRUE]]
                 /\ script' = [script EXCEPT !.pc = "rivals", !.todo = RivalsOf(moved, i)]
                 /\ UNCHANGED faults
              \/ /\ margin' = [margin EXCEPT ![i].noted = TRUE]
                 /\ SaveFails /\ script' = Reported
    /\ UNCHANGED <<log, legacy>>

\* Mutant: the rivals are not told.
LinkNoRival ==
    /\ script.pc = "rivals" /\ script.todo # {}
    /\ script' = [script EXCEPT !.todo = {}]
    /\ UNCHANGED <<vars, margin, kb, legacy, faults>>

\* Each rival learns of the claim, with a save of its own.
LinkRival ==
    /\ script.pc = "rivals"
    /\ UNCHANGED <<vars, legacy>>
    /\ \E j \in script.todo :
          /\ margin' = [margin EXCEPT ![j].rivals = @ \cup {script.at}]
          /\ \/ Saved /\ script' = [script EXCEPT !.todo = @ \ {j}]
             \/ SaveFails /\ script' = Reported

\* save_claim has returned; the history gets its entry, and is saved.
Remember ==
    /\ script.pc = "rivals" /\ script.todo = {}
    /\ UNCHANGED <<vars, legacy>>
    /\ margin' = [margin EXCEPT ![script.at].history = Append(@, legacy[script.at].subject)]
    /\ \/ Saved /\ script' = NextClaim
       \/ SaveFails /\ script' = Reported

\* What is in memory is gone with the process.
Leave(how) ==
    /\ claims' = kb.claims /\ margin' = kb.margin
    /\ script' = Off(how)
    /\ UNCHANGED <<log, kb, legacy>>

EndOfRun ==
    /\ script.pc = "claims" /\ script.at > Len(claims)
    /\ Leave(IF script.failed THEN "failed" ELSE "clean")
    /\ UNCHANGED faults

Killed ==
    /\ Running /\ faults < MaxFaults
    /\ Leave("killed")
    /\ faults' = faults + 1

\* A frame is captured; no run has seen it yet.
Capture(o) ==
    /\ legacy # <<>> /\ ~Running
    /\ MoreFrames \/ script.pc = "never run"
    /\ Observe(o)
    /\ script' = Off("never run")
    /\ UNCHANGED <<margin, kb, legacy, faults>>

MigrationNext ==
    \/ /\ legacy = <<>> /\ Next
       /\ UNCHANGED <<margin, kb, script, legacy, faults>>
    \/ \E o \in Observations : Capture(o)
    \/ Start \/ SkipClaim \/ GateRefuses \/ Move \/ LinkRival \/ Remember
    \/ EndOfRun \/ Killed

MigrationSpec == MigrationInit /\ [][MigrationNext]_allVars

-----------------------------------------------------------------------------
(* Properties.                                                              *)

\* Whatever fails: kb.json keeps every claim with its name and its confidence,
\* under its old subject or one that a frame with the old key has.
ClaimsKept ==
    \A i \in DOMAIN legacy :
       LET now == kb.claims[i] IN
       /\ now.name = legacy[i].name /\ now.conf = legacy[i].conf
       /\ \/ now.subject = legacy[i].subject
          \/ now.subject \in Seen /\ OldKey(now.subject) = legacy[i].subject
                                  /\ kb.margin[i].noted

\* A run that reports no failure leaves no claim behind that it could move, even
\* after runs that were killed or failed halfway; and claims that argued still
\* argue: they are moved to one subject, and one of them at least names the other.
RunCompletes ==
    script.pc = "clean" =>
       \A i \in DOMAIN legacy :
          /\ Stranded(kb.claims[i]) => kb.claims[i].subject \notin Producible
          /\ \A j \in RivalsOf(legacy, i) :
                /\ kb.claims[j].subject = kb.claims[i].subject
                /\ j \in kb.margin[i].rivals \/ i \in kb.margin[j].rivals

\* Without kills and failing saves, arguing claims all name each other in the
\* end (those that met at the new subject too), and the history of a moved claim
\* has exactly one entry, the old subject, however often the script is run.
RunRecords ==
    script.pc = "clean" /\ faults = 0 =>
       \A i \in DOMAIN legacy :
          /\ kb.margin[i].rivals = RivalsOf(kb.claims, i)
          /\ kb.margin[i].history = IF kb.claims[i].subject = legacy[i].subject
                                    THEN <<>> ELSE <<legacy[i].subject>>

\* Re-anchoring "never hides" (reanchor_v2.py): no claim is lost or changed by the
\* migration, none is left behind by a run that reports no failure, and rivals
\* stay rivals, across kills, failing saves and repeated runs.
MigrationKeepsClaims == ClaimsKept /\ RunCompletes /\ RunRecords

=============================================================================
