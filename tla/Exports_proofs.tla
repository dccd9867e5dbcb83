---------------------------- MODULE Exports_proofs ----------------------------
(* Theorems about Exports, ReAnchor and Listings, and their proofs.          *)
EXTENDS ReAnchor, Listings, FiniteSetTheorems, SequenceTheorems, TLAPS

Claims == [subject : Subjects, name : Names, conf : Confidences \cup {0}]

\* The types of the frames and of the claims in memory.
DataOK == log \in Seq(Observations) /\ claims \in Seq(Claims)

-----------------------------------------------------------------------------
(* The least and the greatest.                                               *)

\* A set of natural numbers that is not empty has a least member.
LEMMA LeastExists ==
  ASSUME NEW S \in SUBSET Nat, S # {}
  PROVE  \E x \in S : \A y \in S : x <= y
<1>. DEFINE R == StrictSubsetOrdering(Nat)
            F == {0..x : x \in S}
<1>1. IsWellFoundedOn(R, FiniteSubsetsOf(Nat))
  BY FS_StrictSubsetOrderingWellFounded, Zenon
<1>2. F \subseteq FiniteSubsetsOf(Nat) /\ F # {}
  <2>1. ASSUME NEW x \in S PROVE IsFiniteSet(0..x) /\ 0..x \in SUBSET Nat
    <3>1. 0 \in Int /\ x \in Int
      OBVIOUS
    <3>2. IsFiniteSet(0..x)
      BY <3>1, FS_Interval, Zenon
    <3>. QED
      BY <3>2
  <2>. QED
    BY <2>1 DEF FiniteSubsetsOf
<1>3. PICK X \in F : \A Y \in F : ~ (<<Y, X>> \in R)
  BY <1>1, <1>2, WFMin, Zenon
<1>4. PICK x \in S : X = 0..x
  OBVIOUS
<1>5. ASSUME NEW y \in S PROVE x <= y
  <2>1. <<0..y, 0..x>> \notin R
    BY <1>3, <1>4, <1>5
  <2>2. 0..y \in SUBSET Nat /\ 0..x \in SUBSET Nat
    OBVIOUS
  <2>3. ~ (0..y \subseteq 0..x /\ 0..y # 0..x)
    BY <2>1, <2>2, Zenon DEF StrictSubsetOrdering
  <2>4. y < x => 0..y \subseteq 0..x /\ x \in 0..x /\ x \notin 0..y
    OBVIOUS
  <2>. QED
    BY <2>3, <2>4
<1>. QED
  BY <1>5

\* A set of natural numbers below a bound has a greatest member.
LEMMA GreatestExists ==
  ASSUME NEW S \in SUBSET Nat, S # {}, NEW n \in Nat, \A x \in S : x <= n
  PROVE  \E x \in S : \A y \in S : y <= x
<1>. DEFINE D == {n - x : x \in S}
<1>1. \A x \in S : x \in Nat /\ n - x \in Nat
  OBVIOUS
<1>2. D \in SUBSET Nat /\ D # {}
  BY <1>1
<1>3. PICK d \in D : \A e \in D : d <= e
  BY <1>2, LeastExists
<1>4. PICK x \in S : d = n - x
  OBVIOUS
<1>5. ASSUME NEW y \in S PROVE y <= x
  <2>1. n - x <= n - y
    BY <1>3, <1>4
  <2>. QED
    BY <1>1, <2>1
<1>. QED
  BY <1>5

-----------------------------------------------------------------------------
(* The evidence of a row.                                                    *)

\* An observation that was seen has a first frame.
LEMMA FirstSeenIs ==
  ASSUME log \in Seq(Observations), NEW o \in Seen
  PROVE  /\ FirstSeen(o) \in DOMAIN log /\ FirstSeen(o) \in Nat
         /\ log[FirstSeen(o)] = o
         /\ \A j \in 1..(FirstSeen(o) - 1) : log[j] # o
<1>. DEFINE S == {i \in DOMAIN log : log[i] = o}
<1>1. DOMAIN log = 1..Len(log) /\ Len(log) \in Nat
  OBVIOUS
<1>2. S \in SUBSET Nat /\ S # {}
  BY <1>1 DEF Seen
<1>3. PICK i \in S : \A j \in S : i <= j
  BY <1>2, LeastExists
<1>4. i \in DOMAIN log /\ log[i] = o /\ \A j \in 1..(i - 1) : log[j] # o
  BY <1>1, <1>3
<1>5. /\ FirstSeen(o) \in DOMAIN log /\ log[FirstSeen(o)] = o
      /\ \A j \in 1..(FirstSeen(o) - 1) : log[j] # o
  BY <1>4, Zenon DEF FirstSeen
<1>. QED
  BY <1>1, <1>5

\* The claims on a row and the places they have there.
LEMMA ClaimsOnTyped ==
  ASSUME DataOK, NEW r
  PROVE  \A i \in ClaimsOn(r) : /\ i \in DOMAIN claims /\ i \in Nat /\ claims[i] \in Claims
                                /\ claims[i].conf \in 0..100
                                /\ Place(r, i) \in Nat
<1> SUFFICES ASSUME NEW i \in ClaimsOn(r)
             PROVE  /\ i \in DOMAIN claims /\ i \in Nat /\ claims[i] \in Claims
                    /\ claims[i].conf \in 0..100
                    /\ Place(r, i) \in Nat
  OBVIOUS
<1>1. i \in DOMAIN claims /\ i \in Nat /\ claims[i] \in Claims
  BY DEF ClaimsOn, DataOK
<1>2. claims[i].conf \in Confidences \cup {0}
  BY <1>1 DEF Claims
<1>3. claims[i].conf \in 0..100
  <2>1. Confidences \subseteq 0..100
    BY ExportsAssumption
  <2>2. \A x \in Confidences \cup {0} : x \in 0..100
    BY <2>1
  <2>. QED
    BY ONLY <1>2, <2>2, Zenon
<1>4. Place(r, i) \in Nat
  <2>1. CASE claims[i].subject = r
    BY <2>1 DEF Place
  <2>2. CASE claims[i].subject # r
    <3>1. claims[i].subject \in Seen
      BY <2>2 DEF ClaimsOn, ResponsesOf
    <3>. QED
      BY <2>2, <3>1, FirstSeenIs DEF Place, DataOK
  <2>. QED
    BY <2>1, <2>2
<1>. QED
  BY <1>1, <1>3, <1>4

\* One of the claims on a row leads the others.
LEMMA BestIs ==
  ASSUME DataOK, NEW r, ClaimsOn(r) # {}
  PROVE  BestOn(r) \in ClaimsOn(r) /\ \A j \in ClaimsOn(r) : claims[j].conf <= claims[BestOn(r)].conf
<1>t. \A i \in ClaimsOn(r) : i \in Nat /\ claims[i].conf \in 0..100 /\ Place(r, i) \in Nat
  BY ClaimsOnTyped
<1>. DEFINE confs  == {claims[i].conf : i \in ClaimsOn(r)}
<1>1. PICK c \in confs : \A d \in confs : d <= c
  <2>1. confs \in SUBSET Nat /\ confs # {} /\ \A d \in confs : d <= 100
    BY <1>t
  <2>. QED
    BY <2>1, GreatestExists
<1>. DEFINE strong == {i \in ClaimsOn(r) : claims[i].conf = c}
            places == {Place(r, i) : i \in strong}
<1>2. PICK p \in places : \A q \in places : p <= q
  <2>1. places \in SUBSET Nat /\ places # {}
    BY <1>t, <1>1
  <2>. QED
    BY <2>1, LeastExists
<1>. DEFINE first == {i \in strong : Place(r, i) = p}
<1>3. PICK i \in first : \A j \in first : i <= j
  <2>1. first \in SUBSET Nat /\ first # {}
    BY <1>t, <1>2
  <2>. QED
    BY <2>1, LeastExists
<1>4. ASSUME NEW j \in ClaimsOn(r) PROVE Leads(r, i, j)
  <2>1. claims[j].conf <= c /\ claims[i].conf = c /\ Place(r, i) = p
    BY <1>1, <1>3
  <2>2. claims[j].conf = c => p <= Place(r, j)
    BY <1>2
  <2>3. claims[j].conf = c /\ Place(r, j) = p => i <= j
    BY <1>3
  <2>4. /\ claims[j].conf \in Nat /\ c \in Nat /\ p \in Nat /\ Place(r, j) \in Nat
    BY <1>t, <1>1, <1>2
  <2>. QED
    BY <2>1, <2>2, <2>3, <2>4 DEF Leads
<1>5. i \in ClaimsOn(r)
  OBVIOUS
<1>6. BestOn(r) \in ClaimsOn(r) /\ \A j \in ClaimsOn(r) : Leads(r, BestOn(r), j)
  BY <1>4, <1>5, Zenon DEF BestOn
<1>7. ASSUME NEW j \in ClaimsOn(r) PROVE claims[j].conf <= claims[BestOn(r)].conf
  <2>1. \/ claims[BestOn(r)].conf > claims[j].conf
        \/ claims[BestOn(r)].conf = claims[j].conf
    BY <1>6, <1>7, Zenon DEF Leads
  <2>2. claims[j].conf \in Nat /\ claims[BestOn(r)].conf \in Nat
    BY <1>t, <1>6, <1>7
  <2>. QED
    BY ONLY <2>1, <2>2
<1>. QED
  BY <1>6, <1>7

\* What evidence_block says: the best confidence of the claims on a row, and
\* the level that goes with it.
EvidenceSound ==
    \A r \in Observations :
       /\ Evidence(r).conf \in 0..100
       /\ Evidence(r).rank = Rank(Evidence(r).conf)
       /\ ClaimsOn(r) = {} => Evidence(r).conf = 80
       /\ ClaimsOn(r) # {} => \E i \in ClaimsOn(r) : claims[i].conf = Evidence(r).conf
       /\ \A i \in ClaimsOn(r) : claims[i].conf <= Evidence(r).conf

\* It says so whatever the frames and the claims are.
LEMMA EvidenceCorrect == DataOK => EvidenceSound
<1> SUFFICES ASSUME DataOK, NEW r \in Observations
             PROVE  /\ Evidence(r).conf \in 0..100
                    /\ Evidence(r).rank = Rank(Evidence(r).conf)
                    /\ ClaimsOn(r) = {} => Evidence(r).conf = 80
                    /\ ClaimsOn(r) # {} => \E i \in ClaimsOn(r) : claims[i].conf = Evidence(r).conf
                    /\ \A i \in ClaimsOn(r) : claims[i].conf <= Evidence(r).conf
  BY DEF EvidenceSound
<1>1. CASE ClaimsOn(r) = {}
  BY <1>1 DEF Evidence
<1>2. CASE ClaimsOn(r) # {}
  <2>1. /\ BestOn(r) \in ClaimsOn(r)
        /\ \A j \in ClaimsOn(r) : claims[j].conf <= claims[BestOn(r)].conf
    BY <1>2, BestIs
  <2>2. claims[BestOn(r)].conf \in 0..100
    BY <2>1, ClaimsOnTyped
  <2>3. /\ Evidence(r).conf = claims[BestOn(r)].conf
        /\ Evidence(r).rank = Rank(claims[BestOn(r)].conf)
    BY <1>2 DEF Evidence
  <2>. QED
    BY <1>2, <2>1, <2>2, <2>3
<1>. QED
  BY <1>1, <1>2

-----------------------------------------------------------------------------
(* More evidence.                                                            *)

\* A higher confidence is in no lower level.
LEMMA RankFalls ==
  ASSUME NEW a \in Nat, NEW b \in Nat, a <= b
  PROVE  Rank(b) <= Rank(a) /\ Rank(b) \in Nat /\ Rank(a) \in Nat
<1>. DEFINE levels == {95, 80, 60, 40, 10}
            A == {t \in levels : a < t}
            B == {t \in levels : b < t}
<1>1. IsFiniteSet(0..95)
  <2>1. 0 \in Int /\ 95 \in Int
    OBVIOUS
  <2>. QED
    BY <2>1, FS_Interval, Zenon
<1>2. A \in SUBSET (0..95) /\ B \in SUBSET A
  OBVIOUS
<1>3. IsFiniteSet(A)
  BY ONLY <1>1, <1>2, FS_Subset, Zenon
<1>4. IsFiniteSet(B) /\ Cardinality(B) <= Cardinality(A)
  BY ONLY <1>2, <1>3, FS_Subset, Zenon
<1>5. Cardinality(A) \in Nat /\ Cardinality(B) \in Nat
  BY ONLY <1>3, <1>4, FS_CardinalityType, Zenon
<1>. QED
  BY <1>4, <1>5 DEF Rank

-----------------------------------------------------------------------------
(* Types of the migration.                                                   *)

Ids     == DOMAIN legacy
Margins == [rivals : SUBSET Ids, noted : BOOLEAN, history : Seq(Subjects)]
MarginMaps == [Ids -> Margins]

\* Two of them are the same but at i.
SameBut(n, m, i) == n \in MarginMaps /\ \A j \in Ids : j # i => n[j] = m[j]

\* The claims of a server or of kb.json, with what else they hold.
MemoryOK(cs, mg) == cs \in Seq(Claims) /\ DOMAIN cs = Ids /\ mg \in MarginMaps

Stages  == {"never run", "clean", "failed", "killed", "claims", "rivals"}
Scripts == [pc : Stages, at : Nat, todo : SUBSET Ids, failed : BOOLEAN]

\* How far the script is.
Is(s, pc, at, todo, failed) ==
    s \in Scripts /\ s.pc = pc /\ s.at = at /\ s.todo = todo /\ s.failed = failed

ScriptOK ==
    /\ script \in Scripts
    /\ script.pc = "rivals" => script.at \in Ids

MigrationTypeOK ==
    /\ DataOK /\ legacy \in Seq(Claims) /\ faults \in Nat
    /\ legacy = <<>> => script = Off("never run")
    /\ legacy # <<>> => /\ MemoryOK(claims, margin) /\ MemoryOK(kb.claims, kb.margin)
                        /\ ScriptOK

\* Old keys are the keys of no observation.
LEMMA KeysApart ==
  ASSUME NEW o \in Observations
  PROVE  OldKey(o).host = AnyHost /\ OldKey(o) \notin Observations
<1>1. "host" \in DOMAIN o /\ \A p \in Observations : p.host # AnyHost
  BY ReAnchorAssumption
<1>2. OldKey(o).host = AnyHost
  BY <1>1 DEF OldKey
<1>. QED
  BY <1>1, <1>2

\* The script moves a claim to an observation that has the old key.
LEMMA NewSubjectIs ==
  ASSUME log \in Seq(Observations), NEW old \in Producible
  PROVE  /\ NewSubject(old) \in Seen /\ NewSubject(old) \in Observations
         /\ OldKey(NewSubject(old)) = old
         /\ old \notin Seen
<1>. DEFINE S == {i \in DOMAIN log : OldKey(log[i]) = old}
<1>1. DOMAIN log = 1..Len(log) /\ Len(log) \in Nat /\ Seen \subseteq Observations
  BY DEF Seen
<1>2. S \in SUBSET Nat /\ S # {} /\ \A i \in S : i <= Len(log)
  BY <1>1 DEF Producible, Seen
<1>3. PICK i \in S : \A j \in S : j <= i
  BY <1>1, <1>2, GreatestExists
<1>4. \E k \in DOMAIN log : /\ OldKey(log[k]) = old
                            /\ \A j \in DOMAIN log : j > k => OldKey(log[j]) # old
  BY <1>1, <1>3
<1>. DEFINE last(k) == /\ OldKey(log[k]) = old
                       /\ \A j \in DOMAIN log : j > k => OldKey(log[j]) # old
            k0 == CHOOSE k \in DOMAIN log : last(k)
<1>5. k0 \in DOMAIN log /\ OldKey(log[k0]) = old /\ NewSubject(old) = log[k0]
  BY <1>4, Zenon DEF NewSubject
<1>6. NewSubject(old) \in Seen /\ OldKey(NewSubject(old)) = old
  BY <1>5 DEF Seen
<1>7. old \notin Observations
  BY <1>1, KeysApart DEF Producible
<1>. QED
  BY <1>1, <1>6, <1>7

\* A claim may get another subject and stays a claim.
LEMMA MovedTyped ==
  ASSUME NEW cs \in Seq(Claims), NEW i \in DOMAIN cs, NEW s \in Subjects
  PROVE  LET moved == [cs EXCEPT ![i].subject = s] IN
         /\ moved \in Seq(Claims) /\ DOMAIN moved = DOMAIN cs
         /\ \A j \in DOMAIN cs : j # i => moved[j] = cs[j]
         /\ moved[i].subject = s /\ moved[i].name = cs[i].name /\ moved[i].conf = cs[i].conf
<1>. DEFINE c == [cs[i] EXCEPT !.subject = s]
            moved == [cs EXCEPT ![i] = c]
<1>1. cs[i] \in Claims
  BY ElementOfSeq, LenProperties
<1>2. c \in Claims /\ c.subject = s /\ c.name = cs[i].name /\ c.conf = cs[i].conf
  BY <1>1 DEF Claims
<1>3. /\ moved \in Seq(Claims) /\ DOMAIN moved = DOMAIN cs /\ moved[i] = c
      /\ \A j \in DOMAIN cs : j # i => moved[j] = cs[j]
  BY <1>2, ExceptSeq, LenProperties
<1>. QED
  BY <1>2, <1>3

\* A script that runs has legacy claims before it.
LEMMA RunsOnLegacies ==
  ASSUME MigrationTypeOK, script.pc # "never run"
  PROVE  legacy # <<>>
<1>1. legacy = <<>> => script = Off("never run")
  BY DEF MigrationTypeOK
<1>2. ASSUME script = Off("never run") PROVE script.pc = "never run"
  BY <1>2 DEF Off
<1>. QED
  BY <1>1, <1>2

\* A claim is moved, and saved or not.
LEMMA MoveEffect ==
  ASSUME MigrationTypeOK, Move
  PROVE  LET i == script.at IN
         /\ i \in Ids /\ legacy # <<>> /\ log' = log /\ legacy' = legacy
         /\ Stranded(claims[i]) /\ claims[i].subject \in Producible
         /\ claims' \in Seq(Claims) /\ DOMAIN claims' = Ids /\ margin' \in MarginMaps
         /\ \A j \in Ids : j # i => claims'[j] = claims[j] /\ margin'[j] = margin[j]
         /\ claims'[i].subject = NewSubject(claims[i].subject)
         /\ claims'[i].name = claims[i].name /\ claims'[i].conf = claims[i].conf
         /\ margin'[i].noted = TRUE /\ margin'[i].history = margin[i].history
         /\ \/ /\ margin'[i].rivals = RivalsOf(claims', i)
               /\ kb' = [claims |-> claims', margin |-> [margin EXCEPT ![i].noted = TRUE]]
               /\ script' = [script EXCEPT !.pc = "rivals", !.todo = RivalsOf(claims', i)]
               /\ faults' = faults
            \/ /\ margin'[i].rivals = margin[i].rivals
               /\ kb' = kb /\ script' = Reported /\ faults' = faults + 1
<1>. DEFINE i == script.at
            s == NewSubject(claims[i].subject)
            moved == [claims EXCEPT ![i].subject = NewSubject(@)]
<1>1. legacy # <<>>
  <2>1. script.pc = "claims"
    BY DEF Move, AtClaim
  <2>. QED
    BY <2>1, RunsOnLegacies
<1>2. /\ MemoryOK(claims, margin) /\ i \in Ids
      /\ Stranded(claims[i]) /\ claims[i].subject \in Producible
  BY <1>1 DEF MigrationTypeOK, Move, AtClaim, Movable, MemoryOK
<1>3. s \in Subjects
  BY <1>2, NewSubjectIs DEF MigrationTypeOK, DataOK, Subjects
<1>4. /\ moved \in Seq(Claims) /\ DOMAIN moved = Ids
      /\ \A j \in Ids : j # i => moved[j] = claims[j]
      /\ moved[i].subject = s /\ moved[i].name = claims[i].name /\ moved[i].conf = claims[i].conf
  <2>1. claims \in Seq(Claims) /\ i \in DOMAIN claims /\ DOMAIN claims = Ids
    BY <1>2 DEF MemoryOK
  <2>2. moved = [claims EXCEPT ![i].subject = s]
    BY <2>1
  <2>. HIDE DEF s, i, moved
  <2>. QED
    BY <1>3, <2>1, <2>2, MovedTyped
<1>5. claims' = moved /\ log' = log /\ legacy' = legacy
  BY DEF Move
<1>6. RivalsOf(moved, i) \in SUBSET Ids
  BY <1>4 DEF RivalsOf
<1>7. margin \in MarginMaps
  BY <1>2 DEF MemoryOK
<1>8. \/ /\ margin' = [margin EXCEPT ![i].noted = TRUE, ![i].rivals = RivalsOf(moved, i)]
         /\ kb' = [claims |-> moved, margin |-> [margin EXCEPT ![i].noted = TRUE]]
         /\ script' = [script EXCEPT !.pc = "rivals", !.todo = RivalsOf(moved, i)]
         /\ faults' = faults
      \/ /\ margin' = [margin EXCEPT ![i].noted = TRUE]
         /\ kb' = kb /\ script' = Reported /\ faults' = faults + 1
  BY DEF Move, SaveFails
<1>. HIDE DEF moved, s
<1>. DEFINE noted  == [margin EXCEPT ![i].noted = TRUE]
            linked == [noted EXCEPT ![i].rivals = RivalsOf(moved, i)]
<1>9. /\ SameBut(noted, margin, i)
      /\ noted[i].noted = TRUE /\ noted[i].rivals = margin[i].rivals
      /\ noted[i].history = margin[i].history
  <2>. DEFINE x == [margin[i] EXCEPT !.noted = TRUE]
  <2>1. /\ x \in Margins /\ x.noted = TRUE
        /\ x.rivals = margin[i].rivals /\ x.history = margin[i].history
    BY <1>2, <1>7 DEF Margins, MarginMaps
  <2>2. noted = [margin EXCEPT ![i] = x] /\ i \in Ids
    BY <1>2, <1>7 DEF MarginMaps
  <2>. HIDE DEF noted, x, i
  <2>3. SameBut(noted, margin, i) /\ noted[i] = x
    BY ONLY <1>7, <2>1, <2>2 DEF SameBut, MarginMaps
  <2>. QED
    BY ONLY <2>1, <2>3
<1>10. /\ SameBut(linked, noted, i)
       /\ linked[i].noted = noted[i].noted /\ linked[i].rivals = RivalsOf(moved, i)
       /\ linked[i].history = noted[i].history
  <2>. DEFINE x == [noted[i] EXCEPT !.rivals = RivalsOf(moved, i)]
  <2>0. noted \in MarginMaps /\ i \in Ids
    BY <1>2, <1>9 DEF SameBut
  <2>. HIDE DEF noted
  <2>1. /\ x \in Margins /\ x.noted = noted[i].noted
        /\ x.rivals = RivalsOf(moved, i) /\ x.history = noted[i].history
    BY <1>6, <2>0 DEF Margins, MarginMaps
  <2>2. linked = [noted EXCEPT ![i] = x]
    BY <2>0 DEF MarginMaps
  <2>. HIDE DEF linked, x, i
  <2>3. SameBut(linked, noted, i) /\ linked[i] = x
    BY ONLY <2>0, <2>1, <2>2 DEF SameBut, MarginMaps
  <2>. QED
    BY ONLY <2>1, <2>3
<1>11. linked = [margin EXCEPT ![i].noted = TRUE, ![i].rivals = RivalsOf(moved, i)]
  BY <1>2, <1>7 DEF MarginMaps
<1>12. margin' = linked \/ margin' = noted
  BY <1>8, <1>11
<1>. HIDE DEF linked, noted
<1>13. /\ margin' \in MarginMaps
       /\ \A j \in Ids : j # i => margin'[j] = margin[j]
       /\ margin'[i].noted = TRUE /\ margin'[i].history = margin[i].history
  BY <1>9, <1>10, <1>12 DEF SameBut
<1>14. \/ /\ margin'[i].rivals = RivalsOf(moved, i)
          /\ kb' = [claims |-> moved, margin |-> [margin EXCEPT ![i].noted = TRUE]]
          /\ script' = [script EXCEPT !.pc = "rivals", !.todo = RivalsOf(moved, i)]
          /\ faults' = faults
       \/ /\ margin'[i].rivals = margin[i].rivals
          /\ kb' = kb /\ script' = Reported /\ faults' = faults + 1
  BY <1>8, <1>9, <1>10, <1>11 DEF noted
<1>. QED
  BY <1>1, <1>2, <1>4, <1>5, <1>13, <1>14 DEF s

\* A rival learns of the claim, and that is saved or not.
LEMMA LinkEffect ==
  ASSUME MigrationTypeOK, LinkRival
  PROVE  /\ legacy # <<>> /\ UNCHANGED <<vars, legacy>>
         /\ margin' \in MarginMaps /\ script.at \in Ids
         /\ \E j \in script.todo :
               /\ j \in Ids
               /\ \A k \in Ids : k # j => margin'[k] = margin[k]
               /\ margin'[j].rivals = margin[j].rivals \cup {script.at}
               /\ margin'[j].noted = margin[j].noted /\ margin'[j].history = margin[j].history
               /\ \/ Saved /\ script' = [script EXCEPT !.todo = @ \ {j}]
                  \/ SaveFails /\ script' = Reported
<1>1. legacy # <<>>
  <2>1. script.pc = "rivals"
    BY DEF LinkRival
  <2>. QED
    BY <2>1, RunsOnLegacies
<1>2. margin \in MarginMaps /\ script.at \in Ids /\ script.todo \in SUBSET Ids
  <2>1. MemoryOK(claims, margin) /\ script \in Scripts /\ (script.pc = "rivals" => script.at \in Ids)
    BY <1>1 DEF MigrationTypeOK, ScriptOK
  <2>2. script.pc = "rivals"
    BY DEF LinkRival
  <2>. QED
    BY <2>1, <2>2 DEF MemoryOK, Scripts
<1>3. PICK j \in script.todo :
         /\ margin' = [margin EXCEPT ![j].rivals = @ \cup {script.at}]
         /\ \/ Saved /\ script' = [script EXCEPT !.todo = @ \ {j}]
            \/ SaveFails /\ script' = Reported
  BY DEF LinkRival
<1>4. j \in Ids
  BY <1>2
<1>5. /\ margin' \in MarginMaps
      /\ \A k \in Ids : k # j => margin'[k] = margin[k]
      /\ margin'[j].rivals = margin[j].rivals \cup {script.at}
      /\ margin'[j].noted = margin[j].noted /\ margin'[j].history = margin[j].history
  <2>. DEFINE x == [margin[j] EXCEPT !.rivals = @ \cup {script.at}]
  <2>1. /\ x \in Margins /\ x.rivals = margin[j].rivals \cup {script.at}
        /\ x.noted = margin[j].noted /\ x.history = margin[j].history
    BY <1>2, <1>4 DEF Margins, MarginMaps
  <2>2. margin' = [margin EXCEPT ![j] = x]
    BY <1>2, <1>3 DEF MarginMaps
  <2>. HIDE DEF x
  <2>3. SameBut(margin', margin, j) /\ margin'[j] = x
    BY ONLY <1>2, <1>4, <2>1, <2>2 DEF SameBut, MarginMaps
  <2>. QED
    BY <2>1, <2>3 DEF SameBut
<1>. QED
  BY <1>1, <1>2, <1>3, <1>4, <1>5 DEF LinkRival

\* The history of the claim gets its entry, and that is saved or not.
LEMMA RememberEffect ==
  ASSUME MigrationTypeOK, Remember
  PROVE  LET i == script.at IN
         /\ legacy # <<>> /\ i \in Ids /\ UNCHANGED <<vars, legacy>>
         /\ margin' \in MarginMaps
         /\ \A k \in Ids : k # i => margin'[k] = margin[k]
         /\ margin'[i].history = Append(margin[i].history, legacy[i].subject)
         /\ margin'[i].noted = margin[i].noted /\ margin'[i].rivals = margin[i].rivals
         /\ \/ Saved /\ script' = NextClaim
            \/ SaveFails /\ script' = Reported
<1>. DEFINE i == script.at
<1>1. legacy # <<>>
  <2>1. script.pc = "rivals"
    BY DEF Remember
  <2>. QED
    BY <2>1, RunsOnLegacies
<1>2. margin \in MarginMaps /\ i \in Ids
  BY <1>1 DEF MigrationTypeOK, Remember, MemoryOK, ScriptOK
<1>3. margin' = [margin EXCEPT ![i].history = Append(@, legacy[i].subject)]
  BY DEF Remember
<1>4. legacy[i] \in Claims
  BY <1>2, ElementOfSeq, LenProperties DEF MigrationTypeOK, Ids
<1>5. legacy[i].subject \in Subjects /\ margin[i].history \in Seq(Subjects)
  BY <1>2, <1>4 DEF Claims, Margins, MarginMaps
<1>6. Append(margin[i].history, legacy[i].subject) \in Seq(Subjects)
  BY ONLY <1>5, AppendProperties
<1>7. /\ margin' \in MarginMaps
      /\ \A k \in Ids : k # i => margin'[k] = margin[k]
      /\ margin'[i].history = Append(margin[i].history, legacy[i].subject)
      /\ margin'[i].noted = margin[i].noted /\ margin'[i].rivals = margin[i].rivals
  <2>. DEFINE h == Append(margin[i].history, legacy[i].subject)
              x == [margin[i] EXCEPT !.history = h]
  <2>1. h \in Seq(Subjects)
    BY <1>6
  <2>. HIDE DEF h
  <2>2. /\ x \in Margins /\ x.history = h
        /\ x.noted = margin[i].noted /\ x.rivals = margin[i].rivals
    BY <1>2, <2>1 DEF Margins, MarginMaps
  <2>3. margin' = [margin EXCEPT ![i] = x]
    BY <1>2, <1>3 DEF MarginMaps, h
  <2>. HIDE DEF x
  <2>4. SameBut(margin', margin, i) /\ margin'[i] = x
    BY ONLY <1>2, <2>2, <2>3 DEF SameBut, MarginMaps
  <2>. QED
    BY <2>2, <2>4 DEF SameBut, h
<1>. QED
  BY <1>1, <1>2, <1>7 DEF Remember

\* What the steps of the script make of it.
LEMMA ScriptEdits ==
  ASSUME script \in Scripts
  PROVE  /\ Is(NextClaim, "claims", script.at + 1, {}, script.failed)
         /\ Is(Reported, "claims", script.at + 1, {}, TRUE)
         /\ Is([Off("claims") EXCEPT !.at = 1], "claims", 1, {}, FALSE)
         /\ \A how \in {"never run", "clean", "failed", "killed"} : Is(Off(how), how, 0, {}, FALSE)
         /\ \A R \in SUBSET Ids :
               /\ Is([script EXCEPT !.pc = "rivals", !.todo = R], "rivals", script.at, R, script.failed)
               /\ Is([script EXCEPT !.todo = R], script.pc, script.at, R, script.failed)
<1>1. ASSUME NEW s \in Scripts
      PROVE  s.pc \in Stages /\ s.at \in Nat /\ s.at + 1 \in Nat
  BY DEF Scripts
<1>2. ASSUME NEW s \in Scripts, NEW pc \in Stages, NEW n \in Nat, NEW R \in SUBSET Ids
      PROVE  [s EXCEPT !.pc = pc, !.at = n, !.todo = R] \in Scripts
  BY Zenon DEF Scripts
<1>3. ASSUME NEW s \in Scripts, NEW pc \in Stages, NEW R \in SUBSET Ids
      PROVE  [s EXCEPT !.pc = pc, !.todo = R] \in Scripts /\ [s EXCEPT !.todo = R] \in Scripts
  BY Zenon DEF Scripts
<1>4. ASSUME NEW s \in Scripts
      PROVE  [s EXCEPT !.failed = TRUE] \in Scripts
  BY Zenon DEF Scripts
<1>5. "claims" \in Stages /\ "rivals" \in Stages /\ {} \in SUBSET Ids /\ 1 \in Nat
  BY DEF Stages
<1>6. Is(NextClaim, "claims", script.at + 1, {}, script.failed)
  <2>1. NextClaim \in Scripts
    <3>1. [script EXCEPT !.pc = "claims", !.at = script.at + 1, !.todo = {}] \in Scripts
      BY <1>1, <1>2, <1>5, Zenon
    <3>. QED
      BY <3>1 DEF NextClaim
  <2>2. /\ NextClaim.pc = "claims" /\ NextClaim.at = script.at + 1
        /\ NextClaim.todo = {} /\ NextClaim.failed = script.failed
    BY DEF NextClaim, Scripts
  <2>. QED
    BY <2>1, <2>2 DEF Is
<1>7. Is(Reported, "claims", script.at + 1, {}, TRUE)
  <2>1. NextClaim \in Scripts
    BY <1>6 DEF Is
  <2>2. Reported \in Scripts
    BY <1>4, <2>1, Zenon DEF Reported
  <2>3. /\ Reported.pc = NextClaim.pc /\ Reported.at = NextClaim.at
        /\ Reported.todo = NextClaim.todo /\ Reported.failed = TRUE
    BY <2>1 DEF Reported, Scripts
  <2>. QED
    BY <1>6, <2>2, <2>3 DEF Is
<1>8. ASSUME NEW how \in Stages PROVE Is(Off(how), how, 0, {}, FALSE)
  BY DEF Is, Off, Scripts
<1>9. Is([Off("claims") EXCEPT !.at = 1], "claims", 1, {}, FALSE)
  <2>. DEFINE s == Off("claims")
  <2>1. Is(s, "claims", 0, {}, FALSE)
    BY <1>5, <1>8
  <2>. HIDE DEF s
  <2>2. s \in Scripts
    BY <2>1 DEF Is
  <2>3. [s EXCEPT !.at = 1] \in Scripts
    BY <2>2, Zenon, 1 \in Nat DEF Scripts
  <2>4. /\ [s EXCEPT !.at = 1].pc = s.pc /\ [s EXCEPT !.at = 1].at = 1
        /\ [s EXCEPT !.at = 1].todo = s.todo /\ [s EXCEPT !.at = 1].failed = s.failed
    BY <2>2 DEF Scripts
  <2>. QED
    BY <2>1, <2>3, <2>4 DEF Is, s
<1>10. ASSUME NEW R \in SUBSET Ids
       PROVE  /\ Is([script EXCEPT !.pc = "rivals", !.todo = R], "rivals", script.at, R, script.failed)
              /\ Is([script EXCEPT !.todo = R], script.pc, script.at, R, script.failed)
  <2>1. /\ [script EXCEPT !.pc = "rivals", !.todo = R] \in Scripts
        /\ [script EXCEPT !.todo = R] \in Scripts
    BY <1>3, <1>5, Zenon
  <2>. DEFINE r == [script EXCEPT !.pc = "rivals", !.todo = R]
              t == [script EXCEPT !.todo = R]
  <2>2. r.pc = "rivals" /\ r.at = script.at /\ r.todo = R /\ r.failed = script.failed
    BY DEF Scripts
  <2>3. t.pc = script.pc /\ t.at = script.at /\ t.todo = R /\ t.failed = script.failed
    BY DEF Scripts
  <2>. QED
    BY <2>1, <2>2, <2>3 DEF Is
<1>. QED
  BY <1>6, <1>7, <1>8, <1>9, <1>10 DEF Stages

\* Frames and claims keep their types (Exports).
LEMMA DataStep == DataOK /\ Next => DataOK'
<1> SUFFICES ASSUME DataOK, Next PROVE DataOK'
  OBVIOUS
<1>1. ASSUME NEW o \in Observations, Observe(o) PROVE DataOK'
  <2>1. log' \in Seq(Observations)
    BY <1>1, AppendProperties DEF Observe, DataOK
  <2>. QED
    BY <1>1, <2>1 DEF Observe, DataOK
<1>2. ASSUME NEW o \in Observations, NEW n \in Names, Propose(o, n) PROVE DataOK'
  <2>. DEFINE c == [subject |-> o, name |-> n, conf |-> 0]
  <2>1. c \in Claims
    BY DEF Claims, Subjects
  <2>. HIDE DEF c
  <2>2. Append(claims, c) \in Seq(Claims)
    BY <2>1, AppendProperties DEF DataOK
  <2>. QED
    BY <1>2, <2>2 DEF Propose, DataOK, c
<1>3. ASSUME NEW i \in DOMAIN claims, NEW conf \in Confidences, Revise(i, conf) PROVE DataOK'
  <2>. DEFINE c == [claims[i] EXCEPT !.conf = conf]
  <2>1. claims \in Seq(Claims) /\ DOMAIN claims = 1..Len(claims)
    BY DEF DataOK
  <2>2. claims[i] \in Claims
    BY <2>1, ElementOfSeq
  <2>3. c \in Claims
    BY <2>2 DEF Claims
  <2>4. claims' = [claims EXCEPT ![i] = c]
    BY <1>3, <2>1 DEF Revise
  <2>. HIDE DEF c
  <2>5. claims' \in Seq(Claims)
    BY <2>1, <2>3, <2>4, ExceptSeq
  <2>. QED
    BY <1>3, <2>5 DEF Revise, DataOK
<1>. QED
  BY <1>1, <1>2, <1>3 DEF Next

\* A frame is captured between two runs, or before the first.
LEMMA CaptureEffect ==
  ASSUME MigrationTypeOK, NEW o \in Observations, Capture(o)
  PROVE  /\ legacy # <<>> /\ ~Running
         /\ UNCHANGED <<claims, margin, kb, legacy, faults>>
         /\ log' \in Seq(Observations) /\ Seen \subseteq Seen'
         /\ script' = Off("never run")
<1>1. log \in Seq(Observations) /\ log' = Append(log, o)
  BY DEF Capture, Observe, MigrationTypeOK, DataOK
<1>2. log' \in Seq(Observations) /\ \A i \in DOMAIN log : i \in DOMAIN log' /\ log'[i] = log[i]
  BY <1>1, AppendProperties
<1>3. Seen \subseteq Seen'
  BY <1>2 DEF Seen
<1>. QED
  BY <1>2, <1>3 DEF Capture, Observe

\* Memory, kb.json and the script keep their types.
LEMMA MigrationTypeStep == MigrationTypeOK /\ [MigrationNext]_allVars => MigrationTypeOK'
<1> SUFFICES ASSUME MigrationTypeOK, [MigrationNext]_allVars PROVE MigrationTypeOK'
  OBVIOUS
<1>l. legacy' = legacy => Ids' = Ids /\ MarginMaps' = MarginMaps /\ Scripts' = Scripts
  BY DEF Ids, MarginMaps, Margins, Scripts
<1>s. ASSUME legacy # <<>>, legacy' = legacy, log' \in Seq(Observations), faults' \in Nat,
             MemoryOK(claims', margin'), MemoryOK(kb'.claims, kb'.margin),
             NEW pc, NEW at, NEW todo, NEW failed, Is(script', pc, at, todo, failed),
             pc = "rivals" => at \in Ids
      PROVE  MigrationTypeOK'
  <2>1. ScriptOK' /\ MemoryOK(claims, margin)' /\ MemoryOK(kb.claims, kb.margin)'
    BY <1>l, <1>s DEF Is, ScriptOK, MemoryOK
  <2>. QED
    BY <1>s, <2>1 DEF MigrationTypeOK, DataOK, MemoryOK
<1>m. legacy # <<>> => /\ MemoryOK(claims, margin) /\ MemoryOK(kb.claims, kb.margin)
                       /\ log \in Seq(Observations) /\ faults \in Nat /\ script \in Scripts
                       /\ script.pc = "rivals" => script.at \in Ids
  BY DEF MigrationTypeOK, DataOK, ScriptOK
<1>1. CASE legacy = <<>> /\ Next /\ UNCHANGED <<margin, kb, script, legacy, faults>>
  BY <1>1, DataStep DEF MigrationTypeOK, Off
<1>2. ASSUME NEW o \in Observations, Capture(o) PROVE MigrationTypeOK'
  <2>1. Is(script', "never run", 0, {}, FALSE)
    BY <1>2, <1>m, CaptureEffect, ScriptEdits
  <2>2. /\ legacy # <<>> /\ UNCHANGED <<claims, margin, kb, legacy, faults>>
        /\ log' \in Seq(Observations)
    BY <1>2, CaptureEffect
  <2>. QED
    BY <1>m, <1>s, <2>1, <2>2
<1>3. CASE Start \/ SkipClaim \/ GateRefuses
  <2>1. legacy # <<>>
    <3>1. CASE Start
      BY <3>1 DEF Start
    <3>2. CASE SkipClaim \/ GateRefuses
      <4>1. script.pc = "claims"
        BY <3>2 DEF SkipClaim, GateRefuses, AtClaim
      <4>. QED
        BY <4>1, RunsOnLegacies
    <3>. QED
      BY <1>3, <3>1, <3>2
  <2>2. UNCHANGED <<log, claims, margin, kb, legacy, faults>>
    BY <1>3 DEF Start, SkipClaim, GateRefuses, vars
  <2>3. script' \in {[Off("claims") EXCEPT !.at = 1], NextClaim, Reported}
    BY <1>3 DEF Start, SkipClaim, GateRefuses
  <2>4. \E at, failed : Is(script', "claims", at, {}, failed)
    BY <1>m, <2>1, <2>3, ScriptEdits
  <2>. QED
    BY <1>m, <1>s, <2>1, <2>2, <2>4
<1>4. CASE Move
  <2>. DEFINE i == script.at
  <2>1. /\ i \in Ids /\ legacy # <<>> /\ log' = log /\ legacy' = legacy
        /\ MemoryOK(claims', margin')
    BY <1>4, MoveEffect DEF MemoryOK
  <2>2. \/ /\ kb' = [claims |-> claims', margin |-> [margin EXCEPT ![i].noted = TRUE]]
           /\ script' = [script EXCEPT !.pc = "rivals", !.todo = RivalsOf(claims', i)]
           /\ faults' = faults
        \/ kb' = kb /\ script' = Reported /\ faults' = faults + 1
    BY <1>4, MoveEffect
  <2>3. MemoryOK(kb'.claims, kb'.margin)
    <3>. DEFINE noted == [margin EXCEPT ![i].noted = TRUE]
                x == [margin[i] EXCEPT !.noted = TRUE]
    <3>0. margin \in MarginMaps /\ margin[i] \in Margins
      BY <1>m, <2>1 DEF MarginMaps, MemoryOK
    <3>1. x \in Margins
      BY <3>0, Zenon DEF Margins
    <3>2. noted = [margin EXCEPT ![i] = x]
      BY <3>0, <2>1 DEF MarginMaps
    <3>. HIDE DEF x
    <3>3. noted \in MarginMaps
      BY <2>1, <3>0, <3>1, <3>2 DEF MarginMaps
    <3>. HIDE DEF noted
    <3>4. MemoryOK(claims', noted)
      BY <2>1, <3>3 DEF MemoryOK
    <3>. QED
      <4>1. CASE kb' = kb
        BY <1>m, <2>1, <4>1
      <4>2. CASE kb' = [claims |-> claims', margin |-> noted]
        BY <3>4, <4>2
      <4>. QED
        BY <2>2, <4>1, <4>2 DEF noted
  <2>4. RivalsOf(claims', i) \in SUBSET Ids
    BY <2>1 DEF RivalsOf, MemoryOK
  <2>5. \E at, todo, failed : \E pc \in {"claims", "rivals"} :
           Is(script', pc, at, todo, failed) /\ (pc = "rivals" => at = i)
    <3>. DEFINE R == RivalsOf(claims', i)
    <3>1. /\ Is([script EXCEPT !.pc = "rivals", !.todo = R], "rivals", i, R, script.failed)
          /\ Is(Reported, "claims", i + 1, {}, TRUE)
      BY <1>m, <2>1, <2>4, ScriptEdits
    <3>2. CASE script' = [script EXCEPT !.pc = "rivals", !.todo = R]
      BY <3>1, <3>2, Zenon
    <3>3. CASE script' = Reported
      BY <3>1, <3>3, "claims" # "rivals"
    <3>. QED
      BY <2>2, <3>2, <3>3
  <2>6. faults' \in Nat
    BY <1>m, <2>1, <2>2
  <2>. QED
    BY <1>m, <1>s, <2>1, <2>3, <2>5, <2>6
<1>f. ASSUME faults \in Nat, Saved \/ SaveFails PROVE faults' \in Nat
  BY <1>f DEF Saved, SaveFails
<1>5. CASE LinkRival
  <2>1. /\ legacy # <<>> /\ UNCHANGED <<log, claims, legacy>> /\ margin' \in MarginMaps
        /\ script.at \in Ids
        /\ Saved \/ SaveFails
    BY <1>5, LinkEffect DEF vars
  <2>2. MemoryOK(claims', margin')
    BY <1>m, <2>1 DEF MemoryOK
  <2>3. MemoryOK(kb'.claims, kb'.margin)
    BY <1>m, <2>1, <2>2 DEF Saved, SaveFails
  <2>4. \E at, todo, failed : \E pc \in {"claims", "rivals"} :
           Is(script', pc, at, todo, failed) /\ (pc = "rivals" => at = script.at)
    <3>1. script.pc = "rivals" /\ script.todo \in SUBSET Ids
      BY <1>5, <1>m, <2>1 DEF LinkRival, Scripts
    <3>2. PICK j \in script.todo : script' \in {[script EXCEPT !.todo = @ \ {j}], Reported}
      BY <1>5, LinkEffect
    <3>3. script.todo \ {j} \in SUBSET Ids
      BY <3>1
    <3>4. [script EXCEPT !.todo = @ \ {j}] = [script EXCEPT !.todo = script.todo \ {j}]
      OBVIOUS
    <3>. QED
      <4>1. Is([script EXCEPT !.todo = script.todo \ {j}], "rivals", script.at, script.todo \ {j},
               script.failed)
        BY <1>m, <2>1, <3>1, <3>3, ScriptEdits
      <4>2. Is(Reported, "claims", script.at + 1, {}, TRUE)
        BY <1>m, <2>1, ScriptEdits
      <4>3. CASE script' = Reported
        BY <4>2, <4>3
      <4>4. CASE script' = [script EXCEPT !.todo = script.todo \ {j}]
        BY <4>1, <4>4
      <4>. QED
        BY <3>2, <3>4, <4>3, <4>4
  <2>. QED
    <3>1. faults' \in Nat
      BY <1>f, <1>m, <2>1
    <3>. QED
      BY <1>m, <1>s, <2>1, <2>2, <2>3, <2>4, <3>1
<1>6. CASE Remember
  <2>1. /\ legacy # <<>> /\ UNCHANGED <<log, claims, legacy>> /\ margin' \in MarginMaps
        /\ Saved \/ SaveFails
        /\ script' \in {NextClaim, Reported}
    BY <1>6, RememberEffect DEF vars
  <2>2. MemoryOK(claims', margin')
    BY <1>m, <2>1 DEF MemoryOK
  <2>3. MemoryOK(kb'.claims, kb'.margin)
    BY <1>m, <2>1, <2>2 DEF Saved, SaveFails
  <2>4. \E at, failed : Is(script', "claims", at, {}, failed)
    BY <1>m, <2>1, ScriptEdits
  <2>. QED
    BY <1>f, <1>m, <1>s, <2>1, <2>2, <2>3, <2>4
<1>7. CASE EndOfRun \/ Killed
  <2>1. /\ legacy # <<>>
        /\ claims' = kb.claims /\ margin' = kb.margin /\ UNCHANGED <<log, kb, legacy>>
        /\ \E how \in {"clean", "failed", "killed"} : script' = Off(how)
    <3>1. script.pc # "never run"
      BY <1>7 DEF EndOfRun, Killed, Running
    <3>. QED
      BY <1>7, <3>1, RunsOnLegacies DEF EndOfRun, Killed, Leave
  <2>2. \E how \in {"clean", "failed", "killed"} : Is(script', how, 0, {}, FALSE)
    BY <1>m, <2>1, ScriptEdits
  <2>3. faults' \in Nat
    BY <1>7, <1>m, <2>1 DEF EndOfRun, Killed
  <2>. QED
    BY <1>m, <1>s, <2>1, <2>2, <2>3
<1>8. CASE UNCHANGED allVars
  BY <1>8, <1>l DEF allVars, vars, MigrationTypeOK, MemoryOK, ScriptOK, DataOK
<1>. QED
  BY <1>1, <1>2, <1>3, <1>4, <1>5, <1>6, <1>7, <1>8 DEF MigrationNext

\* A kb.json of legacy claims, or an empty one.
LEMMA MigrationTypeInitial == MigrationInit => MigrationTypeOK
<1> SUFFICES ASSUME MigrationInit PROVE MigrationTypeOK
  OBVIOUS
<1>1. /\ log = <<>> /\ legacy = claims /\ faults = 0 /\ script = Off("never run")
      /\ kb.claims = claims /\ kb.margin = margin
  BY DEF MigrationInit
<1>2. claims \in Seq(Claims)
  <2>1. claims \in Legacies \cup {<<>>}
    BY DEF MigrationInit
  <2>2. Legacies \subseteq Seq(Claims)
    BY ReAnchorAssumption DEF Claims
  <2>3. <<>> \in Seq(Claims)
    BY EmptySeq
  <2>. QED
    BY <2>1, <2>2, <2>3
<1>3. margin \in MarginMaps
  <2>1. margin = [i \in Ids |-> [rivals |-> RivalsOf(claims, i), noted |-> FALSE, history |-> <<>>]]
    BY <1>1 DEF MigrationInit, Ids
  <2>2. ASSUME NEW i \in Ids
        PROVE  [rivals |-> RivalsOf(claims, i), noted |-> FALSE, history |-> <<>>] \in Margins
    <3>1. RivalsOf(claims, i) \in SUBSET Ids
      BY <1>1 DEF RivalsOf, Ids
    <3>. QED
      BY <3>1 DEF Margins
  <2>. QED
    BY <2>1, <2>2 DEF MarginMaps
<1>4. Off("never run") \in Scripts /\ Off("never run").pc = "never run"
  BY DEF Off, Scripts, Stages
<1>5. log \in Seq(Observations)
  BY <1>1, EmptySeq
<1>6. faults \in Nat
  BY <1>1
<1>. QED
  BY <1>1, <1>2, <1>3, <1>4, <1>5, <1>6 DEF MigrationTypeOK, DataOK, MemoryOK, ScriptOK, Ids

-----------------------------------------------------------------------------
(* Whatever fails, every claim is kept.                                      *)

\* A claim is what it was, under its old subject or one that was seen.
Kept(seen, old, claim, more) ==
    /\ claim.name = old.name /\ claim.conf = old.conf
    /\ \/ claim.subject = old.subject
       \/ claim.subject \in seen /\ OldKey(claim.subject) = old.subject /\ more.noted

KeptInv ==
    \A i \in Ids : /\ Kept(Seen, legacy[i], claims[i], margin[i])
                   /\ Kept(Seen, legacy[i], kb.claims[i], kb.margin[i])

\* It is still kept when more was seen, or when something else is written to it.
LEMMA KeptOn ==
  ASSUME NEW S, NEW T, S \subseteq T, NEW old, NEW claim, NEW m, NEW n,
         m.noted => n.noted, Kept(S, old, claim, m)
  PROVE  Kept(T, old, claim, n)
  BY DEF Kept

\* Every step keeps the claims, in memory and in kb.json.
LEMMA KeptStep == MigrationTypeOK /\ KeptInv /\ [MigrationNext]_allVars => KeptInv'
<1> SUFFICES ASSUME MigrationTypeOK, KeptInv, [MigrationNext]_allVars PROVE KeptInv'
  OBVIOUS
<1>i. ASSUME legacy' = legacy, Seen \subseteq Seen',
             \A i \in Ids : /\ Kept(Seen, legacy[i], claims'[i], margin'[i])
                            /\ Kept(Seen, legacy[i], kb'.claims[i], kb'.margin[i])
      PROVE  KeptInv'
  <2>1. Ids' = Ids
    BY <1>i DEF Ids
  <2>. QED
    BY <1>i, <2>1, KeptOn DEF KeptInv
<1>s. log' = log => Seen \subseteq Seen'
  BY DEF Seen
<1>1. CASE legacy = <<>> /\ legacy' = legacy
  <2>1. Ids = {}
    BY <1>1 DEF Ids
  <2>. QED
    BY <1>1, <1>i, <2>1 DEF KeptInv, Ids
<1>2. ASSUME NEW o \in Observations, Capture(o) PROVE KeptInv'
  BY <1>2, <1>i, CaptureEffect DEF KeptInv
<1>3. CASE Start \/ SkipClaim \/ GateRefuses \/ UNCHANGED allVars
  <2>1. UNCHANGED <<log, claims, margin, kb, legacy>>
    BY <1>3 DEF Start, SkipClaim, GateRefuses, vars, allVars
  <2>. QED
    BY <1>i, <1>s, <2>1 DEF KeptInv
<1>4. CASE Move
  <2>. DEFINE i == script.at
  <2>1. /\ i \in Ids /\ legacy' = legacy /\ log' = log /\ legacy # <<>>
        /\ Stranded(claims[i]) /\ claims[i].subject \in Producible
        /\ \A j \in Ids : j # i => claims'[j] = claims[j] /\ margin'[j] = margin[j]
        /\ claims'[i].subject = NewSubject(claims[i].subject)
        /\ claims'[i].name = claims[i].name /\ claims'[i].conf = claims[i].conf
        /\ margin'[i].noted
    BY <1>4, MoveEffect
  <2>2. claims[i].subject = legacy[i].subject
    BY <2>1 DEF KeptInv, Kept, Stranded
  <2>3. Kept(Seen, legacy[i], claims'[i], margin'[i])
    <3>1. /\ claims'[i].subject \in Seen
          /\ OldKey(claims'[i].subject) = legacy[i].subject
      BY <2>1, <2>2, NewSubjectIs DEF MigrationTypeOK, DataOK
    <3>2. claims'[i].name = legacy[i].name /\ claims'[i].conf = legacy[i].conf
      BY <2>1 DEF KeptInv, Kept
    <3>. QED
      BY <2>1, <3>1, <3>2 DEF Kept
  <2>4. \A j \in Ids : Kept(Seen, legacy[j], claims'[j], margin'[j])
    BY <2>1, <2>3 DEF KeptInv
  <2>5. \A j \in Ids : Kept(Seen, legacy[j], kb'.claims[j], kb'.margin[j])
    <3>1. CASE kb' = kb
      BY <3>1 DEF KeptInv
    <3>2. CASE kb' = [claims |-> claims', margin |-> [margin EXCEPT ![i].noted = TRUE]]
      <4>1. margin \in [Ids -> Margins]
        BY <2>1 DEF MigrationTypeOK, MemoryOK, MarginMaps
      <4>2. /\ kb'.claims = claims' /\ kb'.margin[i].noted
            /\ \A j \in Ids : j # i => kb'.margin[j] = margin[j]
        BY <2>1, <3>2, <4>1 DEF Margins
      <4>3. \A j \in Ids : margin'[j].noted => kb'.margin[j].noted
        BY <2>1, <4>2
      <4>. QED
        BY <2>4, <4>2, <4>3, KeptOn
    <3>. QED
      BY <1>4, <3>1, <3>2, MoveEffect
  <2>. QED
    BY <1>i, <1>s, <2>1, <2>4, <2>5
<1>5. CASE LinkRival \/ Remember
  <2>1. /\ legacy' = legacy /\ log' = log /\ claims' = claims
        /\ \A j \in Ids : margin'[j].noted = margin[j].noted
        /\ Saved \/ SaveFails
    BY <1>5, LinkEffect, RememberEffect DEF vars
  <2>2. \A j \in Ids : Kept(Seen, legacy[j], claims'[j], margin'[j])
    BY <2>1, KeptOn DEF KeptInv
  <2>3. \A j \in Ids : Kept(Seen, legacy[j], kb'.claims[j], kb'.margin[j])
    BY <2>1, <2>2 DEF KeptInv, Saved, SaveFails
  <2>. QED
    BY <1>i, <1>s, <2>1, <2>2, <2>3
<1>6. CASE EndOfRun \/ Killed
  <2>1. claims' = kb.claims /\ margin' = kb.margin /\ UNCHANGED <<log, kb, legacy>>
    BY <1>6 DEF EndOfRun, Killed, Leave
  <2>. QED
    BY <1>i, <1>s, <2>1 DEF KeptInv
<1>. QED
  BY <1>1, <1>2, <1>3, <1>4, <1>5, <1>6 DEF MigrationNext

\* They are kept in the beginning.
LEMMA KeptInitial == MigrationInit => KeptInv
<1> SUFFICES ASSUME MigrationInit PROVE KeptInv
  OBVIOUS
<1>1. legacy = claims /\ kb.claims = claims
  BY DEF MigrationInit
<1>. QED
  BY <1>1 DEF KeptInv, Kept

\* Memory, kb.json and the script keep their types, for all legacy claims.
THEOREM MigrationTypeCorrect == MigrationSpec => []MigrationTypeOK
  BY MigrationTypeInitial, MigrationTypeStep, PTL DEF MigrationSpec

\* Whatever fails and however often the script is killed and run again: kb.json
\* keeps every claim with its name and its confidence, under its old subject or
\* one that a frame with the old key has, and a moved claim says so.
THEOREM ClaimsSurviveMigration == MigrationSpec => []ClaimsKept
<1>1. KeptInv => ClaimsKept
  BY DEF KeptInv, Kept, ClaimsKept, Ids
<1>2. MigrationSpec => []KeptInv
  BY MigrationTypeInitial, MigrationTypeStep, KeptInitial, KeptStep, PTL DEF MigrationSpec
<1>. QED
  BY <1>1, <1>2, PTL

-----------------------------------------------------------------------------
(* How far a run has come.                                                   *)

\* Between two runs kb.json is what is in memory, and so it is between two
\* claims of a run that has no failure to report, or has met only refusals.
SavedInv ==
    legacy # <<>> /\ (~Running \/ (script.pc = "claims" /\ (~script.failed \/ faults = 0)))
       => kb.claims = claims /\ kb.margin = margin

\* The run, which has no failure to report so far, is done with claim i.
Done(i) == IF Running
           THEN /\ ~script.failed
                /\ i < script.at \/ (script.pc = "rivals" /\ i = script.at)
           ELSE script.pc = "clean"

\* It leaves none behind.
DoneInv ==
    \A i \in Ids : Done(i) => ~(Stranded(claims[i]) /\ claims[i].subject \in Producible)

\* How each step of a run ends.
LEMMA ScriptStep ==
  ASSUME MigrationTypeOK
  PROVE  /\ Start => Is(script', "claims", 1, {}, FALSE)
         /\ SkipClaim => Is(script', "claims", script.at + 1, {}, script.failed)
         /\ GateRefuses => Is(script', "claims", script.at + 1, {}, TRUE)
         /\ Move => \/ /\ Is(script', "rivals", script.at, RivalsOf(claims', script.at), script.failed)
                       /\ faults' = faults
                    \/ /\ Is(script', "claims", script.at + 1, {}, TRUE)
                       /\ faults' # 0
         /\ LinkRival => \/ \E R \in SUBSET Ids :
                               Is(script', "rivals", script.at, R, script.failed)
                         \/ /\ Is(script', "claims", script.at + 1, {}, TRUE)
                            /\ faults' # 0
         /\ Remember => \/ /\ Is(script', "claims", script.at + 1, {}, script.failed)
                           /\ Saved
                        \/ /\ Is(script', "claims", script.at + 1, {}, TRUE)
                           /\ faults' # 0
<1>s. legacy # <<>> => script \in Scripts
  BY DEF MigrationTypeOK, ScriptOK
<1>l. SkipClaim \/ GateRefuses \/ Move \/ LinkRival \/ Remember \/ Start => legacy # <<>>
  <2>1. SkipClaim \/ GateRefuses \/ Move \/ LinkRival \/ Remember => script.pc # "never run"
    BY DEF SkipClaim, GateRefuses, Move, LinkRival, Remember, AtClaim
  <2>. QED
    BY <2>1, RunsOnLegacies DEF Start
<1>n. faults \in Nat /\ \A n \in Nat : n + 1 # 0
  <2>1. faults \in Nat
    BY DEF MigrationTypeOK
  <2>2. \A n \in Nat : n + 1 # 0
    OBVIOUS
  <2>. QED
    BY <2>1, <2>2
<1>f. SaveFails => faults' # 0
  <2>1. SaveFails => faults' = faults + 1
    BY DEF SaveFails
  <2>. QED
    BY ONLY <1>n, <2>1
<1>1. Start => Is(script', "claims", 1, {}, FALSE)
  BY <1>l, <1>s, ScriptEdits DEF Start
<1>2. SkipClaim => Is(script', "claims", script.at + 1, {}, script.failed)
  BY <1>l, <1>s, ScriptEdits DEF SkipClaim
<1>3. GateRefuses => Is(script', "claims", script.at + 1, {}, TRUE)
  BY <1>l, <1>s, ScriptEdits DEF GateRefuses
<1>4. ASSUME Move
      PROVE  \/ /\ Is(script', "rivals", script.at, RivalsOf(claims', script.at), script.failed)
                /\ faults' = faults
             \/ /\ Is(script', "claims", script.at + 1, {}, TRUE)
                /\ faults' # 0
  <2>. DEFINE R == RivalsOf(claims', script.at)
  <2>1. script \in Scripts /\ R \in SUBSET Ids
    BY <1>4, <1>l, <1>s, MoveEffect DEF RivalsOf
  <2>2. \/ script' = [script EXCEPT !.pc = "rivals", !.todo = R] /\ faults' = faults
        \/ script' = Reported /\ faults' = faults + 1
    BY <1>4, MoveEffect
  <2>3. faults' = faults + 1 => faults' # 0
    BY ONLY <1>n
  <2>. HIDE DEF R
  <2>4. /\ Is([script EXCEPT !.pc = "rivals", !.todo = R], "rivals", script.at, R, script.failed)
        /\ Is(Reported, "claims", script.at + 1, {}, TRUE)
    BY <2>1, ScriptEdits
  <2>5. \/ Is(script', "rivals", script.at, R, script.failed) /\ faults' = faults
        \/ Is(script', "claims", script.at + 1, {}, TRUE) /\ faults' # 0
    <3>1. CASE script' = [script EXCEPT !.pc = "rivals", !.todo = R] /\ faults' = faults
      BY <2>4, <3>1
    <3>2. CASE script' = Reported /\ faults' = faults + 1
      BY <2>3, <2>4, <3>2
    <3>. QED
      BY <2>2, <3>1, <3>2
  <2>. QED
    BY <2>5 DEF R
<1>5. ASSUME LinkRival
      PROVE  \/ \E R \in SUBSET Ids : Is(script', "rivals", script.at, R, script.failed)
             \/ Is(script', "claims", script.at + 1, {}, TRUE) /\ faults' # 0
  <2>1. script \in Scripts /\ script.pc = "rivals" /\ script.todo \in SUBSET Ids
    BY <1>5, <1>l, <1>s DEF LinkRival, Scripts
  <2>2. PICK j \in script.todo : \/ script' = [script EXCEPT !.todo = @ \ {j}]
                                 \/ SaveFails /\ script' = Reported
    BY <1>5, LinkEffect
  <2>. DEFINE R == script.todo \ {j}
  <2>3. R \in SUBSET Ids /\ (script' = [script EXCEPT !.todo = R] \/ (SaveFails /\ script' = Reported))
    BY <2>1, <2>2
  <2>. HIDE DEF R
  <2>4. /\ Is([script EXCEPT !.todo = R], "rivals", script.at, R, script.failed)
        /\ Is(Reported, "claims", script.at + 1, {}, TRUE)
    BY <2>1, <2>3, ScriptEdits
  <2>5. CASE script' = [script EXCEPT !.todo = R]
    BY <2>3, <2>4, <2>5
  <2>6. CASE SaveFails /\ script' = Reported
    BY <1>f, <2>4, <2>6
  <2>. QED
    BY <2>3, <2>5, <2>6
<1>6. ASSUME Remember
      PROVE  \/ Is(script', "claims", script.at + 1, {}, script.failed) /\ Saved
             \/ Is(script', "claims", script.at + 1, {}, TRUE) /\ faults' # 0
  <2>1. /\ Is(NextClaim, "claims", script.at + 1, {}, script.failed)
        /\ Is(Reported, "claims", script.at + 1, {}, TRUE)
    BY <1>6, <1>l, <1>s, ScriptEdits
  <2>2. \/ Saved /\ script' = NextClaim
        \/ SaveFails /\ script' = Reported
    BY <1>6, RememberEffect
  <2>3. CASE Saved /\ script' = NextClaim
    BY <2>1, <2>3
  <2>4. CASE SaveFails /\ script' = Reported
    BY <1>f, <2>1, <2>4
  <2>. QED
    BY <2>2, <2>3, <2>4
<1>. QED
  BY <1>1, <1>2, <1>3, <1>4, <1>5, <1>6

\* What is saved between two steps.
LEMMA SavedStep == MigrationTypeOK /\ SavedInv /\ [MigrationNext]_allVars => SavedInv'
<1> SUFFICES ASSUME MigrationTypeOK, SavedInv, [MigrationNext]_allVars PROVE SavedInv'
  OBVIOUS
<1>1. CASE legacy = <<>> /\ legacy' = legacy
  BY <1>1 DEF SavedInv
<1>2. ASSUME NEW o \in Observations, Capture(o) PROVE SavedInv'
  BY <1>2, CaptureEffect DEF SavedInv
<1>3. CASE Start
  BY <1>3 DEF SavedInv, Start, vars
<1>4. CASE SkipClaim
  <2>1. Is(script', "claims", script.at + 1, {}, script.failed) /\ script.pc = "claims"
    BY <1>4, ScriptStep DEF SkipClaim, AtClaim
  <2>. QED
    BY <1>4, <2>1 DEF SavedInv, SkipClaim, vars, Is, Running
<1>5. CASE GateRefuses
  <2>1. Is(script', "claims", script.at + 1, {}, TRUE) /\ script.pc = "claims"
    BY <1>5, ScriptStep DEF GateRefuses, AtClaim
  <2>. QED
    BY <1>5, <2>1 DEF SavedInv, GateRefuses, vars, Is, Running
<1>6. CASE Move \/ LinkRival \/ Remember
  <2>1. CASE script'.pc = "rivals"
    BY <2>1 DEF SavedInv, Running
  <2>2. CASE Is(script', "claims", script.at + 1, {}, TRUE) /\ faults' # 0
    BY <2>2 DEF SavedInv, Running, Is
  <2>3. CASE Saved
    BY <2>3 DEF Saved, SavedInv
  <2>. QED
    BY <1>6, <2>1, <2>2, <2>3, ScriptStep DEF Is
<1>7. CASE EndOfRun \/ Killed
  BY <1>7 DEF EndOfRun, Killed, Leave, SavedInv
<1>8. CASE UNCHANGED allVars
  BY <1>8 DEF allVars, vars, SavedInv, Running
<1>. QED
  BY <1>1, <1>2, <1>3, <1>4, <1>5, <1>6, <1>7, <1>8 DEF MigrationNext

\* Nothing is left behind by a run that reports no failure.
LEMMA DoneStep ==
  ASSUME MigrationTypeOK, SavedInv, DoneInv, [MigrationNext]_allVars
  PROVE  DoneInv'
<1>l. legacy' = legacy => Ids' = Ids
  BY DEF Ids
<1>i. ASSUME legacy' = legacy, log' = log,
             \A i \in Ids : Done(i)' => \/ claims'[i].subject \in Seen
                                        \/ ~(Stranded(claims'[i]) /\ claims'[i].subject \in Producible)
      PROVE  DoneInv'
  <2>1. Seen' = Seen /\ Producible' = Producible
    BY <1>i DEF Seen, Producible
  <2>. QED
    BY <1>i, <1>l, <2>1 DEF DoneInv, Stranded
<1>t. /\ legacy # <<>> => DOMAIN claims = Ids /\ script.at \in Nat /\ Len(claims) \in Nat
                          /\ DOMAIN claims = 1..Len(claims)
      /\ legacy = <<>> => Ids = {}
      /\ \A i \in Ids : i \in Nat /\ i >= 1
  <2>1. legacy = <<>> => Ids = {}
    BY DEF Ids
  <2>2. \A i \in Ids : i \in Nat /\ i >= 1
    <3>1. legacy \in Seq(Claims)
      BY DEF MigrationTypeOK
    <3>. QED
      BY <3>1, LenProperties DEF Ids
  <2>3. ASSUME legacy # <<>>
        PROVE  /\ DOMAIN claims = Ids /\ script.at \in Nat /\ Len(claims) \in Nat
               /\ DOMAIN claims = 1..Len(claims)
    <3>1. MemoryOK(claims, margin) /\ ScriptOK
      BY <2>3 DEF MigrationTypeOK
    <3>2. script.at \in Nat
      BY <3>1 DEF ScriptOK, Scripts
    <3>3. claims \in Seq(Claims) /\ DOMAIN claims = Ids
      BY <3>1 DEF MemoryOK
    <3>. QED
      BY <3>2, <3>3, LenProperties
  <2>. QED
    BY <2>1, <2>2, <2>3
<1>1. CASE legacy = <<>> /\ legacy' = legacy
  BY <1>1, <1>l, <1>t DEF DoneInv
<1>2. ASSUME NEW o \in Observations, Capture(o) PROVE DoneInv'
  <2>1. script' = Off("never run")
    BY <1>2, CaptureEffect
  <2>. QED
    BY <2>1 DEF DoneInv, Done, Running, Off
<1>3. CASE Start
  <2>1. Is(script', "claims", 1, {}, FALSE)
    BY <1>3, ScriptStep
  <2>2. \A i \in Ids : ~Done(i)'
    BY <1>t, <2>1 DEF Done, Running, Is
  <2>. QED
    BY <1>3, <1>i, <2>2 DEF Start, vars
<1>4. CASE SkipClaim
  <2>1. Is(script', "claims", script.at + 1, {}, script.failed) /\ script.pc = "claims"
    BY <1>4, ScriptStep DEF SkipClaim, AtClaim
  <2>2. legacy # <<>>
    BY <2>1, RunsOnLegacies
  <2>3. ~(Stranded(claims[script.at]) /\ claims[script.at].subject \in Producible)
    BY <1>4 DEF SkipClaim, Movable
  <2>4. \A i \in Ids : Done(i)' => Done(i) \/ i = script.at
    BY <1>t, <2>1, <2>2 DEF Done, Running, Is
  <2>. QED
    BY <1>4, <1>i, <2>3, <2>4 DEF SkipClaim, vars, DoneInv
<1>5. ASSUME script'.failed, script'.pc = "claims" PROVE DoneInv'
  BY <1>5 DEF DoneInv, Done, Running
<1>6. CASE Move /\ Is(script', "rivals", script.at, RivalsOf(claims', script.at), script.failed)
  <2>1. script.pc = "claims"
    BY <1>6 DEF Move, AtClaim
  <2>2. legacy # <<>>
    BY <2>1, RunsOnLegacies
  <2>3. \A i \in Ids : Done(i)' => Done(i) \/ i = script.at
    BY <1>6, <1>t, <2>1, <2>2 DEF Done, Running, Is
  <2>4. /\ legacy' = legacy /\ log' = log
        /\ claims[script.at].subject \in Producible
        /\ claims'[script.at].subject = NewSubject(claims[script.at].subject)
        /\ \A j \in Ids : j # script.at => claims'[j] = claims[j]
    BY <1>6, MoveEffect
  <2>5. claims'[script.at].subject \in Seen
    BY <2>4, NewSubjectIs DEF MigrationTypeOK, DataOK
  <2>. QED
    BY <1>i, <2>3, <2>4, <2>5 DEF DoneInv
<1>7. CASE LinkRival \/ (Remember /\ Is(script', "claims", script.at + 1, {}, script.failed))
  <2>1. script.pc = "rivals"
    BY <1>7 DEF LinkRival, Remember
  <2>2. legacy # <<>>
    BY <2>1, RunsOnLegacies
  <2>3. UNCHANGED <<log, claims, legacy>>
    BY <1>7, LinkEffect, RememberEffect DEF vars
  <2>4. \/ script'.failed /\ script'.pc = "claims"
        \/ \E R \in SUBSET Ids : Is(script', "rivals", script.at, R, script.failed)
        \/ Is(script', "claims", script.at + 1, {}, script.failed)
    BY <1>7, ScriptStep DEF Is
  <2>5. \A i \in Ids : Done(i)' => Done(i)
    BY <1>t, <2>1, <2>2, <2>4 DEF Done, Running, Is
  <2>. QED
    BY <1>i, <2>3, <2>5 DEF DoneInv
<1>8. CASE EndOfRun
  <2>1. script.pc = "claims" /\ script.at > Len(claims)
    BY <1>8 DEF EndOfRun
  <2>2. legacy # <<>>
    BY <2>1, RunsOnLegacies
  <2>3. /\ script' = Off(IF script.failed THEN "failed" ELSE "clean")
        /\ claims' = kb.claims /\ UNCHANGED <<log, legacy>>
    BY <1>8 DEF EndOfRun, Leave
  <2>4. CASE script.failed
    BY <2>3, <2>4 DEF DoneInv, Done, Running, Off
  <2>5. CASE ~script.failed
    <3>1. claims' = claims
      BY <2>1, <2>2, <2>3, <2>5 DEF SavedInv
    <3>2. \A i \in Ids : Done(i)
      BY <1>t, <2>1, <2>2, <2>5 DEF Done, Running
    <3>. QED
      BY <1>i, <2>3, <3>1, <3>2 DEF DoneInv
  <2>. QED
    BY <2>4, <2>5
<1>9. CASE Killed
  BY <1>9 DEF Killed, Leave, DoneInv, Done, Running, Off
<1>10. CASE UNCHANGED allVars
  <2>1. \A i \in Ids : Done(i)' => Done(i)
    BY <1>10 DEF allVars, Done, Running
  <2>. QED
    BY <1>10, <1>i, <2>1 DEF allVars, vars, DoneInv
<1>11. CASE GateRefuses \/ Move \/ Remember
  BY <1>5, <1>6, <1>7, <1>11, ScriptStep DEF Is
<1>. QED
  BY <1>1, <1>2, <1>3, <1>4, <1>7, <1>8, <1>9, <1>10, <1>11 DEF MigrationNext

\* Nothing has been moved in the beginning, and all is saved.
LEMMA RunInitial == MigrationInit => SavedInv /\ DoneInv
<1> SUFFICES ASSUME MigrationInit PROVE SavedInv /\ DoneInv
  OBVIOUS
<1>1. /\ script.pc = "never run"
      /\ kb.claims = claims /\ kb.margin = margin
  BY DEF MigrationInit, Off
<1>. QED
  BY <1>1 DEF SavedInv, DoneInv, Done, Running

-----------------------------------------------------------------------------
(* Without kills and failing saves everything is recorded.                   *)

Linking == script.pc = "rivals"

\* A claim that is where it stays, unless new frames are captured.
Settled(i) == claims[i].subject # legacy[i].subject \/ legacy[i].subject \notin Producible

\* The rivals that a claim is still to be told of, by the call of save_claim
\* that is under way.
Awaited(i) == IF Linking /\ i \in script.todo THEN {script.at} ELSE {}

RightRivals(i) == Settled(i) => margin[i].rivals \cup Awaited(i) = RivalsOf(claims, i)

RightHistory(i) ==
    margin[i].history = IF claims[i].subject = legacy[i].subject \/ (Linking /\ i = script.at)
                        THEN <<>> ELSE <<legacy[i].subject>>

\* The claim at hand has been moved, and is no rival of its own.
AtMoved == Linking => /\ claims[script.at].subject # legacy[script.at].subject
                      /\ script.at \notin script.todo

RecordInv ==
    faults = 0 => /\ \A i \in Ids : RightRivals(i) /\ RightHistory(i)
                  /\ AtMoved

\* Nothing is left to be told between two claims.
LEMMA NothingAwaited == ~Linking => \A i \in Ids : Awaited(i) = {}
  BY DEF Awaited

\* Who has a claim for a rival is one of its rivals.
LEMMA RivalsMutual ==
  ASSUME NEW cs, NEW i \in DOMAIN cs, NEW j \in DOMAIN cs, i \in RivalsOf(cs, j)
  PROVE  j \in RivalsOf(cs, i)
  BY DEF RivalsOf

\* A claim that is settled has no rival among those that are about to be moved.
LEMMA SettledApart ==
  ASSUME MigrationTypeOK, KeptInv, legacy # <<>>,
         NEW i \in Ids, Stranded(claims[i]), claims[i].subject \in Producible,
         NEW j \in Ids, Settled(j)
  PROVE  claims[j].subject # claims[i].subject
<1>1. Kept(Seen, legacy[j], claims[j], margin[j])
  BY DEF KeptInv
<1>2. CASE claims[j].subject = legacy[j].subject
  BY <1>2 DEF Settled
<1>3. CASE claims[j].subject # legacy[j].subject
  BY <1>1, <1>3 DEF Kept, Stranded
<1>. QED
  BY <1>2, <1>3

\* What a step leaves as it was is as it was.
LEMMA RecordsStay ==
  ASSUME MigrationTypeOK, RecordInv, UNCHANGED <<claims, margin, legacy>>, faults' = faults,
         ~Linking, ~Linking', Producible \subseteq Producible'
  PROVE  RecordInv'
<1>1. Ids' = Ids
  BY DEF Ids
<1>2. ASSUME faults = 0, NEW i \in Ids PROVE RightRivals(i)' /\ RightHistory(i)'
  <2>1. Awaited(i) = {} /\ Awaited(i)' = {}
    BY DEF Awaited
  <2>2. RightRivals(i) /\ RightHistory(i)
    BY <1>2 DEF RecordInv
  <2>3. RivalsOf(claims, i)' = RivalsOf(claims, i)
    BY DEF RivalsOf
  <2>. QED
    BY <2>1, <2>2, <2>3 DEF RightRivals, RightHistory, Settled
<1>. QED
  BY <1>1, <1>2 DEF RecordInv, AtMoved

\* A saved move.
LEMMA RecordsMove ==
  ASSUME MigrationTypeOK, KeptInv, RecordInv, Move, faults' = faults,
         Is(script', "rivals", script.at, RivalsOf(claims', script.at), script.failed)
  PROVE  RecordInv'
<1>. DEFINE i == script.at
            R == RivalsOf(claims', i)
<1>1. /\ i \in Ids /\ legacy # <<>> /\ log' = log /\ legacy' = legacy
      /\ Stranded(claims[i]) /\ claims[i].subject \in Producible
      /\ DOMAIN claims' = Ids
      /\ \A j \in Ids : j # i => claims'[j] = claims[j] /\ margin'[j] = margin[j]
      /\ claims'[i].subject = NewSubject(claims[i].subject)
      /\ claims'[i].name = claims[i].name
      /\ margin'[i].history = margin[i].history
  BY MoveEffect
<1>2. faults = 0 => margin'[i].rivals = R
  <2>2. script'.pc = "rivals" /\ (script' = Reported => script'.pc = "claims")
    <3>1. script \in Scripts
      BY <1>1 DEF MigrationTypeOK, ScriptOK
    <3>. QED
      BY <3>1, ScriptEdits DEF Is
  <2>. QED
    BY <2>2, MoveEffect
<1>3. ~Linking /\ Linking' /\ script'.at = i /\ script'.todo = R
  BY DEF Linking, Move, AtClaim, Is
<1>4. DOMAIN claims = Ids /\ Ids' = Ids
  BY <1>1 DEF MigrationTypeOK, MemoryOK, Ids
<1>5. i \notin R
  BY <1>1 DEF RivalsOf
<1>6. claims'[i].subject \in Seen /\ claims[i].subject = legacy[i].subject
  <2>1. claims'[i].subject \in Seen
    BY <1>1, NewSubjectIs DEF MigrationTypeOK, DataOK
  <2>2. claims[i].subject = legacy[i].subject
    BY <1>1 DEF KeptInv, Kept, Stranded
  <2>. QED
    BY <2>1, <2>2
<1>7. claims'[i].subject # legacy[i].subject
  BY <1>1, <1>6 DEF Stranded
<1>8. AtMoved'
  BY <1>1, <1>3, <1>5, <1>7 DEF AtMoved
<1>9. ASSUME faults = 0, NEW j \in Ids PROVE RightRivals(j)' /\ RightHistory(j)'
  <2>0. RightRivals(j) /\ RightHistory(j) /\ Awaited(j) = {}
    BY <1>3, <1>9 DEF RecordInv, Awaited
  <2>1. CASE j = i
    <3>1. Awaited(j)' = {}
      BY <1>3, <1>5, <2>1 DEF Awaited
    <3>2. RightRivals(j)'
      BY <1>2, <1>9, <2>1, <3>1 DEF RightRivals
    <3>3. RightHistory(j)'
      BY <1>1, <1>3, <1>6, <2>0, <2>1 DEF RightHistory
    <3>. QED
      BY <3>2, <3>3
  <2>2. CASE j # i
    <3>1. claims'[j] = claims[j] /\ margin'[j] = margin[j]
      BY <1>1, <2>2
    <3>2. RightHistory(j)'
      BY <1>1, <1>3, <2>0, <2>2, <3>1 DEF RightHistory
    <3>3. Settled(j)' <=> Settled(j)
      BY <1>1, <3>1 DEF Settled, Producible, Seen
    <3>4. ASSUME Settled(j) PROVE margin'[j].rivals \cup Awaited(j)' = RivalsOf(claims', j)
      <4>1. margin[j].rivals = RivalsOf(claims, j)
        BY <2>0, <3>4 DEF RightRivals
      <4>2. claims[j].subject # claims[i].subject
        BY <1>1, <3>4, SettledApart
      <4>3. i \notin RivalsOf(claims, j)
        BY <4>2 DEF RivalsOf
      <4>4. \A k \in Ids : k # i => (k \in RivalsOf(claims', j) <=> k \in RivalsOf(claims, j))
        BY <1>1, <1>4, <3>1 DEF RivalsOf
      <4>5. i \in RivalsOf(claims', j) <=> j \in R
        BY <1>1 DEF RivalsOf
      <4>6. RivalsOf(claims', j) \subseteq Ids /\ RivalsOf(claims, j) \subseteq Ids
        BY <1>1, <1>4 DEF RivalsOf
      <4>7. Awaited(j)' = IF j \in R THEN {i} ELSE {}
        BY <1>3 DEF Awaited
      <4>8. RivalsOf(claims', j) = RivalsOf(claims, j) \cup (IF j \in R THEN {i} ELSE {})
        BY <1>1, <4>3, <4>4, <4>5, <4>6
      <4>. QED
        BY <3>1, <4>1, <4>7, <4>8
    <3>. QED
      BY <3>2, <3>3, <3>4 DEF RightRivals
  <2>. QED
    BY <2>1, <2>2
<1>. QED
  BY <1>4, <1>8, <1>9 DEF RecordInv

\* A rival that has been told.
LEMMA RecordsLink ==
  ASSUME MigrationTypeOK, RecordInv, LinkRival, faults' = 0, faults = 0
  PROVE  RecordInv'
<1>1. /\ legacy # <<>> /\ UNCHANGED <<vars, legacy>> /\ script.at \in Ids
      /\ script \in Scripts /\ script.todo \in SUBSET Ids
  BY LinkEffect DEF MigrationTypeOK, ScriptOK, Scripts
<1>f. ~SaveFails
  <2>1. \A n \in Nat : n + 1 # 0
    OBVIOUS
  <2>2. faults \in Nat
    BY DEF MigrationTypeOK
  <2>3. SaveFails => faults' = faults + 1
    BY DEF SaveFails
  <2>. QED
    BY <2>1, <2>2, <2>3
<1>2. PICK j \in script.todo :
         /\ j \in Ids
         /\ \A k \in Ids : k # j => margin'[k] = margin[k]
         /\ margin'[j].rivals = margin[j].rivals \cup {script.at}
         /\ margin'[j].history = margin[j].history
         /\ script' = [script EXCEPT !.todo = @ \ {j}]
  BY <1>f, LinkEffect
<1>3. /\ Linking /\ script'.pc = "rivals" /\ script'.at = script.at
      /\ script'.todo = script.todo \ {j}
  BY <1>1, <1>2 DEF LinkRival, Linking, Scripts
<1>4. Ids' = Ids /\ claims' = claims /\ Linking' /\ log' = log
  BY <1>1, <1>3 DEF Ids, vars, Linking
<1>5. ASSUME NEW i \in Ids PROVE RightRivals(i)' /\ RightHistory(i)'
  <2>0. RightRivals(i) /\ RightHistory(i)
    BY DEF RecordInv
  <2>1. margin'[i].history = margin[i].history
    BY <1>2
  <2>2. RightHistory(i)'
    BY <1>1, <1>3, <1>4, <2>0, <2>1 DEF RightHistory
  <2>3. margin'[i].rivals \cup Awaited(i)' = margin[i].rivals \cup Awaited(i)
    <3>1. CASE i = j
      BY <1>2, <1>3, <1>4, <3>1 DEF Awaited
    <3>2. CASE i # j
      BY <1>2, <1>3, <1>4, <3>2 DEF Awaited
    <3>. QED
      BY <3>1, <3>2
  <2>4. RivalsOf(claims', i) = RivalsOf(claims, i) /\ (Settled(i)' <=> Settled(i))
    BY <1>1, <1>4 DEF RivalsOf, Settled, Producible, Seen
  <2>. QED
    BY <2>0, <2>2, <2>3, <2>4 DEF RightRivals
<1>6. AtMoved'
  BY <1>1, <1>3, <1>4 DEF AtMoved, RecordInv
<1>. QED
  BY <1>4, <1>5, <1>6 DEF RecordInv

\* The entry in the history.
LEMMA RecordsRemember ==
  ASSUME MigrationTypeOK, RecordInv, Remember, faults' = faults, faults = 0,
         Is(script', "claims", script.at + 1, {}, script.failed)
  PROVE  RecordInv'
<1>. DEFINE i == script.at
<1>1. /\ legacy # <<>> /\ i \in Ids /\ UNCHANGED <<vars, legacy>>
      /\ \A k \in Ids : k # i => margin'[k] = margin[k]
      /\ margin'[i].history = Append(margin[i].history, legacy[i].subject)
      /\ margin'[i].rivals = margin[i].rivals
  BY RememberEffect
<1>2. Linking /\ script.todo = {} /\ ~Linking'
  BY DEF Remember, Linking, Is
<1>3. Ids' = Ids /\ claims' = claims /\ log' = log
  BY <1>1 DEF Ids, vars
<1>4. ASSUME NEW k \in Ids PROVE RightRivals(k)'
  <2>1. RightRivals(k) /\ Awaited(k) = {} /\ Awaited(k)' = {}
    BY <1>2 DEF RecordInv, Awaited
  <2>2. margin'[k].rivals = margin[k].rivals
    BY <1>1
  <2>3. RivalsOf(claims', k) = RivalsOf(claims, k) /\ (Settled(k)' <=> Settled(k))
    BY <1>1, <1>3 DEF RivalsOf, Settled, Producible, Seen
  <2>. QED
    BY <2>1, <2>2, <2>3 DEF RightRivals
<1>5. ASSUME NEW k \in Ids PROVE RightHistory(k)'
  <2>0. RightHistory(k)
    BY DEF RecordInv
  <2>1. CASE k = i
    <3>1. margin[i].history = <<>> /\ claims[i].subject # legacy[i].subject
      BY <1>1, <1>2, <2>0, <2>1 DEF RightHistory, RecordInv, AtMoved
    <3>2. margin'[i].history = <<legacy[i].subject>>
      BY ONLY <1>1, <3>1
    <3>. QED
      BY <1>1, <1>2, <1>3, <2>1, <3>1, <3>2 DEF RightHistory
  <2>2. CASE k # i
    BY <1>1, <1>2, <1>3, <2>0, <2>2 DEF RightHistory
  <2>. QED
    BY <2>1, <2>2
<1>. QED
  BY <1>2, <1>3, <1>4, <1>5 DEF RecordInv, AtMoved

\* Every step.
LEMMA RecordStep ==
  ASSUME MigrationTypeOK, KeptInv, SavedInv, RecordInv, [MigrationNext]_allVars
  PROVE  RecordInv'
<1> SUFFICES ASSUME faults' = 0 PROVE RecordInv'
  BY DEF RecordInv
<1>n. faults \in Nat /\ \A n \in Nat : n + 1 # 0
  <2>1. faults \in Nat
    BY DEF MigrationTypeOK
  <2>2. \A n \in Nat : n + 1 # 0
    OBVIOUS
  <2>. QED
    BY <2>1, <2>2
<1>s. log' = log => Producible \subseteq Producible'
  BY DEF Producible, Seen
<1>1. CASE legacy = <<>> /\ UNCHANGED <<script, legacy>>
  <2>1. script = Off("never run") /\ script' = script
    BY <1>1 DEF MigrationTypeOK
  <2>2. ~Linking'
    BY <2>1 DEF Off, Linking
  <2>3. Ids' = {}
    BY <1>1 DEF Ids
  <2>. QED
    BY <2>2, <2>3 DEF RecordInv, AtMoved
<1>2. ASSUME NEW o \in Observations, Capture(o) PROVE RecordInv'
  <2>1. /\ ~Running /\ UNCHANGED <<claims, margin, legacy, faults>>
        /\ Seen \subseteq Seen' /\ script' = Off("never run")
    BY <1>2, CaptureEffect
  <2>2. Producible \subseteq Producible' /\ ~Linking /\ ~Linking'
    BY <2>1 DEF Producible, Linking, Running, Off
  <2>. QED
    BY <2>1, <2>2, RecordsStay
<1>3. CASE Start \/ SkipClaim \/ GateRefuses
  <2>1. ~Linking /\ UNCHANGED <<log, claims, margin, legacy, faults>>
    BY <1>3 DEF Start, SkipClaim, GateRefuses, AtClaim, Running, Linking, vars
  <2>2. ~Linking'
    BY <1>3, ScriptStep DEF Linking, Is
  <2>. QED
    BY <1>s, <2>1, <2>2, RecordsStay
<1>4. CASE Move
  BY <1>4, RecordsMove, ScriptStep
<1>5. CASE LinkRival
  <2>1. faults = 0
    <3>1. faults' = faults \/ faults' = faults + 1
      BY <1>5, LinkEffect DEF Saved, SaveFails
    <3>. QED
      BY ONLY <1>n, <3>1, faults' = 0
  <2>. QED
    BY <1>5, <2>1, RecordsLink
<1>6. CASE Remember
  <2>1. Is(script', "claims", script.at + 1, {}, script.failed) /\ Saved
    BY <1>6, ScriptStep
  <2>. QED
    BY <1>6, <2>1, RecordsRemember DEF Saved
<1>7. CASE EndOfRun
  <2>1. script.pc = "claims" /\ UNCHANGED <<log, legacy, faults>>
    BY <1>7 DEF EndOfRun, Leave
  <2>2. legacy # <<>>
    BY <2>1, RunsOnLegacies
  <2>3. UNCHANGED <<claims, margin>>
    BY <1>7, <2>1, <2>2 DEF EndOfRun, Leave, SavedInv
  <2>4. ~Linking /\ ~Linking'
    BY <1>7, <2>1 DEF EndOfRun, Leave, Off, Linking
  <2>. QED
    BY <1>s, <2>1, <2>3, <2>4, RecordsStay
<1>8. CASE Killed
  <2>1. faults' = faults + 1
    BY <1>8 DEF Killed
  <2>. QED
    BY ONLY <1>n, <2>1, faults' = 0
<1>9. CASE UNCHANGED allVars
  BY <1>9 DEF allVars, vars, RecordInv, RightRivals, RightHistory, AtMoved, Linking, Awaited,
              Settled, Producible, Seen, RivalsOf, Ids
<1>. QED
  BY <1>1, <1>2, <1>3, <1>4, <1>5, <1>6, <1>7, <1>8, <1>9 DEF MigrationNext

\* The legacy claims name their rivals.
LEMMA RecordInitial == MigrationInit => RecordInv
<1> SUFFICES ASSUME MigrationInit PROVE RecordInv
  OBVIOUS
<1>1. /\ legacy = claims /\ ~Linking
      /\ margin = [i \in Ids |-> [rivals |-> RivalsOf(claims, i), noted |-> FALSE, history |-> <<>>]]
  BY DEF MigrationInit, Off, Linking, Ids
<1>2. ASSUME NEW i \in Ids PROVE RightRivals(i) /\ RightHistory(i)
  BY <1>1 DEF RightRivals, RightHistory, Awaited
<1>. QED
  BY <1>1, <1>2 DEF RecordInv, AtMoved

\* A claim with which a run is done is settled.
LEMMA DoneIsSettled ==
  ASSUME MigrationTypeOK, KeptInv, DoneInv, NEW i \in Ids, Done(i)
  PROVE  Settled(i)
<1>1. CASE legacy[i].subject \in Producible
  <2>1. legacy[i].subject \notin Seen
    BY <1>1, NewSubjectIs DEF MigrationTypeOK, DataOK
  <2>. QED
    BY <1>1, <2>1 DEF Settled, DoneInv, Stranded
<1>. QED
  BY <1>1 DEF Settled

\* Without kills and failing saves, after a run that reports no failure: each
\* claim names exactly the rivals that it has under its new subject, and its
\* history has exactly one entry for the old one.
LEMMA RunRecordsAll ==
  ASSUME MigrationTypeOK, KeptInv, SavedInv, DoneInv, RecordInv
  PROVE  RunRecords
<1> SUFFICES ASSUME script.pc = "clean", faults = 0, NEW i \in Ids
             PROVE  /\ kb.margin[i].rivals = RivalsOf(kb.claims, i)
                    /\ kb.margin[i].history = IF kb.claims[i].subject = legacy[i].subject
                                              THEN <<>> ELSE <<legacy[i].subject>>
  BY DEF RunRecords, Ids
<1>1. legacy # <<>>
  BY RunsOnLegacies
<1>2. kb.claims = claims /\ kb.margin = margin
  BY <1>1 DEF SavedInv, Running
<1>3. Settled(i) /\ ~Linking
  BY DoneIsSettled DEF Done, Running, Linking
<1>4. RightRivals(i) /\ RightHistory(i) /\ Awaited(i) = {}
  BY <1>3 DEF RecordInv, Awaited
<1>. QED
  BY <1>2, <1>3, <1>4 DEF RightRivals, RightHistory

-----------------------------------------------------------------------------
(* Claims that argued meet again, whatever fails.                            *)

\* A claim that was moved went to where all of its old subject go.
Together(cs) ==
    \A i \in Ids : cs[i].subject \in {legacy[i].subject, NewSubject(legacy[i].subject)}

\* Rivals know of each other.  A claim that was not moved knows all of its rivals;
\* of two that were moved, the one that was moved last found the other.
Named(cs, mg) ==
    \A i \in Ids, j \in Ids :
       j \in RivalsOf(legacy, i) =>
          /\ cs[i].subject = legacy[i].subject => j \in mg[i].rivals
          /\ j \in mg[i].rivals \/ i \in mg[j].rivals

\* No claim was moved before the first run.
Untouched == script.pc = "never run" => \A i \in Ids : /\ claims[i].subject = legacy[i].subject
                                                       /\ kb.claims[i].subject = legacy[i].subject

NamedInv ==
    /\ Together(claims) /\ Together(kb.claims) /\ Untouched
    /\ Named(claims, margin) /\ Named(kb.claims, kb.margin)

\* Known rivals are not forgotten.
LEMMA NamedOn ==
  ASSUME NEW cs, NEW mg, NEW mh, Named(cs, mg),
         \A i \in Ids : mg[i].rivals \subseteq mh[i].rivals
  PROVE  Named(cs, mh)
  BY DEF Named

\* A move: the claims that were moved before it are found at the new subject, and
\* the others know the claim.
LEMMA NamedMove ==
  ASSUME MigrationTypeOK, KeptInv, Together(claims), Named(claims, margin), Move
  PROVE  /\ Together(claims)' /\ Named(claims', margin)
         /\ Named(claims', margin')
<1>. DEFINE i == script.at
<1>1. /\ i \in Ids /\ log' = log /\ legacy' = legacy /\ legacy # <<>>
      /\ Stranded(claims[i]) /\ claims[i].subject \in Producible
      /\ DOMAIN claims' = Ids
      /\ \A j \in Ids : j # i => claims'[j] = claims[j] /\ margin'[j] = margin[j]
      /\ claims'[i].subject = NewSubject(claims[i].subject)
      /\ claims'[i].name = claims[i].name
      /\ margin'[i].rivals = RivalsOf(claims', i) \/ margin'[i].rivals = margin[i].rivals
  BY MoveEffect
<1>2. /\ claims[i].subject = legacy[i].subject
      /\ claims'[i].subject \in Seen /\ claims'[i].subject # legacy[i].subject
  <2>1. claims[i].subject = legacy[i].subject
    BY <1>1 DEF KeptInv, Kept, Stranded
  <2>2. claims'[i].subject \in Seen
    BY <1>1, NewSubjectIs DEF MigrationTypeOK, DataOK
  <2>. QED
    BY <1>1, <2>1, <2>2 DEF Stranded
<1>3. Ids' = Ids /\ \A j \in Ids : NewSubject(legacy[j].subject)' = NewSubject(legacy[j].subject)
  BY <1>1 DEF Ids, NewSubject
<1>4. Together(claims)'
  BY <1>1, <1>2, <1>3 DEF Together
<1>5. Named(claims', margin)
  BY <1>1, <1>2 DEF Named
<1>6. ASSUME margin'[i].rivals = RivalsOf(claims', i),
             NEW j \in Ids, NEW k \in Ids, k \in RivalsOf(legacy, j)
      PROVE  /\ claims'[j].subject = legacy[j].subject => k \in margin'[j].rivals
             /\ k \in margin'[j].rivals \/ j \in margin'[k].rivals
  <2>0. legacy[k].subject = legacy[j].subject /\ legacy[k].name # legacy[j].name /\ k # j
    BY <1>6 DEF RivalsOf
  <2>1. j \in RivalsOf(legacy, k)
    BY <1>6, <2>0 DEF RivalsOf, Ids
  <2>n. \A l \in Ids : claims'[l].name = legacy[l].name
    BY <1>1 DEF KeptInv, Kept
  <2>m. ASSUME NEW l \in Ids, l # i, legacy[l].subject = legacy[i].subject,
               legacy[l].name # legacy[i].name, claims[l].subject # legacy[l].subject
        PROVE  l \in margin'[i].rivals
    <3>1. claims'[l].subject = claims'[i].subject
      BY <1>1, <1>2, <2>m DEF Together
    <3>. QED
      BY <1>1, <1>6, <2>m, <2>n, <3>1 DEF RivalsOf
  <2>2. CASE j # i /\ k # i
    BY <1>1, <1>6, <2>2 DEF Named
  <2>3. CASE j = i
    <3>1. CASE claims[k].subject = legacy[k].subject
      BY <1>1, <1>2, <2>0, <2>1, <2>3, <3>1 DEF Named
    <3>2. CASE claims[k].subject # legacy[k].subject
      BY <1>2, <2>0, <2>3, <2>m, <3>2
    <3>. QED
      BY <3>1, <3>2
  <2>4. CASE k = i
    <3>1. CASE claims[j].subject = legacy[j].subject
      BY <1>1, <1>6, <2>0, <2>4, <3>1 DEF Named
    <3>2. CASE claims[j].subject # legacy[j].subject
      BY <1>1, <2>0, <2>4, <2>m, <3>2
    <3>. QED
      BY <3>1, <3>2
  <2>. QED
    BY <2>2, <2>3, <2>4
<1>7. Named(claims', margin')
  <2>1. CASE margin'[i].rivals = RivalsOf(claims', i)
    BY <1>6, <2>1 DEF Named
  <2>2. CASE margin'[i].rivals = margin[i].rivals
    <3>1. \A j \in Ids : margin[j].rivals \subseteq margin'[j].rivals
      BY <1>1, <2>2
    <3>. QED
      BY <1>5, <3>1, NamedOn
  <2>. QED
    BY <1>1, <2>1, <2>2
<1>. QED
  BY <1>4, <1>5, <1>7

\* Every step, when no frame is captured between two runs.
LEMMA NamedStep ==
  ASSUME ~MoreFrames, MigrationTypeOK, KeptInv, NamedInv, [MigrationNext]_allVars
  PROVE  NamedInv'
<1>i. ASSUME legacy' = legacy, log' = log,
             script'.pc = "never run" => UNCHANGED <<script, claims, kb>>,
             Together(claims'), Together(kb'.claims),
             Named(claims', margin'), Named(kb'.claims, kb'.margin)
      PROVE  NamedInv'
  <2>1. Ids' = Ids /\ \A j \in Ids : NewSubject(legacy[j].subject)' = NewSubject(legacy[j].subject)
    BY <1>i DEF Ids, NewSubject
  <2>2. Together(claims)' /\ Together(kb.claims)'
    BY <1>i, <2>1 DEF Together
  <2>3. Named(claims, margin)' /\ Named(kb.claims, kb.margin)'
    BY <1>i, <2>1 DEF Named
  <2>4. Untouched'
    BY <1>i, <2>1 DEF NamedInv, Untouched
  <2>. QED
    BY <2>2, <2>3, <2>4 DEF NamedInv
<1>1. CASE legacy = <<>> /\ legacy' = legacy
  <2>1. Ids' = {}
    BY <1>1 DEF Ids
  <2>. QED
    BY <2>1 DEF NamedInv, Together, Named, Untouched
<1>2. ASSUME NEW o \in Observations, Capture(o) PROVE NamedInv'
  <2>1. script.pc = "never run" /\ UNCHANGED <<claims, margin, kb, legacy>>
    BY <1>2, CaptureEffect DEF Capture
  <2>2. Ids' = Ids
    BY <2>1 DEF Ids
  <2>3. Untouched' /\ Together(claims)' /\ Together(kb.claims)'
    BY <2>1, <2>2 DEF NamedInv, Untouched, Together
  <2>. QED
    BY <2>1, <2>2, <2>3 DEF NamedInv, Named
<1>3. CASE Start \/ SkipClaim \/ GateRefuses
  <2>1. UNCHANGED <<log, claims, margin, kb, legacy>>
    BY <1>3 DEF Start, SkipClaim, GateRefuses, vars
  <2>2. script'.pc = "claims"
    BY <1>3, ScriptStep DEF Is
  <2>. QED
    BY <1>i, <2>1, <2>2 DEF NamedInv
<1>4. CASE Move
  <2>. DEFINE i == script.at
  <2>1. /\ legacy' = legacy /\ log' = log /\ i \in Ids /\ legacy # <<>>
    BY <1>4, MoveEffect
  <2>2. script'.pc # "never run"
    BY <1>4, ScriptStep DEF Is
  <2>3. Together(claims)' /\ Named(claims', margin) /\ Named(claims', margin')
    BY <1>4, NamedMove DEF NamedInv
  <2>4. Together(claims')
    <3>1. Ids' = Ids /\ \A j \in Ids : NewSubject(legacy[j].subject)' = NewSubject(legacy[j].subject)
      BY <2>1 DEF Ids, NewSubject
    <3>. QED
      BY <2>1, <2>3, <3>1 DEF Together
  <2>5. Together(kb'.claims) /\ Named(kb'.claims, kb'.margin)
    <3>1. CASE kb' = kb
      BY <3>1 DEF NamedInv
    <3>2. CASE kb' = [claims |-> claims', margin |-> [margin EXCEPT ![i].noted = TRUE]]
      <4>1. margin \in [Ids -> Margins]
        BY <2>1 DEF MigrationTypeOK, MemoryOK, MarginMaps
      <4>2. /\ kb'.claims = claims'
            /\ \A j \in Ids : margin[j].rivals \subseteq kb'.margin[j].rivals
        BY <2>1, <3>2, <4>1 DEF Margins
      <4>. QED
        BY <2>3, <2>4, <4>2, NamedOn
    <3>. QED
      BY <1>4, <3>1, <3>2, MoveEffect
  <2>. QED
    BY <1>i, <2>1, <2>2, <2>3, <2>4, <2>5
<1>5. CASE LinkRival \/ Remember
  <2>1. /\ legacy' = legacy /\ log' = log /\ claims' = claims
        /\ \A j \in Ids : margin[j].rivals \subseteq margin'[j].rivals
        /\ Saved \/ SaveFails
    BY <1>5, LinkEffect, RememberEffect DEF vars
  <2>2. Named(claims', margin') /\ Together(claims')
    BY <2>1, NamedOn DEF NamedInv
  <2>3. Named(kb'.claims, kb'.margin) /\ Together(kb'.claims)
    BY <2>1, <2>2 DEF NamedInv, Saved, SaveFails
  <2>4. script'.pc # "never run"
    BY <1>5, ScriptStep DEF Is
  <2>. QED
    BY <1>i, <2>1, <2>2, <2>3, <2>4
<1>6. CASE EndOfRun \/ Killed
  <2>1. /\ claims' = kb.claims /\ margin' = kb.margin /\ UNCHANGED <<log, kb, legacy>>
        /\ \E how \in {"clean", "failed", "killed"} : script' = Off(how)
    BY <1>6 DEF EndOfRun, Killed, Leave
  <2>2. \A how \in {"clean", "failed", "killed"} : Off(how).pc # "never run"
    BY DEF Off
  <2>3. script'.pc # "never run"
    BY <2>1, <2>2
  <2>. QED
    BY <1>i, <2>1, <2>3 DEF NamedInv
<1>7. CASE UNCHANGED allVars
  BY <1>7, <1>i DEF allVars, vars, NamedInv
<1>. QED
  BY <1>1, <1>2, <1>3, <1>4, <1>5, <1>6, <1>7 DEF MigrationNext

\* The legacy claims name their rivals, and have their old subjects.
LEMMA NamedInitial == MigrationInit => NamedInv
<1> SUFFICES ASSUME MigrationInit PROVE NamedInv
  OBVIOUS
<1>1. /\ legacy = claims /\ kb.claims = claims /\ kb.margin = margin
      /\ \A i \in Ids : margin[i].rivals = RivalsOf(claims, i)
  BY DEF MigrationInit, Ids
<1>. QED
  BY <1>1 DEF NamedInv, Together, Named, Untouched

\* After a run that reports no failure no claim is left behind, and claims that
\* argued are at one subject and know of each other.
LEMMA RunCompletesAlways ==
  ASSUME MigrationTypeOK, KeptInv, SavedInv, DoneInv, NamedInv
  PROVE  RunCompletes
<1> SUFFICES ASSUME script.pc = "clean", NEW i \in Ids
             PROVE  /\ Stranded(kb.claims[i]) => kb.claims[i].subject \notin Producible
                    /\ \A j \in RivalsOf(legacy, i) :
                          /\ kb.claims[j].subject = kb.claims[i].subject
                          /\ j \in kb.margin[i].rivals \/ i \in kb.margin[j].rivals
  BY DEF RunCompletes, Ids
<1>1. legacy # <<>>
  BY RunsOnLegacies
<1>2. kb.claims = claims /\ kb.margin = margin
  BY <1>1 DEF SavedInv, Running
<1>3. \A j \in Ids : Done(j) /\ Settled(j)
  BY DoneIsSettled DEF Done, Running
<1>4. ASSUME NEW j \in RivalsOf(legacy, i)
      PROVE  /\ claims[j].subject = claims[i].subject
             /\ j \in margin[i].rivals \/ i \in margin[j].rivals
  <2>1. j \in Ids /\ legacy[j].subject = legacy[i].subject
    BY DEF RivalsOf, Ids
  <2>2. CASE legacy[i].subject \in Producible
    BY <1>3, <2>1, <2>2 DEF Settled, NamedInv, Together, Named
  <2>3. CASE legacy[i].subject \notin Producible
    <3>1. \A k \in {i, j} : claims[k].subject = legacy[k].subject
      BY <2>1, <2>3 DEF KeptInv, Kept, Producible
    <3>. QED
      BY <2>1, <3>1 DEF NamedInv, Named
  <2>. QED
    BY <2>2, <2>3
<1>. QED
  BY <1>2, <1>3, <1>4 DEF DoneInv

\* Without kills and failing saves a run records all that happens, even with frames
\* captured between the runs.
THEOREM MigrationIsRecorded == MigrationSpec => []RunRecords
<1>. DEFINE Inv == MigrationTypeOK /\ KeptInv /\ SavedInv /\ DoneInv /\ RecordInv
<1>1. MigrationInit => Inv
  BY MigrationTypeInitial, KeptInitial, RunInitial, RecordInitial
<1>2. Inv /\ [MigrationNext]_allVars => Inv'
  BY MigrationTypeStep, KeptStep, SavedStep, DoneStep, RecordStep
<1>3. Inv => RunRecords
  BY RunRecordsAll
<1>. QED
  BY <1>1, <1>2, <1>3, PTL DEF MigrationSpec

\* Re-anchoring never hides: across kills, failing saves and repeated runs no
\* claim is lost or changed, none is left behind by a run that reports no failure,
\* and rivals stay rivals, when no frame is captured between two runs.
THEOREM MigrationHidesNothing ==
  ASSUME ~MoreFrames
  PROVE  MigrationSpec => []MigrationKeepsClaims
<1>. DEFINE Inv == MigrationTypeOK /\ KeptInv /\ SavedInv /\ DoneInv /\ NamedInv
<1>1. MigrationInit => Inv
  BY MigrationTypeInitial, KeptInitial, RunInitial, NamedInitial
<1>2. Inv /\ [MigrationNext]_allVars => Inv'
  BY MigrationTypeStep, KeptStep, SavedStep, DoneStep, NamedStep
<1>3. Inv => RunCompletes
  BY RunCompletesAlways
<1>4. ClaimsKept /\ RunCompletes /\ RunRecords => MigrationKeepsClaims
  BY DEF MigrationKeepsClaims
<1>. QED
  BY <1>1, <1>2, <1>3, <1>4, ClaimsSurviveMigration, MigrationIsRecorded, PTL DEF MigrationSpec

-----------------------------------------------------------------------------
(* The documents, while claims are made, revised and moved.                  *)

\* What is claimed about a response was claimed when it had been seen.
ResponsesSeen(cs) == \A i \in DOMAIN cs : cs[i].subject \in Responses => cs[i].subject \in Seen

AnchoredInv == ResponsesSeen(claims) /\ ResponsesSeen(kb.claims)

\* What is so of all frames and claims is so after the step.
LEMMA EvidenceNext == DataOK' => EvidenceSound'
  BY EvidenceCorrect, PTL

\* A step that changes no subject, lowers no confidence and makes no claim takes
\* no row out of a document.
LEMMA NoRowDemoted ==
  ASSUME DataOK, DataOK', ResponsesSeen(claims), Seen \subseteq Seen',
         Len(claims') = Len(claims),
         \A i \in DOMAIN claims : /\ claims'[i].subject = claims[i].subject
                                  /\ claims[i].conf <= claims'[i].conf,
         NEW floor \in Floors
  PROVE  Accepted(floor) \subseteq Accepted(floor)'
<1> SUFFICES ASSUME NEW r \in Accepted(floor) PROVE r \in Accepted(floor)'
  OBVIOUS
<1>1. r \in Seen /\ r \in Requests /\ r \in Observations /\ Evidence(r).rank <= floor
  BY DEF Accepted, SeenRequests, Observations
<1>2. DOMAIN claims' = DOMAIN claims
  BY DEF DataOK
<1>3. ClaimsOn(r)' = ClaimsOn(r)
  <2>1. ResponsesOf(r) \subseteq ResponsesOf(r)'
    BY DEF ResponsesOf
  <2>2. \A s \in ResponsesOf(r)' : s \in Seen => s \in ResponsesOf(r)
    BY DEF ResponsesOf
  <2>3. \A s \in ResponsesOf(r)' : s \in Responses
    BY DEF ResponsesOf
  <2>. QED
    BY <1>2, <2>1, <2>2, <2>3 DEF ClaimsOn, ResponsesSeen
<1>. DEFINE a == Evidence(r).conf
            b == Evidence(r)'.conf
<1>4. /\ a \in 0..100 /\ Evidence(r).rank = Rank(a)
      /\ ClaimsOn(r) = {} => a = 80
      /\ ClaimsOn(r) # {} => \E i \in ClaimsOn(r) : claims[i].conf = a
  BY <1>1, EvidenceCorrect DEF EvidenceSound
<1>5. /\ b \in 0..100 /\ Evidence(r)'.rank = Rank(b)
      /\ ClaimsOn(r)' = {} => b = 80
      /\ \A i \in ClaimsOn(r)' : claims'[i].conf <= b
  <2>1. EvidenceSound'
    BY EvidenceNext
  <2>. QED
    BY <1>1, <2>1 DEF EvidenceSound
<1>. HIDE DEF a, b
<1>6. a <= b
  <2>1. CASE ClaimsOn(r) = {}
    BY <1>3, <1>4, <1>5, <2>1
  <2>2. CASE ClaimsOn(r) # {}
    <3>1. PICK i \in ClaimsOn(r) : claims[i].conf = a
      BY <1>4, <2>2
    <3>2. i \in DOMAIN claims
      BY DEF ClaimsOn
    <3>3. claims'[i].conf \in 0..100
      <4>1. claims'[i] \in Claims
        BY <1>2, <3>2 DEF DataOK
      <4>2. claims'[i].conf \in Confidences \cup {0}
        BY <4>1 DEF Claims
      <4>3. \A x \in Confidences \cup {0} : x \in 0..100
        BY ExportsAssumption
      <4>. QED
        BY ONLY <4>2, <4>3, Zenon
    <3>4. a <= claims'[i].conf /\ claims'[i].conf <= b
      BY <1>3, <1>5, <3>1, <3>2
    <3>5. a \in 0..100 /\ b \in 0..100
      BY <1>4, <1>5
    <3>. QED
      BY ONLY <3>3, <3>4, <3>5
  <2>. QED
    BY <2>1, <2>2
<1>7. Evidence(r)'.rank <= floor
  <2>1. floor \in Nat
    BY ExportsAssumption
  <2>2. a \in Nat /\ b \in Nat
    <3>1. a \in 0..100 /\ b \in 0..100
      BY <1>4, <1>5
    <3>. QED
      BY ONLY <3>1
  <2>3. Rank(b) <= Rank(a) /\ Rank(a) \in Nat /\ Rank(b) \in Nat
    BY <1>6, <2>2, RankFalls
  <2>. QED
    BY <1>1, <1>4, <1>5, <2>1, <2>3
<1>. QED
  BY <1>1, <1>7 DEF Accepted, SeenRequests

\* Frames are never removed.
LEMMA SeenGrows == MigrationTypeOK /\ [MigrationNext]_allVars => Seen \subseteq Seen'
<1> SUFFICES ASSUME MigrationTypeOK, [MigrationNext]_allVars PROVE Seen \subseteq Seen'
  OBVIOUS
<1>1. CASE log' = log
  BY <1>1 DEF Seen
<1>2. ASSUME NEW o \in Observations, Observe(o) PROVE Seen \subseteq Seen'
  <2>1. log \in Seq(Observations) /\ log' = Append(log, o)
    BY <1>2 DEF Observe, MigrationTypeOK, DataOK
  <2>2. \A i \in DOMAIN log : i \in DOMAIN log' /\ log'[i] = log[i]
    BY <2>1, AppendProperties
  <2>. QED
    BY <2>2 DEF Seen
<1>3. CASE Next
  BY <1>1, <1>2, <1>3 DEF Next, Propose, Revise
<1>4. ASSUME NEW o \in Observations, Capture(o) PROVE Seen \subseteq Seen'
  BY <1>4, CaptureEffect
<1>5. CASE \/ Start \/ SkipClaim \/ GateRefuses \/ Move \/ LinkRival \/ Remember
           \/ EndOfRun \/ Killed \/ UNCHANGED allVars
  <2>1. log' = log
    BY <1>5 DEF Start, SkipClaim, GateRefuses, Move, LinkRival, Remember, EndOfRun, Killed,
                Leave, vars, allVars
  <2>. QED
    BY <1>1, <2>1
<1>. QED
  BY <1>3, <1>4, <1>5 DEF MigrationNext

\* Claims are made about what was seen, and moved to what was seen.
LEMMA AnchoredStep == MigrationTypeOK /\ AnchoredInv /\ [MigrationNext]_allVars => AnchoredInv'
<1> SUFFICES ASSUME MigrationTypeOK, AnchoredInv, [MigrationNext]_allVars PROVE AnchoredInv'
  OBVIOUS
<1>s. Seen \subseteq Seen'
  BY SeenGrows
<1>i. ASSUME \A i \in DOMAIN claims' : \/ claims'[i].subject \in Seen
                                       \/ i \in DOMAIN claims /\ claims'[i].subject = claims[i].subject,
             kb'.claims = kb.claims \/ kb'.claims = claims'
      PROVE  AnchoredInv'
  <2>1. ResponsesSeen(claims)'
    BY <1>i, <1>s DEF AnchoredInv, ResponsesSeen
  <2>2. ResponsesSeen(kb.claims)'
    BY <1>i, <1>s, <2>1 DEF AnchoredInv, ResponsesSeen
  <2>. QED
    BY <2>1, <2>2 DEF AnchoredInv
<1>1. CASE Next /\ UNCHANGED kb
  <2>1. claims \in Seq(Claims)
    BY DEF MigrationTypeOK, DataOK
  <2>2. ASSUME NEW o \in Observations, NEW n \in Names, Propose(o, n) PROVE AnchoredInv'
    <3>. DEFINE c == [subject |-> o, name |-> n, conf |-> 0]
    <3>1. o \in Seen /\ claims' = Append(claims, c) /\ c.subject = o
      BY <2>2 DEF Propose
    <3>2. \A i \in DOMAIN claims' : (i \in DOMAIN claims /\ claims'[i] = claims[i]) \/ claims'[i] = c
      <4>. HIDE DEF c
      <4>. QED
        BY <2>1, <3>1
    <3>. QED
      BY <1>1, <1>i, <3>1, <3>2
  <2>3. ASSUME NEW i \in DOMAIN claims, NEW conf \in Confidences, Revise(i, conf) PROVE AnchoredInv'
    <3>1. /\ DOMAIN claims' = DOMAIN claims
          /\ \A j \in DOMAIN claims : claims'[j].subject = claims[j].subject
      <4>1. claims[i] \in Claims /\ claims' = [claims EXCEPT ![i].conf = conf]
        BY <2>1, <2>3, ElementOfSeq DEF Revise
      <4>2. [claims[i] EXCEPT !.conf = conf].subject = claims[i].subject
        BY <4>1 DEF Claims
      <4>. QED
        BY <2>1, <4>1, <4>2
    <3>. QED
      BY <1>1, <1>i, <3>1
  <2>4. CASE UNCHANGED claims
    BY <1>1, <1>i, <2>4
  <2>. QED
    BY <1>1, <2>2, <2>3, <2>4 DEF Next, Observe
<1>2. ASSUME NEW o \in Observations, Capture(o) PROVE AnchoredInv'
  BY <1>2, <1>i, CaptureEffect
<1>3. CASE Start \/ SkipClaim \/ GateRefuses \/ LinkRival \/ Remember \/ UNCHANGED allVars
  <2>1. claims' = claims /\ (kb'.claims = kb.claims \/ kb'.claims = claims')
    BY <1>3 DEF Start, SkipClaim, GateRefuses, LinkRival, Remember, Saved, SaveFails, vars, allVars
  <2>. QED
    BY <1>i, <2>1
<1>4. CASE Move
  <2>. DEFINE i == script.at
  <2>1. /\ i \in Ids /\ legacy # <<>> /\ DOMAIN claims' = Ids
        /\ claims[i].subject \in Producible
        /\ \A j \in Ids : j # i => claims'[j] = claims[j]
        /\ claims'[i].subject = NewSubject(claims[i].subject)
        /\ kb' = kb \/ kb'.claims = claims'
    BY <1>4, MoveEffect
  <2>2. DOMAIN claims = Ids /\ claims'[i].subject \in Seen
    BY <2>1, NewSubjectIs DEF MigrationTypeOK, MemoryOK, DataOK
  <2>. QED
    BY <1>i, <2>1, <2>2
<1>5. CASE EndOfRun \/ Killed
  <2>1. claims' = kb.claims /\ kb' = kb
    BY <1>5 DEF EndOfRun, Killed, Leave
  <2>. QED
    BY <1>s, <2>1 DEF AnchoredInv, ResponsesSeen
<1>. QED
  BY <1>1, <1>2, <1>3, <1>4, <1>5 DEF MigrationNext

\* No row leaves a document but by a fresh proposal, a lowered confidence or a moved
\* claim, unless kb.json has claims about responses that no frame has.
THEOREM MoreEvidenceDemotesNothing ==
  ASSUME \A cs \in Legacies : \A i \in DOMAIN cs : cs[i].subject \notin Responses
  PROVE  MigrationSpec => MoreEvidenceNeverDemotes
<1>. DEFINE Inv == MigrationTypeOK /\ AnchoredInv
            A == (/\ Len(claims') = Len(claims)
                  /\ \A i \in DOMAIN claims : /\ claims'[i].subject = claims[i].subject
                                              /\ claims[i].conf <= claims'[i].conf)
                 => \A floor \in Floors : Accepted(floor) \subseteq Accepted(floor)'
<1>1. MigrationInit => Inv
  <2>1. ASSUME MigrationInit PROVE AnchoredInv
    <3>1. kb.claims = claims /\ claims \in Legacies \cup {<<>>}
      BY <2>1 DEF MigrationInit
    <3>2. ResponsesSeen(claims)
      BY <3>1 DEF ResponsesSeen
    <3>. QED
      BY <3>1, <3>2 DEF AnchoredInv
  <2>. QED
    BY <2>1, MigrationTypeInitial
<1>2. Inv /\ [MigrationNext]_allVars => Inv'
  BY MigrationTypeStep, AnchoredStep
<1>3. Inv /\ Inv' /\ [MigrationNext]_allVars => [A]_vars
  <2> SUFFICES ASSUME Inv, Inv', [MigrationNext]_allVars PROVE A
    OBVIOUS
  <2>1. Seen \subseteq Seen'
    BY SeenGrows
  <2>2. DataOK /\ DataOK' /\ ResponsesSeen(claims)
    BY DEF MigrationTypeOK, AnchoredInv
  <2>. QED
    BY <2>1, <2>2, NoRowDemoted
<1>. QED
  BY <1>1, <1>2, <1>3, PTL DEF MigrationSpec, MoreEvidenceNeverDemotes

-----------------------------------------------------------------------------
(* Sorting.                                                                  *)

\* A set of pairs that orders S totally.
Orders(R, S) ==
    /\ \A x, y \in S : x # y => <<x, y>> \in R \/ <<y, x>> \in R
    /\ \A x, y, z \in S : <<x, y>> \in R /\ <<y, z>> \in R => <<x, z>> \in R

\* x is behind the others of T.
IsLast(x, T, R) == x \in T /\ \A y \in T : y # x => <<y, x>> \in R

\* A finite set that is not empty has a last element.
LEMMA LastExists ==
  ASSUME NEW S, IsFiniteSet(S), S # {}, NEW R, Orders(R, S)
  PROVE  \E x : IsLast(x, S, R)
<1>. DEFINE Bad == {T \in SUBSET S : T # {} /\ \A x \in T : ~IsLast(x, T, R)}
<1>1. SUFFICES ASSUME Bad # {} PROVE FALSE
  BY DEF IsLast
<1>2. /\ Bad \subseteq FiniteSubsetsOf(S)
      /\ IsWellFoundedOn(StrictSubsetOrdering(S), FiniteSubsetsOf(S))
  BY FS_FiniteSubsetsOfFinite, FS_StrictSubsetOrderingWellFounded
<1>3. PICK T \in Bad : \A U \in Bad : ~(<<U, T>> \in StrictSubsetOrdering(S))
  BY <1>1, <1>2, WFMin, Zenon
<1>4. PICK x \in T : TRUE
  OBVIOUS
<1>. DEFINE U == T \ {x}
<1>5. U \notin Bad
  <2>1. U \in SUBSET S /\ T \in SUBSET S /\ U \subseteq T /\ U # T
    BY <1>4
  <2>2. <<U, T>> \in StrictSubsetOrdering(S)
    BY <2>1, Zenon DEF StrictSubsetOrdering
  <2>. QED
    BY <1>3, <2>2
<1>6. CASE U = {}
  <2>1. IsLast(x, T, R)
    BY <1>4, <1>6 DEF IsLast
  <2>. QED
    BY <2>1
<1>7. CASE U # {}
  <2>1. PICK y \in U : IsLast(y, U, R)
    BY <1>5, <1>7
  <2>2. x \in S /\ y \in S /\ x # y /\ y \in T /\ T \subseteq S
    OBVIOUS
  <2>3. CASE <<x, y>> \in R
    <3>1. IsLast(y, T, R)
      BY <2>1, <2>2, <2>3 DEF IsLast
    <3>. QED
      BY <2>2, <3>1
  <2>4. CASE <<y, x>> \in R
    <3>1. ASSUME NEW z \in T, z # x PROVE <<z, x>> \in R
      <4>1. z = y \/ <<z, y>> \in R
        BY <2>1, <3>1 DEF IsLast
      <4>. QED
        BY <2>2, <2>4, <4>1 DEF Orders
    <3>2. IsLast(x, T, R)
      BY <3>1 DEF IsLast
    <3>. QED
      BY <3>2
  <2>. QED
    BY <2>2, <2>3, <2>4 DEF Orders
<1>. QED
  BY <1>6, <1>7

\* s is T in order.
IsInOrder(s, T, R) ==
    s \in SetToSeqs(T) /\ \A j, k \in DOMAIN s : j < k => <<s[j], s[k]>> \in R

\* A finite set can be brought in order.
LEMMA SortedExists ==
  ASSUME NEW S, IsFiniteSet(S), NEW R, Orders(R, S)
  PROVE  \E s : IsInOrder(s, S, R)
<1>. DEFINE Bad == {T \in SUBSET S : \A s : ~IsInOrder(s, T, R)}
<1>1. SUFFICES ASSUME Bad # {} PROVE FALSE
  OBVIOUS
<1>2. /\ Bad \subseteq FiniteSubsetsOf(S)
      /\ IsWellFoundedOn(StrictSubsetOrdering(S), FiniteSubsetsOf(S))
  BY FS_FiniteSubsetsOfFinite, FS_StrictSubsetOrderingWellFounded
<1>3. PICK T \in Bad : \A U \in Bad : ~(<<U, T>> \in StrictSubsetOrdering(S))
  BY <1>1, <1>2, WFMin, Zenon
<1>4. IsFiniteSet(T) /\ T \subseteq S
  BY FS_Subset
<1>5. T # {}
  <2>1. SUFFICES ASSUME T = {} PROVE IsInOrder(<<>>, T, R)
    OBVIOUS
  <2>2. Cardinality(T) = 0
    BY <2>1, FS_EmptySet
  <2>3. <<>> \in [1..0 -> T]
    BY <2>1
  <2>. QED
    BY <2>2, <2>3 DEF IsInOrder, SetToSeqs
<1>6. PICK x : IsLast(x, T, R)
  <2>1. Orders(R, T)
    BY <1>4 DEF Orders
  <2>. QED
    BY <1>4, <1>5, <2>1, LastExists
<1>. DEFINE U == T \ {x}
            n == Cardinality(U)
<1>7. PICK s : IsInOrder(s, U, R)
  <2>1. U \in SUBSET S /\ T \in SUBSET S /\ U \subseteq T /\ U # T
    BY <1>4, <1>6 DEF IsLast
  <2>2. <<U, T>> \in StrictSubsetOrdering(S)
    BY <2>1, Zenon DEF StrictSubsetOrdering
  <2>. QED
    BY <1>3, <2>1, <2>2
<1>8. IsFiniteSet(U) /\ n \in Nat /\ Cardinality(T) = n + 1
  <2>1. IsFiniteSet(U) /\ Cardinality(U) = Cardinality(T) - 1
    BY <1>4, <1>6, FS_RemoveElement DEF IsLast
  <2>2. Cardinality(T) \in Nat /\ Cardinality(U) \in Nat
    BY <1>4, <2>1, FS_CardinalityType
  <2>. QED
    BY <2>1, <2>2
<1>. HIDE DEF n
<1>9. /\ s \in [1..n -> U]
      /\ \A j, k \in 1..n : j # k => s[j] # s[k]
      /\ \A j, k \in 1..n : j < k => <<s[j], s[k]>> \in R
  BY <1>7 DEF IsInOrder, SetToSeqs, n
<1>. DEFINE t == [k \in 1..(n + 1) |-> IF k = n + 1 THEN x ELSE s[k]]
<1>10. /\ t \in [1..(n + 1) -> T]
       /\ \A j, k \in 1..(n + 1) : j # k => t[j] # t[k]
       /\ \A j, k \in 1..(n + 1) : j < k => <<t[j], t[k]>> \in R
  <2>1. \A k \in 1..n : s[k] \in T /\ s[k] # x /\ <<s[k], x>> \in R
    BY <1>6, <1>9 DEF IsLast
  <2>2. \A k \in 1..(n + 1) : k # n + 1 => k \in 1..n
    BY <1>8
  <2>3. x \in T
    BY <1>6 DEF IsLast
  <2>4. t \in [1..(n + 1) -> T]
    BY <2>1, <2>2, <2>3
  <2>5. \A j, k \in 1..(n + 1) : j # k => t[j] # t[k]
    BY <1>9, <2>1, <2>2
  <2>6. \A j, k \in 1..(n + 1) : j < k => <<t[j], t[k]>> \in R
    BY <1>8, <1>9, <2>1, <2>2
  <2>. QED
    BY <2>4, <2>5, <2>6
<1>11. IsInOrder(t, T, R)
  BY <1>8, <1>10 DEF IsInOrder, SetToSeqs
<1>. QED
  BY <1>11

\* A sequence of SetToSeqs has each element once.
LEMMA SeqsOf ==
  ASSUME NEW S, IsFiniteSet(S), NEW s \in SetToSeqs(S)
  PROVE  /\ s \in Seq(S) /\ Len(s) = Cardinality(S) /\ Len(s) \in Nat
         /\ {s[k] : k \in DOMAIN s} = S
<1>. DEFINE n == Cardinality(S)
<1>1. n \in Nat
  BY FS_CardinalityType
<1>2. s \in [1..n -> S] /\ \A j, k \in 1..n : j # k => s[j] # s[k]
  BY DEF SetToSeqs
<1>3. IsFiniteSet(1..n) /\ Cardinality(1..n) = n
  <2>1. 1 \in Int /\ n \in Int
    BY <1>1
  <2>2. IsFiniteSet(1..n) /\ Cardinality(1..n) = IF 1 > n THEN 0 ELSE n - 1 + 1
    BY <2>1, FS_Interval
  <2>. QED
    BY <1>1, <2>2
<1>4. s \in Injection(1..n, S)
  BY <1>2 DEF Injection, IsInjective
<1>5. s \in Surjection(1..n, S)
  BY <1>3, <1>4, FS_Injection
<1>6. {s[k] : k \in DOMAIN s} = S
  BY <1>2, <1>5 DEF Surjection
<1>. QED
  BY <1>1, <1>2, <1>6

-----------------------------------------------------------------------------
(* The answers of the listings.                                              *)

\* What is in an answer is what is in its rows.
LEMMA AnsweredIs ==
  ASSUME NEW rows
  PROVE  Answered([rows |-> rows]) = {rows[k] : k \in DOMAIN rows}
  BY Zenon DEF Answered

\* Rows that are not cut are all there; of others as many as were asked for.
LEMMA CutIs ==
  ASSUME NEW T, NEW rows \in Seq(T), NEW n \in Nat
  PROVE  /\ Cut(rows, n) \in Seq(T)
         /\ Len(rows) <= n => Cut(rows, n) = rows
         /\ Len(rows) > n => Len(Cut(rows, n)) = n
<1>1. Len(rows) \in Nat
  OBVIOUS
<1>2. \E m \in {n, Len(rows)} : \A x \in {n, Len(rows)} : m <= x
  <2>1. n <= Len(rows) \/ Len(rows) <= n
    BY <1>1
  <2>. QED
    BY <1>1, <2>1
<1>3. /\ Min({n, Len(rows)}) \in {n, Len(rows)}
      /\ Min({n, Len(rows)}) <= n /\ Min({n, Len(rows)}) <= Len(rows)
  BY <1>2 DEF Min
<1>. DEFINE m == Min({n, Len(rows)})
<1>. HIDE DEF m
<1>4. /\ Len(rows) <= n => m = Len(rows)
      /\ Len(rows) > n => m = n
      /\ m \in 0..Len(rows)
  BY ONLY <1>1, <1>3, n \in Nat DEF m
<1>5. Cut(rows, n) = SubSeq(rows, 1, m)
  BY DEF Cut, m
<1>6. SubSeq(rows, 1, Len(rows)) = rows
  BY SubSeqFull
<1>7. SubSeq(rows, 1, m) \in Seq(T) /\ Len(SubSeq(rows, 1, m)) = m
  BY <1>1, <1>4, SubSeqProperties
<1>. QED
  BY <1>4, <1>5, <1>6, <1>7

\* The observations are finitely many, and so are the sightings of each.
LEMMA SeenFinite ==
  ASSUME DataOK
  PROVE  /\ IsFiniteSet(Seen)
         /\ \A o : Sightings(o) \in Nat
<1>1. DOMAIN log = 1..Len(log) /\ Len(log) \in Nat
  BY DEF DataOK
<1>2. IsFiniteSet(1..Len(log)) /\ Cardinality(1..Len(log)) = Len(log)
  <2>1. 1 \in Int /\ Len(log) \in Int
    BY <1>1
  <2>2. /\ IsFiniteSet(1..Len(log))
        /\ Cardinality(1..Len(log)) = IF 1 > Len(log) THEN 0 ELSE Len(log) - 1 + 1
    BY <2>1, FS_Interval
  <2>. QED
    BY <1>1, <2>2
<1>3. log \in Surjection(1..Len(log), Seen)
  BY <1>1 DEF Surjection, Seen, DataOK
<1>4. IsFiniteSet(Seen)
  BY <1>2, <1>3, FS_Surjection
<1>5. ASSUME NEW o PROVE Sightings(o) \in Nat
  <2>1. {i \in DOMAIN log : log[i] = o} \in SUBSET (1..Len(log))
    BY <1>1
  <2>. QED
    BY <1>2, <2>1, FS_Subset, FS_CardinalityType DEF Sightings
<1>. QED
  BY <1>4, <1>5

\* A ranked listing has each observation once.
LEMMA RankedIs ==
  ASSUME DataOK, NEW S \in SUBSET Seen
  PROVE  /\ Ranked(S) \in Seq(S) /\ Len(Ranked(S)) = Cardinality(S)
         /\ Answered([rows |-> Ranked(S)]) = S
<1>. DEFINE R == {p \in S \X S : Ahead(p[1], p[2])}
<1>1. \A o \in S : /\ Sightings(o) \in Nat /\ FirstSeen(o) \in Nat
                   /\ log[FirstSeen(o)] = o
  BY SeenFinite, FirstSeenIs DEF DataOK
<1>2. IsFiniteSet(S)
  BY SeenFinite, FS_Subset
<1>3. \A a, b \in S : <<a, b>> \in R <=> Ahead(a, b)
  OBVIOUS
<1>. HIDE DEF R
<1>4. ASSUME NEW a \in S, NEW b \in S, a # b PROVE <<a, b>> \in R \/ <<b, a>> \in R
  <2>1. FirstSeen(a) # FirstSeen(b)
    BY <1>1, <1>4
  <2>2. /\ Sightings(a) \in Nat /\ FirstSeen(a) \in Nat
        /\ Sightings(b) \in Nat /\ FirstSeen(b) \in Nat
    BY <1>1
  <2>3. Ahead(a, b) \/ Ahead(b, a)
    BY <2>1, <2>2 DEF Ahead
  <2>. QED
    BY <1>3, <2>3
<1>5. ASSUME NEW a \in S, NEW b \in S, NEW c \in S, <<a, b>> \in R, <<b, c>> \in R
      PROVE  <<a, c>> \in R
  <2>1. /\ Sightings(a) \in Nat /\ FirstSeen(a) \in Nat
        /\ Sightings(b) \in Nat /\ FirstSeen(b) \in Nat
        /\ Sightings(c) \in Nat /\ FirstSeen(c) \in Nat
    BY <1>1
  <2>2. Ahead(a, b) /\ Ahead(b, c)
    BY <1>3, <1>5
  <2>3. Ahead(a, c)
    BY <2>1, <2>2 DEF Ahead
  <2>. QED
    BY <1>3, <2>3
<1>6. PICK s : IsInOrder(s, S, R)
  BY <1>2, <1>4, <1>5, SortedExists DEF Orders
<1>7. \A r \in SetToSeqs(S) : r \in Seq(S) /\ \A k \in DOMAIN r : r[k] \in S
  BY <1>2, SeqsOf
<1>8. \E r \in SetToSeqs(S) : \A j, k \in DOMAIN r : j < k => Ahead(r[j], r[k])
  BY <1>3, <1>6, <1>7 DEF IsInOrder
<1>9. Ranked(S) \in SetToSeqs(S)
  BY <1>8, Zenon DEF Ranked, Sorted
<1>. QED
  BY <1>2, <1>9, SeqsOf DEF Answered

-----------------------------------------------------------------------------
(* Merging rows into actions.                                                *)

\* Every number from lo to hi has a property that passes on from the smaller ones.
LEMMA Upward ==
  ASSUME NEW lo \in Nat, NEW hi \in Nat, NEW P,
         \A k \in lo..hi : (\A j \in lo..hi : j < k => j \in P) => k \in P
  PROVE  lo..hi \subseteq P
<1>. DEFINE Bad == (lo..hi) \ P
<1>1. SUFFICES ASSUME Bad # {} PROVE FALSE
  OBVIOUS
<1>2. Bad \in SUBSET Nat
  OBVIOUS
<1>3. PICK k \in Bad : \A j \in Bad : k <= j
  BY <1>1, <1>2, LeastExists
<1>4. \A j \in lo..hi : j < k => j \in P
  BY <1>3
<1>. QED
  BY <1>3, <1>4

\* What is accepted was requested and seen, and has its evidence.
LEMMA AcceptedAre ==
  ASSUME DataOK, NEW floor
  PROVE  /\ Accepted(floor) \subseteq Seen
         /\ \A r \in Accepted(floor) : r.path \in Nat /\ Evidence(r).conf \in Nat
<1>1. Accepted(floor) \subseteq Seen /\ Accepted(floor) \subseteq Requests
  BY DEF Accepted, SeenRequests
<1>2. \A r \in Requests : r.path \in Nat /\ r \in Observations
  BY ExportsAssumption DEF Observations
<1>3. \A r \in Observations : Evidence(r).conf \in 0..100
  BY EvidenceCorrect DEF EvidenceSound
<1>. QED
  BY <1>1, <1>2, <1>3

\* The rows are the accepted ones, each once.
LEMMA RowsAre ==
  ASSUME DataOK, NEW floor
  PROVE  Rows(floor) \in SetToSeqs(Accepted(floor))
<1>. DEFINE S == Accepted(floor)
            R == {p \in S \X S : Above(p[1], p[2])}
<1>1. \A o \in S : /\ Sightings(o) \in Nat /\ FirstSeen(o) \in Nat /\ o.path \in Nat
                   /\ log[FirstSeen(o)] = o
  BY AcceptedAre, SeenFinite, FirstSeenIs DEF DataOK
<1>2. IsFiniteSet(S)
  BY AcceptedAre, SeenFinite, FS_Subset
<1>3. \A a, b \in S : <<a, b>> \in R <=> Above(a, b)
  OBVIOUS
<1>. HIDE DEF R, S
<1>4. ASSUME NEW a \in S, NEW b \in S, a # b PROVE <<a, b>> \in R \/ <<b, a>> \in R
  <2>1. FirstSeen(a) # FirstSeen(b)
    BY <1>1, <1>4
  <2>2. /\ Sightings(a) \in Nat /\ FirstSeen(a) \in Nat /\ a.path \in Nat
        /\ Sightings(b) \in Nat /\ FirstSeen(b) \in Nat /\ b.path \in Nat
    BY <1>1
  <2>3. Above(a, b) \/ Above(b, a)
    BY <2>1, <2>2 DEF Above
  <2>. QED
    BY <1>3, <2>3
<1>5. ASSUME NEW a \in S, NEW b \in S, NEW c \in S, <<a, b>> \in R, <<b, c>> \in R
      PROVE  <<a, c>> \in R
  <2>1. /\ Sightings(a) \in Nat /\ FirstSeen(a) \in Nat /\ a.path \in Nat
        /\ Sightings(b) \in Nat /\ FirstSeen(b) \in Nat /\ b.path \in Nat
        /\ Sightings(c) \in Nat /\ FirstSeen(c) \in Nat /\ c.path \in Nat
    BY <1>1
  <2>2. Above(a, b) /\ Above(b, c)
    BY <1>3, <1>5
  <2>3. Above(a, c)
    BY <2>1, <2>2 DEF Above
  <2>. QED
    BY <1>3, <2>3
<1>6. PICK s : IsInOrder(s, S, R)
  BY <1>2, <1>4, <1>5, SortedExists DEF Orders
<1>7. \A r \in SetToSeqs(S) : \A k \in DOMAIN r : r[k] \in S
  BY <1>2, SeqsOf
<1>8. \E r \in SetToSeqs(S) : \A j, k \in DOMAIN r : j < k => Above(r[j], r[k])
  BY <1>3, <1>6, <1>7 DEF IsInOrder
<1>. QED
  BY <1>8, Zenon DEF Rows, Sorted, S

\* The observations of an action, and the frames of some observations.
Of(a)     == {a.ids[j] : j \in DOMAIN a.ids}
Frames(T) == {i \in DOMAIN log : log[i] \in T}

\* The action a has the rows T, each once, with all their frames and the best of
\* their evidence.
Gathers(a, T) ==
    /\ a.ids \in Seq(T) /\ Of(a) = T
    /\ \A i, j \in DOMAIN a.ids : a.ids[i] = a.ids[j] => i = j
    /\ a.sightings = Cardinality(Frames(T))
    /\ \E r \in T : a.evidence = Evidence(r)
    /\ \A r \in T : Evidence(r).conf <= a.evidence.conf

\* The actions g are those of the rows T.
SurfaceOf(g, T) ==
    /\ DOMAIN g = {Key(r) : r \in T}
    /\ \A k \in DOMAIN g : Gathers(g[k], {r \in T : Key(r) = k})

\* The frames of one more row are its own.
LEMMA FramesAdd ==
  ASSUME DataOK, NEW T, NEW r, r \notin T
  PROVE  /\ Cardinality(Frames(T)) \in Nat
         /\ Cardinality(Frames(T \cup {r})) = Cardinality(Frames(T)) + Sightings(r)
<1>. DEFINE mine == {i \in DOMAIN log : log[i] = r}
<1>1. DOMAIN log = 1..Len(log) /\ Len(log) \in Nat
  BY DEF DataOK
<1>2. IsFiniteSet(DOMAIN log)
  <2>1. 1 \in Int /\ Len(log) \in Int
    BY <1>1
  <2>. QED
    BY <1>1, <2>1, FS_Interval
<1>3. Frames(T) \subseteq DOMAIN log /\ mine \subseteq DOMAIN log
  BY DEF Frames
<1>4. IsFiniteSet(Frames(T)) /\ IsFiniteSet(mine)
  BY <1>2, <1>3, FS_Subset
<1>5. Frames(T \cup {r}) = Frames(T) \cup mine /\ Frames(T) \cap mine = {}
  BY DEF Frames
<1>6. Cardinality(Frames(T) \cup mine) =
        Cardinality(Frames(T)) + Cardinality(mine) - Cardinality(Frames(T) \cap mine)
  BY <1>4, FS_Union
<1>7. Cardinality(Frames(T) \cap mine) = 0
  BY <1>5, FS_EmptySet
<1>8. Cardinality(Frames(T)) \in Nat /\ Cardinality(mine) \in Nat
  BY <1>4, FS_CardinalityType
<1>9. Sightings(r) = Cardinality(mine)
  BY DEF Sightings
<1>. HIDE DEF mine
<1>10. Cardinality(Frames(T \cup {r})) = Cardinality(Frames(T)) + Cardinality(mine) - 0
  BY <1>5, <1>6, <1>7, Zenon
<1>11. Cardinality(Frames(T \cup {r})) = Cardinality(Frames(T)) + Cardinality(mine)
  BY ONLY <1>8, <1>10
<1>. QED
  BY <1>8, <1>9, <1>11, Zenon

\* A row of its own is an action with that row.
LEMMA AloneGathers ==
  ASSUME DataOK, NEW r, Evidence(r).conf \in Nat
  PROVE  Gathers(Alone(r), {r})
<1>1. Alone(r).ids = <<r>> /\ Alone(r).sightings = Sightings(r) /\ Alone(r).evidence = Evidence(r)
  BY DEF Alone
<1>2. <<r>> \in Seq({r}) /\ DOMAIN <<r>> = {1} /\ <<r>>[1] = r
  OBVIOUS
<1>3. Frames({r}) = {i \in DOMAIN log : log[i] = r}
  BY DEF Frames
<1>. QED
  BY <1>1, <1>2, <1>3 DEF Gathers, Of, Sightings

\* One more row joins an action.
LEMMA JoinedGathers ==
  ASSUME DataOK, NEW a, NEW T, Gathers(a, T), NEW r, r \notin T, Evidence(r).conf \in Nat,
         \A q \in T : Evidence(q).conf \in Nat
  PROVE  Gathers(Joined(a, r), T \cup {r})
<1>. DEFINE b == Joined(a, r)
            n == Len(a.ids)
<1>1. /\ b.ids = Append(a.ids, r) /\ b.sightings = a.sightings + Sightings(r)
      /\ b.evidence = IF Evidence(r).conf > a.evidence.conf THEN Evidence(r) ELSE a.evidence
  BY DEF Joined
<1>2. a.ids \in Seq(T) /\ n \in Nat /\ DOMAIN a.ids = 1..n
  BY DEF Gathers
<1>3. /\ b.ids \in Seq(T \cup {r}) /\ DOMAIN b.ids = 1..(n + 1)
      /\ b.ids[n + 1] = r /\ \A j \in 1..n : b.ids[j] = a.ids[j] /\ b.ids[j] \in T
  <2>1. a.ids \in Seq(T \cup {r})
    BY <1>2
  <2>. QED
    BY <1>1, <1>2, <2>1
<1>4. Of(b) = T \cup {r}
  <2>1. \A j \in 1..(n + 1) : j = n + 1 \/ j \in 1..n
    BY <1>2
  <2>2. n + 1 \in 1..(n + 1) /\ \A j \in 1..n : j \in 1..(n + 1)
    BY <1>2
  <2>3. T = {a.ids[j] : j \in 1..n}
    BY <1>2 DEF Gathers, Of
  <2>. QED
    BY <1>3, <2>1, <2>2, <2>3 DEF Of
<1>5. ASSUME NEW i \in DOMAIN b.ids, NEW j \in DOMAIN b.ids, b.ids[i] = b.ids[j] PROVE i = j
  <2>1. (i = n + 1 \/ i \in 1..n) /\ (j = n + 1 \/ j \in 1..n)
    BY <1>2, <1>3
  <2>2. i \in 1..n /\ j \in 1..n => a.ids[i] = a.ids[j]
    BY <1>3, <1>5
  <2>. QED
    BY <1>2, <1>3, <1>5, <2>1, <2>2 DEF Gathers
<1>6. b.sightings = Cardinality(Frames(T \cup {r}))
  BY <1>1, FramesAdd DEF Gathers
<1>7. /\ \E q \in T \cup {r} : b.evidence = Evidence(q)
      /\ \A q \in T \cup {r} : Evidence(q).conf <= b.evidence.conf
  <2>1. PICK q \in T : a.evidence = Evidence(q)
    BY DEF Gathers
  <2>2. \A p \in T : Evidence(p).conf <= Evidence(q).conf /\ Evidence(p).conf \in Nat
    BY <2>1 DEF Gathers
  <2>3. CASE Evidence(r).conf > Evidence(q).conf
    <3>1. b.evidence = Evidence(r)
      BY <1>1, <2>1, <2>3
    <3>. QED
      BY <2>2, <2>3, <3>1
  <2>4. CASE ~(Evidence(r).conf > Evidence(q).conf)
    <3>1. b.evidence = Evidence(q)
      BY <1>1, <2>1, <2>4
    <3>. QED
      BY <2>2, <2>4, <3>1
  <2>. QED
    BY <2>3, <2>4
<1>. QED
  BY <1>3, <1>4, <1>5, <1>6, <1>7 DEF Gathers

\* _add_action adds one row to the actions.
LEMMA AddActionIs ==
  ASSUME DataOK, NEW T, NEW g, SurfaceOf(g, T), NEW r, r \notin T,
         \A q \in T \cup {r} : Evidence(q).conf \in Nat
  PROVE  SurfaceOf(AddAction(g, r), T \cup {r})
<1>. DEFINE h == AddAction(g, r)
            U == T \cup {r}
<1>1. DOMAIN h = DOMAIN g \cup {Key(r)} /\ DOMAIN g = {Key(q) : q \in T}
  BY DEF AddAction, SurfaceOf
<1>2. DOMAIN h = {Key(q) : q \in U}
  BY <1>1
<1>3. ASSUME NEW k \in DOMAIN h PROVE Gathers(h[k], {q \in U : Key(q) = k})
  <2>. DEFINE S == {q \in T : Key(q) = k}
  <2>1. CASE k # Key(r)
    <3>1. h[k] = g[k] /\ k \in DOMAIN g /\ {q \in U : Key(q) = k} = S
      BY <1>1, <1>3, <2>1 DEF AddAction
    <3>. QED
      BY <3>1 DEF SurfaceOf
  <2>2. CASE k = Key(r) /\ k \in DOMAIN g
    <3>1. h[k] = Joined(g[k], r) /\ {q \in U : Key(q) = k} = S \cup {r} /\ r \notin S
      BY <1>3, <2>2 DEF AddAction
    <3>2. Gathers(g[k], S) /\ \A q \in S \cup {r} : Evidence(q).conf \in Nat
      BY <2>2 DEF SurfaceOf
    <3>. HIDE DEF S
    <3>. QED
      BY <3>1, <3>2, JoinedGathers
  <2>3. CASE k = Key(r) /\ k \notin DOMAIN g
    <3>1. h[k] = Alone(r) /\ {q \in U : Key(q) = k} = {r}
      BY <1>1, <1>3, <2>3 DEF AddAction
    <3>. QED
      BY <3>1, AloneGathers
  <2>. QED
    BY <2>1, <2>2, <2>3
<1>. QED
  BY <1>2, <1>3 DEF SurfaceOf

\* The loop makes the actions of all accepted rows.
LEMMA SurfaceIs ==
  ASSUME DataOK, NEW floor
  PROVE  SurfaceOf(Surface(floor), Accepted(floor))
<1>. DEFINE rows == Rows(floor)
            n    == Len(rows)
            A    == Accepted(floor)
            Pass(f, m) == [i \in 0..m |-> IF i = 0 THEN <<>> ELSE AddAction(f[i - 1], rows[i])]
<1>1. /\ rows \in Seq(A) /\ n \in Nat /\ DOMAIN rows = 1..n /\ {rows[i] : i \in DOMAIN rows} = A
      /\ \A i, j \in 1..n : i # j => rows[i] # rows[j]
  <2>1. IsFiniteSet(A)
    BY AcceptedAre, SeenFinite, FS_Subset
  <2>2. rows \in Seq(A) /\ n = Cardinality(A) /\ n \in Nat /\ {rows[i] : i \in DOMAIN rows} = A
    BY <2>1, RowsAre, SeqsOf
  <2>. QED
    BY <2>2, RowsAre DEF SetToSeqs
<1>2. \A q \in A : Evidence(q).conf \in Nat
  BY AcceptedAre
<1>. HIDE DEF rows, n, A
<1>3. \E f : f = Pass(f, n)
  <2>. DEFINE P == {m \in 0..n : \E f : f = Pass(f, m)}
  <2>1. ASSUME NEW m \in 0..n, \A j \in 0..n : j < m => j \in P PROVE m \in P
    <3>1. CASE m = 0
      <4>. DEFINE g == [i \in 0..0 |-> <<>>]
      <4>1. g = Pass(g, 0)
        OBVIOUS
      <4>. QED
        BY <3>1, <4>1
    <3>2. CASE m # 0
      <4>1. m - 1 \in 0..n /\ m - 1 < m
        BY <1>1, <3>2
      <4>2. PICK f : f = Pass(f, m - 1)
        BY <2>1, <4>1
      <4>. DEFINE g == [i \in 0..m |-> IF i = m THEN AddAction(f[m - 1], rows[m]) ELSE f[i]]
      <4>3. ASSUME NEW i \in 0..m PROVE g[i] = Pass(g, m)[i]
        <5>1. CASE i = 0
          <6>1. 0 \in 0..(m - 1) /\ 0 # m
            BY <1>1, <3>2
          <6>2. f[0] = <<>>
            BY <4>2, <6>1
          <6>. QED
            BY <5>1, <6>1, <6>2
        <5>2. CASE i = m
          <6>1. m - 1 \in 0..m /\ m - 1 # m /\ m \in 0..m
            BY <1>1, <3>2
          <6>. QED
            BY <3>2, <5>2, <6>1
        <5>3. CASE i # 0 /\ i # m
          <6>1. i \in 0..(m - 1) /\ i - 1 \in 0..m /\ i - 1 # m
            BY <1>1, <5>3
          <6>2. f[i] = AddAction(f[i - 1], rows[i])
            BY <4>2, <5>3, <6>1
          <6>. QED
            BY <5>3, <6>1, <6>2
        <5>. QED
          BY <5>1, <5>2, <5>3
      <4>4. g = Pass(g, m)
        BY <4>3
      <4>. QED
        BY <4>4
    <3>. QED
      BY <3>1, <3>2
  <2>2. 0..n \subseteq P
    <3>. HIDE DEF P
    <3>1. 0 \in Nat
      OBVIOUS
    <3>. QED
      BY <1>1, <2>1, <3>1, Upward
  <2>3. n \in 0..n
    BY <1>1
  <2>. QED
    BY <2>2, <2>3
<1>. DEFINE after == CHOOSE f : f = Pass(f, n)
<1>4. after = Pass(after, n)
  <2>. HIDE DEF Pass
  <2>. QED
    BY <1>3
<1>5. Surface(floor) = after[n]
  BY DEF Surface, rows, n
<1>. HIDE DEF after
<1>. DEFINE First(m) == {rows[i] : i \in 1..m}
            P == {m \in 0..n : SurfaceOf(after[m], First(m))}
<1>6. ASSUME NEW m \in 0..n, \A j \in 0..n : j < m => j \in P PROVE m \in P
  <2>1. CASE m = 0
    <3>1. after[0] = <<>> /\ First(0) = {}
      BY <1>1, <1>4
    <3>2. SurfaceOf(<<>>, {})
      BY DEF SurfaceOf
    <3>. QED
      BY <2>1, <3>1, <3>2
  <2>2. CASE m # 0
    <3>1. m - 1 \in 0..n /\ m - 1 < m /\ m \in 1..n
      BY <1>1, <2>2
    <3>2. after[m] = AddAction(after[m - 1], rows[m])
      BY <1>4, <2>2
    <3>3. SurfaceOf(after[m - 1], First(m - 1))
      BY <1>6, <3>1
    <3>4. \A i \in 1..m : i = m \/ i \in 1..(m - 1)
      BY <1>1
    <3>5. \A i \in 1..(m - 1) : i \in 1..m /\ i \in 1..n /\ i # m
      BY <1>1
    <3>6. First(m) = First(m - 1) \cup {rows[m]}
      BY <3>1, <3>4, <3>5
    <3>7. rows[m] \notin First(m - 1) /\ First(m) \subseteq A
      BY <1>1, <3>1, <3>4, <3>5
    <3>8. \A q \in First(m - 1) \cup {rows[m]} : Evidence(q).conf \in Nat
      BY <1>2, <3>6, <3>7
    <3>. HIDE DEF First
    <3>9. SurfaceOf(after[m], First(m))
      BY <3>2, <3>3, <3>6, <3>7, <3>8, AddActionIs
    <3>. QED
      BY <3>9
  <2>. QED
    BY <2>1, <2>2
<1>7. 0..n \subseteq P
  <2>. HIDE DEF P
  <2>1. 0 \in Nat
    OBVIOUS
  <2>. QED
    BY <1>1, <1>6, <2>1, Upward
<1>8. n \in 0..n /\ First(n) = A
  BY <1>1
<1>. QED
  BY <1>5, <1>7, <1>8 DEF A

\* Merging loses no row and no evidence, whatever the frames and claims are.
LEMMA MergingCorrect == DataOK => McpKeepsEveryObservation
<1> SUFFICES ASSUME DataOK PROVE McpKeepsEveryObservation
  OBVIOUS
<1>1. TypeOK
  <2>1. \A i \in DOMAIN claims : claims[i] \in Claims
    BY DEF DataOK
  <2>. QED
    BY <2>1 DEF DataOK, TypeOK, Claims
<1>2. ASSUME NEW floor \in Floors, NEW r \in Accepted(floor)
      PROVE  \E k \in DOMAIN Surface(floor) :
                /\ Cardinality({j \in DOMAIN Surface(floor)[k].ids : Surface(floor)[k].ids[j] = r}) = 1
                /\ \A other \in DOMAIN Surface(floor) \ {k} :
                      {j \in DOMAIN Surface(floor)[other].ids : Surface(floor)[other].ids[j] = r} = {}
  <2>. DEFINE g == Surface(floor)
              Rs(k) == {q \in Accepted(floor) : Key(q) = k}
  <2>1. SurfaceOf(g, Accepted(floor))
    BY SurfaceIs
  <2>. HIDE DEF g
  <2>2. Key(r) \in DOMAIN g /\ r \in Rs(Key(r))
    BY <2>1 DEF SurfaceOf
  <2>3. \A k \in DOMAIN g : Gathers(g[k], Rs(k))
    BY <2>1 DEF SurfaceOf
  <2>4. PICK i \in DOMAIN g[Key(r)].ids : g[Key(r)].ids[i] = r
    <3>1. Of(g[Key(r)]) = Rs(Key(r))
      BY <2>2, <2>3 DEF Gathers
    <3>2. r \in Of(g[Key(r)])
      BY <2>2, <3>1, Zenon
    <3>. QED
      BY <3>2 DEF Of
  <2>5. {j \in DOMAIN g[Key(r)].ids : g[Key(r)].ids[j] = r} = {i}
    BY <2>2, <2>3, <2>4 DEF Gathers
  <2>6. Cardinality({i}) = 1
    BY FS_Singleton
  <2>7. ASSUME NEW k \in DOMAIN g, k # Key(r), NEW j \in DOMAIN g[k].ids PROVE g[k].ids[j] # r
    <3>1. g[k].ids[j] \in Rs(k)
      BY <2>3 DEF Gathers, Of
    <3>. QED
      BY <2>7, <3>1
  <2>. QED
    BY <2>2, <2>5, <2>6, <2>7 DEF g
<1>3. ASSUME NEW floor \in Floors, NEW k \in DOMAIN Surface(floor)
      PROVE  /\ Of(Surface(floor)[k]) \subseteq Accepted(floor)
             /\ Surface(floor)[k].sightings =
                   Cardinality({i \in DOMAIN log : log[i] \in Of(Surface(floor)[k])})
             /\ \E r \in Of(Surface(floor)[k]) : Surface(floor)[k].evidence = Evidence(r)
             /\ \A r \in Of(Surface(floor)[k]) : Evidence(r).conf <= Surface(floor)[k].evidence.conf
  <2>. DEFINE T == {q \in Accepted(floor) : Key(q) = k}
  <2>1. Gathers(Surface(floor)[k], T)
    BY SurfaceIs DEF SurfaceOf
  <2>2. T \subseteq Accepted(floor)
    OBVIOUS
  <2>. HIDE DEF T
  <2>. QED
    BY <2>1, <2>2 DEF Gathers, Frames
<1>. QED
  BY <1>1, <1>2, <1>3 DEF McpKeepsEveryObservation, Of

\* Whatever is captured, claimed and migrated: the loop of the candidate MCP
\* surface has each accepted row in exactly one action, where its frames are
\* counted once and the best evidence of the rows is shown.
THEOREM SurfaceKeepsEveryRow == MigrationSpec => []McpKeepsEveryObservation
<1>1. MigrationTypeOK => McpKeepsEveryObservation
  BY MergingCorrect DEF MigrationTypeOK
<1>. QED
  BY <1>1, MigrationTypeCorrect, PTL

-----------------------------------------------------------------------------
(* The listings.                                                             *)

\* A sequence that has the domain of another.
LEMMA MappedSeq ==
  ASSUME NEW X, NEW Y, NEW s \in Seq(X), NEW t,
         t = [k \in DOMAIN s |-> t[k]], \A k \in DOMAIN s : t[k] \in Y
  PROVE  t \in Seq(Y) /\ DOMAIN t = DOMAIN s /\ Len(t) = Len(s)
<1>1. DOMAIN s = 1..Len(s) /\ Len(s) \in Nat
  OBVIOUS
<1>. DEFINE n == Len(s)
<1>. HIDE DEF n
<1>2. DOMAIN s = 1..n /\ n \in Nat
  BY <1>1 DEF n
<1>3. t \in [1..n -> Y]
  BY <1>2, Zenon
<1>4. t \in Seq(Y) /\ Len(t) = n
  BY <1>2, <1>3
<1>. QED
  BY <1>2, <1>3, <1>4 DEF n

\* What experiments are made of.
Kinds == {"raise_claim", "resolve_contradiction", "label_capture", "interpret_unknown"}
RowRecords == [kind : Kinds, claims : SUBSET Nat, observations : SUBSET Subjects]

LEMMA RowTyped ==
  ASSUME NEW kind \in Kinds, NEW about \in SUBSET Nat, NEW cited \in SUBSET Subjects
  PROVE  /\ Row(kind, about, cited) \in RowRecords
         /\ Row(kind, about, cited).claims = about /\ Row(kind, about, cited).observations = cited
  BY DEF Row, RowRecords

\* The claims that an experiment asks to raise are all asked about.
LEMMA RaiseIs ==
  ASSUME DataOK
  PROVE  /\ RaiseRows \in Seq(RowRecords)
         /\ \A i \in Raisable : \E k \in DOMAIN RaiseRows :
               RaiseRows[k] = Row("raise_claim", {i}, {claims[i].subject})
<1>. DEFINE S == Raisable
            R == {p \in S \X S : Stronger(p[1], p[2])}
            order == Sorted(S, Stronger)
<1>1. \A i \in S : i \in Nat /\ i \in DOMAIN claims /\ claims[i].conf \in Nat
  <2>1. ASSUME NEW i \in S PROVE i \in DOMAIN claims /\ i \in Nat /\ claims[i].conf \in Nat
    <3>1. i \in DOMAIN claims /\ i \in Nat /\ claims[i] \in Claims
      BY DEF Raisable, DataOK
    <3>2. claims[i].conf \in Confidences \cup {0}
      BY <3>1 DEF Claims
    <3>3. \A x \in Confidences \cup {0} : x \in Nat
      BY ExportsAssumption
    <3>. QED
      BY ONLY <3>1, <3>2, <3>3, Zenon
  <2>. QED
    BY <2>1
<1>2. IsFiniteSet(S)
  <2>1. S \in SUBSET (1..Len(claims)) /\ 1 \in Int /\ Len(claims) \in Int
    BY DEF DataOK, Raisable
  <2>2. IsFiniteSet(1..Len(claims))
    BY <2>1, FS_Interval
  <2>. QED
    BY <2>1, <2>2, FS_Subset
<1>3. \A a, b \in S : <<a, b>> \in R <=> Stronger(a, b)
  OBVIOUS
<1>. HIDE DEF R, S
<1>4. ASSUME NEW a \in S, NEW b \in S, a # b PROVE <<a, b>> \in R \/ <<b, a>> \in R
  <2>1. a \in Nat /\ b \in Nat /\ claims[a].conf \in Nat /\ claims[b].conf \in Nat
    BY <1>1
  <2>2. Stronger(a, b) \/ Stronger(b, a)
    BY <1>4, <2>1 DEF Stronger
  <2>. QED
    BY <1>3, <2>2
<1>5. ASSUME NEW a \in S, NEW b \in S, NEW c \in S, <<a, b>> \in R, <<b, c>> \in R
      PROVE  <<a, c>> \in R
  <2>1. /\ a \in Nat /\ b \in Nat /\ c \in Nat
        /\ claims[a].conf \in Nat /\ claims[b].conf \in Nat /\ claims[c].conf \in Nat
    BY <1>1
  <2>2. Stronger(a, b) /\ Stronger(b, c)
    BY <1>3, <1>5
  <2>3. Stronger(a, c)
    BY <2>1, <2>2 DEF Stronger
  <2>. QED
    BY <1>3, <2>3
<1>6. PICK s : IsInOrder(s, S, R)
  BY <1>2, <1>4, <1>5, SortedExists DEF Orders
<1>7. \A r \in SetToSeqs(S) : r \in Seq(S) /\ \A k \in DOMAIN r : r[k] \in S
  BY <1>2, SeqsOf
<1>8. \E r \in SetToSeqs(S) : \A j, k \in DOMAIN r : j < k => Stronger(r[j], r[k])
  BY <1>3, <1>6, <1>7 DEF IsInOrder
<1>9. order \in SetToSeqs(S)
  BY <1>8, Zenon DEF Sorted
<1>10. RaiseRows = [k \in DOMAIN order |-> Row("raise_claim", {order[k]}, {claims[order[k]].subject})]
  BY DEF RaiseRows, S
<1>. HIDE DEF order
<1>11. /\ order \in Seq(S) /\ {order[k] : k \in DOMAIN order} = S
  BY <1>2, <1>9, SeqsOf
<1>12. RaiseRows \in Seq(RowRecords)
  <2>1. ASSUME NEW k \in DOMAIN order
        PROVE  Row("raise_claim", {order[k]}, {claims[order[k]].subject}) \in RowRecords
    <3>1. order[k] \in S
      BY <1>11
    <3>2. order[k] \in Nat /\ claims[order[k]] \in Claims
      BY <1>1, <3>1 DEF DataOK
    <3>3. {order[k]} \in SUBSET Nat /\ {claims[order[k]].subject} \in SUBSET Subjects
      BY <3>2 DEF Claims
    <3>4. "raise_claim" \in Kinds
      BY DEF Kinds
    <3>. QED
      BY <3>3, <3>4, RowTyped
  <2>2. /\ RaiseRows = [k \in DOMAIN order |-> RaiseRows[k]]
        /\ \A k \in DOMAIN order : RaiseRows[k] \in RowRecords
    BY <1>10, <2>1, Zenon
  <2>. QED
    BY <1>11, <2>2, MappedSeq
<1>13. ASSUME NEW i \in S
       PROVE  \E k \in DOMAIN RaiseRows : RaiseRows[k] = Row("raise_claim", {i}, {claims[i].subject})
  <2>1. PICK k \in DOMAIN order : order[k] = i
    BY <1>11
  <2>. QED
    BY <1>10, <2>1
<1>. QED
  BY <1>12, <1>13 DEF S

\* The same of contradictions.
LEMMA ContradictionsAre ==
  ASSUME DataOK
  PROVE  /\ ContradictionRows \in Seq(RowRecords)
         /\ \A i \in DOMAIN claims : RivalsOf(claims, i) # {} =>
               \E k \in DOMAIN ContradictionRows :
                  ContradictionRows[k] = Row("resolve_contradiction", {i} \cup RivalsOf(claims, i), {})
<1>. DEFINE S == {i \in DOMAIN claims : RivalsOf(claims, i) # {}}
            s == SetToSeq(S)
<1>1. IsFiniteSet(S)
  <2>1. S \in SUBSET (1..Len(claims)) /\ 1 \in Int /\ Len(claims) \in Int
    BY DEF DataOK
  <2>2. IsFiniteSet(1..Len(claims))
    BY <2>1, FS_Interval
  <2>. QED
    BY <2>1, <2>2, FS_Subset
<1>. HIDE DEF S
<1>2. Cardinality(S) \in Nat /\ ExistsBijection(1..Cardinality(S), S)
  BY <1>1, FS_CardinalityType
<1>3. \E f \in [1..Cardinality(S) -> S] : IsInjective(f)
  BY <1>2, Zenon DEF ExistsBijection, Bijection, Injection
<1>4. s \in [1..Cardinality(S) -> S] /\ IsInjective(s)
  BY <1>3, Zenon DEF SetToSeq
<1>5. s \in SetToSeqs(S)
  BY <1>4 DEF SetToSeqs, IsInjective
<1>6. ContradictionRows =
         [k \in DOMAIN s |-> Row("resolve_contradiction", {s[k]} \cup RivalsOf(claims, s[k]), {})]
  BY DEF ContradictionRows, S
<1>. HIDE DEF s
<1>7. s \in Seq(S) /\ {s[k] : k \in DOMAIN s} = S
  BY <1>1, <1>5, SeqsOf
<1>8. ContradictionRows \in Seq(RowRecords)
  <2>1. ASSUME NEW k \in DOMAIN s
        PROVE  Row("resolve_contradiction", {s[k]} \cup RivalsOf(claims, s[k]), {}) \in RowRecords
    <3>1. s[k] \in S
      BY <1>7
    <3>2. {s[k]} \cup RivalsOf(claims, s[k]) \in SUBSET Nat /\ {} \in SUBSET Subjects
      BY <3>1 DEF S, RivalsOf, DataOK
    <3>3. "resolve_contradiction" \in Kinds
      BY DEF Kinds
    <3>. QED
      BY <3>2, <3>3, RowTyped
  <2>2. /\ ContradictionRows = [k \in DOMAIN s |-> ContradictionRows[k]]
        /\ \A k \in DOMAIN s : ContradictionRows[k] \in RowRecords
    BY <1>6, <2>1, Zenon
  <2>. QED
    BY <1>7, <2>2, MappedSeq
<1>9. ASSUME NEW i \in S
      PROVE  \E k \in DOMAIN ContradictionRows :
                ContradictionRows[k] = Row("resolve_contradiction", {i} \cup RivalsOf(claims, i), {})
  <2>1. PICK k \in DOMAIN s : s[k] = i
    BY <1>7
  <2>. QED
    BY <1>6, <2>1
<1>. QED
  BY <1>8, <1>9 DEF S

\* What is in s is in u.
Holds(u, s) == \A k \in DOMAIN s : \E l \in DOMAIN u : u[l] = s[k]

\* What two sequences hold together.
LEMMA InConcat ==
  ASSUME NEW X, NEW s \in Seq(X), NEW t \in Seq(X), NEW u, u = s \o t
  PROVE  /\ u \in Seq(X) /\ Len(u) \in Nat
         /\ Len(s) <= Len(u) /\ Len(t) <= Len(u)
         /\ Len(u) = Len(s) + Len(t)
         /\ Holds(u, s) /\ Holds(u, t)
<1>1. /\ u \in Seq(X) /\ Len(u) = Len(s) + Len(t)
      /\ Len(s) \in Nat /\ Len(t) \in Nat
      /\ DOMAIN u = 1..Len(u) /\ DOMAIN s = 1..Len(s) /\ DOMAIN t = 1..Len(t)
  BY ConcatProperties, LenProperties
<1>2. \A i \in 1..(Len(s) + Len(t)) : u[i] = IF i <= Len(s) THEN s[i] ELSE t[i - Len(s)]
  BY ConcatProperties
<1>. DEFINE m == Len(s)  n == Len(t)
<1>3. \A k \in 1..m : k \in 1..(m + n) /\ k <= m
  BY <1>1
<1>4. \A k \in 1..n : k + m \in 1..(m + n) /\ ~(k + m <= m) /\ (k + m) - m = k
  BY <1>1
<1>5. \A k \in DOMAIN s : u[k] = s[k] /\ k \in DOMAIN u
  BY <1>1, <1>2, <1>3
<1>6. \A k \in DOMAIN t : u[k + m] = t[k] /\ k + m \in DOMAIN u
  BY <1>1, <1>2, <1>4
<1>7. m <= m + n /\ n <= m + n /\ m + n \in Nat
  BY <1>1
<1>. QED
  BY <1>1, <1>5, <1>6, <1>7 DEF Holds

\* semantic_for: the strongest claim on an observation.
LEMMA SemanticIs ==
  ASSUME DataOK, NEW o
  PROVE  /\ Semantic(o) # 0 => /\ Semantic(o) \in DOMAIN claims
                               /\ claims[Semantic(o)].subject = o
                               /\ \A j \in DOMAIN claims :
                                     claims[j].subject = o => claims[j].conf <= claims[Semantic(o)].conf
         /\ \A j \in DOMAIN claims : claims[j].subject = o => Semantic(o) # 0
<1>. DEFINE on == {i \in DOMAIN claims : claims[i].subject = o}
<1>1. CASE on = {}
  BY <1>1 DEF Semantic
<1>2. CASE on # {}
  <2>t. \A i \in on : i \in Nat /\ i # 0 /\ claims[i].conf \in 0..100
    <3>1. ASSUME NEW i \in on PROVE i \in Nat /\ i # 0 /\ claims[i].conf \in 0..100
      <4>1. i \in Nat /\ i # 0 /\ claims[i] \in Claims
        BY DEF DataOK
      <4>2. claims[i].conf \in Confidences \cup {0}
        BY <4>1 DEF Claims
      <4>3. \A x \in Confidences \cup {0} : x \in 0..100
        BY ExportsAssumption
      <4>. QED
        BY ONLY <4>1, <4>2, <4>3, Zenon
    <3>. QED
      BY <3>1
  <2>. DEFINE confs == {claims[i].conf : i \in on}
  <2>1. PICK c \in confs : \A d \in confs : d <= c
    <3>1. confs \in SUBSET Nat /\ confs # {} /\ \A d \in confs : d <= 100
      BY <1>2, <2>t
    <3>. QED
      BY <3>1, GreatestExists
  <2>. DEFINE strong == {i \in on : claims[i].conf = c}
  <2>2. PICK i \in strong : \A j \in strong : i <= j
    <3>1. strong \in SUBSET Nat /\ strong # {}
      BY <2>t, <2>1
    <3>. QED
      BY <3>1, LeastExists
  <2>. DEFINE first(k) == \A j \in on : \/ claims[k].conf > claims[j].conf
                                        \/ claims[k].conf = claims[j].conf /\ k <= j
  <2>3. i \in on /\ first(i)
    <3>1. ASSUME NEW j \in on
          PROVE  \/ claims[i].conf > claims[j].conf
                 \/ claims[i].conf = claims[j].conf /\ i <= j
      <4>1. claims[j].conf <= c /\ claims[i].conf = c
        BY <2>1, <2>2
      <4>2. claims[j].conf = c => i <= j
        BY <2>2
      <4>3. c \in Nat /\ claims[j].conf \in Nat
        BY <2>t, <2>1
      <4>. QED
        BY <4>1, <4>2, <4>3
    <3>. QED
      BY <2>2, <3>1
  <2>4. Semantic(o) = CHOOSE k \in on : first(k)
    BY <1>2 DEF Semantic
  <2>5. Semantic(o) \in on /\ first(Semantic(o))
    BY <2>3, <2>4, Zenon
  <2>6. ASSUME NEW j \in on PROVE claims[j].conf <= claims[Semantic(o)].conf
    <3>1. claims[j].conf \in Nat /\ claims[Semantic(o)].conf \in Nat
      BY <2>t, <2>5
    <3>. QED
      BY <2>5, <3>1
  <2>. QED
    BY <2>t, <2>5, <2>6
<1>. QED
  BY <1>1, <1>2

\* The listings and the export of a request agree.
LEMMA ListedExported == DataOK => ListedIsExported
<1> SUFFICES ASSUME DataOK, NEW r \in SeenRequests
             PROVE  /\ ~IsUnknown(r) => Evidence(r).rank <= Rank(10)
                    /\ Semantic(r) # 0 => claims[Semantic(r)].conf <= Evidence(r).conf
  BY DEF ListedIsExported
<1>1. /\ Evidence(r).conf \in 0..100 /\ Evidence(r).rank = Rank(Evidence(r).conf)
      /\ \A i \in ClaimsOn(r) : claims[i].conf <= Evidence(r).conf
  BY EvidenceCorrect DEF EvidenceSound, SeenRequests, Observations
<1>2. \A i \in DOMAIN claims : claims[i].subject = r => i \in ClaimsOn(r)
  BY DEF ClaimsOn
<1>3. ASSUME ~IsUnknown(r) PROVE Evidence(r).rank <= Rank(10)
  <2>1. PICK i \in ClaimsOn(r) : ~(claims[i].conf < 10)
    BY <1>2, <1>3 DEF IsUnknown
  <2>2. claims[i].conf \in 0..100 /\ claims[i].conf <= Evidence(r).conf
    BY <1>1, ClaimsOnTyped
  <2>3. 10 <= Evidence(r).conf /\ Evidence(r).conf \in Nat
    BY <1>1, <2>1, <2>2
  <2>. QED
    BY <1>1, <2>3, RankFalls
<1>4. ASSUME Semantic(r) # 0 PROVE claims[Semantic(r)].conf <= Evidence(r).conf
  BY <1>1, <1>2, <1>4, SemanticIs
<1>. QED
  BY <1>3, <1>4

\* No more observations are unknown than the unknowns keep.
FewUnknowns == Cardinality({o \in Seen : IsUnknown(o)}) <= UnknownsCut

\* The unknowns that are kept are all, as long as they are no more than are kept.
LEMMA UnknownsAre ==
  ASSUME DataOK, FewUnknowns
  PROVE  /\ Unknowns \in Seq(Seen)
         /\ {Unknowns[k] : k \in DOMAIN Unknowns} = {o \in Seen : IsUnknown(o)}
<1>. DEFINE S == {o \in Seen : IsUnknown(o)}
<1>1. /\ Ranked(S) \in Seq(S) /\ Len(Ranked(S)) = Cardinality(S)
      /\ Answered([rows |-> Ranked(S)]) = S
  <2>1. S \in SUBSET Seen
    OBVIOUS
  <2>. HIDE DEF S
  <2>. QED
    BY <2>1, RankedIs
<1>2. Cardinality(S) <= UnknownsCut
  BY DEF FewUnknowns
<1>3. Unknowns = Ranked(S)
  <2>1. UnknownsCut \in Nat
    BY ListingsAssumption
  <2>2. Cut(Ranked(S), UnknownsCut) = Ranked(S)
    <3>. HIDE DEF S
    <3>. QED
      BY <1>1, <1>2, <2>1, CutIs
  <2>. QED
    BY <2>2 DEF Unknowns
<1>4. Ranked(S) \in Seq(Seen)
  <2>1. S \subseteq Seen
    OBVIOUS
  <2>. HIDE DEF S
  <2>. QED
    BY <1>1, <2>1
<1>. QED
  BY <1>1, <1>3, <1>4 DEF Answered

\* An answer that counts before it cuts has all rows, or says that it has not.
LEMMA CountedIs ==
  ASSUME NEW T, NEW rows \in Seq(T), NEW n \in Nat, ~CountThenCut(rows, n).truncated
  PROVE  Answered(CountThenCut(rows, n)) = {rows[k] : k \in DOMAIN rows}
<1>. DEFINE a == CountThenCut(rows, n)
<1>1. a.truncated = (Len(rows) > n) /\ a.rows = Cut(rows, n)
  BY Zenon DEF CountThenCut
<1>. HIDE DEF a
<1>2. Len(rows) \in Nat /\ ~(Len(rows) > n)
  <2>1. ~a.truncated
    BY DEF a
  <2>2. ~(Len(rows) > n)
    BY <1>1, <2>1, Zenon
  <2>. QED
    BY <2>2
<1>3. Cut(rows, n) = rows
  BY <1>2, CutIs
<1>4. a.rows = rows
  BY <1>1, <1>3
<1>5. Answered(a) = {rows[k] : k \in DOMAIN rows}
  BY <1>4, Zenon DEF Answered
<1>. QED
  BY <1>5 DEF a

\* Of the requests with one template one is the last that was seen first.
LEMMA LastOfIs ==
  ASSUME DataOK, NEW r \in SeenRequests
  PROVE  LastOf(Template(r)) \in SeenRequests /\ Template(LastOf(Template(r))) = Template(r)
<1>. DEFINE t == Template(r)
            same == {q \in SeenRequests : Template(q) = t}
            firsts == {FirstSeen(q) : q \in same}
<1>1. \A q \in same : FirstSeen(q) \in Nat /\ FirstSeen(q) <= Len(log)
  <2>1. \A q \in same : q \in Seen
    BY DEF SeenRequests
  <2>2. \A q \in same : FirstSeen(q) \in DOMAIN log /\ FirstSeen(q) \in Nat
    BY <2>1, FirstSeenIs DEF DataOK
  <2>. QED
    BY <2>2 DEF DataOK
<1>2. PICK m \in firsts : \A n \in firsts : n <= m
  <2>1. Len(log) \in Nat
    BY DEF DataOK
  <2>2. firsts \in SUBSET Nat /\ firsts # {} /\ \A n \in firsts : n <= Len(log)
    BY <1>1
  <2>. QED
    BY <2>1, <2>2, GreatestExists
<1>3. PICK q \in same : FirstSeen(q) = m
  OBVIOUS
<1>4. \E l \in SeenRequests : /\ Template(l) = t
                              /\ \A p \in SeenRequests : Template(p) = t => FirstSeen(p) <= FirstSeen(l)
  BY <1>2, <1>3
<1>5. LastOf(t) \in SeenRequests /\ Template(LastOf(t)) = t
  <2>. HIDE DEF t
  <2>. QED
    BY <1>4, Zenon DEF LastOf
<1>. QED
  BY <1>5

\* An answer that does not say it is truncated has everything.
LEMMA NothingCut ==
  ASSUME DataOK, FewUnknowns
  PROVE  UntruncatedIsComplete
<1> SUFFICES ASSUME NEW limit \in Limits
             PROVE  /\ ~ObservationRows(limit).truncated => Answered(ObservationRows(limit)) = Seen
                    /\ ~UnknownRows(limit).truncated =>
                          Answered(UnknownRows(limit)) = {o \in Seen : IsUnknown(o)}
                    /\ ~EndpointRows(limit).truncated =>
                          {Template(r) : r \in Answered(EndpointRows(limit))}
                             = {Template(r) : r \in SeenRequests}
  BY DEF UntruncatedIsComplete
<1>0. limit \in Nat
  BY ListingsAssumption
<1>1. ASSUME ~ObservationRows(limit).truncated PROVE Answered(ObservationRows(limit)) = Seen
  <2>1. Ranked(Seen) \in Seq(Seen) /\ Answered([rows |-> Ranked(Seen)]) = Seen
    BY RankedIs
  <2>2. {Ranked(Seen)[k] : k \in DOMAIN Ranked(Seen)} = Seen
    BY <2>1, AnsweredIs
  <2>3. ObservationRows(limit) = CountThenCut(Ranked(Seen), limit)
    BY DEF ObservationRows
  <2>4. ~CountThenCut(Ranked(Seen), limit).truncated
    BY <1>1, <2>3
  <2>5. Answered(CountThenCut(Ranked(Seen), limit)) = {Ranked(Seen)[k] : k \in DOMAIN Ranked(Seen)}
    BY <1>0, <2>1, <2>4, CountedIs
  <2>. QED
    BY <2>2, <2>3, <2>5
<1>2. ASSUME ~UnknownRows(limit).truncated
      PROVE  Answered(UnknownRows(limit)) = {o \in Seen : IsUnknown(o)}
  BY <1>0, <1>2, UnknownsAre, CountedIs DEF UnknownRows
<1>3. ASSUME ~EndpointRows(limit).truncated
      PROVE  {Template(r) : r \in Answered(EndpointRows(limit))} = {Template(r) : r \in SeenRequests}
  <2>. DEFINE S == {LastOf(Template(r)) : r \in SeenRequests}
  <2>1. S \in SUBSET Seen
    BY LastOfIs DEF SeenRequests
  <2>2. Ranked(S) \in Seq(S) /\ Answered([rows |-> Ranked(S)]) = S
    <3>. HIDE DEF S
    <3>. QED
      BY <2>1, RankedIs
  <2>3. Answered(EndpointRows(limit)) = S
    <3>1. EndpointRows(limit) = CountThenCut(Ranked(S), limit)
      BY DEF EndpointRows
    <3>. HIDE DEF S
    <3>2. {Ranked(S)[k] : k \in DOMAIN Ranked(S)} = S
      BY <2>2, AnsweredIs
    <3>3. ~CountThenCut(Ranked(S), limit).truncated
      BY <1>3, <3>1
    <3>4. Answered(CountThenCut(Ranked(S), limit)) = {Ranked(S)[k] : k \in DOMAIN Ranked(S)}
      BY <1>0, <2>2, <3>3, CountedIs
    <3>. QED
      BY <3>1, <3>2, <3>4
  <2>4. \A r \in SeenRequests : Template(LastOf(Template(r))) = Template(r)
    BY LastOfIs
  <2>5. {Template(l) : l \in S} = {Template(r) : r \in SeenRequests}
    BY <2>4
  <2>. QED
    BY <2>3, <2>5
<1>. QED
  BY <1>1, <1>2, <1>3

\* The captures without a label, one row each.
LEMMA LabelsAre == LabelRows \in Seq(RowRecords)
<1>1. Row("label_capture", {}, {}) \in RowRecords
  <2>1. "label_capture" \in Kinds
    BY DEF Kinds
  <2>. QED
    BY <2>1, RowTyped
<1>. DEFINE n == IF log = <<>> THEN 0 ELSE Unlabelled
<1>2. n \in Nat
  BY ListingsAssumption
<1>3. LabelRows = [k \in 1..n |-> Row("label_capture", {}, {})]
  BY DEF LabelRows
<1>. HIDE DEF n
<1>4. LabelRows \in [1..n -> RowRecords]
  BY <1>1, <1>3, Zenon
<1>. QED
  BY <1>2, <1>4

\* Experiments that do not say they are truncated hold every row.
LEMMA ExperimentsAre ==
  ASSUME DataOK, FewUnknowns, NEW limit \in Nat, ~Experiments(limit).truncated
  PROVE  /\ \A k \in DOMAIN RaiseRows : RaiseRows[k] \in Answered(Experiments(limit))
         /\ \A k \in DOMAIN ContradictionRows :
               ContradictionRows[k] \in Answered(Experiments(limit))
         /\ \A k \in DOMAIN Unknowns :
               Row("interpret_unknown", {}, {Unknowns[k]}) \in Answered(Experiments(limit))
<1>. DEFINE argued == RaiseRows \o ContradictionRows
            known  == argued \o LabelRows
            room   == IF limit > Len(known) THEN limit - Len(known) ELSE 0
            asked  == Cut(Unknowns, room)
            open   == [k \in DOMAIN asked |-> Row("interpret_unknown", {}, {asked[k]})]
            all    == known \o open
            a      == Experiments(limit)
<1>1. RaiseRows \in Seq(RowRecords) /\ ContradictionRows \in Seq(RowRecords) /\ LabelRows \in Seq(RowRecords)
  BY RaiseIs, ContradictionsAre, LabelsAre
<1>2. argued \in Seq(RowRecords) /\ Holds(argued, RaiseRows) /\ Holds(argued, ContradictionRows)
  <2>1. argued = RaiseRows \o ContradictionRows
    OBVIOUS
  <2>. HIDE DEF argued
  <2>. QED
    BY <1>1, <2>1, InConcat
<1>a. a = CutThenCount(all, limit)
  BY DEF Experiments
<1>. HIDE DEF argued
<1>3. known \in Seq(RowRecords) /\ Len(known) \in Nat /\ Holds(known, argued)
  <2>1. known = argued \o LabelRows
    OBVIOUS
  <2>. HIDE DEF known
  <2>. QED
    BY <1>1, <1>2, <2>1, InConcat
<1>. HIDE DEF known
<1>4. room \in Nat
  BY <1>3
<1>. HIDE DEF room
<1>5. Unknowns \in Seq(Seen) /\ Seen \subseteq Subjects /\ Len(Unknowns) \in Nat
  <2>1. Unknowns \in Seq(Seen)
    BY UnknownsAre
  <2>2. Seen \subseteq Subjects
    BY DEF Seen, DataOK, Subjects, Observations
  <2>. QED
    BY <2>1, <2>2
<1>6. asked \in Seq(Seen)
  BY <1>4, <1>5, CutIs
<1>. HIDE DEF asked
<1>7. open \in Seq(RowRecords) /\ DOMAIN open = DOMAIN asked /\ Len(open) = Len(asked)
  <2>1. ASSUME NEW k \in DOMAIN asked PROVE Row("interpret_unknown", {}, {asked[k]}) \in RowRecords
    <3>1. asked[k] \in Seen
      BY <1>6
    <3>2. {} \in SUBSET Nat /\ {asked[k]} \in SUBSET Subjects /\ "interpret_unknown" \in Kinds
      BY <1>5, <3>1 DEF Kinds
    <3>. QED
      BY <3>2, RowTyped
  <2>2. open = [k \in DOMAIN asked |-> open[k]] /\ \A k \in DOMAIN asked : open[k] \in RowRecords
    BY <2>1, Zenon
  <2>. QED
    <3>. HIDE DEF open
    <3>. QED
      BY <1>6, <2>2, MappedSeq
<1>8. \A k \in DOMAIN asked : open[k] = Row("interpret_unknown", {}, {asked[k]})
  BY Zenon
<1>. HIDE DEF open
<1>9. /\ all \in Seq(RowRecords) /\ Len(all) \in Nat /\ Len(all) = Len(known) + Len(open)
      /\ Holds(all, known) /\ Holds(all, open)
  <2>1. all = known \o open
    OBVIOUS
  <2>. HIDE DEF all
  <2>. QED
    <3>1. known \in Seq(RowRecords) /\ open \in Seq(RowRecords)
      BY <1>3, <1>7
    <3>2. all \in Seq(RowRecords) /\ Holds(all, known) /\ Holds(all, open)
      BY ONLY <2>1, <3>1, InConcat
    <3>3. Len(all) = Len(known) + Len(open) /\ Len(all) \in Nat
      BY <2>1, <3>1
    <3>. QED
      BY <3>2, <3>3
<1>. HIDE DEF all
<1>10. /\ a.rows = Cut(all, limit)
       /\ ~a.truncated => ~(Len(Cut(all, limit)) >= limit)
  <2>1. /\ CutThenCount(all, limit).rows = Cut(all, limit)
        /\ ~CutThenCount(all, limit).truncated => ~(Len(Cut(all, limit)) >= limit)
    BY Zenon DEF CutThenCount
  <2>. HIDE DEF a
  <2>. QED
    BY <1>a, <2>1
<1>. HIDE DEF a
<1>11. ~a.truncated
  BY DEF a
<1>12. ~(Len(Cut(all, limit)) >= limit)
  BY <1>10, <1>11
<1>13. Cut(all, limit) = all /\ Len(all) < limit
  <2>1. ~(Len(all) > limit)
    <3>1. ASSUME Len(all) > limit PROVE FALSE
      <4>1. Len(Cut(all, limit)) = limit
        BY <1>9, <3>1, CutIs
      <4>. QED
        BY <1>12, <4>1
    <3>. QED
      BY <3>1
  <2>2. Cut(all, limit) = all
    BY <1>9, <2>1, CutIs
  <2>. QED
    BY <1>9, <1>12, <2>2
<1>14. \A l \in DOMAIN all : all[l] \in Answered(a)
  <2>1. a.rows = all
    BY <1>10, <1>13
  <2>. QED
    BY <2>1, Zenon DEF Answered
<1>15. asked = Unknowns
  <2>1. Len(asked) \in Nat
    BY <1>6
  <2>2. Len(asked) < room
    BY <1>3, <1>7, <1>9, <1>13, <2>1 DEF room
  <2>3. ~(Len(Unknowns) > room)
    <3>1. ASSUME Len(Unknowns) > room PROVE FALSE
      <4>1. Len(asked) = room
        BY <1>4, <1>5, <3>1, CutIs DEF asked
      <4>. QED
        BY <1>4, <2>1, <2>2, <4>1
    <3>. QED
      BY <3>1
  <2>4. Len(Unknowns) <= room
    BY <1>4, <1>5, <2>3
  <2>. QED
    BY <1>4, <1>5, <2>4, CutIs DEF asked
<1>16. \A k \in DOMAIN argued : argued[k] \in Answered(a)
  BY <1>3, <1>9, <1>14 DEF Holds
<1>17. \A k \in DOMAIN Unknowns : Row("interpret_unknown", {}, {Unknowns[k]}) \in Answered(a)
  BY <1>7, <1>8, <1>9, <1>14, <1>15 DEF Holds
<1>. QED
  BY <1>2, <1>16, <1>17 DEF a, Holds

\* Every observation is settled, or an experiment asks about it.
LEMMA NothingUnasked ==
  ASSUME DataOK, FewUnknowns
  PROVE  SettledOrAsked
<1> SUFFICES ASSUME NEW limit \in Limits, ~Experiments(limit).truncated, NEW o \in Seen
             PROVE  \/ Semantic(o) # 0 /\ claims[Semantic(o)].conf >= 80
                                      /\ RivalsOf(claims, Semantic(o)) = {}
                    \/ \E row \in Answered(Experiments(limit)) :
                          \/ o \in row.observations
                          \/ \E i \in row.claims : claims[i].subject = o
  BY DEF SettledOrAsked
<1>. DEFINE asked == Answered(Experiments(limit))
            i     == Semantic(o)
<1>0. limit \in Nat
  BY ListingsAssumption
<1>1. /\ \A k \in DOMAIN RaiseRows : RaiseRows[k] \in asked
      /\ \A k \in DOMAIN ContradictionRows : ContradictionRows[k] \in asked
      /\ \A k \in DOMAIN Unknowns : Row("interpret_unknown", {}, {Unknowns[k]}) \in asked
  BY <1>0, ExperimentsAre
<1>. HIDE DEF asked
<1>2. CASE IsUnknown(o)
  <2>1. PICK k \in DOMAIN Unknowns : Unknowns[k] = o
    BY <1>2, UnknownsAre
  <2>2. Row("interpret_unknown", {}, {o}) \in asked
    BY <1>1, <2>1
  <2>3. o \in Row("interpret_unknown", {}, {o}).observations
    BY DEF Row
  <2>. QED
    BY <2>2, <2>3 DEF asked
<1>3. CASE ~IsUnknown(o)
  <2>1. i # 0 /\ i \in DOMAIN claims /\ claims[i].subject = o /\ i \in Nat
    <3>1. PICK j \in DOMAIN claims : claims[j].subject = o
      BY <1>3 DEF IsUnknown
    <3>2. i # 0 /\ i \in DOMAIN claims /\ claims[i].subject = o
      BY <3>1, SemanticIs
    <3>. QED
      BY <3>2 DEF DataOK
  <2>. HIDE DEF i
  <2>2. CASE claims[i].conf < 80
    <3>1. i \in Raisable
      BY <2>1, <2>2 DEF Raisable
    <3>2. PICK k \in DOMAIN RaiseRows : RaiseRows[k] = Row("raise_claim", {i}, {claims[i].subject})
      BY <3>1, RaiseIs
    <3>3. Row("raise_claim", {i}, {o}) \in asked
      BY <1>1, <2>1, <3>2
    <3>4. o \in Row("raise_claim", {i}, {o}).observations
      BY DEF Row
    <3>. QED
      BY <3>3, <3>4 DEF asked
  <2>3. CASE RivalsOf(claims, i) # {}
    <3>. DEFINE row == Row("resolve_contradiction", {i} \cup RivalsOf(claims, i), {})
    <3>1. PICK k \in DOMAIN ContradictionRows : ContradictionRows[k] = row
      BY <2>1, <2>3, ContradictionsAre
    <3>2. row \in asked
      BY <1>1, <3>1
    <3>3. i \in row.claims
      BY DEF Row
    <3>. QED
      BY <2>1, <3>2, <3>3 DEF asked
  <2>4. CASE ~(claims[i].conf < 80) /\ RivalsOf(claims, i) = {}
    <3>1. claims[i].conf \in Nat
      <4>1. claims[i] \in Claims
        BY <2>1 DEF DataOK
      <4>3. claims[i].conf \in Confidences \cup {0}
        BY <4>1 DEF Claims
      <4>2. \A x \in Confidences \cup {0} : x \in Nat
        BY ExportsAssumption
      <4>. QED
        BY ONLY <4>2, <4>3, Zenon
    <3>2. claims[i].conf >= 80
      BY <2>4, <3>1
    <3>. QED
      BY <2>1, <2>4, <3>2 DEF i
  <2>. QED
    BY <2>2, <2>3, <2>4
<1>. QED
  BY <1>2, <1>3

\* Whatever is captured, claimed and migrated: what the listings call explained
\* is exported, at no lower confidence; and as long as the unknowns are not cut,
\* every observation is listed, settled or asked about, or the answer says that
\* it is truncated.
THEOREM HonestySurface ==
  MigrationSpec => [](ListedIsExported /\ (FewUnknowns => NothingFallsThrough))
<1>1. MigrationTypeOK => ListedIsExported /\ (FewUnknowns => NothingFallsThrough)
  BY ListedExported, NothingCut, NothingUnasked DEF MigrationTypeOK, NothingFallsThrough
<1>. QED
  BY <1>1, MigrationTypeCorrect, PTL

=============================================================================
