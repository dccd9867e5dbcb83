------------------------ MODULE DevtoolsAttach_proofs ------------------------
(* Theorems about DevtoolsAttach and their proofs.                           *)
EXTENDS DevtoolsAttach, FunctionTheorems, FiniteSetTheorems, SequenceTheorems, TLAPS

-----------------------------------------------------------------------------
(* The inductive invariant: what has been received is held once, and an      *)
(* untold response has not been received.                                    *)

Waiting == stash \cup inflight

AttachInv ==
    /\ HeldOnce
    /\ IsFiniteSet(stash) /\ IsFiniteSet(inflight)
    /\ \A r \in Responses : page[r] = "none" => r \notin seen
    /\ NeverDroppedSilently

-----------------------------------------------------------------------------
(* Counting the frames of one event in a sequence.                           *)

Places(e, s) == {i \in DOMAIN s : s[i].of = e}

\* The places of an event in a sequence are finitely many.
LEMMA PlacesFinite ==
  ASSUME NEW e, NEW s \in Seq(FrameSet)
  PROVE  IsFiniteSet(Places(e, s)) /\ Times(e, s) = Cardinality(Places(e, s)) /\ Times(e, s) \in Nat
<1>1. PICK n \in Nat : DOMAIN s = 1..n
  BY LenProperties
<1>2. IsFiniteSet(1..n)
  BY FS_Interval
<1>3. Places(e, s) \in SUBSET (1..n)
  BY <1>1 DEF Places
<1>4. IsFiniteSet(Places(e, s))
  BY <1>2, <1>3, FS_Subset, Zenon
<1>5. Times(e, s) = Cardinality(Places(e, s))
  BY DEF Times, Places
<1>. QED
  BY <1>4, <1>5, FS_CardinalityType

\* The empty sequence has no frame.
LEMMA TimesEmpty ==
  ASSUME NEW e
  PROVE  Times(e, <<>>) = 0
<1>1. {i \in DOMAIN <<>> : <<>>[i].of = e} = {}
  OBVIOUS
<1>. QED
  BY <1>1, FS_EmptySet, Zenon DEF Times

\* A concatenation has the frames of both its parts.
LEMMA TimesConcat ==
  ASSUME NEW e, NEW s \in Seq(FrameSet), NEW t \in Seq(FrameSet)
  PROVE  Times(e, s \o t) = Times(e, s) + Times(e, t)
<1>. DEFINE S == Places(e, s)
            T == Places(e, t)
            C == Places(e, s \o t)
<1>1. PICK n \in Nat : n = Len(s) /\ DOMAIN s = 1..n
  BY LenProperties
<1>2. PICK m \in Nat : m = Len(t) /\ DOMAIN t = 1..m
  BY LenProperties
<1>3. s \o t \in Seq(FrameSet) /\ Len(s \o t) = n + m
  BY <1>1, <1>2, ConcatProperties
<1>4. DOMAIN (s \o t) = 1..(n + m)
  BY <1>3, LenProperties
<1>5. \A i \in 1..(n + m) : (s \o t)[i] = IF i <= n THEN s[i] ELSE t[i - n]
  BY <1>1, <1>2, ConcatProperties
<1>. DEFINE U == {i \in C : i > n}
<1>6. \A j \in 1..m : n + j \in 1..(n + m) /\ (s \o t)[n + j] = t[j]
  <2>. SUFFICES ASSUME NEW j \in 1..m PROVE n + j \in 1..(n + m) /\ (s \o t)[n + j] = t[j]
    OBVIOUS
  <2>1. n + j \in 1..(n + m) /\ ~(n + j <= n) /\ (n + j) - n = j
    OBVIOUS
  <2>. QED
    BY <1>5, <2>1
<1>7. C = S \cup U
  BY <1>1, <1>4, <1>5 DEF Places
<1>8. S \cap U = {}
  BY <1>1 DEF Places
<1>9. ExistsBijection(T, U)
  <2>. DEFINE f == [j \in T |-> n + j]
  <2>1. \A j \in T : n + j \in U
    BY <1>2, <1>4, <1>6 DEF Places
  <2>2. \A i \in U : i - n \in T /\ n + (i - n) = i
    BY <1>1, <1>2, <1>4, <1>5 DEF Places
  <2>3. f \in [T -> U]
    BY <2>1
  <2>4. \A a, b \in T : f[a] = f[b] => a = b
    BY <1>2 DEF Places
  <2>5. \A i \in U : \E j \in T : f[j] = i
    BY <2>2
  <2>6. f \in Bijection(T, U)
    BY <2>3, <2>4, <2>5, Fun_IsBij, Zenon
  <2>. QED
    BY <2>6 DEF ExistsBijection
<1>10. IsFiniteSet(S) /\ IsFiniteSet(T)
  BY PlacesFinite
<1>11. IsFiniteSet(U) /\ Cardinality(U) = Cardinality(T)
  BY <1>9, <1>10, FS_Bijection, Zenon
<1>12. Cardinality(S \cup U) = Cardinality(S) + Cardinality(U) - Cardinality(S \cap U)
  BY <1>10, <1>11, FS_Union, Zenon
<1>13. Cardinality(S \cap U) = 0
  BY <1>8, FS_EmptySet, Zenon
<1>14. Times(e, s \o t) = Cardinality(C) /\ Times(e, s) = Cardinality(S) /\ Times(e, t) = Cardinality(T)
  BY <1>3, PlacesFinite, Zenon
<1>15. Cardinality(S) \in Nat /\ Cardinality(T) \in Nat
  BY <1>10, FS_CardinalityType
<1>. HIDE DEF S, T, C, U
<1>. QED
  BY <1>7, <1>11, <1>12, <1>13, <1>14, <1>15

\* A sequence of one frame has that frame.
LEMMA TimesOne ==
  ASSUME NEW e, NEW f \in FrameSet
  PROVE  Times(e, <<f>>) = IF f.of = e THEN 1 ELSE 0
<1>1. DOMAIN <<f>> = {1} /\ <<f>>[1] = f
  OBVIOUS
<1>2. CASE f.of = e
  <2>1. Places(e, <<f>>) = {1}
    BY <1>1, <1>2 DEF Places
  <2>. QED
    BY <1>2, <2>1, FS_Singleton, Zenon DEF Times, Places
<1>3. CASE f.of # e
  <2>1. Places(e, <<f>>) = {}
    BY <1>1, <1>3 DEF Places
  <2>. QED
    BY <1>3, <2>1, FS_EmptySet, Zenon DEF Times, Places
<1>. QED
  BY <1>2, <1>3

\* An append adds one frame of its event and none of another.
LEMMA TimesAppend ==
  ASSUME NEW e, NEW s \in Seq(FrameSet), NEW f \in FrameSet
  PROVE  /\ Append(s, f) \in Seq(FrameSet)
         /\ Times(e, Append(s, f)) = Times(e, s) + (IF f.of = e THEN 1 ELSE 0)
<1>1. Append(s, f) = s \o <<f>>
  BY AppendIsConcat
<1>2. <<f>> \in Seq(FrameSet)
  OBVIOUS
<1>3. Times(e, s \o <<f>>) = Times(e, s) + Times(e, <<f>>)
  BY <1>2, TimesConcat
<1>. QED
  BY <1>1, <1>2, <1>3, TimesOne, ConcatProperties

\* A sequence that goes once through a finite set has each of its members once.
LEMMA TimesOfRest ==
  ASSUME NEW W \in SUBSET Responses, IsFiniteSet(W), NEW e,
         NEW rest \in [1..Cardinality(W) -> W],
         \A r \in W : \E i \in DOMAIN rest : rest[i] = r,
         NEW t \in [1..Cardinality(W) -> FrameSet],
         \A i \in DOMAIN rest : t[i].of = rest[i]
  PROVE  /\ t \in Seq(FrameSet)
         /\ Times(e, t) = IF e \in W THEN 1 ELSE 0
<1>1. PICK n \in Nat : n = Cardinality(W)
  BY FS_CardinalityType
<1>2. t \in Seq(FrameSet) /\ DOMAIN t = 1..n
  <2>1. t \in UNION {[1..k -> FrameSet] : k \in Nat}
    BY <1>1
  <2>2. Seq(FrameSet) = UNION {[1..k -> FrameSet] : k \in Nat}
    BY SeqDef, Zenon
  <2>3. DOMAIN t = 1..n
    BY <1>1
  <2>. QED
    BY <2>1, <2>2, <2>3, Zenon
<1>3. Places(e, t) = {i \in 1..n : rest[i] = e}
  BY <1>1, <1>2 DEF Places
<1>4. IsFiniteSet(1..n) /\ Cardinality(1..n) = n
  BY FS_Interval
<1>5. rest \in Surjection(1..n, W)
  BY <1>1, Fun_IsSurj
<1>6. rest \in Injection(1..n, W)
  BY <1>1, <1>4, <1>5, FS_SurjSameCardinalityImpliesInj, Zenon
<1>7. \A i, j \in 1..n : rest[i] = rest[j] => i = j
  BY <1>6, Fun_InjectionProperties
<1>8. CASE e \in W
  <2>1. PICK i \in 1..n : rest[i] = e
    BY <1>1, <1>8
  <2>2. Places(e, t) = {i}
    BY <1>3, <1>7, <2>1
  <2>3. Cardinality(Places(e, t)) = 1
    BY <2>2, FS_Singleton, Zenon
  <2>. QED
    BY <1>2, <1>8, <2>3 DEF Times, Places
<1>9. CASE e \notin W
  <2>1. Places(e, t) = {}
    BY <1>1, <1>3, <1>9
  <2>2. Cardinality(Places(e, t)) = 0
    BY <2>1, FS_EmptySet, Zenon
  <2>. QED
    BY <1>2, <1>9, <2>2 DEF Times, Places
<1>. QED
  BY <1>2, <1>8, <1>9

-----------------------------------------------------------------------------
(* The steps.                                                                *)

\* The invariant holds at first.
LEMMA AttachInitial == Init => AttachInv
<1>. SUFFICES ASSUME Init PROVE AttachInv
  OBVIOUS
<1>. USE DevtoolsAssumption
<1>1. TypeOK
  <2>1. <<>> \in Seq(FrameSet)
    BY EmptySeq, Zenon
  <2>2. page \in [Responses -> {"none", "received", "loaded"}]
    BY DEF Init
  <2>. QED
    BY <2>1, <2>2 DEF Init, TypeOK
<1>2. \A e \in Things : Held(e) = 0
  BY TimesEmpty DEF Init, Held
<1>3. IsFiniteSet(stash) /\ IsFiniteSet(inflight)
  BY FS_EmptySet DEF Init
<1>. QED
  BY <1>1, <1>2, <1>3 DEF Init, AttachInv, HeldOnce, NeverDroppedSilently

\* A step after which every count is what it was, and that neither receives
\* nor ends.
LEMMA CountsStay ==
  ASSUME AttachInv, pc # "ended", pc' # "ended", TypeOK',
         \A e \in Things : Held(e)' = Held(e),
         seen' = seen, page' \in [Responses -> {"none", "received", "loaded"}],
         \A r \in Responses : page'[r] = "none" => page[r] = "none",
         IsFiniteSet(stash'), IsFiniteSet(inflight')
  PROVE  AttachInv'
  BY DEF AttachInv, HeldOnce, NeverDroppedSilently

\* Appending the batch moves its frames, if it succeeds.
LEMMA BatchMoves ==
  ASSUME AttachInv, AppendsPending, UNCHANGED <<stash, inflight>>
  PROVE  /\ pending' \in Seq(FrameSet) /\ frames' \in Seq(FrameSet)
         /\ \A e \in Things : Held(e)' = Held(e)
         /\ pc' \in {"top", "dead"}
<1>1. pending \in Seq(FrameSet) /\ frames \in Seq(FrameSet)
  BY DEF AttachInv, HeldOnce, TypeOK
<1>2. CASE frames' = frames \o pending /\ pending' = <<>> /\ pc' = "top"
  <2>1. frames' \in Seq(FrameSet) /\ pending' \in Seq(FrameSet)
    BY <1>1, <1>2, ConcatProperties, EmptySeq
  <2>2. ASSUME NEW e \in Things PROVE Held(e)' = Held(e)
    <3>1. Times(e, frames \o pending) = Times(e, frames) + Times(e, pending)
      BY <1>1, TimesConcat
    <3>2. Times(e, <<>>) = 0
      BY TimesEmpty
    <3>3. Times(e, frames) \in Nat /\ Times(e, pending) \in Nat
      BY <1>1, PlacesFinite
    <3>4. Held(e)' = Times(e, <<>>) + Times(e, frames \o pending)
                     + (IF e \in stash THEN 1 ELSE 0) + (IF e \in inflight THEN 1 ELSE 0)
      BY <1>2 DEF Held, Times
    <3>. QED
      BY <3>1, <3>2, <3>3, <3>4 DEF Held
  <2>. QED
    BY <1>2, <2>1, <2>2
<1>3. CASE pc' = "dead" /\ UNCHANGED <<frames, pending>>
  BY <1>1, <1>3 DEF Held, Times
<1>. QED
  BY <1>2, <1>3 DEF AppendsPending

\* A step that holds nothing more and nothing less.
LEMMA SameHolds ==
  ASSUME UNCHANGED <<holds, frames>>
  PROVE  \A e \in Things : Held(e)' = Held(e) /\ Times(e, frames)' = Times(e, frames)
  BY DEF Held, Times, holds
\* A step that adds one frame to the batch and takes none away.
LEMMA OneMore ==
  ASSUME AttachInv, NEW f \in FrameSet, pending' = Append(pending, f), UNCHANGED frames
  PROVE  /\ pending' \in Seq(FrameSet)
         /\ \A e \in Things :
               /\ Times(e, pending)' = Times(e, pending) + (IF f.of = e THEN 1 ELSE 0)
               /\ Times(e, frames)' = Times(e, frames)
               /\ Times(e, pending) \in Nat /\ Times(e, frames) \in Nat
<1>1. pending \in Seq(FrameSet) /\ frames \in Seq(FrameSet)
  BY DEF AttachInv, HeldOnce, TypeOK
<1>2. Append(pending, f) \in Seq(FrameSet)
  BY <1>1, TimesAppend
<1>3. ASSUME NEW e \in Things
      PROVE  Times(e, pending)' = Times(e, pending) + (IF f.of = e THEN 1 ELSE 0)
  <2>1. Times(e, Append(pending, f)) = Times(e, pending) + (IF f.of = e THEN 1 ELSE 0)
    BY <1>1, TimesAppend
  <2>2. Times(e, pending)' = Times(e, Append(pending, f))
    BY DEF Times
  <2>. QED
    BY <2>1, <2>2
<1>4. \A e \in Things : Times(e, frames)' = Times(e, frames)
  BY DEF Times
<1>5. \A e \in Things : Times(e, pending) \in Nat /\ Times(e, frames) \in Nat
  BY <1>1, PlacesFinite
<1>. QED
  BY <1>2, <1>3, <1>4, <1>5

\* What the counts are, while the thread runs.
LEMMA HeldBounds ==
  ASSUME AttachInv, pc # "ended", NEW e \in Things
  PROVE  /\ Times(e, pending) \in Nat /\ Times(e, frames) \in Nat
         /\ Times(e, pending) + Times(e, frames)
            + (IF e \in stash THEN 1 ELSE 0) + (IF e \in inflight THEN 1 ELSE 0)
              = IF e \in seen THEN 1 ELSE 0
  BY PlacesFinite DEF AttachInv, HeldOnce, TypeOK, Held

\* An event that has no body to wait for.
LEMMA RecvEventStep ==
  ASSUME AttachInv, NEW e \in Events, RecvEvent(e)
  PROVE  AttachInv'
<1>. DEFINE f == Frame(e, FALSE)
<1>1. f \in FrameSet /\ f.of = e
  BY DEF Frame, FrameSet, Things
<1>2. TypeOK /\ pc = "recv" /\ pc' = "batch"
  BY DEF RecvEvent, Receives, AttachInv, HeldOnce
<1>3. pending' \in Seq(FrameSet)
  BY <1>1, OneMore DEF RecvEvent
<1>4. TypeOK'
  BY <1>2, <1>3 DEF RecvEvent, TypeOK, Things
<1>5. ASSUME NEW x \in Things PROVE Held(x)' = IF x \in seen' THEN 1 ELSE 0
  <2>1. /\ Times(x, pending)' = Times(x, pending) + (IF f.of = x THEN 1 ELSE 0)
        /\ Times(x, frames)' = Times(x, frames)
    BY <1>1, OneMore DEF RecvEvent
  <2>2. /\ Times(x, pending) \in Nat /\ Times(x, frames) \in Nat
        /\ Times(x, pending) + Times(x, frames)
            + (IF x \in stash THEN 1 ELSE 0) + (IF x \in inflight THEN 1 ELSE 0)
              = IF x \in seen THEN 1 ELSE 0
    BY <1>2, HeldBounds
  <2>3. Held(x)' = Times(x, pending)' + Times(x, frames)'
            + (IF x \in stash THEN 1 ELSE 0) + (IF x \in inflight THEN 1 ELSE 0)
    BY DEF Held, RecvEvent
  <2>4. x \in seen' <=> x \in seen \/ x = e
    BY DEF RecvEvent
  <2>5. e \notin seen
    BY DEF RecvEvent
  <2>6. Times(x, pending)' = Times(x, pending) + (IF x = e THEN 1 ELSE 0)
    BY <1>1, <2>1
  <2>. HIDE DEF f
  <2>7. CASE x = e
    BY <2>1, <2>2, <2>3, <2>4, <2>5, <2>6, <2>7
  <2>8. CASE x # e
    BY <2>1, <2>2, <2>3, <2>4, <2>6, <2>8
  <2>. QED
    BY <2>7, <2>8
<1>6. \A r \in Responses : page'[r] = "none" => r \notin seen'
  BY DevtoolsAssumption DEF AttachInv, RecvEvent
<1>. QED
  BY <1>2, <1>4, <1>5, <1>6 DEF AttachInv, HeldOnce, NeverDroppedSilently, RecvEvent

\* The head of a response: stashed when bodies are wanted, a frame otherwise.
LEMMA RecvResponseStep ==
  ASSUME AttachInv, NEW r \in Responses, RecvResponse(r)
  PROVE  AttachInv'
<1>. DEFINE f == Frame(r, FALSE)
<1>1. f \in FrameSet /\ f.of = r
  BY DEF Frame, FrameSet, Things
<1>2. TypeOK /\ pc = "recv" /\ pc' = "batch" /\ r \notin seen /\ r \in Things
  BY DEF RecvResponse, Receives, AttachInv, HeldOnce, Things
<1>3. page' \in [Responses -> {"none", "received", "loaded"}] /\ page'[r] # "none"
  BY <1>2 DEF RecvResponse, TypeOK
<1>4. \A q \in Responses : page'[q] = "none" => q \notin seen'
  BY <1>2, <1>3 DEF AttachInv, RecvResponse, TypeOK
<1>5. CASE bodies
  <2>1. UNCHANGED <<pending, frames, inflight>> /\ stash' = stash \cup {r}
    BY <1>5 DEF RecvResponse
  <2>2. TypeOK'
    BY <1>2, <1>3, <2>1 DEF RecvResponse, TypeOK
  <2>3. IsFiniteSet(stash') /\ IsFiniteSet(inflight')
    BY <2>1, FS_AddElement DEF AttachInv
  <2>4. ASSUME NEW x \in Things PROVE Held(x)' = IF x \in seen' THEN 1 ELSE 0
    <3>1. /\ Times(x, pending) \in Nat /\ Times(x, frames) \in Nat
          /\ Times(x, pending) + Times(x, frames)
              + (IF x \in stash THEN 1 ELSE 0) + (IF x \in inflight THEN 1 ELSE 0)
                = IF x \in seen THEN 1 ELSE 0
      BY <1>2, HeldBounds
    <3>2. Held(x)' = Times(x, pending) + Times(x, frames)
              + (IF x \in stash' THEN 1 ELSE 0) + (IF x \in inflight THEN 1 ELSE 0)
      BY <2>1 DEF Held
    <3>3. x \in seen' <=> x \in seen \/ x = r
      BY DEF RecvResponse
    <3>4. x \in stash' <=> x \in stash \/ x = r
      BY <2>1
    <3>. QED
      BY <1>2, <3>1, <3>2, <3>3, <3>4
  <2>. QED
    BY <1>2, <1>4, <2>2, <2>3, <2>4 DEF AttachInv, HeldOnce, NeverDroppedSilently
<1>6. CASE ~bodies
  <2>1. pending' = Append(pending, f) /\ UNCHANGED <<frames, stash, inflight>>
    BY <1>6 DEF RecvResponse
  <2>2. pending' \in Seq(FrameSet)
    BY <1>1, <2>1, OneMore
  <2>3. TypeOK'
    BY <1>2, <1>3, <2>1, <2>2 DEF RecvResponse, TypeOK
  <2>4. ASSUME NEW x \in Things PROVE Held(x)' = IF x \in seen' THEN 1 ELSE 0
    <3>1. /\ Times(x, pending)' = Times(x, pending) + (IF f.of = x THEN 1 ELSE 0)
          /\ Times(x, frames)' = Times(x, frames)
      BY <1>1, <2>1, OneMore
    <3>2. /\ Times(x, pending) \in Nat /\ Times(x, frames) \in Nat
          /\ Times(x, pending) + Times(x, frames)
              + (IF x \in stash THEN 1 ELSE 0) + (IF x \in inflight THEN 1 ELSE 0)
                = IF x \in seen THEN 1 ELSE 0
      BY <1>2, HeldBounds
    <3>3. Held(x)' = Times(x, pending)' + Times(x, frames)'
              + (IF x \in stash THEN 1 ELSE 0) + (IF x \in inflight THEN 1 ELSE 0)
      BY <2>1 DEF Held
    <3>4. x \in seen' <=> x \in seen \/ x = r
      BY DEF RecvResponse
    <3>5. Times(x, pending)' = Times(x, pending) + (IF x = r THEN 1 ELSE 0)
      BY <1>1, <3>1
    <3>. HIDE DEF f
    <3>6. CASE x = r
      BY <1>2, <3>1, <3>2, <3>3, <3>4, <3>5, <3>6
    <3>7. CASE x # r
      BY <3>1, <3>2, <3>3, <3>4, <3>5, <3>7
    <3>. QED
      BY <3>6, <3>7
  <2>5. IsFiniteSet(stash') /\ IsFiniteSet(inflight')
    BY <2>1 DEF AttachInv
  <2>. QED
    BY <1>2, <1>4, <2>3, <2>4, <2>5 DEF AttachInv, HeldOnce, NeverDroppedSilently
<1>. QED
  BY <1>5, <1>6

\* A stashed response whose body is asked for goes to the other map.
LEMMA RecvFinishedStep ==
  ASSUME AttachInv, NEW r \in Responses, RecvFinished(r)
  PROVE  AttachInv'
<1>1. TypeOK /\ pc = "recv" /\ pc' = "send" /\ r \in stash /\ r \in Things
  BY DEF RecvFinished, Receives, AttachInv, HeldOnce, Things
<1>2. UNCHANGED <<pending, frames, seen>> /\ stash' = stash \ {r} /\ inflight' = inflight \cup {r}
  BY DEF RecvFinished
<1>3. /\ page' \in [Responses -> {"none", "received", "loaded"}]
      /\ \A q \in Responses : page'[q] = "none" => page[q] = "none"
  BY <1>1 DEF RecvFinished, TypeOK
<1>4. TypeOK'
  BY <1>1, <1>2, <1>3 DEF RecvFinished, TypeOK
<1>5. IsFiniteSet(stash') /\ IsFiniteSet(inflight')
  BY <1>2, FS_AddElement, FS_RemoveElement DEF AttachInv
<1>6. ASSUME NEW x \in Things PROVE Held(x)' = Held(x)
  <2>1. /\ Times(x, pending) \in Nat /\ Times(x, frames) \in Nat
        /\ Times(x, pending) + Times(x, frames)
            + (IF x \in stash THEN 1 ELSE 0) + (IF x \in inflight THEN 1 ELSE 0)
              = IF x \in seen THEN 1 ELSE 0
    BY <1>1, HeldBounds
  <2>2. Held(x)' = Times(x, pending) + Times(x, frames)
            + (IF x \in stash' THEN 1 ELSE 0) + (IF x \in inflight' THEN 1 ELSE 0)
    BY <1>2 DEF Held
  <2>3. /\ x \in stash' <=> x \in stash /\ x # r
        /\ x \in inflight' <=> x \in inflight \/ x = r
    BY <1>2
  <2>. QED
    BY <1>1, <2>1, <2>2, <2>3 DEF Held
<1>. QED
  BY <1>1, <1>2, <1>3, <1>4, <1>5, <1>6, CountsStay

\* A response taken from one of the maps becomes a frame of the batch.
LEMMA MovedToBatch ==
  ASSUME AttachInv, pc = "recv", pc' # "ended", NEW r \in Responses, NEW b \in BOOLEAN,
         pending' = Append(pending, Frame(r, b)), UNCHANGED <<frames, seen>>,
         \/ r \in stash /\ stash' = stash \ {r} /\ inflight' = inflight
         \/ r \in inflight /\ inflight' = inflight \ {r} /\ stash' = stash
  PROVE  /\ pending' \in Seq(FrameSet)
         /\ IsFiniteSet(stash') /\ IsFiniteSet(inflight')
         /\ \A x \in Things : Held(x)' = Held(x)
<1>. DEFINE f == Frame(r, b)
<1>1. f \in FrameSet /\ f.of = r /\ r \in Things
  BY DEF Frame, FrameSet, Things
<1>2. pending' \in Seq(FrameSet)
  BY <1>1, OneMore
<1>3. IsFiniteSet(stash') /\ IsFiniteSet(inflight')
  BY FS_RemoveElement DEF AttachInv
<1>4. ASSUME NEW x \in Things PROVE Held(x)' = Held(x)
  <2>1. /\ Times(x, pending)' = Times(x, pending) + (IF f.of = x THEN 1 ELSE 0)
        /\ Times(x, frames)' = Times(x, frames)
    BY <1>1, OneMore
  <2>2. /\ Times(x, pending) \in Nat /\ Times(x, frames) \in Nat
        /\ Times(x, pending) + Times(x, frames)
            + (IF x \in stash THEN 1 ELSE 0) + (IF x \in inflight THEN 1 ELSE 0)
              = IF x \in seen THEN 1 ELSE 0
    BY HeldBounds
  <2>3. Held(x)' = Times(x, pending)' + Times(x, frames)'
            + (IF x \in stash' THEN 1 ELSE 0) + (IF x \in inflight' THEN 1 ELSE 0)
    BY DEF Held
  <2>4. \/ r \in stash /\ (x \in stash' <=> x \in stash /\ x # r) /\ inflight' = inflight
        \/ r \in inflight /\ (x \in inflight' <=> x \in inflight /\ x # r) /\ stash' = stash
    OBVIOUS
  <2>. QED
    BY <1>1, <2>1, <2>2, <2>3, <2>4 DEF Held
<1>. QED
  BY <1>2, <1>3, <1>4

\* A stashed response that gets no body.
LEMMA RecvSkippedStep ==
  ASSUME AttachInv, NEW r \in Responses, RecvSkipped(r)
  PROVE  AttachInv'
<1>1. TypeOK /\ pc = "recv" /\ pc' = "batch" /\ r \in stash
  BY DEF RecvSkipped, Receives, AttachInv, HeldOnce
<1>2. /\ page' \in [Responses -> {"none", "received", "loaded"}]
      /\ \A q \in Responses : page'[q] = "none" => page[q] = "none"
  BY <1>1 DEF RecvSkipped, TypeOK
<1>3. /\ pending' \in Seq(FrameSet)
      /\ IsFiniteSet(stash') /\ IsFiniteSet(inflight')
      /\ \A x \in Things : Held(x)' = Held(x)
  BY <1>1, MovedToBatch DEF RecvSkipped
<1>4. TypeOK'
  BY <1>1, <1>2, <1>3 DEF RecvSkipped, TypeOK
<1>5. seen' = seen /\ pc # "ended" /\ pc' # "ended"
  BY <1>1 DEF RecvSkipped
<1>. QED
  BY <1>2, <1>3, <1>4, <1>5, CountsStay

\* A response whose body has come.
LEMMA RecvReplyStep ==
  ASSUME AttachInv, NEW r \in Responses, RecvReply(r)
  PROVE  AttachInv'
<1>1. TypeOK /\ pc = "recv" /\ pc' = "top" /\ r \in inflight
  BY DEF RecvReply, Receives, AttachInv, HeldOnce
<1>2. page' = page /\ page \in [Responses -> {"none", "received", "loaded"}]
  BY <1>1 DEF RecvReply, TypeOK
<1>3. /\ pending' \in Seq(FrameSet)
      /\ IsFiniteSet(stash') /\ IsFiniteSet(inflight')
      /\ \A x \in Things : Held(x)' = Held(x)
  BY <1>1, MovedToBatch DEF RecvReply
<1>4. TypeOK'
  BY <1>1, <1>3 DEF RecvReply, TypeOK
<1>5. seen' = seen /\ pc # "ended" /\ pc' # "ended"
  BY <1>1 DEF RecvReply
<1>. QED
  BY <1>2, <1>3, <1>4, <1>5, CountsStay

\* A batch is appended when it is full, or when recv times out.
LEMMA AppendStep ==
  ASSUME AttachInv, Batch \/ Timeout
  PROVE  AttachInv'
<1>1. /\ TypeOK /\ pc # "ended"
      /\ AppendsPending \/ (pc' = "top" /\ UNCHANGED <<frames, pending>>)
      /\ UNCHANGED <<bodies, page, channel, seen, stash, inflight, reported, open, stopping>>
  BY DEF Batch, Timeout, Receives, AttachInv, HeldOnce
<1>2. /\ pending' \in Seq(FrameSet) /\ frames' \in Seq(FrameSet)
      /\ \A e \in Things : Held(e)' = Held(e)
      /\ pc' \in {"top", "dead"}
  <2>1. CASE AppendsPending
    BY <1>1, <2>1, BatchMoves
  <2>2. CASE pc' = "top" /\ UNCHANGED <<frames, pending>>
    BY <1>1, <2>2 DEF Held, Times, TypeOK
  <2>. QED
    BY <1>1, <2>1, <2>2
<1>3. TypeOK'
  BY <1>1, <1>2 DEF TypeOK
<1>4. IsFiniteSet(stash') /\ IsFiniteSet(inflight')
  BY <1>1 DEF AttachInv
<1>5. page' = page /\ page \in [Responses -> {"none", "received", "loaded"}]
  BY <1>1 DEF TypeOK
<1>. QED
  BY <1>1, <1>2, <1>3, <1>4, <1>5, CountsStay
\* The last flush: what waits for its body goes out without it, once.
LEMMA FlushStep ==
  ASSUME AttachInv, Flush
  PROVE  AttachInv'
<1>1. /\ TypeOK /\ pc = "flush" /\ pc' = "ended"
      /\ stash' = {} /\ inflight' = {} /\ pending' = <<>>
      /\ UNCHANGED <<bodies, page, channel, seen, open, stopping>>
  BY DEF Flush, AttachInv, HeldOnce
<1>2. /\ pending \in Seq(FrameSet) /\ frames \in Seq(FrameSet)
      /\ stash \subseteq Responses /\ inflight \subseteq Responses /\ seen \subseteq Things
  BY <1>1 DEF TypeOK
<1>3. pending' \in Seq(FrameSet)
  BY <1>1, EmptySeq
<1>4. IsFiniteSet(stash') /\ IsFiniteSet(inflight')
  BY <1>1, FS_EmptySet
<1>5. \A r \in Responses : page'[r] = "none" => r \notin seen'
  BY <1>1 DEF AttachInv
<1>6. CASE /\ frames' = frames /\ reported' = TRUE
  <2>1. TypeOK'
    BY <1>1, <1>2, <1>3, <1>6 DEF TypeOK
  <2>. QED
    BY <1>1, <1>4, <1>5, <1>6, <2>1 DEF AttachInv, HeldOnce, NeverDroppedSilently
<1>7. CASE /\ reported' = reported
           /\ \E rest \in [1..Cardinality(Waiting) -> Waiting] :
                /\ \A r \in Waiting : \E i \in DOMAIN rest : rest[i] = r
                /\ frames' = frames \o pending \o [i \in DOMAIN rest |-> Frame(rest[i], FALSE)]
  <2>1. PICK rest \in [1..Cardinality(Waiting) -> Waiting] :
                /\ \A r \in Waiting : \E i \in DOMAIN rest : rest[i] = r
                /\ frames' = frames \o pending \o [i \in DOMAIN rest |-> Frame(rest[i], FALSE)]
    BY <1>7
  <2>. DEFINE t == [i \in DOMAIN rest |-> Frame(rest[i], FALSE)]
  <2>2. Waiting \in SUBSET Responses /\ IsFiniteSet(Waiting)
    BY <1>2, FS_Union DEF Waiting, AttachInv
  <2>3. t \in Seq(FrameSet) /\ \A e \in Things : Times(e, t) = IF e \in Waiting THEN 1 ELSE 0
    <3>1. t \in [1..Cardinality(Waiting) -> FrameSet]
      BY <2>1, <2>2 DEF Frame, FrameSet, Things
    <3>2. \A i \in DOMAIN rest : t[i].of = rest[i]
      BY DEF Frame
    <3>. HIDE DEF t
    <3>. QED
      <4>1. ASSUME NEW e PROVE  t \in Seq(FrameSet) /\ Times(e, t) = IF e \in Waiting THEN 1 ELSE 0
        <5>1. /\ Waiting \in SUBSET Responses /\ IsFiniteSet(Waiting)
              /\ rest \in [1..Cardinality(Waiting) -> Waiting]
              /\ \A r \in Waiting : \E i \in DOMAIN rest : rest[i] = r
              /\ t \in [1..Cardinality(Waiting) -> FrameSet]
              /\ \A i \in DOMAIN rest : t[i].of = rest[i]
          BY <2>1, <2>2, <3>1, <3>2
        <5>. QED
          BY ONLY <5>1, TimesOfRest, Zenon
      <4>. QED
        BY <4>1
  <2>. HIDE DEF t
  <2>4. frames \o pending \in Seq(FrameSet) /\ (frames \o pending) \o t \in Seq(FrameSet)
    BY <1>2, <2>3, ConcatProperties
  <2>5. frames' = (frames \o pending) \o t
    BY <2>1 DEF t
  <2>6. ASSUME NEW e \in seen PROVE Times(e, frames') = 1
    <3>1. e \in Things
      BY <1>2
    <3>2. /\ Times(e, frames \o pending) = Times(e, frames) + Times(e, pending)
          /\ Times(e, (frames \o pending) \o t) = Times(e, frames \o pending) + Times(e, t)
      BY <1>2, <2>3, <2>4, TimesConcat
    <3>3. /\ Times(e, pending) \in Nat /\ Times(e, frames) \in Nat
          /\ Times(e, pending) + Times(e, frames)
              + (IF e \in stash THEN 1 ELSE 0) + (IF e \in inflight THEN 1 ELSE 0) = 1
      BY <1>1, <3>1, HeldBounds
    <3>4. Times(e, t) = IF e \in stash \/ e \in inflight THEN 1 ELSE 0
      BY <2>3, <3>1 DEF Waiting
    <3>. QED
      BY <2>5, <3>2, <3>3, <3>4
  <2>7. TypeOK'
    BY <1>1, <1>2, <1>3, <1>7, <2>4, <2>5 DEF TypeOK
  <2>8. NeverDroppedSilently'
    <3>1. \A e \in seen' : Times(e, frames') = 1
      BY <1>1, <2>6
    <3>. QED
      BY <3>1 DEF NeverDroppedSilently, Times
  <2>. QED
    BY <1>1, <1>4, <1>5, <2>7, <2>8 DEF AttachInv, HeldOnce
<1>. QED
  BY <1>6, <1>7 DEF Flush, Waiting

\* The other steps hold what was held and end nothing.
LEMMA QuietStep ==
  ASSUME AttachInv, UNCHANGED <<bodies, page, holds, reported, frames>> \/ ChannelClosed,
         Top \/ Send \/ ChannelClosed \/ BrowserCloses \/ StopSignal \/ StopCloses \/ EndCapture
             \/ UNCHANGED vars
  PROVE  AttachInv'
<1>1. /\ TypeOK
      /\ UNCHANGED <<bodies, page, seen, stash, inflight, pending, frames>>
      /\ reported => reported'
      /\ pc' = "ended" <=> pc = "ended"
      /\ TypeOK'
  BY DEF AttachInv, HeldOnce, TypeOK, holds, vars, Top, Send, ChannelClosed, BrowserCloses,
         StopSignal, StopCloses, EndCapture
<1>2. \A e \in Things : Held(e)' = Held(e)
  BY <1>1 DEF Held, Times
<1>3. \A e \in Things : Times(e, frames)' = Times(e, frames)
  BY <1>1 DEF Times
<1>4. seen \subseteq Things
  BY <1>1 DEF TypeOK
<1>5. NeverDroppedSilently'
  BY <1>1, <1>3, <1>4 DEF AttachInv, NeverDroppedSilently
<1>. QED
  BY <1>1, <1>2, <1>5 DEF AttachInv, HeldOnce

\* Every step keeps the invariant.
LEMMA AttachStep == AttachInv /\ [Next]_vars => AttachInv'
<1>. SUFFICES ASSUME AttachInv, [Next]_vars PROVE AttachInv'
  OBVIOUS
<1>1. CASE Recv
  BY <1>1, RecvEventStep, RecvResponseStep, RecvFinishedStep, RecvSkippedStep, RecvReplyStep
  DEF Recv
<1>2. CASE Batch \/ Timeout
  BY <1>2, AppendStep
<1>3. CASE Flush
  BY <1>3, FlushStep
<1>4. CASE Top \/ Send \/ ChannelClosed \/ BrowserCloses \/ StopSignal \/ StopCloses \/ EndCapture
           \/ UNCHANGED vars
  <2>1. UNCHANGED <<bodies, page, holds, reported, frames>> \/ ChannelClosed
    BY <1>4 DEF vars, Top, Send, BrowserCloses, StopSignal, StopCloses, EndCapture
  <2>. QED
    BY <1>4, <2>1, QuietStep
<1>. QED
  BY <1>1, <1>2, <1>3, <1>4 DEF Next, Loop

\* The invariant holds for any responses, events and size of a batch.
THEOREM AttachCorrect == Spec => []AttachInv
  BY AttachInitial, AttachStep, PTL DEF Spec

\* Every frame is in one place on its way from the channel to the manifest:
\* none is fetched and then dropped, none is appended twice
\* (DevtoolsAttachListener._loop).
THEOREM FramesHeldOnce == Spec => []HeldOnce
<1>1. AttachInv => HeldOnce
  BY DEF AttachInv
<1>. QED
  BY <1>1, AttachCorrect, PTL

\* When the loop has come to its end, all that it received is in the manifest,
\* once, or an error is reported.
THEOREM FlushedOrReported == Spec => []NeverDroppedSilently
<1>1. AttachInv => NeverDroppedSilently
  BY DEF AttachInv
<1>. QED
  BY <1>1, AttachCorrect, PTL
=============================================================================
