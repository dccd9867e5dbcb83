--------------------------- MODULE SseRelay_proofs ---------------------------
(* Theorems about HttpFraming and SseRelay, and their proofs.                *)
EXTENDS SseRelay, FiniteSetTheorems, SequenceTheorems, TLAPS

-----------------------------------------------------------------------------
(* The inductive invariant behind NothingLostOrDoubled: the three parts are  *)
(* sequences of the tokens sent, and those not yet read are empty.           *)

Tokens == {msg.wire[i] : i \in DOMAIN msg.wire}

Parts ==
    /\ msg \in Messages /\ arrived \in 0..Len(msg.wire) /\ left \in Nat
    /\ head \in Seq(Tokens) /\ raw \in Seq(Tokens) /\ buf \in Seq(Tokens)

ReaderInv ==
    /\ Parts
    /\ pc = "head" => head = <<>> /\ raw = <<>>
    /\ pc \in {"length", "all", "drain"} => raw = <<>>
    /\ NothingLostOrDoubled

-----------------------------------------------------------------------------
(* Cutting a sequence.                                                       *)

\* A set of natural numbers that is not empty has a least member.
LEMMA LeastExists ==
  ASSUME NEW S \in SUBSET Nat, S # {}
  PROVE  \E x \in S : \A y \in S : x <= y
<1>. DEFINE R == StrictSubsetOrdering(Nat)
            F == {0..x : x \in S}
<1>1. IsWellFoundedOn(R, FiniteSubsetsOf(Nat))
  BY FS_StrictSubsetOrderingWellFounded, Zenon
<1>2. F \subseteq FiniteSubsetsOf(Nat) /\ F # {}
  <2>1. ASSUME NEW x \in S PROVE IsFiniteSet(0..x) /\ 0..x \in SUBSET Nat
    <3>1. 0 \in Int /\ x \in Int
      OBVIOUS
    <3>2. IsFiniteSet(0..x)
      BY <3>1, FS_Interval, Zenon
    <3>. QED
      BY <3>2
  <2>. QED
    BY <2>1 DEF FiniteSubsetsOf
<1>3. PICK X \in F : \A Y \in F : ~ (<<Y, X>> \in R)
  BY <1>1, <1>2, WFMin, Zenon
<1>4. PICK x \in S : X = 0..x
  OBVIOUS
<1>5. ASSUME NEW y \in S PROVE x <= y
  <2>1. <<0..y, 0..x>> \notin R
    BY <1>3, <1>4, <1>5
  <2>2. 0..y \in SUBSET Nat /\ 0..x \in SUBSET Nat
    OBVIOUS
  <2>3. ~ (0..y \subseteq 0..x /\ 0..y # 0..x)
    BY <2>1, <2>2, Zenon DEF StrictSubsetOrdering
  <2>4. y < x => 0..y \subseteq 0..x /\ x \in 0..x /\ x \notin 0..y
    OBVIOUS
  <2>. QED
    BY <2>3, <2>4
<1>. QED
  BY <1>5

\* Induction along an interval, upwards.
LEMMA Upward ==
  ASSUME NEW lo \in Nat, NEW hi \in Nat, NEW P,
         \A k \in lo..hi : (\A j \in lo..hi : j < k => j \in P) => k \in P
  PROVE  lo..hi \subseteq P
<1>. DEFINE Bad == (lo..hi) \ P
<1>1. SUFFICES ASSUME Bad # {} PROVE FALSE
  OBVIOUS
<1>2. Bad \in SUBSET Nat
  OBVIOUS
<1>3. PICK k \in Bad : \A j \in Bad : k <= j
  BY <1>1, <1>2, LeastExists
<1>4. \A j \in lo..hi : j < k => j \in P
  BY <1>3
<1>. QED
  BY <1>3, <1>4

\* The same from above.
LEMMA Downward ==
  ASSUME NEW lo \in Nat, NEW hi \in Nat, NEW P,
         \A k \in lo..hi : (\A j \in lo..hi : k < j => j \in P) => k \in P
  PROVE  lo..hi \subseteq P
<1>. DEFINE Bad == (lo..hi) \ P
            Turned == {hi - k : k \in Bad}
<1>1. SUFFICES ASSUME Bad # {} PROVE FALSE
  OBVIOUS
<1>2. Turned \in SUBSET Nat /\ Turned # {}
  <2>1. \A k \in lo..hi : hi - k \in Nat
    OBVIOUS
  <2>. QED
    BY <1>1, <2>1
<1>3. PICK n \in Turned : \A m \in Turned : n <= m
  BY <1>2, LeastExists
<1>4. PICK k \in Bad : n = hi - k
  OBVIOUS
<1>5. ASSUME NEW j \in lo..hi, k < j PROVE j \in P
  <2>1. ~(hi - k <= hi - j)
    BY <1>4, <1>5
  <2>2. j \in Bad => hi - j \in Turned
    OBVIOUS
  <2>. QED
    BY <1>3, <1>4, <2>1, <2>2
<1>. QED
  BY <1>4, <1>5

\* A definition of a function on an interval by its values further up.
Upwards(lo, hi, V, D, base, next, step) ==
  /\ \A k \in lo..hi : base[k] \in V
  /\ \A k \in (lo..hi) \cap D : next[k] \in lo..hi /\ k < next[k]
  /\ \A k \in (lo..hi) \cap D : \A v \in V : step[k][v] \in V

Defined(lo, hi, V, D, base, next, step) ==
  \E f \in [lo..hi -> V] :
     \A k \in lo..hi : f[k] = IF k \in D THEN step[k][f[next[k]]] ELSE base[k]

\* There is such a function.
LEMMA RecursionExists ==
  ASSUME NEW lo \in Nat, NEW hi \in Nat, NEW V, NEW D, NEW base, NEW next, NEW step,
         Upwards(lo, hi, V, D, base, next, step)
  PROVE  Defined(lo, hi, V, D, base, next, step)
<1>. USE DEF Upwards, Defined
<1>. DEFINE Def(f, j) == IF j \in D THEN step[j][f[next[j]]] ELSE base[j]
            P == {k \in lo..(hi + 1) : \E f \in [k..hi -> V] : \A j \in k..hi : f[j] = Def(f, j)}
<1>1. ASSUME NEW k \in lo..(hi + 1), \A j \in lo..(hi + 1) : k < j => j \in P
      PROVE  k \in P
  <2>1. CASE k = hi + 1
    <3>1. k..hi = {}
      BY <2>1
    <3>2. [j \in k..hi |-> base[j]] \in [k..hi -> V]
      BY <3>1
    <3>. QED
      BY <3>1, <3>2
  <2>2. CASE k # hi + 1
    <3>1. k \in lo..hi /\ k + 1 \in lo..(hi + 1)
      BY <2>2
    <3>2. k + 1 \in P
      BY <1>1, <3>1
    <3>3. PICK f \in [(k + 1)..hi -> V] : \A j \in (k + 1)..hi : f[j] = Def(f, j)
      BY <3>2
    <3>. DEFINE top == IF k \in D THEN step[k][f[next[k]]] ELSE base[k]
                g == [j \in k..hi |-> IF j = k THEN top ELSE f[j]]
    <3>4. k \in D => next[k] \in (k + 1)..hi
      BY <3>1
    <3>5. top \in V
      BY <3>1, <3>3, <3>4
    <3>6. \A j \in k..hi : j # k => j \in (k + 1)..hi
      OBVIOUS
    <3>7. g \in [k..hi -> V]
      BY <3>3, <3>5, <3>6
    <3>8. ASSUME NEW j \in k..hi PROVE g[j] = Def(g, j)
      <4>1. CASE j = k
        <5>1. k \in D => g[next[k]] = f[next[k]]
          BY <3>4
        <5>. QED
          BY <4>1, <5>1
      <4>2. CASE j # k
        <5>1. j \in (k + 1)..hi /\ j \in lo..hi
          BY <3>1, <3>6, <4>2
        <5>2. j \in D => next[j] \in k..hi /\ next[j] # k
          BY <3>1, <5>1
        <5>3. j \in D => g[next[j]] = f[next[j]]
          BY <5>2
        <5>4. g[j] = f[j] /\ f[j] = Def(f, j)
          BY <3>3, <4>2, <5>1
        <5>. QED
          BY <5>3, <5>4
      <4>. QED
        BY <4>1, <4>2
    <3>. QED
      BY <3>7, <3>8
  <2>. QED
    BY <2>1, <2>2
<1>2. hi + 1 \in Nat
  OBVIOUS
<1>3. lo..(hi + 1) \subseteq P
  <2>. HIDE DEF P
  <2>. QED
    BY <1>1, <1>2, Downward
<1>4. CASE lo \in lo..(hi + 1)
  BY <1>3, <1>4
<1>5. CASE lo \notin lo..(hi + 1)
  <2>1. lo..hi = {}
    BY <1>5
  <2>2. [j \in lo..hi |-> base[j]] \in [lo..hi -> V]
    BY <2>1
  <2>. QED
    BY <2>1, <2>2
<1>. QED
  BY <1>4, <1>5

\* What is cut off and what is left are the whole again.
LEMMA CutIsWhole ==
  ASSUME NEW T, NEW s \in Seq(T), NEW n \in Nat
  PROVE  /\ First(s, n) \in Seq(T) /\ After(s, Len(First(s, n))) \in Seq(T)
         /\ First(s, n) \o After(s, Len(First(s, n))) = s
<1>. DEFINE k == Minimum(n, Len(s))
<1>1. Len(s) \in Nat /\ k \in 0..Len(s)
  BY LenProperties DEF Minimum
<1>2. \A i \in 1..Len(s) : s[i] \in T
  BY ElementOfSeq
<1>. HIDE DEF k
<1>3. SubSeq(s, 1, k) \in Seq(T) /\ Len(SubSeq(s, 1, k)) = k
  BY <1>1, <1>2, SubSeqProperties
<1>4. SubSeq(s, k + 1, Len(s)) \in Seq(T)
  BY <1>1, <1>2, SubSeqProperties
<1>5. SubSeq(s, 1, k) \o SubSeq(s, k + 1, Len(s)) = SubSeq(s, 1, Len(s))
  <2>1. 1 \in 1..(Len(s) + 1) /\ k \in (1 - 1)..Len(s) /\ Len(s) \in k..Len(s)
    BY <1>1
  <2>. QED
    BY <2>1, ConcatAdjacentSubSeq, Zenon
<1>6. SubSeq(s, 1, Len(s)) = s
  BY SubSeqFull
<1>. QED
  BY <1>3, <1>4, <1>5, <1>6 DEF First, After, k

\* Cutting off all of a sequence leaves nothing.
LEMMA CutAll ==
  ASSUME NEW T, NEW s \in Seq(T)
  PROVE  After(s, Len(s)) = <<>>
  BY LenProperties, SubSeqEmpty DEF After

\* Concatenation under a name, where only its associativity matters.
Cat(s, t) == s \o t

\* Concatenation, in these words.
LEMMA CatSeq ==
  ASSUME NEW T, NEW s \in Seq(T), NEW t \in Seq(T)
  PROVE  Cat(s, t) \in Seq(T)
  BY ConcatProperties DEF Cat

\* And its associativity.
LEMMA CatAssociative ==
  ASSUME NEW T, NEW s \in Seq(T), NEW t \in Seq(T), NEW u \in Seq(T)
  PROVE  Cat(Cat(s, t), u) = Cat(s, Cat(t, u))
  BY ConcatAssociative DEF Cat

\* A piece moved from the front of the last part to the end of the middle one.
LEMMA Regrouped ==
  ASSUME NEW T, NEW h \in Seq(T), NEW r \in Seq(T), NEW x \in Seq(T), NEW y \in Seq(T)
  PROVE  /\ Cat(Cat(h, Cat(r, x)), y) = Cat(Cat(h, r), Cat(x, y))
         /\ Cat(r, x) \in Seq(T)
<1>1. Cat(r, x) \in Seq(T) /\ Cat(h, r) \in Seq(T)
  BY CatSeq
<1>2. Cat(Cat(h, r), x) = Cat(h, Cat(r, x))
  BY CatAssociative
<1>3. Cat(Cat(Cat(h, r), x), y) = Cat(Cat(h, r), Cat(x, y))
  BY <1>1, CatAssociative
<1>. QED
  BY <1>1, <1>2, <1>3

\* The next tokens of the stream go on where it has arrived.
LEMMA NextTokens ==
  ASSUME Parts, NEW n \in 0..(Len(msg.wire) - arrived)
  PROVE  /\ SubSeq(msg.wire, arrived + 1, arrived + n) \in Seq(Tokens)
         /\ SubSeq(msg.wire, 1, arrived) \o SubSeq(msg.wire, arrived + 1, arrived + n)
              = SubSeq(msg.wire, 1, arrived + n)
         /\ arrived + n \in 0..Len(msg.wire)
<1>1. msg.wire \in Seq(Tokens)
  BY FramingAssumption DEF Parts, Tokens
<1>2. Len(msg.wire) \in Nat /\ arrived \in 0..Len(msg.wire)
  BY <1>1, LenProperties DEF Parts
<1>3. \A i \in 1..Len(msg.wire) : msg.wire[i] \in Tokens
  BY <1>1, ElementOfSeq
<1>4. arrived + n \in 0..Len(msg.wire)
  BY <1>2
<1>5. \A i \in (arrived + 1)..(arrived + n) : msg.wire[i] \in Tokens
  BY <1>2, <1>3, <1>4
<1>6. SubSeq(msg.wire, arrived + 1, arrived + n) \in Seq(Tokens)
  BY <1>2, <1>5, SubSeqProperties
<1>7. /\ 1 \in 1..(Len(msg.wire) + 1) /\ arrived \in (1 - 1)..Len(msg.wire)
      /\ arrived + n \in arrived..Len(msg.wire)
  BY <1>2, <1>4
<1>8. SubSeq(msg.wire, 1, arrived) \o SubSeq(msg.wire, arrived + 1, arrived + n)
        = SubSeq(msg.wire, 1, arrived + n)
  BY <1>1, <1>7, ConcatAdjacentSubSeq, Zenon
<1>. QED
  BY <1>4, <1>6, <1>8

\* The line that read_until returns is the front of the buffer.
LEMMA LineIsCut ==
  ASSUME Parts
  PROVE  /\ Line \in Seq(Tokens) /\ After(buf, Len(Line)) \in Seq(Tokens)
         /\ Line \o After(buf, Len(Line)) = buf
<1>1. buf \in Seq(Tokens)
  BY DEF Parts
<1>2. CASE Mark # 0
  <2>1. Mark \in Nat
    <3>1. Marks # {} /\ Marks \in SUBSET Nat
      BY <1>1, <1>2, LenProperties DEF Mark, Marks
    <3>2. \E i \in Marks : \A j \in Marks : i <= j
      BY <3>1, LeastExists
    <3>3. Mark \in Marks
      BY <3>1, <3>2, Zenon DEF Mark
    <3>. QED
      BY <3>1, <3>3
  <2>2. Line = First(buf, Mark)
    BY <1>2 DEF Line
  <2>. QED
    BY <1>1, <2>1, <2>2, CutIsWhole
<1>3. CASE Mark = 0
  <2>1. Line = buf
    BY <1>3 DEF Line
  <2>2. After(buf, Len(buf)) = <<>>
    BY <1>1, CutAll
  <2>. QED
    BY <1>1, <2>1, <2>2, ConcatEmptySeq, EmptySeq
<1>. QED
  BY <1>2, <1>3

-----------------------------------------------------------------------------
(* The steps.                                                                *)

\* A piece cut off the front of the buffer and added to the body.
LEMMA PieceMoved ==
  ASSUME ReaderInv, NEW piece \in Seq(Tokens), NEW rest \in Seq(Tokens), piece \o rest = buf,
         raw' = raw \o piece, buf' = rest, UNCHANGED <<msg, arrived, head>>,
         left' \in Nat, pc' \notin {"head", "length", "all", "drain"}
  PROVE  ReaderInv'
<1>1. Parts /\ head \in Seq(Tokens) /\ raw \in Seq(Tokens)
  BY DEF ReaderInv, Parts
<1>2. /\ Cat(Cat(head, Cat(raw, piece)), rest) = Cat(Cat(head, raw), Cat(piece, rest))
      /\ Cat(raw, piece) \in Seq(Tokens)
  BY <1>1, Regrouped
<1>3. Tokens' = Tokens
  BY DEF Tokens
<1>4. Parts'
  <2>1. raw' \in Seq(Tokens)
    BY <1>2 DEF Cat
  <2>. QED
    BY <1>1, <1>3, <2>1 DEF Parts
<1>5. NothingLostOrDoubled'
  BY <1>2 DEF ReaderInv, NothingLostOrDoubled, Cat
<1>. QED
  BY <1>4, <1>5 DEF ReaderInv

\* A step that moves no token.
LEMMA NothingMoved ==
  ASSUME ReaderInv, UNCHANGED <<msg, arrived, buf, head, raw, left>>,
         pc' = pc \/ pc' \notin {"head", "length", "all", "drain"}
  PROVE  ReaderInv'
<1>1. Parts' /\ NothingLostOrDoubled'
  BY DEF ReaderInv, Parts, Tokens, NothingLostOrDoubled
<1>. QED
  BY <1>1 DEF ReaderInv

\* A block arrives, or the end of the stream.
LEMMA FillStep == ASSUME ReaderInv, Fill PROVE ReaderInv'
<1>1. CASE eof' = TRUE /\ UNCHANGED <<buf, arrived>>
  BY <1>1, NothingMoved DEF Fill
<1>2. CASE \E n \in 1..(Len(msg.wire) - arrived) :
             /\ buf' = buf \o SubSeq(msg.wire, arrived + 1, arrived + n)
             /\ arrived' = arrived + n
  <2>1. PICK n \in 1..(Len(msg.wire) - arrived) :
             /\ buf' = buf \o SubSeq(msg.wire, arrived + 1, arrived + n)
             /\ arrived' = arrived + n
    BY <1>2
  <2>. DEFINE X == SubSeq(msg.wire, arrived + 1, arrived + n)
  <2>2. Parts /\ head \in Seq(Tokens) /\ raw \in Seq(Tokens) /\ buf \in Seq(Tokens)
    BY DEF ReaderInv, Parts
  <2>3. n \in 0..(Len(msg.wire) - arrived)
    BY <2>1
  <2>4. /\ X \in Seq(Tokens)
        /\ SubSeq(msg.wire, 1, arrived) \o X = SubSeq(msg.wire, 1, arrived + n)
        /\ arrived + n \in 0..Len(msg.wire)
    BY <2>2, <2>3, NextTokens
  <2>5. buf' = buf \o X
    BY <2>1
  <2>. HIDE DEF X
  <2>6. Cat(buf, X) \in Seq(Tokens) /\ Cat(head, raw) \in Seq(Tokens)
    BY <2>2, <2>4, CatSeq
  <2>7. Cat(Cat(head, raw), Cat(buf, X)) = Cat(Cat(Cat(head, raw), buf), X)
    BY <2>2, <2>4, <2>6, CatAssociative
  <2>8. UNCHANGED <<msg, head, raw, left, pc>>
    BY DEF Fill
  <2>9. Tokens' = Tokens
    BY <2>8 DEF Tokens
  <2>10. Parts'
    <3>1. buf' \in Seq(Tokens)
      BY <2>5, <2>6 DEF Cat
    <3>. QED
      BY <2>1, <2>2, <2>4, <2>8, <2>9, <3>1 DEF Parts
  <2>11. Cat(Cat(head, raw), buf) = SubSeq(msg.wire, 1, arrived)
    BY DEF ReaderInv, NothingLostOrDoubled, Cat
  <2>12. Cat(Cat(head, raw), Cat(buf, X)) = SubSeq(msg.wire, 1, arrived + n)
    BY <2>4, <2>7, <2>11 DEF Cat
  <2>13. NothingLostOrDoubled'
    BY <2>1, <2>5, <2>8, <2>12 DEF NothingLostOrDoubled, Cat
  <2>. QED
    BY <2>8, <2>10, <2>13 DEF ReaderInv
<1>. QED
  BY <1>1, <1>2 DEF Fill
\* The head: it was empty, and becomes the front of what is buffered.
LEMMA TakeHeadStep == ASSUME ReaderInv, TakeHead PROVE ReaderInv'
<1>. DEFINE rest == After(buf, Len(Line))
<1>1. Parts /\ head = <<>> /\ raw = <<>> /\ buf \in Seq(Tokens)
  BY DEF ReaderInv, TakeHead, Parts
<1>2. Line \in Seq(Tokens) /\ rest \in Seq(Tokens) /\ Line \o rest = buf
  BY <1>1, LineIsCut
<1>3. head' = Line /\ buf' = rest /\ raw' = raw /\ UNCHANGED <<msg, arrived, left>>
  BY DEF TakeHead
<1>4. Line \o <<>> = Line /\ <<>> \o buf = buf /\ <<>> \o <<>> = <<>>
  BY <1>1, <1>2, ConcatEmptySeq
<1>. HIDE DEF rest
<1>5. Tokens' = Tokens
  BY <1>3 DEF Tokens
<1>6. Parts'
  BY <1>1, <1>2, <1>3, <1>5 DEF Parts
<1>7. head' \o raw' \o buf' = head \o raw \o buf
  BY <1>1, <1>2, <1>3, <1>4, Zenon
<1>8. NothingLostOrDoubled'
  BY <1>3, <1>7 DEF ReaderInv, NothingLostOrDoubled
<1>9. pc' # "head" /\ raw' = <<>>
  BY <1>1, <1>3, FramingAssumption DEF TakeHead, Parts
<1>. QED
  BY <1>6, <1>8, <1>9 DEF ReaderInv

\* A body that is read at once.
LEMMA TakeBodyStep == ASSUME ReaderInv, TakeBody PROVE ReaderInv'
<1>. DEFINE body == IF pc = "length" THEN First(buf, msg.length) ELSE buf
            rest == After(buf, Len(body))
<1>1. Parts /\ raw = <<>> /\ buf \in Seq(Tokens) /\ msg.length \in Nat
  BY FramingAssumption DEF ReaderInv, TakeBody, Parts
<1>2. body \in Seq(Tokens) /\ rest \in Seq(Tokens) /\ body \o rest = buf
  <2>1. CASE pc = "length"
    BY <1>1, <2>1, CutIsWhole
  <2>2. CASE pc # "length"
    BY <1>1, <2>2, CutAll, ConcatEmptySeq, EmptySeq
  <2>. QED
    BY <2>1, <2>2
<1>3. raw' = body /\ buf' = rest /\ pc' = "done" /\ UNCHANGED <<msg, arrived, head, left>>
  BY DEF TakeBody
<1>. HIDE DEF body, rest
<1>4. raw' = raw \o body
  BY <1>1, <1>2, <1>3, ConcatEmptySeq
<1>5. left' \in Nat
  BY <1>1, <1>3 DEF Parts
<1>. QED
  BY <1>2, <1>3, <1>4, <1>5, PieceMoved

\* A size line or a trailer line.
LEMMA TakeLineStep == ASSUME ReaderInv, TakeSize \/ TakeTrailer PROVE ReaderInv'
<1>. DEFINE rest == After(buf, Len(Line))
<1>1. Line \in Seq(Tokens) /\ rest \in Seq(Tokens) /\ Line \o rest = buf
  BY LineIsCut DEF ReaderInv
<1>2. raw' = raw \o Line /\ buf' = rest /\ UNCHANGED <<msg, arrived, head>>
  BY DEF TakeSize, TakeTrailer
<1>3. left' \in Nat /\ pc' \notin {"head", "length", "all", "drain"}
  <2>1. left \in Nat
    BY DEF ReaderInv, Parts
  <2>2. CASE TakeTrailer
    BY <2>1, <2>2 DEF TakeTrailer
  <2>3. CASE TakeSize
    BY <2>1, <2>3, FramingAssumption DEF TakeSize
  <2>. QED
    BY <2>2, <2>3
<1>. HIDE DEF rest
<1>. QED
  BY <1>1, <1>2, <1>3, PieceMoved

\* A chunk and its line end.
LEMMA TakeChunkStep == ASSUME ReaderInv, TakeChunk PROVE ReaderInv'
<1>. DEFINE chunk == First(buf, left + 1)
            rest == After(buf, Len(chunk))
<1>1. buf \in Seq(Tokens) /\ left \in Nat /\ left + 1 \in Nat
  BY DEF ReaderInv, Parts
<1>2. chunk \in Seq(Tokens) /\ rest \in Seq(Tokens) /\ chunk \o rest = buf
  BY <1>1, CutIsWhole
<1>3. /\ raw' = raw \o chunk /\ buf' = rest /\ pc' = "size"
      /\ UNCHANGED <<msg, arrived, head, left>>
  BY DEF TakeChunk
<1>. HIDE DEF chunk, rest
<1>. QED
  BY <1>1, <1>2, <1>3, PieceMoved

\* A block of the event stream: what is buffered, and the next tokens.
LEMMA ReadBlockStep == ASSUME ReaderInv, ReadBlock PROVE ReaderInv'
<1>1. PICK n \in IF buf # <<>> THEN {0} ELSE 1..(Len(msg.wire) - arrived) :
          /\ arrived' = arrived + n
          /\ buf' = <<>>
          /\ raw' = raw \o (buf \o SubSeq(msg.wire, arrived + 1, arrived + n))
          /\ pc' \in {"parsing", "flush"}
  BY DEF ReadBlock, Leave
<1>. DEFINE X == SubSeq(msg.wire, arrived + 1, arrived + n)
<1>2. Parts /\ head \in Seq(Tokens) /\ raw \in Seq(Tokens) /\ buf \in Seq(Tokens)
  BY DEF ReaderInv, Parts
<1>3. n \in 0..(Len(msg.wire) - arrived)
  <2>1. Len(msg.wire) \in Nat /\ arrived \in 0..Len(msg.wire)
    BY <1>2, FramingAssumption, LenProperties DEF Parts
  <2>. QED
    BY <1>1, <2>1
<1>4. /\ X \in Seq(Tokens)
      /\ SubSeq(msg.wire, 1, arrived) \o X = SubSeq(msg.wire, 1, arrived + n)
      /\ arrived + n \in 0..Len(msg.wire)
  BY <1>2, <1>3, NextTokens
<1>5. arrived' = arrived + n /\ buf' = <<>> /\ raw' = raw \o (buf \o X)
      /\ pc' \in {"parsing", "flush"}
  BY <1>1
<1>6. UNCHANGED <<msg, head, left>>
  BY DEF ReadBlock
<1>. HIDE DEF X
<1>7. Cat(buf, X) \in Seq(Tokens) /\ Cat(head, raw) \in Seq(Tokens) /\ <<>> \in Seq(Tokens)
  BY <1>2, <1>4, CatSeq, EmptySeq
<1>8. /\ Cat(Cat(head, Cat(raw, Cat(buf, X))), <<>>) = Cat(Cat(head, raw), Cat(Cat(buf, X), <<>>))
      /\ Cat(raw, Cat(buf, X)) \in Seq(Tokens)
  <2>. DEFINE Y == Cat(buf, X)
  <2>1. Y \in Seq(Tokens)
    BY <1>7
  <2>. HIDE DEF Y
  <2>2. PICK z : z = <<>>
    OBVIOUS
  <2>3. z \in Seq(Tokens) /\ head \in Seq(Tokens) /\ raw \in Seq(Tokens)
    BY <1>2, <1>7, <2>2
  <2>4. Cat(Cat(head, Cat(raw, Y)), z) = Cat(Cat(head, raw), Cat(Y, z)) /\ Cat(raw, Y) \in Seq(Tokens)
    BY <2>1, <2>3, Regrouped
  <2>. QED
    BY <2>2, <2>4 DEF Y
<1>9. Cat(Cat(buf, X), <<>>) = Cat(buf, X)
  BY <1>7, ConcatEmptySeq DEF Cat
<1>10. Cat(Cat(head, raw), Cat(buf, X)) = Cat(Cat(Cat(head, raw), buf), X)
  BY <1>2, <1>4, <1>7, CatAssociative
<1>11. Cat(Cat(head, raw), buf) = SubSeq(msg.wire, 1, arrived)
  BY DEF ReaderInv, NothingLostOrDoubled, Cat
<1>12. Cat(Cat(head, Cat(raw, Cat(buf, X))), <<>>) = SubSeq(msg.wire, 1, arrived + n)
  BY <1>4, <1>8, <1>9, <1>10, <1>11 DEF Cat
<1>13. NothingLostOrDoubled'
  BY <1>5, <1>6, <1>12 DEF NothingLostOrDoubled, Cat
<1>14. Tokens' = Tokens
  BY <1>6 DEF Tokens
<1>15. raw' \in Seq(Tokens)
  BY <1>5, <1>8 DEF Cat
<1>16. Parts'
  BY <1>2, <1>4, <1>5, <1>6, <1>7, <1>14, <1>15 DEF Parts
<1>. QED
  BY <1>5, <1>13, <1>16 DEF ReaderInv

\* The invariant holds at first.
LEMMA ReaderInitial == Init => ReaderInv
<1>. SUFFICES ASSUME Init PROVE ReaderInv
  OBVIOUS
<1>1. msg.wire \in Seq(Tokens) /\ <<>> \in Seq(Tokens)
  BY FramingAssumption, EmptySeq DEF Init, FramingInit, Tokens
<1>2. Len(msg.wire) \in Nat
  BY <1>1, LenProperties
<1>3. Parts
  <2>1. arrived \in 0..Len(msg.wire)
    <3>1. arrived = 0
      BY DEF Init, FramingInit
    <3>. QED
      BY <1>2, <3>1
  <2>2. head = <<>> /\ raw = <<>> /\ buf = <<>> /\ left = 0 /\ msg \in Messages
    BY DEF Init, FramingInit
  <2>. QED
    BY <1>1, <2>1, <2>2 DEF Parts
<1>4. <<>> \o <<>> \o <<>> = <<>>
  BY <1>1, ConcatEmptySeq
<1>5. SubSeq(msg.wire, 1, 0) = <<>>
  BY SubSeqEmpty
<1>. QED
  BY <1>3, <1>4, <1>5 DEF Init, FramingInit, ReaderInv, NothingLostOrDoubled

\* Every step keeps it.
LEMMA ReaderStep == ReaderInv /\ [Next]_vars => ReaderInv'
<1>. SUFFICES ASSUME ReaderInv, [Next]_vars PROVE ReaderInv'
  OBVIOUS
<1>1. CASE Read
  <2>1. CASE Fill
    BY <2>1, FillStep
  <2>2. CASE Raise
    BY <2>2, NothingMoved DEF Raise
  <2>3. CASE TakeHead
    BY <2>3, TakeHeadStep
  <2>4. CASE TakeBody
    BY <2>4, TakeBodyStep
  <2>5. CASE TakeSize \/ TakeTrailer
    BY <2>5, TakeLineStep
  <2>6. CASE TakeChunk
    BY <2>6, TakeChunkStep
  <2>. QED
    BY <1>1, <2>1, <2>2, <2>3, <2>4, <2>5, <2>6 DEF Read, ReadStep
<1>2. CASE ReadBlock
  BY <1>2, ReadBlockStep
<1>3. CASE EndLoop \/ TakeEvent \/ AppendBatch \/ BlockDone \/ Flush
  BY <1>3, NothingMoved
  DEF EndLoop, TakeEvent, AppendBatch, BlockDone, Flush, AppendEvents, Leave, readerVars
<1>4. CASE StopListener \/ EndCapture \/ UNCHANGED vars
  BY <1>4, NothingMoved DEF StopListener, EndCapture, vars, framingVars
<1>. QED
  BY <1>1, <1>2, <1>3, <1>4 DEF Next, Relay

\* The invariant holds for any messages, limits and sizes.
THEOREM ReaderCorrect == Spec => []ReaderInv
  BY ReaderInitial, ReaderStep, PTL DEF Spec

\* "Head-then-body reads cannot lose or double-count bytes" (_Reader): wherever
\* the network cuts the stream, what was returned and what is buffered is what
\* arrived, in order.
THEOREM ReadsLoseNothing == Spec => []NothingLostOrDoubled
<1>1. ReaderInv => NothingLostOrDoubled
  BY DEF ReaderInv
<1>. QED
  BY <1>1, ReaderCorrect, PTL
-----------------------------------------------------------------------------
(* The event stream: what has been sent to the client is what was read of    *)
(* the body, unless the client is gone.                                      *)

InStream == pc \in {"stream", "parsing"}
Left     == pc \in {"flush", "over"}

RelayInv ==
    /\ pc = "head" => relayed = 0
    /\ InStream => relayed = Len(raw)
    /\ Left => /\ why \in {"stop", "eof", "origin", "client", "cap"}
               /\ why # "client" => relayed = Len(raw)
               /\ why = "eof" => AtEnd

\* Reading the head and the other bodies.
LEMMA RelayKeptByRead == ASSUME ReaderInv, RelayInv, Read PROVE RelayInv'
<1>1. /\ pc \notin {"stream", "parsing", "flush", "over", "refused"}
      /\ UNCHANGED <<relayed, why>>
      /\ pc' = "head" => pc = "head"
      /\ pc' \notin {"parsing", "flush", "over", "refused"}
  BY FramingAssumption
  DEF Read, ReadStep, Fill, Raise, TakeHead, TakeBody, TakeSize, TakeChunk, TakeTrailer, Reading,
      parseVars, ReaderInv, Parts
<1>2. CASE pc' = "stream"
  <2>1. TakeHead
    BY <1>1, <1>2
    DEF Read, ReadStep, Fill, Raise, TakeBody, TakeSize, TakeChunk, TakeTrailer
  <2>2. relayed = 0 /\ raw' = <<>>
    BY <2>1 DEF TakeHead, RelayInv, ReaderInv
  <2>. QED
    BY <1>1, <1>2, <2>2 DEF RelayInv, InStream, Left
<1>. QED
  BY <1>1, <1>2 DEF RelayInv, InStream, Left

\* A block read from the stream.
LEMMA RelayKeptByReadBlock == ASSUME ReaderInv, RelayInv, ReadBlock PROVE RelayInv'
<1>1. PICK n \in IF buf # <<>> THEN {0} ELSE 1..(Len(msg.wire) - arrived) :
          LET block == buf \o SubSeq(msg.wire, arrived + 1, arrived + n) IN
          /\ raw' = raw \o block
          /\ \/ relayed' = relayed + Len(block) /\ pc' = "parsing"
             \/ pc' = "flush" /\ why' = "client"
  BY DEF ReadBlock, Leave
<1>. DEFINE X == SubSeq(msg.wire, arrived + 1, arrived + n)
            block == buf \o X
<1>2. Parts /\ raw \in Seq(Tokens) /\ buf \in Seq(Tokens)
  BY DEF ReaderInv, Parts
<1>3. n \in 0..(Len(msg.wire) - arrived)
  <2>1. Len(msg.wire) \in Nat /\ arrived \in 0..Len(msg.wire)
    BY <1>2, FramingAssumption, LenProperties DEF Parts
  <2>. QED
    BY <1>1, <2>1
<1>4. X \in Seq(Tokens)
  BY <1>2, <1>3, NextTokens
<1>5. block \in Seq(Tokens)
  <2>. HIDE DEF X
  <2>1. Cat(buf, X) \in Seq(Tokens)
    BY <1>2, <1>4, CatSeq
  <2>. QED
    BY <2>1 DEF Cat
<1>6. raw' = raw \o block /\ (\/ relayed' = relayed + Len(block) /\ pc' = "parsing"
                              \/ pc' = "flush" /\ why' = "client")
  BY <1>1
<1>. HIDE DEF block
<1>7. Len(raw \o block) = Len(raw) + Len(block)
  BY <1>2, <1>5, ConcatProperties
<1>8. relayed = Len(raw)
  BY DEF RelayInv, InStream, ReadBlock
<1>9. CASE relayed' = relayed + Len(block) /\ pc' = "parsing"
  <2>1. relayed' = Len(raw')
    BY <1>6, <1>7, <1>8, <1>9
  <2>. QED
    BY <1>9, <2>1 DEF RelayInv, InStream, Left
<1>10. CASE pc' = "flush" /\ why' = "client"
  BY <1>10 DEF RelayInv, InStream, Left
<1>. QED
  BY <1>6, <1>9, <1>10

\* The rest of the loop, and the stop handler.
LEMMA RelayKept ==
  ASSUME RelayInv,
         \/ EndLoop \/ TakeEvent \/ AppendBatch \/ BlockDone \/ Flush
         \/ StopListener \/ EndCapture \/ UNCHANGED vars
  PROVE  RelayInv'
<1>1. UNCHANGED <<msg, arrived, buf, raw, relayed>>
  BY DEF EndLoop, TakeEvent, AppendBatch, BlockDone, Flush, StopListener, EndCapture, vars,
         readerVars, framingVars, parseVars
<1>2. CASE EndLoop
  <2>1. pc' = "flush" /\ pc = "stream" /\ why' \in {"stop", "eof", "origin"} /\ (why' = "eof" => AtEnd)
    BY <1>2 DEF EndLoop, Leave
  <2>. QED
    BY <1>1, <2>1 DEF RelayInv, InStream, Left, AtEnd
<1>3. CASE BlockDone
  <2>1. pc = "parsing" /\ (pc' = "stream" \/ (pc' = "flush" /\ why' = "cap"))
    BY <1>3 DEF BlockDone, Leave
  <2>. QED
    BY <1>1, <2>1 DEF RelayInv, InStream, Left, AtEnd
<1>4. CASE TakeEvent \/ AppendBatch
  <2>1. pc = "parsing" /\ pc' \in {"parsing", "refused"} /\ why' = why
    BY <1>4 DEF TakeEvent, AppendBatch, AppendEvents
  <2>. QED
    BY <1>1, <2>1 DEF RelayInv, InStream, Left, AtEnd
<1>5. CASE Flush
  <2>1. pc = "flush" /\ pc' \in {"over", "refused"} /\ why' = why
    BY <1>5 DEF Flush, AppendEvents
  <2>. QED
    BY <1>1, <2>1 DEF RelayInv, InStream, Left, AtEnd
<1>6. CASE StopListener \/ EndCapture \/ UNCHANGED vars
  <2>1. UNCHANGED <<pc, why>>
    BY <1>6 DEF StopListener, EndCapture, vars, framingVars
  <2>. QED
    BY <1>1, <2>1 DEF RelayInv, InStream, Left, AtEnd
<1>. QED
  BY <1>2, <1>3, <1>4, <1>5, <1>6

\* What has been sent to the client is what was read, as long as it is there.
THEOREM RelayCorrect == Spec => []RelayInv
<1>1. Init => RelayInv
  BY DEF Init, FramingInit, RelayInv, InStream, Left
<1>2. ReaderInv /\ RelayInv /\ [Next]_vars => RelayInv'
  <2>. SUFFICES ASSUME ReaderInv, RelayInv, [Next]_vars PROVE RelayInv'
    OBVIOUS
  <2>1. CASE Read
    BY <2>1, RelayKeptByRead
  <2>2. CASE ReadBlock
    BY <2>2, RelayKeptByReadBlock
  <2>3. CASE \/ EndLoop \/ TakeEvent \/ AppendBatch \/ BlockDone \/ Flush
             \/ StopListener \/ EndCapture \/ UNCHANGED vars
    BY <2>3, RelayKept
  <2>. QED
    BY <2>1, <2>2, <2>3 DEF Next, Relay
<1>. QED
  BY <1>1, <1>2, ReaderCorrect, PTL DEF Spec

\* A stream that the relay leaves because it has come to its end has been
\* relayed whole, for any messages and sizes of batch (_relay_sse).
RelayedWhole ==
    pc = "over" /\ why \notin {"stop", "origin", "client", "cap"} =>
       relayed = Len(msg.wire) - Len(head)

LEMMA RelaysBelowTheCap == Spec => []RelayedWhole
<1>1. ReaderInv /\ RelayInv => RelayedWhole
  <2>. SUFFICES ASSUME ReaderInv, RelayInv, pc = "over", why \notin {"stop", "origin", "client", "cap"}
                PROVE  relayed = Len(msg.wire) - Len(head)
    BY DEF RelayedWhole
  <2>1. AtEnd /\ relayed = Len(raw)
    BY DEF RelayInv, Left
  <2>2. head \in Seq(Tokens) /\ raw \in Seq(Tokens) /\ msg.wire \in Seq(Tokens)
    BY FramingAssumption DEF ReaderInv, Parts, Tokens
  <2>3. Len(head \o raw) = Len(head) + Len(raw) /\ head \o raw \in Seq(Tokens)
    BY <2>2, ConcatProperties
  <2>4. head \o raw \o buf = head \o raw
    BY <2>1, <2>3, ConcatEmptySeq DEF AtEnd
  <2>5. SubSeq(msg.wire, 1, arrived) = msg.wire
    BY <2>1, <2>2, SubSeqFull DEF AtEnd
  <2>6. head \o raw = msg.wire
    BY <2>4, <2>5 DEF ReaderInv, NothingLostOrDoubled
  <2>7. PICK h, r : h = Len(head) /\ r = Len(raw) /\ h \in Nat /\ r \in Nat
    BY <2>2, LenProperties
  <2>8. Len(msg.wire) = h + r
    BY <2>3, <2>6, <2>7
  <2>. QED
    BY <2>1, <2>7, <2>8
<1>. QED
  BY <1>1, ReaderCorrect, RelayCorrect, PTL

-----------------------------------------------------------------------------
(* Where a message ends.                                                     *)

\* Earliest is the least place, if there is one.
LEMMA EarliestIs ==
  ASSUME NEW S \in SUBSET Nat, NEW n
  PROVE  /\ S = {} => Earliest(S, n) = n
         /\ S # {} => Earliest(S, n) \in S /\ \A j \in S : Earliest(S, n) <= j
<1>1. CASE S = {}
  BY <1>1 DEF Earliest
<1>2. CASE S # {}
  <2>1. \E i \in S : \A j \in S : i <= j
    BY <1>2, LeastExists
  <2>2. Earliest(S, n) = CHOOSE i \in S : \A j \in S : i <= j
    BY <1>2 DEF Earliest
  <2>. QED
    BY <1>2, <2>1, <2>2, Zenon
<1>. QED
  BY <1>1, <1>2

\* And the only one.
LEMMA EarliestOnly ==
  ASSUME NEW S \in SUBSET Nat, NEW n, NEW i \in S, \A j \in S : i <= j
  PROVE  Earliest(S, n) = i
<1>. DEFINE e == Earliest(S, n)
<1>1. e \in S /\ \A j \in S : e <= j
  BY EarliestIs
<1>. HIDE DEF e
<1>2. e <= i /\ i <= e /\ e \in Nat /\ i \in Nat
  BY <1>1
<1>3. e = i
  BY <1>2
<1>. QED
  BY <1>3 DEF e

\* The front of a sequence.
LEMMA FirstIs ==
  ASSUME NEW T, NEW s \in Seq(T), NEW n \in Nat
  PROVE  /\ First(s, n) \in Seq(T) /\ Len(s) \in Nat
         /\ Len(First(s, n)) = IF n < Len(s) THEN n ELSE Len(s)
         /\ \A i \in 1..Len(First(s, n)) : First(s, n)[i] = s[i]
         /\ Len(s) <= n => First(s, n) = s
<1>. DEFINE k == Minimum(n, Len(s))
<1>1. Len(s) \in Nat /\ k \in 0..Len(s) /\ k = (IF n < Len(s) THEN n ELSE Len(s))
  BY LenProperties DEF Minimum
<1>2. \A i \in 1..Len(s) : s[i] \in T
  BY ElementOfSeq
<1>. HIDE DEF k
<1>3. /\ SubSeq(s, 1, k) \in Seq(T) /\ Len(SubSeq(s, 1, k)) = k
      /\ \A i \in 1..k : SubSeq(s, 1, k)[i] = s[i]
  BY <1>1, <1>2, SubSeqProperties
<1>4. Len(s) <= n => SubSeq(s, 1, k) = s
  BY <1>1, SubSeqFull
<1>. QED
  BY <1>1, <1>3, <1>4 DEF First, k

\* A cut, told by its elements.
LEMMA CutIs ==
  ASSUME NEW T, NEW s \in Seq(T), NEW t \in Seq(T), NEW p \in Nat, NEW q \in p..Len(s),
         Len(t) = q - p, \A i \in 1..(q - p) : t[i] = s[p + i]
  PROVE  t = SubSeq(s, p + 1, q)
<1>1. Len(s) \in Nat /\ \A i \in 1..Len(s) : s[i] \in T
  BY LenProperties, ElementOfSeq
<1>2. /\ SubSeq(s, p + 1, q) \in Seq(T) /\ Len(SubSeq(s, p + 1, q)) = q - p
      /\ \A i \in 1..(q - p) : SubSeq(s, p + 1, q)[i] = s[p + i]
  BY <1>1, SubSeqProperties
<1>. QED
  BY <1>2, SeqEqual

\* The front of what goes on after a front.
LEMMA FirstOfFirst ==
  ASSUME NEW T, NEW s \in Seq(T), NEW t \in Seq(T), NEW n \in Nat
  PROVE  First(First(s, n) \o t, n) = First(s \o t, n)
<1>. DEFINE f == First(s, n)
            a == f \o t
            b == s \o t
<1>1. /\ f \in Seq(T) /\ Len(s) \in Nat /\ Len(t) \in Nat
      /\ Len(f) = IF n < Len(s) THEN n ELSE Len(s)
      /\ \A i \in 1..Len(f) : f[i] = s[i]
  BY FirstIs, LenProperties
<1>. HIDE DEF f
<1>2. /\ a \in Seq(T) /\ Len(a) = Len(f) + Len(t)
      /\ \A i \in 1..(Len(f) + Len(t)) : a[i] = IF i <= Len(f) THEN f[i] ELSE t[i - Len(f)]
  BY <1>1, ConcatProperties
<1>3. /\ b \in Seq(T) /\ Len(b) = Len(s) + Len(t)
      /\ \A i \in 1..(Len(s) + Len(t)) : b[i] = IF i <= Len(s) THEN s[i] ELSE t[i - Len(s)]
  BY <1>1, ConcatProperties
<1>. HIDE DEF a, b
<1>4. /\ First(a, n) \in Seq(T) /\ Len(First(a, n)) = IF n < Len(a) THEN n ELSE Len(a)
      /\ \A i \in 1..Len(First(a, n)) : First(a, n)[i] = a[i]
  BY <1>2, FirstIs
<1>5. /\ First(b, n) \in Seq(T) /\ Len(First(b, n)) = IF n < Len(b) THEN n ELSE Len(b)
      /\ \A i \in 1..Len(First(b, n)) : First(b, n)[i] = b[i]
  BY <1>3, FirstIs
<1>6. Len(First(a, n)) = Len(First(b, n))
  <2>1. CASE n < Len(s)
    <3>1. Len(f) = n /\ Len(a) = n + Len(t)
      BY <1>1, <1>2, <2>1
    <3>2. Len(First(a, n)) = n
      BY <1>1, <1>4, <3>1
    <3>3. n < Len(b)
      BY <1>1, <1>3, <2>1
    <3>. QED
      BY <1>5, <3>2, <3>3
  <2>2. CASE ~(n < Len(s))
    <3>1. Len(f) = Len(s)
      BY <1>1, <2>2
    <3>2. Len(a) = Len(b)
      BY <1>2, <1>3, <3>1
    <3>. QED
      BY <1>4, <1>5, <3>2
  <2>. QED
    BY <2>1, <2>2
<1>7. ASSUME NEW i \in 1..Len(First(a, n)) PROVE a[i] = b[i]
  <2>1. i \in Nat /\ i # 0 /\ i <= n /\ i <= Len(a) /\ i <= Len(b)
    BY <1>1, <1>2, <1>3, <1>4, <1>5, <1>6
  <2>2. CASE i <= Len(f)
    <3>1. i \in 1..Len(f) /\ i <= Len(s) /\ i \in 1..(Len(f) + Len(t)) /\ i \in 1..(Len(s) + Len(t))
      BY <1>1, <2>1, <2>2
    <3>2. a[i] = f[i]
      BY <1>2, <2>2, <3>1
    <3>3. b[i] = s[i]
      BY <1>3, <3>1
    <3>. QED
      BY <1>1, <3>1, <3>2, <3>3
  <2>3. CASE ~(i <= Len(f))
    <3>1. Len(f) = Len(s)
      BY <1>1, <2>1, <2>3
    <3>. QED
      BY <1>1, <1>2, <1>3, <2>1, <2>3, <3>1
  <2>. QED
    BY <2>2, <2>3
<1>8. First(a, n) = First(b, n)
  BY <1>4, <1>5, <1>6, <1>7, SeqEqual
<1>. QED
  BY <1>8 DEF a, b, f

\* A line ends behind its start, unless nothing is left.
LEMMA LineEndIs ==
  ASSUME NEW T, NEW s \in Seq(T), NEW p \in 0..Len(s)
  PROVE  /\ LineEnd(s, p) \in p..Len(s)
         /\ p < Len(s) => p < LineEnd(s, p)
         /\ p = Len(s) => LineEnd(s, p) = Len(s)
         /\ \A i \in (p + 1)..Len(s) : s[i] = Eol => LineEnd(s, p) <= i /\ s[LineEnd(s, p)] = Eol
         /\ (\A i \in (p + 1)..Len(s) : s[i] # Eol) => LineEnd(s, p) = Len(s)
<1>. DEFINE S == {i \in (p + 1)..Len(s) : s[i] = Eol}
<1>1. Len(s) \in Nat /\ S \in SUBSET Nat
  BY LenProperties
<1>2. /\ S = {} => LineEnd(s, p) = Len(s)
      /\ S # {} => LineEnd(s, p) \in S /\ \A j \in S : LineEnd(s, p) <= j
  BY <1>1, EarliestIs DEF LineEnd
<1>. QED
  BY <1>1, <1>2

\* A trailer is over with a blank line.
LEMMA TrailerEndIs ==
  ASSUME NEW T, NEW s \in Seq(T), NEW p \in 0..Len(s)
  PROVE  /\ TrailerEnd(s, p) \in p..Len(s)
         /\ p = Len(s) => TrailerEnd(s, p) = p
         /\ p < Len(s) /\ s[p + 1] = Eol => TrailerEnd(s, p) = p + 1
         /\ p < Len(s) /\ s[p + 1] # Eol => TrailerEnd(s, p) = TrailerEnd(s, LineEnd(s, p))
<1>. DEFINE S(k) == {i \in (k + 1)..Len(s) : s[i] = Eol /\ (i > k + 1 => s[i - 1] = Eol)}
            q == LineEnd(s, p)
<1>1. Len(s) \in Nat /\ \A k \in 0..Len(s) : S(k) \in SUBSET Nat /\ TrailerEnd(s, k) = Earliest(S(k), Len(s))
  BY LenProperties DEF TrailerEnd
<1>2. TrailerEnd(s, p) \in p..Len(s) /\ (p = Len(s) => TrailerEnd(s, p) = p)
  <2>1. /\ S(p) = {} => Earliest(S(p), Len(s)) = Len(s)
        /\ S(p) # {} => Earliest(S(p), Len(s)) \in S(p)
    BY <1>1, EarliestIs
  <2>. QED
    BY <1>1, <2>1
<1>3. ASSUME p < Len(s), s[p + 1] = Eol PROVE TrailerEnd(s, p) = p + 1
  <2>1. p + 1 \in S(p) /\ \A j \in S(p) : p + 1 <= j
    BY <1>1, <1>3
  <2>2. S(p) \in SUBSET Nat /\ TrailerEnd(s, p) = Earliest(S(p), Len(s))
    BY <1>1
  <2>. HIDE DEF S
  <2>3. Earliest(S(p), Len(s)) = p + 1
    BY <2>1, <2>2, EarliestOnly
  <2>. QED
    BY <2>2, <2>3
<1>4. ASSUME p < Len(s), s[p + 1] # Eol PROVE TrailerEnd(s, p) = TrailerEnd(s, q)
  <2>1. /\ q \in p..Len(s) /\ p < q
        /\ \A i \in (p + 1)..Len(s) : s[i] = Eol => q <= i /\ s[q] = Eol
        /\ (\A i \in (p + 1)..Len(s) : s[i] # Eol) => q = Len(s)
    BY <1>4, LineEndIs
  <2>. HIDE DEF q
  <2>4. /\ TrailerEnd(s, p) = Earliest(S(p), Len(s)) /\ S(p) \in SUBSET Nat
        /\ TrailerEnd(s, q) = Earliest(S(q), Len(s)) /\ S(q) \in SUBSET Nat
    <3>1. p \in 0..Len(s) /\ q \in 0..Len(s)
      BY <1>1, <2>1
    <3>. HIDE DEF S
    <3>. QED
      BY <1>1, <3>1
  <2>2. CASE \A i \in (p + 1)..Len(s) : s[i] # Eol
    <3>1. S(p) = {} /\ S(q) = {}
      BY <1>1, <2>1, <2>2
    <3>. HIDE DEF S
    <3>2. Earliest(S(p), Len(s)) = Len(s) /\ Earliest(S(q), Len(s)) = Len(s)
      BY <2>4, <3>1, EarliestIs
    <3>. QED
      BY <2>4, <3>2
  <2>3. CASE \E i \in (p + 1)..Len(s) : s[i] = Eol
    <3>1. s[q] = Eol /\ q # p + 1 /\ \A i \in (p + 1)..Len(s) : s[i] = Eol => q <= i
      BY <1>4, <2>1, <2>3
    <3>2. ASSUME NEW i \in S(p) PROVE i \in S(q)
      <4>1. q <= i /\ i \in Nat
        BY <1>1, <3>1
      <4>2. i # q
        <5>1. SUFFICES ASSUME i = q PROVE FALSE
          OBVIOUS
        <5>2. q - 1 \in (p + 1)..Len(s) /\ s[q - 1] = Eol
          BY <1>1, <2>1, <3>1, <5>1
        <5>. QED
          BY <2>1, <3>1, <5>2
      <4>. QED
        BY <1>1, <2>1, <4>1, <4>2
    <3>3. ASSUME NEW i \in S(q) PROVE i \in S(p)
      <4>1. i \in (q + 1)..Len(s) /\ i \in (p + 1)..Len(s) /\ s[i] = Eol
        BY <1>1, <2>1
      <4>2. s[i - 1] = Eol
        <5>1. i = q + 1 \/ i > q + 1
          BY <1>1, <2>1, <4>1
        <5>2. i = q + 1 => i - 1 = q
          BY <2>1
        <5>. QED
          BY <3>1, <5>1, <5>2
      <4>. QED
        BY <4>1, <4>2
    <3>. HIDE DEF S
    <3>4. S(p) = S(q)
      BY <3>2, <3>3
    <3>. QED
      BY <2>4, <3>4
  <2>. QED
    BY <2>2, <2>3
<1>. QED
  BY <1>2, <1>3, <1>4

\* The values of Chunks.
Parses(T, s) == [end : 0..Len(s), data : Seq(T)]

\* The type of a piece of a stream.
LEMMA BetweenIs ==
  ASSUME NEW T, NEW s \in Seq(T), NEW p \in 0..Len(s), NEW q \in Nat, p <= q
  PROVE  Between(s, p, q) \in Parses(T, s)
<1>. DEFINE m == Minimum(q, Len(s))
<1>1. Len(s) \in Nat /\ m \in 0..Len(s) /\ \A i \in 1..Len(s) : s[i] \in T
  BY LenProperties, ElementOfSeq DEF Minimum
<1>. HIDE DEF m
<1>2. SubSeq(s, p + 1, m) \in Seq(T)
  BY <1>1, SubSeqProperties
<1>. QED
  BY <1>1, <1>2 DEF Between, Parses, m

ChunkAt(s, p) == p # Len(s) /\ s[p + 1] \in DOMAIN SizeOf /\ SizeOf[s[p + 1]] # 0

\* Chunks follows the chunks one by one.
LEMMA ChunksAre ==
  ASSUME NEW T, NEW s \in Seq(T), NEW p \in 0..Len(s)
  PROVE  /\ Chunks(s)[p] \in Parses(T, s)
         /\ Chunks(s)[p] =
              LET q == LineEnd(s, p) IN
              IF p = Len(s) \/ s[p + 1] \notin DOMAIN SizeOf THEN [end |-> q, data |-> <<>>]
              ELSE IF SizeOf[s[p + 1]] = 0 THEN [end |-> TrailerEnd(s, q), data |-> <<>>]
              ELSE LET one  == Between(s, q, q + SizeOf[s[p + 1]])
                       rest == Chunks(s)[Minimum(q + SizeOf[s[p + 1]] + 1, Len(s))]
                   IN  [end |-> rest.end, data |-> one.data \o rest.data]
<1>. DEFINE L == Len(s)
            V == Parses(T, s)
            E(k) == LineEnd(s, k)
            D == {k \in 0..L : ChunkAt(s, k)}
            base == [k \in 0..L |-> IF k = Len(s) \/ s[k + 1] \notin DOMAIN SizeOf
                                    THEN [end |-> E(k), data |-> <<>>]
                                    ELSE [end |-> TrailerEnd(s, E(k)), data |-> <<>>]]
            next == [k \in 0..L |-> Minimum(E(k) + SizeOf[s[k + 1]] + 1, L)]
            one == [k \in 0..L |-> Between(s, E(k), E(k) + SizeOf[s[k + 1]]).data]
            step == [k \in 0..L |-> [v \in V |-> [end |-> v.end, data |-> one[k] \o v.data]]]
            Made(f) == [k \in 0..Len(s) |->
              LET q == LineEnd(s, k) IN
              IF k = Len(s) \/ s[k + 1] \notin DOMAIN SizeOf THEN [end |-> q, data |-> <<>>]
              ELSE IF SizeOf[s[k + 1]] = 0 THEN [end |-> TrailerEnd(s, q), data |-> <<>>]
              ELSE LET one_1  == Between(s, q, q + SizeOf[s[k + 1]])
                       rest == f[Minimum(q + SizeOf[s[k + 1]] + 1, Len(s))]
                   IN  [end |-> rest.end, data |-> one_1.data \o rest.data]]
<1>1. L \in Nat /\ 0 \in Nat
  BY LenProperties
<1>2. \A k \in 0..L : E(k) \in k..L /\ (k < L => k < E(k))
  BY LineEndIs
<1>3. \A k \in 0..L : base[k] \in V
  <2>1. ASSUME NEW k \in 0..L PROVE base[k] \in V
    <3>1. E(k) \in 0..L /\ <<>> \in Seq(T)
      BY <1>1, <1>2
    <3>2. TrailerEnd(s, E(k)) \in 0..L
      BY <1>1, <3>1, TrailerEndIs
    <3>. QED
      BY <3>1, <3>2 DEF Parses
  <2>. QED
    BY <2>1
<1>4. \A k \in D : /\ next[k] \in 0..L /\ k < next[k] /\ SizeOf[s[k + 1]] \in Nat
  <2>1. ASSUME NEW k \in D PROVE next[k] \in 0..L /\ k < next[k] /\ SizeOf[s[k + 1]] \in Nat
    <3>1. k < L /\ k \in 0..L /\ SizeOf[s[k + 1]] \in Nat
      BY <1>1, FramingAssumption DEF ChunkAt
    <3>2. E(k) \in Nat /\ E(k) <= L /\ k < E(k) /\ k \in Nat
      BY <1>1, <1>2, <3>1
    <3>3. PICK e \in Nat, z \in Nat : e = E(k) /\ z = SizeOf[s[k + 1]]
      BY <3>1, <3>2
    <3>4. next[k] = Minimum(e + z + 1, L)
      BY <3>1, <3>3
    <3>5. Minimum(e + z + 1, L) \in 0..L /\ k < Minimum(e + z + 1, L)
      <4>. HIDE DEF E, L
      <4>. QED
        BY <1>1, <3>1, <3>2, <3>3 DEF Minimum
    <3>. HIDE DEF next
    <3>. QED
      BY <3>1, <3>4, <3>5
  <2>. QED
    BY <2>1
<1>5. \A k \in D : one[k] \in Seq(T)
  <2>1. ASSUME NEW k \in D PROVE one[k] \in Seq(T)
    <3>1. E(k) \in 0..L /\ E(k) + SizeOf[s[k + 1]] \in Nat /\ E(k) <= E(k) + SizeOf[s[k + 1]]
      <4>1. PICK e \in Nat, z \in Nat : e = E(k) /\ z = SizeOf[s[k + 1]] /\ e \in 0..L
        <5>1. E(k) \in 0..L
          BY <1>1, <1>2
        <5>. HIDE DEF E
        <5>. QED
          BY <1>1, <1>4, <5>1
      <4>. HIDE DEF E
      <4>. QED
        BY <4>1
    <3>2. Between(s, E(k), E(k) + SizeOf[s[k + 1]]) \in V
      BY <3>1, BetweenIs
    <3>. QED
      BY <3>2 DEF Parses
  <2>. QED
    BY <2>1
<1>6. ASSUME NEW k \in D, NEW v \in V
      PROVE  /\ step[k][v] = [end |-> v.end, data |-> one[k] \o v.data]
             /\ step[k][v] \in V
  <2>1. one[k] \in Seq(T) /\ v.data \in Seq(T) /\ v.end \in 0..L /\ k \in 0..L
    BY <1>5 DEF Parses
  <2>2. one[k] \o v.data \in Seq(T)
    BY <2>1, ConcatProperties
  <2>3. step[k][v] = [end |-> v.end, data |-> one[k] \o v.data]
    BY <2>1
  <2>. QED
    BY <2>1, <2>2, <2>3 DEF Parses
<1>7. Chunks(s) = CHOOSE f : f = Made(f)
  BY DEF Chunks
<1>8. ASSUME NEW f, f = Made(f), NEW k \in 0..L
      PROVE  f[k] = IF k \in D THEN [end |-> f[next[k]].end, data |-> one[k] \o f[next[k]].data]
                    ELSE base[k]
  BY <1>8 DEF ChunkAt
<1>9. \E f : f = Made(f)
  <2>1. PICK f \in [0..L -> V] : \A k \in 0..L : f[k] = IF k \in D THEN step[k][f[next[k]]] ELSE base[k]
    <3>1. (0..L) \cap D = D
      OBVIOUS
    <3>. HIDE DEF D, base, next, step, V, L
    <3>2. Upwards(0, L, V, D, base, next, step)
      BY <1>3, <1>4, <1>6, <3>1 DEF Upwards
    <3>3. Defined(0, L, V, D, base, next, step)
      BY <1>1, <3>2, RecursionExists
    <3>. QED
      BY <3>3 DEF Defined
  <2>2. \A k \in 0..L : f[k] = Made(f)[k]
    <3>1. ASSUME NEW k \in 0..L, k \in D PROVE f[k] = Made(f)[k]
      <4>1. f[next[k]] \in V
        BY <1>4, <3>1
      <4>2. f[k] = [end |-> f[next[k]].end, data |-> one[k] \o f[next[k]].data]
        BY <1>6, <2>1, <3>1, <4>1
      <4>. QED
        BY <3>1, <4>2 DEF ChunkAt
    <3>2. ASSUME NEW k \in 0..L, k \notin D PROVE f[k] = Made(f)[k]
      BY <2>1, <3>2 DEF ChunkAt
    <3>. QED
      BY <3>1, <3>2
  <2>3. f = Made(f)
    BY <2>1, <2>2
  <2>. QED
    BY <2>3
<1>10. Chunks(s) = Made(Chunks(s))
  <2>. HIDE DEF Made
  <2>. QED
    BY <1>7, <1>9
<1>11. \A k \in 0..L : Chunks(s)[k] \in V
  <2>. DEFINE P == {k \in 0..L : Chunks(s)[k] \in V}
  <2>1. ASSUME NEW k \in 0..L, \A j \in 0..L : k < j => j \in P PROVE k \in P
    <3>1. CASE k \in D
      <4>1. Chunks(s)[next[k]] \in V
        BY <1>4, <2>1, <3>1
      <4>2. Chunks(s)[k] = [end |-> Chunks(s)[next[k]].end, data |-> one[k] \o Chunks(s)[next[k]].data]
        BY <1>8, <1>10, <3>1
      <4>3. Chunks(s)[k] \in V
        BY <1>6, <3>1, <4>1, <4>2
      <4>. QED
        BY <4>3
    <3>2. CASE k \notin D
      BY <1>3, <1>8, <1>10, <3>2
    <3>. QED
      BY <3>1, <3>2
  <2>2. 0..L \subseteq P
    <3>. HIDE DEF P, L
    <3>. QED
      BY <1>1, <2>1, Downward
  <2>. QED
    BY <2>2
<1>12. Chunks(s)[p] = Made(Chunks(s))[p]
  BY <1>10
<1>. QED
  BY <1>11, <1>12

-----------------------------------------------------------------------------
(* How far the reader is in the message.                                     *)

Pos == Len(head) + Len(raw)

\* What a chunk that is being read, and those after it, hold.
AfterChunk(s, p, n) ==
  LET rest == Chunks(s)[Minimum(p + n + 1, Len(s))]
  IN  [end |-> rest.end, data |-> Between(s, p, p + n).data \o rest.data]

AfterTrailer(s, p) == [end |-> TrailerEnd(s, p), data |-> <<>>]

\* With this behind what is recorded already, the whole is what the message says.
Goes(m, smp, rest) ==
  /\ rest.end = Meant(m).end
  /\ First(smp \o rest.data, SampleLimit) = First(Meant(m).data, SampleLimit)

MeantInv ==
  /\ eof => arrived = Len(msg.wire)
  /\ sample \in Seq(Tokens) /\ Len(sample) <= SampleLimit
  /\ pc = "head"    => sample = <<>>
  /\ pc = "size"    => msg.framing = "chunked" /\ Goes(msg, sample, Chunks(msg.wire)[Pos])
  /\ pc = "chunk"   => msg.framing = "chunked" /\ Goes(msg, sample, AfterChunk(msg.wire, Pos, left))
  /\ pc = "trailer" => msg.framing = "chunked" /\ Goes(msg, sample, AfterTrailer(msg.wire, Pos))
  /\ pc = "length"  => msg.framing = "length" /\ Pos = HeadEnd(msg.wire)
  /\ pc = "all"     => msg.framing = "close" /\ Pos = HeadEnd(msg.wire)
  /\ pc = "drain"   => msg.framing = "none"
  /\ ReadsTheMessage

\* The buffer holds the stream from there on.
LEMMA BufferIs ==
  ASSUME ReaderInv
  PROVE  /\ msg.wire \in Seq(Tokens) /\ Len(msg.wire) \in Nat
         /\ buf \in Seq(Tokens) /\ Len(buf) \in Nat /\ Pos \in Nat /\ arrived \in Nat
         /\ Pos + Len(buf) = arrived /\ arrived <= Len(msg.wire)
         /\ \A i \in 1..Len(buf) : buf[i] = msg.wire[Pos + i]
<1>1. /\ head \in Seq(Tokens) /\ raw \in Seq(Tokens) /\ buf \in Seq(Tokens)
      /\ msg.wire \in Seq(Tokens) /\ arrived \in 0..Len(msg.wire)
  BY FramingAssumption DEF ReaderInv, Parts, Tokens
<1>. DEFINE a == head \o raw
            b == a \o buf
<1>2. a \in Seq(Tokens) /\ Len(a) = Pos /\ Pos \in Nat /\ Len(buf) \in Nat /\ Len(msg.wire) \in Nat
  BY <1>1, ConcatProperties, LenProperties DEF Pos
<1>3. b = SubSeq(msg.wire, 1, arrived)
  BY DEF ReaderInv, NothingLostOrDoubled
<1>. HIDE DEF a
<1>4. /\ Len(b) = Pos + Len(buf)
      /\ \A i \in 1..(Pos + Len(buf)) : b[i] = IF i <= Pos THEN a[i] ELSE buf[i - Pos]
  BY <1>1, <1>2, ConcatProperties
<1>. HIDE DEF b
<1>5. Len(b) = arrived /\ arrived \in Nat /\ arrived <= Len(msg.wire) /\ \A i \in 1..arrived : b[i] = msg.wire[i]
  <2>1. \A i \in 1..Len(msg.wire) : msg.wire[i] \in Tokens
    BY <1>1, ElementOfSeq
  <2>. QED
    BY <1>1, <1>2, <1>3, <2>1, SubSeqProperties
<1>6. Pos + Len(buf) = arrived
  BY <1>4, <1>5
<1>7. ASSUME NEW i \in 1..Len(buf) PROVE buf[i] = msg.wire[Pos + i]
  <2>. HIDE DEF Pos
  <2>1. i \in Nat /\ Pos + i \in 1..arrived /\ ~(Pos + i <= Pos) /\ (Pos + i) - Pos = i
    BY <1>2, <1>6
  <2>2. b[Pos + i] = buf[i]
    BY <1>4, <1>6, <2>1
  <2>. QED
    BY <1>5, <2>1, <2>2
<1>. QED
  BY <1>1, <1>2, <1>5, <1>6, <1>7

\* The marker of a line.
LEMMA MarkIs ==
  ASSUME ReaderInv
  PROVE  /\ Marks \in SUBSET Nat
         /\ Mark = 0 => Marks = {}
         /\ Mark # 0 => /\ Mark \in Marks /\ Mark \in 1..Len(buf)
                        /\ \A j \in Marks : Mark <= j
                        /\ Len(Line) = Mark
<1>1. buf \in Seq(Tokens) /\ Len(buf) \in Nat /\ DOMAIN buf = 1..Len(buf)
  BY LenProperties DEF ReaderInv, Parts
<1>2. Marks \in SUBSET Nat /\ \A i \in Marks : i # 0 /\ i \in 1..Len(buf)
  BY <1>1 DEF Marks
<1>3. Marks # {} => Mark \in Marks /\ \A j \in Marks : Mark <= j
  <2>1. Marks # {} => \E i \in Marks : \A j \in Marks : i <= j
    BY <1>2, LeastExists
  <2>2. Marks # {} => Mark = CHOOSE i \in Marks : \A j \in Marks : i <= j
    BY DEF Mark
  <2>. QED
    BY <2>1, <2>2, Zenon
<1>4. Marks = {} => Mark = 0
  BY DEF Mark
<1>5. Mark # 0 => Len(Line) = Mark
  <2>. SUFFICES ASSUME Mark # 0 PROVE Len(Line) = Mark
    OBVIOUS
  <2>1. Mark \in 1..Len(buf) /\ Line = First(buf, Mark)
    BY <1>2, <1>3, <1>4 DEF Line
  <2>. QED
    BY <1>1, <2>1, FirstIs
<1>. QED
  BY <1>2, <1>3, <1>4, <1>5

\* A line read is the line of the stream.
LEMMA LineIs ==
  ASSUME ReaderInv, eof => arrived = Len(msg.wire), Ready, pc \in {"size", "trailer"}
  PROVE  /\ Pos \in 0..Len(msg.wire) /\ Len(Line) \in Nat
         /\ Pos + Len(Line) = LineEnd(msg.wire, Pos)
         /\ Line = <<>> <=> Pos = Len(msg.wire)
         /\ Line # <<>> => Line[1] = msg.wire[Pos + 1]
<1>. DEFINE L == Len(msg.wire)
            S == {i \in (Pos + 1)..L : msg.wire[i] = Eol}
<1>1. /\ msg.wire \in Seq(Tokens) /\ L \in Nat
      /\ buf \in Seq(Tokens) /\ Len(buf) \in Nat /\ Pos \in Nat /\ arrived \in Nat
      /\ Pos + Len(buf) = arrived /\ arrived <= L
      /\ \A i \in 1..Len(buf) : buf[i] = msg.wire[Pos + i]
  BY BufferIs
<1>2. Line \in Seq(Tokens) /\ Len(Line) \in Nat /\ S \in SUBSET Nat
  BY <1>1, LineIsCut, LenProperties DEF ReaderInv
<1>3. Marks = {i \in 1..Len(buf) : buf[i] = Eol}
  BY <1>1, LenProperties DEF Marks
<1>4. LineEnd(msg.wire, Pos) = Earliest(S, L)
  BY DEF LineEnd
<1>. HIDE DEF Pos
<1>5. CASE Mark # 0
  <2>1. Mark \in Marks /\ Mark \in 1..Len(buf) /\ (\A j \in Marks : Mark <= j) /\ Len(Line) = Mark
    BY <1>5, MarkIs
  <2>2. Pos + Mark \in S
    BY <1>1, <1>3, <2>1
  <2>3. ASSUME NEW j \in S PROVE Pos + Mark <= j
    <3>1. CASE j <= arrived
      <4>1. j - Pos \in 1..Len(buf) /\ Pos + (j - Pos) = j
        BY <1>1, <3>1
      <4>2. j - Pos \in Marks
        BY <1>1, <1>3, <4>1
      <4>. QED
        BY <1>1, <2>1, <4>1, <4>2
    <3>2. CASE ~(j <= arrived)
      BY <1>1, <2>1, <3>2
    <3>. QED
      BY <3>1, <3>2
  <2>4. LineEnd(msg.wire, Pos) = Pos + Mark
    <3>. HIDE DEF S
    <3>. QED
      BY <1>2, <1>4, <2>2, <2>3, EarliestOnly
  <2>5. Line = First(buf, Mark)
    BY <1>5 DEF Line
  <2>6. Line[1] = msg.wire[Pos + 1]
    <3>1. 1 \in 1..Len(buf) /\ 1 \in 1..Mark
      BY <1>1, <2>1
    <3>2. Line[1] = buf[1]
      BY <1>1, <2>1, <2>5, <3>1, FirstIs
    <3>. QED
      BY <1>1, <3>1, <3>2
  <2>7. Line # <<>> /\ Pos # L
    BY <1>1, <2>1
  <2>. QED
    BY <1>1, <1>2, <2>1, <2>4, <2>6, <2>7
<1>6. CASE Mark = 0
  <2>1. Marks = {} /\ Line = buf /\ arrived = L
    BY <1>6, MarkIs DEF Line, Ready
  <2>2. S = {}
    <3>1. ASSUME NEW j \in S PROVE FALSE
      <4>1. j - Pos \in 1..Len(buf) /\ Pos + (j - Pos) = j
        BY <1>1, <2>1
      <4>. QED
        BY <1>1, <1>3, <2>1, <4>1
    <3>. QED
      BY <3>1
  <2>3. LineEnd(msg.wire, Pos) = L
    <3>. HIDE DEF S
    <3>. QED
      BY <1>2, <1>4, <2>2, EarliestIs
  <2>4. Line = <<>> <=> Len(Line) = 0
    BY <1>2, EmptySeq
  <2>5. Len(buf) # 0 => buf[1] = msg.wire[Pos + 1]
    BY <1>1
  <2>. QED
    BY <1>1, <1>2, <2>1, <2>3, <2>4, <2>5
<1>. QED
  BY <1>5, <1>6

-----------------------------------------------------------------------------
(* The steps, for MeantInv.                                                  *)

\* The piece that leaves the buffer brings the reader on.
LEMMA PosMoves ==
  ASSUME ReaderInv, NEW piece \in Seq(Tokens), raw' = raw \o piece, head' = head
  PROVE  Pos' = Pos + Len(piece)
<1>1. raw \in Seq(Tokens) /\ head \in Seq(Tokens)
  BY DEF ReaderInv, Parts
<1>2. Len(raw \o piece) = Len(raw) + Len(piece)
  BY <1>1, ConcatProperties
<1>3. Len(raw) \in Nat /\ Len(head) \in Nat /\ Len(piece) \in Nat
  BY <1>1, LenProperties
<1>4. Pos' = Len(head) + Len(raw \o piece)
  BY DEF Pos
<1>. QED
  BY <1>2, <1>3, <1>4 DEF Pos

\* A line read in the body.
LEMMA PosMovesByLine ==
  ASSUME ReaderInv, TakeSize \/ TakeTrailer, eof => arrived = Len(msg.wire)
  PROVE  /\ Pos \in 0..Len(msg.wire) /\ Pos' = LineEnd(msg.wire, Pos)
         /\ Line = <<>> <=> Pos = Len(msg.wire)
         /\ Line # <<>> => Line[1] = msg.wire[Pos + 1]
<1>1. Line \in Seq(Tokens) /\ raw' = raw \o Line /\ head' = head
  BY LineIsCut DEF ReaderInv, TakeSize, TakeTrailer
<1>2. Pos' = Pos + Len(Line)
  BY <1>1, PosMoves
<1>3. Ready /\ pc \in {"size", "trailer"}
  BY DEF TakeSize, TakeTrailer
<1>4. /\ Pos \in 0..Len(msg.wire) /\ Pos + Len(Line) = LineEnd(msg.wire, Pos)
      /\ Line = <<>> <=> Pos = Len(msg.wire)
      /\ Line # <<>> => Line[1] = msg.wire[Pos + 1]
  BY <1>3, LineIs
<1>. QED
  BY <1>2, <1>4

\* When nothing more is to be read, the message is what is recorded.
LEMMA GoesNowhere ==
  ASSUME NEW m, NEW T, NEW smp \in Seq(T), Len(smp) <= SampleLimit, NEW e,
         Goes(m, smp, [end |-> e, data |-> <<>>])
  PROVE  e = Meant(m).end /\ smp = First(Meant(m).data, SampleLimit)
<1>1. smp \o <<>> = smp
  BY ConcatEmptySeq
<1>2. SampleLimit \in Nat
  BY FramingAssumption
<1>3. First(smp, SampleLimit) = smp
  BY <1>2, FirstIs
<1>. QED
  BY <1>1, <1>3 DEF Goes

\* The parts of MeantInv that only some steps touch.
LEMMA MeantKept ==
  ASSUME MeantInv, UNCHANGED <<msg, head, raw, sample, left>>, eof' => arrived' = Len(msg.wire),
         pc' = pc \/ pc' \notin {"head", "size", "chunk", "trailer", "length", "all", "drain", "done"}
  PROVE  MeantInv'
<1>1. Pos' = Pos /\ Tokens' = Tokens
  BY DEF Pos, Tokens
<1>2. CASE pc' = pc
  BY <1>1, <1>2 DEF MeantInv, ReadsTheMessage
<1>3. CASE pc' \notin {"head", "size", "chunk", "trailer", "length", "all", "drain", "done"}
  BY <1>1, <1>3 DEF MeantInv, ReadsTheMessage
<1>. QED
  BY <1>2, <1>3

\* A block arrives, or the end.
LEMMA MeantFill == ASSUME MeantInv, ReaderInv, Fill \/ Raise PROVE MeantInv'
<1>1. UNCHANGED <<msg, head, raw, sample, left>>
  BY DEF Fill, Raise
<1>2. pc' = pc \/ pc' \in {"toolong", "raised"}
  BY DEF Fill, Raise
<1>3. eof' => arrived' = Len(msg.wire)
  <2>1. CASE Raise
    BY <2>1 DEF Raise, MeantInv
  <2>2. CASE Fill
    <3>1. ~eof
      BY <2>2 DEF Fill, Ready
    <3>. QED
      BY <2>2, <3>1 DEF Fill
  <2>. QED
    BY <2>1, <2>2
<1>. QED
  BY <1>1, <1>2, <1>3, MeantKept

\* The head.
LEMMA MeantTakeHead == ASSUME MeantInv, ReaderInv, TakeHead PROVE MeantInv'
<1>1. /\ pc = "head" /\ Ready /\ head' = Line
      /\ UNCHANGED <<msg, arrived, eof, raw, sample, left>>
      /\ sample = <<>> /\ raw = <<>> /\ head = <<>>
  BY DEF TakeHead, MeantInv, ReaderInv
<1>2. Tokens' = Tokens
  BY <1>1 DEF Tokens
<1>3. msg \in Messages
  BY DEF ReaderInv, Parts
<1>4. CASE Mark = 0
  <2>1. pc' = "closed"
    BY <1>4 DEF TakeHead
  <2>. QED
    BY <1>1, <1>2, <2>1 DEF MeantInv, ReadsTheMessage
<1>5. CASE Mark # 0
  <2>1. /\ msg.wire \in Seq(Tokens) /\ Len(msg.wire) \in Nat
        /\ buf \in Seq(Tokens) /\ Len(buf) \in Nat
        /\ Pos + Len(buf) = arrived /\ arrived <= Len(msg.wire)
        /\ \A i \in 1..Len(buf) : buf[i] = msg.wire[Pos + i]
    BY BufferIs
  <2>2. Len(<<>>) = 0
    BY EmptySeq
  <2>3. Pos = 0
    BY <1>1, <2>2 DEF Pos
  <2>4. arrived = Len(buf) /\ \A i \in 1..Len(buf) : buf[i] = msg.wire[i]
    BY <2>1, <2>3
  <2>5. /\ Mark \in Marks /\ Mark \in 1..Len(buf)
        /\ (\A j \in Marks : Mark <= j) /\ Len(Line) = Mark
    BY <1>5, MarkIs
  <2>6. Marks = {i \in 1..Len(buf) : buf[i] = Eol /\ i > 1 /\ buf[i - 1] = Eol}
    BY <1>1, <2>1, LenProperties DEF Marks
  <2>. DEFINE S == {i \in 2..Len(msg.wire) : msg.wire[i] = Eol /\ msg.wire[i - 1] = Eol}
  <2>7. S \in SUBSET Nat /\ HeadEnd(msg.wire) = Earliest(S, Len(msg.wire))
    BY DEF HeadEnd
  <2>8. Mark \in S
    <3>1. Mark \in 1..Len(buf) /\ Mark > 1 /\ buf[Mark] = Eol /\ buf[Mark - 1] = Eol
      BY <2>5, <2>6
    <3>2. Mark - 1 \in 1..Len(buf) /\ Mark \in 2..Len(msg.wire)
      BY <2>1, <2>4, <3>1
    <3>. QED
      BY <2>4, <3>1, <3>2
  <2>9. ASSUME NEW j \in S PROVE Mark <= j
    <3>1. CASE j <= Len(buf)
      <4>1. j \in 1..Len(buf) /\ j - 1 \in 1..Len(buf) /\ j > 1
        BY <2>1, <3>1
      <4>2. j \in Marks
        BY <2>4, <2>6, <4>1
      <4>. QED
        BY <2>5, <4>2
    <3>2. CASE ~(j <= Len(buf))
      BY <2>1, <2>5, <3>2
    <3>. QED
      BY <3>1, <3>2
  <2>10. HeadEnd(msg.wire) = Mark
    <3>. HIDE DEF S
    <3>. QED
      BY <2>7, <2>8, <2>9, EarliestOnly
  <2>11. Pos' = HeadEnd(msg.wire)
    <3>1. Pos' = Len(Line) + Len(<<>>)
      BY <1>1 DEF Pos
    <3>. QED
      BY <2>2, <2>5, <2>10, <3>1
  <2>12. HeadEnd(msg.wire) \in 0..Len(msg.wire)
    BY <2>1, <2>4, <2>5, <2>10
  <2>13. /\ msg.framing = "chunked" => pc' = "size"
         /\ msg.framing = "length" => pc' = "length"
         /\ msg.framing = "close" => pc' = "all"
         /\ msg.framing = "none" => pc' = "drain"
         /\ msg.framing = "events" => pc' = "stream"
         /\ msg.framing \in {"chunked", "length", "close", "none", "events"}
    BY <1>3, <1>5, FramingAssumption DEF TakeHead
  <2>14. ASSUME msg.framing = "chunked" PROVE Goes(msg, <<>>, Chunks(msg.wire)[HeadEnd(msg.wire)])
    <3>. DEFINE c == Chunks(msg.wire)[HeadEnd(msg.wire)]
    <3>1. Meant(msg) = c
      BY <2>14 DEF Meant
    <3>2. c \in Parses(Tokens, msg.wire)
      BY <2>1, <2>12, ChunksAre
    <3>. HIDE DEF c
    <3>3. <<>> \o c.data = c.data
      BY <3>2, ConcatEmptySeq DEF Parses
    <3>4. Goes(msg, <<>>, c)
      BY <3>1, <3>3 DEF Goes
    <3>. QED
      BY <3>4 DEF c
  <2>. HIDE DEF Pos
  <2>. QED
    BY <1>1, <1>2, <2>11, <2>13, <2>14 DEF MeantInv, ReadsTheMessage
<1>. QED
  BY <1>4, <1>5

\* A body that is read at once.
LEMMA MeantTakeBody == ASSUME MeantInv, ReaderInv, TakeBody PROVE MeantInv'
<1>. DEFINE body == IF pc = "length" THEN First(buf, msg.length) ELSE buf
            L == Len(msg.wire)
            n == Len(body)
<1>1. /\ pc \in {"length", "all", "drain"} /\ Ready
      /\ raw' = body /\ sample' = IF pc = "drain" THEN <<>> ELSE First(body, SampleLimit)
      /\ pc' = "done" /\ UNCHANGED <<msg, arrived, eof, head, left>>
  BY DEF TakeBody
<1>2. /\ msg.wire \in Seq(Tokens) /\ L \in Nat /\ arrived \in Nat
      /\ buf \in Seq(Tokens) /\ Len(buf) \in Nat /\ Pos \in Nat
      /\ Pos + Len(buf) = arrived /\ arrived <= L
      /\ \A i \in 1..Len(buf) : buf[i] = msg.wire[Pos + i]
  BY BufferIs
<1>3. msg.length \in Nat /\ raw = <<>> /\ SampleLimit \in Nat
  BY <1>1, FramingAssumption DEF ReaderInv, Parts
<1>4. body \in Seq(Tokens) /\ n \in 0..Len(buf) /\ \A i \in 1..n : body[i] = buf[i]
  <2>1. CASE pc = "length"
    BY <1>2, <1>3, <2>1, FirstIs
  <2>2. CASE pc # "length"
    BY <1>2, <2>2
  <2>. QED
    BY <2>1, <2>2
<1>5. Tokens' = Tokens
  BY <1>1 DEF Tokens
<1>6. sample' \in Seq(Tokens) /\ Len(sample') <= SampleLimit
  <2>1. /\ First(body, SampleLimit) \in Seq(Tokens)
        /\ Len(First(body, SampleLimit)) = IF SampleLimit < Len(body) THEN SampleLimit ELSE Len(body)
        /\ Len(body) \in Nat
    <3>. HIDE DEF body
    <3>. QED
      BY <1>3, <1>4, FirstIs
  <2>2. <<>> \in Seq(Tokens) /\ Len(<<>>) = 0
    BY EmptySeq
  <2>. HIDE DEF body
  <2>. QED
    BY <1>1, <1>3, <2>1, <2>2
<1>7. Pos' = Pos + n
  <2>1. raw' = raw \o body
    <3>. HIDE DEF body
    <3>. QED
      BY <1>1, <1>3, <1>4, ConcatEmptySeq
  <2>. HIDE DEF body
  <2>. QED
    BY <1>1, <1>4, <2>1, PosMoves
<1>8. msg.framing # "none" =>
        Pos' = Meant(msg).end /\ sample' = First(Meant(msg).data, SampleLimit)
  <2>. SUFFICES ASSUME msg.framing # "none"
                PROVE  Pos' = Meant(msg).end /\ sample' = First(Meant(msg).data, SampleLimit)
    OBVIOUS
  <2>. DEFINE h == HeadEnd(msg.wire)
              q == IF pc = "length" THEN h + msg.length ELSE L
              m == Minimum(q, L)
  <2>1. /\ pc = "length" => msg.framing = "length" /\ Pos = h
        /\ pc = "all" => msg.framing = "close" /\ Pos = h
        /\ pc \in {"length", "all"} /\ (eof => arrived = L)
    BY <1>1 DEF MeantInv
  <2>2. Meant(msg) = Between(msg.wire, h, q)
    BY <2>1 DEF Meant
  <2>3. m = Pos + n /\ m \in Pos..L
    <3>1. CASE pc = "length"
      <4>1. n = IF msg.length < Len(buf) THEN msg.length ELSE Len(buf)
        BY <1>2, <1>3, <3>1, FirstIs
      <4>2. Len(buf) >= msg.length \/ arrived = L
        BY <1>1, <2>1, <3>1 DEF Ready
      <4>3. m = Minimum(Pos + msg.length, L)
        BY <2>1, <3>1
      <4>. HIDE DEF n, m
      <4>. QED
        BY <1>2, <1>3, <4>1, <4>2, <4>3 DEF Minimum
    <3>2. CASE pc = "all"
      <4>1. arrived = L
        BY <1>1, <2>1, <3>2 DEF Ready
      <4>2. n = Len(buf) /\ m = Minimum(L, L)
        BY <3>2
      <4>. HIDE DEF n, m
      <4>. QED
        BY <1>2, <4>1, <4>2 DEF Minimum
    <3>. QED
      BY <2>1, <3>1, <3>2
  <2>4. body = SubSeq(msg.wire, Pos + 1, m)
    <3>1. Len(body) = m - Pos
      <4>. HIDE DEF m, n
      <4>1. n = m - Pos
        BY <1>2, <1>4, <2>3
      <4>. QED
        BY <4>1 DEF n
    <3>2. \A i \in 1..(m - Pos) : body[i] = msg.wire[Pos + i]
      <4>1. 1..(m - Pos) = 1..n /\ 1..n \subseteq 1..Len(buf)
        <5>. HIDE DEF m, n
        <5>. QED
          BY <1>2, <1>4, <2>3
      <4>. HIDE DEF m, n, body
      <4>. QED
        BY <1>2, <1>4, <4>1
    <3>. HIDE DEF body, m
    <3>. QED
      BY <1>2, <1>4, <2>3, <3>1, <3>2, CutIs
  <2>5. Pos = h
    BY <2>1
  <2>6. Meant(msg).end = m /\ Meant(msg).data = body
    BY <2>2, <2>4, <2>5 DEF Between
  <2>7. sample' = First(body, SampleLimit)
    BY <1>1, <2>1
  <2>. HIDE DEF m, body, n
  <2>. QED
    BY <1>7, <2>3, <2>6, <2>7
<1>9. Pos' = Len(head') + Len(raw')
  BY DEF Pos
<1>. HIDE DEF body, n
<1>. QED
  BY <1>1, <1>5, <1>6, <1>8, <1>9 DEF MeantInv, ReadsTheMessage

\* A size line.
LEMMA MeantTakeSize == ASSUME MeantInv, ReaderInv, TakeSize PROVE MeantInv'
<1>. DEFINE s == msg.wire
            q == LineEnd(s, Pos)
<1>1. /\ pc = "size" /\ Ready
      /\ UNCHANGED <<msg, arrived, eof, head, sample>>
      /\ eof => arrived = Len(s)
      /\ msg.framing = "chunked" /\ Goes(msg, sample, Chunks(s)[Pos])
      /\ sample \in Seq(Tokens) /\ Len(sample) <= SampleLimit
  BY DEF TakeSize, MeantInv
<1>2. /\ Pos \in 0..Len(s) /\ Pos' = q
      /\ Line = <<>> <=> Pos = Len(s)
      /\ Line # <<>> => Line[1] = s[Pos + 1]
  BY <1>1, PosMovesByLine
<1>3. s \in Seq(Tokens) /\ Tokens' = Tokens
  BY <1>1, BufferIs DEF Tokens
<1>4. Chunks(s)[Pos] =
              IF Pos = Len(s) \/ s[Pos + 1] \notin DOMAIN SizeOf THEN [end |-> q, data |-> <<>>]
              ELSE IF SizeOf[s[Pos + 1]] = 0 THEN [end |-> TrailerEnd(s, q), data |-> <<>>]
              ELSE LET one  == Between(s, q, q + SizeOf[s[Pos + 1]])
                       rest == Chunks(s)[Minimum(q + SizeOf[s[Pos + 1]] + 1, Len(s))]
                   IN  [end |-> rest.end, data |-> one.data \o rest.data]
  BY <1>2, <1>3, ChunksAre
<1>5. CASE Line # <<>> /\ Line[1] \in DOMAIN SizeOf
  <2>1. left' = SizeOf[s[Pos + 1]] /\ Pos # Len(s) /\ s[Pos + 1] \in DOMAIN SizeOf
    BY <1>2, <1>5 DEF TakeSize
  <2>2. CASE SizeOf[s[Pos + 1]] = 0
    <3>1. pc' = "trailer"
      BY <1>2, <1>5, <2>2 DEF TakeSize
    <3>2. Goes(msg, sample, AfterTrailer(s, q))
      BY <1>1, <1>4, <2>1, <2>2 DEF AfterTrailer
    <3>. HIDE DEF q
    <3>. QED
      BY <1>1, <1>2, <1>3, <3>1, <3>2 DEF MeantInv, ReadsTheMessage
  <2>3. CASE SizeOf[s[Pos + 1]] # 0
    <3>1. pc' = "chunk"
      BY <1>2, <1>5, <2>3 DEF TakeSize
    <3>2. Goes(msg, sample, AfterChunk(s, q, left'))
      BY <1>1, <1>4, <2>1, <2>3 DEF AfterChunk
    <3>. HIDE DEF q
    <3>. QED
      BY <1>1, <1>2, <1>3, <3>1, <3>2 DEF MeantInv, ReadsTheMessage
  <2>. QED
    BY <2>2, <2>3
<1>6. CASE ~(Line # <<>> /\ Line[1] \in DOMAIN SizeOf)
  <2>1. pc' = "done"
    BY <1>6 DEF TakeSize
  <2>2. Goes(msg, sample, [end |-> q, data |-> <<>>])
    BY <1>1, <1>2, <1>4, <1>6
  <2>3. q = Meant(msg).end /\ sample = First(Meant(msg).data, SampleLimit)
    <3>. HIDE DEF q
    <3>. QED
      BY <1>1, <2>2, GoesNowhere
  <2>4. Pos' = Len(head') + Len(raw')
    BY DEF Pos
  <2>. HIDE DEF q
  <2>. QED
    BY <1>1, <1>2, <1>3, <2>1, <2>3, <2>4 DEF MeantInv, ReadsTheMessage
<1>. QED
  BY <1>5, <1>6

\* A trailer line.
LEMMA MeantTakeTrailer == ASSUME MeantInv, ReaderInv, TakeTrailer PROVE MeantInv'
<1>. DEFINE s == msg.wire
            q == LineEnd(s, Pos)
<1>1. /\ pc = "trailer" /\ Ready
      /\ UNCHANGED <<msg, arrived, eof, head, sample>>
      /\ eof => arrived = Len(s)
      /\ msg.framing = "chunked" /\ Goes(msg, sample, AfterTrailer(s, Pos))
      /\ sample \in Seq(Tokens) /\ Len(sample) <= SampleLimit
  BY DEF TakeTrailer, MeantInv
<1>2. /\ Pos \in 0..Len(s) /\ Pos' = q
      /\ Line = <<>> <=> Pos = Len(s)
      /\ Line # <<>> => Line[1] = s[Pos + 1]
  BY <1>1, PosMovesByLine
<1>3. s \in Seq(Tokens) /\ Tokens' = Tokens /\ Len(s) \in Nat
  BY <1>1, BufferIs DEF Tokens
<1>4. /\ Pos = Len(s) => TrailerEnd(s, Pos) = Pos
      /\ Pos < Len(s) /\ s[Pos + 1] = Eol => TrailerEnd(s, Pos) = Pos + 1
      /\ Pos < Len(s) /\ s[Pos + 1] # Eol => TrailerEnd(s, Pos) = TrailerEnd(s, q)
  BY <1>2, <1>3, TrailerEndIs
<1>5. /\ q \in Pos..Len(s)
      /\ Pos < Len(s) => Pos < q
      /\ \A i \in (Pos + 1)..Len(s) : s[i] = Eol => q <= i
  BY <1>2, <1>3, LineEndIs
<1>6. CASE Line \in {<<>>, <<Eol>>}
  <2>1. pc' = "done"
    BY <1>6 DEF TakeTrailer
  <2>2. TrailerEnd(s, Pos) = q
    <3>1. CASE Line = <<>>
      <4>1. Pos = Len(s)
        BY <1>2, <3>1
      <4>. HIDE DEF q
      <4>. QED
        BY <1>2, <1>3, <1>4, <1>5, <4>1
    <3>2. CASE Line = <<Eol>>
      <4>1. Pos < Len(s) /\ s[Pos + 1] = Eol
        BY <1>2, <1>3, <3>2
      <4>. HIDE DEF q
      <4>2. q <= Pos + 1 /\ Pos < q /\ q \in Nat /\ Pos \in Nat
        BY <1>2, <1>3, <1>5, <4>1
      <4>3. TrailerEnd(s, Pos) = Pos + 1
        BY <1>4, <4>1
      <4>. QED
        BY <4>2, <4>3
    <3>. QED
      BY <1>6, <3>1, <3>2
  <2>3. Goes(msg, sample, [end |-> q, data |-> <<>>])
    BY <1>1, <2>2 DEF AfterTrailer
  <2>4. q = Meant(msg).end /\ sample = First(Meant(msg).data, SampleLimit)
    <3>. HIDE DEF q
    <3>. QED
      BY <1>1, <2>3, GoesNowhere
  <2>5. Pos' = Len(head') + Len(raw')
    BY DEF Pos
  <2>. HIDE DEF q
  <2>. QED
    BY <1>1, <1>2, <1>3, <2>1, <2>4, <2>5 DEF MeantInv, ReadsTheMessage
<1>7. CASE Line \notin {<<>>, <<Eol>>}
  <2>1. pc' = "trailer"
    BY <1>7 DEF TakeTrailer
  <2>2. Pos < Len(s)
    BY <1>2, <1>3, <1>7
  <2>3. s[Pos + 1] # Eol
    <3>. SUFFICES ASSUME s[Pos + 1] = Eol PROVE FALSE
      OBVIOUS
    <3>1. Len(Line) = 1 /\ Line \in Seq(Tokens)
      <4>1. Pos + Len(Line) = q /\ Len(Line) \in Nat
        BY <1>1, LineIs
      <4>2. q <= Pos + 1 /\ Pos < q
        <5>. HIDE DEF q
        <5>1. Pos + 1 \in (Pos + 1)..Len(s)
          BY <1>2, <1>3, <2>2
        <5>. QED
          BY <1>5, <2>2, <5>1
      <4>3. PICK p, l : p = Pos /\ l = Len(Line) /\ p \in Nat /\ l \in Nat
        <5>1. Pos \in Nat
          BY <1>2
        <5>. HIDE DEF q, Pos
        <5>. QED
          BY <4>1, <5>1
      <4>. HIDE DEF q, Pos
      <4>4. p + l <= p + 1 /\ p < p + l
        BY <4>1, <4>2, <4>3
      <4>5. l = 1
        BY <4>3, <4>4
      <4>. QED
        BY <4>3, <4>5, LineIsCut DEF ReaderInv
    <3>2. Line[1] = Eol
      BY <1>2, <1>7
    <3>3. Line = <<Eol>>
      BY <3>1, <3>2
    <3>. QED
      BY <1>7, <3>3
  <2>4. Goes(msg, sample, AfterTrailer(s, q))
    BY <1>1, <1>4, <2>2, <2>3 DEF AfterTrailer
  <2>. HIDE DEF q
  <2>. QED
    BY <1>1, <1>2, <1>3, <2>1, <2>4 DEF MeantInv, ReadsTheMessage
<1>. QED
  BY <1>6, <1>7

\* A chunk.
LEMMA MeantTakeChunk == ASSUME MeantInv, ReaderInv, TakeChunk PROVE MeantInv'
<1>. DEFINE s == msg.wire
            L == Len(s)
            chunk == First(buf, left + 1)
            piece == First(chunk, left)
            next == Minimum(Pos + left + 1, L)
            upto == Minimum(Pos + left, L)
            rest == Chunks(s)[next]
<1>1. /\ pc = "chunk" /\ Ready /\ pc' = "size"
      /\ raw' = raw \o chunk /\ sample' = First(sample \o piece, SampleLimit)
      /\ UNCHANGED <<msg, arrived, eof, head, left>>
      /\ eof => arrived = Len(s)
      /\ msg.framing = "chunked" /\ Goes(msg, sample, AfterChunk(s, Pos, left))
      /\ sample \in Seq(Tokens) /\ Len(sample) <= SampleLimit
  BY DEF TakeChunk, MeantInv
<1>2. /\ s \in Seq(Tokens) /\ L \in Nat /\ arrived \in Nat
      /\ buf \in Seq(Tokens) /\ Len(buf) \in Nat /\ Pos \in Nat
      /\ Pos + Len(buf) = arrived /\ arrived <= L
      /\ \A i \in 1..Len(buf) : buf[i] = s[Pos + i]
  BY BufferIs
<1>3. left \in Nat /\ left + 1 \in Nat /\ SampleLimit \in Nat
  BY FramingAssumption DEF ReaderInv, Parts
<1>4. /\ chunk \in Seq(Tokens) /\ Len(chunk) = IF left + 1 < Len(buf) THEN left + 1 ELSE Len(buf)
      /\ \A i \in 1..Len(chunk) : chunk[i] = buf[i]
  BY <1>2, <1>3, FirstIs
<1>. HIDE DEF chunk
<1>5. /\ piece \in Seq(Tokens) /\ Len(piece) = IF left < Len(chunk) THEN left ELSE Len(chunk)
      /\ \A i \in 1..Len(piece) : piece[i] = chunk[i]
  BY <1>3, <1>4, FirstIs
<1>6. Len(buf) >= left + 1 \/ arrived = L
  BY <1>1 DEF Ready
<1>. HIDE DEF piece, Pos
<1>7. next = Pos + Len(chunk) /\ next \in 0..L
  BY <1>2, <1>3, <1>4, <1>6 DEF Minimum
<1>8. Pos' = next
  BY <1>1, <1>4, <1>7, PosMoves
<1>9. Len(piece) = upto - Pos /\ upto \in Pos..L /\ Len(piece) <= Len(chunk) /\ Len(chunk) <= Len(buf)
  BY <1>2, <1>3, <1>4, <1>5, <1>6 DEF Minimum
<1>10. piece = SubSeq(s, Pos + 1, upto)
  <2>1. \A i \in 1..(upto - Pos) : piece[i] = s[Pos + i]
    <3>. HIDE DEF upto
    <3>1. ASSUME NEW i \in 1..(upto - Pos) PROVE piece[i] = s[Pos + i]
      <4>1. i \in 1..Len(piece) /\ i \in 1..Len(chunk) /\ i \in 1..Len(buf)
        BY <1>2, <1>4, <1>9
      <4>. QED
        BY <1>2, <1>4, <1>5, <4>1
    <3>. QED
      BY <3>1
  <2>. HIDE DEF upto
  <2>. QED
    BY <1>2, <1>5, <1>9, <2>1, CutIs
<1>11. rest \in Parses(Tokens, s)
  <2>. HIDE DEF next
  <2>. QED
    BY <1>2, <1>7, ChunksAre
<1>12. AfterChunk(s, Pos, left) = [end |-> rest.end, data |-> piece \o rest.data]
  BY <1>10 DEF AfterChunk, Between
<1>. HIDE DEF rest, next, upto
<1>13. rest.data \in Seq(Tokens)
  BY <1>11 DEF Parses
<1>14. First(sample' \o rest.data, SampleLimit) = First(sample \o (piece \o rest.data), SampleLimit)
  <2>. DEFINE z == sample \o piece
  <2>1. z \in Seq(Tokens)
    BY <1>1, <1>5, ConcatProperties
  <2>2. z \o rest.data = sample \o (piece \o rest.data)
    <3>1. PICK d \in Seq(Tokens) : d = rest.data
      BY <1>13
    <3>2. Cat(Cat(sample, piece), d) = Cat(sample, Cat(piece, d))
      BY <1>1, <1>5, CatAssociative
    <3>. QED
      BY <3>1, <3>2 DEF Cat
  <2>3. sample' = First(z, SampleLimit)
    BY <1>1
  <2>. HIDE DEF z
  <2>4. First(First(z, SampleLimit) \o rest.data, SampleLimit) = First(z \o rest.data, SampleLimit)
    BY <1>3, <1>13, <2>1, FirstOfFirst
  <2>. QED
    BY <2>2, <2>3, <2>4
<1>15. Goes(msg, sample', rest)
  BY <1>1, <1>12, <1>14 DEF Goes
<1>16. sample' \in Seq(Tokens) /\ Len(sample') <= SampleLimit
  <2>. DEFINE z == sample \o piece
  <2>1. z \in Seq(Tokens)
    BY <1>1, <1>5, ConcatProperties
  <2>2. sample' = First(z, SampleLimit)
    BY <1>1
  <2>. HIDE DEF z
  <2>3. Len(z) \in Nat /\ First(z, SampleLimit) \in Seq(Tokens)
        /\ Len(First(z, SampleLimit)) = IF SampleLimit < Len(z) THEN SampleLimit ELSE Len(z)
    BY <1>3, <2>1, FirstIs
  <2>. QED
    BY <1>3, <2>2, <2>3
<1>17. Tokens' = Tokens
  BY <1>1 DEF Tokens
<1>18. rest = Chunks(s)[Pos']
  BY <1>8 DEF rest
<1>. QED
  BY <1>1, <1>15, <1>16, <1>17, <1>18 DEF MeantInv, ReadsTheMessage

\* Every step.
LEMMA MeantStep == MeantInv /\ ReaderInv /\ [Next]_vars => MeantInv'
<1>. SUFFICES ASSUME MeantInv, ReaderInv, [Next]_vars PROVE MeantInv'
  OBVIOUS
<1>1. CASE Read
  BY <1>1, MeantFill, MeantTakeHead, MeantTakeBody, MeantTakeSize, MeantTakeTrailer, MeantTakeChunk
  DEF Read, ReadStep
<1>2. CASE ReadBlock
  <2>1. PICK n \in IF buf # <<>> THEN {0} ELSE 1..(Len(msg.wire) - arrived) :
          /\ arrived' = arrived + n
          /\ raw' = raw \o (buf \o SubSeq(msg.wire, arrived + 1, arrived + n))
    BY <1>2 DEF ReadBlock
  <2>2. /\ pc' \in {"parsing", "flush"} /\ UNCHANGED <<msg, eof, head, sample, left>>
    BY <1>2 DEF ReadBlock, Leave
  <2>3. eof => arrived' = Len(msg.wire)
    <3>1. eof => arrived = Len(msg.wire)
      BY DEF MeantInv
    <3>2. Len(msg.wire) \in Nat
      BY BufferIs
    <3>. QED
      BY <2>1, <3>1, <3>2
  <2>4. Tokens' = Tokens
    BY <2>2 DEF Tokens
  <2>. QED
    BY <2>2, <2>3, <2>4 DEF MeantInv, ReadsTheMessage
<1>3. CASE EndLoop \/ TakeEvent \/ AppendBatch \/ BlockDone \/ Flush
  <2>1. UNCHANGED readerVars
    BY <1>3 DEF EndLoop, TakeEvent, AppendBatch, BlockDone, Flush
  <2>2. pc' = pc \/ pc' \in {"flush", "parsing", "refused", "stream", "over"}
    BY <1>3 DEF EndLoop, TakeEvent, AppendBatch, BlockDone, Flush, AppendEvents, Leave
  <2>3. eof' => arrived' = Len(msg.wire)
    BY <2>1 DEF readerVars, MeantInv
  <2>. QED
    BY <2>1, <2>2, <2>3, MeantKept DEF readerVars
<1>4. CASE StopListener \/ EndCapture \/ UNCHANGED vars
  <2>1. UNCHANGED framingVars
    BY <1>4 DEF StopListener, EndCapture, vars
  <2>2. eof' => arrived' = Len(msg.wire)
    BY <2>1 DEF framingVars, MeantInv
  <2>. QED
    BY <2>1, <2>2, MeantKept DEF framingVars
<1>. QED
  BY <1>1, <1>2, <1>3, <1>4 DEF Next, Relay

\* The invariant holds for any messages, sizes of chunks and limits.
THEOREM MeantCorrect == Spec => []MeantInv
<1>1. Init => MeantInv
  <2>. SUFFICES ASSUME Init PROVE MeantInv
    OBVIOUS
  <2>1. pc = "head" /\ sample = <<>> /\ eof = FALSE
    BY DEF Init, FramingInit
  <2>2. <<>> \in Seq(Tokens) /\ Len(<<>>) = 0 /\ SampleLimit \in Nat
    BY EmptySeq, FramingAssumption
  <2>. QED
    BY <2>1, <2>2 DEF MeantInv, ReadsTheMessage
<1>. QED
  BY <1>1, MeantStep, ReaderCorrect, PTL DEF Spec

\* However the network cuts the stream, a body is read up to its end and no
\* further, and what is recorded is the decoded body (_read_body,
\* _read_chunked_raw).
THEOREM ReadsWhatIsMeant == Spec => []ReadsTheMessage
<1>1. MeantInv => ReadsTheMessage
  BY DEF MeantInv
<1>. QED
  BY <1>1, MeantCorrect, PTL

-----------------------------------------------------------------------------
(* The text of an event stream.                                              *)

\* What decoding and normalisation make of a token, and leave of it.
Char(text, n, cut) ==
  IF IsTorn(text, n, cut) THEN Torn ELSE IF text[n] = CR THEN LF ELSE text[n]

Kept(text, n, cut) ==
  IF Pair(text, n - 1, cut, CR, LF) THEN <<>> ELSE <<Char(text, n, cut)>>

\* The normalised text, token by token.
Written(T, text, cut, u) ==
  /\ u \in [0..Len(text) -> Seq(T)] /\ u[0] = <<>>
  /\ \A n \in 1..Len(text) : u[n] = u[n - 1] \o Kept(text, n, cut)
  /\ Normalised(text, cut) = u[Len(text)]

\* A token more of it.
LEMMA KeptIs ==
  ASSUME NEW T, LF \in T, Torn \in T, NEW text \in Seq(T), NEW cut, NEW n \in 1..Len(text),
         NEW s \in Seq(T)
  PROVE  /\ Kept(text, n, cut) \in Seq(T) /\ s \o Kept(text, n, cut) \in Seq(T)
         /\ s \o Kept(text, n, cut) =
              IF Pair(text, n - 1, cut, CR, LF) THEN s ELSE Append(s, Char(text, n, cut))
<1>. DEFINE c == Char(text, n, cut)
<1>1. c \in T
  BY ElementOfSeq DEF Char
<1>. HIDE DEF c
<1>2. <<c>> \in Seq(T) /\ <<>> \in Seq(T)
  BY <1>1
<1>3. Append(s, c) = s \o <<c>> /\ s \o <<>> = s
  BY <1>1, AppendIsConcat, ConcatEmptySeq
<1>4. Kept(text, n, cut) \in Seq(T)
  BY <1>2 DEF Kept, c
<1>5. s \o Kept(text, n, cut) \in Seq(T)
  BY <1>4, ConcatProperties
<1>6. s \o Kept(text, n, cut) = IF Pair(text, n - 1, cut, CR, LF) THEN s ELSE Append(s, c)
  <2>1. Kept(text, n, cut) = IF Pair(text, n - 1, cut, CR, LF) THEN <<>> ELSE <<c>>
    BY DEF Kept, c
  <2>. QED
    BY <1>3, <2>1
<1>. QED
  BY <1>4, <1>5, <1>6 DEF c

\* The recursion that defines it has a value.
LEMMA NormalisedIs ==
  ASSUME NEW T, LF \in T, Torn \in T, NEW text \in Seq(T), NEW cut
  PROVE  \E u : Written(T, text, cut, u)
<1>. DEFINE L == Len(text)
            V == Seq(T)
            D == {j \in 0..L : j # L}
            base == [j \in 0..L |-> <<>>]
            next == [j \in 0..L |-> j + 1]
            step == [j \in 0..L |-> [v \in V |-> v \o Kept(text, L - j, cut)]]
            Body1(f) == [n \in 0..Len(text) |->
                          IF n = 0 THEN <<>>
                          ELSE IF Pair(text, n - 1, cut, CR, LF) THEN f[n - 1]
                          ELSE Append(f[n - 1], Char(text, n, cut))]
            u == CHOOSE f : f = Body1(f)
<1>1. L \in Nat /\ 0 \in Nat /\ <<>> \in V
  BY LenProperties
<1>2. Normalised(text, cut) = u[L]
  BY DEF Normalised, Char
<1>3. \A f : \A n \in 1..L : f[n - 1] \in V => Body1(f)[n] = f[n - 1] \o Kept(text, n, cut)
  <2>1. ASSUME NEW f, NEW n \in 1..L, f[n - 1] \in V PROVE Body1(f)[n] = f[n - 1] \o Kept(text, n, cut)
    <3>1. n \in 0..L /\ n # 0
      BY <1>1
    <3>2. Body1(f)[n] = IF Pair(text, n - 1, cut, CR, LF) THEN f[n - 1]
                        ELSE Append(f[n - 1], Char(text, n, cut))
      BY <3>1
    <3>3. PICK s \in Seq(T) : s = f[n - 1]
      BY <2>1
    <3>4. s \o Kept(text, n, cut) = IF Pair(text, n - 1, cut, CR, LF) THEN s
                              ELSE Append(s, Char(text, n, cut))
      BY KeptIs
    <3>. HIDE DEF Body1
    <3>. QED
      BY <3>2, <3>3, <3>4
  <2>. QED
    BY <2>1
<1>4. \E f : f = Body1(f)
  <2>1. Upwards(0, L, V, D, base, next, step)
    <3>1. \A k \in 0..L : base[k] \in V
      BY <1>1
    <3>2. \A k \in (0..L) \cap D : next[k] \in 0..L /\ k < next[k]
      BY <1>1
    <3>3. \A k \in (0..L) \cap D : \A v \in V : step[k][v] \in V
      <4>1. ASSUME NEW k \in (0..L) \cap D, NEW v \in V PROVE step[k][v] \in V
        <5>1. L - k \in 1..L
          BY <1>1
        <5>2. step[k][v] = v \o Kept(text, L - k, cut)
          OBVIOUS
        <5>3. v \o Kept(text, L - k, cut) \in V
          BY <5>1, KeptIs
        <5>. QED
          BY <5>2, <5>3
      <4>. QED
        BY <4>1
    <3>. QED
      BY <3>1, <3>2, <3>3 DEF Upwards
  <2>2. Defined(0, L, V, D, base, next, step)
    <3>. HIDE DEF L, V, D, base, next, step
    <3>. QED
      BY <1>1, <2>1, RecursionExists
  <2>3. PICK g \in [0..L -> V] : \A k \in 0..L : g[k] = IF k \in D THEN step[k][g[next[k]]] ELSE base[k]
    BY <2>2 DEF Defined
  <2>. DEFINE f == [n \in 0..L |-> g[L - n]]
  <2>4. f[0] = <<>>
    BY <1>1, <2>3
  <2>5. ASSUME NEW n \in 1..L PROVE f[n - 1] \in V /\ f[n] = f[n - 1] \o Kept(text, n, cut)
    <3>1. L - n \in 0..L /\ L - n \in D /\ (L - n) + 1 = L - (n - 1) /\ L - (L - n) = n
          /\ L - (n - 1) \in 0..L /\ n - 1 \in 0..L /\ n \in 0..L
      BY <1>1
    <3>2. f[n] = g[L - n] /\ f[n - 1] = g[L - (n - 1)] /\ g[L - (n - 1)] \in V
      BY <2>3, <3>1
    <3>3. g[L - n] = step[L - n][g[next[L - n]]] /\ next[L - n] = L - (n - 1)
      BY <2>3, <3>1
    <3>4. step[L - n][g[L - (n - 1)]] = g[L - (n - 1)] \o Kept(text, n, cut)
      BY <3>1, <3>2
    <3>. QED
      BY <3>2, <3>3, <3>4
  <2>6. \A n \in 0..L : f[n] = Body1(f)[n]
    <3>1. Body1(f)[0] = <<>>
      BY <1>1
    <3>2. \A n \in 1..L : Body1(f)[n] = f[n]
      <4>. HIDE DEF f, Body1
      <4>. QED
        BY <1>3, <2>5
    <3>. HIDE DEF f, Body1
    <3>. QED
      BY <1>1, <2>4, <3>1, <3>2
  <2>7. f = Body1(f)
    BY <2>6
  <2>. QED
    BY <2>7
<1>5. u = Body1(u)
  <2>. HIDE DEF Body1
  <2>. QED
    BY <1>4
<1>. HIDE DEF u
<1>6. DOMAIN u = 0..L /\ u = [n \in 0..L |-> u[n]] /\ u[0] = <<>>
  <2>1. DOMAIN Body1(u) = 0..L /\ Body1(u) = [n \in 0..L |-> Body1(u)[n]] /\ Body1(u)[0] = <<>>
    BY <1>1
  <2>. HIDE DEF Body1
  <2>. QED
    BY <1>5, <2>1
<1>7. \A n \in 0..L : u[n] \in V
  <2>. DEFINE P == {n \in 0..L : u[n] \in V}
  <2>1. ASSUME NEW n \in 0..L, \A j \in 0..L : j < n => j \in P PROVE n \in P
    <3>1. CASE n = 0
      BY <1>1, <1>6, <3>1
    <3>2. CASE n # 0
      <4>1. n - 1 \in P /\ n \in 1..L
        BY <1>1, <2>1, <3>2
      <4>2. Body1(u)[n] = u[n - 1] \o Kept(text, n, cut)
        <5>. HIDE DEF Body1
        <5>. QED
          BY <1>3, <4>1
      <4>3. u[n] = u[n - 1] \o Kept(text, n, cut)
        <5>. HIDE DEF Body1
        <5>. QED
          BY <1>5, <4>2
      <4>4. PICK s \in Seq(T) : s = u[n - 1]
        BY <4>1
      <4>5. s \o Kept(text, n, cut) \in Seq(T)
        BY <4>1, KeptIs
      <4>. QED
        BY <4>3, <4>4, <4>5
    <3>. QED
      BY <3>1, <3>2
  <2>2. 0..L \subseteq P
    <3>. HIDE DEF P, L
    <3>. QED
      BY <1>1, <2>1, Upward
  <2>. QED
    BY <2>2
<1>8. \A n \in 1..L : u[n] = u[n - 1] \o Kept(text, n, cut)
  <2>1. \A n \in 1..L : n - 1 \in 0..L
    BY <1>1
  <2>. HIDE DEF Body1
  <2>. QED
    BY <1>3, <1>5, <1>7, <2>1
<1>9. u \in [0..L -> V]
  BY <1>6, <1>7
<1>. QED
  BY <1>2, <1>6, <1>8, <1>9 DEF Written

\* Two characters that stand together at the end of a and the front of b.
Joined(a, b, one, other) == Len(a) # 0 /\ Len(b) # 0 /\ a[Len(a)] = one /\ b[1] = other

\* Two characters that belong together.
Belong(one, other) == (one = CR /\ other = LF) \/ (one = HI /\ other = LO)

\* The places where a and b together are cut are those of a, and its end where
\* it shows.
CutBetween(a, b, cut, both) ==
  /\ \A n \in 1..(Len(a) - 1) : n \in both <=> n \in cut
  /\ \A n \in 1..(Len(b) - 1) : Len(a) + n \notin both
  /\ Joined(a, b, CR, LF) \/ Joined(a, b, HI, LO) => Len(a) \in both

\* A text that goes on behind a cut is decoded and normalised piece by piece.
LEMMA NormalisedConcat ==
  ASSUME NEW T, LF \in T, Torn \in T, NEW a \in Seq(T), NEW b \in Seq(T), NEW cut, NEW both,
         CutBetween(a, b, cut, both)
  PROVE  /\ Normalised(a, cut) \in Seq(T) /\ Normalised(b, {}) \in Seq(T)
         /\ Normalised(a \o b, both) = Normalised(a, cut) \o Normalised(b, {})
<1>. DEFINE c == a \o b
            la == Len(a)
            lb == Len(b)
<1>1. /\ c \in Seq(T) /\ la \in Nat /\ lb \in Nat /\ Len(c) = la + lb
      /\ \A i \in 1..(la + lb) : c[i] = IF i <= la THEN a[i] ELSE b[i - la]
  BY ConcatProperties, LenProperties
<1>. HIDE DEF c
<1>2. PICK u : Written(T, a, cut, u)
  BY NormalisedIs
<1>3. PICK v : Written(T, b, {}, v)
  BY NormalisedIs
<1>4. PICK w : Written(T, c, both, w)
  BY <1>1, NormalisedIs
<1>5a. ASSUME NEW n \in 0..la, NEW one, NEW other, Belong(one, other)
       PROVE  Pair(c, n, both, one, other) <=> Pair(a, n, cut, one, other)
  <2>1. CASE n \in 1..(la - 1)
    <3>1. n \in 1..(Len(c) - 1) /\ n \in 1..(la + lb) /\ n <= la /\ n + 1 \in 1..(la + lb) /\ n + 1 <= la
      BY <1>1, <2>1
    <3>2. c[n] = a[n] /\ c[n + 1] = a[n + 1]
      BY <1>1, <3>1
    <3>3. n \in both <=> n \in cut
      BY <2>1 DEF CutBetween
    <3>. QED
      BY <2>1, <3>1, <3>2, <3>3 DEF Pair
  <2>2. CASE n = 0
    BY <1>1, <2>2 DEF Pair
  <2>3. CASE n = la /\ la # 0
    <3>1. ~Pair(a, n, cut, one, other)
      BY <1>1, <2>3 DEF Pair
    <3>2. ~Pair(c, n, both, one, other)
      <4>. SUFFICES ASSUME la \in 1..(Len(c) - 1), la \notin both, c[la] = one, c[la + 1] = other PROVE FALSE
        BY <2>3 DEF Pair
      <4>1. lb # 0 /\ la \in 1..(la + lb) /\ la <= la /\ la + 1 \in 1..(la + lb) /\ ~(la + 1 <= la)
            /\ (la + 1) - la = 1
        BY <1>1
      <4>2. c[la] = a[la] /\ c[la + 1] = b[1]
        BY <1>1, <4>1
      <4>. QED
        BY <1>5a, <2>3, <4>1, <4>2 DEF CutBetween, Joined, Belong
    <3>. QED
      BY <3>1, <3>2
  <2>. QED
    BY <1>1, <2>1, <2>2, <2>3
<1>5b. ASSUME NEW n \in 0..lb, NEW one, NEW other, Belong(one, other)
       PROVE  Pair(c, la + n, both, one, other) <=> Pair(b, n, {}, one, other)
  <2>1. CASE n \in 1..(lb - 1)
    <3>1. /\ la + n \in 1..(Len(c) - 1) /\ la + n \in 1..(la + lb) /\ ~(la + n <= la)
          /\ (la + n) - la = n
          /\ (la + n) + 1 \in 1..(la + lb) /\ ~((la + n) + 1 <= la) /\ ((la + n) + 1) - la = n + 1
      BY <1>1, <2>1
    <3>2. c[la + n] = b[n] /\ c[(la + n) + 1] = b[n + 1]
      BY <1>1, <3>1
    <3>3. la + n \notin both
      BY <2>1 DEF CutBetween
    <3>. QED
      BY <2>1, <3>1, <3>2, <3>3 DEF Pair
  <2>2. CASE n = lb
    <3>1. ~(la + n \in 1..(Len(c) - 1)) /\ ~(n \in 1..(lb - 1))
      BY <1>1, <2>2
    <3>. QED
      BY <3>1 DEF Pair
  <2>3. CASE n = 0
    <3>1. la \in 0..la /\ la + n = la /\ ~(n \in 1..(lb - 1)) /\ ~(la \in 1..(la - 1))
      BY <1>1, <2>3
    <3>2. Pair(c, la, both, one, other) <=> Pair(a, la, cut, one, other)
      BY <1>5a, <1>5b, <3>1
    <3>. QED
      BY <3>1, <3>2 DEF Pair
  <2>. QED
    BY <1>1, <2>1, <2>2, <2>3
<1>0. Belong(CR, LF) /\ Belong(HI, LO)
  BY DEF Belong
<1>5c. \A n \in 0..la : /\ Pair(c, n, both, CR, LF) <=> Pair(a, n, cut, CR, LF)
                        /\ Pair(c, n, both, HI, LO) <=> Pair(a, n, cut, HI, LO)
  BY <1>0, <1>5a
<1>5d. \A n \in 0..lb : /\ Pair(c, la + n, both, CR, LF) <=> Pair(b, n, {}, CR, LF)
                        /\ Pair(c, la + n, both, HI, LO) <=> Pair(b, n, {}, HI, LO)
  BY <1>0, <1>5b
<1>5. ASSUME NEW n \in 1..la PROVE Kept(c, n, both) = Kept(a, n, cut)
  <2>1. n \in 1..(la + lb) /\ n <= la /\ n \in 0..la /\ n - 1 \in 0..la
    BY <1>1
  <2>2. c[n] = a[n]
    BY <1>1, <2>1
  <2>3. /\ Pair(c, n - 1, both, CR, LF) <=> Pair(a, n - 1, cut, CR, LF)
        /\ Pair(c, n - 1, both, HI, LO) <=> Pair(a, n - 1, cut, HI, LO)
        /\ Pair(c, n, both, HI, LO) <=> Pair(a, n, cut, HI, LO)
    BY <1>5c, <2>1, Zenon
  <2>4. Char(c, n, both) = Char(a, n, cut)
    BY <2>2, <2>3 DEF Char, IsTorn
  <2>. QED
    BY <2>3, <2>4 DEF Kept
<1>6. ASSUME NEW n \in 1..lb PROVE Kept(c, la + n, both) = Kept(b, n, {})
  <2>1. /\ la + n \in 1..(la + lb) /\ ~(la + n <= la) /\ (la + n) - la = n
        /\ n \in 0..lb /\ n - 1 \in 0..lb /\ (la + n) - 1 = la + (n - 1)
    BY <1>1
  <2>2. c[la + n] = b[n]
    BY <1>1, <2>1
  <2>3. /\ Pair(c, (la + n) - 1, both, CR, LF) <=> Pair(b, n - 1, {}, CR, LF)
        /\ Pair(c, (la + n) - 1, both, HI, LO) <=> Pair(b, n - 1, {}, HI, LO)
        /\ Pair(c, la + n, both, HI, LO) <=> Pair(b, n, {}, HI, LO)
    BY <1>5d, <2>1, Zenon
  <2>4. Char(c, la + n, both) = Char(b, n, {})
    BY <2>2, <2>3 DEF Char, IsTorn
  <2>. QED
    BY <2>3, <2>4 DEF Kept
<1>7. \A n \in 0..la : w[n] = u[n]
  <2>. DEFINE P == {n \in 0..la : w[n] = u[n]}
  <2>1. ASSUME NEW n \in 0..la, \A j \in 0..la : j < n => j \in P PROVE n \in P
    <3>1. CASE n = 0
      BY <1>2, <1>4, <3>1 DEF Written
    <3>2. CASE n # 0
      <4>1. n \in 1..la /\ n \in 1..Len(c) /\ n - 1 \in P
        BY <1>1, <2>1, <3>2
      <4>2. w[n] = w[n - 1] \o Kept(c, n, both) /\ u[n] = u[n - 1] \o Kept(a, n, cut)
        BY <1>2, <1>4, <4>1 DEF Written
      <4>. QED
        BY <1>5, <4>1, <4>2
    <3>. QED
      BY <3>1, <3>2
  <2>2. 0..la \subseteq P
    <3>. HIDE DEF P, la
    <3>. QED
      BY <1>1, <2>1, Upward
  <2>. QED
    BY <2>2
<1>8. u[la] \in Seq(T) /\ \A n \in 0..lb : v[n] \in Seq(T)
  <2>1. u \in [0..la -> Seq(T)] /\ v \in [0..lb -> Seq(T)]
    BY <1>2, <1>3 DEF Written
  <2>2. la \in 0..la
    BY <1>1
  <2>. HIDE DEF la, lb
  <2>. QED
    BY <2>1, <2>2
<1>9. \A n \in 0..lb : w[la + n] = u[la] \o v[n]
  <2>. DEFINE P == {n \in 0..lb : w[la + n] = u[la] \o v[n]}
  <2>1. ASSUME NEW n \in 0..lb, \A j \in 0..lb : j < n => j \in P PROVE n \in P
    <3>1. CASE n = 0
      <4>1. w[la + n] = u[la]
        BY <1>1, <1>7, <3>1
      <4>2. v[n] = <<>>
        BY <1>3, <3>1 DEF Written
      <4>3. u[la] \o <<>> = u[la]
        BY <1>8, ConcatEmptySeq
      <4>. QED
        BY <4>1, <4>2, <4>3
    <3>2. CASE n # 0
      <4>1. n \in 1..lb /\ la + n \in 1..Len(c) /\ n - 1 \in P /\ (la + n) - 1 = la + (n - 1)
        <5>1. n \in 1..lb /\ n - 1 \in 0..lb /\ n - 1 < n
          BY <1>1, <3>2
        <5>2. la + n \in 1..Len(c) /\ (la + n) - 1 = la + (n - 1)
          BY <1>1, <5>1
        <5>3. n - 1 \in P
          <6>. HIDE DEF P
          <6>. QED
            BY <2>1, <5>1
        <5>. QED
          BY <5>1, <5>2, <5>3
      <4>2. w[la + n] = w[la + (n - 1)] \o Kept(c, la + n, both) /\ v[n] = v[n - 1] \o Kept(b, n, {})
        BY <1>3, <1>4, <4>1 DEF Written
      <4>3. w[la + n] = (u[la] \o v[n - 1]) \o Kept(b, n, {})
        BY <1>6, <4>1, <4>2
      <4>4. v[n - 1] \in Seq(T) /\ Kept(b, n, {}) \in Seq(T)
        BY <1>8, <4>1, KeptIs
      <4>5. (u[la] \o v[n - 1]) \o Kept(b, n, {}) = u[la] \o (v[n - 1] \o Kept(b, n, {}))
        <5>1. Cat(Cat(u[la], v[n - 1]), Kept(b, n, {})) = Cat(u[la], Cat(v[n - 1], Kept(b, n, {})))
          BY <1>8, <4>4, CatAssociative
        <5>. QED
          BY <5>1 DEF Cat
      <4>. QED
        BY <4>2, <4>3, <4>5
    <3>. QED
      BY <3>1, <3>2
  <2>2. 0..lb \subseteq P
    <3>. HIDE DEF P, lb
    <3>. QED
      BY <1>1, <2>1, Upward
  <2>. QED
    BY <2>2
<1>10. w[la + lb] = u[la] \o v[lb]
  <2>1. lb \in 0..lb
    BY <1>1
  <2>. HIDE DEF la, lb
  <2>. QED
    BY <1>9, <2>1
<1>11. Normalised(a, cut) = u[la] /\ Normalised(b, {}) = v[lb] /\ Normalised(c, both) = w[la + lb]
  BY <1>1, <1>2, <1>3, <1>4 DEF Written
<1>12. lb \in 0..lb
  BY <1>1
<1>. HIDE DEF la, lb
<1>. QED
  BY <1>8, <1>10, <1>11, <1>12, Zenon DEF c

-----------------------------------------------------------------------------
(* The events of a text.                                                     *)

Blank(text, i) == text[i] = LF /\ text[i + 1] = LF

\* Where the first blank line is.
LEMMA BoundaryIs ==
  ASSUME NEW T, NEW text \in Seq(T), NEW k \in Nat \ {0}
  PROVE  \/ BoundaryFrom(text, k) = 0 /\ \A i \in k..(Len(text) - 1) : ~Blank(text, i)
         \/ /\ BoundaryFrom(text, k) \in k..(Len(text) - 1)
            /\ Blank(text, BoundaryFrom(text, k))
            /\ \A i \in k..(BoundaryFrom(text, k) - 1) : ~Blank(text, i)
<1>. DEFINE at == {i \in k..(Len(text) - 1) : text[i] = LF /\ text[i + 1] = LF}
            b == BoundaryFrom(text, k)
<1>1. at \in SUBSET Nat /\ Len(text) \in Nat
  BY LenProperties
<1>2. at = {} => b = 0
  BY DEF BoundaryFrom
<1>3. at # {} => b \in at /\ \A j \in at : b <= j
  <2>1. at # {} => \E i \in at : \A j \in at : i <= j
    BY <1>1, LeastExists
  <2>2. at # {} => b = CHOOSE i \in at : \A j \in at : i <= j
    BY DEF BoundaryFrom
  <2>. HIDE DEF at, b
  <2>. QED
    BY <2>1, <2>2, Zenon
<1>. HIDE DEF b
<1>4. CASE at = {}
  BY <1>2, <1>4 DEF b, Blank
<1>5. CASE at # {}
  <2>1. b \in k..(Len(text) - 1) /\ Blank(text, b)
    BY <1>3, <1>5 DEF Blank
  <2>2. ASSUME NEW i \in k..(b - 1), Blank(text, i) PROVE FALSE
    <3>1. i \in at
      BY <1>1, <2>1, <2>2 DEF Blank
    <3>. QED
      BY <1>1, <1>3, <1>5, <2>1, <3>1
  <2>. QED
    BY <2>1, <2>2 DEF b
<1>. QED
  BY <1>4, <1>5

\* And where it is not.
LEMMA BoundaryOnly ==
  ASSUME NEW T, NEW text \in Seq(T), NEW k \in Nat \ {0}, NEW b \in k..(Len(text) - 1),
         Blank(text, b), \A i \in k..(b - 1) : ~Blank(text, i)
  PROVE  BoundaryFrom(text, k) = b
<1>. DEFINE c == BoundaryFrom(text, k)
<1>1. \/ c = 0 /\ \A i \in k..(Len(text) - 1) : ~Blank(text, i)
      \/ c \in k..(Len(text) - 1) /\ Blank(text, c) /\ \A i \in k..(c - 1) : ~Blank(text, i)
  BY BoundaryIs
<1>. HIDE DEF c
<1>2. Len(text) \in Nat
  BY LenProperties
<1>3. c \in k..(Len(text) - 1) /\ Blank(text, c) /\ \A i \in k..(c - 1) : ~Blank(text, i)
  BY <1>1
<1>4. ~(c < b)
  BY <1>2, <1>3
<1>5. ~(b < c)
  BY <1>2, <1>3
<1>6. c = b
  BY <1>2, <1>3, <1>4, <1>5
<1>. QED
  BY <1>6 DEF c

\* The event of a block of lines, if it has data.
EventOf(one) == IF Data(one) = {} THEN <<>> ELSE <<Event(one, TRUE)>>

Prefixed(events, r) == [events |-> events \o r.events, rest |-> r.rest]

Events(T)  == [data : SUBSET T, complete : BOOLEAN]
Splits(T)  == [events : Seq(Events(T)), rest : Seq(T)]

\* The type of an event.
LEMMA EventIs ==
  ASSUME NEW T, NEW one \in Seq(T), NEW complete \in BOOLEAN
  PROVE  Event(one, complete) \in Events(T) /\ Event(one, complete).complete = complete
<1>1. Data(one) \in SUBSET T
  BY LenProperties, ElementOfSeq DEF Data
<1>. QED
  BY <1>1 DEF Event, Events

\* It is complete.
LEMMA EventOfIs ==
  ASSUME NEW T, NEW one \in Seq(T)
  PROVE  /\ EventOf(one) \in Seq(Events(T))
         /\ \A i \in 1..Len(EventOf(one)) : EventOf(one)[i].complete
<1>1. Event(one, TRUE) \in Events(T) /\ Event(one, TRUE).complete = TRUE
  BY EventIs
<1>. DEFINE e == Event(one, TRUE)
<1>2. EventOf(one) = <<>> \/ EventOf(one) = <<e>>
  BY DEF EventOf
<1>. HIDE DEF e
<1>3. e \in Events(T) /\ e.complete = TRUE
  BY <1>1 DEF e
<1>4. CASE EventOf(one) = <<>>
  BY <1>4, EmptySeq
<1>5. CASE EventOf(one) = <<e>>
  <2>1. <<e>> \in Seq(Events(T)) /\ Len(<<e>>) = 1 /\ <<e>>[1] = e
    BY <1>3
  <2>2. \A i \in 1..Len(<<e>>) : <<e>>[i].complete
    BY <1>3, <2>1
  <2>. QED
    BY <1>5, <2>1, <2>2
<1>. QED
  BY <1>2, <1>4, <1>5

\* Events put before the others, twice or none.
LEMMA PrefixedIs ==
  ASSUME NEW T, NEW e \in Seq(Events(T)), NEW f \in Seq(Events(T)), NEW r \in Splits(T)
  PROVE  /\ Prefixed(e, r) \in Splits(T)
         /\ Prefixed(e, Prefixed(f, r)) = Prefixed(e \o f, r)
         /\ Prefixed(<<>>, r) = r
<1>1. PICK x \in Seq(Events(T)), y \in Seq(T) : r = [events |-> x, rest |-> y]
  BY DEF Splits
<1>2. e \o x \in Seq(Events(T)) /\ <<>> \o x = x /\ f \o x \in Seq(Events(T))
  BY ConcatProperties, ConcatEmptySeq
<1>3. Cat(Cat(e, f), x) = Cat(e, Cat(f, x))
  BY CatAssociative
<1>. QED
  BY <1>1, <1>2, <1>3 DEF Prefixed, Splits, Cat

\* A text has an event up to its first blank line, or none.
LEMMA SplitFromIs ==
  ASSUME NEW T, NEW text \in Seq(T), NEW k \in 1..(Len(text) + 1)
  PROVE  /\ SplitFrom(text)[k] \in Splits(T)
         /\ BoundaryFrom(text, k) = 0 =>
              SplitFrom(text)[k] = [events |-> <<>>, rest |-> SubSeq(text, k, Len(text))]
         /\ BoundaryFrom(text, k) # 0 =>
              SplitFrom(text)[k] = Prefixed(EventOf(SubSeq(text, k, BoundaryFrom(text, k) - 1)),
                                            SplitFrom(text)[BoundaryFrom(text, k) + 2])
<1>. DEFINE L == Len(text)
            H == L + 1
            V == Splits(T)
            B(j) == BoundaryFrom(text, j)
            D == {j \in 1..H : B(j) # 0}
            one(j) == SubSeq(text, j, B(j) - 1)
            base == [j \in 1..H |-> [events |-> <<>>, rest |-> SubSeq(text, j, L)]]
            next == [j \in 1..H |-> B(j) + 2]
            step == [j \in 1..H |-> [v \in V |-> Prefixed(EventOf(one(j)), v)]]
            Body1(f) == [j \in 1..(Len(text) + 1) |->
                          LET b == BoundaryFrom(text, j) IN
                          IF b = 0 THEN [events |-> <<>>, rest |-> SubSeq(text, j, Len(text))]
                          ELSE LET one_1 == SubSeq(text, j, b - 1)
                               IN  [events |-> (IF Data(one_1) = {} THEN <<>> ELSE <<Event(one_1, TRUE)>>)
                                                  \o f[b + 2].events,
                                    rest   |-> f[b + 2].rest]]
<1>1. L \in Nat /\ 1 \in Nat /\ H \in Nat
  BY LenProperties
<1>2. \A i \in 1..L : text[i] \in T
  BY ElementOfSeq
<1>3. ASSUME NEW j \in D PROVE B(j) \in j..(L - 1) /\ B(j) + 2 \in 1..H /\ j < B(j) + 2 /\ j \in 1..H
  <2>1. j \in Nat \ {0} /\ B(j) # 0
    OBVIOUS
  <2>2. B(j) \in j..(L - 1)
    BY <2>1, BoundaryIs
  <2>. HIDE DEF B
  <2>. QED
    BY <1>1, <2>1, <2>2
<1>4. ASSUME NEW j \in 1..H PROVE base[j] \in V
  <2>1. SubSeq(text, j, L) \in Seq(T)
    BY <1>1, <1>2, SubSeqProperties
  <2>. QED
    BY <2>1 DEF Splits
<1>5. ASSUME NEW j \in D, NEW v \in V PROVE step[j][v] = Prefixed(EventOf(one(j)), v) /\ step[j][v] \in V
  <2>1. one(j) \in Seq(T)
    <3>1. j \in Int /\ B(j) - 1 \in Int /\ \A i \in j..(B(j) - 1) : i \in 1..L
      <4>1. B(j) \in j..(L - 1) /\ j \in 1..H
        BY <1>3
      <4>. HIDE DEF B
      <4>. QED
        BY <1>1, <4>1
    <3>. HIDE DEF B
    <3>. QED
      BY <1>2, <3>1, SubSeqProperties
  <2>2. EventOf(one(j)) \in Seq(Events(T))
    <3>. HIDE DEF one
    <3>. QED
      BY <2>1, EventOfIs
  <2>3. Prefixed(EventOf(one(j)), v) \in V
    <3>. HIDE DEF one
    <3>. QED
      BY <2>2, PrefixedIs
  <2>4. step[j][v] = Prefixed(EventOf(one(j)), v)
    <3>1. j \in 1..H
      OBVIOUS
    <3>. HIDE DEF one
    <3>. QED
      BY <3>1
  <2>. QED
    BY <2>3, <2>4
<1>6. SplitFrom(text) = CHOOSE f : f = Body1(f)
  BY DEF SplitFrom
<1>7. ASSUME NEW f, NEW j \in 1..H
      PROVE  Body1(f)[j] = IF j \in D THEN Prefixed(EventOf(one(j)), f[next[j]]) ELSE base[j]
  <2>1. CASE j \in D
    BY <2>1 DEF Prefixed, EventOf
  <2>2. CASE j \notin D
    BY <2>2
  <2>. QED
    BY <2>1, <2>2
<1>8. \E f : f = Body1(f)
  <2>1. Upwards(1, H, V, D, base, next, step)
    <3>1. \A k_1 \in (1..H) \cap D : next[k_1] \in 1..H /\ k_1 < next[k_1]
      <4>1. ASSUME NEW j \in D PROVE next[j] \in 1..H /\ j < next[j]
        <5>1. B(j) + 2 \in 1..H /\ j < B(j) + 2 /\ j \in 1..H
          BY <1>3
        <5>. HIDE DEF B
        <5>. QED
          BY <5>1
      <4>. HIDE DEF next, D
      <4>. QED
        BY <4>1
    <3>. HIDE DEF D, base, next, step, V, H
    <3>. QED
      BY <1>4, <1>5, <3>1 DEF Upwards
  <2>2. Defined(1, H, V, D, base, next, step)
    <3>. HIDE DEF H, V, D, base, next, step
    <3>. QED
      BY <1>1, <2>1, RecursionExists
  <2>3. PICK g \in [1..H -> V] : \A j \in 1..H : g[j] = IF j \in D THEN step[j][g[next[j]]] ELSE base[j]
    BY <2>2 DEF Defined
  <2>4. ASSUME NEW j \in 1..H PROVE g[j] = Body1(g)[j]
    <3>1. CASE j \in D
      <4>1. next[j] \in 1..H
        <5>1. B(j) + 2 \in 1..H
          BY <1>3, <3>1
        <5>. HIDE DEF B
        <5>. QED
          BY <5>1
      <4>2. g[next[j]] \in V
        BY <2>3, <4>1
      <4>3. step[j][g[next[j]]] = Prefixed(EventOf(one(j)), g[next[j]])
        BY <1>5, <3>1, <4>2
      <4>. HIDE DEF Body1, D, one, step, next, base
      <4>. QED
        BY <1>7, <2>3, <3>1, <4>3
    <3>2. CASE j \notin D
      <4>. HIDE DEF Body1, D, one, step, next, base
      <4>. QED
        BY <1>7, <2>3, <3>2
    <3>. QED
      BY <3>1, <3>2
  <2>5. Body1(g) = [j \in 1..H |-> Body1(g)[j]]
    OBVIOUS
  <2>6. g = Body1(g)
    <3>. HIDE DEF Body1
    <3>. QED
      BY <2>3, <2>4, <2>5
  <2>. QED
    BY <2>6
<1>9. SplitFrom(text) = Body1(SplitFrom(text))
  <2>. HIDE DEF Body1
  <2>. QED
    BY <1>6, <1>8
<1>10. ASSUME NEW j \in 1..H
       PROVE SplitFrom(text)[j] = IF j \in D THEN Prefixed(EventOf(one(j)), SplitFrom(text)[next[j]]) ELSE base[j]
  <2>. HIDE DEF Body1, D, one, next, base
  <2>. QED
    BY <1>7, <1>9
<1>11. \A j \in 1..H : SplitFrom(text)[j] \in V
  <2>. DEFINE P == {j \in 1..H : SplitFrom(text)[j] \in V}
  <2>1. ASSUME NEW j \in 1..H, \A i \in 1..H : j < i => i \in P PROVE j \in P
    <3>1. CASE j \in D
      <4>1. next[j] \in 1..H /\ j < next[j]
        <5>1. B(j) + 2 \in 1..H /\ j < B(j) + 2 /\ j \in 1..H
          BY <1>3, <3>1
        <5>. HIDE DEF B
        <5>. QED
          BY <5>1
      <4>2. SplitFrom(text)[next[j]] \in V
        <5>. HIDE DEF next, V, H
        <5>. QED
          BY <2>1, <4>1
      <4>3. Prefixed(EventOf(one(j)), SplitFrom(text)[next[j]]) \in V
        <5>1. step[j][SplitFrom(text)[next[j]]] = Prefixed(EventOf(one(j)), SplitFrom(text)[next[j]])
              /\ step[j][SplitFrom(text)[next[j]]] \in V
          <6>. HIDE DEF step, V, next, one, D
          <6>. QED
            BY <1>5, <3>1, <4>2
        <5>. HIDE DEF step, V, next, one, D
        <5>. QED
          BY <5>1
      <4>. HIDE DEF step, V, next, one, D, base
      <4>. QED
        BY <1>10, <3>1, <4>3
    <3>2. CASE j \notin D
      <4>1. SplitFrom(text)[j] = base[j] /\ base[j] \in V
        <5>. HIDE DEF step, V, next, one, D, base
        <5>. QED
          BY <1>4, <1>10, <3>2
      <4>. HIDE DEF V, base
      <4>. QED
        BY <4>1
    <3>. QED
      BY <3>1, <3>2
  <2>2. 1..H \subseteq P
    <3>. HIDE DEF P, H
    <3>. QED
      BY <1>1, <2>1, Downward
  <2>. QED
    BY <2>2
<1>12. k \in 1..H /\ SplitFrom(text)[k] \in V
  BY <1>11
<1>13. CASE BoundaryFrom(text, k) = 0
  <2>1. k \notin D
    BY <1>13
  <2>2. SplitFrom(text)[k] = base[k]
    <3>. HIDE DEF D, base, next, one
    <3>. QED
      BY <1>10, <1>12, <2>1
  <2>. QED
    BY <1>12, <1>13, <2>2
<1>14. CASE BoundaryFrom(text, k) # 0
  <2>1. k \in D
    BY <1>14
  <2>2. SplitFrom(text)[k] = Prefixed(EventOf(one(k)), SplitFrom(text)[next[k]])
    <3>. HIDE DEF D, base, next, one
    <3>. QED
      BY <1>10, <1>12, <2>1
  <2>3. next[k] = BoundaryFrom(text, k) + 2
    OBVIOUS
  <2>. QED
    BY <1>12, <1>14, <2>2, <2>3
<1>. QED
  BY <1>13, <1>14

\* The text from a place on, told by its tokens.
LEMMA SuffixIs ==
  ASSUME NEW T, NEW t \in Seq(T), NEW k \in 1..(Len(t) + 1)
  PROVE  /\ SubSeq(t, k, Len(t)) \in Seq(T)
         /\ Len(t) \in Nat /\ Len(SubSeq(t, k, Len(t))) = Len(t) - k + 1
         /\ \A i \in 1..(Len(t) - k + 1) : SubSeq(t, k, Len(t))[i] = t[k + i - 1]
<1>1. Len(t) \in Nat /\ \A i \in 1..Len(t) : t[i] \in T
  BY LenProperties, ElementOfSeq
<1>2. \A i \in k..Len(t) : t[i] \in T
  BY <1>1
<1>. QED
  BY <1>1, <1>2, SubSeqProperties

\* A cut of the rest is a cut of the whole.
LEMMA CutOfSuffix ==
  ASSUME NEW T, NEW t \in Seq(T), NEW k \in 1..(Len(t) + 1),
         NEW i \in Nat \ {0}, NEW j \in Nat, j <= Len(t) - k + 1
  PROVE  SubSeq(SubSeq(t, k, Len(t)), i, j) = SubSeq(t, k + i - 1, k + j - 1)
<1>. DEFINE s == SubSeq(t, k, Len(t))
            n == Len(t) - k + 1
            a == SubSeq(s, i, j)
            b == SubSeq(t, k + i - 1, k + j - 1)
<1>1. s \in Seq(T) /\ Len(t) \in Nat /\ Len(s) = n /\ \A m \in 1..n : s[m] = t[k + m - 1]
  BY SuffixIs
<1>. HIDE DEF s
<1>2. n \in Nat /\ k \in Nat
  BY <1>1
<1>3. \A m \in i..j : s[m] \in T /\ m \in 1..n
  BY <1>1, <1>2, ElementOfSeq
<1>4. \A m \in (k + i - 1)..(k + j - 1) : t[m] \in T
  <2>1. ASSUME NEW m \in (k + i - 1)..(k + j - 1) PROVE t[m] \in T
    <3>1. m \in 1..Len(t)
      BY <1>1, <1>2
    <3>. QED
      BY <3>1, ElementOfSeq
  <2>. QED
    BY <2>1
<1>5. /\ a \in Seq(T) /\ Len(a) = (IF i <= j THEN j - i + 1 ELSE 0)
      /\ \A m \in 1..(j - i + 1) : a[m] = s[i + m - 1]
  BY <1>3, SubSeqProperties
<1>6. /\ b \in Seq(T)
      /\ Len(b) = (IF k + i - 1 <= k + j - 1 THEN (k + j - 1) - (k + i - 1) + 1 ELSE 0)
      /\ \A m \in 1..((k + j - 1) - (k + i - 1) + 1) : b[m] = t[(k + i - 1) + m - 1]
  BY <1>1, <1>2, <1>4, SubSeqProperties
<1>. HIDE DEF a, b
<1>7. Len(b) = Len(a)
  BY <1>1, <1>2, <1>5, <1>6
<1>8. ASSUME NEW m \in 1..Len(a) PROVE a[m] = b[m]
  <2>1. m \in 1..(j - i + 1) /\ m \in 1..((k + j - 1) - (k + i - 1) + 1) /\ i + m - 1 \in 1..n
        /\ k + (i + m - 1) - 1 = (k + i - 1) + m - 1
    BY <1>1, <1>2, <1>5
  <2>2. a[m] = s[i + m - 1] /\ b[m] = t[(k + i - 1) + m - 1]
    BY <1>5, <1>6, <2>1
  <2>3. s[i + m - 1] = t[k + (i + m - 1) - 1]
    BY <1>1, <2>1
  <2>. QED
    BY <2>1, <2>2, <2>3
<1>9. a = b
  BY <1>5, <1>6, <1>7, <1>8, SeqEqual
<1>. QED
  BY <1>9 DEF a, b, s

\* Blank lines are where they were.
LEMMA BoundaryOfSuffix ==
  ASSUME NEW T, NEW t \in Seq(T), NEW k \in 1..(Len(t) + 1), NEW j \in 1..(Len(t) - k + 2)
  PROVE  LET s == SubSeq(t, k, Len(t)) IN
         \/ BoundaryFrom(s, j) = 0 /\ BoundaryFrom(t, k + j - 1) = 0
         \/ /\ BoundaryFrom(s, j) \in j..(Len(s) - 1)
            /\ BoundaryFrom(t, k + j - 1) = k + BoundaryFrom(s, j) - 1
<1>. DEFINE s == SubSeq(t, k, Len(t))
            n == Len(t) - k + 1
            c == BoundaryFrom(s, j)
            d == BoundaryFrom(t, k + j - 1)
<1>1. s \in Seq(T) /\ Len(t) \in Nat /\ Len(s) = n /\ \A m \in 1..n : s[m] = t[k + m - 1]
  BY SuffixIs
<1>. HIDE DEF s
<1>2. n \in Nat /\ k \in Nat /\ j \in Nat \ {0} /\ k + j - 1 \in Nat \ {0}
  BY <1>1
<1>3. ASSUME NEW m \in 1..(n - 1) PROVE Blank(s, m) <=> Blank(t, k + m - 1)
  <2>1. m \in 1..n /\ m + 1 \in 1..n /\ k + (m + 1) - 1 = (k + m - 1) + 1
    BY <1>2
  <2>2. s[m] = t[k + m - 1] /\ s[m + 1] = t[(k + m - 1) + 1]
    BY <1>1, <2>1
  <2>. QED
    BY <2>2 DEF Blank
<1>4. \/ c = 0 /\ \A i \in j..(Len(s) - 1) : ~Blank(s, i)
      \/ c \in j..(Len(s) - 1) /\ Blank(s, c) /\ \A i \in j..(c - 1) : ~Blank(s, i)
  BY <1>1, <1>2, BoundaryIs
<1>5. \/ d = 0 /\ \A i \in (k + j - 1)..(Len(t) - 1) : ~Blank(t, i)
      \/ d \in (k + j - 1)..(Len(t) - 1) /\ Blank(t, d) /\ \A i \in (k + j - 1)..(d - 1) : ~Blank(t, i)
  BY <1>1, <1>2, BoundaryIs
<1>. HIDE DEF c, d
<1>6. CASE c = 0
  <2>1. \A i \in j..(n - 1) : ~Blank(s, i)
    BY <1>1, <1>2, <1>4, <1>6
  <2>2. d = 0
    <3>. SUFFICES ASSUME d # 0 PROVE FALSE
      OBVIOUS
    <3>1. d \in (k + j - 1)..(Len(t) - 1) /\ Blank(t, d)
      BY <1>5
    <3>2. PICK m \in Nat : m = d - k + 1
      BY <1>1, <1>2, <3>1
    <3>3. m \in j..(n - 1) /\ m \in 1..(n - 1) /\ k + m - 1 = d
      BY <1>1, <1>2, <3>1, <3>2
    <3>. QED
      BY <1>3, <2>1, <3>1, <3>3
  <2>. QED
    BY <1>6, <2>2 DEF c, d, s
<1>7. CASE c # 0
  <2>1. c \in j..(n - 1) /\ Blank(s, c) /\ \A i \in j..(c - 1) : ~Blank(s, i)
    BY <1>1, <1>4, <1>7
  <2>2. k + c - 1 \in (k + j - 1)..(Len(t) - 1) /\ c \in 1..(n - 1)
    BY <1>1, <1>2, <2>1
  <2>3. Blank(t, k + c - 1)
    BY <1>3, <2>1, <2>2
  <2>4. ASSUME NEW i \in (k + j - 1)..((k + c - 1) - 1) PROVE ~Blank(t, i)
    <3>1. PICK m \in Nat : m = i - k + 1
      BY <1>1, <1>2, <2>1
    <3>2. m \in j..(c - 1) /\ m \in 1..(n - 1) /\ k + m - 1 = i
      BY <1>1, <1>2, <2>1, <3>1
    <3>. QED
      BY <1>3, <2>1, <3>2
  <2>5. d = k + c - 1
    BY <1>2, <2>2, <2>3, <2>4, BoundaryOnly DEF d
  <2>. QED
    BY <1>1, <2>1, <2>5 DEF c, d, s
<1>. QED
  BY <1>6, <1>7

\* The events from a place on are the events of the text from there on.
LEMMA SplitOfSuffix ==
  ASSUME NEW T, NEW t \in Seq(T), NEW k \in 1..(Len(t) + 1)
  PROVE  SplitFrom(t)[k] = Split(SubSeq(t, k, Len(t)))
<1>. DEFINE s == SubSeq(t, k, Len(t))
            n == Len(t) - k + 1
            P == {j \in 1..(n + 1) : SplitFrom(t)[k + j - 1] = SplitFrom(s)[j]}
<1>1. s \in Seq(T) /\ Len(t) \in Nat /\ Len(s) = n
  BY SuffixIs
<1>2. n \in Nat /\ k \in Nat /\ n + 1 \in Nat /\ 1 \in Nat
  BY <1>1
<1>3. ASSUME NEW j \in 1..(n + 1), \A i \in 1..(n + 1) : j < i => i \in P PROVE j \in P
  <2>. DEFINE c == BoundaryFrom(s, j)
              d == BoundaryFrom(t, k + j - 1)
  <2>1. j \in Nat \ {0} /\ j \in 1..(Len(t) - k + 2) /\ k + j - 1 \in 1..(Len(t) + 1) /\ j \in 1..(Len(s) + 1)
    BY <1>1, <1>2
  <2>2. \/ c = 0 /\ d = 0
        \/ c \in j..(Len(s) - 1) /\ d = k + c - 1
    BY <2>1, BoundaryOfSuffix
  <2>3. /\ c = 0 => SplitFrom(s)[j] = [events |-> <<>>, rest |-> SubSeq(s, j, Len(s))]
        /\ c # 0 => SplitFrom(s)[j] = Prefixed(EventOf(SubSeq(s, j, c - 1)), SplitFrom(s)[c + 2])
    <3>. HIDE DEF s
    <3>. QED
      BY <1>1, <2>1, SplitFromIs
  <2>4. /\ d = 0 => SplitFrom(t)[k + j - 1] = [events |-> <<>>, rest |-> SubSeq(t, k + j - 1, Len(t))]
        /\ d # 0 => SplitFrom(t)[k + j - 1] = Prefixed(EventOf(SubSeq(t, k + j - 1, d - 1)), SplitFrom(t)[d + 2])
    BY <2>1, SplitFromIs
  <2>5. CASE c = 0
    <3>1. SubSeq(s, j, n) = SubSeq(t, k + j - 1, k + n - 1) /\ k + n - 1 = Len(t)
      BY <1>1, <1>2, <2>1, CutOfSuffix
    <3>. HIDE DEF s, c, d
    <3>2. SplitFrom(s)[j] = [events |-> <<>>, rest |-> SubSeq(s, j, n)]
      BY <1>1, <2>3, <2>5
    <3>3. SplitFrom(t)[k + j - 1] = [events |-> <<>>, rest |-> SubSeq(t, k + j - 1, Len(t))]
      BY <1>2, <2>1, <2>2, <2>4, <2>5
    <3>. HIDE DEF n
    <3>. QED
      BY <3>1, <3>2, <3>3 DEF P
  <2>6. CASE c # 0
    <3>1. /\ c \in j..(n - 1) /\ d = k + c - 1 /\ d # 0 /\ c - 1 \in Nat /\ c - 1 <= Len(t) - k + 1
          /\ k + (c - 1) - 1 = d - 1 /\ d + 2 = k + (c + 2) - 1 /\ c + 2 \in 1..(n + 1) /\ j < c + 2
      <4>. HIDE DEF s, c, d
      <4>1. c \in j..(n - 1) /\ d = k + c - 1
        BY <1>1, <2>2, <2>6
      <4>2. /\ c \in Nat /\ c # 0 /\ k # 0 /\ n - 1 < n /\ c <= n - 1 /\ j <= c
        BY <1>2, <2>1, <4>1
      <4>. HIDE DEF n
      <4>3. d # 0 /\ c - 1 \in Nat /\ c - 1 <= n /\ j < c + 2
        BY <1>2, <2>1, <4>1, <4>2
      <4>4. k + (c - 1) - 1 = d - 1 /\ d + 2 = k + (c + 2) - 1
        BY <1>2, <4>1, <4>2
      <4>5. c + 2 \in 1..(n + 1)
        BY <1>2, <4>2
      <4>. QED
        BY <4>1, <4>3, <4>4, <4>5 DEF n
    <3>2. SubSeq(s, j, c - 1) = SubSeq(t, k + j - 1, k + (c - 1) - 1)
      <4>. HIDE DEF c
      <4>. QED
        BY <1>1, <1>2, <2>1, <3>1, CutOfSuffix
    <3>. HIDE DEF s, c, d
    <3>3. SplitFrom(t)[k + (c + 2) - 1] = SplitFrom(s)[c + 2]
      BY <1>3, <3>1
    <3>. HIDE DEF n
    <3>4. SplitFrom(s)[j] = Prefixed(EventOf(SubSeq(s, j, c - 1)), SplitFrom(s)[c + 2])
      BY <2>3, <2>6
    <3>5. SplitFrom(t)[k + j - 1] = Prefixed(EventOf(SubSeq(t, k + j - 1, d - 1)), SplitFrom(t)[d + 2])
      BY <2>4, <3>1
    <3>6. SplitFrom(t)[k + j - 1] = SplitFrom(s)[j]
      BY <3>1, <3>2, <3>3, <3>4, <3>5
    <3>. QED
      BY <3>6 DEF P
  <2>. QED
    BY <2>5, <2>6
<1>4. 1..(n + 1) \subseteq P
  <2>. HIDE DEF P, n
  <2>. QED
    BY <1>2, <1>3, Downward
<1>5. 1 \in P /\ k + 1 - 1 = k
  <2>1. 1 \in 1..(n + 1) /\ k + 1 - 1 = k
    BY <1>2
  <2>. HIDE DEF P, n
  <2>. QED
    BY <1>4, <2>1
<1>. QED
  BY <1>5 DEF Split

\* The first event of a text comes off, whatever follows the text.
LEMMA SplitTakes ==
  ASSUME NEW T, NEW t \in Seq(T), NEW u \in Seq(T), Boundary(t) # 0
  PROVE  /\ Boundary(t) \in 1..(Len(t) - 1)
         /\ SubSeq(t, 1, Boundary(t) - 1) \in Seq(T)
         /\ SubSeq(t, Boundary(t) + 2, Len(t)) \in Seq(T)
         /\ Split(t \o u) = Prefixed(EventOf(SubSeq(t, 1, Boundary(t) - 1)),
                                     Split(SubSeq(t, Boundary(t) + 2, Len(t)) \o u))
<1>. DEFINE w == t \o u
            b == Boundary(t)
<1>1. /\ w \in Seq(T) /\ Len(t) \in Nat /\ Len(u) \in Nat /\ Len(w) = Len(t) + Len(u)
      /\ \A i \in 1..(Len(t) + Len(u)) : w[i] = IF i <= Len(t) THEN t[i] ELSE u[i - Len(t)]
  BY ConcatProperties, LenProperties
<1>2. b \in 1..(Len(t) - 1) /\ Blank(t, b) /\ \A i \in 1..(b - 1) : ~Blank(t, i)
  BY BoundaryIs DEF Boundary
<1>. HIDE DEF b
<1>3. ASSUME NEW i \in 1..(Len(t) - 1) PROVE Blank(w, i) <=> Blank(t, i)
  <2>1. i \in 1..(Len(t) + Len(u)) /\ i + 1 \in 1..(Len(t) + Len(u)) /\ i <= Len(t) /\ i + 1 <= Len(t)
    BY <1>1
  <2>2. w[i] = t[i] /\ w[i + 1] = t[i + 1]
    <3>. HIDE DEF w
    <3>. QED
      BY <1>1, <2>1
  <2>. QED
    BY <2>2 DEF Blank
<1>4. Boundary(w) = b
  <2>1. b \in 1..(Len(w) - 1) /\ 1 \in Nat \ {0}
    BY <1>1, <1>2
  <2>2. Blank(w, b) /\ \A i \in 1..(b - 1) : ~Blank(w, i)
    <3>1. \A i \in 1..(b - 1) : i \in 1..(Len(t) - 1)
      BY <1>1, <1>2
    <3>. QED
      BY <1>2, <1>3, <3>1
  <2>. HIDE DEF w
  <2>. QED
    BY <1>1, <2>1, <2>2, BoundaryOnly DEF Boundary
<1>5. b + 2 \in 1..(Len(w) + 1) /\ 1 \in 1..(Len(w) + 1) /\ b + 2 \in 1..(Len(t) + 1)
      /\ b + 1 \in Nat /\ b # 0 /\ b \in Nat
  BY <1>1, <1>2
<1>6. Split(w) = Prefixed(EventOf(SubSeq(w, 1, b - 1)), SplitFrom(w)[b + 2])
  <2>. HIDE DEF w
  <2>1. BoundaryFrom(w, 1) = b
    BY <1>4 DEF Boundary
  <2>. QED
    BY <1>1, <1>5, <2>1, SplitFromIs DEF Split
<1>7. SplitFrom(w)[b + 2] = Split(SubSeq(w, b + 2, Len(w)))
  <2>. HIDE DEF w
  <2>. QED
    BY <1>1, <1>5, SplitOfSuffix
<1>. DEFINE r == SubSeq(t, b + 2, Len(t))
            o == SubSeq(t, 1, b - 1)
<1>8. /\ r \in Seq(T) /\ Len(r) = Len(t) - (b + 2) + 1
      /\ \A i \in 1..(Len(t) - (b + 2) + 1) : r[i] = t[(b + 2) + i - 1]
  BY <1>5, SuffixIs
<1>9. /\ o \in Seq(T) /\ Len(o) = b - 1 /\ \A i \in 1..(b - 1) : o[i] = t[i]
  <2>1. \A i \in 1..(b - 1) : t[i] \in T
    <3>1. \A i \in 1..(b - 1) : i \in 1..Len(t)
      BY <1>1, <1>2
    <3>. QED
      BY <3>1, ElementOfSeq
  <2>. QED
    BY <1>5, <2>1, SubSeqProperties
<1>. HIDE DEF r, o
<1>10. SubSeq(w, 1, b - 1) = o
  <2>1. \A i \in 1..(b - 1) : o[i] = w[0 + i]
    <3>1. \A i \in 1..(b - 1) : i \in 1..(Len(t) + Len(u)) /\ i <= Len(t)
      BY <1>1, <1>2
    <3>. HIDE DEF w
    <3>2. ASSUME NEW i \in 1..(b - 1) PROVE o[i] = w[0 + i]
      <4>1. 0 + i = i /\ w[i] = t[i] /\ o[i] = t[i]
        BY <1>1, <1>9, <3>1
      <4>. QED
        BY <4>1
    <3>. QED
      BY <3>2
  <2>2. b - 1 \in 0..Len(w) /\ Len(o) = (b - 1) - 0 /\ (b - 1) - 0 = b - 1 /\ 0 + 1 = 1 /\ 0 \in Nat
    <3>. HIDE DEF w
    <3>. QED
      BY <1>1, <1>2, <1>9
  <2>. HIDE DEF w
  <2>3. o = SubSeq(w, 0 + 1, b - 1)
    BY <1>1, <1>9, <2>1, <2>2, CutIs
  <2>. QED
    BY <2>2, <2>3
<1>11. SubSeq(w, b + 2, Len(w)) = r \o u
  <2>. DEFINE x == r \o u
  <2>1. /\ x \in Seq(T) /\ Len(x) = Len(r) + Len(u)
        /\ \A i \in 1..(Len(r) + Len(u)) : x[i] = IF i <= Len(r) THEN r[i] ELSE u[i - Len(r)]
    BY <1>8, ConcatProperties
  <2>. HIDE DEF x, w
  <2>2. /\ b + 1 \in Nat /\ Len(w) \in (b + 1)..Len(w) /\ Len(x) = Len(w) - (b + 1) /\ (b + 1) + 1 = b + 2
        /\ Len(r) \in Nat /\ Len(r) = Len(t) - (b + 1)
    BY <1>1, <1>2, <1>8, <2>1
  <2>3. ASSUME NEW i \in 1..(Len(w) - (b + 1)) PROVE x[i] = w[(b + 1) + i]
    <3>1. /\ i \in Nat /\ i \in 1..(Len(r) + Len(u)) /\ (b + 1) + i \in 1..(Len(t) + Len(u))
          /\ (b + 2) + i - 1 = (b + 1) + i
          /\ i <= Len(r) <=> (b + 1) + i <= Len(t)
          /\ i - Len(r) = ((b + 1) + i) - Len(t)
      BY <1>1, <1>2, <1>8, <2>1, <2>2
    <3>2. CASE i <= Len(r)
      <4>1. i \in 1..(Len(t) - (b + 2) + 1)
        BY <1>1, <1>8, <3>1, <3>2
      <4>2. x[i] = r[i] /\ r[i] = t[(b + 2) + i - 1]
        BY <1>8, <2>1, <3>1, <3>2, <4>1
      <4>3. w[(b + 1) + i] = t[(b + 1) + i]
        BY <1>1, <3>1, <3>2
      <4>. QED
        BY <3>1, <4>2, <4>3
    <3>3. CASE ~(i <= Len(r))
      <4>1. x[i] = u[i - Len(r)]
        BY <2>1, <3>1, <3>3
      <4>2. w[(b + 1) + i] = u[((b + 1) + i) - Len(t)]
        BY <1>1, <3>1, <3>3
      <4>. QED
        BY <3>1, <4>1, <4>2
    <3>. QED
      BY <3>2, <3>3
  <2>4. x = SubSeq(w, (b + 1) + 1, Len(w))
    BY <1>1, <2>1, <2>2, <2>3, CutIs
  <2>. QED
    BY <2>2, <2>4 DEF x
<1>12. Split(w) = Prefixed(EventOf(o), Split(r \o u))
  BY <1>6, <1>7, <1>10, <1>11
<1>. QED
  BY <1>2, <1>8, <1>9, <1>12 DEF r, o, w, b

\* A text without a blank line has no event yet.
LEMMA SplitNone ==
  ASSUME NEW T, NEW t \in Seq(T), Boundary(t) = 0
  PROVE  Split(t) = [events |-> <<>>, rest |-> t]
<1>1. Len(t) \in Nat /\ 1 \in 1..(Len(t) + 1) /\ SubSeq(t, 1, Len(t)) = t
  BY LenProperties, SubSeqFull
<1>. QED
  BY <1>1, SplitFromIs DEF Boundary, Split

\* What a split is.
LEMMA SplitIs ==
  ASSUME NEW T, NEW t \in Seq(T)
  PROVE  Split(t) \in Splits(T)
<1>1. Len(t) \in Nat /\ 1 \in 1..(Len(t) + 1)
  BY LenProperties
<1>. QED
  BY <1>1, SplitFromIs DEF Split

-----------------------------------------------------------------------------
(* What the relay has told.                                                  *)

Chars == Tokens \cup {LF, Torn}
Known == recorded \o batch
Text  == Normalised(Body(relayed), cuts)

\* Whatever the stream goes on with, its events are those that have been taken
\* and those of what is left.
Taken(T, events, text, rest) ==
  \A u \in Seq(T) : Split(text \o u) = Prefixed(events, Split(rest \o u))

\* The places where the stream was cut are places of what has been relayed, and
\* its end is one of them if a cut shows there.
CutsKnown ==
  /\ \A n \in cuts : n \in Nat /\ n <= relayed
  /\ relayed \in Inseparable => relayed \in cuts

Untold == relayed = 0 /\ cuts = {} /\ recorded = <<>> /\ batch = <<>> /\ buffer = <<>> /\ emitted = 0

\* The types of what the relay parses and records.
ToldTypeOK ==
  /\ recorded \in Seq(Events(Chars)) /\ batch \in Seq(Events(Chars)) /\ Len(batch) <= BatchSize
  /\ buffer \in Seq(Chars) /\ emitted \in Nat
  /\ relayed \in 0..Len(raw)
  /\ eof \in BOOLEAN /\ open \in BOOLEAN /\ stopping \in BOOLEAN
  /\ why \in {"", "stop", "eof", "origin", "client", "cap"}
  /\ pc \in FramingPcs \cup {"parsing", "flush", "over", "refused"}

OnTheWay ==
  /\ \A i \in 1..Len(Known) : Known[i].complete
  /\ emitted = Len(Known)
  /\ Taken(Chars, Known, Text, buffer)

AtTheEnd ==
  /\ recorded = Said /\ RecordsOnlyRelayed
  /\ emitted = Len(Split(Text).events)

SaidInv ==
  /\ ToldTypeOK /\ CutsKnown
  /\ Reading => Untold
  /\ pc # "over" => OnTheWay
  /\ pc = "over" => AtTheEnd
  /\ pc \in {"stream", "flush"} => Boundary(buffer) = 0
  /\ pc \in {"flush", "over"} /\ why = "cap" => emitted >= MaxEvents

\* Nothing of the body is nothing of the text.
LEMMA NothingSaid ==
  ASSUME NEW T, LF \in T, Torn \in T, NEW cut
  PROVE  Normalised(<<>>, cut) = <<>> /\ Boundary(<<>>) = 0
<1>1. <<>> \in Seq(T) /\ Len(<<>>) = 0
  BY EmptySeq
<1>2. PICK u : Written(T, <<>>, cut, u)
  BY <1>1, NormalisedIs
<1>3. Normalised(<<>>, cut) = <<>>
  BY <1>1, <1>2 DEF Written
<1>4. Boundary(<<>>) = 0
  <2>1. PICK e \in Seq(T) : e = <<>>
    BY <1>1
  <2>2. 1 \in Nat \ {0}
    OBVIOUS
  <2>3. BoundaryFrom(e, 1) = 0 \/ BoundaryFrom(e, 1) \in 1..(Len(e) - 1)
    BY <2>2, BoundaryIs
  <2>. QED
    BY <1>1, <2>1, <2>3 DEF Boundary
<1>. QED
  BY <1>3, <1>4

\* A body, as far as it has been relayed.
LEMMA BodyIs ==
  ASSUME ReaderInv, relayed \in 0..Len(raw)
  PROVE  /\ Body(relayed) \in Seq(Chars) /\ Len(Body(relayed)) = relayed
         /\ \A i \in 1..relayed : Body(relayed)[i] = msg.wire[Len(head) + i]
         /\ Len(head) \in Nat /\ Len(raw) \in Nat /\ relayed \in Nat
         /\ Len(head) + relayed <= Len(msg.wire) /\ Len(msg.wire) \in Nat
         /\ LF \in Chars /\ Torn \in Chars /\ Text \in Seq(Chars)
<1>1. /\ msg.wire \in Seq(Tokens) /\ Len(msg.wire) \in Nat /\ Len(buf) \in Nat /\ Pos \in Nat
      /\ Pos + Len(buf) = arrived /\ arrived <= Len(msg.wire)
  BY BufferIs
<1>2. Len(head) \in Nat /\ Len(raw) \in Nat /\ relayed \in Nat
  BY LenProperties DEF ReaderInv, Parts
<1>3. Len(head) + relayed <= Len(msg.wire)
  BY <1>1, <1>2 DEF Pos
<1>4. LF \in Chars /\ Torn \in Chars
  BY DEF Chars
<1>5. \A i \in (Len(head) + 1)..(Len(head) + relayed) : msg.wire[i] \in Chars
  <2>1. ASSUME NEW i \in (Len(head) + 1)..(Len(head) + relayed) PROVE msg.wire[i] \in Chars
    <3>1. i \in 1..Len(msg.wire)
      BY <1>1, <1>2, <1>3
    <3>. QED
      BY <1>1, <3>1, ElementOfSeq DEF Chars
  <2>. QED
    BY <2>1
<1>. DEFINE b == Body(relayed)
            m == Len(head) + 1
            n == Len(head) + relayed
<1>6. /\ b \in Seq(Chars)
      /\ Len(b) = IF m <= n THEN n - m + 1 ELSE 0
      /\ \A i \in 1..(n - m + 1) : b[i] = msg.wire[m + i - 1]
  <2>1. b = SubSeq(msg.wire, m, n)
    BY DEF Body
  <2>2. m \in Int /\ n \in Int
    BY <1>2
  <2>. HIDE DEF b
  <2>. QED
    BY <1>5, <2>1, <2>2, SubSeqProperties
<1>. HIDE DEF b
<1>7. n - m + 1 = relayed /\ (m <= n <=> relayed # 0) /\ \A i \in 1..relayed : m + i - 1 = Len(head) + i
  BY <1>2
<1>8. Len(b) = relayed /\ \A i \in 1..relayed : b[i] = msg.wire[Len(head) + i]
  BY <1>6, <1>7
<1>9. Text \in Seq(Chars)
  <2>1. PICK u : Written(Chars, b, cuts, u)
    BY <1>4, <1>6, NormalisedIs
  <2>2. Len(b) \in 0..Len(b)
    BY <1>2, <1>8
  <2>3. Normalised(b, cuts) \in Seq(Chars)
    BY <2>1, <2>2 DEF Written
  <2>. QED
    BY <2>3 DEF Text, b
<1>. QED
  BY <1>1, <1>2, <1>3, <1>4, <1>6, <1>8, <1>9 DEF b

\* Where nothing has been relayed, nothing is known.
LEMMA UntoldIsOnTheWay == ReaderInv /\ Untold => OnTheWay /\ Boundary(buffer) = 0
<1>. SUFFICES ASSUME ReaderInv, Untold PROVE OnTheWay /\ Boundary(buffer) = 0
  OBVIOUS
<1>1. LF \in Chars /\ Torn \in Chars
  BY DEF Chars
<1>2. Normalised(<<>>, cuts) = <<>> /\ Boundary(<<>>) = 0
  BY <1>1, NothingSaid
<1>3. Len(head) \in Nat
  BY LenProperties DEF ReaderInv, Parts
<1>4. Text = <<>>
  <2>1. Body(relayed) = SubSeq(msg.wire, Len(head) + 1, Len(head) + 0)
    BY DEF Body, Untold
  <2>2. Len(head) + 0 < Len(head) + 1
    BY <1>3
  <2>3. SubSeq(msg.wire, Len(head) + 1, Len(head) + 0) = <<>>
    BY <1>3, <2>2, SubSeqEmpty
  <2>. QED
    BY <1>2, <2>1, <2>3 DEF Text
<1>5. Known = <<>> /\ buffer = <<>> /\ emitted = 0
  <2>1. <<>> \o <<>> = <<>>
    BY ConcatEmptySeq, EmptySeq
  <2>. QED
    BY <2>1 DEF Known, Untold
<1>6. Len(<<>>) = 0
  BY EmptySeq
<1>7. Taken(Chars, <<>>, <<>>, <<>>)
  <2>1. ASSUME NEW u \in Seq(Chars) PROVE Split(<<>> \o u) = Prefixed(<<>>, Split(<<>> \o u))
    <3>1. <<>> \o u = u /\ Split(u) \in Splits(Chars)
      BY ConcatEmptySeq, SplitIs
    <3>2. Prefixed(<<>>, Split(u)) = Split(u)
      <4>. DEFINE r == Split(u)
      <4>1. r \in Splits(Chars)
        BY <3>1
      <4>. HIDE DEF r
      <4>2. <<>> \in Seq(Events(Chars))
        BY EmptySeq
      <4>3. Prefixed(<<>>, r) = r
        BY <4>1, <4>2, PrefixedIs
      <4>. QED
        BY <4>3 DEF r
    <3>. QED
      BY <3>1, <3>2
  <2>. QED
    BY <2>1 DEF Taken
<1>8. \A i \in 1..Len(Known) : Known[i].complete
  BY <1>5, <1>6
<1>9. emitted = Len(Known)
  BY <1>5, <1>6
<1>. QED
  BY <1>2, <1>4, <1>5, <1>7, <1>8, <1>9 DEF OnTheWay

\* What has been taken is the front of what the text says.
LEMMA TakenIsFront ==
  ASSUME NEW T, NEW e \in Seq(Events(T)), NEW text \in Seq(T), NEW rest \in Seq(T),
         Taken(T, e, text, rest)
  PROVE  /\ Split(text) = Prefixed(e, Split(rest))
         /\ Split(text).events = e \o Split(rest).events
         /\ Len(e) \in Nat /\ DOMAIN e = 1..Len(e)
         /\ \A i \in 1..Len(e) : i \in DOMAIN Split(text).events /\ Split(text).events[i] = e[i]
<1>1. <<>> \in Seq(T) /\ text \o <<>> = text /\ rest \o <<>> = rest
  BY EmptySeq, ConcatEmptySeq
<1>2. Split(text \o <<>>) = Prefixed(e, Split(rest \o <<>>))
  BY <1>1 DEF Taken
<1>3. Split(text) = Prefixed(e, Split(rest))
  BY <1>1, <1>2
<1>4. Split(rest) \in Splits(T)
  BY SplitIs
<1>. DEFINE x == Split(rest).events
            y == Split(text).events
<1>5. x \in Seq(Events(T))
  BY <1>4 DEF Splits
<1>6. y = e \o x
  BY <1>3 DEF Prefixed
<1>. HIDE DEF x, y
<1>7. Len(e) \in Nat /\ DOMAIN e = 1..Len(e) /\ Len(x) \in Nat
  BY <1>5, LenProperties
<1>8. /\ y \in Seq(Events(T)) /\ Len(y) = Len(e) + Len(x)
      /\ \A i \in 1..(Len(e) + Len(x)) : y[i] = IF i <= Len(e) THEN e[i] ELSE x[i - Len(e)]
  BY <1>5, <1>6, ConcatProperties
<1>9. DOMAIN y = 1..Len(y)
  BY <1>8, LenProperties
<1>10. ASSUME NEW i \in 1..Len(e) PROVE i \in DOMAIN y /\ y[i] = e[i]
  <2>1. i \in 1..(Len(e) + Len(x)) /\ i <= Len(e)
    BY <1>7
  <2>. QED
    BY <1>8, <1>9, <2>1
<1>. QED
  BY <1>3, <1>6, <1>7, <1>10 DEF x, y

\* Before the relay is over, that is all that is recorded.
LEMMA OnTheWayTells == ReaderInv /\ ToldTypeOK /\ OnTheWay => RecordsOnlyRelayed
<1>. SUFFICES ASSUME ReaderInv, ToldTypeOK, OnTheWay PROVE RecordsOnlyRelayed
  OBVIOUS
<1>1. Known \in Seq(Events(Chars))
  BY ConcatProperties DEF ToldTypeOK, Known
<1>2. Text \in Seq(Chars) /\ buffer \in Seq(Chars)
  BY BodyIs DEF ToldTypeOK
<1>3. Taken(Chars, Known, Text, buffer)
  BY DEF OnTheWay
<1>4. /\ DOMAIN Known = 1..Len(Known)
      /\ \A i \in 1..Len(Known) : i \in DOMAIN Split(Text).events /\ Split(Text).events[i] = Known[i]
  <2>. HIDE DEF Known, Text
  <2>. QED
    BY <1>1, <1>2, <1>3, TakenIsFront
<1>. QED
  BY <1>4, Zenon DEF RecordsOnlyRelayed, Heard, Known, Text

\* What a step that leaves the text alone leaves alone.
LEMMA TextKept ==
  ASSUME UNCHANGED <<msg, head, relayed, cuts>>
  PROVE  /\ Chars' = Chars /\ Text' = Text /\ Said' = Said /\ Heard' = Heard
         /\ CutsKnown => CutsKnown'
  BY DEF Chars, Tokens, Text, Body, Said, Heard, CutsKnown, Inseparable

\* Reading the head, and the other bodies.
LEMMA SaidKeptByRead == ASSUME SaidInv, ReaderInv, ReaderInv', Read PROVE SaidInv'
<1>1. /\ Reading /\ UNCHANGED <<msg, relayed, cuts, recorded, batch, buffer, emitted, open, stopping, why>>
  BY DEF Read, ReadStep, Fill, Raise, TakeHead, TakeBody, TakeSize, TakeChunk, TakeTrailer, Reading,
         parseVars, stopVars
<1>2. Untold
  BY <1>1 DEF SaidInv
<1>3. Untold'
  BY <1>1, <1>2 DEF Untold
<1>4. OnTheWay' /\ Boundary(buffer)' = 0
  <2>1. ReaderInv' /\ Untold' => (OnTheWay /\ Boundary(buffer) = 0)'
    BY UntoldIsOnTheWay, PTL
  <2>. QED
    BY <1>3, <2>1
<1>5. pc' \in FramingPcs /\ eof' \in BOOLEAN
  <2>1. msg \in Messages /\ eof \in BOOLEAN /\ pc \in FramingPcs
    BY <1>1 DEF ReaderInv, Parts, SaidInv, ToldTypeOK, Reading, FramingPcs
  <2>. QED
    BY <2>1, FramingAssumption
    DEF Read, ReadStep, Fill, Raise, TakeHead, TakeBody, TakeSize, TakeChunk, TakeTrailer, FramingPcs
<1>6. Len(raw') \in Nat
  BY LenProperties DEF ReaderInv, Parts
<1>7. ToldTypeOK'
  <2>1. Chars' = Chars
    BY <1>1 DEF Chars, Tokens
  <2>2. relayed' \in 0..Len(raw')
    <3>1. relayed' = 0
      BY <1>3 DEF Untold
    <3>. QED
      BY <1>6, <3>1
  <2>3. ToldTypeOK
    BY DEF SaidInv
  <2>. QED
    BY <1>1, <1>5, <2>1, <2>2, <2>3 DEF ToldTypeOK
<1>8. pc' # "over" /\ pc' # "flush"
  BY <1>5 DEF FramingPcs
<1>9. CutsKnown'
  BY <1>3 DEF Untold, CutsKnown, Inseparable
<1>. QED
  BY <1>3, <1>4, <1>7, <1>8, <1>9 DEF SaidInv

\* The next block of the body.
LEMMA NextBlock ==
  ASSUME ReaderInv, relayed = Len(raw), NEW n \in 0..(Len(msg.wire) - arrived)
  PROVE  LET block == buf \o SubSeq(msg.wire, arrived + 1, arrived + n) IN
         /\ block \in Seq(Chars) /\ Len(block) \in Nat
         /\ Len(raw \o block) = Len(raw) + Len(block) /\ relayed + Len(block) \in Nat
         /\ Body(relayed + Len(block)) = Body(relayed) \o block
         /\ Len(block) # 0 => block[1] = msg.wire[Len(head) + relayed + 1] /\ Len(head) + relayed < Len(msg.wire)
<1>. DEFINE s == msg.wire
            X == SubSeq(s, arrived + 1, arrived + n)
            block == buf \o X
            l == Len(block)
<1>1. /\ s \in Seq(Tokens) /\ Len(s) \in Nat /\ buf \in Seq(Tokens) /\ Len(buf) \in Nat
      /\ Pos \in Nat /\ arrived \in Nat /\ Pos + Len(buf) = arrived /\ arrived <= Len(s)
      /\ \A i \in 1..Len(buf) : buf[i] = s[Pos + i]
  BY BufferIs
<1>2. Len(head) \in Nat /\ Len(raw) \in Nat /\ raw \in Seq(Tokens) /\ Pos = Len(head) + relayed
  BY LenProperties DEF ReaderInv, Parts, Pos
<1>3. buf = SubSeq(s, Pos + 1, arrived)
  <2>1. arrived \in Pos..Len(s) /\ Len(buf) = arrived - Pos
    BY <1>1
  <2>2. \A i \in 1..(arrived - Pos) : buf[i] = s[Pos + i]
    BY <1>1, <2>1
  <2>. HIDE DEF Pos
  <2>. QED
    BY <1>1, <2>1, <2>2, CutIs
<1>4. block = SubSeq(s, Pos + 1, arrived + n)
  <2>1. Pos + 1 \in 1..(Len(s) + 1) /\ arrived \in ((Pos + 1) - 1)..Len(s) /\ arrived + n \in arrived..Len(s)
    BY <1>1
  <2>2. SubSeq(s, Pos + 1, arrived) \o SubSeq(s, arrived + 1, arrived + n) = SubSeq(s, Pos + 1, arrived + n)
    BY <1>1, <2>1, ConcatAdjacentSubSeq, Zenon
  <2>. QED
    BY <1>3, <2>2
<1>. HIDE DEF block, Pos
<1>5. /\ block \in Seq(Tokens) /\ l = arrived + n - Pos /\ l \in Nat
      /\ \A i \in 1..l : block[i] = s[Pos + i]
  <2>1. \A i \in (Pos + 1)..(arrived + n) : s[i] \in Tokens
    <3>1. \A i \in (Pos + 1)..(arrived + n) : i \in 1..Len(s)
      BY <1>1
    <3>. QED
      BY <1>1, <3>1, ElementOfSeq
  <2>2. /\ block \in Seq(Tokens)
        /\ Len(block) = IF Pos + 1 <= arrived + n THEN (arrived + n) - (Pos + 1) + 1 ELSE 0
        /\ \A i \in 1..((arrived + n) - (Pos + 1) + 1) : block[i] = s[(Pos + 1) + i - 1]
    <3>1. Pos + 1 \in Int /\ arrived + n \in Int
      BY <1>1
    <3>. QED
      BY <1>4, <2>1, <3>1, SubSeqProperties
  <2>3. l = arrived + n - Pos /\ l \in Nat
    BY <1>1, <2>2
  <2>4. \A i \in 1..l : i \in 1..((arrived + n) - (Pos + 1) + 1) /\ (Pos + 1) + i - 1 = Pos + i
    BY <1>1, <2>3
  <2>. QED
    BY <2>2, <2>3, <2>4
<1>6. block \in Seq(Chars)
  BY <1>5, SeqMonotonic DEF Chars
<1>. HIDE DEF l
<1>7. Body(relayed + l) = Body(relayed) \o block
  <2>1. /\ Len(head) + 1 \in 1..(Len(s) + 1) /\ Pos \in ((Len(head) + 1) - 1)..Len(s)
        /\ arrived + n \in Pos..Len(s)
        /\ Len(head) + (relayed + l) = arrived + n
    BY <1>1, <1>2, <1>5
  <2>2. SubSeq(s, Len(head) + 1, Pos) \o SubSeq(s, Pos + 1, arrived + n) = SubSeq(s, Len(head) + 1, arrived + n)
    BY <1>1, <2>1, ConcatAdjacentSubSeq, Zenon
  <2>3. Body(relayed) = SubSeq(s, Len(head) + 1, Pos)
    BY <1>2 DEF Body
  <2>4. Body(relayed + l) = SubSeq(s, Len(head) + 1, arrived + n)
    BY <2>1 DEF Body
  <2>. QED
    BY <1>4, <2>2, <2>3, <2>4
<1>8. ASSUME l # 0 PROVE block[1] = s[Pos + 1] /\ Pos < Len(s)
  <2>1. 1 \in 1..l
    BY <1>5, <1>8
  <2>. QED
    BY <1>1, <1>5, <1>8, <2>1
<1>9. Len(raw \o block) = Len(raw) + l
  <2>1. Len(raw \o block) = Len(raw) + Len(block)
    BY <1>2, <1>5, ConcatProperties
  <2>. QED
    BY <2>1 DEF l
<1>10. relayed + l \in Nat
  BY <1>2, <1>5
<1>. QED
  BY <1>2, <1>5, <1>6, <1>7, <1>8, <1>9, <1>10 DEF block, l

\* More of the text, behind what is left and behind the whole.
LEMMA TakenGoesOn ==
  ASSUME NEW T, NEW e, NEW text \in Seq(T), NEW rest \in Seq(T), NEW x \in Seq(T),
         Taken(T, e, text, rest)
  PROVE  Taken(T, e, text \o x, rest \o x)
<1>1. ASSUME NEW u \in Seq(T)
      PROVE  Split((text \o x) \o u) = Prefixed(e, Split((rest \o x) \o u))
  <2>1. PICK y \in Seq(T) : y = Cat(x, u)
    BY CatSeq
  <2>2. Cat(Cat(text, x), u) = Cat(text, y) /\ Cat(Cat(rest, x), u) = Cat(rest, y)
    BY <2>1, CatAssociative
  <2>3. Split(text \o y) = Prefixed(e, Split(rest \o y))
    BY DEF Taken
  <2>. QED
    BY <2>2, <2>3 DEF Cat
<1>. DEFINE a == text \o x
            b == rest \o x
<1>2. \A u \in Seq(T) : Split(a \o u) = Prefixed(e, Split(b \o u))
  BY <1>1
<1>. HIDE DEF a, b
<1>3. Taken(T, e, a, b)
  BY <1>2 DEF Taken
<1>. QED
  BY <1>3 DEF a, b

\* A block of the stream.
LEMMA SaidKeptByReadBlock ==
  ASSUME SaidInv, ReaderInv, RelayInv, ReadBlock
  PROVE  SaidInv'
<1>1. PICK n \in IF buf # <<>> THEN {0} ELSE 1..(Len(msg.wire) - arrived) :
          LET block == buf \o SubSeq(msg.wire, arrived + 1, arrived + n) IN
          /\ raw' = raw \o block
          /\ \/ /\ relayed' = relayed + Len(block)
                /\ cuts' = cuts \cup (Inseparable \cap {relayed'})
                /\ buffer' = buffer \o Normalised(block, {})
                /\ pc' = "parsing" /\ why' = why
             \/ /\ pc' = "flush" /\ why' = "client" /\ UNCHANGED <<relayed, cuts, buffer>>
  BY DEF ReadBlock, Leave
<1>. DEFINE block == buf \o SubSeq(msg.wire, arrived + 1, arrived + n)
<1>2. /\ raw' = raw \o block
      /\ \/ /\ relayed' = relayed + Len(block)
            /\ cuts' = cuts \cup (Inseparable \cap {relayed'})
            /\ buffer' = buffer \o Normalised(block, {})
            /\ pc' = "parsing" /\ why' = why
         \/ /\ pc' = "flush" /\ why' = "client" /\ UNCHANGED <<relayed, cuts, buffer>>
  BY <1>1
<1>3. /\ pc = "stream" /\ relayed = Len(raw)
      /\ UNCHANGED <<msg, eof, head, batch, emitted, recorded, open, stopping>>
  BY DEF ReadBlock, RelayInv, InStream, stopVars
<1>4. n \in 0..(Len(msg.wire) - arrived)
  <2>1. Len(msg.wire) \in Nat /\ arrived \in Nat /\ arrived <= Len(msg.wire)
    BY BufferIs
  <2>. QED
    BY <1>1, <2>1
<1>5. /\ block \in Seq(Chars) /\ Len(block) \in Nat
      /\ Len(raw \o block) = Len(raw) + Len(block) /\ relayed + Len(block) \in Nat
      /\ Body(relayed + Len(block)) = Body(relayed) \o block
      /\ Len(block) # 0 => block[1] = msg.wire[Len(head) + relayed + 1] /\ Len(head) + relayed < Len(msg.wire)
  BY <1>3, <1>4, NextBlock
<1>. HIDE DEF block
<1>6. /\ ToldTypeOK /\ CutsKnown /\ OnTheWay /\ Boundary(buffer) = 0
  BY <1>3 DEF SaidInv
<1>7. /\ Body(relayed) \in Seq(Chars) /\ Len(Body(relayed)) = relayed
      /\ \A i \in 1..relayed : Body(relayed)[i] = msg.wire[Len(head) + i]
      /\ relayed \in Nat /\ LF \in Chars /\ Torn \in Chars /\ Text \in Seq(Chars)
      /\ Len(msg.wire) \in Nat /\ Len(head) \in Nat
  BY <1>6, BodyIs DEF ToldTypeOK
<1>8. Chars' = Chars /\ Known' = Known
  BY <1>3 DEF Chars, Tokens, Known
<1>9. CASE pc' = "flush" /\ why' = "client" /\ UNCHANGED <<relayed, cuts, buffer>>
  <2>1. relayed' \in 0..Len(raw')
    BY <1>2, <1>3, <1>5, <1>7, <1>9
  <2>2. ToldTypeOK'
    BY <1>3, <1>6, <1>8, <1>9, <2>1 DEF ToldTypeOK
  <2>3. Text' = Text /\ CutsKnown'
    BY <1>3, <1>6, <1>9, TextKept
  <2>4. OnTheWay'
    BY <1>3, <1>6, <1>8, <1>9, <2>3 DEF OnTheWay
  <2>5. Boundary(buffer)' = 0
    BY <1>6, <1>9 DEF Boundary
  <2>6. ~Reading'
    BY <1>9 DEF Reading
  <2>. QED
    BY <1>9, <2>2, <2>3, <2>4, <2>5, <2>6 DEF SaidInv
<1>10. CASE /\ relayed' = relayed + Len(block) /\ cuts' = cuts \cup (Inseparable \cap {relayed'})
            /\ buffer' = buffer \o Normalised(block, {}) /\ pc' = "parsing" /\ why' = why
  <2>1. relayed' \in 0..Len(raw')
    BY <1>2, <1>3, <1>5, <1>10
  <2>2. CutBetween(Body(relayed), block, cuts, cuts')
    <3>. DEFINE b == Body(relayed)
                l == Len(block)
    <3>0. Len(b) = relayed /\ l \in Nat /\ relayed' = relayed + l
      BY <1>5, <1>7, <1>10
    <3>. HIDE DEF l
    <3>1. ASSUME NEW i \in 1..(relayed - 1) PROVE i \in cuts' <=> i \in cuts
      BY <1>7, <1>10, <3>0
    <3>2. ASSUME NEW i \in 1..(l - 1) PROVE relayed + i \notin cuts'
      BY <1>6, <1>7, <1>10, <3>0 DEF CutsKnown
    <3>3. ASSUME NEW one, NEW other, Belong(one, other),
                 Joined(b, block, one, other)
          PROVE  relayed \in cuts'
      <4>1. relayed # 0 /\ relayed \in 1..relayed /\ b[relayed] = one /\ block[1] = other /\ Len(block) # 0
        BY <1>7, <3>0, <3>3 DEF Joined
      <4>2. /\ msg.wire[Len(head) + relayed] = one /\ msg.wire[Len(head) + relayed + 1] = other
            /\ Len(head) + relayed < Len(msg.wire)
        BY <1>5, <1>7, <4>1
      <4>3. relayed \in 1..(Len(msg.wire) - Len(head) - 1)
        BY <1>7, <4>1, <4>2
      <4>4. relayed \in Inseparable
        BY <3>3, <4>2, <4>3 DEF Inseparable, Belong
      <4>. QED
        BY <1>6, <1>10, <4>4 DEF CutsKnown
    <3>. HIDE DEF b
    <3>3a. Joined(b, block, CR, LF) \/ Joined(b, block, HI, LO) => relayed \in cuts'
      <4>1. Belong(CR, LF) /\ Belong(HI, LO)
        BY DEF Belong
      <4>. QED
        BY <3>3, <4>1
    <3>4. CutBetween(b, block, cuts, cuts')
      <4>1. \A k \in 1..(relayed - 1) : k \in cuts' <=> k \in cuts
        BY <3>1
      <4>2. \A k \in 1..(l - 1) : relayed + k \notin cuts'
        BY <3>2
      <4>3. PICK r : r = relayed
        OBVIOUS
      <4>4. /\ Len(b) = r /\ Len(block) = l
            /\ \A k \in 1..(r - 1) : k \in cuts' <=> k \in cuts
            /\ \A k \in 1..(l - 1) : r + k \notin cuts'
            /\ Joined(b, block, CR, LF) \/ Joined(b, block, HI, LO) => r \in cuts'
        BY <3>0, <3>3a, <4>1, <4>2, <4>3 DEF l
      <4>. QED
        BY <4>4 DEF CutBetween
    <3>. QED
      BY <3>4 DEF b
  <2>2a. CutsKnown'
    <3>1. Inseparable' = Inseparable
      BY <1>3 DEF Inseparable
    <3>. QED
      BY <1>5, <1>6, <1>7, <1>10, <3>1 DEF CutsKnown
  <2>3. /\ Normalised(block, {}) \in Seq(Chars)
        /\ Normalised(Body(relayed) \o block, cuts') = Normalised(Body(relayed), cuts) \o Normalised(block, {})
    <3>1. PICK before, after : before = cuts /\ after = cuts'
      OBVIOUS
    <3>2. PICK b \in Seq(Chars) : b = Body(relayed)
      BY <1>7
    <3>3. CutBetween(b, block, before, after)
      BY <2>2, <3>1, <3>2
    <3>4. /\ Normalised(block, {}) \in Seq(Chars)
          /\ Normalised(b \o block, after) = Normalised(b, before) \o Normalised(block, {})
      <4>1. LF \in Chars /\ Torn \in Chars /\ block \in Seq(Chars)
        BY <1>5, <1>7
      <4>. QED
        BY <3>3, <4>1, NormalisedConcat
    <3>. QED
      BY <3>1, <3>2, <3>4
  <2>4. Text' = Text \o Normalised(block, {})
    <3>1. Body(relayed)' = Body(relayed + Len(block))
      BY <1>3, <1>10 DEF Body
    <3>2. Text' = Normalised(Body(relayed)', cuts')
      BY DEF Text
    <3>. QED
      BY <1>5, <2>3, <3>1, <3>2 DEF Text
  <2>5. buffer \in Seq(Chars) /\ buffer' \in Seq(Chars)
    <3>1. buffer \in Seq(Chars)
      BY <1>6 DEF ToldTypeOK
    <3>2. Cat(buffer, Normalised(block, {})) \in Seq(Chars)
      BY <2>3, <3>1, CatSeq
    <3>. QED
      BY <1>10, <3>1, <3>2 DEF Cat
  <2>6. Taken(Chars, Known, Text \o Normalised(block, {}), buffer \o Normalised(block, {}))
    <3>1. Taken(Chars, Known, Text, buffer)
      BY <1>6 DEF OnTheWay
    <3>2. PICK x \in Seq(Chars) : x = Normalised(block, {})
      BY <2>3
    <3>3. Taken(Chars, Known, Text \o x, buffer \o x)
      BY <1>7, <2>5, <3>1, TakenGoesOn
    <3>. QED
      BY <3>2, <3>3
  <2>7. OnTheWay'
    <3>1. Taken(Chars', Known', Text', buffer')
      BY <1>8, <1>10, <2>4, <2>6
    <3>2. (\A i \in 1..Len(Known) : Known[i].complete)' /\ emitted' = Len(Known')
      BY <1>3, <1>6, <1>8 DEF OnTheWay
    <3>. QED
      BY <3>1, <3>2 DEF OnTheWay
  <2>8. ToldTypeOK'
    BY <1>3, <1>6, <1>8, <1>10, <2>1, <2>5 DEF ToldTypeOK
  <2>9. ~Reading'
    BY <1>10 DEF Reading
  <2>. QED
    BY <1>10, <2>2a, <2>7, <2>8, <2>9 DEF SaidInv
<1>. QED
  BY <1>2, <1>9, <1>10

\* A step that leaves what is known alone, before and after the relay is over.
LEMMA SaidKept ==
  ASSUME SaidInv, UNCHANGED <<msg, head, raw, eof, relayed, cuts, recorded, batch, buffer, emitted>>,
         pc' = pc \/ (pc # "over" /\ pc' \in {"stream", "flush", "parsing", "refused"}),
         ~Reading => ~Reading',
         open' \in BOOLEAN, stopping' \in BOOLEAN,
         why' \in {"", "stop", "eof", "origin", "client", "cap"},
         pc' \in {"stream", "flush"} => Boundary(buffer) = 0,
         pc' \in {"flush", "over"} /\ why' = "cap" => emitted >= MaxEvents
  PROVE  SaidInv'
<1>1. /\ Chars' = Chars /\ Text' = Text /\ Said' = Said /\ Heard' = Heard /\ Known' = Known
      /\ CutsKnown => CutsKnown'
  BY TextKept DEF Known
<1>2. ToldTypeOK'
  <2>1. ToldTypeOK
    BY DEF SaidInv
  <2>. QED
    BY <1>1, <2>1 DEF ToldTypeOK, FramingPcs
<1>3. OnTheWay => OnTheWay'
  BY <1>1 DEF OnTheWay
<1>4. AtTheEnd => AtTheEnd'
  <2>1. RecordsOnlyRelayed' = RecordsOnlyRelayed
    BY <1>1 DEF RecordsOnlyRelayed
  <2>. QED
    BY <1>1, <2>1 DEF AtTheEnd
<1>5. Untold => Untold'
  BY DEF Untold
<1>6. (Boundary(buffer) = 0) = (Boundary(buffer) = 0)'
  BY DEF Boundary
<1>. QED
  BY <1>1, <1>2, <1>3, <1>4, <1>5, <1>6 DEF SaidInv

\* Events that are added to those taken.
LEMMA KnownIs ==
  ASSUME NEW T, NEW k \in Seq(Events(T)), NEW e \in Seq(Events(T)),
         \A i \in 1..Len(k) : k[i].complete, \A i \in 1..Len(e) : e[i].complete
  PROVE  /\ k \o e \in Seq(Events(T)) /\ Len(k \o e) = Len(k) + Len(e)
         /\ \A i \in 1..Len(k \o e) : (k \o e)[i].complete
<1>1. /\ k \o e \in Seq(Events(T)) /\ Len(k \o e) = Len(k) + Len(e)
      /\ \A i \in 1..(Len(k) + Len(e)) : (k \o e)[i] = IF i <= Len(k) THEN k[i] ELSE e[i - Len(k)]
  BY ConcatProperties
<1>2. Len(k) \in Nat /\ Len(e) \in Nat
  BY LenProperties
<1>. DEFINE z == k \o e
<1>. HIDE DEF z
<1>3. ASSUME NEW i \in 1..(Len(k) + Len(e)) PROVE z[i].complete
  <2>1. CASE i <= Len(k)
    <3>1. z[i] = k[i] /\ i \in 1..Len(k)
      BY <1>1, <1>2, <1>3, <2>1 DEF z
    <3>. QED
      BY <3>1
  <2>2. CASE ~(i <= Len(k))
    <3>1. z[i] = e[i - Len(k)] /\ i - Len(k) \in 1..Len(e)
      BY <1>1, <1>2, <1>3, <2>2 DEF z
    <3>. QED
      BY <3>1
  <2>. QED
    BY <2>1, <2>2
<1>. QED
  BY <1>1, <1>3 DEF z

\* An event taken out of the buffer.
LEMMA SaidKeptByTakeEvent ==
  ASSUME SaidInv, ReaderInv, TakeEvent
  PROVE  SaidInv'
<1>. DEFINE b   == Boundary(buffer)
            one == SubSeq(buffer, 1, b - 1)
            rest == SubSeq(buffer, b + 2, Len(buffer))
            e == EventOf(one)
<1>1. /\ pc = "parsing" /\ pc' = "parsing" /\ Len(batch) < BatchSize /\ b # 0
      /\ buffer' = rest
      /\ UNCHANGED <<msg, arrived, eof, buf, head, raw, sample, left, relayed, cuts, recorded, open, stopping, why>>
      /\ Data(one) = {} => UNCHANGED <<batch, emitted>>
      /\ Data(one) # {} => batch' = Append(batch, Event(one, TRUE)) /\ emitted' = emitted + 1
  BY DEF TakeEvent, readerVars, stopVars
<1>2. ToldTypeOK /\ OnTheWay /\ relayed \in 0..Len(raw) /\ buffer \in Seq(Chars)
      /\ batch \in Seq(Events(Chars)) /\ recorded \in Seq(Events(Chars)) /\ emitted \in Nat
  BY <1>1 DEF SaidInv, ToldTypeOK
<1>3. Text \in Seq(Chars)
  BY <1>2, BodyIs
<1>4. /\ one \in Seq(Chars) /\ rest \in Seq(Chars)
      /\ \A u \in Seq(Chars) : Split(buffer \o u) = Prefixed(EventOf(one), Split(rest \o u))
  <2>1. <<>> \in Seq(Chars)
    BY EmptySeq
  <2>2. one \in Seq(Chars) /\ rest \in Seq(Chars)
    BY <1>1, <1>2, <2>1, SplitTakes
  <2>3. ASSUME NEW u \in Seq(Chars) PROVE Split(buffer \o u) = Prefixed(EventOf(one), Split(rest \o u))
    BY <1>1, <1>2, SplitTakes
  <2>. QED
    BY <2>2, <2>3
<1>. HIDE DEF one, rest, b
<1>5. e \in Seq(Events(Chars)) /\ \A i \in 1..Len(e) : e[i].complete
  BY <1>4, EventOfIs
<1>6. /\ batch' = batch \o e /\ emitted' = emitted + Len(e)
      /\ batch' \in Seq(Events(Chars)) /\ Len(batch') <= BatchSize
  <2>0. BatchSize \in Nat /\ Len(batch) \in Nat
    BY <1>2, SseAssumption, LenProperties
  <2>1. CASE Data(one) = {}
    <3>1. e = <<>> /\ Len(<<>>) = 0 /\ batch \o <<>> = batch
      BY <1>2, <2>1, EmptySeq, ConcatEmptySeq DEF EventOf
    <3>. QED
      BY <1>1, <1>2, <2>0, <2>1, <3>1
  <2>2. CASE Data(one) # {}
    <3>. DEFINE v == Event(one, TRUE)
    <3>1. v \in Events(Chars)
      BY <1>4, EventIs
    <3>2. e = <<v>>
      BY <2>2 DEF EventOf
    <3>3. batch' = Append(batch, v) /\ emitted' = emitted + 1
      BY <1>1, <2>2
    <3>. HIDE DEF v, e
    <3>4. Append(batch, v) = batch \o <<v>> /\ Append(batch, v) \in Seq(Events(Chars))
          /\ Len(Append(batch, v)) = Len(batch) + 1
      BY <1>2, <3>1, AppendIsConcat, AppendProperties
    <3>5. Len(<<v>>) = 1
      OBVIOUS
    <3>. QED
      BY <1>1, <1>2, <2>0, <3>2, <3>3, <3>4, <3>5
  <2>. QED
    BY <2>1, <2>2
<1>. HIDE DEF e
<1>7. Chars' = Chars /\ Text' = Text /\ CutsKnown'
  BY <1>1, TextKept DEF SaidInv
<1>8. Known \in Seq(Events(Chars))
  BY <1>2, ConcatProperties DEF Known
<1>9. Known' = Known \o e
  <2>1. Cat(Cat(recorded, batch), e) = Cat(recorded, Cat(batch, e))
    BY <1>2, <1>5, CatAssociative
  <2>2. Known' = recorded \o (batch \o e)
    BY <1>1, <1>6 DEF Known
  <2>. QED
    BY <2>1, <2>2 DEF Cat, Known
<1>10. OnTheWay'
  <2>1. /\ Len(Known \o e) = Len(Known) + Len(e)
        /\ \A i \in 1..Len(Known \o e) : (Known \o e)[i].complete
    <3>. HIDE DEF Known
    <3>1. \A i \in 1..Len(Known) : Known[i].complete
      BY <1>2 DEF OnTheWay
    <3>. QED
      BY <1>5, <1>8, <3>1, KnownIs
  <2>2. emitted' = Len(Known')
    <3>1. emitted = Len(Known)
      BY <1>2 DEF OnTheWay
    <3>. QED
      BY <1>6, <1>9, <2>1, <3>1
  <2>3. Taken(Chars, Known \o e, Text, rest)
    <3>1. ASSUME NEW u \in Seq(Chars) PROVE Split(Text \o u) = Prefixed(Known \o e, Split(rest \o u))
      <4>1. Split(Text \o u) = Prefixed(Known, Split(buffer \o u))
        BY <1>2 DEF OnTheWay, Taken
      <4>2. Split(buffer \o u) = Prefixed(e, Split(rest \o u))
        BY <1>4 DEF e
      <4>. DEFINE w == Cat(rest, u)
                  r == Split(w)
      <4>3. w \in Seq(Chars)
        BY <1>4, CatSeq
      <4>. HIDE DEF w
      <4>4. r \in Splits(Chars)
        BY <4>3, SplitIs
      <4>. HIDE DEF r, Known
      <4>5. Prefixed(Known, Prefixed(e, r)) = Prefixed(Known \o e, r)
        BY <1>5, <1>8, <4>4, PrefixedIs
      <4>6. r = Split(rest \o u)
        BY DEF r, w, Cat
      <4>. QED
        BY <4>1, <4>2, <4>5, <4>6
    <3>. DEFINE z == Known \o e
    <3>2. \A u \in Seq(Chars) : Split(Text \o u) = Prefixed(z, Split(rest \o u))
      BY <3>1
    <3>. HIDE DEF z
    <3>3. Taken(Chars, z, Text, rest)
      BY <3>2 DEF Taken
    <3>. QED
      BY <3>3 DEF z
  <2>4. Taken(Chars', Known', Text', buffer')
    BY <1>1, <1>7, <1>9, <2>3
  <2>5. \A i \in 1..Len(Known') : Known'[i].complete
    BY <1>9, <2>1
  <2>. QED
    BY <2>2, <2>4, <2>5 DEF OnTheWay
<1>11. ToldTypeOK'
  <2>1. buffer' \in Seq(Chars)
    BY <1>1, <1>4
  <2>2. emitted' \in Nat
    <3>1. Len(e) \in Nat
      BY <1>5, LenProperties
    <3>. QED
      BY <1>2, <1>6, <3>1
  <2>. QED
    BY <1>1, <1>2, <1>6, <1>7, <2>1, <2>2 DEF ToldTypeOK
<1>12. ~Reading'
  BY <1>1 DEF Reading
<1>. QED
  BY <1>1, <1>7, <1>10, <1>11, <1>12 DEF SaidInv

\* A full batch is appended, or refused.
LEMMA SaidKeptByAppendBatch ==
  ASSUME SaidInv, AppendBatch
  PROVE  SaidInv'
<1>1. /\ pc = "parsing"
      /\ UNCHANGED <<msg, arrived, eof, buf, head, raw, sample, left, relayed, cuts, buffer, emitted, open, stopping, why>>
      /\ \/ recorded' = recorded \o batch /\ batch' = <<>> /\ pc' = "parsing"
         \/ pc' = "refused" /\ UNCHANGED <<recorded, batch>>
  BY DEF AppendBatch, AppendEvents, readerVars, stopVars
<1>2. ToldTypeOK /\ OnTheWay
  BY <1>1 DEF SaidInv
<1>3. CASE pc' = "refused" /\ UNCHANGED <<recorded, batch>>
  <2>1. ~Reading'
    BY <1>3 DEF Reading
  <2>2. open' \in BOOLEAN /\ stopping' \in BOOLEAN /\ why' \in {"", "stop", "eof", "origin", "client", "cap"}
    BY <1>1, <1>2 DEF ToldTypeOK
  <2>. QED
    BY <1>1, <1>3, <2>1, <2>2, SaidKept
<1>4. CASE recorded' = recorded \o batch /\ batch' = <<>> /\ pc' = "parsing"
  <2>1. Chars' = Chars /\ Text' = Text /\ CutsKnown'
    BY <1>1, TextKept DEF SaidInv
  <2>2. recorded \in Seq(Events(Chars)) /\ batch \in Seq(Events(Chars))
    BY <1>2 DEF ToldTypeOK
  <2>3. Known \in Seq(Events(Chars)) /\ Known \o <<>> = Known
    BY <2>2, ConcatProperties, ConcatEmptySeq DEF Known
  <2>4. Known' = Known
    <3>1. Known' = Known \o <<>>
      BY <1>4 DEF Known
    <3>. QED
      BY <2>3, <3>1
  <2>5. <<>> \in Seq(Events(Chars)) /\ Len(<<>>) = 0 /\ BatchSize \in Nat
    BY EmptySeq, SseAssumption
  <2>6. ToldTypeOK'
    <3>1. recorded' \in Seq(Events(Chars))
      BY <1>4, <2>3 DEF Known
    <3>2. batch' \in Seq(Events(Chars)) /\ Len(batch') <= BatchSize
      BY <1>4, <2>5
    <3>. QED
      BY <1>1, <1>2, <1>4, <2>1, <3>1, <3>2 DEF ToldTypeOK
  <2>7. OnTheWay'
    BY <1>1, <1>2, <2>1, <2>4 DEF OnTheWay
  <2>8. ~Reading'
    BY <1>4 DEF Reading
  <2>. QED
    BY <1>4, <2>1, <2>6, <2>7, <2>8 DEF SaidInv
<1>. QED
  BY <1>1, <1>3, <1>4

\* The end: what is left becomes an incomplete event.
LEMMA SaidKeptByFlush ==
  ASSUME SaidInv, ReaderInv, Flush
  PROVE  SaidInv'
<1>. DEFINE v == Event(buffer, FALSE)
            last == IF Data(buffer) = {} THEN <<>> ELSE <<v>>
<1>1. /\ pc = "flush"
      /\ UNCHANGED <<msg, arrived, eof, buf, head, raw, sample, left, relayed, cuts, buffer, emitted, open, stopping, why>>
      /\ \/ batch \o last = <<>> /\ pc' = "over" /\ UNCHANGED <<recorded, batch>>
         \/ recorded' = recorded \o (batch \o last) /\ batch' = <<>> /\ pc' = "over"
         \/ pc' = "refused" /\ UNCHANGED <<recorded, batch>>
  BY DEF Flush, AppendEvents, readerVars, stopVars
<1>2. /\ ToldTypeOK /\ OnTheWay /\ Boundary(buffer) = 0 /\ relayed \in 0..Len(raw)
      /\ why = "cap" => emitted >= MaxEvents
  BY <1>1 DEF SaidInv, ToldTypeOK
<1>3. recorded \in Seq(Events(Chars)) /\ batch \in Seq(Events(Chars)) /\ buffer \in Seq(Chars)
      /\ Text \in Seq(Chars)
  BY <1>2, BodyIs DEF ToldTypeOK
<1>4. v \in Events(Chars) /\ v.complete = FALSE
  BY <1>3, EventIs
<1>. HIDE DEF v
<1>5. last \in Seq(Events(Chars)) /\ \A i \in 1..Len(last) : ~last[i].complete
  <2>1. CASE last = <<>>
    BY <2>1, EmptySeq
  <2>2. CASE last = <<v>>
    <3>1. <<v>> \in Seq(Events(Chars)) /\ Len(<<v>>) = 1 /\ <<v>>[1] = v
      BY <1>4
    <3>2. \A i \in 1..Len(<<v>>) : ~<<v>>[i].complete
      BY <1>4, <3>1
    <3>. QED
      BY <2>2, <3>1, <3>2
  <2>. QED
    BY <2>1, <2>2
<1>6. Data(buffer) = {} => last = <<>>
  OBVIOUS
<1>7. last = IF Data(buffer) = {} THEN <<>> ELSE <<Event(buffer, FALSE)>>
  BY DEF v
<1>. HIDE DEF last
<1>8. /\ Known \in Seq(Events(Chars)) /\ Known \o last \in Seq(Events(Chars))
      /\ Len(Known \o last) = Len(Known) + Len(last)
      /\ Len(Known) \in Nat /\ Len(last) \in Nat
      /\ \A i \in 1..(Len(Known) + Len(last)) :
            (Known \o last)[i] = IF i <= Len(Known) THEN Known[i] ELSE last[i - Len(Known)]
  <2>1. Known \in Seq(Events(Chars))
    BY <1>3, ConcatProperties DEF Known
  <2>. HIDE DEF Known
  <2>. QED
    BY <1>5, <2>1, ConcatProperties, LenProperties
<1>9. Chars' = Chars /\ Text' = Text /\ Said' = Said /\ CutsKnown'
  BY <1>1, TextKept DEF SaidInv
<1>10. /\ Split(Text) = [events |-> Known, rest |-> buffer]
       /\ \A i \in 1..Len(Known) : i \in DOMAIN Split(Text).events /\ Split(Text).events[i] = Known[i]
  <2>1. Taken(Chars, Known, Text, buffer)
    BY <1>2 DEF OnTheWay
  <2>2. /\ Split(Text) = Prefixed(Known, Split(buffer))
        /\ \A i \in 1..Len(Known) : i \in DOMAIN Split(Text).events /\ Split(Text).events[i] = Known[i]
    <3>. HIDE DEF Known, Text
    <3>. QED
      BY <1>3, <1>8, <2>1, TakenIsFront
  <2>3. Split(buffer) = [events |-> <<>>, rest |-> buffer]
    BY <1>2, <1>3, SplitNone
  <2>4. Known \o <<>> = Known
    BY <1>8, ConcatEmptySeq
  <2>5. Split(Text) = [events |-> Known, rest |-> buffer]
    BY <2>2, <2>3, <2>4 DEF Prefixed
  <2>. QED
    BY <2>2, <2>5
<1>11. Said = Known \o last
  BY <1>7, <1>10 DEF Said, Heard, Text
<1>12. CASE pc' = "refused" /\ UNCHANGED <<recorded, batch>>
  <2>1. ~Reading'
    BY <1>12 DEF Reading
  <2>2. open' \in BOOLEAN /\ stopping' \in BOOLEAN /\ why' \in {"", "stop", "eof", "origin", "client", "cap"}
    BY <1>1, <1>2 DEF ToldTypeOK
  <2>. QED
    BY <1>1, <1>12, <2>1, <2>2, SaidKept
<1>13. CASE pc' = "over"
  <2>1. recorded' = Known \o last /\ batch' = <<>>
    <3>1. CASE batch \o last = <<>> /\ UNCHANGED <<recorded, batch>>
      <4>1. batch = <<>> /\ last = <<>>
        BY <1>3, <1>5, <3>1, ConcatEqualIffEmpty
      <4>2. recorded \o <<>> = recorded
        BY <1>3, ConcatEmptySeq
      <4>3. Known = recorded /\ Known \o last = recorded
        BY <4>1, <4>2 DEF Known
      <4>. QED
        BY <3>1, <4>1, <4>3
    <3>2. CASE recorded' = recorded \o (batch \o last) /\ batch' = <<>>
      <4>1. Cat(Cat(recorded, batch), last) = Cat(recorded, Cat(batch, last))
        BY <1>3, <1>5, CatAssociative
      <4>. QED
        BY <3>2, <4>1 DEF Cat, Known
    <3>. QED
      BY <1>1, <1>13, <3>1, <3>2
  <2>2. Known' = Known \o last
    <3>1. (Known \o last) \o <<>> = Known \o last
      BY <1>8, ConcatEmptySeq
    <3>2. Known' = recorded' \o batch'
      BY DEF Known
    <3>. QED
      BY <2>1, <3>1, <3>2
  <2>3. RecordsOnlyRelayed'
    <3>. DEFINE z == Known \o last
                said == Split(Text).events
    <3>1. \A i \in DOMAIN z : z[i].complete => i \in DOMAIN said /\ z[i] = said[i]
      <4>1. DOMAIN z = 1..(Len(Known) + Len(last))
        BY <1>8, LenProperties
      <4>2. ASSUME NEW i \in 1..(Len(Known) + Len(last)), z[i].complete
            PROVE  i \in DOMAIN said /\ z[i] = said[i]
        <5>1. CASE i <= Len(Known)
          <6>1. i \in 1..Len(Known) /\ z[i] = Known[i]
            BY <1>8, <4>2, <5>1
          <6>. QED
            BY <1>10, <6>1
        <5>2. CASE ~(i <= Len(Known))
          <6>1. i - Len(Known) \in 1..Len(last) /\ z[i] = last[i - Len(Known)]
            BY <1>8, <4>2, <5>2
          <6>. QED
            BY <1>5, <4>2, <6>1
        <5>. QED
          BY <5>1, <5>2
      <4>. HIDE DEF z, said
      <4>. QED
        BY <4>1, <4>2
    <3>2. Known' = z /\ Split(Text').events = said
      BY <1>9, <2>2
    <3>. HIDE DEF z, said
    <3>3. \A i \in DOMAIN Known' : Known'[i].complete =>
             i \in DOMAIN Split(Text').events /\ Known'[i] = Split(Text').events[i]
      BY <3>1, <3>2
    <3>. QED
      BY <3>3, Zenon DEF RecordsOnlyRelayed, Heard, Known, Text
  <2>4. recorded' = Said'
    BY <1>9, <1>11, <2>1
  <2>5. emitted' = Len(Split(Text').events)
    BY <1>1, <1>2, <1>9, <1>10 DEF OnTheWay
  <2>6. AtTheEnd'
    BY <2>3, <2>4, <2>5 DEF AtTheEnd
  <2>7. ToldTypeOK'
    <3>1. <<>> \in Seq(Events(Chars)) /\ Len(<<>>) = 0 /\ BatchSize \in Nat
      BY EmptySeq, SseAssumption
    <3>2. recorded' \in Seq(Events(Chars)) /\ batch' \in Seq(Events(Chars)) /\ Len(batch') <= BatchSize
      BY <1>8, <2>1, <3>1
    <3>. QED
      BY <1>1, <1>2, <1>9, <1>13, <3>2 DEF ToldTypeOK
  <2>8. ~Reading'
    BY <1>13 DEF Reading
  <2>9. why' = "cap" => emitted' >= MaxEvents
    BY <1>1, <1>2
  <2>. QED
    BY <1>9, <1>13, <2>6, <2>7, <2>8, <2>9 DEF SaidInv
<1>. QED
  BY <1>1, <1>12, <1>13

\* Every step.
LEMMA SaidStep ==
  SaidInv /\ ReaderInv /\ ReaderInv' /\ RelayInv /\ [Next]_vars => SaidInv'
<1>. SUFFICES ASSUME SaidInv, ReaderInv, ReaderInv', RelayInv, [Next]_vars PROVE SaidInv'
  OBVIOUS
<1>0. ToldTypeOK /\ open \in BOOLEAN /\ stopping \in BOOLEAN
      /\ why \in {"", "stop", "eof", "origin", "client", "cap"}
  BY DEF SaidInv, ToldTypeOK
<1>1. CASE Read
  BY <1>1, SaidKeptByRead
<1>2. CASE ReadBlock
  BY <1>2, SaidKeptByReadBlock
<1>3. CASE TakeEvent
  BY <1>3, SaidKeptByTakeEvent
<1>4. CASE AppendBatch
  BY <1>4, SaidKeptByAppendBatch
<1>5. CASE Flush
  BY <1>5, SaidKeptByFlush
<1>6. CASE EndLoop \/ BlockDone
  <2>1. UNCHANGED <<msg, head, raw, eof, relayed, cuts, recorded, batch, buffer, emitted, open, stopping>>
    BY <1>6 DEF EndLoop, BlockDone, readerVars, parseVars, stopVars
  <2>2. /\ pc \in {"stream", "parsing"} /\ pc' \in {"stream", "flush"} /\ Boundary(buffer) = 0
        /\ why' = why \/ why' \in {"stop", "eof", "origin", "cap"}
        /\ pc' \in {"flush", "over"} /\ why' = "cap" => emitted >= MaxEvents
    BY <1>6 DEF EndLoop, BlockDone, Leave, SaidInv
  <2>3. ~Reading'
    BY <2>2 DEF Reading
  <2>4. why' \in {"", "stop", "eof", "origin", "client", "cap"}
    BY <1>0, <2>2
  <2>5. pc # "over"
    BY <2>2
  <2>. QED
    BY <1>0, <2>1, <2>2, <2>3, <2>4, <2>5, SaidKept
<1>7. CASE StopListener \/ EndCapture \/ UNCHANGED vars
  <2>1. UNCHANGED <<msg, head, raw, eof, relayed, cuts, recorded, batch, buffer, emitted, pc, why>>
    BY <1>7 DEF StopListener, EndCapture, vars, framingVars, parseVars
  <2>2. open' \in BOOLEAN /\ stopping' \in BOOLEAN
    BY <1>0, <1>7 DEF StopListener, EndCapture, vars, stopVars
  <2>3. Reading' = Reading
    BY <2>1 DEF Reading
  <2>4. /\ pc \in {"stream", "flush"} => Boundary(buffer) = 0
        /\ pc \in {"flush", "over"} /\ why = "cap" => emitted >= MaxEvents
    BY DEF SaidInv
  <2>. QED
    BY <1>0, <2>1, <2>2, <2>3, <2>4, SaidKept
<1>. QED
  BY <1>1, <1>2, <1>3, <1>4, <1>5, <1>6, <1>7 DEF Next, Relay

\* And it holds at first.
LEMMA SaidInitial == ReaderInv /\ Init => SaidInv
<1>. SUFFICES ASSUME ReaderInv, Init PROVE SaidInv
  OBVIOUS
<1>1. /\ relayed = 0 /\ cuts = {} /\ recorded = <<>> /\ batch = <<>> /\ buffer = <<>> /\ emitted = 0
      /\ raw = <<>> /\ eof = FALSE /\ open = TRUE /\ stopping = FALSE /\ why = "" /\ pc = "head"
  BY DEF Init, FramingInit
<1>2. Untold
  BY <1>1 DEF Untold
<1>3. OnTheWay /\ Boundary(buffer) = 0
  BY <1>2, UntoldIsOnTheWay
<1>4. Len(<<>>) = 0 /\ <<>> \in Seq(Events(Chars)) /\ <<>> \in Seq(Chars) /\ BatchSize \in Nat
  BY EmptySeq, SseAssumption
<1>5. ToldTypeOK
  <2>0. PICK z : z = <<>>
    OBVIOUS
  <2>4. Len(z) = 0 /\ z \in Seq(Events(Chars)) /\ z \in Seq(Chars) /\ BatchSize \in Nat
    BY <1>4, <2>0, Zenon
  <2>5. recorded = z /\ batch = z /\ buffer = z /\ raw = z /\ relayed = 0 /\ emitted = 0
    BY <1>1, <2>0, Zenon
  <2>1. relayed \in 0..Len(raw)
    BY <2>4, <2>5
  <2>2. recorded \in Seq(Events(Chars)) /\ batch \in Seq(Events(Chars)) /\ Len(batch) <= BatchSize
        /\ buffer \in Seq(Chars) /\ emitted \in Nat
    BY <2>4, <2>5
  <2>3. pc \in FramingPcs
    BY <1>1 DEF FramingPcs
  <2>. QED
    BY <1>1, <2>1, <2>2, <2>3 DEF ToldTypeOK
<1>6. CutsKnown
  <2>1. head \in Seq(Tokens) /\ msg.wire \in Seq(Tokens)
    BY FramingAssumption DEF ReaderInv, Parts, Tokens
  <2>2. Len(head) \in Nat /\ Len(msg.wire) \in Nat
    BY <2>1, LenProperties
  <2>3. 0 \notin 1..(Len(msg.wire) - Len(head) - 1)
    BY <2>2
  <2>. QED
    BY <1>1, <2>3, Zenon DEF CutsKnown, Inseparable
<1>. QED
  BY <1>1, <1>2, <1>3, <1>5, <1>6 DEF SaidInv

\* The invariant holds for any stream, size of batch and cap, wherever the
\* network cuts the stream.
THEOREM SaidCorrect == Spec => []SaidInv
<1>1. ReaderInv /\ Init => SaidInv
  BY SaidInitial
<1>. QED
  BY <1>1, SaidStep, ReaderCorrect, RelayCorrect, PTL DEF Spec

\* The events recorded are those of the stream as the client was sent it, one for
\* one, wherever the network cuts it; only a cut inside a character or between
\* the characters of a CR LF shows in the text (_relay_sse decodes and normalises
\* each block by itself).
THEOREM RecordsWhatIsSaid == Spec => []RecordsWhatWasSaid
<1>1. ReaderInv /\ MeantInv /\ SaidInv => RecordsWhatWasSaid
  <2>. SUFFICES ASSUME ReaderInv, MeantInv, SaidInv PROVE RecordsWhatWasSaid
    OBVIOUS
  <2>1. TypeOK
    BY DEF ReaderInv, Parts, MeantInv, SaidInv, ToldTypeOK, TypeOK, ReaderTypeOK
  <2>2. RecordsOnlyRelayed
    BY OnTheWayTells DEF SaidInv, AtTheEnd
  <2>3. pc = "over" => recorded = Said
    BY DEF SaidInv, AtTheEnd
  <2>. QED
    BY <2>1, <2>2, <2>3 DEF RecordsWhatWasSaid
<1>. QED
  BY <1>1, ReaderCorrect, MeantCorrect, SaidCorrect, PTL

\* The client is served the whole stream unless it leaves, the origin fails, the
\* capture is stopped or the stream has said as many events as the cap, for any
\* stream, size of batch and cap (_relay_sse).
THEOREM RelaysWhole == Spec => []RelaysToTheEnd
<1>1. SaidInv /\ RelayedWhole => RelaysToTheEnd
  <2>. SUFFICES ASSUME SaidInv, pc = "over", why = "cap" PROVE Len(Heard.events) >= MaxEvents
    BY DEF RelaysToTheEnd, RelayedWhole
  <2>1. emitted = Len(Split(Text).events) /\ emitted >= MaxEvents
    BY DEF SaidInv, AtTheEnd
  <2>. QED
    BY <2>1 DEF Heard, Text
<1>. QED
  BY <1>1, SaidCorrect, RelaysBelowTheCap, PTL
=============================================================================
