---------------------------- MODULE LogTail_proofs ----------------------------
(* Theorems about LogTail and their proofs.                                  *)
EXTENDS LogTail, SequenceTheorems, TLAPS

-----------------------------------------------------------------------------
(* The order of halves: by line, then by half; a frame comes before a half   *)
(* when all that it holds does.                                              *)

Less(g, h)   == g.line < h.line \/ (g.line = h.line /\ g.half < h.half)
Before(f, h) == f.line < h.line \/ (f.line = h.line /\ \A x \in f.halves : x < h.half)

Ascending(s) == \A i, j \in DOMAIN s : i < j => Less(s[i], s[j])

FrameSet == [line : 1..MaxLines, halves : SUBSET {1, 2}]

-----------------------------------------------------------------------------
(* The inductive invariant behind LinesInOrder.                              *)

\* Whatever the application writes next comes after it, when it has begun n lines.
OldHalf(h, n, unended)  == h.line < n \/ (h.line = n /\ (unended => h.half = 1))
OldFrame(f, n, unended) == f.line < n \/ (f.line = n /\ (unended => f.halves \subseteq {1}))

AllOld ==
    /\ \A i \in DOMAIN file : OldHalf(file[i], lines, partial)
    /\ \A i \in DOMAIN data : OldHalf(data[i], lines, partial)
    /\ \A i \in DOMAIN frames : OldFrame(frames[i], lines, partial)

\* Nothing recorded comes after what has been read.
DataIsNew == \A j \in DOMAIN data : \A k \in DOMAIN frames : Before(frames[k], data[j])

\* Nothing recorded or read comes after what is still to be read: the log behind
\* the offset, and all of it when the offset is behind its end, for then it is
\* another log than the one that was read.
UnreadIsNew ==
    \A i \in DOMAIN file : i > pos \/ Len(file) < pos =>
       /\ \A k \in DOMAIN frames : Before(frames[k], file[i])
       /\ \A j \in DOMAIN data : Less(data[j], file[i])

OrderInv ==
    /\ LinesInOrder
    /\ partial => lines >= 1
    /\ Ascending(file) /\ Ascending(data)
    /\ AllOld /\ DataIsNew /\ UnreadIsNew

-----------------------------------------------------------------------------
(* The lines of a text.                                                      *)

\* Of a text in order, splitlines makes one frame for every line from the first
\* to the last, and every half is in the frame of its line and in no other.
LEMMA LinesOfText ==
  ASSUME NEW text \in Seq(Halves), text # <<>>, Ascending(text), NEW L, L = LinesOf(text)
  PROVE  /\ L \in Seq(FrameSet)
         /\ \A k \in DOMAIN L : L[k].line = text[1].line + k - 1
         /\ \A k \in DOMAIN L : L[k].line <= text[Len(text)].line
         /\ \A k \in DOMAIN L : \A x \in L[k].halves :
               \E j \in DOMAIN text : text[j].line = L[k].line /\ text[j].half = x
         /\ \A j \in DOMAIN text :
               \E k \in DOMAIN L : L[k].line = text[j].line /\ text[j].half \in L[k].halves
<1>. DEFINE held(n) == {text[i].half : i \in {j \in DOMAIN text : text[j].line = n}}
            first == text[1].line
            last == text[Len(text)].line
<1>. USE TailAssumption
<1>1. PICK len \in Nat \ {0} : len = Len(text) /\ DOMAIN text = 1..len
  BY LenProperties, EmptySeq
<1>2. \A j \in 1..len : text[j] \in Halves
  BY <1>1, ElementOfSeq
<1>3. \A j \in 1..len : text[j].line \in 1..MaxLines /\ text[j].half \in {1, 2}
  BY <1>2 DEF Halves
<1>4. \A j \in 1..len : first <= text[j].line /\ text[j].line <= last
  BY <1>1, <1>3 DEF Ascending, Less
<1>5. PICK n \in Nat : n = last - first + 1
  BY <1>1, <1>3, <1>4
<1>6. L = [i \in 1..n |-> [line |-> first + i - 1, halves |-> held(first + i - 1)]]
  BY <1>5 DEF LinesOf
<1>7. \A m : held(m) \subseteq {1, 2}
  BY <1>1, <1>3
<1>8. first \in Nat /\ last \in Nat /\ first >= 1 /\ last <= MaxLines
  BY <1>1, <1>3
<1>9. \A i \in 1..n : first + i - 1 \in 1..MaxLines
  BY <1>5, <1>8
<1>. HIDE DEF first, last
<1>10. \A i \in 1..n : [line |-> first + i - 1, halves |-> held(first + i - 1)] \in FrameSet
  BY <1>7, <1>9 DEF FrameSet
<1>11. L \in Seq(FrameSet) /\ DOMAIN L = 1..n
  <2>. HIDE DEF held
  <2>1. L \in [1..n -> FrameSet]
    BY <1>6, <1>10
  <2>2. L \in UNION {[1..k -> FrameSet] : k \in Nat}
    BY <2>1
  <2>3. Seq(FrameSet) = UNION {[1..k -> FrameSet] : k \in Nat}
    BY SeqDef, Zenon
  <2>4. DOMAIN L = 1..n
    BY <2>1
  <2>. QED
    BY <2>2, <2>3, <2>4, Zenon
<1>12. \A k \in 1..n : L[k].line = first + k - 1 /\ L[k].halves = held(first + k - 1)
  BY <1>6
<1>13. \A k \in 1..n : \A x \in L[k].halves :
          \E j \in DOMAIN text : text[j].line = L[k].line /\ text[j].half = x
  BY <1>12
<1>14. ASSUME NEW j \in DOMAIN text
       PROVE  \E k \in 1..n : L[k].line = text[j].line /\ text[j].half \in L[k].halves
  <2>1. text[j].half \in held(text[j].line)
    OBVIOUS
  <2>. HIDE DEF held
  <2>2. text[j].line - first + 1 \in 1..n
    BY <1>1, <1>3, <1>4, <1>5, <1>8
  <2>3. first + (text[j].line - first + 1) - 1 = text[j].line
    BY <1>1, <1>3, <1>8
  <2>. QED
    BY <1>12, <2>1, <2>2, <2>3
<1>15. \A k \in 1..n : L[k].line = text[1].line + k - 1
  BY <1>12 DEF first
<1>. HIDE DEF held
<1>16. DOMAIN L = 1..n
  BY <1>11
<1>17. \A j \in DOMAIN text :
          \E k \in DOMAIN L : L[k].line = text[j].line /\ text[j].half \in L[k].halves
  BY <1>14, <1>16
<1>18. /\ \A k \in DOMAIN L : L[k].line = text[1].line + k - 1
       /\ \A k \in DOMAIN L : \A x \in L[k].halves :
               \E j \in DOMAIN text : text[j].line = L[k].line /\ text[j].half = x
  BY <1>13, <1>15, <1>16, Zenon
<1>19. \A k \in DOMAIN L : L[k].line <= text[Len(text)].line
  <2>1. \A k \in 1..n : L[k].line <= last
    BY <1>5, <1>8, <1>12
  <2>. QED
    BY <1>16, <2>1 DEF last
<1>. QED
  BY <1>11, <1>17, <1>18, <1>19, Zenon

-----------------------------------------------------------------------------
(* The steps of the application.                                             *)

\* The invariant holds at first.
LEMMA OrderInitial == Init => OrderInv
<1>. SUFFICES ASSUME Init PROVE OrderInv
  OBVIOUS
<1>. USE TailAssumption
<1>1. /\ lines \in 0..1 /\ partial \in BOOLEAN /\ (partial => lines = 1)
      /\ pos = Len(file) /\ from = Len(file) /\ data = <<>> /\ frames = <<>>
      /\ exists = TRUE /\ rotations = 0 /\ regrown = FALSE /\ stopping = FALSE /\ pc = "poll"
  BY DEF Init
<1>2. /\ file \in Seq(Halves) /\ Len(file) \in Nat
      /\ \A i \in DOMAIN file : file[i].line = 1 /\ lines = 1 /\ (partial => file[i].half = 1)
      /\ Ascending(file)
  <2>1. CASE lines = 0
    <3>1. file = <<>>
      BY <2>1 DEF Init
    <3>. QED
      BY <3>1, EmptySeq DEF Ascending
  <2>2. CASE lines # 0 /\ partial
    <3>1. file = <<Half(1, 1)>>
      BY <2>2 DEF Init
    <3>. QED
      BY <1>1, <2>2, <3>1 DEF Ascending, Half, Halves
  <2>3. CASE lines # 0 /\ ~partial
    <3>1. file = <<Half(1, 1), Half(1, 2)>>
      BY <2>3 DEF Init
    <3>. QED
      BY <1>1, <2>3, <3>1 DEF Ascending, Half, Halves, Less
  <2>. QED
    BY <2>1, <2>2, <2>3
<1>3. <<>> \in Seq(Halves) /\ <<>> \in Seq(FrameSet) /\ DOMAIN <<>> = {}
  BY EmptySeq
<1>4. TypeOK
  <2>1. lines \in 0..MaxLines /\ rotations \in 0..MaxRotations /\ from \in 0..Len(file) /\ pos \in Nat
    BY <1>1, <1>2
  <2>. QED
    BY <1>1, <1>2, <1>3, <2>1 DEF TypeOK, FrameSet
<1>5. \A i \in DOMAIN file : OldHalf(file[i], lines, partial)
  BY <1>2 DEF OldHalf
<1>. QED
  BY <1>1, <1>2, <1>3, <1>4, <1>5
  DEF OrderInv, LinesInOrder, Ascending, AllOld, DataIsNew, UnreadIsNew

\* A write: the halves it adds come after all that there is.
LEMMA WriteStep == ASSUME OrderInv, Write PROVE OrderInv'
<1>. USE TailAssumption
<1>1. PICK new \in {<<Half(lines, 2)>>, <<Half(lines + 1, 1)>>,
                    <<Half(lines + 1, 1), Half(lines + 1, 2)>>} :
          /\ partial <=> new = <<Half(lines, 2)>>
          /\ new[1].line <= MaxLines
          /\ file' = file \o new
          /\ lines' = new[1].line
          /\ partial' = (new[Len(new)].half = 1)
  BY DEF Write
<1>2. /\ UNCHANGED <<exists, rotations, regrown, from, stopping, pos, data, frames, pc>>
      /\ exists
  BY DEF Write, tailVars
<1>3. /\ TypeOK /\ lines \in Nat /\ (partial => lines >= 1) /\ partial \in BOOLEAN
      /\ file \in Seq(Halves) /\ data \in Seq(Halves) /\ frames \in Seq(FrameSet) /\ pos \in Nat
  BY DEF OrderInv, LinesInOrder, TypeOK, FrameSet
<1>4. /\ lines' \in 1..MaxLines /\ lines <= lines' /\ partial' \in BOOLEAN
      /\ new \in Seq(Halves) /\ Len(new) \in 1..2 /\ DOMAIN new = 1..Len(new)
      /\ \A i \in DOMAIN new : new[i].line = lines' /\ (partial' => new[i].half = 1)
      /\ Ascending(new)
      /\ lines' = lines => partial /\ ~partial'
      /\ lines' = lines => \A i \in DOMAIN new : new[i].half = 2
  <2>1. CASE partial
    <3>1. new = <<Half(lines, 2)>>
      BY <1>1, <2>1
    <3>2. /\ Len(new) = 1 /\ DOMAIN new = {1}
          /\ new[1] = Half(lines, 2) /\ new[1].line = lines /\ new[1].half = 2
      BY <3>1 DEF Half
    <3>3. lines' = lines /\ lines \in 1..MaxLines /\ ~partial' /\ partial' \in BOOLEAN
      <4>1. lines' = lines /\ lines <= MaxLines
        BY <1>1, <3>2
      <4>2. lines \in 1..MaxLines
        BY <1>3, <2>1, <4>1
      <4>3. ~partial' /\ partial' \in BOOLEAN
        <5>1. (new[Len(new)].half = 1) = FALSE
          BY <3>2
        <5>2. partial' = FALSE
          BY <1>1, <5>1, Zenon
        <5>. QED
          BY <5>2
      <4>. QED
        BY <4>1, <4>2, <4>3
    <3>4. new \in Seq(Halves)
      BY <3>1, <3>3 DEF Half, Halves
    <3>. QED
      <4>1. \A i \in DOMAIN new : new[i].line = lines' /\ new[i].half = 2
        BY <3>2, <3>3
      <4>2. Ascending(new)
        BY <3>2 DEF Ascending
      <4>. QED
        BY <1>3, <2>1, <3>2, <3>3, <3>4, <4>1, <4>2
  <2>2. CASE new = <<Half(lines + 1, 1)>> /\ ~partial
    BY <1>1, <1>3, <2>2 DEF Half, Halves, Ascending
  <2>3. CASE new = <<Half(lines + 1, 1), Half(lines + 1, 2)>> /\ ~partial
    BY <1>1, <1>3, <2>3 DEF Half, Halves, Ascending, Less
  <2>. QED
    BY <1>1, <1>3, <2>1, <2>2, <2>3
<1>5. PICK n \in Nat : n = Len(file) /\ DOMAIN file = 1..n
  BY <1>3, LenProperties
<1>6. PICK m \in 1..2 : m = Len(new) /\ DOMAIN new = 1..m
  BY <1>4
<1>7. /\ file' \in Seq(Halves) /\ Len(file') = n + m
      /\ \A i \in 1..(n + m) : file'[i] = IF i <= n THEN file[i] ELSE new[i - n]
  BY <1>1, <1>3, <1>4, <1>5, <1>6, ConcatProperties
<1>8. DOMAIN file' = 1..(n + m)
  BY <1>7, LenProperties
<1>9. \A i \in 1..(n + m) : i \notin 1..n => i - n \in 1..m /\ file'[i] = new[i - n] /\ i > n
  BY <1>7
<1>10. \A i \in 1..n : i \in 1..(n + m) /\ file'[i] = file[i]
  BY <1>7
<1>11. ASSUME NEW h \in Halves, OldHalf(h, lines, partial)
       PROVE  OldHalf(h, lines', partial') /\ \A i \in 1..m : Less(h, new[i])
  <2>1. h.line \in Nat /\ h.half \in Nat
    BY DEF Halves
  <2>2. CASE h.line < lines
    BY <1>3, <1>4, <1>6, <2>1, <2>2 DEF OldHalf, Less
  <2>3. CASE h.line = lines /\ (partial => h.half = 1)
    BY <1>3, <1>4, <1>6, <2>1, <2>3 DEF OldHalf, Less
  <2>. QED
    BY <1>11, <2>2, <2>3 DEF OldHalf
<1>12. ASSUME NEW f \in FrameSet, OldFrame(f, lines, partial)
       PROVE  OldFrame(f, lines', partial') /\ \A i \in 1..m : Before(f, new[i])
  <2>1. f.line \in Nat /\ f.halves \subseteq {1, 2}
    BY DEF FrameSet
  <2>2. CASE f.line < lines
    <3>1. f.line < lines'
      BY <1>3, <1>4, <2>1, <2>2
    <3>2. \A i \in 1..m : new[i].line = lines'
      BY <1>4, <1>6
    <3>. QED
      BY <3>1, <3>2 DEF OldFrame, Before
  <2>3. CASE f.line = lines /\ (partial => f.halves \subseteq {1})
    <3>1. CASE lines' = lines
      <4>1. partial /\ ~partial' /\ f.halves \subseteq {1} /\ f.line = lines'
        BY <1>4, <2>3, <3>1
      <4>2. \A i \in 1..m : new[i].line = lines' /\ new[i].half = 2
        BY <1>4, <1>6, <3>1
      <4>. QED
        BY <4>1, <4>2 DEF OldFrame, Before
    <3>2. CASE lines' # lines
      BY <1>3, <1>4, <1>6, <2>1, <2>3, <3>2 DEF OldFrame, Before
    <3>. QED
      BY <3>1, <3>2
  <2>. QED
    BY <1>12, <2>2, <2>3 DEF OldFrame
<1>13. \A i \in 1..n : file[i] \in Halves /\ OldHalf(file[i], lines, partial)
  BY <1>3, <1>5, ElementOfSeq DEF OrderInv, AllOld
<1>14. \A k \in DOMAIN frames : frames[k] \in FrameSet /\ OldFrame(frames[k], lines, partial)
  BY <1>3, ElementOfSeq, LenProperties DEF OrderInv, AllOld
<1>15. \A j \in DOMAIN data : data[j] \in Halves /\ OldHalf(data[j], lines, partial)
  BY <1>3, ElementOfSeq, LenProperties DEF OrderInv, AllOld
<1>16. Ascending(file')
  <2>. SUFFICES ASSUME NEW i \in 1..(n + m), NEW j \in 1..(n + m), i < j
                PROVE  Less(file'[i], file'[j])
    BY <1>8 DEF Ascending
  <2>1. CASE j \in 1..n
    <3>1. i \in 1..n /\ Less(file[i], file[j])
      BY <1>5, <2>1 DEF OrderInv, Ascending
    <3>. QED
      BY <1>10, <2>1, <3>1
  <2>2. CASE i \in 1..n /\ j \notin 1..n
    BY <1>9, <1>10, <1>11, <1>13, <2>2
  <2>3. CASE i \notin 1..n /\ j \notin 1..n
    <3>1. i - n \in 1..m /\ j - n \in 1..m /\ i - n < j - n
      BY <1>9, <2>3
    <3>2. Less(new[i - n], new[j - n])
      BY <1>4, <1>6, <3>1 DEF Ascending
    <3>. QED
      BY <1>9, <2>3, <3>2
  <2>. QED
    BY <2>1, <2>2, <2>3
<1>17. AllOld'
  <2>1. ASSUME NEW i \in 1..(n + m) PROVE OldHalf(file'[i], lines', partial')
    <3>1. CASE i \in 1..n
      BY <1>10, <1>11, <1>13, <3>1
    <3>2. CASE i \notin 1..n
      BY <1>4, <1>6, <1>9, <3>2 DEF OldHalf
    <3>. QED
      BY <3>1, <3>2
  <2>2. \A k \in DOMAIN frames : OldFrame(frames[k], lines', partial')
    BY <1>12, <1>14
  <2>3. \A j \in DOMAIN data : OldHalf(data[j], lines', partial')
    BY <1>11, <1>15
  <2>. QED
    BY <1>2, <1>8, <2>1, <2>2, <2>3 DEF AllOld
<1>18. UnreadIsNew'
  <2>. SUFFICES ASSUME NEW i \in 1..(n + m), i > pos \/ n + m < pos
                PROVE  /\ \A k \in DOMAIN frames : Before(frames[k], file'[i])
                       /\ \A j \in DOMAIN data : Less(data[j], file'[i])
    BY <1>2, <1>7, <1>8 DEF UnreadIsNew
  <2>1. CASE i \in 1..n
    <3>1. i > pos \/ n < pos
      BY <1>3
    <3>2. /\ \A k \in DOMAIN frames : Before(frames[k], file[i])
          /\ \A j \in DOMAIN data : Less(data[j], file[i])
      BY <1>5, <2>1, <3>1 DEF OrderInv, UnreadIsNew
    <3>. QED
      BY <1>10, <2>1, <3>2
  <2>2. CASE i \notin 1..n
    BY <1>9, <1>11, <1>12, <1>14, <1>15, <2>2
  <2>. QED
    BY <2>1, <2>2
<1>19. TypeOK'
  <2>1. from \in 0..n
    BY <1>3, <1>5 DEF TypeOK
  <2>2. from \in 0..(n + m) /\ lines' \in 0..MaxLines
    BY <1>4, <2>1
  <2>. QED
    BY <1>2, <1>3, <1>4, <1>7, <2>2 DEF TypeOK
<1>20. DataIsNew' /\ Ascending(data') /\ LinesInOrder'
  BY <1>2, <1>19 DEF OrderInv, DataIsNew, LinesInOrder
<1>. QED
  BY <1>4, <1>16, <1>17, <1>18, <1>20 DEF OrderInv

\* A log that is emptied has nothing unread.
LEMMA RotateStep == ASSUME OrderInv, Rotate PROVE OrderInv'
<1>1. /\ UNCHANGED <<lines, stopping, pos, data, frames, pc>>
      /\ file' = <<>> /\ partial' = FALSE /\ from' = 0 /\ regrown' = TRUE /\ exists' \in BOOLEAN
      /\ rotations' = rotations + 1 /\ rotations < MaxRotations
  BY DEF Rotate, tailVars
<1>2. <<>> \in Seq(Halves) /\ DOMAIN <<>> = {} /\ Len(<<>>) = 0
  BY EmptySeq
<1>3. TypeOK'
  <2>1. TypeOK
    BY DEF OrderInv, LinesInOrder
  <2>2. rotations + 1 \in 0..MaxRotations
    BY <1>1, <2>1, TailAssumption DEF TypeOK
  <2>3. from' \in 0..Len(file')
    BY <1>1, <1>2
  <2>. QED
    BY <1>1, <1>2, <2>1, <2>2, <2>3 DEF TypeOK
<1>4. LinesInOrder'
  BY <1>1, <1>3 DEF OrderInv, LinesInOrder
<1>5. AllOld'
  BY <1>1, <1>2 DEF OrderInv, AllOld, OldHalf, OldFrame
<1>6. Ascending(file') /\ Ascending(data') /\ DataIsNew' /\ UnreadIsNew'
  BY <1>1, <1>2 DEF OrderInv, Ascending, DataIsNew, UnreadIsNew
<1>. QED
  BY <1>1, <1>4, <1>5, <1>6 DEF OrderInv

-----------------------------------------------------------------------------
(* The steps of the thread.                                                  *)

\* A poll that finds the offset behind the end of the log starts it again.
LEMMA PollStep == ASSUME OrderInv, Poll PROVE OrderInv'
<1>1. /\ UNCHANGED <<file, exists, lines, partial, rotations, data, frames, from, stopping>>
      /\ pos' = pos \/ (Len(file) < pos /\ pos' = 0)
      /\ regrown' \in {regrown, FALSE} /\ pc' \in {"poll", "open", "ended"}
  BY DEF Poll, appVars
<1>2. TypeOK' /\ LinesInOrder'
  <2>1. TypeOK
    BY DEF OrderInv, LinesInOrder
  <2>2. pos' \in Nat
    BY <1>1, <2>1 DEF TypeOK
  <2>3. regrown' \in BOOLEAN
    BY <1>1, <2>1 DEF TypeOK
  <2>4. TypeOK'
    BY <1>1, <2>1, <2>2, <2>3 DEF TypeOK
  <2>. QED
    BY <1>1, <2>4 DEF OrderInv, LinesInOrder
<1>3. file \in Seq(Halves) /\ pos \in Nat /\ DOMAIN file = 1..Len(file) /\ Len(file) \in Nat
  BY LenProperties DEF OrderInv, LinesInOrder, TypeOK
<1>4. UnreadIsNew'
  BY <1>1, <1>3 DEF OrderInv, UnreadIsNew
<1>. QED
  BY <1>1, <1>2, <1>4 DEF OrderInv, AllOld, DataIsNew

\* What is read is what the invariant calls unread.
LEMMA ReadStep == ASSUME OrderInv, Read PROVE OrderInv'
<1>1. /\ UNCHANGED <<file, exists, lines, partial, rotations, frames, regrown, from, stopping>>
      /\ data' = SubSeq(file, pos + 1, Len(file))
      /\ pos' = IF Len(file) > pos THEN Len(file) ELSE pos
      /\ pc' = "append"
  BY DEF Read, appVars
<1>2. file \in Seq(Halves) /\ pos \in Nat
  BY DEF OrderInv, LinesInOrder, TypeOK
<1>3. PICK n \in Nat : n = Len(file) /\ DOMAIN file = 1..n
  BY <1>2, LenProperties
<1>4. \A i \in 1..n : file[i] \in Halves
  BY <1>2, <1>3, ElementOfSeq
<1>5. /\ data' \in Seq(Halves)
      /\ \A j \in DOMAIN data' : pos + j \in 1..n /\ data'[j] = file[pos + j] /\ pos + j > pos
      /\ DOMAIN data' \subseteq Nat
  <2>1. CASE pos < n
    <3>1. \A i \in (pos + 1)..n : file[i] \in Halves
      BY <1>2, <1>4
    <3>2. data' \in Seq(Halves) /\ Len(data') = n - pos
      BY <1>1, <1>2, <1>3, <2>1, <3>1, SubSeqProperties
    <3>3. DOMAIN data' = 1..(n - pos)
      BY <3>2, LenProperties
    <3>4. \A j \in 1..(n - pos) : data'[j] = file[pos + j]
      BY <1>1, <1>2, <1>3, <2>1
    <3>. QED
      BY <1>2, <2>1, <3>2, <3>3, <3>4
  <2>2. CASE ~ (pos < n)
    <3>1. data' = <<>>
      BY <1>1, <1>2, <1>3, <2>2, SubSeqEmpty
    <3>. QED
      BY <3>1, EmptySeq
  <2>. QED
    BY <2>1, <2>2
<1>6. pos' \in Nat /\ pos' = (IF n > pos THEN n ELSE pos)
  BY <1>1, <1>2, <1>3
<1>7. TypeOK' /\ LinesInOrder'
  BY <1>1, <1>5, <1>6 DEF OrderInv, LinesInOrder, TypeOK
<1>8. Ascending(data')
  BY <1>2, <1>3, <1>5 DEF OrderInv, Ascending
<1>9. AllOld'
  BY <1>1, <1>3, <1>5 DEF OrderInv, AllOld
<1>10. DataIsNew'
  <2>1. \A j \in DOMAIN data' : \A k \in DOMAIN frames : Before(frames[k], data'[j])
    BY <1>3, <1>5 DEF OrderInv, UnreadIsNew
  <2>. QED
    BY <1>1, <2>1 DEF DataIsNew
<1>11. UnreadIsNew'
  <2>. SUFFICES ASSUME NEW i \in 1..n, i > pos' \/ n < pos'
                PROVE  /\ \A k \in DOMAIN frames : Before(frames[k], file[i])
                       /\ \A j \in DOMAIN data' : Less(data'[j], file[i])
    BY <1>1, <1>3 DEF UnreadIsNew
  <2>1. n < pos /\ DOMAIN data' = {}
    BY <1>2, <1>5, <1>6
  <2>2. \A k \in DOMAIN frames : Before(frames[k], file[i])
    BY <1>3, <2>1 DEF OrderInv, UnreadIsNew
  <2>. QED
    BY <2>1, <2>2
<1>. QED
  BY <1>1, <1>7, <1>8, <1>9, <1>10, <1>11 DEF OrderInv
\* The lines of what was read come after the frames that are there.
LEMMA LinesAppended ==
  ASSUME OrderInv, data # <<>>, frames' = frames \o LinesOf(data), data' = <<>>,
         UNCHANGED <<appVars, pos, regrown, from, stopping>>, pc' = "poll"
  PROVE  OrderInv'
<1>. DEFINE L == LinesOf(data)
<1>1. /\ TypeOK /\ data \in Seq(Halves) /\ frames \in Seq(FrameSet) /\ file \in Seq(Halves)
      /\ lines \in Nat
  BY DEF OrderInv, LinesInOrder, TypeOK, FrameSet
<1>2. PICK d \in Nat \ {0} : d = Len(data) /\ DOMAIN data = 1..d
  BY <1>1, LenProperties, EmptySeq
<1>3. \A j \in 1..d : data[j].line \in Nat /\ data[j].half \in Nat
  <2>1. \A j \in 1..d : data[j] \in Halves
    BY <1>1, <1>2, ElementOfSeq
  <2>. QED
    BY <2>1 DEF Halves
<1>4. /\ L \in Seq(FrameSet)
      /\ \A k \in DOMAIN L : L[k].line = data[1].line + k - 1
      /\ \A k \in DOMAIN L : L[k].line <= data[d].line
      /\ \A k \in DOMAIN L : \A x \in L[k].halves :
            \E j \in 1..d : data[j].line = L[k].line /\ data[j].half = x
  <2>1. L = LinesOf(data) /\ Ascending(data)
    BY DEF OrderInv
  <2>. HIDE DEF L
  <2>. QED
    <3>1. /\ L \in Seq(FrameSet)
          /\ \A k \in DOMAIN L : L[k].line = data[1].line + k - 1
          /\ \A k \in DOMAIN L : L[k].line <= data[Len(data)].line
          /\ \A k \in DOMAIN L : \A x \in L[k].halves :
                \E j \in DOMAIN data : data[j].line = L[k].line /\ data[j].half = x
      <4>1. data \in Seq(Halves) /\ data # <<>> /\ Ascending(data) /\ L = LinesOf(data)
        BY <1>1, <2>1
      <4>. QED
        BY ONLY <4>1, LinesOfText
    <3>2. d = Len(data) /\ DOMAIN data = 1..d
      BY <1>2
    <3>. QED
      BY ONLY <3>1, <3>2
<1>. HIDE DEF L
<1>5. PICK n \in Nat : n = Len(frames) /\ DOMAIN frames = 1..n
  BY <1>1, LenProperties
<1>6. PICK m \in Nat : m = Len(L) /\ DOMAIN L = 1..m
  BY <1>4, LenProperties
<1>7. frames' = frames \o L
  BY DEF L
<1>8. /\ frames' \in Seq(FrameSet) /\ Len(frames') = n + m
      /\ \A i \in 1..(n + m) : frames'[i] = IF i <= n THEN frames[i] ELSE L[i - n]
  BY <1>1, <1>4, <1>5, <1>6, <1>7, ConcatProperties
<1>9. DOMAIN frames' = 1..(n + m)
  BY <1>8, LenProperties
<1>10. /\ \A i \in 1..n : i \in 1..(n + m) /\ frames'[i] = frames[i]
       /\ \A i \in 1..(n + m) : i \notin 1..n => i - n \in 1..m /\ frames'[i] = L[i - n]
  <2>1. /\ \A i \in 1..n : i \in 1..(n + m) /\ i <= n
        /\ \A i \in 1..(n + m) : i \notin 1..n => i - n \in 1..m /\ ~(i <= n)
    OBVIOUS
  <2>. QED
    BY ONLY <1>8, <2>1
<1>11. \A k \in 1..m : L[k].line \in Nat /\ L[k].line >= data[1].line /\ L[k].line <= data[d].line
                       /\ L[k].halves \subseteq Nat
  <2>1. \A k \in 1..m : L[k] \in FrameSet
    BY <1>4, <1>6, ElementOfSeq
  <2>2. \A k \in 1..m : L[k].line \in Nat /\ L[k].halves \subseteq Nat
    BY <2>1, TailAssumption DEF FrameSet
  <2>3. \A k \in 1..m : L[k].line = data[1].line + k - 1 /\ L[k].line <= data[d].line
    BY <1>4, <1>6
  <2>4. data[1].line \in Nat
    BY <1>2, <1>3
  <2>. QED
    BY <2>2, <2>3, <2>4
<1>12. \A i \in 1..n : frames[i].line \in Nat /\ frames[i].halves \subseteq Nat
  <2>1. \A i \in 1..n : frames[i] \in FrameSet
    BY <1>1, <1>5, ElementOfSeq
  <2>. QED
    BY <2>1, TailAssumption DEF FrameSet
<1>13. UNCHANGED <<file, exists, lines, partial, rotations, pos, regrown, from, stopping>>
  BY DEF appVars
<1>14. TypeOK'
  BY <1>1, <1>8, <1>13, EmptySeq DEF TypeOK, FrameSet
<1>15. ASSUME NEW i \in 1..(n + m), NEW j \in 1..(n + m), i < j
       PROVE  \/ frames'[i].line < frames'[j].line
              \/ /\ frames'[i].line = frames'[j].line
                 /\ frames'[i].halves \cap frames'[j].halves = {}
  <2>1. CASE j \in 1..n
    <3>1. i \in 1..n
      BY <1>15, <2>1
    <3>2. frames'[i] = frames[i] /\ frames'[j] = frames[j]
      BY <1>10, <2>1, <3>1
    <3>. QED
      BY <1>5, <1>15, <2>1, <3>1, <3>2 DEF OrderInv, LinesInOrder
  <2>2. CASE i \notin 1..n /\ j \notin 1..n
    <3>1. /\ i - n \in 1..m /\ j - n \in 1..m
          /\ frames'[i] = L[i - n] /\ frames'[j] = L[j - n]
      BY <1>10, <2>2
    <3>2. L[i - n].line = data[1].line + (i - n) - 1 /\ L[j - n].line = data[1].line + (j - n) - 1
      BY <1>4, <1>6, <3>1
    <3>. QED
      BY <1>2, <1>3, <1>15, <3>1, <3>2
  <2>3. CASE i \in 1..n /\ j \notin 1..n
    <3>. DEFINE f == frames[i]
                g == L[j - n]
    <3>1. frames'[i] = f /\ frames'[j] = g /\ j - n \in 1..m
      BY <1>10, <2>3
    <3>2. \A k \in 1..d : Before(f, data[k])
      BY <1>2, <1>5, <2>3 DEF OrderInv, DataIsNew
    <3>3. f.line <= data[1].line /\ data[1].line <= g.line
      BY <1>2, <1>3, <1>11, <1>12, <2>3, <3>1, <3>2 DEF Before
    <3>4. f.line \in Nat /\ g.line \in Nat /\ data[1].line \in Nat
      BY <1>2, <1>3, <1>11, <1>12, <2>3, <3>1
    <3>5. ASSUME f.line = g.line, NEW x \in f.halves, x \in g.halves PROVE FALSE
      <4>1. PICK k \in 1..d : data[k].line = g.line /\ data[k].half = x
        BY <1>4, <1>6, <3>1, <3>5
      <4>2. x < data[k].half
        BY <1>3, <3>2, <3>4, <3>5, <4>1 DEF Before
      <4>. QED
        BY <1>3, <4>1, <4>2
    <3>. HIDE DEF f, g
    <3>. QED
      BY <3>1, <3>3, <3>4, <3>5
  <2>. QED
    BY <1>15, <2>1, <2>2, <2>3
<1>16. LinesInOrder'
  BY <1>9, <1>14, <1>15 DEF LinesInOrder
<1>17. ASSUME NEW k \in 1..m PROVE OldFrame(L[k], lines, partial)
  <2>1. OldHalf(data[d], lines, partial) /\ \A j \in 1..d : OldHalf(data[j], lines, partial)
    BY <1>2 DEF OrderInv, AllOld
  <2>2. L[k].line <= lines
    BY <1>1, <1>2, <1>3, <1>11, <2>1 DEF OldHalf
  <2>3. ASSUME L[k].line = lines, partial, NEW x \in L[k].halves PROVE x = 1
    <3>1. PICK j \in 1..d : data[j].line = L[k].line /\ data[j].half = x
      BY <1>4, <1>6
    <3>. QED
      BY <1>1, <1>3, <2>1, <2>3, <3>1 DEF OldHalf
  <2>. QED
    BY <1>1, <1>11, <2>2, <2>3 DEF OldFrame
<1>18. AllOld'
  <2>1. \A i \in 1..n : OldFrame(frames[i], lines, partial)
    BY <1>5 DEF OrderInv, AllOld
  <2>2. \A i \in 1..(n + m) : OldFrame(frames'[i], lines, partial)
    BY <1>10, <1>17, <2>1
  <2>3. DOMAIN data' = {}
    BY EmptySeq
  <2>. QED
    BY <1>9, <1>13, <2>2, <2>3 DEF OrderInv, AllOld
<1>19. ASSUME NEW i \in DOMAIN file, i > pos \/ Len(file) < pos, NEW k \in 1..m
       PROVE  Before(L[k], file[i])
  <2>1. \A j \in 1..d : Less(data[j], file[i])
    BY <1>2, <1>19 DEF OrderInv, UnreadIsNew
  <2>2. file[i].line \in Nat /\ file[i].half \in Nat
    <3>1. file[i] \in Halves
      BY <1>1, ElementOfSeq, LenProperties
    <3>. QED
      BY <3>1 DEF Halves
  <2>3. L[k].line <= file[i].line
    BY <1>2, <1>3, <1>11, <2>1, <2>2 DEF Less
  <2>4. ASSUME L[k].line = file[i].line, NEW x \in L[k].halves PROVE x < file[i].half
    <3>1. PICK j \in 1..d : data[j].line = L[k].line /\ data[j].half = x
      BY <1>4, <1>6
    <3>2. Less(data[j], file[i])
      BY <2>1
    <3>. QED
      BY <1>3, <2>2, <2>4, <3>1, <3>2 DEF Less
  <2>. QED
    BY <1>11, <2>2, <2>3, <2>4 DEF Before
<1>20. UnreadIsNew'
  <2>1. \A i \in DOMAIN file : i > pos \/ Len(file) < pos =>
          \A k \in 1..n : Before(frames[k], file[i])
    BY <1>5 DEF OrderInv, UnreadIsNew
  <2>2. \A i \in DOMAIN file : i > pos \/ Len(file) < pos =>
          \A k \in 1..(n + m) : Before(frames'[k], file[i])
    BY <1>10, <1>19, <2>1
  <2>3. DOMAIN data' = {}
    BY EmptySeq
  <2>. QED
    BY <1>9, <1>13, <2>2, <2>3 DEF UnreadIsNew
<1>21. Ascending(data') /\ DataIsNew'
  <2>1. DOMAIN data' = {}
    BY EmptySeq
  <2>. QED
    BY <2>1 DEF Ascending, DataIsNew
<1>. QED
  BY <1>13, <1>16, <1>18, <1>20, <1>21 DEF OrderInv

\* The append of what was read, or its failure.
LEMMA AppendLinesStep == ASSUME OrderInv, AppendLines PROVE OrderInv'
<1>1. CASE data # <<>> /\ frames' = frames \o LinesOf(data) /\ pc' = "poll"
  BY <1>1, LinesAppended DEF AppendLines
<1>2. CASE frames' = frames
  <2>1. /\ UNCHANGED <<file, exists, lines, partial, rotations, pos, regrown, from, stopping, frames>>
        /\ data' = <<>> /\ pc' \in {"poll", "ended"}
    BY <1>2 DEF AppendLines, appVars
  <2>2. <<>> \in Seq(Halves) /\ DOMAIN <<>> = {}
    BY EmptySeq
  <2>3. TypeOK' /\ LinesInOrder'
    BY <2>1, <2>2 DEF OrderInv, LinesInOrder, TypeOK
  <2>4. AllOld' /\ Ascending(file') /\ Ascending(data') /\ DataIsNew' /\ UnreadIsNew'
    BY <2>1, <2>2 DEF OrderInv, AllOld, Ascending, DataIsNew, UnreadIsNew
  <2>. QED
    BY <2>1, <2>3, <2>4 DEF OrderInv
<1>3. CASE data = <<>> /\ frames' = frames \o LinesOf(data)
  <2>1. LinesOf(<<>>) = <<>>
    BY DEF LinesOf
  <2>2. frames \in Seq(FrameSet)
    BY DEF OrderInv, LinesInOrder, TypeOK, FrameSet
  <2>3. frames' = frames
    BY <1>3, <2>1, <2>2, ConcatEmptySeq
  <2>. QED
    BY <1>2, <2>3
<1>. QED
  BY <1>1, <1>2, <1>3 DEF AppendLines

\* The steps that change neither the log nor what has been read of it.
LEMMA OrderKept ==
  ASSUME OrderInv, Recreate \/ ReadFails \/ Stop \/ UNCHANGED vars
  PROVE  OrderInv'
<1>1. /\ UNCHANGED <<file, lines, partial, rotations, pos, data, frames, from, regrown>>
      /\ TypeOK'
  BY DEF OrderInv, LinesInOrder, TypeOK, Recreate, ReadFails, Stop, vars, appVars, tailVars
<1>2. LinesInOrder'
  BY <1>1 DEF OrderInv, LinesInOrder
<1>3. AllOld' /\ Ascending(file') /\ Ascending(data') /\ DataIsNew' /\ UnreadIsNew'
  BY <1>1 DEF OrderInv, AllOld, Ascending, DataIsNew, UnreadIsNew
<1>. QED
  BY <1>1, <1>2, <1>3 DEF OrderInv

\* The invariant holds for any number of lines and rotations.
THEOREM OrderCorrect == Spec => []OrderInv
<1>1. OrderInv /\ [Next]_vars => OrderInv'
  BY WriteStep, RotateStep, PollStep, ReadStep, AppendLinesStep, OrderKept DEF Next, Follow
<1>. QED
  BY <1>1, OrderInitial, PTL DEF Spec

\* No line is recorded twice and none out of order, whatever rotation falls
\* between the stat, the open and the read of one poll (LogTailListener).
THEOREM LinesStayInOrder == Spec => []LinesInOrder
<1>1. OrderInv => LinesInOrder
  BY DEF OrderInv
<1>. QED
  BY <1>1, OrderCorrect, PTL
-----------------------------------------------------------------------------
(* The inductive invariant behind CaughtUpIsComplete: what lies before the   *)
(* offset, in a log that is not shorter, has been recorded or read.          *)

Covered(h, fs, d) ==
    \/ \E k \in DOMAIN fs : fs[k].line = h.line /\ h.half \in fs[k].halves
    \/ \E j \in DOMAIN d : d[j] = h

CoverInv ==
    /\ pc # "append" => data = <<>>
    /\ ~regrown => pos <= Len(file)
    /\ pc # "ended" /\ pos <= Len(file) =>
          \A i \in (from + 1)..pos : Covered(file[i], frames, data)

\* A write leaves what lies before the offset, and does not bring a new log
\* behind the offset of the old one.
LEMMA CoverKeptByWrite ==
  ASSUME OrderInv, CoverInv, Write, ~QuickRegrowth
  PROVE  CoverInv'
<1>1. /\ file \in Seq(Halves) /\ pos \in Nat /\ from \in 0..Len(file) /\ Len(file) \in Nat
      /\ lines \in Nat /\ regrown \in BOOLEAN
  BY LenProperties DEF OrderInv, LinesInOrder, TypeOK
<1>2. UNCHANGED <<pos, data, frames, pc, from, regrown>>
  BY DEF Write, tailVars
<1>3. PICK new \in {<<Half(lines, 2)>>, <<Half(lines + 1, 1)>>,
                    <<Half(lines + 1, 1), Half(lines + 1, 2)>>} :
          /\ file' = file \o new
          /\ regrown => pos = 0 \/ Len(file) + Len(new) < pos
  BY DEF Write
<1>4. PICK m \in 1..2 : m = Len(new)
  BY <1>3
<1>5. PICK n \in Nat : n = Len(file) /\ DOMAIN file = 1..n
  BY <1>1, LenProperties
<1>6. new \in Seq([line : Nat, half : {1, 2}]) /\ file \in Seq([line : Nat, half : {1, 2}])
  <2>1. Halves \subseteq [line : Nat, half : {1, 2}]
    BY TailAssumption DEF Halves
  <2>2. file \in Seq([line : Nat, half : {1, 2}])
    BY <1>1, <2>1, SeqMonotonic
  <2>. QED
    <3>1. Half(lines, 2) \in [line : Nat, half : {1, 2}]
          /\ Half(lines + 1, 1) \in [line : Nat, half : {1, 2}]
          /\ Half(lines + 1, 2) \in [line : Nat, half : {1, 2}]
      BY <1>1 DEF Half
    <3>2. CASE new = <<Half(lines, 2)>>
      BY <2>2, <3>1, <3>2
    <3>3. CASE new = <<Half(lines + 1, 1)>>
      BY <2>2, <3>1, <3>3
    <3>4. CASE new = <<Half(lines + 1, 1), Half(lines + 1, 2)>>
      BY <2>2, <3>1, <3>4
    <3>. QED
      BY <1>3, <3>2, <3>3, <3>4
<1>7. Len(file') = n + m /\ \A i \in 1..n : file'[i] = file[i]
  <2>1. Len(file') = n + m
    BY <1>3, <1>4, <1>5, <1>6, ConcatProperties
  <2>2. \A i \in 1..(n + m) : file'[i] = IF i <= n THEN file[i] ELSE new[i - n]
    BY <1>3, <1>4, <1>5, <1>6, ConcatProperties
  <2>. QED
    BY <2>1, <2>2
<1>8. pos <= n + m => pos <= n
  BY <1>1, <1>3, <1>4, <1>5 DEF CoverInv
<1>9. ~regrown => pos <= n + m
  BY <1>1, <1>5 DEF CoverInv
<1>10. ASSUME pc # "ended", pos <= n + m, NEW i \in (from + 1)..pos
       PROVE  Covered(file'[i], frames, data)
  <2>1. i \in 1..n
    BY <1>1, <1>5, <1>8, <1>10
  <2>2. Covered(file[i], frames, data)
    BY <1>5, <1>8, <1>10 DEF CoverInv
  <2>. QED
    BY <1>7, <2>1, <2>2
<1>. QED
  BY <1>2, <1>7, <1>9, <1>10 DEF CoverInv

\* What is read is the rest of the log.
LEMMA CoverKeptByRead ==
  ASSUME OrderInv, CoverInv, Read
  PROVE  CoverInv'
<1>1. /\ file \in Seq(Halves) /\ pos \in Nat /\ from \in 0..Len(file) /\ Len(file) \in Nat
  BY LenProperties DEF OrderInv, LinesInOrder, TypeOK
<1>2. PICK n \in Nat : n = Len(file) /\ DOMAIN file = 1..n
  BY <1>1, LenProperties
<1>3. /\ UNCHANGED <<file, frames, from, regrown>>
      /\ data' = SubSeq(file, pos + 1, n)
      /\ pos' = IF n > pos THEN n ELSE pos
      /\ pc = "open" /\ pc' = "append"
  BY <1>2 DEF Read, appVars
<1>4. data = <<>>
  BY <1>3 DEF CoverInv
<1>5. CASE ~ (n > pos)
  <2>1. pos' = pos
    BY <1>3, <1>5
  <2>2. \A h : Covered(h, frames, data) => Covered(h, frames, data')
    BY <1>4 DEF Covered
  <2>3. pos <= n => \A i \in (from + 1)..pos : Covered(file[i], frames, data)
    BY <1>2, <1>3 DEF CoverInv
  <2>. QED
    BY <1>2, <1>3, <2>1, <2>2, <2>3 DEF CoverInv
<1>6. CASE n > pos
  <2>1. pos' = n
    BY <1>3, <1>6
  <2>2. data' \in Seq(Halves) /\ Len(data') = n - pos
    <3>1. \A i \in (pos + 1)..n : file[i] \in Halves
      BY <1>1, <1>2, ElementOfSeq
    <3>. QED
      BY <1>1, <1>2, <1>3, <1>6, <3>1, SubSeqProperties
  <2>3. DOMAIN data' = 1..(n - pos)
    BY <2>2, LenProperties
  <2>4. \A j \in 1..(n - pos) : data'[j] = file[pos + j]
    BY <1>1, <1>2, <1>3, <1>6
  <2>5. \A i \in (from + 1)..pos : Covered(file[i], frames, data)
    BY <1>1, <1>2, <1>3, <1>6 DEF CoverInv
  <2>6. ASSUME NEW i \in (from + 1)..n PROVE Covered(file[i], frames, data')
    <3>1. CASE i <= pos
      <4>1. Covered(file[i], frames, data)
        BY <1>1, <2>5, <2>6, <3>1
      <4>. QED
        BY <1>4, <4>1 DEF Covered
    <3>2. CASE ~ (i <= pos)
      <4>1. i - pos \in 1..(n - pos) /\ pos + (i - pos) = i
        BY <1>1, <1>2, <2>6, <3>2
      <4>. QED
        BY <2>3, <2>4, <4>1 DEF Covered
    <3>. QED
      BY <3>1, <3>2
  <2>. QED
    BY <1>2, <1>3, <2>1, <2>6 DEF CoverInv
<1>. QED
  BY <1>5, <1>6

\* What was read becomes frames, unless the thread ends.
LEMMA CoverKeptByAppend ==
  ASSUME OrderInv, CoverInv, AppendLines
  PROVE  CoverInv'
<1>1. /\ UNCHANGED <<file, pos, from, regrown>>
      /\ data' = <<>> /\ pc = "append"
  BY DEF AppendLines, appVars
<1>2. CASE pc' = "ended"
  BY <1>1, <1>2 DEF CoverInv
<1>3. CASE frames' = frames \o LinesOf(data) /\ pc' = "poll"
  <2>. DEFINE L == LinesOf(data)
  <2>1. data \in Seq(Halves) /\ frames \in Seq(FrameSet) /\ Ascending(data)
    BY DEF OrderInv, LinesInOrder, TypeOK, FrameSet
  <2>2. L \in Seq(FrameSet)
        /\ \A j \in DOMAIN data :
              \E k \in DOMAIN L : L[k].line = data[j].line /\ data[j].half \in L[k].halves
    <3>1. CASE data = <<>>
      <4>1. L = <<>>
        BY <3>1 DEF LinesOf
      <4>. QED
        <5>1. <<>> \in Seq(FrameSet) /\ DOMAIN <<>> = {}
          BY EmptySeq
        <5>. HIDE DEF L
        <5>. QED
          BY <3>1, <4>1, <5>1
    <3>2. CASE data # <<>>
      <4>1. L = LinesOf(data)
        OBVIOUS
      <4>. HIDE DEF L
      <4>. QED
        BY ONLY <2>1, <3>2, <4>1, LinesOfText
    <3>. QED
      BY <3>1, <3>2
  <2>3. frames' = frames \o L
    BY <1>3
  <2>. HIDE DEF L
  <2>4. PICK n \in Nat : n = Len(frames) /\ DOMAIN frames = 1..n
    BY <2>1, LenProperties
  <2>5. PICK m \in Nat : m = Len(L) /\ DOMAIN L = 1..m
    BY <2>2, LenProperties
  <2>6. /\ frames' \in Seq(FrameSet) /\ Len(frames') = n + m
        /\ \A i \in 1..(n + m) : frames'[i] = IF i <= n THEN frames[i] ELSE L[i - n]
    BY <2>1, <2>2, <2>3, <2>4, <2>5, ConcatProperties
  <2>7. DOMAIN frames' = 1..(n + m)
    BY <2>6, LenProperties
  <2>8. /\ \A k \in 1..n : k \in 1..(n + m) /\ frames'[k] = frames[k]
        /\ \A k \in 1..m : n + k \in 1..(n + m) /\ frames'[n + k] = L[k]
    <3>1. \A k \in 1..m : n + k \in 1..(n + m) /\ ~ (n + k <= n) /\ (n + k) - n = k
      OBVIOUS
    <3>. QED
      BY <2>6, <3>1
  <2>9. ASSUME NEW h, Covered(h, frames, data) PROVE Covered(h, frames', data')
    <3>1. CASE \E k \in DOMAIN frames : frames[k].line = h.line /\ h.half \in frames[k].halves
      BY <2>4, <2>7, <2>8, <3>1 DEF Covered
    <3>2. CASE \E j \in DOMAIN data : data[j] = h
      <4>1. PICK k \in 1..m : L[k].line = h.line /\ h.half \in L[k].halves
        BY <2>2, <2>5, <3>2
      <4>. QED
        BY <2>7, <2>8, <4>1 DEF Covered
    <3>. QED
      BY <2>9, <3>1, <3>2 DEF Covered
  <2>10. pos <= Len(file) => \A i \in (from + 1)..pos : Covered(file[i], frames, data)
    BY <1>1 DEF CoverInv
  <2>. QED
    BY <1>1, <1>3, <2>9, <2>10 DEF CoverInv
<1>. QED
  BY <1>2, <1>3 DEF AppendLines

\* Every other step leaves what is covered, or begins a log anew.
LEMMA CoverKept ==
  ASSUME OrderInv, CoverInv, Rotate \/ Poll \/ Recreate \/ ReadFails \/ Stop \/ UNCHANGED vars
  PROVE  CoverInv'
<1>1. pos \in Nat /\ from \in 0..Len(file) /\ Len(file) \in Nat
  BY LenProperties DEF OrderInv, LinesInOrder, TypeOK
<1>2. CASE Rotate
  <2>1. file' = <<>> /\ from' = 0 /\ regrown' = TRUE /\ UNCHANGED <<pos, data, frames, pc>>
    BY <1>2 DEF Rotate, tailVars
  <2>2. Len(file') = 0
    BY <2>1
  <2>. QED
    BY <1>1, <2>1, <2>2 DEF CoverInv
<1>3. CASE Poll
  <2>1. /\ UNCHANGED <<file, from, data, frames>> /\ pc = "poll" /\ pc' # "append"
        /\ \/ regrown' = regrown /\ pos' = pos
           \/ regrown' = FALSE /\ pos' = (IF Len(file) < pos THEN 0 ELSE pos)
    BY <1>3 DEF Poll, appVars
  <2>2. CASE pos' = pos /\ (regrown' = regrown \/ ~ (Len(file) < pos))
    BY <1>1, <2>1, <2>2 DEF CoverInv
  <2>3. CASE pos' = 0
    BY <1>1, <2>1, <2>3 DEF CoverInv
  <2>. QED
    BY <1>1, <2>1, <2>2, <2>3
<1>4. CASE Recreate \/ ReadFails \/ Stop \/ UNCHANGED vars
  <2>1. /\ UNCHANGED <<file, from, data, frames, pos, regrown>>
        /\ pc' = pc \/ (pc = "open" /\ pc' = "poll")
    BY <1>4 DEF Recreate, ReadFails, Stop, vars, appVars, tailVars
  <2>. QED
    BY <2>1 DEF CoverInv
<1>. QED
  BY <1>2, <1>3, <1>4

\* Rotation and truncation are handled (log_tail.py): a tail at the end of its
\* log has recorded all that was written to it since the capture began, for any
\* number of lines and rotations, unless a new log outgrows the old offset
\* between two polls.
THEOREM NothingIsSkipped ==
  ASSUME ~QuickRegrowth
  PROVE  Spec => []CaughtUpIsComplete
<1>1. Init => CoverInv
  <2>. SUFFICES ASSUME Init PROVE CoverInv
    OBVIOUS
  <2>1. pos = Len(file) /\ from = Len(file) /\ data = <<>> /\ pc = "poll"
    BY DEF Init
  <2>2. Len(file) \in Nat
    BY OrderInitial, LenProperties DEF OrderInv, LinesInOrder, TypeOK
  <2>. QED
    BY <2>1, <2>2 DEF CoverInv
<1>2. OrderInv /\ CoverInv /\ [Next]_vars => CoverInv'
  BY CoverKeptByWrite, CoverKeptByRead, CoverKeptByAppend, CoverKept DEF Next, Follow
<1>3. OrderInv /\ CoverInv => CaughtUpIsComplete
  <2>. SUFFICES ASSUME OrderInv, CoverInv, pc = "poll", pos = Len(file),
                       NEW i \in (from + 1)..Len(file)
                PROVE  InFrames(file[i])
    BY DEF CaughtUpIsComplete
  <2>1. Len(file) \in Nat /\ data = <<>>
    BY LenProperties DEF OrderInv, LinesInOrder, TypeOK, CoverInv
  <2>2. Covered(file[i], frames, data)
    BY <2>1 DEF CoverInv
  <2>. QED
    BY <2>1, <2>2 DEF Covered, InFrames
<1>. QED
  BY <1>1, <1>2, <1>3, OrderCorrect, PTL DEF Spec
=============================================================================
