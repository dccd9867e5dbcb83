-------------------------- MODULE CaptureStore_proofs --------------------------
(* Theorems about CaptureStore and their proofs.                             *)
EXTENDS CaptureStore, SequenceTheorems, TLAPS

(* What SubSeq keeps of a buffer of capture_seq numbers. *)
LEMMA SubSeqOfNat ==
  ASSUME NEW s \in Seq(Nat), NEW m \in {1, 2}, NEW j \in 0..Len(s)
  PROVE  SubSeq(s, m, j) \in Seq(Nat)
<1>1. \A i \in m..j : s[i] \in Nat
  OBVIOUS
<1>. QED
  BY <1>1, SubSeqProperties

(* The values the actions build have their types. *)
LEMMA ValuesTyped ==
  /\ \A st \in {"absent", "open", "ended"}, n \in Nat : Record(st, n) \in Records
  /\ Absent \in Records
  /\ \A r \in Records : [r EXCEPT !.st = "ended"] \in Records
  /\ \A pc \in {"none", "running", "dead"} : Thread(pc) \in Threads
  /\ \A pc \in {"load", "idle", "starting", "listen", "ingest", "join", "seal", "sealing",
               "annotating"}, c \in Captures \cup {None} : Tool(pc, c) \in Tools
  /\ Idle \in Tools
<1>1. \A st \in {"absent", "open", "ended"}, n \in Nat : Record(st, n) \in Records
  BY DEF Record, Records
<1>2. Absent \in Records
  BY <1>1 DEF Absent
<1>ended. \A r \in Records : [r EXCEPT !.st = "ended"] \in Records
  BY DEF Records
<1>3. \A pc \in {"none", "running", "dead"} : Thread(pc) \in Threads
  <2>1. <<>> \in Seq(Nat) /\ 0 \in Nat /\ FALSE \in BOOLEAN
    OBVIOUS
  <2>. QED
    BY <2>1, Zenon DEF Thread, Threads
<1>4. \A pc \in {"load", "idle", "starting", "listen", "ingest", "join", "seal", "sealing",
               "annotating"}, c \in Captures \cup {None} : Tool(pc, c) \in Tools
  BY <1>2, Zenon DEF Tool, Tools
<1>. QED
  BY <1>1, <1>2, <1>3, <1>4, <1>ended DEF Idle

(* Every step keeps the type of every variable. *)
LEMMA TypeStep == TypeOK /\ [Next]_vars => TypeOK'
<1>. USE BoundsAssumption, NoneAssumption
<1> SUFFICES ASSUME TypeOK, [Next]_vars PROVE TypeOK'
  OBVIOUS
<1>. USE DEF TypeOK, saveVars, diskVars, fileVars, foreignVars, bookVars
<1>buf. \A c \in Captures : th[c].buf \in Seq(Nat)
  BY DEF Threads
\* Memory changes and is handed to a save.
<1>save. ASSUME NEW pc \in {"starting", "sealing", "annotating"}, NEW c \in Captures,
                HandlerSaves(pc, c)
         PROVE  /\ lock' \in Captures \cup {Handler, None} /\ save' \in {None, "replace", "stat"}
                /\ tool' \in Tools
  BY <1>save, ValuesTyped DEF HandlerSaves
<1>1. ASSUME NEW c \in Captures, StartCapture(c) PROVE TypeOK'
  <2>1. mem' \in [Captures -> Records]
    BY <1>1, ValuesTyped DEF StartCapture
  <2>. QED
    BY <1>1, <1>save, <2>1 DEF StartCapture
<1>2. ASSUME NEW c \in Captures, StartListener(c) PROVE TypeOK'
  <2>1. th' \in [Captures -> Threads]
    BY <1>2, ValuesTyped DEF StartListener
  <2>2. tool' \in Tools /\ listeners' \subseteq Captures
    BY <1>2, ValuesTyped DEF StartListener
  <2>. QED
    BY <1>2, <2>1, <2>2 DEF StartListener
<1>3. ASSUME NEW c \in Captures, IngestDone(c) PROVE TypeOK'
  BY <1>3, ValuesTyped DEF IngestDone
<1>4. ASSUME NEW c \in Captures, Stop(c) PROVE TypeOK'
  BY <1>4, ValuesTyped DEF Stop
<1>5. ASSUME NEW c \in Captures, JoinReturns(c) PROVE TypeOK'
  BY <1>5, ValuesTyped DEF JoinReturns
<1>6. ASSUME NEW c \in Captures, Seal(c) PROVE TypeOK'
  <2>1. mem' \in [Captures -> Records] /\ stopped' \subseteq Captures
    <3>1. mem' = mem \/ mem' = [mem EXCEPT ![c] = [mem[c] EXCEPT !.st = "ended"]]
      BY <1>6, Zenon DEF Seal
    <3>2. mem[c] \in Records /\ [mem[c] EXCEPT !.st = "ended"] \in Records
      BY ValuesTyped
    <3>3. PICK r \in Records : mem' = mem \/ mem' = [mem EXCEPT ![c] = r]
      BY <3>1, <3>2, Zenon
    <3>4. stopped' \subseteq Captures
      BY <1>6 DEF Seal
    <3>5. mem \in [Captures -> Records]
      OBVIOUS
    <3>6. mem' \in [Captures -> Records]
      BY ONLY <3>3, <3>5
    <3>. QED
      BY <3>4, <3>6
  <2>2. /\ lock' \in Captures \cup {Handler, None} /\ save' \in {None, "replace", "stat"}
        /\ tool' \in Tools
    BY <1>6, <1>save, ValuesTyped DEF Seal
  <2>. QED
    BY <1>6, <2>1, <2>2 DEF Seal
<1>7. ASSUME NEW c \in Captures, AnnotateRead(c) PROVE TypeOK'
  BY <1>7 DEF AnnotateRead, Tools
<1>8. ASSUME NEW c \in Captures, AnnotateWrite(c) PROVE TypeOK'
  <2>1. tool.copy \in Records
    BY DEF Tools
  <2>. QED
    BY <1>8, <1>save, <2>1 DEF AnnotateWrite
<1>9. ASSUME NEW c \in Captures, Poll(c) PROVE TypeOK'
  BY <1>9 DEF Poll, Threads
<1>10. ASSUME NEW c \in Captures, ThreadExits(c) PROVE TypeOK'
  BY <1>10, ValuesTyped DEF ThreadExits
<1>raise. ASSUME NEW c \in Captures, Raise(c)
          PROVE  th' \in [Captures -> Threads] /\ tool' \in Tools
  <2>1. \A pc \in {"running", "dead"} : [th EXCEPT ![c] = Thread(pc)] \in [Captures -> Threads]
    BY ValuesTyped
  <2>2. th' \in [Captures -> Threads]
    BY <1>raise, <2>1 DEF Raise
  <2>3. tool' \in Tools
    BY <1>raise, ValuesTyped DEF Raise
  <2>. QED
    BY <2>2, <2>3
<1>11. ASSUME NEW c \in Captures, SourceFails(c) PROVE TypeOK'
  BY <1>11, <1>raise DEF SourceFails
<1>12. ASSUME NEW c \in Captures, AppendRefused(c) PROVE TypeOK'
  BY <1>12, <1>raise DEF AppendRefused
<1>13. ASSUME NEW c \in Captures, AppendOpens(c) PROVE TypeOK'
  BY <1>13 DEF AppendOpens, Threads
<1>14. ASSUME NEW c \in Captures, WriteFrame(c) PROVE TypeOK'
  <2>1. th[c] \in Threads /\ mem[c] \in Records
    OBVIOUS
  <2>2. mem[c].count \in Nat /\ mem[c].count + 1 \in Nat
    BY <2>1 DEF Records
  <2>3. th[c].left - 1 \in Nat /\ Append(th[c].buf, mem[c].count) \in Seq(Nat)
    BY <1>14, <2>1, <2>2, AppendProperties DEF WriteFrame, Threads
  <2>4. mem' \in [Captures -> Records]
    <3>1. [mem[c] EXCEPT !.count = mem[c].count + 1] \in Records
      BY <2>1, <2>2, Zenon DEF Records
    <3>2. mem' = [mem EXCEPT ![c] = [mem[c] EXCEPT !.count = mem[c].count + 1]]
      BY <1>14, Zenon DEF WriteFrame
    <3>. QED
      BY <3>1, <3>2
  <2>5. [th[c] EXCEPT !.left = th[c].left - 1, !.buf = Append(th[c].buf, mem[c].count)] \in Threads
    BY <2>1, <2>3, Zenon DEF Threads
  <2>6. th' = [th EXCEPT ![c] = [th[c] EXCEPT !.left = th[c].left - 1,
                                             !.buf = Append(th[c].buf, mem[c].count)]]
    BY <1>14, Zenon DEF WriteFrame
  <2>. QED
    BY <1>14, <2>4, <2>5, <2>6 DEF WriteFrame
<1>lands. ASSUME NEW c \in Captures, NEW j \in 0..Len(th[c].buf), NEW tears \in BOOLEAN, 
                 Lands(c, j, tears)
          PROVE  manifest' \in [Captures -> Seq(Nat)] /\ torn' \in [Captures -> BOOLEAN]
  <2>1. th[c].buf \in Seq(Nat)
    BY DEF Threads
  <2>2. SubSeq(th[c].buf, IF torn[c] THEN 2 ELSE 1, j) \in Seq(Nat)
    BY <2>1, SubSeqOfNat
  <2>. QED
    BY <2>2, <1>lands DEF Lands
<1>15. ASSUME NEW c \in Captures, Sync(c) PROVE TypeOK'
  <2>1. Len(th[c].buf) \in 0..Len(th[c].buf)
    BY <1>buf
  <2>2. [th EXCEPT ![c] = [th[c] EXCEPT !.pc = "synced"]] \in [Captures -> Threads]
    <3>1. th[c] \in Threads
      OBVIOUS
    <3>2. [th[c] EXCEPT !.pc = "synced"] \in Threads
      BY ONLY <3>1 DEF Threads
    <3>. QED
      BY <3>2
  <2>. QED
    BY <1>15, <2>1, <2>2, <1>lands DEF Sync
<1>16. ASSUME NEW c \in Captures, WriteFails(c) PROVE TypeOK'
  <2>1. Len(th[c].buf) \in 0..Len(th[c].buf)
    BY <1>buf
  <2>2. manifest' \in [Captures -> Seq(Nat)] /\ torn' \in [Captures -> BOOLEAN]
    <3>1. \E j \in 0..Len(th[c].buf), tears \in BOOLEAN : Lands(c, j, tears)
      BY <1>16, <2>1 DEF WriteFails
    <3>. QED
      BY <3>1, <1>lands
  <2>3. th' \in [Captures -> Threads] /\ tool' \in Tools
    BY <1>16, <1>raise DEF WriteFails
  <2>. QED
    BY <1>16, <2>2, <2>3 DEF WriteFails
<1>saved. ASSUME Saved \/ SaveFails
          PROVE  lock' = None /\ save' = None /\ sig' \in {"none", "current", "old"}
  BY <1>saved DEF Saved, SaveFails
<1>17. ASSUME NEW c \in Captures, AppendSaves(c) PROVE TypeOK'
  BY <1>17, <1>raise DEF AppendSaves
<1>18. ASSUME NEW c \in Captures, AppendReturns(c) PROVE TypeOK'
  <2>1. Len(th[c].buf) \in Nat
    BY <1>buf
  <2>2. th' \in [Captures -> Threads] /\ tool' \in Tools
    <3>1. \A pc \in {"running", "dead"} : [th EXCEPT ![c] = Thread(pc)] \in [Captures -> Threads]
      BY ValuesTyped
    <3>. QED
      BY <1>18, <1>raise, <3>1 DEF AppendReturns
  <2>3. acked' \in [Captures -> Nat]
    <3>1. acked' = acked \/ acked' = [acked EXCEPT ![c] = acked[c] + Len(th[c].buf)]
      BY <1>18, Zenon DEF AppendReturns
    <3>2. acked[c] \in Nat /\ acked[c] + Len(th[c].buf) \in Nat
      BY <2>1
    <3>. QED
      BY <3>1, <3>2
  <2>. QED
    BY <1>18, <1>saved, <2>2, <2>3 DEF AppendReturns
<1>19. ASSUME NEW c \in Captures, HandlerReturns(c) PROVE TypeOK'
  <2>1. tool' \in Tools
    BY <1>19, ValuesTyped DEF HandlerReturns
  <2>. QED
    BY <1>19, <1>saved, <2>1 DEF HandlerReturns
<1>20. CASE Replace
  BY <1>20 DEF Replace, Outdated
<1>21. ASSUME NEW o \in Others, OtherLoads(o) PROVE TypeOK'
  BY <1>21 DEF OtherLoads
<1>22. ASSUME NEW o \in Others, OtherSaves(o) PROVE TypeOK'
  <2>1. theirs' \in [Others -> [Captures -> Records]]
    <3>1. PICK ends \in SUBSET Captures :
             theirs' = [theirs EXCEPT ![o] =
                          [c \in Captures |-> IF c \in ends THEN [@[c] EXCEPT !.st = "ended"]
                                                            ELSE @[c]]]
      BY <1>22 DEF OtherSaves
    <3>2. \A c \in Captures : theirs[o][c] \in Records /\ [theirs[o][c] EXCEPT !.st = "ended"] \in Records
      BY ValuesTyped
    <3>. QED
      BY <3>1, <3>2
  <2>2. kb' \in [Captures -> Records]
    BY <1>22, <2>1 DEF OtherSaves
  <2>3. sig' \in {"none", "current", "old"} /\ dropped' \subseteq Captures /\ met' \in BOOLEAN
        /\ exists' \in BOOLEAN
    BY <1>22, Zenon DEF OtherSaves, Outdated
  <2>. QED
    BY <1>22, <2>1, <2>2, <2>3 DEF OtherSaves
<1>23. CASE CrashRestart
  <2>1. manifest' \in [Captures -> Seq(Nat)] /\ torn' \in [Captures -> BOOLEAN]
    BY <1>23, <1>lands DEF CrashRestart
  <2>2. th' \in [Captures -> Threads] /\ tool' \in Tools
    BY <1>23, ValuesTyped DEF CrashRestart
  <2>3. mem' \in [Captures -> Records] /\ kb' \in [Captures -> Records]
    <3>1. mem' = kb /\ kb' = kb
      BY <1>23 DEF CrashRestart
    <3>. QED
      BY <3>1
  <2>4. crashes' \in Nat
    BY <1>23 DEF CrashRestart
  <2>. QED
    BY <1>23, <2>1, <2>2, <2>3, <2>4 DEF CrashRestart
<1>24. CASE LoadSig
  BY <1>24, ValuesTyped DEF LoadSig
<1>25. CASE UNCHANGED vars
  BY <1>25 DEF vars
<1>. QED
  BY <1>1, <1>2, <1>3, <1>4, <1>5, <1>6, <1>7, <1>8, <1>9, <1>10, <1>11, <1>12, <1>13, <1>14,
     <1>15, <1>16, <1>17, <1>18, <1>19, <1>20, <1>21, <1>22, <1>23, <1>24, <1>25
  DEF Next, ToolStep, ListenerStep

\* The initial store is well typed.
LEMMA TypeInit == Init => TypeOK
<1> SUFFICES ASSUME Init PROVE TypeOK
  OBVIOUS
<1>. USE BoundsAssumption, NoneAssumption
<1>1. mem \in [Captures -> Records] /\ kb \in [Captures -> Records]
  BY ValuesTyped DEF Init
<1>2. tool \in Tools /\ th \in [Captures -> Threads]
  BY ValuesTyped DEF Init
<1>3. manifest \in [Captures -> Seq(Nat)] /\ acked \in [Captures -> Nat]
  BY DEF Init
<1>. QED
  BY <1>1, <1>2, <1>3 DEF Init, TypeOK

(* Every variable keeps its type: the theorem for TypeOK of the runs. *)
THEOREM TypeCorrect == Spec => []TypeOK
  BY TypeInit, TypeStep, PTL DEF Spec

(* An exception leaves the thread of c running or dead, and no other thread
   notices. *)
LEMMA RaiseEffect ==
  ASSUME TypeOK, NEW c \in Captures, Raise(c)
  PROVE  /\ th'[c].pc \in {"running", "dead"} /\ th'[c].buf = <<>>
         /\ \A d \in Captures \ {c} : th'[d] = th[d]
<1>1. PICK pc \in {"running", "dead"} : th' = [th EXCEPT ![c] = Thread(pc)]
  BY DEF Raise
<1>. QED
  BY <1>1 DEF TypeOK, Thread

(* SafetyInv is inductive. *)
LEMMA SafetyInductive == SafetyInv /\ [Next]_vars => SafetyInv'
<1> SUFFICES ASSUME SafetyInv, [Next]_vars PROVE SafetyInv'
  OBVIOUS
<1>. USE NoneAssumption DEF saveVars, diskVars, fileVars, foreignVars, bookVars
<1>h. Handler # None /\ "replace" # None /\ "stat" # None
  BY DEF Handler, None
<1>. USE <1>h
<1>t. TypeOK /\ TypeOK'
  BY TypeStep DEF SafetyInv
<1>1. ASSUME NEW c \in Captures, StartCapture(c) PROVE SafetyInv'
  <2>1. th' = th
    BY <1>1 DEF StartCapture, HandlerSaves, Passes
  <2>2. mem'[c].st = "open" /\ \A d \in Captures \ {c} : mem'[d] = mem[d]
    BY <1>1, <1>t DEF StartCapture, HandlerSaves, Passes, TypeOK, Record
  <2>3. kb' = kb
    BY <1>1 DEF StartCapture, HandlerSaves, Passes
  <2>4. manifest' = manifest
    BY <1>1 DEF StartCapture, HandlerSaves, Passes
  <2>5. LockHeldByWriter'
    BY <1>1, <2>1, <2>2 DEF StartCapture, HandlerSaves, Passes, SafetyInv, LockHeldByWriter, Tool, Idle
  <2>6. (stopped \subseteq used)'
    BY <1>1 DEF StartCapture, HandlerSaves, Passes, SafetyInv, RecordsPrecede
  <2>7. StoppedIsClosed'
    BY <1>1, <1>t, <2>1, <2>2 DEF StartCapture, HandlerSaves, Passes, SafetyInv, StoppedIsClosed, HandlerKnows, RecordsPrecede, TypeOK, Tool
  <2>8. HandlerKnows'
    BY <1>1, <2>1, <2>2, <2>3 DEF StartCapture, HandlerSaves, Passes, SafetyInv, HandlerKnows, RecordsPrecede, Tool, Idle
  <2>9. RecordsPrecede'
    BY <1>1, <2>1, <2>2, <2>3, <2>4 DEF StartCapture, HandlerSaves, Passes, SafetyInv, RecordsPrecede
  <2>10. ForeignEndRefuses'
    BY <1>1, <2>2, <2>3 DEF StartCapture, HandlerSaves, Passes, SafetyInv, ForeignEndRefuses, RecordsPrecede
  <2>. QED
    BY <1>t, <2>5, <2>6, <2>7, <2>8, <2>9, <2>10 DEF SafetyInv
<1>2. ASSUME NEW c \in Captures, StartListener(c) PROVE SafetyInv'
  <2>1. /\ th'[c].pc \in {"running", "none"} /\ th[c].pc = "none"
        /\ \A d \in Captures \ {c} : th'[d] = th[d]
    <3>1. th[c].pc = "none"
      BY <1>2 DEF StartListener, SafetyInv, HandlerKnows, Tool
    <3>2. th' = th \/ th' = [th EXCEPT ![c] = Thread("running")]
      BY <1>2 DEF StartListener
    <3>. QED
      BY <1>t, <3>1, <3>2 DEF TypeOK, Thread
  <2>2. mem' = mem
    BY <1>2 DEF StartListener
  <2>3. kb' = kb
    BY <1>2 DEF StartListener
  <2>4. manifest' = manifest
    BY <1>2 DEF StartListener
  <2>5. LockHeldByWriter'
    BY <1>2, <2>1, <2>2 DEF StartListener, SafetyInv, LockHeldByWriter, Tool, Idle
  <2>6. (stopped \subseteq used)'
    BY <1>2 DEF StartListener, SafetyInv, RecordsPrecede
  <2>7. StoppedIsClosed'
    BY <1>2, <1>t, <2>1, <2>2 DEF StartListener, SafetyInv, StoppedIsClosed, HandlerKnows, RecordsPrecede, TypeOK, Tool
  <2>8. HandlerKnows'
    BY <1>2, <2>1, <2>2, <2>3 DEF StartListener, SafetyInv, HandlerKnows, RecordsPrecede, Tool, Idle
  <2>9. RecordsPrecede'
    BY <1>2, <2>1, <2>2, <2>3, <2>4 DEF StartListener, SafetyInv, RecordsPrecede, HandlerKnows, Tool
  <2>10. ForeignEndRefuses'
    BY <1>2, <2>2, <2>3 DEF StartListener, SafetyInv, ForeignEndRefuses
  <2>. QED
    BY <1>t, <2>5, <2>6, <2>7, <2>8, <2>9, <2>10 DEF SafetyInv
<1>3. ASSUME NEW c \in Captures, IngestDone(c) PROVE SafetyInv'
  <2>1. /\ th'[c].pc \in {"dead"}
        /\ \A d \in Captures \ {c} : th'[d] = th[d]
    BY <1>3, <1>t DEF IngestDone, Thread, TypeOK, Threads
  <2>2. mem' = mem
    BY <1>3 DEF IngestDone
  <2>3. kb' = kb
    BY <1>3 DEF IngestDone
  <2>4. manifest' = manifest
    BY <1>3 DEF IngestDone
  <2>5. LockHeldByWriter'
    BY <1>3, <2>1, <2>2 DEF IngestDone, SafetyInv, LockHeldByWriter, Tool, Idle
  <2>6. (stopped \subseteq used)'
    BY <1>3 DEF IngestDone, SafetyInv, RecordsPrecede
  <2>7. StoppedIsClosed'
    BY <1>3, <1>t, <2>1, <2>2 DEF IngestDone, SafetyInv, StoppedIsClosed, HandlerKnows, RecordsPrecede, TypeOK, Tool
  <2>8. HandlerKnows'
    BY <1>3, <2>1, <2>2, <2>3 DEF IngestDone, SafetyInv, HandlerKnows, RecordsPrecede, Tool
  <2>9. RecordsPrecede'
    BY <1>3, <2>1, <2>2, <2>3, <2>4 DEF IngestDone, SafetyInv, RecordsPrecede, HandlerKnows, Tool
  <2>10. ForeignEndRefuses'
    BY <1>3, <2>2, <2>3 DEF IngestDone, SafetyInv, ForeignEndRefuses
  <2>. QED
    BY <1>t, <2>5, <2>6, <2>7, <2>8, <2>9, <2>10 DEF SafetyInv
<1>4. ASSUME NEW c \in Captures, Stop(c) PROVE SafetyInv'
  <2>1. th' = th
    BY <1>4 DEF Stop
  <2>2. mem' = mem
    BY <1>4 DEF Stop
  <2>3. kb' = kb
    BY <1>4 DEF Stop
  <2>4. manifest' = manifest
    BY <1>4 DEF Stop
  <2>5. LockHeldByWriter'
    BY <1>4, <2>1, <2>2 DEF Stop, SafetyInv, LockHeldByWriter, Tool, Idle
  <2>6. (stopped \subseteq used)'
    BY <1>4 DEF Stop, SafetyInv, RecordsPrecede
  <2>7. StoppedIsClosed'
    BY <1>4, <1>t, <2>1, <2>2 DEF Stop, SafetyInv, StoppedIsClosed, HandlerKnows, RecordsPrecede, TypeOK, Tool
  <2>8. HandlerKnows'
    BY <1>4, <2>1, <2>2, <2>3 DEF Stop, SafetyInv, HandlerKnows, RecordsPrecede, Tool, Idle
  <2>9. RecordsPrecede'
    BY <1>4, <2>1, <2>2, <2>3, <2>4 DEF Stop, SafetyInv, RecordsPrecede, HandlerKnows, Tool
  <2>10. ForeignEndRefuses'
    BY <1>4, <2>2, <2>3 DEF Stop, SafetyInv, ForeignEndRefuses
  <2>. QED
    BY <1>t, <2>5, <2>6, <2>7, <2>8, <2>9, <2>10 DEF SafetyInv
<1>5. ASSUME NEW c \in Captures, JoinReturns(c) PROVE SafetyInv'
  <2>1. th' = th
    BY <1>5 DEF JoinReturns
  <2>2. mem' = mem
    BY <1>5 DEF JoinReturns
  <2>3. kb' = kb
    BY <1>5 DEF JoinReturns
  <2>4. manifest' = manifest
    BY <1>5 DEF JoinReturns
  <2>5. LockHeldByWriter'
    BY <1>5, <2>1, <2>2 DEF JoinReturns, SafetyInv, LockHeldByWriter, Tool, Idle
  <2>6. (stopped \subseteq used)'
    BY <1>5 DEF JoinReturns, SafetyInv, RecordsPrecede
  <2>7. StoppedIsClosed'
    BY <1>5, <1>t, <2>1, <2>2 DEF JoinReturns, SafetyInv, StoppedIsClosed, HandlerKnows, RecordsPrecede, TypeOK, Tool
  <2>8. HandlerKnows'
    BY <1>5, <2>1, <2>2, <2>3 DEF JoinReturns, SafetyInv, HandlerKnows, RecordsPrecede, Tool
  <2>9. RecordsPrecede'
    BY <1>5, <2>1, <2>2, <2>3, <2>4 DEF JoinReturns, SafetyInv, RecordsPrecede, HandlerKnows, Tool
  <2>10. ForeignEndRefuses'
    BY <1>5, <2>2, <2>3 DEF JoinReturns, SafetyInv, ForeignEndRefuses
  <2>. QED
    BY <1>t, <2>5, <2>6, <2>7, <2>8, <2>9, <2>10 DEF SafetyInv
<1>6. ASSUME NEW c \in Captures, Seal(c) PROVE SafetyInv'
  <2>1. th' = th
    BY <1>6 DEF Seal, HandlerSaves, Passes
  <2>2. /\ mem'[c].st = (IF mem[c].st = "absent" THEN "absent" ELSE "ended")
        /\ \A d \in Captures \ {c} : mem'[d] = mem[d]
    BY <1>6, <1>t DEF Seal, HandlerSaves, Passes, TypeOK, Records
  <2>3. kb' = kb
    BY <1>6 DEF Seal, HandlerSaves, Passes
  <2>4. manifest' = manifest
    BY <1>6 DEF Seal, HandlerSaves, Passes
  <2>5. LockHeldByWriter'
    BY <1>6, <2>1, <2>2 DEF Seal, HandlerSaves, Passes, SafetyInv, LockHeldByWriter, Tool, Idle
  <2>6. (stopped \subseteq used)'
    BY <1>6 DEF Seal, HandlerSaves, Passes, SafetyInv, RecordsPrecede
  <2>7. StoppedIsClosed'
    BY <1>6, <1>t, <2>1, <2>2 DEF Seal, HandlerSaves, Passes, SafetyInv, StoppedIsClosed, HandlerKnows, RecordsPrecede, TypeOK, Tool
  <2>8. HandlerKnows'
    BY <1>6, <2>1, <2>2, <2>3 DEF Seal, HandlerSaves, Passes, SafetyInv, HandlerKnows, RecordsPrecede, Tool, Idle
  <2>9. RecordsPrecede'
    BY <1>6, <2>1, <2>2, <2>3, <2>4 DEF Seal, HandlerSaves, Passes, SafetyInv, RecordsPrecede, HandlerKnows, Tool
  <2>10. ForeignEndRefuses'
    BY <1>6, <2>2, <2>3 DEF Seal, HandlerSaves, Passes, SafetyInv, ForeignEndRefuses
  <2>. QED
    BY <1>t, <2>5, <2>6, <2>7, <2>8, <2>9, <2>10 DEF SafetyInv
<1>7. ASSUME NEW c \in Captures, AnnotateRead(c) PROVE SafetyInv'
  <2>1. th' = th
    BY <1>7 DEF AnnotateRead
  <2>2. mem' = mem
    BY <1>7 DEF AnnotateRead
  <2>3. kb' = kb
    BY <1>7 DEF AnnotateRead
  <2>4. manifest' = manifest
    BY <1>7 DEF AnnotateRead
  <2>5. LockHeldByWriter'
    BY <1>7, <2>1, <2>2 DEF AnnotateRead, SafetyInv, LockHeldByWriter, Tool, Idle
  <2>6. (stopped \subseteq used)'
    BY <1>7 DEF AnnotateRead, SafetyInv, RecordsPrecede
  <2>7. StoppedIsClosed'
    BY <1>7, <1>t, <2>1, <2>2 DEF AnnotateRead, SafetyInv, StoppedIsClosed, HandlerKnows, RecordsPrecede, TypeOK, Tool
  <2>8. HandlerKnows'
    BY <1>7, <2>1, <2>2, <2>3 DEF AnnotateRead, SafetyInv, HandlerKnows, RecordsPrecede, Tool, Idle
  <2>9. RecordsPrecede'
    BY <1>7, <2>1, <2>2, <2>3, <2>4 DEF AnnotateRead, SafetyInv, RecordsPrecede, HandlerKnows, Tool
  <2>10. ForeignEndRefuses'
    BY <1>7, <2>2, <2>3 DEF AnnotateRead, SafetyInv, ForeignEndRefuses
  <2>. QED
    BY <1>t, <2>5, <2>6, <2>7, <2>8, <2>9, <2>10 DEF SafetyInv
<1>8. ASSUME NEW c \in Captures, AnnotateWrite(c) PROVE SafetyInv'
  <2>1. th' = th
    BY <1>8 DEF AnnotateWrite, HandlerSaves, Passes
  <2>2. \A d \in Captures : mem'[d].st = mem[d].st
    BY <1>8, <1>t DEF AnnotateWrite, HandlerSaves, Passes, TypeOK, Records, SafetyInv, HandlerKnows
  <2>3. kb' = kb
    BY <1>8 DEF AnnotateWrite, HandlerSaves, Passes
  <2>4. manifest' = manifest
    BY <1>8 DEF AnnotateWrite, HandlerSaves, Passes
  <2>5. LockHeldByWriter'
    BY <1>8, <2>1, <2>2 DEF AnnotateWrite, HandlerSaves, Passes, SafetyInv, LockHeldByWriter, Tool, Idle
  <2>6. (stopped \subseteq used)'
    BY <1>8 DEF AnnotateWrite, HandlerSaves, Passes, SafetyInv, RecordsPrecede
  <2>7. StoppedIsClosed'
    BY <1>8, <1>t, <2>1, <2>2 DEF AnnotateWrite, HandlerSaves, Passes, SafetyInv, StoppedIsClosed, HandlerKnows, RecordsPrecede, TypeOK, Tool
  <2>8. HandlerKnows'
    BY <1>8, <2>1, <2>2, <2>3 DEF AnnotateWrite, HandlerSaves, Passes, SafetyInv, HandlerKnows, RecordsPrecede, Tool, Idle
  <2>9. RecordsPrecede'
    BY <1>8, <2>1, <2>2, <2>3, <2>4 DEF AnnotateWrite, HandlerSaves, Passes, SafetyInv, RecordsPrecede, HandlerKnows, Tool
  <2>10. ForeignEndRefuses'
    BY <1>8, <2>2, <2>3 DEF AnnotateWrite, HandlerSaves, Passes, SafetyInv, ForeignEndRefuses
  <2>. QED
    BY <1>t, <2>5, <2>6, <2>7, <2>8, <2>9, <2>10 DEF SafetyInv
<1>9. ASSUME NEW c \in Captures, Poll(c) PROVE SafetyInv'
  <2>1. /\ th'[c].pc \in {"waiting"}
        /\ \A d \in Captures \ {c} : th'[d] = th[d]
    BY <1>9, <1>t DEF Poll, TypeOK, Threads
  <2>2. mem' = mem
    BY <1>9 DEF Poll
  <2>3. kb' = kb
    BY <1>9 DEF Poll
  <2>4. manifest' = manifest
    BY <1>9 DEF Poll
  <2>5. LockHeldByWriter'
    BY <1>9, <2>1, <2>2 DEF Poll, SafetyInv, LockHeldByWriter, Tool, Idle
  <2>6. (stopped \subseteq used)'
    BY <1>9 DEF Poll, SafetyInv, RecordsPrecede
  <2>7. StoppedIsClosed'
    BY <1>9, <1>t, <2>1, <2>2 DEF Poll, SafetyInv, StoppedIsClosed, HandlerKnows, RecordsPrecede, TypeOK, Tool
  <2>8. HandlerKnows'
    BY <1>9, <2>1, <2>2, <2>3 DEF Poll, SafetyInv, HandlerKnows, RecordsPrecede
  <2>9. RecordsPrecede'
    BY <1>9, <2>1, <2>2, <2>3, <2>4 DEF Poll, SafetyInv, RecordsPrecede, HandlerKnows, Tool
  <2>10. ForeignEndRefuses'
    BY <1>9, <2>2, <2>3 DEF Poll, SafetyInv, ForeignEndRefuses
  <2>. QED
    BY <1>t, <2>5, <2>6, <2>7, <2>8, <2>9, <2>10 DEF SafetyInv
<1>10. ASSUME NEW c \in Captures, ThreadExits(c) PROVE SafetyInv'
  <2>1. /\ th'[c].pc \in {"dead"}
        /\ \A d \in Captures \ {c} : th'[d] = th[d]
    BY <1>10, <1>t DEF ThreadExits, Thread, TypeOK, Threads
  <2>2. mem' = mem
    BY <1>10 DEF ThreadExits
  <2>3. kb' = kb
    BY <1>10 DEF ThreadExits
  <2>4. manifest' = manifest
    BY <1>10 DEF ThreadExits
  <2>5. LockHeldByWriter'
    BY <1>10, <2>1, <2>2 DEF ThreadExits, SafetyInv, LockHeldByWriter, Tool, Idle
  <2>6. (stopped \subseteq used)'
    BY <1>10 DEF ThreadExits, SafetyInv, RecordsPrecede
  <2>7. StoppedIsClosed'
    BY <1>10, <1>t, <2>1, <2>2 DEF ThreadExits, SafetyInv, StoppedIsClosed, HandlerKnows, RecordsPrecede, TypeOK, Tool
  <2>8. HandlerKnows'
    BY <1>10, <2>1, <2>2, <2>3 DEF ThreadExits, SafetyInv, HandlerKnows, RecordsPrecede
  <2>9. RecordsPrecede'
    BY <1>10, <2>1, <2>2, <2>3, <2>4 DEF ThreadExits, SafetyInv, RecordsPrecede, HandlerKnows, Tool
  <2>10. ForeignEndRefuses'
    BY <1>10, <2>2, <2>3 DEF ThreadExits, SafetyInv, ForeignEndRefuses
  <2>. QED
    BY <1>t, <2>5, <2>6, <2>7, <2>8, <2>9, <2>10 DEF SafetyInv
<1>11. ASSUME NEW c \in Captures, SourceFails(c) PROVE SafetyInv'
  <2>1. /\ th'[c].pc \in {"running", "dead"}
        /\ \A d \in Captures \ {c} : th'[d] = th[d]
    BY <1>11, <1>t, RaiseEffect DEF SourceFails
  <2>2. mem' = mem
    BY <1>11 DEF SourceFails
  <2>3. kb' = kb
    BY <1>11 DEF SourceFails
  <2>4. manifest' = manifest
    BY <1>11 DEF SourceFails
  <2>5. LockHeldByWriter'
    BY <1>11, <2>1, <2>2 DEF SourceFails, SafetyInv, LockHeldByWriter, Tool, Idle, Raise
  <2>6. (stopped \subseteq used)'
    BY <1>11 DEF SourceFails, SafetyInv, RecordsPrecede
  <2>7. StoppedIsClosed'
    BY <1>11, <1>t, <2>1, <2>2 DEF SourceFails, SafetyInv, StoppedIsClosed, HandlerKnows, RecordsPrecede, TypeOK, Tool
  <2>8. HandlerKnows'
    BY <1>11, <2>1, <2>2, <2>3 DEF SourceFails, SafetyInv, HandlerKnows, RecordsPrecede, Raise, Tool, Idle
  <2>9. RecordsPrecede'
    BY <1>11, <2>1, <2>2, <2>3, <2>4 DEF SourceFails, SafetyInv, RecordsPrecede, HandlerKnows, Tool
  <2>10. ForeignEndRefuses'
    BY <1>11, <2>2, <2>3 DEF SourceFails, SafetyInv, ForeignEndRefuses
  <2>. QED
    BY <1>t, <2>5, <2>6, <2>7, <2>8, <2>9, <2>10 DEF SafetyInv
<1>12. ASSUME NEW c \in Captures, AppendRefused(c) PROVE SafetyInv'
  <2>1. /\ th'[c].pc \in {"running", "dead"}
        /\ \A d \in Captures \ {c} : th'[d] = th[d]
    BY <1>12, <1>t, RaiseEffect DEF AppendRefused
  <2>2. mem' = mem
    BY <1>12 DEF AppendRefused
  <2>3. kb' = kb
    BY <1>12 DEF AppendRefused
  <2>4. manifest' = manifest
    BY <1>12 DEF AppendRefused
  <2>5. LockHeldByWriter'
    BY <1>12, <2>1, <2>2 DEF AppendRefused, SafetyInv, LockHeldByWriter, Tool, Idle, Raise
  <2>6. (stopped \subseteq used)'
    BY <1>12 DEF AppendRefused, SafetyInv, RecordsPrecede
  <2>7. StoppedIsClosed'
    BY <1>12, <1>t, <2>1, <2>2 DEF AppendRefused, SafetyInv, StoppedIsClosed, HandlerKnows, RecordsPrecede, TypeOK, Tool
  <2>8. HandlerKnows'
    BY <1>12, <2>1, <2>2, <2>3 DEF AppendRefused, SafetyInv, HandlerKnows, RecordsPrecede, Raise, Tool, Idle
  <2>9. RecordsPrecede'
    BY <1>12, <2>1, <2>2, <2>3, <2>4 DEF AppendRefused, SafetyInv, RecordsPrecede, HandlerKnows, Tool
  <2>10. ForeignEndRefuses'
    BY <1>12, <2>2, <2>3 DEF AppendRefused, SafetyInv, ForeignEndRefuses
  <2>. QED
    BY <1>t, <2>5, <2>6, <2>7, <2>8, <2>9, <2>10 DEF SafetyInv
<1>13. ASSUME NEW c \in Captures, AppendOpens(c) PROVE SafetyInv'
  <2>1. /\ th'[c].pc \in {"writing"}
        /\ \A d \in Captures \ {c} : th'[d] = th[d]
    BY <1>13, <1>t DEF AppendOpens, TypeOK, Threads
  <2>2. mem' = mem
    BY <1>13 DEF AppendOpens
  <2>3. kb' = kb
    BY <1>13 DEF AppendOpens
  <2>4. manifest' = manifest
    BY <1>13 DEF AppendOpens
  <2>5. LockHeldByWriter'
    BY <1>13, <2>1, <2>2 DEF AppendOpens, SafetyInv, LockHeldByWriter, Tool, Idle
  <2>6. (stopped \subseteq used)'
    BY <1>13 DEF AppendOpens, SafetyInv, RecordsPrecede
  <2>7. StoppedIsClosed'
    BY <1>13, <1>t, <2>1, <2>2 DEF AppendOpens, SafetyInv, StoppedIsClosed, HandlerKnows, RecordsPrecede, TypeOK, Tool
  <2>8. HandlerKnows'
    BY <1>13, <2>1, <2>2, <2>3 DEF AppendOpens, SafetyInv, HandlerKnows, RecordsPrecede
  <2>9. RecordsPrecede'
    BY <1>13, <2>1, <2>2, <2>3, <2>4 DEF AppendOpens, SafetyInv, RecordsPrecede, HandlerKnows, Tool
  <2>10. ForeignEndRefuses'
    BY <1>13, <2>2, <2>3 DEF AppendOpens, SafetyInv, ForeignEndRefuses
  <2>. QED
    BY <1>t, <2>5, <2>6, <2>7, <2>8, <2>9, <2>10 DEF SafetyInv
<1>14. ASSUME NEW c \in Captures, WriteFrame(c) PROVE SafetyInv'
  <2>1. /\ th'[c].pc \in {"writing"}
        /\ \A d \in Captures \ {c} : th'[d] = th[d]
    BY <1>14, <1>t DEF WriteFrame, TypeOK, Threads
  <2>2. \A d \in Captures : mem'[d].st = mem[d].st
    BY <1>14, <1>t DEF WriteFrame, TypeOK, Records, SafetyInv, HandlerKnows
  <2>3. kb' = kb
    BY <1>14 DEF WriteFrame
  <2>4. manifest' = manifest
    BY <1>14 DEF WriteFrame
  <2>5. LockHeldByWriter'
    BY <1>14, <2>1, <2>2 DEF WriteFrame, SafetyInv, LockHeldByWriter, Tool, Idle
  <2>6. (stopped \subseteq used)'
    BY <1>14 DEF WriteFrame, SafetyInv, RecordsPrecede
  <2>7. StoppedIsClosed'
    BY <1>14, <1>t, <2>1, <2>2 DEF WriteFrame, SafetyInv, StoppedIsClosed, HandlerKnows, RecordsPrecede, TypeOK, Tool
  <2>8. HandlerKnows'
    BY <1>14, <2>1, <2>2, <2>3 DEF WriteFrame, SafetyInv, HandlerKnows, RecordsPrecede
  <2>9. RecordsPrecede'
    BY <1>14, <2>1, <2>2, <2>3, <2>4 DEF WriteFrame, SafetyInv, RecordsPrecede, HandlerKnows, Tool
  <2>10. ForeignEndRefuses'
    BY <1>14, <2>2, <2>3 DEF WriteFrame, SafetyInv, ForeignEndRefuses
  <2>. QED
    BY <1>t, <2>5, <2>6, <2>7, <2>8, <2>9, <2>10 DEF SafetyInv
<1>15. ASSUME NEW c \in Captures, Sync(c) PROVE SafetyInv'
  <2>1. /\ th'[c].pc \in {"synced"}
        /\ \A d \in Captures \ {c} : th'[d] = th[d]
    BY <1>15, <1>t DEF Sync, TypeOK, Threads
  <2>2. mem' = mem
    BY <1>15 DEF Sync
  <2>3. kb' = kb
    BY <1>15 DEF Sync
  <2>4. \A d \in Captures : manifest'[d] = manifest[d] \/ th[d].pc = "writing"
    BY <1>15, <1>t DEF Sync, Lands, TypeOK
  <2>5. LockHeldByWriter'
    BY <1>15, <2>1, <2>2 DEF Sync, SafetyInv, LockHeldByWriter, Tool, Idle
  <2>6. (stopped \subseteq used)'
    BY <1>15 DEF Sync, SafetyInv, RecordsPrecede
  <2>7. StoppedIsClosed'
    BY <1>15, <1>t, <2>1, <2>2 DEF Sync, SafetyInv, StoppedIsClosed, HandlerKnows, RecordsPrecede, TypeOK, Tool
  <2>8. HandlerKnows'
    BY <1>15, <2>1, <2>2, <2>3 DEF Sync, SafetyInv, HandlerKnows, RecordsPrecede
  <2>9. RecordsPrecede'
    BY <1>15, <2>1, <2>2, <2>3, <2>4 DEF Sync, SafetyInv, RecordsPrecede, HandlerKnows, Tool
  <2>10. ForeignEndRefuses'
    BY <1>15, <2>2, <2>3 DEF Sync, SafetyInv, ForeignEndRefuses
  <2>. QED
    BY <1>t, <2>5, <2>6, <2>7, <2>8, <2>9, <2>10 DEF SafetyInv
<1>16. ASSUME NEW c \in Captures, WriteFails(c) PROVE SafetyInv'
  <2>1. /\ th'[c].pc \in {"running", "dead"}
        /\ \A d \in Captures \ {c} : th'[d] = th[d]
    BY <1>16, <1>t, RaiseEffect DEF WriteFails
  <2>2. mem' = mem
    BY <1>16 DEF WriteFails
  <2>3. kb' = kb
    BY <1>16 DEF WriteFails
  <2>4. \A d \in Captures : manifest'[d] = manifest[d] \/ th[d].pc = "writing"
    BY <1>16, <1>t DEF WriteFails, Lands, TypeOK
  <2>5. LockHeldByWriter'
    BY <1>16, <2>1, <2>2 DEF WriteFails, SafetyInv, LockHeldByWriter, Tool, Idle, Raise
  <2>6. (stopped \subseteq used)'
    BY <1>16 DEF WriteFails, SafetyInv, RecordsPrecede
  <2>7. StoppedIsClosed'
    BY <1>16, <1>t, <2>1, <2>2 DEF WriteFails, SafetyInv, StoppedIsClosed, HandlerKnows, RecordsPrecede, TypeOK, Tool
  <2>8. HandlerKnows'
    BY <1>16, <2>1, <2>2, <2>3 DEF WriteFails, SafetyInv, HandlerKnows, RecordsPrecede, Raise, Tool, Idle
  <2>9. RecordsPrecede'
    BY <1>16, <2>1, <2>2, <2>3, <2>4 DEF WriteFails, SafetyInv, RecordsPrecede, HandlerKnows, Tool
  <2>10. ForeignEndRefuses'
    BY <1>16, <2>2, <2>3 DEF WriteFails, SafetyInv, ForeignEndRefuses
  <2>. QED
    BY <1>t, <2>5, <2>6, <2>7, <2>8, <2>9, <2>10 DEF SafetyInv
<1>17. ASSUME NEW c \in Captures, AppendSaves(c) PROVE SafetyInv'
  <2>1. /\ th[c].pc = "synced"
        /\ th' = th \/ (th'[c].pc \in {"running", "dead"} /\ \A d \in Captures \ {c} : th'[d] = th[d])
    BY <1>17, <1>t, RaiseEffect DEF AppendSaves
  <2>2. mem' = mem
    BY <1>17 DEF AppendSaves
  <2>3. kb' = kb
    BY <1>17 DEF AppendSaves
  <2>4. manifest' = manifest
    BY <1>17 DEF AppendSaves
  <2>5. LockHeldByWriter'
    <3>1. lock = c /\ save = None /\ tool.pc \notin {"starting", "sealing", "annotating"}
      BY <1>17, <2>1 DEF AppendSaves, SafetyInv, LockHeldByWriter
    <3>2. CASE save' = "replace" /\ UNCHANGED <<lock, tool, th>>
      BY <2>1, <2>2, <3>1, <3>2 DEF SafetyInv, LockHeldByWriter
    <3>3. CASE lock' = None /\ Raise(c) /\ save' = None
      <4>1. th'[c].pc \in {"running", "dead"} /\ \A d \in Captures \ {c} : th'[d] = th[d]
        BY <1>t, <3>3, RaiseEffect
      <4>2. tool' = tool \/ tool' = Idle
        BY <3>3 DEF Raise
      <4>. QED
        BY <3>1, <3>3, <4>1, <4>2 DEF SafetyInv, LockHeldByWriter, Tool, Idle
    <3>. QED
      BY <1>17, <3>1, <3>2, <3>3 DEF AppendSaves
  <2>6. (stopped \subseteq used)'
    BY <1>17, <1>t, <2>1, <2>2, <2>3, <2>4 DEF AppendSaves, SafetyInv, Raise
  <2>7. StoppedIsClosed'
    BY <1>17, <1>t, <2>1, <2>2, <2>3, <2>4 DEF AppendSaves, SafetyInv, StoppedIsClosed, TypeOK, Raise
  <2>8. HandlerKnows'
    BY <1>17, <1>t, <2>1, <2>2, <2>3, <2>4 DEF AppendSaves, SafetyInv, HandlerKnows, RecordsPrecede, LockHeldByWriter, Tool, Idle, Raise
  <2>9. RecordsPrecede'
    BY <1>17, <1>t, <2>1, <2>2, <2>3, <2>4 DEF AppendSaves, SafetyInv, RecordsPrecede, HandlerKnows, Raise
  <2>10. ForeignEndRefuses'
    BY <1>17, <1>t, <2>1, <2>2, <2>3, <2>4 DEF AppendSaves, Passes, SafetyInv, ForeignEndRefuses, RecordsPrecede, LockHeldByWriter, HandlerKnows, Raise
  <2>. QED
    BY <1>t, <2>5, <2>6, <2>7, <2>8, <2>9, <2>10 DEF SafetyInv
<1>18. ASSUME NEW c \in Captures, AppendReturns(c) PROVE SafetyInv'
  <2>1. /\ th'[c].pc \in {"running", "dead"} /\ th[c].pc = "synced"
        /\ \A d \in Captures \ {c} : th'[d] = th[d]
    <3>1. CASE Raise(c)
      BY <1>18, <1>t, <3>1, RaiseEffect DEF AppendReturns
    <3>2. CASE th' = [th EXCEPT ![c] = Thread(IF th[c].last THEN "dead" ELSE "running")]
      BY <1>18, <1>t, <3>2 DEF AppendReturns, TypeOK, Thread
    <3>. QED
      BY <1>18, <3>1, <3>2 DEF AppendReturns
  <2>2. mem' = mem
    BY <1>18 DEF AppendReturns
  <2>3. kb' = kb
    BY <1>18 DEF AppendReturns
  <2>4. manifest' = manifest
    BY <1>18 DEF AppendReturns
  <2>5. LockHeldByWriter'
    BY <1>18, <1>t, <2>1, <2>2, <2>3, <2>4 DEF AppendReturns, Saved, SaveFails, SafetyInv, LockHeldByWriter, Raise, Tool, Idle
  <2>6. (stopped \subseteq used)'
    BY <1>18, <1>t, <2>1, <2>2, <2>3, <2>4 DEF AppendReturns, Saved, SaveFails, SafetyInv, Raise
  <2>7. StoppedIsClosed'
    BY <1>18, <1>t, <2>1, <2>2, <2>3, <2>4 DEF AppendReturns, Saved, SaveFails, SafetyInv, StoppedIsClosed, TypeOK, Raise
  <2>8. HandlerKnows'
    BY <1>18, <1>t, <2>1, <2>2, <2>3, <2>4 DEF AppendReturns, Saved, SaveFails, SafetyInv, HandlerKnows, RecordsPrecede, LockHeldByWriter, Tool, Idle, Raise
  <2>9. RecordsPrecede'
    BY <1>18, <1>t, <2>1, <2>2, <2>3, <2>4 DEF AppendReturns, Saved, SaveFails, SafetyInv, RecordsPrecede, HandlerKnows, Raise
  <2>10. ForeignEndRefuses'
    BY <1>18, <1>t, <2>1, <2>2, <2>3, <2>4 DEF AppendReturns, Saved, SaveFails, SafetyInv, ForeignEndRefuses, RecordsPrecede, LockHeldByWriter, HandlerKnows, Raise
  <2>. QED
    BY <1>t, <2>5, <2>6, <2>7, <2>8, <2>9, <2>10 DEF SafetyInv
<1>19. ASSUME NEW c \in Captures, HandlerReturns(c) PROVE SafetyInv'
  <2>1. th' = th
    BY <1>19 DEF HandlerReturns, Saved, SaveFails
  <2>2. mem' = mem
    BY <1>19 DEF HandlerReturns, Saved, SaveFails
  <2>3. kb' = kb
    BY <1>19 DEF HandlerReturns, Saved, SaveFails
  <2>4. manifest' = manifest
    BY <1>19 DEF HandlerReturns, Saved, SaveFails
  <2>5. LockHeldByWriter'
    BY <1>19, <1>t, <2>1, <2>2, <2>3, <2>4 DEF HandlerReturns, Saved, SaveFails, SafetyInv, LockHeldByWriter, Tool, Idle
  <2>6. (stopped \subseteq used)'
    BY <1>19, <1>t, <2>1, <2>2, <2>3, <2>4 DEF HandlerReturns, Saved, SaveFails, SafetyInv
  <2>7. StoppedIsClosed'
    BY <1>19, <1>t, <2>1, <2>2, <2>3, <2>4 DEF HandlerReturns, Saved, SaveFails, SafetyInv, StoppedIsClosed, TypeOK
  <2>8. HandlerKnows'
    BY <1>19, <1>t, <2>1, <2>2, <2>3, <2>4 DEF HandlerReturns, Saved, SaveFails, SafetyInv, HandlerKnows, RecordsPrecede, LockHeldByWriter, Tool, Idle
  <2>9. RecordsPrecede'
    BY <1>19, <1>t, <2>1, <2>2, <2>3, <2>4 DEF HandlerReturns, Saved, SaveFails, SafetyInv, RecordsPrecede, HandlerKnows
  <2>10. ForeignEndRefuses'
    BY <1>19, <1>t, <2>1, <2>2, <2>3, <2>4 DEF HandlerReturns, Saved, SaveFails, SafetyInv, ForeignEndRefuses, RecordsPrecede, LockHeldByWriter, HandlerKnows
  <2>. QED
    BY <1>t, <2>5, <2>6, <2>7, <2>8, <2>9, <2>10 DEF SafetyInv
<1>20. CASE Replace
  <2>1. th' = th
    BY <1>20 DEF Replace
  <2>2. mem' = mem
    BY <1>20 DEF Replace
  <2>3. kb' = mem
    BY <1>20 DEF Replace
  <2>4. manifest' = manifest
    BY <1>20 DEF Replace
  <2>5. LockHeldByWriter'
    BY <1>20, <1>t, <2>1, <2>2, <2>3, <2>4 DEF Replace, SafetyInv, LockHeldByWriter, Tool, Idle
  <2>6. (stopped \subseteq used)'
    BY <1>20, <1>t, <2>1, <2>2, <2>3, <2>4 DEF Replace, SafetyInv
  <2>7. StoppedIsClosed'
    BY <1>20, <1>t, <2>1, <2>2, <2>3, <2>4 DEF Replace, SafetyInv, StoppedIsClosed, TypeOK
  <2>8. HandlerKnows'
    BY <1>20, <1>t, <2>1, <2>2, <2>3, <2>4 DEF Replace, Outdated, SafetyInv, HandlerKnows, RecordsPrecede
  <2>9. RecordsPrecede'
    BY <1>20, <1>t, <2>1, <2>2, <2>3, <2>4 DEF Replace, SafetyInv, RecordsPrecede, HandlerKnows
  <2>10. ForeignEndRefuses'
    BY <1>20, <1>t, <2>1, <2>2, <2>3, <2>4 DEF Replace, SafetyInv, ForeignEndRefuses, RecordsPrecede, LockHeldByWriter, HandlerKnows
  <2>. QED
    BY <1>t, <2>5, <2>6, <2>7, <2>8, <2>9, <2>10 DEF SafetyInv
<1>21. ASSUME NEW o \in Others, OtherLoads(o) PROVE SafetyInv'
  <2>1. th' = th
    BY <1>21 DEF OtherLoads
  <2>2. mem' = mem
    BY <1>21 DEF OtherLoads
  <2>3. kb' = kb
    BY <1>21 DEF OtherLoads
  <2>4. manifest' = manifest
    BY <1>21 DEF OtherLoads
  <2>5. LockHeldByWriter'
    BY <1>21, <1>t, <2>1, <2>2, <2>3, <2>4 DEF OtherLoads, SafetyInv, LockHeldByWriter, Tool, Idle
  <2>6. (stopped \subseteq used)'
    BY <1>21, <1>t, <2>1, <2>2, <2>3, <2>4 DEF OtherLoads, SafetyInv
  <2>7. StoppedIsClosed'
    BY <1>21, <1>t, <2>1, <2>2, <2>3, <2>4 DEF OtherLoads, SafetyInv, StoppedIsClosed, TypeOK
  <2>8. HandlerKnows'
    BY <1>21, <1>t, <2>1, <2>2, <2>3, <2>4 DEF OtherLoads, SafetyInv, HandlerKnows, RecordsPrecede, LockHeldByWriter, Tool, Idle
  <2>o. \A q \in Others, d \in Captures : theirs'[q][d] = theirs[q][d] \/ theirs'[q][d] = kb[d]
    BY <1>21, <1>t DEF OtherLoads, TypeOK
  <2>9. RecordsPrecede'
    BY <1>21, <2>1, <2>2, <2>3, <2>4, <2>o DEF OtherLoads, SafetyInv, RecordsPrecede
  <2>10. ForeignEndRefuses'
    BY <1>21, <1>t, <2>1, <2>2, <2>3, <2>4 DEF OtherLoads, SafetyInv, ForeignEndRefuses, RecordsPrecede, LockHeldByWriter, HandlerKnows
  <2>. QED
    BY <1>t, <2>5, <2>6, <2>7, <2>8, <2>9, <2>10 DEF SafetyInv
<1>22. ASSUME NEW o \in Others, OtherSaves(o) PROVE SafetyInv'
  <2>1. th' = th
    BY <1>22 DEF OtherSaves
  <2>2. mem' = mem
    BY <1>22 DEF OtherSaves
  <2>3. \A q \in Others, d \in Captures : (theirs'[q][d].st = "absent") <=> (theirs[q][d].st = "absent")
    BY <1>22 DEF OtherSaves
  <2>o. /\ kb' = theirs'[o] /\ dropped' = dropped \cup {d \in Captures : kb[d].st # "absent" /\ kb'[d].st = "absent"}
    BY <1>22 DEF OtherSaves
  <2>4. manifest' = manifest
    BY <1>22 DEF OtherSaves
  <2>5. LockHeldByWriter'
    BY <1>22, <1>t, <2>1, <2>2, <2>3, <2>4 DEF OtherSaves, SafetyInv, LockHeldByWriter, Tool, Idle
  <2>6. (stopped \subseteq used)'
    BY <1>22, <1>t, <2>1, <2>2, <2>3, <2>4 DEF OtherSaves, SafetyInv
  <2>7. StoppedIsClosed'
    BY <1>22, <1>t, <2>1, <2>2, <2>3, <2>4 DEF OtherSaves, SafetyInv, StoppedIsClosed, TypeOK
  <2>8. HandlerKnows'
    BY <1>22, <1>t, <2>1, <2>2, <2>3, <2>o DEF OtherSaves, Outdated, SafetyInv, HandlerKnows, RecordsPrecede, LockHeldByWriter, Tool, Idle
  <2>9. RecordsPrecede'
    BY <1>22, <1>t, <2>1, <2>2, <2>3, <2>4 DEF OtherSaves, SafetyInv, RecordsPrecede, HandlerKnows
  <2>10. ForeignEndRefuses'
    BY <1>22, <1>t, <2>1, <2>2, <2>3, <2>4 DEF OtherSaves, Outdated, SafetyInv, ForeignEndRefuses, RecordsPrecede, LockHeldByWriter, HandlerKnows
  <2>. QED
    BY <1>t, <2>5, <2>6, <2>7, <2>8, <2>9, <2>10 DEF SafetyInv
<1>23. CASE CrashRestart
  <2>1. \A d \in Captures : th'[d].pc = "none"
    BY <1>23 DEF CrashRestart, Thread
  <2>2. /\ mem' = kb /\ kb' = kb /\ lock' = None /\ save' = None /\ sig' = "none"
        /\ tool' = Tool("load", None) /\ UNCHANGED <<used, stopped, theirs, dropped>>
    BY <1>23 DEF CrashRestart
  <2>3. \A d \in Captures : manifest'[d] = manifest[d] \/ th[d].pc = "writing"
    BY <1>23, <1>t DEF CrashRestart, Lands, TypeOK
  <2>4. LockHeldByWriter' /\ StoppedIsClosed' /\ HandlerKnows'
    BY <1>t, <2>1, <2>2 DEF LockHeldByWriter, StoppedIsClosed, HandlerKnows, Tool, TypeOK, Tool, Idle
  <2>5. RecordsPrecede'
    BY <2>1, <2>2, <2>3 DEF SafetyInv, RecordsPrecede
  <2>6. ForeignEndRefuses'
    BY <2>2 DEF ForeignEndRefuses
  <2>7. (stopped \subseteq used)'
    BY <2>2 DEF SafetyInv
  <2>. QED
    BY <1>t, <2>4, <2>5, <2>6, <2>7 DEF SafetyInv
<1>24. CASE LoadSig
  <2>1. th' = th
    BY <1>24 DEF LoadSig
  <2>2. mem' = mem
    BY <1>24 DEF LoadSig
  <2>3. kb' = kb
    BY <1>24 DEF LoadSig
  <2>4. manifest' = manifest
    BY <1>24 DEF LoadSig
  <2>5. LockHeldByWriter'
    BY <1>24, <1>t, <2>1, <2>2, <2>3, <2>4 DEF LoadSig, SafetyInv, LockHeldByWriter, Tool, Idle
  <2>6. (stopped \subseteq used)'
    BY <1>24, <1>t, <2>1, <2>2, <2>3, <2>4 DEF LoadSig, SafetyInv
  <2>7. StoppedIsClosed'
    BY <1>24, <1>t, <2>1, <2>2, <2>3, <2>4 DEF LoadSig, SafetyInv, StoppedIsClosed, TypeOK
  <2>8. HandlerKnows'
    BY <1>24, <1>t, <2>1, <2>2, <2>3, <2>4 DEF LoadSig, SafetyInv, HandlerKnows, RecordsPrecede, LockHeldByWriter, Tool, Idle
  <2>9. RecordsPrecede'
    BY <1>24, <1>t, <2>1, <2>2, <2>3, <2>4 DEF LoadSig, SafetyInv, RecordsPrecede, HandlerKnows
  <2>10. ForeignEndRefuses'
    BY <1>24, <1>t, <2>1, <2>2, <2>3, <2>4 DEF LoadSig, Tool, SafetyInv, ForeignEndRefuses, HandlerKnows
  <2>. QED
    BY <1>t, <2>5, <2>6, <2>7, <2>8, <2>9, <2>10 DEF SafetyInv
<1>25. CASE UNCHANGED vars
  BY <1>25, <1>t DEF SafetyInv, LockHeldByWriter, StoppedIsClosed, HandlerKnows, RecordsPrecede, ForeignEndRefuses, vars
<1>. QED
  BY <1>1, <1>2, <1>3, <1>4, <1>5, <1>6, <1>7, <1>8, <1>9, <1>10, <1>11, <1>12, <1>13, <1>14,
     <1>15, <1>16, <1>17, <1>18, <1>19, <1>20, <1>21, <1>22, <1>23, <1>24, <1>25
  DEF Next, ToolStep, ListenerStep

\* The initial store satisfies the inductive invariant.
LEMMA SafetyInitial == Init => SafetyInv
<1> SUFFICES ASSUME Init PROVE SafetyInv
  OBVIOUS
<1>. USE NoneAssumption
<1>1. TypeOK
  BY TypeInit
<1>2. LockHeldByWriter /\ StoppedIsClosed /\ HandlerKnows
  BY DEF Init, LockHeldByWriter, StoppedIsClosed, HandlerKnows, Thread, Tool, Idle, None, Handler
<1>3. RecordsPrecede
  BY DEF Init, RecordsPrecede, Thread, Absent, Record
<1>4. ForeignEndRefuses
  BY DEF Init, ForeignEndRefuses, Absent, Record
<1>. QED
  BY <1>1, <1>2, <1>3, <1>4 DEF Init, SafetyInv

(* The inductive invariant holds in every reachable state. *)
THEOREM SafetyCorrect == Spec => []SafetyInv
  BY SafetyInitial, SafetyInductive, PTL DEF Spec

(* Every frame on the disk belongs to a capture whose record, with the       *)
(* fingerprint of its authorization statement, is in kb.json, unless another *)
(* process has saved a kb.json without it.                                   *)
THEOREM AuthorizationPrecedesEvidence == Spec => []RecordBeforeEvidence
<1>1. SafetyInv => RecordBeforeEvidence
  BY DEF SafetyInv, RecordsPrecede, RecordBeforeEvidence
<1>. QED
  BY <1>1, SafetyCorrect, PTL

(* Only the actor that is writing a batch changes a manifest. *)
LEMMA ManifestWriter ==
  ASSUME TypeOK, [Next]_vars, NEW c \in Captures, th[c].pc # "writing"
  PROVE  manifest'[c] = manifest[c]
<1>. USE DEF saveVars, diskVars, fileVars, foreignVars, bookVars
<1>1. ASSUME NEW d \in Captures, th[d].pc = "writing", NEW j, NEW tears, Lands(d, j, tears)
      PROVE  manifest'[c] = manifest[c]
  BY <1>1 DEF Lands, TypeOK
<1>2. ASSUME NEW d \in Captures, ToolStep(d)
      PROVE  manifest' = manifest
  BY <1>2 DEF ToolStep, StartCapture, HandlerReturns, StartListener, IngestDone, Stop, JoinReturns,
              Seal, AnnotateRead, AnnotateWrite
<1>3. ASSUME NEW d \in Captures, ListenerStep(d)
      PROVE  manifest'[c] = manifest[c]
  <2>1. CASE Sync(d)
    BY <1>1, <2>1 DEF Sync
  <2>2. CASE WriteFails(d)
    BY <1>1, <2>2 DEF WriteFails
  <2>3. CASE Poll(d) \/ ThreadExits(d) \/ SourceFails(d) \/ AppendRefused(d)
                     \/ AppendOpens(d) \/ WriteFrame(d) \/ AppendSaves(d) \/ AppendReturns(d)
    BY <2>3 DEF Poll, ThreadExits, SourceFails, AppendRefused, AppendOpens, WriteFrame,
                AppendSaves, AppendReturns
  <2>. QED
    BY <1>3, <2>1, <2>2, <2>3 DEF ListenerStep
<1>4. CASE Replace \/ LoadSig \/ \E o \in Others : OtherLoads(o) \/ OtherSaves(o)
  BY <1>4 DEF Replace, LoadSig, OtherLoads, OtherSaves
<1>5. CASE CrashRestart
  BY <1>1, <1>5 DEF CrashRestart
<1>6. CASE UNCHANGED vars
  BY <1>6 DEF vars
<1>. QED
  BY <1>2, <1>3, <1>4, <1>5, <1>6 DEF Next

(* The evidence of a stopped capture is closed: no step adds a frame to it,  *)
(* whatever its thread does, and whether or not the stop reached the disk.   *)
THEOREM StoppedEvidenceIsFinal == Spec => NothingAfterStop
<1>1. SafetyInv /\ [Next]_vars => [\A c \in stopped : manifest'[c] = manifest[c]]_vars
  <2> SUFFICES ASSUME SafetyInv, [Next]_vars, NEW c \in stopped
               PROVE  manifest'[c] = manifest[c]
    OBVIOUS
  <2>1. c \in Captures /\ TypeOK
    BY DEF SafetyInv, TypeOK
  <2>2. th[c].pc # "writing"
    BY <2>1 DEF SafetyInv, StoppedIsClosed, LockHeldByWriter
  <2>. QED
    BY <2>1, <2>2, ManifestWriter
<1>. QED
  BY <1>1, SafetyCorrect, PTL DEF Spec, NothingAfterStop

(* Once kb.json says that a capture has ended, this process acknowledges no  *)
(* frame of it and does not take the end back, also when another process     *)
(* ended it at any moment but that of a save, or of a load, of this one: the *)
(* check of _save_kb refuses.                                                *)
THEOREM EndedOnDiskIsFinal == Spec => NothingAckedOnceEnded
<1>. USE DEF saveVars, diskVars, fileVars, foreignVars, bookVars
<1>1. SafetyInv /\ [Next]_vars
      => [\A c \in Captures : kb[c].st = "ended" /\ ~met =>
            /\ acked'[c] = acked[c]
            /\ kb'[c].st = "ended" \/ \E o \in Others : OtherSaves(o)]_vars
  <2> SUFFICES ASSUME SafetyInv, [Next]_vars, NEW c \in Captures, kb[c].st = "ended", ~met
               PROVE  /\ acked'[c] = acked[c]
                      /\ kb'[c].st = "ended" \/ \E o \in Others : OtherSaves(o)
    OBVIOUS
  <2>1. ASSUME save # None PROVE mem[c].st = "ended"
    BY <2>1 DEF SafetyInv, ForeignEndRefuses
  <2>2. ASSUME NEW d \in Captures, AppendReturns(d) PROVE acked'[c] = acked[c] /\ kb' = kb
    <3>1. CASE Saved /\ acked' = [acked EXCEPT ![d] = @ + Len(th[d].buf)]
      <4>1. mem[c].st = "ended"
        BY <2>1, <3>1 DEF Saved, None
      <4>2. c # d
        BY <2>2, <4>1 DEF AppendReturns, SafetyInv, LockHeldByWriter
      <4>. QED
        BY <2>2, <3>1, <4>2 DEF AppendReturns, SafetyInv, TypeOK
    <3>2. CASE UNCHANGED acked
      BY <2>2, <3>2 DEF AppendReturns
    <3>. QED
      BY <2>2, <3>1, <3>2 DEF AppendReturns
  <2>3. ASSUME NEW d \in Captures, ToolStep(d) \/ (ListenerStep(d) /\ ~AppendReturns(d))
        PROVE  acked' = acked /\ kb' = kb
    BY <2>3 DEF ToolStep, ListenerStep, StartCapture, HandlerReturns, StartListener, IngestDone,
                Stop, JoinReturns, Seal, AnnotateRead, AnnotateWrite, Poll, ThreadExits,
                SourceFails, AppendRefused, AppendOpens, WriteFrame, Sync, WriteFails, AppendSaves
  <2>4. CASE Replace
    <3>1. mem[c].st = "ended"
      BY <2>1, <2>4 DEF Replace, None
    <3>. QED
      BY <2>4, <3>1 DEF Replace
  <2>5. ASSUME NEW o \in Others, OtherLoads(o) \/ OtherSaves(o)
        PROVE  acked' = acked /\ (kb' = kb \/ OtherSaves(o))
    BY <2>5 DEF OtherLoads, OtherSaves
  <2>6. CASE LoadSig \/ CrashRestart \/ UNCHANGED vars
    BY <2>6 DEF LoadSig, CrashRestart, vars
  <2>. QED
    BY <2>2, <2>3, <2>4, <2>5, <2>6 DEF Next
<1>. QED
  BY <1>1, SafetyCorrect, PTL DEF Spec, NothingAckedOnceEnded

-----------------------------------------------------------------------------
(* When no write to the disk fails part-way: what the counts promise is on   *)
(* the disk.                                                                 *)

\* Frames of c that append_frames holds in its buffer, at a step of its own.
InBuffer(c, pc) == IF th[c].pc = pc THEN Len(th[c].buf) ELSE 0

\* Frames of c that are in the manifest or will be when append_frames lets go.
Landed(c) == Len(manifest[c]) + InBuffer(c, "writing")

\* Frames of c whose ids append_frames has returned or is about to return.
Promised(c) == acked[c] + InBuffer(c, "synced")

\* The start handler is at work on c.
Starting(c) == tool.pc \in {"starting", "listen"} /\ tool.cap = c

\* A crash that tears the manifest of c is the end of its listener, and every
\* count of frames of c is covered by its manifest.
Durable(c) ==
    /\ torn[c] => th[c].pc = "none" /\ c \in used /\ ~Starting(c)
    /\ mem[c].count <= Landed(c)
    /\ tool.pc = "annotate" /\ tool.cap = c => tool.copy.count <= Landed(c)
    /\ kb[c].count <= Len(manifest[c])
    /\ \A o \in Others : theirs[o][c].count <= Len(manifest[c])
    /\ Promised(c) <= Len(manifest[c])

DurableInv == \A c \in Captures : Durable(c)

\* The types of what the counts are about.
CountsOK ==
    \A c \in Captures :
       /\ th[c] \in Threads /\ th[c].buf \in Seq(Nat) /\ Len(th[c].buf) \in Nat
       /\ manifest[c] \in Seq(Nat) /\ Len(manifest[c]) \in Nat
       /\ mem[c].count \in Nat /\ kb[c].count \in Nat /\ acked[c] \in Nat
       /\ tool.copy.count \in Nat
       /\ \A o \in Others : theirs[o][c].count \in Nat
       /\ Landed(c) \in Nat /\ Len(manifest[c]) <= Landed(c)
       /\ Promised(c) \in Nat
       /\ InBuffer(c, "writing") \in Nat /\ InBuffer(c, "synced") \in Nat

\* They follow from the types of CaptureStore.
LEMMA CountsTyped == TypeOK => CountsOK
<1> SUFFICES ASSUME TypeOK, NEW c \in Captures PROVE CountsOK!(c)
  BY DEF CountsOK
<1>1. th[c] \in Threads /\ th[c].buf \in Seq(Nat) /\ manifest[c] \in Seq(Nat)
  BY DEF TypeOK, Threads
<1>2. Len(th[c].buf) \in Nat /\ Len(manifest[c]) \in Nat
  BY <1>1
<1>3. /\ mem[c].count \in Nat /\ kb[c].count \in Nat /\ acked[c] \in Nat /\ tool.copy.count \in Nat
      /\ \A o \in Others : theirs[o][c].count \in Nat
  BY DEF TypeOK, Records, Tools
<1>4. InBuffer(c, "writing") \in Nat /\ InBuffer(c, "synced") \in Nat
  BY <1>2 DEF InBuffer
<1>5. Landed(c) \in Nat /\ Len(manifest[c]) <= Landed(c)
  BY <1>2, <1>4 DEF Landed
<1>6. Promised(c) \in Nat
  BY <1>3, <1>4 DEF Promised
<1>. QED
  BY <1>1, <1>2, <1>3, <1>4, <1>5, <1>6

(* A step that writes no frame and no manifest keeps the counts covered, if  *)
(* what it saves, loads or puts back was covered.                            *)
LEMMA DurableKept ==
  ASSUME TypeOK, TypeOK', DurableInv,
         UNCHANGED <<manifest, torn, acked>>, used \subseteq used',
         \A c \in Captures :
            /\ \/ th'[c] = th[c]
               \/ ~torn[c] /\ th[c].pc # "writing" /\ th'[c].pc # "synced"
            /\ torn[c] => ~Starting(c)'
            /\ mem'[c].count <= Landed(c)
            /\ tool'.pc = "annotate" /\ tool'.cap = c => tool'.copy.count <= Landed(c)
            /\ kb'[c].count <= Len(manifest[c])
            /\ \A o \in Others : theirs'[o][c].count <= Len(manifest[c])
  PROVE  DurableInv'
<1> SUFFICES ASSUME NEW c \in Captures PROVE Durable(c)'
  BY DEF DurableInv
<1>1. CountsOK /\ CountsOK'
  BY CountsTyped, PTL
<1>2. /\ Len(th[c].buf) \in Nat /\ Len(manifest[c]) \in Nat /\ acked[c] \in Nat
      /\ kb[c].count \in Nat /\ Landed(c) \in Nat /\ Len(th'[c].buf) \in Nat
      /\ mem'[c].count \in Nat /\ tool'.copy.count \in Nat
  BY <1>1 DEF CountsOK
<1>w. /\ InBuffer(c, "writing") <= InBuffer(c, "writing")'
      /\ InBuffer(c, "synced")' <= InBuffer(c, "synced")
      /\ InBuffer(c, "writing") \in Nat /\ InBuffer(c, "writing")' \in Nat
      /\ InBuffer(c, "synced") \in Nat /\ InBuffer(c, "synced")' \in Nat
  <2>1. CASE th'[c] = th[c]
    BY <1>1, <2>1 DEF InBuffer, CountsOK
  <2>2. CASE th[c].pc # "writing" /\ th'[c].pc # "synced"
    BY <1>1, <2>2 DEF InBuffer, CountsOK
  <2>. QED
    BY <2>1, <2>2
<1>3. Landed(c) <= Landed(c)' /\ Landed(c)' \in Nat
  <2>1. Landed(c)' = Len(manifest[c]) + InBuffer(c, "writing")'
    BY DEF Landed
  <2>2. Landed(c) = Len(manifest[c]) + InBuffer(c, "writing")
    BY DEF Landed
  <2>3. \A m, a, b \in Nat : a <= b => m + a <= m + b /\ m + b \in Nat
    OBVIOUS
  <2>4. Len(manifest[c]) + InBuffer(c, "writing") <= Len(manifest[c]) + InBuffer(c, "writing")'
        /\ Len(manifest[c]) + InBuffer(c, "writing")' \in Nat
    BY ONLY <1>2, <1>w, <2>3, Zenon
  <2>. QED
    BY <2>1, <2>2, <2>4
<1>4. Promised(c)' <= Promised(c) /\ Promised(c) \in Nat /\ Promised(c)' \in Nat
  <2>1. Promised(c)' = acked[c] + InBuffer(c, "synced")'
    BY DEF Promised
  <2>2. Promised(c) = acked[c] + InBuffer(c, "synced")
    BY DEF Promised
  <2>3. acked[c] \in Nat
    BY <1>2
  <2>. QED
    BY <1>w, <2>1, <2>2, <2>3
<1>5. mem'[c].count <= Landed(c)' /\ (tool'.pc = "annotate" /\ tool'.cap = c => tool'.copy.count <= Landed(c)')
  BY <1>1, <1>2, <1>3
<1>6. kb'[c].count <= Len(manifest'[c]) /\ \A o \in Others : theirs'[o][c].count <= Len(manifest'[c])
  OBVIOUS
<1>7. Promised(c)' <= Len(manifest'[c])
  BY <1>2, <1>4 DEF DurableInv, Durable
<1>8. torn'[c] => th'[c].pc = "none" /\ c \in used' /\ ~Starting(c)'
  BY DEF DurableInv, Durable
<1>. QED
  BY <1>5, <1>6, <1>7, <1>8 DEF Durable

(* The lines that land come behind those that are there, in order.           *)
LEMMA LandsEffect ==
  ASSUME TypeOK, NEW c \in Captures, NEW j \in 0..Len(th[c].buf), NEW tears \in BOOLEAN,
         Lands(c, j, tears), ~torn[c]
  PROVE  /\ Len(manifest'[c]) = Len(manifest[c]) + j
         /\ torn'[c] = tears
         /\ \A d \in Captures \ {c} : manifest'[d] = manifest[d] /\ torn'[d] = torn[d]
<1>1. th[c].buf \in Seq(Nat) /\ manifest[c] \in Seq(Nat) /\ Len(th[c].buf) \in Nat
  BY CountsTyped DEF CountsOK
<1>2. SubSeq(th[c].buf, 1, j) \in Seq(Nat)
  BY <1>1, SubSeqOfNat
<1>3. Len(SubSeq(th[c].buf, 1, j)) = j
  <2>1. \A i \in 1..j : th[c].buf[i] \in Nat
    BY <1>1
  <2>. QED
    BY <1>1, <2>1, SubSeqProperties
<1>4. manifest'[c] = manifest[c] \o SubSeq(th[c].buf, 1, j)
  BY DEF Lands, TypeOK
<1>. QED
  BY <1>1, <1>2, <1>3, <1>4, ConcatProperties DEF Lands, TypeOK

(* A step of another actor leaves capture c as it is. *)
LEMMA DurableUntouched ==
  ASSUME NEW c \in Captures, Durable(c), used' = used, tool' = tool \/ tool' = Idle,
         UNCHANGED <<th[c], manifest[c], torn[c], acked[c], mem[c], kb[c], theirs>>
  PROVE  Durable(c)'
<1>1. Landed(c)' = Landed(c)
  BY DEF Landed, InBuffer
<1>2. Promised(c)' = Promised(c)
  BY DEF Promised, InBuffer
<1>. QED
  BY <1>1, <1>2 DEF Durable, Starting, Idle, Tool

(* DurableInv is inductive when no write fails part-way. *)
LEMMA DurableInductive ==
  ASSUME ~IoFaults, SafetyInv, DurableInv, [Next]_vars
  PROVE  DurableInv'
<1>. USE NoneAssumption DEF saveVars, diskVars, fileVars, foreignVars, bookVars
<1>t. TypeOK /\ TypeOK'
  BY TypeStep DEF SafetyInv
<1>n. CountsOK /\ CountsOK'
  BY <1>t, CountsTyped, PTL
<1>d. /\ \A c \in Captures : torn[c] => th[c].pc = "none" /\ c \in used /\ ~Starting(c)
      /\ \A c \in Captures : mem[c].count <= Landed(c)
      /\ \A c \in Captures : tool.pc = "annotate" /\ tool.cap = c => tool.copy.count <= Landed(c)
      /\ \A c \in Captures : kb[c].count <= Len(manifest[c])
      /\ \A c \in Captures : \A o \in Others : theirs[o][c].count <= Len(manifest[c])
  BY DEF DurableInv, Durable
<1>1. ASSUME NEW c \in Captures, StartCapture(c) PROVE DurableInv'
  <2>1. \A d \in Captures : mem'[d].count <= Landed(d)
    <3>1. mem'[c].count = 0 /\ \A d \in Captures \ {c} : mem'[d] = mem[d]
      BY <1>1, <1>t DEF StartCapture, TypeOK, Record
    <3>. QED
      <4>1. \A d \in Captures : Landed(d) \in Nat
        BY <1>n DEF CountsOK
      <4>. QED
        BY <1>d, <3>1, <4>1
  <2>2. \A d \in Captures : torn[d] => ~Starting(d)'
    BY <1>1, <1>d DEF StartCapture, HandlerSaves, Starting, Tool, Idle
  <2>3. tool'.pc # "annotate" /\ used \subseteq used'
        /\ UNCHANGED <<th, manifest, torn, acked, kb, theirs>>
    BY <1>1 DEF StartCapture, HandlerSaves, Tool, Idle
  <2>. QED
    BY <1>t, <1>d, <2>1, <2>2, <2>3, DurableKept
<1>2. ASSUME NEW c \in Captures, StartListener(c) PROVE DurableInv'
  <2>1. ~torn[c] /\ th[c].pc = "none"
    BY <1>2, <1>d DEF StartListener, Starting, SafetyInv, HandlerKnows, Tool
  <2>2. \A d \in Captures : th'[d] = th[d] \/ (d = c /\ th'[d].pc = "running")
    BY <1>2, <1>t DEF StartListener, TypeOK, Thread
  <2>3. tool'.pc \notin {"annotate", "starting", "listen"}
    BY <1>2 DEF StartListener, Tool, Idle
  <2>4. UNCHANGED <<manifest, torn, acked, used, mem, kb, theirs>>
    BY <1>2 DEF StartListener
  <2>. QED
    BY <1>t, <1>d, <2>1, <2>2, <2>3, <2>4, DurableKept DEF Starting, Tool
<1>3. ASSUME NEW c \in Captures, IngestDone(c) PROVE DurableInv'
  <2>1. \A d \in Captures : th'[d] = th[d] \/ (d = c /\ th[d].pc = "running" /\ th'[d].pc = "dead")
    BY <1>3, <1>t DEF IngestDone, TypeOK, Thread
  <2>2. tool'.pc = "seal"
    BY <1>3 DEF IngestDone, Tool
  <2>3. UNCHANGED <<manifest, torn, acked, used, mem, kb, theirs>>
    BY <1>3 DEF IngestDone
  <2>. QED
    BY <1>t, <1>d, <2>1, <2>2, <2>3, DurableKept DEF Starting, Tool
<1>4. ASSUME NEW c \in Captures, Stop(c) \/ JoinReturns(c) PROVE DurableInv'
  <2>1. tool'.pc \in {"join", "seal"}
    BY <1>4 DEF Stop, JoinReturns, Tool
  <2>2. UNCHANGED <<th, manifest, torn, acked, used, mem, kb, theirs>>
    BY <1>4 DEF Stop, JoinReturns
  <2>. QED
    BY <1>t, <1>d, <2>1, <2>2, DurableKept DEF Starting, Tool
<1>5. ASSUME NEW c \in Captures, Seal(c) PROVE DurableInv'
  <2>1. \A d \in Captures : mem'[d].count = mem[d].count
    <3>1. mem' = mem \/ mem' = [mem EXCEPT ![c].st = "ended"]
      BY <1>5 DEF Seal
    <3>2. \A d \in Captures : [mem EXCEPT ![c].st = "ended"][d].count = mem[d].count
      BY <1>t DEF TypeOK, Records
    <3>. QED
      BY <3>1, <3>2
  <2>2. /\ tool'.pc \in {"sealing", "idle"}
        /\ UNCHANGED <<th, manifest, torn, acked, used, kb, theirs>>
    BY <1>5 DEF Seal, HandlerSaves, Tool, Idle
  <2>. QED
    BY <1>t, <1>d, <2>1, <2>2, DurableKept DEF Starting
<1>6. ASSUME NEW c \in Captures, AnnotateRead(c) PROVE DurableInv'
  <2>1. tool'.pc = "annotate" /\ tool'.cap = c /\ tool'.copy = mem[c]
    BY <1>6 DEF AnnotateRead
  <2>2. UNCHANGED <<th, manifest, torn, acked, used, mem, kb, theirs>>
    BY <1>6 DEF AnnotateRead
  <2>. QED
    BY <1>t, <1>d, <2>1, <2>2, DurableKept DEF Starting, Tool
<1>7. ASSUME NEW c \in Captures, AnnotateWrite(c) PROVE DurableInv'
  <2>1. \A d \in Captures : mem'[d].count <= Landed(d)
    BY <1>7, <1>t, <1>d DEF AnnotateWrite, TypeOK
  <2>2. /\ tool'.pc \in {"annotating", "idle"}
        /\ UNCHANGED <<th, manifest, torn, acked, used, kb, theirs>>
    BY <1>7 DEF AnnotateWrite, HandlerSaves, Tool, Idle
  <2>. QED
    BY <1>t, <1>d, <2>1, <2>2, DurableKept DEF Starting
<1>8. ASSUME NEW c \in Captures, Poll(c) \/ ThreadExits(c) \/ AppendOpens(c) PROVE DurableInv'
  <2>1. \A d \in Captures : \/ th'[d] = th[d]
                            \/ /\ d = c /\ th[d].pc \in {"running", "waiting"}
                               /\ th'[d].pc \in {"waiting", "dead", "writing"}
    <3>1. CASE Poll(c)
      BY <1>t, <3>1 DEF Poll, TypeOK
    <3>2. CASE ThreadExits(c)
      BY <1>t, <3>2 DEF ThreadExits, TypeOK, Thread
    <3>3. CASE AppendOpens(c)
      BY <1>t, <3>3 DEF AppendOpens, TypeOK, Threads
    <3>. QED
      BY <1>8, <3>1, <3>2, <3>3
  <2>2. UNCHANGED <<tool, manifest, torn, acked, used, mem, kb, theirs>>
    BY <1>8 DEF Poll, ThreadExits, AppendOpens
  <2>. QED
    BY <1>t, <1>d, <2>1, <2>2, DurableKept DEF Starting, Tool
<1>9. ASSUME NEW c \in Captures, SourceFails(c) \/ AppendRefused(c) PROVE DurableInv'
  <2>1. \A d \in Captures : \/ th'[d] = th[d]
                            \/ /\ d = c /\ th[d].pc \in {"running", "waiting"}
                               /\ th'[d].pc \in {"running", "dead"}
    BY <1>9, <1>t, RaiseEffect DEF SourceFails, AppendRefused
  <2>2. tool' = tool \/ tool' = Idle
    BY <1>9 DEF SourceFails, AppendRefused, Raise
  <2>3. UNCHANGED <<manifest, torn, acked, used, mem, kb, theirs>>
    BY <1>9 DEF SourceFails, AppendRefused
  <2>. QED
    BY <1>t, <1>d, <2>1, <2>2, <2>3, DurableKept DEF Starting, Tool, Idle
<1>10. ASSUME NEW c \in Captures, WriteFrame(c) PROVE DurableInv'
  <2>1. /\ th[c].pc = "writing" /\ th'[c].pc = "writing" /\ Len(th'[c].buf) = Len(th[c].buf) + 1
        /\ mem'[c].count = mem[c].count + 1
        /\ \A d \in Captures \ {c} : th'[d] = th[d] /\ mem'[d] = mem[d]
    <3>1. th[c].buf \in Seq(Nat) /\ mem[c].count \in Nat
      BY <1>n DEF CountsOK
    <3>2. th'[c].buf = Append(th[c].buf, mem[c].count) /\ th'[c].pc = th[c].pc
      <4>1. th' = [th EXCEPT ![c] = [th[c] EXCEPT !.left = th[c].left - 1,
                                                 !.buf = Append(th[c].buf, mem[c].count)]]
        BY <1>10, Zenon DEF WriteFrame
      <4>2. th[c] \in Threads
        BY <1>n DEF CountsOK
      <4>. QED
        BY <1>t, <4>1, <4>2 DEF TypeOK, Threads
    <3>. QED
      BY <1>10, <1>t, <3>1, <3>2, AppendProperties DEF WriteFrame, TypeOK, Records
  <2>2. UNCHANGED <<tool, manifest, torn, acked, used, kb, theirs>>
    BY <1>10 DEF WriteFrame
  <2>3. Durable(c)'
    <3>1. InBuffer(c, "writing")' = InBuffer(c, "writing") + 1
      BY <1>n, <2>1 DEF InBuffer, CountsOK
    <3>2. Landed(c)' = Landed(c) + 1
      <4>1. Landed(c)' = Len(manifest[c]) + InBuffer(c, "writing")'
        BY <2>2 DEF Landed
      <4>2. Landed(c) = Len(manifest[c]) + InBuffer(c, "writing")
        BY DEF Landed
      <4>3. Len(manifest[c]) \in Nat /\ InBuffer(c, "writing") \in Nat
        BY <1>n DEF CountsOK
      <4>. QED
        BY <3>1, <4>1, <4>2, <4>3
    <3>3. Promised(c)' = Promised(c)
      BY <2>1, <2>2 DEF Promised, InBuffer
    <3>4. mem[c].count \in Nat /\ tool.copy.count \in Nat /\ Landed(c) \in Nat
      BY <1>n DEF CountsOK
    <3>5. mem'[c].count <= Landed(c)'
      BY <1>d, <2>1, <3>2, <3>4
    <3>6. tool'.pc = "annotate" /\ tool'.cap = c => tool'.copy.count <= Landed(c)'
      BY <1>d, <2>2, <3>2, <3>4
    <3>. QED
      BY <2>1, <2>2, <3>3, <3>5, <3>6 DEF DurableInv, Durable, Starting
  <2>4. \A d \in Captures \ {c} : Durable(d)'
    BY <2>1, <2>2, DurableUntouched DEF DurableInv
  <2>. QED
    BY <2>3, <2>4 DEF DurableInv
\* All that was buffered lands, whether the batch is complete or not.
<1>f. ASSUME NEW c \in Captures, th[c].pc = "writing", Lands(c, Len(th[c].buf), FALSE),
             th'[c].pc # "writing", th'[c].pc = "synced" => th'[c].buf = th[c].buf,
             \A d \in Captures \ {c} : th'[d] = th[d],
             tool' = tool \/ tool' = Idle, UNCHANGED <<mem, kb, acked, used, theirs>>
      PROVE  DurableInv'
  <2>1. ~torn[c] /\ Len(th[c].buf) \in 0..Len(th[c].buf)
    BY <1>d, <1>f, <1>n DEF CountsOK
  <2>2. /\ Len(manifest'[c]) = Len(manifest[c]) + Len(th[c].buf) /\ ~torn'[c]
        /\ \A d \in Captures \ {c} : manifest'[d] = manifest[d] /\ torn'[d] = torn[d]
    BY <1>f, <1>t, <2>1, LandsEffect
  <2>n. PICK n \in Nat : n = Len(th[c].buf)
    BY <1>n DEF CountsOK
  <2>m. PICK m \in Nat : m = Len(manifest[c]) /\ Len(manifest'[c]) = m + n
    BY <1>n, <2>2, <2>n DEF CountsOK
  <2>3. Landed(c)' = Landed(c) /\ Landed(c) = Len(manifest'[c])
    <3>1. InBuffer(c, "writing") = n /\ InBuffer(c, "writing")' = 0
      BY <1>f, <2>n DEF InBuffer
    <3>2. Landed(c)' = Len(manifest'[c]) + InBuffer(c, "writing")'
      BY DEF Landed
    <3>3. Landed(c) = Len(manifest[c]) + InBuffer(c, "writing")
      BY DEF Landed
    <3>. QED
      BY <2>m, <3>1, <3>2, <3>3
  <2>4. Promised(c)' <= Len(manifest'[c])
    <3>1. acked[c] <= m /\ acked[c] \in Nat
      <4>1. Promised(c) = acked[c] + 0
        BY <1>f DEF Promised, InBuffer
      <4>2. Promised(c) <= Len(manifest[c]) /\ acked[c] \in Nat
        BY <1>n DEF DurableInv, Durable, CountsOK
      <4>. QED
        BY <2>m, <4>1, <4>2
    <3>2. InBuffer(c, "synced")' \in {0, n}
      BY <1>f, <2>n DEF InBuffer
    <3>3. Promised(c)' = acked[c] + InBuffer(c, "synced")'
      BY <1>f DEF Promised
    <3>. QED
      BY <2>m, <3>1, <3>2, <3>3
  <2>5. Durable(c)'
    <3>1. kb'[c].count <= Len(manifest'[c]) /\ \A o \in Others : theirs'[o][c].count <= Len(manifest'[c])
      <4>1. /\ kb[c].count <= m /\ kb'[c] = kb[c]
            /\ \A o \in Others : theirs[o][c].count <= m /\ theirs'[o][c] = theirs[o][c]
        BY <1>f, <1>d, <2>m
      <4>2. kb[c].count \in Nat /\ \A o \in Others : theirs[o][c].count \in Nat
        BY <1>n DEF CountsOK
      <4>. QED
        BY <2>m, <4>1, <4>2
    <3>2. tool'.pc = "annotate" /\ tool'.cap = c => tool'.copy.count <= Landed(c)'
      BY <1>d, <1>f, <2>3 DEF Idle, Tool
    <3>3. mem'[c].count <= Landed(c)'
      BY <1>d, <1>f, <2>3
    <3>. QED
      BY <2>2, <2>4, <3>1, <3>2, <3>3 DEF Durable
  <2>6. \A d \in Captures \ {c} : Durable(d)'
    BY <1>f, <2>2, DurableUntouched DEF DurableInv
  <2>. QED
    BY <2>5, <2>6 DEF DurableInv
<1>11. ASSUME NEW c \in Captures, Sync(c) PROVE DurableInv'
  <2>1. /\ th[c].pc = "writing" /\ th'[c].pc = "synced" /\ th'[c].buf = th[c].buf
        /\ \A d \in Captures \ {c} : th'[d] = th[d]
    BY <1>11, <1>t DEF Sync, TypeOK, Threads
  <2>. QED
    BY <1>11, <1>f, <2>1 DEF Sync
<1>12. ASSUME NEW c \in Captures, WriteFails(c) PROVE DurableInv'
  <2>1. /\ th[c].pc = "writing" /\ th'[c].pc \in {"running", "dead"}
        /\ \A d \in Captures \ {c} : th'[d] = th[d]
    BY <1>12, <1>t, RaiseEffect DEF WriteFails
  <2>2. tool' = tool \/ tool' = Idle
    BY <1>12 DEF WriteFails, Raise
  <2>3. Lands(c, Len(th[c].buf), FALSE) /\ UNCHANGED <<mem, kb, acked, used, theirs>>
    BY <1>12 DEF WriteFails
  <2>. QED
    BY <1>f, <2>1, <2>2, <2>3
<1>13. ASSUME NEW c \in Captures, AppendSaves(c) PROVE DurableInv'
  <2>1. \A d \in Captures : \/ th'[d] = th[d]
                            \/ d = c /\ th[d].pc = "synced" /\ th'[d].pc \in {"running", "dead"}
    BY <1>13, <1>t, RaiseEffect DEF AppendSaves
  <2>2. tool' = tool \/ tool' = Idle
    BY <1>13 DEF AppendSaves, Raise
  <2>3. UNCHANGED <<manifest, torn, acked, used, mem, kb, theirs>>
    BY <1>13 DEF AppendSaves
  <2>. QED
    BY <1>t, <1>d, <2>1, <2>2, <2>3, DurableKept DEF Starting, Tool, Idle
<1>14. ASSUME NEW c \in Captures, AppendReturns(c) PROVE DurableInv'
  <2>1. /\ th[c].pc = "synced" /\ th'[c].pc \in {"running", "dead"}
        /\ \A d \in Captures \ {c} : th'[d] = th[d]
    <3>1. CASE Raise(c)
      BY <1>14, <1>t, <3>1, RaiseEffect DEF AppendReturns
    <3>2. CASE th' = [th EXCEPT ![c] = Thread(IF th[c].last THEN "dead" ELSE "running")]
      BY <1>14, <1>t, <3>2 DEF AppendReturns, TypeOK, Thread
    <3>. QED
      BY <1>14, <3>1, <3>2 DEF AppendReturns
  <2>2. UNCHANGED <<mem, manifest, torn, used, kb, theirs>> /\ (tool' = tool \/ tool' = Idle)
    BY <1>14 DEF AppendReturns, Raise
  <2>3. \A d \in Captures : th[d].pc # "writing" /\ Landed(d) = Len(manifest[d])
    <3>1. \A d \in Captures : th[d].pc # "writing"
      BY <2>1 DEF SafetyInv, LockHeldByWriter
    <3>2. \A d \in Captures : Len(manifest[d]) \in Nat
      BY <1>n DEF CountsOK
    <3>3. \A d \in Captures : InBuffer(d, "writing") = 0
      BY <3>1 DEF InBuffer
    <3>. QED
      BY <3>1, <3>2, <3>3 DEF Landed
  <2>4. \A d \in Captures : Landed(d)' = Landed(d)
    <3>1. \A d \in Captures : th'[d].pc # "writing"
      BY <2>1, <2>3
    <3>. QED
      BY <2>2, <2>3, <3>1 DEF Landed, InBuffer
  <2>5. \A d \in Captures : /\ kb'[d].count <= Len(manifest'[d])
                            /\ \A o \in Others : theirs'[o][d].count <= Len(manifest'[d])
    BY <1>d, <2>2
  <2>6. \A d \in Captures : Promised(d)' <= Len(manifest'[d])
    <3>1. \A d \in Captures : Promised(d)' \in Nat /\ Promised(d) \in Nat
      BY <1>n DEF CountsOK
    <3>2. \A d \in Captures \ {c} : acked'[d] = acked[d]
      BY <1>14, <1>t DEF AppendReturns, TypeOK
    <3>3. \A d \in Captures \ {c} : Promised(d)' = Promised(d)
      BY <2>1, <3>2 DEF Promised, InBuffer
    <3>4. Promised(c)' = acked'[c]
      <4>1. acked'[c] \in Nat
        BY <1>n DEF CountsOK
      <4>2. InBuffer(c, "synced")' = 0
        BY <2>1 DEF InBuffer
      <4>3. Promised(c)' = acked'[c] + InBuffer(c, "synced")'
        BY DEF Promised
      <4>. QED
        BY <4>1, <4>2, <4>3
    <3>5. Promised(c) = acked[c] + Len(th[c].buf)
      BY <2>1 DEF Promised, InBuffer
    <3>6. acked'[c] = acked[c] \/ acked'[c] = acked[c] + Len(th[c].buf)
      BY <1>14, <1>t DEF AppendReturns, TypeOK
    <3>7. Promised(c)' <= Promised(c)
      <4>1. acked[c] \in Nat /\ Len(th[c].buf) \in Nat
        BY <1>n DEF CountsOK
      <4>. QED
        BY <3>4, <3>5, <3>6, <4>1
    <3>8. \A d \in Captures : Promised(d) <= Len(manifest[d]) /\ Len(manifest[d]) \in Nat
      BY <1>n DEF DurableInv, Durable, CountsOK
    <3>. QED
      BY <2>2, <3>1, <3>3, <3>7, <3>8
  <2>7. \A d \in Captures : torn'[d] => th'[d].pc = "none" /\ d \in used' /\ ~Starting(d)'
    BY <1>d, <2>1, <2>2 DEF Starting, Idle, Tool
  <2>8. \A d \in Captures : /\ mem'[d].count <= Landed(d)'
                            /\ tool'.pc = "annotate" /\ tool'.cap = d => tool'.copy.count <= Landed(d)'
    BY <1>d, <2>2, <2>4 DEF Idle, Tool
  <2>. QED
    BY <2>5, <2>6, <2>7, <2>8 DEF DurableInv, Durable
<1>15. ASSUME NEW c \in Captures, HandlerReturns(c) PROVE DurableInv'
  <2>1. \/ tool' = Idle
        \/ tool' = Tool("listen", c) /\ Starting(c)
    BY <1>15 DEF HandlerReturns, Starting
  <2>2. UNCHANGED <<th, manifest, torn, acked, used, mem, kb, theirs>>
    BY <1>15 DEF HandlerReturns
  <2>. QED
    BY <1>t, <1>d, <2>1, <2>2, DurableKept DEF Starting, Tool, Idle
<1>16. CASE Replace
  <2>1. \A d \in Captures : mem[d].count <= Len(manifest[d])
    <3>1. \A d \in Captures : th[d].pc # "writing"
      BY <1>16 DEF Replace, SafetyInv, LockHeldByWriter, None
    <3>2. \A d \in Captures : Landed(d) = Len(manifest[d])
      <4>1. \A d \in Captures : Len(manifest[d]) \in Nat
        BY <1>n DEF CountsOK
      <4>2. \A d \in Captures : InBuffer(d, "writing") = 0
        BY <3>1 DEF InBuffer
      <4>. QED
        BY <4>1, <4>2 DEF Landed
    <3>. QED
      BY <1>d, <3>2
  <2>2. kb' = mem /\ UNCHANGED <<tool, th, manifest, torn, acked, used, mem, theirs>>
    BY <1>16 DEF Replace
  <2>. QED
    BY <1>t, <1>d, <2>1, <2>2, DurableKept DEF Starting
<1>17. ASSUME NEW o \in Others, OtherLoads(o) PROVE DurableInv'
  <2>1. \A q \in Others, d \in Captures : theirs'[q][d] = theirs[q][d] \/ theirs'[q][d] = kb[d]
    BY <1>17, <1>t DEF OtherLoads, TypeOK
  <2>2. UNCHANGED <<tool, th, manifest, torn, acked, used, mem, kb>>
    BY <1>17 DEF OtherLoads
  <2>. QED
    BY <1>t, <1>d, <2>1, <2>2, DurableKept DEF Starting
<1>18. ASSUME NEW o \in Others, OtherSaves(o) PROVE DurableInv'
  <2>1. \A q \in Others, d \in Captures : theirs'[q][d].count = theirs[q][d].count
    BY <1>18, <1>t DEF OtherSaves, TypeOK, Records
  <2>2. kb' = theirs'[o] /\ UNCHANGED <<tool, th, manifest, torn, acked, used, mem>>
    BY <1>18 DEF OtherSaves
  <2>. QED
    BY <1>t, <1>d, <2>1, <2>2, DurableKept DEF Starting
<1>19. CASE CrashRestart
  <2>1. /\ mem' = kb /\ tool' = Tool("load", None) /\ \A d \in Captures : th'[d] = Thread("none")
        /\ UNCHANGED <<kb, used, acked, theirs>>
    BY <1>19 DEF CrashRestart
  <2>2. \A d \in Captures : /\ Len(manifest[d]) <= Len(manifest'[d])
                            /\ torn'[d] => torn[d] \/ th[d].pc = "writing"
    <3>1. CASE UNCHANGED <<manifest, torn>>
      BY <1>n, <3>1 DEF CountsOK
    <3>2. CASE ~UNCHANGED <<manifest, torn>>
      <4>1. PICK c \in Captures : /\ th[c].pc = "writing"
                                 /\ \E j \in 0..Len(th[c].buf), tears \in BOOLEAN : Lands(c, j, tears)
        BY <1>19, <3>2 DEF CrashRestart
      <4>2. PICK j \in 0..Len(th[c].buf), tears \in BOOLEAN : Lands(c, j, tears)
        BY <4>1
      <4>3. ~torn[c]
        BY <1>d, <4>1
      <4>4. /\ Len(manifest'[c]) = Len(manifest[c]) + j
            /\ \A d \in Captures \ {c} : manifest'[d] = manifest[d] /\ torn'[d] = torn[d]
        BY <1>t, <4>2, <4>3, LandsEffect
      <4>5. j \in Nat /\ \A d \in Captures : Len(manifest[d]) \in Nat
        BY <1>n DEF CountsOK
      <4>. QED
        BY <4>1, <4>4, <4>5
    <3>. QED
      BY <3>1, <3>2
  <2>3. \A d \in Captures : Landed(d)' = Len(manifest'[d]) /\ Promised(d)' = acked[d]
    <3>1. \A d \in Captures : Len(manifest'[d]) \in Nat /\ acked'[d] \in Nat
      BY <1>n DEF CountsOK
    <3>2. \A d \in Captures : InBuffer(d, "writing")' = 0 /\ InBuffer(d, "synced")' = 0
      BY <2>1 DEF InBuffer, Thread
    <3>. QED
      BY <2>1, <3>1, <3>2 DEF Landed, Promised
  <2>4. \A d \in Captures : /\ acked[d] <= Len(manifest'[d]) /\ kb[d].count <= Len(manifest'[d])
                            /\ \A o \in Others : theirs[o][d].count <= Len(manifest'[d])
    <3>1. \A d \in Captures : acked[d] <= Promised(d)
      <4>1. \A d \in Captures : acked[d] \in Nat /\ InBuffer(d, "synced") \in Nat
        BY <1>n DEF CountsOK
      <4>. QED
        BY <4>1 DEF Promised
    <3>2. \A d \in Captures : /\ Len(manifest[d]) \in Nat /\ Len(manifest'[d]) \in Nat
                              /\ acked[d] \in Nat /\ kb[d].count \in Nat /\ Promised(d) \in Nat
                              /\ \A o \in Others : theirs[o][d].count \in Nat
      BY <1>n DEF CountsOK
    <3>3. \A d \in Captures : /\ Promised(d) <= Len(manifest[d]) /\ kb[d].count <= Len(manifest[d])
                              /\ \A o \in Others : theirs[o][d].count <= Len(manifest[d])
      BY DEF DurableInv, Durable
    <3>. QED
      BY <2>2, <3>1, <3>2, <3>3
  <2>5. \A d \in Captures : torn'[d] => d \in used
    <3>1. \A d \in Captures : th[d].pc = "writing" => d \in used
      BY DEF SafetyInv, LockHeldByWriter, RecordsPrecede
    <3>. QED
      BY <1>d, <2>2, <3>1
  <2>6. tool'.pc = "load" /\ \A d \in Captures : th'[d].pc = "none" /\ ~Starting(d)'
    BY <2>1 DEF Starting, Tool, Thread
  <2>. QED
    BY <2>1, <2>3, <2>4, <2>5, <2>6 DEF DurableInv, Durable
<1>20. CASE LoadSig \/ UNCHANGED vars
  <2>1. tool' = tool \/ tool' = Idle
    BY <1>20 DEF LoadSig, vars
  <2>2. UNCHANGED <<th, manifest, torn, acked, used, mem, kb, theirs>>
    BY <1>20 DEF LoadSig, vars
  <2>. QED
    BY <1>t, <1>d, <2>1, <2>2, DurableKept DEF Starting, Tool, Idle
<1>. QED
  BY <1>1, <1>2, <1>3, <1>4, <1>5, <1>6, <1>7, <1>8, <1>9, <1>10, <1>11, <1>12, <1>13, <1>14,
     <1>15, <1>16, <1>17, <1>18, <1>19, <1>20 DEF Next, ToolStep, ListenerStep

\* Before the first capture there is nothing to count.
LEMMA DurableInitial == Init => DurableInv
<1> SUFFICES ASSUME Init, NEW c \in Captures PROVE Durable(c)
  BY DEF DurableInv
<1>1. manifest[c] = <<>> /\ th[c].pc = "none" /\ ~torn[c] /\ tool.pc = "idle"
  BY DEF Init, Thread, Idle, Tool
<1>2. /\ mem[c].count = 0 /\ kb[c].count = 0 /\ acked[c] = 0
      /\ \A o \in Others : theirs[o][c].count = 0
  BY DEF Init, Absent, Record
<1>3. Landed(c) = 0 /\ Promised(c) = 0
  BY <1>1, <1>2 DEF Landed, Promised, InBuffer
<1>. QED
  BY <1>1, <1>2, <1>3 DEF Durable

(* Counts are covered by manifests in every reachable state ...              *)
LEMMA DurableCorrect ==
  ASSUME ~IoFaults
  PROVE  Spec => []DurableInv
  BY DurableInitial, DurableInductive, SafetyCorrect, PTL DEF Spec

(* ... so kb.json never counts a frame that the manifest lacks, whatever     *)
(* step the process dies in and whatever labels and notes put back ...       *)
THEOREM KbCountsAreDurable ==
  ASSUME ~IoFaults
  PROVE  Spec => []KbNeverAhead
<1>1. DurableInv => KbNeverAhead
  BY DEF DurableInv, Durable, KbNeverAhead
<1>. QED
  BY <1>1, DurableCorrect, PTL

(* ... and no frame is lost whose id append_frames has returned.             *)
THEOREM AckedFramesSurvive ==
  ASSUME ~IoFaults
  PROVE  Spec => []AckedReadable
<1>1. TypeOK /\ DurableInv => AckedReadable
  <2> SUFFICES ASSUME TypeOK, DurableInv, NEW c \in Captures PROVE acked[c] <= Len(manifest[c])
    BY DEF AckedReadable
  <2>1. Promised(c) <= Len(manifest[c])
    BY DEF DurableInv, Durable
  <2>2. /\ acked[c] \in Nat /\ InBuffer(c, "synced") \in Nat
        /\ Promised(c) \in Nat /\ Len(manifest[c]) \in Nat
    BY CountsTyped DEF CountsOK
  <2>3. acked[c] <= Promised(c)
    BY <2>2 DEF Promised
  <2>. QED
    BY <2>1, <2>2, <2>3
<1>. QED
  BY <1>1, TypeCorrect, DurableCorrect, PTL

-----------------------------------------------------------------------------
(* When nobody labels or notes a capture that is still appended to: the      *)
(* capture_seq numbers of a manifest increase, with any writes failing.      *)

Increasing(s) == \A i, j \in 1..Len(s) : i < j => s[i] < s[j]
Below(s, n)   == \A i \in 1..Len(s) : s[i] < n

\* The manifest of c as it will be when append_frames has written its buffer.
Pending(c) == IF th[c].pc = "writing" THEN manifest[c] \o th[c].buf ELSE manifest[c]

\* The actor of c may append to it.
Appending(c) == th[c].pc \notin {"none", "dead"} /\ mem[c].st = "open"

\* Numbers increase, up to the next one that will be given out.
Ordered(c) ==
    /\ Increasing(Pending(c))
    /\ Appending(c) => Below(Pending(c), mem[c].count)
    /\ Starting(c) => manifest[c] = <<>>
    /\ th[c].pc \in {"running", "waiting"} => th[c].buf = <<>>
    /\ tool.pc = "annotate" /\ tool.cap = c => ~Appending(c)

OrderedInv == \A c \in Captures : Ordered(c)

(* A number above all others may be appended.                                *)
LEMMA IncreasingAppend ==
  ASSUME NEW s \in Seq(Nat), NEW n \in Nat, Increasing(s), Below(s, n)
  PROVE  Increasing(Append(s, n)) /\ Below(Append(s, n), n + 1)
<1>1. /\ Len(Append(s, n)) = Len(s) + 1 /\ Len(s) \in Nat
      /\ \A i \in 1..Len(s) : Append(s, n)[i] = s[i] /\ s[i] \in Nat
      /\ Append(s, n)[Len(s) + 1] = n
  BY AppendProperties
<1>. QED
  BY <1>1 DEF Increasing, Below

(* What lands of a buffer behind a manifest keeps the order of both, also    *)
(* when its first line is swallowed by a fragment and its last ones are lost.*)
LEMMA IncreasingLanded ==
  ASSUME NEW s \in Seq(Nat), NEW b \in Seq(Nat), NEW k \in {1, 2}, NEW j \in 0..Len(b),
         Increasing(s \o b)
  PROVE  /\ Increasing(s \o SubSeq(b, k, j))
         /\ \A n \in Nat : Below(s \o b, n) => Below(s \o SubSeq(b, k, j), n)
<1>. DEFINE t == SubSeq(b, k, j)
            from(i) == IF i <= Len(s) THEN i ELSE i + k - 1
<1>1. Len(s) \in Nat /\ Len(b) \in Nat /\ j \in Nat /\ j <= Len(b)
  OBVIOUS
<1>2. /\ t \in Seq(Nat) /\ Len(t) \in Nat
      /\ \A i \in 1..Len(t) : i + k - 1 \in 1..Len(b) /\ t[i] = b[i + k - 1]
  <2>1. \A i \in k..j : b[i] \in Nat
    BY <1>1
  <2>2. /\ t \in Seq(Nat) /\ Len(t) = IF k <= j THEN j - k + 1 ELSE 0
        /\ \A i \in 1..(j - k + 1) : t[i] = b[k + i - 1]
    BY <1>1, <2>1, SubSeqProperties
  <2>. QED
    BY <1>1, <2>2
<1>. PICK m \in Nat : m = Len(s)
  BY <1>1
<1>3. /\ Len(s \o t) = m + Len(t) /\ Len(s \o b) = m + Len(b)
      /\ \A i \in 1..(m + Len(t)) : (s \o t)[i] = IF i <= m THEN s[i] ELSE t[i - m]
      /\ \A i \in 1..(m + Len(b)) : (s \o b)[i] = IF i <= m THEN s[i] ELSE b[i - m]
  BY <1>2, ConcatProperties
<1>4. \A i \in 1..Len(s \o t) : from(i) \in 1..Len(s \o b) /\ (s \o t)[i] = (s \o b)[from(i)]
  <2> SUFFICES ASSUME NEW i \in 1..Len(s \o t)
               PROVE  from(i) \in 1..Len(s \o b) /\ (s \o t)[i] = (s \o b)[from(i)]
    OBVIOUS
  <2>1. CASE i <= m
    BY <1>1, <1>2, <1>3, <2>1
  <2>2. CASE i > m
    <3>1. i - m \in 1..Len(t) /\ (s \o t)[i] = t[i - m]
      BY <1>2, <1>3, <2>2
    <3>2. i - m + k - 1 \in 1..Len(b) /\ t[i - m] = b[i - m + k - 1]
      BY <1>2, <3>1
    <3>3. from(i) = i + k - 1 /\ from(i) > m /\ from(i) - m = i - m + k - 1
      BY <1>2, <1>3, <2>2
    <3>. QED
      BY <1>1, <1>3, <3>1, <3>2, <3>3
  <2>3. i <= m \/ i > m
    BY <1>2, <1>3
  <2>. QED
    BY <2>1, <2>2, <2>3
<1>5. \A h, i \in 1..Len(s \o t) : h < i => from(h) < from(i)
  BY <1>2, <1>3
<1>. QED
  BY <1>4, <1>5 DEF Increasing, Below

(* What is in order behind a manifest was in order without it.               *)
LEMMA IncreasingPrefix ==
  ASSUME NEW s \in Seq(Nat), NEW b \in Seq(Nat), Increasing(s \o b)
  PROVE  Increasing(s)
<1>1. /\ Len(s \o b) = Len(s) + Len(b) /\ Len(s) \in Nat /\ Len(b) \in Nat
      /\ \A i \in 1..Len(s) : i \in 1..Len(s \o b) /\ (s \o b)[i] = s[i]
  BY ConcatProperties
<1>. QED
  BY <1>1 DEF Increasing

(* Appending to the second part of a sequence appends to the whole.          *)
LEMMA AppendConcat ==
  ASSUME NEW s \in Seq(Nat), NEW b \in Seq(Nat), NEW n \in Nat
  PROVE  s \o Append(b, n) = Append(s \o b, n)
<1>1. <<n>> \in Seq(Nat) /\ s \o b \in Seq(Nat)
  BY ConcatProperties
<1>2. Append(b, n) = b \o <<n>> /\ Append(s \o b, n) = (s \o b) \o <<n>>
  BY <1>1, AppendIsConcat
<1>. QED
  BY <1>1, <1>2, ConcatAssociative

\* The types of what the order is about.
FramesOK ==
    \A c \in Captures :
       /\ manifest[c] \in Seq(Nat) /\ th[c].buf \in Seq(Nat) /\ Pending(c) \in Seq(Nat)
       /\ mem[c].count \in Nat

\* They follow from the types of CaptureStore.
LEMMA FramesTyped == TypeOK => FramesOK
<1> SUFFICES ASSUME TypeOK, NEW c \in Captures
             PROVE  /\ manifest[c] \in Seq(Nat) /\ th[c].buf \in Seq(Nat)
                    /\ Pending(c) \in Seq(Nat) /\ mem[c].count \in Nat
  BY DEF FramesOK
<1>1. manifest[c] \in Seq(Nat) /\ th[c].buf \in Seq(Nat) /\ mem[c].count \in Nat
  BY DEF TypeOK, Threads, Records
<1>2. manifest[c] \o th[c].buf \in Seq(Nat)
  BY <1>1, ConcatProperties
<1>. QED
  BY <1>1, <1>2 DEF Pending

(* A step that writes no frame keeps the order.                              *)
LEMMA OrderedKept ==
  ASSUME OrderedInv,
         \A c \in Captures :
            /\ Pending(c)' = Pending(c)
            /\ Appending(c)' => \/ Appending(c) /\ mem'[c].count = mem[c].count
                                \/ Pending(c) = <<>>
            /\ Starting(c)' => \/ Starting(c) /\ manifest'[c] = manifest[c]
                               \/ manifest'[c] = <<>>
            /\ \/ th'[c] = th[c]
               \/ th'[c].pc \notin {"running", "waiting"}
               \/ th'[c].buf = <<>>
            /\ tool'.pc = "annotate" /\ tool'.cap = c => ~Appending(c)'
  PROVE  OrderedInv'
<1> SUFFICES ASSUME NEW c \in Captures PROVE Ordered(c)'
  BY DEF OrderedInv
<1>1. Ordered(c)
  BY DEF OrderedInv
<1>2. Increasing(Pending(c))'
  BY <1>1 DEF Ordered, Increasing
<1>3. Appending(c)' => Below(Pending(c)', mem'[c].count)
  <2>1. Below(<<>>, mem'[c].count)
    BY DEF Below
  <2>. QED
    BY <1>1, <2>1 DEF Ordered
<1>. QED
  BY <1>1, <1>2, <1>3 DEF Ordered, Below

(* What lands of the buffer of c keeps the order, whatever becomes of c's    *)
(* actor, as long as no frame is in the buffer any more.                     *)
LEMMA OrderedLands ==
  ASSUME TypeOK, OrderedInv, NEW c \in Captures, th[c].pc = "writing",
         NEW j \in 0..Len(th[c].buf), NEW tears \in BOOLEAN, Lands(c, j, tears),
         th'[c].pc # "writing"
  PROVE  /\ Increasing(Pending(c)')
         /\ \A n \in Nat : Below(Pending(c), n) => Below(Pending(c)', n)
         /\ \A d \in Captures \ {c} : manifest'[d] = manifest[d]
<1>1. manifest[c] \in Seq(Nat) /\ th[c].buf \in Seq(Nat)
  BY FramesTyped DEF FramesOK
<1>2. Pending(c) = manifest[c] \o th[c].buf /\ Increasing(Pending(c))
  BY DEF Pending, OrderedInv, Ordered
<1>3. PICK k \in {1, 2} : manifest'[c] = manifest[c] \o SubSeq(th[c].buf, k, j)
  BY DEF Lands, TypeOK
<1>4. Pending(c)' = manifest'[c]
  BY DEF Pending
<1>5. \A d \in Captures \ {c} : manifest'[d] = manifest[d]
  BY DEF Lands, TypeOK
<1>. QED
  BY <1>1, <1>2, <1>3, <1>4, <1>5, IncreasingLanded

(* OrderedInv is inductive when no label or note meets a running listener.   *)
LEMMA OrderedInductive ==
  ASSUME ~LiveLabels, SafetyInv, OrderedInv, [Next]_vars
  PROVE  OrderedInv'
<1>. USE NoneAssumption DEF saveVars, diskVars, fileVars, foreignVars, bookVars
<1>t. TypeOK /\ TypeOK'
  BY TypeStep DEF SafetyInv
<1>n. FramesOK /\ FramesOK'
  BY <1>t, FramesTyped, PTL
<1>d. /\ \A c \in Captures : Starting(c) => manifest[c] = <<>>
      /\ \A c \in Captures : th[c].pc \in {"running", "waiting"} => th[c].buf = <<>>
      /\ \A c \in Captures : tool.pc = "annotate" /\ tool.cap = c => ~Appending(c)
  BY DEF OrderedInv, Ordered
<1>1. ASSUME NEW c \in Captures, StartCapture(c) PROVE OrderedInv'
  <2>1. /\ UNCHANGED <<th, manifest>> /\ tool'.pc # "annotate"
        /\ \A d \in Captures : Starting(d)' => d = c
    BY <1>1 DEF StartCapture, HandlerSaves, Starting, Tool, Idle
  <2>2. manifest[c] = <<>> /\ th[c].pc = "none"
    BY <1>1 DEF StartCapture, SafetyInv, RecordsPrecede
  <2>3. \A d \in Captures \ {c} : mem'[d] = mem[d]
    BY <1>1, <1>t DEF StartCapture, TypeOK
  <2>4. \A d \in Captures : Pending(d)' = Pending(d)
    BY <2>1 DEF Pending
  <2>5. \A d \in Captures : Appending(d)' => Appending(d) /\ mem'[d].count = mem[d].count
    BY <2>1, <2>2, <2>3 DEF Appending
  <2>. QED
    BY <2>1, <2>2, <2>4, <2>5, OrderedKept DEF Starting
<1>2. ASSUME NEW c \in Captures, StartListener(c) PROVE OrderedInv'
  <2>1. manifest[c] = <<>> /\ th[c].pc = "none"
    BY <1>2, <1>d DEF StartListener, Starting, SafetyInv, HandlerKnows, Tool
  <2>2. \A d \in Captures : \/ th'[d] = th[d]
                            \/ d = c /\ th'[d].pc = "running" /\ th'[d].buf = <<>>
    BY <1>2, <1>t DEF StartListener, TypeOK, Thread
  <2>3. UNCHANGED <<mem, manifest>> /\ tool'.pc \notin {"annotate", "starting", "listen"}
    BY <1>2 DEF StartListener, Tool, Idle
  <2>4. \A d \in Captures : Pending(d)' = Pending(d)
    BY <2>1, <2>2, <2>3 DEF Pending
  <2>5. \A d \in Captures : \/ Appending(d)' => Appending(d) /\ mem'[d].count = mem[d].count
                            \/ Pending(d) = <<>>
    BY <2>1, <2>2, <2>3 DEF Appending, Pending
  <2>. QED
    BY <2>2, <2>3, <2>4, <2>5, OrderedKept DEF Starting, Tool
<1>3. ASSUME NEW c \in Captures,
             IngestDone(c) \/ Stop(c) \/ JoinReturns(c) \/ Seal(c)
      PROVE  OrderedInv'
  <2>1. UNCHANGED manifest /\ tool'.pc \notin {"annotate", "starting", "listen"}
    BY <1>3 DEF IngestDone, Stop, JoinReturns, Seal, HandlerSaves, Tool, Idle
  <2>2. \A d \in Captures : \/ th'[d] = th[d]
                            \/ d = c /\ th[d].pc = "running" /\ th'[d].pc = "dead"
    <3>1. CASE IngestDone(c)
      BY <1>t, <3>1 DEF IngestDone, TypeOK, Thread
    <3>2. CASE Stop(c) \/ JoinReturns(c) \/ Seal(c)
      BY <3>2 DEF Stop, JoinReturns, Seal
    <3>. QED
      BY <1>3, <3>1, <3>2
  <2>3. \A d \in Captures : mem'[d] = mem[d] \/ mem'[d].st = "ended"
    <3>1. mem' = mem \/ mem' = [mem EXCEPT ![c].st = "ended"]
      BY <1>3 DEF IngestDone, Stop, JoinReturns, Seal
    <3>2. [mem EXCEPT ![c].st = "ended"][c].st = "ended"
      BY <1>t DEF TypeOK, Records
    <3>. QED
      BY <1>t, <3>1, <3>2 DEF TypeOK
  <2>4. \A d \in Captures : Pending(d)' = Pending(d)
    BY <2>1, <2>2 DEF Pending
  <2>5. \A d \in Captures : Appending(d)' => Appending(d) /\ mem'[d].count = mem[d].count
    BY <2>2, <2>3 DEF Appending
  <2>. QED
    BY <2>1, <2>2, <2>4, <2>5, OrderedKept DEF Starting, Tool
<1>4. ASSUME NEW c \in Captures, AnnotateRead(c) PROVE OrderedInv'
  <2>1. /\ UNCHANGED <<mem, th, manifest>> /\ tool'.pc = "annotate" /\ tool'.cap = c
        /\ ~Appending(c)
    BY <1>4 DEF AnnotateRead, Quiet, Appending
  <2>2. \A d \in Captures : Pending(d)' = Pending(d) /\ Appending(d)' = Appending(d)
    BY <2>1 DEF Pending, Appending
  <2>. QED
    BY <2>1, <2>2, OrderedKept DEF Starting, Tool
<1>5. ASSUME NEW c \in Captures, AnnotateWrite(c) PROVE OrderedInv'
  <2>1. UNCHANGED <<th, manifest>> /\ tool'.pc \in {"annotating", "idle"}
    BY <1>5 DEF AnnotateWrite, HandlerSaves, Tool, Idle
  <2>2. /\ mem'[c].st = mem[c].st /\ \A d \in Captures \ {c} : mem'[d] = mem[d]
        /\ ~Appending(c)
    BY <1>5, <1>t, <1>d DEF AnnotateWrite, SafetyInv, HandlerKnows, TypeOK
  <2>3. \A d \in Captures : Pending(d)' = Pending(d)
    BY <2>1 DEF Pending
  <2>4. \A d \in Captures : Appending(d)' => Appending(d) /\ mem'[d].count = mem[d].count
    BY <2>1, <2>2 DEF Appending
  <2>. QED
    BY <2>1, <2>3, <2>4, OrderedKept DEF Starting, Tool
<1>6. ASSUME NEW c \in Captures, Poll(c) \/ ThreadExits(c) PROVE OrderedInv'
  <2>1. /\ UNCHANGED <<mem, tool, manifest>>
        /\ \A d \in Captures : \/ th'[d] = th[d]
                               \/ /\ d = c /\ th[d].pc = "running"
                                  /\ th'[d].pc \in {"waiting", "dead"} /\ th'[d].buf = <<>>
    <3>1. CASE Poll(c)
      BY <1>t, <3>1 DEF Poll, TypeOK
    <3>2. CASE ThreadExits(c)
      BY <1>t, <3>2 DEF ThreadExits, TypeOK, Thread
    <3>. QED
      BY <1>6, <3>1, <3>2
  <2>2. \A d \in Captures : Pending(d)' = Pending(d)
    BY <2>1 DEF Pending
  <2>3. \A d \in Captures : Appending(d)' => Appending(d) /\ mem'[d].count = mem[d].count
    BY <2>1 DEF Appending
  <2>. QED
    BY <1>d, <2>1, <2>2, <2>3, OrderedKept DEF Starting
<1>7. ASSUME NEW c \in Captures, SourceFails(c) \/ AppendRefused(c) PROVE OrderedInv'
  <2>1. /\ UNCHANGED <<mem, manifest>> /\ (tool' = tool \/ tool' = Idle)
        /\ \A d \in Captures : \/ th'[d] = th[d]
                               \/ /\ d = c /\ th[d].pc \in {"running", "waiting"}
                                  /\ th'[d].pc \in {"running", "dead"} /\ th'[d].buf = <<>>
    <3>1. Raise(c) /\ UNCHANGED <<mem, manifest>> /\ th[c].pc \in {"running", "waiting"}
      BY <1>7 DEF SourceFails, AppendRefused
    <3>2. tool' = tool \/ tool' = Idle
      BY <3>1 DEF Raise
    <3>. QED
      BY <1>t, <3>1, <3>2, RaiseEffect
  <2>2. \A d \in Captures : Pending(d)' = Pending(d)
    BY <2>1 DEF Pending
  <2>3. \A d \in Captures : Appending(d)' => Appending(d) /\ mem'[d].count = mem[d].count
    BY <2>1 DEF Appending
  <2>. QED
    BY <1>d, <2>1, <2>2, <2>3, OrderedKept DEF Starting, Tool, Idle
<1>8. ASSUME NEW c \in Captures, AppendOpens(c) PROVE OrderedInv'
  <2>1. /\ UNCHANGED <<mem, tool, manifest>> /\ th[c].pc = "waiting" /\ th[c].buf = <<>>
        /\ th'[c].pc = "writing" /\ th'[c].buf = <<>>
        /\ \A d \in Captures \ {c} : th'[d] = th[d]
    BY <1>8, <1>t, <1>d DEF AppendOpens, TypeOK, Threads
  <2>2. manifest[c] \o <<>> = manifest[c]
    BY <1>n, ConcatEmptySeq DEF FramesOK
  <2>3. \A d \in Captures : Pending(d)' = Pending(d)
    BY <2>1, <2>2 DEF Pending
  <2>4. \A d \in Captures : Appending(d)' => Appending(d) /\ mem'[d].count = mem[d].count
    BY <2>1 DEF Appending
  <2>. QED
    BY <1>d, <2>1, <2>3, <2>4, OrderedKept DEF Starting
<1>9. ASSUME NEW c \in Captures, WriteFrame(c) PROVE OrderedInv'
  <2>1. /\ UNCHANGED <<tool, manifest>> /\ th[c].pc = "writing" /\ th'[c].pc = "writing"
        /\ \A d \in Captures \ {c} : th'[d] = th[d] /\ mem'[d] = mem[d]
        /\ mem'[c].st = mem[c].st /\ mem'[c].count = mem[c].count + 1
        /\ th'[c].buf = Append(th[c].buf, mem[c].count)
    <3>1. th' = [th EXCEPT ![c] = [th[c] EXCEPT !.left = th[c].left - 1,
                                               !.buf = Append(th[c].buf, mem[c].count)]]
      BY <1>9, Zenon DEF WriteFrame
    <3>2. mem' = [mem EXCEPT ![c] = [mem[c] EXCEPT !.count = mem[c].count + 1]]
      BY <1>9, Zenon DEF WriteFrame
    <3>3. th[c] \in Threads /\ mem[c] \in Records
      BY <1>t DEF TypeOK
    <3>. QED
      BY <1>9, <1>t, <3>1, <3>2, <3>3 DEF WriteFrame, TypeOK, Threads, Records
  <2>2. Ordered(c)'
    <3>1. /\ manifest[c] \in Seq(Nat) /\ th[c].buf \in Seq(Nat) /\ mem[c].count \in Nat
          /\ Pending(c) \in Seq(Nat)
      BY <1>n DEF FramesOK
    <3>2. Appending(c)
      BY <2>1 DEF Appending, SafetyInv, LockHeldByWriter
    <3>3. Pending(c)' = Append(Pending(c), mem[c].count)
      <4>1. Pending(c) = manifest[c] \o th[c].buf
        BY <2>1 DEF Pending
      <4>2. Pending(c)' = manifest[c] \o Append(th[c].buf, mem[c].count)
        BY <2>1 DEF Pending
      <4>3. manifest[c] \o Append(th[c].buf, mem[c].count)
              = Append(manifest[c] \o th[c].buf, mem[c].count)
        BY <3>1, AppendConcat
      <4>. QED
        BY <4>1, <4>2, <4>3
    <3>4. Increasing(Pending(c))' /\ Below(Pending(c)', mem'[c].count)
      <4>1. Increasing(Pending(c)) /\ Below(Pending(c), mem[c].count)
        BY <3>2 DEF OrderedInv, Ordered
      <4>. QED
        BY <2>1, <3>1, <3>3, <4>1, IncreasingAppend
    <3>5. ~Starting(c)' /\ ~(tool'.pc = "annotate" /\ tool'.cap = c)
      BY <1>d, <2>1, <3>2 DEF Starting, SafetyInv, HandlerKnows, Tool
    <3>. QED
      BY <2>1, <3>4, <3>5 DEF Ordered
  <2>3. \A d \in Captures \ {c} : Ordered(d)'
    <3> SUFFICES ASSUME NEW d \in Captures \ {c} PROVE Ordered(d)'
      OBVIOUS
    <3>1. Pending(d)' = Pending(d) /\ Appending(d)' = Appending(d) /\ mem'[d] = mem[d]
      BY <2>1 DEF Pending, Appending
    <3>2. Ordered(d)
      BY DEF OrderedInv
    <3>. QED
      BY <2>1, <3>1, <3>2 DEF Ordered, Starting, Increasing, Below
  <2>. QED
    BY <2>2, <2>3 DEF OrderedInv
\* Something of the buffer lands, and the actor goes on without it.
<1>f. ASSUME NEW c \in Captures, th[c].pc = "writing",
             \E j \in 0..Len(th[c].buf), tears \in BOOLEAN : Lands(c, j, tears),
             th'[c].pc # "writing", th'[c].pc \in {"running", "waiting"} => th'[c].buf = <<>>,
             \A d \in Captures \ {c} : th'[d] = th[d],
             tool' = tool \/ tool' = Idle, UNCHANGED mem
      PROVE  OrderedInv'
  <2>1. PICK j \in 0..Len(th[c].buf), tears \in BOOLEAN : Lands(c, j, tears)
    BY <1>f
  <2>2. /\ Increasing(Pending(c)')
        /\ \A n \in Nat : Below(Pending(c), n) => Below(Pending(c)', n)
        /\ \A d \in Captures \ {c} : manifest'[d] = manifest[d]
    BY <1>t, <1>f, <2>1, OrderedLands
  <2>3. Ordered(c)'
    <3>1. Appending(c) /\ mem[c].count \in Nat
      BY <1>f, <1>n DEF Appending, SafetyInv, LockHeldByWriter, FramesOK
    <3>2. Below(Pending(c)', mem'[c].count)
      BY <1>f, <2>2, <3>1 DEF OrderedInv, Ordered
    <3>3. ~Starting(c)' /\ ~(tool'.pc = "annotate" /\ tool'.cap = c)
      BY <1>d, <1>f, <3>1 DEF Starting, SafetyInv, HandlerKnows, Tool, Idle
    <3>. QED
      BY <1>f, <2>2, <3>2, <3>3 DEF Ordered
  <2>4. \A d \in Captures \ {c} : Ordered(d)'
    <3> SUFFICES ASSUME NEW d \in Captures \ {c} PROVE Ordered(d)'
      OBVIOUS
    <3>1. /\ Pending(d)' = Pending(d) /\ Appending(d)' = Appending(d)
          /\ mem'[d] = mem[d] /\ manifest'[d] = manifest[d] /\ th'[d] = th[d]
      BY <1>f, <2>2 DEF Pending, Appending
    <3>2. Ordered(d)
      BY DEF OrderedInv
    <3>3. /\ Starting(d)' => Starting(d)
          /\ tool'.pc = "annotate" => tool' = tool
      BY <1>f DEF Starting, Idle, Tool
    <3>. QED
      BY <3>1, <3>2, <3>3 DEF Ordered, Increasing, Below
  <2>. QED
    BY <2>3, <2>4 DEF OrderedInv
<1>10. ASSUME NEW c \in Captures, Sync(c) PROVE OrderedInv'
  <2>1. /\ th[c].pc = "writing" /\ th'[c].pc = "synced"
        /\ \A d \in Captures \ {c} : th'[d] = th[d]
    BY <1>10, <1>t DEF Sync, TypeOK, Threads
  <2>2. Len(th[c].buf) \in 0..Len(th[c].buf)
    BY <1>n DEF FramesOK
  <2>. QED
    BY <1>10, <1>f, <2>1, <2>2 DEF Sync
<1>11. ASSUME NEW c \in Captures, WriteFails(c) PROVE OrderedInv'
  <2>1. /\ th[c].pc = "writing" /\ th'[c].pc \in {"running", "dead"} /\ th'[c].buf = <<>>
        /\ \A d \in Captures \ {c} : th'[d] = th[d]
    BY <1>11, <1>t, RaiseEffect DEF WriteFails
  <2>2. \E j \in 0..Len(th[c].buf), tears \in BOOLEAN : Lands(c, j, tears)
    <3>1. Len(th[c].buf) \in 0..Len(th[c].buf)
      BY <1>n DEF FramesOK
    <3>. QED
      BY <1>11, <3>1 DEF WriteFails
  <2>3. UNCHANGED mem /\ (tool' = tool \/ tool' = Idle)
    BY <1>11 DEF WriteFails, Raise
  <2>. QED
    BY <1>f, <2>1, <2>2, <2>3
<1>12. ASSUME NEW c \in Captures, AppendReturns(c) PROVE OrderedInv'
  <2>1. /\ th[c].pc = "synced" /\ th'[c].pc \in {"running", "dead"} /\ th'[c].buf = <<>>
        /\ \A d \in Captures \ {c} : th'[d] = th[d]
    <3>1. CASE Raise(c)
      BY <1>12, <1>t, <3>1, RaiseEffect DEF AppendReturns
    <3>2. CASE th' = [th EXCEPT ![c] = Thread(IF th[c].last THEN "dead" ELSE "running")]
      BY <1>12, <1>t, <3>2 DEF AppendReturns, TypeOK, Thread
    <3>. QED
      BY <1>12, <3>1, <3>2 DEF AppendReturns
  <2>2. UNCHANGED <<mem, manifest>> /\ (tool' = tool \/ tool' = Idle)
    BY <1>12 DEF AppendReturns, Raise
  <2>3. \A d \in Captures : Pending(d)' = Pending(d)
    BY <2>1, <2>2 DEF Pending
  <2>4. \A d \in Captures : Appending(d)' => Appending(d) /\ mem'[d].count = mem[d].count
    BY <2>1, <2>2 DEF Appending
  <2>. QED
    BY <1>d, <2>1, <2>2, <2>3, <2>4, OrderedKept DEF Starting, Tool, Idle
<1>13. ASSUME NEW c \in Captures, AppendSaves(c) PROVE OrderedInv'
  <2>1. \A d \in Captures : \/ th'[d] = th[d]
                            \/ /\ d = c /\ th[d].pc = "synced"
                               /\ th'[d].pc \in {"running", "dead"} /\ th'[d].buf = <<>>
    BY <1>13, <1>t, RaiseEffect DEF AppendSaves
  <2>2. UNCHANGED <<mem, manifest>> /\ (tool' = tool \/ tool' = Idle)
    BY <1>13 DEF AppendSaves, Raise
  <2>3. \A d \in Captures : Pending(d)' = Pending(d)
    BY <2>1, <2>2 DEF Pending
  <2>4. \A d \in Captures : Appending(d)' => Appending(d) /\ mem'[d].count = mem[d].count
    BY <2>1, <2>2 DEF Appending
  <2>. QED
    BY <1>d, <2>1, <2>2, <2>3, <2>4, OrderedKept DEF Starting, Tool, Idle
<1>14. ASSUME \/ \E c \in Captures : HandlerReturns(c)
              \/ Replace \/ LoadSig \/ UNCHANGED vars
              \/ \E o \in Others : OtherLoads(o) \/ OtherSaves(o)
       PROVE  OrderedInv'
  <2>1. UNCHANGED <<mem, th, manifest>>
    BY <1>14 DEF HandlerReturns, Replace, LoadSig, OtherLoads, OtherSaves, vars
  <2>2. \A d \in Captures : Starting(d)' => Starting(d)
    <3>1. \/ tool' = tool \/ tool' = Idle
          \/ \E c \in Captures : Starting(c) /\ tool' = Tool("listen", c)
      BY <1>14 DEF HandlerReturns, Replace, LoadSig, OtherLoads, OtherSaves, vars, Starting
    <3>. QED
      BY <3>1 DEF Starting, Tool, Idle
  <2>3. tool' = tool \/ tool'.pc # "annotate"
    BY <1>14 DEF HandlerReturns, Replace, LoadSig, OtherLoads, OtherSaves, vars, Tool, Idle
  <2>4. \A d \in Captures : Pending(d)' = Pending(d) /\ Appending(d)' = Appending(d)
    BY <2>1 DEF Pending, Appending
  <2>. QED
    BY <1>d, <2>1, <2>2, <2>3, <2>4, OrderedKept
<1>15. CASE CrashRestart
  <2>1. tool'.pc = "load" /\ \A d \in Captures : th'[d].pc = "none" /\ ~Starting(d)'
    BY <1>15 DEF CrashRestart, Starting, Tool, Thread
  <2>2. \A d \in Captures : Increasing(Pending(d))'
    <3>1. CASE UNCHANGED manifest
      <4>1. \A d \in Captures : Increasing(manifest[d])
        BY <1>n, IncreasingPrefix DEF OrderedInv, Ordered, Pending, FramesOK
      <4>. QED
        BY <2>1, <3>1, <4>1 DEF Pending, Increasing
    <3>2. CASE ~UNCHANGED manifest
      <4>1. PICK c \in Captures : /\ th[c].pc = "writing"
                                 /\ \E j \in 0..Len(th[c].buf), tears \in BOOLEAN : Lands(c, j, tears)
        BY <1>15, <3>2 DEF CrashRestart
      <4>2. PICK j \in 0..Len(th[c].buf), tears \in BOOLEAN : Lands(c, j, tears)
        BY <4>1
      <4>3. Increasing(Pending(c)') /\ \A d \in Captures \ {c} : manifest'[d] = manifest[d]
        BY <1>t, <2>1, <4>1, <4>2, OrderedLands
      <4>4. \A d \in Captures \ {c} : Increasing(manifest[d])
        BY <1>n, IncreasingPrefix DEF OrderedInv, Ordered, Pending, FramesOK
      <4>5. \A d \in Captures \ {c} : Increasing(Pending(d))'
        BY <2>1, <4>3, <4>4 DEF Pending, Increasing
      <4>6. Increasing(Pending(c))'
        BY <4>3 DEF Increasing
      <4>. QED
        BY <4>5, <4>6
    <3>. QED
      BY <3>1, <3>2
  <2>. QED
    BY <2>1, <2>2 DEF OrderedInv, Ordered, Appending
<1>. QED
  BY <1>1, <1>2, <1>3, <1>4, <1>5, <1>6, <1>7, <1>8, <1>9, <1>10, <1>11, <1>12, <1>13, <1>14, <1>15
  DEF Next, ToolStep, ListenerStep

\* Before the first capture there is nothing to order.
LEMMA OrderedInitial == Init => OrderedInv
<1> SUFFICES ASSUME Init, NEW c \in Captures PROVE Ordered(c)
  BY DEF OrderedInv
<1>1. manifest[c] = <<>> /\ th[c].pc = "none" /\ tool.pc = "idle"
  BY DEF Init, Thread, Idle, Tool
<1>2. Pending(c) = <<>> /\ ~Appending(c)
  BY <1>1 DEF Pending, Appending
<1>3. Increasing(<<>>)
  BY DEF Increasing
<1>. QED
  BY <1>1, <1>2, <1>3 DEF Ordered, Starting

(* Frames are numbered upwards, each once, although crashes lose a suffix    *)
(* of a batch and failing writes tear lines.                                 *)
THEOREM FramesAreNumberedOnce ==
  ASSUME ~LiveLabels
  PROVE  Spec => []CaptureSeqUnique
<1>1. OrderedInv /\ TypeOK => CaptureSeqUnique
  <2> SUFFICES ASSUME OrderedInv, TypeOK, NEW c \in Captures PROVE Increasing(manifest[c])
    BY DEF CaptureSeqUnique, Increasing
  <2>. QED
    BY FramesTyped, IncreasingPrefix DEF OrderedInv, Ordered, Pending, FramesOK
<1>2. Spec => []OrderedInv
  BY OrderedInitial, OrderedInductive, SafetyCorrect, PTL DEF Spec
<1>. QED
  BY <1>1, <1>2, TypeCorrect, PTL
=============================================================================
