--------------------------- MODULE KbSessions_proofs ---------------------------
(* Theorems about KbSessions and their proofs.                               *)
EXTENDS KbSessions, TLAPS

(* Every step keeps the type of every variable. *)
LEMMA TypeStep == TypeOK /\ [Next]_vars => TypeOK'
<1> SUFFICES ASSUME TypeOK, [Next]_vars PROVE TypeOK'
  OBVIOUS
<1>. USE DEF TypeOK
<1>1. ASSUME NEW s \in Sessions, Load(s) PROVE TypeOK'
  BY <1>1 DEF Load, Files, Fingerprints
<1>2. ASSUME NEW s \in Sessions, LoadSig(s) PROVE TypeOK'
  BY <1>2 DEF LoadSig, Files
<1>3. ASSUME NEW s \in Sessions, Change(s) PROVE TypeOK'
  BY <1>3 DEF Change
<1>4. ASSUME NEW s \in Sessions, Refuse(s) PROVE TypeOK'
  BY <1>4 DEF Refuse
<1>5. ASSUME NEW s \in Sessions, Pass(s) PROVE TypeOK'
  BY <1>5 DEF Pass
<1>6. ASSUME NEW s \in Sessions, ReadForBackup(s) PROVE TypeOK'
  BY <1>6 DEF ReadForBackup
<1>7. ASSUME NEW s \in Sessions, TruncateBackup(s) PROVE TypeOK'
  BY <1>7 DEF TruncateBackup, Files, File, NoFile, Fingerprints
<1>8. ASSUME NEW s \in Sessions, FillBackup(s) PROVE TypeOK'
  BY <1>8 DEF FillBackup
<1>9. ASSUME NEW s \in Sessions, Dump(s) PROVE TypeOK'
  BY <1>9 DEF Dump
<1>10. ASSUME NEW s \in Sessions, Replace(s) PROVE TypeOK'
  BY <1>10 DEF Replace, Files, File, Fingerprints
<1>11. ASSUME NEW s \in Sessions, Restat(s) PROVE TypeOK'
  <2>1. acked' \in SUBSET Updates
    BY <1>11, Zenon DEF Restat
  <2>2. sig' \in [Sessions -> Nat]
    BY <1>11 DEF Restat, Files
  <2>. QED
    BY <1>11, <2>1, <2>2 DEF Restat
<1>12. ASSUME NEW s \in Sessions, SaveFails(s) PROVE TypeOK'
  BY <1>12 DEF SaveFails
<1>13. ASSUME NEW s \in Sessions, Crash(s) PROVE TypeOK'
  BY <1>13 DEF Crash, Fingerprints
<1>14. CASE UNCHANGED vars
  BY <1>14 DEF vars
<1>. QED
  BY <1>1, <1>2, <1>3, <1>4, <1>5, <1>6, <1>7, <1>8, <1>9, <1>10, <1>11, <1>12, <1>13, <1>14 DEF Next, Step

\* The initial state is well typed.
LEMMA TypeInit == Init => TypeOK
<1> SUFFICES ASSUME Init PROVE TypeOK
  OBVIOUS
<1>1. NoFile \in Files
  BY DEF NoFile, File, Files, Fingerprints
<1>2. disk \in Files
  <2>1. CASE KbExists
    <3>1. PICK k \in Fingerprints : disk = File(1, {}, k)
      BY <2>1 DEF Init
    <3>. QED
      BY <3>1 DEF File, Files
  <2>2. CASE ~KbExists
    BY <2>2, <1>1 DEF Init
  <2>. QED
    BY <2>1, <2>2
<1>. QED
  BY <1>1, <1>2, SessionsAssumption DEF Init, TypeOK, Fingerprints

(* Every variable keeps its type. *)
THEOREM TypeCorrect == Spec => []TypeOK
  BY TypeInit, TypeStep, PTL DEF Spec

(* The invariant is inductive when loads and saves do not overlap. *)
LEMMA ExclusiveInductive ==
  ASSUME ~Overlap, ExclusiveInv, [Next]_vars
  PROVE  ExclusiveInv'
<1>t. TypeOK /\ TypeOK'
  BY TypeStep DEF ExclusiveInv
<1>1. ASSUME NEW s \in Sessions, Load(s) PROVE ExclusiveInv'
  <2>1. (disk.gen # 0)'
    BY <1>1, <1>t DEF Load, ExclusiveInv, TypeOK
  <2>2. OneAtATime'
    BY <1>1, <1>t DEF Load, ExclusiveInv, TypeOK, OneAtATime, Busy, Alone
  <2>3. UpToDate'
    BY <1>1, <1>t DEF Load, ExclusiveInv, TypeOK, UpToDate, OneAtATime, Busy, Files, PassedIsCurrent, BackupIsCurrent
  <2>4. PassedIsCurrent'
    BY <1>1, <1>t DEF Load, ExclusiveInv, TypeOK, PassedIsCurrent, OneAtATime, Busy, Files, UpToDate, BackupIsCurrent
  <2>5. BackupIsCurrent'
    BY <1>1, <1>t DEF Load, ExclusiveInv, TypeOK, BackupIsCurrent, OneAtATime, Busy, Files, UpToDate, PassedIsCurrent
  <2>6. BackupIsLatest'
    BY <1>1, <1>t DEF Load, ExclusiveInv, TypeOK, BackupIsLatest, OneAtATime, Busy, Files, UpToDate, PassedIsCurrent, BackupIsCurrent
  <2>7. NoLostWrites'
    BY <1>1, <1>t DEF Load, ExclusiveInv, TypeOK, NoLostWrites, OneAtATime, Busy, Files, UpToDate, PassedIsCurrent, BackupIsCurrent
  <2>8. SaltIsOwn'
    BY <1>1, <1>t DEF Load, ExclusiveInv, TypeOK, SaltIsOwn, OneSalt
  <2>9. OneSalt'
    BY <1>1, <1>t DEF Load, ExclusiveInv, TypeOK, SaltIsOwn, OneSalt, NoLostWrites, OneAtATime
  <2>10. HeldWasAsked'
    BY <1>1, <1>t DEF Load, ExclusiveInv, TypeOK, HeldWasAsked
  <2>. QED
    BY <1>t, <2>1, <2>2, <2>3, <2>4, <2>5, <2>6, <2>7, <2>8, <2>9, <2>10 DEF ExclusiveInv
<1>2. ASSUME NEW s \in Sessions, LoadSig(s) PROVE ExclusiveInv'
  <2>1. (disk.gen # 0)'
    BY <1>2, <1>t DEF LoadSig, ExclusiveInv, TypeOK
  <2>2. OneAtATime'
    BY <1>2, <1>t DEF LoadSig, ExclusiveInv, TypeOK, OneAtATime, Busy
  <2>3. UpToDate'
    BY <1>2, <1>t DEF LoadSig, ExclusiveInv, TypeOK, UpToDate, OneAtATime, Busy, Files, PassedIsCurrent, BackupIsCurrent
  <2>4. PassedIsCurrent'
    BY <1>2, <1>t DEF LoadSig, ExclusiveInv, TypeOK, PassedIsCurrent, OneAtATime, Busy, Files, UpToDate, BackupIsCurrent
  <2>5. BackupIsCurrent'
    BY <1>2, <1>t DEF LoadSig, ExclusiveInv, TypeOK, BackupIsCurrent, OneAtATime, Busy, Files, UpToDate, PassedIsCurrent
  <2>6. BackupIsLatest'
    BY <1>2, <1>t DEF LoadSig, ExclusiveInv, TypeOK, BackupIsLatest, OneAtATime, Busy, Files, UpToDate, PassedIsCurrent, BackupIsCurrent
  <2>7. NoLostWrites'
    BY <1>2, <1>t DEF LoadSig, ExclusiveInv, TypeOK, NoLostWrites, OneAtATime, Busy, Files, UpToDate, PassedIsCurrent, BackupIsCurrent
  <2>8. SaltIsOwn'
    BY <1>2, <1>t DEF LoadSig, ExclusiveInv, TypeOK, SaltIsOwn, OneSalt
  <2>9. OneSalt'
    BY <1>2, <1>t DEF LoadSig, ExclusiveInv, TypeOK, SaltIsOwn, OneSalt
  <2>10. HeldWasAsked'
    BY <1>2, <1>t DEF LoadSig, ExclusiveInv, TypeOK, HeldWasAsked
  <2>. QED
    BY <1>t, <2>1, <2>2, <2>3, <2>4, <2>5, <2>6, <2>7, <2>8, <2>9, <2>10 DEF ExclusiveInv
<1>3. ASSUME NEW s \in Sessions, Change(s) PROVE ExclusiveInv'
  <2>1. (disk.gen # 0)'
    BY <1>3, <1>t DEF Change, ExclusiveInv, TypeOK
  <2>2. OneAtATime'
    BY <1>3, <1>t DEF Change, ExclusiveInv, TypeOK, OneAtATime, Busy, Alone
  <2>3. UpToDate'
    BY <1>3, <1>t DEF Change, ExclusiveInv, TypeOK, UpToDate, OneAtATime, Busy, Files, PassedIsCurrent, BackupIsCurrent
  <2>4. PassedIsCurrent'
    BY <1>3, <1>t DEF Change, ExclusiveInv, TypeOK, PassedIsCurrent, OneAtATime, Busy, Files, UpToDate, BackupIsCurrent
  <2>5. BackupIsCurrent'
    BY <1>3, <1>t DEF Change, ExclusiveInv, TypeOK, BackupIsCurrent, OneAtATime, Busy, Files, UpToDate, PassedIsCurrent
  <2>6. BackupIsLatest'
    BY <1>3, <1>t DEF Change, ExclusiveInv, TypeOK, BackupIsLatest, OneAtATime, Busy, Files, UpToDate, PassedIsCurrent, BackupIsCurrent
  <2>7. NoLostWrites'
    BY <1>3, <1>t DEF Change, ExclusiveInv, TypeOK, NoLostWrites, OneAtATime, Busy, Files, UpToDate, PassedIsCurrent, BackupIsCurrent
  <2>8. SaltIsOwn'
    BY <1>3, <1>t DEF Change, ExclusiveInv, TypeOK, HeldWasAsked, SaltIsOwn, OneSalt
  <2>9. OneSalt'
    BY <1>3, <1>t DEF Change, ExclusiveInv, TypeOK, HeldWasAsked, SaltIsOwn, OneSalt, NoLostWrites
  <2>10. HeldWasAsked'
    BY <1>3, <1>t DEF Change, ExclusiveInv, TypeOK, HeldWasAsked
  <2>. QED
    BY <1>t, <2>1, <2>2, <2>3, <2>4, <2>5, <2>6, <2>7, <2>8, <2>9, <2>10 DEF ExclusiveInv
<1>4. ASSUME NEW s \in Sessions, Refuse(s) PROVE ExclusiveInv'
  <2>1. (disk.gen # 0)'
    BY <1>4, <1>t DEF Refuse, ExclusiveInv, TypeOK, Changed
  <2>2. OneAtATime'
    BY <1>4, <1>t DEF Refuse, ExclusiveInv, TypeOK, OneAtATime, Busy, Changed
  <2>3. UpToDate'
    BY <1>4, <1>t DEF Refuse, ExclusiveInv, TypeOK, UpToDate, OneAtATime, Busy, Files, PassedIsCurrent, BackupIsCurrent, Changed
  <2>4. PassedIsCurrent'
    BY <1>4, <1>t DEF Refuse, ExclusiveInv, TypeOK, PassedIsCurrent, OneAtATime, Busy, Files, UpToDate, BackupIsCurrent, Changed
  <2>5. BackupIsCurrent'
    BY <1>4, <1>t DEF Refuse, ExclusiveInv, TypeOK, BackupIsCurrent, OneAtATime, Busy, Files, UpToDate, PassedIsCurrent, Changed
  <2>6. BackupIsLatest'
    BY <1>4, <1>t DEF Refuse, ExclusiveInv, TypeOK, BackupIsLatest, OneAtATime, Busy, Files, UpToDate, PassedIsCurrent, BackupIsCurrent, Changed
  <2>7. NoLostWrites'
    BY <1>4, <1>t DEF Refuse, ExclusiveInv, TypeOK, NoLostWrites, OneAtATime, Busy, Files, UpToDate, PassedIsCurrent, BackupIsCurrent, Changed
  <2>8. SaltIsOwn'
    BY <1>4, <1>t DEF Refuse, ExclusiveInv, TypeOK, SaltIsOwn, OneSalt
  <2>9. OneSalt'
    BY <1>4, <1>t DEF Refuse, ExclusiveInv, TypeOK, SaltIsOwn, OneSalt
  <2>10. HeldWasAsked'
    BY <1>4, <1>t DEF Refuse, ExclusiveInv, TypeOK, HeldWasAsked
  <2>. QED
    BY <1>t, <2>1, <2>2, <2>3, <2>4, <2>5, <2>6, <2>7, <2>8, <2>9, <2>10 DEF ExclusiveInv
<1>5. ASSUME NEW s \in Sessions, Pass(s) PROVE ExclusiveInv'
  <2>1. (disk.gen # 0)'
    BY <1>5, <1>t DEF Pass, ExclusiveInv, TypeOK, Changed
  <2>2. OneAtATime'
    BY <1>5, <1>t DEF Pass, ExclusiveInv, TypeOK, OneAtATime, Busy, Changed
  <2>3. UpToDate'
    BY <1>5, <1>t DEF Pass, ExclusiveInv, TypeOK, UpToDate, OneAtATime, Busy, Files, PassedIsCurrent, BackupIsCurrent, Changed
  <2>4. PassedIsCurrent'
    BY <1>5, <1>t DEF Pass, ExclusiveInv, TypeOK, PassedIsCurrent, OneAtATime, Busy, Files, UpToDate, BackupIsCurrent, Changed
  <2>5. BackupIsCurrent'
    BY <1>5, <1>t DEF Pass, ExclusiveInv, TypeOK, BackupIsCurrent, OneAtATime, Busy, Files, UpToDate, PassedIsCurrent, Changed
  <2>6. BackupIsLatest'
    BY <1>5, <1>t DEF Pass, ExclusiveInv, TypeOK, BackupIsLatest, OneAtATime, Busy, Files, UpToDate, PassedIsCurrent, BackupIsCurrent, Changed
  <2>7. NoLostWrites'
    BY <1>5, <1>t DEF Pass, ExclusiveInv, TypeOK, NoLostWrites, OneAtATime, Busy, Files, UpToDate, PassedIsCurrent, BackupIsCurrent, Changed
  <2>8. SaltIsOwn'
    BY <1>5, <1>t DEF Pass, ExclusiveInv, TypeOK, SaltIsOwn, OneSalt
  <2>9. OneSalt'
    BY <1>5, <1>t DEF Pass, ExclusiveInv, TypeOK, SaltIsOwn, OneSalt
  <2>10. HeldWasAsked'
    BY <1>5, <1>t DEF Pass, ExclusiveInv, TypeOK, HeldWasAsked
  <2>. QED
    BY <1>t, <2>1, <2>2, <2>3, <2>4, <2>5, <2>6, <2>7, <2>8, <2>9, <2>10 DEF ExclusiveInv
<1>6. ASSUME NEW s \in Sessions, ReadForBackup(s) PROVE ExclusiveInv'
  <2>1. (disk.gen # 0)'
    BY <1>6, <1>t DEF ReadForBackup, ExclusiveInv, TypeOK
  <2>2. OneAtATime'
    BY <1>6, <1>t DEF ReadForBackup, ExclusiveInv, TypeOK, OneAtATime, Busy
  <2>3. UpToDate'
    BY <1>6, <1>t DEF ReadForBackup, ExclusiveInv, TypeOK, UpToDate, OneAtATime, Busy, Files, PassedIsCurrent, BackupIsCurrent
  <2>4. PassedIsCurrent'
    BY <1>6, <1>t DEF ReadForBackup, ExclusiveInv, TypeOK, PassedIsCurrent, OneAtATime, Busy, Files, UpToDate, BackupIsCurrent
  <2>5. BackupIsCurrent'
    BY <1>6, <1>t DEF ReadForBackup, ExclusiveInv, TypeOK, BackupIsCurrent, OneAtATime, Busy, Files, UpToDate, PassedIsCurrent
  <2>6. BackupIsLatest'
    BY <1>6, <1>t DEF ReadForBackup, ExclusiveInv, TypeOK, BackupIsLatest, OneAtATime, Busy, Files, UpToDate, PassedIsCurrent, BackupIsCurrent
  <2>7. NoLostWrites'
    BY <1>6, <1>t DEF ReadForBackup, ExclusiveInv, TypeOK, NoLostWrites, OneAtATime, Busy, Files, UpToDate, PassedIsCurrent, BackupIsCurrent
  <2>8. SaltIsOwn'
    BY <1>6, <1>t DEF ReadForBackup, ExclusiveInv, TypeOK, SaltIsOwn, OneSalt
  <2>9. OneSalt'
    BY <1>6, <1>t DEF ReadForBackup, ExclusiveInv, TypeOK, SaltIsOwn, OneSalt
  <2>10. HeldWasAsked'
    BY <1>6, <1>t DEF ReadForBackup, ExclusiveInv, TypeOK, HeldWasAsked
  <2>. QED
    BY <1>t, <2>1, <2>2, <2>3, <2>4, <2>5, <2>6, <2>7, <2>8, <2>9, <2>10 DEF ExclusiveInv
<1>7. ASSUME NEW s \in Sessions, TruncateBackup(s) PROVE ExclusiveInv'
  <2>1. (disk.gen # 0)'
    BY <1>7, <1>t DEF TruncateBackup, ExclusiveInv, TypeOK, File, NoFile, Files
  <2>2. OneAtATime'
    BY <1>7, <1>t DEF TruncateBackup, ExclusiveInv, TypeOK, OneAtATime, Busy, File, NoFile, Files
  <2>3. UpToDate'
    BY <1>7, <1>t DEF TruncateBackup, ExclusiveInv, TypeOK, UpToDate, OneAtATime, Busy, Files, PassedIsCurrent, BackupIsCurrent, File, NoFile
  <2>4. PassedIsCurrent'
    BY <1>7, <1>t DEF TruncateBackup, ExclusiveInv, TypeOK, PassedIsCurrent, OneAtATime, Busy, Files, UpToDate, BackupIsCurrent, File, NoFile
  <2>5. BackupIsCurrent'
    BY <1>7, <1>t DEF TruncateBackup, ExclusiveInv, TypeOK, BackupIsCurrent, OneAtATime, Busy, Files, UpToDate, PassedIsCurrent, File, NoFile
  <2>6. BackupIsLatest'
    BY <1>7, <1>t DEF TruncateBackup, ExclusiveInv, TypeOK, BackupIsLatest, OneAtATime, Busy, Files, UpToDate, PassedIsCurrent, BackupIsCurrent, File, NoFile
  <2>7. NoLostWrites'
    BY <1>7, <1>t DEF TruncateBackup, ExclusiveInv, TypeOK, NoLostWrites, OneAtATime, Busy, Files, UpToDate, PassedIsCurrent, BackupIsCurrent, File, NoFile
  <2>8. SaltIsOwn'
    BY <1>7, <1>t DEF TruncateBackup, ExclusiveInv, TypeOK, SaltIsOwn, OneSalt
  <2>9. OneSalt'
    BY <1>7, <1>t DEF TruncateBackup, ExclusiveInv, TypeOK, SaltIsOwn, OneSalt
  <2>10. HeldWasAsked'
    BY <1>7, <1>t DEF TruncateBackup, ExclusiveInv, TypeOK, HeldWasAsked
  <2>. QED
    BY <1>t, <2>1, <2>2, <2>3, <2>4, <2>5, <2>6, <2>7, <2>8, <2>9, <2>10 DEF ExclusiveInv
<1>8. ASSUME NEW s \in Sessions, FillBackup(s) PROVE ExclusiveInv'
  <2>1. (disk.gen # 0)'
    BY <1>8, <1>t DEF FillBackup, ExclusiveInv, TypeOK
  <2>2. OneAtATime'
    BY <1>8, <1>t DEF FillBackup, ExclusiveInv, TypeOK, OneAtATime, Busy
  <2>3. UpToDate'
    BY <1>8, <1>t DEF FillBackup, ExclusiveInv, TypeOK, UpToDate, OneAtATime, Busy, Files, PassedIsCurrent, BackupIsCurrent
  <2>4. PassedIsCurrent'
    BY <1>8, <1>t DEF FillBackup, ExclusiveInv, TypeOK, PassedIsCurrent, OneAtATime, Busy, Files, UpToDate, BackupIsCurrent
  <2>5. BackupIsCurrent'
    BY <1>8, <1>t DEF FillBackup, ExclusiveInv, TypeOK, BackupIsCurrent, OneAtATime, Busy, Files, UpToDate, PassedIsCurrent
  <2>6. BackupIsLatest'
    BY <1>8, <1>t DEF FillBackup, ExclusiveInv, TypeOK, BackupIsLatest, OneAtATime, Busy, Files, UpToDate, PassedIsCurrent, BackupIsCurrent
  <2>7. NoLostWrites'
    BY <1>8, <1>t DEF FillBackup, ExclusiveInv, TypeOK, NoLostWrites, OneAtATime, Busy, Files, UpToDate, PassedIsCurrent, BackupIsCurrent
  <2>8. SaltIsOwn'
    BY <1>8, <1>t DEF FillBackup, ExclusiveInv, TypeOK, SaltIsOwn, OneSalt
  <2>9. OneSalt'
    BY <1>8, <1>t DEF FillBackup, ExclusiveInv, TypeOK, SaltIsOwn, OneSalt
  <2>10. HeldWasAsked'
    BY <1>8, <1>t DEF FillBackup, ExclusiveInv, TypeOK, HeldWasAsked
  <2>. QED
    BY <1>t, <2>1, <2>2, <2>3, <2>4, <2>5, <2>6, <2>7, <2>8, <2>9, <2>10 DEF ExclusiveInv
<1>9. ASSUME NEW s \in Sessions, Dump(s) PROVE ExclusiveInv'
  <2>1. (disk.gen # 0)'
    BY <1>9, <1>t DEF Dump, ExclusiveInv, TypeOK
  <2>2. OneAtATime'
    BY <1>9, <1>t DEF Dump, ExclusiveInv, TypeOK, OneAtATime, Busy
  <2>3. UpToDate'
    BY <1>9, <1>t DEF Dump, ExclusiveInv, TypeOK, UpToDate, OneAtATime, Busy, Files, PassedIsCurrent, BackupIsCurrent
  <2>4. PassedIsCurrent'
    BY <1>9, <1>t DEF Dump, ExclusiveInv, TypeOK, PassedIsCurrent, OneAtATime, Busy, Files, UpToDate, BackupIsCurrent
  <2>5. BackupIsCurrent'
    BY <1>9, <1>t DEF Dump, ExclusiveInv, TypeOK, BackupIsCurrent, OneAtATime, Busy, Files, UpToDate, PassedIsCurrent
  <2>6. BackupIsLatest'
    BY <1>9, <1>t DEF Dump, ExclusiveInv, TypeOK, BackupIsLatest, OneAtATime, Busy, Files, UpToDate, PassedIsCurrent, BackupIsCurrent
  <2>7. NoLostWrites'
    BY <1>9, <1>t DEF Dump, ExclusiveInv, TypeOK, NoLostWrites, OneAtATime, Busy, Files, UpToDate, PassedIsCurrent, BackupIsCurrent
  <2>8. SaltIsOwn'
    BY <1>9, <1>t DEF Dump, ExclusiveInv, TypeOK, SaltIsOwn, OneSalt
  <2>9. OneSalt'
    BY <1>9, <1>t DEF Dump, ExclusiveInv, TypeOK, SaltIsOwn, OneSalt
  <2>10. HeldWasAsked'
    BY <1>9, <1>t DEF Dump, ExclusiveInv, TypeOK, HeldWasAsked
  <2>. QED
    BY <1>t, <2>1, <2>2, <2>3, <2>4, <2>5, <2>6, <2>7, <2>8, <2>9, <2>10 DEF ExclusiveInv
<1>10. ASSUME NEW s \in Sessions, Replace(s) PROVE ExclusiveInv'
  <2>1. (disk.gen # 0)'
    BY <1>10, <1>t DEF Replace, ExclusiveInv, TypeOK, File, Files
  <2>2. OneAtATime'
    BY <1>10, <1>t DEF Replace, ExclusiveInv, TypeOK, OneAtATime, Busy, File, Files
  <2>3. UpToDate'
    BY <1>10, <1>t DEF Replace, ExclusiveInv, TypeOK, UpToDate, OneAtATime, Busy, Files, PassedIsCurrent, BackupIsCurrent, File
  <2>4. PassedIsCurrent'
    BY <1>10, <1>t DEF Replace, ExclusiveInv, TypeOK, PassedIsCurrent, OneAtATime, Busy, Files, UpToDate, BackupIsCurrent, File
  <2>5. BackupIsCurrent'
    BY <1>10, <1>t DEF Replace, ExclusiveInv, TypeOK, BackupIsCurrent, OneAtATime, Busy, Files, UpToDate, PassedIsCurrent, File
  <2>6. BackupIsLatest'
    BY <1>10, <1>t DEF Replace, ExclusiveInv, TypeOK, BackupIsLatest, OneAtATime, Busy, Files, UpToDate, PassedIsCurrent, BackupIsCurrent, File
  <2>7. NoLostWrites'
    BY <1>10, <1>t DEF Replace, ExclusiveInv, TypeOK, NoLostWrites, OneAtATime, Busy, Files, UpToDate, PassedIsCurrent, BackupIsCurrent, File
  <2>8. SaltIsOwn'
    BY <1>10, <1>t DEF Replace, ExclusiveInv, TypeOK, SaltIsOwn, OneSalt
  <2>9. OneSalt'
    BY <1>10, <1>t DEF Replace, ExclusiveInv, TypeOK, SaltIsOwn, OneSalt, File, UpToDate, PassedIsCurrent, NoLostWrites
  <2>10. HeldWasAsked'
    BY <1>10, <1>t DEF Replace, ExclusiveInv, TypeOK, HeldWasAsked, File
  <2>. QED
    BY <1>t, <2>1, <2>2, <2>3, <2>4, <2>5, <2>6, <2>7, <2>8, <2>9, <2>10 DEF ExclusiveInv
<1>11. ASSUME NEW s \in Sessions, Restat(s) PROVE ExclusiveInv'
  <2>1. (disk.gen # 0)'
    BY <1>11, <1>t DEF Restat, ExclusiveInv, TypeOK
  <2>2. OneAtATime'
    BY <1>11, <1>t DEF Restat, ExclusiveInv, TypeOK, OneAtATime, Busy
  <2>3. UpToDate'
    BY <1>11, <1>t DEF Restat, ExclusiveInv, TypeOK, UpToDate, OneAtATime, Busy, Files, PassedIsCurrent, BackupIsCurrent
  <2>4. PassedIsCurrent'
    BY <1>11, <1>t DEF Restat, ExclusiveInv, TypeOK, PassedIsCurrent, OneAtATime, Busy, Files, UpToDate, BackupIsCurrent
  <2>5. BackupIsCurrent'
    BY <1>11, <1>t DEF Restat, ExclusiveInv, TypeOK, BackupIsCurrent, OneAtATime, Busy, Files, UpToDate, PassedIsCurrent
  <2>6. BackupIsLatest'
    BY <1>11, <1>t DEF Restat, ExclusiveInv, TypeOK, BackupIsLatest, OneAtATime, Busy, Files, UpToDate, PassedIsCurrent, BackupIsCurrent
  <2>7. NoLostWrites'
    BY <1>11, <1>t DEF Restat, ExclusiveInv, TypeOK, NoLostWrites, OneAtATime, Busy, Files, UpToDate, PassedIsCurrent, BackupIsCurrent
  <2>8. SaltIsOwn'
    BY <1>11, <1>t DEF Restat, ExclusiveInv, TypeOK, SaltIsOwn, OneSalt
  <2>9. OneSalt'
    BY <1>11, <1>t DEF Restat, ExclusiveInv, TypeOK, SaltIsOwn, OneSalt, UpToDate
  <2>10. HeldWasAsked'
    BY <1>11, <1>t DEF Restat, ExclusiveInv, TypeOK, HeldWasAsked
  <2>. QED
    BY <1>t, <2>1, <2>2, <2>3, <2>4, <2>5, <2>6, <2>7, <2>8, <2>9, <2>10 DEF ExclusiveInv
<1>12. ASSUME NEW s \in Sessions, SaveFails(s) PROVE ExclusiveInv'
  <2>1. (disk.gen # 0)'
    BY <1>12, <1>t DEF SaveFails, ExclusiveInv, TypeOK
  <2>2. OneAtATime'
    BY <1>12, <1>t DEF SaveFails, ExclusiveInv, TypeOK, OneAtATime, Busy
  <2>3. UpToDate'
    BY <1>12, <1>t DEF SaveFails, ExclusiveInv, TypeOK, UpToDate, OneAtATime, Busy, Files, PassedIsCurrent, BackupIsCurrent
  <2>4. PassedIsCurrent'
    BY <1>12, <1>t DEF SaveFails, ExclusiveInv, TypeOK, PassedIsCurrent, OneAtATime, Busy, Files, UpToDate, BackupIsCurrent
  <2>5. BackupIsCurrent'
    BY <1>12, <1>t DEF SaveFails, ExclusiveInv, TypeOK, BackupIsCurrent, OneAtATime, Busy, Files, UpToDate, PassedIsCurrent
  <2>6. BackupIsLatest'
    BY <1>12, <1>t DEF SaveFails, ExclusiveInv, TypeOK, BackupIsLatest, OneAtATime, Busy, Files, UpToDate, PassedIsCurrent, BackupIsCurrent
  <2>7. NoLostWrites'
    BY <1>12, <1>t DEF SaveFails, ExclusiveInv, TypeOK, NoLostWrites, OneAtATime, Busy, Files, UpToDate, PassedIsCurrent, BackupIsCurrent
  <2>8. SaltIsOwn'
    BY <1>12, <1>t DEF SaveFails, ExclusiveInv, TypeOK, SaltIsOwn, OneSalt
  <2>9. OneSalt'
    BY <1>12, <1>t DEF SaveFails, ExclusiveInv, TypeOK, SaltIsOwn, OneSalt
  <2>10. HeldWasAsked'
    BY <1>12, <1>t DEF SaveFails, ExclusiveInv, TypeOK, HeldWasAsked
  <2>. QED
    BY <1>t, <2>1, <2>2, <2>3, <2>4, <2>5, <2>6, <2>7, <2>8, <2>9, <2>10 DEF ExclusiveInv
<1>13. ASSUME NEW s \in Sessions, Crash(s) PROVE ExclusiveInv'
  <2>1. (disk.gen # 0)'
    BY <1>13, <1>t DEF Crash, ExclusiveInv, TypeOK
  <2>2. OneAtATime'
    BY <1>13, <1>t DEF Crash, ExclusiveInv, TypeOK, OneAtATime, Busy
  <2>3. UpToDate'
    BY <1>13, <1>t DEF Crash, ExclusiveInv, TypeOK, UpToDate, OneAtATime, Busy, Files, PassedIsCurrent, BackupIsCurrent
  <2>4. PassedIsCurrent'
    BY <1>13, <1>t DEF Crash, ExclusiveInv, TypeOK, PassedIsCurrent, OneAtATime, Busy, Files, UpToDate, BackupIsCurrent
  <2>5. BackupIsCurrent'
    BY <1>13, <1>t DEF Crash, ExclusiveInv, TypeOK, BackupIsCurrent, OneAtATime, Busy, Files, UpToDate, PassedIsCurrent
  <2>6. BackupIsLatest'
    BY <1>13, <1>t DEF Crash, ExclusiveInv, TypeOK, BackupIsLatest, OneAtATime, Busy, Files, UpToDate, PassedIsCurrent, BackupIsCurrent
  <2>7. NoLostWrites'
    BY <1>13, <1>t DEF Crash, ExclusiveInv, TypeOK, NoLostWrites, OneAtATime, Busy, Files, UpToDate, PassedIsCurrent, BackupIsCurrent
  <2>8. SaltIsOwn'
    BY <1>13, <1>t DEF Crash, ExclusiveInv, TypeOK, SaltIsOwn, OneSalt
  <2>9. OneSalt'
    BY <1>13, <1>t DEF Crash, ExclusiveInv, TypeOK, SaltIsOwn, OneSalt
  <2>10. HeldWasAsked'
    BY <1>13, <1>t DEF Crash, ExclusiveInv, TypeOK, HeldWasAsked
  <2>. QED
    BY <1>t, <2>1, <2>2, <2>3, <2>4, <2>5, <2>6, <2>7, <2>8, <2>9, <2>10 DEF ExclusiveInv
<1>14. CASE UNCHANGED vars
  BY <1>14, <1>t DEF vars, ExclusiveInv, OneAtATime, Busy, UpToDate, PassedIsCurrent, BackupIsCurrent, BackupIsLatest, NoLostWrites, HeldWasAsked, SaltIsOwn, OneSalt
<1>. QED
  BY <1>1, <1>2, <1>3, <1>4, <1>5, <1>6, <1>7, <1>8, <1>9, <1>10, <1>11, <1>12, <1>13, <1>14 DEF Next, Step

\* The initial state satisfies the inductive invariant when kb.json exists.
LEMMA ExclusiveInitial == ASSUME KbExists, Init PROVE ExclusiveInv
<1>1. TypeOK
  BY TypeInit
<1>. QED
  BY <1>1 DEF Init, ExclusiveInv, OneAtATime, Busy, UpToDate, PassedIsCurrent, BackupIsCurrent,
              BackupIsLatest, NoLostWrites, HeldWasAsked, SaltIsOwn, OneSalt, File, NoFile

(* With an existing kb.json and no overlap, the inductive invariant always   *)
(* holds ...                                                                 *)
THEOREM ExclusiveCorrect ==
  ASSUME ~Overlap, KbExists
  PROVE  Spec => []ExclusiveInv
  BY ExclusiveInitial, ExclusiveInductive, PTL DEF Spec

(* ... so no session ever loses a write of another ...                       *)
THEOREM WritesSurvive ==
  ASSUME ~Overlap, KbExists
  PROVE  Spec => []NoLostWrites
<1>1. ExclusiveInv => NoLostWrites
  BY DEF ExclusiveInv
<1>. QED
  BY <1>1, ExclusiveCorrect, PTL

(* ... the backup is never older than the generation before kb.json ...      *)
THEOREM BackupIsFresh ==
  ASSUME ~Overlap, KbExists
  PROVE  Spec => []BackupIsLatest
<1>1. ExclusiveInv => BackupIsLatest
  BY DEF ExclusiveInv
<1>. QED
  BY <1>1, ExclusiveCorrect, PTL

(* ... whatever salts the sessions are started with, the pseudonyms that     *)
(* kb.json holds and those it acknowledged are made with one salt ...        *)
THEOREM SaltsNeverMix ==
  ASSUME ~Overlap, KbExists
  PROVE  Spec => []OneSalt
<1>1. ExclusiveInv => OneSalt
  BY DEF ExclusiveInv
<1>. QED
  BY <1>1, ExclusiveCorrect, PTL

(* ... and the sessions implement the register that SharedKb promises.       *)
THEOREM SessionsKeepPromise ==
  ASSUME ~Overlap, KbExists
  PROVE  Spec => KeepsPromise
<1>1. Init => Promise!Init
  BY DEF Init, Promise!Init, File, NoFile
<1>2. ASSUME ExclusiveInv, [Next]_vars
      PROVE  [Promise!Next]_<<disk.data, acked>>
  <2>1. ASSUME NEW s \in Sessions, Replace(s) PROVE Promise!Commit
    <3>1. mem[s] \in SUBSET Updates
      BY <1>2 DEF ExclusiveInv, TypeOK
    <3>2. disk.data \subseteq mem[s]
      BY <1>2, <2>1 DEF Replace, ExclusiveInv, UpToDate, PassedIsCurrent
    <3>3. disk'.data = disk.data \cup mem[s] /\ acked' = acked
      BY <2>1, <3>2 DEF Replace, File
    <3>. QED
      BY <3>1, <3>3 DEF Promise!Commit
  <2>2. ASSUME NEW s \in Sessions, Restat(s) PROVE Promise!Acknowledge
    <3>1. acked' = acked \cup disk.data /\ disk' = disk
      BY <1>2, <2>2 DEF Restat, ExclusiveInv, UpToDate
    <3>. QED
      BY <3>1 DEF Promise!Acknowledge
  <2>3. ASSUME NEW s \in Sessions, Step(s), ~Replace(s), ~Restat(s)
        PROVE  UNCHANGED <<disk.data, acked>>
    BY <2>3 DEF Step, Load, LoadSig, Change, Refuse, Pass, ReadForBackup, TruncateBackup,
                FillBackup, Dump, SaveFails, Crash
  <2>4. CASE UNCHANGED vars
    BY <2>4 DEF vars
  <2>. QED
    BY <1>2, <2>1, <2>2, <2>3, <2>4 DEF Next, Promise!Next
<1>. QED
  BY <1>1, <1>2, ExclusiveCorrect, PTL DEF Spec, KeepsPromise, Promise!Spec
=============================================================================
