------------------------------ MODULE KbSessions ------------------------------
(***************************************************************************)
(* Several apire processes that share one kb.json: Store.__init__,         *)
(* _load_kb, _file_sig and _save_kb of apire/store.py, one step for each   *)
(* access to the file system.  Inside a process the store's lock lets one  *)
(* save run at a time; between processes nothing does but the comparison   *)
(* of the file's signature with the one seen at load or at the last save.  *)
(*                                                                         *)
(* Abstractions: the content of the KB is the set of updates it holds (an  *)
(* update is one change to a capture or a claim); the signature (mtime_ns, *)
(* size) of a file is the number of its generation, 0 when there is no     *)
(* file, so two generations never share a signature; a redaction salt is   *)
(* known by its fingerprint; mkdir and the normalizer version are left     *)
(* out.                                                                    *)
(***************************************************************************)
EXTENDS Naturals

CONSTANTS
    Sessions,      \* apire processes
    Updates,       \* changes that clients ask for, each at most once
    Salts,         \* fingerprints of the salts that sessions may be started with
    MaxCrashes,    \* bound on the crashes of all sessions together
    Overlap,       \* TRUE: loads and saves of two sessions may overlap in time
    KbExists       \* TRUE: kb.json exists before the sessions start

NoSalt == "none"
Fingerprints == Salts \cup {NoSalt}

ASSUME SessionsAssumption ==
    /\ NoSalt \notin Salts
    /\ MaxCrashes \in Nat
    /\ Overlap \in BOOLEAN /\ KbExists \in BOOLEAN

VARIABLES
    \* the directory
    disk,       \* kb.json
    bak,        \* kb.json.bak
    \* the sessions
    pc,         \* where each session is
    mem,        \* Store._kb of each session
    sig,        \* Store._loaded_sig of each session
    copy,       \* the text that the running save read for the backup
    salt,       \* Store.salt_fingerprint() of each session
    \* bookkeeping
    asked,      \* updates that clients have asked for
    acked,      \* updates whose call has returned
    under,      \* the salt of the session that made an update
    crashes

vars == <<disk, bak, pc, mem, sig, copy, salt, asked, acked, under, crashes>>

\* A file: its generation, its content, the fingerprint of the salt that it
\* was written under, and whether it is whole.
File(g, d, k) == [gen |-> g, data |-> d, salt |-> k, whole |-> TRUE]
Files         == [gen : Nat, data : SUBSET Updates, salt : Fingerprints, whole : BOOLEAN]
NoFile        == File(0, {}, NoSalt)

Init ==
    /\ IF KbExists THEN \E k \in Fingerprints : disk = File(1, {}, k) ELSE disk = NoFile
    /\ bak = NoFile
    /\ pc = [s \in Sessions |-> "down"]
    /\ mem = [s \in Sessions |-> {}]
    /\ sig = [s \in Sessions |-> 0]
    /\ copy = [s \in Sessions |-> NoFile]
    /\ salt = [s \in Sessions |-> NoSalt]
    /\ asked = {}
    /\ acked = {}
    /\ under = [u \in Updates |-> NoSalt]
    /\ crashes = 0

\* No other session is in the middle of a load or a save.
Alone(s) == Overlap \/ \A t \in Sessions \ {s} : pc[t] \in {"down", "idle"}

-----------------------------------------------------------------------------
(* Starting: _load_kb reads the file, then _file_sig takes its signature.   *)

\* Mutant: a salt that is not the file's raises no error.
LoadAnySalt(s) ==
    /\ pc[s] = "down" /\ Alone(s) /\ disk.whole
    /\ \E k \in Fingerprints : salt' = [salt EXCEPT ![s] = k]
    /\ mem' = [mem EXCEPT ![s] = disk.data]
    /\ pc' = [pc EXCEPT ![s] = "loading"]
    /\ UNCHANGED <<disk, bak, sig, copy, asked, acked, under, crashes>>

\* A session is started with some salt, or with none.  A kb.json that is not
\* whole, or was written under a salt that is not this one, raises StoreError
\* and the session stays down.
Load(s) ==
    /\ pc[s] = "down" /\ Alone(s) /\ disk.whole
    /\ \E k \in Fingerprints : /\ disk.gen # 0 => disk.salt \in {k, NoSalt}
                              /\ salt' = [salt EXCEPT ![s] = k]
    /\ mem' = [mem EXCEPT ![s] = disk.data]
    /\ pc' = [pc EXCEPT ![s] = "loading"]
    /\ UNCHANGED <<disk, bak, sig, copy, asked, acked, under, crashes>>

LoadSig(s) ==
    /\ pc[s] = "loading"
    /\ sig' = [sig EXCEPT ![s] = disk.gen]
    /\ pc' = [pc EXCEPT ![s] = "idle"]
    /\ UNCHANGED <<disk, bak, mem, copy, salt, asked, acked, under, crashes>>

-----------------------------------------------------------------------------
(* A call changes memory and saves.                                         *)

\* The caller (start_capture, label, upsert_claim, ...) changes memory first.
Change(s) ==
    /\ pc[s] = "idle" /\ Alone(s)
    /\ \E u \in Updates \ asked :
          /\ mem' = [mem EXCEPT ![s] = @ \cup {u}]
          /\ asked' = asked \cup {u}
          /\ under' = [under EXCEPT ![u] = salt[s]]
    /\ pc' = [pc EXCEPT ![s] = "check"]
    /\ UNCHANGED <<disk, bak, sig, copy, salt, acked, crashes>>

\* The signature of kb.json is not the one this session has seen.  Either may
\* be missing (None), and then they are not compared.
Changed(s) == disk.gen # 0 /\ sig[s] # 0 /\ disk.gen # sig[s]

Refuse(s) ==
    /\ pc[s] = "check" /\ Changed(s)
    /\ pc' = [pc EXCEPT ![s] = "idle"]
    /\ UNCHANGED <<disk, bak, mem, sig, copy, salt, asked, acked, under, crashes>>

\* Mutants: a save that does not compare signatures; a backup made only once.
PassAlways(s) ==
    /\ pc[s] = "check"
    /\ pc' = [pc EXCEPT ![s] = IF disk.gen = 0 THEN "dump" ELSE "readbak"]
    /\ UNCHANGED <<disk, bak, mem, sig, copy, salt, asked, acked, under, crashes>>

PassOneBackup(s) ==
    /\ pc[s] = "check" /\ ~Changed(s)
    /\ pc' = [pc EXCEPT ![s] = IF disk.gen = 0 \/ bak.gen # 0 THEN "dump" ELSE "readbak"]
    /\ UNCHANGED <<disk, bak, mem, sig, copy, salt, asked, acked, under, crashes>>

Pass(s) ==
    /\ pc[s] = "check" /\ ~Changed(s)
    /\ pc' = [pc EXCEPT ![s] = IF disk.gen = 0 THEN "dump" ELSE "readbak"]
    /\ UNCHANGED <<disk, bak, mem, sig, copy, salt, asked, acked, under, crashes>>

\* bak.write_text(kb_path.read_text()): read, truncate, write.
ReadForBackup(s) ==
    /\ pc[s] = "readbak"
    /\ copy' = [copy EXCEPT ![s] = disk]
    /\ pc' = [pc EXCEPT ![s] = "truncate"]
    /\ UNCHANGED <<disk, bak, mem, sig, salt, asked, acked, under, crashes>>

TruncateBackup(s) ==
    /\ pc[s] = "truncate"
    /\ bak' = [NoFile EXCEPT !.whole = FALSE]
    /\ pc' = [pc EXCEPT ![s] = "fillbak"]
    /\ UNCHANGED <<disk, mem, sig, copy, salt, asked, acked, under, crashes>>

FillBackup(s) ==
    /\ pc[s] = "fillbak"
    /\ bak' = copy[s]
    /\ pc' = [pc EXCEPT ![s] = "dump"]
    /\ UNCHANGED <<disk, mem, sig, copy, salt, asked, acked, under, crashes>>

\* Mutant: json.dump into kb.json itself.
DumpInPlace(s) ==
    /\ pc[s] = "dump"
    /\ disk' = [disk EXCEPT !.data = {}, !.whole = FALSE]
    /\ pc' = [pc EXCEPT ![s] = "replace"]
    /\ UNCHANGED <<bak, mem, sig, copy, salt, asked, acked, under, crashes>>

\* json.dump into a temporary file of this save, flush and fsync.
Dump(s) ==
    /\ pc[s] = "dump"
    /\ pc' = [pc EXCEPT ![s] = "replace"]
    /\ UNCHANGED <<disk, bak, mem, sig, copy, salt, asked, acked, under, crashes>>

\* os.replace: the temporary file becomes kb.json in one step, with the
\* fingerprint of this session's salt.
Replace(s) ==
    /\ pc[s] = "replace"
    /\ disk' = File(disk.gen + 1, mem[s], salt[s])
    /\ pc' = [pc EXCEPT ![s] = "restat"]
    /\ UNCHANGED <<bak, mem, sig, copy, salt, asked, acked, under, crashes>>

\* The new signature is taken with a stat of its own; then the call returns,
\* and all that this session holds counts as saved (an update whose own call
\* raised stays in memory and is saved by the next call that succeeds).
Restat(s) ==
    /\ pc[s] = "restat"
    /\ sig' = [sig EXCEPT ![s] = disk.gen]
    /\ acked' = acked \cup mem[s]
    /\ pc' = [pc EXCEPT ![s] = "idle"]
    /\ UNCHANGED <<disk, bak, mem, copy, salt, asked, under, crashes>>

\* The file system refuses a step before the replacement: the temporary file
\* is removed and the call raises; memory keeps the update.
SaveFails(s) ==
    /\ pc[s] \in {"readbak", "truncate", "fillbak", "dump", "replace"}
    /\ pc' = [pc EXCEPT ![s] = "idle"]
    /\ UNCHANGED <<disk, bak, mem, sig, copy, salt, asked, acked, under, crashes>>

\* The process is killed: what it held in memory is gone.
Crash(s) ==
    /\ pc[s] # "down" /\ crashes < MaxCrashes
    /\ crashes' = crashes + 1
    /\ pc' = [pc EXCEPT ![s] = "down"]
    /\ mem' = [mem EXCEPT ![s] = {}]
    /\ sig' = [sig EXCEPT ![s] = 0]
    /\ salt' = [salt EXCEPT ![s] = NoSalt]
    /\ UNCHANGED <<disk, bak, copy, asked, acked, under>>

Step(s) ==
    \/ Load(s) \/ LoadSig(s)
    \/ Change(s) \/ Refuse(s) \/ Pass(s)
    \/ ReadForBackup(s) \/ TruncateBackup(s) \/ FillBackup(s)
    \/ Dump(s) \/ Replace(s) \/ Restat(s)
    \/ SaveFails(s) \/ Crash(s)

Next == \E s \in Sessions : Step(s)

Spec == Init /\ [][Next]_vars

-----------------------------------------------------------------------------
(* Properties.                                                              *)

\* Every variable has its type.
TypeOK ==
    /\ disk \in Files /\ bak \in Files
    /\ pc \in [Sessions -> {"down", "loading", "idle", "check", "readbak",
                            "truncate", "fillbak", "dump", "replace", "restat"}]
    /\ mem \in [Sessions -> SUBSET Updates]
    /\ sig \in [Sessions -> Nat]
    /\ copy \in [Sessions -> Files]
    /\ salt \in [Sessions -> Fingerprints]
    /\ asked \subseteq Updates /\ acked \subseteq Updates
    /\ under \in [Updates -> Fingerprints]
    /\ crashes \in Nat

\* No session loses the writes of another: an update whose call has returned
\* stays in kb.json.
NoLostWrites == acked \subseteq disk.data

\* The backup is the generation before kb.json, or, when a save failed after
\* making it, kb.json itself; never an older one.
BackupIsLatest ==
    bak.whole /\ bak.gen # 0 => bak.gen \in {disk.gen, disk.gen - 1}

\* Pseudonyms stay comparable: whatever salts sessions are started with, all
\* that kb.json holds or ever acknowledged was made without a salt or under
\* the one whose fingerprint kb.json carries (the StoreError of _load_kb:
\* "Pseudonyms from older captures cannot be correlated").
OneSalt == \A u \in disk.data \cup acked : under[u] \in {NoSalt, disk.salt}

\* kb.json only ever grows, as SharedKb promises.
Promise == INSTANCE SharedKb WITH file <- disk.data

KeepsPromise == Promise!Spec

-----------------------------------------------------------------------------
(* The inductive invariant behind NoLostWrites and KeepsPromise, for an     *)
(* existing kb.json and sessions whose loads and saves do not overlap.      *)

Busy(s) == pc[s] \notin {"down", "idle"}

\* One session at a time reads or writes the file.
OneAtATime == \A s, t \in Sessions : Busy(s) /\ Busy(t) => s = t

\* A session that is up has seen some generation; if it is still the latest,
\* memory holds all of it.
UpToDate ==
    \A s \in Sessions :
       /\ pc[s] \in {"loading", "restat"} => mem[s] = disk.data
       /\ pc[s] \notin {"down", "loading"} => sig[s] # 0 /\ sig[s] <= disk.gen
       /\ pc[s] \notin {"down", "loading", "restat"} /\ sig[s] = disk.gen
             => disk.data \subseteq mem[s]

\* A session past the check has seen the generation it is about to replace.
PassedIsCurrent ==
    \A s \in Sessions :
       pc[s] \in {"readbak", "truncate", "fillbak", "dump", "replace"} => sig[s] = disk.gen

\* Sessions and files hold what clients have asked for.
HeldWasAsked == disk.data \subseteq asked /\ \A s \in Sessions : mem[s] \subseteq asked

\* What a session holds was made under its own salt or without any.
SaltIsOwn ==
    \A s \in Sessions : pc[s] # "down" => \A u \in mem[s] : under[u] \in {NoSalt, salt[s]}

\* The text on its way to the backup is that generation, too.
BackupIsCurrent ==
    \A s \in Sessions :
       /\ pc[s] \in {"truncate", "fillbak"} => copy[s] = disk
       /\ pc[s] \in {"dump", "replace"} => bak.gen = disk.gen

ExclusiveInv ==
    /\ TypeOK
    /\ disk.gen # 0
    /\ OneAtATime
    /\ UpToDate
    /\ PassedIsCurrent
    /\ BackupIsCurrent
    /\ BackupIsLatest
    /\ NoLostWrites
    /\ HeldWasAsked
    /\ SaltIsOwn
    /\ OneSalt

=============================================================================
