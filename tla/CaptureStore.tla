----------------------------- MODULE CaptureStore -----------------------------
(***************************************************************************)
(* Captures of one apire server process: apire/store.py (the Store and its *)
(* lock), the start/stop/label/note/status handlers of server.py, and the  *)
(* listener threads of apire/capture seen as clients of append_frames.     *)
(*                                                                         *)
(* FastMCP runs one tool handler at a time (`tool`); every live capture    *)
(* has a listener thread (`th[c]`) that calls append_frames under the      *)
(* store's lock.  Memory is lost in a crash; kb.json and the manifests     *)
(* are not.  A one-shot transport runs the same appends inside the start   *)
(* handler, so the actor of capture c is then the tool thread itself.      *)
(*                                                                         *)
(* Abstractions: a capture record keeps its status and frame_count; a      *)
(* manifest is the sequence of the capture_seq numbers of the frames that  *)
(* Store.frames would return; names, payloads, notes and label texts are   *)
(* left out.  A save is its check, the replacement of kb.json and the new  *)
(* signature; KbSessions has the steps between them.                       *)
(*                                                                         *)
(* The other apire processes of `Others` share kb.json: each loads it at   *)
(* any time and saves what it holds at any time, whatever kb.json says by  *)
(* then (KbSessions has the check that turns many of these saves down; a   *)
(* session without a signature and overlapping saves get past it).         *)
(***************************************************************************)
EXTENDS Naturals, Sequences

CONSTANTS
    Captures,     \* capture ids that start_capture may hand out
    Others,       \* the other apire processes on this kb.json
    MaxFrames,    \* bound on the frames of one capture
    MaxBatch,     \* bound on the frames of one append_frames call
    MaxCrashes,   \* bound on the crashes of the server
    LiveLabels,   \* TRUE: clients may label or note while a listener appends
    IoFaults      \* TRUE: a write to the disk may fail part-way

ASSUME BoundsAssumption ==
    /\ MaxFrames \in Nat /\ MaxBatch \in Nat \ {0} /\ MaxCrashes \in Nat
    /\ LiveLabels \in BOOLEAN /\ IoFaults \in BOOLEAN

None == "none"
Handler == "handler"
ASSUME NoneAssumption == None \notin Captures /\ Handler \notin Captures

VARIABLES
    \* the server process
    mem,         \* Store._kb["captures"]
    lock,        \* Store._lock: the capture whose append holds it, Handler, or None
    sig,         \* _loaded_sig: "none", or that of the "current" or an "old" kb.json
    save,        \* the save of the lock's holder: None, or what it does next
    tool,        \* the tool handler that is running
    th,          \* listener threads
    listeners,   \* server._LISTENERS
    halted,      \* captures whose listener has its _stop event set
    \* the disk
    kb,          \* the captures of kb.json
    exists,      \* there is a kb.json
    manifest,    \* captures/<id>/manifest.jsonl
    torn,        \* the manifest ends in the fragment of a line
    \* the other processes
    theirs,      \* Store._kb["captures"] of each
    \* bookkeeping
    dropped,     \* captures whose record a save of another process has left out
    met,         \* another process has saved where this one cannot see it
    used,        \* ids handed out (they are random, never reused)
    stopped,     \* captures whose stop this server has executed
    acked,       \* frames whose append_frames call has returned their ids
    crashes

saveVars == <<lock, sig, save>>
diskVars == <<kb, exists>>
fileVars == <<manifest, torn>>
foreignVars == <<theirs, dropped, met>>
bookVars == <<used, stopped, acked, crashes>>
vars     == <<mem, saveVars, tool, th, listeners, halted, diskVars, fileVars, foreignVars, bookVars>>

Record(st, n) == [st |-> st, count |-> n]
Absent        == Record("absent", 0)
Records       == [st : {"absent", "open", "ended"}, count : Nat]

Thread(pc)    == [pc |-> pc, left |-> 0, last |-> FALSE, buf |-> <<>>]
Threads       == [pc : {"none", "running", "waiting", "writing", "synced", "dead"},
                  left : Nat, last : BOOLEAN, buf : Seq(Nat)]

\* `copy` is the record that label or note read before taking the lock.
Tool(pc, c)   == [pc |-> pc, cap |-> c, copy |-> Absent]
Idle          == Tool("idle", None)
Tools         == [pc : {"load", "idle", "starting", "listen", "ingest", "join", "seal",
                        "sealing", "annotate", "annotating"},
                  cap : Captures \cup {None}, copy : Records]

Init ==
    /\ mem = [c \in Captures |-> Absent]
    /\ kb = [c \in Captures |-> Absent]
    /\ exists \in BOOLEAN
    /\ lock = None /\ save = None
    /\ sig = IF exists THEN "current" ELSE "none"
    /\ tool = Idle
    /\ th = [c \in Captures |-> Thread("none")]
    /\ listeners = {}
    /\ halted = {}
    /\ manifest = [c \in Captures |-> <<>>]
    /\ torn = [c \in Captures |-> FALSE]
    /\ theirs = [o \in Others |-> kb]
    /\ dropped = {} /\ met = FALSE
    /\ used = {}
    /\ stopped = {}
    /\ acked = [c \in Captures |-> 0]
    /\ crashes = 0

-----------------------------------------------------------------------------
(* _save_kb, called with the lock held and memory already changed: it       *)
(* compares signatures, replaces kb.json by the whole of memory, and takes  *)
(* the new signature, or raises and leaves memory as the caller changed it. *)

\* Mutant: a save that does not look at the file's signature.
AnyPasses == TRUE

\* Signatures are compared if this process has one and there is a file.
Passes == sig # "old"

\* Whoever replaces kb.json, a signature taken before is not that of the file.
Outdated == IF sig = "none" THEN "none" ELSE "old"

\* The file is gone over to memory; that of another process is lost with it.
Replace ==
    /\ save = "replace"
    /\ kb' = mem /\ exists' = TRUE
    /\ sig' = Outdated
    /\ save' = "stat"
    /\ met' = FALSE
    /\ UNCHANGED <<mem, lock, tool, th, listeners, halted, fileVars, theirs, dropped, bookVars>>

\* The call goes on to return: the signature is that of the file as it is now.
Saved == save = "stat" /\ save' = None /\ sig' = "current" /\ lock' = None

\* The disk refuses the backup, the temporary file or the replacement.
SaveFails == IoFaults /\ save = "replace" /\ save' = None /\ lock' = None /\ UNCHANGED sig

\* Holding the lock, a handler goes on to save, or its save is turned down.
HandlerSaves(pc, c) ==
    \/ Passes /\ lock' = Handler /\ save' = "replace" /\ tool' = Tool(pc, c)
    \/ ~Passes /\ tool' = Idle /\ UNCHANGED <<lock, save>>

-----------------------------------------------------------------------------
(* Tool handlers.                                                           *)

\* Mutant: a start whose save was refused goes on to its listener.
StartUnsaved(c) ==
    /\ tool = Idle /\ lock = None /\ c \notin used
    /\ used' = used \cup {c}
    /\ mem' = [mem EXCEPT ![c] = Record("open", 0)]
    /\ \/ HandlerSaves("starting", c)
       \/ ~Passes /\ tool' = Tool("listen", c) /\ UNCHANGED <<lock, save>>
    /\ UNCHANGED <<sig, th, listeners, halted, diskVars, fileVars, foreignVars, stopped, acked, crashes>>

\* start_capture with a non-empty authorization statement and a known
\* transport (anything else raises PolicyError before any state changes).
StartCapture(c) ==
    /\ tool = Idle /\ lock = None /\ c \notin used
    /\ used' = used \cup {c}
    /\ mem' = [mem EXCEPT ![c] = Record("open", 0)]
    /\ HandlerSaves("starting", c)
    /\ UNCHANGED <<sig, th, listeners, halted, diskVars, fileVars, foreignVars, stopped, acked, crashes>>

\* The save of a start, a stop or a label is over; after a start the handler
\* goes on to the listener.
HandlerReturns(c) ==
    /\ tool.pc \in {"starting", "sealing", "annotating"} /\ tool.cap = c
    /\ \/ Saved /\ tool' = (IF tool.pc = "starting" THEN Tool("listen", c) ELSE Idle)
       \/ SaveFails /\ tool' = Idle
    /\ UNCHANGED <<mem, th, listeners, halted, diskVars, fileVars, foreignVars, bookVars>>

\* listener.start: the thread runs, or a one-shot transport starts reading,
\* or it raises TransportError and the capture stays open without a listener.
StartListener(c) ==
    /\ tool = Tool("listen", c)
    /\ \/ /\ th' = [th EXCEPT ![c] = Thread("running")]
          /\ listeners' = listeners \cup {c}
          /\ tool' = Idle
       \/ /\ th' = [th EXCEPT ![c] = Thread("running")]
          /\ tool' = Tool("ingest", c)
          /\ UNCHANGED listeners
       \/ tool' = Idle /\ UNCHANGED <<th, listeners>>
    /\ UNCHANGED <<mem, saveVars, halted, diskVars, fileVars, foreignVars, bookVars>>

\* A one-shot transport has read its source: register it and stop it.
IngestDone(c) ==
    /\ tool = Tool("ingest", c) /\ th[c].pc = "running"
    /\ th' = [th EXCEPT ![c] = Thread("dead")]
    /\ listeners' = listeners \cup {c}
    /\ tool' = Tool("seal", c)
    /\ UNCHANGED <<mem, saveVars, halted, diskVars, fileVars, foreignVars, bookVars>>

\* The stop handler takes the listener out of _LISTENERS and signals it ...
Stop(c) ==
    /\ tool = Idle
    /\ listeners' = listeners \ {c}
    /\ \/ /\ c \in listeners
          /\ halted' = halted \cup {c}
          /\ tool' = Tool("join", c)
       \/ /\ c \notin listeners
          /\ tool' = Tool("seal", c)
          /\ UNCHANGED halted
    /\ UNCHANGED <<mem, saveVars, th, diskVars, fileVars, foreignVars, bookVars>>

\* Mutant: join without a timeout.
JoinForever(c) ==
    /\ tool = Tool("join", c) /\ th[c].pc = "dead"
    /\ tool' = Tool("seal", c)
    /\ UNCHANGED <<mem, saveVars, th, listeners, halted, diskVars, fileVars, foreignVars, bookVars>>

\* ... waits for its thread, but no longer than the timeout of join ...
JoinReturns(c) ==
    /\ tool = Tool("join", c)
    /\ tool' = Tool("seal", c)
    /\ UNCHANGED <<mem, saveVars, th, listeners, halted, diskVars, fileVars, foreignVars, bookVars>>

\* Mutant: stop_capture does not take the lock.
SealUnlocked(c) ==
    /\ tool = Tool("seal", c)
    /\ tool' = Idle
    /\ mem[c].st = "open"
    /\ mem' = [mem EXCEPT ![c].st = "ended"]
    /\ stopped' = stopped \cup {c}
    /\ UNCHANGED <<saveVars, th, listeners, halted, diskVars, fileVars, foreignVars, used, acked, crashes>>

\* ... and ends the capture: stop_capture.
Seal(c) ==
    /\ tool = Tool("seal", c) /\ lock = None
    /\ \/ /\ mem[c].st = "open"
          /\ mem' = [mem EXCEPT ![c].st = "ended"]
          /\ stopped' = stopped \cup {c}
          /\ HandlerSaves("sealing", c)
       \/ /\ mem[c].st = "ended"
          /\ stopped' = stopped \cup {c}
          /\ tool' = Idle
          /\ UNCHANGED <<mem, lock, save>>
       \/ /\ mem[c].st = "absent"
          /\ tool' = Idle
          /\ UNCHANGED <<mem, lock, save, stopped>>
    /\ UNCHANGED <<sig, th, listeners, halted, diskVars, fileVars, foreignVars, used, acked, crashes>>

\* Whether the listener of c can still append to it.
Quiet(c) == th[c].pc \in {"none", "dead"} \/ mem[c].st = "ended"

\* label and note copy the record without the lock ...
AnnotateRead(c) ==
    /\ tool = Idle /\ mem[c].st # "absent"
    /\ LiveLabels \/ Quiet(c)
    /\ tool' = [pc |-> "annotate", cap |-> c, copy |-> mem[c]]
    /\ UNCHANGED <<mem, saveVars, th, listeners, halted, diskVars, fileVars, foreignVars, bookVars>>

\* ... and put the annotated copy back under it.
AnnotateWrite(c) ==
    /\ tool.pc = "annotate" /\ tool.cap = c /\ lock = None
    /\ mem' = [mem EXCEPT ![c] = tool.copy]
    /\ HandlerSaves("annotating", c)
    /\ UNCHANGED <<sig, th, listeners, halted, diskVars, fileVars, foreignVars, bookVars>>

-----------------------------------------------------------------------------
(* Listener threads, and the appends of a one-shot transport.               *)

\* A batch of frames is ready.  A listener told to stop finishes the batch it
\* is assembling (the final flush of devtools_attach) and then ends.
Poll(c) ==
    /\ th[c].pc = "running"
    /\ \E n \in 1..MaxBatch :
          /\ mem[c].count + n <= MaxFrames
          /\ Len(manifest[c]) + n <= MaxFrames
          /\ th' = [th EXCEPT ![c] = [pc |-> "waiting", left |-> n,
                                      last |-> c \in halted, buf |-> <<>>]]
    /\ UNCHANGED <<mem, saveVars, tool, listeners, halted, diskVars, fileVars, foreignVars, bookVars>>

\* The loop sees the stop event.
ThreadExits(c) ==
    /\ th[c].pc = "running" /\ c \in halted
    /\ th' = [th EXCEPT ![c] = Thread("dead")]
    /\ UNCHANGED <<mem, saveVars, tool, listeners, halted, diskVars, fileVars, foreignVars, bookVars>>

\* What an exception does to the actor of c: it escapes from the start handler
\* of a one-shot transport; a thread survives it (http_proxy, udp_observe) or
\* dies of it (log_tail, devtools_attach outside its final flush).
Raise(c) ==
    \/ /\ tool = Tool("ingest", c)
       /\ th' = [th EXCEPT ![c] = Thread("dead")]
       /\ tool' = Idle
    \/ /\ tool # Tool("ingest", c)
       /\ \E pc \in {"running", "dead"} :
             /\ th[c].last => pc = "dead"
             /\ th' = [th EXCEPT ![c] = Thread(pc)]
       /\ UNCHANGED tool

\* The source fails: the socket or file is gone, or the file is unreadable.
SourceFails(c) ==
    /\ th[c].pc = "running"
    /\ Raise(c)
    /\ UNCHANGED <<mem, saveVars, listeners, halted, diskVars, fileVars, foreignVars, bookVars>>

\* append_frames takes the lock and finds the capture unknown or ended ...
AppendRefused(c) ==
    /\ th[c].pc = "waiting" /\ lock = None /\ mem[c].st # "open"
    /\ Raise(c)
    /\ UNCHANGED <<mem, saveVars, listeners, halted, diskVars, fileVars, foreignVars, bookVars>>

\* Mutant: append_frames does not look whether the capture has ended.
AppendAlways(c) ==
    /\ th[c].pc = "waiting" /\ lock = None
    /\ lock' = c
    /\ th' = [th EXCEPT ![c].pc = "writing"]
    /\ UNCHANGED <<mem, sig, save, tool, listeners, halted, diskVars, fileVars, foreignVars, bookVars>>

\* ... or open: it opens the manifest for appending.
AppendOpens(c) ==
    /\ th[c].pc = "waiting" /\ lock = None /\ mem[c].st = "open"
    /\ lock' = c
    /\ th' = [th EXCEPT ![c].pc = "writing"]
    /\ UNCHANGED <<mem, sig, save, tool, listeners, halted, diskVars, fileVars, foreignVars, bookVars>>

\* Mutant: a frame that is not counted.
WriteUncounted(c) ==
    /\ th[c].pc = "writing" /\ th[c].left > 0
    /\ th' = [th EXCEPT ![c].left = @ - 1, ![c].buf = Append(@, mem[c].count)]
    /\ UNCHANGED <<mem, saveVars, tool, listeners, halted, diskVars, fileVars, foreignVars, bookVars>>

\* One frame: its capture_seq is frame_count; the line goes to the file's buffer.
WriteFrame(c) ==
    /\ th[c].pc = "writing" /\ th[c].left > 0
    /\ th' = [th EXCEPT ![c].left = @ - 1, ![c].buf = Append(@, mem[c].count)]
    /\ mem' = [mem EXCEPT ![c].count = @ + 1]
    /\ UNCHANGED <<saveVars, tool, listeners, halted, diskVars, fileVars, foreignVars, bookVars>>

\* The first j buffered lines reach the manifest, and the fragment of a line
\* after them if `tears`.  A line that lands behind a fragment is part of an
\* unparsable line: Store.frames skips it.
Lands(c, j, tears) ==
    /\ manifest' = [manifest EXCEPT ![c] =
                      @ \o SubSeq(th[c].buf, IF torn[c] THEN 2 ELSE 1, j)]
    /\ torn' = [torn EXCEPT ![c] = tears \/ (@ /\ j = 0)]

\* Mutant: the lines are still in the buffer when kb.json is saved.
SyncNothing(c) ==
    /\ th[c].pc = "writing" /\ th[c].left = 0
    /\ th' = [th EXCEPT ![c].pc = "synced"]
    /\ UNCHANGED <<mem, saveVars, tool, listeners, halted, diskVars, fileVars, foreignVars, bookVars>>

\* flush and fsync.
Sync(c) ==
    /\ th[c].pc = "writing" /\ th[c].left = 0
    /\ Lands(c, Len(th[c].buf), FALSE)
    /\ th' = [th EXCEPT ![c].pc = "synced"]
    /\ UNCHANGED <<mem, saveVars, tool, listeners, halted, diskVars, foreignVars, bookVars>>

\* The batch fails before the fsync: a frame cannot be redacted (closing the
\* file then flushes the frames before it), or the disk refuses a write.
WriteFails(c) ==
    /\ th[c].pc = "writing"
    /\ \/ Lands(c, Len(th[c].buf), FALSE)
       \/ /\ IoFaults
          /\ \E j \in 0..Len(th[c].buf), tears \in BOOLEAN : Lands(c, j, tears)
    /\ lock' = None
    /\ Raise(c)
    /\ UNCHANGED <<mem, sig, save, listeners, halted, diskVars, foreignVars, bookVars>>

\* append_frames calls _save_kb ...
AppendSaves(c) ==
    /\ th[c].pc = "synced" /\ save = None
    /\ \/ /\ Passes
          /\ save' = "replace"
          /\ UNCHANGED <<lock, tool, th>>
       \/ /\ ~Passes
          /\ lock' = None
          /\ Raise(c)
          /\ UNCHANGED save
    /\ UNCHANGED <<mem, sig, listeners, halted, diskVars, fileVars, foreignVars, bookVars>>

\* ... and the ids are returned only after it.
AppendReturns(c) ==
    /\ th[c].pc = "synced"
    /\ \/ /\ Saved
          /\ acked' = [acked EXCEPT ![c] = @ + Len(th[c].buf)]
          /\ th' = [th EXCEPT ![c] = Thread(IF @.last THEN "dead" ELSE "running")]
          /\ UNCHANGED tool
       \/ /\ SaveFails
          /\ Raise(c)
          /\ UNCHANGED acked
    /\ UNCHANGED <<mem, listeners, halted, diskVars, fileVars, foreignVars, used, stopped, crashes>>

-----------------------------------------------------------------------------
(* The environment.                                                         *)

\* Another apire process starts: _load_kb.
OtherLoads(o) ==
    /\ theirs' = [theirs EXCEPT ![o] = kb]
    /\ UNCHANGED <<mem, saveVars, tool, th, listeners, halted, diskVars, fileVars, dropped, met, bookVars>>

\* It stops captures that it holds open (api_re_capture stops any capture by its
\* id) or changes something else, and saves.
OtherSaves(o) ==
    /\ \E ends \in SUBSET {c \in Captures : theirs[o][c].st = "open"} :
          theirs' = [theirs EXCEPT ![o] =
                       [c \in Captures |-> IF c \in ends THEN [@[c] EXCEPT !.st = "ended"] ELSE @[c]]]
    /\ kb' = theirs'[o] /\ exists' = TRUE
    /\ sig' = Outdated
    /\ dropped' = dropped \cup {c \in Captures : kb[c].st # "absent" /\ kb'[c].st = "absent"}
    /\ met' = (met \/ save # None \/ sig = "none")
    /\ UNCHANGED <<mem, lock, save, tool, th, listeners, halted, fileVars, bookVars>>

\* The process is killed and a new one loads kb.json.  Lines still in the
\* buffer of an open manifest are lost, apart from a prefix already written.
CrashRestart ==
    /\ crashes < MaxCrashes
    /\ crashes' = crashes + 1
    /\ \/ UNCHANGED fileVars
       \/ \E c \in Captures :
             /\ th[c].pc = "writing"
             /\ \E j \in 0..Len(th[c].buf), tears \in BOOLEAN : Lands(c, j, tears)
    /\ mem' = kb
    /\ lock' = None /\ save' = None /\ sig' = "none"
    /\ tool' = Tool("load", None)
    /\ th' = [c \in Captures |-> Thread("none")]
    /\ listeners' = {}
    /\ halted' = {}
    /\ met' = FALSE
    /\ UNCHANGED <<diskVars, theirs, dropped, used, stopped, acked>>

\* Store.__init__ takes the signature after _load_kb, then requests are served.
LoadSig ==
    /\ tool = Tool("load", None)
    /\ tool' = Idle
    /\ sig' = IF exists THEN "current" ELSE "none"
    /\ UNCHANGED <<mem, lock, save, th, listeners, halted, diskVars, fileVars, foreignVars, bookVars>>

-----------------------------------------------------------------------------
ToolStep(c) ==
    \/ StartCapture(c) \/ HandlerReturns(c) \/ StartListener(c) \/ IngestDone(c)
    \/ Stop(c) \/ JoinReturns(c) \/ Seal(c)
    \/ AnnotateRead(c) \/ AnnotateWrite(c)

ListenerStep(c) ==
    \/ Poll(c) \/ ThreadExits(c) \/ SourceFails(c)
    \/ AppendRefused(c) \/ AppendOpens(c) \/ WriteFrame(c)
    \/ Sync(c) \/ WriteFails(c) \/ AppendSaves(c) \/ AppendReturns(c)

Next ==
    \/ \E c \in Captures : ToolStep(c) \/ ListenerStep(c)
    \/ Replace
    \/ \E o \in Others : OtherLoads(o) \/ OtherSaves(o)
    \/ CrashRestart \/ LoadSig

Spec == Init /\ [][Next]_vars

\* A handler and the body of append_frames keep running.  The lock is not FIFO,
\* but every listener waits for its source between two appends, so a waiting
\* stop is not overtaken for ever.  Nothing makes a source deliver or end.
Fairness ==
    /\ WF_vars(LoadSig)
    /\ WF_vars(Replace)
    /\ \A c \in Captures :
       /\ WF_vars(HandlerReturns(c))
       /\ WF_vars(JoinReturns(c))
       /\ SF_vars(Seal(c))
       /\ WF_vars(WriteFrame(c))
       /\ WF_vars(Sync(c))
       /\ WF_vars(AppendSaves(c))
       /\ WF_vars(AppendReturns(c))

FairSpec == Spec /\ Fairness

-----------------------------------------------------------------------------
(* Properties.                                                              *)

\* Every variable has its type.
TypeOK ==
    /\ mem \in [Captures -> Records]
    /\ kb \in [Captures -> Records]
    /\ lock \in Captures \cup {Handler, None}
    /\ sig \in {"none", "current", "old"} /\ save \in {None, "replace", "stat"}
    /\ exists \in BOOLEAN
    /\ theirs \in [Others -> [Captures -> Records]]
    /\ dropped \subseteq Captures /\ met \in BOOLEAN
    /\ tool \in Tools
    /\ th \in [Captures -> Threads]
    /\ listeners \subseteq Captures
    /\ halted \subseteq Captures
    /\ manifest \in [Captures -> Seq(Nat)]
    /\ torn \in [Captures -> BOOLEAN]
    /\ used \subseteq Captures
    /\ stopped \subseteq Captures
    /\ acked \in [Captures -> Nat]
    /\ crashes \in Nat

\* capture_seq orders the frames of a capture and names each of them once
\* (experiments, notes and correlation refer to frames by it).
CaptureSeqUnique ==
    \A c \in Captures : \A i, j \in 1..Len(manifest[c]) :
       i < j => manifest[c][i] < manifest[c][j]

\* The manifest is durable before kb.json counts its frames: whatever step the
\* process dies in, kb.json never counts a frame that the manifest lacks.
KbNeverAhead == \A c \in Captures : kb[c].count <= Len(manifest[c])

\* No frame whose id append_frames returned is ever missing from frames().
AckedReadable == \A c \in Captures : acked[c] <= Len(manifest[c])

\* No frame is on the disk without the record that holds its authorization
\* fingerprint: start_capture saves it before the listener can append.  Only
\* another process that has not loaded the record can save it away.
RecordBeforeEvidence ==
    \A c \in Captures : manifest[c] # <<>> => kb[c].st # "absent" \/ c \in dropped

\* Once this server has stopped a capture its evidence is closed, although its
\* thread may outlive the join, the save of the stop may have failed, and the
\* server may have been restarted since.
NothingAfterStop ==
    [][\A c \in stopped : manifest'[c] = manifest[c]]_vars

\* Once kb.json says that a capture has ended, this process neither takes that
\* back nor acknowledges another frame of it, also when another process ended it
\* and this one still appends to the manifest: the check of _save_kb turns its
\* saves down.  It cannot when the other saved while this process had no
\* signature, between its load and its signature, or during its save (`met`).
NothingAckedOnceEnded ==
    [][\A c \in Captures : kb[c].st = "ended" /\ ~met =>
          /\ acked'[c] = acked[c]
          /\ kb'[c].st = "ended" \/ \E o \in Others : OtherSaves(o)]_vars

\* The stop handler returns even when the listener's thread does not.
StopReturns ==
    \A c \in Captures : (tool.pc \in {"join", "seal", "sealing"} /\ tool.cap = c) ~> (tool = Idle)

-----------------------------------------------------------------------------
(* The inductive invariant behind NothingAfterStop, RecordBeforeEvidence    *)
(* and NothingAckedOnceEnded (CaptureStore_proofs).                         *)

\* The lock is held exactly by the actor inside append_frames, or by the handler
\* that saves; what an append found open stays open until it lets go.
LockHeldByWriter ==
    /\ \A c \in Captures : /\ th[c].pc \in {"writing", "synced"} <=> lock = c
                           /\ lock = c => mem[c].st = "open"
    /\ tool.pc \in {"starting", "sealing", "annotating"} <=> lock = Handler
    /\ lock = Handler => save # None
    /\ save # None => lock # None /\ \A c \in Captures : th[c].pc # "writing"

\* A stopped capture is ended in memory, or (after a restart that lost the
\* stop) nothing will ever append to it again.
StoppedIsClosed ==
    \A c \in stopped : mem[c].st = "ended" \/ th[c].pc \in {"none", "dead"}

\* What the running handler knows about its capture.
HandlerKnows ==
    /\ tool.pc \notin {"idle", "load"} => tool.cap \in Captures
    /\ tool.pc \in {"starting", "listen"} => /\ tool.cap \notin stopped
                                            /\ th[tool.cap].pc = "none"
    /\ tool.pc = "listen" \/ (tool.pc = "starting" /\ save = "stat") =>
          kb[tool.cap].st # "absent" \/ tool.cap \in dropped
    /\ tool.pc = "starting" => mem[tool.cap].st # "absent"
    /\ tool.pc = "annotate" => mem[tool.cap].st = tool.copy.st
    /\ tool.pc = "load" => sig = "none" /\ \A c \in Captures : th[c].pc = "none"

\* Records exist from start_capture on: first in memory, then in kb.json, and
\* in kb.json before a listener exists; a record is nowhere lost but by a save
\* of another process.
RecordsPrecede ==
    \A c \in Captures :
       /\ mem[c].st # "absent" => c \in used
       /\ \A o \in Others : theirs[o][c].st # "absent" => kb[c].st # "absent" \/ c \in dropped
       /\ kb[c].st # "absent" => mem[c].st # "absent" \/ c \in dropped
       /\ c \in dropped => c \in used
       /\ th[c].pc # "none" \/ manifest[c] # <<>> => kb[c].st # "absent" \/ c \in dropped

\* What another process ended this one still holds open only as long as its
\* saves are refused, unless they have met.
ForeignEndRefuses ==
    ~met /\ (sig # "old" \/ save # None) =>
       \A c \in Captures : kb[c].st = "ended" => mem[c].st = "ended"

SafetyInv ==
    /\ TypeOK
    /\ LockHeldByWriter
    /\ StoppedIsClosed
    /\ stopped \subseteq used
    /\ HandlerKnows
    /\ RecordsPrecede
    /\ ForeignEndRefuses

=============================================================================
