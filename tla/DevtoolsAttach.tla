---------------------------- MODULE DevtoolsAttach ----------------------------
(***************************************************************************)
(* The loop of the DevTools transport: DevtoolsAttachListener of           *)
(* apire/capture/devtools_attach.py.  It receives events of the browser    *)
(* one by one, stashes a response until its body has been fetched or given *)
(* up, batches frames, and flushes all that it holds when it ends.         *)
(*                                                                         *)
(* Abstractions: a response is a value of Responses, any other event that  *)
(* maps to a frame is a value of Events; events that map to none, the      *)
(* stamps of WebSocket connections and the content of frames are left out, *)
(* except whether a response has its body.  append_frames may raise at any *)
(* moment, and the join of stop may time out.                              *)
(***************************************************************************)
EXTENDS Naturals, Sequences, FiniteSets

CONSTANTS
    Responses,     \* responses of the page, by requestId
    Events,        \* other events with a frame
    BatchSize      \* 25 in the code

ASSUME DevtoolsAssumption ==
    /\ Responses \cap Events = {}
    /\ BatchSize \in Nat \ {0}

VARIABLES
    bodies,      \* the operator asked for response bodies
    \* the browser
    page,        \* what the page has told of each response
    channel,     \* the debugging channel is open
    \* the thread
    pc,
    seen,        \* events and responses that recv has returned
    stash,       \* pending_responses
    inflight,    \* responses whose body has been asked for
    pending,     \* frames of the next batch
    reported,    \* _stats["errors"] is not empty
    \* the store and the stop handler
    frames,      \* the manifest
    open,        \* the capture takes frames
    stopping     \* the stop event

holds == <<seen, stash, inflight, pending>>
vars  == <<bodies, page, channel, pc, holds, reported, frames, open, stopping>>

Frame(e, body) == [of |-> e, body |-> body]

Init ==
    /\ bodies \in BOOLEAN
    /\ page = [r \in Responses |-> "none"]
    /\ channel = TRUE
    /\ pc = "top"
    /\ seen = {} /\ stash = {} /\ inflight = {} /\ pending = <<>>
    /\ reported = FALSE
    /\ frames = <<>> /\ open = TRUE /\ stopping = FALSE

-----------------------------------------------------------------------------
(* One turn of the loop.  The stop event is looked at before recv blocks.   *)

\* Mutant: the loop does not look at the stop event.
TopDeaf ==
    /\ pc = "top"
    /\ pc' = "recv"
    /\ UNCHANGED <<bodies, page, channel, holds, reported, frames, open, stopping>>

Top ==
    /\ pc = "top"
    /\ pc' = IF stopping THEN "flush" ELSE "recv"
    /\ UNCHANGED <<bodies, page, channel, holds, reported, frames, open, stopping>>

Receives == pc = "recv" /\ channel

RecvEvent(e) ==
    /\ Receives /\ e \notin seen
    /\ seen' = seen \cup {e}
    /\ pending' = Append(pending, Frame(e, FALSE))
    /\ pc' = "batch"
    /\ UNCHANGED <<bodies, page, channel, stash, inflight, reported, frames, open, stopping>>

\* responseReceived
RecvResponse(r) ==
    /\ Receives /\ page[r] = "none"
    /\ page' = [page EXCEPT ![r] = "received"]
    /\ seen' = seen \cup {r}
    /\ IF bodies THEN stash' = stash \cup {r} /\ UNCHANGED pending
                 ELSE pending' = Append(pending, Frame(r, FALSE)) /\ UNCHANGED stash
    /\ pc' = "batch"
    /\ UNCHANGED <<bodies, channel, inflight, reported, frames, open, stopping>>

\* loadingFinished with a body worth fetching: ask for it.
RecvFinished(r) ==
    /\ Receives /\ page[r] = "received" /\ r \in stash
    /\ page' = [page EXCEPT ![r] = "loaded"]
    /\ stash' = stash \ {r}
    /\ inflight' = inflight \cup {r}
    /\ pc' = "send"
    /\ UNCHANGED <<bodies, channel, seen, pending, reported, frames, open, stopping>>

\* loadingFailed, or a body over the limit.
RecvSkipped(r) ==
    /\ Receives /\ page[r] = "received" /\ r \in stash
    /\ page' = [page EXCEPT ![r] = "loaded"]
    /\ stash' = stash \ {r}
    /\ pending' = Append(pending, Frame(r, FALSE))
    /\ pc' = "batch"
    /\ UNCHANGED <<bodies, channel, seen, inflight, reported, frames, open, stopping>>

\* The command goes out on the channel; on a closed one send raises, and
\* nothing catches that.
Send ==
    /\ pc = "send"
    /\ pc' = IF channel THEN "batch" ELSE "dead"
    /\ UNCHANGED <<bodies, page, channel, holds, reported, frames, open, stopping>>

\* Mutant: the frame is looked up where it no longer is, and dropped.
RecvReplyLost(r) ==
    /\ Receives /\ r \in inflight
    /\ inflight' = inflight \ {r}
    /\ pc' = "top"
    /\ UNCHANGED <<bodies, page, channel, seen, stash, pending, reported, frames, open, stopping>>

\* The reply with the body.
RecvReply(r) ==
    /\ Receives /\ r \in inflight
    /\ inflight' = inflight \ {r}
    /\ pending' = Append(pending, Frame(r, TRUE))
    /\ pc' = "top"   \* a continue: the batch is not looked at
    /\ UNCHANGED <<bodies, page, channel, seen, stash, reported, frames, open, stopping>>

-----------------------------------------------------------------------------
(* Appending.                                                               *)

AppendsPending ==
    \/ /\ open
       /\ frames' = frames \o pending
       /\ pending' = <<>>
       /\ pc' = "top"
    \/ /\ pc' = "dead"
       /\ UNCHANGED <<frames, pending>>

\* A full batch is appended; an exception ends the thread there and then.
Batch ==
    /\ pc = "batch"
    /\ IF Len(pending) >= BatchSize THEN AppendsPending
       ELSE pc' = "top" /\ UNCHANGED <<frames, pending>>
    /\ UNCHANGED <<bodies, page, channel, seen, stash, inflight, reported, open, stopping>>

\* recv times out: append what there is.
Timeout ==
    /\ Receives
    /\ IF pending # <<>> THEN AppendsPending
       ELSE pc' = "top" /\ UNCHANGED <<frames, pending>>
    /\ UNCHANGED <<bodies, page, channel, seen, stash, inflight, reported, open, stopping>>

\* recv finds the channel closed, by the browser or by stop: the error is kept.
ChannelClosed ==
    /\ pc = "recv" /\ ~channel
    /\ reported' = TRUE
    /\ pc' = "flush"
    /\ UNCHANGED <<bodies, page, channel, holds, frames, open, stopping>>

\* Mutant: only the stashed responses are flushed.
FlushStash ==
    /\ pc = "flush"
    /\ pc' = "ended"
    /\ stash' = {} /\ inflight' = {} /\ pending' = <<>>
    /\ UNCHANGED <<bodies, page, channel, seen, reported, frames, open, stopping>>

\* Stashed and in-flight responses are appended without bodies, in any order of
\* their dictionaries; here an exception is caught and reported.
Flush ==
    /\ pc = "flush"
    /\ pc' = "ended"
    /\ stash' = {} /\ inflight' = {} /\ pending' = <<>>
    /\ \/ /\ open \/ (pending = <<>> /\ stash \cup inflight = {})
          /\ \E rest \in [1..Cardinality(stash \cup inflight) -> stash \cup inflight] :
                /\ \A r \in stash \cup inflight : \E i \in DOMAIN rest : rest[i] = r
                /\ frames' = frames \o pending \o [i \in DOMAIN rest |-> Frame(rest[i], FALSE)]
          /\ UNCHANGED reported
       \/ /\ pending # <<>> \/ stash \cup inflight # {}
          /\ reported' = TRUE
          /\ UNCHANGED frames
    /\ UNCHANGED <<bodies, page, channel, seen, open, stopping>>

-----------------------------------------------------------------------------
(* The other actors.                                                        *)

\* The browser goes away.
BrowserCloses ==
    /\ channel /\ channel' = FALSE
    /\ UNCHANGED <<bodies, page, pc, holds, reported, frames, open, stopping>>

\* stop: the event, then the channel, then, when the thread is over or the join
\* of three seconds has timed out, the capture.
StopSignal ==
    /\ ~stopping /\ stopping' = TRUE
    /\ UNCHANGED <<bodies, page, channel, pc, holds, reported, frames, open>>

StopCloses ==
    /\ stopping /\ channel
    /\ channel' = FALSE
    /\ UNCHANGED <<bodies, page, pc, holds, reported, frames, open, stopping>>

EndCapture ==
    /\ stopping /\ ~channel /\ open
    /\ open' = FALSE
    /\ UNCHANGED <<bodies, page, channel, pc, holds, reported, frames, stopping>>

Recv ==
    \/ \E e \in Events : RecvEvent(e)
    \/ \E r \in Responses : RecvResponse(r) \/ RecvFinished(r) \/ RecvSkipped(r) \/ RecvReply(r)

Loop == Top \/ Recv \/ Send \/ Batch \/ Timeout \/ ChannelClosed \/ Flush

Next == Loop \/ BrowserCloses \/ StopSignal \/ StopCloses \/ EndCapture

Spec == Init /\ [][Next]_vars

\* recv has a timeout of a second, so the loop goes round.
FairSpec == Spec /\ WF_vars(Loop)

-----------------------------------------------------------------------------
(* Properties.                                                              *)

Things == Responses \cup Events
FrameSet == [of : Things, body : BOOLEAN]

\* The types of the browser's and the thread's state; a conjunct of HeldOnce.
TypeOK ==
    /\ bodies \in BOOLEAN /\ page \in [Responses -> {"none", "received", "loaded"}]
    /\ channel \in BOOLEAN /\ open \in BOOLEAN /\ stopping \in BOOLEAN /\ reported \in BOOLEAN
    /\ pc \in {"top", "recv", "send", "batch", "flush", "ended", "dead"}
    /\ seen \subseteq Things /\ stash \subseteq Responses /\ inflight \subseteq Responses
    /\ pending \in Seq(FrameSet) /\ frames \in Seq(FrameSet)

Times(e, s) == Cardinality({i \in DOMAIN s : s[i].of = e})
Held(e) == Times(e, pending) + Times(e, frames)
           + (IF e \in stash THEN 1 ELSE 0) + (IF e \in inflight THEN 1 ELSE 0)

\* Every frame is in exactly one place on its way from the channel to the
\* manifest (devtools_attach.py: "every fetched body was silently dropped. Two
\* maps exist so that cannot recur").
HeldOnce ==
    /\ TypeOK
    /\ pc # "ended" => \A e \in Things : Held(e) = IF e \in seen THEN 1 ELSE 0

\* "Never drop evidence silently" (devtools_attach.py): when the loop has come
\* to its end, all that it received is in the manifest, once, or an error is
\* reported.  (An exception that escapes the loop leaves neither.)
NeverDroppedSilently ==
    pc = "ended" => reported \/ \A e \in seen : Times(e, frames) = 1

\* The thread is over some time after it is told to stop.
StopEndsThread == stopping ~> pc \in {"ended", "dead"}

=============================================================================
