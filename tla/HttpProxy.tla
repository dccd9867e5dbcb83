------------------------------- MODULE HttpProxy -------------------------------
(***************************************************************************)
(* The loopback proxy: HttpProxyListener of apire/capture/http_proxy.py.   *)
(* One thread accepts connections and serves them one after the other, an  *)
(* exchange each; the others wait in the socket's backlog.                 *)
(*                                                                         *)
(* Abstractions: of a request only its form matters (malformed, CONNECT,   *)
(* or forwarded to an origin); a frame is its kind and its client; an      *)
(* append_frame that raises because the capture has ended is the only      *)
(* failure of the store.  An event stream (SseRelay) appends one batch     *)
(* here, and may go on for ever.                                           *)
(***************************************************************************)
EXTENDS Naturals, Sequences, SequencesExt

CONSTANT Clients      \* connections, one exchange each

Nobody == "nobody"
ASSUME ProxyAssumption == Nobody \notin Clients

VARIABLES
    conn,        \* where each client's connection is
    answer,      \* what each client has been sent
    origin,      \* clients whose request has been sent to the origin
    serving,     \* the client of the current exchange
    pc,          \* where the thread is
    frames,      \* the manifest
    open,        \* the capture takes frames
    stop,        \* where the stop handler is
    bound        \* the listening socket is open

vars == <<conn, answer, origin, serving, pc, frames, open, stop, bound>>

Frame(kind, c) == [kind |-> kind, client |-> c]
Recorded(kind, c) == \E i \in DOMAIN frames : frames[i] = Frame(kind, c)

Init ==
    /\ conn = [c \in Clients |-> "new"]
    /\ answer = [c \in Clients |-> "none"]
    /\ origin = {}
    /\ serving = Nobody /\ pc = "accept"
    /\ frames = <<>>
    /\ open = TRUE /\ stop = "no" /\ bound = TRUE

-----------------------------------------------------------------------------
(* Clients.                                                                 *)

Connect(c) ==
    /\ conn[c] = "new" /\ bound
    /\ conn' = [conn EXCEPT ![c] = "waiting"]
    /\ UNCHANGED <<answer, origin, serving, pc, frames, open, stop, bound>>

-----------------------------------------------------------------------------
(* The accept loop.                                                         *)

Accept(c) ==
    /\ pc = "accept" /\ stop = "no" /\ bound /\ conn[c] = "waiting"
    /\ conn' = [conn EXCEPT ![c] = "served"]
    /\ serving' = c /\ pc' = "head"
    /\ UNCHANGED <<answer, origin, frames, open, stop, bound>>

\* Mutant: accept on a closed socket raises, and the loop goes on.
ThreadEndsIfBound ==
    /\ pc = "accept" /\ stop # "no" /\ bound
    /\ pc' = "ended"
    /\ UNCHANGED <<conn, answer, origin, serving, frames, open, stop, bound>>

\* The loop ends when it sees the stop event, or the socket is closed.
ThreadEnds ==
    /\ pc = "accept" /\ stop # "no"
    /\ pc' = "ended"
    /\ UNCHANGED <<conn, answer, origin, serving, frames, open, stop, bound>>

\* The exchange is over, or an exception has ended it: the connection closes.
Hangup(reply) ==
    /\ answer' = [answer EXCEPT ![serving] = reply]
    /\ conn' = [conn EXCEPT ![serving] = "closed"]
    /\ serving' = Nobody /\ pc' = "accept"

\* append_frame raises when the capture has ended.
Append1(kind) == open /\ frames' = Append(frames, Frame(kind, serving))
AppendRaises  == ~open /\ frames' = frames /\ Hangup(answer[serving])

\* Mutant: the exception of a bad head ends the thread.
BadHeadEndsThread ==
    /\ pc = "head"
    /\ conn' = [conn EXCEPT ![serving] = "closed"]
    /\ serving' = Nobody /\ pc' = "ended"
    /\ UNCHANGED <<answer, origin, frames, open, stop, bound>>

\* The head: the client leaves or is silent for too long, or it is malformed
\* or names no host.
BadHead ==
    /\ pc = "head"
    /\ \E reply \in {"none", "400"} : Hangup(reply)
    /\ UNCHANGED <<origin, frames, open, stop, bound>>

\* CONNECT is recorded and refused (here and below, a client that has left
\* does not get its answer).
ConnectRequest ==
    /\ pc = "head"
    /\ \/ Append1("connect") /\ \E reply \in {"501", "none"} : Hangup(reply)
       \/ AppendRaises
    /\ UNCHANGED <<origin, open, stop, bound>>

\* Mutant: a request that could not be recorded is forwarded all the same.
RequestUnrecorded ==
    /\ pc = "head"
    /\ Append1("request") \/ (~open /\ UNCHANGED frames)
    /\ pc' = "dial"
    /\ UNCHANGED <<conn, answer, serving, origin, open, stop, bound>>

\* Any other request is recorded, then the proxy connects to its origin.
Request ==
    /\ pc = "head"
    /\ \/ /\ Append1("request") /\ pc' = "dial"
          /\ UNCHANGED <<conn, answer, serving>>
       \/ AppendRaises
    /\ UNCHANGED <<origin, open, stop, bound>>

\* The origin cannot be reached: recorded, and answered.
Unreachable ==
    /\ pc = "dial"
    /\ \/ Append1("response") /\ \E reply \in {"502", "none"} : Hangup(reply)
       \/ AppendRaises
    /\ UNCHANGED <<origin, open, stop, bound>>

Forward ==
    /\ pc = "dial"
    /\ origin' = origin \cup {serving}
    /\ pc' = "await"
    /\ UNCHANGED <<conn, answer, serving, frames, open, stop, bound>>

\* The origin closes without a response, or an exception (a timeout, a reset)
\* ends the exchange.
NoResponse ==
    /\ pc = "await"
    /\ \E reply \in {"502", "none"} : Hangup(reply)
    /\ UNCHANGED <<origin, frames, open, stop, bound>>

\* The response is relayed first; a client that has left raises.
RelayResponse ==
    /\ pc = "await"
    /\ \/ /\ answer' = [answer EXCEPT ![serving] = "relayed"]
          /\ pc' = "record"
          /\ UNCHANGED <<conn, serving>>
       \/ Hangup("none")
    /\ UNCHANGED <<origin, frames, open, stop, bound>>

\* Mutant: the response is recorded twice.
RecordTwice ==
    /\ pc = "record"
    /\ open /\ frames' = frames \o <<Frame("response", serving), Frame("response", serving)>>
    /\ Hangup("relayed")
    /\ UNCHANGED <<origin, open, stop, bound>>

\* Then it is recorded.
RecordResponse ==
    /\ pc = "record"
    /\ \/ Append1("response") /\ Hangup("relayed")
       \/ AppendRaises
    /\ UNCHANGED <<origin, open, stop, bound>>

\* An event stream: relayed and recorded until it ends or the listener stops.
StreamStarts ==
    /\ pc = "await"
    /\ answer' = [answer EXCEPT ![serving] = "relayed"]
    /\ pc' = "stream"
    /\ UNCHANGED <<conn, origin, serving, frames, open, stop, bound>>

\* The events of a stream are appended in batches; one batch stands for all.
StreamEvents ==
    /\ pc = "stream" /\ ~Recorded("event", serving)
    /\ \/ Append1("event") /\ UNCHANGED <<conn, answer, serving, pc>>
       \/ AppendRaises
    /\ UNCHANGED <<origin, open, stop, bound>>

\* The origin or the client ends the stream, or never does.
StreamEnds ==
    /\ pc = "stream"
    /\ Hangup("relayed")
    /\ UNCHANGED <<origin, frames, open, stop, bound>>

\* The loop of the relay sees the stop event.
StreamStops ==
    /\ pc = "stream" /\ stop # "no"
    /\ Hangup("relayed")
    /\ UNCHANGED <<origin, frames, open, stop, bound>>

-----------------------------------------------------------------------------
(* The stop handler.                                                        *)

StopSignal ==
    /\ stop = "no"
    /\ stop' = "joining" /\ bound' = FALSE
    /\ UNCHANGED <<conn, answer, origin, serving, pc, frames, open>>

\* The join returns when the thread has ended or after three seconds; then the
\* capture ends.
StopReturns ==
    /\ stop = "joining"
    /\ stop' = "returned" /\ open' = FALSE
    /\ UNCHANGED <<conn, answer, origin, serving, pc, frames, bound>>

Serve ==
    \/ ThreadEnds
    \/ BadHead \/ ConnectRequest \/ Request
    \/ Unreachable \/ Forward \/ NoResponse
    \/ RelayResponse \/ RecordResponse
    \/ StreamStarts \/ StreamEvents \/ StreamStops

Next ==
    \/ \E c \in Clients : Connect(c) \/ Accept(c)
    \/ Serve \/ StreamEnds
    \/ StopSignal \/ StopReturns

Spec == Init /\ [][Next]_vars

\* Every read of an exchange has a timeout, and the backlog is a queue of
\* bounded length: no waiting client is passed over for ever.  Nothing makes an
\* event stream end but the stop.
FairSpec == Spec /\ WF_vars(Serve) /\ \A c \in Clients : SF_vars(Accept(c))

-----------------------------------------------------------------------------
(* Properties.                                                              *)

\* The types of the clients', the exchange's and the thread's state; a
\* conjunct of ForwardedIsRecorded.
TypeOK ==
    /\ conn \in [Clients -> {"new", "waiting", "served", "closed"}]
    /\ answer \in [Clients -> {"none", "400", "501", "502", "relayed"}]
    /\ origin \subseteq Clients
    /\ serving \in Clients \cup {Nobody}
    /\ pc \in {"accept", "head", "dial", "await", "record", "stream", "ended"}
    /\ frames \in Seq([kind : {"request", "response", "connect", "event"}, client : Clients])
    /\ open \in BOOLEAN /\ bound \in BOOLEAN
    /\ stop \in {"no", "joining", "returned"}

\* Observe or refuse: nothing reaches an origin that the capture has not
\* recorded first, and a CONNECT never does.
ForwardedIsRecorded ==
    TypeOK /\ \A c \in origin : Recorded("request", c) /\ ~Recorded("connect", c)

\* The manifest tells exchanges apart although its frames carry no exchange id:
\* what the origin sent follows the request of its own exchange directly.
ResponseFollowsRequest ==
    \A i \in DOMAIN frames : frames[i].kind \in {"response", "event"} =>
       i > 1 /\ frames[i - 1] = Frame("request", frames[i].client)

\* One slow exchange delays the others and no more: a client in the backlog is
\* served, unless the listener stops or an event stream never ends.
ClientsServed ==
    ([]<>(pc # "stream")) =>
       \A c \in Clients : conn[c] = "waiting" ~> conn[c] = "closed" \/ stop # "no"

\* The thread ends once the listener is told to stop, streams included.
StopEndsThread == stop # "no" ~> pc = "ended"

=============================================================================
