------------------------------- MODULE SseRelay -------------------------------
(***************************************************************************)
(* The event-stream branch of the loopback proxy: _relay_sse and           *)
(* _parse_sse_event of apire/capture/http_proxy.py, and _Reader.read_some. *)
(* It goes on where HttpFraming has read the head of a response that is an *)
(* event stream, from the same buffer, which may hold early events.        *)
(*                                                                         *)
(* The tokens of a stream are pieces of data lines, the two bytes of a     *)
(* character that UTF-8 does not write with one, comment lines, and the    *)
(* two characters that end lines.  The network cuts it into blocks between *)
(* any two tokens.  Each block is relayed as it is; then it is decoded and *)
(* its line ends are normalised, each block by itself, and complete events *)
(* are taken out of the text.                                              *)
(*                                                                         *)
(* Abstractions: an event is the set of the pieces of data it carries, an  *)
(* event without any (only comments) is dropped; headers, url and path are *)
(* left out; a longer character is torn like one of two bytes.             *)
(***************************************************************************)
EXTENDS HttpFraming

CONSTANTS
    MaxEvents,    \* _MAX_SSE_EVENTS
    BatchSize     \* events of one append_frames call

CR == "cr"
LF == "lf"
Comment == "comment"
HI == "hi"        \* the two bytes of a character
LO == "lo"
Torn == "torn"    \* U+FFFD, what errors="replace" makes of half a character

ASSUME SseAssumption == MaxEvents \in Nat \ {0} /\ BatchSize \in Nat \ {0}

VARIABLES
    relayed,    \* how much of the stream has been sent to the client
    cuts,       \* history: where a block sent to it ended inside a character or a CR LF
    buffer,     \* normalised text without a complete event
    batch,      \* events parsed and not yet appended
    emitted,    \* number of complete events
    recorded,   \* events in the manifest
    open,       \* the capture takes frames
    stopping,   \* the listener's stop event
    why         \* why the loop ended

readerVars == <<msg, arrived, eof, buf, head, raw, sample, left>>
parseVars  == <<relayed, cuts, buffer, batch, emitted, recorded>>
stopVars   == <<open, stopping>>
vars       == <<framingVars, parseVars, stopVars, why>>

-----------------------------------------------------------------------------
(* Text.                                                                    *)

\* Two tokens stand together: no block ends between them.
Pair(text, n, cut, one, other) ==
    n \in 1..(Len(text) - 1) /\ n \notin cut /\ text[n] = one /\ text[n + 1] = other

\* decode("utf-8", errors="replace"): half a character is unreadable.
IsTorn(text, n, cut) ==
    \/ text[n] = HI /\ ~Pair(text, n, cut, HI, LO)
    \/ text[n] = LO /\ ~Pair(text, n - 1, cut, HI, LO)

\* A text that is cut after some of its places, decoded, and each part of it
\* with replace("\r\n", "\n").replace("\r", "\n").
Normalised(text, cut) ==
    LET upTo[n \in 0..Len(text)] ==
          IF n = 0 THEN <<>>
          ELSE IF Pair(text, n - 1, cut, CR, LF) THEN upTo[n - 1]
          ELSE Append(upTo[n - 1],
                      IF IsTorn(text, n, cut) THEN Torn ELSE IF text[n] = CR THEN LF ELSE text[n])
    IN  upTo[Len(text)]

\* Where the first blank line of the text is, 0 if there is none.
BoundaryFrom(text, k) ==
    LET at == {i \in k..(Len(text) - 1) : text[i] = LF /\ text[i + 1] = LF} IN
    IF at = {} THEN 0 ELSE CHOOSE i \in at : \A j \in at : i <= j

Boundary(text) == BoundaryFrom(text, 1)

\* _parse_sse_event: the data of a block of lines; comments are no data.
Data(text) == {text[i] : i \in DOMAIN text} \ {LF, Comment}

Event(text, complete) == [data |-> Data(text), complete |-> complete]

\* The complete events of a text from each of its places on, one after the
\* other, and what follows them.
SplitFrom(text) ==
    LET from[k \in 1..(Len(text) + 1)] ==
          LET b == BoundaryFrom(text, k) IN
          IF b = 0 THEN [events |-> <<>>, rest |-> SubSeq(text, k, Len(text))]
          ELSE LET one == SubSeq(text, k, b - 1)
               IN  [events |-> (IF Data(one) = {} THEN <<>> ELSE <<Event(one, TRUE)>>)
                                  \o from[b + 2].events,
                    rest   |-> from[b + 2].rest]
    IN  from

Split(text) == SplitFrom(text)[1]

-----------------------------------------------------------------------------
Init ==
    /\ FramingInit
    /\ relayed = 0 /\ cuts = {}
    /\ buffer = <<>> /\ batch = <<>> /\ emitted = 0
    /\ recorded = <<>>
    /\ open = TRUE /\ stopping = FALSE
    /\ why = ""

\* Reading the head, and the messages that are no event streams.
Read == ReadStep /\ UNCHANGED <<parseVars, stopVars, why>>

Leave(reason) == pc' = "flush" /\ why' = reason

\* Nothing is buffered, and the origin has sent all it has.
AtEnd == buf = <<>> /\ arrived = Len(msg.wire)

\* Where a cut shows: inside a character, and inside a line end.
Inseparable ==
    {n \in 1..(Len(msg.wire) - Len(head) - 1) :
        <<msg.wire[Len(head) + n], msg.wire[Len(head) + n + 1]>> \in {<<HI, LO>>, <<CR, LF>>}}

\* Mutant: a loop that does not see the stop.
EndLoopDeaf ==
    /\ pc = "stream" /\ ~stopping
    /\ (AtEnd /\ Leave("eof")) \/ (buf = <<>> /\ Leave("origin"))
    /\ UNCHANGED <<readerVars, parseVars, stopVars>>

\* The loop condition, a closed or a failing origin.
EndLoop ==
    /\ pc = "stream"
    /\ \/ stopping /\ Leave("stop")
       \/ ~stopping /\ AtEnd /\ Leave("eof")
       \/ ~stopping /\ buf = <<>> /\ Leave("origin")
    /\ UNCHANGED <<readerVars, parseVars, stopVars>>

\* Mutant: the relay reads from the socket and forgets what the head read buffered.
ReadSocket ==
    /\ pc = "stream" /\ ~stopping
    /\ \E n \in 1..(Len(msg.wire) - arrived) :
          LET block == SubSeq(msg.wire, arrived + 1, arrived + n) IN
          /\ arrived' = arrived + n
          /\ raw' = raw \o block
          /\ relayed' = relayed + Len(block)
          /\ cuts' = cuts \cup (Inseparable \cap {relayed'})
          /\ buffer' = buffer \o Normalised(block, {})
          /\ pc' = "parsing"
    /\ UNCHANGED <<msg, eof, buf, head, sample, left, batch, emitted, recorded, stopVars, why>>

\* read_some returns what is buffered, else the next n tokens from the socket,
\* and they are sent to the client, which may be gone.
ReadBlock ==
    /\ pc = "stream" /\ ~stopping
    /\ \E n \in IF buf # <<>> THEN {0} ELSE 1..(Len(msg.wire) - arrived) :
          LET block == buf \o SubSeq(msg.wire, arrived + 1, arrived + n) IN
          /\ arrived' = arrived + n
          /\ buf' = <<>>
          /\ raw' = raw \o block
          /\ \/ /\ relayed' = relayed + Len(block)
                /\ cuts' = cuts \cup (Inseparable \cap {relayed'})
                /\ buffer' = buffer \o Normalised(block, {})
                /\ pc' = "parsing"
                /\ UNCHANGED why
             \/ Leave("client") /\ UNCHANGED <<relayed, cuts, buffer>>
    /\ UNCHANGED <<msg, eof, head, sample, left, batch, emitted, recorded, stopVars>>

\* append_frames takes the batch, or raises because the capture has ended; the
\* exception leaves the relay at once.
AppendEvents(events, next) ==
    \/ /\ open
       /\ recorded' = recorded \o events
       /\ batch' = <<>>
       /\ pc' = next
    \/ /\ ~open
       /\ pc' = "refused"
       /\ UNCHANGED <<recorded, batch>>

\* Mutant: an event that is dropped counts.
TakeEventCounting ==
    /\ pc = "parsing" /\ Len(batch) < BatchSize /\ Boundary(buffer) # 0
    /\ LET b   == Boundary(buffer)
           one == SubSeq(buffer, 1, b - 1)
       IN  /\ buffer' = SubSeq(buffer, b + 2, Len(buffer))
           /\ batch' = IF Data(one) = {} THEN batch ELSE Append(batch, Event(one, TRUE))
           /\ emitted' = emitted + 1
    /\ UNCHANGED <<readerVars, pc, relayed, cuts, recorded, stopVars, why>>

\* One turn of the inner loop: a complete event leaves the buffer, and a full
\* batch is appended before the next one.
TakeEvent ==
    /\ pc = "parsing" /\ Len(batch) < BatchSize /\ Boundary(buffer) # 0
    /\ LET b   == Boundary(buffer)
           one == SubSeq(buffer, 1, b - 1)
       IN  /\ buffer' = SubSeq(buffer, b + 2, Len(buffer))
           /\ IF Data(one) = {}
              THEN UNCHANGED <<batch, emitted>>
              ELSE batch' = Append(batch, Event(one, TRUE)) /\ emitted' = emitted + 1
    /\ UNCHANGED <<readerVars, pc, relayed, cuts, recorded, stopVars, why>>

AppendBatch ==
    /\ pc = "parsing" /\ Len(batch) >= BatchSize
    /\ AppendEvents(batch, "parsing")
    /\ UNCHANGED <<readerVars, relayed, cuts, buffer, emitted, stopVars, why>>

\* The buffer holds no further event: read on, unless the cap is reached.
BlockDone ==
    /\ pc = "parsing" /\ Len(batch) < BatchSize /\ Boundary(buffer) = 0
    /\ IF emitted >= MaxEvents THEN Leave("cap") ELSE pc' = "stream" /\ UNCHANGED why
    /\ UNCHANGED <<readerVars, parseVars, stopVars>>

\* What is left in the buffer becomes an incomplete event; all is appended.
Flush ==
    /\ pc = "flush"
    /\ LET last == IF Data(buffer) = {} THEN <<>> ELSE <<Event(buffer, FALSE)>> IN
       IF batch \o last = <<>>
       THEN pc' = "over" /\ UNCHANGED <<recorded, batch>>
       ELSE AppendEvents(batch \o last, "over")
    /\ UNCHANGED <<readerVars, relayed, cuts, buffer, emitted, stopVars, why>>

\* The stop handler: it signals the listener, and ends the capture when the
\* thread is done or the join has timed out.
StopListener ==
    /\ ~stopping /\ stopping' = TRUE
    /\ UNCHANGED <<framingVars, parseVars, open, why>>

EndCapture ==
    /\ stopping /\ open /\ open' = FALSE
    /\ UNCHANGED <<framingVars, parseVars, stopping, why>>

Relay == EndLoop \/ ReadBlock \/ TakeEvent \/ AppendBatch \/ BlockDone \/ Flush

Next == Read \/ Relay \/ StopListener \/ EndCapture

Spec == Init /\ [][Next]_vars

\* Sockets have a timeout: every recv of a head or a body returns or raises.
\* The loop of the relay wakes up every two seconds to look at the stop event.
FairSpec == Spec /\ WF_vars(Read) /\ WF_vars(Relay)

-----------------------------------------------------------------------------
(* Properties.                                                              *)

\* The types of the reader's and the relay's state; a conjunct of
\* RecordsWhatWasSaid.
TypeOK ==
    /\ ReaderTypeOK
    /\ pc \in FramingPcs \cup {"parsing", "flush", "over", "refused"}
    /\ relayed \in 0..Len(raw)
    /\ emitted \in Nat /\ Len(batch) <= BatchSize
    /\ open \in BOOLEAN /\ stopping \in BOOLEAN
    /\ why \in {"", "stop", "eof", "origin", "client", "cap"}

\* The first n tokens of the body that the origin sends.
Body(n) == SubSeq(msg.wire, Len(head) + 1, Len(head) + n)

\* What the stream says as far as the client has been sent it, taken as a whole:
\* the events of its text, and the incomplete one that its end leaves.  A place
\* where it was cut shows only inside a character, which is unreadable then, and
\* inside a CR LF, which ends two lines then.
Heard  == Split(Normalised(Body(relayed), cuts))
Said   == Heard.events \o (IF Data(Heard.rest) = {} THEN <<>> ELSE <<Event(Heard.rest, FALSE)>>)

\* No event is recorded that the client has not received, and none twice: at
\* every moment the complete events are those relayed, one for one.
RecordsOnlyRelayed ==
    LET known == recorded \o batch IN
    \A i \in DOMAIN known :
       known[i].complete => i \in DOMAIN Heard.events /\ known[i] = Heard.events[i]

\* The relay extracts the events of the stream (http_proxy.py: "extracting
\* complete SSE events on the way"): what it records is what the client was
\* sent, event by event and never ahead of the client, wherever the network cut
\* the stream, but for what a cut inside a character or a CR LF does to the text.
RecordsWhatWasSaid ==
    /\ TypeOK /\ RecordsOnlyRelayed
    /\ pc = "over" => recorded = Said

\* The client is served the whole stream unless it leaves, the origin fails, the
\* capture is stopped, or the stream has said as many events as a listener
\* records of one (_MAX_SSE_EVENTS; comments do not count).
RelaysToTheEnd ==
    pc = "over" /\ why \notin {"stop", "origin", "client"} =>
       relayed = Len(msg.wire) - Len(head) \/ Len(Heard.events) >= MaxEvents

\* The exchange gives the thread back once the listener is told to stop, a
\* stream without end included.
StopEndsRelay == stopping ~> ~Reading /\ pc \notin {"stream", "parsing", "flush"}

=============================================================================
