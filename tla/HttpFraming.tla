------------------------------ MODULE HttpFraming ------------------------------
(***************************************************************************)
(* How the loopback proxy reads one HTTP message from a socket: _Reader,   *)
(* _read_chunked_raw and _read_body of apire/capture/http_proxy.py.  The   *)
(* network cuts the stream into blocks anywhere, and the peer may close or *)
(* fall silent at any point.                                               *)
(*                                                                         *)
(* A stream is a sequence of tokens: Eol ends a line (a cut between its    *)
(* two characters is undone by the buffer), a token of SizeOf is the size  *)
(* of a chunk, anything else is text or data.  Lengths count tokens, so    *)
(* the line end after a chunk counts one, where the code adds two bytes.   *)
(* The body of an event stream is left to SseRelay, which extends this     *)
(* module and reads on from the same buffer.                               *)
(***************************************************************************)
EXTENDS Naturals, Sequences, FiniteSets

CONSTANTS
    Messages,      \* records [framing, length, wire]
    SizeOf,        \* the number that each size token stands for
    HeadLimit,     \* the limit of read_until
    SampleLimit    \* _MAX_BODY_SAMPLE

Eol == "eol"

ASSUME FramingAssumption ==
    /\ HeadLimit \in Nat /\ SampleLimit \in Nat \ {0}
    /\ \A t \in DOMAIN SizeOf : SizeOf[t] \in Nat
    /\ \A m \in Messages :
          /\ m.framing \in {"chunked", "length", "close", "none", "events"}
          /\ m.length \in Nat
          /\ m.wire \in Seq({m.wire[i] : i \in DOMAIN m.wire})

VARIABLES
    msg,       \* what the peer sends: its head, its body and what follows
    arrived,   \* tokens that recv has returned
    eof,       \* recv has returned an empty block
    buf,       \* _Reader.buf
    head,      \* what read_until returned
    raw,       \* the body, as it will be relayed
    sample,    \* the decoded body, as it will be recorded
    left,      \* size of the current chunk
    pc

framingVars == <<msg, arrived, eof, buf, head, raw, sample, left, pc>>

Minimum(m, n) == IF m < n THEN m ELSE n
First(s, n)   == SubSeq(s, 1, Minimum(n, Len(s)))
After(s, n)   == SubSeq(s, n + 1, Len(s))

\* Where the marker of read_until ends in the buffer, 0 if it is not there: a
\* blank line after the head, a line end elsewhere.
Marks == {i \in DOMAIN buf : buf[i] = Eol /\ (pc = "head" => i > 1 /\ buf[i - 1] = Eol)}
Mark  == IF Marks = {} THEN 0 ELSE CHOOSE i \in Marks : \A j \in Marks : i <= j

\* What read_until returns: up to the marker, or at the end all there is.
Line == IF Mark # 0 THEN First(buf, Mark) ELSE buf

\* The current read can return without another recv.
Ready ==
    \/ eof
    \/ pc \in {"head", "size", "trailer"} /\ Mark # 0
    \/ pc = "length" /\ Len(buf) >= msg.length
    \/ pc = "chunk" /\ Len(buf) >= left + 1
    \/ pc = "drain"

Reading == pc \in {"head", "size", "trailer", "chunk", "length", "all", "drain"}

-----------------------------------------------------------------------------
FramingInit ==
    /\ msg \in Messages
    /\ arrived = 0 /\ eof = FALSE
    /\ buf = <<>> /\ head = <<>> /\ raw = <<>> /\ sample = <<>>
    /\ left = 0 /\ pc = "head"

TooLong == pc \in {"head", "size", "trailer"} /\ Len(buf) > HeadLimit

\* _fill: the next block, of any size, or the end of the stream.
Fill ==
    /\ Reading /\ ~Ready /\ ~TooLong
    /\ \/ \E n \in 1..(Len(msg.wire) - arrived) :
             /\ buf' = buf \o SubSeq(msg.wire, arrived + 1, arrived + n)
             /\ arrived' = arrived + n
             /\ UNCHANGED eof
       \/ /\ arrived = Len(msg.wire)
          /\ eof' = TRUE
          /\ UNCHANGED <<buf, arrived>>
    /\ UNCHANGED <<msg, head, raw, sample, left, pc>>

\* recv raises (timeout, reset), or a line grows too long.
Raise ==
    /\ Reading /\ ~Ready
    /\ pc' = IF TooLong THEN "toolong" ELSE "raised"
    /\ UNCHANGED <<msg, arrived, eof, buf, head, raw, sample, left>>

\* Mutant: what arrived together with the head is dropped.
TakeHeadOnly ==
    /\ pc = "head" /\ Ready
    /\ head' = Line /\ buf' = <<>>
    /\ pc' = IF Mark = 0 THEN "closed"
             ELSE CASE msg.framing = "chunked" -> "size"
                    [] msg.framing = "length"  -> "length"
                    [] msg.framing = "close"   -> "all"
                    [] msg.framing = "none"    -> "drain"
                    [] msg.framing = "events"  -> "stream"
    /\ UNCHANGED <<msg, arrived, eof, raw, sample, left>>

\* The head decides how the body is read.
TakeHead ==
    /\ pc = "head" /\ Ready
    /\ head' = Line /\ buf' = After(buf, Len(Line))
    /\ pc' = IF Mark = 0 THEN "closed"
             ELSE CASE msg.framing = "chunked" -> "size"
                    [] msg.framing = "length"  -> "length"
                    [] msg.framing = "close"   -> "all"     \* a response
                    [] msg.framing = "none"    -> "drain"   \* a request
                    [] msg.framing = "events"  -> "stream"  \* text/event-stream
    /\ UNCHANGED <<msg, arrived, eof, raw, sample, left>>

\* read_exact, read_all and drain: one read is the whole body.
TakeBody ==
    /\ pc \in {"length", "all", "drain"} /\ Ready
    /\ LET body == IF pc = "length" THEN First(buf, msg.length) ELSE buf IN
       /\ raw' = body
       /\ sample' = IF pc = "drain" THEN <<>> ELSE First(body, SampleLimit)
       /\ buf' = After(buf, Len(body))
    /\ pc' = "done"
    /\ UNCHANGED <<msg, arrived, eof, head, left>>

\* A chunk's size line; at the end of the stream, or without a size, the body
\* is over.
TakeSize ==
    /\ pc = "size" /\ Ready
    /\ raw' = raw \o Line /\ buf' = After(buf, Len(Line))
    /\ IF Line # <<>> /\ Line[1] \in DOMAIN SizeOf
       THEN /\ left' = SizeOf[Line[1]]
            /\ pc' = IF SizeOf[Line[1]] = 0 THEN "trailer" ELSE "chunk"
       ELSE pc' = "done" /\ UNCHANGED left
    /\ UNCHANGED <<msg, arrived, eof, head, sample>>

\* Mutant: the line end after the chunk is left in the buffer.
TakeChunkShort ==
    /\ pc = "chunk" /\ Ready
    /\ LET chunk == First(buf, left) IN
       /\ raw' = raw \o chunk
       /\ sample' = First(sample \o chunk, SampleLimit)
       /\ buf' = After(buf, Len(chunk))
    /\ pc' = "size"
    /\ UNCHANGED <<msg, arrived, eof, head, left>>

\* A chunk and the line end after it; the sample is cut at its limit.
TakeChunk ==
    /\ pc = "chunk" /\ Ready
    /\ LET chunk == First(buf, left + 1) IN
       /\ raw' = raw \o chunk
       /\ sample' = First(sample \o First(chunk, left), SampleLimit)
       /\ buf' = After(buf, Len(chunk))
    /\ pc' = "size"
    /\ UNCHANGED <<msg, arrived, eof, head, left>>

\* Mutant: the end of the stream does not end the trailer.
TakeTrailerForever ==
    /\ pc = "trailer" /\ Ready
    /\ raw' = raw \o Line /\ buf' = After(buf, Len(Line))
    /\ pc' = IF Line = <<Eol>> THEN "done" ELSE "trailer"
    /\ UNCHANGED <<msg, arrived, eof, head, sample, left>>

\* Trailer lines, up to a blank one.
TakeTrailer ==
    /\ pc = "trailer" /\ Ready
    /\ raw' = raw \o Line /\ buf' = After(buf, Len(Line))
    /\ pc' = IF Line \in {<<>>, <<Eol>>} THEN "done" ELSE "trailer"
    /\ UNCHANGED <<msg, arrived, eof, head, sample, left>>

ReadStep == Fill \/ Raise \/ TakeHead \/ TakeBody \/ TakeSize \/ TakeChunk \/ TakeTrailer

-----------------------------------------------------------------------------
(* Properties.                                                              *)

FramingPcs == {"head", "size", "trailer", "chunk", "length", "all", "drain",
               "stream", "done", "closed", "raised", "toolong"}

\* The type of the reader's variables, but for pc.
ReaderTypeOK ==
    /\ msg \in Messages /\ arrived \in 0..Len(msg.wire) /\ eof \in BOOLEAN
    /\ left \in Nat /\ Len(sample) <= SampleLimit

\* "Head-then-body reads cannot lose or double-count bytes" (_Reader): at every
\* moment, what was returned and what is buffered is what arrived, in order.
NothingLostOrDoubled == head \o raw \o buf = SubSeq(msg.wire, 1, arrived)

\* The message that a stream holds, told from the stream as a whole: where its
\* head, a line, a trailer end, how the chunks follow each other, and what the
\* body says.
Earliest(S, n) == IF S = {} THEN n ELSE CHOOSE i \in S : \A j \in S : i <= j

HeadEnd(s)       == Earliest({i \in 2..Len(s) : s[i] = Eol /\ s[i - 1] = Eol}, Len(s))
LineEnd(s, p)    == Earliest({i \in (p + 1)..Len(s) : s[i] = Eol}, Len(s))
TrailerEnd(s, p) == Earliest({i \in (p + 1)..Len(s) :
                                 s[i] = Eol /\ (i > p + 1 => s[i - 1] = Eol)}, Len(s))

Between(s, p, q) == [end |-> Minimum(q, Len(s)), data |-> SubSeq(s, p + 1, Minimum(q, Len(s)))]

Chunks(s) ==
    LET from[p \in 0..Len(s)] ==
          LET q == LineEnd(s, p) IN
          IF p = Len(s) \/ s[p + 1] \notin DOMAIN SizeOf THEN [end |-> q, data |-> <<>>]
          ELSE IF SizeOf[s[p + 1]] = 0 THEN [end |-> TrailerEnd(s, q), data |-> <<>>]
          ELSE LET one  == Between(s, q, q + SizeOf[s[p + 1]])
                   rest == from[Minimum(q + SizeOf[s[p + 1]] + 1, Len(s))]
               IN  [end |-> rest.end, data |-> one.data \o rest.data]
    IN  from

Meant(m) ==
    LET h == HeadEnd(m.wire) IN
    CASE m.framing = "chunked" -> Chunks(m.wire)[h]
      [] m.framing = "length"  -> Between(m.wire, h, h + m.length)
      [] OTHER                 -> Between(m.wire, h, Len(m.wire))

\* Where the network cuts the stream makes no difference: a body is read up to
\* its end and no further, what follows it stays in the buffer, and what is
\* recorded is the decoded body (a request without framing has no end to find).
ReadsTheMessage ==
    pc = "done" /\ msg.framing # "none" =>
       /\ Len(head) + Len(raw) = Meant(msg).end
       /\ sample = First(Meant(msg).data, SampleLimit)

\* The exchange gets its message or an exception; it never hangs on the socket.
ReadingEnds == <>~Reading

=============================================================================
