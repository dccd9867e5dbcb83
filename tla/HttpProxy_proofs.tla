--------------------------- MODULE HttpProxy_proofs ---------------------------
(* Theorems about HttpProxy and their proofs.                                *)
EXTENDS HttpProxy, SequenceTheorems, TLAPS

-----------------------------------------------------------------------------
(* The inductive invariant behind ForwardedIsRecorded and                    *)
(* ResponseFollowsRequest.                                                   *)

Frames == [kind : {"request", "response", "connect", "event"}, client : Clients]
InExchange == pc \in {"head", "dial", "await", "record", "stream"}

\* The manifest and the origins know nothing of client c.
Untouched(c) == c \notin origin /\ \A i \in DOMAIN frames : frames[i].client # c

\* The last frame is the request of the current exchange.
RequestIsLast == frames # <<>> /\ frames[Len(frames)] = Frame("request", serving)

\* One client is served at a time, and a client is unknown until it is.
OneExchange ==
    /\ InExchange => serving \in Clients /\ conn[serving] = "served"
    /\ \A c \in Clients : conn[c] \in {"new", "waiting"} => Untouched(c)
    /\ pc = "head" => Untouched(serving)

\* How far the exchange has come shows in the manifest.
ExchangeRecorded ==
    /\ pc \in {"dial", "await", "record", "stream"} =>
          Recorded("request", serving) /\ ~Recorded("connect", serving)
    /\ pc \in {"dial", "await", "record"} => RequestIsLast
    /\ pc = "stream" => RequestIsLast \/ Recorded("event", serving)

ProxyInv ==
    /\ TypeOK
    /\ OneExchange
    /\ ExchangeRecorded
    /\ ForwardedIsRecorded
    /\ ResponseFollowsRequest

-----------------------------------------------------------------------------
(* What an append does to the manifest: the frames before it stay, and the   *)
(* new one is the last.                                                      *)
LEMMA AppendedFrame ==
  ASSUME TypeOK, NEW f \in Frames, frames' = Append(frames, f)
  PROVE  /\ frames' \in Seq(Frames) /\ frames' # <<>>
         /\ Len(frames') = Len(frames) + 1 /\ Len(frames) \in Nat
         /\ DOMAIN frames = 1..Len(frames) /\ DOMAIN frames' = 1..(Len(frames) + 1)
         /\ \A i \in DOMAIN frames : frames'[i] = frames[i]
         /\ frames'[Len(frames')] = f
<1>1. frames \in Seq(Frames)
  BY DEF TypeOK, Frames
<1>2. frames' \in Seq(Frames) /\ Len(frames') = Len(frames) + 1 /\ frames' # <<>>
  BY <1>1, AppendProperties
<1>3. \A i \in 1..Len(frames) : frames'[i] = frames[i]
  BY <1>1, AppendProperties
<1>4. frames'[Len(frames) + 1] = f
  BY <1>1, AppendProperties
<1>5. DOMAIN frames = 1..Len(frames) /\ Len(frames) \in Nat
  BY <1>1, LenProperties
<1>6. DOMAIN frames' = 1..(Len(frames) + 1)
  BY <1>2, LenProperties
<1>. QED
  BY <1>2, <1>3, <1>4, <1>5, <1>6

(* A frame of the current exchange keeps what was recorded, and is the only  *)
(* thing that is recorded; clients that wait stay unknown.                   *)
LEMMA AppendedOfExchange ==
  ASSUME ProxyInv, InExchange, NEW k \in {"request", "response", "connect", "event"},
         frames' = Append(frames, Frame(k, serving)), UNCHANGED origin
  PROVE  /\ frames' \in Seq(Frames)
         /\ \A c \in Clients, j \in {"request", "response", "connect", "event"} :
               Recorded(j, c)' <=> Recorded(j, c) \/ (j = k /\ c = serving)
         /\ \A c \in Clients : Untouched(c) /\ c # serving => Untouched(c)'
         /\ (k \in {"response", "event"} => RequestIsLast) => ResponseFollowsRequest'
<1>0. serving \in Clients /\ TypeOK /\ Frame(k, serving) \in Frames
  BY DEF ProxyInv, OneExchange, Frame, Frames
<1>1. /\ frames' \in Seq(Frames)
      /\ Len(frames') = Len(frames) + 1 /\ Len(frames) \in Nat
      /\ DOMAIN frames = 1..Len(frames) /\ DOMAIN frames' = 1..(Len(frames) + 1)
      /\ \A i \in DOMAIN frames : frames'[i] = frames[i]
      /\ frames'[Len(frames')] = Frame(k, serving)
  BY <1>0, AppendedFrame
<1>2. ASSUME NEW c \in Clients, NEW j \in {"request", "response", "connect", "event"}
      PROVE  Recorded(j, c)' <=> Recorded(j, c) \/ (j = k /\ c = serving)
  <2>1. Recorded(j, c)' => Recorded(j, c) \/ (j = k /\ c = serving)
    BY <1>1 DEF Recorded, Frame
  <2>2. Recorded(j, c) => Recorded(j, c)'
    BY <1>1 DEF Recorded, Frame
  <2>3. Frame(k, serving) = frames'[Len(frames')] /\ Len(frames') \in DOMAIN frames'
    BY <1>1
  <2>. QED
    BY <2>1, <2>2, <2>3 DEF Recorded, Frame
<1>3. ASSUME NEW c \in Clients, Untouched(c), c # serving PROVE Untouched(c)'
  BY <1>1, <1>3 DEF Untouched, Frame
<1>4. ASSUME k \in {"response", "event"} => RequestIsLast PROVE ResponseFollowsRequest'
  <2> SUFFICES ASSUME NEW i \in DOMAIN frames', frames'[i].kind \in {"response", "event"}
               PROVE  i > 1 /\ frames'[i - 1] = Frame("request", frames'[i].client)
    BY DEF ResponseFollowsRequest, Frame
  <2>1. CASE i \in DOMAIN frames
    <3>1. i > 1 /\ frames[i - 1] = Frame("request", frames[i].client)
      BY <1>1, <2>1 DEF ProxyInv, ResponseFollowsRequest
    <3>. QED
      BY <1>1, <2>1, <3>1
  <2>2. CASE i = Len(frames')
    <3>1. RequestIsLast /\ frames'[i] = Frame(k, serving)
      BY <1>1, <1>4, <2>2 DEF Frame
    <3>2. Len(frames) > 0
      BY <1>0, <1>1, <3>1, EmptySeq DEF RequestIsLast, TypeOK, Frames
    <3>3. i - 1 = Len(frames) /\ i - 1 \in DOMAIN frames /\ i > 1
      BY <1>1, <2>2, <3>2
    <3>4. frames'[i - 1] = Frame("request", serving)
      BY <1>1, <3>1, <3>3 DEF RequestIsLast
    <3>. QED
      BY <3>1, <3>3, <3>4 DEF Frame
  <2>. QED
    BY <1>1, <2>1, <2>2
<1>. QED
  BY <1>1, <1>2, <1>3, <1>4

(* When an exchange ends, with or without a last frame, nothing is left that *)
(* was forwarded and not recorded.                                           *)
LEMMA ExchangeOver ==
  ASSUME ProxyInv, InExchange, UNCHANGED <<origin, open, stop, bound>>,
         NEW reply \in {"none", "400", "501", "502", "relayed"}, Hangup(reply),
         \/ frames' = frames
         \/ \E k \in {"request", "response", "connect", "event"} :
               /\ frames' = Append(frames, Frame(k, serving))
               /\ k = "connect" => pc = "head"
               /\ k \in {"response", "event"} => RequestIsLast
  PROVE  ProxyInv'
<1>0. TypeOK /\ serving \in Clients /\ serving # Nobody
  BY ProxyAssumption DEF ProxyInv, OneExchange
<1>1. /\ conn' = [conn EXCEPT ![serving] = "closed"] /\ pc' = "accept" /\ serving' = Nobody
      /\ answer' = [answer EXCEPT ![serving] = reply]
  BY DEF Hangup
<1>. DEFINE Kept ==
              /\ frames' \in Seq(Frames) /\ ResponseFollowsRequest'
              /\ \A c \in Clients : c # serving /\ Untouched(c) => Untouched(c)'
              /\ \A c \in Clients : Recorded("request", c) => Recorded("request", c)'
              /\ \A c \in origin : Recorded("connect", c)' => Recorded("connect", c)
<1>2. Kept
  <2>1. CASE frames' = frames
    BY <1>0, <2>1 DEF ProxyInv, TypeOK, Frames, ResponseFollowsRequest, Untouched, Recorded, Frame
  <2>2. CASE frames' # frames
    <3>1. PICK k \in {"request", "response", "connect", "event"} :
                 /\ frames' = Append(frames, Frame(k, serving))
                 /\ k = "connect" => pc = "head"
                 /\ k \in {"response", "event"} => RequestIsLast
      BY <2>2
    <3>2. k = "connect" => serving \notin origin
      BY <3>1 DEF ProxyInv, OneExchange, Untouched
    <3>3. origin \subseteq Clients
      BY <1>0 DEF TypeOK
    <3>4. /\ frames' \in Seq(Frames)
          /\ \A c \in Clients, j \in {"request", "response", "connect", "event"} :
                Recorded(j, c)' <=> Recorded(j, c) \/ (j = k /\ c = serving)
          /\ \A c \in Clients : Untouched(c) /\ c # serving => Untouched(c)'
          /\ ResponseFollowsRequest'
      BY <3>1, AppendedOfExchange
    <3>. QED
      BY <3>2, <3>3, <3>4
  <2>. QED
    BY <2>1, <2>2
<1>3. TypeOK'
  BY <1>0, <1>1, <1>2 DEF TypeOK, Frames
<1>4. OneExchange'
  BY <1>0, <1>1, <1>2 DEF ProxyInv, OneExchange, InExchange, TypeOK
<1>5. ExchangeRecorded'
  BY <1>1 DEF ExchangeRecorded
<1>6. ForwardedIsRecorded'
  BY <1>0, <1>2, <1>3 DEF ProxyInv, ForwardedIsRecorded, TypeOK
<1>. QED
  BY <1>2, <1>3, <1>4, <1>5, <1>6 DEF ProxyInv

(* append_frame raises when the capture has ended: the exchange is over.     *)
LEMMA AppendRaisesEnds ==
  ASSUME ProxyInv, InExchange, UNCHANGED <<origin, open, stop, bound>>, AppendRaises
  PROVE  ProxyInv'
<1>1. answer[serving] \in {"none", "400", "501", "502", "relayed"}
  BY DEF ProxyInv, TypeOK, OneExchange
<1>. QED
  BY <1>1, ExchangeOver DEF AppendRaises

(* ProxyInv is inductive. *)
LEMMA ProxyStep == ProxyInv /\ [Next]_vars => ProxyInv'
<1> SUFFICES ASSUME ProxyInv, [Next]_vars PROVE ProxyInv'
  OBVIOUS
<1>. USE ProxyAssumption
<1>t. TypeOK /\ frames \in Seq(Frames)
  BY DEF ProxyInv, TypeOK, Frames
\* A step that leaves the manifest, the origins and the exchange alone.
<1>q. ASSUME UNCHANGED <<frames, origin, serving>>,
             pc' = pc \/ {pc, pc'} \subseteq {"accept", "ended"},
             \A c \in Clients : conn'[c] = conn[c] \/ (conn[c] = "new" /\ conn'[c] = "waiting"),
             TypeOK'
      PROVE  ProxyInv'
  BY <1>q DEF ProxyInv, OneExchange, InExchange, ExchangeRecorded, RequestIsLast, Untouched,
              ForwardedIsRecorded, ResponseFollowsRequest, Recorded, Frame
<1>1. ASSUME NEW c \in Clients, Connect(c) PROVE ProxyInv'
  <2>1. TypeOK'
    BY <1>1, <1>t DEF Connect, TypeOK
  <2>. QED
    BY <1>1, <1>t, <1>q, <2>1 DEF Connect, TypeOK
<1>2. ASSUME NEW c \in Clients, Accept(c) PROVE ProxyInv'
  <2>1. TypeOK'
    BY <1>2, <1>t DEF Accept, TypeOK
  <2>2. OneExchange'
    BY <1>2, <1>t DEF Accept, ProxyInv, OneExchange, InExchange, Untouched, TypeOK
  <2>3. ExchangeRecorded'
    BY <1>2 DEF Accept, ExchangeRecorded
  <2>. QED
    BY <1>2, <2>1, <2>2, <2>3 DEF Accept, ProxyInv, ForwardedIsRecorded, ResponseFollowsRequest,
                                  Recorded, Frame
<1>3. CASE ThreadEnds
  <2>1. TypeOK'
    BY <1>3, <1>t DEF ThreadEnds, TypeOK
  <2>. QED
    BY <1>3, <1>q, <2>1 DEF ThreadEnds
<1>4. CASE BadHead
  BY <1>4, ExchangeOver DEF BadHead, InExchange
<1>5. CASE ConnectRequest
  BY <1>5, ExchangeOver, AppendRaisesEnds DEF ConnectRequest, Append1, InExchange
<1>6. CASE Request
  <2>1. CASE AppendRaises
    BY <1>6, <2>1, AppendRaisesEnds DEF Request, InExchange
  <2>2. CASE Append1("request") /\ pc' = "dial" /\ UNCHANGED <<conn, answer, serving>>
    <3>1. pc = "head" /\ InExchange /\ UNCHANGED <<origin, open, stop, bound>>
      BY <1>6 DEF Request, InExchange
    <3>2. frames' = Append(frames, Frame("request", serving))
      BY <2>2 DEF Append1
    <3>3. serving \in Clients /\ conn[serving] = "served" /\ Untouched(serving)
      BY <3>1 DEF ProxyInv, OneExchange
    <3>4. /\ frames' \in Seq(Frames) /\ ResponseFollowsRequest'
          /\ \A d \in Clients : d # serving /\ Untouched(d) => Untouched(d)'
          /\ Recorded("request", serving)'
          /\ \A d \in Clients : Recorded("request", d) => Recorded("request", d)'
          /\ \A d \in Clients : Recorded("connect", d)' => Recorded("connect", d)
      <4>1. /\ frames' \in Seq(Frames) /\ ResponseFollowsRequest'
            /\ \A d \in Clients, j \in {"request", "response", "connect", "event"} :
                  Recorded(j, d)' <=> Recorded(j, d) \/ (j = "request" /\ d = serving)
            /\ \A d \in Clients : Untouched(d) /\ d # serving => Untouched(d)'
        BY <3>1, <3>2, AppendedOfExchange
      <4>. QED
        BY <2>2, <3>3, <4>1
    <3>5. RequestIsLast'
      <4>1. Frame("request", serving) \in Frames
        BY <3>3 DEF Frame, Frames
      <4>. QED
        BY <1>t, <2>2, <3>2, <4>1, AppendedFrame DEF RequestIsLast, Frame
    <3>6. TypeOK'
      BY <1>t, <2>2, <3>1, <3>4 DEF TypeOK, Frames
    <3>7. ~Recorded("connect", serving)
      BY <3>3 DEF Untouched, Recorded, Frame
    <3>8. OneExchange'
      BY <2>2, <3>1, <3>3, <3>4 DEF ProxyInv, OneExchange, InExchange
    <3>9. ExchangeRecorded'
      <4>1. serving' = serving /\ pc' = "dial"
        BY <2>2
      <4>2. Recorded("connect", serving)' => Recorded("connect", serving)
        BY <2>2, <3>3, <3>4
      <4>. QED
        BY <4>1, <4>2, <3>4, <3>5, <3>7 DEF ExchangeRecorded, Recorded, Frame
    <3>10. ForwardedIsRecorded'
      BY <1>t, <3>1, <3>4, <3>6 DEF ProxyInv, ForwardedIsRecorded, TypeOK
    <3>. QED
      BY <3>4, <3>6, <3>8, <3>9, <3>10 DEF ProxyInv
  <2>. QED
    BY <1>6, <2>1, <2>2 DEF Request
<1>7. CASE Unreachable
  <2>1. pc = "dial" /\ RequestIsLast /\ InExchange /\ UNCHANGED <<origin, open, stop, bound>>
    BY <1>7 DEF Unreachable, ProxyInv, ExchangeRecorded, InExchange
  <2>. QED
    BY <1>7, <2>1, ExchangeOver, AppendRaisesEnds DEF Unreachable, Append1
\* A step of an exchange that records nothing and sends nothing to the origin.
<1>e. ASSUME UNCHANGED <<frames, origin, serving, conn, open, stop, bound>>, pc = "await",
             pc' \in {"record", "stream"}, answer' = [answer EXCEPT ![serving] = "relayed"]
      PROVE  ProxyInv'
  <2>1. TypeOK'
    BY <1>e, <1>t DEF TypeOK
  <2>. QED
    BY <1>e, <2>1 DEF ProxyInv, OneExchange, InExchange, ExchangeRecorded, RequestIsLast, Untouched,
                      ForwardedIsRecorded, ResponseFollowsRequest, Recorded, Frame
<1>8. CASE Forward
  <2>1. /\ pc = "dial" /\ pc' = "await" /\ origin' = origin \cup {serving}
        /\ UNCHANGED <<conn, answer, serving, frames, open, stop, bound>>
    BY <1>8 DEF Forward
  <2>2. serving \in Clients /\ conn[serving] = "served"
    BY <2>1 DEF ProxyInv, OneExchange, InExchange
  <2>3. TypeOK'
    BY <1>t, <2>1, <2>2 DEF TypeOK
  <2>4. OneExchange'
    BY <2>1, <2>2 DEF ProxyInv, OneExchange, InExchange, Untouched
  <2>5. ExchangeRecorded' /\ ResponseFollowsRequest'
    BY <2>1 DEF ProxyInv, ExchangeRecorded, RequestIsLast, ResponseFollowsRequest, Recorded, Frame
  <2>6. ForwardedIsRecorded'
    BY <2>1, <2>3 DEF ProxyInv, ForwardedIsRecorded, ExchangeRecorded, Recorded, Frame
  <2>. QED
    BY <2>3, <2>4, <2>5, <2>6 DEF ProxyInv
<1>9. CASE NoResponse
  BY <1>9, ExchangeOver DEF NoResponse, InExchange
<1>10. CASE RelayResponse
  BY <1>10, <1>e, ExchangeOver DEF RelayResponse, InExchange
<1>11. CASE RecordResponse
  <2>1. pc = "record" /\ RequestIsLast /\ InExchange /\ UNCHANGED <<origin, open, stop, bound>>
    BY <1>11 DEF RecordResponse, ProxyInv, ExchangeRecorded, InExchange
  <2>. QED
    BY <1>11, <2>1, ExchangeOver, AppendRaisesEnds DEF RecordResponse, Append1
<1>12. CASE StreamStarts
  BY <1>12, <1>e DEF StreamStarts
<1>13. CASE StreamEvents
  <2>1. CASE AppendRaises
    BY <1>13, <2>1, AppendRaisesEnds DEF StreamEvents, InExchange
  <2>2. CASE Append1("event") /\ UNCHANGED <<conn, answer, serving, pc>>
    <3>1. pc = "stream" /\ InExchange /\ UNCHANGED <<origin, open, stop, bound>> /\ RequestIsLast
      BY <1>13 DEF StreamEvents, InExchange, ProxyInv, ExchangeRecorded
    <3>2. frames' = Append(frames, Frame("event", serving))
      BY <2>2 DEF Append1
    <3>3. serving \in Clients /\ conn[serving] = "served"
      BY <3>1 DEF ProxyInv, OneExchange
    <3>4. /\ frames' \in Seq(Frames) /\ ResponseFollowsRequest'
          /\ \A d \in Clients : d # serving /\ Untouched(d) => Untouched(d)'
          /\ Recorded("event", serving)'
          /\ \A d \in Clients : Recorded("request", d) => Recorded("request", d)'
          /\ \A d \in Clients : Recorded("connect", d)' => Recorded("connect", d)
      <4>1. /\ frames' \in Seq(Frames) /\ ResponseFollowsRequest'
            /\ \A d \in Clients, j \in {"request", "response", "connect", "event"} :
                  Recorded(j, d)' <=> Recorded(j, d) \/ (j = "event" /\ d = serving)
            /\ \A d \in Clients : Untouched(d) /\ d # serving => Untouched(d)'
        BY <3>1, <3>2, AppendedOfExchange
      <4>. QED
        BY <2>2, <3>3, <4>1
    <3>5. TypeOK'
      BY <1>t, <2>2, <3>1, <3>4 DEF TypeOK, Frames
    <3>6. OneExchange'
      BY <2>2, <3>1, <3>3, <3>4 DEF ProxyInv, OneExchange, InExchange
    <3>7. ExchangeRecorded'
      BY <2>2, <3>1, <3>3, <3>4 DEF ProxyInv, ExchangeRecorded, Recorded
    <3>8. ForwardedIsRecorded'
      BY <1>t, <3>1, <3>4, <3>5 DEF ProxyInv, ForwardedIsRecorded, TypeOK
    <3>. QED
      BY <3>4, <3>5, <3>6, <3>7, <3>8 DEF ProxyInv
  <2>. QED
    BY <1>13, <2>1, <2>2 DEF StreamEvents
<1>14. CASE StreamStops \/ StreamEnds
  BY <1>14, ExchangeOver DEF StreamStops, StreamEnds, InExchange
<1>15. CASE StopSignal \/ StopReturns
  <2>1. TypeOK'
    BY <1>15, <1>t DEF StopSignal, StopReturns, TypeOK
  <2>. QED
    BY <1>15, <1>q, <2>1 DEF StopSignal, StopReturns
<1>16. CASE UNCHANGED vars
  <2>1. TypeOK'
    BY <1>16, <1>t DEF vars, TypeOK
  <2>. QED
    BY <1>16, <1>q, <2>1 DEF vars
<1>. QED
  BY <1>1, <1>2, <1>3, <1>4, <1>5, <1>6, <1>7, <1>8, <1>9, <1>10, <1>11, <1>12, <1>13, <1>14,
     <1>15, <1>16 DEF Next, Serve

\* Before the first connection nothing is recorded and nothing forwarded.
LEMMA ProxyInitial == Init => ProxyInv
<1> SUFFICES ASSUME Init PROVE ProxyInv
  OBVIOUS
<1>1. frames \in Seq(Frames) /\ DOMAIN frames = {}
  BY DEF Init
<1>2. TypeOK
  BY <1>1 DEF Init, TypeOK, Frames
<1>. QED
  BY <1>1, <1>2 DEF Init, ProxyInv, OneExchange, InExchange, Untouched, ExchangeRecorded,
                    ForwardedIsRecorded, ResponseFollowsRequest

(* The inductive invariant of the proxy holds in every reachable state. *)
THEOREM ProxyCorrect == Spec => []ProxyInv
  BY ProxyInitial, ProxyStep, PTL DEF Spec

(* Nothing reaches an origin that the capture has not recorded first, and a  *)
(* CONNECT never does, whenever the capture ends and the clients leave.      *)
THEOREM ObserveOrRefuse == Spec => []ForwardedIsRecorded
<1>1. ProxyInv => ForwardedIsRecorded
  BY DEF ProxyInv
<1>. QED
  BY <1>1, ProxyCorrect, PTL

(* Frames carry no exchange id, but the manifest tells the exchanges apart:  *)
(* what an origin sent follows the request of its own exchange directly.     *)
THEOREM ExchangesToldApart == Spec => []ResponseFollowsRequest
<1>1. ProxyInv => ResponseFollowsRequest
  BY DEF ProxyInv
<1>. QED
  BY <1>1, ProxyCorrect, PTL
=============================================================================
