-------------------------- MODULE MqttClient_proofs -------------------------
(***************************************************************************)
(* The MQTT client against any broker and any requests: at most one ping   *)
(* is in flight, and until the first fault a caller is told the truth.     *)
(*                                                                         *)
(* Both are about one exchange that goes back and forth between the two    *)
(* queues: at any time at most one packet of it is on its way.             *)
(***************************************************************************)
EXTENDS MqttClient, FiniteSetTheorems, TLAPS

\* The packets on their way to the broker, and to the client.
Ids == 0..(MaxPacketId + MaxIncoming)
ToBroker ==
  [kind : {"CONNECT", "DISCONNECT", "PINGREQ"}, id : {0}]
    \cup [kind : {"PUBACK", "PUBREC", "PUBREL"}, id : Ids]
    \cup [kind : {"SUBSCRIBE", "UNSUBSCRIBE"}, id : Ids, topic : Topic]
    \cup [kind : {"PUBLISH"}, id : Ids, qos : 0..2]
ToClient ==
  [kind : {"UNSUBACK", "PUBACK", "PUBREC", "PUBREL", "PUBCOMP", "PINGRESP"}, id : Ids]
    \cup [kind : {"CONNACK"}, id : Ids, rc : Refusal]
    \cup [kind : {"SUBACK"}, id : Ids, rc : Grant]
    \cup [kind : {"PUBLISH"}, id : Ids, qos : 0..2]
Waiting ==
  [kind : {"CONNECT"}, id : {0}]
    \cup [kind : {"SUBSCRIBE", "UNSUBSCRIBE"}, id : Ids, topic : Topic]
    \cup [kind : {"PUBLISH"}, id : Ids, qos : 1..2]

Requested(r) == r \in Waiting \/ r.kind \in {"NONE", "YIELD"}
Typed ==
  /\ isconnected \in BOOLEAN /\ ping_outstanding \in BOOLEAN
  /\ keepAliveInterval \in BOOLEAN /\ pingDue \in BOOLEAN
  /\ net \in BOOLEAN /\ session \in BOOLEAN
  /\ next_packetid \in 1..MaxPacketId
  /\ handlers \in Seq(Topic) /\ Len(handlers) <= MaxHandlers
  /\ up \in Seq(ToBroker) /\ down \in Seq(ToClient)
  /\ Requested(request)
  /\ timeouts \in Nat /\ drops \in Nat /\ incoming \in 0..MaxIncoming

\* Elements of A in a sequence: none, one at most, or all behind those of B.
Absent(A, s) == \A i \in DOMAIN s : s[i] \notin A
Once(A, s) == \A i, j \in DOMAIN s : s[i] \in A /\ s[j] \in A => i = j
Behind(A, B, s) == \A i, j \in DOMAIN s : s[i] \in A /\ s[j] \in B => j < i
AtMostOne(A, s, B, t) == Once(A, s) /\ Once(B, t) /\ (Absent(A, s) \/ Absent(B, t))

PingReqs == {p \in ToBroker : p.kind = "PINGREQ"}
PingResps == {q \in ToClient : q.kind = "PINGRESP"}
PingState(u, d, outstanding) ==
  /\ AtMostOne(PingReqs, u, PingResps, d)
  /\ ~outstanding => Absent(PingReqs, u) /\ Absent(PingResps, d)
Pings == PingState(up, down, ping_outstanding)

\* The packets of a request, there and back: at most one is on its way, and it belongs to the
\* request r in progress.  S is what the broker has answered.
Asking == {p \in ToBroker : \/ p.kind \in {"CONNECT", "SUBSCRIBE", "UNSUBSCRIBE", "PUBREL"}
                            \/ p.kind = "PUBLISH" /\ p.qos > 0}
Telling == {q \in ToClient : q.kind \in {"CONNACK", "SUBACK", "UNSUBACK", "PUBACK", "PUBREC", "PUBCOMP"}}
AskedBy(p, r) == p.id = r.id /\ r.kind = IF p.kind = "PUBREL" THEN "PUBLISH" ELSE p.kind
ToldTo(q, r, S) == /\ q.id = r.id /\ Answers(q) = r.kind
                   /\ Positive(q) => [kind |-> r.kind, id |-> r.id] \in S
                   /\ q.kind = "SUBACK" /\ ~Positive(q) => [kind |-> "REFUSED", id |-> r.id] \in S
StrayAsks(r) == {p \in Asking : ~AskedBy(p, r)}
StrayTells(r, S) == {q \in Telling : ~ToldTo(q, r, S)}
Exchange(u, d, r, S) ==
  /\ AtMostOne(Asking, u, Telling, d)
  /\ Absent(StrayAsks(r), u)
  /\ Absent(StrayTells(r, S), d)

\* The client takes itself for connected only if the broker does, and nothing is on its way
\* that will change that.
Openings == {p \in ToBroker : p.kind = "CONNECT"}
Leavings == {p \in ToBroker : p.kind = "DISCONNECT"}
Welcomes == {q \in ToClient : q.kind = "CONNACK" /\ q.rc = 0}
Linked(u, d, connected, s, r) ==
  /\ connected => s /\ Absent(Leavings, u) /\ r.kind # "CONNECT"
  /\ Absent(Welcomes, d) \/ (s /\ Absent(Leavings, u))
  /\ Behind(Openings, Leavings, u)

\* What the last request that returned reported.
Told == AckMatched \/ RefusalMissed

Truthful == /\ Exchange(up, down, request, answered)
            /\ Linked(up, down, isconnected, session, request)
            /\ Told

-----------------------------------------------------------------------------
(***************************************************************************)
(* What the operations of a queue do to the elements of A in it.           *)
(***************************************************************************)

\* sendPacket and the broker put a packet behind the others.
LEMMA Appended ==
  ASSUME NEW S, NEW s \in Seq(S), NEW e \in S, NEW A
  PROVE  /\ Append(s, e) \in Seq(S)
         /\ e \notin A /\ Absent(A, s) => Absent(A, Append(s, e))
         /\ e \notin A /\ Once(A, s) => Once(A, Append(s, e))
         /\ Absent(A, s) => Once(A, Append(s, e))
BY DEF Absent, Once

\* cycle and the broker take the first packet.
LEMMA Taken ==
  ASSUME NEW S, NEW s \in Seq(S), s # <<>>, NEW A
  PROVE  /\ Head(s) \in S /\ Tail(s) \in Seq(S)
         /\ Absent(A, s) => Absent(A, Tail(s)) /\ Head(s) \notin A
         /\ Once(A, s) => Once(A, Tail(s))
         /\ Once(A, s) /\ Head(s) \in A => Absent(A, Tail(s))
<1>1. Head(s) \in S /\ Tail(s) \in Seq(S) /\ Len(s) \in Nat \ {0} /\ DOMAIN s = 1..Len(s)
      /\ Head(s) = s[1] /\ 1 \in DOMAIN s
  OBVIOUS
<1>2. \A i \in DOMAIN Tail(s) : Tail(s)[i] = s[i + 1] /\ i + 1 \in DOMAIN s /\ i + 1 # 1 /\ i \in Nat
  OBVIOUS
<1>3. Absent(A, s) => Absent(A, Tail(s)) /\ Head(s) \notin A
  BY <1>1, <1>2 DEF Absent
<1>4. Once(A, s) => Once(A, Tail(s))
  <2> SUFFICES ASSUME Once(A, s), NEW i \in DOMAIN Tail(s), NEW j \in DOMAIN Tail(s),
                      Tail(s)[i] \in A, Tail(s)[j] \in A
               PROVE  i = j
    BY DEF Once
  <2>1. i + 1 = j + 1
    BY <1>2 DEF Once
  <2> QED
    BY <2>1, <1>2
<1>5. Once(A, s) /\ Head(s) \in A => Absent(A, Tail(s))
  BY <1>1, <1>2 DEF Absent, Once
<1> QED
  BY <1>1, <1>3, <1>4, <1>5

\* A lost connection cuts the queue short.
LEMMA Cut ==
  ASSUME NEW S, NEW s \in Seq(S), NEW k \in 0..Len(s), NEW A
  PROVE  /\ SubSeq(s, 1, k) \in Seq(S)
         /\ Absent(A, s) => Absent(A, SubSeq(s, 1, k))
         /\ Once(A, s) => Once(A, SubSeq(s, 1, k))
BY DEF Absent, Once

LEMMA Nothing == ASSUME NEW S, NEW A PROVE <<>> \in Seq(S) /\ Absent(A, <<>>) /\ Once(A, <<>>)
BY DEF Absent, Once

LEMMA AbsentOnce == ASSUME NEW A, NEW s, Absent(A, s) PROVE Once(A, s)
BY DEF Absent, Once

-----------------------------------------------------------------------------
(***************************************************************************)
(* The packets themselves.                                                 *)
(***************************************************************************)

LEMMA IdsTyped ==     /\ Ids \subseteq Nat /\ 0 \in Ids /\ 1..MaxPacketId \subseteq Ids
                        /\ 0..MaxIncoming \subseteq Ids
BY HandlerAssumption, BoundsAssumption DEF Ids

\* What TypeOK says of the packets on their way follows from their being packets.
LEMMA TypedOK == Typed => TypeOK
<1> SUFFICES ASSUME Typed PROVE TypeOK
  OBVIOUS
<1>1. \A p \in ToBroker \cup ToClient : p.id \in 0..(MaxPacketId + MaxIncoming)
  BY IdsTyped DEF ToBroker, ToClient, Ids
<1>2. \A i \in DOMAIN up : up[i] \in ToBroker
  BY DEF Typed
<1>3. \A i \in DOMAIN down : down[i] \in ToClient
  BY DEF Typed
<1> QED
  BY <1>1, <1>2, <1>3 DEF Typed, TypeOK

\* The packet that a cycle sends back, if it sends one.
LEMMA Replied ==
  ASSUME NEW s \in Seq(ToBroker), NEW p \in ToClient
  PROVE  \/ Answer(p) = <<>> /\ s \o Answer(p) = s /\ p.kind # "PUBREC"
         \/ \E e \in ToBroker :
              /\ e.kind \in {"PUBACK", "PUBREC", "PUBREL"} /\ e.id = p.id
              /\ e.kind = "PUBREL" <=> p.kind = "PUBREC"
              /\ p.kind # "PINGRESP"
              /\ Answer(p) = <<e>> /\ s \o Answer(p) = Append(s, e)
<1>1. p.id \in Ids
  BY DEF ToClient
<1>2. \A e \in ToBroker : s \o <<e>> = Append(s, e)
  OBVIOUS
<1>3. s \o <<>> = s
  OBVIOUS
<1>4. \A k \in {"PUBACK", "PUBREC", "PUBREL"} : [kind |-> k, id |-> p.id] \in ToBroker
  BY <1>1 DEF ToBroker
<1>5. CASE p.kind = "PUBLISH" /\ p.qos = 1
  BY <1>2, <1>4, <1>5 DEF Answer
<1>6. CASE p.kind = "PUBLISH" /\ p.qos = 2
  BY <1>2, <1>4, <1>6 DEF Answer
<1>7. CASE p.kind = "PUBREC"
  BY <1>2, <1>4, <1>7 DEF Answer
<1>8. CASE ~(p.kind = "PUBLISH" /\ p.qos = 1) /\ ~(p.kind = "PUBLISH" /\ p.qos = 2) /\ p.kind # "PUBREC"
  BY <1>3, <1>8 DEF Answer
<1> QED
  BY <1>5, <1>6, <1>7, <1>8

\* keepalive sends a ping only when none is unanswered.
LEMMA PingSent ==
  ASSUME NEW q \in Seq(ToBroker), NEW due \in BOOLEAN, NEW o \in BOOLEAN, keepalive(q, due, o)
  PROVE  /\ pingDue' \in BOOLEAN /\ ping_outstanding' \in BOOLEAN /\ up' \in Seq(ToBroker)
         /\ \/ up' = q /\ ping_outstanding' = o
            \/ \E e \in ToBroker : /\ e.kind = "PINGREQ" /\ up' = Append(q, e)
                                   /\ ~o /\ ping_outstanding'
<1> DEFINE e == [kind |-> "PINGREQ", id |-> 0]
<1>1. e \in ToBroker /\ e.kind = "PINGREQ"
  BY IdsTyped DEF ToBroker
<1>2. CASE up' = q /\ pingDue' = due /\ ping_outstanding' = o
  BY <1>2
<1>3. CASE ~o /\ up' = Append(q, e) /\ pingDue' = FALSE /\ ping_outstanding' = TRUE
  BY <1>1, <1>3, Appended
<1> QED
  BY <1>2, <1>3 DEF keepalive

LEMMA PingSentOnce ==
  ASSUME NEW q \in Seq(ToBroker), NEW due \in BOOLEAN, NEW o \in BOOLEAN, keepalive(q, due, o),
         NEW d \in Seq(ToClient), PingState(q, d, o)
  PROVE  PingState(up', d, ping_outstanding')
<1>1. CASE up' = q /\ ping_outstanding' = o
  BY <1>1
<1>2. ASSUME NEW e \in ToBroker, up' = Append(q, e), ~o, ping_outstanding'
      PROVE  PingState(up', d, ping_outstanding')
  <2>1. Absent(PingReqs, q) /\ Absent(PingResps, d)
    BY <1>2 DEF PingState
  <2>2. Once(PingReqs, up') /\ Once(PingResps, d)
    BY <1>2, <2>1, Appended, AbsentOnce
  <2> QED
    BY <1>2, <2>1, <2>2 DEF PingState, AtMostOne
<1> QED
  BY <1>1, <1>2, PingSent

-----------------------------------------------------------------------------
(***************************************************************************)
(* The client's own state.                                                 *)
(***************************************************************************)

\* What a request may send, and what it may then wait for.
Sendable == {p \in ToBroker : /\ p.kind \notin {"PINGREQ", "PUBACK", "PUBREC", "PUBREL"}
                              /\ Expected(p) = "NOTHING" \/ p \in Waiting}

LEMMA NoneRequested == Requested(None)
BY DEF None, Requested

LEMMA Sending ==
  ASSUME Typed, NEW r \in Sendable, NEW due \in BOOLEAN, SendAndWait(r, due)
  PROVE  /\ up' \in Seq(ToBroker) /\ pingDue' \in BOOLEAN /\ Requested(request')
         /\ \/ net /\ up' = Append(up, r)
            \/ up' = up /\ request' = None
<1>1. CASE Sent(r) /\ IF Expected(r) = "NOTHING" THEN Return(r, 0) ELSE request' = r /\ result' = result
  BY <1>1, Appended, NoneRequested DEF Sent, Return, Sendable, Requested, Typed
<1>2. CASE Return(r, FAILURE) /\ pingDue' = due /\ up' = up
  BY <1>2, NoneRequested DEF Return, Typed
<1> QED
  BY <1>1, <1>2 DEF SendAndWait

LEMMA SendingPings ==
  ASSUME Typed, NEW r \in Sendable, NEW due \in BOOLEAN, SendAndWait(r, due),
         Pings, UNCHANGED <<down, ping_outstanding>>
  PROVE  Pings'
<1>1. r \in ToBroker /\ r \notin PingReqs
  BY DEF Sendable, PingReqs
<1>2. CASE up' = Append(up, r)
  BY <1>1, <1>2, Appended DEF Typed, Pings, PingState, AtMostOne
<1>3. CASE up' = up
  BY <1>3 DEF Pings
<1> QED
  BY <1>2, <1>3, Sending

LEMMA NextIdTyped == ASSUME Typed PROVE getNextPacketId \in 1..MaxPacketId
BY HandlerAssumption DEF Typed, getNextPacketId

\* The requests there are.
LEMMA Requests ==
  ASSUME NEW n \in 1..MaxPacketId
  PROVE  /\ [kind |-> "CONNECT", id |-> 0] \in Sendable
         /\ [kind |-> "DISCONNECT", id |-> 0] \in Sendable
         /\ [kind |-> "PUBLISH", id |-> 0, qos |-> 0] \in Sendable
         /\ \A q \in 1..2 : [kind |-> "PUBLISH", id |-> n, qos |-> q] \in Sendable
<1>1. 0 \in Ids /\ n \in Ids
  BY IdsTyped
<1> QED
  BY <1>1 DEF Sendable, ToBroker, Waiting, Expected

LEMMA TopicRequests ==
  ASSUME NEW n \in 1..MaxPacketId, NEW t \in Topic
  PROVE  /\ [kind |-> "SUBSCRIBE", id |-> n, topic |-> t] \in Sendable
         /\ [kind |-> "UNSUBSCRIBE", id |-> n, topic |-> t] \in Sendable
<1>1. n \in Ids
  BY IdsTyped
<1> QED
  BY <1>1 DEF Sendable, ToBroker, Waiting, Expected

\* An exchange of the client's that leaves everything but the packets sent alone.
LEMMA RequestTyped ==
  ASSUME Typed, Pings, NEW r \in Sendable, NEW due \in BOOLEAN, SendAndWait(r, due),
         isconnected' \in BOOLEAN, keepAliveInterval' \in BOOLEAN,
         next_packetid' \in 1..MaxPacketId,
         UNCHANGED <<ping_outstanding, handlers, net, down, session, timeouts, drops, incoming>>
  PROVE  Typed' /\ Pings'
BY Sending, SendingPings DEF Typed

LEMMA NumberedTyped ==
  ASSUME Typed, Pings, NEW r, [r EXCEPT !.id = getNextPacketId] \in Sendable, NumberedRequest(r)
  PROVE  Typed' /\ Pings'
BY RequestTyped, NextIdTyped DEF NumberedRequest, Typed

LEMMA ConnectTyped == ASSUME Typed, Pings, MQTTConnect PROVE Typed' /\ Pings'
<1> DEFINE r == [kind |-> "CONNECT", id |-> 0]
<1>1. r \in Sendable
  BY Requests, NextIdTyped
<1>2. CASE isconnected /\ Return(r, FAILURE) /\ UNCHANGED <<up, keepAliveInterval, pingDue>>
  BY <1>2, NoneRequested DEF MQTTConnect, Typed, Pings, Return
<1>3. CASE keepAliveInterval' = KeepAlive /\ SendAndWait(r, FALSE)
  BY <1>1, <1>3, RequestTyped, BoundsAssumption DEF MQTTConnect, Typed
<1> QED
  BY <1>2, <1>3 DEF MQTTConnect

LEMMA SubscribeTyped ==
  ASSUME Typed, Pings, NEW t \in Topic, MQTTSubscribe(t) \/ MQTTUnsubscribe(t) PROVE Typed' /\ Pings'
<1> DEFINE r(k) == [kind |-> k, id |-> 0, topic |-> t]
<1>1. /\ [r("SUBSCRIBE") EXCEPT !.id = getNextPacketId]
          = [kind |-> "SUBSCRIBE", id |-> getNextPacketId, topic |-> t]
      /\ [r("UNSUBSCRIBE") EXCEPT !.id = getNextPacketId]
          = [kind |-> "UNSUBSCRIBE", id |-> getNextPacketId, topic |-> t]
  OBVIOUS
<1>2. /\ [r("SUBSCRIBE") EXCEPT !.id = getNextPacketId] \in Sendable
      /\ [r("UNSUBSCRIBE") EXCEPT !.id = getNextPacketId] \in Sendable
  BY <1>1, TopicRequests, NextIdTyped
<1> QED
  BY <1>2, NumberedTyped DEF MQTTSubscribe, MQTTUnsubscribe

LEMMA PublishTyped == ASSUME Typed, Pings, NEW q \in QoSs, MQTTPublish(q) PROVE Typed' /\ Pings'
<1> DEFINE r == [kind |-> "PUBLISH", id |-> 0, qos |-> q]
<1>1. CASE q > 0 /\ NumberedRequest(r)
  <2>1. [r EXCEPT !.id = getNextPacketId] = [kind |-> "PUBLISH", id |-> getNextPacketId, qos |-> q]
    OBVIOUS
  <2>2. q \in 1..2
    BY <1>1, QoSAssumption
  <2>3. [r EXCEPT !.id = getNextPacketId] \in Sendable
    BY <2>1, <2>2, Requests, NextIdTyped
  <2> QED
    BY <1>1, <2>3, NumberedTyped
<1>2. CASE q = 0 /\ ~(q > 0 /\ NumberedRequest(r))
  <2>1. [kind |-> "PUBLISH", id |-> 0, qos |-> 0] \in Sendable
    BY Requests, NextIdTyped
  <2> QED
    BY <1>2, <2>1, RequestTyped DEF MQTTPublish, Typed
<1> QED
  BY <1>1, <1>2 DEF MQTTPublish

LEMMA DisconnectTyped == ASSUME Typed, Pings, MQTTDisconnect PROVE Typed' /\ Pings'
<1>1. [kind |-> "DISCONNECT", id |-> 0] \in Sendable
  BY Requests, NextIdTyped
<1> QED
  BY <1>1, RequestTyped DEF MQTTDisconnect, Typed

LEMMA YieldTyped == ASSUME Typed, Pings, MQTTYield PROVE Typed' /\ Pings'
BY DEF MQTTYield, Typed, Pings, clientVars, Requested

\* A request is completed, and the client's handlers stay within their slots.
LEMMA CompleteTyped ==
  ASSUME Typed, NEW p \in ToClient, Complete(request, p), p.kind = Expected(request)
  PROVE  /\ request' = None /\ isconnected' \in BOOLEAN
         /\ handlers' \in Seq(Topic) /\ Len(handlers') <= MaxHandlers
<1>1. request.kind = "SUBSCRIBE" => request.topic \in Topic
  BY DEF Typed, Requested, Waiting
<1>2. CASE request.kind = "CONNECT"
  BY <1>2 DEF Complete, Return, Typed
<1>3. CASE request.kind = "SUBSCRIBE" /\ readChar(p.rc) # 128 /\ Len(handlers) < MaxHandlers
  <2>1. handlers' = Append(handlers, request.topic) /\ request' = None /\ isconnected' = isconnected
    BY <1>3, HandlerAssumption DEF Complete, Return, Typed
  <2> QED
    BY <1>1, <1>3, <2>1, HandlerAssumption DEF Typed
<1>4. CASE request.kind = "SUBSCRIBE" /\ ~(readChar(p.rc) # 128 /\ Len(handlers) < MaxHandlers)
  BY <1>4, HandlerAssumption DEF Complete, Return, Typed
<1>5. CASE request.kind # "CONNECT" /\ request.kind # "SUBSCRIBE"
  BY <1>5 DEF Complete, Return, Typed
<1> QED
  BY <1>2, <1>3, <1>4, <1>5

\* The queues of a cycle: the first packet is gone, an answer to it may have
\* been added, and if it was a PINGRESP no ping is left.
LEMMA CyclePings ==
  ASSUME Typed, Pings, down # <<>>
  PROVE  PingState(up \o Answer(Head(down)), Tail(down), ping_outstanding /\ Head(down).kind # "PINGRESP")
<1> DEFINE p == Head(down)
           q == up \o Answer(p)
<1>1. /\ down \in Seq(ToClient) /\ up \in Seq(ToBroker)
      /\ p \in ToClient /\ Tail(down) \in Seq(ToClient)
  BY Taken DEF Typed
<1>2. /\ Absent(PingResps, down) => Absent(PingResps, Tail(down)) /\ p \notin PingResps
      /\ Once(PingResps, down) => Once(PingResps, Tail(down))
      /\ Once(PingResps, down) /\ p \in PingResps => Absent(PingResps, Tail(down))
  BY <1>1, Taken
<1>3. /\ Absent(PingReqs, up) => Absent(PingReqs, q)
      /\ Once(PingReqs, up) => Once(PingReqs, q)
  <2>1. CASE q = up
    BY <2>1
  <2>2. ASSUME NEW e \in ToBroker, e.kind \in {"PUBACK", "PUBREC", "PUBREL"}, q = Append(up, e)
        PROVE  <1>3!:
    BY <1>1, <2>2, Appended DEF PingReqs
  <2> QED
    BY <1>1, <2>1, <2>2, Replied
<1>4. p \in PingResps <=> p.kind = "PINGRESP"
  BY <1>1 DEF PingResps
<1>5. CASE p.kind = "PINGRESP"
  BY <1>2, <1>3, <1>4, <1>5 DEF Pings, PingState, AtMostOne
<1>6. CASE p.kind # "PINGRESP"
  BY <1>2, <1>3, <1>4, <1>6 DEF Pings, PingState, AtMostOne
<1> QED
  BY <1>5, <1>6

LEMMA CycleTyped == ASSUME Typed, Pings, Cycle PROVE Typed' /\ Pings'
<1> DEFINE p == Head(down)
           q == up \o Answer(p)
           due == pingDue /\ Answer(p) = <<>>
           o == ping_outstanding /\ p.kind # "PINGRESP"
<1>1. /\ down \in Seq(ToClient) /\ up \in Seq(ToBroker) /\ down # <<>>
      /\ p \in ToClient /\ Tail(down) \in Seq(ToClient) /\ down' = Tail(down)
  BY Taken DEF Typed, Cycle
<1>2. q \in Seq(ToBroker)
  <2>1. \A e \in ToBroker : Append(up, e) \in Seq(ToBroker)
    BY <1>1
  <2>2. q = up \/ \E e \in ToBroker : q = Append(up, e)
    BY <1>1, Replied
  <2> HIDE DEF q
  <2> QED
    BY <1>1, <2>1, <2>2
<1>2a. due \in BOOLEAN /\ o \in BOOLEAN
  OBVIOUS
<1>3. keepalive(q, due, o)
  BY DEF Cycle
<1>4. PingState(q, Tail(down), o)
  BY <1>1, CyclePings
<1> HIDE DEF q, due, o
<1>5. Pings'
  BY <1>1, <1>2, <1>2a, <1>3, <1>4, PingSentOnce DEF Pings
<1>6. pingDue' \in BOOLEAN /\ ping_outstanding' \in BOOLEAN /\ up' \in Seq(ToBroker)
  BY <1>2, <1>2a, <1>3, PingSent
<1>7. /\ Requested(request') /\ isconnected' \in BOOLEAN
      /\ handlers' \in Seq(Topic) /\ Len(handlers') <= MaxHandlers
  <2>1. CASE p.kind = Expected(request) /\ Complete(request, p)
    BY <1>1, <2>1, CompleteTyped, NoneRequested
  <2>2. CASE UNCHANGED <<request, result, handlers, isconnected>>
    BY <2>2 DEF Typed
  <2> QED
    BY <2>1, <2>2 DEF Cycle
<1> QED
  BY <1>1, <1>5, <1>6, <1>7 DEF Typed, Cycle, bounds

LEMMA CycleFailsTyped == ASSUME Typed, Pings, CycleFails PROVE Typed' /\ Pings'
<1> DEFINE p == Head(down)
<1>1. /\ down \in Seq(ToClient) /\ down # <<>> /\ up' = up
      /\ p \in ToClient /\ Tail(down) \in Seq(ToClient) /\ down' = Tail(down)
  BY Taken DEF Typed, CycleFails
<1>2. /\ Absent(PingResps, down) => Absent(PingResps, down')
      /\ Once(PingResps, down) => Once(PingResps, down')
  BY <1>1, Taken
<1>3. Pings'
  BY <1>1, <1>2 DEF CycleFails, clientVars, Pings, PingState, AtMostOne
<1>4. Requested(request')
  BY NoneRequested DEF CycleFails, Return, Typed
<1> QED
  BY <1>1, <1>3, <1>4 DEF CycleFails, clientVars, bounds, Typed

LEMMA ExpireTyped == ASSUME Typed, Pings, Expire PROVE Typed' /\ Pings'
<1>1. /\ up \in Seq(ToBroker) /\ down \in Seq(ToClient)
      /\ pingDue \in BOOLEAN /\ ping_outstanding \in BOOLEAN
      /\ keepalive(up, pingDue, ping_outstanding) /\ down' = down
  BY DEF Typed, Expire
<1>2. Pings'
  BY <1>1, PingSentOnce DEF Pings
<1>3. pingDue' \in BOOLEAN /\ ping_outstanding' \in BOOLEAN /\ up' \in Seq(ToBroker)
  BY <1>1, PingSent
<1>4. Requested(request') /\ timeouts' \in Nat
  BY NoneRequested DEF Expire, Return, Typed
<1> QED
  BY <1>1, <1>2, <1>3, <1>4 DEF Expire, Typed

LEMMA PingTimerTyped == ASSUME Typed, Pings, PingTimer PROVE Typed' /\ Pings'
BY DEF PingTimer, Typed, Pings, bounds

LEMMA NetDropTyped == ASSUME Typed, Pings, NetDrop PROVE Typed' /\ Pings'
<1>1. PICK k \in 0..Len(down) : down' = SubSeq(down, 1, k)
  BY DEF NetDrop
<1>2. down \in Seq(ToClient) /\ up' = <<>>
  BY DEF Typed, NetDrop
<1>3. /\ down' \in Seq(ToClient)
      /\ Absent(PingResps, down) => Absent(PingResps, down')
      /\ Once(PingResps, down) => Once(PingResps, down')
  BY <1>1, <1>2, Cut
<1>4. up' \in Seq(ToBroker) /\ Absent(PingReqs, up') /\ Once(PingReqs, up')
  BY <1>2, Nothing
<1>5. Pings'
  BY <1>3, <1>4 DEF NetDrop, clientVars, Pings, PingState, AtMostOne
<1>6. drops' \in Nat
  BY DEF NetDrop, Typed
<1>6a. net' \in BOOLEAN /\ session' \in BOOLEAN
  BY DEF NetDrop
<1>7. UNCHANGED <<isconnected, next_packetid, ping_outstanding, keepAliveInterval, pingDue, handlers,
                  request, timeouts, incoming>>
  BY DEF NetDrop, clientVars
<1> QED
  BY <1>3, <1>4, <1>5, <1>6, <1>6a, <1>7 DEF Typed

LEMMA NetConnectTyped == ASSUME Typed, Pings, NetConnect PROVE Typed' /\ Pings'
BY DEF NetConnect, Typed, Pings, clientVars, bounds

\* The broker answers with packets, and with a PINGRESP only to a PINGREQ.
LEMMA ReplyTyped ==
  ASSUME NEW p \in ToBroker, NEW q \in BrokerReply(p)
  PROVE  /\ q \in ToClient
         /\ q.kind = "PINGRESP" <=> p.kind = "PINGREQ"
<1>1. p.id \in Ids /\ 0 \in Ids
  BY IdsTyped DEF ToBroker
<1>2. CASE p.kind = "CONNECT"
  BY <1>1, <1>2 DEF BrokerReply, ToClient
<1>3. CASE p.kind = "SUBSCRIBE"
  BY <1>1, <1>3 DEF BrokerReply, ToClient
<1>4. CASE p.kind = "UNSUBSCRIBE"
  BY <1>1, <1>4 DEF BrokerReply, ToClient
<1>5. CASE p.kind = "PUBLISH" /\ p.qos = 1
  BY <1>1, <1>5 DEF BrokerReply, ToClient
<1>6. CASE p.kind = "PUBLISH" /\ p.qos = 2
  BY <1>1, <1>6 DEF BrokerReply, ToClient
<1>7. CASE p.kind = "PUBREL"
  BY <1>1, <1>7 DEF BrokerReply, ToClient
<1>8. CASE p.kind = "PUBREC"
  BY <1>1, <1>8 DEF BrokerReply, ToClient
<1>9. CASE p.kind = "PINGREQ"
  BY <1>1, <1>9 DEF BrokerReply, ToClient
<1>10. CASE /\ p.kind \notin {"CONNECT", "SUBSCRIBE", "UNSUBSCRIBE", "PUBREL", "PUBREC", "PINGREQ"}
            /\ ~(p.kind = "PUBLISH" /\ p.qos = 1) /\ ~(p.kind = "PUBLISH" /\ p.qos = 2)
  BY <1>10 DEF BrokerReply
<1> QED
  BY <1>2, <1>3, <1>4, <1>5, <1>6, <1>7, <1>8, <1>9, <1>10

LEMMA BrokerTyped == ASSUME Typed, Pings, Broker PROVE Typed' /\ Pings'
<1> DEFINE p == Head(up)
<1>1. /\ up \in Seq(ToBroker) /\ up # <<>> /\ down \in Seq(ToClient)
      /\ p \in ToBroker /\ Tail(up) \in Seq(ToBroker) /\ up' = Tail(up)
  BY Taken DEF Typed, Broker
<1>2. /\ Absent(PingReqs, up) => Absent(PingReqs, up') /\ p \notin PingReqs
      /\ Once(PingReqs, up) => Once(PingReqs, up')
      /\ Once(PingReqs, up) /\ p \in PingReqs => Absent(PingReqs, up')
  BY <1>1, Taken
<1>3. CASE UNCHANGED <<down, answered>> /\ session' = (session /\ p.kind # "DISCONNECT")
  <2>1. Pings'
    BY <1>1, <1>2, <1>3 DEF Broker, clientVars, Pings, PingState, AtMostOne
  <2> QED
    BY <1>1, <1>3, <2>1 DEF Broker, clientVars, bounds, Typed
<1>4. ASSUME NEW q \in BrokerReply(p), down' = Append(down, q),
             session' = IF q.kind = "CONNACK" THEN q.rc = 0 ELSE session
      PROVE  Typed' /\ Pings'
  <2>1. q \in ToClient /\ (q \in PingResps <=> p \in PingReqs)
    BY <1>1, ReplyTyped DEF PingReqs, PingResps
  <2>2. /\ down' \in Seq(ToClient)
        /\ q \notin PingResps /\ Absent(PingResps, down) => Absent(PingResps, down')
        /\ q \notin PingResps /\ Once(PingResps, down) => Once(PingResps, down')
        /\ Absent(PingResps, down) => Once(PingResps, down')
    BY <1>1, <1>4, <2>1, Appended
  <2>3. Pings'
    BY <1>1, <1>2, <2>1, <2>2 DEF Broker, clientVars, Pings, PingState, AtMostOne
  <2>4. session' \in BOOLEAN
    BY <1>4 DEF Typed
  <2> QED
    BY <1>1, <2>2, <2>3, <2>4 DEF Broker, clientVars, bounds, Typed
<1> QED
  BY <1>3, <1>4 DEF Broker

LEMMA BrokerPublishTyped == ASSUME Typed, Pings, NEW q \in QoSs, BrokerPublish(q) PROVE Typed' /\ Pings'
<1> DEFINE p == [kind |-> "PUBLISH", id |-> incoming + 1, qos |-> q]
<1>1. incoming + 1 \in 0..MaxIncoming /\ down' = Append(down, p) /\ down \in Seq(ToClient)
  BY BoundsAssumption DEF BrokerPublish, Typed
<1>2. p \in ToClient /\ p \notin PingResps
  BY <1>1, IdsTyped, QoSAssumption DEF ToClient, PingResps
<1>3. /\ down' \in Seq(ToClient)
      /\ Absent(PingResps, down) => Absent(PingResps, down')
      /\ Once(PingResps, down) => Once(PingResps, down')
  BY <1>1, <1>2, Appended
<1>4. Pings'
  BY <1>3 DEF BrokerPublish, clientVars, Pings, PingState, AtMostOne
<1> QED
  BY <1>1, <1>3, <1>4 DEF BrokerPublish, clientVars, Typed

LEMMA TypedInit == Init => Typed /\ Pings
<1> SUFFICES ASSUME Init PROVE Typed /\ Pings
  OBVIOUS
<1>1. Pings
  BY Nothing DEF Init, Pings, PingState, AtMostOne
<1>2. Requested(request) /\ handlers \in Seq(Topic) /\ up \in Seq(ToBroker) /\ down \in Seq(ToClient)
  BY Nothing, NoneRequested DEF Init
<1>3. Len(handlers) <= MaxHandlers /\ next_packetid \in 1..MaxPacketId /\ incoming \in 0..MaxIncoming
  BY HandlerAssumption, BoundsAssumption DEF Init
<1> QED
  BY <1>1, <1>2, <1>3 DEF Init, Typed

LEMMA TypedNext == Typed /\ Pings /\ [Next]_vars => Typed' /\ Pings'
<1> SUFFICES ASSUME Typed, Pings, [Next]_vars PROVE Typed' /\ Pings'
  OBVIOUS
<1>1. CASE UNCHANGED vars
  BY <1>1 DEF vars, clientVars, bounds, Typed, Pings
<1>2. ASSUME NEW t \in Topic, MQTTSubscribe(t) \/ MQTTUnsubscribe(t) PROVE Typed' /\ Pings'
  BY <1>2, SubscribeTyped
<1>3. ASSUME NEW q \in QoSs, MQTTPublish(q) PROVE Typed' /\ Pings'
  BY <1>3, PublishTyped
<1>4. ASSUME NEW q \in QoSs, BrokerPublish(q) PROVE Typed' /\ Pings'
  BY <1>4, BrokerPublishTyped
<1> QED
  BY <1>1, <1>2, <1>3, <1>4, ConnectTyped, DisconnectTyped, YieldTyped, CycleTyped, CycleFailsTyped,
     ExpireTyped, PingTimerTyped, NetDropTyped, NetConnectTyped, BrokerTyped DEF Next

\* A set of places at most one of which counts has at most one member.
LEMMA CountOnce ==
  ASSUME NEW S, NEW s \in Seq(S), NEW A
  PROVE  /\ Cardinality({i \in DOMAIN s : s[i] \in A}) \in Nat
         /\ Absent(A, s) => Cardinality({i \in DOMAIN s : s[i] \in A}) = 0
         /\ Once(A, s) => Cardinality({i \in DOMAIN s : s[i] \in A}) <= 1
<1> DEFINE P == {i \in DOMAIN s : s[i] \in A}
<1>1. Absent(A, s) => P = {}
  BY DEF Absent
<1>2. Once(A, s) => P = {} \/ \E i : P = {i}
  <2> SUFFICES ASSUME Once(A, s), NEW i \in P PROVE P = {i}
    OBVIOUS
  <2> QED
    BY DEF Once
<1>3. IsFiniteSet(DOMAIN s)
  <2>1. Len(s) \in Nat /\ DOMAIN s = 1..Len(s)
    OBVIOUS
  <2> QED
    BY <2>1, FS_Interval
<1>4. IsFiniteSet(P)
  BY <1>3, FS_Subset
<1>5. Cardinality(P) \in Nat
  BY <1>4, FS_CardinalityType
<1>6. Cardinality({}) = 0
  BY FS_EmptySet
<1> HIDE DEF P
<1>7. Once(A, s) => Cardinality(P) <= 1
  <2>1. P = {} => Cardinality(P) <= 1
    BY <1>6
  <2>2. ASSUME NEW i, P = {i} PROVE Cardinality(P) <= 1
    <3>1. Cardinality({i}) = 1
      BY FS_Singleton
    <3> QED
      BY <2>2, <3>1
  <2> QED
    BY <1>2, <2>1, <2>2
<1>8. Absent(A, s) => Cardinality(P) = 0
  BY <1>1, <1>6
<1> QED
  BY <1>5, <1>7, <1>8 DEF P

LEMMA PingsCounted == ASSUME Typed, Pings PROVE OnePing
<1> DEFINE a == Cardinality({i \in DOMAIN up : up[i] \in PingReqs})
           b == Cardinality({i \in DOMAIN down : down[i] \in PingResps})
<1>1. up \in Seq(ToBroker) /\ down \in Seq(ToClient)
  BY DEF Typed
<1>2. /\ {i \in DOMAIN up : up[i].kind = "PINGREQ"} = {i \in DOMAIN up : up[i] \in PingReqs}
      /\ {i \in DOMAIN down : down[i].kind = "PINGRESP"} = {i \in DOMAIN down : down[i] \in PingResps}
  BY <1>1 DEF PingReqs, PingResps
<1>3. PingsInFlight = a + b
  BY <1>2 DEF PingsInFlight
<1>4. /\ a \in Nat /\ (Absent(PingReqs, up) => a = 0) /\ (Once(PingReqs, up) => a <= 1)
      /\ b \in Nat /\ (Absent(PingResps, down) => b = 0) /\ (Once(PingResps, down) => b <= 1)
  BY <1>1, CountOnce
<1> HIDE DEF a, b
<1>5. CASE ping_outstanding
  BY <1>3, <1>4, <1>5 DEF OnePing, Pings, PingState, AtMostOne
<1>6. CASE ~ping_outstanding
  BY <1>3, <1>4, <1>6 DEF OnePing, Pings, PingState, AtMostOne
<1> QED
  BY <1>5, <1>6

\* For every number of topics, handlers, packet ids and incoming messages, and with any number
\* of timeouts and lost connections: next_packetid and the handler table stay in range, no packet
\* has an id that does not exist, and keepalive has at most one ping on its way.
THEOREM ClientSafety == Spec => []ClientSound
<1>1. Typed /\ Pings => ClientSound
  BY TypedOK, PingsCounted DEF ClientSound
<1> QED
  BY <1>1, TypedInit, TypedNext, PTL DEF Spec

-----------------------------------------------------------------------------
(***************************************************************************)
(* What a caller is told.                                                  *)
(***************************************************************************)

LEMMA Fewer == ASSUME NEW A, NEW B, NEW s, A \subseteq B, Absent(B, s) PROVE Absent(A, s)
BY DEF Absent

LEMMA AppendedBehind ==
  ASSUME NEW S, NEW s \in Seq(S), NEW e \in S, NEW A, NEW B
  PROVE  /\ e \notin B /\ Behind(A, B, s) => Behind(A, B, Append(s, e))
         /\ e \notin A /\ Absent(A, s) => Behind(A, B, Append(s, e))
BY DEF Behind, Absent

LEMMA TakenBehind ==
  ASSUME NEW S, NEW s \in Seq(S), s # <<>>, NEW A, NEW B, Behind(A, B, s)
  PROVE  /\ Behind(A, B, Tail(s))
         /\ Head(s) \in A => Absent(B, Tail(s))
<1>1. Len(s) \in Nat \ {0} /\ DOMAIN s = 1..Len(s) /\ Head(s) = s[1] /\ 1 \in DOMAIN s
  OBVIOUS
<1>2. \A i \in DOMAIN Tail(s) : Tail(s)[i] = s[i + 1] /\ i + 1 \in DOMAIN s /\ i \in Nat \ {0}
  OBVIOUS
<1>3. Behind(A, B, Tail(s))
  <2> SUFFICES ASSUME NEW i \in DOMAIN Tail(s), NEW j \in DOMAIN Tail(s), Tail(s)[i] \in A, Tail(s)[j] \in B
               PROVE  j < i
    BY DEF Behind
  <2>1. j + 1 < i + 1
    BY <1>2 DEF Behind
  <2> QED
    BY <1>2, <2>1
<1>4. ASSUME Head(s) \in A, NEW j \in DOMAIN Tail(s), Tail(s)[j] \in B PROVE FALSE
  <2>1. j + 1 < 1
    BY <1>1, <1>2, <1>4 DEF Behind
  <2> QED
    BY <1>2, <2>1
<1> QED
  BY <1>3, <1>4 DEF Absent

\* Between two requests, and in MQTTYield, no packet of a request is on its way.
LEMMA Quiet ==
  ASSUME NEW u, NEW d, NEW r, NEW S, Exchange(u, d, r, S), r.kind \in {"NONE", "YIELD"}
  PROVE  Absent(Asking, u) /\ Absent(Telling, d)
<1>1. Asking \subseteq StrayAsks(r)
  BY DEF StrayAsks, Asking, AskedBy
<1>2. Telling \subseteq StrayTells(r, S)
  BY DEF StrayTells, Telling, ToldTo, Answers
<1> QED
  BY <1>1, <1>2, Fewer DEF Exchange

\* When none is, any request may be the one in progress.
LEMMA Silent ==
  ASSUME NEW u, NEW d, Absent(Asking, u), Absent(Telling, d), NEW r, NEW S
  PROVE  Exchange(u, d, r, S)
<1>1. StrayAsks(r) \subseteq Asking /\ StrayTells(r, S) \subseteq Telling
  BY DEF StrayAsks, StrayTells
<1> QED
  BY <1>1, Fewer, AbsentOnce DEF Exchange, AtMostOne

LEMMA OnlyTelling == Welcomes \subseteq Telling /\ Openings \subseteq Asking
BY DEF Welcomes, Telling, Openings, Asking

\* A packet that is neither of a request nor a DISCONNECT changes none of this.
LEMMA SentAside ==
  ASSUME NEW u \in Seq(ToBroker), NEW e \in ToBroker, e \notin Asking, e \notin Leavings,
         NEW d, NEW r, NEW S, NEW c, NEW s, Exchange(u, d, r, S), Linked(u, d, c, s, r)
  PROVE  /\ Exchange(Append(u, e), d, r, S) /\ Linked(Append(u, e), d, c, s, r)
<1>1. e \notin StrayAsks(r)
  BY DEF StrayAsks
<1>2. /\ Absent(StrayAsks(r), u) => Absent(StrayAsks(r), Append(u, e))
      /\ Absent(Leavings, u) => Absent(Leavings, Append(u, e))
      /\ Absent(Asking, u) => Absent(Asking, Append(u, e))
      /\ Once(Asking, u) => Once(Asking, Append(u, e))
  BY <1>1, Appended
<1>3. Behind(Openings, Leavings, u) => Behind(Openings, Leavings, Append(u, e))
  BY AppendedBehind
<1>4. Exchange(Append(u, e), d, r, S)
  BY <1>2 DEF Exchange, AtMostOne
<1>5. Linked(Append(u, e), d, c, s, r)
  BY <1>2, <1>3 DEF Linked
<1> QED
  BY <1>4, <1>5

LEMMA PingSentAside ==
  ASSUME NEW q \in Seq(ToBroker), NEW due \in BOOLEAN, NEW o \in BOOLEAN, keepalive(q, due, o),
         NEW d, NEW r, NEW S, NEW c, NEW s, Exchange(q, d, r, S), Linked(q, d, c, s, r)
  PROVE  Exchange(up', d, r, S) /\ Linked(up', d, c, s, r)
<1>1. CASE up' = q
  BY <1>1
<1>2. ASSUME NEW e \in ToBroker, e.kind = "PINGREQ", up' = Append(q, e)
      PROVE  Exchange(up', d, r, S) /\ Linked(up', d, c, s, r)
  BY <1>2, SentAside DEF Asking, Leavings
<1> QED
  BY <1>1, <1>2, PingSent

\* The first packet on its way to the client is gone.
LEMMA TakenTruthful ==
  ASSUME NEW u, NEW d \in Seq(ToClient), d # <<>>,
         NEW r, NEW S, NEW c, NEW s, Exchange(u, d, r, S), Linked(u, d, c, s, r)
  PROVE  Exchange(u, Tail(d), r, S) /\ Linked(u, Tail(d), c, s, r)
<1>1. /\ Absent(Telling, d) => Absent(Telling, Tail(d))
      /\ Once(Telling, d) => Once(Telling, Tail(d))
      /\ Absent(StrayTells(r, S), d) => Absent(StrayTells(r, S), Tail(d))
      /\ Absent(Welcomes, d) => Absent(Welcomes, Tail(d))
  BY Taken
<1>2. Exchange(u, Tail(d), r, S)
  BY <1>1 DEF Exchange, AtMostOne
<1>3. Linked(u, Tail(d), c, s, r)
  BY <1>1 DEF Linked
<1> QED
  BY <1>2, <1>3

\* A request leaves the client only while no packet of another is on its way.
LEMMA SendTruthful ==
  ASSUME Typed, Truthful, request = None, NEW r \in Sendable, NEW due \in BOOLEAN, SendAndWait(r, due),
         UNCHANGED <<down, session, answered>>, isconnected' \in BOOLEAN,
         isconnected' => isconnected /\ r.kind \notin {"CONNECT", "DISCONNECT"}
  PROVE  Truthful'
<1>1. up \in Seq(ToBroker) /\ down \in Seq(ToClient) /\ r \in ToBroker
  BY DEF Typed, Sendable
<1>2. Absent(Asking, up) /\ Absent(Telling, down) /\ Absent(Openings, up) /\ Absent(Welcomes, down)
  BY Quiet, OnlyTelling, Fewer DEF Truthful, None
<1>3. Told'
  <2>1. CASE Return(r, 0) /\ Expected(r) = "NOTHING"
    <3>1. ~(r.kind \in {"CONNECT", "SUBSCRIBE", "UNSUBSCRIBE"} \/ (r.kind = "PUBLISH" /\ r.qos > 0))
      BY <1>1, <2>1 DEF Expected, ToBroker
    <3> QED
      BY <2>1, <3>1 DEF Told, AckMatched, RefusalMissed, Return
  <2>2. CASE result' = result
    BY <2>2 DEF Told, AckMatched, RefusalMissed, Truthful
  <2>3. CASE Return(r, FAILURE)
    BY <2>3 DEF Told, AckMatched, RefusalMissed, Return, FAILURE
  <2> QED
    BY <2>1, <2>2, <2>3 DEF SendAndWait
<1>4. CASE up' = up /\ request' = None
  <2>1. Exchange(up', down', request', answered')
    BY <1>2, <1>4, Silent
  <2>2. Linked(up', down', isconnected', session', request')
    BY <1>2, <1>4 DEF Truthful, Linked, None
  <2> QED
    BY <1>3, <2>1, <2>2 DEF Truthful
<1>5. CASE up' = Append(up, r) /\ ((Expected(r) = "NOTHING" /\ request' = None)
                                   \/ (Expected(r) # "NOTHING" /\ request' = r))
  <2>1. Exchange(up', down', request', answered')
    <3>1. CASE Expected(r) = "NOTHING"
      <4>1. r \notin Asking
        BY <1>1, <3>1 DEF Expected, Asking, Sendable, ToBroker
      <4>2. Absent(Asking, up')
        BY <1>1, <1>2, <1>5, <4>1, Appended
      <4> QED
        BY <1>2, <4>2, Silent
    <3>2. CASE request' = r
      <4>1. r \notin StrayAsks(r)
        BY DEF StrayAsks, AskedBy, Sendable
      <4>2. Exchange(up, down', r, answered')
        BY <1>2, Silent
      <4>3. Absent(StrayAsks(r), up') /\ Once(Asking, up')
        BY <1>1, <1>2, <1>5, <4>1, <4>2, Appended DEF Exchange
      <4> QED
        BY <1>2, <3>2, <4>2, <4>3 DEF Exchange, AtMostOne
    <3> QED
      BY <1>5, <3>1, <3>2
  <2>2. Behind(Openings, Leavings, up')
    <3>1. r \notin Leavings \/ r \notin Openings
      BY DEF Leavings, Openings
    <3> QED
      BY <1>1, <1>2, <1>5, <3>1, AppendedBehind DEF Truthful, Linked
  <2>3. isconnected' => session' /\ Absent(Leavings, up') /\ request'.kind # "CONNECT"
    <3> SUFFICES ASSUME isconnected' PROVE session' /\ Absent(Leavings, up') /\ request'.kind # "CONNECT"
      OBVIOUS
    <3>1. isconnected /\ r \notin Leavings /\ r.kind # "CONNECT"
      BY DEF Leavings
    <3>2. session' /\ Absent(Leavings, up)
      BY <3>1 DEF Truthful, Linked
    <3>3. Absent(Leavings, up')
      BY <1>1, <1>5, <3>1, <3>2, Appended
    <3>4. request'.kind # "CONNECT"
      BY <1>5, <3>1 DEF None
    <3> QED
      BY <3>2, <3>3, <3>4
  <2>4. Linked(up', down', isconnected', session', request')
    BY <1>2, <2>2, <2>3 DEF Linked
  <2> QED
    BY <1>3, <2>1, <2>4 DEF Truthful
<1> QED
  BY <1>4, <1>5 DEF SendAndWait, Sent, Return

LEMMA ConnectTruthful == ASSUME Typed, Truthful, MQTTConnect PROVE Truthful'
<1> DEFINE r == [kind |-> "CONNECT", id |-> 0]
<1>1. r \in Sendable
  BY Requests, NextIdTyped
<1>2. CASE isconnected /\ Return(r, FAILURE) /\ UNCHANGED <<up, keepAliveInterval, pingDue>>
  <2>1. UNCHANGED <<up, down, request, answered, isconnected, session>>
    BY <1>2 DEF MQTTConnect, Start, Idle, Return
  <2>2. Told'
    BY <1>2 DEF Return, Told, AckMatched, RefusalMissed, FAILURE
  <2> QED
    BY <2>1, <2>2 DEF Truthful
<1>3. CASE ~isconnected /\ SendAndWait(r, FALSE)
  BY <1>1, <1>3, SendTruthful DEF MQTTConnect, Start, Idle, Typed
<1> QED
  BY <1>2, <1>3 DEF MQTTConnect

LEMMA NumberedTruthful ==
  ASSUME Typed, Truthful, NEW r, [r EXCEPT !.id = getNextPacketId] \in Sendable,
         [r EXCEPT !.id = getNextPacketId].kind \notin {"CONNECT", "DISCONNECT"}, NumberedRequest(r)
  PROVE  Truthful'
BY SendTruthful DEF NumberedRequest, Start, Idle, Typed

LEMMA SubscribeTruthful ==
  ASSUME Typed, Truthful, NEW t \in Topic, MQTTSubscribe(t) \/ MQTTUnsubscribe(t) PROVE Truthful'
<1> DEFINE r(k) == [kind |-> k, id |-> 0, topic |-> t]
<1>1. /\ [r("SUBSCRIBE") EXCEPT !.id = getNextPacketId]
          = [kind |-> "SUBSCRIBE", id |-> getNextPacketId, topic |-> t]
      /\ [r("UNSUBSCRIBE") EXCEPT !.id = getNextPacketId]
          = [kind |-> "UNSUBSCRIBE", id |-> getNextPacketId, topic |-> t]
  OBVIOUS
<1>2. /\ [r("SUBSCRIBE") EXCEPT !.id = getNextPacketId] \in Sendable
      /\ [r("UNSUBSCRIBE") EXCEPT !.id = getNextPacketId] \in Sendable
  BY <1>1, TopicRequests, NextIdTyped
<1>3. /\ [r("SUBSCRIBE") EXCEPT !.id = getNextPacketId].kind \notin {"CONNECT", "DISCONNECT"}
      /\ [r("UNSUBSCRIBE") EXCEPT !.id = getNextPacketId].kind \notin {"CONNECT", "DISCONNECT"}
  BY <1>1
<1> QED
  BY <1>2, <1>3, NumberedTruthful DEF MQTTSubscribe, MQTTUnsubscribe

LEMMA PublishTruthful == ASSUME Typed, Truthful, NEW q \in QoSs, MQTTPublish(q) PROVE Truthful'
<1> DEFINE r == [kind |-> "PUBLISH", id |-> 0, qos |-> q]
<1>1. CASE q > 0 /\ NumberedRequest(r)
  <2>1. [r EXCEPT !.id = getNextPacketId] = [kind |-> "PUBLISH", id |-> getNextPacketId, qos |-> q]
    OBVIOUS
  <2>2. q \in 1..2
    BY <1>1, QoSAssumption
  <2>3. [r EXCEPT !.id = getNextPacketId] \in Sendable
    BY <2>1, <2>2, Requests, NextIdTyped
  <2>4. [r EXCEPT !.id = getNextPacketId].kind \notin {"CONNECT", "DISCONNECT"}
    BY <2>1
  <2> QED
    BY <1>1, <2>3, <2>4, NumberedTruthful
<1>2. CASE ~(q > 0 /\ NumberedRequest(r))
  <2> DEFINE z == [kind |-> "PUBLISH", id |-> 0, qos |-> 0]
  <2>1. z \in Sendable /\ z.kind = "PUBLISH"
    BY Requests, NextIdTyped
  <2>2. /\ request = None /\ SendAndWait(z, pingDue) /\ pingDue \in BOOLEAN
        /\ UNCHANGED <<isconnected, down, session, answered>> /\ isconnected \in BOOLEAN
    BY <1>2 DEF MQTTPublish, Start, Idle, Typed
  <2> QED
    BY <2>1, <2>2, SendTruthful
<1> QED
  BY <1>1, <1>2

LEMMA DisconnectTruthful == ASSUME Typed, Truthful, MQTTDisconnect PROVE Truthful'
<1>1. [kind |-> "DISCONNECT", id |-> 0] \in Sendable
  BY Requests, NextIdTyped
<1> QED
  BY <1>1, SendTruthful DEF MQTTDisconnect, Start, Idle, Typed

LEMMA YieldTruthful == ASSUME Typed, Truthful, MQTTYield PROVE Truthful'
<1>1. /\ request = None /\ request'.kind = "YIELD"
      /\ UNCHANGED <<up, down, answered, isconnected, session, result>>
  BY DEF MQTTYield, Start, Idle, clientVars
<1>2. Absent(Asking, up') /\ Absent(Telling, down')
  BY <1>1, Quiet DEF Truthful, None
<1>3. Exchange(up', down', request', answered')
  BY <1>2, Silent
<1>4. Linked(up', down', isconnected', session', request') /\ Told'
  BY <1>1 DEF Truthful, Linked, Told, AckMatched, RefusalMissed
<1> QED
  BY <1>3, <1>4 DEF Truthful

\* The packet that a request waits for belongs to it, and is the last one on its way.
LEMMA Awaited ==
  ASSUME NEW u, NEW d \in Seq(ToClient), d # <<>>, NEW S, Requested(request),
         Exchange(u, d, request, S), Head(d).kind = Expected(request)
  PROVE  /\ Head(d) \in ToClient /\ Answer(Head(d)) = <<>> /\ ToldTo(Head(d), request, S)
         /\ Absent(Asking, u) /\ Absent(Telling, Tail(d))
<1> DEFINE p == Head(d)
<1>1. p \in ToClient
  BY Taken
<1>2. p \in Telling /\ p.kind \in {"CONNACK", "SUBACK", "UNSUBACK", "PUBACK", "PUBCOMP"}
  BY <1>1 DEF Expected, Telling, ToClient
<1>3. ToldTo(p, request, S)
  BY <1>1, <1>2, Taken DEF Exchange, StrayTells
<1>4. Absent(Asking, u) /\ Absent(Telling, Tail(d))
  BY <1>2, Taken DEF Exchange, AtMostOne
<1>5. Answer(p) = <<>>
  BY <1>2 DEF Answer
<1> QED
  BY <1>1, <1>3, <1>4, <1>5

\* A success that is reported is one.
LEMMA CompleteTrue ==
  ASSUME NEW p \in ToClient, Typed, p.kind = Expected(request), ToldTo(p, request, answered),
         Complete(request, p), answered' = answered
  PROVE  Told' /\ request' = None /\ (isconnected' => isconnected \/ p \in Welcomes)
<1> DEFINE done == [kind |-> request.kind, id |-> request.id] \in answered
<1>1. CASE request.kind = "CONNECT"
  <2>1. p.kind = "CONNACK" /\ (p.rc = 0 => done)
    BY <1>1 DEF Expected, ToldTo, Positive
  <2>2. isconnected' = (p.rc = 0) /\ result' = [request |-> request, rc |-> p.rc] /\ request' = None
    BY <1>1 DEF Complete, Return
  <2> QED
    BY <2>1, <2>2 DEF Told, AckMatched, RefusalMissed, Welcomes
<1>2. CASE request.kind = "SUBSCRIBE"
  <2>1. p.kind = "SUBACK" /\ (p.rc # 128 => done)
    BY <1>2 DEF Expected, ToldTo, Positive
  <2>2. CASE p.rc # 128
    <3>1. request' = None /\ isconnected' = isconnected /\ result'.request = request
      BY <1>2, HandlerAssumption DEF Complete, Return, Typed
    <3> QED
      BY <2>1, <2>2, <3>1 DEF Told, AckMatched, RefusalMissed
  <2>3. CASE p.rc = 128 /\ CharSigned
    <3>1. request' = None /\ isconnected' = isconnected /\ result'.request = request
      BY <1>2, HandlerAssumption DEF Complete, Return, Typed
    <3>2. [kind |-> "REFUSED", id |-> request.id] \in answered
      BY <2>1, <2>3 DEF ToldTo, Positive
    <3> QED
      BY <1>2, <2>3, <3>1, <3>2 DEF Told, RefusalMissed
  <2>4. CASE p.rc = 128 /\ ~CharSigned
    <3>1. readChar(p.rc) = 128
      BY <2>4 DEF readChar
    <3>2. request' = None /\ isconnected' = isconnected /\ result'.rc = 128
      BY <1>2, <3>1 DEF Complete, Return
    <3> QED
      BY <3>2 DEF Told, AckMatched
  <2> QED
    BY <2>2, <2>3, <2>4, BoundsAssumption
<1>3. CASE request.kind # "CONNECT" /\ request.kind # "SUBSCRIBE"
  <2>1. done
    BY <1>3 DEF Expected, ToldTo, Positive, ToClient
  <2>2. request' = None /\ isconnected' = isconnected /\ result'.request = request
    BY <1>3 DEF Complete, Return
  <2> QED
    BY <2>1, <2>2 DEF Told, AckMatched, RefusalMissed
<1> QED
  BY <1>1, <1>2, <1>3

\* A cycle answers a PUBREC with the PUBREL of the same exchange.
LEMMA AnswerTruthful ==
  ASSUME NEW u \in Seq(ToBroker), NEW d \in Seq(ToClient), d # <<>>, NEW r, NEW S, NEW c, NEW s,
         Exchange(u, d, r, S), Linked(u, d, c, s, r)
  PROVE  /\ Exchange(u \o Answer(Head(d)), Tail(d), r, S)
         /\ Linked(u \o Answer(Head(d)), Tail(d), c, s, r)
<1> DEFINE p == Head(d)
           q == u \o Answer(p)
<1>1. p \in ToClient /\ Exchange(u, Tail(d), r, S) /\ Linked(u, Tail(d), c, s, r)
  BY Taken, TakenTruthful
<1>2. CASE q = u
  BY <1>1, <1>2
<1>3. ASSUME NEW e \in ToBroker, e.kind \in {"PUBACK", "PUBREC", "PUBREL"}, q = Append(u, e), e.id = p.id,
             e.kind = "PUBREL" <=> p.kind = "PUBREC"
      PROVE  Exchange(q, Tail(d), r, S) /\ Linked(q, Tail(d), c, s, r)
  <2>1. CASE e.kind # "PUBREL"
    <3>1. e \notin Asking /\ e \notin Leavings
      BY <1>3, <2>1 DEF Asking, Leavings
    <3> QED
      BY <1>1, <1>3, <3>1, SentAside
  <2>2. CASE e.kind = "PUBREL"
    <3>1. p \in Telling /\ p.kind = "PUBREC"
      BY <1>1, <1>3, <2>2 DEF Telling
    <3>2. ToldTo(p, r, S) /\ Absent(Asking, u) /\ Absent(Telling, Tail(d))
      <4>1. p \notin StrayTells(r, S)
        BY Taken DEF Exchange
      <4>2. ~Absent(Telling, d) /\ Absent(Telling, Tail(d))
        BY <3>1, Taken DEF Exchange, AtMostOne
      <4> QED
        BY <3>1, <4>1, <4>2 DEF Exchange, AtMostOne, StrayTells
    <3>3. e \notin StrayAsks(r) /\ e \notin Leavings
      BY <1>3, <2>2, <3>1, <3>2 DEF StrayAsks, AskedBy, ToldTo, Answers, Leavings
    <3>4. Once(Asking, q) /\ Absent(StrayAsks(r), q) /\ (Absent(Leavings, u) => Absent(Leavings, q))
      <4>1. Absent(StrayAsks(r), u)
        BY DEF Exchange
      <4> QED
        BY <1>3, <3>2, <3>3, <4>1, Appended
    <3>5. Behind(Openings, Leavings, q)
      BY <1>3, <3>3, AppendedBehind DEF Linked
    <3> HIDE DEF q
    <3>6. Exchange(q, Tail(d), r, S)
      BY <1>1, <3>2, <3>4, AbsentOnce DEF Exchange, AtMostOne
    <3>7. Linked(q, Tail(d), c, s, r)
      BY <1>1, <3>4, <3>5 DEF Linked
    <3> QED
      BY <3>6, <3>7
  <2> QED
    BY <2>1, <2>2
<1> QED
  BY <1>1, <1>2, <1>3, Replied

LEMMA CycleTruthful == ASSUME Typed, Truthful, Cycle PROVE Truthful'
<1> DEFINE p == Head(down)
           q == up \o Answer(p)
           due == pingDue /\ Answer(p) = <<>>
           o == ping_outstanding /\ p.kind # "PINGRESP"
<1>1. /\ down \in Seq(ToClient) /\ up \in Seq(ToBroker) /\ down # <<>>
      /\ p \in ToClient /\ down' = Tail(down) /\ Requested(request)
      /\ session' = session /\ answered' = answered
  BY Taken DEF Typed, Cycle
<1>2. /\ Exchange(up, down, request, answered) /\ Told
      /\ Linked(up, down, isconnected, session, request)
  BY DEF Truthful
<1>3. q \in Seq(ToBroker)
  <2>1. \A e \in ToBroker : Append(up, e) \in Seq(ToBroker)
    BY <1>1
  <2>2. q = up \/ \E e \in ToBroker : q = Append(up, e)
    BY <1>1, Replied
  <2> HIDE DEF q
  <2> QED
    BY <1>1, <2>1, <2>2
<1>4. due \in BOOLEAN /\ o \in BOOLEAN
  OBVIOUS
<1>5. keepalive(q, due, o)
  BY DEF Cycle
<1>6. /\ Exchange(q, down', request', answered') /\ Told'
      /\ Linked(q, down', isconnected', session', request')
  <2>1. CASE p.kind = Expected(request) /\ Complete(request, p)
    <3>1. /\ Answer(p) = <<>> /\ ToldTo(p, request, answered)
          /\ Absent(Asking, up) /\ Absent(Telling, Tail(down))
      BY <1>1, <1>2, <2>1, Awaited
    <3>2. Told' /\ request' = None /\ (isconnected' => isconnected \/ p \in Welcomes)
      BY <1>1, <2>1, <3>1, CompleteTrue
    <3>3. q = up
      BY <1>1, <3>1
    <3> HIDE DEF q
    <3>4. Exchange(q, down', request', answered')
      BY <1>1, <3>1, <3>3, Silent
    <3>5. Absent(Welcomes, down') /\ (p \in Welcomes => ~Absent(Welcomes, down))
      BY <1>1, <3>1, OnlyTelling, Fewer, Taken
    <3>6. Linked(q, down', isconnected', session', request')
      BY <1>1, <1>2, <3>2, <3>3, <3>5 DEF Linked, None
    <3> QED
      BY <3>2, <3>4, <3>6
  <2>2. CASE UNCHANGED <<request, result, handlers, isconnected>>
    <3>1. Exchange(q, Tail(down), request, answered) /\ Linked(q, Tail(down), isconnected, session, request)
      BY <1>1, <1>2, AnswerTruthful
    <3>2. Told'
      BY <1>1, <1>2, <2>2 DEF Told, AckMatched, RefusalMissed
    <3> QED
      BY <1>1, <2>2, <3>1, <3>2
  <2> QED
    BY <2>1, <2>2 DEF Cycle
<1> HIDE DEF q, due, o
<1>7. Exchange(up', down', request', answered') /\ Linked(up', down', isconnected', session', request')
  BY <1>3, <1>4, <1>5, <1>6, PingSentAside
<1> QED
  BY <1>6, <1>7 DEF Truthful

LEMMA CycleFailsTruthful == ASSUME Typed, Truthful, CycleFails PROVE Truthful'
<1>1. /\ down \in Seq(ToClient) /\ down # <<>> /\ down' = Tail(down)
      /\ UNCHANGED <<up, answered, session, isconnected>>
  BY DEF Typed, CycleFails, clientVars
<1>2. Exchange(up, down', request, answered) /\ Linked(up, down', isconnected, session, request)
  BY <1>1, TakenTruthful DEF Truthful
<1>3. CASE request.kind = "YIELD" /\ Return(request, FAILURE)
  <2>1. Told' /\ request' = None
    BY <1>3 DEF Told, AckMatched, RefusalMissed, Return, FAILURE
  <2>2. Absent(Asking, up) /\ Absent(Telling, down')
    BY <1>2, <1>3, Quiet
  <2>3. Exchange(up', down', request', answered')
    BY <1>1, <2>2, Silent
  <2>4. Linked(up', down', isconnected', session', request')
    BY <1>1, <1>2, <2>1 DEF Linked, None
  <2> QED
    BY <2>1, <2>3, <2>4 DEF Truthful
<1>4. CASE UNCHANGED <<request, result>>
  BY <1>1, <1>2, <1>4 DEF Truthful, Told, AckMatched, RefusalMissed
<1> QED
  BY <1>3, <1>4 DEF CycleFails

LEMMA ExpireTruthful == ASSUME Typed, Truthful, Expire, timeouts' = timeouts PROVE Truthful'
<1>1. /\ up \in Seq(ToBroker) /\ pingDue \in BOOLEAN /\ ping_outstanding \in BOOLEAN
      /\ keepalive(up, pingDue, ping_outstanding)
      /\ UNCHANGED <<down, answered, session, isconnected>>
  BY DEF Typed, Expire
<1>2. request.kind = "YIELD" /\ Return(request, 0)
  <2>1. timeouts \in Nat
    BY DEF Typed
  <2> QED
    BY <2>1 DEF Expire
<1>3. Told' /\ request' = None
  BY <1>2 DEF Told, AckMatched, RefusalMissed, Return
<1>4. Absent(Asking, up) /\ Absent(Telling, down)
  BY <1>2, Quiet DEF Truthful
<1>5. Exchange(up, down', request', answered')
  BY <1>1, <1>4, Silent
<1>6. Linked(up, down', isconnected', session', request')
  BY <1>1, <1>3 DEF Truthful, Linked, None
<1>7. Exchange(up', down', request', answered') /\ Linked(up', down', isconnected', session', request')
  BY <1>1, <1>5, <1>6, PingSentAside
<1> QED
  BY <1>3, <1>7 DEF Truthful

LEMMA IdleTruthful ==
  ASSUME Truthful, UNCHANGED <<up, down, request, answered, isconnected, session, result>>
  PROVE  Truthful'
BY DEF Truthful, Told, AckMatched, RefusalMissed

\* The broker's answer to a packet of a request carries its id and its kind.
LEMMA ReplyAnswers ==
  ASSUME NEW p \in ToBroker, NEW q \in BrokerReply(p)
  PROVE  /\ q \in ToClient /\ (q \in Telling <=> p \in Asking)
         /\ q.kind = "CONNACK" <=> p.kind = "CONNECT"
         /\ p.kind # "DISCONNECT"
         /\ p \in Asking => q.id = p.id /\ Answers(q) = IF p.kind = "PUBREL" THEN "PUBLISH" ELSE p.kind
<1>1. q \in ToClient
  BY ReplyTyped
<1>2. CASE p.kind = "CONNECT"
  <2>1. p.id = 0
    BY <1>2 DEF ToBroker
  <2> QED
    BY <1>1, <1>2, <2>1 DEF BrokerReply, Telling, Asking, Answers
<1>3. CASE p.kind = "SUBSCRIBE"
  BY <1>1, <1>3 DEF BrokerReply, Telling, Asking, Answers
<1>4. CASE p.kind = "UNSUBSCRIBE"
  BY <1>1, <1>4 DEF BrokerReply, Telling, Asking, Answers
<1>5. CASE p.kind = "PUBLISH" /\ p.qos = 1
  BY <1>1, <1>5 DEF BrokerReply, Telling, Asking, Answers
<1>6. CASE p.kind = "PUBLISH" /\ p.qos = 2
  BY <1>1, <1>6 DEF BrokerReply, Telling, Asking, Answers
<1>7. CASE p.kind = "PUBREL"
  BY <1>1, <1>7 DEF BrokerReply, Telling, Asking, Answers
<1>8. CASE p.kind = "PUBREC"
  BY <1>1, <1>8 DEF BrokerReply, Telling, Asking
<1>9. CASE p.kind = "PINGREQ"
  BY <1>1, <1>9 DEF BrokerReply, Telling, Asking
<1>10. CASE /\ p.kind \notin {"CONNECT", "SUBSCRIBE", "UNSUBSCRIBE", "PUBREL", "PUBREC", "PINGREQ"}
            /\ ~(p.kind = "PUBLISH" /\ p.qos = 1) /\ ~(p.kind = "PUBLISH" /\ p.qos = 2)
  BY <1>10 DEF BrokerReply
<1> QED
  BY <1>2, <1>3, <1>4, <1>5, <1>6, <1>7, <1>8, <1>9, <1>10

LEMMA BrokerTruthful == ASSUME Typed, Truthful, Broker PROVE Truthful'
<1> DEFINE p == Head(up)
<1>1. /\ up \in Seq(ToBroker) /\ up # <<>> /\ down \in Seq(ToClient)
      /\ p \in ToBroker /\ up' = Tail(up)
      /\ UNCHANGED <<request, result, isconnected>>
  BY Taken DEF Typed, Broker, clientVars
<1>2. /\ Exchange(up, down, request, answered) /\ Told
      /\ Linked(up, down, isconnected, session, request)
  BY DEF Truthful
<1>3. /\ Absent(Asking, up) => Absent(Asking, up') /\ p \notin Asking
      /\ Once(Asking, up) => Once(Asking, up')
      /\ Once(Asking, up) /\ p \in Asking => Absent(Asking, up')
      /\ Absent(StrayAsks(request), up')  /\ p \notin StrayAsks(request)
  BY <1>1, <1>2, Taken DEF Exchange
<1>4. /\ Absent(Leavings, up) => Absent(Leavings, up') /\ p \notin Leavings
      /\ Behind(Openings, Leavings, up')
      /\ p \in Openings => Absent(Leavings, up')
  BY <1>1, <1>2, Taken, TakenBehind DEF Linked
<1>5. p.kind = "CONNECT" => p \in Asking /\ p \in Openings /\ ~isconnected
  BY <1>1, <1>2, <1>3 DEF Asking, Openings, StrayAsks, AskedBy, Linked
<1>6. p.kind = "DISCONNECT" => p \in Leavings
  BY <1>1 DEF Leavings
<1>7. CASE UNCHANGED <<down, answered>> /\ session' = (session /\ p.kind # "DISCONNECT")
  <2>1. Exchange(up', down', request', answered')
    BY <1>1, <1>2, <1>3, <1>7 DEF Exchange, AtMostOne
  <2>2. Linked(up', down', isconnected', session', request')
    BY <1>1, <1>2, <1>4, <1>6, <1>7 DEF Linked
  <2> QED
    BY <1>1, <1>2, <1>7, <2>1, <2>2 DEF Truthful, Told, AckMatched, RefusalMissed
<1>8. ASSUME NEW q \in BrokerReply(p), down' = Append(down, q),
             session' = IF q.kind = "CONNACK" THEN q.rc = 0 ELSE session,
             answered' = answered \cup Outcome(q)
      PROVE  Truthful'
  <2>1. /\ q \in ToClient /\ (q \in Telling <=> p \in Asking)
        /\ q.kind = "CONNACK" <=> p.kind = "CONNECT"
        /\ p.kind # "DISCONNECT"
        /\ p \in Asking => q.id = p.id /\ Answers(q) = IF p.kind = "PUBREL" THEN "PUBLISH" ELSE p.kind
    BY <1>1, ReplyAnswers
  <2>2. answered \subseteq answered'
    BY <1>8
  <2>3. Told'
    BY <1>1, <1>2, <2>2 DEF Told, AckMatched, RefusalMissed
  <2>4. Absent(StrayTells(request, answered'), down) /\ q \notin StrayTells(request, answered')
    <3>1. StrayTells(request, answered') \subseteq StrayTells(request, answered)
      BY <2>2 DEF StrayTells, ToldTo
    <3>2. CASE q \in Telling
      <4>1. AskedBy(p, request)
        BY <1>3, <2>1, <3>2 DEF StrayAsks
      <4>2. ToldTo(q, request, answered')
        BY <1>8, <2>1, <3>2, <4>1 DEF AskedBy, ToldTo, Outcome
      <4> QED
        BY <1>2, <3>1, <4>2, Fewer DEF StrayTells, Exchange
    <3>3. CASE q \notin Telling
      BY <1>2, <3>1, <3>3, Fewer DEF StrayTells, Exchange
    <3> QED
      BY <3>2, <3>3
  <2>5. /\ Absent(StrayTells(request, answered'), down')
        /\ q \notin Telling /\ Absent(Telling, down) => Absent(Telling, down')
        /\ q \notin Telling /\ Once(Telling, down) => Once(Telling, down')
        /\ Absent(Telling, down) => Once(Telling, down')
        /\ q \notin Welcomes /\ Absent(Welcomes, down) => Absent(Welcomes, down')
    BY <1>1, <1>8, <2>1, <2>4, Appended
  <2>6. Exchange(up', down', request', answered')
    BY <1>1, <1>2, <1>3, <2>1, <2>5 DEF Exchange, AtMostOne
  <2>7. Linked(up', down', isconnected', session', request')
    <3>1. CASE q.kind = "CONNACK"
      <4>1. p \in Openings /\ p \in Asking /\ ~isconnected
        BY <1>5, <2>1, <3>1
      <4>2. Absent(Telling, down)
        BY <1>2, <1>3, <4>1 DEF Exchange, AtMostOne
      <4>3. Absent(Welcomes, down)
        BY <4>2, OnlyTelling, Fewer
      <4>4. q \in Welcomes => session'
        BY <1>8, <3>1 DEF Welcomes
      <4> QED
        BY <1>1, <1>4, <2>5, <4>1, <4>3, <4>4 DEF Linked
    <3>2. CASE q.kind # "CONNACK"
      <4>1. q \notin Welcomes /\ session' = session
        BY <1>8, <3>2 DEF Welcomes
      <4> QED
        BY <1>1, <1>2, <1>4, <2>5, <4>1 DEF Linked
    <3> QED
      BY <3>1, <3>2
  <2> QED
    BY <2>3, <2>6, <2>7 DEF Truthful
<1> QED
  BY <1>7, <1>8 DEF Broker

LEMMA BrokerPublishTruthful ==
  ASSUME Typed, Truthful, NEW q \in QoSs, BrokerPublish(q) PROVE Truthful'
<1> DEFINE p == [kind |-> "PUBLISH", id |-> incoming + 1, qos |-> q]
<1>1. /\ incoming + 1 \in 0..MaxIncoming /\ down' = Append(down, p) /\ down \in Seq(ToClient)
      /\ UNCHANGED <<up, request, answered, isconnected, session, result>>
  BY BoundsAssumption DEF BrokerPublish, Typed, clientVars
<1>2. p \in ToClient /\ p \notin Telling /\ p \notin Welcomes
  BY <1>1, IdsTyped, QoSAssumption DEF ToClient, Telling, Welcomes
<1>3. p \notin StrayTells(request, answered)
  BY <1>2 DEF StrayTells
<1>4. /\ Absent(Telling, down) => Absent(Telling, down')
      /\ Once(Telling, down) => Once(Telling, down')
      /\ Absent(StrayTells(request, answered), down) => Absent(StrayTells(request, answered), down')
      /\ Absent(Welcomes, down) => Absent(Welcomes, down')
  BY <1>1, <1>2, <1>3, Appended
<1>5. Exchange(up', down', request', answered')
  BY <1>1, <1>4 DEF Truthful, Exchange, AtMostOne
<1>6. Linked(up', down', isconnected', session', request')
  BY <1>1, <1>4 DEF Truthful, Linked
<1> QED
  BY <1>1, <1>5, <1>6 DEF Truthful, Told, AckMatched, RefusalMissed

LEMMA TruthfulInit == Init => Truthful
<1> SUFFICES ASSUME Init PROVE Truthful
  OBVIOUS
<1>1. Exchange(up, down, request, answered)
  BY Nothing, Silent DEF Init
<1>2. Linked(up, down, isconnected, session, request)
  BY Nothing DEF Init, Linked, Behind
<1>3. Told
  BY DEF Init, Told, AckMatched, RefusalMissed, FAILURE, None
<1> QED
  BY <1>1, <1>2, <1>3 DEF Truthful

\* A step after which nothing has timed out and no connection was lost.
LEMMA TruthfulNext ==
  Typed /\ (Undisturbed => Truthful) /\ [Next]_vars => (Undisturbed => Truthful)'
<1> SUFFICES ASSUME Typed, Undisturbed => Truthful, [Next]_vars, Undisturbed' PROVE Truthful'
  OBVIOUS
<1>1. timeouts \in Nat /\ drops \in Nat /\ timeouts' = 0 /\ drops' = 0
  BY DEF Typed, Undisturbed
<1>2. CASE UNCHANGED vars
  BY <1>1, <1>2, IdleTruthful DEF vars, clientVars, bounds, Undisturbed
<1>3. CASE MQTTConnect
  BY <1>1, <1>3, ConnectTruthful DEF MQTTConnect, Undisturbed
<1>4. ASSUME NEW t \in Topic, MQTTSubscribe(t) \/ MQTTUnsubscribe(t) PROVE Truthful'
  BY <1>1, <1>4, SubscribeTruthful DEF MQTTSubscribe, MQTTUnsubscribe, NumberedRequest, Undisturbed
<1>5. ASSUME NEW q \in QoSs, MQTTPublish(q) PROVE Truthful'
  BY <1>1, <1>5, PublishTruthful DEF MQTTPublish, NumberedRequest, Undisturbed
<1>6. CASE MQTTDisconnect
  BY <1>1, <1>6, DisconnectTruthful DEF MQTTDisconnect, Undisturbed
<1>7. CASE MQTTYield
  BY <1>1, <1>7, YieldTruthful DEF MQTTYield, Undisturbed
<1>8. CASE Cycle
  BY <1>1, <1>8, CycleTruthful DEF Cycle, bounds, Undisturbed
<1>9. CASE CycleFails
  BY <1>1, <1>9, CycleFailsTruthful DEF CycleFails, bounds, Undisturbed
<1>10. CASE Expire
  <2>1. timeouts = 0 /\ timeouts' = timeouts /\ drops = 0
    BY <1>1, <1>10 DEF Expire
  <2> QED
    BY <1>10, <2>1, ExpireTruthful DEF Undisturbed
<1>11. CASE PingTimer
  BY <1>1, <1>11, IdleTruthful DEF PingTimer, bounds, Undisturbed
<1>12. CASE NetDrop
  BY <1>1, <1>12 DEF NetDrop
<1>13. CASE NetConnect
  BY <1>1, <1>13, IdleTruthful DEF NetConnect, clientVars, bounds, Undisturbed
<1>14. CASE Broker
  BY <1>1, <1>14, BrokerTruthful DEF Broker, bounds, Undisturbed
<1>15. ASSUME NEW q \in QoSs, BrokerPublish(q) PROVE Truthful'
  BY <1>1, <1>15, BrokerPublishTruthful DEF BrokerPublish, Undisturbed
<1> QED
  BY <1>2, <1>3, <1>4, <1>5, <1>6, <1>7, <1>8, <1>9, <1>10, <1>11, <1>12, <1>13, <1>14, <1>15 DEF Next

\* Until a request times out or a connection is lost: a request that returns 0 was answered by
\* the broker under its own packet id, although waitfor compares types only, and MQTTConnect
\* refuses a client as already connected only if the broker has a session with it.  A refused
\* subscription is taken for granted only where char is signed.
THEOREM AnswersSafety == Spec => AnswersTrue
<1> DEFINE Inv == Typed /\ Pings /\ (Undisturbed => Truthful)
<1>1. Init => Inv
  BY TypedInit, TruthfulInit
<1>2. Inv /\ [Next]_vars => Inv'
  BY TypedNext, TruthfulNext
<1>3. Inv => AckMatchedUndisturbed
  BY DEF AckMatchedUndisturbed, Truthful, Told
<1>4. Inv => [Undisturbed /\ MQTTConnect /\ isconnected /\ net => session]_vars
  BY DEF Truthful, Linked
<1> QED
  BY <1>1, <1>2, <1>3, <1>4, PTL DEF Spec, AnswersTrue, AlreadyConnectedUndisturbed
=============================================================================
