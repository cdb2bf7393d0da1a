----------------------------- MODULE MqttClient -----------------------------
(***************************************************************************)
(* src/mqtt/MQTTClient-C: a client with one request at a time.  A request  *)
(* sends its packet and then, in waitfor, runs cycle on whatever arrives   *)
(* until a packet of the type it expects, or until its timer expires.      *)
(*                                                                         *)
(* The network is struct mqtt_network as the modem implements it: packets  *)
(* arrive in order, what the modem has already received stays readable     *)
(* after the connection is gone, and a write may fail.  The broker is      *)
(* external; it answers each packet it gets, whenever it likes.            *)
(***************************************************************************)
EXTENDS Integers, Sequences, FiniteSets

CONSTANTS Topic,
          QoSs,         \* qualities of service the application uses
          MaxHandlers,  \* MAX_MESSAGE_HANDLERS
          MaxPacketId,  \* MAX_PACKET_ID
          Refusal,      \* return codes a broker may put into a CONNACK, 0 included
          Grant,        \* return codes it may put into a SUBACK
          CharSigned,   \* char is signed in this build
          KeepAlive,    \* the connect options ask for a keep alive interval
          MaxRequests,  \* bound: requests in a behaviour
          MaxTimeouts,  \* bound: requests that time out
          MaxDrops,     \* bound: connections lost
          MaxIncoming   \* bound: messages from other clients

ASSUME HandlerAssumption == MaxHandlers \in Nat /\ MaxPacketId \in Nat \ {0}
ASSUME QoSAssumption == QoSs \subseteq 0..2
ASSUME BoundsAssumption == KeepAlive \in BOOLEAN /\ CharSigned \in BOOLEAN /\ Grant \subseteq 0..255 /\ MaxIncoming \in Nat

VARIABLES
  isconnected, next_packetid, ping_outstanding,
  keepAliveInterval,  \* whether it is set to something other than 0
  pingDue,          \* ping_timer has expired
  handlers,         \* topicFilter of the used messageHandlers, in slot order
  request,          \* the API call in progress
  result,           \* the last one that returned, and its return code
  net, up, down,    \* the connection and the packets on their way
  session,          \* broker: a CONNECT was accepted on this connection
  answered,         \* history: requests the broker has granted, and refused subscriptions
  requests, timeouts, drops, incoming

clientVars == <<isconnected, next_packetid, ping_outstanding, keepAliveInterval, pingDue,
                handlers>>
bounds == <<requests, timeouts, drops, incoming>>
vars == <<clientVars, request, result, net, up, down, session, answered, bounds>>

FAILURE == -1
None == [kind |-> "NONE", id |-> 0]
Idle == request = None
\* mutant: a publish with QoS 2 is over with the PUBREC
Expected_AtPubrec(r) ==
  CASE r.kind = "CONNECT" -> "CONNACK"
    [] r.kind = "SUBSCRIBE" -> "SUBACK"
    [] r.kind = "UNSUBSCRIBE" -> "UNSUBACK"
    [] r.kind = "PUBLISH" /\ r.qos = 1 -> "PUBACK"
    [] r.kind = "PUBLISH" /\ r.qos = 2 -> "PUBREC"
    [] OTHER -> "NOTHING"

\* What the answer to each kind of request is.
Expected(r) ==
  CASE r.kind = "CONNECT" -> "CONNACK"
    [] r.kind = "SUBSCRIBE" -> "SUBACK"
    [] r.kind = "UNSUBSCRIBE" -> "UNSUBACK"
    [] r.kind = "PUBLISH" /\ r.qos = 1 -> "PUBACK"
    [] r.kind = "PUBLISH" /\ r.qos = 2 -> "PUBCOMP"
    [] OTHER -> "NOTHING"

Init ==
  /\ isconnected = FALSE /\ next_packetid = 1 /\ ping_outstanding = FALSE
  /\ keepAliveInterval = FALSE /\ pingDue = FALSE /\ handlers = <<>>
  /\ request = None /\ result = [request |-> None, rc |-> FAILURE]
  /\ net = TRUE /\ up = <<>> /\ down = <<>> /\ session = FALSE /\ answered = {}
  /\ requests = 0 /\ timeouts = 0 /\ drops = 0 /\ incoming = 0

-----------------------------------------------------------------------------
(***************************************************************************)
(* Starting a request.                                                     *)
(***************************************************************************)

\* mutant: the wrap to 1 is forgotten
getNextPacketId_NoWrap == next_packetid + 1
getNextPacketId == IF next_packetid = MaxPacketId THEN 1 ELSE next_packetid + 1

Return(r, rc) ==
  /\ result' = [request |-> r, rc |-> rc]
  /\ request' = None

\* sendPacket, when the network takes the whole packet.
Sent(p) ==
  /\ net
  /\ up' = Append(up, p)
  /\ pingDue' = FALSE

Start == Idle /\ requests < MaxRequests /\ requests' = requests + 1

\* Send the packet and wait, unless there is nothing to wait for; a write
\* that fails ends the request.
SendAndWait(r, due) ==
  \/ /\ Sent(r)
     /\ IF Expected(r) = "NOTHING"
          THEN Return(r, 0)
          ELSE request' = r /\ result' = result
  \/ /\ Return(r, FAILURE)
     /\ pingDue' = due
     /\ up' = up

MQTTConnect ==
  /\ Start
  /\ LET r == [kind |-> "CONNECT", id |-> 0]
     IN  \/ /\ isconnected
            /\ Return(r, FAILURE)
            /\ UNCHANGED <<up, keepAliveInterval, pingDue>>
         \/ /\ ~isconnected
            /\ keepAliveInterval' = KeepAlive
            /\ SendAndWait(r, FALSE)
  /\ UNCHANGED <<isconnected, next_packetid, ping_outstanding, handlers, net, down, session,
                 answered, timeouts, drops, incoming>>

\* A request with a packet id; without isconnected it fails at once.
NumberedRequest(r) ==
  /\ Start
  /\ isconnected
  /\ next_packetid' = getNextPacketId
  /\ SendAndWait([r EXCEPT !.id = getNextPacketId], pingDue)
  /\ UNCHANGED <<isconnected, ping_outstanding, keepAliveInterval, handlers, net, down, session, answered,
                 timeouts, drops, incoming>>

MQTTSubscribe(t) == NumberedRequest([kind |-> "SUBSCRIBE", id |-> 0, topic |-> t])
MQTTUnsubscribe(t) == NumberedRequest([kind |-> "UNSUBSCRIBE", id |-> 0, topic |-> t])

MQTTPublish(qos) ==
  \/ /\ qos > 0
     /\ NumberedRequest([kind |-> "PUBLISH", id |-> 0, qos |-> qos])
  \/ /\ qos = 0 /\ Start /\ isconnected
     /\ SendAndWait([kind |-> "PUBLISH", id |-> 0, qos |-> 0], pingDue)
     /\ UNCHANGED <<isconnected, next_packetid, ping_outstanding, keepAliveInterval, handlers, net, down, session,
                    answered, timeouts, drops, incoming>>

\* mutant: isconnected is left set
MQTTDisconnect_StaysConnected ==
  /\ Start
  /\ SendAndWait([kind |-> "DISCONNECT", id |-> 0], pingDue)
  /\ isconnected' = isconnected
  /\ UNCHANGED <<next_packetid, ping_outstanding, keepAliveInterval, handlers, net, down, session, answered,
                 timeouts, drops, incoming>>

MQTTDisconnect ==
  /\ Start
  /\ SendAndWait([kind |-> "DISCONNECT", id |-> 0], pingDue)
  /\ isconnected' = FALSE
  /\ UNCHANGED <<next_packetid, ping_outstanding, keepAliveInterval, handlers, net, down, session, answered,
                 timeouts, drops, incoming>>

MQTTYield ==
  /\ Start
  /\ request' = [kind |-> "YIELD", id |-> 0]
  /\ UNCHANGED <<clientVars, result, net, up, down, session, answered, timeouts, drops,
                 incoming>>

-----------------------------------------------------------------------------
(***************************************************************************)
(* cycle: one packet, what it calls for, and keepalive.                    *)
(***************************************************************************)

\* mutant: a ping is sent although the last one is unanswered
keepalive_Again(queue, due, outstanding) ==
  \/ /\ keepAliveInterval /\ due /\ net
     /\ up' = Append(queue, [kind |-> "PINGREQ", id |-> 0])
     /\ pingDue' = FALSE /\ ping_outstanding' = TRUE
  \/ up' = queue /\ pingDue' = due /\ ping_outstanding' = outstanding

\* A ping that cannot be sent is tried again in the next cycle.
keepalive(queue, due, outstanding) ==
  \/ /\ keepAliveInterval /\ due /\ ~outstanding /\ net
     /\ up' = Append(queue, [kind |-> "PINGREQ", id |-> 0])
     /\ pingDue' = FALSE /\ ping_outstanding' = TRUE
  \/ up' = queue /\ pingDue' = due /\ ping_outstanding' = outstanding

\* The packet with which cycle answers p.
Answer(p) ==
  CASE p.kind = "PUBLISH" /\ p.qos = 1 -> <<[kind |-> "PUBACK", id |-> p.id]>>
    [] p.kind = "PUBLISH" /\ p.qos = 2 -> <<[kind |-> "PUBREC", id |-> p.id]>>
    [] p.kind = "PUBREC" -> <<[kind |-> "PUBREL", id |-> p.id]>>
    [] OTHER -> <<>>

\* MQTTDeserialize_suback stores a byte of the packet in an int through a char: where char is
\* signed 0x80 becomes -128, which MQTTSubscribe does not take for the refusal it is.
readChar(byte) == IF CharSigned /\ byte > 127 THEN byte - 256 ELSE byte

\* What a request does with the packet it was waiting for.
Complete(r, p) ==
  CASE r.kind = "CONNECT" ->
         /\ isconnected' = (p.rc = 0)
         /\ Return(r, p.rc)
         /\ UNCHANGED handlers
    [] r.kind = "SUBSCRIBE" /\ readChar(p.rc) # 128 /\ Len(handlers) < MaxHandlers ->
         /\ handlers' = Append(handlers, r.topic)
         /\ Return(r, 0)
         /\ UNCHANGED isconnected
    [] r.kind = "SUBSCRIBE" /\ (readChar(p.rc) = 128 \/ Len(handlers) >= MaxHandlers) ->
         /\ Return(r, readChar(p.rc))
         /\ UNCHANGED <<handlers, isconnected>>
    [] OTHER ->
         /\ Return(r, 0)
         /\ UNCHANGED <<handlers, isconnected>>

\* Any packet of the expected type completes the request: its id is not
\* compared.
Cycle ==
  /\ ~Idle /\ down # <<>>
  /\ LET p == Head(down)
     IN  /\ Answer(p) # <<>> => net
         /\ keepalive(up \o Answer(p), pingDue /\ Answer(p) = <<>>,
                      ping_outstanding /\ p.kind # "PINGRESP")
         /\ \/ p.kind = Expected(request) /\ Complete(request, p)
            \/ p.kind # Expected(request) /\ UNCHANGED <<request, result, handlers, isconnected>>
  /\ down' = Tail(down)
  /\ UNCHANGED <<next_packetid, keepAliveInterval, net, session, answered, bounds>>

\* The answer could not be sent: cycle fails before keepalive, which ends
\* MQTTYield; waitfor goes on.
CycleFails ==
  /\ ~Idle /\ down # <<>>
  /\ Answer(Head(down)) # <<>>
  /\ down' = Tail(down)
  /\ \/ request.kind = "YIELD" /\ Return(request, FAILURE)
     \/ request.kind # "YIELD" /\ UNCHANGED <<request, result>>
  /\ UNCHANGED <<clientVars, net, up, session, answered, bounds>>

\* The timer expires, in readPacket (whose FAILURE comes out of cycle as 65535,
\* so even MQTTYield takes it for a packet) or between two cycles; what is on
\* its way arrives later.
Expire ==
  /\ ~Idle
  /\ keepalive(up, pingDue, ping_outstanding)
  /\ \/ /\ request.kind = "YIELD"
        /\ Return(request, 0)
        /\ timeouts' = timeouts
     \/ /\ request.kind # "YIELD" /\ timeouts < MaxTimeouts
        /\ Return(request, FAILURE)
        /\ timeouts' = timeouts + 1
  /\ UNCHANGED <<isconnected, next_packetid, keepAliveInterval, handlers, net, down, session,
                 answered, requests, drops, incoming>>

\* ping_timer runs out.
PingTimer ==
  /\ keepAliveInterval /\ ~pingDue
  /\ pingDue' = TRUE
  /\ UNCHANGED <<isconnected, next_packetid, ping_outstanding, keepAliveInterval, handlers, request, result, net,
                 up, down, session, answered, bounds>>

-----------------------------------------------------------------------------
(***************************************************************************)
(* The network and the broker.                                             *)
(***************************************************************************)

\* The connection is lost, with what was on its way to the broker and some of
\* what was on its way back.
NetDrop ==
  /\ net /\ drops < MaxDrops
  /\ drops' = drops + 1
  /\ net' = FALSE /\ session' = FALSE /\ up' = <<>>
  /\ \E k \in 0..Len(down) : down' = SubSeq(down, 1, k)
  /\ UNCHANGED <<clientVars, request, result, answered, requests, timeouts, incoming>>

\* The application calls ipstack->connect.
NetConnect ==
  /\ Idle /\ ~net
  /\ net' = TRUE
  /\ UNCHANGED <<clientVars, request, result, up, down, session, answered, bounds>>

BrokerReply(p) ==
  CASE p.kind = "CONNECT" -> {[kind |-> "CONNACK", id |-> 0, rc |-> c] : c \in Refusal}
    [] p.kind = "SUBSCRIBE" -> {[kind |-> "SUBACK", id |-> p.id, rc |-> c] : c \in Grant}
    [] p.kind = "UNSUBSCRIBE" -> {[kind |-> "UNSUBACK", id |-> p.id]}
    [] p.kind = "PUBLISH" /\ p.qos = 1 -> {[kind |-> "PUBACK", id |-> p.id]}
    [] p.kind = "PUBLISH" /\ p.qos = 2 -> {[kind |-> "PUBREC", id |-> p.id]}
    [] p.kind = "PUBREL" -> {[kind |-> "PUBCOMP", id |-> p.id]}
    [] p.kind = "PUBREC" -> {[kind |-> "PUBREL", id |-> p.id]}
    [] p.kind = "PINGREQ" -> {[kind |-> "PINGRESP", id |-> 0]}
    [] OTHER -> {}

\* The request to which q is the last, positive answer.
Positive(q) ==
  \/ q.kind = "CONNACK" /\ q.rc = 0
  \/ q.kind = "SUBACK" /\ q.rc # 128
  \/ q.kind \in {"UNSUBACK", "PUBACK", "PUBCOMP"}
Answers(q) ==
  CASE q.kind = "CONNACK" -> "CONNECT"
    [] q.kind = "SUBACK" -> "SUBSCRIBE"
    [] q.kind = "UNSUBACK" -> "UNSUBSCRIBE"
    [] OTHER -> "PUBLISH"
Outcome(q) ==
  IF Positive(q) THEN {[kind |-> Answers(q), id |-> q.id]}
  ELSE IF q.kind = "SUBACK" THEN {[kind |-> "REFUSED", id |-> q.id]} ELSE {}

\* The broker ignores everything before an accepted CONNECT.
Broker ==
  /\ up # <<>>
  /\ up' = Tail(up)
  /\ LET p == Head(up)
         replies == IF session \/ p.kind = "CONNECT" THEN BrokerReply(p) ELSE {}
     IN  \/ /\ replies = {}
            /\ session' = (session /\ p.kind # "DISCONNECT")
            /\ UNCHANGED <<down, answered>>
         \/ \E q \in replies :
              /\ down' = Append(down, q)
              /\ session' = IF q.kind = "CONNACK" THEN q.rc = 0 ELSE session
              /\ answered' = answered \cup Outcome(q)
  /\ UNCHANGED <<clientVars, request, result, net, bounds>>

BrokerPublish(qos) ==
  /\ session /\ net /\ incoming < MaxIncoming
  /\ incoming' = incoming + 1
  /\ down' = Append(down, [kind |-> "PUBLISH", id |-> incoming + 1, qos |-> qos])
  /\ UNCHANGED <<clientVars, request, result, net, up, session, answered, requests, timeouts,
                 drops>>

Next ==
  \/ MQTTConnect
  \/ \E t \in Topic : MQTTSubscribe(t) \/ MQTTUnsubscribe(t)
  \/ \E q \in QoSs : MQTTPublish(q)
  \/ MQTTDisconnect
  \/ MQTTYield
  \/ Cycle \/ CycleFails \/ Expire \/ PingTimer
  \/ NetDrop \/ NetConnect \/ Broker
  \/ \E q \in QoSs : BrokerPublish(q)

Spec == Init /\ [][Next]_vars

-----------------------------------------------------------------------------
\* next_packetid wraps inside 1..MAX_PACKET_ID, so no packet carries an id the
\* protocol does not have, and messageHandlers never holds more than its slots.
TypeOK ==
  /\ isconnected \in BOOLEAN /\ ping_outstanding \in BOOLEAN
  /\ keepAliveInterval \in BOOLEAN /\ pingDue \in BOOLEAN
  /\ net \in BOOLEAN /\ session \in BOOLEAN
  /\ next_packetid \in 1..MaxPacketId
  /\ handlers \in Seq(Topic) /\ Len(handlers) <= MaxHandlers
  /\ \A i \in DOMAIN up : up[i].id \in 0..(MaxPacketId + MaxIncoming)
  /\ \A i \in DOMAIN down : down[i].id \in 0..(MaxPacketId + MaxIncoming)

\* A request that reports success has had its own answer, the one with its
\* packet id.
AckMatched ==
  LET r == result.request
      acknowledged == \/ r.kind \in {"CONNECT", "SUBSCRIBE", "UNSUBSCRIBE"}
                      \/ r.kind = "PUBLISH" /\ r.qos > 0
  IN  result.rc = 0 /\ acknowledged => [kind |-> r.kind, id |-> r.id] \in answered

\* Until a request times out or a connection is lost AckMatched holds: no
\* packet of any type, PUBREC and the client's own disconnect included,
\* completes a request that it does not answer.  The exception is a refused
\* subscription, which is reported as a success where char is signed.
Undisturbed == timeouts = 0 /\ drops = 0
RefusalMissed ==
  /\ CharSigned /\ result.request.kind = "SUBSCRIBE"
  /\ [kind |-> "REFUSED", id |-> result.request.id] \in answered
AckMatchedUndisturbed == Undisturbed => AckMatched \/ RefusalMissed

\* Under the same condition, on a network that is connected, MQTTConnect
\* refuses only a client that has a session with the broker.
AlreadyConnectedUndisturbed ==
  [][Undisturbed /\ MQTTConnect /\ isconnected /\ net => session]_vars

\* At most one ping is on its way, there or back.
PingsInFlight ==
  Cardinality({i \in DOMAIN up : up[i].kind = "PINGREQ"})
    + Cardinality({i \in DOMAIN down : down[i].kind = "PINGRESP"})
OnePing == PingsInFlight <= IF ping_outstanding THEN 1 ELSE 0

\* The client's own state stays sound through timeouts, lost connections and
\* the wrap of its packet ids.
ClientSound == TypeOK /\ OnePing

\* What a caller of MQTTConnect, MQTTPublish, MQTTSubscribe and MQTTUnsubscribe
\* is told is true until the first fault.
AnswersTrue == []AckMatchedUndisturbed /\ AlreadyConnectedUndisturbed
=============================================================================
