----------------------------- MODULE MqttPacket -----------------------------
(***************************************************************************)
(* mqtt/MQTTPacket: the serialisers and deserialisers of every control     *)
(* packet, and the two stream readers.  A packet is a sequence of bytes, a *)
(* message a record with the arguments of its serialiser; an MQTTString is *)
(* a record with an optional C string (a set of at most one) and a counted *)
(* one.  The state is one transfer: a peer sends the packet of `msg' and   *)
(* MQTTPacket_readnb collects it from a transport that hands over as many  *)
(* bytes as it likes.                                                      *)
(***************************************************************************)
EXTENDS Integers, Sequences, SequencesExt

CONSTANTS Messages,   \* the messages sent
          BufLen,     \* the reader's buffer size
          CharSigned  \* char is signed in this build

CONNECT == 1
CONNACK == 2
PUBLISH == 3
PUBACK == 4
PUBREC == 5
PUBREL == 6
PUBCOMP == 7
SUBSCRIBE == 8
SUBACK == 9
UNSUBSCRIBE == 10
UNSUBACK == 11
PINGREQ == 12
PINGRESP == 13
DISCONNECT == 14
Acks == {PUBACK, PUBREC, PUBREL, PUBCOMP, UNSUBACK}
MAX_LENGTH_BYTES_One == 1
MAX_NO_OF_REMAINING_LENGTH_BYTES == 4
WordLimit == 65536         \* the first number that takes a third byte
LengthLimit == 268435456   \* the first length that takes a fifth byte

---------------------------------------------------------------------------
(* MQTTPacket.c: lengths, integers and strings *)

MQTTPacket_encode[n \in 0 .. LengthLimit - 1] ==
    IF n < 128 THEN <<n>> ELSE <<128 + (n % 128)>> \o MQTTPacket_encode[n \div 128]

\* Bytes past the end of a packet are whatever the buffer holds; here, zeros.
ByteAt(s, at) == IF at <= Len(s) THEN s[at] ELSE 0
\* A byte that is stored in an int goes through a char.
readChar(byte) == IF CharSigned /\ byte > 127 THEN byte - 256 ELSE byte
Take(s, n) == SubSeq(s, 1, IF n < Len(s) THEN n ELSE Len(s))

\* How many bytes MQTTPacket_decode takes at a position, 5 when it gives up, and their value.
DecodeCount(s, at) ==
    LET last == {k \in 1 .. MAX_NO_OF_REMAINING_LENGTH_BYTES : ByteAt(s, at + k - 1) < 128}
    IN  IF last = {} THEN MAX_NO_OF_REMAINING_LENGTH_BYTES + 1
        ELSE CHOOSE k \in last : \A other \in last : k <= other
Multiplier == <<1, 128, 16384, 2097152>>
DecodeValue(s, at) ==
    LET digit(k) == IF k <= DecodeCount(s, at) THEN (ByteAt(s, at + k - 1) % 128) * Multiplier[k] ELSE 0
    IN  digit(1) + digit(2) + digit(3) + digit(4)

MQTTPacket_len_OneByte(rem_len) == rem_len + 2
MQTTPacket_len(rem_len) ==
    rem_len + 1 + (CASE rem_len + 1 < 128 -> 1 [] 128 <= rem_len + 1 /\ rem_len + 1 < 16384 -> 2
                     [] 16384 <= rem_len + 1 /\ rem_len + 1 < 2097151 -> 3 [] OTHER -> 4)

writeInt(n) == <<(n \div 256) % 256, n % 256>>
readInt_Swapped(s, at) == ByteAt(s, at) + 256 * ByteAt(s, at + 1)
readInt(s, at) == 256 * ByteAt(s, at) + ByteAt(s, at + 1)

MQTTstrlen(str) == IF str.cstring # {} THEN Len(CHOOSE c \in str.cstring : TRUE) ELSE Len(str.lenstring)
Text(str) == IF Len(str.lenstring) > 0 \/ str.cstring = {} THEN str.lenstring
             ELSE CHOOSE c \in str.cstring : TRUE
writeMQTTString(str) == writeInt(Len(Text(str))) \o Text(str)

\* A counted string at a position, not past `end', the first byte behind the data.
readMQTTLenString(s, from, end) ==
    LET len == readInt(s, from) IN
    IF end - from > 1 /\ from + 2 + len <= end
    THEN [ok |-> TRUE, at |-> from + 2 + len, text |-> SubSeq(s, from + 2, from + 1 + len)]
    ELSE [ok |-> FALSE, at |-> IF end - from > 1 THEN from + 2 ELSE from, text |-> <<>>]

MQTTPacket_equals(str, c) == Text(str) = c

---------------------------------------------------------------------------
(* Serialisers: the header byte, the remaining length each computes, the body. *)

Bit(b) == IF b THEN 1 ELSE 0
Header(type, dup, qos, retain) == 16 * type + 8 * Bit(dup) + 2 * qos + Bit(retain)
TypeOf(byte) == byte \div 16

Present(str) == str.cstring # {} \/ Len(str.lenstring) > 0
SumStrlen(list, extra) ==
    LET sum[k \in 0 .. Len(list)] == IF k = 0 THEN 0 ELSE sum[k - 1] + 2 + MQTTstrlen(list[k].topic) + extra
    IN  sum[Len(list)]
Optional(cond, n) == IF cond THEN n ELSE 0

MQTTSerialize_connectLength(o) ==
    (CASE o.version = 3 -> 12 [] o.version = 4 -> 10 [] OTHER -> 0)
    + MQTTstrlen(o.clientID) + 2
    + Optional(o.willFlag, MQTTstrlen(o.willTopic) + 2 + MQTTstrlen(o.willMessage) + 2)
    + Optional(Present(o.username), MQTTstrlen(o.username) + 2)
    + Optional(Present(o.password), MQTTstrlen(o.password) + 2)
MQTTSerialize_publishLength_NoId(m) == 2 + MQTTstrlen(m.topic) + Len(m.payload)
MQTTSerialize_publishLength(m) == 2 + MQTTstrlen(m.topic) + Len(m.payload) + Optional(m.qos > 0, 2)
MQTTSerialize_subscribeLength(m) == 2 + SumStrlen(m.filters, 1)
MQTTSerialize_unsubscribeLength(m) == 2 + SumStrlen(m.filters, 0)

ProtocolMQTT == <<77, 81, 84, 84>>
ProtocolMQIsdp == <<77, 81, 73, 115, 100, 112>>
ConnectFlags(o) ==
    2 * Bit(o.cleansession) + Optional(o.willFlag, 4 + 8 * o.willQoS + 32 * Bit(o.willRetain))
    + 64 * Bit(Present(o.password)) + 128 * Bit(Present(o.username))
WriteIf(cond, bytes) == IF cond THEN bytes ELSE <<>>

MQTTSerialize_connect(o) ==
    (IF o.version = 4 THEN writeInt(4) \o ProtocolMQTT \o <<4>> ELSE writeInt(6) \o ProtocolMQIsdp \o <<3>>)
    \o <<ConnectFlags(o)>> \o writeInt(o.keepAlive) \o writeMQTTString(o.clientID)
    \o WriteIf(o.willFlag, writeMQTTString(o.willTopic) \o writeMQTTString(o.willMessage))
    \o WriteIf(Present(o.username), writeMQTTString(o.username))
    \o WriteIf(Present(o.password), writeMQTTString(o.password))
MQTTSerialize_publish(m) == writeMQTTString(m.topic) \o WriteIf(m.qos > 0, writeInt(m.id)) \o m.payload
WriteFilters(list, withQos) ==
    LET written[k \in 0 .. Len(list)] ==
            IF k = 0 THEN <<>>
            ELSE written[k - 1] \o (writeMQTTString(list[k].topic) \o WriteIf(withQos, <<list[k].qos>>))
    IN  written[Len(list)]
MQTTSerialize_subscribe(m) == writeInt(m.id) \o WriteFilters(m.filters, TRUE)
MQTTSerialize_unsubscribe(m) == writeInt(m.id) \o WriteFilters(m.filters, FALSE)

\* Per type: the header byte, the remaining length, the body, and the size the serialiser
\* compares with the caller's buffer.
HeaderOf(m) ==
    CASE m.type = PUBLISH -> Header(PUBLISH, m.dup, m.qos, m.retained)
      [] m.type \in {SUBSCRIBE, UNSUBSCRIBE} -> Header(m.type, m.dup, 1, FALSE)
      [] m.type \in Acks \ {UNSUBACK} -> Header(m.type, m.dup, Bit(m.type = PUBREL), FALSE)
      [] OTHER -> Header(m.type, FALSE, 0, FALSE)
RemLen(m) ==
    CASE m.type = CONNECT -> MQTTSerialize_connectLength(m)
      [] m.type = PUBLISH -> MQTTSerialize_publishLength(m)
      [] m.type = SUBSCRIBE -> MQTTSerialize_subscribeLength(m)
      [] m.type = UNSUBSCRIBE -> MQTTSerialize_unsubscribeLength(m)
      [] m.type = SUBACK -> 2 + Len(m.granted)
      [] m.type \in {PINGREQ, PINGRESP, DISCONNECT} -> 0
      [] OTHER -> 2
Body(m) ==
    CASE m.type = CONNECT -> MQTTSerialize_connect(m)
      [] m.type = CONNACK -> <<128 * Bit(m.sessionPresent), m.rc>>
      [] m.type = PUBLISH -> MQTTSerialize_publish(m)
      [] m.type = SUBSCRIBE -> MQTTSerialize_subscribe(m)
      [] m.type = UNSUBSCRIBE -> MQTTSerialize_unsubscribe(m)
      [] m.type = SUBACK -> writeInt(m.id) \o m.granted
      [] m.type \in Acks -> writeInt(m.id)
      [] OTHER -> <<>>
Needed(m) ==
    CASE m.type \in {CONNECT, PUBLISH, SUBSCRIBE, UNSUBSCRIBE} -> MQTTPacket_len(RemLen(m))
      [] m.type = SUBACK -> 2 + Len(m.granted)
      [] m.type \in Acks \ {UNSUBACK} -> 4
      [] OTHER -> 2
MQTTSerialize(m) == <<HeaderOf(m)>> \o MQTTPacket_encode[RemLen(m)] \o Body(m)

\* What a caller may pass: a string is a C string or a counted one and not both (MQTTstrlen
\* and writeMQTTString prefer different ones), numbers fit their fields, a username or password
\* that is there is not empty, a password comes with a username, and four bytes hold the length.
Byte == 0 .. 255
Word == 0 .. WordLimit - 1
Strings ==
    {str \in [cstring : SUBSET Seq(Byte), lenstring : Seq(Byte)] :
        /\ str.cstring = {} \/ (str.lenstring = <<>> /\ \E c \in str.cstring : str.cstring = {c})
        /\ Len(Text(str)) \in Word}
IsConnect(o) ==
    /\ o.version \in {3, 4} /\ o.keepAlive \in Word /\ o.willQoS \in 0 .. 3
    /\ {o.cleansession, o.willFlag, o.willRetain} \subseteq BOOLEAN
    /\ {o.clientID, o.willTopic, o.willMessage, o.username, o.password} \subseteq Strings
    /\ \A str \in {o.username, o.password} : Present(str) => Text(str) # <<>>
    /\ Present(o.password) => Present(o.username)
IsMessage(m) ==
    /\ m.type \in CONNECT .. DISCONNECT
    /\ m.type = CONNECT => IsConnect(m)
    /\ m.type = CONNACK => m.sessionPresent \in BOOLEAN /\ m.rc \in Byte
    /\ m.type = PUBLISH => /\ m.topic \in Strings /\ m.payload \in Seq(Byte) /\ m.qos \in 0 .. 3
                           /\ {m.dup, m.retained} \subseteq BOOLEAN /\ m.id \in Word
    /\ m.type \in {SUBSCRIBE, UNSUBSCRIBE} =>
            m.filters \in Seq([topic : Strings, qos : Byte]) /\ m.id \in Word /\ m.dup \in BOOLEAN
    /\ m.type = SUBACK => m.granted \in Seq(Byte) /\ m.id \in Word
    /\ m.type \in Acks => m.id \in Word /\ m.dup \in BOOLEAN /\ (m.type = UNSUBACK => ~m.dup)
    /\ RemLen(m) < LengthLimit
ASSUME MessageAssumption == (\A m \in Messages : IsMessage(m)) /\ BufLen \in Nat /\ CharSigned \in BOOLEAN

---------------------------------------------------------------------------
(* Deserialisers: rc and what they store.  The exits in the middle return what rc *)
(* holds there: mostly the number of bytes of the remaining length.               *)

BodyAt(s) == 2 + DecodeCount(s, 2)
EndOf(s) == BodyAt(s) + DecodeValue(s, 2)
DupOf(s) == (s[1] \div 8) % 2 = 1
QosOf(s) == (s[1] \div 2) % 4

MQTTPacket_checkVersion(text, version) ==
    \/ version = 3 /\ IsPrefix(Take(text, 6), ProtocolMQIsdp)
    \/ version = 4 /\ IsPrefix(Take(text, 4), ProtocolMQTT)

\* The fields of a CONNECT, each read where the one before it ended.
ReadIf(s, cond, least, from) ==
    IF ~cond THEN [ok |-> TRUE, at |-> from, text |-> <<>>]
    ELSE IF Len(s) + 1 - from < least THEN [ok |-> FALSE, at |-> from, text |-> <<>>]
    ELSE readMQTTLenString(s, from, Len(s) + 1)
Protocol(s) == readMQTTLenString(s, BodyAt(s), Len(s) + 1)
VersionOf(s) == ByteAt(s, Protocol(s).at)
FlagsOf(s) == ByteAt(s, Protocol(s).at + 1)
Flag(s, bit) == (FlagsOf(s) \div bit) % 2 = 1
ClientID(s) == readMQTTLenString(s, Protocol(s).at + 4, Len(s) + 1)
WillTopic(s) == ReadIf(s, Flag(s, 4), 0, ClientID(s).at)
WillMessage(s) == ReadIf(s, Flag(s, 4), 0, WillTopic(s).at)
Username(s) == ReadIf(s, Flag(s, 128), 3, WillMessage(s).at)
Password(s) == ReadIf(s, Flag(s, 128) /\ Flag(s, 64), 3, Username(s).at)

MQTTDeserialize_connect(s) ==
    [rc |-> Bit(/\ TypeOf(s[1]) = CONNECT
                /\ Protocol(s).ok /\ MQTTPacket_checkVersion(Protocol(s).text, VersionOf(s))
                /\ ClientID(s).ok /\ WillTopic(s).ok /\ WillMessage(s).ok /\ Username(s).ok /\ Password(s).ok
                /\ (Flag(s, 64) => Flag(s, 128))),
     out |-> <<VersionOf(s), Flag(s, 2), Flag(s, 4), (FlagsOf(s) \div 8) % 4, Flag(s, 32),
               readInt(s, Protocol(s).at + 2), ClientID(s).text, WillTopic(s).text, WillMessage(s).text,
               Username(s).text, Password(s).text>>]

MQTTDeserialize_publish(s) ==
    LET end == EndOf(s)
        topic == readMQTTLenString(s, BodyAt(s), end)
        at == topic.at + Optional(QosOf(s) > 0, 2)
    IN  IF TypeOf(s[1]) # PUBLISH THEN [rc |-> 0, out |-> <<>>]
        ELSE IF ~topic.ok THEN [rc |-> DecodeCount(s, 2), out |-> <<>>]
        ELSE [rc |-> 1, out |-> <<DupOf(s), QosOf(s), s[1] % 2 = 1, topic.text,
                                  WriteIf(QosOf(s) > 0, writeInt(readInt(s, topic.at))),
                                  SubSeq(s, at, end - 1)>>]

ShortRc(s) == DecodeCount(s, 2)
MQTTDeserialize_ack(s) ==
    IF DecodeValue(s, 2) < 2 THEN [rc |-> ShortRc(s), out |-> <<TypeOf(s[1]), DupOf(s)>>]
    ELSE [rc |-> 1, out |-> <<TypeOf(s[1]), DupOf(s), readInt(s, BodyAt(s))>>]
MQTTDeserialize_unsuback(s) ==
    LET ack == MQTTDeserialize_ack(s) IN IF TypeOf(s[1]) = UNSUBACK THEN [ack EXCEPT !.rc = 1] ELSE ack

MQTTDeserialize_connack(s) ==
    IF TypeOf(s[1]) # CONNACK THEN [rc |-> 0, out |-> <<>>]
    ELSE IF DecodeValue(s, 2) < 2 THEN [rc |-> ShortRc(s), out |-> <<>>]
    ELSE [rc |-> 1, out |-> <<ByteAt(s, BodyAt(s)) \div 128 = 1, ByteAt(s, BodyAt(s) + 1)>>]

\* maxcount is compared before each store with the number already stored.
MQTTDeserialize_suback(s, maxcount) ==
    LET granted == SubSeq(s, BodyAt(s) + 2, EndOf(s) - 1) IN
    IF TypeOf(s[1]) # SUBACK THEN [rc |-> 0, out |-> <<>>]
    ELSE IF DecodeValue(s, 2) < 2 THEN [rc |-> ShortRc(s), out |-> <<>>]
    ELSE [rc |-> IF Len(granted) > maxcount + 1 THEN -1 ELSE 1,
          out |-> <<readInt(s, BodyAt(s)), [k \in DOMAIN Take(granted, maxcount + 1) |-> readChar(granted[k])]>>]

\* The loop over the filters, each followed by a QoS byte in a SUBSCRIBE: after k rounds,
\* where it stands, the list so far, and whether it left early.  A round takes at least a byte.
Filters(s, withQos) ==
    LET end == EndOf(s)
        Round(l) ==
            LET topic == readMQTTLenString(s, l.at, end) IN
            IF ~topic.ok \/ (withQos /\ topic.at >= end) THEN [l EXCEPT !.ok = FALSE]
            ELSE [ok |-> TRUE, at |-> topic.at + Bit(withQos),
                  list |-> Append(l.list, <<topic.text, Optional(withQos, readChar(ByteAt(s, topic.at)))>>)]
        loop[k \in 0 .. Len(s)] ==
            IF k = 0 THEN [ok |-> TRUE, at |-> BodyAt(s) + 2, list |-> <<>>]
            ELSE LET last == loop[k - 1] IN IF last.ok /\ last.at < end THEN Round(last) ELSE last
    IN  loop[Len(s)]
MQTTDeserialize_filters(s, type) ==
    LET f == Filters(s, type = SUBSCRIBE) IN
    IF TypeOf(s[1]) # type THEN [rc |-> IF type = SUBSCRIBE THEN -1 ELSE 0, out |-> <<>>]
    ELSE [rc |-> IF f.ok THEN 1 ELSE DecodeCount(s, 2), out |-> <<DupOf(s), readInt(s, BodyAt(s)), f.list>>]

Deserialize(type, s) ==
    CASE type = CONNECT -> MQTTDeserialize_connect(s)
      [] type = CONNACK -> MQTTDeserialize_connack(s)
      [] type = PUBLISH -> MQTTDeserialize_publish(s)
      [] type \in {SUBSCRIBE, UNSUBSCRIBE} -> MQTTDeserialize_filters(s, type)
      [] type = SUBACK -> MQTTDeserialize_suback(s, Len(s))
      [] type = UNSUBACK -> MQTTDeserialize_unsuback(s)
      [] OTHER -> MQTTDeserialize_ack(s)

---------------------------------------------------------------------------
(* The readers *)

\* MQTTPacket_read takes everything from a stream that has it: the type, or -1 when the
\* packet does not fit.  It puts the length back in the shortest form.
MQTTPacket_read(s, buflen) ==
    LET rem == DecodeValue(s, 2)
        head == <<s[1]>> \o MQTTPacket_encode[rem]
    IN  IF rem + Len(head) > buflen THEN [rc |-> -1, buf |-> head]
        ELSE [rc |-> TypeOf(s[1]), buf |-> head \o SubSeq(s, BodyAt(s), BodyAt(s) + rem - 1)]

VARIABLES msg,     \* the message the peer sent
          taken,   \* bytes of its packet the transport handed over
          trp,     \* MQTTTransport: state, len, rem_len, multiplier
          buf,     \* the caller's buffer
          rc,      \* what MQTTPacket_readnb returned last; 0: call again
          again    \* how often the transport had nothing in the middle of the length

vars == <<msg, taken, trp, buf, rc, again>>
Packet == MQTTSerialize(msg)

Init ==
    /\ msg \in Messages
    /\ taken = 0 /\ rc = 0 /\ again = 0 /\ buf = <<>>
    /\ trp = [state |-> 0, len |-> 0, rem_len |-> 0, multiplier |-> 1]

\* One call of getfn inside MQTTPacket_readnb, answered with n bytes, 0 or -1.
Failed == rc' = -1 /\ trp' = [trp EXCEPT !.state = 0] /\ UNCHANGED <<buf, taken, again>>
CallAgain == rc' = 0 /\ UNCHANGED <<trp, buf, taken, again>>

ReadHeader(n) ==
    /\ trp.state = 0
    /\ \/ n = -1 /\ Failed
       \/ n = 0 /\ CallAgain
       \/ /\ n = 1
          /\ buf' = <<Packet[1]>> /\ taken' = 1
          /\ trp' = [trp EXCEPT !.state = 1, !.len = 0]
          /\ UNCHANGED <<rc, again>>

\* MQTTPacket_decodenb counts its attempts, not its bytes.
Attempt_Free(len, n) == IF n = 0 THEN len ELSE len + 1
Attempt(len, n) == len + 1
AddDigit_NoWeight(rem, c, multiplier) == rem + (c % 128)
AddDigit(rem, c, multiplier) == rem + (c % 128) * multiplier
MQTTPacket_decodenb(n) ==
    LET len == Attempt(trp.len, n)
        rem == IF trp.len = 0 THEN 0 ELSE trp.rem_len
        mult == IF trp.len = 0 THEN 1 ELSE trp.multiplier
        c == Packet[taken + 1]
        value == AddDigit(rem, c, mult)
        head == <<buf[1]>> \o MQTTPacket_encode[value]
    IN
    /\ trp.state = 1
    /\ \/ len > MAX_NO_OF_REMAINING_LENGTH_BYTES /\ Failed
       \/ len <= MAX_NO_OF_REMAINING_LENGTH_BYTES /\ n = -1 /\ Failed
       \/ /\ len <= MAX_NO_OF_REMAINING_LENGTH_BYTES /\ n = 0
          /\ trp' = [trp EXCEPT !.len = len, !.rem_len = rem, !.multiplier = mult]
          /\ rc' = 0 /\ again' = again + 1
          /\ UNCHANGED <<buf, taken>>
       \/ /\ len <= MAX_NO_OF_REMAINING_LENGTH_BYTES /\ n = 1 /\ c >= 128
          /\ trp' = [trp EXCEPT !.len = len, !.rem_len = value, !.multiplier = mult * 128]
          /\ taken' = taken + 1
          /\ UNCHANGED <<buf, rc, again>>
       \/ /\ len <= MAX_NO_OF_REMAINING_LENGTH_BYTES /\ n = 1 /\ c < 128
          /\ taken' = taken + 1 /\ buf' = head
          /\ \/ /\ value + Len(head) <= BufLen
                /\ trp' = [state |-> 2, len |-> Len(head), rem_len |-> value, multiplier |-> mult * 128]
                /\ UNCHANGED rc
             \/ /\ value + Len(head) > BufLen
                /\ trp' = [state |-> 0, len |-> Len(head), rem_len |-> value, multiplier |-> mult * 128]
                /\ rc' = -1
          /\ UNCHANGED again

Complete_Never(n) == FALSE
Complete(n) == trp.rem_len = n
ReadRest(n) ==
    /\ trp.state = 2
    /\ \/ n = -1 /\ Failed
       \/ n = 0 /\ CallAgain
       \/ /\ n \in 1 .. trp.rem_len
          /\ buf' = buf \o SubSeq(Packet, taken + 1, taken + n) /\ taken' = taken + n
          /\ trp' = [trp EXCEPT !.rem_len = @ - n, !.len = @ + n,
                                !.state = IF Complete(n) THEN 0 ELSE 2]
          /\ rc' = IF Complete(n) THEN TypeOf(buf[1]) ELSE 0
          /\ UNCHANGED again

Finished == rc # 0
MQTTPacket_readnb(n) ==
    /\ ~Finished
    /\ ReadHeader(n) \/ MQTTPacket_decodenb(n) \/ ReadRest(n)
    /\ UNCHANGED msg

\* External: the transport answers with an error, with nothing, or with 1 or all bytes.
Next ==
    \/ \E n \in {-1, 0, 1, trp.rem_len} : MQTTPacket_readnb(n)
    \/ Finished /\ UNCHANGED vars

Spec == Init /\ [][Next]_vars

\* A transport asked again and again has bytes sometimes.
FairSpec == Spec /\ SF_vars(\E n \in {1, trp.rem_len} : n > 0 /\ MQTTPacket_readnb(n))

---------------------------------------------------------------------------
(* Properties *)

\* The transport structure stays in its type and never counts past the packet.
TypeOK ==
    /\ trp.state \in 0 .. 2 /\ trp.len \in 0 .. Len(Packet) + MAX_NO_OF_REMAINING_LENGTH_BYTES /\ trp.rem_len \in 0 .. RemLen(msg)
    /\ taken \in 0 .. Len(Packet) /\ rc \in -1 .. 14 /\ again \in 0 .. MAX_NO_OF_REMAINING_LENGTH_BYTES

\* The remaining length that each serialiser computes before it writes is the number
\* of bytes it then writes, so the peer's framing survives.
LengthExact == RemLen(msg) = Len(Body(msg))

\* A serialiser of the client writes no more than the size it compared with the buffer;
\* those of the server side for CONNACK, SUBACK and UNSUBACK forget the header byte and the
\* length, and write up to as many bytes more.
WrittenFits ==
    Len(Packet) <= Needed(msg) + IF msg.type \in {CONNACK, SUBACK, UNSUBACK}
                                 THEN 1 + Len(MQTTPacket_encode[RemLen(msg)]) ELSE 0

\* What a deserialiser stores is what was serialised, for every packet type; codes above 127
\* come back as the char makes them.
Expected(m) ==
    CASE m.type = CONNECT ->
            <<m.version, m.cleansession, m.willFlag, Optional(m.willFlag, m.willQoS), m.willFlag /\ m.willRetain,
              m.keepAlive, Text(m.clientID), WriteIf(m.willFlag, Text(m.willTopic)),
              WriteIf(m.willFlag, Text(m.willMessage)), Text(m.username), Text(m.password)>>
      [] m.type = CONNACK -> <<m.sessionPresent, m.rc>>
      [] m.type = PUBLISH -> <<m.dup, m.qos, m.retained, Text(m.topic), WriteIf(m.qos > 0, writeInt(m.id)), m.payload>>
      [] m.type \in {SUBSCRIBE, UNSUBSCRIBE} ->
            <<m.dup, m.id, [k \in DOMAIN m.filters |-> <<Text(m.filters[k].topic),
                                        Optional(m.type = SUBSCRIBE, readChar(m.filters[k].qos))>>]>>
      [] m.type = SUBACK -> <<m.id, [k \in DOMAIN m.granted |-> readChar(m.granted[k])]>>
      [] m.type \in Acks -> <<m.type, m.dup, m.id>>
      [] OTHER -> <<m.type, FALSE>>
RoundTrip ==
    Deserialize(msg.type, Packet) = [rc |-> 1, out |-> Expected(msg)]

\* The blocking reader takes exactly the packet when it fits and refuses it otherwise; the
\* non-blocking one, however the bytes trickle in, ends with the same buffer and type.
ReadersAgree ==
    LET read == MQTTPacket_read(Packet, BufLen) IN
    /\ read.rc = IF Len(Packet) <= BufLen THEN msg.type ELSE -1
    /\ rc > 0 => rc = read.rc /\ buf = read.buf /\ buf = Packet

\* A reader that is called again and again finishes, but not on a packet without a body,
\* for which it asks the transport for no bytes and takes that for `call again'.
ReaderFinishes == <>(Finished \/ (trp.state = 2 /\ RemLen(msg) = 0))

\* The packets and their readers: lengths, sizes, contents and framing.
PacketsTrue == TypeOK /\ LengthExact /\ WrittenFits /\ RoundTrip /\ ReadersAgree

\* Nothing but an error of the transport, a packet too large, or a transport that had
\* nothing in the middle of the length (whose empty answers are counted as length bytes)
\* makes MQTTPacket_readnb fail on a good packet.
GoodPacketRead ==
    [][\A n \in {0, 1, trp.rem_len} : rc' = -1 /\ MQTTPacket_readnb(n)
            => again > 0 \/ Len(Packet) > BufLen]_vars
=============================================================================
