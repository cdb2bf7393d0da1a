---------------------------- MODULE MCMqttPacket ----------------------------
(* Every packet type, both kinds of string, lengths around one and two bytes. *)
EXTENDS MqttPacket

C(text) == [cstring |-> {text}, lenstring |-> <<>>]
L(text) == [cstring |-> {}, lenstring |-> text]
NoString == L(<<>>)
Run(n) == [k \in 1 .. n |-> 7]

Connects ==
    [type : {CONNECT}, version : {3, 4}, cleansession : BOOLEAN, willFlag : BOOLEAN,
     willQoS : {2}, willRetain : BOOLEAN, willTopic : {C(<<97>>)}, willMessage : {L(<<98, 99>>)},
     keepAlive : {60, 300}, clientID : {C(<<>>), L(<<97, 98>>)},
     username : {C(<<117>>)}, password : {NoString, L(<<112, 112>>)}]
Anonymous == [type : {CONNECT}, version : {4}, cleansession : {TRUE}, willFlag : {FALSE}, willQoS : {0},
     willRetain : {FALSE}, willTopic : {NoString}, willMessage : {NoString}, keepAlive : {60},
     clientID : {C(<<97>>)}, username : {NoString}, password : {NoString}]
Publishes ==
    [type : {PUBLISH}, dup : BOOLEAN, qos : 0 .. 2, retained : BOOLEAN, id : {1, 300},
     topic : {C(<<97>>), L(<<97, 47>>)}, payload : {<<>>, <<200, 0>>, Run(122), Run(123), Run(124), Run(125)}]
FilterLists == {<<[topic |-> C(<<97>>), qos |-> 1]>>,
                <<[topic |-> L(<<97, 35>>), qos |-> 0], [topic |-> C(<<98>>), qos |-> 2]>>}
Others ==
    [type : {SUBSCRIBE, UNSUBSCRIBE}, dup : BOOLEAN, id : {1, 515}, filters : FilterLists]
    \cup [type : {PUBACK, PUBREC, PUBREL, PUBCOMP}, dup : BOOLEAN, id : {1, 65535}]
    \cup [type : {UNSUBACK}, dup : {FALSE}, id : {1, 515}]
    \cup [type : {SUBACK}, id : {7}, granted : {<<0>>, <<1, 128>>}]
    \cup [type : {CONNACK}, sessionPresent : BOOLEAN, rc : {0, 5}]
    \cup [type : {PINGREQ, PINGRESP, DISCONNECT}]
MCMessages == Connects \cup Anonymous \cup Publishes \cup Others
=============================================================================
