---------------------------- MODULE MqttPackets -----------------------------
(***************************************************************************)
(* What the two ends of a publication flow share: the messages, and the    *)
(* control packets with the fields the handlers look at. A publish names   *)
(* its message; everything else a real packet carries is left out.         *)
(***************************************************************************)
EXTENDS EntrySequences

CONSTANTS
    Qos,            \* Qos[m] is the QoS of the m-th message the application publishes
    Pids,           \* the packet ids of the sender's pid_man_
    V5,             \* TRUE for MQTT v5, FALSE for v3.1.1
    ReceiveMax      \* the Receive Maximum the receiver announces and the sender keeps to

MaxUint16 == 65535  \* of receive_maximum_t and of the send counter

ASSUME PacketsAssumption ==
    /\ Qos \in Seq(0..2)
    /\ Pids \subseteq Nat \ {NoPid}
    /\ V5 \in BOOLEAN
    /\ ReceiveMax \in 1..MaxUint16

Messages == 1..Len(Qos)

Reasons == {"success", "not_authorized", "quota_exceeded"}

(* is_error(reason_code) *)
IsError(reason) == reason # "success"

ConnectPacket(clean)    == [type |-> "connect", clean |-> clean]
ConnackPacket(present)  == [type |-> "connack", present |-> present]
PublishPacket(p, m)     == [type |-> "publish", pid |-> p, msg |-> m]
PubackPacket(p, reason) == [type |-> "puback", pid |-> p, reason |-> reason]
PubrecPacket(p, reason) == [type |-> "pubrec", pid |-> p, reason |-> reason]
PubrelPacket(p)         == [type |-> "pubrel", pid |-> p]
PubcompPacket(p)        == [type |-> "pubcomp", pid |-> p]
SubscribePacket(p)      == [type |-> "subscribe", pid |-> p]
SubackPacket(p)         == [type |-> "suback", pid |-> p]

PublishPackets ==
    {x \in [type : {"publish"}, pid : Pids \union {NoPid}, msg : Messages] :
        x.pid = NoPid <=> Qos[x.msg] = 0}

PacketsToReceiver == [type : {"connect"}, clean : BOOLEAN]
                        \union PublishPackets
                        \union [type : {"pubrel", "subscribe"}, pid : Pids]

PacketsToSender == [type : {"connack"}, present : BOOLEAN]
                      \union [type : {"puback", "pubrec"}, pid : Pids, reason : Reasons]
                      \union [type : {"pubcomp", "suback"}, pid : Pids]
=============================================================================
