----------------------------- MODULE Packets311 -----------------------------
(***************************************************************************)
(* message.hpp, the control packets of MQTT v3.1.1: as Packets5, without   *)
(* properties, and with answers that only carry the packet id.             *)
(***************************************************************************)
EXTENDS PacketBytes

ConnectLength(p) ==
    10 + 2 + p.client_id
       + (IF "user_name" \in DOMAIN p THEN 2 + p.user_name ELSE 0)
       + (IF "password" \in DOMAIN p THEN 2 + p.password ELSE 0)
       + (IF "will_topic" \in DOMAIN p THEN 2 + p.will_topic + 2 + p.will_message ELSE 0)

ConnectBody(p) ==
    <<0, 4, 77, 81, 84, 84, 4, ConnectFlags(p)>> \o TwoBytes(p.keep_alive)
        \o Counted(p.client_id)
        \o IfHas(p, "will_topic", Counted(p.will_topic) \o Counted(p.will_message))
        \o IfHas(p, "user_name", Counted(p.user_name))
        \o IfHas(p, "password", Counted(p.password))

ConnackBody(p) == <<Bit(p.present, 1), p.reason>>

PublishLength(p) == 2 + p.topic + Bit(p.qos > 0, 2) + p.payload

PublishBody(p) ==
    Counted(p.topic) \o (IF p.qos > 0 THEN TwoBytes(p.pid) ELSE <<>>) \o Text(p.payload)

(* continuous_buffer(), and the message constructed from it *)
ContinuousPublish(p) ==
    TwoBytes(p.topic) \o Text(p.topic) \o (IF p.qos > 0 THEN TwoBytes(p.pid) ELSE <<>>)
        \o Text(p.payload)

StoredPublish(bytes) ==
    LET options == PublishOptions(bytes[1])
        body    == Dropped(bytes, 1 + VariableEnd(Tail(bytes)))
        rest    == Dropped(body, 2 + CountOf(body))
    IN  options
            @@ [type    |-> "publish",
                topic   |-> TextOf(body),
                payload |-> LengthOf(Dropped(rest, Bit(options.qos > 0, 2)))]
            @@ (IF options.qos > 0 THEN [pid |-> NumberOf(SubSeq(rest, 1, 2))] ELSE <<>>)

(* basic_header_packet_id_message: PUBACK, PUBREC, PUBREL, PUBCOMP, UNSUBACK *)
PacketIdBody(p) == TwoBytes(p.pid)

StoredPubrel(bytes) == [type |-> "pubrel", pid |-> NumberOf(Dropped(bytes, 2))]

SubscribeLength(p) == 2 + FoldLeft(LAMBDA n, size : n + 2 + size + 1, 0, p.filter)

SubscribeBody(p) ==
    TwoBytes(p.pid)
        \o FlattenSeq([i \in DOMAIN p.filter |-> Counted(p.filter[i]) \o <<p.options[i]>>])

SubackLength(p) == Len(p.codes) + 2

SubackBody(p) == TwoBytes(p.pid) \o p.codes

UnsubscribeLength(p) == 2 + FoldLeft(LAMBDA n, size : n + 2 + size, 0, p.filter)

UnsubscribeBody(p) ==
    TwoBytes(p.pid) \o FlattenSeq([i \in DOMAIN p.filter |-> Counted(p.filter[i])])

RemainingLength(p) ==
    CASE p.type = "connect"     -> ConnectLength(p)
      [] p.type = "publish"     -> PublishLength(p)
      [] p.type = "subscribe"   -> SubscribeLength(p)
      [] p.type = "suback"      -> SubackLength(p)
      [] p.type = "unsubscribe" -> UnsubscribeLength(p)
      [] p.type \in {"connack", "puback", "pubrec", "pubrel", "pubcomp", "unsuback"} -> 2
      [] OTHER                  -> 0      \* header_only_message

Body(p) ==
    CASE p.type = "connect"     -> ConnectBody(p)
      [] p.type = "connack"     -> ConnackBody(p)
      [] p.type = "publish"     -> PublishBody(p)
      [] p.type = "subscribe"   -> SubscribeBody(p)
      [] p.type = "suback"      -> SubackBody(p)
      [] p.type = "unsubscribe" -> UnsubscribeBody(p)
      [] p.type \in {"puback", "pubrec", "pubrel", "pubcomp", "unsuback"} -> PacketIdBody(p)
      [] OTHER                  -> <<>>
=============================================================================
