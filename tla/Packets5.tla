------------------------------ MODULE Packets5 -----------------------------
(***************************************************************************)
(* v5_message.hpp: for every class of control packet, the remaining length *)
(* its constructor computes and the bytes its const_buffer_sequence() lays *)
(* out, two pieces of code that have to agree; and what is kept in the     *)
(* store, continuous_buffer(), with the constructors that read it back.    *)
(***************************************************************************)
EXTENDS PacketBytes

CONSTANT
    AlwaysSendReasonCode    \* MQTT_ALWAYS_SEND_REASON_CODE, an option of the build

BlockSize(props) == Len(VariableBytes(PropertiesSize(props))) + PropertiesSize(props)

Block(props) == VariableBytes(PropertiesSize(props)) \o PropertiesBytes(props)

Success == 0    \* the reason code success, and normal_disconnection

-----------------------------------------------------------------------------
(* CONNECT and CONNACK *)

ConnectLength(p) ==
    10 + 2 + p.client_id + BlockSize(p.props)
       + (IF "user_name" \in DOMAIN p THEN 2 + p.user_name ELSE 0)
       + (IF "password" \in DOMAIN p THEN 2 + p.password ELSE 0)
       + (IF "will_topic" \in DOMAIN p
          THEN BlockSize(p.will_props) + 2 + p.will_topic + 2 + p.will_message ELSE 0)

ConnectBody(p) ==
    <<0, 4, 77, 81, 84, 84, 5, ConnectFlags(p)>> \o TwoBytes(p.keep_alive)
        \o Block(p.props) \o Counted(p.client_id)
        \o IfHas(p, "will_topic",
                 Block(p.will_props) \o Counted(p.will_topic) \o Counted(p.will_message))
        \o IfHas(p, "user_name", Counted(p.user_name))
        \o IfHas(p, "password", Counted(p.password))

ConnackLength(p) == 2 + BlockSize(p.props)

ConnackBody(p) == <<Bit(p.present, 1), p.reason>> \o Block(p.props)

-----------------------------------------------------------------------------
(* PUBLISH *)

PublishLength(p) ==
    2 + p.topic + Bit(p.qos > 0, 2) + p.payload + BlockSize(p.props)

PublishBody(p) ==
    Counted(p.topic) \o (IF p.qos > 0 THEN TwoBytes(p.pid) ELSE <<>>)
        \o Block(p.props) \o Text(p.payload)

(* What a publish is stored as: continuous_buffer() *)
ContinuousPublish(p) ==
    TwoBytes(p.topic) \o Text(p.topic) \o (IF p.qos > 0 THEN TwoBytes(p.pid) ELSE <<>>)
        \o VariableBytes(PropertiesSize(p.props)) \o PropertiesBytes(p.props) \o Text(p.payload)

(* The message constructed from a stored buffer *)
StoredPublish(bytes) ==
    LET options == PublishOptions(bytes[1])
        body    == Dropped(bytes, 1 + VariableEnd(Tail(bytes)))
        rest    == Dropped(body, 2 + CountOf(body))
        block   == Dropped(rest, Bit(options.qos > 0, 2))
        content == Dropped(block, VariableEnd(block))
        size    == VariableValue(block)
    IN  options
            @@ [type    |-> "publish",
                topic   |-> TextOf(body),
                props   |-> ParsedProperties(SubSeq(content, 1, size)),
                payload |-> LengthOf(Dropped(content, size))]
            @@ (IF options.qos > 0 THEN [pid |-> NumberOf(SubSeq(rest, 1, 2))] ELSE <<>>)

(* A topic alias replaces the topic of a message that is there already. Its
   remaining length is adjusted, never computed anew: by what a property adds,
   but not by what the property length's own bytes add. *)
Composed(p) == [packet |-> p, remaining |-> PublishLength(p)]

WithProp(m, property) ==
    [packet    |-> [m.packet EXCEPT !.props = Append(@, property)],
     remaining |-> m.remaining + PropertySize(property)]

WithTopic(m, topic) ==
    [packet    |-> [m.packet EXCEPT !.topic = topic],
     remaining |-> m.remaining - m.packet.topic + topic]

-----------------------------------------------------------------------------
(* When the reason is success and the build does not send it always, the
   reason code is left out, and with it the properties. *)
WritesReason(p) == p.reason # Success \/ AlwaysSendReasonCode

(* The answers: the property length is left out when there are no properties. *)

AnswerLength(p) ==
    2 + (IF ~WritesReason(p) THEN 0
         ELSE IF p.props = <<>> THEN 1 ELSE 1 + BlockSize(p.props))

AnswerBody(p) ==
    TwoBytes(p.pid) \o
        (IF ~WritesReason(p) THEN <<>>
         ELSE <<p.reason>> \o IF p.props = <<>> THEN <<>> ELSE Block(p.props))

PubackLength(p) == AnswerLength(p)
PubackBody(p) == AnswerBody(p)

PubrecLength(p) == AnswerLength(p)
PubrecBody(p) == AnswerBody(p)

PubrelLength(p) == AnswerLength(p)
PubrelBody(p) == AnswerBody(p)

PubcompLength(p) == AnswerLength(p)
PubcompBody(p) == AnswerBody(p)

(* Mutant: the property length left out, as in the other classes *)
ContinuousPubrelUnsized(p) ==
    TwoBytes(p.pid) \o
        (IF ~WritesReason(p) THEN <<>> ELSE <<p.reason>> \o PropertiesBytes(p.props))

ContinuousPubrel(p) ==
    TwoBytes(p.pid) \o
        (IF ~WritesReason(p) THEN <<>>
         ELSE <<p.reason>> \o IF p.props = <<>> THEN <<>> ELSE Block(p.props))

StoredPubrel(bytes) ==
    LET body   == Dropped(bytes, 1 + VariableEnd(Tail(bytes)))
        rest   == Dropped(body, 3)
        packet == [type |-> "pubrel", pid |-> NumberOf(SubSeq(body, 1, 2))]
    IN  IF Len(body) = 2 THEN packet @@ [reason |-> Success, props |-> <<>>]
        ELSE packet @@ [reason |-> body[3],
                        props  |-> IF rest = <<>> THEN <<>>
                                   ELSE ParsedProperties(Dropped(rest, VariableEnd(rest)))]

-----------------------------------------------------------------------------
(* SUBSCRIBE, UNSUBSCRIBE and their answers *)

SubscribeLength(p) ==
    2 + BlockSize(p.props) + FoldLeft(LAMBDA n, size : n + 2 + size + 1, 0, p.filter)

SubscribeBody(p) ==
    TwoBytes(p.pid) \o Block(p.props)
        \o FlattenSeq([i \in DOMAIN p.filter |-> Counted(p.filter[i]) \o <<p.options[i]>>])

SubackLength(p) == Len(p.codes) + 2 + BlockSize(p.props)

SubackBody(p) == TwoBytes(p.pid) \o Block(p.props) \o p.codes

UnsubscribeLength(p) ==
    2 + BlockSize(p.props) + FoldLeft(LAMBDA n, size : n + 2 + size, 0, p.filter)

UnsubscribeBody(p) ==
    TwoBytes(p.pid) \o Block(p.props)
        \o FlattenSeq([i \in DOMAIN p.filter |-> Counted(p.filter[i])])

UnsubackLength(p) == Len(p.codes) + 2 + BlockSize(p.props)

UnsubackBody(p) == TwoBytes(p.pid) \o Block(p.props) \o p.codes

-----------------------------------------------------------------------------
(* DISCONNECT and AUTH *)

DisconnectLength(p) == IF WritesReason(p) THEN 1 + BlockSize(p.props) ELSE 0

DisconnectBody(p) == IF WritesReason(p) THEN <<p.reason>> \o Block(p.props) ELSE <<>>

AuthLength(p) == IF WritesReason(p) THEN 1 + BlockSize(p.props) ELSE 0

AuthBody(p) == IF WritesReason(p) THEN <<p.reason>> \o Block(p.props) ELSE <<>>

-----------------------------------------------------------------------------
RemainingLength(p) ==
    CASE p.type = "connect"     -> ConnectLength(p)
      [] p.type = "connack"     -> ConnackLength(p)
      [] p.type = "publish"     -> PublishLength(p)
      [] p.type = "puback"      -> PubackLength(p)
      [] p.type = "pubrec"      -> PubrecLength(p)
      [] p.type = "pubrel"      -> PubrelLength(p)
      [] p.type = "pubcomp"     -> PubcompLength(p)
      [] p.type = "subscribe"   -> SubscribeLength(p)
      [] p.type = "suback"      -> SubackLength(p)
      [] p.type = "unsubscribe" -> UnsubscribeLength(p)
      [] p.type = "unsuback"    -> UnsubackLength(p)
      [] p.type = "disconnect"  -> DisconnectLength(p)
      [] p.type = "auth"        -> AuthLength(p)
      [] OTHER                  -> 0

Body(p) ==
    CASE p.type = "connect"     -> ConnectBody(p)
      [] p.type = "connack"     -> ConnackBody(p)
      [] p.type = "publish"     -> PublishBody(p)
      [] p.type = "puback"      -> PubackBody(p)
      [] p.type = "pubrec"      -> PubrecBody(p)
      [] p.type = "pubrel"      -> PubrelBody(p)
      [] p.type = "pubcomp"     -> PubcompBody(p)
      [] p.type = "subscribe"   -> SubscribeBody(p)
      [] p.type = "suback"      -> SubackBody(p)
      [] p.type = "unsubscribe" -> UnsubscribeBody(p)
      [] p.type = "unsuback"    -> UnsubackBody(p)
      [] p.type = "disconnect"  -> DisconnectBody(p)
      [] p.type = "auth"        -> AuthBody(p)
      [] OTHER                  -> <<>>
=============================================================================
