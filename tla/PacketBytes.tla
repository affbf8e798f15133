---------------------------- MODULE PacketBytes ----------------------------
(***************************************************************************)
(* The bytes control packets are made of: numbers, counted texts, variable *)
(* length integers and the MQTT v5 properties. Only the length of a text   *)
(* matters, so a text is a number n and its bytes are n times Letter; a    *)
(* property is [id, value], value a number, a length, or the two lengths   *)
(* of a user property. A packet is a record; a field it does not carry is  *)
(* not in its DOMAIN.                                                      *)
(***************************************************************************)
EXTENDS Integers, SequencesExt

Letter == 97

Text(n) == [i \in 1..n |-> Letter]

(* What a reader makes of the bytes of a text; -1 if they are not one. *)
LengthOf(bytes) == IF \A i \in DOMAIN bytes : bytes[i] = Letter THEN Len(bytes) ELSE -1

Dropped(bytes, n) == SubSeq(bytes, n + 1, Len(bytes))

TwoBytes(n) == <<(n \div 256) % 256, n % 256>>

FourBytes(n) == TwoBytes(n \div 65536) \o TwoBytes(n)

NumberOf(bytes) == FoldLeft(LAMBDA n, b : (256 * n) + b, 0, bytes)

(* variable_bytes: groups of 7 bits, the lowest first, all but the last marked
   128. A size beyond four groups leaves no bytes. *)
Groups(n) == 1 + Cardinality({k \in 1..3 : n >= 128 ^ k})

VariableBytes(n) ==
    [i \in 1..(IF n > 268435455 THEN 0 ELSE Groups(n)) |->
        ((n \div (128 ^ (i - 1))) % 128) + (IF i < Groups(n) THEN 128 ELSE 0)]

(* variable_length: where the first integer of the bytes ends, and its value *)
VariableEnd(bytes) ==
    CHOOSE i \in 1..Len(bytes) : bytes[i] < 128 /\ \A j \in 1..(i - 1) : bytes[j] >= 128

VariableValue(bytes) ==
    FoldRight(LAMBDA b, n : (b % 128) + (128 * n), SubSeq(bytes, 1, VariableEnd(bytes)), 0)

Counted(n) == TwoBytes(n) \o Text(n)

CountOf(bytes) == NumberOf(SubSeq(bytes, 1, 2))

-----------------------------------------------------------------------------
(* Properties *)

(* What a property's class derives from: n_bytes_property of so many bytes, a
   string or binary property, a variable length one, or a pair of strings. *)
MessageClasses == [id \in {1, 2, 3, 8, 9, 11} |->
    CASE id = 1 -> "one" [] id = 2 -> "four" [] id = 11 -> "variable" [] OTHER -> "text"]

SessionClasses == [id \in {17, 18, 19, 21, 22, 23, 24} |->
    CASE id = 19 -> "two" [] id = 23 -> "one" [] id \in {17, 24} -> "four" [] OTHER -> "text"]

ServerClasses == [id \in {25, 26, 28, 31, 33, 34, 35, 36, 37} |->
    CASE id \in {33, 34, 35} -> "two" [] id \in {25, 36, 37} -> "one" [] OTHER -> "text"]

OtherClasses == [id \in {38, 39, 40, 41, 42} |->
    CASE id = 38 -> "pair" [] id = 39 -> "four" [] OTHER -> "one"]

Class == MessageClasses @@ SessionClasses @@ ServerClasses @@ OtherClasses

Width(class) == CASE class = "one" -> 1 [] class = "two" -> 2 [] class = "four" -> 4

(* add_const_buffer_sequence and fill *)
FixedProperty(class, value) ==
    CASE class = "one"  -> <<value>>
      [] class = "two"  -> TwoBytes(value)
      [] class = "four" -> FourBytes(value)

TextProperty(n) == Counted(n)

VariableProperty(value) == VariableBytes(value)

UserProperty(value) == Counted(value[1]) \o Counted(value[2])

PropertyBytes(p) ==
    <<p.id>> \o CASE Class[p.id] = "text"     -> TextProperty(p.value)
                  [] Class[p.id] = "variable" -> VariableProperty(p.value)
                  [] Class[p.id] = "pair"     -> UserProperty(p.value)
                  [] OTHER                    -> FixedProperty(Class[p.id], p.value)

(* size() *)
FixedSize(class) == 1 + Width(class)

TextSize(n) == 1 + 2 + n

VariableSize(value) == 1 + Groups(value)

UserSize(value) == 1 + 2 + value[1] + 2 + value[2]

PropertySize(p) ==
    CASE Class[p.id] = "text"     -> TextSize(p.value)
      [] Class[p.id] = "variable" -> VariableSize(p.value)
      [] Class[p.id] = "pair"     -> UserSize(p.value)
      [] OTHER                    -> FixedSize(Class[p.id])

PropertiesSize(props) == FoldLeft(LAMBDA n, p : n + PropertySize(p), 0, props)

PropertiesBytes(props) == FlattenSeq([i \in DOMAIN props |-> PropertyBytes(props[i])])

-----------------------------------------------------------------------------
(* property::parse, of bytes kept in the store. parse_one takes the next
   property off the front, or nothing if the bytes do not hold one. *)
ParseWidth == [id \in {1, 23, 25, 36, 37, 40, 41, 42} |-> 1] @@ [id \in {19, 33, 34, 35} |-> 2]
                  @@ [id \in {2, 17, 24, 39} |-> 4]

ParseText == {3, 8, 9, 18, 21, 22, 26, 28, 31}

Nothing == [ok |-> FALSE]

Parsed(id, value, size) == [ok |-> TRUE, property |-> [id |-> id, value |-> value], size |-> size]

ParsedFixed(id, body) ==
    IF Len(body) < ParseWidth[id] THEN Nothing
    ELSE Parsed(id, NumberOf(SubSeq(body, 1, ParseWidth[id])), 1 + ParseWidth[id])

WholeText(body) == Len(body) >= 2 /\ Len(body) >= 2 + CountOf(body)

TextOf(body) == LengthOf(SubSeq(body, 3, 2 + CountOf(body)))

ParsedText(id, body) ==
    IF ~WholeText(body) THEN Nothing ELSE Parsed(id, TextOf(body), 3 + CountOf(body))

ParsedUserProperty(id, body) ==
    LET val == Dropped(body, 2 + CountOf(body))
    IN  IF ~WholeText(body) \/ ~WholeText(val) THEN Nothing
        ELSE Parsed(id, <<TextOf(body), TextOf(val)>>, 5 + CountOf(body) + CountOf(val))

ParsedVariable(id, body) == Parsed(id, VariableValue(body), 1 + VariableEnd(body))

ParsedOne(bytes) ==
    LET id   == bytes[1]
        body == Tail(bytes)
    IN  CASE bytes = <<>>              -> Nothing
          [] id \in DOMAIN ParseWidth  -> ParsedFixed(id, body)
          [] id \in ParseText          -> ParsedText(id, body)
          [] id = 38                   -> ParsedUserProperty(id, body)
          [] id = 11                   -> ParsedVariable(id, body)
          [] OTHER                     -> Nothing

ParsedProperties(bytes) ==
    LET from[i \in 1..(Len(bytes) + 1)] ==
            LET one == ParsedOne(Dropped(bytes, i - 1))
            IN  IF one.ok THEN <<one.property>> \o from[i + one.size] ELSE <<>>
    IN  from[1]

-----------------------------------------------------------------------------
(* The first byte *)

Types == <<"connect", "connack", "publish", "puback", "pubrec", "pubrel", "pubcomp",
           "subscribe", "suback", "unsubscribe", "unsuback", "pingreq", "pingresp",
           "disconnect", "auth">>

ReservedBits(type) == IF type \in {"pubrel", "subscribe", "unsubscribe"} THEN 2 ELSE 0

FixedHeader(type, flags) ==
    16 * (CHOOSE code \in DOMAIN Types : Types[code] = type) + flags

(* get_control_packet_type, of a byte whose upper half is not 0 *)
TypeOf(fixed) == Types[fixed \div 16]

(* get_control_packet_type_with_check *)
IsControlPacket(fixed) ==
    /\ fixed >= 16
    /\ TypeOf(fixed) # "publish" => fixed % 16 = ReservedBits(TypeOf(fixed))

Bit(condition, value) == IF condition THEN value ELSE 0

PublishFlags(p) == Bit(p.dup, 8) + 2 * p.qos + Bit(p.retain, 1)

PublishOptions(fixed) ==
    [dup |-> (fixed \div 8) % 2 = 1, qos |-> (fixed \div 2) % 4, retain |-> fixed % 2 = 1]

ConnectFlags(p) ==
    Bit(p.clean, 2) + Bit("user_name" \in DOMAIN p, 128) + Bit("password" \in DOMAIN p, 64)
        + (IF "will_topic" \in DOMAIN p
           THEN 4 + 8 * p.will_qos + Bit(p.will_retain, 32) ELSE 0)

HasFlag(flags, value) == (flags \div value) % 2 = 1

(* A field some packets of a class have and others have not *)
IfHas(p, field, bytes) == IF field \in DOMAIN p THEN bytes ELSE <<>>
=============================================================================
