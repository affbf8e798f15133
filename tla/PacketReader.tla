---------------------------- MODULE PacketReader ----------------------------
(***************************************************************************)
(* One direction of a connection: control packets written with the message *)
(* classes, and the endpoint of the other end that reads them. The reader  *)
(* is a chain of asynchronous reads, each asking for a number of bytes:    *)
(* todo is what its coroutine still has to read, innermost first. A short  *)
(* packet is read into a buffer at once and taken apart from there, so is  *)
(* a short block of properties; otherwise every field is a read of its     *)
(* own. The two ways must come to the same.                                *)
(***************************************************************************)
EXTENDS PacketBytes

CONSTANTS
    AlwaysSendReasonCode,   \* MQTT_ALWAYS_SEND_REASON_CODE: ON in the repository's build
    Openings,       \* Openings[v][e]: what is sent first to e, a server or a client, in version v
    Followers,      \* Followers[v][e]: what may be sent after that
    Aliases,        \* topic alias properties the sender may put into a publish
    BulkLimits,     \* values of packet_bulk_read_limit_
    PropsLimits,    \* values of props_bulk_read_limit_
    Uninitialized,  \* values a reason code nobody set may have
    Cuts,           \* how many of the bytes under way a broken connection may lose
    MaxSent         \* bound: packets sent

P5 == INSTANCE Packets5
P311 == INSTANCE Packets311

ASSUME ReaderAssumption ==
    /\ AlwaysSendReasonCode \in BOOLEAN
    /\ BulkLimits \subseteq Nat /\ PropsLimits \subseteq Nat
    /\ Uninitialized \subseteq 0..255
    /\ Cuts \subseteq Nat
    /\ MaxSent \in Nat

Versions == {4, 5}
Undetermined == 0

VARIABLES
    conn,           \* the version, who reads, and the reader's limits: never changes
    open, lost,     \* whether the connection is up; the bytes it lost when it broke
    wire,           \* bytes under way, or in the socket's buffer
    rd,             \* the reader
    sent, handled   \* history: packets written, and packets given to the handlers

vars == <<conn, open, lost, wire, rd, sent, handled>>

Idle(version, connected) ==
    [todo |-> <<"fixed">>, version |-> version, connected |-> connected,
     fixed |-> 0, rest |-> 0, multiplier |-> 1, number |-> 0, buf |-> <<>>,
     left |-> 0, property |-> 0, key |-> 0, props |-> <<>>, got |-> <<>>]

Init ==
    /\ conn \in [version : Versions, reader : {"server", "client"},
                 bulk : BulkLimits, props_bulk : PropsLimits]
    /\ open = TRUE /\ lost = 0
    /\ wire = <<>>
    /\ rd = Idle(IF conn.reader = "server" THEN Undetermined ELSE conn.version, FALSE)
    /\ sent = <<>> /\ handled = <<>>

-----------------------------------------------------------------------------
(* The writer *)

RemainingLength(p) ==
    IF conn.version = 5 THEN P5!RemainingLength(p) ELSE P311!RemainingLength(p)

Flags(p) == IF p.type = "publish" THEN PublishFlags(p) ELSE ReservedBits(p.type)

Framed(p, remaining, body) ==
    <<FixedHeader(p.type, Flags(p))>> \o VariableBytes(remaining) \o body

Body(p) == IF conn.version = 5 THEN P5!Body(p) ELSE P311!Body(p)

Bytes(p) == Framed(p, RemainingLength(p), Body(p))

MaySend(p) ==
    /\ open
    /\ Len(sent) < MaxSent
    /\ sent = <<>> <=> p \in Openings[conn.version][conn.reader]
    /\ sent # <<>> => Last(sent).type # "disconnect"

Write(p, remaining) ==
    /\ sent' = Append(sent, p)
    /\ wire' = wire \o Framed(p, remaining, Body(p))
    /\ UNCHANGED <<conn, open, lost, rd, handled>>

(* do_sync_write, do_async_write *)
Send(p) == MaySend(p) /\ Write(p, RemainingLength(p))

(* apply_topic_alias: a new alias is added, or takes the topic's place *)
SendAliased(p, alias) ==
    /\ conn.version = 5 /\ p.type = "publish"
    /\ MaySend(p)
    /\ \E m \in {P5!WithProp(P5!Composed(p), alias),
                 P5!WithProp(P5!WithTopic(P5!Composed(p), 0), alias)} :
          Write(m.packet, m.remaining)

(* The connection breaks, and the last bytes written do not arrive. *)
Break ==
    /\ open
    /\ open' = FALSE
    /\ lost' \in {n \in Cuts : n <= Len(wire)}
    /\ wire' = SubSeq(wire, 1, Len(wire) - lost')
    /\ UNCHANGED <<conn, rd, sent, handled>>

-----------------------------------------------------------------------------
(* The reader: what it waits for *)

Item == Head(rd.todo)

Source == IF rd.buf = <<>> THEN wire ELSE rd.buf

ReadsAll == rd.rest < conn.bulk      \* all_read

HeaderLength(type) ==
    CASE type = "connect" -> 10 [] type = "publish" -> 0 [] OTHER -> 2

TextItems == {"client_id", "will_topic", "will_message", "user_name", "password",
              "topic", "filter", "key", "text"}

BodyItems == {"payload", "codes"}

ByteItems == {"reason", "options"}

(* Which process_... a case of process_property_body calls, and for how much *)
MessageBody == [id \in {1, 2, 3, 8, 9} |->
    CASE id = 1 -> "one" [] id = 2 -> "four" [] OTHER -> "text"]

SessionBody == [id \in {11, 17, 18, 19, 21, 22} |->
    CASE id = 11 -> "variable" [] id = 17 -> "four" [] id = 19 -> "two" [] OTHER -> "text"]

RequestBody == [id \in {23, 24, 25, 26, 28} |->
    CASE id \in {23, 25} -> "one" [] id = 24 -> "four" [] OTHER -> "text"]

LimitBody == [id \in {31, 33, 34, 35} |-> IF id = 31 THEN "text" ELSE "two"]

ServerBody == [id \in {36, 37, 38} |-> IF id = 38 THEN "pair" ELSE "one"]

AvailableBody == [id \in {39, 40, 41, 42} |-> IF id = 39 THEN "four" ELSE "one"]

BodyOf == MessageBody @@ SessionBody @@ RequestBody @@ LimitBody @@ ServerBody @@ AvailableBody

(* The size of the asynchronous read the endpoint waits in *)
Wanted ==
    CASE Item \in {"fixed", "length", "proplength", "property", "variable"} -> 1
      [] Item \in ByteItems       -> 1
      [] Item \in {"size", "pid"} -> 2
      [] Item \in TextItems       -> rd.number
      [] Item \in BodyItems       -> rd.rest
      [] Item = "header"    -> IF ReadsAll THEN rd.rest ELSE HeaderLength(TypeOf(rd.fixed))
      [] Item = "propblock" -> IF rd.left < conn.props_bulk THEN rd.left ELSE 1
      [] Item = "value"     -> Width(BodyOf[rd.property])

Chunk == SubSeq(Source, 1, Wanted)

Byte == Source[1]

-----------------------------------------------------------------------------
(* The coroutines: what they read, in what order *)

PropertiesPlan(field, version) == IF version = 5 THEN <<"proplength", field>> ELSE <<>>

Answers == {"puback", "pubrec", "pubrel", "pubcomp"}

(* process_payload: which packets may come before CONNECT or CONNACK *)
AlwaysAllowed == {"connect", "connack", "disconnect", "auth"}

(* Mutant: an answer needs a reason code. *)
MinLengthAnswer(type) ==
    CASE type = "connect" -> 10
      [] type \in {"pingreq", "pingresp", "disconnect", "auth"} -> 0
      [] type \in Answers -> 3
      [] OTHER -> 2

MinLength(type) ==
    CASE type = "connect" -> 10
      [] type \in {"pingreq", "pingresp", "disconnect", "auth"} -> 0
      [] OTHER -> 2

(* handle_remaining_length: v3.1.1 knows the length of most packets. *)
LengthFits(r) ==
    LET type == TypeOf(r.fixed)
    IN  CASE type \in {"pingreq", "pingresp"} -> r.rest = 0
          [] r.version = 4 /\ type = "disconnect" -> r.rest = 0
          [] r.version = 4 /\ type = "auth" -> FALSE
          [] r.version = 4 /\ type \in Answers \union {"connack", "unsuback"} -> r.rest = 2
          [] OTHER -> TRUE

(* Mutant: the user name before the will *)
ConnectPlanUserFirst(r, flags) ==
    PropertiesPlan("props", r.version) \o <<"size", "client_id">>
        \o (IF HasFlag(flags, 128) THEN <<"size", "user_name">> ELSE <<>>)
        \o (IF HasFlag(flags, 4)
            THEN PropertiesPlan("will_props", r.version)
                     \o <<"size", "will_topic", "size", "will_message">>
            ELSE <<>>)
        \o (IF HasFlag(flags, 64) THEN <<"size", "password">> ELSE <<>>)

ConnectPlan(r, flags) ==
    PropertiesPlan("props", r.version) \o <<"size", "client_id">>
        \o (IF HasFlag(flags, 4)
            THEN PropertiesPlan("will_props", r.version)
                     \o <<"size", "will_topic", "size", "will_message">>
            ELSE <<>>)
        \o (IF HasFlag(flags, 128) THEN <<"size", "user_name">> ELSE <<>>)
        \o (IF HasFlag(flags, 64) THEN <<"size", "password">> ELSE <<>>)

PublishPlan(r) ==
    <<"header", "size", "topic">>
        \o (IF PublishOptions(r.fixed).qos > 0 THEN <<"pid">> ELSE <<>>)
        \o PropertiesPlan("props", r.version) \o <<"payload">>

PubackPlan == <<"header", "pid">>

PubrecPlan == <<"header", "pid">>

PubrelPlan == <<"header", "pid">>

PubcompPlan == <<"header", "pid">>

PingPlan == <<>>

SubscribePlan(r) ==
    <<"header", "pid">> \o PropertiesPlan("props", r.version) \o <<"size", "filter", "options">>

SubackPlan(r) == <<"header", "pid">> \o PropertiesPlan("props", r.version) \o <<"codes">>

UnsubscribePlan(r) ==
    <<"header", "pid">> \o PropertiesPlan("props", r.version) \o <<"size", "filter">>

UnsubackPlan(r) ==
    <<"header", "pid">> \o (IF r.version = 5 THEN <<"proplength", "props", "codes">> ELSE <<>>)

DisconnectPlan(r) ==
    CASE r.rest = 0    -> <<>>
      [] r.version # 5 -> <<"failed">>
      [] OTHER         -> <<"header", "reason">>

AuthPlan(r) ==
    CASE r.version # 5 -> <<"failed">>
      [] r.rest = 0    -> <<>>
      [] OTHER         -> <<"header", "reason", "proplength", "props">>

Plan(r) ==
    LET type == TypeOf(r.fixed)
    IN  CASE type \in {"connect", "connack"}   -> <<"header">>
          [] type = "publish"     -> PublishPlan(r)
          [] type = "puback"      -> PubackPlan
          [] type = "pubrec"      -> PubrecPlan
          [] type = "pubrel"      -> PubrelPlan
          [] type = "pubcomp"     -> PubcompPlan
          [] type = "subscribe"   -> SubscribePlan(r)
          [] type = "suback"      -> SubackPlan(r)
          [] type = "unsubscribe" -> UnsubscribePlan(r)
          [] type = "unsuback"    -> UnsubackPlan(r)
          [] type = "disconnect"  -> DisconnectPlan(r)
          [] type = "auth"        -> AuthPlan(r)
          [] OTHER                -> PingPlan

(* Some coroutines look at remaining_length_ to see whether more follows. *)
More(r) ==
    LET type == TypeOf(r.fixed)
        has(field) == field \in DOMAIN r.got
    IN  CASE r.rest = 0 -> <<>>
          [] type \in Answers /\ ~has("reason") -> <<"reason">>
          [] type \in Answers \union {"disconnect"} /\ ~has("props") -> <<"proplength", "props">>
          [] type = "subscribe"   -> <<"size", "filter", "options">>
          [] type = "unsubscribe" -> <<"size", "filter">>
          [] OTHER -> <<>>

(* What is known before the first read of the coroutine *)
FirstGot(r) ==
    CASE TypeOf(r.fixed) = "publish"     -> PublishOptions(r.fixed)
      [] TypeOf(r.fixed) = "subscribe"   -> [filter |-> <<>>, options |-> <<>>]
      [] TypeOf(r.fixed) = "unsubscribe" -> [filter |-> <<>>]
      [] OTHER -> <<>>

Put(got, field, value) ==
    IF field \in {"filter", "options"} THEN [got EXCEPT ![field] = Append(@, value)]
    ELSE got @@ (field :> value)

(* Values of the members the coroutine never assigned *)
Defaults(r) ==
    LET type == TypeOf(r.fixed)
    IN  IF r.version # 5 THEN {<<>>}
        ELSE IF type \in Answers THEN {[reason |-> 0, props |-> <<>>]}
        ELSE IF type \in {"disconnect", "auth"}
             THEN {[reason |-> u, props |-> <<>>] : u \in Uninitialized}
        ELSE {<<>>}

-----------------------------------------------------------------------------
(* The reader: its steps *)

Rejected(r) == [r EXCEPT !.todo = <<"failed">>]

Unread(r, items) == [r EXCEPT !.todo = items \o @]

(* The coroutine is done: the handler is called, and the next packet is waited
   for. A DISCONNECT shuts the socket down instead. *)
Completed(r) ==
    CASE TypeOf(r.fixed) = "disconnect" -> [Idle(r.version, FALSE) EXCEPT !.todo = <<"closed">>]
      [] TypeOf(r.fixed) \in {"connect", "connack"} -> Idle(r.version, TRUE)
      [] OTHER -> Idle(r.version, r.connected)

Resume(r) ==
    IF r.todo # <<>> THEN rd' = r /\ UNCHANGED handled
    ELSE IF More(r) # <<>> THEN rd' = Unread(r, More(r)) /\ UNCHANGED handled
    ELSE /\ rd' = Completed(r)
         /\ \E rest \in Defaults(r) :
               handled' = Append(handled, r.got @@ rest @@ [type |-> TypeOf(r.fixed)])

(* A read completes, from the buffer if there is one, and leads to r. *)
Advance(r) ==
    /\ Len(Source) >= Wanted
    /\ wire' = IF rd.buf = <<>> THEN Dropped(wire, Wanted) ELSE wire
    /\ Resume(r)
    /\ UNCHANGED <<conn, open, lost, sent>>

(* The reader after its read, the bytes of which count for the packet or not *)
Took(charge) ==
    [rd EXCEPT !.todo = Tail(@), !.buf = Dropped(@, Wanted), !.rest = @ - charge]

(* The read fills the buffer instead. *)
Filled == [rd EXCEPT !.todo = Tail(@), !.buf = Chunk]

(* A field may not be longer than what is left of its packet. *)
AdvanceWithin(r) ==
    IF rd.rest < Wanted \/ (rd.buf # <<>> /\ Len(rd.buf) < Wanted)
    THEN rd' = Rejected(rd) /\ UNCHANGED <<conn, open, lost, wire, sent, handled>>
    ELSE Advance(r)

ReadFixedHeader ==
    /\ Item = "fixed"
    /\ Advance([Took(0) EXCEPT !.fixed = Byte, !.todo = <<"length">>])

Started(r) ==
    IF ~LengthFits(r) \/ r.rest < MinLength(TypeOf(r.fixed))
          \/ ~(r.connected \/ TypeOf(r.fixed) \in AlwaysAllowed)
    THEN Rejected(r)
    ELSE [r EXCEPT !.todo = Plan(r), !.got = FirstGot(r), !.multiplier = 1]

ReadRemainingLength ==
    LET r == [Took(0) EXCEPT !.rest = @ + ((Byte % 128) * rd.multiplier), !.multiplier = @ * 128]
    IN  /\ Item = "length"
        /\ Advance(IF r.multiplier > 128 ^ 4 THEN Rejected(r)
                   ELSE IF Byte >= 128 THEN Unread(r, <<"length">>)
                   ELSE IF ~IsControlPacket(r.fixed) THEN Rejected(r)
                   ELSE Started(r))

ReadConnectHeader ==
    LET flags == Chunk[8]
        r     == [Filled EXCEPT
                    !.version = Chunk[7],
                    !.buf     = Dropped(@, 10),
                    !.got     = [clean |-> HasFlag(flags, 2),
                                 keep_alive |-> NumberOf(SubSeq(Chunk, 9, 10))]
                                @@ IF HasFlag(flags, 4)
                                   THEN [will_qos |-> (flags \div 8) % 4,
                                         will_retain |-> HasFlag(flags, 32)]
                                   ELSE <<>>]
    IN  /\ Item = "header" /\ TypeOf(rd.fixed) = "connect"
        /\ Advance(IF \/ SubSeq(Chunk, 1, 6) # <<0, 4, 77, 81, 84, 84>>
                      \/ r.version \notin Versions
                      \/ rd.version \notin {Undetermined, r.version}
                   THEN Rejected(r) ELSE Unread(r, ConnectPlan(r, flags)))

ReadConnackHeader ==
    /\ Item = "header" /\ TypeOf(rd.fixed) = "connack"
    /\ Advance(Unread([Filled EXCEPT !.buf = Dropped(@, 2),
                                     !.got = [present |-> HasFlag(Chunk[1], 1),
                                              reason  |-> Chunk[2]]],
                      PropertiesPlan("props", rd.version)))

ReadHeader ==
    /\ Item = "header" /\ TypeOf(rd.fixed) \notin {"connect", "connack"}
    /\ Advance(Filled)

ReadPacketId ==
    LET pid == NumberOf(Chunk)
    IN  /\ Item = "pid"
        /\ AdvanceWithin(IF pid = 0 THEN Rejected(rd)
                         ELSE [Took(2) EXCEPT !.got = Put(@, "pid", pid)])

ReadSize == Item = "size" /\ AdvanceWithin([Took(2) EXCEPT !.number = NumberOf(Chunk)])

ReadText ==
    /\ Item \in TextItems \ {"key", "text"}
    /\ AdvanceWithin(IF Item = "topic" /\ PublishOptions(rd.fixed).qos = 3 THEN Rejected(rd)
                     ELSE [Took(Wanted) EXCEPT !.got = Put(@, Item, LengthOf(Chunk)),
                                               !.number = 0])

ReadByte ==
    /\ Item \in ByteItems
    /\ AdvanceWithin(IF Item = "options" /\ Byte % 4 = 3 THEN Rejected(rd)
                     ELSE [Took(1) EXCEPT !.got = Put(@, Item, Byte)])

(* The payload, or the reason codes: whatever is left *)
ReadBody ==
    /\ Item \in BodyItems
    /\ AdvanceWithin([Took(Wanted) EXCEPT
            !.got = Put(@, Item, IF Item = "payload" THEN LengthOf(Chunk) ELSE Chunk)])

-----------------------------------------------------------------------------
(* The reader: properties *)

(* process_property_id, up to its read: on top of todo is the field the
   properties are for. *)
NextProperty(r) ==
    IF r.left = 0 THEN [r EXCEPT !.got = Put(@, Head(r.todo), r.props), !.todo = Tail(@)]
    ELSE Unread(r, <<"property">>)

ReadPropertyLength ==
    LET r == [Took(1) EXCEPT !.number = @ + ((Byte % 128) * rd.multiplier), !.multiplier = @ * 128]
        s == [r EXCEPT !.left = r.number, !.number = 0, !.multiplier = 1, !.props = <<>>]
    IN  /\ Item = "proplength"
        /\ AdvanceWithin(IF r.multiplier > 128 ^ 4 THEN Rejected(r)
                         ELSE IF Byte >= 128 THEN Unread(r, <<"proplength">>)
                         ELSE IF s.left > s.rest THEN Rejected(s)
                         ELSE IF s.left > 0 /\ s.buf = <<>> THEN Unread(s, <<"propblock">>)
                         ELSE NextProperty(s))

ReadPropertyBlock == Item = "propblock" /\ Advance(NextProperty(Filled))

(* An identifier the switch does not know: no read and no handler follows. *)
BodyPlan(r) ==
    LET body == BodyOf[r.property]
    IN  CASE r.property \notin DOMAIN BodyOf -> Unread(r, <<"silent">>)
          [] body = "text"     -> Unread(r, <<"size", "text">>)
          [] body = "pair"     -> Unread(r, <<"size", "key", "size", "text">>)
          [] body = "variable" -> Unread(r, <<"variable">>)
          [] OTHER -> IF r.left < Width(body) THEN Rejected(r) ELSE Unread(r, <<"value">>)

ReadPropertyId ==
    LET r == [Took(1) EXCEPT !.property = Byte, !.left = @ - 1]
    IN  /\ Item = "property"
        /\ Advance(IF r.left = 0 THEN Rejected(r) ELSE BodyPlan(r))

WithProperty(r, value, size) ==
    NextProperty([r EXCEPT !.props = Append(@, [id |-> r.property, value |-> value]),
                           !.left = @ - size, !.number = 0, !.multiplier = 1])

ReadPropertyValue ==
    Item = "value" /\ AdvanceWithin(WithProperty(Took(Wanted), NumberOf(Chunk), Wanted))

ReadPropertyVariable ==
    LET r == [Took(1) EXCEPT !.number = @ + ((Byte % 128) * rd.multiplier), !.multiplier = @ * 128]
    IN  /\ Item = "variable"
        /\ AdvanceWithin(IF r.multiplier > 128 ^ 4 THEN Rejected(r)
                         ELSE IF Byte >= 128 THEN [Unread(r, <<"variable">>) EXCEPT !.left = @ - 1]
                         ELSE WithProperty(r, r.number, 1))

ReadPropertyKey ==
    /\ Item = "key"
    /\ AdvanceWithin([Took(Wanted) EXCEPT !.key = LengthOf(Chunk), !.left = @ - 2 - Wanted])

ReadPropertyText ==
    LET n     == LengthOf(Chunk)
        value == IF BodyOf[rd.property] = "pair" THEN <<rd.key, n>> ELSE n
    IN  /\ Item = "text"
        /\ AdvanceWithin(WithProperty(Took(Wanted), value, 2 + Wanted))

-----------------------------------------------------------------------------
Reading == Item \notin {"failed", "closed", "silent"}

(* check_error_and_transferred_length: the read never completes. *)
ReadFails ==
    /\ ~open /\ Reading
    /\ Len(Source) < Wanted
    /\ rd' = [rd EXCEPT !.todo = <<"closed">>, !.connected = FALSE]
    /\ UNCHANGED <<conn, open, lost, wire, sent, handled>>

Read == \/ ReadFixedHeader \/ ReadRemainingLength
        \/ ReadConnectHeader \/ ReadConnackHeader \/ ReadHeader
        \/ ReadPacketId \/ ReadSize \/ ReadText \/ ReadByte \/ ReadBody
        \/ ReadPropertyLength \/ ReadPropertyBlock \/ ReadPropertyId
        \/ ReadPropertyValue \/ ReadPropertyVariable
        \/ ReadPropertyKey \/ ReadPropertyText
        \/ ReadFails

Packets == Openings[conn.version][conn.reader] \union Followers[conn.version][conn.reader]

Next == \/ \E p \in Packets : Send(p) \/ (\E alias \in Aliases : SendAliased(p, alias))
        \/ Break
        \/ Read

(* The io_context runs every completion handler. *)
Fairness == WF_vars(Read)

Spec == Init /\ [][Next]_vars /\ Fairness

-----------------------------------------------------------------------------
(* Properties *)

Channel == INSTANCE PacketChannel

(* Packets reach the handlers whole, in order and once, and nothing else does,
   whether they and their properties are read in bulk or field by field. *)
ImplementsPacketChannel == Channel!Spec

BytesFrom(k) ==
    FlattenSeq([i \in 1..(Len(sent) + 1 - k) |-> Bytes(sent[k - 1 + i])])

Arrived == Cardinality({k \in DOMAIN sent : Len(BytesFrom(k + 1)) >= lost})

(* In the end the packets that arrived whole were handed over, and those that
   lost a byte to a broken connection were not. *)
WholeHandled == <>[](Len(handled) = Arrived)

(* The properties of a packet arrive with it, whatever its reason code. The
   classes of v5 answers, DISCONNECT and AUTH leave them out when the reason is
   success and the build does not send it always (const_buffer_sequence()). *)
PropertiesArrive ==
    \A i \in DOMAIN handled :
        "props" \in DOMAIN sent[i] => handled[i].props = sent[i].props

StoredBytes(p) ==
    Framed(p, RemainingLength(p),
           CASE p.type = "publish" /\ conn.version = 5 -> P5!ContinuousPublish(p)
             [] p.type = "publish" /\ conn.version = 4 -> P311!ContinuousPublish(p)
             [] p.type = "pubrel"  /\ conn.version = 5 -> P5!ContinuousPubrel(p)
             [] p.type = "pubrel"  /\ conn.version = 4 -> P311!PacketIdBody(p))

Restored(type, bytes) ==
    CASE type = "publish" /\ conn.version = 5 -> P5!StoredPublish(bytes)
      [] type = "publish" /\ conn.version = 4 -> P311!StoredPublish(bytes)
      [] type = "pubrel"  /\ conn.version = 5 -> P5!StoredPubrel(bytes)
      [] type = "pubrel"  /\ conn.version = 4 -> P311!StoredPubrel(bytes)

(* A publish or pubrel that is kept for resending is written the second time
   as it was the first: its stored form, read back, is a message with the same
   bytes on the connection. *)
StoredAsSent ==
    \A i \in DOMAIN sent : sent[i].type \in {"publish", "pubrel"} =>
        Bytes(Restored(sent[i].type, StoredBytes(sent[i]))) = Bytes(sent[i])
=============================================================================
