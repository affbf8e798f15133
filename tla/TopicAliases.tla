---------------------------- MODULE TopicAliases ----------------------------
(***************************************************************************)
(* Publishing with topic aliases, from one endpoint to another, over       *)
(* connections that break. An alias may be given by the application, or    *)
(* chosen by apply_topic_alias when a flag is set. Both ends keep a table: *)
(* the receiver's changes when a publish is read, the sender's when it is  *)
(* made, which need not be when it is written.                             *)
(***************************************************************************)
EXTENDS AliasTables, Integers

CONSTANTS
    Topics,
    Maxima,         \* topic alias maxima the receiver announces; 0: it announces none
    SendMax,        \* publish_send_max_, the receiver's Receive Maximum
    Oversized,      \* whether a publish exceeds the peer's maximum packet size: a set of BOOLEAN
    MaxPublishes,   \* bound: messages
    MaxConnects     \* bound: connections

ASSUME AliasAssumption ==
    /\ Topics # {} /\ None \notin Topics
    /\ Maxima \subseteq Nat
    /\ SendMax \in Nat \ {0}
    /\ Oversized \subseteq BOOLEAN
    /\ MaxPublishes \in Nat /\ MaxConnects \in Nat

VARIABLES
    mode,           \* manual; map, replace: auto_map_ or auto_replace_topic_alias_send_
    net,            \* down, up, or failed: the receiver found a protocol error
    send,           \* topic_alias_send_, or no table before the first maximum
    recv,           \* the receiver's topic_alias_recv_
    store,          \* QoS 1 messages not acknowledged
    queue,          \* publish_send_queue_
    count,          \* publish_send_count_
    wire, acks,     \* packets and pubacks under way
    meant,          \* history: the topic each message was published to
    delivered,      \* history: what the handler was given
    uses,           \* history: the aliases the sender used on this connection, in order
    connects

vars == <<mode, net, send, recv, store, queue, count, wire, acks, meant, delivered, uses,
          connects>>

NoTable == SendTable(0)

Modes == {"manual", "map", "replace"}

Init ==
    /\ mode \in Modes
    /\ net = "down"
    /\ send = NoTable /\ recv = NoTable
    /\ store = <<>> /\ queue = <<>> /\ count = 0
    /\ wire = <<>> /\ acks = <<>>
    /\ meant = <<>> /\ delivered = <<>> /\ uses = <<>>
    /\ connects = 0

(* A publish: topic None if it is empty, alias 0 if it has no such property *)
Message(id, qos, topic, alias) == [id |-> id, qos |-> qos, topic |-> topic, alias |-> alias]

NewId == Len(meant) + 1

-----------------------------------------------------------------------------
(* The sender *)

(* apply_topic_alias: what is written for m, and the table afterwards. It
   throws if the topic is empty and the alias has none. *)
Throws(m) == m.topic = None /\ (m.alias = 0 \/ TopicFor(send, m.alias) = None)

Applied(m, table) ==
    LET plain == [msg |-> m, table |-> table]
    IN  IF table = NoTable THEN plain
        ELSE IF m.topic = None THEN [plain EXCEPT !.table = Touched(table, m.alias)]
        ELSE IF m.alias # 0 THEN [plain EXCEPT !.table = Entered(table, m.topic, m.alias)]
        ELSE IF mode # "manual" /\ HasTopic(table, m.topic)
        THEN LET alias == AliasFor(table, m.topic)
             IN  [msg   |-> [m EXCEPT !.topic = None, !.alias = alias],
                  table |-> Entered(table, m.topic, alias)]
        ELSE IF mode = "map"
        THEN [msg   |-> [m EXCEPT !.alias = LruAlias(table)],
              table |-> Entered(table, m.topic, LruAlias(table))]
        ELSE plain

(* remove_topic_alias: the topic is recovered for the store; remove_prop()
   removes nothing, so an alias the application gave stays. *)
Storable(m) == IF m.topic = None THEN [m EXCEPT !.topic = TopicFor(send, m.alias)] ELSE m

Used(before, alias) == IF alias = 0 THEN before ELSE Append(before, alias)

Written(m) == wire' = IF net = "up" THEN Append(wire, m) ELSE wire

(* publish, async_publish. A message that is too large is refused when it has
   its alias. *)
Publish(m, oversized) ==
    LET applied == Applied(m, send)
    IN  /\ Len(meant) < MaxPublishes
        /\ ~Throws(m)
        /\ send' = applied.table
        /\ uses' = Used(uses, applied.msg.alias)
        /\ meant' = Append(meant, Storable(m).topic)
        /\ IF oversized THEN UNCHANGED <<store, queue, count, wire>>
           ELSE IF m.qos = 0
           THEN Written(applied.msg) /\ UNCHANGED <<store, queue, count>>
           ELSE /\ store' = Append(store, Storable(m))
                /\ IF count = SendMax
                   THEN queue' = Append(queue, Storable(m)) /\ UNCHANGED <<count, wire>>
                   ELSE count' = count + 1 /\ Written(applied.msg) /\ UNCHANGED queue
        /\ UNCHANGED <<mode, net, recv, acks, delivered, connects>>

(* store_.erase(), by packet id *)
Unacknowledged(id) ==
    IF \E i \in DOMAIN store : store[i].id = id
    THEN RemoveAt(store, CHOOSE i \in DOMAIN store : store[i].id = id) ELSE store

(* process_puback: the store, the window and the queue *)
ReceivePuback ==
    /\ acks # <<>>
    /\ acks' = Tail(acks)
    /\ store' = Unacknowledged(Head(acks))
    /\ IF queue = <<>>
       THEN count' = count - 1 /\ UNCHANGED <<queue, wire>>
       ELSE queue' = Tail(queue) /\ Written(Head(queue)) /\ UNCHANGED count
    /\ UNCHANGED <<mode, net, send, recv, meant, delivered, uses, connects>>

-----------------------------------------------------------------------------
(* The receiver *)

Delivered(m, topic) ==
    /\ delivered' = Append(delivered, [id |-> m.id, topic |-> topic])
    /\ acks' = IF m.qos = 1 THEN Append(acks, m.id) ELSE acks

(* process_publish, after its quota *)
ReceivePublish ==
    /\ net = "up" /\ wire # <<>>
    /\ wire' = Tail(wire)
    /\ LET m     == Head(wire)
           known == Found(recv, m.alias)
       IN  IF m.topic = None
           THEN /\ UNCHANGED recv
                /\ IF m.alias > recv.max \/ known = None
                   THEN net' = "failed" /\ UNCHANGED <<acks, delivered>>
                   ELSE Delivered(m, known) /\ UNCHANGED net
           ELSE /\ recv' = IF m.alias = 0 THEN recv ELSE Received(recv, m.topic, m.alias)
                /\ Delivered(m, m.topic)
                /\ UNCHANGED net
    /\ UNCHANGED <<mode, send, store, queue, count, meant, uses, connects>>

-----------------------------------------------------------------------------
(* Connections *)

Break ==
    /\ net # "down"
    /\ net' = "down"
    /\ wire' = <<>> /\ acks' = <<>>
    /\ UNCHANGED <<mode, send, recv, store, queue, count, meant, delivered, uses, connects>>

(* Mutant: a table that is there already is kept. *)
ConnackTableKept(max) == IF max > 0 /\ send = NoTable THEN SendTable(max) ELSE send

(* set_values_from_props_on_connection: a maximum of 0, or none, leaves the
   table as it was. *)
ConnackTable(max) == IF max > 0 THEN SendTable(max) ELSE send

(* send_store: each message gets its alias as it is met, and is written or
   queued with it. *)
Resent(r, m) ==
    LET applied == Applied(m, r.table)
    IN  [table |-> applied.table,
         msgs  |-> Append(r.msgs, applied.msg),
         uses  |-> Used(r.uses, applied.msg.alias)]

(* What there is after the first k messages of the store. *)
Resending(max) ==
    LET R[k \in 0..Len(store)] ==
            IF k = 0 THEN [table |-> ConnackTable(max), msgs |-> <<>>, uses |-> <<>>]
            ELSE Resent(R[k - 1], store[k])
    IN  R

(* CONNACK arrives: the window is reset and the store is sent again. The
   receiver is an endpoint of its own for every connection. *)
Connect(max) ==
    LET resent == Resending(max)[Len(store)]
        room   == IF Len(store) < SendMax THEN Len(store) ELSE SendMax
    IN  /\ net = "down"
        /\ connects < MaxConnects
        /\ connects' = connects + 1
        /\ net' = "up"
        /\ send' = resent.table
        /\ recv' = RecvTable(max)
        /\ wire' = SubSeq(resent.msgs, 1, room)
        /\ queue' = SubSeq(resent.msgs, room + 1, Len(store))
        /\ count' = room
        /\ uses' = resent.uses
        /\ UNCHANGED <<mode, store, acks, meant, delivered>>

Sendable == [id : {NewId}, qos : {0, 1}, topic : Topics \union {None}, alias : 0..send.max]

Next == \/ \E m \in Sendable : \E oversized \in Oversized : Publish(m, oversized)
        \/ ReceivePuback \/ ReceivePublish
        \/ Break \/ \E max \in Maxima : Connect(max)

Spec == Init /\ [][Next]_vars

-----------------------------------------------------------------------------
(* Properties *)

(* A message reaches the handler under the topic the application published it
   to, whatever alias stood for the topic on whichever connection. *)
RightTopic == \A d \in Range(delivered) : d.topic = meant[d.id]

(* The receiver knows every alias that arrives without a topic, and none is
   beyond the maximum it announced: no protocol error. *)
AliasesKnown == net # "failed"

LastUse(alias) ==
    LET at == {k \in DOMAIN uses : uses[k] = alias}
    IN  IF at = {} THEN 0 ELSE CHOOSE k \in at : \A j \in at : j <= k

(* When a publish without an alias takes one from another topic, it is the
   alias that was used longest ago. *)
EvictsOldest ==
    [][(\E m \in Sendable : m.alias = 0 /\ Publish(m, FALSE)) =>
        \A e \in Range(send.entries) :
            TopicFor(send', e.alias) # e.topic =>
                \A f \in Range(send.entries) : LastUse(e.alias) <= LastUse(f.alias)]_vars
=============================================================================
