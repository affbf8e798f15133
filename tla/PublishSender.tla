--------------------------- MODULE PublishSender ----------------------------
(***************************************************************************)
(* The sending half of an endpoint (endpoint.hpp) for QoS 1 and 2: the     *)
(* store of unacknowledged messages, the packet ids in use, and the window *)
(* the peer's Receive Maximum leaves (publish_send_count_ and its queue).  *)
(* Each action is one API call or one packet handler, run to its end on    *)
(* the connection's strand. Packets it writes go to c2s.                   *)
(***************************************************************************)
EXTENDS MqttPackets, EntrySequences

CONSTANT
    AnyTime         \* TRUE if the application also publishes between CONNECT and
                    \* CONNACK, and subscribes while no connection is established

ASSUME SenderAssumption == AnyTime \in BOOLEAN

VARIABLES
    conn,           \* closed, connecting (CONNECT written), connected (CONNACK read),
                    \* halted (protocol error reported: nothing more is read)
    issued,         \* how many messages the application has published
    store,          \* store_: unacknowledged publishes and pubrels, in sending order
    pids,           \* pid_man_: the packet ids in use
    subInflight,    \* sub_unsub_inflight_: packet ids of unanswered SUBSCRIBEs
    sendCount,      \* publish_send_count_
    sendQueue,      \* publish_send_queue_: publishes waiting for a free slot
    resendPubrel,   \* resend_pubrel_: pubrels written on reconnection
    discarded,      \* history: messages clear_session_data() dropped
    c2s             \* what the endpoint wrote and its peer has not read

senderVars == <<conn, issued, store, pids, subInflight, sendCount, sendQueue,
                resendPubrel, discarded>>

(* The packet each stored message waits for (expected_control_packet_type). *)
Awaited == {"puback", "pubrec", "pubcomp"}

Entry(p, kind, m) == [pid |-> p, awaits |-> kind, msg |-> m]

IsPublish(e) == e.awaits # "pubcomp"

(* A mutant: the two QoS exchanged. *)
FirstAnswerSwapped(m) == IF Qos[m] = 1 THEN "pubrec" ELSE "puback"

FirstAnswer(m) == IF Qos[m] = 1 THEN "puback" ELSE "pubrec"

SenderInit ==
    /\ conn = "closed"
    /\ issued = 0
    /\ store = <<>>
    /\ pids = {}
    /\ subInflight = {}
    /\ sendCount = 0
    /\ sendQueue = <<>>
    /\ resendPubrel = {}
    /\ discarded = {}
    /\ c2s = <<>>

-----------------------------------------------------------------------------
(* Helpers *)

(* can_send(): what is written without a connection goes nowhere. *)
Written(packets) == IF conn = "closed" THEN c2s ELSE c2s \o packets

StorePids == {store[i].pid : i \in DOMAIN store}

StoreMessages == {store[i].msg : i \in DOMAIN store}

Holds(p, kind) == \E i \in DOMAIN store : store[i].pid = p /\ store[i].awaits = kind

MsgOf(p) == store[CHOOSE i \in DOMAIN store : store[i].pid = p].msg

(* acquire_unique_packet_id: the lowest vacant one. *)
Acquirable(p) == p \in Pids \ pids /\ \A q \in Pids \ pids : p <= q

(* publish_send_count_ is an atomic uint16_t; the assertion that it is positive
   before it is decremented is compiled out of release builds. *)
Counts == 0..MaxUint16

Incremented(n) == (n + 1) % (MaxUint16 + 1)
Decremented(n) == IF n = 0 THEN MaxUint16 ELSE n - 1

(* async_send_publish: publish_send_count_ == publish_send_max_ *)
WindowFull == V5 /\ sendCount = ReceiveMax

(* send_publish_queue_one: the slot that came free goes to the queue's head,
   if there is one. *)
SlotReleased ==
    IF ~V5 THEN UNCHANGED <<sendCount, sendQueue, c2s>>
    ELSE IF sendQueue = <<>>
    THEN /\ sendCount' = Decremented(sendCount)
         /\ UNCHANGED <<sendQueue, c2s>>
    ELSE LET e == Head(sendQueue)
         IN  /\ sendCount' = Incremented(Decremented(sendCount))
             /\ sendQueue' = Tail(sendQueue)
             /\ c2s' = Written(<<PublishPacket(e.pid, e.msg)>>)

(* call_protocol_error_handlers: subscriptions in flight are given up, the
   application is told, and nothing reads the socket any more. *)
ProtocolError ==
    /\ conn' = "halted"
    /\ pids' = pids \ subInflight
    /\ subInflight' = {}
    /\ UNCHANGED <<issued, store, sendCount, sendQueue, resendPubrel, discarded, c2s>>

-----------------------------------------------------------------------------
(* API calls *)

(* async_publish, QoS 0: written and forgotten. *)
PublishQos0(m) ==
    /\ Qos[m] = 0
    /\ c2s' = Written(<<PublishPacket(NoPid, m)>>)
    /\ UNCHANGED <<store, pids, sendCount, sendQueue>>

(* async_publish, QoS 1 and 2: stored first, then written or queued. *)
PublishStored(m) ==
    /\ Qos[m] # 0
    /\ \E p \in Pids :
         /\ Acquirable(p)
         /\ pids' = pids \union {p}
         /\ store' = Inserted(store, Entry(p, FirstAnswer(m), m))
         /\ IF WindowFull
            THEN /\ sendQueue' = Append(sendQueue, [pid |-> p, msg |-> m])
                 /\ UNCHANGED <<sendCount, c2s>>
            ELSE /\ sendCount' = IF V5 THEN Incremented(sendCount) ELSE sendCount
                 /\ c2s' = Written(<<PublishPacket(p, m)>>)
                 /\ UNCHANGED sendQueue

Publish ==
    /\ issued < Len(Qos)
    /\ conn = "connecting" => AnyTime
    /\ issued' = issued + 1
    /\ PublishQos0(issued') \/ PublishStored(issued')
    /\ UNCHANGED <<conn, subInflight, resendPubrel, discarded>>

(* async_subscribe: takes a packet id from the same pool. *)
Subscribe ==
    /\ conn # "connected" => AnyTime
    /\ \E p \in Pids :
         /\ Acquirable(p)
         /\ pids' = pids \union {p}
         /\ subInflight' = subInflight \union {p}
         /\ c2s' = Written(<<SubscribePacket(p)>>)
    /\ UNCHANGED <<conn, issued, store, sendCount, sendQueue, resendPubrel, discarded>>

(* async_connect, once the socket is open: CONNECT is the first packet. *)
Connect(clean) ==
    /\ conn = "closed"
    /\ conn' = "connecting"
    /\ c2s' = <<ConnectPacket(clean)>>
    /\ UNCHANGED <<issued, store, pids, subInflight, sendCount, sendQueue,
                   resendPubrel, discarded>>

(* The mutant that does not release the packet ids of unanswered SUBSCRIBEs. *)
SenderCloseKeepingPids ==
    /\ conn # "closed"
    /\ conn' = "closed"
    /\ subInflight' = {}
    /\ c2s' = <<>>
    /\ UNCHANGED <<issued, store, pids, sendCount, sendQueue,
                   resendPubrel, discarded>>

(* handle_close_or_error, for whichever reason the socket closed. *)
SenderClose ==
    /\ conn # "closed"
    /\ conn' = "closed"
    /\ pids' = pids \ subInflight
    /\ subInflight' = {}
    /\ c2s' = <<>>
    /\ UNCHANGED <<issued, store, sendCount, sendQueue, resendPubrel, discarded>>

-----------------------------------------------------------------------------
(* Packet handlers *)

(* A mutant: the index by packet id is walked instead of the sequence. *)
NthByPid(positions, k) ==
    CHOOSE i \in positions :
        Cardinality({j \in positions : store[j].pid < store[i].pid}) = k - 1

PickedByPid(positions) == [k \in 1..Cardinality(positions) |-> store[NthByPid(positions, k)]]

(* The stored messages at the given positions, in order. *)
Picked(positions) == Selected(store, positions)

StoredPacket(e) == IF IsPublish(e) THEN PublishPacket(e.pid, e.msg) ELSE PubrelPacket(e.pid)

QueueEntry(e) == [pid |-> e.pid, msg |-> e.msg]

StoredPublishes == {i \in DOMAIN store : IsPublish(store[i])}

(* The publishes the window lets out: the first ReceiveMax of them. *)
LetOut == IF V5 THEN {i \in StoredPublishes : Rank(StoredPublishes, i) < ReceiveMax}
          ELSE StoredPublishes

(* Mutants of async_send_store: the queue of the last connection is kept; the
   window is not counted again; the queue is not filled. *)
ResendStoreOnTop ==
    LET sent    == Picked((DOMAIN store \ StoredPublishes) \union LetOut)
        waiting == Picked(StoredPublishes \ LetOut)
    IN  /\ sendCount' = IF V5 THEN Cardinality(LetOut) ELSE 0
        /\ sendQueue' = sendQueue \o [k \in DOMAIN waiting |-> QueueEntry(waiting[k])]
        /\ resendPubrel' = IF V5 THEN StorePids \ {store[i].pid : i \in StoredPublishes} ELSE {}
        /\ c2s' = Written([k \in DOMAIN sent |-> StoredPacket(sent[k])])
        /\ UNCHANGED <<store, pids, discarded>>

ResendStoreUncounted ==
    LET sent == Picked(DOMAIN store)
    IN  /\ sendCount' = 0
        /\ sendQueue' = <<>>
        /\ resendPubrel' = IF V5 THEN StorePids \ {store[i].pid : i \in StoredPublishes} ELSE {}
        /\ c2s' = Written([k \in DOMAIN sent |-> StoredPacket(sent[k])])
        /\ UNCHANGED <<store, pids, discarded>>

(* async_send_store: stored messages go out again in order until the window is
   full; the other publishes are queued. Pubrels always go out. *)
ResendStore ==
    LET sent    == Picked((DOMAIN store \ StoredPublishes) \union LetOut)
        waiting == Picked(StoredPublishes \ LetOut)
    IN  /\ sendCount' = IF V5 THEN Cardinality(LetOut) ELSE 0
        /\ sendQueue' = [k \in DOMAIN waiting |-> QueueEntry(waiting[k])]
        /\ resendPubrel' = IF V5 THEN StorePids \ {store[i].pid : i \in StoredPublishes} ELSE {}
        /\ c2s' = Written([k \in DOMAIN sent |-> StoredPacket(sent[k])])
        /\ UNCHANGED <<store, pids, discarded>>

(* clear_session_data *)
ClearSessionData ==
    /\ store' = <<>>
    /\ pids' = {}
    /\ discarded' = discarded \union StoreMessages
    /\ sendCount' = 0
    /\ sendQueue' = <<>>
    /\ resendPubrel' = {}
    /\ UNCHANGED c2s

(* process_connack with a success code: the window starts afresh; then the
   store is resent if the peer kept the session, else dropped. *)
ProcessConnack(present) ==
    /\ conn = "connecting"
    /\ conn' = "connected"
    /\ IF present THEN ResendStore ELSE ClearSessionData
    /\ UNCHANGED <<issued, subInflight>>

ProcessPuback(p) ==
    IF Holds(p, "puback")
    THEN /\ store' = Erased(store, p)
         /\ pids' = pids \ {p}
         /\ SlotReleased
         /\ UNCHANGED <<conn, issued, subInflight, resendPubrel, discarded>>
    ELSE ProtocolError

(* async_send_pubrel: stored anew, behind every publish. *)
SendPubrel(p, m) ==
    /\ store' = Append(Erased(store, p), Entry(p, "pubcomp", m))
    /\ pids' = pids \union {p}
    /\ resendPubrel' = IF p \in pids THEN resendPubrel ELSE resendPubrel \union {p}
    /\ c2s' = Written(<<PubrelPacket(p)>>)
    /\ UNCHANGED <<sendCount, sendQueue>>

(* A mutant: the refused message's packet id is not released. *)
RefusedKeepingPid(p) ==
    /\ store' = Erased(store, p)
    /\ SlotReleased
    /\ UNCHANGED <<pids, resendPubrel>>

Refused(p) ==
    /\ store' = Erased(store, p)
    /\ pids' = pids \ {p}
    /\ SlotReleased
    /\ UNCHANGED resendPubrel

(* process_pubrec; v3.1.1's packet has no reason code. *)
ProcessPubrec(p, reason) ==
    IF Holds(p, "pubrec")
    THEN /\ IF V5 /\ IsError(reason) THEN Refused(p) ELSE SendPubrel(p, MsgOf(p))
         /\ UNCHANGED <<conn, issued, subInflight, discarded>>
    ELSE ProtocolError

(* process_pubcomp: a pubrel that was resent holds no slot. *)
ProcessPubcomp(p) ==
    IF Holds(p, "pubcomp")
    THEN /\ store' = Erased(store, p)
         /\ pids' = pids \ {p}
         /\ IF p \in resendPubrel
            THEN UNCHANGED <<sendCount, sendQueue, c2s>>
            ELSE SlotReleased
         /\ UNCHANGED <<conn, issued, subInflight, resendPubrel, discarded>>
    ELSE ProtocolError

(* process_suback: the packet id is released whoever holds it. *)
ProcessSuback(p) ==
    /\ pids' = pids \ {p}
    /\ subInflight' = subInflight \ {p}
    /\ UNCHANGED <<conn, issued, store, sendCount, sendQueue, resendPubrel, discarded, c2s>>

(* process_payload: dispatch by control packet type. Answers are expected once
   CONNACK was read; after a protocol error nothing is read. *)
SenderHandles(packet) ==
    \/ packet.type = "connack" /\ ProcessConnack(packet.present)
    \/ /\ conn = "connected"
       /\ \/ packet.type = "puback"  /\ ProcessPuback(packet.pid)
          \/ packet.type = "pubrec"  /\ ProcessPubrec(packet.pid, packet.reason)
          \/ packet.type = "pubcomp" /\ ProcessPubcomp(packet.pid)
          \/ packet.type = "suback"  /\ ProcessSuback(packet.pid)

-----------------------------------------------------------------------------
(* Types. The entries of store_ wait for the answers their QoS calls for. *)
StoreEntries == {e \in [pid : Pids, awaits : Awaited, msg : Messages] :
                    /\ Qos[e.msg] # 0
                    /\ e.awaits = "puback" <=> Qos[e.msg] = 1}

QueueEntries == {e \in [pid : Pids, msg : Messages] : Qos[e.msg] # 0}

SenderTypes ==
    /\ conn \in {"closed", "connecting", "connected", "halted"}
    /\ issued \in 0..Len(Qos)
    /\ store \in Seq(StoreEntries)
    /\ pids \subseteq Pids
    /\ subInflight \subseteq Pids
    /\ sendCount \in Counts
    /\ sendQueue \in Seq(QueueEntries)
    /\ resendPubrel \subseteq Pids
    /\ discarded \subseteq Messages
=============================================================================
