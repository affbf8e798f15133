--------------------------- MODULE BrokerDelivery ---------------------------
(***************************************************************************)
(* From do_publish to one subscriber whose session outlives its            *)
(* connections: session_state's inflight and offline messages, the         *)
(* endpoint of the present connection (its store, packet ids, window and   *)
(* write queue), and broker.hpp's handlers of the subscriber's answers.    *)
(* Every connection has an endpoint of its own: what must survive goes     *)
(* through the session. The subscriber answers as process_publish does.    *)
(***************************************************************************)
EXTENDS MqttPackets, EntrySequences

CONSTANTS
    Refused,        \* QoS 2 messages the subscriber answers with an error
    Expirable,      \* messages with a message expiry interval
    Interleaved,    \* TRUE if do_publish may run, on another thread, within the
                    \* completion of CONNACK's write
    MaxConnects     \* bound: connections of the subscriber

ASSUME DeliveryAssumption ==
    /\ Refused \subseteq {m \in Messages : Qos[m] = 2}
    /\ Expirable \subseteq Messages
    /\ Interleaved \in BOOLEAN
    /\ MaxConnects \in Nat

VARIABLES
    issued,         \* how many messages were published to the subscriber
    net,            \* down; connack: CONNACK is being written; up
    resuming,       \* what the broker is doing: sending the inflight messages (inflight),
                    \* or going to send the offline ones (offline), or sending them
                    \* (sending), or nothing of it (none)
    walked,         \* how many inflight messages send_inflight_messages has sent
    attached,       \* con_ is set
    ep,             \* the endpoint con_ points to
    inflight,       \* inflight_messages_
    offline,        \* offline_messages_
    b2c, c2b,       \* the bytes on their way to and from the subscriber
    handled,        \* the subscriber's qos2_publish_handled_
    received,       \* history: what the subscriber received, in order
    connects

vars == <<issued, net, resuming, walked, attached, ep, inflight, offline, b2c, c2b,
          handled, received, connects>>

Entry(p, kind, m) == [pid |-> p, awaits |-> kind, msg |-> m]

FirstAnswer(m) == IF Qos[m] = 1 THEN "puback" ELSE "pubrec"

IsPublish(e) == e.awaits # "pubcomp"

NewEndpoint == [store |-> <<>>, pids |-> {}, count |-> 0, queue |-> <<>>,
                resend |-> {}, posted |-> <<>>]

Init ==
    /\ issued = 0
    /\ net = "down"
    /\ resuming = "none" /\ walked = 0
    /\ attached = FALSE
    /\ ep = NewEndpoint
    /\ inflight = <<>>
    /\ offline = <<>>
    /\ b2c = <<>> /\ c2b = <<>>
    /\ handled = {}
    /\ received = <<>>
    /\ connects = 0

-----------------------------------------------------------------------------
(* The endpoint (endpoint.hpp) *)

Holds(p, kind) == \E i \in DOMAIN ep.store : ep.store[i].pid = p /\ ep.store[i].awaits = kind

(* erase by packet id, of the store and of the inflight messages *)
Without(entries, p) == IF HasPid(entries, p) THEN Erased(entries, p) ELSE entries

(* do_async_write: the packet waits for the socket; without one it is gone. *)
Posted(x, packet) == IF net = "down" THEN x ELSE [x EXCEPT !.posted = Append(@, packet)]

(* preprocess_publish_message and the write behind it: stored, then written or
   queued if the subscriber's Receive Maximum is used up. The packet id is in
   use already or is registered here; either way nobody looks whether it was
   free. *)
PublishSent(x, e) ==
    LET y == [x EXCEPT !.pids = @ \union {e.pid}, !.store = Inserted(@, e)]
    IN  IF V5 /\ y.count = ReceiveMax
        THEN [y EXCEPT !.queue = Append(@, e)]
        ELSE Posted([y EXCEPT !.count = IF V5 THEN @ + 1 ELSE @], PublishPacket(e.pid, e.msg))

PubrelResent(x, e) ==
    Posted([x EXCEPT !.pids = @ \union {e.pid},
                     !.store = Inserted(@, e),
                     !.resend = IF V5 THEN @ \union {e.pid} ELSE @],
           PubrelPacket(e.pid))

(* async_send_store_message *)
StoreMessageSent(x, e) == IF IsPublish(e) THEN PublishSent(x, e) ELSE PubrelResent(x, e)

(* A mutant: the queue's head is left to the next answer. *)
SlotReleasedOnly(x) == IF V5 THEN [x EXCEPT !.count = @ - 1] ELSE x

(* send_publish_queue_one *)
SlotReleased(x) ==
    IF ~V5 THEN x
    ELSE IF x.queue = <<>> THEN [x EXCEPT !.count = @ - 1]
    ELSE LET e == Head(x.queue)
         IN  Posted([x EXCEPT !.queue = Tail(@)], PublishPacket(e.pid, e.msg))

(* A message is acknowledged: its packet id comes free. *)
Acknowledged(x, p) == [x EXCEPT !.store = Without(@, p), !.pids = @ \ {p}]

(* acquire_unique_packet_id_no_except: the lowest vacant one. *)
Acquirable(p) == p \in Pids \ ep.pids /\ \A q \in Pids \ ep.pids : p <= q

-----------------------------------------------------------------------------
(* session_state *)

(* Both ways of sending a new message with a packet id: session_state::publish
   and offline_message::send. *)
SentAnew(m) ==
    \E p \in Pids :
        /\ Acquirable(p)
        /\ ep' = PublishSent(ep, Entry(p, FirstAnswer(m), m))

NeedsPid(m) == Qos[m] # 0

(* send_until_fail stops at the first message that gets no packet id. *)
Sendable(m) == NeedsPid(m) => \E p \in Pids : Acquirable(p)

(* offline_message::send. QoS 0 goes out by the synchronous publish, past the
   write queue. *)
OfflineSent(m) ==
    IF NeedsPid(m) THEN SentAnew(m) /\ UNCHANGED b2c
    ELSE b2c' = Append(b2c, PublishPacket(NoPid, m)) /\ UNCHANGED ep

-----------------------------------------------------------------------------
(* The broker's side *)

(* session_state::publish *)
GoesOut(m) == attached /\ offline = <<>> /\ Sendable(m)

(* do_publish, as far as this subscriber is concerned: session_state::deliver. *)
Publish ==
    /\ issued < Len(Qos)
    /\ resuming = "none" \/ (Interleaved /\ resuming # "sending")
    /\ issued' = issued + 1
    /\ IF GoesOut(issued')
       THEN /\ IF NeedsPid(issued') THEN SentAnew(issued')
               ELSE ep' = Posted(ep, PublishPacket(NoPid, issued'))
            /\ UNCHANGED offline
       ELSE /\ offline' = Append(offline, issued')
            /\ UNCHANGED ep
    /\ UNCHANGED <<net, resuming, walked, attached, inflight, b2c, c2b, handled, received,
                   connects>>

(* become_offline: the endpoint's store is added to the inflight messages, an
   entry whose packet id is there already being left as it is. *)
BecomeOffline ==
    /\ inflight' = inflight \o Selected(ep.store, {i \in DOMAIN ep.store :
                                                      ~HasPid(inflight, ep.store[i].pid)})
    /\ attached' = FALSE
    /\ ep' = NewEndpoint

(* The broker notices that the connection is gone (close or error handler). *)
BrokerCloses ==
    /\ net = "down" /\ attached /\ resuming = "none"
    /\ BecomeOffline
    /\ UNCHANGED <<issued, net, resuming, walked, offline, b2c, c2b, handled, received, connects>>

(* connect_handler without Clean Start; a session still online is taken over. *)
Connect ==
    /\ net = "down" /\ resuming = "none"
    /\ connects < MaxConnects
    /\ connects' = connects + 1
    /\ net' = "connack"
    /\ IF attached THEN BecomeOffline ELSE UNCHANGED <<inflight, attached, ep>>
    /\ UNCHANGED <<issued, resuming, walked, offline, b2c, c2b, handled, received>>

(* CONNACK is written: renew attaches the session to the new endpoint. *)
Renew ==
    /\ net = "connack"
    /\ net' = "up"
    /\ attached' = TRUE
    /\ ep' = NewEndpoint
    /\ resuming' = "inflight" /\ walked' = 0
    /\ UNCHANGED <<issued, inflight, offline, b2c, c2b, handled, received, connects>>

(* The mutant that skips send_inflight_messages. *)
ResumeNoInflight ==
    /\ resuming = "inflight"
    /\ resuming' = "offline"
    /\ UNCHANGED <<issued, net, walked, attached, ep, inflight, offline, b2c, c2b,
                   handled, received, connects>>

(* send_inflight_messages, one after the other: they stay in the list until
   they are answered. *)
SendInflight ==
    /\ resuming = "inflight"
    /\ IF walked < Len(inflight)
       THEN /\ ep' = StoreMessageSent(ep, inflight[walked + 1])
            /\ walked' = walked + 1
            /\ UNCHANGED resuming
       ELSE /\ resuming' = "offline"
            /\ UNCHANGED <<walked, ep>>
    /\ UNCHANGED <<issued, net, attached, inflight, offline, b2c, c2b,
                   handled, received, connects>>

(* A mutant: the message that got no packet id leaves the list all the same. *)
SendOfflinePopping ==
    /\ resuming \in {"offline", "sending"}
    /\ \/ /\ offline # <<>> /\ Sendable(Head(offline))
          /\ offline' = Tail(offline)
          /\ OfflineSent(Head(offline))
          /\ resuming' = "sending"
       \/ /\ offline # <<>> => ~Sendable(Head(offline))
          /\ offline' = IF offline = <<>> THEN offline ELSE Tail(offline)
          /\ resuming' = "none"
          /\ UNCHANGED <<ep, b2c>>
    /\ UNCHANGED <<issued, net, walked, attached, inflight, c2b, handled, received, connects>>

(* send_all_offline_messages and send_offline_messages_by_packet_id_release:
   send_until_fail, one message after the other. *)
SendOffline ==
    /\ resuming \in {"offline", "sending"}
    /\ \/ /\ offline # <<>> /\ Sendable(Head(offline))
          /\ offline' = Tail(offline)
          /\ OfflineSent(Head(offline))
          /\ resuming' = "sending"
       \/ /\ offline # <<>> => ~Sendable(Head(offline))
          /\ resuming' = "none"
          /\ UNCHANGED <<offline, ep, b2c>>
    /\ UNCHANGED <<issued, net, walked, attached, inflight, c2b, handled, received, connects>>

(* The write queue's head is written to the socket. *)
Write ==
    /\ net = "up" /\ resuming = "none"
    /\ ep.posted # <<>>
    /\ b2c' = Append(b2c, Head(ep.posted))
    /\ ep' = [ep EXCEPT !.posted = Tail(@)]
    /\ UNCHANGED <<issued, net, resuming, walked, attached, inflight, offline, c2b,
                   handled, received, connects>>

(* Message expiry timers: of a waiting message, and of an inflight publish. *)
OfflineExpires(i) ==
    /\ offline[i] \in Expirable
    /\ offline' = RemoveAt(offline, i)
    /\ UNCHANGED inflight

InflightExpires(i) ==
    /\ inflight[i].msg \in Expirable /\ IsPublish(inflight[i])
    /\ inflight' = RemoveAt(inflight, i)
    /\ UNCHANGED offline

MessageExpires ==
    /\ V5 /\ resuming = "none"
    /\ \/ \E i \in DOMAIN offline : OfflineExpires(i)
       \/ \E i \in DOMAIN inflight : InflightExpires(i)
    /\ UNCHANGED <<issued, net, resuming, walked, attached, ep, b2c, c2b, handled, received,
                   connects>>

-----------------------------------------------------------------------------
(* The answers: process_puback, process_pubrec and process_pubcomp, then the
   broker's handler of the same name. *)

(* call_protocol_error_handlers: the broker closes the connection. *)
ProtocolError ==
    /\ net' = "down"
    /\ b2c' = <<>> /\ c2b' = <<>>
    /\ BecomeOffline
    /\ UNCHANGED <<resuming, offline>>

Read == c2b' = Tail(c2b) /\ UNCHANGED <<net, attached, offline, b2c>>

(* A mutant of puback_handler: the inflight message stays. *)
PubackInflightKept(p) ==
    IF ~Holds(p, "puback") THEN ProtocolError
    ELSE /\ Read
         /\ UNCHANGED inflight
         /\ ep' = SlotReleased(Acknowledged(ep, p))
         /\ resuming' = "offline"

Puback(p) ==
    IF ~Holds(p, "puback") THEN ProtocolError
    ELSE /\ Read
         /\ inflight' = Without(inflight, p)
         /\ ep' = SlotReleased(Acknowledged(ep, p))
         /\ resuming' = "offline"

(* pubrec_handler: on an error the packet id comes free, yet what waits for
   one is left where it is. *)
Pubrec(p, reason) ==
    IF ~Holds(p, "pubrec") THEN ProtocolError
    ELSE /\ Read
         /\ UNCHANGED resuming
         /\ inflight' = Without(inflight, p)
         /\ IF V5 /\ IsError(reason)
            THEN ep' = SlotReleased(Acknowledged(ep, p))
            ELSE LET m == (CHOOSE e \in ToSet(ep.store) : e.pid = p).msg
                 IN  ep' = Posted([ep EXCEPT !.store = Append(Without(@, p), Entry(p, "pubcomp", m))],
                                  PubrelPacket(p))

(* A pubrel that was resent holds no slot of the window. *)
Pubcomp(p) ==
    IF ~Holds(p, "pubcomp") THEN ProtocolError
    ELSE LET x == Acknowledged(ep, p)
         IN  /\ Read
             /\ inflight' = Without(inflight, p)
             /\ ep' = IF p \in x.resend THEN x ELSE SlotReleased(x)
             /\ resuming' = "offline"

BrokerReads ==
    /\ c2b # <<>> /\ resuming = "none"
    /\ LET packet == Head(c2b)
       IN  \/ packet.type = "puback"  /\ Puback(packet.pid)
           \/ packet.type = "pubrec"  /\ Pubrec(packet.pid, packet.reason)
           \/ packet.type = "pubcomp" /\ Pubcomp(packet.pid)
    /\ UNCHANGED <<issued, walked, handled, received, connects>>

-----------------------------------------------------------------------------
(* The subscriber and the network *)

Answered(packet) == c2b' = Append(c2b, packet)

ReceiveQos0(m) ==
    /\ received' = Append(received, m)
    /\ UNCHANGED <<c2b, handled>>

ReceiveQos1(p, m) ==
    /\ received' = Append(received, m)
    /\ Answered(PubackPacket(p, "success"))
    /\ UNCHANGED handled

ReceiveQos2(p, m) ==
    IF p \notin handled /\ m \in Refused
    THEN Answered(PubrecPacket(p, "not_authorized")) /\ UNCHANGED <<handled, received>>
    ELSE /\ Answered(PubrecPacket(p, "success"))
         /\ handled' = handled \union {p}
         /\ received' = IF p \in handled THEN received ELSE Append(received, m)

ReceivePubrel(p) ==
    /\ Answered(PubcompPacket(p))
    /\ handled' = handled \ {p}
    /\ UNCHANGED received

SubscriberReads ==
    /\ b2c # <<>>
    /\ b2c' = Tail(b2c)
    /\ LET packet == Head(b2c)
       IN  \/ /\ packet.type = "publish"
              /\ \/ Qos[packet.msg] = 0 /\ ReceiveQos0(packet.msg)
                 \/ Qos[packet.msg] = 1 /\ ReceiveQos1(packet.pid, packet.msg)
                 \/ Qos[packet.msg] = 2 /\ ReceiveQos2(packet.pid, packet.msg)
           \/ packet.type = "pubrel" /\ ReceivePubrel(packet.pid)
    /\ UNCHANGED <<issued, net, resuming, walked, attached, ep, inflight, offline, connects>>

(* What is on its way is lost; the broker learns of it later. Not the last
   connection the bound allows: the network is good eventually. *)
ConnectionBreaks ==
    /\ net # "down" /\ resuming = "none"
    /\ connects < MaxConnects
    /\ net' = "down"
    /\ b2c' = <<>> /\ c2b' = <<>>
    /\ ep' = [ep EXCEPT !.posted = <<>>]
    /\ UNCHANGED <<issued, resuming, walked, attached, inflight, offline, handled, received,
                   connects>>

Next == \/ Publish \/ BrokerCloses \/ Connect \/ Renew \/ SendInflight \/ SendOffline
        \/ Write \/ MessageExpires \/ BrokerReads \/ SubscriberReads \/ ConnectionBreaks

Spec == Init /\ [][Next]_vars

(* The broker's io_context runs what is ready; the subscriber connects again
   and reads its socket. *)
FairSpec == /\ Spec
            /\ WF_vars(Connect) /\ WF_vars(Renew)
            /\ WF_vars(SendInflight) /\ WF_vars(SendOffline)
            /\ WF_vars(Write) /\ WF_vars(BrokerReads) /\ WF_vars(SubscriberReads)

-----------------------------------------------------------------------------
(* Messages of the entries. *)
MessagesOf(entries) == {entries[i].msg : i \in DOMAIN entries}

(* Delivery keeps the promise of OrderedDelivery: what is owed is what the
   session or its endpoint holds, wherever the connection broke. *)
Owed == {m \in ToSet(offline) : Qos[m] # 0} \union MessagesOf(inflight) \union MessagesOf(ep.store)

Promise == INSTANCE OrderedDelivery WITH owed <- Owed

ImplementsOrderedDelivery == Promise!Spec

(* The two places that hold unacknowledged messages agree: while the session is
   attached, an inflight message is one the endpoint still waits to have
   answered under that packet id, so an acknowledged one is never sent again. *)
InflightIsStored ==
    attached /\ resuming = "none"
        => \A i \in DOMAIN inflight :
               \E j \in DOMAIN ep.store :
                   /\ ep.store[j].pid = inflight[i].pid
                   /\ ep.store[j].msg = inflight[i].msg

(* Every stored message has a packet id of its own and the window covers what
   was sent: no slot is given out twice, and none leaks as long as no pubrel
   was resent on this connection. (process_pubcomp never takes a packet id out
   of resend_pubrel_, which costs a slot when the packet id is used again.) *)
Queued == {ep.queue[i].pid : i \in DOMAIN ep.queue}

SlotHolders == {e \in ToSet(ep.store) : IF IsPublish(e) THEN e.pid \notin Queued
                                        ELSE e.pid \notin ep.resend}

Leaked == ep.count > Cardinality(SlotHolders)

WindowExact ==
    /\ ep.pids = {e.pid : e \in ToSet(ep.store)}
    /\ V5 => /\ Cardinality(SlotHolders) <= ep.count
             /\ ep.count <= ReceiveMax
             /\ ep.resend = {} => ~Leaked
             /\ ep.queue # <<>> => ep.count = ReceiveMax

(* Every QoS 1 and 2 message is received in the end, or refused or expired,
   unless a slot of the window has leaked on the last connection. *)
WasReceived(m) == \E i \in DOMAIN received : received[i] = m

EventuallyReceived ==
    \A m \in Messages :
        issued >= m /\ Qos[m] # 0
            ~> WasReceived(m) \/ m \in Refused \union Expirable \/ []Leaked
=============================================================================
