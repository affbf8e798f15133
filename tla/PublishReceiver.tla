-------------------------- MODULE PublishReceiver ---------------------------
(***************************************************************************)
(* The receiving half: the broker's endpoint of one client (process_*      *)
(* handlers of endpoint.hpp), the broker's handlers behind it (broker.hpp) *)
(* and what session_state.hpp keeps between connections. Acknowledgements  *)
(* are written asynchronously: s2c is the endpoint's write queue and the   *)
(* network behind it.                                                      *)
(***************************************************************************)
EXTENDS MqttPackets, FiniteSets

CONSTANT
    Denied          \* messages whose topic the client is not authorized to publish to

VARIABLES
    session,        \* none; live: attached to the connection; offline: it waits for
                    \* one; resuming: CONNACK is being written, renew() runs after it
    handled,        \* qos2_publish_handled_, kept by the session while offline
    received,       \* publish_received_: publishes whose answer is not yet written
    delivered,      \* history: the messages do_publish was called with, in order
    s2c

receiverVars == <<session, handled, received, delivered>>

ReceiverInit ==
    /\ session = "none"
    /\ handled = {}
    /\ received = {}
    /\ delivered = <<>>
    /\ s2c = <<>>

-----------------------------------------------------------------------------
(* connect_handler: an offline session is resumed unless Clean Start is set;
   the endpoint of the new connection starts with an empty publish_received_.
   A new or cleaned session is attached at once, a resumed one by the
   completion of CONNACK's write. *)
ReceiveConnect(clean) ==
    LET present == session = "offline" /\ ~clean
    IN  /\ session' = IF present THEN "resuming" ELSE "live"
        /\ handled' = IF present THEN handled ELSE {}
        /\ received' = {}
        /\ s2c' = <<ConnackPacket(present)>>
        /\ UNCHANGED delivered

(* The broker's handlers find the connection's session; otherwise they return
   at once, and the packet is neither forwarded nor answered. *)
Attached == session = "live"

Answer(packet) == IF Attached THEN Append(s2c, packet) ELSE s2c

(* check_full *)
QuotaFull == V5 /\ Cardinality(received) = ReceiveMax

WithReceived(p) == IF V5 THEN received \union {p} ELSE received

Verdict(m) == IF m \in Denied THEN "not_authorized" ELSE "success"

(* publish_handler: forwarded if authorized. *)
Forwarded(m) == IF Attached /\ m \notin Denied THEN Append(delivered, m) ELSE delivered

ReceiveQos0(m) ==
    /\ delivered' = Forwarded(m)
    /\ UNCHANGED <<session, handled, received, s2c>>

ReceiveQos1(p, m) ==
    /\ IF QuotaFull
       THEN /\ s2c' = Append(s2c, PubackPacket(p, "quota_exceeded"))
            /\ UNCHANGED <<received, delivered>>
       ELSE /\ received' = WithReceived(p)
            /\ delivered' = Forwarded(m)
            /\ s2c' = Answer(PubackPacket(p, Verdict(m)))
    /\ UNCHANGED <<session, handled>>

(* The first publish with a packet id: noted first, and forgotten again by a
   pubrec that reports an error (or by renew(), which restores the session's
   own packet ids). *)
ReceiveQos2First(p, m) ==
    IF QuotaFull
    THEN /\ s2c' = Append(s2c, PubrecPacket(p, "quota_exceeded"))
         /\ UNCHANGED <<session, handled, received, delivered>>
    ELSE /\ handled' = IF Attached /\ m \notin Denied THEN handled \union {p} ELSE handled
         /\ received' = WithReceived(p)
         /\ delivered' = Forwarded(m)
         /\ s2c' = Answer(PubrecPacket(p, Verdict(m)))
         /\ UNCHANGED session

(* The mutant that does not look at qos2_publish_handled_. *)
ReceiveQos2Again(p, m) == ReceiveQos2First(p, m)

(* A packet id seen before is answered and nothing else. *)
ReceiveQos2(p, m) ==
    IF Attached /\ p \in handled
    THEN /\ s2c' = Append(s2c, PubrecPacket(p, "success"))
         /\ UNCHANGED <<session, handled, received, delivered>>
    ELSE ReceiveQos2First(p, m)

ReceivePublish(p, m) ==
    \/ Qos[m] = 0 /\ ReceiveQos0(m)
    \/ Qos[m] = 1 /\ ReceiveQos1(p, m)
    \/ Qos[m] = 2 /\ ReceiveQos2(p, m)

(* A mutant: the packet id is kept, so that its next use looks like a repeat. *)
ReceivePubrelKeeping(p) ==
    /\ s2c' = Answer(PubcompPacket(p))
    /\ UNCHANGED <<session, handled, received, delivered>>

(* process_pubrel and pubrel_handler: known or not, it is answered. *)
ReceivePubrel(p) ==
    /\ handled' = IF Attached THEN handled \ {p} ELSE handled
    /\ s2c' = Answer(PubcompPacket(p))
    /\ UNCHANGED <<session, received, delivered>>

(* subscribe_handler, as far as this flow sees it. *)
ReceiveSubscribe(p) ==
    /\ s2c' = Answer(SubackPacket(p))
    /\ UNCHANGED <<session, handled, received, delivered>>

ReceiverHandles(packet) ==
    \/ packet.type = "connect" /\ ReceiveConnect(packet.clean)
    \/ /\ session \in {"live", "resuming"}
       /\ \/ packet.type = "publish"   /\ ReceivePublish(packet.pid, packet.msg)
          \/ packet.type = "pubrel"    /\ ReceivePubrel(packet.pid)
          \/ packet.type = "subscribe" /\ ReceiveSubscribe(packet.pid)

(* Mutants: erase_publish_received is forgotten; renew is. *)
AnswerWrittenKeeping ==
    /\ s2c # <<>>
    /\ s2c' = Tail(s2c)
    /\ session' = IF Head(s2c).type = "connack" THEN "live" ELSE session
    /\ UNCHANGED <<handled, received, delivered>>

AnswerWrittenUnattached ==
    /\ s2c # <<>>
    /\ s2c' = Tail(s2c)
    /\ received' = IF Head(s2c).type \in {"puback", "pubrec"}
                   THEN received \ {Head(s2c).pid} ELSE received
    /\ UNCHANGED <<session, handled, delivered>>

(* The write of the first queued packet completes: CONNACK's attaches a
   resumed session (renew), a puback's or pubrec's gives the quota back
   (erase_publish_received). The peer reads it in the same step: a packet that
   was written and then lost differs from one never written only in these two,
   which the close that loses it undoes. *)
AnswerWritten ==
    /\ s2c # <<>>
    /\ s2c' = Tail(s2c)
    /\ session' = IF Head(s2c).type = "connack" THEN "live" ELSE session
    /\ received' = IF Head(s2c).type \in {"puback", "pubrec"}
                   THEN received \ {Head(s2c).pid} ELSE received
    /\ UNCHANGED <<handled, delivered>>

(* close_proc of a connection whose session outlives it: become_offline. *)
ReceiverClose ==
    /\ session' = IF session = "none" THEN "none" ELSE "offline"
    /\ s2c' = <<>>
    /\ UNCHANGED <<handled, received, delivered>>

(* The session expiry timer; or a close that ends the session (v3.1.1 with
   Clean Session, v5 with expiry interval 0), seen as a close and an expiry. *)
SessionExpires ==
    /\ session = "offline"
    /\ session' = "none"
    /\ handled' = {}
    /\ UNCHANGED <<received, delivered, s2c>>

-----------------------------------------------------------------------------
ReceiverTypes ==
    /\ session \in {"none", "live", "offline", "resuming"}
    /\ handled \subseteq Pids
    /\ received \subseteq Pids
    /\ delivered \in Seq(Messages)
=============================================================================
