-------------------------- MODULE ReliableDelivery --------------------------
(***************************************************************************)
(* What publishing promises the application, whatever happens to the       *)
(* connection: a QoS 1 or 2 message is owed until it was forwarded (or its *)
(* topic refused) and only then settled; QoS 2 is forwarded once; nothing  *)
(* is forwarded after it was settled or given up with the session.         *)
(***************************************************************************)
EXTENDS Integers, Sequences

CONSTANTS
    Qos,            \* Qos[m] is the QoS of message m
    Denied          \* the messages that are refused

VARIABLES
    issued,         \* the messages 1..issued were published
    owed,           \* the QoS 1 and 2 messages not settled yet
    delivered       \* what was forwarded to subscribers

vars == <<issued, owed, delivered>>

Init == issued = 0 /\ owed = {} /\ delivered = <<>>

WasForwarded(m) == \E i \in DOMAIN delivered : delivered[i] = m

Publish ==
    /\ issued < Len(Qos)
    /\ issued' = issued + 1
    /\ owed' = IF Qos[issued'] = 0 THEN owed ELSE owed \union {issued'}
    /\ UNCHANGED delivered

Forward(m) ==
    /\ m \notin Denied
    /\ Qos[m] # 0 => m \in owed
    /\ Qos[m] # 1 => ~WasForwarded(m)
    /\ delivered' = Append(delivered, m)
    /\ UNCHANGED <<issued, owed>>

Settle(m) ==
    /\ m \in owed
    /\ m \in Denied \/ WasForwarded(m)
    /\ owed' = owed \ {m}
    /\ UNCHANGED <<issued, delivered>>

GiveUp == owed' = {} /\ UNCHANGED <<issued, delivered>>

Next == \/ Publish
        \/ \E m \in 1..issued : Forward(m) \/ Settle(m)
        \/ GiveUp

Spec == Init /\ [][Next]_vars
=============================================================================
