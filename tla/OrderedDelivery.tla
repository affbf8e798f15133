-------------------------- MODULE OrderedDelivery ---------------------------
(***************************************************************************)
(* What a broker promises one subscriber with a lasting session: a QoS 1   *)
(* or 2 message is owed until it was received, refused or expired; QoS 2   *)
(* is received once; and QoS 1 and 2 messages are first received in the    *)
(* order they were published. A message that may expire keeps nobody       *)
(* waiting: once expired it may still come, behind later ones.             *)
(***************************************************************************)
EXTENDS Integers, Sequences

CONSTANTS
    Qos,            \* Qos[m] is the QoS of message m
    Refused,        \* the messages the subscriber refuses
    Expirable       \* the messages with a message expiry interval

VARIABLES
    issued,         \* the messages 1..issued were published
    owed,           \* the QoS 1 and 2 messages not settled yet
    received        \* what the subscriber received, in order

vars == <<issued, owed, received>>

Init == issued = 0 /\ owed = {} /\ received = <<>>

WasReceived(m) == \E i \in DOMAIN received : received[i] = m

Publish ==
    /\ issued < Len(Qos)
    /\ issued' = issued + 1
    /\ owed' = IF Qos[issued'] = 0 THEN owed ELSE owed \union {issued'}
    /\ UNCHANGED received

(* Nothing published before m is still to come. *)
IsNext(m) == \A n \in owed : n < m => WasReceived(n) \/ n \in Refused \union Expirable

Receive(m) ==
    /\ m \notin Refused
    /\ Qos[m] # 0 => m \in owed /\ (WasReceived(m) \/ IsNext(m))
    /\ Qos[m] # 1 => ~WasReceived(m)
    /\ received' = Append(received, m)
    /\ UNCHANGED <<issued, owed>>

Settle(m) ==
    /\ m \in owed
    /\ m \in Refused \union Expirable \/ WasReceived(m)
    /\ owed' = owed \ {m}
    /\ UNCHANGED <<issued, received>>

Next == Publish \/ \E m \in 1..issued : Receive(m) \/ Settle(m)

Spec == Init /\ [][Next]_vars
=============================================================================
