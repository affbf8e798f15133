---------------------------- MODULE PublishFlow -----------------------------
(***************************************************************************)
(* A client that publishes, its broker, and the TCP connection between     *)
(* them, which may break at any point and be opened again.                 *)
(***************************************************************************)
EXTENDS PublishSender, PublishReceiver

CONSTANTS
    CleanStarts,    \* the values of Clean Start the client may connect with
    MayExpire,      \* TRUE if the broker's session may expire between connections
    MaxConnects,    \* bound: connections
    MaxSubscribes   \* bound: SUBSCRIBEs

ASSUME FlowAssumption ==
    /\ CleanStarts \subseteq BOOLEAN
    /\ MayExpire \in BOOLEAN
    /\ MaxConnects \in Nat
    /\ MaxSubscribes \in Nat
    \* A v3.1.1 session opened with Clean Session ends with the connection, any
    \* other never does.
    /\ ~V5 => CleanStarts = {FALSE} /\ ~MayExpire

VARIABLES
    connects,       \* connections opened so far
    subscribes      \* SUBSCRIBEs sent so far

vars == <<conn, issued, store, pids, subInflight, sendCount, sendQueue, resendPubrel,
          discarded, c2s, session, handled, received, delivered, s2c, connects, subscribes>>

bounds == <<connects, subscribes>>

Init == /\ SenderInit
        /\ ReceiverInit
        /\ connects = 0
        /\ subscribes = 0

ApplicationPublishes == Publish /\ UNCHANGED <<receiverVars, s2c, bounds>>

ApplicationSubscribes ==
    /\ subscribes < MaxSubscribes
    /\ subscribes' = subscribes + 1
    /\ Subscribe
    /\ UNCHANGED <<receiverVars, s2c, connects>>

ClientConnects ==
    /\ connects < MaxConnects
    /\ connects' = connects + 1
    /\ \E clean \in CleanStarts : Connect(clean)
    /\ UNCHANGED <<receiverVars, s2c, subscribes>>

(* The broker reads one packet. *)
BrokerReads ==
    /\ c2s # <<>>
    /\ ReceiverHandles(Head(c2s))
    /\ c2s' = Tail(c2s)
    /\ UNCHANGED <<senderVars, bounds>>

(* The client reads one packet. *)
ClientReads ==
    /\ s2c # <<>>
    /\ SenderHandles(Head(s2c))
    /\ AnswerWritten
    /\ UNCHANGED bounds

(* The connection closes: an error of the network, either side's disconnect,
   or the application's answer to a protocol error. Whatever is under way in
   either direction is gone. Not the last one the bound allows: the network
   is good eventually. *)
ConnectionCloses ==
    /\ connects < MaxConnects
    /\ SenderClose
    /\ ReceiverClose
    /\ UNCHANGED bounds

SessionIsDropped ==
    /\ MayExpire
    /\ SessionExpires
    /\ conn = "closed"
    /\ UNCHANGED <<senderVars, c2s, bounds>>

Next == \/ ApplicationPublishes
        \/ ApplicationSubscribes
        \/ ClientConnects
        \/ BrokerReads
        \/ ClientReads
        \/ ConnectionCloses
        \/ SessionIsDropped

Spec == Init /\ [][Next]_vars

(* The sockets are read as long as they are open and the client reconnects. *)
FairSpec == /\ Spec
            /\ WF_vars(BrokerReads)
            /\ WF_vars(ClientReads)
            /\ WF_vars(ClientConnects)

-----------------------------------------------------------------------------
(* Type invariant: that of both ends, the packets on their way, the bounds. *)
ToReceiver == c2s \in Seq(PacketsToReceiver)

ToSender == s2c \in Seq(PacketsToSender)

BoundTypes == connects \in 0..MaxConnects /\ subscribes \in 0..MaxSubscribes

TypeOK == SenderTypes /\ ReceiverTypes /\ ToReceiver /\ ToSender /\ BoundTypes

-----------------------------------------------------------------------------
(* Packet ids *)

(* Every packet id a stored message or an unanswered SUBSCRIBE carries is in
   use, and by one of them only: pid_man_, store_ and sub_unsub_inflight_ are
   three structures under two mutexes that must agree. *)
PidsConsistent ==
    /\ \A i, j \in DOMAIN store : store[i].pid = store[j].pid => i = j
    /\ pids = StorePids \union subInflight
    /\ StorePids \intersect subInflight = {}

-----------------------------------------------------------------------------
(* Delivery *)

Times(m) == Cardinality({i \in DOMAIN delivered : delivered[i] = m})

(* A QoS 1 or 2 message leaves the client's store only by the answer to a
   publish the broker forwarded or refused, or with the whole session. *)
NothingLost ==
    \A m \in 1..issued :
        \/ Qos[m] = 0
        \/ m \in StoreMessages \union discarded \union Denied
        \/ Times(m) >= 1

(* First deliveries keep the order of publication. *)
First(i) == \A j \in 1..(i - 1) : delivered[j] # delivered[i]

InOrder ==
    \A i, j \in DOMAIN delivered :
        (i < j /\ First(i) /\ First(j) /\ Qos[delivered[i]] # 0 /\ Qos[delivered[j]] # 0)
            => delivered[i] < delivered[j]

(* No exchange of two endpoints of this library ends in "invalid puback /
   pubrec / pubcomp received". *)
NoProtocolError == conn # "halted"

(* Publishing keeps the promise of ReliableDelivery, a stored message being
   one that is owed. *)
Promise == INSTANCE ReliableDelivery WITH owed <- StoreMessages

ImplementsReliableDelivery == Promise!Spec

-----------------------------------------------------------------------------
(* The send window (v5) *)

Queued == {sendQueue[i].pid : i \in DOMAIN sendQueue}

(* The packet ids that hold a slot: publishes that were written and are not
   yet acknowledged, except the pubrels of an earlier connection. *)
InFlight == {store[i].pid : i \in
                {j \in DOMAIN store : IF IsPublish(store[j]) THEN store[j].pid \notin Queued
                                      ELSE store[j].pid \notin resendPubrel}}

(* The window is never overdrawn (so BOOST_ASSERT(publish_send_count_ > 0)
   holds whenever an answer arrives) and nothing is queued while it has room. *)
WindowSafe ==
    V5 => /\ Cardinality(InFlight) <= sendCount
          /\ sendCount <= ReceiveMax
          /\ sendQueue # <<>> => sendCount = ReceiveMax

(* The broker never has to refuse a publish for want of quota. *)
NoQuotaExceeded ==
    \A i \in DOMAIN s2c : s2c[i].type \in {"puback", "pubrec"} => s2c[i].reason # "quota_exceeded"

-----------------------------------------------------------------------------
(* Liveness *)

Settled(m) == m \in Denied \union discarded \/ Times(m) >= 1

(* Every QoS 1 and 2 message the application published gets to the broker's
   subscribers, is refused, or goes down with the session. *)
EventuallyDelivered ==
    \A m \in Messages : (issued >= m /\ Qos[m] # 0) ~> Settled(m)

(* Every handshake ends: in the end no packet id is taken. *)
PidsComeBack == <>[](issued = Len(Qos)) => <>[](pids = {})
=============================================================================
