------------------------- MODULE PublishFlowProofs --------------------------
(***************************************************************************)
(* For every list of messages, every set of packet ids and every Receive   *)
(* Maximum: the variables of the flow keep their types, and pid_man_,      *)
(* store_ and sub_unsub_inflight_ agree about the packet ids in use, as    *)
(* long as the application publishes and subscribes on an established      *)
(* connection only (or publishes while there is none).                     *)
(*                                                                         *)
(* Then, wherever the connection breaks: no exchange ends in a protocol    *)
(* error, the send window is never overdrawn, and the receiver never runs  *)
(* out of quota.                                                           *)
(*                                                                         *)
(* Last, what publishing promises: no message is lost between the two      *)
(* ends, first deliveries keep the order of publication, and the flow      *)
(* implements ReliableDelivery.                                            *)
(***************************************************************************)
EXTENDS PublishFlow, EntrySequencesProofs

-----------------------------------------------------------------------------
(* Packets *)

LEMMA MessagesHaveQos == \A m \in Messages : Qos[m] \in 0..2
<1>1. Len(Qos) \in Nat /\ Qos \in [1..Len(Qos) -> 0..2]
  BY PacketsAssumption, LenProperties
<1> QED BY <1>1 DEF Messages

LEMMA PidsAreNotNoPid == \A p \in Pids : p # NoPid
BY PacketsAssumption

(* What the sender writes. *)
LEMMA PacketsWritten ==
    /\ \A clean \in BOOLEAN : ConnectPacket(clean) \in PacketsToReceiver
    /\ \A m \in Messages : Qos[m] = 0 => PublishPacket(NoPid, m) \in PacketsToReceiver
    /\ \A p \in Pids, m \in Messages : Qos[m] # 0 => PublishPacket(p, m) \in PacketsToReceiver
    /\ \A p \in Pids : PubrelPacket(p) \in PacketsToReceiver
    /\ \A p \in Pids : SubscribePacket(p) \in PacketsToReceiver
BY PidsAreNotNoPid DEF ConnectPacket, PublishPacket, PubrelPacket, SubscribePacket,
                       PublishPackets, PacketsToReceiver

(* What the receiver writes. *)
LEMMA PacketsAnswered ==
    /\ \A present \in BOOLEAN : ConnackPacket(present) \in PacketsToSender
    /\ \A p \in Pids, r \in Reasons : PubackPacket(p, r) \in PacketsToSender
    /\ \A p \in Pids, r \in Reasons : PubrecPacket(p, r) \in PacketsToSender
    /\ \A p \in Pids : PubcompPacket(p) \in PacketsToSender
    /\ \A p \in Pids : SubackPacket(p) \in PacketsToSender
BY DEF ConnackPacket, PubackPacket, PubrecPacket, PubcompPacket, SubackPacket, PacketsToSender

(* The fields the handlers may look at. *)
LEMMA PacketsToReceiverFields ==
    ASSUME NEW x \in PacketsToReceiver
    PROVE  /\ x.type = "connect" => x.clean \in BOOLEAN
           /\ x.type = "publish" => /\ x.msg \in Messages
                                    /\ x.pid \in Pids \/ Qos[x.msg] = 0
           /\ x.type \in {"pubrel", "subscribe"} => x.pid \in Pids
BY DEF PacketsToReceiver, PublishPackets

LEMMA PacketsToSenderFields ==
    ASSUME NEW x \in PacketsToSender
    PROVE  /\ x.type = "connack" => x.present \in BOOLEAN
           /\ x.type \in {"puback", "pubrec"} => x.pid \in Pids /\ x.reason \in Reasons
           /\ x.type \in {"pubcomp", "suback"} => x.pid \in Pids
BY DEF PacketsToSender

-----------------------------------------------------------------------------
(* What the store hands out to be sent again. *)
LEMMA PickedEntries ==
    ASSUME store \in Seq(StoreEntries), NEW P \in SUBSET DOMAIN store
    PROVE  /\ IsFiniteSet(P) /\ P \in SUBSET Nat
           /\ Cardinality(P) \in Nat
           /\ Picked(P) \in [1..Cardinality(P) -> StoreEntries]
           /\ \A k \in 1..Cardinality(P) : Nth(P, k) \in P /\ Picked(P)[k] = store[Nth(P, k)]
BY SelectedEntries DEF Picked
-----------------------------------------------------------------------------
(* The invariant, part by part *)

(* A SUBSCRIBE waits for its answer on an established connection only. *)
SubscribesConnected == conn # "connected" => subInflight = {}

(* Every SUBSCRIBE and SUBACK under way has a packet id that is waited for, and
   no two have the same: ProcessSuback releases whatever packet id it reads. *)
SubscribesIn(s) == {i \in DOMAIN s : s[i].type = "subscribe"}
SubacksIn(s)    == {i \in DOMAIN s : s[i].type = "suback"}

SubacksAwaited ==
    conn # "halted" =>
        /\ \A i \in SubscribesIn(c2s) : c2s[i].pid \in subInflight
        /\ \A i \in SubacksIn(s2c) : s2c[i].pid \in subInflight
        /\ \A i, j \in SubscribesIn(c2s) : c2s[i].pid = c2s[j].pid => i = j
        /\ \A i, j \in SubacksIn(s2c) : s2c[i].pid = s2c[j].pid => i = j
        /\ \A i \in SubscribesIn(c2s), j \in SubacksIn(s2c) : c2s[i].pid # s2c[j].pid

IInv == TypeOK /\ PidsConsistent /\ SubscribesConnected /\ SubacksAwaited

LEMMA MaxUint16Type == MaxUint16 \in Nat
BY DEF MaxUint16

LEMMA CountsBelow == /\ ReceiveMax \in Nat
                     /\ 0 \in Counts
                     /\ \A n \in Nat : n <= ReceiveMax => n \in Counts
<1>1. ReceiveMax \in Nat /\ ReceiveMax <= MaxUint16
  BY PacketsAssumption, MaxUint16Type
<1>2. ASSUME NEW n \in Nat, n <= ReceiveMax PROVE n \in 0..MaxUint16
  BY <1>1, <1>2, MaxUint16Type
<1> QED BY <1>1, <1>2 DEF Counts

LEMMA CountsStep ==
    ASSUME NEW n \in Counts PROVE Incremented(n) \in Counts /\ Decremented(n) \in Counts
<1>1. n \in Nat /\ n <= MaxUint16 /\ MaxUint16 \in Nat /\ MaxUint16 + 1 > 0
  BY MaxUint16Type DEF Counts
<1>2. (n + 1) % (MaxUint16 + 1) \in 0..MaxUint16
  BY <1>1
<1>3. n # 0 => n - 1 \in 0..MaxUint16
  BY <1>1
<1>4. MaxUint16 \in 0..MaxUint16
  BY <1>1
<1> QED BY <1>2, <1>3, <1>4 DEF Counts, Incremented, Decremented

LEMMA InitIInv == Init => IInv
<1> SUFFICES ASSUME Init PROVE IInv
  OBVIOUS
<1> USE DEF Init, SenderInit, ReceiverInit
<1>1. Len(Qos) \in Nat
  BY PacketsAssumption, LenProperties
<1>2. 0 \in Counts
  BY CountsBelow
<1>4. SenderTypes
  BY <1>1, <1>2, EmptySeq DEF SenderTypes
<1>5. ReceiverTypes /\ ToReceiver /\ ToSender
  BY EmptySeq DEF ReceiverTypes, ToReceiver, ToSender
<1>6. BoundTypes
  BY FlowAssumption DEF BoundTypes
<1>3. PidsConsistent /\ SubscribesConnected /\ SubacksAwaited
  BY DEF PidsConsistent, StorePids, SubscribesConnected, SubacksAwaited, SubscribesIn, SubacksIn
<1> QED BY <1>3, <1>4, <1>5, <1>6 DEF IInv, TypeOK

(* t carries no SUBSCRIBE or SUBACK that s does not: it is s, perhaps without
   its head, and other packets behind it. *)
NoneAdded(s, t) ==
    \E d \in 0..1 : \A i \in DOMAIN t : \/ i + d \in DOMAIN s /\ t[i] = s[i + d]
                                       \/ t[i].type \notin {"subscribe", "suback"}

LEMMA NoneAddedWhenEqual == ASSUME NEW S, NEW s \in Seq(S) PROVE NoneAdded(s, s)
<1>1. \A i \in DOMAIN s : i + 0 \in DOMAIN s /\ s[i] = s[i + 0]
  BY LenProperties
<1> QED BY <1>1 DEF NoneAdded

LEMMA NoneAddedByTail ==
    ASSUME NEW S, NEW s \in Seq(S), s # <<>> PROVE NoneAdded(s, Tail(s))
BY AfterTail DEF NoneAdded

LEMMA NoneAddedByAppend ==
    ASSUME NEW S, NEW s \in Seq(S), NEW x \in S, x.type \notin {"subscribe", "suback"}
    PROVE  NoneAdded(s, Append(s, x))
<1>1. \A i \in DOMAIN Append(s, x) : \/ i \in DOMAIN s /\ Append(s, x)[i] = s[i]
                                     \/ Append(s, x)[i] = x
  BY AfterAppend
<1>2. \A i \in DOMAIN s : i + 0 = i
  BY LenProperties
<1> QED BY <1>1, <1>2 DEF NoneAdded

(* As long as nobody is waited for anew, the SUBSCRIBEs and SUBACKs under way
   stay awaited. *)
LEMMA TrafficKept ==
    ASSUME ToReceiver, ToSender, ToReceiver', ToSender', SubacksAwaited,
           conn' = "halted" \/ conn # "halted",
           NoneAdded(c2s, c2s'), NoneAdded(s2c, s2c'), UNCHANGED subInflight
    PROVE  SubacksAwaited'
<1> SUFFICES ASSUME conn # "halted" PROVE SubacksAwaited'
  BY DEF SubacksAwaited
<1>1. PICK c \in 0..1 : \A i \in DOMAIN c2s' :
          \/ i + c \in DOMAIN c2s /\ c2s'[i] = c2s[i + c]
          \/ c2s'[i].type \notin {"subscribe", "suback"}
  BY DEF NoneAdded
<1>2. PICK d \in 0..1 : \A i \in DOMAIN s2c' :
          \/ i + d \in DOMAIN s2c /\ s2c'[i] = s2c[i + d]
          \/ s2c'[i].type \notin {"subscribe", "suback"}
  BY DEF NoneAdded
<1>3. DOMAIN c2s' \subseteq Int /\ DOMAIN s2c' \subseteq Int
  BY LenProperties DEF ToReceiver, ToSender
<1>4. \A i \in SubscribesIn(c2s') : i + c \in SubscribesIn(c2s) /\ c2s'[i] = c2s[i + c]
  BY <1>1 DEF SubscribesIn
<1>5. \A i \in SubacksIn(s2c') : i + d \in SubacksIn(s2c) /\ s2c'[i] = s2c[i + d]
  BY <1>2 DEF SubacksIn
<1>6. SubscribesIn(c2s') \subseteq Int /\ SubacksIn(s2c') \subseteq Int
  BY <1>3 DEF SubscribesIn, SubacksIn
<1>12. c \in Int /\ d \in Int
  BY <1>1, <1>2
<1>7. \A i \in SubscribesIn(c2s') : c2s'[i].pid \in subInflight
  BY <1>4 DEF SubacksAwaited
<1>8. \A i \in SubacksIn(s2c') : s2c'[i].pid \in subInflight
  BY <1>5 DEF SubacksAwaited
<1>9. \A i, j \in SubscribesIn(c2s') : c2s'[i].pid = c2s'[j].pid => i = j
  <2> SUFFICES ASSUME NEW i \in SubscribesIn(c2s'), NEW j \in SubscribesIn(c2s'),
                      c2s'[i].pid = c2s'[j].pid
               PROVE  i = j
    OBVIOUS
  <2>1. i + c = j + c
    BY <1>4 DEF SubacksAwaited
  <2>2. i \in Int /\ j \in Int
    BY <1>6
  <2> QED BY <1>12, <2>1, <2>2
<1>10. \A i, j \in SubacksIn(s2c') : s2c'[i].pid = s2c'[j].pid => i = j
  <2> SUFFICES ASSUME NEW i \in SubacksIn(s2c'), NEW j \in SubacksIn(s2c'),
                      s2c'[i].pid = s2c'[j].pid
               PROVE  i = j
    OBVIOUS
  <2>1. i + d = j + d
    BY <1>5 DEF SubacksAwaited
  <2>2. i \in Int /\ j \in Int
    BY <1>6
  <2> QED BY <1>12, <2>1, <2>2
<1>11. \A i \in SubscribesIn(c2s'), j \in SubacksIn(s2c') : c2s'[i].pid # s2c'[j].pid
  BY <1>4, <1>5 DEF SubacksAwaited
<1> QED BY <1>7, <1>8, <1>9, <1>10, <1>11 DEF SubacksAwaited, SubscribesIn, SubacksIn

LEMMA WrittenPackets ==
    ASSUME ToReceiver, NEW q \in Seq(PacketsToReceiver)
    PROVE  /\ Written(q) \in Seq(PacketsToReceiver)
           /\ (\A i \in DOMAIN q : q[i].type # "subscribe") => NoneAdded(c2s, Written(q))
<1>1. \A i \in DOMAIN q : q[i].type # "suback"
  <2>1. \A i \in DOMAIN q : q[i] \in PacketsToReceiver
    BY LenProperties
  <2> QED BY <2>1 DEF PacketsToReceiver, PublishPackets
<1>2. CASE conn = "closed"
  BY <1>2, NoneAddedWhenEqual DEF Written, ToReceiver
<1>3. CASE conn # "closed"
  <2>1. Written(q) = c2s \o q
    BY <1>3 DEF Written
  <2>2. /\ c2s \o q \in Seq(PacketsToReceiver)
        /\ \A i \in DOMAIN (c2s \o q) :
              \/ i \in DOMAIN c2s /\ (c2s \o q)[i] = c2s[i]
              \/ i - Len(c2s) \in DOMAIN q /\ (c2s \o q)[i] = q[i - Len(c2s)]
    BY AfterConcat DEF ToReceiver
  <2>3. \A i \in DOMAIN c2s : i + 0 = i
    BY LenProperties DEF ToReceiver
  <2> QED BY <1>1, <2>1, <2>2, <2>3 DEF NoneAdded
<1> QED BY <1>2, <1>3

LEMMA WrittenPacket ==
    ASSUME ToReceiver, NEW x \in PacketsToReceiver
    PROVE  /\ Written(<<x>>) \in Seq(PacketsToReceiver)
           /\ x.type # "subscribe" => NoneAdded(c2s, Written(<<x>>))
<1>1. <<x>> \in Seq(PacketsToReceiver) /\ DOMAIN <<x>> = {1} /\ <<x>>[1] = x
  OBVIOUS
<1> QED BY <1>1, WrittenPackets
-----------------------------------------------------------------------------
(* The parts of the sender's steps *)

LEMMA PidsConsistentParts ==
    PidsConsistent <=> /\ Distinct(store)
                       /\ pids = PidsOf(store) \union subInflight
                       /\ PidsOf(store) \intersect subInflight = {}
BY DEF PidsConsistent, Distinct, PidsOf, StorePids

LEMMA StoreTypes ==
    ASSUME SenderTypes
    PROVE  /\ StorePids \subseteq Pids /\ StoreMessages \subseteq Messages
           /\ \A i \in DOMAIN store : store[i] \in StoreEntries
<1>1. \A i \in DOMAIN store : store[i] \in StoreEntries
  BY LenProperties DEF SenderTypes
<1> QED BY <1>1 DEF StorePids, StoreMessages, StoreEntries

LEMMA SlotReleasedStep ==
    ASSUME SenderTypes, ToReceiver, SlotReleased
    PROVE  /\ sendCount' \in Counts
           /\ sendQueue' \in Seq(QueueEntries)
           /\ ToReceiver'
           /\ NoneAdded(c2s, c2s')
<1>1. Decremented(sendCount) \in Counts /\ Incremented(Decremented(sendCount)) \in Counts
  BY CountsStep DEF SenderTypes
<1>2. CASE UNCHANGED <<sendQueue, c2s>> /\ sendCount' \in {sendCount, Decremented(sendCount)}
  BY <1>1, <1>2, NoneAddedWhenEqual DEF SenderTypes, ToReceiver
<1>3. CASE V5 /\ sendQueue # <<>>
  <2> DEFINE e == Head(sendQueue)
  <2>1. e \in QueueEntries /\ Tail(sendQueue) \in Seq(QueueEntries)
    BY <1>3, AfterTail DEF SenderTypes
  <2>2. PublishPacket(e.pid, e.msg) \in PacketsToReceiver
    BY <2>1, PacketsWritten DEF QueueEntries
  <2>3. PublishPacket(e.pid, e.msg).type # "subscribe"
    BY DEF PublishPacket
  <2>4. /\ sendCount' = Incremented(Decremented(sendCount))
        /\ sendQueue' = Tail(sendQueue)
        /\ c2s' = Written(<<PublishPacket(e.pid, e.msg)>>)
    BY <1>3 DEF SlotReleased
  <2> HIDE DEF e
  <2> QED BY <1>1, <2>1, <2>2, <2>3, <2>4, WrittenPacket DEF ToReceiver
<1> QED BY <1>2, <1>3 DEF SlotReleased

LEMMA ResendStoreStep ==
    ASSUME SenderTypes, ToReceiver, ResendStore
    PROVE  /\ sendCount' \in Counts
           /\ sendQueue' \in Seq(QueueEntries)
           /\ resendPubrel' \subseteq Pids
           /\ ToReceiver'
           /\ NoneAdded(c2s, c2s')
<1> DEFINE out  == (DOMAIN store \ StoredPublishes) \union LetOut
           rest == StoredPublishes \ LetOut
           sent    == Picked(out)
           waiting == Picked(rest)
           packets == [k \in DOMAIN sent |-> StoredPacket(sent[k])]
           queue   == [k \in DOMAIN waiting |-> QueueEntry(waiting[k])]
<1>1. store \in Seq(StoreEntries)
  BY DEF SenderTypes
<1>2. /\ LetOut \subseteq StoredPublishes
      /\ StoredPublishes \in SUBSET DOMAIN store
      /\ out \in SUBSET DOMAIN store
      /\ rest \in SUBSET DOMAIN store
  BY DEF LetOut, StoredPublishes
<1>3. /\ sendCount' = (IF V5 THEN Cardinality(LetOut) ELSE 0)
      /\ sendQueue' = queue
      /\ resendPubrel' \subseteq StorePids
      /\ c2s' = Written(packets)
  BY DEF ResendStore
<1>4. sendCount' \in Counts
  <2>1. CASE V5
    <3>1. StoredPublishes \in SUBSET Nat /\ IsFiniteSet(StoredPublishes)
      BY <1>1, <1>2, PickedEntries
    <3>2. LetOut = {i \in StoredPublishes : Rank(StoredPublishes, i) < ReceiveMax}
      BY <2>1 DEF LetOut
    <3>3. Cardinality(LetOut) \in 0..ReceiveMax
      BY <3>1, <3>2, CountsBelow, FewLowRanks
    <3>4. sendCount' = Cardinality(LetOut)
      BY <1>3, <2>1
    <3> QED BY <3>3, <3>4, CountsBelow
  <2>2. CASE ~V5
    <3>1. sendCount' = 0
      BY <1>3, <2>2
    <3> QED BY <3>1, CountsBelow
  <2> QED BY <2>1, <2>2
<1>5. \A e \in StoreEntries : /\ QueueEntry(e) \in QueueEntries
                               /\ StoredPacket(e) \in PacketsToReceiver
                               /\ StoredPacket(e).type # "subscribe"
  <2> SUFFICES ASSUME NEW e \in StoreEntries
               PROVE  /\ QueueEntry(e) \in QueueEntries
                      /\ StoredPacket(e) \in PacketsToReceiver
                      /\ StoredPacket(e).type # "subscribe"
    OBVIOUS
  <2>1. e.pid \in Pids /\ e.msg \in Messages /\ Qos[e.msg] # 0
    BY DEF StoreEntries
  <2>2. QueueEntry(e) \in QueueEntries
    BY <2>1 DEF QueueEntry, QueueEntries
  <2>3. PublishPacket(e.pid, e.msg) \in PacketsToReceiver /\ PubrelPacket(e.pid) \in PacketsToReceiver
    BY <2>1, PacketsWritten
  <2> QED BY <2>2, <2>3 DEF StoredPacket, PublishPacket, PubrelPacket
<1>6. sendQueue' \in Seq(QueueEntries)
  <2>1. /\ Cardinality(rest) \in Nat
        /\ waiting \in [1..Cardinality(rest) -> StoreEntries]
    BY <1>1, <1>2, PickedEntries
  <2>2. queue \in [1..Cardinality(rest) -> QueueEntries]
    BY <1>5, <2>1
  <2> HIDE DEF queue
  <2> QED BY <1>3, <2>1, <2>2, FunctionsAreSequences
<1>7. ToReceiver' /\ NoneAdded(c2s, c2s')
  <2>1. /\ Cardinality(out) \in Nat
        /\ sent \in [1..Cardinality(out) -> StoreEntries]
    BY <1>1, <1>2, PickedEntries
  <2>2. /\ packets \in [1..Cardinality(out) -> PacketsToReceiver]
        /\ \A i \in DOMAIN packets : packets[i].type # "subscribe"
    BY <1>5, <2>1
  <2> HIDE DEF packets
  <2>3. packets \in Seq(PacketsToReceiver)
    BY <2>1, <2>2, FunctionsAreSequences
  <2> QED BY <1>3, <2>2, <2>3, WrittenPackets DEF ToReceiver
<1>8. resendPubrel' \subseteq Pids
  BY <1>3, StoreTypes
<1> QED BY <1>4, <1>6, <1>7, <1>8
-----------------------------------------------------------------------------
(* The steps *)

LEMMA PidsConsistentNext ==
    ASSUME Distinct(store'), pids' = PidsOf(store') \union subInflight',
           PidsOf(store') \intersect subInflight' = {}
    PROVE  PidsConsistent'
BY DEF PidsConsistent, Distinct, PidsOf, StorePids

LEMMA NewStoreEntry ==
    ASSUME IInv, NEW p \in Pids, p \notin pids, NEW e \in StoreEntries, e.pid = p
    PROVE  /\ Inserted(store, e) \in Seq(StoreEntries)
           /\ Distinct(Inserted(store, e))
           /\ PidsOf(Inserted(store, e)) = PidsOf(store) \union {p}
<1>1. /\ store \in Seq(StoreEntries) /\ Distinct(store)
      /\ pids = PidsOf(store) \union subInflight
  BY PidsConsistentParts DEF IInv, TypeOK, SenderTypes
<1>2. e.pid \notin PidsOf(store)
  BY <1>1
<1>3. Inserted(store, e) = Append(store, e)
  BY <1>2 DEF Inserted, HasPid, PidsOf
<1> QED BY <1>1, <1>2, <1>3, AppendedOne

(* What a publication does to the sender. *)
LEMMA StoredPublication ==
    ASSUME IInv, NEW m \in Messages, PublishStored(m)
    PROVE  /\ store' \in Seq(StoreEntries) /\ pids' \subseteq Pids
           /\ sendCount' \in Counts /\ sendQueue' \in Seq(QueueEntries)
           /\ ToReceiver' /\ NoneAdded(c2s, c2s')
           /\ Distinct(store')
           /\ \E p \in Pids \ pids : /\ PidsOf(store') = PidsOf(store) \union {p}
                                     /\ pids' = pids \union {p}
<1>1. PICK p \in Pids :
         /\ Acquirable(p)
         /\ pids' = pids \union {p}
         /\ store' = Inserted(store, Entry(p, FirstAnswer(m), m))
         /\ IF WindowFull
            THEN /\ sendQueue' = Append(sendQueue, [pid |-> p, msg |-> m])
                 /\ UNCHANGED <<sendCount, c2s>>
            ELSE /\ sendCount' = IF V5 THEN Incremented(sendCount) ELSE sendCount
                 /\ c2s' = Written(<<PublishPacket(p, m)>>)
                 /\ UNCHANGED sendQueue
  BY DEF PublishStored
<1>2. p \notin pids /\ Qos[m] # 0 /\ Qos[m] \in 0..2
  BY <1>1, MessagesHaveQos DEF Acquirable, PublishStored
<1>3. /\ SenderTypes /\ ToReceiver /\ pids \subseteq Pids /\ sendCount \in Counts
      /\ sendQueue \in Seq(QueueEntries)
  BY DEF IInv, TypeOK, SenderTypes
<1>4. Entry(p, FirstAnswer(m), m) \in StoreEntries /\ Entry(p, FirstAnswer(m), m).pid = p
  BY <1>2 DEF Entry, FirstAnswer, StoreEntries, Awaited
<1>5. [pid |-> p, msg |-> m] \in QueueEntries
  BY <1>2 DEF QueueEntries
<1>6. CASE WindowFull
  <2>1. sendQueue' = Append(sendQueue, [pid |-> p, msg |-> m]) /\ UNCHANGED <<sendCount, c2s>>
    BY <1>1, <1>6
  <2>2. sendQueue' \in Seq(QueueEntries)
    BY <1>3, <1>5, <2>1, AppendProperties
  <2>3. sendCount' \in Counts /\ ToReceiver' /\ NoneAdded(c2s, c2s')
    BY <1>3, <2>1, NoneAddedWhenEqual DEF ToReceiver
  <2> QED BY <1>1, <1>2, <1>3, <1>4, <2>2, <2>3, NewStoreEntry
<1>7. CASE ~WindowFull
  <2>1. /\ sendCount' \in {sendCount, Incremented(sendCount)}
        /\ c2s' = Written(<<PublishPacket(p, m)>>)
        /\ UNCHANGED sendQueue
    BY <1>1, <1>7
  <2>2. PublishPacket(p, m) \in PacketsToReceiver /\ PublishPacket(p, m).type # "subscribe"
    BY <1>2, PacketsWritten DEF PublishPacket
  <2>3. ToReceiver' /\ NoneAdded(c2s, c2s')
    BY <1>3, <2>1, <2>2, WrittenPacket DEF ToReceiver
  <2>4. sendCount' \in Counts /\ sendQueue' \in Seq(QueueEntries)
    BY <1>3, <2>1, CountsStep
  <2> QED BY <1>1, <1>2, <1>3, <1>4, <2>3, <2>4, NewStoreEntry
<1> QED BY <1>6, <1>7

LEMMA PublishStep == ASSUME IInv, ApplicationPublishes PROVE IInv'
<1>1. /\ Publish /\ TypeOK /\ SubscribesConnected /\ SubacksAwaited
      /\ UNCHANGED <<conn, subInflight, resendPubrel, discarded, session, handled, received,
                     delivered, s2c, connects, subscribes>>
      /\ Distinct(store) /\ pids = PidsOf(store) \union subInflight
      /\ PidsOf(store) \intersect subInflight = {}
  BY PidsConsistentParts DEF IInv, ApplicationPublishes, Publish, receiverVars, bounds
<1>2. issued' \in Messages /\ issued' \in 0..Len(Qos)
  <2>1. issued \in 0..Len(Qos) /\ Len(Qos) \in Nat /\ issued < Len(Qos) /\ issued' = issued + 1
    BY <1>1, PacketsAssumption, LenProperties DEF Publish, TypeOK, SenderTypes
  <2> QED BY <2>1 DEF Messages
<1>3. /\ store' \in Seq(StoreEntries) /\ pids' \subseteq Pids
      /\ sendCount' \in Counts /\ sendQueue' \in Seq(QueueEntries)
      /\ ToReceiver' /\ NoneAdded(c2s, c2s')
      /\ Distinct(store')
      /\ pids' = PidsOf(store') \union subInflight
      /\ PidsOf(store') \intersect subInflight = {}
  <2>1. CASE PublishQos0(issued')
    <3>1. /\ Qos[issued'] = 0 /\ c2s' = Written(<<PublishPacket(NoPid, issued')>>)
          /\ UNCHANGED <<store, pids, sendCount, sendQueue>>
      BY <2>1 DEF PublishQos0
    <3>2. /\ PublishPacket(NoPid, issued') \in PacketsToReceiver
          /\ PublishPacket(NoPid, issued').type # "subscribe"
      BY <1>2, <3>1, PacketsWritten DEF PublishPacket
    <3>3. ToReceiver' /\ NoneAdded(c2s, c2s')
      BY <1>1, <3>1, <3>2, WrittenPacket DEF ToReceiver, TypeOK
    <3> QED BY <1>1, <3>1, <3>3 DEF TypeOK, SenderTypes
  <2>2. CASE PublishStored(issued')
    BY <1>1, <1>2, <2>2, StoredPublication
  <2> QED BY <1>1, <2>1, <2>2 DEF Publish
<1>4. TypeOK'
  BY <1>1, <1>2, <1>3 DEF TypeOK, SenderTypes, ReceiverTypes, ToSender, BoundTypes
<1>5. PidsConsistent' /\ SubscribesConnected'
  BY <1>1, <1>3, PidsConsistentNext DEF SubscribesConnected
<1>6. SubacksAwaited'
  <2>1. NoneAdded(s2c, s2c')
    BY <1>1, NoneAddedWhenEqual DEF TypeOK, ToSender
  <2> QED BY <1>1, <1>3, <1>4, <2>1, TrafficKept DEF TypeOK
<1> QED BY <1>4, <1>5, <1>6 DEF IInv

LEMMA ConnectStep == ASSUME IInv, ClientConnects PROVE IInv'
<1>1. /\ conn = "closed" /\ conn' = "connecting" /\ connects < MaxConnects /\ connects' = connects + 1
      /\ \E clean \in CleanStarts : c2s' = <<ConnectPacket(clean)>>
      /\ UNCHANGED <<issued, store, pids, subInflight, sendCount, sendQueue, resendPubrel,
                     discarded, session, handled, received, delivered, s2c, subscribes>>
  BY DEF ClientConnects, Connect, receiverVars, bounds
<1>2. TypeOK /\ PidsConsistent /\ SubscribesConnected /\ SubacksAwaited
  BY DEF IInv
<1>3. PICK clean \in CleanStarts : c2s' = <<ConnectPacket(clean)>>
  BY <1>1
<1>4. ConnectPacket(clean) \in PacketsToReceiver
  BY FlowAssumption, PacketsWritten
<1>5. ToReceiver' /\ NoneAdded(c2s, c2s')
  BY <1>3, <1>4 DEF ToReceiver, NoneAdded, ConnectPacket
<1>6. connects' \in 0..MaxConnects
  BY <1>1, <1>2, FlowAssumption DEF TypeOK, BoundTypes
<1>7. TypeOK'
  BY <1>1, <1>2, <1>5, <1>6 DEF TypeOK, SenderTypes, ReceiverTypes, ToSender, BoundTypes
<1>8. PidsConsistent' /\ SubscribesConnected'
  BY <1>1, <1>2 DEF PidsConsistent, StorePids, SubscribesConnected
<1>9. SubacksAwaited'
  <2>1. NoneAdded(s2c, s2c')
    BY <1>1, <1>2, NoneAddedWhenEqual DEF TypeOK, ToSender
  <2> QED BY <1>1, <1>2, <1>5, <1>7, <2>1, TrafficKept DEF TypeOK
<1> QED BY <1>7, <1>8, <1>9 DEF IInv

LEMMA CloseStep == ASSUME IInv, ConnectionCloses PROVE IInv'
<1>1. /\ conn' = "closed" /\ pids' = pids \ subInflight /\ subInflight' = {}
      /\ c2s' = <<>> /\ s2c' = <<>>
      /\ session' \in {"none", "offline"}
      /\ UNCHANGED <<issued, store, sendCount, sendQueue, resendPubrel, discarded, handled,
                     received, delivered, connects, subscribes>>
  BY DEF ConnectionCloses, SenderClose, ReceiverClose, bounds
<1>2. TypeOK /\ PidsConsistent
  BY DEF IInv
<1>3. TypeOK'
  BY <1>1, <1>2, EmptySeq
     DEF TypeOK, SenderTypes, ReceiverTypes, ToReceiver, ToSender, BoundTypes
<1>4. PidsConsistent' /\ SubscribesConnected'
  BY <1>1, <1>2 DEF PidsConsistent, StorePids, SubscribesConnected
<1>5. SubacksAwaited'
  BY <1>1 DEF SubacksAwaited, SubscribesIn, SubacksIn
<1> QED BY <1>3, <1>4, <1>5 DEF IInv

LEMMA DropStep == ASSUME IInv, SessionIsDropped PROVE IInv'
<1>1. /\ session' = "none" /\ handled' = {}
      /\ UNCHANGED <<conn, issued, store, pids, subInflight, sendCount, sendQueue, resendPubrel,
                     discarded, c2s, received, delivered, s2c, connects, subscribes>>
  BY DEF SessionIsDropped, SessionExpires, senderVars, bounds
<1>2. TypeOK'
  BY <1>1 DEF IInv, TypeOK, SenderTypes, ReceiverTypes, ToReceiver, ToSender, BoundTypes
<1>3. PidsConsistent' /\ SubscribesConnected' /\ SubacksAwaited'
  BY <1>1 DEF IInv, PidsConsistent, StorePids, SubscribesConnected, SubacksAwaited,
              SubscribesIn, SubacksIn
<1> QED BY <1>2, <1>3 DEF IInv

LEMMA StutterStep == ASSUME IInv, UNCHANGED vars PROVE IInv'
<1>1. TypeOK'
  BY DEF IInv, vars, TypeOK, SenderTypes, ReceiverTypes, ToReceiver, ToSender, BoundTypes
<1>2. PidsConsistent' /\ SubscribesConnected' /\ SubacksAwaited'
  BY DEF IInv, vars, PidsConsistent, StorePids, SubscribesConnected, SubacksAwaited,
         SubscribesIn, SubacksIn
<1> QED BY <1>1, <1>2 DEF IInv

LEMMA SubscribeStep == ASSUME IInv, ~AnyTime, ApplicationSubscribes PROVE IInv'
<1>1. /\ conn = "connected" /\ subscribes < MaxSubscribes /\ subscribes' = subscribes + 1
      /\ UNCHANGED <<conn, issued, store, sendCount, sendQueue, resendPubrel, discarded, session,
                     handled, received, delivered, s2c, connects>>
  BY DEF ApplicationSubscribes, Subscribe, receiverVars
<1>2. PICK p \in Pids : /\ Acquirable(p)
                        /\ pids' = pids \union {p}
                        /\ subInflight' = subInflight \union {p}
                        /\ c2s' = Written(<<SubscribePacket(p)>>)
  BY DEF ApplicationSubscribes, Subscribe
<1>3. TypeOK /\ PidsConsistent /\ SubacksAwaited
  BY DEF IInv
<1>4. p \notin pids /\ p \notin StorePids /\ p \notin subInflight
  BY <1>2, <1>3 DEF Acquirable, PidsConsistent
<1> DEFINE x == SubscribePacket(p)
<1>5. x \in PacketsToReceiver /\ x.type = "subscribe" /\ x.pid = p
  BY PacketsWritten DEF SubscribePacket
<1>6. c2s' = c2s \o <<x>>
  BY <1>1, <1>2 DEF Written
<1>13. <<x>> \in Seq(PacketsToReceiver) /\ DOMAIN <<x>> = {1} /\ <<x>>[1] = x
  BY <1>5
<1> HIDE DEF x
<1>7. /\ ToReceiver'
      /\ \A i \in DOMAIN c2s' : \/ i \in DOMAIN c2s /\ c2s'[i] = c2s[i]
                                \/ i = Len(c2s) + 1 /\ c2s'[i] = x
  <2>1. /\ c2s' \in Seq(PacketsToReceiver)
        /\ \A i \in DOMAIN c2s' : \/ i \in DOMAIN c2s /\ c2s'[i] = c2s[i]
                                  \/ /\ i - Len(c2s) \in DOMAIN <<x>>
                                     /\ c2s'[i] = <<x>>[i - Len(c2s)]
    BY <1>3, <1>6, <1>13, AfterConcat DEF TypeOK, ToReceiver
  <2>2. DOMAIN c2s' \subseteq Int /\ Len(c2s) \in Int
    BY <1>3, <2>1, LenProperties DEF TypeOK, ToReceiver
  <2>3. \A i \in DOMAIN c2s' : i - Len(c2s) = 1 => i = Len(c2s) + 1
    BY <2>2
  <2> QED BY <1>13, <2>1, <2>3 DEF ToReceiver
<1>8. TypeOK'
  <2>1. subscribes' \in 0..MaxSubscribes
    BY <1>1, <1>3, FlowAssumption DEF TypeOK, BoundTypes
  <2> QED BY <1>1, <1>2, <1>3, <1>7, <2>1
          DEF TypeOK, SenderTypes, ReceiverTypes, ToSender, BoundTypes
<1>9. PidsConsistent'
  BY <1>1, <1>2, <1>3, <1>4 DEF PidsConsistent, StorePids
<1>10. SubscribesConnected'
  BY <1>1 DEF SubscribesConnected
<1>11. /\ \A i \in SubscribesIn(c2s') : \/ i \in SubscribesIn(c2s) /\ c2s'[i] = c2s[i]
                                        \/ i = Len(c2s) + 1 /\ c2s'[i].pid = p
       /\ SubacksIn(s2c') = SubacksIn(s2c)
  BY <1>1, <1>5, <1>7 DEF SubscribesIn, SubacksIn
<1>12. SubacksAwaited'
  <2>1. /\ \A i \in SubscribesIn(c2s) : c2s[i].pid \in subInflight
        /\ \A i \in SubacksIn(s2c) : s2c[i].pid \in subInflight
        /\ \A i, j \in SubscribesIn(c2s) : c2s[i].pid = c2s[j].pid => i = j
        /\ \A i, j \in SubacksIn(s2c) : s2c[i].pid = s2c[j].pid => i = j
        /\ \A i \in SubscribesIn(c2s), j \in SubacksIn(s2c) : c2s[i].pid # s2c[j].pid
    BY <1>1, <1>3 DEF SubacksAwaited
  <2>2. /\ \A i \in SubscribesIn(c2s') : c2s'[i].pid \in subInflight'
        /\ \A i \in SubacksIn(s2c') : s2c'[i].pid \in subInflight'
    BY <1>1, <1>2, <1>11, <2>1
  <2>3. /\ \A i, j \in SubscribesIn(c2s') : c2s'[i].pid = c2s'[j].pid => i = j
        /\ \A i, j \in SubacksIn(s2c') : s2c'[i].pid = s2c'[j].pid => i = j
        /\ \A i \in SubscribesIn(c2s'), j \in SubacksIn(s2c') : c2s'[i].pid # s2c'[j].pid
    BY <1>1, <1>4, <1>11, <2>1
  <2> QED BY <2>2, <2>3 DEF SubacksAwaited, SubscribesIn, SubacksIn
<1> QED BY <1>8, <1>9, <1>10, <1>12 DEF IInv

(* What the broker's endpoint appends to its write queue. *)
LEMMA AnswerPacket ==
    ASSUME ToSender, NEW x \in PacketsToSender
    PROVE  /\ Append(s2c, x) \in Seq(PacketsToSender)
           /\ Answer(x) \in Seq(PacketsToSender)
           /\ x.type # "suback" => NoneAdded(s2c, Append(s2c, x)) /\ NoneAdded(s2c, Answer(x))
<1>1. s2c \in Seq(PacketsToSender)
  BY DEF ToSender
<1>2. x.type # "subscribe"
  BY DEF PacketsToSender
<1>3. Append(s2c, x) \in Seq(PacketsToSender)
  BY <1>1, AppendProperties
<1>4. x.type # "suback" => NoneAdded(s2c, Append(s2c, x))
  BY <1>1, <1>2, NoneAddedByAppend
<1>5. NoneAdded(s2c, s2c)
  BY <1>1, NoneAddedWhenEqual
<1> QED BY <1>1, <1>3, <1>4, <1>5 DEF Answer

LEMMA ForwardedType ==
    ASSUME ReceiverTypes, NEW m \in Messages PROVE Forwarded(m) \in Seq(Messages)
BY AppendProperties DEF Forwarded, ReceiverTypes

LEMMA ReceivePublishTypes ==
    ASSUME ReceiverTypes, ToSender, NEW m \in Messages, NEW p, p \in Pids \/ Qos[m] = 0,
           ReceivePublish(p, m)
    PROVE  ReceiverTypes' /\ ToSender' /\ NoneAdded(s2c, s2c')
<1>1. Forwarded(m) \in Seq(Messages)
  BY ForwardedType
<1>2. Verdict(m) \in Reasons /\ "quota_exceeded" \in Reasons /\ "success" \in Reasons
  BY DEF Verdict, Reasons
<1>3. NoneAdded(s2c, s2c)
  BY NoneAddedWhenEqual DEF ToSender
<1>4. CASE Qos[m] = 0 /\ ReceiveQos0(m)
  BY <1>1, <1>3, <1>4 DEF ReceiveQos0, ReceiverTypes, ToSender
<1>5. CASE p \in Pids /\ ReceiveQos1(p, m)
  <2>1. \A r \in Reasons : PubackPacket(p, r) \in PacketsToSender /\ PubackPacket(p, r).type # "suback"
    BY <1>5, PacketsAnswered DEF PubackPacket
  <2>2. /\ s2c' \in {Append(s2c, PubackPacket(p, "quota_exceeded")), Answer(PubackPacket(p, Verdict(m)))}
        /\ received' \in {received, received \union {p}}
        /\ delivered' \in {delivered, Forwarded(m)}
        /\ UNCHANGED <<session, handled>>
    BY <1>5 DEF ReceiveQos1, WithReceived
  <2>3. ToSender' /\ NoneAdded(s2c, s2c')
    BY <1>2, <2>1, <2>2, AnswerPacket DEF ToSender
  <2> QED BY <1>1, <1>5, <2>2, <2>3 DEF ReceiverTypes
<1>6. CASE p \in Pids /\ ReceiveQos2(p, m)
  <2>1. \A r \in Reasons : PubrecPacket(p, r) \in PacketsToSender /\ PubrecPacket(p, r).type # "suback"
    BY <1>6, PacketsAnswered DEF PubrecPacket
  <2>2. /\ s2c' \in {Append(s2c, PubrecPacket(p, "quota_exceeded")),
                     Append(s2c, PubrecPacket(p, "success")), Answer(PubrecPacket(p, Verdict(m)))}
        /\ received' \in {received, received \union {p}}
        /\ handled' \in {handled, handled \union {p}}
        /\ delivered' \in {delivered, Forwarded(m)}
        /\ UNCHANGED session
    BY <1>6 DEF ReceiveQos2, ReceiveQos2First, WithReceived
  <2>3. ToSender' /\ NoneAdded(s2c, s2c')
    BY <1>2, <2>1, <2>2, AnswerPacket DEF ToSender
  <2> QED BY <1>1, <1>6, <2>2, <2>3 DEF ReceiverTypes
<1> QED BY <1>4, <1>5, <1>6 DEF ReceivePublish

(* Every packet but a SUBSCRIBE. *)
LEMMA ReceiverTypesKept ==
    ASSUME ReceiverTypes, ToSender, NEW x \in PacketsToReceiver, x.type # "subscribe",
           ReceiverHandles(x)
    PROVE  ReceiverTypes' /\ ToSender' /\ NoneAdded(s2c, s2c')
<1>1. CASE x.type = "connect" /\ ReceiveConnect(x.clean)
  <2>1. /\ session' \in {"resuming", "live"}
        /\ handled' \in {handled, {}}
        /\ received' = {}
        /\ \E present \in BOOLEAN : s2c' = <<ConnackPacket(present)>>
        /\ UNCHANGED delivered
    BY <1>1 DEF ReceiveConnect
  <2>2. PICK present \in BOOLEAN : s2c' = <<ConnackPacket(present)>>
    BY <2>1
  <2>3. ConnackPacket(present) \in PacketsToSender
    BY PacketsAnswered
  <2>4. ToSender' /\ NoneAdded(s2c, s2c')
    BY <2>2, <2>3 DEF ToSender, NoneAdded, ConnackPacket
  <2> QED BY <2>1, <2>4 DEF ReceiverTypes
<1>2. CASE x.type = "publish" /\ ReceivePublish(x.pid, x.msg)
  BY <1>2, PacketsToReceiverFields, ReceivePublishTypes
<1>3. CASE x.type = "pubrel" /\ ReceivePubrel(x.pid)
  <2>1. x.pid \in Pids
    BY <1>3, PacketsToReceiverFields
  <2>2. PubcompPacket(x.pid) \in PacketsToSender /\ PubcompPacket(x.pid).type # "suback"
    BY <2>1, PacketsAnswered DEF PubcompPacket
  <2>3. /\ handled' \subseteq handled /\ s2c' = Answer(PubcompPacket(x.pid))
        /\ UNCHANGED <<session, received, delivered>>
    BY <1>3 DEF ReceivePubrel
  <2>4. ToSender' /\ NoneAdded(s2c, s2c')
    BY <2>2, <2>3, AnswerPacket DEF ToSender
  <2> QED BY <2>3, <2>4 DEF ReceiverTypes
<1> QED BY <1>1, <1>2, <1>3 DEF ReceiverHandles

LEMMA BrokerStep == ASSUME IInv, BrokerReads PROVE IInv'
<1> DEFINE x == Head(c2s)
<1>1. /\ c2s # <<>> /\ ReceiverHandles(x) /\ c2s' = Tail(c2s)
      /\ UNCHANGED <<conn, issued, store, pids, subInflight, sendCount, sendQueue, resendPubrel,
                     discarded, connects, subscribes>>
  BY DEF BrokerReads, senderVars, bounds
<1>2. TypeOK /\ PidsConsistent /\ SubscribesConnected /\ SubacksAwaited
  BY DEF IInv
<1>3. /\ x \in PacketsToReceiver /\ x = c2s[1] /\ 1 \in DOMAIN c2s
      /\ c2s' \in Seq(PacketsToReceiver) /\ ToReceiver'
      /\ \A i \in DOMAIN c2s' : i + 1 \in DOMAIN c2s /\ c2s'[i] = c2s[i + 1]
      /\ NoneAdded(c2s, c2s')
  BY <1>1, <1>2, AfterTail, NoneAddedByTail DEF TypeOK, ToReceiver
<1> HIDE DEF x
<1>4. PidsConsistent' /\ SubscribesConnected' /\ SenderTypes' /\ BoundTypes'
  BY <1>1, <1>2 DEF PidsConsistent, StorePids, SubscribesConnected, TypeOK, SenderTypes, BoundTypes
<1>5. CASE x.type # "subscribe"
  <2>1. ReceiverTypes' /\ ToSender' /\ NoneAdded(s2c, s2c')
    BY <1>1, <1>2, <1>3, <1>5, ReceiverTypesKept DEF TypeOK
  <2>2. SubacksAwaited'
    BY <1>1, <1>2, <1>3, <2>1, TrafficKept DEF TypeOK, SubacksAwaited
  <2> QED BY <1>3, <1>4, <2>1, <2>2 DEF IInv, TypeOK
<1>6. CASE x.type = "subscribe"
  <2> DEFINE y == SubackPacket(x.pid)
  <2>1. /\ s2c' = Answer(y) /\ UNCHANGED <<session, handled, received, delivered>>
    BY <1>1, <1>6 DEF ReceiverHandles, ReceiveSubscribe
  <2>2. x.pid \in Pids /\ y \in PacketsToSender /\ y.pid = x.pid
    BY <1>3, <1>6, PacketsToReceiverFields, PacketsAnswered DEF SubackPacket
  <2> HIDE DEF y
  <2>3. ToSender' /\ ReceiverTypes'
    BY <1>2, <2>1, <2>2, AnswerPacket DEF TypeOK, ToSender, ReceiverTypes
  <2>4. \A i \in DOMAIN s2c' : \/ i \in DOMAIN s2c /\ s2c'[i] = s2c[i]
                               \/ i = Len(s2c) + 1 /\ s2c'[i] = y
    BY <1>2, <2>1, <2>2, AfterAppend DEF Answer, TypeOK, ToSender
  <2>5. SubacksAwaited'
    <3> SUFFICES ASSUME conn # "halted" PROVE SubacksAwaited'
      BY <1>1 DEF SubacksAwaited
    <3>1. 1 \in SubscribesIn(c2s) /\ c2s[1].pid = x.pid
      BY <1>3, <1>6 DEF SubscribesIn
    <3>2. \A i \in SubscribesIn(c2s') : i + 1 \in SubscribesIn(c2s) /\ c2s'[i] = c2s[i + 1]
      BY <1>3 DEF SubscribesIn
    <3>3. \A i \in SubacksIn(s2c') : \/ i \in SubacksIn(s2c) /\ s2c'[i] = s2c[i]
                                     \/ i = Len(s2c) + 1 /\ s2c'[i].pid = x.pid
      BY <2>2, <2>4 DEF SubacksIn
    <3>4. /\ \A i \in SubscribesIn(c2s) : c2s[i].pid \in subInflight
          /\ \A i \in SubacksIn(s2c) : s2c[i].pid \in subInflight
          /\ \A i, j \in SubscribesIn(c2s) : c2s[i].pid = c2s[j].pid => i = j
          /\ \A i, j \in SubacksIn(s2c) : s2c[i].pid = s2c[j].pid => i = j
          /\ \A i \in SubscribesIn(c2s), j \in SubacksIn(s2c) : c2s[i].pid # s2c[j].pid
      BY <1>2 DEF SubacksAwaited
    <3>5. SubscribesIn(c2s') \subseteq 1..Len(c2s')
      BY <1>3, LenProperties DEF SubscribesIn
    <3>10. SubscribesIn(c2s') \subseteq Nat \ {0}
      BY <1>3, <3>5, LenProperties
    <3>6. /\ \A i \in SubscribesIn(c2s') : c2s'[i].pid \in subInflight'
          /\ \A i \in SubacksIn(s2c') : s2c'[i].pid \in subInflight'
      BY <1>1, <3>1, <3>2, <3>3, <3>4
    <3>7. \A i, j \in SubscribesIn(c2s') : c2s'[i].pid = c2s'[j].pid => i = j
      <4> SUFFICES ASSUME NEW i \in SubscribesIn(c2s'), NEW j \in SubscribesIn(c2s'),
                          c2s'[i].pid = c2s'[j].pid
                   PROVE  i = j
        OBVIOUS
      <4>1. i + 1 = j + 1
        BY <3>2, <3>4
      <4>2. i \in Nat /\ j \in Nat
        BY <3>10
      <4> QED BY <4>1, <4>2
    <3>11. \A i \in SubscribesIn(c2s') : c2s'[i].pid # x.pid
      <4> SUFFICES ASSUME NEW i \in SubscribesIn(c2s'), c2s'[i].pid = x.pid PROVE FALSE
        OBVIOUS
      <4>1. i + 1 = 1
        BY <3>1, <3>2, <3>4
      <4>2. i \in Nat \ {0}
        BY <3>10
      <4> QED BY <4>1, <4>2
    <3>8. \A i \in SubscribesIn(c2s'), j \in SubacksIn(s2c') : c2s'[i].pid # s2c'[j].pid
      BY <3>2, <3>3, <3>4, <3>11
    <3>9. \A i, j \in SubacksIn(s2c') : s2c'[i].pid = s2c'[j].pid => i = j
      BY <3>1, <3>3, <3>4
    <3> QED BY <3>6, <3>7, <3>8, <3>9 DEF SubacksAwaited, SubscribesIn, SubacksIn
  <2> QED BY <1>3, <1>4, <2>3, <2>5 DEF IInv, TypeOK
<1> QED BY <1>5, <1>6

-----------------------------------------------------------------------------
(* The client reads an answer. What each handler leaves of the sender: *)
SenderAfter ==
    /\ SenderTypes' /\ ToReceiver' /\ PidsConsistent' /\ SubscribesConnected'
    /\ conn' = "halted" \/ conn' = "connected"
    /\ conn' # "halted" => NoneAdded(c2s, c2s') /\ UNCHANGED subInflight

LEMMA ProtocolErrorStep == ASSUME IInv, ProtocolError PROVE SenderAfter
<1>1. /\ conn' = "halted" /\ pids' = pids \ subInflight /\ subInflight' = {}
      /\ UNCHANGED <<issued, store, sendCount, sendQueue, resendPubrel, discarded, c2s>>
  BY DEF ProtocolError
<1>2. SenderTypes' /\ ToReceiver'
  BY <1>1 DEF IInv, TypeOK, SenderTypes, ToReceiver
<1>3. PidsConsistent' /\ SubscribesConnected'
  BY <1>1 DEF IInv, PidsConsistent, StorePids, SubscribesConnected
<1> QED BY <1>1, <1>2, <1>3 DEF SenderAfter

LEMMA ConnackStep == ASSUME IInv, NEW present, ProcessConnack(present) PROVE SenderAfter
<1>1. /\ conn = "connecting" /\ conn' = "connected" /\ UNCHANGED <<issued, subInflight>>
      /\ ResendStore \/ ClearSessionData
  BY DEF ProcessConnack
<1>2. /\ SenderTypes /\ ToReceiver /\ PidsConsistent /\ subInflight = {}
  BY <1>1 DEF IInv, TypeOK, SubscribesConnected
<1>3. CASE ResendStore
  <2>1. /\ sendCount' \in Counts
        /\ sendQueue' \in Seq(QueueEntries)
        /\ resendPubrel' \subseteq Pids
        /\ ToReceiver'
        /\ NoneAdded(c2s, c2s')
    BY <1>2, <1>3, ResendStoreStep
  <2>2. UNCHANGED <<store, pids, discarded>>
    BY <1>3 DEF ResendStore
  <2>3. SenderTypes'
    BY <1>1, <1>2, <2>1, <2>2 DEF SenderTypes
  <2>4. PidsConsistent' /\ SubscribesConnected'
    BY <1>1, <1>2, <2>2 DEF PidsConsistent, StorePids, SubscribesConnected
  <2> QED BY <1>1, <2>1, <2>3, <2>4 DEF SenderAfter
<1>4. CASE ClearSessionData
  <2>1. /\ store' = <<>> /\ pids' = {} /\ discarded' = discarded \union StoreMessages
        /\ sendCount' = 0 /\ sendQueue' = <<>> /\ resendPubrel' = {} /\ UNCHANGED c2s
    BY <1>4 DEF ClearSessionData
  <2>2. SenderTypes'
    BY <1>1, <1>2, <2>1, StoreTypes, CountsBelow, EmptySeq DEF SenderTypes
  <2>3. PidsConsistent' /\ SubscribesConnected'
    BY <1>1, <1>2, <2>1 DEF PidsConsistent, StorePids, SubscribesConnected
  <2>4. ToReceiver' /\ NoneAdded(c2s, c2s')
    BY <1>2, <2>1, NoneAddedWhenEqual DEF ToReceiver
  <2> QED BY <1>1, <2>2, <2>3, <2>4 DEF SenderAfter
<1> QED BY <1>1, <1>3, <1>4

(* The packet id of a held message goes with it. *)
LEMMA HeldErased ==
    ASSUME IInv, NEW p \in Pids, NEW kind, Holds(p, kind)
    PROVE  /\ Erased(store, p) \in Seq(StoreEntries)
           /\ Distinct(Erased(store, p))
           /\ PidsOf(Erased(store, p)) = PidsOf(store) \ {p}
           /\ p \in PidsOf(store) /\ p \in pids /\ p \notin subInflight
           /\ pids \ {p} = PidsOf(Erased(store, p)) \union subInflight
           /\ PidsOf(Erased(store, p)) \intersect subInflight = {}
<1>1. /\ store \in Seq(StoreEntries) /\ Distinct(store)
      /\ pids = PidsOf(store) \union subInflight
      /\ PidsOf(store) \intersect subInflight = {}
  BY PidsConsistentParts DEF IInv, TypeOK, SenderTypes
<1>2. p \in PidsOf(store)
  BY DEF Holds, PidsOf
<1>3. /\ Erased(store, p) \in Seq(StoreEntries)
      /\ Distinct(Erased(store, p))
      /\ PidsOf(Erased(store, p)) = PidsOf(store) \ {p}
  BY <1>1, <1>2, ErasedOne
<1> QED BY <1>1, <1>2, <1>3

(* A message is acknowledged for good. *)
LEMMA ReleaseStep ==
    ASSUME IInv, conn = "connected", NEW p \in Pids, NEW kind, Holds(p, kind),
           store' = Erased(store, p), pids' = pids \ {p},
           SlotReleased \/ UNCHANGED <<sendCount, sendQueue, c2s>>,
           UNCHANGED <<conn, issued, subInflight, resendPubrel, discarded>>
    PROVE  SenderAfter
<1>1. SenderTypes /\ ToReceiver
  BY DEF IInv, TypeOK
<1>2. /\ sendCount' \in Counts
      /\ sendQueue' \in Seq(QueueEntries)
      /\ ToReceiver'
      /\ NoneAdded(c2s, c2s')
  <2>1. CASE SlotReleased
    BY <1>1, <2>1, SlotReleasedStep
  <2>2. CASE UNCHANGED <<sendCount, sendQueue, c2s>>
    BY <1>1, <2>2, NoneAddedWhenEqual DEF SenderTypes, ToReceiver
  <2> QED BY <2>1, <2>2
<1>3. SenderTypes'
  BY <1>1, <1>2, HeldErased DEF SenderTypes
<1>4. PidsConsistent' /\ SubscribesConnected'
  BY HeldErased, PidsConsistentNext DEF SubscribesConnected
<1> QED BY <1>2, <1>3, <1>4 DEF SenderAfter

LEMMA PubackStep ==
    ASSUME IInv, conn = "connected", NEW p \in Pids, ProcessPuback(p) PROVE SenderAfter
<1>1. CASE Holds(p, "puback")
  BY <1>1, ReleaseStep DEF ProcessPuback
<1>2. CASE ~Holds(p, "puback")
  BY <1>2, ProtocolErrorStep DEF ProcessPuback
<1> QED BY <1>1, <1>2

LEMMA PubcompStep ==
    ASSUME IInv, conn = "connected", NEW p \in Pids, ProcessPubcomp(p) PROVE SenderAfter
<1>1. CASE Holds(p, "pubcomp")
  <2>1. /\ store' = Erased(store, p) /\ pids' = pids \ {p}
        /\ SlotReleased \/ UNCHANGED <<sendCount, sendQueue, c2s>>
        /\ UNCHANGED <<conn, issued, subInflight, resendPubrel, discarded>>
    BY <1>1 DEF ProcessPubcomp
  <2> QED BY <1>1, <2>1, ReleaseStep
<1>2. CASE ~Holds(p, "pubcomp")
  BY <1>2, ProtocolErrorStep DEF ProcessPubcomp
<1> QED BY <1>1, <1>2

LEMMA PubrelStep ==
    ASSUME IInv, conn = "connected", NEW p \in Pids, Holds(p, "pubrec"),
           SendPubrel(p, MsgOf(p)), UNCHANGED <<conn, issued, subInflight, discarded>>
    PROVE  SenderAfter
<1> DEFINE e == Entry(p, "pubcomp", MsgOf(p))
<1>1. SenderTypes /\ ToReceiver
  BY DEF IInv, TypeOK
<1>2. /\ store' = Append(Erased(store, p), e)
      /\ pids' = pids \union {p}
      /\ resendPubrel' \in {resendPubrel, resendPubrel \union {p}}
      /\ c2s' = Written(<<PubrelPacket(p)>>)
      /\ UNCHANGED <<sendCount, sendQueue>>
  BY DEF SendPubrel
<1>3. e \in StoreEntries /\ e.pid = p
  <2>1. Distinct(store) /\ \A i \in DOMAIN store : store[i] \in StoreEntries
    BY <1>1, PidsConsistentParts, StoreTypes DEF IInv
  <2>2. PICK i \in DOMAIN store : store[i].pid = p /\ store[i].awaits = "pubrec"
    BY DEF Holds
  <2>3. MsgOf(p) = store[i].msg
    BY <2>1, <2>2 DEF MsgOf, Distinct
  <2>4. store[i].msg \in Messages /\ Qos[store[i].msg] # 0 /\ Qos[store[i].msg] # 1
    BY <2>1, <2>2 DEF StoreEntries
  <2> QED BY <2>3, <2>4 DEF Entry, StoreEntries, Awaited
<1> HIDE DEF e
<1>4. /\ store' \in Seq(StoreEntries) /\ Distinct(store')
      /\ PidsOf(store') = PidsOf(store)
  <2>1. /\ Erased(store, p) \in Seq(StoreEntries)
        /\ Distinct(Erased(store, p))
        /\ PidsOf(Erased(store, p)) = PidsOf(store) \ {p}
        /\ p \in PidsOf(store)
    BY HeldErased
  <2> DEFINE r == Erased(store, p)
  <2>2. r \in Seq(StoreEntries) /\ Distinct(r) /\ e \in StoreEntries /\ e.pid \notin PidsOf(r)
    BY <1>3, <2>1
  <2>3. store' = Append(r, e) /\ PidsOf(r) \union {e.pid} = PidsOf(store)
    BY <1>2, <1>3, <2>1
  <2> HIDE DEF r
  <2>4. /\ Append(r, e) \in Seq(StoreEntries) /\ Distinct(Append(r, e))
        /\ PidsOf(Append(r, e)) = PidsOf(r) \union {e.pid}
    BY <2>2, AppendedOne
  <2> QED BY <2>3, <2>4
<1>5. ToReceiver' /\ NoneAdded(c2s, c2s')
  <2>1. PubrelPacket(p) \in PacketsToReceiver /\ PubrelPacket(p).type # "subscribe"
    BY PacketsWritten DEF PubrelPacket
  <2> QED BY <1>1, <1>2, <2>1, WrittenPacket DEF ToReceiver
<1>6. SenderTypes'
  BY <1>1, <1>2, <1>4 DEF SenderTypes
<1>7. PidsConsistent' /\ SubscribesConnected'
  <2>1. /\ pids = PidsOf(store) \union subInflight
        /\ PidsOf(store) \intersect subInflight = {}
        /\ p \in pids
    BY PidsConsistentParts, HeldErased DEF IInv
  <2>2. pids' = PidsOf(store') \union subInflight' /\ PidsOf(store') \intersect subInflight' = {}
    BY <1>2, <1>4, <2>1
  <2> QED BY <1>4, <2>2, PidsConsistentNext DEF SubscribesConnected
<1> QED BY <1>5, <1>6, <1>7 DEF SenderAfter

LEMMA PubrecStep ==
    ASSUME IInv, conn = "connected", NEW p \in Pids, NEW reason, ProcessPubrec(p, reason)
    PROVE  SenderAfter
<1>1. CASE Holds(p, "pubrec")
  <2>1. /\ Refused(p) \/ SendPubrel(p, MsgOf(p))
        /\ UNCHANGED <<conn, issued, subInflight, discarded>>
    BY <1>1 DEF ProcessPubrec
  <2>2. CASE Refused(p)
    BY <1>1, <2>1, <2>2, ReleaseStep DEF Refused
  <2>3. CASE SendPubrel(p, MsgOf(p))
    BY <1>1, <2>1, <2>3, PubrelStep
  <2> QED BY <2>1, <2>2, <2>3
<1>2. CASE ~Holds(p, "pubrec")
  BY <1>2, ProtocolErrorStep DEF ProcessPubrec
<1> QED BY <1>1, <1>2

(* The one handler that takes a packet id out of pid_man_ unasked. It is the
   packet id of a SUBSCRIBE, by SubacksAwaited, and no other is under way. *)
LEMMA SubackStep ==
    ASSUME IInv, conn = "connected", s2c # <<>>, Head(s2c).type = "suback",
           ProcessSuback(Head(s2c).pid), s2c' = Tail(s2c), ToSender'
    PROVE  /\ SenderTypes' /\ ToReceiver' /\ PidsConsistent' /\ SubscribesConnected'
           /\ SubacksAwaited'
<1> DEFINE p == Head(s2c).pid
<1>1. /\ TypeOK /\ PidsConsistent
      /\ pids' = pids \ {p} /\ subInflight' = subInflight \ {p}
      /\ UNCHANGED <<conn, issued, store, sendCount, sendQueue, resendPubrel, discarded, c2s>>
  BY DEF IInv, ProcessSuback
<1>2. /\ 1 \in SubacksIn(s2c) /\ s2c[1].pid = p
      /\ \A i \in DOMAIN s2c' : i + 1 \in DOMAIN s2c /\ s2c'[i] = s2c[i + 1]
  BY <1>1, AfterTail DEF TypeOK, ToSender, SubacksIn
<1> HIDE DEF p
<1>3. /\ \A i \in SubscribesIn(c2s) : c2s[i].pid \in subInflight
      /\ \A i \in SubacksIn(s2c) : s2c[i].pid \in subInflight
      /\ \A i, j \in SubscribesIn(c2s) : c2s[i].pid = c2s[j].pid => i = j
      /\ \A i, j \in SubacksIn(s2c) : s2c[i].pid = s2c[j].pid => i = j
      /\ \A i \in SubscribesIn(c2s), j \in SubacksIn(s2c) : c2s[i].pid # s2c[j].pid
  BY DEF IInv, SubacksAwaited
<1>4. p \in subInflight
  BY <1>2, <1>3
<1>5. SenderTypes' /\ ToReceiver'
  BY <1>1 DEF TypeOK, SenderTypes, ToReceiver
<1>6. PidsConsistent' /\ SubscribesConnected'
  BY <1>1, <1>4 DEF PidsConsistent, StorePids, SubscribesConnected
<1>7. /\ SubscribesIn(c2s') = SubscribesIn(c2s)
      /\ \A i \in SubacksIn(s2c') : i + 1 \in SubacksIn(s2c) /\ s2c'[i] = s2c[i + 1]
  BY <1>1, <1>2 DEF SubscribesIn, SubacksIn
<1>8. SubacksIn(s2c') \subseteq Nat \ {0}
  <2>1. DOMAIN s2c' \subseteq Nat \ {0}
    BY LenProperties DEF ToSender
  <2> QED BY <2>1 DEF SubacksIn
<1>9. \A i \in SubacksIn(s2c') : s2c'[i].pid # p
  <2> SUFFICES ASSUME NEW i \in SubacksIn(s2c'), s2c'[i].pid = p PROVE FALSE
    OBVIOUS
  <2>1. i + 1 = 1
    BY <1>2, <1>3, <1>7
  <2>2. i \in Nat \ {0}
    BY <1>8
  <2> QED BY <2>1, <2>2
<1>10. \A i, j \in SubacksIn(s2c') : s2c'[i].pid = s2c'[j].pid => i = j
  <2> SUFFICES ASSUME NEW i \in SubacksIn(s2c'), NEW j \in SubacksIn(s2c'),
                      s2c'[i].pid = s2c'[j].pid
               PROVE  i = j
    OBVIOUS
  <2>1. /\ i + 1 \in SubacksIn(s2c) /\ s2c'[i] = s2c[i + 1]
        /\ j + 1 \in SubacksIn(s2c) /\ s2c'[j] = s2c[j + 1]
    BY <1>7
  <2>2. i + 1 = j + 1
    BY <1>3, <2>1
  <2>3. i \in Nat /\ j \in Nat
    BY <1>8
  <2> QED BY <2>2, <2>3
<1>11. /\ \A i \in SubscribesIn(c2s') : c2s'[i].pid \in subInflight'
       /\ \A i \in SubacksIn(s2c') : s2c'[i].pid \in subInflight'
       /\ \A i, j \in SubscribesIn(c2s') : c2s'[i].pid = c2s'[j].pid => i = j
       /\ \A i \in SubscribesIn(c2s'), j \in SubacksIn(s2c') : c2s'[i].pid # s2c'[j].pid
  <2>1. \A i \in SubscribesIn(c2s) : c2s[i].pid \in subInflight'
    BY <1>1, <1>2, <1>3
  <2>2. \A i \in SubacksIn(s2c') : s2c'[i].pid \in subInflight'
    BY <1>1, <1>3, <1>7, <1>9
  <2>3. \A i \in SubscribesIn(c2s), j \in SubacksIn(s2c') : c2s[i].pid # s2c'[j].pid
    <3> SUFFICES ASSUME NEW i \in SubscribesIn(c2s), NEW j \in SubacksIn(s2c')
                 PROVE  c2s[i].pid # s2c'[j].pid
      OBVIOUS
    <3>1. j + 1 \in SubacksIn(s2c) /\ s2c'[j] = s2c[j + 1]
      BY <1>7
    <3> QED BY <1>3, <3>1
  <2>4. SubscribesIn(c2s') = SubscribesIn(c2s) /\ c2s' = c2s
    BY <1>1, <1>7
  <2> QED BY <1>3, <2>1, <2>2, <2>3, <2>4
<1>12. SubacksAwaited'
  BY <1>10, <1>11 DEF SubacksAwaited, SubscribesIn, SubacksIn
<1> QED BY <1>5, <1>6, <1>12

LEMMA ClientStep == ASSUME IInv, ClientReads PROVE IInv'
<1> DEFINE x == Head(s2c)
<1>1. /\ s2c # <<>> /\ SenderHandles(x) /\ s2c' = Tail(s2c)
      /\ session' \in {"live", session} /\ received' \subseteq received
      /\ UNCHANGED <<handled, delivered, connects, subscribes>>
  BY DEF ClientReads, AnswerWritten, bounds
<1>2. TypeOK /\ SubacksAwaited
  BY DEF IInv
<1>3. x \in PacketsToSender /\ ToSender' /\ NoneAdded(s2c, s2c')
  BY <1>1, <1>2, AfterTail, NoneAddedByTail DEF TypeOK, ToSender
<1>4. ReceiverTypes' /\ BoundTypes'
  BY <1>1, <1>2 DEF TypeOK, ReceiverTypes, BoundTypes
<1>5. CASE conn = "connected" /\ x.type = "suback" /\ ProcessSuback(x.pid)
  <2>1. SenderTypes' /\ ToReceiver' /\ PidsConsistent' /\ SubscribesConnected' /\ SubacksAwaited'
    BY <1>1, <1>3, <1>5, SubackStep
  <2> QED BY <1>3, <1>4, <2>1 DEF IInv, TypeOK
<1>6. CASE SenderAfter
  <2>1. SenderTypes' /\ ToReceiver' /\ PidsConsistent' /\ SubscribesConnected'
    BY <1>6 DEF SenderAfter
  <2>2. SubacksAwaited'
    <3>1. CASE conn' = "halted"
      BY <3>1 DEF SubacksAwaited
    <3>2. CASE conn' # "halted"
      <4>1. NoneAdded(c2s, c2s') /\ UNCHANGED subInflight
        BY <1>6, <3>2 DEF SenderAfter
      <4>2. conn # "halted"
        BY <1>1 DEF SenderHandles, ProcessConnack
      <4> QED BY <1>2, <1>3, <2>1, <4>1, <4>2, TrafficKept DEF TypeOK
    <3> QED BY <3>1, <3>2
  <2> QED BY <1>3, <1>4, <2>1, <2>2 DEF IInv, TypeOK
<1>7. \/ ProcessConnack(x.present)
      \/ /\ conn = "connected"
         /\ \/ x.type = "puback"  /\ ProcessPuback(x.pid)
            \/ x.type = "pubrec"  /\ ProcessPubrec(x.pid, x.reason)
            \/ x.type = "pubcomp" /\ ProcessPubcomp(x.pid)
            \/ x.type = "suback"  /\ ProcessSuback(x.pid)
  BY <1>1 DEF SenderHandles
<1>8. x.type \in {"puback", "pubrec", "pubcomp", "suback"} => x.pid \in Pids
  BY <1>3, PacketsToSenderFields
<1> HIDE DEF x
<1> QED
  BY <1>5, <1>6, <1>7, <1>8, ConnackStep, PubackStep, PubrecStep, PubcompStep

-----------------------------------------------------------------------------
(* The theorems *)

LEMMA NextIInv == ASSUME IInv, ~AnyTime, [Next]_vars PROVE IInv'
<1>1. CASE ApplicationPublishes
  BY <1>1, PublishStep
<1>2. CASE ApplicationSubscribes
  BY <1>2, SubscribeStep
<1>3. CASE ClientConnects
  BY <1>3, ConnectStep
<1>4. CASE BrokerReads
  BY <1>4, BrokerStep
<1>5. CASE ClientReads
  BY <1>5, ClientStep
<1>6. CASE ConnectionCloses
  BY <1>6, CloseStep
<1>7. CASE SessionIsDropped
  BY <1>7, DropStep
<1>8. CASE UNCHANGED vars
  BY <1>8, StutterStep
<1> QED BY <1>1, <1>2, <1>3, <1>4, <1>5, <1>6, <1>7, <1>8 DEF Next

LEMMA SpecIInv == ASSUME ~AnyTime PROVE Spec => []IInv
<1>1. IInv /\ [Next]_vars => IInv'
  BY NextIInv
<1> QED BY <1>1, InitIInv, PTL DEF Spec

(* Whatever either end does, and wherever the connection breaks: the packets
   under way are ones their reader can look at (a puback, a pubrel or a suback
   carries a packet id of the pool), every entry of store_ waits for the answer
   its QoS calls for, every queued publish has a QoS above 0, and
   publish_send_count_ stays a uint16_t. *)
THEOREM FlowTypes == ASSUME ~AnyTime PROVE Spec => []TypeOK
<1>1. IInv => TypeOK
  BY DEF IInv
<1> QED BY <1>1, SpecIInv, PTL

(* pid_man_, store_ and sub_unsub_inflight_ agree: a packet id is in use if and
   only if one stored message or one unanswered SUBSCRIBE carries it. So no
   packet id leaks, and none is given out while a message still has it. *)
THEOREM PacketIdsConsistent == ASSUME ~AnyTime PROVE Spec => []PidsConsistent
<1>1. IInv => PidsConsistent
  BY DEF IInv
<1> QED BY <1>1, SpecIInv, PTL

-----------------------------------------------------------------------------
(* The packets under way: no two carry the packet id of the same message, and
   each is the one the message's entry in store_ waits for or answers. *)

(* The invariant, part by part *)

Entries == ToSet(store)

(* What CONNECT and CONNACK find on a connection, and where its two ends stand
   around them: nothing else is written until CONNACK has been read. *)
Phases ==
    /\ conn \in {"closed", "connecting", "connected"}
    /\ conn = "closed" => c2s = <<>> /\ s2c = <<>> /\ session \in {"none", "offline"}
    /\ conn = "connecting" =>
          \/ /\ \E clean \in BOOLEAN : c2s = <<ConnectPacket(clean)>>
             /\ s2c = <<>> /\ session \in {"none", "offline"}
          \/ /\ c2s = <<>> /\ received = {}
             /\ \E present \in BOOLEAN :
                   /\ s2c = <<ConnackPacket(present)>>
                   /\ session = IF present THEN "resuming" ELSE "live"
    /\ conn = "connected" =>
          /\ session = "live"
          /\ \A x \in ToSet(c2s) : x.type # "connect"
          /\ \A x \in ToSet(s2c) : x.type # "connack"

(* A queued publish is a stored one, and queued once; v3.1.1 queues none. *)
QueueStored ==
    /\ Distinct(sendQueue)
    /\ \A e \in ToSet(sendQueue) : Entry(e.pid, FirstAnswer(e.msg), e.msg) \in Entries
    /\ ~V5 => sendQueue = <<>>

(* A packet to the receiver asks for what its message's entry waits for; one
   to the sender is what its message's entry waits for. *)
Asked(x) ==
    /\ x.type = "publish" /\ Qos[x.msg] # 0 =>
          Entry(x.pid, FirstAnswer(x.msg), x.msg) \in Entries /\ x.pid \notin Queued
    /\ x.type = "pubrel" => \E e \in Entries : e.pid = x.pid /\ e.awaits = "pubcomp"

Expected(x) ==
    x.type \in Awaited =>
        /\ \E e \in Entries : e.pid = x.pid /\ e.awaits = x.type
        /\ x.pid \notin Queued
        /\ x.type # "pubcomp" => x.reason # "quota_exceeded"

(* The answers that give the receiver's quota back. *)
Answers(q) == {x \in ToSet(q) : x.type \in {"puback", "pubrec"}}

Traffic ==
    /\ Alone(c2s) /\ Alone(s2c)
    /\ Carried(c2s) \intersect Carried(s2c) = {}
    /\ \A x \in ToSet(c2s) : Asked(x)
    /\ \A x \in ToSet(s2c) : Expected(x)
    /\ session \in {"live", "resuming"} => received \subseteq {x.pid : x \in Answers(s2c)}

Exchanges == Phases /\ QueueStored /\ Traffic /\ WindowSafe

XInv == IInv /\ Exchanges

-----------------------------------------------------------------------------
(* The store and the window as sets *)

LEMMA EntriesOne ==
    ASSUME IInv
    PROVE  /\ Entries \subseteq StoreEntries
           /\ StorePids = {e.pid : e \in Entries}
           /\ StorePids \subseteq pids
           /\ \A e, f \in Entries : e.pid = f.pid => e = f
           /\ \A p, kind : Holds(p, kind) <=> \E e \in Entries : e.pid = p /\ e.awaits = kind
<1>1. store \in Seq(StoreEntries) /\ PidsConsistent
  BY DEF IInv, TypeOK, SenderTypes
<1>2. Entries \subseteq StoreEntries
  BY <1>1, MembersTyped DEF Entries
<1> QED BY <1>1, <1>2 DEF Entries, ToSet, StorePids, PidsConsistent, Holds

(* The messages that hold a slot of the window, by the store, the packet ids
   queued and the pubrels resent *)
HoldsSlot(e, queued, resent) == e.pid \notin (IF IsPublish(e) THEN queued ELSE resent)

FlightOf(s, queued, resent) ==
    {s[i].pid : i \in {j \in DOMAIN s : HoldsSlot(s[j], queued, resent)}}

QueuedOf(q) == {q[i].pid : i \in DOMAIN q}

LEMMA FlightAsSet ==
    ASSUME NEW s \in Seq(StoreEntries), NEW Q, NEW R
    PROVE  /\ FlightOf(s, Q, R) = {e.pid : e \in {f \in ToSet(s) : HoldsSlot(f, Q, R)}}
           /\ IsFiniteSet(FlightOf(s, Q, R)) /\ Cardinality(FlightOf(s, Q, R)) \in Nat
<1> DEFINE slots == {j \in DOMAIN s : HoldsSlot(s[j], Q, R)}
           f == [j \in slots |-> s[j].pid]
           F == FlightOf(s, Q, R)
<1>1. IsFiniteSet(slots)
  <2>1. Len(s) \in Int /\ DOMAIN s = 1..Len(s)
    BY LenProperties
  <2>2. IsFiniteSet(1..Len(s)) /\ slots \in SUBSET (1..Len(s))
    BY <2>1, FS_Interval
  <2> QED BY <2>2, FS_Subset
<1>2. F = {s[j].pid : j \in slots}
  BY DEF FlightOf
<1>3. F = {e.pid : e \in {g \in ToSet(s) : HoldsSlot(g, Q, R)}}
  BY <1>2 DEF ToSet
<1> HIDE DEF F
<1>4. f \in Surjection(slots, F)
  BY <1>2 DEF Surjection
<1> HIDE DEF f, slots
<1>5. IsFiniteSet(F)
  BY <1>1, <1>4, FS_Surjection
<1>6. Cardinality(F) \in Nat
  BY <1>5, FS_CardinalityType
<1> QED BY <1>3, <1>5, <1>6 DEF F

LEMMA FlightIs ==
    /\ Queued = QueuedOf(sendQueue)
    /\ InFlight = FlightOf(store, Queued, resendPubrel)
<1>1. Queued = QueuedOf(sendQueue)
  BY DEF Queued, QueuedOf
<1>2. InFlight = FlightOf(store, Queued, resendPubrel)
  BY DEF InFlight, FlightOf, HoldsSlot
<1> QED BY <1>1, <1>2

LEMMA FlightNext ==
    /\ Queued' = QueuedOf(sendQueue')
    /\ InFlight' = FlightOf(store', Queued', resendPubrel')
<1>1. Queued' = QueuedOf(sendQueue')
  BY DEF Queued, QueuedOf
<1>2. InFlight' = FlightOf(store', Queued', resendPubrel')
  BY DEF InFlight, FlightOf, HoldsSlot
<1> QED BY <1>1, <1>2

(* One message more, one less, and one instead of another *)
LEMMA Counted ==
    ASSUME NEW S, IsFiniteSet(S), NEW T
    PROVE  /\ T \subseteq S => Cardinality(T) <= Cardinality(S)
           /\ \A p : T \subseteq S \union {p} => Cardinality(T) <= Cardinality(S) + 1
           /\ \A p \in S : T \subseteq S \ {p} => Cardinality(T) <= Cardinality(S) - 1
           /\ \A q : \A p \in S : T \subseteq (S \ {p}) \union {q} => Cardinality(T) <= Cardinality(S)
<1>1. Cardinality(S) \in Nat
  BY FS_CardinalityType
<1>2. T \subseteq S => Cardinality(T) <= Cardinality(S)
  BY FS_Subset
<1>3. ASSUME NEW U, IsFiniteSet(U), NEW p, T \subseteq U \union {p}
      PROVE  Cardinality(T) <= Cardinality(U) + 1
  <2>1. /\ IsFiniteSet(U \union {p}) /\ Cardinality(U) \in Nat
        /\ Cardinality(U \union {p}) \in {Cardinality(U), Cardinality(U) + 1}
    BY <1>3, FS_AddElement, FS_CardinalityType
  <2>2. Cardinality(T) <= Cardinality(U \union {p}) /\ Cardinality(T) \in Nat
    BY <1>3, <2>1, FS_Subset, FS_CardinalityType
  <2> QED BY <2>1, <2>2
<1>4. ASSUME NEW p \in S
      PROVE  /\ T \subseteq S \ {p} => Cardinality(T) <= Cardinality(S) - 1
             /\ \A q : T \subseteq (S \ {p}) \union {q} => Cardinality(T) <= Cardinality(S)
  <2>1. IsFiniteSet(S \ {p}) /\ Cardinality(S \ {p}) = Cardinality(S) - 1
    BY FS_RemoveElement
  <2>2. T \subseteq S \ {p} => Cardinality(T) <= Cardinality(S) - 1
    BY <2>1, FS_Subset
  <2>3. ASSUME NEW q, T \subseteq (S \ {p}) \union {q}
        PROVE  Cardinality(T) <= Cardinality(S)
    <3>1. Cardinality(T) <= Cardinality(S \ {p}) + 1
      BY <1>3, <2>1, <2>3
    <3> QED BY <1>1, <2>1, <3>1
  <2> QED BY <2>2, <2>3
<1> QED BY <1>2, <1>3, <1>4

(* What the steps that leave the store and the window alone leave true *)
LEMMA WindowKept ==
    ASSUME UNCHANGED <<store, sendQueue, resendPubrel, sendCount>>
    PROVE  /\ Entries' = Entries /\ Queued' = Queued
           /\ QueueStored => QueueStored'
           /\ WindowSafe => WindowSafe'
           /\ \A x : (Asked(x) => Asked(x)') /\ (Expected(x) => Expected(x)')
<1>1. Entries' = Entries /\ Queued' = Queued /\ InFlight' = InFlight
  BY DEF Entries, ToSet, Queued, InFlight
<1>2. QueueStored => QueueStored'
  BY <1>1 DEF QueueStored, ToSet, Distinct
<1>3. WindowSafe => WindowSafe'
  BY <1>1 DEF WindowSafe
<1>4. \A x : (Asked(x) => Asked(x)') /\ (Expected(x) => Expected(x)')
  BY <1>1 DEF Asked, Expected
<1> QED BY <1>1, <1>2, <1>3, <1>4

LEMMA NothingCarried ==
    /\ ToSet(<<>>) = {} /\ Carried(<<>>) = {} /\ Alone(<<>>)
    /\ \A x : /\ ToSet(<<x>>) = {x}
              /\ ~Numbered(x) => Carried(<<x>>) = {} /\ Alone(<<x>>)
BY DEF ToSet, Carried, Alone

LEMMA InitExchanges == Init => Exchanges
<1> SUFFICES ASSUME Init PROVE Exchanges
  OBVIOUS
<1> USE DEF Init, SenderInit, ReceiverInit
<1>1. Phases /\ QueueStored /\ Traffic
  BY NothingCarried DEF Phases, QueueStored, Traffic, Distinct
<1>2. InFlight = {} /\ ReceiveMax \in Nat
  BY CountsBelow DEF InFlight
<1>3. WindowSafe
  BY <1>2, FS_EmptySet DEF WindowSafe
<1> QED BY <1>1, <1>3 DEF Exchanges

-----------------------------------------------------------------------------
(* The steps *)

LEMMA StutterExchanges == ASSUME XInv, UNCHANGED vars PROVE Exchanges'
<1>1. QueueStored' /\ WindowSafe' /\ \A x : (Asked(x) => Asked(x)') /\ (Expected(x) => Expected(x)')
  BY WindowKept DEF XInv, Exchanges, vars
<1>2. Phases' /\ Traffic'
  BY <1>1 DEF XInv, Exchanges, vars, Phases, Traffic, Answers
<1> QED BY <1>1, <1>2 DEF Exchanges

LEMMA ConnectExchanges == ASSUME XInv, ClientConnects PROVE Exchanges'
<1>1. /\ conn = "closed" /\ conn' = "connecting"
      /\ UNCHANGED <<store, sendCount, sendQueue, resendPubrel, session, received, s2c>>
  BY DEF ClientConnects, Connect, receiverVars
<1>2. PICK clean \in BOOLEAN : c2s' = <<ConnectPacket(clean)>>
  BY FlowAssumption DEF ClientConnects, Connect
<1>3. QueueStored' /\ WindowSafe'
  BY <1>1, WindowKept DEF XInv, Exchanges
<1>4. s2c = <<>> /\ session \in {"none", "offline"}
  BY <1>1 DEF XInv, Exchanges, Phases
<1>5. Phases'
  BY <1>1, <1>2, <1>4 DEF Phases
<1>6. /\ ToSet(c2s') = {ConnectPacket(clean)} /\ Carried(c2s') = {} /\ Alone(c2s')
      /\ ToSet(s2c') = {} /\ Carried(s2c') = {} /\ Alone(s2c')
  BY <1>1, <1>2, <1>4, NothingCarried DEF Numbered, ConnectPacket
<1>7. Asked(ConnectPacket(clean))'
  BY DEF Asked, ConnectPacket
<1>8. Traffic'
  BY <1>1, <1>4, <1>6, <1>7 DEF Traffic
<1> QED BY <1>3, <1>5, <1>8 DEF Exchanges

LEMMA CloseExchanges == ASSUME XInv, ConnectionCloses PROVE Exchanges'
<1>1. /\ conn' = "closed" /\ c2s' = <<>> /\ s2c' = <<>>
      /\ session' \in {"none", "offline"}
      /\ UNCHANGED <<store, sendCount, sendQueue, resendPubrel>>
  BY DEF ConnectionCloses, SenderClose, ReceiverClose
<1>2. QueueStored' /\ WindowSafe'
  BY <1>1, WindowKept DEF XInv, Exchanges
<1>3. Phases' /\ Traffic'
  BY <1>1, NothingCarried DEF Phases, Traffic
<1> QED BY <1>2, <1>3 DEF Exchanges

LEMMA DropExchanges == ASSUME XInv, SessionIsDropped PROVE Exchanges'
<1>1. /\ session' = "none" /\ conn = "closed"
      /\ UNCHANGED <<conn, store, sendCount, sendQueue, resendPubrel, c2s, s2c>>
  BY DEF SessionIsDropped, SessionExpires, senderVars
<1>2. QueueStored' /\ WindowSafe'
  BY <1>1, WindowKept DEF XInv, Exchanges
<1>3. c2s = <<>> /\ s2c = <<>>
  BY <1>1 DEF XInv, Exchanges, Phases
<1>4. Phases' /\ Traffic'
  BY <1>1, <1>3, NothingCarried DEF Phases, Traffic
<1> QED BY <1>2, <1>4 DEF Exchanges

(* The client writes a packet behind the others. *)
LEMMA WrittenExchanges ==
    ASSUME XInv, conn = "connected", NEW x \in PacketsToReceiver, x.type # "connect",
           Numbered(x) => x.pid \notin Carried(c2s) \union Carried(s2c),
           Asked(x)', \A y \in ToSet(c2s) : Asked(y)', \A y \in ToSet(s2c) : Expected(y)',
           c2s' = Written(<<x>>), UNCHANGED <<conn, session, received, s2c>>
    PROVE  Phases' /\ Traffic'
<1>1. c2s \in Seq(PacketsToReceiver) /\ Phases /\ Traffic
  BY DEF XInv, IInv, TypeOK, ToReceiver, Exchanges
<1>2. c2s' = Append(c2s, x)
  BY <1>1, AppendIsConcat DEF Written
<1>3. /\ ToSet(c2s') = ToSet(c2s) \union {x}
      /\ Carried(c2s') = Carried(c2s) \union (IF Numbered(x) THEN {x.pid} ELSE {})
      /\ Alone(c2s')
  <2>1. Alone(c2s) /\ (Numbered(x) => x.pid \notin Carried(c2s))
    BY <1>1 DEF Traffic
  <2> DEFINE q == Append(c2s, x)
  <2>2. /\ ToSet(q) = ToSet(c2s) \union {x}
        /\ Carried(q) = Carried(c2s) \union (IF Numbered(x) THEN {x.pid} ELSE {})
        /\ Alone(q)
    BY <1>1, <2>1, AppendMembers
  <2> HIDE DEF q
  <2>3. c2s' = q
    BY <1>2 DEF q
  <2> QED BY <2>2, <2>3
<1>4. Phases'
  BY <1>1, <1>3 DEF Phases
<1>5. Traffic'
  BY <1>1, <1>3 DEF Traffic, Answers
<1> QED BY <1>4, <1>5

LEMMA SubscribeExchanges == ASSUME XInv, ~AnyTime, ApplicationSubscribes PROVE Exchanges'
<1>1. /\ conn = "connected"
      /\ UNCHANGED <<conn, store, sendCount, sendQueue, resendPubrel, session, received, s2c>>
  BY DEF ApplicationSubscribes, Subscribe, receiverVars
<1>2. PICK p \in Pids : c2s' = Written(<<SubscribePacket(p)>>)
  BY DEF ApplicationSubscribes, Subscribe
<1>3. QueueStored' /\ WindowSafe' /\ \A x : (Asked(x) => Asked(x)') /\ (Expected(x) => Expected(x)')
  BY <1>1, WindowKept DEF XInv, Exchanges
<1>4. /\ SubscribePacket(p) \in PacketsToReceiver /\ SubscribePacket(p).type = "subscribe"
      /\ ~Numbered(SubscribePacket(p))
  BY PacketsWritten DEF SubscribePacket, Numbered
<1>5. Asked(SubscribePacket(p))'
  BY <1>4 DEF Asked
<1>6. /\ \A x \in ToSet(c2s) : Asked(x)'
      /\ \A x \in ToSet(s2c) : Expected(x)'
  BY <1>3 DEF XInv, Exchanges, Traffic
<1>7. Phases' /\ Traffic'
  BY <1>1, <1>2, <1>4, <1>5, <1>6, WrittenExchanges
<1> QED BY <1>3, <1>7 DEF Exchanges

(* Every packet id under way is that of a stored message. *)
LEMMA CarriedStored ==
    ASSUME XInv PROVE Carried(c2s) \union Carried(s2c) \subseteq StorePids
<1>1. /\ StorePids = {e.pid : e \in Entries}
      /\ ToSet(c2s) \subseteq PacketsToReceiver /\ ToSet(s2c) \subseteq PacketsToSender
      /\ \A x \in ToSet(c2s) : Asked(x)
      /\ \A x \in ToSet(s2c) : Expected(x)
  BY EntriesOne, MembersTyped DEF XInv, IInv, TypeOK, ToReceiver, ToSender, Exchanges, Traffic
<1>2. ASSUME NEW x \in ToSet(c2s), Numbered(x) PROVE x.pid \in StorePids
  <2>1. CASE x.type = "publish"
    <3>1. Qos[x.msg] # 0
      BY <1>1, <1>2, <2>1 DEF Numbered, PacketsToReceiver, PublishPackets
    <3>2. Entry(x.pid, FirstAnswer(x.msg), x.msg) \in Entries
      BY <1>1, <2>1, <3>1 DEF Asked
    <3> QED BY <1>1, <3>2 DEF Entry
  <2>2. CASE x.type = "pubrel"
    BY <1>1, <2>2 DEF Asked
  <2>3. x.type \in {"publish", "pubrel"}
    BY <1>1, <1>2 DEF Numbered, PacketsToReceiver, PublishPackets
  <2> QED BY <2>1, <2>2, <2>3
<1>3. ASSUME NEW x \in ToSet(s2c), Numbered(x) PROVE x.pid \in StorePids
  <2>1. x.type \in Awaited
    BY <1>1, <1>3 DEF Numbered, PacketsToSender, Awaited
  <2> QED BY <1>1, <2>1 DEF Expected
<1> QED BY <1>2, <1>3 DEF Carried

LEMMA Qos0Exchanges ==
    ASSUME XInv, conn \in {"closed", "connected"}, NEW m \in Messages, PublishQos0(m),
           UNCHANGED <<conn, session, received, s2c, resendPubrel>>
    PROVE  Exchanges'
<1>1. /\ Qos[m] = 0 /\ c2s' = Written(<<PublishPacket(NoPid, m)>>)
      /\ UNCHANGED <<store, sendCount, sendQueue>>
  BY DEF PublishQos0
<1>2. QueueStored' /\ WindowSafe' /\ \A x : (Asked(x) => Asked(x)') /\ (Expected(x) => Expected(x)')
  BY <1>1, WindowKept DEF XInv, Exchanges
<1>3. /\ \A x \in ToSet(c2s) : Asked(x)'
      /\ \A x \in ToSet(s2c) : Expected(x)'
  BY <1>2 DEF XInv, Exchanges, Traffic
<1>4. CASE conn = "closed"
  <2>1. UNCHANGED c2s
    BY <1>1, <1>4 DEF Written
  <2>2. Phases' /\ Traffic'
    BY <1>3, <1>4, <2>1 DEF XInv, Exchanges, Phases, Traffic, Answers
  <2> QED BY <1>2, <2>2 DEF Exchanges
<1>5. CASE conn = "connected"
  <2>1. /\ PublishPacket(NoPid, m) \in PacketsToReceiver
        /\ PublishPacket(NoPid, m).type # "connect"
        /\ ~Numbered(PublishPacket(NoPid, m))
    BY <1>1, PacketsWritten DEF PublishPacket, Numbered
  <2>2. Asked(PublishPacket(NoPid, m))'
    BY <1>1 DEF Asked, PublishPacket
  <2>3. Phases' /\ Traffic'
    BY <1>1, <1>3, <1>5, <2>1, <2>2, WrittenExchanges
  <2> QED BY <1>2, <2>3 DEF Exchanges
<1> QED BY <1>4, <1>5

(* A new message: its packet id is nobody's, it is in the store, and either
   written into a free slot of the window or queued behind a full one. *)
LEMMA StoredExchanges ==
    ASSUME XInv, conn \in {"closed", "connected"}, NEW m \in Messages, PublishStored(m),
           UNCHANGED <<conn, session, received, s2c, resendPubrel>>
    PROVE  Exchanges'
<1>1. PICK p \in Pids :
         /\ Acquirable(p)
         /\ store' = Inserted(store, Entry(p, FirstAnswer(m), m))
         /\ IF WindowFull
            THEN /\ sendQueue' = Append(sendQueue, [pid |-> p, msg |-> m])
                 /\ UNCHANGED <<sendCount, c2s>>
            ELSE /\ sendCount' = IF V5 THEN Incremented(sendCount) ELSE sendCount
                 /\ c2s' = Written(<<PublishPacket(p, m)>>)
                 /\ UNCHANGED sendQueue
  BY DEF PublishStored
<1> DEFINE e == Entry(p, FirstAnswer(m), m)
           item == [pid |-> p, msg |-> m]
<1>2. Qos[m] \in 1..2
  BY MessagesHaveQos DEF PublishStored
<1>3. e \in StoreEntries /\ e.pid = p /\ IsPublish(e) /\ item \in QueueEntries /\ item.pid = p
  BY <1>2 DEF Entry, FirstAnswer, StoreEntries, Awaited, IsPublish, QueueEntries
<1>4. /\ IInv /\ Phases /\ QueueStored /\ Traffic /\ WindowSafe
      /\ store \in Seq(StoreEntries) /\ sendQueue \in Seq(QueueEntries)
      /\ c2s \in Seq(PacketsToReceiver) /\ sendCount \in Counts
  BY DEF XInv, Exchanges, IInv, TypeOK, SenderTypes, ToReceiver
<1>5. /\ p \notin StorePids /\ StorePids = {f.pid : f \in Entries}
      /\ p \notin Carried(c2s) \union Carried(s2c)
      /\ \A x \in ToSet(sendQueue) : x.pid \in StorePids
  <2>1. p \notin pids
    BY <1>1 DEF Acquirable
  <2>2. StorePids \subseteq pids /\ StorePids = {f.pid : f \in Entries}
    BY <1>4, EntriesOne
  <2>3. ASSUME NEW x \in ToSet(sendQueue) PROVE x.pid \in StorePids
    <3>1. Entry(x.pid, FirstAnswer(x.msg), x.msg) \in Entries
      BY <1>4 DEF QueueStored
    <3>2. Entry(x.pid, FirstAnswer(x.msg), x.msg).pid = x.pid
      BY DEF Entry
    <3> QED BY <2>2, <3>1, <3>2
  <2> QED BY <2>1, <2>2, <2>3, CarriedStored
<1>6. p \notin Queued
  BY <1>5, FlightIs DEF QueuedOf, ToSet
<1>7. store' = Append(store, e)
  BY <1>1, <1>3, <1>5 DEF Inserted, HasPid, StorePids
<1> HIDE DEF e
<1>8. Entries' = Entries \union {e} /\ store' \in Seq(StoreEntries)
  <2>1. ToSet(Append(store, e)) = ToSet(store) \union {e} /\ Append(store, e) \in Seq(StoreEntries)
    BY <1>3, <1>4, AppendMembers, AppendProperties
  <2> QED BY <1>7, <2>1 DEF Entries
<1>9. /\ InFlight = {f.pid : f \in {g \in Entries : HoldsSlot(g, Queued, resendPubrel)}}
      /\ IsFiniteSet(InFlight) /\ Cardinality(InFlight) \in Nat
      /\ InFlight' = {f.pid : f \in {g \in Entries' : HoldsSlot(g, Queued', resendPubrel)}}
      /\ IsFiniteSet(InFlight') /\ Cardinality(InFlight') \in Nat
  BY <1>4, <1>8, FlightIs, FlightNext, FlightAsSet DEF Entries
<1>10. ReceiveMax \in Nat /\ ReceiveMax <= MaxUint16 /\ sendCount \in Nat
  BY <1>4, PacketsAssumption, MaxUint16Type DEF Counts
<1>11. ASSUME Queued' \subseteq Queued \union {p}
       PROVE  /\ \A x \in ToSet(c2s) : Asked(x)'
              /\ \A x \in ToSet(s2c) : Expected(x)'
  <2>1. ASSUME NEW x \in ToSet(c2s) PROVE Asked(x)'
    <3>1. Asked(x)
      BY <1>4 DEF Traffic
    <3>2. \A f \in Entries : f.pid # p
      BY <1>5
    <3>3. \A n : Entry(x.pid, n, x.msg) \in Entries => x.pid # p
      BY <3>2 DEF Entry
    <3> QED BY <1>8, <1>11, <3>1, <3>3 DEF Asked
  <2>2. ASSUME NEW x \in ToSet(s2c) PROVE Expected(x)'
    <3>1. Expected(x)
      BY <1>4 DEF Traffic
    <3>2. \A f \in Entries : f.pid # p
      BY <1>5
    <3> QED BY <1>8, <1>11, <3>1, <3>2 DEF Expected
  <2> QED BY <2>1, <2>2
<1>12. CASE WindowFull
  <2>1. sendQueue' = Append(sendQueue, item) /\ UNCHANGED <<sendCount, c2s>>
    BY <1>1, <1>12
  <2> DEFINE q == Append(sendQueue, item)
  <2>2. Distinct(q) /\ PidsOf(q) = PidsOf(sendQueue) \union {p}
    <3>1. Distinct(sendQueue) /\ item.pid \notin PidsOf(sendQueue)
      BY <1>3, <1>4, <1>6, FlightIs DEF QueueStored, PidsOf, QueuedOf
    <3> QED BY <1>3, <1>4, <3>1, AppendedOne
  <2>3. ToSet(q) = ToSet(sendQueue) \union {item}
    BY <1>3, <1>4, AppendMembers
  <2> HIDE DEF q
  <2>4. Queued' = Queued \union {p}
    BY <2>1, <2>2, FlightIs, FlightNext DEF PidsOf, QueuedOf, q
  <2>5. V5 /\ sendCount = ReceiveMax
    BY <1>12 DEF WindowFull
  <2>6. QueueStored'
    <3>1. \A x \in ToSet(q) : Entry(x.pid, FirstAnswer(x.msg), x.msg) \in Entries'
      <4>1. Entry(item.pid, FirstAnswer(item.msg), item.msg) = e
        BY DEF e
      <4> QED BY <1>4, <1>8, <2>3, <4>1 DEF QueueStored
    <3> QED BY <2>1, <2>2, <2>5, <3>1 DEF QueueStored, q
  <2>7. WindowSafe'
    <3>1. InFlight' \subseteq InFlight
      BY <1>3, <1>8, <1>9, <2>4 DEF HoldsSlot
    <3>2. Cardinality(InFlight') <= Cardinality(InFlight)
      BY <1>9, <3>1, Counted
    <3> QED BY <1>4, <1>9, <1>10, <2>1, <2>5, <3>2 DEF WindowSafe
  <2>8. Phases' /\ Traffic'
    BY <1>4, <1>11, <2>1, <2>4 DEF Phases, Traffic, Answers
  <2> QED BY <2>6, <2>7, <2>8 DEF Exchanges
<1>13. CASE ~WindowFull
  <2>1. /\ sendCount' = (IF V5 THEN Incremented(sendCount) ELSE sendCount)
        /\ c2s' = Written(<<PublishPacket(p, m)>>)
        /\ UNCHANGED sendQueue
    BY <1>1, <1>13
  <2>2. Queued' = Queued
    BY <2>1, FlightIs, FlightNext
  <2>3. QueueStored'
    BY <1>4, <1>8, <2>1 DEF QueueStored
  <2>4. WindowSafe'
    <3> SUFFICES ASSUME V5 PROVE WindowSafe'
      BY DEF WindowSafe
    <3>1. InFlight' \subseteq InFlight \union {p}
      BY <1>3, <1>8, <1>9, <2>2
    <3>2. Cardinality(InFlight') <= Cardinality(InFlight) + 1
      BY <1>9, <3>1, Counted
    <3>3. /\ Cardinality(InFlight) <= sendCount /\ sendCount < ReceiveMax
          /\ sendQueue = <<>>
      BY <1>4, <1>10, <1>13 DEF WindowSafe, WindowFull
    <3>4. sendCount' = sendCount + 1
      BY <1>10, <2>1, <3>3, MaxUint16Type DEF Incremented
    <3> QED BY <1>9, <1>10, <2>1, <3>2, <3>3, <3>4 DEF WindowSafe
  <2>5. Phases' /\ Traffic'
    <3>1. CASE conn = "closed"
      <4>1. UNCHANGED c2s
        BY <2>1, <3>1 DEF Written
      <4> QED BY <1>4, <1>11, <2>2, <3>1, <4>1 DEF Phases, Traffic, Answers
    <3>2. CASE conn = "connected"
      <4>1. /\ PublishPacket(p, m) \in PacketsToReceiver
            /\ PublishPacket(p, m).type # "connect"
            /\ PublishPacket(p, m).pid = p
        BY <1>2, PacketsWritten DEF PublishPacket
      <4>2. Asked(PublishPacket(p, m))'
        BY <1>6, <1>8, <2>2 DEF Asked, PublishPacket, e
      <4> QED BY <1>5, <1>11, <2>1, <2>2, <3>2, <4>1, <4>2, WrittenExchanges
    <3> QED BY <3>1, <3>2
  <2> QED BY <2>3, <2>4, <2>5 DEF Exchanges
<1> QED BY <1>12, <1>13

LEMMA PublishExchanges == ASSUME XInv, ~AnyTime, ApplicationPublishes PROVE Exchanges'
<1>1. /\ Publish /\ conn \in {"closed", "connected"}
      /\ UNCHANGED <<conn, session, received, s2c, resendPubrel>>
  BY DEF ApplicationPublishes, Publish, receiverVars, XInv, Exchanges, Phases
<1>2. issued' \in Messages
  <2>1. issued \in 0..Len(Qos) /\ Len(Qos) \in Nat /\ issued < Len(Qos) /\ issued' = issued + 1
    BY <1>1, PacketsAssumption, LenProperties DEF Publish, XInv, IInv, TypeOK, SenderTypes
  <2> QED BY <2>1 DEF Messages
<1> QED BY <1>1, <1>2, Qos0Exchanges, StoredExchanges DEF Publish

-----------------------------------------------------------------------------
(* The broker reads. A publish finds the quota it needs: the packet ids in
   publish_received_ and its own are all in flight. *)
LEMMA QuotaLeft ==
    ASSUME XInv, session = "live", c2s # <<>>,
           Head(c2s).type = "publish", Qos[Head(c2s).msg] # 0
    PROVE  ~QuotaFull
<1> SUFFICES ASSUME V5, Cardinality(received) = ReceiveMax PROVE FALSE
  BY DEF QuotaFull
<1> DEFINE x == Head(c2s)
           p == x.pid
<1>1. /\ IInv /\ Traffic /\ WindowSafe
      /\ store \in Seq(StoreEntries) /\ sendCount \in Nat /\ ReceiveMax \in Nat
      /\ c2s \in Seq(PacketsToReceiver) /\ s2c \in Seq(PacketsToSender)
  BY PacketsAssumption
     DEF XInv, Exchanges, IInv, TypeOK, SenderTypes, ToReceiver, ToSender, Counts
<1>2. /\ InFlight = {e.pid : e \in {f \in Entries : HoldsSlot(f, Queued, resendPubrel)}}
      /\ IsFiniteSet(InFlight) /\ Cardinality(InFlight) \in Nat
  BY <1>1, FlightIs, FlightAsSet DEF Entries
<1>3. x \in ToSet(c2s) /\ x \in PacketsToReceiver /\ (Numbered(x) => p \in Carried(c2s))
  <2>1. ToSet(c2s) = ToSet(Tail(c2s)) \union {x} /\ (Numbered(x) => p \in Carried(c2s))
    BY <1>1, TailMembers
  <2> QED BY <1>1, <2>1, MembersTyped
<1> HIDE DEF x
<1>4. x.type = "publish" /\ Qos[x.msg] # 0 /\ Numbered(x)
  BY <1>3 DEF x, Numbered, PacketsToReceiver, PublishPackets
<1>5. p \in InFlight
  <2>1. Entry(p, FirstAnswer(x.msg), x.msg) \in Entries /\ p \notin Queued
    BY <1>1, <1>3, <1>4 DEF Traffic, Asked
  <2> DEFINE e == Entry(p, FirstAnswer(x.msg), x.msg)
  <2>2. e.pid = p /\ IsPublish(e)
    BY DEF Entry, FirstAnswer, IsPublish
  <2> HIDE DEF e
  <2>3. HoldsSlot(e, Queued, resendPubrel)
    BY <2>1, <2>2 DEF HoldsSlot
  <2> QED BY <1>2, <2>1, <2>2, <2>3 DEF e
<1>6. ASSUME NEW q \in received PROVE q \in InFlight \ {p}
  <2>1. PICK y \in Answers(s2c) : y.pid = q
    BY <1>1 DEF Traffic
  <2>2. /\ y \in ToSet(s2c) /\ y.type \in {"puback", "pubrec"} /\ y \in PacketsToSender
    BY <1>1, MembersTyped DEF Answers
  <2>3. PICK e \in Entries : e.pid = q /\ e.awaits = y.type
    BY <1>1, <2>1, <2>2 DEF Traffic, Expected, Awaited
  <2>4. q \notin Queued
    BY <1>1, <2>1, <2>2 DEF Traffic, Expected, Awaited
  <2>5. HoldsSlot(e, Queued, resendPubrel)
    BY <2>2, <2>3, <2>4 DEF HoldsSlot, IsPublish
  <2>6. Numbered(y) /\ q \in Carried(s2c)
    BY <2>1, <2>2, PidsAreNotNoPid DEF Numbered, PacketsToSender, Carried
  <2>7. q # p
    BY <1>1, <1>3, <1>4, <2>6 DEF Traffic
  <2> QED BY <1>2, <2>3, <2>5, <2>7
<1>7. Cardinality(received) <= Cardinality(InFlight) - 1
  BY <1>2, <1>5, <1>6, Counted
<1> QED BY <1>1, <1>2, <1>7 DEF WindowSafe

(* A packet is read and answered, or read only. *)
LEMMA AnsweredExchanges ==
    ASSUME XInv, c2s # <<>>, conn = "connected", c2s' = Tail(c2s),
           UNCHANGED <<conn, session, store, sendCount, sendQueue, resendPubrel>>,
           \/ UNCHANGED <<s2c, received>>
           \/ \E y \in PacketsToSender :
                /\ s2c' = Append(s2c, y)
                /\ y.type # "connack" /\ Expected(y)
                /\ Numbered(y) => Numbered(Head(c2s)) /\ y.pid = Head(c2s).pid
                /\ received' \subseteq received
                      \union (IF y.type \in {"puback", "pubrec"} THEN {y.pid} ELSE {})
    PROVE  Exchanges'
<1>1. /\ Phases /\ Traffic
      /\ c2s \in Seq(PacketsToReceiver) /\ s2c \in Seq(PacketsToSender)
  BY DEF XInv, Exchanges, IInv, TypeOK, ToReceiver, ToSender
<1>2. QueueStored' /\ WindowSafe' /\ \A x : (Asked(x) => Asked(x)') /\ (Expected(x) => Expected(x)')
  BY WindowKept DEF XInv, Exchanges
<1>3. /\ ToSet(c2s') \subseteq ToSet(c2s) /\ Carried(c2s') \subseteq Carried(c2s)
      /\ Alone(c2s')
      /\ Numbered(Head(c2s)) => /\ Head(c2s).pid \in Carried(c2s)
                                /\ Head(c2s).pid \notin Carried(c2s')
  BY <1>1, TailMembers DEF Traffic
<1>4. CASE UNCHANGED <<s2c, received>>
  <2>1. Phases' /\ Traffic'
    BY <1>1, <1>2, <1>3, <1>4 DEF Phases, Traffic, Answers
  <2> QED BY <1>2, <2>1 DEF Exchanges
<1>5. ASSUME NEW y \in PacketsToSender, s2c' = Append(s2c, y),
             y.type # "connack", Expected(y),
             Numbered(y) => Numbered(Head(c2s)) /\ y.pid = Head(c2s).pid,
             received' \subseteq received
                \union (IF y.type \in {"puback", "pubrec"} THEN {y.pid} ELSE {})
      PROVE  Exchanges'
  <2> DEFINE q == Append(s2c, y)
  <2>1. /\ ToSet(q) = ToSet(s2c) \union {y}
        /\ Carried(q) = Carried(s2c) \union (IF Numbered(y) THEN {y.pid} ELSE {})
        /\ Alone(q)
    <3>1. Alone(s2c) /\ (Numbered(y) => y.pid \notin Carried(s2c))
      BY <1>1, <1>3, <1>5 DEF Traffic
    <3> QED BY <1>1, <3>1, AppendMembers
  <2> HIDE DEF q
  <2>2. s2c' = q
    BY <1>5 DEF q
  <2>3. Phases'
    BY <1>1, <1>3, <1>5, <2>1, <2>2 DEF Phases
  <2>4. received' \subseteq {x.pid : x \in Answers(q)}
    <3>1. received \subseteq {x.pid : x \in Answers(s2c)}
      BY <1>1 DEF Phases, Traffic
    <3> QED BY <1>5, <2>1, <3>1 DEF Answers
  <2>5. Carried(c2s') \intersect Carried(q) = {}
    BY <1>1, <1>3, <1>5, <2>1 DEF Traffic
  <2>6. Traffic'
    BY <1>1, <1>2, <1>3, <1>5, <2>1, <2>2, <2>4, <2>5 DEF Traffic
  <2> QED BY <1>2, <2>3, <2>6 DEF Exchanges
<1> QED BY <1>4, <1>5

(* CONNECT is read on a connection that carries nothing else. *)
LEMMA ConnectReadExchanges ==
    ASSUME XInv, BrokerReads, Head(c2s).type = "connect" PROVE Exchanges'
<1>1. /\ c2s # <<>> /\ ReceiveConnect(Head(c2s).clean) /\ c2s' = Tail(c2s)
      /\ UNCHANGED <<conn, store, sendCount, sendQueue, resendPubrel>>
  BY DEF BrokerReads, ReceiverHandles, senderVars
<1>2. QueueStored' /\ WindowSafe'
  BY <1>1, WindowKept DEF XInv, Exchanges
<1>3. Head(c2s) \in ToSet(c2s)
  BY <1>1, TailMembers DEF XInv, IInv, TypeOK, ToReceiver
<1>4. /\ conn = "connecting" /\ session \in {"none", "offline"}
      /\ \E clean \in BOOLEAN : c2s = <<ConnectPacket(clean)>>
  BY <1>1, <1>3 DEF XInv, Exchanges, Phases
<1>5. c2s' = <<>>
  BY <1>1, <1>4
<1>6. PICK present \in BOOLEAN : /\ session' = (IF present THEN "resuming" ELSE "live")
                                 /\ s2c' = <<ConnackPacket(present)>>
                                 /\ received' = {}
  BY <1>1, <1>4 DEF ReceiveConnect
<1>7. Phases'
  BY <1>1, <1>4, <1>5, <1>6 DEF Phases
<1>8. ToSet(s2c') = {ConnackPacket(present)} /\ Carried(s2c') = {} /\ Alone(s2c')
  BY <1>6, NothingCarried DEF Numbered, ConnackPacket
<1>9. Expected(ConnackPacket(present))'
  BY DEF Expected, ConnackPacket, Awaited
<1>10. Traffic'
  BY <1>5, <1>6, <1>8, <1>9, NothingCarried DEF Traffic
<1> QED BY <1>2, <1>7, <1>10 DEF Exchanges

LEMMA BrokerExchanges == ASSUME XInv, BrokerReads PROVE Exchanges'
<1> DEFINE x == Head(c2s)
           p == x.pid
           m == x.msg
<1>1. /\ c2s # <<>> /\ ReceiverHandles(x) /\ c2s' = Tail(c2s)
      /\ UNCHANGED <<conn, store, sendCount, sendQueue, resendPubrel>>
  BY DEF BrokerReads, senderVars
<1>2. /\ IInv /\ Phases /\ QueueStored /\ Traffic
      /\ c2s \in Seq(PacketsToReceiver) /\ Entries \subseteq StoreEntries
      /\ \A e, f \in Entries : e.pid = f.pid => e = f
  BY EntriesOne DEF XInv, Exchanges, IInv, TypeOK, ToReceiver
<1>3. x \in ToSet(c2s) /\ x \in PacketsToReceiver
  <2>1. x \in ToSet(c2s)
    BY <1>1, <1>2, TailMembers
  <2> QED BY <1>2, <2>1, MembersTyped
<1>4. CASE x.type = "connect"
  BY <1>4, ConnectReadExchanges
<1>5. CASE x.type # "connect"
  <2>1. conn = "connected" /\ session = "live" /\ Attached
    BY <1>1, <1>2, <1>3, <1>5 DEF Phases, ConnectPacket, Attached
  <2>2. Asked(x)
    BY <1>2, <1>3 DEF Traffic
  <2> DEFINE Reads(y) ==
                /\ y \in PacketsToSender
                /\ s2c' = Append(s2c, y)
                /\ y.type # "connack" /\ Expected(y)
                /\ Numbered(y) => Numbered(x) /\ y.pid = p
                /\ received' \subseteq received
                      \union (IF y.type \in {"puback", "pubrec"} THEN {p} ELSE {})
                /\ y.type \in {"puback", "pubrec"} => y.pid = p
  <2>3. ASSUME NEW y, Reads(y), UNCHANGED session PROVE Exchanges'
    BY <1>1, <2>1, <2>3, AnsweredExchanges
  <2>4. CASE x.type = "publish" /\ Qos[m] = 0
    <3>1. UNCHANGED <<session, s2c, received>>
      BY <1>1, <2>4 DEF ReceiverHandles, ReceivePublish, ReceiveQos0
    <3> QED BY <1>1, <2>1, <3>1, AnsweredExchanges
  <2>5. CASE x.type = "publish" /\ Qos[m] # 0
    <3>1. Numbered(x) /\ p \in Pids
      BY <1>3, <2>5 DEF Numbered, PacketsToReceiver, PublishPackets
    <3>2. Entry(p, FirstAnswer(m), m) \in Entries /\ p \notin Queued
      BY <2>2, <2>5 DEF Asked
    <3>3. ~QuotaFull
      BY <1>1, <2>1, <2>5, QuotaLeft DEF XInv
    <3>4. Verdict(m) \in Reasons \ {"quota_exceeded"} /\ "success" \in Reasons \ {"quota_exceeded"}
      BY DEF Verdict, Reasons
    <3>5. CASE Qos[m] = 1
      <4> DEFINE y == PubackPacket(p, Verdict(m))
      <4>1. /\ s2c' = Append(s2c, y) /\ UNCHANGED session
            /\ received' \subseteq received \union {p}
        BY <1>1, <2>1, <2>5, <3>3, <3>5
           DEF ReceiverHandles, ReceivePublish, ReceiveQos1, Answer, WithReceived
      <4>2. /\ y \in PacketsToSender /\ y.type = "puback" /\ y.pid = p
            /\ y.reason # "quota_exceeded"
        BY <3>1, <3>4, PacketsAnswered DEF PubackPacket
      <4>3. Expected(y)
        <5>1. Entry(p, FirstAnswer(m), m).pid = p /\ Entry(p, FirstAnswer(m), m).awaits = "puback"
          BY <3>5 DEF Entry, FirstAnswer
        <5> QED BY <3>2, <4>2, <5>1 DEF Expected
      <4> HIDE DEF y
      <4>4. Reads(y)
        BY <3>1, <4>1, <4>2, <4>3
      <4> QED BY <2>3, <4>1, <4>4
    <3>6. CASE Qos[m] = 2
      <4>1. PICK r \in Reasons \ {"quota_exceeded"} :
               /\ s2c' = Append(s2c, PubrecPacket(p, r)) /\ UNCHANGED session
               /\ received' \subseteq received \union {p}
        BY <1>1, <2>1, <2>5, <3>3, <3>4, <3>6
           DEF ReceiverHandles, ReceivePublish, ReceiveQos2, ReceiveQos2First, Answer, WithReceived
      <4> DEFINE y == PubrecPacket(p, r)
      <4>2. /\ y \in PacketsToSender /\ y.type = "pubrec" /\ y.pid = p
            /\ y.reason # "quota_exceeded"
        BY <3>1, <4>1, PacketsAnswered DEF PubrecPacket
      <4>3. Expected(y)
        <5>1. Entry(p, FirstAnswer(m), m).pid = p /\ Entry(p, FirstAnswer(m), m).awaits = "pubrec"
          BY <3>6 DEF Entry, FirstAnswer
        <5> QED BY <3>2, <4>2, <5>1 DEF Expected
      <4>4. s2c' = Append(s2c, y) /\ UNCHANGED session /\ received' \subseteq received \union {p}
        BY <4>1
      <4> HIDE DEF y
      <4>5. Reads(y)
        BY <3>1, <4>2, <4>3, <4>4
      <4> QED BY <2>3, <4>4, <4>5
    <3>7. Qos[m] \in 1..2
      BY <1>3, <2>5, MessagesHaveQos, PacketsToReceiverFields
    <3> QED BY <3>5, <3>6, <3>7
  <2>6. CASE x.type = "pubrel"
    <3> DEFINE y == PubcompPacket(p)
    <3>1. s2c' = Append(s2c, y) /\ UNCHANGED <<session, received>>
      BY <1>1, <2>1, <2>6 DEF ReceiverHandles, ReceivePubrel, Answer
    <3>2. p \in Pids /\ Numbered(x)
      BY <1>3, <2>6, PacketsToReceiverFields, PidsAreNotNoPid DEF Numbered
    <3>3. y \in PacketsToSender /\ y.type = "pubcomp" /\ y.pid = p
      BY <3>2, PacketsAnswered DEF PubcompPacket
    <3>4. PICK e \in Entries : e.pid = p /\ e.awaits = "pubcomp"
      BY <2>2, <2>6 DEF Asked
    <3>5. p \notin Queued
      <4> SUFFICES ASSUME p \in Queued PROVE FALSE
        OBVIOUS
      <4>1. PICK a \in ToSet(sendQueue) : a.pid = p
        BY FlightIs DEF QueuedOf, ToSet
      <4> DEFINE f == Entry(a.pid, FirstAnswer(a.msg), a.msg)
      <4>2. f \in Entries
        BY <1>2, <4>1 DEF QueueStored
      <4>3. f.pid = p /\ f.awaits # "pubcomp"
        BY <4>1 DEF Entry, FirstAnswer
      <4> QED BY <1>2, <3>4, <4>2, <4>3
    <3>6. Expected(y)
      BY <3>3, <3>4, <3>5 DEF Expected
    <3> HIDE DEF y
    <3>7. Reads(y)
      BY <3>1, <3>2, <3>3, <3>6
    <3> QED BY <2>3, <3>1, <3>7
  <2>7. CASE x.type = "subscribe"
    <3> DEFINE y == SubackPacket(p)
    <3>1. s2c' = Append(s2c, y) /\ UNCHANGED <<session, received>>
      BY <1>1, <2>1, <2>7 DEF ReceiverHandles, ReceiveSubscribe, Answer
    <3>2. y \in PacketsToSender /\ y.type = "suback"
      BY <1>3, <2>7, PacketsToReceiverFields, PacketsAnswered DEF SubackPacket
    <3>3. Expected(y) /\ ~Numbered(y)
      BY <3>2 DEF Expected, Awaited, Numbered
    <3> HIDE DEF y
    <3>4. Reads(y)
      BY <3>1, <3>2, <3>3
    <3> QED BY <2>3, <3>1, <3>4
  <2>8. x.type \in {"publish", "pubrel", "subscribe"}
    BY <1>1, <1>5 DEF ReceiverHandles
  <2> QED BY <2>4, <2>5, <2>6, <2>7, <2>8
<1> QED BY <1>4, <1>5

-----------------------------------------------------------------------------
(* The client reads. What is left under way is nobody's but its own. *)
LEMMA QueuedNotCarried ==
    ASSUME XInv
    PROVE  /\ \A e \in Entries : e.awaits = "pubcomp" => e.pid \notin Queued
           /\ (Carried(c2s) \union Carried(s2c)) \intersect Queued = {}
<1>1. /\ IInv /\ QueueStored /\ Traffic
      /\ \A e, f \in Entries : e.pid = f.pid => e = f
      /\ ToSet(c2s) \subseteq PacketsToReceiver /\ ToSet(s2c) \subseteq PacketsToSender
  BY EntriesOne, MembersTyped DEF XInv, Exchanges, IInv, TypeOK, ToReceiver, ToSender
<1>2. ASSUME NEW e \in Entries, e.awaits = "pubcomp", e.pid \in Queued PROVE FALSE
  <2>1. PICK a \in ToSet(sendQueue) : a.pid = e.pid
    BY <1>2, FlightIs DEF QueuedOf, ToSet
  <2> DEFINE f == Entry(a.pid, FirstAnswer(a.msg), a.msg)
  <2>2. f \in Entries
    BY <1>1, <2>1 DEF QueueStored
  <2>3. f.pid = e.pid /\ f.awaits # "pubcomp"
    BY <2>1 DEF Entry, FirstAnswer
  <2> QED BY <1>1, <1>2, <2>2, <2>3
<1>3. ASSUME NEW x \in ToSet(c2s), Numbered(x) PROVE x.pid \notin Queued
  <2>1. CASE x.type = "publish"
    <3>1. Qos[x.msg] # 0
      BY <1>1, <1>3, <2>1 DEF Numbered, PacketsToReceiver, PublishPackets
    <3> QED BY <1>1, <2>1, <3>1 DEF Traffic, Asked
  <2>2. CASE x.type = "pubrel"
    BY <1>1, <1>2, <2>2 DEF Traffic, Asked
  <2>3. x.type \in {"publish", "pubrel"}
    BY <1>1, <1>3 DEF Numbered, PacketsToReceiver, PublishPackets
  <2> QED BY <2>1, <2>2, <2>3
<1>4. ASSUME NEW x \in ToSet(s2c), Numbered(x) PROVE x.pid \notin Queued
  BY <1>1, <1>4 DEF Numbered, PacketsToSender, Awaited, Traffic, Expected
<1> QED BY <1>2, <1>3, <1>4 DEF Carried

LEMMA AnswerRead ==
    ASSUME XInv, s2c # <<>>, s2c' = Tail(s2c), conn = "connected", AnswerWritten
    PROVE  /\ Head(s2c) \in PacketsToSender /\ Expected(Head(s2c))
           /\ session' = session
           /\ ToSet(s2c') \subseteq ToSet(s2c) /\ Alone(s2c')
           /\ Carried(s2c') \subseteq Carried(s2c)
           /\ Numbered(Head(s2c)) => Head(s2c).pid \notin Carried(c2s) \union Carried(s2c')
           /\ received' \subseteq {x.pid : x \in Answers(s2c')}
<1> DEFINE y == Head(s2c)
<1>1. Phases /\ Traffic /\ s2c \in Seq(PacketsToSender)
  BY DEF XInv, Exchanges, IInv, TypeOK, ToSender
<1>2. /\ ToSet(s2c) = ToSet(s2c') \union {y}
      /\ Carried(s2c') \subseteq Carried(s2c)
      /\ Numbered(y) => y.pid \in Carried(s2c) /\ y.pid \notin Carried(s2c')
      /\ Alone(s2c')
  <2>1. Alone(s2c)
    BY <1>1 DEF Traffic
  <2> QED BY <1>1, <2>1, TailMembers
<1>3. y \in ToSet(s2c) /\ y \in PacketsToSender
  BY <1>1, <1>2, MembersTyped
<1>4. Expected(y) /\ y.type # "connack"
  BY <1>1, <1>3 DEF Traffic, Phases
<1>5. /\ session' = session
      /\ received' = IF y.type \in {"puback", "pubrec"} THEN received \ {y.pid} ELSE received
  BY <1>4 DEF AnswerWritten
<1>6. Numbered(y) => y.pid \notin Carried(c2s)
  BY <1>1, <1>2 DEF Traffic
<1> HIDE DEF y
<1>7. received' \subseteq {x.pid : x \in Answers(s2c')}
  <2> SUFFICES ASSUME NEW q \in received' PROVE \E x \in Answers(s2c') : x.pid = q
    OBVIOUS
  <2>1. q \in received /\ (y.type \in {"puback", "pubrec"} => q # y.pid)
    BY <1>5
  <2>2. PICK z \in Answers(s2c) : z.pid = q
    BY <1>1, <2>1 DEF Phases, Traffic
  <2>3. z # y
    BY <2>1, <2>2 DEF Answers
  <2> QED BY <1>2, <2>2, <2>3 DEF Answers
<1> QED BY <1>2, <1>3, <1>4, <1>5, <1>6, <1>7 DEF y

(* The entry of one packet id changes, and no packet under way carries it. *)
LEMMA OthersKept ==
    ASSUME XInv, NEW p, p \notin Carried(c2s) \union Carried(s2c'),
           ToSet(s2c') \subseteq ToSet(s2c),
           \A e \in Entries : e.pid # p => e \in Entries', Queued' \subseteq Queued
    PROVE  /\ \A x \in ToSet(c2s) : Asked(x)'
           /\ \A x \in ToSet(s2c') : Expected(x)'
<1>1. /\ Traffic
      /\ ToSet(c2s) \subseteq PacketsToReceiver /\ ToSet(s2c) \subseteq PacketsToSender
  BY MembersTyped DEF XInv, Exchanges, IInv, TypeOK, ToReceiver, ToSender
<1>2. ASSUME NEW x \in ToSet(c2s) PROVE Asked(x)'
  <2>1. Asked(x) /\ x \in PacketsToReceiver
    BY <1>1 DEF Traffic
  <2>2. CASE x.type = "publish" /\ Qos[x.msg] # 0
    <3>1. Numbered(x)
      BY <2>1, <2>2 DEF Numbered, PacketsToReceiver, PublishPackets
    <3>2. x.pid # p
      BY <3>1 DEF Carried
    <3>3. Entry(x.pid, FirstAnswer(x.msg), x.msg) \in Entries /\ x.pid \notin Queued
      BY <2>1, <2>2 DEF Asked
    <3>4. Entry(x.pid, FirstAnswer(x.msg), x.msg).pid # p
      BY <3>2 DEF Entry
    <3>5. Entry(x.pid, FirstAnswer(x.msg), x.msg) \in Entries'
      BY <3>3, <3>4
    <3> QED BY <2>2, <3>3, <3>5 DEF Asked
  <2>3. CASE x.type = "pubrel"
    <3>1. Numbered(x)
      BY <2>1, <2>3, PidsAreNotNoPid, PacketsToReceiverFields DEF Numbered
    <3>2. x.pid # p
      BY <3>1 DEF Carried
    <3> QED BY <2>1, <2>3, <3>2 DEF Asked
  <2> QED BY <2>2, <2>3 DEF Asked
<1>3. ASSUME NEW x \in ToSet(s2c') PROVE Expected(x)'
  <2>1. Expected(x) /\ x \in PacketsToSender
    BY <1>1 DEF Traffic
  <2> SUFFICES ASSUME x.type \in Awaited PROVE Expected(x)'
    BY DEF Expected
  <2>2. Numbered(x)
    BY <2>1, PidsAreNotNoPid, PacketsToSenderFields DEF Numbered, Awaited
  <2>3. x.pid # p
    BY <2>2 DEF Carried
  <2> QED BY <2>1, <2>3 DEF Expected
<1> QED BY <1>2, <1>3

(* The client reads an answer, and writes a packet or none. *)
LEMMA AnswerExchanges ==
    ASSUME XInv, s2c # <<>>, conn = "connected", AnswerWritten, UNCHANGED conn,
           \A x \in ToSet(c2s) : Asked(x)', \A x \in ToSet(s2c') : Expected(x)',
           \/ UNCHANGED c2s
           \/ \E x \in PacketsToReceiver :
                /\ c2s' = Written(<<x>>) /\ x.type # "connect" /\ Asked(x)'
                /\ x.pid \notin Carried(c2s) \union Carried(s2c')
    PROVE  Phases' /\ Traffic'
<1>1. c2s \in Seq(PacketsToReceiver) /\ Phases /\ Traffic
  BY DEF XInv, IInv, TypeOK, ToReceiver, Exchanges
<1>2. s2c' = Tail(s2c)
  BY DEF AnswerWritten
<1>3. /\ session' = session
      /\ ToSet(s2c') \subseteq ToSet(s2c) /\ Alone(s2c')
      /\ Carried(s2c') \subseteq Carried(s2c)
      /\ received' \subseteq {x.pid : x \in Answers(s2c')}
  BY <1>2, AnswerRead
<1>4. CASE UNCHANGED c2s
  <2>1. Phases'
    BY <1>1, <1>3, <1>4 DEF Phases
  <2>2. Traffic'
    BY <1>1, <1>3, <1>4 DEF Traffic, Answers
  <2> QED BY <2>1, <2>2
<1>5. ASSUME NEW x \in PacketsToReceiver, c2s' = Written(<<x>>), x.type # "connect", Asked(x)',
             x.pid \notin Carried(c2s) \union Carried(s2c')
      PROVE  Phases' /\ Traffic'
  <2> DEFINE q == Append(c2s, x)
  <2>1. /\ ToSet(q) = ToSet(c2s) \union {x}
        /\ Carried(q) \subseteq Carried(c2s) \union {x.pid}
        /\ Alone(q)
    <3>1. Alone(c2s) /\ x.pid \notin Carried(c2s)
      BY <1>1, <1>5 DEF Traffic
    <3> QED BY <1>1, <3>1, AppendMembers
  <2>2. c2s' = q
    BY <1>1, <1>5, AppendIsConcat DEF Written
  <2> HIDE DEF q
  <2>3. Phases'
    BY <1>1, <1>3, <1>5, <2>1, <2>2 DEF Phases
  <2>4. Traffic'
    <3>1. Carried(q) \intersect Carried(s2c') = {}
      BY <1>1, <1>3, <1>5, <2>1 DEF Traffic
    <3> QED BY <1>1, <1>3, <1>5, <2>1, <2>2, <3>1 DEF Traffic, Answers
  <2> QED BY <2>3, <2>4
<1> QED BY <1>4, <1>5

LEMMA QueueAdvanced ==
    ASSUME NEW S, NEW s \in Seq(S), s # <<>>, Distinct(s)
    PROVE  /\ Distinct(Tail(s)) /\ Tail(s) \in Seq(S)
           /\ Head(s) \in ToSet(s) /\ Head(s) \in S
           /\ ToSet(Tail(s)) \subseteq ToSet(s)
           /\ QueuedOf(Tail(s)) = QueuedOf(s) \ {Head(s).pid}
           /\ Head(s).pid \in QueuedOf(s)
<1> DEFINE t == Tail(s)
           h == Head(s)
<1>1. /\ t \in Seq(S) /\ h = s[1] /\ 1 \in DOMAIN s /\ h \in S
      /\ \A i \in DOMAIN t : i + 1 \in DOMAIN s /\ t[i] = s[i + 1]
  BY AfterTail
<1>2. DOMAIN t \subseteq Nat \ {0}
  BY <1>1, LenProperties
<1>3. ToSet(s) = ToSet(t) \union {h}
  BY TailMembers
<1> HIDE DEF t, h
<1>4. Distinct(t)
  <2> SUFFICES ASSUME NEW i \in DOMAIN t, NEW j \in DOMAIN t, t[i].pid = t[j].pid
               PROVE  i = j
    BY DEF Distinct
  <2>1. i + 1 = j + 1
    BY <1>1 DEF Distinct
  <2> QED BY <1>2, <2>1
<1>5. \A i \in DOMAIN t : t[i].pid # h.pid
  <2> SUFFICES ASSUME NEW i \in DOMAIN t, t[i].pid = h.pid PROVE FALSE
    OBVIOUS
  <2>1. i + 1 = 1
    BY <1>1 DEF Distinct
  <2> QED BY <1>2, <2>1
<1>6. \A q : QueuedOf(q) = {x.pid : x \in ToSet(q)}
  BY DEF QueuedOf, ToSet
<1>7. \A x \in ToSet(t) : x.pid # h.pid
  BY <1>5 DEF ToSet
<1> QED BY <1>1, <1>3, <1>4, <1>6, <1>7 DEF t, h

LEMMA CountKept ==
    ASSUME NEW n \in Nat, 1 <= n, n <= MaxUint16 PROVE Incremented(Decremented(n)) = n
<1>1. Decremented(n) = n - 1 /\ n - 1 + 1 = n /\ n < MaxUint16 + 1 /\ MaxUint16 \in Nat
  BY MaxUint16Type DEF Decremented
<1>2. \A k \in Nat : n < k => n % k = n
  OBVIOUS
<1> QED BY <1>1, <1>2 DEF Incremented

(* A message leaves the store: the slot it held, if any, is released. *)
LEMMA ReleaseExchanges ==
    ASSUME XInv, s2c # <<>>, conn = "connected", AnswerWritten,
           Head(s2c).type \in Awaited,
           store' = Erased(store, Head(s2c).pid), UNCHANGED <<conn, resendPubrel>>,
           \/ /\ SlotReleased
              /\ Head(s2c).type = "pubcomp" => Head(s2c).pid \notin resendPubrel
           \/ /\ Head(s2c).type = "pubcomp" /\ Head(s2c).pid \in resendPubrel
              /\ UNCHANGED <<sendCount, sendQueue, c2s>>
    PROVE  Exchanges'
<1> DEFINE y == Head(s2c)
           p == y.pid
<1>1. /\ IInv /\ Phases /\ QueueStored /\ Traffic /\ WindowSafe
      /\ store \in Seq(StoreEntries) /\ sendQueue \in Seq(QueueEntries) /\ Distinct(store)
      /\ sendCount \in Nat /\ ReceiveMax \in Nat /\ ReceiveMax <= MaxUint16
  BY PacketsAssumption, PidsConsistentParts, MaxUint16Type
     DEF XInv, Exchanges, IInv, TypeOK, SenderTypes, Counts
<1>2. /\ s2c' = Tail(s2c) /\ y \in PacketsToSender /\ Expected(y)
      /\ ToSet(s2c') \subseteq ToSet(s2c) /\ Carried(s2c') \subseteq Carried(s2c)
      /\ Numbered(y) => p \notin Carried(c2s) \union Carried(s2c')
  BY AnswerRead DEF AnswerWritten
<1>3. p \in Pids /\ y.type \in Awaited /\ p \notin Carried(c2s) \union Carried(s2c')
  <2>1. p \in Pids /\ y.type \in Awaited
    BY <1>2, PacketsToSenderFields DEF Awaited
  <2> QED BY <1>2, <2>1, PidsAreNotNoPid DEF Numbered, Awaited
<1>4. PICK e \in Entries : e.pid = p /\ e.awaits = y.type
  BY <1>2, <1>3 DEF Expected
<1>5. p \notin Queued
  BY <1>2, <1>3 DEF Expected
<1>6. /\ \/ /\ SlotReleased
            /\ y.type = "pubcomp" => p \notin resendPubrel
         \/ /\ y.type = "pubcomp" /\ p \in resendPubrel
            /\ UNCHANGED <<sendCount, sendQueue, c2s>>
      /\ store' = Erased(store, p)
  OBVIOUS
<1> HIDE DEF y
<1>7. Entries' = {f \in Entries : f.pid # p} /\ store' \in Seq(StoreEntries)
  <2>1. p \in PidsOf(store)
    BY <1>4 DEF PidsOf, Entries, ToSet
  <2> DEFINE r == Erased(store, p)
  <2>2. ToSet(r) = {f \in ToSet(store) : f.pid # p} /\ r \in Seq(StoreEntries)
    BY <1>1, <2>1, ErasedEntries, ErasedOne
  <2> HIDE DEF r
  <2>3. store' = r
    BY <1>6 DEF r
  <2> QED BY <2>2, <2>3 DEF Entries
<1>8. /\ InFlight = {f.pid : f \in {g \in Entries : HoldsSlot(g, Queued, resendPubrel)}}
      /\ IsFiniteSet(InFlight) /\ Cardinality(InFlight) \in Nat
      /\ InFlight' = {f.pid : f \in {g \in Entries' : HoldsSlot(g, Queued', resendPubrel)}}
      /\ IsFiniteSet(InFlight') /\ Cardinality(InFlight') \in Nat
  BY <1>1, <1>7, FlightIs, FlightNext, FlightAsSet DEF Entries
<1>9. ASSUME NEW q \in Seq(QueueEntries), Distinct(q), ToSet(q) \subseteq ToSet(sendQueue),
             sendQueue' = q, ~V5 => q = <<>>
      PROVE  QueueStored'
  <2>1. ASSUME NEW x \in ToSet(q) PROVE Entry(x.pid, FirstAnswer(x.msg), x.msg) \in Entries'
    <3>1. x \in ToSet(sendQueue) /\ Entry(x.pid, FirstAnswer(x.msg), x.msg) \in Entries
      BY <1>1, <1>9 DEF QueueStored
    <3>2. x.pid # p
      BY <1>5, <3>1, FlightIs DEF QueuedOf, ToSet
    <3>3. Entry(x.pid, FirstAnswer(x.msg), x.msg).pid # p
      BY <3>2 DEF Entry
    <3> QED BY <1>7, <3>1, <3>3
  <2> QED BY <1>9, <2>1 DEF QueueStored
<1>10. ASSUME Queued' \subseteq Queued
       PROVE  /\ \A x \in ToSet(c2s) : Asked(x)'
              /\ \A x \in ToSet(s2c') : Expected(x)'
  <2>1. \A f \in Entries : f.pid # p => f \in Entries'
    BY <1>7
  <2> QED BY <1>2, <1>3, <1>10, <2>1, OthersKept
<1>11. CASE UNCHANGED <<sendCount, sendQueue, c2s>>
  <2>1. Queued' = Queued
    BY <1>11, FlightIs, FlightNext
  <2>2. QueueStored'
    BY <1>1, <1>9, <1>11 DEF QueueStored
  <2>3. InFlight' \subseteq InFlight
    BY <1>7, <1>8, <2>1
  <2>4. WindowSafe'
    <3>1. Cardinality(InFlight') <= Cardinality(InFlight)
      BY <1>8, <2>3, Counted
    <3> QED BY <1>1, <1>8, <1>11, <3>1 DEF WindowSafe
  <2>5. Phases' /\ Traffic'
    BY <1>10, <1>11, <2>1, AnswerExchanges
  <2> QED BY <2>2, <2>4, <2>5 DEF Exchanges
<1>12. CASE V5 /\ SlotReleased /\ (y.type = "pubcomp" => p \notin resendPubrel)
  <2>1. p \in InFlight
    <3>1. HoldsSlot(e, Queued, resendPubrel)
      BY <1>4, <1>5, <1>12 DEF HoldsSlot, IsPublish
    <3> QED BY <1>4, <1>8, <3>1
  <2>2. Cardinality(InFlight) >= 1
    <3>1. {} \subseteq InFlight \ {p} /\ Cardinality({}) = 0
      BY FS_EmptySet
    <3>2. Cardinality({}) <= Cardinality(InFlight) - 1
      BY <1>8, <2>1, <3>1, Counted
    <3> QED BY <1>8, <3>1, <3>2
  <2>3. sendCount >= 1 /\ sendCount <= ReceiveMax /\ Cardinality(InFlight) <= sendCount
    BY <1>1, <1>8, <1>12, <2>2 DEF WindowSafe
  <2>4. CASE sendQueue = <<>>
    <3>1. sendCount' = Decremented(sendCount) /\ UNCHANGED <<sendQueue, c2s>>
      BY <1>12, <2>4 DEF SlotReleased
    <3>2. Queued' = Queued
      BY <3>1, FlightIs, FlightNext
    <3>3. QueueStored'
      BY <1>1, <1>9, <3>1 DEF QueueStored
    <3>4. InFlight' \subseteq InFlight \ {p}
      BY <1>7, <1>8, <3>2
    <3>5. WindowSafe'
      <4>1. Cardinality(InFlight') <= Cardinality(InFlight) - 1
        BY <1>8, <2>1, <3>4, Counted
      <4>2. sendCount' = sendCount - 1
        BY <1>1, <2>3, <3>1 DEF Decremented
      <4> QED BY <1>1, <1>8, <2>3, <2>4, <3>1, <4>1, <4>2 DEF WindowSafe
    <3>6. Phases' /\ Traffic'
      BY <1>10, <3>1, <3>2, AnswerExchanges
    <3> QED BY <3>3, <3>5, <3>6 DEF Exchanges
  <2>5. CASE sendQueue # <<>>
    <3> DEFINE t == Tail(sendQueue)
    <3>0. PICK h : h = Head(sendQueue)
      OBVIOUS
    <3>1. /\ sendCount' = Incremented(Decremented(sendCount))
          /\ sendQueue' = t
          /\ c2s' = Written(<<PublishPacket(h.pid, h.msg)>>)
      BY <1>12, <2>5, <3>0 DEF SlotReleased
    <3>2. /\ Distinct(t) /\ t \in Seq(QueueEntries) /\ h \in ToSet(sendQueue) /\ h \in QueueEntries
          /\ ToSet(t) \subseteq ToSet(sendQueue)
          /\ QueuedOf(t) = QueuedOf(sendQueue) \ {h.pid} /\ h.pid \in QueuedOf(sendQueue)
      BY <1>1, <2>5, <3>0, QueueAdvanced DEF QueueStored
    <3> HIDE DEF t
    <3>3. Queued' = Queued \ {h.pid} /\ h.pid \in Queued /\ h.pid # p
      BY <1>5, <3>1, <3>2, FlightIs, FlightNext
    <3>4. QueueStored'
      BY <1>9, <1>12, <3>1, <3>2
    <3>5. Entry(h.pid, FirstAnswer(h.msg), h.msg) \in Entries'
      <4>1. Entry(h.pid, FirstAnswer(h.msg), h.msg) \in Entries
        BY <1>1, <3>2 DEF QueueStored
      <4>2. Entry(h.pid, FirstAnswer(h.msg), h.msg).pid # p
        BY <3>3 DEF Entry
      <4> QED BY <1>7, <4>1, <4>2
    <3>6. InFlight' \subseteq (InFlight \ {p}) \union {h.pid}
      BY <1>7, <1>8, <3>3 DEF HoldsSlot
    <3>7. WindowSafe'
      <4>1. Cardinality(InFlight') <= Cardinality(InFlight)
        BY <1>8, <2>1, <3>6, Counted
      <4>2. sendCount' = sendCount
        <5>1. sendCount <= MaxUint16
          BY <1>1, <2>3, MaxUint16Type
        <5>2. Incremented(Decremented(sendCount)) = sendCount
          BY <1>1, <2>3, <5>1, CountKept
        <5> QED BY <3>1, <5>2
      <4>3. sendCount = ReceiveMax
        BY <1>1, <1>12, <2>5 DEF WindowSafe
      <4> QED BY <1>1, <1>8, <2>3, <4>1, <4>2, <4>3 DEF WindowSafe
    <3> DEFINE x == PublishPacket(h.pid, h.msg)
    <3>8. x \in PacketsToReceiver /\ x.type # "connect" /\ x.pid = h.pid
      BY <3>2, PacketsWritten DEF PublishPacket, QueueEntries
    <3>9. Asked(x)'
      BY <3>3, <3>5 DEF Asked, PublishPacket
    <3>10. c2s' = Written(<<x>>)
      BY <3>1
    <3> HIDE DEF x
    <3>11. x.pid \notin Carried(c2s) \union Carried(s2c')
      BY <1>2, <3>3, <3>8, QueuedNotCarried
    <3>12. \/ UNCHANGED c2s
           \/ \E z \in PacketsToReceiver :
                /\ c2s' = Written(<<z>>) /\ z.type # "connect" /\ Asked(z)'
                /\ z.pid \notin Carried(c2s) \union Carried(s2c')
      BY <3>8, <3>9, <3>10, <3>11
    <3>13. Phases' /\ Traffic'
      BY <1>10, <3>3, <3>12, AnswerExchanges
    <3> QED BY <3>4, <3>7, <3>13 DEF Exchanges
  <2> QED BY <2>4, <2>5
<1>13. ~V5 /\ SlotReleased => UNCHANGED <<sendCount, sendQueue, c2s>>
  BY DEF SlotReleased
<1> QED BY <1>6, <1>11, <1>12, <1>13

(* A pubrec is answered: the message's entry now waits for the pubcomp. *)
LEMMA PubrelExchanges ==
    ASSUME XInv, s2c # <<>>, conn = "connected", AnswerWritten,
           Head(s2c).type = "pubrec", NEW m, m = MsgOf(Head(s2c).pid),
           SendPubrel(Head(s2c).pid, m), UNCHANGED conn
    PROVE  Exchanges'
<1>0. PICK p : p = Head(s2c).pid
  OBVIOUS
<1> DEFINE y == Head(s2c)
           new == Entry(p, "pubcomp", m)
           x == PubrelPacket(p)
<1>1. /\ IInv /\ Phases /\ QueueStored /\ Traffic /\ WindowSafe
      /\ store \in Seq(StoreEntries) /\ Distinct(store)
      /\ sendCount \in Nat /\ ReceiveMax \in Nat
      /\ \A f, g \in Entries : f.pid = g.pid => f = g
      /\ Entries \subseteq StoreEntries /\ StorePids \subseteq pids
  BY PacketsAssumption, PidsConsistentParts, EntriesOne
     DEF XInv, Exchanges, IInv, TypeOK, SenderTypes, Counts
<1>2. /\ s2c' = Tail(s2c) /\ y \in PacketsToSender /\ Expected(y)
      /\ ToSet(s2c') \subseteq ToSet(s2c)
      /\ Numbered(y) => p \notin Carried(c2s) \union Carried(s2c')
  BY <1>0, AnswerRead DEF AnswerWritten
<1>3. p \in Pids /\ p \notin Carried(c2s) \union Carried(s2c')
  <2>1. p \in Pids
    BY <1>0, <1>2, PacketsToSenderFields
  <2> QED BY <1>0, <1>2, <2>1, PidsAreNotNoPid DEF Numbered
<1>4. PICK e \in Entries : e.pid = p /\ e.awaits = "pubrec"
  BY <1>0, <1>2 DEF Expected, Awaited
<1>5. p \notin Queued
  BY <1>0, <1>2 DEF Expected, Awaited
<1>6. p \in PidsOf(store) /\ p \in pids
  <2>1. p \in PidsOf(store)
    BY <1>4 DEF PidsOf, Entries, ToSet
  <2> QED BY <1>1, <2>1 DEF PidsOf, StorePids
<1>7. /\ store' = Append(Erased(store, p), new)
      /\ c2s' = Written(<<x>>)
      /\ UNCHANGED <<resendPubrel, sendCount, sendQueue>>
  BY <1>0, <1>6 DEF SendPubrel
<1>8. new \in StoreEntries /\ new.pid = p /\ new.awaits = "pubcomp" /\ ~IsPublish(new)
  <2>1. m = e.msg
    <3>1. PICK i \in DOMAIN store : store[i] = e
      BY <1>4 DEF Entries, ToSet
    <3> QED BY <1>0, <1>1, <1>4, <3>1 DEF MsgOf, Distinct
  <2> QED BY <1>1, <1>3, <1>4, <2>1 DEF Entry, StoreEntries, Awaited, IsPublish
<1> HIDE DEF new, y
<1>9. /\ Entries' = {f \in Entries : f.pid # p} \union {new}
      /\ store' \in Seq(StoreEntries)
  <2> DEFINE r == Erased(store, p)
  <2>1. ToSet(r) = {f \in ToSet(store) : f.pid # p} /\ r \in Seq(StoreEntries)
    BY <1>1, <1>6, ErasedEntries, ErasedOne
  <2>2. store' = Append(r, new)
    BY <1>7
  <2> HIDE DEF r
  <2> DEFINE t == Append(r, new)
  <2>3. ToSet(t) = ToSet(r) \union {new} /\ t \in Seq(StoreEntries)
    BY <1>8, <2>1, AppendMembers, AppendProperties
  <2> HIDE DEF t
  <2>4. store' = t
    BY <2>2 DEF t
  <2> QED BY <2>1, <2>3, <2>4 DEF Entries
<1>10. Queued' = Queued /\ resendPubrel' = resendPubrel
  BY <1>7, FlightIs, FlightNext
<1>11. /\ InFlight = {f.pid : f \in {g \in Entries : HoldsSlot(g, Queued, resendPubrel)}}
       /\ IsFiniteSet(InFlight) /\ Cardinality(InFlight) \in Nat
       /\ InFlight' = {f.pid : f \in {g \in Entries' : HoldsSlot(g, Queued, resendPubrel)}}
       /\ IsFiniteSet(InFlight') /\ Cardinality(InFlight') \in Nat
  <2>1. store \in Seq(StoreEntries) /\ store' \in Seq(StoreEntries)
    BY <1>1, <1>9
  <2> QED BY <1>10, <2>1, FlightIs, FlightNext, FlightAsSet DEF Entries
<1>12. QueueStored'
  <2>1. ASSUME NEW a \in ToSet(sendQueue) PROVE Entry(a.pid, FirstAnswer(a.msg), a.msg) \in Entries'
    <3>1. Entry(a.pid, FirstAnswer(a.msg), a.msg) \in Entries
      BY <1>1 DEF QueueStored
    <3>2. a.pid # p
      BY <1>5, FlightIs DEF QueuedOf, ToSet
    <3>3. Entry(a.pid, FirstAnswer(a.msg), a.msg).pid # p
      BY <3>2 DEF Entry
    <3> QED BY <1>9, <3>1, <3>3
  <2> QED BY <1>1, <1>7, <2>1 DEF QueueStored
<1>13. WindowSafe'
  <2>1. p \in InFlight
    <3>1. HoldsSlot(e, Queued, resendPubrel)
      BY <1>4, <1>5 DEF HoldsSlot, IsPublish
    <3> QED BY <1>4, <1>11, <3>1
  <2>2. InFlight' \subseteq InFlight
    BY <1>8, <1>9, <1>11, <2>1
  <2>3. Cardinality(InFlight') <= Cardinality(InFlight)
    BY <1>11, <2>2, Counted
  <2> QED BY <1>1, <1>7, <1>11, <2>3 DEF WindowSafe
<1>14. /\ \A z \in ToSet(c2s) : Asked(z)'
       /\ \A z \in ToSet(s2c') : Expected(z)'
  <2>1. \A f \in Entries : f.pid # p => f \in Entries'
    BY <1>9
  <2> QED BY <1>2, <1>3, <1>10, <2>1, OthersKept
<1>15. x \in PacketsToReceiver /\ x.type = "pubrel" /\ x.pid = p
  BY <1>3, PacketsWritten DEF PubrelPacket
<1> HIDE DEF x
<1>16. Asked(x)'
  BY <1>8, <1>9, <1>15 DEF Asked
<1>17. Phases' /\ Traffic'
  BY <1>3, <1>7, <1>14, <1>15, <1>16, AnswerExchanges
<1> QED BY <1>12, <1>13, <1>17 DEF Exchanges

LEMMA SubackExchanges ==
    ASSUME XInv, s2c # <<>>, conn = "connected", AnswerWritten,
           UNCHANGED <<conn, store, sendCount, sendQueue, resendPubrel, c2s>>
    PROVE  Exchanges'
<1>1. QueueStored' /\ WindowSafe' /\ \A x : (Asked(x) => Asked(x)') /\ (Expected(x) => Expected(x)')
  BY WindowKept DEF XInv, Exchanges
<1>2. ToSet(s2c') \subseteq ToSet(s2c)
  BY AnswerRead DEF AnswerWritten
<1>3. /\ \A x \in ToSet(c2s) : Asked(x)'
      /\ \A x \in ToSet(s2c') : Expected(x)'
  BY <1>1, <1>2 DEF XInv, Exchanges, Traffic
<1>4. Phases' /\ Traffic'
  BY <1>3, AnswerExchanges
<1> QED BY <1>1, <1>4 DEF Exchanges

(* CONNACK has been read: the store goes out again. *)

LEMMA PickedApart ==
    ASSUME store \in Seq(StoreEntries), Distinct(store), NEW P \in SUBSET DOMAIN store
    PROVE  /\ DOMAIN Picked(P) = 1..Cardinality(P) /\ Cardinality(P) \in Nat
           /\ Distinct(Picked(P))
           /\ ToSet(Picked(P)) = {store[i] : i \in P}
           /\ ToSet(Picked(P)) \subseteq StoreEntries
BY SelectedApart DEF Picked

LEMMA ResendExchanges ==
    ASSUME XInv, conn = "connecting", c2s = <<>>, ResendStore, s2c' = <<>>, received' = {},
           conn' = "connected", session' = "live"
    PROVE  Exchanges'
<1> DEFINE out  == (DOMAIN store \ StoredPublishes) \union LetOut
           rest == StoredPublishes \ LetOut
           sent    == Picked(out)
           waiting == Picked(rest)
           packets == [k \in DOMAIN sent |-> StoredPacket(sent[k])]
           queue   == [k \in DOMAIN waiting |-> QueueEntry(waiting[k])]
           letPids == {store[i].pid : i \in LetOut}
<1>1. /\ store \in Seq(StoreEntries) /\ Distinct(store) /\ ReceiveMax \in Nat
      /\ \A i \in DOMAIN store : store[i] \in StoreEntries
  BY PacketsAssumption, PidsConsistentParts, StoreTypes DEF XInv, IInv, TypeOK, SenderTypes
<1>2. /\ LetOut \subseteq StoredPublishes /\ StoredPublishes \in SUBSET DOMAIN store
      /\ out \in SUBSET DOMAIN store /\ rest \in SUBSET DOMAIN store
      /\ \A i \in DOMAIN store : i \in StoredPublishes <=> IsPublish(store[i])
      /\ ~V5 => rest = {}
  BY DEF LetOut, StoredPublishes
<1>3. /\ sendCount' = (IF V5 THEN Cardinality(LetOut) ELSE 0)
      /\ sendQueue' = queue
      /\ V5 => resendPubrel' = StorePids \ {store[i].pid : i \in StoredPublishes}
      /\ c2s' = Written(packets)
      /\ store' = store
  BY DEF ResendStore
<1>4. /\ DOMAIN sent = 1..Cardinality(out) /\ Cardinality(out) \in Nat
      /\ Distinct(sent) /\ ToSet(sent) = {store[i] : i \in out}
  BY <1>1, <1>2, PickedApart
<1>5. /\ DOMAIN waiting = 1..Cardinality(rest) /\ Cardinality(rest) \in Nat
      /\ Distinct(waiting) /\ ToSet(waiting) = {store[i] : i \in rest}
  BY <1>1, <1>2, PickedApart
<1> HIDE DEF out, rest, sent, waiting
<1>6. Entries' = Entries /\ Entries = {store[i] : i \in DOMAIN store}
  BY <1>3 DEF Entries, ToSet
<1>7. ASSUME NEW e \in StoreEntries, IsPublish(e) PROVE e = Entry(e.pid, FirstAnswer(e.msg), e.msg)
  BY <1>7 DEF StoreEntries, Awaited, IsPublish, FirstAnswer, Entry
<1>8. /\ Distinct(queue)
      /\ ToSet(queue) = {QueueEntry(store[i]) : i \in rest}
      /\ Queued' = {store[i].pid : i \in rest}
  <2>1. \A e : QueueEntry(e).pid = e.pid
    BY DEF QueueEntry
  <2>2. DOMAIN queue = DOMAIN waiting /\ \A k \in DOMAIN waiting : queue[k] = QueueEntry(waiting[k])
    OBVIOUS
  <2> HIDE DEF queue
  <2>3. Distinct(queue)
    BY <1>5, <2>1, <2>2 DEF Distinct
  <2>4. ToSet(queue) = {QueueEntry(e) : e \in ToSet(waiting)}
    BY <2>2 DEF ToSet
  <2>5. ToSet(queue) = {QueueEntry(store[i]) : i \in rest}
    BY <1>5, <2>4
  <2>6. Queued' = {x.pid : x \in ToSet(queue)}
    BY <1>3, FlightNext DEF QueuedOf, ToSet
  <2> QED BY <2>1, <2>3, <2>5, <2>6
<1> HIDE DEF queue
<1>9. QueueStored'
  <2>1. ASSUME NEW i \in rest
        PROVE  LET x == QueueEntry(store[i]) IN Entry(x.pid, FirstAnswer(x.msg), x.msg) \in Entries
    <3>1. i \in DOMAIN store /\ IsPublish(store[i])
      BY <1>2 DEF rest
    <3>2. store[i] = Entry(store[i].pid, FirstAnswer(store[i].msg), store[i].msg) /\ store[i] \in Entries
      BY <1>1, <1>6, <1>7, <3>1
    <3>3. QueueEntry(store[i]).pid = store[i].pid /\ QueueEntry(store[i]).msg = store[i].msg
      BY DEF QueueEntry
    <3> QED BY <3>2, <3>3
  <2>2. ASSUME ~V5 PROVE queue = <<>>
    <3>1. rest = {} /\ Cardinality(rest) = 0
      BY <1>2, <2>2, FS_EmptySet
    <3>2. DOMAIN waiting = 1..0
      BY <1>5, <3>1
    <3> QED BY <3>2 DEF queue
  <2> QED BY <1>3, <1>6, <1>8, <2>1, <2>2 DEF QueueStored
<1>10. ASSUME NEW i \in out
       PROVE  /\ Asked(StoredPacket(store[i]))'
              /\ StoredPacket(store[i]).type # "connect"
              /\ StoredPacket(store[i]).pid = store[i].pid
  <2> DEFINE e == store[i]
             x == StoredPacket(e)
  <2>0. i \in DOMAIN store /\ e \in StoreEntries /\ e \in Entries
    BY <1>1, <1>2, <1>6
  <2>1. CASE IsPublish(e)
    <3>1. x = PublishPacket(e.pid, e.msg)
      BY <2>1 DEF StoredPacket
    <3>2. x.type = "publish" /\ x.pid = e.pid /\ x.msg = e.msg
      BY <3>1 DEF PublishPacket
    <3>3. i \notin rest
      BY <1>2, <2>0, <2>1 DEF out, rest
    <3>4. e.pid \notin Queued'
      BY <1>1, <1>2, <1>8, <2>0, <3>3 DEF Distinct
    <3>5. Entry(e.pid, FirstAnswer(e.msg), e.msg) \in Entries
      BY <1>7, <2>0, <2>1
    <3>6. PICK c : c = x
      OBVIOUS
    <3> HIDE DEF x
    <3>7. Asked(c)'
      BY <1>6, <3>2, <3>4, <3>5, <3>6 DEF Asked
    <3>8. StoredPacket(store'[i]) = c
      BY <1>3, <3>6 DEF x
    <3> QED BY <3>2, <3>7, <3>8 DEF x
  <2>2. CASE ~IsPublish(e)
    <3>1. x = PubrelPacket(e.pid) /\ e.awaits = "pubcomp"
      BY <2>2 DEF StoredPacket, IsPublish
    <3>2. x.type = "pubrel" /\ x.pid = e.pid
      BY <3>1 DEF PubrelPacket
    <3>3. PICK c : c = x
      OBVIOUS
    <3> HIDE DEF x
    <3>4. Asked(c)'
      BY <1>6, <2>0, <3>1, <3>2, <3>3 DEF Asked
    <3>5. StoredPacket(store'[i]) = c
      BY <1>3, <3>3 DEF x
    <3> QED BY <3>2, <3>4, <3>5 DEF x
  <2> QED BY <2>1, <2>2
<1>11. /\ c2s' = packets /\ Alone(packets)
       /\ ToSet(packets) = {StoredPacket(store[i]) : i \in out}
  <2>1. DOMAIN packets = DOMAIN sent /\ \A k \in DOMAIN sent : packets[k] = StoredPacket(sent[k])
    OBVIOUS
  <2>2. packets \in Seq(PacketsToReceiver)
    <3>1. \A k \in DOMAIN sent : sent[k] \in StoreEntries
      BY <1>1, <1>2, <1>4 DEF ToSet
    <3>2. ASSUME NEW e \in StoreEntries PROVE StoredPacket(e) \in PacketsToReceiver
      <4>1. e.pid \in Pids /\ e.msg \in Messages /\ Qos[e.msg] # 0
        BY DEF StoreEntries
      <4> QED BY <4>1, PacketsWritten DEF StoredPacket
    <3>3. packets \in [1..Cardinality(out) -> PacketsToReceiver]
      BY <1>4, <3>1, <3>2
    <3> HIDE DEF packets
    <3> QED BY <1>4, <3>3, FunctionsAreSequences
  <2> HIDE DEF packets
  <2>3. c2s' = packets
    BY <1>3, <2>2, ConcatEmptySeq DEF Written
  <2>4. \A k \in DOMAIN sent : \E i \in out : sent[k] = store[i]
    BY <1>4 DEF ToSet
  <2>5. \A k \in DOMAIN sent : packets[k].pid = sent[k].pid
    BY <1>10, <2>1, <2>4
  <2>6. Alone(packets)
    BY <1>4, <2>1, <2>5 DEF Alone, Distinct
  <2>7. ToSet(packets) = {StoredPacket(e) : e \in ToSet(sent)}
    BY <2>1 DEF ToSet
  <2> QED BY <1>4, <2>3, <2>6, <2>7
<1> HIDE DEF packets
<1>12. Phases'
  BY <1>10, <1>11, NothingCarried DEF Phases
<1>13. Traffic'
  <2>1. \A x \in ToSet(packets) : Asked(x)'
    <3> SUFFICES ASSUME NEW x \in ToSet(packets) PROVE Asked(x)'
      OBVIOUS
    <3>1. PICK i \in out : x = StoredPacket(store[i])
      BY <1>11
    <3>2. x = StoredPacket(store'[i]) /\ Asked(StoredPacket(store[i]))'
      BY <1>3, <1>10, <3>1
    <3> QED BY <3>2
  <2> QED BY <1>11, <2>1, NothingCarried DEF Traffic
<1>14. WindowSafe'
  <2> SUFFICES ASSUME V5
               PROVE  /\ Cardinality(InFlight') <= sendCount'
                      /\ sendCount' <= ReceiveMax
                      /\ sendQueue' # <<>> => sendCount' = ReceiveMax
    BY DEF WindowSafe
  <2>1. /\ StoredPublishes \in SUBSET Nat /\ IsFiniteSet(StoredPublishes)
        /\ LetOut \in SUBSET Nat /\ IsFiniteSet(LetOut)
        /\ LetOut = {i \in StoredPublishes : Rank(StoredPublishes, i) < ReceiveMax}
        /\ sendCount' = Cardinality(LetOut) /\ Cardinality(LetOut) \in 0..ReceiveMax
    <3>1. /\ StoredPublishes \in SUBSET Nat /\ IsFiniteSet(StoredPublishes)
          /\ LetOut \in SUBSET DOMAIN store
          /\ LetOut = {i \in StoredPublishes : Rank(StoredPublishes, i) < ReceiveMax}
      BY <1>1, <1>2, PickedEntries DEF LetOut
    <3>2. LetOut \in SUBSET Nat /\ IsFiniteSet(LetOut)
      BY <1>1, <3>1, PickedEntries
    <3> QED BY <1>1, <1>3, <3>1, <3>2, FewLowRanks
  <2>2. ASSUME sendQueue' # <<>> PROVE sendCount' = ReceiveMax
    <3>1. rest # {}
      <4> SUFFICES ASSUME rest = {} PROVE FALSE
        OBVIOUS
      <4>1. DOMAIN waiting = 1..0
        BY <1>5, FS_EmptySet
      <4>2. queue = <<>>
        BY <4>1 DEF queue
      <4> QED BY <1>3, <2>2, <4>2
    <3>2. PICK i \in StoredPublishes : ~(Rank(StoredPublishes, i) < ReceiveMax)
      BY <2>1, <3>1 DEF rest
    <3>3. Rank(StoredPublishes, i) \in Nat /\ Rank(StoredPublishes, i) < Cardinality(StoredPublishes)
          /\ Cardinality(StoredPublishes) \in Nat
      BY <2>1, RankType, FS_CardinalityType
    <3>4. ReceiveMax <= Cardinality(StoredPublishes)
      BY <1>1, <3>2, <3>3
    <3>5. Cardinality({k \in StoredPublishes : Rank(StoredPublishes, k) < ReceiveMax}) = ReceiveMax
      BY <1>1, <2>1, <3>4, LowRanks
    <3> QED BY <2>1, <3>5
  <2>3. Cardinality(letPids) <= Cardinality(LetOut) /\ IsFiniteSet(letPids)
    <3> DEFINE f == [i \in LetOut |-> store[i].pid]
    <3>1. f \in Surjection(LetOut, letPids)
      BY DEF Surjection
    <3> HIDE DEF f, letPids
    <3> QED BY <2>1, <3>1, FS_Surjection
  <2>4. InFlight' \subseteq letPids
    <3>1. InFlight' = {e.pid : e \in {g \in Entries : HoldsSlot(g, Queued', resendPubrel')}}
      <4>1. store' \in Seq(StoreEntries)
        BY <1>1, <1>3
      <4> QED BY <1>6, <4>1, FlightNext, FlightAsSet DEF Entries
    <3>2. ASSUME NEW i \in DOMAIN store, HoldsSlot(store[i], Queued', resendPubrel')
          PROVE  store[i].pid \in letPids
      <4>1. CASE IsPublish(store[i])
        <5>1. i \notin rest
          BY <1>8, <3>2, <4>1 DEF HoldsSlot
        <5> QED BY <1>2, <4>1, <5>1 DEF rest
      <4>2. CASE ~IsPublish(store[i])
        <5>1. store[i].pid \in StorePids /\ store[i].pid \notin {store[j].pid : j \in StoredPublishes}
          BY <1>1, <1>2, <4>2 DEF StorePids, Distinct
        <5>2. store[i].pid \in resendPubrel'
          BY <1>3, <5>1
        <5> QED BY <3>2, <4>2, <5>2 DEF HoldsSlot
      <4> QED BY <4>1, <4>2
    <3> QED BY <1>6, <3>1, <3>2
  <2>5. /\ Cardinality(InFlight') <= Cardinality(letPids) /\ Cardinality(InFlight') \in Nat
        /\ Cardinality(letPids) \in Nat /\ Cardinality(LetOut) \in Nat
    <3>1. IsFiniteSet(InFlight') /\ Cardinality(InFlight') <= Cardinality(letPids)
      BY <2>3, <2>4, FS_Subset
    <3> QED BY <2>1, <2>3, <3>1, FS_CardinalityType
  <2>6. Cardinality(InFlight') <= sendCount' /\ sendCount' <= ReceiveMax
    BY <1>1, <2>1, <2>3, <2>5
  <2> QED BY <2>2, <2>6
<1> QED BY <1>9, <1>12, <1>13, <1>14 DEF Exchanges

LEMMA ClearExchanges ==
    ASSUME XInv, conn = "connecting", c2s = <<>>, ClearSessionData, s2c' = <<>>, received' = {},
           conn' = "connected", session' = "live"
    PROVE  Exchanges'
<1>1. /\ store' = <<>> /\ sendCount' = 0 /\ sendQueue' = <<>> /\ resendPubrel' = {}
      /\ c2s' = <<>>
  BY DEF ClearSessionData
<1>2. Entries' = {} /\ InFlight' = {} /\ ReceiveMax \in Nat
  BY <1>1, CountsBelow DEF Entries, ToSet, InFlight
<1>3. Phases' /\ QueueStored' /\ Traffic'
  BY <1>1, NothingCarried DEF Phases, QueueStored, Traffic, Distinct
<1>4. WindowSafe'
  BY <1>1, <1>2, FS_EmptySet DEF WindowSafe
<1> QED BY <1>3, <1>4 DEF Exchanges

LEMMA ConnackExchanges ==
    ASSUME XInv, s2c # <<>>, AnswerWritten, Head(s2c).type = "connack",
           ProcessConnack(Head(s2c).present)
    PROVE  Exchanges'
<1>1. conn = "connecting" /\ conn' = "connected" /\ (ResendStore \/ ClearSessionData)
  BY DEF ProcessConnack
<1>2. PICK present : s2c = <<ConnackPacket(present)>> /\ c2s = <<>> /\ received = {}
  BY <1>1 DEF XInv, Exchanges, Phases
<1>3. s2c' = <<>> /\ received' = {} /\ session' = "live"
  BY <1>2 DEF AnswerWritten
<1> QED BY <1>1, <1>2, <1>3, ResendExchanges, ClearExchanges

(* No packet is unexpected, so each handler takes its first branch. *)
LEMMA ClientExchanges == ASSUME XInv, ClientReads PROVE Exchanges'
<1> DEFINE y == Head(s2c)
           p == y.pid
<1>1. s2c # <<>> /\ SenderHandles(y) /\ AnswerWritten /\ s2c' = Tail(s2c)
  BY DEF ClientReads, AnswerWritten
<1>2. CASE y.type = "connack" /\ ProcessConnack(y.present)
  BY <1>1, <1>2, ConnackExchanges
<1>3. CASE conn = "connected"
  <2>1. Expected(y)
    BY <1>1, <1>3, AnswerRead
  <2>2. y.type \in Awaited => Holds(p, y.type)
    BY <2>1, EntriesOne DEF Expected, XInv
  <2>3. CASE y.type = "puback" /\ ProcessPuback(p)
    <3>1. store' = Erased(store, p) /\ UNCHANGED <<conn, resendPubrel>> /\ SlotReleased
      BY <2>2, <2>3 DEF ProcessPuback, Awaited
    <3> QED BY <1>1, <1>3, <2>3, <3>1, ReleaseExchanges DEF Awaited
  <2>4. CASE y.type = "pubcomp" /\ ProcessPubcomp(p)
    <3>1. /\ store' = Erased(store, p) /\ UNCHANGED <<conn, resendPubrel>>
          /\ IF p \in resendPubrel THEN UNCHANGED <<sendCount, sendQueue, c2s>> ELSE SlotReleased
      BY <2>2, <2>4 DEF ProcessPubcomp, Awaited
    <3> QED BY <1>1, <1>3, <2>4, <3>1, ReleaseExchanges DEF Awaited
  <2>5. CASE y.type = "pubrec" /\ ProcessPubrec(p, y.reason)
    <3>1. /\ UNCHANGED conn
          /\ \/ SendPubrel(p, MsgOf(p))
             \/ store' = Erased(store, p) /\ UNCHANGED resendPubrel /\ SlotReleased
      BY <2>2, <2>5 DEF ProcessPubrec, Refused, Awaited
    <3>2. CASE SendPubrel(p, MsgOf(p))
      <4>1. PICK m : m = MsgOf(p) /\ SendPubrel(p, m)
        BY <3>2
      <4> QED BY <1>1, <1>3, <2>5, <3>1, <4>1, PubrelExchanges
    <3>3. CASE store' = Erased(store, p) /\ UNCHANGED resendPubrel /\ SlotReleased
      BY <1>1, <1>3, <2>5, <3>1, <3>3, ReleaseExchanges DEF Awaited
    <3> QED BY <3>1, <3>2, <3>3
  <2>6. CASE y.type = "suback" /\ ProcessSuback(p)
    <3>1. UNCHANGED <<conn, store, sendCount, sendQueue, resendPubrel, c2s>>
      BY <2>6 DEF ProcessSuback
    <3> QED BY <1>1, <1>3, <3>1, SubackExchanges
  <2>7. \/ y.type = "puback"  /\ ProcessPuback(p)
        \/ y.type = "pubrec"  /\ ProcessPubrec(p, y.reason)
        \/ y.type = "pubcomp" /\ ProcessPubcomp(p)
        \/ y.type = "suback"  /\ ProcessSuback(p)
    <3>1. ~(y.type = "connack" /\ ProcessConnack(y.present))
      BY <1>3 DEF ProcessConnack
    <3> QED BY <1>1, <3>1 DEF SenderHandles
  <2> QED BY <2>3, <2>4, <2>5, <2>6, <2>7
<1> QED BY <1>1, <1>2, <1>3 DEF SenderHandles

-----------------------------------------------------------------------------
(* The theorems *)

LEMMA InitXInv == Init => XInv
BY InitIInv, InitExchanges DEF XInv

LEMMA NextXInv == ASSUME XInv, ~AnyTime, [Next]_vars PROVE XInv'
<1>1. IInv'
  BY NextIInv DEF XInv
<1>2. Exchanges'
  <2>1. CASE ApplicationPublishes
    BY <2>1, PublishExchanges
  <2>2. CASE ApplicationSubscribes
    BY <2>2, SubscribeExchanges
  <2>3. CASE ClientConnects
    BY <2>3, ConnectExchanges
  <2>4. CASE BrokerReads
    BY <2>4, BrokerExchanges
  <2>5. CASE ClientReads
    BY <2>5, ClientExchanges
  <2>6. CASE ConnectionCloses
    BY <2>6, CloseExchanges
  <2>7. CASE SessionIsDropped
    BY <2>7, DropExchanges
  <2>8. CASE UNCHANGED vars
    BY <2>8, StutterExchanges
  <2> QED BY <2>1, <2>2, <2>3, <2>4, <2>5, <2>6, <2>7, <2>8 DEF Next
<1> QED BY <1>1, <1>2 DEF XInv

LEMMA SpecXInv == ASSUME ~AnyTime PROVE Spec => []XInv
<1>1. XInv /\ [Next]_vars => XInv'
  BY NextXInv
<1> QED BY <1>1, InitXInv, PTL DEF Spec

(* Every puback, pubrec and pubcomp the client reads is one the entry of its
   store waits for, wherever the connection broke before it: process_puback,
   process_pubrec and process_pubcomp never report a protocol error to the
   peer that this library is. *)
THEOREM ExchangesEndWell == ASSUME ~AnyTime PROVE Spec => []NoProtocolError
<1>1. XInv => NoProtocolError
  BY DEF XInv, Exchanges, Phases, NoProtocolError
<1> QED BY <1>1, SpecXInv, PTL

(* publish_send_count_ covers every publish that was written and is not
   acknowledged, never passes the peer's Receive Maximum, and no publish waits
   in publish_send_queue_ while the window has room: a publish, an answer, and
   the resending of the store on a new connection agree about it. *)
THEOREM WindowIsKept == ASSUME ~AnyTime PROVE Spec => []WindowSafe
<1>1. XInv => WindowSafe
  BY DEF XInv, Exchanges
<1> QED BY <1>1, SpecXInv, PTL

(* The receiver's own count, publish_received_, is never full when a publish
   arrives: no puback and no pubrec reports "quota exceeded". *)
THEOREM QuotaNeverExceeded == ASSUME ~AnyTime PROVE Spec => []NoQuotaExceeded
<1>1. ASSUME XInv PROVE NoQuotaExceeded
  <2>1. \A x \in ToSet(s2c) : Expected(x)
    BY <1>1 DEF XInv, Exchanges, Traffic
  <2>2. \A i \in DOMAIN s2c : s2c[i] \in ToSet(s2c)
    BY DEF ToSet
  <2> QED BY <2>1, <2>2 DEF Expected, Awaited, NoQuotaExceeded
<1>2. XInv => NoQuotaExceeded
  BY <1>1
<1> QED BY <1>2, SpecXInv, PTL

-----------------------------------------------------------------------------
(* What the steps do, once the invariant says which branches they take *)

LEMMA PublishEffect ==
    ASSUME XInv, ~AnyTime, ApplicationPublishes
    PROVE  \E m \in Messages :
             /\ m = issued + 1 /\ issued' = m /\ issued \in Nat
             /\ UNCHANGED <<conn, discarded, session, handled, delivered, s2c>>
             /\ \/ /\ Qos[m] = 0
                   /\ UNCHANGED <<store, sendQueue>>
                   /\ \/ UNCHANGED c2s
                      \/ /\ c2s' = Append(c2s, PublishPacket(NoPid, m))
                         /\ PublishPacket(NoPid, m) \in PacketsToReceiver
                \/ /\ Qos[m] \in 1..2
                   /\ \E p \in Pids :
                        /\ p \notin pids
                        /\ Entry(p, FirstAnswer(m), m) \in StoreEntries
                        /\ store' = Append(store, Entry(p, FirstAnswer(m), m))
                        /\ \/ /\ sendQueue' = Append(sendQueue, [pid |-> p, msg |-> m])
                              /\ [pid |-> p, msg |-> m] \in QueueEntries
                              /\ UNCHANGED c2s
                           \/ /\ sendQueue = <<>> /\ UNCHANGED <<sendQueue, c2s>>
                              /\ conn = "closed"
                           \/ /\ sendQueue = <<>> /\ UNCHANGED sendQueue
                              /\ c2s' = Append(c2s, PublishPacket(p, m))
                              /\ PublishPacket(p, m) \in PacketsToReceiver
<1>1. /\ Publish /\ conn \in {"closed", "connected"}
      /\ UNCHANGED <<conn, discarded, session, handled, delivered, s2c>>
  BY DEF ApplicationPublishes, Publish, receiverVars, XInv, Exchanges, Phases
<1>2. issued + 1 \in Messages /\ issued' = issued + 1 /\ issued \in Nat
  <2>1. issued \in 0..Len(Qos) /\ Len(Qos) \in Nat /\ issued < Len(Qos) /\ issued' = issued + 1
    BY <1>1, PacketsAssumption, LenProperties DEF Publish, XInv, IInv, TypeOK, SenderTypes
  <2> QED BY <2>1 DEF Messages
<1>3. PICK m \in Messages : m = issued + 1
  BY <1>2
<1>4. /\ c2s \in Seq(PacketsToReceiver) /\ QueueStored /\ WindowSafe /\ IInv
  BY DEF XInv, Exchanges, IInv, TypeOK, ToReceiver
<1>5. ASSUME NEW x \in PacketsToReceiver, c2s' = Written(<<x>>)
      PROVE  (UNCHANGED c2s /\ conn = "closed") \/ c2s' = Append(c2s, x)
  BY <1>4, <1>5, AppendIsConcat DEF Written
<1>6. CASE PublishQos0(m)
  <2>1. /\ Qos[m] = 0 /\ c2s' = Written(<<PublishPacket(NoPid, m)>>)
        /\ UNCHANGED <<store, sendQueue>>
    BY <1>6 DEF PublishQos0
  <2>2. PublishPacket(NoPid, m) \in PacketsToReceiver
    BY <2>1, PacketsWritten
  <2> QED BY <1>1, <1>2, <1>3, <1>5, <2>1, <2>2
<1>7. CASE PublishStored(m)
  <2>1. PICK p \in Pids :
         /\ Acquirable(p)
         /\ store' = Inserted(store, Entry(p, FirstAnswer(m), m))
         /\ IF WindowFull
            THEN /\ sendQueue' = Append(sendQueue, [pid |-> p, msg |-> m])
                 /\ UNCHANGED <<sendCount, c2s>>
            ELSE /\ c2s' = Written(<<PublishPacket(p, m)>>)
                 /\ UNCHANGED sendQueue
    BY <1>7 DEF PublishStored
  <2> DEFINE e == Entry(p, FirstAnswer(m), m)
  <2>2. Qos[m] \in 1..2 /\ p \notin pids
    BY <1>7, <2>1, MessagesHaveQos DEF PublishStored, Acquirable
  <2>3. e \in StoreEntries /\ e.pid = p /\ [pid |-> p, msg |-> m] \in QueueEntries
    BY <2>2 DEF Entry, FirstAnswer, StoreEntries, Awaited, QueueEntries
  <2>4. PublishPacket(p, m) \in PacketsToReceiver
    BY <2>2, PacketsWritten
  <2>5. store' = Append(store, e)
    <3>1. e.pid \notin StorePids
      BY <1>4, <2>2, <2>3, EntriesOne
    <3> QED BY <2>1, <3>1 DEF Inserted, HasPid, StorePids
  <2> HIDE DEF e
  <2>6. ~WindowFull => sendQueue = <<>>
    BY <1>4 DEF QueueStored, WindowSafe, WindowFull
  <2> QED BY <1>1, <1>2, <1>3, <1>5, <2>1, <2>2, <2>3, <2>4, <2>5, <2>6 DEF e
<1> QED BY <1>1, <1>2, <1>3, <1>6, <1>7 DEF Publish

LEMMA BrokerEffect ==
    ASSUME XInv, BrokerReads
    PROVE  LET x == Head(c2s)
               p == Head(c2s).pid
               m == Head(c2s).msg
           IN
           /\ c2s # <<>> /\ c2s' = Tail(c2s) /\ x \in ToSet(c2s) /\ x \in PacketsToReceiver
           /\ UNCHANGED <<conn, store, sendQueue, issued, discarded>>
           /\ \/ /\ x.type = "connect" /\ conn = "connecting" /\ UNCHANGED delivered
                 /\ session \in {"none", "offline"}
                 /\ \E present \in BOOLEAN :
                      /\ present <=> session = "offline" /\ ~x.clean
                      /\ session' = (IF present THEN "resuming" ELSE "live")
                      /\ s2c' = <<ConnackPacket(present)>>
                      /\ handled' = IF present THEN handled ELSE {}
              \/ /\ conn = "connected" /\ session = "live" /\ session' = "live"
                 /\ \/ /\ x.type = "publish" /\ Qos[m] = 0
                       /\ delivered' = (IF m \in Denied THEN delivered ELSE Append(delivered, m))
                       /\ UNCHANGED <<handled, s2c>>
                    \/ /\ x.type = "publish" /\ Qos[m] = 1
                       /\ delivered' = (IF m \in Denied THEN delivered ELSE Append(delivered, m))
                       /\ s2c' = Append(s2c, PubackPacket(p, Verdict(m)))
                       /\ UNCHANGED handled
                    \/ /\ x.type = "publish" /\ Qos[m] = 2 /\ p \in handled
                       /\ s2c' = Append(s2c, PubrecPacket(p, "success"))
                       /\ UNCHANGED <<handled, delivered>>
                    \/ /\ x.type = "publish" /\ Qos[m] = 2 /\ p \notin handled
                       /\ handled' = (IF m \in Denied THEN handled ELSE handled \union {p})
                       /\ delivered' = (IF m \in Denied THEN delivered ELSE Append(delivered, m))
                       /\ s2c' = Append(s2c, PubrecPacket(p, Verdict(m)))
                    \/ /\ x.type = "pubrel"
                       /\ handled' = handled \ {p}
                       /\ s2c' = Append(s2c, PubcompPacket(p))
                       /\ UNCHANGED delivered
                    \/ /\ x.type = "subscribe"
                       /\ s2c' = Append(s2c, SubackPacket(p))
                       /\ UNCHANGED <<handled, delivered>>
<1> DEFINE x == Head(c2s)
           p == x.pid
           m == x.msg
<1>1. /\ c2s # <<>> /\ ReceiverHandles(x) /\ c2s' = Tail(c2s)
      /\ UNCHANGED <<conn, store, sendQueue, issued, discarded>>
  BY DEF BrokerReads, senderVars
<1>2. /\ Phases /\ c2s \in Seq(PacketsToReceiver)
  BY DEF XInv, Exchanges, IInv, TypeOK, ToReceiver
<1>3. x \in ToSet(c2s) /\ x \in PacketsToReceiver
  <2>1. x \in ToSet(c2s)
    BY <1>1, <1>2, TailMembers
  <2> QED BY <1>2, <2>1, MembersTyped
<1>4. CASE x.type = "connect"
  <2>1. conn = "connecting" /\ session \in {"none", "offline"}
    <3>1. c2s # <<>> /\ conn # "connected" /\ conn # "closed"
      BY <1>1, <1>2, <1>3, <1>4 DEF Phases
    <3> QED BY <1>2, <3>1 DEF Phases
  <2>2. ReceiveConnect(x.clean)
    BY <1>1, <1>4 DEF ReceiverHandles
  <2> DEFINE there == session = "offline" /\ ~x.clean
  <2>3. /\ session' = IF there THEN "resuming" ELSE "live"
        /\ handled' = IF there THEN handled ELSE {}
        /\ s2c' = <<ConnackPacket(there)>>
        /\ UNCHANGED delivered
    BY <2>2 DEF ReceiveConnect
  <2>4. there \in BOOLEAN
    OBVIOUS
  <2> HIDE DEF there
  <2>5. \E present \in BOOLEAN :
          /\ present <=> there
          /\ session' = (IF present THEN "resuming" ELSE "live")
          /\ s2c' = <<ConnackPacket(present)>>
          /\ handled' = IF present THEN handled ELSE {}
    BY <2>3, <2>4
  <2> HIDE DEF x
  <2> QED BY <1>1, <1>3, <1>4, <2>1, <2>3, <2>5 DEF there, x
<1>5. CASE x.type # "connect"
  <2>1. conn = "connected" /\ session = "live" /\ Attached
    BY <1>1, <1>2, <1>3, <1>5 DEF Phases, ConnectPacket, Attached
  <2>2. x.type = "publish" /\ Qos[m] # 0 => ~QuotaFull
    BY <1>1, <2>1, QuotaLeft
  <2>3. \/ x.type = "publish" /\ ReceivePublish(p, m)
        \/ x.type = "pubrel" /\ ReceivePubrel(p)
        \/ x.type = "subscribe" /\ ReceiveSubscribe(p)
    BY <1>1, <1>5 DEF ReceiverHandles
  <2> HIDE DEF x
  <2>4. CASE x.type = "publish" /\ ReceivePublish(p, m)
    BY <1>1, <1>3, <2>1, <2>2, <2>4
       DEF ReceivePublish, ReceiveQos0, ReceiveQos1, ReceiveQos2, ReceiveQos2First, Forwarded,
           Answer, x
  <2>5. CASE x.type = "pubrel" /\ ReceivePubrel(p)
    BY <1>1, <1>3, <2>1, <2>5 DEF ReceivePubrel, Answer, x
  <2>6. CASE x.type = "subscribe" /\ ReceiveSubscribe(p)
    BY <1>1, <1>3, <2>1, <2>6 DEF ReceiveSubscribe, Answer, x
  <2> QED BY <2>3, <2>4, <2>5, <2>6
<1> QED BY <1>4, <1>5

(* A release changes the entries, and may write the head of the queue. *)
Advanced ==
    \/ UNCHANGED <<sendQueue, c2s>>
    \/ \E h \in QueueEntries :
         /\ sendQueue # <<>> /\ h = Head(sendQueue) /\ sendQueue' = Tail(sendQueue)
         /\ c2s' = Append(c2s, PublishPacket(h.pid, h.msg))
         /\ PublishPacket(h.pid, h.msg) \in PacketsToReceiver

LEMMA AdvancedBy ==
    ASSUME XInv, conn = "connected", SlotReleased \/ UNCHANGED <<sendQueue, c2s>> PROVE Advanced
<1>1. c2s \in Seq(PacketsToReceiver) /\ sendQueue \in Seq(QueueEntries)
  BY DEF XInv, IInv, TypeOK, ToReceiver, SenderTypes
<1>2. CASE V5 /\ sendQueue # <<>> /\ SlotReleased
  <2>1. PICK h : h = Head(sendQueue)
    OBVIOUS
  <2>2. h \in QueueEntries
    BY <1>1, <1>2, <2>1, AfterTail
  <2>3. PublishPacket(h.pid, h.msg) \in PacketsToReceiver
    BY <2>2, PacketsWritten DEF QueueEntries
  <2>4. sendQueue' = Tail(sendQueue) /\ c2s' = Written(<<PublishPacket(h.pid, h.msg)>>)
    BY <1>2, <2>1 DEF SlotReleased
  <2>5. c2s' = Append(c2s, PublishPacket(h.pid, h.msg))
    BY <1>1, <2>3, <2>4, AppendIsConcat DEF Written
  <2> QED BY <1>2, <2>1, <2>2, <2>3, <2>4, <2>5 DEF Advanced
<1>3. CASE UNCHANGED <<sendQueue, c2s>>
  BY <1>3 DEF Advanced
<1> QED BY <1>2, <1>3 DEF SlotReleased

LEMMA ClientEffect ==
    ASSUME XInv, ClientReads
    PROVE  LET y == Head(s2c)
               p == Head(s2c).pid
           IN
           /\ s2c # <<>> /\ s2c' = Tail(s2c) /\ y \in ToSet(s2c) /\ y \in PacketsToSender
           /\ UNCHANGED <<issued, handled, delivered>>
           /\ \/ /\ y.type = "connack" /\ conn = "connecting" /\ conn' = "connected"
                 /\ s2c' = <<>> /\ c2s = <<>>
                 /\ \/ y.present /\ ResendStore
                    \/ ~y.present /\ ClearSessionData
              \/ /\ conn = "connected" /\ UNCHANGED conn
                 /\ \/ /\ y.type = "suback"
                       /\ UNCHANGED <<store, sendQueue, c2s, discarded>>
                    \/ /\ y.type = "pubrec" /\ UNCHANGED <<discarded, sendQueue>>
                       /\ \E e \in Entries :
                            /\ e.pid = p /\ e.awaits = "pubrec"
                            /\ store' = Append(Erased(store, p), Entry(p, "pubcomp", e.msg))
                            /\ Entry(p, "pubcomp", e.msg) \in StoreEntries
                       /\ c2s' = Append(c2s, PubrelPacket(p))
                       /\ PubrelPacket(p) \in PacketsToReceiver
                    \/ /\ y.type \in Awaited /\ UNCHANGED discarded
                       /\ y.type = "pubrec" => V5 /\ y.reason # "success"
                       /\ \E e \in Entries : e.pid = p /\ e.awaits = y.type
                       /\ store' = Erased(store, p)
                       /\ Advanced
<1> DEFINE y == Head(s2c)
           p == y.pid
<1>1. /\ s2c # <<>> /\ SenderHandles(y) /\ AnswerWritten /\ s2c' = Tail(s2c)
      /\ UNCHANGED <<handled, delivered>>
  BY DEF ClientReads, AnswerWritten
<1>2. /\ s2c \in Seq(PacketsToSender) /\ c2s \in Seq(PacketsToReceiver) /\ Phases /\ IInv
      /\ store \in Seq(StoreEntries) /\ Distinct(store) /\ Entries \subseteq StoreEntries
  BY PidsConsistentParts, EntriesOne
     DEF XInv, Exchanges, IInv, TypeOK, ToSender, ToReceiver, SenderTypes
<1>3. y \in ToSet(s2c) /\ y \in PacketsToSender
  <2>1. y \in ToSet(s2c)
    BY <1>1, <1>2, TailMembers
  <2> QED BY <1>2, <2>1, MembersTyped
<1>4. CASE y.type = "connack" /\ ProcessConnack(y.present)
  <2>1. /\ conn = "connecting" /\ conn' = "connected" /\ UNCHANGED issued
        /\ IF y.present THEN ResendStore ELSE ClearSessionData
    BY <1>4 DEF ProcessConnack
  <2>2. c2s = <<>> /\ \E present \in BOOLEAN : s2c = <<ConnackPacket(present)>>
    BY <1>1, <1>2, <2>1 DEF Phases
  <2>3. s2c' = <<>>
    BY <1>1, <2>2
  <2> QED BY <1>1, <1>3, <1>4, <2>1, <2>2, <2>3
<1>5. CASE conn = "connected"
  <2>1. Expected(y)
    BY <1>1, <1>5, AnswerRead
  <2>2. y.type \in Awaited => Holds(p, y.type) /\ \E e \in Entries : e.pid = p /\ e.awaits = y.type
    BY <1>2, <2>1, EntriesOne DEF Expected
  <2>3. CASE y.type = "puback" /\ ProcessPuback(p)
    <3>1. store' = Erased(store, p) /\ UNCHANGED <<conn, issued, discarded>> /\ SlotReleased
      BY <2>2, <2>3 DEF ProcessPuback, Awaited
    <3>2. Advanced
      BY <1>5, <3>1, AdvancedBy
    <3> QED BY <1>1, <1>3, <1>5, <2>2, <2>3, <3>1, <3>2 DEF Awaited
  <2>4. CASE y.type = "pubcomp" /\ ProcessPubcomp(p)
    <3>1. /\ store' = Erased(store, p) /\ UNCHANGED <<conn, issued, discarded>>
          /\ SlotReleased \/ UNCHANGED <<sendQueue, c2s>>
      BY <2>2, <2>4 DEF ProcessPubcomp, Awaited
    <3>2. Advanced
      BY <1>5, <3>1, AdvancedBy
    <3> QED BY <1>1, <1>3, <1>5, <2>2, <2>4, <3>1, <3>2 DEF Awaited
  <2>5. CASE y.type = "pubrec" /\ ProcessPubrec(p, y.reason)
    <3>1. /\ UNCHANGED <<conn, issued, discarded>>
          /\ IF V5 /\ IsError(y.reason) THEN Refused(p) ELSE SendPubrel(p, MsgOf(p))
      BY <2>2, <2>5 DEF ProcessPubrec, Awaited
    <3>2. CASE V5 /\ IsError(y.reason)
      <4>1. store' = Erased(store, p) /\ SlotReleased /\ y.reason # "success"
        BY <3>1, <3>2 DEF Refused, IsError
      <4>2. Advanced
        BY <1>5, <4>1, AdvancedBy
      <4> QED BY <1>1, <1>3, <1>5, <2>2, <2>5, <3>1, <3>2, <4>1, <4>2 DEF Awaited
    <3>3. CASE ~(V5 /\ IsError(y.reason))
      <4>1. PICK e \in Entries : e.pid = p /\ e.awaits = "pubrec"
        BY <2>2, <2>5 DEF Awaited
      <4>2. MsgOf(p) = e.msg
        <5>1. PICK i \in DOMAIN store : store[i] = e
          BY <4>1 DEF Entries, ToSet
        <5> QED BY <1>2, <4>1, <5>1 DEF MsgOf, Distinct
      <4>3. /\ store' = Append(Erased(store, p), Entry(p, "pubcomp", e.msg))
            /\ c2s' = Written(<<PubrelPacket(p)>>)
            /\ UNCHANGED sendQueue
        BY <3>1, <3>3, <4>2 DEF SendPubrel
      <4>4. Entry(p, "pubcomp", e.msg) \in StoreEntries /\ p \in Pids
        BY <1>2, <4>1 DEF Entry, StoreEntries, Awaited
      <4>5. PubrelPacket(p) \in PacketsToReceiver
        BY <4>4, PacketsWritten
      <4>6. c2s' = Append(c2s, PubrelPacket(p))
        BY <1>2, <1>5, <4>3, <4>5, AppendIsConcat DEF Written
      <4> QED BY <1>1, <1>3, <1>5, <2>5, <3>1, <4>1, <4>3, <4>4, <4>5, <4>6
    <3> QED BY <3>2, <3>3
  <2>6. CASE y.type = "suback" /\ ProcessSuback(p)
    <3>1. UNCHANGED <<conn, issued, store, sendQueue, c2s, discarded>>
      BY <2>6 DEF ProcessSuback
    <3> QED BY <1>1, <1>3, <1>5, <2>6, <3>1
  <2>7. \/ y.type = "puback"  /\ ProcessPuback(p)
        \/ y.type = "pubrec"  /\ ProcessPubrec(p, y.reason)
        \/ y.type = "pubcomp" /\ ProcessPubcomp(p)
        \/ y.type = "suback"  /\ ProcessSuback(p)
    <3>1. ~(y.type = "connack" /\ ProcessConnack(y.present))
      BY <1>5 DEF ProcessConnack
    <3> QED BY <1>1, <3>1 DEF SenderHandles
  <2> QED BY <2>3, <2>4, <2>5, <2>6, <2>7
<1> QED BY <1>1, <1>4, <1>5 DEF SenderHandles

(* One entry less, one instead of another, one more *)
LEMMA EntryErased ==
    ASSUME XInv, NEW e \in Entries
    PROVE  /\ ToSet(Erased(store, e.pid)) = Entries \ {e}
           /\ Erased(store, e.pid) \in Seq(StoreEntries)
<1>1. /\ store \in Seq(StoreEntries) /\ Distinct(store)
      /\ \A f, g \in Entries : f.pid = g.pid => f = g
  BY PidsConsistentParts, EntriesOne DEF XInv, IInv, TypeOK, SenderTypes
<1>2. e.pid \in PidsOf(store)
  BY DEF PidsOf, Entries, ToSet
<1>3. /\ ToSet(Erased(store, e.pid)) = {f \in ToSet(store) : f.pid # e.pid}
      /\ Erased(store, e.pid) \in Seq(StoreEntries)
  BY <1>1, <1>2, ErasedEntries, ErasedOne
<1> QED BY <1>1, <1>3 DEF Entries

LEMMA EntryReplaced ==
    ASSUME XInv, NEW e \in Entries, NEW f \in StoreEntries,
           store' = Append(Erased(store, e.pid), f)
    PROVE  Entries' = (Entries \ {e}) \union {f}
<1> DEFINE r == Erased(store, e.pid)
           t == Append(r, f)
<1>1. ToSet(r) = Entries \ {e} /\ r \in Seq(StoreEntries)
  BY EntryErased
<1> HIDE DEF r
<1>2. ToSet(t) = ToSet(r) \union {f}
  BY <1>1, AppendMembers
<1>3. store' = t
  BY DEF r
<1> HIDE DEF t
<1> QED BY <1>1, <1>2, <1>3 DEF Entries

LEMMA EntryAdded ==
    ASSUME XInv, NEW f \in StoreEntries, store' = Append(store, f)
    PROVE  Entries' = Entries \union {f}
<1> DEFINE t == Append(store, f)
<1>1. store \in Seq(StoreEntries)
  BY DEF XInv, IInv, TypeOK, SenderTypes
<1>2. ToSet(t) = ToSet(store) \union {f}
  BY <1>1, AppendMembers
<1>3. store' = t
  OBVIOUS
<1> HIDE DEF t
<1> QED BY <1>2, <1>3 DEF Entries

-----------------------------------------------------------------------------
(* No message is lost *)

(* The message was refused, or forwarded to subscribers. *)
Reached(m) == m \in Denied \union ToSet(delivered)

(* A message whose pubrel is stored has reached the broker; so has one whose
   packet id the broker keeps in qos2_publish_handled_. *)
EntriesReached ==
    \A e \in Entries :
        /\ e.msg \in 1..issued
        /\ e.awaits = "pubcomp" => Reached(e.msg)
        /\ e.awaits = "pubrec" /\ e.pid \in handled => e.msg \in ToSet(delivered)

(* So has one that a puback or a pubrec on its way answers. *)
AnswersReached ==
    \A x \in ToSet(s2c), e \in Entries :
        x.type \in {"puback", "pubrec"} /\ e.pid = x.pid => Reached(e.msg)

(* qos2_publish_handled_ holds packet ids of stored messages only: the answer
   that ends an exchange, or tells that there is no session, finds its packet
   id gone from it. So none is taken for a repeat when it is used again. *)
EndsExchange(x) == x.type = "pubcomp" \/ (V5 /\ x.type = "pubrec" /\ x.reason # "success")

HandledKnown ==
    /\ \A p \in handled : \E e \in Entries : e.pid = p /\ Qos[e.msg] = 2
    /\ \A x \in ToSet(s2c) : EndsExchange(x) => x.pid \notin handled
    /\ \A x \in ToSet(s2c) : x.type = "connack" /\ ~x.present => handled = {}

Accounted ==
    \A m \in 1..issued :
        Qos[m] = 0 \/ Reached(m) \/ m \in discarded \/ \E e \in Entries : e.msg = m

Known == EntriesReached /\ AnswersReached /\ HandledKnown /\ Accounted

DInv == XInv /\ Known

(* A step after which the entries are the same and the broker has forwarded no
   less; it may have forgotten packet ids, and answers may be gone. *)
LEMMA KnownKept ==
    ASSUME DInv, Entries' = Entries, issued' = issued, discarded \subseteq discarded',
           ToSet(delivered) \subseteq ToSet(delivered)', handled' \subseteq handled,
           \A x \in ToSet(s2c)' :
              x \in ToSet(s2c) \/ (x.type = "connack" /\ (~x.present => handled' = {}))
    PROVE  Known'
<1>1. EntriesReached /\ AnswersReached /\ HandledKnown /\ Accounted
  BY DEF DInv, Known
<1>2. \A m : Reached(m) => Reached(m)'
  BY DEF Reached
<1>3. EntriesReached'
  BY <1>1, <1>2 DEF EntriesReached
<1>4. AnswersReached'
  BY <1>1, <1>2 DEF AnswersReached
<1>5. HandledKnown'
  BY <1>1 DEF HandledKnown, EndsExchange
<1>6. Accounted'
  BY <1>1, <1>2 DEF Accounted
<1> QED BY <1>3, <1>4, <1>5, <1>6 DEF Known

LEMMA InitKnown == Init => Known
BY DEF Init, SenderInit, ReceiverInit, Known, EntriesReached, AnswersReached, HandledKnown,
       Accounted, Entries, ToSet

LEMMA ConnectKnown == ASSUME DInv, ClientConnects PROVE Known'
<1>1. UNCHANGED <<store, issued, discarded, handled, delivered, s2c>>
  BY DEF ClientConnects, Connect, receiverVars
<1> QED BY <1>1, KnownKept DEF Entries

LEMMA SubscribeKnown == ASSUME DInv, ApplicationSubscribes PROVE Known'
<1>1. UNCHANGED <<store, issued, discarded, handled, delivered, s2c>>
  BY DEF ApplicationSubscribes, Subscribe, receiverVars
<1> QED BY <1>1, KnownKept DEF Entries

LEMMA CloseKnown == ASSUME DInv, ConnectionCloses PROVE Known'
<1>1. UNCHANGED <<store, issued, discarded, handled, delivered>> /\ s2c' = <<>>
  BY DEF ConnectionCloses, SenderClose, ReceiverClose
<1> QED BY <1>1, NothingCarried, KnownKept DEF Entries

LEMMA DropKnown == ASSUME DInv, SessionIsDropped PROVE Known'
<1>1. UNCHANGED <<store, issued, discarded, delivered, s2c>> /\ handled' = {}
  BY DEF SessionIsDropped, SessionExpires, senderVars
<1> QED BY <1>1, KnownKept DEF Entries

LEMMA StutterKnown == ASSUME DInv, UNCHANGED vars PROVE Known'
BY KnownKept DEF Entries, vars

(* Publishing a message adds an entry with a packet id nothing knows of. *)
LEMMA PublishKnown == ASSUME DInv, ~AnyTime, ApplicationPublishes PROVE Known'
<1>1. XInv /\ EntriesReached /\ AnswersReached /\ HandledKnown /\ Accounted
  BY DEF DInv, Known
<1>2. PICK m \in Messages :
        /\ m = issued + 1 /\ issued' = m /\ issued \in Nat
        /\ UNCHANGED <<discarded, handled, delivered, s2c>>
        /\ \/ Qos[m] = 0 /\ UNCHANGED store
           \/ \E p \in Pids :
                /\ p \notin pids
                /\ Entry(p, FirstAnswer(m), m) \in StoreEntries
                /\ store' = Append(store, Entry(p, FirstAnswer(m), m))
  BY <1>1, PublishEffect
<1>3. 1..issued' = 1..issued \union {m}
  BY <1>2
<1>4. \A n : Reached(n) => Reached(n)'
  BY <1>2 DEF Reached
<1>5. CASE Qos[m] = 0 /\ UNCHANGED store
  <2>1. Entries' = Entries
    BY <1>5 DEF Entries
  <2>2. EntriesReached'
    BY <1>1, <1>2, <1>3, <1>4, <2>1 DEF EntriesReached
  <2>3. AnswersReached'
    BY <1>1, <1>2, <1>4, <2>1 DEF AnswersReached
  <2>4. HandledKnown'
    BY <1>1, <1>2, <2>1 DEF HandledKnown, EndsExchange
  <2>5. Accounted'
    BY <1>1, <1>2, <1>3, <1>4, <1>5, <2>1 DEF Accounted
  <2> QED BY <2>2, <2>3, <2>4, <2>5 DEF Known
<1>6. ASSUME NEW p \in Pids, p \notin pids, Entry(p, FirstAnswer(m), m) \in StoreEntries,
             store' = Append(store, Entry(p, FirstAnswer(m), m))
      PROVE  Known'
  <2>1. PICK e \in StoreEntries : e = Entry(p, FirstAnswer(m), m)
    BY <1>6
  <2>2. e.pid = p /\ e.msg = m /\ e.awaits # "pubcomp"
    BY <2>1 DEF Entry, FirstAnswer
  <2>3. Entries' = Entries \union {e}
    BY <1>1, <1>6, <2>1, EntryAdded
  <2>4. p \notin StorePids /\ \A f \in Entries : f.pid # p
    BY <1>1, <1>6, EntriesOne DEF XInv
  <2>5. p \notin handled
    BY <1>1, <2>4 DEF HandledKnown
  <2>6. \A x \in ToSet(s2c) : x.type \in {"puback", "pubrec"} => x.pid # p
    <3>1. \A x \in ToSet(s2c) : Expected(x)
      BY <1>1 DEF XInv, Exchanges, Traffic
    <3> QED BY <2>4, <3>1 DEF Expected, Awaited
  <2>7. EntriesReached'
    BY <1>1, <1>2, <1>3, <1>4, <2>2, <2>3, <2>5 DEF EntriesReached
  <2>8. AnswersReached'
    BY <1>1, <1>2, <1>4, <2>2, <2>3, <2>6 DEF AnswersReached
  <2>9. HandledKnown'
    BY <1>1, <1>2, <2>3 DEF HandledKnown, EndsExchange
  <2>10. Accounted'
    BY <1>1, <1>2, <1>3, <1>4, <2>2, <2>3 DEF Accounted
  <2> QED BY <2>7, <2>8, <2>9, <2>10 DEF Known
<1> QED BY <1>2, <1>5, <1>6

(* The broker answers a packet whose packet id no packet to the client carries. *)
LEMMA KnownAnswered ==
    ASSUME DInv, UNCHANGED <<store, issued, discarded>>,
           ToSet(delivered) \subseteq ToSet(delivered)',
           NEW q, NEW y, ToSet(s2c)' = ToSet(s2c) \union {y}, y.type # "connack",
           q \notin Carried(s2c), conn = "connected",
           handled' \subseteq handled \union {q},
           q \in handled' => \A e \in Entries : e.pid = q => e.msg \in ToSet(delivered)',
           q \in handled' => \E e \in Entries : e.pid = q /\ Qos[e.msg] = 2,
           EndsExchange(y) => y.pid = q /\ q \notin handled',
           y.type \in {"puback", "pubrec"} => \A e \in Entries : e.pid = y.pid => Reached(e.msg)'
    PROVE  Known'
<1>1. /\ EntriesReached /\ AnswersReached /\ HandledKnown /\ Accounted
      /\ ToSet(s2c) \subseteq PacketsToSender
  BY MembersTyped DEF DInv, Known, XInv, IInv, TypeOK, ToSender
<1>2. (\A m : Reached(m) => Reached(m)') /\ Entries' = Entries
  BY DEF Reached, Entries
<1>3. EntriesReached'
  BY <1>1, <1>2 DEF EntriesReached
<1>4. AnswersReached'
  BY <1>1, <1>2 DEF AnswersReached
<1>5. HandledKnown'
  <2>1. ASSUME NEW x \in ToSet(s2c), EndsExchange(x) PROVE x.pid # q
    <3>1. Numbered(x)
      BY <1>1, <2>1, PidsAreNotNoPid, PacketsToSenderFields DEF EndsExchange, Numbered
    <3> QED BY <3>1 DEF Carried
  <2>2. \A x \in ToSet(s2c)' : EndsExchange(x) => x.pid \notin handled'
    BY <1>1, <2>1 DEF HandledKnown
  <2>3. \A p \in handled' : \E e \in Entries : e.pid = p /\ Qos[e.msg] = 2
    BY <1>1 DEF HandledKnown
  <2>4. \A x \in ToSet(s2c) : x.type # "connack"
    BY DEF DInv, XInv, Exchanges, Phases
  <2> QED BY <1>1, <1>2, <2>2, <2>3, <2>4 DEF HandledKnown, EndsExchange
<1>6. Accounted'
  BY <1>1, <1>2 DEF Accounted
<1> QED BY <1>3, <1>4, <1>5, <1>6 DEF Known

(* What do_publish appends *)
LEMMA DeliveredMore ==
    ASSUME XInv, NEW m \in Messages,
           delivered' = (IF m \in Denied THEN delivered ELSE Append(delivered, m))
    PROVE  /\ ToSet(delivered)' = ToSet(delivered) \union (IF m \in Denied THEN {} ELSE {m})
           /\ Reached(m)'
<1>1. delivered \in Seq(Messages)
  BY DEF XInv, IInv, TypeOK, ReceiverTypes
<1> DEFINE t == Append(delivered, m)
<1>2. ToSet(t) = ToSet(delivered) \union {m}
  BY <1>1, AppendMembers
<1> HIDE DEF t
<1>3. delivered' = (IF m \in Denied THEN delivered ELSE t)
  BY DEF t
<1>4. ToSet(delivered') = ToSet(delivered) \union (IF m \in Denied THEN {} ELSE {m})
  BY <1>2, <1>3
<1> QED BY <1>4 DEF Reached

LEMMA BrokerKnown == ASSUME DInv, BrokerReads PROVE Known'
<1>1. PICK x : x = Head(c2s)
  OBVIOUS
<1>2. PICK p, m : p = x.pid /\ m = x.msg
  OBVIOUS
<1>3. /\ XInv /\ EntriesReached /\ AnswersReached /\ HandledKnown /\ Traffic
      /\ \A e, f \in Entries : e.pid = f.pid => e = f
      /\ c2s \in Seq(PacketsToReceiver) /\ s2c \in Seq(PacketsToSender)
      /\ Entries \subseteq StoreEntries
  BY EntriesOne DEF DInv, Known, XInv, Exchanges, IInv, TypeOK, ToReceiver, ToSender
<1>4. /\ c2s # <<>> /\ x \in ToSet(c2s) /\ x \in PacketsToReceiver
      /\ UNCHANGED <<store, issued, discarded>>
      /\ \/ /\ x.type = "connect" /\ UNCHANGED delivered
            /\ \E present \in BOOLEAN :
                 /\ s2c' = <<ConnackPacket(present)>>
                 /\ handled' = IF present THEN handled ELSE {}
         \/ /\ conn = "connected"
            /\ \/ /\ x.type = "publish" /\ Qos[m] = 0
                  /\ delivered' = (IF m \in Denied THEN delivered ELSE Append(delivered, m))
                  /\ UNCHANGED <<handled, s2c>>
               \/ /\ x.type = "publish" /\ Qos[m] = 1
                  /\ delivered' = (IF m \in Denied THEN delivered ELSE Append(delivered, m))
                  /\ s2c' = Append(s2c, PubackPacket(p, Verdict(m)))
                  /\ UNCHANGED handled
               \/ /\ x.type = "publish" /\ Qos[m] = 2 /\ p \in handled
                  /\ s2c' = Append(s2c, PubrecPacket(p, "success"))
                  /\ UNCHANGED <<handled, delivered>>
               \/ /\ x.type = "publish" /\ Qos[m] = 2 /\ p \notin handled
                  /\ handled' = (IF m \in Denied THEN handled ELSE handled \union {p})
                  /\ delivered' = (IF m \in Denied THEN delivered ELSE Append(delivered, m))
                  /\ s2c' = Append(s2c, PubrecPacket(p, Verdict(m)))
               \/ /\ x.type = "pubrel"
                  /\ handled' = handled \ {p}
                  /\ s2c' = Append(s2c, PubcompPacket(p))
                  /\ UNCHANGED delivered
               \/ /\ x.type = "subscribe"
                  /\ s2c' = Append(s2c, SubackPacket(p))
                  /\ UNCHANGED <<handled, delivered>>
  BY <1>1, <1>2, <1>3, BrokerEffect
<1>5. ASSUME NEW y \in PacketsToSender, s2c' = Append(s2c, y)
      PROVE  ToSet(s2c)' = ToSet(s2c) \union {y}
  <2> DEFINE t == Append(s2c, y)
  <2>1. ToSet(t) = ToSet(s2c) \union {y}
    BY <1>3, AppendMembers
  <2>2. s2c' = t
    BY <1>5
  <2> HIDE DEF t
  <2> QED BY <2>1, <2>2
<1>6. Numbered(x) => p \notin Carried(s2c)
  BY <1>1, <1>2, <1>3, <1>4, TailMembers DEF Traffic
<1>7. x.type = "publish" => m \in Messages
  BY <1>2, <1>4, PacketsToReceiverFields
<1>8. x.type = "publish" /\ Qos[m] # 0 =>
         /\ p \in Pids /\ p \notin Carried(s2c)
         /\ \E e \in Entries : e.pid = p /\ e.msg = m /\ e.awaits = FirstAnswer(m)
         /\ \A e \in Entries : e.pid = p => e.msg = m /\ e.awaits = FirstAnswer(m)
  <2> SUFFICES ASSUME x.type = "publish", Qos[m] # 0
               PROVE  /\ p \in Pids /\ p \notin Carried(s2c)
                      /\ \E e \in Entries : e.pid = p /\ e.msg = m /\ e.awaits = FirstAnswer(m)
                      /\ \A e \in Entries : e.pid = p => e.msg = m /\ e.awaits = FirstAnswer(m)
    OBVIOUS
  <2>1. Asked(x) /\ Numbered(x)
    BY <1>2, <1>3, <1>4 DEF Traffic, Numbered, PacketsToReceiver, PublishPackets
  <2>2. Entry(p, FirstAnswer(m), m) \in Entries
    BY <1>2, <2>1 DEF Asked
  <2>3. /\ Entry(p, FirstAnswer(m), m).pid = p /\ Entry(p, FirstAnswer(m), m).msg = m
        /\ Entry(p, FirstAnswer(m), m).awaits = FirstAnswer(m)
    BY DEF Entry
  <2>4. p \in Pids
    BY <1>3, <2>2, <2>3 DEF StoreEntries
  <2> QED BY <1>3, <1>6, <2>1, <2>2, <2>3, <2>4
<1>9. /\ "success" \in Reasons /\ Verdict(m) \in Reasons
      /\ Verdict(m) # "success" => m \in Denied
  BY DEF Reasons, Verdict
<1>10. CASE x.type = "connect"
  <2>1. PICK present \in BOOLEAN : /\ s2c' = <<ConnackPacket(present)>>
                                   /\ handled' = IF present THEN handled ELSE {}
    BY <1>4, <1>10
  <2>2. ToSet(s2c') = {ConnackPacket(present)} /\ ConnackPacket(present).present = present
        /\ ConnackPacket(present).type = "connack"
    BY <2>1, NothingCarried DEF ConnackPacket
  <2> QED BY <1>4, <1>10, <2>1, <2>2, KnownKept DEF Entries
<1>11. CASE x.type = "publish" /\ Qos[m] = 0 /\ conn = "connected"
  <2>1. UNCHANGED <<handled, s2c>> /\ ToSet(delivered) \subseteq ToSet(delivered)'
    BY <1>3, <1>4, <1>7, <1>11, DeliveredMore
  <2> QED BY <1>4, <2>1, KnownKept DEF Entries
<1>12. CASE x.type = "publish" /\ Qos[m] = 1 /\ conn = "connected"
  <2>1. PICK y : y = PubackPacket(p, Verdict(m))
    OBVIOUS
  <2>2. y \in PacketsToSender /\ y.type = "puback" /\ y.pid = p
    <3>1. p \in Pids
      BY <1>8, <1>12
    <3>2. PubackPacket(p, Verdict(m)) \in PacketsToSender
      BY <1>9, <3>1, PacketsAnswered
    <3> QED BY <2>1, <3>2 DEF PubackPacket
  <2>3. ToSet(s2c)' = ToSet(s2c) \union {y} /\ UNCHANGED handled
    BY <1>4, <1>5, <1>12, <2>1, <2>2
  <2>4. ToSet(delivered) \subseteq ToSet(delivered)' /\ Reached(m)'
    BY <1>3, <1>4, <1>7, <1>12, DeliveredMore
  <2>5. p \notin handled
    <3>1. ASSUME NEW e \in Entries, e.pid = p PROVE Qos[e.msg] # 2
      BY <1>8, <1>12, <3>1
    <3> QED BY <1>3, <3>1 DEF HandledKnown
  <2> QED BY <1>4, <1>8, <1>12, <2>2, <2>3, <2>4, <2>5, KnownAnswered DEF EndsExchange
<1>13. CASE x.type = "publish" /\ Qos[m] = 2 /\ p \in handled /\ conn = "connected"
  <2>1. PICK y : y = PubrecPacket(p, "success")
    OBVIOUS
  <2>2. y \in PacketsToSender /\ y.type = "pubrec" /\ y.pid = p /\ y.reason = "success"
    <3>1. p \in Pids
      BY <1>8, <1>13
    <3>2. PubrecPacket(p, "success") \in PacketsToSender
      BY <1>9, <3>1, PacketsAnswered
    <3> QED BY <2>1, <3>2 DEF PubrecPacket
  <2>3. ToSet(s2c)' = ToSet(s2c) \union {y} /\ UNCHANGED <<handled, delivered>>
    BY <1>4, <1>5, <1>13, <2>1, <2>2
  <2>4. \A e \in Entries : e.pid = p => e.msg \in ToSet(delivered)
    BY <1>3, <1>8, <1>13 DEF EntriesReached, FirstAnswer
  <2>5. \A e \in Entries : e.pid = p => Reached(e.msg)'
    BY <2>3, <2>4 DEF Reached
  <2> QED BY <1>4, <1>8, <1>13, <2>2, <2>3, <2>4, <2>5, KnownAnswered DEF EndsExchange
<1>14. CASE x.type = "publish" /\ Qos[m] = 2 /\ p \notin handled /\ conn = "connected"
  <2>1. PICK y : y = PubrecPacket(p, Verdict(m))
    OBVIOUS
  <2>2. /\ y \in PacketsToSender /\ y.type = "pubrec" /\ y.pid = p
        /\ y.reason # "success" => m \in Denied
    <3>1. p \in Pids
      BY <1>8, <1>14
    <3>2. PubrecPacket(p, Verdict(m)) \in PacketsToSender
      BY <1>9, <3>1, PacketsAnswered
    <3> QED BY <1>9, <2>1, <3>2 DEF PubrecPacket
  <2>3. /\ ToSet(s2c)' = ToSet(s2c) \union {y}
        /\ handled' = (IF m \in Denied THEN handled ELSE handled \union {p})
    BY <1>4, <1>5, <1>14, <2>1, <2>2
  <2>4. /\ ToSet(delivered)' = ToSet(delivered) \union (IF m \in Denied THEN {} ELSE {m})
        /\ Reached(m)'
    BY <1>3, <1>4, <1>7, <1>14, DeliveredMore
  <2>5. p \in handled' => m \notin Denied
    BY <1>14, <2>3
  <2> QED BY <1>4, <1>8, <1>14, <2>2, <2>3, <2>4, <2>5, KnownAnswered DEF EndsExchange
<1>15. CASE x.type = "pubrel" /\ conn = "connected"
  <2>1. PICK y : y = PubcompPacket(p)
    OBVIOUS
  <2>2. p \in Pids /\ Numbered(x)
    BY <1>2, <1>4, <1>15, PacketsToReceiverFields, PidsAreNotNoPid DEF Numbered
  <2>3. y \in PacketsToSender /\ y.type = "pubcomp" /\ y.pid = p
    BY <2>1, <2>2, PacketsAnswered DEF PubcompPacket
  <2>4. ToSet(s2c)' = ToSet(s2c) \union {y} /\ handled' = handled \ {p} /\ UNCHANGED delivered
    BY <1>4, <1>5, <1>15, <2>1, <2>3
  <2> QED BY <1>4, <1>6, <1>15, <2>2, <2>3, <2>4, KnownAnswered DEF EndsExchange
<1>16. CASE x.type = "subscribe" /\ conn = "connected"
  <2>1. PICK y : y = SubackPacket(p)
    OBVIOUS
  <2>2. y \in PacketsToSender /\ y.type = "suback"
    BY <1>2, <1>4, <1>16, <2>1, PacketsToReceiverFields, PacketsAnswered DEF SubackPacket
  <2>3. ToSet(s2c)' = ToSet(s2c) \union {y} /\ UNCHANGED <<handled, delivered>>
    BY <1>4, <1>5, <1>16, <2>1, <2>2
  <2>4. NoPid \notin Carried(s2c) /\ NoPid \notin handled
    <3>1. handled \subseteq Pids
      BY DEF DInv, XInv, IInv, TypeOK, ReceiverTypes
    <3> QED BY <3>1, PidsAreNotNoPid DEF Carried, Numbered
  <2> QED BY <1>4, <1>16, <2>2, <2>3, <2>4, KnownAnswered DEF EndsExchange
<1> QED BY <1>4, <1>10, <1>11, <1>12, <1>13, <1>14, <1>15, <1>16

(* The client reads: an answer that ends an exchange takes away an entry whose
   message has reached the broker, and whose packet id the broker forgot. *)
LEMMA ReleaseKnown ==
    ASSUME DInv, NEW y \in ToSet(s2c), conn = "connected", y.type \in Awaited,
           y.type = "pubrec" => V5 /\ y.reason # "success",
           NEW e \in Entries, e.pid = y.pid, e.awaits = y.type, store' = Erased(store, e.pid),
           UNCHANGED <<issued, handled, delivered, discarded>>,
           ToSet(s2c)' \subseteq ToSet(s2c)
    PROVE  Known'
<1>1. /\ EntriesReached /\ AnswersReached /\ HandledKnown /\ Accounted
      /\ Entries \subseteq StoreEntries
      /\ \A f, g \in Entries : f.pid = g.pid => f = g
  BY EntriesOne DEF DInv, Known, XInv
<1>2. Entries' = Entries \ {e}
  BY EntryErased DEF DInv, Entries
<1>3. \A m : Reached(m)' <=> Reached(m)
  BY DEF Reached
<1>4. Reached(e.msg)
  BY <1>1 DEF EntriesReached, AnswersReached, Awaited
<1>5. e.pid \notin handled
  <2>1. CASE EndsExchange(y)
    BY <1>1, <2>1 DEF HandledKnown
  <2>2. CASE y.type = "puback"
    <3>1. Qos[e.msg] = 1
      BY <1>1, <2>2 DEF StoreEntries
    <3> QED BY <1>1, <3>1 DEF HandledKnown
  <2> QED BY <2>1, <2>2 DEF EndsExchange, Awaited
<1>6. EntriesReached'
  BY <1>1, <1>2, <1>3 DEF EntriesReached
<1>7. AnswersReached'
  BY <1>1, <1>2, <1>3 DEF AnswersReached
<1>8. HandledKnown'
  BY <1>1, <1>2, <1>5 DEF HandledKnown, EndsExchange
<1>9. Accounted'
  BY <1>1, <1>2, <1>3, <1>4 DEF Accounted
<1> QED BY <1>6, <1>7, <1>8, <1>9 DEF Known

LEMMA PubrelKnown ==
    ASSUME DInv, NEW y \in ToSet(s2c), y.type = "pubrec",
           NEW e \in Entries, e.pid = y.pid, e.awaits = "pubrec",
           Entry(e.pid, "pubcomp", e.msg) \in StoreEntries,
           store' = Append(Erased(store, e.pid), Entry(e.pid, "pubcomp", e.msg)),
           UNCHANGED <<issued, handled, delivered, discarded>>,
           ToSet(s2c)' \subseteq ToSet(s2c)
    PROVE  Known'
<1>1. EntriesReached /\ AnswersReached /\ HandledKnown /\ Accounted
  BY DEF DInv, Known
<1>2. PICK f \in StoreEntries : f = Entry(e.pid, "pubcomp", e.msg)
  OBVIOUS
<1>3. Entries' = (Entries \ {e}) \union {f}
  BY <1>2, EntryReplaced DEF DInv
<1>4. f.pid = e.pid /\ f.msg = e.msg /\ f.awaits = "pubcomp"
  BY <1>2 DEF Entry
<1>5. \A m : Reached(m)' <=> Reached(m)
  BY DEF Reached
<1>6. Reached(e.msg)
  BY <1>1 DEF AnswersReached
<1>7. EntriesReached'
  BY <1>1, <1>3, <1>4, <1>5, <1>6 DEF EntriesReached
<1>8. AnswersReached'
  BY <1>1, <1>3, <1>4, <1>5, <1>6 DEF AnswersReached
<1>9. HandledKnown'
  BY <1>1, <1>3, <1>4 DEF HandledKnown, EndsExchange
<1>10. Accounted'
  BY <1>1, <1>3, <1>4, <1>5 DEF Accounted
<1> QED BY <1>7, <1>8, <1>9, <1>10 DEF Known

LEMMA ClientKnown == ASSUME DInv, ClientReads PROVE Known'
<1>1. PICK y : y = Head(s2c)
  OBVIOUS
<1>2. XInv /\ Known /\ s2c \in Seq(PacketsToSender)
  BY DEF DInv, XInv, IInv, TypeOK, ToSender
<1>3. /\ y \in ToSet(s2c) /\ UNCHANGED <<issued, handled, delivered>>
      /\ \/ /\ y.type = "connack" /\ s2c' = <<>>
            /\ \/ ResendStore
               \/ ~y.present /\ ClearSessionData
         \/ /\ conn = "connected"
            /\ \/ UNCHANGED <<store, discarded>>
               \/ /\ y.type = "pubrec" /\ UNCHANGED discarded
                  /\ \E e \in Entries :
                       /\ e.pid = y.pid /\ e.awaits = "pubrec"
                       /\ store' = Append(Erased(store, y.pid), Entry(y.pid, "pubcomp", e.msg))
                       /\ Entry(y.pid, "pubcomp", e.msg) \in StoreEntries
               \/ /\ y.type \in Awaited /\ UNCHANGED discarded
                  /\ y.type = "pubrec" => V5 /\ y.reason # "success"
                  /\ \E e \in Entries : e.pid = y.pid /\ e.awaits = y.type
                  /\ store' = Erased(store, y.pid)
  BY <1>1, <1>2, ClientEffect
<1>4. ToSet(s2c)' \subseteq ToSet(s2c)
  <2>1. s2c # <<>> /\ s2c' = Tail(s2c)
    BY DEF ClientReads, AnswerWritten
  <2>2. ToSet(Tail(s2c)) \subseteq ToSet(s2c)
    BY <1>2, <2>1, TailMembers
  <2> QED BY <2>1, <2>2
<1>5. CASE UNCHANGED <<store, discarded>>
  BY <1>3, <1>4, <1>5, KnownKept DEF Entries
<1>6. CASE ResendStore
  <2>1. UNCHANGED <<store, discarded>>
    BY <1>6 DEF ResendStore
  <2> QED BY <1>3, <1>4, <2>1, KnownKept DEF Entries
<1>7. CASE y.type = "connack" /\ ~y.present /\ s2c' = <<>> /\ ClearSessionData
  <2>1. store' = <<>> /\ discarded' = discarded \union StoreMessages
    BY <1>7 DEF ClearSessionData
  <2>2. /\ Entries' = {} /\ ToSet(s2c)' = {} /\ handled' = {}
        /\ \A e \in Entries : e.msg \in discarded'
    <3>1. Entries' = {} /\ ToSet(s2c)' = {}
      BY <1>7, <2>1, NothingCarried DEF Entries
    <3>2. handled' = {}
      BY <1>2, <1>3, <1>7 DEF Known, HandledKnown
    <3>3. \A e \in Entries : e.msg \in StoreMessages
      BY DEF Entries, ToSet, StoreMessages
    <3> QED BY <2>1, <3>1, <3>2, <3>3
  <2>3. EntriesReached' /\ AnswersReached' /\ HandledKnown'
    BY <2>2 DEF EntriesReached, AnswersReached, HandledKnown
  <2>4. Accounted'
    BY <1>2, <1>3, <2>1, <2>2 DEF Known, Accounted, Reached
  <2> QED BY <2>3, <2>4 DEF Known
<1>8. ASSUME NEW e \in Entries, e.pid = y.pid, e.awaits = "pubrec", y.type = "pubrec",
             UNCHANGED discarded,
             store' = Append(Erased(store, y.pid), Entry(y.pid, "pubcomp", e.msg)),
             Entry(y.pid, "pubcomp", e.msg) \in StoreEntries
      PROVE  Known'
  BY <1>3, <1>4, <1>8, PubrelKnown
<1>9. ASSUME NEW e \in Entries, e.pid = y.pid, e.awaits = y.type, y.type \in Awaited,
             UNCHANGED discarded, y.type = "pubrec" => V5 /\ y.reason # "success",
             store' = Erased(store, y.pid), conn = "connected"
      PROVE  Known'
  BY <1>3, <1>4, <1>9, ReleaseKnown
<1> QED BY <1>3, <1>5, <1>6, <1>7, <1>8, <1>9

LEMMA NextKnown == ASSUME DInv, ~AnyTime, [Next]_vars PROVE DInv'
<1>1. XInv'
  BY NextXInv DEF DInv
<1>2. Known'
  <2>1. CASE ApplicationPublishes
    BY <2>1, PublishKnown
  <2>2. CASE ApplicationSubscribes
    BY <2>2, SubscribeKnown
  <2>3. CASE ClientConnects
    BY <2>3, ConnectKnown
  <2>4. CASE BrokerReads
    BY <2>4, BrokerKnown
  <2>5. CASE ClientReads
    BY <2>5, ClientKnown
  <2>6. CASE ConnectionCloses
    BY <2>6, CloseKnown
  <2>7. CASE SessionIsDropped
    BY <2>7, DropKnown
  <2>8. CASE UNCHANGED vars
    BY <2>8, StutterKnown
  <2> QED BY <2>1, <2>2, <2>3, <2>4, <2>5, <2>6, <2>7, <2>8 DEF Next
<1> QED BY <1>1, <1>2 DEF DInv

LEMMA SpecDInv == ASSUME ~AnyTime PROVE Spec => []DInv
<1>1. Init => DInv
  BY InitXInv, InitKnown DEF DInv
<1>2. DInv /\ [Next]_vars => DInv'
  BY NextKnown
<1> QED BY <1>1, <1>2, PTL DEF Spec

(* A message was forwarded at least once if and only if it is in the history. *)
LEMMA TimesForwarded ==
    ASSUME delivered \in Seq(Messages), NEW m
    PROVE  Times(m) \in Nat /\ (Times(m) >= 1 <=> m \in ToSet(delivered))
<1> DEFINE D == {i \in DOMAIN delivered : delivered[i] = m}
<1>1. IsFiniteSet(D)
  <2>1. Len(delivered) \in Int /\ DOMAIN delivered = 1..Len(delivered)
    BY LenProperties
  <2>2. IsFiniteSet(1..Len(delivered)) /\ D \in SUBSET (1..Len(delivered))
    BY <2>1, FS_Interval
  <2> QED BY <2>2, FS_Subset
<1>2. Times(m) = Cardinality(D) /\ (D # {} <=> m \in ToSet(delivered))
  BY DEF Times, ToSet
<1> HIDE DEF D
<1>3. Cardinality(D) \in Nat /\ (Cardinality(D) = 0 <=> D = {})
  BY <1>1, FS_CardinalityType, FS_EmptySet
<1> QED BY <1>2, <1>3

(* Wherever the connection breaks: a QoS 1 or 2 message the application
   published is stored by the client, was forwarded by the broker, was refused,
   or went down with the whole session. An answer erases a stored message only
   once it was forwarded or refused, and the packet id of a message the broker
   has seen is forgotten by the broker before the client uses it again, so no
   new message is taken for a repeat of it. *)
THEOREM NoMessageLost == ASSUME ~AnyTime PROVE Spec => []NothingLost
<1>1. ASSUME DInv PROVE NothingLost
  <2>1. Accounted /\ delivered \in Seq(Messages)
    BY <1>1 DEF DInv, Known, XInv, IInv, TypeOK, ReceiverTypes
  <2>2. \A e \in Entries : e.msg \in StoreMessages
    BY DEF Entries, ToSet, StoreMessages
  <2> QED BY <2>1, <2>2, TimesForwarded DEF Accounted, Reached, NothingLost
<1>2. DInv => NothingLost
  BY <1>1
<1> QED BY <1>2, SpecDInv, PTL

-----------------------------------------------------------------------------
(* What the store hands out again comes in the store's order. *)
LEMMA PickedAscending ==
    ASSUME store \in Seq(StoreEntries), NEW P \in SUBSET DOMAIN store, NEW S,
           Ascending(store, S)
    PROVE  Ascending(Picked(P), S)
BY SelectedAscending DEF Picked

-----------------------------------------------------------------------------
(* The invariant, part by part *)

(* Stored messages whose publish is not answered, and the publishes that carry
   a packet id. *)
FirstSends == {e \in StoreEntries : IsPublish(e)}

SentPublishes == {x \in PublishPackets : Qos[x.msg] # 0}

(* store_, publish_send_queue_ and what is on its way keep the order the
   messages were published in, and the queue is behind what was written. *)
Lined ==
    /\ Ascending(store, FirstSends)
    /\ Ascending(sendQueue, QueueEntries)
    /\ Ascending(c2s, SentPublishes)
    /\ \A x \in ToSet(c2s), e \in ToSet(sendQueue) : x \in SentPublishes => x.msg < e.msg

(* On a connection, each message of the store that the broker has not seen is
   queued or on its way: none waits for a later connection. *)
UnderWay ==
    conn = "connected" =>
        \A e \in Entries : IsPublish(e) =>
            \/ e.pid \in Queued
            \/ PublishPacket(e.pid, e.msg) \in ToSet(c2s)
            \/ Reached(e.msg)

(* A message that was forwarded leaves no earlier one behind. *)
NoneOvertaken ==
    \A m \in ToSet(delivered) :
        Qos[m] # 0 => /\ m <= issued
                      /\ \A e \in Entries : IsPublish(e) /\ e.msg < m => Reached(e.msg)

Order == Lined /\ UnderWay /\ NoneOvertaken /\ InOrder

OInv == DInv /\ Order

LEMMA InitOrder == Init => Order
BY DEF Init, SenderInit, ReceiverInit, Order, Lined, UnderWay, NoneOvertaken, InOrder, Entries,
       ToSet, Ascending, Ordered

(* Nothing that orders messages changes; publishes on their way may be gone
   with the connection. *)
LEMMA OrderKept ==
    ASSUME OInv, UNCHANGED <<store, sendQueue, delivered>>,
           issued' \in Nat, issued <= issued',
           Ascending(c2s', SentPublishes),
           \A x \in ToSet(c2s') : x \in SentPublishes => x \in ToSet(c2s),
           conn' = "connected" => conn = "connected" /\ ToSet(c2s) \subseteq ToSet(c2s')
    PROVE  Order'
<1>1. Lined /\ UnderWay /\ NoneOvertaken /\ InOrder
  BY DEF OInv, Order
<1>2. Entries' = Entries /\ Queued' = Queued /\ \A m : Reached(m)' <=> Reached(m)
  BY DEF Entries, Queued, Reached
<1>3. Lined'
  BY <1>1 DEF Lined, Ascending, Ordered
<1>4. UnderWay'
  BY <1>1, <1>2 DEF UnderWay
<1>5. NoneOvertaken'
  <2>1. issued \in Nat /\ \A m \in ToSet(delivered) : m \in Int
    BY MembersTyped DEF OInv, DInv, XInv, IInv, TypeOK, SenderTypes, ReceiverTypes, Messages
  <2> QED BY <1>1, <1>2, <2>1 DEF NoneOvertaken
<1>6. InOrder'
  BY <1>1 DEF InOrder, First
<1> QED BY <1>3, <1>4, <1>5, <1>6 DEF Order

LEMMA NoneAscends == \A S : Ascending(<<>>, S) /\ \A x : Ascending(<<x>>, S)
BY DEF Ascending, Ordered

LEMMA ConnectOrder == ASSUME OInv, ClientConnects PROVE Order'
<1>1. /\ conn' = "connecting" /\ UNCHANGED <<store, sendQueue, delivered, issued>>
      /\ \E clean : c2s' = <<ConnectPacket(clean)>>
  BY DEF ClientConnects, Connect, receiverVars
<1>2. issued \in Nat
  BY DEF OInv, DInv, XInv, IInv, TypeOK, SenderTypes
<1>3. \A clean : ConnectPacket(clean) \notin SentPublishes
  BY DEF ConnectPacket, SentPublishes, PublishPackets
<1> QED BY <1>1, <1>2, <1>3, NoneAscends, NothingCarried, OrderKept

LEMMA CloseOrder == ASSUME OInv, ConnectionCloses PROVE Order'
<1>1. conn' = "closed" /\ UNCHANGED <<store, sendQueue, delivered, issued>> /\ c2s' = <<>>
  BY DEF ConnectionCloses, SenderClose, ReceiverClose
<1>2. issued \in Nat
  BY DEF OInv, DInv, XInv, IInv, TypeOK, SenderTypes
<1> QED BY <1>1, <1>2, NoneAscends, NothingCarried, OrderKept

LEMMA DropOrder == ASSUME OInv, SessionIsDropped \/ UNCHANGED vars PROVE Order'
<1>1. UNCHANGED <<conn, store, sendQueue, delivered, issued, c2s>>
  BY DEF SessionIsDropped, SessionExpires, senderVars, vars
<1>2. issued \in Nat /\ Ascending(c2s, SentPublishes)
  BY DEF OInv, Order, Lined, DInv, XInv, IInv, TypeOK, SenderTypes
<1> QED BY <1>1, <1>2, OrderKept

(* Written behind everything: a packet that is no publish of QoS 1 or 2. *)
LEMMA AppendedOrder ==
    ASSUME OInv, UNCHANGED <<conn, store, sendQueue, delivered>>,
           issued' \in Nat, issued <= issued',
           UNCHANGED c2s
           \/ \E x \in PacketsToReceiver : x \notin SentPublishes /\ c2s' = Append(c2s, x)
    PROVE  Order'
<1>1. c2s \in Seq(PacketsToReceiver) /\ Ascending(c2s, SentPublishes)
  BY DEF OInv, Order, Lined, DInv, XInv, IInv, TypeOK, ToReceiver
<1>2. CASE UNCHANGED c2s
  BY <1>1, <1>2, OrderKept
<1>3. ASSUME NEW x \in PacketsToReceiver, x \notin SentPublishes, c2s' = Append(c2s, x)
      PROVE  Order'
  <2>1. Ascending(c2s', SentPublishes)
    BY <1>1, <1>3, AscendingAppend
  <2> DEFINE t == Append(c2s, x)
  <2>2. ToSet(t) = ToSet(c2s) \union {x}
    BY <1>1, AppendMembers
  <2>3. c2s' = t
    BY <1>3
  <2> HIDE DEF t
  <2>4. ToSet(c2s') = ToSet(c2s) \union {x}
    BY <2>2, <2>3
  <2> QED BY <1>3, <2>1, <2>4, OrderKept
<1> QED BY <1>2, <1>3

LEMMA SubscribeOrder == ASSUME OInv, ~AnyTime, ApplicationSubscribes PROVE Order'
<1>1. PICK p \in Pids : /\ UNCHANGED <<conn, store, sendQueue, delivered, issued>>
                        /\ c2s' = Written(<<SubscribePacket(p)>>)
  BY DEF ApplicationSubscribes, Subscribe, receiverVars
<1>2. issued \in Nat /\ c2s \in Seq(PacketsToReceiver)
  BY DEF OInv, DInv, XInv, IInv, TypeOK, SenderTypes, ToReceiver
<1>3. SubscribePacket(p) \in PacketsToReceiver
  BY PacketsWritten
<1>4. SubscribePacket(p) \notin SentPublishes
  BY DEF SubscribePacket, SentPublishes, PublishPackets
<1>5. UNCHANGED c2s \/ c2s' = Append(c2s, SubscribePacket(p))
  BY <1>1, <1>2, <1>3, AppendIsConcat DEF Written
<1> QED BY <1>1, <1>2, <1>3, <1>4, <1>5, AppendedOrder

(* The messages known anywhere are the ones published before. *)
LEMMA KnownIssued ==
    ASSUME OInv
    PROVE  /\ issued \in Nat
           /\ \A e \in Entries : e.msg \in 1..issued
           /\ \A e \in ToSet(sendQueue) : e.msg \in 1..issued
           /\ \A x \in ToSet(c2s) : x \in SentPublishes => x.msg \in 1..issued
           /\ \A d \in ToSet(delivered) : d \in Messages /\ (Qos[d] # 0 => d <= issued)
<1>1. /\ issued \in Nat /\ QueueStored /\ NoneOvertaken
      /\ \A e \in Entries : e.msg \in 1..issued
      /\ \A x \in ToSet(c2s) : Asked(x)
      /\ \A d \in ToSet(delivered) : d \in Messages
  BY MembersTyped DEF OInv, Order, DInv, Known, EntriesReached, XInv, IInv, TypeOK, SenderTypes,
                      ReceiverTypes, Exchanges, Traffic
<1>2. \A p, k, m : Entry(p, k, m).msg = m
  BY DEF Entry
<1>3. \A e \in ToSet(sendQueue) : e.msg \in 1..issued
  BY <1>1, <1>2 DEF QueueStored
<1>4. \A x \in ToSet(c2s) : x \in SentPublishes => x.msg \in 1..issued
  <2>1. \A x \in SentPublishes : x.type = "publish" /\ Qos[x.msg] # 0
    BY DEF SentPublishes, PublishPackets
  <2> QED BY <1>1, <1>2, <2>1 DEF Asked
<1> QED BY <1>1, <1>3, <1>4 DEF NoneOvertaken

LEMMA PublishOrder == ASSUME OInv, ~AnyTime, ApplicationPublishes PROVE Order'
<1>1. /\ XInv /\ Lined /\ UnderWay /\ NoneOvertaken /\ InOrder
      /\ store \in Seq(StoreEntries) /\ sendQueue \in Seq(QueueEntries)
      /\ c2s \in Seq(PacketsToReceiver)
  BY DEF OInv, DInv, Order, XInv, IInv, TypeOK, SenderTypes, ToReceiver
<1>2. PICK m \in Messages :
        /\ m = issued + 1 /\ issued' = m /\ issued \in Nat
        /\ UNCHANGED <<conn, discarded, session, handled, delivered, s2c>>
        /\ \/ /\ Qos[m] = 0
              /\ UNCHANGED <<store, sendQueue>>
              /\ \/ UNCHANGED c2s
                 \/ /\ c2s' = Append(c2s, PublishPacket(NoPid, m))
                    /\ PublishPacket(NoPid, m) \in PacketsToReceiver
           \/ /\ Qos[m] \in 1..2
              /\ \E p \in Pids :
                   /\ p \notin pids
                   /\ Entry(p, FirstAnswer(m), m) \in StoreEntries
                   /\ store' = Append(store, Entry(p, FirstAnswer(m), m))
                   /\ \/ /\ sendQueue' = Append(sendQueue, [pid |-> p, msg |-> m])
                         /\ [pid |-> p, msg |-> m] \in QueueEntries
                         /\ UNCHANGED c2s
                      \/ /\ sendQueue = <<>> /\ UNCHANGED <<sendQueue, c2s>>
                         /\ conn = "closed"
                      \/ /\ sendQueue = <<>> /\ UNCHANGED sendQueue
                         /\ c2s' = Append(c2s, PublishPacket(p, m))
                         /\ PublishPacket(p, m) \in PacketsToReceiver
  BY <1>1, PublishEffect
<1>3. /\ \A e \in Entries : e.msg \in Nat /\ e.msg < m
      /\ \A e \in ToSet(sendQueue) : e.msg < m
      /\ \A x \in ToSet(c2s) : x \in SentPublishes => x.msg < m
      /\ \A d \in ToSet(delivered) : Qos[d] # 0 => d < m
  <2>1. \A k \in 1..issued : k \in Nat /\ k < m
    BY <1>2
  <2>2. \A k \in Messages : k <= issued => k < m
    BY <1>2 DEF Messages
  <2> QED BY <2>1, <2>2, KnownIssued
<1>4. CASE Qos[m] = 0
  <2>1. UNCHANGED <<conn, store, sendQueue, delivered>> /\ issued' \in Nat /\ issued <= issued'
    BY <1>2, <1>4
  <2>2. PublishPacket(NoPid, m) \notin SentPublishes
    BY <1>4 DEF PublishPacket, SentPublishes
  <2> QED BY <1>2, <1>4, <2>1, <2>2, AppendedOrder
<1>5. ASSUME NEW p \in Pids, NEW e, e = Entry(p, FirstAnswer(m), m), e \in StoreEntries,
             store' = Append(store, e), Qos[m] \in 1..2,
             NEW q, q = [pid |-> p, msg |-> m], NEW x, x = PublishPacket(p, m),
             \/ /\ sendQueue' = Append(sendQueue, q) /\ q \in QueueEntries
                /\ UNCHANGED c2s
             \/ /\ sendQueue = <<>> /\ UNCHANGED <<sendQueue, c2s>>
                /\ conn = "closed"
             \/ /\ sendQueue = <<>> /\ UNCHANGED sendQueue
                /\ c2s' = Append(c2s, x) /\ x \in PacketsToReceiver
      PROVE  Order'
  <2>1. e.pid = p /\ e.msg = m /\ q.pid = p /\ q.msg = m /\ x.msg = m
    BY <1>5 DEF Entry, PublishPacket
  <2>2. Entries' = Entries \union {e}
    BY <1>1, <1>5, EntryAdded
  <2>3. Ascending(store', FirstSends)
    <3>1. \A y \in ToSet(store) : y.msg < e.msg
      BY <1>3, <2>1 DEF Entries
    <3> QED BY <1>1, <1>5, <3>1, AscendingAppend DEF Lined
  <2>4. \A n : Reached(n)' <=> Reached(n)
    BY <1>2 DEF Reached
  <2>5. NoneOvertaken'
    <3>1. \A d \in ToSet(delivered) : Qos[d] # 0 => d <= issued' /\ ~(m < d)
      <4>1. \A d \in Messages : d < m => d <= m /\ ~(m < d)
        BY <1>2 DEF Messages
      <4> QED BY <1>2, <1>3, <4>1, KnownIssued
    <3> QED BY <1>1, <1>2, <2>1, <2>2, <2>4, <3>1 DEF NoneOvertaken
  <2>6. InOrder'
    BY <1>1, <1>2 DEF InOrder, First
  <2>7. CASE sendQueue' = Append(sendQueue, q) /\ q \in QueueEntries /\ UNCHANGED c2s
    <3>1. Ascending(sendQueue', QueueEntries)
      <4>1. \A y \in ToSet(sendQueue) : y.msg < q.msg
        BY <1>3, <2>1
      <4> QED BY <1>1, <2>7, <4>1, AscendingAppend DEF Lined
    <3>2. ToSet(sendQueue') = ToSet(sendQueue) \union {q} /\ Queued' = Queued \union {p}
      <4> DEFINE t == Append(sendQueue, q)
      <4>1. /\ ToSet(t) = ToSet(sendQueue) \union {q}
            /\ QueuedOf(t) = {y.pid : y \in ToSet(t)}
            /\ QueuedOf(sendQueue) = {y.pid : y \in ToSet(sendQueue)}
        BY <1>1, <2>7, AppendMembers DEF QueuedOf, ToSet
      <4>2. sendQueue' = t
        BY <2>7
      <4> HIDE DEF t
      <4> QED BY <2>1, <4>1, <4>2, FlightIs, FlightNext
    <3>3. Lined'
      BY <1>1, <1>3, <2>1, <2>3, <2>7, <3>1, <3>2 DEF Lined
    <3>4. UnderWay'
      BY <1>1, <1>2, <2>1, <2>2, <2>4, <2>7, <3>2 DEF UnderWay
    <3> QED BY <2>5, <2>6, <3>3, <3>4 DEF Order
  <2>8. CASE sendQueue = <<>> /\ UNCHANGED <<sendQueue, c2s>> /\ conn = "closed"
    <3>1. Lined'
      BY <1>1, <2>3, <2>8 DEF Lined
    <3>2. UnderWay'
      BY <1>2, <2>8 DEF UnderWay
    <3> QED BY <2>5, <2>6, <3>1, <3>2 DEF Order
  <2>9. CASE /\ sendQueue = <<>> /\ UNCHANGED sendQueue
             /\ c2s' = Append(c2s, x) /\ x \in PacketsToReceiver
    <3>1. Ascending(c2s', SentPublishes)
      BY <1>1, <1>3, <2>1, <2>9, AscendingAppend DEF Lined
    <3>2. ToSet(c2s') = ToSet(c2s) \union {x}
      <4> DEFINE t == Append(c2s, x)
      <4>1. ToSet(t) = ToSet(c2s) \union {x}
        BY <1>1, <2>9, AppendMembers
      <4>2. c2s' = t
        BY <2>9
      <4> HIDE DEF t
      <4> QED BY <4>1, <4>2
    <3>3. Lined'
      BY <1>1, <2>3, <2>9, <3>1, NothingCarried DEF Lined
    <3>4. UnderWay'
      <4>1. Queued' = Queued
        BY <2>9 DEF Queued
      <4>2. x = PublishPacket(e.pid, e.msg)
        BY <1>5, <2>1
      <4> QED BY <1>1, <1>2, <2>2, <2>4, <3>2, <4>1, <4>2 DEF UnderWay
    <3> QED BY <2>5, <2>6, <3>3, <3>4 DEF Order
  <2> QED BY <1>5, <2>7, <2>8, <2>9
<1> QED BY <1>2, <1>4, <1>5

(* First deliveries stay in order when a message comes behind the ones forwarded. *)
FirstIn(s, i) == \A j \in 1..(i - 1) : s[j] # s[i]

LEMMA InOrderAppended ==
    ASSUME InOrder, delivered \in Seq(Messages), NEW m \in Messages,
           delivered' = Append(delivered, m),
           Qos[m] # 0 /\ m \notin ToSet(delivered) =>
              \A d \in ToSet(delivered) : Qos[d] # 0 => d < m
    PROVE  InOrder'
<1>1. PICK s, t, n : s = delivered /\ t = delivered' /\ n = Len(s) + 1
  OBVIOUS
<1>2. /\ DOMAIN t = DOMAIN s \union {n} /\ n \notin DOMAIN s
      /\ \A i \in DOMAIN s : t[i] = s[i]
      /\ t[n] = m
  BY <1>1, AfterAppend
<1>3. Len(s) \in Nat /\ DOMAIN s = 1..Len(s) /\ n \in Nat /\ 1..(n - 1) = DOMAIN s
  BY <1>1, LenProperties
<1>4. \A i \in DOMAIN t, j \in DOMAIN t : i < j => i \in DOMAIN s
  BY <1>2, <1>3
<1>5. /\ \A i : First(i) <=> FirstIn(s, i)
      /\ \A i : First(i)' <=> FirstIn(t, i)
  BY <1>1 DEF First, FirstIn
<1>6. ASSUME NEW i \in DOMAIN s PROVE FirstIn(t, i) => FirstIn(s, i)
  <2>1. \A j \in 1..(i - 1) : j \in DOMAIN s
    BY <1>3
  <2> QED BY <1>2, <2>1 DEF FirstIn
<1>7. ASSUME NEW i \in DOMAIN t, NEW j \in DOMAIN t, i < j, FirstIn(t, i), FirstIn(t, j),
             Qos[t[i]] # 0, Qos[t[j]] # 0
      PROVE  t[i] < t[j]
  <2>1. i \in DOMAIN s /\ FirstIn(s, i) /\ t[i] = s[i]
    BY <1>2, <1>4, <1>6, <1>7
  <2>2. CASE j \in DOMAIN s
    <3>1. FirstIn(s, j) /\ t[j] = s[j]
      BY <1>2, <1>6, <1>7, <2>2
    <3> QED BY <1>1, <1>5, <1>7, <2>1, <2>2, <3>1 DEF InOrder
  <2>3. CASE j = n
    <3>1. \A k \in DOMAIN s : s[k] # m
      BY <1>2, <1>3, <1>7, <2>3 DEF FirstIn
    <3>2. m \notin ToSet(delivered) /\ s[i] \in ToSet(delivered)
      BY <1>1, <2>1, <3>1 DEF ToSet
    <3> QED BY <1>2, <1>7, <2>1, <2>3, <3>2
  <2> QED BY <1>2, <2>2, <2>3
<1>8. ASSUME NEW i \in DOMAIN delivered', NEW j \in DOMAIN delivered',
             i < j, First(i)', First(j)', Qos[delivered'[i]] # 0, Qos[delivered'[j]] # 0
      PROVE  delivered'[i] < delivered'[j]
  BY <1>1, <1>5, <1>7, <1>8
<1> QED BY <1>8 DEF InOrder

(* What the broker has not read yet is behind what it reads now. *)
LEMMA BehindHead ==
    ASSUME OInv, conn = "connected", c2s # <<>>, Head(c2s) \in SentPublishes,
           NEW e \in Entries, IsPublish(e)
    PROVE  \/ Reached(e.msg)
           \/ e.msg = Head(c2s).msg
           \/ Head(c2s).msg < e.msg
<1>1. /\ Lined /\ UnderWay /\ QueueStored /\ Entries \subseteq StoreEntries
      /\ c2s \in Seq(PacketsToReceiver)
      /\ \A f, g \in Entries : f.pid = g.pid => f = g
  BY EntriesOne DEF OInv, Order, DInv, XInv, Exchanges, IInv, TypeOK, ToReceiver
<1>2. PICK x : x = Head(c2s)
  OBVIOUS
<1>3. ToSet(c2s) = ToSet(Tail(c2s)) \union {x} /\ x \in ToSet(c2s)
  BY <1>1, <1>2, TailMembers
<1>4. CASE e.pid \in Queued
  <2>1. PICK q \in ToSet(sendQueue) : q.pid = e.pid
    BY <1>4 DEF Queued, ToSet
  <2>2. /\ Entry(q.pid, FirstAnswer(q.msg), q.msg) \in Entries
        /\ Entry(q.pid, FirstAnswer(q.msg), q.msg).pid = q.pid
        /\ Entry(q.pid, FirstAnswer(q.msg), q.msg).msg = q.msg
    BY <1>1 DEF QueueStored, Entry
  <2>3. q.msg = e.msg
    BY <1>1, <2>1, <2>2
  <2> QED BY <1>1, <1>2, <1>3, <2>1, <2>3 DEF Lined
<1>5. CASE PublishPacket(e.pid, e.msg) \in ToSet(c2s)
  <2>1. PICK z : z = PublishPacket(e.pid, e.msg)
    OBVIOUS
  <2>2. z.msg = e.msg /\ z \in SentPublishes
    <3>1. e.pid \in Pids /\ e.msg \in Messages /\ Qos[e.msg] # 0 /\ e.pid # NoPid
      BY <1>1, PidsAreNotNoPid DEF StoreEntries
    <3> QED BY <2>1, <3>1 DEF PublishPacket, SentPublishes, PublishPackets
  <2>3. CASE z = x
    BY <1>2, <2>2, <2>3
  <2>4. CASE z \in ToSet(Tail(c2s))
    BY <1>1, <2>2, <2>4, AscendingTail DEF Lined
  <2> QED BY <1>3, <1>5, <2>1, <2>3, <2>4
<1> QED BY <1>1, <1>4, <1>5 DEF UnderWay

(* The broker has read the head of c2s: a publish of QoS 1 or 2 among it has
   been forwarded, now or before, or was refused. *)
LEMMA ReadOrder ==
    ASSUME OInv, c2s # <<>>, c2s' = Tail(c2s), UNCHANGED <<conn, store, sendQueue, issued>>,
           ToSet(delivered) \subseteq ToSet(delivered)', NEW m,
           conn = "connected" /\ Head(c2s) \in SentPublishes =>
              m = Head(c2s).msg /\ Reached(m)'
    PROVE  Lined' /\ UnderWay'
<1>1. /\ Lined /\ UnderWay /\ c2s \in Seq(PacketsToReceiver) /\ Entries \subseteq StoreEntries
  BY EntriesOne DEF OInv, Order, DInv, XInv, IInv, TypeOK, ToReceiver
<1>2. PICK x : x = Head(c2s)
  OBVIOUS
<1>3. ToSet(c2s) = ToSet(c2s') \union {x}
  BY <1>1, <1>2, TailMembers
<1>4. Ascending(c2s', SentPublishes)
  BY <1>1, AscendingTail DEF Lined
<1>5. Lined'
  BY <1>1, <1>3, <1>4 DEF Lined
<1>6. UnderWay'
  <2> SUFFICES ASSUME conn = "connected", NEW e \in Entries, IsPublish(e)
               PROVE  \/ e.pid \in Queued
                      \/ PublishPacket(e.pid, e.msg) \in ToSet(c2s')
                      \/ Reached(e.msg)'
    BY DEF UnderWay, Entries, Queued
  <2>1. Reached(e.msg) => Reached(e.msg)'
    BY DEF Reached
  <2>2. CASE PublishPacket(e.pid, e.msg) = x
    <3>1. e.pid \in Pids /\ e.msg \in Messages /\ Qos[e.msg] # 0 /\ e.pid # NoPid
      BY <1>1, PidsAreNotNoPid DEF StoreEntries
    <3>2. x \in SentPublishes /\ x.msg = e.msg
      BY <2>2, <3>1 DEF PublishPacket, SentPublishes, PublishPackets
    <3> QED BY <1>2, <3>2
  <2> QED BY <1>1, <1>3, <2>1, <2>2 DEF UnderWay
<1> QED BY <1>5, <1>6

LEMMA BrokerOrder == ASSUME OInv, BrokerReads PROVE Order'
<1>1. PICK x, p, m : x = Head(c2s) /\ p = x.pid /\ m = x.msg
  OBVIOUS
<1>2. /\ XInv /\ DInv /\ Lined /\ UnderWay /\ NoneOvertaken /\ InOrder /\ EntriesReached
      /\ delivered \in Seq(Messages) /\ c2s \in Seq(PacketsToReceiver) /\ Traffic
      /\ Entries \subseteq StoreEntries
  BY EntriesOne DEF OInv, Order, DInv, Known, XInv, Exchanges, IInv, TypeOK, ReceiverTypes,
                    ToReceiver
<1>3. /\ c2s # <<>> /\ c2s' = Tail(c2s) /\ x \in ToSet(c2s) /\ x \in PacketsToReceiver
      /\ UNCHANGED <<conn, store, sendQueue, issued>>
      /\ \/ x.type = "connect" /\ conn = "connecting" /\ UNCHANGED delivered
         \/ /\ conn = "connected"
            /\ \/ /\ x.type = "publish"
                  /\ delivered' = (IF m \in Denied THEN delivered ELSE Append(delivered, m))
               \/ x.type = "publish" /\ Qos[m] = 2 /\ p \in handled /\ UNCHANGED delivered
               \/ x.type # "publish" /\ UNCHANGED delivered
  BY <1>1, <1>2, BrokerEffect
<1>4. x \in SentPublishes <=> x.type = "publish" /\ Qos[m] # 0
  <2>1. x \in PublishPackets <=> x.type = "publish"
    BY <1>3 DEF PacketsToReceiver, PublishPackets
  <2>2. \A z \in PublishPackets : z.type = "publish"
    BY DEF PublishPackets
  <2> QED BY <1>1, <2>1, <2>2 DEF SentPublishes
<1>5. Entries' = Entries
  BY <1>3 DEF Entries
<1>6. x.type = "publish" => m \in Messages
  BY <1>1, <1>3, PacketsToReceiverFields
<1>7. CASE UNCHANGED delivered
  <2>1. conn = "connected" /\ x \in SentPublishes => Reached(m)
    <3> SUFFICES ASSUME conn = "connected", x \in SentPublishes, m \notin Denied PROVE Reached(m)
      BY DEF Reached
    <3>1. Qos[m] = 2 /\ p \in handled
      <4>1. delivered' # Append(delivered, m)
        <5>1. Len(Append(delivered, m)) = Len(delivered) + 1 /\ Len(delivered) \in Nat
          BY <1>2, <1>4, <1>6, AppendProperties, LenProperties
        <5> QED BY <1>7, <5>1
      <4> QED BY <1>3, <1>4, <4>1
    <3>2. Entry(p, FirstAnswer(m), m) \in Entries
      BY <1>1, <1>2, <1>3, <1>4 DEF Traffic, Asked
    <3>3. /\ Entry(p, FirstAnswer(m), m).pid = p /\ Entry(p, FirstAnswer(m), m).msg = m
          /\ Entry(p, FirstAnswer(m), m).awaits = "pubrec"
      BY <3>1 DEF Entry, FirstAnswer
    <3> QED BY <1>2, <3>1, <3>2, <3>3 DEF EntriesReached, Reached
  <2>2. \A n : Reached(n)' <=> Reached(n)
    BY <1>7 DEF Reached
  <2>3. Lined' /\ UnderWay'
    BY <1>1, <1>3, <1>7, <2>1, <2>2, ReadOrder
  <2>4. NoneOvertaken'
    BY <1>2, <1>3, <1>5, <1>7, <2>2 DEF NoneOvertaken
  <2>5. InOrder'
    BY <1>2, <1>7 DEF InOrder, First
  <2> QED BY <2>3, <2>4, <2>5 DEF Order
<1>8. CASE x.type = "publish" /\ m \notin Denied /\ delivered' = Append(delivered, m)
           /\ conn = "connected"
  <2>1. ToSet(delivered)' = ToSet(delivered) \union {m} /\ Reached(m)'
    BY <1>2, <1>6, <1>8, DeliveredMore
  <2>2. \A n : Reached(n) => Reached(n)'
    BY <2>1 DEF Reached
  <2>3. Lined' /\ UnderWay'
    BY <1>1, <1>3, <2>1, ReadOrder
  <2>4. ASSUME Qos[m] # 0
        PROVE  /\ m <= issued
               /\ \A e \in Entries : IsPublish(e) /\ e.msg < m => Reached(e.msg)'
    <3>1. m \in 1..issued /\ m <= issued
      BY <1>1, <1>3, <1>4, <1>8, <2>4, KnownIssued
    <3>2. ASSUME NEW e \in Entries, IsPublish(e), e.msg < m PROVE Reached(e.msg)'
      <4>1. e.msg \in Messages
        BY <1>2 DEF StoreEntries
      <4>2. \A a, b \in Messages : a < b => ~(b < a) /\ a # b
        BY DEF Messages
      <4>3. Reached(e.msg) \/ e.msg = m \/ m < e.msg
        BY <1>1, <1>3, <1>4, <1>8, <2>4, <3>2, BehindHead
      <4> QED BY <1>6, <1>8, <2>2, <3>2, <4>1, <4>2, <4>3
    <3> QED BY <3>1, <3>2
  <2>5. NoneOvertaken'
    BY <1>2, <1>3, <1>5, <2>1, <2>2, <2>4 DEF NoneOvertaken
  <2>6. InOrder'
    <3>1. ASSUME Qos[m] # 0, m \notin ToSet(delivered), NEW d \in ToSet(delivered), Qos[d] # 0
          PROVE  d < m
      <4>1. d \in Messages /\ d # m
        BY <1>2, <3>1, MembersTyped
      <4>2. m < d => Reached(m)
        <5>1. /\ Entry(p, FirstAnswer(m), m) \in Entries
              /\ Entry(p, FirstAnswer(m), m).msg = m /\ IsPublish(Entry(p, FirstAnswer(m), m))
          <6>1. Entry(p, FirstAnswer(m), m) \in Entries
            BY <1>1, <1>2, <1>3, <1>8, <3>1 DEF Traffic, Asked
          <6> QED BY <6>1 DEF Entry, IsPublish, FirstAnswer
        <5> QED BY <1>2, <3>1, <5>1 DEF NoneOvertaken
      <4>3. ~(m < d)
        BY <1>8, <3>1, <4>2 DEF Reached
      <4> QED BY <1>6, <1>8, <4>1, <4>3 DEF Messages
    <3> QED BY <1>2, <1>6, <1>8, <3>1, InOrderAppended
  <2> QED BY <2>3, <2>5, <2>6 DEF Order
<1> QED BY <1>3, <1>7, <1>8

(* The client reads an answer: one entry less, and the queue may advance. *)
LEMMA ReleaseOrder ==
    ASSUME OInv, conn = "connected", NEW e \in Entries, store' = Erased(store, e.pid), Advanced,
           UNCHANGED <<conn, issued, delivered>>
    PROVE  Order'
<1>1. /\ XInv /\ Lined /\ UnderWay /\ NoneOvertaken /\ InOrder
      /\ store \in Seq(StoreEntries) /\ sendQueue \in Seq(QueueEntries)
      /\ c2s \in Seq(PacketsToReceiver) /\ Distinct(store) /\ QueueStored
      /\ \A f, g \in Entries : f.pid = g.pid => f = g
  BY EntriesOne, PidsConsistentParts
     DEF OInv, DInv, Order, XInv, Exchanges, IInv, TypeOK, SenderTypes, ToReceiver
<1>2. Entries' = Entries \ {e}
  BY <1>1, EntryErased DEF Entries
<1>3. Ascending(store', FirstSends)
  <2>1. e.pid \in PidsOf(store)
    BY DEF PidsOf, Entries, ToSet
  <2> QED BY <1>1, <2>1, AscendingErased DEF Lined
<1>4. \A n : Reached(n)' <=> Reached(n)
  BY DEF Reached
<1>5. NoneOvertaken'
  BY <1>1, <1>2, <1>4 DEF NoneOvertaken
<1>6. InOrder'
  BY <1>1 DEF InOrder, First
<1>7. CASE UNCHANGED <<sendQueue, c2s>>
  <2>1. Lined'
    BY <1>1, <1>3, <1>7 DEF Lined
  <2>2. UnderWay'
    <3>1. Queued' = Queued
      BY <1>7 DEF Queued
    <3> QED BY <1>1, <1>2, <1>4, <1>7, <3>1 DEF UnderWay
  <2> QED BY <1>5, <1>6, <2>1, <2>2 DEF Order
<1>8. ASSUME NEW h \in QueueEntries, sendQueue # <<>>, h = Head(sendQueue),
             sendQueue' = Tail(sendQueue), NEW x, x = PublishPacket(h.pid, h.msg),
             c2s' = Append(c2s, x), x \in PacketsToReceiver
      PROVE  Order'
  <2>1. /\ ToSet(sendQueue) = ToSet(sendQueue') \union {h}
        /\ Queued' = Queued \ {h.pid}
        /\ Ascending(sendQueue', QueueEntries)
        /\ \A q \in ToSet(sendQueue') : h.msg < q.msg
    <3>1. /\ ToSet(sendQueue) = ToSet(Tail(sendQueue)) \union {h}
          /\ QueuedOf(Tail(sendQueue)) = QueuedOf(sendQueue) \ {h.pid}
          /\ Tail(sendQueue) \in Seq(QueueEntries)
      BY <1>1, <1>8, TailMembers, QueueAdvanced DEF QueueStored
    <3>2. /\ Ascending(Tail(sendQueue), QueueEntries)
          /\ \A q \in ToSet(Tail(sendQueue)) : q \in QueueEntries => h.msg < q.msg
      BY <1>1, <1>8, AscendingTail DEF Lined
    <3>3. \A q \in ToSet(Tail(sendQueue)) : q \in QueueEntries
      BY <3>1, MembersTyped
    <3> QED BY <1>8, <3>1, <3>2, <3>3, FlightIs, FlightNext
  <2>2. ToSet(c2s') = ToSet(c2s) \union {x}
    <3> DEFINE t == Append(c2s, x)
    <3>1. ToSet(t) = ToSet(c2s) \union {x}
      BY <1>1, <1>8, AppendMembers
    <3>2. c2s' = t
      BY <1>8
    <3> HIDE DEF t
    <3> QED BY <3>1, <3>2
  <2>3. x.msg = h.msg /\ h \in ToSet(sendQueue)
    BY <1>8, <2>1 DEF PublishPacket
  <2>4. Ascending(c2s', SentPublishes)
    <3>1. \A y \in ToSet(c2s) : y \in SentPublishes => y.msg < x.msg
      BY <1>1, <2>3 DEF Lined
    <3> QED BY <1>1, <1>8, <3>1, AscendingAppend DEF Lined
  <2>5. Lined'
    BY <1>1, <1>3, <2>1, <2>2, <2>3, <2>4 DEF Lined
  <2>6. UnderWay'
    <3> SUFFICES ASSUME NEW f \in Entries, IsPublish(f), f.pid \in Queued, f.pid \notin Queued'
                 PROVE  PublishPacket(f.pid, f.msg) \in ToSet(c2s')
      BY <1>1, <1>2, <1>4, <2>2 DEF UnderWay
    <3>1. f.pid = h.pid
      BY <2>1
    <3>2. /\ Entry(h.pid, FirstAnswer(h.msg), h.msg) \in Entries
          /\ Entry(h.pid, FirstAnswer(h.msg), h.msg).pid = h.pid
          /\ Entry(h.pid, FirstAnswer(h.msg), h.msg).msg = h.msg
      BY <1>1, <2>3 DEF QueueStored, Entry
    <3>3. f.msg = h.msg
      BY <1>1, <3>1, <3>2
    <3> QED BY <1>8, <2>2, <3>1, <3>3
  <2> QED BY <1>5, <1>6, <2>5, <2>6 DEF Order
<1> QED BY <1>7, <1>8 DEF Advanced

LEMMA PubrelOrder ==
    ASSUME OInv, NEW e \in Entries, NEW f \in StoreEntries, f = Entry(e.pid, "pubcomp", e.msg),
           store' = Append(Erased(store, e.pid), f),
           NEW x \in PacketsToReceiver, x = PubrelPacket(e.pid), c2s' = Append(c2s, x),
           UNCHANGED <<conn, issued, sendQueue, delivered>>
    PROVE  Order'
<1>1. /\ XInv /\ Lined /\ UnderWay /\ NoneOvertaken /\ InOrder
      /\ store \in Seq(StoreEntries) /\ c2s \in Seq(PacketsToReceiver) /\ Distinct(store)
  BY PidsConsistentParts
     DEF OInv, DInv, Order, XInv, Exchanges, IInv, TypeOK, SenderTypes, ToReceiver
<1>2. Entries' = (Entries \ {e}) \union {f} /\ ~IsPublish(f)
  BY <1>1, EntryReplaced DEF Entry, IsPublish
<1>3. Ascending(store', FirstSends)
  <2>1. e.pid \in PidsOf(store)
    BY DEF PidsOf, Entries, ToSet
  <2>2. Ascending(Erased(store, e.pid), FirstSends) /\ Erased(store, e.pid) \in Seq(StoreEntries)
    BY <1>1, <2>1, AscendingErased, ErasedOne DEF Lined
  <2>3. f \notin FirstSends
    BY <1>2 DEF FirstSends
  <2> QED BY <2>2, <2>3, AscendingAppend
<1>4. \A n : Reached(n)' <=> Reached(n)
  BY DEF Reached
<1>5. x \notin SentPublishes
  BY DEF PubrelPacket, SentPublishes, PublishPackets
<1>6. ToSet(c2s') = ToSet(c2s) \union {x}
  <2> DEFINE t == Append(c2s, x)
  <2>1. ToSet(t) = ToSet(c2s) \union {x}
    BY <1>1, AppendMembers
  <2>2. c2s' = t
    OBVIOUS
  <2> HIDE DEF t
  <2> QED BY <2>1, <2>2
<1>7. Ascending(c2s', SentPublishes)
  BY <1>1, <1>5, AscendingAppend DEF Lined
<1>8. Lined'
  BY <1>1, <1>3, <1>5, <1>6, <1>7 DEF Lined
<1>9. UnderWay'
  <2>1. Queued' = Queued
    BY DEF Queued
  <2> QED BY <1>1, <1>2, <1>4, <1>6, <2>1 DEF UnderWay
<1>10. NoneOvertaken'
  BY <1>1, <1>2, <1>4 DEF NoneOvertaken
<1>11. InOrder'
  BY <1>1 DEF InOrder, First
<1> QED BY <1>8, <1>9, <1>10, <1>11 DEF Order

LEMMA ClearOrder ==
    ASSUME OInv, ClearSessionData, c2s = <<>>, UNCHANGED <<issued, delivered>> PROVE Order'
<1>1. store' = <<>> /\ sendQueue' = <<>> /\ c2s' = <<>>
  BY DEF ClearSessionData
<1>2. Entries' = {} /\ ToSet(c2s') = {}
  BY <1>1, NothingCarried DEF Entries
<1>3. Lined'
  BY <1>1, <1>2 DEF Lined, Ascending, Ordered
<1>4. UnderWay'
  BY <1>2 DEF UnderWay
<1>5. NoneOvertaken' /\ InOrder'
  BY <1>2 DEF OInv, Order, NoneOvertaken, InOrder, First
<1> QED BY <1>3, <1>4, <1>5 DEF Order

(* CONNACK has been read: every stored publish is written again or queued, in
   the store's order, and what is written comes before what is queued. *)
LEMMA ResendOrder ==
    ASSUME OInv, conn = "connecting", ResendStore, c2s = <<>>, UNCHANGED <<issued, delivered>>
    PROVE  Order'
<1> DEFINE out  == (DOMAIN store \ StoredPublishes) \union LetOut
           rest == StoredPublishes \ LetOut
           sent    == Picked(out)
           waiting == Picked(rest)
           packets == [k \in DOMAIN sent |-> StoredPacket(sent[k])]
           queue   == [k \in DOMAIN waiting |-> QueueEntry(waiting[k])]
<1>1. /\ store \in Seq(StoreEntries) /\ Distinct(store) /\ ReceiveMax \in Nat
      /\ \A i \in DOMAIN store : store[i] \in StoreEntries
      /\ Ascending(store, FirstSends) /\ NoneOvertaken /\ InOrder
      /\ DOMAIN store = 1..Len(store) /\ Len(store) \in Nat
  BY PacketsAssumption, PidsConsistentParts, StoreTypes, LenProperties
     DEF OInv, DInv, Order, Lined, XInv, IInv, TypeOK, SenderTypes
<1>2. /\ LetOut \subseteq StoredPublishes /\ StoredPublishes \in SUBSET DOMAIN store
      /\ out \in SUBSET DOMAIN store /\ rest \in SUBSET DOMAIN store
      /\ \A i \in DOMAIN store : i \in StoredPublishes <=> IsPublish(store[i])
      /\ \A i \in DOMAIN store : IsPublish(store[i]) <=> store[i] \in FirstSends
      /\ \A i \in DOMAIN store : i \in StoredPublishes => i \in out \/ i \in rest
  BY <1>1 DEF LetOut, StoredPublishes, FirstSends
<1>3. sendQueue' = queue /\ c2s' = Written(packets) /\ store' = store
  BY DEF ResendStore
<1>4. /\ DOMAIN sent = 1..Cardinality(out) /\ Cardinality(out) \in Nat
      /\ ToSet(sent) = {store[i] : i \in out} /\ ToSet(sent) \subseteq StoreEntries
      /\ Ascending(sent, FirstSends)
  BY <1>1, <1>2, PickedApart, PickedAscending
<1>5. /\ DOMAIN waiting = 1..Cardinality(rest) /\ Cardinality(rest) \in Nat
      /\ ToSet(waiting) = {store[i] : i \in rest}
      /\ Ascending(waiting, FirstSends)
  BY <1>1, <1>2, PickedApart, PickedAscending
<1>6. ASSUME NEW i \in out, NEW j \in rest, IsPublish(store[i]) PROVE store[i].msg < store[j].msg
  <2>1. i \in LetOut /\ i \in StoredPublishes /\ j \in StoredPublishes /\ j \notin LetOut
    BY <1>2, <1>6 DEF out, rest
  <2>2. StoredPublishes \in SUBSET Nat /\ IsFiniteSet(StoredPublishes)
    BY <1>1, <1>2, PickedEntries
  <2>3. /\ V5 /\ Rank(StoredPublishes, i) < ReceiveMax /\ ~(Rank(StoredPublishes, j) < ReceiveMax)
    BY <2>1 DEF LetOut
  <2>4. Rank(StoredPublishes, i) \in Nat /\ Rank(StoredPublishes, j) \in Nat
    BY <2>1, <2>2, RankType
  <2>5. i \in Nat /\ j \in Nat /\ i # j
    BY <2>1, <2>2
  <2>6. ~(j < i)
    <3> SUFFICES ASSUME j < i PROVE FALSE
      OBVIOUS
    <3>1. Rank(StoredPublishes, j) < Rank(StoredPublishes, i)
      BY <2>1, <2>2, RankGrows
    <3> QED BY <1>1, <2>3, <2>4, <3>1
  <2>7. i < j
    BY <2>5, <2>6
  <2> QED BY <1>1, <1>2, <2>1, <2>7 DEF Ascending, Ordered
<1> HIDE DEF out, rest, sent, waiting
<1>7. \A e \in StoreEntries : /\ QueueEntry(e).pid = e.pid /\ QueueEntry(e).msg = e.msg
                              /\ StoredPacket(e) \in PacketsToReceiver
                              /\ StoredPacket(e) \in SentPublishes <=> IsPublish(e)
                              /\ IsPublish(e) => StoredPacket(e) = PublishPacket(e.pid, e.msg)
                              /\ IsPublish(e) => StoredPacket(e).msg = e.msg
  <2> SUFFICES ASSUME NEW e \in StoreEntries
               PROVE  /\ StoredPacket(e) \in PacketsToReceiver
                      /\ StoredPacket(e) \in SentPublishes <=> IsPublish(e)
                      /\ IsPublish(e) => StoredPacket(e) = PublishPacket(e.pid, e.msg)
                      /\ IsPublish(e) => StoredPacket(e).msg = e.msg
    BY DEF QueueEntry
  <2>1. e.pid \in Pids /\ e.msg \in Messages /\ Qos[e.msg] # 0 /\ e.pid # NoPid
    BY PidsAreNotNoPid DEF StoreEntries
  <2>2. StoredPacket(e) \in PacketsToReceiver
    BY <2>1, PacketsWritten DEF StoredPacket
  <2>3. CASE IsPublish(e)
    <3>1. StoredPacket(e) = PublishPacket(e.pid, e.msg)
      BY <2>3 DEF StoredPacket
    <3> QED BY <2>1, <2>2, <2>3, <3>1 DEF PublishPacket, SentPublishes, PublishPackets
  <2>4. CASE ~IsPublish(e)
    <3>1. StoredPacket(e) = PubrelPacket(e.pid)
      BY <2>4 DEF StoredPacket
    <3> QED BY <2>2, <2>4, <3>1 DEF PubrelPacket, SentPublishes, PublishPackets
  <2> QED BY <2>3, <2>4
<1>8. \A k \in DOMAIN sent : sent[k] \in StoreEntries
  BY <1>4 DEF ToSet
<1>9. \A k \in DOMAIN waiting : waiting[k] \in StoreEntries /\ waiting[k] \in FirstSends
  BY <1>1, <1>2, <1>5 DEF ToSet, rest
<1>10. c2s' = packets
  <2>1. packets \in [1..Cardinality(out) -> PacketsToReceiver]
    BY <1>4, <1>7, <1>8
  <2> HIDE DEF packets
  <2>2. packets \in Seq(PacketsToReceiver)
    BY <1>4, <2>1, FunctionsAreSequences
  <2> QED BY <1>3, <2>2, ConcatEmptySeq DEF Written
<1>11. /\ DOMAIN packets = DOMAIN sent
       /\ \A k \in DOMAIN sent : packets[k] = StoredPacket(sent[k])
       /\ DOMAIN queue = DOMAIN waiting
       /\ \A k \in DOMAIN waiting : queue[k] = QueueEntry(waiting[k])
  OBVIOUS
<1> HIDE DEF packets, queue
<1>12. Ascending(packets, SentPublishes)
  <2> SUFFICES ASSUME NEW i \in DOMAIN sent, NEW j \in DOMAIN sent, i < j,
                      packets[i] \in SentPublishes, packets[j] \in SentPublishes
               PROVE  packets[i].msg < packets[j].msg
    BY <1>11 DEF Ascending, Ordered
  <2>1. sent[i] \in FirstSends /\ sent[j] \in FirstSends
    BY <1>7, <1>8, <1>11 DEF FirstSends
  <2>2. packets[i].msg = sent[i].msg /\ packets[j].msg = sent[j].msg
    BY <1>7, <1>8, <1>11, <2>1 DEF FirstSends
  <2> QED BY <1>4, <2>1, <2>2 DEF Ascending, Ordered
<1>13. Ascending(queue, QueueEntries)
  <2> SUFFICES ASSUME NEW i \in DOMAIN waiting, NEW j \in DOMAIN waiting, i < j
               PROVE  queue[i].msg < queue[j].msg
    BY <1>11 DEF Ascending, Ordered
  <2> QED BY <1>5, <1>7, <1>9, <1>11 DEF Ascending, Ordered
<1>14. /\ ToSet(packets) = {StoredPacket(store[i]) : i \in out}
       /\ ToSet(queue) = {QueueEntry(store[i]) : i \in rest}
  <2>1. /\ ToSet(packets) = {StoredPacket(e) : e \in ToSet(sent)}
        /\ ToSet(queue) = {QueueEntry(e) : e \in ToSet(waiting)}
    BY <1>11 DEF ToSet
  <2> QED BY <1>4, <1>5, <2>1
<1>15. /\ \A i \in out : i \in DOMAIN store /\ store[i] \in StoreEntries
       /\ \A i \in rest : i \in DOMAIN store /\ store[i] \in StoreEntries
  BY <1>1, <1>2
<1>16. Lined'
  <2>1. ASSUME NEW x \in ToSet(packets), NEW e \in ToSet(queue), x \in SentPublishes
        PROVE  x.msg < e.msg
    <3>1. PICK i \in out : x = StoredPacket(store[i])
      BY <1>14
    <3>2. PICK j \in rest : e = QueueEntry(store[j])
      BY <1>14
    <3> QED BY <1>6, <1>7, <1>15, <2>1, <3>1, <3>2
  <2> QED BY <1>1, <1>3, <1>10, <1>12, <1>13, <2>1 DEF Lined
<1>17. UnderWay'
  <2> SUFFICES ASSUME NEW e \in Entries, IsPublish(e)
               PROVE  e.pid \in Queued' \/ PublishPacket(e.pid, e.msg) \in ToSet(packets)
    BY <1>3, <1>10 DEF UnderWay, Entries
  <2>1. PICK i \in DOMAIN store : e = store[i]
    BY DEF Entries, ToSet
  <2>2. CASE i \in out
    BY <1>7, <1>14, <1>15, <2>1, <2>2
  <2>3. CASE i \in rest
    <3>1. QueueEntry(e) \in ToSet(queue) /\ QueueEntry(e).pid = e.pid
      BY <1>7, <1>14, <1>15, <2>1, <2>3
    <3>2. Queued' = {x.pid : x \in ToSet(queue)}
      BY <1>3, FlightNext DEF QueuedOf, ToSet
    <3> QED BY <3>1, <3>2
  <2> QED BY <1>2, <2>1, <2>2, <2>3
<1>18. NoneOvertaken' /\ InOrder'
  BY <1>1, <1>3 DEF NoneOvertaken, InOrder, First, Entries, Reached
<1> QED BY <1>16, <1>17, <1>18 DEF Order

LEMMA ClientOrder == ASSUME OInv, ClientReads PROVE Order'
<1>1. PICK y, p : y = Head(s2c) /\ p = y.pid
  OBVIOUS
<1>2. XInv
  BY DEF OInv, DInv
<1>3. /\ UNCHANGED <<issued, delivered>>
      /\ \/ /\ conn = "connecting" /\ c2s = <<>>
            /\ ResendStore \/ ClearSessionData
         \/ /\ conn = "connected" /\ UNCHANGED conn
            /\ \/ UNCHANGED <<store, sendQueue, c2s>>
               \/ /\ UNCHANGED sendQueue
                  /\ \E e \in Entries :
                       /\ e.pid = p
                       /\ store' = Append(Erased(store, p), Entry(p, "pubcomp", e.msg))
                       /\ Entry(p, "pubcomp", e.msg) \in StoreEntries
                  /\ c2s' = Append(c2s, PubrelPacket(p))
                  /\ PubrelPacket(p) \in PacketsToReceiver
               \/ /\ \E e \in Entries : e.pid = p
                  /\ store' = Erased(store, p)
                  /\ Advanced
  BY <1>1, <1>2, ClientEffect
<1>4. CASE conn = "connecting" /\ c2s = <<>> /\ (ResendStore \/ ClearSessionData)
  BY <1>3, <1>4, ResendOrder, ClearOrder
<1>5. CASE UNCHANGED <<conn, store, sendQueue, c2s>>
  <2>1. issued \in Nat
    BY <1>2 DEF XInv, IInv, TypeOK, SenderTypes
  <2> QED BY <1>3, <1>5, <2>1, AppendedOrder
<1>6. ASSUME UNCHANGED <<conn, sendQueue>>, NEW e \in Entries, e.pid = p,
             store' = Append(Erased(store, p), Entry(p, "pubcomp", e.msg)),
             Entry(p, "pubcomp", e.msg) \in StoreEntries,
             c2s' = Append(c2s, PubrelPacket(p)), PubrelPacket(p) \in PacketsToReceiver
      PROVE  Order'
  BY <1>3, <1>6, PubrelOrder
<1>7. ASSUME conn = "connected", UNCHANGED conn, NEW e \in Entries, e.pid = p,
             store' = Erased(store, p), Advanced
      PROVE  Order'
  BY <1>3, <1>7, ReleaseOrder
<1> QED BY <1>3, <1>4, <1>5, <1>6, <1>7

LEMMA NextOrder == ASSUME OInv, ~AnyTime, [Next]_vars PROVE OInv'
<1>1. DInv'
  BY NextKnown DEF OInv
<1>2. Order'
  <2>1. CASE ApplicationPublishes
    BY <2>1, PublishOrder
  <2>2. CASE ApplicationSubscribes
    BY <2>2, SubscribeOrder
  <2>3. CASE ClientConnects
    BY <2>3, ConnectOrder
  <2>4. CASE BrokerReads
    BY <2>4, BrokerOrder
  <2>5. CASE ClientReads
    BY <2>5, ClientOrder
  <2>6. CASE ConnectionCloses
    BY <2>6, CloseOrder
  <2>7. CASE SessionIsDropped \/ UNCHANGED vars
    BY <2>7, DropOrder
  <2> QED BY <2>1, <2>2, <2>3, <2>4, <2>5, <2>6, <2>7 DEF Next
<1> QED BY <1>1, <1>2 DEF OInv

LEMMA SpecOInv == ASSUME ~AnyTime PROVE Spec => []OInv
<1>1. Init => OInv
  BY InitXInv, InitKnown, InitOrder DEF OInv, DInv
<1>2. OInv /\ [Next]_vars => OInv'
  BY NextOrder
<1> QED BY <1>1, <1>2, PTL DEF Spec

(* Wherever the connection breaks: the first deliveries of QoS 1 and 2
   messages come in the order the application published them. store_ is sent
   again in its own order, what the window holds back stays behind it, and no
   message overtakes one the broker has not seen. *)
THEOREM DeliveredInOrder == ASSUME ~AnyTime PROVE Spec => []InOrder
<1>1. OInv => InOrder
  BY DEF OInv, Order
<1> QED BY <1>1, SpecOInv, PTL

-----------------------------------------------------------------------------
(* The flow implements ReliableDelivery, as long as the session is never
   dropped: no Clean Start, no expiry. (A connection lost before its CONNACK is
   read leaves the client's store to be sent into a fresh session: what was
   forwarded before is then forwarded again.) *)
Lasting == CleanStarts = {FALSE} /\ ~MayExpire

Qos0Publishes == {x \in PublishPackets : Qos[x.msg] = 0}

(* No message is stored twice, and the broker remembers each QoS 2 message it
   forwarded until the client has been told. *)
OncePerEntry ==
    /\ \A e, f \in Entries : e.msg = f.msg => e = f
    /\ \A e \in Entries : e.awaits = "pubrec" /\ e.msg \in ToSet(delivered) => e.pid \in handled
    /\ \A d \in ToSet(delivered) : d <= issued

(* The session that is found, or made, knows all that was forwarded. *)
OneSession ==
    /\ session = "none" => delivered = <<>>
    /\ \A x \in ToSet(c2s) : x.type = "connect" => ~x.clean

(* QoS 0: sent once. *)
OncePerPublish ==
    /\ Ascending(c2s, Qos0Publishes)
    /\ \A x \in ToSet(c2s) :
          x \in Qos0Publishes => x.msg <= issued /\ x.msg \notin ToSet(delivered)

Once == OncePerEntry /\ OneSession /\ OncePerPublish

RInv == OInv /\ Once

LEMMA InitOnce == Init => Once
BY DEF Init, SenderInit, ReceiverInit, Once, OncePerEntry, OneSession, OncePerPublish, Entries,
       ToSet, Ascending, Ordered

(* A publish of QoS 0 is that one kind of packet. *)
LEMMA Qos0Is ==
    ASSUME NEW x \in PacketsToReceiver
    PROVE  /\ x \in Qos0Publishes <=> x.type = "publish" /\ Qos[x.msg] = 0
           /\ x \in SentPublishes <=> x.type = "publish" /\ Qos[x.msg] # 0
           /\ x.type = "publish" => x.msg \in Messages
<1>1. x \in PublishPackets <=> x.type = "publish"
  BY DEF PacketsToReceiver, PublishPackets
<1>2. \A z \in PublishPackets : z.msg \in Messages
  BY DEF PublishPackets
<1> QED BY <1>1, <1>2 DEF Qos0Publishes, SentPublishes

LEMMA OnceKept ==
    ASSUME RInv, \A e \in Entries' : e \in Entries \/ e.awaits = "pubcomp",
           \A e, f \in Entries' : e.msg = f.msg => e = f,
           UNCHANGED <<handled, delivered, issued>>,
           session' = "none" => session = "none",
           Ascending(c2s', Qos0Publishes),
           \A x \in ToSet(c2s') :
              \/ x \in ToSet(c2s)
              \/ x \notin Qos0Publishes /\ (x.type = "connect" => ~x.clean)
    PROVE  Once'
<1>1. OncePerEntry /\ OneSession /\ OncePerPublish
  BY DEF RInv, Once
<1>2. OncePerEntry'
  BY <1>1 DEF OncePerEntry
<1>3. OneSession'
  BY <1>1 DEF OneSession
<1>4. OncePerPublish'
  BY <1>1 DEF OncePerPublish
<1> QED BY <1>2, <1>3, <1>4 DEF Once

LEMMA QuietOnce ==
    ASSUME RInv, Lasting,
           ConnectionCloses \/ ClientConnects \/ SessionIsDropped \/ UNCHANGED vars
    PROVE  Once'
<1>1. /\ UNCHANGED <<store, handled, delivered, issued>>
      /\ session' = "none" => session = "none"
      /\ c2s' = <<>> \/ UNCHANGED c2s \/ c2s' = <<ConnectPacket(FALSE)>>
  BY DEF Lasting, ConnectionCloses, ClientConnects, SessionIsDropped, vars, SenderClose,
         ReceiverClose, Connect, receiverVars
<1>2. /\ Ascending(c2s, Qos0Publishes)
      /\ \A e, f \in Entries : e.msg = f.msg => e = f
  BY DEF RInv, Once, OncePerEntry, OncePerPublish
<1>3. Entries' = Entries
  BY <1>1 DEF Entries
<1>4. ConnectPacket(FALSE) \notin Qos0Publishes /\ ~ConnectPacket(FALSE).clean
  BY DEF ConnectPacket, Qos0Publishes, PublishPackets
<1>5. Ascending(c2s', Qos0Publishes)
  BY <1>1, <1>2, NoneAscends
<1>6. \A x \in ToSet(c2s') : x \in ToSet(c2s) \/ x = ConnectPacket(FALSE)
  BY <1>1, NothingCarried
<1> QED BY <1>1, <1>2, <1>3, <1>4, <1>5, <1>6, OnceKept

LEMMA SubscribeOnce == ASSUME RInv, ApplicationSubscribes PROVE Once'
<1>1. PICK x : x \in {SubscribePacket(p) : p \in Pids} /\ c2s' = Written(<<x>>)
  BY DEF ApplicationSubscribes, Subscribe
<1>2. /\ UNCHANGED <<store, session, handled, delivered, issued>>
      /\ c2s \in Seq(PacketsToReceiver) /\ Ascending(c2s, Qos0Publishes)
      /\ \A e, f \in Entries : e.msg = f.msg => e = f
  BY DEF ApplicationSubscribes, Subscribe, receiverVars, RInv, Once, OncePerEntry, OncePerPublish,
         OInv, DInv, XInv, IInv, TypeOK, ToReceiver
<1>3. x \in PacketsToReceiver /\ x.type = "subscribe" /\ x \notin Qos0Publishes
  BY <1>1, PacketsWritten DEF SubscribePacket, Qos0Publishes, PublishPackets
<1>4. c2s' = c2s \/ c2s' = Append(c2s, x)
  BY <1>1, <1>2, <1>3, AppendIsConcat DEF Written
<1>5. Ascending(c2s', Qos0Publishes)
  BY <1>2, <1>3, <1>4, AscendingAppend
<1>6. Entries' = Entries
  BY <1>2 DEF Entries
<1>7. ToSet(c2s') \subseteq ToSet(c2s) \union {x}
  <2> DEFINE t == Append(c2s, x)
  <2>1. ToSet(t) = ToSet(c2s) \union {x}
    BY <1>2, <1>3, AppendMembers
  <2>2. c2s' = c2s \/ c2s' = t
    BY <1>4
  <2> HIDE DEF t
  <2> QED BY <2>1, <2>2
<1> QED BY <1>2, <1>3, <1>5, <1>6, <1>7, OnceKept

LEMMA PublishOnce == ASSUME RInv, ~AnyTime, ApplicationPublishes PROVE Once'
<1>1. /\ XInv /\ OInv /\ OncePerEntry /\ OneSession /\ OncePerPublish
      /\ c2s \in Seq(PacketsToReceiver)
  BY DEF RInv, Once, OInv, DInv, XInv, IInv, TypeOK, ToReceiver
<1>2. PICK m \in Messages :
        /\ m = issued + 1 /\ issued' = m /\ issued \in Nat
        /\ UNCHANGED <<session, handled, delivered>>
        /\ \/ /\ Qos[m] = 0 /\ UNCHANGED store
              /\ \/ UNCHANGED c2s
                 \/ /\ c2s' = Append(c2s, PublishPacket(NoPid, m))
                    /\ PublishPacket(NoPid, m) \in PacketsToReceiver
           \/ /\ Qos[m] \in 1..2
              /\ \E p \in Pids :
                   /\ Entry(p, FirstAnswer(m), m) \in StoreEntries
                   /\ store' = Append(store, Entry(p, FirstAnswer(m), m))
                   /\ \/ UNCHANGED c2s
                      \/ /\ c2s' = Append(c2s, PublishPacket(p, m))
                         /\ PublishPacket(p, m) \in PacketsToReceiver
  BY <1>1, PublishEffect
<1>3. /\ \A e \in Entries : e.msg \in Nat /\ e.msg < m
      /\ \A d \in ToSet(delivered) : d <= m /\ d # m
      /\ \A x \in ToSet(c2s) : x \in Qos0Publishes => x.msg <= m /\ x.msg < m
  <2>1. \A k \in 1..issued : k \in Nat /\ k < m
    BY <1>2
  <2>2. \A k \in Messages : k <= issued => k <= m /\ k # m /\ k < m
    BY <1>2 DEF Messages
  <2>3. \A x \in ToSet(c2s) : x \in Qos0Publishes => x.msg \in Messages
    BY <1>1, MembersTyped, Qos0Is
  <2> QED BY <1>1, <2>1, <2>2, <2>3, KnownIssued DEF OncePerEntry, OncePerPublish
<1>4. ASSUME NEW p, NEW x, x = PublishPacket(p, m), x \in PacketsToReceiver,
             c2s' = Append(c2s, x)
      PROVE  OneSession' /\ OncePerPublish'
  <2>1. x.type = "publish" /\ x.msg = m
    BY <1>4 DEF PublishPacket
  <2> DEFINE t == Append(c2s, x)
  <2>2. ToSet(t) = ToSet(c2s) \union {x}
    BY <1>1, <1>4, AppendMembers
  <2>3. c2s' = t
    BY <1>4
  <2>4. Ascending(t, Qos0Publishes)
    BY <1>1, <1>3, <1>4, <2>1, AscendingAppend DEF OncePerPublish
  <2> HIDE DEF t
  <2>5. OneSession'
    BY <1>1, <1>2, <2>1, <2>2, <2>3 DEF OneSession
  <2>6. OncePerPublish'
    <3>1. m <= issued'
      BY <1>2
    <3> QED BY <1>1, <1>2, <1>3, <2>1, <2>2, <2>3, <2>4, <3>1 DEF OncePerPublish
  <2> QED BY <2>5, <2>6
<1>5. ASSUME UNCHANGED c2s PROVE OneSession' /\ OncePerPublish'
  BY <1>1, <1>2, <1>3, <1>5 DEF OneSession, OncePerPublish
<1>6. ASSUME UNCHANGED store PROVE OncePerEntry'
  BY <1>1, <1>2, <1>3, <1>6 DEF OncePerEntry, Entries
<1>7. ASSUME NEW p, NEW e, e = Entry(p, FirstAnswer(m), m), e \in StoreEntries,
             store' = Append(store, e)
      PROVE  OncePerEntry'
  <2>1. e.msg = m
    BY <1>7 DEF Entry
  <2>2. Entries' = Entries \union {e}
    BY <1>1, <1>7, EntryAdded
  <2>3. \A f \in Entries : f.msg # m
    BY <1>2, <1>3
  <2> QED BY <1>1, <1>2, <1>3, <2>1, <2>2, <2>3 DEF OncePerEntry
<1> QED BY <1>2, <1>4, <1>5, <1>6, <1>7 DEF Once

(* The broker reads *)
LEMMA BrokerOnce == ASSUME RInv, Lasting, BrokerReads PROVE Once'
<1>1. PICK x, p, m : x = Head(c2s) /\ p = x.pid /\ m = x.msg
  OBVIOUS
<1>2. /\ XInv /\ OInv /\ OncePerEntry /\ OneSession /\ OncePerPublish
      /\ c2s \in Seq(PacketsToReceiver) /\ delivered \in Seq(Messages) /\ Traffic
      /\ Entries \subseteq StoreEntries /\ issued \in Nat
      /\ \A e, f \in Entries : e.pid = f.pid => e = f
  BY EntriesOne DEF RInv, Once, OInv, DInv, XInv, Exchanges, IInv, TypeOK, ToReceiver,
                    ReceiverTypes, SenderTypes
<1>3. /\ c2s # <<>> /\ c2s' = Tail(c2s) /\ x \in ToSet(c2s) /\ x \in PacketsToReceiver
      /\ UNCHANGED <<conn, store, sendQueue, issued>>
      /\ \/ /\ x.type = "connect" /\ UNCHANGED delivered
            /\ session \in {"none", "offline"}
            /\ \E present \in BOOLEAN :
                 /\ present <=> session = "offline" /\ ~x.clean
                 /\ session' = (IF present THEN "resuming" ELSE "live")
                 /\ handled' = IF present THEN handled ELSE {}
         \/ /\ session = "live" /\ session' = "live"
            /\ \/ /\ x.type = "publish" /\ Qos[m] \in {0, 1} /\ UNCHANGED handled
                  /\ delivered' = (IF m \in Denied THEN delivered ELSE Append(delivered, m))
               \/ UNCHANGED <<handled, delivered>>
               \/ /\ x.type = "publish" /\ Qos[m] = 2 /\ p \notin handled
                  /\ handled' = (IF m \in Denied THEN handled ELSE handled \union {p})
                  /\ delivered' = (IF m \in Denied THEN delivered ELSE Append(delivered, m))
               \/ x.type = "pubrel" /\ handled' = handled \ {p} /\ UNCHANGED delivered
  BY <1>1, <1>2, BrokerEffect
<1>4. Entries' = Entries
  BY <1>3 DEF Entries
<1>5. /\ ToSet(c2s) = ToSet(c2s') \union {x}
      /\ Ascending(c2s', Qos0Publishes)
      /\ x \in Qos0Publishes => \A z \in ToSet(c2s') : z \in Qos0Publishes => m < z.msg
  BY <1>1, <1>2, <1>3, TailMembers, AscendingTail DEF OncePerPublish
<1>6. x.type = "publish" /\ Qos[m] # 0 =>
         \E e \in Entries : e.pid = p /\ e.msg = m /\ e.awaits = FirstAnswer(m)
  <2> SUFFICES ASSUME x.type = "publish", Qos[m] # 0
               PROVE  \E e \in Entries : e.pid = p /\ e.msg = m /\ e.awaits = FirstAnswer(m)
    OBVIOUS
  <2>1. Entry(p, FirstAnswer(m), m) \in Entries
    BY <1>1, <1>2, <1>3 DEF Traffic, Asked
  <2> QED BY <2>1 DEF Entry
<1>7. x.type = "publish" => m \in Messages /\ m <= issued
  <2>1. CASE Qos[m] = 0
    BY <1>1, <1>2, <1>3, <2>1, Qos0Is DEF OncePerPublish
  <2>2. CASE Qos[m] # 0
    BY <1>1, <1>2, <1>3, <2>2, KnownIssued, Qos0Is
  <2> QED BY <2>1, <2>2
<1>8. CASE UNCHANGED <<handled, delivered>>
  <2>1. session' = "none" => session = "none"
    BY <1>3
  <2> QED BY <1>2, <1>3, <1>4, <1>5, <1>8, <2>1, OnceKept DEF OncePerEntry
<1>9. CASE x.type = "connect" /\ UNCHANGED delivered /\ session = "none" /\ session' # "none"
  <2>1. delivered' = <<>> /\ ToSet(delivered)' = {}
    BY <1>2, <1>9, NothingCarried DEF OneSession
  <2>2. OncePerEntry'
    BY <1>2, <1>4, <2>1 DEF OncePerEntry
  <2>3. OneSession'
    BY <2>1, <1>2, <1>5 DEF OneSession
  <2>4. OncePerPublish'
    BY <1>2, <1>3, <1>5, <2>1 DEF OncePerPublish
  <2> QED BY <2>2, <2>3, <2>4 DEF Once
<1>10. CASE x.type = "pubrel" /\ handled' = handled \ {p} /\ UNCHANGED delivered
            /\ session' = "live"
  <2>1. \A e \in Entries : e.pid = p => e.awaits = "pubcomp"
    BY <1>1, <1>2, <1>3, <1>10 DEF Traffic, Asked
  <2>2. OncePerEntry'
    BY <1>2, <1>3, <1>4, <1>10, <2>1 DEF OncePerEntry
  <2>3. OneSession'
    BY <1>2, <1>5, <1>10 DEF OneSession
  <2>4. OncePerPublish'
    BY <1>2, <1>3, <1>5, <1>10 DEF OncePerPublish
  <2> QED BY <2>2, <2>3, <2>4 DEF Once
<1>11. CASE /\ x.type = "publish" /\ m \notin Denied /\ delivered' = Append(delivered, m)
            /\ session' = "live"
            /\ \/ Qos[m] \in {0, 1} /\ UNCHANGED handled
               \/ Qos[m] = 2 /\ handled' = handled \union {p}
  <2>1. ToSet(delivered)' = ToSet(delivered) \union {m}
    BY <1>2, <1>7, <1>11, DeliveredMore
  <2>2. ASSUME NEW e \in Entries, e.awaits = "pubrec", e.msg = m PROVE e.pid \in handled'
    <3>1. Qos[m] = 2
      BY <1>2, <2>2, MessagesHaveQos DEF StoreEntries
    <3> QED BY <1>2, <1>6, <1>11, <2>2, <3>1 DEF OncePerEntry
  <2>3. OncePerEntry'
    BY <1>2, <1>3, <1>4, <1>7, <1>11, <2>1, <2>2 DEF OncePerEntry
  <2>4. OneSession'
    BY <1>2, <1>5, <1>11 DEF OneSession
  <2>5. OncePerPublish'
    <3> SUFFICES ASSUME NEW z \in ToSet(c2s'), z \in Qos0Publishes PROVE z.msg # m
      BY <1>2, <1>3, <1>5, <2>1 DEF OncePerPublish
    <3>1. CASE Qos[m] = 0
      <4>1. m < z.msg /\ z.msg \in Messages
        BY <1>1, <1>2, <1>3, <1>5, <1>11, <3>1, Qos0Is, MembersTyped
      <4> QED BY <1>7, <1>11, <4>1 DEF Messages
    <3>2. CASE Qos[m] # 0
      BY <3>2 DEF Qos0Publishes
    <3> QED BY <3>1, <3>2
  <2> QED BY <2>3, <2>4, <2>5 DEF Once
<1>12. CASE x.type = "connect" /\ session = "offline"
  BY <1>2, <1>3, <1>8, <1>12 DEF OneSession
<1> QED BY <1>3, <1>8, <1>9, <1>10, <1>11, <1>12

(* The client reads *)
LEMMA ClientOnce == ASSUME RInv, ClientReads PROVE Once'
<1>1. PICK y, p : y = Head(s2c) /\ p = y.pid
  OBVIOUS
<1>2. /\ XInv /\ OInv /\ OncePerEntry /\ OneSession /\ OncePerPublish
      /\ c2s \in Seq(PacketsToReceiver) /\ store \in Seq(StoreEntries)
      /\ Entries \subseteq StoreEntries
  BY EntriesOne DEF RInv, Once, OInv, DInv, XInv, IInv, TypeOK, ToReceiver, SenderTypes
<1>3. /\ UNCHANGED <<issued, delivered, handled>>
      /\ \/ /\ conn = "connecting" /\ c2s = <<>>
            /\ ResendStore \/ ClearSessionData
         \/ /\ conn = "connected" /\ UNCHANGED conn
            /\ \/ UNCHANGED <<store, sendQueue, c2s>>
               \/ /\ \E e \in Entries :
                       /\ e.pid = p
                       /\ store' = Append(Erased(store, p), Entry(p, "pubcomp", e.msg))
                       /\ Entry(p, "pubcomp", e.msg) \in StoreEntries
                  /\ c2s' = Append(c2s, PubrelPacket(p))
                  /\ PubrelPacket(p) \in PacketsToReceiver
               \/ /\ \E e \in Entries : e.pid = p
                  /\ store' = Erased(store, p)
                  /\ Advanced
  BY <1>1, <1>2, ClientEffect
<1>4. session' = "none" => session = "none"
  BY DEF ClientReads, AnswerWritten
<1>5. ASSUME NEW x \in PacketsToReceiver, c2s' = Append(c2s, x), x \notin Qos0Publishes,
             x.type # "connect"
      PROVE  /\ Ascending(c2s', Qos0Publishes)
             /\ \A z \in ToSet(c2s') :
                   \/ z \in ToSet(c2s)
                   \/ z \notin Qos0Publishes /\ (z.type = "connect" => ~z.clean)
  <2> DEFINE t == Append(c2s, x)
  <2>1. ToSet(t) = ToSet(c2s) \union {x}
    BY <1>2, <1>5, AppendMembers
  <2>2. c2s' = t
    BY <1>5
  <2>3. Ascending(t, Qos0Publishes)
    BY <1>2, <1>5, AscendingAppend DEF OncePerPublish
  <2> HIDE DEF t
  <2> QED BY <1>5, <2>1, <2>2, <2>3
<1>6. CASE UNCHANGED <<store, c2s>>
  BY <1>2, <1>3, <1>4, <1>6, OnceKept DEF OncePerEntry, OncePerPublish, Entries
<1>7. ASSUME conn = "connecting", c2s = <<>>, ResendStore PROVE Once'
  <2>1. UNCHANGED store
    BY <1>7 DEF ResendStore
  <2> DEFINE sent    == Picked((DOMAIN store \ StoredPublishes) \union LetOut)
             packets == [k \in DOMAIN sent |-> StoredPacket(sent[k])]
  <2>2. c2s' = Written(packets)
    BY <1>7 DEF ResendStore
  <2>3. \A k \in DOMAIN sent : sent[k] \in StoreEntries
    <3>1. Distinct(store) /\ (DOMAIN store \ StoredPublishes) \union LetOut \in SUBSET DOMAIN store
      BY <1>2, PidsConsistentParts DEF XInv, IInv, LetOut, StoredPublishes
    <3>2. ToSet(sent) \subseteq StoreEntries
      BY <1>2, <3>1, PickedApart
    <3> QED BY <3>2 DEF ToSet
  <2>4. PICK n \in Nat : DOMAIN sent = 1..n
    <3>1. Distinct(store) /\ (DOMAIN store \ StoredPublishes) \union LetOut \in SUBSET DOMAIN store
      BY <1>2, PidsConsistentParts DEF XInv, IInv, LetOut, StoredPublishes
    <3> QED BY <1>2, <3>1, PickedApart
  <2> HIDE DEF sent
  <2>5. ASSUME NEW e \in StoreEntries
        PROVE  /\ StoredPacket(e) \in PacketsToReceiver /\ StoredPacket(e) \notin Qos0Publishes
               /\ StoredPacket(e).type # "connect"
    <3>1. e.pid \in Pids /\ e.msg \in Messages /\ Qos[e.msg] # 0
      BY DEF StoreEntries
    <3>2. StoredPacket(e) \in PacketsToReceiver
      BY <3>1, PacketsWritten DEF StoredPacket
    <3>3. StoredPacket(e).type # "connect" /\ StoredPacket(e) \notin Qos0Publishes
      BY <3>1 DEF StoredPacket, PublishPacket, PubrelPacket, Qos0Publishes, PublishPackets
    <3> QED BY <3>2, <3>3
  <2>6. c2s' = packets /\ packets \in Seq(PacketsToReceiver)
    <3>1. packets \in [1..n -> PacketsToReceiver]
      BY <2>3, <2>4, <2>5
    <3> HIDE DEF packets
    <3>2. packets \in Seq(PacketsToReceiver)
      BY <2>4, <3>1, FunctionsAreSequences
    <3> QED BY <1>7, <2>2, <3>2, ConcatEmptySeq DEF Written
  <2>7. \A k \in DOMAIN packets : packets[k] \notin Qos0Publishes /\ packets[k].type # "connect"
    BY <2>3, <2>5
  <2> HIDE DEF packets
  <2>8. Ascending(c2s', Qos0Publishes)
    BY <2>6, <2>7 DEF Ascending, Ordered
  <2>9. \A z \in ToSet(c2s') : z \notin Qos0Publishes /\ z.type # "connect"
    BY <2>6, <2>7 DEF ToSet
  <2> QED BY <1>2, <1>3, <1>4, <2>1, <2>8, <2>9, OnceKept DEF OncePerEntry, Entries
<1>8. ASSUME ClearSessionData PROVE Once'
  <2>1. store' = <<>> /\ UNCHANGED c2s
    BY <1>8 DEF ClearSessionData
  <2>2. Entries' = {}
    BY <2>1, NothingCarried DEF Entries
  <2> QED BY <1>2, <1>3, <1>4, <2>1, <2>2, OnceKept DEF OncePerPublish
<1>9. ASSUME NEW e \in Entries, e.pid = p, NEW f, f = Entry(p, "pubcomp", e.msg),
             store' = Append(Erased(store, p), f), f \in StoreEntries,
             c2s' = Append(c2s, PubrelPacket(p)), PubrelPacket(p) \in PacketsToReceiver
      PROVE  Once'
  <2>1. Entries' = (Entries \ {e}) \union {f}
    BY <1>2, <1>9, EntryReplaced
  <2>2. f.msg = e.msg /\ f.awaits = "pubcomp"
    BY <1>9 DEF Entry
  <2>3. PubrelPacket(p) \notin Qos0Publishes /\ PubrelPacket(p).type # "connect"
    BY DEF PubrelPacket, Qos0Publishes, PublishPackets
  <2>4. \A g, h \in Entries' : g.msg = h.msg => g = h
    BY <1>2, <2>1, <2>2 DEF OncePerEntry
  <2>5. \A g \in Entries' : g \in Entries \/ g.awaits = "pubcomp"
    BY <2>1, <2>2
  <2>6. /\ Ascending(c2s', Qos0Publishes)
        /\ \A z \in ToSet(c2s') :
              \/ z \in ToSet(c2s)
              \/ z \notin Qos0Publishes /\ (z.type = "connect" => ~z.clean)
    BY <1>5, <1>9, <2>3
  <2> QED BY <1>3, <1>4, <2>4, <2>5, <2>6, OnceKept
<1>10. ASSUME NEW e \in Entries, e.pid = p, store' = Erased(store, p), Advanced PROVE Once'
  <2>1. Entries' = Entries \ {e}
    BY <1>2, <1>10, EntryErased DEF Entries
  <2>2. /\ Ascending(c2s', Qos0Publishes)
        /\ \A z \in ToSet(c2s') :
              \/ z \in ToSet(c2s)
              \/ z \notin Qos0Publishes /\ (z.type = "connect" => ~z.clean)
    <3>1. CASE UNCHANGED c2s
      BY <1>2, <3>1 DEF OncePerPublish
    <3>2. ASSUME NEW h \in QueueEntries, c2s' = Append(c2s, PublishPacket(h.pid, h.msg)),
                 PublishPacket(h.pid, h.msg) \in PacketsToReceiver
          PROVE  /\ Ascending(c2s', Qos0Publishes)
                 /\ \A z \in ToSet(c2s') :
                       \/ z \in ToSet(c2s)
                       \/ z \notin Qos0Publishes /\ (z.type = "connect" => ~z.clean)
      <4>1. PublishPacket(h.pid, h.msg).type # "connect"
            /\ PublishPacket(h.pid, h.msg) \notin Qos0Publishes
        BY DEF PublishPacket, Qos0Publishes, QueueEntries
      <4> QED BY <1>5, <3>2, <4>1
    <3> QED BY <1>10, <3>1, <3>2 DEF Advanced
  <2> QED BY <1>2, <1>3, <1>4, <2>1, <2>2, OnceKept DEF OncePerEntry
<1> QED BY <1>3, <1>6, <1>7, <1>8, <1>9, <1>10

LEMMA NextOnce == ASSUME RInv, ~AnyTime, Lasting, [Next]_vars PROVE RInv'
<1>1. OInv'
  BY NextOrder DEF RInv
<1>2. Once'
  <2>1. CASE ApplicationPublishes
    BY <2>1, PublishOnce
  <2>2. CASE ApplicationSubscribes
    BY <2>2, SubscribeOnce
  <2>3. CASE BrokerReads
    BY <2>3, BrokerOnce
  <2>4. CASE ClientReads
    BY <2>4, ClientOnce
  <2>5. CASE ConnectionCloses \/ ClientConnects \/ SessionIsDropped \/ UNCHANGED vars
    BY <2>5, QuietOnce
  <2> QED BY <2>1, <2>2, <2>3, <2>4, <2>5 DEF Next
<1> QED BY <1>1, <1>2 DEF RInv

(* Step by step: what each action is to ReliableDelivery *)
LEMMA OwedIs == StoreMessages = {e.msg : e \in Entries}
BY DEF StoreMessages, Entries, ToSet

LEMMA OwedNext == StoreMessages' = {e.msg : e \in Entries'}
BY DEF StoreMessages, Entries, ToSet

LEMMA ForwardedIs == \A m : Promise!WasForwarded(m) <=> m \in ToSet(delivered)
BY DEF Promise!WasForwarded, ToSet

LEMMA StutterPromise ==
    ASSUME UNCHANGED <<issued, store, delivered>> PROVE UNCHANGED Promise!vars
BY DEF Promise!vars, StoreMessages

LEMMA PublishPromise == ASSUME RInv, ~AnyTime, ApplicationPublishes PROVE Promise!Publish
<1>1. /\ XInv /\ issued < Len(Qos)
  BY DEF RInv, OInv, DInv, ApplicationPublishes, Publish
<1>2. PICK m \in Messages :
        /\ m = issued + 1 /\ issued' = m /\ UNCHANGED delivered
        /\ \/ Qos[m] = 0 /\ UNCHANGED store
           \/ /\ Qos[m] \in 1..2
              /\ \E p \in Pids :
                   /\ Entry(p, FirstAnswer(m), m) \in StoreEntries
                   /\ store' = Append(store, Entry(p, FirstAnswer(m), m))
  BY <1>1, PublishEffect
<1>3. CASE Qos[m] = 0 /\ UNCHANGED store
  <2>1. StoreMessages' = StoreMessages
    BY <1>3 DEF StoreMessages
  <2> QED BY <1>1, <1>2, <1>3, <2>1 DEF Promise!Publish
<1>4. ASSUME Qos[m] \in 1..2, NEW p, NEW e, e = Entry(p, FirstAnswer(m), m), e \in StoreEntries,
             store' = Append(store, e)
      PROVE  Promise!Publish
  <2>1. Entries' = Entries \union {e} /\ e.msg = m
    BY <1>1, <1>4, EntryAdded DEF Entry
  <2>2. StoreMessages' = StoreMessages \union {m}
    BY <2>1, OwedIs, OwedNext
  <2> QED BY <1>1, <1>2, <1>4, <2>2 DEF Promise!Publish
<1> QED BY <1>2, <1>3, <1>4

(* The broker forwards the message of the publish it reads, or nothing. *)
LEMMA BrokerPromise == ASSUME RInv, BrokerReads PROVE [Promise!Next]_(Promise!vars)
<1>1. PICK x, p, m : x = Head(c2s) /\ p = x.pid /\ m = x.msg
  OBVIOUS
<1>2. /\ XInv /\ OInv /\ OncePerEntry /\ OncePerPublish /\ EntriesReached
      /\ Traffic /\ issued \in Nat
  BY DEF RInv, Once, OInv, DInv, Known, XInv, Exchanges, IInv, TypeOK, SenderTypes
<1>3. /\ x \in ToSet(c2s) /\ x \in PacketsToReceiver
      /\ UNCHANGED <<store, issued>>
      /\ \/ UNCHANGED delivered
         \/ /\ x.type = "publish" /\ (Qos[m] \in {0, 1} \/ (Qos[m] = 2 /\ p \notin handled))
            /\ m \notin Denied /\ delivered' = Append(delivered, m)
  BY <1>1, <1>2, BrokerEffect
<1>4. CASE UNCHANGED delivered
  BY <1>3, <1>4, StutterPromise
<1>5. CASE /\ x.type = "publish" /\ (Qos[m] \in {0, 1} \/ (Qos[m] = 2 /\ p \notin handled))
           /\ m \notin Denied /\ delivered' = Append(delivered, m)
  <2>1. Qos[m] # 0 => \E e \in Entries : e.pid = p /\ e.msg = m /\ e.awaits = FirstAnswer(m)
    <3> SUFFICES ASSUME Qos[m] # 0
                 PROVE  \E e \in Entries : e.pid = p /\ e.msg = m /\ e.awaits = FirstAnswer(m)
      OBVIOUS
    <3>1. Entry(p, FirstAnswer(m), m) \in Entries
      BY <1>1, <1>2, <1>3, <1>5 DEF Traffic, Asked
    <3> QED BY <3>1 DEF Entry
  <2>2. m \in 1..issued
    <3>1. CASE Qos[m] = 0
      <4>1. m \in Messages /\ m <= issued
        BY <1>1, <1>2, <1>3, <1>5, <3>1, Qos0Is DEF OncePerPublish
      <4> QED BY <1>2, <4>1 DEF Messages
    <3>2. CASE Qos[m] # 0
      BY <1>2, <2>1, <3>2 DEF EntriesReached
    <3> QED BY <3>1, <3>2
  <2>3. Qos[m] # 0 => m \in StoreMessages
    BY <2>1, OwedIs
  <2>4. Qos[m] # 1 => ~Promise!WasForwarded(m)
    <3>1. CASE Qos[m] = 0
      BY <1>1, <1>2, <1>3, <1>5, <3>1, Qos0Is, ForwardedIs DEF OncePerPublish
    <3>2. CASE Qos[m] = 2 /\ p \notin handled
      BY <1>2, <2>1, <3>2, ForwardedIs DEF OncePerEntry, FirstAnswer
    <3> QED BY <1>5, <3>1, <3>2
  <2>5. StoreMessages' = StoreMessages
    BY <1>3 DEF StoreMessages
  <2>6. Promise!Forward(m)
    BY <1>3, <1>5, <2>3, <2>4, <2>5 DEF Promise!Forward
  <2> QED BY <2>2, <2>6 DEF Promise!Next
<1> QED BY <1>3, <1>4, <1>5

(* The client settles the message of an answer that ends an exchange, gives up
   all of them when the session was not found, or does nothing. *)
LEMMA ClientPromise == ASSUME RInv, ClientReads PROVE [Promise!Next]_(Promise!vars)
<1>1. PICK y, p : y = Head(s2c) /\ p = y.pid
  OBVIOUS
<1>2. XInv /\ OncePerEntry /\ EntriesReached /\ AnswersReached
  BY DEF RInv, Once, OInv, DInv, Known
<1>3. /\ y \in ToSet(s2c) /\ UNCHANGED <<issued, delivered>>
      /\ \/ ResendStore
         \/ ClearSessionData
         \/ UNCHANGED store
         \/ \E e \in Entries :
              /\ e.pid = p
              /\ store' = Append(Erased(store, p), Entry(p, "pubcomp", e.msg))
              /\ Entry(p, "pubcomp", e.msg) \in StoreEntries
         \/ /\ y.type \in Awaited
            /\ \E e \in Entries : e.pid = p /\ e.awaits = y.type
            /\ store' = Erased(store, p)
  BY <1>1, <1>2, ClientEffect
<1>4. CASE ResendStore \/ UNCHANGED store
  <2>1. UNCHANGED store
    BY <1>4 DEF ResendStore
  <2> QED BY <1>3, <2>1, StutterPromise
<1>5. CASE ClearSessionData
  <2>1. StoreMessages' = {}
    BY <1>5, NothingCarried, OwedNext DEF ClearSessionData, Entries
  <2> QED BY <1>3, <2>1 DEF Promise!GiveUp, Promise!Next
<1>6. ASSUME NEW e \in Entries, e.pid = p, NEW f, f = Entry(p, "pubcomp", e.msg),
             store' = Append(Erased(store, p), f), f \in StoreEntries
      PROVE  UNCHANGED Promise!vars
  <2>1. Entries' = (Entries \ {e}) \union {f} /\ f.msg = e.msg
    BY <1>2, <1>6, EntryReplaced DEF Entry
  <2>2. StoreMessages' = StoreMessages
    BY <2>1, OwedIs, OwedNext
  <2> QED BY <1>3, <2>2 DEF Promise!vars
<1>7. ASSUME NEW e \in Entries, e.pid = p, e.awaits = y.type, y.type \in Awaited,
             store' = Erased(store, p)
      PROVE  Promise!Next
  <2>1. Entries' = Entries \ {e}
    BY <1>2, <1>7, EntryErased DEF Entries
  <2>2. StoreMessages' = StoreMessages \ {e.msg} /\ e.msg \in StoreMessages
    BY <1>2, <2>1, OwedIs, OwedNext DEF OncePerEntry
  <2>3. e.msg \in 1..issued /\ Reached(e.msg)
    BY <1>1, <1>2, <1>3, <1>7 DEF EntriesReached, AnswersReached, Awaited
  <2>4. e.msg \in Denied \/ Promise!WasForwarded(e.msg)
    BY <2>3, ForwardedIs DEF Reached
  <2>5. Promise!Settle(e.msg)
    BY <1>3, <2>2, <2>4 DEF Promise!Settle
  <2> QED BY <2>3, <2>5 DEF Promise!Next
<1> QED BY <1>3, <1>4, <1>5, <1>6, <1>7

LEMMA NextPromise == ASSUME RInv, ~AnyTime, [Next]_vars PROVE [Promise!Next]_(Promise!vars)
<1>1. CASE ApplicationPublishes
  BY <1>1, PublishPromise DEF Promise!Next
<1>2. CASE BrokerReads
  BY <1>2, BrokerPromise
<1>3. CASE ClientReads
  BY <1>3, ClientPromise
<1>4. CASE \/ ApplicationSubscribes \/ ClientConnects \/ ConnectionCloses
           \/ SessionIsDropped \/ UNCHANGED vars
  <2>1. UNCHANGED <<issued, store, delivered>>
    BY <1>4 DEF ApplicationSubscribes, ClientConnects, ConnectionCloses, SessionIsDropped, vars,
                Subscribe, Connect, SenderClose, ReceiverClose, SessionExpires, senderVars,
                receiverVars
  <2> QED BY <2>1, StutterPromise
<1> QED BY <1>1, <1>2, <1>3, <1>4 DEF Next

(* Publishing keeps the promise of ReliableDelivery while the session lasts: a
   QoS 1 or 2 message is settled only after the broker forwarded or refused it,
   QoS 2 and QoS 0 are forwarded once at most, and nothing is forwarded that
   was settled - wherever the connection breaks, whatever is sent again. *)
THEOREM PromiseKept ==
    ASSUME ~AnyTime, CleanStarts = {FALSE}, ~MayExpire
    PROVE  Spec => ImplementsReliableDelivery
<1>1. Init => RInv /\ Promise!Init
  <2>1. Init => RInv
    BY InitXInv, InitKnown, InitOrder, InitOnce DEF RInv, OInv, DInv
  <2>2. Init => Promise!Init
    BY DEF Init, SenderInit, ReceiverInit, Promise!Init, StoreMessages
  <2> QED BY <2>1, <2>2
<1>2. RInv /\ [Next]_vars => RInv'
  BY NextOnce DEF Lasting
<1>3. RInv /\ [Next]_vars => [Promise!Next]_(Promise!vars)
  BY NextPromise
<1> QED BY <1>1, <1>2, <1>3, PTL DEF Spec, ImplementsReliableDelivery, Promise!Spec
=============================================================================
