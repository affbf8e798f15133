------------------------ MODULE BrokerDeliveryProofs ------------------------
(***************************************************************************)
(* Delivery to a subscriber, for every list of messages, set of packet ids *)
(* and Receive Maximum, and wherever the connections break: the inflight   *)
(* messages, the endpoint's store, its window and what is on its way agree *)
(* about each message that is not acknowledged, as long as do_publish does *)
(* not run within the completion of CONNACK's write. What they hold is     *)
(* what OrderedDelivery owes, and it comes in the order of publication.    *)
(***************************************************************************)
EXTENDS BrokerDelivery, EntrySequencesProofs

-----------------------------------------------------------------------------
(* Packets *)

LEMMA MessagesHaveQos == \A m \in Messages : Qos[m] \in 0..2
<1>1. Len(Qos) \in Nat /\ Qos \in [1..Len(Qos) -> 0..2]
  BY PacketsAssumption, LenProperties
<1> QED BY <1>1 DEF Messages

LEMMA PidsAreNotNoPid == \A p \in Pids : p # NoPid
BY PacketsAssumption

(* What the sender writes. *)
LEMMA PacketsWritten ==
    /\ \A clean \in BOOLEAN : ConnectPacket(clean) \in PacketsToReceiver
    /\ \A m \in Messages : Qos[m] = 0 => PublishPacket(NoPid, m) \in PacketsToReceiver
    /\ \A p \in Pids, m \in Messages : Qos[m] # 0 => PublishPacket(p, m) \in PacketsToReceiver
    /\ \A p \in Pids : PubrelPacket(p) \in PacketsToReceiver
    /\ \A p \in Pids : SubscribePacket(p) \in PacketsToReceiver
BY PidsAreNotNoPid DEF ConnectPacket, PublishPacket, PubrelPacket, SubscribePacket,
                       PublishPackets, PacketsToReceiver

(* What the receiver writes. *)
LEMMA PacketsAnswered ==
    /\ \A present \in BOOLEAN : ConnackPacket(present) \in PacketsToSender
    /\ \A p \in Pids, r \in Reasons : PubackPacket(p, r) \in PacketsToSender
    /\ \A p \in Pids, r \in Reasons : PubrecPacket(p, r) \in PacketsToSender
    /\ \A p \in Pids : PubcompPacket(p) \in PacketsToSender
    /\ \A p \in Pids : SubackPacket(p) \in PacketsToSender
BY DEF ConnackPacket, PubackPacket, PubrecPacket, PubcompPacket, SubackPacket, PacketsToSender

(* The fields the handlers may look at. *)
LEMMA PacketsToReceiverFields ==
    ASSUME NEW x \in PacketsToReceiver
    PROVE  /\ x.type = "connect" => x.clean \in BOOLEAN
           /\ x.type = "publish" => /\ x.msg \in Messages
                                    /\ x.pid \in Pids \/ Qos[x.msg] = 0
           /\ x.type \in {"pubrel", "subscribe"} => x.pid \in Pids
BY DEF PacketsToReceiver, PublishPackets

LEMMA PacketsToSenderFields ==
    ASSUME NEW x \in PacketsToSender
    PROVE  /\ x.type = "connack" => x.present \in BOOLEAN
           /\ x.type \in {"puback", "pubrec"} => x.pid \in Pids /\ x.reason \in Reasons
           /\ x.type \in {"pubcomp", "suback"} => x.pid \in Pids
BY DEF PacketsToSender

-----------------------------------------------------------------------------
(* Types *)

Awaited == {"puback", "pubrec", "pubcomp"}

StoreEntries == {e \in [pid : Pids, awaits : Awaited, msg : Messages] :
                    /\ Qos[e.msg] # 0
                    /\ e.awaits = "puback" <=> Qos[e.msg] = 1}

Endpoints == [store : Seq(StoreEntries), pids : SUBSET Pids, count : Nat,
              queue : Seq(StoreEntries), resend : SUBSET Pids, posted : Seq(PacketsToReceiver)]

TypeOK ==
    /\ issued \in 0..Len(Qos)
    /\ net \in {"down", "connack", "up"}
    /\ resuming \in {"none", "inflight", "offline", "sending"}
    /\ walked \in Nat
    /\ attached \in BOOLEAN
    /\ ep \in Endpoints
    /\ inflight \in Seq(StoreEntries)
    /\ offline \in Seq(Messages)
    /\ b2c \in Seq(PacketsToReceiver)
    /\ c2b \in Seq(PacketsToSender)
    /\ handled \subseteq Pids
    /\ received \in Seq(Messages)
    /\ connects \in Nat

-----------------------------------------------------------------------------
(* The invariant, part by part *)

Stored == ToSet(ep.store)

(* An endpoint lives as long as its connection, or until the broker notices
   that the connection is gone; while the inflight messages are sent nothing
   else is under way. *)
Connection ==
    /\ ~attached => ep = NewEndpoint
    /\ net = "up" => attached
    /\ net = "connack" => ~attached
    /\ net # "up" => b2c = <<>> /\ c2b = <<>> /\ ep.posted = <<>>
    /\ resuming # "none" => net = "up"
    /\ resuming = "inflight" => b2c = <<>> /\ c2b = <<>>

(* The inflight messages are sent in order, and each is in the store by the
   time the session goes on to the offline messages. *)
Held ==
    /\ Distinct(inflight) /\ Distinct(ep.store)
    /\ resuming = "inflight" =>
          /\ walked <= Len(inflight) /\ DOMAIN ep.store = 1..walked
          /\ \A i \in 1..walked : ep.store[i] = inflight[i]
    /\ attached /\ resuming # "inflight" => ToSet(inflight) \subseteq Stored

(* A queued publish is a stored one, and queued once; v3.1.1 queues none. *)
Window ==
    /\ Distinct(ep.queue)
    /\ \A e \in ToSet(ep.queue) : e \in Stored /\ IsPublish(e)
    /\ ~V5 => ep.queue = <<>>
    /\ WindowExact

(* A packet to the subscriber asks for what its message's entry waits for; one
   from it is what its message's entry waits for. *)
Asked(x) ==
    /\ x.type \in {"publish", "pubrel"}
    /\ x.type = "publish" /\ Qos[x.msg] # 0 =>
          Entry(x.pid, FirstAnswer(x.msg), x.msg) \in Stored /\ x.pid \notin Queued
    /\ x.type = "pubrel" => \E e \in Stored : e.pid = x.pid /\ e.awaits = "pubcomp"

Expected(x) ==
    /\ x.type \in Awaited
    /\ \E e \in Stored : e.pid = x.pid /\ e.awaits = x.type
    /\ x.pid \notin Queued

(* At most one packet under way carries a given packet id. *)
Traffic ==
    /\ Alone(ep.posted) /\ Alone(b2c) /\ Alone(c2b)
    /\ Carried(ep.posted) \intersect Carried(b2c) = {}
    /\ (Carried(ep.posted) \union Carried(b2c)) \intersect Carried(c2b) = {}
    /\ \A x \in ToSet(ep.posted) \union ToSet(b2c) : Asked(x)
    /\ \A x \in ToSet(c2b) : Expected(x)

BInv == TypeOK /\ Connection /\ Held /\ Window /\ Traffic

-----------------------------------------------------------------------------
(* What the endpoint's operations do to its fields *)

LEMMA NewEndpointType == NewEndpoint \in Endpoints
BY DEF NewEndpoint, Endpoints

LEMMA PostedFields ==
    ASSUME NEW x \in Endpoints, NEW packet \in PacketsToReceiver
    PROVE  /\ Posted(x, packet) \in Endpoints
           /\ Posted(x, packet).store = x.store
           /\ Posted(x, packet).pids = x.pids
           /\ Posted(x, packet).count = x.count
           /\ Posted(x, packet).queue = x.queue
           /\ Posted(x, packet).resend = x.resend
           /\ Posted(x, packet).posted = IF net = "down" THEN x.posted ELSE Append(x.posted, packet)
<1>1. Append(x.posted, packet) \in Seq(PacketsToReceiver)
  BY AppendProperties DEF Endpoints
<1> QED BY <1>1 DEF Posted, Endpoints

LEMMA InsertedType ==
    ASSUME NEW s \in Seq(StoreEntries), NEW e \in StoreEntries
    PROVE  Inserted(s, e) \in Seq(StoreEntries)
BY AppendProperties DEF Inserted

LEMMA PublishSentFields ==
    ASSUME NEW x \in Endpoints, NEW e \in StoreEntries,
           PublishPacket(e.pid, e.msg) \in PacketsToReceiver
    PROVE  LET z == PublishSent(x, e)
           IN  /\ z \in Endpoints
               /\ z.store = Inserted(x.store, e)
               /\ z.pids = x.pids \union {e.pid}
               /\ z.resend = x.resend
               /\ V5 /\ x.count = ReceiveMax =>
                     /\ z.count = x.count
                     /\ z.queue = Append(x.queue, e)
                     /\ z.posted = x.posted
               /\ ~(V5 /\ x.count = ReceiveMax) =>
                     /\ z.count = IF V5 THEN x.count + 1 ELSE x.count
                     /\ z.queue = x.queue
                     /\ z.posted = IF net = "down" THEN x.posted
                                   ELSE Append(x.posted, PublishPacket(e.pid, e.msg))
<1> DEFINE y == [x EXCEPT !.pids = @ \union {e.pid}, !.store = Inserted(@, e)]
           w == [y EXCEPT !.count = IF V5 THEN @ + 1 ELSE @]
           q == [y EXCEPT !.queue = Append(@, e)]
           z == PublishSent(x, e)
<1>1. /\ y \in Endpoints
      /\ y.store = Inserted(x.store, e) /\ y.pids = x.pids \union {e.pid}
      /\ y.count = x.count /\ y.queue = x.queue /\ y.resend = x.resend /\ y.posted = x.posted
  <2>1. Inserted(x.store, e) \in Seq(StoreEntries) /\ e.pid \in Pids
    BY InsertedType DEF Endpoints, StoreEntries
  <2> QED BY <2>1 DEF Endpoints
<1>2. z = IF V5 /\ y.count = ReceiveMax THEN q ELSE Posted(w, PublishPacket(e.pid, e.msg))
  BY DEF PublishSent
<1> HIDE DEF y, z
<1>3. /\ q \in Endpoints
      /\ q.store = y.store /\ q.pids = y.pids /\ q.resend = y.resend /\ q.posted = y.posted
      /\ q.count = y.count /\ q.queue = Append(y.queue, e)
  <2>1. Append(y.queue, e) \in Seq(StoreEntries)
    BY <1>1, AppendProperties DEF Endpoints
  <2> QED BY <1>1, <2>1 DEF Endpoints
<1>4. /\ w \in Endpoints
      /\ w.store = y.store /\ w.pids = y.pids /\ w.resend = y.resend /\ w.posted = y.posted
      /\ w.count = (IF V5 THEN y.count + 1 ELSE y.count) /\ w.queue = y.queue
  <2>1. (IF V5 THEN y.count + 1 ELSE y.count) \in Nat
    BY <1>1 DEF Endpoints
  <2> QED BY <1>1, <2>1 DEF Endpoints
<1> HIDE DEF w, q
<1>5. CASE V5 /\ y.count = ReceiveMax
  <2>1. z = q
    BY <1>2, <1>5
  <2> QED BY <1>1, <1>3, <1>5, <2>1 DEF z
<1>6. CASE ~(V5 /\ y.count = ReceiveMax)
  <2> DEFINE v == Posted(w, PublishPacket(e.pid, e.msg))
  <2>1. z = v
    BY <1>2, <1>6
  <2>2. /\ v \in Endpoints /\ v.store = w.store /\ v.pids = w.pids /\ v.count = w.count
        /\ v.queue = w.queue /\ v.resend = w.resend
        /\ v.posted = IF net = "down" THEN w.posted
                      ELSE Append(w.posted, PublishPacket(e.pid, e.msg))
    BY <1>4, PostedFields
  <2> HIDE DEF v
  <2> QED BY <1>1, <1>4, <1>6, <2>1, <2>2 DEF z
<1> QED BY <1>5, <1>6

LEMMA PubrelResentFields ==
    ASSUME NEW x \in Endpoints, NEW e \in StoreEntries,
           PubrelPacket(e.pid) \in PacketsToReceiver
    PROVE  LET z == PubrelResent(x, e)
           IN  /\ z \in Endpoints
               /\ z.store = Inserted(x.store, e)
               /\ z.pids = x.pids \union {e.pid}
               /\ z.resend = IF V5 THEN x.resend \union {e.pid} ELSE x.resend
               /\ z.count = x.count /\ z.queue = x.queue
               /\ z.posted = IF net = "down" THEN x.posted
                             ELSE Append(x.posted, PubrelPacket(e.pid))
<1> DEFINE y == [x EXCEPT !.pids = @ \union {e.pid}, !.store = Inserted(@, e),
                          !.resend = IF V5 THEN @ \union {e.pid} ELSE @]
           z == PubrelResent(x, e)
           v == Posted(y, PubrelPacket(e.pid))
<1>1. /\ y \in Endpoints
      /\ y.store = Inserted(x.store, e) /\ y.pids = x.pids \union {e.pid}
      /\ y.resend = (IF V5 THEN x.resend \union {e.pid} ELSE x.resend)
      /\ y.count = x.count /\ y.queue = x.queue /\ y.posted = x.posted
  <2>1. Inserted(x.store, e) \in Seq(StoreEntries) /\ e.pid \in Pids
    BY InsertedType DEF Endpoints, StoreEntries
  <2> QED BY <2>1 DEF Endpoints
<1>2. z = v
  BY DEF PubrelResent
<1> HIDE DEF y, z
<1>3. /\ v \in Endpoints /\ v.store = y.store /\ v.pids = y.pids /\ v.count = y.count
      /\ v.queue = y.queue /\ v.resend = y.resend
      /\ v.posted = IF net = "down" THEN y.posted ELSE Append(y.posted, PubrelPacket(e.pid))
  BY <1>1, PostedFields
<1> HIDE DEF v
<1> QED BY <1>1, <1>2, <1>3 DEF z

LEMMA WithoutOne ==
    ASSUME NEW s \in Seq(StoreEntries), Distinct(s), NEW p
    PROVE  /\ Without(s, p) \in Seq(StoreEntries)
           /\ Distinct(Without(s, p))
           /\ ToSet(Without(s, p)) = {e \in ToSet(s) : e.pid # p}
<1>1. CASE p \in PidsOf(s)
  <2>1. HasPid(s, p)
    BY <1>1 DEF PidsOf, HasPid
  <2>2. Without(s, p) = Erased(s, p)
    BY <2>1 DEF Without
  <2> QED BY <1>1, <2>2, ErasedOne, ErasedEntries
<1>2. CASE p \notin PidsOf(s)
  <2>1. ~HasPid(s, p) /\ \A e \in ToSet(s) : e.pid # p
    BY <1>2 DEF PidsOf, HasPid, ToSet
  <2> QED BY <2>1 DEF Without
<1> QED BY <1>1, <1>2

LEMMA InsertedOne ==
    ASSUME NEW s \in Seq(StoreEntries), Distinct(s), NEW e \in StoreEntries,
           e.pid \notin PidsOf(s)
    PROVE  /\ Inserted(s, e) = Append(s, e)
           /\ Inserted(s, e) \in Seq(StoreEntries)
           /\ Distinct(Inserted(s, e))
           /\ ToSet(Inserted(s, e)) = ToSet(s) \union {e}
<1>1. Inserted(s, e) = Append(s, e)
  BY DEF Inserted, HasPid, PidsOf
<1> QED BY <1>1, AppendedOne, AppendMembers

LEMMA AcknowledgedFields ==
    ASSUME NEW x \in Endpoints, Distinct(x.store), NEW p
    PROVE  LET z == Acknowledged(x, p)
           IN  /\ z \in Endpoints
               /\ z.store = Without(x.store, p)
               /\ z.pids = x.pids \ {p}
               /\ z.count = x.count /\ z.queue = x.queue
               /\ z.resend = x.resend /\ z.posted = x.posted
<1>1. Without(x.store, p) \in Seq(StoreEntries)
  BY WithoutOne DEF Endpoints
<1> QED BY <1>1 DEF Acknowledged, Endpoints

LEMMA SlotReleasedFields ==
    ASSUME NEW x \in Endpoints,
           V5 /\ x.queue = <<>> => x.count # 0,
           x.queue # <<>> => PublishPacket(Head(x.queue).pid, Head(x.queue).msg) \in PacketsToReceiver
    PROVE  LET z == SlotReleased(x)
           IN  /\ z \in Endpoints
               /\ z.store = x.store /\ z.pids = x.pids /\ z.resend = x.resend
               /\ ~V5 => z = x
               /\ V5 /\ x.queue = <<>> =>
                     z.count = x.count - 1 /\ z.queue = x.queue /\ z.posted = x.posted
               /\ V5 /\ x.queue # <<>> =>
                     /\ z.count = x.count
                     /\ z.queue = Tail(x.queue)
                     /\ z.posted = IF net = "down" THEN x.posted
                                   ELSE Append(x.posted, PublishPacket(Head(x.queue).pid,
                                                                       Head(x.queue).msg))
<1> DEFINE z == SlotReleased(x)
<1>1. CASE ~V5
  BY <1>1 DEF SlotReleased
<1>2. CASE V5 /\ x.queue = <<>>
  <2>1. x.count - 1 \in Nat
    BY <1>2 DEF Endpoints
  <2>2. z = [x EXCEPT !.count = @ - 1]
    BY <1>2 DEF SlotReleased
  <2> QED BY <1>2, <2>1, <2>2 DEF Endpoints
<1>3. CASE V5 /\ x.queue # <<>>
  <2> DEFINE h == Head(x.queue)
             y == [x EXCEPT !.queue = Tail(@)]
             v == Posted(y, PublishPacket(h.pid, h.msg))
  <2>1. Tail(x.queue) \in Seq(StoreEntries)
    BY <1>3, HeadTailProperties DEF Endpoints
  <2>2. /\ y \in Endpoints
        /\ y.store = x.store /\ y.pids = x.pids /\ y.count = x.count
        /\ y.queue = Tail(x.queue) /\ y.resend = x.resend /\ y.posted = x.posted
    BY <2>1 DEF Endpoints
  <2>3. z = v
    BY <1>3 DEF SlotReleased
  <2> HIDE DEF y, z
  <2>4. /\ v \in Endpoints /\ v.store = y.store /\ v.pids = y.pids /\ v.count = y.count
        /\ v.queue = y.queue /\ v.resend = y.resend
        /\ v.posted = IF net = "down" THEN y.posted
                      ELSE Append(y.posted, PublishPacket(h.pid, h.msg))
    BY <1>3, <2>2, PostedFields
  <2> HIDE DEF v
  <2> QED BY <1>3, <2>2, <2>3, <2>4 DEF z
<1> QED BY <1>1, <1>2, <1>3

LEMMA PubrelSentFields ==
    ASSUME NEW x \in Endpoints, Distinct(x.store), NEW p \in Pids, NEW e \in StoreEntries,
           PubrelPacket(p) \in PacketsToReceiver
    PROVE  LET z == Posted([x EXCEPT !.store = Append(Without(@, p), e)], PubrelPacket(p))
           IN  /\ z \in Endpoints
               /\ z.store = Append(Without(x.store, p), e)
               /\ z.pids = x.pids /\ z.count = x.count /\ z.queue = x.queue /\ z.resend = x.resend
               /\ z.posted = IF net = "down" THEN x.posted ELSE Append(x.posted, PubrelPacket(p))
<1> DEFINE y == [x EXCEPT !.store = Append(Without(@, p), e)]
           v == Posted(y, PubrelPacket(p))
<1>1. Append(Without(x.store, p), e) \in Seq(StoreEntries)
  BY WithoutOne, AppendProperties DEF Endpoints
<1>2. /\ y \in Endpoints
      /\ y.store = Append(Without(x.store, p), e)
      /\ y.pids = x.pids /\ y.count = x.count /\ y.queue = x.queue
      /\ y.resend = x.resend /\ y.posted = x.posted
  BY <1>1 DEF Endpoints
<1> HIDE DEF y
<1>3. /\ v \in Endpoints /\ v.store = y.store /\ v.pids = y.pids /\ v.count = y.count
      /\ v.queue = y.queue /\ v.resend = y.resend
      /\ v.posted = IF net = "down" THEN y.posted ELSE Append(y.posted, PubrelPacket(p))
  BY <1>2, PostedFields
<1> HIDE DEF v
<1> QED BY <1>2, <1>3 DEF v, y

-----------------------------------------------------------------------------
(* What the invariant says of packet ids *)

LEMMA PidsAre ==
    ASSUME NEW S, NEW s \in Seq(S)
    PROVE  PidsOf(s) = {e.pid : e \in ToSet(s)}
BY DEF PidsOf, ToSet

LEMMA EndpointFacts ==
    ASSUME BInv
    PROVE  /\ ep \in Endpoints
           /\ ep.store \in Seq(StoreEntries) /\ ep.queue \in Seq(StoreEntries)
           /\ ep.posted \in Seq(PacketsToReceiver)
           /\ ep.pids \subseteq Pids /\ ep.resend \subseteq Pids /\ ep.count \in Nat
           /\ Distinct(ep.store) /\ Distinct(ep.queue)
           /\ Stored \subseteq StoreEntries /\ IsFiniteSet(Stored)
           /\ ToSet(ep.queue) \subseteq Stored
           /\ \A e \in ToSet(ep.queue) : IsPublish(e)
           /\ Queued = {e.pid : e \in ToSet(ep.queue)}
           /\ PidsOf(ep.store) = ep.pids
           /\ ep.pids = {e.pid : e \in Stored}
           /\ \A e, f \in Stored : e.pid = f.pid => e = f
           /\ \A e \in Stored : e.pid \in Queued <=> e \in ToSet(ep.queue)
<1>1. /\ ep \in Endpoints
      /\ ep.store \in Seq(StoreEntries) /\ ep.queue \in Seq(StoreEntries)
      /\ ep.posted \in Seq(PacketsToReceiver)
      /\ ep.pids \subseteq Pids /\ ep.resend \subseteq Pids /\ ep.count \in Nat
  BY DEF BInv, TypeOK, Endpoints
<1>2. /\ Distinct(ep.store) /\ Distinct(ep.queue)
      /\ \A e \in ToSet(ep.queue) : e \in Stored /\ IsPublish(e)
      /\ ep.pids = {e.pid : e \in Stored}
  BY DEF BInv, Held, Window, WindowExact, Stored
<1>3. Stored \subseteq StoreEntries /\ IsFiniteSet(Stored)
  BY <1>1, MembersTyped, MembersFinite DEF Stored
<1>4. Queued = {e.pid : e \in ToSet(ep.queue)}
  BY DEF Queued, ToSet
<1>5. PidsOf(ep.store) = ep.pids
  BY <1>1, <1>2, PidsAre DEF Stored
<1>6. ASSUME NEW e \in Stored, NEW f \in Stored, e.pid = f.pid PROVE e = f
  BY <1>2, <1>6 DEF Stored, ToSet, Distinct
<1>7. ASSUME NEW e \in Stored, e.pid \in Queued PROVE e \in ToSet(ep.queue)
  <2>1. PICK f \in ToSet(ep.queue) : f.pid = e.pid
    BY <1>4, <1>7
  <2> QED BY <1>2, <1>6, <2>1
<1> QED BY <1>1, <1>2, <1>3, <1>4, <1>5, <1>6, <1>7

(* The packets under way are packets of the messages stored, and of none that
   is queued. *)
LEMMA UnderWayStored ==
    ASSUME BInv
    PROVE  /\ \A p \in Carried(ep.posted) \union Carried(b2c) \union Carried(c2b) :
                 p \in ep.pids /\ p \notin Queued
           /\ \A x \in ToSet(ep.posted) \union ToSet(b2c) : x \in PacketsToReceiver
           /\ \A x \in ToSet(c2b) : x \in PacketsToSender
<1>1. /\ ep.posted \in Seq(PacketsToReceiver) /\ b2c \in Seq(PacketsToReceiver)
      /\ c2b \in Seq(PacketsToSender)
  BY EndpointFacts DEF BInv, TypeOK
<1>2. /\ \A x \in ToSet(ep.posted) \union ToSet(b2c) : x \in PacketsToReceiver /\ Asked(x)
      /\ \A x \in ToSet(c2b) : x \in PacketsToSender /\ Expected(x)
  BY <1>1, MembersTyped DEF BInv, Traffic
<1>3. ASSUME NEW x \in PacketsToReceiver, Asked(x), Numbered(x)
      PROVE  x.pid \in ep.pids /\ x.pid \notin Queued
  <2>1. CASE x.type = "publish"
    <3>1. Qos[x.msg] # 0
      BY <1>3, <2>1 DEF Numbered, PacketsToReceiver, PublishPackets
    <3>2. Entry(x.pid, FirstAnswer(x.msg), x.msg) \in Stored /\ x.pid \notin Queued
      BY <1>3, <2>1, <3>1 DEF Asked
    <3>3. Entry(x.pid, FirstAnswer(x.msg), x.msg).pid = x.pid
      BY DEF Entry
    <3> QED BY <3>2, <3>3, EndpointFacts
  <2>2. CASE x.type = "pubrel"
    <3>1. PICK e \in Stored : e.pid = x.pid /\ e.awaits = "pubcomp"
      BY <1>3, <2>2 DEF Asked
    <3>2. e \notin ToSet(ep.queue)
      BY <3>1, EndpointFacts DEF IsPublish
    <3> QED BY <3>1, <3>2, EndpointFacts
  <2> QED BY <1>3, <2>1, <2>2 DEF Asked
<1>4. ASSUME NEW x \in ToSet(c2b) PROVE x.pid \in ep.pids /\ x.pid \notin Queued
  BY <1>2, EndpointFacts DEF Expected
<1> QED BY <1>2, <1>3, <1>4 DEF Carried

-----------------------------------------------------------------------------
(* The window *)

(* The messages that hold a slot, by the queue and the pubrels resent. *)
Holders(stored, queued, resent) ==
    {e \in stored : e.pid \notin (IF IsPublish(e) THEN queued ELSE resent)}

Exact(pids, stored, queue, queued, count, resent) ==
    /\ pids = {e.pid : e \in stored}
    /\ V5 => /\ Cardinality(Holders(stored, queued, resent)) <= count
             /\ count <= ReceiveMax
             /\ resent = {} => ~(count > Cardinality(Holders(stored, queued, resent)))
             /\ queue # <<>> => count = ReceiveMax

LEMMA WindowIs ==
    /\ WindowExact <=> Exact(ep.pids, Stored, ep.queue, Queued, ep.count, ep.resend)
    /\ WindowExact' <=> Exact(ep'.pids, Stored', ep'.queue, Queued', ep'.count, ep'.resend)
BY DEF WindowExact, Exact, Holders, SlotHolders, Leaked, Stored

LEMMA HoldersFinite ==
    ASSUME BInv
    PROVE  \A Q, R : IsFiniteSet(Holders(Stored, Q, R)) /\ Cardinality(Holders(Stored, Q, R)) \in Nat
<1> SUFFICES ASSUME NEW Q, NEW R
             PROVE  IsFiniteSet(Holders(Stored, Q, R)) /\ Cardinality(Holders(Stored, Q, R)) \in Nat
  OBVIOUS
<1>1. IsFiniteSet(Stored) /\ Holders(Stored, Q, R) \subseteq Stored
  BY EndpointFacts DEF Holders
<1>2. IsFiniteSet(Holders(Stored, Q, R))
  BY <1>1, FS_Subset
<1> QED BY <1>2, FS_CardinalityType

(* A publish more: it takes a slot or waits in the queue. *)
LEMMA PublishCounted ==
    ASSUME BInv, NEW e, e.pid \notin ep.pids, IsPublish(e),
           NEW queue, NEW queued, NEW count,
           \/ /\ V5 /\ ep.count = ReceiveMax
              /\ queued = Queued \union {e.pid} /\ count = ep.count
           \/ /\ ~(V5 /\ ep.count = ReceiveMax)
              /\ queue = ep.queue /\ queued = Queued
              /\ count = IF V5 THEN ep.count + 1 ELSE ep.count
    PROVE  Exact(ep.pids \union {e.pid}, Stored \union {e}, queue, queued, count, ep.resend)
<1> DEFINE H == Holders(Stored, Queued, ep.resend)
           G == Holders(Stored \union {e}, queued, ep.resend)
<1>1. Exact(ep.pids, Stored, ep.queue, Queued, ep.count, ep.resend)
  BY WindowIs DEF BInv, Window
<1>2. /\ Queued \subseteq ep.pids /\ \A f \in Stored : f.pid \in ep.pids
      /\ ep.count \in Nat /\ ReceiveMax \in Nat
  BY EndpointFacts, PacketsAssumption
<1>3. ep.pids \union {e.pid} = {f.pid : f \in Stored \union {e}}
  BY <1>1 DEF Exact
<1>4. IsFiniteSet(H) /\ Cardinality(H) \in Nat
  BY HoldersFinite
<1>5. CASE V5 /\ ep.count = ReceiveMax
  <2>1. queued = Queued \union {e.pid} /\ count = ep.count
    BY <1>5
  <2>2. G = H
    BY <1>2, <2>1 DEF Holders
  <2> HIDE DEF G, H
  <2>3. /\ Cardinality(G) <= count /\ count <= ReceiveMax /\ count = ReceiveMax
        /\ ep.resend = {} => ~(count > Cardinality(G))
    BY <1>1, <1>5, <2>1, <2>2 DEF Exact, H
  <2> QED BY <1>3, <2>3 DEF Exact, G
<1>6. CASE V5 /\ ep.count # ReceiveMax
  <2>1. queued = Queued /\ count = ep.count + 1 /\ queue = ep.queue
    BY <1>6
  <2>2. e \notin H
    BY <1>2 DEF Holders
  <2>3. G = H \union {e}
    BY <1>2, <2>1 DEF Holders
  <2> HIDE DEF G, H
  <2>4. Cardinality(G) = Cardinality(H) + 1
    BY <1>4, <2>2, <2>3, CountedExactly
  <2>5. /\ Cardinality(H) <= ep.count /\ ep.count <= ReceiveMax
        /\ ep.resend = {} => ~(ep.count > Cardinality(H))
        /\ queue = <<>>
    BY <1>1, <1>6, <2>1 DEF Exact, H
  <2>6. /\ Cardinality(G) <= count /\ count <= ReceiveMax
        /\ ep.resend = {} => ~(count > Cardinality(G))
    BY <1>2, <1>4, <1>6, <2>1, <2>4, <2>5
  <2> QED BY <1>3, <2>5, <2>6 DEF Exact, G
<1>7. CASE ~V5
  BY <1>3, <1>7 DEF Exact
<1> QED BY <1>5, <1>6, <1>7

(* A pubrel resent holds no slot. *)
LEMMA PubrelCounted ==
    ASSUME BInv, NEW e, e.pid \notin ep.pids, ~IsPublish(e),
           NEW resent, resent = IF V5 THEN ep.resend \union {e.pid} ELSE ep.resend
    PROVE  Exact(ep.pids \union {e.pid}, Stored \union {e}, ep.queue, Queued, ep.count, resent)
<1> DEFINE H == Holders(Stored, Queued, ep.resend)
           G == Holders(Stored \union {e}, Queued, resent)
<1>1. Exact(ep.pids, Stored, ep.queue, Queued, ep.count, ep.resend)
  BY WindowIs DEF BInv, Window
<1>2. \A f \in Stored : f.pid \in ep.pids
  BY EndpointFacts
<1>3. ep.pids \union {e.pid} = {f.pid : f \in Stored \union {e}}
  BY <1>1 DEF Exact
<1>4. CASE V5
  <2>1. G = H /\ resent # {}
    BY <1>2, <1>4 DEF Holders
  <2> HIDE DEF G, H
  <2>2. /\ Cardinality(G) <= ep.count /\ ep.count <= ReceiveMax
        /\ ep.queue # <<>> => ep.count = ReceiveMax
    BY <1>1, <1>4, <2>1 DEF Exact, H
  <2> QED BY <1>3, <2>1, <2>2 DEF Exact, G
<1> QED BY <1>3, <1>4 DEF Exact

(* A message less that held a slot: the slot is given back or goes to the
   message the queue held back longest. *)
LEMMA ReleaseCounted ==
    ASSUME BInv, NEW h \in Stored, h \in Holders(Stored, Queued, ep.resend),
           NEW queue, NEW queued, NEW count,
           V5 => \/ /\ ep.queue = <<>> /\ queue = ep.queue /\ queued = Queued
                    /\ count = ep.count - 1
                 \/ \E k \in ToSet(ep.queue) :
                       /\ ep.queue # <<>> /\ queued = Queued \ {k.pid} /\ count = ep.count
    PROVE  /\ Exact(ep.pids \ {h.pid}, Stored \ {h}, queue, queued, count, ep.resend)
           /\ V5 => ep.count # 0
<1> DEFINE H == Holders(Stored, Queued, ep.resend)
           G == Holders(Stored \ {h}, queued, ep.resend)
<1>1. Exact(ep.pids, Stored, ep.queue, Queued, ep.count, ep.resend)
  BY WindowIs DEF BInv, Window
<1>2. /\ ep.count \in Nat /\ ReceiveMax \in Nat
      /\ \A e, f \in Stored : e.pid = f.pid => e = f
      /\ ToSet(ep.queue) \subseteq Stored /\ \A e \in ToSet(ep.queue) : IsPublish(e)
      /\ Queued = {e.pid : e \in ToSet(ep.queue)}
  BY EndpointFacts, PacketsAssumption
<1>3. ep.pids \ {h.pid} = {f.pid : f \in Stored \ {h}}
  BY <1>1, <1>2 DEF Exact
<1>4. IsFiniteSet(H) /\ Cardinality(H) \in Nat /\ h \in H
  BY HoldersFinite
<1>5. Cardinality(H \ {h}) = Cardinality(H) - 1 /\ Cardinality(H) # 0
  BY <1>4, CountedExactly
<1>6. V5 => /\ Cardinality(H) <= ep.count /\ ep.count <= ReceiveMax
            /\ ep.resend = {} => ~(ep.count > Cardinality(H))
            /\ ep.queue # <<>> => ep.count = ReceiveMax
  BY <1>1 DEF Exact, H
<1>7. CASE V5 /\ ep.queue = <<>>
  <2>1. queue = ep.queue /\ queued = Queued /\ count = ep.count - 1
    BY <1>7
  <2>2. G = H \ {h}
    BY <2>1 DEF Holders
  <2> HIDE DEF G, H
  <2>3. /\ Cardinality(G) <= count /\ count <= ReceiveMax
        /\ ep.resend = {} => ~(count > Cardinality(G))
        /\ ep.count # 0
    BY <1>2, <1>4, <1>5, <1>6, <1>7, <2>1, <2>2
  <2> QED BY <1>3, <1>7, <2>1, <2>3 DEF Exact, G
<1>8. CASE V5 /\ ep.queue # <<>>
  <2>1. PICK k \in ToSet(ep.queue) : queued = Queued \ {k.pid} /\ count = ep.count
    BY <1>8
  <2>2. k \in Stored /\ IsPublish(k) /\ k.pid \in Queued
    BY <1>2
  <2>3. k \notin H /\ k # h
    BY <1>4, <2>2 DEF Holders
  <2>4. \A f \in Stored : f.pid = k.pid => f = k
    BY <1>2, <2>2
  <2>5. G = (H \ {h}) \union {k}
    BY <2>1, <2>2, <2>3, <2>4 DEF Holders
  <2> HIDE DEF G, H
  <2>6. Cardinality(G) = Cardinality(H)
    BY <1>4, <2>3, <2>5, CountedExactly
  <2>7. /\ Cardinality(G) <= count /\ count <= ReceiveMax
        /\ ep.resend = {} => ~(count > Cardinality(G))
        /\ count = ReceiveMax /\ ep.count # 0
    BY <1>2, <1>4, <1>5, <1>6, <1>8, <2>1, <2>6
  <2> QED BY <1>3, <1>8, <2>7 DEF Exact, G
<1>9. CASE ~V5
  BY <1>3, <1>9 DEF Exact
<1> QED BY <1>7, <1>8, <1>9

(* A message less that held none: its pubrel was resent. *)
LEMMA ResentCounted ==
    ASSUME BInv, NEW h \in Stored, ~IsPublish(h), h.pid \in ep.resend
    PROVE  Exact(ep.pids \ {h.pid}, Stored \ {h}, ep.queue, Queued, ep.count, ep.resend)
<1>1. Exact(ep.pids, Stored, ep.queue, Queued, ep.count, ep.resend)
  BY WindowIs DEF BInv, Window
<1>2. \A e, f \in Stored : e.pid = f.pid => e = f
  BY EndpointFacts
<1>3. ep.pids \ {h.pid} = {f.pid : f \in Stored \ {h}}
  BY <1>1, <1>2 DEF Exact
<1>4. Holders(Stored \ {h}, Queued, ep.resend) = Holders(Stored, Queued, ep.resend)
  BY DEF Holders
<1> QED BY <1>1, <1>3, <1>4 DEF Exact

(* A pubrel instead of its publish: it keeps the slot, unless the packet id is
   one whose pubrel was resent. *)
LEMMA ReplacedCounted ==
    ASSUME BInv, NEW h \in Stored, h \in Holders(Stored, Queued, ep.resend), IsPublish(h),
           NEW e, e.pid = h.pid, ~IsPublish(e)
    PROVE  Exact(ep.pids, (Stored \ {h}) \union {e}, ep.queue, Queued, ep.count, ep.resend)
<1> DEFINE H == Holders(Stored, Queued, ep.resend)
           G == Holders((Stored \ {h}) \union {e}, Queued, ep.resend)
<1>1. Exact(ep.pids, Stored, ep.queue, Queued, ep.count, ep.resend)
  BY WindowIs DEF BInv, Window
<1>2. /\ \A d, f \in Stored : d.pid = f.pid => d = f
      /\ ep.count \in Nat
  BY EndpointFacts
<1>3. ep.pids = {f.pid : f \in (Stored \ {h}) \union {e}}
  <2>1. ep.pids = {f.pid : f \in Stored}
    BY <1>1 DEF Exact
  <2> QED BY <2>1
<1>4. IsFiniteSet(H) /\ Cardinality(H) \in Nat /\ h \in H
  BY HoldersFinite
<1>5. e \notin Stored /\ e \notin H /\ h # e
  BY <1>2 DEF Holders
<1>6. Cardinality(H \ {h}) = Cardinality(H) - 1
  BY <1>4, CountedExactly
<1>7. CASE e.pid \in ep.resend
  <2>1. G = H \ {h} /\ ep.resend # {}
    BY <1>7, <1>5 DEF Holders
  <2> HIDE DEF G, H
  <2>2. V5 => Cardinality(H) <= ep.count /\ ep.count <= ReceiveMax
             /\ (ep.queue # <<>> => ep.count = ReceiveMax)
    BY <1>1 DEF Exact, H
  <2>3. V5 => Cardinality(G) <= ep.count
    BY <1>2, <1>4, <1>6, <2>1, <2>2
  <2> QED BY <1>3, <2>1, <2>2, <2>3 DEF Exact, G
<1>8. CASE e.pid \notin ep.resend
  <2>1. G = (H \ {h}) \union {e}
    BY <1>8, <1>5 DEF Holders
  <2> HIDE DEF G, H
  <2>2. Cardinality(G) = Cardinality(H)
    BY <1>4, <1>5, <2>1, CountedExactly
  <2> QED BY <1>1, <1>3, <2>2 DEF Exact, G, H
<1> QED BY <1>7, <1>8

-----------------------------------------------------------------------------
(* What is under way *)

LEMMA EntryIs ==
    ASSUME NEW e \in StoreEntries, IsPublish(e)
    PROVE  /\ e = Entry(e.pid, FirstAnswer(e.msg), e.msg)
           /\ PublishPacket(e.pid, e.msg) \in PacketsToReceiver
           /\ PublishPacket(e.pid, e.msg).type = "publish"
           /\ PublishPacket(e.pid, e.msg).pid = e.pid
           /\ PublishPacket(e.pid, e.msg).msg = e.msg
           /\ e.pid \in Pids /\ e.pid # NoPid /\ Qos[e.msg] # 0 /\ e.msg \in Messages
<1>1. /\ e.pid \in Pids /\ e.msg \in Messages /\ Qos[e.msg] # 0 /\ e.awaits \in Awaited
      /\ e.awaits = "puback" <=> Qos[e.msg] = 1
  BY DEF StoreEntries
<1>2. e.awaits = FirstAnswer(e.msg)
  BY <1>1 DEF IsPublish, Awaited, FirstAnswer
<1>3. e = [pid |-> e.pid, awaits |-> e.awaits, msg |-> e.msg]
  BY DEF StoreEntries
<1>4. PublishPacket(e.pid, e.msg) \in PacketsToReceiver
  BY <1>1, PacketsWritten
<1>5. e.pid # NoPid
  BY <1>1, PidsAreNotNoPid
<1> QED BY <1>1, <1>2, <1>3, <1>4, <1>5 DEF Entry, PublishPacket

LEMMA AskedKept ==
    ASSUME BInv, NEW x \in ToSet(ep.posted) \union ToSet(b2c),
           \A e \in Stored : e.pid = x.pid => e \in Stored',
           Numbered(x) => x.pid \notin Queued'
    PROVE  Asked(x)'
<1>1. Asked(x) /\ x \in PacketsToReceiver
  BY UnderWayStored DEF BInv, Traffic
<1>2. ASSUME x.type = "publish", Qos[x.msg] # 0
      PROVE  Entry(x.pid, FirstAnswer(x.msg), x.msg) \in Stored' /\ x.pid \notin Queued'
  <2>1. x.pid # NoPid
    BY <1>1, <1>2 DEF PacketsToReceiver, PublishPackets
  <2>2. Numbered(x)
    BY <1>2, <2>1 DEF Numbered
  <2>3. Entry(x.pid, FirstAnswer(x.msg), x.msg) \in Stored
    BY <1>1, <1>2 DEF Asked
  <2>4. Entry(x.pid, FirstAnswer(x.msg), x.msg).pid = x.pid
    BY DEF Entry
  <2> QED BY <2>2, <2>3, <2>4
<1>3. ASSUME x.type = "pubrel" PROVE \E e \in Stored' : e.pid = x.pid /\ e.awaits = "pubcomp"
  BY <1>1, <1>3 DEF Asked
<1>4. x.type \in {"publish", "pubrel"}
  BY <1>1 DEF Asked
<1> QED BY <1>2, <1>3, <1>4 DEF Asked

LEMMA ExpectedKept ==
    ASSUME BInv, NEW x \in ToSet(c2b),
           \A e \in Stored : e.pid = x.pid => e \in Stored',
           x.pid \notin Queued'
    PROVE  Expected(x)'
<1>1. Expected(x)
  BY DEF BInv, Traffic
<1> QED BY <1>1 DEF Expected

LEMMA AnswersNumbered ==
    ASSUME BInv, NEW y \in ToSet(c2b)
    PROVE  /\ y \in PacketsToSender /\ y.type \in Awaited
           /\ y.pid \in Pids /\ Numbered(y) /\ y.pid \in Carried(c2b)
<1>1. y \in PacketsToSender /\ y.type \in Awaited
  BY UnderWayStored DEF BInv, Traffic, Expected
<1>2. y.pid \in Pids /\ y.pid # NoPid
  BY <1>1, PidsAreNotNoPid DEF PacketsToSender, Awaited
<1>3. Numbered(y)
  BY <1>1, <1>2 DEF Numbered, Awaited
<1> QED BY <1>1, <1>2, <1>3 DEF Carried

(* Nothing changes for the packets whose message is left as it is. *)
LEMMA OthersKept ==
    ASSUME BInv, NEW p,
           \A e \in Stored : e.pid # p => e \in Stored',
           \A q \in Queued' : q \in Queued \/ q \notin ep.pids
    PROVE  /\ \A y \in ToSet(ep.posted) \union ToSet(b2c) :
                 (Numbered(y) => y.pid # p) => Asked(y)'
           /\ \A y \in ToSet(c2b) : y.pid # p => Expected(y)'
<1>1. \A q \in Carried(ep.posted) \union Carried(b2c) \union Carried(c2b) : q \notin Queued'
  BY UnderWayStored
<1>2. ASSUME NEW y \in ToSet(ep.posted) \union ToSet(b2c), Numbered(y) => y.pid # p
      PROVE  Asked(y)'
  <2>1. Numbered(y) => y.pid \notin Queued'
    BY <1>1 DEF Carried
  <2>2. \A e \in Stored : e.pid = y.pid => e \in Stored'
    <3> SUFFICES ASSUME NEW e \in Stored, e.pid = y.pid PROVE e \in Stored'
      OBVIOUS
    <3>1. e.pid \in Pids /\ e.pid # NoPid
      BY EndpointFacts, PidsAreNotNoPid DEF StoreEntries
    <3>2. y.type \in {"publish", "pubrel"}
      BY DEF BInv, Traffic, Asked
    <3>3. Numbered(y)
      BY <3>1, <3>2 DEF Numbered
    <3> QED BY <1>2, <3>3
  <2> QED BY <2>1, <2>2, AskedKept
<1>3. ASSUME NEW y \in ToSet(c2b), y.pid # p PROVE Expected(y)'
  <2>1. y.pid \in Carried(c2b)
    BY AnswersNumbered
  <2> QED BY <1>1, <1>3, <2>1, ExpectedKept
<1> QED BY <1>2, <1>3

(* At most one packet is written behind the others, and at most one answer is
   read. *)
LEMMA TrafficNext ==
    ASSUME BInv, b2c' = b2c, c2b' = c2b \/ (c2b # <<>> /\ c2b' = Tail(c2b)),
           \/ ep'.posted = ep.posted
           \/ \E x \in PacketsToReceiver :
                 /\ ep'.posted = Append(ep.posted, x)
                 /\ Numbered(x) /\ Asked(x)'
                 /\ x.pid \notin Carried(ep.posted) \union Carried(b2c) \union Carried(c2b'),
           \A y \in ToSet(ep.posted) \union ToSet(b2c) : Asked(y)',
           \A y \in ToSet(c2b') : Expected(y)'
    PROVE  Traffic'
<1>1. /\ Alone(ep.posted) /\ Alone(b2c) /\ Alone(c2b)
      /\ Carried(ep.posted) \intersect Carried(b2c) = {}
      /\ (Carried(ep.posted) \union Carried(b2c)) \intersect Carried(c2b) = {}
  BY DEF BInv, Traffic
<1>2. Alone(c2b') /\ Carried(c2b') \subseteq Carried(c2b)
  <2>1. c2b \in Seq(PacketsToSender)
    BY DEF BInv, TypeOK
  <2>2. CASE c2b # <<>> /\ c2b' = Tail(c2b)
    <3>1. Alone(Tail(c2b)) /\ Carried(Tail(c2b)) \subseteq Carried(c2b)
      BY <1>1, <2>1, <2>2, TailMembers
    <3> QED BY <2>2, <3>1
  <2>3. CASE c2b' = c2b
    BY <1>1, <2>3
  <2> QED BY <2>2, <2>3
<1>3. CASE ep'.posted = ep.posted
  BY <1>1, <1>2, <1>3 DEF Traffic
<1>4. ASSUME NEW x \in PacketsToReceiver,
             ep'.posted = Append(ep.posted, x), Numbered(x), Asked(x)',
             x.pid \notin Carried(ep.posted) \union Carried(b2c) \union Carried(c2b')
      PROVE  Traffic'
  <2>1. /\ ToSet(ep'.posted) = ToSet(ep.posted) \union {x}
        /\ Carried(ep'.posted) = Carried(ep.posted) \union {x.pid}
        /\ Alone(ep'.posted)
    <3>1. ep.posted \in Seq(PacketsToReceiver)
      BY EndpointFacts
    <3> QED BY <1>1, <1>4, <3>1, AppendMembers
  <2> QED BY <1>1, <1>2, <1>4, <2>1 DEF Traffic
<1> QED BY <1>3, <1>4

(* A publish is stored, and written or queued. *)
LEMMA PublishSentStep ==
    ASSUME BInv, NEW e \in StoreEntries, IsPublish(e), e.pid \notin ep.pids,
           ep' = PublishSent(ep, e), b2c' = b2c, c2b' = c2b
    PROVE  /\ ep' \in Endpoints
           /\ ep'.store = Append(ep.store, e) /\ Stored' = Stored \union {e}
           /\ Distinct(ep'.store)
           /\ net = "down" => ep'.posted = ep.posted
           /\ Window' /\ Traffic'
<1> DEFINE x == PublishPacket(e.pid, e.msg)
<1>1. /\ e = Entry(e.pid, FirstAnswer(e.msg), e.msg)
      /\ x \in PacketsToReceiver /\ x.type = "publish" /\ x.pid = e.pid /\ x.msg = e.msg
      /\ e.pid \in Pids /\ e.pid # NoPid
  BY EntryIs
<1>2. /\ ep' \in Endpoints
      /\ ep'.store = Inserted(ep.store, e)
      /\ ep'.pids = ep.pids \union {e.pid}
      /\ ep'.resend = ep.resend
      /\ V5 /\ ep.count = ReceiveMax =>
            /\ ep'.count = ep.count
            /\ ep'.queue = Append(ep.queue, e)
            /\ ep'.posted = ep.posted
      /\ ~(V5 /\ ep.count = ReceiveMax) =>
            /\ ep'.count = IF V5 THEN ep.count + 1 ELSE ep.count
            /\ ep'.queue = ep.queue
            /\ ep'.posted = IF net = "down" THEN ep.posted ELSE Append(ep.posted, x)
  BY <1>1, EndpointFacts, PublishSentFields
<1> HIDE DEF x
<1>3. /\ Distinct(ep.store) /\ ep.store \in Seq(StoreEntries) /\ PidsOf(ep.store) = ep.pids
      /\ Distinct(ep.queue) /\ ep.queue \in Seq(StoreEntries)
      /\ Queued = {f.pid : f \in ToSet(ep.queue)} /\ Queued \subseteq ep.pids
      /\ PidsOf(ep.queue) = Queued
      /\ ep.posted \in Seq(PacketsToReceiver)
  BY EndpointFacts, PidsAre
<1>4. /\ ep'.store = Append(ep.store, e)
      /\ Distinct(ep'.store)
      /\ ToSet(ep'.store) = Stored \union {e}
  BY <1>2, <1>3, InsertedOne DEF Stored
<1>5. Stored' = Stored \union {e}
  BY <1>4 DEF Stored
<1>6. Queued' = {f.pid : f \in ToSet(ep'.queue)}
  BY DEF Queued, ToSet
<1>7. /\ V5 /\ ep.count = ReceiveMax =>
            /\ Distinct(ep'.queue) /\ ToSet(ep'.queue) = ToSet(ep.queue) \union {e}
            /\ Queued' = Queued \union {e.pid}
      /\ ~(V5 /\ ep.count = ReceiveMax) => Queued' = Queued
  <2>1. CASE V5 /\ ep.count = ReceiveMax
    <3>1. ep'.queue = Append(ep.queue, e)
      BY <1>2, <2>1
    <3>2. Distinct(ep'.queue) /\ ToSet(ep'.queue) = ToSet(ep.queue) \union {e}
      BY <1>3, <3>1, AppendedOne, AppendMembers
    <3>3. Queued' = Queued \union {e.pid}
      BY <1>3, <1>6, <3>2
    <3> QED BY <2>1, <3>2, <3>3
  <2>2. CASE ~(V5 /\ ep.count = ReceiveMax)
    BY <1>2, <1>3, <1>6, <2>2
  <2> QED BY <2>1, <2>2
<1>8. Window'
  <2>1. WindowExact'
    <3>1. Exact(ep.pids \union {e.pid}, Stored \union {e}, ep'.queue, Queued', ep'.count, ep.resend)
      BY <1>2, <1>7, PublishCounted
    <3> QED BY <1>2, <1>5, <3>1, WindowIs
  <2>2. \A f \in ToSet(ep'.queue) : f \in Stored' /\ IsPublish(f)
    BY <1>2, <1>5, <1>7, EndpointFacts
  <2>3. Distinct(ep'.queue) /\ (~V5 => ep'.queue = <<>>)
    BY <1>2, <1>3, <1>7 DEF BInv, Window
  <2> QED BY <2>1, <2>2, <2>3 DEF Window
<1>9. /\ ep'.posted = ep.posted \/ ep'.posted = Append(ep.posted, x)
      /\ ep'.posted = Append(ep.posted, x) => e.pid \notin Queued' \/ ep'.posted = ep.posted
      /\ net = "down" => ep'.posted = ep.posted
  BY <1>2, <1>3, <1>7
<1>10. /\ \A y \in ToSet(ep.posted) \union ToSet(b2c) : Asked(y)'
       /\ \A y \in ToSet(c2b) : Expected(y)'
  <2>1. \A f \in Stored : f \in Stored'
    BY <1>5
  <2>2. \A q \in Queued' : q \in Queued \/ q \notin ep.pids
    BY <1>7
  <2>3. /\ \A y \in ToSet(c2b) : y.pid # NoPid
        /\ \A y \in ToSet(ep.posted) \union ToSet(b2c) : Numbered(y) => y.pid # NoPid
    BY AnswersNumbered, PidsAreNotNoPid DEF Numbered
  <2>4. /\ \A y \in ToSet(ep.posted) \union ToSet(b2c) :
              (Numbered(y) => y.pid # NoPid) => Asked(y)'
        /\ \A y \in ToSet(c2b) : y.pid # NoPid => Expected(y)'
    BY <2>1, <2>2, OthersKept
  <2> QED BY <2>3, <2>4
<1>11. Traffic'
  <2>1. ASSUME ep'.posted = Append(ep.posted, x), ep'.posted # ep.posted
        PROVE  Numbered(x) /\ Asked(x)' /\ x.pid = e.pid
    <3>1. e.pid \notin Queued'
      BY <1>9, <2>1
    <3> QED BY <1>1, <1>5, <3>1 DEF Asked, Numbered
  <2>2. e.pid \notin Carried(ep.posted) \union Carried(b2c) \union Carried(c2b)
    BY UnderWayStored
  <2> QED BY <1>1, <1>9, <1>10, <2>1, <2>2, TrafficNext
<1> QED BY <1>2, <1>4, <1>5, <1>8, <1>9, <1>11

(* A pubrel is resent: it was stored, on an earlier connection. *)
LEMMA PubrelResentStep ==
    ASSUME BInv, NEW e \in StoreEntries, ~IsPublish(e), e.pid \notin ep.pids,
           ep' = PubrelResent(ep, e), b2c' = b2c, c2b' = c2b
    PROVE  /\ ep' \in Endpoints
           /\ ep'.store = Append(ep.store, e) /\ Stored' = Stored \union {e}
           /\ Distinct(ep'.store)
           /\ net = "down" => ep'.posted = ep.posted
           /\ Window' /\ Traffic'
<1> DEFINE x == PubrelPacket(e.pid)
<1>1. /\ x \in PacketsToReceiver /\ x.type = "pubrel" /\ x.pid = e.pid
      /\ e.pid \in Pids /\ e.pid # NoPid /\ e.awaits = "pubcomp"
  BY PacketsWritten, PidsAreNotNoPid DEF StoreEntries, IsPublish, PubrelPacket
<1>2. /\ ep' \in Endpoints
      /\ ep'.store = Inserted(ep.store, e)
      /\ ep'.pids = ep.pids \union {e.pid}
      /\ ep'.resend = IF V5 THEN ep.resend \union {e.pid} ELSE ep.resend
      /\ ep'.count = ep.count /\ ep'.queue = ep.queue
      /\ ep'.posted = IF net = "down" THEN ep.posted ELSE Append(ep.posted, x)
  BY <1>1, EndpointFacts, PubrelResentFields
<1> HIDE DEF x
<1>3. /\ Distinct(ep.store) /\ ep.store \in Seq(StoreEntries) /\ PidsOf(ep.store) = ep.pids
      /\ Queued \subseteq ep.pids
  BY EndpointFacts
<1>4. /\ ep'.store = Append(ep.store, e)
      /\ Distinct(ep'.store)
      /\ ToSet(ep'.store) = Stored \union {e}
  BY <1>2, <1>3, InsertedOne DEF Stored
<1>5. Stored' = Stored \union {e} /\ Queued' = Queued
  BY <1>2, <1>4 DEF Stored, Queued
<1>6. Window'
  <2>1. Exact(ep.pids \union {e.pid}, Stored \union {e}, ep.queue, Queued, ep.count, ep'.resend)
    BY <1>2, PubrelCounted
  <2>2. WindowExact'
    BY <1>2, <1>5, <2>1, WindowIs
  <2> QED BY <1>2, <1>5, <2>2 DEF BInv, Window
<1>7. /\ \A y \in ToSet(ep.posted) \union ToSet(b2c) : Asked(y)'
      /\ \A y \in ToSet(c2b) : Expected(y)'
  <2>1. /\ \A y \in ToSet(c2b) : y.pid # NoPid
        /\ \A y \in ToSet(ep.posted) \union ToSet(b2c) : Numbered(y) => y.pid # NoPid
    BY AnswersNumbered, PidsAreNotNoPid DEF Numbered
  <2>2. /\ \A y \in ToSet(ep.posted) \union ToSet(b2c) :
              (Numbered(y) => y.pid # NoPid) => Asked(y)'
        /\ \A y \in ToSet(c2b) : y.pid # NoPid => Expected(y)'
    BY <1>5, OthersKept
  <2> QED BY <2>1, <2>2
<1>8. Traffic'
  <2>1. Numbered(x) /\ Asked(x)' /\ x.pid = e.pid
    BY <1>1, <1>5 DEF Asked, Numbered
  <2>2. e.pid \notin Carried(ep.posted) \union Carried(b2c) \union Carried(c2b)
    BY UnderWayStored
  <2> QED BY <1>1, <1>2, <1>7, <2>1, <2>2, TrafficNext
<1> QED BY <1>2, <1>4, <1>5, <1>6, <1>8

(* An answer is read. The packet id of the message it answers is on its way
   nowhere else. *)
LEMMA AnswerRead ==
    ASSUME BInv, c2b # <<>>, c2b' = Tail(c2b)
    PROVE  LET x == Head(c2b)
           IN  /\ x \in ToSet(c2b) /\ x \in PacketsToSender /\ x.type \in Awaited /\ x.pid \in Pids
               /\ x.pid \notin Queued
               /\ \E h \in Stored : h.pid = x.pid /\ h.awaits = x.type
               /\ x.pid \notin Carried(ep.posted) \union Carried(b2c) \union Carried(c2b')
               /\ \A y \in ToSet(c2b') : y \in ToSet(c2b) /\ y.pid # x.pid
               /\ \A y \in ToSet(ep.posted) \union ToSet(b2c) : Numbered(y) => y.pid # x.pid
<1> DEFINE x == Head(c2b)
           t == Tail(c2b)
<1>1. /\ c2b \in Seq(PacketsToSender) /\ Alone(c2b)
      /\ (Carried(ep.posted) \union Carried(b2c)) \intersect Carried(c2b) = {}
  BY DEF BInv, TypeOK, Traffic
<1>2. /\ ToSet(c2b) = ToSet(t) \union {x} /\ Alone(t)
      /\ Numbered(x) => x.pid \in Carried(c2b) /\ x.pid \notin Carried(t)
  BY <1>1, TailMembers
<1> HIDE DEF x, t
<1>3. x \in ToSet(c2b)
  BY <1>2
<1>4. /\ x \in PacketsToSender /\ x.type \in Awaited /\ x.pid \in Pids /\ Numbered(x)
      /\ x.pid \notin Queued /\ \E h \in Stored : h.pid = x.pid /\ h.awaits = x.type
  <2>1. Expected(x)
    BY <1>3 DEF BInv, Traffic
  <2> QED BY <1>3, <2>1, AnswersNumbered DEF Expected
<1>5. x.pid \notin Carried(ep.posted) \union Carried(b2c) \union Carried(t)
  BY <1>1, <1>2, <1>4
<1>6. \A y \in ToSet(t) : Numbered(y)
  BY <1>2, AnswersNumbered
<1>7. \A y \in ToSet(t) : y \in ToSet(c2b) /\ y.pid # x.pid
  BY <1>2, <1>5, <1>6 DEF Carried
<1>8. \A y \in ToSet(ep.posted) \union ToSet(b2c) : Numbered(y) => y.pid # x.pid
  BY <1>5 DEF Carried
<1> QED BY <1>3, <1>4, <1>5, <1>7, <1>8 DEF x, t

(* The message is acknowledged, and its slot given back or handed on. *)
LEMMA ReleaseStep ==
    ASSUME BInv, c2b # <<>>, c2b' = Tail(c2b), b2c' = b2c,
           NEW h \in Stored, h.pid = Head(c2b).pid,
           h \in Holders(Stored, Queued, ep.resend),
           ep' = SlotReleased(Acknowledged(ep, h.pid))
    PROVE  /\ ep' \in Endpoints
           /\ ep'.store = Without(ep.store, h.pid) /\ Stored' = Stored \ {h}
           /\ Distinct(ep'.store)
           /\ net = "down" => ep'.posted = ep.posted
           /\ \/ ep'.queue = ep.queue /\ ep'.posted = ep.posted
              \/ /\ ep.queue # <<>> /\ ep'.queue = Tail(ep.queue)
                 /\ ep'.posted = IF net = "down" THEN ep.posted
                                 ELSE Append(ep.posted, PublishPacket(Head(ep.queue).pid,
                                                                      Head(ep.queue).msg))
           /\ Window' /\ Traffic'
<1> DEFINE x == Acknowledged(ep, h.pid)
           k == Head(ep.queue)
           y == PublishPacket(k.pid, k.msg)
<1>1. /\ ep \in Endpoints /\ Distinct(ep.store) /\ ep.store \in Seq(StoreEntries)
      /\ Distinct(ep.queue) /\ ep.queue \in Seq(StoreEntries) /\ ep.count \in Nat
      /\ ToSet(ep.queue) \subseteq Stored /\ \A e \in ToSet(ep.queue) : IsPublish(e)
      /\ Queued = {e.pid : e \in ToSet(ep.queue)} /\ Queued \subseteq ep.pids
      /\ \A e, f \in Stored : e.pid = f.pid => e = f
      /\ Stored \subseteq StoreEntries
  BY EndpointFacts
<1>2. /\ x \in Endpoints /\ x.store = Without(ep.store, h.pid) /\ x.pids = ep.pids \ {h.pid}
      /\ x.count = ep.count /\ x.queue = ep.queue /\ x.resend = ep.resend /\ x.posted = ep.posted
  BY <1>1, AcknowledgedFields
<1>3. ep.queue # <<>> =>
          /\ k \in ToSet(ep.queue) /\ k \in Stored /\ k \in StoreEntries /\ IsPublish(k)
          /\ k.pid \in Queued
          /\ Tail(ep.queue) \in Seq(StoreEntries) /\ Distinct(Tail(ep.queue))
          /\ ToSet(ep.queue) = ToSet(Tail(ep.queue)) \union {k}
          /\ {e.pid : e \in ToSet(Tail(ep.queue))} = Queued \ {k.pid}
  BY <1>1, TailDistinct
<1>4. ep.queue # <<>> =>
          /\ k = Entry(k.pid, FirstAnswer(k.msg), k.msg)
          /\ y \in PacketsToReceiver /\ y.type = "publish" /\ y.pid = k.pid /\ y.msg = k.msg
          /\ k.pid # NoPid
  BY <1>3, EntryIs
<1> HIDE DEF x, k, y
<1>5. V5 => ep.count # 0
  <2>1. V5 /\ ep.queue = <<>> => ep.count # 0
    BY ReleaseCounted
  <2>2. V5 /\ ep.queue # <<>> => ep.count # 0
    BY <1>3, ReleaseCounted
  <2> QED BY <2>1, <2>2
<1>6. /\ ep' \in Endpoints
      /\ ep'.store = x.store /\ ep'.pids = x.pids /\ ep'.resend = x.resend
      /\ ~V5 => ep' = x
      /\ V5 /\ x.queue = <<>> =>
            ep'.count = x.count - 1 /\ ep'.queue = x.queue /\ ep'.posted = x.posted
      /\ V5 /\ x.queue # <<>> =>
            /\ ep'.count = x.count
            /\ ep'.queue = Tail(x.queue)
            /\ ep'.posted = IF net = "down" THEN x.posted ELSE Append(x.posted, y)
  <2>1. ep' = SlotReleased(x)
    BY DEF x
  <2>2. x.queue # <<>> => PublishPacket(Head(x.queue).pid, Head(x.queue).msg) \in PacketsToReceiver
    BY <1>2, <1>4 DEF y, k
  <2> QED BY <1>2, <1>5, <2>1, <2>2, SlotReleasedFields DEF y, k
<1>7. /\ ep'.store = Without(ep.store, h.pid)
      /\ Distinct(ep'.store)
      /\ Stored' = Stored \ {h}
  <2>1. /\ Distinct(Without(ep.store, h.pid))
        /\ ToSet(Without(ep.store, h.pid)) = {e \in Stored : e.pid # h.pid}
    BY <1>1, WithoutOne DEF Stored
  <2>2. {e \in Stored : e.pid # h.pid} = Stored \ {h}
    BY <1>1
  <2> QED BY <1>2, <1>6, <2>1, <2>2 DEF Stored
<1>8. Queued' = {e.pid : e \in ToSet(ep'.queue)}
  BY DEF Queued, ToSet
<1>9. /\ ~V5 => ep'.queue = ep.queue
      /\ ep.queue = <<>> => ep'.queue = ep.queue
      /\ V5 /\ ep.queue # <<>> => ep'.queue = Tail(ep.queue) /\ Queued' = Queued \ {k.pid}
      /\ ~(V5 /\ ep.queue # <<>>) => ep'.queue = ep.queue /\ Queued' = Queued
      /\ Distinct(ep'.queue) /\ ToSet(ep'.queue) \subseteq ToSet(ep.queue)
      /\ Queued' \subseteq Queued
  <2>1. CASE V5 /\ ep.queue # <<>>
    BY <1>1, <1>2, <1>3, <1>6, <1>8, <2>1
  <2>2. CASE ~(V5 /\ ep.queue # <<>>)
    BY <1>1, <1>2, <1>6, <1>8, <2>2
  <2> QED BY <2>1, <2>2
<1>10. h \notin ToSet(ep.queue)
  BY AnswerRead, <1>1
<1>11. Window'
  <2>1. Exact(ep.pids \ {h.pid}, Stored \ {h}, ep'.queue, Queued', ep'.count, ep.resend)
    <3>1. V5 /\ ep.queue = <<>> => ep'.queue = ep.queue /\ Queued' = Queued /\ ep'.count = ep.count - 1
      BY <1>2, <1>6, <1>9
    <3>2. V5 /\ ep.queue # <<>> =>
              k \in ToSet(ep.queue) /\ Queued' = Queued \ {k.pid} /\ ep'.count = ep.count
      BY <1>2, <1>3, <1>6, <1>9
    <3> QED BY <3>1, <3>2, ReleaseCounted
  <2>2. WindowExact'
    BY <1>2, <1>6, <1>7, <2>1, WindowIs
  <2>3. \A e \in ToSet(ep'.queue) : e \in Stored' /\ IsPublish(e)
    BY <1>1, <1>7, <1>9, <1>10
  <2>4. ~V5 => ep'.queue = <<>>
    BY <1>9 DEF BInv, Window
  <2> QED BY <1>9, <2>2, <2>3, <2>4 DEF Window
<1>12. /\ \A z \in ToSet(ep.posted) \union ToSet(b2c) : Asked(z)'
       /\ \A z \in ToSet(c2b') : Expected(z)'
  <2>1. /\ \A z \in ToSet(ep.posted) \union ToSet(b2c) :
              (Numbered(z) => z.pid # h.pid) => Asked(z)'
        /\ \A z \in ToSet(c2b) : z.pid # h.pid => Expected(z)'
    BY <1>7, <1>9, OthersKept
  <2> QED BY <2>1, AnswerRead
<1>13. Traffic'
  <2>1. CASE ep'.posted = ep.posted
    BY <1>12, <2>1, TrafficNext
  <2>2. CASE ep'.posted # ep.posted
    <3>1. V5 /\ ep.queue # <<>> /\ ep'.posted = Append(ep.posted, y)
      BY <1>2, <1>6, <2>2
    <3>2. PICK f \in StoreEntries, z \in PacketsToReceiver : f = k /\ z = y
      BY <1>3, <1>4, <3>1
    <3>3. f \in Stored' /\ f.pid \notin Queued'
      BY <1>3, <1>7, <1>9, <1>10, <3>1, <3>2
    <3>4. Numbered(z) /\ Asked(z)' /\ z.pid = f.pid
      BY <1>4, <3>1, <3>2, <3>3 DEF Asked, Numbered
    <3>5. f.pid \notin Carried(ep.posted) \union Carried(b2c) \union Carried(c2b')
      <4>1. Carried(c2b') \subseteq Carried(c2b)
        <5>1. c2b \in Seq(PacketsToSender)
          BY DEF BInv, TypeOK
        <5> QED BY <5>1, TailMembers
      <4> QED BY <1>3, <3>1, <3>2, <4>1, UnderWayStored
    <3> QED BY <1>12, <3>1, <3>2, <3>4, <3>5, TrafficNext
  <2> QED BY <2>1, <2>2
<1>14. net = "down" => ep'.posted = ep.posted
  BY <1>2, <1>6
<1>15. \/ ep'.queue = ep.queue /\ ep'.posted = ep.posted
       \/ /\ ep.queue # <<>> /\ ep'.queue = Tail(ep.queue)
          /\ ep'.posted = IF net = "down" THEN ep.posted ELSE Append(ep.posted, y)
  BY <1>2, <1>6
<1> QED BY <1>6, <1>7, <1>11, <1>13, <1>14, <1>15 DEF y, k

(* A message whose pubrel was resent is acknowledged. *)
LEMMA ResentStep ==
    ASSUME BInv, c2b # <<>>, c2b' = Tail(c2b), b2c' = b2c,
           NEW h \in Stored, h.pid = Head(c2b).pid, ~IsPublish(h), h.pid \in ep.resend,
           ep' = Acknowledged(ep, h.pid)
    PROVE  /\ ep' \in Endpoints
           /\ ep'.store = Without(ep.store, h.pid) /\ Stored' = Stored \ {h}
           /\ Distinct(ep'.store)
           /\ ep'.posted = ep.posted /\ ep'.queue = ep.queue
           /\ Window' /\ Traffic'
<1>1. /\ ep \in Endpoints /\ Distinct(ep.store) /\ ep.store \in Seq(StoreEntries)
      /\ ToSet(ep.queue) \subseteq Stored /\ \A e \in ToSet(ep.queue) : IsPublish(e)
      /\ \A e, f \in Stored : e.pid = f.pid => e = f
  BY EndpointFacts
<1>2. /\ ep' \in Endpoints /\ ep'.store = Without(ep.store, h.pid) /\ ep'.pids = ep.pids \ {h.pid}
      /\ ep'.count = ep.count /\ ep'.queue = ep.queue /\ ep'.resend = ep.resend
      /\ ep'.posted = ep.posted
  BY <1>1, AcknowledgedFields
<1>3. Distinct(ep'.store) /\ Stored' = Stored \ {h}
  <2>1. /\ Distinct(Without(ep.store, h.pid))
        /\ ToSet(Without(ep.store, h.pid)) = {e \in Stored : e.pid # h.pid}
    BY <1>1, WithoutOne DEF Stored
  <2>2. {e \in Stored : e.pid # h.pid} = Stored \ {h}
    BY <1>1
  <2> QED BY <1>2, <2>1, <2>2 DEF Stored
<1>4. Queued' = Queued
  BY <1>2 DEF Queued
<1>5. Window'
  <2>1. Exact(ep.pids \ {h.pid}, Stored \ {h}, ep.queue, Queued, ep.count, ep.resend)
    BY ResentCounted
  <2>2. WindowExact'
    BY <1>2, <1>3, <1>4, <2>1, WindowIs
  <2>3. \A e \in ToSet(ep'.queue) : e \in Stored' /\ IsPublish(e)
    BY <1>1, <1>2, <1>3
  <2> QED BY <1>2, <2>2, <2>3 DEF BInv, Window
<1>6. /\ \A z \in ToSet(ep.posted) \union ToSet(b2c) : Asked(z)'
      /\ \A z \in ToSet(c2b') : Expected(z)'
  <2>1. /\ \A z \in ToSet(ep.posted) \union ToSet(b2c) :
              (Numbered(z) => z.pid # h.pid) => Asked(z)'
        /\ \A z \in ToSet(c2b) : z.pid # h.pid => Expected(z)'
    BY <1>3, <1>4, OthersKept
  <2> QED BY <2>1, AnswerRead
<1>7. Traffic'
  BY <1>2, <1>6, TrafficNext
<1> QED BY <1>2, <1>3, <1>5, <1>7

(* A pubrec is answered by a pubrel, stored behind everything else. *)
LEMMA PubrelSentStep ==
    ASSUME BInv, c2b # <<>>, c2b' = Tail(c2b), b2c' = b2c,
           NEW h \in Stored, h.pid = Head(c2b).pid, IsPublish(h), h.awaits = "pubrec",
           NEW e, e = Entry(h.pid, "pubcomp", h.msg),
           ep' = Posted([ep EXCEPT !.store = Append(Without(@, h.pid), e)], PubrelPacket(h.pid))
    PROVE  /\ ep' \in Endpoints
           /\ e \in StoreEntries
           /\ ep'.store = Append(Without(ep.store, h.pid), e)
           /\ Stored' = (Stored \ {h}) \union {e}
           /\ Distinct(ep'.store)
           /\ ep'.queue = ep.queue
           /\ ep'.posted = IF net = "down" THEN ep.posted ELSE Append(ep.posted, PubrelPacket(h.pid))
           /\ Window' /\ Traffic'
<1> DEFINE x == PubrelPacket(h.pid)
           w == Without(ep.store, h.pid)
<1>1. /\ ep \in Endpoints /\ Distinct(ep.store) /\ ep.store \in Seq(StoreEntries)
      /\ ToSet(ep.queue) \subseteq Stored /\ \A f \in ToSet(ep.queue) : IsPublish(f)
      /\ Queued = {f.pid : f \in ToSet(ep.queue)}
      /\ \A d, f \in Stored : d.pid = f.pid => d = f
      /\ Stored \subseteq StoreEntries
  BY EndpointFacts
<1>2. /\ h.pid \in Pids /\ h.msg \in Messages /\ Qos[h.msg] # 0 /\ Qos[h.msg] # 1
  BY <1>1 DEF StoreEntries
<1>3. e \in StoreEntries /\ e.pid = h.pid /\ e.awaits = "pubcomp" /\ ~IsPublish(e)
  BY <1>2 DEF Entry, StoreEntries, Awaited, IsPublish
<1>4. x \in PacketsToReceiver /\ x.type = "pubrel" /\ x.pid = h.pid /\ x.pid # NoPid
  BY <1>2, PacketsWritten, PidsAreNotNoPid DEF PubrelPacket
<1>5. /\ ep' \in Endpoints
      /\ ep'.store = Append(w, e)
      /\ ep'.pids = ep.pids /\ ep'.count = ep.count /\ ep'.queue = ep.queue
      /\ ep'.resend = ep.resend
      /\ ep'.posted = IF net = "down" THEN ep.posted ELSE Append(ep.posted, x)
  BY <1>1, <1>2, <1>3, <1>4, PubrelSentFields
<1> HIDE DEF x
<1>6. /\ w \in Seq(StoreEntries) /\ Distinct(w)
      /\ ToSet(w) = {f \in Stored : f.pid # h.pid}
  BY <1>1, WithoutOne DEF Stored
<1> HIDE DEF w
<1>7. Distinct(ep'.store) /\ Stored' = (Stored \ {h}) \union {e}
  <2>1. e.pid \notin PidsOf(w)
    BY <1>3, <1>6, PidsAre
  <2>2. Distinct(Append(w, e)) /\ ToSet(Append(w, e)) = ToSet(w) \union {e}
    BY <1>3, <1>6, <2>1, AppendedOne, AppendMembers
  <2>3. {f \in Stored : f.pid # h.pid} = Stored \ {h}
    BY <1>1
  <2> QED BY <1>5, <1>6, <2>2, <2>3 DEF Stored
<1>8. Queued' = Queued
  BY <1>5 DEF Queued
<1>9. h \notin ToSet(ep.queue) /\ h.pid \notin Queued
  BY AnswerRead, <1>1
<1>10. Window'
  <2>1. h \in Holders(Stored, Queued, ep.resend)
    BY <1>9 DEF Holders
  <2>2. Exact(ep.pids, (Stored \ {h}) \union {e}, ep.queue, Queued, ep.count, ep.resend)
    BY <1>3, <2>1, ReplacedCounted
  <2>3. WindowExact'
    BY <1>5, <1>7, <1>8, <2>2, WindowIs
  <2>4. \A f \in ToSet(ep'.queue) : f \in Stored' /\ IsPublish(f)
    BY <1>1, <1>5, <1>7, <1>9
  <2> QED BY <1>5, <2>3, <2>4 DEF BInv, Window
<1>11. /\ \A z \in ToSet(ep.posted) \union ToSet(b2c) : Asked(z)'
       /\ \A z \in ToSet(c2b') : Expected(z)'
  <2>1. /\ \A z \in ToSet(ep.posted) \union ToSet(b2c) :
              (Numbered(z) => z.pid # h.pid) => Asked(z)'
        /\ \A z \in ToSet(c2b) : z.pid # h.pid => Expected(z)'
    BY <1>7, <1>8, OthersKept
  <2> QED BY <2>1, AnswerRead
<1>12. Traffic'
  <2>1. Numbered(x) /\ x.pid = h.pid
    BY <1>4 DEF Numbered
  <2>2. Asked(x)'
    BY <1>3, <1>4, <1>7 DEF Asked
  <2>3. h.pid \notin Carried(ep.posted) \union Carried(b2c) \union Carried(c2b')
    BY AnswerRead
  <2> QED BY <1>4, <1>5, <1>11, <2>1, <2>2, <2>3, TrafficNext
<1> QED BY <1>3, <1>5, <1>7, <1>10, <1>12 DEF w, x

-----------------------------------------------------------------------------
(* A new endpoint, and one nothing happens to *)

LEMMA NothingUnderWay ==
    /\ ep = NewEndpoint /\ b2c = <<>> /\ c2b = <<>> =>
          Distinct(ep.store) /\ Stored = {} /\ Window /\ Traffic
    /\ ep' = NewEndpoint /\ b2c' = <<>> /\ c2b' = <<>> =>
          Distinct(ep'.store) /\ Stored' = {} /\ Window' /\ Traffic'
<1>1. ToSet(<<>>) = {} /\ DOMAIN <<>> = {}
  BY DEF ToSet
<1>2. Cardinality({}) = 0 /\ 0 <= ReceiveMax
  BY FS_EmptySet, PacketsAssumption
<1>3. /\ NewEndpoint.store = <<>> /\ NewEndpoint.pids = {} /\ NewEndpoint.count = 0
      /\ NewEndpoint.queue = <<>> /\ NewEndpoint.posted = <<>>
  BY DEF NewEndpoint
<1>4. Alone(<<>>) /\ Distinct(<<>>) /\ Carried(<<>>) = {}
  BY <1>1 DEF Alone, Distinct, Carried
<1>5. ASSUME ep = NewEndpoint, b2c = <<>>, c2b = <<>>
      PROVE  Distinct(ep.store) /\ Stored = {} /\ Window /\ Traffic
  <2>1. Stored = {} /\ SlotHolders = {}
    BY <1>1, <1>3, <1>5 DEF Stored, SlotHolders
  <2>2. WindowExact
    BY <1>1, <1>2, <1>3, <1>5, <2>1 DEF WindowExact, Leaked
  <2> QED BY <1>1, <1>3, <1>4, <1>5, <2>1, <2>2 DEF Window, Traffic
<1>6. ASSUME ep' = NewEndpoint, b2c' = <<>>, c2b' = <<>>
      PROVE  Distinct(ep'.store) /\ Stored' = {} /\ Window' /\ Traffic'
  <2>1. Stored' = {} /\ SlotHolders' = {}
    BY <1>1, <1>3, <1>6 DEF Stored, SlotHolders
  <2>2. WindowExact'
    BY <1>1, <1>2, <1>3, <1>6, <2>1 DEF WindowExact, Leaked
  <2> QED BY <1>1, <1>3, <1>4, <1>6, <2>1, <2>2 DEF Window, Traffic
<1> QED BY <1>5, <1>6

LEMMA EndpointKept ==
    ASSUME BInv, UNCHANGED <<ep, b2c, c2b>>
    PROVE  Distinct(ep'.store) /\ Stored' = Stored /\ Window' /\ Traffic'
BY DEF BInv, Held, Window, WindowExact, Leaked, SlotHolders, Queued, Traffic, Asked, Expected,
       Stored

LEMMA InitBInv == Init => BInv
<1> SUFFICES ASSUME Init PROVE BInv
  OBVIOUS
<1>1. Len(Qos) \in Nat
  BY PacketsAssumption, LenProperties
<1>2. TypeOK
  <2>1. issued \in 0..Len(Qos)
    BY <1>1 DEF Init
  <2>3. /\ net = "down" /\ resuming = "none" /\ attached \in BOOLEAN
        /\ walked \in Nat /\ connects \in Nat /\ handled \subseteq Pids
    BY DEF Init
  <2>2. /\ ep \in Endpoints /\ inflight \in Seq(StoreEntries) /\ offline \in Seq(Messages)
        /\ b2c \in Seq(PacketsToReceiver) /\ c2b \in Seq(PacketsToSender)
        /\ received \in Seq(Messages)
    BY NewEndpointType, EmptySeq DEF Init
  <2> QED BY <2>1, <2>2, <2>3 DEF TypeOK
<1>3. Connection /\ Distinct(inflight)
  BY DEF Init, Connection, NewEndpoint, Distinct
<1>4. Distinct(ep.store) /\ Window /\ Traffic
  BY NothingUnderWay DEF Init
<1>5. Held
  BY <1>3, <1>4 DEF Init, Held
<1> QED BY <1>2, <1>3, <1>4, <1>5 DEF BInv

-----------------------------------------------------------------------------
(* Every step *)

LEMMA BecomeOfflineStep ==
    ASSUME BInv, BecomeOffline, b2c' = <<>>, c2b' = <<>>, resuming' = "none"
    PROVE  /\ ep' \in Endpoints /\ ep' = NewEndpoint /\ attached' = FALSE
           /\ inflight' \in Seq(StoreEntries)
           /\ ToSet(inflight') = ToSet(inflight) \union {e \in Stored : e.pid \notin PidsOf(inflight)}
           /\ Held' /\ Window' /\ Traffic'
<1> DEFINE P == {i \in DOMAIN ep.store : ~HasPid(inflight, ep.store[i].pid)}
           t == Selected(ep.store, P)
<1>1. /\ inflight \in Seq(StoreEntries) /\ ep.store \in Seq(StoreEntries)
      /\ Distinct(inflight) /\ Distinct(ep.store)
  BY EndpointFacts DEF BInv, TypeOK, Held
<1>2. /\ DOMAIN t = 1..Cardinality(P) /\ Cardinality(P) \in Nat
      /\ Distinct(t)
      /\ ToSet(t) = {ep.store[i] : i \in P}
      /\ ToSet(t) \subseteq StoreEntries
      /\ t \in [1..Cardinality(P) -> StoreEntries]
  <2>1. P \in SUBSET DOMAIN ep.store
    OBVIOUS
  <2> HIDE DEF P
  <2> QED BY <1>1, <2>1, SelectedApart, SelectedEntries
<1>3. ToSet(t) = {e \in Stored : e.pid \notin PidsOf(inflight)}
  BY <1>2 DEF Stored, ToSet, HasPid, PidsOf
<1>4. ep' = NewEndpoint /\ attached' = FALSE /\ inflight' = inflight \o t
  BY DEF BecomeOffline
<1> HIDE DEF P, t
<1>5. t \in Seq(StoreEntries)
  BY <1>2, FunctionsAreSequences
<1>6. \A i \in DOMAIN inflight, j \in DOMAIN t : inflight[i].pid # t[j].pid
  BY <1>3 DEF ToSet, PidsOf
<1>7. /\ inflight' \in Seq(StoreEntries) /\ Distinct(inflight')
      /\ ToSet(inflight') = ToSet(inflight) \union ToSet(t)
  BY <1>1, <1>2, <1>4, <1>5, <1>6, JoinedDistinct
<1>8. Distinct(ep'.store) /\ Window' /\ Traffic'
  BY <1>4, NothingUnderWay
<1>9. Held'
  BY <1>4, <1>7, <1>8 DEF Held
<1> QED BY <1>3, <1>4, <1>7, <1>8, <1>9, NewEndpointType

LEMMA BrokerClosesBInv == ASSUME BInv, BrokerCloses PROVE BInv'
<1>1. /\ net = "down" /\ net' = net /\ resuming' = "none" /\ BecomeOffline
      /\ UNCHANGED <<issued, walked, offline, b2c, c2b, handled, received, connects>>
  BY DEF BrokerCloses
<1>2. b2c = <<>> /\ c2b = <<>>
  BY <1>1 DEF BInv, Connection
<1>3. /\ ep' \in Endpoints /\ ep' = NewEndpoint /\ attached' = FALSE
      /\ inflight' \in Seq(StoreEntries)
      /\ Held' /\ Window' /\ Traffic'
  BY <1>1, <1>2, BecomeOfflineStep
<1>4. TypeOK'
  BY <1>1, <1>3 DEF BInv, TypeOK
<1>5. Connection'
  BY <1>1, <1>2, <1>3 DEF Connection, NewEndpoint
<1> QED BY <1>3, <1>4, <1>5 DEF BInv

LEMMA ConnectBInv == ASSUME BInv, Connect PROVE BInv'
<1>1. /\ net = "down" /\ resuming = "none" /\ net' = "connack" /\ resuming' = resuming
      /\ connects' = connects + 1
      /\ IF attached THEN BecomeOffline ELSE UNCHANGED <<inflight, attached, ep>>
      /\ UNCHANGED <<issued, walked, offline, b2c, c2b, handled, received>>
  BY DEF Connect
<1>2. b2c = <<>> /\ c2b = <<>>
  BY <1>1 DEF BInv, Connection
<1>3. /\ ep' \in Endpoints /\ ep' = NewEndpoint /\ attached' = FALSE
      /\ inflight' \in Seq(StoreEntries)
      /\ Held' /\ Window' /\ Traffic'
  <2>1. CASE attached
    BY <1>1, <1>2, <2>1, BecomeOfflineStep
  <2>2. CASE ~attached
    <3>1. ep = NewEndpoint /\ UNCHANGED <<inflight, attached, ep>>
      BY <1>1, <2>2 DEF BInv, Connection
    <3>2. Distinct(ep'.store) /\ Window' /\ Traffic'
      BY <1>1, <1>2, <3>1, NothingUnderWay
    <3> QED BY <1>1, <2>2, <3>1, <3>2 DEF BInv, TypeOK, Held
  <2> QED BY <2>1, <2>2
<1>4. TypeOK'
  <2>1. connects' \in Nat
    BY <1>1 DEF BInv, TypeOK
  <2>2. UNCHANGED <<issued, resuming, walked, offline, b2c, c2b, handled, received>>
    BY <1>1
  <2> QED BY <1>1, <1>3, <2>1, <2>2 DEF BInv, TypeOK
<1>5. Connection'
  BY <1>1, <1>2, <1>3 DEF Connection, NewEndpoint
<1> QED BY <1>3, <1>4, <1>5 DEF BInv

LEMMA RenewBInv == ASSUME BInv, Renew PROVE BInv'
<1>1. /\ net = "connack" /\ net' = "up" /\ attached' = TRUE /\ ep' = NewEndpoint
      /\ resuming' = "inflight" /\ walked' = 0
      /\ UNCHANGED <<issued, inflight, offline, b2c, c2b, handled, received, connects>>
  BY DEF Renew
<1>2. b2c = <<>> /\ c2b = <<>>
  BY <1>1 DEF BInv, Connection
<1>3. Distinct(ep'.store) /\ Window' /\ Traffic'
  BY <1>1, <1>2, NothingUnderWay
<1>4. TypeOK'
  BY <1>1, NewEndpointType DEF BInv, TypeOK
<1>5. Connection'
  BY <1>1, <1>2 DEF Connection, NewEndpoint
<1>6. Held'
  <2>1. DOMAIN ep'.store = 1..0 /\ \A i \in 1..0 : ep'.store[i] = inflight[i]
    BY <1>1 DEF NewEndpoint
  <2>2. Len(inflight) \in Nat
    BY LenProperties DEF BInv, TypeOK
  <2> QED BY <1>1, <1>3, <2>1, <2>2 DEF BInv, Held
<1> QED BY <1>3, <1>4, <1>5, <1>6 DEF BInv

LEMMA SentAnewStep ==
    ASSUME BInv, NEW m \in Messages, NeedsPid(m), SentAnew(m), b2c' = b2c, c2b' = c2b
    PROVE  \E e \in StoreEntries :
              /\ IsPublish(e) /\ e.msg = m /\ e.pid \notin ep.pids
              /\ e = Entry(e.pid, FirstAnswer(m), m) /\ ep' = PublishSent(ep, e)
              /\ ep' \in Endpoints
              /\ ep'.store = Append(ep.store, e) /\ Stored' = Stored \union {e}
              /\ Distinct(ep'.store)
              /\ net = "down" => ep'.posted = ep.posted
              /\ Window' /\ Traffic'
<1>1. PICK p \in Pids : Acquirable(p) /\ ep' = PublishSent(ep, Entry(p, FirstAnswer(m), m))
  BY DEF SentAnew
<1>2. PICK e \in StoreEntries : /\ e = Entry(p, FirstAnswer(m), m)
                                /\ e.pid = p /\ e.msg = m /\ IsPublish(e)
  <2>1. Entry(p, FirstAnswer(m), m) \in StoreEntries
    BY DEF Entry, FirstAnswer, StoreEntries, Awaited, NeedsPid
  <2> QED BY <2>1 DEF Entry, FirstAnswer, IsPublish
<1>3. e.pid \notin ep.pids
  BY <1>1, <1>2 DEF Acquirable
<1>4. /\ ep' \in Endpoints
      /\ ep'.store = Append(ep.store, e) /\ Stored' = Stored \union {e}
      /\ Distinct(ep'.store)
      /\ net = "down" => ep'.posted = ep.posted
      /\ Window' /\ Traffic'
  BY <1>1, <1>2, <1>3, PublishSentStep
<1> QED BY <1>1, <1>2, <1>3, <1>4

(* A QoS 0 publish passes by the store and the window. *)
LEMMA ZeroPosted ==
    ASSUME BInv, NEW m \in Messages, Qos[m] = 0, b2c' = b2c, c2b' = c2b,
           ep' = Posted(ep, PublishPacket(NoPid, m))
    PROVE  /\ ep' \in Endpoints /\ Stored' = Stored /\ Distinct(ep'.store)
           /\ net = "down" => ep'.posted = ep.posted
           /\ Window' /\ Traffic'
<1> DEFINE x == PublishPacket(NoPid, m)
<1>1. x \in PacketsToReceiver /\ ~Numbered(x) /\ x.type = "publish" /\ x.msg = m
  BY PacketsWritten DEF PublishPacket, Numbered
<1>2. /\ ep' \in Endpoints /\ ep'.store = ep.store /\ ep'.pids = ep.pids
      /\ ep'.count = ep.count /\ ep'.queue = ep.queue /\ ep'.resend = ep.resend
      /\ ep'.posted = IF net = "down" THEN ep.posted ELSE Append(ep.posted, x)
  BY <1>1, EndpointFacts, PostedFields
<1> HIDE DEF x
<1>3. Stored' = Stored /\ Queued' = Queued /\ Distinct(ep'.store)
  BY <1>2, EndpointFacts DEF Stored, Queued
<1>4. Window'
  <2>1. WindowExact'
    BY <1>2, <1>3, WindowIs DEF BInv, Window
  <2> QED BY <1>2, <1>3, <2>1 DEF BInv, Window
<1>5. /\ \A y \in ToSet(ep.posted) \union ToSet(b2c) : Asked(y)'
      /\ \A y \in ToSet(c2b) : Expected(y)'
  BY <1>3 DEF BInv, Traffic, Asked, Expected
<1>6. Traffic'
  <2>1. CASE ep'.posted = ep.posted
    BY <1>5, <2>1, TrafficNext
  <2>2. CASE ep'.posted = Append(ep.posted, x)
    <3>1. /\ ToSet(ep'.posted) = ToSet(ep.posted) \union {x}
          /\ Carried(ep'.posted) = Carried(ep.posted)
          /\ Alone(ep'.posted)
      <4>1. ep.posted \in Seq(PacketsToReceiver) /\ Alone(ep.posted)
        BY EndpointFacts DEF BInv, Traffic
      <4>2. /\ ToSet(Append(ep.posted, x)) = ToSet(ep.posted) \union {x}
            /\ Carried(Append(ep.posted, x)) =
                  Carried(ep.posted) \union (IF Numbered(x) THEN {x.pid} ELSE {})
            /\ Alone(Append(ep.posted, x))
        BY <1>1, <4>1, AppendMembers
      <4>3. Carried(Append(ep.posted, x)) = Carried(ep.posted)
        BY <1>1, <4>2
      <4> QED BY <2>2, <4>2, <4>3
    <3>2. Asked(x)'
      BY <1>1 DEF Asked
    <3> QED BY <1>5, <3>1, <3>2 DEF BInv, Traffic
  <2> QED BY <1>2, <2>1, <2>2
<1> QED BY <1>2, <1>3, <1>4, <1>6

LEMMA IssuedNext ==
    ASSUME BInv, issued < Len(Qos)
    PROVE  issued + 1 \in Messages /\ issued + 1 \in 0..Len(Qos)
<1>1. Len(Qos) \in Nat
  BY PacketsAssumption, LenProperties
<1> QED BY <1>1 DEF BInv, TypeOK, Messages

LEMMA PublishBInv == ASSUME BInv, ~Interleaved, Publish PROVE BInv'
<1> DEFINE m == issued + 1
<1>1. /\ resuming = "none" /\ issued' = m /\ issued < Len(Qos)
      /\ UNCHANGED <<net, resuming, walked, attached, inflight, b2c, c2b, handled, received,
                     connects>>
  BY DEF Publish
<1>2. m \in Messages /\ m \in 0..Len(Qos)
  BY <1>1, IssuedNext
<1>3. /\ GoesOut(m) => /\ IF NeedsPid(m) THEN SentAnew(m)
                          ELSE ep' = Posted(ep, PublishPacket(NoPid, m))
                       /\ UNCHANGED offline
      /\ ~GoesOut(m) => offline' = Append(offline, m) /\ UNCHANGED ep
  <2>1. IF GoesOut(issued')
        THEN /\ IF NeedsPid(issued') THEN SentAnew(issued')
                ELSE ep' = Posted(ep, PublishPacket(NoPid, issued'))
             /\ UNCHANGED offline
        ELSE offline' = Append(offline, issued') /\ UNCHANGED ep
    BY DEF Publish
  <2> QED BY <1>1, <2>1
<1> HIDE DEF m
<1>4. /\ ep' \in Endpoints /\ offline' \in Seq(Messages)
      /\ Stored \subseteq Stored' /\ Distinct(ep'.store)
      /\ ~attached => ep' = ep
      /\ net = "down" => ep'.posted = ep.posted
      /\ Window' /\ Traffic'
  <2>1. offline \in Seq(Messages) /\ ep \in Endpoints
    BY DEF BInv, TypeOK
  <2>2. CASE GoesOut(m) /\ NeedsPid(m)
    <3>1. attached /\ SentAnew(m) /\ offline' = offline
      BY <1>3, <2>2 DEF GoesOut
    <3> QED BY <1>1, <1>2, <2>1, <2>2, <3>1, SentAnewStep
  <2>3. CASE GoesOut(m) /\ ~NeedsPid(m)
    <3>1. attached /\ ep' = Posted(ep, PublishPacket(NoPid, m)) /\ offline' = offline /\ Qos[m] = 0
      BY <1>3, <2>3 DEF GoesOut, NeedsPid
    <3> QED BY <1>1, <1>2, <2>1, <3>1, ZeroPosted
  <2>4. CASE ~GoesOut(m)
    <3>1. offline' = Append(offline, m) /\ UNCHANGED ep
      BY <1>3, <2>4
    <3>2. offline' \in Seq(Messages)
      BY <1>2, <2>1, <3>1, AppendProperties
    <3> QED BY <1>1, <2>1, <3>1, <3>2, EndpointKept
  <2> QED BY <2>2, <2>3, <2>4
<1>5. TypeOK'
  BY <1>1, <1>2, <1>4 DEF BInv, TypeOK
<1>6. Connection'
  BY <1>1, <1>4 DEF BInv, TypeOK, Connection, NewEndpoint
<1>7. Held'
  BY <1>1, <1>4 DEF BInv, Held
<1> QED BY <1>4, <1>5, <1>6, <1>7 DEF BInv

(* The next inflight message is sent: no earlier one has its packet id. *)
LEMMA SendInflightStep ==
    ASSUME BInv, SendInflight
    PROVE  /\ resuming = "inflight" /\ net = "up" /\ attached /\ b2c = <<>> /\ c2b = <<>>
           /\ UNCHANGED <<issued, net, attached, inflight, offline, b2c, c2b,
                          handled, received, connects>>
           /\ \/ /\ walked = Len(inflight) /\ resuming' = "offline" /\ UNCHANGED <<walked, ep>>
                 /\ ToSet(inflight) \subseteq Stored
              \/ /\ walked < Len(inflight) /\ walked' = walked + 1 /\ UNCHANGED resuming
                 /\ \E e \in StoreEntries :
                       /\ e = inflight[walked'] /\ walked' \in DOMAIN inflight
                       /\ e.pid \notin ep.pids
                       /\ \/ IsPublish(e) /\ ep' = PublishSent(ep, e)
                          \/ ~IsPublish(e) /\ ep' = PubrelResent(ep, e)
<1>1. /\ resuming = "inflight"
      /\ UNCHANGED <<issued, net, attached, inflight, offline, b2c, c2b,
                     handled, received, connects>>
  BY DEF SendInflight
<1>2. net = "up" /\ attached /\ b2c = <<>> /\ c2b = <<>>
  BY <1>1 DEF BInv, Connection
<1>3. /\ walked <= Len(inflight) /\ DOMAIN ep.store = 1..walked
      /\ \A i \in 1..walked : ep.store[i] = inflight[i]
      /\ Distinct(inflight)
  BY <1>1 DEF BInv, Held
<1>4. /\ walked \in Nat /\ Len(inflight) \in Nat /\ DOMAIN inflight = 1..Len(inflight)
      /\ \A i \in 1..Len(inflight) : inflight[i] \in StoreEntries
  BY LenProperties DEF BInv, TypeOK
<1>5. CASE walked < Len(inflight)
  <2>1. /\ ep' = StoreMessageSent(ep, inflight[walked + 1])
        /\ walked' = walked + 1 /\ UNCHANGED resuming
    BY <1>5 DEF SendInflight
  <2>2. PICK e \in StoreEntries : e = inflight[walked + 1] /\ walked + 1 \in DOMAIN inflight
    BY <1>4, <1>5
  <2>3. e.pid \notin ep.pids
    <3>1. ep.pids = PidsOf(ep.store)
      BY EndpointFacts
    <3>2. ASSUME NEW i \in 1..walked PROVE ep.store[i].pid # e.pid
      <4>1. i \in DOMAIN inflight /\ i # walked + 1
        BY <1>4, <1>5
      <4> QED BY <1>3, <2>2, <4>1 DEF Distinct
    <3> QED BY <1>3, <3>1, <3>2 DEF PidsOf
  <2>4. \/ IsPublish(e) /\ ep' = PublishSent(ep, e)
        \/ ~IsPublish(e) /\ ep' = PubrelResent(ep, e)
    BY <2>1, <2>2 DEF StoreMessageSent
  <2> QED BY <1>1, <1>2, <1>5, <2>1, <2>2, <2>3, <2>4
<1>6. CASE ~(walked < Len(inflight))
  <2>1. resuming' = "offline" /\ UNCHANGED <<walked, ep>>
    BY <1>6 DEF SendInflight
  <2>2. walked = Len(inflight)
    BY <1>3, <1>4, <1>6
  <2>3. ToSet(inflight) \subseteq Stored
    BY <1>3, <1>4, <2>2 DEF ToSet, Stored
  <2> QED BY <1>1, <1>2, <2>1, <2>2, <2>3
<1> QED BY <1>5, <1>6

LEMMA SendInflightBInv == ASSUME BInv, SendInflight PROVE BInv'
<1>1. /\ resuming = "inflight" /\ net = "up" /\ attached /\ b2c = <<>> /\ c2b = <<>>
      /\ UNCHANGED <<issued, net, attached, inflight, offline, b2c, c2b,
                     handled, received, connects>>
  BY SendInflightStep
<1>2. CASE /\ walked = Len(inflight) /\ resuming' = "offline" /\ UNCHANGED <<walked, ep>>
           /\ ToSet(inflight) \subseteq Stored
  <2>1. Distinct(ep'.store) /\ Stored' = Stored /\ Window' /\ Traffic'
    BY <1>1, <1>2, EndpointKept
  <2>2. TypeOK'
    BY <1>1, <1>2 DEF BInv, TypeOK
  <2>3. Connection' /\ Held'
    BY <1>1, <1>2, <2>1 DEF BInv, Connection, Held
  <2> QED BY <2>1, <2>2, <2>3 DEF BInv
<1>3. ASSUME NEW e \in StoreEntries, e = inflight[walked'], walked' \in DOMAIN inflight,
             e.pid \notin ep.pids,
             \/ IsPublish(e) /\ ep' = PublishSent(ep, e)
             \/ ~IsPublish(e) /\ ep' = PubrelResent(ep, e),
             walked < Len(inflight), walked' = walked + 1, UNCHANGED resuming
      PROVE  BInv'
  <2>1. /\ ep' \in Endpoints
        /\ ep'.store = Append(ep.store, e) /\ Distinct(ep'.store)
        /\ Window' /\ Traffic'
    <3>1. CASE IsPublish(e) /\ ep' = PublishSent(ep, e)
      BY <1>1, <1>3, <3>1, PublishSentStep
    <3>2. CASE ~IsPublish(e) /\ ep' = PubrelResent(ep, e)
      BY <1>1, <1>3, <3>2, PubrelResentStep
    <3> QED BY <1>3, <3>1, <3>2
  <2>2. TypeOK'
    BY <1>1, <1>3, <2>1 DEF BInv, TypeOK
  <2>3. Connection'
    BY <1>1, <1>3 DEF BInv, Connection
  <2>4. Held'
    <3>1. /\ walked \in Nat /\ Len(inflight) \in Nat
          /\ ep.store \in Seq(StoreEntries) /\ DOMAIN ep.store = 1..walked
          /\ \A i \in 1..walked : ep.store[i] = inflight[i]
          /\ Distinct(inflight)
      BY <1>1, EndpointFacts, LenProperties DEF BInv, TypeOK, Held
    <3>2. Len(ep.store) = walked
      BY <3>1, LenProperties
    <3>3. /\ DOMAIN ep'.store = 1..walked'
          /\ \A i \in 1..walked' : ep'.store[i] = inflight[i]
      BY <1>3, <2>1, <3>1, <3>2, AfterAppend
    <3> QED BY <1>1, <1>3, <2>1, <3>1, <3>3 DEF Held
  <2> QED BY <2>1, <2>2, <2>3, <2>4 DEF BInv
<1> QED BY <1>2, <1>3, SendInflightStep

(* A QoS 0 message that waited goes straight to the socket. *)
LEMMA ZeroWritten ==
    ASSUME BInv, NEW m \in Messages, Qos[m] = 0,
           b2c' = Append(b2c, PublishPacket(NoPid, m)), UNCHANGED <<ep, c2b>>
    PROVE  /\ b2c' \in Seq(PacketsToReceiver)
           /\ Distinct(ep'.store) /\ Stored' = Stored /\ Window' /\ Traffic'
<1> DEFINE x == PublishPacket(NoPid, m)
<1>1. x \in PacketsToReceiver /\ ~Numbered(x) /\ x.type = "publish" /\ x.msg = m
  BY PacketsWritten DEF PublishPacket, Numbered
<1> HIDE DEF x
<1>2. b2c \in Seq(PacketsToReceiver) /\ Alone(b2c)
  BY DEF BInv, TypeOK, Traffic
<1>3. /\ ToSet(Append(b2c, x)) = ToSet(b2c) \union {x}
      /\ Carried(Append(b2c, x)) = Carried(b2c) \union (IF Numbered(x) THEN {x.pid} ELSE {})
      /\ Alone(Append(b2c, x))
      /\ Append(b2c, x) \in Seq(PacketsToReceiver)
  BY <1>1, <1>2, AppendMembers, AppendProperties
<1>4. Carried(Append(b2c, x)) = Carried(b2c) /\ b2c' = Append(b2c, x)
  BY <1>1, <1>3 DEF x
<1>5. /\ Distinct(ep'.store) /\ Stored' = Stored /\ Queued' = Queued /\ Window'
  BY EndpointFacts DEF BInv, Stored, Queued, Window, WindowExact, Leaked, SlotHolders
<1>6. /\ \A y \in ToSet(ep.posted) \union ToSet(b2c) : Asked(y)'
      /\ \A y \in ToSet(c2b) : Expected(y)'
      /\ Asked(x)'
  BY <1>1, <1>5 DEF BInv, Traffic, Asked, Expected
<1>7. Traffic'
  BY <1>3, <1>4, <1>6 DEF BInv, Traffic
<1> QED BY <1>3, <1>4, <1>5, <1>7

LEMMA SendOfflineBInv == ASSUME BInv, SendOffline PROVE BInv'
<1>1. /\ resuming \in {"offline", "sending"} /\ resuming' \in {"none", "sending"}
      /\ UNCHANGED <<issued, net, walked, attached, inflight, c2b, handled, received, connects>>
  BY DEF SendOffline
<1>2. net = "up" /\ attached
  BY <1>1 DEF BInv, Connection
<1>3. offline \in Seq(Messages)
  BY DEF BInv, TypeOK
<1>4. /\ ep' \in Endpoints /\ offline' \in Seq(Messages) /\ b2c' \in Seq(PacketsToReceiver)
      /\ Stored \subseteq Stored' /\ Distinct(ep'.store)
      /\ Window' /\ Traffic'
  <2>1. CASE offline # <<>> /\ offline' = Tail(offline) /\ OfflineSent(Head(offline))
    <3>1. PICK m \in Messages : m = Head(offline)
      BY <1>3, <2>1, HeadTailProperties
    <3>2. offline' \in Seq(Messages)
      BY <1>3, <2>1, HeadTailProperties
    <3>3. CASE NeedsPid(m)
      <4>1. SentAnew(m) /\ b2c' = b2c
        BY <2>1, <3>1, <3>3 DEF OfflineSent
      <4>2. b2c' \in Seq(PacketsToReceiver)
        BY <4>1 DEF BInv, TypeOK
      <4> QED BY <1>1, <3>2, <3>3, <4>1, <4>2, SentAnewStep
    <3>4. CASE ~NeedsPid(m)
      <4>1. b2c' = Append(b2c, PublishPacket(NoPid, m)) /\ UNCHANGED ep /\ Qos[m] = 0
        BY <2>1, <3>1, <3>4 DEF OfflineSent, NeedsPid
      <4>2. ep' \in Endpoints
        BY <4>1 DEF BInv, TypeOK
      <4> QED BY <1>1, <3>2, <4>1, <4>2, ZeroWritten
    <3> QED BY <3>3, <3>4
  <2>2. CASE UNCHANGED <<offline, ep, b2c>>
    <3>1. Distinct(ep'.store) /\ Stored' = Stored /\ Window' /\ Traffic'
      BY <1>1, <2>2, EndpointKept
    <3> QED BY <2>2, <3>1 DEF BInv, TypeOK
  <2> QED BY <2>1, <2>2 DEF SendOffline
<1>5. TypeOK'
  BY <1>1, <1>4 DEF BInv, TypeOK
<1>6. Connection'
  BY <1>1, <1>2 DEF BInv, Connection
<1>7. Held'
  BY <1>1, <1>2, <1>4 DEF BInv, Held
<1> QED BY <1>4, <1>5, <1>6, <1>7 DEF BInv

(* The queue's head gets under way. *)
LEMMA WriteBInv == ASSUME BInv, Write PROVE BInv'
<1> DEFINE x == Head(ep.posted)
           t == Tail(ep.posted)
<1>1. /\ net = "up" /\ resuming = "none" /\ ep.posted # <<>>
      /\ b2c' = Append(b2c, x)
      /\ ep' = [ep EXCEPT !.posted = t]
      /\ UNCHANGED <<issued, net, resuming, walked, attached, inflight, offline, c2b,
                     handled, received, connects>>
  BY DEF Write
<1>2. /\ ep \in Endpoints /\ ep.posted \in Seq(PacketsToReceiver) /\ b2c \in Seq(PacketsToReceiver)
      /\ Alone(ep.posted) /\ Alone(b2c)
      /\ Carried(ep.posted) \intersect Carried(b2c) = {}
      /\ (Carried(ep.posted) \union Carried(b2c)) \intersect Carried(c2b) = {}
      /\ attached
  BY <1>1, EndpointFacts DEF BInv, TypeOK, Traffic, Connection
<1>3. /\ t \in Seq(PacketsToReceiver) /\ x \in PacketsToReceiver
      /\ ToSet(ep.posted) = ToSet(t) \union {x}
      /\ Carried(t) \subseteq Carried(ep.posted) /\ Alone(t)
      /\ Numbered(x) => x.pid \in Carried(ep.posted) /\ x.pid \notin Carried(t)
  BY <1>1, <1>2, TailMembers, HeadTailProperties
<1> HIDE DEF x, t
<1>4. /\ ep' \in Endpoints /\ ep'.store = ep.store /\ ep'.pids = ep.pids
      /\ ep'.count = ep.count /\ ep'.queue = ep.queue /\ ep'.resend = ep.resend
      /\ ep'.posted = t
  BY <1>1, <1>2, <1>3 DEF Endpoints
<1>5. /\ ToSet(Append(b2c, x)) = ToSet(b2c) \union {x}
      /\ Carried(Append(b2c, x)) = Carried(b2c) \union (IF Numbered(x) THEN {x.pid} ELSE {})
      /\ Alone(Append(b2c, x))
      /\ Append(b2c, x) \in Seq(PacketsToReceiver)
  <2>1. Numbered(x) => x.pid \notin Carried(b2c)
    BY <1>2, <1>3
  <2>2. Append(b2c, x) \in Seq(PacketsToReceiver)
    BY <1>2, <1>3, AppendProperties
  <2> QED BY <1>2, <1>3, <2>1, <2>2, AppendMembers
<1>6. Stored' = Stored /\ Queued' = Queued /\ Distinct(ep'.store)
  BY <1>4, EndpointFacts DEF Stored, Queued
<1>7. Window'
  <2>1. WindowExact'
    BY <1>4, <1>6, WindowIs DEF BInv, Window
  <2> QED BY <1>4, <1>6, <2>1 DEF BInv, Window
<1>8. Traffic'
  <2>1. /\ \A y \in ToSet(ep.posted) \union ToSet(b2c) : Asked(y)'
        /\ \A y \in ToSet(c2b) : Expected(y)'
    BY <1>6 DEF BInv, Traffic, Asked, Expected
  <2>2. \A y \in ToSet(ep'.posted) \union ToSet(b2c') : Asked(y)'
    BY <1>1, <1>3, <1>4, <1>5, <2>1
  <2>3. /\ Carried(ep'.posted) \intersect Carried(b2c') = {}
        /\ (Carried(ep'.posted) \union Carried(b2c')) \intersect Carried(c2b) = {}
    BY <1>1, <1>2, <1>3, <1>4, <1>5
  <2>4. /\ Alone(ep'.posted) /\ Alone(b2c') /\ Alone(c2b')
        /\ c2b' = c2b
    BY <1>1, <1>3, <1>4, <1>5 DEF BInv, Traffic
  <2> QED BY <2>1, <2>2, <2>3, <2>4 DEF Traffic
<1>9. TypeOK'
  BY <1>1, <1>4, <1>5 DEF BInv, TypeOK
<1>10. Connection'
  BY <1>1, <1>2 DEF BInv, Connection
<1>11. Held'
  BY <1>1, <1>6 DEF BInv, Held
<1> QED BY <1>7, <1>8, <1>9, <1>10, <1>11 DEF BInv

LEMMA MessageExpiresBInv == ASSUME BInv, MessageExpires PROVE BInv'
<1>1. /\ resuming = "none"
      /\ UNCHANGED <<issued, net, resuming, walked, attached, ep, b2c, c2b, handled, received,
                     connects>>
  BY DEF MessageExpires
<1>2. Distinct(ep'.store) /\ Stored' = Stored /\ Window' /\ Traffic'
  BY <1>1, EndpointKept
<1>3. /\ offline \in Seq(Messages) /\ inflight \in Seq(StoreEntries) /\ Distinct(inflight)
  BY DEF BInv, TypeOK, Held
<1>4. /\ offline' \in Seq(Messages) /\ inflight' \in Seq(StoreEntries) /\ Distinct(inflight')
      /\ ToSet(inflight') \subseteq ToSet(inflight)
  <2>1. ASSUME NEW i \in DOMAIN offline, OfflineExpires(i)
        PROVE  offline' \in Seq(Messages) /\ inflight' = inflight
    BY <1>3, <2>1, AfterRemoveAt DEF OfflineExpires
  <2>2. ASSUME NEW i \in DOMAIN inflight, InflightExpires(i)
        PROVE  /\ inflight' \in Seq(StoreEntries) /\ Distinct(inflight')
               /\ ToSet(inflight') \subseteq ToSet(inflight) /\ offline' = offline
    BY <1>3, <2>2, RemovedOne DEF InflightExpires
  <2> QED BY <1>3, <2>1, <2>2 DEF MessageExpires
<1>5. TypeOK'
  BY <1>1, <1>4 DEF BInv, TypeOK
<1>6. Connection'
  BY <1>1 DEF BInv, Connection
<1>7. Held'
  BY <1>1, <1>2, <1>4 DEF BInv, Held
<1> QED BY <1>2, <1>5, <1>6, <1>7 DEF BInv

LEMMA ConnectionBreaksBInv == ASSUME BInv, ConnectionBreaks PROVE BInv'
<1>1. /\ net' = "down" /\ resuming = "none" /\ b2c' = <<>> /\ c2b' = <<>>
      /\ ep' = [ep EXCEPT !.posted = <<>>]
      /\ UNCHANGED <<issued, resuming, walked, attached, inflight, offline, handled, received,
                     connects>>
  BY DEF ConnectionBreaks
<1>2. ep \in Endpoints /\ <<>> \in Seq(PacketsToReceiver) /\ <<>> \in Seq(PacketsToSender)
  BY EndpointFacts, EmptySeq
<1>3. /\ ep' \in Endpoints /\ ep'.store = ep.store /\ ep'.pids = ep.pids
      /\ ep'.count = ep.count /\ ep'.queue = ep.queue /\ ep'.resend = ep.resend
      /\ ep'.posted = <<>>
  BY <1>1, <1>2 DEF Endpoints
<1>4. Stored' = Stored /\ Queued' = Queued /\ Distinct(ep'.store)
  BY <1>3, EndpointFacts DEF Stored, Queued
<1>5. Window'
  <2>1. WindowExact'
    BY <1>3, <1>4, WindowIs DEF BInv, Window
  <2> QED BY <1>3, <1>4, <2>1 DEF BInv, Window
<1>6. Traffic'
  <2>1. DOMAIN <<>> = {} /\ ToSet(<<>>) = {} /\ Carried(<<>>) = {} /\ Alone(<<>>)
    BY DEF ToSet, Carried, Alone
  <2> QED BY <1>1, <1>3, <2>1 DEF Traffic
<1>7. TypeOK'
  BY <1>1, <1>2, <1>3 DEF BInv, TypeOK
<1>8. Connection'
  <2>1. ~attached => ep' = NewEndpoint
    BY <1>1 DEF BInv, Connection, NewEndpoint
  <2> QED BY <1>1, <1>3, <2>1 DEF BInv, Connection
<1>9. Held'
  BY <1>1, <1>4 DEF BInv, Held
<1> QED BY <1>5, <1>6, <1>7, <1>8, <1>9 DEF BInv

(* The answer is the one its message waits for: no answer is a protocol error. *)
LEMMA AnswerCases ==
    ASSUME BInv, BrokerReads
    PROVE  /\ net = "up" /\ attached /\ resuming = "none" /\ resuming' \in {"none", "offline"}
           /\ c2b # <<>> /\ c2b' = Tail(c2b)
           /\ UNCHANGED <<net, attached, offline, b2c, issued, walked, handled, received, connects>>
           /\ \E h \in Stored :
                 /\ h.pid = Head(c2b).pid /\ h.awaits = Head(c2b).type
                 /\ inflight' = Without(inflight, h.pid)
                 /\ \/ /\ ep' = SlotReleased(Acknowledged(ep, h.pid))
                       /\ h \in Holders(Stored, Queued, ep.resend)
                       /\ h.awaits = "pubrec" => V5 /\ IsError(Head(c2b).reason)
                    \/ /\ ep' = Acknowledged(ep, h.pid)
                       /\ ~IsPublish(h) /\ h.pid \in ep.resend
                    \/ /\ IsPublish(h) /\ h.awaits = "pubrec"
                       /\ ep' = Posted([ep EXCEPT !.store = Append(Without(@, h.pid),
                                                                   Entry(h.pid, "pubcomp", h.msg))],
                                       PubrelPacket(h.pid))
<1> DEFINE x == Head(c2b)
<1>1. /\ c2b # <<>> /\ resuming = "none"
      /\ \/ x.type = "puback"  /\ Puback(x.pid)
         \/ x.type = "pubrec"  /\ Pubrec(x.pid, x.reason)
         \/ x.type = "pubcomp" /\ Pubcomp(x.pid)
      /\ UNCHANGED <<issued, walked, handled, received, connects>>
  BY DEF BrokerReads
<1>2. net = "up" /\ attached
  BY <1>1 DEF BInv, Connection
<1>3. x \in ToSet(c2b) /\ x.pid \notin Queued
  BY <1>1, TailMembers DEF BInv, TypeOK, Traffic, Expected
<1>4. PICK h \in Stored : h.pid = x.pid /\ h.awaits = x.type
  BY <1>3 DEF BInv, Traffic, Expected
<1>5. Holds(x.pid, x.type)
  BY <1>4 DEF Holds, Stored, ToSet
<1> HIDE DEF x
<1>6. CASE x.type = "puback"
  <2>1. Puback(x.pid)
    BY <1>1, <1>6
  <2>2. /\ Read /\ resuming' = "offline" /\ inflight' = Without(inflight, h.pid)
        /\ ep' = SlotReleased(Acknowledged(ep, h.pid))
    BY <1>4, <1>5, <1>6, <2>1 DEF Puback
  <2>3. h \in Holders(Stored, Queued, ep.resend)
    BY <1>3, <1>4, <1>6 DEF Holders, IsPublish
  <2> QED BY <1>1, <1>2, <1>4, <1>6, <2>2, <2>3 DEF Read, x
<1>7. CASE x.type = "pubrec"
  <2>1. Pubrec(x.pid, x.reason)
    BY <1>1, <1>7
  <2>2. /\ Read /\ resuming' = resuming /\ inflight' = Without(inflight, h.pid)
        /\ V5 /\ IsError(x.reason) => ep' = SlotReleased(Acknowledged(ep, h.pid))
        /\ ~(V5 /\ IsError(x.reason)) =>
              ep' = Posted([ep EXCEPT !.store = Append(Without(@, h.pid),
                               Entry(h.pid, "pubcomp", (CHOOSE e \in ToSet(ep.store) :
                                                            e.pid = h.pid).msg))],
                           PubrelPacket(h.pid))
    BY <1>4, <1>5, <1>7, <2>1 DEF Pubrec
  <2>3. (CHOOSE e \in ToSet(ep.store) : e.pid = h.pid) = h
    BY EndpointFacts DEF Stored
  <2>4. h \in Holders(Stored, Queued, ep.resend) /\ IsPublish(h)
    BY <1>3, <1>4, <1>7 DEF Holders, IsPublish
  <2> QED BY <1>1, <1>2, <1>4, <1>7, <2>2, <2>3, <2>4 DEF Read, x
<1>8. CASE x.type = "pubcomp"
  <2>1. Pubcomp(x.pid)
    BY <1>1, <1>8
  <2>2. /\ Read /\ resuming' = "offline" /\ inflight' = Without(inflight, h.pid)
        /\ ep' = IF h.pid \in Acknowledged(ep, h.pid).resend THEN Acknowledged(ep, h.pid)
                 ELSE SlotReleased(Acknowledged(ep, h.pid))
    BY <1>4, <1>5, <1>8, <2>1 DEF Pubcomp
  <2>3. Acknowledged(ep, h.pid).resend = ep.resend
    BY EndpointFacts, AcknowledgedFields
  <2>4. ~IsPublish(h)
    BY <1>4, <1>8 DEF IsPublish
  <2>5. h.pid \notin ep.resend => h \in Holders(Stored, Queued, ep.resend)
    BY <2>4 DEF Holders
  <2> QED BY <1>1, <1>2, <1>4, <1>8, <2>2, <2>3, <2>4, <2>5 DEF Read, x
<1> QED BY <1>1, <1>6, <1>7, <1>8

LEMMA BrokerReadsBInv == ASSUME BInv, BrokerReads PROVE BInv'
<1>1. /\ net = "up" /\ attached /\ resuming = "none" /\ resuming' \in {"none", "offline"}
      /\ c2b # <<>> /\ c2b' = Tail(c2b)
      /\ UNCHANGED <<net, attached, offline, b2c, issued, walked, handled, received, connects>>
  BY AnswerCases
<1>2. PICK h \in Stored :
         /\ h.pid = Head(c2b).pid /\ h.awaits = Head(c2b).type
         /\ inflight' = Without(inflight, h.pid)
         /\ \/ /\ ep' = SlotReleased(Acknowledged(ep, h.pid))
               /\ h \in Holders(Stored, Queued, ep.resend)
            \/ /\ ep' = Acknowledged(ep, h.pid)
               /\ ~IsPublish(h) /\ h.pid \in ep.resend
            \/ /\ IsPublish(h) /\ h.awaits = "pubrec"
               /\ ep' = Posted([ep EXCEPT !.store = Append(Without(@, h.pid),
                                                           Entry(h.pid, "pubcomp", h.msg))],
                               PubrelPacket(h.pid))
  BY AnswerCases
<1>3. /\ ep' \in Endpoints /\ Distinct(ep'.store)
      /\ Stored \ {h} \subseteq Stored'
      /\ Window' /\ Traffic'
  <2>1. CASE /\ ep' = SlotReleased(Acknowledged(ep, h.pid))
             /\ h \in Holders(Stored, Queued, ep.resend)
    BY <1>1, <1>2, <2>1, ReleaseStep
  <2>2. CASE /\ ep' = Acknowledged(ep, h.pid)
             /\ ~IsPublish(h) /\ h.pid \in ep.resend
    BY <1>1, <1>2, <2>2, ResentStep
  <2>3. CASE /\ IsPublish(h) /\ h.awaits = "pubrec"
             /\ ep' = Posted([ep EXCEPT !.store = Append(Without(@, h.pid),
                                                         Entry(h.pid, "pubcomp", h.msg))],
                             PubrelPacket(h.pid))
    <3> DEFINE e == Entry(h.pid, "pubcomp", h.msg)
    <3>1. ep' = Posted([ep EXCEPT !.store = Append(Without(@, h.pid), e)], PubrelPacket(h.pid))
      BY <2>3
    <3>2. /\ ep' \in Endpoints /\ Distinct(ep'.store)
          /\ Stored' = (Stored \ {h}) \union {e}
          /\ Window' /\ Traffic'
      BY <1>1, <1>2, <2>3, <3>1, PubrelSentStep
    <3> HIDE DEF e
    <3> QED BY <3>2
  <2> QED BY <1>2, <2>1, <2>2, <2>3
<1>4. /\ inflight' \in Seq(StoreEntries) /\ Distinct(inflight')
      /\ ToSet(inflight') = {e \in ToSet(inflight) : e.pid # h.pid}
  BY <1>2, WithoutOne DEF BInv, TypeOK, Held
<1>5. TypeOK'
  <2>1. c2b' \in Seq(PacketsToSender)
    BY <1>1, HeadTailProperties DEF BInv, TypeOK
  <2> QED BY <1>1, <1>3, <1>4, <2>1 DEF BInv, TypeOK
<1>6. Connection'
  BY <1>1 DEF BInv, Connection
<1>7. Held'
  <2>1. ToSet(inflight) \subseteq Stored
    BY <1>1 DEF BInv, Held
  <2>2. ToSet(inflight') \subseteq Stored'
    BY <1>3, <1>4, <2>1
  <2> QED BY <1>1, <1>3, <1>4, <2>2 DEF Held
<1> QED BY <1>3, <1>5, <1>6, <1>7 DEF BInv

(* The subscriber's answer is the one the message's entry waits for. *)
LEMMA SubscriberCases ==
    ASSUME BInv, SubscriberReads
    PROVE  LET x == Head(b2c)
           IN  /\ b2c # <<>> /\ b2c' = Tail(b2c)
               /\ UNCHANGED <<issued, net, resuming, walked, attached, ep, inflight, offline, connects>>
               /\ x \in ToSet(b2c) /\ x \in PacketsToReceiver /\ Asked(x)
               /\ handled' \subseteq Pids /\ received' \in Seq(Messages)
               /\ \/ x.type = "publish" /\ Qos[x.msg] = 0 /\ c2b' = c2b
                  \/ \E a \in PacketsToSender :
                        /\ c2b' = Append(c2b, a) /\ Numbered(x)
                        /\ a.pid = x.pid /\ Numbered(a) /\ Expected(a)
<1> DEFINE x == Head(b2c)
           Covered == \/ x.type = "publish" /\ Qos[x.msg] = 0 /\ c2b' = c2b
                      \/ \E a \in PacketsToSender :
                            /\ c2b' = Append(c2b, a) /\ Numbered(x)
                            /\ a.pid = x.pid /\ Numbered(a) /\ Expected(a)
<1>1. /\ b2c # <<>> /\ b2c' = Tail(b2c)
      /\ UNCHANGED <<issued, net, resuming, walked, attached, ep, inflight, offline, connects>>
      /\ \/ /\ x.type = "publish"
            /\ \/ Qos[x.msg] = 0 /\ ReceiveQos0(x.msg)
               \/ Qos[x.msg] = 1 /\ ReceiveQos1(x.pid, x.msg)
               \/ Qos[x.msg] = 2 /\ ReceiveQos2(x.pid, x.msg)
         \/ x.type = "pubrel" /\ ReceivePubrel(x.pid)
  BY DEF SubscriberReads
<1>2. x \in ToSet(b2c) /\ x \in PacketsToReceiver /\ Asked(x)
  <2>1. x \in ToSet(b2c)
    BY <1>1, TailMembers DEF BInv, TypeOK
  <2> QED BY <2>1, UnderWayStored DEF BInv, Traffic
<1>3. /\ handled \subseteq Pids /\ received \in Seq(Messages)
      /\ \A m \in Messages : Append(received, m) \in Seq(Messages)
  BY AppendProperties DEF BInv, TypeOK
<1> HIDE DEF x
<1>4. CASE x.type = "publish" /\ Qos[x.msg] = 0
  <2>1. ReceiveQos0(x.msg) /\ x.msg \in Messages
    BY <1>1, <1>2, <1>4, PacketsToReceiverFields
  <2> QED BY <1>1, <1>2, <1>3, <1>4, <2>1 DEF ReceiveQos0, x
<1>5. CASE x.type = "publish" /\ Qos[x.msg] # 0
  <2>1. /\ x.pid \in Pids /\ x.msg \in Messages /\ x.pid # NoPid /\ Numbered(x)
        /\ Entry(x.pid, FirstAnswer(x.msg), x.msg) \in Stored /\ x.pid \notin Queued
    BY <1>2, <1>5, PacketsToReceiverFields, PidsAreNotNoPid DEF Asked, Numbered
  <2>2. \E e \in Stored : e.pid = x.pid /\ e.awaits = FirstAnswer(x.msg)
    BY <2>1 DEF Entry
  <2>3. CASE Qos[x.msg] = 1
    <3>1. ReceiveQos1(x.pid, x.msg)
      BY <1>1, <1>5, <2>3
    <3>2. PICK a \in PacketsToSender : /\ c2b' = Append(c2b, a)
                                       /\ a.type = "puback" /\ a.pid = x.pid
      BY <2>1, <3>1, PacketsAnswered DEF ReceiveQos1, Answered, PubackPacket, Reasons
    <3>3. Numbered(a) /\ Expected(a)
      BY <2>1, <2>2, <2>3, <3>2 DEF Numbered, Expected, Awaited, FirstAnswer
    <3>4. handled' \subseteq Pids /\ received' \in Seq(Messages)
      BY <1>3, <2>1, <3>1 DEF ReceiveQos1
    <3> QED BY <1>1, <1>2, <2>1, <3>2, <3>3, <3>4 DEF x
  <2>4. CASE Qos[x.msg] = 2
    <3>1. ReceiveQos2(x.pid, x.msg)
      BY <1>1, <1>5, <2>4
    <3>2. PICK a \in PacketsToSender : /\ c2b' = Append(c2b, a)
                                       /\ a.type = "pubrec" /\ a.pid = x.pid
      BY <2>1, <3>1, PacketsAnswered DEF ReceiveQos2, Answered, PubrecPacket, Reasons
    <3>3. Numbered(a) /\ Expected(a)
      BY <2>1, <2>2, <2>4, <3>2 DEF Numbered, Expected, Awaited, FirstAnswer
    <3>4. handled' \subseteq Pids /\ received' \in Seq(Messages)
      BY <1>3, <2>1, <3>1 DEF ReceiveQos2
    <3> QED BY <1>1, <1>2, <2>1, <3>2, <3>3, <3>4 DEF x
  <2> QED BY <1>1, <1>5, <2>3, <2>4
<1>6. CASE x.type = "pubrel"
  <2>1. ReceivePubrel(x.pid) /\ x.pid \in Pids /\ x.pid # NoPid /\ Numbered(x)
    BY <1>1, <1>2, <1>6, PacketsToReceiverFields, PidsAreNotNoPid DEF Numbered
  <2>2. PICK a \in PacketsToSender : /\ c2b' = Append(c2b, a)
                                     /\ a.type = "pubcomp" /\ a.pid = x.pid
    BY <2>1, PacketsAnswered DEF ReceivePubrel, Answered, PubcompPacket
  <2>3. PICK e \in Stored : e.pid = x.pid /\ e.awaits = "pubcomp"
    BY <1>2, <1>6 DEF Asked
  <2>4. e \notin ToSet(ep.queue) /\ x.pid \notin Queued
    BY <2>3, EndpointFacts DEF IsPublish
  <2>5. Numbered(a) /\ Expected(a)
    BY <2>1, <2>2, <2>3, <2>4 DEF Numbered, Expected, Awaited
  <2>6. handled' \subseteq Pids /\ received' \in Seq(Messages)
    BY <1>3, <2>1 DEF ReceivePubrel
  <2> QED BY <1>1, <1>2, <2>1, <2>2, <2>5, <2>6 DEF x
<1> QED BY <1>2, <1>4, <1>5, <1>6 DEF Asked

LEMMA SubscriberReadsBInv == ASSUME BInv, SubscriberReads PROVE BInv'
<1> DEFINE x == Head(b2c)
           t == Tail(b2c)
<1>1. /\ b2c # <<>> /\ b2c' = t
      /\ UNCHANGED <<issued, net, resuming, walked, attached, ep, inflight, offline, connects>>
      /\ handled' \subseteq Pids /\ received' \in Seq(Messages)
  BY SubscriberCases
<1>2. \/ x.type = "publish" /\ Qos[x.msg] = 0 /\ c2b' = c2b
      \/ \E a \in PacketsToSender :
            /\ c2b' = Append(c2b, a) /\ Numbered(x)
            /\ a.pid = x.pid /\ Numbered(a) /\ Expected(a)
  BY SubscriberCases
<1>3. /\ b2c \in Seq(PacketsToReceiver) /\ c2b \in Seq(PacketsToSender)
      /\ Alone(ep.posted) /\ Alone(b2c) /\ Alone(c2b)
      /\ Carried(ep.posted) \intersect Carried(b2c) = {}
      /\ (Carried(ep.posted) \union Carried(b2c)) \intersect Carried(c2b) = {}
  BY DEF BInv, TypeOK, Traffic
<1>4. /\ t \in Seq(PacketsToReceiver)
      /\ ToSet(b2c) = ToSet(t) \union {x} /\ Carried(t) \subseteq Carried(b2c) /\ Alone(t)
      /\ Numbered(x) => x.pid \in Carried(b2c) /\ x.pid \notin Carried(t)
  BY <1>1, <1>3, TailMembers, HeadTailProperties
<1> HIDE DEF x, t
<1>5. /\ Stored' = Stored /\ Queued' = Queued /\ Distinct(ep'.store) /\ Window'
  BY <1>1, EndpointFacts DEF BInv, Stored, Queued, Window, WindowExact, Leaked, SlotHolders
<1>6. /\ \A y \in ToSet(ep.posted) \union ToSet(b2c') : Asked(y)'
      /\ \A y \in ToSet(c2b) : Expected(y)'
  BY <1>1, <1>4, <1>5 DEF BInv, Traffic, Asked, Expected
<1>7. c2b' \in Seq(PacketsToSender) /\ Traffic'
  <2>1. CASE c2b' = c2b
    BY <1>1, <1>3, <1>4, <1>6, <2>1 DEF Traffic
  <2>2. ASSUME NEW a \in PacketsToSender, c2b' = Append(c2b, a), Numbered(x),
               a.pid = x.pid, Numbered(a), Expected(a)
        PROVE  c2b' \in Seq(PacketsToSender) /\ Traffic'
    <3>1. a.pid \notin Carried(c2b)
      BY <1>3, <1>4, <2>2
    <3>2. /\ ToSet(c2b') = ToSet(c2b) \union {a}
          /\ Carried(c2b') = Carried(c2b) \union {a.pid}
          /\ Alone(c2b') /\ c2b' \in Seq(PacketsToSender)
      BY <1>3, <2>2, <3>1, AppendMembers, AppendProperties
    <3>3. Expected(a)'
      BY <1>5, <2>2 DEF Expected
    <3>4. /\ Carried(ep.posted) \intersect Carried(t) = {}
          /\ (Carried(ep.posted) \union Carried(t)) \intersect Carried(c2b') = {}
      BY <1>3, <1>4, <2>2, <3>2
    <3> QED BY <1>1, <1>3, <1>4, <1>6, <3>2, <3>3, <3>4 DEF Traffic
  <2> QED BY <1>2, <2>1, <2>2, <1>3
<1>8. TypeOK'
  BY <1>1, <1>4, <1>7 DEF BInv, TypeOK
<1>9. Connection'
  <2>1. net = "up" /\ resuming # "inflight"
    BY <1>1 DEF BInv, Connection
  <2> QED BY <1>1, <2>1 DEF BInv, Connection
<1>10. Held'
  BY <1>1, <1>5 DEF BInv, Held
<1> QED BY <1>5, <1>7, <1>8, <1>9, <1>10 DEF BInv

LEMMA NextBInv == ASSUME BInv, ~Interleaved, [Next]_vars PROVE BInv'
<1>1. CASE UNCHANGED vars
  <2>1. Distinct(ep'.store) /\ Stored' = Stored /\ Window' /\ Traffic'
    BY <1>1, EndpointKept DEF vars
  <2>2. TypeOK'
    BY <1>1 DEF BInv, TypeOK, vars
  <2>3. Connection' /\ Held'
    BY <1>1, <2>1 DEF BInv, Connection, Held, vars
  <2> QED BY <2>1, <2>2, <2>3 DEF BInv
<1> QED BY <1>1, PublishBInv, BrokerClosesBInv, ConnectBInv, RenewBInv, SendInflightBInv,
           SendOfflineBInv, WriteBInv, MessageExpiresBInv, BrokerReadsBInv,
           SubscriberReadsBInv, ConnectionBreaksBInv DEF Next

LEMMA SpecBInv == ASSUME ~Interleaved PROVE Spec => []BInv
BY InitBInv, NextBInv, PTL DEF Spec

-----------------------------------------------------------------------------
(* The promise: what the invariant needs on top for OrderedDelivery, part by
   part. Pending messages are in order wherever they are, each has what it
   takes to arrive, and the subscriber knows of the right ones. *)

Pending == Stored \union ToSet(inflight)

FirstSends == {e \in StoreEntries : IsPublish(e)}

SentPublishes == {x \in PublishPackets : Qos[x.msg] # 0}

ZeroPublishes == {x \in PublishPackets : Qos[x.msg] = 0}

Packets == ToSet(ep.posted) \union ToSet(b2c)

MessagesIn(S) == {x.msg : x \in S}

Reached(m) == m \in ToSet(received) \union Refused

(* The messages that left the offline list come before those still on it. *)
Rising(s) == \A i, j \in DOMAIN s : i < j => s[i] < s[j]

Out == MessagesIn(Pending) \union ToSet(received) \union MessagesIn(Packets \intersect PublishPackets)

Behind ==
    /\ Rising(offline)
    /\ \A n \in ToSet(offline) : n <= issued /\ \A m \in Out : m < n
    /\ \A m \in Out : m <= issued

(* First sends are in the order of publication, wherever they are. One that
   expired from the inflight messages may come behind later ones. *)
Lasting(S) == {x \in S : x.msg \notin Expirable}

InLine(s, S) == Ordered(s, S, Lasting(S))

Before(S, T) == \A x \in S, y \in T : y.msg \notin Expirable => x.msg < y.msg

LinedUp(written, posted, queue) ==
    /\ InLine(written, SentPublishes) /\ InLine(posted, SentPublishes)
    /\ InLine(queue, FirstSends)
    /\ Before(ToSet(written) \intersect SentPublishes, ToSet(posted) \intersect SentPublishes)
    /\ Before((ToSet(written) \union ToSet(posted)) \intersect SentPublishes, ToSet(queue))

Lined ==
    /\ InLine(inflight, FirstSends) /\ InLine(ep.store, FirstSends)
    /\ LinedUp(b2c, ep.posted, ep.queue)
    /\ attached /\ resuming # "inflight" =>
          Before(ToSet(inflight) \intersect FirstSends,
                 (Stored \ ToSet(inflight)) \intersect FirstSends)

(* A stored publish is queued, on its way, or has arrived. *)
UnderWay ==
    net = "up" => \A e \in Stored : IsPublish(e) =>
        \/ e \in ToSet(ep.queue)
        \/ PublishPacket(e.pid, e.msg) \in Packets
        \/ Reached(e.msg)

(* What was answered, or waits for pubcomp, has arrived; the subscriber's
   qos2_publish_handled_ tells which QoS 2 messages did. *)
Progress ==
    /\ \A e \in Pending : e.awaits = "pubcomp" => Reached(e.msg)
    /\ \A x \in ToSet(c2b), e \in Pending :
          x.type \in {"puback", "pubrec"} /\ e.pid = x.pid => Reached(e.msg)
    /\ \A p \in handled : \E e \in Pending : e.pid = p /\ Qos[e.msg] = 2
    /\ \A x \in ToSet(c2b) :
          \/ x.type = "pubcomp"
          \/ V5 /\ x.type = "pubrec" /\ IsError(x.reason)
          => x.pid \notin handled
    /\ \A e \in Pending : e.awaits = "pubrec" => (e.pid \in handled <=> e.msg \in ToSet(received))

(* A QoS 0 publish is on its way once, and has not arrived. *)
Once(q) == \A i, j \in DOMAIN q : q[i] \in ZeroPublishes /\ q[i] = q[j] => i = j

ZeroOnce ==
    /\ Once(ep.posted) /\ Once(b2c)
    /\ ToSet(ep.posted) \intersect ToSet(b2c) \intersect ZeroPublishes = {}
    /\ \A x \in Packets \intersect ZeroPublishes : x.msg \notin ToSet(received)

DInv == Behind /\ Lined /\ UnderWay /\ Progress /\ ZeroOnce

-----------------------------------------------------------------------------
(* Lines *)

LEMMA RisingTail ==
    ASSUME NEW s \in Seq(Messages), s # <<>>, Rising(s)
    PROVE  /\ Tail(s) \in Seq(Messages) /\ Rising(Tail(s))
           /\ Head(s) \in Messages
           /\ ToSet(s) = ToSet(Tail(s)) \union {Head(s)}
           /\ \A n \in ToSet(Tail(s)) : Head(s) < n
<1>1. /\ Head(s) = s[1] /\ 1 \in DOMAIN s /\ Tail(s) \in Seq(Messages) /\ Head(s) \in Messages
      /\ \A i \in DOMAIN Tail(s) : i + 1 \in DOMAIN s /\ Tail(s)[i] = s[i + 1]
  BY AfterTail
<1>2. Len(Tail(s)) \in Nat /\ DOMAIN Tail(s) = 1..Len(Tail(s))
  BY <1>1, LenProperties
<1>3. /\ \A i, j \in DOMAIN Tail(s) : i < j => i + 1 < j + 1
      /\ \A i \in DOMAIN Tail(s) : 1 < i + 1
  BY <1>2
<1>4. Rising(Tail(s))
  BY <1>1, <1>3 DEF Rising
<1>5. ASSUME NEW i \in DOMAIN Tail(s) PROVE Head(s) < Tail(s)[i]
  BY <1>1, <1>3 DEF Rising
<1>6. \A n \in ToSet(Tail(s)) : Head(s) < n
  BY <1>5 DEF ToSet
<1>7. ToSet(s) = ToSet(Tail(s)) \union {Head(s)}
  BY TailMembers
<1> QED BY <1>1, <1>4, <1>6, <1>7

LEMMA RisingAppend ==
    ASSUME NEW s \in Seq(Messages), NEW n \in Messages, Rising(s), \A m \in ToSet(s) : m < n
    PROVE  /\ Append(s, n) \in Seq(Messages) /\ Rising(Append(s, n))
           /\ ToSet(Append(s, n)) = ToSet(s) \union {n}
<1> DEFINE t == Append(s, n)
           k == Len(s) + 1
<1>1. /\ t \in Seq(Messages) /\ DOMAIN t = DOMAIN s \union {k} /\ k \notin DOMAIN s
      /\ \A i \in DOMAIN s : t[i] = s[i]
      /\ t[k] = n
  BY AfterAppend
<1>2. Len(s) \in Nat /\ DOMAIN s = 1..Len(s)
  BY LenProperties
<1>3. \A j \in DOMAIN s : ~(k < j) /\ ~(k < k)
  BY <1>2
<1> HIDE DEF t, k
<1>4. Rising(t)
  <2> SUFFICES ASSUME NEW i \in DOMAIN t, NEW j \in DOMAIN t, i < j
               PROVE  t[i] < t[j]
    BY DEF Rising
  <2>1. i \in DOMAIN s /\ t[i] = s[i]
    BY <1>1, <1>3
  <2>2. CASE j \in DOMAIN s
    BY <1>1, <2>1, <2>2 DEF Rising
  <2>3. CASE j = k
    BY <1>1, <2>1, <2>3 DEF ToSet
  <2> QED BY <1>1, <2>2, <2>3
<1>5. ToSet(t) = ToSet(s) \union {n}
  BY AppendMembers DEF t
<1> QED BY <1>1, <1>4, <1>5 DEF t

LEMMA RisingRemoved ==
    ASSUME NEW s \in Seq(Messages), NEW k \in DOMAIN s, Rising(s)
    PROVE  /\ RemoveAt(s, k) \in Seq(Messages) /\ Rising(RemoveAt(s, k))
           /\ ToSet(RemoveAt(s, k)) = ToSet(s) \ {s[k]}
<1> DEFINE r == RemoveAt(s, k)
<1>1. /\ r \in Seq(Messages) /\ DOMAIN r = 1..(Len(s) - 1)
      /\ DOMAIN s = 1..Len(s) /\ Len(s) \in Nat
      /\ \A i \in 1..(Len(s) - 1) : r[i] = IF i < k THEN s[i] ELSE s[i + 1]
  BY AfterRemoveAt
<1> HIDE DEF r
<1>2. \A i \in DOMAIN s : s[i] \in Nat
  BY DEF Messages
<1>3. ASSUME NEW i \in DOMAIN r, NEW j \in DOMAIN r, i < j PROVE r[i] < r[j]
  <2>1. PICK g \in DOMAIN s : r[i] = s[g] /\ g = IF i < k THEN i ELSE i + 1
    BY <1>1
  <2>2. PICK h \in DOMAIN s : r[j] = s[h] /\ h = IF j < k THEN j ELSE j + 1
    BY <1>1
  <2>3. g < h
    BY <1>1, <1>3, <2>1, <2>2
  <2> QED BY <2>1, <2>2, <2>3 DEF Rising
<1>4. ASSUME NEW i \in DOMAIN r PROVE r[i] \in ToSet(s) /\ r[i] # s[k]
  <2>1. PICK g \in DOMAIN s : r[i] = s[g] /\ g # k
    BY <1>1
  <2>2. g < k \/ k < g
    BY <1>1, <2>1
  <2>3. s[g] < s[k] \/ s[k] < s[g]
    BY <2>2 DEF Rising
  <2> QED BY <1>2, <2>1, <2>3 DEF ToSet
<1>5. ASSUME NEW g \in DOMAIN s, s[g] # s[k] PROVE s[g] \in ToSet(r)
  <2>1. g # k
    BY <1>5
  <2>2. PICK i \in DOMAIN r : g = IF i < k THEN i ELSE i + 1
    <3>1. CASE g < k
      BY <1>1, <3>1
    <3>2. CASE g > k
      <4>1. g - 1 \in DOMAIN r /\ ~(g - 1 < k) /\ g = (g - 1) + 1
        BY <1>1, <3>2
      <4> QED BY <4>1
    <3> QED BY <1>1, <2>1, <3>1, <3>2
  <2>3. r[i] = s[g]
    BY <1>1, <2>2
  <2> QED BY <2>3 DEF ToSet
<1>6. ToSet(r) = ToSet(s) \ {s[k]}
  BY <1>4, <1>5 DEF ToSet
<1>7. Rising(r)
  BY <1>3 DEF Rising
<1> QED BY <1>1, <1>6, <1>7 DEF r

LEMMA RisingNone == Rising(<<>>) /\ ToSet(<<>>) = {}
BY DEF Rising, ToSet

LEMMA LinedNone == \A S, T : Ordered(<<>>, S, T)
BY DEF Ordered

LEMMA LinedQueued ==
    ASSUME NEW b, NEW p, NEW q \in Seq(StoreEntries), LinedUp(b, p, q), NEW e \in StoreEntries,
           e.msg \notin Expirable =>
               /\ \A x \in (ToSet(b) \union ToSet(p)) \intersect SentPublishes : x.msg < e.msg
               /\ \A f \in ToSet(q) : f \in FirstSends => f.msg < e.msg
    PROVE  LinedUp(b, p, Append(q, e))
<1>1. InLine(Append(q, e), FirstSends)
  <2>1. e \in Lasting(FirstSends) => \A f \in ToSet(q) : f \in FirstSends => f.msg < e.msg
    BY DEF Lasting
  <2> QED BY <2>1, OrderedAppend DEF LinedUp, InLine
<1>2. ToSet(Append(q, e)) = ToSet(q) \union {e}
  BY AppendMembers
<1> QED BY <1>1, <1>2 DEF LinedUp, Before

LEMMA LinedPosted ==
    ASSUME NEW b, NEW p \in Seq(PacketsToReceiver), LinedUp(b, p, <<>>),
           NEW y \in PacketsToReceiver,
           y.msg \notin Expirable =>
               \A x \in (ToSet(b) \union ToSet(p)) \intersect SentPublishes : x.msg < y.msg
    PROVE  LinedUp(b, Append(p, y), <<>>)
<1>1. InLine(Append(p, y), SentPublishes)
  <2>1. y \in Lasting(SentPublishes) => \A x \in ToSet(p) : x \in SentPublishes => x.msg < y.msg
    BY DEF Lasting
  <2> QED BY <2>1, OrderedAppend DEF LinedUp, InLine
<1>2. ToSet(Append(p, y)) = ToSet(p) \union {y} /\ ToSet(<<>>) = {}
  BY AppendMembers, RisingNone
<1> QED BY <1>1, <1>2 DEF LinedUp, Before

(* What has no place in the order passes. *)
LEMMA LinedPassing ==
    ASSUME NEW b \in Seq(PacketsToReceiver), NEW p \in Seq(PacketsToReceiver), NEW q,
           LinedUp(b, p, q), NEW y \in PacketsToReceiver, y \notin SentPublishes
    PROVE  LinedUp(Append(b, y), p, q) /\ LinedUp(b, Append(p, y), q)
<1>1. InLine(Append(p, y), SentPublishes) /\ InLine(Append(b, y), SentPublishes)
  <2>1. y \notin Lasting(SentPublishes)
    BY DEF Lasting
  <2> QED BY <2>1, OrderedAppend DEF LinedUp, InLine
<1>2. /\ ToSet(Append(p, y)) \intersect SentPublishes = ToSet(p) \intersect SentPublishes
      /\ ToSet(Append(b, y)) \intersect SentPublishes = ToSet(b) \intersect SentPublishes
  <2>1. ToSet(Append(p, y)) = ToSet(p) \union {y} /\ ToSet(Append(b, y)) = ToSet(b) \union {y}
    BY AppendMembers
  <2> QED BY <2>1
<1>3. \A S, T : (S \union T) \intersect SentPublishes =
                   (S \intersect SentPublishes) \union (T \intersect SentPublishes)
  OBVIOUS
<1> QED BY <1>1, <1>2, <1>3 DEF LinedUp

LEMMA LinedReleased ==
    ASSUME NEW b, NEW p \in Seq(PacketsToReceiver), NEW q \in Seq(StoreEntries),
           LinedUp(b, p, q), q # <<>>, \A f \in ToSet(q) : IsPublish(f),
           NEW y \in PacketsToReceiver, y.msg = Head(q).msg
    PROVE  LinedUp(b, Append(p, y), Tail(q))
<1>1. /\ Head(q) \in FirstSends /\ Tail(q) \in Seq(StoreEntries)
      /\ ToSet(q) = ToSet(Tail(q)) \union {Head(q)}
      /\ \A f \in ToSet(q) : f \in FirstSends
  <2>1. ToSet(q) = ToSet(Tail(q)) \union {Head(q)} /\ ToSet(q) \subseteq StoreEntries
    BY TailMembers, MembersTyped
  <2> QED BY <2>1, HeadTailProperties DEF FirstSends
<1>2. /\ InLine(Tail(q), FirstSends)
      /\ \A f \in ToSet(Tail(q)) : f \in Lasting(FirstSends) => Head(q).msg < f.msg
  BY <1>1, OrderedTail DEF LinedUp, InLine
<1>3. \A x \in (ToSet(b) \union ToSet(p)) \intersect SentPublishes :
          y.msg \notin Expirable => x.msg < y.msg
  BY <1>1 DEF LinedUp, Before
<1>4. InLine(Append(p, y), SentPublishes)
  <2>1. y \in Lasting(SentPublishes) => \A x \in ToSet(p) : x \in SentPublishes => x.msg < y.msg
    BY <1>3 DEF Lasting
  <2> QED BY <2>1, OrderedAppend DEF LinedUp, InLine
<1>5. ToSet(Append(p, y)) = ToSet(p) \union {y}
  BY AppendMembers
<1>6. Before(ToSet(b) \intersect SentPublishes, ToSet(Append(p, y)) \intersect SentPublishes)
  BY <1>3, <1>5 DEF LinedUp, Before
<1>7. Before((ToSet(b) \union ToSet(Append(p, y))) \intersect SentPublishes, ToSet(Tail(q)))
  <2>1. \A f \in ToSet(Tail(q)) : f.msg \notin Expirable => y.msg < f.msg
    BY <1>1, <1>2 DEF Lasting
  <2> QED BY <1>1, <1>5, <2>1 DEF LinedUp, Before
<1> QED BY <1>2, <1>4, <1>6, <1>7 DEF LinedUp

LEMMA LinedWritten ==
    ASSUME NEW b \in Seq(PacketsToReceiver), NEW p \in Seq(PacketsToReceiver), NEW q,
           LinedUp(b, p, q), p # <<>>
    PROVE  LinedUp(Append(b, Head(p)), Tail(p), q)
<1> DEFINE y == Head(p)
<1>1. /\ y \in PacketsToReceiver
      /\ ToSet(p) = ToSet(Tail(p)) \union {y} /\ ToSet(Append(b, y)) = ToSet(b) \union {y}
  BY TailMembers, AppendMembers, HeadTailProperties
<1>2. /\ InLine(Tail(p), SentPublishes)
      /\ y \in SentPublishes =>
            \A x \in ToSet(Tail(p)) : x \in Lasting(SentPublishes) => y.msg < x.msg
  BY OrderedTail DEF LinedUp, InLine
<1> HIDE DEF y
<1>3. InLine(Append(b, y), SentPublishes)
  <2>1. y \in Lasting(SentPublishes) => \A x \in ToSet(b) : x \in SentPublishes => x.msg < y.msg
    BY <1>1 DEF Lasting, LinedUp, Before
  <2> QED BY <1>1, <2>1, OrderedAppend DEF LinedUp, InLine
<1>4. Before(ToSet(Append(b, y)) \intersect SentPublishes, ToSet(Tail(p)) \intersect SentPublishes)
  BY <1>1, <1>2 DEF LinedUp, Before, Lasting
<1>5. ToSet(Append(b, y)) \union ToSet(Tail(p)) = ToSet(b) \union ToSet(p)
  BY <1>1
<1> QED BY <1>2, <1>3, <1>4, <1>5 DEF LinedUp, y

LEMMA LinedRead ==
    ASSUME NEW b \in Seq(PacketsToReceiver), NEW p, NEW q, LinedUp(b, p, q), b # <<>>
    PROVE  LinedUp(Tail(b), p, q)
<1>1. ToSet(b) = ToSet(Tail(b)) \union {Head(b)}
  BY TailMembers
<1>2. InLine(Tail(b), SentPublishes)
  BY OrderedTail DEF LinedUp, InLine
<1> QED BY <1>1, <1>2 DEF LinedUp, Before

LEMMA OnceAppend ==
    ASSUME NEW q \in Seq(PacketsToReceiver), NEW x \in PacketsToReceiver, Once(q),
           x \in ZeroPublishes => x \notin ToSet(q)
    PROVE  Once(Append(q, x)) /\ ToSet(Append(q, x)) = ToSet(q) \union {x}
<1> DEFINE t == Append(q, x)
           n == Len(q) + 1
<1>1. /\ DOMAIN t = DOMAIN q \union {n} /\ n \notin DOMAIN q
      /\ \A i \in DOMAIN q : t[i] = q[i]
      /\ t[n] = x
  BY AfterAppend
<1>2. ToSet(t) = ToSet(q) \union {x}
  BY AppendMembers
<1> HIDE DEF t, n
<1>3. Once(t)
  BY <1>1 DEF Once, ToSet
<1> QED BY <1>2, <1>3 DEF t

LEMMA OnceTail ==
    ASSUME NEW q \in Seq(PacketsToReceiver), q # <<>>, Once(q)
    PROVE  /\ Once(Tail(q))
           /\ ToSet(q) = ToSet(Tail(q)) \union {Head(q)}
           /\ Head(q) \in PacketsToReceiver
           /\ Head(q) \in ZeroPublishes => Head(q) \notin ToSet(Tail(q))
<1>1. /\ Head(q) = q[1] /\ 1 \in DOMAIN q /\ Tail(q) \in Seq(PacketsToReceiver)
      /\ Head(q) \in PacketsToReceiver
      /\ \A i \in DOMAIN Tail(q) : i + 1 \in DOMAIN q /\ Tail(q)[i] = q[i + 1]
  BY AfterTail
<1>2. Len(Tail(q)) \in Nat /\ DOMAIN Tail(q) = 1..Len(Tail(q))
  BY <1>1, LenProperties
<1>3. \A i, j \in DOMAIN Tail(q) : i + 1 = j + 1 => i = j
  BY <1>2
<1>4. \A i \in DOMAIN Tail(q) : i + 1 # 1
  BY <1>2
<1>5. Once(Tail(q))
  BY <1>1, <1>3 DEF Once
<1>6. ASSUME Head(q) \in ZeroPublishes, NEW i \in DOMAIN Tail(q), Tail(q)[i] = Head(q) PROVE FALSE
  BY <1>1, <1>4, <1>6 DEF Once
<1>7. Head(q) \in ZeroPublishes => Head(q) \notin ToSet(Tail(q))
  BY <1>6 DEF ToSet
<1> QED BY <1>1, <1>5, <1>7, TailMembers

-----------------------------------------------------------------------------
(* What the invariant says of pending messages and of packets *)

LEMMA PendingFacts ==
    ASSUME BInv
    PROVE  /\ Pending \subseteq StoreEntries
           /\ \A e, f \in Pending : e.pid = f.pid => e = f
           /\ attached /\ resuming # "inflight" => Pending = Stored
           /\ ~(attached /\ resuming # "inflight") => Pending = ToSet(inflight)
<1>1. /\ inflight \in Seq(StoreEntries) /\ ToSet(inflight) \subseteq StoreEntries
      /\ Stored \subseteq StoreEntries
      /\ \A e, f \in Stored : e.pid = f.pid => e = f
  BY EndpointFacts, MembersTyped DEF BInv, TypeOK
<1>2. \A e, f \in ToSet(inflight) : e.pid = f.pid => e = f
  BY DEF BInv, Held, Distinct, ToSet
<1>3. attached /\ resuming # "inflight" => Pending = Stored
  BY DEF BInv, Held, Pending
<1>4. ~attached => Pending = ToSet(inflight)
  BY DEF BInv, Connection, NewEndpoint, Stored, ToSet, Pending
<1>5. resuming = "inflight" => Pending = ToSet(inflight)
  <2> SUFFICES ASSUME resuming = "inflight", NEW i \in DOMAIN ep.store
               PROVE  ep.store[i] \in ToSet(inflight)
    BY DEF Pending, Stored, ToSet
  <2>1. /\ walked <= Len(inflight) /\ walked \in Nat /\ i \in 1..walked
        /\ ep.store[i] = inflight[i]
    BY DEF BInv, Held, TypeOK
  <2>2. i \in DOMAIN inflight
    BY <1>1, <2>1, LenProperties
  <2> QED BY <2>1, <2>2 DEF ToSet
<1> QED BY <1>1, <1>2, <1>3, <1>4, <1>5

LEMMA PacketFacts ==
    ASSUME BInv
    PROVE  /\ Packets \subseteq PacketsToReceiver
           /\ ep.posted \in Seq(PacketsToReceiver) /\ b2c \in Seq(PacketsToReceiver)
           /\ \A x \in Packets : \/ x \in SentPublishes \/ x \in ZeroPublishes
                                 \/ x.type = "pubrel" /\ x \notin PublishPackets
           /\ \A x \in Packets \intersect SentPublishes :
                 /\ x.pid \in Pids
                 /\ \E e \in Stored : /\ IsPublish(e) /\ e.pid = x.pid /\ e.msg = x.msg
                                      /\ x = PublishPacket(e.pid, e.msg)
<1>1. /\ Packets \subseteq PacketsToReceiver
      /\ ep.posted \in Seq(PacketsToReceiver) /\ b2c \in Seq(PacketsToReceiver)
  BY EndpointFacts, MembersTyped DEF BInv, TypeOK, Packets
<1>2. \A x \in Packets : Asked(x)
  BY DEF BInv, Traffic, Packets
<1>3. \A x \in PublishPackets : x.type = "publish"
  BY DEF PublishPackets
<1>4. ASSUME NEW x \in Packets
      PROVE  \/ x \in SentPublishes \/ x \in ZeroPublishes
             \/ x.type = "pubrel" /\ x \notin PublishPackets
  BY <1>1, <1>2, <1>3 DEF Asked, SentPublishes, ZeroPublishes, PacketsToReceiver
<1>5. ASSUME NEW x \in Packets, x \in SentPublishes
      PROVE  /\ x.pid \in Pids
             /\ \E e \in Stored : /\ IsPublish(e) /\ e.pid = x.pid /\ e.msg = x.msg
                                  /\ x = PublishPacket(e.pid, e.msg)
  <2>1. /\ x.type = "publish" /\ Qos[x.msg] # 0 /\ x.pid \in Pids
        /\ x = PublishPacket(x.pid, x.msg)
    BY <1>5 DEF SentPublishes, PublishPackets, PublishPacket
  <2>2. Entry(x.pid, FirstAnswer(x.msg), x.msg) \in Stored
    BY <1>2, <2>1 DEF Asked
  <2>3. PICK e \in Stored : e = Entry(x.pid, FirstAnswer(x.msg), x.msg)
    BY <2>2
  <2>4. e.pid = x.pid /\ e.msg = x.msg /\ IsPublish(e)
    BY <2>3 DEF Entry, FirstAnswer, IsPublish
  <2> QED BY <2>1, <2>4
<1> QED BY <1>1, <1>4, <1>5

LEMMA OwedIs ==
    /\ Owed = {m \in ToSet(offline) : NeedsPid(m)} \union MessagesIn(Pending)
    /\ Owed' = {m \in ToSet(offline') : NeedsPid(m)} \union MessagesIn(Pending')
<1>1. \A s : MessagesOf(s) = MessagesIn(ToSet(s))
  BY DEF MessagesOf, MessagesIn, ToSet
<1>2. \A S, T : MessagesIn(S \union T) = MessagesIn(S) \union MessagesIn(T)
  BY DEF MessagesIn
<1>3. Owed = {m \in ToSet(offline) : NeedsPid(m)} \union MessagesIn(Pending)
  <2>1. MessagesIn(Pending) = MessagesOf(ep.store) \union MessagesOf(inflight)
    BY <1>1, <1>2 DEF Pending, Stored
  <2> QED BY <2>1 DEF Owed, NeedsPid
<1>4. Owed' = {m \in ToSet(offline') : NeedsPid(m)} \union MessagesIn(Pending')
  <2>1. MessagesIn(Pending') = MessagesOf(ep'.store) \union MessagesOf(inflight')
    BY <1>1, <1>2 DEF Pending, Stored
  <2> QED BY <2>1 DEF Owed, NeedsPid
<1> QED BY <1>3, <1>4

LEMMA OwedFacts ==
    ASSUME BInv
    PROVE  /\ \A m \in MessagesIn(Pending) : m \in Messages /\ NeedsPid(m) /\ m \in Out
           /\ ToSet(offline) \subseteq Messages
           /\ Messages \subseteq Nat /\ issued \in Nat
<1>1. \A m \in MessagesIn(Pending) : m \in Messages /\ NeedsPid(m) /\ m \in Out
  BY PendingFacts DEF MessagesIn, StoreEntries, NeedsPid, Out
<1>2. ToSet(offline) \subseteq Messages /\ Messages \subseteq Nat /\ issued \in Nat
  BY MembersTyped DEF BInv, TypeOK, Messages
<1> QED BY <1>1, <1>2

LEMMA OutTyped == ASSUME BInv PROVE \A n \in Out : n \in Nat
<1>1. /\ ToSet(received) \subseteq Messages /\ Messages \subseteq Nat
      /\ \A e \in Pending : e.msg \in Messages
      /\ \A x \in PublishPackets : x.msg \in Messages
  BY MembersTyped, PendingFacts DEF BInv, TypeOK, Messages, StoreEntries, PublishPackets
<1> QED BY <1>1 DEF Out, MessagesIn

(* Nothing moves that the promise speaks of. *)
LEMMA NothingMoves ==
    ASSUME Behind, Progress, Pending' = Pending,
           UNCHANGED <<issued, offline, handled, received>>,
           ToSet(c2b') \subseteq ToSet(c2b),
           \A x \in Packets' : x \in PublishPackets =>
               x \in Packets \/ x.msg \in MessagesIn(Pending)
    PROVE  Behind' /\ Progress' /\ UNCHANGED Promise!vars
<1>1. Owed' = Owed
  BY OwedIs
<1>2. Out' \subseteq Out
  BY DEF Out, MessagesIn
<1>3. Behind'
  BY <1>2 DEF Behind
<1>4. Progress'
  BY DEF Progress, Reached
<1> QED BY <1>1, <1>3, <1>4 DEF Promise!vars

(* A new endpoint has nothing on its way. *)
LEMMA NewEndpointLined ==
    ASSUME ep' = NewEndpoint, b2c' = <<>>
    PROVE  /\ Stored' = {} /\ Packets' = {}
           /\ InLine(ep'.store, FirstSends) /\ LinedUp(b2c', ep'.posted, ep'.queue)
           /\ UnderWay' /\ ZeroOnce'
<1>1. ep'.store = <<>> /\ ep'.posted = <<>> /\ ep'.queue = <<>>
  BY DEF NewEndpoint
<1>2. ToSet(<<>>) = {} /\ Once(<<>>)
  BY DEF ToSet, Once
<1>3. Stored' = {} /\ Packets' = {}
  BY <1>1, <1>2 DEF Stored, Packets
<1>4. \A S : InLine(<<>>, S)
  BY LinedNone DEF InLine
<1>5. LinedUp(<<>>, <<>>, <<>>)
  BY <1>2, <1>4 DEF LinedUp, Before
<1>6. UnderWay'
  BY <1>3 DEF UnderWay
<1>7. ZeroOnce'
  BY <1>1, <1>2, <1>3 DEF ZeroOnce
<1> QED BY <1>1, <1>3, <1>4, <1>5, <1>6, <1>7

LEMMA BecomeOfflineKeeps ==
    ASSUME BInv, DInv, attached, resuming = "none", BecomeOffline,
           b2c' = <<>>, c2b' = <<>>, resuming' = "none", net' # "up",
           UNCHANGED <<issued, offline, handled, received>>
    PROVE  DInv' /\ UNCHANGED Promise!vars
<1> DEFINE P == {i \in DOMAIN ep.store : ~HasPid(inflight, ep.store[i].pid)}
           t == Selected(ep.store, P)
<1>1. /\ ep' = NewEndpoint /\ attached' = FALSE
      /\ ToSet(inflight') = ToSet(inflight) \union {e \in Stored : e.pid \notin PidsOf(inflight)}
  BY BecomeOfflineStep
<1>2. inflight' = inflight \o t
  BY DEF BecomeOffline
<1>3. /\ inflight \in Seq(StoreEntries) /\ ep.store \in Seq(StoreEntries) /\ Distinct(ep.store)
      /\ ToSet(inflight) \subseteq Stored
      /\ \A e, f \in Stored : e.pid = f.pid => e = f
      /\ PidsOf(inflight) = {e.pid : e \in ToSet(inflight)}
  BY EndpointFacts, PidsAre DEF BInv, TypeOK, Held
<1>4. Stored' = {} /\ Packets' = {} /\ InLine(ep'.store, FirstSends)
      /\ LinedUp(b2c', ep'.posted, ep'.queue) /\ UnderWay' /\ ZeroOnce'
  BY <1>1, NewEndpointLined
<1>5. Pending' = Pending
  <2>1. Pending = Stored
    BY PendingFacts
  <2>2. ToSet(inflight') = Stored
    BY <1>1, <1>3
  <2> QED BY <1>4, <2>1, <2>2 DEF Pending
<1>6. InLine(inflight', FirstSends)
  <2>1. /\ Ordered(inflight, FirstSends, Lasting(FirstSends))
        /\ Ordered(ep.store, FirstSends, Lasting(FirstSends))
        /\ Before(ToSet(inflight) \intersect FirstSends,
                  (Stored \ ToSet(inflight)) \intersect FirstSends)
    BY DEF DInv, Lined, InLine
  <2>2. P \in SUBSET DOMAIN ep.store
    OBVIOUS
  <2>3. \A i \in P : ep.store[i] \in Stored \ ToSet(inflight)
    BY <1>3 DEF HasPid, Stored, ToSet
  <2> HIDE DEF P
  <2>4. /\ Ordered(t, FirstSends, Lasting(FirstSends))
        /\ t \in [1..Cardinality(P) -> StoreEntries] /\ Cardinality(P) \in Nat
        /\ ToSet(t) = {ep.store[i] : i \in P}
    BY <1>3, <2>1, <2>2, SelectedOrdered, SelectedEntries, SelectedApart
  <2> HIDE DEF t
  <2>5. t \in Seq(StoreEntries)
    BY <2>4, FunctionsAreSequences
  <2>6. \A x \in ToSet(inflight), y \in ToSet(t) :
            x \in FirstSends /\ y \in Lasting(FirstSends) => x.msg < y.msg
    BY <2>1, <2>3, <2>4 DEF Before, Lasting
  <2>7. Ordered(inflight \o t, FirstSends, Lasting(FirstSends))
    BY <1>3, <2>1, <2>4, <2>5, <2>6, OrderedJoined
  <2> QED BY <1>2, <2>7 DEF InLine
<1>7. Behind' /\ Progress' /\ UNCHANGED Promise!vars
  <2>1. ToSet(c2b') \subseteq ToSet(c2b)
    BY DEF ToSet
  <2> QED BY <1>4, <1>5, <2>1, NothingMoves DEF DInv
<1>8. Lined'
  BY <1>1, <1>4, <1>6 DEF Lined
<1> QED BY <1>4, <1>7, <1>8 DEF DInv

LEMMA BrokerClosesKeeps ==
    ASSUME BInv, DInv, BrokerCloses
    PROVE  DInv' /\ UNCHANGED Promise!vars
<1>1. /\ net = "down" /\ net' = net /\ attached /\ resuming = "none" /\ resuming' = "none"
      /\ BecomeOffline
      /\ UNCHANGED <<issued, offline, b2c, c2b, handled, received>>
  BY DEF BrokerCloses
<1>2. b2c = <<>> /\ c2b = <<>>
  BY <1>1 DEF BInv, Connection
<1> QED BY <1>1, <1>2, BecomeOfflineKeeps

LEMMA ConnectKeeps ==
    ASSUME BInv, DInv, Connect
    PROVE  DInv' /\ UNCHANGED Promise!vars
<1>1. /\ net = "down" /\ resuming = "none" /\ net' = "connack" /\ resuming' = resuming
      /\ IF attached THEN BecomeOffline ELSE UNCHANGED <<inflight, attached, ep>>
      /\ UNCHANGED <<issued, offline, b2c, c2b, handled, received>>
  BY DEF Connect
<1>2. b2c = <<>> /\ c2b = <<>>
  BY <1>1 DEF BInv, Connection
<1>3. CASE attached
  BY <1>1, <1>2, <1>3, BecomeOfflineKeeps
<1>4. CASE ~attached
  <2>1. ep = NewEndpoint /\ UNCHANGED <<inflight, attached, ep>>
    BY <1>1, <1>4 DEF BInv, Connection
  <2>2. /\ Stored' = {} /\ Packets' = {} /\ InLine(ep'.store, FirstSends)
        /\ LinedUp(b2c', ep'.posted, ep'.queue) /\ UnderWay' /\ ZeroOnce'
    BY <1>1, <1>2, <2>1, NewEndpointLined
  <2>3. Pending' = Pending
    BY <2>1 DEF Pending, Stored
  <2>4. Behind' /\ Progress' /\ UNCHANGED Promise!vars
    BY <1>1, <2>2, <2>3, NothingMoves DEF DInv
  <2>5. Lined'
    BY <1>1, <1>4, <2>1, <2>2 DEF DInv, Lined
  <2> QED BY <2>2, <2>4, <2>5 DEF DInv
<1> QED BY <1>3, <1>4

LEMMA RenewKeeps ==
    ASSUME BInv, DInv, Renew
    PROVE  DInv' /\ UNCHANGED Promise!vars
<1>1. /\ net = "connack" /\ ep' = NewEndpoint /\ resuming' = "inflight"
      /\ UNCHANGED <<issued, inflight, offline, b2c, c2b, handled, received>>
  BY DEF Renew
<1>2. b2c = <<>> /\ ep = NewEndpoint
  BY <1>1 DEF BInv, Connection
<1>3. /\ Stored' = {} /\ Packets' = {} /\ InLine(ep'.store, FirstSends)
      /\ LinedUp(b2c', ep'.posted, ep'.queue) /\ UnderWay' /\ ZeroOnce'
  BY <1>1, <1>2, NewEndpointLined
<1>4. Pending' = Pending
  BY <1>1, <1>2 DEF Pending, Stored
<1>5. Behind' /\ Progress' /\ UNCHANGED Promise!vars
  BY <1>1, <1>3, <1>4, NothingMoves DEF DInv
<1>6. Lined'
  BY <1>1, <1>3 DEF DInv, Lined
<1> QED BY <1>3, <1>5, <1>6 DEF DInv

LEMMA ConnectionBreaksKeeps ==
    ASSUME BInv, DInv, ConnectionBreaks
    PROVE  DInv' /\ UNCHANGED Promise!vars
<1>1. /\ resuming = "none" /\ net' = "down" /\ b2c' = <<>> /\ c2b' = <<>>
      /\ ep' = [ep EXCEPT !.posted = <<>>]
      /\ UNCHANGED <<issued, resuming, attached, inflight, offline, handled, received>>
  BY DEF ConnectionBreaks
<1>2. ep'.posted = <<>> /\ ep'.store = ep.store /\ ep'.queue = ep.queue
  BY <1>1, EndpointFacts DEF Endpoints
<1>3. ToSet(<<>>) = {} /\ Once(<<>>)
  BY DEF ToSet, Once
<1>4. Stored' = Stored /\ Pending' = Pending /\ Packets' = {}
  BY <1>1, <1>2, <1>3 DEF Stored, Pending, Packets
<1>5. Behind' /\ Progress' /\ UNCHANGED Promise!vars
  BY <1>1, <1>3, <1>4, NothingMoves DEF DInv
<1>6. LinedUp(<<>>, <<>>, ep.queue)
  BY <1>3, LinedNone DEF DInv, Lined, LinedUp, InLine, Before
<1>7. Lined'
  BY <1>1, <1>2, <1>4, <1>6 DEF DInv, Lined
<1>8. UnderWay' /\ ZeroOnce'
  BY <1>1, <1>2, <1>3, <1>4 DEF UnderWay, ZeroOnce
<1> QED BY <1>5, <1>7, <1>8 DEF DInv

-----------------------------------------------------------------------------
(* A publish is stored *)

LEMMA PublishSentEffect ==
    ASSUME BInv, NEW e \in StoreEntries, IsPublish(e), e.pid \notin ep.pids,
           ep' = PublishSent(ep, e)
    PROVE  /\ PublishPacket(e.pid, e.msg) \in SentPublishes
           /\ PublishPacket(e.pid, e.msg) \in PacketsToReceiver
           /\ ep'.store = Append(ep.store, e) /\ Stored' = Stored \union {e}
           /\ \/ ep'.queue = Append(ep.queue, e) /\ ep'.posted = ep.posted
              \/ /\ ep.queue = <<>> /\ ep'.queue = <<>>
                 /\ ep'.posted = IF net = "down" THEN ep.posted
                                 ELSE Append(ep.posted, PublishPacket(e.pid, e.msg))
<1> DEFINE x == PublishPacket(e.pid, e.msg)
<1>1. x \in PacketsToReceiver /\ x \in SentPublishes
  <2>1. /\ x \in PacketsToReceiver /\ x.msg = e.msg /\ x.type = "publish" /\ Qos[e.msg] # 0
    BY EntryIs
  <2> HIDE DEF x
  <2> QED BY <2>1 DEF SentPublishes, PacketsToReceiver
<1>2. /\ ep'.store = Inserted(ep.store, e)
      /\ V5 /\ ep.count = ReceiveMax =>
            ep'.queue = Append(ep.queue, e) /\ ep'.posted = ep.posted
      /\ ~(V5 /\ ep.count = ReceiveMax) =>
            /\ ep'.queue = ep.queue
            /\ ep'.posted = IF net = "down" THEN ep.posted ELSE Append(ep.posted, x)
  BY <1>1, EndpointFacts, PublishSentFields
<1> HIDE DEF x
<1>3. ~(V5 /\ ep.count = ReceiveMax) => ep.queue = <<>>
  BY DEF BInv, Window, WindowExact
<1>4. /\ ep'.store = Append(ep.store, e)
      /\ ToSet(ep'.store) = Stored \union {e}
  BY <1>2, EndpointFacts, InsertedOne DEF Stored
<1>5. Stored' = Stored \union {e}
  BY <1>4 DEF Stored
<1> QED BY <1>1, <1>2, <1>3, <1>4, <1>5 DEF x

(* It goes behind what is stored, queued and on its way. *)
LEMMA PublishSentKeeps ==
    ASSUME BInv, DInv, NEW e \in StoreEntries, IsPublish(e), e.pid \notin ep.pids,
           ep' = PublishSent(ep, e), UNCHANGED <<net, b2c, received>>,
           e.msg \notin Expirable => \A f \in Stored \intersect FirstSends : f.msg < e.msg
    PROVE  /\ Stored' = Stored \union {e}
           /\ InLine(ep'.store, FirstSends) /\ LinedUp(b2c', ep'.posted, ep'.queue)
           /\ UnderWay' /\ ZeroOnce'
           /\ \A x \in Packets' : x \in Packets \/ x.msg = e.msg
<1> DEFINE x == PublishPacket(e.pid, e.msg)
<1>1. /\ x \in SentPublishes /\ x \in PacketsToReceiver /\ x.msg = e.msg
      /\ ep'.store = Append(ep.store, e) /\ Stored' = Stored \union {e}
      /\ \/ ep'.queue = Append(ep.queue, e) /\ ep'.posted = ep.posted
         \/ /\ ep.queue = <<>> /\ ep'.queue = <<>>
            /\ ep'.posted = IF net = "down" THEN ep.posted ELSE Append(ep.posted, x)
  BY PublishSentEffect DEF PublishPacket
<1>2. /\ ep.posted \in Seq(PacketsToReceiver) /\ b2c \in Seq(PacketsToReceiver)
      /\ ep.store \in Seq(StoreEntries) /\ ep.queue \in Seq(StoreEntries)
      /\ ToSet(ep.queue) \subseteq Stored
      /\ LinedUp(b2c, ep.posted, ep.queue) /\ InLine(ep.store, FirstSends)
      /\ Once(ep.posted) /\ Once(b2c)
  BY EndpointFacts, PacketFacts DEF DInv, Lined, ZeroOnce
<1> HIDE DEF x
<1>3. InLine(ep'.store, FirstSends)
  <2>1. e \in Lasting(FirstSends) => \A f \in ToSet(ep.store) : f \in FirstSends => f.msg < e.msg
    BY DEF Lasting, Stored
  <2> QED BY <1>1, <1>2, <2>1, OrderedAppend DEF InLine
<1>4. e.msg \notin Expirable =>
          /\ \A y \in Packets \intersect SentPublishes : y.msg < e.msg
          /\ \A f \in ToSet(ep.queue) : f \in FirstSends => f.msg < e.msg
  <2>1. \A y \in Packets \intersect SentPublishes : \E f \in Stored \intersect FirstSends : f.msg = y.msg
    BY PacketFacts, EndpointFacts DEF FirstSends
  <2> QED BY <1>2, <2>1
<1>5. CASE ep'.queue = Append(ep.queue, e) /\ ep'.posted = ep.posted
  <2>1. LinedUp(b2c, ep.posted, Append(ep.queue, e))
    BY <1>2, <1>4, LinedQueued DEF Packets
  <2>2. ToSet(ep'.queue) = ToSet(ep.queue) \union {e} /\ Packets' = Packets
    BY <1>2, <1>5, AppendMembers DEF Packets
  <2>3. UnderWay'
    BY <1>1, <2>2 DEF DInv, UnderWay, Reached
  <2>4. ZeroOnce'
    BY <1>5, <2>2 DEF DInv, ZeroOnce
  <2> QED BY <1>1, <1>3, <1>5, <2>1, <2>2, <2>3, <2>4
<1>6. CASE /\ ep.queue = <<>> /\ ep'.queue = <<>>
           /\ ep'.posted = IF net = "down" THEN ep.posted ELSE Append(ep.posted, x)
  <2>1. CASE net = "down"
    <3>1. ep'.posted = ep.posted /\ Packets' = Packets
      BY <1>6, <2>1 DEF Packets
    <3>2. UnderWay' /\ ZeroOnce'
      BY <2>1, <3>1 DEF DInv, UnderWay, ZeroOnce
    <3> QED BY <1>1, <1>2, <1>3, <1>6, <3>1, <3>2
  <2>2. CASE net # "down"
    <3>1. ep'.posted = Append(ep.posted, x)
      BY <1>6, <2>2
    <3>2. LinedUp(b2c, Append(ep.posted, x), <<>>)
      BY <1>1, <1>2, <1>4, <1>6, LinedPosted DEF Packets
    <3>3. x \notin ZeroPublishes
      BY <1>1 DEF SentPublishes, ZeroPublishes
    <3>4. Once(ep'.posted) /\ ToSet(ep'.posted) = ToSet(ep.posted) \union {x}
      BY <1>1, <1>2, <3>1, <3>3, OnceAppend
    <3>5. Packets' = Packets \union {x}
      BY <3>4 DEF Packets
    <3>6. UnderWay'
      BY <1>1, <1>6, <3>5 DEF DInv, UnderWay, Reached, x
    <3>7. ZeroOnce'
      BY <3>3, <3>4, <3>5 DEF DInv, ZeroOnce
    <3> QED BY <1>1, <1>3, <1>6, <3>1, <3>2, <3>5, <3>6, <3>7
  <2> QED BY <2>1, <2>2
<1> QED BY <1>1, <1>5, <1>6

(* A message that comes after all the others, under a packet id nobody uses. *)
LEMMA NewcomerKeeps ==
    ASSUME BInv, DInv, attached, resuming # "inflight", NEW e \in StoreEntries,
           IsPublish(e), e.pid \notin ep.pids, e.msg \notin Out,
           Pending' = Pending \union {e}, UNCHANGED <<c2b, handled, received>>
    PROVE  Progress'
<1>1. Pending = Stored /\ \A f \in Pending : f.pid # e.pid
  BY PendingFacts, EndpointFacts
<1>2. e.pid \notin handled /\ e.msg \notin ToSet(received)
  BY <1>1 DEF DInv, Progress, Out
<1>3. \A x \in ToSet(c2b) : x.pid # e.pid
  BY EndpointFacts DEF BInv, Traffic, Expected
<1> QED BY <1>2, <1>3 DEF DInv, Progress, Reached, IsPublish

LEMMA SentAnewKeeps ==
    ASSUME BInv, DInv, attached, resuming # "inflight", resuming' # "inflight",
           NEW m \in Messages, NeedsPid(m), SentAnew(m), \A n \in Out : n < m,
           UNCHANGED <<net, attached, inflight, b2c, c2b, handled, received>>
    PROVE  /\ Lined' /\ UnderWay' /\ Progress' /\ ZeroOnce'
           /\ MessagesIn(Pending') = MessagesIn(Pending) \union {m}
           /\ Out' \subseteq Out \union {m}
<1>1. PICK e \in StoreEntries : /\ IsPublish(e) /\ e.msg = m /\ e.pid \notin ep.pids
                                /\ ep' = PublishSent(ep, e)
  BY SentAnewStep
<1>2. \A n \in Out : n \in Nat
  BY OutTyped
<1>3. m \notin Out
  BY <1>2
<1>4. \A f \in Pending : f.msg < e.msg
  BY <1>1 DEF Out, MessagesIn
<1>5. \A f \in Stored \intersect FirstSends : f.msg < e.msg
  BY <1>4 DEF Pending
<1>6. /\ Stored' = Stored \union {e}
      /\ InLine(ep'.store, FirstSends) /\ LinedUp(b2c', ep'.posted, ep'.queue)
      /\ UnderWay' /\ ZeroOnce'
      /\ \A x \in Packets' : x \in Packets \/ x.msg = e.msg
  BY <1>1, <1>5, PublishSentKeeps
<1>7. Pending' = Pending \union {e}
  BY <1>6 DEF Pending
<1>8. Progress'
  BY <1>1, <1>3, <1>7, NewcomerKeeps
<1>9. Lined'
  <2>1. Before(ToSet(inflight) \intersect FirstSends,
               (Stored' \ ToSet(inflight)) \intersect FirstSends)
    BY <1>4, <1>6 DEF DInv, Lined, Before, Pending
  <2> QED BY <1>6, <2>1 DEF DInv, Lined
<1>10. MessagesIn(Pending') = MessagesIn(Pending) \union {m}
  BY <1>1, <1>7 DEF MessagesIn
<1>11. Out' \subseteq Out \union {m}
  BY <1>1, <1>6, <1>10 DEF Out, MessagesIn
<1> QED BY <1>6, <1>8, <1>9, <1>10, <1>11

LEMMA ZeroSentKeeps ==
    ASSUME BInv, DInv, resuming # "inflight", resuming' # "inflight",
           NEW m \in Messages, ~NeedsPid(m), m \notin Out,
           ep'.store = ep.store, ep'.queue = ep.queue,
           \/ ep'.posted = ep.posted /\ b2c' = b2c
           \/ ep'.posted = Append(ep.posted, PublishPacket(NoPid, m)) /\ b2c' = b2c
           \/ ep'.posted = ep.posted /\ b2c' = Append(b2c, PublishPacket(NoPid, m)),
           UNCHANGED <<net, attached, inflight, c2b, handled, received>>
    PROVE  /\ Lined' /\ UnderWay' /\ Progress' /\ ZeroOnce'
           /\ Pending' = Pending
           /\ Out' \subseteq Out \union {m}
<1> DEFINE x == PublishPacket(NoPid, m)
<1>1. /\ x \in PacketsToReceiver /\ x \in ZeroPublishes /\ x \in PublishPackets /\ x.msg = m
      /\ x \notin SentPublishes
  <2>1. x \in PacketsToReceiver /\ x.type = "publish" /\ x.msg = m
    BY PacketsWritten DEF NeedsPid, PublishPacket
  <2> HIDE DEF x
  <2> QED BY <2>1 DEF PacketsToReceiver, ZeroPublishes, SentPublishes, NeedsPid
<1>2. /\ ep.posted \in Seq(PacketsToReceiver) /\ b2c \in Seq(PacketsToReceiver)
      /\ LinedUp(b2c, ep.posted, ep.queue) /\ Once(ep.posted) /\ Once(b2c)
  BY PacketFacts DEF DInv, Lined, ZeroOnce
<1>3. x \notin Packets
  BY <1>1 DEF Out, MessagesIn
<1>4. m \notin ToSet(received)
  BY DEF Out
<1> HIDE DEF x
<1>5. Stored' = Stored /\ Pending' = Pending
  BY DEF Stored, Pending
<1>6. LinedUp(b2c', ep'.posted, ep'.queue) /\ ZeroOnce' /\ Packets \subseteq Packets'
      /\ Packets' \subseteq Packets \union {x}
  <2>1. CASE ep'.posted = ep.posted /\ b2c' = b2c
    BY <1>2, <2>1 DEF DInv, ZeroOnce, Packets
  <2>2. CASE ep'.posted = Append(ep.posted, x) /\ b2c' = b2c
    <3>1. /\ LinedUp(b2c', ep'.posted, ep'.queue)
          /\ Once(ep'.posted) /\ ToSet(ep'.posted) = ToSet(ep.posted) \union {x}
      BY <1>1, <1>2, <1>3, <2>2, LinedPassing, OnceAppend DEF Packets
    <3>2. Packets' = Packets \union {x}
      BY <2>2, <3>1 DEF Packets
    <3>3. ZeroOnce'
      BY <1>1, <1>2, <1>3, <1>4, <2>2, <3>1, <3>2 DEF DInv, ZeroOnce, Packets
    <3> QED BY <3>1, <3>2, <3>3
  <2>3. CASE ep'.posted = ep.posted /\ b2c' = Append(b2c, x)
    <3>1. /\ LinedUp(b2c', ep'.posted, ep'.queue)
          /\ Once(b2c') /\ ToSet(b2c') = ToSet(b2c) \union {x}
      BY <1>1, <1>2, <1>3, <2>3, LinedPassing, OnceAppend DEF Packets
    <3>2. Packets' = Packets \union {x}
      BY <2>3, <3>1 DEF Packets
    <3>3. ZeroOnce'
      BY <1>1, <1>2, <1>3, <1>4, <2>3, <3>1, <3>2 DEF DInv, ZeroOnce, Packets
    <3> QED BY <3>1, <3>2, <3>3
  <2> QED BY <2>1, <2>2, <2>3 DEF x
<1>7. Lined'
  BY <1>5, <1>6 DEF DInv, Lined
<1>8. UnderWay'
  BY <1>5, <1>6 DEF DInv, UnderWay, Reached
<1>9. Progress'
  BY <1>5 DEF DInv, Progress, Reached
<1>10. Out' \subseteq Out \union {m}
  BY <1>1, <1>5, <1>6 DEF Out, MessagesIn
<1> QED BY <1>5, <1>6, <1>7, <1>8, <1>9, <1>10

LEMMA PublishIs ==
    ASSUME NEW m \in Messages, issued < Len(Qos), m = issued + 1, issued' = m,
           received' = received,
           NeedsPid(m) => Owed' = Owed \union {m},
           ~NeedsPid(m) => Owed' = Owed
    PROVE  Promise!Publish
BY DEF Promise!Publish, NeedsPid

(* do_publish is the promise's Publish. *)
LEMMA PublishKeeps ==
    ASSUME BInv, DInv, ~Interleaved, Publish
    PROVE  DInv' /\ Promise!Publish
<1> DEFINE m == issued + 1
<1>1. /\ resuming = "none" /\ issued' = m /\ issued < Len(Qos)
      /\ UNCHANGED <<net, resuming, walked, attached, inflight, b2c, c2b, handled, received,
                     connects>>
  BY DEF Publish
<1>2. m \in Messages /\ issued \in Nat /\ \A n \in Out : n <= issued
  BY <1>1, IssuedNext DEF DInv, Behind, BInv, TypeOK
<1>3. /\ GoesOut(m) => /\ IF NeedsPid(m) THEN SentAnew(m)
                          ELSE ep' = Posted(ep, PublishPacket(NoPid, m))
                       /\ UNCHANGED offline
      /\ ~GoesOut(m) => offline' = Append(offline, m) /\ UNCHANGED ep
  <2>1. IF GoesOut(issued')
        THEN /\ IF NeedsPid(issued') THEN SentAnew(issued')
                ELSE ep' = Posted(ep, PublishPacket(NoPid, issued'))
             /\ UNCHANGED offline
        ELSE offline' = Append(offline, issued') /\ UNCHANGED ep
    BY DEF Publish
  <2> QED BY <1>1, <2>1
<1>4. \A n \in Out : n \in Nat
  BY OutTyped
<1>5. m \notin Out /\ (\A n \in Out : n < m /\ n <= m) /\ m <= m
  BY <1>2, <1>4
<1> HIDE DEF m
<1>6. CASE GoesOut(m) /\ NeedsPid(m)
  <2>1. attached /\ SentAnew(m) /\ offline' = offline /\ offline = <<>>
    BY <1>3, <1>6 DEF GoesOut
  <2>2. /\ Lined' /\ UnderWay' /\ Progress' /\ ZeroOnce'
        /\ MessagesIn(Pending') = MessagesIn(Pending) \union {m}
        /\ Out' \subseteq Out \union {m}
    BY <1>1, <1>2, <1>5, <1>6, <2>1, SentAnewKeeps
  <2>3. Behind'
    BY <1>1, <1>5, <2>1, <2>2, RisingNone DEF Behind
  <2>4. Promise!Publish
    <3>1. Owed' = Owed \union {m}
      BY <2>1, <2>2, OwedIs
    <3> QED BY <1>1, <1>2, <1>6, <3>1, PublishIs DEF m
  <2> QED BY <2>2, <2>3, <2>4 DEF DInv
<1>7. CASE GoesOut(m) /\ ~NeedsPid(m)
  <2>1. attached /\ ep' = Posted(ep, PublishPacket(NoPid, m)) /\ offline' = offline /\ offline = <<>>
    BY <1>3, <1>7 DEF GoesOut
  <2>2. /\ ep'.store = ep.store /\ ep'.queue = ep.queue
        /\ ep'.posted = IF net = "down" THEN ep.posted
                        ELSE Append(ep.posted, PublishPacket(NoPid, m))
    <3>1. PublishPacket(NoPid, m) \in PacketsToReceiver
      BY <1>2, <1>7, PacketsWritten DEF NeedsPid
    <3> QED BY <2>1, <3>1, EndpointFacts, PostedFields
  <2>3. /\ Lined' /\ UnderWay' /\ Progress' /\ ZeroOnce'
        /\ Pending' = Pending
        /\ Out' \subseteq Out \union {m}
    BY <1>1, <1>2, <1>5, <1>7, <2>2, ZeroSentKeeps
  <2>4. Behind'
    BY <1>1, <1>5, <2>1, <2>3, RisingNone DEF Behind
  <2>5. Promise!Publish
    <3>1. Owed' = Owed
      BY <2>1, <2>3, OwedIs
    <3> QED BY <1>1, <1>2, <1>7, <3>1, PublishIs DEF m
  <2> QED BY <2>3, <2>4, <2>5 DEF DInv
<1>8. CASE ~GoesOut(m)
  <2>1. offline' = Append(offline, m) /\ UNCHANGED ep
    BY <1>3, <1>8
  <2>2. /\ Packets' = Packets /\ Stored' = Stored /\ Pending' = Pending
    BY <1>1, <2>1 DEF Packets, Stored, Pending
  <2>3. Lined' /\ UnderWay' /\ Progress' /\ ZeroOnce'
    BY <1>1, <2>1, <2>2 DEF DInv, Lined, UnderWay, Progress, ZeroOnce, Reached
  <2>4. Out' = Out
    BY <1>1, <2>2 DEF Out
  <2>5. Rising(offline') /\ ToSet(offline') = ToSet(offline) \union {m}
        /\ ToSet(offline) \subseteq Messages /\ Messages \subseteq Nat
    <3>1. offline \in Seq(Messages) /\ Rising(offline) /\ \A n \in ToSet(offline) : n <= issued
      BY DEF BInv, TypeOK, DInv, Behind
    <3>2. ToSet(offline) \subseteq Messages /\ Messages \subseteq Nat
      BY <3>1, MembersTyped DEF Messages
    <3>3. \A n \in ToSet(offline) : n < m
      <4>1. \A n \in Nat : n <= issued => n < m
        BY <1>2 DEF m
      <4> QED BY <3>1, <3>2, <4>1
    <3> QED BY <1>2, <2>1, <3>1, <3>2, <3>3, RisingAppend
  <2>6. Behind'
    <3>1. \A n \in ToSet(offline) : n <= m /\ \A k \in Out : k < n
      <4>1. \A n \in Nat : n <= issued => n <= m
        BY <1>2 DEF m
      <4> QED BY <2>5, <4>1 DEF DInv, Behind
    <3> QED BY <1>1, <1>5, <2>4, <2>5, <3>1 DEF Behind
  <2>7. Promise!Publish
    <3>1. Owed' = {n \in ToSet(offline) \union {m} : NeedsPid(n)} \union MessagesIn(Pending)
      BY <2>2, <2>5, OwedIs
    <3>2. /\ NeedsPid(m) => Owed' = Owed \union {m}
          /\ ~NeedsPid(m) => Owed' = Owed
      BY <3>1, OwedIs
    <3> QED BY <1>1, <1>2, <3>2, PublishIs DEF m
  <2> QED BY <2>3, <2>6, <2>7 DEF DInv
<1> QED BY <1>6, <1>7, <1>8

(* A pubrel goes out: it has no place in the order. *)
LEMMA PubrelPosted ==
    ASSUME BInv, DInv, NEW p \in Pids, ep'.queue = ep.queue,
           ep'.posted = IF net = "down" THEN ep.posted ELSE Append(ep.posted, PubrelPacket(p)),
           UNCHANGED <<b2c, received>>
    PROVE  /\ LinedUp(b2c', ep'.posted, ep'.queue) /\ ZeroOnce'
           /\ Packets \subseteq Packets'
           /\ \A x \in Packets' : x \in PublishPackets => x \in Packets
<1> DEFINE y == PubrelPacket(p)
<1>1. y \in PacketsToReceiver /\ y \notin PublishPackets
  BY PacketsWritten DEF PubrelPacket, PublishPackets
<1> HIDE DEF y
<1>2. y \notin SentPublishes /\ y \notin ZeroPublishes
  BY <1>1 DEF SentPublishes, ZeroPublishes
<1>3. /\ ep.posted \in Seq(PacketsToReceiver) /\ b2c \in Seq(PacketsToReceiver)
      /\ LinedUp(b2c, ep.posted, ep.queue) /\ Once(ep.posted)
  BY PacketFacts DEF DInv, Lined, ZeroOnce
<1>4. CASE net = "down"
  <2>1. ep'.posted = ep.posted /\ Packets' = Packets
    BY <1>4 DEF Packets
  <2> QED BY <1>3, <2>1 DEF DInv, ZeroOnce
<1>5. CASE net # "down"
  <2>1. ep'.posted = Append(ep.posted, y)
    BY <1>5 DEF y
  <2>2. /\ LinedUp(b2c, ep'.posted, ep.queue)
        /\ Once(ep'.posted) /\ ToSet(ep'.posted) = ToSet(ep.posted) \union {y}
    <3>1. LinedUp(b2c, Append(ep.posted, y), ep.queue)
      BY <1>1, <1>2, <1>3, LinedPassing
    <3>2. /\ Once(Append(ep.posted, y))
          /\ ToSet(Append(ep.posted, y)) = ToSet(ep.posted) \union {y}
      BY <1>1, <1>2, <1>3, OnceAppend
    <3> QED BY <2>1, <3>1, <3>2
  <2>3. Packets' = Packets \union {y}
    BY <2>2 DEF Packets
  <2>4. ZeroOnce'
    BY <1>2, <2>2, <2>3 DEF DInv, ZeroOnce
  <2> QED BY <1>1, <2>2, <2>3, <2>4
<1> QED BY <1>4, <1>5

(* The inflight messages are sent again in the order they were first sent. *)
LEMMA SendInflightKeeps ==
    ASSUME BInv, DInv, SendInflight
    PROVE  DInv' /\ UNCHANGED Promise!vars
<1>1. /\ resuming = "inflight" /\ net = "up" /\ attached /\ b2c = <<>> /\ c2b = <<>>
      /\ UNCHANGED <<issued, net, attached, inflight, offline, b2c, c2b,
                     handled, received, connects>>
  BY SendInflightStep
<1>2. CASE /\ walked = Len(inflight) /\ resuming' = "offline" /\ UNCHANGED <<walked, ep>>
           /\ ToSet(inflight) \subseteq Stored
  <2>1. Stored' = Stored /\ Pending' = Pending /\ Packets' = Packets
    BY <1>1, <1>2 DEF Stored, Pending, Packets
  <2>2. Behind' /\ Progress' /\ UNCHANGED Promise!vars
    BY <1>1, <2>1, NothingMoves DEF DInv
  <2>3. Stored = ToSet(inflight)
    BY <1>1, <1>2, PendingFacts DEF Pending
  <2>4. Lined'
    BY <1>1, <1>2, <2>1, <2>3 DEF DInv, Lined, Before
  <2>5. UnderWay' /\ ZeroOnce'
    BY <1>1, <1>2, <2>1 DEF DInv, UnderWay, ZeroOnce, Reached
  <2> QED BY <2>2, <2>4, <2>5 DEF DInv
<1>3. ASSUME NEW e \in StoreEntries, e = inflight[walked'], walked' \in DOMAIN inflight,
             e.pid \notin ep.pids,
             \/ IsPublish(e) /\ ep' = PublishSent(ep, e)
             \/ ~IsPublish(e) /\ ep' = PubrelResent(ep, e),
             walked < Len(inflight), walked' = walked + 1, UNCHANGED resuming
      PROVE  DInv' /\ UNCHANGED Promise!vars
  <2>1. e \in ToSet(inflight) /\ e.msg \in MessagesIn(Pending)
    BY <1>3 DEF ToSet, Pending, MessagesIn
  <2>2. /\ InLine(ep'.store, FirstSends) /\ Stored' = Stored \union {e}
        /\ LinedUp(b2c', ep'.posted, ep'.queue) /\ UnderWay' /\ ZeroOnce'
        /\ \A x \in Packets' : x \in PublishPackets =>
               x \in Packets \/ x.msg \in MessagesIn(Pending)
    <3>1. CASE IsPublish(e) /\ ep' = PublishSent(ep, e)
      <4>1. e.msg \notin Expirable => \A f \in Stored \intersect FirstSends : f.msg < e.msg
        <5> SUFFICES ASSUME e.msg \notin Expirable, NEW i \in DOMAIN ep.store,
                            ep.store[i] \in FirstSends
                     PROVE  ep.store[i].msg < e.msg
          BY DEF Stored, ToSet
        <5>1. /\ walked \in Nat /\ Len(inflight) \in Nat /\ DOMAIN inflight = 1..Len(inflight)
              /\ i \in 1..walked /\ ep.store[i] = inflight[i]
          BY <1>1, LenProperties DEF BInv, TypeOK, Held
        <5>2. i \in DOMAIN inflight /\ i < walked'
          BY <1>3, <5>1
        <5>3. Ordered(inflight, FirstSends, Lasting(FirstSends))
          BY DEF DInv, Lined, InLine
        <5>4. inflight[i] \in FirstSends /\ inflight[walked'] \in Lasting(FirstSends)
          BY <1>3, <3>1, <5>1 DEF FirstSends, Lasting
        <5> QED BY <1>3, <5>1, <5>2, <5>3, <5>4 DEF Ordered
      <4> QED BY <1>1, <1>3, <2>1, <3>1, <4>1, PublishSentKeeps
    <3>2. CASE ~IsPublish(e) /\ ep' = PubrelResent(ep, e)
      <4>1. /\ ep'.store = Inserted(ep.store, e) /\ ep'.queue = ep.queue
            /\ ep'.posted = IF net = "down" THEN ep.posted
                            ELSE Append(ep.posted, PubrelPacket(e.pid))
            /\ e.pid \in Pids
        <5>1. e.pid \in Pids
          BY DEF StoreEntries
        <5>2. PubrelPacket(e.pid) \in PacketsToReceiver
          BY <5>1, PacketsWritten
        <5> QED BY <3>2, <5>1, <5>2, EndpointFacts, PubrelResentFields
      <4>2. /\ LinedUp(b2c', ep'.posted, ep'.queue) /\ ZeroOnce'
            /\ Packets \subseteq Packets'
            /\ \A x \in Packets' : x \in PublishPackets => x \in Packets
        BY <1>1, <4>1, PubrelPosted
      <4>3. /\ ep'.store = Append(ep.store, e)
            /\ ToSet(ep'.store) = Stored \union {e}
        BY <1>3, <4>1, EndpointFacts, InsertedOne DEF Stored
      <4>4. e \notin Lasting(FirstSends)
        BY <3>2 DEF Lasting, FirstSends
      <4>5. InLine(ep.store, FirstSends) /\ ep.store \in Seq(StoreEntries)
        BY EndpointFacts DEF DInv, Lined
      <4>6. InLine(ep'.store, FirstSends)
        BY <4>3, <4>4, <4>5, OrderedAppend DEF InLine
      <4>7. Stored' = Stored \union {e}
        BY <4>3 DEF Stored
      <4>8. UnderWay'
        BY <1>1, <3>2, <4>1, <4>2, <4>7 DEF DInv, UnderWay, Reached
      <4> QED BY <4>2, <4>6, <4>7, <4>8
    <3> QED BY <1>3, <3>1, <3>2
  <2>3. Pending' = Pending
    BY <1>1, <2>1, <2>2 DEF Pending
  <2>4. Behind' /\ Progress' /\ UNCHANGED Promise!vars
    BY <1>1, <2>2, <2>3, NothingMoves DEF DInv
  <2>5. Lined'
    BY <1>1, <1>3, <2>2 DEF DInv, Lined
  <2> QED BY <2>2, <2>4, <2>5 DEF DInv
<1> QED BY <1>2, <1>3, SendInflightStep

(* The first of the offline messages comes after all that left the list. *)
LEMMA SendOfflineKeeps ==
    ASSUME BInv, DInv, SendOffline
    PROVE  DInv' /\ UNCHANGED Promise!vars
<1>1. /\ resuming \in {"offline", "sending"} /\ net = "up" /\ attached
      /\ UNCHANGED <<issued, net, walked, attached, inflight, c2b, handled, received, connects>>
      /\ \/ /\ offline # <<>> /\ offline' = Tail(offline)
            /\ OfflineSent(Head(offline)) /\ resuming' = "sending"
         \/ resuming' = "none" /\ UNCHANGED <<offline, ep, b2c>>
  BY DEF SendOffline, BInv, Connection
<1>2. CASE resuming' = "none" /\ UNCHANGED <<offline, ep, b2c>>
  <2>1. Stored' = Stored /\ Pending' = Pending /\ Packets' = Packets
    BY <1>1, <1>2 DEF Stored, Pending, Packets
  <2>2. Behind' /\ Progress' /\ UNCHANGED Promise!vars
    BY <1>1, <1>2, <2>1, NothingMoves DEF DInv
  <2>3. Lined'
    BY <1>1, <1>2, <2>1 DEF DInv, Lined
  <2>4. UnderWay' /\ ZeroOnce'
    BY <1>1, <1>2, <2>1 DEF DInv, UnderWay, ZeroOnce, Reached
  <2> QED BY <2>2, <2>3, <2>4 DEF DInv
<1>3. CASE /\ offline # <<>> /\ offline' = Tail(offline)
           /\ OfflineSent(Head(offline)) /\ resuming' = "sending"
  <2>1. PICK m \in Messages : m = Head(offline)
    BY <1>3, HeadTailProperties DEF BInv, TypeOK
  <2>2. /\ Rising(offline') /\ ToSet(offline) = ToSet(offline') \union {m}
        /\ \A n \in ToSet(offline') : m < n
    BY <1>3, <2>1, RisingTail DEF BInv, TypeOK, DInv, Behind
  <2>3. /\ \A n \in Out : n < m
        /\ m <= issued
        /\ \A n \in ToSet(offline') : n <= issued /\ \A k \in Out : k < n
        /\ \A n \in Out : n <= issued
    BY <2>2 DEF DInv, Behind
  <2>4. m \notin Out
    BY <2>3, OutTyped
  <2>5. OfflineSent(m)
    BY <1>3, <2>1
  <2>6. CASE NeedsPid(m)
    <3>1. SentAnew(m) /\ b2c' = b2c
      BY <2>5, <2>6 DEF OfflineSent
    <3>2. /\ Lined' /\ UnderWay' /\ Progress' /\ ZeroOnce'
          /\ MessagesIn(Pending') = MessagesIn(Pending) \union {m}
          /\ Out' \subseteq Out \union {m}
      <4>1. resuming # "inflight" /\ resuming' # "inflight"
        BY <1>1, <1>3
      <4> QED BY <1>1, <2>3, <2>6, <3>1, <4>1, SentAnewKeeps
    <3>3. Behind'
      BY <1>1, <2>2, <2>3, <3>2 DEF Behind
    <3>4. Owed' = Owed
      BY <2>2, <2>6, <3>2, OwedIs
    <3> QED BY <1>1, <3>2, <3>3, <3>4 DEF DInv, Promise!vars
  <2>7. CASE ~NeedsPid(m)
    <3>1. ep' = ep /\ b2c' = Append(b2c, PublishPacket(NoPid, m))
      BY <2>5, <2>7 DEF OfflineSent
    <3>2. /\ Lined' /\ UnderWay' /\ Progress' /\ ZeroOnce'
          /\ Pending' = Pending
          /\ Out' \subseteq Out \union {m}
      <4>1. resuming # "inflight" /\ resuming' # "inflight"
        BY <1>1, <1>3
      <4>2. ep'.store = ep.store /\ ep'.queue = ep.queue /\ ep'.posted = ep.posted
        BY <3>1
      <4> QED BY <1>1, <2>4, <2>7, <3>1, <4>1, <4>2, ZeroSentKeeps
    <3>3. Behind'
      BY <1>1, <2>2, <2>3, <3>2 DEF Behind
    <3>4. Owed' = Owed
      BY <2>2, <2>7, <3>2, OwedIs
    <3> QED BY <1>1, <3>2, <3>3, <3>4 DEF DInv, Promise!vars
  <2> QED BY <2>6, <2>7
<1> QED BY <1>1, <1>2, <1>3

(* The write queue's head goes to the socket, behind what is there. *)
LEMMA WriteKeeps ==
    ASSUME BInv, DInv, Write
    PROVE  DInv' /\ UNCHANGED Promise!vars
<1>1. PICK y \in PacketsToReceiver : y = Head(ep.posted)
  BY PacketFacts, HeadTailProperties DEF Write
<1>2. /\ ep.posted # <<>> /\ b2c' = Append(b2c, y)
      /\ ep'.posted = Tail(ep.posted) /\ ep'.store = ep.store /\ ep'.queue = ep.queue
      /\ UNCHANGED <<issued, net, resuming, attached, inflight, offline, c2b, handled, received>>
  BY <1>1, EndpointFacts DEF Write, Endpoints
<1>3. /\ ep.posted \in Seq(PacketsToReceiver) /\ b2c \in Seq(PacketsToReceiver)
      /\ LinedUp(b2c, ep.posted, ep.queue) /\ Once(ep.posted) /\ Once(b2c)
      /\ ToSet(ep.posted) \intersect ToSet(b2c) \intersect ZeroPublishes = {}
  BY PacketFacts DEF DInv, Lined, ZeroOnce
<1>4. LinedUp(b2c', ep'.posted, ep'.queue)
  BY <1>1, <1>2, <1>3, LinedWritten
<1>5. /\ Once(ep'.posted) /\ ToSet(ep.posted) = ToSet(ep'.posted) \union {y}
      /\ y \in ZeroPublishes => y \notin ToSet(ep'.posted)
  BY <1>1, <1>2, <1>3, OnceTail
<1>6. Once(b2c') /\ ToSet(b2c') = ToSet(b2c) \union {y}
  <2>1. y \in ZeroPublishes => y \notin ToSet(b2c)
    BY <1>3, <1>5
  <2> QED BY <1>2, <1>3, <2>1, OnceAppend
<1>7. Stored' = Stored /\ Pending' = Pending /\ Packets' = Packets
  BY <1>2, <1>5, <1>6 DEF Stored, Pending, Packets
<1>8. Behind' /\ Progress' /\ UNCHANGED Promise!vars
  BY <1>2, <1>7, NothingMoves DEF DInv
<1>9. Lined'
  BY <1>2, <1>4, <1>7 DEF DInv, Lined
<1>10. UnderWay'
  BY <1>2, <1>7 DEF DInv, UnderWay, Reached
<1>11. ZeroOnce'
  BY <1>2, <1>3, <1>5, <1>6, <1>7 DEF DInv, ZeroOnce
<1> QED BY <1>8, <1>9, <1>10, <1>11 DEF DInv

-----------------------------------------------------------------------------
(* A message is settled, or still owed because another entry holds it. *)

LEMMA SettleIs ==
    ASSUME BInv, NEW m \in Messages, m <= issued, m \in Owed,
           m \in Refused \union Expirable \/ m \in ToSet(received),
           Owed' \subseteq Owed, Owed \ {m} \subseteq Owed',
           UNCHANGED <<issued, received>>
    PROVE  [Promise!Next]_(Promise!vars)
<1>1. CASE m \in Owed'
  <2>1. Owed' = Owed
    BY <1>1
  <2> QED BY <2>1 DEF Promise!vars
<1>2. CASE m \notin Owed'
  <2>1. Owed' = Owed \ {m}
    BY <1>2
  <2>2. m \in 1..issued
    BY DEF Messages, BInv, TypeOK
  <2>3. m \in Refused \union Expirable \/ Promise!WasReceived(m)
    BY DEF Promise!WasReceived, ToSet
  <2>4. Promise!Settle(m)
    BY <2>1, <2>3 DEF Promise!Settle
  <2> QED BY <2>2, <2>4 DEF Promise!Next
<1> QED BY <1>1, <1>2

LEMMA OfflineExpiresKeeps ==
    ASSUME BInv, DInv, NEW i \in DOMAIN offline, OfflineExpires(i),
           UNCHANGED <<issued, net, resuming, attached, ep, b2c, c2b, handled, received>>
    PROVE  DInv' /\ [Promise!Next]_(Promise!vars)
<1>1. PICK m \in Messages : m = offline[i] /\ m \in ToSet(offline)
  BY MembersTyped DEF BInv, TypeOK, ToSet
<1>2. m \in Expirable /\ inflight' = inflight /\ offline' = RemoveAt(offline, i)
  BY <1>1 DEF OfflineExpires
<1>3. Rising(offline') /\ ToSet(offline') = ToSet(offline) \ {m}
  BY <1>1, <1>2, RisingRemoved DEF BInv, TypeOK, DInv, Behind
<1>4. Stored' = Stored /\ Pending' = Pending /\ Packets' = Packets
  BY <1>2 DEF Stored, Pending, Packets
<1>5. Behind'
  BY <1>3, <1>4 DEF DInv, Behind, Out
<1>6. Progress'
  BY <1>4 DEF DInv, Progress, Reached
<1>7. Lined' /\ UnderWay' /\ ZeroOnce'
  BY <1>2, <1>4 DEF DInv, Lined, UnderWay, ZeroOnce, Reached
<1>8. [Promise!Next]_(Promise!vars)
  <2>1. m <= issued
    BY <1>1 DEF DInv, Behind
  <2>2. CASE NeedsPid(m)
    <3>1. m \in Owed /\ Owed' \subseteq Owed /\ Owed \ {m} \subseteq Owed'
      BY <1>1, <1>3, <1>4, <2>2, OwedIs
    <3> QED BY <1>2, <2>1, <3>1, SettleIs
  <2>3. CASE ~NeedsPid(m)
    <3>1. Owed' = Owed
      BY <1>3, <1>4, <2>3, OwedIs
    <3> QED BY <3>1 DEF Promise!vars
  <2> QED BY <2>2, <2>3
<1> QED BY <1>5, <1>6, <1>7, <1>8 DEF DInv

(* An expired QoS 2 message would leave its packet id in the subscriber's
   qos2_publish_handled_, for the next message that gets it. *)
LEMMA InflightExpiresKeeps ==
    ASSUME BInv, DInv, \A m \in Expirable : Qos[m] # 2, resuming = "none",
           NEW i \in DOMAIN inflight, InflightExpires(i),
           UNCHANGED <<issued, net, resuming, attached, ep, b2c, c2b, handled, received>>
    PROVE  DInv' /\ [Promise!Next]_(Promise!vars)
<1>1. PICK e \in StoreEntries : e = inflight[i] /\ e \in ToSet(inflight)
  BY MembersTyped DEF BInv, TypeOK, ToSet
<1>2. /\ e.msg \in Expirable /\ IsPublish(e) /\ offline' = offline
      /\ inflight' = RemoveAt(inflight, i)
  BY <1>1 DEF InflightExpires
<1>3. /\ ToSet(inflight') = ToSet(inflight) \ {e}
      /\ InLine(inflight', FirstSends)
  BY <1>1, <1>2, RemovedOne, OrderedRemoved DEF BInv, TypeOK, Held, DInv, Lined, InLine
<1>4. /\ Stored' = Stored /\ Packets' = Packets
      /\ Pending' \subseteq Pending /\ Pending \ {e} \subseteq Pending'
  BY <1>3 DEF Stored, Pending, Packets
<1>5. Behind'
  <2>1. Out' \subseteq Out
    BY <1>4 DEF Out, MessagesIn
  <2> QED BY <1>2, <2>1 DEF DInv, Behind
<1>6. Progress'
  <2>1. \A p \in handled : \E f \in Pending' : f.pid = p /\ Qos[f.msg] = 2
    <3>1. Qos[e.msg] # 2
      BY <1>2
    <3> QED BY <1>4, <3>1 DEF DInv, Progress
  <2> QED BY <1>4, <2>1 DEF DInv, Progress, Reached
<1>7. Lined'
  <2>1. attached /\ resuming # "inflight" =>
            Before(ToSet(inflight') \intersect FirstSends,
                   (Stored \ ToSet(inflight')) \intersect FirstSends)
    BY <1>2, <1>3 DEF DInv, Lined, Before
  <2> QED BY <1>3, <1>4, <2>1 DEF DInv, Lined
<1>8. UnderWay' /\ ZeroOnce'
  BY <1>4 DEF DInv, UnderWay, ZeroOnce, Reached
<1>9. [Promise!Next]_(Promise!vars)
  <2>1. e.msg \in MessagesIn(Pending) /\ e.msg \in Messages /\ e.msg \in Out
    BY <1>1 DEF MessagesIn, Pending, Out, StoreEntries
  <2>2. e.msg <= issued
    BY <2>1 DEF DInv, Behind
  <2>3. /\ MessagesIn(Pending') \subseteq MessagesIn(Pending)
        /\ MessagesIn(Pending) \ {e.msg} \subseteq MessagesIn(Pending')
    BY <1>4 DEF MessagesIn
  <2>4. e.msg \in Owed /\ Owed' \subseteq Owed /\ Owed \ {e.msg} \subseteq Owed'
    BY <1>2, <2>1, <2>3, OwedIs
  <2> QED BY <1>2, <2>1, <2>2, <2>4, SettleIs
<1> QED BY <1>5, <1>6, <1>7, <1>8, <1>9 DEF DInv

LEMMA MessageExpiresKeeps ==
    ASSUME BInv, DInv, \A m \in Expirable : Qos[m] # 2, MessageExpires
    PROVE  DInv' /\ [Promise!Next]_(Promise!vars)
BY OfflineExpiresKeeps, InflightExpiresKeeps DEF MessageExpires

-----------------------------------------------------------------------------
(* The broker reads an answer *)

LEMMA WithoutInLine ==
    ASSUME NEW s \in Seq(StoreEntries), NEW p, InLine(s, FirstSends)
    PROVE  InLine(Without(s, p), FirstSends)
<1>1. CASE HasPid(s, p)
  <2>1. PICK k \in DOMAIN s : Without(s, p) = RemoveAt(s, k)
    BY <1>1 DEF Without, Erased, HasPid
  <2> QED BY <2>1, OrderedRemoved DEF InLine
<1>2. CASE ~HasPid(s, p)
  BY <1>2 DEF Without
<1> QED BY <1>1, <1>2

LEMMA AnsweredReached ==
    ASSUME BInv, DInv, BrokerReads, NEW h \in Stored,
           h.pid = Head(c2b).pid, h.awaits = Head(c2b).type
    PROVE  /\ Head(c2b) \in ToSet(c2b) /\ ToSet(c2b') \subseteq ToSet(c2b)
           /\ h \in Pending /\ Pending = Stored
           /\ Reached(h.msg)
           /\ (h.awaits = "pubrec" => V5 /\ IsError(Head(c2b).reason)) =>
                  \A p \in handled : \E f \in Pending \ {h} : f.pid = p /\ Qos[f.msg] = 2
<1>1. /\ attached /\ resuming = "none" /\ c2b # <<>> /\ c2b' = Tail(c2b)
      /\ c2b \in Seq(PacketsToSender)
  BY AnswerCases DEF BInv, TypeOK
<1>2. ToSet(c2b) = ToSet(c2b') \union {Head(c2b)}
  BY <1>1, TailMembers
<1>3. Pending = Stored /\ h \in Pending /\ h \in StoreEntries
  BY <1>1, PendingFacts
<1>4. h.awaits \in Awaited /\ (h.awaits = "puback" => Qos[h.msg] # 2)
  BY <1>3 DEF StoreEntries
<1>5. Reached(h.msg)
  BY <1>2, <1>3, <1>4 DEF DInv, Progress, Awaited
<1>6. ASSUME h.awaits = "pubrec" => V5 /\ IsError(Head(c2b).reason), NEW p \in handled
      PROVE  \E f \in Pending \ {h} : f.pid = p /\ Qos[f.msg] = 2
  <2>1. PICK f \in Pending : f.pid = p /\ Qos[f.msg] = 2
    BY DEF DInv, Progress
  <2>2. h.awaits # "puback" => h.pid \notin handled
    BY <1>2, <1>4, <1>6 DEF DInv, Progress, Awaited
  <2> QED BY <1>4, <2>1, <2>2
<1> QED BY <1>2, <1>3, <1>5, <1>6

(* What the message held is given back. *)
LEMMA SettledKeeps ==
    ASSUME BInv, DInv, BrokerReads, NEW h \in Stored,
           h.pid = Head(c2b).pid, h.awaits = Head(c2b).type,
           h.awaits = "pubrec" => V5 /\ IsError(Head(c2b).reason),
           inflight' = Without(inflight, h.pid), ep'.store = Without(ep.store, h.pid),
           Stored' = Stored \ {h},
           Packets \subseteq Packets',
           \A x \in Packets' : x \in PublishPackets => x \in Packets \/ x.msg \in MessagesIn(Pending')
    PROVE  /\ Behind' /\ Progress' /\ [Promise!Next]_(Promise!vars)
           /\ InLine(inflight', FirstSends) /\ InLine(ep'.store, FirstSends)
           /\ Before(ToSet(inflight') \intersect FirstSends,
                     (Stored' \ ToSet(inflight')) \intersect FirstSends)
<1>1. /\ attached /\ resuming = "none"
      /\ UNCHANGED <<net, attached, offline, b2c, issued, walked, handled, received, connects>>
      /\ inflight \in Seq(StoreEntries) /\ Distinct(inflight) /\ ToSet(inflight) \subseteq Stored
      /\ ep.store \in Seq(StoreEntries)
      /\ \A e, f \in Stored : e.pid = f.pid => e = f
  BY AnswerCases, EndpointFacts DEF BInv, TypeOK, Held
<1>2. /\ ToSet(c2b') \subseteq ToSet(c2b)
      /\ h \in Pending /\ Pending = Stored /\ Reached(h.msg)
      /\ \A p \in handled : \E f \in Pending \ {h} : f.pid = p /\ Qos[f.msg] = 2
  BY AnsweredReached
<1>3. ToSet(inflight') = {e \in ToSet(inflight) : e.pid # h.pid}
  BY <1>1, WithoutOne
<1>4. Pending' = Pending \ {h}
  BY <1>1, <1>2, <1>3 DEF Pending
<1>5. Behind'
  <2>1. Out' \subseteq Out
    BY <1>1, <1>4 DEF Out, MessagesIn
  <2> QED BY <1>1, <2>1 DEF DInv, Behind
<1>6. Progress'
  BY <1>1, <1>2, <1>4 DEF DInv, Progress, Reached
<1>7. [Promise!Next]_(Promise!vars)
  <2>1. PICK m \in Messages : m = h.msg /\ m \in MessagesIn(Pending) /\ m \in Out
    BY <1>2, PendingFacts DEF StoreEntries, MessagesIn, Out
  <2>2. m <= issued /\ (m \in Refused \union Expirable \/ m \in ToSet(received))
    BY <1>2, <2>1 DEF DInv, Behind, Reached
  <2>3. /\ MessagesIn(Pending') \subseteq MessagesIn(Pending)
        /\ MessagesIn(Pending) \ {m} \subseteq MessagesIn(Pending')
    BY <1>4, <2>1 DEF MessagesIn
  <2>4. m \in Owed /\ Owed' \subseteq Owed /\ Owed \ {m} \subseteq Owed'
    BY <1>1, <2>1, <2>3, OwedIs
  <2> QED BY <1>1, <2>2, <2>4, SettleIs
<1>8. InLine(inflight', FirstSends) /\ InLine(ep'.store, FirstSends)
  BY <1>1, WithoutInLine DEF DInv, Lined
<1>9. Before(ToSet(inflight') \intersect FirstSends,
             (Stored' \ ToSet(inflight')) \intersect FirstSends)
  <2>1. /\ ToSet(inflight') \subseteq ToSet(inflight)
        /\ Stored' \ ToSet(inflight') \subseteq Stored \ ToSet(inflight)
    BY <1>1, <1>3
  <2>2. Before(ToSet(inflight) \intersect FirstSends,
               (Stored \ ToSet(inflight)) \intersect FirstSends)
    BY <1>1 DEF DInv, Lined
  <2> QED BY <2>1, <2>2 DEF Before
<1> QED BY <1>5, <1>6, <1>7, <1>8, <1>9

(* The queue's head takes the slot that came free. *)
LEMMA QueueReleased ==
    ASSUME BInv, DInv, attached, resuming # "inflight",
           \/ ep'.queue = ep.queue /\ ep'.posted = ep.posted
           \/ /\ ep.queue # <<>> /\ ep'.queue = Tail(ep.queue)
              /\ ep'.posted = IF net = "down" THEN ep.posted
                              ELSE Append(ep.posted, PublishPacket(Head(ep.queue).pid,
                                                                   Head(ep.queue).msg)),
           NEW h \in Stored, Stored' = Stored \ {h}, h \notin ToSet(ep.queue),
           UNCHANGED <<net, b2c, received>>, net = "up"
    PROVE  /\ LinedUp(b2c', ep'.posted, ep'.queue) /\ UnderWay' /\ ZeroOnce'
           /\ Packets \subseteq Packets'
           /\ \A x \in Packets' : x \in Packets \/ \E f \in Stored' : x.msg = f.msg
<1>1. /\ ep.posted \in Seq(PacketsToReceiver) /\ b2c \in Seq(PacketsToReceiver)
      /\ LinedUp(b2c, ep.posted, ep.queue) /\ Once(ep.posted)
      /\ ep.queue \in Seq(StoreEntries) /\ ToSet(ep.queue) \subseteq Stored
      /\ \A f \in ToSet(ep.queue) : IsPublish(f)
  BY PacketFacts, EndpointFacts DEF DInv, Lined, ZeroOnce
<1>2. CASE ep'.queue = ep.queue /\ ep'.posted = ep.posted
  <2>1. Packets' = Packets
    BY <1>2 DEF Packets
  <2>2. LinedUp(b2c', ep'.posted, ep'.queue)
    BY <1>1, <1>2
  <2>3. UnderWay'
    BY <1>2, <2>1 DEF DInv, UnderWay, Reached
  <2>4. ZeroOnce'
    BY <1>2, <2>1 DEF DInv, ZeroOnce
  <2> QED BY <2>1, <2>2, <2>3, <2>4
<1>3. CASE /\ ep.queue # <<>> /\ ep'.queue = Tail(ep.queue)
           /\ ep'.posted = Append(ep.posted, PublishPacket(Head(ep.queue).pid, Head(ep.queue).msg))
  <2>1. PICK k \in StoreEntries : k = Head(ep.queue)
    BY <1>1, <1>3, HeadTailProperties
  <2>2. /\ ToSet(ep.queue) = ToSet(ep'.queue) \union {k}
        /\ k \in Stored /\ IsPublish(k) /\ k # h
    BY <1>1, <1>3, <2>1, TailMembers
  <2>3. PICK y \in PacketsToReceiver : /\ y = PublishPacket(k.pid, k.msg)
                                       /\ y.msg = k.msg /\ y \notin ZeroPublishes
    <3>1. /\ PublishPacket(k.pid, k.msg) \in PacketsToReceiver
          /\ PublishPacket(k.pid, k.msg).msg = k.msg /\ Qos[k.msg] # 0
      BY <2>2, EntryIs
    <3>2. PublishPacket(k.pid, k.msg) \notin ZeroPublishes
      BY <3>1 DEF ZeroPublishes
    <3> QED BY <3>1, <3>2
  <2>4. ep'.posted = Append(ep.posted, y)
    BY <1>3, <2>1, <2>3
  <2>5. LinedUp(b2c', ep'.posted, ep'.queue)
    <3>1. LinedUp(b2c, Append(ep.posted, y), Tail(ep.queue))
      BY <1>1, <1>3, <2>1, <2>3, LinedReleased
    <3> QED BY <1>3, <2>4, <3>1
  <2>6. Once(ep'.posted) /\ ToSet(ep'.posted) = ToSet(ep.posted) \union {y}
    BY <1>1, <2>3, <2>4, OnceAppend
  <2>7. Packets' = Packets \union {y}
    BY <2>6 DEF Packets
  <2>8. UnderWay'
    <3> SUFFICES ASSUME NEW f \in Stored', IsPublish(f)
                 PROVE  \/ f \in ToSet(ep'.queue)
                        \/ PublishPacket(f.pid, f.msg) \in Packets'
                        \/ Reached(f.msg)'
      BY DEF UnderWay
    <3>1. \/ f \in ToSet(ep.queue) \/ PublishPacket(f.pid, f.msg) \in Packets
          \/ Reached(f.msg)
      BY DEF DInv, UnderWay
    <3> QED BY <2>2, <2>3, <2>7, <3>1 DEF Reached
  <2>9. ZeroOnce'
    BY <2>3, <2>6, <2>7 DEF DInv, ZeroOnce
  <2> QED BY <2>2, <2>3, <2>5, <2>7, <2>8, <2>9
<1> QED BY <1>2, <1>3

(* pubrec: the entry waits for pubcomp now. *)
LEMMA PubrelKeeps ==
    ASSUME BInv, DInv, BrokerReads, resuming' # "inflight", NEW h \in Stored,
           h.pid = Head(c2b).pid, h.awaits = Head(c2b).type,
           IsPublish(h), h.awaits = "pubrec",
           inflight' = Without(inflight, h.pid),
           NEW e \in StoreEntries, e = Entry(h.pid, "pubcomp", h.msg),
           ep'.store = Append(Without(ep.store, h.pid), e),
           Stored' = (Stored \ {h}) \union {e},
           ep'.queue = ep.queue,
           ep'.posted = IF net = "down" THEN ep.posted ELSE Append(ep.posted, PubrelPacket(h.pid))
    PROVE  DInv' /\ UNCHANGED Promise!vars
<1>1. /\ attached /\ resuming = "none" /\ net = "up"
      /\ UNCHANGED <<net, attached, offline, b2c, issued, walked, handled, received, connects>>
      /\ inflight \in Seq(StoreEntries) /\ Distinct(inflight) /\ ToSet(inflight) \subseteq Stored
      /\ ep.store \in Seq(StoreEntries) /\ Distinct(ep.store)
      /\ \A f, g \in Stored : f.pid = g.pid => f = g
      /\ ToSet(ep.queue) \subseteq Stored
  BY AnswerCases, EndpointFacts DEF BInv, TypeOK, Held
<1>2. /\ ToSet(c2b') \subseteq ToSet(c2b)
      /\ h \in Pending /\ Pending = Stored /\ Reached(h.msg)
  BY AnsweredReached
<1>3. ToSet(inflight') = {f \in ToSet(inflight) : f.pid # h.pid}
  BY <1>1, WithoutOne
<1>4. /\ e.pid = h.pid /\ e.msg = h.msg /\ e.awaits = "pubcomp"
      /\ e \notin FirstSends /\ ~IsPublish(e)
  BY DEF Entry, FirstSends, IsPublish
<1>5. Pending' = (Pending \ {h}) \union {e}
  BY <1>1, <1>2, <1>3 DEF Pending
<1>6. MessagesIn(Pending') = MessagesIn(Pending)
  BY <1>2, <1>4, <1>5 DEF MessagesIn
<1>7. /\ LinedUp(b2c', ep'.posted, ep'.queue) /\ ZeroOnce'
      /\ Packets \subseteq Packets'
      /\ \A x \in Packets' : x \in PublishPackets => x \in Packets
  <2>1. h.pid \in Pids
    BY EndpointFacts DEF StoreEntries
  <2> QED BY <1>1, <2>1, PubrelPosted
<1>8. Behind'
  <2>1. Out' \subseteq Out
    BY <1>1, <1>6, <1>7 DEF Out, MessagesIn
  <2> QED BY <1>1, <2>1 DEF DInv, Behind
<1>9. Progress'
  <2>1. \A f \in Pending' : f.awaits = "pubcomp" => Reached(f.msg)'
    BY <1>1, <1>2, <1>4, <1>5 DEF DInv, Progress, Reached
  <2>2. \A x \in ToSet(c2b'), f \in Pending' :
            x.type \in {"puback", "pubrec"} /\ f.pid = x.pid => Reached(f.msg)'
    BY <1>1, <1>2, <1>4, <1>5 DEF DInv, Progress, Reached
  <2>3. \A p \in handled' : \E f \in Pending' : f.pid = p /\ Qos[f.msg] = 2
    BY <1>1, <1>4, <1>5 DEF DInv, Progress
  <2>4. \A x \in ToSet(c2b') :
          \/ x.type = "pubcomp"
          \/ V5 /\ x.type = "pubrec" /\ IsError(x.reason)
          => x.pid \notin handled'
    BY <1>1, <1>2 DEF DInv, Progress
  <2>5. \A f \in Pending' : f.awaits = "pubrec" =>
            (f.pid \in handled' <=> f.msg \in ToSet(received'))
    BY <1>1, <1>4, <1>5 DEF DInv, Progress
  <2> QED BY <2>1, <2>2, <2>3, <2>4, <2>5 DEF Progress
<1>10. Lined'
  <2>1. InLine(inflight', FirstSends) /\ InLine(Without(ep.store, h.pid), FirstSends)
    BY <1>1, WithoutInLine DEF DInv, Lined
  <2>2. InLine(ep'.store, FirstSends)
    <3>1. e \notin Lasting(FirstSends) /\ Without(ep.store, h.pid) \in Seq(StoreEntries)
      BY <1>1, <1>4, WithoutOne DEF Lasting
    <3> QED BY <2>1, <3>1, OrderedAppend DEF InLine
  <2>3. /\ ToSet(inflight') \subseteq ToSet(inflight)
        /\ (Stored' \ ToSet(inflight')) \intersect FirstSends
               \subseteq (Stored \ ToSet(inflight)) \intersect FirstSends
    BY <1>1, <1>3, <1>4
  <2>4. Before(ToSet(inflight') \intersect FirstSends,
               (Stored' \ ToSet(inflight')) \intersect FirstSends)
    BY <1>1, <2>3 DEF DInv, Lined, Before
  <2> QED BY <1>7, <2>1, <2>2, <2>4 DEF Lined
<1>11. UnderWay'
  BY <1>1, <1>4, <1>7 DEF DInv, UnderWay, Reached
<1>12. UNCHANGED Promise!vars
  <2>1. Owed' = Owed
    BY <1>1, <1>6, OwedIs
  <2> QED BY <1>1, <2>1 DEF Promise!vars
<1> QED BY <1>7, <1>8, <1>9, <1>10, <1>11, <1>12 DEF DInv

LEMMA BrokerReadsKeeps ==
    ASSUME BInv, DInv, BrokerReads
    PROVE  DInv' /\ [Promise!Next]_(Promise!vars)
<1>1. /\ net = "up" /\ attached /\ resuming = "none" /\ resuming' # "inflight"
      /\ c2b # <<>> /\ c2b' = Tail(c2b)
      /\ UNCHANGED <<net, attached, offline, b2c, issued, walked, handled, received, connects>>
  BY AnswerCases
<1>2. PICK h \in Stored :
         /\ h.pid = Head(c2b).pid /\ h.awaits = Head(c2b).type
         /\ inflight' = Without(inflight, h.pid)
         /\ \/ /\ ep' = SlotReleased(Acknowledged(ep, h.pid))
               /\ h \in Holders(Stored, Queued, ep.resend)
               /\ h.awaits = "pubrec" => V5 /\ IsError(Head(c2b).reason)
            \/ /\ ep' = Acknowledged(ep, h.pid)
               /\ ~IsPublish(h) /\ h.pid \in ep.resend
            \/ /\ IsPublish(h) /\ h.awaits = "pubrec"
               /\ ep' = Posted([ep EXCEPT !.store = Append(Without(@, h.pid),
                                                           Entry(h.pid, "pubcomp", h.msg))],
                               PubrelPacket(h.pid))
  BY AnswerCases
<1>3. h \notin ToSet(ep.queue)
  BY <1>1, <1>2, AnswerRead, EndpointFacts
<1>4. ASSUME h.awaits = "pubrec" => V5 /\ IsError(Head(c2b).reason),
             ep'.store = Without(ep.store, h.pid), Stored' = Stored \ {h},
             \/ ep'.queue = ep.queue /\ ep'.posted = ep.posted
             \/ /\ ep.queue # <<>> /\ ep'.queue = Tail(ep.queue)
                /\ ep'.posted = IF net = "down" THEN ep.posted
                                ELSE Append(ep.posted, PublishPacket(Head(ep.queue).pid,
                                                                     Head(ep.queue).msg))
      PROVE  DInv' /\ [Promise!Next]_(Promise!vars)
  <2>1. /\ LinedUp(b2c', ep'.posted, ep'.queue) /\ UnderWay' /\ ZeroOnce'
        /\ Packets \subseteq Packets'
        /\ \A x \in Packets' : x \in Packets \/ \E f \in Stored' : x.msg = f.msg
    BY <1>1, <1>3, <1>4, QueueReleased
  <2>2. \A x \in Packets' : x \in Packets \/ x.msg \in MessagesIn(Pending')
    BY <2>1 DEF Pending, MessagesIn
  <2>3. /\ Behind' /\ Progress' /\ [Promise!Next]_(Promise!vars)
        /\ InLine(inflight', FirstSends) /\ InLine(ep'.store, FirstSends)
        /\ Before(ToSet(inflight') \intersect FirstSends,
                  (Stored' \ ToSet(inflight')) \intersect FirstSends)
    BY <1>2, <1>4, <2>1, <2>2, SettledKeeps
  <2>4. Lined'
    BY <2>1, <2>3 DEF Lined
  <2> QED BY <2>1, <2>3, <2>4 DEF DInv
<1>5. CASE /\ ep' = SlotReleased(Acknowledged(ep, h.pid))
           /\ h \in Holders(Stored, Queued, ep.resend)
           /\ h.awaits = "pubrec" => V5 /\ IsError(Head(c2b).reason)
  <2>1. /\ ep'.store = Without(ep.store, h.pid) /\ Stored' = Stored \ {h}
        /\ \/ ep'.queue = ep.queue /\ ep'.posted = ep.posted
           \/ /\ ep.queue # <<>> /\ ep'.queue = Tail(ep.queue)
              /\ ep'.posted = IF net = "down" THEN ep.posted
                              ELSE Append(ep.posted, PublishPacket(Head(ep.queue).pid,
                                                                   Head(ep.queue).msg))
    BY <1>1, <1>2, <1>5, ReleaseStep
  <2> QED BY <1>4, <1>5, <2>1
<1>6. CASE /\ ep' = Acknowledged(ep, h.pid)
           /\ ~IsPublish(h) /\ h.pid \in ep.resend
  <2>1. /\ ep'.store = Without(ep.store, h.pid) /\ Stored' = Stored \ {h}
        /\ ep'.queue = ep.queue /\ ep'.posted = ep.posted
    BY <1>1, <1>2, <1>6, ResentStep
  <2>2. h.awaits # "pubrec"
    BY <1>6 DEF IsPublish
  <2> QED BY <1>4, <2>1, <2>2
<1>7. CASE /\ IsPublish(h) /\ h.awaits = "pubrec"
           /\ ep' = Posted([ep EXCEPT !.store = Append(Without(@, h.pid),
                                                       Entry(h.pid, "pubcomp", h.msg))],
                           PubrelPacket(h.pid))
  <2> DEFINE e == Entry(h.pid, "pubcomp", h.msg)
  <2>1. ep' = Posted([ep EXCEPT !.store = Append(Without(@, h.pid), e)], PubrelPacket(h.pid))
    BY <1>7
  <2>2. /\ e \in StoreEntries
        /\ ep'.store = Append(Without(ep.store, h.pid), e)
        /\ Stored' = (Stored \ {h}) \union {e}
        /\ ep'.queue = ep.queue
        /\ ep'.posted = IF net = "down" THEN ep.posted ELSE Append(ep.posted, PubrelPacket(h.pid))
    BY <1>1, <1>2, <1>7, <2>1, PubrelSentStep
  <2>3. DInv' /\ UNCHANGED Promise!vars
    BY <1>1, <1>2, <1>7, <2>2, PubrelKeeps
  <2> QED BY <2>3
<1> QED BY <1>2, <1>5, <1>6, <1>7

-----------------------------------------------------------------------------
(* The subscriber reads a packet *)

(* The head of the connection comes before everything else under way. *)
LEMMA HeadRead ==
    ASSUME BInv, DInv, b2c # <<>>, b2c' = Tail(b2c),
           UNCHANGED <<issued, net, resuming, attached, ep, inflight, offline>>,
           NEW x, x = Head(b2c)
    PROVE  /\ net = "up" /\ Pending = Stored /\ Stored' = Stored /\ Pending' = Pending
           /\ x \in PacketsToReceiver /\ Packets = Packets' \union {x}
           /\ Lined'
           /\ Once(ep'.posted) /\ Once(b2c')
           /\ ToSet(ep'.posted) \intersect ToSet(b2c') \intersect ZeroPublishes = {}
           /\ x \in ZeroPublishes => x \notin Packets'
           /\ x \in SentPublishes =>
                 /\ \A y \in Packets' \intersect SentPublishes :
                        y.msg \notin Expirable => x.msg < y.msg
                 /\ \A f \in ToSet(ep.queue) : f.msg \notin Expirable => x.msg < f.msg
<1>1. /\ net = "up" /\ resuming # "inflight" /\ attached
  BY DEF BInv, Connection
<1>2. Pending = Stored /\ Stored' = Stored /\ Pending' = Pending
  BY <1>1, PendingFacts DEF Stored, Pending
<1>3. /\ ep.posted \in Seq(PacketsToReceiver) /\ b2c \in Seq(PacketsToReceiver)
      /\ LinedUp(b2c, ep.posted, ep.queue) /\ Once(b2c) /\ Once(ep.posted)
      /\ ToSet(ep.posted) \intersect ToSet(b2c) \intersect ZeroPublishes = {}
  BY PacketFacts DEF DInv, Lined, ZeroOnce
<1>4. /\ Once(b2c') /\ ToSet(b2c) = ToSet(b2c') \union {x} /\ x \in PacketsToReceiver
      /\ x \in ZeroPublishes => x \notin ToSet(b2c')
  BY <1>3, OnceTail
<1>5. Packets = Packets' \union {x} /\ (x \in ZeroPublishes => x \notin Packets')
  BY <1>3, <1>4 DEF Packets
<1>6. LinedUp(b2c', ep.posted, ep.queue)
  BY <1>3, LinedRead
<1>7. Lined'
  BY <1>2, <1>6 DEF DInv, Lined
<1>8. ASSUME x \in SentPublishes
      PROVE  /\ \A y \in Packets' \intersect SentPublishes :
                    y.msg \notin Expirable => x.msg < y.msg
             /\ \A f \in ToSet(ep.queue) : f.msg \notin Expirable => x.msg < f.msg
  <2>1. \A y \in ToSet(b2c') : y \in Lasting(SentPublishes) => x.msg < y.msg
    BY <1>3, <1>8, OrderedTail DEF LinedUp, InLine
  <2>2. \A y \in ToSet(ep.posted) \intersect SentPublishes :
            y.msg \notin Expirable => x.msg < y.msg
    BY <1>3, <1>4, <1>8 DEF LinedUp, Before
  <2>3. \A f \in ToSet(ep.queue) : f.msg \notin Expirable => x.msg < f.msg
    BY <1>3, <1>4, <1>8 DEF LinedUp, Before
  <2> QED BY <2>1, <2>2, <2>3 DEF Packets, Lasting
<1> QED BY <1>1, <1>2, <1>3, <1>4, <1>5, <1>7, <1>8

(* What was read has reached the subscriber. *)
LEMMA ReadReached ==
    ASSUME BInv, DInv, b2c # <<>>, b2c' = Tail(b2c),
           UNCHANGED <<issued, net, resuming, attached, ep, inflight, offline>>,
           NEW x, x = Head(b2c), ToSet(received) \subseteq ToSet(received'),
           \A m \in ToSet(received') : m \in ToSet(received) \/ (x \in PublishPackets /\ m = x.msg),
           x \in SentPublishes => x.msg \in ToSet(received') \union Refused
    PROVE  Behind' /\ UnderWay' /\ ZeroOnce'
<1>1. /\ Stored' = Stored /\ Pending' = Pending /\ Packets = Packets' \union {x}
      /\ Once(ep'.posted) /\ Once(b2c')
      /\ ToSet(ep'.posted) \intersect ToSet(b2c') \intersect ZeroPublishes = {}
      /\ x \in ZeroPublishes => x \notin Packets'
  BY HeadRead
<1>2. Behind'
  <2>1. Out' \subseteq Out
    BY <1>1 DEF Out, MessagesIn
  <2> QED BY <2>1 DEF DInv, Behind
<1>3. UnderWay'
  <2> SUFFICES ASSUME net = "up", NEW f \in Stored, IsPublish(f)
               PROVE  \/ f \in ToSet(ep.queue) \/ PublishPacket(f.pid, f.msg) \in Packets'
                      \/ Reached(f.msg)'
    BY <1>1 DEF UnderWay
  <2>1. \/ f \in ToSet(ep.queue) \/ PublishPacket(f.pid, f.msg) \in Packets \/ Reached(f.msg)
    BY DEF DInv, UnderWay
  <2>2. CASE PublishPacket(f.pid, f.msg) = x
    <3>1. x \in PacketsToReceiver /\ x.type = "publish" /\ x.msg = f.msg /\ Qos[f.msg] # 0
      BY <2>2, EntryIs, EndpointFacts
    <3>2. x \in SentPublishes
      BY <3>1 DEF SentPublishes, PacketsToReceiver
    <3> QED BY <3>1, <3>2 DEF Reached
  <2> QED BY <1>1, <2>1, <2>2 DEF Reached
<1>4. ZeroOnce'
  <2> SUFFICES ASSUME NEW y \in Packets', y \in ZeroPublishes, y.msg \in ToSet(received')
               PROVE  FALSE
    BY <1>1 DEF ZeroOnce
  <2>1. y.msg \notin ToSet(received)
    BY <1>1 DEF DInv, ZeroOnce
  <2>2. x \in PublishPackets /\ y.msg = x.msg
    BY <2>1
  <2>3. x = y
    BY <2>2 DEF ZeroPublishes, PublishPackets
  <2> QED BY <1>1, <2>3
<1> QED BY <1>2, <1>3, <1>4

(* Nothing that is owed comes before it, but what has arrived. *)
LEMMA HeadIsNext ==
    ASSUME BInv, DInv, b2c # <<>>, b2c' = Tail(b2c),
           UNCHANGED <<issued, net, resuming, attached, ep, inflight, offline>>,
           NEW x, x = Head(b2c), x \in SentPublishes
    PROVE  /\ x.msg \in Owed /\ x.msg \in Messages /\ x.msg <= issued
           /\ \A n \in Owed : n < x.msg => n \in ToSet(received) \union Refused \union Expirable
<1>1. /\ net = "up" /\ Pending = Stored /\ Packets = Packets' \union {x}
      /\ \A y \in Packets' \intersect SentPublishes : y.msg \notin Expirable => x.msg < y.msg
      /\ \A f \in ToSet(ep.queue) : f.msg \notin Expirable => x.msg < f.msg
  BY HeadRead
<1>2. PICK e \in Stored : e.msg = x.msg
  BY <1>1, PacketFacts
<1>3. PICK m \in Messages : m = x.msg /\ m \in MessagesIn(Pending) /\ m \in Out
  BY <1>1, <1>2, EndpointFacts DEF MessagesIn, Out, StoreEntries
<1>4. m \in Owed /\ m <= issued
  BY <1>3, OwedIs DEF DInv, Behind
<1>5. ASSUME NEW n \in Messages, n < m, n \in Owed,
             n \notin ToSet(received) \union Refused \union Expirable
      PROVE  FALSE
  <2>1. m \in Nat /\ n \in Nat /\ ~(m < n) /\ n # m
    BY <1>5 DEF Messages
  <2>2. n \notin ToSet(offline)
    BY <1>3, <2>1 DEF DInv, Behind
  <2>3. PICK f \in Stored : f.msg = n
    BY <1>1, <1>5, <2>2, OwedIs DEF MessagesIn
  <2>4. ~Reached(n)
    BY <1>5 DEF Reached
  <2>5. IsPublish(f)
    BY <1>1, <2>3, <2>4 DEF DInv, Progress, IsPublish
  <2>6. f \notin ToSet(ep.queue)
    BY <1>1, <1>3, <1>5, <2>1, <2>3
  <2>7. PICK y \in Packets : y = PublishPacket(f.pid, f.msg)
    BY <1>1, <2>3, <2>4, <2>5, <2>6 DEF DInv, UnderWay
  <2>8. y \in PacketsToReceiver /\ y.type = "publish" /\ y.msg = n /\ Qos[n] # 0
    BY <2>3, <2>5, <2>7, EntryIs, EndpointFacts
  <2>9. y \in SentPublishes
    BY <2>8 DEF SentPublishes, PacketsToReceiver
  <2> QED BY <1>1, <1>3, <1>5, <2>1, <2>8, <2>9
<1>6. \A n \in Owed : n \in Messages
  BY OwedIs, OwedFacts
<1> QED BY <1>3, <1>4, <1>5, <1>6

LEMMA ReceiveIs ==
    ASSUME BInv, NEW m \in Messages, m <= issued, m \notin Refused,
           Qos[m] # 0 =>
               /\ m \in Owed
               /\ \A n \in Owed : n < m => n \in ToSet(received) \union Refused \union Expirable,
           Qos[m] # 1 => m \notin ToSet(received),
           received' = Append(received, m), issued' = issued, Owed' = Owed
    PROVE  Promise!Next
<1>1. \A n : Promise!WasReceived(n) <=> n \in ToSet(received)
  BY DEF Promise!WasReceived, ToSet
<1>2. Qos[m] # 0 => Promise!IsNext(m)
  BY <1>1 DEF Promise!IsNext
<1>3. Promise!Receive(m)
  BY <1>1, <1>2 DEF Promise!Receive
<1>4. m \in 1..issued
  BY DEF Messages, BInv, TypeOK
<1> QED BY <1>3, <1>4 DEF Promise!Next

LEMMA ReceivedOne ==
    ASSUME BInv, NEW m \in Messages, received' = Append(received, m)
    PROVE  ToSet(received') = ToSet(received) \union {m}
BY AppendMembers DEF BInv, TypeOK

LEMMA ZeroReceived ==
    ASSUME BInv, DInv, b2c # <<>>, b2c' = Tail(b2c),
           UNCHANGED <<issued, net, resuming, attached, ep, inflight, offline>>,
           NEW x, x = Head(b2c), x.type = "publish", Qos[x.msg] = 0, ReceiveQos0(x.msg)
    PROVE  DInv' /\ Promise!Next
<1>1. /\ Pending = Stored /\ Stored' = Stored /\ Pending' = Pending
      /\ x \in PacketsToReceiver /\ Packets = Packets' \union {x} /\ Lined'
  BY HeadRead
<1>2. /\ x \in ZeroPublishes /\ x \in PublishPackets /\ x.msg \in Messages
      /\ x \notin SentPublishes
  BY <1>1 DEF ZeroPublishes, SentPublishes, PacketsToReceiver, PublishPackets
<1>3. /\ received' = Append(received, x.msg) /\ c2b' = c2b /\ handled' = handled
      /\ ToSet(received') = ToSet(received) \union {x.msg}
  BY <1>2, ReceivedOne DEF ReceiveQos0
<1>4. Behind' /\ UnderWay' /\ ZeroOnce'
  BY <1>2, <1>3, ReadReached
<1>5. Progress'
  <2>1. \A f \in Pending : f.msg # x.msg
    BY <1>1, EndpointFacts DEF StoreEntries
  <2> QED BY <1>1, <1>3, <2>1 DEF DInv, Progress, Reached
<1>6. x.msg <= issued /\ x.msg \notin ToSet(received)
  BY <1>1, <1>2 DEF DInv, Behind, ZeroOnce, Out, MessagesIn
<1>7. x.msg \notin Refused
  BY DeliveryAssumption
<1>8. Owed' = Owed
  BY <1>1, OwedIs
<1>9. Promise!Next
  BY <1>2, <1>3, <1>6, <1>7, <1>8, ReceiveIs
<1> QED BY <1>1, <1>4, <1>5, <1>9 DEF DInv

(* The entry that asks for what was read. *)
LEMMA AskedEntry ==
    ASSUME BInv, DInv, b2c # <<>>, b2c' = Tail(b2c),
           UNCHANGED <<issued, net, resuming, attached, ep, inflight, offline>>,
           NEW x, x = Head(b2c), x.type = "publish", Qos[x.msg] # 0
    PROVE  /\ x \in SentPublishes /\ x \in PublishPackets /\ x.msg \in Messages /\ x.pid \in Pids
           /\ \E e \in Stored : /\ e.pid = x.pid /\ e.msg = x.msg
                                /\ e.awaits = FirstAnswer(x.msg) /\ IsPublish(e)
           /\ \A y \in ToSet(c2b) : y.pid # x.pid
<1>1. x \in PacketsToReceiver /\ Packets = Packets' \union {x}
  BY HeadRead
<1>2. /\ x \in SentPublishes /\ x \in PublishPackets /\ x.msg \in Messages /\ x.pid \in Pids
  BY <1>1 DEF SentPublishes, PacketsToReceiver, PublishPackets
<1>3. Entry(x.pid, FirstAnswer(x.msg), x.msg) \in Stored
  BY <1>1 DEF BInv, Traffic, Asked, Packets
<1>4. PICK e \in Stored : e = Entry(x.pid, FirstAnswer(x.msg), x.msg)
  BY <1>3
<1>5. e.pid = x.pid /\ e.msg = x.msg /\ e.awaits = FirstAnswer(x.msg) /\ IsPublish(e)
  BY <1>4 DEF Entry, FirstAnswer, IsPublish
<1>6. \A y \in ToSet(c2b) : y.pid # x.pid
  <2>1. Numbered(x) /\ x \in ToSet(b2c) /\ b2c \in Seq(PacketsToReceiver)
    <3>1. x.pid # NoPid
      BY <1>2, PidsAreNotNoPid
    <3> QED BY <3>1, TailMembers DEF BInv, TypeOK, Numbered
  <2>2. x.pid \in Carried(b2c)
    BY <2>1, TailMembers
  <2>3. \A y \in ToSet(c2b) : Numbered(y)
    BY AnswersNumbered DEF BInv, Traffic, TypeOK
  <2>4. \A y \in ToSet(c2b) : y.pid \in Carried(c2b)
    BY <2>3 DEF Carried, ToSet
  <2> QED BY <2>2, <2>4 DEF BInv, Traffic
<1> QED BY <1>2, <1>5, <1>6

LEMMA OneReceived ==
    ASSUME BInv, DInv, b2c # <<>>, b2c' = Tail(b2c),
           UNCHANGED <<issued, net, resuming, attached, ep, inflight, offline>>,
           NEW x, x = Head(b2c), x.type = "publish", Qos[x.msg] = 1, ReceiveQos1(x.pid, x.msg)
    PROVE  DInv' /\ Promise!Next
<1>1. Pending = Stored /\ Pending' = Pending /\ Lined'
  BY HeadRead
<1>2. /\ x \in SentPublishes /\ x \in PublishPackets /\ x.msg \in Messages /\ x.pid \in Pids
  BY AskedEntry
<1>3. PICK e \in Stored : /\ e.pid = x.pid /\ e.msg = x.msg
                          /\ e.awaits = FirstAnswer(x.msg) /\ IsPublish(e)
  BY AskedEntry
<1>4. /\ received' = Append(received, x.msg) /\ handled' = handled
      /\ ToSet(received') = ToSet(received) \union {x.msg}
  BY <1>2, ReceivedOne DEF ReceiveQos1
<1>5. PICK a \in PacketsToSender : /\ c2b' = Append(c2b, a) /\ a.type = "puback" /\ a.pid = x.pid
                                   /\ ToSet(c2b') = ToSet(c2b) \union {a}
  <2>1. PICK a \in PacketsToSender : /\ c2b' = Append(c2b, a)
                                     /\ a.type = "puback" /\ a.pid = x.pid
    BY <1>2, PacketsAnswered DEF ReceiveQos1, Answered, PubackPacket, Reasons
  <2>2. ToSet(c2b') = ToSet(c2b) \union {a}
    BY <2>1, AppendMembers DEF BInv, TypeOK
  <2> QED BY <2>1, <2>2
<1>6. Behind' /\ UnderWay' /\ ZeroOnce'
  BY <1>2, <1>4, ReadReached
<1>7. /\ \A f \in Pending : f.pid = x.pid => f.msg = x.msg
      /\ \A f \in Pending : f.awaits = "pubrec" => f.msg # x.msg
  BY <1>1, <1>3, EndpointFacts DEF StoreEntries
<1>8. Progress'
  BY <1>1, <1>4, <1>5, <1>7 DEF DInv, Progress, Reached
<1>9. /\ x.msg \in Owed /\ x.msg <= issued
      /\ \A n \in Owed : n < x.msg => n \in ToSet(received) \union Refused \union Expirable
  BY <1>2, HeadIsNext
<1>10. x.msg \notin Refused
  BY DeliveryAssumption
<1>11. Owed' = Owed
  BY <1>1, OwedIs
<1>12. Promise!Next
  BY <1>2, <1>4, <1>9, <1>10, <1>11, ReceiveIs
<1> QED BY <1>1, <1>6, <1>8, <1>12 DEF DInv

(* A QoS 2 publish: refused, a second time, or received. *)
LEMMA TwoReceived ==
    ASSUME BInv, DInv, \A m \in Expirable : Qos[m] # 2, b2c # <<>>, b2c' = Tail(b2c),
           UNCHANGED <<issued, net, resuming, attached, ep, inflight, offline>>,
           NEW x, x = Head(b2c), x.type = "publish", Qos[x.msg] = 2, ReceiveQos2(x.pid, x.msg)
    PROVE  DInv' /\ [Promise!Next]_(Promise!vars)
<1>1. Pending = Stored /\ Pending' = Pending /\ Lined' /\ x \in PacketsToReceiver
  BY HeadRead
<1>2. /\ x \in SentPublishes /\ x \in PublishPackets /\ x.msg \in Messages /\ x.pid \in Pids
      /\ \A y \in ToSet(c2b) : y.pid # x.pid
  BY AskedEntry
<1>3. PICK e \in Stored : e.pid = x.pid /\ e.msg = x.msg /\ e.awaits = "pubrec" /\ IsPublish(e)
  BY AskedEntry DEF FirstAnswer
<1>4. \A f \in Pending : f.pid = x.pid => f = e
  BY <1>1, <1>3, EndpointFacts
<1>5. Owed' = Owed
  BY <1>1, OwedIs
<1>6. x.pid \in handled <=> x.msg \in ToSet(received)
  BY <1>1, <1>3 DEF DInv, Progress
<1>7. \A r \in Reasons : /\ PubrecPacket(x.pid, r) \in PacketsToSender
                         /\ PubrecPacket(x.pid, r).type = "pubrec"
                         /\ PubrecPacket(x.pid, r).pid = x.pid
                         /\ PubrecPacket(x.pid, r).reason = r
                         /\ ToSet(Append(c2b, PubrecPacket(x.pid, r))) =
                                ToSet(c2b) \union {PubrecPacket(x.pid, r)}
  <2> TAKE r \in Reasons
  <2>1. PubrecPacket(x.pid, r) \in PacketsToSender
    BY <1>2, PacketsAnswered
  <2>2. ToSet(Append(c2b, PubrecPacket(x.pid, r))) = ToSet(c2b) \union {PubrecPacket(x.pid, r)}
    BY <2>1, AppendMembers DEF BInv, TypeOK
  <2> QED BY <2>1, <2>2 DEF PubrecPacket
<1>8. CASE x.pid \notin handled /\ x.msg \in Refused
  <2>1. /\ c2b' = Append(c2b, PubrecPacket(x.pid, "not_authorized"))
        /\ handled' = handled /\ received' = received
    BY <1>8 DEF ReceiveQos2, Answered
  <2>2. PICK a \in PacketsToSender : /\ a.type = "pubrec" /\ a.pid = x.pid
                                     /\ ToSet(c2b') = ToSet(c2b) \union {a}
    BY <1>7, <2>1 DEF Reasons
  <2>3. Behind' /\ UnderWay' /\ ZeroOnce'
    BY <1>8, <2>1, ReadReached
  <2>4. Progress'
    BY <1>1, <1>3, <1>4, <1>8, <2>1, <2>2 DEF DInv, Progress, Reached
  <2> QED BY <1>1, <1>5, <2>1, <2>3, <2>4 DEF DInv, Promise!vars
<1>9. CASE x.pid \in handled
  <2>1. /\ c2b' = Append(c2b, PubrecPacket(x.pid, "success"))
        /\ handled' = handled /\ received' = received
    BY <1>9 DEF ReceiveQos2, Answered
  <2>2. PICK a \in PacketsToSender : /\ a.type = "pubrec" /\ a.pid = x.pid /\ ~IsError(a.reason)
                                     /\ ToSet(c2b') = ToSet(c2b) \union {a}
    BY <1>7, <2>1 DEF Reasons, IsError
  <2>3. Behind' /\ UnderWay' /\ ZeroOnce'
    BY <1>6, <1>9, <2>1, ReadReached
  <2>4. Progress'
    BY <1>1, <1>3, <1>4, <1>6, <1>9, <2>1, <2>2 DEF DInv, Progress, Reached
  <2> QED BY <1>1, <1>5, <2>1, <2>3, <2>4 DEF DInv, Promise!vars
<1>10. CASE x.pid \notin handled /\ x.msg \notin Refused
  <2>1. /\ c2b' = Append(c2b, PubrecPacket(x.pid, "success"))
        /\ handled' = handled \union {x.pid} /\ received' = Append(received, x.msg)
        /\ ToSet(received') = ToSet(received) \union {x.msg}
    BY <1>2, <1>10, ReceivedOne DEF ReceiveQos2, Answered
  <2>2. PICK a \in PacketsToSender : /\ a.type = "pubrec" /\ a.pid = x.pid /\ ~IsError(a.reason)
                                     /\ ToSet(c2b') = ToSet(c2b) \union {a}
    BY <1>7, <2>1 DEF Reasons, IsError
  <2>3. Behind' /\ UnderWay' /\ ZeroOnce'
    BY <1>2, <2>1, ReadReached
  <2>4. ASSUME NEW f \in Stored, f.awaits = "pubrec", f.msg = x.msg PROVE f = e
    <3>1. PICK i \in DOMAIN ep.store, j \in DOMAIN ep.store : ep.store[i] = e /\ ep.store[j] = f
      BY DEF Stored, ToSet
    <3>2. i \in Nat /\ j \in Nat
      BY <3>1, EndpointFacts, LenProperties
    <3>3. e \in Lasting(FirstSends) /\ f \in Lasting(FirstSends)
      BY <1>3, <2>4, EndpointFacts DEF Lasting, FirstSends, IsPublish
    <3>4. e.msg \in Nat /\ f.msg \in Nat /\ ~(e.msg < f.msg) /\ ~(f.msg < e.msg)
      BY <1>2, <1>3, <2>4 DEF Messages
    <3>5. ~(i < j) /\ ~(j < i)
      BY <3>1, <3>3, <3>4 DEF DInv, Lined, InLine, Ordered, Lasting
    <3>6. i = j
      BY <3>2, <3>5
    <3> QED BY <3>1, <3>6
  <2>5. Progress'
    <3>1. \A f \in Pending : f.awaits = "pubcomp" => Reached(f.msg)'
      BY <2>1 DEF DInv, Progress, Reached
    <3>2. \A y \in ToSet(c2b'), f \in Pending :
              y.type \in {"puback", "pubrec"} /\ f.pid = y.pid => Reached(f.msg)'
      BY <1>3, <1>4, <2>1, <2>2 DEF DInv, Progress, Reached
    <3>3. \A p \in handled' : \E f \in Pending : f.pid = p /\ Qos[f.msg] = 2
      BY <1>1, <1>3, <2>1 DEF DInv, Progress
    <3>4. \A y \in ToSet(c2b') :
            \/ y.type = "pubcomp"
            \/ V5 /\ y.type = "pubrec" /\ IsError(y.reason)
            => y.pid \notin handled'
      BY <1>2, <2>1, <2>2 DEF DInv, Progress
    <3>5. \A f \in Pending : f.awaits = "pubrec" =>
              (f.pid \in handled' <=> f.msg \in ToSet(received'))
      BY <1>1, <1>3, <1>4, <2>1, <2>4 DEF DInv, Progress
    <3> QED BY <1>1, <3>1, <3>2, <3>3, <3>4, <3>5 DEF Progress
  <2>6. /\ x.msg \in Owed /\ x.msg <= issued
        /\ \A n \in Owed : n < x.msg => n \in ToSet(received) \union Refused \union Expirable
    BY <1>2, HeadIsNext
  <2>7. Promise!Next
    BY <1>2, <1>5, <1>6, <1>10, <2>1, <2>6, ReceiveIs
  <2> QED BY <1>1, <2>3, <2>5, <2>7 DEF DInv
<1> QED BY <1>8, <1>9, <1>10

LEMMA PubrelReceived ==
    ASSUME BInv, DInv, b2c # <<>>, b2c' = Tail(b2c),
           UNCHANGED <<issued, net, resuming, attached, ep, inflight, offline>>,
           NEW x, x = Head(b2c), x.type = "pubrel", ReceivePubrel(x.pid)
    PROVE  DInv' /\ UNCHANGED Promise!vars
<1>1. /\ Pending = Stored /\ Pending' = Pending /\ Lined' /\ x \in PacketsToReceiver
      /\ Packets = Packets' \union {x}
  BY HeadRead
<1>2. x.pid \in Pids /\ x \notin PublishPackets /\ x \notin SentPublishes
  BY <1>1, PacketsToReceiverFields DEF PublishPackets, SentPublishes
<1>3. PICK e \in Stored : e.pid = x.pid /\ e.awaits = "pubcomp"
  BY <1>1 DEF BInv, Traffic, Asked, Packets
<1>4. \A f \in Pending : f.pid = x.pid => f = e
  BY <1>1, <1>3, EndpointFacts
<1>5. PICK a \in PacketsToSender : /\ c2b' = Append(c2b, a) /\ a.type = "pubcomp" /\ a.pid = x.pid
                                   /\ ToSet(c2b') = ToSet(c2b) \union {a}
  <2>1. PICK a \in PacketsToSender : /\ c2b' = Append(c2b, a)
                                     /\ a.type = "pubcomp" /\ a.pid = x.pid
    BY <1>2, PacketsAnswered DEF ReceivePubrel, Answered, PubcompPacket
  <2>2. ToSet(c2b') = ToSet(c2b) \union {a}
    BY <2>1, AppendMembers DEF BInv, TypeOK
  <2> QED BY <2>1, <2>2
<1>6. handled' = handled \ {x.pid} /\ received' = received
  BY DEF ReceivePubrel
<1>7. Behind' /\ UnderWay' /\ ZeroOnce'
  BY <1>2, <1>6, ReadReached
<1>8. Progress'
  BY <1>1, <1>3, <1>4, <1>5, <1>6 DEF DInv, Progress, Reached
<1>9. Owed' = Owed
  BY <1>1, OwedIs
<1> QED BY <1>1, <1>6, <1>7, <1>8, <1>9 DEF DInv, Promise!vars

LEMMA SubscriberReadsKeeps ==
    ASSUME BInv, DInv, \A m \in Expirable : Qos[m] # 2, SubscriberReads
    PROVE  DInv' /\ [Promise!Next]_(Promise!vars)
<1>1. PICK x : x = Head(b2c)
  OBVIOUS
<1>2. /\ b2c # <<>> /\ b2c' = Tail(b2c)
      /\ UNCHANGED <<issued, net, resuming, attached, ep, inflight, offline>>
      /\ \/ /\ x.type = "publish"
            /\ \/ Qos[x.msg] = 0 /\ ReceiveQos0(x.msg)
               \/ Qos[x.msg] = 1 /\ ReceiveQos1(x.pid, x.msg)
               \/ Qos[x.msg] = 2 /\ ReceiveQos2(x.pid, x.msg)
         \/ x.type = "pubrel" /\ ReceivePubrel(x.pid)
  BY <1>1 DEF SubscriberReads
<1> QED BY <1>1, <1>2, ZeroReceived, OneReceived, TwoReceived, PubrelReceived

-----------------------------------------------------------------------------
(* From the start, and step by step *)

LEMMA InitDInv == Init => DInv /\ Promise!Init
<1> SUFFICES ASSUME Init PROVE DInv /\ Promise!Init
  OBVIOUS
<1>1. /\ ep.store = <<>> /\ ep.posted = <<>> /\ ep.queue = <<>> /\ ToSet(<<>>) = {}
      /\ inflight = <<>> /\ offline = <<>> /\ b2c = <<>> /\ c2b = <<>> /\ handled = {}
      /\ received = <<>> /\ issued = 0 /\ net = "down" /\ attached = FALSE
  BY RisingNone DEF Init, NewEndpoint
<1>2. Stored = {} /\ Pending = {} /\ Packets = {}
  BY <1>1 DEF Stored, Pending, Packets
<1>3. Out = {}
  BY <1>1, <1>2 DEF Out, MessagesIn
<1>4. Behind
  BY <1>1, <1>3, RisingNone DEF Behind
<1>5. Lined
  <2>1. LinedUp(<<>>, <<>>, <<>>)
    BY <1>1, LinedNone DEF LinedUp, InLine, Before
  <2> QED BY <1>1, <2>1, LinedNone DEF Lined, InLine
<1>6. UnderWay /\ Progress
  BY <1>1, <1>2 DEF UnderWay, Progress
<1>7. ZeroOnce
  BY <1>1, <1>2 DEF ZeroOnce, Once
<1>8. Promise!Init
  <2>1. Owed = {}
    BY <1>1, <1>2, OwedIs DEF MessagesIn
  <2> QED BY <1>1, <2>1 DEF Promise!Init
<1> QED BY <1>4, <1>5, <1>6, <1>7, <1>8 DEF DInv

LEMMA NextKeepsPromise ==
    ASSUME BInv, DInv, ~Interleaved, \A m \in Expirable : Qos[m] # 2, [Next]_vars
    PROVE  DInv' /\ [Promise!Next]_(Promise!vars)
<1>1. CASE UNCHANGED vars
  <2>1. /\ UNCHANGED <<issued, net, resuming, attached, ep, inflight, offline, b2c, c2b,
                       handled, received>>
    BY <1>1 DEF vars
  <2>2. Stored' = Stored /\ Pending' = Pending /\ Packets' = Packets
    BY <2>1 DEF Stored, Pending, Packets
  <2>3. Behind' /\ Progress' /\ UNCHANGED Promise!vars
    BY <2>1, <2>2, NothingMoves DEF DInv
  <2>4. Lined' /\ UnderWay' /\ ZeroOnce'
    BY <2>1, <2>2 DEF DInv, Lined, UnderWay, ZeroOnce, Reached
  <2> QED BY <2>3, <2>4 DEF DInv
<1>2. Publish => DInv' /\ Promise!Next
  BY PublishKeeps DEF Promise!Next
<1> QED BY <1>1, <1>2, BrokerClosesKeeps, ConnectKeeps, RenewKeeps, SendInflightKeeps,
           SendOfflineKeeps, WriteKeeps, MessageExpiresKeeps, BrokerReadsKeeps,
           SubscriberReadsKeeps, ConnectionBreaksKeeps DEF Next

-----------------------------------------------------------------------------
(* The theorems *)

(* While a session is attached and nothing is being resent, an inflight
   message is one the endpoint still waits to have answered under that packet
   id: what puback_handler, pubrec_handler and pubcomp_handler take out of the
   endpoint's store they take out of the inflight messages, so that no
   acknowledged message is sent again on the next connection. *)
THEOREM InflightIsStoredAlways ==
    ASSUME ~Interleaved
    PROVE  Spec => []InflightIsStored
<1>1. BInv => InflightIsStored
  <2> SUFFICES ASSUME BInv, attached, resuming = "none", NEW i \in DOMAIN inflight
               PROVE  \E j \in DOMAIN ep.store : /\ ep.store[j].pid = inflight[i].pid
                                                 /\ ep.store[j].msg = inflight[i].msg
    BY DEF InflightIsStored
  <2>1. inflight[i] \in Stored
    BY DEF BInv, Held, ToSet
  <2> QED BY <2>1 DEF Stored, ToSet
<1> QED BY <1>1, SpecBInv, PTL

(* Each stored message has its own packet id, and the number of slots of the
   subscriber's Receive Maximum in use is what publish_send_count_ says, for
   every Receive Maximum: none is given out twice, none is lost unless a
   pubrel was resent on this connection, and a publish waits only while all
   of them are in use. *)
THEOREM WindowIsExact ==
    ASSUME ~Interleaved
    PROVE  Spec => []WindowExact
<1>1. BInv => WindowExact
  BY DEF BInv, Window
<1> QED BY <1>1, SpecBInv, PTL

(* Delivery keeps OrderedDelivery's promise, for every list of messages, set
   of packet ids and Receive Maximum and however often the connection breaks:
   what the inflight messages, the offline messages and the endpoint's store
   hold together is owed until the subscriber received or refused it or it
   expired, QoS 0 and QoS 2 messages are received at most once, and QoS 1 and
   2 messages are first received in the order they were published. Not for
   QoS 2 messages with an expiry interval: the inflight one's timer forgets a
   packet id the subscriber still has in qos2_publish_handled_, and the next
   message sent under it is taken for the expired one. *)
THEOREM DeliveryPromiseKept ==
    ASSUME ~Interleaved, \A m \in Expirable : Qos[m] # 2
    PROVE  Spec => ImplementsOrderedDelivery
<1>1. Init => BInv /\ DInv /\ Promise!Init
  BY InitBInv, InitDInv
<1>2. BInv /\ DInv /\ [Next]_vars => BInv' /\ DInv' /\ [Promise!Next]_(Promise!vars)
  BY NextBInv, NextKeepsPromise
<1> QED BY <1>1, <1>2, PTL DEF Spec, ImplementsOrderedDelivery, Promise!Spec
=============================================================================
