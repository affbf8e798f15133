----------------------- MODULE ConnectionLifetimeProofs -----------------------
(***************************************************************************)
(* However often the application connects, publishes and disconnects, with *)
(* or without layers over TCP, and whatever the timers and the peer do:    *)
(* the end of a connection is told once, and a completion handler is       *)
(* called once.                                                            *)
(***************************************************************************)
EXTENDS ConnectionLifetime, FiniteSetTheorems, SequenceTheorems, TLAPS

-----------------------------------------------------------------------------
(* The invariant, part by part *)

Packets == {"connect", "publish", "disconnect", "pingreq"}
Waiting == {"notice", "force", "none"}

Expired == {"ping", "pong", "close", "shut", "pong cancelled"}

Tasks == [do : {"write"}, packet : Packets] \union [do : {"force"}, then : {"force"}]
            \union [do : Expired]

Stages == {"none", "connecting", "handshake", "session", "failed"}

Flags == [connected : BOOLEAN, mqtt : BOOLEAN, shutdown : BOOLEAN, asked : BOOLEAN,
          called : BOOLEAN]

Timers == [{"ping", "pong", "close", "shut"} -> BOOLEAN]

Peers == [up : BOOLEAN, silent : BOOLEAN, connack : BOOLEAN, pongs : Nat]

Inbound == {"connack", "pingresp", "malformed", "disconnect"}

LifetimeTypes ==
    /\ conn \in Nat /\ calls \in Nat /\ stage \in Stages
    /\ flags \in Flags /\ timers \in Timers
    /\ pongSet \in BOOLEAN /\ reader \in BOOLEAN
    /\ tasks \in Seq(Tasks) /\ shutters \in Seq(Waiting)
    /\ queue \in Seq(Packets) /\ writing \in 0..Len(queue)
    /\ sock \in {"open", "closing", "closed"} /\ closeOp \in {"none", "pending", "done"}
    /\ inbox \in Seq(Inbound) /\ peer \in Peers
    /\ app \in {"no", "timed", "untimed"}
    /\ owed \in [Handlers -> Int]
    /\ told \in Seq({"close", "error"})
    /\ unanswered \in 0..MaxPings

(* A connection that reads owes the application the notice of its end. The
   notice is due from the failing read, or waits in
   async_shutdown_handler_queue_, or has been given: one of the three. *)
NoticeWaits == \E i \in DOMAIN shutters : shutters[i] = "notice"

OneNotice ==
    /\ Len(told) <= 1
    /\ ~(reader /\ NoticeWaits)
    /\ told # <<>> => ~reader /\ ~NoticeWaits
    /\ stage = "session" <=> reader \/ NoticeWaits \/ told # <<>>

(* Each completion handler that was given and not called is in one place: with
   a posted function, with a queued packet, with the handlers that wait for the
   socket to close, or with the connection attempt. *)
CountIn(s, S) == Cardinality({i \in DOMAIN s : s[i] \in S})

TasksWith(h) == {[do |-> "write", packet |-> h], [do |-> "force", then |-> h]}

Attempt(h) == IF h = "connect" /\ stage \in {"connecting", "handshake"} THEN 1 ELSE 0

HandlersHeld ==
    \A h \in Handlers :
        owed[h] = CountIn(tasks, TasksWith(h)) + Count(queue, h) + Count(shutters, h) + Attempt(h)

IInv == LifetimeTypes /\ OneNotice /\ HandlersHeld

-----------------------------------------------------------------------------
(* How many elements of a sequence are in a set *)

LEMMA CountedPositions ==
    ASSUME NEW X, NEW s \in Seq(X), NEW S
    PROVE  /\ DOMAIN s = 1..Len(s) /\ Len(s) \in Nat
           /\ IsFiniteSet({i \in DOMAIN s : s[i] \in S})
           /\ CountIn(s, S) \in Nat
<1>1. DOMAIN s = 1..Len(s) /\ Len(s) \in Nat
  BY LenProperties
<1>2. IsFiniteSet(1..Len(s))
  BY <1>1, FS_Interval
<1>3. {i \in DOMAIN s : s[i] \in S} \in SUBSET (1..Len(s))
  BY <1>1
<1>4. IsFiniteSet({i \in DOMAIN s : s[i] \in S})
  BY <1>2, <1>3, FS_Subset
<1>5. CountIn(s, S) \in Nat
  BY <1>4, FS_CardinalityType DEF CountIn
<1> QED BY <1>1, <1>4, <1>5

LEMMA CountOne == ASSUME NEW s, NEW x PROVE Count(s, x) = CountIn(s, {x})
<1>1. {i \in DOMAIN s : s[i] = x} = {i \in DOMAIN s : s[i] \in {x}}
  OBVIOUS
<1> QED BY <1>1 DEF Count, CountIn

LEMMA CountEmpty == ASSUME NEW S PROVE CountIn(<<>>, S) = 0
<1>1. {i \in DOMAIN <<>> : <<>>[i] \in S} = {}
  OBVIOUS
<1> QED BY <1>1, FS_EmptySet DEF CountIn

LEMMA CountAppend ==
    ASSUME NEW X, NEW s \in Seq(X), NEW e \in X, NEW S
    PROVE  CountIn(Append(s, e), S) = CountIn(s, S) + (IF e \in S THEN 1 ELSE 0)
<1> DEFINE t == Append(s, e)
           A == {i \in DOMAIN s : s[i] \in S}
           B == {i \in DOMAIN t : t[i] \in S}
<1>1. /\ DOMAIN s = 1..Len(s) /\ Len(s) \in Nat
      /\ IsFiniteSet(A) /\ CountIn(s, S) \in Nat
  BY CountedPositions
<1>2. /\ t \in Seq(X) /\ Len(t) = Len(s) + 1
      /\ \A i \in 1..Len(s) : t[i] = s[i]
      /\ t[Len(s) + 1] = e
  BY AppendProperties
<1>3. DOMAIN t = 1..(Len(s) + 1)
  BY <1>2, LenProperties
<1> HIDE DEF t
<1>4. CASE e \in S
  <2>1. B = A \union {Len(s) + 1} /\ Len(s) + 1 \notin A
    BY <1>1, <1>2, <1>3, <1>4
  <2> HIDE DEF A, B
  <2>2. Cardinality(B) = Cardinality(A) + 1
    BY <1>1, <2>1, FS_AddElement
  <2> QED BY <1>4, <2>2 DEF CountIn, A, B, t
<1>5. CASE e \notin S
  <2>1. B = A
    BY <1>1, <1>2, <1>3, <1>5
  <2>2. CountIn(s, S) = Cardinality(A) /\ CountIn(t, S) = Cardinality(B)
    BY DEF CountIn
  <2> HIDE DEF A, B
  <2>3. CountIn(t, S) = CountIn(s, S) + 0
    BY <1>1, <2>1, <2>2
  <2> QED BY <1>5, <2>3 DEF t
<1> QED BY <1>4, <1>5

LEMMA CountSingle ==
    ASSUME NEW e, NEW S PROVE CountIn(<<e>>, S) = IF e \in S THEN 1 ELSE 0
<1>1. PICK X : e \in X
  OBVIOUS
<1>2. <<>> \in Seq(X) /\ Append(<<>>, e) = <<e>>
  OBVIOUS
<1>3. CountIn(Append(<<>>, e), S) = CountIn(<<>>, S) + (IF e \in S THEN 1 ELSE 0)
  BY <1>1, <1>2, CountAppend
<1> QED BY <1>2, <1>3, CountEmpty

LEMMA SubSequence ==
    ASSUME NEW X, NEW s \in Seq(X), NEW m \in Nat \ {0}, NEW n \in Nat, n <= Len(s), m <= n + 1
    PROVE  /\ SubSeq(s, m, n) \in Seq(X)
           /\ Len(SubSeq(s, m, n)) = n - m + 1
           /\ DOMAIN SubSeq(s, m, n) = 1..(n - m + 1)
           /\ \A i \in 1..(n - m + 1) : SubSeq(s, m, n)[i] = s[m + i - 1]
<1>1. DOMAIN s = 1..Len(s) /\ Len(s) \in Nat /\ \A i \in 1..Len(s) : s[i] \in X
  BY LenProperties
<1>2. \A i \in m..n : s[i] \in X
  BY <1>1
<1>3. m \in Int /\ n \in Int
  OBVIOUS
<1>4. /\ SubSeq(s, m, n) \in Seq(X)
      /\ Len(SubSeq(s, m, n)) = IF m <= n THEN n - m + 1 ELSE 0
      /\ \A i \in 1..(n - m + 1) : SubSeq(s, m, n)[i] = s[m + i - 1]
  BY <1>2, <1>3, SubSeqProperties
<1>5. DOMAIN SubSeq(s, m, n) = 1..Len(SubSeq(s, m, n))
  BY <1>4, LenProperties
<1> QED BY <1>1, <1>4, <1>5

LEMMA CountSplit ==
    ASSUME NEW X, NEW s \in Seq(X), NEW n \in 0..Len(s), NEW S
    PROVE  /\ SubSeq(s, 1, n) \in Seq(X)
           /\ SubSeq(s, n + 1, Len(s)) \in Seq(X)
           /\ Len(SubSeq(s, n + 1, Len(s))) = Len(s) - n
           /\ CountIn(s, S) = CountIn(SubSeq(s, 1, n), S) + CountIn(SubSeq(s, n + 1, Len(s)), S)
<1> DEFINE a == SubSeq(s, 1, n)
           b == SubSeq(s, n + 1, Len(s))
           A == {i \in DOMAIN a : a[i] \in S}
           B == {i \in DOMAIN b : b[i] \in S}
           C == {i \in DOMAIN s : s[i] \in S}
           D == {i \in (n + 1)..Len(s) : s[i] \in S}
           f == [i \in B |-> i + n]
<1>1. DOMAIN s = 1..Len(s) /\ Len(s) \in Nat /\ n \in Nat /\ n <= Len(s)
  BY LenProperties
<1>2. /\ a \in Seq(X) /\ DOMAIN a = 1..n
      /\ \A i \in 1..n : a[i] = s[i]
  <2>1. 1 \in Nat \ {0} /\ 1 <= n + 1
    BY <1>1
  <2>2. /\ a \in Seq(X) /\ DOMAIN a = 1..(n - 1 + 1)
        /\ \A i \in 1..(n - 1 + 1) : a[i] = s[1 + i - 1]
    BY <1>1, <2>1, SubSequence
  <2> QED BY <1>1, <2>2
<1>3. /\ b \in Seq(X) /\ Len(b) = Len(s) - n /\ DOMAIN b = 1..(Len(s) - n)
      /\ \A i \in 1..(Len(s) - n) : b[i] = s[i + n]
  <2>1. PICK m \in Nat \ {0} : m = n + 1
    BY <1>1
  <2>2. PICK l \in Nat : l = Len(s)
    BY <1>1
  <2>3. m <= l + 1 /\ l <= Len(s)
    BY <1>1, <2>1, <2>2
  <2>4. /\ SubSeq(s, m, l) \in Seq(X) /\ Len(SubSeq(s, m, l)) = l - m + 1
        /\ DOMAIN SubSeq(s, m, l) = 1..(l - m + 1)
        /\ \A i \in 1..(l - m + 1) : SubSeq(s, m, l)[i] = s[m + i - 1]
    BY <2>3, SubSequence
  <2>5. l - m + 1 = Len(s) - n /\ \A i \in 1..(Len(s) - n) : m + i - 1 = i + n
    BY <1>1, <2>1, <2>2
  <2>6. SubSeq(s, m, l) = b
    BY <2>1, <2>2
  <2> QED BY <2>4, <2>5, <2>6
<1>4. IsFiniteSet(A) /\ CountIn(a, S) = Cardinality(A)
  BY <1>2, CountedPositions DEF CountIn
<1>5. IsFiniteSet(B) /\ CountIn(b, S) = Cardinality(B) /\ CountIn(b, S) \in Nat
  BY <1>3, CountedPositions DEF CountIn
<1> HIDE DEF a, b
<1>6. f \in Bijection(B, D)
  <2>1. f \in [B -> D]
    BY <1>1, <1>3
  <2>2. ASSUME NEW i \in B, NEW j \in B, f[i] = f[j] PROVE i = j
    BY <1>1, <1>3, <2>2
  <2>3. ASSUME NEW d \in D PROVE \E i \in B : f[i] = d
    <3>1. d - n \in 1..(Len(s) - n) /\ d - n + n = d
      BY <1>1
    <3>2. d - n \in B
      BY <1>3, <3>1
    <3> QED BY <3>1, <3>2
  <2> QED BY <2>1, <2>2, <2>3 DEF Bijection, Injection, Surjection, IsInjective
<1>7. IsFiniteSet(D) /\ Cardinality(D) = Cardinality(B)
  <2>1. ExistsBijection(B, D)
    BY <1>6 DEF ExistsBijection
  <2> HIDE DEF B, D
  <2> QED BY <1>5, <2>1, FS_Bijection
<1>8. C = A \union D /\ A \intersect D = {}
  BY <1>1, <1>2
<1> HIDE DEF A, B, C, D
<1>9. Cardinality(C) = Cardinality(A) + Cardinality(D)
  <2>1. Cardinality(A \union D) = Cardinality(A) + Cardinality(D) - Cardinality(A \intersect D)
    BY <1>4, <1>7, FS_Union
  <2>2. Cardinality(A \intersect D) = 0
    BY <1>8, FS_EmptySet
  <2>3. Cardinality(A) \in Nat /\ Cardinality(D) \in Nat
    BY <1>4, <1>7, FS_CardinalityType
  <2> QED BY <1>8, <2>1, <2>2, <2>3
<1>10. CountIn(s, S) = Cardinality(C)
  BY DEF CountIn, C
<1> QED BY <1>2, <1>3, <1>4, <1>5, <1>7, <1>9, <1>10 DEF a, b

LEMMA CountTail ==
    ASSUME NEW X, NEW s \in Seq(X), s # <<>>, NEW S
    PROVE  /\ Tail(s) \in Seq(X) /\ Head(s) \in X
           /\ CountIn(s, S) = CountIn(Tail(s), S) + (IF Head(s) \in S THEN 1 ELSE 0)
<1>1. Len(s) \in Nat /\ Len(s) # 0
  BY EmptySeq, LenProperties
<1>2. /\ Tail(s) \in Seq(X) /\ Head(s) \in X /\ Head(s) = s[1]
      /\ Len(Tail(s)) = Len(s) - 1 /\ \A i \in 1..Len(Tail(s)) : Tail(s)[i] = s[i + 1]
  BY HeadTailProperties
<1>3. 1 \in 0..Len(s)
  BY <1>1
<1>4. CountIn(s, S) = CountIn(SubSeq(s, 1, 1), S) + CountIn(SubSeq(s, 1 + 1, Len(s)), S)
  BY <1>3, CountSplit
<1>5. SubSeq(s, 1, 1) = <<Head(s)>>
  <2> DEFINE a == SubSeq(s, 1, 1)
             b == <<Head(s)>>
  <2>1. /\ a \in Seq(X) /\ Len(a) = 1 - 1 + 1
        /\ \A i \in 1..(1 - 1 + 1) : a[i] = s[1 + i - 1]
    BY <1>1, SubSequence
  <2>2. b \in Seq(X) /\ Len(b) = 1 /\ b[1] = Head(s)
    BY <1>2
  <2> HIDE DEF a, b
  <2>3. Len(a) = Len(b) /\ \A i \in 1..Len(a) : a[i] = b[i]
    BY <1>2, <2>1, <2>2
  <2>4. a = b
    BY <2>1, <2>2, <2>3, SeqEqual
  <2> QED BY <2>4 DEF a, b
<1>6. SubSeq(s, 1 + 1, Len(s)) = Tail(s)
  <2> DEFINE t == Tail(s)
  <2>1. PICK m \in Nat \ {0} : m = 1 + 1
    OBVIOUS
  <2>2. PICK l \in Nat : l = Len(s)
    BY <1>1
  <2> DEFINE a == SubSeq(s, m, l)
  <2>3. m <= l + 1 /\ l <= Len(s)
    BY <1>1, <2>1, <2>2
  <2>4. /\ a \in Seq(X) /\ Len(a) = l - m + 1
        /\ \A i \in 1..(l - m + 1) : a[i] = s[m + i - 1]
    BY <2>3, SubSequence
  <2>5. t \in Seq(X) /\ Len(t) = l - 1 /\ \A i \in 1..(l - 1) : t[i] = s[i + 1]
    BY <1>2, <2>2
  <2>6. a = SubSeq(s, 1 + 1, Len(s))
    BY <2>1, <2>2
  <2> HIDE DEF a, t
  <2>7. Len(a) = Len(t) /\ \A i \in 1..Len(a) : a[i] = t[i]
    <3>1. l - m + 1 = l - 1 /\ \A i \in 1..(l - 1) : m + i - 1 = i + 1
      BY <2>1
    <3> QED BY <2>4, <2>5, <3>1
  <2>8. a = t
    BY <2>4, <2>5, <2>7, SeqEqual
  <2> QED BY <2>6, <2>8 DEF t
<1>7. CountIn(<<Head(s)>>, S) = IF Head(s) \in S THEN 1 ELSE 0
  BY CountSingle
<1>8. CountIn(Tail(s), S) \in Nat
  BY <1>2, CountedPositions
<1> DEFINE t == Tail(s)
           h == Head(s)
           one == IF h \in S THEN 1 ELSE 0
<1>9. CountIn(s, S) = one + CountIn(t, S)
  BY <1>4, <1>5, <1>6, <1>7
<1>10. one \in Nat
  OBVIOUS
<1> HIDE DEF t, one
<1>11. CountIn(s, S) = CountIn(t, S) + one
  BY <1>8, <1>9, <1>10 DEF t
<1> QED BY <1>2, <1>11 DEF t, one

-----------------------------------------------------------------------------
(* Functions that are posted, and taken to be run *)

Holds(task, h) == IF task \in TasksWith(h) THEN 1 ELSE 0

LEMMA TaskTypes ==
    /\ \A p \in Packets : [do |-> "write", packet |-> p] \in Tasks
    /\ [do |-> "force", then |-> "force"] \in Tasks
    /\ \A t \in Expired : [do |-> t] \in Tasks
BY DEF Tasks

LEMMA TaskHolds ==
    ASSUME NEW h \in Handlers
    PROVE  /\ \A p \in Packets : Holds([do |-> "write", packet |-> p], h) = IF p = h THEN 1 ELSE 0
           /\ Holds([do |-> "force", then |-> "force"], h) = IF h = "force" THEN 1 ELSE 0
           /\ \A t \in Expired : Holds([do |-> t], h) = 0
<1>1. ASSUME NEW p \in Packets
      PROVE  Holds([do |-> "write", packet |-> p], h) = IF p = h THEN 1 ELSE 0
  <2>1. [do |-> "write", packet |-> p].packet = p /\ [do |-> "write", packet |-> p].do = "write"
    OBVIOUS
  <2>2. [do |-> "force", then |-> h].do = "force" /\ [do |-> "write", packet |-> h].packet = h
    OBVIOUS
  <2> QED BY <2>1, <2>2 DEF Holds, TasksWith
<1>2. Holds([do |-> "force", then |-> "force"], h) = IF h = "force" THEN 1 ELSE 0
  <2>1. [do |-> "force", then |-> "force"].then = "force" /\ [do |-> "force", then |-> "force"].do = "force"
    OBVIOUS
  <2>2. [do |-> "force", then |-> h].then = h /\ [do |-> "write", packet |-> h].do = "write"
    OBVIOUS
  <2> QED BY <2>1, <2>2 DEF Holds, TasksWith
<1>3. ASSUME NEW t \in Expired PROVE Holds([do |-> t], h) = 0
  <2>1. [do |-> t].do = t /\ t # "write" /\ t # "force"
    BY DEF Expired
  <2>2. [do |-> "force", then |-> h].do = "force" /\ [do |-> "write", packet |-> h].do = "write"
    OBVIOUS
  <2> QED BY <2>1, <2>2 DEF Holds, TasksWith
<1> QED BY <1>1, <1>2, <1>3

LEMMA TaskPosted ==
    ASSUME tasks \in Seq(Tasks), NEW e \in Tasks, tasks' = Append(tasks, e)
    PROVE  /\ tasks' \in Seq(Tasks)
           /\ \A h \in Handlers : CountIn(tasks', TasksWith(h)) = CountIn(tasks, TasksWith(h)) + Holds(e, h)
<1>1. tasks' \in Seq(Tasks)
  BY AppendProperties
<1>2. ASSUME NEW h \in Handlers
      PROVE  CountIn(Append(tasks, e), TasksWith(h)) = CountIn(tasks, TasksWith(h)) + Holds(e, h)
  <2> DEFINE S == TasksWith(h)
  <2> HIDE DEF S
  <2>1. CountIn(Append(tasks, e), S) = CountIn(tasks, S) + (IF e \in S THEN 1 ELSE 0)
    BY CountAppend
  <2> QED BY <2>1 DEF S, Holds
<1> QED BY <1>1, <1>2

LEMMA TaskTaken ==
    ASSUME tasks \in Seq(Tasks), tasks # <<>>, tasks' = Tail(tasks)
    PROVE  /\ tasks' \in Seq(Tasks) /\ Head(tasks) \in Tasks
           /\ \A h \in Handlers :
                CountIn(tasks, TasksWith(h)) = CountIn(tasks', TasksWith(h)) + Holds(Head(tasks), h)
<1>1. tasks' \in Seq(Tasks) /\ Head(tasks) \in Tasks
  BY CountTail
<1>2. ASSUME NEW h \in Handlers
      PROVE  CountIn(tasks, TasksWith(h)) = CountIn(Tail(tasks), TasksWith(h)) + Holds(Head(tasks), h)
  <2> DEFINE S == TasksWith(h)
  <2> HIDE DEF S
  <2>1. CountIn(tasks, S) = CountIn(Tail(tasks), S) + (IF Head(tasks) \in S THEN 1 ELSE 0)
    BY CountTail
  <2> QED BY <2>1 DEF S, Holds
<1> QED BY <1>1, <1>2

LEMMA TaskRun ==
    ASSUME NEW task \in Tasks
    PROVE  /\ task.do = "write" => task.packet \in Packets /\ task = [do |-> "write", packet |-> task.packet]
           /\ task.do = "force" => task.then = "force" /\ task = [do |-> "force", then |-> "force"]
           /\ task.do \in Expired => task = [do |-> task.do]
<1>1. CASE task \in [do : {"write"}, packet : Packets]
  BY <1>1 DEF Expired
<1>2. CASE task \in [do : {"force"}, then : {"force"}]
  BY <1>2 DEF Expired
<1>3. CASE task \in [do : Expired]
  BY <1>3 DEF Expired
<1> QED BY <1>1, <1>2, <1>3 DEF Tasks

-----------------------------------------------------------------------------
(* Handlers that are given and called *)

LEMMA HandlersGiven ==
    ASSUME owed \in [Handlers -> Int], NEW g \in Handlers, Give(g)
    PROVE  /\ owed' \in [Handlers -> Int]
           /\ \A h \in Handlers : owed'[h] = owed[h] + (IF h = g THEN 1 ELSE 0)
BY DEF Give

LEMMA HandlersCalled ==
    ASSUME owed \in [Handlers -> Int], NEW X, NEW hs \in Seq(X)
    PROVE  /\ Called(hs) \in [Handlers -> Int]
           /\ \A h \in Handlers : Called(hs)[h] = owed[h] - Count(hs, h) /\ Count(hs, h) \in Nat
<1>1. ASSUME NEW h \in Handlers PROVE Count(hs, h) \in Nat
  <2>1. CountIn(hs, {h}) \in Nat
    BY CountedPositions
  <2> QED BY <2>1, CountOne
<1> QED BY <1>1 DEF Called

LEMMA HandlerCalled ==
    ASSUME owed \in [Handlers -> Int], NEW f
    PROVE  /\ Called(<<f>>) \in [Handlers -> Int]
           /\ \A h \in Handlers : Called(<<f>>)[h] = owed[h] - (IF f = h THEN 1 ELSE 0)
<1>1. PICK X : f \in X
  OBVIOUS
<1>2. <<f>> \in Seq(X)
  BY <1>1
<1>3. \A h \in Handlers : Count(<<f>>, h) = IF f = h THEN 1 ELSE 0
  BY CountOne, CountSingle
<1> QED BY <1>2, <1>3, HandlersCalled

LEMMA CallHandlersTypes ==
    ASSUME owed \in [Handlers -> Int], told \in Seq({"close", "error"}),
           NEW hs \in Seq(Waiting), NEW fl \in Flags, NEW tm \in Timers, CallHandlers(hs, fl, tm)
    PROVE  /\ told' \in Seq({"close", "error"}) /\ flags' \in Flags /\ timers' \in Timers
           /\ owed' \in [Handlers -> Int]
<1>1. told' \in Seq({"close", "error"})
  BY AppendProperties DEF CallHandlers
<1>2. flags' \in Flags /\ timers' \in Timers
  BY DEF CallHandlers, Flags, Timers
<1>3. owed' \in [Handlers -> Int]
  BY HandlersCalled DEF CallHandlers
<1> QED BY <1>1, <1>2, <1>3

LEMMA NoticeCalled ==
    ASSUME told \in Seq({"close", "error"}), NEW hs \in Seq(Waiting), NEW fl, NEW tm,
           CallHandlers(hs, fl, tm)
    PROVE  /\ (\E i \in DOMAIN hs : hs[i] = "notice") => Len(told') = Len(told) + 1
           /\ ~(\E i \in DOMAIN hs : hs[i] = "notice") => told' = told
<1>1. DOMAIN hs = 1..Len(hs)
  BY LenProperties
<1>2. Contains(hs, "notice") <=> \E i \in DOMAIN hs : hs[i] = "notice"
  BY <1>1 DEF Contains
<1>3. told' = IF Contains(hs, "notice") THEN Append(told, IF fl.asked THEN "close" ELSE "error") ELSE told
  BY DEF CallHandlers
<1>4. Len(Append(told, IF fl.asked THEN "close" ELSE "error")) = Len(told) + 1
  BY AppendProperties
<1> QED BY <1>2, <1>3, <1>4

LEMMA ShuttersGiven ==
    ASSUME shutters \in Seq(Waiting), NEW f \in Waiting, shutters' = Append(shutters, f)
    PROVE  /\ shutters' \in Seq(Waiting)
           /\ \A h \in Handlers : Count(shutters', h) = Count(shutters, h) + (IF f = h THEN 1 ELSE 0)
           /\ NoticeWaits' <=> NoticeWaits \/ f = "notice"
<1>1. shutters' \in Seq(Waiting)
  BY AppendProperties
<1>2. ASSUME NEW h \in Handlers
      PROVE  Count(shutters', h) = Count(shutters, h) + (IF f = h THEN 1 ELSE 0)
  <2>1. CountIn(Append(shutters, f), {h}) = CountIn(shutters, {h}) + (IF f \in {h} THEN 1 ELSE 0)
    BY CountAppend
  <2>2. Count(Append(shutters, f), h) = CountIn(Append(shutters, f), {h})
        /\ Count(shutters, h) = CountIn(shutters, {h})
    BY CountOne
  <2> QED BY <2>1, <2>2
<1>3. NoticeWaits' <=> NoticeWaits \/ f = "notice"
  <2>1. DOMAIN shutters = 1..Len(shutters) /\ Len(shutters) \in Nat
    BY LenProperties
  <2>2. /\ Len(shutters') = Len(shutters) + 1
        /\ \A i \in 1..Len(shutters) : shutters'[i] = shutters[i]
        /\ shutters'[Len(shutters) + 1] = f
    BY AppendProperties
  <2>3. DOMAIN shutters' = 1..(Len(shutters) + 1)
    BY <1>1, <2>2, LenProperties
  <2> QED BY <2>1, <2>2, <2>3 DEF NoticeWaits
<1> QED BY <1>1, <1>2, <1>3

(* async_shutdown calls its handler at once, or keeps it for the closed socket. *)
LEMMA ShutdownEffect ==
    ASSUME LifetimeTypes, NEW f \in Waiting, Shutdown(f)
    PROVE  /\ flags' \in Flags /\ timers' \in Timers /\ shutters' \in Seq(Waiting)
           /\ sock' \in {"open", "closing", "closed"} /\ closeOp' \in {"none", "pending", "done"}
           /\ told' \in Seq({"close", "error"}) /\ owed' \in [Handlers -> Int]
           /\ \A h \in Handlers : owed'[h] - Count(shutters', h)
                                    = owed[h] - Count(shutters, h) - (IF f = h THEN 1 ELSE 0)
           /\ f # "notice" => told' = told /\ (NoticeWaits' <=> NoticeWaits)
           /\ f = "notice" => \/ told' = told /\ NoticeWaits'
                              \/ Len(told') = Len(told) + 1 /\ (NoticeWaits' <=> NoticeWaits)
<1> USE DEF LifetimeTypes
<1>0. \A h \in Handlers : owed[h] \in Int /\ Count(shutters, h) \in Nat
  BY HandlersCalled
<1>1. CASE flags.shutdown /\ flags.called
  <2>1. /\ CallHandlers(<<f>>, flags, timers)
        /\ UNCHANGED <<shutters, sock, closeOp>>
    BY <1>1 DEF Shutdown
  <2>2. <<f>> \in Seq(Waiting) /\ DOMAIN <<f>> = {1} /\ <<f>>[1] = f
    OBVIOUS
  <2>3. /\ told' \in Seq({"close", "error"}) /\ flags' \in Flags /\ timers' \in Timers
        /\ owed' \in [Handlers -> Int]
    BY <2>1, <2>2, CallHandlersTypes
  <2>4. /\ f = "notice" => Len(told') = Len(told) + 1
        /\ f # "notice" => told' = told
    BY <2>1, <2>2, NoticeCalled
  <2>5. owed' = Called(<<f>>)
    BY <2>1 DEF CallHandlers
  <2>6. \A h \in Handlers : owed'[h] = owed[h] - (IF f = h THEN 1 ELSE 0)
    BY <2>5, HandlerCalled
  <2>7. NoticeWaits' <=> NoticeWaits
    BY <2>1 DEF NoticeWaits
  <2>8. \A h \in Handlers : Count(shutters', h) = Count(shutters, h)
    BY <2>1
  <2>9. \A h \in Handlers : owed'[h] - Count(shutters', h)
                                    = owed[h] - Count(shutters, h) - (IF f = h THEN 1 ELSE 0)
    BY <1>0, <2>6, <2>8
  <2> QED BY <2>1, <2>3, <2>4, <2>7, <2>9
<1>2. CASE ~(flags.shutdown /\ flags.called)
  <2>1. shutters' = Append(shutters, f) /\ UNCHANGED <<told, owed>>
    BY <1>2 DEF Shutdown
  <2>2. /\ shutters' \in Seq(Waiting)
        /\ \A h \in Handlers : Count(shutters', h) = Count(shutters, h) + (IF f = h THEN 1 ELSE 0)
        /\ NoticeWaits' <=> NoticeWaits \/ f = "notice"
    BY <2>1, ShuttersGiven
  <2>3. /\ flags' \in Flags /\ timers' \in Timers
        /\ sock' \in {"open", "closing", "closed"} /\ closeOp' \in {"none", "pending", "done"}
    <3>1. CASE flags.shutdown
      BY <1>2, <3>1 DEF Shutdown
    <3>2. CASE ~flags.shutdown
      <4>1. flags' \in Flags
        BY <3>2 DEF Shutdown, Flags
      <4>2. timers' \in Timers
        BY <3>2 DEF Shutdown, Timers
      <4>3. sock' \in {"open", "closing", "closed"} /\ closeOp' \in {"none", "pending", "done"}
        BY <3>2 DEF Shutdown
      <4> QED BY <4>1, <4>2, <4>3
    <3> QED BY <3>1, <3>2
  <2>4. \A h \in Handlers : owed'[h] - Count(shutters', h)
                                    = owed[h] - Count(shutters, h) - (IF f = h THEN 1 ELSE 0)
    BY <1>0, <2>1, <2>2
  <2> QED BY <2>1, <2>2, <2>3, <2>4
<1> QED BY <1>1, <1>2

LEMMA RunShuttersEffect ==
    ASSUME LifetimeTypes, NEW tm \in Timers, RunShutters(tm)
    PROVE  /\ flags' \in Flags /\ timers' \in Timers /\ shutters' = <<>> /\ sock' = "closed"
           /\ told' \in Seq({"close", "error"}) /\ owed' \in [Handlers -> Int]
           /\ \A h \in Handlers : owed'[h] = owed[h] - Count(shutters, h)
           /\ NoticeWaits => Len(told') = Len(told) + 1
           /\ ~NoticeWaits => told' = told
           /\ ~NoticeWaits'
<1> DEFINE fl == [flags EXCEPT !.connected = FALSE, !.called = TRUE]
<1>1. fl \in Flags
  BY DEF LifetimeTypes, Flags
<1>2. /\ CallHandlers(shutters, fl, tm) /\ shutters' = <<>> /\ sock' = "closed"
  BY DEF RunShutters
<1> HIDE DEF fl
<1>3. owed \in [Handlers -> Int] /\ told \in Seq({"close", "error"}) /\ shutters \in Seq(Waiting)
  BY DEF LifetimeTypes
<1>4. /\ told' \in Seq({"close", "error"}) /\ flags' \in Flags /\ timers' \in Timers
      /\ owed' \in [Handlers -> Int]
  BY <1>1, <1>2, <1>3, CallHandlersTypes
<1>5. \A h \in Handlers : owed'[h] = owed[h] - Count(shutters, h)
  <2>1. owed' = Called(shutters)
    BY <1>2 DEF CallHandlers
  <2> QED BY <1>3, <2>1, HandlersCalled
<1>6. /\ NoticeWaits => Len(told') = Len(told) + 1
      /\ ~NoticeWaits => told' = told
  BY <1>2, <1>3, NoticeCalled DEF NoticeWaits
<1>7. ~NoticeWaits'
  BY <1>2 DEF NoticeWaits
<1> QED BY <1>2, <1>4, <1>5, <1>6, <1>7

-----------------------------------------------------------------------------
(* The packets to write *)

LEMMA Batched ==
    ASSUME NEW packets \in Seq(Packets)
    PROVE  Batch(packets) \in 0..Len(packets)
<1>1. Len(packets) \in Nat
  BY LenProperties
<1> QED BY <1>1, LifetimeAssumption DEF Batch

(* write_completion_handler leaves the rest of the queue, or nothing. *)
LEMMA WriteDoneEffect ==
    ASSUME LifetimeTypes, WriteDone
    PROVE  /\ queue' \in Seq(Packets) /\ writing' \in 0..Len(queue') /\ timers' \in Timers
           /\ owed' \in [Handlers -> Int] /\ peer' \in Peers
           /\ \A h \in Handlers : owed'[h] - Count(queue', h) = owed[h] - Count(queue, h)
<1> DEFINE sent == SubSeq(queue, 1, writing)
           rest == SubSeq(queue, writing + 1, Len(queue))
<1>1. queue \in Seq(Packets) /\ writing \in 0..Len(queue) /\ owed \in [Handlers -> Int]
  BY DEF LifetimeTypes
<1>2. sent \in Seq(Packets) /\ rest \in Seq(Packets)
  BY <1>1, CountSplit
<1>3. ASSUME NEW h \in Handlers
      PROVE  Count(queue, h) = Count(sent, h) + Count(rest, h)
  <2>1. CountIn(queue, {h}) = CountIn(sent, {h}) + CountIn(rest, {h})
    BY <1>1, CountSplit
  <2> HIDE DEF sent, rest
  <2> QED BY <2>1, CountOne
<1>4. peer' = Received(sent)
  BY DEF WriteDone
<1> HIDE DEF sent, rest
<1>5. peer' \in Peers
  <2>1. CountIn(sent, {"pingreq"}) \in Nat
    BY <1>2, CountedPositions
  <2>2. Count(sent, "pingreq") \in Nat
    BY <2>1, CountOne
  <2>3. peer \in Peers
    BY DEF LifetimeTypes
  <2> DEFINE given == peer.connack \/ Contains(sent, "connect")
             asked == peer.pongs + Count(sent, "pingreq")
  <2>4. given \in BOOLEAN
    OBVIOUS
  <2>5. asked \in Nat
    BY <2>2, <2>3 DEF Peers
  <2>6. peer' = IF peer.silent THEN peer ELSE [peer EXCEPT !.connack = given, !.pongs = asked]
    BY <1>4 DEF Received
  <2> HIDE DEF given, asked
  <2>7. [peer EXCEPT !.connack = given, !.pongs = asked] \in Peers
    BY <2>3, <2>4, <2>5 DEF Peers
  <2> QED BY <2>3, <2>6, <2>7
<1>6. CASE flags.connected
  <2>1. /\ queue' = rest /\ writing' = Batch(rest)
        /\ timers' = [timers EXCEPT !["ping"] = @ \/ rest # <<>>]
        /\ owed' = Called(sent)
    BY <1>6 DEF WriteDone, sent, rest
  <2>2. timers' \in Timers
    BY <2>1 DEF LifetimeTypes, Timers
  <2>3. /\ owed' \in [Handlers -> Int]
        /\ \A h \in Handlers : owed'[h] = owed[h] - Count(sent, h) /\ Count(sent, h) \in Nat
    BY <1>1, <1>2, <2>1, HandlersCalled
  <2>4. \A h \in Handlers : Count(rest, h) \in Nat /\ owed[h] \in Int
    BY <1>1, <1>2, HandlersCalled
  <2>5. writing' \in 0..Len(queue')
    BY <1>2, <2>1, Batched
  <2>6. \A h \in Handlers : owed'[h] - Count(queue', h) = owed[h] - Count(queue, h)
    BY <1>3, <2>1, <2>3, <2>4
  <2> QED BY <1>2, <1>5, <2>1, <2>2, <2>3, <2>5, <2>6
<1>7. CASE ~flags.connected
  <2>1. queue' = <<>> /\ writing' = 0 /\ timers' = timers /\ owed' = Called(queue)
    BY <1>7 DEF WriteDone
  <2>2. /\ owed' \in [Handlers -> Int]
        /\ \A h \in Handlers : owed'[h] = owed[h] - Count(queue, h) /\ Count(queue, h) \in Nat
    BY <1>1, <2>1, HandlersCalled
  <2>3. \A h \in Handlers : Count(queue', h) = 0 /\ owed[h] \in Int
    BY <1>1, <2>1, CountOne, CountEmpty
  <2>4. queue' \in Seq(Packets) /\ writing' \in 0..Len(queue')
    BY <2>1
  <2>5. timers' \in Timers
    BY <2>1 DEF LifetimeTypes
  <2> QED BY <1>5, <2>2, <2>3, <2>4, <2>5
<1> QED BY <1>6, <1>7

LEMMA WriteFailsEffect ==
    ASSUME LifetimeTypes, WriteFails
    PROVE  /\ queue' = <<>> /\ writing' = 0 /\ owed' \in [Handlers -> Int]
           /\ \A h \in Handlers : owed'[h] - Count(queue', h) = owed[h] - Count(queue, h)
<1>1. queue \in Seq(Packets) /\ owed \in [Handlers -> Int]
  BY DEF LifetimeTypes
<1>2. queue' = <<>> /\ writing' = 0 /\ owed' = Called(queue)
  BY DEF WriteFails
<1>3. /\ owed' \in [Handlers -> Int]
      /\ \A h \in Handlers : owed'[h] = owed[h] - Count(queue, h) /\ Count(queue, h) \in Nat
  BY <1>1, <1>2, HandlersCalled
<1>4. \A h \in Handlers : Count(queue', h) = 0 /\ owed[h] \in Int
  BY <1>1, <1>2, CountOne, CountEmpty
<1> QED BY <1>2, <1>3, <1>4

(* do_async_write queues the packet, or calls its handler. *)
LEMMA RunWriteEffect ==
    ASSUME LifetimeTypes, RunWrite
    PROVE  \E p \in Packets :
             /\ Head(tasks) = [do |-> "write", packet |-> p]
             /\ queue' \in Seq(Packets) /\ writing' \in 0..Len(queue') /\ timers' \in Timers
             /\ owed' \in [Handlers -> Int]
             /\ \A h \in Handlers : owed'[h] - Count(queue', h)
                                      = owed[h] - Count(queue, h) - (IF p = h THEN 1 ELSE 0)
<1>1. /\ queue \in Seq(Packets) /\ writing \in 0..Len(queue) /\ owed \in [Handlers -> Int]
      /\ timers \in Timers
  BY DEF LifetimeTypes
<1>2. tasks \in Seq(Tasks) /\ tasks # <<>> /\ Head(tasks).do = "write"
  BY DEF LifetimeTypes, RunWrite, Runs
<1>3. Head(tasks) \in Tasks
  BY <1>2, CountTail
<1>4. PICK p \in Packets : Head(tasks) = [do |-> "write", packet |-> p] /\ Head(tasks).packet = p
  BY <1>2, <1>3, TaskRun
<1>5. \A h \in Handlers : owed[h] \in Int /\ Count(queue, h) \in Nat
  BY <1>1, HandlersCalled
<1>6. CASE CanSend
  <2>1. /\ queue' = Append(queue, p)
        /\ writing' = IF queue = <<>> THEN Batch(queue') ELSE writing
        /\ timers' = [timers EXCEPT !["ping"] = @ \/ queue = <<>>]
        /\ owed' = owed
    BY <1>4, <1>6 DEF RunWrite
  <2>2. queue' \in Seq(Packets) /\ Len(queue') = Len(queue) + 1 /\ Len(queue) \in Nat
    BY <1>1, <2>1, AppendProperties, LenProperties
  <2>3. writing' \in 0..Len(queue')
    <3>1. Batch(queue') \in 0..Len(queue')
      BY <2>2, Batched
    <3>2. CASE queue = <<>>
      BY <2>1, <3>1, <3>2
    <3>3. CASE queue # <<>>
      BY <1>1, <2>1, <2>2, <3>3
    <3> QED BY <3>2, <3>3
  <2>4. timers' \in Timers
    BY <1>1, <2>1 DEF Timers
  <2>5. ASSUME NEW h \in Handlers
        PROVE  Count(queue', h) = Count(queue, h) + (IF p = h THEN 1 ELSE 0)
    <3>1. CountIn(Append(queue, p), {h}) = CountIn(queue, {h}) + (IF p \in {h} THEN 1 ELSE 0)
      BY <1>1, CountAppend
    <3>2. Count(queue', h) = CountIn(Append(queue, p), {h}) /\ Count(queue, h) = CountIn(queue, {h})
      BY <2>1, CountOne
    <3> QED BY <3>1, <3>2
  <2>6. \A h \in Handlers : owed'[h] - Count(queue', h)
                                      = owed[h] - Count(queue, h) - (IF p = h THEN 1 ELSE 0)
    BY <1>5, <2>1, <2>5
  <2> QED BY <1>1, <1>4, <2>1, <2>2, <2>3, <2>4, <2>6
<1>7. CASE ~CanSend
  <2>1. owed' = Called(<<p>>) /\ queue' = queue /\ writing' = writing /\ timers' = timers
    BY <1>4, <1>7 DEF RunWrite
  <2>2. /\ owed' \in [Handlers -> Int]
        /\ \A h \in Handlers : owed'[h] = owed[h] - (IF p = h THEN 1 ELSE 0)
    BY <1>1, <2>1, HandlerCalled
  <2>3. \A h \in Handlers : owed'[h] - Count(queue', h)
                                      = owed[h] - Count(queue, h) - (IF p = h THEN 1 ELSE 0)
    BY <1>5, <2>1, <2>2
  <2> QED BY <1>1, <1>4, <2>1, <2>2, <2>3
<1> QED BY <1>6, <1>7

-----------------------------------------------------------------------------
(* Type correctness, action by action *)

LEMMA SessionTypes ==
    ASSUME tasks \in Seq(Tasks), NEW fl \in Flags, Session(fl)
    PROVE  /\ stage' = "session" /\ reader' = TRUE /\ flags' \in Flags /\ tasks' \in Seq(Tasks)
           /\ tasks' = Append(tasks, [do |-> "write", packet |-> "connect"])
<1>1. /\ stage' = "session" /\ reader' = TRUE /\ flags' = [fl EXCEPT !.shutdown = FALSE]
      /\ tasks' = Append(tasks, [do |-> "write", packet |-> "connect"])
  BY DEF Session, Post
<1>2. flags' \in Flags
  BY <1>1 DEF Flags
<1>3. [do |-> "write", packet |-> "connect"] \in Tasks
  BY TaskTypes DEF Packets
<1>4. tasks' \in Seq(Tasks)
  BY <1>1, <1>3, AppendProperties
<1> QED BY <1>1, <1>2, <1>4

LEMMA ConnectingTypes ==
    ASSUME LifetimeTypes, Connect \/ TcpConnected \/ Handshaken \/ NotConnected
    PROVE  LifetimeTypes'
<1> USE DEF LifetimeTypes
<1>1. CASE Connect
  <2>1. owed' \in [Handlers -> Int]
    BY <1>1, HandlersGiven DEF Connect, Handlers
  <2>2. /\ conn' \in Nat /\ stage' \in Stages /\ told' \in Seq({"close", "error"})
        /\ inbox' \in Seq(Inbound) /\ unanswered' \in 0..MaxPings
    BY <1>1, LifetimeAssumption DEF Connect, Stages
  <2> QED BY <1>1, <2>1, <2>2 DEF Connect
<1>2. CASE TcpConnected
  <2>1. timers' \in Timers
    BY <1>2 DEF TcpConnected, Timers
  <2>2. peer' \in Peers
    BY <1>2 DEF TcpConnected, Peers
  <2>3. [flags EXCEPT !.connected = TRUE] \in Flags
    BY DEF Flags
  <2>4. flags' \in Flags /\ reader' \in BOOLEAN /\ tasks' \in Seq(Tasks) /\ stage' \in Stages
    <3>1. CASE Layered
      BY <1>2, <2>3, <3>1 DEF TcpConnected, Stages
    <3>2. CASE ~Layered
      <4>1. Session([flags EXCEPT !.connected = TRUE])
        BY <1>2, <3>2 DEF TcpConnected
      <4> QED BY <2>3, <4>1, SessionTypes DEF Stages
    <3> QED BY <3>1, <3>2
  <2> QED BY <1>2, <2>1, <2>2, <2>4 DEF TcpConnected
<1>3. CASE Handshaken
  <2>1. Session(flags)
    BY <1>3 DEF Handshaken
  <2>2. flags' \in Flags /\ reader' \in BOOLEAN /\ tasks' \in Seq(Tasks) /\ stage' \in Stages
    BY <2>1, SessionTypes DEF Stages
  <2> QED BY <1>3, <2>2 DEF Handshaken
<1>4. CASE NotConnected
  <2>1. owed' \in [Handlers -> Int]
    BY <1>4, HandlerCalled DEF NotConnected
  <2>2. stage' \in Stages
    BY <1>4 DEF NotConnected, Stages
  <2> QED BY <1>4, <2>1, <2>2 DEF NotConnected
<1> QED BY <1>1, <1>2, <1>3, <1>4

LEMMA AskingTypes ==
    ASSUME LifetimeTypes,
           Publish \/ Disconnect("timed") \/ Disconnect("untimed") \/ ForceDisconnect
    PROVE  LifetimeTypes'
<1> USE DEF LifetimeTypes
<1>0. calls + 1 \in Nat
  OBVIOUS
<1>1. CASE Publish
  <2>1. owed' \in [Handlers -> Int]
    BY <1>1, HandlersGiven DEF Publish, Handlers
  <2>2. [do |-> "write", packet |-> "publish"] \in Tasks
    BY TaskTypes DEF Packets
  <2>3. tasks' \in Seq(Tasks)
    BY <1>1, <2>2, AppendProperties DEF Publish, Post
  <2> QED BY <1>0, <1>1, <2>1, <2>3 DEF Publish
<1>2. ASSUME NEW how \in {"timed", "untimed"}, Disconnect(how) PROVE LifetimeTypes'
  <2>1. owed' \in [Handlers -> Int]
    BY <1>2, HandlersGiven DEF Disconnect, Handlers
  <2>2. [do |-> "write", packet |-> "disconnect"] \in Tasks
    BY TaskTypes DEF Packets
  <2>3. tasks' \in Seq(Tasks)
    BY <1>2, <2>2, AppendProperties DEF Disconnect, Post
  <2>4. flags' \in Flags
    BY <1>2 DEF Disconnect, Flags
  <2>5. timers' \in Timers
    BY <1>2 DEF Disconnect, Timers
  <2> QED BY <1>0, <1>2, <2>1, <2>3, <2>4, <2>5 DEF Disconnect
<1>3. CASE ForceDisconnect
  <2>1. owed' \in [Handlers -> Int]
    BY <1>3, HandlersGiven DEF ForceDisconnect, Handlers
  <2>2. [do |-> "force", then |-> "force"] \in Tasks
    BY TaskTypes
  <2>3. tasks' \in Seq(Tasks)
    BY <1>3, <2>2, AppendProperties DEF ForceDisconnect, Post
  <2>4. timers' \in Timers
    BY <1>3 DEF ForceDisconnect, Timers
  <2> QED BY <1>0, <1>3, <2>1, <2>3, <2>4 DEF ForceDisconnect
<1> QED BY <1>1, <1>2, <1>3

LEMMA TaskTail ==
    ASSUME LifetimeTypes, tasks # <<>>
    PROVE  Tail(tasks) \in Seq(Tasks) /\ Head(tasks) \in Tasks
<1>1. tasks \in Seq(Tasks)
  BY DEF LifetimeTypes
<1> QED BY <1>1, CountTail

LEMMA TimerTypes ==
    ASSUME LifetimeTypes,
           \/ RunWrite \/ RunPing \/ RunPong \/ RunPongCancelled
           \/ \E t \in DOMAIN timers : TimerExpires(t)
    PROVE  LifetimeTypes'
<1> USE DEF LifetimeTypes
<1>1. CASE RunWrite
  <2>1. /\ queue' \in Seq(Packets) /\ writing' \in 0..Len(queue') /\ timers' \in Timers
        /\ owed' \in [Handlers -> Int]
    BY <1>1, RunWriteEffect
  <2>2. tasks' \in Seq(Tasks)
    BY <1>1, TaskTail DEF RunWrite, Runs
  <2> QED BY <1>1, <2>1, <2>2 DEF RunWrite
<1>2. CASE RunPing
  <2>1. Tail(tasks) \in Seq(Tasks)
    BY <1>2, TaskTail DEF RunPing, Runs
  <2>2. [do |-> "write", packet |-> "pingreq"] \in Tasks
    BY TaskTypes DEF Packets
  <2>3. Append(Tail(tasks), [do |-> "write", packet |-> "pingreq"]) \in Seq(Tasks)
    BY <2>1, <2>2, AppendProperties
  <2>4. tasks' \in Seq(Tasks) /\ pongSet' \in BOOLEAN
    BY <1>2, <2>1, <2>3 DEF RunPing
  <2>5. unanswered' \in 0..MaxPings
    BY <1>2, LifetimeAssumption DEF RunPing
  <2>6. timers' \in Timers
    BY <1>2 DEF RunPing, Timers
  <2> QED BY <1>2, <2>4, <2>5, <2>6 DEF RunPing
<1>3. CASE RunPong
  <2>1. tasks' \in Seq(Tasks)
    BY <1>3, TaskTail DEF RunPong, Runs
  <2>2. /\ flags' \in Flags /\ timers' \in Timers /\ shutters' \in Seq(Waiting)
        /\ sock' \in {"open", "closing", "closed"} /\ closeOp' \in {"none", "pending", "done"}
        /\ told' \in Seq({"close", "error"}) /\ owed' \in [Handlers -> Int]
    BY <1>3, ShutdownEffect DEF RunPong, Waiting
  <2> QED BY <1>3, <2>1, <2>2 DEF RunPong
<1>4. CASE RunPongCancelled
  <2>1. tasks' \in Seq(Tasks)
    BY <1>4, TaskTail DEF RunPongCancelled, Runs
  <2> QED BY <1>4, <2>1 DEF RunPongCancelled
<1>5. ASSUME NEW t \in DOMAIN timers, TimerExpires(t) PROVE LifetimeTypes'
  <2>1. t \in Expired
    BY DEF Timers, Expired
  <2>2. [do |-> t] \in Tasks
    BY <2>1, TaskTypes
  <2>3. tasks' \in Seq(Tasks)
    BY <1>5, <2>2, AppendProperties DEF TimerExpires, Post
  <2>4. timers' \in Timers
    BY <1>5 DEF TimerExpires, Timers
  <2> QED BY <1>5, <2>3, <2>4 DEF TimerExpires
<1> QED BY <1>1, <1>2, <1>3, <1>4, <1>5

LEMMA EndingTypes ==
    ASSUME LifetimeTypes,
           RunForce \/ RunClose \/ RunShut \/ CloseAnswered \/ CloseFails \/ CloseDone \/ ReadFails
    PROVE  LifetimeTypes'
<1> USE DEF LifetimeTypes
<1>1. CASE RunForce
  <2>1. tasks' \in Seq(Tasks) /\ Head(tasks) \in Tasks /\ Head(tasks).do = "force"
    BY <1>1, TaskTail DEF RunForce, Runs
  <2>2. Head(tasks).then = "force"
    BY <2>1, TaskRun
  <2>3. Shutdown("force")
    BY <1>1, <2>2 DEF RunForce
  <2>4. /\ flags' \in Flags /\ timers' \in Timers /\ shutters' \in Seq(Waiting)
        /\ sock' \in {"open", "closing", "closed"} /\ closeOp' \in {"none", "pending", "done"}
        /\ told' \in Seq({"close", "error"}) /\ owed' \in [Handlers -> Int]
    BY <2>3, ShutdownEffect DEF Waiting
  <2> QED BY <1>1, <2>1, <2>4 DEF RunForce
<1>2. CASE RunClose
  <2>1. tasks' \in Seq(Tasks)
    BY <1>2, TaskTail DEF RunClose, Runs
  <2>2. timers' \in Timers
    BY <1>2 DEF RunClose, Timers
  <2>3. flags' \in Flags /\ sock' \in {"open", "closing", "closed"}
    BY <1>2 DEF RunClose, Flags
  <2> QED BY <1>2, <2>1, <2>2, <2>3 DEF RunClose
<1>3. CASE RunShut
  <2>1. tasks' \in Seq(Tasks)
    BY <1>3, TaskTail DEF RunShut, Runs
  <2>2. /\ flags' \in Flags /\ timers' \in Timers /\ shutters' = <<>> /\ sock' = "closed"
        /\ told' \in Seq({"close", "error"}) /\ owed' \in [Handlers -> Int]
    BY <1>3, RunShuttersEffect DEF RunShut
  <2> QED BY <1>3, <2>1, <2>2 DEF RunShut
<1>4. CASE CloseAnswered
  BY <1>4 DEF CloseAnswered
<1>5. CASE CloseFails
  BY <1>5 DEF CloseFails
<1>6. CASE CloseDone
  <2>1. [timers EXCEPT !["shut"] = FALSE] \in Timers
    BY DEF Timers
  <2>2. /\ flags' \in Flags /\ timers' \in Timers /\ shutters' = <<>> /\ sock' = "closed"
        /\ told' \in Seq({"close", "error"}) /\ owed' \in [Handlers -> Int]
    BY <1>6, <2>1, RunShuttersEffect DEF CloseDone
  <2> QED BY <1>6, <2>2 DEF CloseDone
<1>7. CASE ReadFails
  <2>1. CASE flags.connected /\ Shutdown("notice")
    <3>1. /\ flags' \in Flags /\ timers' \in Timers /\ shutters' \in Seq(Waiting)
          /\ sock' \in {"open", "closing", "closed"} /\ closeOp' \in {"none", "pending", "done"}
          /\ told' \in Seq({"close", "error"}) /\ owed' \in [Handlers -> Int]
      BY <2>1, ShutdownEffect DEF Waiting
    <3> QED BY <1>7, <3>1 DEF ReadFails
  <2>2. CASE /\ CallHandlers(<<"notice">>, flags, timers)
             /\ UNCHANGED <<shutters, sock, closeOp>>
    <3>1. <<"notice">> \in Seq(Waiting)
      BY DEF Waiting
    <3>2. /\ told' \in Seq({"close", "error"}) /\ flags' \in Flags /\ timers' \in Timers
          /\ owed' \in [Handlers -> Int]
      BY <2>2, <3>1, CallHandlersTypes
    <3> QED BY <1>7, <2>2, <3>2 DEF ReadFails
  <2> QED BY <1>7, <2>1, <2>2 DEF ReadFails
<1> QED BY <1>1, <1>2, <1>3, <1>4, <1>5, <1>6, <1>7

LEMMA InboxTail ==
    ASSUME LifetimeTypes, NEW packet, Reads(packet)
    PROVE  Tail(inbox) \in Seq(Inbound)
<1>1. inbox \in Seq(Inbound) /\ inbox # <<>>
  BY DEF LifetimeTypes, Reads
<1> QED BY <1>1, CountTail

LEMMA TransferTypes ==
    ASSUME LifetimeTypes,
           \/ WriteDone \/ WriteFails
           \/ ReadConnack \/ ReadPingresp \/ ReadDisconnect \/ ReadRefused
    PROVE  LifetimeTypes'
<1> USE DEF LifetimeTypes
<1>1. CASE WriteDone
  <2>1. /\ queue' \in Seq(Packets) /\ writing' \in 0..Len(queue') /\ timers' \in Timers
        /\ owed' \in [Handlers -> Int] /\ peer' \in Peers
    BY <1>1, WriteDoneEffect
  <2> QED BY <1>1, <2>1 DEF WriteDone
<1>2. CASE WriteFails
  <2>1. queue' = <<>> /\ writing' = 0 /\ owed' \in [Handlers -> Int]
    BY <1>2, WriteFailsEffect
  <2> QED BY <1>2, <2>1 DEF WriteFails
<1>3. CASE ReadConnack
  <2>1. inbox' \in Seq(Inbound)
    BY <1>3, InboxTail DEF ReadConnack
  <2>2. flags' \in Flags
    BY <1>3 DEF ReadConnack, Flags
  <2> QED BY <1>3, <2>1, <2>2 DEF ReadConnack
<1>4. CASE ReadPingresp
  <2>1. inbox' \in Seq(Inbound)
    BY <1>4, InboxTail DEF ReadPingresp
  <2>2. timers' \in Timers
    BY <1>4 DEF ReadPingresp, Timers
  <2>3. unanswered' \in 0..MaxPings
    <3>1. unanswered' = IF unanswered > 0 THEN unanswered - 1 ELSE 0
      BY <1>4 DEF ReadPingresp
    <3> QED BY <3>1, LifetimeAssumption
  <2>4. [do |-> "pong cancelled"] \in Tasks
    BY TaskTypes DEF Expired
  <2>5. tasks' \in Seq(Tasks)
    BY <1>4, <2>4, AppendProperties DEF ReadPingresp
  <2> QED BY <1>4, <2>1, <2>2, <2>3, <2>5 DEF ReadPingresp
<1>5. CASE ReadDisconnect
  <2>1. inbox' \in Seq(Inbound)
    BY <1>5, InboxTail DEF ReadDisconnect
  <2>2. /\ flags' \in Flags /\ timers' \in Timers /\ shutters' \in Seq(Waiting)
        /\ sock' \in {"open", "closing", "closed"} /\ closeOp' \in {"none", "pending", "done"}
        /\ told' \in Seq({"close", "error"}) /\ owed' \in [Handlers -> Int]
    BY <1>5, ShutdownEffect DEF ReadDisconnect, Waiting
  <2> QED BY <1>5, <2>1, <2>2 DEF ReadDisconnect
<1>6. CASE ReadRefused
  <2>1. inbox' \in Seq(Inbound)
    BY <1>6, InboxTail DEF ReadRefused
  <2>2. timers' \in Timers
    BY <1>6 DEF ReadRefused, Timers
  <2>3. told' \in Seq({"close", "error"})
    BY <1>6, AppendProperties DEF ReadRefused
  <2> QED BY <1>6, <2>1, <2>2, <2>3 DEF ReadRefused
<1> QED BY <1>1, <1>2, <1>3, <1>4, <1>5, <1>6

LEMMA PeerTypes ==
    ASSUME LifetimeTypes, PeerActs
    PROVE  LifetimeTypes'
<1> USE DEF LifetimeTypes
<1>1. ASSUME NEW p \in Peers, NEW packets \in Seq(Inbound), Peer(p, packets) PROVE LifetimeTypes'
  <2>1. inbox' \in Seq(Inbound)
    BY <1>1, ConcatProperties DEF Peer
  <2> QED BY <1>1, <2>1 DEF Peer
<1>2. /\ <<>> \in Seq(Inbound) /\ <<"connack">> \in Seq(Inbound) /\ <<"pingresp">> \in Seq(Inbound)
      /\ <<"malformed">> \in Seq(Inbound) /\ <<"disconnect">> \in Seq(Inbound)
  BY DEF Inbound
<1>3. [peer EXCEPT !.connack = FALSE] \in Peers
  BY DEF Peers
<1>4. ASSUME peer.pongs > 0 PROVE [peer EXCEPT !.pongs = @ - 1] \in Peers
  <2>1. peer.pongs \in Nat
    BY DEF Peers
  <2>2. PICK n \in Nat : n = peer.pongs - 1
    BY <1>4, <2>1
  <2>3. [peer EXCEPT !.pongs = n] \in Peers
    BY DEF Peers
  <2> QED BY <2>2, <2>3
<1>5. NoPeer \in Peers
  BY DEF Peers, NoPeer
<1>6. [NoPeer EXCEPT !.up = TRUE] \in Peers
  BY <1>5 DEF Peers
<1> QED BY <1>1, <1>2, <1>3, <1>4, <1>5, <1>6 DEF PeerActs

-----------------------------------------------------------------------------
LEMMA TypesKept == ASSUME LifetimeTypes, [Next]_vars PROVE LifetimeTypes'
<1>1. CASE UNCHANGED vars
  BY <1>1 DEF LifetimeTypes, vars
<1>2. CASE Next
  BY <1>2, ConnectingTypes, AskingTypes, TimerTypes, EndingTypes, TransferTypes, PeerTypes
     DEF Next, RunTask, Read
<1> QED BY <1>1, <1>2

-----------------------------------------------------------------------------
(* The notice of the end *)

LEMMA NoticeUndisturbed ==
    ASSUME OneNotice, UNCHANGED <<told, reader, stage>>, NoticeWaits' <=> NoticeWaits
    PROVE  OneNotice'
BY DEF OneNotice

LEMMA NoticeKeptByConnecting ==
    ASSUME LifetimeTypes, OneNotice, Connect \/ TcpConnected \/ Handshaken \/ NotConnected
    PROVE  OneNotice'
<1>0. NoticeWaits' <=> NoticeWaits
  BY DEF NoticeWaits, Connect, TcpConnected, Handshaken, NotConnected
<1>1. CASE Connect
  <2>1. ~reader /\ ~NoticeWaits
    BY <1>1 DEF Connect, OneNotice
  <2>2. told' = <<>> /\ stage' = "connecting" /\ reader' = reader /\ Len(told') = 0
    BY <1>1 DEF Connect
  <2> QED BY <1>0, <2>1, <2>2 DEF OneNotice
<1>2. ASSUME NEW fl, Session(fl), stage \in {"connecting", "handshake"}, told' = told
      PROVE  OneNotice'
  <2>1. ~reader /\ ~NoticeWaits /\ told = <<>>
    BY <1>2 DEF OneNotice
  <2>2. stage' = "session" /\ reader' = TRUE
    BY <1>2 DEF Session
  <2>3. Len(told) <= 1
    BY DEF OneNotice
  <2> QED BY <1>0, <1>2, <2>1, <2>2, <2>3 DEF OneNotice
<1>3. CASE TcpConnected
  <2>1. CASE Layered
    BY <1>0, <1>3, <2>1 DEF TcpConnected, OneNotice
  <2>2. CASE ~Layered
    BY <1>2, <1>3, <2>2 DEF TcpConnected
  <2> QED BY <2>1, <2>2
<1>4. CASE Handshaken
  BY <1>2, <1>4 DEF Handshaken
<1>5. CASE NotConnected
  BY <1>0, <1>5 DEF NotConnected, OneNotice
<1> QED BY <1>1, <1>3, <1>4, <1>5

LEMMA NoticeKeptByClosing ==
    ASSUME LifetimeTypes, OneNotice, NEW tm \in Timers, RunShutters(tm), UNCHANGED <<stage, reader>>
    PROVE  OneNotice'
<1>1. /\ told' \in Seq({"close", "error"})
      /\ NoticeWaits => Len(told') = Len(told) + 1
      /\ ~NoticeWaits => told' = told
      /\ ~NoticeWaits'
  BY RunShuttersEffect
<1>2. told \in Seq({"close", "error"})
  BY DEF LifetimeTypes
<1>3. CASE NoticeWaits
  <2>1. told = <<>> /\ ~reader /\ stage = "session"
    BY <1>3 DEF OneNotice
  <2>2. Len(told') = 1
    BY <1>1, <1>3, <2>1
  <2>3. told' # <<>>
    BY <2>2
  <2> QED BY <1>1, <2>1, <2>2, <2>3 DEF OneNotice
<1>4. CASE ~NoticeWaits
  BY <1>1, <1>4 DEF OneNotice
<1> QED BY <1>3, <1>4

LEMMA NoticeKeptByFailing ==
    ASSUME LifetimeTypes, OneNotice, ReadFails
    PROVE  OneNotice'
<1>1. /\ reader /\ ~reader' /\ stage' = stage
      /\ told = <<>> /\ ~NoticeWaits /\ stage = "session"
  BY DEF ReadFails, OneNotice
<1>2. \/ told' = told /\ NoticeWaits'
      \/ Len(told') = Len(told) + 1 /\ (NoticeWaits' <=> NoticeWaits)
  <2>1. CASE flags.connected /\ Shutdown("notice")
    BY <2>1, ShutdownEffect DEF Waiting
  <2>2. CASE /\ CallHandlers(<<"notice">>, flags, timers)
             /\ UNCHANGED <<shutters, sock, closeOp>>
    <3>1. <<"notice">> \in Seq(Waiting) /\ 1 \in DOMAIN <<"notice">> /\ <<"notice">>[1] = "notice"
      BY DEF Waiting
    <3>2. told \in Seq({"close", "error"})
      BY DEF LifetimeTypes
    <3>3. Len(told') = Len(told) + 1
      BY <2>2, <3>1, <3>2, NoticeCalled
    <3> QED BY <2>2, <3>3 DEF NoticeWaits
  <2> QED BY <2>1, <2>2 DEF ReadFails
<1>3. CASE told' = told /\ NoticeWaits'
  <2>1. Len(told') <= 1
    BY <1>3 DEF OneNotice
  <2> QED BY <1>1, <1>3, <2>1 DEF OneNotice
<1>4. CASE Len(told') = Len(told) + 1 /\ (NoticeWaits' <=> NoticeWaits)
  <2>1. Len(told') = 1
    BY <1>1, <1>4
  <2>2. told' # <<>>
    BY <2>1
  <2> QED BY <1>1, <1>4, <2>1, <2>2 DEF OneNotice
<1> QED BY <1>2, <1>3, <1>4

LEMMA NoticeKept == ASSUME LifetimeTypes, OneNotice, [Next]_vars PROVE OneNotice'
<1>1. CASE UNCHANGED vars
  BY <1>1 DEF OneNotice, NoticeWaits, vars
<1>2. CASE Connect \/ TcpConnected \/ Handshaken \/ NotConnected
  BY <1>2, NoticeKeptByConnecting
<1>3. ASSUME NEW f \in {"none", "force"}, Shutdown(f), UNCHANGED <<reader, stage>>
      PROVE  OneNotice'
  <2>1. f \in Waiting /\ f # "notice"
    BY DEF Waiting
  <2>2. told' = told /\ (NoticeWaits' <=> NoticeWaits)
    BY <1>3, <2>1, ShutdownEffect
  <2> QED BY <1>3, <2>2, NoticeUndisturbed
<1>4. CASE RunPong \/ ReadDisconnect
  BY <1>3, <1>4 DEF RunPong, ReadDisconnect
<1>5. CASE RunForce
  <2>1. Head(tasks) \in Tasks /\ Head(tasks).do = "force"
    BY <1>5, TaskTail DEF RunForce, Runs
  <2>2. Head(tasks).then = "force"
    BY <2>1, TaskRun
  <2> QED BY <1>3, <1>5, <2>2 DEF RunForce
<1>6. CASE RunShut
  <2>1. timers \in Timers
    BY DEF LifetimeTypes
  <2> QED BY <1>6, <2>1, NoticeKeptByClosing DEF RunShut
<1>7. CASE CloseDone
  <2>1. [timers EXCEPT !["shut"] = FALSE] \in Timers
    BY DEF LifetimeTypes, Timers
  <2> QED BY <1>7, <2>1, NoticeKeptByClosing DEF CloseDone
<1>8. CASE ReadFails
  BY <1>8, NoticeKeptByFailing
<1>9. CASE ReadRefused
  <2>1. /\ reader /\ ~reader' /\ stage' = stage
        /\ told = <<>> /\ ~NoticeWaits /\ stage = "session"
    BY <1>9 DEF ReadRefused, Reads, OneNotice
  <2>2. told' = <<"error">> /\ Len(told') = 1
    BY <1>9, <2>1 DEF ReadRefused
  <2>3. ~NoticeWaits'
    BY <1>9, <2>1 DEF ReadRefused, NoticeWaits
  <2> QED BY <2>1, <2>2, <2>3 DEF OneNotice
<1>10. CASE \/ Publish \/ Disconnect("timed") \/ Disconnect("untimed") \/ ForceDisconnect
            \/ \E t \in DOMAIN timers : TimerExpires(t)
  <2>1. UNCHANGED <<told, reader, stage, shutters>>
    BY <1>10 DEF Publish, Disconnect, ForceDisconnect, TimerExpires
  <2> QED BY <2>1, NoticeUndisturbed DEF NoticeWaits
<1>11. CASE RunWrite \/ RunPing \/ RunPongCancelled \/ RunClose
  <2>1. UNCHANGED <<told, reader, stage, shutters>>
    BY <1>11 DEF RunWrite, RunPing, RunPongCancelled, RunClose
  <2> QED BY <2>1, NoticeUndisturbed DEF NoticeWaits
<1>12. CASE WriteDone \/ WriteFails \/ CloseAnswered \/ CloseFails \/ ReadConnack \/ ReadPingresp
  <2>1. UNCHANGED <<told, reader, stage, shutters>>
    BY <1>12 DEF WriteDone, WriteFails, CloseAnswered, CloseFails, ReadConnack, ReadPingresp
  <2> QED BY <2>1, NoticeUndisturbed DEF NoticeWaits
<1>13. CASE PeerActs
  <2>1. UNCHANGED <<told, reader, stage, shutters>>
    BY <1>13 DEF PeerActs, Peer
  <2> QED BY <2>1, NoticeUndisturbed DEF NoticeWaits
<1>14. CASE Next
  BY <1>2, <1>4, <1>5, <1>6, <1>7, <1>8, <1>9, <1>10, <1>11, <1>12, <1>13, <1>14
     DEF Next, RunTask, Read
<1> QED BY <1>1, <1>14

-----------------------------------------------------------------------------
(* The completion handlers *)

LEMMA HeldNumbers ==
    ASSUME LifetimeTypes, NEW h \in Handlers
    PROVE  /\ owed[h] \in Int /\ Attempt(h) \in Nat
           /\ CountIn(tasks, TasksWith(h)) \in Nat /\ Count(queue, h) \in Nat /\ Count(shutters, h) \in Nat
<1>1. tasks \in Seq(Tasks) /\ queue \in Seq(Packets) /\ shutters \in Seq(Waiting)
      /\ owed \in [Handlers -> Int]
  BY DEF LifetimeTypes
<1>2. CountIn(tasks, TasksWith(h)) \in Nat
  BY <1>1, CountedPositions
<1>3. Count(queue, h) \in Nat /\ Count(shutters, h) \in Nat
  BY <1>1, HandlersCalled
<1> QED BY <1>1, <1>2, <1>3 DEF Attempt

LEMMA HeldUndisturbed ==
    ASSUME HandlersHeld, UNCHANGED <<owed, queue, shutters, stage>>,
           \A h \in Handlers : CountIn(tasks', TasksWith(h)) = CountIn(tasks, TasksWith(h))
    PROVE  HandlersHeld'
BY DEF HandlersHeld, Attempt

LEMMA HeldByPosted ==
    ASSUME LifetimeTypes, HandlersHeld, UNCHANGED <<queue, shutters, stage>>,
           NEW e \in Tasks, tasks' = Append(tasks, e),
           \A h \in Handlers : owed'[h] = owed[h] + Holds(e, h)
    PROVE  HandlersHeld'
<1>1. tasks \in Seq(Tasks)
  BY DEF LifetimeTypes
<1>2. \A h \in Handlers :
          CountIn(tasks', TasksWith(h)) = CountIn(tasks, TasksWith(h)) + Holds(e, h)
  BY <1>1, TaskPosted
<1>3. ASSUME NEW h \in Handlers
      PROVE  owed'[h] = CountIn(tasks', TasksWith(h)) + Count(queue', h) + Count(shutters', h) + Attempt(h)'
  <2>1. owed[h] = CountIn(tasks, TasksWith(h)) + Count(queue, h) + Count(shutters, h) + Attempt(h)
    BY DEF HandlersHeld
  <2>2. Count(queue', h) = Count(queue, h) /\ Count(shutters', h) = Count(shutters, h)
        /\ Attempt(h)' = Attempt(h)
    BY DEF Attempt
  <2>3. Holds(e, h) \in Nat
    BY DEF Holds
  <2> QED BY <1>2, <2>1, <2>2, <2>3, HeldNumbers
<1> QED BY <1>3 DEF HandlersHeld

LEMMA HeldByConnecting ==
    ASSUME LifetimeTypes, OneNotice, HandlersHeld, Connect \/ TcpConnected \/ Handshaken \/ NotConnected
    PROVE  HandlersHeld'
<1>0. UNCHANGED <<queue, shutters>>
  BY DEF Connect, TcpConnected, Handshaken, NotConnected
<1> DEFINE connect == [do |-> "write", packet |-> "connect"]
<1>1. connect \in Tasks /\ \A h \in Handlers : Holds(connect, h) = IF "connect" = h THEN 1 ELSE 0
  BY TaskTypes, TaskHolds DEF Packets
<1>2. owed \in [Handlers -> Int] /\ tasks \in Seq(Tasks)
  BY DEF LifetimeTypes
<1> HIDE DEF connect
<1>3. SUFFICES ASSUME NEW h \in Handlers
      PROVE  owed'[h] = CountIn(tasks', TasksWith(h)) + Count(queue', h) + Count(shutters', h) + Attempt(h)'
  BY DEF HandlersHeld
<1>4. owed[h] = CountIn(tasks, TasksWith(h)) + Count(queue, h) + Count(shutters, h) + Attempt(h)
  BY DEF HandlersHeld
<1>5. Count(queue', h) = Count(queue, h) /\ Count(shutters', h) = Count(shutters, h)
  BY <1>0
<1>6. CASE Connect
  <2>1. tasks' = tasks /\ owed'[h] = owed[h] + (IF h = "connect" THEN 1 ELSE 0)
    BY <1>2, <1>6, HandlersGiven DEF Connect, Handlers
  <2>2. stage \notin {"connecting", "handshake"}
    BY <1>6 DEF Connect, OneNotice
  <2>3. Attempt(h) = 0
    BY <2>2 DEF Attempt
  <2>4. Attempt(h)' = IF h = "connect" THEN 1 ELSE 0
    BY <1>6 DEF Connect, Attempt
  <2> QED BY <1>4, <1>5, <2>1, <2>3, <2>4, HeldNumbers
<1>7. ASSUME NEW fl, Session(fl), stage \in {"connecting", "handshake"}, owed' = owed
      PROVE  owed'[h] = CountIn(tasks', TasksWith(h)) + Count(queue', h) + Count(shutters', h) + Attempt(h)'
  <2>1. stage' = "session" /\ tasks' = Append(tasks, connect)
    BY <1>7 DEF Session, Post, connect
  <2>2. CountIn(tasks', TasksWith(h)) = CountIn(tasks, TasksWith(h)) + Holds(connect, h)
    BY <1>1, <1>2, <2>1, TaskPosted
  <2>3. Attempt(h)' = 0
    BY <2>1 DEF Attempt
  <2>4. Attempt(h) = IF "connect" = h THEN 1 ELSE 0
    BY <1>7 DEF Attempt
  <2> QED BY <1>1, <1>4, <1>5, <1>7, <2>2, <2>3, <2>4, HeldNumbers
<1>8. CASE TcpConnected
  <2>1. CASE Layered
    <3>1. tasks' = tasks /\ owed' = owed /\ stage = "connecting" /\ stage' = "handshake"
      BY <1>8, <2>1 DEF TcpConnected
    <3>2. Attempt(h)' = Attempt(h)
      BY <3>1 DEF Attempt
    <3> QED BY <1>4, <1>5, <3>1, <3>2
  <2>2. CASE ~Layered
    BY <1>7, <1>8, <2>2 DEF TcpConnected
  <2> QED BY <2>1, <2>2
<1>9. CASE Handshaken
  BY <1>7, <1>9 DEF Handshaken
<1>10. CASE NotConnected
  <2>1. owed' = Called(<<"connect">>) /\ tasks' = tasks
    BY <1>10 DEF NotConnected
  <2>2. owed'[h] = owed[h] - (IF "connect" = h THEN 1 ELSE 0)
    BY <1>2, <2>1, HandlerCalled
  <2>3. Attempt(h) = IF "connect" = h THEN 1 ELSE 0
    BY <1>10 DEF NotConnected, Attempt
  <2>4. Attempt(h)' = 0
    BY <1>10 DEF NotConnected, Attempt
  <2> QED BY <1>4, <1>5, <2>1, <2>2, <2>3, <2>4, HeldNumbers
<1> QED BY <1>6, <1>8, <1>9, <1>10

LEMMA HeldByAsking ==
    ASSUME LifetimeTypes, HandlersHeld,
           Publish \/ Disconnect("timed") \/ Disconnect("untimed") \/ ForceDisconnect
    PROVE  HandlersHeld'
<1>1. owed \in [Handlers -> Int]
  BY DEF LifetimeTypes
<1>2. CASE Publish
  <2> DEFINE e == [do |-> "write", packet |-> "publish"]
  <2>1. e \in Tasks /\ \A h \in Handlers : Holds(e, h) = IF "publish" = h THEN 1 ELSE 0
    BY TaskTypes, TaskHolds DEF Packets
  <2>2. tasks' = Append(tasks, e) /\ UNCHANGED <<queue, shutters, stage>>
    BY <1>2 DEF Publish, Post
  <2>3. \A h \in Handlers : owed'[h] = owed[h] + (IF h = "publish" THEN 1 ELSE 0)
    BY <1>1, <1>2, HandlersGiven DEF Publish, Handlers
  <2> HIDE DEF e
  <2> QED BY <2>1, <2>2, <2>3, HeldByPosted
<1>3. ASSUME NEW how \in {"timed", "untimed"}, Disconnect(how) PROVE HandlersHeld'
  <2> DEFINE e == [do |-> "write", packet |-> "disconnect"]
  <2>1. e \in Tasks /\ \A h \in Handlers : Holds(e, h) = IF "disconnect" = h THEN 1 ELSE 0
    BY TaskTypes, TaskHolds DEF Packets
  <2>2. tasks' = Append(tasks, e) /\ UNCHANGED <<queue, shutters, stage>>
    BY <1>3 DEF Disconnect, Post
  <2>3. \A h \in Handlers : owed'[h] = owed[h] + (IF h = "disconnect" THEN 1 ELSE 0)
    BY <1>1, <1>3, HandlersGiven DEF Disconnect, Handlers
  <2> HIDE DEF e
  <2> QED BY <2>1, <2>2, <2>3, HeldByPosted
<1>4. CASE ForceDisconnect
  <2> DEFINE e == [do |-> "force", then |-> "force"]
  <2>1. e \in Tasks /\ \A h \in Handlers : Holds(e, h) = IF h = "force" THEN 1 ELSE 0
    BY TaskTypes, TaskHolds
  <2>2. tasks' = Append(tasks, e) /\ UNCHANGED <<queue, shutters, stage>>
    BY <1>4 DEF ForceDisconnect, Post
  <2>3. \A h \in Handlers : owed'[h] = owed[h] + (IF h = "force" THEN 1 ELSE 0)
    BY <1>1, <1>4, HandlersGiven DEF ForceDisconnect, Handlers
  <2> HIDE DEF e
  <2> QED BY <2>1, <2>2, <2>3, HeldByPosted
<1> QED BY <1>2, <1>3, <1>4

LEMMA Balance ==
    ASSUME NEW o \in Int, NEW oo \in Int, NEW q \in Nat, NEW qq \in Nat, NEW s \in Nat, NEW ss \in Nat,
           NEW t \in Nat, NEW tt \in Nat, NEW a \in Nat, NEW w \in Nat,
           o = t + q + s + a, t = tt + w, oo - qq - ss = o - q - s - w
    PROVE  oo = tt + qq + ss + a
<1>1. oo = o - q - s - w + qq + ss
  OBVIOUS
<1>2. o - q - s - w = tt + a
  OBVIOUS
<1> QED BY <1>1, <1>2

(* Head(tasks) is run: what it holds goes to the queue or to the handlers that
   wait for the socket, or is called. *)
HeadGoesOn ==
    \A h \in Handlers : /\ owed'[h] \in Int /\ Count(queue', h) \in Nat /\ Count(shutters', h) \in Nat
                        /\ owed'[h] - Count(queue', h) - Count(shutters', h)
                             = owed[h] - Count(queue, h) - Count(shutters, h) - Holds(Head(tasks), h)

LEMMA HeldByRunning ==
    ASSUME LifetimeTypes, HandlersHeld, tasks # <<>>, tasks' = Tail(tasks), stage' = stage, HeadGoesOn
    PROVE  HandlersHeld'
<1>1. tasks \in Seq(Tasks)
  BY DEF LifetimeTypes
<1>2. /\ tasks' \in Seq(Tasks)
      /\ \A h \in Handlers :
           CountIn(tasks, TasksWith(h)) = CountIn(tasks', TasksWith(h)) + Holds(Head(tasks), h)
  BY <1>1, TaskTaken
<1>3. ASSUME NEW h \in Handlers
      PROVE  owed'[h] = CountIn(tasks', TasksWith(h)) + Count(queue', h) + Count(shutters', h) + Attempt(h)'
  <2>1. owed[h] = CountIn(tasks, TasksWith(h)) + Count(queue, h) + Count(shutters, h) + Attempt(h)
    BY DEF HandlersHeld
  <2>2. Attempt(h)' = Attempt(h)
    BY DEF Attempt
  <2>3. Holds(Head(tasks), h) \in Nat
    BY DEF Holds
  <2>4. CountIn(tasks', TasksWith(h)) \in Nat
    BY <1>2, CountedPositions
  <2>5. /\ owed'[h] \in Int /\ Count(queue', h) \in Nat /\ Count(shutters', h) \in Nat
        /\ owed'[h] - Count(queue', h) - Count(shutters', h)
             = owed[h] - Count(queue, h) - Count(shutters, h) - Holds(Head(tasks), h)
    BY DEF HeadGoesOn
  <2>6. CountIn(tasks, TasksWith(h)) = CountIn(tasks', TasksWith(h)) + Holds(Head(tasks), h)
    BY <1>2
  <2>7. /\ owed[h] \in Int /\ Attempt(h) \in Nat
        /\ CountIn(tasks, TasksWith(h)) \in Nat /\ Count(queue, h) \in Nat /\ Count(shutters, h) \in Nat
    BY HeldNumbers
  <2> DEFINE o == owed[h]
             q == Count(queue, h)
             s == Count(shutters, h)
             t == CountIn(tasks, TasksWith(h))
             a == Attempt(h)
             w == Holds(Head(tasks), h)
             oo == owed'[h]
             qq == Count(queue', h)
             ss == Count(shutters', h)
             tt == CountIn(tasks', TasksWith(h))
  <2>8. /\ o = t + q + s + a /\ t = tt + w /\ oo - qq - ss = o - q - s - w
        /\ o \in Int /\ oo \in Int
        /\ q \in Nat /\ qq \in Nat /\ s \in Nat /\ ss \in Nat
        /\ t \in Nat /\ tt \in Nat /\ a \in Nat /\ w \in Nat
    BY <2>1, <2>3, <2>4, <2>5, <2>6, <2>7
  <2> HIDE DEF o, q, s, t, a, w, oo, qq, ss, tt
  <2>9. oo = tt + qq + ss + a
    BY <2>8, Balance
  <2>10. owed'[h] = CountIn(tasks', TasksWith(h)) + Count(queue', h) + Count(shutters', h) + Attempt(h)
    BY <2>9 DEF oo, qq, ss, tt, a
  <2> QED BY <2>2, <2>10
<1> QED BY <1>3 DEF HandlersHeld

LEMMA HeldByTasks ==
    ASSUME LifetimeTypes, LifetimeTypes', HandlersHeld, RunTask
    PROVE  HandlersHeld'
<1>1. tasks # <<>> /\ tasks \in Seq(Tasks) /\ stage' = stage /\ Head(tasks) \in Tasks
  <2>1. tasks # <<>> /\ stage' = stage
    BY DEF RunTask, RunWrite, RunPing, RunPong, RunPongCancelled, RunForce, RunClose, RunShut, Runs
  <2> QED BY <2>1, TaskTail DEF LifetimeTypes
<1>2. \A h \in Handlers : /\ owed[h] \in Int /\ Count(queue, h) \in Nat /\ Count(shutters, h) \in Nat
                          /\ owed'[h] \in Int /\ Count(queue', h) \in Nat /\ Count(shutters', h) \in Nat
  <2>1. /\ queue \in Seq(Packets) /\ shutters \in Seq(Waiting) /\ owed \in [Handlers -> Int]
        /\ queue' \in Seq(Packets) /\ shutters' \in Seq(Waiting) /\ owed' \in [Handlers -> Int]
    BY DEF LifetimeTypes
  <2> QED BY <2>1, HandlersCalled
<1>3. ASSUME Head(tasks).do \in Expired PROVE \A h \in Handlers : Holds(Head(tasks), h) = 0
  <2>1. PICK t \in Expired : Head(tasks) = [do |-> t]
    BY <1>1, <1>3, TaskRun
  <2> QED BY <2>1, TaskHolds
<1>4. CASE RunWrite
  <2>1. PICK p \in Packets :
             /\ Head(tasks) = [do |-> "write", packet |-> p]
             /\ \A h \in Handlers : owed'[h] - Count(queue', h)
                                      = owed[h] - Count(queue, h) - (IF p = h THEN 1 ELSE 0)
    BY <1>4, RunWriteEffect
  <2>2. \A h \in Handlers : Holds(Head(tasks), h) = IF p = h THEN 1 ELSE 0
    BY <2>1, TaskHolds
  <2>3. tasks' = Tail(tasks) /\ shutters' = shutters
    BY <1>4 DEF RunWrite
  <2>4. \A h \in Handlers : owed'[h] - Count(queue', h) - Count(shutters', h)
                                    = owed[h] - Count(queue, h) - Count(shutters, h) - Holds(Head(tasks), h)
    BY <1>2, <2>1, <2>2, <2>3
  <2> QED BY <1>1, <1>2, <2>3, <2>4, HeldByRunning DEF HeadGoesOn
<1>5. ASSUME NEW f \in Waiting, Shutdown(f), tasks' = Tail(tasks), queue' = queue,
             \A h \in Handlers : Holds(Head(tasks), h) = IF f = h THEN 1 ELSE 0
      PROVE  HandlersHeld'
  <2>1. \A h \in Handlers : owed'[h] - Count(shutters', h)
                                    = owed[h] - Count(shutters, h) - (IF f = h THEN 1 ELSE 0)
    BY <1>5, ShutdownEffect
  <2>2. ASSUME NEW h \in Handlers
        PROVE  owed'[h] - Count(queue', h) - Count(shutters', h)
                 = owed[h] - Count(queue, h) - Count(shutters, h) - Holds(Head(tasks), h)
    <3>1. Count(queue', h) = Count(queue, h) /\ Holds(Head(tasks), h) = IF f = h THEN 1 ELSE 0
      BY <1>5
    <3> QED BY <1>2, <2>1, <3>1
  <2> QED BY <1>1, <1>2, <1>5, <2>2, HeldByRunning DEF HeadGoesOn
<1>6. CASE RunPong
  <2>1. Head(tasks).do \in Expired
    BY <1>6 DEF RunPong, Runs, Expired
  <2>2. "none" \in Waiting /\ \A h \in Handlers : "none" # h
    BY DEF Waiting, Handlers
  <2> QED BY <1>3, <1>5, <1>6, <2>1, <2>2 DEF RunPong
<1>7. CASE RunForce
  <2>1. Head(tasks).do = "force"
    BY <1>7 DEF RunForce, Runs
  <2>2. Head(tasks).then = "force" /\ Head(tasks) = [do |-> "force", then |-> "force"]
    BY <1>1, <2>1, TaskRun
  <2>3. \A h \in Handlers : Holds(Head(tasks), h) = IF "force" = h THEN 1 ELSE 0
    BY <2>2, TaskHolds
  <2>4. "force" \in Waiting
    BY DEF Waiting
  <2> QED BY <1>5, <1>7, <2>2, <2>3, <2>4 DEF RunForce
<1>8. CASE RunShut
  <2>1. Head(tasks).do \in Expired
    BY <1>8 DEF RunShut, Runs, Expired
  <2>2. timers \in Timers
    BY DEF LifetimeTypes
  <2>3. /\ shutters' = <<>>
        /\ \A h \in Handlers : owed'[h] = owed[h] - Count(shutters, h)
    BY <1>8, <2>2, RunShuttersEffect DEF RunShut
  <2>4. \A h \in Handlers : Count(shutters', h) = 0
    BY <2>3, CountOne, CountEmpty
  <2>5. tasks' = Tail(tasks) /\ queue' = queue
    BY <1>8 DEF RunShut
  <2>6. \A h \in Handlers : owed'[h] - Count(queue', h) - Count(shutters', h)
                                    = owed[h] - Count(queue, h) - Count(shutters, h) - Holds(Head(tasks), h)
    BY <1>2, <1>3, <2>1, <2>3, <2>4, <2>5
  <2> QED BY <1>1, <1>2, <2>5, <2>6, HeldByRunning DEF HeadGoesOn
<1>9. CASE RunPongCancelled \/ RunClose
  <2>1. Head(tasks).do \in Expired
    BY <1>9 DEF RunPongCancelled, RunClose, Runs, Expired
  <2>2. tasks' = Tail(tasks) /\ UNCHANGED <<owed, queue, shutters>>
    BY <1>9 DEF RunPongCancelled, RunClose
  <2>3. \A h \in Handlers : owed'[h] - Count(queue', h) - Count(shutters', h)
                                    = owed[h] - Count(queue, h) - Count(shutters, h) - Holds(Head(tasks), h)
    BY <1>2, <1>3, <2>1, <2>2
  <2> QED BY <1>1, <1>2, <2>2, <2>3, HeldByRunning DEF HeadGoesOn
<1>10. CASE RunPing
  <2>1. Head(tasks).do \in Expired
    BY <1>10 DEF RunPing, Runs, Expired
  <2>2. UNCHANGED <<owed, queue, shutters>>
    BY <1>10 DEF RunPing
  <2> DEFINE rest == Tail(tasks)
             ping == [do |-> "write", packet |-> "pingreq"]
  <2>3. rest \in Seq(Tasks)
    BY <1>1, CountTail
  <2>4. ASSUME NEW h \in Handlers
        PROVE  CountIn(tasks, TasksWith(h)) = CountIn(rest, TasksWith(h))
    <3> DEFINE S == TasksWith(h)
    <3> HIDE DEF S
    <3>1. CountIn(tasks, S) = CountIn(rest, S) + (IF Head(tasks) \in S THEN 1 ELSE 0)
      BY <1>1, CountTail
    <3>2. Head(tasks) \notin S
      BY <1>3, <2>1 DEF Holds, S
    <3> HIDE DEF rest
    <3>3. CountIn(rest, S) \in Nat
      BY <2>3, CountedPositions
    <3> QED BY <3>1, <3>2, <3>3 DEF S
  <2>5. ASSUME NEW h \in Handlers
        PROVE  CountIn(Append(rest, ping), TasksWith(h)) = CountIn(rest, TasksWith(h))
    <3> DEFINE S == TasksWith(h)
    <3>1. ping \in Tasks /\ Holds(ping, h) = 0
      BY TaskTypes, TaskHolds DEF Packets, Handlers
    <3>2. ping \notin S
      BY <3>1 DEF Holds
    <3> HIDE DEF S, rest, ping
    <3>3. CountIn(Append(rest, ping), S) = CountIn(rest, S) + (IF ping \in S THEN 1 ELSE 0)
      BY <2>3, <3>1, CountAppend
    <3>4. CountIn(rest, S) \in Nat
      BY <2>3, CountedPositions
    <3> QED BY <3>2, <3>3, <3>4 DEF S
  <2>6. tasks' = rest \/ tasks' = Append(rest, ping)
    BY <1>10 DEF RunPing
  <2> HIDE DEF rest, ping
  <2>7. \A h \in Handlers : CountIn(tasks', TasksWith(h)) = CountIn(tasks, TasksWith(h))
    BY <2>4, <2>5, <2>6
  <2> QED BY <1>1, <2>2, <2>7, HeldUndisturbed
<1> QED BY <1>4, <1>6, <1>7, <1>8, <1>9, <1>10 DEF RunTask

(* A change of owed that the queue or the waiting handlers account for *)
LEMMA HeldBalanced ==
    ASSUME LifetimeTypes, LifetimeTypes', HandlersHeld, UNCHANGED <<tasks, stage>>,
           \A h \in Handlers : owed'[h] - Count(queue', h) - Count(shutters', h)
                                 = owed[h] - Count(queue, h) - Count(shutters, h)
    PROVE  HandlersHeld'
<1>1. ASSUME NEW h \in Handlers
      PROVE  owed'[h] = CountIn(tasks', TasksWith(h)) + Count(queue', h) + Count(shutters', h) + Attempt(h)'
  <2>1. owed[h] = CountIn(tasks, TasksWith(h)) + Count(queue, h) + Count(shutters, h) + Attempt(h)
    BY DEF HandlersHeld
  <2>2. Attempt(h)' = Attempt(h) /\ CountIn(tasks', TasksWith(h)) = CountIn(tasks, TasksWith(h))
    BY DEF Attempt
  <2>3. /\ queue' \in Seq(Packets) /\ shutters' \in Seq(Waiting) /\ owed' \in [Handlers -> Int]
        /\ queue \in Seq(Packets) /\ shutters \in Seq(Waiting) /\ owed \in [Handlers -> Int]
    BY DEF LifetimeTypes
  <2>4. Count(queue', h) \in Nat /\ Count(shutters', h) \in Nat /\ owed'[h] \in Int
    BY <2>3, HandlersCalled
  <2> QED BY <2>1, <2>2, <2>4, HeldNumbers
<1> QED BY <1>1 DEF HandlersHeld

LEMMA HeldByEnding ==
    ASSUME LifetimeTypes, LifetimeTypes', HandlersHeld,
           WriteDone \/ WriteFails \/ CloseDone \/ ReadDisconnect \/ ReadFails
    PROVE  HandlersHeld'
<1>1. UNCHANGED <<tasks, stage>>
  BY DEF WriteDone, WriteFails, CloseDone, ReadDisconnect, ReadFails
<1>2. \A h \in Handlers : owed[h] \in Int /\ Count(queue, h) \in Nat /\ Count(shutters, h) \in Nat
  BY HeldNumbers
<1>3. SUFFICES \A h \in Handlers : owed'[h] - Count(queue', h) - Count(shutters', h)
                                     = owed[h] - Count(queue, h) - Count(shutters, h)
  BY <1>1, HeldBalanced
<1>4. \A h \in Handlers : owed'[h] \in Int /\ Count(queue', h) \in Nat /\ Count(shutters', h) \in Nat
  <2>1. /\ queue' \in Seq(Packets) /\ shutters' \in Seq(Waiting) /\ owed' \in [Handlers -> Int]
        /\ owed \in [Handlers -> Int]
    BY DEF LifetimeTypes
  <2> QED BY <2>1, HandlersCalled
<1>5. CASE WriteDone \/ WriteFails
  <2>1. \A h \in Handlers : owed'[h] - Count(queue', h) = owed[h] - Count(queue, h)
    BY <1>5, WriteDoneEffect, WriteFailsEffect
  <2>2. shutters' = shutters
    BY <1>5 DEF WriteDone, WriteFails
  <2> QED BY <1>2, <1>4, <2>1, <2>2
<1>6. CASE CloseDone
  <2>1. [timers EXCEPT !["shut"] = FALSE] \in Timers
    BY DEF LifetimeTypes, Timers
  <2>2. /\ shutters' = <<>>
        /\ \A h \in Handlers : owed'[h] = owed[h] - Count(shutters, h)
    BY <1>6, <2>1, RunShuttersEffect DEF CloseDone
  <2>3. \A h \in Handlers : Count(shutters', h) = 0
    BY <2>2, CountOne, CountEmpty
  <2>4. queue' = queue
    BY <1>6 DEF CloseDone
  <2> QED BY <1>2, <1>4, <2>2, <2>3, <2>4
<1>7. ASSUME NEW f \in {"none", "notice"}, Shutdown(f), queue' = queue
      PROVE  \A h \in Handlers : owed'[h] - Count(queue', h) - Count(shutters', h)
                                     = owed[h] - Count(queue, h) - Count(shutters, h)
  <2>1. f \in Waiting /\ \A h \in Handlers : f # h
    BY DEF Waiting, Handlers
  <2>2. \A h \in Handlers : owed'[h] - Count(shutters', h)
                                    = owed[h] - Count(shutters, h) - (IF f = h THEN 1 ELSE 0)
    BY <1>7, <2>1, ShutdownEffect
  <2> QED BY <1>2, <1>4, <1>7, <2>1, <2>2
<1>8. CASE ReadDisconnect
  BY <1>7, <1>8 DEF ReadDisconnect
<1>9. CASE ReadFails
  <2>1. queue' = queue
    BY <1>9 DEF ReadFails
  <2>2. CASE flags.connected /\ Shutdown("notice")
    BY <1>7, <2>1, <2>2
  <2>3. CASE /\ CallHandlers(<<"notice">>, flags, timers)
             /\ UNCHANGED <<shutters, sock, closeOp>>
    <3>1. owed' = Called(<<"notice">>) /\ shutters' = shutters
      BY <2>3 DEF CallHandlers
    <3>2. owed \in [Handlers -> Int] /\ \A h \in Handlers : "notice" # h
      BY DEF LifetimeTypes, Handlers
    <3>3. \A h \in Handlers : owed'[h] = owed[h] - (IF "notice" = h THEN 1 ELSE 0)
      BY <3>1, <3>2, HandlerCalled
    <3> QED BY <1>2, <2>1, <3>1, <3>2, <3>3
  <2> QED BY <1>9, <2>2, <2>3 DEF ReadFails
<1> QED BY <1>5, <1>6, <1>8, <1>9

LEMMA HandlersHeldKept ==
    ASSUME LifetimeTypes, OneNotice, HandlersHeld, [Next]_vars
    PROVE  HandlersHeld'
<1>0. LifetimeTypes'
  BY TypesKept
<1>1. ASSUME UNCHANGED <<owed, queue, shutters, stage, tasks>> PROVE HandlersHeld'
  BY <1>1, HeldUndisturbed
<1>2. CASE UNCHANGED vars
  BY <1>1, <1>2 DEF vars
<1>3. ASSUME NEW t \in Expired, tasks' = Append(tasks, [do |-> t]),
             UNCHANGED <<owed, queue, shutters, stage>>
      PROVE  HandlersHeld'
  <2>1. [do |-> t] \in Tasks /\ \A h \in Handlers : Holds([do |-> t], h) = 0
    BY TaskTypes, TaskHolds
  <2>2. \A h \in Handlers : owed'[h] = owed[h] + Holds([do |-> t], h)
    BY <1>3, <2>1, HeldNumbers
  <2> QED BY <1>3, <2>1, <2>2, HeldByPosted
<1>4. ASSUME NEW t \in DOMAIN timers, TimerExpires(t) PROVE HandlersHeld'
  <2>1. t \in Expired
    BY DEF LifetimeTypes, Timers, Expired
  <2> QED BY <1>3, <1>4, <2>1 DEF TimerExpires, Post
<1>5. CASE ReadPingresp
  <2>1. UNCHANGED <<owed, queue, shutters, stage>>
        /\ tasks' = IF timers["pong"] THEN Append(tasks, [do |-> "pong cancelled"]) ELSE tasks
    BY <1>5 DEF ReadPingresp
  <2>2. "pong cancelled" \in Expired
    BY DEF Expired
  <2> QED BY <1>1, <1>3, <2>1, <2>2
<1>6. CASE \/ CloseAnswered \/ CloseFails \/ ReadConnack \/ ReadRefused \/ PeerActs
  BY <1>1, <1>6 DEF CloseAnswered, CloseFails, ReadConnack, ReadRefused, PeerActs, Peer
<1>7. CASE Next
  BY <1>0, <1>4, <1>5, <1>6, <1>7, HeldByConnecting, HeldByAsking, HeldByTasks, HeldByEnding
     DEF Next, Read
<1> QED BY <1>2, <1>7

-----------------------------------------------------------------------------
LEMMA IInvKept == Spec => []IInv
<1>1. Init => IInv
  <2> SUFFICES ASSUME Init PROVE IInv
    OBVIOUS
  <2>1. LifetimeTypes
    <3>1. flags \in Flags /\ timers \in Timers /\ peer \in Peers /\ stage \in Stages
      BY DEF Init, Flags, Timers, Peers, NoPeer, Stages
    <3>2. unanswered \in 0..MaxPings
      BY LifetimeAssumption DEF Init
    <3>3. owed \in [Handlers -> Int]
      BY DEF Init
    <3>4. /\ tasks \in Seq(Tasks) /\ shutters \in Seq(Waiting) /\ queue \in Seq(Packets)
          /\ inbox \in Seq(Inbound) /\ told \in Seq({"close", "error"})
          /\ writing \in 0..Len(queue)
      BY DEF Init
    <3> QED BY <3>1, <3>2, <3>3, <3>4 DEF Init, LifetimeTypes
  <2>2. OneNotice
    BY DEF Init, OneNotice, NoticeWaits
  <2>3. HandlersHeld
    <3>1. ASSUME NEW h \in Handlers
          PROVE  owed[h] = CountIn(tasks, TasksWith(h)) + Count(queue, h) + Count(shutters, h) + Attempt(h)
      <4>1. owed[h] = 0 /\ Attempt(h) = 0 /\ tasks = <<>> /\ queue = <<>> /\ shutters = <<>>
        BY DEF Init, Attempt
      <4>2. CountIn(tasks, TasksWith(h)) = 0
        BY <4>1, CountEmpty
      <4>3. Count(queue, h) = 0 /\ Count(shutters, h) = 0
        BY <4>1, CountOne, CountEmpty
      <4> QED BY <4>1, <4>2, <4>3
    <3> QED BY <3>1 DEF HandlersHeld
  <2> QED BY <2>1, <2>2, <2>3 DEF IInv
<1>2. IInv /\ [Next]_vars => IInv'
  BY TypesKept, NoticeKept, HandlersHeldKept DEF IInv
<1> QED BY <1>1, <1>2, PTL DEF Spec

(* On every connection of a client, with or without layers over TCP, whatever
   the write queue's limit, the order of the timers, and the answers or the
   silence of the peer: call_handler tells on_close or on_error at most once,
   and each handler given to async_connect, async_publish, async_disconnect or
   async_force_disconnect is called at most once. *)
THEOREM EndToldOnce == Spec => []ToldOnce
<1>1. IInv => ToldOnce
  <2> SUFFICES ASSUME IInv PROVE ToldOnce
    OBVIOUS
  <2>1. Len(told) <= 1
    BY DEF IInv, OneNotice
  <2>2. ASSUME NEW h \in Handlers PROVE owed[h] >= 0
    <3>1. owed[h] = CountIn(tasks, TasksWith(h)) + Count(queue, h) + Count(shutters, h) + Attempt(h)
      BY DEF IInv, HandlersHeld
    <3> QED BY <3>1, HeldNumbers DEF IInv
  <2> QED BY <2>1, <2>2 DEF ToldOnce
<1>2. Spec => []IInv
  BY IInvKept
<1> QED BY <1>1, <1>2, PTL

(* No notice is lost: once the session of a connection is under way, the end
   is either still to be noticed by the pending read, or waits for the socket
   to be closed, or has been told, and no completion handler is forgotten: each
   is kept by a posted function, a queued packet, the shutdown in progress or
   the connection attempt. *)
THEOREM NothingForgotten == Spec => [](OneNotice /\ HandlersHeld)
<1>1. IInv => OneNotice /\ HandlersHeld
  BY DEF IInv
<1>2. Spec => []IInv
  BY IInvKept
<1> QED BY <1>1, <1>2, PTL
=============================================================================
