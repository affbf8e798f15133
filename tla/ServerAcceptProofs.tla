------------------------- MODULE ServerAcceptProofs -------------------------
(***************************************************************************)
(* The four servers accept one connection after the other and hand each    *)
(* over once, for every set of peers, any number of calls of listen() and  *)
(* close() and any failures. The application calls listen() as ~Hasty      *)
(* says: not while an accept, a reset or a handshake that accepts the next *)
(* connection is still under way.                                          *)
(***************************************************************************)
EXTENDS ServerAccept, TLAPS, SequenceTheorems, FiniteSetTheorems

Layers == {"tls", "request", "upgrade"}

Accepts == [on : Nat, state : {"waiting", "ready", "failed"}, conn : Conns \union {NoConn}]

Connections ==
    [stage : {"none", "accepting", "done"} \union Layers,
     op : {"none", "pending", "ok", "failed"},
     timer : {"off", "armed", "expired"},
     open : BOOLEAN,
     finished : BOOLEAN,
     told : {<<>>, <<"error">>, <<"accept">>, <<"error", "accept">>}]

(* A connection whose layers are coming up is open as long as no error was
   told; one that was handed over or dropped has its timer off or past, and a
   timer past finds underlying_finished set. *)
Well(conn) ==
    /\ conn \in Connections
    /\ conn.stage \in {"none", "accepting"} =>
           conn.told = <<>> /\ conn.timer = "off" /\ ~conn.finished /\ conn.op = "none"
    /\ conn.stage = "accepting" => conn.open
    /\ conn.stage \in Layers =>
           /\ ~conn.finished
           /\ conn.told = IF conn.open THEN <<>> ELSE <<"error">>
    /\ conn.stage = "done" => conn.timer = "off" \/ (conn.timer = "expired" /\ conn.finished)
    /\ conn.told = <<"accept">> => conn.open
    /\ conn.told = <<"error", "accept">> => ~conn.open

AllWell == conns \in [Conns -> Connections] /\ \A c \in Conns : Well(conns[c])

(* One async_accept at most; the connection it has accepted waits for its
   handler. *)
AcceptsOne ==
    \/ accepts = <<>>
    \/ \E a \in Accepts :
          /\ accepts = <<a>>
          /\ a.state = "ready" => a.conn \in Conns /\ conns[a.conn].stage = "accepting"

(* A serial server accepts, or brings the layers of one connection up. *)
OneAtATime ==
    Serial => /\ \A c, d \in InHandshake : c = d
              /\ accepts # <<>> => InHandshake = {}

(* acceptor_ is empty only after close(), or when nothing will use it. *)
AcceptorHeld ==
    /\ kind \in Kinds /\ acceptor \in Nat /\ resets \in Nat /\ listens \in Nat
    /\ resets > 0 => closeRequest
    /\ acceptor = 0 => closeRequest \/ (accepts = <<>> /\ (Serial => InHandshake = {}))
    /\ ~threw

AInv == AllWell /\ AcceptsOne /\ OneAtATime /\ AcceptorHeld

-----------------------------------------------------------------------------
(* What the application is told *)

LEMMA AppendShort ==
    ASSUME NEW x, NEW y
    PROVE  Append(<<>>, x) = <<x>> /\ Append(<<x>>, y) = <<x, y>>
<1> DEFINE S == {x, y}
<1>1. /\ Append(<<>>, x) \in Seq(S) /\ Len(Append(<<>>, x)) = 1 /\ Append(<<>>, x)[1] = x
  <2>1. x \in S /\ <<>> \in Seq(S) /\ Len(<<>>) = 0
    OBVIOUS
  <2> HIDE DEF S
  <2> QED BY <2>1, AppendProperties
<1>2. <<x>> \in Seq(S) /\ Len(<<x>>) = 1 /\ <<x>>[1] = x /\ y \in S
  OBVIOUS
<1>3. <<x, y>> \in Seq(S) /\ Len(<<x, y>>) = 2 /\ <<x, y>>[1] = x /\ <<x, y>>[2] = y
  OBVIOUS
<1> HIDE DEF S
<1>4. /\ Append(<<x>>, y) \in Seq(S) /\ Len(Append(<<x>>, y)) = 2
      /\ Append(<<x>>, y)[1] = x /\ Append(<<x>>, y)[2] = y
  BY <1>2, AppendProperties
<1>5. Append(<<>>, x) = <<x>>
  BY <1>1, <1>2, SeqEqual
<1>6. Append(<<x>>, y) = <<x, y>>
  <2>1. \A i \in 1..2 : Append(<<x>>, y)[i] = <<x, y>>[i]
    BY <1>3, <1>4
  <2> QED BY <1>3, <1>4, <2>1, SeqEqual
<1> QED BY <1>5, <1>6

LEMMA ToldOnce ==
    /\ ~Contains(<<>>, "error") /\ Contains(<<"error">>, "error")
    /\ Append(<<>>, "error") = <<"error">> /\ Append(<<>>, "accept") = <<"accept">>
    /\ Append(<<"error">>, "accept") = <<"error", "accept">>
    /\ <<>> # <<"error">> /\ <<>> # <<"accept">> /\ <<"error">> # <<"accept">>
    /\ <<>> # <<"error", "accept">> /\ <<"error">> # <<"error", "accept">>
    /\ <<"accept">> # <<"error", "accept">>
<1>1. ~Contains(<<>>, "error") /\ Contains(<<"error">>, "error")
  <2>1. Len(<<>>) = 0 /\ Len(<<"error">>) = 1 /\ <<"error">>[1] = "error"
    OBVIOUS
  <2>2. ~\E i \in 1..0 : <<>>[i] = "error"
    OBVIOUS
  <2>3. 1 \in 1..1
    OBVIOUS
  <2> QED BY <2>1, <2>2, <2>3 DEF Contains
<1>2. /\ Append(<<>>, "error") = <<"error">> /\ Append(<<>>, "accept") = <<"accept">>
      /\ Append(<<"error">>, "accept") = <<"error", "accept">>
  BY AppendShort
<1>3. /\ <<>> # <<"error">> /\ <<>> # <<"accept">> /\ <<"error">> # <<"accept">>
      /\ <<>> # <<"error", "accept">> /\ <<"error">> # <<"error", "accept">>
      /\ <<"accept">> # <<"error", "accept">>
  OBVIOUS
<1> QED BY <1>1, <1>2, <1>3

LEMMA StartedWell ==
    ASSUME NEW conn, Well(conn), NEW stage \in Layers
    PROVE  /\ conn.stage = "accepting" =>
                Well(Started(Timed(conn), stage)) /\ Started(Timed(conn), stage).stage = stage
           /\ conn.stage \in Layers =>
                Well(Started(conn, stage)) /\ Started(conn, stage).stage = stage
BY ToldOnce DEF Well, Connections, Layers, Started, Timed

LEMMA HandedWell ==
    ASSUME NEW conn, Well(conn)
    PROVE  /\ conn.stage = "accepting" => Well(Handed(conn)) /\ Handed(conn).stage = "done"
           /\ conn.stage \in Layers =>
                Well(Handed(Finished(conn))) /\ Handed(Finished(conn)).stage = "done"
BY ToldOnce DEF Well, Connections, Layers, Handed, Finished

LEMMA DroppedWell ==
    ASSUME NEW conn, Well(conn), conn.stage \in Layers
    PROVE  /\ Well(Dropped(Told(Finished(conn)))) /\ Dropped(Told(Finished(conn))).stage = "done"
           /\ Well(Dropped(Finished(conn))) /\ Dropped(Finished(conn)).stage = "done"
BY ToldOnce DEF Well, Connections, Layers, Dropped, Told, Finished

LEMMA TimerWell ==
    ASSUME NEW conn, Well(conn)
    PROVE  /\ conn.timer = "armed" =>
                LET r == [conn EXCEPT !.timer = "expired"]
                IN  Well(r) /\ r.stage = conn.stage /\ conn.stage # "accepting"
           /\ conn.timer = "expired" =>
                LET s == [conn EXCEPT !.timer = "off"]
                    r == IF s.finished THEN s ELSE Closed(s)
                IN  Well(r) /\ r.stage = conn.stage /\ conn.stage # "accepting"
           /\ conn.op = "pending" =>
                \A result \in {"ok", "failed"} :
                    LET r == [conn EXCEPT !.op = result]
                    IN  Well(r) /\ r.stage = conn.stage /\ conn.stage # "accepting"
BY ToldOnce DEF Well, Connections, Layers, Closed, Told

LEMMA AcceptingWell ==
    ASSUME NEW conn, Well(conn), conn.stage = "none"
    PROVE  LET r == [conn EXCEPT !.stage = "accepting", !.open = TRUE]
           IN  Well(r) /\ r.stage = "accepting"
BY ToldOnce DEF Well, Connections, Layers
-----------------------------------------------------------------------------
(* What a step does to the chain of accepts *)

LEMMA BecomesOne ==
    ASSUME AllWell, NEW c \in Conns, NEW r, Well(r), Becomes(c, r)
    PROVE  AllWell' /\ conns'[c] = r /\ \A d \in Conns : d # c => conns'[d] = conns[d]
<1>1. r \in Connections /\ conns \in [Conns -> Connections]
  BY DEF AllWell, Well
<1>2. /\ conns' \in [Conns -> Connections] /\ conns'[c] = r
      /\ \A d \in Conns : d # c => conns'[d] = conns[d]
  BY <1>1 DEF Becomes
<1>3. \A d \in Conns : Well(conns'[d])
  BY <1>2 DEF AllWell
<1> QED BY <1>2, <1>3 DEF AllWell

LEMMA OnlyAccept ==
    ASSUME AInv, NEW i \in DOMAIN accepts
    PROVE  \E a \in Accepts :
             /\ accepts = <<a>> /\ i = 1 /\ accepts[i] = a /\ RemoveAt(accepts, i) = <<>>
             /\ a.state = "ready" => a.conn \in Conns /\ conns[a.conn].stage = "accepting"
<1>1. accepts # <<>>
  OBVIOUS
<1>2. PICK a \in Accepts :
        /\ accepts = <<a>>
        /\ a.state = "ready" => a.conn \in Conns /\ conns[a.conn].stage = "accepting"
  BY <1>1 DEF AInv, AcceptsOne
<1>3. i = 1 /\ accepts[i] = a
  BY <1>2
<1>4. RemoveAt(<<a>>, 1) = <<>>
  <2>1. Len(<<a>>) = 1 /\ SubSeq(<<a>>, 1, 1 - 1) = <<>> /\ SubSeq(<<a>>, 1 + 1, 1) = <<>>
    OBVIOUS
  <2>2. <<>> \o <<>> = <<>>
    OBVIOUS
  <2> QED BY <2>1, <2>2 DEF RemoveAt
<1> QED BY <1>2, <1>3, <1>4

LEMMA NextAccept ==
    ASSUME AcceptNext(<<>>), ~threw, acceptor \in Nat, acceptor = 0 => closeRequest
    PROVE  /\ ~threw'
           /\ \/ accepts' = <<>> /\ closeRequest
              \/ \E a \in Accepts : accepts' = <<a>> /\ a.state = "waiting"
<1> DEFINE a == [on |-> acceptor, state |-> "waiting", conn |-> NoConn]
<1>1. a \in Accepts /\ a.state = "waiting"
  BY DEF Accepts
<1> HIDE DEF a
<1>2. Append(<<>>, a) = <<a>>
  BY AppendShort
<1> QED BY <1>1, <1>2 DEF AcceptNext, DoAccept, a

(* A step of one connection that leaves the accepts alone, and the connection
   on its side of the layers *)
LEMMA StepOfOne ==
    ASSUME AInv, NEW c \in Conns, NEW r, Well(r), Becomes(c, r),
           conns[c].stage # "accepting",
           conns[c].stage \in Layers <=> r.stage \in Layers,
           Rest, UNCHANGED <<accepts, threw>>
    PROVE  AInv'
<1>1. AllWell' /\ conns'[c] = r /\ \A d \in Conns : d # c => conns'[d] = conns[d]
  BY BecomesOne DEF AInv
<1>2. InHandshake' = InHandshake
  BY <1>1 DEF InHandshake, Layers
<1>3. AcceptsOne'
  BY <1>1 DEF AInv, AcceptsOne
<1>4. OneAtATime' /\ AcceptorHeld'
  BY <1>2 DEF AInv, OneAtATime, AcceptorHeld, Serial, Rest
<1> QED BY <1>1, <1>3, <1>4 DEF AInv

(* The last handler of a connection that nobody waits for *)
LEMMA EndOfOne ==
    ASSUME AInv, NEW c \in Conns, NEW r, Well(r), EndsAlone(c, r), ~Serial,
           conns[c].stage \in Layers
    PROVE  AInv'
<1>1. AllWell' /\ conns'[c] = r /\ \A d \in Conns : d # c => conns'[d] = conns[d]
  BY BecomesOne DEF AInv, EndsAlone
<1>2. conns[c].stage # "accepting"
  BY DEF Layers
<1>3. AcceptsOne'
  BY <1>1, <1>2 DEF AInv, AcceptsOne, EndsAlone
<1>4. OneAtATime' /\ AcceptorHeld'
  BY DEF AInv, OneAtATime, AcceptorHeld, Serial, Rest, EndsAlone
<1> QED BY <1>1, <1>3, <1>4 DEF AInv

(* The last handler of a connection that the next accept waits for *)
LEMMA EndOfSerial ==
    ASSUME AInv, NEW c \in Conns, NEW r, Well(r), r.stage = "done", EndsSerial(c, r), Serial,
           conns[c].stage \in Layers
    PROVE  AInv'
<1>1. AllWell' /\ conns'[c] = r /\ \A d \in Conns : d # c => conns'[d] = conns[d]
  BY BecomesOne DEF AInv, EndsSerial
<1>2. c \in InHandshake
  BY DEF InHandshake, Layers
<1>3. accepts = <<>> /\ \A d \in InHandshake : d = c
  BY <1>2 DEF AInv, OneAtATime
<1>4. InHandshake' = {}
  BY <1>1, <1>3 DEF InHandshake
<1>5. /\ ~threw'
      /\ \/ accepts' = <<>> /\ closeRequest
         \/ \E a \in Accepts : accepts' = <<a>> /\ a.state = "waiting"
  <2>1. ~threw /\ acceptor \in Nat /\ (acceptor = 0 => closeRequest) /\ AcceptNext(<<>>)
    BY <1>2, <1>3 DEF AInv, AcceptorHeld, EndsSerial
  <2> QED BY <2>1, NextAccept
<1>6. AcceptsOne'
  BY <1>5 DEF AcceptsOne
<1>7. OneAtATime'
  BY <1>4 DEF OneAtATime
<1>8. AcceptorHeld'
  <2>1. acceptor = 0 => closeRequest
    BY <1>2 DEF AInv, AcceptorHeld
  <2> QED BY <1>5, <2>1 DEF AInv, AcceptorHeld, EndsSerial, Rest
<1> QED BY <1>1, <1>6, <1>7, <1>8 DEF AInv
-----------------------------------------------------------------------------
(* The invariant, action by action *)

LEMMA ListenKeeps == ASSUME AInv, ~Hasty, Listen PROVE AInv'
<1>1. /\ accepts = <<>> /\ resets = 0 /\ (Serial => InHandshake = {})
      /\ closeRequest' = FALSE /\ UNCHANGED <<kind, resets, conns>>
      /\ listens \in Nat /\ listens' = listens + 1
  BY DEF Listen, NothingToFinish, AInv, AcceptorHeld
<1>2. AllWell' /\ InHandshake' = InHandshake /\ Serial' = Serial
  BY <1>1 DEF AInv, AllWell, InHandshake, Serial
<1>3. /\ ~threw' /\ acceptor' \in Nat
      /\ \/ accepts' = <<>>
         \/ acceptor' # 0 /\ \E a \in Accepts : accepts' = <<a>> /\ a.state = "waiting"
  <2>1. ASSUME NEW n \in Nat, n # 0, DoAccept(FALSE, n, accepts)
        PROVE  ~threw' /\ \E a \in Accepts : accepts' = <<a>> /\ a.state = "waiting"
    <3> DEFINE a == [on |-> n, state |-> "waiting", conn |-> NoConn]
    <3>1. a \in Accepts /\ a.state = "waiting"
      BY DEF Accepts
    <3> HIDE DEF a
    <3>2. Append(<<>>, a) = <<a>>
      BY AppendShort
    <3> QED BY <1>1, <2>1, <3>1, <3>2 DEF DoAccept, AInv, AcceptorHeld, a
  <2>2. CASE acceptor # 0 /\ DoAccept(FALSE, acceptor, accepts) /\ UNCHANGED acceptor
    BY <2>1, <2>2 DEF AInv, AcceptorHeld
  <2>3. CASE acceptor' = listens + 2 /\ DoAccept(FALSE, listens + 2, accepts)
    <3>1. listens + 2 \in Nat /\ listens + 2 # 0
      BY <1>1
    <3> QED BY <2>1, <2>3, <3>1
  <2>4. CASE UNCHANGED <<acceptor, accepts, threw>>
    BY <1>1, <2>4 DEF AInv, AcceptorHeld
  <2> QED BY <2>2, <2>3, <2>4 DEF Listen
<1>4. AcceptsOne'
  BY <1>3 DEF AcceptsOne
<1>5. OneAtATime'
  BY <1>1, <1>2 DEF AInv, OneAtATime
<1>6. AcceptorHeld'
  <2>1. acceptor' = 0 => accepts' = <<>>
    BY <1>3
  <2> QED BY <1>1, <1>2, <1>3, <2>1 DEF AInv, AcceptorHeld
<1> QED BY <1>2, <1>4, <1>5, <1>6 DEF AInv

LEMMA CloseKeeps == ASSUME AInv, Close PROVE AInv'
<1>1. /\ AllWell' /\ AcceptsOne' /\ OneAtATime'
      /\ closeRequest' /\ UNCHANGED <<kind, acceptor, listens, threw>> /\ resets' \in Nat
  BY DEF Close, AInv, AllWell, AcceptsOne, OneAtATime, AcceptorHeld, Serial, InHandshake
<1> QED BY <1>1 DEF AInv, AcceptorHeld

LEMMA AbortedShape ==
    ASSUME NEW q, NEW b, q = <<>> \/ \E a \in Accepts : q = <<a>>
    PROVE  \/ q = <<>> /\ Aborted(q, b) = <<>>
           \/ \E a, d \in Accepts :
                 /\ q = <<a>> /\ Aborted(q, b) = <<d>> /\ d.conn = a.conn
                 /\ d.state = "ready" => a.state = "ready"
<1>1. CASE q = <<>>
  BY <1>1 DEF Aborted
<1>2. CASE \E a \in Accepts : q = <<a>>
  <2>1. PICK a \in Accepts : q = <<a>>
    BY <1>2
  <2> DEFINE d == IF a.on = b /\ a.state = "waiting" THEN [a EXCEPT !.state = "failed"] ELSE a
  <2>2. d \in Accepts /\ d.conn = a.conn /\ (d.state = "ready" => a.state = "ready")
    BY DEF Accepts
  <2> HIDE DEF d
  <2>3. DOMAIN q = {1} /\ q[1] = a
    BY <2>1
  <2>4. Aborted(q, b) = [i \in {1} |-> d]
    BY <2>3 DEF Aborted, d
  <2>5. [i \in {1} |-> d] = <<d>>
    OBVIOUS
  <2> QED BY <2>1, <2>2, <2>4, <2>5
<1> QED BY <1>1, <1>2

LEMMA ResetKeeps == ASSUME AInv, Reset PROVE AInv'
<1>1. /\ acceptor' = 0 /\ closeRequest' /\ resets' \in Nat
      /\ accepts' = Aborted(accepts, acceptor)
      /\ UNCHANGED <<kind, closeRequest, conns, threw, listens>>
  BY DEF Reset, AInv, AcceptorHeld
<1>2. \/ accepts = <<>> /\ accepts' = <<>>
      \/ \E a, d \in Accepts :
            /\ accepts = <<a>> /\ accepts' = <<d>> /\ d.conn = a.conn
            /\ d.state = "ready" => a.state = "ready"
  BY <1>1, AbortedShape DEF AInv, AcceptsOne
<1>3. AcceptsOne'
  BY <1>1, <1>2 DEF AInv, AcceptsOne
<1>4. OneAtATime'
  BY <1>1, <1>2 DEF AInv, OneAtATime, Serial, InHandshake
<1> QED BY <1>1, <1>3, <1>4 DEF AInv, AllWell, AcceptorHeld

LEMMA PeerConnectsKeeps ==
    ASSUME AInv, NEW c \in Conns, PeerConnects(c) PROVE AInv'
<1> DEFINE r == [conns[c] EXCEPT !.stage = "accepting", !.open = TRUE]
<1>1. /\ conns[c].stage = "none"
      /\ UNCHANGED <<kind, closeRequest, acceptor, resets, threw, listens>>
  BY DEF PeerConnects
<1>2. Becomes(c, r) /\ Well(r) /\ r.stage = "accepting"
  <2>1. conns' = [conns EXCEPT ![c] = r]
    BY DEF PeerConnects, AInv, AllWell, Connections
  <2>2. Well(r) /\ r.stage = "accepting"
    BY <1>1, AcceptingWell DEF AInv, AllWell
  <2> QED BY <2>1, <2>2 DEF Becomes
<1> HIDE DEF r
<1>3. AllWell' /\ conns'[c] = r /\ \A d \in Conns : d # c => conns'[d] = conns[d]
  BY <1>2, BecomesOne DEF AInv
<1>4. InHandshake' = InHandshake
  BY <1>1, <1>2, <1>3 DEF InHandshake
<1>5. PICK i \in DOMAIN accepts :
        accepts' = [accepts EXCEPT ![i].state = "ready", ![i].conn = c]
  BY DEF PeerConnects
<1>6. PICK a \in Accepts : accepts = <<a>> /\ i = 1
  BY OnlyAccept
<1> DEFINE d == [a EXCEPT !.state = "ready", !.conn = c]
<1>7. d \in Accepts /\ d.conn = c
  BY DEF Accepts
<1>8. accepts' = <<d>>
  BY <1>5, <1>6
<1> HIDE DEF d
<1>9. AcceptsOne'
  BY <1>2, <1>3, <1>7, <1>8 DEF AcceptsOne
<1>10. OneAtATime' /\ AcceptorHeld'
  <2>1. accepts # <<>>
    BY <1>6
  <2> QED BY <1>1, <1>4, <2>1 DEF AInv, OneAtATime, AcceptorHeld, Serial
<1> QED BY <1>3, <1>9, <1>10 DEF AInv

LEMMA AcceptFailsKeeps == ASSUME AInv, AcceptFails PROVE AInv'
<1>1. UNCHANGED <<kind, closeRequest, acceptor, resets, conns, threw, listens>>
  BY DEF AcceptFails
<1>2. PICK i \in DOMAIN accepts : accepts' = [accepts EXCEPT ![i].state = "failed"]
  BY DEF AcceptFails
<1>3. PICK a \in Accepts : accepts = <<a>> /\ i = 1
  BY OnlyAccept
<1> DEFINE d == [a EXCEPT !.state = "failed"]
<1>4. d \in Accepts /\ d.state = "failed"
  BY DEF Accepts
<1>5. accepts' = <<d>>
  BY <1>2, <1>3
<1> HIDE DEF d
<1>6. AcceptsOne'
  BY <1>4, <1>5 DEF AcceptsOne
<1>7. OneAtATime' /\ AcceptorHeld'
  <2>1. accepts # <<>>
    BY <1>3
  <2> QED BY <1>1, <2>1 DEF AInv, OneAtATime, AcceptorHeld, Serial, InHandshake
<1> QED BY <1>1, <1>6, <1>7 DEF AInv, AllWell

LEMMA NotAcceptedKeeps ==
    ASSUME AInv, NEW i \in DOMAIN accepts, NotAccepted(i) PROVE AInv'
<1>1. /\ acceptor' = 0 /\ accepts' = Aborted(RemoveAt(accepts, i), acceptor)
      /\ UNCHANGED <<kind, closeRequest, resets, conns, threw, listens>>
  BY DEF NotAccepted
<1>2. accepts # <<>> /\ RemoveAt(accepts, i) = <<>>
  BY OnlyAccept
<1>3. accepts' = <<>>
  BY <1>1, <1>2, AbortedShape
<1>4. InHandshake' = InHandshake /\ Serial' = Serial
  BY <1>1 DEF InHandshake, Serial
<1> QED
  BY <1>1, <1>2, <1>3, <1>4 DEF AInv, AllWell, AcceptsOne, OneAtATime, AcceptorHeld

(* The accept handlers of the servers that accept the next connection at once *)
LEMMA AcceptedAtOnceKeeps ==
    ASSUME AInv, NEW i \in DOMAIN accepts, AcceptedTcp(i) \/ AcceptedWs(i) PROVE AInv'
<1>1. PICK a \in Accepts :
        /\ accepts = <<a>> /\ accepts[i] = a /\ RemoveAt(accepts, i) = <<>>
        /\ a.state = "ready" => a.conn \in Conns /\ conns[a.conn].stage = "accepting"
  BY OnlyAccept
<1> DEFINE c == a.conn
<1>2. /\ c \in Conns /\ conns[c].stage = "accepting" /\ Well(conns[c])
      /\ ~Serial /\ AcceptNext(<<>>) /\ Rest
  BY <1>1 DEF AcceptedTcp, AcceptedWs, Serial, AInv, AllWell
<1>3. PICK r : Well(r) /\ r.stage # "accepting" /\ Becomes(c, r)
  <2>1. CASE AcceptedTcp(i)
    BY <1>1, <1>2, <2>1, HandedWell DEF AcceptedTcp
  <2>2. CASE AcceptedWs(i)
    <3>1. "request" \in Layers
      BY DEF Layers
    <3> QED BY <1>1, <1>2, <2>2, <3>1, StartedWell DEF AcceptedWs
  <2> QED BY <2>1, <2>2
<1>4. AllWell'
  BY <1>2, <1>3, BecomesOne DEF AInv
<1>5. /\ ~threw' /\ (acceptor = 0 => closeRequest)
      /\ \/ accepts' = <<>> /\ closeRequest
         \/ \E d \in Accepts : accepts' = <<d>> /\ d.state = "waiting"
  <2>1. ~threw /\ acceptor \in Nat /\ (acceptor = 0 => closeRequest)
    BY <1>1 DEF AInv, AcceptorHeld
  <2> QED BY <1>2, <2>1, NextAccept
<1>6. AcceptsOne'
  BY <1>5 DEF AcceptsOne
<1>7. OneAtATime' /\ AcceptorHeld'
  BY <1>2, <1>5 DEF OneAtATime, AInv, AcceptorHeld, Serial, Rest
<1> QED BY <1>4, <1>6, <1>7 DEF AInv

(* and of those that accept it when the layers of this one are up *)
LEMMA AcceptedSerialKeeps ==
    ASSUME AInv, NEW i \in DOMAIN accepts, AcceptedTls(i) \/ AcceptedTlsWs(i) PROVE AInv'
<1>1. PICK a \in Accepts :
        /\ accepts = <<a>> /\ accepts[i] = a /\ RemoveAt(accepts, i) = <<>>
        /\ a.state = "ready" => a.conn \in Conns /\ conns[a.conn].stage = "accepting"
  BY OnlyAccept
<1> DEFINE c == a.conn
           r == Started(Timed(conns[c]), "tls")
<1>2. /\ c \in Conns /\ conns[c].stage = "accepting" /\ Well(conns[c])
      /\ Serial /\ accepts' = <<>> /\ Rest /\ UNCHANGED threw /\ Becomes(c, r)
  BY <1>1 DEF AcceptedTls, AcceptedTlsWs, Serial, AInv, AllWell
<1>3. Well(r)
  <2>1. "tls" \in Layers
    BY DEF Layers
  <2> QED BY <1>2, <2>1, StartedWell
<1>4. AllWell' /\ \A d \in Conns : d # c => conns'[d] = conns[d]
  <2> HIDE DEF r
  <2> QED BY <1>2, <1>3, BecomesOne DEF AInv
<1>5. InHandshake = {} /\ (acceptor = 0 => closeRequest)
  <2>1. accepts # <<>>
    BY <1>1
  <2> QED BY <1>2, <2>1 DEF AInv, OneAtATime, AcceptorHeld
<1>6. \A d \in InHandshake' : d = c
  BY <1>4, <1>5 DEF InHandshake
<1>7. AcceptsOne' /\ OneAtATime'
  BY <1>2, <1>6 DEF AcceptsOne, OneAtATime
<1>8. AcceptorHeld'
  BY <1>2, <1>5 DEF AInv, AcceptorHeld, Rest
<1> QED BY <1>4, <1>7, <1>8 DEF AInv

LEMMA TimerKeeps ==
    ASSUME AInv, NEW c \in Conns,
           TimerExpires(c) \/ TimedOut(c) \/ \E result \in {"ok", "failed"} : PeerAnswers(c, result)
    PROVE  AInv'
<1>1. Well(conns[c])
  BY DEF AInv, AllWell
<1>2. PICK r : /\ Well(r) /\ r.stage = conns[c].stage /\ conns[c].stage # "accepting"
               /\ Becomes(c, r) /\ Rest /\ UNCHANGED <<accepts, threw>>
  <2>1. CASE TimerExpires(c)
    BY <1>1, <2>1, TimerWell DEF TimerExpires
  <2>2. CASE TimedOut(c)
    BY <1>1, <2>2, TimerWell DEF TimedOut
  <2>3. CASE \E result \in {"ok", "failed"} : PeerAnswers(c, result)
    BY <1>1, <2>3, TimerWell DEF PeerAnswers
  <2> QED BY <2>1, <2>2, <2>3
<1> QED BY <1>2, StepOfOne

LEMMA LayerHandlerKeeps ==
    ASSUME AInv, NEW c \in Conns, LayerHandler(c) PROVE AInv'
<1> DEFINE conn == conns[c]
           finished == Handed(Finished(conn))
           told == Dropped(Told(Finished(conn)))
           quiet == Dropped(Finished(conn))
           request == Started(conn, "request")
           upgrade == Started(conn, "upgrade")
<1>1. conn.stage \in Layers /\ Well(conn)
  BY DEF LayerHandler, TlsHandshaken, WsRequest, WsUpgraded, TlsWsHandshaken, TlsWsRequest,
         TlsWsUpgraded, Goes, Layers, AInv, AllWell
<1>2. \A r \in {finished, told, quiet} : Well(r) /\ r.stage = "done"
  BY <1>1, HandedWell, DroppedWell
<1>3. \A r \in {request, upgrade} : Well(r) /\ r.stage \in Layers /\ conn.stage # "accepting"
  <2>1. "request" \in Layers /\ "upgrade" \in Layers /\ "accepting" \notin Layers
    BY DEF Layers
  <2> QED BY <1>1, <2>1, StartedWell
<1>4. \/ \E r \in {request, upgrade} : EndsAlone(c, r)
      \/ ~Serial /\ \E r \in {finished, told, quiet} : EndsAlone(c, r)
      \/ Serial /\ \E r \in {finished, told, quiet} : EndsSerial(c, r)
  <2>1. CASE TlsHandshaken(c)
    BY <2>1 DEF TlsHandshaken, Goes, Serial
  <2>2. CASE WsRequest(c)
    BY <2>2 DEF WsRequest, Goes, Serial
  <2>3. CASE WsUpgraded(c)
    BY <2>3 DEF WsUpgraded, Goes, Serial
  <2>4. CASE TlsWsHandshaken(c)
    BY <2>4 DEF TlsWsHandshaken, Goes, Serial
  <2>5. CASE TlsWsRequest(c)
    BY <2>5 DEF TlsWsRequest, Goes, Serial
  <2>6. CASE TlsWsUpgraded(c)
    BY <2>6 DEF TlsWsUpgraded, Goes, Serial
  <2> QED BY <2>1, <2>2, <2>3, <2>4, <2>5, <2>6 DEF LayerHandler
<1> HIDE DEF finished, told, quiet, request, upgrade
<1>5. CASE \E r \in {request, upgrade} : EndsAlone(c, r)
  <2>1. PICK r \in {request, upgrade} : EndsAlone(c, r)
    BY <1>5
  <2> QED BY <1>1, <1>3, <2>1, StepOfOne DEF EndsAlone
<1>6. CASE ~Serial /\ \E r \in {finished, told, quiet} : EndsAlone(c, r)
  BY <1>1, <1>2, <1>6, EndOfOne
<1>7. CASE Serial /\ \E r \in {finished, told, quiet} : EndsSerial(c, r)
  BY <1>1, <1>2, <1>7, EndOfSerial
<1> QED BY <1>4, <1>5, <1>6, <1>7

-----------------------------------------------------------------------------
LEMMA AcceptInit == Init => AInv
<1> SUFFICES ASSUME Init PROVE AInv
  OBVIOUS
<1>1. Well(Idle)
  BY DEF Well, Idle, Connections, Layers
<1>2. AllWell
  <2>1. Idle \in Connections
    BY <1>1 DEF Well
  <2> QED BY <1>1, <2>1 DEF Init, AllWell
<1>3. InHandshake = {}
  BY DEF Init, Idle, InHandshake
<1> QED BY <1>2, <1>3 DEF Init, AInv, AcceptsOne, OneAtATime, AcceptorHeld

LEMMA AcceptStep == ~Hasty /\ AInv /\ [Next]_vars => AInv'
<1> SUFFICES ASSUME ~Hasty, AInv, [Next]_vars PROVE AInv'
  OBVIOUS
<1>1. CASE Listen
  BY <1>1, ListenKeeps
<1>2. CASE Close \/ Reset \/ AcceptFails
  BY <1>2, CloseKeeps, ResetKeeps, AcceptFailsKeeps
<1>3. CASE AcceptHandler
  <2>1. PICK i \in DOMAIN accepts :
          NotAccepted(i) \/ AcceptedTcp(i) \/ AcceptedTls(i) \/ AcceptedWs(i) \/ AcceptedTlsWs(i)
    BY <1>3 DEF AcceptHandler
  <2> QED BY <2>1, NotAcceptedKeeps, AcceptedAtOnceKeeps, AcceptedSerialKeeps
<1>4. CASE \E c \in Conns : PeerConnects(c) \/ TimerExpires(c) \/ TimedOut(c) \/ LayerHandler(c)
  BY <1>4, PeerConnectsKeeps, TimerKeeps, LayerHandlerKeeps
<1>5. CASE \E c \in Conns, result \in {"ok", "failed"} : PeerAnswers(c, result)
  BY <1>5, TimerKeeps
<1>6. CASE UNCHANGED vars
  BY <1>6 DEF vars, AInv, AllWell, AcceptsOne, OneAtATime, AcceptorHeld, Serial, InHandshake
<1> QED BY <1>1, <1>2, <1>3, <1>4, <1>5, <1>6 DEF Next

LEMMA AcceptInvariant == ASSUME ~Hasty PROVE Spec => []AInv
BY AcceptInit, AcceptStep, PTL DEF Spec

(* server_tls and server_tls_ws have one async_accept under way, or one
   connection whose layers come up, and never both; server and server_ws have
   one async_accept. However listen(), close(), its posted reset, failed
   accepts and handshakes follow each other, no chain of accepts is started
   twice, and acceptor_ is not used while it is empty. *)
THEOREM AcceptsOneAtATime == ASSUME ~Hasty PROVE Spec => []OneChain
<1>1. AInv => OneChain
  <2> SUFFICES ASSUME AInv PROVE OneChain
    OBVIOUS
  <2>1. Len(accepts) \in 0..1 /\ (Len(accepts) = 1 => accepts # <<>>)
    BY DEF AInv, AcceptsOne
  <2>2. Serial => InHandshake = {} \/ \E c \in InHandshake : InHandshake = {c}
    BY DEF AInv, OneAtATime
  <2>3. Serial => Cardinality(InHandshake) \in 0..1
    <3>1. Cardinality({}) = 0
      BY FS_EmptySet
    <3>2. \A c : Cardinality({c}) = 1
      BY FS_Singleton
    <3> QED BY <2>2, <3>1, <3>2
  <2>4. Serial /\ accepts # <<>> => Cardinality(InHandshake) = 0
    BY FS_EmptySet DEF AInv, OneAtATime
  <2>5. ~threw
    BY DEF AInv, AcceptorHeld
  <2>6. Len(accepts) + (IF Serial THEN Cardinality(InHandshake) ELSE 0) <= 1
    <3>1. CASE Len(accepts) = 1
      BY <2>1, <2>4, <3>1
    <3>2. CASE Len(accepts) = 0
      BY <2>3, <3>2
    <3> QED BY <2>1, <3>1, <3>2
  <2> QED BY <2>5, <2>6 DEF OneChain
<1> QED BY <1>1, AcceptInvariant, PTL

(* Each connection the server accepts is handed to the application once, as an
   endpoint, as an error, or as an error and then an endpoint whose socket the
   timeout has closed: the timer's handler and the handshake's may run in
   either order. *)
THEOREM HandsOverOnce == ASSUME ~Hasty PROVE Spec => []HandedOver
<1>1. AInv => HandedOver
  BY DEF AInv, AllWell, Well, Connections, HandedOver
<1> QED BY <1>1, AcceptInvariant, PTL
=============================================================================
