---------------------------- MODULE ServerAccept ----------------------------
(***************************************************************************)
(* The four servers of server.hpp: server, server_tls, server_ws and       *)
(* server_tls_ws. A server accepts a TCP connection, brings up the layers  *)
(* over it (the TLS handshake, the HTTP request, the WebSocket upgrade)    *)
(* under a timer, and hands an endpoint to the application. server and     *)
(* server_ws accept the next connection at once, server_tls and            *)
(* server_tls_ws when the layers of this one are up or have failed.        *)
(* One action is one handler; completions wait until theirs runs.          *)
(***************************************************************************)
EXTENDS Integers, FiniteSets, SequencesExt

CONSTANTS
    Conns,          \* the connections peers may open
    NoConn,         \* none of them
    Hasty,          \* listen() may be called while the server still has work to finish
    MaxListens,     \* bound: calls of listen()
    MaxFailures     \* bound: failures to listen or to accept

ASSUME ServerAssumption ==
    NoConn \notin Conns /\ Hasty \in BOOLEAN /\ MaxListens \in Nat /\ MaxFailures \in Nat

VARIABLES
    kind,           \* which of the servers this is
    closeRequest,   \* close_request_
    acceptor,       \* acceptor_: 0 if it holds none, otherwise a number that tells one from the next
    resets,         \* resets of acceptor_ that close() has posted
    accepts,        \* the pending async_accepts, completed or not
    conns,          \* per connection, the layers, the timer and what the application was told
    threw,          \* acceptor_.value() was called without an acceptor
    listens, failures

vars == <<kind, closeRequest, acceptor, resets, accepts, conns, threw, listens, failures>>

Kinds == {"tcp", "tls", "ws", "tls_ws"}

Idle == [stage |-> "none", op |-> "none", timer |-> "off", open |-> FALSE,
         finished |-> FALSE, told |-> <<>>]

Init ==
    /\ kind \in Kinds
    /\ closeRequest = FALSE /\ acceptor = 1 /\ resets = 0
    /\ accepts = <<>>
    /\ conns = [c \in Conns |-> Idle]
    /\ threw = FALSE
    /\ listens = 0 /\ failures = 0

Serial == kind \in {"tls", "tls_ws"}

InHandshake == {c \in Conns : conns[c].stage \in {"tls", "request", "upgrade"}}

-----------------------------------------------------------------------------
(* The acceptor *)

(* do_accept() with a as the acceptor and q as the pending async_accepts *)
DoAccept(closing, a, q) ==
    IF closing THEN accepts' = q /\ UNCHANGED threw
    ELSE /\ threw' = (threw \/ a = 0)
         /\ accepts' = IF a = 0 THEN q
                       ELSE Append(q, [on |-> a, state |-> "waiting", conn |-> NoConn])

AcceptNext(q) == DoAccept(closeRequest, acceptor, q)

(* Destroying acceptor a aborts what waits on it. *)
Aborted(q, a) ==
    [i \in DOMAIN q |-> IF q[i].on = a /\ q[i].state = "waiting"
                        THEN [q[i] EXCEPT !.state = "failed"] ELSE q[i]]

NothingToFinish ==
    accepts = <<>> /\ resets = 0 /\ (Serial => InHandshake = {})

(* listen(). The constructor made the first acceptor; a new one may fail to
   bind, which h_error_ is told of. *)
Listen ==
    /\ listens < MaxListens
    /\ Hasty \/ NothingToFinish
    /\ listens' = listens + 1
    /\ closeRequest' = FALSE
    /\ \/ /\ acceptor # 0
          /\ DoAccept(FALSE, acceptor, accepts)
          /\ UNCHANGED <<acceptor, failures>>
       \/ /\ acceptor = 0
          /\ acceptor' = listens + 2
          /\ DoAccept(FALSE, listens + 2, accepts)
          /\ UNCHANGED failures
       \/ /\ acceptor = 0 /\ failures < MaxFailures
          /\ failures' = failures + 1
          /\ UNCHANGED <<acceptor, accepts, threw>>
    /\ UNCHANGED <<kind, resets, conns>>

(* close() and the reset it posts *)
Close ==
    /\ listens > 0 /\ ~closeRequest
    /\ closeRequest' = TRUE
    /\ resets' = resets + 1
    /\ UNCHANGED <<kind, acceptor, accepts, conns, threw, listens, failures>>

Reset ==
    /\ resets > 0
    /\ resets' = resets - 1
    /\ acceptor' = 0
    /\ accepts' = Aborted(accepts, acceptor)
    /\ UNCHANGED <<kind, closeRequest, conns, threw, listens, failures>>

(* A peer connects, or the accept fails. *)
PeerConnects(c) ==
    /\ conns[c].stage = "none"
    /\ \E i \in DOMAIN accepts :
          /\ accepts[i].state = "waiting"
          /\ accepts' = [accepts EXCEPT ![i].state = "ready", ![i].conn = c]
    /\ conns' = [conns EXCEPT ![c].stage = "accepting", ![c].open = TRUE]
    /\ UNCHANGED <<kind, closeRequest, acceptor, resets, threw, listens, failures>>

AcceptFails ==
    /\ failures < MaxFailures
    /\ \E i \in DOMAIN accepts :
          /\ accepts[i].state = "waiting"
          /\ accepts' = [accepts EXCEPT ![i].state = "failed"]
    /\ failures' = failures + 1
    /\ UNCHANGED <<kind, closeRequest, acceptor, resets, conns, threw, listens>>

(* The accept handler with an error: acceptor_ is reset, whichever it is by
   now, h_error_ is called and nothing more is accepted. *)
NotAccepted(i) ==
    /\ accepts[i].state = "failed"
    /\ acceptor' = 0
    /\ accepts' = Aborted(RemoveAt(accepts, i), acceptor)
    /\ UNCHANGED <<kind, closeRequest, resets, conns, threw, listens, failures>>

-----------------------------------------------------------------------------
(* The layers of a connection *)

(* An operation on a closed socket fails. *)
Started(conn, stage) ==
    [conn EXCEPT !.stage = stage, !.op = IF conn.open THEN "pending" ELSE "failed"]

Timed(conn) == [conn EXCEPT !.timer = "armed"]

(* underlying_finished is set and the timer cancelled; a timer whose handler
   is already on its way is not. *)
Finished(conn) ==
    [conn EXCEPT !.finished = TRUE, !.timer = IF @ = "armed" THEN "off" ELSE @]

Handed(conn) ==
    [conn EXCEPT !.stage = "done", !.op = "none", !.told = Append(@, "accept")]

(* connection_error_called keeps the timeout and the failure it causes from
   being told twice. *)
Told(conn) ==
    [conn EXCEPT !.told = IF Contains(@, "error") THEN @ ELSE Append(@, "error")]

Dropped(conn) == [conn EXCEPT !.stage = "done", !.op = "none", !.open = FALSE]

Becomes(c, conn) == conns' = [conns EXCEPT ![c] = conn]

Rest == UNCHANGED <<kind, closeRequest, acceptor, resets, listens, failures>>

(* The accept handler of each server *)
AcceptedTcp(i) ==
    /\ kind = "tcp" /\ accepts[i].state = "ready"
    /\ Becomes(accepts[i].conn, Handed(conns[accepts[i].conn]))
    /\ AcceptNext(RemoveAt(accepts, i))
    /\ Rest

AcceptedTls(i) ==
    /\ kind = "tls" /\ accepts[i].state = "ready"
    /\ Becomes(accepts[i].conn, Started(Timed(conns[accepts[i].conn]), "tls"))
    /\ accepts' = RemoveAt(accepts, i)
    /\ Rest /\ UNCHANGED threw

AcceptedWs(i) ==
    /\ kind = "ws" /\ accepts[i].state = "ready"
    /\ Becomes(accepts[i].conn, Started(Timed(conns[accepts[i].conn]), "request"))
    /\ AcceptNext(RemoveAt(accepts, i))
    /\ Rest

AcceptedTlsWs(i) ==
    /\ kind = "tls_ws" /\ accepts[i].state = "ready"
    /\ Becomes(accepts[i].conn, Started(Timed(conns[accepts[i].conn]), "tls"))
    /\ accepts' = RemoveAt(accepts, i)
    /\ Rest /\ UNCHANGED threw

(* The timer expires, and its handler runs. *)
TimerExpires(c) ==
    /\ conns[c].timer = "armed"
    /\ Becomes(c, [conns[c] EXCEPT !.timer = "expired"])
    /\ Rest /\ UNCHANGED <<accepts, threw>>

Closed(conn) ==
    [Told(conn) EXCEPT !.open = FALSE, !.op = IF @ = "pending" THEN "failed" ELSE @]

(* Mutant: the timer's handler does not ask whether the connection is up. *)
TimedOutAnyway(c) ==
    /\ conns[c].timer = "expired"
    /\ Becomes(c, Closed([conns[c] EXCEPT !.timer = "off"]))
    /\ Rest /\ UNCHANGED <<accepts, threw>>

TimedOut(c) ==
    /\ conns[c].timer = "expired"
    /\ LET conn == [conns[c] EXCEPT !.timer = "off"]
       IN  Becomes(c, IF conn.finished THEN conn ELSE Closed(conn))
    /\ Rest /\ UNCHANGED <<accepts, threw>>

(* The operation completes, if the peer goes on or fails. *)
PeerAnswers(c, result) ==
    /\ conns[c].op = "pending"
    /\ Becomes(c, [conns[c] EXCEPT !.op = result])
    /\ Rest /\ UNCHANGED <<accepts, threw>>

(* The handler of a layer that ends the connection in the servers that accept
   one at a time, and in server_ws, which has accepted the next one already *)
EndsSerial(c, conn) == Becomes(c, conn) /\ AcceptNext(accepts) /\ Rest

EndsAlone(c, conn) == Becomes(c, conn) /\ UNCHANGED <<accepts, threw>> /\ Rest

Goes(c, stage, of) == kind = of /\ conns[c].stage = stage /\ conns[c].op # "pending"

Ok(c) == conns[c].op = "ok"

TlsHandshaken(c) ==
    /\ Goes(c, "tls", "tls")
    /\ LET conn == Finished(conns[c])
       IN  EndsSerial(c, IF Ok(c) THEN Handed(conn) ELSE Dropped(Told(conn)))

(* Mutant: server_ws accepts once more when a request fails, as the serial servers do. *)
WsRequestAccepting(c) ==
    /\ Goes(c, "request", "ws")
    /\ IF Ok(c) THEN EndsAlone(c, Started(conns[c], "upgrade"))
       ELSE EndsSerial(c, Dropped(Told(Finished(conns[c]))))

WsRequest(c) ==
    /\ Goes(c, "request", "ws")
    /\ \E upgrade \in BOOLEAN :
          EndsAlone(c, IF Ok(c) /\ upgrade THEN Started(conns[c], "upgrade")
                       ELSE Dropped(Told(Finished(conns[c]))))

WsUpgraded(c) ==
    /\ Goes(c, "upgrade", "ws")
    /\ LET conn == Finished(conns[c])
       IN  EndsAlone(c, IF Ok(c) THEN Handed(conn) ELSE Dropped(Told(conn)))

(* Mutant: a failed handshake does not accept the next connection. *)
TlsWsHandshakenAlone(c) ==
    /\ Goes(c, "tls", "tls_ws")
    /\ EndsAlone(c, IF Ok(c) THEN Started(conns[c], "request") ELSE Dropped(Finished(conns[c])))

(* A failed TLS handshake is told to nobody. *)
TlsWsHandshaken(c) ==
    /\ Goes(c, "tls", "tls_ws")
    /\ IF Ok(c) THEN EndsAlone(c, Started(conns[c], "request"))
       ELSE EndsSerial(c, Dropped(Finished(conns[c])))

TlsWsRequest(c) ==
    /\ Goes(c, "request", "tls_ws")
    /\ \E upgrade \in BOOLEAN :
          IF Ok(c) /\ upgrade THEN EndsAlone(c, Started(conns[c], "upgrade"))
          ELSE EndsSerial(c, Dropped(Told(Finished(conns[c]))))

TlsWsUpgraded(c) ==
    /\ Goes(c, "upgrade", "tls_ws")
    /\ LET conn == Finished(conns[c])
       IN  EndsSerial(c, IF Ok(c) THEN Handed(conn) ELSE Dropped(Told(conn)))

-----------------------------------------------------------------------------
(* What the program runs by itself: the handlers, and its timers *)
AcceptHandler ==
    \E i \in DOMAIN accepts :
        NotAccepted(i) \/ AcceptedTcp(i) \/ AcceptedTls(i) \/ AcceptedWs(i) \/ AcceptedTlsWs(i)

LayerHandler(c) ==
    \/ TlsHandshaken(c)
    \/ WsRequest(c) \/ WsUpgraded(c)
    \/ TlsWsHandshaken(c) \/ TlsWsRequest(c) \/ TlsWsUpgraded(c)

Next ==
    \/ Listen \/ Close \/ Reset \/ AcceptFails
    \/ AcceptHandler
    \/ \E c \in Conns : PeerConnects(c) \/ TimerExpires(c) \/ TimedOut(c) \/ LayerHandler(c)
    \/ \E c \in Conns, result \in {"ok", "failed"} : PeerAnswers(c, result)

Spec == Init /\ [][Next]_vars

(* The io_contexts run and timers expire; peers and the application owe nothing. *)
FairSpec ==
    /\ Spec
    /\ WF_vars(Reset) /\ WF_vars(AcceptHandler)
    /\ \A c \in Conns :
          WF_vars(TimerExpires(c)) /\ WF_vars(TimedOut(c)) /\ WF_vars(LayerHandler(c))

-----------------------------------------------------------------------------
(* Properties *)

(* At most one of: an async_accept, a connection whose end starts the next
   one. Two chains would each accept connections and double with every
   listen(); none is found by a peer that no one accepts. acceptor_ is never
   used empty. *)
OneChain ==
    /\ Len(accepts) + (IF Serial THEN Cardinality(InHandshake) ELSE 0) <= 1
    /\ ~threw

(* The application gets an endpoint or an error once each, the error first if
   it gets both: the timeout can overtake a handshake that has just
   succeeded. The timer closes an endpoint's socket in that case only. *)
HandedOver ==
    \A c \in Conns :
        \/ conns[c].told \in {<<>>, <<"error">>}
        \/ conns[c].told = <<"accept">> /\ conns[c].open
        \/ conns[c].told = <<"error", "accept">> /\ ~conns[c].open

(* A server that listens comes to accept again whatever its peers do: one
   that stays silent in a handshake only holds it up. *)
KeepsAccepting ==
    (listens > 0 /\ acceptor # 0 /\ ~closeRequest)
        ~> (\/ \E i \in DOMAIN accepts : accepts[i].state = "waiting"
            \/ acceptor = 0 \/ closeRequest)
=============================================================================
