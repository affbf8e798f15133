------------------------- MODULE ConnectionLifetime -------------------------
(***************************************************************************)
(* The life of a client's connections: connecting, the PINGREQ and         *)
(* PINGRESP timers, disconnecting with and without a timeout, forced       *)
(* disconnection, the shutdown of the socket and its timer, the write      *)
(* queue, and on_close or on_error at the end, after which the application *)
(* may connect again with the same client. The client is asynchronous      *)
(* (async_operation_), with a ping interval and a PINGRESP timeout set.    *)
(*                                                                         *)
(* Posted functions and the handlers of timers that expired or were        *)
(* cancelled are run in order by one thread; reads, writes, closing and    *)
(* the peer interleave with them.                                          *)
(***************************************************************************)
EXTENDS Integers, SequencesExt

CONSTANTS
    Layered,        \* TLS or WebSocket over TCP: closing waits for the peer's answer
    Patient,        \* the ping interval does not run out before CONNACK, nor before
                    \* PINGRESP is handled and the timer's cancelled handler has run
    Mixed,          \* the application may force a disconnection after it asked for one
                    \* with a timeout
    MaxQueueSendCount,  \* max_queue_send_count_; 0: no limit
    MaxActs,        \* bound: connections, publishes and disconnections the application
                    \* asks for
    MaxPings        \* bound: PINGREQs that wait for an answer

ASSUME LifetimeAssumption ==
    /\ {Layered, Patient, Mixed} \subseteq BOOLEAN
    /\ MaxQueueSendCount \in Nat
    /\ MaxActs \in Nat /\ MaxPings \in Nat \ {0}

VARIABLES
    conn,           \* number of the connection
    stage,          \* none, connecting, handshake, session or failed
    flags,          \* connected_, mqtt_connected_, shutdown_requested_, disconnect_requested_,
                    \* async_shutdown_handler_called_
    timers,         \* tim_ping_, tim_pingresp_, tim_close_, tim_shutdown_: armed or not
    pongSet,        \* tim_pingresp_set_
    tasks,          \* functions and handlers that wait to run
    shutters,       \* async_shutdown_handler_queue_
    queue,          \* queue_: packets to write, the first `writing` of them under way
    writing,
    sock,           \* the socket: open, closing or closed
    closeOp,        \* async_clean_shutdown_and_close: none, pending or done
    reader,         \* whether a read is pending
    inbox,          \* what the peer sent
    peer,           \* the peer: up; silent; the answers it owes
    app,            \* how a disconnection was asked for on this connection: no, timed, untimed
    calls,          \* what the application has asked for
    owed,           \* completion handlers that were given and not called
    told,           \* on_close and on_error calls of this connection
    unanswered      \* PINGREQs of this connection that wait for their PINGRESP

vars == <<conn, stage, flags, timers, pongSet, tasks, shutters, queue, writing, sock, closeOp,
          reader, inbox, peer, app, calls, owed, told, unanswered>>

Handlers == {"connect", "publish", "disconnect", "force"}

NoPeer == [up |-> FALSE, silent |-> TRUE, connack |-> FALSE, pongs |-> 0]

Init ==
    /\ conn = 0 /\ stage = "none"
    /\ flags = [connected |-> FALSE, mqtt |-> FALSE, shutdown |-> FALSE, asked |-> FALSE,
                called |-> FALSE]
    /\ timers = [t \in {"ping", "pong", "close", "shut"} |-> FALSE]
    /\ pongSet = FALSE
    /\ tasks = <<>> /\ shutters = <<>>
    /\ queue = <<>> /\ writing = 0
    /\ sock = "closed" /\ closeOp = "none"
    /\ reader = FALSE /\ inbox = <<>>
    /\ peer = NoPeer
    /\ app = "no" /\ calls = 0
    /\ owed = [h \in Handlers |-> 0]
    /\ told = <<>> /\ unanswered = 0

Connected == flags.connected /\ flags.mqtt

CanSend == flags.connected /\ ~flags.shutdown

Post(task) == tasks' = Append(tasks, task)

Give(h) == owed' = [owed EXCEPT ![h] = @ + 1]

Count(s, x) == Cardinality({i \in DOMAIN s : s[i] = x})

(* The handlers in a sequence are called; some packets have none. *)
Called(hs) == [h \in Handlers |-> owed[h] - Count(hs, h)]

-----------------------------------------------------------------------------
(* The end of a connection *)

(* handle_close_or_error's call_handler, if it is among the handlers hs that
   are called: on_close or on_error, and the client's ping timer is off. fl and
   tm are the flags and timers they find. *)
CallHandlers(hs, fl, tm) ==
    LET notice == Contains(hs, "notice")
    IN  /\ told' = IF notice THEN Append(told, IF fl.asked THEN "close" ELSE "error") ELSE told
        /\ flags' = [fl EXCEPT !.asked = @ /\ ~notice]
        /\ timers' = [tm EXCEPT !["ping"] = @ /\ ~notice]
        /\ owed' = Called(hs)

(* Mutant: async_shutdown does not arm tim_shutdown_. *)
ShutdownUntimed(f) ==
    \/ /\ flags.shutdown /\ flags.called
       /\ CallHandlers(<<f>>, flags, timers)
       /\ UNCHANGED <<shutters, sock, closeOp>>
    \/ /\ flags.shutdown /\ ~flags.called
       /\ shutters' = Append(shutters, f)
       /\ UNCHANGED <<flags, timers, sock, closeOp, told, owed>>
    \/ /\ ~flags.shutdown
       /\ flags' = [flags EXCEPT !.shutdown = TRUE, !.mqtt = FALSE, !.called = FALSE]
       /\ shutters' = Append(shutters, f)
       /\ sock' = IF sock = "open" THEN "closing" ELSE sock
       /\ closeOp' = IF Layered THEN "pending" ELSE "done"
       /\ UNCHANGED <<timers, told, owed>>

(* async_shutdown(f) *)
Shutdown(f) ==
    \/ /\ flags.shutdown /\ flags.called
       /\ CallHandlers(<<f>>, flags, timers)
       /\ UNCHANGED <<shutters, sock, closeOp>>
    \/ /\ flags.shutdown /\ ~flags.called
       /\ shutters' = Append(shutters, f)
       /\ UNCHANGED <<flags, timers, sock, closeOp, told, owed>>
    \/ /\ ~flags.shutdown
       /\ flags' = [flags EXCEPT !.shutdown = TRUE, !.mqtt = FALSE, !.called = FALSE]
       /\ shutters' = Append(shutters, f)
       /\ sock' = IF sock = "open" THEN "closing" ELSE sock
       /\ closeOp' = IF Layered THEN "pending" ELSE "done"
       /\ timers' = [timers EXCEPT !["shut"] = TRUE]
       /\ UNCHANGED <<told, owed>>

(* The socket is closed and the handlers that wait for it are called. *)
RunShutters(tm) ==
    /\ sock' = "closed"
    /\ CallHandlers(shutters, [flags EXCEPT !.connected = FALSE, !.called = TRUE], tm)
    /\ shutters' = <<>>

(* async_clean_shutdown_and_close completes. With layers it waits for the
   peer, unless the peer is gone or the socket is closed under it. *)
CloseAnswered ==
    /\ closeOp = "pending" /\ peer.up /\ ~peer.silent
    /\ closeOp' = "done"
    /\ UNCHANGED <<conn, stage, flags, timers, pongSet, tasks, shutters, queue, writing, sock,
                   reader, inbox, peer, app, calls, owed, told, unanswered>>

CloseFails ==
    /\ closeOp = "pending" /\ (sock = "closed" \/ ~peer.up)
    /\ closeOp' = "done"
    /\ UNCHANGED <<conn, stage, flags, timers, pongSet, tasks, shutters, queue, writing, sock,
                   reader, inbox, peer, app, calls, owed, told, unanswered>>

CloseDone ==
    /\ closeOp = "done"
    /\ closeOp' = "none"
    /\ RunShutters([timers EXCEPT !["shut"] = FALSE])
    /\ UNCHANGED <<conn, stage, pongSet, tasks, queue, writing, reader, inbox, peer, app, calls,
                   unanswered>>

(* handle_close_or_error: the pending read fails. *)
ReadFails ==
    /\ reader
    /\ sock = "closed" \/ closeOp = "done" \/ (~peer.up /\ inbox = <<>>)
    /\ reader' = FALSE
    /\ \/ flags.connected /\ Shutdown("notice")
       \/ /\ ~flags.connected
          /\ CallHandlers(<<"notice">>, flags, timers)
          /\ UNCHANGED <<shutters, sock, closeOp>>
    /\ UNCHANGED <<conn, stage, pongSet, tasks, queue, writing, inbox, peer, app, calls, unanswered>>

-----------------------------------------------------------------------------
(* Connecting *)

(* async_connect, with a new socket, once the last connection's end was told *)
Connect ==
    /\ conn + calls < MaxActs
    /\ stage \in {"none", "failed"} \/ (told # <<>> /\ sock = "closed" /\ ~reader)
    /\ conn' = conn + 1
    /\ stage' = "connecting"
    /\ Give("connect")
    /\ told' = <<>> /\ inbox' = <<>> /\ unanswered' = 0
    /\ app' = "no"
    /\ UNCHANGED <<calls, flags, timers, pongSet, tasks, shutters, queue, writing, sock, closeOp,
                   reader, peer>>

(* What closing the last socket has queued runs before a TCP connection is made. *)
Settled == tasks = <<>> /\ writing = 0 /\ closeOp = "none"

(* async_start_session: the CONNECT packet is posted. *)
Session(fl) ==
    /\ stage' = "session"
    /\ reader' = TRUE
    /\ flags' = [fl EXCEPT !.shutdown = FALSE]
    /\ Post([do |-> "write", packet |-> "connect"])

TcpConnected ==
    /\ stage = "connecting" /\ Settled
    /\ sock' = "open"
    /\ timers' = [timers EXCEPT !["ping"] = TRUE]
    /\ peer' = [up |-> TRUE, silent |-> FALSE, connack |-> FALSE, pongs |-> 0]
    /\ IF Layered
       THEN /\ stage' = "handshake"
            /\ flags' = [flags EXCEPT !.connected = TRUE]
            /\ UNCHANGED <<reader, tasks>>
       ELSE Session([flags EXCEPT !.connected = TRUE])
    /\ UNCHANGED <<conn, pongSet, shutters, queue, writing, closeOp, inbox, app, calls, owed, told,
                   unanswered>>

Handshaken ==
    /\ stage = "handshake" /\ sock = "open" /\ peer.up /\ ~peer.silent
    /\ Session(flags)
    /\ UNCHANGED <<conn, timers, pongSet, shutters, queue, writing, sock, closeOp, inbox, peer,
                   app, calls, owed, told, unanswered>>

(* No name, no route, or no handshake: only async_connect's handler is told. *)
NotConnected ==
    /\ stage \in {"connecting", "handshake"}
    /\ stage' = "failed" /\ sock' = "closed"
    /\ owed' = Called(<<"connect">>)
    /\ UNCHANGED <<conn, flags, timers, pongSet, tasks, shutters, queue, writing, closeOp,
                   reader, inbox, peer, app, calls, told, unanswered>>
-----------------------------------------------------------------------------
(* Writing *)

(* async_publish, and async_disconnect with a timeout or without *)
Publish ==
    /\ Connected /\ conn + calls < MaxActs
    /\ calls' = calls + 1
    /\ Post([do |-> "write", packet |-> "publish"])
    /\ Give("publish")
    /\ UNCHANGED <<conn, stage, flags, timers, pongSet, shutters, queue, writing, sock, closeOp,
                   reader, inbox, peer, app, told, unanswered>>

Disconnect(how) ==
    /\ Connected /\ app = "no" /\ conn + calls < MaxActs
    /\ calls' = calls + 1
    /\ app' = how
    /\ timers' = [timers EXCEPT !["ping"] = FALSE, !["close"] = @ \/ how = "timed"]
    /\ flags' = [flags EXCEPT !.asked = TRUE]
    /\ Post([do |-> "write", packet |-> "disconnect"])
    /\ Give("disconnect")
    /\ UNCHANGED <<conn, stage, pongSet, shutters, queue, writing, sock, closeOp, reader, inbox,
                   peer, told, unanswered>>

(* async_force_disconnect, in the handshake too *)
ForceDisconnect ==
    /\ Connected \/ stage = "handshake"
    /\ Mixed \/ app # "timed"
    /\ conn + calls < MaxActs
    /\ calls' = calls + 1
    /\ timers' = [timers EXCEPT !["ping"] = FALSE, !["close"] = FALSE]
    /\ Post([do |-> "force", then |-> "force"])
    /\ Give("force")
    /\ UNCHANGED <<conn, stage, flags, pongSet, shutters, queue, writing, sock, closeOp, reader,
                   inbox, peer, app, told, unanswered>>

(* The next function or handler to run *)
Runs(task) == tasks # <<>> /\ Head(tasks).do = task

(* do_async_write(): how many of the queued packets are written at once *)
Batch(packets) ==
    IF MaxQueueSendCount = 0 \/ Len(packets) < MaxQueueSendCount THEN Len(packets)
    ELSE MaxQueueSendCount

(* Mutant: a packet that can no longer be sent is dropped without its handler being called. *)
RunWriteDropping ==
    /\ Runs("write")
    /\ tasks' = Tail(tasks)
    /\ IF CanSend
       THEN /\ queue' = Append(queue, Head(tasks).packet)
            /\ writing' = IF queue = <<>> THEN Batch(queue') ELSE writing
            /\ timers' = [timers EXCEPT !["ping"] = @ \/ queue = <<>>]
       ELSE UNCHANGED <<queue, writing, timers>>
    /\ UNCHANGED <<conn, stage, flags, pongSet, shutters, sock, closeOp, reader, inbox, peer, app, calls,
                   owed, told, unanswered>>

(* do_async_write(mv, func): the packet is queued if it can be sent, and
   written at once if nothing is being written. on_pre_send arms the ping timer. *)
RunWrite ==
    /\ Runs("write")
    /\ tasks' = Tail(tasks)
    /\ IF CanSend
       THEN /\ queue' = Append(queue, Head(tasks).packet)
            /\ writing' = IF queue = <<>> THEN Batch(queue') ELSE writing
            /\ timers' = [timers EXCEPT !["ping"] = @ \/ queue = <<>>]
            /\ UNCHANGED owed
       ELSE /\ owed' = Called(<<Head(tasks).packet>>)
            /\ UNCHANGED <<queue, writing, timers>>
    /\ UNCHANGED <<conn, stage, flags, pongSet, shutters, sock, closeOp, reader, inbox, peer, app, calls,
                   told, unanswered>>

(* write_completion_handler: the handlers of the packets written are called.
   The rest is written next, or called too once the connection is over. *)
Received(packets) ==
    IF peer.silent THEN peer
    ELSE [peer EXCEPT !.connack = @ \/ Contains(packets, "connect"),
                      !.pongs = @ + Count(packets, "pingreq")]

WriteDone ==
    /\ writing > 0 /\ peer.up /\ sock # "closed"
    /\ LET rest == SubSeq(queue, writing + 1, Len(queue))
       IN  IF flags.connected
           THEN /\ queue' = rest /\ writing' = Batch(rest)
                /\ timers' = [timers EXCEPT !["ping"] = @ \/ rest # <<>>]
                /\ owed' = Called(SubSeq(queue, 1, writing))
           ELSE /\ queue' = <<>> /\ writing' = 0
                /\ owed' = Called(queue)
                /\ UNCHANGED timers
    /\ peer' = Received(SubSeq(queue, 1, writing))
    /\ UNCHANGED <<conn, stage, flags, pongSet, tasks, shutters, sock, closeOp, reader, inbox,
                   app, calls, told, unanswered>>

WriteFails ==
    /\ writing > 0 /\ (sock = "closed" \/ ~peer.up)
    /\ queue' = <<>> /\ writing' = 0
    /\ owed' = Called(queue)
    /\ UNCHANGED <<conn, stage, flags, timers, pongSet, tasks, shutters, sock, closeOp, reader,
                   inbox, peer, app, calls, told, unanswered>>

-----------------------------------------------------------------------------
(* Timers *)

(* Bound: the ping interval is longer than the last ping takes to be queued. *)
PingWaits ==
    \E i \in DOMAIN tasks :
        \/ tasks[i].do = "ping"
        \/ tasks[i].do = "write" /\ tasks[i].packet = "pingreq"

(* A PINGRESP waits to be read, or the handler of the timer it cancelled to run. *)
AnswerWaits == Contains(inbox, "pingresp") \/ Contains(tasks, [do |-> "pong cancelled"])

(* tim_ping_, tim_pingresp_, tim_close_ and tim_shutdown_, whose handlers wait to run *)
TimerExpires(t) ==
    /\ timers[t]
    /\ t = "ping" => /\ (Patient => (flags.mqtt \/ stage # "session") /\ ~AnswerWaits)
                     /\ peer.silent \/ unanswered < MaxPings
                     /\ ~PingWaits
    /\ timers' = [timers EXCEPT ![t] = FALSE]
    /\ Post([do |-> t])
    /\ UNCHANGED <<conn, stage, flags, pongSet, shutters, queue, writing, sock, closeOp, reader,
                   inbox, peer, app, calls, owed, told, unanswered>>

(* handle_timer: a PINGREQ, and set_pingresp_timer. PINGREQs to a peer that no
   longer answers are counted up to MaxPings. *)
RunPing ==
    /\ Runs("ping")
    /\ IF Connected
       THEN /\ tasks' = Append(Tail(tasks), [do |-> "write", packet |-> "pingreq"])
            /\ unanswered' = IF unanswered < MaxPings THEN unanswered + 1 ELSE unanswered
            /\ pongSet' = TRUE
            /\ timers' = [timers EXCEPT !["pong"] = @ \/ ~pongSet]
       ELSE tasks' = Tail(tasks) /\ UNCHANGED <<unanswered, pongSet, timers>>
    /\ UNCHANGED <<conn, stage, flags, shutters, queue, writing, sock, closeOp, reader, inbox,
                   peer, app, calls, owed, told>>

(* The PINGRESP timer's handler when it expired, and when it was cancelled.
   What it posts, and what the handlers of the next two timers post, is taken
   as done at once. *)
RunPong ==
    /\ Runs("pong")
    /\ pongSet' = FALSE
    /\ tasks' = Tail(tasks)
    /\ Shutdown("none")
    /\ UNCHANGED <<conn, stage, queue, writing, reader, inbox, peer, app, calls, unanswered>>


(* Mutant: tim_pingresp_set_ stays set when the timer is cancelled. *)
RunPongCancelledSet ==
    /\ Runs("pong cancelled")
    /\ tasks' = Tail(tasks)
    /\ UNCHANGED <<conn, stage, flags, timers, pongSet, shutters, queue, writing, sock, closeOp,
                   reader, inbox, peer, app, calls, owed, told, unanswered>>

RunPongCancelled ==
    /\ Runs("pong cancelled")
    /\ pongSet' = FALSE
    /\ tasks' = Tail(tasks)
    /\ UNCHANGED <<conn, stage, flags, timers, shutters, queue, writing, sock, closeOp, reader,
                   inbox, peer, app, calls, owed, told, unanswered>>

RunForce ==
    /\ Runs("force")
    /\ tasks' = Tail(tasks)
    /\ Shutdown(Head(tasks).then)
    /\ UNCHANGED <<conn, stage, pongSet, queue, writing, reader, inbox, peer, app, calls, unanswered>>

(* tim_close_: client::force_disconnect, that is sync_force_shutdown *)
RunClose ==
    /\ Runs("close")
    /\ tasks' = Tail(tasks)
    /\ timers' = [timers EXCEPT !["ping"] = FALSE, !["close"] = FALSE]
    /\ IF flags.shutdown THEN UNCHANGED <<flags, sock>>
       ELSE /\ flags' = [flags EXCEPT !.shutdown = TRUE, !.mqtt = FALSE, !.connected = FALSE]
            /\ sock' = "closed"
    /\ UNCHANGED <<conn, stage, pongSet, shutters, queue, writing, closeOp, reader, inbox, peer,
                   app, calls, owed, told, unanswered>>

(* tim_shutdown_: the socket is closed under the closing exchange. *)
RunShut ==
    /\ Runs("shut")
    /\ tasks' = Tail(tasks)
    /\ RunShutters(timers)
    /\ UNCHANGED <<conn, stage, pongSet, queue, writing, closeOp, reader, inbox, peer, app, calls,
                   unanswered>>

-----------------------------------------------------------------------------
(* Reading *)

Reads(packet) == reader /\ sock # "closed" /\ inbox # <<>> /\ Head(inbox) = packet

ReadConnack ==
    /\ Reads("connack")
    /\ inbox' = Tail(inbox)
    /\ flags' = [flags EXCEPT !.mqtt = TRUE]
    /\ UNCHANGED <<conn, stage, timers, pongSet, tasks, shutters, queue, writing, sock, closeOp,
                   reader, peer, app, calls, owed, told, unanswered>>

(* process_pingresp cancels the PINGRESP timer. *)
ReadPingresp ==
    /\ Reads("pingresp") /\ flags.mqtt
    /\ inbox' = Tail(inbox)
    /\ unanswered' = IF unanswered > 0 THEN unanswered - 1 ELSE 0
    /\ timers' = [timers EXCEPT !["pong"] = FALSE]
    /\ tasks' = IF timers["pong"] THEN Append(tasks, [do |-> "pong cancelled"]) ELSE tasks
    /\ UNCHANGED <<conn, stage, flags, pongSet, shutters, queue, writing, sock, closeOp, reader,
                   peer, app, calls, owed, told>>

ReadDisconnect ==
    /\ Reads("disconnect")
    /\ inbox' = Tail(inbox)
    /\ Shutdown("none")
    /\ UNCHANGED <<conn, stage, pongSet, tasks, queue, writing, reader, peer, app, calls, unanswered>>

(* Mutant: reading goes on after a protocol error was told. *)
ReadRefusedOn ==
    /\ Reads("malformed") \/ (Reads("pingresp") /\ ~flags.mqtt)
    /\ inbox' = Tail(inbox)
    /\ told' = Append(told, "error")
    /\ timers' = [timers EXCEPT !["ping"] = FALSE]
    /\ UNCHANGED <<conn, stage, flags, pongSet, tasks, shutters, queue, writing, sock, closeOp,
                   reader, peer, app, calls, owed, unanswered>>

(* A malformed packet, or one that is read while mqtt_connected_ is not set,
   is a protocol error: on_error, and nothing more is read. The socket stays open. *)
ReadRefused ==
    /\ Reads("malformed") \/ (Reads("pingresp") /\ ~flags.mqtt)
    /\ inbox' = Tail(inbox)
    /\ reader' = FALSE
    /\ told' = Append(told, "error")
    /\ timers' = [timers EXCEPT !["ping"] = FALSE]
    /\ UNCHANGED <<conn, stage, flags, pongSet, tasks, shutters, queue, writing, sock, closeOp,
                   peer, app, calls, owed, unanswered>>

-----------------------------------------------------------------------------
(* The peer answers, sends something else, closes, or is not heard of again. *)
Peer(p, packets) ==
    /\ peer.up /\ ~peer.silent
    /\ peer' = p
    /\ inbox' = inbox \o packets
    /\ UNCHANGED <<conn, stage, flags, timers, pongSet, tasks, shutters, queue, writing, sock,
                   closeOp, reader, app, calls, owed, told, unanswered>>

PeerActs ==
    \/ peer.connack /\ Peer([peer EXCEPT !.connack = FALSE], <<"connack">>)
    \/ peer.pongs > 0 /\ Peer([peer EXCEPT !.pongs = @ - 1], <<"pingresp">>)
    \/ reader /\ inbox = <<>> /\ Peer(peer, <<"malformed">>)
    \/ \E packets \in {<<>>, <<"disconnect">>} : Peer(NoPeer, packets)
    \/ stage = "session" /\ Peer([NoPeer EXCEPT !.up = TRUE], <<>>)

-----------------------------------------------------------------------------
RunTask ==
    RunWrite \/ RunPing \/ RunPong \/ RunPongCancelled \/ RunForce \/ RunClose \/ RunShut

Read == ReadConnack \/ ReadPingresp \/ ReadDisconnect \/ ReadRefused \/ ReadFails

Next ==
    \/ Connect \/ TcpConnected \/ Handshaken \/ NotConnected
    \/ Publish \/ Disconnect("timed") \/ Disconnect("untimed") \/ ForceDisconnect
    \/ RunTask \/ \E t \in DOMAIN timers : TimerExpires(t)
    \/ WriteDone \/ WriteFails
    \/ CloseAnswered \/ CloseFails \/ CloseDone
    \/ Read
    \/ PeerActs

Spec == Init /\ [][Next]_vars

(* The io_context runs what is queued, timers expire, and operations on a
   socket that is closed or has lost its peer end. *)
FairSpec ==
    /\ Spec
    /\ WF_vars(RunTask) /\ WF_vars(Read) /\ WF_vars(WriteFails)
    /\ WF_vars(CloseFails) /\ WF_vars(CloseDone)
    /\ \A t \in {"ping", "pong", "close", "shut"} : WF_vars(TimerExpires(t))

-----------------------------------------------------------------------------
(* Properties *)

(* on_close or on_error is called at most once for a connection, and no
   completion handler is called twice. *)
ToldOnce ==
    /\ Len(told) <= 1
    /\ \A h \in Handlers : owed[h] >= 0

(* async_force_disconnect ends: its handler is called, because of
   tim_shutdown_ even if the peer never answers the closing exchange. *)
ForceEnds == (owed["force"] > 0) ~> (owed["force"] = 0)

(* A peer that is not heard of again is noticed: the application gets
   on_close or on_error, unless it has asked for a disconnection without a timeout. *)
SilenceIsNoticed ==
    (stage = "session" /\ Connected /\ peer.silent /\ app # "untimed")
        ~> (told # <<>> \/ app = "untimed")

(* async_publish's handler is called, whether the write ends, fails, is
   refused or is given up: the silence of the peer ends the connection and with
   it the write, unless on_error was told without closing the socket. *)
PublishEnds ==
    (owed["publish"] > 0 /\ app # "untimed")
        ~> (owed["publish"] = 0 \/ app = "untimed" \/ (told # <<>> /\ sock = "open"))
=============================================================================
