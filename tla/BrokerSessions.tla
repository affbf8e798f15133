--------------------------- MODULE BrokerSessions ---------------------------
(***************************************************************************)
(* The life of one client id's session in the broker (broker.hpp,          *)
(* session_state.hpp) over successive connections: CONNECT with and        *)
(* without Clean Start on a session that is absent, online or offline, the *)
(* end of a connection by DISCONNECT, by loss or by take-over, the session *)
(* expiry timer, the will with its delay and its expiry. What the session  *)
(* holds (subscriptions, queued and unacknowledged messages) is one value, *)
(* the connection that started it. A v3.1.1 client's connections are those *)
(* with clean = (expiry = "zero") and expiry # "finite". A CONNECT may ask *)
(* for a response topic, for which the broker adds a rule that it removes  *)
(* with the session's state (Authorization).                               *)
(***************************************************************************)
EXTENDS Authorization

CONSTANTS
    MaxCons,        \* connections of the client id, in the order of their CONNECTs
    Params,         \* what a CONNECT asks for, see below
    Credentials,    \* what it identifies itself with: [cert, name, password]
    User,           \* the user of the client id
    Uuid,           \* create_uuid_string(), for the session_state born with a connection
    Overtaking      \* TRUE if other events of the client id come between a CONNACK
                    \* and its completion handler

ASSUME SessionsAssumption ==
    /\ MaxCons \in Nat \ {0}
    /\ Params \subseteq [clean : BOOLEAN, expiry : {"zero", "finite", "never"},
                         will : {"none", "now", "delayed"}, willExpires : BOOLEAN,
                         request : BOOLEAN]
    /\ User \in DOMAIN Accounts
    /\ Uuid \in Seq(STRING \ SystemLevels) /\ Len(Uuid) >= MaxCons
    /\ Overtaking \in BOOLEAN

Connections == 1..MaxCons
None == 0

VARIABLES
    con,        \* state of each connection's transport
    param,      \* the parameters of its CONNECT
    left,       \* how it ended: "no", "disconnect", "lost" or "taken"
    connack,    \* what its CONNACK says, "no" before
    sess,       \* the session_state of the client id
    pending,    \* CONNACKs whose completion handler has not run: the connection and
                \* the session_state its iterator was found on, by its first connection
    auth,       \* security: the configured rules and those of response topics
    dangling,   \* a completion handler used the iterator of an erased session
    fate,       \* history: what became of each connection's will
    orphans     \* history: connections that took over an online session with Clean Start

vars == <<con, param, left, connack, sess, pending, auth, dangling, fate, orphans>>

NoParam == [clean |-> FALSE, expiry |-> "zero", will |-> "none", willExpires |-> FALSE,
            request |-> FALSE]

(* No element of sessions_ for the client id. *)
NoSession == [alive |-> FALSE, con |-> None, expiry |-> "zero", expTimer |-> FALSE,
              will |-> None, willTimer |-> FALSE, delay |-> FALSE, remain |-> FALSE,
              born |-> None, data |-> None, topic |-> FALSE, rule |-> 0]

Init ==
    /\ con = [k \in Connections |-> "none"]
    /\ param = [k \in Connections |-> NoParam]
    /\ left = [k \in Connections |-> "no"]
    /\ connack = [k \in Connections |-> "no"]
    /\ sess = NoSession
    /\ pending = {}
    /\ auth = Configured
    /\ dangling = FALSE
    /\ fate = [k \in Connections |-> "none"]
    /\ orphans = {}

-----------------------------------------------------------------------------
(* session_state, on a record of the session, the wills' fates and the rules. *)

(* Some operation takes the will away. *)
WillTaken(S, how) ==
    IF S.sess.will = None THEN S
    ELSE [S EXCEPT !.sess.will = None, !.fate[S.sess.will] = how]

(* update_will(): a will that is still there is dropped. *)
UpdateWill(S, k, p) ==
    LET S1 == WillTaken(S, "dropped")
        has == p.will # "none"
    IN  [S1 EXCEPT !.sess.will = IF has THEN k ELSE None,
                   !.sess.willTimer = has /\ p.willExpires,
                   !.fate[k] = IF has THEN "held" ELSE "none"]

(* clear_will() *)
ClearWill(S, how) ==
    LET S1 == WillTaken(S, how)
    IN  [S1 EXCEPT !.sess.willTimer = FALSE]

(* send_will_impl() *)
SendWillImpl(S) == WillTaken(S, "sent")

(* send_will() *)
SendWill(S) ==
    IF S.sess.will # None /\ S.sess.remain /\ param[S.sess.will].will = "delayed"
    THEN [S EXCEPT !.sess.delay = TRUE]
    ELSE SendWillImpl(S)

(* A mutant: the timer is only started for sessions that never expire. *)
BecomeOfflineNoTimer(S) == [S EXCEPT !.sess.con = None]

(* become_offline() *)
BecomeOffline(S) ==
    [S EXCEPT !.sess.con = None,
              !.sess.expTimer = IF S.sess.expiry = "finite" THEN TRUE ELSE @]

(* The constructor. *)
Constructed(S, k, p) ==
    UpdateWill([S EXCEPT !.sess = [NoSession EXCEPT !.alive = TRUE, !.con = k,
                                        !.expiry = p.expiry,
                                        !.remain = p.expiry # "zero",
                                        !.born = k, !.data = k]],
               k, p)

(* clean_handler_, which clean() calls and does not reset. *)
CleanHandled(S) ==
    IF S.sess.rule = 0 THEN S ELSE [S EXCEPT !.auth = RemoveAuth(@, S.sess.rule)]

(* A mutant: the destructor does not clean(). *)
DestroyedUncleaned(S) == [SendWillImpl(S) EXCEPT !.sess = NoSession]

(* The destructor, when sessions_ erases the element. *)
Destroyed(S) == [CleanHandled(SendWillImpl(S)) EXCEPT !.sess = NoSession]

(* A mutant: a session that is inherited keeps the previous will. *)
RenewKeepsWill(S, k, clean) ==
    LET S1 == [S EXCEPT !.sess.delay = FALSE, !.sess.con = k]
    IN  IF clean THEN SendWillImpl(S1) ELSE S1

(* renew(): cancels the delay of the will. *)
Renew(S, k, clean) ==
    LET S1 == [S EXCEPT !.sess.delay = FALSE, !.sess.con = k]
    IN  IF clean THEN SendWillImpl(S1) ELSE ClearWill(S1, "resumed")

(* renew_session_expiry() *)
RenewExpiry(S, p) == [S EXCEPT !.sess.expiry = p.expiry, !.sess.expTimer = FALSE]

(* clean() *)
CleanData(S, k) == [CleanHandled(S) EXCEPT !.sess.data = k]

-----------------------------------------------------------------------------
(* broker_t *)

Online == sess.alive /\ sess.con # None

(* session_clear *)
SessionClear(S) == S.sess.expiry = "zero"

(* A mutant: the connection is not looked for, the client id is. *)
CloseProcAny(S, k, will) ==
    LET S1 == IF will THEN SendWill(S) ELSE ClearWill(S, "discarded")
    IN  IF ~S.sess.alive THEN S
        ELSE IF SessionClear(S) THEN Destroyed(S1) ELSE BecomeOffline(S1)

(* close_proc_no_lock(): nothing for a connection no session has. *)
CloseProc(S, k, will) ==
    IF ~S.sess.alive \/ S.sess.con # k THEN S
    ELSE LET S1 == IF will THEN SendWill(S) ELSE ClearWill(S, "discarded")
         IN  IF SessionClear(S) THEN Destroyed(S1) ELSE BecomeOffline(S1)

Becomes(S) ==
    /\ sess' = S.sess
    /\ fate' = S.fate
    /\ auth' = S.auth

Now == [sess |-> sess, fate |-> fate, auth |-> auth]

ResponseTopic(born) == <<Uuid[born]>>

(* set_response_topic(): everybody may publish on the session's topic and  *)
(* its user may subscribe to it; the handler has the new rule's number.    *)
SetResponseTopic(S, p) ==
    IF ~p.request THEN S
    ELSE [S EXCEPT !.sess.topic = TRUE,
                   !.sess.rule = NextRule(S.auth),
                   !.auth = AddAuth(@, ResponseTopic(S.sess.born), {AnyGroup}, "allow",
                                    {User}, "allow")]

(* The completion of the CONNACK that says the session is inherited. *)
Inherited(S, k) == RenewExpiry(UpdateWill(Renew(S, k, FALSE), k, param[k]), param[k])

(* What another event of the client id waits for. *)
Quiet == Overtaking \/ pending = {}

Fresh(k) ==
    /\ con[k] = "none"
    /\ \A j \in 1..(k - 1) : con[j] # "none"
    /\ Quiet

Accepted(k, p, present) ==
    /\ \E c \in Credentials : UserOf(c) = User
    /\ param' = [param EXCEPT ![k] = p]
    /\ connack' = [connack EXCEPT ![k] = present]

(* connect_handler(), login refused: CONNACK, then the connection is closed. *)
ConnectRefused(k) ==
    /\ Fresh(k)
    /\ \E c \in Credentials : UserOf(c) = Absent
    /\ con' = [con EXCEPT ![k] = "closing"]
    /\ connack' = [connack EXCEPT ![k] = "refused"]
    /\ UNCHANGED <<param, left, sess, pending, auth, dangling, fate, orphans>>

(* handle_empty_client_id(): without a client id and without Clean Start a *)
(* v3.1.1 CONNECT is refused. With Clean Start, and in v5, the broker makes*)
(* up a client id: the session is another one, of which Init is the start. *)
ConnectUnnamed(k) ==
    /\ Fresh(k)
    /\ \E c \in Credentials : UserOf(c) # Absent
    /\ \E p \in Params : ~p.clean
    /\ con' = [con EXCEPT ![k] = "closing"]
    /\ connack' = [connack EXCEPT ![k] = "identifier_rejected"]
    /\ UNCHANGED <<param, left, sess, pending, auth, dangling, fate, orphans>>

(* connect_handler(), no session of that client id. *)
ConnectNew(k, p) ==
    /\ Fresh(k)
    /\ ~sess.alive
    /\ con' = [con EXCEPT ![k] = "open"]
    /\ Accepted(k, p, "new")
    /\ Becomes(SetResponseTopic(Constructed(Now, k, p), p))
    /\ UNCHANGED <<left, pending, dangling, orphans>>

(* connect_handler(), the session is online: the other connection is taken over. *)
ConnectOnline(k, p) ==
    LET other == sess.con
        S     == CloseProc(Now, other, TRUE)
    IN  /\ Fresh(k)
        /\ Online
        /\ con' = [con EXCEPT ![k] = "open", ![other] = IF @ = "open" THEN "closing" ELSE @]
        /\ left' = [left EXCEPT ![other] = IF con[other] = "open" THEN "taken" ELSE @]
        /\ \/ /\ ~S.sess.alive      \* a new session
              /\ Accepted(k, p, "new")
              /\ Becomes(SetResponseTopic(Constructed(S, k, p), p))
              /\ UNCHANGED <<pending, orphans>>
           \/ /\ S.sess.alive       \* Clean Start: cleaned, but not renewed
              /\ p.clean
              /\ Accepted(k, p, "new")
              /\ Becomes(RenewExpiry(UpdateWill(CleanData(SetResponseTopic(S, p), k), k, p), p))
              /\ orphans' = orphans \union {k}
              /\ UNCHANGED pending
           \/ /\ S.sess.alive       \* inherited, once the CONNACK is written
              /\ ~p.clean
              /\ Accepted(k, p, "present")
              /\ Becomes(SetResponseTopic(S, p))
              /\ pending' = pending \union {<<k, sess.born>>}
              /\ UNCHANGED orphans
        /\ UNCHANGED dangling

(* connect_handler(), the session is offline. *)
ConnectOffline(k, p) ==
    /\ Fresh(k)
    /\ sess.alive
    /\ sess.con = None
    /\ con' = [con EXCEPT ![k] = "open"]
    /\ \/ /\ p.clean
          /\ Accepted(k, p, "new")
          /\ Becomes(RenewExpiry(UpdateWill(
                        Renew(CleanData(SetResponseTopic(Now, p), k), k, TRUE), k, p), p))
          /\ UNCHANGED pending
       \/ /\ ~p.clean
          /\ Accepted(k, p, "present")
          /\ pending' = pending \union {<<k, sess.born>>}
          /\ Becomes(SetResponseTopic(Now, p))
    /\ UNCHANGED <<left, dangling, orphans>>

(* The completion handler of the CONNACK that reports an inherited session,*)
(* with the iterator connect_handler() found; it does not look whether the *)
(* connection or the session is still there.                               *)
ConnackWritten(k, born) ==
    /\ <<k, born>> \in pending
    /\ pending' = pending \ {<<k, born>>}
    /\ UNCHANGED <<con, param, left, connack, orphans>>
    /\ IF sess.alive /\ sess.born = born
       THEN UNCHANGED dangling /\ Becomes(Inherited(Now, k))
       ELSE dangling' = TRUE /\ UNCHANGED <<sess, fate, auth>>

(* The CONNACK could not be written. *)
ConnackFails(k, born) ==
    /\ <<k, born>> \in pending
    /\ con[k] = "open"
    /\ pending' = pending \ {<<k, born>>}
    /\ con' = [con EXCEPT ![k] = "closing"]
    /\ left' = [left EXCEPT ![k] = "lost"]
    /\ UNCHANGED <<param, connack, sess, auth, dangling, fate, orphans>>

(* disconnect_handler() *)
Disconnect(k) ==
    /\ Quiet
    /\ con[k] = "open"
    /\ con' = [con EXCEPT ![k] = "closing"]
    /\ left' = [left EXCEPT ![k] = "disconnect"]
    /\ Becomes(CloseProc(Now, k, FALSE))
    /\ UNCHANGED <<param, connack, pending, dangling, orphans>>

(* The close or error handler of a connection the peer or the network ends,*)
(* or that the broker has closed before.                                   *)
ConnectionEnds(k) ==
    /\ Quiet
    /\ con[k] \in {"open", "closing"}
    /\ con' = [con EXCEPT ![k] = "closed"]
    /\ left' = [left EXCEPT ![k] = IF con[k] = "open" THEN "lost" ELSE @]
    /\ Becomes(CloseProc(Now, k, TRUE))
    /\ UNCHANGED <<param, connack, pending, dangling, orphans>>

(* tim_session_expiry_ *)
SessionExpires ==
    /\ Quiet
    /\ sess.expTimer
    /\ UNCHANGED <<con, param, left, connack, pending, dangling, orphans>>
    /\ Becomes(Destroyed(Now))

(* tim_will_delay_ *)
WillDelayPasses ==
    /\ Quiet
    /\ sess.delay
    /\ UNCHANGED <<con, param, left, connack, pending, dangling, orphans>>
    /\ Becomes(SendWillImpl([Now EXCEPT !.sess.delay = FALSE]))

(* tim_will_expiry_ *)
WillExpires ==
    /\ Quiet
    /\ sess.willTimer
    /\ UNCHANGED <<con, param, left, connack, pending, dangling, orphans>>
    /\ Becomes(ClearWill(Now, "expired"))

Next ==
    \/ \E k \in Connections :
        \/ ConnectRefused(k) \/ ConnectUnnamed(k)
        \/ \E p \in Params : ConnectNew(k, p) \/ ConnectOnline(k, p) \/ ConnectOffline(k, p)
        \/ \E born \in Connections : ConnackWritten(k, born) \/ ConnackFails(k, born)
        \/ Disconnect(k) \/ ConnectionEnds(k)
    \/ SessionExpires
    \/ WillDelayPasses
    \/ WillExpires

(* io_context runs the completion handlers it is given, and timers fire. *)
Fairness ==
    /\ \A k \in Connections :
        WF_vars(\E born \in Connections : ConnackWritten(k, born) \/ ConnackFails(k, born))
    /\ WF_vars(SessionExpires)
    /\ WF_vars(WillDelayPasses)

Spec == Init /\ [][Next]_vars /\ Fairness

-----------------------------------------------------------------------------
(* Properties *)

(* The connections whose CONNECT was accepted and whose handler has finished. *)
Served == {k \in Connections : /\ con[k] = "open"
                        /\ connack[k] \in {"new", "present"}
                        /\ \A x \in pending : x[1] # k}

(* Whatever the order of closing, taking over and late close events, the   *)
(* session is held by the one connection that is open, and by none that is *)
(* gone, or packets of the client would be ignored and messages be sent to *)
(* a dead connection (connect_handler(), close_proc()). A connection that  *)
(* took over an online session with Clean Start is left out: renew() is    *)
(* not called for it.                                                      *)
Attached ==
    /\ \A k \in Served \ orphans : sess.alive /\ sess.con = k
    /\ Online => con[sess.con] = "open"
    /\ ~dangling

(* The will of a connection that ended without DISCONNECT is not lost: it  *)
(* was published, or expired, or the client came back without Clean Start  *)
(* before its delay passed, or its delay is running. A will is dropped     *)
(* only by DISCONNECT, and never published while its connection is served  *)
(* (send_will(), update_will(), renew(), ~session_state()).                *)
WillKept ==
    orphans = {} =>
        \A k \in Connections :
            /\ fate[k] # "dropped"
            /\ (fate[k] = "discarded" => left[k] = "disconnect")
            /\ (fate[k] = "sent" => left[k] \in {"lost", "taken"})
            /\ (fate[k] = "held" => sess.alive /\ sess.will = k)
            /\ (fate[k] = "held" /\ left[k] # "no") => sess.delay

(* The state of a session goes only with a Clean Start, the end of a       *)
(* connection whose expiry interval is zero, or the session's expiry; and  *)
(* a CONNACK says session present exactly for a session that is kept.      *)
StateKept ==
    [][LET news == {k \in Connections : connack[k] = "no" /\ connack'[k] \in {"new", "present"}}
       IN  /\ (sess.data # None /\ sess'.data # sess.data) =>
                \/ \E k \in news : param'[k].clean
                \/ sess.expiry = "zero" /\ sess.con # None /\ con'[sess.con] # "open"
                \/ sess.expiry = "finite" /\ sess.con = None
           /\ \A k \in news : sess'.data = IF connack'[k] = "present" THEN sess.data ELSE k]_vars

(* A session whose client stays away ends when its expiry interval is      *)
(* over, and a delayed will is settled.                                    *)
EndsInTime ==
    /\ (sess.alive /\ sess.con = None /\ sess.expiry = "finite" /\ orphans = {})
            ~> (~sess.alive \/ sess.con # None \/ orphans # {})
    /\ \A k \in Connections :
        (fate[k] = "held" /\ left[k] # "no" /\ orphans = {})
            ~> (fate[k] # "held" \/ orphans # {})

(* A response topic works as long as the session that was told it lives,   *)
(* whoever reconnects, asks again or is taken over meanwhile: everybody    *)
(* may publish on it, only the session's user receives from it, and when   *)
(* the session is gone nobody does either (set_response_topic(), clean()). *)
(* After a Clean Start on the session that was there the topic no longer   *)
(* works: the rule is added before clean() removes it.                     *)
ResponseTopicServed ==
    \A b \in Connections :
        LET rt == ResponseTopic(b)
            mine == sess.alive /\ sess.born = b
        IN  /\ (mine /\ sess.topic /\ sess.data = b) =>
                    /\ AuthPub(auth, rt, Absent) = "allow"
                    /\ \A result \in AuthSub(auth, rt) :
                          {u \in DOMAIN Accounts : AuthSubUser(result, u) = "allow"} = {User}
                    /\ IsSubscribeAuthorized(auth, User, rt)
            /\ ~mine =>
                    /\ AuthPub(auth, rt, Absent) = "deny"
                    /\ \A result \in AuthSub(auth, rt) : AuthSubUser(result, User) = "deny"
=============================================================================
