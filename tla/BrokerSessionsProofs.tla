------------------------ MODULE BrokerSessionsProofs ------------------------
(***************************************************************************)
(* One client id's session in the broker, for every number of connections, *)
(* every set of CONNECT parameters and credentials and every               *)
(* configuration of the rules: the session belongs to the connection that  *)
(* is open, wills are kept, and state goes only when it may. The client    *)
(* id's events do not come between a CONNACK and its completion handler    *)
(* (~Overtaking).                                                          *)
(***************************************************************************)
EXTENDS BrokerSessions, TLAPS

Expiries == {"zero", "finite", "never"}

Fates == {"none", "held", "sent", "resumed", "dropped", "discarded", "expired"}

(* The number of a rule is left open: the rules play no part here. *)
IsSession(s) ==
    s \in [alive : BOOLEAN, con : 0..MaxCons, expiry : Expiries, expTimer : BOOLEAN,
           will : 0..MaxCons, willTimer : BOOLEAN, delay : BOOLEAN, remain : BOOLEAN,
           born : 0..MaxCons, data : 0..MaxCons, topic : BOOLEAN, rule : {s.rule}]

Types ==
    /\ con \in [Connections -> {"none", "open", "closing", "closed"}]
    /\ param \in [Connections -> Params \union {NoParam}]
    /\ left \in [Connections -> {"no", "disconnect", "lost", "taken"}]
    /\ connack \in [Connections -> {"no", "new", "present", "refused", "identifier_rejected"}]
    /\ IsSession(sess)
    /\ fate \in [Connections -> Fates]
    /\ orphans \subseteq Connections

(* The connection a session has is open, and its expiry timer runs only while
   it has none. *)
Holder ==
    /\ ~sess.alive => sess = NoSession
    /\ sess.con # None => con[sess.con] = "open"
    /\ sess.expTimer => sess.con = None /\ sess.expiry = "finite"
    /\ ~dangling

(* One CONNACK at most waits for its completion handler, of an open connection
   that will inherit the session, which is offline. *)
Waiting ==
    \/ pending = {}
    \/ \E k \in Connections :
          /\ pending = {<<k, sess.born>>} /\ sess.alive /\ sess.con = None
          /\ con[k] = "open"

(* An open connection has the session, will have it, or is an orphan. *)
Opens ==
    \A k \in Connections :
        /\ con[k] \in {"none", "open"} => left[k] = "no"
        /\ con[k] = "none" => connack[k] = "no"
        /\ con[k] = "open" =>
              k \in orphans \/ sess.con = k \/ \E x \in pending : x[1] = k

(* The session holds the will whose fate is open; it is that of the connection
   it has, or its delay runs. *)
HeldWill == \A k \in Connections : fate[k] = "held" <=> sess.will = k

WillOf ==
    /\ sess.con # None => sess.will \in {None, sess.con} /\ ~sess.delay
    /\ sess.con = None /\ sess.will # None =>
          sess.delay /\ left[sess.will] \in {"lost", "taken"}

FateOf ==
    \A k \in Connections :
        /\ fate[k] # "dropped"
        /\ fate[k] = "discarded" => left[k] = "disconnect"
        /\ fate[k] = "sent" => left[k] \in {"lost", "taken"}

Wills == HeldWill /\ (orphans = {} => WillOf /\ FateOf)

SInv == Types /\ Holder /\ Waiting /\ Opens /\ Wills

-----------------------------------------------------------------------------
(* What session_state's operations do to the session, the fates and the rules
   that a state holds *)

IsState(S) == S \in [sess : {S.sess}, fate : {S.fate}, auth : {S.auth}] /\ IsSession(S.sess)

Taken(f, will, how) == IF will = None THEN f ELSE [f EXCEPT ![will] = how]

WillFor(k, p) == IF p.will # "none" THEN k ELSE None

Marked(f, k, p) == [f EXCEPT ![k] = IF p.will # "none" THEN "held" ELSE "none"]

SameLife(r, s) ==
    r.alive = s.alive /\ r.con = s.con /\ r.expiry = s.expiry /\ r.expTimer = s.expTimer

SameData(r, s) == r.born = s.born /\ r.data = s.data

LEMMA WillTakenIs ==
    ASSUME NEW S, IsState(S), NEW how
    PROVE  LET R == WillTaken(S, how)
           IN  /\ IsState(R) /\ SameLife(R.sess, S.sess) /\ SameData(R.sess, S.sess)
               /\ R.sess.will = None /\ R.sess.delay = S.sess.delay
               /\ R.fate = Taken(S.fate, S.sess.will, how)
<1>1. CASE S.sess.will = None
  BY <1>1 DEF WillTaken, Taken, SameLife, SameData
<1>2. CASE S.sess.will # None
  <2> DEFINE R == [S EXCEPT !.sess.will = None, !.fate[S.sess.will] = how]
  <2>1. R = WillTaken(S, how)
    BY <1>2 DEF WillTaken
  <2>2. IsState(R)
    <3>1. None \in 0..MaxCons
      BY SessionsAssumption DEF None
    <3> QED BY <3>1 DEF IsState, IsSession
  <2>3. /\ SameLife(R.sess, S.sess) /\ SameData(R.sess, S.sess)
        /\ R.sess.will = None /\ R.sess.delay = S.sess.delay
    BY DEF IsState, IsSession, SameLife, SameData
  <2>4. R.fate = [S.fate EXCEPT ![S.sess.will] = how]
    BY DEF IsState
  <2> HIDE DEF R
  <2> QED BY <1>2, <2>1, <2>2, <2>3, <2>4 DEF Taken
<1> QED BY <1>1, <1>2

LEMMA ClearWillIs ==
    ASSUME NEW S, IsState(S), NEW how
    PROVE  LET R == ClearWill(S, how)
           IN  /\ IsState(R) /\ SameLife(R.sess, S.sess) /\ SameData(R.sess, S.sess)
               /\ R.sess.will = None /\ R.sess.delay = S.sess.delay
               /\ R.fate = Taken(S.fate, S.sess.will, how)
<1> DEFINE T == WillTaken(S, how)
           R == [T EXCEPT !.sess.willTimer = FALSE]
<1>1. /\ IsState(T) /\ SameLife(T.sess, S.sess) /\ SameData(T.sess, S.sess)
      /\ T.sess.will = None /\ T.sess.delay = S.sess.delay
      /\ T.fate = Taken(S.fate, S.sess.will, how)
  BY WillTakenIs
<1>2. R = ClearWill(S, how)
  BY DEF ClearWill
<1> HIDE DEF T
<1>3. IsState(R)
  BY <1>1 DEF IsState, IsSession
<1>4. /\ SameLife(R.sess, T.sess) /\ SameData(R.sess, T.sess)
      /\ R.sess.will = T.sess.will /\ R.sess.delay = T.sess.delay /\ R.fate = T.fate
  BY <1>1 DEF IsState, IsSession, SameLife, SameData
<1> HIDE DEF R
<1> QED BY <1>1, <1>2, <1>3, <1>4 DEF SameLife, SameData

LEMMA SendWillIs ==
    ASSUME NEW S, IsState(S)
    PROVE  LET R == SendWill(S)
           IN  /\ IsState(R) /\ SameLife(R.sess, S.sess) /\ SameData(R.sess, S.sess)
               /\ \/ /\ S.sess.will # None
                     /\ R.sess.will = S.sess.will /\ R.sess.delay /\ R.fate = S.fate
                  \/ /\ R.sess.will = None /\ R.sess.delay = S.sess.delay
                     /\ R.fate = Taken(S.fate, S.sess.will, "sent")
<1>1. CASE S.sess.will # None /\ S.sess.remain /\ param[S.sess.will].will = "delayed"
  <2> DEFINE R == [S EXCEPT !.sess.delay = TRUE]
  <2>1. R = SendWill(S)
    BY <1>1 DEF SendWill
  <2>2. IsState(R)
    BY DEF IsState, IsSession
  <2>3. /\ SameLife(R.sess, S.sess) /\ SameData(R.sess, S.sess)
        /\ R.sess.will = S.sess.will /\ R.sess.delay /\ R.fate = S.fate
    BY DEF IsState, IsSession, SameLife, SameData
  <2> HIDE DEF R
  <2> QED BY <1>1, <2>1, <2>2, <2>3
<1>2. CASE ~(S.sess.will # None /\ S.sess.remain /\ param[S.sess.will].will = "delayed")
  BY <1>2, WillTakenIs DEF SendWill, SendWillImpl
<1> QED BY <1>1, <1>2

LEMMA UpdateWillIs ==
    ASSUME NEW S, IsState(S), NEW k \in Connections, NEW p
    PROVE  LET R == UpdateWill(S, k, p)
           IN  /\ IsState(R) /\ SameLife(R.sess, S.sess) /\ SameData(R.sess, S.sess)
               /\ R.sess.will = WillFor(k, p) /\ R.sess.delay = S.sess.delay
               /\ R.fate = Marked(Taken(S.fate, S.sess.will, "dropped"), k, p)
               /\ S.sess.will = None => R.fate = Marked(S.fate, k, p)
<1> DEFINE T == WillTaken(S, "dropped")
           has == p.will # "none"
           R == [T EXCEPT !.sess.will = IF has THEN k ELSE None,
                          !.sess.willTimer = has /\ p.willExpires,
                          !.fate[k] = IF has THEN "held" ELSE "none"]
<1>1. /\ IsState(T) /\ SameLife(T.sess, S.sess) /\ SameData(T.sess, S.sess)
      /\ T.sess.will = None /\ T.sess.delay = S.sess.delay
      /\ T.fate = Taken(S.fate, S.sess.will, "dropped")
  BY WillTakenIs
<1>2. R = UpdateWill(S, k, p)
  BY DEF UpdateWill
<1>3. (IF has THEN k ELSE None) \in 0..MaxCons /\ (has /\ p.willExpires) \in BOOLEAN
  BY SessionsAssumption DEF Connections, None
<1> HIDE DEF T
<1>4. IsState(R)
  BY <1>1, <1>3 DEF IsState, IsSession
<1>5. /\ SameLife(R.sess, T.sess) /\ SameData(R.sess, T.sess) /\ R.sess.delay = T.sess.delay
      /\ R.sess.will = IF has THEN k ELSE None
  BY <1>1 DEF IsState, IsSession, SameLife, SameData
<1>6. R.fate = [T.fate EXCEPT ![k] = IF has THEN "held" ELSE "none"]
  BY <1>1 DEF IsState
<1>7. S.sess.will = None => T.fate = S.fate
  BY <1>1 DEF Taken
<1> HIDE DEF R
<1> QED BY <1>1, <1>2, <1>4, <1>5, <1>6, <1>7 DEF SameLife, SameData, WillFor, Marked

LEMMA BecomeOfflineIs ==
    ASSUME NEW S, IsState(S)
    PROVE  LET R == BecomeOffline(S)
           IN  /\ IsState(R) /\ SameData(R.sess, S.sess)
               /\ R.sess.alive = S.sess.alive /\ R.sess.expiry = S.sess.expiry
               /\ R.sess.con = None
               /\ R.sess.expTimer = (S.sess.expTimer \/ S.sess.expiry = "finite")
               /\ R.sess.will = S.sess.will /\ R.sess.delay = S.sess.delay
               /\ R.fate = S.fate
<1> DEFINE timer == IF S.sess.expiry = "finite" THEN TRUE ELSE S.sess.expTimer
           R == [S EXCEPT !.sess.con = None, !.sess.expTimer = timer]
<1>1. R = BecomeOffline(S)
  BY DEF BecomeOffline
<1>2. None \in 0..MaxCons /\ timer \in BOOLEAN /\ timer = (S.sess.expTimer \/ S.sess.expiry = "finite")
  <2>1. None \in 0..MaxCons
    BY SessionsAssumption DEF None
  <2>2. S.sess.expTimer \in BOOLEAN
    BY DEF IsState, IsSession
  <2> QED BY <2>1, <2>2
<1> HIDE DEF timer
<1>3. IsState(R)
  BY <1>2 DEF IsState, IsSession
<1>4. /\ SameData(R.sess, S.sess) /\ R.sess.alive = S.sess.alive /\ R.sess.expiry = S.sess.expiry
      /\ R.sess.con = None /\ R.sess.expTimer = timer
      /\ R.sess.will = S.sess.will /\ R.sess.delay = S.sess.delay /\ R.fate = S.fate
  BY <1>2 DEF IsState, IsSession, SameData
<1> HIDE DEF R
<1> QED BY <1>1, <1>2, <1>3, <1>4

LEMMA NoSessionIs ==
    /\ IsSession(NoSession) /\ ~NoSession.alive /\ NoSession.con = None
    /\ ~NoSession.expTimer /\ NoSession.expiry = "zero"
    /\ NoSession.will = None /\ ~NoSession.delay /\ NoSession.data = None /\ NoSession.born = None
<1>1. None \in 0..MaxCons
  BY SessionsAssumption DEF None
<1> QED BY <1>1 DEF NoSession, IsSession, Expiries

LEMMA CleanHandledIs ==
    ASSUME NEW S, IsState(S)
    PROVE  LET R == CleanHandled(S) IN IsState(R) /\ R.sess = S.sess /\ R.fate = S.fate
<1>1. CASE S.sess.rule = 0
  BY <1>1 DEF CleanHandled
<1>2. CASE S.sess.rule # 0
  <2> DEFINE a == RemoveAuth(S.auth, S.sess.rule)
  <2>1. CleanHandled(S) = [S EXCEPT !.auth = a]
    BY <1>2 DEF CleanHandled
  <2> HIDE DEF a
  <2> QED BY <2>1 DEF IsState
<1> QED BY <1>1, <1>2

LEMMA DestroyedIs ==
    ASSUME NEW S, IsState(S)
    PROVE  LET R == Destroyed(S)
           IN  IsState(R) /\ R.sess = NoSession /\ R.fate = Taken(S.fate, S.sess.will, "sent")
<1> DEFINE T == CleanHandled(SendWillImpl(S))
<1>1. IsState(T) /\ T.fate = Taken(S.fate, S.sess.will, "sent")
  BY WillTakenIs, CleanHandledIs DEF SendWillImpl
<1>2. Destroyed(S) = [T EXCEPT !.sess = NoSession]
  BY DEF Destroyed
<1> HIDE DEF T
<1> QED BY <1>1, <1>2, NoSessionIs DEF IsState

LEMMA RenewIs ==
    ASSUME NEW S, IsState(S), NEW k \in Connections, NEW clean \in BOOLEAN
    PROVE  LET R == Renew(S, k, clean)
           IN  /\ IsState(R) /\ SameData(R.sess, S.sess)
               /\ R.sess.alive = S.sess.alive /\ R.sess.con = k
               /\ R.sess.expiry = S.sess.expiry /\ R.sess.expTimer = S.sess.expTimer
               /\ R.sess.will = None /\ ~R.sess.delay
               /\ R.fate = Taken(S.fate, S.sess.will, IF clean THEN "sent" ELSE "resumed")
<1> DEFINE T == [S EXCEPT !.sess.delay = FALSE, !.sess.con = k]
<1>1. k \in 0..MaxCons
  BY SessionsAssumption DEF Connections
<1>2. IsState(T)
  BY <1>1 DEF IsState, IsSession
<1>3. /\ SameData(T.sess, S.sess) /\ T.sess.alive = S.sess.alive /\ T.sess.con = k
      /\ T.sess.expiry = S.sess.expiry /\ T.sess.expTimer = S.sess.expTimer
      /\ T.sess.will = S.sess.will /\ ~T.sess.delay /\ T.fate = S.fate
  BY DEF IsState, IsSession, SameData
<1>4. Renew(S, k, clean) = IF clean THEN WillTaken(T, "sent") ELSE ClearWill(T, "resumed")
  BY DEF Renew, SendWillImpl
<1> HIDE DEF T
<1> QED BY <1>2, <1>3, <1>4, WillTakenIs, ClearWillIs DEF SameLife, SameData

LEMMA RenewExpiryIs ==
    ASSUME NEW S, IsState(S), NEW p, p.expiry \in Expiries
    PROVE  LET R == RenewExpiry(S, p)
           IN  /\ IsState(R) /\ SameData(R.sess, S.sess)
               /\ R.sess.alive = S.sess.alive /\ R.sess.con = S.sess.con
               /\ R.sess.expiry = p.expiry /\ ~R.sess.expTimer
               /\ R.sess.will = S.sess.will /\ R.sess.delay = S.sess.delay
               /\ R.fate = S.fate
BY DEF RenewExpiry, IsState, IsSession, SameData

LEMMA CleanDataIs ==
    ASSUME NEW S, IsState(S), NEW k \in Connections
    PROVE  LET R == CleanData(S, k)
           IN  /\ IsState(R) /\ SameLife(R.sess, S.sess)
               /\ R.sess.born = S.sess.born /\ R.sess.data = k
               /\ R.sess.will = S.sess.will /\ R.sess.delay = S.sess.delay
               /\ R.fate = S.fate
<1> DEFINE T == CleanHandled(S)
<1>1. IsState(T) /\ T.sess = S.sess /\ T.fate = S.fate
  BY CleanHandledIs
<1>2. CleanData(S, k) = [T EXCEPT !.sess.data = k]
  BY DEF CleanData
<1>3. k \in 0..MaxCons
  BY SessionsAssumption DEF Connections
<1> HIDE DEF T
<1> QED BY <1>1, <1>2, <1>3 DEF IsState, IsSession, SameLife

LEMMA SetResponseTopicIs ==
    ASSUME NEW S, IsState(S), NEW p
    PROVE  LET R == SetResponseTopic(S, p)
           IN  /\ IsState(R) /\ SameLife(R.sess, S.sess) /\ SameData(R.sess, S.sess)
               /\ R.sess.will = S.sess.will /\ R.sess.delay = S.sess.delay
               /\ R.fate = S.fate
<1>1. CASE ~p.request
  BY <1>1 DEF SetResponseTopic, SameLife, SameData
<1>2. CASE p.request
  <2> DEFINE r == NextRule(S.auth)
             R == [S EXCEPT !.sess.topic = TRUE, !.sess.rule = r,
                            !.auth = AddAuth(@, ResponseTopic(S.sess.born), {AnyGroup}, "allow",
                                             {User}, "allow")]
  <2>1. SetResponseTopic(S, p) = R
    BY <1>2 DEF SetResponseTopic
  <2>2. PICK b : R = [S EXCEPT !.sess.topic = TRUE, !.sess.rule = r, !.auth = b]
    OBVIOUS
  <2> HIDE DEF r, R
  <2>3. IsState(R)
    BY <2>2 DEF IsState, IsSession
  <2>4. /\ SameLife(R.sess, S.sess) /\ SameData(R.sess, S.sess)
        /\ R.sess.will = S.sess.will /\ R.sess.delay = S.sess.delay
        /\ R.fate = S.fate
    BY <2>2 DEF IsState, IsSession, SameLife, SameData
  <2> QED BY <2>1, <2>3, <2>4
<1> QED BY <1>1, <1>2
-----------------------------------------------------------------------------
(* What broker_t's operations do to a state that keeps the invariant *)

(* The connection that has the session leaves it: a session without an expiry
   interval goes; the other is offline, its will's delay running or its will
   published or discarded. *)
LEMMA CloseProcIs ==
    ASSUME NEW S, IsState(S), NEW k, S.sess.alive, S.sess.con = k, NEW will \in BOOLEAN
    PROVE  LET R == CloseProc(S, k, will)
               how == IF will THEN "sent" ELSE "discarded"
           IN  /\ IsState(R)
               /\ \/ /\ S.sess.expiry = "zero"
                     /\ R.sess = NoSession
                     /\ R.fate = Taken(S.fate, S.sess.will, how)
                  \/ /\ S.sess.expiry # "zero"
                     /\ SameData(R.sess, S.sess) /\ R.sess.alive /\ R.sess.con = None
                     /\ R.sess.expiry = S.sess.expiry
                     /\ R.sess.expTimer = (S.sess.expTimer \/ S.sess.expiry = "finite")
                     /\ \/ /\ will /\ S.sess.will # None
                           /\ R.sess.will = S.sess.will /\ R.sess.delay /\ R.fate = S.fate
                        \/ /\ R.sess.will = None /\ R.sess.delay = S.sess.delay
                           /\ R.fate = Taken(S.fate, S.sess.will, how)
<1> DEFINE T == IF will THEN SendWill(S) ELSE ClearWill(S, "discarded")
           how == IF will THEN "sent" ELSE "discarded"
<1>1. /\ IsState(T) /\ SameLife(T.sess, S.sess) /\ SameData(T.sess, S.sess)
      /\ \/ /\ will /\ S.sess.will # None
            /\ T.sess.will = S.sess.will /\ T.sess.delay /\ T.fate = S.fate
         \/ /\ T.sess.will = None /\ T.sess.delay = S.sess.delay
            /\ T.fate = Taken(S.fate, S.sess.will, how)
  BY SendWillIs, ClearWillIs
<1>2. CloseProc(S, k, will) = IF S.sess.expiry = "zero" THEN Destroyed(T) ELSE BecomeOffline(T)
  BY DEF CloseProc, SessionClear
<1> HIDE DEF T
<1>3. CASE S.sess.expiry = "zero"
  <2>1. /\ IsState(Destroyed(T)) /\ Destroyed(T).sess = NoSession
        /\ Destroyed(T).fate = Taken(T.fate, T.sess.will, "sent")
    BY <1>1, DestroyedIs
  <2>2. Taken(T.fate, T.sess.will, "sent") = Taken(S.fate, S.sess.will, how)
    BY <1>1 DEF Taken
  <2> QED BY <1>2, <1>3, <2>1, <2>2
<1>4. CASE S.sess.expiry # "zero"
  <2> DEFINE R == BecomeOffline(T)
  <2>1. /\ IsState(R) /\ SameData(R.sess, T.sess)
        /\ R.sess.alive = T.sess.alive /\ R.sess.expiry = T.sess.expiry
        /\ R.sess.con = None
        /\ R.sess.expTimer = (T.sess.expTimer \/ T.sess.expiry = "finite")
        /\ R.sess.will = T.sess.will /\ R.sess.delay = T.sess.delay
        /\ R.fate = T.fate
    BY <1>1, BecomeOfflineIs
  <2>2. R = CloseProc(S, k, will)
    BY <1>2, <1>4
  <2> HIDE DEF R
  <2> QED BY <1>1, <1>4, <2>1, <2>2 DEF SameLife, SameData
<1> QED BY <1>3, <1>4

LEMMA ParamTyped ==
    ASSUME NEW p \in Params \union {NoParam}
    PROVE  p.expiry \in Expiries /\ p.clean \in BOOLEAN
<1>1. CASE p \in Params
  <2>1. p \in [clean : BOOLEAN, expiry : Expiries, will : {"none", "now", "delayed"},
               willExpires : BOOLEAN, request : BOOLEAN]
    BY <1>1, SessionsAssumption DEF Expiries
  <2> QED BY <2>1
<1>2. CASE p = NoParam
  BY <1>2 DEF NoParam, Expiries
<1> QED BY <1>1, <1>2

(* a session_state for the connection k *)
LEMMA NewIs ==
    ASSUME NEW S, IsState(S), NEW k \in Connections, NEW p \in Params
    PROVE  LET R == SetResponseTopic(Constructed(S, k, p), p)
           IN  /\ IsState(R)
               /\ R.sess.alive /\ R.sess.con = k /\ R.sess.born = k /\ R.sess.data = k
               /\ R.sess.expiry = p.expiry /\ ~R.sess.expTimer
               /\ R.sess.will = WillFor(k, p) /\ ~R.sess.delay
               /\ R.fate = Marked(S.fate, k, p)
<1> DEFINE s == [NoSession EXCEPT !.alive = TRUE, !.con = k, !.expiry = p.expiry,
                                  !.remain = p.expiry # "zero", !.born = k, !.data = k]
           T == [S EXCEPT !.sess = s]
           U == Constructed(S, k, p)
<1>1. p.expiry \in Expiries /\ k \in 0..MaxCons
  BY ParamTyped, SessionsAssumption DEF Connections
<1>2. /\ IsSession(s) /\ s.alive /\ s.con = k /\ s.born = k /\ s.data = k
      /\ s.expiry = p.expiry /\ ~s.expTimer /\ s.will = None /\ ~s.delay
  BY <1>1, NoSessionIs DEF IsSession, NoSession
<1> HIDE DEF s
<1>3. IsState(T) /\ T.sess = s /\ T.fate = S.fate
  BY <1>2 DEF IsState
<1>4. U = UpdateWill(T, k, p)
  BY DEF Constructed, s
<1> HIDE DEF T, U
<1>5. /\ IsState(U) /\ SameLife(U.sess, s) /\ SameData(U.sess, s)
      /\ U.sess.will = WillFor(k, p) /\ ~U.sess.delay
      /\ U.fate = Marked(S.fate, k, p)
  BY <1>2, <1>3, <1>4, UpdateWillIs
<1> DEFINE R == SetResponseTopic(U, p)
<1>6. /\ IsState(R) /\ SameLife(R.sess, U.sess) /\ SameData(R.sess, U.sess)
      /\ R.sess.will = U.sess.will /\ R.sess.delay = U.sess.delay /\ R.fate = U.fate
  BY <1>5, SetResponseTopicIs
<1>7. R = SetResponseTopic(Constructed(S, k, p), p)
  BY DEF U
<1> HIDE DEF R
<1> QED BY <1>2, <1>5, <1>6, <1>7 DEF SameLife, SameData

(* Clean Start on a session that was online, which is not renewed *)
LEMMA CleanedIs ==
    ASSUME NEW S, IsState(S), NEW k \in Connections, NEW p \in Params
    PROVE  LET R == RenewExpiry(UpdateWill(CleanData(SetResponseTopic(S, p), k), k, p), p)
           IN  /\ IsState(R)
               /\ R.sess.alive = S.sess.alive /\ R.sess.con = S.sess.con
               /\ R.sess.data = k
               /\ R.sess.expiry = p.expiry /\ ~R.sess.expTimer
               /\ R.sess.will = WillFor(k, p)
               /\ R.fate = Marked(Taken(S.fate, S.sess.will, "dropped"), k, p)
<1> DEFINE T == SetResponseTopic(S, p)
           U == CleanData(T, k)
           V == UpdateWill(U, k, p)
           R == RenewExpiry(V, p)
<1>1. /\ IsState(T) /\ SameLife(T.sess, S.sess)
      /\ T.sess.will = S.sess.will /\ T.fate = S.fate
  BY SetResponseTopicIs
<1>2. /\ IsState(U) /\ SameLife(U.sess, T.sess) /\ U.sess.data = k
      /\ U.sess.will = T.sess.will /\ U.fate = T.fate
  BY <1>1, CleanDataIs
<1>3. /\ IsState(V) /\ SameLife(V.sess, U.sess) /\ SameData(V.sess, U.sess)
      /\ V.sess.will = WillFor(k, p)
      /\ V.fate = Marked(Taken(U.fate, U.sess.will, "dropped"), k, p)
  BY <1>2, UpdateWillIs
<1>4. /\ IsState(R) /\ SameData(R.sess, V.sess)
      /\ R.sess.alive = V.sess.alive /\ R.sess.con = V.sess.con
      /\ R.sess.expiry = p.expiry /\ ~R.sess.expTimer
      /\ R.sess.will = V.sess.will /\ R.fate = V.fate
  BY <1>3, ParamTyped, RenewExpiryIs
<1> QED
  <2>1. R = RenewExpiry(UpdateWill(CleanData(SetResponseTopic(S, p), k), k, p), p)
    OBVIOUS
  <2> HIDE DEF R, T, U, V
  <2> QED BY <1>1, <1>2, <1>3, <1>4, <2>1 DEF SameLife, SameData

(* Clean Start on a session that was offline *)
Renewed(S, k, p) ==
    RenewExpiry(UpdateWill(Renew(CleanData(SetResponseTopic(S, p), k), k, TRUE), k, p), p)

LEMMA RenewedIs ==
    ASSUME NEW S, IsState(S), NEW k \in Connections, NEW p \in Params
    PROVE  LET R == Renewed(S, k, p)
           IN  /\ IsState(R)
               /\ R.sess.alive = S.sess.alive /\ R.sess.con = k /\ R.sess.data = k
               /\ R.sess.expiry = p.expiry /\ ~R.sess.expTimer
               /\ R.sess.will = WillFor(k, p) /\ ~R.sess.delay
               /\ R.fate = Marked(Taken(S.fate, S.sess.will, "sent"), k, p)
<1> DEFINE T == SetResponseTopic(S, p)
           U == CleanData(T, k)
           X == Renew(U, k, TRUE)
           V == UpdateWill(X, k, p)
           R == RenewExpiry(V, p)
<1>1. /\ IsState(T) /\ SameLife(T.sess, S.sess)
      /\ T.sess.will = S.sess.will /\ T.fate = S.fate
  BY SetResponseTopicIs
<1>2. /\ IsState(U) /\ SameLife(U.sess, T.sess) /\ U.sess.data = k
      /\ U.sess.will = T.sess.will /\ U.fate = T.fate
  BY <1>1, CleanDataIs
<1>3. /\ IsState(X) /\ SameData(X.sess, U.sess)
      /\ X.sess.alive = U.sess.alive /\ X.sess.con = k
      /\ X.sess.will = None /\ ~X.sess.delay
      /\ X.fate = Taken(U.fate, U.sess.will, "sent")
  BY <1>2, RenewIs
<1>4. /\ IsState(V) /\ SameLife(V.sess, X.sess) /\ SameData(V.sess, X.sess)
      /\ V.sess.will = WillFor(k, p) /\ V.sess.delay = X.sess.delay
      /\ V.fate = Marked(X.fate, k, p)
  BY <1>3, UpdateWillIs
<1>5. /\ IsState(R) /\ SameData(R.sess, V.sess)
      /\ R.sess.alive = V.sess.alive /\ R.sess.con = V.sess.con
      /\ R.sess.expiry = p.expiry /\ ~R.sess.expTimer
      /\ R.sess.will = V.sess.will /\ R.sess.delay = V.sess.delay /\ R.fate = V.fate
  BY <1>4, ParamTyped, RenewExpiryIs
<1>6. R = Renewed(S, k, p)
  BY DEF Renewed
<1> HIDE DEF R, T, U, V, X
<1> QED BY <1>1, <1>2, <1>3, <1>4, <1>5, <1>6 DEF SameLife, SameData

(* the completion of the CONNACK of k *)
LEMMA InheritedIs ==
    ASSUME NEW S, IsState(S), NEW k \in Connections, Types
    PROVE  LET R == Inherited(S, k)
           IN  /\ IsState(R) /\ SameData(R.sess, S.sess)
               /\ R.sess.alive = S.sess.alive /\ R.sess.con = k
               /\ ~R.sess.expTimer
               /\ R.sess.will = WillFor(k, param[k]) /\ ~R.sess.delay
               /\ R.fate = Marked(Taken(S.fate, S.sess.will, "resumed"), k, param[k])
<1> PICK p : p = param[k]
  OBVIOUS
<1> DEFINE X == Renew(S, k, FALSE)
           V == UpdateWill(X, k, p)
           R == RenewExpiry(V, p)
<1>1. /\ IsState(X) /\ SameData(X.sess, S.sess)
      /\ X.sess.alive = S.sess.alive /\ X.sess.con = k
      /\ X.sess.will = None /\ ~X.sess.delay
      /\ X.fate = Taken(S.fate, S.sess.will, "resumed")
  BY RenewIs
<1> HIDE DEF X
<1>2. /\ IsState(V) /\ SameLife(V.sess, X.sess) /\ SameData(V.sess, X.sess)
      /\ V.sess.will = WillFor(k, p) /\ V.sess.delay = X.sess.delay
      /\ V.fate = Marked(X.fate, k, p)
  BY <1>1, UpdateWillIs
<1>3. p.expiry \in Expiries
  BY ParamTyped DEF Types
<1>4. /\ IsState(R) /\ SameData(R.sess, V.sess)
      /\ R.sess.alive = V.sess.alive /\ R.sess.con = V.sess.con
      /\ ~R.sess.expTimer
      /\ R.sess.will = V.sess.will /\ R.sess.delay = V.sess.delay /\ R.fate = V.fate
  BY <1>2, <1>3, RenewExpiryIs
<1>5. R = Inherited(S, k)
  BY DEF Inherited, X
<1> HIDE DEF R, V
<1> QED BY <1>1, <1>2, <1>4, <1>5 DEF SameLife, SameData

-----------------------------------------------------------------------------
(* The fates of the wills *)

OneHeld(f, will) == \A k \in Connections : f[k] = "held" <=> will = k

LEMMA TakenFates ==
    ASSUME NEW f \in [Connections -> Fates], NEW w \in 0..MaxCons, OneHeld(f, w),
           NEW how \in Fates \ {"held"}
    PROVE  /\ Taken(f, w, how) \in [Connections -> Fates]
           /\ OneHeld(Taken(f, w, how), None)
           /\ \A k \in Connections : Taken(f, w, how)[k] = IF k = w THEN how ELSE f[k]
<1>1. w # None => w \in Connections
  BY SessionsAssumption DEF Connections, None
<1>2. \A k \in Connections : k # None
  BY SessionsAssumption DEF Connections, None
<1>3. CASE w = None
  BY <1>2, <1>3 DEF Taken, OneHeld
<1>4. CASE w # None
  BY <1>1, <1>2, <1>4 DEF Taken, OneHeld
<1> QED BY <1>3, <1>4

LEMMA MarkedFates ==
    ASSUME NEW f \in [Connections -> Fates], OneHeld(f, None), NEW k \in Connections, NEW p
    PROVE  /\ Marked(f, k, p) \in [Connections -> Fates]
           /\ OneHeld(Marked(f, k, p), WillFor(k, p))
           /\ Marked(f, k, p)[k] \in {"held", "none"}
           /\ \A j \in Connections : j # k => Marked(f, k, p)[j] = f[j]
<1>1. \A j \in Connections : j # None
  BY SessionsAssumption DEF Connections, None
<1>2. Marked(f, k, p) \in [Connections -> Fates]
  BY DEF Marked, Fates
<1>3. /\ Marked(f, k, p)[k] \in {"held", "none"}
      /\ Marked(f, k, p)[k] = "held" <=> p.will # "none"
      /\ \A j \in Connections : j # k => Marked(f, k, p)[j] = f[j]
  BY DEF Marked
<1>4. OneHeld(Marked(f, k, p), WillFor(k, p))
  BY <1>1, <1>3 DEF OneHeld, WillFor
<1> QED BY <1>2, <1>3, <1>4

LEMMA NowIs ==
    ASSUME SInv
    PROVE  /\ IsState(Now) /\ Now.sess = sess /\ Now.fate = fate
           /\ OneHeld(fate, sess.will) /\ sess.will \in 0..MaxCons
           /\ fate \in [Connections -> Fates]
           /\ None \notin Connections
           /\ sess.con # None => sess.con \in Connections
           /\ sess.will # None => sess.will \in Connections
<1>1. IsSession(sess) /\ fate \in [Connections -> Fates]
  BY DEF SInv, Types
<1>2. sess.con \in 0..MaxCons /\ sess.will \in 0..MaxCons
  BY <1>1 DEF IsSession
<1>3. None \notin Connections /\ \A n \in 0..MaxCons : n # None => n \in Connections
  BY SessionsAssumption DEF Connections, None
<1>4. IsState(Now) /\ Now.sess = sess /\ Now.fate = fate
  BY <1>1 DEF IsState, Now
<1>5. OneHeld(fate, sess.will)
  BY DEF SInv, Wills, HeldWill, OneHeld
<1> QED BY <1>1, <1>2, <1>3, <1>4, <1>5

-----------------------------------------------------------------------------
(* The invariant, and what StateKept says of a step, action by action *)

News == {k \in Connections : connack[k] = "no" /\ connack'[k] \in {"new", "present"}}

Kept ==
    /\ (sess.data # None /\ sess'.data # sess.data) =>
            \/ \E k \in News : param'[k].clean
            \/ sess.expiry = "zero" /\ sess.con # None /\ con'[sess.con] # "open"
            \/ sess.expiry = "finite" /\ sess.con = None
    /\ \A k \in News : sess'.data = IF connack'[k] = "present" THEN sess.data ELSE k

(* A new connection: nothing else waits, and no other is open but the one that
   has the session, and orphans. *)
LEMMA FreshIs ==
    ASSUME SInv, ~Overtaking, NEW k \in Connections, Fresh(k)
    PROVE  /\ con[k] = "none" /\ pending = {} /\ left[k] = "no" /\ connack[k] = "no"
           /\ sess.con # k
           /\ \A j \in Connections : con[j] = "open" /\ j \notin orphans => sess.con = j
<1>1. con[k] = "none" /\ pending = {}
  BY DEF Fresh, Quiet
<1>2. sess.con # k
  <2>1. None \notin Connections
    BY NowIs
  <2> QED BY <1>1, <2>1 DEF SInv, Holder
<1>3. left[k] = "no" /\ connack[k] = "no"
  BY <1>1 DEF SInv, Opens
<1>4. \A j \in Connections : con[j] = "open" /\ j \notin orphans => sess.con = j
  BY <1>1 DEF SInv, Opens
<1> QED BY <1>1, <1>2, <1>3, <1>4

LEMMA RefusedKeeps ==
    ASSUME SInv, ~Overtaking, NEW k \in Connections, ConnectRefused(k) \/ ConnectUnnamed(k)
    PROVE  SInv' /\ Kept
<1>1. /\ Fresh(k) /\ con' = [con EXCEPT ![k] = "closing"]
      /\ UNCHANGED <<param, left, sess, pending, dangling, fate, orphans>>
      /\ \/ connack' = [connack EXCEPT ![k] = "refused"]
         \/ connack' = [connack EXCEPT ![k] = "identifier_rejected"]
  BY DEF ConnectRefused, ConnectUnnamed
<1>2. /\ pending = {} /\ sess.con # k /\ con[k] = "none"
      /\ \A j \in Connections : con[j] = "open" /\ j \notin orphans => sess.con = j
  BY <1>1, FreshIs
<1>3. /\ con' \in [Connections -> {"none", "open", "closing", "closed"}]
      /\ connack' \in [Connections -> {"no", "new", "present", "refused", "identifier_rejected"}]
      /\ con'[k] = "closing" /\ \A j \in Connections : j # k => con'[j] = con[j]
      /\ connack'[k] \in {"refused", "identifier_rejected"}
      /\ \A j \in Connections : j # k => connack'[j] = connack[j]
  BY <1>1 DEF SInv, Types
<1>4. Types'
  BY <1>1, <1>3 DEF SInv, Types
<1>5. Holder'
  <2>1. sess.con # None => con'[sess.con] = "open"
    BY <1>2, <1>3, NowIs DEF SInv, Holder
  <2> QED BY <1>1, <2>1 DEF SInv, Holder
<1>6. Waiting' /\ Opens'
  BY <1>1, <1>2, <1>3 DEF SInv, Waiting, Opens
<1>7. Wills'
  BY <1>1 DEF SInv, Wills, HeldWill, WillOf, FateOf
<1>8. Kept
  <2>1. News = {}
    BY <1>3 DEF News
  <2> QED BY <1>1, <2>1 DEF Kept
<1> QED BY <1>4, <1>5, <1>6, <1>7, <1>8 DEF SInv

LEMMA ConnectNewKeeps ==
    ASSUME SInv, ~Overtaking, NEW k \in Connections, NEW p \in Params, ConnectNew(k, p)
    PROVE  SInv' /\ Kept
<1> DEFINE R == SetResponseTopic(Constructed(Now, k, p), p)
<1>1. /\ Fresh(k) /\ ~sess.alive /\ con' = [con EXCEPT ![k] = "open"]
      /\ param' = [param EXCEPT ![k] = p] /\ connack' = [connack EXCEPT ![k] = "new"]
      /\ sess' = R.sess /\ fate' = R.fate
      /\ UNCHANGED <<left, pending, dangling, orphans>>
  BY DEF ConnectNew, Accepted, Becomes
<1>2. /\ IsSession(sess')
      /\ sess'.alive /\ sess'.con = k /\ sess'.born = k /\ sess'.data = k
      /\ ~sess'.expTimer /\ sess'.will = WillFor(k, p) /\ ~sess'.delay
      /\ fate' = Marked(fate, k, p)
  <2> HIDE DEF R
  <2>1. /\ IsState(R)
        /\ R.sess.alive /\ R.sess.con = k /\ R.sess.born = k /\ R.sess.data = k
        /\ ~R.sess.expTimer
        /\ R.sess.will = WillFor(k, p) /\ ~R.sess.delay
        /\ R.fate = Marked(Now.fate, k, p)
    BY NowIs, NewIs DEF R
  <2> QED BY <1>1, <2>1, NowIs DEF IsState
<1> HIDE DEF R
<1>3. /\ pending = {} /\ con[k] = "none" /\ left[k] = "no" /\ connack[k] = "no"
      /\ \A j \in Connections : con[j] = "open" /\ j \notin orphans => sess.con = j
  BY <1>1, FreshIs
<1>4. /\ sess.con = None /\ sess.will = None /\ sess.data = None
      /\ sess'.will \in {None, k}
  BY <1>1, <1>2, NoSessionIs DEF SInv, Holder, WillFor
<1>5. /\ fate' \in [Connections -> Fates] /\ OneHeld(fate', sess'.will)
      /\ fate'[k] \in {"held", "none"}
      /\ \A j \in Connections : j # k => fate'[j] = fate[j]
  BY <1>2, <1>4, NowIs, MarkedFates
<1>6. /\ con' \in [Connections -> {"none", "open", "closing", "closed"}]
      /\ param' \in [Connections -> Params \union {NoParam}]
      /\ connack' \in [Connections -> {"no", "new", "present", "refused", "identifier_rejected"}]
      /\ con'[k] = "open" /\ \A j \in Connections : j # k => con'[j] = con[j]
      /\ connack'[k] = "new" /\ \A j \in Connections : j # k => connack'[j] = connack[j]
  BY <1>1 DEF SInv, Types
<1>7. Types'
  BY <1>1, <1>2, <1>5, <1>6 DEF SInv, Types
<1>8. Holder' /\ Waiting'
  BY <1>1, <1>2, <1>3, <1>6 DEF SInv, Holder, Waiting
<1>9. Opens'
  BY <1>1, <1>2, <1>3, <1>4, <1>6, NowIs DEF SInv, Opens
<1>10. Wills'
  <2>1. HeldWill'
    BY <1>5 DEF HeldWill, OneHeld
  <2>2. WillOf'
    BY <1>2, <1>4, NowIs DEF WillOf
  <2>3. orphans = {} => FateOf'
    BY <1>1, <1>5 DEF SInv, Wills, FateOf
  <2> QED BY <1>1, <2>1, <2>2, <2>3 DEF Wills
<1>11. Kept
  <2>1. News = {k}
    BY <1>3, <1>6 DEF News
  <2> QED BY <1>2, <1>4, <1>6, <2>1 DEF Kept
<1> QED BY <1>7, <1>8, <1>9, <1>10, <1>11 DEF SInv

(* The connection that has the session leaves it. *)
LEMMA LeavesIs ==
    ASSUME SInv, sess.alive, sess.con # None, NEW will \in BOOLEAN
    PROVE  LET R == CloseProc(Now, sess.con, will)
               how == IF will THEN "sent" ELSE "discarded"
           IN  /\ IsState(R)
               /\ R.sess.con = None
               /\ R.sess.expTimer => R.sess.expiry = "finite"
               /\ \/ sess.expiry = "zero" /\ R.sess = NoSession
                  \/ R.sess.alive /\ SameData(R.sess, sess)
               /\ R.fate \in [Connections -> Fates] /\ OneHeld(R.fate, R.sess.will)
               /\ \A j \in Connections : R.fate[j] = fate[j] \/ (j = sess.will /\ R.fate[j] = how)
               /\ orphans = {} /\ R.sess.will # None =>
                     R.sess.will = sess.con /\ R.sess.delay /\ will
<1> DEFINE R == CloseProc(Now, sess.con, will)
           how == IF will THEN "sent" ELSE "discarded"
<1>1. /\ IsState(R)
      /\ \/ /\ sess.expiry = "zero"
            /\ R.sess = NoSession
            /\ R.fate = Taken(fate, sess.will, how)
         \/ /\ sess.expiry # "zero"
            /\ SameData(R.sess, sess) /\ R.sess.alive /\ R.sess.con = None
            /\ R.sess.expiry = sess.expiry
            /\ R.sess.expTimer = (sess.expTimer \/ sess.expiry = "finite")
            /\ \/ /\ will /\ sess.will # None
                  /\ R.sess.will = sess.will /\ R.sess.delay /\ R.fate = fate
               \/ /\ R.sess.will = None /\ R.sess.delay = sess.delay
                  /\ R.fate = Taken(fate, sess.will, how)
  BY NowIs, CloseProcIs
<1>2. how \in Fates \ {"held"}
  BY DEF Fates
<1>3. R = CloseProc(Now, sess.con, will)
  OBVIOUS
<1> HIDE DEF R
<1>4. /\ Taken(fate, sess.will, how) \in [Connections -> Fates]
      /\ OneHeld(Taken(fate, sess.will, how), None)
      /\ \A k \in Connections : Taken(fate, sess.will, how)[k] = IF k = sess.will THEN how ELSE fate[k]
  BY <1>2, NowIs, TakenFates
<1>5. R.fate \in [Connections -> Fates] /\ OneHeld(R.fate, R.sess.will)
  BY <1>1, <1>4, NowIs, NoSessionIs
<1>6. \A j \in Connections : R.fate[j] = fate[j] \/ (j = sess.will /\ R.fate[j] = how)
  BY <1>1, <1>4
<1>7. R.sess.con = None /\ (R.sess.expTimer => R.sess.expiry = "finite")
  BY <1>1, NoSessionIs DEF SInv, Holder
<1>8. orphans = {} /\ R.sess.will # None => R.sess.will = sess.con /\ R.sess.delay /\ will
  BY <1>1, NoSessionIs DEF SInv, Wills, WillOf
<1> QED BY <1>1, <1>3, <1>5, <1>6, <1>7, <1>8

(* A take-over: the other connection is closed and leaves the session. *)
LEMMA TakenOverIs ==
    ASSUME SInv, ~Overtaking, NEW k \in Connections, NEW p \in Params, ConnectOnline(k, p)
    PROVE  /\ sess.alive /\ sess.con \in Connections \ {k}
           /\ con' \in [Connections -> {"none", "open", "closing", "closed"}]
           /\ left' \in [Connections -> {"no", "disconnect", "lost", "taken"}]
           /\ param' \in [Connections -> Params \union {NoParam}]
           /\ connack' \in
                [Connections -> {"no", "new", "present", "refused", "identifier_rejected"}]
           /\ con[k] = "none" /\ con'[k] = "open" /\ con'[sess.con] = "closing"
           /\ \A j \in Connections \ {k, sess.con} : con'[j] = con[j]
           /\ left'[sess.con] = "taken" /\ \A j \in Connections \ {sess.con} : left'[j] = left[j]
           /\ left[k] = "no" /\ left[sess.con] = "no"
           /\ param'[k] = p
           /\ connack'[k] \in {"new", "present"} /\ News = {k}
           /\ \A j \in Connections \ {k} : connack'[j] = connack[j]
           /\ pending = {} /\ UNCHANGED dangling
           /\ \A j \in Connections : con[j] = "open" /\ j \notin orphans => sess.con = j
<1>1. Fresh(k) /\ Online
  BY DEF ConnectOnline
<1>2. /\ con[k] = "none" /\ pending = {} /\ sess.con # k /\ left[k] = "no" /\ connack[k] = "no"
      /\ \A j \in Connections : con[j] = "open" /\ j \notin orphans => sess.con = j
  BY <1>1, FreshIs
<1>3. sess.alive /\ sess.con \in Connections \ {k} /\ con[sess.con] = "open"
  BY <1>1, <1>2, NowIs DEF Online, SInv, Holder
<1>4. left[sess.con] = "no"
  BY <1>3 DEF SInv, Opens
<1>5. /\ con' = [con EXCEPT ![k] = "open", ![sess.con] = IF @ = "open" THEN "closing" ELSE @]
      /\ left' = [left EXCEPT ![sess.con] = IF con[sess.con] = "open" THEN "taken" ELSE @]
      /\ param' = [param EXCEPT ![k] = p] /\ UNCHANGED dangling
      /\ \E present \in {"new", "present"} : connack' = [connack EXCEPT ![k] = present]
  BY DEF ConnectOnline, Accepted
<1>6. /\ con \in [Connections -> {"none", "open", "closing", "closed"}]
      /\ left \in [Connections -> {"no", "disconnect", "lost", "taken"}]
      /\ param \in [Connections -> Params \union {NoParam}]
      /\ connack \in [Connections -> {"no", "new", "present", "refused", "identifier_rejected"}]
  BY DEF SInv, Types
<1>7. /\ con' \in [Connections -> {"none", "open", "closing", "closed"}]
      /\ con'[k] = "open" /\ con'[sess.con] = "closing"
      /\ \A j \in Connections \ {k, sess.con} : con'[j] = con[j]
  BY <1>3, <1>5, <1>6
<1>8. /\ left' \in [Connections -> {"no", "disconnect", "lost", "taken"}]
      /\ left'[sess.con] = "taken" /\ \A j \in Connections \ {sess.con} : left'[j] = left[j]
  BY <1>3, <1>5, <1>6
<1>9. /\ param' \in [Connections -> Params \union {NoParam}] /\ param'[k] = p
      /\ connack' \in [Connections -> {"no", "new", "present", "refused", "identifier_rejected"}]
      /\ connack'[k] \in {"new", "present"}
      /\ \A j \in Connections \ {k} : connack'[j] = connack[j]
  BY <1>5, <1>6
<1>10. News = {k}
  BY <1>2, <1>9 DEF News
<1> QED BY <1>2, <1>3, <1>4, <1>5, <1>7, <1>8, <1>9, <1>10

LEMMA ConnectOnlineKeeps ==
    ASSUME SInv, ~Overtaking, NEW k \in Connections, NEW p \in Params, ConnectOnline(k, p)
    PROVE  SInv' /\ Kept
<1> DEFINE S == CloseProc(Now, sess.con, TRUE)
           o == sess.con
<1>1. /\ sess.alive /\ sess.con \in Connections \ {k}
      /\ con' \in [Connections -> {"none", "open", "closing", "closed"}]
      /\ left' \in [Connections -> {"no", "disconnect", "lost", "taken"}]
      /\ param' \in [Connections -> Params \union {NoParam}]
      /\ connack' \in
           [Connections -> {"no", "new", "present", "refused", "identifier_rejected"}]
      /\ con[k] = "none" /\ con'[k] = "open" /\ con'[sess.con] = "closing"
      /\ \A j \in Connections \ {k, sess.con} : con'[j] = con[j]
      /\ left'[sess.con] = "taken" /\ \A j \in Connections \ {sess.con} : left'[j] = left[j]
      /\ left[k] = "no" /\ left[sess.con] = "no"
      /\ param'[k] = p
      /\ connack'[k] \in {"new", "present"} /\ News = {k}
      /\ \A j \in Connections \ {k} : connack'[j] = connack[j]
      /\ pending = {} /\ UNCHANGED dangling
      /\ \A j \in Connections : con[j] = "open" /\ j \notin orphans => sess.con = j
  BY TakenOverIs
<1>2. /\ IsState(S)
      /\ S.sess.con = None
      /\ S.sess.expTimer => S.sess.expiry = "finite"
      /\ \/ sess.expiry = "zero" /\ S.sess = NoSession
         \/ S.sess.alive /\ SameData(S.sess, sess)
      /\ S.fate \in [Connections -> Fates] /\ OneHeld(S.fate, S.sess.will)
      /\ \A j \in Connections : S.fate[j] = fate[j] \/ (j = sess.will /\ S.fate[j] = "sent")
      /\ orphans = {} /\ S.sess.will # None => S.sess.will = sess.con /\ S.sess.delay
  <2>1. None \notin Connections
    BY NowIs
  <2> QED BY <1>1, <2>1, LeavesIs
<1>3. \/ /\ ~S.sess.alive
         /\ connack' = [connack EXCEPT ![k] = "new"]
         /\ Becomes(SetResponseTopic(Constructed(S, k, p), p))
         /\ UNCHANGED <<pending, orphans>>
      \/ /\ S.sess.alive /\ p.clean
         /\ connack' = [connack EXCEPT ![k] = "new"]
         /\ Becomes(RenewExpiry(UpdateWill(CleanData(SetResponseTopic(S, p), k), k, p), p))
         /\ orphans' = orphans \union {k}
         /\ UNCHANGED pending
      \/ /\ S.sess.alive /\ ~p.clean
         /\ connack' = [connack EXCEPT ![k] = "present"]
         /\ Becomes(SetResponseTopic(S, p))
         /\ pending' = pending \union {<<k, sess.born>>}
         /\ UNCHANGED orphans
  BY DEF ConnectOnline, Accepted
<1> HIDE DEF S
<1>4. /\ orphans \subseteq Connections /\ connack \in
           [Connections -> {"no", "new", "present", "refused", "identifier_rejected"}]
      /\ S.sess.will \in 0..MaxCons
  BY <1>2 DEF SInv, Types, IsState, IsSession
<1>5. orphans = {} => \A j \in Connections :
         /\ S.fate[j] # "dropped"
         /\ S.fate[j] = "discarded" => left'[j] = "disconnect"
         /\ S.fate[j] = "sent" => left'[j] \in {"lost", "taken"}
  <2> SUFFICES ASSUME orphans = {}, NEW j \in Connections
               PROVE  /\ S.fate[j] # "dropped"
                      /\ S.fate[j] = "discarded" => left'[j] = "disconnect"
                      /\ S.fate[j] = "sent" => left'[j] \in {"lost", "taken"}
    OBVIOUS
  <2>1. /\ fate[j] # "dropped"
        /\ fate[j] = "discarded" => left[j] = "disconnect"
        /\ fate[j] = "sent" => left[j] \in {"lost", "taken"}
    BY DEF SInv, Wills, FateOf
  <2>2. j = sess.will => j = sess.con
    BY <1>1, NowIs DEF SInv, Wills, WillOf
  <2> QED BY <1>1, <1>2, <2>1, <2>2
<1>6. \A j \in Connections :
        /\ con'[j] \in {"none", "open"} => left'[j] = "no"
        /\ con'[j] = "none" => connack'[j] = "no"
        /\ con'[j] = "open" => j = k \/ j \in orphans
  <2>1. \A j \in Connections :
          /\ con[j] \in {"none", "open"} => left[j] = "no"
          /\ con[j] = "none" => connack[j] = "no"
    BY DEF SInv, Opens
  <2> QED BY <1>1, <2>1
<1>7. CASE /\ ~S.sess.alive
           /\ connack' = [connack EXCEPT ![k] = "new"]
           /\ Becomes(SetResponseTopic(Constructed(S, k, p), p))
           /\ UNCHANGED <<pending, orphans>>
  <2> DEFINE R == SetResponseTopic(Constructed(S, k, p), p)
  <2>1. /\ IsState(R)
        /\ R.sess.alive /\ R.sess.con = k /\ R.sess.born = k /\ R.sess.data = k
        /\ ~R.sess.expTimer
        /\ R.sess.will = WillFor(k, p) /\ ~R.sess.delay
        /\ R.fate = Marked(S.fate, k, p)
    BY <1>2, NewIs
  <2>2. sess' = R.sess /\ fate' = R.fate
    BY <1>7 DEF Becomes
  <2> HIDE DEF R
  <2>3. S.sess = NoSession /\ S.sess.will = None /\ sess.expiry = "zero"
    BY <1>2, <1>7, NoSessionIs
  <2>4. /\ fate' \in [Connections -> Fates] /\ OneHeld(fate', sess'.will)
        /\ fate'[k] \in {"held", "none"}
        /\ \A j \in Connections : j # k => fate'[j] = S.fate[j]
    BY <1>2, <2>1, <2>2, <2>3, MarkedFates
  <2>5. Types'
    BY <1>1, <1>4, <1>7, <2>1, <2>2, <2>4 DEF Types, IsState
  <2>6. Holder' /\ Waiting'
    BY <1>1, <1>7, <2>1, <2>2 DEF SInv, Holder, Waiting
  <2>7. Opens'
    BY <1>6, <1>7, <2>1, <2>2 DEF Opens
  <2>8. Wills'
    <3>1. HeldWill'
      BY <2>4 DEF HeldWill, OneHeld
    <3>2. WillOf'
      BY <2>1, <2>2, NowIs DEF WillOf, WillFor
    <3>3. orphans = {} => FateOf'
      BY <1>5, <2>4 DEF FateOf
    <3> QED BY <1>7, <3>1, <3>2, <3>3 DEF Wills
  <2>9. Kept
    <3>1. connack'[k] = "new" /\ sess.con # None /\ con'[sess.con] # "open"
      BY <1>1, <1>4, <1>7, NowIs
    <3> QED BY <1>1, <2>1, <2>2, <2>3, <3>1 DEF Kept
  <2> QED BY <2>5, <2>6, <2>7, <2>8, <2>9 DEF SInv
<1>8. CASE /\ S.sess.alive /\ p.clean
           /\ connack' = [connack EXCEPT ![k] = "new"]
           /\ Becomes(RenewExpiry(UpdateWill(CleanData(SetResponseTopic(S, p), k), k, p), p))
           /\ orphans' = orphans \union {k}
           /\ UNCHANGED pending
  <2> DEFINE R == RenewExpiry(UpdateWill(CleanData(SetResponseTopic(S, p), k), k, p), p)
             f == Taken(S.fate, S.sess.will, "dropped")
  <2>1. /\ IsState(R)
        /\ R.sess.alive /\ R.sess.con = None
        /\ R.sess.data = k /\ ~R.sess.expTimer
        /\ R.sess.will = WillFor(k, p)
        /\ R.fate = Marked(f, k, p)
    BY <1>2, <1>8, CleanedIs
  <2>2. sess' = R.sess /\ fate' = R.fate
    BY <1>8 DEF Becomes
  <2>3. "dropped" \in Fates \ {"held"}
    BY DEF Fates
  <2>4. f \in [Connections -> Fates] /\ OneHeld(f, None)
    BY <1>2, <1>4, <2>3, TakenFates
  <2> HIDE DEF R, f
  <2>5. fate' \in [Connections -> Fates] /\ OneHeld(fate', sess'.will)
    BY <2>1, <2>2, <2>4, MarkedFates
  <2>6. Types'
    BY <1>1, <1>4, <1>8, <2>1, <2>2, <2>5 DEF Types, IsState
  <2>7. Holder' /\ Waiting'
    BY <1>1, <1>8, <2>1, <2>2 DEF SInv, Holder, Waiting
  <2>8. Opens'
    BY <1>6, <1>8 DEF Opens
  <2>9. Wills'
    <3>1. HeldWill'
      BY <2>5 DEF HeldWill, OneHeld
    <3> QED BY <1>8, <3>1 DEF Wills
  <2>10. Kept
    <3>1. connack'[k] = "new" /\ param'[k].clean
      BY <1>1, <1>4, <1>8
    <3> QED BY <1>1, <2>1, <2>2, <3>1 DEF Kept
  <2> QED BY <2>6, <2>7, <2>8, <2>9, <2>10 DEF SInv
<1>9. CASE /\ S.sess.alive /\ ~p.clean
           /\ connack' = [connack EXCEPT ![k] = "present"]
           /\ Becomes(SetResponseTopic(S, p))
           /\ pending' = pending \union {<<k, sess.born>>}
           /\ UNCHANGED orphans
  <2> DEFINE R == SetResponseTopic(S, p)
  <2>1. /\ IsState(R) /\ SameLife(R.sess, S.sess) /\ SameData(R.sess, S.sess)
        /\ R.sess.will = S.sess.will /\ R.sess.delay = S.sess.delay
        /\ R.fate = S.fate
    BY <1>2, SetResponseTopicIs
  <2>2. sess' = R.sess /\ fate' = R.fate
    BY <1>9 DEF Becomes
  <2> HIDE DEF R
  <2>3. /\ IsSession(sess') /\ fate' = S.fate
        /\ sess'.alive /\ sess'.con = None /\ SameData(sess', sess)
        /\ sess'.expTimer => sess'.expiry = "finite"
        /\ sess'.will = S.sess.will /\ sess'.delay = S.sess.delay
    <3>1. S.sess.alive /\ SameData(S.sess, sess)
      BY <1>2, <1>9, NoSessionIs
    <3> QED BY <1>2, <2>1, <2>2, <3>1 DEF IsState, SameLife, SameData
  <2>4. Types'
    BY <1>1, <1>2, <1>4, <1>9, <2>3 DEF Types
  <2>5. Holder' /\ Waiting'
    BY <1>1, <1>9, <2>3 DEF SInv, Holder, Waiting, SameData
  <2>6. Opens'
    <3>1. \E x \in pending' : x[1] = k
      <4>1. <<k, sess.born>> \in pending' /\ <<k, sess.born>>[1] = k
        BY <1>9
      <4> QED BY <4>1
    <3> QED BY <1>6, <1>9, <3>1 DEF Opens
  <2>7. Wills'
    <3>1. HeldWill'
      BY <1>2, <2>3 DEF HeldWill, OneHeld
    <3>2. orphans = {} => WillOf' /\ FateOf'
      BY <1>1, <1>2, <1>5, <2>3 DEF WillOf, FateOf
    <3> QED BY <1>9, <3>1, <3>2 DEF Wills
  <2>8. Kept
    <3>1. connack'[k] = "present"
      BY <1>4, <1>9
    <3> QED BY <1>1, <2>3, <3>1 DEF Kept, SameData
  <2> QED BY <2>4, <2>5, <2>6, <2>7, <2>8 DEF SInv
<1> QED BY <1>3, <1>7, <1>8, <1>9

LEMMA ConnectOfflineKeeps ==
    ASSUME SInv, ~Overtaking, NEW k \in Connections, NEW p \in Params, ConnectOffline(k, p)
    PROVE  SInv' /\ Kept
<1>1. /\ Fresh(k) /\ sess.alive /\ sess.con = None /\ con' = [con EXCEPT ![k] = "open"]
      /\ param' = [param EXCEPT ![k] = p] /\ UNCHANGED <<left, dangling, orphans>>
      /\ \/ /\ p.clean /\ connack' = [connack EXCEPT ![k] = "new"]
            /\ Becomes(Renewed(Now, k, p))
            /\ UNCHANGED pending
         \/ /\ ~p.clean /\ connack' = [connack EXCEPT ![k] = "present"]
            /\ pending' = pending \union {<<k, sess.born>>}
            /\ Becomes(SetResponseTopic(Now, p))
  BY DEF ConnectOffline, Accepted, Renewed
<1>2. /\ con[k] = "none" /\ pending = {} /\ left[k] = "no" /\ connack[k] = "no"
      /\ \A j \in Connections : con[j] = "open" /\ j \notin orphans => sess.con = j
  BY <1>1, FreshIs
<1>3. /\ con' \in [Connections -> {"none", "open", "closing", "closed"}]
      /\ param' \in [Connections -> Params \union {NoParam}] /\ param'[k] = p
      /\ connack' \in [Connections -> {"no", "new", "present", "refused", "identifier_rejected"}]
      /\ con'[k] = "open" /\ \A j \in Connections : j # k => con'[j] = con[j]
      /\ connack'[k] = IF p.clean THEN "new" ELSE "present"
      /\ \A j \in Connections : j # k => connack'[j] = connack[j]
  BY <1>1 DEF SInv, Types
<1>4. News = {k}
  BY <1>2, <1>3 DEF News
<1>5. \A j \in Connections :
        /\ con'[j] \in {"none", "open"} => left'[j] = "no"
        /\ con'[j] = "none" => connack'[j] = "no"
        /\ con'[j] = "open" => j = k \/ j \in orphans
  <2>1. \A j \in Connections :
          /\ con[j] \in {"none", "open"} => left[j] = "no"
          /\ con[j] = "none" => connack[j] = "no"
    BY DEF SInv, Opens
  <2> QED BY <1>1, <1>2, <1>3, <2>1, NowIs
<1>6. CASE p.clean
  <2> PICK S : S = Now
    OBVIOUS
  <2> PICK R : R = Renewed(S, k, p)
    OBVIOUS
  <2> DEFINE f == Taken(fate, sess.will, "sent")
  <2>1. /\ IsState(R)
        /\ R.sess.alive /\ R.sess.con = k /\ R.sess.data = k
        /\ ~R.sess.expTimer
        /\ R.sess.will = WillFor(k, p) /\ ~R.sess.delay
        /\ R.fate = Marked(f, k, p)
    <3>1. IsState(S) /\ S.sess = sess /\ S.fate = fate
      BY NowIs
    <3>2. /\ IsState(R)
          /\ R.sess.alive = S.sess.alive /\ R.sess.con = k /\ R.sess.data = k
          /\ ~R.sess.expTimer
          /\ R.sess.will = WillFor(k, p) /\ ~R.sess.delay
          /\ R.fate = Marked(Taken(S.fate, S.sess.will, "sent"), k, p)
      <4> HIDE DEF f
      <4> QED BY <3>1, RenewedIs
    <3>3. sess.alive
      BY <1>1
    <3> QED BY <3>1, <3>2, <3>3
  <2>2. sess' = R.sess /\ fate' = R.fate /\ UNCHANGED pending
    BY <1>1, <1>6 DEF Becomes
  <2>3. "sent" \in Fates \ {"held"}
    BY DEF Fates
  <2>4. /\ f \in [Connections -> Fates] /\ OneHeld(f, None)
        /\ \A j \in Connections : f[j] = IF j = sess.will THEN "sent" ELSE fate[j]
    BY <2>3, NowIs, TakenFates
  <2> HIDE DEF f
  <2>5. /\ fate' \in [Connections -> Fates] /\ OneHeld(fate', sess'.will)
        /\ fate'[k] \in {"held", "none"}
        /\ \A j \in Connections : j # k => fate'[j] = f[j]
    BY <2>1, <2>2, <2>4, MarkedFates
  <2>6. Types'
    BY <1>1, <1>3, <2>1, <2>2, <2>5 DEF SInv, Types, IsState
  <2>7. Holder' /\ Waiting'
    BY <1>1, <1>2, <1>3, <2>1, <2>2 DEF SInv, Holder, Waiting
  <2>8. Opens'
    BY <1>1, <1>5, <2>1, <2>2 DEF Opens
  <2>9. Wills'
    <3>1. HeldWill'
      BY <2>5 DEF HeldWill, OneHeld
    <3>2. WillOf'
      BY <2>1, <2>2, NowIs DEF WillOf, WillFor
    <3>3. orphans = {} => FateOf'
      BY <1>1, <2>4, <2>5, NowIs DEF SInv, Wills, WillOf, FateOf
    <3> QED BY <1>1, <3>1, <3>2, <3>3 DEF Wills
  <2>10. Kept
    BY <1>3, <1>4, <1>6, <2>1, <2>2 DEF Kept
  <2> QED BY <2>6, <2>7, <2>8, <2>9, <2>10 DEF SInv
<1>7. CASE ~p.clean
  <2> DEFINE R == SetResponseTopic(Now, p)
  <2>1. /\ IsState(R) /\ SameLife(R.sess, sess) /\ SameData(R.sess, sess)
        /\ R.sess.will = sess.will /\ R.sess.delay = sess.delay
        /\ R.fate = fate
    BY NowIs, SetResponseTopicIs
  <2>2. sess' = R.sess /\ fate' = R.fate /\ pending' = {<<k, sess.born>>}
    BY <1>1, <1>2, <1>7 DEF Becomes
  <2> HIDE DEF R
  <2>3. Types'
    BY <1>1, <1>3, <2>1, <2>2 DEF SInv, Types, IsState
  <2>4. Holder' /\ Waiting'
    BY <1>1, <1>3, <2>1, <2>2 DEF SInv, Holder, Waiting, SameLife, SameData
  <2>5. Opens'
    <3>1. \E x \in pending' : x[1] = k
      BY <2>2
    <3> QED BY <1>1, <1>5, <3>1 DEF Opens
  <2>6. Wills'
    <3>1. HeldWill'
      BY <2>1, <2>2 DEF SInv, Wills, HeldWill
    <3>2. orphans = {} => WillOf' /\ FateOf'
      BY <1>1, <2>1, <2>2 DEF SInv, Wills, WillOf, FateOf, SameLife
    <3> QED BY <1>1, <3>1, <3>2 DEF Wills
  <2>7. Kept
    BY <1>3, <1>4, <1>7, <2>1, <2>2 DEF Kept, SameData
  <2> QED BY <2>3, <2>4, <2>5, <2>6, <2>7 DEF SInv
<1> QED BY <1>6, <1>7, ParamTyped

(* CONNACK's completion handler finds the session its iterator points to. *)
LEMMA ConnackKeeps ==
    ASSUME SInv, NEW k \in Connections, NEW born \in Connections,
           ConnackWritten(k, born) \/ ConnackFails(k, born)
    PROVE  SInv' /\ Kept
<1>1. /\ pending = {<<k, sess.born>>} /\ sess.alive /\ sess.con = None /\ con[k] = "open"
      /\ born = sess.born /\ pending' = {}
      /\ UNCHANGED <<param, connack, orphans>>
  <2>1. <<k, born>> \in pending /\ pending' = pending \ {<<k, born>>}
        /\ UNCHANGED <<param, connack, orphans>>
    BY DEF ConnackWritten, ConnackFails
  <2>2. PICK j \in Connections :
          /\ pending = {<<j, sess.born>>} /\ sess.alive /\ sess.con = None
          /\ con[j] = "open"
    BY <2>1 DEF SInv, Waiting
  <2>3. j = k /\ born = sess.born
    BY <2>1, <2>2
  <2> QED BY <2>1, <2>2, <2>3
<1>2. /\ left[k] = "no" /\ News = {}
      /\ \A j \in Connections : con[j] = "open" => j = k \/ j \in orphans
  <2>1. left[k] = "no" /\ News = {}
    BY <1>1 DEF SInv, Opens, News
  <2>2. \A x \in pending : x[1] = k
    BY <1>1
  <2>3. None \notin Connections
    BY NowIs
  <2> QED BY <1>1, <2>1, <2>2, <2>3 DEF SInv, Opens
<1>3. CASE ConnackWritten(k, born)
  <2> DEFINE R == Inherited(Now, k)
             f == Taken(fate, sess.will, "resumed")
  <2>1. sess' = R.sess /\ fate' = R.fate /\ UNCHANGED <<con, left, dangling>>
    BY <1>1, <1>3 DEF ConnackWritten, Becomes
  <2>2. /\ IsState(R) /\ SameData(R.sess, sess)
        /\ R.sess.alive /\ R.sess.con = k
        /\ ~R.sess.expTimer
        /\ R.sess.will = WillFor(k, param[k]) /\ ~R.sess.delay
        /\ R.fate = Marked(f, k, param[k])
    BY <1>1, NowIs, InheritedIs DEF SInv
  <2>3. "resumed" \in Fates \ {"held"}
    BY DEF Fates
  <2>4. /\ f \in [Connections -> Fates] /\ OneHeld(f, None)
        /\ \A j \in Connections : f[j] = IF j = sess.will THEN "resumed" ELSE fate[j]
    BY <2>3, NowIs, TakenFates
  <2> HIDE DEF R, f
  <2>5. /\ fate' \in [Connections -> Fates] /\ OneHeld(fate', sess'.will)
        /\ fate'[k] \in {"held", "none"}
        /\ \A j \in Connections : j # k => fate'[j] = f[j]
    BY <2>1, <2>2, <2>4, MarkedFates
  <2>6. Types'
    BY <1>1, <2>1, <2>2, <2>5 DEF SInv, Types, IsState
  <2>7. Holder' /\ Waiting'
    BY <1>1, <2>1, <2>2 DEF SInv, Holder, Waiting
  <2>8. Opens'
    BY <1>1, <1>2, <2>1, <2>2 DEF SInv, Opens
  <2>9. Wills'
    <3>1. HeldWill'
      BY <2>5 DEF HeldWill, OneHeld
    <3>2. WillOf'
      BY <2>1, <2>2, NowIs DEF WillOf, WillFor
    <3>3. orphans = {} => FateOf'
      BY <2>1, <2>4, <2>5 DEF SInv, Wills, FateOf
    <3> QED BY <1>1, <3>1, <3>2, <3>3 DEF Wills
  <2>10. Kept
    BY <1>2, <2>1, <2>2 DEF Kept, SameData
  <2> QED BY <2>6, <2>7, <2>8, <2>9, <2>10 DEF SInv
<1>4. CASE ConnackFails(k, born)
  <2>1. /\ con' = [con EXCEPT ![k] = "closing"] /\ left' = [left EXCEPT ![k] = "lost"]
        /\ UNCHANGED <<sess, dangling, fate>>
    BY <1>4 DEF ConnackFails
  <2>2. /\ con' \in [Connections -> {"none", "open", "closing", "closed"}]
        /\ left' \in [Connections -> {"no", "disconnect", "lost", "taken"}]
        /\ con'[k] = "closing" /\ left'[k] = "lost"
        /\ \A j \in Connections : j # k => con'[j] = con[j] /\ left'[j] = left[j]
    BY <2>1 DEF SInv, Types
  <2>3. Types'
    BY <1>1, <2>1, <2>2 DEF SInv, Types
  <2>4. Holder' /\ Waiting'
    BY <1>1, <2>1 DEF SInv, Holder, Waiting
  <2>5. Opens'
    BY <1>1, <1>2, <2>2 DEF SInv, Opens
  <2>6. Wills'
    <3>1. HeldWill'
      BY <2>1 DEF SInv, Wills, HeldWill
    <3>2. orphans = {} => WillOf'
      <4>1. sess.will # None => sess.will \in Connections
        BY NowIs
      <4> QED BY <1>1, <1>2, <2>1, <2>2, <4>1 DEF SInv, Wills, WillOf
    <3>3. orphans = {} => FateOf'
      BY <1>2, <2>1, <2>2 DEF SInv, Wills, FateOf
    <3> QED BY <1>1, <3>1, <3>2, <3>3 DEF Wills
  <2>7. Kept
    BY <1>2, <2>1 DEF Kept
  <2> QED BY <2>3, <2>4, <2>5, <2>6, <2>7 DEF SInv
<1> QED BY <1>3, <1>4

(* The end of a connection: it leaves the session if it has it. *)
LEMMA LeavesKeeps ==
    ASSUME SInv, ~Overtaking, NEW k \in Connections, NEW will \in BOOLEAN, pending = {},
           con[k] \in {"open", "closing"}, Becomes(CloseProc(Now, k, will)),
           con' \in [Connections -> {"none", "open", "closing", "closed"}],
           con'[k] \in {"closing", "closed"},
           \A j \in Connections \ {k} : con'[j] = con[j],
           left' \in [Connections -> {"no", "disconnect", "lost", "taken"}],
           left'[k] = IF con[k] # "open" THEN left[k] ELSE IF will THEN "lost" ELSE "disconnect",
           \A j \in Connections \ {k} : left'[j] = left[j],
           UNCHANGED <<param, connack, pending, dangling, orphans>>
    PROVE  SInv' /\ Kept
<1>1. News = {}
  BY DEF News
<1>2. Opens' /\ Waiting'
  <2>1. \A j \in Connections :
          /\ con'[j] \in {"none", "open"} => left'[j] = "no"
          /\ con'[j] = "none" => connack'[j] = "no"
          /\ con'[j] = "open" => con[j] = "open" /\ j # k
    BY DEF SInv, Opens
  <2>2. \A j \in Connections : con[j] = "open" => j \in orphans \/ sess.con = j
    BY DEF SInv, Opens
  <2>3. sess.con # k => sess' = sess
    BY NowIs DEF Becomes, CloseProc
  <2>4. sess.con = k => \A j \in Connections : con'[j] = "open" => j \in orphans
    BY <2>1, <2>2
  <2> QED BY <2>1, <2>2, <2>3, <2>4 DEF Opens, Waiting
<1>3. CASE sess.con # k \/ ~sess.alive
  <2>1. UNCHANGED <<sess, fate>>
    BY <1>3, NowIs DEF Becomes, CloseProc
  <2>2. Types'
    BY <2>1 DEF SInv, Types
  <2>3. sess.con # k
    <3>1. k # None
      BY NowIs
    <3> QED BY <1>3, <3>1, NoSessionIs DEF SInv, Holder
  <2>4. Holder'
    <3>1. sess.con # None => con'[sess.con] = con[sess.con]
      BY <2>3, NowIs
    <3> QED BY <2>1, <3>1 DEF SInv, Holder
  <2>5. Wills'
    <3>1. HeldWill'
      BY <2>1 DEF SInv, Wills, HeldWill
    <3>2. left[k] # "no" => left'[k] = left[k]
      BY DEF SInv, Opens
    <3>3. orphans = {} => WillOf'
      BY <2>1, <3>2, NowIs DEF SInv, Wills, WillOf
    <3>4. orphans = {} => FateOf'
      BY <2>1, <3>2 DEF SInv, Wills, FateOf
    <3> QED BY <3>1, <3>3, <3>4 DEF Wills
  <2>6. Kept
    BY <1>1, <2>1 DEF Kept
  <2> QED BY <1>2, <2>2, <2>4, <2>5, <2>6 DEF SInv
<1>4. CASE sess.con = k /\ sess.alive
  <2> DEFINE R == CloseProc(Now, sess.con, will)
             how == IF will THEN "sent" ELSE "discarded"
  <2>1. k # None /\ con[k] = "open" /\ left[k] = "no"
    BY <1>4, NowIs DEF SInv, Holder, Opens
  <2>2. /\ IsState(R)
        /\ R.sess.con = None
        /\ R.sess.expTimer => R.sess.expiry = "finite"
        /\ \/ sess.expiry = "zero" /\ R.sess = NoSession
           \/ R.sess.alive /\ SameData(R.sess, sess)
        /\ R.fate \in [Connections -> Fates] /\ OneHeld(R.fate, R.sess.will)
        /\ \A j \in Connections : R.fate[j] = fate[j] \/ (j = sess.will /\ R.fate[j] = how)
        /\ orphans = {} /\ R.sess.will # None =>
              R.sess.will = sess.con /\ R.sess.delay /\ will
    BY <1>4, <2>1, LeavesIs
  <2>3. sess' = R.sess /\ fate' = R.fate
    BY <1>4 DEF Becomes
  <2> HIDE DEF R
  <2>4. Types'
    BY <2>2, <2>3 DEF SInv, Types, IsState
  <2>5. Holder'
    BY <2>2, <2>3, NoSessionIs DEF SInv, Holder
  <2>6. Wills'
    <3>1. HeldWill'
      BY <2>2, <2>3 DEF HeldWill, OneHeld
    <3>2. orphans = {} => WillOf'
      BY <1>4, <2>1, <2>2, <2>3 DEF WillOf
    <3>3. ASSUME orphans = {}, NEW j \in Connections
          PROVE  /\ fate'[j] # "dropped"
                 /\ fate'[j] = "discarded" => left'[j] = "disconnect"
                 /\ fate'[j] = "sent" => left'[j] \in {"lost", "taken"}
      <4>1. /\ fate[j] # "dropped"
            /\ fate[j] = "discarded" => left[j] = "disconnect"
            /\ fate[j] = "sent" => left[j] \in {"lost", "taken"}
        BY <3>3 DEF SInv, Wills, FateOf
      <4>2. j = sess.will => j = k
        BY <1>4, <2>1, <3>3, NowIs DEF SInv, Wills, WillOf
      <4>3. left'[k] = IF will THEN "lost" ELSE "disconnect"
        BY <2>1
      <4> QED BY <2>1, <2>2, <2>3, <4>1, <4>2, <4>3
    <3>4. orphans = {} => FateOf'
      BY <3>3 DEF FateOf
    <3> QED BY <3>1, <3>2, <3>4 DEF Wills
  <2>7. Kept
    BY <1>1, <1>4, <2>1, <2>2, <2>3 DEF Kept, SameData
  <2> QED BY <1>2, <2>4, <2>5, <2>6, <2>7 DEF SInv
<1> QED BY <1>3, <1>4

LEMMA EndsKeeps ==
    ASSUME SInv, ~Overtaking, NEW k \in Connections, Disconnect(k) \/ ConnectionEnds(k)
    PROVE  SInv' /\ Kept
<1>1. /\ con \in [Connections -> {"none", "open", "closing", "closed"}]
      /\ left \in [Connections -> {"no", "disconnect", "lost", "taken"}]
  BY DEF SInv, Types
<1>2. CASE Disconnect(k)
  <2>1. /\ pending = {} /\ con[k] = "open" /\ Becomes(CloseProc(Now, k, FALSE))
        /\ con' = [con EXCEPT ![k] = "closing"] /\ left' = [left EXCEPT ![k] = "disconnect"]
        /\ UNCHANGED <<param, connack, pending, dangling, orphans>>
    BY <1>2 DEF Disconnect, Quiet
  <2>2. /\ con' \in [Connections -> {"none", "open", "closing", "closed"}]
        /\ con'[k] = "closing" /\ \A j \in Connections \ {k} : con'[j] = con[j]
        /\ left' \in [Connections -> {"no", "disconnect", "lost", "taken"}]
        /\ left'[k] = "disconnect" /\ \A j \in Connections \ {k} : left'[j] = left[j]
    BY <1>1, <2>1
  <2> QED BY <2>1, <2>2, LeavesKeeps
<1>3. CASE ConnectionEnds(k)
  <2>1. /\ pending = {} /\ con[k] \in {"open", "closing"} /\ Becomes(CloseProc(Now, k, TRUE))
        /\ con' = [con EXCEPT ![k] = "closed"]
        /\ left' = [left EXCEPT ![k] = IF con[k] = "open" THEN "lost" ELSE @]
        /\ UNCHANGED <<param, connack, pending, dangling, orphans>>
    BY <1>3 DEF ConnectionEnds, Quiet
  <2>2. /\ con' \in [Connections -> {"none", "open", "closing", "closed"}]
        /\ con'[k] = "closed" /\ \A j \in Connections \ {k} : con'[j] = con[j]
        /\ left' \in [Connections -> {"no", "disconnect", "lost", "taken"}]
        /\ left'[k] = IF con[k] # "open" THEN left[k] ELSE "lost"
        /\ \A j \in Connections \ {k} : left'[j] = left[j]
    BY <1>1, <2>1
  <2> QED BY <2>1, <2>2, LeavesKeeps
<1> QED BY <1>2, <1>3

LEMMA SessionExpiresKeeps ==
    ASSUME SInv, ~Overtaking, SessionExpires PROVE SInv' /\ Kept
<1> DEFINE R == Destroyed(Now)
<1>1. /\ pending = {} /\ sess.expTimer /\ sess.con = None /\ sess.expiry = "finite"
      /\ sess' = R.sess /\ fate' = R.fate
      /\ UNCHANGED <<con, param, left, connack, pending, dangling, orphans>>
  BY DEF SessionExpires, Quiet, Becomes, SInv, Holder
<1>2. IsState(R) /\ R.sess = NoSession /\ R.fate = Taken(fate, sess.will, "sent")
  BY NowIs, DestroyedIs
<1> HIDE DEF R
<1>3. "sent" \in Fates \ {"held"}
  BY DEF Fates
<1>4. /\ fate' \in [Connections -> Fates] /\ OneHeld(fate', None)
      /\ \A j \in Connections : fate'[j] = IF j = sess.will THEN "sent" ELSE fate[j]
  BY <1>1, <1>2, <1>3, NowIs, TakenFates
<1>5. Types' /\ Holder' /\ Waiting'
  BY <1>1, <1>2, <1>4, NoSessionIs DEF SInv, Types, Holder, Waiting
<1>6. Opens'
  BY <1>1, NowIs DEF SInv, Opens
<1>7. Wills'
  <2>1. HeldWill' /\ WillOf'
    BY <1>1, <1>2, <1>4, NoSessionIs DEF HeldWill, WillOf, OneHeld
  <2>2. orphans = {} => FateOf'
    BY <1>1, <1>4, NowIs DEF SInv, Wills, WillOf, FateOf
  <2> QED BY <1>1, <2>1, <2>2 DEF Wills
<1>8. Kept
  <2>1. News = {}
    BY <1>1 DEF News
  <2> QED BY <1>1, <2>1 DEF Kept
<1> QED BY <1>5, <1>6, <1>7, <1>8 DEF SInv

(* The delay of the will passes, or its expiry. *)
LEMMA WillTimersKeep ==
    ASSUME SInv, ~Overtaking, WillDelayPasses \/ WillExpires PROVE SInv' /\ Kept
<1>1. /\ pending = {} /\ UNCHANGED <<con, param, left, connack, pending, dangling, orphans>>
  BY DEF WillDelayPasses, WillExpires, Quiet
<1>2. PICK R, how :
        /\ IsState(R) /\ SameLife(R.sess, sess) /\ SameData(R.sess, sess) /\ R.sess.will = None
        /\ sess' = R.sess /\ fate' = R.fate /\ R.fate = Taken(fate, sess.will, how)
        /\ how = "expired" \/ (how = "sent" /\ sess.delay)
  <2>1. CASE WillDelayPasses
    <3> DEFINE T == [Now EXCEPT !.sess.delay = FALSE]
               R == WillTaken(T, "sent")
    <3>1. /\ IsState(T) /\ SameLife(T.sess, sess) /\ SameData(T.sess, sess)
          /\ T.sess.will = sess.will /\ T.fate = fate
      <4>1. IsState(Now) /\ Now.sess = sess /\ Now.fate = fate
        BY NowIs
      <4> QED BY <4>1 DEF IsState, IsSession, SameLife, SameData
    <3>2. sess' = R.sess /\ fate' = R.fate /\ sess.delay
      BY <2>1 DEF WillDelayPasses, SendWillImpl, Becomes
    <3> HIDE DEF T
    <3>3. /\ IsState(R) /\ SameLife(R.sess, T.sess) /\ SameData(R.sess, T.sess)
          /\ R.sess.will = None
          /\ R.fate = Taken(T.fate, T.sess.will, "sent")
      BY <3>1, WillTakenIs
    <3> HIDE DEF R
    <3> QED BY <3>1, <3>2, <3>3 DEF SameLife, SameData
  <2>2. CASE WillExpires
    <3> DEFINE R == ClearWill(Now, "expired")
    <3>1. sess' = R.sess /\ fate' = R.fate
      BY <2>2 DEF WillExpires, Becomes
    <3>2. /\ IsState(R) /\ SameLife(R.sess, sess) /\ SameData(R.sess, sess)
          /\ R.sess.will = None
          /\ R.fate = Taken(fate, sess.will, "expired")
      BY NowIs, ClearWillIs
    <3> HIDE DEF R
    <3> QED BY <3>1, <3>2
  <2> QED BY <2>1, <2>2
<1>3. how \in Fates \ {"held"}
  BY <1>2 DEF Fates
<1>4. /\ fate' \in [Connections -> Fates] /\ OneHeld(fate', None)
      /\ \A j \in Connections : fate'[j] = IF j = sess.will THEN how ELSE fate[j]
  BY <1>2, <1>3, NowIs, TakenFates
<1>5. Types' /\ Holder' /\ Waiting' /\ Opens'
  <2>1. Types'
    BY <1>1, <1>2, <1>4 DEF SInv, Types, IsState
  <2>2. Holder'
    <3>1. ~sess.alive => sess' = sess
      <4>1. CASE WillDelayPasses
        BY <4>1, NoSessionIs DEF WillDelayPasses, SInv, Holder
      <4>2. CASE WillExpires
        BY <4>2 DEF WillExpires, SInv, Holder, NoSession
      <4> QED BY <4>1, <4>2
    <3> QED BY <1>1, <1>2, <3>1 DEF SInv, Holder, SameLife
  <2>3. Waiting' /\ Opens'
    BY <1>1, <1>2 DEF SInv, Waiting, Opens, SameLife
  <2> QED BY <2>1, <2>2, <2>3
<1>6. Wills'
  <2>1. HeldWill'
    BY <1>2, <1>4 DEF HeldWill, OneHeld
  <2>2. orphans = {} => WillOf'
    <3>1. sess.con # None => R.sess.con = sess.con /\ (orphans = {} => how = "expired")
      BY <1>2 DEF SInv, Wills, WillOf, SameLife
    <3>2. orphans = {} /\ sess.con # None => ~sess'.delay
      <4>1. CASE WillDelayPasses
        BY <4>1 DEF WillDelayPasses, SInv, Wills, WillOf
      <4>2. CASE WillExpires
        <5>1. sess'.delay = sess.delay
          BY <4>2, NowIs, ClearWillIs DEF WillExpires, Becomes
        <5> QED BY <5>1 DEF SInv, Wills, WillOf
      <4> QED BY <4>1, <4>2
    <3> QED BY <1>2, <3>2 DEF WillOf, SameLife
  <2>3. orphans = {} => FateOf'
    <3>1. how = "sent" /\ orphans = {} /\ sess.will # None =>
            left[sess.will] \in {"lost", "taken"}
      BY <1>2 DEF SInv, Wills, WillOf
    <3>2. None \notin Connections /\ how # "dropped" /\ how # "discarded"
      BY <1>2, NowIs
    <3> QED BY <1>1, <1>4, <3>1, <3>2 DEF SInv, Wills, FateOf
  <2> QED BY <1>1, <2>1, <2>2, <2>3 DEF Wills
<1>7. Kept
  <2>1. News = {}
    BY <1>1 DEF News
  <2> QED BY <1>2, <2>1 DEF Kept, SameData
<1> QED BY <1>5, <1>6, <1>7 DEF SInv
-----------------------------------------------------------------------------
(* The invariant of the specification *)

LEMMA SInit == Init => SInv
<1> SUFFICES ASSUME Init PROVE SInv
  OBVIOUS
<1>1. None \in 0..MaxCons /\ None \notin Connections
  BY SessionsAssumption DEF None, Connections
<1>2. /\ con = [k \in Connections |-> "none"]
      /\ param = [k \in Connections |-> NoParam]
      /\ left = [k \in Connections |-> "no"]
      /\ connack = [k \in Connections |-> "no"]
      /\ fate = [k \in Connections |-> "none"]
      /\ sess = NoSession /\ pending = {} /\ ~dangling /\ orphans = {}
  BY DEF Init
<1>3. IsSession(NoSession)
  BY <1>1 DEF IsSession, NoSession, Expiries
<1>4. /\ ~NoSession.alive /\ NoSession.con = None /\ NoSession.will = None
      /\ ~NoSession.expTimer
  BY DEF NoSession
<1> HIDE DEF NoSession
<1>5. Types
  BY <1>2, <1>3 DEF Types, Fates
<1>6. Holder /\ Waiting
  BY <1>2, <1>4 DEF Holder, Waiting
<1>7. Opens
  BY <1>2 DEF Opens
<1>8. Wills
  BY <1>1, <1>2, <1>4 DEF Wills, HeldWill, WillOf, FateOf
<1> QED BY <1>5, <1>6, <1>7, <1>8 DEF SInv

LEMMA SStep ==
    ASSUME SInv, ~Overtaking, Next
    PROVE  SInv' /\ Kept
<1>1. CASE \E k \in Connections : ConnectRefused(k) \/ ConnectUnnamed(k)
  BY <1>1, RefusedKeeps
<1>2. CASE \E k \in Connections, p \in Params :
              ConnectNew(k, p) \/ ConnectOnline(k, p) \/ ConnectOffline(k, p)
  BY <1>2, ConnectNewKeeps, ConnectOnlineKeeps, ConnectOfflineKeeps
<1>3. CASE \E k, born \in Connections : ConnackWritten(k, born) \/ ConnackFails(k, born)
  BY <1>3, ConnackKeeps
<1>4. CASE \E k \in Connections : Disconnect(k) \/ ConnectionEnds(k)
  BY <1>4, EndsKeeps
<1>5. CASE SessionExpires
  BY <1>5, SessionExpiresKeeps
<1>6. CASE WillDelayPasses \/ WillExpires
  BY <1>6, WillTimersKeep
<1> QED BY <1>1, <1>2, <1>3, <1>4, <1>5, <1>6 DEF Next

LEMMA SStutter ==
    ASSUME SInv, UNCHANGED vars
    PROVE  SInv'
<1>1. /\ UNCHANGED <<con, param, left, connack, sess, pending>>
      /\ UNCHANGED <<auth, dangling, fate, orphans>>
  BY DEF vars
<1>2. Types' /\ Holder'
  BY <1>1 DEF SInv, Types, Holder
<1>3. Waiting' /\ Opens'
  BY <1>1 DEF SInv, Waiting, Opens
<1>4. Wills'
  BY <1>1 DEF SInv, Wills, HeldWill, WillOf, FateOf
<1> QED BY <1>2, <1>3, <1>4 DEF SInv

LEMMA SInvariant ==
    ASSUME ~Overtaking
    PROVE  Spec => []SInv
<1>1. Init => SInv
  BY SInit
<1>2. SInv /\ [Next]_vars => SInv'
  BY SStep, SStutter
<1> QED BY <1>1, <1>2, PTL DEF Spec

LEMMA SInvAttached ==
    ASSUME SInv
    PROVE  Attached
<1>1. None \notin Connections
  BY NowIs
<1>2. ASSUME NEW k \in Served \ orphans
      PROVE  sess.alive /\ sess.con = k
  <2>1. k \in Connections /\ sess.con = k
    BY DEF SInv, Opens, Served
  <2>2. NoSession.con = None
    BY DEF NoSession
  <2> QED BY <1>1, <2>1, <2>2 DEF SInv, Holder
<1>3. Online => con[sess.con] = "open"
  BY DEF SInv, Holder, Online
<1> QED BY <1>2, <1>3 DEF SInv, Holder, Attached

LEMMA SInvWillKept ==
    ASSUME SInv
    PROVE  WillKept
<1> SUFFICES ASSUME orphans = {}, NEW k \in Connections
             PROVE  /\ fate[k] # "dropped"
                    /\ (fate[k] = "discarded" => left[k] = "disconnect")
                    /\ (fate[k] = "sent" => left[k] \in {"lost", "taken"})
                    /\ (fate[k] = "held" => sess.alive /\ sess.will = k)
                    /\ (fate[k] = "held" /\ left[k] # "no") => sess.delay
  BY DEF WillKept
<1>1. None \notin Connections
  BY NowIs
<1>2. fate[k] = "held" => sess.alive /\ sess.will = k
  <2>1. NoSession.will = None
    BY DEF NoSession
  <2> QED BY <1>1, <2>1 DEF SInv, Wills, HeldWill, Holder
<1>3. fate[k] = "held" /\ left[k] # "no" => sess.delay
  <2> SUFFICES ASSUME fate[k] = "held", left[k] # "no" PROVE sess.delay
    OBVIOUS
  <2>1. sess.will = k /\ k # None
    BY <1>1, <1>2
  <2>2. sess.con # k
    BY <1>1 DEF SInv, Holder, Opens
  <2> QED BY <2>1, <2>2 DEF SInv, Wills, WillOf
<1> QED BY <1>2, <1>3 DEF SInv, Wills, FateOf

-----------------------------------------------------------------------------
(* Whatever the number of connections of a client id and whatever they ask for,
   an open connection whose CONNECT was answered has the session, and no
   session has a connection that is gone (connect_handler(), close_proc()). *)
THEOREM SessionIsAttached ==
    ASSUME ~Overtaking
    PROVE  Spec => []Attached
<1>1. SInv => Attached
  BY SInvAttached
<1>2. Spec => []SInv
  BY SInvariant
<1> QED BY <1>1, <1>2, PTL

(* The will of every connection that ended without DISCONNECT is published, or
   expires, or is dropped by the client's own return, or its delay runs
   (send_will(), update_will(), renew(), ~session_state()). *)
THEOREM NoWillIsLost ==
    ASSUME ~Overtaking
    PROVE  Spec => []WillKept
<1>1. SInv => WillKept
  BY SInvWillKept
<1>2. Spec => []SInv
  BY SInvariant
<1> QED BY <1>1, <1>2, PTL

(* No step takes away the state of a session but a Clean Start, the end of a
   connection with expiry interval zero and the session's expiry, and CONNACK
   says session present exactly when it is kept (connect_handler()). *)
THEOREM StateOutlivesConnections ==
    ASSUME ~Overtaking
    PROVE  Spec => StateKept
<1>1. SInv /\ [Next]_vars =>
        [LET news == {k \in Connections : connack[k] = "no" /\ connack'[k] \in {"new", "present"}}
         IN  /\ (sess.data # None /\ sess'.data # sess.data) =>
                  \/ \E k \in news : param'[k].clean
                  \/ sess.expiry = "zero" /\ sess.con # None /\ con'[sess.con] # "open"
                  \/ sess.expiry = "finite" /\ sess.con = None
             /\ \A k \in news : sess'.data = IF connack'[k] = "present" THEN sess.data
                                             ELSE k]_vars
  BY SStep DEF Kept, News
<1>2. Spec => []SInv
  BY SInvariant
<1> QED BY <1>1, <1>2, PTL DEF Spec, StateKept
=============================================================================
