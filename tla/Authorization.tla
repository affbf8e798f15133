--------------------------- MODULE Authorization ----------------------------
(***************************************************************************)
(* security (broker/security.hpp): who the user of a connection is, the    *)
(* rules of the configuration and those the broker adds while it runs, and *)
(* what they let a user publish, subscribe to and receive. A rule is kept  *)
(* twice, in a list (authorization_) and, one entry for each name, in two  *)
(* maps by topic filter (auth_pub_map, auth_sub_map); publishing and       *)
(* delivery ask the maps, subscribing the list. The maps are of the type   *)
(* SubscriptionMap models and here the sets of their entries; a search     *)
(* finds those whose filter matches (BrokerTopics!OrdinaryExact). Digests  *)
(* are equal exactly if the passwords are.                                 *)
(***************************************************************************)
EXTENDS Integers, Sequences, FiniteSets, SequencesExt

CONSTANTS
    Accounts,       \* authentication_: [user name -> [method, secret]]
    Groups,         \* groups_: [name, members], @any among them, in the order of the names
    Rules,          \* "authorization" of the configuration, see below
    AnyGroup,       \* any_group_name: the group everybody is in
    Absent,         \* no user name, no password, no user
    SystemLevels    \* the topic levels that begin with $

ASSUME AuthorizationAssumption ==
    /\ Absent \notin DOMAIN Accounts
    /\ \E j \in DOMAIN Groups : Groups[j].name = AnyGroup
    /\ \A i \in DOMAIN Rules :
        /\ Rules[i].topic \in Seq(STRING) \ {<<>>}
        /\ \A verdict \in {"allow", "deny"}, act \in {"pub", "sub"} :
            Rules[i][verdict][act] \subseteq
                DOMAIN Accounts \union {Groups[j].name : j \in DOMAIN Groups}

SM == INSTANCE SubscriptionMap

-----------------------------------------------------------------------------
(* Login *)

OfMethod(name, method) == name \in DOMAIN Accounts /\ Accounts[name].method = method

(* anonymous, unauthenticated: the one account with that method. *)
TheAccount(method) ==
    IF \E n \in DOMAIN Accounts : OfMethod(n, method)
    THEN CHOOSE n \in DOMAIN Accounts : OfMethod(n, method) ELSE Absent

(* login() *)
Login(name, password) ==
    IF /\ OfMethod(name, "sha256") \/ OfMethod(name, "plain_password")
       /\ Accounts[name].secret = password
    THEN name ELSE Absent

(* connect_handler(): c is the name in the client certificate, the user    *)
(* name and the password, each of which may be Absent.                     *)
UserOf(c) ==
    LET known == IF c.cert # Absent
                 THEN IF OfMethod(c.cert, "client_cert") THEN c.cert ELSE Absent
                 ELSE IF c.name = Absent /\ c.password = Absent THEN TheAccount("anonymous")
                 ELSE IF c.name # Absent /\ c.password # Absent
                 THEN Login(c.name, c.password) ELSE Absent
    IN  IF known = Absent THEN TheAccount("unauthenticated") ELSE known

-----------------------------------------------------------------------------
(* The rules *)

NoRules == [list |-> <<>>, pub |-> {}, sub |-> {}]

(* get_next_rule_nr(): the number of a removed rule may be given again. *)
NextRule(a) == Max({0} \union {a.list[i].nr : i \in DOMAIN a.list}) + 1

(* insert_or_assign() and erase() of multiple_subscription_map, for each name. *)
Unnamed(map, topic, names) == {e \in map : e.filter # topic \/ e.name \notin names}

Named(map, topic, names, type, nr) ==
    Unnamed(map, topic, names)
        \union {[name |-> n, filter |-> topic, type |-> type, nr |-> nr] : n \in names}

(* add_auth(): a name's earlier entry for the same topic filter is replaced. *)
AddAuth(a, topic, pub, pubType, sub, subType) ==
    LET nr == NextRule(a)
    IN  [list |-> Append(a.list, [topic |-> topic, nr |-> nr, pub |-> pub,
                                  sub |-> sub, subType |-> subType]),
         pub  |-> Named(a.pub, topic, pub, pubType, nr),
         sub  |-> Named(a.sub, topic, sub, subType, nr)]

(* remove_auth(): the entries go whichever rule they are of now. *)
RemoveAuth(a, nr) ==
    LET i == SelectInSeq(a.list, LAMBDA r : r.nr = nr)
    IN  IF i = 0 THEN a
        ELSE [list |-> RemoveAt(a.list, i),
              pub  |-> Unnamed(a.pub, a.list[i].topic, a.list[i].pub),
              sub  |-> Unnamed(a.sub, a.list[i].topic, a.list[i].sub)]

(* Deny is read after allow: a rule with both denies the names of both. *)
TypeRead(rule, act) ==
    IF rule.deny[act] # {} THEN "deny" ELSE IF rule.allow[act] # {} THEN "allow" ELSE "none"

NamesRead(rule, act) == rule.allow[act] \union rule.deny[act]

(* load_json() and validate(): the rules are numbered as they are read. *)
Configured ==
    FoldLeft(LAMBDA a, r : AddAuth(a, r.topic, NamesRead(r, "pub"), TypeRead(r, "pub"),
                                   NamesRead(r, "sub"), TypeRead(r, "sub")),
             NoRules, Rules)

-----------------------------------------------------------------------------
(* Decisions *)

InGroup(user, g) == g.name = AnyGroup \/ user \in g.members

(* username_and_groups *)
NamesOf(user) ==
    {user} \union {Groups[j].name : j \in {i \in DOMAIN Groups : InGroup(user, Groups[i])}}

(* The entries whose callbacks find() makes. *)
EntriesFor(map, topic) == {e \in map : SM!Matches(e.filter, topic)}

(* auth_pub() *)
AuthPub(a, topic, user) ==
    LET mine == {e \in EntriesFor(a.pub, topic) : e.name \in NamesOf(user)}
    IN  IF mine = {} THEN "deny"
        ELSE (CHOOSE e \in mine : \A x \in mine : e.nr >= x.nr).type

(* find_match() goes down level by level: it meets a trailing # before     *)
(* anything longer, and a level itself before a + in its place.            *)
MetBefore(f, g) ==
    LET i == CHOOSE k \in 1..Max({Len(f), Len(g)}) :
                /\ \A j \in 1..(k - 1) : f[j] = g[j]
                /\ k \notin DOMAIN f \/ k \notin DOMAIN g \/ f[k] # g[k]
        hash(x) == Last(x) = SM!Hash
    IN  IF hash(f) /\ hash(g) /\ Len(f) # Len(g) THEN Len(f) < Len(g)
        ELSE IF hash(f) # hash(g) THEN hash(f)
        ELSE g[i] = SM!Plus

(* The orders find() may meet the entries in: those of one filter are in   *)
(* an unordered map, which may give any of them first.                     *)
OrdersMet(entries) ==
    {s \in SetToSeqs(entries) : \A i, j \in DOMAIN s :
        (i < j /\ s[i].filter # s[j].filter) => MetBefore(s[i].filter, s[j].filter)}

Overwritten(f, x, v) == [y \in DOMAIN f \union {x} |-> IF y = x THEN v ELSE f[y]]

(* The results auth_sub() may have: an entry with a lower number than an   *)
(* earlier one, of whatever name, is passed over.                          *)
AuthSub(a, topic) ==
    LET taken(s, e) == IF e.nr < s.priority THEN s
                       ELSE [result   |-> Overwritten(s.result, e.name, e.type),
                             priority |-> e.nr]
        nothing == [result |-> [n \in {} |-> "deny"], priority |-> 0]
    IN  {FoldLeft(taken, nothing, order).result : order \in OrdersMet(EntriesFor(a.sub, topic))}

(* auth_sub_user(): the user's own entry, else that of the first group. *)
AuthSubUser(result, user) ==
    LET i == SelectInSeq(Groups, LAMBDA g : InGroup(user, g) /\ g.name \in DOMAIN result)
    IN  IF user \in DOMAIN result THEN result[user]
        ELSE IF i # 0 THEN result[Groups[i].name]
        ELSE "deny"

(* is_subscribe_allowed(): some topic matches both filters. *)
IsSubscribeAllowed(auth, filter) ==
    LET stop(i)  == SM!Hash \in {auth[i], filter[i]}
        agree(i) == auth[i] = filter[i] \/ SM!Plus \in {auth[i], filter[i]}
        both     == DOMAIN auth \intersect DOMAIN filter
    IN  \/ \E i \in both : stop(i) /\ \A j \in 1..(i - 1) : agree(j)
        \/ DOMAIN auth = DOMAIN filter /\ \A i \in both : agree(i)

(* A mutant: the numbers of levels are not compared at the end. *)
IsSubscribeDeniedShort(deny, filter) ==
    LET covers(i) == deny[i] = filter[i] \/ (deny[i] = SM!Plus /\ filter[i] # SM!Hash)
        both      == DOMAIN deny \intersect DOMAIN filter
    IN  \/ \E i \in both : deny[i] = SM!Hash /\ \A j \in 1..(i - 1) : covers(j)
        \/ \A i \in both : covers(i)

(* is_subscribe_denied(): every topic that matches filter matches deny. *)
IsSubscribeDenied(deny, filter) ==
    LET covers(i) == deny[i] = filter[i] \/ (deny[i] = SM!Plus /\ filter[i] # SM!Hash)
        both      == DOMAIN deny \intersect DOMAIN filter
    IN  \/ \E i \in both : /\ deny[i] = SM!Hash /\ Len(deny) = i
                           /\ \A j \in 1..(i - 1) : covers(j)
        \/ DOMAIN deny = DOMAIN filter /\ \A i \in both : covers(i)

(* get_auth_sub_by_user(): the rules about the user's subscriptions. *)
SubRules(a, user) ==
    SelectSeq(a.list, LAMBDA r : r.subType # "none" /\ r.sub \intersect NamesOf(user) # {})

(* is_subscribe_authorized(): get_auth_sub_topics() is not empty. *)
IsSubscribeAuthorized(a, user, filter) ==
    FoldLeft(LAMBDA found, r : IF r.subType = "allow"
                               THEN found \/ IsSubscribeAllowed(r.topic, filter)
                               ELSE found /\ ~IsSubscribeDenied(r.topic, filter),
             FALSE, SubRules(a, user))
=============================================================================
