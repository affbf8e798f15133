---------------------------- MODULE BrokerTopics ----------------------------
(***************************************************************************)
(* Topics in the broker: the subscriptions of all sessions (subs_map_),    *)
(* the members of shared subscriptions (shared_targets_) and the retained  *)
(* messages (retains_), as the handlers of SUBSCRIBE, UNSUBSCRIBE and      *)
(* PUBLISH, the end of a session and the expiry of a retained message      *)
(* change them. What a publish or a subscribe hands to the sessions is     *)
(* out; what a session then does with it is BrokerDelivery. Each action is *)
(* one handler, run to its end. What a client may publish, subscribe to    *)
(* and receive is what the configured rules say (Authorization).           *)
(***************************************************************************)
EXTENDS Authorization, EntrySequences

CONSTANTS
    Clients,            \* client ids (user names do not tell sessions apart here)
    Filters,            \* the topic filters clients subscribe to; # is a last level
    Topics,             \* the topics clients publish on
    Shares,             \* share names
    NotShared,          \* the empty share name of an ordinary subscription
    SubOpts,            \* subscribe options, [nl : BOOLEAN, rh : {"send", "new", "never"}]
    Contents,           \* non-empty message contents
    Username,           \* the user each client has logged in as
    EntryLists,         \* the entries a SUBSCRIBE may carry
    MixedShares         \* TRUE if a client uses one filter under several share names

ASSUME TopicsAssumption ==
    /\ Topics \subseteq Seq(STRING) /\ <<>> \notin Topics
    /\ Filters \subseteq Seq(STRING) /\ <<>> \notin Filters
    /\ \A f \in Filters : \A i \in 1..(Len(f) - 1) : f[i] # SM!Hash
    /\ NotShared \notin Shares
    /\ SM!Plus \notin SystemLevels /\ SM!Hash \notin SystemLevels
    /\ Username \in [Clients -> DOMAIN Accounts]
    /\ EntryLists \subseteq Seq([share : Shares \union {NotShared}, filter : Filters,
                                opts : SubOpts])
    /\ MixedShares \in BOOLEAN

VARIABLES
    subs,       \* subs_map_
    handles,    \* handles_ of each session
    targets,    \* shared_targets_, by time stamp: the least recently chosen first
    retains,    \* retains_
    out,        \* what the last step handed to the sessions
    granted,    \* history: the subscriptions each client has been granted
    latest      \* history: the retained message of each topic

vars == <<subs, handles, targets, retains, out, granted, latest>>

RM == INSTANCE RetainedTopicMap

(* is_subscribe_authorized(), as subscribe_handler() asks it. *)
MaySubscribe ==
    {x \in Clients \X Filters : IsSubscribeAuthorized(Configured, Username[x[1]], x[2])}

(* auth_sub() and auth_sub_user(), as do_publish() asks them: the rules do  *)
(* not change any more, and neither does the order of the map.             *)
MayRead ==
    LET result(t) == CHOOSE r \in AuthSub(Configured, t) : TRUE
        topics(c) == {t \in Topics : AuthSubUser(result(t), Username[c]) = "allow"}
    IN  UNION {{c} \X topics(c) : c \in Clients}

(* auth_pub(), as publish_handler() asks it. *)
MayPublish ==
    {x \in Clients \X Topics : AuthPub(Configured, x[2], Username[x[1]]) = "allow"}

Message(to, topic, share, filter, retain) ==
    [to |-> to, topic |-> topic, share |-> share, filter |-> filter, retain |-> retain]

Init ==
    /\ subs = SM!EmptyTree
    /\ handles = [c \in Clients |-> {}]
    /\ targets = <<>>
    /\ retains = RM!NoTopics
    /\ out = {}
    /\ granted = [c \in Clients |-> {}]
    /\ latest = [t \in Topics |-> {}]

-----------------------------------------------------------------------------
(* shared_target: one entry for each client and share name. *)

Member(c, share, filters) == [client |-> c, share |-> share, filters |-> filters]

IsMember(e, c, share) == e.client = c /\ e.share = share

HasMember(ts, c, share) == \E i \in DOMAIN ts : IsMember(ts[i], c, share)

PlaceOf(ts, c, share) == CHOOSE i \in DOMAIN ts : IsMember(ts[i], c, share)

(* insert(): a new entry is the most recent, an existing one keeps its place. *)
Joined(ts, c, share, filter) ==
    IF HasMember(ts, c, share)
    THEN [ts EXCEPT ![PlaceOf(ts, c, share)].filters = @ \union {filter}]
    ELSE Append(ts, Member(c, share, {filter}))

(* A mutant: an entry without filters stays, and its filter with it. *)
LeftIfLast(ts, c, share, filter) ==
    [i \in DOMAIN ts |->
        IF IsMember(ts[i], c, share) /\ Cardinality(ts[i].filters) > 1
        THEN [ts[i] EXCEPT !.filters = @ \ {filter}] ELSE ts[i]]

(* erase(share_name, topic_filter, session) *)
Left(ts, c, share, filter) ==
    IF ~HasMember(ts, c, share) THEN ts
    ELSE LET i    == PlaceOf(ts, c, share)
             rest == ts[i].filters \ {filter}
         IN  IF rest = {} THEN RemoveAt(ts, i) ELSE [ts EXCEPT ![i].filters = rest]

(* erase(session) *)
LeftAll(ts, c) == Selected(ts, {i \in DOMAIN ts : ts[i].client # c})

(* get_target(): the index of the member whose turn it is, 0 if there is none. *)
TurnOf(ts, share, filter) ==
    SelectInSeq(ts, LAMBDA e : e.share = share /\ filter \in e.filters)

(* The chosen member gets a new time stamp. *)
Served(ts, i) == Append(RemoveAt(ts, i), ts[i])

-----------------------------------------------------------------------------
(* SUBSCRIBE and UNSUBSCRIBE *)

Sub(e) == [share |-> e.share, nl |-> e.opts.nl]

(* session_state::subscribe(): does the subscription get retained messages? *)
WantsRetained(tree, c, e) ==
    \/ e.opts.rh = "send"
    \/ e.opts.rh = "new" /\ SM!IsNew(tree, e.filter, c)

GrantedEntry(held, e) ==
    {g \in held : g.share # e.share \/ g.filter # e.filter}
        \union {[share |-> e.share, filter |-> e.filter, nl |-> e.opts.nl]}

(* session_state::subscribe(), for one authorized entry. *)
SubscribedEntry(s, c, e) ==
    [tree    |-> SM!Inserted(s.tree, e.filter, c, Sub(e)),
     targets |-> IF e.share = NotShared THEN s.targets
                 ELSE Joined(s.targets, c, e.share, e.filter),
     handles |-> IF SM!IsNew(s.tree, e.filter, c) THEN s.handles \union {e.filter}
                 ELSE s.handles,
     retain  |-> IF WantsRetained(s.tree, c, e)
                 THEN s.retain \union
                        {Message(c, t, e.share, e.filter, TRUE) :
                            t \in RM!RetainedFound(retains, e.filter)}
                 ELSE s.retain,
     granted |-> GrantedEntry(s.granted, e)]

(* What the client keeps to unless MixedShares. *)
OneShare(c, entries) ==
    \A i \in DOMAIN entries :
        /\ \A g \in granted[c] : g.filter = entries[i].filter => g.share = entries[i].share
        /\ \A j \in DOMAIN entries :
            entries[i].filter = entries[j].filter => entries[i].share = entries[j].share

(* What there is after the first k entries; one that is not authorized is  *)
(* passed over.                                                            *)
Subscribing(c, entries) ==
    LET E[k \in 0..Len(entries)] ==
            IF k = 0
            THEN [tree |-> subs, targets |-> targets, handles |-> handles[c], retain |-> {},
                  granted |-> granted[c]]
            ELSE IF <<c, entries[k].filter>> \in MaySubscribe
            THEN SubscribedEntry(E[k - 1], c, entries[k])
            ELSE E[k - 1]
    IN  E

(* subscribe_handler() *)
Subscribe(c, entries) ==
    LET end == Subscribing(c, entries)[Len(entries)]
    IN  /\ MixedShares \/ OneShare(c, entries)
        /\ subs' = end.tree
        /\ targets' = end.targets
        /\ handles' = [handles EXCEPT ![c] = end.handles]
        /\ out' = end.retain
        /\ granted' = [granted EXCEPT ![c] = end.granted]
        /\ UNCHANGED <<retains, latest>>

(* unsubscribe_handler(): session_state::unsubscribe() *)
Unsubscribe(c, share, filter) ==
    /\ MixedShares \/ OneShare(c, <<[share |-> share, filter |-> filter]>>)
    /\ targets' = IF share = NotShared THEN targets ELSE Left(targets, c, share, filter)
    /\ IF SM!Stored(subs, filter)
       THEN /\ handles' = [handles EXCEPT ![c] = @ \ {filter}]
            /\ subs' = SM!Erased(subs, filter, c)
       ELSE UNCHANGED <<handles, subs>>
    /\ granted' = [granted EXCEPT ![c] = {g \in @ : g.share # share \/ g.filter # filter}]
    /\ out' = {}
    /\ UNCHANGED <<retains, latest>>

(* The tree after the first k of a session's subscriptions are erased. *)
Erasing(c, filters) ==
    LET T[k \in 0..Len(filters)] ==
            IF k = 0 THEN subs ELSE SM!Erased(T[k - 1], filters[k], c)
    IN  T

(* session_state::clean(): by Clean Start, or the end of the session. *)
Clean(c) ==
    /\ targets' = LeftAll(targets, c)
    /\ LET filters == SetToSeq(handles[c])
       IN  subs' = Erasing(c, filters)[Len(filters)]
    /\ handles' = [handles EXCEPT ![c] = {}]
    /\ granted' = [granted EXCEPT ![c] = {}]
    /\ out' = {}
    /\ UNCHANGED <<retains, latest>>

-----------------------------------------------------------------------------
(* PUBLISH *)

(* What deliver() lets through. *)
Readable(messages) == {m \in messages : <<m.to, m.topic>> \in MayRead}

(* To the subscribers that are not shared; No Local leaves the publisher out. *)
Ordinary(source, topic) ==
    {Message(x[1], topic, NotShared, x[2], FALSE) :
        x \in {y \in Clients \X SM!Found(subs, topic) :
                /\ y[1] \in DOMAIN subs[y[2]].subs
                /\ subs[y[2]].subs[y[1]].share = NotShared
                /\ ~(subs[y[2]].subs[y[1]].nl /\ y[1] = source)}}

(* sent: the share name and filter of each shared subscription met. *)
SharedMet(topic) ==
    UNION {{[share |-> subs[f].subs[c].share, filter |-> f] :
                c \in {k \in DOMAIN subs[f].subs : subs[f].subs[k].share # NotShared}} :
           f \in SM!Found(subs, topic)}

(* get_target() for one of them after the other. *)
Serve(s, topic, g) ==
    LET i == TurnOf(s.targets, g.share, g.filter)
    IN  IF i = 0 THEN s
        ELSE [targets |-> Served(s.targets, i),
              out |-> s.out \union
                        {Message(s.targets[i].client, topic, g.share, g.filter, FALSE)}]

(* After the first k of them. *)
Serving(topic, groups) ==
    LET S[k \in 0..Len(groups)] ==
            IF k = 0 THEN [targets |-> targets, out |-> {}]
            ELSE Serve(S[k - 1], topic, groups[k])
    IN  S

(* subs_map_ is an unordered map: the groups are met in any order. *)
Publish(source, topic, retain, content) ==
    /\ <<source, topic>> \in MayPublish
    /\ \E groups \in SetToSeqs(SharedMet(topic)) :
        LET end == Serving(topic, groups)[Len(groups)]
        IN  /\ targets' = end.targets
            /\ out' = Readable(Ordinary(source, topic) \union end.out)
    /\ IF ~retain THEN UNCHANGED <<retains, latest>>
       ELSE IF content = {}
       THEN /\ retains' = RM!Dropped(retains, topic)
            /\ latest' = [latest EXCEPT ![topic] = {}]
       ELSE \E c \in content :
            /\ retains' = RM!Retained(retains, topic, c)
            /\ latest' = [latest EXCEPT ![topic] = {c}]
    /\ UNCHANGED <<subs, handles, granted>>

(* The Message Expiry Interval of a retained message has passed. *)
RetainedExpires(topic) ==
    /\ latest[topic] # {}
    /\ retains' = RM!Dropped(retains, topic)
    /\ latest' = [latest EXCEPT ![topic] = {}]
    /\ out' = {}
    /\ UNCHANGED <<subs, handles, targets, granted>>

Next ==
    \/ \E c \in Clients, entries \in EntryLists : Subscribe(c, entries)
    \/ \E c \in Clients, share \in Shares \union {NotShared}, f \in Filters :
        Unsubscribe(c, share, f)
    \/ \E c \in Clients : Clean(c)
    \/ \E c \in Clients, t \in Topics : Publish(c, t, FALSE, {})
    \/ \E c \in Clients, t \in Topics, x \in {{}} \union {{v} : v \in Contents} :
        Publish(c, t, TRUE, x)
    \/ \E t \in Topics : RetainedExpires(t)

Spec == Init /\ [][Next]_vars

-----------------------------------------------------------------------------
(* Properties *)

GrantedFilters(c) == {g.filter : g \in granted[c]}

GroupMembers(share, filter) ==
    {c \in Clients : \E g \in granted[c] : g.share = share /\ g.filter = filter}

(* The tree, the handles of the sessions and the members of the shared     *)
(* subscriptions agree with what the clients were granted, whatever was    *)
(* subscribed, replaced, unsubscribed and cleaned before: no node without  *)
(* a subscription below it, exact counts and wildcard flags, no member or  *)
(* handle left behind (subscription_map.hpp, session_state.hpp,            *)
(* shared_target_impl.hpp).                                                *)
TreeExact ==
    LET below(p) == {x \in Clients \X Filters :
                        x[2] \in GrantedFilters(x[1]) /\ IsPrefix(p, x[2])}
    IN  /\ DOMAIN subs = {SM!Root} \union
                UNION {Prefixes(f) : f \in UNION {GrantedFilters(c) : c \in Clients}}
        /\ \A p \in DOMAIN subs :
            /\ p # SM!Root => subs[p].count = Cardinality(below(p))
            /\ subs[p].plus <=> Append(p, SM!Plus) \in DOMAIN subs
            /\ subs[p].hash <=> Append(p, SM!Hash) \in DOMAIN subs
            /\ DOMAIN subs[p].subs = {c \in Clients : p \in GrantedFilters(c)}
        /\ \A c \in Clients : handles[c] = GrantedFilters(c)
        /\ \A i \in DOMAIN targets :
            targets[i].filters = {f \in Filters :
                                    targets[i].client \in GroupMembers(targets[i].share, f)}

(* A publish goes to exactly the ordinary subscriptions that were granted  *)
(* and whose filter matches, each client once for each of its filters and  *)
(* never back to a publisher that asked for No Local (do_publish()).       *)
OrdinaryExact ==
    \A source \in Clients, topic \in Topics :
        Ordinary(source, topic) =
            {Message(x[1], topic, NotShared, x[2], FALSE) :
                x \in {y \in Clients \X Filters :
                        /\ SM!Matches(y[2], topic)
                        /\ \E g \in granted[y[1]] :
                            /\ g.share = NotShared /\ g.filter = y[2]
                            /\ ~(g.nl /\ y[1] = source)}}

(* Of the members of a shared subscription that matches, exactly one gets  *)
(* the message, and a client that left or was cleaned never does. (The one *)
(* chosen may not be authorized to read the topic.)                        *)
SharedOnceIn(topic) ==
    \A share \in Shares, f \in Filters :
        LET got == {m.to : m \in {x \in out' : x.share = share /\ x.filter = f}}
            may == {c \in GroupMembers(share, f) : <<c, topic>> \in MayRead}
        IN  /\ got \subseteq may
            /\ Cardinality(got) <= 1
            /\ (SM!Matches(f, topic) /\ may # {} /\ may = GroupMembers(share, f))
                    => got # {}

SharedOnce ==
    [][\A c \in Clients, t \in Topics : Publish(c, t, FALSE, {}) => SharedOnceIn(t)]_vars

(* The filters under which a retained message is sent to a new subscriber: *)
(* those that match, and the parent level of a trailing #.                 *)
MatchesRetained(filter, topic) ==
    \/ SM!Matches(filter, topic)
    \/ Last(filter) = SM!Hash /\ Len(filter) > 1 /\ SM!Matches(Front(filter), topic)

RetainedTopics == {t \in Topics : latest[t] # {}}

(* Retained messages: each is the last one published on its topic, a new   *)
(* subscription never gets one its filter does not match, and with a       *)
(* filter without + it gets all that match, however the tree grew and      *)
(* shrank before (retained_topic_map.hpp).                                 *)
RetainedExact ==
    /\ \A t \in RetainedTopics : retains.nodes[t].value = latest[t]
    /\ DOMAIN retains.nodes = {SM!Root} \union UNION {Prefixes(t) : t \in RetainedTopics}
    /\ \A f \in Filters :
        LET found == RM!RetainedFound(retains, f)
            match == {t \in RetainedTopics : MatchesRetained(f, t)}
        IN  /\ found \subseteq match
            /\ SM!Plus \notin ToSet(f) => found = match

(***************************************************************************)
(* The last rule that names a user, or a group the user is in, and whose   *)
(* topic matches decides; without one the answer is no.                    *)
(***************************************************************************)
LastRuleSays(act, user, topic) ==
    LET about == {i \in DOMAIN Rules :
                    /\ NamesRead(Rules[i], act) \intersect NamesOf(user) # {}
                    /\ SM!Matches(Rules[i].topic, topic)}
    IN  about # {} /\ TypeRead(Rules[Max(about)], act) = "allow"

(* auth_sub() may find one thing only, in whatever order its walk meets the *)
(* entries of a filter.                                                    *)
ReadsAsLastRule ==
    \A c \in Clients, t \in Topics : \A result \in AuthSub(Configured, t) :
        AuthSubUser(result, Username[c]) = "allow" <=> LastRuleSays("sub", Username[c], t)

(* Publishing (a map with rule numbers), delivery (a map walked with one   *)
(* running priority for all names) and subscribing (a walk of the list)    *)
(* find the same last rule, so that a client that was granted a            *)
(* subscription to a topic receives what is published there and one that   *)
(* was not does not (auth_pub(), auth_sub(), is_subscribe_authorized()).   *)
(* The rules go from the general to the special, which auth_sub() needs.   *)
LastRuleDecides ==
    /\ ReadsAsLastRule
    /\ \A c \in Clients, t \in Topics :
        /\ <<c, t>> \in MayPublish <=> LastRuleSays("pub", Username[c], t)
        /\ IsSubscribeAuthorized(Configured, Username[c], t) <=> <<c, t>> \in MayRead
    /\ \A c \in Clients : \A g \in granted[c] :
        g.filter \in Topics => <<c, g.filter>> \in MayRead
=============================================================================
