--------------------------- MODULE SubscriptionMap --------------------------
(***************************************************************************)
(* multiple_subscription_map (broker/subscription_map.hpp): the topic      *)
(* filters of all subscriptions, kept as a tree with one node per level    *)
(* and the subscribers of a filter at its last node. A topic or a filter   *)
(* is a sequence of levels. A node is named by the path from the root; the *)
(* code numbers its nodes and keys each by its parent's number and its     *)
(* level, which comes to the same as long as no node outlives its parent   *)
(* (BrokerTopics!TreeExact says so).                                       *)
(***************************************************************************)
EXTENDS Integers, Sequences, FiniteSets, SequencesExt

CONSTANT SystemLevels       \* the levels that begin with $

Plus == "+"
Hash == "#"
Root == <<>>

Nowhere == [c \in {} |-> <<>>]

(* path_entry(id, parent), with count_storage's initial 1 and no flags. *)
NewNode == [count |-> 1, plus |-> FALSE, hash |-> FALSE, subs |-> Nowhere]

EmptyTree == [p \in {Root} |-> NewNode]

(* The nodes find_topic_filter() and create_topic_filter() go through. *)
PathOf(filter) == Prefixes(filter) \ {Root}

(* find_topic_filter(), lookup(): the walk stops at the first missing level. *)
Stored(tree, filter) == PathOf(filter) \subseteq DOMAIN tree

(* The level that follows node p on the way to filter. *)
LevelBelow(p, filter) == filter[Len(p) + 1]

-----------------------------------------------------------------------------
(* Insertion *)

(* create_topic_filter(): nodes that are missing are created with count 1  *)
(* and make their parent remember a wildcard child, the others are counted *)
(* once more.                                                              *)
CreatedPath(tree, filter) ==
    LET base(p) == IF p \in DOMAIN tree THEN tree[p] ELSE NewNode
        grown(p) == /\ p # filter
                    /\ Append(p, LevelBelow(p, filter)) \notin DOMAIN tree
    IN  [p \in DOMAIN tree \union PathOf(filter) |->
            IF p \notin Prefixes(filter) THEN tree[p]
            ELSE [count |-> base(p).count + (IF p # Root /\ p \in DOMAIN tree THEN 1 ELSE 0),
                  plus  |-> base(p).plus \/ (grown(p) /\ LevelBelow(p, filter) = Plus),
                  hash  |-> base(p).hash \/ (grown(p) /\ LevelBelow(p, filter) = Hash),
                  subs  |-> base(p).subs]]

(* increase_subscriptions(path) *)
CountedPath(tree, filter) ==
    [p \in DOMAIN tree |->
        IF p \in PathOf(filter) THEN [tree[p] EXCEPT !.count = @ + 1] ELSE tree[p]]

WithSub(tree, filter, key, sub) ==
    [tree EXCEPT ![filter].subs =
        [k \in DOMAIN @ \union {key} |-> IF k = key THEN sub ELSE @[k]]]

IsNew(tree, filter, key) == ~Stored(tree, filter) \/ key \notin DOMAIN tree[filter].subs

(* A mutant: a second subscriber of a filter is not counted. *)
InsertedUncounted(tree, filter, key, sub) ==
    IF Stored(tree, filter) THEN WithSub(tree, filter, key, sub)
    ELSE WithSub(CreatedPath(tree, filter), filter, key, sub)

(* insert_or_assign(topic_filter, key, value) *)
Inserted(tree, filter, key, sub) ==
    WithSub(IF ~Stored(tree, filter) THEN CreatedPath(tree, filter)
            ELSE IF IsNew(tree, filter, key) THEN CountedPath(tree, filter)
            ELSE tree,
            filter, key, sub)

-----------------------------------------------------------------------------
(* Removal *)

(* remove_topic_filter(path), from the leaf upwards: nodes counted down to *)
(* 0 are erased and their parent forgets the wildcard child.               *)
RemovedPath(tree, filter) ==
    LET gone == {p \in PathOf(filter) : tree[p].count = 1}
        lost(p, level) == /\ p # filter
                          /\ LevelBelow(p, filter) = level
                          /\ Append(p, level) \in gone
    IN  [p \in DOMAIN tree \ gone |->
            IF p \notin Prefixes(filter) THEN tree[p]
            ELSE [count |-> tree[p].count - (IF p = Root THEN 0 ELSE 1),
                  plus  |-> tree[p].plus /\ ~lost(p, Plus),
                  hash  |-> tree[p].hash /\ ~lost(p, Hash),
                  subs  |-> tree[p].subs]]

(* erase(handle, key) and erase(topic_filter, key) *)
Erased(tree, filter, key) ==
    IF IsNew(tree, filter, key) THEN tree
    ELSE RemovedPath([tree EXCEPT ![filter].subs = [k \in DOMAIN @ \ {key} |-> @[k]]],
                     filter)

-----------------------------------------------------------------------------
(* Search *)

(* A mutant: system topics match a leading wildcard too. *)
WildcardMayMatchAlways(parent, level) == TRUE

(* A leading wildcard does not match a level that begins with $. *)
WildcardMayMatch(parent, level) == parent # Root \/ level \notin SystemLevels

(* The nodes one level below parent that match level. *)
Children(tree, parent, level) ==
    {p \in {Append(parent, level)} : p \in DOMAIN tree}
    \union {p \in {Append(parent, Plus)} :
                tree[parent].plus /\ p \in DOMAIN tree /\ WildcardMayMatch(parent, level)}

(* entries, after i levels of the topic *)
Entries(tree, topic) ==
    LET E[i \in 0..Len(topic)] ==
            IF i = 0 THEN {Root}
            ELSE UNION {Children(tree, p, topic[i]) : p \in E[i - 1]}
    IN  E

(* find_match(): the filters whose subscribers the callback sees. *)
Found(tree, topic) ==
    LET E == Entries(tree, topic)
        hashes(i) == {Append(p, Hash) : p \in {q \in E[i] :
                        tree[q].hash /\ WildcardMayMatch(q, topic[i + 1])}}
    IN  E[Len(topic)] \union UNION {hashes(i) : i \in 0..(Len(topic) - 1)}

-----------------------------------------------------------------------------
(***************************************************************************)
(* What a filter matches, as the comment at the head of the file and the   *)
(* assertions on compare_topic_filter() in topic_filter.hpp have it: in    *)
(* particular a/# does not match a.                                        *)
(***************************************************************************)
Matches(filter, topic) ==
    LET n == Len(filter)
        same(i) == filter[i] = topic[i] \/ filter[i] = Plus
    IN  /\ filter[1] \in {Plus, Hash} => topic[1] \notin SystemLevels
        /\ IF filter[n] = Hash
           THEN Len(topic) >= n /\ \A i \in 1..(n - 1) : same(i)
           ELSE Len(topic) = n /\ \A i \in 1..n : same(i)
=============================================================================
