-------------------------- MODULE RetainedTopicMap --------------------------
(***************************************************************************)
(* retained_topic_map (broker/retained_topic_map.hpp): the retained        *)
(* messages as a tree of topic levels. A node, named by its path, counts   *)
(* the messages at and below it and may hold one. The children of a node   *)
(* come in the order they were inserted (wildcard_index_tag), so a tree    *)
(* is its nodes and the order of their insertion.                          *)
(***************************************************************************)
EXTENDS EntrySequences

CONSTANT SystemLevels       \* the levels that begin with $

Plus == "+"
Hash == "#"
Root == <<>>

Empty == {}                 \* no value: optional<Value> is a set of at most one

Node(value) == [count |-> 1, value |-> value]

NoTopics == [nodes |-> [p \in {Root} |-> Node(Empty)], order |-> <<>>]

PathOf(topic) == Prefixes(topic) \ {Root}

(* find_topic() *)
HasTopic(map, topic) == PathOf(topic) \subseteq DOMAIN map.nodes

Holding(map) == {p \in DOMAIN map.nodes : map.nodes[p].value # Empty}

(* create_topic(): nodes that exist are counted once more, the others are  *)
(* inserted with count 1, from the root downwards.                         *)
CreatedTopic(map, topic) ==
    [nodes |-> [p \in DOMAIN map.nodes \union PathOf(topic) |->
                    IF p \notin DOMAIN map.nodes THEN Node(Empty)
                    ELSE IF p \in PathOf(topic) THEN [map.nodes[p] EXCEPT !.count = @ + 1]
                    ELSE map.nodes[p]],
     order |-> map.order \o
               LET paths == [i \in 1..Len(topic) |-> SubSeq(topic, 1, i)]
               IN  Selected(paths, {i \in DOMAIN paths : paths[i] \notin DOMAIN map.nodes})]

(* increase_topics(path) *)
CountedTopic(map, topic) ==
    [nodes |-> [p \in DOMAIN map.nodes |->
                    IF p \in PathOf(topic) THEN [map.nodes[p] EXCEPT !.count = @ + 1]
                    ELSE map.nodes[p]],
     order |-> map.order]

(* A mutant: a message stored on a node that was there already is not counted. *)
RetainedUncounted(map, topic, value) ==
    [(IF HasTopic(map, topic) THEN map ELSE CreatedTopic(map, topic))
        EXCEPT !.nodes[topic].value = {value}]

(* insert_or_assign(topic, value) *)
Retained(map, topic, value) ==
    [(IF ~HasTopic(map, topic) THEN CreatedTopic(map, topic)
      ELSE IF map.nodes[topic].value = Empty THEN CountedTopic(map, topic)
      ELSE map)
        EXCEPT !.nodes[topic].value = {value}]

(* erase(topic): counts down along the path and erases what reaches 0. *)
Dropped(map, topic) ==
    IF topic \notin Holding(map) THEN map
    ELSE LET gone == {p \in PathOf(topic) : map.nodes[p].count = 1}
             less == [p \in DOMAIN map.nodes \ gone |->
                        [count |-> map.nodes[p].count - (IF p \in PathOf(topic) THEN 1 ELSE 0),
                         value |-> IF p = topic THEN Empty ELSE map.nodes[p].value]]
         IN  [nodes |-> less,
              order |-> Selected(map.order, {i \in DOMAIN map.order : map.order[i] \notin gone})]

-----------------------------------------------------------------------------
(* Search *)

(* wildcard_index: the children of a node, in order of insertion. *)
IsChild(p, parent) == Len(p) = Len(parent) + 1 /\ IsPrefix(parent, p)

ChildrenOf(map, parent) ==
    Selected(map.order, {i \in DOMAIN map.order : IsChild(map.order[i], parent)})

IsSystem(p) == Len(p) = 1 /\ p[1] \in SystemLevels

(* The nodes + leads to: below the root the loop is left at the first      *)
(* system topic, whatever was inserted after it.                           *)
PlusChildren(map, parent) ==
    LET all == ChildrenOf(map, parent)
        system == {i \in DOMAIN all : IsSystem(all[i])}
    IN  Selected(all, {i \in DOMAIN all : \A j \in system : i < j})

(* The one with a name is looked up. *)
NamedChild(map, parent, level) ==
    IF Append(parent, level) \in DOMAIN map.nodes THEN <<Append(parent, level)>> ELSE <<>>

(* match_hash_entries(): everything below parent, system topics left out   *)
(* where parent is the root.                                               *)
Below(map, parent) ==
    {p \in Holding(map) : /\ IsStrictPrefix(parent, p)
                          /\ parent = Root => ~IsSystem(<<p[1]>>)}

(* What one level of a filter leads to from the first k of the entries. *)
Followed(map, entries, level) ==
    LET F[k \in 0..Len(entries)] ==
            IF k = 0 THEN <<>>
            ELSE F[k - 1] \o (IF level = Plus THEN PlusChildren(map, entries[k])
                              ELSE NamedChild(map, entries[k], level))
    IN  F

(* entries, after i levels of the filter other than # *)
Reached(map, filter) ==
    LET R[i \in 0..Len(filter)] ==
            IF i = 0 THEN <<Root>>
            ELSE Followed(map, R[i - 1], filter[i])[Len(R[i - 1])]
    IN  R

(***************************************************************************)
(* find_match(): the topics whose messages the callback sees. At # the     *)
(* search ends with the first of the nodes reached so far; then the        *)
(* messages the nodes reached hold themselves are reported as well.        *)
(***************************************************************************)
RetainedFound(map, filter) ==
    LET n == Len(filter)
        ends == IF filter[n] = Hash THEN n - 1 ELSE n
        reached == Reached(map, filter)[ends]
    IN  (IF filter[n] = Hash /\ reached # <<>> THEN Below(map, Head(reached)) ELSE {})
        \union (ToSet(reached) \intersect Holding(map))
=============================================================================
