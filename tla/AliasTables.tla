----------------------------- MODULE AliasTables -----------------------------
(***************************************************************************)
(* topic_alias_send.hpp and topic_alias_recv.hpp. The sender's entries are *)
(* a sequence, the one used longest ago first: that is its index on time.  *)
(* Its index on topics is unique, so a second alias for a topic is never   *)
(* entered, and an entry that is changed to another entry's topic is lost  *)
(* (the assertion in the rollback is compiled out). The receiver's map has *)
(* no such index.                                                          *)
(***************************************************************************)
EXTENDS Naturals, SequencesExt, Functions

None == "none"      \* no topic, and no table

Entry(alias, topic) == [alias |-> alias, topic |-> topic]

(* topic_alias_send(max): va_ has the aliases in use, entered or not. *)
SendTable(max) == [max |-> max, used |-> {}, entries |-> <<>>]

HasAlias(table, alias) == \E e \in Range(table.entries) : e.alias = alias

HasTopic(table, topic) == \E e \in Range(table.entries) : e.topic = topic

PlaceOf(table, alias) == CHOOSE i \in DOMAIN table.entries : table.entries[i].alias = alias

Others(table, alias) ==
    IF HasAlias(table, alias) THEN RemoveAt(table.entries, PlaceOf(table, alias))
    ELSE table.entries

(* Mutant: the time of an entry that is there already stays. *)
EnteredUntouched(table, topic, alias) ==
    LET others == Others(table, alias)
    IN  [table EXCEPT
            !.used    = @ \union {alias},
            !.entries = IF HasTopic([table EXCEPT !.entries = others], topic) THEN others
                        ELSE IF HasAlias(table, alias)
                        THEN [i \in DOMAIN @ |-> IF @[i].alias = alias
                                                 THEN Entry(alias, topic) ELSE @[i]]
                        ELSE Append(@, Entry(alias, topic))]

(* insert_or_update *)
Entered(table, topic, alias) ==
    LET others == Others(table, alias)
    IN  [table EXCEPT
            !.used    = @ \union {alias},
            !.entries = IF HasTopic([table EXCEPT !.entries = others], topic) THEN others
                        ELSE Append(others, Entry(alias, topic))]

(* find(alias), which updates the time, and find(topic), which does not *)
TopicFor(table, alias) ==
    IF HasAlias(table, alias) THEN table.entries[PlaceOf(table, alias)].topic ELSE None

Touched(table, alias) ==
    IF HasAlias(table, alias)
    THEN [table EXCEPT !.entries = Append(Others(table, alias), @[PlaceOf(table, alias)])]
    ELSE table

AliasFor(table, topic) == (CHOOSE e \in Range(table.entries) : e.topic = topic).alias

(* get_lru_alias *)
LruAlias(table) ==
    LET vacant == (1..table.max) \ table.used
    IN  IF vacant # {} THEN CHOOSE a \in vacant : \A b \in vacant : a <= b
        ELSE Head(table.entries).alias

-----------------------------------------------------------------------------
RecvTable(max) == [max |-> max, topics |-> <<>>]

(* Mutant: an alias that is known already keeps its topic. *)
ReceivedOnce(table, topic, alias) ==
    IF alias \in DOMAIN table.topics THEN table
    ELSE [table EXCEPT !.topics = [a \in DOMAIN @ \union {alias} |->
                                       IF a = alias THEN topic ELSE @[a]]]

Received(table, topic, alias) ==
    [table EXCEPT !.topics = [a \in DOMAIN @ \union {alias} |->
                                  IF a = alias THEN topic ELSE @[a]]]

Found(table, alias) ==
    IF alias \in DOMAIN table.topics THEN table.topics[alias] ELSE None
=============================================================================
