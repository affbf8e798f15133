--------------------------- MODULE MCBrokerTopics ---------------------------
(* Instances of BrokerTopics for TLC. *)
EXTENDS BrokerTopics

MCFilters == {<<"+">>, <<"a", "#">>, <<"a", "b">>}
MCTopics == {<<"a">>, <<"a", "b">>, <<"$s">>}

Send == [nl |-> FALSE, rh |-> "send"]
New == [nl |-> TRUE, rh |-> "new"]

MCSubOpts == {Send, New}

Entry(share, filter, opts) == [share |-> share, filter |-> filter, opts |-> opts]

(* One entry, or a shared and an ordinary one together. No Local is not    *)
(* allowed with a share name.                                              *)
MCEntryLists ==
    {<<Entry("", <<"+">>, New)>>}
    \union {<<Entry("g", f, Send)>> : f \in {<<"a", "#">>, <<"a", "b">>}}
    \union {<<Entry("", <<"a", "b">>, Send), Entry("g", <<"a", "#">>, Send)>>}

MCAccounts == [n \in {"u1", "u2"} |-> [method |-> "plain_password", secret |-> "p"]]

MCGroups == <<[name |-> "@any", members |-> {}], [name |-> "@g1", members |-> {"u1", "u2"}]>>

MCUsername == [c \in Clients |-> IF c = "c1" THEN "u1" ELSE "u2"]

Allow(topic, pub, sub) ==
    [topic |-> topic, allow |-> [pub |-> pub, sub |-> sub], deny |-> [pub |-> {}, sub |-> {}]]

Deny(topic, pub, sub) ==
    [topic |-> topic, deny |-> [pub |-> pub, sub |-> sub], allow |-> [pub |-> {}, sub |-> {}]]

(* In the manner of example/auth.json, from the general to the special. *)
MCRules ==
    <<Allow(<<"#">>, {"@g1"}, {"@g1"}), Allow(<<"$s">>, {"u1"}, {"@any"}),
      Deny(<<"a", "#">>, {"@any"}, {"u2"}), Allow(<<"a", "b">>, {"u1"}, {"@any", "u2"}),
      Deny(<<"a">>, {}, {"u1"})>>
=============================================================================
