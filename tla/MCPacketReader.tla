--------------------------- MODULE MCPacketReader ---------------------------
(* Packets of every class, with every property once, lengths of 0, and bodies
   and property blocks on both sides of 127 bytes. *)
EXTENDS PacketReader

P(id, value) == [id |-> id, value |-> value]

Numbers == <<P(1, 1), P(2, 70000), P(33, 300), P(35, 5), P(36, 1), P(39, 66000)>>
Texts   == <<P(3, 0), P(8, 2), P(9, 1), P(11, 200), P(38, <<1, 0>>), P(38, <<0, 2>>)>>
Session == <<P(17, 3), P(18, 1), P(19, 9), P(21, 2), P(22, 0), P(23, 1), P(24, 7)>>
Server  == <<P(25, 0), P(26, 1), P(28, 1), P(31, 2), P(34, 10), P(37, 1),
             P(40, 1), P(41, 0), P(42, 1)>>
Long    == <<P(31, 125)>>

Connect == [type |-> "connect", clean |-> TRUE, keep_alive |-> 300, client_id |-> 2]
Will    == [will_qos |-> 2, will_retain |-> TRUE, will_topic |-> 1, will_message |-> 0]
User    == [user_name |-> 1]
Secret  == [password |-> 0]

Connects311 == {Connect, Connect @@ User @@ Secret, [Connect EXCEPT !.client_id = 0] @@ Will,
                [Connect EXCEPT !.clean = FALSE] @@ Will @@ User @@ Secret}

Connects5 ==
    {Connect @@ [props |-> <<>>],
     Connect @@ [props |-> Session] @@ User @@ Secret,
     Connect @@ [props |-> Long] @@ Will @@ [will_props |-> Texts],
     Connect @@ [props |-> <<>>] @@ Will @@ [will_props |-> <<>>] @@ User @@ Secret}

Connack == [type |-> "connack", present |-> TRUE, reason |-> 0]

Connacks311 == {Connack, [Connack EXCEPT !.present = FALSE, !.reason = 5]}

Connacks5 == {Connack @@ [props |-> <<>>], Connack @@ [props |-> Server],
              [Connack EXCEPT !.present = FALSE, !.reason = 135] @@ [props |-> Long]}

Publish(qos, topic, payload) ==
    [type |-> "publish", dup |-> qos = 2, qos |-> qos, retain |-> qos = 1,
     topic |-> topic, payload |-> payload]
        @@ IF qos > 0 THEN [pid |-> 258] ELSE <<>>

Publishes311 == {Publish(0, 1, 0), Publish(1, 2, 3), Publish(2, 3, 120), Publish(2, 3, 121)}

Publishes5 == {Publish(0, 1, 0) @@ [props |-> <<>>], Publish(0, 1, 1) @@ [props |-> Long],
               Publish(1, 2, 3) @@ [props |-> Texts], Publish(2, 3, 121) @@ [props |-> <<>>],
               Publish(2, 1, 0) @@ [props |-> Numbers]}

Answer(type) == [type |-> type, pid |-> 7]

Answers5(type) ==
    {Answer(type) @@ [reason |-> r, props |-> props] : r \in {0, 146}, props \in {<<>>, Texts}}

Answers5Long(type) == {Answer(type) @@ [reason |-> 146, props |-> Long]}

Ping == {[type |-> "pingreq"]}
Pong == {[type |-> "pingresp"]}

ToServer311 ==
    Publishes311 \union {Answer(t) : t \in Answers} \union Ping
        \union {[type |-> "subscribe", pid |-> 7, filter |-> <<1, 0>>, options |-> <<1, 2>>],
                [type |-> "unsubscribe", pid |-> 7, filter |-> <<2, 1>>],
                [type |-> "disconnect"]}

ToClient311 ==
    Publishes311 \union {Answer(t) : t \in Answers} \union Pong
        \union {[type |-> "suback", pid |-> 7, codes |-> <<0, 128>>], Answer("unsuback")}

Both5 ==
    Publishes5 \union UNION {Answers5(t) \union Answers5Long(t) : t \in Answers}
        \union {[type |-> t, reason |-> r, props |-> props] :
                    t \in {"disconnect", "auth"}, r \in {0, 24}, props \in {<<>>, Server}}
        \union {[type |-> "disconnect", reason |-> 130, props |-> Long]}

ToServer5 ==
    Both5 \union Ping
        \union {[type |-> "subscribe", pid |-> 7, filter |-> <<1, 0>>, options |-> <<1, 46>>,
                 props |-> props] : props \in {<<>>, Texts, Long}}
        \union {[type |-> "unsubscribe", pid |-> 7, filter |-> <<2, 1>>, props |-> props] :
                    props \in {<<>>, Texts}}

ToClient5 ==
    Both5 \union Pong
        \union {[type |-> t, pid |-> 7, codes |-> <<0, 143>>, props |-> props] :
                    t \in {"suback", "unsuback"}, props \in {<<>>, Texts, Long}}

MCOpenings == [v \in {4, 5} |->
    [server |-> IF v = 5 THEN Connects5 ELSE Connects311,
     client |-> IF v = 5 THEN Connacks5 ELSE Connacks311]]

MCFollowers == [v \in {4, 5} |->
    [server |-> IF v = 5 THEN ToServer5 ELSE ToServer311,
     client |-> IF v = 5 THEN ToClient5 ELSE ToClient311]]

MCAliases == {P(35, 3)}

(* A publish whose properties are 126 bytes before the alias and 129 after *)
MCGrowing == [v \in {4, 5} |->
    [e \in {"server", "client"} |->
        IF v = 5 THEN {Publish(0, 1, 1) @@ [props |-> <<P(3, 123)>>]} ELSE Publishes311]]
=============================================================================
