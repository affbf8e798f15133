# Verification of mqtt_cpp

TLA+ models of mqtt_cpp (a C++14 MQTT v3.1.1/v5 client and server library with
a broker, header only, under `include/mqtt`), TLC configurations that check
them on small instances, and TLAPS proofs of the properties that matter most.
Line numbers refer to this commit; `EP` is `include/mqtt/endpoint.hpp`, `BR`
`broker/broker.hpp`, `SS` `broker/session_state.hpp`, `RT`
`broker/retained_topic_map.hpp`, `CL` `client.hpp`, `SV` `server.hpp`, `V5`
`v5_message.hpp`, `VA` `value_allocator.hpp`.

Contents

1. Inventory: the components of the system
2. Modules and how they correspond to the code
3. Runs: what is checked, bounds, fairness
4. What the models found
5. Proofs
6. What is only model-checked, and what is not modelled
7. Plan

## 1. Inventory

### The endpoint (`endpoint.hpp`, 11800 lines)

One class serves both sides. An endpoint owns a socket, and keeps:

| State | Meaning | Module |
|---|---|---|
| `pid_man_` | packet ids in use, a `packet_id_manager` over `value_allocator` | `ValueAllocator`, `PublishSender` |
| `store_` | unacknowledged QoS 1/2 publishes and pubrels, in sending order, unique by packet id | `PublishSender` |
| `sub_unsub_inflight_` | packet ids of unanswered SUBSCRIBE/UNSUBSCRIBE | `PublishSender` |
| `publish_send_count_`, `publish_send_max_`, `publish_send_queue_` | the v5 send window: a counter, the peer's Receive Maximum, and the publishes that wait | `PublishSender` |
| `resend_pubrel_` | pubrels written again on reconnection; they hold no slot of the window | `PublishSender` |
| `publish_received_`, `publish_recv_max_` | the v5 receive quota | `PublishReceiver` |
| `qos2_publish_handled_` | packet ids of QoS 2 publishes handled and not yet released | `PublishReceiver` |
| `topic_alias_send_`, `topic_alias_recv_` | topic aliases of both directions | `AliasTables`, `TopicAliases` |
| `remaining_length_`, the `process_...` coroutines | the packet being read | `PacketReader` |
| `connected_`, `mqtt_connected_`, shutdown flags, `queue_`, timers | the connection's lifetime | `ConnectionLifetime` |

Operations are the API calls, the packet handlers (`process_connack`,
`process_publish`, `process_puback`, ...) and the completions of reads, writes
and timers. Handlers run on the connection's strand; API calls may come from
any thread, and each structure has a mutex of its own. What is hard:

* a packet id passes through three structures under two mutexes;
* publishes go through the store, the window and its queue, and all three are
  rebuilt on reconnection, or from what the application serialized;
* QoS 2 needs each side to forget a packet id neither too early nor too late;
* the quota is given back by a write's completion, which races with the peer;
* the sender's alias table changes when a publish is made, the receiver's when
  it is read, and a stored publish is made once and sent several times;
* a packet is read in one piece, in blocks or field by field, and the lengths in
  it are computed apart from its bytes;
* any of the peer, the application and four timers may end a connection while
  another is already ending it.

### The other components

| Component | State | Operations | What makes it correct |
|---|---|---|---|
| `value_allocator`, `packet_id_manager` | intervals of vacant values | allocate, use, deallocate, clear | well-formed pool, agrees with what callers hold, behaves as a set of identifiers |
| `store` | multi-index container of messages | insert, erase, for_each, expiry timers | unique by packet id, walked in sending order |
| topic alias tables | alias to topic, order of use | insert, find, lowest unused or oldest alias | the receiver resolves each alias to the topic the sender meant |
| `client` | an endpoint, ping and PINGRESP timers, timer of a disconnection | connect, disconnect, force, PINGREQ | a dead peer is noticed; the end is told once; no handler is forgotten |
| `server` (four classes) | acceptor, close request, a timer per connection | listen, close, accept, handshakes | one chain of accepts that goes on; each connection handed over or given up |
| broker, sessions | sessions by client id, attached connection, expiry and will timers | connect, take-over, resume, expire, close, will | one connection per session; a session is cleaned, resumed or dropped as the CONNECT says; a will is sent once or not |
| broker, delivery | inflight and offline messages, their timers | deliver, send inflight/offline messages, acknowledge | order per client, nothing lost for a live session |
| broker, subscriptions | a tree with reference counts, handles per session | insert, erase, find | matches exactly the filters MQTT says; counts return to zero |
| broker, retained messages | a tree of messages, timers | insert, erase, find | a filter finds exactly the retained topics it matches |
| broker, shared subscriptions | targets in order of use | insert, erase, get_target | a message goes to one member |
| broker, security | accounts, groups, rules, two maps of rules | login, authorize, add and remove rules | the last rule decides, in every place that asks |
| codecs | none | build, write, parse, restore | what is read is what was built |

Endpoints of client and broker exchange packets over a byte stream that may
close at any time. The broker's handlers (`broker.hpp`) are callbacks of its
endpoints; they find the session of the connection, call `do_publish` or
`deliver` on it, and write the answers. `session_state` keeps
`qos2_publish_handled_` and the inflight and offline messages between
connections, and on destruction removes its subscriptions and rules. The server
makes the endpoints; the application, in the broker's case the broker itself,
gets each by `h_accept_`.

Which of these are modelled how far is listed in `PROJECT.json` (`components`),
and the behaviours that are hard to test, each with its line and the properties
about it, under `hazards`.

## 2. Modules

| Subject | Modules | Abstract specification |
|---|---|---|
| packet ids | `ValueAllocator`, `TopicAliasesProofs` | `IdPool` |
| stored messages | `EntrySequences`, `EntrySequencesProofs` | |
| publishing | `MqttPackets`, `PublishSender`, `PublishReceiver`, `PublishFlow`, `SerializedFlow`, `PublishFlowProofs` | `ReliableDelivery` |
| topic aliases | `AliasTables`, `TopicAliases`, `TopicAliasesProofs` | |
| bytes and reading | `PacketBytes`, `Packets5`, `Packets311`, `PacketReader` | `PacketChannel` |
| connection | `ConnectionLifetime`, `ConnectionLifetimeProofs` | |
| server | `ServerAccept`, `ServerAcceptProofs` | |
| broker, sessions | `Authorization`, `BrokerSessions`, `BrokerSessionsProofs` | |
| broker, topics | `SubscriptionMap`, `RetainedTopicMap`, `Authorization`, `BrokerTopics`, `BrokerTopicsProofs` | |
| broker, delivery | `MqttPackets`, `BrokerDelivery`, `BrokerDeliveryProofs` | `OrderedDelivery` |

`EntrySequences` has the containers of messages that wait for an answer
(`store.hpp`, and the broker's inflight messages) as both ends of a flow use
them: insertion and erasure by packet id, and the walk in order, with the rank
of an entry among the ones that are picked.

`TopicAliasesProofs` begins with the allocator, whose lemmas the alias tables
need too (`va_` in `topic_alias_send` is a `value_allocator`).

`MC...` modules give the constants their instances. Mutants, each a plausible
bug of the code (a forgotten release, a dropped condition, a wrong order), stand
next to the definitions they replace.

### `ValueAllocator`, `IdPool`: the packet id pool

`ValueAllocator` is `value_allocator.hpp` operation by operation. `pool` is
`pool_`, the set of vacant intervals with the code's ordering (`Before`,
`Equivalent`: two intervals that share a value are the same key to the index)
and the code's insertions that silently do nothing (`Emplaced`). `Succ` is the
increment in the type the compiler computes it in: a two-byte value is promoted
to `int`, a four-byte one wraps at `TypeMax`. `held` is the callers' ledger and
`last` the last call with its result; both are history. Deallocating a vacant
value, `use` of a taken one and `allocate` on an empty pool are included.

`IdPool` is what callers of `packet_id_manager` rely on: a set; `allocate`
returns the lowest vacant identifier. `ImplementsIdPool` says that the interval
pool behaves as that set, call by call and result by result.

### `MqttPackets`, `PublishSender`, `PublishReceiver`, `PublishFlow`, `SerializedFlow`: publishing

The core of the system: a client endpoint that publishes, the broker's endpoint
of that client with the broker's handlers and session behind it, and the
connection between them.

* `MqttPackets`: the packets as records of the fields the handlers look at. A
  publish carries the number of its message, `Qos[m]` is that message's QoS.
* `PublishSender`: the sending half. One action per API call (`Publish`,
  `Subscribe`, `Connect`) and per handler (`ProcessConnack`, `ProcessPuback`,
  `ProcessPubrec`, `ProcessPubcomp`, `ProcessSuback`), with every call they make:
  `async_send_publish` with the window and its queue, `send_publish_queue_one`
  (`SlotReleased`), `async_send_store` (`ResendStore`), `clear_session_data`,
  `async_send_pubrel`, `handle_close_or_error` (`SenderClose`) and
  `call_protocol_error_handlers`. `conn = "halted"` is the state after a
  protocol error: the code stops reading and leaves closing to the application.
* `PublishReceiver`: `process_publish`, `process_pubrel` and the broker's
  `connect_handler`, `publish_handler`, `subscribe_handler`, `close_proc`, and
  the session's `renew`, `become_offline` and expiry. A resumed session is
  attached when CONNACK's write completes (`session = "resuming"` until then);
  packets handled before are neither forwarded nor answered, as in the code.
* `PublishFlow`: composes the two. `c2s` and `s2c` are what one end wrote and
  the other has not read; `ConnectionCloses` empties both.
* `SerializedFlow`: `PublishFlow` whose client process dies and starts again.
  The endpoint hands every message it stores to the application
  (`on_serialize_publish_message`, `on_serialize_pubrel_message`,
  `on_serialize_remove`) and a new endpoint is given them back
  (`restore_serialized_message`). `saved` is the application's storage as
  `test/system/st_resend_serialize.cpp:60-75` keeps it. `ClientRestarts` may come
  at any point: within a handler it is the same as before it, since the
  callbacks come before anything is written.
* `ReliableDelivery`: what publishing promises the application, with no packets,
  stores or connections. `PublishFlow` and `SerializedFlow` implement it with
  `owed <- StoreMessages`.

Each handler is one atomic action, since it runs to its end on the strand.
The abstractions, and why they are sound for the properties checked:

* `s2c` is the broker's asynchronous write queue and the network together, and
  `AnswerWritten` merges the completion of a write with the peer's reading it. A
  packet written and then lost differs from one never written only in
  `publish_received_` and the session's being attached, and the close that loses
  the packet undoes both. On a broker with several threads the completion may
  run *after* the peer's next publish was processed; that race is listed as a
  hazard and not covered here.
* Both ends notice a close in one step. What the broker still reads after the
  client closed commutes with the close; a broker that notices the close only
  after the next CONNECT behaves as a close followed by a resume.
* The send window has its size from the start. In the code it is 65535 until
  CONNACK brings the Receive Maximum, but until then nothing is counted that
  CONNACK does not count again.
* `AnyTime = FALSE` keeps the application from publishing between CONNECT and
  CONNACK and from subscribing without a connection; publishing while closed is
  allowed (section 4, what happens otherwise).
* A session that ends with its connection is a close and an expiry.
* The bounds are in guards: `issued < Len(Qos)`, `connects < MaxConnects`,
  `subscribes < MaxSubscribes`, `restarts < MaxRestarts`; and connections close
  only while another one is left, so the last one is good.

### `AliasTables`, `TopicAliases`: topic aliases

`AliasTables` is `topic_alias_send.hpp` and `topic_alias_recv.hpp`. The sender's
entries are a sequence, the one used longest ago first, which is the code's
index on time; the index on topics is unique, so a second alias for a topic is
not entered. `TopicAliases` composes two endpoints: `Publish` is
`async_publish` with `apply_topic_alias` in each of its modes (`mode`: given by
the application, mapped automatically, replacing automatically), the window and
its queue; `ReceivePublish` is `process_publish` as far as aliases go;
`ReceivePuback` lets out a queued publish as it was queued: a new one with its
topic and without an alias, a resent one with the alias it was given when the
store was sent again; `Connect` is CONNECT and CONNACK with the new tables and the store sent again.
`meant` is the topic the application wanted.

### `PacketBytes`, `Packets5`, `Packets311`, `PacketReader`: bytes and the reader

`PacketBytes` has the numbers, texts, variable byte integers and properties
packets are made of. A text counts by its length only. `Packets5` and
`Packets311` translate, for each message class, its two descriptions of one
packet: the remaining length its constructor adds up and the bytes its
`const_buffer_sequence()` lays out; and `continuous_buffer()` with the
constructors that read it back, which is what is kept in the store and
serialized. `AlwaysSendReasonCode` is the build option
`MQTT_ALWAYS_SEND_REASON_CODE`: the repository's `CMakeLists.txt` has it on, the
headers alone have it off, and what v5 answers, DISCONNECT and AUTH write for the
reason success depends on it (`WritesReason`). `PacketReader` composes them with the reader: `rd.todo` is what the
coroutine of the packet (`process_connect`, ...) has still to read, `rd.rest`
is `remaining_length_`, `rd.buf` the block read in one piece when the packet is
below `packet_bulk_read_limit_`, `rd.left` and `rd.property` are where the
property parser is. Each action is the completion of one read. The connection
may break after any write, losing some of the last bytes. `PacketChannel` is
what this is for: packets are handed over as they were written, with all their
fields and properties, in order and once.

### `ConnectionLifetime`: a client and its connections

`flags` are `connected_`, `mqtt_connected_`, `shutdown_requested_`,
`disconnect_requested_` and `async_shutdown_handler_called_`; `timers` the
client's ping, PINGRESP and disconnection timers and the endpoint's shutdown
timer. Functions that were posted and handlers of timers that expired or were
cancelled are in `tasks` and run in order (`RunTask`), as one thread runs an
`io_context`; completions of reads, writes and of the closing exchange
(`Read`, `WriteDone`, `WriteFails`, `CloseAnswered`, `CloseFails`, `CloseDone`)
and the peer (`PeerActs`: it answers, closes, sends garbage, or falls silent)
interleave with them. `shutters` is `async_shutdown_handler_queue_`, the
handlers that wait for the socket to be closed. `owed` counts the
completion handlers that were given and not called.

### `ServerAccept`: the server

One module for the four servers, told apart by `kind`: what layers come over TCP
and whether the next connection is accepted at once or after the handshakes
(`Serial`). `acceptor` is 0 or a number that tells one acceptor from the next,
which is what a late reset or a late completion gets wrong. `conns` has, per
connection, the layer it is in, its timer, and what the application was told.

### `Authorization`, `BrokerSessions`: sessions

`Authorization` is `security.hpp`: `authentication_`, `groups_`, the list of
rules `authorization_` and the two maps by topic filter, here sets of entries. It
keeps the differences between the three ways in which the code decides:
publishing looks for the highest rule number, delivery walks the map with one
running priority, subscribing walks the list. Groups are walked in the order of
their names, `@any` among them. The entries of one filter are an `unordered_map`
and are met in any order (`OrdersMet`): what delivery finds (`AuthSub`) is the set
of the results of all these orders, and the properties are about each of them.

`BrokerSessions` is the session of one client id over successive connections:
`connect_handler` with its refusals and its three ways (`ConnectNew`,
`ConnectOnline`, `ConnectOffline`), the completion of CONNACK's write which
attaches the session (`ConnackWritten`, `ConnackFails`), DISCONNECT,
`close_proc` for a connection that may have been taken over meanwhile,
`become_offline`, `renew`, the session's destructor, and the timers of session
expiry, will delay and will expiry. What a session holds is one value, `data`:
the connection that started it. `fate` is what became of each connection's will.

### `SubscriptionMap`, `RetainedTopicMap`, `BrokerTopics`: topics

The two trees are operators on values: `SubscriptionMap` is
`multiple_subscription_map` (create nodes, count references, flag `+` and `#`
children, remove, find), `RetainedTopicMap` is `retained_topic_map`. A node is
named by its path; the code numbers nodes and keys each by its parent's number
and its level, which comes to the same while no node outlives its parent, and
`TreeExact` says that. `BrokerTopics` has the handlers of SUBSCRIBE, UNSUBSCRIBE
and PUBLISH, `clean()` and the expiry of retained messages, each run to its end,
over both trees, the sessions' `handles_` and `shared_targets_`, under
configured rules. `out` is what the last step handed to sessions. Loops over the
entries of a SUBSCRIBE, the filters of a session and the groups that matched are
functions of the number of rounds done (`Subscribing`, `Erasing`, `Serving`).
`TopicsAssumption` says what the validated filters and topics are: `#` is a
filter's last level, and no wildcard begins with `$`.

### `BrokerDelivery`, `OrderedDelivery`: delivery

From `session_state::deliver` to the subscriber: `inflight_messages_` and
`offline_messages_`, and the endpoint of the present connection with its store,
packet ids, window, and write queue (`ep`, a new one per connection). `Publish`
delivers now, queues offline, or puts behind what is queued; `Connect`, `Renew`,
`SendInflight` and `SendOffline` are the steps of a resumption. The last two
send one message per step (`resuming` is where the broker is, `walked` how many
inflight messages it has sent), and other events come between them only where
the code allows it. `BrokerReads` has the broker's handlers of the answers,
which look at the offline queue again; `MessageExpires` is the timers. `OrderedDelivery` is
the promise: owed until received, refused or expired, once for QoS 2, in order.

## 3. Runs

| Run | Instance | What it shows |
|---|---|---|
| `allocator` | 7 values | `Separated`, `Ledger`, `ImplementsIdPool`. Seven values hold four separate intervals, so every merge (none, left, right, both) and every split occurs, at both ends of the range too |
| `flow_v5` | QoS 2, 2, 0, 1, 2, the first refused; Receive Maximum 2; three connections, Clean Start either way, the session may expire; one SUBSCRIBE | `TypeOK`, `PidsConsistent`, `NoProtocolError`, `WindowSafe`, `NoQuotaExceeded`; `NothingLost`, `PidsComeBack` when the broker's session may be gone, and with the refusal by an error in pubrec |
| `flow_v311` | QoS 2, 0, 1, 2, the first refused, v3.1.1; three connections, two restarts of the client process | `InOrder`, `ImplementsReliableDelivery`, `EventuallyDelivered`: also when the messages come back from the application's storage |
| `flow_stalls` | three QoS 2 messages, Receive Maximum 1 | violates `EventuallyDelivered` (section 4) |
| `broker_topics` | two clients, filters `+`, `a/#`, `a/b`, topics `a`, `a/b`, `$s`, one share name, two sets of options, five rules | `TreeExact`, `OrdinaryExact`, `RetainedExact`, `LastRuleDecides`, `SharedOnce` |
| `broker_sessions` | three connections, six kinds of CONNECT, a right and a wrong password | `Attached`, `WillKept`, `ResponseTopicServed`, `StateKept`, `EndsInTime` |
| `broker_delivery` | QoS 1, 2, 0, 2, 1, 2; two packet ids, Receive Maximum 1, the last message refused, the fifth expiring, three connections | `InflightIsStored`, `WindowExact`, `ImplementsOrderedDelivery`, `EventuallyReceived` |
| `packets` | two packets of every type, both versions, bulk reading on and off, properties in a block or not | `StoredAsSent`, `ImplementsPacketChannel`, `WholeHandled`, with `AlwaysSendReasonCode` as the repository builds it |
| `packets_properties` | the same, `AlwaysSendReasonCode = FALSE` | violates `PropertiesArrive` (section 4) |
| `aliases` | three topics over two aliases, four publishes, two connections, symmetric in the topics | `RightTopic`, `AliasesKnown`, `EvictsOldest` |
| `server` | all four servers, two peers, three calls of listen(), one failure | `OneChain`, `HandedOver`, `KeepsAccepting` |
| `connection` | three connections, publishes and disconnections of any kind in all, one outstanding ping, writes of one packet at a time, a layered socket | `ToldOnce`, `ForceEnds`, `SilenceIsNoticed`, `PublishEnds` |

### Why the bounds are enough

* Flows: three packet ids for three or four QoS 1/2 messages and a SUBSCRIBE force
  reuse of a packet id after each acknowledgement. A Receive Maximum of 2 with that
  many messages fills the window and queues one. Three connections make it
  possible to break during the publish half of a QoS 2 handshake and again
  during the pubrel half, with the session kept, cleaned or expired in between;
  two restarts put one in each half.
* `broker_topics`: `a/#` and `a/b` share a node, `+` and `a` meet at the first
  level, so counts above 1, both flags and nodes that are kept for another
  filter's sake occur; `$s` is what wildcards at the first level must not match.
  Two clients are enough for a member of a group to leave while the other stays.
* `broker_sessions`: three connections let a connection be taken over, its late
  close event arrive while the second is served, and a third come with the
  session offline or the will waiting. The six kinds have every expiry (zero,
  finite, never) and every will (none, now, delayed, delayed and expiring) with
  and without Clean Start.
* `broker_delivery`: with two packet ids and a window of 1 messages wait in each
  of the three places (the window's queue, the offline queue for want of a packet
  id, offline); the third connection resumes what the second one resumed.
* `packets`: two packets, since the reader keeps nothing of a packet but the
  version and whether CONNECT was seen. Texts and property blocks lie on both
  sides of 127 bytes, where a length takes a second byte, and answers,
  DISCONNECT and AUTH come with and without properties for the reason success as
  for an error. Adding a topic alias does not cross 127 bytes here (section 4,
  item 15). Cuts of 1 and 9 bytes
  end within a payload, a property, a length or a header.
* `aliases`: three topics over two aliases evict; four publishes use an alias
  after an eviction and after a reconnection.
* `server`: two peers make a second accept while the first is in a handshake;
  three calls of listen() are listen, close and listen again with one to spare.
* `connection`: two calls on one connection meet each other (a publish and a
  disconnection, two kinds of disconnection), and a second and a third connection
  start from whatever the ones before left.

### Fairness

| Module | Weakly fair | Nothing is assumed of |
|---|---|---|
| `PublishFlow`, `SerializedFlow` | `BrokerReads`, `ClientReads` (each handler posts the next read), `ClientConnects` (the client connects again, as the library's reconnection examples do) | publishing, closes, expiry, restarts |
| `BrokerSessions` | completions of CONNACK's write, `SessionExpires`, `WillDelayPasses` | CONNECTs, closes, will expiry |
| `BrokerDelivery` | `Connect`, `Renew`, `SendInflight`, `SendOffline`, `Write`, `BrokerReads`, `SubscriberReads` | publishing, breaks, expiry |
| `PacketReader` | `Read` | writing, breaking |
| `ServerAccept` | `Reset`, `AcceptHandler`, the timers and the handlers of layers | peers and the application |
| `ConnectionLifetime` | `RunTask`, `Read`, `WriteFails`, `CloseFails`, `CloseDone`, expiry of timers | the peer, the end of a write to a silent peer (`WriteDone`), its answer to a closing exchange (`CloseAnswered`), the application |

These are what an `io_context` that somebody runs does: a handler that is ready
runs, a timer that is set expires, an operation on a socket that is closed
completes. The systems may stop when the bounds are reached (all messages
settled, no connection left, the last packet read), so all configurations but
those of `allocator` and `broker_topics` turn the deadlock check off.

### Conditions the properties carry

* `ResponseTopicServed` is about sessions that keep the data they were started
  with (section 4, item 9); `Attached`, `WillKept` and `EndsInTime` leave out
  connections that took over an online session with Clean Start (item 8).
* `LastRuleDecides` takes rules that go from the general to the special, like
  `example/auth.json`; `auth_sub()` needs it. No two rules of the run are about one
  filter: which of two such rules decides for delivery would depend on the order
  of an `unordered_map`.
* `RetainedExact` asks for equality for filters without `+`, and for no wrong
  message for those with it (item 10).
* `SilenceIsNoticed` assumes `Patient` (item 12), and no untimed disconnection:
  an `async_disconnect()` without a timeout waits for the peer.
* `PublishEnds` excuses an application that was told of a protocol error and did
  not close the socket.
* A message that may expire keeps nobody waiting in `OrderedDelivery`: once
  expired in the session, the endpoint's copy may still come, behind later ones.

## 4. What the models found

Two disagreements have runs of their own, items 1 and 15 (its first part):

1. `flow_stalls`: a slot of the send window leaks. `process_pubcomp` (EP:8716)
   does not give the slot back for packet ids in `resend_pubrel_`, and nothing
   removes a packet id from that set when its pubcomp arrives, so the next QoS 2
   message with the same packet id never gives its slot back. With a Receive
   Maximum of 1 the message after it is never sent.

The others are seen by giving a constant another value than the runs do; each is
also a note in `PROJECT.json`'s hazards:

2. `CleanStarts = {FALSE, TRUE}`, three connections: Clean Start drops the
   client's session data only when CONNACK arrives (EP:7643). If that CONNACK is
   lost and the client then connects without Clean Start, it resends the old
   store into the new session, and a QoS 2 message is forwarded twice.
3. `AnyTime = TRUE`: a message published between CONNECT and CONNACK is
   forgotten by `clear_session_data()` and its answer is a protocol error
   (`NoProtocolError`). The comment at EP:7623 argues that this works well.
4. `Promotes = FALSE` in the allocator: with four-byte packet ids
   (`PacketIdBytes = 4`) the successor of the largest value wraps to 0; VA:81
   says the range includes its upper bound.
5. `SerializedFlow`: with `ByPacketId = TRUE` (the `std::map` of
   `st_resend_serialize.cpp`) messages come back in the order of packet ids and
   `InOrder` fails: a storage has to keep the order of its insertions. With
   `Sessionless = TRUE` or `MayExpire = TRUE` `ImplementsReliableDelivery` fails:
   `clear_session_data()` (EP:5089) removes messages without
   `on_serialize_remove`, so what was dropped comes back after a restart.
6. `Overtaking = TRUE` in `BrokerSessions`: an event of the same client id
   between a CONNACK and the completion of its write makes the completion use
   the iterator of an erased session (BR:990; `Attached`), and a will be lost.
7. `BrokerDelivery`: with `Interleaved = TRUE` (a publish on another thread
   between `renew()` and `send_inflight_messages()`) a new message takes the
   packet id of an inflight one and `WindowExact` fails; `register_id`'s result
   is ignored (`inflight_message.hpp:77`). With `Pids = 1..1` and a refused
   message `EventuallyReceived` fails: a pubrec with an error frees the packet id
   and returns before `send_offline_messages` (BR:1616), so the offline queue
   waits for the next connection. With a QoS 2 message in `Expirable`
   `ImplementsOrderedDelivery` fails: one that was received, whose pubrec was
   lost and whose expiry timer then erases it from the inflight messages
   (SS:468-471) leaves its packet id in the subscriber's
   `qos2_publish_handled_`, and the next QoS 2 message with that packet id is
   taken for a repeat, acknowledged and never received. The slot that item 1
   is about leaks here too; `Leaked` says when, and `WindowExact` and
   `EventuallyReceived` are stated up to it.
8. A Clean Start over an *online* session cleans it and does not call `renew()`
   (BR:953): the connection is served without a session, and nothing attaches
   it later. BR:883-884 says that the old session is discarded and a new one
   started.
9. A Clean Start that asks for a response topic over an existing session
   (BR:941-952, 1057-1068) adds the rule and then calls `clean()`, which removes
   it: the topic told in CONNACK does not work. `clean_handler_` stays set
   (SS:296), so the removal is repeated later with a number that
   `get_next_rule_nr()` may have given to another session by then, and every
   reconnection that asks again leaves the previous rule in the list.
10. The search for retained messages under a `+` at the first level stops at the
    first entry that begins with `$` (RT:218-225) and returns after the first
    entry for `#`, skipping others. A live `a/#` does not match `a`, a retained
    one does.
11. `MixedShares = TRUE` in `BrokerTopics`: a filter and `$share/g/` with the same
    filter are one key of a client in the map, so one subscription replaces the
    other and `TreeExact` fails.
12. `ConnectionLifetime`: with `Patient = FALSE` a ping interval that runs out
    before CONNACK is never set again (CL:2101-2110), so silence goes unnoticed
    (`SilenceIsNoticed`). With `Mixed = TRUE` (a forced
    disconnection after one with a timeout) the handler of the forced one may
    never be called: the timeout's synchronous shutdown came first, and
    `async_shutdown` queues its handler for a completion that does not come
    (EP:5362-5371; `ForceEnds`). Other things seen on the way: a forced
    disconnection during the handshake leaves `shutdown_requested_` set until the
    next CONNECT (EP:10521), so one during the next handshake closes nothing;
    `tim_pingresp_` is not cancelled at a close, a PINGREQ may
    follow DISCONNECT (CL:2094), `disconnect_requested_` stays set after a
    protocol error (EP:5291), `mqtt_connected_` is left set for the next
    connection (EP:7553), and `async_disconnect` of a client that is not
    connected never calls its handler (CL:1584-1590).
13. `TopicAliases`: with `SendMax = 1` a queued publish goes out under an alias
    that has been given to another topic since (`RightTopic`); with a maximum
    of 0, or one smaller than before, in `Maxima` the sender's old table is kept
    (EP:5202-5207) or an alias beyond the new one is used (`AliasesKnown`); with
    `Oversized = {FALSE, TRUE}` a publish that is refused for its size has
    already changed the sender's table (EP:10632; both properties). EP:920-924
    says that aliases are allocated and reused automatically.
14. `Hasty = TRUE` in `ServerAccept`: a `listen()` before the accept that `close()`
    aborted has finished starts a second chain, or has its acceptor reset by it
    (SV:155, 217-219; `OneChain`). In `server_tls_ws` a TLS handshake that fails is
    told to nobody (SV:1226-1231). The connection timeout may overtake a
    handshake that has just succeeded, and the application gets the error and
    then the endpoint, its socket closed.
15. `packets_properties`: without `MQTT_ALWAYS_SEND_REASON_CODE` the v5 classes of
    puback, pubrec, pubrel, pubcomp, DISCONNECT and AUTH drop the properties of a
    packet whose reason is success (V5:1129 and its like). Comments there call
    that wrong, and `st_connect.cpp:1677-1783` (`disconnect_prop`) expects the
    properties; the repository's build has the option on, and with it
    `ImplementsPacketChannel` holds. With the option off that fails for the
    reason code too: a v5 DISCONNECT or AUTH of length 0 hands a `reason_code_` to
    the handler that nobody has set (EP:9468-9519, 9576-9616; `Uninitialized` is
    that value), and another peer may send such packets in any build. With
    `Followers <- MCGrowing` (a publish with 126 bytes of properties, then an
    alias of 3) it fails because `add_prop` does not count the growth of the
    property length's own field from 127 to 128 (V5:894-910): the publish is a
    byte longer than it says, and that byte is taken for the next packet.
16. `process_suback` releases any packet id it reads, whoever has it (EP:8995); a
    broker of this library never sends a wrong one, which is part of the proof
    of `PidsConsistent`.

## 5. Proofs

TLAPS (SMT, Zenon, LS4) checks the following for every value of the constants.

Each module's inductive invariant is named below with what makes it necessary.
The constants are any values their named ASSUMEs allow (TLC evaluates these on
every run); a theorem with a further hypothesis says so, and section 4 shows
what happens without it.

`TopicAliasesProofs`, on the packet id pool, assuming `NoWrap` (the arithmetic is
promoted, or the largest value of the type is not managed: two-byte packet ids
satisfy it):

* `PoolSafety`: `AllocatorSpec => [](TypeOK /\ Separated /\ Ledger)`. The
  conjunction is inductive and no part of it alone is: deallocation finds the
  neighbours of a value by the order of the intervals' ends, which says nothing
  unless they are apart, and that the merged interval touches no third one again
  needs them apart; that nothing was lost needs all the intervals in range.
  `IntervalsStayApart` is its part `[]Separated`.
* `AllocatorImplementsIdPool`: `AllocatorSpec => ImplementsIdPool`, each step of
  the interval pool being a step of the set; that `allocate` returns the lowest
  vacant value follows from `Ledger` and the order of the intervals.

`TopicAliasesProofs`, on topic aliases, for any topics, maxima and numbers of
publishes and connections:

* `OldestIsEvicted`: `Spec => EvictsOldest`, without a hypothesis. The action
  property needs `AliasesInOrder`: the entries are in the order in which their
  aliases were last used (`ByUse`, against the history `uses`), through a resend
  of the whole store and through publishes that are refused after they took
  their alias.
* `TopicIsRight`: `Spec /\ [](queue = <<>>) => [](RightTopic /\ AliasesKnown)`
  when every connection has the same maximum and no publish is refused for its
  size; `TopicIsRightWithRoom`: `Spec => [](RightTopic /\ AliasesKnown)` when
  moreover the Receive Maximum allows every message to be under way, since then
  nothing waits. The invariant is `TopicsAgree`: the receiver's table, once all
  that is on the wire has been read, is the sender's (`Coherent`), each packet
  on the wire resolves to the topic it was meant for under the table as it will
  be when the packet is read, and what the store holds carries its own topic.
  That is why each hypothesis is needed: a queued publish is resolved later than
  it was made, a smaller maximum or a refused publish makes the tables differ.

`EntrySequencesProofs` has the lemmas the flows and the delivery share: what
appending, taking the head, erasing by packet id, joining and picking do to a
sequence of entries (which packet ids it has, that they stay distinct, that it
stays in order), the induction principle for sets of numbers the other modules
use (`LeastNumber`, `Induction`, `Recursion`), that ranks of positions count them (`RanksAreAll`,
`FewLowRanks`, `LowRanks`: a resend lets out no more than the window), and what
moving a packet between two channels does to the packet ids under way.

`PublishFlowProofs` assumes `~AnyTime`, and is for every list of messages, set of packet ids, Receive Maximum, number of
connections and SUBSCRIBEs, both versions of MQTT, any refused topics, with or
without expiry and Clean Start:

* `FlowTypes`: `Spec => []TypeOK`. Beyond the types of variables it says that
  every packet under way is one its reader expects (a puback or suback carries a
  packet id of the pool), every stored message waits for the answer its QoS calls
  for, every queued publish has a QoS above 0, and the counter is a uint16_t.
* `PacketIdsConsistent`: `Spec => []PidsConsistent`. It is not inductive:
  `process_suback` releases the packet id it reads whoever has it (EP:8995), so it
  needs to be known that a SUBACK under way carries the packet id of a SUBSCRIBE
  that still waits, and no other packet does. `IInv` adds that
  (`SubacksAwaited`) and that nothing is subscribed without a connection
  (`SubscribesConnected`; this is where `~AnyTime` is needed, and where
  `process_connack` relies on it: it clears `pid_man_` and not
  `sub_unsub_inflight_`).
* `ExchangesEndWell`, `WindowIsKept`, `QuotaNeverExceeded`: `Spec =>
  []NoProtocolError`, `[]WindowSafe`, `[]NoQuotaExceeded`, from `XInv`. An answer
  is no protocol error if an entry of the store waits for it; that nothing has
  erased the entry meanwhile needs at most one packet under way for each packet
  id, in both directions together (`Traffic`); that the resend does not put a
  second one next to it needs both channels empty at CONNACK (`Phases`). The
  receiver's quota follows from the sender's window because a packet id the
  receiver counts is that of an answer under way, whose entry holds a slot.
* `NoMessageLost`: `Spec => []NothingLost`, from `DInv = XInv /\ Known`: an answer
  under way, or an entry that waits for pubcomp, is that of a message that was
  forwarded or refused; and a packet id in `qos2_publish_handled_` belongs to an
  entry the client still stores, so no new message is taken for a repeat.
* `DeliveredInOrder`: `Spec => []InOrder`, from `OInv = DInv /\ Order`: the store's
  publishes, those queued and those under way are each in the order of
  publication, every one of the store that is on a connection is queued, under
  way or reached, and nothing that was forwarded is later than one that was not.
* `PromiseKept`: `Spec => ImplementsReliableDelivery` when the session is never
  dropped (`CleanStarts = {FALSE}`, `~MayExpire`), from `RInv = OInv /\ Once`: one
  entry per message and one publish under way per QoS 0 message. Each step is
  shown to be a Publish, Forward, Settle or stutter of `ReliableDelivery`.

`BrokerTopicsProofs`, for any clients, filters, topics, share names, options and
rules. The first three assume `~MixedShares` (section 4, item 11):

* `TreeStaysExact`: `Spec => []TreeExact`, from `TopicsInv`, which gives the whole
  tree as a function of the subscriptions granted: its nodes are the prefixes of
  their filters, a node's count is the number of pairs of a client and a filter
  that pass through it, its `+` and `#` flags say whether it has such a child, its
  subscribers are those whose filter ends there; and `handles_` and
  `shared_targets_` are what was granted too. The counts are why it is inductive:
  a node goes when its count is 1, and is then on the way to nothing else.
* `PublishGoesToSubscribers`: `Spec => []OrdinaryExact`. The walk of `find_match()`
  keeps a set of entries level by level; after i levels these are the nodes that
  match the first i levels of the topic (`Children` needs the flags to be exact,
  since it looks for no wildcard child where the flag is off), and what it reports
  is what `topic_filter.hpp`'s rule says, `$` at the first level included.
* `SharedServesOnce`: `Spec => SharedOnce`, by induction over the groups in the
  order the tree reports them, each of which has a member.
* `RetainedStaysExact`: `Spec => []RetainedExact`, without a hypothesis, from
  `RetainedInv` (nodes and counts as a function of the topics that hold a message;
  the order of insertion names each node once). The search is related to the
  rule in one direction for all filters and in both for those without `+`; with
  `+` the other direction is false (section 4, item 10).

`ServerAcceptProofs`, for any set of peers, number of calls and failures,
assuming `~Hasty`: `AcceptsOneAtATime` and `HandsOverOnce` (`OneChain`,
`HandedOver`). `AInv` says that there is one accept at most, in a serial server
one accept or one connection in its handshake, that `acceptor_` is empty only
when nothing will use it, and for each connection how its stage, its timer,
`underlying_finished` and what was told go together (`Well`).

`BrokerSessionsProofs`, for any number of connections, any CONNECTs,
credentials and rules, assuming `~Overtaking`: `SessionIsAttached`,
`NoWillIsLost`, and the action property `StateOutlivesConnections` (`Attached`,
`WillKept`, `StateKept`). `SInv` relates the session to the connections: the one
it has is open, one CONNACK at most waits for its completion handler and then
the session is offline (`Waiting`; what `~Overtaking` is needed for), an open
connection has the session, will have it or took over an online one with Clean
Start, and a will that is held belongs to the connection the session has or its
delay runs (`Wills`).

`BrokerDeliveryProofs`, for every list of messages, set of packet ids and
Receive Maximum, wherever connections break and whatever expires, assuming
`~Interleaved`: `InflightIsStoredAlways` and `WindowIsExact` (`InflightIsStored`,
`WindowExact`). Neither is inductive. That an acknowledged message leaves both
containers is only known if its answer finds the entry it is for, so `BInv` has
the same kind of `Traffic` as the flow; that a resumed message finds its packet
id free needs the endpoint's store to be exactly the inflight messages sent so
far (`Held`), with nothing under way meanwhile (`Connection`); and the count of
slots, which is the cardinality of the entries that hold one, changes by one
exactly because entries, queue and packet ids are distinct (`Window`).

`DeliveryPromiseKept` in the same module: `Spec => ImplementsOrderedDelivery`,
when moreover no QoS 2 message has an expiry interval (section 4, item 7, is
what happens otherwise). What `OrderedDelivery` owes is what the offline list, the
inflight messages and the endpoint's store hold, so most steps are a stutter: a
resumption, a break, a message leaving the offline list move messages between
the three. The rest are shown to be a Publish, Receive or Settle. The invariant
is `BInv /\ DInv`: messages on the offline list are later than all that left
it (`Behind`); inflight list, store, queue, write queue and connection are each in
the order of publication and one before the other (`Lined`), which is why the
head of the connection is the next message owed; a stored publish is queued, on
its way or has arrived (`UnderWay`); what was answered has arrived, and the
subscriber's `qos2_publish_handled_` has exactly the packet ids of the QoS 2
messages that arrived and are not completed (`Progress`), which is why none is
received twice or taken for a repeat; and a QoS 0 publish is on its way once
(`ZeroOnce`). Orders are up to messages that expire: one may be sent behind
later ones when it is no longer inflight and still stored.

`ConnectionLifetimeProofs`, for any number of connections, publishes and
disconnections, layered or not, with or without `Patient` and `Mixed`:
`EndToldOnce` (`ToldOnce`). Neither half is inductive. That the end is told at
most once needs to be known of a connection that has not been told: `OneNotice`
says that in a session exactly one of three holds, the pending read is still to
fail, the notice is in `async_shutdown_handler_queue_`, or it was told, and that
none does before the session, however the shutdown timer, the closing exchange
and a connection that follows come in between. That no completion handler is
called twice needs the balance of all of them: `HandlersHeld` counts those given
and not called as the ones the posted functions, the queued packets, the handlers
waiting for the socket and the connection attempt hold. `NothingForgotten` states
the two, since they say more than `ToldOnce`: no notice and no handler is dropped
either. The counts are cardinalities of sets of positions, and `CountSplit` and
`CountAppend` say how writing part of a queue and posting change them.

## 6. What is only model-checked, what is not modelled

Only model-checked, since the prover does not reach it:

* liveness and anything about ENABLED: `EventuallyDelivered`, `PidsComeBack`,
  `EventuallyReceived`, `EndsInTime`, `KeepsAccepting`, `WholeHandled`,
  `ForceEnds`, `SilenceIsNoticed`, `PublishEnds`;
* `LastRuleDecides`. It is about the rules the run configures: for rules that do
  not go from the general to the special it is false (section 3), and what each
  of the three authorizations decides is a fold over the list of rules, or over every
  order of a set of entries.
* `ResponseTopicServed`. Whether the rules added for a response topic win over the
  configured ones depends on the latter, through the same folds.
* the bytes of packets: `StoredAsSent`, `ImplementsPacketChannel`. They compare,
  for each of thirty layouts, lengths and fields that are computed; TLC does that
  for every packet of the run, and for all lengths it would be one proof for
  each layout that repeats the layout.
* `SerializedFlow`, whose instance of `InOrder` and `ImplementsReliableDelivery`
  (with restarts of the client process) is more than `DeliveredInOrder` and
  `PromiseKept` say, which are about `PublishFlow`.

What is computed by recursion is otherwise within reach as long as it is a
function of numbers: the library's induction rules cannot be used, since they
take an operator as a parameter, but that a non-empty set of numbers has a least
element is a statement about sets (`LeastNumber`, from the well-foundedness of
the order), and induction for one predicate at a time follows (`Induction`).

Not modelled:

* the client's facades (`callable_overlay`, `async_client`, `sync_client`): they
  forward to stored callbacks or hide functions, and keep no state;
* synchronous calls (`connect`, `send_...` of a synchronous client): the same
  changes of state without the queue of writes;
* several threads: every module runs a handler to its end. Hazards that only
  threads expose are listed and named as not covered;
* in the flows, what comes between a handler and the completion of the write it
  started: the quota is given back, and a resumed session attached, with the
  answer's write (`AnswerWritten`). The two hazards of these windows (EP:7797,
  BR:1484) are listed as not covered;
* in the flows: DUP, maximum packet size, message expiry, UNSUBSCRIBE (the code
  of SUBSCRIBE with other names), an application that registers or releases
  packet ids itself or that delays its answers;
* in the broker: several client ids in `BrokerSessions` and `BrokerDelivery`,
  AUTH exchanges, reading the configuration's JSON, digests (equal exactly if
  the passwords are), `single_subscription_map` (the broker does not use it);
* in the bytes: texts by content, UTF-8 validation, packet ids of four bytes;
* in the server: the variants for Boost.Beast before version 248, which differ in
  the type of a timer;
* sockets, TLS, WebSocket framing, buffers, logging: no protocol state.

## 7. Plan

What is modelled stays; what is left is to prove more of it, in this order:

1. `SerializedFlow`: with `saved` equal to the store, a restart is a close of the
   connection, and the theorems about `PublishFlow` carry over.
2. `ResponseTopicServed`, for rules in which no configured rule is about the
   response topics.
