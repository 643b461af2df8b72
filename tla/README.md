# A TLA+ model of async_mqtt

async_mqtt is a header-only MQTT library for C++ on Boost.Asio (`include/async_mqtt`)
with a broker and a measuring tool built on it (`tool`). This directory holds TLA+
modules that model its protocol logic, TLC configurations that check them on small
instances, and proofs for TLAPS. `PROJECT.json` lists the runs, the source lines each
definition stands for, the hazards the properties are aimed at, and the findings.

Paths below are relative to the repository; `endpoint_*.hpp/.ipp` and `client_*` are in
`include/async_mqtt/impl`, `stream_*` in `include/async_mqtt/util/impl`, the broker's
headers in `tool/include/broker`.

## How the program runs

Everything of one endpoint happens on one executor. An API call creates a composed
operation (`send_op`, `recv_op`, `close_op`, ...), dispatches it to the executor, and
the operation runs as a sequence of handlers; between two of them, where it waits for
the stream or for a timer, other handlers run. A handler is therefore one atomic step
of a model, and what is hard is the order of handlers, what an operation still believes
when it continues, and what a broken connection leaves behind. The broker runs several
executors and protects its tables with mutexes; where it gives a mutex up between two
handlers, or never takes it, the handlers of several connections interleave.

Two things recur. A handler that is posted cannot be taken back: `cancel()` of a timer
whose handler is posted comes too late. And `dispatch` runs its handler at once when it
is called on the executor, so that one handler may run through several operations; the
model takes those into one step.

## Inventory

| component | state | operations | hard parts | what makes it correct |
|---|---|---|---|---|
| value allocator, packet id manager (`util/value_allocator.hpp`, `util/packet_id_manager.hpp`) | intervals of free values | allocate, use, deallocate, is_used, first_vacant, clear | joining and splitting intervals, the last value of the type | no value handed out twice or lost, the lowest first |
| packet id waiters (`endpoint_acquire_unique_packet_id_wait_until.hpp`, `endpoint_add_retry.hpp`, `endpoint_impl.ipp:350-403`) | queue of timers, `packet_id_released_` | acquire, retry, release, clear | one error code for a release and a cancellation; handlers that run later than the release | who waits is woken, in order |
| endpoint, sending (`endpoint_send.hpp`, `endpoint_impl.ipp`) | `status_`, packet ids, awaited ids, `store_`, `publish_queue_`, counters, aliases | async_send of each packet, resending | errors after a partial change, resends, receive maximum | exactly-once, at-least-once; each id comes back; order |
| endpoint, receiving (`endpoint_recv.hpp/.ipp`) | the same, and `publish_recv_`, `qos2_publish_handled_` | async_recv, a handler per packet, automatic responses | unexpected acknowledgements, error paths that end in a close | no correct peer is rejected; async_recv completes, and when it fails the connection is closed |
| endpoint, closing (`endpoint_close.hpp`, `util/ioc_queue.hpp`) | `status_`, `close_queue_` | async_close | concurrent closers | every closer completes, closed |
| keep-alive timers (`endpoint_impl.ipp:197-348`) | three timers | set, fire, cancel | a handler posted before the cancellation | a silent peer is noticed, a live one kept |
| store (`util/store.hpp`) | packets in insertion order, unique by response and id | add, erase, clear, for_each, expiry | an id shared by two packets, expiry in mid handshake | what is not acknowledged is kept, once |
| stream (`util/stream.hpp`, `stream_*.hpp`) | read and write queues, buffers | read packet, write packet, close | partial reads, bulk writes, errors | packets whole and in order; a failed write reported |
| topic aliases (`util/topic_alias_*.hpp`) | table of the sender, table of the receiver | insert, find, least recently used | the two tables drift apart | the receiver finds the sender's topic |
| client (`client.hpp`, `client_*.hpp/.ipp`) | pending operations with a timer each, receive queue | start, publish, subscribe, recv, ... | an answer before its waiter, connection errors | each operation gets its own answer and completes |
| packets and properties (`packet/`), UTF-8 (`util/detail/utf8_checker.hpp`) | the members of a packet, its cached lengths | construct, change, encode, parse | lengths kept in three places; lengths a peer sends | what is sent is read back; what is accepted is whole |
| broker sessions (`broker.hpp`, `session_state.hpp`, `inflight_message.hpp`, `offline_message.hpp`) | sessions by client and by connection | connect, take over, offline, expiry, publish | asynchronous steps with iterators, timers of past states | one connection per client; nothing stored is lost; a will is sent once |
| broker subscriptions (`subscription_map.hpp`, `retained_topic_map.hpp`, `shared_target*.hpp`) | trees with reference counts | insert, erase, match | counts of shared nodes | matching by levels, `+` for one and `#` for one or more (MQTT's `#` also takes the level above; the code and its tests do not) |
| broker security (`security.hpp`) | accounts, groups, list of rules and two maps | login, authorize, add and remove rules | rules that come and go with sessions | every grant rests on a rule |
| measuring tool (`tool/bench.cpp`) | phase counters, a timer and counters per client | connect, subscribe, idle, measure, report | copies of one coroutine that share counters | it measures what it is asked to, and ends |

How they interact: the client calls one endpoint; the endpoint owns an allocator, a
store, the alias tables and the stream; `send_op` and `recv_op` share the endpoint's
sets; a release of an id wakes a waiter; the broker holds one endpoint per connection
and carries `qos2_publish_handled_` and the stored packets from one to the next; the
broker asks security before it inserts a subscription or passes a message on.

## Modules

| module | stands for |
|---|---|
| `IdPool` | what an allocator promises: a set of free values, the lowest first |
| `ValueAllocator` | `value_allocator`, with its comparator and integer width; `ImplementsIdPool` is the refinement |
| `ValueAllocator_proofs` | its theorems |
| `Session` | a client endpoint that sends, a link that breaks, a process that restarts and a server with a session |
| `Session_proofs` | its theorems |
| `PidWaiters` | waiting for a packet id |
| `PidWaiters_proofs` | its theorems |
| `ReceiveMaximum` | the flow control of a v5.0 sender |
| `Stream` | write queue, framing, and `recv_op` on top of them, over several connections |
| `Stream_proofs` | its theorems: the write queue, the framing, and what a failed receive leaves |
| `KeepAlive` | the three timers, `close_op` and its waiting callers, on both ends |
| `KeepAlive_proofs` | its theorems |
| `TopicAlias` | both alias tables with size limits, receive maximum and resending |
| `TopicAlias_proofs` | its theorems |
| `Client` | the client's operations and its receive loop on an endpoint |
| `Client_proofs` | its theorems: types, who wakes `async_recv`, whose answer an operation gets |
| `BrokerSession` | the connections and the session of one client at the broker |
| `Security` | accounts and rules (operators; no behaviour of its own) |
| `BrokerTopics` | subscriptions, shared subscriptions, retained messages; extends `Security` |
| `BrokerTopics_proofs` | their theorems: the searches of both trees, the turns of groups, the maps of the rules, what filters have in common |
| `Utf8Checker`, `Wire`, `PacketsV5`, `PacketsV3` | the validator; numbers, texts and properties on the wire; every packet class of both versions (operators) |
| `Codec` | a packet from object to octets and back; extends the four above |
| `Bench` | the measuring tool |
| `MC...` | constants for TLC |

Some modules begin with variants of their definitions under the comment `Mutants`. They
are plausible slips; nothing in the model uses them, and each is paired with a property in
`PROJECT.json` that fails when it stands in for the definition it varies.

### ValueAllocator

`pool` is `pool_`. `Before` is the comparator, under which overlapping intervals are
equal, and `Emplace` keeps the container's rule that equal elements are dropped.
`Allocate`, `Use`, `Deallocate` and `Clear` are the four operations that change the
pool; `Deallocate` joins with its left and its right neighbour. `Inc` is `v + 1` in the
type of the C++ expression: two byte ids promote to `int`, four byte ids wrap, and
`Modulus` says which. The mapping to `IdPool` takes the pool to the values it covers.

### Session

State and actions follow `send_op` (`SendConnect`, `SendPublish`, `SendSubscribe`,
`SendDisconnect`, and `WriteComplete` or `WriteError` when the stream is done), `recv_op`
(`Recv...`) and `close_op` (`Close`, `CloseComplete`). `writing` holds the operations
that wait for the stream, with their `release_pid_opt`. PUBREL is sent by the PUBREC
handler, as with `auto_pub_response_`. `Expire` is the message expiry timer of the store,
`Restart` the end of the process: the next one registers the ids of the stored packets
and restores the handled ids (`endpoint_restore_packets.hpp`). The server is a conforming
broker on a server endpoint: session present, acknowledgements, `qos2_publish_handled_`.
`setup`, chosen once, says how the endpoint is used: protocol version, the kinds of
CONNECT, local send errors, what else the application does, a server that may forget, and
one whose Maximum Packet Size differs from one CONNACK to the next (`"shrink"`): then
`send_stored` erases what has become too large and releases its id (`Remaining`), and sends
the rest (`Resent`). Abstractions: a packet is its type, id, message and QoS; a PUBREL is
never too large; a new CONNECT follows only when the writes of the old connection have
completed; the receive maximum is out of reach; every packet written is a single write of the
stream. `status_` is shown by what it decides: `closing` ends with `CloseComplete`.

### PidWaiters

An operation is idle, waiting on its timer, ready (the handler of the timer is posted),
done with an id, or aborted. `queue` is `tim_retry_acq_pid_queue_`; an entry whose timer
is no longer the one its operation waits on stays there, as in the code, with
`own = FALSE`. `released` is `packet_id_released_`. `Retry` is the handler: the two
operations that it runs through (`add_retry_op`, then the acquire operation) are one
handler. `others` counts ids held by callers that do not wait.

### ReceiveMaximum

`count`, `limit`, `queue` are `publish_send_count_`, `publish_send_max_` and
`publish_queue_`. One handler may call `enqueue_publish` several times (`send_stored`
does, and the `async_send` it starts does so again), so the calls are operators on a
record (`Flow`) that an action composes. `Publish` is possible in every status, as the code
stores, counts or keeps back a PUBLISH that it cannot write yet; `early` records what became of
those between CONNECT and CONNACK. A packet in `large` is over the Maximum Packet Size with its
topic alias and not without: it is stored and counted, and refused afterwards
(`endpoint_send.hpp:558`). What `send_publish_from_queue` and `send_stored`
start with `async_send` runs inline where the executor's dispatch does, otherwise right
after the handler; the model takes it into the same step. A send of
`send_publish_from_queue` has `from_queue` set: it skips `enqueue_publish` and is not
counted again. The peer answers PUBLISH in order.

### Stream

Two endpoints, one that writes and one that reads. The writer: `posted` and `phase` are
`write_queue_` with its `poll_one`, `storing` and `sending` the two vectors of the bulk
mode, `Call`, `Start`, `Poll`, `WriteDone` and `WriteFail` the steps of `write_packet_op`. The
reader: `frame` is what `read_packet_op` or the bulk parser knows, and `FeedByte` one turn
of the loop in `parse_packet`; `ReadExactly`, `ReadSome` and `ReadParsed` are the two ways
to read. `Receive`, `HandleRead`, `RejectionSent` and `ReceiveFails` are `recv_op` around it:
`Rejections` says which way of giving up a packet gets. `started` is whether `status_` of the
reading endpoint has left `closed`: a client sends CONNECT at some time, or never
(`SendConnect`), a server reads one. Before that, `async_close` completes without closing
anything, and the failure is marked "unstarted". A connection ends in the middle of
a write, at any byte (`Ending`), by a failure or by `close_op`, and the layer may be
connected again (`Reopen`). Bytes have a small base and lengths at most two of them; the
code's constants are 128 and four.

### KeepAlive

Each end has a status, the ticks its timers have left (`left`), the timer handlers that
are posted (`due`) and the closes under way. A posted handler runs before time goes on,
but after or before anything else, a close included. `Reset` is `reset_*_timer`, `FireSend`,
`FireResp`, `FireRecv` are the three handlers, `AsyncClose` and `Closed` the two halves of
`close_op`; `waiting` counts the callers in `close_queue_`. The link may go silent
(`GoSilent`): what is sent is lost and nobody is told. The grace of the server is one and
a half keep-alives, in ticks.

### TopicAlias

`Send` is `process_send_packet` from the alias on: validation, the alias of the application
or the automatic ones (`Chosen`), the table (`Table`), then `enqueue_publish` and the size, in
that order. `entries` has the order of the time points. `Plain` is `regulate_for_store`.
`Receive` is the handler of PUBLISH with `publish_recv_` and `topic_alias_recv_`, `Flush` and
`Resend` are as in `ReceiveMaximum`. `spoiled` records that an alias was applied to a
packet that did not go out at once: from then on the tables may differ (findings).

### Client

`op` is an operation with its phase, `col` is `pid_tim_pv_res_col_`, in which an operation has an
entry only after its send has completed, `strand` the handlers that are ready, `stream` the
write queue as in `Stream`, `ep` and `broker` the endpoint and what it has under way.
`Run...` are the handlers in the order they became ready: completions of writes, the
polls of the write queue, `recv_loop` with each answer (`Notify`), the timers that it
cancels (`RunTimer`), and the timer of `async_recv`. The broker answers in any order.
`lost` records that an answer which was waited for can no longer come, or came before its
operation waited for it (`TooEarly`), as it may for a packet that went out with the bulk
write of another. `Codes` are the codes of the answer to each operation: SUBACK and UNSUBACK
have one at least, as the parsers refuse a packet without (`v5_suback.ipp:203`,
`v5_unsuback.ipp:202`), PUBACK and PUBCOMP have one. A CONNACK may refuse
(`connack_refused`): `async_start` completes with the code, and the endpoint stays as it is.

### BrokerSession

The connections of one client id, each on a strand with its own queue of tasks. `sess` is
the element of `sessions_`, with the session's flags, offline messages, inflight messages,
will and timers; `conn` is a connection with its endpoint (`store`, `handled`), the
DISCONNECTs and closes it waits for. CONNECT creates a session (`Create`), starts it over
(`Renew`), inherits it (`Inherited`) or takes it over from a connection that is still on-line,
which takes a DISCONNECT, a close and a callback on another strand. The session keeps the protocol
version of the connection that made it (`version_`): its messages become packets of that
version, and an endpoint of the other one refuses them (`Given`, step `"refused"`), as it does
the DISCONNECT of `CloseProc`. `close_proc` ends in
`BecomeOffline` or in the end of the session. The messages to the client go through the
endpoint when it is on-line and the offline queue otherwise, and the client takes them
over with PUBACK or PUBREC. The other way round the client may publish one message of QoS
2 (`from`) and sends it again on each later connection until PUBREC, then PUBREL.
`raced` records that something happened after which messages may be lost, all of them
described under findings.

### Security, BrokerTopics

`tree` is `subscription_map`, from the path of a node to its count, its two wildcard flags and
its values; `kept` is `retained_topic_map`, `targets` is `shared_target`, `handles` what each
session remembers. `NoLocal` says which subscriptions ask not to get what their own client
publishes; `Invalid` is the topic filter of an entry that `topic_sharename` could not make
sense of, which v3.1.1 grants unasked and v5.0 refuses (`Granting`). `Subscribe`,
`Unsubscribe`, `Request`, `Renew`, `End` and `DoPublish` are the broker's handlers with
everything they call: the decision of security, the tree, the retained messages that a new
subscription gets, the turn of a shared group. The rules of `Security` are a list and two maps,
as in the code; response topics add rules and the clean handler of a session removes them, by a
number that may be another rule's by then (`WithoutRule`; findings). Topic names are sequences
of levels.

### Wire, PacketsV5, PacketsV3, Utf8Checker, Codec

A packet object is a record with the members of its class, the cached lengths among them.
For each class there are three operators: construct it from values, the octets it is sent
as, and construct it from a buffer, which consumes the octets step by step and fails where
the code throws. Both texts of a user property are checked for UTF-8, as in `len_str`
(`ReadText`). `Codec` builds an object, changes it (`add_topic`, `remove_topic_add_topic_alias`,
`update_message_expiry_interval`, ...), encodes it, cuts or damages the octets, and parses
them. A variable byte integer has the base `Radix`. `Utf8Checker` is the validator with its two
loops, by words and by octets, and its state between two parts of a text.

### Bench

One coroutine object is copied for each client, and the copies go through it at the same time;
`at` is where the copy of a client waits. `ph` is `ph_`, `rest` the counters it shares,
`client` those of each client. A handler of the coroutine is an action; the report is
`undefined` if a client has measured nothing; the broker answers, passes messages on or refuses
(`Remote`).

## Runs

| run | bounds | distinct states | shows |
|---|---|---|---|
| `allocator` | 7 values | 576 | the intervals implement a set of free values |
| `session` | 2 ids, 3 messages, 2 breaks, 6 setups | 569813 | delivery, ids, acknowledgements; safety and liveness |
| `waiters` | up to 5 operations, 2 ids, 4 setups | 81860 | who is woken, in which order |
| `receive_maximum` | 4 messages, maximum 2, 2 reconnections | 201888 | order, progress |
| `stream` | 3 packets of 3 lengths, 6 receivers, chunks of 3, 2 connections | 1494978 | framing, what a completion means, progress |
| `keep_alive` | keep-alive 2 or 4, timeout 1 or 2, 2 connections, a packet, a waiting closer | 495128 | timers over connections, who is noticed, who is kept |
| `topic_alias` | 3 messages, 3 topics, 2 aliases, maximum 2, a reconnection | 1370477 | agreement of the tables |
| `client` | 3 operations, 2 ids, a reconnection, a message, a cancellation | 847843 | whose answer, progress |
| `broker_session` | 2 connections, 2 versions, an id, 2 messages or one of the client | 1165806 | wills, messages, take-over |
| `broker_topics` | 2 clients, 5 filters, one of them invalid, 4 topics, 5 rules | 151923 | trees, turns and rules against definitions |
| `codec` | every class, 4 texts, 8 property lists, 2 changes, 5500 words | 137645 | lengths, round trip, damaged packets, UTF-8 |
| `bench` | 3 clients, 0 to 2 messages to warm up, 2 or 3 to measure | 318108 | what is measured, that it ends |

Why the bounds are enough. The 7 values of the allocator include the interval between two
intervals that joins both. Two ids make an id be reused while the other is in flight, and run
out; three messages put a third one on a reused id; two breaks allow a resume of a resume, with
PUBLISH and PUBREL both in the store. Five operations on two ids leave three waiting, the
shortest queue with a middle. With a maximum of two and four messages something is kept back
behind something kept back; two of the four may be published between CONNECT and CONNACK, which
fills the count before the stored ones are resent. Three packets make a bulk write with two
followers; lengths of 0, of one byte, of two bytes and one that is too large occur in each
position, and chunks of three bytes cut every field. Keep-alives of 2 and 4 ticks give a grace
of 3 and 6, between two intervals, and timeouts below and at the interval. Two aliases and
three topics make an alias be replaced. Three operations let one start, one be answered and one
reuse its id, over two sessions. Two connections are a take-over; a session is created, left,
and found by the second in each of its states; further ones meet no state that the second did
not leave, and kept sessions of both versions are resumed by either. Two clients and five
filters share prefixes, wildcards, a group and an entry that is no filter; `+` on the second
level meets `#` there, `+` on the first one in the rules. In the bench a client has 2 to 5
messages in all, and up to 6 of all three may warm up: both sides of `times + pub_idle_count <=
clients * pub_idle_count` occur, on the first of which a client may measure nothing. In the
codec a base of four reaches three bytes of length with short texts. The lengths up to 17 of
the words reach each path of the word loop.

What the bounds leave out. `KeepAlive` has one packet of the application: one that goes on
sending, and so never pings, is not looked at. In `Client` no id is given again while an operation
of an earlier session waits (`AnswersOfClient` covers that), and one `async_recv` is pending at a
time; two would share `tim_recv_`. `Session` refuses a packet for its size before it is stored or
where nothing is stored; the refusal of a stored packet that its alias has made larger is in
`ReceiveMaximum`, without ids. `+` on the first level of a subscription is in the theorems of
`BrokerTopics` only.

`CHECK_DEADLOCK FALSE` is set where a program may really come to rest: all messages done,
no connection left within the bound, all copies of the coroutine ended, the last packet
parsed.

Several properties have a condition, and do not hold without it.

* `ExactlyOnce` excludes a server that forgets its session: if then the CONNACK that
  says so is lost, MQTT itself lets a message be delivered twice. `AcceptedIsDelivered` and
  `EveryIdReturns` are about an endpoint that publishes on kept sessions, restarts
  included. A clean start forgets messages by intention; SUBSCRIBE and an expiring
  message may leave their ids in use (findings). `AcceptedIsDelivered` also leaves out a server
  whose Maximum Packet Size shrinks: a stored message that has become too large is erased and
  nobody is told (findings). `EveryIdReturns` includes it. The server
  may still hold a released id as handled: a new message with it is acknowledged and not passed on.
* `InOrder` and `EveryWaiterServed` need that ids are acquired by waiting operations only
  and that nobody cancels: when other code takes a released id first, the woken operation
  fails to get one, `packet_id_released_` becomes false, and the handler of the next
  woken operation takes its wake-up for a cancellation (`endpoint_add_retry.hpp:42`).
* `QueueDrains` is about QoS 1, as PUBCOMP does not decrease the count, and ends when a PUBLISH
  was sent between CONNECT and CONNACK or one was counted and then refused for its size
  (findings). `SentInOrder` is about what is sent and what is kept back behind it; when a
  PUBLISH was kept back before the CONNACK, the stored ones line up behind it, and it is about
  what is sent only (findings).
* `SuccessIsWritten` holds in bulk mode as long as the connection is up: the followers of a
  bulk write that failed succeed. With bulk read `DeliveredInOrder` is about the first
  connection only, and `EveryPacketArrives` is about exact reads (findings). `FailedIsClosed`
  leaves out a receive that a close of the endpoint itself aborted, and one that fails before
  the endpoint has sent or read a CONNECT, which leaves the socket open (findings).
* `SilentServerIsNoticedInTime` needs a timeout below the interval. `LiveClientIsKept`
  leaves out a client whose CONNACK came late or whose interval, kept from an earlier
  connection, is longer than the keep-alive of this one.
* `TablesAgree` and `UnderstoodAsPublished` end when `spoiled` is set.
* `AnswerIsOwn` and `EveryOperationCompletes` end when `lost` is set; the latter is about
  single writes, and a client that stays connected.
* `KeptUntilAcknowledged` and `TakenOverOnce` end when `raced` is set, which a message does that is
  given to an endpoint of another version than the session's (findings).
* `RetainedFound` excludes `+` on the first level and before `#`.
* `AcceptedWhole` names three kinds of packet that are accepted although they are not what
  would be sent: trailing octets of a CONNECT, a PUBLISH with QoS and packet id 0, an
  identifier that is longer than it needs to be.
* `MeasuredExactly` is about a single process; a receiver cannot know what was sent. `Finishes`
  leaves out a report that is undefined because a client of a process that only receives has
  measured nothing, which `MayMeasureNothing` confines (findings).

### Fairness

`Session`. `Library`: Asio runs what is posted to an executor, and a write on a connection
completes, with or without an error. `Server`: a live broker reads what it is sent.
`Close` when the link is down: `recv_op` closes after a read error. `SendConnect` of a
kept session: the application connects again, as `doc/functionality/resend.html` asks.
Link failures are bounded by `MaxBreaks`, which gives "the link stays up long enough".

`PidWaiters`: the posted handler runs (`Retry`), and an id is released in the end (`Release`,
`OtherReleases`), which is what `Session` shows for published messages. `ReceiveMaximum`: the
peer answers and the application connects again. `Stream`: I/O completes, posted handlers run,
the application receives again, and the close that `recv_op` of a started endpoint has begun
completes; nothing is assumed of calls, breaks and other closes. `KeepAlive`: posted handlers
run, packets arrive or are lost, a close completes and time passes. `Client`: the strand runs
and the broker answers. `BrokerSession`: as long as some handler on a strand is ready, one
runs. The code's executors guarantee that for each strand on its own, which is more; the weaker
assumption is enough because only finitely many handlers become ready within the bounds.
`Bench`: handlers run, the broker answers and timers fire.

Weak fairness is enough everywhere: no action is disabled and enabled again for ever by
another.

## Proofs

`ValueAllocator_proofs` proves, for every `Lowest`, `Highest` and `Modulus` with
`Highest + 1 < Modulus` (`Promoted`: the increment does not wrap, true of the two byte
ids of the default endpoint),

* `TypeCorrect`, `IntervalsMaximal`, `QueriesCorrect`: `TypeOK`, `Maximal` and
  `QueriesAgree` are invariants;
* `Refinement`: `Spec` implements `IdPool`, that is `ImplementsIdPool`.

The inductive invariant is `TypeOK /\ Maximal`. `TypeOK` alone is not inductive: an
interval that overlaps or touches another one would make `Emplace` drop a part, and
`Deallocate`, which looks at the two neighbours only, would join the wrong ones. With
`Maximal`, at most one interval lies at each side and touches the value (`OneNeighbour`),
what it joins stays apart from the rest (`JoinedApart`), and a value released although
it is free has no neighbour to join, so that `Emplace` drops it (`DeallocateFree`). Each
operation then changes the covered set as `IdPool` says. Without `Promoted` the theorems
are false, for four byte ids (findings).

`Session_proofs` proves, for every number of ids, messages and broken connections and
every set of `Setups`, restarts, expiring messages and a shrinking Maximum Packet Size included,

* `TypeCorrect`: `TypeOK` is an invariant,

and, when the endpoint is `WellUsed`,

* `StoredIdsAreUsed`: the id of a stored packet is never vacant;
* `OneMessageForAnId`: a packet id serves one message at a time, in the store, in the
  operations that write and on the wire;
* `AcksAreExpected`: no acknowledgement is taken for a protocol error.

`WellUsed` leaves out what the code does not support: a topic alias out of range (findings)
and a v5.0 session that is resumed by a CONNECT with session expiry interval 0, whose
failed writes release ids of packets that are stored from before. None of the three is
inductive. The strengthening `IInv` sees the packets in flight as one queue, `Pipe`: the
server's answers, the packets on the wire, the packets that operations still write. Every
action then is one of five moves, each with a lemma: a packet joins at the end
(`PipeSends`), the first one is consumed (`PipeReceives`), a packet's answer takes its
place (`PipeAnswers`), the wire is lost (`PipeLost`), a write fails (`PipeFails`).
`Orderly` says that no two packets in the queue have the same id, and that each is
`Proper`: its id is in use, its response is awaited, and the stored packet with this id is
at the same stage of the same handshake (`Fits`). That is why whoever releases an id holds
the only packet that carries it, and why PUBACK, PUBREC and PUBCOMP find exactly one stored
packet to erase. While the endpoint is `connecting`, no packet in the queue has an id, so
that resending the store cannot double one. `TypeCorrect` needs no more than `Typed`, which
adds what the queues hold. An operation takes the lowest vacant id: that there is one
follows from the well-foundedness of the natural numbers (`LowestVacant`).

`PidWaiters_proofs` proves `ServedInOrder`, that is `InOrder`, for any number of operations
and ids. The invariant (`InLine`, `Queued`, `Phases`, `Enough`) says that on an undisturbed
endpoint the queue has exactly one entry for each operation in line, in order, that the
woken ones are the first of it, in the order their handlers are posted, and that there is
a vacant id for each woken one. The last part is what a test would hardly show: an
operation that starts while others wait goes behind them although an id is vacant, and so
the id stays for the woken one.

`KeepAlive_proofs` proves, for all keep-alives, timeouts and bounds,

* `ClosedIsQuiet`, that is `NoTimerAfterClose`. `Proper` holds of each end; a lemma for each
  function that handlers are made of says that it keeps an end proper, and each action
  composes them;
* `LiveIsKept`, that is `LiveClientIsKept`. `Kept` says, while the link is up and no time passed
  between CONNECT and CONNACK, that no tick passes before the client reads its CONNACK
  (`Opening`), that a connection has one CONNECT and one CONNACK (`ConnectOnce`), and that
  from then on the server's timer runs out later than the client's, or a packet is under
  way that will arm it anew, or the end of the stream is (`Living`). What no test of one end
  shows is that the two timers are compared with packets between them: the client arms
  its timer when it sends, the server when it receives. `TickAssumption` is the only
  assumption: intervals are given in seconds and timers run in milliseconds, so that the
  server's one and a half intervals, rounded down, are more than the client's one.

`Session_proofs` goes on to `DeliveredOnce`, that is `ExactlyOnce`, on a `WellUsed` endpoint.
`Once` adds the server's half to `IInv`. A PUBLISH in flight is the only one with its message
and has the QoS with which it was accepted (`Meant`). While the server keeps its session
(`~setup.expires`), a QoS 2 message is passed on once at most (`Counted`); as long as its
PUBLISH is stored or under way, the server remembers the id of what it has passed on
(`Remembered`); and when the server has no session, or a clean CONNECT under way will end
it, nothing stored has been passed on (`Sessions`). A step is again one of the five moves.

`Stream_proofs` proves, for any number of packets, both write modes and any sequence of
connections that break, close and come again,

* `WritesKeepOrder`: on each connection packets are written in the order of
  `async_write_packet`, none twice;
* `SuccessMeansWritten`, that is `SuccessIsWritten`;
* `FailedMeansClosed`, that is `FailedIsClosed`: once the endpoint has sent or read a CONNECT, a
  receive that fails for another reason than an abort leaves a closed connection;
* `DeliveredAsWritten`, that is `DeliveredInOrder`: for all lengths, bases and widths of the
  length field, and any cut of the bytes into reads and chunks.

The inductive invariant of the writer says which operation works (`OneWorks`), that who has
a packet stored waits (`StoredWait`), that everything written comes before everything that is
being sent, and that before everything still in line (`InOrder`), and that no packet of an
unfinished operation is missing while the connection is up (`Kept`). The writer does not depend on
what the reader makes of the bytes, so that none of this needs the framing.

The inductive invariant of the reader, `Reading`, relates the parse to the packets. `Parsed`
says that the parse `f` has read the first `m` packets of a queue, has those after the `j`-th
still to hand over, and is at one of three places in the next one (`At`): at its header; in its
length, of which the digits of some number are still to come, and the value so far, the
multiplier and that number make the length; or in its payload. The bytes to come are the rest.
A byte keeps it (`ByteKeeps`: header, digit, last digit, one digit too many, payload), so any
number of bytes at once does (`FeedKeeps`, over the fold of `Feed`), and so do packets written
behind (`ParsedGrows`). `Correct` adds what was delivered: the accepted ones of the first `j`
packets, or an error last. A connection that ends in the midst of a packet has a last packet
whose missing bytes never come (`Late`); none of these is handed over, for a packet that is
parsed has all its bytes written (`ParsedWritten`). An exact read takes no byte of the packet
behind (`WantedWithin`), which is why a reader without bulk mode may start the next read from
nothing, also on a new connection; with bulk mode what is left of one connection gets into the
next, so there the theorem and the run are about the first. That the field of a length is well
defined by its recursion is proved as well (`FieldIs`).

`Client_proofs` proves, for every number of operations and ids, both
write modes, and any number of connections and cancellations,

* `TypesOfClient`: `TypeOK`;
* `RecvIsWoken`, that is `RecvWakes`: `async_recv` waits only while nothing is there for it, and
  is woken only while something is;
* `AnswersOfClient`, that is `AnswerIsOwn`: unless an answer was lost or came too early, an
  operation completes with the answer to its own packet.

The inductive invariant of the first two, `Always`, follows each operation: what handlers
are ready for it (`Progress`, `Timers`), its place in the write queue (`Writes`), its entry in the
collection (`Entries`), and the packet or answer of it that is under way, of which there is
never more than one (`Claims`). `AnswerIsOwn` needs more, because `recv_loop` looks an
operation up by its packet id, and ids are given again: while `~lost`, whoever has a packet
or an answer under way, or waits, holds an id that is in use, and nobody else holds it
(`Holders`). That this is inductive rests on who is waited for having been asked (`Asked`: a
SUBSCRIBE that waits has its packet or answer under way, or will find its write failed), on
one `async_start` at a time waiting for CONNACK (`Starts`), and on the order of handlers on the
strand: `recv_loop` cancels the timer of an operation after its id was released, a later
operation may get the id at once, but the handler of the timer removes the old entry before an
answer to the new one is looked up (`TimerFirst`). `CodesAssumption` is the only assumption: a
SUBACK without codes would make `subscribe_op` report a protocol error for its own answer.
When the proof was first tried, `Holders` was not inductive, and TLC gave the reason: the
follower of a bulk write that is answered before its own turn (findings). `lost` is set
there since.

`TopicAlias_proofs` proves, for every number of messages, topics and aliases, in each of the three
modes, and for any rooms and connections that break and come again,

* `TypeCorrect`: `TypeOK`;
* `TablesAlwaysAgree`, that is `TablesAgree`, and `AlwaysUnderstood`, that is
  `UnderstoodAsPublished`: unless the connection is `spoiled`;
* `AlwaysStoredWithTopic`, that is `StoredWithTopic`;
* `InvalidOnlyIfSpoiled`: the receiver closes a connection for an unknown alias only when an
  alias was applied to a packet that did not go out at once (findings).

`TablesAgree` alone is not inductive: it says what the receiver will know in the end, and a
packet under way with its alias alone is read before that. `Agree` says of each place on the
wire what an alias stands for when the receiver comes to it (`Says`: the last packet before
that place which gives the alias a topic, or the table). An entry may be replaced while packets
with the old topic are under way, as they come before the one that replaces it (`RegisterIs`).
`Mapped` is the part of the sender on which the rest depends: every alias once in the entries,
and an entry for the oldest alias as soon as all are in use (`LruIs`). `Unaliased` says that
what waits for the Receive Maximum has no alias, so that the queue can be sent later under the
aliases of that time. A message keeps its topic in the store because `TopicOf` looks up the
entry before the table changes (`StoreIsGood`); after a lost connection both tables start empty
and every stored packet has its topic (`Restores`). `TableAfter`, the flushing of the queue and
the resending of the store are folds over sequences; each is the last value of a function on
the sets of places (`FoldExists`), and what the invariant says of it follows place by place
(`FoldStays`).

`BrokerTopics_proofs` proves, for every file of rules, all topic filters and names of any length,
any number of clients and any order of their subscriptions, publishes and sessions,

* `SearchIsRight`, that is `SearchAgrees`: the search of a publish finds the subscriptions with
  a matching topic filter and no other;
* `GroupsAreServed`, that is `OneOfEachGroup`: a publish reaches each group whose topic filter
  matches through one of its members, and in no other way;
* `RetainedIsFound`, that is `RetainedFound`: a subscription is given retained messages that
  match only, and all of them but for the two exceptions;
* `RulesBackGrants`, that is `GrantsAreBacked`;
* `FiltersMeetAlways`, that is `FiltersMeet`.

The first is not inductive, since a search does not see the counts by which nodes are
removed. `Planted` says that `tree` is the tree of the handles (`TreeOf`): a path is a node when
a subscription's filter goes through it, the count is the number of those subscriptions, a
flag is set when the wildcard is a child, and the values are the clients with a handle. Then
`Grown` and `Pruned` each have a lemma: a handle more or less changes the counts along one path
by one, and just the nodes with a count of one go (`GrownIsTree`, `ErasedIsTree`). A level of
the search leads from the nodes that fit the levels before it to those that fit it as well
(`OneLevel`), where `Fits` is the part of `Match` up to a level; `ReachedMatches` adds the
nodes of `#`. `Backed` says of each entry of the two maps that a rule in the list has that
topic filter, name, type and number; it must not ask for distinct numbers, which the broker
does not keep (findings). An entry that `remove_auth` leaves is not of the rule it removes,
because that rule's entries go with all its names (`RemoveIsBacked`). `FiltersMeetAlways` is a
statement about two sequences: what fits the common levels up to the first `#` and the rest
of the other topic filter, level by level (`BothJoin`, `JoinIsBoth`, `PlainBoth`).

`GroupsAreServed` needs the two records of a shared subscription to agree: the share name at the
tree node and the place in line of `shared_target`. `Lined` says that whoever has a handle for a
topic filter with a share name is in line with it. The converse does not hold: a client that
subscribes again under another share name leaves its old place in line behind. That is why `One`
asks for a member with the topic filter, and not for a subscriber. A node that goes changes no share
name of those that stay (`ErasedRemain`). A publish takes the groups in some order, each once
(`OrderIs`); each turn keeps everyone in line (`TurnIs`), so that the groups served later find
their members (`Serves`).

`RetainedIsFound` needs the same of the other tree (`KeptOf`): its nodes are the paths of the topics
that have a message, each counts those topics, and `born` lists just these nodes. A message
more or less changes the counts along one path (`StoreKeeps`, `DropKeeps`); the topic that the end
of a session drops may be one without a message, but never a path that is not a name (`Asked`).
`Found` says of the list of nodes after some levels that it holds none but nodes that fit those
levels (`Leading`), and all of them if the filter does not begin with `+`: there the loop stops at
the first child with `$` (`UnderIs`). `#` looks below the first node of the list only; without `+`
that is the only one (`LookupFinds`).

The assumptions are that the file's topic filters have passed `validate_topic_filter()`
(`security.hpp:398`), that those of subscriptions and the topic names of publishes are valid,
and that a made up response topic has no wildcard on an inner level. `Loaded`, `Clean`,
`LeftBehind`, `Among` and the turns of a publish are folds. Each stands for a function on the
subsets of a finite set, which exists and is what the invariant says on the empty set and on
every set that is larger by one; the set of those subsets on which it is so is then all of them
(`SubsetsFromEmpty`, proved from the well-foundedness of the numbers). No theorem with an
operator as parameter is needed for that.

Model-checked only, and why:

* all liveness, which is out of the prover's reach (as is `ENABLED`);
* the invariants of `ReceiveMaximum`, which rest on folds over the queue and the store: not
  proved; the way `TopicAlias_proofs` follows its folds would do for them;
* in `Stream`, `TypeOK`: with bulk read the bytes that are left of one connection make a
  packet of any kind on the next, and then nothing says what becomes of the receive;
* those of `Codec`, whose parsers are recursive;
* those of `BrokerSession` and `Bench`, which are not proved.


## Findings

Where the code does something else than a line of the repository says. `PROJECT.json`
quotes both lines. The behaviour is in the modules, and the properties are stated as the
code keeps them; the condition that leaves it out is listed under "Runs".

* *Packet ids.* With four byte ids, the last free value is followed by id 0
  (`value_allocator.hpp:102`). The id of a SUBSCRIBE that was written and not answered is in
  use for the rest of the session (`endpoint_impl.ipp:190`), and so is that of a stored
  PUBLISH that expires while the endpoint is not connected (`store.hpp:72`). A PUBLISH
  with an alias out of range is refused after `store_.add`, with its id released
  (`endpoint_send.hpp:471`). A newcomer may wait although an id is free
  (`endpoint_impl.ipp:350`). `is_publish_processing` is false for a resent PUBREL
  (`endpoint_impl.ipp:184`).
* *Resending.* A stored packet that is larger than the Maximum Packet Size of the new CONNACK is
  erased and nobody is told (`endpoint_impl.ipp:139`).
* *Receive Maximum.* One PUBACK empties the whole queue (`endpoint_recv.ipp:15`); PUBCOMP
  does not drain it (`endpoint_recv.hpp:490`). A PUBLISH between CONNECT and CONNACK is counted
  three times, so that two of them may block a connection with a maximum of two, and one that
  is kept back overtakes the stored ones and goes out twice (`endpoint_impl.ipp:154`).
* *Receiving.* A bulk read that fails does not complete (`stream_read_packet.hpp:309`); a v5.0
  server endpoint forgets its receive for a malformed packet (`endpoint_recv.hpp:102`). A receive
  that fails before a CONNECT was sent or read leaves the stream open, as `async_close` does
  nothing then (`endpoint_close.hpp:59`).
* *Keep-alive.* Each PINGREQ puts the timeout of the one before off (`endpoint_send.hpp:551`).
* *Topic aliases.* An alias counts as registered when its packet is prepared, also if the
  packet is then refused or kept back (`endpoint_send.hpp:466`). The alias replaced is the
  one registered first, not the least recently used (`topic_alias_send.hpp:52`).
* *Client.* `async_start` does not complete if the connection ends before CONNACK
  (`client_start.hpp:58`).
* *Broker sessions.* `inherit` leaves the expiry timer running (`session_state.hpp:608`);
  whether a session remains is decided by the interval of the connection before (`:226`); a
  message for which no id is free is dropped if nothing is queued (`:300`). A session keeps the
  protocol version of its first connection, and what it sends to a client that has come back
  with the other one is lost (`:655`).
* *Broker topics and security.* `+` on the first level stops at the first `$` topic
  (`retained_topic_map.hpp:222`). Rules of response topics stay over a renewal, and double
  (`security.hpp:303`). Rules of the user go before those of groups, wherever they stand
  (`security.hpp:560`).
* *Bench.* With QoS 1 or 2 the measuring steps run again for each id (`bench.cpp:883`). A
  process that only receives may report a client of which it has measured nothing
  (`bench.cpp:803`).

The following was met on the way; no line of the repository promises otherwise.

* *Endpoint.* `notify_retry_all` wakes nobody (`endpoint_impl.ipp:377`). A CONNACK without
  session leaves `publish_queue_` as it is (`endpoint_send.hpp:310`), and
  `qos2_publish_handled_` outlives its session (`endpoint_recv.ipp:43`). A packet refused for
  its size has been counted by `enqueue_publish` and is not taken off. A PINGREQ that is
  due while the endpoint is connecting is not sent and ends the pinging;
  `pingreq_send_interval_ms_` is set by the first CONNECT only, and the Server Keep Alive of
  a CONNACK does not change the timeout of the server that sends it.
* *Stream.* In bulk mode `read_buf_` survives a reconnection; a packet without payload at the
  end of a buffer is delivered with the next byte only; the followers of a failed bulk
  write succeed (`stream_write_packet.hpp:95`), and `storing_cbs_` keeps what was stored
  for it.
* *Topic aliases.* The table has each topic once: an application that gives a topic, which
  has an alias, the alias of another topic reaches the assertion at
  `topic_alias_send.hpp:57`, and without assertions the entry is lost.
* *Client.* With bulk writes the answer may arrive before `publish_op` has its entry, and is
  dropped (`client_publish.hpp:66`). The endpoint has released the id by then: the operation
  makes its entry all the same and waits, and the answer to a later operation with the
  same id may be handed to it. A SUBSCRIBE that waits when the connection ends does not
  complete, and its entry may meet a later operation with the same id. A waiting
  operation that is cancelled finds its entry with no packet and dereferences it
  (`client_start.hpp:85`). These set `lost`, or are excepted by the condition of the property.
* *Broker sessions.* `raced` is set by a session that is started over, ended or inherited while
  its endpoint is not closed; by the end of a connection that the session has left already; by
  a message that is given to a closed endpoint, or without an id, or between the CONNACK of a
  resume and the resend; by an endpoint that is destroyed with stored packets and was not
  closed; by a message given to an endpoint of another version than the session's; by a PUBREC
  with an error, which leaves its inflight message behind (`broker.hpp:1340`). Two take-overs
  of one client at once may reach the assertion at `broker.hpp:505`, and the handler dispatched
  at `broker.hpp:601` holds an iterator that an expiry in between invalidates. The bound of two
  connections keeps the first out.
* *Broker topics.* The timer of a retained message erases it without `mtx_retains_`
  (`broker.hpp:1259`). The turn of a shared group may go to a member whom `auth_sub_user` then
  denies, so that nobody gets the message. `clean()` keeps the handler that it has run
  (`session_state.hpp:360`): the handler of a session that started anew without a response
  topic runs again at its end, and as the numbers of removed rules are given again
  (`security.hpp:215`), it may remove the rule of another session's response topic.
* *Packets.* A CONNECT without password accepts trailing octets; a PUBLISH with QoS and packet
  id 0 is accepted; so is a subscription identifier longer than it needs to be. UNSUBSCRIBE and
  the SUBSCRIBE of v5.0 can be built without entries, which their parsers refuse. The parser of
  a v5.0 CONNACK takes its reason code without looking at the length (the model refuses a
  CONNACK that has none). PUBACK, PUBREC, PUBREL and PUBCOMP without properties are recognized
  by a remaining length of 3, whatever the width of the packet id (`v5_puback.ipp:265`).
* *Bench.* With several threads the phase counters are not synchronized. A CONNACK
  that refuses one client makes the tool wait for ever.

## Not modelled

* *Broker endpoint adapter*: forwards each call to the endpoint of one transport, no state.
* *Transport layers*: adapters to sockets, TLS and WebSocket; pure I/O. `Stream` sees
  one as bytes that arrive in order and may stop anywhere.
* *Command line tools* of broker and client: options and start up.
* *Packets*: the operators for output and comparison, `get_protocol_version`, which
  looks at the first bytes of a CONNECT for the broker's listener, and the text of errors.
* *Endpoint*: AUTH, beyond the client's `async_auth`. The server's own sends of
  acknowledgements are part of the peer in `Session`.
* *Client*: v3.1.1, which differs in the result of PUBLISH; the operations that only
  forward to the endpoint.
* *Broker*: options that leave CONNACK or PINGRESP out; a QoS 2 PUBLISH that is denied is in
  `BrokerTopics`, not in `BrokerSession`; the syntax of the security file; the timer by which a
  will itself expires (`session_state.hpp:463`), which can only take a will away.
* *Bench*: QoS 1 and 2, several threads, the printed report.

## Plan

The components are modelled; what is left is to prove more about them, in this order.

1. `BrokerSession`: `TakenOverOnce` and `KeptUntilAcknowledged`. Its handlers are operators on a
   record, as those of `KeepAlive` are, and the proof could be laid out as there: a lemma
   for each operator.
2. `ReceiveMaximum`: `SentInOrder`, with the folds followed as in `TopicAlias_proofs`.
