-------------------------------- MODULE Client --------------------------------
(***************************************************************************)
(* The client of v5.0: async_start, async_publish, async_subscribe,        *)
(* async_unsubscribe, async_disconnect, async_auth and async_recv on top   *)
(* of an endpoint.  An operation sends its packet; when the send has       *)
(* completed it enters a timer under its packet id in pid_tim_pv_res_col_  *)
(* and waits for it; recv_loop stores an answer in the entry of its packet *)
(* id and cancels the timer.  The endpoint runs every handler on one       *)
(* strand, in the order they became ready.  Its writing is that of module  *)
(* Stream, its sessions are those of module Session, both reduced to what  *)
(* the client sees of them.                                                *)
(***************************************************************************)
EXTENDS Integers, Sequences, SequencesExt

CONSTANTS
  N,          \* operations 1..N are called, in this order
  Kinds,      \* per operation, a subset of AllKinds
  Codes,      \* per operation, the reason codes of the answer to it: TRUE is an error
  MaxPid,     \* packet ids are 1..MaxPid; an operation without has 0
  Bulks,      \* set_bulk_write: the settings looked at
  MaxDowns,   \* bound on how often the connection goes down
  MaxMsgs,    \* bound on the PUBLISH packets of the broker
  MaxCancels  \* bound on cancellations by the application

Requesting == {"sub", "unsub"}
Publishing == {"pub1", "pub2"}
Answered == {"start"} \cup Requesting \cup Publishing
WithoutId == {"start", "pub0", "disconnect", "auth"}
AllKinds == {"invalid"} \cup WithoutId \cup Requesting \cup Publishing

ASSUME ClientAssumption ==
  /\ N \in Nat /\ MaxPid \in Nat /\ {MaxDowns, MaxMsgs, MaxCancels} \subseteq Nat
  /\ Kinds \in [1..N -> SUBSET AllKinds] /\ Codes \in [1..N -> Seq(BOOLEAN)]
  /\ Bulks \subseteq BOOLEAN

\* The packets are parsed before the client sees them: a SUBACK or UNSUBACK has a code.
ASSUME CodesAssumption == \A o \in 1..N : Codes[o] # <<>>

Ops == 1..N

VARIABLES
  op,        \* per operation: kind, packet id, phase, result, and the operation that the
             \* answer it completed with was for
  col,       \* pid_tim_pv_res_col_: [pid, op, got]; op stands for its timer
  strand,    \* the handlers that are ready, in order
  stream,    \* write_queue_: the operation at work or 0, those that wait, storing_cbs_,
             \* bulk_write_
  ep,        \* the endpoint: status_, the ids in use, the operations in the store, and
             \* whether there has been a session
  net,       \* the transport: "up" or "down"
  broker,    \* the packets the broker has and will answer: [type, op]
  inbox,     \* recv_queue_, recv_queue_inserted_, and the state of async_recv
  lost,      \* history: an answer that was waited for can no longer come, or came before
             \* its operation waited for it
  count      \* bounds: downs, messages, cancellations

vars == <<op, col, strand, stream, ep, net, broker, inbox, lost, count>>

Init ==
  /\ op = [o \in Ops |-> [kind |-> "", pid |-> 0, phase |-> "new", result |-> "", of |-> 0]]
  /\ col = {} /\ strand = <<>>
  /\ \E bulk \in Bulks : stream = [busy |-> 0, queue |-> <<>>, storing |-> {}, bulk |-> bulk]
  /\ ep = [status |-> "closed", used |-> {}, stored |-> {}, session |-> FALSE]
  /\ net = "down" /\ broker = {}
  /\ inbox = [queue |-> <<>>, inserted |-> FALSE, recv |-> "idle"]
  /\ lost = FALSE
  /\ count = [downs |-> 0, msgs |-> 0, cancels |-> 0]
-------------------------------------------------------------------------------
Event(type, o) == [type |-> type, op |-> o, ok |-> TRUE]
Finish(ops, o, result) == [ops EXCEPT ![o].phase = "done", ![o].result = result]
Running(kinds) == {o \in Ops : op[o].kind \in kinds /\ op[o].phase \in {"sending", "waiting"}}

\* The answers an entry keeps in pv.
Connacks == {"connack", "connack_present", "connack_refused"}
Replies == Connacks \cup {"suback", "unsuback"}

\* Mutants: async_recv does not reset the flag; the search for an entry takes the next
\* one; a PUBREC with an error does not end the operation.
TakeKeepsFlag(box) ==
  IF box.queue = <<>> THEN [box EXCEPT !.recv = "waiting"]
  ELSE [box EXCEPT !.queue = Tail(@)]
LowerBound(pid) ==
  {e \in col : e.pid >= pid /\ \A f \in col : f.pid >= pid => e.pid <= f.pid}
EndsWithFinal(type) == type \in Replies \cup {"puback", "pubcomp"}

\* The timer of an operation is entered, unless an entry has the packet id already.
Enter(ops, o) ==
  IF \E e \in col : e.pid = ops[o].pid THEN col
  ELSE col \cup {[pid |-> ops[o].pid, op |-> o, got |-> {}]}
SentIsAll(ops, o) == op' = Finish(ops, o, "sent") /\ col' = col
Waits(ops, o) == op' = [ops EXCEPT ![o].phase = "waiting"] /\ col' = Enter(ops, o)

\* The send has completed: the operation waits for its timer or it completes.
SentStart(ops, o) == ops[o].kind = "start" /\ Waits(ops, o)
SentSubscribe(ops, o) == ops[o].kind = "sub" /\ Waits(ops, o)
SentUnsubscribe(ops, o) == ops[o].kind = "unsub" /\ Waits(ops, o)
SentPublish(ops, o) ==
  \/ ops[o].kind = "pub0" /\ SentIsAll(ops, o)
  \/ ops[o].kind \in Publishing /\ Waits(ops, o)
SentDisconnect(ops, o) == ops[o].kind = "disconnect" /\ SentIsAll(ops, o)
SentAuth(ops, o) == ops[o].kind = "auth" /\ SentIsAll(ops, o)
Sent(ops, o) ==
  \/ SentStart(ops, o) \/ SentSubscribe(ops, o) \/ SentUnsubscribe(ops, o)
  \/ SentPublish(ops, o) \/ SentDisconnect(ops, o) \/ SentAuth(ops, o)

\* It has failed: the id of SUBSCRIBE or UNSUBSCRIBE is released, a stored PUBLISH keeps its id.
Failed(o) ==
  /\ op' = Finish(op, o, "failed") /\ col' = col
  /\ ep' = IF op[o].kind \in Requesting THEN [ep EXCEPT !.used = @ \ {op[o].pid}] ELSE ep

\* The bytes of operations are written.  The completion is ready when the transport has
\* taken the last of them, which is the earliest moment the broker can have them.
Written(o) == [type |-> "written", op |-> o, ok |-> net = "up"]
Reached(ops, os) ==
  broker \cup {[type |-> ops[o].kind, op |-> o] :
                 o \in {p \in os : net = "up" /\ ops[p].kind \in Answered}}

\* async_write_packet: at once when nothing is being written, in the write queue else.
Send(ops, o) ==
  IF stream.busy = 0
  THEN /\ stream' = [stream EXCEPT !.busy = o]
       /\ strand' = Append(strand, Written(o)) /\ broker' = Reached(ops, {o})
  ELSE /\ stream' = [stream EXCEPT !.queue = Append(@, o),
                                   !.storing = IF stream.bulk THEN @ \cup {o} ELSE @]
       /\ UNCHANGED <<strand, broker>>
-------------------------------------------------------------------------------
\* The operations are called in their order; those with a packet id get the first free one.
Free == (1..MaxPid) \ ep.used
Begin(o, kind, pid) ==
  /\ kind \in Kinds[o] /\ op[o].phase = "new" /\ \A p \in 1..(o - 1) : op[p].phase # "new"
  /\ IF kind \in WithoutId THEN pid = 0
     ELSE pid \in Free /\ \A p \in Free : pid <= p
Begun(o, kind, pid) ==
  [op EXCEPT ![o] = [@ EXCEPT !.kind = kind, !.pid = pid, !.phase = "sending"]]
Holding(o, kind, pid) ==
  [ep EXCEPT !.used = @ \cup ({pid} \ {0}),
             !.stored = @ \cup {s \in {[type |-> kind, op |-> o]} : kind \in Publishing}]

\* The application connects the transport once the endpoint is closed.
Connect ==
  /\ net = "down" /\ ep.status = "closed" /\ strand = <<>> /\ net' = "up"
  /\ UNCHANGED <<op, col, strand, stream, ep, broker, inbox, lost, count>>

\* async_start: CONNECT, that keeps the session.
Start(o) ==
  /\ Begin(o, "start", 0) /\ ep.status = "closed" /\ net = "up"
  /\ ep' = [ep EXCEPT !.status = "connecting"]
  /\ op' = Begun(o, "start", 0) /\ Send(op', o)
  /\ UNCHANGED <<col, net, inbox, lost, count>>

\* async_publish, async_subscribe and async_unsubscribe.
Call(o, kind, pid) ==
  /\ Begin(o, kind, pid) /\ ep.status = "connected"
  /\ op' = Begun(o, kind, pid) /\ Send(op', o) /\ ep' = Holding(o, kind, pid)
  /\ UNCHANGED <<col, net, inbox, lost, count>>
Publish(o, kind, pid) == kind \in {"pub0"} \cup Publishing /\ Call(o, kind, pid)
Subscribe(o, pid) == Call(o, "sub", pid)
Unsubscribe(o, pid) == Call(o, "unsub", pid)

\* async_auth, and async_disconnect, after which nothing else is sent.
Auth(o) == Call(o, "auth", 0)
Disconnect(o) ==
  /\ Begin(o, "disconnect", 0) /\ ep.status = "connected"
  /\ op' = Begun(o, "disconnect", 0) /\ Send(op', o)
  /\ ep' = [ep EXCEPT !.status = "disconnecting"]
  /\ UNCHANGED <<col, net, inbox, lost, count>>

\* A call with arguments no packet can be made of: it completes with the error that the
\* constructor throws, and the packet id stays with the application.
Invalid(o, pid) ==
  /\ Begin(o, "invalid", pid)
  /\ op' = Finish(Begun(o, "invalid", pid), o, "invalid") /\ ep' = Holding(o, "invalid", pid)
  /\ UNCHANGED <<col, strand, stream, net, broker, inbox, lost, count>>

\* async_publish without a connection: stored, the send completes with success.
CallOffline(o, kind, pid) ==
  /\ kind \in Publishing /\ Begin(o, kind, pid) /\ ep.status # "connected" /\ ep.session
  /\ Sent(Begun(o, kind, pid), o) /\ ep' = Holding(o, kind, pid)
  /\ UNCHANGED <<strand, stream, net, broker, inbox, lost, count>>

\* Per-operation cancellation of an operation that waits: its timer is cancelled.
Cancel(o) ==
  /\ op[o].phase = "waiting" /\ count.cancels < MaxCancels
  /\ op' = [op EXCEPT ![o].phase = "woken"] /\ strand' = Append(strand, Event("timer", o))
  /\ count' = [count EXCEPT !.cancels = @ + 1]
  /\ UNCHANGED <<col, stream, ep, net, broker, inbox, lost>>

\* async_recv, one at a time.
Take(box) ==
  IF box.queue = <<>> THEN [box EXCEPT !.recv = "waiting", !.inserted = FALSE]
  ELSE [box EXCEPT !.queue = Tail(@)]
Recv ==
  /\ inbox.recv = "idle" /\ inbox' = Take(inbox)
  /\ UNCHANGED <<op, col, strand, stream, ep, net, broker, lost, count>>

CancelRecv ==
  /\ inbox.recv = "waiting" /\ count.cancels < MaxCancels
  /\ inbox' = [inbox EXCEPT !.recv = "woken"] /\ strand' = Append(strand, Event("wake", 0))
  /\ count' = [count EXCEPT !.cancels = @ + 1]
  /\ UNCHANGED <<op, col, stream, ep, net, broker, lost>>
-------------------------------------------------------------------------------
\* The broker answers a packet it has, in any order.
Answers(type) ==
  CASE type = "start" -> Connacks
    [] type = "sub" -> {"suback"} [] type = "unsub" -> {"unsuback"}
    [] type = "pub1" -> {"puback"} [] type = "pub2" -> {"pubrec", "pubrec_error"}
    [] type = "pubrel" -> {"pubcomp"}
Answer(b, type) ==
  /\ net = "up" /\ b \in broker /\ type \in Answers(b.type)
  /\ type = "connack_present" => ep.session
  /\ broker' = broker \ {b} /\ strand' = Append(strand, Event(type, b.op))
  /\ UNCHANGED <<op, col, stream, ep, net, inbox, lost, count>>

\* It sends a PUBLISH of its own.
Deliver ==
  /\ net = "up" /\ ep.status = "connected" /\ count.msgs < MaxMsgs
  /\ count' = [count EXCEPT !.msgs = @ + 1]
  /\ strand' = Append(strand, Event("publish", 0))
  /\ UNCHANGED <<op, col, stream, ep, net, broker, inbox, lost>>

\* The connection goes down.  No one answers CONNECT, SUBSCRIBE and
\* UNSUBSCRIBE any more.
Down ==
  /\ net = "up" /\ count.downs < MaxDowns
  /\ net' = "down" /\ broker' = {}
  /\ strand' = Append(strand, Event("error", 0))
  /\ lost' = (lost \/ Running({"start"} \cup Requesting) # {})
  /\ count' = [count EXCEPT !.downs = @ + 1]
  /\ UNCHANGED <<op, col, stream, ep, inbox>>
-------------------------------------------------------------------------------
Ready(types) == strand # <<>> /\ Head(strand).type \in types

\* A write has completed; the write queue is posted.
RunWritten ==
  /\ Ready({"written"}) /\ strand' = Append(Tail(strand), Event("poll", 0))
  /\ LET e == Head(strand) IN
       IF e.ok THEN Sent(op, e.op) /\ ep' = ep ELSE Failed(e.op)
  /\ UNCHANGED <<stream, net, broker, inbox, lost, count>>

\* The next of the write queue runs: there is none, or the transport is closed and it
\* fails, or its packet went out with an earlier bulk write, or packets are written.
RunPollNone ==
  /\ Ready({"poll"}) /\ stream.queue = <<>>
  /\ stream' = [stream EXCEPT !.busy = 0] /\ strand' = Tail(strand)
  /\ UNCHANGED <<op, col, ep, net, broker, inbox, lost, count>>

Polled == /\ Ready({"poll"}) /\ stream.queue # <<>>
          /\ UNCHANGED <<net, inbox, lost, count>>
Batch == IF stream.bulk THEN stream.storing ELSE {Head(stream.queue)}
Working == [stream EXCEPT !.busy = Head(stream.queue), !.queue = Tail(@), !.storing = {}]
RunPollClosed ==
  /\ Polled /\ ep.status = "closed" /\ Failed(Head(stream.queue))
  /\ stream' = Working /\ strand' = Append(Tail(strand), Event("poll", 0)) /\ UNCHANGED broker
RunPollWritten ==
  /\ Polled /\ ep.status # "closed" /\ Batch = {} /\ Sent(op, Head(stream.queue))
  /\ stream' = Working /\ strand' = Append(Tail(strand), Event("poll", 0))
  /\ UNCHANGED <<ep, broker>>
RunPollWrite ==
  /\ Polled /\ ep.status # "closed" /\ Batch # {} /\ stream' = Working
  /\ strand' = Append(Tail(strand), Written(Head(stream.queue)))
  /\ broker' = Reached(op, Batch)
  /\ UNCHANGED <<op, col, ep>>

\* The answers that end an operation and so cancel its timer.
Ends(type) == type \in Replies \cup {"puback", "pubrec_error", "pubcomp"}

\* An entry has room for one CONNACK, SUBACK or UNSUBACK (pv) and for one PUBACK, PUBREC
\* and PUBCOMP (res) each.
Stored(got, a) ==
  {g \in got : ~(g.type = a.type \/ {g.type, a.type} \subseteq Replies)} \cup {a}

Entry(pid) == {e \in col : e.pid = pid}

\* recv_loop: the answer goes to the entry of its packet id.
Notify(a) ==
  LET hit == Entry(op[a.op].pid)
      woken == {e.op : e \in {f \in hit : Ends(a.type) /\ op[f.op].phase = "waiting"}}
  IN /\ col' = (col \ hit) \cup {[e EXCEPT !.got = Stored(@, a)] : e \in hit}
     /\ op' = [o \in Ops |-> IF o \in woken THEN [op[o] EXCEPT !.phase = "woken"] ELSE op[o]]
     /\ strand' = Tail(strand) \o SetToSeq({Event("timer", o) : o \in woken})

\* A packet that went out with the bulk write of another can be answered before the turn
\* of its own operation comes in the write queue.
TooEarly(a) == op[a.op].phase = "sending"

\* CONNACK.  With session present the stored packets are sent again; without, the ids and
\* the store are cleared, and whoever waits for the answer to a PUBLISH waits in vain.
RunConnack ==
  /\ Ready({"connack", "connack_present"}) /\ Notify(Head(strand))
  /\ IF Head(strand).type = "connack_present"
     THEN /\ broker' = broker \cup {s \in ep.stored : net = "up"}
          /\ lost' = (lost \/ TooEarly(Head(strand)))
          /\ ep' = [ep EXCEPT !.status = "connected"]
     ELSE /\ broker' = broker
          /\ lost' = (lost \/ TooEarly(Head(strand)) \/ Running(Publishing) # {})
          /\ ep' = [status |-> "connected", used |-> {}, stored |-> {}, session |-> TRUE]
  /\ UNCHANGED <<stream, net, inbox, count>>

\* SUBACK, PUBACK, PUBCOMP, or PUBREC with an error: the endpoint releases the id.  At a
\* CONNACK that refuses the connection, which has none, it does nothing.
RunFinal ==
  /\ Ready({"suback", "unsuback", "puback", "pubrec_error", "pubcomp", "connack_refused"})
  /\ Notify(Head(strand))
  /\ ep' = [ep EXCEPT !.used = @ \ {op[Head(strand).op].pid},
                      !.stored = {s \in @ : s.op # Head(strand).op}]
  /\ lost' = (lost \/ TooEarly(Head(strand)))
  /\ UNCHANGED <<stream, net, broker, inbox, count>>

\* PUBREC: the endpoint stores and sends PUBREL.
RunPubrec ==
  LET pubrel == [type |-> "pubrel", op |-> Head(strand).op] IN
  /\ Ready({"pubrec"}) /\ Notify(Head(strand))
  /\ ep' = [ep EXCEPT !.stored = {s \in @ : s.op # pubrel.op} \cup {pubrel}]
  /\ broker' = broker \cup {p \in {pubrel} : net = "up"}
  /\ lost' = (lost \/ TooEarly(Head(strand)))
  /\ UNCHANGED <<stream, net, inbox, count>>

\* PUBLISH, or the error that ends recv_loop: given to async_recv, or kept.  The endpoint
\* has closed the stream by then, and close clears storing_cbs_.
Put(what) ==
  /\ inbox' = [queue |-> Append(inbox.queue, what), inserted |-> TRUE,
               recv |-> IF inbox.recv = "waiting" THEN "woken" ELSE inbox.recv]
  /\ strand' = Tail(strand) \o
               (IF inbox.recv = "waiting" THEN <<Event("wake", 0)>> ELSE <<>>)
RunPublish ==
  /\ Ready({"publish"}) /\ Put("publish")
  /\ UNCHANGED <<op, col, stream, ep, net, broker, lost, count>>
RunError ==
  /\ Ready({"error"}) /\ Put("error") /\ ep' = [ep EXCEPT !.status = "closed"]
  /\ stream' = [stream EXCEPT !.storing = {}]
  /\ UNCHANGED <<op, col, net, broker, lost, count>>

\* A timer was cancelled: its operation completes with what its entry has, an answer and
\* its codes.  With nothing in it the code reads an empty optional ("empty").
One(codes) == IF codes[1] THEN "error" ELSE "success"
Many(codes) ==
  CASE \A i \in DOMAIN codes : codes[i] -> "all_error_detected"
    [] \A i \in DOMAIN codes : ~codes[i] -> "success"
    [] OTHER -> "partial_error_detected"
OfList(codes) == CASE codes = <<>> -> "protocol_error"
                   [] Len(codes) = 1 -> One(codes)
                   [] Len(codes) > 1 -> Many(codes)

Reply(got, o, result, types) ==
  LET pv == {a \in got : a.type \in Replies}
      a == CHOOSE b \in pv : TRUE
  IN  CASE pv = {} -> Finish(op, o, "empty")
        [] pv # {} /\ a.type \in types -> [Finish(op, o, result) EXCEPT ![o].of = a.op]
        [] OTHER -> [Finish(op, o, "protocol_error") EXCEPT ![o].of = a.op]

StartEnds(got, o) ==
  /\ op[o].kind = "start"
  /\ op' = Reply(got, o, One(<<\E a \in got : a.type = "connack_refused">>), Connacks)
SubscribeEnds(got, o) ==
  op[o].kind = "sub" /\ op' = Reply(got, o, OfList(Codes[o]), {"suback"})
UnsubscribeEnds(got, o) ==
  op[o].kind = "unsub" /\ op' = Reply(got, o, OfList(Codes[o]), {"unsuback"})

\* PUBACK, else PUBREC with an error, else PUBREC and PUBCOMP, with the code each has.
PublishEnds(got, o) ==
  LET of(type) == {a \in got : a.type = type}
      end == IF of("puback") # {} THEN of("puback")
             ELSE IF of("pubrec_error") # {} THEN of("pubrec_error")
             ELSE IF of("pubrec") # {} THEN of("pubcomp") ELSE {}
  IN  /\ op[o].kind \in Publishing
      /\ op' = IF end = {} THEN Finish(op, o, "protocol_error")
               ELSE LET a == CHOOSE b \in end : TRUE IN
                    [Finish(op, o, IF a.type = "pubrec_error" THEN "error" ELSE One(Codes[a.op]))
                       EXCEPT ![o].of = a.op]

RunTimer ==
  LET o == Head(strand).op
      mine == {e \in col : e.op = o}
      got == UNION {e.got : e \in mine}
  IN /\ Ready({"timer"}) /\ strand' = Tail(strand) /\ col' = col \ mine
     /\ \/ mine = {} /\ op' = Finish(op, o, "aborted")
        \/ mine # {} /\ \/ StartEnds(got, o) \/ SubscribeEnds(got, o)
                        \/ UnsubscribeEnds(got, o) \/ PublishEnds(got, o)
     /\ UNCHANGED <<stream, ep, net, broker, inbox, lost, count>>

\* The timer of async_recv was cancelled.
RunWake ==
  /\ Ready({"wake"}) /\ strand' = Tail(strand)
  /\ inbox' = [inbox EXCEPT !.recv = "idle", !.queue = IF inbox.inserted THEN Tail(@) ELSE @]
  /\ UNCHANGED <<op, col, stream, ep, net, broker, lost, count>>
-------------------------------------------------------------------------------
Strand ==
  \/ RunWritten \/ RunPollNone \/ RunPollClosed \/ RunPollWritten \/ RunPollWrite
  \/ RunConnack \/ RunFinal \/ RunPubrec \/ RunPublish \/ RunError \/ RunTimer \/ RunWake
Broker ==
  \/ Deliver
  \/ \E b \in broker : \E type \in Answers(b.type) : Answer(b, type)

Next ==
  \/ \E o \in Ops :
       \/ Start(o) \/ Cancel(o) \/ Auth(o) \/ Disconnect(o)
       \/ \E pid \in 0..MaxPid :
            \/ Subscribe(o, pid) \/ Unsubscribe(o, pid) \/ Invalid(o, pid)
            \/ \E kind \in Kinds[o] : Publish(o, kind, pid) \/ CallOffline(o, kind, pid)
  \/ Connect \/ Recv \/ CancelRecv \/ Strand \/ Broker \/ Down

Spec == Init /\ [][Next]_vars

\* The executor runs what is ready, and the broker answers.
FairSpec == Spec /\ WF_vars(Strand) /\ WF_vars(Broker)
-------------------------------------------------------------------------------
\* An entry is of an operation that has not completed.
TypeOK ==
  /\ \A e \in col : op[e.op].phase \in {"waiting", "woken"} /\ e.pid = op[e.op].pid
  /\ ep.used \subseteq 1..MaxPid /\ {s.op : s \in ep.stored} \subseteq Ops
  /\ inbox.recv \in {"idle", "waiting", "woken"} /\ net \in {"up", "down"}

\* What async_recv waits for is not in the queue, and when it is woken for a packet the
\* packet is there: no packet is left behind, and front() is not called on an empty queue.
RecvWakes ==
  /\ inbox.recv = "waiting" => inbox.queue = <<>>
  /\ inbox.recv = "woken" /\ inbox.inserted => inbox.queue # <<>>

\* The answer an operation completes with is the answer to its own packet, as long as no
\* answer that was waited for got lost with a connection or a session, and none came before
\* its operation waited for it; and it is an answer of the type that is expected.
AnswerIsOwn ==
  ~lost => \A o \in Ops : op[o].of # 0 => op[o].of = o /\ op[o].result # "protocol_error"

\* Under the same condition, when the client stays connected and writes its packets one by
\* one, every operation completes.
EveryOperationCompletes ==
  <>[](net = "up" /\ ep.status = "connected") =>
    \A o \in Ops :
      ~stream.bulk /\ op[o].phase \in {"sending", "waiting"} ~> op[o].phase = "done" \/ lost

===============================================================================
