----------------------------- MODULE Client_proofs -----------------------------
(***************************************************************************)
(* The client, for every number of operations and packet ids, in both      *)
(* write modes, with any number of connections and cancellations: an entry *)
(* is of an operation that has not completed, async_recv is woken exactly  *)
(* when there is something for it, and an operation completes with the     *)
(* answer to its own packet.                                               *)
(***************************************************************************)
EXTENDS Client, FiniteSetTheorems, TLAPS

\* The ranges of what the variables hold.
Answering ==
  {"connack", "connack_present", "connack_refused", "suback", "unsuback", "puback", "pubrec", "pubrec_error",
   "pubcomp"}
Events == [type : Answering \cup {"written", "poll", "timer", "publish", "error", "wake"},
           op : Ops \cup {0}, ok : BOOLEAN]
Results ==
  {"", "sent", "failed", "invalid", "aborted", "empty", "protocol_error", "error", "success",
   "all_error_detected", "partial_error_detected"}
Calls == [kind : AllKinds \cup {""}, pid : 0..MaxPid,
          phase : {"new", "sending", "waiting", "woken", "done"},
          result : Results, of : Ops \cup {0}]
Held == [type : Publishing \cup {"pubrel"}, op : Ops]
Taken == [type : Answered \cup {"pubrel"}, op : Ops]

\* The ranges of the variables.
Typed ==
  /\ op \in [Ops -> Calls]
  /\ col \subseteq [pid : 0..MaxPid, op : Ops, got : SUBSET Events]
  /\ strand \in Seq(Events)
  /\ stream \in [busy : Ops \cup {0}, queue : Seq(Ops), storing : SUBSET Ops, bulk : BOOLEAN]
  /\ ep \in [status : {"closed", "connecting", "connected", "disconnecting"},
             used : SUBSET (1..MaxPid), stored : SUBSET Held, session : BOOLEAN]
  /\ net \in {"up", "down"} /\ lost \in BOOLEAN /\ broker \subseteq Taken
  /\ inbox \in [queue : Seq({"publish", "error"}), inserted : BOOLEAN,
                recv : {"idle", "waiting", "woken"}]
-------------------------------------------------------------------------------
\* The sequence of a set with at most one element.
LEMMA Few == SetToSeq({}) = <<>> /\ \A x : SetToSeq({x}) = <<x>>
  <1>1. SetToSeq({}) = <<>>
    <2>1. Cardinality({}) = 0
      BY FS_EmptySet
    <2>2. 1..0 = {} /\ <<>> \in Seq({}) /\ DOMAIN <<>> = {}
      OBVIOUS
    <2>3. IsInjective(<<>>)
      BY <2>2 DEF IsInjective
    <2>4. <<>> \in [1..0 -> {}]
      BY <2>2
    <2>5. \A f \in [1..0 -> {}] : f = <<>>
      BY <2>2, <2>4
    <2>6. SetToSeq({}) = CHOOSE f \in [1..0 -> {}] : IsInjective(f)
      BY <2>1 DEF SetToSeq
    <2> QED BY <2>3, <2>4, <2>5, <2>6
  <1>2. ASSUME NEW x PROVE SetToSeq({x}) = <<x>>
    <2>1. Cardinality({x}) = 1
      BY FS_Singleton
    <2>2. 1..1 = {1} /\ DOMAIN <<x>> = {1} /\ <<x>>[1] = x
      OBVIOUS
    <2>3. <<x>> \in [1..1 -> {x}] /\ IsInjective(<<x>>)
      BY <2>2 DEF IsInjective
    <2>4. \A f \in [1..1 -> {x}] : f = <<x>>
      BY <2>2
    <2>5. SetToSeq({x}) = CHOOSE f \in [1..1 -> {x}] : IsInjective(f)
      BY <2>1 DEF SetToSeq
    <2> QED BY <2>3, <2>4, <2>5
  <1> QED BY <1>1, <1>2

\* The head of the strand runs, and an event becomes ready.
LEMMA Popped ==
  ASSUME NEW s \in Seq(Events), s # <<>>
  PROVE  /\ Head(s) = s[1] /\ Head(s) \in Events /\ Tail(s) \in Seq(Events)
         /\ Len(s) \in Nat /\ Len(s) >= 1 /\ Len(Tail(s)) = Len(s) - 1
         /\ \A i \in 1..(Len(s) - 1) : Tail(s)[i] = s[i + 1]
  OBVIOUS
\* An event at the end of a sequence leaves the others where they are.
LEMMA Pushed ==
  ASSUME NEW s \in Seq(Events), NEW e \in Events
  PROVE  /\ Append(s, e) \in Seq(Events) /\ Append(s, e) = s \o <<e>> /\ s \o <<>> = s
         /\ Len(s) \in Nat /\ Len(Append(s, e)) = Len(s) + 1
         /\ Append(s, e)[Len(s) + 1] = e
         /\ \A i \in 1..Len(s) : Append(s, e)[i] = s[i]
  OBVIOUS

\* d events leave at the head of the strand, and n come at its end, one at most.
Moves(d, n) ==
  /\ Len(strand) \in Nat /\ d <= Len(strand) /\ Len(strand') = Len(strand) - d + n
  /\ \A i \in 1..(Len(strand) - d) : strand'[i] = strand[i + d]
Added == strand'[Len(strand')]

\* The three ways the strand moves: one event becomes ready, the head leaves, or both.
LEMMA Appends ==
  ASSUME strand \in Seq(Events), NEW e \in Events, strand' = Append(strand, e)
  PROVE  Moves(0, 1) /\ Added = e /\ strand' \in Seq(Events)
  BY Pushed DEF Moves, Added
LEMMA Drops ==
  ASSUME strand \in Seq(Events), strand # <<>>, strand' = Tail(strand)
  PROVE  Moves(1, 0) /\ strand' \in Seq(Events) /\ Head(strand) = strand[1] /\ strand[1] \in Events
  BY Popped DEF Moves
LEMMA DropsAppends ==
  ASSUME strand \in Seq(Events), strand # <<>>, NEW e \in Events,
         strand' = Append(Tail(strand), e)
  PROVE  /\ Moves(1, 1) /\ Added = e /\ strand' \in Seq(Events)
         /\ Head(strand) = strand[1] /\ strand[1] \in Events
  <1> DEFINE t == Tail(strand)
  <1>1. t \in Seq(Events) /\ Len(t) = Len(strand) - 1 /\ Len(strand) \in Nat /\ Len(strand) >= 1
        /\ \A i \in 1..(Len(strand) - 1) : t[i] = strand[i + 1]
    BY Popped
  <1>2. /\ Append(t, e) \in Seq(Events) /\ Len(Append(t, e)) = Len(t) + 1
        /\ Append(t, e)[Len(t) + 1] = e /\ \A i \in 1..Len(t) : Append(t, e)[i] = t[i]
    BY <1>1, Pushed
  <1>3. Head(strand) = strand[1] /\ strand[1] \in Events
    BY Popped
  <1> HIDE DEF t
  <1>4. strand' = Append(t, e)
    BY DEF t
  <1> QED BY <1>1, <1>2, <1>3, <1>4 DEF Moves, Added
-------------------------------------------------------------------------------
\* An entry has the packet id of an operation that waits or has just been woken; no two
\* entries have the same.
Entries ==
  /\ \A e \in col : op[e.op].phase \in {"waiting", "woken"} /\ e.pid = op[e.op].pid
  /\ \A e, f \in col : e.pid = f.pid => e = f

\* The event is one of the strand, at its place.
Is(i, types) == i \in 1..Len(strand) /\ strand[i].type \in types
Of(i, types, o) == Is(i, types) /\ strand[i].op = o

\* async_recv waits for what is not there, and its timer has been cancelled once exactly
\* when it is woken; if for a packet, the packet is there.
Wakes ==
  /\ inbox.recv = "waiting" => inbox.queue = <<>> /\ ~inbox.inserted
  /\ inbox.recv = "woken" /\ inbox.inserted => inbox.queue # <<>>
  /\ \A i \in 1..Len(strand) : Is(i, {"wake"}) => inbox.recv = "woken"
  /\ inbox.recv = "woken" => \E i \in 1..Len(strand) : Is(i, {"wake"})
  /\ \A i, j \in 1..Len(strand) : Is(i, {"wake"}) /\ Is(j, {"wake"}) => i = j

\* What the client remembers of its operations.
Progress ==
  \A o \in Ops :
    /\ op[o].phase = "new" <=> op[o].kind = ""
    /\ op[o].phase = "new" => op[o].pid = 0
    /\ op[o].phase # "new" => (op[o].pid = 0 <=> op[o].kind \in WithoutId)
    /\ op[o].phase # "done" => op[o].of = 0
    /\ op[o].kind = "invalid" => op[o].phase = "done"
    /\ op[o].phase \in {"waiting", "woken"} => op[o].kind \in Answered

\* The answers to a packet, by the kind of its operation.
Expected(kind) ==
  CASE kind = "start" -> Connacks
    [] kind = "sub" -> {"suback"} [] kind = "unsub" -> {"unsuback"}
    [] kind = "pub1" -> {"puback"} [] kind = "pub2" -> {"pubrec", "pubrec_error", "pubcomp"}
    [] OTHER -> {}

\* Where a packet is on its way: the broker has it, or its answer is in the strand.
InBroker(o) == \E b \in broker : b.op = o
InStrand(o) == \E i \in 1..Len(strand) : Of(i, Answering, o)
Claimed(o) == InBroker(o) \/ InStrand(o)
IsStored(o) == \E s \in ep.stored : s.op = o
HasEntry(o) == \E e \in col : e.op = o
Queued(o) == \E i \in 1..Len(stream.queue) : stream.queue[i] = o
Unwritten(o) == IF stream.bulk THEN o \in stream.storing ELSE Queued(o)

\* A packet is answered once: it is written only where it has not been, and it is at one
\* place on its way.
Claims ==
  /\ \A b \in broker : b.type = op[b.op].kind \/ (b.type = "pubrel" /\ op[b.op].kind = "pub2")
  /\ \A i \in 1..Len(strand) : Is(i, Answering) =>
       strand[i].op \in Ops /\ strand[i].type \in Expected(op[strand[i].op].kind)
  /\ \A s \in ep.stored : /\ op[s.op].kind \in Publishing
                          /\ s.type = op[s.op].kind \/ (s.type = "pubrel" /\ op[s.op].kind = "pub2")
  /\ \A b, c \in broker : b.op = c.op => b = c
  /\ \A i, j \in 1..Len(strand) :
       Is(i, Answering) /\ Is(j, Answering) /\ strand[i].op = strand[j].op => i = j
  /\ \A b \in broker : ~InStrand(b.op)
  /\ \A s, t \in ep.stored : s.op = t.op => s = t
  /\ \A o \in Ops : Unwritten(o) => ~Claimed(o)

\* The timer of an operation has been cancelled once exactly when it is woken.
Timers ==
  /\ \A i \in 1..Len(strand) : Is(i, {"timer"}) =>
       strand[i].op \in Ops /\ op[strand[i].op].phase = "woken"
  /\ \A o \in Ops : op[o].phase = "woken" => \E i \in 1..Len(strand) : Of(i, {"timer"}, o)
  /\ \A i, j \in 1..Len(strand) :
       Is(i, {"timer"}) /\ Is(j, {"timer"}) /\ strand[i].op = strand[j].op => i = j

\* One write at a time is on its way; the operations that are sending are the one at work,
\* until its completion runs, and those in the queue.
Writes ==
  /\ \A i, j \in 1..Len(strand) : Is(i, {"written", "poll"}) /\ Is(j, {"written", "poll"}) => i = j
  /\ stream.busy # 0 => \E i \in 1..Len(strand) : Is(i, {"written", "poll"})
  /\ stream.busy = 0 => stream.queue = <<>> /\ \A i \in 1..Len(strand) : ~Is(i, {"written", "poll"})
  /\ \A i \in 1..Len(strand) : Is(i, {"written"}) =>
       strand[i].op \in Ops /\ op[strand[i].op].phase = "sending" /\ ~Queued(strand[i].op)
  /\ \A i \in 1..Len(stream.queue) : op[stream.queue[i]].phase = "sending"
  /\ \A i, j \in 1..Len(stream.queue) : stream.queue[i] = stream.queue[j] => i = j
  /\ \A o \in Ops : op[o].phase = "sending" =>
       Queued(o) \/ \E i \in 1..Len(strand) : Of(i, {"written"}, o)
  /\ \A o \in stream.storing : Queued(o)
  /\ ~stream.bulk => stream.storing = {}
-------------------------------------------------------------------------------
\* How a packet is sent: at once, or at the end of the write queue.
LEMMA Sends ==
  ASSUME Typed, NEW ops, NEW o \in Ops, Send(ops, o)
  PROVE  \/ /\ stream.busy = 0 /\ stream' = [stream EXCEPT !.busy = o]
            /\ Moves(0, 1) /\ Added = Written(o) /\ strand' \in Seq(Events)
            /\ broker' = Reached(ops, {o})
         \/ /\ stream.busy # 0 /\ strand' = strand /\ broker' = broker
            /\ stream' = [stream EXCEPT !.queue = Append(@, o),
                                        !.storing = IF stream.bulk THEN @ \cup {o} ELSE @]
  <1>1. Written(o) \in Events
    BY DEF Written, Events
  <1> QED BY <1>1, Appends DEF Send, Typed

\* What the completion of a send does.
LEMMA Completes ==
  ASSUME NEW ops, NEW o, Sent(ops, o)
  PROVE  \/ /\ ops[o].kind \in {"pub0", "disconnect", "auth"}
            /\ op' = Finish(ops, o, "sent") /\ col' = col
         \/ /\ ops[o].kind \in Answered
            /\ op' = [ops EXCEPT ![o].phase = "waiting"] /\ col' = Enter(ops, o)
  BY DEF Sent, SentStart, SentSubscribe, SentUnsubscribe, SentPublish, SentDisconnect, SentAuth,
         SentIsAll, Waits, Answered, Requesting, Publishing

\* The entries keep their operations; only those of the answer's packet id get it.
Filled(a) ==
  /\ \A f \in col' : \E e \in col :
       /\ f.pid = e.pid /\ f.op = e.op
       /\ f.got \subseteq e.got \cup {b \in {a} : e.pid = op[a.op].pid}
  /\ \A e \in col : \E f \in col' : f.pid = e.pid /\ f.op = e.op
  /\ \A e, f \in col' : e.pid = f.pid => e = f
  /\ col' \subseteq [pid : 0..MaxPid, op : Ops, got : SUBSET Events]

\* What recv_loop does with an answer: it wakes one operation, or none.
Woke(a) ==
  \/ /\ Moves(1, 0) /\ op' = op
     /\ \A e \in col : e.pid = op[a.op].pid /\ Ends(a.type) => op[e.op].phase # "waiting"
  \/ \E e \in col :
       /\ e.pid = op[a.op].pid /\ Ends(a.type) /\ op[e.op].phase = "waiting"
       /\ Moves(1, 1) /\ Added = Event("timer", e.op)
       /\ op' = [op EXCEPT ![e.op].phase = "woken"]

\* recv_loop keeps the entries, stores the answer in those of its packet id, and wakes the
\* operation that waits there if the answer ends it.
LEMMA Notifies ==
  ASSUME Typed, Entries, Claims, NEW types \in SUBSET Answering, Ready(types), Notify(Head(strand))
  PROVE  /\ strand[1] \in Events /\ Is(1, types) /\ Of(1, Answering, strand[1].op)
         /\ strand[1].op \in Ops /\ Head(strand) = strand[1] /\ 1 \in 1..Len(strand)
         /\ Filled(strand[1]) /\ Woke(strand[1]) /\ strand' \in Seq(Events)
  <1> DEFINE a == strand[1]
             hit == Entry(op[a.op].pid)
             woken == {e.op : e \in {f \in hit : Ends(a.type) /\ op[f.op].phase = "waiting"}}
  <1>1. strand \in Seq(Events) /\ strand # <<>> /\ a.type \in types
    BY Popped DEF Ready, Typed
  <1>2. Head(strand) = a /\ a \in Events /\ 1 \in 1..Len(strand) /\ Tail(strand) \in Seq(Events)
    BY <1>1, Popped
  <1>3. Is(1, types) /\ Of(1, Answering, a.op) /\ a.op \in Ops
    BY <1>1, <1>2 DEF Is, Of, Claims
  <1>4. /\ col' = (col \ hit) \cup {[e EXCEPT !.got = Stored(@, a)] : e \in hit}
        /\ op' = [o \in Ops |-> IF o \in woken THEN [op[o] EXCEPT !.phase = "woken"] ELSE op[o]]
        /\ strand' = Tail(strand) \o SetToSeq({Event("timer", o) : o \in woken})
    BY <1>2, Zenon DEF Notify
  <1>5. Filled(a)
    <2>1. \A e \in col : e \in [pid : 0..MaxPid, op : Ops, got : SUBSET Events]
      BY DEF Typed
    <2>2. \A e \in hit : e \in col /\ e.pid = op[a.op].pid
      BY DEF Entry
    <2>3. \A e \in hit : /\ [e EXCEPT !.got = Stored(@, a)].pid = e.pid
                         /\ [e EXCEPT !.got = Stored(@, a)].op = e.op
                         /\ [e EXCEPT !.got = Stored(@, a)].got = Stored(e.got, a)
                         /\ [e EXCEPT !.got = Stored(@, a)] \in
                              [pid : 0..MaxPid, op : Ops, got : SUBSET Events]
                         /\ Stored(e.got, a) \subseteq e.got \cup {a}
      BY <1>2, <2>1, <2>2 DEF Stored
    <2> HIDE DEF hit, a
    <2>4. \A f \in col' : (f \in col /\ f \notin hit) \/ \E e \in hit : f = [e EXCEPT !.got = Stored(@, a)]
      BY <1>4
    <2>5. \A e \in col : e \in hit \/ e \in col'
      BY <1>4
    <2>6. \A e \in hit : [e EXCEPT !.got = Stored(@, a)] \in col'
      BY <1>4
    <2>7. \A f \in col' : \E e \in col :
            /\ f.pid = e.pid /\ f.op = e.op
            /\ f.got \subseteq e.got \cup {b \in {a} : e.pid = op[a.op].pid}
      BY <2>2, <2>3, <2>4
    <2>8. \A e \in col : \E f \in col' : f.pid = e.pid /\ f.op = e.op
      BY <2>3, <2>5, <2>6
    <2>9. \A e, f \in col' : e.pid = f.pid => e = f
      <3>1. \A e, f \in col : e.pid = f.pid => e = f
        BY DEF Entries
      <3>2. \A e \in col : e.pid = op[a.op].pid => e \in hit
        BY DEF hit, Entry
      <3> QED BY <2>2, <2>3, <2>4, <3>1, <3>2
    <2>10. col' \subseteq [pid : 0..MaxPid, op : Ops, got : SUBSET Events]
      BY <2>1, <2>3, <2>4
    <2> QED BY <2>7, <2>8, <2>9, <2>10 DEF Filled
  <1>6. Woke(a) /\ strand' \in Seq(Events)
    <2>1. CASE woken = {}
      <3>1. {Event("timer", o) : o \in woken} = {}
        BY <2>1
      <3>2. strand' = Tail(strand)
        <4>1. SetToSeq({Event("timer", o) : o \in woken}) = <<>>
          BY <3>1, Few, Zenon
        <4>2. Tail(strand) \o <<>> = Tail(strand)
          BY <1>2, Pushed
        <4> QED BY <1>4, <4>1, <4>2, Zenon
      <3>3. op' = op
        BY <1>4, <2>1 DEF Typed
      <3>4. \A e \in col : e.pid = op[a.op].pid /\ Ends(a.type) => op[e.op].phase # "waiting"
        BY <2>1 DEF Entry
      <3> QED BY <1>1, <3>2, <3>3, <3>4, Drops DEF Woke
    <2>2. CASE woken # {}
      <3>1. PICK e \in col : e.pid = op[a.op].pid /\ Ends(a.type) /\ op[e.op].phase = "waiting"
        BY <2>2 DEF Entry
      <3>2. \A f \in hit : f = e
        BY <3>1 DEF Entry, Entries
      <3>3. woken = {e.op}
        BY <3>1, <3>2 DEF Entry
      <3>4. e.op \in Ops /\ Event("timer", e.op) \in Events
        BY DEF Typed, Event, Events
      <3>5. {Event("timer", o) : o \in woken} = {Event("timer", e.op)}
        BY <3>3
      <3>6. strand' = Append(Tail(strand), Event("timer", e.op))
        <4>1. SetToSeq({Event("timer", o) : o \in woken}) = <<Event("timer", e.op)>>
          BY <3>5, Few, Zenon
        <4>2. Tail(strand) \o <<Event("timer", e.op)>> = Append(Tail(strand), Event("timer", e.op))
          BY <1>2, <3>4, Pushed
        <4> QED BY <1>4, <4>1, <4>2, Zenon
      <3>7. op' = [op EXCEPT ![e.op].phase = "woken"]
        <4>1. op \in [Ops -> Calls]
          BY DEF Typed
        <4>2. op' = [o \in Ops |-> IF o = e.op THEN [op[o] EXCEPT !.phase = "woken"] ELSE op[o]]
          BY <1>4, <3>3
        <4> QED BY <3>4, <4>1, <4>2
      <3> QED BY <1>1, <3>1, <3>4, <3>6, <3>7, DropsAppends DEF Woke
    <2> QED BY <2>1, <2>2
  <1> QED BY <1>2, <1>3, <1>5, <1>6
-------------------------------------------------------------------------------
\* What the steps of the strand take and leave.
LEMMA RunsWritten ==
  ASSUME Typed, Writes, RunWritten
  PROVE  /\ Is(1, {"written"}) /\ strand[1].op \in Ops /\ op[strand[1].op].phase = "sending"
         /\ 1 \in 1..Len(strand) /\ ~Queued(strand[1].op)
         /\ Moves(1, 1) /\ Added = Event("poll", 0) /\ strand' \in Seq(Events)
         /\ UNCHANGED <<stream, net, broker, inbox, lost, count>>
         /\ \/ strand[1].ok /\ Sent(op, strand[1].op) /\ ep' = ep
            \/ ~strand[1].ok /\ Failed(strand[1].op)
  <1>1. strand \in Seq(Events) /\ strand # <<>> /\ Head(strand).type = "written"
    BY DEF RunWritten, Ready, Typed
  <1>2. Event("poll", 0) \in Events
    BY DEF Event, Events
  <1>3. strand' = Append(Tail(strand), Event("poll", 0))
    BY DEF RunWritten
  <1>4. /\ Moves(1, 1) /\ Added = Event("poll", 0) /\ strand' \in Seq(Events)
        /\ Head(strand) = strand[1] /\ strand[1] \in Events
    BY <1>1, <1>2, <1>3, DropsAppends
  <1>5. Is(1, {"written"}) /\ 1 \in 1..Len(strand)
    BY <1>1, <1>4, Popped DEF Is
  <1>6. strand[1].op \in Ops /\ op[strand[1].op].phase = "sending" /\ ~Queued(strand[1].op)
    BY <1>5 DEF Writes
  <1> QED BY <1>4, <1>5, <1>6 DEF RunWritten

\* The next of the write queue.
Turned == /\ stream.queue # <<>> /\ Head(stream.queue) = stream.queue[1] /\ stream.queue[1] \in Ops
          /\ Tail(stream.queue) \in Seq(Ops) /\ Len(stream.queue) \in Nat /\ 1 \in 1..Len(stream.queue)
          /\ Len(Tail(stream.queue)) = Len(stream.queue) - 1
          /\ \A i \in 1..(Len(stream.queue) - 1) : Tail(stream.queue)[i] = stream.queue[i + 1]
          /\ op[stream.queue[1]].phase = "sending"
          /\ stream' = Working
\* What the next of the write queue does to it.
LEMMA Turns ==
  ASSUME Typed, Writes, stream.queue # <<>>, stream' = Working
  PROVE  Turned
  <1>1. stream.queue \in Seq(Ops)
    BY DEF Typed
  <1>2. /\ Head(stream.queue) = stream.queue[1] /\ stream.queue[1] \in Ops
        /\ Tail(stream.queue) \in Seq(Ops) /\ Len(stream.queue) \in Nat
        /\ 1 \in 1..Len(stream.queue)
        /\ Len(Tail(stream.queue)) = Len(stream.queue) - 1
        /\ \A i \in 1..(Len(stream.queue) - 1) : Tail(stream.queue)[i] = stream.queue[i + 1]
    BY <1>1
  <1> QED BY <1>2 DEF Turned, Writes

\* The four ways the write queue runs on.
LEMMA RunsPoll ==
  ASSUME Typed, Writes, RunPollNone \/ RunPollClosed \/ RunPollWritten \/ RunPollWrite
  PROVE  /\ Is(1, {"poll"}) /\ 1 \in 1..Len(strand) /\ strand' \in Seq(Events)
         /\ UNCHANGED <<net, inbox, lost, count>>
         /\ \/ /\ stream.queue = <<>> /\ stream' = [stream EXCEPT !.busy = 0] /\ Moves(1, 0)
               /\ UNCHANGED <<op, col, ep, broker>>
            \/ /\ Turned /\ ep.status = "closed" /\ Failed(stream.queue[1])
               /\ Moves(1, 1) /\ Added = Event("poll", 0) /\ broker' = broker
            \/ /\ Turned /\ ep.status # "closed" /\ Batch = {} /\ Sent(op, stream.queue[1])
               /\ Moves(1, 1) /\ Added = Event("poll", 0) /\ UNCHANGED <<ep, broker>>
            \/ /\ Turned /\ ep.status # "closed" /\ Batch # {}
               /\ Moves(1, 1) /\ Added = Written(stream.queue[1])
               /\ broker' = Reached(op, Batch) /\ UNCHANGED <<op, col, ep>>
  <1>1. strand \in Seq(Events) /\ strand # <<>> /\ Head(strand).type = "poll"
    BY DEF RunPollNone, RunPollClosed, RunPollWritten, RunPollWrite, Polled, Ready, Typed
  <1>2. Is(1, {"poll"}) /\ 1 \in 1..Len(strand)
    BY <1>1, Popped DEF Is
  <1>3. Event("poll", 0) \in Events
    BY DEF Event, Events
  <1>4. CASE RunPollNone
    <2>1. Moves(1, 0) /\ strand' \in Seq(Events)
      BY <1>1, <1>4, Drops DEF RunPollNone
    <2> QED BY <1>2, <1>4, <2>1 DEF RunPollNone
  <1>5. CASE RunPollClosed
    <2>1. Moves(1, 1) /\ Added = Event("poll", 0) /\ strand' \in Seq(Events)
      BY <1>1, <1>3, <1>5, DropsAppends DEF RunPollClosed
    <2>2. Turned
      BY <1>5, Turns DEF RunPollClosed, Polled
    <2> QED BY <1>2, <1>5, <2>1, <2>2 DEF RunPollClosed, Polled, Turned
  <1>6. CASE RunPollWritten
    <2>1. Moves(1, 1) /\ Added = Event("poll", 0) /\ strand' \in Seq(Events)
      BY <1>1, <1>3, <1>6, DropsAppends DEF RunPollWritten
    <2>2. Turned
      BY <1>6, Turns DEF RunPollWritten, Polled
    <2> QED BY <1>2, <1>6, <2>1, <2>2 DEF RunPollWritten, Polled, Turned
  <1>7. CASE RunPollWrite
    <2>1. Turned
      BY <1>7, Turns DEF RunPollWrite, Polled
    <2>2. Written(stream.queue[1]) \in Events
      BY <2>1 DEF Written, Events, Turned
    <2>3. strand' = Append(Tail(strand), Written(stream.queue[1]))
      BY <1>7, <2>1 DEF RunPollWrite, Turned
    <2>4. Moves(1, 1) /\ Added = Written(stream.queue[1]) /\ strand' \in Seq(Events)
      BY <1>1, <2>2, <2>3, DropsAppends
    <2> QED BY <1>2, <1>7, <2>1, <2>4 DEF RunPollWrite, Polled
  <1> QED BY <1>4, <1>5, <1>6, <1>7


\* What the operation o completes with when its timer has been cancelled.
Ended(o, result, of) ==
  /\ result \in Results /\ of \in Ops \cup {0}
  /\ op' = [op EXCEPT ![o].phase = "done", ![o].result = result, ![o].of = of]
  /\ \/ of = op[o].of
     \/ \E e \in col : \E a \in e.got :
          /\ e.op = o /\ of = a.op
          /\ a.type \in Expected(op[o].kind) /\ Codes[o] # <<>> => result # "protocol_error"

\* What an operation makes of the codes of its answer is one of the results.
LEMMA CodesEnd ==
  ASSUME NEW o \in Ops
  PROVE  OfList(Codes[o]) \in Results /\ (Codes[o] # <<>> => OfList(Codes[o]) # "protocol_error")
  <1>1. Codes[o] \in Seq(BOOLEAN)
    BY ClientAssumption DEF Ops
  <1>2. Codes[o] = <<>> \/ (Codes[o] # <<>> /\ Len(Codes[o]) = 1)
          \/ (Codes[o] # <<>> /\ Len(Codes[o]) # 1 /\ Len(Codes[o]) > 1)
    <2>1. \A S : \A s \in Seq(S) : s = <<>> \/ Len(s) \in Nat \ {0}
      OBVIOUS
    <2>2. Codes[o] = <<>> \/ Len(Codes[o]) \in Nat \ {0}
      BY <1>1, <2>1, Zenon
    <2>3. \A n \in Nat \ {0} : n = 1 \/ (n # 1 /\ n > 1)
      OBVIOUS
    <2> QED BY <2>2, <2>3, Zenon
  <1>3. One(Codes[o]) \in {"error", "success"}
    BY DEF One
  <1>4. Many(Codes[o]) \in {"all_error_detected", "success", "partial_error_detected"}
    BY DEF Many
  <1> QED BY <1>2, <1>3, <1>4 DEF OfList, Results

\* How an operation ends with the CONNACK, SUBACK or UNSUBACK that its entry has, or has not.
LEMMA Replied ==
  ASSUME Typed, NEW o \in Ops, NEW got \in SUBSET Events, NEW result \in Results, NEW types,
         \A a \in got : \E e \in col : e.op = o /\ a \in e.got,
         Expected(op[o].kind) = types, Codes[o] # <<>> => result # "protocol_error",
         op' = Reply(got, o, result, types)
  PROVE  \E r, of : Ended(o, r, of)
  <1> DEFINE pv == {a \in got : a.type \in Replies}
             a == CHOOSE b \in pv : TRUE
  <1>0. op \in [Ops -> Calls] /\ op[o] \in Calls
    BY DEF Typed
  <1>1. CASE pv = {}
    <2>1. op' = Finish(op, o, "empty")
      BY <1>1 DEF Reply
    <2>2. op' = [op EXCEPT ![o].phase = "done", ![o].result = "empty", ![o].of = op[o].of]
      BY <1>0, <2>1 DEF Finish, Calls
    <2>3. op[o].of \in Ops \cup {0}
      BY <1>0 DEF Calls
    <2>4. Ended(o, "empty", op[o].of)
      BY <2>2, <2>3 DEF Ended, Results
    <2> QED BY <2>4
  <1>2. CASE pv # {}
    <2>1. a \in pv
      BY <1>2
    <2>2. a \in got /\ a \in Events /\ a.op \in Ops \cup {0}
      BY <2>1 DEF Events
    <2>3. PICK e \in col : e.op = o /\ a \in e.got
      BY <2>2
    <2>4. op' = IF a.type \in types THEN [Finish(op, o, result) EXCEPT ![o].of = a.op]
                ELSE [Finish(op, o, "protocol_error") EXCEPT ![o].of = a.op]
      BY <1>2 DEF Reply
    <2> HIDE DEF a, pv
    <2>5. CASE a.type \in types
      <3>1. op' = [op EXCEPT ![o].phase = "done", ![o].result = result, ![o].of = a.op]
        BY <1>0, <2>4, <2>5 DEF Finish
      <3> QED BY <2>2, <2>3, <3>1 DEF Ended
    <2>6. CASE a.type \notin types
      <3>1. op' = [op EXCEPT ![o].phase = "done", ![o].result = "protocol_error", ![o].of = a.op]
        BY <1>0, <2>4, <2>6 DEF Finish
      <3>2. Ended(o, "protocol_error", a.op)
        BY <2>2, <2>3, <2>6, <3>1 DEF Ended, Results
      <3> QED BY <3>2
    <2> QED BY <2>5, <2>6
  <1> QED BY <1>1, <1>2

\* A woken operation gives up its entry and completes.
LEMMA RunsTimer ==
  ASSUME Typed, Timers, RunTimer
  PROVE  /\ Is(1, {"timer"}) /\ strand[1].op \in Ops /\ op[strand[1].op].phase = "woken"
         /\ 1 \in 1..Len(strand) /\ Moves(1, 0) /\ strand' \in Seq(Events)
         /\ UNCHANGED <<stream, ep, net, broker, inbox, lost, count>>
         /\ col' = {e \in col : e.op # strand[1].op}
         /\ \E result, of : Ended(strand[1].op, result, of)
  <1>1. strand \in Seq(Events) /\ strand # <<>> /\ Head(strand).type = "timer"
    BY DEF RunTimer, Ready, Typed
  <1>2. /\ Moves(1, 0) /\ strand' \in Seq(Events) /\ Head(strand) = strand[1]
    BY <1>1, Drops DEF RunTimer
  <1>3. Is(1, {"timer"}) /\ 1 \in 1..Len(strand)
    BY <1>1, <1>2, Popped DEF Is
  <1>4. strand[1].op \in Ops /\ op[strand[1].op].phase = "woken"
    BY <1>3 DEF Timers
  <1> DEFINE o == strand[1].op
             mine == {e \in col : e.op = o}
             got == UNION {e.got : e \in mine}
  <1>5. /\ col' = col \ mine
        /\ \/ mine = {} /\ op' = Finish(op, o, "aborted")
           \/ mine # {} /\ (StartEnds(got, o) \/ SubscribeEnds(got, o)
                              \/ UnsubscribeEnds(got, o) \/ PublishEnds(got, o))
        /\ UNCHANGED <<stream, ep, net, broker, inbox, lost, count>>
    BY <1>2 DEF RunTimer
  <1>6. got \in SUBSET Events /\ \A a \in got : \E e \in col : e.op = o /\ a \in e.got
    BY DEF Typed
  <1>7. op \in [Ops -> Calls] /\ op[o] \in Calls
    BY <1>4 DEF Typed
  <1>8. \E result, of : Ended(o, result, of)
    <2>1. CASE op' = Finish(op, o, "aborted")
      <3>1. op' = [op EXCEPT ![o].phase = "done", ![o].result = "aborted", ![o].of = op[o].of]
        BY <1>4, <1>7, <2>1 DEF Finish, Calls
      <3>2. Ended(o, "aborted", op[o].of)
        BY <1>7, <3>1 DEF Ended, Calls, Results
      <3> QED BY <3>2
    <2> HIDE DEF got
    <2>2. CASE StartEnds(got, o)
      <3>1. One(<<\E a \in got : a.type = "connack_refused">>) \in {"error", "success"}
        BY DEF One
      <3> QED BY <1>4, <1>6, <2>2, <3>1, Replied DEF StartEnds, Expected, Results
    <2>3. CASE SubscribeEnds(got, o)
      BY <1>4, <1>6, <2>3, Replied, CodesEnd DEF SubscribeEnds, Expected, Connacks
    <2>4. CASE UnsubscribeEnds(got, o)
      BY <1>4, <1>6, <2>4, Replied, CodesEnd DEF UnsubscribeEnds, Expected, Connacks
    <2>5. CASE PublishEnds(got, o)
      <3>1. \/ op' = Finish(op, o, "protocol_error")
            \/ \E a \in got : op' = [Finish(op, o, IF a.type = "pubrec_error" THEN "error"
                                                   ELSE One(Codes[a.op])) EXCEPT ![o].of = a.op]
        <4> DEFINE of(type) == {a \in got : a.type = type}
                   end == IF of("puback") # {} THEN of("puback")
                          ELSE IF of("pubrec_error") # {} THEN of("pubrec_error")
                          ELSE IF of("pubrec") # {} THEN of("pubcomp") ELSE {}
        <4>1. end \subseteq got
          OBVIOUS
        <4>2. op' = IF end = {} THEN Finish(op, o, "protocol_error")
                    ELSE LET a == CHOOSE b \in end : TRUE IN
                         [Finish(op, o, IF a.type = "pubrec_error" THEN "error" ELSE One(Codes[a.op]))
                            EXCEPT ![o].of = a.op]
          BY <2>5 DEF PublishEnds
        <4> HIDE DEF end
        <4>3. CASE end # {}
          <5>1. PICK a \in end : a = CHOOSE b \in end : TRUE
            BY <4>3
          <5> QED BY <4>1, <4>2, <4>3, <5>1
        <4> QED BY <4>2, <4>3
      <3>2. CASE op' = Finish(op, o, "protocol_error")
        <4>1. op' = [op EXCEPT ![o].phase = "done", ![o].result = "protocol_error",
                               ![o].of = op[o].of]
          BY <1>4, <1>7, <3>2 DEF Finish, Calls
        <4>2. Ended(o, "protocol_error", op[o].of)
          BY <1>7, <4>1 DEF Ended, Calls, Results
        <4> QED BY <4>2
      <3>3. CASE \E a \in got : op' = [Finish(op, o, IF a.type = "pubrec_error" THEN "error"
                                                     ELSE One(Codes[a.op])) EXCEPT ![o].of = a.op]
        <4>1. PICK a \in got : op' = [Finish(op, o, IF a.type = "pubrec_error" THEN "error"
                                                    ELSE One(Codes[a.op])) EXCEPT ![o].of = a.op]
          BY <3>3
        <4>2. PICK r \in {"error", "success"} : r = IF a.type = "pubrec_error" THEN "error"
                                                    ELSE One(Codes[a.op])
          BY DEF One
        <4>3. op' = [op EXCEPT ![o].phase = "done", ![o].result = r, ![o].of = a.op]
          BY <1>4, <1>7, <4>1, <4>2 DEF Finish
        <4>4. a.op \in Ops \cup {0} /\ \E e \in col : e.op = o /\ a \in e.got
          BY <1>6 DEF Events
        <4>5. r # "protocol_error" /\ r \in Results
          BY <4>2 DEF Results
        <4>6. Ended(o, r, a.op)
          BY <4>3, <4>4, <4>5 DEF Ended
        <4> QED BY <4>6
      <3> QED BY <3>1, <3>2, <3>3
    <2> QED BY <1>5, <2>1, <2>2, <2>3, <2>4, <2>5
  <1> QED BY <1>2, <1>3, <1>4, <1>5, <1>8

\* What is put into recv_queue_ wakes async_recv when it waits.
LEMMA RunsPut ==
  ASSUME Typed, NEW what \in {"publish", "error"}, Ready({what}), Put(what)
  PROVE  /\ Is(1, {what}) /\ 1 \in 1..Len(strand) /\ strand' \in Seq(Events)
         /\ inbox' = [queue |-> Append(inbox.queue, what), inserted |-> TRUE,
                      recv |-> IF inbox.recv = "waiting" THEN "woken" ELSE inbox.recv]
         /\ \/ inbox.recv = "waiting" /\ Moves(1, 1) /\ Added = Event("wake", 0)
            \/ inbox.recv # "waiting" /\ Moves(1, 0)
  <1>1. strand \in Seq(Events) /\ strand # <<>> /\ Head(strand).type = what
    BY DEF Ready, Typed
  <1>2. Is(1, {what}) /\ 1 \in 1..Len(strand) /\ Tail(strand) \in Seq(Events)
    BY <1>1, Popped DEF Is
  <1>3. Event("wake", 0) \in Events
    BY DEF Event, Events
  <1>4. CASE inbox.recv = "waiting"
    <2>1. strand' = Append(Tail(strand), Event("wake", 0))
      BY <1>2, <1>3, <1>4, Pushed DEF Put
    <2> QED BY <1>1, <1>2, <1>3, <1>4, <2>1, DropsAppends DEF Put
  <1>5. CASE inbox.recv # "waiting"
    <2>1. strand' = Tail(strand)
      BY <1>2, <1>3, <1>5, Pushed DEF Put
    <2> QED BY <1>1, <1>2, <1>5, <2>1, Drops DEF Put
  <1> QED BY <1>4, <1>5

\* async_recv completes.
LEMMA RunsWake ==
  ASSUME Typed, RunWake
  PROVE  /\ Is(1, {"wake"}) /\ 1 \in 1..Len(strand) /\ Moves(1, 0) /\ strand' \in Seq(Events)
         /\ inbox' = [inbox EXCEPT !.recv = "idle",
                                   !.queue = IF inbox.inserted THEN Tail(@) ELSE @]
         /\ UNCHANGED <<op, col, stream, ep, net, broker, lost, count>>
  <1>1. strand \in Seq(Events) /\ strand # <<>> /\ Head(strand).type = "wake"
    BY DEF RunWake, Ready, Typed
  <1>2. Is(1, {"wake"}) /\ 1 \in 1..Len(strand)
    BY <1>1, Popped DEF Is
  <1> QED BY <1>1, <1>2, Drops DEF RunWake

\* An event becomes ready outside the strand.
LEMMA Readies ==
  ASSUME Typed, NEW type \in {"timer", "wake", "publish", "error"} \cup Answering,
         NEW o \in Ops \cup {0}, strand' = Append(strand, Event(type, o))
  PROVE  Moves(0, 1) /\ Added = Event(type, o) /\ strand' \in Seq(Events)
  <1>1. Event(type, o) \in Events
    BY DEF Event, Events
  <1> QED BY <1>1, Appends DEF Typed
-------------------------------------------------------------------------------
\* What keeps the variables in their ranges, operation by operation.
LEMMA Begins ==
  ASSUME Typed, NEW o \in Ops, NEW kind, NEW pid \in 0..MaxPid, Begin(o, kind, pid)
  PROVE  /\ kind \in AllKinds /\ op[o].phase = "new" /\ Begun(o, kind, pid) \in [Ops -> Calls]
         /\ Begun(o, kind, pid)[o].kind = kind /\ Begun(o, kind, pid)[o].pid = pid
         /\ Begun(o, kind, pid)[o].phase = "sending"
         /\ Begun(o, kind, pid)[o].of = op[o].of /\ Begun(o, kind, pid)[o].result = op[o].result
         /\ \A q \in Ops : q # o => Begun(o, kind, pid)[q] = op[q]
         /\ kind \in WithoutId => pid = 0
         /\ kind \notin WithoutId => pid # 0 /\ pid \notin ep.used /\ pid \in 1..MaxPid
  <1>1. op \in [Ops -> Calls] /\ kind \in AllKinds
    BY ClientAssumption DEF Typed, Begin, Ops
  <1>2. Begun(o, kind, pid) \in [Ops -> Calls]
    BY <1>1 DEF Begun, Calls
  <1>3. /\ Begun(o, kind, pid)[o].kind = kind /\ Begun(o, kind, pid)[o].pid = pid
        /\ Begun(o, kind, pid)[o].phase = "sending"
        /\ Begun(o, kind, pid)[o].of = op[o].of /\ Begun(o, kind, pid)[o].result = op[o].result
        /\ \A q \in Ops : q # o => Begun(o, kind, pid)[q] = op[q]
    BY <1>1 DEF Begun, Calls
  <1> QED BY <1>1, <1>2, <1>3, ClientAssumption DEF Begin, Free

\* The endpoint keeps its ranges when an operation gets its packet id,
LEMMA HoldsRange ==
  ASSUME Typed, NEW o \in Ops, NEW kind, NEW pid \in 0..MaxPid
  PROVE  /\ Holding(o, kind, pid).used = ep.used \cup ({pid} \ {0})
         /\ Holding(o, kind, pid).stored =
              ep.stored \cup {s \in {[type |-> kind, op |-> o]} : kind \in Publishing}
         /\ Holding(o, kind, pid).status = ep.status /\ Holding(o, kind, pid).session = ep.session
         /\ Holding(o, kind, pid) \in
              [status : {"closed", "connecting", "connected", "disconnecting"},
               used : SUBSET (1..MaxPid), stored : SUBSET Held, session : BOOLEAN]
  <1> DEFINE Endpoints == [status : {"closed", "connecting", "connected", "disconnecting"},
                           used : SUBSET (1..MaxPid), stored : SUBSET Held, session : BOOLEAN]
  <1>1. ep \in Endpoints /\ MaxPid \in Nat
    BY ClientAssumption DEF Typed
  <1>2. ep.used \cup ({pid} \ {0}) \in SUBSET (1..MaxPid)
    BY <1>1
  <1>3. ep.stored \cup {s \in {[type |-> kind, op |-> o]} : kind \in Publishing} \in SUBSET Held
    BY <1>1 DEF Held
  <1> QED BY <1>1, <1>2, <1>3 DEF Holding

\* the write queue and the broker when a packet is sent,
LEMMA SendsRange ==
  ASSUME Typed, NEW ops \in [Ops -> Calls], NEW o \in Ops, Send(ops, o)
  PROVE  /\ stream' \in [busy : Ops \cup {0}, queue : Seq(Ops), storing : SUBSET Ops, bulk : BOOLEAN]
         /\ strand' \in Seq(Events) /\ broker' \subseteq Taken
  <1>1. Reached(ops, {o}) \subseteq Taken
    BY DEF Reached, Taken, Typed
  <1>2. Append(stream.queue, o) \in Seq(Ops)
    BY DEF Typed
  <1>3. stream \in [busy : Ops \cup {0}, queue : Seq(Ops), storing : SUBSET Ops, bulk : BOOLEAN]
    BY DEF Typed
  <1>4. CASE stream' = [stream EXCEPT !.busy = o] /\ strand' \in Seq(Events) /\ broker' = Reached(ops, {o})
    BY <1>1, <1>3, <1>4
  <1>5. CASE /\ strand' = strand /\ broker' = broker
             /\ stream' = [stream EXCEPT !.queue = Append(@, o),
                                         !.storing = IF stream.bulk THEN @ \cup {o} ELSE @]
    BY <1>2, <1>3, <1>5 DEF Typed
  <1> QED BY <1>4, <1>5, Sends

\* the operations and the entries when a send completes,
LEMMA CompletesRange ==
  ASSUME Typed, NEW ops \in [Ops -> Calls], NEW o \in Ops, Sent(ops, o)
  PROVE  /\ op' \in [Ops -> Calls]
         /\ col' \subseteq [pid : 0..MaxPid, op : Ops, got : SUBSET Events]
  <1>1. CASE op' = Finish(ops, o, "sent") /\ col' = col
    <2>1. op' \in [Ops -> Calls]
      BY ZenonT(40), <1>1 DEF Finish, Calls, Results
    <2> QED BY <1>1, <2>1 DEF Typed
  <1>2. CASE op' = [ops EXCEPT ![o].phase = "waiting"] /\ col' = Enter(ops, o)
    <2>1. op' \in [Ops -> Calls]
      BY <1>2 DEF Calls
    <2>2. [pid |-> ops[o].pid, op |-> o, got |-> {}] \in [pid : 0..MaxPid, op : Ops, got : SUBSET Events]
      BY DEF Calls
    <2> QED BY <1>2, <2>1, <2>2 DEF Enter, Typed
  <1> QED BY <1>1, <1>2, Completes

\* and the endpoint when it fails.
LEMMA FailedRange ==
  ASSUME Typed, NEW o \in Ops, Failed(o)
  PROVE  /\ op' = [op EXCEPT ![o].phase = "done", ![o].result = "failed"]
         /\ op' \in [Ops -> Calls] /\ col' = col
         /\ ep' = [ep EXCEPT !.used = IF op[o].kind \in Requesting THEN @ \ {op[o].pid} ELSE @]
         /\ ep' \in [status : {"closed", "connecting", "connected", "disconnecting"},
                     used : SUBSET (1..MaxPid), stored : SUBSET Held, session : BOOLEAN]
  <1>1. op \in [Ops -> Calls]
    BY DEF Typed
  <1>2. op' = [op EXCEPT ![o].phase = "done", ![o].result = "failed"]
    BY <1>1 DEF Failed, Finish
  <1>3. op' \in [Ops -> Calls]
    BY ZenonT(40), <1>1, <1>2 DEF Calls, Results
  <1> QED BY <1>2, <1>3 DEF Failed, Typed

\* What an answer leaves behind.
LEMMA NotifiesRange ==
  ASSUME Typed, Filled(strand[1]), Woke(strand[1])
  PROVE  /\ op' \in [Ops -> Calls]
         /\ col' \subseteq [pid : 0..MaxPid, op : Ops, got : SUBSET Events]
  <1>1. op' = op \/ \E e \in col : op' = [op EXCEPT ![e.op].phase = "woken"]
    BY DEF Woke
  <1>2. op \in [Ops -> Calls] /\ \A e \in col : e.op \in Ops
    BY DEF Typed
  <1>3. \A o \in Ops : [op EXCEPT ![o].phase = "woken"] \in [Ops -> Calls]
    BY <1>2 DEF Calls
  <1>4. op' \in [Ops -> Calls]
    <2>1. CASE op' = op
      BY <1>2, <2>1
    <2>2. CASE \E e \in col : op' = [op EXCEPT ![e.op].phase = "woken"]
      <3>1. PICK e \in col : op' = [op EXCEPT ![e.op].phase = "woken"]
        BY <2>2
      <3>2. e.op \in Ops
        BY <1>2
      <3> QED BY <1>3, <3>1, <3>2
    <2> QED BY <1>1, <2>1, <2>2
  <1> QED BY <1>4 DEF Filled

\* The cases of Next.
LEMMA Cases ==
  ASSUME Next
  PROVE  \/ \E o \in Ops :
              \/ Start(o) \/ Cancel(o) \/ Disconnect(o)
              \/ \E pid \in 0..MaxPid, kind \in {"sub", "unsub", "auth", "pub0"} \cup Publishing :
                   Call(o, kind, pid)
              \/ \E pid \in 0..MaxPid : Invalid(o, pid)
              \/ \E pid \in 0..MaxPid, kind \in Publishing : CallOffline(o, kind, pid)
         \/ Connect \/ Recv \/ CancelRecv \/ Deliver \/ Down
         \/ \E b \in broker : \E type \in Answers(b.type) : Answer(b, type)
         \/ RunWritten \/ (RunPollNone \/ RunPollClosed \/ RunPollWritten \/ RunPollWrite)
         \/ RunConnack \/ RunFinal \/ RunPubrec \/ RunPublish \/ RunError \/ RunTimer \/ RunWake
  <1>1. ASSUME NEW o \in Ops, NEW pid \in 0..MaxPid, NEW kind \in Kinds[o],
               Publish(o, kind, pid) \/ CallOffline(o, kind, pid)
        PROVE  \/ kind \in {"pub0"} \cup Publishing /\ Call(o, kind, pid)
               \/ kind \in Publishing /\ CallOffline(o, kind, pid)
    BY <1>1 DEF Publish, CallOffline
  <1>2. ASSUME NEW o \in Ops, Auth(o)
        PROVE  \E pid \in 0..MaxPid : Call(o, "auth", pid)
    <2>1. 0 \in 0..MaxPid
      BY ClientAssumption
    <2> QED BY <1>2, <2>1 DEF Auth
  <1> QED BY <1>1, <1>2 DEF Next, Strand, Broker, Subscribe, Unsubscribe

\* The ranges after a call, and after every step.
LEMMA CallTyped ==
  ASSUME Typed, NEW o \in Ops, NEW pid \in 0..MaxPid, NEW kind, Call(o, kind, pid)
  PROVE  Typed'
  <1>1. Begin(o, kind, pid) /\ op' = Begun(o, kind, pid) /\ Send(op', o)
        /\ ep' = Holding(o, kind, pid) /\ UNCHANGED <<col, net, inbox, lost, count>>
    BY DEF Call
  <1>2. op' \in [Ops -> Calls]
    BY <1>1, Begins
  <1> QED BY <1>1, <1>2, SendsRange, HoldsRange DEF Typed

\* Every step keeps the ranges.
LEMMA TypedNext ==
  ASSUME Typed, Wakes, Entries, Claims, Timers, Writes, Next
  PROVE  Typed'
  <1> DEFINE Endpoints == [status : {"closed", "connecting", "connected", "disconnecting"},
                           used : SUBSET (1..MaxPid), stored : SUBSET Held, session : BOOLEAN]
             Streams == [busy : Ops \cup {0}, queue : Seq(Ops), storing : SUBSET Ops, bulk : BOOLEAN]
             Inboxes == [queue : Seq({"publish", "error"}), inserted : BOOLEAN,
                         recv : {"idle", "waiting", "woken"}]
  <1>0. /\ op \in [Ops -> Calls] /\ ep \in Endpoints /\ stream \in Streams /\ inbox \in Inboxes
        /\ 0 \in 0..MaxPid
    BY ClientAssumption DEF Typed
  <1>1. ASSUME NEW o \in Ops, Start(o) PROVE Typed'
    <2>1. op' \in [Ops -> Calls]
      BY <1>0, <1>1, Begins DEF Start
    <2>2. ep' \in Endpoints
      BY <1>0, <1>1 DEF Start
    <2> QED BY <1>1, <2>1, <2>2, SendsRange DEF Start, Typed
  <1>2. ASSUME NEW o \in Ops, Cancel(o) PROVE Typed'
    <2>1. op' \in [Ops -> Calls]
      BY ZenonT(40), <1>0, <1>2 DEF Cancel, Calls
    <2>2. strand' \in Seq(Events)
      BY <1>2, Readies DEF Cancel
    <2> QED BY <1>2, <2>1, <2>2 DEF Cancel, Typed
  <1>3. ASSUME NEW o \in Ops, Disconnect(o) PROVE Typed'
    <2>1. op' \in [Ops -> Calls]
      BY <1>0, <1>3, Begins DEF Disconnect
    <2>2. ep' \in Endpoints
      BY <1>0, <1>3 DEF Disconnect
    <2> QED BY <1>3, <2>1, <2>2, SendsRange DEF Disconnect, Typed
  <1>4. ASSUME NEW o \in Ops, NEW pid \in 0..MaxPid, Invalid(o, pid) PROVE Typed'
    <2>1. op' \in [Ops -> Calls]
      <3>1. Begun(o, "invalid", pid) \in [Ops -> Calls]
        BY <1>4, Begins DEF Invalid
      <3> QED BY ZenonT(40), <1>4, <3>1 DEF Invalid, Finish, Calls, Results
    <2>2. ep' \in Endpoints
      BY <1>4, HoldsRange DEF Invalid
    <2> QED BY <1>4, <2>1, <2>2 DEF Invalid, Typed
  <1>5. ASSUME NEW o \in Ops, NEW pid \in 0..MaxPid, NEW kind \in Publishing,
               CallOffline(o, kind, pid)
        PROVE  Typed'
    <2>1. Begun(o, kind, pid) \in [Ops -> Calls] /\ Sent(Begun(o, kind, pid), o)
      BY <1>5, Begins DEF CallOffline
    <2>2. ep' \in Endpoints
      BY <1>5, HoldsRange DEF CallOffline
    <2> QED BY <1>5, <2>1, <2>2, CompletesRange DEF CallOffline, Typed
  <1>6. CASE Connect
    BY <1>6 DEF Connect, Typed
  <1>7. CASE Recv
    <2>1. inbox' \in Inboxes
      <3>1. inbox.queue # <<>> => Tail(inbox.queue) \in Seq({"publish", "error"})
        BY <1>0
      <3> QED BY <1>0, <1>7, <3>1 DEF Recv, Take
    <2> QED BY <1>7, <2>1 DEF Recv, Typed
  <1>8. CASE CancelRecv
    <2>1. strand' \in Seq(Events)
      BY <1>8, Readies DEF CancelRecv
    <2> QED BY <1>8, <2>1 DEF CancelRecv, Typed
  <1>9. CASE Deliver
    <2>1. strand' \in Seq(Events)
      BY <1>9, Readies DEF Deliver
    <2> QED BY <1>9, <2>1 DEF Deliver, Typed
  <1>10. CASE Down
    <2>1. strand' \in Seq(Events)
      BY <1>10, Readies DEF Down
    <2> QED BY <1>10, <2>1 DEF Down, Typed
  <1>11. ASSUME NEW b \in broker, NEW type \in Answers(b.type), Answer(b, type) PROVE Typed'
    <2>1. type \in Answering /\ b.op \in Ops
      BY DEF Typed, Taken, Answers, Answering, Answered, Requesting, Publishing, Connacks
    <2>2. strand' \in Seq(Events)
      BY <1>11, <2>1, Readies DEF Answer
    <2> QED BY <1>11, <2>2 DEF Answer, Typed
  <1>12. CASE RunWritten
    <2>1. CASE Sent(op, strand[1].op) /\ ep' = ep
      BY <1>0, <1>12, <2>1, RunsWritten, CompletesRange DEF Typed
    <2>2. CASE Failed(strand[1].op)
      BY <1>12, <2>2, RunsWritten, FailedRange DEF Typed
    <2> QED BY <1>12, <2>1, <2>2, RunsWritten
  <1>13. CASE RunPollNone \/ RunPollClosed \/ RunPollWritten \/ RunPollWrite
    <2>1. strand' \in Seq(Events) /\ UNCHANGED <<net, inbox, lost, count>>
      BY <1>13, RunsPoll
    <2>2. CASE Turned
      <3>1. stream' \in Streams /\ stream.queue[1] \in Ops
        BY <1>0, <2>2 DEF Turned, Working
      <3>2. Reached(op, Batch) \subseteq Taken
        <4>1. Batch \subseteq Ops
          BY <1>0, <2>2 DEF Batch, Turned
        <4> QED BY <4>1 DEF Reached, Taken, Typed
      <3>3. CASE Failed(stream.queue[1]) /\ broker' = broker
        BY <2>1, <3>1, <3>3, FailedRange DEF Typed
      <3>4. CASE Sent(op, stream.queue[1]) /\ UNCHANGED <<ep, broker>>
        BY <1>0, <2>1, <3>1, <3>4, CompletesRange DEF Typed
      <3>5. CASE broker' = Reached(op, Batch) /\ UNCHANGED <<op, col, ep>>
        BY <2>1, <3>1, <3>2, <3>5 DEF Typed
      <3> QED BY <1>13, <2>2, <3>3, <3>4, <3>5, RunsPoll DEF Turned
    <2>3. CASE ~Turned
      <3>1. stream' \in Streams
        BY <1>0, <1>13, <2>3, RunsPoll
      <3> QED BY <1>13, <2>1, <2>3, <3>1, RunsPoll DEF Typed
    <2> QED BY <2>2, <2>3
  <1>14. ASSUME NEW types \in SUBSET Answering, Ready(types), Notify(Head(strand)),
                ep' \in Endpoints, broker' \subseteq Taken, lost' \in BOOLEAN,
                UNCHANGED <<stream, net, inbox, count>>
         PROVE  Typed'
    BY <1>14, Notifies, NotifiesRange DEF Typed
  <1>15. CASE RunConnack
    <2>1. ep' \in Endpoints /\ broker' \subseteq Taken /\ lost' \in BOOLEAN
      <3>1. ep' = [ep EXCEPT !.status = "connected"]
              \/ ep' = [status |-> "connected", used |-> {}, stored |-> {}, session |-> TRUE]
        BY <1>15 DEF RunConnack
      <3>2. broker' \subseteq broker \cup ep.stored
        BY <1>15 DEF RunConnack
      <3>3. Held \subseteq Taken
        BY DEF Held, Taken, Answered
      <3>4. lost' \in BOOLEAN
        BY <1>15 DEF RunConnack, TooEarly, Typed
      <3>5. ep' \in Endpoints
        <4>1. [status |-> "connected", used |-> {}, stored |-> {}, session |-> TRUE] \in Endpoints
          OBVIOUS
        <4>2. [ep EXCEPT !.status = "connected"] \in Endpoints
          BY <1>0
        <4> QED BY <3>1, <4>1, <4>2
      <3> QED BY <1>0, <3>2, <3>3, <3>4, <3>5 DEF Typed
    <2>2. {"connack", "connack_present"} \in SUBSET Answering
      BY DEF Answering
    <2> QED BY <1>14, <1>15, <2>1, <2>2 DEF RunConnack
  <1>16. CASE RunFinal
    <2>1. ep' \in Endpoints /\ broker' \subseteq Taken /\ lost' \in BOOLEAN
      BY <1>0, <1>16 DEF RunFinal, Typed, TooEarly
    <2>2. {"suback", "unsuback", "puback", "pubrec_error", "pubcomp", "connack_refused"}
            \in SUBSET Answering
      BY DEF Answering
    <2> QED BY <1>14, <1>16, <2>1, <2>2 DEF RunFinal
  <1>17. CASE RunPubrec
    <2>1. {"pubrec"} \in SUBSET Answering
      BY DEF Answering
    <2>2. Head(strand).op \in Ops
      BY <1>17, <2>1, Notifies DEF RunPubrec
    <2>3. ep' \in Endpoints /\ broker' \subseteq Taken /\ lost' \in BOOLEAN
      BY <1>0, <1>17, <2>2 DEF RunPubrec, Typed, TooEarly, Held, Taken
    <2> QED BY <1>14, <1>17, <2>1, <2>3 DEF RunPubrec
  <1>18. ASSUME NEW what \in {"publish", "error"}, Ready({what}), Put(what),
                ep' \in Endpoints, stream' \in Streams, UNCHANGED <<op, col, net, broker, lost, count>>
         PROVE  Typed'
    <2>1. strand' \in Seq(Events)
      BY <1>18, RunsPut
    <2>2. inbox' \in Inboxes
      <3>1. Append(inbox.queue, what) \in Seq({"publish", "error"})
        BY <1>0
      <3>2. (IF inbox.recv = "waiting" THEN "woken" ELSE inbox.recv) \in {"idle", "waiting", "woken"}
        BY <1>0
      <3>3. inbox' = [queue |-> Append(inbox.queue, what), inserted |-> TRUE,
                      recv |-> IF inbox.recv = "waiting" THEN "woken" ELSE inbox.recv]
        BY <1>18, RunsPut
      <3> QED BY <3>1, <3>2, <3>3
    <2> QED BY <1>18, <2>1, <2>2 DEF Typed
  <1>19. CASE RunPublish
    BY <1>0, <1>18, <1>19 DEF RunPublish
  <1>20. CASE RunError
    <2>1. ep' \in Endpoints /\ stream' \in Streams
      BY <1>0, <1>20 DEF RunError
    <2> QED BY <1>18, <1>20, <2>1 DEF RunError
  <1>21. CASE RunTimer
    <2>1. PICK result, of : Ended(strand[1].op, result, of)
      BY <1>21, RunsTimer
    <2>2. op' \in [Ops -> Calls]
      <3>1. \A o \in Ops, r \in Results, p \in Ops \cup {0} :
              [op EXCEPT ![o].phase = "done", ![o].result = r, ![o].of = p] \in [Ops -> Calls]
        <4>1. ASSUME NEW c \in Calls, NEW r \in Results, NEW p \in Ops \cup {0}
              PROVE  [c EXCEPT !.phase = "done", !.result = r, !.of = p] \in Calls
          BY DEF Calls
        <4> QED BY <1>0, <4>1
      <3> QED BY <1>21, <2>1, <3>1, RunsTimer DEF Ended
    <2> QED BY <1>21, <2>2, RunsTimer DEF Typed
  <1>22. CASE RunWake
    <2>1. inbox' \in Inboxes
      <3>1. inbox.inserted => Tail(inbox.queue) \in Seq({"publish", "error"})
        BY <1>0, <1>22, RunsWake DEF Wakes
      <3> QED BY <1>0, <1>22, <3>1, RunsWake
    <2> QED BY <1>22, <2>1, RunsWake DEF Typed
  <1>23. ASSUME NEW o \in Ops, NEW pid \in 0..MaxPid,
                NEW kind \in {"sub", "unsub", "auth", "pub0"} \cup Publishing, Call(o, kind, pid)
         PROVE  Typed'
    BY <1>23, CallTyped
  <1> QED BY <1>1, <1>2, <1>3, <1>4, <1>5, <1>6, <1>7, <1>8, <1>9, <1>10, <1>11, <1>12, <1>13,
             <1>15, <1>16, <1>17, <1>19, <1>20, <1>21, <1>22, <1>23, Cases
-------------------------------------------------------------------------------
\* The events of the types stay, in their order, and none of them comes.
Calm(types) ==
  \E d \in {0, 1} :
    /\ \A i \in 1..Len(strand) :
         Is(i, types) => i - d \in 1..Len(strand') /\ strand'[i - d] = strand[i]
    /\ \A i \in 1..Len(strand') :
         strand'[i].type \in types => i + d \in 1..Len(strand) /\ strand[i + d] = strand'[i]

\* What runs and what becomes ready is of the types.
Touches(types) ==
  \E d, n \in {0, 1} :
    /\ Moves(d, n)
    /\ d = 1 => strand[1].type \in types
    /\ n = 1 => Added.type \in types

\* What touches other events leaves those of the types as they are.
LEMMA Calms ==
  ASSUME NEW touched, Touches(touched), NEW types, touched \cap types = {}
  PROVE  Calm(types)
  <1>1. PICK d \in {0, 1}, n \in {0, 1} :
          Moves(d, n) /\ (d = 1 => strand[1].type \in touched) /\ (n = 1 => Added.type \in touched)
    BY DEF Touches
  <1>2. ASSUME NEW i \in 1..Len(strand), Is(i, types)
        PROVE  i - d \in 1..Len(strand') /\ strand'[i - d] = strand[i]
    <2>1. i # 1 \/ d # 1
      BY <1>1, <1>2 DEF Is
    <2>2. i - d \in 1..(Len(strand) - d)
      BY <1>1, <2>1 DEF Moves
    <2> QED BY <1>1, <2>2 DEF Moves
  <1>3. ASSUME NEW i \in 1..Len(strand'), strand'[i].type \in types
        PROVE  i + d \in 1..Len(strand) /\ strand[i + d] = strand'[i]
    <2>1. ~(n = 1 /\ i = Len(strand'))
      BY <1>1, <1>3 DEF Added
    <2>2. i \in 1..(Len(strand) - d)
      BY <1>1, <2>1 DEF Moves
    <2> QED BY <1>1, <2>2 DEF Moves
  <1> QED BY <1>2, <1>3 DEF Calm

\* A step that leaves the strand alone touches no event.
LEMMA Still ==
  ASSUME Typed, strand' = strand
  PROVE  Touches({})
  <1>1. Len(strand) \in Nat
    BY DEF Typed
  <1>2. Moves(0, 0)
    BY <1>1 DEF Moves
  <1> QED BY <1>2 DEF Touches

\* Sending touches the completion of writes alone,
LEMMA SendTouches ==
  ASSUME Typed, NEW ops, NEW o \in Ops, Send(ops, o)
  PROVE  Touches({"written"})
  <1>1. CASE strand' = strand
    BY <1>1, Still DEF Touches
  <1>2. CASE Moves(0, 1) /\ Added = Written(o)
    <2>1. Added.type = "written"
      BY <1>2 DEF Written
    <2> QED BY <1>2, <2>1 DEF Touches
  <1> QED BY <1>1, <1>2, Sends

\* and what becomes ready its own type.
LEMMA ReadyTouches ==
  ASSUME Typed, NEW type \in {"timer", "wake", "publish", "error"} \cup Answering,
         NEW o \in Ops \cup {0}, strand' = Append(strand, Event(type, o))
  PROVE  Touches({type})
  <1>1. Event(type, o).type = type
    BY DEF Event
  <1>2. Moves(0, 1) /\ Added = Event(type, o)
    BY Readies
  <1>3. PICK d \in {0, 1}, n \in {0, 1} : d = 0 /\ n = 1
    OBVIOUS
  <1>4. Moves(d, n) /\ (d = 1 => strand[1].type \in {type}) /\ (n = 1 => Added.type \in {type})
    BY <1>1, <1>2, <1>3
  <1> QED BY <1>3, <1>4 DEF Touches

\* Which events an action disturbs.
LEMMA Touched ==
  ASSUME Typed, Entries, Claims, Timers, Writes
  PROVE  /\ \A o \in Ops :
              /\ Start(o) \/ Disconnect(o) => Touches({"written"})
              /\ Cancel(o) => Touches({"timer"})
              /\ \A pid, kind : Call(o, kind, pid) => Touches({"written"})
              /\ \A pid, kind : Invalid(o, pid) \/ CallOffline(o, kind, pid) => Touches({})
         /\ Connect \/ Recv => Touches({})
         /\ CancelRecv => Touches({"wake"})
         /\ Deliver => Touches({"publish"})
         /\ Down => Touches({"error"})
         /\ \A b \in broker : \A type \in Answers(b.type) : Answer(b, type) => Touches(Answering)
         /\ RunWritten \/ RunPollNone \/ RunPollClosed \/ RunPollWritten \/ RunPollWrite
              => Touches({"written", "poll"})
         /\ RunConnack \/ RunFinal \/ RunPubrec => Touches(Answering \cup {"timer"})
         /\ RunPublish => Touches({"publish", "wake"})
         /\ RunError => Touches({"error", "wake"})
         /\ RunTimer => Touches({"timer"})
         /\ RunWake => Touches({"wake"})
  <1>1. ASSUME NEW o \in Ops, Start(o) \/ Disconnect(o) PROVE Touches({"written"})
    BY <1>1, SendTouches DEF Start, Disconnect
  <1>2. ASSUME NEW o \in Ops, Cancel(o) PROVE Touches({"timer"})
    BY <1>2, ReadyTouches DEF Cancel
  <1>3. ASSUME NEW o \in Ops, NEW pid, NEW kind, Call(o, kind, pid) PROVE Touches({"written"})
    BY <1>3, SendTouches DEF Call
  <1>4. ASSUME NEW o \in Ops, NEW pid, NEW kind, Invalid(o, pid) \/ CallOffline(o, kind, pid)
        PROVE  Touches({})
    BY <1>4, Still DEF Invalid, CallOffline
  <1>5. ASSUME Connect \/ Recv PROVE Touches({})
    BY <1>5, Still DEF Connect, Recv
  <1>6. ASSUME CancelRecv PROVE Touches({"wake"})
    BY <1>6, ReadyTouches DEF CancelRecv
  <1>7. ASSUME Deliver PROVE Touches({"publish"})
    BY <1>7, ReadyTouches DEF Deliver
  <1>8. ASSUME Down PROVE Touches({"error"})
    BY <1>8, ReadyTouches DEF Down
  <1>9. ASSUME NEW b \in broker, NEW type \in Answers(b.type), Answer(b, type)
        PROVE  Touches(Answering)
    <2>1. type \in Answering /\ b.op \in Ops
      BY DEF Typed, Taken, Answers, Answering, Answered, Requesting, Publishing, Connacks
    <2>2. Touches({type})
      BY <1>9, <2>1, ReadyTouches DEF Answer
    <2> QED BY <2>1, <2>2 DEF Touches
  <1>10. ASSUME RunWritten PROVE Touches({"written", "poll"})
    <2>1. Event("poll", 0).type = "poll"
      BY DEF Event
    <2> QED BY <1>10, <2>1, RunsWritten DEF Touches, Is
  <1>11. ASSUME RunPollNone \/ RunPollClosed \/ RunPollWritten \/ RunPollWrite
         PROVE  Touches({"written", "poll"})
    <2>1. Event("poll", 0).type = "poll" /\ \A o : Written(o).type = "written"
      BY DEF Event, Written
    <2>2. strand[1].type = "poll"
      BY <1>11, RunsPoll DEF Is
    <2>3. Moves(1, 0) \/ (Moves(1, 1) /\ (Added = Event("poll", 0) \/ \E o : Added = Written(o)))
      BY <1>11, RunsPoll
    <2> QED BY <2>1, <2>2, <2>3 DEF Touches
  <1>12. ASSUME NEW types \in SUBSET Answering, Ready(types), Notify(Head(strand))
         PROVE  Touches(Answering \cup {"timer"})
    <2>1. strand[1].type \in Answering /\ Woke(strand[1])
      BY <1>12, Notifies DEF Is
    <2>2. \A o : Event("timer", o).type = "timer"
      BY DEF Event
    <2>3. Moves(1, 0) \/ (Moves(1, 1) /\ Added.type = "timer")
      BY <2>1, <2>2 DEF Woke
    <2> QED BY <2>1, <2>3 DEF Touches
  <1>13. ASSUME RunConnack \/ RunFinal \/ RunPubrec PROVE Touches(Answering \cup {"timer"})
    <2>1. /\ {"connack", "connack_present"} \in SUBSET Answering /\ {"pubrec"} \in SUBSET Answering
          /\ {"suback", "unsuback", "puback", "pubrec_error", "pubcomp", "connack_refused"}
            \in SUBSET Answering
      BY DEF Answering
    <2> QED BY <1>12, <1>13, <2>1 DEF RunConnack, RunFinal, RunPubrec
  <1>14. ASSUME NEW what \in {"publish", "error"}, Ready({what}), Put(what)
         PROVE  Touches({what, "wake"})
    <2>1. Event("wake", 0).type = "wake"
      BY DEF Event
    <2>2. Moves(1, 0) \/ (Moves(1, 1) /\ Added.type = "wake")
      BY <1>14, <2>1, RunsPut
    <2>3. strand[1].type = what
      BY <1>14, RunsPut DEF Is
    <2> QED BY <2>2, <2>3 DEF Touches
  <1>15. ASSUME RunPublish PROVE Touches({"publish", "wake"})
    BY <1>14, <1>15 DEF RunPublish
  <1>16. ASSUME RunError PROVE Touches({"error", "wake"})
    BY <1>14, <1>16 DEF RunError
  <1>17. ASSUME RunTimer PROVE Touches({"timer"})
    BY <1>17, RunsTimer DEF Touches, Is
  <1>18. ASSUME RunWake PROVE Touches({"wake"})
    BY <1>18, RunsWake DEF Touches, Is
  <1> QED BY <1>1, <1>2, <1>3, <1>4, <1>5, <1>6, <1>7, <1>8, <1>9, <1>10, <1>11, <1>13, <1>15,
             <1>16, <1>17, <1>18
-------------------------------------------------------------------------------
\* async_recv and the receive loop.
LEMMA WakesStay ==
  ASSUME Wakes, Calm({"wake"}), inbox'.recv = inbox.recv,
         inbox' = inbox \/ (inbox.recv # "waiting" /\ inbox'.queue # <<>>)
  PROVE  Wakes'
  <1>1. PICK d \in {0, 1} :
          /\ \A i \in 1..Len(strand) :
               Is(i, {"wake"}) => i - d \in 1..Len(strand') /\ strand'[i - d] = strand[i]
          /\ \A i \in 1..Len(strand') :
               strand'[i].type = "wake" => i + d \in 1..Len(strand) /\ strand[i + d] = strand'[i]
    BY DEF Calm
  <1>2. \A i \in 1..Len(strand') : Is(i, {"wake"})' => Is(i + d, {"wake"})
    BY <1>1 DEF Is
  <1>3. \A i \in 1..Len(strand) : Is(i, {"wake"}) => Is(i - d, {"wake"})'
    BY <1>1 DEF Is
  <1>4. ASSUME NEW i \in 1..Len(strand'), NEW j \in 1..Len(strand'),
               Is(i, {"wake"})', Is(j, {"wake"})'
        PROVE  i = j
    <2>1. i + d \in 1..Len(strand) /\ j + d \in 1..Len(strand)
      BY <1>2, <1>4 DEF Is
    <2>2. i + d = j + d
      BY <1>2, <1>4, <2>1 DEF Wakes
    <2> QED BY <2>2
  <1>5. inbox.recv = "woken" => \E i \in 1..Len(strand') : Is(i, {"wake"})'
    BY <1>1, <1>3 DEF Wakes
  <1>6. \A i \in 1..Len(strand') : Is(i, {"wake"})' => inbox.recv = "woken"
    BY <1>1, <1>2 DEF Wakes, Is
  <1> QED BY <1>4, <1>5, <1>6 DEF Wakes

\* async_recv and its timer agree after every step.
LEMMA WakesNext ==
  ASSUME Typed, Wakes, Entries, Claims, Timers, Writes, Next
  PROVE  Wakes'
  <1>1. ASSUME inbox' = inbox, NEW touched, Touches(touched), "wake" \notin touched
        PROVE  Wakes'
    <2>1. Calm({"wake"})
      BY <1>1, Calms
    <2> QED BY <1>1, <2>1, WakesStay
  <1>2. CASE Recv
    <2>1. inbox.recv = "idle" /\ inbox' = Take(inbox) /\ strand' = strand
      BY <1>2 DEF Recv
    <2>2. \A i \in 1..Len(strand) : ~Is(i, {"wake"})
      BY <2>1 DEF Wakes
    <2>3. inbox'.recv # "woken" /\ (inbox'.recv = "waiting" => inbox'.queue = <<>> /\ ~inbox'.inserted)
      BY <2>1 DEF Take, Typed
    <2> QED BY <2>1, <2>2, <2>3 DEF Wakes, Is
  <1>3. ASSUME inbox.recv = "waiting", inbox'.recv = "woken",
               inbox'.inserted => inbox'.queue # <<>>,
               NEW d \in {0, 1}, Moves(d, 1), Added.type = "wake"
        PROVE  Wakes'
    <2>1. \A i \in 1..Len(strand) : strand[i].type # "wake"
      BY <1>3 DEF Wakes, Is
    <2>2. \A i \in 1..Len(strand') : strand'[i].type = "wake" => i = Len(strand')
      BY <1>3, <2>1 DEF Moves
    <2>3. Len(strand') \in 1..Len(strand') /\ strand'[Len(strand')].type = "wake"
      BY <1>3 DEF Moves, Added
    <2>4. \E i \in 1..Len(strand') : Is(i, {"wake"})'
      BY <2>3 DEF Is
    <2> QED BY <1>3, <2>2, <2>4 DEF Wakes, Is
  <1>4. CASE CancelRecv
    <2>1. inbox.recv = "waiting" /\ inbox' = [inbox EXCEPT !.recv = "woken"]
          /\ strand' = Append(strand, Event("wake", 0))
      BY <1>4 DEF CancelRecv
    <2>2. Moves(0, 1) /\ Added.type = "wake"
      BY <2>1, Readies DEF Event
    <2>3. ~inbox.inserted
      BY <2>1 DEF Wakes
    <2>4. inbox'.recv = "woken" /\ ~inbox'.inserted
      BY <2>1, <2>3 DEF Typed
    <2> QED BY <1>3, <2>1, <2>2, <2>4
  <1>5. ASSUME NEW what \in {"publish", "error"}, Ready({what}), Put(what)
        PROVE  Wakes'
    <2>1. /\ strand[1].type = what
          /\ inbox' = [queue |-> Append(inbox.queue, what), inserted |-> TRUE,
                       recv |-> IF inbox.recv = "waiting" THEN "woken" ELSE inbox.recv]
          /\ \/ inbox.recv = "waiting" /\ Moves(1, 1) /\ Added = Event("wake", 0)
             \/ inbox.recv # "waiting" /\ Moves(1, 0)
      BY <1>5, RunsPut DEF Is
    <2>2. inbox'.queue # <<>> /\ inbox'.inserted
      <3>1. \A q \in Seq({"publish", "error"}) : Append(q, what) # <<>>
        OBVIOUS
      <3> QED BY <2>1, <3>1 DEF Typed
    <2>3. CASE inbox.recv = "waiting"
      <3>1. Added.type = "wake" /\ inbox'.recv = "woken"
        BY <2>1, <2>3 DEF Event
      <3> QED BY <1>3, <2>1, <2>2, <2>3, <3>1
    <2>4. CASE inbox.recv # "waiting"
      <3>1. Moves(1, 0) /\ inbox'.recv = inbox.recv
        BY <2>1, <2>4
      <3>2. Touches({what})
        BY <2>1, <3>1 DEF Touches
      <3>3. Calm({"wake"})
        BY <3>2, Calms
      <3> QED BY <2>2, <2>4, <3>1, <3>3, WakesStay
    <2> QED BY <2>3, <2>4
  <1>6. CASE RunWake
    <2>1. /\ Is(1, {"wake"}) /\ 1 \in 1..Len(strand) /\ Moves(1, 0)
          /\ inbox' = [inbox EXCEPT !.recv = "idle",
                                    !.queue = IF inbox.inserted THEN Tail(@) ELSE @]
      BY <1>6, RunsWake
    <2>2. inbox'.recv = "idle"
      BY <2>1 DEF Typed
    <2>3. ASSUME NEW i \in 1..Len(strand'), strand'[i].type = "wake" PROVE FALSE
      <3>1. i + 1 \in 1..Len(strand) /\ strand[i + 1].type = "wake"
        BY <2>1, <2>3 DEF Moves
      <3>2. i + 1 = 1
        BY <2>1, <3>1 DEF Wakes, Is
      <3> QED BY <3>2
    <2> QED BY <2>2, <2>3 DEF Wakes, Is
  <1>7. /\ (\A o \in Ops :
              /\ Start(o) \/ Disconnect(o) \/ Cancel(o) => inbox' = inbox
              /\ \A pid, kind : Call(o, kind, pid) => inbox' = inbox
              /\ \A pid, kind : Invalid(o, pid) \/ CallOffline(o, kind, pid) => inbox' = inbox)
        /\ Connect \/ Deliver \/ Down => inbox' = inbox
        /\ \A b, type : Answer(b, type) => inbox' = inbox
        /\ RunConnack \/ RunFinal \/ RunPubrec => inbox' = inbox
    BY DEF Start, Disconnect, Cancel, Call, Invalid, CallOffline, Connect, Deliver, Down, Answer,
           RunConnack, RunFinal, RunPubrec
  <1>8. /\ RunWritten \/ RunPollNone \/ RunPollClosed \/ RunPollWritten \/ RunPollWrite
             => inbox' = inbox
        /\ RunTimer => inbox' = inbox
    BY RunsWritten, RunsPoll, RunsTimer
  <1>9. "wake" \notin Answering \cup {"timer"} /\ "wake" \notin Answering
    BY DEF Answering
  <1>10. CASE RunPublish
    BY <1>5, <1>10 DEF RunPublish
  <1>11. CASE RunError
    BY <1>5, <1>11 DEF RunError
  <1>12. ASSUME NEW o \in Ops,
                \/ Start(o) \/ Cancel(o) \/ Disconnect(o)
                \/ \E pid, kind : Call(o, kind, pid) \/ CallOffline(o, kind, pid)
                \/ \E pid : Invalid(o, pid)
         PROVE  Wakes'
    <2>1. inbox' = inbox /\ (Touches({"written"}) \/ Touches({"timer"}) \/ Touches({}))
      BY <1>7, <1>12, Touched
    <2> QED BY <1>1, <2>1
  <1>13. CASE Connect
    BY <1>1, <1>7, <1>13, Touched
  <1>14. CASE Deliver
    <2>1. Touches({"publish"}) /\ inbox' = inbox
      BY <1>7, <1>14, Touched
    <2> QED BY <1>1, <2>1
  <1>15. CASE Down
    <2>1. Touches({"error"}) /\ inbox' = inbox
      BY <1>7, <1>15, Touched
    <2> QED BY <1>1, <2>1
  <1>16. ASSUME NEW b \in broker, NEW type \in Answers(b.type), Answer(b, type) PROVE Wakes'
    BY <1>1, <1>7, <1>9, <1>16, Touched
  <1>17. CASE RunWritten \/ RunPollNone \/ RunPollClosed \/ RunPollWritten \/ RunPollWrite
    BY <1>1, <1>8, <1>17, Touched
  <1>18. CASE RunConnack \/ RunFinal \/ RunPubrec
    BY <1>1, <1>7, <1>9, <1>18, Touched
  <1>19. CASE RunTimer
    <2>1. Touches({"timer"}) /\ inbox' = inbox
      BY <1>8, <1>19, Touched
    <2> QED BY <1>1, <2>1
  <1> QED BY <1>2, <1>4, <1>6, <1>10, <1>11, <1>12, <1>13, <1>14, <1>15, <1>16, <1>17, <1>18,
             <1>19, Cases
-------------------------------------------------------------------------------
\* The operation o goes from one phase to another, and the others stay where they are.
Advances(o, from, to) ==
  /\ o \in Ops /\ op[o].phase = from /\ op'[o].phase = to
  /\ \A q \in Ops : q # o => op'[q] = op[q]
  /\ from # "new" => op'[o].kind = op[o].kind /\ op'[o].pid = op[o].pid
  /\ to # "done" => op'[o].of = op[o].of /\ op'[o].result = op[o].result

\* A new operation gets its kind and a packet id that is free, or 0.
Named(o, kind, pid) ==
  /\ op'[o].kind = kind /\ op'[o].pid = pid /\ kind \in AllKinds
  /\ kind \in WithoutId => pid = 0
  /\ kind \notin WithoutId => pid # 0 /\ pid \in 1..MaxPid /\ pid \notin ep.used

\* How an operation moves when it is called,
LEMMA AdvancesBegin ==
  ASSUME Typed, NEW o \in Ops, NEW kind, NEW pid \in 0..MaxPid, Begin(o, kind, pid)
  PROVE  /\ op' = Begun(o, kind, pid) => Advances(o, "new", "sending") /\ Named(o, kind, pid)
         /\ op' = Finish(Begun(o, kind, pid), o, "invalid") =>
              Advances(o, "new", "done") /\ Named(o, kind, pid) /\ op'[o].of = op[o].of
         /\ (Sent(Begun(o, kind, pid), o) /\ kind \in Publishing) =>
              Advances(o, "new", "waiting") /\ Named(o, kind, pid)
  <1> DEFINE ops == Begun(o, kind, pid)
  <1>1. /\ kind \in AllKinds /\ op[o].phase = "new" /\ ops \in [Ops -> Calls]
        /\ kind \in WithoutId => pid = 0
        /\ kind \notin WithoutId => pid # 0 /\ pid \notin ep.used /\ pid \in 1..MaxPid
    BY Begins
  <1>2. /\ ops[o].kind = kind /\ ops[o].pid = pid /\ ops[o].phase = "sending"
        /\ ops[o].of = op[o].of /\ ops[o].result = op[o].result
        /\ \A q \in Ops : q # o => ops[q] = op[q]
    BY Begins
  <1> HIDE DEF ops
  <1>3. ASSUME op' = ops PROVE Advances(o, "new", "sending") /\ Named(o, kind, pid)
    BY <1>1, <1>2, <1>3 DEF Advances, Named
  <1>4. ASSUME op' = Finish(ops, o, "invalid")
        PROVE  Advances(o, "new", "done") /\ Named(o, kind, pid) /\ op'[o].of = op[o].of
    <2>1. /\ op'[o].phase = "done" /\ op'[o].kind = kind /\ op'[o].pid = pid
          /\ op'[o].of = op[o].of /\ \A q \in Ops : q # o => op'[q] = op[q]
      BY <1>1, <1>2, <1>4 DEF Finish, Calls
    <2> QED BY <1>1, <2>1 DEF Advances, Named
  <1>5. ASSUME Sent(ops, o), kind \in Publishing
        PROVE  Advances(o, "new", "waiting") /\ Named(o, kind, pid)
    <2>1. op' = [ops EXCEPT ![o].phase = "waiting"]
      BY <1>2, <1>5, Completes DEF Publishing
    <2>2. /\ op'[o].phase = "waiting" /\ op'[o].kind = kind /\ op'[o].pid = pid
          /\ op'[o].of = op[o].of /\ op'[o].result = op[o].result
          /\ \A q \in Ops : q # o => op'[q] = op[q]
      BY <1>1, <1>2, <2>1 DEF Calls
    <2> QED BY <1>1, <2>2 DEF Advances, Named
  <1> QED BY <1>3, <1>4, <1>5 DEF ops

\* The entries after an operation has entered its timer.
Entered(o) ==
  IF \E e \in col : e.pid = op'[o].pid THEN col' = col
  ELSE col' = col \cup {[pid |-> op'[o].pid, op |-> o, got |-> {}]}

\* when its send completes,
LEMMA AdvancesSent ==
  ASSUME Typed, NEW o \in Ops, op[o].phase = "sending", Sent(op, o)
  PROVE  \/ /\ Advances(o, "sending", "done") /\ op'[o].of = op[o].of
            /\ op[o].kind \in {"pub0", "disconnect", "auth"} /\ col' = col
         \/ Advances(o, "sending", "waiting") /\ op[o].kind \in Answered /\ Entered(o)
  <1>1. op \in [Ops -> Calls]
    BY DEF Typed
  <1>2. CASE op' = Finish(op, o, "sent") /\ col' = col /\ op[o].kind \in {"pub0", "disconnect", "auth"}
    <2>1. /\ op'[o].phase = "done" /\ op'[o].kind = op[o].kind /\ op'[o].pid = op[o].pid
          /\ op'[o].of = op[o].of /\ \A q \in Ops : q # o => op'[q] = op[q]
      BY <1>1, <1>2 DEF Finish, Calls
    <2> QED BY <1>2, <2>1 DEF Advances
  <1>3. CASE op' = [op EXCEPT ![o].phase = "waiting"] /\ col' = Enter(op, o) /\ op[o].kind \in Answered
    <2>1. /\ op'[o].phase = "waiting" /\ op'[o].kind = op[o].kind /\ op'[o].pid = op[o].pid
          /\ op'[o].of = op[o].of /\ op'[o].result = op[o].result
          /\ \A q \in Ops : q # o => op'[q] = op[q]
      BY <1>1, <1>3 DEF Calls
    <2> QED BY <1>3, <2>1 DEF Advances, Entered, Enter
  <1> QED BY <1>2, <1>3, Completes

\* when its send fails,
LEMMA AdvancesFailed ==
  ASSUME Typed, NEW o \in Ops, op[o].phase = "sending", Failed(o)
  PROVE  Advances(o, "sending", "done") /\ op'[o].of = op[o].of /\ col' = col
  <1>1. op \in [Ops -> Calls] /\ op' = [op EXCEPT ![o].phase = "done", ![o].result = "failed"]
        /\ col' = col
    BY FailedRange DEF Typed
  <1>2. /\ op'[o].phase = "done" /\ op'[o].kind = op[o].kind /\ op'[o].pid = op[o].pid
        /\ op'[o].of = op[o].of /\ \A q \in Ops : q # o => op'[q] = op[q]
    BY <1>1 DEF Calls
  <1> QED BY <1>1, <1>2 DEF Advances

\* when its timer is cancelled,
LEMMA AdvancesWoken ==
  ASSUME Typed, NEW o \in Ops, op[o].phase = "waiting", op' = [op EXCEPT ![o].phase = "woken"]
  PROVE  Advances(o, "waiting", "woken")
  <1>1. op \in [Ops -> Calls]
    BY DEF Typed
  <1>2. /\ op'[o].phase = "woken" /\ op'[o].kind = op[o].kind /\ op'[o].pid = op[o].pid
        /\ op'[o].of = op[o].of /\ op'[o].result = op[o].result
        /\ \A q \in Ops : q # o => op'[q] = op[q]
    BY <1>1 DEF Calls
  <1> QED BY <1>2 DEF Advances

\* and when it completes.
LEMMA AdvancesEnded ==
  ASSUME Typed, NEW o \in Ops, op[o].phase = "woken", NEW result, NEW of, Ended(o, result, of)
  PROVE  Advances(o, "woken", "done") /\ op'[o].of = of /\ op'[o].result = result
  <1>1. op \in [Ops -> Calls]
        /\ op' = [op EXCEPT ![o].phase = "done", ![o].result = result, ![o].of = of]
    BY DEF Typed, Ended
  <1>2. /\ op'[o].phase = "done" /\ op'[o].kind = op[o].kind /\ op'[o].pid = op[o].pid
        /\ op'[o].of = of /\ op'[o].result = result
        /\ \A q \in Ops : q # o => op'[q] = op[q]
    BY <1>1 DEF Calls
  <1> QED BY <1>2 DEF Advances

\* What a call does whose packet is sent: async_start, async_disconnect and the others.
WritesAtOnce(o, kind) ==
  /\ stream.busy = 0 /\ stream' = [stream EXCEPT !.busy = o]
  /\ Moves(0, 1) /\ Added = Written(o)
  /\ broker' = broker \cup {b \in {[type |-> kind, op |-> o]} : net = "up" /\ kind \in Answered}
\* The two outcomes of a call that sends: written at once, or at the end of the queue.
WaitsToWrite(o) ==
  /\ stream.busy # 0 /\ strand' = strand /\ broker' = broker
  /\ stream' = [stream EXCEPT !.queue = Append(@, o),
                              !.storing = IF stream.bulk THEN @ \cup {o} ELSE @]
\* An operation is called: it sends its packet under a packet id that no one uses.
NewCall(o, kind, pid) ==
  /\ Advances(o, "new", "sending") /\ Named(o, kind, pid) /\ kind # "invalid"
  /\ \/ kind = "start" /\ ep.status = "closed" /\ ep'.status = "connecting" /\ net = "up"
     \/ kind = "disconnect" /\ ep.status = "connected" /\ ep'.status = "disconnecting"
     \/ kind \notin {"start", "disconnect"} /\ ep.status = "connected" /\ ep'.status = "connected"
  /\ ep'.used = ep.used \cup ({pid} \ {0})
  /\ ep'.stored = ep.stored \cup {s \in {[type |-> kind, op |-> o]} : kind \in Publishing}
  /\ WritesAtOnce(o, kind) \/ WaitsToWrite(o)
  /\ UNCHANGED <<col, net, inbox, lost>>

\* A call writes at once or queues,
LEMMA NewSends ==
  ASSUME Typed, NEW o \in Ops, op' \in [Ops -> Calls], Send(op', o)
  PROVE  WritesAtOnce(o, op'[o].kind) \/ WaitsToWrite(o)
  <1>1. Reached(op', {o}) = broker \cup {b \in {[type |-> op'[o].kind, op |-> o]} :
                                          net = "up" /\ op'[o].kind \in Answered}
    BY DEF Reached
  <1> QED BY <1>1, Sends DEF WritesAtOnce, WaitsToWrite

\* and the actions that send are such calls.
LEMMA NewCalls ==
  ASSUME Typed, Progress, Typed', NEW o \in Ops
  PROVE  /\ Start(o) => NewCall(o, "start", 0)
         /\ Disconnect(o) => NewCall(o, "disconnect", 0)
         /\ \A pid \in 0..MaxPid, kind \in {"sub", "unsub", "auth", "pub0"} \cup Publishing :
              Call(o, kind, pid) => NewCall(o, kind, pid)
  <1>0. ep.used \cup ({0} \ {0}) = ep.used /\ 0 \in 0..MaxPid
    BY ClientAssumption
  <1>1. ASSUME Start(o) PROVE NewCall(o, "start", 0)
    <2>1. Begin(o, "start", 0) /\ op' = Begun(o, "start", 0) /\ Send(op', o)
          /\ ep.status = "closed" /\ net = "up" /\ ep' = [ep EXCEPT !.status = "connecting"]
          /\ UNCHANGED <<col, net, inbox, lost, count>>
      BY <1>1 DEF Start
    <2>2. Advances(o, "new", "sending") /\ Named(o, "start", 0)
      BY <1>0, <2>1, AdvancesBegin
    <2>3. WritesAtOnce(o, "start") \/ WaitsToWrite(o)
      BY <2>1, <2>2, NewSends DEF Typed, Named
    <2>4. ep'.status = "connecting" /\ ep'.used = ep.used /\ ep'.stored = ep.stored
      BY <2>1 DEF Typed
    <2> QED BY <1>0, <2>1, <2>2, <2>3, <2>4 DEF NewCall, Publishing
  <1>2. ASSUME Disconnect(o) PROVE NewCall(o, "disconnect", 0)
    <2>1. Begin(o, "disconnect", 0) /\ op' = Begun(o, "disconnect", 0) /\ Send(op', o)
          /\ ep.status = "connected" /\ ep' = [ep EXCEPT !.status = "disconnecting"]
          /\ UNCHANGED <<col, net, inbox, lost, count>>
      BY <1>2 DEF Disconnect
    <2>2. Advances(o, "new", "sending") /\ Named(o, "disconnect", 0)
      BY <1>0, <2>1, AdvancesBegin
    <2>3. WritesAtOnce(o, "disconnect") \/ WaitsToWrite(o)
      BY <2>1, <2>2, NewSends DEF Typed, Named
    <2>4. ep'.status = "disconnecting" /\ ep'.used = ep.used /\ ep'.stored = ep.stored
      BY <2>1 DEF Typed
    <2> QED BY <1>0, <2>1, <2>2, <2>3, <2>4 DEF NewCall, Publishing
  <1>3. ASSUME NEW pid \in 0..MaxPid, NEW kind \in {"sub", "unsub", "auth", "pub0"} \cup Publishing,
               Call(o, kind, pid)
        PROVE  NewCall(o, kind, pid)
    <2>1. Begin(o, kind, pid) /\ op' = Begun(o, kind, pid) /\ Send(op', o)
          /\ ep.status = "connected" /\ ep' = Holding(o, kind, pid)
          /\ UNCHANGED <<col, net, inbox, lost, count>>
      BY <1>3 DEF Call
    <2>2. Advances(o, "new", "sending") /\ Named(o, kind, pid)
      BY <2>1, AdvancesBegin
    <2>3. WritesAtOnce(o, kind) \/ WaitsToWrite(o)
      BY <2>1, <2>2, NewSends DEF Typed, Named
    <2>4. /\ ep'.status = "connected" /\ ep'.used = ep.used \cup ({pid} \ {0})
          /\ ep'.stored = ep.stored \cup {s \in {[type |-> kind, op |-> o]} : kind \in Publishing}
      BY <2>1, HoldsRange
    <2>5. kind \notin {"invalid", "start", "disconnect"}
      BY DEF Publishing
    <2> QED BY <2>1, <2>2, <2>3, <2>4, <2>5 DEF NewCall
  <1> QED BY <1>1, <1>2, <1>3

\* A call that completes at once, and one that is stored without a connection.
NewHolding(o, kind, pid) ==
  /\ Named(o, kind, pid) /\ ep'.status = ep.status
  /\ ep'.used = ep.used \cup ({pid} \ {0})
  /\ ep'.stored = ep.stored \cup {s \in {[type |-> kind, op |-> o]} : kind \in Publishing}
  /\ UNCHANGED <<strand, stream, net, broker, inbox, lost>>
\* A call with bad arguments, and one that only stores its packet.
Refused(o, pid) ==
  Advances(o, "new", "done") /\ NewHolding(o, "invalid", pid) /\ op'[o].of = op[o].of /\ col' = col
Postponed(o, kind, pid) ==
  /\ Advances(o, "new", "waiting") /\ NewHolding(o, kind, pid) /\ Entered(o)
  /\ kind \in Publishing /\ ep.status # "connected"

\* The other two calls are those.
LEMMA NewOthers ==
  ASSUME Typed, NEW o \in Ops, NEW pid \in 0..MaxPid
  PROVE  /\ Invalid(o, pid) => Refused(o, pid)
         /\ \A kind \in Publishing : CallOffline(o, kind, pid) => Postponed(o, kind, pid)
  <1>1. ASSUME Invalid(o, pid) PROVE Refused(o, pid)
    <2>1. Advances(o, "new", "done") /\ Named(o, "invalid", pid) /\ op'[o].of = op[o].of
      BY <1>1, AdvancesBegin DEF Invalid
    <2> QED BY <1>1, <2>1, HoldsRange DEF Invalid, Refused, NewHolding
  <1>2. ASSUME NEW kind \in Publishing, CallOffline(o, kind, pid) PROVE Postponed(o, kind, pid)
    <2>1. Begin(o, kind, pid) /\ Sent(Begun(o, kind, pid), o)
      BY <1>2 DEF CallOffline
    <2>2. Advances(o, "new", "waiting") /\ Named(o, kind, pid)
      BY <2>1, AdvancesBegin
    <2>3. Begun(o, kind, pid)[o].pid = pid /\ Begun(o, kind, pid)[o].kind = kind
      BY <2>1, Begins
    <2>4. col' = Enter(Begun(o, kind, pid), o)
      BY <2>1, <2>3, Completes DEF Publishing
    <2>5. Entered(o)
      BY <2>2, <2>3, <2>4 DEF Entered, Enter, Named
    <2>6. /\ ep' = Holding(o, kind, pid) /\ ep.status # "connected"
          /\ UNCHANGED <<strand, stream, net, broker, inbox, lost>>
      BY <1>2 DEF CallOffline
    <2>7. NewHolding(o, kind, pid)
      BY <2>2, <2>6, HoldsRange DEF NewHolding
    <2> QED BY <2>2, <2>5, <2>6, <2>7 DEF Postponed
  <1> QED BY <1>1, <1>2
-------------------------------------------------------------------------------
\* The operation an action moves on, if any.
Onwards ==
  \/ op' = op
  \/ \E o \in Ops :
       \/ \E kind, pid : NewCall(o, kind, pid)
       \/ \E pid : Refused(o, pid)
       \/ \E kind, pid : Postponed(o, kind, pid)
       \/ Advances(o, "waiting", "woken")
       \/ Advances(o, "sending", "waiting") /\ op[o].kind \in Answered
       \/ Advances(o, "sending", "done") /\ op'[o].of = op[o].of
       \/ Advances(o, "woken", "done")

\* The steps of the write queue move the operation at work, or the next one.
LEMMA WrittenMoves ==
  ASSUME Typed, Writes, RunWritten
  PROVE  LET o == strand[1].op IN
         \/ /\ ~strand[1].ok /\ Failed(o) /\ Advances(o, "sending", "done")
            /\ op'[o].of = op[o].of /\ col' = col
         \/ /\ strand[1].ok /\ ep' = ep
            /\ Advances(o, "sending", "done") /\ op'[o].of = op[o].of /\ col' = col
            /\ op[o].kind \in {"pub0", "disconnect", "auth"}
         \/ /\ strand[1].ok /\ ep' = ep
            /\ Advances(o, "sending", "waiting") /\ op[o].kind \in Answered /\ Entered(o)
  BY RunsWritten, AdvancesSent, AdvancesFailed

\* How operations and the strand move when the write queue runs on,
LEMMA PollMoves ==
  ASSUME Typed, Writes, RunPollNone \/ RunPollClosed \/ RunPollWritten \/ RunPollWrite
  PROVE  LET o == stream.queue[1] IN
         \/ /\ stream.queue = <<>> /\ stream' = [stream EXCEPT !.busy = 0] /\ Moves(1, 0)
            /\ UNCHANGED <<op, col, ep, broker>>
         \/ /\ Turned /\ ep.status = "closed" /\ Failed(o) /\ Advances(o, "sending", "done")
            /\ op'[o].of = op[o].of /\ col' = col
            /\ Moves(1, 1) /\ Added = Event("poll", 0) /\ broker' = broker
         \/ /\ Turned /\ ep.status # "closed" /\ Batch = {}
            /\ Moves(1, 1) /\ Added = Event("poll", 0) /\ UNCHANGED <<ep, broker>>
            /\ \/ /\ Advances(o, "sending", "done") /\ op'[o].of = op[o].of /\ col' = col
                  /\ op[o].kind \in {"pub0", "disconnect", "auth"}
               \/ Advances(o, "sending", "waiting") /\ op[o].kind \in Answered /\ Entered(o)
         \/ /\ Turned /\ ep.status # "closed" /\ Batch # {}
            /\ Moves(1, 1) /\ Added = Written(o)
            /\ broker' = Reached(op, Batch) /\ UNCHANGED <<op, col, ep>>
  BY RunsPoll, AdvancesSent, AdvancesFailed DEF Turned

\* when an answer is heard,
LEMMA WokenMoves ==
  ASSUME Typed, Entries, Woke(strand[1])
  PROVE  \/ Moves(1, 0) /\ op' = op
         \/ \E o \in Ops : /\ Advances(o, "waiting", "woken") /\ op[o].pid = op[strand[1].op].pid
                           /\ Moves(1, 1) /\ Added = Event("timer", o)
                           /\ HasEntry(o) /\ Ends(strand[1].type)
  <1>1. CASE Moves(1, 0) /\ op' = op
    BY <1>1
  <1>2. ASSUME NEW e \in col, e.pid = op[strand[1].op].pid, Ends(strand[1].type),
               op[e.op].phase = "waiting", Moves(1, 1), Added = Event("timer", e.op),
               op' = [op EXCEPT ![e.op].phase = "woken"]
        PROVE  \E o \in Ops : /\ Advances(o, "waiting", "woken") /\ op[o].pid = op[strand[1].op].pid
                             /\ Moves(1, 1) /\ Added = Event("timer", o)
                             /\ HasEntry(o) /\ Ends(strand[1].type)
    <2>1. e.op \in Ops /\ e.pid = op[e.op].pid /\ HasEntry(e.op)
      BY DEF Entries, Typed, HasEntry
    <2> QED BY <1>2, <2>1, AdvancesWoken
  <1> QED BY <1>1, <1>2 DEF Woke

\* when a timer runs,
LEMMA TimerMoves ==
  ASSUME Typed, Timers, RunTimer
  PROVE  Advances(strand[1].op, "woken", "done")
  BY RunsTimer, AdvancesEnded

\* and when the application cancels.
LEMMA CancelMoves ==
  ASSUME Typed, NEW o \in Ops, Cancel(o)
  PROVE  /\ Advances(o, "waiting", "woken") /\ Moves(0, 1) /\ Added = Event("timer", o)
         /\ UNCHANGED <<col, stream, ep, net, broker, inbox, lost>>
  BY AdvancesWoken, Readies DEF Cancel

\* The answer at the head of the strand reaches the client.
Hears == /\ 1 \in 1..Len(strand) /\ strand[1].op \in Ops /\ Of(1, Answering, strand[1].op)
         /\ Head(strand) = strand[1]
         /\ Filled(strand[1]) /\ Woke(strand[1]) /\ UNCHANGED <<stream, net, inbox, count>>
\* The three actions that hear an answer take it from the head of the strand.
LEMMA Hearing ==
  ASSUME Typed, Entries, Claims, RunConnack \/ RunFinal \/ RunPubrec
  PROVE  Hears
  <1>1. /\ {"connack", "connack_present"} \in SUBSET Answering /\ {"pubrec"} \in SUBSET Answering
        /\ {"suback", "unsuback", "puback", "pubrec_error", "pubcomp", "connack_refused"}
            \in SUBSET Answering
    BY DEF Answering
  <1> QED BY <1>1, Notifies DEF RunConnack, RunFinal, RunPubrec, Hears

\* Every step moves one operation at most, and one phase on.
LEMMA Moved ==
  ASSUME Typed, Typed', Progress, Entries, Claims, Timers, Writes, Next
  PROVE  Onwards
  <1>1. ASSUME NEW o \in Ops, Start(o) \/ Disconnect(o) PROVE Onwards
    BY <1>1, NewCalls DEF Onwards
  <1>2. ASSUME NEW o \in Ops, Cancel(o) PROVE Onwards
    BY <1>2, CancelMoves DEF Onwards
  <1>3. ASSUME NEW o \in Ops, NEW pid \in 0..MaxPid,
               NEW kind \in {"sub", "unsub", "auth", "pub0"} \cup Publishing, Call(o, kind, pid)
        PROVE  Onwards
    BY <1>3, NewCalls DEF Onwards
  <1>4. ASSUME NEW o \in Ops, NEW pid \in 0..MaxPid, Invalid(o, pid) PROVE Onwards
    BY <1>4, NewOthers DEF Onwards
  <1>5. ASSUME NEW o \in Ops, NEW pid \in 0..MaxPid, NEW kind \in Publishing,
               CallOffline(o, kind, pid)
        PROVE  Onwards
    BY <1>5, NewOthers DEF Onwards
  <1>6. CASE RunWritten
    <2>1. strand[1].op \in Ops
      BY <1>6, RunsWritten
    <2> QED BY <1>6, <2>1, WrittenMoves DEF Onwards
  <1>7. CASE RunPollNone \/ RunPollClosed \/ RunPollWritten \/ RunPollWrite
    BY <1>7, PollMoves DEF Onwards, Turned
  <1>8. CASE RunConnack \/ RunFinal \/ RunPubrec
    BY <1>8, Hearing, WokenMoves DEF Onwards, Hears
  <1>9. CASE RunTimer
    BY <1>9, TimerMoves DEF Onwards, Advances
  <1>10. ASSUME NEW b, NEW type, Answer(b, type) PROVE Onwards
    BY <1>10 DEF Answer, Onwards
  <1>11. CASE Connect \/ Recv \/ CancelRecv \/ Deliver \/ Down \/ RunPublish \/ RunError
    BY <1>11 DEF Connect, Recv, CancelRecv, Deliver, Down, RunPublish, RunError, Onwards
  <1>12. CASE RunWake
    BY <1>12, RunsWake DEF Onwards
  <1> QED BY <1>1, <1>2, <1>3, <1>4, <1>5, <1>6, <1>7, <1>8, <1>9, <1>10, <1>11, <1>12, Cases

\* What the client remembers of its operations stays consistent.
LEMMA ProgressNext ==
  ASSUME Typed, Typed', Progress, Onwards
  PROVE  Progress'
  <1>1. CASE op' = op
    BY <1>1 DEF Progress
  <1>2. ASSUME NEW o \in Ops, NEW from, NEW to, Advances(o, from, to), from \notin {"new", "done"}, to # "new",
               op[o].kind # "invalid" \/ to = "done",
               to \in {"waiting", "woken"} => op[o].kind \in Answered
        PROVE  Progress'
    <2>1. ASSUME NEW q \in Ops, q # o PROVE op'[q] = op[q]
      BY <1>2, <2>1 DEF Advances
    <2>2. /\ op'[o].phase = to /\ op'[o].kind = op[o].kind /\ op'[o].pid = op[o].pid
          /\ op[o].phase = from /\ (to # "done" => op'[o].of = op[o].of)
      BY <1>2 DEF Advances
    <2>3. to # "done" => from # "done"
      BY <1>2
    <2> QED BY <1>2, <2>1, <2>2, <2>3 DEF Progress
  <1>3. ASSUME NEW o \in Ops, NEW kind, NEW pid, NEW to,
               Advances(o, "new", to), Named(o, kind, pid), to # "new",
               kind # "invalid" \/ to = "done",
               to \in {"waiting", "woken"} => kind \in Answered
        PROVE  Progress'
    <2>1. kind # ""
      BY <1>3 DEF Named, AllKinds, WithoutId, Requesting, Publishing
    <2> QED BY <1>3, <2>1 DEF Progress, Advances, Named
  <1>4. "" \notin Answered /\ "invalid" \notin Answered
    BY DEF Answered, Requesting, Publishing
  <1>5. ASSUME NEW o \in Ops,
               \/ \E kind, pid : NewCall(o, kind, pid)
               \/ \E pid : Refused(o, pid)
               \/ \E kind, pid : Postponed(o, kind, pid)
        PROVE  Progress'
    <2>1. Publishing \subseteq Answered /\ "invalid" \notin Publishing
      BY DEF Answered, Publishing
    <2> QED BY <1>3, <1>5, <2>1 DEF NewCall, Refused, Postponed, NewHolding
  <1>6. ASSUME NEW o \in Ops,
               \/ Advances(o, "waiting", "woken")
               \/ Advances(o, "sending", "waiting") /\ op[o].kind \in Answered
               \/ Advances(o, "sending", "done") /\ op'[o].of = op[o].of
               \/ Advances(o, "woken", "done")
        PROVE  Progress'
    <2>1. op[o].phase = "waiting" => op[o].kind \in Answered
      BY DEF Progress
    <2> QED BY <1>2, <1>4, <1>6, <2>1 DEF Advances
  <1> QED BY <1>1, <1>5, <1>6 DEF Onwards
\* The cases of Next, once more, by what they leave alone.
LEMMA Steps ==
  ASSUME Typed, Typed', Progress, Entries, Claims, Timers, Writes, Next
  PROVE  \/ \E o \in Ops : \E kind, pid :
              NewCall(o, kind, pid) \/ Refused(o, pid) \/ Postponed(o, kind, pid)
         \/ \E o \in Ops : Cancel(o)
         \/ \E b \in broker : \E type \in Answers(b.type) : Answer(b, type)
         \/ RunWritten \/ (RunPollNone \/ RunPollClosed \/ RunPollWritten \/ RunPollWrite)
         \/ RunConnack \/ RunFinal \/ RunPubrec \/ RunTimer \/ Down \/ RunError
         \/ /\ UNCHANGED <<op, col, stream, ep, broker, lost>> /\ Touches({"publish", "wake"})
            /\ net' = net \/ (net = "down" /\ net' = "up" /\ ep.status = "closed" /\ strand = <<>>)
  <1>1. ASSUME NEW o \in Ops, Start(o) \/ Disconnect(o)
        PROVE  \E kind, pid : NewCall(o, kind, pid)
    BY <1>1, NewCalls
  <1>2. ASSUME NEW o \in Ops, NEW pid \in 0..MaxPid,
               NEW kind \in {"sub", "unsub", "auth", "pub0"} \cup Publishing, Call(o, kind, pid)
        PROVE  NewCall(o, kind, pid)
    BY <1>2, NewCalls
  <1>3. ASSUME NEW o \in Ops, NEW pid \in 0..MaxPid, NEW kind \in Publishing
        PROVE  /\ Invalid(o, pid) => Refused(o, pid)
               /\ CallOffline(o, kind, pid) => Postponed(o, kind, pid)
    BY NewOthers
  <1>4. ASSUME NEW types \in SUBSET {"publish", "wake"}, Touches(types)
        PROVE  Touches({"publish", "wake"})
    BY <1>4 DEF Touches
  <1>5. CASE Connect \/ Recv \/ CancelRecv \/ Deliver \/ RunPublish \/ RunWake
    <2>1. Touches({"publish", "wake"})
      BY <1>4, <1>5, Touched
    <2>2. UNCHANGED <<op, col, stream, ep, broker, lost>>
      BY <1>5 DEF Connect, Recv, CancelRecv, Deliver, RunPublish, RunWake
    <2>3. net' = net \/ (net = "down" /\ net' = "up" /\ ep.status = "closed" /\ strand = <<>>)
      BY <1>5 DEF Connect, Recv, CancelRecv, Deliver, RunPublish, RunWake
    <2> QED BY <2>1, <2>2, <2>3
  <1>6. Publishing # {}
    BY DEF Publishing
  <1> QED BY <1>1, <1>2, <1>3, <1>5, <1>6, Cases
-------------------------------------------------------------------------------
\* Where the events that stay are found.
Shifted(types, d) ==
  /\ \A i \in 1..Len(strand) : Is(i, types) =>
       i - d \in 1..Len(strand') /\ Is(i - d, types)' /\ strand'[i - d] = strand[i]
  /\ \A i \in 1..Len(strand') : Is(i, types)' =>
       i + d \in 1..Len(strand) /\ Is(i + d, types) /\ strand[i + d] = strand'[i]

\* Events that stay, stay in their order.
LEMMA CalmShifts ==
  ASSUME NEW types, Calm(types)
  PROVE  \E d \in {0, 1} : Shifted(types, d)
  <1>1. PICK d \in {0, 1} :
          /\ \A i \in 1..Len(strand) :
               Is(i, types) => i - d \in 1..Len(strand') /\ strand'[i - d] = strand[i]
          /\ \A i \in 1..Len(strand') :
               strand'[i].type \in types => i + d \in 1..Len(strand) /\ strand[i + d] = strand'[i]
    BY DEF Calm
  <1>2. \A i \in 1..Len(strand) : Is(i, types) =>
          i - d \in 1..Len(strand') /\ Is(i - d, types)' /\ strand'[i - d] = strand[i]
    BY <1>1 DEF Is
  <1>3. \A i \in 1..Len(strand') : Is(i, types)' =>
          i + d \in 1..Len(strand) /\ Is(i + d, types) /\ strand[i + d] = strand'[i]
    BY <1>1 DEF Is
  <1> QED BY <1>2, <1>3 DEF Shifted

\* One event more, at the end l: those of its types that were there stay.
AddedAt(l, types, d) ==
  /\ l = Len(strand') /\ l \in Nat /\ l >= 1 /\ strand'[l] = Added /\ Is(l, types)'
  /\ \A i \in 1..Len(strand) : Is(i, types) =>
       i - d \in 1..l /\ i - d < l /\ Is(i - d, types)' /\ strand'[i - d] = strand[i]
  /\ \A i \in 1..l : Is(i, types)' => i = l \/
       (i + d \in 1..Len(strand) /\ Is(i + d, types) /\ strand[i + d] = strand'[i])
\* The one event of its types that a step adds is the last one.
LEMMA AddsOne ==
  ASSUME NEW types, NEW d \in {0, 1}, Moves(d, 1), Added.type \in types,
         d = 1 => strand[1].type \notin types
  PROVE  \E l : AddedAt(l, types, d)
  <1>1. PICK l : l = Len(strand')
    OBVIOUS
  <1>2. Len(strand) \in Nat /\ d <= Len(strand) /\ l = Len(strand) - d + 1
        /\ \A i \in 1..(Len(strand) - d) : strand'[i] = strand[i + d]
    BY <1>1 DEF Moves
  <1>3. l \in Nat /\ l >= 1 /\ l \in 1..l
    BY <1>2
  <1>4. strand'[l] = Added /\ Is(l, types)'
    BY <1>1, <1>3 DEF Added, Is
  <1>5. ASSUME NEW i \in 1..Len(strand), Is(i, types)
        PROVE  i - d \in 1..l /\ i - d < l /\ Is(i - d, types)' /\ strand'[i - d] = strand[i]
    <2>1. i # 1 \/ d # 1
      BY <1>5 DEF Is
    <2>2. i - d \in 1..l /\ i - d < l /\ i - d \in 1..(Len(strand) - d) /\ i - d + d = i
      BY <1>2, <2>1
    <2>3. strand'[i - d] = strand[i]
      BY <1>2, <2>2
    <2> QED BY <1>1, <1>5, <2>2, <2>3 DEF Is
  <1>6. ASSUME NEW i \in 1..l, Is(i, types)', i # l
        PROVE  i + d \in 1..Len(strand) /\ Is(i + d, types) /\ strand[i + d] = strand'[i]
    <2>1. i \in 1..(Len(strand) - d) /\ i + d \in 1..Len(strand)
      BY <1>2, <1>6
    <2> QED BY <1>2, <1>6, <2>1 DEF Is
  <1> QED BY <1>1, <1>3, <1>4, <1>5, <1>6 DEF AddedAt

\* The event at the head goes: the others of its types stay.
LEMMA DropsOne ==
  ASSUME NEW types, NEW n \in {0, 1}, Moves(1, n), strand[1].type \in types,
         n = 1 => Added.type \notin types
  PROVE  /\ \A i \in 1..Len(strand) : Is(i, types) => i = 1 \/
              (i - 1 \in 1..Len(strand') /\ Is(i - 1, types)' /\ strand'[i - 1] = strand[i])
         /\ \A i \in 1..Len(strand') : Is(i, types)' =>
              i + 1 \in 1..Len(strand) /\ Is(i + 1, types) /\ strand[i + 1] = strand'[i]
  <1>1. \A i \in 1..Len(strand) : i = 1 \/ (i - 1 \in 1..Len(strand') /\ strand'[i - 1] = strand[i])
    BY DEF Moves
  <1>2. \A i \in 1..Len(strand') : Is(i, types)' => ~(n = 1 /\ i = Len(strand'))
    BY DEF Added, Is
  <1>3. \A i \in 1..Len(strand') : Is(i, types)' =>
          i + 1 \in 1..Len(strand) /\ strand[i + 1] = strand'[i]
    BY <1>2 DEF Moves
  <1> QED BY <1>1, <1>3 DEF Is

\* Timers and woken operations agree when neither changes,
LEMMA TimersStay ==
  ASSUME Timers, Calm({"timer"}), \A o \in Ops : op'[o].phase = "woken" <=> op[o].phase = "woken"
  PROVE  Timers'
  <1>1. PICK d \in {0, 1} : Shifted({"timer"}, d)
    BY CalmShifts
  <1>2. ASSUME NEW i \in 1..Len(strand'), Is(i, {"timer"})'
        PROVE  strand'[i].op \in Ops /\ op'[strand'[i].op].phase = "woken"
    BY <1>1, <1>2 DEF Timers, Shifted
  <1>3. ASSUME NEW o \in Ops, op'[o].phase = "woken"
        PROVE  \E i \in 1..Len(strand') : Of(i, {"timer"}, o)'
    <2>1. PICK i \in 1..Len(strand) : Of(i, {"timer"}, o)
      BY <1>3 DEF Timers
    <2> QED BY <1>1, <2>1 DEF Shifted, Of
  <1>4. ASSUME NEW i \in 1..Len(strand'), NEW j \in 1..Len(strand'),
               Is(i, {"timer"})', Is(j, {"timer"})', strand'[i].op = strand'[j].op
        PROVE  i = j
    <2>1. i + d = j + d
      BY <1>1, <1>4 DEF Timers, Shifted
    <2> QED BY <2>1
  <1> QED BY <1>2, <1>3, <1>4 DEF Timers

\* when one operation is woken and its timer becomes ready,
LEMMA TimersWoken ==
  ASSUME Timers, NEW o \in Ops, Advances(o, "waiting", "woken"), NEW d \in {0, 1}, Moves(d, 1),
         Added = Event("timer", o), d = 1 => strand[1].type # "timer"
  PROVE  Timers'
  <1>0. Added.type = "timer" /\ Added.op = o
    BY DEF Event
  <1>1. PICK l : AddedAt(l, {"timer"}, d)
    BY <1>0, AddsOne
  <1>2. \A i \in 1..Len(strand) : Is(i, {"timer"}) => strand[i].op # o
    BY DEF Timers, Advances
  <1>3. ASSUME NEW i \in 1..l, Is(i, {"timer"})'
        PROVE  strand'[i].op \in Ops /\ op'[strand'[i].op].phase = "woken"
    <2>1. CASE i = l
      <3>1. strand'[i].op = o
        BY <1>0, <1>1, <2>1 DEF AddedAt
      <3> QED BY <3>1 DEF Advances
    <2>2. CASE i # l
      <3>1. i + d \in 1..Len(strand) /\ Is(i + d, {"timer"}) /\ strand[i + d] = strand'[i]
        BY <1>1, <1>3, <2>2 DEF AddedAt
      <3>2. strand'[i].op \in Ops /\ op[strand'[i].op].phase = "woken" /\ strand'[i].op # o
        BY <1>2, <3>1 DEF Timers
      <3> QED BY <3>2 DEF Advances
    <2> QED BY <2>1, <2>2
  <1>4. ASSUME NEW q \in Ops, op'[q].phase = "woken"
        PROVE  \E i \in 1..l : Of(i, {"timer"}, q)'
    <2>1. CASE q = o
      <3>1. l \in 1..l /\ Is(l, {"timer"})' /\ strand'[l].op = q
        BY <1>0, <1>1, <2>1 DEF AddedAt
      <3> QED BY <3>1 DEF Of
    <2>2. CASE q # o
      <3>1. PICK i \in 1..Len(strand) : Of(i, {"timer"}, q)
        BY <1>4, <2>2 DEF Timers, Advances
      <3>2. i - d \in 1..l /\ Is(i - d, {"timer"})' /\ strand'[i - d].op = q
        BY <1>1, <3>1 DEF Of, AddedAt
      <3> QED BY <3>2 DEF Of
    <2> QED BY <2>1, <2>2
  <1>5. ASSUME NEW i \in 1..l, NEW j \in 1..l,
               Is(i, {"timer"})', Is(j, {"timer"})', strand'[i].op = strand'[j].op
        PROVE  i = j
    <2>1. CASE i = l \/ j = l
      BY <1>0, <1>1, <1>2, <1>5, <2>1 DEF AddedAt
    <2>2. CASE i # l /\ j # l
      <3>1. i + d = j + d
        BY <1>1, <1>5, <2>2 DEF Timers, AddedAt
      <3> QED BY <3>1
    <2> QED BY <2>1, <2>2
  <1>6. l = Len(strand')
    BY <1>1 DEF AddedAt
  <1> QED BY <1>3, <1>4, <1>5, <1>6 DEF Timers

\* and so after every step.
LEMMA TimersNext ==
  ASSUME Typed, Typed', Wakes, Progress, Entries, Claims, Timers, Writes, Next
  PROVE  Timers'
  <1>1. ASSUME NEW touched, Touches(touched), "timer" \notin touched,
               \A o \in Ops : op'[o].phase = "woken" <=> op[o].phase = "woken"
        PROVE  Timers'
    <2>1. Calm({"timer"})
      BY <1>1, Calms
    <2> QED BY <1>1, <2>1, TimersStay
  <1>2. ASSUME NEW o, NEW from, NEW to, Advances(o, from, to), from # "woken", to # "woken"
        PROVE  \A q \in Ops : op'[q].phase = "woken" <=> op[q].phase = "woken"
    BY <1>2 DEF Advances
  <1>3. ASSUME NEW o \in Ops, NEW kind, NEW pid, NewCall(o, kind, pid) PROVE Timers'
    <2>1. \A q \in Ops : op'[q].phase = "woken" <=> op[q].phase = "woken"
      BY <1>2, <1>3 DEF NewCall
    <2>2. CASE strand' = strand
      BY <1>1, <2>1, <2>2, Still
    <2>3. CASE Moves(0, 1) /\ Added = Written(o)
      <3>1. Touches({"written"})
        BY <2>3 DEF Touches, Written
      <3> QED BY <1>1, <2>1, <3>1
    <2> QED BY <1>3, <2>2, <2>3 DEF NewCall, WritesAtOnce, WaitsToWrite
  <1>4. ASSUME NEW o \in Ops, NEW kind, NEW pid, Refused(o, pid) \/ Postponed(o, kind, pid)
        PROVE  Timers'
    <2>1. \A q \in Ops : op'[q].phase = "woken" <=> op[q].phase = "woken"
      BY <1>2, <1>4 DEF Refused, Postponed
    <2>2. strand' = strand
      BY <1>4 DEF Refused, Postponed, NewHolding
    <2> QED BY <1>1, <2>1, <2>2, Still
  <1>5. ASSUME NEW o \in Ops, Cancel(o) PROVE Timers'
    BY <1>5, CancelMoves, TimersWoken
  <1>6. CASE RunConnack \/ RunFinal \/ RunPubrec
    <2>1. Hears /\ strand[1].type # "timer" /\ Woke(strand[1])
      BY <1>6, Hearing DEF Hears, Of, Is, Answering
    <2>2. CASE Moves(1, 0) /\ op' = op
      <3>1. Touches({strand[1].type})
        BY <2>1, <2>2 DEF Touches
      <3> QED BY <1>1, <2>1, <2>2, <3>1
    <2>3. ASSUME NEW o \in Ops, Advances(o, "waiting", "woken"), Moves(1, 1), Added = Event("timer", o)
          PROVE  Timers'
      BY <2>1, <2>3, TimersWoken
    <2> QED BY <2>1, <2>2, <2>3, WokenMoves
  <1>7. CASE RunTimer
    <2>1. /\ Is(1, {"timer"}) /\ 1 \in 1..Len(strand) /\ Moves(1, 0)
          /\ Advances(strand[1].op, "woken", "done")
      BY <1>7, RunsTimer, TimerMoves
    <2>2. /\ \A i \in 1..Len(strand) : Is(i, {"timer"}) => i = 1 \/
               (i - 1 \in 1..Len(strand') /\ Is(i - 1, {"timer"})' /\ strand'[i - 1] = strand[i])
          /\ \A i \in 1..Len(strand') : Is(i, {"timer"})' =>
               i + 1 \in 1..Len(strand) /\ Is(i + 1, {"timer"}) /\ strand[i + 1] = strand'[i]
      <3>1. strand[1].type \in {"timer"}
        BY <2>1 DEF Is
      <3>2. PICK n \in {0, 1} : n = 0
        OBVIOUS
      <3>3. Moves(1, n) /\ (n = 1 => Added.type \notin {"timer"})
        BY <2>1, <3>2
      <3> QED BY <3>1, <3>2, <3>3, DropsOne, Zenon
    <2>3. ASSUME NEW i \in 1..Len(strand'), Is(i, {"timer"})'
          PROVE  strand'[i].op \in Ops /\ op'[strand'[i].op].phase = "woken"
      <3>1. strand[i + 1].op # strand[1].op
        <4>1. i + 1 # 1
          OBVIOUS
        <4> QED BY <2>1, <2>2, <2>3, <4>1 DEF Timers
      <3> QED BY <2>1, <2>2, <2>3, <3>1 DEF Timers, Advances
    <2>4. ASSUME NEW o \in Ops, op'[o].phase = "woken"
          PROVE  \E i \in 1..Len(strand') : Of(i, {"timer"}, o)'
      <3>1. PICK i \in 1..Len(strand) : Of(i, {"timer"}, o)
        BY <2>1, <2>4 DEF Timers, Advances
      <3>2. i # 1
        BY <2>1, <2>4, <3>1 DEF Of, Advances
      <3> QED BY <2>2, <3>1, <3>2 DEF Of
    <2>5. ASSUME NEW i \in 1..Len(strand'), NEW j \in 1..Len(strand'),
                 Is(i, {"timer"})', Is(j, {"timer"})', strand'[i].op = strand'[j].op
          PROVE  i = j
      <3>1. i + 1 = j + 1
        BY <2>2, <2>5 DEF Timers
      <3> QED BY <3>1
    <2> QED BY <2>3, <2>4, <2>5 DEF Timers
  <1>8. CASE RunWritten
    <2>1. \A q \in Ops : op'[q].phase = "woken" <=> op[q].phase = "woken"
      BY <1>2, <1>8, WrittenMoves
    <2> QED BY <1>1, <1>8, <2>1, Touched
  <1>9. CASE RunPollNone \/ RunPollClosed \/ RunPollWritten \/ RunPollWrite
    <2>1. \A q \in Ops : op'[q].phase = "woken" <=> op[q].phase = "woken"
      BY <1>2, <1>9, PollMoves
    <2> QED BY <1>1, <1>9, <2>1, Touched
  <1>10. ASSUME NEW touched, Touches(touched), "timer" \notin touched, op' = op PROVE Timers'
    BY <1>1, <1>10
  <1>11. ASSUME NEW b \in broker, NEW type \in Answers(b.type), Answer(b, type) PROVE Timers'
    <2>1. op' = op /\ Touches(Answering) /\ "timer" \notin Answering
      BY <1>11, Touched DEF Answer, Answering
    <2> QED BY <1>10, <2>1
  <1>12. CASE Down \/ RunError
    <2>1. op' = op /\ (Touches({"error"}) \/ Touches({"error", "wake"}))
      BY <1>12, Touched DEF Down, RunError
    <2> QED BY <1>10, <2>1
  <1> QED BY <1>3, <1>4, <1>5, <1>6, <1>7, <1>8, <1>9, <1>10, <1>11, <1>12, Steps
-------------------------------------------------------------------------------
\* The entries: they go with the operations that wait.
LEMMA EntriesStay ==
  ASSUME Typed, Entries, col' = col, NEW o, NEW from, NEW to,
         op' = op \/ (/\ Advances(o, from, to)
                      /\ from \notin {"waiting", "woken"} \/ to \in {"waiting", "woken"})
  PROVE  Entries'
  <1>1. ASSUME NEW e \in col
        PROVE  e.op \in Ops /\ op'[e.op].phase \in {"waiting", "woken"} /\ e.pid = op'[e.op].pid
    <2>1. e.op \in Ops /\ op[e.op].phase \in {"waiting", "woken"} /\ e.pid = op[e.op].pid
      BY DEF Typed, Entries
    <2> QED BY <2>1 DEF Advances
  <1> QED BY <1>1 DEF Entries
\* The entries fit their operations when one enters,
LEMMA EntriesEnter ==
  ASSUME Typed, Entries, NEW o, NEW from \in {"new", "sending"}, Advances(o, from, "waiting"),
         Entered(o)
  PROVE  Entries'
  <1>1. ASSUME NEW e \in col
        PROVE  e.op \in Ops /\ op'[e.op].phase \in {"waiting", "woken"} /\ e.pid = op'[e.op].pid
    <2>1. e.op \in Ops /\ op[e.op].phase \in {"waiting", "woken"} /\ e.pid = op[e.op].pid
      BY DEF Typed, Entries
    <2> QED BY <2>1 DEF Advances
  <1>2. op'[o].phase = "waiting"
    BY DEF Advances
  <1>3. CASE col' = col
    BY <1>1, <1>3 DEF Entries
  <1>4. CASE /\ \A e \in col : e.pid # op'[o].pid
             /\ col' = col \cup {[pid |-> op'[o].pid, op |-> o, got |-> {}]}
    <2>1. PICK n : n = [pid |-> op'[o].pid, op |-> o, got |-> {}]
      OBVIOUS
    <2>2. n.pid = op'[o].pid /\ n.op = o /\ col' = col \cup {n}
      BY <1>4, <2>1
    <2>3. \A e, f \in col' : e.pid = f.pid => e = f
      BY <1>4, <2>2 DEF Entries
    <2> QED BY <1>1, <1>2, <2>2, <2>3 DEF Entries
  <1> QED BY <1>3, <1>4 DEF Entered
\* when an answer fills one,
LEMMA EntriesFill ==
  ASSUME Typed, Entries, NEW a, Filled(a), op' = op \/ \E o : Advances(o, "waiting", "woken")
  PROVE  Entries'
  <1>1. ASSUME NEW e \in col
        PROVE  e.op \in Ops /\ op'[e.op].phase \in {"waiting", "woken"} /\ e.pid = op'[e.op].pid
    <2>1. e.op \in Ops /\ op[e.op].phase \in {"waiting", "woken"} /\ e.pid = op[e.op].pid
      BY DEF Typed, Entries
    <2> QED BY <2>1 DEF Advances
  <1>2. ASSUME NEW f \in col'
        PROVE  op'[f.op].phase \in {"waiting", "woken"} /\ f.pid = op'[f.op].pid
    <2>1. PICK e \in col : f.pid = e.pid /\ f.op = e.op
      BY DEF Filled
    <2> QED BY <1>1, <2>1
  <1>3. \A e, f \in col' : e.pid = f.pid => e = f
    BY DEF Filled
  <1> QED BY <1>2, <1>3 DEF Entries
\* and so after every step.
LEMMA EntriesNext ==
  ASSUME Typed, Typed', Progress, Entries, Claims, Timers, Writes, Next
  PROVE  Entries'
  <1>1. ASSUME NEW o \in Ops, NEW kind, NEW pid, NewCall(o, kind, pid) \/ Refused(o, pid)
        PROVE  Entries'
    BY <1>1, EntriesStay DEF NewCall, Refused
  <1>2. ASSUME NEW o \in Ops, NEW kind, NEW pid, Postponed(o, kind, pid)
        PROVE  Entries'
    BY <1>2, EntriesEnter DEF Postponed
  <1>3. ASSUME NEW o \in Ops, Cancel(o) PROVE Entries'
    BY <1>3, CancelMoves, EntriesStay
  <1>4. CASE RunConnack \/ RunFinal \/ RunPubrec
    BY <1>4, Hearing, WokenMoves, EntriesFill DEF Hears
  <1>5. CASE RunTimer
    <2>1. Advances(strand[1].op, "woken", "done") /\ col' = {e \in col : e.op # strand[1].op}
      BY <1>5, RunsTimer, TimerMoves
    <2>2. ASSUME NEW e \in col, e.op # strand[1].op
          PROVE  e.op \in Ops /\ op'[e.op].phase \in {"waiting", "woken"} /\ e.pid = op'[e.op].pid
      <3>1. e.op \in Ops /\ op[e.op].phase \in {"waiting", "woken"} /\ e.pid = op[e.op].pid
        BY DEF Typed, Entries
      <3> QED BY <2>1, <2>2, <3>1 DEF Advances
    <2> QED BY <2>1, <2>2 DEF Entries
  <1>6. CASE RunWritten
    BY <1>6, WrittenMoves, EntriesStay, EntriesEnter
  <1>7. CASE RunPollNone \/ RunPollClosed \/ RunPollWritten \/ RunPollWrite
    BY <1>7, PollMoves, EntriesStay, EntriesEnter
  <1>8. CASE op' = op /\ col' = col
    BY <1>8, EntriesStay
  <1>9. ASSUME NEW b, NEW type, Answer(b, type) \/ Down \/ RunError PROVE Entries'
    BY <1>8, <1>9 DEF Answer, Down, RunError
  <1> QED BY <1>1, <1>2, <1>3, <1>4, <1>5, <1>6, <1>7, <1>8, <1>9, Steps
-------------------------------------------------------------------------------
\* The write queue: what does not touch it leaves it as it is.
LEMMA WritesStay ==
  ASSUME Writes, Calm({"written", "poll"}),
         stream'.busy = stream.busy, stream'.queue = stream.queue, stream'.bulk = stream.bulk,
         stream'.storing = stream.storing \/ stream'.storing = {},
         \A o \in Ops : op'[o].phase = "sending" <=> op[o].phase = "sending",
         \A i \in 1..Len(stream.queue) : stream.queue[i] \in Ops
  PROVE  Writes'
  <1>1. PICK d \in {0, 1} : Shifted({"written", "poll"}, d)
    BY CalmShifts
  <1>2. /\ \A i \in 1..Len(strand) : Is(i, {"written", "poll"}) =>
             i - d \in 1..Len(strand') /\ Is(i - d, {"written", "poll"})' /\ strand'[i - d] = strand[i]
        /\ \A i \in 1..Len(strand') : Is(i, {"written", "poll"})' =>
             i + d \in 1..Len(strand) /\ Is(i + d, {"written", "poll"}) /\ strand[i + d] = strand'[i]
    BY <1>1 DEF Shifted
  <1>3. /\ \A i \in 1..Len(strand) : Is(i, {"written"}) => Is(i, {"written", "poll"})
        /\ \A i \in 1..Len(strand') : Is(i, {"written"})' => Is(i, {"written", "poll"})'
    BY DEF Is
  <1>4. \A o \in Ops : Queued(o)' <=> Queued(o)
    BY DEF Queued
  <1>5. \A i, j \in 1..Len(strand') :
          Is(i, {"written", "poll"})' /\ Is(j, {"written", "poll"})' => i = j
    <2> SUFFICES ASSUME NEW i \in 1..Len(strand'), NEW j \in 1..Len(strand'),
                        Is(i, {"written", "poll"})', Is(j, {"written", "poll"})'
                 PROVE  i = j
      OBVIOUS
    <2>1. i + d = j + d
      BY <1>2 DEF Writes
    <2> QED BY <2>1
  <1>6. stream'.busy # 0 => \E i \in 1..Len(strand') : Is(i, {"written", "poll"})'
    BY <1>2 DEF Writes
  <1>7. stream'.busy = 0 => stream'.queue = <<>> /\ \A i \in 1..Len(strand') : ~Is(i, {"written", "poll"})'
    BY <1>2 DEF Writes
  <1>8. ASSUME NEW i \in 1..Len(strand'), Is(i, {"written"})'
        PROVE  (strand[i].op \in Ops /\ op[strand[i].op].phase = "sending" /\ ~Queued(strand[i].op))'
    <2>1. i + d \in 1..Len(strand) /\ Is(i + d, {"written"}) /\ strand[i + d] = strand'[i]
      BY <1>2, <1>3, <1>8 DEF Is
    <2>2. strand[i + d].op \in Ops /\ op[strand[i + d].op].phase = "sending" /\ ~Queued(strand[i + d].op)
      BY <2>1 DEF Writes
    <2> QED BY <2>1, <2>2 DEF Queued
  <1>9. \A i \in 1..Len(stream'.queue) : op'[stream'.queue[i]].phase = "sending"
    BY DEF Writes
  <1>10. ASSUME NEW o \in Ops, op'[o].phase = "sending"
         PROVE  Queued(o)' \/ \E i \in 1..Len(strand') : Of(i, {"written"}, o)'
    <2>1. CASE Queued(o)
      BY <1>4, <2>1
    <2>2. CASE \E i \in 1..Len(strand) : Of(i, {"written"}, o)
      <3>1. PICK i \in 1..Len(strand) : Is(i, {"written"}) /\ strand[i].op = o
        BY <2>2 DEF Of
      <3>2. i - d \in 1..Len(strand') /\ Is(i - d, {"written"})' /\ strand'[i - d].op = o
        BY <1>2, <1>3, <3>1 DEF Is
      <3> QED BY <3>2 DEF Of
    <2> QED BY <1>10, <2>1, <2>2 DEF Writes
  <1>11. \A o \in stream'.storing : Queued(o)'
    BY DEF Writes, Queued
  <1>12. ~stream'.bulk => stream'.storing = {}
    BY DEF Writes
  <1>13. \A i, j \in 1..Len(stream'.queue) : stream'.queue[i] = stream'.queue[j] => i = j
    BY DEF Writes
  <1> QED BY <1>5, <1>6, <1>7, <1>8, <1>9, <1>10, <1>11, <1>12, <1>13 DEF Writes

\* One write event follows the one before it, or it is the only one.
LEMMA OneWrite ==
  ASSUME Writes, NEW d \in {0, 1}, Moves(d, 1), Added.type \in {"written", "poll"},
         IF d = 1 THEN Is(1, {"written", "poll"}) ELSE stream.busy = 0
  PROVE  \E l : /\ l = Len(strand') /\ l \in 1..l /\ strand'[l] = Added
                /\ \A i \in 1..l : strand'[i].type \in {"written", "poll"} => i = l
  <1>1. PICK l : l = Len(strand')
    OBVIOUS
  <1>2. Len(strand) \in Nat /\ d <= Len(strand) /\ l = Len(strand) - d + 1
        /\ \A i \in 1..(Len(strand) - d) : strand'[i] = strand[i + d]
    BY <1>1 DEF Moves
  <1>3. l \in Nat /\ l >= 1 /\ l \in 1..l
    BY <1>2
  <1>4. strand'[l] = Added
    BY <1>1 DEF Added
  <1>5. ASSUME NEW i \in 1..l, strand'[i].type \in {"written", "poll"}, i # l
        PROVE  FALSE
    <2>1. i \in 1..(Len(strand) - d) /\ i + d \in 1..Len(strand) /\ i + d # d
      BY <1>2, <1>5
    <2>2. Is(i + d, {"written", "poll"})
      BY <1>2, <1>5, <2>1 DEF Is
    <2>3. CASE d = 0
      BY <2>1, <2>2, <2>3 DEF Writes
    <2>4. CASE d = 1
      <3>1. 1 \in 1..Len(strand) /\ Is(1, {"written", "poll"})
        BY <2>4 DEF Is
      <3>2. i + d = 1
        BY <2>1, <2>2, <3>1 DEF Writes
      <3> QED BY <2>1, <2>4, <3>2
    <2> QED BY <2>3, <2>4
  <1> QED BY <1>1, <1>3, <1>4, <1>5

\* The writes of a call.
LEMMA WritesCall ==
  ASSUME Typed, Writes, NEW o \in Ops, NEW kind, NEW pid, NewCall(o, kind, pid)
  PROVE  Writes'
  <1>1. /\ op[o].phase = "new" /\ op'[o].phase = "sending" /\ \A q \in Ops : q # o => op'[q] = op[q]
        /\ stream.queue \in Seq(Ops) /\ Len(stream.queue) \in Nat
        /\ \A i \in 1..Len(stream.queue) : stream.queue[i] \in Ops /\ op[stream.queue[i]].phase = "sending"
    BY DEF NewCall, Advances, Typed, Writes
  <1>2. ~Queued(o)
    BY <1>1 DEF Queued
  <1>3. CASE WritesAtOnce(o, kind)
    <2>1. stream.busy = 0 /\ stream' = [stream EXCEPT !.busy = o] /\ Moves(0, 1) /\ Added = Written(o)
      BY <1>3 DEF WritesAtOnce
    <2>2. stream'.busy = o /\ stream'.queue = <<>> /\ stream'.bulk = stream.bulk /\ stream'.storing = {}
      <3>1. stream'.busy = o /\ stream'.queue = stream.queue /\ stream'.bulk = stream.bulk
              /\ stream'.storing = stream.storing
        BY <2>1 DEF Typed
      <3>2. stream.queue = <<>>
        BY <2>1 DEF Writes
      <3>3. stream.storing = {}
        BY <3>2 DEF Writes, Queued
      <3> QED BY <3>1, <3>2, <3>3
    <2>3. Added.type = "written" /\ Added.op = o
      BY <2>1 DEF Written
    <2>4. PICK l : /\ l = Len(strand') /\ l \in 1..l /\ strand'[l] = Added
                   /\ \A i \in 1..l : strand'[i].type \in {"written", "poll"} => i = l
      <3>1. PICK d \in {0, 1} : d = 0
        OBVIOUS
      <3>2. Moves(d, 1) /\ (IF d = 1 THEN Is(1, {"written", "poll"}) ELSE stream.busy = 0)
        BY <2>1, <3>1
      <3> QED BY <2>3, <3>2, OneWrite
    <2>5. 1..Len(stream'.queue) = {} /\ \A q : ~Queued(q)'
      BY <2>2 DEF Queued
    <2>6. \A q \in Ops : op'[q].phase = "sending" => q = o
      <3>1. stream.queue = <<>> /\ \A i \in 1..Len(strand) : ~Is(i, {"written", "poll"})
        BY <2>1 DEF Writes
      <3>2. \A q : ~Queued(q) /\ \A i \in 1..Len(strand) : ~Of(i, {"written"}, q)
        BY <3>1 DEF Queued, Of, Is
      <3> QED BY <1>1, <3>2 DEF Writes
    <2>7. /\ \A i, j \in 1..l : Is(i, {"written", "poll"})' /\ Is(j, {"written", "poll"})' => i = j
          /\ Is(l, {"written"})' /\ Is(l, {"written", "poll"})' /\ Of(l, {"written"}, o)'
      BY <2>3, <2>4 DEF Is, Of
    <2>8. stream'.busy # 0 /\ o # 0
      BY <2>2 DEF Ops, Typed
    <2>9. \A i \in 1..l : Is(i, {"written"})' =>
            (strand[i].op \in Ops /\ op[strand[i].op].phase = "sending" /\ ~Queued(strand[i].op))'
      <3>1. \A i \in 1..l : Is(i, {"written"})' => strand'[i].op = o
        BY <2>3, <2>4 DEF Is
      <3> QED BY <1>1, <2>5, <3>1 DEF Queued
    <2> QED BY <1>1, <2>2, <2>4, <2>5, <2>6, <2>7, <2>8, <2>9 DEF Writes
  <1>4. CASE WaitsToWrite(o)
    <2>1. /\ stream.busy # 0 /\ strand' = strand
          /\ stream' = [stream EXCEPT !.queue = Append(@, o),
                                      !.storing = IF stream.bulk THEN @ \cup {o} ELSE @]
      BY <1>4 DEF WaitsToWrite
    <2>2. /\ stream'.busy = stream.busy /\ stream'.queue = Append(stream.queue, o)
          /\ stream'.bulk = stream.bulk
          /\ stream'.storing = IF stream.bulk THEN stream.storing \cup {o} ELSE stream.storing
      BY <2>1 DEF Typed
    <2>3. /\ Len(stream'.queue) = Len(stream.queue) + 1 /\ stream'.queue[Len(stream.queue) + 1] = o
          /\ \A i \in 1..Len(stream.queue) : stream'.queue[i] = stream.queue[i]
      BY <1>1, <2>2
    <2>4. \A i \in 1..Len(stream'.queue) : i \in 1..Len(stream.queue) \/ i = Len(stream.queue) + 1
      BY <1>1, <2>3
    <2>5. \A q : Queued(q)' <=> Queued(q) \/ q = o
      <3>1. ASSUME NEW q, Queued(q)' PROVE Queued(q) \/ q = o
        BY <2>3, <2>4, <3>1 DEF Queued
      <3>2. ASSUME NEW q, Queued(q) PROVE Queued(q)'
        <4>1. PICK i \in 1..Len(stream.queue) : stream.queue[i] = q
          BY <3>2 DEF Queued
        <4>2. i \in 1..Len(stream'.queue) /\ stream'.queue[i] = q
          BY <1>1, <2>3, <4>1
        <4> QED BY <4>2 DEF Queued
      <3>3. Queued(o)'
        <4>1. Len(stream.queue) + 1 \in 1..Len(stream'.queue)
          BY <1>1, <2>3
        <4> QED BY <2>3, <4>1 DEF Queued
      <3> QED BY <3>1, <3>2, <3>3
    <2>6. \A i \in 1..Len(strand) : Is(i, {"written"}) => strand[i].op # o
      BY <1>1 DEF Writes
    <2>7. \A i, j \in 1..Len(stream'.queue) : stream'.queue[i] = stream'.queue[j] => i = j
      BY <1>1, <1>2, <2>3, <2>4 DEF Writes, Queued
    <2>8. \A i \in 1..Len(stream'.queue) : op'[stream'.queue[i]].phase = "sending"
      BY <1>1, <2>3, <2>4
    <2>9. \A q \in Ops : op'[q].phase = "sending" =>
            Queued(q)' \/ \E i \in 1..Len(strand') : Of(i, {"written"}, q)'
      BY <1>1, <2>1, <2>5 DEF Writes, Of, Is
    <2>10. \A q \in stream'.storing : Queued(q)'
      BY <2>2, <2>5 DEF Writes
    <2>11. \A i \in 1..Len(strand') : Is(i, {"written"})' =>
             (strand[i].op \in Ops /\ op[strand[i].op].phase = "sending" /\ ~Queued(strand[i].op))'
      <3> SUFFICES ASSUME NEW i \in 1..Len(strand'), Is(i, {"written"})'
                   PROVE (strand[i].op \in Ops /\ op[strand[i].op].phase = "sending"
                            /\ ~Queued(strand[i].op))'
        OBVIOUS
      <3>1. PICK q : q = strand[i].op
        OBVIOUS
      <3>2. i \in 1..Len(strand) /\ Is(i, {"written"}) /\ q = strand'[i].op
        BY <2>1, <3>1 DEF Is
      <3>3. q \in Ops /\ op[q].phase = "sending" /\ ~Queued(q) /\ q # o
        BY <2>6, <3>1, <3>2 DEF Writes
      <3>4. op'[q].phase = "sending" /\ ~Queued(q)'
        BY <1>1, <2>5, <3>3
      <3> QED BY <3>2, <3>3, <3>4 DEF Queued
    <2>12. \A i, j \in 1..Len(strand') :
             Is(i, {"written", "poll"})' /\ Is(j, {"written", "poll"})' => i = j
      BY <2>1 DEF Writes, Is
    <2>13. /\ stream'.busy # 0 => \E i \in 1..Len(strand') : Is(i, {"written", "poll"})'
           /\ stream'.busy # 0 /\ (~stream'.bulk => stream'.storing = {})
      BY <2>1, <2>2 DEF Writes, Is
    <2> QED BY <2>7, <2>8, <2>9, <2>10, <2>11, <2>12, <2>13 DEF Writes
  <1> QED BY <1>3, <1>4 DEF NewCall
\* The completion of a write: its operation goes on, the queue is posted.
LEMMA WritesDone ==
  ASSUME Typed, Writes, RunWritten
  PROVE  Writes'
  <1>1. /\ Is(1, {"written"}) /\ strand[1].op \in Ops /\ ~Queued(strand[1].op) /\ 1 \in 1..Len(strand)
        /\ Moves(1, 1) /\ Added = Event("poll", 0) /\ stream' = stream
    BY RunsWritten
  <1>2. PICK to : Advances(strand[1].op, "sending", to) /\ to # "sending"
    BY WrittenMoves
  <1>3. Is(1, {"written", "poll"}) /\ Added.type = "poll"
    BY <1>1 DEF Is, Event
  <1>4. PICK l : /\ l = Len(strand') /\ l \in 1..l /\ strand'[l] = Added
                 /\ \A i \in 1..l : strand'[i].type \in {"written", "poll"} => i = l
    <2>1. PICK d \in {0, 1} : d = 1
      OBVIOUS
    <2>2. Moves(d, 1) /\ (IF d = 1 THEN Is(1, {"written", "poll"}) ELSE stream.busy = 0)
      BY <1>1, <1>3, <2>1
    <2> QED BY <1>3, <2>2, OneWrite
  <1>5. \A i, j \in 1..l : Is(i, {"written", "poll"})' /\ Is(j, {"written", "poll"})' => i = j
    BY <1>4 DEF Is
  <1>6. Is(l, {"written", "poll"})' /\ \A i \in 1..l : ~Is(i, {"written"})'
    BY <1>3, <1>4 DEF Is
  <1>7. stream.busy # 0
    BY <1>1, <1>3 DEF Writes
  <1>8. ASSUME NEW q \in Ops, op'[q].phase = "sending" PROVE Queued(q)'
    <2>1. q # strand[1].op /\ op[q].phase = "sending"
      BY <1>2, <1>8 DEF Advances
    <2>2. \A i \in 1..Len(strand) : Of(i, {"written"}, q) => Is(i, {"written", "poll"})
      BY DEF Of, Is
    <2>3. \A i \in 1..Len(strand) : ~Of(i, {"written"}, q)
      BY <1>1, <1>3, <2>1, <2>2 DEF Writes, Of
    <2>4. Queued(q)
      BY <2>1, <2>3 DEF Writes
    <2> QED BY <1>1, <2>4 DEF Queued
  <1>9. \A i \in 1..Len(stream.queue) :
          stream.queue[i] \in Ops /\ op[stream.queue[i]].phase = "sending" /\ stream.queue[i] # strand[1].op
    BY <1>1 DEF Typed, Writes, Queued
  <1>10. \A i \in 1..Len(stream'.queue) : op'[stream'.queue[i]].phase = "sending"
    BY <1>1, <1>2, <1>9 DEF Advances
  <1>11. \A q \in stream'.storing : Queued(q)'
    BY <1>1 DEF Writes, Queued
  <1> QED BY <1>1, <1>4, <1>5, <1>6, <1>7, <1>8, <1>10, <1>11 DEF Writes

\* The write queue runs: it is empty, or its first goes on, or is at work.
LEMMA WritesTurn ==
  ASSUME Typed, Writes, RunPollNone \/ RunPollClosed \/ RunPollWritten \/ RunPollWrite
  PROVE  Writes'
  <1>1. Is(1, {"poll"}) /\ 1 \in 1..Len(strand) /\ Is(1, {"written", "poll"}) /\ ~Is(1, {"written"})
    BY RunsPoll DEF Is
  <1>2. \A i \in 1..Len(strand) : ~Is(i, {"written"})
    <2>1. \A i \in 1..Len(strand) : Is(i, {"written"}) => Is(i, {"written", "poll"})
      BY DEF Is
    <2> QED BY <1>1, <2>1 DEF Writes
  <1>3. \A q \in Ops : op[q].phase = "sending" => Queued(q)
    BY <1>2 DEF Writes, Of
  <1>4. CASE stream.queue = <<>> /\ stream' = [stream EXCEPT !.busy = 0] /\ Moves(1, 0) /\ op' = op
    <2>1. stream'.busy = 0 /\ stream'.queue = <<>> /\ stream'.bulk = stream.bulk
            /\ stream'.storing = stream.storing
      BY <1>4 DEF Typed
    <2>2. \A q : ~Queued(q) /\ ~Queued(q)'
      BY <1>4, <2>1 DEF Queued
    <2>3. ASSUME NEW i \in 1..Len(strand'), Is(i, {"written", "poll"})' PROVE FALSE
      <3>1. i + 1 \in 1..Len(strand) /\ strand[i + 1] = strand'[i] /\ i + 1 # 1
        BY <1>4 DEF Moves
      <3>2. Is(i + 1, {"written", "poll"})
        BY <2>3, <3>1 DEF Is
      <3>3. i + 1 = 1
        BY <1>1, <3>1, <3>2 DEF Writes
      <3> QED BY <3>1, <3>3
    <2>4. \A i \in 1..Len(strand') : ~Is(i, {"written"})'
      BY <2>3 DEF Is
    <2>5. \A q \in Ops : op'[q].phase # "sending"
      BY <1>3, <1>4, <2>2
    <2>6. \A q \in stream'.storing : Queued(q)'
      BY <2>1, <2>2 DEF Writes
    <2> QED BY <2>1, <2>3, <2>4, <2>5, <2>6 DEF Writes
  <1>5. ASSUME Turned, Moves(1, 1), Added.type \in {"written", "poll"},
               \/ Added.type = "poll" /\ \E to : to # "sending" /\ Advances(stream.queue[1], "sending", to)
               \/ Added = Written(stream.queue[1]) /\ op' = op
        PROVE  Writes'
    <2>1. PICK l : /\ l = Len(strand') /\ l \in 1..l /\ strand'[l] = Added
                   /\ \A i \in 1..l : strand'[i].type \in {"written", "poll"} => i = l
      <3>1. PICK d \in {0, 1} : d = 1
        OBVIOUS
      <3>2. Moves(d, 1) /\ (IF d = 1 THEN Is(1, {"written", "poll"}) ELSE stream.busy = 0)
        BY <1>1, <1>5, <3>1
      <3> QED BY <1>5, <3>2, OneWrite
    <2>2. stream'.busy = stream.queue[1] /\ stream'.queue = Tail(stream.queue)
            /\ stream'.bulk = stream.bulk /\ stream'.storing = {}
      BY <1>5 DEF Turned, Working, Typed
    <2>3. PICK q1 \in Ops : q1 = stream.queue[1] /\ q1 # 0
      BY <1>5 DEF Turned, Ops, Typed
    <2>4. /\ Len(stream.queue) \in Nat /\ Len(stream'.queue) = Len(stream.queue) - 1
          /\ Len(stream.queue) >= 1
          /\ \A i \in 1..(Len(stream.queue) - 1) : stream'.queue[i] = stream.queue[i + 1]
          /\ \A i \in 1..Len(stream.queue) : stream.queue[i] \in Ops
      BY <1>5, <2>2 DEF Turned, Typed
    <2>5. ASSUME NEW i \in 1..Len(stream'.queue)
          PROVE  stream'.queue[i] \in Ops /\ op[stream'.queue[i]].phase = "sending" /\ stream'.queue[i] # q1
      <3>1. i + 1 \in 1..Len(stream.queue) /\ stream'.queue[i] = stream.queue[i + 1] /\ i + 1 # 1
            /\ 1 \in 1..Len(stream.queue)
        BY <2>4
      <3>2. op[stream.queue[i + 1]].phase = "sending" /\ stream.queue[i + 1] # stream.queue[1]
        BY <3>1 DEF Writes
      <3> QED BY <2>3, <2>4, <3>1, <3>2
    <2>6. \A q \in Ops : q # q1 => op'[q] = op[q]
      BY <1>5, <2>3 DEF Advances
    <2>7. \A i \in 1..Len(stream'.queue) : op'[stream'.queue[i]].phase = "sending"
      BY <2>5, <2>6
    <2>8. \A i, j \in 1..Len(stream'.queue) : stream'.queue[i] = stream'.queue[j] => i = j
      <3> SUFFICES ASSUME NEW i \in 1..Len(stream'.queue), NEW j \in 1..Len(stream'.queue),
                          stream'.queue[i] = stream'.queue[j]
                   PROVE  i = j
        OBVIOUS
      <3>1. /\ i + 1 \in 1..Len(stream.queue) /\ j + 1 \in 1..Len(stream.queue)
            /\ stream.queue[i + 1] = stream.queue[j + 1]
        BY <2>4
      <3>2. i + 1 = j + 1
        BY <3>1 DEF Writes
      <3> QED BY <3>2
    <2>9. ASSUME NEW q \in Ops, q # q1, Queued(q) PROVE Queued(q)'
      <3>1. PICK i \in 1..Len(stream.queue) : stream.queue[i] = q
        BY <2>9 DEF Queued
      <3>2. i - 1 \in 1..Len(stream'.queue) /\ stream'.queue[i - 1] = q
        BY <2>3, <2>4, <2>9, <3>1
      <3> QED BY <3>2 DEF Queued
    <2>10. ASSUME NEW q \in Ops, op'[q].phase = "sending"
           PROVE  Queued(q)' \/ \E i \in 1..Len(strand') : Of(i, {"written"}, q)'
      <3>1. CASE q # q1
        BY <1>3, <2>6, <2>9, <2>10, <3>1
      <3>2. CASE q = q1
        <4>1. Added = Written(q1)
          BY <1>5, <2>3, <2>10, <3>2 DEF Advances
        <4>2. Added.type = "written" /\ Added.op = q1
          BY <4>1 DEF Written
        <4>3. Of(l, {"written"}, q)'
          BY <2>1, <3>2, <4>2 DEF Of, Is
        <4> QED BY <2>1, <4>3
      <3> QED BY <3>1, <3>2
    <2>11. ASSUME NEW i \in 1..Len(strand'), Is(i, {"written"})'
           PROVE  (strand[i].op \in Ops /\ op[strand[i].op].phase = "sending" /\ ~Queued(strand[i].op))'
      <3>1. i = l /\ strand'[i] = Added /\ Added.type = "written"
        BY <2>1, <2>11 DEF Is
      <3>2. Added = Written(q1) /\ op' = op
        BY <1>5, <2>3, <3>1
      <3>3. strand'[i].op = q1
        BY <3>1, <3>2 DEF Written
      <3>4. op'[q1].phase = "sending"
        BY <1>5, <2>3, <3>2 DEF Turned
      <3>5. ~Queued(q1)'
        BY <2>5 DEF Queued
      <3> QED BY <3>3, <3>4, <3>5 DEF Queued
    <2>12. /\ \A i, j \in 1..Len(strand') :
                Is(i, {"written", "poll"})' /\ Is(j, {"written", "poll"})' => i = j
           /\ Is(l, {"written", "poll"})' /\ l \in 1..Len(strand')
      BY <1>5, <2>1 DEF Is
    <2> QED BY <2>2, <2>3, <2>7, <2>8, <2>10, <2>11, <2>12 DEF Writes
  <1>6. ASSUME Turned, Moves(1, 1), Added = Event("poll", 0),
               \E to : to # "sending" /\ Advances(stream.queue[1], "sending", to)
        PROVE  Writes'
    BY <1>5, <1>6 DEF Event
  <1>7. ASSUME Turned, Moves(1, 1), Added = Written(stream.queue[1]), op' = op PROVE Writes'
    BY <1>5, <1>7 DEF Written
  <1>8. \/ stream.queue = <<>> /\ stream' = [stream EXCEPT !.busy = 0] /\ Moves(1, 0) /\ op' = op
        \/ /\ Turned /\ Moves(1, 1) /\ Added = Event("poll", 0)
           /\ \E to : to # "sending" /\ Advances(stream.queue[1], "sending", to)
        \/ Turned /\ Moves(1, 1) /\ Added = Written(stream.queue[1]) /\ op' = op
    BY PollMoves
  <1> QED BY <1>4, <1>6, <1>7, <1>8
\* One write at a time: after every step.
LEMMA WritesNext ==
  ASSUME Typed, Typed', Progress, Entries, Claims, Timers, Writes, Next
  PROVE  Writes'
  <1>1. \A i \in 1..Len(stream.queue) : stream.queue[i] \in Ops
    BY DEF Typed
  <1>2. ASSUME NEW touched, Touches(touched), "written" \notin touched, "poll" \notin touched,
               stream'.busy = stream.busy, stream'.queue = stream.queue, stream'.bulk = stream.bulk,
               stream'.storing = stream.storing \/ stream'.storing = {},
               op' = op \/ \E o, from, to :
                 Advances(o, from, to) /\ from # "sending" /\ to # "sending"
        PROVE  Writes'
    <2>1. touched \cap {"written", "poll"} = {}
      BY <1>2
    <2>2. Calm({"written", "poll"})
      BY <1>2, <2>1, Calms
    <2>3. \A o \in Ops : op'[o].phase = "sending" <=> op[o].phase = "sending"
      BY <1>2 DEF Advances
    <2> QED BY <1>1, <1>2, <2>2, <2>3, WritesStay
  <1>3. ASSUME NEW touched, Touches(touched), "written" \notin touched, "poll" \notin touched,
               stream' = stream,
               op' = op \/ \E o, from, to :
                 Advances(o, from, to) /\ from # "sending" /\ to # "sending"
        PROVE  Writes'
    BY <1>2, <1>3
  <1>4. ASSUME NEW o \in Ops, NEW kind, NEW pid, Refused(o, pid) \/ Postponed(o, kind, pid)
        PROVE  Writes'
    <2>1. Touches({}) /\ stream' = stream
      BY <1>4, Still DEF Refused, Postponed, NewHolding
    <2>2. \E to : Advances(o, "new", to) /\ to # "sending"
      BY <1>4 DEF Refused, Postponed
    <2> QED BY <1>3, <2>1, <2>2
  <1>5. ASSUME NEW o \in Ops, Cancel(o) PROVE Writes'
    BY <1>3, <1>5, CancelMoves, Touched
  <1>6. ASSUME NEW b \in broker, NEW type \in Answers(b.type), Answer(b, type) PROVE Writes'
    <2>1. op' = op /\ stream' = stream /\ Touches(Answering)
      BY <1>6, Touched DEF Answer
    <2> QED BY <1>3, <2>1 DEF Answering
  <1>7. CASE RunConnack \/ RunFinal \/ RunPubrec
    <2>1. stream' = stream /\ Touches(Answering \cup {"timer"})
      BY <1>7, Hearing, Touched DEF Hears
    <2>2. op' = op \/ \E o : Advances(o, "waiting", "woken")
      BY <1>7, Hearing, WokenMoves DEF Hears
    <2> QED BY <1>3, <2>1, <2>2 DEF Answering
  <1>8. CASE RunTimer
    BY <1>3, <1>8, RunsTimer, TimerMoves, Touched
  <1>9. CASE Down
    <2>1. Touches({"error"}) /\ stream' = stream /\ op' = op
      BY <1>9, Touched DEF Down
    <2> QED BY <1>3, <2>1
  <1>10. CASE RunError
    <2>1. Touches({"error", "wake"}) /\ op' = op /\ stream' = [stream EXCEPT !.storing = {}]
      BY <1>10, Touched DEF RunError
    <2>2. stream'.busy = stream.busy /\ stream'.queue = stream.queue /\ stream'.bulk = stream.bulk
            /\ stream'.storing = {}
      BY <2>1 DEF Typed
    <2> QED BY <1>2, <2>1, <2>2
  <1>11. CASE UNCHANGED <<op, col, stream, ep, broker, lost>> /\ Touches({"publish", "wake"})
    BY <1>3, <1>11
  <1> QED BY <1>4, <1>5, <1>6, <1>7, <1>8, <1>9, <1>10, <1>11, Steps, WritesCall, WritesDone,
             WritesTurn
-------------------------------------------------------------------------------
\* The connection: what is left of it once it has gone down, and that the broker hears
\* nothing before CONNECT and nothing else before CONNACK.
Broken ==
  /\ net = "down" => broker = {} /\ (ep.status = "closed" \/ \E i \in 1..Len(strand) : Is(i, {"error"}))
  /\ \A i \in 1..Len(strand) : Is(i, {"error"}) => net = "down"
\* A write fails only once the connection is down; the error of the connection comes after
\* every answer; and a closed endpoint is owed no answer.
Failing == \A i \in 1..Len(strand) : Is(i, {"written"}) /\ ~strand[i].ok => net = "down"
ErrorsLast == \A i, j \in 1..Len(strand) : Is(i, {"error"}) /\ Is(j, Answering) => j < i
Closed == /\ ep.status = "closed" => \A o \in Ops : ~Claimed(o)
          /\ net = "up" /\ ep.status = "closed" => stream.busy = 0
Links == Broken /\ Failing /\ ErrorsLast /\ Closed
\* async_start writes CONNECT at once: nothing else is being written.
Connects ==
  /\ ep.status = "connecting" =>
       stream.queue = <<>> /\ \A o \in Ops : Claimed(o) \/ op[o].phase = "sending" => op[o].kind = "start"
  /\ \A o \in Ops : Claimed(o) /\ op[o].kind = "start" => ep.status = "connecting"
  /\ \A o, q \in Ops : Claimed(o) /\ op[o].kind = "start" /\ Claimed(q) /\ op[q].kind = "start" => o = q
  /\ \A o \in Ops : Queued(o) => op[o].kind # "start"

\* No answer comes into the strand.
Hushed ==
  \E d \in {0, 1} : \A i \in 1..Len(strand') : Is(i, Answering)' =>
    i + d \in 1..Len(strand) /\ Is(i + d, Answering) /\ strand[i + d] = strand'[i]

\* A step that touches no answer brings none.
LEMMA Hushes ==
  ASSUME NEW touched, Touches(touched), touched \cap Answering = {}
  PROVE  Hushed /\ Calm(Answering)
  <1>1. Calm(Answering)
    BY Calms
  <1>2. PICK d \in {0, 1} : Shifted(Answering, d)
    BY <1>1, CalmShifts
  <1> QED BY <1>1, <1>2 DEF Shifted, Hushed
\* Hearing an answer takes it away and brings none.
LEMMA HearsHushed ==
  ASSUME Typed, Entries, Claims, Hears
  PROVE  /\ Hushed
         /\ \A i \in 1..Len(strand') : Is(i, Answering)' => strand'[i].op # strand[1].op
         /\ \A b \in broker : b.op # strand[1].op
  <1>1. PICK n \in {0, 1} : Moves(1, n) /\ (n = 1 => Added.type = "timer")
    <2>1. CASE Moves(1, 0)
      <3>1. PICK n \in {0, 1} : n = 0
        OBVIOUS
      <3> QED BY <2>1, <3>1
    <2>2. ASSUME NEW o, Moves(1, 1), Added = Event("timer", o)
          PROVE  \E n \in {0, 1} : Moves(1, n) /\ (n = 1 => Added.type = "timer")
      <3>1. PICK n \in {0, 1} : n = 1
        OBVIOUS
      <3> QED BY <2>2, <3>1 DEF Event
    <2> QED BY <2>1, <2>2, WokenMoves DEF Hears
  <1>2. strand[1].type \in Answering /\ Is(1, Answering) /\ 1 \in 1..Len(strand) /\ strand[1].op \in Ops
    BY DEF Hears, Of, Is
  <1>3. n = 1 => Added.type \notin Answering
    BY <1>1 DEF Answering
  <1>4. \A i \in 1..Len(strand') : Is(i, Answering)' =>
          i + 1 \in 1..Len(strand) /\ Is(i + 1, Answering) /\ strand[i + 1] = strand'[i]
    BY <1>1, <1>2, <1>3, DropsOne
  <1>5. ASSUME NEW i \in 1..Len(strand'), Is(i, Answering)' PROVE strand'[i].op # strand[1].op
    <2>1. i + 1 \in 1..Len(strand) /\ Is(i + 1, Answering) /\ strand[i + 1] = strand'[i] /\ i + 1 # 1
      BY <1>4, <1>5
    <2> QED BY <1>2, <2>1 DEF Claims
  <1>6. ASSUME NEW b \in broker PROVE b.op # strand[1].op
    BY <1>2 DEF Claims, InStrand, Of
  <1> QED BY <1>4, <1>5, <1>6 DEF Hushed

\* The answers left in the strand are still of different operations.
LEMMA HushedOnce ==
  ASSUME Claims, Hushed
  PROVE  /\ \A o : InStrand(o)' => InStrand(o)
         /\ \A i, j \in 1..Len(strand') :
              Is(i, Answering)' /\ Is(j, Answering)' /\ strand'[i].op = strand'[j].op => i = j
  <1>1. PICK d \in {0, 1} : \A i \in 1..Len(strand') : Is(i, Answering)' =>
          i + d \in 1..Len(strand) /\ Is(i + d, Answering) /\ strand[i + d] = strand'[i]
    BY DEF Hushed
  <1>2. ASSUME NEW o, InStrand(o)' PROVE InStrand(o)
    <2>1. PICK i \in 1..Len(strand') : Is(i, Answering)' /\ strand'[i].op = o
      BY <1>2 DEF InStrand, Of
    <2>2. i + d \in 1..Len(strand) /\ Is(i + d, Answering) /\ strand[i + d].op = o
      BY <1>1, <2>1
    <2> QED BY <2>2 DEF InStrand, Of
  <1>3. ASSUME NEW i \in 1..Len(strand'), NEW j \in 1..Len(strand'),
               Is(i, Answering)', Is(j, Answering)', strand'[i].op = strand'[j].op
        PROVE  i = j
    <2>1. i + d = j + d
      BY <1>1, <1>3 DEF Claims
    <2> QED BY <2>1
  <1> QED BY <1>2, <1>3
\* Packets come to the broker, and into the store, that were at no place before.
Fresh(new) ==
  /\ broker' \subseteq broker \cup new
  /\ \A b \in new : /\ b.op \in Ops /\ ~InBroker(b.op) /\ ~InStrand(b.op)'
                    /\ b.type = op'[b.op].kind \/ (b.type = "pubrel" /\ op'[b.op].kind = "pub2")
  /\ \A b, c \in new : b.op = c.op => b = c
  /\ \A o \in Ops : Unwritten(o)' =>
       ~InStrand(o)' /\ (\A b \in broker' \cap broker : b.op # o) /\ (\A b \in new : b.op # o)
\* The store keeps what it had, except what held replaces; kinds are given once.
Storing(held) ==
  /\ ep'.stored \subseteq ep.stored \cup held
  /\ \A s \in held : /\ s.op \in Ops /\ op'[s.op].kind \in Publishing
                     /\ s.type = op'[s.op].kind \/ (s.type = "pubrel" /\ op'[s.op].kind = "pub2")
  /\ \A s \in held : \A t \in ep'.stored : s.op = t.op => s = t
SameKinds == \A q \in Ops : op[q].kind # "" => op'[q].kind = op[q].kind

\* Claims after a step that brings no answer, writes new packets and stores held.
LEMMA ClaimsMove ==
  ASSUME Typed, Claims, Hushed, SameKinds, NEW new, Fresh(new), NEW held, Storing(held)
  PROVE  Claims'
  <1>1. PICK d \in {0, 1} : \A i \in 1..Len(strand') : Is(i, Answering)' =>
          i + d \in 1..Len(strand) /\ Is(i + d, Answering) /\ strand[i + d] = strand'[i]
    BY DEF Hushed
  <1> USE DEF Fresh, Storing, SameKinds
  <1>2. \A o : InStrand(o)' => InStrand(o)
    BY HushedOnce
  <1>3. ASSUME NEW b \in broker'
        PROVE  op'[b.op].kind = b.type \/ (b.type = "pubrel" /\ op'[b.op].kind = "pub2")
    <2>1. CASE b \in broker
      <3>1. /\ b.op \in Ops /\ b.type \in Answered \cup {"pubrel"}
            /\ b.type = op[b.op].kind \/ (b.type = "pubrel" /\ op[b.op].kind = "pub2")
        BY <2>1 DEF Typed, Taken, Claims
      <3>2. op[b.op].kind # ""
        BY <3>1 DEF Answered, Requesting, Publishing
      <3> QED BY <3>1, <3>2
    <2> QED BY <2>1
  <1>4. ASSUME NEW i \in 1..Len(strand'), Is(i, Answering)'
        PROVE  strand'[i].op \in Ops /\ strand'[i].type \in Expected(op'[strand'[i].op].kind)
    <2>1. PICK q : q = strand'[i].op
      OBVIOUS
    <2>2. q \in Ops /\ strand'[i].type \in Expected(op[q].kind)
      BY <1>1, <1>4, <2>1 DEF Claims
    <2>3. op[q].kind # ""
      BY <2>2 DEF Expected, Connacks
    <2> QED BY <2>1, <2>2, <2>3
  <1>5. ASSUME NEW s \in ep'.stored
        PROVE  /\ op'[s.op].kind \in Publishing
               /\ s.type = op'[s.op].kind \/ (s.type = "pubrel" /\ op'[s.op].kind = "pub2")
    <2>1. CASE s \in ep.stored
      <3>1. s.op \in Ops
        BY <2>1 DEF Typed, Held
      <3>2. op[s.op].kind \in Publishing
        BY <2>1 DEF Claims
      <3>3. op[s.op].kind # ""
        BY <3>2 DEF Publishing
      <3> QED BY <2>1, <3>1, <3>3 DEF Claims
    <2> QED BY <2>1
  <1>6. \A b, c \in broker' : b.op = c.op => b = c
    BY DEF Claims, InBroker
  <1>7. \A i, j \in 1..Len(strand') :
          Is(i, Answering)' /\ Is(j, Answering)' /\ strand'[i].op = strand'[j].op => i = j
    BY HushedOnce
  <1>8. \A b \in broker' : ~InStrand(b.op)'
    BY <1>2 DEF Claims
  <1>9. \A s, t \in ep'.stored : s.op = t.op => s = t
    BY DEF Claims
  <1>10. \A o \in Ops : Unwritten(o)' => ~Claimed(o)'
    BY DEF Claimed, InBroker
  <1> QED BY <1>3, <1>4, <1>5, <1>6, <1>7, <1>8, <1>9, <1>10 DEF Claims
\* No operation changes its kind.
LEMMA SamesKinds ==
  ASSUME Typed, Progress, Onwards
  PROVE  SameKinds
  <1>1. ASSUME NEW o, NEW from, NEW to, Advances(o, from, to) PROVE SameKinds
    BY <1>1 DEF Advances, Progress, SameKinds
  <1> QED BY <1>1 DEF Onwards, SameKinds, NewCall, Refused, Postponed
\* Nothing of an operation that has not been called is on its way.
LEMMA Unclaimed ==
  ASSUME Typed, Claims, NEW o \in Ops, op[o].kind = ""
  PROVE  ~Claimed(o) /\ ~IsStored(o)
  <1>1. ASSUME NEW b \in broker PROVE b.op # o
    BY DEF Claims, Typed, Taken, Answered, Requesting, Publishing
  <1>2. ~InStrand(o)
    BY DEF Claims, InStrand, Of, Expected, Connacks
  <1>3. ~IsStored(o)
    BY DEF Claims, IsStored, Publishing
  <1> QED BY <1>1, <1>2, <1>3 DEF Claimed, InBroker

\* What comes to the broker: nothing, or packets that had not been written.
LEMMA FreshNone ==
  ASSUME Claims, Hushed, broker' \subseteq broker,
         \A o \in Ops : Unwritten(o)' => Unwritten(o) \/ ~Claimed(o)
  PROVE  Fresh({})
  <1>1. \A o : InStrand(o)' => InStrand(o)
    BY HushedOnce
  <1>2. \A o \in Ops : Unwritten(o)' => ~Claimed(o)
    BY DEF Claims
  <1> QED BY <1>1, <1>2 DEF Fresh, Claimed, InBroker
\* Packets that were not on their way may be written.
LEMMA FreshWritten ==
  ASSUME Claims, Hushed, NEW S \in SUBSET Ops,
         broker' \subseteq broker \cup {[type |-> op'[o].kind, op |-> o] : o \in S},
         \A o \in S : ~Claimed(o) /\ ~Unwritten(o)',
         \A o \in Ops : Unwritten(o)' => Unwritten(o)
  PROVE  \E new : Fresh(new)
  <1>1. PICK new : new = {[type |-> op'[o].kind, op |-> o] : o \in S}
    OBVIOUS
  <1>2. \A b \in new : b.op \in S /\ b = [type |-> op'[b.op].kind, op |-> b.op]
    BY <1>1
  <1>3. \A o : InStrand(o)' => InStrand(o)
    BY HushedOnce
  <1>4. \A o \in Ops : Unwritten(o)' => ~Claimed(o)
    BY DEF Claims
  <1>5. \A b \in new : /\ b.op \in Ops /\ ~InBroker(b.op) /\ ~InStrand(b.op)'
                       /\ b.type = op'[b.op].kind
    <2> SUFFICES ASSUME NEW b \in new
                 PROVE  b.op \in Ops /\ ~InBroker(b.op) /\ ~InStrand(b.op)' /\ b.type = op'[b.op].kind
      OBVIOUS
    <2>1. PICK o \in S : b = [type |-> op'[o].kind, op |-> o]
      BY <1>1
    <2>2. b.op = o /\ b.type = op'[o].kind
      BY <2>1
    <2> QED BY <1>3, <2>2 DEF Claimed
  <1>6. \A b, c \in new : b.op = c.op => b = c
    BY <1>2
  <1>7. \A o \in Ops : Unwritten(o)' =>
          ~InStrand(o)' /\ (\A b \in broker' \cap broker : b.op # o) /\ (\A b \in new : b.op # o)
    BY <1>2, <1>3, <1>4 DEF Claimed, InBroker
  <1> QED BY <1>1, <1>5, <1>6, <1>7 DEF Fresh
\* A store that only shrinks holds nothing new.
LEMMA StoringNone ==
  ASSUME ep'.stored \subseteq ep.stored
  PROVE  Storing({})
  BY DEF Storing

\* What the write queue leaves unwritten when it runs.
LEMMA UnwrittenTurn ==
  ASSUME Typed, Writes, Turned
  PROVE  /\ \A o : Queued(o)' => Queued(o) /\ o # stream.queue[1]
         /\ \A o : Unwritten(o)' => Unwritten(o) /\ o \notin Batch
         /\ Batch \subseteq Ops /\ \A o \in Batch : Unwritten(o) /\ Queued(o)
  <1>1. /\ Head(stream.queue) = stream.queue[1] /\ 1 \in 1..Len(stream.queue) /\ stream.queue[1] \in Ops
        /\ Len(Tail(stream.queue)) = Len(stream.queue) - 1 /\ Len(stream.queue) \in Nat
        /\ \A i \in 1..(Len(stream.queue) - 1) : Tail(stream.queue)[i] = stream.queue[i + 1]
    BY DEF Turned
  <1>2. stream'.queue = Tail(stream.queue) /\ stream'.bulk = stream.bulk /\ stream'.storing = {}
    BY DEF Turned, Working, Typed
  <1>3. ASSUME NEW o, Queued(o)' PROVE Queued(o) /\ o # stream.queue[1]
    <2>1. PICK i \in 1..(Len(stream.queue) - 1) : Tail(stream.queue)[i] = o
      BY <1>1, <1>2, <1>3 DEF Queued
    <2>2. i + 1 \in 1..Len(stream.queue) /\ stream.queue[i + 1] = o /\ i + 1 # 1
      BY <1>1, <2>1
    <2> QED BY <1>1, <2>2 DEF Queued, Writes
  <1>4. Queued(stream.queue[1])
    BY <1>1 DEF Queued
  <1>5. ASSUME stream.bulk
        PROVE  /\ \A o : Unwritten(o)' => Unwritten(o) /\ o \notin Batch
               /\ Batch \subseteq Ops /\ \A o \in Batch : Unwritten(o) /\ Queued(o)
    BY <1>2, <1>5 DEF Unwritten, Batch, Writes, Typed
  <1>6. ASSUME ~stream.bulk
        PROVE  /\ \A o : Unwritten(o)' => Unwritten(o) /\ o \notin Batch
               /\ Batch \subseteq Ops /\ \A o \in Batch : Unwritten(o) /\ Queued(o)
    BY <1>1, <1>2, <1>3, <1>4, <1>6 DEF Unwritten, Batch
  <1> QED BY <1>3, <1>5, <1>6

\* The claims, step by step.
LEMMA ClaimsCall ==
  ASSUME Typed, Typed', Progress, Claims, Writes, NEW o \in Ops, NEW kind, NEW pid,
         NewCall(o, kind, pid)
  PROVE  Claims'
  <1>1. op[o].kind = "" /\ op'[o].kind = kind
    BY DEF NewCall, Advances, Named, Progress
  <1>2. ~Claimed(o) /\ ~IsStored(o)
    BY <1>1, Unclaimed
  <1>3. SameKinds
    BY <1>1 DEF NewCall, Advances, SameKinds
  <1>4. \E held : Storing(held)
    <2>1. PICK held : held = {s \in {[type |-> kind, op |-> o]} : kind \in Publishing}
      OBVIOUS
    <2>2. ep'.stored = ep.stored \cup held
      BY <2>1 DEF NewCall
    <2>3. \A s \in held : s.op = o /\ s.type = kind /\ kind \in Publishing
      BY <2>1
    <2>4. \A s, t \in held : s = t
      BY <2>1
    <2>5. \A s \in ep.stored : s.op # o
      BY <1>2 DEF IsStored
    <2>6. \A s \in held : /\ s.op \in Ops /\ op'[s.op].kind \in Publishing
                            /\ s.type = op'[s.op].kind
      BY <1>1, <2>3
    <2>7. \A s \in held : \A t \in ep'.stored : s.op = t.op => s = t
      BY <2>2, <2>3, <2>4, <2>5
    <2>8. Storing(held)
      BY <2>2, <2>6, <2>7 DEF Storing
    <2> QED BY <2>8
  <1>5. CASE WritesAtOnce(o, kind)
    <2>1. Touches({"written"})
      <3>1. Moves(0, 1) /\ Added.type = "written"
        BY <1>5 DEF WritesAtOnce, Written
      <3> QED BY <3>1 DEF Touches
    <2>2. Hushed
      BY <2>1, Hushes DEF Answering
    <2>3. stream.queue = <<>> /\ stream'.queue = <<>> /\ stream'.bulk = stream.bulk
            /\ stream'.storing = stream.storing
      BY <1>5 DEF WritesAtOnce, Writes, Typed
    <2>4. \A q : ~Unwritten(q)'
      BY <2>3 DEF Unwritten, Writes, Queued
    <2>5. broker' \subseteq broker \cup {[type |-> op'[p].kind, op |-> p] : p \in {o}}
      BY <1>1, <1>5 DEF WritesAtOnce
    <2>6. \E new : Fresh(new)
      <3>1. {o} \in SUBSET Ops /\ \A p \in {o} : ~Claimed(p) /\ ~Unwritten(p)'
        BY <1>2, <2>4
      <3> QED BY <2>2, <2>4, <2>5, <3>1, FreshWritten
    <2> QED BY <1>3, <1>4, <2>2, <2>6, ClaimsMove
  <1>6. CASE WaitsToWrite(o)
    <2>1. Touches({}) /\ broker' = broker
      BY <1>6, Still DEF WaitsToWrite
    <2>2. Hushed
      BY <2>1, Hushes
    <2>3. stream'.queue = Append(stream.queue, o) /\ stream'.bulk = stream.bulk
            /\ stream'.storing = IF stream.bulk THEN stream.storing \cup {o} ELSE stream.storing
      BY <1>6 DEF WaitsToWrite, Typed
    <2>4. ASSUME NEW q \in Ops, Queued(q)', q # o PROVE Queued(q)
      <3>1. stream.queue \in Seq(Ops)
        BY DEF Typed
      <3>2. PICK i \in 1..Len(stream'.queue) : stream'.queue[i] = q
        BY <2>4 DEF Queued
      <3>3. i \in 1..Len(stream.queue) /\ stream.queue[i] = q
        BY <2>3, <2>4, <3>1, <3>2
      <3> QED BY <3>3 DEF Queued
    <2>5. \A q \in Ops : Unwritten(q)' => Unwritten(q) \/ q = o
      BY <2>3, <2>4 DEF Unwritten
    <2>6. Fresh({})
      BY <1>2, <2>1, <2>2, <2>5, FreshNone
    <2> QED BY <1>3, <1>4, <2>2, <2>6, ClaimsMove
  <1> QED BY <1>5, <1>6 DEF NewCall
\* The answer that is heard is of the kind of its operation.
LEMMA HearsKind ==
  ASSUME Typed, Entries, Claims
  PROVE  /\ RunConnack \/ RunFinal \/ RunPubrec =>
              /\ Claimed(strand[1].op) /\ strand[1].op \in Ops
              /\ \A q \in Ops : op'[q].kind = op[q].kind /\ op'[q].pid = op[q].pid
         /\ RunConnack => op[strand[1].op].kind = "start"
         /\ RunPubrec => op[strand[1].op].kind = "pub2"
         /\ RunFinal => op[strand[1].op].kind # "start" \/ strand[1].type = "connack_refused"
  <1>1. CASE RunConnack \/ RunFinal \/ RunPubrec
    <2>1. Hears
      BY <1>1, Hearing
    <2>2. /\ 1 \in 1..Len(strand) /\ Of(1, Answering, strand[1].op) /\ strand[1].op \in Ops
          /\ Head(strand) = strand[1]
      BY <2>1 DEF Hears
    <2>3. Claimed(strand[1].op)
      BY <2>2 DEF Claimed, InStrand
    <2>4. strand[1].type \in Expected(op[strand[1].op].kind)
      BY <2>2 DEF Claims, Of
    <2>5. \A q \in Ops : op'[q].kind = op[q].kind /\ op'[q].pid = op[q].pid
      <3>1. op' = op \/ \E o : Advances(o, "waiting", "woken")
        BY <2>1, WokenMoves DEF Hears
      <3> QED BY <3>1 DEF Advances
    <2>6. RunConnack => op[strand[1].op].kind = "start"
      BY <2>2, <2>4 DEF RunConnack, Ready, Expected, Connacks
    <2>7. RunPubrec => op[strand[1].op].kind = "pub2"
      BY <2>2, <2>4 DEF RunPubrec, Ready, Expected, Connacks
    <2>8. RunFinal => op[strand[1].op].kind # "start" \/ strand[1].type = "connack_refused"
      BY <2>2, <2>4 DEF RunFinal, Ready, Expected, Connacks
    <2> QED BY <2>2, <2>3, <2>5, <2>6, <2>7, <2>8
  <1> QED BY <1>1
\* Packets are at one place on their way: after an answer is heard,
LEMMA ClaimsHear ==
  ASSUME Typed, Typed', Progress, Entries, Claims, Timers, Writes, Connects,
         RunConnack \/ RunFinal \/ RunPubrec
  PROVE  Claims'
  <1>1. Hears /\ Hushed /\ strand[1].op \in Ops /\ Claimed(strand[1].op) /\ stream' = stream
        /\ \A q \in Ops : op'[q].kind = op[q].kind
    BY Hearing, HearsHushed, HearsKind DEF Hears
  <1>2. \A i \in 1..Len(strand') : Is(i, Answering)' => strand'[i].op # strand[1].op
    BY <1>1, HearsHushed
  <1>3. \A b \in broker : b.op # strand[1].op
    BY <1>1, HearsHushed
  <1>4. SameKinds
    BY <1>1 DEF SameKinds
  <1>5. \A o : Unwritten(o)' => Unwritten(o)
    BY <1>1 DEF Unwritten, Queued
  <1>6. ASSUME NEW q, q = strand[1].op PROVE ~InStrand(q)'
    BY <1>2, <1>6 DEF InStrand, Of
  <1>7. CASE broker' = broker /\ ep'.stored \subseteq ep.stored
    BY <1>1, <1>4, <1>5, <1>7, FreshNone, StoringNone, ClaimsMove
  <1>8. CASE RunFinal
    <2>1. broker' = broker /\ ep'.stored = {s \in ep.stored : s.op # Head(strand).op}
      BY <1>8 DEF RunFinal, Typed
    <2> QED BY <1>7, <2>1
  <1>9. CASE RunConnack
    <2>1. ep.status = "connecting" /\ op[strand[1].op].kind = "start"
      BY <1>1, <1>9, HearsKind DEF Connects
    <2>2. \A o \in Ops : Claimed(o) => o = strand[1].op
      BY <1>1, <2>1 DEF Connects
    <2>3. \A o \in Ops : ~InBroker(o) /\ ~InStrand(o)'
      BY <1>1, <1>3, <1>6, <2>2, HushedOnce DEF Claimed, InBroker
    <2>4. \A o : ~Unwritten(o)'
      <3>1. stream.queue = <<>>
        BY <2>1 DEF Connects
      <3> QED BY <1>1, <3>1 DEF Unwritten, Writes, Queued
    <2>5. /\ broker' \subseteq broker \cup ep.stored
          /\ ep'.stored \subseteq ep.stored
      BY SMTT(20), <1>9 DEF RunConnack, Typed
    <2>6. \A s \in ep.stored : /\ s.op \in Ops
                               /\ s.type = op'[s.op].kind \/ (s.type = "pubrel" /\ op'[s.op].kind = "pub2")
      BY <1>1 DEF Claims, Typed, Held
    <2>7. \A s, t \in ep.stored : s.op = t.op => s = t
      BY DEF Claims
    <2>8. Fresh(ep.stored)
      BY <2>3, <2>4, <2>5, <2>6, <2>7 DEF Fresh
    <2> QED BY <1>1, <1>4, <2>5, <2>8, StoringNone, ClaimsMove
  <1>10. CASE RunPubrec
    <2>1. PICK r : r = [type |-> "pubrel", op |-> Head(strand).op]
      OBVIOUS
    <2>2. r.op = strand[1].op /\ r.type = "pubrel"
      BY <1>1, <2>1 DEF Hears
    <2>3. ep'.stored = {s \in ep.stored : s.op # r.op} \cup {r} /\ broker' \subseteq broker \cup {r}
      BY <1>10, <2>1, <2>2 DEF RunPubrec, Typed
    <2>4. op'[r.op].kind = "pub2"
      BY <1>1, <1>10, <2>2, HearsKind
    <2>5. Storing({r})
      BY <1>1, <2>2, <2>3, <2>4 DEF Storing, Publishing
    <2>6. ~InBroker(r.op) /\ ~InStrand(r.op)'
      <3>1. ~InBroker(r.op)
        BY <1>3, <2>2 DEF InBroker
      <3> QED BY <1>2, <2>2, <3>1 DEF InStrand, Of
    <2>7. \A o \in Ops : Unwritten(o)' =>
            ~InStrand(o)' /\ (\A b \in broker' \cap broker : b.op # o) /\ (\A b \in {r} : b.op # o)
      <3>1. \A o \in Ops : Unwritten(o)' => ~Claimed(o)
        BY <1>5 DEF Claims
      <3>2. \A o : InStrand(o)' => InStrand(o)
        BY <1>1, HushedOnce
      <3> QED BY <1>1, <2>2, <3>1, <3>2 DEF Claimed, InBroker
    <2>8. Fresh({r})
      BY <1>1, <2>2, <2>3, <2>4, <2>6, <2>7 DEF Fresh
    <2> QED BY <1>1, <1>4, <2>5, <2>8, ClaimsMove
  <1> QED BY <1>8, <1>9, <1>10
\* The broker answers: the claim goes from the broker to the end of the strand.
LEMMA AnswerMoves ==
  ASSUME Typed, Claims, NEW b \in broker, NEW type \in Answers(b.type), Answer(b, type)
  PROVE  /\ UNCHANGED <<op, col, stream, ep, net, inbox, lost>> /\ net = "up"
         /\ broker' = broker \ {b} /\ b.op \in Ops /\ type \in Answering
         /\ type \in Expected(op[b.op].kind)
         /\ Moves(0, 1) /\ Added = Event(type, b.op)
         /\ \E l, d : d = 0 /\ AddedAt(l, Answering, d)
         /\ \A o \in Ops : Claimed(o)' <=> Claimed(o)
  <1>1. /\ UNCHANGED <<op, col, stream, ep, net, inbox, lost>> /\ net = "up"
        /\ broker' = broker \ {b} /\ strand' = Append(strand, Event(type, b.op))
    BY DEF Answer
  <1>2. b.op \in Ops /\ b.type \in Answered \cup {"pubrel"}
    BY DEF Typed, Taken
  <1>3. b.type = op[b.op].kind \/ (b.type = "pubrel" /\ op[b.op].kind = "pub2")
    BY DEF Claims
  <1>4. op[b.op].kind # "pubrel"
    BY <1>2 DEF Typed, Calls, AllKinds, WithoutId, Requesting, Publishing
  <1>5. type \in Expected(op[b.op].kind)
    BY <1>2, <1>3, <1>4 DEF Answers, Expected, Connacks, Answered, Requesting, Publishing
  <1>6. type \in Answering
    BY <1>5 DEF Expected, Connacks, Answering
  <1>7. Moves(0, 1) /\ Added = Event(type, b.op)
    BY <1>1, <1>2, <1>6, Readies
  <1>8. PICK d \in {0, 1} : d = 0
    OBVIOUS
  <1>9. Added.type = type /\ Added.op = b.op
    BY <1>7 DEF Event
  <1>10. PICK l : AddedAt(l, Answering, d)
    <2>1. Moves(d, 1) /\ (d = 1 => strand[1].type \notin Answering) /\ Added.type \in Answering
      BY <1>6, <1>7, <1>8, <1>9
    <2> QED BY <2>1, AddsOne
  <1>11. \A o : InStrand(o)' <=> InStrand(o) \/ o = b.op
    <2>1. ASSUME NEW o, InStrand(o)' PROVE InStrand(o) \/ o = b.op
      <3>1. PICK i \in 1..l : Is(i, Answering)' /\ strand'[i].op = o
        BY <1>10, <2>1 DEF InStrand, Of, AddedAt
      <3>2. i = l \/ (i + d \in 1..Len(strand) /\ Is(i + d, Answering) /\ strand[i + d] = strand'[i])
        BY <1>10, <3>1 DEF AddedAt
      <3>3. CASE i = l
        BY <1>9, <1>10, <3>1, <3>3 DEF AddedAt
      <3>4. CASE i # l
        BY <3>1, <3>2, <3>4 DEF InStrand, Of
      <3> QED BY <3>3, <3>4
    <2>2. ASSUME NEW o, InStrand(o) PROVE InStrand(o)'
      <3>1. PICK i \in 1..Len(strand) : Is(i, Answering) /\ strand[i].op = o
        BY <2>2 DEF InStrand, Of
      <3>2. i - d \in 1..Len(strand') /\ Is(i - d, Answering)' /\ strand'[i - d].op = o
        BY <1>10, <3>1 DEF AddedAt
      <3> QED BY <3>2 DEF InStrand, Of
    <2>3. ASSUME NEW o, o = b.op PROVE InStrand(o)'
      <3>1. l \in 1..Len(strand') /\ Is(l, Answering)' /\ strand'[l].op = o
        BY <1>9, <1>10, <2>3 DEF AddedAt
      <3> QED BY <3>1 DEF InStrand, Of
    <2> QED BY <2>1, <2>2, <2>3
  <1>12. \A o \in Ops : Claimed(o)' <=> Claimed(o)
    <2>1. \A c \in broker : c.op = b.op => c = b
      BY DEF Claims
    <2>2. \A o : InBroker(o) <=> InBroker(o)' \/ o = b.op
      BY <1>1 DEF InBroker
    <2> QED BY <1>11, <2>2 DEF Claimed
  <1> QED BY <1>1, <1>2, <1>5, <1>6, <1>7, <1>8, <1>10, <1>12
\* after the broker answers,
LEMMA ClaimsAnswer ==
  ASSUME Typed, Claims, NEW b \in broker, NEW type \in Answers(b.type), Answer(b, type)
  PROVE  Claims'
  <1>1. /\ UNCHANGED <<op, col, stream, ep, net, inbox, lost>> /\ type \in Answering
        /\ broker' = broker \ {b} /\ b.op \in Ops /\ type \in Expected(op[b.op].kind)
        /\ \A o \in Ops : Claimed(o)' <=> Claimed(o)
    BY AnswerMoves
  <1>2. Added.type = type /\ Added.op = b.op
    BY AnswerMoves DEF Event
  <1>3. PICK l, d : d = 0 /\ AddedAt(l, Answering, d)
    BY AnswerMoves
  <1>4. /\ l = Len(strand') /\ strand'[l] = Added
        /\ \A i \in 1..l : Is(i, Answering)' => i = l \/
             (i + d \in 1..Len(strand) /\ Is(i + d, Answering) /\ strand[i + d] = strand'[i])
    BY <1>3 DEF AddedAt
  <1>5. \A i \in 1..Len(strand) : Is(i, Answering) => strand[i].op # b.op
    BY DEF Claims, InStrand, Of
  <1>6. ASSUME NEW i \in 1..l, Is(i, Answering)'
        PROVE  strand'[i].op \in Ops /\ strand'[i].type \in Expected(op'[strand'[i].op].kind)
    <2>1. CASE i = l
      BY <1>1, <1>2, <1>4, <2>1
    <2>2. CASE i # l
      BY <1>1, <1>4, <1>6, <2>2 DEF Claims
    <2> QED BY <2>1, <2>2
  <1>7. ASSUME NEW i \in 1..l, NEW j \in 1..l,
               Is(i, Answering)', Is(j, Answering)', strand'[i].op = strand'[j].op
        PROVE  i = j
    <2>1. CASE i = l \/ j = l
      BY <1>2, <1>4, <1>5, <1>7, <2>1
    <2>2. CASE i # l /\ j # l
      <3>1. i + d = j + d
        BY <1>4, <1>7, <2>2 DEF Claims
      <3> QED BY <1>3, <3>1
    <2> QED BY <2>1, <2>2
  <1>8. ASSUME NEW c \in broker' PROVE ~InStrand(c.op)'
    <2>1. c \in broker /\ c.op # b.op
      BY <1>1 DEF Claims
    <2>2. ~InStrand(c.op)
      BY <2>1 DEF Claims
    <2>3. PICK q : q = c.op
      OBVIOUS
    <2>4. ASSUME InStrand(q)' PROVE FALSE
      <3>1. PICK i \in 1..l : Is(i, Answering)' /\ strand'[i].op = q
        BY <1>4, <2>4 DEF InStrand, Of
      <3>2. i # l
        BY <1>2, <1>4, <2>1, <2>3, <3>1
      <3> QED BY <1>4, <2>2, <2>3, <3>1, <3>2 DEF InStrand, Of
    <2> QED BY <2>3, <2>4
  <1>9. /\ \A c \in broker' : c.type = op'[c.op].kind \/ (c.type = "pubrel" /\ op'[c.op].kind = "pub2")
        /\ \A c, e \in broker' : c.op = e.op => c = e
        /\ \A s \in ep'.stored : /\ op'[s.op].kind \in Publishing
                                 /\ s.type = op'[s.op].kind \/ (s.type = "pubrel" /\ op'[s.op].kind = "pub2")
        /\ \A s, t \in ep'.stored : s.op = t.op => s = t
    BY <1>1 DEF Claims
  <1>10. \A o \in Ops : Unwritten(o)' => ~Claimed(o)'
    BY <1>1 DEF Claims, Unwritten, Queued
  <1> QED BY <1>4, <1>6, <1>7, <1>8, <1>9, <1>10 DEF Claims
\* and so after every step.
LEMMA ClaimsNext ==
  ASSUME Typed, Typed', Progress, Entries, Claims, Timers, Writes, Connects, Next
  PROVE  Claims'
  <1>1. SameKinds
    BY Moved, SamesKinds
  <1>2. ASSUME NEW touched, Touches(touched), touched \cap Answering = {},
               broker' \subseteq broker, ep'.stored \subseteq ep.stored,
               \A o \in Ops : Unwritten(o)' => Unwritten(o)
        PROVE  Claims'
    BY <1>1, <1>2, Hushes, FreshNone, StoringNone, ClaimsMove
  <1>3. ASSUME stream' = stream PROVE \A o \in Ops : Unwritten(o)' => Unwritten(o)
    BY <1>3 DEF Unwritten, Queued
  <1>4. ASSUME NEW o \in Ops, NEW kind, NEW pid, Refused(o, pid) \/ Postponed(o, kind, pid)
        PROVE  Claims'
    <2>1. PICK k : op'[o].kind = k /\ ep'.stored = ep.stored \cup {s \in {[type |-> k, op |-> o]} : k \in Publishing}
      BY <1>4 DEF Refused, Postponed, NewHolding, Named
    <2>2. op[o].kind = "" /\ broker' = broker /\ stream' = stream /\ strand' = strand
      BY <1>4 DEF Refused, Postponed, NewHolding, Advances, Progress
    <2>3. \A s \in ep.stored : s.op # o
      BY <2>2, Unclaimed DEF IsStored
    <2>4. \E held : Storing(held)
      <3>1. PICK held : held = {s \in {[type |-> k, op |-> o]} : k \in Publishing}
        OBVIOUS
      <3>2. \A s \in held : s.op = o /\ s.type = k /\ k \in Publishing
        BY <3>1
      <3>3. \A s, t \in held : s = t
        BY <3>1
      <3>4. \A s \in held : \A t \in ep'.stored : s.op = t.op => s = t
        BY <2>1, <2>3, <3>1, <3>2, <3>3
      <3>5. Storing(held)
        BY <2>1, <3>1, <3>2, <3>4 DEF Storing
      <3> QED BY <3>5
    <2>5. Touches({})
      BY <2>2, Still
    <2>6. Hushed
      BY <2>5, Hushes
    <2> QED BY <1>1, <1>3, <2>2, <2>4, <2>6, FreshNone, ClaimsMove
  <1>5. ASSUME NEW o \in Ops, Cancel(o) PROVE Claims'
    <2>1. Touches({"timer"}) /\ broker' = broker /\ ep' = ep /\ stream' = stream
      BY <1>5, Touched, CancelMoves
    <2> QED BY <1>2, <1>3, <2>1 DEF Answering
  <1>6. CASE RunWritten
    <2>1. Touches({"written", "poll"}) /\ broker' = broker /\ stream' = stream
      BY <1>6, Touched, RunsWritten
    <2>2. ep'.stored = ep.stored
      BY <1>6, RunsWritten, FailedRange DEF Typed
    <2> QED BY <1>2, <1>3, <2>1, <2>2 DEF Answering
  <1>7. CASE RunPollNone \/ RunPollClosed \/ RunPollWritten \/ RunPollWrite
    <2>1. Touches({"written", "poll"})
      BY <1>7, Touched
    <2>2. Hushed
      BY <2>1, Hushes DEF Answering
    <2>3. CASE stream.queue = <<>> /\ stream' = [stream EXCEPT !.busy = 0] /\ UNCHANGED <<op, col, ep, broker>>
      <3>1. \A o \in Ops : Unwritten(o)' => Unwritten(o)
        BY <2>3 DEF Unwritten, Queued, Typed
      <3> QED BY <1>2, <2>1, <2>3, <3>1 DEF Answering
    <2>4. CASE Turned /\ broker' = broker /\ ep'.stored = ep.stored
      BY <1>2, <2>1, <2>4, UnwrittenTurn DEF Answering
    <2>5. CASE Turned /\ broker' = Reached(op, Batch) /\ UNCHANGED <<op, ep>>
      <3>1. /\ \A o : Unwritten(o)' => Unwritten(o) /\ o \notin Batch
            /\ Batch \subseteq Ops /\ \A o \in Batch : Unwritten(o)
        BY <2>5, UnwrittenTurn
      <3>2. broker' \subseteq broker \cup {[type |-> op'[o].kind, op |-> o] : o \in Batch}
        BY <2>5 DEF Reached
      <3>3. \A o \in Batch : ~Claimed(o) /\ ~Unwritten(o)'
        BY <3>1 DEF Claims
      <3>4. \E new : Fresh(new)
        BY <2>2, <3>1, <3>2, <3>3, FreshWritten
      <3> QED BY <1>1, <2>2, <2>5, <3>4, StoringNone, ClaimsMove
    <2>6. \A o \in Ops : Failed(o) => ep'.stored = ep.stored
      BY FailedRange DEF Typed
    <2>7. Turned => stream.queue[1] \in Ops
      BY DEF Turned
    <2> QED BY <1>7, <2>3, <2>4, <2>5, <2>6, <2>7, PollMoves
  <1>8. CASE RunTimer
    <2>1. Touches({"timer"}) /\ broker' = broker /\ ep' = ep /\ stream' = stream
      BY <1>8, Touched, RunsTimer
    <2> QED BY <1>2, <1>3, <2>1 DEF Answering
  <1>9. CASE Down
    <2>1. Touches({"error"}) /\ broker' = {} /\ ep' = ep /\ stream' = stream
      BY <1>9, Touched DEF Down
    <2> QED BY <1>2, <1>3, <2>1 DEF Answering
  <1>10. CASE RunError
    <2>1. /\ Touches({"error", "wake"}) /\ broker' = broker
          /\ ep' = [ep EXCEPT !.status = "closed"] /\ stream' = [stream EXCEPT !.storing = {}]
      BY <1>10, Touched DEF RunError
    <2>2. /\ ep'.stored = ep.stored /\ stream'.queue = stream.queue /\ stream'.bulk = stream.bulk
          /\ stream'.storing = {}
      BY <2>1 DEF Typed
    <2>3. \A o \in Ops : Unwritten(o)' => Unwritten(o)
      BY <2>2 DEF Unwritten, Queued
    <2> QED BY <1>2, <2>1, <2>2, <2>3 DEF Answering
  <1>11. CASE UNCHANGED <<op, col, stream, ep, broker, lost>> /\ Touches({"publish", "wake"})
    BY <1>2, <1>3, <1>11 DEF Answering
  <1> QED BY <1>4, <1>5, <1>6, <1>7, <1>8, <1>9, <1>10, <1>11, Steps, ClaimsCall, ClaimsHear,
             ClaimsAnswer
-------------------------------------------------------------------------------
\* Where the claims are after each step.
LEMMA StrandStays ==
  ASSUME NEW touched, Touches(touched), touched \cap Answering = {}
  PROVE  \A o : InStrand(o)' <=> InStrand(o)
  <1>1. PICK d \in {0, 1} : Shifted(Answering, d)
    BY Hushes, CalmShifts
  <1>2. ASSUME NEW o, InStrand(o)' PROVE InStrand(o)
    <2>1. PICK i \in 1..Len(strand') : Is(i, Answering)' /\ strand'[i].op = o
      BY <1>2 DEF InStrand, Of
    <2>2. i + d \in 1..Len(strand) /\ Is(i + d, Answering) /\ strand[i + d].op = o
      BY <1>1, <2>1 DEF Shifted
    <2> QED BY <2>2 DEF InStrand, Of
  <1>3. ASSUME NEW o, InStrand(o) PROVE InStrand(o)'
    <2>1. PICK i \in 1..Len(strand) : Is(i, Answering) /\ strand[i].op = o
      BY <1>3 DEF InStrand, Of
    <2>2. i - d \in 1..Len(strand') /\ Is(i - d, Answering)' /\ strand'[i - d].op = o
      BY <1>1, <2>1 DEF Shifted
    <2> QED BY <2>2 DEF InStrand, Of
  <1> QED BY <1>2, <1>3
\* Hearing an answer takes this one from the strand and leaves the others.
LEMMA HearsStrand ==
  ASSUME Typed, Entries, Claims, Hears
  PROVE  \A o : InStrand(o)' <=> InStrand(o) /\ o # strand[1].op
  <1>1. ASSUME NEW o, InStrand(o)' PROVE InStrand(o) /\ o # strand[1].op
    BY <1>1, HearsHushed, HushedOnce DEF InStrand, Of
  <1>2. ASSUME NEW o, InStrand(o), o # strand[1].op PROVE InStrand(o)'
    <2>1. PICK i \in 1..Len(strand) : Is(i, Answering) /\ strand[i].op = o
      BY <1>2 DEF InStrand, Of
    <2>2. i # 1
      BY <1>2, <2>1
    <2>3. Moves(1, 0) \/ Moves(1, 1)
      BY WokenMoves DEF Hears
    <2>4. i - 1 \in 1..Len(strand') /\ strand'[i - 1] = strand[i]
      BY <2>1, <2>2, <2>3 DEF Moves
    <2>5. Is(i - 1, Answering)' /\ strand'[i - 1].op = o
      BY <2>1, <2>4 DEF Is
    <2> QED BY <2>4, <2>5 DEF InStrand, Of
  <1> QED BY <1>1, <1>2
\* What is on its way does not change; or the packets of S are written.
Unclaiming == \A o \in Ops : Claimed(o)' <=> Claimed(o)
LEMMA ClaimsLeft ==
  ASSUME NEW touched, Touches(touched), touched \cap Answering = {}, broker' = broker
  PROVE  Unclaiming
  BY StrandStays DEF Unclaiming, Claimed, InBroker
LEMMA ClaimsMade ==
  ASSUME NEW touched, Touches(touched), touched \cap Answering = {}, NEW S,
         broker' = Reached(op', S)
  PROVE  \A o \in Ops : Claimed(o)' <=> Claimed(o) \/ (o \in S /\ net = "up" /\ op'[o].kind \in Answered)
  <1>1. ASSUME NEW o PROVE InBroker(o)' <=> InBroker(o) \/ (o \in S /\ net = "up" /\ op'[o].kind \in Answered)
    <2>1. ASSUME NEW b \in broker', b.op = o
          PROVE  InBroker(o) \/ (o \in S /\ net = "up" /\ op'[o].kind \in Answered)
      <3>1. CASE b \in broker
        BY <2>1, <3>1 DEF InBroker
      <3>2. CASE b \notin broker
        <4>1. PICK p \in S : /\ net = "up" /\ op'[p].kind \in Answered
                             /\ b = [type |-> op'[p].kind, op |-> p]
          BY <3>2 DEF Reached
        <4>2. p = o
          BY <2>1, <4>1
        <4> QED BY <4>1, <4>2
      <3> QED BY <3>1, <3>2
    <2>2. ASSUME o \in S, net = "up", op'[o].kind \in Answered
          PROVE  InBroker(o)'
      <3>1. PICK b : b = [type |-> op'[o].kind, op |-> o]
        OBVIOUS
      <3>2. b \in broker' /\ b.op = o
        BY <2>2, <3>1 DEF Reached
      <3> QED BY <3>2 DEF InBroker
    <2>3. InBroker(o) => InBroker(o)'
      BY DEF InBroker, Reached
    <2> QED BY <2>1, <2>2, <2>3 DEF InBroker
  <1> QED BY <1>1, StrandStays DEF Claimed
\* What is on its way after a call,
LEMMA ClaimedCall ==
  ASSUME Typed, Typed', Claims, NEW o \in Ops, NEW kind, NEW pid, NewCall(o, kind, pid)
  PROVE  \A q \in Ops : Claimed(q)' <=>
           Claimed(q) \/ (q = o /\ WritesAtOnce(o, kind) /\ net = "up" /\ kind \in Answered)
  <1>1. op'[o].kind = kind
    BY DEF NewCall, Named
  <1>2. CASE WritesAtOnce(o, kind)
    <2>1. Moves(0, 1) /\ Added.type = "written"
      BY <1>2 DEF WritesAtOnce, Written
    <2>2. Touches({"written"}) /\ {"written"} \cap Answering = {}
      BY <2>1 DEF Touches, Answering
    <2>3. broker' = Reached(op', {o})
      <3>1. Reached(op', {o}) =
              broker \cup {[type |-> op'[p].kind, op |-> p] :
                             p \in {q \in {o} : net = "up" /\ op'[q].kind \in Answered}}
        BY DEF Reached
      <3>2. broker' = broker \cup {b \in {[type |-> kind, op |-> o]} : net = "up" /\ kind \in Answered}
        BY <1>2 DEF WritesAtOnce
      <3>3. CASE net = "up" /\ kind \in Answered
        <4>1. {q \in {o} : net = "up" /\ op'[q].kind \in Answered} = {o}
          BY <1>1, <3>3
        <4>2. {b \in {[type |-> kind, op |-> o]} : net = "up" /\ kind \in Answered} = {[type |-> kind, op |-> o]}
          BY <3>3
        <4> QED BY <1>1, <3>1, <3>2, <4>1, <4>2
      <3>4. CASE ~(net = "up" /\ kind \in Answered)
        BY <1>1, <3>1, <3>2, <3>4
      <3> QED BY <3>3, <3>4
    <2>4. \A q \in Ops : Claimed(q)' <=> Claimed(q) \/ (q \in {o} /\ net = "up" /\ op'[q].kind \in Answered)
      BY <2>2, <2>3, ClaimsMade
    <2> QED BY <1>1, <1>2, <2>4
  <1>3. CASE WaitsToWrite(o)
    <2>1. Touches({}) /\ broker' = broker /\ ~WritesAtOnce(o, kind)
      BY <1>3, Still DEF WaitsToWrite, WritesAtOnce
    <2>2. Unclaiming
      BY <2>1, ClaimsLeft
    <2> QED BY <2>1, <2>2 DEF Unclaiming
  <1> QED BY <1>2, <1>3 DEF NewCall
\* and after each other step.
LEMMA ClaimedStep ==
  ASSUME Typed, Typed', Progress, Entries, Claims, Timers, Writes, Connects
  PROVE  /\ \A o \in Ops : \A kind, pid : Refused(o, pid) \/ Postponed(o, kind, pid) => Unclaiming
         /\ \A o \in Ops : Cancel(o) => Unclaiming
         /\ \A b \in broker : \A type \in Answers(b.type) : Answer(b, type) => Unclaiming
         /\ RunWritten \/ RunTimer \/ RunError => Unclaiming
         /\ RunPollNone \/ RunPollClosed \/ RunPollWritten \/ RunPollWrite =>
              \/ broker' = broker /\ Unclaiming
              \/ /\ Turned /\ ep.status # "closed" /\ op' = op
                 /\ \A o \in Ops : Claimed(o)' <=>
                      Claimed(o) \/ (o \in Batch /\ net = "up" /\ op[o].kind \in Answered)
         /\ RunConnack => /\ ep.status = "connecting"
                          /\ \A o \in Ops : Claimed(o) => o = strand[1].op
                          /\ \A o \in Ops : Claimed(o)' <=>
                               strand[1].type = "connack_present" /\ net = "up" /\ IsStored(o)
         /\ RunFinal => \A o \in Ops : Claimed(o)' <=> Claimed(o) /\ o # strand[1].op
         /\ RunPubrec => \A o \in Ops : Claimed(o)' <=> Claimed(o) /\ (o # strand[1].op \/ net = "up")
         /\ Down => \A o \in Ops : Claimed(o)' <=> InStrand(o)
         /\ UNCHANGED <<op, col, stream, ep, broker, lost>> /\ Touches({"publish", "wake"}) => Unclaiming
  <1>1. ASSUME NEW o \in Ops, NEW kind, NEW pid, Refused(o, pid) \/ Postponed(o, kind, pid)
        PROVE  Unclaiming
    <2>1. Touches({}) /\ broker' = broker
      BY <1>1, Still DEF Refused, Postponed, NewHolding
    <2> QED BY <2>1, ClaimsLeft
  <1>2. ASSUME NEW o \in Ops, Cancel(o) PROVE Unclaiming
    <2>1. Touches({"timer"}) /\ broker' = broker /\ {"timer"} \cap Answering = {}
      BY <1>2, Touched, CancelMoves DEF Answering
    <2> QED BY <2>1, ClaimsLeft
  <1>3. ASSUME NEW b \in broker, NEW type \in Answers(b.type), Answer(b, type) PROVE Unclaiming
    BY <1>3, AnswerMoves DEF Unclaiming
  <1>4. ASSUME RunWritten \/ RunTimer \/ RunError PROVE Unclaiming
    <2>1. Touches({"written", "poll"}) \/ Touches({"timer"}) \/ Touches({"error", "wake"})
      BY <1>4, Touched
    <2>2. broker' = broker
      BY <1>4, RunsWritten, RunsTimer DEF RunError
    <2>3. /\ {"written", "poll"} \cap Answering = {} /\ {"timer"} \cap Answering = {}
          /\ {"error", "wake"} \cap Answering = {}
      BY DEF Answering
    <2> QED BY <2>1, <2>2, <2>3, ClaimsLeft
  <1>5. ASSUME RunPollNone \/ RunPollClosed \/ RunPollWritten \/ RunPollWrite
        PROVE  \/ broker' = broker /\ Unclaiming
               \/ /\ Turned /\ ep.status # "closed" /\ op' = op
                  /\ \A o \in Ops : Claimed(o)' <=>
                       Claimed(o) \/ (o \in Batch /\ net = "up" /\ op[o].kind \in Answered)
    <2>1. Touches({"written", "poll"}) /\ {"written", "poll"} \cap Answering = {}
      BY <1>5, Touched DEF Answering
    <2>2. broker' = broker => Unclaiming
      BY <2>1, ClaimsLeft
    <2>3. broker' = broker \/ (Turned /\ ep.status # "closed" /\ op' = op /\ broker' = Reached(op, Batch))
      BY <1>5, PollMoves
    <2>4. ASSUME op' = op, broker' = Reached(op, Batch)
          PROVE  \A o \in Ops : Claimed(o)' <=>
                   Claimed(o) \/ (o \in Batch /\ net = "up" /\ op[o].kind \in Answered)
      <3>1. broker' = Reached(op', Batch)
        BY <2>4, Zenon
      <3>2. \A o \in Ops : Claimed(o)' <=>
              Claimed(o) \/ (o \in Batch /\ net = "up" /\ op'[o].kind \in Answered)
        BY <2>1, <3>1, ClaimsMade
      <3> QED BY <2>4, <3>2
    <2> QED BY <2>2, <2>3, <2>4
  <1>6. ASSUME RunConnack \/ RunFinal \/ RunPubrec
        PROVE  /\ \A o : InStrand(o)' <=> InStrand(o) /\ o # strand[1].op
               /\ \A b \in broker : b.op # strand[1].op
               /\ strand[1].op \in Ops /\ Claimed(strand[1].op) /\ Head(strand) = strand[1]
    BY <1>6, Hearing, HearsHushed, HearsStrand, HearsKind DEF Hears
  <1>7. ASSUME RunConnack
        PROVE  /\ ep.status = "connecting"
               /\ \A o \in Ops : Claimed(o) => o = strand[1].op
               /\ \A o \in Ops : Claimed(o)' <=>
                    strand[1].type = "connack_present" /\ net = "up" /\ IsStored(o)
    <2>1. ep.status = "connecting" /\ \A o \in Ops : Claimed(o) => o = strand[1].op
      BY <1>6, <1>7, HearsKind DEF Connects
    <2>2. \A o \in Ops : ~InBroker(o) /\ ~InStrand(o)'
      BY <1>6, <1>7, <2>1 DEF Claimed, InBroker
    <2>3. broker' = IF strand[1].type = "connack_present"
                    THEN broker \cup {s \in ep.stored : net = "up"} ELSE broker
      BY <1>6, <1>7 DEF RunConnack
    <2>4. \A o \in Ops : InBroker(o)' <=> strand[1].type = "connack_present" /\ net = "up" /\ IsStored(o)
      BY <2>2, <2>3 DEF InBroker, IsStored
    <2> QED BY <2>1, <2>2, <2>4 DEF Claimed
  <1>8. ASSUME RunFinal
        PROVE  \A o \in Ops : Claimed(o)' <=> Claimed(o) /\ o # strand[1].op
    <2>1. \A o \in Ops : InBroker(o)' <=> InBroker(o) /\ o # strand[1].op
      BY <1>6, <1>8 DEF RunFinal, InBroker
    <2> QED BY <1>6, <1>8, <2>1 DEF Claimed
  <1>9. ASSUME RunPubrec
        PROVE  \A o \in Ops : Claimed(o)' <=> Claimed(o) /\ (o # strand[1].op \/ net = "up")
    <2>1. PICK r : r = [type |-> "pubrel", op |-> Head(strand).op]
      OBVIOUS
    <2>2. r.op = strand[1].op /\ broker' = broker \cup {p \in {r} : net = "up"}
      BY <1>6, <1>9, <2>1 DEF RunPubrec
    <2>3. \A o \in Ops : InBroker(o)' <=> InBroker(o) \/ (o = strand[1].op /\ net = "up")
      BY <2>2 DEF InBroker
    <2>4. \A o \in Ops : InBroker(o) => o # strand[1].op
      BY <1>6, <1>9 DEF InBroker
    <2> QED BY <1>6, <1>9, <2>3, <2>4 DEF Claimed
  <1>10. ASSUME Down PROVE \A o \in Ops : Claimed(o)' <=> InStrand(o)
    <2>1. Touches({"error"}) /\ broker' = {} /\ {"error"} \cap Answering = {}
      BY <1>10, Touched DEF Down, Answering
    <2>2. \A o : InStrand(o)' <=> InStrand(o)
      BY <2>1, StrandStays
    <2> QED BY <2>1, <2>2 DEF Claimed, InBroker
  <1>11. ASSUME UNCHANGED <<op, col, stream, ep, broker, lost>>, Touches({"publish", "wake"})
         PROVE  Unclaiming
    <2>1. {"publish", "wake"} \cap Answering = {}
      BY DEF Answering
    <2> QED BY <1>11, <2>1, ClaimsLeft
  <1> QED BY <1>1, <1>2, <1>3, <1>4, <1>5, <1>7, <1>8, <1>9, <1>10, <1>11
-------------------------------------------------------------------------------
\* What the steps do to the connection and to the status of the endpoint.
LEMMA StatusStep ==
  ASSUME Typed, Progress, Entries, Claims, Timers, Writes
  PROVE  /\ \A o \in Ops : \A kind, pid : Refused(o, pid) \/ Postponed(o, kind, pid) =>
              net' = net /\ ep'.status = ep.status
         /\ \A o \in Ops : Cancel(o) => net' = net /\ ep'.status = ep.status
         /\ \A b \in broker : \A type \in Answers(b.type) : Answer(b, type) =>
              net' = net /\ ep'.status = ep.status
         /\ RunWritten \/ RunPollNone \/ RunPollClosed \/ RunPollWritten \/ RunPollWrite
              \/ RunFinal \/ RunPubrec \/ RunTimer => net' = net /\ ep'.status = ep.status
         /\ RunConnack => net' = net /\ ep'.status = "connected"
         /\ RunError => net' = net /\ ep'.status = "closed"
         /\ Down => net = "up" /\ net' = "down" /\ ep' = ep
  <1>1. ASSUME NEW o \in Ops, Failed(o) PROVE ep'.status = ep.status
    BY <1>1, FailedRange DEF Typed
  <1>2. ASSUME RunWritten PROVE net' = net /\ ep'.status = ep.status
    BY <1>1, <1>2, RunsWritten
  <1>3. ASSUME RunPollNone \/ RunPollClosed \/ RunPollWritten \/ RunPollWrite
        PROVE  net' = net /\ ep'.status = ep.status
    BY <1>1, <1>3, RunsPoll DEF Turned
  <1>4. /\ RunFinal \/ RunPubrec => net' = net /\ ep'.status = ep.status
        /\ RunConnack => net' = net /\ ep'.status = "connected"
    <2>1. RunFinal => ep' = [ep EXCEPT !.used = @ \ {op[Head(strand).op].pid},
                                       !.stored = {s \in @ : s.op # Head(strand).op}]
      BY DEF RunFinal
    <2>2. RunPubrec => \E stored : ep' = [ep EXCEPT !.stored = stored]
      BY DEF RunPubrec, Typed
    <2>3. RunConnack => ep'.status = "connected"
      BY DEF RunConnack, Typed
    <2>4. RunFinal \/ RunPubrec \/ RunConnack => net' = net
      BY DEF RunFinal, RunPubrec, RunConnack
    <2> QED BY <2>1, <2>2, <2>3, <2>4 DEF Typed
  <1>5. RunTimer => net' = net /\ ep'.status = ep.status
    BY RunsTimer
  <1>6. RunError => net' = net /\ ep'.status = "closed"
    BY DEF RunError, Typed
  <1>7. Down => net = "up" /\ net' = "down" /\ ep' = ep
    BY DEF Down
  <1>8. /\ \A o \in Ops : \A kind, pid : Refused(o, pid) \/ Postponed(o, kind, pid) =>
              net' = net /\ ep'.status = ep.status
        /\ \A o \in Ops : Cancel(o) => net' = net /\ ep'.status = ep.status
        /\ \A b \in broker : \A type \in Answers(b.type) : Answer(b, type) =>
              net' = net /\ ep'.status = ep.status
    BY DEF Refused, Postponed, NewHolding, Cancel, Answer
  <1> QED BY <1>2, <1>3, <1>4, <1>5, <1>6, <1>7, <1>8

\* While the connection is down its error is in the strand or the endpoint is closed.
LEMMA BrokenStay ==
  ASSUME Broken, NEW touched, Touches(touched), "error" \notin touched, net' = net,
         net = "down" => broker' = {} /\ (ep.status = "closed" => ep'.status = "closed")
  PROVE  Broken'
  <1>1. touched \cap {"error"} = {}
    OBVIOUS
  <1>2. PICK d \in {0, 1} : Shifted({"error"}, d)
    BY <1>1, Calms, CalmShifts
  <1>3. ASSUME NEW i \in 1..Len(strand'), Is(i, {"error"})' PROVE net' = "down"
    BY <1>2, <1>3 DEF Shifted, Broken
  <1>4. ASSUME NEW i \in 1..Len(strand), Is(i, {"error"})
        PROVE  \E j \in 1..Len(strand') : Is(j, {"error"})'
    BY <1>2, <1>4 DEF Shifted
  <1> QED BY <1>3, <1>4 DEF Broken
\* The same after every step.
LEMMA BrokenNext ==
  ASSUME Typed, Typed', Progress, Entries, Claims, Timers, Writes, Links, Connects, Next
  PROVE  Broken'
  <1>1. Broken /\ Closed
    BY DEF Links
  <1>2. ASSUME NEW o \in Ops, NEW kind, NEW pid, NewCall(o, kind, pid) PROVE Broken'
    <2>1. net' = net /\ (ep.status = "closed" => net = "up")
      BY <1>2 DEF NewCall
    <2>2. net = "down" => broker' = {}
      <3>1. WaitsToWrite(o) => broker' = broker
        BY DEF WaitsToWrite
      <3>2. WritesAtOnce(o, kind) /\ net = "down" => broker' = broker
        BY DEF WritesAtOnce
      <3> QED BY <1>1, <1>2, <3>1, <3>2 DEF NewCall, Broken
    <2>3. Touches({}) \/ Touches({"written"})
      <3>1. WaitsToWrite(o) => Touches({})
        BY Still DEF WaitsToWrite
      <3>2. WritesAtOnce(o, kind) => Touches({"written"})
        BY DEF WritesAtOnce, Written, Touches
      <3> QED BY <1>2, <3>1, <3>2 DEF NewCall
    <2>4. "error" \notin {} /\ "error" \notin {"written"}
      OBVIOUS
    <2> QED BY <1>1, <2>1, <2>2, <2>3, <2>4, BrokenStay
  <1>3. ASSUME NEW touched, Touches(touched), "error" \notin touched, net' = net, broker' \subseteq broker,
               ep'.status = ep.status
        PROVE  Broken'
    BY <1>1, <1>3, BrokenStay DEF Broken
  <1>4. ASSUME NEW o \in Ops, NEW kind, NEW pid, Refused(o, pid) \/ Postponed(o, kind, pid)
        PROVE  Broken'
    <2>1. Touches({}) /\ broker' = broker
      BY <1>4, Still DEF Refused, Postponed, NewHolding
    <2> QED BY <1>3, <1>4, <2>1, StatusStep
  <1>5. ASSUME NEW o \in Ops, Cancel(o) PROVE Broken'
    BY <1>3, <1>5, CancelMoves, Touched, StatusStep
  <1>6. ASSUME NEW b \in broker, NEW type \in Answers(b.type), Answer(b, type) PROVE Broken'
    <2>1. Touches(Answering) /\ "error" \notin Answering /\ broker' \subseteq broker
      BY <1>6, Touched, AnswerMoves DEF Answering
    <2> QED BY <1>3, <1>6, <2>1, StatusStep
  <1>7. CASE RunWritten \/ RunPollNone \/ RunPollClosed \/ RunPollWritten \/ RunPollWrite
    <2>1. Touches({"written", "poll"}) /\ net' = net /\ ep'.status = ep.status
      BY <1>7, Touched, StatusStep
    <2>2. net = "down" => broker' = broker
      BY <1>7, RunsWritten, RunsPoll DEF Reached
    <2> QED BY <1>1, <2>1, <2>2, BrokenStay DEF Broken
  <1>8. CASE RunConnack \/ RunFinal \/ RunPubrec
    <2>1. Touches(Answering \cup {"timer"}) /\ net' = net /\ "error" \notin Answering \cup {"timer"}
      BY <1>8, Touched, StatusStep DEF Answering
    <2>2. ep.status # "closed" \/ ep'.status = ep.status
      BY <1>8, ClaimedStep, StatusStep
    <2>3. net = "down" => broker' = broker
      BY <1>8 DEF RunConnack, RunFinal, RunPubrec
    <2> QED BY <1>1, <2>1, <2>2, <2>3, BrokenStay DEF Broken
  <1>9. CASE RunTimer
    BY <1>3, <1>9, RunsTimer, Touched, StatusStep
  <1>10. CASE Down
    <2>1. net' = "down" /\ broker' = {} /\ strand' = Append(strand, Event("error", 0))
      BY <1>10 DEF Down
    <2>2. Moves(0, 1) /\ Added = Event("error", 0)
      BY <2>1, Readies
    <2>3. Len(strand') \in 1..Len(strand') /\ Added.type = "error"
      BY <2>2 DEF Moves, Event
    <2>4. PICK l \in 1..Len(strand') : l = Len(strand') /\ strand'[l].type = "error"
      BY <2>3 DEF Added
    <2>5. Is(l, {"error"})'
      BY <2>4 DEF Is
    <2> QED BY <2>1, <2>5 DEF Broken
  <1>11. CASE RunError
    <2>1. net' = net /\ broker' = broker /\ ep'.status = "closed"
      BY <1>11, StatusStep DEF RunError
    <2>2. 1 \in 1..Len(strand) /\ Is(1, {"error"})
      BY <1>11, RunsPut DEF RunError
    <2> QED BY <1>1, <2>1, <2>2 DEF Broken
  <1>12. CASE /\ UNCHANGED <<op, col, stream, ep, broker, lost>> /\ Touches({"publish", "wake"})
              /\ net' = net \/ (net = "down" /\ net' = "up" /\ ep.status = "closed" /\ strand = <<>>)
    <2>1. CASE net' = net
      BY <1>3, <1>12, <2>1
    <2>2. CASE net' = "up" /\ strand = <<>>
      <3>1. {"publish", "wake"} \cap {"error"} = {}
        OBVIOUS
      <3>2. PICK d \in {0, 1} : Shifted({"error"}, d)
        BY <1>12, <3>1, Calms, CalmShifts
      <3>3. \A i \in 1..Len(strand') : ~Is(i, {"error"})'
        BY <2>2, <3>2 DEF Shifted
      <3> QED BY <2>2, <3>3 DEF Broken
    <2> QED BY <1>12, <2>1, <2>2
  <1> QED BY <1>2, <1>4, <1>5, <1>6, <1>7, <1>8, <1>9, <1>10, <1>11, <1>12, Steps
\* A write fails only without a transport; the error is the last that comes from one.
LEMMA FailingStay ==
  ASSUME Failing, NEW d \in {0, 1}, NEW n \in {0, 1}, Moves(d, n),
         n = 1 => (Added.type = "written" => Added.ok \/ net' = "down"),
         net = "down" => net' = "down" \/ strand = <<>>
  PROVE  Failing'
  <1>1. ASSUME NEW i \in 1..Len(strand'), Is(i, {"written"})', ~strand'[i].ok
        PROVE  net' = "down"
    <2>1. CASE n = 1 /\ i = Len(strand')
      BY <1>1, <2>1 DEF Added, Is
    <2>2. CASE ~(n = 1 /\ i = Len(strand'))
      <3>1. i \in 1..(Len(strand) - d) /\ i + d \in 1..Len(strand)
        BY <1>1, <2>2 DEF Moves
      <3>2. strand'[i] = strand[i + d]
        BY <3>1 DEF Moves
      <3>3. Is(i + d, {"written"}) /\ ~strand[i + d].ok
        BY <1>1, <3>1, <3>2 DEF Is
      <3>4. net = "down" /\ strand # <<>>
        BY <3>1, <3>3 DEF Failing
      <3> QED BY <3>4
    <2> QED BY <2>1, <2>2
  <1> QED BY <1>1 DEF Failing
\* The error stays after the answers when none of either comes.
LEMMA ErrorsLastStay ==
  ASSUME ErrorsLast, NEW d \in {0, 1}, NEW n \in {0, 1}, Moves(d, n),
         n = 1 => Added.type \notin Answering /\ Added.type # "error"
  PROVE  ErrorsLast'
  <1>1. ASSUME NEW i \in 1..Len(strand'), strand'[i].type \in Answering \cup {"error"}
        PROVE  i + d \in 1..Len(strand) /\ strand'[i] = strand[i + d]
    <2>1. ~(n = 1 /\ i = Len(strand'))
      BY <1>1 DEF Added
    <2>2. i \in 1..(Len(strand) - d) /\ i + d \in 1..Len(strand)
      BY <1>1, <2>1 DEF Moves
    <2> QED BY <2>2 DEF Moves
  <1>2. ASSUME NEW i \in 1..Len(strand'), NEW j \in 1..Len(strand'),
               Is(i, {"error"})', Is(j, Answering)'
        PROVE  j < i
    <2>1. /\ i + d \in 1..Len(strand) /\ strand'[i] = strand[i + d]
          /\ j + d \in 1..Len(strand) /\ strand'[j] = strand[j + d]
      BY <1>1, <1>2 DEF Is
    <2>2. Is(i + d, {"error"}) /\ Is(j + d, Answering)
      BY <1>2, <2>1 DEF Is
    <2>3. j + d < i + d
      BY <2>1, <2>2 DEF ErrorsLast
    <2> QED BY <2>3
  <1> QED BY <1>2 DEF ErrorsLast
\* Failing writes, and errors that come last, after every step.
LEMMA EventsNext ==
  ASSUME Typed, Typed', Progress, Entries, Claims, Timers, Writes, Links, Connects, Next, Broken'
  PROVE  Failing' /\ ErrorsLast'
  <1>1. Broken /\ Failing /\ ErrorsLast
    BY DEF Links
  <1>2. ASSUME NEW touched, Touches(touched), net = "down" => net' = "down" \/ strand = <<>>,
               touched \cap (Answering \cup {"error", "written"}) = {}
        PROVE  Failing' /\ ErrorsLast'
    <2>1. PICK d \in {0, 1}, n \in {0, 1} : Moves(d, n) /\ (n = 1 => Added.type \in touched)
      BY <1>2 DEF Touches
    <2> QED BY <1>1, <1>2, <2>1, FailingStay, ErrorsLastStay
  <1>3. PICK zero \in {0, 1}, one \in {0, 1} : zero = 0 /\ one = 1
    OBVIOUS
  <1>4. ASSUME Moves(zero, one) \/ Moves(one, one) \/ Moves(one, zero),
               Moves(zero, one) \/ Moves(one, one) => Added.type \in {"written", "poll", "wake", "timer"},
               Moves(zero, one) \/ Moves(one, one) => (Added.type = "written" => Added.ok \/ net = "down"),
               net' = net
        PROVE  Failing' /\ ErrorsLast'
    <2>1. PICK d \in {0, 1}, n \in {0, 1} :
            /\ Moves(d, n) /\ (n = 1 => Moves(zero, one) \/ Moves(one, one))
      BY <1>3, <1>4
    <2>2. n = 1 => Added.type \notin Answering /\ Added.type # "error"
      BY <1>4, <2>1 DEF Answering
    <2> QED BY <1>1, <1>4, <2>1, <2>2, FailingStay, ErrorsLastStay
  <1>5. ASSUME NEW o \in Ops, NEW kind, NEW pid, NewCall(o, kind, pid) PROVE Failing' /\ ErrorsLast'
    <2>1. CASE WaitsToWrite(o)
      <3>1. Touches({}) /\ net' = net
        BY <1>5, <2>1, Still DEF WaitsToWrite, NewCall
      <3> QED BY <1>2, <3>1
    <2>2. CASE WritesAtOnce(o, kind)
      <3>1. Moves(zero, one) /\ Added.type = "written" /\ Added.ok = (net = "up") /\ net' = net
        BY <1>3, <1>5, <2>2 DEF WritesAtOnce, Written, NewCall
      <3>2. net \in {"up", "down"}
        BY DEF Typed
      <3>3. Added.ok \/ net = "down"
        BY <3>1, <3>2
      <3> QED BY <1>4, <3>1, <3>3
    <2> QED BY <1>5, <2>1, <2>2 DEF NewCall
  <1>6. ASSUME NEW o \in Ops, NEW kind, NEW pid, Refused(o, pid) \/ Postponed(o, kind, pid)
        PROVE  Failing' /\ ErrorsLast'
    <2>1. Touches({}) /\ net' = net
      BY <1>6, Still DEF Refused, Postponed, NewHolding
    <2> QED BY <1>2, <2>1
  <1>7. ASSUME NEW o \in Ops, Cancel(o) PROVE Failing' /\ ErrorsLast'
    <2>1. Moves(zero, one) /\ Added.type = "timer" /\ net' = net
      BY <1>3, <1>7, CancelMoves DEF Event
    <2> QED BY <1>4, <2>1
  <1>8. ASSUME NEW b \in broker, NEW type \in Answers(b.type), Answer(b, type)
        PROVE  Failing' /\ ErrorsLast'
    <2>1. net = "up" /\ net' = net /\ type \in Answering /\ Moves(0, 1) /\ Added = Event(type, b.op)
      BY <1>8, AnswerMoves
    <2>2. ErrorsLast'
      BY <2>1 DEF Broken, ErrorsLast
    <2>3. Moves(zero, one) /\ Added.type # "written"
      BY <1>3, <2>1 DEF Event, Answering
    <2>4. Failing'
      BY <1>1, <2>1, <2>3, FailingStay
    <2> QED BY <2>2, <2>4
  <1>9. CASE RunWritten
    <2>1. Moves(one, one) /\ Added.type = "poll" /\ net' = net
      BY <1>3, <1>9, RunsWritten DEF Event
    <2> QED BY <1>4, <2>1
  <1>10. CASE RunPollNone \/ RunPollClosed \/ RunPollWritten \/ RunPollWrite
    <2>1. net' = net
      BY <1>10, RunsPoll
    <2>2. CASE Moves(1, 0)
      <3>1. PICK d \in {0, 1}, n \in {0, 1} : Moves(d, n) /\ n # 1
        BY <1>3, <2>2
      <3> QED BY <1>1, <2>1, <3>1, FailingStay, ErrorsLastStay
    <2>3. CASE Moves(1, 1) /\ Added = Event("poll", 0)
      <3>1. Moves(one, one) /\ Added.type = "poll"
        BY <1>3, <2>3 DEF Event
      <3> QED BY <1>4, <2>1, <3>1
    <2>4. CASE Moves(1, 1) /\ Added = Written(stream.queue[1])
      <3>1. Moves(one, one) /\ Added.type = "written" /\ Added.ok = (net = "up")
        BY <1>3, <2>4 DEF Written
      <3>2. net \in {"up", "down"}
        BY DEF Typed
      <3>3. Added.ok \/ net = "down"
        BY <3>1, <3>2
      <3> QED BY <1>4, <2>1, <3>1, <3>3
    <2> QED BY <1>10, <2>2, <2>3, <2>4, RunsPoll
  <1>11. ASSUME NEW d \in {0, 1}, NEW n \in {0, 1}, Moves(d, n), n = 1 => Added.type \in {"timer", "wake"},
                net' = net
         PROVE  Failing' /\ ErrorsLast'
    <2>1. n = 1 => Added.type \notin Answering /\ Added.type # "error"
      BY <1>11 DEF Answering
    <2> QED BY <1>1, <1>11, <2>1, FailingStay, ErrorsLastStay
  <1>12. CASE RunConnack \/ RunFinal \/ RunPubrec
    <2>1. Hears /\ net' = net
      BY <1>12, Hearing, StatusStep
    <2>2. CASE Moves(1, 0)
      BY <1>3, <1>11, <2>1, <2>2
    <2>3. ASSUME NEW o, Moves(1, 1), Added = Event("timer", o) PROVE Failing' /\ ErrorsLast'
      <3>1. Moves(one, one) /\ Added.type = "timer"
        BY <1>3, <2>3 DEF Event
      <3> QED BY <1>11, <2>1, <3>1
    <2> QED BY <2>1, <2>2, <2>3, WokenMoves DEF Hears
  <1>13. CASE RunTimer
    BY <1>3, <1>11, <1>13, RunsTimer
  <1>14. CASE Down
    <2>1. net = "up" /\ net' = "down" /\ strand' = Append(strand, Event("error", 0))
      BY <1>14 DEF Down
    <2>2. Moves(0, 1) /\ Added = Event("error", 0)
      BY <2>1, Readies
    <2>3. Moves(zero, one) /\ Added.type = "error"
      BY <1>3, <2>2 DEF Event
    <2>4. Failing'
      BY <1>1, <2>1, <2>3, FailingStay
    <2>5. PICK l : AddedAt(l, {"error"}, zero)
      BY <1>3, <2>3, AddsOne
    <2>6. \A i \in 1..Len(strand) : ~Is(i, {"error"})
      BY <1>1, <2>1 DEF Broken
    <2>7. /\ l = Len(strand') /\ l \in Nat /\ strand'[l].type = "error"
          /\ \A i \in 1..l : Is(i, {"error"})' => i = l
      BY <2>3, <2>5, <2>6 DEF AddedAt
    <2>8. ErrorsLast'
      <3> SUFFICES ASSUME NEW i \in 1..l, NEW j \in 1..l, Is(i, {"error"})', Is(j, Answering)'
                   PROVE  j < i
        BY <2>7 DEF ErrorsLast
      <3>1. i = l /\ j # l
        BY <2>7 DEF Is, Answering
      <3> QED BY <2>7, <3>1
    <2> QED BY <2>4, <2>8
  <1>15. CASE RunError
    <2>1. net' = net /\ ((Moves(1, 1) /\ Added = Event("wake", 0)) \/ Moves(1, 0))
      BY <1>15, RunsPut, StatusStep DEF RunError
    <2>2. PICK n \in {0, 1} : Moves(one, n) /\ (n = 1 => Added.type = "wake")
      BY <1>3, <2>1 DEF Event
    <2> QED BY <1>11, <2>1, <2>2
  <1>16. CASE /\ UNCHANGED <<op, col, stream, ep, broker, lost>> /\ Touches({"publish", "wake"})
              /\ net' = net \/ (net = "down" /\ net' = "up" /\ ep.status = "closed" /\ strand = <<>>)
    <2>1. {"publish", "wake"} \cap (Answering \cup {"error", "written"}) = {}
      BY DEF Answering
    <2> QED BY <1>2, <1>16, <2>1
  <1> QED BY <1>5, <1>6, <1>7, <1>8, <1>9, <1>10, <1>12, <1>13, <1>14, <1>15, <1>16, Steps
\* A closed endpoint is owed no answer: after every step.
LEMMA ClosedNext ==
  ASSUME Typed, Typed', Progress, Entries, Claims, Timers, Writes, Links, Connects, Next
  PROVE  Closed'
  <1>1. Closed /\ Broken /\ ErrorsLast
    BY DEF Links
  <1>2. ASSUME Unclaiming, ep'.status = ep.status, stream'.busy = stream.busy,
               net' = net \/ strand = <<>>
        PROVE  Closed'
    <2>1. strand = <<>> => stream.busy = 0
      BY DEF Writes
    <2> QED BY <1>1, <1>2, <2>1 DEF Closed, Unclaiming
  <1>3. CASE ep'.status # "closed"
    BY <1>3 DEF Closed
  <1>4. ASSUME NEW o \in Ops, NEW kind, NEW pid, NewCall(o, kind, pid) PROVE Closed'
    BY <1>3, <1>4 DEF NewCall
  <1>5. ASSUME NEW o \in Ops, NEW kind, NEW pid, Refused(o, pid) \/ Postponed(o, kind, pid)
        PROVE  Closed'
    <2>1. Unclaiming /\ ep'.status = ep.status /\ net' = net /\ stream' = stream
      BY <1>5, ClaimedStep DEF Refused, Postponed, NewHolding
    <2> QED BY <1>2, <2>1
  <1>6. ASSUME NEW o \in Ops, Cancel(o) PROVE Closed'
    <2>1. Unclaiming /\ ep' = ep /\ net' = net /\ stream' = stream
      BY <1>6, ClaimedStep, CancelMoves
    <2> QED BY <1>2, <2>1
  <1>7. ASSUME NEW b \in broker, NEW type \in Answers(b.type), Answer(b, type) PROVE Closed'
    <2>1. Unclaiming /\ ep' = ep /\ net' = net /\ stream' = stream
      BY <1>7, ClaimedStep, AnswerMoves
    <2> QED BY <1>2, <2>1
  <1>8. CASE RunWritten
    <2>1. Unclaiming /\ stream' = stream
      BY <1>8, ClaimedStep, RunsWritten
    <2> QED BY <1>2, <1>8, <2>1, StatusStep
  <1>9. CASE RunTimer
    <2>1. Unclaiming /\ stream' = stream
      BY <1>9, ClaimedStep, RunsTimer
    <2> QED BY <1>2, <1>9, <2>1, StatusStep
  <1>10. CASE RunPollNone \/ RunPollClosed \/ RunPollWritten \/ RunPollWrite
    <2>1. net' = net /\ ep'.status = ep.status
      BY <1>10, StatusStep
    <2>2. Unclaiming \/ ep.status # "closed"
      BY <1>10, ClaimedStep
    <2>3. 1 \in 1..Len(strand) /\ Is(1, {"written", "poll"})
      BY <1>10, RunsPoll DEF Is
    <2>4. stream.busy # 0
      BY <2>3 DEF Writes
    <2> QED BY <1>1, <2>1, <2>2, <2>4 DEF Closed, Unclaiming
  <1>11. CASE RunConnack \/ RunFinal \/ RunPubrec
    <2>1. strand[1].op \in Ops /\ Claimed(strand[1].op)
      BY <1>11, HearsKind
    <2>2. ep'.status # "closed"
      BY <1>1, <1>11, <2>1, StatusStep DEF Closed
    <2> QED BY <1>3, <2>2
  <1>12. CASE Down
    <2>1. /\ net' = "down" /\ ep' = ep
          /\ \A o \in Ops : Claimed(o)' <=> InStrand(o)
      BY <1>12, ClaimedStep, StatusStep
    <2> QED BY <1>1, <2>1 DEF Closed, Claimed
  <1>13. CASE RunError
    <2>1. 1 \in 1..Len(strand) /\ Is(1, {"error"})
      BY <1>13, RunsPut DEF RunError
    <2>2. net = "down" /\ broker = {}
      BY <1>1, <2>1 DEF Broken
    <2>3. \A j \in 1..Len(strand) : ~Is(j, Answering)
      BY <1>1, <2>1 DEF ErrorsLast
    <2>4. \A o \in Ops : ~Claimed(o)
      BY <2>2, <2>3 DEF Claimed, InBroker, InStrand, Of
    <2>5. Unclaiming /\ net' = net
      BY <1>13, ClaimedStep, StatusStep
    <2> QED BY <2>2, <2>4, <2>5 DEF Closed, Unclaiming
  <1>14. CASE /\ UNCHANGED <<op, col, stream, ep, broker, lost>> /\ Touches({"publish", "wake"})
              /\ net' = net \/ (net = "down" /\ net' = "up" /\ ep.status = "closed" /\ strand = <<>>)
    BY <1>2, <1>14, ClaimedStep
  <1> QED BY <1>4, <1>5, <1>6, <1>7, <1>8, <1>9, <1>10, <1>11, <1>12, <1>13, <1>14, Steps
\* The four together.
LEMMA LinksNext ==
  ASSUME Typed, Typed', Progress, Entries, Claims, Timers, Writes, Links, Connects, Next
  PROVE  Links'
  BY BrokenNext, EventsNext, ClosedNext DEF Links

\* CONNECT is the only packet on its way until its answer has come.
LEMMA ConnectsStay ==
  ASSUME Typed, Progress, Claims, Writes, Connects, SameKinds, ep'.status = ep.status,
         \A o \in Ops : Claimed(o)' => Claimed(o),
         \A o \in Ops : op'[o].phase = "sending" => op[o].phase = "sending",
         \A o \in Ops : Queued(o)' => Queued(o), stream.queue = <<>> => stream'.queue = <<>>
  PROVE  Connects'
  <1>1. ASSUME NEW o \in Ops, Claimed(o) \/ op[o].phase = "sending" \/ Queued(o)
        PROVE  op'[o].kind = op[o].kind
    <2>1. op[o].phase = "sending" => op[o].kind # ""
      BY DEF Progress
    <2>2. Queued(o) => op[o].phase = "sending"
      BY DEF Queued, Writes
    <2>3. Claimed(o) => op[o].kind # ""
      BY Unclaimed
    <2> QED BY <1>1, <2>1, <2>2, <2>3 DEF SameKinds
  <1>2. ep'.status = "connecting" =>
          stream'.queue = <<>> /\ \A o \in Ops : Claimed(o)' \/ op'[o].phase = "sending" => op'[o].kind = "start"
    BY <1>1 DEF Connects
  <1>3. \A o \in Ops : Claimed(o)' /\ op'[o].kind = "start" => Claimed(o) /\ op[o].kind = "start"
    BY <1>1
  <1>4. \A o \in Ops : Queued(o)' => op'[o].kind # "start"
    BY <1>1 DEF Connects
  <1> QED BY <1>2, <1>3, <1>4 DEF Connects
\* Nothing but CONNECT is written while the endpoint connects: after a call,
LEMMA ConnectsCall ==
  ASSUME Typed, Typed', Progress, Claims, Writes, Links, Connects, NEW o \in Ops, NEW kind, NEW pid,
         NewCall(o, kind, pid)
  PROVE  Connects'
  <1>1. /\ op[o].phase = "new" /\ op'[o].kind = kind /\ \A q \in Ops : q # o => op'[q] = op[q]
        /\ \A q \in Ops : Claimed(q)' =>
             Claimed(q) \/ (q = o /\ WritesAtOnce(o, kind) /\ net = "up" /\ kind \in Answered)
    BY ClaimedCall DEF NewCall, Advances, Named
  <1>2. ~Claimed(o)
    BY <1>1, Unclaimed DEF Progress
  <1>3. CASE kind = "start"
    <2>1. /\ ep.status = "closed" /\ ep'.status = "connecting" /\ net = "up" /\ stream.busy = 0
          /\ \A q \in Ops : ~Claimed(q)
      BY <1>3 DEF NewCall, Links, Closed
    <2>2. WritesAtOnce(o, kind)
      BY <2>1 DEF NewCall, WaitsToWrite
    <2>3. stream.queue = <<>> /\ \A i \in 1..Len(strand) : ~Is(i, {"written", "poll"})
      BY <2>1 DEF Writes
    <2>4. stream'.queue = <<>>
      BY <2>2, <2>3 DEF WritesAtOnce, Typed
    <2>5. \A q \in Ops : op[q].phase # "sending"
      <3>1. \A q : ~Queued(q) /\ \A i \in 1..Len(strand) : ~Of(i, {"written"}, q)
        BY <2>3 DEF Queued, Of, Is
      <3> QED BY <3>1 DEF Writes
    <2>6. \A q : ~Queued(q)'
      BY <2>4 DEF Queued
    <2> QED BY <1>1, <1>3, <2>1, <2>4, <2>5, <2>6 DEF Connects
  <1>4. CASE kind # "start"
    <2>1. ep.status = "connected" /\ ep'.status # "connecting"
      BY <1>4 DEF NewCall
    <2>2. \A q \in Ops : ~(Claimed(q)' /\ op'[q].kind = "start")
      BY <1>1, <1>2, <1>4, <2>1 DEF Connects
    <2>3. ASSUME NEW q \in Ops, Queued(q)', q # o PROVE Queued(q)
      <3>1. CASE WritesAtOnce(o, kind)
        BY <2>3, <3>1 DEF WritesAtOnce, Queued, Typed
      <3>2. CASE WaitsToWrite(o)
        <4>1. stream'.queue = Append(stream.queue, o) /\ stream.queue \in Seq(Ops)
          BY <3>2 DEF WaitsToWrite, Typed
        <4>2. PICK i \in 1..Len(stream'.queue) : stream'.queue[i] = q
          BY <2>3 DEF Queued
        <4>3. i \in 1..Len(stream.queue) /\ stream.queue[i] = q
          BY <2>3, <4>1, <4>2
        <4> QED BY <4>3 DEF Queued
      <3> QED BY <3>1, <3>2 DEF NewCall
    <2>4. \A q \in Ops : Queued(q)' => op'[q].kind # "start"
      BY <1>1, <1>4, <2>3 DEF Connects
    <2> QED BY <2>1, <2>2, <2>4 DEF Connects
  <1> QED BY <1>3, <1>4
\* and after every step.
LEMMA ConnectsNext ==
  ASSUME Typed, Typed', Progress, Entries, Claims, Timers, Writes, Links, Connects, Next, Closed'
  PROVE  Connects'
  <1>1. SameKinds
    BY Moved, SamesKinds
  <1>2. ASSUME Unclaiming, stream'.queue = stream.queue, ep'.status = ep.status,
               op' = op \/ \E o, from, to : Advances(o, from, to) /\ to # "sending"
        PROVE  Connects'
    <2>1. \A o \in Ops : op'[o].phase = "sending" => op[o].phase = "sending"
      BY <1>2 DEF Advances
    <2>2. \A o \in Ops : Queued(o)' => Queued(o)
      BY <1>2 DEF Queued
    <2> QED BY <1>1, <1>2, <2>1, <2>2, ConnectsStay DEF Unclaiming
  <1>3. ASSUME NEW o \in Ops, NEW kind, NEW pid, Refused(o, pid) \/ Postponed(o, kind, pid)
        PROVE  Connects'
    <2>1. Unclaiming /\ ep'.status = ep.status /\ stream' = stream
      BY <1>3, ClaimedStep DEF Refused, Postponed, NewHolding
    <2>2. \E to : Advances(o, "new", to) /\ to # "sending"
      BY <1>3 DEF Refused, Postponed
    <2> QED BY <1>2, <2>1, <2>2
  <1>4. ASSUME NEW o \in Ops, Cancel(o) PROVE Connects'
    <2>1. Unclaiming /\ ep' = ep /\ stream' = stream /\ Advances(o, "waiting", "woken")
      BY <1>4, ClaimedStep, CancelMoves
    <2> QED BY <1>2, <2>1
  <1>5. ASSUME NEW b \in broker, NEW type \in Answers(b.type), Answer(b, type) PROVE Connects'
    <2>1. Unclaiming /\ ep' = ep /\ op' = op /\ stream' = stream
      BY <1>5, ClaimedStep, AnswerMoves
    <2> QED BY <1>2, <2>1
  <1>6. CASE RunWritten
    <2>1. Unclaiming /\ stream' = stream /\ \E to : Advances(strand[1].op, "sending", to) /\ to # "sending"
      BY <1>6, ClaimedStep, RunsWritten, WrittenMoves
    <2> QED BY <1>2, <1>6, <2>1, StatusStep
  <1>7. CASE RunTimer
    <2>1. Unclaiming /\ stream' = stream
      BY <1>7, ClaimedStep, RunsTimer
    <2> QED BY <1>2, <1>7, <2>1, StatusStep, TimerMoves
  <1>8. CASE RunPollNone \/ RunPollClosed \/ RunPollWritten \/ RunPollWrite
    <2>1. ep'.status = ep.status
      BY <1>8, StatusStep
    <2>2. CASE stream.queue = <<>> /\ stream' = [stream EXCEPT !.busy = 0] /\ broker' = broker /\ op' = op
      <3>1. stream'.queue = stream.queue
        BY <2>2 DEF Typed
      <3>2. Unclaiming
        BY <1>8, <2>2, ClaimedStep DEF Turned
      <3> QED BY <1>2, <2>1, <2>2, <3>1, <3>2
    <2>3. CASE Turned
      <3>1. \A o : Queued(o)' => Queued(o)
        BY <2>3, UnwrittenTurn
      <3>2. \A o \in Ops : op'[o].phase = "sending" => op[o].phase = "sending"
        <4>1. op' = op \/ \E o, to : Advances(o, "sending", to) /\ to # "sending"
          BY <1>8, PollMoves
        <4> QED BY <4>1 DEF Advances
      <3>3. stream.queue # <<>>
        BY <2>3 DEF Turned
      <3>4. CASE Unclaiming
        BY <1>1, <2>1, <3>1, <3>2, <3>3, <3>4, ConnectsStay DEF Unclaiming
      <3>5. CASE /\ op' = op
                 /\ \A o \in Ops : Claimed(o)' <=>
                      Claimed(o) \/ (o \in Batch /\ net = "up" /\ op[o].kind \in Answered)
        <4>1. ep.status # "connecting"
          BY <3>3 DEF Connects
        <4>2. \A o \in Batch : Queued(o)
          BY <2>3, UnwrittenTurn
        <4>3. \A o \in Ops : ~(Claimed(o)' /\ op'[o].kind = "start")
          BY <3>5, <4>1, <4>2 DEF Connects
        <4>4. \A o \in Ops : Queued(o)' => op'[o].kind # "start"
          BY <3>1, <3>5 DEF Connects
        <4> QED BY <2>1, <4>1, <4>3, <4>4 DEF Connects
      <3> QED BY <1>8, <3>4, <3>5, ClaimedStep
    <2> QED BY <1>8, <2>2, <2>3, PollMoves
  <1>9. CASE RunConnack \/ RunFinal \/ RunPubrec
    <2>1. /\ stream' = stream /\ \A q \in Ops : op'[q].kind = op[q].kind
          /\ op' = op \/ \E o : Advances(o, "waiting", "woken")
      BY <1>9, Hearing, WokenMoves, HearsKind DEF Hears
    <2>2. \A o \in Ops : Queued(o)' => Queued(o)
      BY <2>1 DEF Queued
    <2>3. \A o \in Ops : op'[o].phase = "sending" => op[o].phase = "sending"
      BY <2>1 DEF Advances
    <2>4. CASE RunFinal \/ RunPubrec
      <3>1. \A o \in Ops : Claimed(o)' => Claimed(o)
        BY <2>4, ClaimedStep
      <3>2. ep'.status = ep.status
        BY <2>4, StatusStep
      <3> QED BY <1>1, <2>1, <2>2, <2>3, <3>1, <3>2, ConnectsStay
    <2>5. CASE RunConnack
      <3>1. ep'.status = "connected" /\ \A o \in Ops : Claimed(o)' => IsStored(o)
        BY <2>5, ClaimedStep, StatusStep
      <3>2. \A o \in Ops : IsStored(o) => op'[o].kind # "start"
        BY <2>1 DEF IsStored, Claims, Publishing
      <3>3. \A o \in Ops : Queued(o)' => op'[o].kind # "start"
        BY <2>1, <2>2 DEF Connects
      <3> QED BY <3>1, <3>2, <3>3 DEF Connects
    <2> QED BY <1>9, <2>4, <2>5
  <1>10. CASE Down
    <2>1. ep' = ep /\ \A o \in Ops : Claimed(o)' => Claimed(o)
      BY <1>10, ClaimedStep, StatusStep DEF Claimed
    <2>2. op' = op /\ stream' = stream
      BY <1>10 DEF Down
    <2>3. \A o \in Ops : Queued(o)' => Queued(o)
      BY <2>2 DEF Queued
    <2> QED BY <1>1, <2>1, <2>2, <2>3, ConnectsStay
  <1>11. CASE RunError
    <2>1. ep'.status = "closed" /\ \A o \in Ops : ~Claimed(o)'
      BY <1>11, StatusStep DEF Closed
    <2>2. op' = op /\ stream'.queue = stream.queue
      BY <1>11 DEF RunError, Typed
    <2>3. \A o \in Ops : Queued(o)' => op'[o].kind # "start"
      BY <2>2 DEF Queued, Connects
    <2> QED BY <2>1, <2>3 DEF Connects
  <1>12. CASE UNCHANGED <<op, col, stream, ep, broker, lost>> /\ Touches({"publish", "wake"})
    BY <1>2, <1>12, ClaimedStep
  <1> QED BY <1>3, <1>4, <1>5, <1>6, <1>7, <1>8, <1>9, <1>10, <1>11, <1>12, ConnectsCall, Steps
-------------------------------------------------------------------------------
\* All of it, and what it is for.
Always == Typed /\ Wakes /\ Progress /\ Entries /\ Claims /\ Timers /\ Writes /\ Links /\ Connects

\* The invariant holds initially,
LEMMA AlwaysInit ==
  ASSUME Init
  PROVE  Always
  <1>1. /\ op = [o \in Ops |-> [kind |-> "", pid |-> 0, phase |-> "new", result |-> "", of |-> 0]]
        /\ col = {} /\ strand = <<>> /\ net = "down" /\ broker = {} /\ lost = FALSE
        /\ inbox = [queue |-> <<>>, inserted |-> FALSE, recv |-> "idle"]
        /\ ep = [status |-> "closed", used |-> {}, stored |-> {}, session |-> FALSE]
    BY DEF Init
  <1>2. PICK bulk \in BOOLEAN : stream = [busy |-> 0, queue |-> <<>>, storing |-> {}, bulk |-> bulk]
    BY ClientAssumption DEF Init
  <1>3. /\ Len(strand) = 0 /\ 1..Len(strand) = {} /\ <<>> \in Seq(Events) /\ <<>> \in Seq(Ops)
        /\ <<>> \in Seq({"publish", "error"})
    <2>1. Len(<<>>) = 0 /\ 1..0 = {}
      OBVIOUS
    <2>2. <<>> \in Seq(Events) /\ <<>> \in Seq(Ops) /\ <<>> \in Seq({"publish", "error"})
      OBVIOUS
    <2> QED BY <1>1, <2>1, <2>2
  <1>4. 0 \in 0..MaxPid
    BY ClientAssumption
  <1>5. \A o : ~Claimed(o) /\ ~Queued(o) /\ ~Unwritten(o)
    BY <1>1, <1>2, <1>3 DEF Claimed, InBroker, InStrand, Queued, Unwritten
  <1>6. Typed
    <2>1. op \in [Ops -> Calls]
      BY <1>1, <1>4 DEF Calls, Results
    <2>2. stream \in [busy : Ops \cup {0}, queue : Seq(Ops), storing : SUBSET Ops, bulk : BOOLEAN]
      BY <1>2, <1>3
    <2> QED BY <1>1, <1>3, <2>1, <2>2 DEF Typed
  <1>7. Progress
    BY <1>1 DEF Progress, WithoutId, Answered, Requesting, Publishing
  <1>8. Writes
    BY <1>1, <1>2, <1>3 DEF Writes, Queued
  <1>9. Claims
    BY <1>1, <1>3, <1>5 DEF Claims
  <1>10. Wakes /\ Entries /\ Timers
    BY <1>1, <1>3 DEF Wakes, Entries, Timers
  <1>11. Links /\ Connects
    BY <1>1, <1>2, <1>3, <1>5 DEF Links, Broken, Failing, ErrorsLast, Closed, Connects
  <1> QED BY <1>6, <1>7, <1>8, <1>9, <1>10, <1>11 DEF Always
\* and every step keeps it.
LEMMA AlwaysNext ==
  ASSUME Always, [Next]_vars
  PROVE  Always'
  <1>1. CASE UNCHANGED vars
    <2> USE <1>1 DEF vars, Always
    <2>1. Typed' /\ Progress' /\ Entries'
      BY DEF Typed, Progress, Entries
    <2>2. Wakes' /\ Timers'
      BY DEF Wakes, Timers, Is, Of
    <2>3. \A o : (Claimed(o)' <=> Claimed(o)) /\ (InStrand(o)' <=> InStrand(o))
      BY DEF Claimed, InBroker, InStrand, Of, Is
    <2>4. \A o : (Queued(o)' <=> Queued(o)) /\ (Unwritten(o)' <=> Unwritten(o))
      BY DEF Queued, Unwritten
    <2>5. Claims'
      BY <2>3, <2>4 DEF Claims, Is
    <2>6. Writes'
      BY DEF Writes, Is, Of, Queued
    <2>7. Links'
      BY <2>3 DEF Links, Broken, Failing, ErrorsLast, Closed, Is
    <2>8. Connects'
      BY <2>3, <2>4 DEF Connects
    <2> QED BY <2>1, <2>2, <2>5, <2>6, <2>7, <2>8
  <1>2. CASE Next
    <2>1. Typed /\ Wakes /\ Progress /\ Entries /\ Claims /\ Timers /\ Writes /\ Links /\ Connects
      BY DEF Always
    <2>2. Typed'
      BY <1>2, <2>1, TypedNext
    <2>3. Wakes' /\ Timers' /\ Entries' /\ Writes' /\ Claims'
      BY <1>2, <2>1, <2>2, WakesNext, TimersNext, EntriesNext, WritesNext, ClaimsNext
    <2>4. Progress'
      BY <1>2, <2>1, <2>2, Moved, ProgressNext
    <2>5. Links'
      BY <1>2, <2>1, <2>2, LinksNext
    <2>6. Connects'
      BY <1>2, <2>1, <2>2, <2>5, ConnectsNext DEF Links
    <2> QED BY <2>2, <2>3, <2>4, <2>5, <2>6 DEF Always
  <1> QED BY <1>1, <1>2

\* TypeOK: every entry of pid_tim_pv_res_col_ is of an operation that has not completed.
THEOREM TypesOfClient == Spec => []TypeOK
  <1>1. Always => TypeOK
    BY DEF Always, Typed, Entries, TypeOK, Held
  <1>2. Spec => []Always
    BY AlwaysInit, AlwaysNext, PTL DEF Spec
  <1> QED BY <1>1, <1>2, PTL

\* RecvWakes: async_recv waits only while the queue is empty, and it is woken for a packet
\* only while there is one.
THEOREM RecvIsWoken == Spec => []RecvWakes
  <1>1. Always => RecvWakes
    BY DEF Always, Wakes, RecvWakes
  <1>2. Spec => []Always
    BY AlwaysInit, AlwaysNext, PTL DEF Spec
  <1> QED BY <1>1, <1>2, PTL
-------------------------------------------------------------------------------
(***************************************************************************)
(* An operation completes with the answer to its own packet, as long as    *)
(* no answer that was waited for got lost and none came before its         *)
(* operation waited for it.                                                *)
(***************************************************************************)
\* The packet id of an operation is its own while its packet or an answer to it can still
\* reach the client.
Holds(o) ==
  /\ op[o].pid # 0
  /\ \/ op[o].phase = "sending" \/ Claimed(o) \/ IsStored(o)
     \/ op[o].phase = "waiting" /\ HasEntry(o)
Holders ==
  /\ \A o \in Ops : Holds(o) => op[o].pid \in ep.used
  /\ \A o, q \in Ops : Holds(o) /\ Holds(q) /\ op[o].pid = op[q].pid => o = q

\* A write of the queue that the error of the connection precedes will fail.
Doomed ==
  \/ ep.status = "closed"
  \/ \E i, j \in 1..Len(strand) : Is(i, {"error"}) /\ Is(j, {"written", "poll"}) /\ i < j

\* SUBSCRIBE and UNSUBSCRIBE are with the broker, or their answers are in the strand, from
\* when they are written until they are answered.
Asked ==
  /\ \A i \in 1..Len(strand) : Is(i, {"written"}) /\ strand[i].ok =>
       (op[strand[i].op].kind \in Requesting => Claimed(strand[i].op))
  /\ stream.bulk => \A o \in Ops :
       Queued(o) /\ o \notin stream.storing /\ op[o].kind \in Requesting => Claimed(o) \/ Doomed
  /\ \A o \in Ops :
       op[o].phase = "waiting" /\ HasEntry(o) /\ op[o].kind \in Requesting => Claimed(o)
  /\ net = "down" => \A o \in Ops :
       op[o].phase = "sending" /\ op[o].kind \in Requesting => ~Claimed(o)

\* One async_start at a time waits for CONNACK.
Starting(o) == op[o].kind = "start" /\ (op[o].phase \in {"sending", "waiting"} \/ Claimed(o))
Starts ==
  /\ \A o \in Ops : Starting(o) => ep.status = "connecting"
  /\ \A o, q \in Ops :
       Starting(o) /\ (Starting(q) \/ (op[q].kind = "start" /\ op[q].phase = "woken")) => o = q
  /\ net = "up" /\ ep.status = "closed" =>
       \A o \in Ops : ~(op[o].kind = "start" /\ op[o].phase = "woken")
  /\ \A o \in Ops : op[o].kind = "start" /\ op[o].phase = "waiting" => HasEntry(o)
  /\ net = "down" => \A o \in Ops : ~(op[o].kind = "start" /\ op[o].phase \in {"sending", "waiting"})

\* The timer of a woken operation runs before the answer to a later one with its packet id.
TimerFirst ==
  \A i, j \in 1..Len(strand) :
    /\ Is(i, {"timer"}) /\ Is(j, Answering) /\ HasEntry(strand[i].op) /\ op[strand[i].op].pid # 0
    /\ strand[j].op # strand[i].op /\ op[strand[j].op].pid = op[strand[i].op].pid
    => i < j

\* What an entry has, and what an operation completes with.
OwnEntries == \A e \in col : \A a \in e.got : a.op = e.op /\ a.type \in Expected(op[e.op].kind)
OwnResults == \A o \in Ops : op[o].of # 0 => op[o].of = o /\ op[o].result # "protocol_error"

Owned == Holders /\ Asked /\ Starts /\ TimerFirst /\ OwnEntries /\ OwnResults
-------------------------------------------------------------------------------
\* The history variable: what was lost stays lost, and what is known while nothing is.
LEMMA Histories ==
  ASSUME Always, Always', Next
  PROVE  /\ lost => lost'
         /\ RunConnack \/ RunFinal \/ RunPubrec => lost' \/ op[strand[1].op].phase # "sending"
         /\ RunConnack => lost' \/ strand[1].type = "connack_present" \/ Running(Publishing) = {}
         /\ Down => lost' \/ Running({"start"} \cup Requesting) = {}
  <1>1. Typed /\ Typed' /\ Progress /\ Entries /\ Claims /\ Timers /\ Writes
    BY DEF Always
  <1>2. ASSUME RunConnack \/ RunFinal \/ RunPubrec
        PROVE  (lost => lost') /\ (lost' \/ op[strand[1].op].phase # "sending")
    <2>1. Head(strand) = strand[1]
      BY <1>1, <1>2, Hearing DEF Hears
    <2> QED BY <1>2, <2>1 DEF RunConnack, RunFinal, RunPubrec, TooEarly
  <1>3. ASSUME RunConnack
        PROVE  lost' \/ strand[1].type = "connack_present" \/ Running(Publishing) = {}
    <2>1. Head(strand) = strand[1]
      BY <1>1, <1>3, Hearing DEF Hears
    <2> QED BY <1>3, <2>1 DEF RunConnack
  <1>4. ASSUME Down PROVE (lost => lost') /\ (lost' \/ Running({"start"} \cup Requesting) = {})
    BY <1>4 DEF Down
  <1>5. lost => lost'
    <2>1. ASSUME RunWritten \/ RunPollNone \/ RunPollClosed \/ RunPollWritten \/ RunPollWrite
                 \/ RunTimer \/ RunError
          PROVE  lost' = lost
      BY <1>1, <2>1, RunsWritten, RunsPoll, RunsTimer DEF RunError
    <2>2. ASSUME NEW o \in Ops, NEW kind, NEW pid,
                 NewCall(o, kind, pid) \/ Refused(o, pid) \/ Postponed(o, kind, pid) \/ Cancel(o)
          PROVE  lost' = lost
      BY <2>2 DEF NewCall, Refused, Postponed, NewHolding, Cancel
    <2>3. ASSUME NEW b, NEW type, Answer(b, type) PROVE lost' = lost
      BY <2>3 DEF Answer
    <2> QED BY <1>1, <1>2, <1>4, <2>1, <2>2, <2>3, Steps
  <1> QED BY <1>2, <1>3, <1>4, <1>5

\* How an operation moves, when it is not called by the step.
LEMMA Phases ==
  ASSUME Always, Always', Next, NEW o \in Ops, op[o].phase # "new"
  PROVE  /\ op'[o].kind = op[o].kind /\ op'[o].pid = op[o].pid /\ op'[o].phase # "new"
         /\ op'[o].phase = "sending" => op[o].phase = "sending"
         /\ op'[o].phase = "waiting" => op[o].phase \in {"sending", "waiting"}
         /\ op'[o].phase = "woken" => op[o].phase \in {"waiting", "woken"}
         /\ op'[o].phase # "done" => op'[o].of = op[o].of
         /\ op[o].phase = "done" => op'[o] = op[o]
  <1>1. Onwards
    BY Moved DEF Always
  <1>2. ASSUME NEW q, NEW from \in {"new", "sending", "waiting", "woken"},
               NEW to \in {"sending", "waiting", "woken", "done"}, Advances(q, from, to),
               <<from, to>> \in {<<"new", "sending">>, <<"new", "waiting">>, <<"new", "done">>,
                  <<"sending", "waiting">>, <<"sending", "done">>, <<"waiting", "woken">>,
                  <<"woken", "done">>}
        PROVE  /\ op'[o].kind = op[o].kind /\ op'[o].pid = op[o].pid /\ op'[o].phase # "new"
               /\ op'[o].phase = "sending" => op[o].phase = "sending"
               /\ op'[o].phase = "waiting" => op[o].phase \in {"sending", "waiting"}
               /\ op'[o].phase = "woken" => op[o].phase \in {"waiting", "woken"}
               /\ op'[o].phase # "done" => op'[o].of = op[o].of
               /\ op[o].phase = "done" => op'[o] = op[o]
    BY <1>2 DEF Advances
  <1>3. CASE op' = op
    BY <1>3
  <1> QED BY <1>1, <1>2, <1>3 DEF Onwards, NewCall, Refused, Postponed

\* Where an entry comes from: it was there, with what it has but the answer that is heard,
\* or its operation waits from now on.
LEMMA EntriesCome ==
  ASSUME Always, Always', Next, NEW f \in col'
  PROVE  \/ \E e \in col :
              /\ f.op = e.op /\ f.pid = e.pid
              /\ f.got \subseteq e.got \cup {b \in {strand[1]} : Hears /\ e.pid = op[b.op].pid}
         \/ f.got = {} /\ op[f.op].phase \in {"new", "sending"} /\ op'[f.op].phase = "waiting"
  <1> DEFINE Kept(g) == \E e \in col :
              /\ g.op = e.op /\ g.pid = e.pid
              /\ g.got \subseteq e.got \cup {b \in {strand[1]} : Hears /\ e.pid = op[b.op].pid}
  <1>1. Typed /\ Typed' /\ Progress /\ Entries /\ Claims /\ Timers /\ Writes
    BY DEF Always
  <1>2. ASSUME f \in col PROVE Kept(f)
    BY <1>2
  <1>3. ASSUME NEW o, NEW from \in {"new", "sending"}, Advances(o, from, "waiting"), Entered(o)
        PROVE  Kept(f) \/ (/\ f.got = {} /\ op[f.op].phase \in {"new", "sending"}
                           /\ op'[f.op].phase = "waiting")
    <2>1. CASE f \in col
      BY <1>2, <2>1
    <2>2. CASE f = [pid |-> op'[o].pid, op |-> o, got |-> {}]
      BY <1>3, <2>2 DEF Advances
    <2> QED BY <1>3, <2>1, <2>2 DEF Entered
  <1>4. ASSUME Hears PROVE Kept(f)
    <2>1. PICK e \in col :
            /\ f.pid = e.pid /\ f.op = e.op
            /\ f.got \subseteq e.got \cup {b \in {strand[1]} : e.pid = op[strand[1].op].pid}
      BY <1>4 DEF Hears, Filled
    <2> QED BY <1>4, <2>1
  <1> HIDE DEF Kept
  <1>5. ASSUME NEW o \in Ops, NEW kind, NEW pid,
               NewCall(o, kind, pid) \/ Refused(o, pid) \/ Postponed(o, kind, pid) \/ Cancel(o)
        PROVE  Kept(f) \/ (/\ f.got = {} /\ op[f.op].phase \in {"new", "sending"}
                           /\ op'[f.op].phase = "waiting")
    <2>1. CASE NewCall(o, kind, pid) \/ Refused(o, pid) \/ Cancel(o)
      BY <1>2, <2>1 DEF NewCall, Refused, Cancel
    <2>2. CASE Postponed(o, kind, pid)
      BY <1>3, <2>2 DEF Postponed
    <2> QED BY <1>5, <2>1, <2>2
  <1>6. ASSUME RunWritten \/ (RunPollNone \/ RunPollClosed \/ RunPollWritten \/ RunPollWrite)
        PROVE  Kept(f) \/ (/\ f.got = {} /\ op[f.op].phase \in {"new", "sending"}
                           /\ op'[f.op].phase = "waiting")
    <2>1. \/ col' = col
          \/ \E o : Advances(o, "sending", "waiting") /\ Entered(o)
      BY <1>1, <1>6, WrittenMoves, PollMoves
    <2> QED BY <1>2, <1>3, <2>1
  <1>7. ASSUME RunTimer PROVE Kept(f)
    BY <1>1, <1>2, <1>7, RunsTimer
  <1>8. ASSUME RunConnack \/ RunFinal \/ RunPubrec PROVE Kept(f)
    BY <1>1, <1>4, <1>8, Hearing
  <1>9. ASSUME \/ Down \/ RunError \/ UNCHANGED <<op, col, stream, ep, broker, lost>>
               \/ \E b \in broker : \E type \in Answers(b.type) : Answer(b, type)
        PROVE  Kept(f)
    BY <1>2, <1>9 DEF Down, RunError, Answer
  <1>10. Kept(f) \/ (/\ f.got = {} /\ op[f.op].phase \in {"new", "sending"}
                     /\ op'[f.op].phase = "waiting")
    BY <1>1, <1>5, <1>6, <1>7, <1>8, <1>9, Steps
  <1> QED BY <1>10 DEF Kept

\* An entry comes to an operation that waits from now on, and stays while it does.
LEMMA WaitsEntered ==
  ASSUME Always, Always', Next, NEW o \in Ops
  PROVE  /\ HasEntry(o)' => HasEntry(o) \/
              (op[o].phase \in {"new", "sending"} /\ op'[o].phase = "waiting")
         /\ op[o].phase = "waiting" /\ HasEntry(o)' => HasEntry(o)
  <1>1. ASSUME NEW f \in col', f.op = o
        PROVE  HasEntry(o) \/ (op[o].phase \in {"new", "sending"} /\ op'[o].phase = "waiting")
    BY <1>1, EntriesCome DEF HasEntry
  <1> QED BY <1>1 DEF HasEntry

\* The answer that ends an operation ends its wait, when it is entered.
LEMMA EndsWait ==
  ASSUME Always, RunConnack \/ RunFinal, op[strand[1].op].phase = "waiting", HasEntry(strand[1].op)
  PROVE  op'[strand[1].op].phase = "woken"
  <1>1. Typed /\ Entries /\ Claims
    BY DEF Always
  <1>2. Hears
    BY <1>1, Hearing
  <1>3. Ends(strand[1].type)
    <2>1. Head(strand) = strand[1]
      BY <1>2 DEF Hears
    <2> QED BY <2>1 DEF RunConnack, RunFinal, Ready, Ends, Replies, Connacks
  <1>4. PICK e \in col : e.op = strand[1].op
    BY DEF HasEntry
  <1>5. e.pid = op[strand[1].op].pid /\ op[e.op].phase = "waiting"
    BY <1>1, <1>4 DEF Entries
  <1>6. PICK f \in col :
          /\ f.pid = op[strand[1].op].pid /\ op' = [op EXCEPT ![f.op].phase = "woken"]
    BY <1>2, <1>3, <1>5 DEF Hears, Woke
  <1>7. f = e
    BY <1>1, <1>5, <1>6 DEF Entries
  <1>8. strand[1].op \in DOMAIN op
    BY <1>1, <1>2 DEF Hears, Typed
  <1> QED BY <1>4, <1>6, <1>7, <1>8

\* What comes into the store is of an operation that is called, or PUBREL of one on its way.
LEMMA StoredCome ==
  ASSUME Always, Always', Next, NEW o \in Ops, op[o].phase # "new", IsStored(o)'
  PROVE  IsStored(o) \/ Claimed(o)
  <1>1. Typed /\ Typed' /\ Progress /\ Entries /\ Claims /\ Timers /\ Writes
    BY DEF Always
  <1>2. PICK s \in ep'.stored : s.op = o
    BY DEF IsStored
  <1>3. ASSUME ep'.stored \subseteq ep.stored PROVE IsStored(o)
    BY <1>2, <1>3 DEF IsStored
  <1>4. ASSUME NEW q \in Ops, NEW kind, NEW pid,
               NewCall(q, kind, pid) \/ Refused(q, pid) \/ Postponed(q, kind, pid)
        PROVE  IsStored(o)
    <2>1. q # o
      BY <1>4 DEF NewCall, Refused, Postponed, Advances
    <2>2. PICK k : ep'.stored = ep.stored \cup {t \in {[type |-> k, op |-> q]} : k \in Publishing}
      BY <1>4 DEF NewCall, Refused, Postponed, NewHolding
    <2>3. s # [type |-> k, op |-> q]
      BY <1>2, <2>1
    <2> QED BY <1>2, <2>2, <2>3 DEF IsStored
  <1>5. ASSUME RunPubrec PROVE IsStored(o) \/ Claimed(o)
    <2>1. Head(strand) = strand[1] /\ Claimed(strand[1].op)
      BY <1>1, <1>5, Hearing, HearsKind DEF Hears
    <2>2. ep'.stored = {t \in ep.stored : t.op # strand[1].op}
                          \cup {[type |-> "pubrel", op |-> strand[1].op]}
      BY <1>1, <1>5, <2>1 DEF RunPubrec, Typed
    <2> QED BY <1>2, <2>1, <2>2 DEF IsStored
  <1>6. ASSUME RunFinal PROVE ep'.stored \subseteq ep.stored
    BY <1>1, <1>6 DEF RunFinal, Typed
  <1>7. ASSUME RunConnack PROVE ep'.stored \subseteq ep.stored
    <2>1. CASE ep' = [ep EXCEPT !.status = "connected"]
      BY <1>1, <2>1 DEF Typed
    <2>2. CASE ep'.stored = {}
      BY <2>2
    <2> QED BY <1>7, <2>1, <2>2 DEF RunConnack
  <1>8. ASSUME RunWritten \/ (RunPollNone \/ RunPollClosed \/ RunPollWritten \/ RunPollWrite)
        PROVE  ep'.stored \subseteq ep.stored
    <2>1. \/ ep' = ep \/ \E q \in Ops : Failed(q)
      BY <1>1, <1>8, WrittenMoves, RunsWritten, PollMoves DEF Turned
    <2> QED BY <1>1, <2>1, FailedRange DEF Typed
  <1>9. ASSUME RunError PROVE ep'.stored \subseteq ep.stored
    BY <1>1, <1>9 DEF RunError, Typed
  <1>10. ASSUME \/ Down \/ UNCHANGED <<op, col, stream, ep, broker, lost>> \/ RunTimer
                \/ (\E b \in broker : \E type \in Answers(b.type) : Answer(b, type))
                \/ (\E q \in Ops : Cancel(q))
         PROVE  ep'.stored \subseteq ep.stored
    BY <1>1, <1>10, RunsTimer DEF Down, Answer, Cancel
  <1> QED BY <1>1, <1>3, <1>4, <1>5, <1>6, <1>7, <1>8, <1>9, <1>10, Steps

\* A packet on its way, of an operation that is called, was on its way before, or is written
\* in its turn, or is sent again out of the store.
LEMMA ClaimedCome ==
  ASSUME Always, Always', Next, NEW o \in Ops, op[o].phase # "new", Claimed(o)'
  PROVE  Claimed(o) \/ (net = "up" /\ \/ op[o].phase = "sending" /\ Queued(o)
                                      \/ RunConnack /\ IsStored(o))
  <1>1. Typed /\ Typed' /\ Progress /\ Entries /\ Claims /\ Timers /\ Writes /\ Connects
    BY DEF Always
  <1>2. ASSUME Unclaiming PROVE Claimed(o)
    BY <1>2 DEF Unclaiming
  <1>3. ASSUME NEW q \in Ops, NEW kind, NEW pid,
               NewCall(q, kind, pid) \/ Refused(q, pid) \/ Postponed(q, kind, pid)
        PROVE  Claimed(o)
    <2>1. CASE NewCall(q, kind, pid)
      <3>1. q # o
        BY <2>1 DEF NewCall, Advances
      <3> QED BY <1>1, <2>1, <3>1, ClaimedCall
    <2> QED BY <1>1, <1>2, <1>3, <2>1, ClaimedStep
  <1>4. ASSUME RunPollNone \/ RunPollClosed \/ RunPollWritten \/ RunPollWrite
        PROVE  Claimed(o) \/ (net = "up" /\ op[o].phase = "sending" /\ Queued(o))
    <2>1. ASSUME Turned, o \in Batch PROVE op[o].phase = "sending" /\ Queued(o)
      BY <1>1, <2>1, UnwrittenTurn DEF Queued, Writes
    <2> QED BY <1>1, <1>2, <1>4, <2>1, ClaimedStep
  <1>5. ASSUME RunConnack PROVE net = "up" /\ IsStored(o)
    BY <1>1, <1>5, ClaimedStep
  <1>6. ASSUME RunFinal \/ RunPubrec PROVE Claimed(o)
    BY <1>1, <1>6, ClaimedStep
  <1>7. ASSUME Down PROVE Claimed(o)
    BY <1>1, <1>7, ClaimedStep DEF Claimed
  <1>8. ASSUME RunWritten \/ RunTimer \/ RunError PROVE Claimed(o)
    BY <1>1, <1>2, <1>8, ClaimedStep
  <1>9. ASSUME \/ \E q \in Ops : Cancel(q)
               \/ \E b \in broker : \E type \in Answers(b.type) : Answer(b, type)
        PROVE  Claimed(o)
    BY <1>1, <1>2, <1>9, ClaimedStep
  <1>10. ASSUME UNCHANGED <<op, col, stream, ep, broker, lost>>, Touches({"publish", "wake"})
         PROVE  Claimed(o)
    BY <1>1, <1>2, <1>10, ClaimedStep
  <1> QED BY <1>1, <1>3, <1>4, <1>5, <1>6, <1>7, <1>8, <1>9, <1>10, Steps

\* An operation that holds its packet id has held it since it was called.
LEMMA HoldsStays ==
  ASSUME Always, Always', Next, NEW o \in Ops, op[o].phase # "new", Holds(o)'
  PROVE  Holds(o) /\ op'[o].pid = op[o].pid
  <1>1. /\ op'[o].pid = op[o].pid
        /\ op'[o].phase = "sending" => op[o].phase = "sending"
        /\ op'[o].phase = "waiting" => op[o].phase \in {"sending", "waiting"}
    BY Phases
  <1>2. op'[o].pid # 0 /\ (\/ op'[o].phase = "sending" \/ Claimed(o)' \/ IsStored(o)'
                           \/ op'[o].phase = "waiting" /\ HasEntry(o)')
    BY DEF Holds
  <1>3. op[o].phase = "waiting" /\ HasEntry(o)' => HasEntry(o)
    BY WaitsEntered
  <1> QED BY <1>1, <1>2, <1>3, StoredCome, ClaimedCome DEF Holds

\* One that is called gets a packet id that none holds.
LEMMA NewHolds ==
  ASSUME Always, Always', Next, NEW o \in Ops, op[o].phase = "new", Holds(o)'
  PROVE  /\ op'[o].pid \notin ep.used /\ op'[o].pid \in ep'.used
         /\ \A q \in Ops : op[q].phase = "new" /\ Holds(q)' => q = o
  <1>1. ASSUME NEW q \in Ops, op[q].phase = "new", Holds(q)'
        PROVE  \E kind, pid : NewCall(q, kind, pid) \/ Refused(q, pid) \/ Postponed(q, kind, pid)
    <2>1. op'[q].pid # 0
      BY <1>1 DEF Holds
    <2>2. op'[q].phase # "new"
      BY <2>1 DEF Always, Progress
    <2>3. Onwards
      BY Moved DEF Always
    <2> QED BY <1>1, <2>2, <2>3 DEF Onwards, Advances, NewCall, Refused, Postponed
  <1>2. PICK kind, pid : NewCall(o, kind, pid) \/ Refused(o, pid) \/ Postponed(o, kind, pid)
    BY <1>1
  <1>3. op'[o].pid # 0
    BY DEF Holds
  <1>4. PICK k : Named(o, k, pid)
    BY <1>2 DEF NewCall, Refused, Postponed, NewHolding
  <1>5. op'[o].pid = pid /\ pid \notin ep.used
    BY <1>3, <1>4 DEF Named
  <1>6. ep'.used = ep.used \cup ({pid} \ {0})
    BY <1>2 DEF NewCall, Refused, Postponed, NewHolding
  <1>7. ASSUME NEW q \in Ops, op[q].phase = "new", Holds(q)' PROVE q = o
    <2>1. PICK to : Advances(o, "new", to) /\ to # "new"
      BY <1>2 DEF NewCall, Refused, Postponed
    <2>2. op'[q] = op[q] \/ q = o
      BY <2>1 DEF Advances
    <2>3. PICK fro : Advances(q, "new", fro) /\ fro # "new"
      BY <1>1, <1>7 DEF NewCall, Refused, Postponed
    <2> QED BY <1>7, <2>2, <2>3 DEF Advances
  <1> QED BY <1>3, <1>5, <1>6, <1>7

\* A send that fails gives a packet id back that no one holds any more.
LEMMA FailedUnheld ==
  ASSUME Always, Always', Next, Holders, NEW o \in Ops, op[o].phase # "new", Holds(o)',
         NEW q \in Ops, Failed(q), Advances(q, "sending", "done"), Unclaiming,
         op[q].kind \in Requesting => ~Claimed(q)
  PROVE  op[o].pid \in ep'.used
  <1>1. Typed /\ Claims
    BY DEF Always
  <1>2. Holds(o) /\ op'[o].pid = op[o].pid /\ op[o].pid # 0 /\ op[o].pid \in ep.used
    BY HoldsStays DEF Holders, Holds
  <1>3. /\ ep'.used = IF op[q].kind \in Requesting THEN ep.used \ {op[q].pid} ELSE ep.used
        /\ ep'.stored = ep.stored
    BY <1>1, FailedRange DEF Typed
  <1>4. ASSUME op[q].kind \in Requesting, op[o].pid = op[q].pid PROVE FALSE
    <2>1. Holds(q)
      BY <1>2, <1>4 DEF Holds, Advances
    <2>2. o = q
      BY <1>2, <1>4, <2>1 DEF Holders
    <2>3. op'[o].phase = "done" /\ ~Claimed(o)'
      BY <1>4, <2>2 DEF Advances, Unclaiming
    <2>4. IsStored(o)'
      BY <2>3 DEF Holds
    <2>5. PICK s \in ep.stored : s.op = o
      BY <1>3, <2>4 DEF IsStored
    <2>6. op[o].kind \in Publishing
      BY <1>1, <2>5 DEF Claims
    <2> QED BY <1>4, <2>2, <2>6 DEF Requesting, Publishing
  <1> QED BY <1>2, <1>3, <1>4

\* What is heard is of an operation that holds its packet id, when it has one.
LEMMA ClaimedHolds ==
  ASSUME NEW o \in Ops, Claimed(o), op[o].pid # 0
  PROVE  Holds(o)
  BY DEF Holds

\* A packet id that is held stays in use.
LEMMA UsedKept ==
  ASSUME Always, Always', Next, ~lost', Holders, Asked, NEW o \in Ops, op[o].phase # "new",
         Holds(o)'
  PROVE  op[o].pid \in ep'.used
  <1>1. Typed /\ Typed' /\ Progress /\ Entries /\ Claims /\ Timers /\ Writes /\ Connects /\ Links
    BY DEF Always
  <1>2. Holds(o) /\ op'[o].pid = op[o].pid /\ op[o].pid # 0 /\ op[o].pid \in ep.used
    BY HoldsStays DEF Holders, Holds
  <1>3. ASSUME ep.used \subseteq ep'.used PROVE op[o].pid \in ep'.used
    BY <1>2, <1>3
  <1>4. ASSUME NEW q \in Ops, NEW kind, NEW pid,
               NewCall(q, kind, pid) \/ Refused(q, pid) \/ Postponed(q, kind, pid)
        PROVE  ep.used \subseteq ep'.used
    BY <1>4 DEF NewCall, Refused, Postponed, NewHolding
  <1>5. ASSUME RunWritten PROVE op[o].pid \in ep'.used
    <2>1. CASE ep' = ep
      BY <1>3, <2>1
    <2>2. CASE ep' # ep
      <3>1. /\ ~strand[1].ok /\ Failed(strand[1].op) /\ Advances(strand[1].op, "sending", "done")
            /\ Is(1, {"written"}) /\ strand[1].op \in Ops
        BY <1>1, <1>5, <2>2, WrittenMoves, RunsWritten
      <3>2. net = "down"
        BY <1>1, <3>1 DEF Links, Failing, Is
      <3>3. Unclaiming
        BY <1>1, <1>5, ClaimedStep
      <3>4. op[strand[1].op].kind \in Requesting => ~Claimed(strand[1].op)
        BY <3>1, <3>2 DEF Asked, Advances
      <3> QED BY <3>1, <3>3, <3>4, FailedUnheld
    <2> QED BY <2>1, <2>2
  <1>6. ASSUME RunPollNone \/ RunPollClosed \/ RunPollWritten \/ RunPollWrite
        PROVE  op[o].pid \in ep'.used
    <2>1. CASE ep' = ep
      BY <1>3, <2>1
    <2>2. CASE ep' # ep
      <3>1. /\ ep.status = "closed" /\ Failed(stream.queue[1]) /\ stream.queue[1] \in Ops
            /\ Advances(stream.queue[1], "sending", "done") /\ Turned
        BY <1>1, <1>6, <2>2, PollMoves DEF Turned
      <3>2. ~Claimed(stream.queue[1])
        BY <1>1, <3>1 DEF Links, Closed
      <3>3. Unclaiming
        BY <1>1, <1>6, <3>1, ClaimedStep
      <3> QED BY <3>1, <3>2, <3>3, FailedUnheld
    <2> QED BY <2>1, <2>2
  <1>7. ASSUME RunFinal PROVE op[o].pid \in ep'.used
    <2>1. Hears /\ Head(strand) = strand[1] /\ Claimed(strand[1].op) /\ strand[1].op \in Ops
      BY <1>1, <1>7, Hearing, HearsKind DEF Hears
    <2>2. /\ ep'.used = ep.used \ {op[strand[1].op].pid}
          /\ ep'.stored = {s \in ep.stored : s.op # strand[1].op}
      BY <1>1, <1>7, <2>1 DEF RunFinal, Typed
    <2>3. ASSUME op[o].pid = op[strand[1].op].pid PROVE FALSE
      <3>1. o = strand[1].op
        BY <1>2, <2>1, <2>3, ClaimedHolds DEF Holders
      <3>2. ~Claimed(o)' /\ ~IsStored(o)'
        BY <1>1, <1>7, <2>2, <3>1, ClaimedStep DEF IsStored
      <3>3. op[o].phase # "sending"
        BY <1>7, <3>1, Histories
      <3>4. op'[o].phase = "waiting" /\ HasEntry(o)'
        BY <3>2, <3>3, Phases DEF Holds
      <3>5. op[o].phase = "waiting" /\ HasEntry(o)
        BY <3>3, <3>4, Phases, WaitsEntered
      <3> QED BY <1>7, <3>1, <3>4, <3>5, EndsWait
    <2> QED BY <1>2, <2>2, <2>3
  <1>8. ASSUME RunConnack PROVE op[o].pid \in ep'.used
    <2>1. CASE ep'.used = ep.used
      BY <1>3, <2>1
    <2>2. CASE ep'.used # ep.used
      <3>1. Hears /\ Head(strand) = strand[1] /\ strand[1].op \in Ops /\ op[strand[1].op].kind = "start"
        BY <1>1, <1>8, Hearing, HearsKind DEF Hears
      <3>2. strand[1].type # "connack_present" /\ ep'.stored = {}
        <4>1. CASE ep' = [ep EXCEPT !.status = "connected"]
          BY <1>1, <2>2, <4>1 DEF Typed
        <4> QED BY <1>8, <3>1, <4>1 DEF RunConnack
      <3>3. Running(Publishing) = {}
        BY <1>8, <3>2, Histories
      <3>4. ~Claimed(o)' /\ ~IsStored(o)' /\ ep.status = "connecting"
        BY <1>1, <1>8, <3>2, ClaimedStep DEF IsStored
      <3>5. op[o].kind # "start"
        BY <1>1, <1>2 DEF Progress, WithoutId
      <3>6. op[o].phase # "sending"
        BY <1>1, <3>4, <3>5 DEF Connects
      <3>7. op[o].phase = "waiting" /\ HasEntry(o)
        BY <3>4, <3>6, Phases, WaitsEntered DEF Holds
      <3>8. op[o].kind \notin Publishing
        BY <3>3, <3>7 DEF Running
      <3>9. op[o].kind \in Requesting
        BY <1>1, <3>5, <3>7, <3>8 DEF Progress, Answered
      <3>10. Claimed(o)
        BY <3>7, <3>9 DEF Asked
      <3> QED BY <1>1, <1>8, <3>1, <3>5, <3>10, ClaimedStep
    <2> QED BY <2>1, <2>2
  <1>9. ASSUME RunPubrec PROVE ep.used \subseteq ep'.used
    BY <1>1, <1>9 DEF RunPubrec, Typed
  <1>10. ASSUME RunError PROVE ep.used \subseteq ep'.used
    BY <1>1, <1>10 DEF RunError, Typed
  <1>11. ASSUME \/ Down \/ UNCHANGED <<op, col, stream, ep, broker, lost>> \/ RunTimer
                \/ (\E b \in broker : \E type \in Answers(b.type) : Answer(b, type))
                \/ (\E q \in Ops : Cancel(q))
         PROVE  ep.used \subseteq ep'.used
    BY <1>1, <1>11, RunsTimer DEF Down, Answer, Cancel
  <1> QED BY <1>1, <1>3, <1>4, <1>5, <1>6, <1>7, <1>8, <1>9, <1>10, <1>11, Steps

\* Packet ids are held by one operation each: after every step.
LEMMA HoldersNext ==
  ASSUME Always, Always', Next, ~lost', Holders, Asked
  PROVE  Holders'
  <1>1. ASSUME NEW o \in Ops, Holds(o)'
        PROVE  /\ op'[o].pid \in ep'.used
               /\ \/ op[o].phase # "new" /\ Holds(o) /\ op'[o].pid = op[o].pid /\ op[o].pid \in ep.used
                  \/ op[o].phase = "new" /\ op'[o].pid \notin ep.used
    <2>1. CASE op[o].phase = "new"
      BY <1>1, <2>1, NewHolds
    <2>2. CASE op[o].phase # "new"
      <3>1. Holds(o) /\ op'[o].pid = op[o].pid
        BY <1>1, <2>2, HoldsStays
      <3>2. op[o].pid \in ep'.used
        BY <1>1, <2>2, UsedKept
      <3> QED BY <2>2, <3>1, <3>2 DEF Holders
    <2> QED BY <2>1, <2>2
  <1>2. ASSUME NEW o \in Ops, NEW q \in Ops, Holds(o)', Holds(q)', op'[o].pid = op'[q].pid
        PROVE  o = q
    <2>1. CASE op[o].phase = "new" /\ op[q].phase = "new"
      BY <1>2, <2>1, NewHolds
    <2>2. CASE op[o].phase # "new" /\ op[q].phase # "new"
      BY <1>1, <1>2, <2>2 DEF Holders
    <2>3. CASE op[o].phase = "new" /\ op[q].phase # "new"
      BY <1>1, <1>2, <2>3
    <2>4. CASE op[o].phase # "new" /\ op[q].phase = "new"
      BY <1>1, <1>2, <2>4
    <2> QED BY <2>1, <2>2, <2>3, <2>4
  <1> QED BY <1>1, <1>2 DEF Holders
-------------------------------------------------------------------------------
\* SUBSCRIBE or UNSUBSCRIBE stays on its way while its operation sends or waits.
LEMMA ClaimedStays ==
  ASSUME Always, Always', Next, ~lost', NEW o \in Ops, op[o].kind \in Requesting, Claimed(o),
         \/ op[o].phase = "sending"
         \/ op[o].phase = "waiting" /\ HasEntry(o) /\ op'[o].phase = "waiting"
  PROVE  Claimed(o)'
  <1>1. Typed /\ Typed' /\ Progress /\ Entries /\ Claims /\ Timers /\ Writes /\ Connects
    BY DEF Always
  <1>2. ASSUME Unclaiming PROVE Claimed(o)'
    BY <1>2 DEF Unclaiming
  <1>3. ASSUME NEW q \in Ops, NEW kind, NEW pid,
               NewCall(q, kind, pid) \/ Refused(q, pid) \/ Postponed(q, kind, pid)
        PROVE  Claimed(o)'
    <2>1. CASE NewCall(q, kind, pid)
      BY <1>1, <2>1, ClaimedCall
    <2> QED BY <1>1, <1>2, <1>3, <2>1, ClaimedStep
  <1>4. ASSUME RunPollNone \/ RunPollClosed \/ RunPollWritten \/ RunPollWrite PROVE Claimed(o)'
    BY <1>1, <1>2, <1>4, ClaimedStep
  <1>5. ASSUME RunConnack PROVE FALSE
    <2>1. o = strand[1].op /\ op[strand[1].op].kind = "start"
      BY <1>1, <1>5, ClaimedStep, HearsKind
    <2> QED BY <2>1 DEF Requesting
  <1>6. ASSUME RunFinal PROVE Claimed(o)'
    <2>1. CASE o = strand[1].op
      BY <1>6, <2>1, Histories, EndsWait
    <2> QED BY <1>1, <1>6, <2>1, ClaimedStep
  <1>7. ASSUME RunPubrec PROVE Claimed(o)'
    <2>1. o # strand[1].op
      BY <1>1, <1>7, HearsKind DEF Requesting
    <2> QED BY <1>1, <1>7, <2>1, ClaimedStep
  <1>8. ASSUME Down PROVE FALSE
    <2>1. Running({"start"} \cup Requesting) = {}
      BY <1>8, Histories
    <2> QED BY <2>1 DEF Running
  <1>9. ASSUME RunWritten \/ RunTimer \/ RunError PROVE Claimed(o)'
    BY <1>1, <1>2, <1>9, ClaimedStep
  <1>10. ASSUME \/ \E q \in Ops : Cancel(q)
                \/ \E b \in broker : \E type \in Answers(b.type) : Answer(b, type)
         PROVE  Claimed(o)'
    BY <1>1, <1>2, <1>10, ClaimedStep
  <1>11. ASSUME UNCHANGED <<op, col, stream, ep, broker, lost>>, Touches({"publish", "wake"})
         PROVE  Claimed(o)'
    BY <1>1, <1>2, <1>11, ClaimedStep
  <1> QED BY <1>1, <1>3, <1>4, <1>5, <1>6, <1>7, <1>8, <1>9, <1>10, <1>11, Steps

\* The write that is next: when its packet went out with an earlier one, it is on its way.
LEMMA TurnClaimed ==
  ASSUME Always, Asked, Is(1, {"poll"}), Turned, ep.status # "closed",
         op[stream.queue[1]].kind \in Requesting, stream.queue[1] \notin Batch
  PROVE  Claimed(stream.queue[1])
  <1>1. Writes
    BY DEF Always
  <1>2. stream.bulk /\ Batch = stream.storing
    BY DEF Batch, Turned
  <1>3. Queued(stream.queue[1])
    BY DEF Queued, Turned
  <1>4. ASSUME Doomed PROVE FALSE
    <2>1. PICK i, j \in 1..Len(strand) : Is(i, {"error"}) /\ Is(j, {"written", "poll"}) /\ i < j
      BY <1>4 DEF Doomed
    <2>2. Is(1, {"written", "poll"}) /\ 1 \in 1..Len(strand)
      BY DEF Is
    <2>3. j = 1
      BY <1>1, <2>1, <2>2 DEF Writes
    <2> QED BY <2>1, <2>3
  <1> QED BY <1>2, <1>3, <1>4 DEF Asked, Turned

\* An operation whose send completes, and that waits from now on, enters its timer.
LEMMA SendEnds ==
  ASSUME Always, Always', Next, NEW o \in Ops, op[o].phase = "sending", op'[o].phase = "waiting"
  PROVE  /\ Entered(o)
         /\ RunWritten \/ (RunPollNone \/ RunPollClosed \/ RunPollWritten \/ RunPollWrite)
  <1>1. Typed /\ Typed' /\ Progress /\ Entries /\ Claims /\ Timers /\ Writes
    BY DEF Always
  <1>2. ASSUME RunWritten \/ (RunPollNone \/ RunPollClosed \/ RunPollWritten \/ RunPollWrite)
        PROVE  Entered(o)
    <2>1. \/ op' = op \/ \E q : Advances(q, "sending", "done")
          \/ \E q : Advances(q, "sending", "waiting") /\ Entered(q)
      BY <1>1, <1>2, WrittenMoves, PollMoves
    <2> QED BY <2>1 DEF Advances
  <1>3. ASSUME NEW q \in Ops, NEW kind, NEW pid,
               NewCall(q, kind, pid) \/ Refused(q, pid) \/ Postponed(q, kind, pid) \/ Cancel(q)
        PROVE  op'[o].phase = "sending"
    <2>1. \E from \in {"new", "waiting"} : \E to : Advances(q, from, to)
      BY <1>1, <1>3, CancelMoves DEF NewCall, Refused, Postponed
    <2> QED BY <2>1 DEF Advances
  <1>4. ASSUME RunConnack \/ RunFinal \/ RunPubrec PROVE op'[o].phase = "sending"
    <2>1. op' = op \/ \E q : Advances(q, "waiting", "woken")
      BY <1>1, <1>4, Hearing, WokenMoves DEF Hears
    <2> QED BY <2>1 DEF Advances
  <1>5. ASSUME RunTimer PROVE op'[o].phase = "sending"
    BY <1>1, <1>5, TimerMoves DEF Advances
  <1>6. ASSUME \/ Down \/ RunError \/ UNCHANGED <<op, col, stream, ep, broker, lost>>
               \/ (\E b \in broker : \E type \in Answers(b.type) : Answer(b, type))
        PROVE  op'[o].phase = "sending"
    BY <1>6 DEF Down, RunError, Answer
  <1> QED BY <1>1, <1>2, <1>3, <1>4, <1>5, <1>6, Steps

\* What is waited for has been asked for.
LEMMA AskedWaits ==
  ASSUME Always, Always', Next, ~lost', Asked,
         NEW o \in Ops, op'[o].phase = "waiting", HasEntry(o)', op'[o].kind \in Requesting
  PROVE  Claimed(o)'
  <1>1. Typed /\ Typed' /\ Progress /\ Entries /\ Claims /\ Timers /\ Writes /\ Connects
    BY DEF Always
  <1>2. Onwards
    BY Moved DEF Always
  <1>3. op[o].phase # "new"
    <2>1. ASSUME op[o].phase = "new" PROVE FALSE
      <3>1. \E kind, pid : Postponed(o, kind, pid)
        BY <1>2, <2>1 DEF Onwards, Advances, NewCall, Refused, Postponed
      <3>2. op'[o].kind \in Publishing
        BY <3>1 DEF Postponed, NewHolding, Named
      <3> QED BY <3>2 DEF Publishing, Requesting
    <2> QED BY <2>1
  <1>4. op[o].kind \in Requesting /\ op[o].phase \in {"sending", "waiting"}
    BY <1>3, Phases
  <1>5. CASE op[o].phase = "waiting"
    BY <1>4, <1>5, WaitsEntered, ClaimedStays DEF Asked
  <1>6. ASSUME op[o].phase = "sending", RunWritten PROVE Claimed(o)
    <2>1. o = strand[1].op /\ strand[1].ok /\ Is(1, {"written"})
      BY <1>1, <1>6, WrittenMoves, RunsWritten DEF Advances
    <2> QED BY <1>4, <2>1 DEF Asked, Is
  <1>7. ASSUME op[o].phase = "sending",
               RunPollNone \/ RunPollClosed \/ RunPollWritten \/ RunPollWrite
        PROVE  Claimed(o)
    <2>1. o = stream.queue[1] /\ Turned /\ ep.status # "closed" /\ Batch = {}
      BY <1>1, <1>7, PollMoves DEF Advances
    <2>2. Is(1, {"poll"})
      BY <1>1, <1>7, RunsPoll
    <2> QED BY <1>4, <2>1, <2>2, TurnClaimed
  <1> QED BY <1>4, <1>5, <1>6, <1>7, SendEnds, ClaimedStays

\* Where an event of the strand was before the step.
LEMMA MovedFrom ==
  ASSUME NEW d \in {0, 1}, NEW n \in {0, 1}, Moves(d, n), Len(strand') \in Nat,
         NEW i \in 1..Len(strand')
  PROVE  \/ i + d \in 1..Len(strand) /\ strand[i + d] = strand'[i]
         \/ n = 1 /\ i = Len(strand') /\ strand'[i] = Added
  BY DEF Moves, Added

\* No write becomes ready.
Unwriting == \E d, n \in {0, 1} : Moves(d, n) /\ (n = 1 => Added.type # "written")
LEMMA UnwritingTouched ==
  ASSUME NEW touched, Touches(touched), "written" \notin touched
  PROVE  Unwriting
  BY DEF Touches, Unwriting

\* SUBSCRIBE and UNSUBSCRIBE that have been written are on their way.
LEMMA AskedWritten ==
  ASSUME Always, Always', Next, ~lost', Asked, NEW i \in 1..Len(strand'), NEW o \in Ops,
         Of(i, {"written"}, o)', strand'[i].ok, op'[o].kind \in Requesting
  PROVE  Claimed(o)'
  <1>1. Typed /\ Typed' /\ Progress /\ Entries /\ Claims /\ Timers /\ Writes /\ Connects
    BY DEF Always
  <1>2. strand'[i].type = "written" /\ strand'[i].op = o /\ Len(strand') \in Nat
    BY <1>1 DEF Of, Is, Typed
  <1>3. ASSUME NEW k \in 1..Len(strand), strand[k] = strand'[i] PROVE Claimed(o)'
    <2>1. Is(k, {"written"}) /\ strand[k].ok /\ strand[k].op = o
      BY <1>2, <1>3 DEF Is
    <2>2. op[o].phase = "sending"
      BY <1>1, <2>1 DEF Writes
    <2>3. op[o].kind \in Requesting
      BY <2>2, Phases
    <2>4. Claimed(o)
      BY <2>1, <2>3 DEF Asked
    <2> QED BY <2>2, <2>3, <2>4, ClaimedStays
  <1>4. ASSUME Unwriting PROVE Claimed(o)'
    <2>1. PICK d \in {0, 1}, n \in {0, 1} : Moves(d, n) /\ (n = 1 => Added.type # "written")
      BY <1>4 DEF Unwriting
    <2>2. i + d \in 1..Len(strand) /\ strand[i + d] = strand'[i]
      BY <1>2, <2>1, MovedFrom
    <2> QED BY <1>3, <2>2
  <1>5. ASSUME NEW q \in Ops, NEW kind, NEW pid,
               NewCall(q, kind, pid) \/ Refused(q, pid) \/ Postponed(q, kind, pid) \/ Cancel(q)
        PROVE  Claimed(o)'
    <2>1. CASE Refused(q, pid) \/ Postponed(q, kind, pid)
      <3>1. strand' = strand
        BY <2>1 DEF Refused, Postponed, NewHolding
      <3> QED BY <1>3, <3>1
    <2>2. CASE Cancel(q)
      <3>1. Touches({"timer"})
        BY <1>1, <2>2, Touched
      <3> QED BY <1>4, <3>1, UnwritingTouched
    <2>3. ASSUME NewCall(q, kind, pid), WritesAtOnce(q, kind) PROVE Claimed(o)'
      <3>1. PICK d \in {0, 1}, n \in {0, 1} : d = 0 /\ n = 1
        OBVIOUS
      <3>2. Moves(d, n) /\ Added = Written(q)
        BY <2>3, <3>1 DEF WritesAtOnce
      <3>3. CASE strand'[i] = Added
        <4>1. q = o /\ net = "up"
          <5>1. Written(q).op = q /\ Written(q).ok = (net = "up")
            BY DEF Written
          <5>2. strand'[i] = Written(q)
            BY <3>2, <3>3
          <5> QED BY <1>2, <5>1, <5>2
        <4>2. kind \in Answered
          BY <2>3, <4>1 DEF NewCall, Named, Answered
        <4> QED BY <1>1, <2>3, <4>1, <4>2, ClaimedCall
      <3> QED BY <1>2, <1>3, <3>2, <3>3, MovedFrom
    <2>4. ASSUME NewCall(q, kind, pid), WaitsToWrite(q) PROVE Claimed(o)'
      BY <1>3, <2>4 DEF WaitsToWrite
    <2> QED BY <1>5, <2>1, <2>2, <2>3, <2>4 DEF NewCall
  <1>6. ASSUME RunPollNone \/ RunPollClosed \/ RunPollWritten \/ RunPollWrite PROVE Claimed(o)'
    <2>1. Is(1, {"poll"})
      BY <1>1, <1>6, RunsPoll
    <2>2. PICK d \in {0, 1}, n \in {0, 1} : d = 1 /\ n = 1
      OBVIOUS
    <2>3. PICK z \in {0, 1} : z = 0
      OBVIOUS
    <2>4. CASE Moves(1, 0)
      BY <1>4, <2>2, <2>3, <2>4 DEF Unwriting
    <2>5. CASE Moves(1, 1) /\ Added = Event("poll", 0)
      BY <1>4, <2>2, <2>5 DEF Unwriting, Event
    <2>6. ASSUME /\ Turned /\ ep.status # "closed" /\ Batch # {}
                 /\ Moves(1, 1) /\ Added = Written(stream.queue[1])
                 /\ broker' = Reached(op, Batch) /\ UNCHANGED <<op, col, ep>>
          PROVE  Claimed(o)'
      <3>1. CASE strand'[i] = Added
        <4>1. stream.queue[1] = o /\ net = "up" /\ op[o].kind \in Requesting
          <5> DEFINE q == stream.queue[1]
          <5>1. Written(q).op = q /\ Written(q).ok = (net = "up")
            BY DEF Written
          <5>2. strand'[i] = Written(q)
            BY <2>6, <3>1
          <5> QED BY <1>2, <2>6, <5>1, <5>2
        <4>2. CASE o \in Batch
          <5>1. o \in Ops /\ [type |-> op[o].kind, op |-> o] \in Reached(op, Batch)
            BY <1>1, <4>1, <4>2 DEF Reached, Answered
          <5> QED BY <2>6, <5>1 DEF Claimed, InBroker
        <4>3. CASE o \notin Batch
          <5>1. Claimed(o) /\ op[o].phase = "sending"
            BY <2>1, <2>6, <4>1, <4>3, TurnClaimed DEF Turned
          <5> QED BY <4>1, <5>1, ClaimedStays
        <4> QED BY <4>2, <4>3
      <3> QED BY <1>2, <1>3, <2>2, <2>6, <3>1, MovedFrom
    <2> QED BY <1>1, <1>6, <2>4, <2>5, <2>6, PollMoves
  <1>7. ASSUME RunWritten PROVE Claimed(o)'
    <2>1. PICK d \in {0, 1}, n \in {0, 1} : d = 1 /\ n = 1
      OBVIOUS
    <2>2. Moves(d, n) /\ Added.type # "written"
      BY <1>1, <1>7, <2>1, RunsWritten DEF Event
    <2> QED BY <1>4, <2>2 DEF Unwriting
  <1>8. ASSUME RunConnack \/ RunFinal \/ RunPubrec PROVE Claimed(o)'
    <2>1. Touches(Answering \cup {"timer"})
      BY <1>1, <1>8, Touched
    <2> QED BY <1>4, <2>1, UnwritingTouched DEF Answering
  <1>9. ASSUME RunTimer \/ Down \/ RunError PROVE Claimed(o)'
    <2>1. Touches({"timer"}) \/ Touches({"error"}) \/ Touches({"error", "wake"})
      BY <1>1, <1>9, Touched
    <2> QED BY <1>4, <2>1, UnwritingTouched
  <1>10. ASSUME NEW b \in broker, NEW type \in Answers(b.type), Answer(b, type) PROVE Claimed(o)'
    <2>1. Touches(Answering)
      BY <1>1, <1>10, Touched
    <2> QED BY <1>4, <2>1, UnwritingTouched DEF Answering
  <1>11. ASSUME Touches({"publish", "wake"}) PROVE Claimed(o)'
    BY <1>4, <1>11, UnwritingTouched
  <1> QED BY <1>1, <1>5, <1>6, <1>7, <1>8, <1>9, <1>10, <1>11, Steps

\* The error of the connection stays before the write it dooms.
Dooms(i, j) == Is(i, {"error"}) /\ Is(j, {"written", "poll"}) /\ i < j
LEMMA DoomsStays ==
  ASSUME NEW i \in 1..Len(strand), NEW j \in 1..Len(strand), Dooms(i, j), Len(strand') \in Nat,
         NEW d \in {0, 1}, NEW n \in {0, 1}, Moves(d, n), d = 1 => strand[1].type # "error"
  PROVE  Doomed'
  <1>1. i > d /\ j > d
    BY DEF Dooms, Is
  <1>2. /\ i - d \in 1..(Len(strand) - d) /\ j - d \in 1..(Len(strand) - d)
        /\ i - d \in 1..Len(strand') /\ j - d \in 1..Len(strand')
    BY <1>1 DEF Moves
  <1>3. strand'[i - d] = strand[i] /\ strand'[j - d] = strand[j]
    BY <1>2 DEF Moves
  <1>4. Is(i - d, {"error"})' /\ Is(j - d, {"written", "poll"})' /\ i - d < j - d
    BY <1>2, <1>3 DEF Dooms, Is
  <1> QED BY <1>2, <1>4 DEF Doomed

\* and so after a step that touches no error.
LEMMA DoomsTouched ==
  ASSUME NEW i \in 1..Len(strand), NEW j \in 1..Len(strand), Dooms(i, j), Len(strand') \in Nat,
         NEW touched, Touches(touched), "error" \notin touched
  PROVE  Doomed'
  <1>1. PICK d \in {0, 1}, n \in {0, 1} : Moves(d, n) /\ (d = 1 => strand[1].type # "error")
    BY DEF Touches
  <1> QED BY <1>1, DoomsStays

\* What waits in the write queue and is doomed stays doomed.
LEMMA DoomedNext ==
  ASSUME Always, Always', Next, Doomed, NEW o \in Ops, Queued(o)
  PROVE  Doomed'
  <1>1. /\ Typed /\ Typed' /\ Progress /\ Entries /\ Claims /\ Timers /\ Writes /\ Connects /\ Links
        /\ Len(strand') \in Nat
    BY DEF Always, Typed
  <1>2. stream.busy # 0
    BY <1>1 DEF Writes, Queued
  <1>3. ASSUME ep.status = "closed" PROVE ep'.status = "closed"
    <2>1. ASSUME NEW q \in Ops, NEW kind, NEW pid, NewCall(q, kind, pid) PROVE FALSE
      BY <1>1, <1>2, <1>3, <2>1 DEF NewCall, Links, Closed
    <2>2. ASSUME NEW q \in Ops, NEW kind, NEW pid,
                 Refused(q, pid) \/ Postponed(q, kind, pid) \/ Cancel(q)
          PROVE  ep'.status = ep.status
      BY <1>1, <2>2, StatusStep
    <2>3. ASSUME RunConnack PROVE FALSE
      BY <1>1, <1>3, <2>3, ClaimedStep
    <2>4. ASSUME \/ RunWritten \/ RunPollNone \/ RunPollClosed \/ RunPollWritten \/ RunPollWrite
                 \/ RunFinal \/ RunPubrec \/ RunTimer \/ RunError \/ Down
                 \/ \E b \in broker : \E type \in Answers(b.type) : Answer(b, type)
          PROVE  ep'.status = "closed"
      BY <1>1, <1>3, <2>4, StatusStep
    <2> QED BY <1>1, <1>3, <2>1, <2>2, <2>3, <2>4, Steps
  <1>4. ASSUME NEW i \in 1..Len(strand), NEW j \in 1..Len(strand), Dooms(i, j) PROVE Doomed'
    <2>1. ASSUME Is(1, {"written", "poll"}) PROVE FALSE
      <3>1. Is(j, {"written", "poll"}) /\ i < j /\ 1 \in 1..Len(strand)
        BY <1>4, <2>1 DEF Dooms, Is
      <3>2. j = 1
        BY <1>1, <2>1, <3>1 DEF Writes
      <3> QED BY <3>1, <3>2
    <2>2. ASSUME NEW q \in Ops, NEW kind, NEW pid,
                 NewCall(q, kind, pid) \/ Refused(q, pid) \/ Postponed(q, kind, pid) \/ Cancel(q)
          PROVE  Doomed'
      <3>1. CASE strand' = strand
        <4>1. Touches({})
          BY <1>1, <3>1, Still
        <4> QED BY <1>1, <1>4, <4>1, DoomsTouched
      <3>2. CASE Moves(0, 1)
        <4>1. PICK d \in {0, 1}, n \in {0, 1} : d = 0 /\ n = 1
          OBVIOUS
        <4> QED BY <1>1, <1>4, <3>2, <4>1, DoomsStays
      <3> QED BY <1>1, <2>2, <3>1, <3>2, CancelMoves
              DEF NewCall, Refused, Postponed, NewHolding, WritesAtOnce, WaitsToWrite
    <2>3. ASSUME RunWritten \/ RunPollNone \/ RunPollClosed \/ RunPollWritten \/ RunPollWrite
          PROVE  FALSE
      BY <1>1, <2>1, <2>3, RunsWritten, RunsPoll DEF Is
    <2>4. ASSUME RunError PROVE Doomed'
      BY <1>1, <2>4, StatusStep DEF Doomed
    <2>5. ASSUME Down PROVE Doomed'
      <3>1. Moves(0, 1)
        BY <1>1, <2>5, Readies DEF Down
      <3>2. PICK d \in {0, 1}, n \in {0, 1} : d = 0 /\ n = 1
        OBVIOUS
      <3> QED BY <1>1, <1>4, <3>1, <3>2, DoomsStays
    <2>6. ASSUME RunConnack \/ RunFinal \/ RunPubrec PROVE Doomed'
      <3>1. Touches(Answering \cup {"timer"})
        BY <1>1, <2>6, Touched
      <3> QED BY <1>1, <1>4, <3>1, DoomsTouched DEF Answering
    <2>7. ASSUME RunTimer PROVE Doomed'
      <3>1. Touches({"timer"})
        BY <1>1, <2>7, Touched
      <3> QED BY <1>1, <1>4, <3>1, DoomsTouched
    <2>8. ASSUME NEW b \in broker, NEW type \in Answers(b.type), Answer(b, type) PROVE Doomed'
      <3>1. Touches(Answering)
        BY <1>1, <2>8, Touched
      <3> QED BY <1>1, <1>4, <3>1, DoomsTouched DEF Answering
    <2>9. ASSUME Touches({"publish", "wake"}) PROVE Doomed'
      BY <1>1, <1>4, <2>9, DoomsTouched
    <2> QED BY <1>1, <2>2, <2>3, <2>4, <2>5, <2>6, <2>7, <2>8, <2>9, Steps
  <1> QED BY <1>3, <1>4 DEF Doomed, Dooms

\* What went out with the bulk write of another, and still waits in the queue, is on its way.
LEMMA AskedQueued ==
  ASSUME Always, Always', Next, ~lost', Asked, NEW o \in Ops, Queued(o)', o \notin stream'.storing,
         stream'.bulk, op'[o].kind \in Requesting
  PROVE  Claimed(o)' \/ Doomed'
  <1>1. /\ Typed /\ Typed' /\ Progress /\ Entries /\ Claims /\ Timers /\ Writes /\ Connects /\ Links
        /\ Len(strand') \in Nat /\ Len(stream.queue) \in Nat
    BY DEF Always, Typed
  <1>2. op'[o].phase = "sending"
    <2>1. Writes'
      BY DEF Always
    <2> QED BY <2>1 DEF Writes, Queued
  <1>3. ASSUME Queued(o), o \notin stream.storing, stream.bulk PROVE Claimed(o)' \/ Doomed'
    <2>1. op[o].phase = "sending"
      BY <1>1, <1>3 DEF Writes, Queued
    <2>2. op[o].kind \in Requesting
      BY <2>1, Phases
    <2>3. Claimed(o) \/ Doomed
      BY <1>3, <2>2 DEF Asked
    <2>4. ASSUME Claimed(o) PROVE Claimed(o)'
      BY <2>1, <2>2, <2>4, ClaimedStays
    <2>5. ASSUME Doomed PROVE Doomed'
      BY <1>3, <2>5, DoomedNext
    <2> QED BY <2>3, <2>4, <2>5
  <1>4. ASSUME stream'.queue = stream.queue, stream'.storing = stream.storing,
               stream'.bulk = stream.bulk
        PROVE  Claimed(o)' \/ Doomed'
    BY <1>3, <1>4 DEF Queued
  <1>5. ASSUME NEW q \in Ops, NEW kind, NEW pid, NewCall(q, kind, pid) PROVE Claimed(o)' \/ Doomed'
    <2>1. CASE stream' = [stream EXCEPT !.busy = q]
      BY <1>1, <1>4, <2>1 DEF Typed
    <2>2. ASSUME WaitsToWrite(q) PROVE Claimed(o)' \/ Doomed'
      <3>1. /\ stream'.queue = Append(stream.queue, q) /\ stream'.bulk = stream.bulk
            /\ stream'.storing = IF stream.bulk THEN stream.storing \cup {q} ELSE stream.storing
        BY <1>1, <2>2 DEF WaitsToWrite, Typed
      <3>2. stream.bulk /\ o # q /\ o \notin stream.storing
        BY <3>1
      <3>3. PICK i \in 1..Len(stream'.queue) : stream'.queue[i] = o
        BY DEF Queued
      <3>4. /\ Len(Append(stream.queue, q)) = Len(stream.queue) + 1
            /\ Append(stream.queue, q)[Len(stream.queue) + 1] = q
            /\ \A k \in 1..Len(stream.queue) : Append(stream.queue, q)[k] = stream.queue[k]
        BY <1>1 DEF Typed
      <3>5. Queued(o)
        BY <1>1, <3>1, <3>2, <3>3, <3>4 DEF Queued
      <3> QED BY <1>3, <3>2, <3>5
    <2> QED BY <1>5, <2>1, <2>2 DEF NewCall, WritesAtOnce
  <1>6. ASSUME RunPollNone \/ RunPollClosed \/ RunPollWritten \/ RunPollWrite
        PROVE  Claimed(o)' \/ Doomed'
    <2>1. CASE stream' = [stream EXCEPT !.busy = 0]
      BY <1>1, <1>4, <2>1 DEF Typed
    <2>2. ASSUME Turned PROVE Queued(o) /\ stream.bulk /\ Batch = stream.storing
      <3>1. stream' = Working
        BY <2>2 DEF Turned
      <3>2. stream'.bulk = stream.bulk
        BY <1>1, <3>1 DEF Working, Typed
      <3> QED BY <1>1, <2>2, <3>2, UnwrittenTurn DEF Batch
    <2>3. ASSUME Turned, ep.status = "closed" PROVE Doomed'
      BY <1>1, <1>6, <2>3, StatusStep DEF Doomed
    <2>4. ASSUME Turned, Batch = {} PROVE Claimed(o)' \/ Doomed'
      BY <1>3, <2>2, <2>4
    <2>5. ASSUME /\ Turned /\ ep.status # "closed" /\ Batch # {}
                 /\ Moves(1, 1) /\ Added = Written(stream.queue[1])
                 /\ broker' = Reached(op, Batch) /\ UNCHANGED <<op, col, ep>>
          PROVE  Claimed(o)' \/ Doomed'
      <3>1. CASE o \notin stream.storing
        BY <1>3, <2>2, <2>5, <3>1
      <3>2. ASSUME o \in stream.storing, net = "up" PROVE Claimed(o)'
        <4>1. [type |-> op[o].kind, op |-> o] \in Reached(op, Batch)
          BY <2>2, <2>5, <3>2 DEF Reached, Answered
        <4> QED BY <2>5, <4>1 DEF Claimed, InBroker
      <3>3. ASSUME net = "down" PROVE Doomed'
        <4>1. PICK i \in 1..Len(strand) : Is(i, {"error"})
          BY <1>1, <2>5, <3>3 DEF Links, Broken
        <4>2. Is(1, {"poll"}) /\ Len(strand) \in Nat
          BY <1>1, <1>6, RunsPoll DEF Typed
        <4>3. i # 1 /\ i - 1 \in 1..(Len(strand) - 1) /\ Len(strand') = Len(strand)
          BY <2>5, <4>1, <4>2 DEF Is, Moves
        <4>4. strand'[i - 1] = strand[i]
          BY <2>5, <4>3 DEF Moves
        <4>5. strand'[Len(strand')].type = "written"
          BY <2>5 DEF Added, Written
        <4>6. PICK l : l = Len(strand')
          OBVIOUS
        <4>7. /\ i - 1 \in 1..l /\ l \in 1..l /\ i - 1 < l
              /\ strand'[i - 1].type = "error" /\ strand'[l].type = "written"
          BY <4>1, <4>2, <4>3, <4>4, <4>5, <4>6 DEF Is
        <4> QED BY <4>6, <4>7 DEF Doomed, Is
      <3> QED BY <1>1, <3>1, <3>2, <3>3 DEF Typed
    <2> QED BY <1>1, <1>6, <2>1, <2>3, <2>4, <2>5, PollMoves
  <1>7. ASSUME RunError PROVE Doomed'
    BY <1>1, <1>7, StatusStep DEF Doomed
  <1>8. ASSUME stream' = stream PROVE Claimed(o)' \/ Doomed'
    BY <1>4, <1>8
  <1>9. ASSUME NEW q \in Ops, NEW kind, NEW pid,
               Refused(q, pid) \/ Postponed(q, kind, pid) \/ Cancel(q)
        PROVE  stream' = stream
    BY <1>9 DEF Refused, Postponed, NewHolding, Cancel
  <1>10. ASSUME RunConnack \/ RunFinal \/ RunPubrec PROVE stream' = stream
    BY <1>1, <1>10, Hearing DEF Hears
  <1>11. ASSUME \/ RunWritten \/ RunTimer \/ Down \/ UNCHANGED <<op, col, stream, ep, broker, lost>>
                \/ \E b \in broker : \E type \in Answers(b.type) : Answer(b, type)
         PROVE  stream' = stream
    BY <1>1, <1>11, RunsWritten, RunsTimer DEF Down, Answer
  <1> QED BY <1>1, <1>5, <1>6, <1>7, <1>8, <1>9, <1>10, <1>11, Steps

\* Without a connection, nothing is on its way for whom the write is still to come.
LEMMA AskedBroken ==
  ASSUME Always, Always', Next, ~lost', Asked, net' = "down", NEW o \in Ops,
         op'[o].phase = "sending", op'[o].kind \in Requesting
  PROVE  ~Claimed(o)'
  <1>1. Typed /\ Typed' /\ Progress /\ Entries /\ Claims /\ Timers /\ Writes /\ Connects /\ Links
    BY DEF Always
  <1>2. ASSUME net = "up" PROVE Down
    <2>1. ASSUME NEW q \in Ops, NEW kind, NEW pid,
                 NewCall(q, kind, pid) \/ Refused(q, pid) \/ Postponed(q, kind, pid) \/ Cancel(q)
          PROVE  net' = net
      BY <2>1 DEF NewCall, Refused, Postponed, NewHolding, Cancel
    <2>2. ASSUME \/ RunWritten \/ RunPollNone \/ RunPollClosed \/ RunPollWritten \/ RunPollWrite
                 \/ RunFinal \/ RunPubrec \/ RunTimer \/ RunConnack \/ RunError
                 \/ \E b \in broker : \E type \in Answers(b.type) : Answer(b, type)
          PROVE  net' = net
      BY <1>1, <2>2, StatusStep
    <2> QED BY <1>1, <1>2, <2>1, <2>2, Steps
  <1>3. CASE Down
    <2>1. Running({"start"} \cup Requesting) = {} /\ op' = op
      BY <1>3, Histories DEF Down
    <2> QED BY <2>1 DEF Running
  <1>4. CASE net = "down"
    <2>1. ASSUME op[o].phase = "new", Claimed(o)' PROVE FALSE
      <3>1. op'[o] # op[o] /\ Onwards
        BY <1>1, <2>1, Moved
      <3>2. PICK kind, pid : NewCall(o, kind, pid)
        BY <2>1, <3>1 DEF Onwards, Advances, NewCall, Refused, Postponed
      <3>3. op[o].kind = ""
        BY <1>1, <2>1 DEF Progress
      <3> QED BY <1>1, <1>4, <2>1, <3>2, <3>3, ClaimedCall, Unclaimed
    <2>2. ASSUME op[o].phase # "new", Claimed(o)' PROVE FALSE
      <3>1. op[o].phase = "sending" /\ op[o].kind \in Requesting
        BY <2>2, Phases
      <3>2. ~Claimed(o)
        BY <1>4, <3>1 DEF Asked
      <3> QED BY <1>4, <2>2, <3>2, ClaimedCome
    <2> QED BY <2>1, <2>2
  <1> QED BY <1>1, <1>2, <1>3, <1>4 DEF Typed

\* SUBSCRIBE and UNSUBSCRIBE are on their way as long as they are waited for: after every step.
LEMMA AskedNext ==
  ASSUME Always, Always', Next, ~lost', Asked
  PROVE  Asked'
  <1>1. ASSUME NEW i \in 1..Len(strand'), Is(i, {"written"})', strand'[i].ok, NEW o,
               o = strand'[i].op, op'[o].kind \in Requesting
        PROVE  Claimed(o)'
    <2>1. o \in Ops
      BY <1>1 DEF Always, Writes
    <2> QED BY <1>1, <2>1, AskedWritten DEF Of
  <1>2. ASSUME stream'.bulk, NEW o \in Ops, Queued(o)', o \notin stream'.storing,
               op'[o].kind \in Requesting
        PROVE  Claimed(o)' \/ Doomed'
    BY <1>2, AskedQueued
  <1>3. ASSUME NEW o \in Ops, op'[o].phase = "waiting", HasEntry(o)', op'[o].kind \in Requesting
        PROVE  Claimed(o)'
    BY <1>3, AskedWaits
  <1>4. ASSUME net' = "down", NEW o \in Ops, op'[o].phase = "sending", op'[o].kind \in Requesting
        PROVE  ~Claimed(o)'
    BY <1>4, AskedBroken
  <1> QED BY <1>1, <1>2, <1>3, <1>4 DEF Asked
-------------------------------------------------------------------------------
\* An entry stays until its operation completes.
LEMMA EntriesKept ==
  ASSUME Always, Always', Next, NEW o \in Ops, HasEntry(o), op'[o].phase \in {"waiting", "woken"}
  PROVE  HasEntry(o)'
  <1>1. Typed /\ Typed' /\ Progress /\ Entries /\ Claims /\ Timers /\ Writes
    BY DEF Always
  <1>2. PICK e \in col : e.op = o
    BY DEF HasEntry
  <1>3. ASSUME col \subseteq col' PROVE HasEntry(o)'
    BY <1>2, <1>3 DEF HasEntry
  <1>4. ASSUME NEW q, Entered(q) PROVE col \subseteq col'
    BY <1>4 DEF Entered
  <1>5. ASSUME NEW q \in Ops, NEW kind, NEW pid,
               NewCall(q, kind, pid) \/ Refused(q, pid) \/ Postponed(q, kind, pid) \/ Cancel(q)
        PROVE  col \subseteq col'
    BY <1>4, <1>5 DEF NewCall, Refused, Postponed, Cancel
  <1>6. ASSUME RunWritten \/ (RunPollNone \/ RunPollClosed \/ RunPollWritten \/ RunPollWrite)
        PROVE  col \subseteq col'
    BY <1>1, <1>4, <1>6, WrittenMoves, PollMoves
  <1>7. ASSUME RunConnack \/ RunFinal \/ RunPubrec PROVE HasEntry(o)'
    <2>1. Filled(strand[1])
      BY <1>1, <1>7, Hearing DEF Hears
    <2> QED BY <1>2, <2>1 DEF Filled, HasEntry
  <1>8. ASSUME RunTimer PROVE HasEntry(o)'
    <2>1. strand[1].op # o
      BY <1>1, <1>8, TimerMoves DEF Advances
    <2> QED BY <1>1, <1>2, <1>8, <2>1, RunsTimer DEF HasEntry
  <1>9. ASSUME \/ Down \/ RunError \/ UNCHANGED <<op, col, stream, ep, broker, lost>>
               \/ (\E b \in broker : \E type \in Answers(b.type) : Answer(b, type))
        PROVE  col \subseteq col'
    BY <1>9 DEF Down, RunError, Answer
  <1> QED BY <1>1, <1>3, <1>5, <1>6, <1>7, <1>8, <1>9, Steps

\* The one async_start that waits has an entry: no other operation without a packet id does.
LEMMA StartEnters ==
  ASSUME Always, Always', Next, Starts, NEW o \in Ops, op[o].kind = "start", op[o].phase # "new",
         op'[o].phase = "waiting"
  PROVE  HasEntry(o)'
  <1>1. Typed /\ Progress /\ Entries
    BY DEF Always
  <1>2. CASE op[o].phase = "waiting"
    BY <1>2, EntriesKept DEF Starts
  <1>3. CASE op[o].phase = "sending"
    <2>1. Entered(o)
      BY <1>3, SendEnds
    <2>2. op'[o].pid = op[o].pid /\ op[o].pid = 0
      <3>1. op'[o].pid = op[o].pid
        BY Phases
      <3> QED BY <1>1, <3>1 DEF Progress, WithoutId
    <2>3. ASSUME NEW e \in col, e.pid = 0 PROVE FALSE
      <3>1. e.op \in Ops /\ op[e.op].phase \in {"waiting", "woken"} /\ op[e.op].pid = 0
        BY <1>1, <2>3 DEF Entries, Typed
      <3>2. op[e.op].kind \in Answered /\ op[e.op].kind \in WithoutId
        BY <1>1, <3>1 DEF Progress
      <3>3. op[e.op].kind = "start"
        BY <3>2 DEF Answered, WithoutId, Requesting, Publishing
      <3>4. Starting(o) /\ (Starting(e.op) \/ op[e.op].phase = "woken")
        BY <1>3, <3>1, <3>3 DEF Starting
      <3>5. o = e.op
        BY <3>1, <3>3, <3>4 DEF Starts
      <3> QED BY <1>3, <3>1, <3>5
    <2>4. col' = col \cup {[pid |-> 0, op |-> o, got |-> {}]}
      BY <2>1, <2>2, <2>3 DEF Entered
    <2>5. [pid |-> 0, op |-> o, got |-> {}] \in col' /\ [pid |-> 0, op |-> o, got |-> {}].op = o
      BY <2>4
    <2> QED BY <2>5 DEF HasEntry
  <1> QED BY <1>2, <1>3, Phases

\* What a step may do to the operations that start.
StartStays(o) ==
  /\ op[o].kind = "start" /\ (Claimed(o)' => Claimed(o))
  /\ op'[o].phase \in {"sending", "waiting"} => op[o].phase \in {"sending", "waiting"}
  /\ op'[o].phase = "woken" => op[o].phase \in {"waiting", "woken"}
  /\ op'[o].phase = "waiting" => HasEntry(o)'
LEMMA StartsStay ==
  ASSUME Starts, ep'.status = ep.status, net' = net,
         \A o \in Ops : op'[o].kind = "start" => StartStays(o)
  PROVE  Starts'
  <1>1. ASSUME NEW o \in Ops, Starting(o)' PROVE Starting(o) /\ ep'.status = "connecting"
    <2>1. Starting(o)
      BY <1>1 DEF Starting, StartStays
    <2> QED BY <1>1, <2>1 DEF Starts
  <1>2. ASSUME NEW o \in Ops, op'[o].kind = "start", op'[o].phase = "woken"
        PROVE  op[o].kind = "start" /\ (op[o].phase = "woken" \/ Starting(o))
    BY <1>2 DEF Starting, StartStays
  <1>3. ASSUME NEW o \in Ops, NEW q \in Ops, Starting(o)',
               Starting(q)' \/ (op'[q].kind = "start" /\ op'[q].phase = "woken")
        PROVE  o = q
    BY <1>1, <1>2, <1>3 DEF Starts
  <1>4. ASSUME net' = "up", ep'.status = "closed", NEW o \in Ops, op'[o].kind = "start",
               op'[o].phase = "woken"
        PROVE  FALSE
    <2>1. ~Starting(o)
      BY <1>4 DEF Starts
    <2> QED BY <1>2, <1>4, <2>1 DEF Starts
  <1>5. ASSUME NEW o \in Ops, op'[o].kind = "start", op'[o].phase = "waiting" PROVE HasEntry(o)'
    BY <1>5 DEF StartStays
  <1>6. ASSUME net' = "down", NEW o \in Ops, op'[o].kind = "start",
               op'[o].phase \in {"sending", "waiting"}
        PROVE  FALSE
    BY <1>6 DEF Starts, StartStays
  <1> QED BY <1>1, <1>3, <1>4, <1>5, <1>6 DEF Starts

\* Every step but the call of async_start does no more to them.
LEMMA StartsStill ==
  ASSUME Always, Always', Next, Starts, NEW o \in Ops, op'[o].kind = "start",
         \A pid : ~NewCall(o, "start", pid)
  PROVE  StartStays(o)
  <1>1. Typed /\ Typed' /\ Progress /\ Claims /\ Connects
    BY DEF Always
  <1>2. op[o].phase # "new"
    <2>1. ASSUME op[o].phase = "new" PROVE FALSE
      <3>1. op'[o] # op[o]
        BY <1>1, <2>1 DEF Progress
      <3>2. PICK kind, pid : NewCall(o, kind, pid) \/ Refused(o, pid) \/ Postponed(o, kind, pid)
        <4>1. Onwards
          BY Moved DEF Always
        <4> QED BY <2>1, <3>1, <4>1 DEF Onwards, Advances, NewCall, Refused, Postponed
      <3>3. ~Refused(o, pid) /\ ~Postponed(o, kind, pid)
        BY DEF Refused, Postponed, NewHolding, Named, Publishing
      <3>4. kind = "start"
        BY <3>2, <3>3 DEF NewCall, Named
      <3> QED BY <3>2, <3>3, <3>4
    <2> QED BY <2>1
  <1>3. /\ op[o].kind = "start"
        /\ op'[o].phase \in {"sending", "waiting"} => op[o].phase \in {"sending", "waiting"}
        /\ op'[o].phase = "woken" => op[o].phase \in {"waiting", "woken"}
    BY <1>2, Phases
  <1>4. ~Queued(o)
    BY <1>1, <1>3 DEF Connects
  <1>5. ~IsStored(o)
    <2>1. ASSUME NEW s \in ep.stored, s.op = o PROVE FALSE
      BY <1>1, <1>3, <2>1 DEF Claims, Publishing
    <2> QED BY <2>1 DEF IsStored
  <1>6. Claimed(o)' => Claimed(o)
    BY <1>2, <1>4, <1>5, ClaimedCome
  <1>7. op'[o].phase = "waiting" => HasEntry(o)'
    BY <1>2, <1>3, StartEnters
  <1> QED BY <1>3, <1>6, <1>7 DEF StartStays

\* One async_start at a time: after it is called,
LEMMA StartsCall ==
  ASSUME Always, Always', Next, Starts, NEW o \in Ops, NEW pid, NewCall(o, "start", pid)
  PROVE  Starts'
  <1>1. Typed /\ Typed' /\ Progress /\ Claims
    BY DEF Always
  <1>2. /\ ep.status = "closed" /\ net = "up" /\ net' = net /\ ep'.status = "connecting" /\ col' = col
        /\ \A q \in Ops : q # o => op'[q] = op[q]
        /\ op'[o].phase = "sending"
    BY DEF NewCall, Advances
  <1>3. ASSUME NEW q \in Ops, q # o, Starting(q)' PROVE FALSE
    <2>1. Claimed(q)' => Claimed(q)
      BY <1>1, <1>3, ClaimedCall
    <2>2. Starting(q)
      BY <1>2, <1>3, <2>1 DEF Starting
    <2> QED BY <1>2, <2>2 DEF Starts
  <1>4. ASSUME NEW q \in Ops, op'[q].kind = "start", op'[q].phase = "woken" PROVE FALSE
    <2>1. q # o
      BY <1>2, <1>4
    <2> QED BY <1>2, <1>4, <2>1 DEF Starts
  <1>5. ASSUME NEW q \in Ops, op'[q].kind = "start", op'[q].phase = "waiting" PROVE HasEntry(q)'
    <2>1. q # o
      BY <1>2, <1>5
    <2> QED BY <1>2, <1>5, <2>1 DEF Starts, HasEntry
  <1>6. net' # "down" /\ ep'.status # "closed"
    BY <1>2
  <1> QED BY <1>2, <1>3, <1>4, <1>5, <1>6 DEF Starts

\* when no async_start is left,
LEMMA StartsNone ==
  ASSUME \A o \in Ops : ~Starting(o)', ~(net' = "up" /\ ep'.status = "closed")
  PROVE  Starts'
  BY DEF Starts, Starting

\* after its CONNACK,
LEMMA StartsConnack ==
  ASSUME Always, Always', Next, ~lost', Starts, RunConnack
  PROVE  Starts'
  <1>1. Typed /\ Typed' /\ Progress /\ Entries /\ Claims /\ Timers /\ Writes /\ Connects
    BY DEF Always
  <1> DEFINE a == strand[1].op
  <1>2. a \in Ops /\ Claimed(a) /\ op[a].kind = "start" /\ ep'.status = "connected"
    BY <1>1, HearsKind, StatusStep
  <1>3. Starting(a)
    BY <1>2 DEF Starting
  <1>4. ASSUME NEW o \in Ops, Starting(o)' PROVE FALSE
    <2>1. op'[o].kind = "start" /\ op[o].kind = "start" /\ op[o].phase # "new"
      BY <1>1, <1>4, HearsKind DEF Starting, Progress
    <2>2. ~Claimed(o)'
      <3>1. ASSUME NEW s \in ep.stored, s.op = o PROVE FALSE
        BY <1>1, <2>1, <3>1 DEF Claims, Publishing
      <3> QED BY <1>1, <3>1, ClaimedStep DEF IsStored
    <2>3. op'[o].phase \in {"sending", "waiting"}
      BY <1>4, <2>2 DEF Starting
    <2>4. op[o].phase \in {"sending", "waiting"}
      BY <2>1, <2>3, Phases
    <2>5. o = a
      BY <1>2, <1>3, <2>1, <2>4 DEF Starts, Starting
    <2>6. op[o].phase = "waiting"
      BY <2>4, <2>5, Histories
    <2>7. HasEntry(o)
      BY <2>1, <2>6 DEF Starts
    <2>8. op'[o].phase = "woken"
      BY <2>5, <2>6, <2>7, EndsWait
    <2> QED BY <2>3, <2>8
  <1> QED BY <1>2, <1>4, StartsNone

\* when the connection has gone down, or its error is heard,
LEMMA StartsBroken ==
  ASSUME Always, Always', Next, ~lost', Starts, Down \/ RunError
  PROVE  Starts'
  <1>1. Typed /\ Typed' /\ Progress /\ Entries /\ Claims /\ Timers /\ Writes /\ Connects /\ Links
    BY DEF Always
  <1>2. op' = op /\ col' = col
    BY DEF Down, RunError
  <1>3. net' = "down"
    <2>1. ASSUME RunError PROVE net = "down"
      <3>1. Is(1, {"error"})
        BY <1>1, <2>1, RunsPut DEF RunError
      <3> QED BY <1>1, <3>1 DEF Links, Broken, Is
    <2> QED BY <1>1, <2>1, StatusStep
  <1>4. ASSUME NEW o \in Ops, op[o].kind = "start", op[o].phase \in {"sending", "waiting"}
        PROVE  FALSE
    <2>1. CASE Down
      <3>1. Running({"start"} \cup Requesting) = {}
        BY <2>1, Histories
      <3> QED BY <1>4, <3>1 DEF Running
    <2>2. CASE RunError
      <3>1. net = "down"
        BY <1>1, <1>3, <2>2, StatusStep
      <3> QED BY <1>4, <3>1 DEF Starts
    <2> QED BY <2>1, <2>2
  <1>5. CASE RunError
    <2>1. ep'.status = "closed"
      BY <1>1, <1>5, StatusStep
    <2>2. \A o \in Ops : ~Claimed(o)'
      <3>1. Links'
        BY DEF Always
      <3> QED BY <2>1, <3>1 DEF Links, Closed
    <2>3. \A o \in Ops : ~Starting(o)'
      BY <1>2, <1>4, <2>2 DEF Starting
    <2> QED BY <1>3, <2>3, StartsNone
  <1>6. CASE Down
    <2>1. ep' = ep
      BY <1>1, <1>6, StatusStep
    <2>2. ASSUME NEW o \in Ops, Starting(o)' PROVE Starting(o)
      <3>1. Claimed(o)' => Claimed(o)
        BY <1>1, <1>6, ClaimedStep DEF Claimed
      <3> QED BY <1>2, <2>2, <3>1 DEF Starting
    <2>3. ASSUME NEW o \in Ops, Starting(o)' PROVE ep'.status = "connecting"
      BY <2>1, <2>2, <2>3 DEF Starts
    <2>4. ASSUME NEW o \in Ops, NEW q \in Ops, Starting(o)',
                 Starting(q)' \/ (op'[q].kind = "start" /\ op'[q].phase = "woken")
          PROVE  o = q
      BY <1>2, <2>2, <2>4 DEF Starts
    <2> QED BY <1>2, <1>3, <1>4, <2>3, <2>4 DEF Starts
  <1> QED BY <1>5, <1>6

\* and after every step.
LEMMA StartsNext ==
  ASSUME Always, Always', Next, ~lost', Starts
  PROVE  Starts'
  <1>1. Typed /\ Typed' /\ Progress /\ Entries /\ Claims /\ Timers /\ Writes /\ Connects
    BY DEF Always
  <1>2. CASE \E o \in Ops : \E pid : NewCall(o, "start", pid)
    BY <1>2, StartsCall
  <1>3. CASE ~\E o \in Ops : \E pid : NewCall(o, "start", pid)
    <2>1. \A o \in Ops : op'[o].kind = "start" => StartStays(o)
      BY <1>3, StartsStill
    <2>2. ASSUME ep'.status = ep.status, net' = net PROVE Starts'
      BY <2>1, <2>2, StartsStay
    <2>3. ASSUME NEW o \in Ops, NEW kind, NEW pid, NewCall(o, kind, pid) PROVE Starts'
      <3>1. kind # "start" /\ net' = net /\ ep.status = "connected" /\ ep'.status # "closed"
        BY <1>3, <2>3 DEF NewCall
      <3>2. ASSUME NEW q \in Ops, Starting(q)' PROVE FALSE
        <4>1. Starting(q)
          BY <2>1, <3>2 DEF Starting, StartStays
        <4> QED BY <3>1, <4>1 DEF Starts
      <3> QED BY <3>1, <3>2, StartsNone
    <2>4. ASSUME NEW o \in Ops, NEW kind, NEW pid,
                 Refused(o, pid) \/ Postponed(o, kind, pid) \/ Cancel(o)
          PROVE  Starts'
      BY <1>1, <2>2, <2>4, StatusStep
    <2>5. ASSUME \/ RunWritten \/ RunPollNone \/ RunPollClosed \/ RunPollWritten \/ RunPollWrite
                 \/ RunFinal \/ RunPubrec \/ RunTimer
                 \/ \E b \in broker : \E type \in Answers(b.type) : Answer(b, type)
          PROVE  Starts'
      BY <1>1, <2>2, <2>5, StatusStep
    <2>6. ASSUME UNCHANGED <<op, col, stream, ep, broker, lost>>, Touches({"publish", "wake"}),
                 net = "down", net' = "up", ep.status = "closed", strand = <<>>
          PROVE  Starts'
      <3>1. Unclaiming
        BY <1>1, <2>6, ClaimedStep
      <3>2. ASSUME NEW o \in Ops PROVE Starting(o)' <=> Starting(o)
        BY <2>6, <3>1 DEF Starting, Unclaiming
      <3>3. ASSUME NEW o \in Ops, op[o].phase = "woken" PROVE FALSE
        <4>1. PICK i \in 1..Len(strand) : Of(i, {"timer"}, o)
          BY <1>1, <3>3 DEF Timers
        <4> QED BY <2>6, <4>1
      <3>4. \A o \in Ops : HasEntry(o)' <=> HasEntry(o)
        BY <2>6 DEF HasEntry
      <3> QED BY <2>6, <3>2, <3>3, <3>4 DEF Starts
    <2> QED BY <1>1, <2>2, <2>3, <2>4, <2>5, <2>6, StartsConnack, StartsBroken, Steps
  <1> QED BY <1>2, <1>3
-------------------------------------------------------------------------------
\* The timer of a woken operation that has an entry is before the answers to others with its
\* packet id: an operation that waits is woken behind none, as it holds the packet id.
LEMMA TimerFirstMoves ==
  ASSUME Always, Always', Next, Holders, TimerFirst,
         NEW d \in {0, 1}, NEW n \in {0, 1}, Moves(d, n),
         n = 1 /\ Added.type = "timer" => op[Added.op].phase = "waiting"
  PROVE  TimerFirst'
  <1>1. /\ Typed /\ Typed' /\ Progress /\ Entries /\ Claims /\ Claims' /\ Timers /\ Timers'
        /\ Len(strand') \in Nat
    BY DEF Always, Typed
  <1>2. ASSUME NEW i \in 1..Len(strand'), NEW j \in 1..Len(strand'), NEW o \in Ops, NEW q \in Ops,
               Of(i, {"timer"}, o)', Of(j, Answering, q)', HasEntry(o)', op'[o].pid # 0, q # o,
               op'[q].pid = op'[o].pid
        PROVE  i < j
    <2>1. /\ strand'[i].type = "timer" /\ strand'[i].op = o
          /\ strand'[j].type \in Answering /\ strand'[j].op = q
      BY <1>2 DEF Of, Is
    <2>2. i # j
      BY <2>1 DEF Answering
    <2>3. op'[o].phase = "woken" /\ op[o].phase \in {"waiting", "woken"} /\ op'[o].pid = op[o].pid
          /\ HasEntry(o)
      <3>1. op'[o].phase = "woken"
        BY <1>1, <1>2 DEF Timers, Of
      <3>2. op[o].phase # "new"
        <4>1. ASSUME op[o].phase = "new" PROVE FALSE
          <5>1. Onwards
            BY Moved DEF Always
          <5> QED BY <3>1, <4>1, <5>1 DEF Onwards, Advances, NewCall, Refused, Postponed
        <4> QED BY <4>1
      <3>3. HasEntry(o)
        BY <1>2, <3>1, WaitsEntered
      <3> QED BY <3>1, <3>2, <3>3, Phases
    <2>4. CASE j = Len(strand')
      BY <1>1, <2>2, <2>4
    <2>5. ASSUME j + d \in 1..Len(strand), strand[j + d] = strand'[j] PROVE i < j
      <3>1. Of(j + d, Answering, q) /\ Claimed(q)
        BY <2>1, <2>5 DEF Of, Is, Claimed, InStrand
      <3>2. op[q].phase # "new"
        <4>1. ASSUME op[q].kind = "" PROVE FALSE
          BY <1>1, <3>1, <4>1, Unclaimed
        <4> QED BY <1>1, <4>1 DEF Progress
      <3>3. op'[q].pid = op[q].pid
        BY <3>2, Phases
      <3>4. CASE i + d \in 1..Len(strand) /\ strand[i + d] = strand'[i]
        <4>1. PICK k, l \in 1..Len(strand) : k = i + d /\ l = j + d
          BY <2>5, <3>4
        <4>2. Of(k, {"timer"}, o) /\ Of(l, Answering, q)
          BY <2>1, <2>5, <3>4, <4>1 DEF Of, Is
        <4>3. k < l
          BY <1>2, <2>3, <3>3, <4>1, <4>2 DEF TimerFirst, Of
        <4> QED BY <4>1, <4>3
      <3>5. ASSUME n = 1, strand'[i] = Added PROVE FALSE
        <4>1. op[o].phase = "waiting"
          BY <2>1, <3>5
        <4>2. Holds(o)
          BY <1>2, <2>3, <4>1 DEF Holds
        <4>3. Holds(q)
          BY <1>2, <2>3, <3>1, <3>3, ClaimedHolds
        <4> QED BY <1>2, <2>3, <3>3, <4>2, <4>3 DEF Holders
      <3> QED BY <1>1, <3>4, <3>5, MovedFrom
    <2> QED BY <1>1, <2>4, <2>5, MovedFrom
  <1>3. ASSUME NEW i \in 1..Len(strand'), NEW j \in 1..Len(strand'),
               Is(i, {"timer"})', Is(j, Answering)', NEW o, o = strand'[i].op, NEW q, q = strand'[j].op,
               HasEntry(o)', op'[o].pid # 0, q # o, op'[q].pid = op'[o].pid
        PROVE  i < j
    <2>1. o \in Ops /\ q \in Ops
      BY <1>1, <1>3 DEF Timers, Claims
    <2> QED BY <1>2, <1>3, <2>1 DEF Of
  <1> QED BY <1>3 DEF TimerFirst

\* The same when no timer becomes ready.
LEMMA TimerFirstTouched ==
  ASSUME Always, Always', Next, Holders, TimerFirst, NEW touched, Touches(touched),
         "timer" \notin touched
  PROVE  TimerFirst'
  <1>1. PICK d \in {0, 1}, n \in {0, 1} : Moves(d, n) /\ (n = 1 => Added.type # "timer")
    BY DEF Touches
  <1> QED BY <1>1, TimerFirstMoves

\* The same after every step.
LEMMA TimerFirstNext ==
  ASSUME Always, Always', Next, Holders, TimerFirst
  PROVE  TimerFirst'
  <1>1. Typed /\ Typed' /\ Progress /\ Entries /\ Claims /\ Timers /\ Writes
    BY DEF Always
  <1>2. PICK zero, one \in {0, 1} : zero = 0 /\ one = 1
    OBVIOUS
  <1>3. ASSUME NEW o \in Ops, Advances(o, "waiting", "woken"), Added = Event("timer", o),
               NEW d \in {0, 1}, Moves(d, 1)
        PROVE  TimerFirst'
    <2>1. op[Added.op].phase = "waiting"
      BY <1>3 DEF Event, Advances
    <2> QED BY <1>2, <1>3, <2>1, TimerFirstMoves
  <1>4. ASSUME NEW o \in Ops, NEW kind, NEW pid,
               NewCall(o, kind, pid) \/ Refused(o, pid) \/ Postponed(o, kind, pid)
        PROVE  TimerFirst'
    <2>1. CASE strand' = strand
      <3>1. Touches({})
        BY <1>1, <2>1, Still
      <3> QED BY <3>1, TimerFirstTouched
    <2>2. CASE Moves(0, 1) /\ Added = Written(o)
      <3>1. Added.type # "timer"
        BY <2>2 DEF Written
      <3> QED BY <1>2, <2>2, <3>1, TimerFirstMoves
    <2> QED BY <1>4, <2>1, <2>2
            DEF NewCall, Refused, Postponed, NewHolding, WritesAtOnce, WaitsToWrite
  <1>5. ASSUME NEW o \in Ops, Cancel(o) PROVE TimerFirst'
    <2>1. Advances(o, "waiting", "woken") /\ Moves(0, 1) /\ Added = Event("timer", o)
      BY <1>1, <1>5, CancelMoves
    <2> QED BY <1>2, <1>3, <2>1
  <1>6. ASSUME RunConnack \/ RunFinal \/ RunPubrec PROVE TimerFirst'
    <2>1. CASE Moves(1, 0)
      BY <1>2, <2>1, TimerFirstMoves
    <2>2. CASE \E o \in Ops : Advances(o, "waiting", "woken") /\ Moves(1, 1) /\ Added = Event("timer", o)
      BY <1>2, <1>3, <2>2
    <2> QED BY <1>1, <1>6, <2>1, <2>2, Hearing, WokenMoves DEF Hears
  <1>7. ASSUME RunTimer PROVE TimerFirst'
    <2>1. Moves(1, 0)
      BY <1>1, <1>7, RunsTimer
    <2> QED BY <1>2, <2>1, TimerFirstMoves
  <1>8. ASSUME RunWritten \/ RunPollNone \/ RunPollClosed \/ RunPollWritten \/ RunPollWrite
        PROVE  TimerFirst'
    <2>1. Touches({"written", "poll"})
      BY <1>1, <1>8, Touched
    <2> QED BY <2>1, TimerFirstTouched
  <1>9. ASSUME Down \/ RunError PROVE TimerFirst'
    <2>1. Touches({"error"}) \/ Touches({"error", "wake"})
      BY <1>1, <1>9, Touched
    <2> QED BY <2>1, TimerFirstTouched
  <1>10. ASSUME NEW b \in broker, NEW type \in Answers(b.type), Answer(b, type) PROVE TimerFirst'
    <2>1. Touches(Answering)
      BY <1>1, <1>10, Touched
    <2> QED BY <2>1, TimerFirstTouched DEF Answering
  <1>11. ASSUME Touches({"publish", "wake"}) PROVE TimerFirst'
    BY <1>11, TimerFirstTouched
  <1> QED BY <1>1, <1>4, <1>5, <1>6, <1>7, <1>8, <1>9, <1>10, <1>11, Steps
-------------------------------------------------------------------------------
\* An answer that is heard goes to the entry of its own operation.
LEMMA HeardIsOwn ==
  ASSUME Always, Hears, Holders, Starts, TimerFirst, NEW e \in col,
         e.pid = op[strand[1].op].pid
  PROVE  e.op = strand[1].op
  <1>1. Typed /\ Progress /\ Entries /\ Claims /\ Timers
    BY DEF Always
  <1> DEFINE a == strand[1].op
  <1>2. /\ a \in Ops /\ Of(1, Answering, a) /\ Claimed(a) /\ strand[1].type \in Expected(op[a].kind)
        /\ 1 \in 1..Len(strand)
    BY <1>1 DEF Hears, Claims, Claimed, InStrand, Of
  <1>3. /\ e.op \in Ops /\ op[e.op].phase \in {"waiting", "woken"} /\ op[e.op].pid = op[a].pid
        /\ HasEntry(e.op)
    BY <1>1 DEF Entries, Typed, HasEntry
  <1>4. op[a].kind # "" /\ op[a].phase # "new" /\ op[a].kind \in Answered
    <2>1. op[a].kind \in Answered
      BY <1>1, <1>2 DEF Expected, Connacks, Answered, Requesting, Publishing, Typed, Calls
    <2> QED BY <1>1, <1>2, <2>1 DEF Progress, Answered, Requesting, Publishing
  <1>5. CASE op[a].pid = 0
    <2>1. op[a].kind = "start" /\ op[e.op].kind = "start"
      <3>1. op[a].kind \in WithoutId /\ op[e.op].kind \in WithoutId /\ op[e.op].kind \in Answered
        BY <1>1, <1>2, <1>3, <1>4, <1>5 DEF Progress
      <3> QED BY <1>4, <3>1 DEF WithoutId, Answered, Requesting, Publishing
    <2>2. Starting(a) /\ (Starting(e.op) \/ op[e.op].phase = "woken")
      BY <1>2, <1>3, <2>1 DEF Starting
    <2> QED BY <1>2, <1>3, <2>1, <2>2 DEF Starts
  <1>6. CASE op[a].pid # 0 /\ op[e.op].phase = "waiting"
    <2>1. Holds(a) /\ Holds(e.op)
      BY <1>2, <1>3, <1>6 DEF Holds
    <2> QED BY <1>2, <1>3, <2>1 DEF Holders
  <1>7. CASE op[a].pid # 0 /\ op[e.op].phase = "woken"
    <2>1. ASSUME e.op # a PROVE FALSE
      <3>1. PICK i \in 1..Len(strand) : Of(i, {"timer"}, e.op)
        BY <1>1, <1>3, <1>7 DEF Timers
      <3>2. i < 1
        BY <1>2, <1>3, <1>7, <2>1, <3>1 DEF TimerFirst, Of
      <3> QED BY <3>1, <3>2
    <2> QED BY <2>1
  <1> QED BY <1>3, <1>5, <1>6, <1>7

\* Entries have answers of their own operations: after every step.
LEMMA OwnEntriesNext ==
  ASSUME Always, Always', Next, Holders, Starts, TimerFirst, OwnEntries
  PROVE  OwnEntries'
  <1>1. Typed /\ Progress /\ Entries /\ Claims
    BY DEF Always
  <1>2. ASSUME NEW f \in col', NEW a \in f.got
        PROVE  a.op = f.op /\ a.type \in Expected(op'[f.op].kind)
    <2>1. PICK e \in col :
            /\ f.op = e.op /\ f.pid = e.pid
            /\ f.got \subseteq e.got \cup {b \in {strand[1]} : Hears /\ e.pid = op[b.op].pid}
      BY <1>2, EntriesCome
    <2>2. e.op \in Ops /\ op[e.op].phase \in {"waiting", "woken"}
      BY <1>1 DEF Entries, Typed
    <2>3. op'[e.op].kind = op[e.op].kind
      BY <2>2, Phases
    <2>4. CASE a \in e.got
      BY <2>1, <2>3, <2>4 DEF OwnEntries
    <2>5. CASE a = strand[1] /\ Hears /\ e.pid = op[strand[1].op].pid
      <3>1. e.op = strand[1].op
        BY <2>5, HeardIsOwn
      <3>2. strand[1].type \in Expected(op[strand[1].op].kind)
        BY <1>1, <2>5 DEF Hears, Claims, Of
      <3> QED BY <2>1, <2>3, <2>5, <3>1, <3>2
    <2> QED BY <1>2, <2>1, <2>4, <2>5
  <1> QED BY <1>2 DEF OwnEntries

\* Operations complete with answers of their own: after every step.
LEMMA OwnResultsNext ==
  ASSUME Always, Always', Next, OwnEntries, OwnResults
  PROVE  OwnResults'
  <1>1. Typed /\ Typed' /\ Progress /\ Progress' /\ Entries /\ Claims /\ Timers /\ Writes
    BY DEF Always
  <1>2. ASSUME op' = op PROVE OwnResults'
    BY <1>2 DEF OwnResults
  <1>3. ASSUME NEW o, NEW from \in {"new", "sending", "waiting", "woken"}, NEW to,
               Advances(o, from, to), op'[o].of = op[o].of
        PROVE  OwnResults'
    <2>1. ASSUME NEW q \in Ops, op'[q].of # 0 PROVE q # o
      BY <1>1, <1>3, <2>1 DEF Advances, Progress
    <2> QED BY <1>3, <2>1 DEF OwnResults, Advances
  <1>4. ASSUME RunTimer PROVE OwnResults'
    <2>1. PICK o, result, of : o = strand[1].op /\ o \in Ops /\ Ended(o, result, of)
                               /\ op[o].phase = "woken"
      BY <1>1, <1>4, RunsTimer
    <2>2. Advances(o, "woken", "done") /\ op'[o].of = of /\ op'[o].result = result
      BY <1>1, <2>1, AdvancesEnded
    <2>3. CASE of = op[o].of
      BY <1>3, <2>2, <2>3
    <2>4. ASSUME NEW e \in col, NEW a \in e.got, e.op = o, of = a.op,
                 a.type \in Expected(op[o].kind) /\ Codes[o] # <<>> => result # "protocol_error"
          PROVE  OwnResults'
      <3>1. a.op = o /\ a.type \in Expected(op[o].kind)
        BY <2>4 DEF OwnEntries
      <3>2. of = o /\ result # "protocol_error"
        BY <2>1, <2>4, <3>1, CodesAssumption DEF Ops
      <3> QED BY <2>2, <3>2 DEF OwnResults, Advances
    <2> QED BY <2>1, <2>3, <2>4 DEF Ended
  <1>5. ASSUME NEW o \in Ops, NEW kind, NEW pid,
               NewCall(o, kind, pid) \/ Refused(o, pid) \/ Postponed(o, kind, pid) \/ Cancel(o)
        PROVE  OwnResults'
    <2>1. \E from \in {"new", "waiting"} : \E to : Advances(o, from, to) /\ op'[o].of = op[o].of
      BY <1>1, <1>5, CancelMoves DEF NewCall, Refused, Postponed, Advances
    <2> QED BY <1>3, <2>1
  <1>6. ASSUME RunWritten \/ (RunPollNone \/ RunPollClosed \/ RunPollWritten \/ RunPollWrite)
        PROVE  OwnResults'
    <2>1. op' = op \/ \E o, to : Advances(o, "sending", to) /\ op'[o].of = op[o].of
      BY <1>1, <1>6, WrittenMoves, PollMoves DEF Advances
    <2> QED BY <1>2, <1>3, <2>1
  <1>7. ASSUME RunConnack \/ RunFinal \/ RunPubrec PROVE OwnResults'
    <2>1. op' = op \/ \E o : Advances(o, "waiting", "woken") /\ op'[o].of = op[o].of
      BY <1>1, <1>7, Hearing, WokenMoves DEF Hears, Advances
    <2> QED BY <1>2, <1>3, <2>1
  <1>8. ASSUME \/ Down \/ RunError \/ UNCHANGED <<op, col, stream, ep, broker, lost>>
               \/ (\E b \in broker : \E type \in Answers(b.type) : Answer(b, type))
        PROVE  op' = op
    BY <1>8 DEF Down, RunError, Answer
  <1> QED BY <1>1, <1>2, <1>4, <1>5, <1>6, <1>7, <1>8, Steps
-------------------------------------------------------------------------------
\* As long as nothing was lost, answers and packet ids are those of their operations.
OwnedWhile == ~lost => Owned

\* This holds initially,
LEMMA OwnedInit ==
  ASSUME Init
  PROVE  Owned
  <1>1. \A o \in Ops : /\ op[o].phase = "new" /\ op[o].pid = 0 /\ op[o].kind = "" /\ op[o].of = 0
    BY DEF Init
  <1>2. col = {} /\ strand = <<>> /\ broker = {}
    BY DEF Init
  <1>3. \A i \in 1..Len(strand) : FALSE
    BY <1>2
  <1>4. \A i \in 1..Len(stream.queue) : FALSE
    <2>1. PICK bulk : stream = [busy |-> 0, queue |-> <<>>, storing |-> {}, bulk |-> bulk]
      BY DEF Init
    <2>2. stream.queue = <<>>
      BY <2>1
    <2> QED BY <2>2
  <1>5. Holders
    BY <1>1 DEF Holders, Holds
  <1>6. Asked
    BY <1>1, <1>3, <1>4 DEF Asked, Queued
  <1>7. Starts
    BY <1>1 DEF Starts, Starting
  <1>8. TimerFirst
    BY <1>3 DEF TimerFirst
  <1>9. OwnEntries /\ OwnResults
    BY <1>1, <1>2 DEF OwnEntries, OwnResults
  <1> QED BY <1>5, <1>6, <1>7, <1>8, <1>9 DEF Owned

\* and every step keeps it, along with the invariant of Client_proofs.
LEMMA OwnedNext ==
  ASSUME Always, Always', [Next]_vars, OwnedWhile
  PROVE  OwnedWhile'
  <1>1. CASE Next
    <2>1. ASSUME ~lost' PROVE Owned'
      <3>1. Owned
        BY <1>1, <2>1, Histories DEF OwnedWhile
      <3>2. Holders /\ Asked /\ Starts /\ TimerFirst /\ OwnEntries /\ OwnResults
        BY <3>1 DEF Owned
      <3>3. Holders' /\ Asked' /\ Starts' /\ TimerFirst' /\ OwnEntries' /\ OwnResults'
        BY <1>1, <2>1, <3>2, HoldersNext, AskedNext, StartsNext, TimerFirstNext,
           OwnEntriesNext, OwnResultsNext
      <3> QED BY <3>3 DEF Owned
    <2> QED BY <2>1 DEF OwnedWhile
  <1>2. CASE UNCHANGED vars
    BY <1>2 DEF vars, OwnedWhile, Owned, Holders, Holds, Asked, Starts, Starting, TimerFirst, Doomed,
                OwnEntries, OwnResults, Claimed, InBroker, InStrand, IsStored, HasEntry, Queued, Is, Of
  <1> QED BY <1>1, <1>2

\* AnswerIsOwn: recv_loop finds the operation of an answer by the packet id alone, and packet
\* ids are given again.  The operation that it wakes is still the one the answer is for, and
\* what it completes with is of the type it expects, unless an answer that was waited for was
\* lost, or came before its operation waited.
THEOREM AnswersOfClient == Spec => []AnswerIsOwn
  <1>1. Init => Always /\ OwnedWhile
    BY AlwaysInit, OwnedInit DEF OwnedWhile
  <1>2. Always /\ OwnedWhile /\ [Next]_vars => (Always /\ OwnedWhile)'
    <2>1. Always /\ [Next]_vars => Always'
      BY AlwaysNext
    <2> QED BY <2>1, OwnedNext
  <1>3. Always /\ OwnedWhile => AnswerIsOwn
    BY DEF OwnedWhile, Owned, OwnResults, AnswerIsOwn
  <1> QED BY <1>1, <1>2, <1>3, PTL DEF Spec
===============================================================================
