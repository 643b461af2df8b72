-------------------------------- MODULE Stream --------------------------------
(***************************************************************************)
(* The stream of one endpoint that writes and of another that reads: the   *)
(* write queue with its bulk mode, the framing of packets from the bytes   *)
(* that arrive, and connections that break, are closed and made anew; and  *)
(* recv_op, which reads packets until one passes its filter, or closes the *)
(* connection for one it cannot accept.                                    *)
(* ioc_queue is a queue of operations of which one works at a time; its    *)
(* end posts a handler that starts the next one.                           *)
(***************************************************************************)
EXTENDS Integers, Sequences, FiniteSets, SequencesExt

CONSTANTS
  N,          \* packets 1..N are written, in this order
  Lengths,    \* the remaining lengths they may have, tuples of size N
  Receivers,  \* records of what may receive: endpoint, "v3", "v5 client" or "v5 server",
              \* and kinds, what each packet is to it: "wanted"; "connect", a CONNECT that
              \* a server wants; "other", of a type its filter does not ask for; "large",
              \* over its Maximum Packet Size; "malformed"; "badConnect", a CONNECT whose
              \* error has a CONNACK code
  Base,       \* a byte of a length holds a digit of this base; 128 in the code
  LengthBytes,\* the most bytes a length may have, 4 in the code
  Chunk,      \* bulk_read_buffer_size_ when bulk read is enabled
  MaxOpens    \* bound on the number of connections

ASSUME StreamAssumption ==
  /\ N \in Nat /\ \A s \in Lengths : s \in Seq(Nat) /\ Len(s) = N
  /\ \A r \in Receivers :
       /\ r.endpoint \in {"v3", "v5 client", "v5 server"} /\ Len(r.kinds) = N
       /\ r.kinds \in Seq({"wanted", "connect", "other", "large", "malformed", "badConnect"})
  /\ Base \in Nat \ {0, 1} /\ {LengthBytes, Chunk, MaxOpens} \subseteq Nat \ {0}

VARIABLES
  lengths,    \* the remaining length of each packet
  kinds,      \* what each packet is to the receiver
  endpoint,   \* what the receiver is
  bulkWrite,  \* bulk_write_
  bulkRead,   \* whether bulk_read_buffer_size_ is not zero
  link,       \* "up"; "broken", the socket is still open; "shut", close_op is not yet
              \* complete; "closed"
  opens,      \* connections made so far
  state,      \* per write_packet_op, one for each packet: "new", waiting to "write" or
              \* "bulk_write", "working", and at last "ok" or "error"
  posted,     \* write_queue_: the operations that wait in it
  phase,      \* write_queue_: "idle", "working", or "polling" when poll_one is posted
  storing,    \* storing_cbs_: packets
  sending,    \* the packets of the async_write in progress, sending_cbs_ if it is bulk
  written,    \* the packets wholly written on this connection
  wire,       \* the bytes under way
  reader,     \* recv_op: "idle"; "reading", a read_packet_op is under way; "disconnect",
              \* it sends why it gives up; "close"; "lost", destroyed unfinished
  started,    \* status_ of the receiving endpoint is not closed
  frame,      \* what the reader knows of the packet it reads, see NoFrame
  delivered   \* what async_recv completed with on this connection

modes == <<lengths, kinds, endpoint, bulkWrite, bulkRead>>
writer == <<state, posted, phase, storing, sending, written>>
vars == <<modes, writer, link, opens, wire, reader, started, frame, delivered>>

Ops == 1..N
Open == link \in {"up", "broken"}
-------------------------------------------------------------------------------
\* Mutants: init_read() forgets the multiplier; a bulk write sends its own packet only;
\* after an error the queue is not polled; a packet without payload is read on.
InitReadKeepsMul(f) ==
  [at |-> "header", bytes |-> <<>>, left |-> 0, mul |-> f.mul,
   packets |-> f.packets, rest |-> f.rest, stopped |-> f.stopped]
TakenAlone(o) ==
  IF state[o] = "bulk_write" THEN SelectSeq(storing, LAMBDA p : p = o) ELSE <<o>>
FinishNoPoll(o, result) ==
  /\ state' = [state EXCEPT ![o] = result]
  /\ phase' = IF result = "error" THEN "working" ELSE "polling"
ReadOn(f) == f

\* The bytes of a packet: a header, the remaining length from the lowest digit on,
\* each with a mark if more follow, and the payload.
Field[n \in Nat] ==
  IF n < Base THEN <<n>> ELSE <<(n % Base) + Base>> \o Field[n \div Base]
Bytes(o) == <<o>> \o Field[lengths[o]] \o [i \in 1..lengths[o] |-> o]
BytesOf(ops) == FlattenSeq([i \in DOMAIN ops |-> Bytes(ops[i])])

Continues(b) == b >= Base
Digit(b) == b % Base

\* init_read(): header_remaining_length_buf_, remaining_length_, multiplier_.
\* read_packets_ and the unparsed rest of read_buf_ stay as they are.
NoFrame == [at |-> "header", bytes |-> <<>>, left |-> 0, mul |-> 1,
            packets |-> <<>>, rest |-> <<>>, stopped |-> FALSE]
InitRead(f) == [NoFrame EXCEPT !.packets = f.packets, !.rest = f.rest, !.stopped = f.stopped]

\* error_packet
Packet(bytes) == [ec |-> "success", packet |-> bytes]
Failure(ec) == [ec |-> ec, packet |-> <<>>]

Result(f, r) == InitRead([f EXCEPT !.packets = Append(@, r)])
Deliver(f) == Result(f, Packet(f.bytes))
TooLarge(f) == Result([f EXCEPT !.stopped = TRUE], Failure("packet_too_large"))

\* A byte of the remaining length: the last one allowed must not continue.
FeedLength(f, b) ==
  LET g == [f EXCEPT !.bytes = Append(@, b), !.left = @ + Digit(b) * f.mul,
                     !.mul = @ * Base] IN
  IF ~Continues(b) THEN [g EXCEPT !.at = "payload"]
  ELSE IF Len(g.bytes) = LengthBytes + 1 THEN TooLarge(g) ELSE g

FeedPayload(f, b) ==
  LET g == [f EXCEPT !.bytes = Append(@, b), !.left = @ - 1] IN
  IF g.left = 0 THEN Deliver(g) ELSE g

\* One turn of parse_packet for the next byte.  A packet without payload is complete
\* with its length, and the loop finds that out only when a further byte is there.
FeedByte(f, b) ==
  LET g == IF f.at = "payload" /\ f.left = 0 THEN Deliver(f) ELSE f IN
  IF g.stopped THEN [g EXCEPT !.rest = Append(@, b)]
  ELSE CASE g.at = "header"  -> [g EXCEPT !.bytes = <<b>>, !.at = "length"]
         [] g.at = "length"  -> FeedLength(g, b)
         [] g.at = "payload" -> FeedPayload(g, b)

\* The bytes one after the other.  (CHOOSE makes TLC evaluate each turn once.)
Feed(f, bytes) ==
  FoldLeft(LAMBDA g, b : CHOOSE h \in {FeedByte(x, b) : x \in {g}} : TRUE, f, bytes)

\* parse_packet: what was left unparsed, then the bytes that were read.
Parse(f, bytes) == Feed([f EXCEPT !.rest = <<>>, !.stopped = FALSE], f.rest \o bytes)
-------------------------------------------------------------------------------
Init ==
  /\ lengths \in Lengths /\ \E r \in Receivers : endpoint = r.endpoint /\ kinds = r.kinds
  /\ bulkWrite \in BOOLEAN /\ bulkRead \in BOOLEAN
  /\ link = "up" /\ opens = 1
  /\ state = [o \in Ops |-> "new"] /\ posted = <<>> /\ phase = "idle"
  /\ storing = <<>> /\ sending = <<>> /\ written = <<>> /\ wire = <<>>
  /\ reader = "idle" /\ started = FALSE /\ frame = NoFrame /\ delivered = <<>>

\* The packets the operation sends: its own, or all that are stored.
Taken(o) == IF state[o] = "bulk_write" THEN storing ELSE <<o>>

Finish(o, result) == state' = [state EXCEPT ![o] = result] /\ phase' = "polling"

\* An operation leaves the queue.  It fails without a socket; a follower of a bulk
\* write finds nothing stored and succeeds at once.
Start(o) ==
  \/ /\ ~Open /\ Finish(o, "error") /\ UNCHANGED <<storing, sending>>
  \/ /\ Open /\ Taken(o) = <<>> /\ Finish(o, "ok") /\ UNCHANGED <<storing, sending>>
  \/ /\ Open /\ Taken(o) # <<>>
     /\ state' = [state EXCEPT ![o] = "working"] /\ phase' = "working"
     /\ sending' = Taken(o)
     /\ storing' = IF state[o] = "bulk_write" THEN <<>> ELSE storing

Immediate == phase = "idle"

\* async_write_packet: the endpoint calls it in the order of async_send, while its
\* status allows it.
Call(o) ==
  /\ Open /\ state[o] = "new" /\ \A p \in Ops : p < o => state[p] # "new"
  /\ IF Immediate THEN Start(o) /\ UNCHANGED posted
     ELSE /\ state' = [state EXCEPT ![o] = IF bulkWrite THEN "bulk_write" ELSE "write"]
          /\ storing' = IF bulkWrite THEN Append(storing, o) ELSE storing
          /\ posted' = Append(posted, o) /\ UNCHANGED <<phase, sending>>
  /\ UNCHANGED <<modes, link, opens, written, wire, reader, started, frame, delivered>>

\* The poll_one that a finished operation has posted.
Poll ==
  /\ phase = "polling"
  /\ IF posted = <<>>
     THEN phase' = "idle" /\ UNCHANGED <<state, posted, storing, sending>>
     ELSE Start(Head(posted)) /\ posted' = Tail(posted)
  /\ UNCHANGED <<modes, link, opens, written, wire, reader, started, frame, delivered>>

WriteDone(o) ==
  /\ state[o] = "working" /\ link = "up" /\ Finish(o, "ok")
  /\ written' = written \o sending /\ wire' = wire \o BytesOf(sending) /\ sending' = <<>>
  /\ UNCHANGED <<modes, link, opens, posted, storing, reader, started, frame, delivered>>

WriteFail(o) ==
  /\ state[o] = "working" /\ link # "up" /\ Finish(o, "error") /\ sending' = <<>>
  /\ UNCHANGED <<modes, link, opens, posted, storing, written, wire, reader, started, frame, delivered>>

\* The connection ends after k packets and n bytes of the write in progress: it breaks,
\* or close_op closes the layers down to the socket, and is yet to complete.
End(to, k, n) ==
  /\ link' = to
  /\ wire' = wire \o BytesOf(SubSeq(sending, 1, k)) \o SubSeq(Bytes(sending[k + 1]), 1, n)
  /\ written' = written \o SubSeq(sending, 1, k)
  /\ sending' = SubSeq(sending, k + 1, Len(sending))
  /\ UNCHANGED <<modes, state, posted, phase, storing, opens, reader, started, frame, delivered>>

Ending(to) ==
  IF link = "up" /\ sending # <<>>
  THEN \E k \in 0..(Len(sending) - 1) : \E n \in 0..(Len(Bytes(sending[k + 1])) - 1) : End(to, k, n)
  ELSE link' = to /\ UNCHANGED <<modes, writer, wire, opens, reader, started, frame, delivered>>

Break == link = "up" /\ Ending("broken")
Close == Open /\ Ending("shut")

CloseComplete ==
  /\ link = "shut" /\ link' = "closed" /\ storing' = <<>> /\ started' = FALSE
  /\ UNCHANGED <<modes, opens, state, posted, phase, sending, written, wire, reader, frame,
                 delivered>>

\* The application connects the next layer again, once nothing is pending.
Reopen ==
  /\ link = "closed" /\ opens < MaxOpens /\ phase = "idle" /\ reader \in {"idle", "lost"}
  /\ link' = "up" /\ opens' = opens + 1
  /\ written' = <<>> /\ wire' = <<>> /\ delivered' = <<>>
  /\ UNCHANGED <<modes, state, posted, phase, storing, sending, reader, started, frame>>
-------------------------------------------------------------------------------
\* async_recv, called again until it fails: recv_op starts async_read_packet.
Failed == delivered # <<>> /\ Last(delivered).ec # "success"
StartRead(f) == reader' = "reading" /\ frame' = IF bulkRead THEN f ELSE NoFrame

Receive ==
  /\ Open /\ reader = "idle" /\ ~Failed /\ StartRead(frame)
  /\ UNCHANGED <<modes, writer, link, opens, wire, started, delivered>>

\* A client sends CONNECT.  (A server is started by the one it reads.)
SendConnect ==
  /\ Open /\ endpoint # "v5 server" /\ ~started /\ started' = TRUE
  /\ UNCHANGED <<modes, writer, link, opens, wire, reader, frame, delivered>>

\* Mutant: recv_op completes with the error while it closes.
GiveUpAtOnce(to, f) ==
  reader' = "idle" /\ frame' = f /\ delivered' = Append(delivered, Failure("error"))

GiveUp(to, f) == reader' = to /\ frame' = f /\ UNCHANGED delivered

\* What recv_op does with a packet that it cannot accept: a v5.0 endpoint sends
\* DISCONNECT or CONNACK first, the client if it is connected; and a server forgets the
\* operation for other errors.
Rejections(kind) ==
  CASE endpoint = "v3"                               -> {"close"}
    [] kind = "large"                                -> {"disconnect"}
    [] endpoint = "v5 server" /\ kind = "badConnect" -> {"disconnect"}
    [] endpoint = "v5 server" /\ kind # "badConnect" -> {"lost"}
    [] endpoint = "v5 client" /\ kind = "badConnect" -> {"close"}
    [] endpoint = "v5 client" /\ kind # "badConnect" ->
         IF started THEN {"disconnect", "close"} ELSE {"close"}

\* v3.1.1 has no Maximum Packet Size.
Kind(r) ==
  LET kind == kinds[Head(r.packet)] IN
  IF kind = "large" /\ endpoint = "v3" THEN "wanted" ELSE kind
Asked(kind) == kind \in {"wanted", "connect"}

\* A CONNECT puts status_ to connecting, also one that a v5.0 server refuses.
Connects(kind) == kind = "connect" \/ (endpoint = "v5 server" /\ kind = "badConnect")

\* An operation of an endpoint that is closed itself is aborted; then recv_op does not
\* close, and completes at once.
Aborts == IF Open THEN {"error"} ELSE {"error", "aborted"}
Abort(f) == reader' = "idle" /\ frame' = f /\ delivered' = Append(delivered, Failure("aborted"))

\* read_packet_op completes with r: recv_op closes, completes, or reads the next packet.
HandleError(f, r) ==
  /\ UNCHANGED started
  /\ IF r.ec = "aborted" THEN Abort(f) ELSE GiveUp("close", f)

HandlePacket(f, r) ==
  /\ started' = (started \/ Connects(Kind(r)))
  /\ \/ Asked(Kind(r)) /\ delivered' = Append(delivered, r) /\ reader' = "idle" /\ frame' = f
     \/ Kind(r) = "other" /\ StartRead(f) /\ UNCHANGED delivered
     \/ /\ ~Asked(Kind(r)) /\ Kind(r) # "other"
        /\ \E to \in Rejections(Kind(r)) : GiveUp(to, f)

HandleRead(f, r) == IF r.ec = "success" THEN HandlePacket(f, r) ELSE HandleError(f, r)

\* The send has completed, with or without an error: recv_op calls async_close.
RejectionSent ==
  /\ reader = "disconnect"
  /\ GiveUp("close", frame) \/ ("aborted" \in Aborts /\ Abort(frame))
  /\ UNCHANGED <<modes, writer, link, opens, wire, started>>

\* async_close completes once the connection is closed, whoever began that.  Before a
\* CONNECT status_ is closed: it completes at once then, and leaves the layers open.  The
\* error is the same; "unstarted" tells the two apart here.
ReceiveFails ==
  /\ reader = "close" /\ reader' = "idle"
  /\ \/ link = "closed" /\ delivered' = Append(delivered, Failure("error"))
     \/ ~started /\ link # "closed" /\ delivered' = Append(delivered, Failure("unstarted"))
  /\ UNCHANGED <<modes, writer, link, opens, wire, started, frame>>

\* Exact reads: header and first digit, each further digit, the payload.
Wanted == CASE frame.at = "header" -> 2 [] frame.at = "length" -> 1
            [] frame.at = "payload" -> frame.left
Received == Feed(frame, SubSeq(wire, 1, Wanted))
Whole(f) == IF f.at = "payload" /\ f.left = 0 THEN Deliver(f) ELSE f

ReadExactly ==
  /\ reader = "reading" /\ ~bulkRead /\ Len(wire) >= Wanted
  /\ \E f \in {Whole(Received)} :
     IF f.packets = <<>> THEN frame' = f /\ UNCHANGED <<reader, started, delivered>>
     ELSE HandleRead(NoFrame, Head(f.packets))
  /\ wire' = SubSeq(wire, Wanted + 1, Len(wire))
  /\ UNCHANGED <<modes, writer, link, opens>>

\* read_some_op: what is parsed already completes the read, otherwise it asks for more.
ReadParsed ==
  /\ reader = "reading" /\ bulkRead /\ frame.packets # <<>>
  /\ HandleRead([frame EXCEPT !.packets = Tail(@)], Head(frame.packets))
  /\ UNCHANGED <<modes, writer, link, opens, wire>>

ReadSome(n) ==
  /\ reader = "reading" /\ bulkRead /\ frame.packets = <<>>
  /\ n <= Chunk /\ n <= Len(wire)
  /\ frame' = Parse(frame, SubSeq(wire, 1, n)) /\ wire' = SubSeq(wire, n + 1, Len(wire))
  /\ UNCHANGED <<modes, writer, link, opens, reader, started, delivered>>

\* A read fails.  read_some_op keeps the error as if it were a packet, and ends there.
ReadError ==
  /\ reader = "reading" /\ link # "up"
  /\ IF bulkRead
     THEN /\ frame.packets = <<>> /\ frame' = Result(frame, Failure("error")) /\ reader' = "lost"
          /\ UNCHANGED <<started, delivered>>
     ELSE \E ec \in Aborts : HandleRead(NoFrame, Failure(ec))
  /\ UNCHANGED <<modes, writer, link, opens, wire>>
-------------------------------------------------------------------------------
Work == Poll \/ \E o \in Ops : WriteDone(o) \/ WriteFail(o)
Arrive ==
  \/ ReadExactly \/ ReadParsed \/ ReadError \/ (\E n \in 1..Chunk : ReadSome(n))
  \/ RejectionSent \/ ReceiveFails

Next ==
  \/ \E o \in Ops : Call(o)
  \/ Work \/ Arrive \/ Receive \/ SendConnect \/ Break \/ Close \/ CloseComplete \/ Reopen

Spec == Init /\ [][Next]_vars

\* I/O completes, posted handlers run, the application receives whenever it can, and a
\* recv_op that closes the connection gets it closed, unless status_ is closed.
FairSpec ==
  /\ Spec /\ WF_vars(Work \/ Arrive \/ Receive)
  /\ WF_vars(reader = "close" /\ started /\ (Close \/ CloseComplete))
-------------------------------------------------------------------------------
TypeOK ==
  /\ link \in {"up", "broken", "shut", "closed"} /\ phase \in {"idle", "polling", "working"}
  /\ state \in [Ops -> {"new", "write", "bulk_write", "working", "ok", "error"}]
  /\ reader \in {"idle", "reading", "disconnect", "close", "lost"} /\ started \in BOOLEAN

\* A write_packet_op that has completed without an error has written its packet; the
\* followers of a failed bulk write are excepted (README, findings).
SuccessIsWritten ==
  [][\A o \in Ops : state[o] # "ok" /\ state'[o] = "ok" /\ (bulkWrite => link = "up")
        => o \in ToSet(written')]_vars

\* The places in written of the packets that async_recv completes with: those its filter
\* asks for, up to the first one that cannot be accepted.
KindAt(i) == Kind(Packet(Bytes(written[i])))
Accepted == {i \in DOMAIN written :
               Asked(KindAt(i)) /\ \A k \in 1..i : Asked(KindAt(k)) \/ KindAt(k) = "other"}
AcceptedUpTo(i) == Cardinality({k \in Accepted : k <= i})

\* async_recv completes with the packets that were written, in their order and cut where
\* they end, whatever the sizes of reads and chunks; then with an error.  With bulk read it
\* is about the first connection: the rest of one is handed on to the next (README, findings).
DeliveredInOrder ==
  opens = 1 \/ ~bulkRead => \A i \in DOMAIN delivered :
    \/ \E p \in Accepted : i = AcceptedUpTo(p) /\ delivered[i] = Packet(Bytes(written[p]))
    \/ i = Len(delivered) /\ Failed

\* When async_recv has failed, the connection is closed: the application may connect
\* again at once, whether the read, the packet or the other side was the reason.  Two
\* failures are excepted: a receive aborted by a close that the endpoint has begun itself,
\* and one before the endpoint has sent or read a CONNECT, after which the socket is open.
FailedIsClosed == Failed /\ Last(delivered).ec = "error" => link = "closed"

\* Every write_packet_op completes, whatever happens to the connection.
EveryWriteCompletes == phase # "idle" ~> \A o \in Ops : state[o] \in {"new", "ok", "error"}

\* What was written arrives as long as the connection is up and no length is too large;
\* with bulk read a last packet without payload does not, and a v5.0 server endpoint
\* forgets its receive for a malformed packet (README, findings).
EveryPacketArrives ==
  Len(delivered) < Cardinality(Accepted) /\ ~bulkRead
    ~> Len(delivered) >= Cardinality(Accepted) \/ Failed \/ link # "up"
===============================================================================
