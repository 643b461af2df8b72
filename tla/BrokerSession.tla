----------------------------- MODULE BrokerSession -----------------------------
(***************************************************************************)
(* The sessions of the broker, for the connections of one client (one user *)
(* name and client id, the unique key of sessions_): CONNECT and the       *)
(* take-over of the connection that is online, close_proc, become_offline, *)
(* renew, inherit, the timers of the session and of the will, and the      *)
(* messages delivered to the session with QoS 1 and with QoS 2, up to      *)
(* their acknowledgement, or a message of QoS 2 from the client, which     *)
(* sends it again until it is acknowledged.  Connections run on strands of *)
(* their own: an action is one handler, and what a handler posts or waits  *)
(* for is a later action.  Neither the callback of a take-over nor inherit *)
(* holds mtx_sessions_; session, timers and endpoints are shared by all.   *)
(***************************************************************************)
EXTENDS Integers, Sequences, FiniteSets, FiniteSetsExt, SequencesExt

CONSTANTS
  N,         \* connections 1..N of the client, in the order of their CONNECT packets
  Kinds,     \* the CONNECT packets of each connection: [version, clean, expiry, will]
  MaxPid,    \* packet ids of an endpoint are 1..MaxPid
  MaxMsgs,   \* bound on the messages published to the client, which are 1..MaxMsgs
  Qos2,      \* those that are published with QoS 2; the others have QoS 1
  Expiring   \* those that have a message expiry interval

Conns == 1..N
Pids == 1..MaxPid
KindSet == [version : {3, 5}, clean : BOOLEAN, expiry : {"none", "finite", "never"},
            will : {"no", "now", "delayed"}]

ASSUME BrokerSessionAssumption ==
  /\ N \in Nat /\ MaxPid \in Nat /\ MaxMsgs \in Nat
  /\ Qos2 \subseteq 1..MaxMsgs /\ Expiring \subseteq 1..MaxMsgs
  /\ \A c \in Conns : /\ Kinds[c] # {}
                     /\ Kinds[c] \subseteq {k \in KindSet : k.version = 3 => k.expiry = "none"}

VARIABLES
  sess,       \* the element of sessions_ with this key, or NoSession
  conn,       \* per connection: the endpoint and what the broker does with it
  down,       \* connections whose network is down
  made,       \* number of session_state objects made
  from,       \* the message the client publishes: how far it is for the client, the
              \* connections it was sent on, and how often the broker has published it
  msgs,       \* number of messages published
  published,  \* history: per connection, how often its will has been published
  quit,       \* history: connections that sent DISCONNECT without the will
  kept,       \* history: messages accepted for the session and not acknowledged
  done,       \* history: messages the client has taken over, by PUBACK or PUBREC
  raced       \* history: an overlap, or a refused message, that loses others has happened

vars == <<sess, conn, down, made, from, msgs, published, quit, kept, done, raced>>

NoSession == [id |-> 0]
\* status is that of the endpoint ("gone" once it is destroyed); phase is what the broker
\* does next: wait for the take-over, inherit, wait for CONNACK to be written, or read;
\* discs wait for DISCONNECT to be written, closers for the close; tasks are on the strand.
\* store has the packet ids in use, each with its message, the version of its packets and
\* how far it is: PUBLISH was sent or, as the endpoint is not connected, only stored; PUBREC
\* was "received" and nothing is stored any more, or PUBLISH was "refused" and nothing was
\* stored; PUBREL was sent and stored.  handled says whether qos2_publish_handled_ has the
\* packet id of the message that the client publishes.
NoConn == [status |-> "none", phase |-> "new", kind |-> CHOOSE k \in KindSet : TRUE,
           target |-> 0, store |-> {}, handled |-> FALSE, discs |-> {}, closers |-> <<>>, tasks |-> <<>>]

Init ==
  /\ sess = NoSession /\ conn = [c \in Conns |-> NoConn] /\ down = {}
  /\ made = 0 /\ msgs = 0
  /\ from \in [step : {"none", "publish"}, on : {{}}, times : {0}]
  /\ published = [c \in Conns |-> 0] /\ quit = {} /\ kept = {}
  /\ done = {} /\ raced = FALSE

\* What a handler works on; its steps are functions of such a record.
Now == [sess |-> sess, conn |-> conn, made |-> made, from |-> from, published |-> published,
        kept |-> kept, done |-> done, raced |-> raced]
Then(next) == \E S \in {next} :
  /\ sess' = S.sess /\ conn' = S.conn /\ made' = S.made /\ from' = S.from
  /\ published' = S.published /\ kept' = S.kept /\ done' = S.done
  /\ raced' = S.raced
-------------------------------------------------------------------------------
\* Mutants: the will is published and stays; a session that goes offline forgets what is
\* in the store; the close queue is not polled.
WillStays(S) ==
  IF S.sess = NoSession \/ S.sess.will = 0 THEN S
  ELSE [S EXCEPT !.published[S.sess.will] = @ + 1]
OfflineOnly(S, c, id) ==
  IF S.sess.id = id /\ S.sess.expiry = "finite" THEN [S EXCEPT !.sess.tim = "armed"] ELSE S
FirstOnly(c) == <<Head(conn[c].closers)>>

Online(S) == S.sess # NoSession /\ S.conn[S.sess.epwp].status # "gone"
Found(S, c) == S.sess # NoSession /\ S.sess.epwp = c
Lasting(e) == e.step \notin {"received", "refused"}
Stored(S, c) == {e \in S.conn[c].store : Lasting(e)}
Free(S, c) == Pids \ {e.pid : e \in S.conn[c].store}

\* send_will_impl, and send_will, which waits for the delay of a session that remains.
WillImpl(S) ==
  IF S.sess = NoSession \/ S.sess.will = 0 THEN S
  ELSE [S EXCEPT !.published[S.sess.will] = @ + 1, !.sess.will = 0]
SendWill(S) ==
  IF S.sess.will # 0 /\ S.sess.remain /\ S.conn[S.sess.will].kind.will = "delayed"
  THEN [S EXCEPT !.sess.delay = @ \cup {"armed"}]
  ELSE WillImpl(S)
DoSendWill(S, send) == IF send THEN SendWill(S) ELSE [S EXCEPT !.sess.will = 0]

Will(k, c) == IF k.will = "no" THEN 0 ELSE c
Remains(k) == IF k.version = 3 THEN ~k.clean ELSE k.expiry # "none"

\* CONNACK is sent: the endpoint is connected; its completion is Greet.
Greeting(S, c, phase) ==
  [S EXCEPT !.conn[c].phase = phase,
            !.conn[c].status = IF @ = "connecting" THEN "connected" ELSE @]

\* CONNACK says that there is no session: the client gives up what it has published.
GivenUp(S) == [S EXCEPT !.from.step = IF S.from.on = {} THEN @ ELSE "over"]

\* A session is made and inserted; if there is one (BOOST_ASSERT(inserted)) it stays.
\* version_ is that of the connection which made it, for good: neither renew() nor
\* inherit() touches it.
Create(S, c) ==
  LET k == S.conn[c].kind IN
  Greeting(IF S.sess # NoSession THEN S
           ELSE [GivenUp(S) EXCEPT !.made = @ + 1, !.kept = {},
                  !.sess = [id |-> S.made + 1, epwp |-> c, version |-> k.version,
                            remain |-> Remains(k), expiry |-> k.expiry, tim |-> "off", inflight |-> {},
                            offline |-> <<>>, will |-> Will(k, c), delay |-> {},
                            handled |-> FALSE, sub |-> FALSE]],
           c, "greet")

\* clean() and the rest of renew(): remain_after_close_ of a v5.0 connection is computed
\* from the expiry interval that clean() has just reset.
Renew(S, c) ==
  LET k == S.conn[c].kind IN
  Greeting([GivenUp(S) EXCEPT !.kept = {},
             !.sess = [@ EXCEPT !.epwp = c, !.remain = (k.version = 3 /\ ~k.clean),
                         !.expiry = k.expiry, !.tim = IF @ = "due" THEN "due" ELSE "off",
                         !.inflight = {}, !.offline = <<>>, !.will = Will(k, c),
                         !.delay = @ \ {"armed"}, !.handled = FALSE, !.sub = FALSE]],
           c, "greet")

\* inherit(): remain_after_close_ is computed from the expiry interval of the connection
\* before; the timer of the session is not cancelled.  The ids of the messages that have
\* been handled go to the new endpoint.
Inherited(S, c) ==
  LET k == S.conn[c].kind IN
  Greeting([S EXCEPT
             !.raced = @ \/ S.conn[S.sess.epwp].status \notin {"closed", "gone"},
             !.conn[c].handled = S.sess.handled,
             !.sess = [@ EXCEPT !.epwp = c, !.remain = (k.version = 3 \/ S.sess.expiry # "none"),
                         !.expiry = k.expiry, !.will = Will(k, c), !.delay = @ \ {"armed"}]],
           c, "resume")

\* offline_to_online works on the iterator it was given: if that session has been erased
\* the behaviour is undefined and the connection is not followed further.
Target(S, c, id, T) == IF S.sess.id = id THEN T ELSE [S EXCEPT !.conn[c].phase = "undefined"]
OfflineToOnline(S, c, id, inline) ==
  IF S.conn[c].kind.clean THEN Target(S, c, id, Renew(S, c))
  ELSE LET T == [S EXCEPT !.conn[c].phase = "inherit", !.conn[c].target = id]
       IN IF inline THEN Target(T, c, id, Inherited(T, c)) ELSE T

\* What an endpoint has stored is sent from the start, or again.
Again(e) == [e EXCEPT !.step = IF @ = "unsent" THEN "publish" ELSE @]

\* become_offline(): what the endpoint stored is inserted into the inflight messages, a
\* packet id that is there already is not; the ids it has handled are kept and the expiry
\* timer starts.  The session may have
\* been inherited already, if two closes of the endpoint were under way.
BecomeOffline(S, c, id) ==
  IF S.sess.id # id THEN S
  ELSE [S EXCEPT !.sess.inflight = @ \cup {Again(e) : e \in {f \in Stored(S, c) :
                                        \A g \in @ : g.pid # f.pid}},
                 !.sess.handled = S.conn[c].handled,
                 !.sess.tim = IF S.sess.expiry = "finite" THEN "armed" ELSE @,
                 !.raced = @ \/ S.sess.epwp # c]

\* The endpoint of c has been closed for op.  The one that read an error goes through
\* close_proc now, and its own close is completed at once.
CloseNow(S, c) ==
  IF ~Found(S, c) THEN S
  ELSE IF S.sess.remain THEN BecomeOffline(SendWill(S), c, S.sess.id)
  ELSE [SendWill(S) EXCEPT !.sess = NoSession, !.kept = {}]
Complete(S, c, op, inline) ==
  CASE op.kind = "recv" -> CloseNow(S, c)
    [] op.kind = "quit" -> IF op.id = 0 THEN S ELSE BecomeOffline(S, c, op.id)
    [] op.kind = "takeover" ->
         IF op.id = 0 THEN Create(S, op.by)
         ELSE OfflineToOnline(BecomeOffline(S, c, op.id), op.by, op.id, inline)

\* async_close of an endpoint that is being closed waits in close_queue_.
AsyncClose(S, c, op, inline) ==
  CASE S.conn[c].status = "closed"  -> Complete(S, c, op, inline)
    [] S.conn[c].status = "closing" -> [S EXCEPT !.conn[c].closers = Append(@, op)]
    [] OTHER -> [S EXCEPT !.conn[c].status = "closing", !.conn[c].closers = <<op>>]

\* close_proc_no_lock with a reason code: the session stays or is extracted (and destroyed
\* with the close), and with a v5.0 session DISCONNECT is sent before the close; an
\* endpoint of the other version refuses it.
CloseProc(S, c, send, op, inline) ==
  LET T == DoSendWill(S, send)
      o == [op EXCEPT !.id = IF S.sess.remain THEN S.sess.id ELSE 0]
      U == IF S.sess.remain THEN T ELSE [T EXCEPT !.sess = NoSession, !.kept = {}]
  IN CASE ~Found(S, c) -> IF op.kind = "takeover" THEN Create(S, op.by) ELSE S
       [] Found(S, c) /\ S.sess.version = 5 ->
            [U EXCEPT !.conn[c].discs = @ \cup {o},
                      !.conn[c].status = IF @ = "connected" /\ S.conn[c].kind.version = 5
                                         THEN "disconnecting" ELSE @]
       [] OTHER -> AsyncClose(U, c, o, inline)

\* A PUBLISH or PUBREL that an endpoint is given with a packet id: PUBLISH is stored
\* whatever its status is, and lost if that has been closed; PUBREL is refused if it is
\* not connected.  A packet of the other version is refused: the id stays in use, and
\* unless it is an inflight message, which stays as well, the message is lost.
Given(S, c, e) ==
  CASE S.conn[c].kind.version # e.version ->
         [S EXCEPT !.conn[c].store = @ \cup {[e EXCEPT !.step = "refused"]},
                   !.raced = @ \/ e \notin S.sess.inflight]
    [] S.conn[c].kind.version = e.version /\ S.conn[c].status = "connected" ->
         [S EXCEPT !.conn[c].store = @ \cup {e}]
    [] S.conn[c].kind.version = e.version /\ S.conn[c].status # "connected"
         /\ e.step = "publish" ->
         [S EXCEPT !.conn[c].store = @ \cup {[e EXCEPT !.step = "unsent"]},
                   !.raced = @ \/ S.conn[c].status = "closed"]
    [] OTHER -> [S EXCEPT !.conn[c].store = @ \cup {[e EXCEPT !.step = "received"]},
                          !.raced = TRUE]

\* send_until_fail: as many as there are packet ids, with packets of the session's version.
Flush(S, c) ==
  LET queue == S.sess.offline
      free == SetToSortSeq(Free(S, c), <)
      n == Min({Len(queue), Len(free)})
      send(T, i) == Given(T, c, [pid |-> free[i], msg |-> queue[i], version |-> S.sess.version,
                                 step |-> "publish"])
  IN IF S.conn[c].status = "gone" THEN S
     ELSE FoldLeft(send, [S EXCEPT !.sess.offline = SubSeq(queue, n + 1, Len(queue))],
                   [i \in 1..n |-> i])
\* send_inflight_messages and send_all_offline_messages, to the endpoint of the session.
Resend(S) ==
  LET e == S.sess.epwp
      again == {i \in S.sess.inflight : i.pid \in Free(S, e)}
  IN Flush(IF S.conn[e].status = "gone" THEN S
           ELSE FoldSet(LAMBDA i, T : Given(T, e, i), S, again), e)
-------------------------------------------------------------------------------
\* A connection is accepted and sends CONNECT; login and client id are in order.
Connect(c, k) ==
  LET S == [Now EXCEPT !.conn[c].kind = k, !.conn[c].status = "connecting"]
      waits == [S EXCEPT !.conn[c].phase = "takeover"]
  IN /\ conn[c].phase = "new" /\ \A d \in 1..(c - 1) : conn[d].phase # "new"
     /\ \E inline \in BOOLEAN :
          Then(IF sess = NoSession THEN Create(S, c)
               ELSE IF Online(S)
               THEN CloseProc(waits, sess.epwp, TRUE,
                              [kind |-> "takeover", id |-> 0, by |-> c], inline)
               ELSE OfflineToOnline(S, c, sess.id, inline))
     /\ UNCHANGED <<down, msgs, quit>>

\* The inherit() that offline_to_online dispatched to the strand of the new connection.
Inherit(c) ==
  /\ conn[c].phase = "inherit"
  /\ Then(Target(Now, c, conn[c].target, Inherited(Now, c)))
  /\ UNCHANGED <<down, msgs, quit>>

\* CONNACK has been written, or has failed: then a resumed connection is left alone and its
\* endpoint is destroyed, a new one reads (and gets the error).
Greet(c) ==
  /\ \/ /\ conn[c].phase = "greet"
        /\ Then([Now EXCEPT !.conn[c].phase = "read"])
     \/ /\ conn[c].phase = "resume" /\ conn[c].status = "connected"
        /\ Then(LET S == [Now EXCEPT !.conn[c].phase = "read"]
                IN Target(S, c, conn[c].target, Resend(S)))
     \/ /\ conn[c].phase = "resume" /\ (c \in down \/ conn[c].status # "connected")
        /\ Then([Now EXCEPT !.conn[c].phase = "over"])
  /\ UNCHANGED <<down, msgs, quit>>

NetDown(c) ==
  /\ conn[c].status \notin {"none", "closed", "gone"} /\ c \notin down
  /\ down' = down \cup {c}
  /\ UNCHANGED <<sess, conn, made, from, msgs, published, quit, kept, done, raced>>

\* async_recv fails: the endpoint closes itself, then recv_proc calls close_proc.
ReadError(c) ==
  /\ conn[c].phase = "read" /\ (c \in down \/ conn[c].status \in {"closing", "closed"})
  /\ Then(AsyncClose([Now EXCEPT !.conn[c].phase = "over"], c,
                     [kind |-> "recv", id |-> 0, by |-> 0], FALSE))
  /\ UNCHANGED <<down, msgs, quit>>

\* disconnect_handler: the client sends DISCONNECT, with or without the will.
Disconnect(c, send) ==
  /\ conn[c].phase = "read" /\ conn[c].status = "connected" /\ c \notin down
  /\ Then(CloseProc([Now EXCEPT !.conn[c].phase = "over"], c, send,
                    [kind |-> "quit", id |-> 0, by |-> 0], FALSE))
  /\ quit' = IF send THEN quit ELSE quit \cup {c}
  /\ UNCHANGED <<down, msgs>>

\* disconnect_and_close: DISCONNECT has been written or has failed, the close follows.
DiscDone(c) ==
  /\ \E op \in conn[c].discs, inline \in BOOLEAN :
       Then(AsyncClose([Now EXCEPT !.conn[c].discs = @ \ {op}], c, op, inline))
  /\ UNCHANGED <<down, msgs, quit>>

\* The transport is closed: the closes that wait in close_queue_ complete first.
Closed(c) == Append(Tail(conn[c].closers), Head(conn[c].closers))
CloseDone(c) ==
  /\ conn[c].status = "closing"
  /\ \E inline \in BOOLEAN :
       Then(FoldLeft(LAMBDA S, op : Complete(S, c, op, inline),
                     [Now EXCEPT !.conn[c].status = "closed", !.conn[c].closers = <<>>],
                     Closed(c)))
  /\ UNCHANGED <<down, msgs, quit>>

\* Nothing holds the endpoint any more: it is destroyed, and the session is offline.  What
\* an endpoint stored that has not been closed (CONNACK failed) is gone with it.
Gone(c) ==
  /\ conn[c].phase = "over" /\ conn[c].status # "gone"
  /\ conn[c].discs = {} /\ conn[c].closers = <<>> /\ conn[c].tasks = <<>>
  /\ conn' = [conn EXCEPT ![c].status = "gone", ![c].store = {}, ![c].handled = FALSE]
  /\ raced' = (raced \/ (conn[c].status # "closed" /\ conn[c].store # {}))
  /\ UNCHANGED <<sess, down, made, from, msgs, published, quit, kept, done>>
-------------------------------------------------------------------------------
\* The timers: one that has expired has its handler posted, which cancel() does not undo.
\* The session is erased, and its destructor publishes the will.
SessionExpires ==
  /\ sess # NoSession
  /\ \/ sess.tim = "armed" /\ Then([Now EXCEPT !.sess.tim = "due"])
     \/ /\ sess.tim = "due"
        /\ Then([WillImpl(Now) EXCEPT !.sess = NoSession, !.kept = {}])
  /\ UNCHANGED <<down, msgs, quit>>
WillDelayExpires ==
  /\ sess # NoSession
  /\ \/ /\ "armed" \in sess.delay
        /\ Then([Now EXCEPT !.sess.delay = (@ \ {"armed"}) \cup {"due"}])
     \/ /\ "due" \in sess.delay
        /\ Then([WillImpl(Now) EXCEPT !.sess.delay = @ \ {"due"}])
  /\ UNCHANGED <<down, msgs, quit>>

\* The timer that an off-line or inflight message has of its own.
MessageExpires(m) ==
  LET is(i) == i.msg = m /\ i.step = "publish"
  IN /\ sess # NoSession /\ m \in Expiring
     /\ m \in Range(sess.offline) \/ \E i \in sess.inflight : is(i)
     /\ Then([Now EXCEPT !.sess.offline = SelectSeq(@, LAMBDA n : n # m),
                          !.sess.inflight = {i \in @ : ~is(i)}, !.kept = @ \ {m}])
     /\ UNCHANGED <<down, msgs, quit>>

\* subscribe_handler, as far as the session is concerned.  A client either subscribes or
\* publishes.
Subscribe(c) ==
  /\ conn[c].phase = "read" /\ c \notin down /\ Found(Now, c) /\ ~sess.sub
  /\ from.step = "none"
  /\ sess' = [sess EXCEPT !.sub = TRUE]
  /\ UNCHANGED <<conn, down, made, from, msgs, published, quit, kept, done, raced>>

\* do_publish delivers a message to the session: it waits while others do or while there
\* is no endpoint, else it goes to the strand of the endpoint.
Publish ==
  /\ sess # NoSession /\ sess.sub /\ msgs < MaxMsgs
  /\ msgs' = msgs + 1
  /\ IF Online(Now) /\ sess.offline = <<>>
     THEN Then([Now EXCEPT !.conn[sess.epwp].tasks =
                  Append(@, [msg |-> msgs', id |-> sess.id])])
     ELSE Then([Now EXCEPT !.sess.offline = Append(@, msgs'), !.kept = @ \cup {msgs'}])
  /\ UNCHANGED <<down, quit>>

\* The strand: a packet id is acquired and PUBLISH, of the session's version, is sent and
\* stored.  Without an id the message is dropped.
Task(c) ==
  LET t == Head(conn[c].tasks)
      S == [Now EXCEPT !.conn[c].tasks = Tail(@)]
      e == [pid |-> Min(Free(Now, c)), msg |-> t.msg, version |-> sess.version,
            step |-> "publish"]
  IN /\ conn[c].tasks # <<>>
     /\ IF Free(Now, c) # {} /\ sess.id = t.id
        THEN Then(Given([S EXCEPT !.kept = @ \cup {t.msg},
                            !.raced = @ \/ (conn[c].phase = "resume" /\ sess.inflight # {})],
                        c, e))
        ELSE Then(S)
     /\ UNCHANGED <<down, msgs, quit>>

\* The client answers what it was sent on this connection.
Answers(c, e, step) ==
  /\ conn[c].phase = "read" /\ conn[c].status \in {"connected", "disconnecting"}
  /\ c \notin down /\ e \in conn[c].store /\ e.step = step

\* The end of an exchange: the endpoint erases the packet and releases its id, then the
\* handler erases the inflight message and sends what waits for an id.
Released(S, c, e) ==
  LET T == [S EXCEPT !.conn[c].store = @ \ {e}, !.kept = @ \ {e.msg}]
  IN IF ~Found(T, c) THEN T
     ELSE Flush([T EXCEPT !.sess.inflight = {i \in @ : i.pid # e.pid}], c)

\* puback_handler
Puback(c, e) ==
  /\ Answers(c, e, "publish") /\ e.msg \notin Qos2
  /\ Then([Released(Now, c, e) EXCEPT !.done = @ \cup {e.msg}])
  /\ UNCHANGED <<down, msgs, quit>>

\* A mutant of Received: the inflight message stays until PUBCOMP.
StaysInflight(S, c, e) ==
  LET T == [S EXCEPT !.conn[c].store = @ \ {e}, !.done = @ \cup {e.msg}]
      rel == [e EXCEPT !.step = "pubrel"]
  IN IF Found(S, c) THEN Given(T, c, rel)
     ELSE [T EXCEPT !.conn[c].store = @ \cup {[e EXCEPT !.step = "received"]}]

\* pubrec_handler of a PUBREC with success: the endpoint erases PUBLISH and keeps the id,
\* the handler erases the inflight message and sends PUBREL.
Received(S, c, e) ==
  LET T == [S EXCEPT !.conn[c].store = @ \ {e}, !.done = @ \cup {e.msg},
                     !.sess.inflight = {i \in @ : i.pid # e.pid}]
      rel == [e EXCEPT !.step = "pubrel"]
  IN IF Found(S, c) THEN Given(T, c, rel)
     ELSE [S EXCEPT !.conn[c].store = (@ \ {e}) \cup {[e EXCEPT !.step = "received"]},
                    !.done = @ \cup {e.msg}]

\* pubrec_handler of a PUBREC with an error: the endpoint erases PUBLISH and releases the
\* id, the handler returns, so that an inflight message remains: it is sent again, and a
\* later message with its id is not kept.
Refused(S, c, e) ==
  [S EXCEPT !.conn[c].store = @ \ {e}, !.kept = @ \ {e.msg},
            !.raced = @ \/ (Found(S, c) /\ \E i \in S.sess.inflight : i.pid = e.pid)]

Pubrec(c, e) ==
  /\ Answers(c, e, "publish") /\ e.msg \in Qos2
  /\ \/ Then(Received(Now, c, e))
     \/ conn[c].kind.version = 5 /\ Then(Refused(Now, c, e))
  /\ UNCHANGED <<down, msgs, quit>>

\* pubcomp_handler
Pubcomp(c, e) ==
  /\ Answers(c, e, "pubrel")
  /\ Then(Released(Now, c, e))
  /\ UNCHANGED <<down, msgs, quit>>
-------------------------------------------------------------------------------
\* What the client has not finished it sends once on each connection; an answer of the
\* broker arrives or the connection breaks first.
Sends(c, step) ==
  /\ from.step = step /\ c \notin from.on /\ c \notin down
  /\ conn[c].phase = "read" /\ conn[c].status \in {"connected", "disconnecting"}
Answered(S, c, next) ==
  \E arrives \in {FALSE, S.conn[c].status = "connected"} :
    Then(IF arrives THEN [S EXCEPT !.from.step = next, !.from.on = @ \ {c}]
         ELSE [S EXCEPT !.from.on = @ \cup {c}])
Unanswered(S, c) == Then([S EXCEPT !.from.on = @ \cup {c}])

\* process_qos2_publish and publish_handler: a message whose id has been handled is not
\* given to the broker but answered, any other is published if the session is still that
\* of the connection, and answered after that.
PublishFrom(c) ==
  LET S == [Now EXCEPT !.conn[c].handled = TRUE]
  IN /\ Sends(c, "publish")
     /\ CASE conn[c].handled -> Answered(S, c, "pubrel")
          [] ~conn[c].handled /\ Found(Now, c) ->
               Answered([S EXCEPT !.from.times = @ + 1], c, "pubrel")
          [] OTHER -> Unanswered(S, c)
     /\ UNCHANGED <<down, msgs, quit>>

\* PUBREL and pubrel_handler: the endpoint forgets the id.
PubrelFrom(c) ==
  LET S == [Now EXCEPT !.conn[c].handled = FALSE]
  IN /\ Sends(c, "pubrel")
     /\ IF Found(Now, c) THEN Answered(S, c, "done") ELSE Unanswered(S, c)
     /\ UNCHANGED <<down, msgs, quit>>
-------------------------------------------------------------------------------
Handler(c) ==
  Inherit(c) \/ Greet(c) \/ ReadError(c) \/ DiscDone(c) \/ CloseDone(c) \/ Gone(c) \/ Task(c)
Next ==
  \/ \E c \in Conns : \E k \in Kinds[c] : Connect(c, k)
  \/ \E c \in Conns : Handler(c) \/ NetDown(c) \/ Subscribe(c) \/ PublishFrom(c) \/ PubrelFrom(c)
  \/ \E c \in Conns, send \in BOOLEAN : Disconnect(c, send)
  \/ \E c \in Conns : \E e \in conn[c].store : Puback(c, e) \/ Pubrec(c, e) \/ Pubcomp(c, e)
  \/ SessionExpires \/ WillDelayExpires \/ Publish
  \/ \E m \in Expiring : MessageExpires(m)

Spec == Init /\ [][Next]_vars
\* The strands run the handlers that are ready, in whatever order; clients, the network and
\* timers need not do anything.
Fairness == WF_vars(\E c \in Conns : Handler(c))
FairSpec == Spec /\ Fairness
-------------------------------------------------------------------------------
\* The will of a connection is published once at most, and never after the client has
\* taken it back with DISCONNECT.  send_will_impl moves it away before it is sent; the
\* take-over, a read error, the delay timer and the destructor all may send it.
WillOnce ==
  [][\A c \in Conns : published'[c] # published[c] => published[c] = 0 /\ c \notin quit]_vars

\* A message accepted for the session is in the endpoint, among the inflight messages or
\* among the offline messages of the session until it is acknowledged, it expires or the
\* session ends, however connections come and go - unless something has happened that sets raced.
KeptUntilAcknowledged ==
  raced \/ \A m \in kept :
    \/ m \in Range(sess.offline)
    \/ \E e \in sess.inflight \cup conn[sess.epwp].store : e.msg = m /\ Lasting(e)

\* A message that the client has taken over, by PUBACK or PUBREC, is not sent to it again
\* by this connection or a later one: with QoS 2 that means only PUBREL is.  And a message
\* of QoS 2 that the client publishes, and sends again when it has reconnected, is
\* published once, before the client learns that it was received.
TakenOverOnce ==
  raced \/
    /\ sess # NoSession =>
         \A e \in sess.inflight \cup conn[sess.epwp].store :
           e.step \in {"publish", "unsent"} => e.msg \notin done
    /\ from.times \in (IF from.step \in {"pubrel", "done"} THEN {1} ELSE {0, 1})

\* Every CONNECT is answered (unless its session has been erased under it), and its
\* connection is read: the take-over waits for a DISCONNECT and for a close, which may be
\* the second close of that endpoint.
EveryConnectIsAnswered ==
  []<>(\A c \in Conns : conn[c].phase \in {"new", "read", "over", "undefined"})

===============================================================================
