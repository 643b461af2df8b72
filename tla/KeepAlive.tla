------------------------------- MODULE KeepAlive -------------------------------
(***************************************************************************)
(* The life of a connection between a client and a server endpoint: the    *)
(* keep-alive timers of both, close_op and the closers that wait for it,   *)
(* and a peer that stops answering.  Time is counted in ticks; a handler   *)
(* that is posted runs before the next tick, in any order with others, and *)
(* may therefore run after the cancellation that meant to prevent it.      *)
(***************************************************************************)
EXTENDS Integers, Sequences, FiniteSets

CONSTANTS
  KeepAlives,     \* what CONNECT may announce, in ticks; zero for no keep-alive
  Timeouts,       \* what pingresp_recv_timeout_ms_ may be, zero if it is not set
  Versions,       \* a subset of {"v3_1_1", "v5"}
  MaxOpens,       \* bound on the number of connections
  MaxSends,       \* bound on the packets the application sends on a connection
  MaxClosers      \* bound on the closers that wait in close_queue_

ASSUME KeepAliveAssumption ==
  /\ KeepAlives \cup Timeouts \cup {MaxOpens, MaxSends, MaxClosers} \subseteq Nat
  /\ Versions \subseteq {"v3_1_1", "v5"}

\* The keep-alive is in seconds and the timers are in milliseconds: a tick is short enough
\* that the grace of the server is longer than the keep-alive.
ASSUME TickAssumption == 1 \notin KeepAlives

Ends == {"client", "server"}
Timers == {"send", "resp", "recv"}  \* tim_pingreq_send_, tim_pingresp_recv_, tim_pingreq_recv_

VARIABLES
  version, timeout,  \* protocol_version_ and pingresp_recv_timeout_ms_
  keepAlive,         \* of the CONNECT of this connection
  interval,          \* the client's pingreq_send_interval_ms_, zero if it is not set
  ep,                \* per end the status, the ticks each timer has left (zero: not armed),
                     \* the timer handlers that are posted, whether a DISCONNECT is being
                     \* written that closes when it is done, the closes in progress and
                     \* the closers that wait
  link,              \* "up", or "silent": packets get lost and no error tells it
  toServer, toClient,\* packets under way
  granted,           \* the keep-alive in the CONNACK of this connection, or zero
  late,              \* whether time passed between CONNECT and CONNACK
  sends, opens

vars == <<version, timeout, keepAlive, interval, ep, link, toServer, toClient,
          granted, late, sends, opens>>
config == <<version, timeout>>

New == [status |-> "closed", left |-> [t \in Timers |-> 0], due |-> {}, disc |-> FALSE,
        closes |-> 0, waiting |-> 0]

Init ==
  /\ version \in Versions /\ timeout \in Timeouts /\ keepAlive = 0 /\ interval = 0
  /\ ep = [e \in Ends |-> New] /\ link = "up"
  /\ toServer = <<>> /\ toClient = <<>> /\ granted = 0 /\ late = FALSE
  /\ sends = 0 /\ opens = 0
-------------------------------------------------------------------------------
\* Mutants: a timer is armed whatever the status; the waiting closers are not polled;
\* DISCONNECT is sent detached and nothing closes; the timeout is the keep-alive itself.
ResetAnyway(x, t, ticks) == IF ticks = 0 THEN x ELSE [x EXCEPT !.left[t] = ticks]
ClosedNoPoll(x) ==
  [x EXCEPT !.left = [t \in Timers |-> 0], !.status = "closed", !.closes = @ - 1]
DisconnectDetached(x) ==
  IF x.status = "connected" THEN [x EXCEPT !.status = "disconnecting"] ELSE x
Tight(k) == k

Down == {"disconnecting", "closing", "closed"}

\* reset_*_timer(): cancelled, and armed again unless the connection goes down.
Reset(x, t, ticks) ==
  IF ticks = 0 THEN x ELSE [x EXCEPT !.left[t] = IF x.status \in Down THEN 0 ELSE ticks]

\* close_op up to the stream's close.
AsyncClose(x) ==
  CASE x.status \in {"connecting", "connected", "disconnecting"} ->
         [x EXCEPT !.status = "closing", !.closes = @ + 1]
    [] x.status = "closing" -> [x EXCEPT !.waiting = @ + 1]
    [] x.status = "closed"  -> x

\* The rest of close_op: the timers are cancelled, and poll() runs the waiting closers,
\* which find the status closed and complete.
Closed(x) ==
  [x EXCEPT !.left = [t \in Timers |-> 0], !.status = "closed", !.closes = @ - 1, !.waiting = 0]

\* DISCONNECT is sent, and its completion closes; so does the error when it is refused.
DisconnectThenClose(x) ==
  IF x.status = "connected" THEN [x EXCEPT !.status = "disconnecting", !.disc = TRUE]
  ELSE AsyncClose(x)

RespTimeout(x) == IF version = "v5" THEN DisconnectThenClose(x) ELSE AsyncClose(x)
RecvTimeout(x) == IF version = "v5" THEN DisconnectThenClose(x) ELSE AsyncClose(x)

\* keep_alive * 1000 * 3 / 2
Grace(k) == (k * 3) \div 2
-------------------------------------------------------------------------------
Becomes(e, x) == ep' = [ep EXCEPT ![e] = x]
Without(x, t) == [x EXCEPT !.due = @ \ {t}]
Transmit(queue, p) == IF link = "up" THEN Append(queue, p) ELSE queue

\* Packets and the end of the stream go to the other end.
Out(e, p) ==
  /\ toServer' = IF e = "client" THEN Transmit(toServer, p) ELSE toServer
  /\ toClient' = IF e = "server" THEN Transmit(toClient, p) ELSE toClient
NothingOut == UNCHANGED <<toServer, toClient>>
Rest == UNCHANGED <<config, keepAlive, interval, link, granted, late, sends, opens>>

\* A new connection: the server end is a new endpoint, the client end is used again.
Connect(k) ==
  /\ opens < MaxOpens /\ ep["client"].status = "closed" /\ ep["server"].status = "closed"
  /\ \A e \in Ends : ep[e].due = {} /\ ~ep[e].disc /\ ep[e].closes = 0
  /\ toClient = <<>>
  /\ keepAlive' = k /\ interval' = IF interval = 0 THEN k ELSE interval
  /\ ep' = [client |-> Reset([ep["client"] EXCEPT !.status = "connecting"], "send", interval'),
            server |-> New]
  /\ link' = "up" /\ toServer' = <<"connect">> /\ UNCHANGED toClient
  /\ granted' = 0 /\ late' = FALSE /\ sends' = 0 /\ opens' = opens + 1 /\ UNCHANGED config

\* The application of the client sends a packet other than CONNECT.
Send ==
  /\ ep["client"].status = "connected" /\ sends < MaxSends /\ sends' = sends + 1
  /\ Becomes("client", Reset(ep["client"], "send", interval)) /\ Out("client", "packet")
  /\ UNCHANGED <<config, keepAlive, interval, link, granted, late, opens>>

\* The handler of tim_pingreq_send_: PINGREQ, which needs the status connected.
FireSend ==
  LET x == Without(ep["client"], "send") IN
  /\ "send" \in ep["client"].due
  /\ IF x.status = "connected"
     THEN /\ Becomes("client", Reset(Reset(x, "resp", timeout), "send", interval))
          /\ Out("client", "pingreq")
     ELSE Becomes("client", x) /\ NothingOut
  /\ Rest

Fire(e, t, x) ==
  /\ t \in ep[e].due /\ Becomes(e, x)
  /\ IF x.disc /\ ~ep[e].disc THEN Out(e, "disconnect") ELSE NothingOut
  /\ Rest
FireResp == Fire("client", "resp", RespTimeout(Without(ep["client"], "resp")))
FireRecv == Fire("server", "recv", RecvTimeout(Without(ep["server"], "recv")))

\* DISCONNECT is written; its completion handler closes.
Disconnected(e) ==
  /\ ep[e].disc /\ Becomes(e, AsyncClose([ep[e] EXCEPT !.disc = FALSE]))
  /\ NothingOut /\ Rest

\* The application closes.
Close(e) ==
  /\ ep[e].status # "closed" /\ ep[e].waiting < MaxClosers /\ Becomes(e, AsyncClose(ep[e]))
  /\ NothingOut /\ Rest

\* The socket is closed: the other end reads what is under way, then the end of the
\* stream; of what was under way to this end, a read may have completed already.
Read(queue) == {<<>>} \cup {<<queue[i]>> : i \in DOMAIN queue \cap {1}}
CloseComplete(e) ==
  /\ ep[e].closes > 0 /\ Becomes(e, Closed(ep[e]))
  /\ toServer' \in IF e = "client" THEN {Transmit(toServer, "end")} ELSE Read(toServer)
  /\ toClient' \in IF e = "server" THEN {Transmit(toClient, "end")} ELSE Read(toClient)
  /\ Rest

Disconnecting(x, p) == IF p = "disconnect" THEN [x EXCEPT !.status = "disconnecting"] ELSE x

\* recv_op of the server: CONNECT sets the timeout, every packet arms the timer, and the
\* end of the stream closes.
ServerRecv ==
  LET x == ep["server"]
      p == Head(toServer)
      y == IF p = "connect" THEN [x EXCEPT !.status = "connecting"] ELSE Disconnecting(x, p) IN
  /\ toServer # <<>> /\ toServer' = Tail(toServer)
  /\ Becomes("server", IF p = "end" THEN AsyncClose(x) ELSE Reset(y, "recv", Grace(keepAlive)))
  /\ toClient' = IF p = "pingreq" /\ x.status = "connected"
                 THEN Transmit(toClient, "pingresp") ELSE toClient
  /\ Rest

\* The application of the server answers CONNECT, sooner or later.  The keep-alive a
\* v5 CONNACK may have does not concern the timer of the server.
Connack(k) ==
  /\ ep["server"].status = "connecting" /\ (k = 0 \/ version = "v5")
  /\ ep' = [ep EXCEPT !["server"].status = "connected"] /\ granted' = k
  /\ Out("server", "connack")
  /\ UNCHANGED <<config, keepAlive, interval, link, late, sends, opens>>

\* recv_op of the client.
ClientRecv ==
  LET x == ep["client"]
      p == Head(toClient)
      y == CASE p = "connack"  -> [x EXCEPT !.status = "connected"]
             [] p = "pingresp" -> [x EXCEPT !.left["resp"] = 0]
             [] p = "end"      -> AsyncClose(x)
             [] OTHER          -> Disconnecting(x, p) IN
  /\ toClient # <<>> /\ toClient' = Tail(toClient)
  /\ IF p = "connack" /\ granted # 0
     THEN interval' = granted /\ Becomes("client", Reset(y, "send", granted))
     ELSE UNCHANGED interval /\ Becomes("client", y)
  /\ UNCHANGED <<config, keepAlive, link, toServer, granted, late, sends, opens>>

GoSilent ==
  /\ link = "up" /\ opens > 0 /\ link' = "silent" /\ toServer' = <<>> /\ toClient' = <<>>
  /\ UNCHANGED <<config, keepAlive, interval, ep, granted, late, sends, opens>>

\* A tick: timers that run out have their handlers posted.
Pass(x) ==
  [x EXCEPT !.left = [t \in Timers |-> IF @[t] = 0 THEN 0 ELSE @[t] - 1],
            !.due = {t \in Timers : x.left[t] = 1}]
Tick ==
  /\ \A e \in Ends : ep[e].due = {} /\ ~ep[e].disc
  /\ toServer = <<>> /\ toClient = <<>> /\ \E e \in Ends, t \in Timers : ep[e].left[t] > 0
  /\ ep' = [e \in Ends |-> Pass(ep[e])] /\ NothingOut
  /\ late' = (late \/ ep["server"].status = "connecting")
  /\ UNCHANGED <<config, keepAlive, interval, link, granted, sends, opens>>
-------------------------------------------------------------------------------
Posted == FireSend \/ FireResp \/ FireRecv \/ \E e \in Ends : Disconnected(e)
Deliver == ServerRecv \/ ClientRecv
Closing == \E e \in Ends : CloseComplete(e)

Next ==
  \/ \E k \in KeepAlives : Connect(k) \/ Connack(k)
  \/ Send \/ Posted \/ Deliver \/ Closing \/ GoSilent \/ Tick
  \/ \E e \in Ends : Close(e)

Spec == Init /\ [][Next]_vars

\* Posted handlers run, packets arrive, layers get closed and time passes.
FairSpec == Spec /\ WF_vars(Posted) /\ WF_vars(Deliver) /\ WF_vars(Closing) /\ WF_vars(Tick)
-------------------------------------------------------------------------------
\* A timer is armed only as long as the connection is not given up: one that ran on would
\* act upon the next connection.
NoTimerAfterClose == \A e \in Ends : ep[e].status = "closed" => \A t \in Timers : ep[e].left[t] = 0

\* Every closer completes: the one that closes, and those that wait for it.
EveryCloserCompletes ==
  \A e \in Ends : ep[e].closes > 0 \/ ep[e].waiting > 0 ~> ep[e].closes = 0 /\ ep[e].waiting = 0

Expecting == ep["client"].status = "connected" /\ link = "silent" /\ timeout # 0
Pinging == interval # 0 /\ (ep["client"].left["send"] > 0 \/ "send" \in ep["client"].due)

\* "If the timer is fired, then the underlying layer is closed from the client side"
\* (src/include/async_mqtt/endpoint.hpp:230): a server that went silent is noticed, if
\* the timeout is shorter than the interval: otherwise each PINGREQ puts the timeout off
\* (README, findings).
SilentServerIsNoticedInTime ==
  Expecting /\ Pinging /\ timeout < interval ~> ep["client"].status = "closed"

\* The server does not time out a client that pings at its keep-alive or more often.  Not
\* so one whose CONNACK comes late: a PINGREQ that is due before it is not sent and ends
\* the pinging, and an interval in the CONNACK starts it over; nor one that connects
\* again with an interval that is too long by now (README, findings).
LiveClientIsKept ==
  "recv" \in ep["server"].due /\ link = "up" /\ (\A e \in Ends : ep[e].status = "connected")
    => late \/ interval > keepAlive
===============================================================================
