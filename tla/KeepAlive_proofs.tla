---------------------------- MODULE KeepAlive_proofs ----------------------------
(***************************************************************************)
(* No timer of an endpoint that is closed is armed, and the server does    *)
(* not time out a client that pings, for all keep-alives, timeouts and     *)
(* bounds.                                                                 *)
(***************************************************************************)
EXTENDS KeepAlive, TLAPS

\* What an end of the connection is.
End ==
  [status : {"connecting", "connected"} \cup Down, left : [Timers -> Nat],
   due : SUBSET Timers, disc : BOOLEAN, closes : Int, waiting : Nat]

\* An end that is closed has no timer that runs.
Quiet(x) == x.status = "closed" => \A t \in Timers : x.left[t] = 0

Ticks == keepAlive \in Nat /\ interval \in Nat /\ granted \in Nat /\ timeout \in Nat
Proper(x) == x \in End /\ Quiet(x)
Both == ep \in [Ends -> End] /\ \A e \in Ends : Quiet(ep[e])

\* The inductive invariant.
Inv == Ticks /\ Both
-------------------------------------------------------------------------------
\* The functions on an end that handlers are made of.

\* A timer is armed only when the status is not one of those of a connection that ends
\* (reset_pingreq_send_timer and the two like it).
LEMMA ResetProper ==
  ASSUME NEW x, NEW t \in Timers, NEW ticks \in Nat, Proper(x)
  PROVE  Proper(Reset(x, t, ticks)) /\ Reset(x, t, ticks).status = x.status
  BY DEF Proper, End, Quiet, Reset, Down, Timers

\* Beginning to close arms nothing (close_op).
LEMMA AsyncCloseProper == ASSUME NEW x, Proper(x) PROVE Proper(AsyncClose(x))
<1>1. CASE x.status \in {"connecting", "connected", "disconnecting"}
  <2>1. AsyncClose(x) = [x EXCEPT !.status = "closing", !.closes = @ + 1]
    BY <1>1 DEF AsyncClose
  <2> DEFINE y == [x EXCEPT !.status = "closing"]
  <2>2. Proper(y) /\ y.status = "closing" /\ y.closes = x.closes
    BY DEF Proper, End, Quiet, Down
  <2>3. AsyncClose(x) = [y EXCEPT !.closes = x.closes + 1]  BY <2>1
  <2> HIDE DEF y
  <2>4. x.closes \in Int  BY DEF Proper, End
  <2>5. QED  BY <2>2, <2>3, <2>4 DEF Proper, End, Quiet
<1>2. CASE x.status = "closing"
  <2>1. AsyncClose(x) = [x EXCEPT !.waiting = @ + 1]  BY <1>2 DEF AsyncClose
  <2>2. QED  BY <1>2, <2>1 DEF Proper, End, Quiet, Down
<1>3. CASE x.status = "closed"
  BY <1>3 DEF AsyncClose
<1>4. QED  BY <1>1, <1>2, <1>3 DEF Proper, End, Down

\* The end of close_op cancels every timer.
LEMMA ClosedProper == ASSUME NEW x, Proper(x) PROVE Proper(Closed(x))
<1> DEFINE none == [t \in Timers |-> 0]
<1>1. none \in [Timers -> Nat] /\ \A t \in Timers : none[t] = 0
  OBVIOUS
<1>2. x \in End  BY DEF Proper
<1> DEFINE y == [x EXCEPT !.left = none]
           z == [y EXCEPT !.status = "closed"]
           u == [z EXCEPT !.closes = x.closes - 1]
<1>3. Closed(x) = [u EXCEPT !.waiting = 0]
  BY <1>2 DEF Closed, End
<1> HIDE DEF none
<1>4. y \in End /\ y.left = none  BY <1>1, <1>2 DEF End
<1> HIDE DEF y
<1>5. z \in End /\ z.left = none  BY <1>4 DEF End, Down
<1> HIDE DEF z
<1>6. x.closes - 1 \in Int  BY <1>2 DEF End
<1>7. u \in End /\ u.left = none  BY <1>5, <1>6 DEF End
<1> HIDE DEF u
<1>8. QED  BY <1>1, <1>3, <1>7 DEF Proper, End, Quiet

\* DISCONNECT before the close arms nothing (the handlers of the timers).
LEMMA DisconnectProper == ASSUME NEW x, Proper(x) PROVE Proper(DisconnectThenClose(x))
  BY AsyncCloseProper DEF Proper, End, Quiet, DisconnectThenClose, Down, Timers

\* Other changes: the handler of a timer runs, a DISCONNECT comes or is written.
LEMMA SmallChanges ==
  ASSUME NEW x, Proper(x), NEW t \in Timers, NEW p
  PROVE  /\ Proper(Without(x, t))
         /\ Proper(Disconnecting(x, p))
         /\ Proper([x EXCEPT !.disc = FALSE])
         /\ Proper([x EXCEPT !.left[t] = 0])
         /\ \A s \in {"connecting", "connected"} : Proper([x EXCEPT !.status = s])
  BY DEF Proper, End, Quiet, Without, Disconnecting, Down, Timers

LEMMA NewProper == Proper(New)
  BY DEF Proper, End, Quiet, New, Down, Timers

\* Time passes at both ends.
LEMMA PassProper == ASSUME NEW x, Proper(x) PROVE Proper(Pass(x))
<1> DEFINE left == [t \in Timers |-> IF x.left[t] = 0 THEN 0 ELSE x.left[t] - 1]
           due == {t \in Timers : x.left[t] = 1}
<1>1. x \in End /\ Quiet(x)  BY DEF Proper
<1> DEFINE y == [x EXCEPT !.left = left]
<1>2. Pass(x) = [y EXCEPT !.due = due]
  BY <1>1 DEF Pass, End
<1>3. left \in [Timers -> Nat] /\ due \in SUBSET Timers
  BY <1>1 DEF End
<1>4. (\A t \in Timers : x.left[t] = 0) => \A t \in Timers : left[t] = 0
  OBVIOUS
<1> HIDE DEF left, due
<1>5. y \in End /\ y.left = left /\ y.status = x.status
  BY <1>1, <1>3 DEF End
<1> HIDE DEF y
<1>6. QED  BY <1>1, <1>2, <1>3, <1>4, <1>5 DEF Proper, End, Quiet

\* An end changes to a proper one.
LEMMA OneEnd ==
  ASSUME Both, NEW e \in Ends, NEW x, Proper(x), Becomes(e, x)
  PROVE  Both'
  BY DEF Both, Becomes, Proper, Quiet
-------------------------------------------------------------------------------
LEMMA Initially == ASSUME Init PROVE Inv
  BY KeepAliveAssumption, NewProper DEF Init, Inv, Ticks, Both, Proper

\* The ticks that timers are set to stay natural numbers.
LEMMA TicksStay == ASSUME Inv, Next PROVE Ticks'
<1> USE KeepAliveAssumption DEF Inv, Ticks
<1>1. ASSUME NEW k \in KeepAlives, Connect(k) \/ Connack(k) PROVE Ticks'
  BY <1>1 DEF Connect, Connack, config
<1>2. CASE Send \/ GoSilent \/ Tick
  BY <1>2 DEF Send, GoSilent, Tick, config
<1>3. CASE Posted
  BY <1>3 DEF Posted, FireSend, FireResp, FireRecv, Fire, Disconnected, Rest, config
<1>4. CASE Deliver
  BY <1>4 DEF Deliver, ServerRecv, ClientRecv, Rest, config
<1>5. CASE Closing \/ \E e \in Ends : Close(e)
  BY <1>5 DEF Closing, CloseComplete, Close, Rest, config
<1>6. QED  BY <1>1, <1>2, <1>3, <1>4, <1>5 DEF Next

\* Each handler leaves both ends proper.
LEMMA BothStay == ASSUME Inv, Next PROVE Both'
<1> USE DEF Ends
<1>0. /\ Ticks /\ Both /\ \A e \in Ends : Proper(ep[e])
      /\ interval \in Nat /\ keepAlive \in Nat /\ timeout \in Nat /\ granted \in Nat
      /\ {"send", "resp", "recv"} = Timers
  BY DEF Inv, Both, Proper, Ticks, Timers
<1>1. ASSUME NEW k \in KeepAlives, Connect(k) PROVE Both'
  <2>1. interval' \in Nat  BY <1>1, <1>0, KeepAliveAssumption DEF Connect
  <2>2. Proper([ep["client"] EXCEPT !.status = "connecting"])  BY <1>0, SmallChanges
  <2>3. Proper(Reset([ep["client"] EXCEPT !.status = "connecting"], "send", interval'))
    BY <1>0, <2>1, <2>2, ResetProper
  <2>4. QED  BY <1>1, <2>3, NewProper DEF Connect, Both, Proper
<1>2. ASSUME NEW k \in KeepAlives, Connack(k) PROVE Both'
  <2>1. Proper([ep["server"] EXCEPT !.status = "connected"])  BY <1>0, SmallChanges
  <2>2. Becomes("server", [ep["server"] EXCEPT !.status = "connected"])
    BY <1>0, <1>2 DEF Connack, Becomes, Both
  <2>3. QED  BY <1>0, <2>1, <2>2, OneEnd
<1>3. CASE Send
  <2>1. Proper(Reset(ep["client"], "send", interval))  BY <1>0, ResetProper
  <2>2. QED  BY <1>0, <1>3, <2>1, OneEnd DEF Send
<1>4. CASE FireSend
  <2> DEFINE x == Without(ep["client"], "send")
  <2>1. Proper(x)  BY <1>0, SmallChanges
  <2>2. Proper(Reset(Reset(x, "resp", timeout), "send", interval))
    BY <1>0, <2>1, ResetProper
  <2>3. QED  BY <1>0, <1>4, <2>1, <2>2, OneEnd DEF FireSend
<1>5. CASE FireResp
  <2> DEFINE x == RespTimeout(Without(ep["client"], "resp"))
  <2>1. Proper(x)  BY <1>0, SmallChanges, AsyncCloseProper, DisconnectProper DEF RespTimeout
  <2>2. Becomes("client", x)  BY <1>5 DEF FireResp, Fire
  <2>3. QED  BY <1>0, <2>1, <2>2, OneEnd
<1>6. CASE FireRecv
  <2> DEFINE x == RecvTimeout(Without(ep["server"], "recv"))
  <2>1. Proper(x)  BY <1>0, SmallChanges, AsyncCloseProper, DisconnectProper DEF RecvTimeout
  <2>2. Becomes("server", x)  BY <1>6 DEF FireRecv, Fire
  <2>3. QED  BY <1>0, <2>1, <2>2, OneEnd
<1>7. ASSUME NEW e \in Ends, Disconnected(e) \/ Close(e) \/ CloseComplete(e) PROVE Both'
  <2>1. Proper(ep[e]) /\ Proper([ep[e] EXCEPT !.disc = FALSE])  BY <1>0, SmallChanges
  <2>2. /\ Proper(AsyncClose(ep[e])) /\ Proper(Closed(ep[e]))
        /\ Proper(AsyncClose([ep[e] EXCEPT !.disc = FALSE]))
    BY <2>1, AsyncCloseProper, ClosedProper
  <2>3. QED  BY <1>0, <1>7, <2>2, OneEnd DEF Disconnected, Close, CloseComplete
<1>8. CASE ServerRecv
  <2> DEFINE x == ep["server"]
             p == Head(toServer)
             y == IF p = "connect" THEN [x EXCEPT !.status = "connecting"]
                  ELSE Disconnecting(x, p)
  <2>1. Proper(x) /\ Proper(AsyncClose(x))  BY <1>0, AsyncCloseProper
  <2>2. Proper(y)  BY <1>0, <2>1, SmallChanges
  <2>3. Grace(keepAlive) \in Nat  BY <1>0 DEF Grace
  <2>4. Proper(Reset(y, "recv", Grace(keepAlive)))  BY <1>0, <2>2, <2>3, ResetProper
  <2>5. Becomes("server", IF p = "end" THEN AsyncClose(x) ELSE Reset(y, "recv", Grace(keepAlive)))
    BY <1>8 DEF ServerRecv
  <2>6. QED  BY <1>0, <2>1, <2>4, <2>5, OneEnd
<1>9. CASE ClientRecv
  <2> DEFINE x == ep["client"]
             p == Head(toClient)
             y == CASE p = "connack"  -> [x EXCEPT !.status = "connected"]
                    [] p = "pingresp" -> [x EXCEPT !.left["resp"] = 0]
                    [] p = "end"      -> AsyncClose(x)
                    [] OTHER          -> Disconnecting(x, p)
  <2>1. Proper(x) /\ Proper(AsyncClose(x))  BY <1>0, AsyncCloseProper
  <2>2. Proper(y)
    <3>1. /\ Proper([x EXCEPT !.status = "connected"])
          /\ Proper([x EXCEPT !.left["resp"] = 0])
          /\ Proper(Disconnecting(x, p))
      BY <1>0, <2>1, SmallChanges
    <3>2. QED  BY <2>1, <3>1
  <2>3. Proper(Reset(y, "send", granted))  BY <1>0, <2>2, ResetProper
  <2>4. \/ Becomes("client", Reset(y, "send", granted))
        \/ Becomes("client", y)
    BY <1>9 DEF ClientRecv
  <2>5. QED  BY <1>0, <2>2, <2>3, <2>4, OneEnd
<1>10. CASE GoSilent
  BY <1>0, <1>10 DEF GoSilent, Both
<1>11. CASE Tick
  <2>1. \A e \in Ends : Proper(Pass(ep[e]))  BY <1>0, PassProper
  <2>2. ep' = [e \in Ends |-> Pass(ep[e])]  BY <1>11 DEF Tick
  <2>3. QED  BY <2>1, <2>2 DEF Both, Proper
<1>12. QED
  BY <1>1, <1>2, <1>3, <1>4, <1>5, <1>6, <1>7, <1>8, <1>9, <1>10, <1>11
  DEF Next, Posted, Deliver, Closing
-------------------------------------------------------------------------------
\* The invariant holds in every state.
THEOREM Invariance == Spec => []Inv
<1>1. Init => Inv  BY Initially
<1>2. Inv /\ [Next]_vars => Inv'
  <2>1. ASSUME Inv, Next PROVE Inv'  BY <2>1, TicksStay, BothStay DEF Inv
  <2>2. ASSUME Inv, UNCHANGED vars PROVE Inv'
    BY <2>2 DEF Inv, Ticks, Both, Quiet, vars, config
  <2>3. QED  BY <2>1, <2>2
<1>3. QED  BY <1>1, <1>2, PTL DEF Spec

\* A closed endpoint has no timer armed that would act upon the next connection, for all
\* keep-alives and timeouts, any number of connections, packets and callers of close
\* (close_op cancels the timers; reset_*_timer look at the status).
THEOREM ClosedIsQuiet == Spec => []NoTimerAfterClose
<1>1. Inv => NoTimerAfterClose  BY DEF Inv, Both, Quiet, NoTimerAfterClose
<1>2. QED  BY <1>1, Invariance, PTL
-------------------------------------------------------------------------------
\* The other property: the server does not time out a client that pings.  What the timers
\* of the two ends have left is related while the connection is opened and while it lives.
Packets == {"connect", "connack", "packet", "pingreq", "pingresp", "disconnect", "end"}
Client == ep["client"]
Server == ep["server"]

Under(p, queue) == \E i \in DOMAIN queue : queue[i] = p
First(p, queue) == \A i \in DOMAIN queue : queue[i] = p => i = 1
Once(p, queue) == \A i, j \in DOMAIN queue : queue[i] = p /\ queue[j] = p => i = j

\* Without a keep-alive the timer of the server is not used.
Arms ==
  /\ toServer \in Seq(Packets) /\ toClient \in Seq(Packets)
  /\ keepAlive \in KeepAlives \cup {0}
  /\ keepAlive # 0 => interval # 0
  /\ keepAlive = 0 => Server.left["recv"] = 0 /\ "recv" \notin Server.due

\* One CONNECT and one CONNACK on a connection, and the client is connected after both.
ConnectOnce ==
  /\ First("connect", toServer) /\ Once("connack", toClient)
  /\ Under("connect", toServer) =>
       Server = New /\ Client.status # "connected" /\ ~Under("connack", toClient)
  /\ Server.status = "connecting" => Client.status # "connected" /\ ~Under("connack", toClient)
  /\ Client.status = "connected" => ~Under("connack", toClient)

Timely == link = "up" /\ ~late /\ keepAlive # 0

\* No time passes from CONNECT until the client reads CONNACK, unless the client closes
\* and the server has still to read it, or the server has given up.
Early == Under("connect", toServer) \/ Server.status = "connecting" \/ Under("connack", toClient)
Opening ==
  Timely /\ Early =>
    /\ "recv" \notin Server.due
    /\ Server.status \in {"connecting", "connected"} => Server.left["recv"] = Grace(keepAlive)
    /\ \/ Under("end", toServer)
       \/ Client.left["send"] = interval /\ "send" \notin Client.due /\ Client.status # "closed"
       \/ Server.status \in Down /\ ~Under("connect", toServer)

\* From then on the timer of the server runs out after that of the client, or the server
\* has still a packet to read.
Ahead ==
  /\ Client.left["send"] <= interval
  /\ Client.left["send"] > 0 \/ "send" \in Client.due
  /\ toServer # <<>> \/ Server.left["recv"] > Client.left["send"]
Living ==
  Timely /\ interval <= keepAlive /\ Client.status = "connected" /\ Server.status = "connected" =>
    "recv" \notin Server.due /\ (Under("end", toServer) \/ Ahead)

Kept == Arms /\ ConnectOnce /\ Opening /\ Living
-------------------------------------------------------------------------------
\* What is in a queue to which a packet is added, ...
LEMMA Added ==
  ASSUME NEW q \in Seq(Packets), NEW x \in Packets
  PROVE  /\ Append(q, x) \in Seq(Packets) /\ Append(q, x) # <<>>
         /\ \A p : Under(p, Append(q, x)) <=> Under(p, q) \/ p = x
         /\ \A p : First(p, q) /\ p # x => First(p, Append(q, x))
         /\ \A p : Once(p, q) /\ (p # x \/ ~Under(p, q)) => Once(p, Append(q, x))
<1>1. /\ Append(q, x) \in Seq(Packets) /\ Append(q, x) # <<>>
      /\ DOMAIN q = 1..Len(q) /\ DOMAIN Append(q, x) = 1..(Len(q) + 1) /\ Len(q) \in Nat
      /\ Append(q, x)[Len(q) + 1] = x /\ \A i \in 1..Len(q) : Append(q, x)[i] = q[i]
  OBVIOUS
<1>2. DOMAIN Append(q, x) = DOMAIN q \cup {Len(q) + 1} /\ Len(q) + 1 \notin DOMAIN q
  BY <1>1
<1>3. QED  BY <1>1, <1>2 DEF Under, First, Once

\* ... from which the first is taken, ...
LEMMA Removed ==
  ASSUME NEW q \in Seq(Packets), q # <<>>
  PROVE  /\ Tail(q) \in Seq(Packets) /\ Head(q) \in Packets /\ Under(Head(q), q)
         /\ \A p : Under(p, q) <=> p = Head(q) \/ Under(p, Tail(q))
         /\ \A p : First(p, q) => ~Under(p, Tail(q)) /\ First(p, Tail(q))
         /\ \A p : Once(p, q) => Once(p, Tail(q)) /\ (p = Head(q) => ~Under(p, Tail(q)))
<1>1. /\ Tail(q) \in Seq(Packets) /\ Head(q) \in Packets /\ Head(q) = q[1] /\ 1 \in DOMAIN q
      /\ DOMAIN q = 1..Len(q) /\ DOMAIN Tail(q) = 1..(Len(q) - 1) /\ Len(q) \in Nat \ {0}
      /\ \A i \in 1..(Len(q) - 1) : Tail(q)[i] = q[i + 1]
  OBVIOUS
<1>2. \A i \in DOMAIN Tail(q) : i \in Nat \ {0} /\ i + 1 \in DOMAIN q /\ Tail(q)[i] = q[i + 1]
  BY <1>1
<1>3. \A i \in DOMAIN q : i = 1 \/ (i - 1 \in DOMAIN Tail(q) /\ Tail(q)[i - 1] = q[i])
  BY <1>1
<1>4. \A p : Under(p, q) <=> p = Head(q) \/ Under(p, Tail(q))
  BY <1>1, <1>2, <1>3 DEF Under
<1>5. \A p : First(p, q) => ~Under(p, Tail(q)) /\ First(p, Tail(q))
  BY <1>2 DEF First, Under
<1>6. ASSUME NEW p, Once(p, q) PROVE Once(p, Tail(q)) /\ (p = Head(q) => ~Under(p, Tail(q)))
  <2>1. Once(p, Tail(q))
    BY <1>2, <1>6 DEF Once
  <2>2. ASSUME NEW i \in DOMAIN Tail(q), Tail(q)[i] = p, p = Head(q) PROVE FALSE
    BY <1>1, <1>2, <1>6, <2>2 DEF Once
  <2>3. QED  BY <2>1, <2>2 DEF Under
<1>7. QED  BY <1>1, <1>4, <1>5, <1>6 DEF Under

\* ... and of which at most the first is left.
LEMMA Left ==
  ASSUME NEW q \in Seq(Packets), NEW r \in Read(q)
  PROVE  r \in Seq(Packets) /\ \A p : (Under(p, r) => Under(p, q)) /\ First(p, r) /\ Once(p, r)
<1>1. CASE r = <<>>
  <2>1. DOMAIN <<>> = {} /\ <<>> \in Seq(Packets)
    OBVIOUS
  <2>2. QED  BY <1>1, <2>1 DEF Under, First, Once
<1>2. CASE \E i \in DOMAIN q \cap {1} : r = <<q[i]>>
  <2>1. 1 \in DOMAIN q /\ r = <<q[1]>> /\ q[1] \in Packets
    BY <1>2
  <2>2. DOMAIN <<q[1]>> = {1} /\ <<q[1]>>[1] = q[1] /\ <<q[1]>> \in Seq(Packets)
    BY <2>1
  <2>3. QED  BY <2>1, <2>2 DEF Under, First, Once
<1>3. QED  BY <1>1, <1>2 DEF Read

LEMMA Nothing ==
  /\ <<>> \in Seq(Packets) /\ \A p : ~Under(p, <<>>) /\ First(p, <<>>) /\ Once(p, <<>>)
  /\ \A p \in Packets : /\ <<p>> \in Seq(Packets)
                        /\ \A x : (Under(x, <<p>>) <=> x = p) /\ First(x, <<p>>) /\ Once(x, <<p>>)
<1>1. DOMAIN <<>> = {} /\ <<>> \in Seq(Packets)
  OBVIOUS
<1>2. \A p \in Packets : DOMAIN <<p>> = {1} /\ <<p>>[1] = p /\ <<p>> \in Seq(Packets)
  OBVIOUS
<1>3. QED  BY <1>1, <1>2 DEF Under, First, Once

\* The grace of the server.
LEMMA Longer == ASSUME NEW k \in KeepAlives, k # 0 PROVE Grace(k) \in Nat /\ Grace(k) > k
<1>1. k \in Nat /\ k > 1
  BY KeepAliveAssumption, TickAssumption
<1>2. \A n \in Nat : n > 1 => (n * 3) \div 2 \in Nat /\ (n * 3) \div 2 > n
  OBVIOUS
<1>3. QED  BY <1>1, <1>2 DEF Grace
-------------------------------------------------------------------------------
\* What the functions on an end do to its status and its timers.
LEMMA ResetTimers ==
  ASSUME NEW x, NEW t \in Timers, NEW ticks \in Nat, Proper(x)
  PROVE  /\ Reset(x, t, ticks).status = x.status /\ Reset(x, t, ticks).due = x.due
         /\ Reset(x, t, ticks).disc = x.disc
         /\ \A u \in Timers : u # t => Reset(x, t, ticks).left[u] = x.left[u]
         /\ ticks # 0 /\ x.status \notin Down => Reset(x, t, ticks).left[t] = ticks
         /\ ticks = 0 => Reset(x, t, ticks) = x
  BY DEF Proper, End, Reset

\* An end that begins to close, or sends DISCONNECT for it.
Gives(x, y) ==
  /\ y.status \in Down /\ (y.status = "closed" => x.status = "closed")
  /\ y.left = x.left /\ y.due \subseteq x.due
LEMMA Giving ==
  ASSUME NEW x, Proper(x), NEW t \in Timers
  PROVE  /\ Gives(x, AsyncClose(x)) /\ Gives(x, AsyncClose([x EXCEPT !.disc = FALSE]))
         /\ Gives(x, DisconnectThenClose(Without(x, t))) /\ Gives(x, AsyncClose(Without(x, t)))
<1>1. ASSUME NEW y, Proper(y) PROVE Gives(y, AsyncClose(y)) /\ Gives(y, DisconnectThenClose(y))
  <2>1. y.status \in {"connecting", "connected", "disconnecting", "closing", "closed"}
    BY <1>1 DEF Proper, End, Down
  <2>2. Gives(y, AsyncClose(y))
    BY <1>1, <2>1 DEF Gives, AsyncClose, Proper, End, Down
  <2>3. QED  BY <1>1, <2>2 DEF DisconnectThenClose, Gives, Proper, End, Down
<1>2. Proper([x EXCEPT !.disc = FALSE]) /\ Proper(Without(x, t))
  BY SmallChanges
<1>3. /\ [x EXCEPT !.disc = FALSE].status = x.status /\ [x EXCEPT !.disc = FALSE].left = x.left
      /\ [x EXCEPT !.disc = FALSE].due = x.due
      /\ Without(x, t).status = x.status /\ Without(x, t).left = x.left
      /\ Without(x, t).due \subseteq x.due
  BY DEF Without, Proper, End
<1>4. QED  BY <1>1, <1>2, <1>3 DEF Gives
-------------------------------------------------------------------------------
\* Each action keeps the relation.  What does not concern a step is left as it is.
Still == UNCHANGED <<keepAlive, interval, link, late>>

LEMMA Known ==
  ASSUME Inv
  PROVE  /\ Proper(Client) /\ Proper(Server) /\ {"send", "resp", "recv"} = Timers
         /\ Client.left["send"] \in Nat /\ Server.left["recv"] \in Nat
         /\ interval \in Nat /\ keepAlive \in Nat /\ granted \in Nat /\ timeout \in Nat
         /\ {"client", "server"} = Ends /\ {"connecting", "connected"} \cap Down = {}
  BY DEF Inv, Ticks, Both, Proper, Client, Server, Ends, Timers, End, Down

LEMMA Becoming ==
  ASSUME Inv, NEW x
  PROVE  /\ Becomes("client", x) => Client' = x /\ Server' = Server
         /\ Becomes("server", x) => Server' = x /\ Client' = Client
  BY DEF Inv, Both, Becomes, Client, Server, Ends

\* A packet that is transmitted to the server, or to the client.
LEMMA Transmitted ==
  ASSUME NEW q \in Seq(Packets), NEW p \in Packets
  PROVE  /\ Transmit(q, p) \in Seq(Packets)
         /\ \A x : Under(x, Transmit(q, p)) <=> Under(x, q) \/ (x = p /\ link = "up")
         /\ link = "up" => Transmit(q, p) # <<>>
         /\ \A x : First(x, q) /\ x # p => First(x, Transmit(q, p))
         /\ \A x : Once(x, q) /\ (x # p \/ ~Under(x, q)) => Once(x, Transmit(q, p))
  BY Added DEF Transmit

\* The client gives up, or its handler finds nothing to do.
LEMMA ClientGivesUp ==
  ASSUME Inv, Kept, Still, Server' = Server, toClient' = toClient,
         toServer' = toServer \/ toServer' = Transmit(toServer, "disconnect"),
         Client'.status # "connected", Client'.status = "closed" => Client.status = "closed",
         Client'.left = Client.left, Client'.due \subseteq Client.due
  PROVE  Kept'
<1>1. /\ toServer' \in Seq(Packets)
      /\ \A p : p # "disconnect" => (Under(p, toServer') <=> Under(p, toServer))
      /\ First("connect", toServer')
  BY Transmitted DEF Kept, Arms, ConnectOnce, Packets
<1>2. Arms'
  BY <1>1 DEF Kept, Arms, Still
<1>3. ConnectOnce'
  BY <1>1 DEF Kept, ConnectOnce
<1>4. Opening'
  BY <1>1 DEF Kept, Opening, Timely, Early, Still
<1>5. Living'
  BY DEF Living
<1>6. QED  BY <1>2, <1>3, <1>4, <1>5 DEF Kept

\* The client sends a packet and sets its timer.
LEMMA ClientSends ==
  ASSUME Inv, Kept, Still, Server' = Server, toClient' = toClient,
         NEW p \in {"packet", "pingreq"}, toServer' = Transmit(toServer, p),
         Client.status = "connected", Client'.status = "connected",
         interval # 0 => Client'.left["send"] = interval
  PROVE  Kept'
<1>0. interval \in Nat
  BY Known
<1>1. /\ toServer' \in Seq(Packets) /\ (link = "up" => toServer' # <<>>)
      /\ \A x : x # p => (Under(x, toServer') <=> Under(x, toServer))
      /\ First("connect", toServer')
  BY Transmitted DEF Kept, Arms, ConnectOnce, Packets
<1>2. Arms'
  BY <1>1 DEF Kept, Arms, Still
<1>3. ConnectOnce'
  BY <1>1 DEF Kept, ConnectOnce
<1>4. ~Early'
  BY <1>1 DEF Kept, ConnectOnce, Early
<1>5. Living'
  <2> SUFFICES ASSUME Timely', interval' <= keepAlive', Server'.status = "connected"
      PROVE  "recv" \notin Server'.due /\ Ahead'
    BY DEF Living
  <2>1. Timely /\ interval # 0 /\ link = "up"
    BY DEF Timely, Still, Kept, Arms
  <2>2. "recv" \notin Server.due
    BY <2>1 DEF Kept, Living, Still
  <2>3. QED  BY <1>0, <1>1, <2>1, <2>2 DEF Ahead, Still
<1>6. QED  BY <1>2, <1>3, <1>4, <1>5 DEF Kept, Opening

\* The server gives up, and may send DISCONNECT.
LEMMA ServerGivesUp ==
  ASSUME Inv, Kept, Still, Client' = Client, toServer' = toServer, Server # New,
         toClient' = toClient \/ toClient' = Transmit(toClient, "disconnect"),
         Server'.status \in Down,
         Server'.left = Server.left, Server'.due \subseteq Server.due
  PROVE  Kept'
<1>0. {"connecting", "connected"} \cap Down = {}
  BY Known
<1>1. /\ toClient' \in Seq(Packets)
      /\ \A p : p # "disconnect" => (Under(p, toClient') <=> Under(p, toClient))
      /\ Once("connack", toClient')
  BY Transmitted DEF Kept, Arms, ConnectOnce, Packets
<1>2. Arms'
  BY <1>1 DEF Kept, Arms, Still
<1>3. ConnectOnce' /\ ~Under("connect", toServer)
  BY <1>0, <1>1 DEF Kept, ConnectOnce
<1>4. Opening'
  BY <1>0, <1>1, <1>3 DEF Kept, Opening, Timely, Early, Still
<1>5. Living'
  BY <1>0 DEF Living
<1>6. QED  BY <1>2, <1>3, <1>4, <1>5 DEF Kept

\* The client is closed: the server will read the end of the stream.
LEMMA ClientCloses ==
  ASSUME Inv, Kept, Still, Server' = Server, Client'.status = "closed",
         toServer' = Transmit(toServer, "end"), toClient' \in Read(toClient)
  PROVE  Kept'
<1>1. /\ toServer' \in Seq(Packets) /\ (link = "up" => Under("end", toServer'))
      /\ \A x : x # "end" => (Under(x, toServer') <=> Under(x, toServer))
      /\ First("connect", toServer')
  BY Transmitted DEF Kept, Arms, ConnectOnce, Packets
<1>2. toClient' \in Seq(Packets) /\ Once("connack", toClient')
      /\ (Under("connack", toClient') => Under("connack", toClient))
  BY Left DEF Kept, Arms
<1>3. Arms'
  BY <1>1, <1>2 DEF Kept, Arms, Still
<1>4. ConnectOnce'
  BY <1>1, <1>2 DEF Kept, ConnectOnce
<1>5. Opening'
  BY <1>1, <1>2 DEF Kept, Opening, Timely, Early, Still
<1>6. Living'
  BY DEF Living
<1>7. QED  BY <1>3, <1>4, <1>5, <1>6 DEF Kept

\* The server is closed.
LEMMA ServerCloses ==
  ASSUME Inv, Kept, Still, Client' = Client, Server'.status = "closed", Server # New,
         Server'.left["recv"] = 0, Server'.due = Server.due,
         toServer' \in Read(toServer), toClient' = Transmit(toClient, "end")
  PROVE  Kept'
<1>1. /\ toClient' \in Seq(Packets) /\ Once("connack", toClient')
      /\ Under("connack", toClient') <=> Under("connack", toClient)
  BY Transmitted DEF Kept, Arms, ConnectOnce, Packets
<1>2. /\ toServer' \in Seq(Packets) /\ First("connect", toServer') /\ ~Under("connect", toServer)
      /\ ~Under("connect", toServer')
  BY Left DEF Kept, Arms, ConnectOnce
<1>3. Arms'
  BY <1>1, <1>2 DEF Kept, Arms, Still
<1>4. ConnectOnce'
  BY <1>1, <1>2 DEF Kept, ConnectOnce
<1>5. Opening'
  BY <1>1, <1>2 DEF Kept, Opening, Timely, Early, Still, Down
<1>6. Living'
  BY DEF Living
<1>7. QED  BY <1>3, <1>4, <1>5, <1>6 DEF Kept

\* The server reads a packet, which sets its timer, or the end of the stream.
LEMMA ServerReads == ASSUME Inv, Kept, ServerRecv PROVE Kept'
<1> DEFINE p == Head(toServer)
           y == IF p = "connect" THEN [Server EXCEPT !.status = "connecting"]
                ELSE Disconnecting(Server, p)
<1>1. /\ Proper(Client) /\ Proper(Server) /\ {"send", "resp", "recv"} = Timers
      /\ interval \in Nat /\ keepAlive \in Nat /\ {"connecting", "connected"} \cap Down = {}
      /\ Client.left["send"] \in Nat
  BY Known
<1>2. /\ toServer \in Seq(Packets) /\ toServer # <<>> /\ toServer' = Tail(toServer)
      /\ toClient \in Seq(Packets) /\ Still
      /\ toClient' = toClient \/ toClient' = Transmit(toClient, "pingresp")
  BY DEF Kept, Arms, ServerRecv, Rest, Still
<1>3. /\ toServer' \in Seq(Packets) /\ p \in Packets /\ Under(p, toServer)
      /\ \A x : Under(x, toServer) <=> x = p \/ Under(x, toServer')
      /\ First("connect", toServer') /\ ~Under("connect", toServer')
  BY <1>2, Removed DEF Kept, ConnectOnce
<1>4. /\ toClient' \in Seq(Packets) /\ Once("connack", toClient')
      /\ Under("connack", toClient') <=> Under("connack", toClient)
  BY <1>2, Transmitted DEF Kept, ConnectOnce, Packets
<1>5. Client' = Client /\ Server' = IF p = "end" THEN AsyncClose(Server)
                                    ELSE Reset(y, "recv", Grace(keepAlive))
  BY Becoming DEF ServerRecv, Server
<1>6. Grace(keepAlive) \in Nat /\ (keepAlive # 0 => Grace(keepAlive) > keepAlive)
      /\ (keepAlive = 0 => Grace(keepAlive) = 0)
  BY <1>1, Longer DEF Kept, Arms, Grace
<1>7. Proper(y) /\ y.left = Server.left /\ y.due = Server.due
      /\ y.status = IF p = "connect" THEN "connecting"
                    ELSE IF p = "disconnect" THEN "disconnecting" ELSE Server.status
  <2>1. Proper([Server EXCEPT !.status = "connecting"]) /\ Proper(Disconnecting(Server, p))
    BY <1>1, SmallChanges
  <2>2. QED  BY <1>1, <2>1 DEF Disconnecting, Proper, End
<1> HIDE DEF y
<1>8. Server'.due \subseteq Server.due
      /\ (p = "end" => Server'.status \in Down /\ Server'.left = Server.left)
      /\ (p # "end" => Server'.status = y.status /\ Server'.due = Server.due)
      /\ (p # "end" /\ keepAlive = 0 => Server'.left = Server.left)
      /\ (p # "end" /\ keepAlive # 0 /\ y.status \notin Down =>
            Server'.left["recv"] = Grace(keepAlive))
  <2>1. Gives(Server, AsyncClose(Server))
    BY <1>1, Giving
  <2>2. CASE p = "end"
    BY <1>5, <2>1, <2>2 DEF Gives
  <2>3. CASE p # "end"
    <3>1. Server' = Reset(y, "recv", Grace(keepAlive))
      BY <1>5, <2>3
    <3>2. /\ Server'.status = y.status /\ Server'.due = y.due
          /\ Grace(keepAlive) # 0 /\ y.status \notin Down =>
               Server'.left["recv"] = Grace(keepAlive)
          /\ Grace(keepAlive) = 0 => Server' = y
      BY <1>1, <1>6, <1>7, <3>1, ResetTimers
    <3>3. keepAlive # 0 => Grace(keepAlive) # 0
      BY <1>1, <1>6
    <3>4. QED  BY <1>6, <1>7, <2>3, <3>2, <3>3
  <2>4. QED  BY <2>2, <2>3
<1>9. p = "connect" =>
        Server = New /\ Client.status # "connected" /\ ~Under("connack", toClient)
  BY <1>3 DEF Kept, ConnectOnce
<1>10. Arms'
  BY <1>2, <1>3, <1>4, <1>8 DEF Kept, Arms, Still
<1>11. Server'.status = "connecting" => p = "connect" \/ Server.status = "connecting"
  BY <1>1, <1>7, <1>8
<1>12. ConnectOnce'
  BY <1>3, <1>4, <1>5, <1>9, <1>11 DEF Kept, ConnectOnce
<1>13. Opening'
  <2> SUFFICES ASSUME Timely', Early' PROVE Opening'
    BY DEF Opening
  <2>1. Timely /\ Early
    BY <1>2, <1>3, <1>4, <1>11 DEF Timely, Early, Still
  <2>2. "recv" \notin Server'.due
    BY <1>8, <2>1 DEF Kept, Opening
  <2>3. Server'.status \in {"connecting", "connected"} => Server'.left["recv"] = Grace(keepAlive)
    BY <1>1, <1>8, <2>1 DEF Timely
  <2>4. \/ Under("end", toServer')
        \/ Client.left["send"] = interval /\ "send" \notin Client.due /\ Client.status # "closed"
        \/ Server'.status \in Down
    <3>1. CASE p = "end"
      BY <1>8, <3>1
    <3>2. CASE p # "end" /\ Server.status \in Down /\ ~Under("connect", toServer)
      <4>1. p # "connect" /\ "disconnecting" \in Down
        BY <1>3, <3>2 DEF Down
      <4>2. QED  BY <1>7, <1>8, <3>2, <4>1
    <3>3. QED  BY <1>3, <2>1, <3>1, <3>2 DEF Kept, Opening
  <2>5. QED  BY <1>2, <1>3, <1>5, <2>2, <2>3, <2>4 DEF Opening, Still
<1>14. Living'
  <2> SUFFICES ASSUME Timely', interval' <= keepAlive', Client'.status = "connected",
                      Server'.status = "connected"
      PROVE  "recv" \notin Server'.due /\ (Under("end", toServer') \/ Ahead')
    BY DEF Living
  <2>1. /\ Timely /\ interval <= keepAlive /\ Client.status = "connected" /\ p # "end"
        /\ keepAlive # 0 /\ Server.status = "connected"
    BY <1>1, <1>2, <1>5, <1>7, <1>8, <1>9 DEF Timely, Still, Down
  <2>2. "recv" \notin Server.due /\ (Under("end", toServer) \/ Ahead)
    BY <2>1 DEF Kept, Living
  <2>3. Server'.left["recv"] = Grace(keepAlive) /\ Server'.due = Server.due
    BY <1>1, <1>7, <1>8, <1>9, <2>1
  <2>4. CASE Ahead
    <3>1. Server'.left["recv"] > Client.left["send"]
      BY <1>1, <1>6, <2>1, <2>3, <2>4 DEF Ahead
    <3>2. QED  BY <1>2, <1>5, <2>2, <2>3, <2>4, <3>1 DEF Ahead, Still
  <2>5. QED  BY <1>3, <2>1, <2>2, <2>3, <2>4
<1>15. QED  BY <1>10, <1>12, <1>13, <1>14 DEF Kept

\* The client reads a packet: with CONNACK it is connected, and its timer is set as CONNECT
\* or CONNACK says.
LEMMA ClientReads == ASSUME Inv, Kept, ClientRecv PROVE Kept'
<1> DEFINE p == Head(toClient)
           y == CASE p = "connack"  -> [Client EXCEPT !.status = "connected"]
                  [] p = "pingresp" -> [Client EXCEPT !.left["resp"] = 0]
                  [] p = "end"      -> AsyncClose(Client)
                  [] OTHER          -> Disconnecting(Client, p)
<1>1. /\ Proper(Client) /\ Proper(Server) /\ {"send", "resp", "recv"} = Timers
      /\ interval \in Nat /\ keepAlive \in Nat /\ granted \in Nat
      /\ {"connecting", "connected"} \cap Down = {}
  BY Known
<1>2. /\ toServer \in Seq(Packets) /\ toClient # <<>> /\ toClient' = Tail(toClient)
      /\ toClient \in Seq(Packets) /\ toServer' = toServer
      /\ UNCHANGED <<keepAlive, link, late>>
  BY DEF Kept, Arms, ClientRecv
<1>3. /\ toClient' \in Seq(Packets) /\ p \in Packets /\ Under(p, toClient)
      /\ \A x : Under(x, toClient) <=> x = p \/ Under(x, toClient')
      /\ Once("connack", toClient') /\ (p = "connack" => ~Under("connack", toClient'))
  BY <1>2, Removed DEF Kept, ConnectOnce
<1>4. /\ Proper(y) /\ y.due = Client.due /\ y.left["send"] = Client.left["send"]
      /\ p = "connack" => y.status = "connected"
      /\ p # "connack" => \/ y.status = Client.status
                          \/ y.status \in Down \ {"closed"}
  <2>1. /\ Proper([Client EXCEPT !.status = "connected"]) /\ Proper(Disconnecting(Client, p))
        /\ Proper([Client EXCEPT !.left["resp"] = 0]) /\ Proper(AsyncClose(Client))
    BY <1>1, SmallChanges, AsyncCloseProper
  <2>2. CASE p = "connack"
    BY <1>1, <2>1, <2>2 DEF Proper, End
  <2>3. CASE p = "pingresp"
    <3>1. y = [Client EXCEPT !.left["resp"] = 0]
      BY <2>3
    <3>2. QED  BY <1>1, <2>1, <2>3, <3>1 DEF Proper, End
  <2>4. CASE p = "end"
    <3>1. y = AsyncClose(Client)
      BY <2>4
    <3>2. QED  BY <1>1, <2>1, <2>4, <3>1 DEF AsyncClose, Proper, End, Down
  <2>5. CASE p \notin {"connack", "pingresp", "end"}
    <3>1. y = Disconnecting(Client, p)
      BY <2>5
    <3>2. QED  BY <1>1, <2>1, <2>5, <3>1 DEF Disconnecting, Proper, End, Down
  <2>6. QED  BY <2>2, <2>3, <2>4, <2>5
<1>5. /\ Server' = Server
      /\ IF p = "connack" /\ granted # 0
         THEN interval' = granted /\ Client' = Reset(y, "send", granted)
         ELSE interval' = interval /\ Client' = y
  <2>1. CASE p = "connack" /\ granted # 0
    <3>1. interval' = granted /\ Becomes("client", Reset(y, "send", granted))
      BY <2>1 DEF ClientRecv, Client
    <3>2. QED  BY <2>1, <3>1, Becoming
  <2>2. CASE ~(p = "connack" /\ granted # 0)
    <3>1. interval' = interval /\ Becomes("client", y)
      BY <2>2 DEF ClientRecv, Client
    <3>2. QED  BY <2>2, <3>1, Becoming
  <2>3. QED  BY <2>1, <2>2
<1> HIDE DEF y
<1>6. /\ Client'.status = y.status /\ Client'.due = Client.due /\ interval' \in Nat
      /\ p = "connack" /\ granted # 0 => interval' = granted /\ Client'.left["send"] = granted
      /\ ~(p = "connack" /\ granted # 0) =>
           interval' = interval /\ Client'.left["send"] = Client.left["send"]
  BY <1>1, <1>4, <1>5, ResetTimers
<1>7. Arms'
  BY <1>2, <1>3, <1>5, <1>6 DEF Kept, Arms
<1>8. ConnectOnce'
  <2>1. p = "connack" => ~Under("connect", toServer) /\ Server.status # "connecting"
    BY <1>3 DEF Kept, ConnectOnce
  <2>2. Client'.status = "connected" => p = "connack" \/ Client.status = "connected"
    BY <1>1, <1>4, <1>6
  <2>3. QED  BY <1>2, <1>3, <1>5, <2>1, <2>2 DEF Kept, ConnectOnce
<1>9. Opening'
  <2> SUFFICES ASSUME Timely', Early' PROVE Opening'
    BY DEF Opening
  <2>1. Timely /\ Early
    BY <1>2, <1>3, <1>5 DEF Timely, Early
  <2>2. p # "connack"
    BY <1>2, <1>3, <1>5 DEF Kept, ConnectOnce, Early
  <2>3. Client'.status = "closed" => Client.status = "closed"
    BY <1>4, <1>6, <2>2
  <2>4. QED  BY <1>2, <1>5, <1>6, <2>1, <2>2, <2>3 DEF Kept, Opening
<1>10. Living'
  <2> SUFFICES ASSUME Timely', interval' <= keepAlive', Client'.status = "connected",
                      Server'.status = "connected"
      PROVE  "recv" \notin Server'.due /\ (Under("end", toServer') \/ Ahead')
    BY DEF Living
  <2>1. Timely /\ Server.status = "connected" /\ keepAlive # 0 /\ interval # 0
    BY <1>2, <1>5 DEF Timely, Kept, Arms
  <2>2. CASE p = "connack"
    <3>1. Early
      BY <1>3, <2>2 DEF Early
    <3>2. /\ "recv" \notin Server.due /\ Server.left["recv"] = Grace(keepAlive)
          /\ Under("end", toServer) \/ Client.left["send"] = interval
      BY <1>1, <2>1, <3>1 DEF Kept, Opening
    <3>3. Grace(keepAlive) > keepAlive /\ Grace(keepAlive) \in Nat
      BY <2>1, Longer DEF Kept, Arms
    <3>4. Under("end", toServer) \/ Client'.left["send"] = interval'
      BY <1>6, <3>2
    <3>5. interval' # 0
      BY <1>6, <2>1
    <3>6. CASE Client'.left["send"] = interval'
      <4>1. Client'.left["send"] > 0 /\ Client'.left["send"] <= interval'
            /\ Server'.left["recv"] > Client'.left["send"]
        BY <1>1, <1>2, <1>5, <1>6, <3>2, <3>3, <3>5, <3>6
      <4>2. QED  BY <1>5, <3>2, <4>1 DEF Ahead
    <3>7. QED  BY <1>2, <1>5, <3>2, <3>4, <3>6
  <2>3. CASE p # "connack"
    <3>1. Client.status = "connected" /\ interval' = interval
      BY <1>1, <1>4, <1>6, <2>3
    <3>2. "recv" \notin Server.due /\ (Under("end", toServer) \/ Ahead)
      BY <1>2, <2>1, <3>1 DEF Kept, Living
    <3>3. QED  BY <1>2, <1>5, <1>6, <2>3, <3>2 DEF Ahead
  <2>4. QED  BY <2>2, <2>3
<1>11. QED  BY <1>7, <1>8, <1>9, <1>10 DEF Kept

\* A new connection.
LEMMA ConnectKeeps == ASSUME Inv, Kept, NEW k \in KeepAlives, Connect(k) PROVE Kept'
<1>1. /\ Proper(Client) /\ {"send", "resp", "recv"} = Timers /\ interval \in Nat /\ k \in Nat
      /\ Ends = {"client", "server"} /\ "connecting" \notin Down
  BY Known, KeepAliveAssumption
<1>2. /\ keepAlive' = k /\ interval' = (IF interval = 0 THEN k ELSE interval)
      /\ toClient' = <<>> /\ toServer' = <<"connect">> /\ Client.due = {}
  BY <1>1 DEF Connect, Client
<1>3. /\ Client' = Reset([Client EXCEPT !.status = "connecting"], "send", interval')
      /\ Server' = New
  BY DEF Connect, Client, Server
<1>4. Proper([Client EXCEPT !.status = "connecting"]) /\ interval' \in Nat
  BY <1>1, <1>2, SmallChanges
<1>5. /\ Client'.status = "connecting" /\ Client'.due = {}
      /\ interval' # 0 => Client'.left["send"] = interval'
  <2>1. /\ [Client EXCEPT !.status = "connecting"].status = "connecting"
        /\ [Client EXCEPT !.status = "connecting"].due = {}
    BY <1>1, <1>2 DEF Proper, End
  <2> DEFINE x == [Client EXCEPT !.status = "connecting"]
  <2>2. Client' = Reset(x, "send", interval') /\ Proper(x) /\ x.due = {}
        /\ x.status = "connecting" /\ x.status \notin Down /\ "send" \in Timers
    BY <1>1, <1>3, <1>4, <2>1
  <2> HIDE DEF x
  <2>3. QED  BY <1>4, <2>2, ResetTimers
<1>6. Server'.status = "closed" /\ Server'.due = {} /\ Server'.left["recv"] = 0
  BY <1>1, <1>3 DEF New
<1>7. /\ toServer' \in Seq(Packets) /\ toClient' \in Seq(Packets)
      /\ First("connect", toServer') /\ Once("connack", toClient') /\ ~Under("connack", toClient')
  BY <1>2, Nothing DEF Packets
<1>8. Arms'
  BY <1>1, <1>2, <1>6, <1>7 DEF Arms
<1>9. ConnectOnce'
  BY <1>3, <1>5, <1>6, <1>7 DEF ConnectOnce
<1>10. Opening' /\ Living'
  BY <1>1, <1>2, <1>5, <1>6 DEF Opening, Living, Timely
<1>11. QED  BY <1>8, <1>9, <1>10 DEF Kept

\* CONNACK.
LEMMA ConnackKeeps == ASSUME Inv, Kept, NEW k \in KeepAlives, Connack(k) PROVE Kept'
<1>1. Proper(Server) /\ Server.status = "connecting" /\ {"connecting", "connected"} \cap Down = {}
  BY Known DEF Connack, Server
<1>2. Becomes("server", [Server EXCEPT !.status = "connected"]) /\ Still
      /\ toServer' = toServer /\ toClient' = Transmit(toClient, "connack")
  BY DEF Connack, Out, Becomes, Server, Still, Inv, Both, Ends
<1>3. /\ Client' = Client /\ Server'.status = "connected"
      /\ Server'.left = Server.left /\ Server'.due = Server.due
  BY <1>1, <1>2, Becoming DEF Proper, End
<1>4. Client.status # "connected" /\ ~Under("connack", toClient)
  BY <1>1 DEF Kept, ConnectOnce
<1>5. ~Under("connect", toServer)
  BY <1>1 DEF Kept, ConnectOnce, New
<1>6. toClient' \in Seq(Packets) /\ Once("connack", toClient')
  BY <1>2, <1>4, Transmitted DEF Kept, Arms, ConnectOnce, Packets
<1>7. Arms'
  BY <1>2, <1>3, <1>6 DEF Kept, Arms, Still
<1>8. ConnectOnce'
  BY <1>2, <1>3, <1>4, <1>5, <1>6 DEF Kept, ConnectOnce
<1>9. Opening'
  BY <1>1, <1>2, <1>3, <1>5 DEF Kept, Opening, Timely, Early, Still
<1>10. Living'
  BY <1>3, <1>4 DEF Living
<1>11. QED  BY <1>7, <1>8, <1>9, <1>10 DEF Kept

\* Nothing is said of a link that is silent.
LEMMA SilentKeeps == ASSUME Inv, Kept, GoSilent PROVE Kept'
<1>1. /\ Client' = Client /\ Server' = Server /\ UNCHANGED <<keepAlive, interval>>
      /\ toServer' = <<>> /\ toClient' = <<>> /\ link' = "silent"
  BY DEF GoSilent, Client, Server
<1>2. Arms' /\ ConnectOnce'
  BY <1>1, Nothing DEF Kept, Arms, ConnectOnce
<1>3. QED  BY <1>1, <1>2 DEF Kept, Opening, Living, Timely

\* Time passes when nothing is under way.
LEMMA TickKeeps == ASSUME Inv, Kept, Tick PROVE Kept'
<1>1. /\ Proper(Client) /\ Proper(Server) /\ {"send", "resp", "recv"} = Timers
      /\ interval \in Nat /\ Ends = {"client", "server"}
      /\ Client.left["send"] \in Nat /\ Server.left["recv"] \in Nat
  BY Known
<1>2. /\ toServer = <<>> /\ toClient = <<>> /\ toServer' = toServer /\ toClient' = toClient
      /\ late' = (late \/ Server.status = "connecting") /\ Client.due = {}
      /\ UNCHANGED <<keepAlive, interval, link>>
      /\ Client' = Pass(Client) /\ Server' = Pass(Server)
  BY <1>1 DEF Tick, NothingOut, Client, Server
<1>3. \A p : ~Under(p, toServer) /\ ~Under(p, toClient)
  BY <1>2, Nothing
<1>4. ASSUME NEW x, Proper(x), NEW t \in Timers
      PROVE  /\ Pass(x).status = x.status
             /\ Pass(x).left[t] = IF x.left[t] = 0 THEN 0 ELSE x.left[t] - 1
             /\ t \in Pass(x).due <=> x.left[t] = 1
  BY <1>4 DEF Pass, Proper, End
<1>5. /\ Client'.status = Client.status /\ Server'.status = Server.status
      /\ Client'.left["send"] = IF Client.left["send"] = 0 THEN 0 ELSE Client.left["send"] - 1
      /\ Server'.left["recv"] = IF Server.left["recv"] = 0 THEN 0 ELSE Server.left["recv"] - 1
      /\ "send" \in Client'.due <=> Client.left["send"] = 1
      /\ "recv" \in Server'.due <=> Server.left["recv"] = 1
  BY <1>1, <1>2, <1>4
<1>6. Arms'
  BY <1>2, <1>5 DEF Kept, Arms
<1>7. ConnectOnce'
  BY <1>2, <1>3, <1>5 DEF Kept, ConnectOnce
<1>8. ~(Timely' /\ Early')
  BY <1>2, <1>3, <1>5 DEF Timely, Early
<1>9. Living'
  <2> SUFFICES ASSUME Timely', interval' <= keepAlive', Client'.status = "connected",
                      Server'.status = "connected"
      PROVE  "recv" \notin Server'.due /\ Ahead'
    BY DEF Living
  <2>1. Timely /\ interval <= keepAlive
    BY <1>2 DEF Timely
  <2>2. Ahead
    BY <1>3, <1>5, <2>1 DEF Kept, Living
  <2>3. /\ Client.left["send"] > 0 /\ Client.left["send"] <= interval
        /\ Server.left["recv"] > Client.left["send"]
    BY <1>2, <2>2 DEF Ahead
  <2>4. "recv" \notin Server'.due /\ Server'.left["recv"] > Client'.left["send"]
        /\ Client'.left["send"] <= interval
        /\ (Client'.left["send"] > 0 \/ "send" \in Client'.due)
    BY <1>1, <1>5, <2>3
  <2>5. QED  BY <1>2, <2>4 DEF Ahead
<1>10. QED  BY <1>6, <1>7, <1>8, <1>9 DEF Kept, Opening
-------------------------------------------------------------------------------
LEMMA KeptAtFirst == ASSUME Init PROVE Kept
<1>1. toServer = <<>> /\ toClient = <<>> /\ Client = New /\ Server = New /\ keepAlive = 0
  BY DEF Init, Client, Server, Ends
<1>2. New.status = "closed" /\ New.left["recv"] = 0 /\ New.due = {}
  BY DEF New, Timers
<1>3. Arms /\ ConnectOnce
  BY <1>1, <1>2, Nothing DEF Arms, ConnectOnce
<1>4. QED  BY <1>1, <1>3 DEF Kept, Opening, Living, Timely

LEMMA KeptNext == ASSUME Inv, Kept, Next PROVE Kept'
<1>0. /\ Proper(Client) /\ Proper(Server) /\ {"send", "resp", "recv"} = Timers
      /\ interval \in Nat /\ timeout \in Nat /\ {"connecting", "connected"} \cap Down = {}
      /\ New.due = {} /\ New.closes = 0 /\ ~New.disc /\ New.status = "closed"
  BY Known DEF New
<1>1. ASSUME NEW k \in KeepAlives, Connect(k) \/ Connack(k) PROVE Kept'
  BY <1>1, ConnectKeeps, ConnackKeeps
<1>2. CASE Send
  <2>1. Becomes("client", Reset(Client, "send", interval)) /\ Still /\ Client.status = "connected"
        /\ toServer' = Transmit(toServer, "packet") /\ toClient' = toClient
    BY <1>2 DEF Send, Out, Client, Still
  <2>2. QED  BY <1>0, <2>1, Becoming, ResetTimers, ClientSends
<1>3. CASE FireSend
  <2> DEFINE x == Without(Client, "send")
  <2>1. /\ Proper(x) /\ Still /\ toClient' = toClient /\ x.status = Client.status
        /\ x.left = Client.left /\ x.due \subseteq Client.due
    <3>1. Proper(x)
      BY <1>0, SmallChanges
    <3>2. Still /\ toClient' = toClient
      BY <1>3 DEF FireSend, Out, NothingOut, Still, Rest
    <3>3. QED  BY <1>0, <3>1, <3>2 DEF Without, Proper, End
  <2>2. CASE x.status = "connected"
    <3> DEFINE y == Reset(x, "resp", timeout)
    <3>1. Proper(y) /\ y.status = x.status
      BY <1>0, <2>1, ResetProper
    <3>2. Becomes("client", Reset(y, "send", interval)) /\ toServer' = Transmit(toServer, "pingreq")
      BY <1>3, <2>2 DEF FireSend, Out, Client
    <3> HIDE DEF y
    <3>3. QED  BY <1>0, <2>1, <2>2, <3>1, <3>2, Becoming, ResetTimers, ClientSends
  <2>3. CASE x.status # "connected"
    <3>1. Becomes("client", x) /\ toServer' = toServer
      BY <1>3, <2>3 DEF FireSend, NothingOut, Client
    <3> HIDE DEF x
    <3>2. QED  BY <2>1, <2>3, <3>1, Becoming, ClientGivesUp
  <2>4. QED  BY <2>2, <2>3
<1>4. ASSUME NEW x, Gives(Client, x), Becomes("client", x), Still, toClient' = toClient,
             toServer' = toServer \/ toServer' = Transmit(toServer, "disconnect")
      PROVE  Kept'
  BY <1>0, <1>4, Becoming, ClientGivesUp DEF Gives
<1>5. ASSUME NEW x, Gives(Server, x), Becomes("server", x), Still, toServer' = toServer,
             toClient' = toClient \/ toClient' = Transmit(toClient, "disconnect"), Server # New
      PROVE  Kept'
  BY <1>0, <1>5, Becoming, ServerGivesUp DEF Gives
<1>6. CASE FireResp
  <2>1. /\ Becomes("client", RespTimeout(Without(Client, "resp"))) /\ Still /\ toClient' = toClient
        /\ toServer' = toServer \/ toServer' = Transmit(toServer, "disconnect")
    BY <1>6 DEF FireResp, Fire, Out, NothingOut, Client, Still, Rest
  <2>2. Gives(Client, RespTimeout(Without(Client, "resp")))
    BY <1>0, Giving DEF RespTimeout
  <2>3. QED  BY <1>4, <2>1, <2>2
<1>7. CASE FireRecv
  <2>1. /\ Becomes("server", RecvTimeout(Without(Server, "recv"))) /\ Still /\ toServer' = toServer
        /\ toClient' = toClient \/ toClient' = Transmit(toClient, "disconnect")
        /\ "recv" \in Server.due
    BY <1>7 DEF FireRecv, Fire, Out, NothingOut, Server, Still, Rest
  <2>2. Gives(Server, RecvTimeout(Without(Server, "recv")))
    BY <1>0, Giving DEF RecvTimeout
  <2>3. QED  BY <1>0, <1>5, <2>1, <2>2
<1>8. CASE Disconnected("client") \/ Close("client")
  <2>1. PICK x \in {AsyncClose(Client), AsyncClose([Client EXCEPT !.disc = FALSE])} :
          Becomes("client", x) /\ Still /\ toClient' = toClient /\ toServer' = toServer
    BY <1>8 DEF Disconnected, Close, NothingOut, Client, Still, Rest
  <2>2. QED  BY <1>0, <1>4, <2>1, Giving
<1>9. CASE Disconnected("server") \/ Close("server")
  <2>1. PICK x \in {AsyncClose(Server), AsyncClose([Server EXCEPT !.disc = FALSE])} :
          /\ Becomes("server", x) /\ Still /\ toClient' = toClient /\ toServer' = toServer
          /\ Server.disc \/ Server.status # "closed"
    BY <1>9 DEF Disconnected, Close, NothingOut, Server, Still, Rest
  <2>2. QED  BY <1>0, <1>5, <2>1, Giving
<1>10. ASSUME NEW x, Proper(x)
       PROVE  /\ Closed(x).status = "closed" /\ Closed(x).due = x.due
              /\ Closed(x).left["recv"] = 0
  BY <1>0, <1>10 DEF Closed, Proper, End
<1>11. CASE CloseComplete("client")
  <2>1. /\ Becomes("client", Closed(Client)) /\ Still
        /\ toServer' = Transmit(toServer, "end") /\ toClient' \in Read(toClient)
    BY <1>11 DEF CloseComplete, Client, Still, Rest
  <2>2. QED  BY <1>0, <1>10, <2>1, Becoming, ClientCloses
<1>12. CASE CloseComplete("server")
  <2>1. /\ Becomes("server", Closed(Server)) /\ Still /\ Server # New
        /\ toServer' \in Read(toServer) /\ toClient' = Transmit(toClient, "end")
    BY <1>0, <1>12 DEF CloseComplete, Server, Still, Rest
  <2>2. QED  BY <1>0, <1>10, <2>1, Becoming, ServerCloses
<1>13. QED
  BY <1>1, <1>2, <1>3, <1>6, <1>7, <1>8, <1>9, <1>11, <1>12, ServerReads, ClientReads,
     SilentKeeps, TickKeeps
  DEF Next, Posted, Deliver, Closing, Ends

\* The server does not time out a client whose interval is not longer than the keep-alive
\* and which got its CONNACK in time, for all keep-alives and timeouts, any number of
\* connections and packets and any order of handlers that are ready at the same time: the
\* timer of the server (reset_pingreq_recv_timer) runs out after the next PINGREQ is due
\* (reset_pingreq_send_timer), or a packet that sets it again is under way.
THEOREM LiveIsKept == Spec => []LiveClientIsKept
<1>1. Inv /\ Kept => LiveClientIsKept
  <2> SUFFICES ASSUME Inv, Kept, "recv" \in Server.due, link = "up",
                      Client.status = "connected", Server.status = "connected", ~late,
                      interval \in Nat, keepAlive \in Nat, ~(interval > keepAlive)
      PROVE  FALSE
    BY Known DEF LiveClientIsKept, Client, Server, Ends
  <2>1. interval <= keepAlive
    OBVIOUS
  <2>2. QED  BY <2>1 DEF Kept, Arms, Living, Timely
<1>2. Inv /\ Kept /\ [Next]_vars => Kept'
  <2>1. ASSUME Inv, Kept, Next PROVE Kept'  BY <2>1, KeptNext
  <2>2. ASSUME Kept, UNCHANGED vars PROVE Kept'
    BY <2>2 DEF Kept, Arms, ConnectOnce, Opening, Living, Ahead, Early, Timely, Client, Server,
                vars, config
  <2>3. QED  BY <2>1, <2>2
<1>3. Init => Kept  BY KeptAtFirst
<1>4. QED  BY <1>1, <1>2, <1>3, Invariance, PTL DEF Spec
===============================================================================
