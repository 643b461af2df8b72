--------------------------------- MODULE Bench ---------------------------------
(***************************************************************************)
(* The measuring tool (bench.cpp): clients connect, subscribe to a topic   *)
(* each, publish to warm up and then publish to measure how long a message *)
(* takes to come back.  One process does it all ("single"), or one sends   *)
(* and another receives; the senders may be several, which a manager gives *)
(* the time to start at.                                                   *)
(*                                                                         *)
(* All of this is one stackless coroutine whose copies go through it for   *)
(* one client each: a copy waits for a handler or it has ended, and the    *)
(* one that brings a counter to zero goes on for all clients.  With the    *)
(* default options the handlers of the clients run on one thread, and      *)
(* those of tim_delay and tim_sync on another: an action is one handler.   *)
(* Messages are published with QoS 0.                                      *)
(***************************************************************************)
EXTENDS Naturals, Sequences

CONSTANTS
    Clients,
    Modes,          \* of {"single", "send", "recv"}, those that are looked at
    PubIdleCounts,  \* messages of a client to warm up, those numbers looked at
    TimesCounts     \* messages of a client to measure, those numbers looked at

ASSUME BenchAssumption ==
    /\ Modes \subseteq {"single", "send", "recv"}
    /\ PubIdleCounts \subseteq Nat /\ TimesCounts \subseteq Nat \ {0}

VARIABLES
    opt,        \* the options: mode, pub_idle_count, times, and whether there is a
                \* manager or a worker to start at the same time with
    ph,         \* the phase
    at,         \* what the copy for a client waits for, "end" when it has ended
    tim,        \* ci.tim of each client: the wait that is set, or "none"
    delay,      \* tim_delay and tim_sync: the wait that is set, and for which client
    rest,       \* rest_connect, rest_sub, rest_idle, rest_times
    client,     \* send_times, recv_times, send_idle_count of each client and the
                \* length of its rtt_us
    receiving,  \* the clients with an async_recv for a PUBLISH
    inbox,      \* the messages on their way to each client
    down,       \* the clients whose CONNACK or SUBACK was refused or not received
    failed,     \* a send, a handshake or the receipt of a message failed
    over        \* how it ended: "report", "sent", "exit" or "undefined"

vars == <<opt, ph, at, tim, delay, rest, client, receiving, inbox, down, failed, over>>

Times == opt.times + opt.idle
Each(n) == n * Len(Clients)
All == DOMAIN Clients

NoDelay == [wait |-> "none", client |-> 1]

Init ==
    /\ opt \in [mode : Modes, idle : PubIdleCounts, times : TimesCounts, inStep : BOOLEAN]
    /\ ph = "connect"
    /\ at = [c \in All |-> "start"]
    /\ tim = [c \in All |-> "connect"]
    /\ delay = NoDelay
    /\ rest = [connect |-> Len(Clients), sub |-> Len(Clients),
               idle |-> Each(opt.idle), times |-> Each(Times)]
    /\ client = [c \in All |-> [send |-> Times, recv |-> Times, idle |-> opt.idle, rtt |-> 0]]
    /\ receiving = {}
    /\ inbox = [c \in All |-> <<>>]
    /\ down = {} /\ failed = FALSE /\ over = "no"

\* expires_after() and async_wait() of the timers of some clients: a wait that is
\* set is cancelled, and its handler ends the program.
SetTimers(cs, wait) ==
    /\ tim' = [c \in All |-> IF c \in cs THEN wait ELSE tim[c]]
    /\ over' = IF \E c \in cs : tim[c] # "none" THEN "exit" ELSE "no"

Wait(wait, c) == delay' = [wait |-> wait, client |-> c]
Goes(c, to) == at' = [at EXCEPT ![c] = to]
-----------------------------------------------------------------------------
\* Up to the subscription.

ConnectTimer(c) ==
    /\ tim[c] = "connect"
    /\ tim' = [tim EXCEPT ![c] = "none"]
    /\ Goes(c, "handshake")
    /\ UNCHANGED <<opt, ph, delay, rest, client, receiving, inbox, down, failed, over>>

\* The underlying layers are up: CONNECT is sent.
Handshake(c) ==
    /\ at[c] = "handshake" /\ Goes(c, "connect")
    /\ UNCHANGED <<opt, ph, tim, delay, rest, client, receiving, inbox, down, failed, over>>

ConnectSent(c) ==
    /\ at[c] = "connect" /\ Goes(c, "connack")
    /\ UNCHANGED <<opt, ph, tim, delay, rest, client, receiving, inbox, down, failed, over>>

\* What comes before the first message is published: the delay, or the one after
\* the idle messages if there are none.
PubDelay(c) ==
    /\ ph' = IF opt.idle = 0 THEN "pub_after_idle_delay" ELSE "pub_delay"
    /\ Wait("pub_delay", c)

\* Managers and workers wait for the time they all start at.
Synchronise(c) == IF opt.inStep THEN Wait("sync", c) /\ UNCHANGED ph ELSE PubDelay(c)

\* A CONNACK that refuses, or an error instead of one, does not count: the copy
\* ends, and so does the program's progress.
Connack(c, accepted) ==
    LET left == rest.connect - (IF accepted THEN 1 ELSE 0)
    IN  /\ at[c] = "connack" /\ Goes(c, "end")
        /\ rest' = [rest EXCEPT !.connect = left]
        /\ down' = IF accepted THEN down ELSE down \cup {c}
        /\ CASE left # 0 -> UNCHANGED <<ph, delay>>
             [] left = 0 /\ opt.mode # "send" -> ph' = "sub_delay" /\ Wait("sub_delay", c)
             [] left = 0 /\ opt.mode = "send" -> Synchronise(c)
        /\ UNCHANGED <<opt, tim, client, receiving, inbox, failed, over>>

SubDelayDone ==
    /\ delay.wait = "sub_delay"
    /\ delay' = NoDelay
    /\ ph' = "subscribe"
    /\ SetTimers(All, "subscribe")
    /\ UNCHANGED <<opt, at, rest, client, receiving, inbox, down, failed>>

\* A packet id is acquired and SUBSCRIBE is sent.
SubTimer(c) ==
    /\ tim[c] = "subscribe"
    /\ tim' = [tim EXCEPT ![c] = "none"]
    /\ Goes(c, "subscribe")
    /\ UNCHANGED <<opt, ph, delay, rest, client, receiving, inbox, down, failed, over>>

SubSent(c) ==
    /\ at[c] = "subscribe" /\ Goes(c, "suback")
    /\ UNCHANGED <<opt, ph, tim, delay, rest, client, receiving, inbox, down, failed, over>>

\* A SUBACK that refuses ends the program, an error instead of one its progress.
\* The topic may have a retained message.
Suback(c, answer) ==
    LET left == rest.sub - (IF answer = "granted" THEN 1 ELSE 0)
        all == left = 0
    IN  /\ at[c] = "suback" /\ Goes(c, "end")
        /\ rest' = [rest EXCEPT !.sub = left]
        /\ down' = IF answer = "granted" THEN down ELSE down \cup {c}
        /\ over' = IF answer = "refused" THEN "exit" ELSE over
        /\ \E m \in {<<>>, <<[retain |-> TRUE, n |-> 0]>>} :
            inbox' = IF answer = "granted" THEN [inbox EXCEPT ![c] = m] ELSE inbox
        /\ IF all /\ opt.mode = "single" THEN Synchronise(c) ELSE UNCHANGED <<ph, delay>>
        /\ receiving' = IF all /\ opt.mode = "recv" THEN All ELSE receiving
        /\ UNCHANGED <<opt, tim, client, failed>>
-----------------------------------------------------------------------------
\* Publishing and measuring.

SyncDone ==
    /\ delay.wait = "sync"
    /\ PubDelay(delay.client)
    /\ UNCHANGED <<opt, at, tim, rest, client, receiving, inbox, down, failed, over>>

\* The interval timers start, and in a single process the receipts.
PubDelayDone ==
    /\ delay.wait = "pub_delay"
    /\ delay' = NoDelay
    /\ ph' = IF ph = "pub_delay" THEN "idle" ELSE "publish"
    /\ SetTimers(All, "publish")
    /\ receiving' = IF opt.mode = "single" THEN All ELSE {}
    /\ UNCHANGED <<opt, at, rest, client, inbox, down, failed>>

\* The payload has the number of the message.
Message(c) == [retain |-> FALSE, n |-> client[c].send]

\* trigger_pub(), send_publish(): what one process sends another one receives.
Trigger(c) ==
    /\ client[c].send > 0
    /\ inbox' = IF opt.mode = "send" THEN inbox ELSE [inbox EXCEPT ![c] = Append(@, Message(c))]

\* Mutants: one idle message more than the count; the last idle message does not
\* end the phase.
IdleLeftAfter(c) == client[c].idle + 1
NeverExact(idle) == FALSE

IdleLeft(c) == client[c].idle

\* The interval timer fired while idle messages are published.
TriggerIdle(c) ==
    LET last == opt.mode = "send" /\ rest.idle = 1
        more == IdleLeft(c) > 1
    IN  /\ ph = "idle"
        /\ Trigger(c)
        /\ client' = [client EXCEPT ![c].send = @ - 1, ![c].idle = IF @ > 0 THEN @ - 1 ELSE 0]
        /\ rest' = IF opt.mode = "send"
                   THEN [rest EXCEPT !.times = @ - 1, !.idle = IF @ > 0 THEN @ - 1 ELSE 0]
                   ELSE rest
        /\ IF last THEN ph' = "pub_after_idle_delay" /\ Wait("idle_delay", c)
           ELSE UNCHANGED ph /\ delay' = delay
        /\ tim' = [tim EXCEPT ![c] = IF more THEN "publish" ELSE "none"]
        /\ UNCHANGED over

\* The interval timer fired while the messages to measure are published.
TriggerPublish(c) ==
    /\ ph = "publish"
    /\ Trigger(c)
    /\ client' = [client EXCEPT ![c].send = @ - 1]
    /\ rest' = IF opt.mode = "send" THEN [rest EXCEPT !.times = @ - 1] ELSE rest
    /\ tim' = [tim EXCEPT ![c] = IF client[c].send > 1 THEN "publish" ELSE "none"]
    /\ over' = IF rest'.times = 0 THEN "sent" ELSE over
    /\ UNCHANGED <<ph, delay>>

PubTimer(c) ==
    /\ tim[c] = "publish"
    /\ TriggerIdle(c) \/ TriggerPublish(c)
    /\ UNCHANGED <<opt, at, receiving, down, failed>>

\* The handlers that run in the phase after the idle messages: that of the delay
\* (0) and those of the interval timers.
Fired ==
    {c \in All : tim[c] = "publish"} \cup (IF delay.wait = "idle_delay" THEN {0} ELSE {})

\* The phase alone says to a handler that the delay is over.
Measure(f) ==
    /\ ph = "pub_after_idle_delay" /\ f \in Fired
    /\ ph' = "publish"
    /\ delay' = IF f = 0 THEN NoDelay ELSE delay
    /\ tim' = [c \in All |-> "publish"]
    /\ over' = IF \E c \in All \ {f} : tim[c] # "none" THEN "exit" ELSE over
    /\ UNCHANGED <<opt, at, rest, client, receiving, inbox, down, failed>>

\* compare_exchange_strong(1, 0)
Exact(idle) == idle = 1

\* recv_publish() before the idle messages are through: the last one ends them.
ReceiveIdle(c) ==
    /\ rest.idle > 0
    /\ rest' = [rest EXCEPT !.times = @ - 1, !.idle = @ - 1]
    /\ IF Exact(rest.idle) /\ opt.mode = "single"
       THEN ph' = "pub_after_idle_delay" /\ Wait("idle_delay", c)
       ELSE UNCHANGED <<ph, delay>>
    /\ UNCHANGED over

\* recv_publish() of a message to measure: with the last one the report is made,
\* which is undefined if a client has measured nothing.
ReceiveMeasured(c) ==
    /\ rest.idle = 0
    /\ rest' = [rest EXCEPT !.times = @ - 1]
    /\ over' = CASE rest.times # 1 -> over
                 [] rest.times = 1 /\ \A d \in All : d = c \/ client[d].rtt > 0 -> "report"
                 [] OTHER -> "undefined"
    /\ UNCHANGED <<ph, delay>>

\* recv_times and the durations of a client that receives a message.
Counted(c) ==
    [client EXCEPT ![c].recv = @ - 1, ![c].rtt = IF rest.idle = 0 THEN @ + 1 ELSE @]

\* A message is received; another one is waited for until recv_times is zero.
Receive(c) ==
    LET m == Head(inbox[c])
    IN  /\ c \in receiving /\ inbox[c] # <<>>
        /\ inbox' = [inbox EXCEPT ![c] = Tail(@)]
        /\ IF m.retain
           THEN UNCHANGED <<client, rest, ph, delay, over>>
           ELSE /\ client' = Counted(c)
                /\ ReceiveIdle(c) \/ ReceiveMeasured(c)
        /\ receiving' = IF client'[c].recv # 0 THEN receiving ELSE receiving \ {c}
        /\ UNCHANGED <<opt, at, tim, down, failed>>
-----------------------------------------------------------------------------
\* The process that sends to this one, which receives only.
Remote(c) ==
    /\ opt.mode = "recv" /\ receiving # {} /\ Trigger(c)
    /\ client' = [client EXCEPT ![c].send = @ - 1]
    /\ UNCHANGED <<opt, ph, at, tim, delay, rest, receiving, down, failed, over>>

\* An error of a handshake, a send or a receipt ends the program.
Fails(c) ==
    /\ at[c] \in {"handshake", "connect", "subscribe"} \/ c \in receiving
    /\ failed' = TRUE /\ over' = "exit"
    /\ UNCHANGED <<opt, ph, at, tim, delay, rest, client, receiving, inbox, down>>

Handler(c) ==
    \/ ConnectTimer(c) \/ Handshake(c) \/ ConnectSent(c)
    \/ \E accepted \in BOOLEAN : Connack(c, accepted)
    \/ SubTimer(c) \/ SubSent(c)
    \/ \E answer \in {"granted", "refused", "error"} : Suback(c, answer)
    \/ PubTimer(c) \/ Receive(c)

DelayHandler == SubDelayDone \/ SyncDone \/ PubDelayDone \/ (\E f \in All \cup {0} : Measure(f))

Next ==
    /\ over = "no"
    /\ \/ \E c \in All : Handler(c) \/ Remote(c) \/ Fails(c)
       \/ DelayHandler

Spec == Init /\ [][Next]_vars

\* Timers fire, the broker answers and passes on what it is sent.
Fairness ==
    /\ \A c \in All : WF_vars(over = "no" /\ (Handler(c) \/ Remote(c)))
    /\ WF_vars(over = "no" /\ DelayHandler)
FairSpec == Spec /\ Fairness
-----------------------------------------------------------------------------
\* In a single process the report is about just the messages that were published
\* to measure, the same number for each client: the phase changes when the last
\* idle message of all is received, whichever client it is of (recv_publish,
\* rest_idle).
MeasuredExactly ==
    over = "report" /\ opt.mode = "single" => \A c \in All : client[c].rtt = opt.times

\* A process that receives only counts the messages of all clients to warm up together:
\* if one client has no more than that to receive, all of its messages may come while they
\* are counted, and none of them is measured (README, findings).
MayMeasureNothing == opt.mode = "recv" /\ Times <= Each(opt.idle)

\* Unless the broker refuses something or a connection fails, all phases are gone
\* through and the program comes to its end: no timer is set while it is waited
\* for, which would end the program early, no counter is left above zero, and there
\* is something of each client to report.
Finishes ==
    <>(over \in {"report", "sent"} \/ failed \/ down # {} \/ (over = "undefined" /\ MayMeasureNothing))
=============================================================================
