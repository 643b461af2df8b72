------------------------------ MODULE PidWaiters ------------------------------
(***************************************************************************)
(* async_acquire_unique_packet_id_wait_until(): when every packet id is in *)
(* use the operation waits on a timer that never expires, queued in        *)
(* tim_retry_acq_pid_queue_; release_pid() cancels the first timer to make *)
(* its operation try again.  The handler of a cancelled timer is posted,   *)
(* so other handlers run between the release and the retry.  The same      *)
(* error code tells the handler of a release and of a cancellation by the  *)
(* application; packet_id_released_ is meant to tell them apart.           *)
(***************************************************************************)
EXTENDS Integers, Sequences, FiniteSets, SequencesExt

CONSTANTS
  Waiters,    \* the operations, each started again and again
  Setups      \* the ways of using the endpoint, one of which a behavior has:
    \* waiters  the operations in use
    \* ids      how many packet ids there are
    \* with     "cancel": the application cancels operations; "steal": other code
    \*          acquires ids without waiting, by acquire_unique_packet_id() or
    \*          register_packet_id(); "clear": a session starts anew, clear_pid_man()

ASSUME WaitersAssumption ==
  \A s \in Setups : /\ s.waiters \subseteq Waiters /\ IsFiniteSet(s.waiters)
                    /\ s.ids \in Nat \ {0}
                    /\ s.with \subseteq {"cancel", "steal", "clear"}

VARIABLES
  setup,       \* the member of Setups this behavior has
  op,          \* per operation: "idle", "waiting" on its timer, "ready": the handler
               \* of its timer is posted, "done" with an id, "aborted"
  queue,       \* tim_retry_acq_pid_queue_: [w, own, cancelled], own = the timer of the
               \* entry is the one that operation w waits on at present
  ready,       \* the posted handlers of the timers
  released,    \* packet_id_released_
  vacant,      \* how many ids are free
  others,      \* how many ids are held by other code
  line         \* the operations that have waited, in the order they came

vars == <<setup, op, queue, ready, released, vacant, others, line>>

Entry(w) == [w |-> w, own |-> TRUE, cancelled |-> FALSE]
Forget(w, q) == [i \in DOMAIN q |-> [q[i] EXCEPT !.own = @ /\ q[i].w # w]]
Erase(q, w) ==
  LET found == {i \in DOMAIN q : q[i].w = w /\ q[i].own}
  IN IF found = {} THEN q ELSE RemoveAt(q, CHOOSE i \in found : TRUE)
TailOrEmpty(q) == IF q = <<>> THEN q ELSE Tail(q)

Init ==
  /\ setup \in Setups
  /\ op = [w \in Waiters |-> "idle"] /\ queue = <<>> /\ ready = <<>>
  /\ released = FALSE /\ vacant = setup.ids /\ others = 0 /\ line = <<>>
-------------------------------------------------------------------------------
\* async_add_retry at the end of the queue q.  Stale entries stay in the queue: its
\* length is bounded here by the number of operations.
AddRetry(w, q) ==
  /\ Len(q) < Cardinality(setup.waiters)
  /\ queue' = Append(q, Entry(w))
  /\ op' = [op EXCEPT ![w] = "waiting"]
  /\ line' = IF Contains(line, w) THEN line ELSE Append(line, w)
  /\ UNCHANGED vacant

Serve(w) ==
  /\ vacant' = vacant - 1
  /\ op' = [op EXCEPT ![w] = "done"]
  /\ line' = RemoveFirst(line, w)

\* acq_proc, once the queue is q.
Acquire(w, q) ==
  IF vacant > 0
  THEN Serve(w) /\ queue' = q /\ UNCHANGED released
  ELSE AddRetry(w, q) /\ released' = FALSE

NoRetry == FALSE            \* mutant: the operation does not look at the queue
HasRetry == queue # <<>>

\* The operation starts.  It goes behind those that wait already.
Start(w) ==
  /\ w \in setup.waiters /\ op[w] \in {"idle", "aborted"}
  /\ IF HasRetry THEN AddRetry(w, queue) /\ UNCHANGED released
                 ELSE Acquire(w, queue)
  /\ UNCHANGED <<setup, ready, others>>

\* Mutant: the handler returns to the queue without leaving it first.
KeepFront(q) == q
Popped(q) == TailOrEmpty(q)
ReleasedFlag == TRUE
Wakes(S) == CHOOSE i \in S : \A j \in S : i <= j
Wakeable(q) == {i \in DOMAIN q : ~q[i].cancelled}

\* The handler of a timer that release_pid() or the application has cancelled.
\* Nothing was released since the last failed try: a cancellation, the operation
\* leaves the queue.  Otherwise the front of the queue leaves it and the operation
\* tries again.
Retry ==
  LET w == Head(ready) IN
  /\ ready # <<>> /\ ready' = Tail(ready)
  /\ IF released
     THEN Acquire(w, Forget(w, Popped(queue)))
     ELSE /\ queue' = Erase(queue, w)
          /\ op' = [op EXCEPT ![w] = "aborted"]
          /\ line' = RemoveFirst(line, w)
          /\ UNCHANGED <<released, vacant>>
  /\ UNCHANGED <<setup, others>>

\* Per-operation cancellation: the timer is cancelled, the queue not told.
Cancel(w) ==
  /\ "cancel" \in setup.with /\ op[w] = "waiting"
  /\ op' = [op EXCEPT ![w] = "ready"] /\ ready' = Append(ready, w)
  /\ UNCHANGED <<setup, queue, released, vacant, others, line>>
-------------------------------------------------------------------------------
\* release_pid() with notify_retry_one(), for operations in the states st.
ReleasePid(st) ==
  /\ vacant' = vacant + 1 /\ released' = ReleasedFlag
  /\ IF Wakeable(queue) = {}
     THEN op' = st /\ UNCHANGED <<queue, ready>>
     ELSE LET i == Wakes(Wakeable(queue))
              w == queue[i].w
              live == queue[i].own /\ st[w] = "waiting"
          IN /\ queue' = [queue EXCEPT ![i].cancelled = TRUE]
             /\ op' = IF live THEN [st EXCEPT ![w] = "ready"] ELSE st
             /\ ready' = IF live THEN Append(ready, w) ELSE ready
  /\ UNCHANGED <<setup, line>>

\* The id that operation w got is released: by the handler of a response, by a
\* failed send, or by the application.
Release(w) ==
  /\ op[w] = "done" /\ ReleasePid([op EXCEPT ![w] = "idle"]) /\ UNCHANGED others

OtherAcquires ==
  /\ "steal" \in setup.with /\ vacant > 0 /\ vacant' = vacant - 1 /\ others' = others + 1
  /\ UNCHANGED <<setup, op, queue, ready, released, line>>

OtherReleases ==
  /\ others > 0 /\ others' = others - 1 /\ ReleasePid(op)

\* clear_pid_man(): every id is free, and notify_retry_all() empties the queue.  The
\* pending handlers own their timers, so none of them is cancelled by that.
Clear ==
  /\ "clear" \in setup.with /\ vacant' = setup.ids /\ others' = 0 /\ queue' = <<>>
  /\ op' = [w \in Waiters |-> IF op[w] = "done" THEN "idle" ELSE op[w]]
  /\ UNCHANGED <<setup, ready, released, line>>
-------------------------------------------------------------------------------
Next ==
  \/ \E w \in Waiters : Start(w) \/ Cancel(w) \/ Release(w)
  \/ Retry \/ OtherAcquires \/ OtherReleases \/ Clear

Spec == Init /\ [][Next]_vars

\* The executor runs the posted handlers, and whoever holds an id releases it.
FairSpec ==
  /\ Spec /\ WF_vars(Retry) /\ WF_vars(OtherReleases)
  /\ \A w \in Waiters : WF_vars(Release(w))
-------------------------------------------------------------------------------
Waiting == {w \in Waiters : op[w] = "waiting"}
Done == {w \in Waiters : op[w] = "done"}

\* Each id is free or has one holder, and the posted handlers are those of the
\* operations in "ready".
TypeOK ==
  /\ op \in [Waiters -> {"idle", "waiting", "ready", "done", "aborted"}]
  /\ queue \in Seq([w : Waiters, own : BOOLEAN, cancelled : BOOLEAN])
  /\ ToSet(ready) = {w \in Waiters : op[w] = "ready"}
  /\ \A i, j \in DOMAIN ready : i # j => ready[i] # ready[j]
  /\ released \in BOOLEAN
  /\ vacant >= 0 /\ vacant + others + Cardinality(Done) = setup.ids

\* Every id is acquired by the waiting operation, and nobody cancels one.
Undisturbed == setup.with = {}

\* Operations get their ids in the order they began to wait.
InOrder ==
  [][Undisturbed =>
       \A w \in Waiters : op[w] = "ready" /\ op'[w] = "done" => w = Head(line)]_vars

\* An operation that waits gets an id when the holders release theirs.
EveryWaiterServed == \A w \in Waiters : Undisturbed /\ op[w] = "waiting" ~> op[w] = "done"
===============================================================================
