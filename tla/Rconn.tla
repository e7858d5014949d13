------------------------------- MODULE Rconn -------------------------------
(***************************************************************************)
(* The reliable connection of lib/rconn.c: a send queue in front of a      *)
(* vconn, inactivity probes and reconnection with exponential back-off.    *)
(*                                                                         *)
(* time_t fields are kept relative to time_now(): how long ago, or how     *)
(* long until, and no further than any test looks.  The results of the     *)
(* vconn are the environment's choice.  Left out: names, monitors, and the *)
(* statistics and admission fields that no code reads.                     *)
(***************************************************************************)
EXTENDS Integers, Sequences, FiniteSets

CONSTANTS
    Xid,             \* xids of the messages of the rconn's users
    PROBE,           \* xid of the echo request of an inactivity probe
    PROBE_INTERVAL,  \* rc->probe_interval, 0 for no probes
    MAX_BACKOFF,     \* rc->max_backoff
    QUESTION_SECS,   \* the 60 seconds of question_connectivity()
    QUEUE_LIMIT,     \* queue_limit of rconn_send_with_limit()
    QUEUE_BOUND      \* bound: messages in the queue of a user without a limit, and
                     \* when rc is connected again or a blocked probe is answered

ASSUME RconnAssumption ==
    /\ PROBE \notin Xid /\ 0 \notin Xid \cup {PROBE}
    /\ PROBE_INTERVAL \in Nat /\ MAX_BACKOFF \in Nat \ {0}
    /\ QUESTION_SECS \in Nat /\ QUEUE_LIMIT \in Nat /\ QUEUE_BOUND \in Nat

VARIABLES
    state,             \* rc->state, or "freed" by rconn_destroy()
    elapsed,           \* elapsed_in_this_state()
    vconn,             \* is rc->vconn not NULL?
    reliable,
    txq,               \* the messages of rc->txq
    n_queued,          \* the counter the users pass to rconn_send()
    backoff,
    backoff_deadline,  \* seconds until it
    last_received, last_connected, last_questioned,  \* seconds since then
    questionable_connectivity,
    idle_echo_xid,
    running,           \* rconn_run() goes round once more
    abandoned          \* history: rconn_disconnect() left messages in the queue

timers == <<last_received, last_connected>>
doubt == <<last_questioned, questionable_connectivity>>
queue == <<txq, n_queued>>
retry == <<backoff, backoff_deadline>>
vars == <<state, elapsed, vconn, reliable, queue, retry, timers, doubt, idle_echo_xid,
          running, abandoned>>

Connected == {"ACTIVE", "IDLE"}

\* TIME_MAX; TIME_MIN is 0, a deadline that is over.
NEVER == MAX_BACKOFF + 1

Larger(a, b) == IF a > b THEN a ELSE b
Smaller(a, b) == IF a < b THEN a ELSE b

\* No test of the time in a state looks further than this.
Horizon == Larger(PROBE_INTERVAL, MAX_BACKOFF)

Message == [xid : Xid \cup {PROBE}, counted : BOOLEAN]

\* How many messages of a queue n_queued counts.
NumCounted(q) == Cardinality({i \in 1 .. Len(q) : q[i].counted})

Weight(m) == IF m.counted THEN 1 ELSE 0

Init ==
    /\ state = "VOID" /\ elapsed = 0 /\ vconn = FALSE /\ reliable = FALSE
    /\ txq = <<>> /\ n_queued = 0
    /\ backoff = 0 /\ backoff_deadline = 0
    /\ last_received = 0 /\ last_connected = 0 /\ last_questioned = 0
    /\ questionable_connectivity = FALSE /\ idle_echo_xid = 0
    /\ running = FALSE /\ abandoned = FALSE
-----------------------------------------------------------------------------
(* Leaving and entering states.  s is the state rc is in, which a caller   *)
(* may have changed already, q and n its queue and its count.              *)

state_transition(to) == state' = to /\ elapsed' = 0

question_connectivity(asked) ==
    IF asked /\ last_questioned > QUESTION_SECS
    THEN questionable_connectivity' = TRUE /\ last_questioned' = 0
    ELSE UNCHANGED doubt

\* rconn_disconnect() leaves the queue as it is.
rconn_disconnect(q, n) ==
    /\ vconn' = FALSE /\ reliable' = FALSE
    /\ backoff' = 0 /\ backoff_deadline' = 0
    /\ txq' = q /\ n_queued' = n
    /\ abandoned' = (abandoned \/ q # <<>>)
    /\ state_transition("VOID")

\* Mutants: the count is not taken back for the messages dropped; they are kept.
flush_queue_Uncounted(q, n) == txq' = <<>> /\ n_queued' = n
flush_queue_Kept(q, n) == txq' = q /\ n_queued' = n

flush_queue(q, n) == txq' = <<>> /\ n_queued' = n - NumCounted(q)

NextBackoff(b, deadline) ==
    IF deadline = 0 THEN 1 ELSE Smaller(MAX_BACKOFF, Larger(1, 2 * b))

\* disconnect() of a reliable connection: q and n are dropped with the vconn.
Drop(q, n, deadline, asked) ==
    /\ vconn' = FALSE
    /\ flush_queue(q, n)
    /\ backoff' = NextBackoff(backoff, deadline)
    /\ backoff_deadline' = backoff'
    /\ state_transition("BACKOFF")
    /\ question_connectivity(asked \/ last_connected > QUESTION_SECS)
    /\ UNCHANGED <<reliable, abandoned>>

\* disconnect() in CONNECTING, ACTIVE or IDLE.  `asked': the caller has just
\* called question_connectivity().
disconnect(q, n, deadline, asked) ==
    IF reliable THEN Drop(q, n, deadline, asked)
    ELSE rconn_disconnect(q, n) /\ question_connectivity(asked)

\* Mutant: no new attempt is planned.
OpenFailed_NoRetry(b) ==
    /\ vconn' = FALSE /\ reliable' = TRUE
    /\ state_transition("VOID")
    /\ UNCHANGED <<retry, doubt>>

\* reconnect() by a reliable rc when vconn_open() fails: disconnect() in VOID or
\* BACKOFF does not touch the queue.  b is rc->backoff.
OpenFailed(b) ==
    /\ vconn' = FALSE /\ reliable' = TRUE
    /\ backoff' = NextBackoff(b, NEVER) /\ backoff_deadline' = backoff'
    /\ state_transition("BACKOFF")
    /\ question_connectivity(last_connected > QUESTION_SECS)

\* reconnect() when vconn_open() succeeds; a vconn of class fd cannot be
\* connected twice.
Opened(b, reconnectable) ==
    /\ vconn' = TRUE /\ reliable' = reconnectable
    /\ backoff' = b /\ backoff_deadline' = b
    /\ state_transition("CONNECTING")
    /\ UNCHANGED doubt
-----------------------------------------------------------------------------
(* rconn_run(): each action is one turn of its loop.                       *)

Turn == running' = (state' # state)

BackedOff == elapsed >= backoff

run_BACKOFF_open ==
    /\ state = "BACKOFF" /\ BackedOff
    /\ \E reconnectable \in BOOLEAN : Opened(backoff, reconnectable)
    /\ Turn
    /\ UNCHANGED <<queue, timers, idle_echo_xid, abandoned>>

run_BACKOFF_fail ==
    /\ state = "BACKOFF" /\ BackedOff /\ reliable
    /\ OpenFailed(backoff)
    /\ Turn
    /\ UNCHANGED <<queue, timers, idle_echo_xid, abandoned>>

run_CONNECTING_ok ==
    /\ state = "CONNECTING"
    /\ state_transition("ACTIVE")
    /\ last_connected' = 0
    /\ Turn
    /\ UNCHANGED <<vconn, reliable, queue, retry, last_received, doubt, idle_echo_xid, abandoned>>

\* vconn_connect() fails, or EAGAIN beyond the time-out, which does not reset
\* the back-off.
run_CONNECTING_fail ==
    /\ state = "CONNECTING"
    /\ \/ disconnect(txq, n_queued, backoff_deadline, FALSE)
       \/ elapsed >= Larger(1, backoff) /\ disconnect(txq, n_queued, NEVER, FALSE)
    /\ Turn
    /\ UNCHANGED <<timers, idle_echo_xid>>

\* Nothing to do: VOID, BACKOFF in time, vconn_connect() returns EAGAIN in time.
run_nothing ==
    /\ running
    /\ \/ state = "VOID"
       \/ state = "BACKOFF" /\ ~BackedOff
       \/ state = "CONNECTING" /\ elapsed < Larger(1, backoff)
    /\ running' = FALSE
    /\ UNCHANGED <<state, elapsed, vconn, reliable, queue, retry, timers, doubt, idle_echo_xid,
                   abandoned>>

\* try_send() passed the first k messages of q to the vconn.
Sent(q, n, k) == n_queued' = n - NumCounted(SubSeq(q, 1, k))

\* do_tx_work(): k messages are sent, then the vconn would block or fails,
\* unless they were all.
do_tx_work ==
    \E k \in 0 .. Len(txq) :
        LET left == SubSeq(txq, k + 1, Len(txq)) IN
        \/ /\ k = Len(txq)
           /\ idle_echo_xid' = IF k > 0 THEN txq[k].xid ELSE idle_echo_xid
           /\ txq' = <<>> /\ Sent(txq, n_queued, k)
           /\ UNCHANGED <<state, elapsed, vconn, reliable, retry, doubt, abandoned>>
        \/ /\ k < Len(txq)
           /\ idle_echo_xid' = 0
           /\ txq' = left /\ Sent(txq, n_queued, k)
           /\ UNCHANGED <<state, elapsed, vconn, reliable, retry, doubt, abandoned>>
        \/ /\ k < Len(txq)
           /\ idle_echo_xid' = 0
           /\ disconnect(left, n_queued - NumCounted(SubSeq(txq, 1, k)), backoff_deadline, FALSE)

\* rconn_send() of m when rc is connected, in state s.
Send(s, m) ==
    LET q == Append(txq, m)
        n == n_queued + Weight(m)
    IN  \/ /\ Len(txq) = 0       \* try_send() succeeds
           /\ idle_echo_xid' = m.xid
           /\ txq' = <<>> /\ Sent(q, n, 1)
           /\ state' = s /\ elapsed' = IF s = state THEN elapsed ELSE 0
           /\ UNCHANGED <<vconn, reliable, retry, doubt, abandoned>>
        \/ /\ idle_echo_xid' = IF Len(txq) = 0 THEN 0 ELSE idle_echo_xid
           /\ txq' = q /\ n_queued' = n
           /\ state' = s /\ elapsed' = IF s = state THEN elapsed ELSE 0
           /\ UNCHANGED <<vconn, reliable, retry, doubt, abandoned>>
        \/ /\ Len(txq) = 0       \* try_send() fails
           /\ idle_echo_xid' = 0
           /\ disconnect(q, n, backoff_deadline, FALSE)

\* Mutant: no probe is due while messages are waiting.
ProbeDue_EmptyQueue ==
    txq = <<>> /\ PROBE_INTERVAL > 0 /\ Smaller(elapsed, last_received) >= PROBE_INTERVAL

ProbeDue == PROBE_INTERVAL > 0 /\ Smaller(elapsed, last_received) >= PROBE_INTERVAL

\* Mutant: the state is changed after the probe was sent, also if that failed.
run_ACTIVE_SendFirst ==
    /\ state = "ACTIVE"
    /\ \/ /\ ProbeDue /\ Send("IDLE", [xid |-> PROBE, counted |-> FALSE]) /\ vconn'
       \/ /\ ProbeDue /\ txq = <<>> /\ reliable
          /\ vconn' = FALSE /\ state_transition("IDLE")
          /\ UNCHANGED <<reliable, queue, retry, doubt, idle_echo_xid, abandoned>>
       \/ ~ProbeDue /\ do_tx_work
    /\ Turn
    /\ UNCHANGED timers

run_ACTIVE ==
    /\ state = "ACTIVE"
    /\ IF ProbeDue THEN Send("IDLE", [xid |-> PROBE, counted |-> FALSE]) ELSE do_tx_work
    /\ Turn
    /\ UNCHANGED timers

run_IDLE ==
    /\ state = "IDLE"
    /\ IF elapsed >= PROBE_INTERVAL
       THEN disconnect(txq, n_queued, backoff_deadline, TRUE) /\ UNCHANGED idle_echo_xid
       ELSE do_tx_work
    /\ Turn
    /\ UNCHANGED timers

rconn_run ==
    \/ run_BACKOFF_open \/ run_BACKOFF_fail
    \/ run_CONNECTING_ok \/ run_CONNECTING_fail
    \/ run_ACTIVE \/ run_IDLE
    \/ run_nothing
-----------------------------------------------------------------------------
(* The users' calls, none of which comes in the middle of rconn_run().     *)

\* rconn_connect(): rconn_disconnect() and reconnect().
rconn_connect ==
    /\ ~running /\ state # "freed" /\ Len(txq) <= QUEUE_BOUND
    /\ \/ \E reconnectable \in BOOLEAN : Opened(0, reconnectable)
       \/ OpenFailed(0)
    /\ abandoned' = (abandoned \/ (state # "VOID" /\ txq # <<>>))
    /\ UNCHANGED <<queue, timers, idle_echo_xid, running>>

\* rconn_connect_unreliably(), only called on an rconn that is not connected.
rconn_connect_unreliably ==
    /\ ~running /\ state = "VOID" /\ Len(txq) <= QUEUE_BOUND
    /\ vconn' = TRUE /\ reliable' = FALSE
    /\ last_connected' = 0
    /\ state_transition("ACTIVE")
    /\ UNCHANGED <<queue, retry, last_received, doubt, idle_echo_xid, running, abandoned>>

Disconnect ==
    /\ ~running /\ state \notin {"VOID", "freed"}
    /\ rconn_disconnect(txq, n_queued)
    /\ UNCHANGED <<timers, doubt, idle_echo_xid, running>>

rconn_destroy ==
    /\ ~running /\ state # "freed"
    /\ vconn' = FALSE
    /\ flush_queue(txq, n_queued)
    /\ state_transition("freed")
    /\ UNCHANGED <<reliable, retry, timers, doubt, idle_echo_xid, running, abandoned>>

\* The state after a message came in: an echo reply that is not the one
\* expected does not end IDLE.
Answered(echo_reply, xid) ==
    state = "ACTIVE" \/ ~echo_reply \/ idle_echo_xid \in {0, xid}

\* rconn_recv() of a message.
rconn_recv(echo_reply, xid) ==
    /\ ~running /\ state \in Connected
    /\ state = "IDLE" => Len(txq) <= QUEUE_BOUND
    /\ last_received' = 0
    /\ state' = IF Answered(echo_reply, xid) THEN "ACTIVE" ELSE "IDLE"
    /\ elapsed' = IF state' # state THEN 0 ELSE elapsed
    /\ idle_echo_xid' = IF state = "IDLE" /\ echo_reply THEN 0 ELSE idle_echo_xid
    /\ UNCHANGED <<vconn, reliable, queue, retry, last_connected, doubt, running, abandoned>>

\* rconn_recv() when the vconn fails.
rconn_recv_error ==
    /\ ~running /\ state \in Connected
    /\ disconnect(txq, n_queued, backoff_deadline, FALSE)
    /\ UNCHANGED <<timers, idle_echo_xid, running>>

\* rconn_send() without a counter.
rconn_send(xid) ==
    /\ ~running /\ state \in Connected /\ Len(txq) < QUEUE_BOUND
    /\ Send(state, [xid |-> xid, counted |-> FALSE])
    /\ UNCHANGED <<timers, running>>

\* Mutant: the limit is one too large.
BelowLimit_OffByOne == n_queued <= QUEUE_LIMIT

BelowLimit == n_queued < QUEUE_LIMIT

rconn_send_with_limit(xid) ==
    /\ ~running /\ state \in Connected /\ BelowLimit
    /\ Send(state, [xid |-> xid, counted |-> TRUE])
    /\ UNCHANGED <<timers, running>>

rconn_is_connectivity_questionable ==
    /\ ~running /\ questionable_connectivity
    /\ questionable_connectivity' = FALSE
    /\ UNCHANGED <<state, elapsed, vconn, reliable, queue, retry, timers, last_questioned,
                   idle_echo_xid, running, abandoned>>

\* time_now() moves on by one second.
Tick ==
    /\ ~running
    /\ elapsed' = Smaller(elapsed + 1, Horizon)
    /\ last_received' = Smaller(last_received + 1, PROBE_INTERVAL)
    /\ last_connected' = Smaller(last_connected + 1, QUESTION_SECS + 1)
    /\ last_questioned' = Smaller(last_questioned + 1, QUESTION_SECS + 1)
    /\ backoff_deadline' = IF backoff_deadline = NEVER THEN NEVER
                           ELSE Larger(backoff_deadline - 1, 0)
    /\ UNCHANGED <<state, vconn, reliable, queue, backoff, questionable_connectivity,
                   idle_echo_xid, running, abandoned>>

Next ==
    \/ rconn_run
    \/ rconn_connect \/ rconn_connect_unreliably \/ Disconnect \/ rconn_destroy
    \/ \E xid \in Xid \cup {PROBE}, echo_reply \in BOOLEAN : rconn_recv(echo_reply, xid)
    \/ rconn_recv_error
    \/ \E xid \in Xid : rconn_send(xid) \/ rconn_send_with_limit(xid)
    \/ rconn_is_connectivity_questionable
    \/ Tick

\* rconn_run_wait() wakes the main loop when rconn_run() has something to do,
\* and time passes.  The peer is one that can be connected to: an attempt that
\* is made again and again succeeds.
Fairness ==
    /\ WF_vars(rconn_run) /\ WF_vars(Tick)
    /\ SF_vars(run_BACKOFF_open) /\ SF_vars(run_CONNECTING_ok)

Spec == Init /\ [][Next]_vars /\ Fairness
-----------------------------------------------------------------------------
\* Fields keep their types; a user that respects queue_limit has at most that
\* many messages in the queue.
TypeOK ==
    /\ state \in {"VOID", "BACKOFF", "CONNECTING", "ACTIVE", "IDLE", "freed"}
    /\ vconn \in BOOLEAN /\ reliable \in BOOLEAN /\ running \in BOOLEAN
    /\ questionable_connectivity \in BOOLEAN /\ abandoned \in BOOLEAN
    /\ elapsed \in 0 .. Horizon /\ last_received \in 0 .. PROBE_INTERVAL
    /\ last_connected \in 0 .. QUESTION_SECS + 1 /\ last_questioned \in 0 .. QUESTION_SECS + 1
    /\ txq \in Seq(Message) /\ n_queued \in 0 .. QUEUE_LIMIT
    /\ backoff \in 0 .. MAX_BACKOFF /\ backoff_deadline \in 0 .. NEVER
    /\ idle_echo_xid \in Xid \cup {PROBE, 0}

\* There is a vconn in exactly the states that use it, so that rconn_send()
\* never queues for, and rconn_run() never reads from, a null pointer: the
\* "*boom*" of the comment in run_ACTIVE(), where an error of a send within a
\* state change ends the connection.
VconnMatchesState == vconn <=> state \in {"CONNECTING", "ACTIVE", "IDLE"}

\* A user's counter is the number of its messages in the queue, whatever was
\* sent, dropped or left behind: a counter that stays too high would keep a
\* relay from sending for ever.
CountMatchesQueue == n_queued = NumCounted(txq)

\* "all queued messages are dropped when reconnection becomes necessary", if
\* no rconn_disconnect() left any behind: a message is only ever sent over the
\* connection it was queued for.
QueueOnlyWhenConnected == ~abandoned /\ txq # <<>> => state \in Connected

\* An rconn's times and queue keep within their limits; rconn_send() never
\* queues for, and rconn_run() never reads from, a null vconn; a user's counter
\* is the number of its messages in the queue; and a message is only ever sent
\* over the connection it was queued for.
RconnSound == TypeOK /\ VconnMatchesState /\ CountMatchesQueue /\ QueueOnlyWhenConnected

\* A reliable rconn gets connected, as long as nobody disconnects it.
KeepsTrying == []<>(reliable => state \in Connected \cup {"freed"})

\* A connection whose peer has gone silent is given up.
DeadPeerNoticed == []<>(state \in Connected => last_received = 0)

\* rconn_create(): "If the interval passes again without a message being
\* received, the rconn disconnects": the reply to the probe ends IDLE, whatever
\* was sent after the probe.
ProbeReplyEndsIdle ==
    [][state = "IDLE" /\ rconn_recv(TRUE, PROBE) => state' = "ACTIVE"]_vars
=============================================================================
