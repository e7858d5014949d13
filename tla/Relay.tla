---------------------------- MODULE Relay ----------------------------
(***************************************************************************)
(* The secure channel's message relays (secchan.c), with the hooks that   *)
(* may swallow a message on its way: switch status (status.c) and the     *)
(* rate limiter of packet-ins (ratelimit.c).                              *)
(*                                                                         *)
(* A relay has two halves, one rconn each.  The relay "ctl" joins the     *)
(* datapath to the controller and lives as long as the process; "mgmt" is *)
(* a management connection, accepted and destroyed at run time.  An rconn *)
(* is reduced to what the relay sees of it: whether it is connected, what *)
(* it has received, its transmit queue, and the bytes the kernel holds;   *)
(* what the datapath sends on its second connection, for asynchronous     *)
(* messages, is read by the same half and counts as sent on the first.    *)
(* Handlers are operators from a state of the process to the next; the    *)
(* body of main()'s loop is one action, since nothing runs in parallel    *)
(* with it.                                                               *)
(***************************************************************************)
EXTENDS Naturals, Sequences, SequencesExt

CONSTANTS
    LocalKinds,        \* what the datapath may send
    RemoteKinds,       \* what a controller or management client may send
    Limits,            \* bounds: how many messages each far end may send
    MaxDrops,          \* bound: connections lost
    SOCKET,            \* messages the kernel holds for a slow peer
    RELAY_ITERATIONS,  \* 50 in relay_run
    DRAIN,             \* 50 in rate_limit_periodic_cb
    TX_LIMIT,          \* 10 in rate_limit_periodic_cb
    Cost,              \* 1000: tokens one packet-in costs
    rate_limit, burst_limit

VARIABLES
    sc,     \* the secure channel
    peers   \* what the far ends sent and got, and the connections lost

relayVars == <<sc, peers>>

Relays == {"ctl", "mgmt"}
Sides == {"local", "remote"}
Peer(i) == IF i = "local" THEN "remote" ELSE "local"
None == [id |-> 0, kind |-> "none"]

(* Forces the evaluation of a state before a handler uses it.             *)
After(s, Op(_)) == CHOOSE r \in {Op(x) : x \in {s}} : TRUE

(***************************************************************************)
(* The rconn, as far as the relay can tell.                                *)
(***************************************************************************)
Closed == [up |-> FALSE, in |-> <<>>, txq |-> <<>>, sock |-> <<>>]
Half(up) == [rc |-> [Closed EXCEPT !.up = up], rxbuf |-> None, n_txq |-> 0]

Owned(q, owner) == Len(SelectSeq(q, LAMBDA e : e.n_queued = owner))

(* The counters named by the buffers of q, which leave the queue.          *)
KeepsCount(s, r, i, q) == s
Discount(s, r, i, q) ==
    [s EXCEPT !.relay[r][Peer(i)].n_txq = @ - Owned(q, "half"),
              !.limiter.n_txq = @ - Owned(q, "limiter")]

try_send(s, r, i) ==
    LET c == s.relay[r][i].rc
        room == SOCKET - Len(c.sock)
        n == IF Len(c.txq) < room THEN Len(c.txq) ELSE room
        gone == SubSeq(c.txq, 1, n)
    IN Discount([s EXCEPT !.relay[r][i].rc.txq = SubSeq(@, n + 1, Len(@)),
                          !.relay[r][i].rc.sock =
                              @ \o [k \in 1..n |-> gone[k].msg]],
                r, i, gone)

flush_queue(s, r, i) ==
    Discount([s EXCEPT !.relay[r][i].rc.txq = <<>>], r, i,
             s.relay[r][i].rc.txq)

disconnect(s, r, i) ==
    [flush_queue(s, r, i) EXCEPT !.relay[r][i].rc = Closed]

rconn_is_connected(s, r, i) == s.relay[r][i].rc.up

rconn_run(s, r, i) ==
    IF rconn_is_connected(s, r, i) THEN try_send(s, r, i) ELSE s

(* Only called when the rconn is connected: ENOTCONN is the caller's case. *)
rconn_send(s, r, i, msg, owner) ==
    LET t == [s EXCEPT
                !.relay[r][i].rc.txq = Append(@, [msg |-> msg,
                                                  n_queued |-> owner]),
                !.relay[r][Peer(i)].n_txq =
                    IF owner = "half" THEN @ + 1 ELSE @,
                !.limiter.n_txq = IF owner = "limiter" THEN @ + 1 ELSE @]
    IN IF Len(t.relay[r][i].rc.txq) = 1 THEN try_send(t, r, i) ELSE t

(***************************************************************************)
(* The rate limiter.  Every packet-in is put in the queue of port 0.       *)
(***************************************************************************)
(* ofl_msg_unpack() returns 0 when it succeeds, so a message that unpacks  *)
(* is never taken for a packet-in.  One that does not leaves the type to   *)
(* whatever an uninitialised pointer refers to: kinds "broken" (it happens *)
(* to say packet-in for a table miss) and "garbled" (it does not).         *)
get_ofp_packet_in(msg) == msg.kind = "broken"

refill_bucket(lim) ==
    LET tokens == lim.since * rate_limit + lim.tokens
        cap == burst_limit * Cost
        filled == IF tokens < cap THEN tokens ELSE cap
    IN IF tokens >= Cost
       THEN [lim EXCEPT !.since = 0, !.tokens = filled,
                        !.granted = @ + filled - lim.tokens]
       ELSE lim

get_token(lim) == lim.tokens >= Cost
Spend(lim) == [lim EXCEPT !.tokens = @ - Cost]
drop_packet(lim) == [lim EXCEPT !.queue = Tail(@)]

QueueUp(lim, msg) ==
    LET room == IF Len(lim.queue) >= burst_limit THEN drop_packet(lim) ELSE lim
    IN [room EXCEPT !.queue = Append(@, msg)]

(* Whether the message is swallowed, and the limiter afterwards.           *)
rate_limit_local_packet_cb(lim, msg) ==
    LET normal == Len(lim.queue) = 0 /\ get_token(lim)
    IN IF ~get_ofp_packet_in(msg) THEN [swallowed |-> FALSE, lim |-> lim]
       ELSE IF normal THEN [swallowed |-> FALSE, lim |-> Spend(lim)]
       ELSE [swallowed |-> TRUE, lim |-> QueueUp(lim, msg)]

(* One turn of the loop: the token is spent before the count is looked at. *)
DrainOne(s, i) ==
    LET lim == s.limiter
        b == Head(lim.queue)
        spent == [s EXCEPT !.limiter = Spend(lim)]
        taken == [spent EXCEPT !.limiter.queue = Tail(@)]
    IN CASE s.stop \/ Len(lim.queue) = 0 \/ ~get_token(lim) ->
                [s EXCEPT !.stop = TRUE]
         [] i > DRAIN -> [spent EXCEPT !.stop = TRUE]
         [] lim.n_txq >= TX_LIMIT \/ ~rconn_is_connected(s, "ctl", "remote") ->
                taken
         [] OTHER -> rconn_send(taken, "ctl", "remote", b, "limiter")

rate_limit_periodic_cb(s) ==
    LET filled == [s EXCEPT !.limiter = refill_bucket(@), !.stop = FALSE]
    IN [FoldLeft(LAMBDA t, i : After(t, LAMBDA x : DrainOne(x, i)),
                 filled, [i \in 1..(DRAIN + 1) |-> i])
           EXCEPT !.stop = FALSE]

(***************************************************************************)
(* relay_run                                                               *)
(***************************************************************************)
(* A status request is answered on the connection it came on.              *)
AnswersAndPasses(s, r, msg) ==
    [swallowed |-> FALSE,
     s |-> IF msg.kind = "status" /\ rconn_is_connected(s, r, "remote")
           THEN rconn_send(s, r, "remote", [id |-> 0, kind |-> "reply"],
                           "none")
           ELSE s]
switch_status_remote_packet_cb(s, r, msg) ==
    IF msg.kind # "status" THEN [swallowed |-> FALSE, s |-> s]
    ELSE [swallowed |-> TRUE,
          s |-> IF rconn_is_connected(s, r, "remote")
                THEN rconn_send(s, r, "remote", [id |-> 0, kind |-> "reply"],
                                "none")
                ELSE s]

call_local_packet_cbs(s, r, msg) ==
    LET v == rate_limit_local_packet_cb(s.limiter, msg)
    IN [swallowed |-> v.swallowed, s |-> [s EXCEPT !.limiter = v.lim]]

call_remote_packet_cbs(s, r, msg) == switch_status_remote_packet_cb(s, r, msg)

(* Takes the next message, and shows it to the hooks.                      *)
Receive(s, r, i) ==
    LET c == s.relay[r][i].rc
        got == [s EXCEPT !.relay[r][i].rxbuf = Head(c.in),
                         !.relay[r][i].rc.in = Tail(@)]
        hooks == CASE i = "remote" -> call_remote_packet_cbs(got, r, Head(c.in))
                   [] i = "local" /\ r = "ctl" ->
                          call_local_packet_cbs(got, r, Head(c.in))
                   [] OTHER -> [swallowed |-> FALSE, s |-> got]
    IN IF s.relay[r][i].rxbuf # None \/ ~c.up \/ c.in = <<>> THEN s
       ELSE IF hooks.swallowed
       THEN [hooks.s EXCEPT !.relay[r][i].rxbuf = None,
                            !.progress = TRUE, !.stop = TRUE]
       ELSE hooks.s

(* Passes it on, once the previous one of this half has left the queue of  *)
(* the other rconn; a message for a peer that is not connected is dropped. *)
KeepsBuffer(s, r, i) ==
    LET msg == s.relay[r][i].rxbuf
    IN IF msg = None \/ s.relay[r][i].n_txq > 0 \/ s.stop \/
          ~rconn_is_connected(s, r, Peer(i)) THEN s
       ELSE rconn_send([s EXCEPT !.progress = TRUE], r, Peer(i), msg, "half")
Pass(s, r, i) ==
    LET msg == s.relay[r][i].rxbuf
        freed == [s EXCEPT !.relay[r][i].rxbuf = None]
    IN IF s.stop \/ msg = None \/ s.relay[r][i].n_txq > 0 THEN s
       ELSE IF ~rconn_is_connected(s, r, Peer(i)) THEN freed
       ELSE rconn_send([freed EXCEPT !.progress = TRUE], r, Peer(i), msg,
                       "half")

RunHalf(s, r, i) ==
    IF s.stop THEN s
    ELSE After(Receive(s, r, i), LAMBDA t : Pass(t, r, i))

Iteration(s, r) ==
    IF ~s.progress THEN s
    ELSE After(RunHalf([s EXCEPT !.progress = FALSE, !.stop = FALSE],
                       r, "local"),
               LAMBDA t : RunHalf(t, r, "remote"))

relay_destroy(s, r) ==
    [s EXCEPT !.relay[r] = [local |-> Half(FALSE), remote |-> Half(FALSE)],
              !.open = @ \ {r}]

relay_run(s, r) ==
    LET run == After(rconn_run(s, r, "local"),
                     LAMBDA t : rconn_run(t, r, "remote"))
        end == FoldLeft(LAMBDA t, n : After(t, LAMBDA x : Iteration(x, r)),
                        [run EXCEPT !.progress = TRUE],
                        [n \in 1..RELAY_ITERATIONS |-> n])
        rest == [end EXCEPT !.progress = FALSE, !.stop = FALSE]
        dead == \E i \in Sides : ~end.relay[r][i].rc.up
    IN IF r \notin s.open THEN s
       ELSE IF r = "mgmt" /\ dead THEN relay_destroy(rest, r)
       ELSE rest

relay_create(s, r, up) ==
    [s EXCEPT !.relay[r] = [local |-> Half(up), remote |-> Half(up)],
              !.open = @ \union {r}]

(* A client waits on the listening socket; the connection to the datapath  *)
(* that the new relay needs may fail.                                      *)
relay_accept(s, opened) ==
    IF ~s.waiting \/ "mgmt" \in s.open THEN s
    ELSE IF opened THEN relay_create([s EXCEPT !.waiting = FALSE], "mgmt", TRUE)
    ELSE [s EXCEPT !.waiting = FALSE]

(***************************************************************************)
(* Behaviour                                                               *)
(***************************************************************************)
NoMail == [r \in Relays |-> [i \in Sides |-> <<>>]]

rate_limit_start == [queue |-> <<>>, tokens |-> rate_limit, since |-> 0,
                     n_txq |-> 0, granted |-> rate_limit]

RelayInit ==
    /\ sc = relay_create([relay |-> [r \in Relays |->
                              [local |-> Half(FALSE), remote |-> Half(FALSE)]],
                          open |-> {}, waiting |-> FALSE, progress |-> FALSE,
                          stop |-> FALSE, limiter |-> rate_limit_start],
                         "ctl", TRUE)
    /\ \E most \in Limits :
       peers = [most |-> most, sent |-> [r \in Relays |-> [i \in Sides |-> 0]],
                got |-> NoMail, drops |-> 0, clients |-> 0]

Loop ==
    \E opened \in BOOLEAN :
        \E a \in {relay_run(sc, "ctl")} :
            \E b \in {relay_run(a, "mgmt")} :
                sc' = rate_limit_periodic_cb(relay_accept(b, opened))
    /\ UNCHANGED peers

(* A far end sends on a connection that is up.                             *)
Send(r, i, kind) ==
    /\ r \in sc.open
    /\ sc.relay[r][i].rc.up
    /\ peers.sent[r][i] < peers.most[r][i]
    /\ kind \in IF i = "local" THEN LocalKinds ELSE RemoteKinds
    /\ peers' = [peers EXCEPT !.sent[r][i] = @ + 1]
    /\ sc' = [sc EXCEPT !.relay[r][i].rc.in =
                Append(@, [id |-> peers.sent[r][i] + 1, kind |-> kind])]

(* A far end reads what the kernel holds for it.                           *)
Read(r, i) ==
    /\ sc.relay[r][i].rc.sock # <<>>
    /\ peers' = [peers EXCEPT !.got[r][i] =
                    Append(@, Head(sc.relay[r][i].rc.sock))]
    /\ sc' = [sc EXCEPT !.relay[r][i].rc.sock = Tail(@)]

Drop(r, i) ==
    /\ sc.relay[r][i].rc.up
    /\ peers.drops < MaxDrops
    /\ peers' = [peers EXCEPT !.drops = @ + 1]
    /\ sc' = disconnect(sc, r, i)

(* Only the reliable connections of the controller's relay come back.      *)
Reconnect(i) ==
    /\ ~sc.relay["ctl"][i].rc.up
    /\ sc' = [sc EXCEPT !.relay["ctl"][i].rc.up = TRUE]
    /\ UNCHANGED peers

Client ==
    /\ peers.clients = 0
    /\ \E i \in Sides : peers.most["mgmt"][i] > 0
    /\ peers' = [peers EXCEPT !.clients = 1]
    /\ sc' = [sc EXCEPT !.waiting = TRUE]

(* Beyond a full bucket, more time makes no difference.                    *)
Tick ==
    /\ sc.limiter.since * rate_limit < burst_limit * Cost
    /\ sc' = [sc EXCEPT !.limiter.since = @ + 1]
    /\ UNCHANGED peers

RelayNext ==
    \/ Loop
    \/ \E r \in Relays, i \in Sides :
        \/ \E kind \in LocalKinds \union RemoteKinds : Send(r, i, kind)
        \/ Read(r, i)
        \/ Drop(r, i)
    \/ \E i \in Sides : Reconnect(i)
    \/ Client
    \/ Tick

-----------------------------------------------------------------------------
(* What the two far ends of a relay get was sent once and arrives in the   *)
(* order of sending: neither a slow peer, nor a lost connection, nor the   *)
(* messages the hooks answer make relay_run() repeat a message or let one  *)
(* pass another.  Messages that do not unpack are excepted: the limiter    *)
(* may hold back one of them and not the next.                             *)
InOrder ==
    \A r \in Relays, i \in Sides :
        LET whole == SelectSeq(peers.got[r][i], LAMBDA m :
                         m.kind \notin {"reply", "broken", "garbled"})
        IN \A a, b \in DOMAIN whole : a < b => whole[a].id < whole[b].id

(* A status request is the secure channel's own business: the datapath     *)
(* never sees one, and the client gets no more answers than it asked.      *)
StatusStaysHere ==
    \A r \in Relays :
        /\ \A n \in DOMAIN peers.got[r]["local"] :
               peers.got[r]["local"][n].kind # "status"
        /\ Len(SelectSeq(peers.got[r]["remote"],
                         LAMBDA m : m.kind = "reply"))
               <= peers.sent[r]["remote"]

(* Nothing stays behind: once the far ends stop sending, every message     *)
(* that a relay or the limiter holds has been passed on or dropped; no     *)
(* half waits for ever for its count of messages in transit to reach zero. *)
Idle ==
    /\ sc.limiter.queue = <<>>
    /\ \A r \in sc.open, i \in Sides :
        LET h == sc.relay[r][i] IN
        h.rxbuf = None /\ h.rc.in = <<>> /\ h.rc.txq = <<>> /\ h.n_txq = 0

(* --rate-limit: the packet-ins that reached the controller were paid for  *)
(* with tokens of the bucket.                                              *)
RateLimited ==
    LET passed == Len(SelectSeq(peers.got["ctl"]["remote"],
                                LAMBDA m : m.kind = "packet_in"))
    IN passed * Cost <= sc.limiter.granted

=============================================================================
