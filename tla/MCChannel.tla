------------------------------ MODULE MCChannel ------------------------------
(***************************************************************************)
(* The secure channel (ofprotocol) and the libraries that its connections  *)
(* are made of: rconn, vconn, the relays with their hooks, in-band         *)
(* control, fail-over, and waiting for events.  They share no state: a     *)
(* behaviour is one of the part that is chosen at the start, and the other *)
(* parts stay at their beginning.                                          *)
(***************************************************************************)
EXTENDS Rconn

CONSTANT Parts   \* the parts to be checked

VARIABLES
    part,
    sc, peers,
    dp, nics, chan, pw, inb, main, ctl, slow,
    remote, index, epoch, local_port, local_port_ant, looping, reachable, left,
    ends, call, log,
    todo, child, listed, exited, noticed, blocked, pending, readable, signaled, waiters,
    timeout, sleep

-----------------------------------------------------------------------------
(* Relay: the controller's relay with traffic, or a management client's.   *)
Most(a, b, c, d) == [ctl |-> [local |-> a, remote |-> b],
                     mgmt |-> [local |-> c, remote |-> d]]
RelayLimits == {Most(2, 1, 0, 0), Most(0, 0, 1, 2)}
Rel ==
    INSTANCE Relay WITH LocalKinds <- {"packet_in", "broken"}, RemoteKinds <- {"request", "status"},
        Limits <- RelayLimits, MaxDrops <- 1, SOCKET <- 1, RELAY_ITERATIONS <- 2, DRAIN <- 1,
        TX_LIMIT <- 1, Cost <- 2, rate_limit <- 1, burst_limit <- 1

(* InBand: two ports, and a datapath that reads at once or is slow at      *)
(* first.                                                                  *)
Inb == INSTANCE InBand WITH Ports <- {1, 2}, MaxEvents <- 1, Slow <- {"never", "full"}

(* Failover: three controllers, of which any but at least one answer.      *)
Fail ==
    INSTANCE Failover WITH running <- looping, num_controllers <- 3, max_backoff <- 2,
        MaxMoves <- 2, MaxLosses <- 2

(* Waiting: a program with two subprocesses and a timer.                   *)
Wait == INSTANCE Waiting WITH Procs <- {"p1", "p2"}, Timeout <- 2

-----------------------------------------------------------------------------
(* Vconn: connections between two ends of this code, one of which makes a  *)
(* request answered in one or two parts while the other also sends a       *)
(* packet-in, and connections to another program.                          *)
Msg(type, version, xid, len) ==
    [type |-> type, version |-> version, xid |-> xid, more |-> FALSE, len |-> len]

Request == Msg("request", 4, 7, 2)
PacketIn == Msg("packet_in", 4, 0, 5)
Nothing == [a |-> <<>>, b |-> <<>>]

Plans ==
    {[foreign |-> FALSE, xid |-> 7, parts |-> n,
      todo |-> [a |-> <<Request>>, b |-> ps]] :
        n \in 1..2, ps \in {<<>>, <<PacketIn>>, <<PacketIn, PacketIn>>}}
    \union {[foreign |-> TRUE, xid |-> 0, parts |-> 1, todo |-> Nothing]}

Foreign ==
    {Msg("hello", 4, 0, 2), Msg("hello", 1, 0, 2),
     Msg("hello", 5, 0, 3),
     Msg("packet_in", 4, 0, 4),
     Msg("echo_request", 4, 0, 2),
     Msg("packet_in", 1, 0, 3),
     Msg("barrier_reply", 4, 0, 2),
     Msg("echo_request", 1, 0, 1)}

Con == INSTANCE Vconn WITH MaxForeign <- 3, SOCKET <- 4, Breaks <- TRUE

-----------------------------------------------------------------------------
relayVars == <<sc, peers>>
inbVars == <<dp, nics, chan, pw, inb, main, ctl, slow>>
failVars == <<remote, index, epoch, local_port, local_port_ant, looping, reachable, left>>
vconnVars == <<ends, call, log>>
waitVars == <<todo, child, listed, exited, noticed, blocked, pending, readable, signaled, waiters,
              timeout, sleep>>
suiteVars == <<part, vars, relayVars, inbVars, failVars, vconnVars, waitVars>>

SuiteInit ==
    /\ part \in Parts
    /\ Init
    /\ Rel!RelayInit /\ (part # "relay" => peers.most = CHOOSE most \in RelayLimits : TRUE)
    /\ Inb!InBandInit /\ (part # "in_band" => slow = "never")
    /\ Fail!FailoverInit /\ (part # "failover" => reachable = {1} /\ remote = Fail!Void)
    /\ Con!VconnInit /\ (part # "vconn" => log.foreign /\ ends.net = "up")
    /\ Wait!WaitInit

\* A step of part p leaves the variables of all others alone.
Only(p) ==
    /\ part = p /\ UNCHANGED part
    /\ IF p = "rconn" THEN TRUE ELSE UNCHANGED vars
    /\ IF p = "relay" THEN TRUE ELSE UNCHANGED relayVars
    /\ IF p = "in_band" THEN TRUE ELSE UNCHANGED inbVars
    /\ IF p = "failover" THEN TRUE ELSE UNCHANGED failVars
    /\ IF p = "vconn" THEN TRUE ELSE UNCHANGED vconnVars
    /\ IF p = "waiting" THEN TRUE ELSE UNCHANGED waitVars

SuiteNext ==
    \/ Only("rconn") /\ Next
    \/ Only("relay") /\ Rel!RelayNext
    \/ Only("in_band") /\ Inb!InBandNext
    \/ Only("failover") /\ Fail!FailoverNext
    \/ Only("vconn") /\ Con!VconnNext
    \/ Only("waiting") /\ Wait!WaitNext

\* rconn_run() is called in every round of the main loop, and an open or a
\* handshake that is tried again and again succeeds in the end.
RconnFair ==
    /\ WF_vars(part = "rconn" /\ rconn_run) /\ WF_vars(part = "rconn" /\ Tick)
    /\ SF_vars(part = "rconn" /\ run_BACKOFF_open) /\ SF_vars(part = "rconn" /\ run_CONNECTING_ok)

\* The main loop runs, time passes, and the far ends read what they are sent.
RelayFair ==
    /\ WF_relayVars(part = "relay" /\ Rel!Loop) /\ WF_relayVars(part = "relay" /\ Rel!Tick)
    /\ \A r \in Rel!Relays, i \in Rel!Sides : WF_relayVars(part = "relay" /\ Rel!Read(r, i))

\* The main loop runs, the datapath answers, and its socket drains.
InBandFair ==
    /\ WF_inbVars(part = "in_band" /\ Inb!Loop) /\ WF_inbVars(part = "in_band" /\ Inb!Serve)
    /\ WF_inbVars(part = "in_band" /\ Inb!Flush)

\* The main loop runs, time passes, and a handshake that is begun again and
\* again with a controller that answers succeeds in the end.
FailoverFair ==
    /\ WF_failVars(part = "failover" /\ Fail!Loop) /\ WF_failVars(part = "failover" /\ Fail!Second)
    /\ \A c \in Fail!Controllers : SF_failVars(part = "failover" /\ Fail!Connect(c))

\* Main loops call the vconn whenever poll() says there is something to do.
VconnFair ==
    /\ WF_vconnVars(part = "vconn" /\ Con!Complete) /\ WF_vconnVars(part = "vconn" /\ Con!ForeignRead)
    /\ \A e \in Con!Ends : /\ WF_vconnVars(part = "vconn" /\ Con!Send(e))
                           /\ WF_vconnVars(part = "vconn" /\ Con!Receive(e))
                           /\ WF_vconnVars(part = "vconn" /\ Con!Transmit(e))

\* The program runs on, handlers run once their signal is not blocked, and time
\* passes for a program that sleeps.
WaitFair ==
    /\ WF_waitVars(part = "waiting" /\ Wait!Main) /\ WF_waitVars(part = "waiting" /\ Wait!TimePasses)
    /\ WF_waitVars(part = "waiting" /\ Wait!sigchld_handler)
    /\ WF_waitVars(part = "waiting" /\ Wait!signal_handler)

SuiteSpec ==
    /\ SuiteInit /\ [][SuiteNext]_suiteVars
    /\ RconnFair /\ RelayFair /\ InBandFair /\ FailoverFair /\ VconnFair /\ WaitFair
-----------------------------------------------------------------------------
\* A reliable rconn gets connected as long as nobody disconnects it, and a
\* connection whose peer has gone silent is given up (rconn_run()).
ConnectsAgain == KeepsTrying /\ DeadPeerNoticed

\* What goes in comes out, whole, once and in order.  Through a relay every
\* message gets in order or is dropped with the connection, and a question
\* about the channel's own status is answered here and not passed on
\* (relay_run(), switch_status_remote_packet_cb()); vconn_recv() gives the
\* messages that vconn_send() took, and nothing before the versions are agreed
\* on (vconn-stream.c, vconn.c).
DeliveredInOrder ==
    /\ part = "relay" => Rel!InOrder /\ Rel!StatusStaysHere
    /\ part = "vconn" => Con!Delivered /\ Con!HelloFirst

\* Once the far ends have sent all, a relay does not keep any of it: neither
\* side waits for ever for the other to have room (relay_run()).
Drained == <>[](part = "relay" => Rel!Idle)

\* The rules for in-band control come to be those of the present local port,
\* never of another, and the switch can reach its controller over it
\* (in_band_packet_cb(), port_watcher_local_packet_cb()).
ReachesController ==
    /\ [](part = "in_band" => Inb!RulesFollowLocalPort)
    /\ []<>(part = "in_band" => Inb!ControllerInReach)

\* The switch ends up connected to a controller that answers, whichever one
\* main() and the fail-over hook tried when the local port changed
\* (failover_periodic_cb()).
FindsController == <>[](part = "failover" => Fail!Settled)

\* A transaction ends with all parts of its reply or with an error
\* (vconn_transact()).
TransactEnds == []<>(part = "vconn" => Con!TransactOver)

\* No subprocess ends, no signal comes and no descriptor gets readable without
\* the program noticing, and a wait with a time limit does not go on beyond it
\* (process_wait(), signal_wait(), poll_block(), time_poll()).
NothingMissed ==
    /\ \A p \in {"p1", "p2"} : []<>(part = "waiting" => Wait!ExitNoticed(p))
    /\ []<>(part = "waiting" => Wait!HupNoticed)
    /\ []<>(part = "waiting" => Wait!RequestRead)
    /\ [](part = "waiting" => Wait!NeverOversleeps)

\* With --rate-limit, the packet-ins that reach the controller were paid for with
\* tokens of the bucket (rate_limit_local_packet_cb()).
RateLimited == part = "relay" => Rel!RateLimited
=============================================================================
