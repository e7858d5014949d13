---------------------------- MODULE Failover ----------------------------
(***************************************************************************)
(* Which controller the secure channel tries: the fail-over hook          *)
(* (failover.c), controller discovery (discovery.c) left aside, and        *)
(* main() (secchan.c), which connects again to the first controller when  *)
(* the local port changes and leaves its loop when there is nothing to    *)
(* wait for.  The hook and main() set the same rconn's target without     *)
(* telling each other.                                                    *)
(***************************************************************************)
EXTENDS Naturals

CONSTANTS
    num_controllers,
    max_backoff,
    MaxMoves,        \* bound: changes of the local port
    MaxLosses        \* bound: connections lost

VARIABLES
    remote,          \* remote_rconn: the target (0 is void), connected or not
    index,           \* failover_context.index, from 1
    epoch,           \* seconds since each peer's epoch, up to max_backoff
    local_port,      \* of the port watcher, and the one main() saw last
    local_port_ant,
    running,         \* main() is in its loop
    reachable,       \* controllers that answer
    left             \* moves and losses still to come

failVars == <<remote, index, epoch, local_port, local_port_ant, running,
              reachable, left>>

Controllers == 1..num_controllers
Void == [target |-> 0, up |-> FALSE]
rconn_connect(c) == [target |-> c, up |-> FALSE]
rconn_is_connected(r) == r.up
rconn_is_alive(r) == r.target # 0

is_timed_out(i) == epoch[i] >= max_backoff

(* A switch that starts next to the controller connects at once; any other *)
(* waits for its local port.                                               *)
FailoverInit ==
    /\ reachable \in SUBSET Controllers \ {{}}
    /\ \E near \in BOOLEAN :
        remote = IF near THEN rconn_connect(1) ELSE Void
    /\ index = 1
    /\ epoch = [c \in Controllers |-> 0]
    /\ local_port = 0
    /\ local_port_ant = 0
    /\ running = TRUE
    /\ left = [moves |-> MaxMoves, losses |-> MaxLosses]

(* The connection and the index afterwards, and whether it switched.       *)
Stay(r) == [r |-> r, i |-> index, switched |-> FALSE]
Switch(i) == [r |-> rconn_connect(i), i |-> i, switched |-> TRUE]
SamePeer(r) ==
    IF rconn_is_connected(r) \/ ~is_timed_out(index) THEN Stay(r)
    ELSE Switch(index)
failover_periodic_cb(r) ==
    IF rconn_is_connected(r) \/ ~is_timed_out(index) THEN Stay(r)
    ELSE Switch((index % num_controllers) + 1)

(* main() looks at the local port after the hooks.                         *)
NeverConnects(r) == r
NewLocalPort(r) ==
    IF local_port \in {0, local_port_ant} \/ rconn_is_connected(r) THEN r
    ELSE rconn_connect(1)

(* The body of the loop, and its condition.                                *)
Loop ==
    /\ running
    /\ LET f == failover_periodic_cb(remote)
           r == NewLocalPort(f.r)
       IN /\ remote' = r
          /\ index' = f.i
          /\ epoch' = IF f.switched THEN [epoch EXCEPT ![f.i] = 0] ELSE epoch
          /\ local_port_ant' = IF local_port = 0 THEN local_port_ant
                               ELSE local_port
          /\ running' = (rconn_is_alive(r) \/ local_port = 0)
    /\ UNCHANGED <<local_port, reachable, left>>

(* The rconn completes the handshake with a controller that answers.       *)
Connect(c) ==
    /\ remote = rconn_connect(c)
    /\ c \in reachable
    /\ remote' = [remote EXCEPT !.up = TRUE]
    /\ UNCHANGED <<index, epoch, local_port, local_port_ant, running,
                   reachable, left>>

(* The connection breaks; the rconn keeps trying the same name.            *)
Lose ==
    /\ remote.up /\ left.losses > 0
    /\ remote' = [remote EXCEPT !.up = FALSE]
    /\ left' = [left EXCEPT !.losses = @ - 1]
    /\ reachable' \in SUBSET Controllers \ {{}}
    /\ UNCHANGED <<index, epoch, local_port, local_port_ant, running>>

(* The port watcher finds a local port, or another one.                    *)
Move ==
    /\ left.moves > 0
    /\ left' = [left EXCEPT !.moves = @ - 1]
    /\ local_port' = left.moves
    /\ UNCHANGED <<remote, index, epoch, local_port_ant, running, reachable>>

Second ==
    /\ \E c \in Controllers : epoch[c] < max_backoff
    /\ epoch' = [c \in Controllers |->
                    IF epoch[c] < max_backoff THEN epoch[c] + 1 ELSE epoch[c]]
    /\ UNCHANGED <<remote, index, local_port, local_port_ant, running,
                   reachable, left>>

FailoverNext ==
    \/ Loop
    \/ \E c \in Controllers : Connect(c)
    \/ Lose
    \/ Move
    \/ Second

-----------------------------------------------------------------------------
(* The switch ends up connected to a controller that answers, whatever     *)
(* controller main() and the fail-over hook were trying when the local     *)
(* port changed: each may replace the other's choice, and the hook's index *)
(* goes on as if main() had not.                                           *)
Settled == running /\ remote.up /\ remote.target \in reachable
=============================================================================
