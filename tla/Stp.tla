-------------------------------- MODULE Stp --------------------------------
(***************************************************************************)
(* lib/stp.c: the spanning tree protocol of a network of bridges.          *)
(*                                                                         *)
(* The functions of stp.c call each other on a struct stp; here each one   *)
(* is an operator from a bridge to the bridge it leaves, in which `out' is *)
(* the sequence of the BPDUs given to send_bpdu().                         *)
(*                                                                         *)
(* A unit of time is a second (the code counts 1/256 s).  Nobody calls     *)
(* stp_set_hello_time(), stp_set_max_age(), stp_set_forward_delay(), the   *)
(* priority setters or stp_port_disable_change_detection(): the times are  *)
(* the defaults of stp_create() and every change is detected.              *)
(***************************************************************************)
EXTENDS Integers, Sequences, FiniteSets, SequencesExt

CONSTANTS Bridges,       \* bridge_id of every bridge: numbers
          N,             \* ports 1..N of every bridge
          Peer,          \* Peer[<<b, p>>]: the port at the other end of the link
          PathCost,      \* PathCost[<<b, p>>]: path_cost
          BigEndian,     \* the byte order of the host
          MaxFaults      \* BPDUs lost and ports that go down or up

VARIABLES bridge,        \* struct stp of every bridge
          link,          \* link[<<b, p>>]: BPDUs under way to the port
          faults

OFF == -1                \* a timer that is not active
HELLO == 2
MAX_AGE == 6
FORWARD_DELAY == 4
HOLD == 1
MESSAGE_AGE_INCREMENT == 1

Ports == [i \in 1..N |-> i]

\* Op(b), with b evaluated once.
After(b, Op(_)) == CHOOSE r \in {Op(x) : x \in {b}} : TRUE
ForEachEnabledPort(Op(_, _), b) ==
    LET Visit(x, p) == IF x.ports[p].state # "DISABLED" THEN Op(x, p) ELSE x
    IN FoldLeft(LAMBDA x, p : After(x, LAMBDA y : Visit(y, p)), b, Ports)

Set(b, p, f, v) == [b EXCEPT !.ports[p][f] = v]

stp_is_root_bridge(b) == b.id = b.root
stp_is_designated_port(b, p) == b.ports[p].dbridge = b.id /\ b.ports[p].dport = p

stp_send_bpdu(b, p, bpdu) == [b EXCEPT !.out = Append(@, <<p, bpdu>>)]

----------------------------------------------------------------------------
\* flags is a byte; on a little-endian host htons() of either flag has no bit in
\* a byte.
stp_transmit_config(b, p) ==
    LET root == stp_is_root_bridge(b)
        age == IF root THEN 0 ELSE b.ports[b.root_port].age + MESSAGE_AGE_INCREMENT
        config == [type |-> "CONFIG", root |-> b.root, cost |-> b.cost, bridge |-> b.id,
                   port |-> p, age |-> age,
                   ack |-> BigEndian /\ b.ports[p].ack, tc |-> BigEndian /\ b.tc]
    IN IF ~root /\ b.root_port = 0 THEN b
       ELSE IF b.ports[p].hold # OFF THEN Set(b, p, "pending", TRUE)
       ELSE IF age >= MAX_AGE THEN b
       ELSE stp_send_bpdu(Set(Set(Set(b, p, "ack", FALSE), p, "pending", FALSE), p, "hold", 0),
                          p, config)

stp_transmit_tcn(b) ==
    IF b.root_port = 0 THEN b ELSE stp_send_bpdu(b, b.root_port, [type |-> "TCN"])

stp_config_bpdu_generation(b) ==
    ForEachEnabledPort(LAMBDA x, p : IF stp_is_designated_port(x, p)
                                     THEN stp_transmit_config(x, p) ELSE x, b)

\* Lexicographic order of two sequences of numbers of one length.
Before(s, t) == \E i \in DOMAIN s : s[i] < t[i] /\ \A j \in 1..(i - 1) : s[j] = t[j]

stp_supersedes_port_info(b, p, config) ==
    LET port == b.ports[p]
        new == <<config.root, config.cost, config.bridge>>
        old == <<port.droot, port.dcost, port.dbridge>>
    IN \/ Before(new, old)
       \/ new = old /\ (config.bridge # b.id \/ config.port <= port.dport)

InformationNeverAges(b, p, config) ==
    [b EXCEPT !.ports[p] = [@ EXCEPT !.droot = config.root, !.dcost = config.cost,
                                     !.dbridge = config.bridge, !.dport = config.port]]
stp_record_config_information(b, p, config) ==
    [b EXCEPT !.ports[p] = [@ EXCEPT !.droot = config.root, !.dcost = config.cost,
                                     !.dbridge = config.bridge, !.dport = config.port,
                                     !.age = config.age]]

\* The times in the BPDU are the root's, the same ones.
stp_record_config_timeout_values(b, config) == [b EXCEPT !.tc = BigEndian /\ config.tc]

stp_become_designated_port(b, p) ==
    [b EXCEPT !.ports[p] = [@ EXCEPT !.droot = b.root, !.dcost = b.cost,
                                     !.dbridge = b.id, !.dport = p]]

----------------------------------------------------------------------------
stp_supersedes_root(b, root, p) ==
    LET Key(q) == LET port == b.ports[q]
                  IN <<port.droot, port.dcost + PathCost[<<b.id, q>>], port.dbridge,
                       port.dport, q>>
    IN Before(Key(p), Key(root))

stp_root_selection(b) ==
    LET Better(root, p) ==
          IF \/ b.ports[p].state = "DISABLED"
             \/ stp_is_designated_port(b, p) \/ b.ports[p].droot >= b.id
             \/ root # 0 /\ ~stp_supersedes_root(b, root, p)
          THEN root ELSE p
        r == FoldLeft(Better, 0, Ports)
    IN [b EXCEPT !.root_port = r,
                 !.root = IF r = 0 THEN b.id ELSE b.ports[r].droot,
                 !.cost = IF r = 0 THEN 0 ELSE b.ports[r].dcost + PathCost[<<b.id, r>>]]

stp_designated_port_selection(b) ==
    LET Select(x, p) ==
          LET port == x.ports[p]
          IN IF \/ stp_is_designated_port(x, p)
                \/ port.droot # x.root
                \/ Before(<<x.cost, x.id, p>>, <<port.dcost, port.dbridge, port.dport + 1>>)
             THEN stp_become_designated_port(x, p) ELSE x
    IN ForEachEnabledPort(Select, b)

stp_configuration_update(b) == After(stp_root_selection(b), stp_designated_port_selection)

\* The client reads the ports whose state changed from first_changed_port on.
stp_set_port_state(b, p, state) ==
    LET new == state # b.ports[p].state /\ ~b.ports[p].changed
    IN [b EXCEPT !.ports[p].state = state,
                 !.ports[p].changed = @ \/ new,
                 !.first_changed_port = IF new /\ p < @ THEN p ELSE @]

stp_topology_change_detection(b) ==
    [(IF stp_is_root_bridge(b) THEN [b EXCEPT !.tc = TRUE, !.tc_timer = 0]
      ELSE IF b.tc_detected THEN b
      ELSE [stp_transmit_tcn(b) EXCEPT !.tcn_timer = 0])
     EXCEPT !.tc_detected = TRUE]

stp_make_forwarding(b, p) ==
    IF b.ports[p].state = "BLOCKING"
    THEN Set(stp_set_port_state(b, p, "LISTENING"), p, "delay", 0) ELSE b

stp_make_blocking(b, p) ==
    IF b.ports[p].state \in {"DISABLED", "BLOCKING"} THEN b
    ELSE Set(stp_set_port_state(IF b.ports[p].state \in {"FORWARDING", "LEARNING"}
                                THEN stp_topology_change_detection(b) ELSE b,
                                p, "BLOCKING"), p, "delay", OFF)

stp_port_state_selection(b) ==
    LET Quiet(x, p) == Set(Set(x, p, "pending", FALSE), p, "ack", FALSE)
        Select(x, p) ==
          CASE p = x.root_port -> stp_make_forwarding(Quiet(x, p), p)
            [] p # x.root_port /\ stp_is_designated_port(x, p) ->
                 stp_make_forwarding(Set(x, p, "age", OFF), p)
            [] OTHER -> stp_make_blocking(Quiet(x, p), p)
    IN ForEachEnabledPort(Select, b)

stp_become_root_bridge(b) ==
    [After([stp_topology_change_detection(b) EXCEPT !.tcn_timer = OFF], stp_config_bpdu_generation)
     EXCEPT !.hello_timer = 0]

\* After an update, a bridge that was not the root and is.
IfBecameRoot(before, b) ==
    After(b, LAMBDA x : IF stp_is_root_bridge(x) /\ ~stp_is_root_bridge(before)
                        THEN stp_become_root_bridge(x) ELSE x)

Reselected(b) == After(stp_configuration_update(b), stp_port_state_selection)

----------------------------------------------------------------------------
\* stp_received_config_bpdu() and stp_received_tcn_bpdu(), on a port that is not
\* disabled (stp_received_bpdu()).
stp_received_config_bpdu(b, p, config) ==
    LET Demoted(x) ==
          LET off == [x EXCEPT !.hello_timer = OFF]
          IN IF stp_is_root_bridge(x) \/ ~stp_is_root_bridge(b) THEN x
             ELSE IF ~x.tc_detected THEN off
             ELSE [stp_transmit_tcn([off EXCEPT !.tc_timer = OFF]) EXCEPT !.tcn_timer = 0]
        Acked(x) == IF BigEndian /\ config.ack
                    THEN [x EXCEPT !.tc_detected = FALSE, !.tcn_timer = OFF] ELSE x
        Passed(x) ==
          IF p # x.root_port THEN x
          ELSE After(stp_config_bpdu_generation(stp_record_config_timeout_values(x, config)),
                     Acked)
    IN CASE config.age >= MAX_AGE -> b
         [] config.age < MAX_AGE /\ stp_supersedes_port_info(b, p, config) ->
              After(After(Reselected(stp_record_config_information(b, p, config)), Demoted), Passed)
         [] OTHER -> IF stp_is_designated_port(b, p) THEN stp_transmit_config(b, p) ELSE b

stp_acknowledge_topology_change(b, p) == stp_transmit_config(Set(b, p, "ack", TRUE), p)

stp_received_tcn_bpdu(b, p) ==
    IF stp_is_designated_port(b, p)
    THEN After(stp_topology_change_detection(b),
               LAMBDA x : stp_acknowledge_topology_change(x, p)) ELSE b

stp_received_bpdu(b, p, bpdu) ==
    CASE b.ports[p].state = "DISABLED" -> b
      [] b.ports[p].state # "DISABLED" /\ bpdu.type = "CONFIG" ->
           stp_received_config_bpdu(b, p, bpdu)
      [] OTHER -> stp_received_tcn_bpdu(b, p)

----------------------------------------------------------------------------
\* The timers.  stp_timer_expired() after a second.
stp_timer_expired(value, timeout) == value # OFF /\ value + 1 >= timeout
Advanced(value, timeout) ==
    IF value = OFF \/ value + 1 >= timeout THEN OFF ELSE value + 1

stp_hello_timer_expiry(b) == [stp_config_bpdu_generation(b) EXCEPT !.hello_timer = 0]
stp_tcn_timer_expiry(b) == [stp_transmit_tcn(b) EXCEPT !.tcn_timer = 0]
stp_topology_change_timer_expiry(b) == [b EXCEPT !.tc_detected = FALSE, !.tc = FALSE]

KeepsOldRoot(b, p) == b
stp_message_age_timer_expiry(b, p) ==
    IfBecameRoot(b, Reselected(stp_become_designated_port(b, p)))

stp_is_designated_for_some_port(b) ==
    \E p \in 1..N : b.ports[p].state # "DISABLED" /\ b.ports[p].dbridge = b.id

stp_forward_delay_timer_expiry(b, p) ==
    CASE b.ports[p].state = "LISTENING" ->
           Set(stp_set_port_state(b, p, "LEARNING"), p, "delay", 0)
      [] b.ports[p].state = "LEARNING" ->
           LET c == stp_set_port_state(b, p, "FORWARDING")
           IN IF stp_is_designated_for_some_port(c) THEN stp_topology_change_detection(c) ELSE c
      [] OTHER -> b

stp_hold_timer_expiry(b, p) ==
    IF b.ports[p].pending THEN stp_transmit_config(b, p) ELSE b

BridgeTimer(b, f, timeout, Expiry(_)) ==
    After(b, LAMBDA x : LET c == [x EXCEPT ![f] = Advanced(@, timeout)]
                        IN IF stp_timer_expired(x[f], timeout) THEN After(c, Expiry) ELSE c)
PortTimer(b, p, f, timeout, Expiry(_, _)) ==
    After(b, LAMBDA x : LET c == Set(x, p, f, Advanced(x.ports[p][f], timeout))
                        IN IF stp_timer_expired(x.ports[p][f], timeout)
                           THEN After(c, LAMBDA y : Expiry(y, p)) ELSE c)

stp_tick(b) ==
    LET b1 == BridgeTimer(b, "hello_timer", HELLO, stp_hello_timer_expiry)
        b2 == BridgeTimer(b1, "tcn_timer", HELLO, stp_tcn_timer_expiry)
        b3 == BridgeTimer(b2, "tc_timer", MAX_AGE + FORWARD_DELAY,
                          stp_topology_change_timer_expiry)
        Aged(x, p) == PortTimer(x, p, "age", MAX_AGE, stp_message_age_timer_expiry)
        Delayed(x, p) ==
          PortTimer(PortTimer(x, p, "delay", FORWARD_DELAY, stp_forward_delay_timer_expiry),
                    p, "hold", HOLD, stp_hold_timer_expiry)
    IN ForEachEnabledPort(Delayed, ForEachEnabledPort(Aged, b3))

\* stp_get_changed_port() until it finds none, as stp_periodic_cb() does.
Drained(b) ==
    [b EXCEPT !.ports = [p \in 1..N |->
                           LET port == b.ports[p]
                           IN IF p >= b.first_changed_port /\ port.changed
                              THEN [port EXCEPT !.changed = FALSE, !.seen = port.state]
                              ELSE port],
              !.first_changed_port = N + 1]

----------------------------------------------------------------------------
stp_initialize_port(b, p, state) ==
    [stp_set_port_state(stp_become_designated_port(b, p), p, state)
     EXCEPT !.ports[p] = [@ EXCEPT !.ack = FALSE, !.pending = FALSE,
                                   !.age = OFF, !.delay = OFF, !.hold = OFF]]

stp_port_enable(b, p) ==
    IF b.ports[p].state = "DISABLED"
    THEN stp_port_state_selection(stp_initialize_port(b, p, "BLOCKING")) ELSE b

stp_port_disable(b, p) ==
    LET off == [stp_set_port_state(stp_become_designated_port(b, p), p, "DISABLED")
                EXCEPT !.ports[p] = [@ EXCEPT !.ack = FALSE, !.pending = FALSE,
                                              !.age = OFF, !.delay = OFF]]
    IN IF b.ports[p].state = "DISABLED" THEN b ELSE IfBecameRoot(b, Reselected(off))

\* stp_create(), and the port watcher enables every port.
stp_create(id) ==
    LET port(p) == [state |-> "DISABLED", droot |-> id, dcost |-> 0, dbridge |-> id,
                    dport |-> p, ack |-> FALSE, pending |-> FALSE, age |-> OFF,
                    delay |-> OFF, hold |-> OFF, changed |-> FALSE, seen |-> "DISABLED"]
    IN [id |-> id, root |-> id, cost |-> 0, root_port |-> 0, tc_detected |-> FALSE,
        tc |-> FALSE, hello_timer |-> 0, tcn_timer |-> OFF, tc_timer |-> OFF,
        first_changed_port |-> N + 1, out |-> << >>, ports |-> [p \in 1..N |-> port(p)]]

----------------------------------------------------------------------------
(* The network. *)
Ends == Bridges \X (1..N)

\* The BPDUs that b has sent go to the other ends of its links.
Sent(links, b) ==
    FoldLeft(LAMBDA l, o : LET to == Peer[<<b.id, o[1]>>] IN [l EXCEPT ![to] = Append(@, o[2])],
             links, b.out)

Installed(b) == [bridge EXCEPT ![b.id] = [b EXCEPT !.out = << >>]]

Init ==
    /\ bridge = [id \in Bridges |->
                   FoldLeft(LAMBDA x, p : stp_port_enable(x, p), stp_create(id), Ports)]
    /\ link = [e \in Ends |-> << >>]
    /\ faults = 0

Deliver(e) ==
    /\ link[e] # << >>
    /\ \E b \in {stp_received_bpdu(bridge[e[1]], e[2], Head(link[e]))} :
          /\ bridge' = Installed(b)
          /\ link' = Sent([link EXCEPT ![e] = Tail(@)], b)
    /\ UNCHANGED faults

\* stp_periodic_cb() of every bridge, once a second; BPDUs take less than that.
Tick ==
    /\ \A e \in Ends : link[e] = << >>
    /\ \E ticked \in {[id \in Bridges |-> After(stp_tick(bridge[id]), Drained)]} :
          /\ bridge' = [id \in Bridges |-> [ticked[id] EXCEPT !.out = << >>]]
          /\ link' = [e \in Ends |->
                        LET from == Peer[e]
                            sent == SelectSeq(ticked[from[1]].out, LAMBDA o : o[1] = from[2])
                        IN [i \in DOMAIN sent |-> sent[i][2]]]
    /\ UNCHANGED faults

\* stp_port_changed_cb(): a port goes down or comes back.
Change(e) ==
    /\ faults < MaxFaults
    /\ faults' = faults + 1
    /\ \E b \in {IF bridge[e[1]].ports[e[2]].state = "DISABLED"
                 THEN stp_port_enable(bridge[e[1]], e[2])
                 ELSE stp_port_disable(bridge[e[1]], e[2])} :
          bridge' = Installed(b) /\ link' = Sent(link, b)

\* A BPDU is lost on the way.
Lose(e) ==
    /\ link[e] # << >>
    /\ faults < MaxFaults
    /\ faults' = faults + 1
    /\ link' = [link EXCEPT ![e] = Tail(@)]
    /\ UNCHANGED bridge

Next == (\E e \in Ends : Deliver(e) \/ Change(e) \/ Lose(e)) \/ Tick

----------------------------------------------------------------------------
Up(e) == bridge[e[1]].ports[e[2]].state # "DISABLED"
Forwards(e) == bridge[e[1]].ports[e[2]].state = "FORWARDING"
Links == {e \in Ends : Before(e, Peer[e])}

\* Links that carry frames, as a relation between bridges.
Carries(L) == {{e[1], Peer[e][1]} : e \in L}
RECURSIVE Reach(_, _)
Reach(S, L) ==
    LET T == S \cup UNION {x \in Carries(L) : x \cap S # {}}
    IN IF T = S THEN S ELSE Reach(T, L)

Active == {e \in Links : Forwards(e) /\ Forwards(Peer[e])}
Working == {e \in Links : Up(e) /\ Up(Peer[e])}

\* No frame can go round: every link that forwards at both ends joins two parts
\* of the network that no other forwarding link joins (a port forwards only
\* twice FORWARD_DELAY after it was selected, and every bridge has heard of the
\* new tree by then).
NoForwardingLoop == \A e \in Active : Peer[e][1] \notin Reach({e[1]}, Active \ {e})

\* What a bridge knows of the root ages: the timer of the root port runs, so
\* that a root that is gone is noticed (stp_message_age_timer_expiry()).
RootPortAges ==
    \A id \in Bridges : LET b == bridge[id]
                        IN b.root_port # 0 => /\ b.ports[b.root_port].age # OFF
                                              /\ b.ports[b.root_port].state # "DISABLED"

\* The client misses no change of state: stp_get_changed_port() starts at
\* first_changed_port.
NoChangeMissed ==
    \A id \in Bridges : \A p \in 1..N :
        LET b == bridge[id]
        IN /\ b.ports[p].changed => b.first_changed_port <= p
           /\ b.ports[p].seen # b.ports[p].state => b.ports[p].changed

\* Once no BPDU is lost and no port goes up or down, the bridges of every connected part agree
\* on its smallest identifier as the root, and the links that forward connect
\* what the links that work connect.
Converged ==
    \A id \in Bridges :
        /\ \A j \in Reach({id}, Working) : bridge[id].root <= j
        /\ bridge[id].root \in Reach({id}, Working)
        /\ Reach({id}, Active) = Reach({id}, Working)
=============================================================================
