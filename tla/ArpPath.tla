------------------------------ MODULE ArpPath ------------------------------
(***************************************************************************)
(* Forwarding without rules: pipeline_arp_path() learns on which port the  *)
(* first copy of a host's ARP broadcast came, floods it and drops the      *)
(* copies that come on other ports; replies and all other unicast frames   *)
(* follow the learned ports.  The learning table is the list of            *)
(* MacToPortOps; nothing ever removes its expired entries.                 *)
(***************************************************************************)
EXTENDS MacToPortOps, FiniteSets

CONSTANTS Switches,
          Ends,          \* the ends of the links, <<node, port>>
          Peer,          \* end -> the other end
          Hosts,         \* [host -> its end]
          Asked,         \* [host -> whose addresses it asks for]
          LT_TIME,       \* ticks an entry is valid (also BT_TIME_PKT)
          MaxRequests,   \* requests of a host
          MaxFloods,     \* times a switch floods a broadcast
          MaxTicks

VARIABLES learning_table,   \* switch -> entries
          wire,             \* frames under way: [to, frame]
          flooded,          \* <<switch, broadcast>> -> times flooded
          sentArp,          \* host -> requests sent
          ticks,
          expired           \* an entry has expired

arpVars == <<learning_table, wire, flooded, sentArp, ticks, expired>>

\* Links join two ends, and a host is no switch.
Network ==
    /\ \A e \in Ends : e = <<e[1], e[2]>> /\ e[2] \in Nat \ {0}
    /\ Peer \in [Ends -> Ends] /\ \A e \in Ends : Peer[Peer[e]] = e
    /\ \A h \in DOMAIN Hosts : Hosts[h] \in Ends /\ Hosts[h][1] \notin Switches
    /\ \A h \in DOMAIN Hosts : Asked[h] \subseteq {"host", "controller"}
    /\ LT_TIME \in Nat /\ MaxRequests \in Nat

\* Frames: [kind, src, n, tpa] and [kind, src, dst, n, hops]; n numbers the requests of
\* src, tpa is whose address is asked for, hops the switches behind a unicast frame.
Targets == {"host", "controller"}
Requests == [kind : {"request"}, src : DOMAIN Hosts, n : 1 .. MaxRequests, tpa : Targets]
PortsOf(s) == {e[2] : e \in {x \in Ends : x[1] = s}}

Sent(s, ports, frame) == {[to |-> Peer[<<s, p>>], frame |-> frame] : p \in ports}

\* arp_path_send_unicast(): only a port that is live, and the entry is refreshed.
arp_path_send_unicast(table, s, frame) ==
    LET port == mac_to_port_found_port(table, frame.dst, 0)
    IN IF port > 0 /\ port \in PortsOf(s)
       THEN [table |-> mac_to_port_time_refresh(table, frame.dst, LT_TIME, 0),
             out |-> Sent(s, {port}, [frame EXCEPT !.hops = Append(@, s)])]
       ELSE [table |-> table, out |-> {}]

\* The controller's address is left to the rule the controller sets for it.
Flood(s, in, frame) ==
    IF frame.tpa = "controller" THEN {} ELSE Sent(s, PortsOf(s) \ {in}, frame)

\* A broadcast: [table, out].
FloodsAlways(table, s, in, frame) ==
    [table |-> mac_to_port_add(table, frame.src, in, LT_TIME, 0),
     out |-> Flood(s, in, frame)]
LearnsEveryCopy(table, s, in, frame) ==
    LET port == mac_to_port_found_port(table, frame.src, 0)
    IN IF port = -1
       THEN [table |-> mac_to_port_add(table, frame.src, in, LT_TIME, 0),
             out |-> Flood(s, in, frame)]
       ELSE [table |-> mac_to_port_update(table, frame.src, in, LT_TIME, 0), out |-> {}]
ForwardBroadcast(table, s, in, frame) ==
    LET port == mac_to_port_found_port(table, frame.src, 0)
        learned == IF port \in {-1, 0} THEN mac_to_port_add(table, frame.src, in, LT_TIME, 0)
                   ELSE mac_to_port_time_refresh(table, frame.src, LT_TIME, 0)
    IN IF port \in {-1, 0, in} THEN [table |-> learned, out |-> Flood(s, in, frame)]
       ELSE [table |-> table, out |-> {}]

\* A reply: its source is learned, but an entry that is valid keeps its port.
LearnReply(table, in, frame) ==
    CASE mac_to_port_found_port(table, frame.src, 0) = -1 ->
           mac_to_port_add(table, frame.src, in, LT_TIME, 0)
      [] mac_to_port_found_port(table, frame.src, 0) # -1
         /\ mac_to_port_check_timeout(table, frame.src) = 1 ->
           mac_to_port_update(table, frame.src, in, LT_TIME, 0)
      [] OTHER -> mac_to_port_time_refresh(table, frame.src, LT_TIME, 0)

pipeline_arp_path(table, s, in, frame) ==
    CASE frame.kind = "request" -> ForwardBroadcast(table, s, in, frame)
      [] frame.kind = "reply" -> arp_path_send_unicast(LearnReply(table, in, frame), s, frame)
      [] frame.kind = "data" -> arp_path_send_unicast(table, s, frame)

----------------------------------------------------------------------------
ArpInit ==
    /\ learning_table = [s \in Switches |-> << >>]
    /\ wire = {}
    /\ flooded = [x \in Switches \X Requests |-> 0]
    /\ sentArp = [h \in DOMAIN Hosts |-> 0]
    /\ ticks = 0
    /\ expired = FALSE

\* A host asks for the address of another one, or of the controller.
Ask(h) ==
    /\ sentArp[h] < MaxRequests
    /\ sentArp' = [sentArp EXCEPT ![h] = @ + 1]
    /\ \E tpa \in Asked[h] :
         wire' = wire \cup {[to |-> Peer[Hosts[h]], frame |->
                              [kind |-> "request", src |-> h, n |-> sentArp[h] + 1, tpa |-> tpa]]}
    /\ UNCHANGED <<learning_table, flooded, ticks, expired>>

\* A switch takes a frame, in any order.
Forward(s) ==
    \E m \in wire :
        /\ m.to[1] = s
        /\ m.frame.kind = "request" => flooded[<<s, m.frame>>] < MaxFloods
        /\ \E r \in {pipeline_arp_path(learning_table[s], s, m.to[2], m.frame)} :
             /\ learning_table' = [learning_table EXCEPT ![s] = r.table]
             /\ wire' = (wire \ {m}) \cup r.out
             /\ flooded' = IF m.frame.kind = "request" /\ r.out # {}
                           THEN [flooded EXCEPT ![<<s, m.frame>>] = @ + 1] ELSE flooded
        /\ UNCHANGED <<sentArp, ticks, expired>>

\* A host answers a request that is not its own, and sends data when it has the
\* answer.
Hear(h) ==
    \E m \in wire :
        /\ m.to = Hosts[h]
        /\ wire' = (wire \ {m}) \cup
             (CASE m.frame.kind = "request" ->
                     {[to |-> Peer[Hosts[h]], frame |-> [kind |-> "reply", src |-> h, dst |-> m.frame.src,
                                                         n |-> m.frame.n, hops |-> << >>]]}
                [] m.frame.kind = "reply" ->
                     {[to |-> Peer[Hosts[h]], frame |-> [kind |-> "data", src |-> h, dst |-> m.frame.src,
                                                         n |-> m.frame.n, hops |-> << >>]]}
                [] m.frame.kind = "data" -> {})
        /\ UNCHANGED <<learning_table, flooded, sentArp, ticks, expired>>

Tick ==
    /\ ticks < MaxTicks
    /\ ticks' = ticks + 1
    /\ learning_table' = [s \in Switches |->
         [i \in DOMAIN learning_table[s] |->
            [learning_table[s][i] EXCEPT !.left = IF @ >= 0 THEN @ - 1 ELSE @]]]
    /\ expired' = (expired \/ \E s \in Switches : \E i \in DOMAIN learning_table'[s] :
                                 learning_table'[s][i].left = EXPIRED)
    /\ UNCHANGED <<wire, flooded, sentArp>>

ArpNext == \/ \E h \in DOMAIN Hosts : Ask(h) \/ Hear(h)
           \/ \E s \in Switches : Forward(s)
           \/ Tick

ArpSpec == ArpInit /\ [][ArpNext]_arpVars
----------------------------------------------------------------------------
\* As long as no entry has expired, a switch floods a broadcast once, whatever loops
\* the network has and in whatever order the copies come (the port of the first copy
\* is locked).
LoopsCut == ~expired => \A x \in DOMAIN flooded : flooded[x] <= 1

\* As long as no entry has expired, a unicast frame that follows the learned ports
\* never comes to a switch twice, also while the ports are still being learned.
UnicastOnce ==
    ~expired => \A m \in wire : m.frame.kind # "request" =>
        \A i, j \in DOMAIN m.frame.hops : i # j => m.frame.hops[i] # m.frame.hops[j]

\* No frame runs in a loop.
UnicastLoopFree == LoopsCut /\ UnicastOnce
=============================================================================
