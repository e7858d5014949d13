------------------------------- MODULE Ehddp -------------------------------
(***************************************************************************)
(* One network under eHDDP exploration: the ofdatapath switches            *)
(* (udatapath/pipeline.c, packet.c, dp_ports.c), the links between them    *)
(* and the ONOS application (AppComponent.java).  The application starts   *)
(* an exploration by having every switch connected to it flood a REQUEST;  *)
(* a switch that is not connected takes the first copy, makes its input    *)
(* port its in-band local port and floods it on, and answers every other   *)
(* copy with a REPLY; replies climb from parent to parent to a connected   *)
(* switch, whose rule hands them to the application.                       *)
(*                                                                         *)
(* Every packet of the protocol carries the application's MAC_GENERIC, so  *)
(* a table entry's mac is fixed.  Ports are numbered as in dp->ports; the  *)
(* switch with datapath id 1 is Root, which the application reaches out of *)
(* band.                                                                   *)
(***************************************************************************)
EXTENDS MacToPortOps, FiniteSets

CONSTANTS
    Switch, Root,
    Ports,         \* Ports[n]: what is at the other end of each physical port
    HOST,          \* a host, at the other end of a port
    LinkDown,      \* the <<n, port>> whose interface has no carrier
    NonSdn,        \* switches with type_device_general = 2
    Outcomes,      \* what configure_new_local_port_ehddp_UAH may meet
    Repetido,      \* what num_repetido() may find past the end of a packet
    MAX_ELEMENTS,  \* EHDDP_MAX_ELEMENTS
    LIFETIME,      \* 0.8 * time_block, in clock ticks
    Waves,         \* bound: number of explorations
    SlowNetwork    \* packets may outlive their exploration or an entry

ASSUME EhddpAssumption ==
    /\ Root \in Switch /\ Root \notin NonSdn /\ NonSdn \subseteq Switch
    /\ Ports \in [Switch -> Seq(Switch \cup {HOST})]
    /\ Waves \in Nat /\ MAX_ELEMENTS \in Nat /\ LIFETIME \in Nat /\ SlowNetwork \in BOOLEAN
    /\ HOST \notin Switch
    /\ \A n \in Switch : \A i \in 1 .. Len(Ports[n]) :
          Ports[n][i] \in Switch => \E j \in 1 .. Len(Ports[Ports[n][i]]) : Ports[Ports[n][i]][j] = n
    /\ Outcomes \subseteq {"ok", "add_fails", "ip_fails"} /\ Repetido \subseteq BOOLEAN

MAC_GENERIC == "MAC_GENERIC"

NO_PORT == 0      \* dp->local_port == NULL
FREED == -1       \* dp->local_port points to a freed port

VARIABLES
    bt_table,      \* of each switch
    local_port,    \* of each switch: the port whose interface it shares
    moved,         \* switches whose time_no_move_local_port is not 0
    attached,      \* switches connected to the application, its rule installed
    net,           \* packets under way to each <<n, port>>, in order
    timestamp_hddp, configuredLinks, link_sdn_nodes, log_listo,  \* the application's
    sleeping,      \* its exploration thread is in Thread.sleep(TIME_REFRESH)
    joined,        \* history: by which port, and how many links away from
                   \* Root, a switch first had a request to pass on
    floods,        \* history: how often a switch flooded an exploration
    disturbed      \* history: a switch attached or failed in this exploration

switches == <<bt_table, local_port, moved>>
app == <<timestamp_hddp, configuredLinks, link_sdn_nodes, log_listo, sleeping>>
history == <<joined, floods, disturbed>>
vars == <<switches, attached, net, app, history>>

PortNo(n) == 1 .. Len(Ports[n])

\* The port at the other end of a link, and the ports that have a link in use.
OtherEnd(n, i) == <<Ports[n][i], CHOOSE j \in PortNo(Ports[n][i]) : Ports[Ports[n][i]][j] = n>>

Inputs ==
    {x \in UNION {{n} \X PortNo(n) : n \in Switch} :
        /\ Ports[x[1]][x[2]] # HOST
        /\ x \notin LinkDown /\ OtherEnd(x[1], x[2]) \notin LinkDown}

Peer == [x \in Inputs |-> OtherEnd(x[1], x[2])]

Links == {{x[1], Peer[x][1]} : x \in Inputs}

Sdn == Switch \ NonSdn

Request(num_sec, ids) == [opcode |-> 1, num_sec |-> num_sec, ids |-> ids]
Reply(num_sec, ids) == [opcode |-> 2, num_sec |-> num_sec, ids |-> ids]

Quiet == \A x \in Inputs : net[x] = <<>>

\* `network' with p sent by n out of each of the ports `out'.
Sent(network, n, out, p) ==
    [x \in Inputs |->
        IF Peer[x][1] = n /\ Peer[x][2] \in out
        THEN Append(network[x], p) ELSE network[x]]

Init ==
    /\ bt_table = [n \in Switch |-> <<>>]
    /\ local_port = [n \in Switch |-> NO_PORT]
    /\ moved = {}
    /\ attached = {Root}
    /\ net = [x \in Inputs |-> <<>>]
    /\ timestamp_hddp = 0 /\ configuredLinks = {} /\ link_sdn_nodes = {}
    /\ log_listo = FALSE /\ sleeping = FALSE
    /\ joined = [n \in Switch |-> [port |-> NO_PORT, depth |-> 0]]
    /\ floods = [n \in Switch |-> [s \in 1 .. Waves |-> 0]]
    /\ disturbed = FALSE
-----------------------------------------------------------------------------
(* The application *)

\* One round of starteHDDPProcess, up to its sleep: every connected device
\* floods a request of the new exploration.
starteHDDPProcess ==
    /\ ~sleeping /\ timestamp_hddp < Waves
    /\ SlowNetwork \/ Quiet
    /\ timestamp_hddp' = timestamp_hddp + 1
    /\ sleeping' = TRUE
    /\ net' = [x \in Inputs |->
                 LET from == Peer[x][1] IN
                 IF from \in attached
                 THEN Append(net[x], Request(timestamp_hddp + 1, <<from>>)) ELSE net[x]]
    /\ disturbed' = FALSE
    /\ UNCHANGED <<switches, attached, configuredLinks, link_sdn_nodes, log_listo, joined, floods>>

\* The rest of the round: the links found vanish, and once, when the devices
\* are as many as the topology file says, link_sdn_nodes is emptied.
WakeUp ==
    /\ sleeping /\ (SlowNetwork \/ Quiet)
    /\ sleeping' = FALSE
    /\ configuredLinks' = {}
    /\ \/ ~log_listo /\ log_listo' = TRUE /\ link_sdn_nodes' = {}
       \/ UNCHANGED <<log_listo, link_sdn_nodes>>
    /\ UNCHANGED <<switches, attached, net, timestamp_hddp, history>>

\* Mutant: the switch the reply came to is joined to the first of the list.
PathLinks_FirstId(n, ids) ==
    {{ids[k], ids[k + 1]} : k \in 1 .. Len(ids) - 1} \cup {{ids[1], n}}

\* Mutant: the link the reply came by is left out.
PathLinks_NoLast(n, ids) == {{ids[k], ids[k + 1]} : k \in 1 .. Len(ids) - 1}

\* The links a reply names, with the one it reached switch n by.
PathLinks(n, ids) ==
    {{ids[k], ids[k + 1]} : k \in 1 .. Len(ids) - 1} \cup {{ids[Len(ids)], n}}

\* Mutant: the application answers replies as well.
process_AnswersReplies(n, i, p, rest) ==
    /\ net' = Sent(rest, n, {i}, Reply(timestamp_hddp, <<n>>))
    /\ configuredLinks' = configuredLinks \cup PathLinks(n, p.ids)
    /\ UNCHANGED <<timestamp_hddp, link_sdn_nodes, log_listo, sleeping>>

\* The application handles packet p, which came to switch n by port i; `rest'
\* is the network without p.
process(n, i, p, rest) ==
    LET current == p.num_sec = timestamp_hddp
        direct == p.opcode = 1 /\ Len(p.ids) = 1
        opposite == <<p.ids[1], n>> \in link_sdn_nodes
    IN  /\ link_sdn_nodes' = IF current /\ direct /\ ~opposite
                             THEN link_sdn_nodes \cup {<<n, p.ids[1]>>} ELSE link_sdn_nodes
        /\ configuredLinks' =
              IF current /\ ((direct /\ opposite) \/ p.opcode = 2)
              THEN configuredLinks \cup PathLinks(n, p.ids) ELSE configuredLinks
        /\ net' = IF current /\ p.opcode = 1 /\ ~direct
                  THEN Sent(rest, n, {i}, Reply(timestamp_hddp, <<n>>)) ELSE rest
        /\ UNCHANGED <<timestamp_hddp, log_listo, sleeping>>

\* A switch with a local port gets its connection over it (ofprotocol), and
\* the application's rule for eHDDP packets with it.
Attach(n) ==
    /\ n \in Sdn \ attached /\ local_port[n] \in PortNo(n)
    /\ attached' = attached \cup {n}
    /\ disturbed' = TRUE
    /\ UNCHANGED <<switches, net, app, joined, floods>>
-----------------------------------------------------------------------------
(* A switch *)

found_port(n, p) == mac_to_port_found_port(bt_table[n], MAC_GENERIC, p.num_sec)

\* ports_num counts the local port.
num_port_available(n, local) ==
    LET ports_num == Len(Ports[n]) + (IF local = NO_PORT THEN 0 ELSE 1)
        inactive == {i \in 1 .. ports_num - 1 : <<n, i>> \in LinkDown}
    IN  ports_num - Cardinality(inactive) - 1

\* Mutant: the request leaves no entry.
Recorded_Nothing(n, i, p) == bt_table[n]

\* Mutant: a copy on another port moves the entry there.
Recorded_LastPort(n, i, p) ==
    IF bt_table[n] # <<>>
    THEN mac_to_port_update(bt_table[n], MAC_GENERIC, i, LIFETIME, p.num_sec)
    ELSE mac_to_port_add(bt_table[n], MAC_GENERIC, i, LIFETIME, p.num_sec)

\* bt_table after a request: its first entry leads to the application, the
\* ones behind it are the ports other copies came by.
Recorded(n, i, p) ==
    IF found_port(n, p) = 0
    THEN mac_to_port_update(bt_table[n], MAC_GENERIC, i, LIFETIME, p.num_sec)
    ELSE mac_to_port_add(bt_table[n], MAC_GENERIC, i, LIFETIME, p.num_sec)

\* Mutant: the test of type_device_general is inverted.
NeedsLocalPort_NonSdn(n) == n \in NonSdn /\ n \notin moved /\ local_port[n] = NO_PORT

NeedsLocalPort(n) == n \in Sdn /\ n \notin moved /\ local_port[n] = NO_PORT

\* ehddp_mod_local_port, called for every request before the flow tables are
\* looked up.  The result is what it returns and the switch's new local port:
\* 1 for a copy that is to be passed on, 0 for another copy, 255 when no local
\* port could be made.  `how' is what making one meets.
ehddp_mod_local_port(n, i, p, how) ==
    IF found_port(n, p) > 0 THEN [result |-> 0, port |-> local_port[n]]
    ELSE IF ~NeedsLocalPort(n) THEN [result |-> 1, port |-> local_port[n]]
    ELSE IF how = "ok" THEN [result |-> 1, port |-> i]
    ELSE [result |-> 255, port |-> IF how = "ip_fails" THEN FREED ELSE NO_PORT]

\* Mutant: a switch passes a request on although it has no local port.
Forwards_Failed(mod) == mod.result # 0

Forwards(mod) == mod.result = 1

\* update_data_msg: the packet with n's id added, unless it is full or seems
\* to hold it already.
Extended(p, n, repeated) ==
    IF Len(p.ids) + 1 > MAX_ELEMENTS \/ repeated THEN p
    ELSE [p EXCEPT !.ids = Append(@, n)]

\* handle_ehddp_request_packets: answer or pass on.
handle_ehddp_request_packets(n, i, p, mod, rest) ==
    LET answer == num_port_available(n, mod.port) = 1 \/ mod.result = 0
        flood == ~answer /\ Forwards(mod)
    IN  \E repeated \in Repetido :
        /\ net' = IF answer THEN Sent(rest, n, {i}, Reply(p.num_sec, <<n>>))
                  ELSE IF flood THEN Sent(rest, n, PortNo(n) \ {i}, Extended(p, n, repeated))
                  ELSE rest
        /\ floods' = IF flood THEN [floods EXCEPT ![n][p.num_sec] = IF @ < 2 THEN @ + 1 ELSE @]
                     ELSE floods

\* handle_ehddp_reply_packets: one hop up, when the switch took part in the
\* exploration and the packet has room for it.
handle_ehddp_reply_packets(n, p, rest) ==
    LET out_port == found_port(n, p) IN
    \E repeated \in Repetido :
        net' = IF out_port >= 1 /\ Extended(p, n, repeated) # p
               THEN Sent(rest, n, {out_port}, Extended(p, n, repeated)) ELSE rest

Joined(n, i, mod) ==
    IF Forwards(mod) /\ joined[n].port = NO_PORT
    THEN [joined EXCEPT ![n] = [port |-> i, depth |-> joined[Ports[n][i]].depth + 1]]
    ELSE joined

\* pipeline_process_packet for the first packet waiting at port i of n.
ReceiveRequest(n, i) ==
    /\ net[<<n, i>>] # <<>> /\ Head(net[<<n, i>>]).opcode = 1
    /\ LET p == Head(net[<<n, i>>])
           rest == [net EXCEPT ![<<n, i>>] = Tail(@)]
       IN  IF n = Root
           THEN /\ process(n, i, p, rest)
                /\ UNCHANGED <<switches, attached, history>>
           ELSE \E how \in Outcomes :
                LET mod == ehddp_mod_local_port(n, i, p, how) IN
                /\ bt_table' = [bt_table EXCEPT ![n] = Recorded(n, i, p)]
                /\ local_port' = [local_port EXCEPT ![n] = mod.port]
                /\ moved' = IF mod.result = 1 /\ n \in Sdn THEN moved \cup {n} ELSE moved
                /\ joined' = Joined(n, i, mod)
                /\ disturbed' = (disturbed \/ mod.result = 255)
                /\ IF n \in attached
                   THEN process(n, i, p, rest) /\ UNCHANGED floods
                   ELSE handle_ehddp_request_packets(n, i, p, mod, rest) /\ UNCHANGED app
                /\ UNCHANGED attached

ReceiveReply(n, i) ==
    /\ net[<<n, i>>] # <<>> /\ Head(net[<<n, i>>]).opcode = 2
    /\ LET p == Head(net[<<n, i>>])
           rest == [net EXCEPT ![<<n, i>>] = Tail(@)]
       IN  IF n \in attached THEN process(n, i, p, rest)
           ELSE handle_ehddp_reply_packets(n, p, rest) /\ UNCHANGED app
    /\ UNCHANGED <<switches, attached, history>>

\* The clock, the same for all switches.
Tick ==
    /\ SlowNetwork \/ Quiet
    /\ \E n \in Switch : \E k \in 1 .. Len(bt_table[n]) : bt_table[n][k].left # EXPIRED
    /\ bt_table' = [n \in Switch |-> Aged(bt_table[n])]
    /\ UNCHANGED <<local_port, moved, attached, net, app, history>>

\* The main loop of ofdatapath, every TIME_DELETE_BT seconds, when there is an
\* entry to remove.
PurgeTables(n) ==
    /\ n # Root /\ ~(\A k \in 1 .. Len(bt_table[n]) : bt_table[n][k].left > 0)
    /\ bt_table' = [bt_table EXCEPT ![n] =
                      mac_to_port_delete_timeout_ehddp(mac_to_port_delete_timeout(@))]
    /\ UNCHANGED <<local_port, moved, attached, net, app, history>>

Receive(n, i) == ReceiveRequest(n, i) \/ ReceiveReply(n, i)

Next ==
    \/ starteHDDPProcess
    \/ WakeUp
    \/ \E n \in Switch : Attach(n) \/ PurgeTables(n)
    \/ \E x \in Inputs : ReceiveRequest(x[1], x[2]) \/ ReceiveReply(x[1], x[2])
    \/ Tick

\* The application keeps exploring, a switch keeps reading its ports and the
\* secure channel of a switch with a local port keeps trying to connect.
Fairness ==
    /\ WF_vars(starteHDDPProcess \/ WakeUp)
    /\ \A x \in Inputs : WF_vars(Receive(x[1], x[2]))
    /\ \A n \in Switch : WF_vars(Attach(n))

Spec == Init /\ [][Next]_vars /\ Fairness
-----------------------------------------------------------------------------
Packet == [opcode : {1, 2}, num_sec : 1 .. Waves, ids : Seq(Switch)]

\* The fields hold what they are declared for; a packet never names more
\* switches than its header has room for.
TypeOK ==
    /\ \A n \in Switch : \A k \in 1 .. Len(bt_table[n]) :
          bt_table[n][k] \in [mac : {MAC_GENERIC}, port_in : PortNo(n),
                              left : EXPIRED .. LIFETIME, num_sec : 1 .. Waves]
    /\ \A n \in Switch : local_port[n] \in PortNo(n) \cup {NO_PORT, FREED}
    /\ moved \subseteq Sdn /\ attached \subseteq Sdn
    /\ \A x \in Inputs : \A k \in 1 .. Len(net[x]) :
          net[x][k] \in Packet /\ Len(net[x][k].ids) \in 1 .. MAX_ELEMENTS
    /\ timestamp_hddp \in 0 .. Waves /\ configuredLinks \subseteq SUBSET Switch
    /\ link_sdn_nodes \subseteq Switch \X Switch /\ log_listo \in BOOLEAN /\ sleeping \in BOOLEAN

\* The in-band paths form a tree rooted at Root: the local port a switch made
\* from a request leads to a switch that had joined before it and is one link
\* nearer to Root.  This is what lets the control connection of a switch get
\* through, and no delay, expiry or failed configuration may break it.
InBandTree ==
    \A n \in Switch :
        /\ joined[n].port # NO_PORT =>
              LET up == Ports[n][joined[n].port] IN
              /\ n # Root
              /\ up = Root \/ joined[up].port # NO_PORT
              /\ joined[n].depth = joined[up].depth + 1
        /\ local_port[n] \in PortNo(n) => local_port[n] = joined[n].port
        /\ n \in Sdn /\ joined[n].port # NO_PORT => local_port[n] # NO_PORT

\* A switch floods an exploration once: the table entry of the first copy
\* keeps the requests from going round in a cycle of switches.
FloodsOnce == \A n \in Switch, s \in 1 .. Waves : floods[n][s] <= 1

\* Where a reply of exploration s goes from switch n, and whether its way
\* ends at a connected switch: n is connected or in every set that holds, with
\* the switch that a switch sends replies to, that switch.
Up(n, s) == mac_to_port_found_port(bt_table[n], MAC_GENERIC, s)

Climbs(n, s) ==
    LET up == [m \in Switch |-> Up(m, s)] IN
    \A S \in SUBSET (Switch \ attached) :
        (\A m \in Switch \ attached : up[m] > 0 /\ Ports[m][up[m]] \in S \cup attached => m \in S)
        => n \in S \cup attached

\* Every reply under way in an exploration has a way up from each switch on
\* it to a connected one, and does not go round in a cycle: parents follow the
\* order in which the switches took the request.
RepliesClimb ==
    \A x \in Inputs : \A k \in 1 .. Len(net[x]) :
        net[x][k].opcode = 2 => Climbs(x[1], net[x][k].num_sec)

\* A switch floods an exploration once, and every reply under way has a way up
\* to a switch that is connected (handle_ehddp_request_packets(),
\* handle_ehddp_reply_packets()).
OnceDownOnceUp == TypeOK /\ FloodsOnce /\ RepliesClimb

\* The application never takes two switches for linked that are not: whatever
\* is delayed, dropped for lack of room or climbs a path of an older
\* exploration, two switches next to each other in a reply are neighbours.
NoFalseLinks == configuredLinks \subseteq Links

\* The networks that an exploration gets through: all packets arrive before the
\* next clock tick, no two switches have two links, every switch can be reached,
\* a packet has room for a path through all of them, and a switch sees by
\* num_port_available() whether it has neighbours to pass a request on to.
Explorable ==
    /\ ~SlowNetwork /\ LIFETIME > 0 /\ Repetido = {FALSE}
    /\ MAX_ELEMENTS >= 2 /\ MAX_ELEMENTS >= Cardinality(Switch)
    /\ \A n \in Switch : \A i \in PortNo(n) :
          /\ Ports[n][i] # n
          /\ \A j \in PortNo(n) : Ports[n][i] = Ports[n][j] => i = j \/ Ports[n][i] = HOST
    /\ \A S \in SUBSET Switch :
          Root \in S /\ (\A x \in Inputs : Peer[x][1] \in S => x[1] \in S) => S = Switch
    /\ \A x \in Inputs : x[1] # Root =>
          (num_port_available(x[1], IF x[1] \in NonSdn THEN NO_PORT ELSE 1) = 1
             <=> \A y \in Inputs : y[1] = x[1] => y = x)

\* When the packets of an exploration have come to rest before its round ends,
\* the application knows exactly the links of the network, if every switch
\* stayed as it was.
LinksDiscovered == Quiet /\ sleeping /\ ~disturbed => configuredLinks = Links

\* Every SDN switch ends up connected to the application.
AllAttach == <>[](attached = Sdn)

\* Explorations end: the packets in the network come to rest.
ExplorationsEnd == []<>Quiet

\* "Si solo tengo un puerto contesto con reply": a switch that took a request
\* and has more than one usable port passed it on.
PassedOn ==
    \A n \in Switch \ (attached \cup {Root}) :
        bt_table[n] # <<>> /\ Cardinality({x \in Inputs : x[1] = n}) > 1
            => floods[n][bt_table[n][1].num_sec] > 0
=============================================================================
