------------------------------ MODULE DpPorts -------------------------------
(***************************************************************************)
(* The ports and queues of a datapath (udatapath/dp_ports.c): the ports    *)
(* that main() adds at start-up, the local port that an EHDDP request adds *)
(* later on the device of one of them, what controllers change, the        *)
(* traffic classes behind the queues (lib/netdev.c), packets in and out,   *)
(* and the replies that list ports and queues.                             *)
(*                                                                         *)
(* Left out: the byte counters, which go with those of the packets;        *)
(* durations; the addresses of the devices; the time that EHDDP waits      *)
(* before it makes another local port; local_port_ok, which nothing reads. *)
(* After a local port was freed while it is still in the list the code     *)
(* reads freed memory, and the model stops.                                *)
(***************************************************************************)
EXTENDS Integers, Sequences, FiniteSets, Functions

CONSTANTS
    Interfaces,    \* the names of the devices
    PortLists,     \* what -i may say: sequences of devices, each once
    LocalPorts,    \* what -L may say: the set of the device, or of none
    DP_MAX_PORTS, OFPP_LOCAL, OFPP_ANY, OFPQ_ALL,
    Slicing,       \* dp->max_queues: NETDEV_MAX_QUEUES, or 0 with --no-slicing
    PortRequests,  \* the PORT_MODs and queue messages of controllers
    MaxPackets     \* bound: packets received and sent

VARIABLES
    phase,      \* "starting", "running", "fatal"; "freed": the local port was
    pending,    \* the devices that main() has still to add
    ports,      \* dp->ports by number; OFPP_LOCAL is dp->local_port
    port_list,  \* dp->port_list, as port numbers
    ports_num,  \* dp->ports_num
    classes,    \* for each device and queue the rate of its traffic class, if any
    stuck,      \* history: the classes that could not be deleted with their queue
    packets     \* the packets received and sent

portVars ==
    <<phase, pending, ports, port_list, ports_num, classes, stuck, packets>>

Slots == 1..(DP_MAX_PORTS - 1)
PortNos == Slots \cup {OFPP_LOCAL}
Queues == 0..(Slicing - 1)
Flags == {"PORT_DOWN", "NO_RECV", "NO_FWD"}

NoQueue == [used |-> FALSE, rate |-> 0, tx |-> 0]
NoPort ==
    [netdev |-> "NULL", state |-> {}, config |-> {}, told |-> {}, max_queues |-> 0,
     num_queues |-> 0, queues |-> [q \in Queues |-> NoQueue], rx |-> 0, tx |-> 0, dropped |-> 0]

Used(p) == p.netdev # "NULL"
InUse(no) == Used(ports[no])
Running == phase = "running"
PortsAssumption ==
    /\ DP_MAX_PORTS \in Nat \ {0} /\ OFPP_LOCAL \notin Slots /\ Slicing \in Nat
    /\ "NULL" \notin Interfaces
    /\ \A list \in PortLists : list \in Seq(Interfaces) /\ IsInjective(list)
    /\ \A local \in LocalPorts : local \subseteq Interfaces
    /\ \A msg \in PortRequests :
           /\ msg.type = "PORT_MOD" => msg.config \subseteq Flags /\ msg.mask \subseteq Flags
           /\ msg.type = "QUEUE_MODIFY" => msg.rate \in Nat
-----------------------------------------------------------------------------
(* Lookups *)

\* Mutant: the local port, which ports_num counts, is taken to have a slot.
CountsLocal(no) ==
    IF no = OFPP_LOCAL THEN (IF InUse(OFPP_LOCAL) THEN {OFPP_LOCAL} ELSE {})
    ELSE {no} \cap (1..ports_num)

dp_ports_lookup(no) ==
    IF no = OFPP_LOCAL THEN (IF InUse(OFPP_LOCAL) THEN {OFPP_LOCAL} ELSE {})
    ELSE {no} \cap (1..(IF InUse(OFPP_LOCAL) THEN ports_num - 1 ELSE ports_num))

dp_ports_lookup_queue(p, queue_id) ==
    {q \in Queues : q = queue_id /\ q < p.max_queues /\ p.queues[q].used}
-----------------------------------------------------------------------------
(* Changes of one port, p *)

dp_port_live_update(p) ==
    [p EXCEPT !.state = IF "LINK_DOWN" \in @ \/ "PORT_DOWN" \in p.config
                        THEN @ \ {"LIVE"} ELSE @ \cup {"LIVE"}]

\* A PORT_STATUS tells the controllers of the port as it is.
Announced(p) == [p EXCEPT !.told = p.config]

NewPort(no, name, max_queues) ==
    Announced(dp_port_live_update(
        [NoPort EXCEPT !.netdev = name, !.state = {"LIVE"}, !.max_queues = max_queues,
                       !.config = IF no = OFPP_LOCAL THEN {"NO_FWD"} ELSE {}]))

\* Mutant: the port stays live when it is taken down.
NoLiveUpdate(p, msg) ==
    Announced([p EXCEPT !.config = (@ \ msg.mask) \cup (msg.config \cap msg.mask)])
\* What a PORT_MOD makes of a port, if it has a mask.
Reconfigured(p, msg) ==
    Announced(IF msg.mask = {} THEN p ELSE
        dp_port_live_update([p EXCEPT !.config = (@ \ msg.mask) \cup (msg.config \cap msg.mask)]))

LinkSeen(p, link) ==
    CASE link = "up"   -> dp_port_live_update([p EXCEPT !.state = @ \ {"LINK_DOWN"}])
      [] link = "down" -> dp_port_live_update([p EXCEPT !.state = @ \cup {"LINK_DOWN"}])
      [] OTHER         -> p

new_queue(p, q, rate) ==
    [p EXCEPT !.queues[q] = [used |-> TRUE, rate |-> rate, tx |-> 0], !.num_queues = @ + 1]
\* The port with the new queue; none if the number is too large or taken.
port_add_queue(p, queue_id, rate) ==
    {new_queue(p, q, rate) :
        q \in {q \in Queues : q = queue_id /\ q < p.max_queues /\ ~p.queues[q].used}}
WithRate(p, q, rate) == [p EXCEPT !.queues = [@ EXCEPT ![q].rate = rate]]
\* Mutant: the number of queues stays.
ForgetsCount(p, q) == [p EXCEPT !.queues[q] = NoQueue]
port_delete_queue(p, q) == [p EXCEPT !.queues[q] = NoQueue, !.num_queues = @ - 1]

\* process_buffer() gives a packet that came in at p to the pipeline.
process_buffer(p) == {"NO_RECV", "PORT_DOWN"} \cap p.config = {}

\* dp_ports_output() of a packet to a port that was found: queue 0 is best
\* effort and needs no queue, and netdev_send() may fail.
Leaves(p, queue_id) ==
    /\ Used(p) /\ "PORT_DOWN" \notin p.config
    /\ queue_id = 0 \/ dp_ports_lookup_queue(p, queue_id) # {}
SentFrom(queues, queue_id) ==
    IF queue_id = 0 THEN queues ELSE [queues EXCEPT ![queue_id].tx = @ + 1]
Output(p, queue_id, sent) ==
    IF ~Leaves(p, queue_id) THEN p
    ELSE IF ~sent THEN [p EXCEPT !.dropped = @ + 1]
    ELSE [p EXCEPT !.tx = @ + 1, !.queues = SentFrom(@, queue_id)]
-----------------------------------------------------------------------------
(* Traffic classes.  What is set is the classes after a call that went     *)
(* well; every call of tc may also fail.  tc adds no class that is there   *)
(* and changes none that is not.                                           *)

netdev_setup_slicing(c, name) == [c EXCEPT ![name] = [q \in Queues |-> {}]]
netdev_setup_class(c, name, q, rate) ==
    IF c[name][q] # {} THEN {} ELSE {[c EXCEPT ![name][q] = {rate}]}
netdev_change_class(c, name, q, rate) ==
    IF c[name][q] = {} THEN {} ELSE {[c EXCEPT ![name][q] = {rate}]}
netdev_delete_class(c, name, q) == [c EXCEPT ![name][q] = {}]
-----------------------------------------------------------------------------
(* Start-up: main() adds the ports of -i and then that of -L.              *)

PortsInit ==
    /\ phase = "starting"
    /\ \E list \in PortLists, local \in LocalPorts : pending = [ports |-> list, local |-> local]
    /\ ports = [no \in PortNos |-> NoPort] /\ port_list = <<>> /\ ports_num = 0
    /\ classes = [i \in Interfaces |-> [q \in Queues |-> {}]] /\ stuck = {}
    /\ packets = 0

\* new_port(), once the device is open: the port is listed, counted and told of,
\* besides the ports that there are.
new_port(old, no, name, max_queues) ==
    /\ ports' = [old EXCEPT ![no] = NewPort(no, name, max_queues)]
    /\ port_list' = Append(port_list, no)
    /\ ports_num' = ports_num + 1
    /\ classes' = IF max_queues > 0 THEN netdev_setup_slicing(classes, name) ELSE classes

\* The first slot without a device; none is free: EXFULL.
dp_ports_add(name) ==
    \E no \in Slots :
        /\ ~InUse(no) /\ \A m \in 1..(no - 1) : InUse(m)
        /\ new_port(ports, no, name, Slicing)

\* The local port has no queues.
dp_ports_add_local(old, name) == ~InUse(OFPP_LOCAL) /\ new_port(old, OFPP_LOCAL, name, 0)

\* A port that cannot be added ends the program.
Fatal ==
    /\ phase' = "fatal"
    /\ UNCHANGED <<pending, ports, port_list, ports_num, classes, stuck, packets>>

add_ports ==
    /\ phase = "starting" /\ pending.ports # <<>>
    /\ \/ /\ dp_ports_add(Head(pending.ports))
          /\ pending' = [pending EXCEPT !.ports = Tail(@)]
          /\ UNCHANGED <<phase, stuck, packets>>
       \/ Fatal

main ==
    /\ phase = "starting" /\ pending.ports = <<>>
    /\ \/ /\ pending.local = {}
          /\ phase' = "running"
          /\ UNCHANGED <<pending, ports, port_list, ports_num, classes, stuck, packets>>
       \/ \E name \in pending.local :
              \/ /\ dp_ports_add_local(ports, name)
                 /\ phase' = "running"
                 /\ UNCHANGED <<pending, stuck, packets>>
              \/ Fatal
-----------------------------------------------------------------------------
(* The local port of EHDDP *)

\* The device of the port where the first entry of bt_table came from gets the
\* local port.  0 is returned when that port is not found or cannot be opened
\* again, and nothing has changed; and when the address was not set afterwards.
configure_new_local_port_ehddp_UAH(old, first) ==
    \E p \in dp_ports_lookup(first) : dp_ports_add_local(old, ports[p].netdev)

dp_ports_handle_port_mod_UAH(no) == [ports EXCEPT ![no] = Announced(@)]

\* A new EHDDP request came in at in_port, and there is no local port.  Once
\* there is, the controllers are told of in_port; without an address it is
\* freed, and stays in the list and in use.
ehddp_mod_local_port(in_port, first) ==
    /\ Running /\ in_port \in Range(port_list) /\ in_port # OFPP_LOCAL
    /\ process_buffer(ports[in_port])
    /\ ~InUse(OFPP_LOCAL)
    /\ \/ /\ configure_new_local_port_ehddp_UAH(dp_ports_handle_port_mod_UAH(in_port), first)
          /\ phase' = phase
       \/ /\ configure_new_local_port_ehddp_UAH(ports, first)
          /\ phase' = "freed"
    /\ UNCHANGED <<pending, stuck, packets>>
-----------------------------------------------------------------------------
(* Requests of controllers *)

\* The answer is an error, why, and nothing has changed.
Refused(why) == UNCHANGED portVars
Changes(no, p) ==
    /\ ports' = [ports EXCEPT ![no] = p]
    /\ UNCHANGED <<phase, pending, port_list, ports_num, packets>>

\* msg.knows: the message has the address of the port.
dp_ports_handle_port_mod(msg) ==
    LET found == dp_ports_lookup(msg.port) IN
    \/ msg.slave /\ Refused("IS_SLAVE")
    \/ ~msg.slave /\ found = {} /\ Refused("BAD_PORT")
    \/ ~msg.slave /\ found # {} /\ ~msg.knows /\ Refused("BAD_HW_ADDR")
    \/ /\ ~msg.slave /\ msg.knows
       /\ \E no \in found : Changes(no, Reconfigured(ports[no], msg))
       /\ UNCHANGED <<classes, stuck>>

\* A queue that exists is changed.
QueueChanged(no, q, msg) ==
    \/ Refused("EPERM")
    \/ /\ classes' \in netdev_change_class(classes, ports[no].netdev, q, msg.rate)
       /\ Changes(no, WithRate(ports[no], q, msg.rate))
       /\ UNCHANGED stuck

\* A new queue is there even if its class is not, and BAD_QUEUE is the answer.
QueueAdded(no, msg) ==
    LET added == port_add_queue(ports[no], msg.queue, msg.rate) IN
    \/ added = {} /\ Refused("EPERM")
    \/ \E p \in added :
           /\ Changes(no, p) /\ UNCHANGED stuck
           /\ \/ UNCHANGED classes
              \/ classes' \in netdev_setup_class(classes, p.netdev, msg.queue, msg.rate)

dp_ports_handle_queue_modify(msg) ==
    LET found == {no \in dp_ports_lookup(msg.port) : InUse(no)} IN
    \/ found = {} /\ Refused("BAD_PORT")
    \/ \E no \in found :
           LET exists == dp_ports_lookup_queue(ports[no], msg.queue) IN
           \/ \E q \in exists : QueueChanged(no, q, msg)
           \/ exists = {} /\ QueueAdded(no, msg)

\* The queue is deleted even if its class is not.
dp_ports_handle_queue_delete(msg) ==
    LET found == {no \in dp_ports_lookup(msg.port) : InUse(no)} IN
    \/ found = {} /\ Refused("BAD_PORT")
    \/ \E no \in found :
           LET exists == dp_ports_lookup_queue(ports[no], msg.queue)
               name == ports[no].netdev
           IN
           \/ exists = {} /\ Refused("BAD_QUEUE")
           \/ \E q \in exists :
                  /\ Changes(no, port_delete_queue(ports[no], q))
                  /\ \/ /\ classes' = netdev_delete_class(classes, name, q)
                        /\ stuck' = stuck \ {<<name, q>>}
                     \/ /\ classes[name][q] # {} /\ UNCHANGED classes
                        /\ stuck' = stuck \cup {<<name, q>>}

PortRequest(msg) ==
    /\ Running
    /\ \/ msg.type = "PORT_MOD"     /\ dp_ports_handle_port_mod(msg)
       \/ msg.type = "QUEUE_MODIFY" /\ dp_ports_handle_queue_modify(msg)
       \/ msg.type = "QUEUE_DELETE" /\ dp_ports_handle_queue_delete(msg)
-----------------------------------------------------------------------------
(* Packets *)

\* One port's turn in dp_ports_run(): its link is looked at, and a packet is
\* received unless it is the local port.
dp_ports_run(no) ==
    /\ Running /\ no \in Range(port_list)
    /\ \E link \in {"up", "down", "unknown"} :
           \/ Changes(no, LinkSeen(ports[no], link))
           \/ /\ no # OFPP_LOCAL /\ packets < MaxPackets
              /\ ports' = [ports EXCEPT ![no] = [LinkSeen(ports[no], link) EXCEPT !.rx = @ + 1]]
              /\ packets' = packets + 1
              /\ UNCHANGED <<phase, pending, port_list, ports_num>>
    /\ UNCHANGED <<classes, stuck>>

\* A packet goes to every port of nos, in the order of the list; sent are those
\* where netdev_send() succeeds.
OutputTo(nos, queue_id) ==
    /\ Running /\ packets < MaxPackets
    /\ \E sent \in SUBSET nos :
           ports' = [no \in PortNos |->
               IF no \in nos THEN Output(ports[no], queue_id, no \in sent) ELSE ports[no]]
    /\ packets' = packets + 1
    /\ UNCHANGED <<phase, pending, port_list, ports_num, classes, stuck>>

dp_ports_output(out_port, queue_id) == OutputTo(dp_ports_lookup(out_port), queue_id)

\* Mutant: the local port is told from the other on its device by its number.
OutputsByNumber(in_port, flood) ==
    {no \in Range(port_list) : no # in_port /\ ~(flood /\ "NO_FWD" \in ports[no].config)}
\* The ports that dp_ports_output_all() gives a packet from in_port.
OutputPorts(in_port, flood) ==
    {no \in Range(port_list) :
        /\ no # in_port
        /\ ~(in_port = OFPP_LOCAL /\ ports[no].netdev = ports[OFPP_LOCAL].netdev)
        /\ ~(flood /\ "NO_FWD" \in ports[no].config)}
dp_ports_output_all(in_port, flood) == OutputTo(OutputPorts(in_port, flood), 0)

PortsNext ==
    \/ add_ports
    \/ main
    \/ \E in_port, first \in Slots : ehddp_mod_local_port(in_port, first)
    \/ \E msg \in PortRequests : PortRequest(msg)
    \/ \E no \in PortNos : dp_ports_run(no)
    \/ \E no \in PortNos, q \in Queues : dp_ports_output(no, q)
    \/ \E no \in Range(port_list), flood \in BOOLEAN : dp_ports_output_all(no, flood)

PortsSpec == PortsInit /\ [][PortsNext]_portVars
-----------------------------------------------------------------------------
(* Replies: for how many entries they have room, and how many are put in.  *)

ReplyWith(num, filled) == [error |-> "none", num |-> num, filled |-> filled]
BadPort == [error |-> "BAD_PORT", num |-> 0, filled |-> 0]
\* The ports that a request asks for: those of the list, one, or none.
AskedPorts(no) ==
    IF no = OFPP_ANY THEN port_list
    ELSE IF \E m \in dp_ports_lookup(no) : InUse(m) THEN <<no>> ELSE <<>>
\* The queues of a port, one after the other.
AllQueues(p) == {q \in Queues : q < p.max_queues /\ p.queues[q].used}

dp_ports_handle_stats_request_port(no) ==
    ReplyWith(IF no = OFPP_ANY THEN ports_num ELSE Len(AskedPorts(no)), Len(AskedPorts(no)))

dp_ports_handle_port_desc_request == ReplyWith(ports_num, Len(port_list))

\* All queues of a port are as many as it counts; one is there or not.
QueuesCounted(p, queue_id) ==
    IF queue_id = OFPQ_ALL THEN p.num_queues ELSE Cardinality(dp_ports_lookup_queue(p, queue_id))
QueuesFilled(p, queue_id) ==
    IF queue_id = OFPQ_ALL THEN Cardinality(AllQueues(p))
    ELSE Cardinality(dp_ports_lookup_queue(p, queue_id))
QueueReply(asked, queue_id) ==
    ReplyWith(SumFunction([k \in DOMAIN asked |-> QueuesCounted(ports[asked[k]], queue_id)]),
              SumFunction([k \in DOMAIN asked |-> QueuesFilled(ports[asked[k]], queue_id)]))
dp_ports_handle_stats_request_queue(no, queue_id) == QueueReply(AskedPorts(no), queue_id)

\* A port that is found is taken to be in use.
dp_ports_handle_queue_get_config_request(no) ==
    IF no = OFPP_ANY THEN QueueReply(port_list, OFPQ_ALL)
    ELSE IF dp_ports_lookup(no) = {} THEN BadPort ELSE QueueReply(<<no>>, OFPQ_ALL)
-----------------------------------------------------------------------------
(* Properties *)

NotFreed == phase # "freed"

\* A number finds a port that is in use, with the local port there or not, and
\* every port in use is found; the list has each of them once and as many as
\* dp->ports_num says; and a port has as many queues as it counts: what the
\* replies about ports and queues allocate and fill in.
ListedAsCounted ==
    /\ \A no \in PortNos : InUse(no) <=> dp_ports_lookup(no) = {no}
    /\ Range(port_list) = {no \in PortNos : InUse(no)}
    /\ Len(port_list) = ports_num
    /\ IsInjective(port_list)
    /\ \A no \in PortNos : ports[no].num_queues = Cardinality({q \in Queues : ports[no].queues[q].used})

\* Every reply about ports and queues puts in exactly the entries that it has
\* room for, whatever queues came, went or failed: none is left uninitialized
\* and none is written beyond the end.
RepliesExact ==
    \A r \in {dp_ports_handle_port_desc_request}
         \cup {dp_ports_handle_stats_request_port(no) : no \in PortNos \cup {OFPP_ANY}}
         \cup {dp_ports_handle_queue_get_config_request(no) : no \in PortNos \cup {OFPP_ANY}}
         \cup {dp_ports_handle_stats_request_queue(no, q) :
                   no \in PortNos \cup {OFPP_ANY}, q \in Queues \cup {OFPQ_ALL}} :
        r.num = r.filled

\* A port is live exactly when neither its link nor itself is down; the
\* controllers know its configuration; no queue counts more packets than its
\* port; and a queue reports the rate of its class, and a class has a queue,
\* unless deleting that class has failed.
ReportsWhatIs ==
    \A no \in Range(port_list) :
        LET p == ports[no] IN
        /\ "LIVE" \in p.state <=> "LINK_DOWN" \notin p.state /\ "PORT_DOWN" \notin p.config
        /\ p.told = p.config
        /\ \A q \in Queues : p.queues[q].tx <= p.tx
        /\ \A q \in {q \in Queues : q < p.max_queues} :
               <<p.netdev, q>> \notin stuck /\ classes[p.netdev][q] # {} =>
                   p.queues[q].used /\ classes[p.netdev][q] = {p.queues[q].rate}

\* A flood never leaves through the device it came in by, though the local port
\* and another share one, as long as no controller lets the local port flood.
FloodNeverReturns ==
    "NO_FWD" \in ports[OFPP_LOCAL].config \/ ~InUse(OFPP_LOCAL) =>
        \A in_port \in Range(port_list) : \A no \in OutputPorts(in_port, TRUE) :
            ports[no].netdev # ports[in_port].netdev

\* The ports and queues are as they are reported.
PortsAsReported ==
    NotFreed => ListedAsCounted /\ RepliesExact /\ ReportsWhatIs /\ FloodNeverReturns
=============================================================================
