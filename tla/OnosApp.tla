------------------------------ MODULE OnosApp ------------------------------
(***************************************************************************)
(* The two threads of the ONOS application: the one that explores          *)
(* (AppComponent.starteHDDPProcess) and the one that ONOS calls with       *)
(* packet-ins (ReactivePacketProcessor.process, eHDDPproviderlink,         *)
(* eHDDPproviderdevices).  They share HashSets and a HashMap without a     *)
(* lock, so every access is a step of its own.                             *)
(*                                                                         *)
(* A packet is [opcode, from, port, hops]: where it was punted and the     *)
(* devices in it, [id, type, in, out, both].  The network answers the      *)
(* request to a switch with the packets punted by it; a packet is fresh    *)
(* while the exploration that caused it is the current one.  Packets of    *)
(* more than one hop that are requests make the application send a reply,  *)
(* which changes nothing here.  Module Ehddp has the exploration itself.   *)
(***************************************************************************)
EXTENDS Integers, Sequences, FiniteSets, SequencesExt

CONSTANTS
    Switches,          \* the ids of the OpenFlow switches ONOS knows of
    Networks,          \* the packets a network may answer with
    num_dev_sdn_file   \* how many SDN switches the topology file has

VARIABLES
    network,    \* the packets this network answers with
    explorer,   \* [pc, todo, seen]: the exploring thread, what it has still to
                \* iterate over, and the set when it began to
    todo,       \* what the packet processor has still to do
    air,        \* the packets under way, [packet, fresh]
    links,      \* the links in ONOS, by this application
    configuredLinks, ConfigLinksDesciption,
    link_sdn_nodes, configureNodes, Nodos_SDN, log_listo,
    prompt,     \* whether the answers of this round come and are processed in time
    ports       \* the devices and ports this application made in ONOS

onosVars == <<network, explorer, todo, air, links, configuredLinks, ConfigLinksDesciption,
              link_sdn_nodes, configureNodes, Nodos_SDN, log_listo, prompt, ports>>

TYPE_SDN == 1
TYPE_NO_SDN == 2
TYPE_SDN_NO_CONFIG == 3
\* The name of a device at the end of a link, and the one it is made with:
\* they differ for a sensor, which has no scheme in the first.
Name(type, id) ==
    <<IF type \in {TYPE_SDN, TYPE_SDN_NO_CONFIG} THEN "of"
      ELSE IF type = TYPE_NO_SDN THEN "sw" ELSE "", id>>
CreateorUpdateDevice(type, id) == <<IF type = TYPE_NO_SDN THEN "sw" ELSE "Sensor", id>>
Of(id) == Name(TYPE_SDN, id)
Usable(port) == port \notin {0, 255}
LinkKey(src, srcport, dst, dstport) == <<src, srcport, dst, dstport>>

Explorer(pc, left, seen) == [pc |-> pc, todo |-> left, seen |-> seen]
Task(op, arg) == <<[op |-> op, arg |-> arg]>>

-----------------------------------------------------------------------------
(* What the processor does for a packet, as a list of steps.               *)

\* linkbewteendevices: a link between two nodes stays in the set, one with a
\* sensor is taken out of it first.
linkbewteendevices(src, srcport, dst, dstport, bidirectional) ==
    LET keys == <<LinkKey(src, srcport, dst, dstport), LinkKey(dst, dstport, src, srcport)>>
        node == {"of", "sw"}
        both == bidirectional \/ {src[1], dst[1]} = {"of"}
    IN  (IF {src[1], dst[1]} \subseteq node THEN <<>> ELSE Task("forget", {keys[1], keys[2]}))
        \o Task("check", IF both THEN keys ELSE <<keys[1]>>)

\* linkstopology: every device is linked to the next one, the last to the
\* switch that punted the packet.
linkstopology(p) ==
    FlattenSeq([num \in DOMAIN p.hops |->
        LET hop == p.hops[num]
            last == num = Len(p.hops)
            next == IF last THEN Of(p.from) ELSE Name(p.hops[num + 1].type, p.hops[num + 1].id)
            in_port == IF last THEN p.port ELSE p.hops[num + 1].in
            both == hop.both /\ hop.type \notin {TYPE_SDN, TYPE_SDN_NO_CONFIG}
        IN  IF Usable(hop.out) /\ Usable(in_port)
            THEN linkbewteendevices(Name(hop.type, hop.id), hop.out, next, in_port, both)
            ELSE <<>>])

checkdevices(p) ==
    FlattenSeq([pos \in DOMAIN p.hops |-> Task("device", p.hops[pos])])

\* A reply: links, and the devices on the way when there are some.
ProcessReply(p) ==
    LET first == p.hops[1] IN
    IF Len(p.hops) = 1 /\ first.type = TYPE_SDN
    THEN linkbewteendevices(Of(p.from), p.port, Of(first.id), first.out, first.both)
    ELSE checkdevices(p) \o linkstopology(p)

\* A request that passed one device only: two SDN switches are neighbours.
\* The port is kept until the request from the other side comes.
ProcessRequest(p) ==
    LET other == <<p.hops[1].id, p.from>>
        kept == {x \in link_sdn_nodes : x[1] = other}
    IN  IF Len(p.hops) > 1 THEN todo' = <<>> /\ link_sdn_nodes' = link_sdn_nodes
        ELSE IF kept = {}
        THEN /\ link_sdn_nodes' = {x \in link_sdn_nodes : x[1] # <<p.from, p.hops[1].id>>}
                                      \cup {<<<<p.from, p.hops[1].id>>, p.port>>}
             /\ todo' = <<>>
        ELSE /\ \E x \in kept : todo' = linkbewteendevices(Of(p.from), p.port,
                                            Of(p.hops[1].id), x[2], TRUE)
             /\ link_sdn_nodes' = link_sdn_nodes

-----------------------------------------------------------------------------
OnosInit ==
    /\ network \in Networks
    /\ explorer = Explorer("stamp", {}, {}) /\ todo = <<>> /\ air = {} /\ links = {}
    /\ configuredLinks = {} /\ ConfigLinksDesciption = {} /\ link_sdn_nodes = {}
    /\ configureNodes = {} /\ Nodos_SDN = {} /\ log_listo = FALSE /\ prompt = FALSE /\ ports = {}

\* process: a packet of another exploration is dropped.
process(m) ==
    /\ m \in air /\ todo = <<>>
    /\ air' = air \ {m}
    /\ IF ~m.fresh THEN todo' = <<>> /\ link_sdn_nodes' = link_sdn_nodes
       ELSE IF m.packet.opcode = 1 THEN ProcessRequest(m.packet)
       ELSE todo' = ProcessReply(m.packet) /\ link_sdn_nodes' = link_sdn_nodes
    /\ UNCHANGED <<explorer, links, configuredLinks, ConfigLinksDesciption, configureNodes,
                   Nodos_SDN, log_listo, prompt, ports>>

\* Whether the packets and the links stay as they are in a step of the
\* processor.
Doing(op) ==
    /\ todo # <<>> /\ Head(todo).op = op
    /\ UNCHANGED <<explorer, air, link_sdn_nodes, log_listo, prompt>>

\* LinkPortToDevice: the new ports and those the device has.
ReplacesPorts(name, new) == {x \in ports : x[1] # name} \cup ({name} \X new)
LinkPortToDevice(name, new) ==
    LET old == {x[2] : x \in {y \in ports : y[1] = name}}
    IN  {x \in ports : x[1] # name} \cup ({name} \X (new \cup old))

\* checkportofdevice: nothing when one of the ports is of no use.
checkportofdevice(name, hop) ==
    LET new == {hop.in, hop.out} \ {x[2] : x \in {y \in ports : y[1] = name}}
    IN  IF Usable(hop.in) /\ Usable(hop.out) /\ new # {}
        THEN LinkPortToDevice(name, new) ELSE ports

\* One device of checkdevices: an SDN switch is counted, another device is
\* made or updated, and its ports.
CheckDevice ==
    LET hop == Head(todo).arg
        name == Name(hop.type, hop.id)
    IN  /\ Doing("device")
        /\ IF name[1] = "of"
           THEN /\ Nodos_SDN' = IF Cardinality(Nodos_SDN) < num_dev_sdn_file
                                THEN Nodos_SDN \cup {hop.id} ELSE Nodos_SDN
                /\ UNCHANGED <<configureNodes, ports>>
           ELSE /\ configureNodes' = configureNodes \cup {CreateorUpdateDevice(hop.type, hop.id)}
                /\ ports' = checkportofdevice(CreateorUpdateDevice(hop.type, hop.id), hop)
                /\ Nodos_SDN' = Nodos_SDN
        /\ todo' = Tail(todo)
        /\ UNCHANGED <<links, configuredLinks, ConfigLinksDesciption>>

Forget ==
    /\ Doing("forget")
    /\ configuredLinks' = configuredLinks \ Head(todo).arg
    /\ todo' = Tail(todo)
    /\ UNCHANGED <<links, ConfigLinksDesciption, configureNodes, Nodos_SDN, ports>>

\* Only the first of the two keys is looked up.
CheckKey ==
    LET keys == Head(todo).arg IN
    /\ Doing("check")
    /\ todo' = (IF keys[1] \in configuredLinks THEN <<>>
                ELSE FlattenSeq([k \in DOMAIN keys |-> Task("detect", keys[k])])) \o Tail(todo)
    /\ UNCHANGED <<links, configuredLinks, ConfigLinksDesciption, configureNodes, Nodos_SDN, ports>>

\* insert_linkkey: the link is announced, then written into the two sets.
Detect ==
    LET key == Head(todo).arg IN
    /\ Doing("detect")
    /\ IF key \in ConfigLinksDesciption THEN todo' = Tail(todo) /\ links' = links
       ELSE links' = links \cup {key} /\ todo' = Task("key", key) \o Tail(todo)
    /\ UNCHANGED <<configuredLinks, ConfigLinksDesciption, configureNodes, Nodos_SDN, ports>>
AddKey ==
    /\ Doing("key")
    /\ configuredLinks' = configuredLinks \cup {Head(todo).arg}
    /\ todo' = Task("description", Head(todo).arg) \o Tail(todo)
    /\ UNCHANGED <<links, ConfigLinksDesciption, configureNodes, Nodos_SDN, ports>>
AddDescription ==
    /\ Doing("description")
    /\ ConfigLinksDesciption' = ConfigLinksDesciption \cup {Head(todo).arg}
    /\ todo' = Tail(todo)
    /\ UNCHANGED <<links, configuredLinks, configureNodes, Nodos_SDN, ports>>

Processor == CheckDevice \/ Forget \/ CheckKey \/ Detect \/ AddKey \/ AddDescription

-----------------------------------------------------------------------------
(* The exploring thread.                                                   *)

Goes(pc, next) == explorer.pc = pc /\ explorer' = next

\* A new time stamp makes every packet under way an old one.
Stamp(in_time) ==
    /\ Goes("stamp", Explorer("send", Switches, {})) /\ prompt' = in_time
    /\ air' = {[m EXCEPT !.fresh = FALSE] : m \in air}
    /\ UNCHANGED <<todo, links, configuredLinks, ConfigLinksDesciption, link_sdn_nodes,
                   configureNodes, Nodos_SDN, log_listo, ports>>

\* A request to every switch, and the answers of the network.
SendTo(s) ==
    /\ explorer.pc = "send" /\ s \in explorer.todo
    /\ Goes("send", Explorer(IF explorer.todo = {s} THEN "sleep" ELSE "send",
                              explorer.todo \ {s}, {}))
    /\ air' = air \cup {[packet |-> p, fresh |-> TRUE] : p \in {q \in network : q.from = s}}
    /\ Nodos_SDN' = Nodos_SDN \cup {s}
    /\ UNCHANGED <<todo, links, configuredLinks, ConfigLinksDesciption, link_sdn_nodes,
                   configureNodes, log_listo, prompt, ports>>

\* After TIME_REFRESH, in which the answers of a prompt round have been
\* processed: the measurement, once, when all SDN switches are there
\* and later than the start.
WakeUp(later) ==
    LET measured == ~log_listo /\ later /\ Cardinality(Nodos_SDN) = num_dev_sdn_file IN
    /\ prompt => todo = <<>> /\ \A m \in air : ~m.fresh
    /\ Goes("sleep", Explorer("vanish", ConfigLinksDesciption, ConfigLinksDesciption))
    /\ log_listo' = (log_listo \/ measured)
    /\ link_sdn_nodes' = IF measured THEN {} ELSE link_sdn_nodes
    /\ configureNodes' = IF measured THEN {} ELSE configureNodes
    /\ UNCHANGED <<todo, air, links, configuredLinks, ConfigLinksDesciption, Nodos_SDN, prompt, ports>>

\* linkVanished for the next element of the set.  An iterator over a HashSet
\* that the other thread has added to throws, which ends the thread, when it
\* sees the change.
Vanish(key) ==
    /\ key \in explorer.todo
    /\ Goes("vanish", [explorer EXCEPT !.todo = @ \ {key}])
    /\ links' = links \ {key}
    /\ UNCHANGED <<todo, air, configuredLinks, ConfigLinksDesciption, link_sdn_nodes,
                   configureNodes, Nodos_SDN, log_listo, prompt, ports>>
IteratorFails ==
    /\ explorer.todo # {}
    /\ ConfigLinksDesciption # explorer.seen
    /\ Goes("vanish", Explorer("dead", {}, {}))
    /\ UNCHANGED <<todo, air, links, configuredLinks, ConfigLinksDesciption, link_sdn_nodes,
                   configureNodes, Nodos_SDN, log_listo, prompt, ports>>

\* The sets are cleared one after the other.
NeverForgets ==
    /\ explorer.todo = {} /\ Goes("vanish", Explorer("clear", {}, {}))
    /\ UNCHANGED <<todo, air, links, configuredLinks, ConfigLinksDesciption, link_sdn_nodes,
                   configureNodes, Nodos_SDN, log_listo, prompt, ports>>
ClearKeys ==
    /\ explorer.todo = {} /\ Goes("vanish", Explorer("clear", {}, {}))
    /\ configuredLinks' = {}
    /\ UNCHANGED <<todo, air, links, ConfigLinksDesciption, link_sdn_nodes,
                   configureNodes, Nodos_SDN, log_listo, prompt, ports>>
ClearDescriptions ==
    /\ Goes("clear", Explorer("stamp", {}, {}))
    /\ ConfigLinksDesciption' = {}
    /\ UNCHANGED <<todo, air, links, configuredLinks, link_sdn_nodes,
                   configureNodes, Nodos_SDN, log_listo, prompt, ports>>

Explores ==
    \/ (\E in_time \in BOOLEAN : Stamp(in_time)) \/ (\E s \in Switches : SendTo(s))
    \/ (\E later \in BOOLEAN : WakeUp(later))
    \/ (\E key \in explorer.todo : explorer.pc = "vanish" /\ Vanish(key))
    \/ ClearKeys \/ ClearDescriptions

Take == \E m \in air : process(m)
OnosNext == network' = network /\ (Take \/ Processor \/ Explores \/ IteratorFails)
-----------------------------------------------------------------------------
\* The links a packet stands for.
LinksOf(p) ==
    UNION {{t.arg[k] : k \in DOMAIN t.arg} :
              t \in {x \in ToSet(ProcessReply(p)) : x.op = "check"}}

\* The ends of a link that are legacy switches are ports of devices in ONOS:
\* checkdevices() has made them before linkstopology() uses them, and adding a
\* port to a device later takes none away, however the packets of different
\* paths and explorations follow each other.  (It is not so for sensors, whose
\* links end at a device of another name.)
PortsExist ==
    \A key \in links : \A end \in {<<key[1], key[2]>>, <<key[3], key[4]>>} :
        end[1][1] = "sw" => end \in ports

\* A link that the network reports in every exploration is in ONOS again and
\* again, for as long as the exploring thread lives: whatever the rounds took
\* back and in whichever order the two threads touched the sets, nothing
\* makes the application believe for ever that the link is already there.
Reports == {<<p, key>> \in {q \in UNION Networks : q.opcode = 2} \X
                (UNION {LinksOf(q) : q \in {r \in UNION Networks : r.opcode = 2}}) :
              key \in LinksOf(p)}
InOnos(p, key) == explorer.pc = "dead" \/ p \notin network \/ key \in links
=============================================================================
