----------------------------- MODULE MCNetworks -----------------------------
(***************************************************************************)
(* The parts that make a network of the switches: the MAC-to-port tables,  *)
(* the spanning tree protocol, the packets that switches and controller    *)
(* write and read in two languages, and the ONOS application.  They share  *)
(* no state: a behaviour is one of the part that is chosen at the start,   *)
(* and the other parts stay at their beginning.                            *)
(***************************************************************************)
EXTENDS MacToPort

CONSTANT Parts   \* the parts to be checked

VARIABLES
    part,
    bridge, link, faults,
    trip, bytes, hops, refused,
    network, explorer, todo, air, links, configuredLinks, ConfigLinksDesciption,
    link_sdn_nodes, configureNodes, Nodos_SDN, log_listo, prompt, ports

-----------------------------------------------------------------------------
(* Stp: three bridges in a triangle, in which one BPDU may be lost or one  *)
(* port go down.                                                           *)
BpduPeer ==
    [e \in (1 .. 3) \X {1, 2} |->
        IF e[2] = 1 THEN IF e[1] = 3 THEN <<2, 2>> ELSE <<3 - e[1], 1>>
        ELSE IF e[1] = 2 THEN <<3, 1>> ELSE <<4 - e[1], 2>>]
BpduCost == [e \in (1 .. 3) \X {1, 2} |-> 19]
Bpdu ==
    INSTANCE Stp WITH Bridges <- 1 .. 3, N <- 2, Peer <- BpduPeer, PathCost <- BpduCost,
        BigEndian <- FALSE, MaxFaults <- 1

-----------------------------------------------------------------------------
(* EhddpWire: chains of switches longer than a packet has room for.        *)
\* A chain of n switches: every third one is no SDN switch, one id needs two
\* bytes, and a request is flooded (a port number beyond 255).
Chain(n, first, opcode, width) ==
    [opcode |-> opcode,
     devices |-> [k \in 1..n |->
        [id |-> IF k = 4 THEN 600 ELSE first + k, type |-> IF k % 3 = 1 THEN 2 ELSE 3,
         in |-> 1 + (k % width), out |-> IF opcode = 1 THEN 65531 ELSE 1 + ((k + 1) % width)]]]

Trips ==
    {Chain(33, first, opcode, width) : first \in {20, 220}, opcode \in {1, 2}, width \in {2, 254}}
Wire == INSTANCE EhddpWire WITH Beyond <- {0, 255}

-----------------------------------------------------------------------------
(* OnosApp: two switches that ONOS knows, and a third one behind a switch  *)
(* that is no SDN switch.                                                  *)
Hop(id, type, in, out) ==
    [id |-> id, type |-> type, in |-> in, out |-> out, both |-> TRUE]
OneWay(hop) == [hop EXCEPT !.both = FALSE]
Packet(opcode, from, port, path) ==
    [opcode |-> opcode, from |-> from, port |-> port, hops |-> path]
Networks ==
    {{Packet(2, 1, 1, <<Hop(3, 3, 1, 1), Hop(9, 2, 2, 1)>>)},
     {Packet(2, 1, 1, <<OneWay(Hop(9, 2, 1, 1))>>), Packet(2, 1, 3, <<OneWay(Hop(9, 2, 3, 3))>>)},
     {Packet(1, 1, 2, <<Hop(2, 1, 255, 255)>>), Packet(1, 2, 1, <<Hop(1, 1, 255, 255)>>)},
     {Packet(2, 2, 1, <<Hop(1, 1, 2, 2)>>), Packet(1, 2, 1, <<Hop(7, 4, 1, 1), Hop(9, 2, 2, 1)>>)},
     {Packet(2, 2, 1, <<OneWay(Hop(7, 4, 1, 1))>>)}}
Onos == INSTANCE OnosApp WITH Switches <- {1, 2}, num_dev_sdn_file <- 3

-----------------------------------------------------------------------------
bpduVars == <<bridge, link, faults>>
wireVars == <<trip, bytes, hops, refused>>
onosVars == <<network, explorer, todo, air, links, configuredLinks, ConfigLinksDesciption,
              link_sdn_nodes, configureNodes, Nodos_SDN, log_listo, prompt, ports>>
suiteVars == <<part, vars, bpduVars, wireVars, onosVars>>

SuiteInit ==
    /\ part \in Parts
    /\ Init
    /\ Bpdu!Init
    /\ Wire!WireInit /\ (part # "wire" => trip = CHOOSE t \in Trips : TRUE)
    /\ Onos!OnosInit /\ (part # "onos" => network = CHOOSE n \in Networks : TRUE)

\* A step of part p leaves the variables of all others alone.
Only(p) ==
    /\ part = p /\ UNCHANGED part
    /\ IF p = "mac_table" THEN TRUE ELSE UNCHANGED vars
    /\ IF p = "stp" THEN TRUE ELSE UNCHANGED bpduVars
    /\ IF p = "wire" THEN TRUE ELSE UNCHANGED wireVars
    /\ IF p = "onos" THEN TRUE ELSE UNCHANGED onosVars

\* A packet's trip ends, and so does the exploring thread with an exception.
SuiteNext ==
    \/ Only("mac_table") /\ Next
    \/ Only("stp") /\ Bpdu!Next
    \/ Only("wire") /\ Wire!WireNext
    \/ Only("onos") /\ Onos!OnosNext
    \/ part \in {"wire", "onos"} /\ (part = "onos" => explorer.pc = "dead") /\ UNCHANGED suiteVars

\* A loop that was begun goes on.
MacFair == WF_vars(part = "mac_table" /\ (DeleteStep \/ SkipStep \/ EndLoop))

\* Time passes, and BPDUs that are not lost arrive.
BpduFair == WF_bpduVars(part = "stp" /\ (Bpdu!Tick \/ \E e \in Bpdu!Ends : Bpdu!Deliver(e)))

\* Both threads run and packets arrive; of the rounds, which last three
\* seconds, infinitely many are prompt.
OnosFair ==
    /\ WF_onosVars(part = "onos" /\ network' = network /\ Onos!Explores)
    /\ WF_onosVars(part = "onos" /\ network' = network /\ Onos!Processor)
    /\ SF_onosVars(part = "onos" /\ network' = network /\ Onos!Stamp(TRUE))
    /\ \A p \in UNION Networks :
           WF_onosVars(/\ part = "onos" /\ network' = network
                       /\ Onos!process([packet |-> p, fresh |-> TRUE]))

SuiteSpec == SuiteInit /\ [][SuiteNext]_suiteVars /\ MacFair /\ BpduFair /\ OnosFair
-----------------------------------------------------------------------------
\* Frames cannot circulate: the ports that forward make no loop of links, at
\* no moment of the protocol; what a bridge knows of the root ages; the switch is
\* told every change of a port's state; and once no BPDU is lost and no port goes
\* up or down, the bridges agree on the root, and the links that forward connect
\* what the working ones do (stp.c).
TreeForms ==
    /\ [](part = "stp" => /\ Bpdu!NoForwardingLoop /\ Bpdu!RootPortAges
                          /\ Bpdu!NoChangeMissed)
    /\ <>[](part = "stp" => Bpdu!Converged)

\* What the controller reads from an eHDDP packet is what the switches on its
\* way wrote, although the two are written in two languages (dp_actions of
\* eHDDP in dp_ports.c, eHDDPpacket.java).
ControllerReads == part = "wire" => Wire!ControllerReads

\* A link that the network reports in every exploration is in ONOS again and
\* again for as long as the exploring thread lives, and its ends that are
\* legacy switches are ports of devices there (AppComponent.java,
\* eHDDPproviderlink.java).
LinksComeBack ==
    /\ [](part = "onos" => Onos!PortsExist)
    /\ \A r \in Onos!Reports : []<>(part = "onos" => Onos!InOnos(r[1], r[2]))

\* The linked lists stay lists of the nodes that are allocated, and with their
\* delete loops implement the tables of
\* MacToPortTable, although the deletion of the last entry reads through a
\* freed node, and every delete loop ends (dp_ports.c).
ListsAreTables == [](TypeOK /\ WellFormed) /\ ImplementsTable /\ LoopsEnd
=============================================================================
