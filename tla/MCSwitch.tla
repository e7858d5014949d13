------------------------------ MODULE MCSwitch ------------------------------
(***************************************************************************)
(* The controllers of a datapath, its meters, its ports and the ARP-path   *)
(* forwarding of a network of switches.  They share no state: a behaviour  *)
(* is one of the part that is chosen at the start, and the variables of    *)
(* the others stay as at the start.                                        *)
(***************************************************************************)
EXTENDS DatapathRemotes, Meters, DpPorts, ArpPath, TLC

CONSTANT Parts   \* the parts to be checked

VARIABLE part

-----------------------------------------------------------------------------
(* DatapathRemotes: three controllers that change their masks.             *)

\* remote_create(): every reason is enabled, for either kind of role.
AllReasons ==
    [packet_in    |-> [full |-> PacketInReason, slave |-> PacketInReason],
     port_status  |-> [full |-> PortReason, slave |-> PortReason],
     flow_removed |-> [full |-> FlowRemovedReason, slave |-> FlowRemovedReason]]

\* A controller that wants no flow-removed message, nor port additions.
NoFlowRemoved ==
    [AllReasons EXCEPT !.flow_removed.full = {}, !.port_status.slave = {"MODIFY"},
                       !.port_status.full = {"DELETE", "MODIFY"}]

TwoConfigs == {AllReasons, NoFlowRemoved}

\* No controller is distinguished.
RemoteSymmetry == Permutations(Remote)

-----------------------------------------------------------------------------
(* Meters: one or two bands of every type, counting packets or bytes.      *)
Drop(rate, burst) == [type |-> "DROP", rate |-> rate, burst_size |-> burst]
Remark(rate, burst, p) == [type |-> "DSCP_REMARK", rate |-> rate, burst_size |-> burst, prec_level |-> p]
MCMeterMods ==
    <<[flags |-> {"PKTPS"}, bands |-> <<Drop(2, 0)>>],
      [flags |-> {"PKTPS"}, bands |-> <<Remark(2, 0, 1), Drop(3, 0)>>],
      [flags |-> {"PKTPS", "BURST"}, bands |-> <<Drop(3, 2), Remark(2, 4, 2)>>],
      [flags |-> {"KBPS"}, bands |-> <<Drop(1, 0), [type |-> "EXPERIMENTER", rate |-> 2, burst_size |-> 1]>>],
      [flags |-> {"KBPS", "BURST"}, bands |-> <<Remark(1, 2, 1)>>],
      [flags |-> {}, bands |-> <<Drop(1, 1)>>]>>

ASSUME MeterAssumption

-----------------------------------------------------------------------------
(* DpPorts: one or two ports with two queues each, with and without a      *)
(* local port from the start; requests for ports there and not there, by   *)
(* masters and slaves, and one packet.                                     *)
PortMod(no, slave, knows, bits, mask) ==
    [type |-> "PORT_MOD", port |-> no, slave |-> slave, knows |-> knows, config |-> bits, mask |-> mask]
QueueMsg(type, no, q, rate) == [type |-> type, port |-> no, queue |-> q, rate |-> rate]
MCPortRequests ==
    {PortMod(1, FALSE, TRUE, bits, {"PORT_DOWN"}) : bits \in {{}, {"PORT_DOWN"}}}
    \cup {PortMod(100, FALSE, TRUE, {"PORT_DOWN"}, {"NO_FWD"}), PortMod(1, FALSE, TRUE, {}, {}),
          PortMod(1, TRUE, TRUE, {}, {}), PortMod(7, FALSE, TRUE, {}, {}), PortMod(1, FALSE, FALSE, {}, {})}
    \cup {QueueMsg("QUEUE_MODIFY", 1, 1, rate) : rate \in {1, 2}}
    \cup {QueueMsg("QUEUE_DELETE", no, 1, 0) : no \in {1, 100, 7}}
    \cup {QueueMsg("QUEUE_MODIFY", 1, q, 1) : q \in {0, 2}} \cup {QueueMsg("QUEUE_MODIFY", 7, 1, 1)}
MCPortLists == {<<"eth1", "eth2">>, <<"eth2">>}
MCLocalPorts == {{}, {"tap"}}

ASSUME PortsAssumption

-----------------------------------------------------------------------------
(* ArpPath: three switches in a ring, a host at two of them; one of the    *)
(* hosts may ask for the controller's address.                             *)
MCPeer ==
    LET half == {<<<<1, 1>>, <<2, 2>>>>, <<<<2, 1>>, <<3, 2>>>>, <<<<3, 1>>, <<1, 2>>>>,
                 <<<<1, 3>>, <<11, 1>>>>, <<<<3, 3>>, <<13, 1>>>>}
        both == half \cup {<<l[2], l[1]>> : l \in half}
    IN  [e \in {l[1] : l \in both} |-> (CHOOSE l \in both : l[1] = e)[2]]
MCHosts == [h \in {11, 13} |-> <<h, 1>>]

MCEnds == DOMAIN MCPeer
MCAsked == [h \in {11, 13} |-> IF h = 13 THEN {"host", "controller"} ELSE {"host"}]

ASSUME Network

\* The properties are about the time before an entry expires.
UntilExpired == ~expired /\ ArpNext

-----------------------------------------------------------------------------
suiteVars == <<part, vars, meterVars, portVars, arpVars>>

SuiteInit ==
    /\ part \in Parts
    /\ Init /\ MeterInit /\ PortsInit /\ ArpInit
    /\ part # "meters" => meter = MeterMods[1]
    /\ part # "ports" => pending = [ports |-> <<"eth2">>, local |-> {}]

\* A step of part p leaves the variables of all others alone.
Only(p) ==
    /\ part = p /\ UNCHANGED part
    /\ IF p = "remotes" THEN TRUE ELSE UNCHANGED vars
    /\ IF p = "meters" THEN TRUE ELSE UNCHANGED meterVars
    /\ IF p = "ports" THEN TRUE ELSE UNCHANGED portVars
    /\ IF p = "arp_path" THEN TRUE ELSE UNCHANGED arpVars

\* The parts whose steps are bounded, or that end.
MayStop == {"meters", "ports", "arp_path"}

SuiteNext ==
    \/ Only("remotes") /\ Next
    \/ Only("meters") /\ MeterNext
    \/ Only("ports") /\ PortsNext
    \/ Only("arp_path") /\ UntilExpired
    \/ part \in MayStop /\ UNCHANGED suiteVars

SuiteSpec == SuiteInit /\ [][SuiteNext]_suiteVars
=============================================================================
