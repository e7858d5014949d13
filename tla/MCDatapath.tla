----------------------------- MODULE MCDatapath -----------------------------
(***************************************************************************)
(* The parts of the datapath and of its libraries that share no state, one *)
(* after the other: a behaviour is one of the part that is chosen at the   *)
(* start, and the variables of the others are Off (those of DpBuffers, as  *)
(* at the start).                                                          *)
(***************************************************************************)
EXTENDS DpBuffers, SequencesExt

CONSTANT Parts   \* the parts to be checked

VARIABLES
    part,
    msg, wire, received,
    pkt, edits,
    conf, groups, last, packets,
    hmap, next, held, iter,
    ofpbuf, block, writes, content, marked,
    ml, heard,
    flags, fs, proc, first   \* the flags at the start

PacketSymmetry == Permutations(Packet)

Codec == INSTANCE OflMessages

-----------------------------------------------------------------------------
(* PacketEdit: lists of up to three actions on a frame of each kind.  The  *)
(* sums of the words under a checksum are beyond 16 bits, some after an    *)
(* action only, and none is WORD, where a single carry is not enough.      *)
Std == INSTANCE PacketStd
Csum(sum) == Std!WORD - 1 - ((sum % Std!WORD) + (sum \div Std!WORD))
Eth(dst, t) == [k |-> "eth", src |-> 1, dst |-> dst, type |-> t]
Ip(proto, ttl) == [k |-> "ip", dscp |-> 1, ecn |-> 0, ttl |-> ttl, proto |-> proto, src |-> 40000,
                   dst |-> 25400, csum |-> Csum(Std!Tos(1, 0) + Std!TtlProto(ttl, proto) + 65400)]
Ip6(proto) == [k |-> "ip6", dscp |-> 1, ecn |-> 1, ttl |-> 2, proto |-> proto, src |-> 40000,
               dst |-> 25400, flabel |-> 5]
Vid(vid) == [k |-> "vlan", vid |-> vid, pcp |-> 0, type |-> "ip"]
L4(k) == [k |-> k, sport |-> 3, dport |-> 4, csum |-> IF k = "sctp" THEN 7 ELSE Csum(65407)]
EditFrames ==
    {<<Eth(2, "ip"), Ip("tcp", 2), L4("tcp")>>,
     <<Eth(2, "ip"), Ip("udp", 2), L4("udp")>>,
     <<Eth(2, "ip6"), Ip6("tcp"), L4("tcp")>>,
     <<Eth(2, "vlan"), Vid(1), Ip("sctp", 2), L4("sctp")>>,
     <<Eth(2, "ip"), Ip("icmp", 2), [k |-> "icmp", type |-> 1, code |-> 0, csum |-> Csum(8)]>>,
     <<Eth(2, "arp"), [k |-> "arp", op |-> 1, spa |-> 10]>>}
Set(f, v) == [k |-> "set_field", field |-> f, value |-> v]
EditActions ==
    <<Set("ETH_DST", 5), Set("ETH_SRC", 5), Set("VLAN_VID", 2), Set("VLAN_PCP", 1),
     Set("IP_DSCP", 3), Set("IP_ECN", 2), Set("IP_PROTO", "udp"), Set("IPV4_SRC", 50000), Set("IPV4_DST", 21),
     Set("IPV6_SRC", 60000),
     Set("IPV6_FLABEL", 6), Set("TCP_SRC", 5), Set("UDP_DST", 6), Set("SCTP_SRC", 6),
     Set("ICMP_TYPE", 2), Set("ARP_OP", 2), Set("MPLS_LABEL", 7), Set("PBB_ISID", <<0, 1, 1>>),
     Set("TUNNEL_ID", 1), [k |-> "copy_ttl_out"], [k |-> "copy_ttl_in"],
     [k |-> "set_mpls_ttl", ttl |-> 3], [k |-> "dec_mpls_ttl"], [k |-> "set_nw_ttl", ttl |-> 1],
     [k |-> "dec_nw_ttl"], [k |-> "push_vlan", type |-> "vlan"], [k |-> "push_vlan", type |-> "svlan"],
     [k |-> "pop_vlan"], [k |-> "push_mpls", type |-> "mpls"], [k |-> "push_pbb", type |-> "pbb"],
     [k |-> "pop_pbb"], [k |-> "set_queue", queue |-> 1]>>
    \o [i \in 1..3 |-> [k |-> "pop_mpls", type |-> <<"mpls", "ip", "ip6">>[i]]]

Edit == INSTANCE PacketEdit WITH Frames <- EditFrames, Edits <- EditActions, MaxEdits <- 3

-----------------------------------------------------------------------------
(* Pipeline: packets through two tables and three groups, one of each kind *)
(* of packet, and instructions in many combinations.                       *)
Frame == <<Eth(2, "ip"), Ip("tcp", 2), L4("tcp")>>
Out(port) == [k |-> "output", port |-> port]
Grp(g) == [k |-> "group", group |-> g]
Q(q) == [k |-> "set_queue", queue |-> q]
Vlan == [k |-> "push_vlan", type |-> "vlan"]
NoVlan == [k |-> "pop_vlan"]
Ttl == [k |-> "dec_nw_ttl"]
In(frame) == [frame |-> frame, in_port |-> "1", packet_out |-> FALSE, actions |-> << >>, length |-> 60]
Arrivals ==
    <<In(Frame), In(<<Eth(2, "ip"), Ip("tcp", 0), L4("tcp")>>), In(<<Eth(9, "ip"), Ip("udp", 2), L4("udp")>>),
      In(<<Eth(2, "vlan"), Vid(1), Ip("tcp", 2), L4("tcp")>>),
      [frame |-> Frame, in_port |-> "1", packet_out |-> TRUE, length |-> 60,
       actions |-> <<Set("ETH_DST", 5), Out("TABLE"), Out("3"), Grp(3), Q(1), Out("4")>>]>>
Bucket(w, live, actions) == [weight |-> w, live |-> live, actions |-> actions]
Groups(a, b, t) ==
    <<[type |-> t, buckets |-> <<Bucket(2, FALSE, a), Bucket(1, TRUE, b), Bucket(3, TRUE, <<Out("IN_PORT")>>)>>],
      [type |-> "INDIRECT", buckets |-> <<Bucket(0, TRUE, <<Set("VLAN_VID", 3), Out("5")>>)>>],
      [type |-> t, buckets |-> <<Bucket(1, TRUE, <<Set("ETH_DST", 3), Out("8")>>), Bucket(2, TRUE, <<Out("9")>>)>>]>>
Lists == <<<<Vlan, Set("VLAN_VID", 2), Out("2"), NoVlan, Ttl>>, <<Grp(3), Set("ETH_SRC", 7), Out("FLOOD")>>,
          <<Out("CONTROLLER"), Set("IPV4_SRC", 12)>>, <<Q(2), Out("4"), Out("ALL")>>, << >>>>
Writes == <<<<Out("3"), Set("ETH_DST", 6), Vlan, Q(1)>>, <<Grp(1), Set("ETH_DST", 4), Out("2")>>, <<Ttl>>, << >>>>
Write(w) == [k |-> "write", actions |-> w]
Config(w, l, t, b, buf, mt) ==
    [tables |-> <<<<[fields |-> ("ETH_DST" :> 2), metadata |-> {},
                     instructions |-> <<[k |-> "goto", table |-> 2], Write(w), [k |-> "apply", actions |-> l],
                                        [k |-> "metadata", mask |-> {0, 1}, value |-> {1, 2}]>>]>>,
                  <<[fields |-> ("VLAN_VID" :> 1), metadata |-> {},
                     instructions |-> <<[k |-> "clear"], Write(<<Out("9")>>)>>],
                    [fields |-> ("IP_PROTO" :> "tcp"), metadata |-> {1},
                     instructions |-> <<Write(<<Set("ETH_DST", 8), Vlan, Out("6")>>), [k |-> "meter"]>>]>>>>,
     groups |-> Groups(<<Ttl, Out("7"), Set("ETH_DST", 3)>>, b, t), buffering |-> buf, meter |-> mt]
PipeConfigs ==
    [x \in (1..Len(Writes)) \X (1..Len(Lists)) \X {"ALL", "SELECT", "FF"} \X {1, 2} \X BOOLEAN \X {"pass", "exceeded"} |->
       Config(Writes[x[1]], Lists[x[2]], x[3], <<<<Grp(2), Vlan>>, <<Out("8")>>>>[x[4]], x[5], x[6])]

Pipe == INSTANCE Pipeline WITH Configs <- PipeConfigs, MaxPackets <- 12

\* The same packet again and again.
PipeNext == \E i \in DOMAIN Arrivals : (packets > 0 => last.arrival = i) /\ Pipe!Receive(i)

-----------------------------------------------------------------------------
(* Hmap: four nodes, two with the same hash and one in their bucket for    *)
(* some sizes of the map only.                                             *)
Map ==
    INSTANCE Hmap WITH Nodes <- {"a", "b", "c", "d"}, Capacities <- {2, 8}, NULL <- "NULL",
        Hash <- [a |-> 1, b |-> 1, c |-> 5, d |-> 7]

(* Ofpbuf: up to three writes of one or two bytes, in two places of the    *)
(* heap.                                                                   *)
Buf ==
    INSTANCE Ofpbuf WITH b <- ofpbuf, heap <- block, Blocks <- {100, 200}, Sizes <- {1, 2},
        GROW <- 2, MaxWrites <- 3, MaxHeadroom <- 3

(* MacLearning: four addresses, two in one bucket, for two entries.        *)
Learn ==
    INSTANCE MacLearning WITH Macs <- {"a", "b", "c", "d"}, Multicast <- {"m"}, Ports <- {1, 2},
        MAC_MAX <- 2, Lifetime <- 2, OFPP_FLOOD <- 99,
        MacHash <- [a |-> 1, b |-> 4, c |-> 2, d |-> 9, m |-> 0]

-----------------------------------------------------------------------------
(* Shutdown: two programs started with the same pidfile, and two that only *)
(* work on the flags of their devices: one adds a port and runs on, the    *)
(* other opens a device, closes it and exits.  Both interfaces start       *)
(* alike.                                                                  *)
UpFlags == {"IFF_UP", "IFF_PROMISC"}
Call(op, arg) == <<[op |-> op, arg |-> arg]>>
AddPort(i) == Call("netdev_open", i) \o Call("netdev_set_flags", {}) \o Call("netdev_set_flags", UpFlags)
Detach == Call("die_if_already_running", "") \o Call("daemonize", "")

Programs ==
    {[dp |-> Call("netdev_open", "eth1") \o Call("netdev_set_flags", UpFlags) \o Detach,
      tool |-> Detach \o Call("exit", "")],
     [dp |-> AddPort("eth1"),
      tool |-> Call("netdev_open", "eth2") \o Call("netdev_set_flags", UpFlags)
               \o Call("netdev_close", "") \o Call("exit", "")]}

Exit ==
    INSTANCE Shutdown WITH Interfaces <- {"eth1", "eth2"}, Nested <- FALSE, Names <- {"dp", "tool"}

\* The flags matter to the second pair only.
ShutdownInit ==
    /\ Exit!ShutInit /\ flags["eth1"] = flags["eth2"] /\ first = flags
    /\ (\E p \in Exit!Processes : proc[p].todo # <<>> /\ Last(proc[p].todo).op = "daemonize")
          => flags["eth1"] = {}
ShutdownNext == Exit!ShutNext /\ UNCHANGED first

-----------------------------------------------------------------------------
codecVars == <<msg, wire, received>>
editVars == <<pkt, edits>>
pipeVars == <<conf, groups, last, packets>>
hmapVars == <<hmap, next, held, iter>>
bufVars == <<ofpbuf, block, writes, content, marked>>
learnVars == <<ml, heard>>
exitVars == <<flags, fs, proc, first>>
suiteVars ==
    <<part, bufferVars, codecVars, editVars, pipeVars, hmapVars, bufVars, learnVars, exitVars>>

\* The parts whose work ends: their steps are bounded, or the program exits.
MayStop == {"codec", "edit", "pipeline", "ofpbuf", "shutdown"}

Off == "off"
Off2(x, y) == x = Off /\ y = Off
Off3(x, y, z) == Off2(x, y) /\ z = Off
Off4(x, y, z, u) == Off2(x, y) /\ Off2(z, u)
Off5(x, y, z, u, v) == Off2(x, y) /\ Off3(z, u, v)

SuiteInit ==
    /\ part \in Parts
    /\ BuffersInit
    /\ IF part = "codec" THEN Codec!CodecInit ELSE Off3(msg, wire, received)
    /\ IF part = "edit" THEN Edit!EditInit ELSE Off2(pkt, edits)
    /\ IF part = "pipeline" THEN Pipe!PipeInit ELSE Off4(conf, groups, last, packets)
    /\ IF part = "hmap" THEN Map!HmapInit ELSE Off4(hmap, next, held, iter)
    /\ IF part = "ofpbuf" THEN Buf!BufInit ELSE Off5(ofpbuf, block, writes, content, marked)
    /\ IF part = "mac_learning" THEN Learn!LearningInit ELSE Off2(ml, heard)
    /\ IF part = "shutdown" THEN ShutdownInit ELSE Off4(flags, fs, proc, first)

\* A step of part p leaves the variables of all others alone.
Only(p) ==
    /\ part = p /\ UNCHANGED part
    /\ IF p = "buffers" THEN TRUE ELSE UNCHANGED bufferVars
    /\ IF p = "codec" THEN TRUE ELSE UNCHANGED codecVars
    /\ IF p = "edit" THEN TRUE ELSE UNCHANGED editVars
    /\ IF p = "pipeline" THEN TRUE ELSE UNCHANGED pipeVars
    /\ IF p = "hmap" THEN TRUE ELSE UNCHANGED hmapVars
    /\ IF p = "ofpbuf" THEN TRUE ELSE UNCHANGED bufVars
    /\ IF p = "mac_learning" THEN TRUE ELSE UNCHANGED learnVars
    /\ IF p = "shutdown" THEN TRUE ELSE UNCHANGED exitVars

SuiteNext ==
    \/ Only("buffers") /\ BuffersNext
    \/ Only("codec") /\ Codec!CodecNext
    \/ Only("edit") /\ Edit!EditNext
    \/ Only("pipeline") /\ PipeNext
    \/ Only("hmap") /\ Map!HmapNext
    \/ Only("ofpbuf") /\ Buf!BufNext
    \/ Only("mac_learning") /\ Learn!LearningNext
    \/ Only("shutdown") /\ ShutdownNext
    \/ part \in MayStop /\ UNCHANGED suiteVars

SuiteSpec == SuiteInit /\ [][SuiteNext]_suiteVars
-----------------------------------------------------------------------------
\* What is packed into a message is what is unpacked from it: each field in its
\* place, nothing left over (ofl_msg_pack(), ofl_msg_unpack()).
RoundTrip == part = "codec" => Codec!RoundTrip /\ Codec!PackedInPlace /\ Codec!WholeMessageConsumed

\* After any list of actions the checksums of IPv4, TCP and UDP are right, the
\* packet's handle shows the packet as it is, and what was pushed last is popped
\* first (dp_execute_action_list()).
PacketIntact ==
    part = "edit" => /\ Edit!HandleFresh /\ Edit!PushThenPop
                     /\ Edit!IpChecksumRight /\ Edit!TransportChecksumRight

\* What leaves the switch is what the tables and groups say, in that order and
\* with the header fields of that moment (pipeline_process_packet()); every
\* packet that comes in, and every copy of one, ends once: it is sent, dropped or
\* buffered (pipeline.c, group_table.c, dp_actions.c); and a select group gives
\* each bucket its share of the packets.
PacketsProcessed ==
    part = "pipeline" => /\ Pipe!SendsWhatItShould /\ Pipe!EachPacketEndsOnce
                         /\ Pipe!WeightedShares

\* What is put into the library's containers stays there.  A node of a hash map
\* is found by its hash, through growing and shrinking, and an iteration visits
\* each node once, also when the loop removes the node it is at (hmap.c,
\* HMAP_FOR_EACH_SAFE); the bytes put into a buffer stay what and where they were
\* put, through every reallocation (ofpbuf_put(), ofpbuf_push()); and the MAC
\* learning table knows the addresses heard latest, each with its last port
\* (mac_learning_learn(), mac_learning_run()).
ContentsKept ==
    /\ [](part = "hmap" => Map!FoundByHash)
    /\ [][part = "hmap" => Map!VisitsEachOnce]_suiteVars
    /\ [](part = "ofpbuf" => Buf!BytesKept)
    /\ [](part = "mac_learning" => Learn!KnowsTheLatest /\ Learn!ListsAgree)

\* However a program ends, it has put the flags of its interfaces back; a
\* pidfile names a process that runs; and a parent that exits disturbs nothing
\* its daemon set up (netdev.c, fatal-signal.c, daemon.c).
CleanExit ==
    part = "shutdown" => Exit!FlagsReverted(first) /\ Exit!PidfileNamesTheLiving /\ Exit!DaemonUndisturbed
=============================================================================
