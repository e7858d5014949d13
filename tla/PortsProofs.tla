---------------------------- MODULE PortsProofs ----------------------------
(***************************************************************************)
(* The ports and queues of a datapath: for any devices, any numbers of     *)
(* slots and of queues, any requests and any failures of tc, they are as   *)
(* the controllers are told, and the replies about them put in as many     *)
(* entries as they have room for.                                          *)
(***************************************************************************)
EXTENDS DpPorts, FiniteSetTheorems, TLAPS

Queue == [used : BOOLEAN, rate : Nat, tx : Nat]
Port ==
    [netdev : Interfaces \cup {"NULL"}, state : SUBSET {"LIVE", "LINK_DOWN"}, config : SUBSET Flags,
     told : SUBSET Flags, max_queues : Nat, num_queues : Nat, queues : [Queues -> Queue],
     rx : Nat, tx : Nat, dropped : Nat]

UsedOf(p) == {q \in Queues : p.queues[q].used}
LiveAsItIs(p) == "LIVE" \in p.state <=> "LINK_DOWN" \notin p.state /\ "PORT_DOWN" \notin p.config
\* What a port in use says of itself.
Sound(p) ==
    /\ p.netdev \in Interfaces
    /\ LiveAsItIs(p) /\ p.told = p.config
    /\ \A q \in Queues : p.queues[q].tx <= p.tx
Counted(p) == p.num_queues = Cardinality(UsedOf(p))
PortOK(p) == p \in Port /\ Counted(p) /\ (Used(p) => Sound(p))
QueuesOf(no, p) == p.max_queues = IF Used(p) /\ no # OFPP_LOCAL THEN Slicing ELSE 0

\* How many slots are taken.
Taken == IF InUse(OFPP_LOCAL) THEN ports_num - 1 ELSE ports_num
PortsType ==
    /\ pending \in [ports : Seq(Interfaces), local : SUBSET Interfaces]
    /\ ports \in [PortNos -> Port]
    /\ port_list \in Seq(PortNos) /\ ports_num \in Nat
    /\ classes \in [Interfaces -> [Queues -> SUBSET Nat]]
\* The slots are taken from the first on.
Numbered == Taken \in 0..(DP_MAX_PORTS - 1) /\ \A no \in Slots : InUse(no) <=> no <= Taken
Listing ==
    /\ Range(port_list) = {no \in PortNos : InUse(no)}
    /\ Len(port_list) = ports_num /\ IsInjective(port_list)
\* Each device has one port besides the local one, or is still to get it.
Devices ==
    /\ IsInjective(pending.ports)
    /\ \A no \in Slots, i \in DOMAIN pending.ports : ports[no].netdev # pending.ports[i]
    /\ \A m, n \in Slots : InUse(m) /\ ports[m].netdev = ports[n].netdev => m = n
EachPort == \A no \in PortNos : PortOK(ports[no]) /\ QueuesOf(no, ports[no])
\* The queues of port p and its classes, as the code leaves them in c and s.
Agree(p, c, s) ==
    \A q \in Queues : <<p.netdev, q>> \notin s /\ c[p.netdev][q] # {} =>
        p.queues[q].used /\ c[p.netdev][q] = {p.queues[q].rate}
ClassesAgree == \A no \in Slots : InUse(no) => Agree(ports[no], classes, stuck)

LocalQueues == \A q \in Queues : ~ports[OFPP_LOCAL].queues[q].used

PortsInv ==
    PortsType /\ Numbered /\ Listing /\ Devices /\ EachPort /\ ClassesAgree /\ LocalQueues

\* A lookup finds a port in use.
LEMMA Lookup ==
    ASSUME PortsAssumption, PortsInv, NEW no, NEW m \in dp_ports_lookup(no)
    PROVE  m = no /\ m \in PortNos /\ InUse(m)
<1>1. CASE no = OFPP_LOCAL
  BY <1>1 DEF dp_ports_lookup, PortNos
<1>2. CASE no # OFPP_LOCAL
  <2>1. m = no /\ m \in 1..Taken
    BY <1>2 DEF dp_ports_lookup, Taken
  <2>2. Taken \in 0..(DP_MAX_PORTS - 1) /\ DP_MAX_PORTS \in Nat
    BY DEF PortsInv, Numbered, PortsAssumption
  <2>3. m \in Slots /\ m <= Taken
    BY <2>1, <2>2, SMT DEF Slots
  <2> QED BY <2>1, <2>3 DEF PortsInv, Numbered, PortNos
<1> QED BY <1>1, <1>2

\* Of every port that is asked for all queues that it counts are found.
LEMMA QueuesFound ==
    ASSUME PortsAssumption, PortsInv, NEW no \in PortNos, InUse(no), NEW queue_id
    PROVE  QueuesCounted(ports[no], queue_id) = QueuesFilled(ports[no], queue_id)
<1>1. UsedOf(ports[no]) = AllQueues(ports[no])
  <2>1. QueuesOf(no, ports[no])
    BY DEF PortsInv, EachPort
  <2>2. CASE no = OFPP_LOCAL
    BY <2>2 DEF UsedOf, AllQueues, PortsInv, LocalQueues
  <2>3. CASE no # OFPP_LOCAL
    <3>1. ports[no].max_queues = Slicing
      BY <2>1, <2>3 DEF QueuesOf, InUse
    <3>2. \A q \in Queues : q < Slicing
      BY SMT DEF Queues, PortsAssumption
    <3> QED BY <3>1, <3>2 DEF UsedOf, AllQueues
  <2> QED BY <2>2, <2>3
<1>2. Counted(ports[no])
  BY DEF PortsInv, EachPort, PortOK
<1> QED BY <1>1, <1>2 DEF QueuesCounted, QueuesFilled, Counted

LEMMA QueueReplyExact ==
    ASSUME PortsAssumption, PortsInv, NEW asked, NEW queue_id,
           \A k \in DOMAIN asked : asked[k] \in PortNos /\ InUse(asked[k])
    PROVE  QueueReply(asked, queue_id).num = QueueReply(asked, queue_id).filled
<1>1. PICK f : f = [k \in DOMAIN asked |-> QueuesCounted(ports[asked[k]], queue_id)]
  BY Zenon
<1>2. f = [k \in DOMAIN asked |-> QueuesFilled(ports[asked[k]], queue_id)]
  <2>1. \A k \in DOMAIN asked :
            QueuesCounted(ports[asked[k]], queue_id) = QueuesFilled(ports[asked[k]], queue_id)
    BY QueuesFound
  <2> QED BY <1>1, <2>1
<1>3. PICK n : n = SumFunction(f)
  OBVIOUS
<1>4. QueueReply(asked, queue_id) = ReplyWith(n, n)
  BY <1>1, <1>2, <1>3 DEF QueueReply
<1> QED BY <1>4 DEF ReplyWith

LEMMA RepliesFilled == ASSUME PortsAssumption, PortsInv PROVE RepliesExact
<1>1. \A k \in DOMAIN port_list : port_list[k] \in PortNos /\ InUse(port_list[k])
  <2>1. \A k \in DOMAIN port_list : port_list[k] \in Range(port_list)
    BY DEF Range
  <2> QED BY <2>1 DEF PortsInv, Listing
<1>2. ASSUME NEW no, NEW m \in dp_ports_lookup(no) PROVE m = no /\ no \in PortNos /\ InUse(no)
  BY <1>2, Lookup
<1>3. ASSUME NEW no, no \in PortNos, InUse(no)
      PROVE  \A k \in DOMAIN <<no>> : <<no>>[k] \in PortNos /\ InUse(<<no>>[k])
  BY <1>3
<1>4. ASSUME NEW no PROVE \A k \in DOMAIN AskedPorts(no) : AskedPorts(no)[k] \in PortNos /\ InUse(AskedPorts(no)[k])
  <2>1. CASE no = OFPP_ANY
    BY <1>1, <2>1 DEF AskedPorts
  <2>2. CASE no # OFPP_ANY /\ \E m \in dp_ports_lookup(no) : InUse(m)
    <3>1. AskedPorts(no) = <<no>>
      BY <2>2 DEF AskedPorts
    <3>2. no \in PortNos /\ InUse(no)
      BY <1>2, <2>2
    <3> QED BY <1>3, <3>1, <3>2
  <2>3. CASE no # OFPP_ANY /\ ~\E m \in dp_ports_lookup(no) : InUse(m)
    <3>1. AskedPorts(no) = <<>>
      BY <2>3 DEF AskedPorts
    <3> QED BY <3>1
  <2> QED BY <2>1, <2>2, <2>3
<1>5. ReplyWith(ports_num, Len(port_list)).num = ReplyWith(ports_num, Len(port_list)).filled
  BY DEF ReplyWith, PortsInv, Listing
<1>6. ASSUME NEW no
      PROVE dp_ports_handle_stats_request_port(no).num = dp_ports_handle_stats_request_port(no).filled
  <2>1. CASE no = OFPP_ANY
    BY <1>5, <2>1 DEF dp_ports_handle_stats_request_port, AskedPorts
  <2>2. CASE no # OFPP_ANY
    BY <2>2 DEF dp_ports_handle_stats_request_port, ReplyWith
  <2> QED BY <2>1, <2>2
<1>7. ASSUME NEW no, NEW queue_id
      PROVE  dp_ports_handle_stats_request_queue(no, queue_id).num
                 = dp_ports_handle_stats_request_queue(no, queue_id).filled
  <2>1. PICK asked : asked = AskedPorts(no)
    OBVIOUS
  <2>2. \A k \in DOMAIN asked : asked[k] \in PortNos /\ InUse(asked[k])
    BY <1>4, <2>1
  <2> QED BY <2>1, <2>2, QueueReplyExact DEF dp_ports_handle_stats_request_queue
<1>8. ASSUME NEW no
      PROVE  dp_ports_handle_queue_get_config_request(no).num
                 = dp_ports_handle_queue_get_config_request(no).filled
  <2>1. CASE no = OFPP_ANY
    BY <1>1, <2>1, QueueReplyExact DEF dp_ports_handle_queue_get_config_request
  <2>2. CASE no # OFPP_ANY /\ dp_ports_lookup(no) = {}
    BY <2>2 DEF dp_ports_handle_queue_get_config_request, BadPort
  <2>3. CASE no # OFPP_ANY /\ dp_ports_lookup(no) # {}
    <3>1. no \in PortNos /\ InUse(no)
      BY <1>2, <2>3
    <3>2. PICK one : one = <<no>>
      BY Zenon
    <3>3. \A k \in DOMAIN one : one[k] \in PortNos /\ InUse(one[k])
      BY <1>3, <3>1, <3>2
    <3>4. dp_ports_handle_queue_get_config_request(no) = QueueReply(one, OFPQ_ALL)
      BY <2>3, <3>2 DEF dp_ports_handle_queue_get_config_request
    <3> QED BY <3>3, <3>4, QueueReplyExact
  <2> QED BY <2>1, <2>2, <2>3
<1> QED BY <1>5, <1>6, <1>7, <1>8 DEF RepliesExact, dp_ports_handle_port_desc_request

\* The invariant says what the controllers are told.
LEMMA PortsInvReports == ASSUME PortsAssumption, PortsInv PROVE PortsAsReported
<1> USE DEF PortsInv
<1>1. ListedAsCounted
  <2>1. ASSUME NEW no \in PortNos PROVE InUse(no) <=> dp_ports_lookup(no) = {no}
    <3>1. CASE no = OFPP_LOCAL
      BY <3>1 DEF dp_ports_lookup
    <3>2. CASE no # OFPP_LOCAL
      <4>1. no \in Slots /\ no \in Nat /\ no >= 1 /\ DP_MAX_PORTS \in Nat
        BY <3>2, SMT DEF PortNos, Slots, PortsAssumption
      <4>2. dp_ports_lookup(no) = {no} \cap (1..Taken)
        BY <3>2 DEF dp_ports_lookup, Taken
      <4>3. Taken \in Nat /\ (InUse(no) <=> no <= Taken)
        BY <4>1, SMT DEF Numbered
      <4>4. InUse(no) <=> no \in 1..Taken
        BY <4>1, <4>3, SMT
      <4> QED BY <4>2, <4>4
    <3> QED BY <3>1, <3>2
  <2>2. ASSUME NEW no \in PortNos
        PROVE ports[no].num_queues = Cardinality({q \in Queues : ports[no].queues[q].used})
    BY DEF EachPort, PortOK, Counted, UsedOf
  <2> QED BY <2>1, <2>2 DEF ListedAsCounted, Listing
<1>2. ReportsWhatIs
  <2> SUFFICES ASSUME NEW no \in Range(port_list)
               PROVE  /\ LiveAsItIs(ports[no])
                      /\ ports[no].told = ports[no].config
                      /\ \A q \in Queues : ports[no].queues[q].tx <= ports[no].tx
                      /\ \A q \in {q \in Queues : q < ports[no].max_queues} :
                            <<ports[no].netdev, q>> \notin stuck /\ classes[ports[no].netdev][q] # {} =>
                                /\ ports[no].queues[q].used
                                /\ classes[ports[no].netdev][q] = {ports[no].queues[q].rate}
    BY Zenon DEF ReportsWhatIs, LiveAsItIs
  <2>1. no \in PortNos /\ InUse(no)
    BY DEF Listing
  <2>2. Sound(ports[no])
    BY <2>1 DEF EachPort, PortOK, InUse
  <2>3. ASSUME NEW q \in Queues, q < ports[no].max_queues,
               <<ports[no].netdev, q>> \notin stuck, classes[ports[no].netdev][q] # {}
        PROVE  ports[no].queues[q].used /\ classes[ports[no].netdev][q] = {ports[no].queues[q].rate}
    <3>1. no # OFPP_LOCAL
      <4>1. QueuesOf(no, ports[no])
        BY <2>1 DEF EachPort
      <4>2. q \in Nat
        BY SMT DEF Queues, PortsAssumption
      <4> QED BY <2>3, <4>1, <4>2, SMT DEF QueuesOf
    <3>2. Agree(ports[no], classes, stuck)
      BY <2>1, <3>1 DEF ClassesAgree, PortNos
    <3> QED BY <2>3, <3>2 DEF Agree
  <2> QED BY <2>2, <2>3 DEF Sound
<1>3. FloodNeverReturns
  <2> SUFFICES ASSUME "NO_FWD" \in ports[OFPP_LOCAL].config \/ ~InUse(OFPP_LOCAL),
                      NEW in_port \in Range(port_list), NEW no \in OutputPorts(in_port, TRUE),
                      ports[no].netdev = ports[in_port].netdev
               PROVE  FALSE
    BY Zenon DEF FloodNeverReturns
  <2>1. /\ no \in PortNos /\ InUse(no) /\ in_port \in PortNos /\ InUse(in_port)
        /\ no # in_port /\ "NO_FWD" \notin ports[no].config
        /\ in_port = OFPP_LOCAL => ports[no].netdev # ports[OFPP_LOCAL].netdev
    BY DEF OutputPorts, Listing
  <2>2. no \in Slots /\ in_port \in Slots
    BY <2>1 DEF PortNos
  <2> QED BY <2>1, <2>2 DEF Devices
<1>4. RepliesExact
  BY RepliesFilled
<1> QED BY <1>1, <1>2, <1>3, <1>4 DEF PortsAsReported

---------------------------------------------------------------------------
\* What changes of the link or of the configuration leave as it is.
SameCounts(p, d) ==
    /\ d.netdev = p.netdev /\ d.max_queues = p.max_queues /\ d.num_queues = p.num_queues
    /\ d.queues = p.queues /\ d.tx = p.tx
\* What packets leave as it is as well.
SameQueues(p, d) ==
    /\ d.netdev = p.netdev /\ d.max_queues = p.max_queues /\ d.num_queues = p.num_queues
    /\ \A q \in Queues : d.queues[q].used = p.queues[q].used /\ d.queues[q].rate = p.queues[q].rate

LEMMA SameCounted ==
    ASSUME NEW p, NEW d, SameQueues(p, d), Counted(p) PROVE Counted(d)
<1>1. UsedOf(d) = UsedOf(p)
  BY DEF UsedOf, SameQueues
<1> QED BY <1>1 DEF Counted, SameQueues

LEMMA SameCountsQueues ==
    ASSUME NEW p, NEW d, SameCounts(p, d) PROVE SameQueues(p, d)
  BY DEF SameCounts, SameQueues

LEMMA LiveUpdate ==
    ASSUME NEW p \in Port
    PROVE  LET d == dp_port_live_update(p) IN
           d \in Port /\ LiveAsItIs(d) /\ SameCounts(p, d) /\ d.told = p.told /\ d.config = p.config
<1>1. PICK s : s = IF "LINK_DOWN" \in p.state \/ "PORT_DOWN" \in p.config
                   THEN p.state \ {"LIVE"} ELSE p.state \cup {"LIVE"}
  BY Zenon
<1>2. dp_port_live_update(p) = [p EXCEPT !.state = s]
  BY <1>1 DEF dp_port_live_update
<1>3. s \in SUBSET {"LIVE", "LINK_DOWN"}
  BY <1>1, SMT DEF Port
<1>4. PICK d : d = [p EXCEPT !.state = s]
  BY Zenon
<1>5. d \in Port /\ d.state = s /\ SameCounts(p, d) /\ d.told = p.told /\ d.config = p.config
  BY <1>3, <1>4, SMT DEF Port, SameCounts
<1>6. LiveAsItIs(d)
  BY <1>1, <1>5, SMT DEF LiveAsItIs
<1> QED BY <1>2, <1>4, <1>5, <1>6

LEMMA Status ==
    ASSUME NEW p \in Port
    PROVE  LET d == Announced(p) IN
           d \in Port /\ SameCounts(p, d) /\ d.told = d.config /\ (LiveAsItIs(p) => LiveAsItIs(d))
<1>1. PICK d : d = [p EXCEPT !.told = p.config]
  BY Zenon
<1>2. d \in Port /\ SameCounts(p, d) /\ d.told = d.config /\ d.state = p.state /\ d.config = p.config
  BY <1>1, SMT DEF Port, SameCounts
<1> QED BY <1>1, <1>2 DEF Announced, LiveAsItIs

\* A port in use stays sound when only its link or configuration changes.
LEMMA StillOK ==
    ASSUME NEW p, NEW d, PortOK(p), Used(p), d \in Port, SameCounts(p, d), LiveAsItIs(d),
           d.told = d.config
    PROVE  PortOK(d) /\ SameQueues(p, d)
<1>1. SameQueues(p, d) /\ Counted(d)
  BY SameCountsQueues, SameCounted DEF PortOK
<1>2. Sound(d)
  BY DEF PortOK, Sound, SameCounts
<1> QED BY <1>1, <1>2 DEF PortOK

LEMMA SameCountsTrans ==
    ASSUME NEW p, NEW d, NEW e, SameCounts(p, d), SameCounts(d, e) PROVE SameCounts(p, e)
  BY DEF SameCounts

LEMMA LinkSeenOK ==
    ASSUME NEW p, PortOK(p), Used(p), NEW link
    PROVE  PortOK(LinkSeen(p, link)) /\ SameQueues(p, LinkSeen(p, link))
<1>1. ASSUME NEW s \in SUBSET {"LIVE", "LINK_DOWN"}
      PROVE  LET d == dp_port_live_update([p EXCEPT !.state = s]) IN PortOK(d) /\ SameQueues(p, d)
  <2>1. PICK d : d = [p EXCEPT !.state = s]
    BY Zenon
  <2>2. d \in Port /\ SameCounts(p, d) /\ d.told = p.told /\ d.config = p.config
    BY <2>1, SMT DEF Port, SameCounts, PortOK
  <2>3. PICK e : e = dp_port_live_update(d)
    OBVIOUS
  <2>4. e \in Port /\ LiveAsItIs(e) /\ SameCounts(d, e) /\ e.told = d.told /\ e.config = d.config
    BY <2>2, <2>3, LiveUpdate
  <2>5. SameCounts(p, e) /\ e.told = e.config
    BY <2>2, <2>4, SameCountsTrans DEF PortOK, Sound
  <2>6. PortOK(e) /\ SameQueues(p, e)
    BY <2>4, <2>5, StillOK
  <2> QED BY <2>1, <2>3, <2>6
<1>2. p.state \in SUBSET {"LIVE", "LINK_DOWN"}
  BY SMT DEF PortOK, Port
<1>3. CASE link = "up"
  <2>1. p.state \ {"LINK_DOWN"} \in SUBSET {"LIVE", "LINK_DOWN"}
    BY <1>2
  <2>2. LinkSeen(p, link) = dp_port_live_update([p EXCEPT !.state = p.state \ {"LINK_DOWN"}])
    BY <1>3 DEF LinkSeen
  <2> QED BY <1>1, <2>1, <2>2
<1>4. CASE link = "down"
  <2>1. p.state \cup {"LINK_DOWN"} \in SUBSET {"LIVE", "LINK_DOWN"}
    BY <1>2
  <2>2. LinkSeen(p, link) = dp_port_live_update([p EXCEPT !.state = p.state \cup {"LINK_DOWN"}])
    BY <1>4, SMT DEF LinkSeen
  <2> QED BY <1>1, <2>1, <2>2
<1>5. CASE link # "up" /\ link # "down"
  <2>1. LinkSeen(p, link) = p
    BY <1>5 DEF LinkSeen
  <2> QED BY <2>1 DEF SameQueues
<1> QED BY <1>3, <1>4, <1>5

LEMMA ReconfiguredOK ==
    ASSUME NEW p, PortOK(p), Used(p), NEW msg, msg.config \subseteq Flags, msg.mask \subseteq Flags
    PROVE  PortOK(Reconfigured(p, msg)) /\ SameQueues(p, Reconfigured(p, msg))
<1>1. PICK c : c = (p.config \ msg.mask) \cup (msg.config \cap msg.mask)
  BY Zenon
<1>2. c \in SUBSET Flags
  BY <1>1, SMT DEF PortOK, Port
<1>3. PICK d : d = [p EXCEPT !.config = c]
  BY Zenon
<1>4. d \in Port /\ SameCounts(p, d)
  BY <1>2, <1>3, SMT DEF Port, SameCounts, PortOK
<1>5. PICK e : e = IF msg.mask = {} THEN p ELSE dp_port_live_update(d)
  OBVIOUS
<1>6. e \in Port /\ LiveAsItIs(e) /\ SameCounts(p, e)
  <2>1. CASE msg.mask = {}
    BY <1>5, <2>1 DEF SameCounts, PortOK, Sound
  <2>2. CASE msg.mask # {}
    <3>1. e = dp_port_live_update(d)
      BY <1>5, <2>2
    <3>2. e \in Port /\ LiveAsItIs(e) /\ SameCounts(d, e)
      BY <1>4, <3>1, LiveUpdate
    <3> QED BY <1>4, <3>2, SameCountsTrans
  <2> QED BY <2>1, <2>2
<1>7. PICK f : f = Announced(e)
  OBVIOUS
<1>8. f \in Port /\ SameCounts(e, f) /\ f.told = f.config /\ LiveAsItIs(f)
  BY <1>6, <1>7, Status
<1>9. Reconfigured(p, msg) = f
  BY <1>1, <1>3, <1>5, <1>7 DEF Reconfigured
<1>10. SameCounts(p, f)
  BY <1>6, <1>8, SameCountsTrans
<1> QED BY <1>8, <1>9, <1>10, StillOK

\* Counting a packet that came in.
LEMMA ReceivedOK ==
    ASSUME NEW p, PortOK(p), Used(p)
    PROVE  LET d == [p EXCEPT !.rx = @ + 1] IN PortOK(d) /\ SameQueues(p, d)
<1>1. PICK d : d = [p EXCEPT !.rx = @ + 1]
  BY Zenon
<1>2. d \in Port /\ SameCounts(p, d) /\ d.told = p.told /\ d.config = p.config /\ d.state = p.state
  BY <1>1, SMT DEF Port, SameCounts, PortOK
<1>3. LiveAsItIs(d) /\ d.told = d.config
  BY <1>2 DEF PortOK, Sound, LiveAsItIs
<1> QED BY <1>1, <1>2, <1>3, StillOK, Zenon

OneMoreSent(queues, r) == [queues EXCEPT ![r].tx = @ + 1]
AtMostOneMore(queues, qs) ==
    /\ qs \in [Queues -> Queue]
    /\ \A q \in Queues : /\ qs[q].used = queues[q].used /\ qs[q].rate = queues[q].rate
                         /\ qs[q].tx <= queues[q].tx + 1

LEMMA CountOne ==
    ASSUME NEW queues \in [Queues -> Queue], NEW r \in Queues
    PROVE  AtMostOneMore(queues, OneMoreSent(queues, r))
<1>1. PICK x : x = queues[r]
  OBVIOUS
<1>2. PICK y : y = [x EXCEPT !.tx = x.tx + 1]
  BY Zenon
<1>3. x \in Queue
  BY <1>1
<1>4. y \in Queue /\ y.used = x.used /\ y.rate = x.rate /\ y.tx = x.tx + 1
  BY <1>2, <1>3, SMT DEF Queue
<1>5. PICK qs : qs = [queues EXCEPT ![r] = y]
  BY Zenon
<1>6. OneMoreSent(queues, r) = qs
  BY <1>1, <1>2, <1>5 DEF OneMoreSent
<1>7. qs \in [Queues -> Queue] /\ qs[r] = y /\ \A q \in Queues \ {r} : qs[q] = queues[q]
  BY <1>4, <1>5
<1>8. ASSUME NEW q \in Queues
      PROVE  qs[q].used = queues[q].used /\ qs[q].rate = queues[q].rate /\ qs[q].tx <= queues[q].tx + 1
  <2>1. queues[q].tx \in Nat
    BY SMT DEF Queue
  <2> QED BY <1>1, <1>4, <1>7, <2>1, SMT
<1> QED BY <1>6, <1>7, <1>8 DEF AtMostOneMore

SetTx(p, tx, qs) == [[p EXCEPT !.queues = qs] EXCEPT !.tx = tx]
SetQueues(p, qs, n) == [[p EXCEPT !.queues = qs] EXCEPT !.num_queues = n]
\* e is p but for the packets sent and the queues.
Rewritten(p, e, tx, qs, n) ==
    /\ e \in Port /\ e.told = p.told /\ e.config = p.config /\ e.state = p.state
    /\ e.netdev = p.netdev /\ e.max_queues = p.max_queues
    /\ e.queues = qs /\ e.num_queues = n /\ e.tx = tx

PortWith(T) ==
    [netdev : Interfaces \cup {"NULL"}, state : SUBSET {"LIVE", "LINK_DOWN"}, config : SUBSET Flags,
     told : SUBSET Flags, max_queues : Nat, num_queues : Nat, queues : T,
     rx : Nat, tx : Nat, dropped : Nat]

LEMMA QueuesOnly ==
    ASSUME NEW p \in Port, NEW qs \in [Queues -> Queue]
    PROVE  Rewritten(p, [p EXCEPT !.queues = qs], p.tx, qs, p.num_queues)
<1>1. PICK T : T = [Queues -> Queue]
  BY Zenon
<1>2. Port = PortWith(T) /\ qs \in T
  BY <1>1 DEF Port, PortWith
<1>3. PICK d : d = [p EXCEPT !.queues = qs]
  BY Zenon
<1>4. p \in PortWith(T)
  BY <1>2
<1>5. /\ d \in PortWith(T)
      /\ d.told = p.told /\ d.config = p.config /\ d.state = p.state
      /\ d.netdev = p.netdev /\ d.max_queues = p.max_queues
      /\ d.queues = qs /\ d.num_queues = p.num_queues /\ d.tx = p.tx
  BY ONLY <1>2, <1>3, <1>4, SMT DEF PortWith
<1> QED BY <1>2, <1>3, <1>5 DEF Rewritten

LEMMA TxAndQueues ==
    ASSUME NEW p \in Port, NEW tx \in Nat, NEW qs \in [Queues -> Queue]
    PROVE  Rewritten(p, SetTx(p, tx, qs), tx, qs, p.num_queues)
<1>1. PICK T : T = [Queues -> Queue]
  BY Zenon
<1>2. Port = PortWith(T) /\ qs \in T
  BY <1>1 DEF Port, PortWith
<1>3. PICK d : d = [p EXCEPT !.queues = qs]
  BY Zenon
<1>4. p \in PortWith(T)
  BY <1>2
<1>5. /\ d \in PortWith(T)
      /\ d.told = p.told /\ d.config = p.config /\ d.state = p.state
      /\ d.netdev = p.netdev /\ d.max_queues = p.max_queues
      /\ d.queues = qs /\ d.num_queues = p.num_queues /\ d.tx = p.tx
  BY ONLY <1>2, <1>3, <1>4, SMT DEF PortWith
<1>6. PICK e : e = [d EXCEPT !.tx = tx]
  BY Zenon
<1>7. /\ e \in PortWith(T)
      /\ e.told = d.told /\ e.config = d.config /\ e.state = d.state
      /\ e.netdev = d.netdev /\ e.max_queues = d.max_queues
      /\ e.queues = d.queues /\ e.num_queues = d.num_queues /\ e.tx = tx
  BY ONLY <1>5, <1>6, tx \in Nat, SMT DEF PortWith
<1>8. SetTx(p, tx, qs) = e
  BY <1>3, <1>6 DEF SetTx
<1> QED BY <1>2, <1>5, <1>7, <1>8 DEF Rewritten

LEMMA NumAndQueues ==
    ASSUME NEW p \in Port, NEW n \in Nat, NEW qs \in [Queues -> Queue]
    PROVE  Rewritten(p, SetQueues(p, qs, n), p.tx, qs, n)
<1>1. PICK T : T = [Queues -> Queue]
  BY Zenon
<1>2. Port = PortWith(T) /\ qs \in T
  BY <1>1 DEF Port, PortWith
<1>3. PICK d : d = [p EXCEPT !.queues = qs]
  BY Zenon
<1>4. p \in PortWith(T)
  BY <1>2
<1>5. /\ d \in PortWith(T)
      /\ d.told = p.told /\ d.config = p.config /\ d.state = p.state
      /\ d.netdev = p.netdev /\ d.max_queues = p.max_queues
      /\ d.queues = qs /\ d.num_queues = p.num_queues /\ d.tx = p.tx
  BY ONLY <1>2, <1>3, <1>4, SMT DEF PortWith
<1>6. PICK e : e = [d EXCEPT !.num_queues = n]
  BY Zenon
<1>7. /\ e \in PortWith(T)
      /\ e.told = d.told /\ e.config = d.config /\ e.state = d.state
      /\ e.netdev = d.netdev /\ e.max_queues = d.max_queues
      /\ e.queues = d.queues /\ e.num_queues = n /\ e.tx = d.tx
  BY ONLY <1>5, <1>6, n \in Nat, SMT DEF PortWith
<1>8. SetQueues(p, qs, n) = e
  BY <1>3, <1>6 DEF SetQueues
<1> QED BY <1>2, <1>5, <1>7, <1>8 DEF Rewritten

\* Counting a packet that went out, or did not.
LEMMA OutputOK ==
    ASSUME NEW p, PortOK(p), NEW queue_id, NEW sent
    PROVE  PortOK(Output(p, queue_id, sent)) /\ SameQueues(p, Output(p, queue_id, sent))
<1> DEFINE d == Output(p, queue_id, sent)
<1>1. CASE ~Leaves(p, queue_id)
  <2>1. d = p
    BY <1>1 DEF Output
  <2> QED BY <2>1 DEF SameQueues
<1>2. CASE Leaves(p, queue_id) /\ ~sent
  <2>1. d = [p EXCEPT !.dropped = @ + 1]
    BY <1>2 DEF Output
  <2>2. PICK e : e = d
    OBVIOUS
  <2>3. e \in Port /\ SameCounts(p, e) /\ e.told = p.told /\ e.config = p.config /\ e.state = p.state
    BY <2>1, <2>2, SMT DEF Port, SameCounts, PortOK
  <2>4. LiveAsItIs(e) /\ e.told = e.config
    BY <1>2, <2>3 DEF PortOK, Sound, LiveAsItIs, Leaves
  <2> QED BY <1>2, <2>2, <2>3, <2>4, StillOK DEF Leaves
<1>3. CASE Leaves(p, queue_id) /\ sent
  <2>1. Used(p) /\ Sound(p) /\ p \in Port /\ Counted(p)
    BY <1>3 DEF Leaves, PortOK
  <2>2. CASE queue_id = 0
    <3>1. d = [p EXCEPT !.tx = p.tx + 1, !.queues = p.queues]
      BY <1>3, <2>2 DEF Output, SentFrom
    <3>2. PICK e : e = d
      OBVIOUS
    <3>3. /\ e \in Port /\ e.told = p.told /\ e.config = p.config /\ e.state = p.state
          /\ e.queues = p.queues /\ e.netdev = p.netdev /\ e.max_queues = p.max_queues
          /\ e.num_queues = p.num_queues /\ e.tx = p.tx + 1
      <4>1. p.queues \in [Queues -> Queue] /\ p.tx + 1 \in Nat
        BY <2>1, SMT DEF Port
      <4>2. Rewritten(p, SetTx(p, p.tx + 1, p.queues), p.tx + 1, p.queues, p.num_queues)
        BY <2>1, <4>1, TxAndQueues
      <4> QED BY <3>1, <3>2, <4>2, Zenon DEF Rewritten, SetTx
    <3>4. SameQueues(p, e)
      BY <3>3 DEF SameQueues
    <3>5. \A q \in Queues : e.queues[q].tx <= e.tx
      BY <2>1, <3>3, SMT DEF Sound, Port, Queue
    <3>6. Sound(e)
      BY <2>1, <3>3, <3>5 DEF Sound, LiveAsItIs
    <3> QED BY <2>1, <3>2, <3>3, <3>4, <3>6, SameCounted DEF PortOK
  <2>3. CASE queue_id # 0
    <3>1. PICK qs : qs = [p.queues EXCEPT ![queue_id].tx = @ + 1]
      BY Zenon
    <3>2. queue_id \in Queues
      BY <1>3, <2>3 DEF Leaves, dp_ports_lookup_queue
    <3>3. PICK e : e = d
      OBVIOUS
    <3>4. e = [p EXCEPT !.tx = p.tx + 1, !.queues = qs]
      <4>1. SentFrom(p.queues, queue_id) = qs
        BY <2>3, <3>1 DEF SentFrom
      <4> QED BY <1>3, <3>3, <4>1 DEF Output
    <3>5. p.queues \in [Queues -> Queue] /\ p.tx \in Nat
      BY <2>1, SMT DEF Port
    <3>6. /\ qs \in [Queues -> Queue]
          /\ \A q \in Queues : /\ qs[q].used = p.queues[q].used /\ qs[q].rate = p.queues[q].rate
                               /\ qs[q].tx <= p.queues[q].tx + 1
      <4>1. AtMostOneMore(p.queues, OneMoreSent(p.queues, queue_id))
        BY <3>2, <3>5, CountOne
      <4> QED BY <3>1, <4>1 DEF AtMostOneMore, OneMoreSent
    <3>7. p.tx + 1 \in Nat
      BY <3>5, SMT
    <3>8. /\ e \in Port /\ e.told = p.told /\ e.config = p.config /\ e.state = p.state
          /\ e.queues = qs /\ e.netdev = p.netdev /\ e.max_queues = p.max_queues
          /\ e.num_queues = p.num_queues /\ e.tx = p.tx + 1
      <4>1. Rewritten(p, SetTx(p, p.tx + 1, qs), p.tx + 1, qs, p.num_queues)
        BY <2>1, <3>6, <3>7, TxAndQueues
      <4> QED BY <3>4, <4>1, Zenon DEF Rewritten, SetTx
    <3>9. SameQueues(p, e)
      BY <3>6, <3>8 DEF SameQueues
    <3>10. \A q \in Queues : e.queues[q].tx <= e.tx
      <4> SUFFICES ASSUME NEW q \in Queues PROVE qs[q].tx <= p.tx + 1
        BY <3>8
      <4>1. qs[q].tx \in Nat /\ p.queues[q].tx \in Nat /\ qs[q].tx <= p.queues[q].tx + 1
        BY <3>5, <3>6, SMT DEF Queue
      <4>2. p.queues[q].tx <= p.tx
        BY <2>1 DEF Sound
      <4> QED BY <3>5, <4>1, <4>2, SMT
    <3>11. Sound(e)
      BY <2>1, <3>8, <3>10 DEF Sound, LiveAsItIs
    <3> QED BY <2>1, <3>3, <3>8, <3>9, <3>11, SameCounted DEF PortOK
  <2> QED BY <2>2, <2>3
<1> QED BY <1>1, <1>2, <1>3
---------------------------------------------------------------------------
LEMMA QueuesFinite == ASSUME PortsAssumption, NEW p PROVE IsFiniteSet(UsedOf(p))
<1>1. Slicing - 1 \in Int /\ 0 \in Int
  BY SMT DEF PortsAssumption
<1>2. IsFiniteSet(Queues)
  BY <1>1, FS_Interval DEF Queues
<1>3. UsedOf(p) \subseteq Queues
  BY DEF UsedOf
<1> QED BY <1>2, <1>3, FS_Subset

\* d is p but for queue q.
QueueAltered(p, d, q) ==
    /\ PortOK(d) /\ d.netdev = p.netdev /\ d.max_queues = p.max_queues
    /\ \A r \in Queues \ {q} : d.queues[r] = p.queues[r]
HasRate(d, q, rate) == d.queues[q].used /\ d.queues[q].rate = rate

\* A port with other queues and another number of them.
LEMMA QueueChangeOK ==
    ASSUME NEW p, PortOK(p), Used(p), NEW qs \in [Queues -> Queue], NEW n \in Nat,
           n = Cardinality({q \in Queues : qs[q].used}),
           \A q \in Queues : qs[q].tx <= p.queues[q].tx \/ qs[q].tx = 0,
           NEW d, Rewritten(p, d, p.tx, qs, n)
    PROVE  PortOK(d) /\ d.netdev = p.netdev /\ d.max_queues = p.max_queues /\ d.queues = qs
<1>2. /\ d \in Port /\ d.told = p.told /\ d.config = p.config /\ d.state = p.state
      /\ d.queues = qs /\ d.netdev = p.netdev /\ d.max_queues = p.max_queues
      /\ d.num_queues = n /\ d.tx = p.tx
  BY DEF Rewritten
<1>3. Counted(d)
  BY <1>2 DEF Counted, UsedOf
<1>4. \A q \in Queues : d.queues[q].tx <= d.tx
  <2> SUFFICES ASSUME NEW q \in Queues PROVE qs[q].tx <= p.tx
    BY <1>2
  <2>1. p.queues[q].tx \in Nat /\ p.tx \in Nat /\ qs[q].tx \in Nat
    BY SMT DEF PortOK, Port, Queue
  <2>2. p.queues[q].tx <= p.tx
    BY DEF PortOK, Sound
  <2>3. qs[q].tx <= p.queues[q].tx \/ qs[q].tx = 0
    OBVIOUS
  <2> QED BY <2>1, <2>2, <2>3, SMT
<1>5. Sound(d)
  BY <1>2, <1>4 DEF Sound, LiveAsItIs, PortOK
<1> QED BY <1>2, <1>3, <1>5 DEF PortOK

LEMMA NewQueueOK ==
    ASSUME PortsAssumption, NEW p, PortOK(p), Used(p), NEW q \in Queues, ~p.queues[q].used,
           NEW rate \in Nat
    PROVE  LET d == new_queue(p, q, rate) IN
           QueueAltered(p, d, q) /\ HasRate(d, q, rate)
<1>1. PICK qs : qs = [p.queues EXCEPT ![q] = [used |-> TRUE, rate |-> rate, tx |-> 0]]
  BY Zenon
<1>2. p \in Port /\ p.queues \in [Queues -> Queue] /\ p.num_queues \in Nat
  BY SMT DEF PortOK, Port
<1>3. /\ qs \in [Queues -> Queue] /\ qs[q].used /\ qs[q].rate = rate
      /\ \A r \in Queues \ {q} : qs[r] = p.queues[r]
      /\ qs[q].tx = 0
  BY <1>1, <1>2, SMT DEF Queue
<1>4. \A r \in Queues : qs[r].tx <= p.queues[r].tx \/ qs[r].tx = 0
  <2> SUFFICES ASSUME NEW r \in Queues PROVE qs[r].tx <= p.queues[r].tx \/ qs[r].tx = 0
    OBVIOUS
  <2>1. p.queues[r].tx \in Nat
    BY <1>2, SMT DEF Queue
  <2> QED BY <1>3, <2>1, SMT
<1>5. {r \in Queues : qs[r].used} = UsedOf(p) \cup {q} /\ q \notin UsedOf(p)
  BY <1>3 DEF UsedOf
<1>6. Cardinality(UsedOf(p) \cup {q}) = p.num_queues + 1
  <2>1. IsFiniteSet(UsedOf(p)) /\ Cardinality(UsedOf(p)) = p.num_queues
    BY QueuesFinite DEF PortOK, Counted
  <2>2. Cardinality(UsedOf(p) \cup {q}) = IF q \in UsedOf(p) THEN Cardinality(UsedOf(p))
                                         ELSE Cardinality(UsedOf(p)) + 1
    BY <2>1, FS_AddElement, Zenon
  <2> QED BY <1>5, <2>1, <2>2
<1>7. p.num_queues + 1 \in Nat
  BY <1>2, SMT
<1>8. new_queue(p, q, rate) = SetQueues(p, qs, p.num_queues + 1)
  BY <1>1, <1>2, SMT DEF SetQueues, new_queue, Port
<1>9. PICK d : d = SetQueues(p, qs, p.num_queues + 1) /\ Rewritten(p, d, p.tx, qs, p.num_queues + 1)
  BY <1>2, <1>3, <1>7, NumAndQueues
<1>10. p.num_queues + 1 = Cardinality({r \in Queues : qs[r].used})
  BY <1>5, <1>6, Zenon
<1>11. PortOK(d) /\ d.netdev = p.netdev /\ d.max_queues = p.max_queues /\ d.queues = qs
  BY <1>3, <1>4, <1>7, <1>9, <1>10, QueueChangeOK
<1> QED BY <1>3, <1>8, <1>9, <1>11 DEF QueueAltered, HasRate

LEMMA DeletedQueueOK ==
    ASSUME PortsAssumption, NEW p, PortOK(p), Used(p), NEW q \in Queues, p.queues[q].used
    PROVE  LET d == port_delete_queue(p, q) IN
           QueueAltered(p, d, q)
<1>1. PICK qs : qs = [p.queues EXCEPT ![q] = NoQueue]
  BY Zenon
<1>2. p \in Port /\ p.queues \in [Queues -> Queue] /\ p.num_queues \in Nat
  BY SMT DEF PortOK, Port
<1>3. /\ qs \in [Queues -> Queue] /\ ~qs[q].used
      /\ \A r \in Queues \ {q} : qs[r] = p.queues[r]
      /\ qs[q].tx = 0
  BY <1>1, <1>2, SMT DEF Queue, NoQueue
<1>4. \A r \in Queues : qs[r].tx <= p.queues[r].tx \/ qs[r].tx = 0
  <2> SUFFICES ASSUME NEW r \in Queues PROVE qs[r].tx <= p.queues[r].tx \/ qs[r].tx = 0
    OBVIOUS
  <2>1. p.queues[r].tx \in Nat
    BY <1>2, SMT DEF Queue
  <2> QED BY <1>3, <2>1, SMT
<1>5. {r \in Queues : qs[r].used} = UsedOf(p) \ {q} /\ q \in UsedOf(p)
  BY <1>3 DEF UsedOf
<1>6. Cardinality(UsedOf(p) \ {q}) = p.num_queues - 1 /\ p.num_queues - 1 \in Nat
  <2>1. IsFiniteSet(UsedOf(p)) /\ Cardinality(UsedOf(p)) = p.num_queues
    BY QueuesFinite DEF PortOK, Counted
  <2>2. /\ IsFiniteSet(UsedOf(p) \ {q})
        /\ Cardinality(UsedOf(p) \ {q}) = IF q \in UsedOf(p) THEN Cardinality(UsedOf(p)) - 1
                                         ELSE Cardinality(UsedOf(p))
    BY <2>1, FS_RemoveElement, Zenon
  <2>3. Cardinality(UsedOf(p) \ {q}) \in Nat
    BY <2>2, FS_CardinalityType
  <2> QED BY <1>5, <2>1, <2>2, <2>3
<1>7. port_delete_queue(p, q) = SetQueues(p, qs, p.num_queues - 1)
  BY <1>1, <1>2, SMT DEF SetQueues, port_delete_queue, Port
<1>8. PICK d : d = SetQueues(p, qs, p.num_queues - 1) /\ Rewritten(p, d, p.tx, qs, p.num_queues - 1)
  BY <1>2, <1>3, <1>6, NumAndQueues
<1>9. p.num_queues - 1 = Cardinality({r \in Queues : qs[r].used})
  BY <1>5, <1>6, Zenon
<1>10. PortOK(d) /\ d.netdev = p.netdev /\ d.max_queues = p.max_queues /\ d.queues = qs
  BY <1>3, <1>4, <1>6, <1>8, <1>9, QueueChangeOK
<1> QED BY <1>3, <1>7, <1>8, <1>10 DEF QueueAltered

LEMMA ChangedQueueOK ==
    ASSUME NEW p, PortOK(p), Used(p), NEW q \in Queues, p.queues[q].used, NEW rate \in Nat
    PROVE  LET d == WithRate(p, q, rate) IN
           QueueAltered(p, d, q) /\ HasRate(d, q, rate)
<1>1. PICK qs : qs = [p.queues EXCEPT ![q].rate = rate]
  BY Zenon
<1>2. p \in Port /\ p.queues \in [Queues -> Queue] /\ p.num_queues \in Nat
  BY SMT DEF PortOK, Port
<1>3. /\ qs \in [Queues -> Queue] /\ qs[q].used /\ qs[q].rate = rate
      /\ \A r \in Queues \ {q} : qs[r] = p.queues[r]
      /\ qs[q].tx = p.queues[q].tx
  BY <1>1, <1>2, SMT DEF Queue
<1>4. \A r \in Queues : qs[r].tx <= p.queues[r].tx \/ qs[r].tx = 0
  <2> SUFFICES ASSUME NEW r \in Queues PROVE qs[r].tx <= p.queues[r].tx \/ qs[r].tx = 0
    OBVIOUS
  <2>1. p.queues[r].tx \in Nat /\ qs[r].tx = p.queues[r].tx
    BY <1>2, <1>3, SMT DEF Queue
  <2> QED BY <2>1, SMT
<1>5. {r \in Queues : qs[r].used} = UsedOf(p)
  BY <1>3 DEF UsedOf
<1>6. p.num_queues = Cardinality({r \in Queues : qs[r].used})
  BY <1>5, Zenon DEF PortOK, Counted
<1>7. WithRate(p, q, rate) = [p EXCEPT !.queues = qs]
  BY <1>1 DEF WithRate
<1>8. PICK d : d = [p EXCEPT !.queues = qs] /\ Rewritten(p, d, p.tx, qs, p.num_queues)
  BY <1>2, <1>3, QueuesOnly, Zenon
<1>9. PortOK(d) /\ d.netdev = p.netdev /\ d.max_queues = p.max_queues /\ d.queues = qs
  BY <1>2, <1>3, <1>4, <1>6, <1>8, QueueChangeOK
<1> QED BY <1>3, <1>7, <1>8, <1>9 DEF QueueAltered, HasRate
---------------------------------------------------------------------------
\* The ports f have the devices and the numbers of queues of those that there are.
PortsKept(f) ==
    /\ f \in [PortNos -> Port]
    /\ \A no \in PortNos : /\ PortOK(f[no]) /\ f[no].netdev = ports[no].netdev
                           /\ f[no].max_queues = ports[no].max_queues
ClassesType(c) == c \in [Interfaces -> [Queues -> SUBSET Nat]]

LEMMA ShapeKept ==
    ASSUME PortsAssumption, PortsInv, PortsKept(ports'), UNCHANGED <<pending, port_list, ports_num>>,
           ClassesType(classes'), ClassesAgree', LocalQueues'
    PROVE  PortsInv'
<1>1. \A no \in PortNos : ports'[no].netdev = ports[no].netdev
  BY DEF PortsKept
<1>2. \A no \in PortNos : InUse(no)' <=> InUse(no)
  BY <1>1 DEF InUse, Used
<1>3. OFPP_LOCAL \in PortNos /\ Slots \subseteq PortNos
  BY DEF PortNos
<1>4. PortsType'
  BY DEF PortsInv, PortsType, PortsKept, ClassesType
<1>5. Taken' = Taken
  BY <1>2, <1>3 DEF Taken
<1>6. Numbered'
  BY <1>2, <1>3, <1>5 DEF PortsInv, Numbered
<1>7. Listing'
  <2>1. {no \in PortNos : InUse(no)'} = {no \in PortNos : InUse(no)}
    BY <1>2
  <2> QED BY <2>1 DEF PortsInv, Listing
<1>8. Devices'
  BY <1>1, <1>2, <1>3 DEF PortsInv, Devices
<1>9. EachPort'
  <2> SUFFICES ASSUME NEW no \in PortNos PROVE PortOK(ports'[no]) /\ QueuesOf(no, ports'[no])
    BY DEF EachPort
  <2>1. QueuesOf(no, ports[no])
    BY DEF PortsInv, EachPort
  <2> QED BY <2>1 DEF PortsKept, QueuesOf, Used
<1> QED BY <1>4, <1>6, <1>7, <1>8, <1>9 DEF PortsInv

\* A step that changes nothing of what classes and queues have to agree on.
LEMMA AgreeKept ==
    ASSUME PortsAssumption, PortsInv, UNCHANGED <<classes, stuck>>,
           \A no \in PortNos : SameQueues(ports[no], ports'[no])
    PROVE  ClassesAgree'
<1> SUFFICES ASSUME NEW no \in Slots, InUse(no)' PROVE Agree(ports'[no], classes, stuck)
  BY DEF ClassesAgree
<1>1. no \in PortNos
  BY DEF PortNos
<1>2. SameQueues(ports[no], ports'[no])
  BY <1>1
<1>3. InUse(no)
  BY <1>2 DEF InUse, Used, SameQueues
<1>4. Agree(ports[no], classes, stuck)
  BY <1>3 DEF PortsInv, ClassesAgree
<1> QED BY <1>2, <1>4 DEF Agree, SameQueues

LEMMA QueuesKept ==
    ASSUME PortsAssumption, PortsInv, ports' \in [PortNos -> Port],
           \A no \in PortNos : PortOK(ports'[no]) /\ SameQueues(ports[no], ports'[no]),
           UNCHANGED <<pending, port_list, ports_num, classes, stuck>>
    PROVE  PortsInv'
<1>1. PortsKept(ports')
  BY DEF PortsKept, SameQueues
<1>2. ClassesType(classes')
  BY DEF PortsInv, PortsType, ClassesType
<1>3. ClassesAgree'
  BY AgreeKept
<1>4. LocalQueues'
  BY DEF PortsInv, LocalQueues, SameQueues, PortNos
<1> QED BY <1>1, <1>2, <1>3, <1>4, ShapeKept

\* One port becomes d.
LEMMA OneKept ==
    ASSUME PortsAssumption, PortsInv, NEW no \in PortNos, NEW d, PortOK(d), SameQueues(ports[no], d),
           ports' = [ports EXCEPT ![no] = d],
           UNCHANGED <<pending, port_list, ports_num, classes, stuck>>
    PROVE  PortsInv'
<1>1. ports \in [PortNos -> Port] /\ d \in Port
  BY DEF PortsInv, PortsType, PortOK
<1>2. ports' \in [PortNos -> Port] /\ ports'[no] = d /\ \A m \in PortNos \ {no} : ports'[m] = ports[m]
  BY <1>1
<1>3. ASSUME NEW m \in PortNos PROVE PortOK(ports'[m]) /\ SameQueues(ports[m], ports'[m])
  <2>1. CASE m = no
    BY <1>2, <2>1
  <2>2. CASE m # no
    <3>1. ports'[m] = ports[m]
      BY <1>2, <2>2
    <3> QED BY <3>1 DEF PortsInv, EachPort, SameQueues
  <2> QED BY <2>1, <2>2
<1> QED BY <1>2, <1>3, QueuesKept
---------------------------------------------------------------------------
LEMMA InList ==
    ASSUME PortsInv, NEW no \in Range(port_list) PROVE no \in PortNos /\ InUse(no)
  BY DEF PortsInv, Listing

LEMMA PortIsOK ==
    ASSUME PortsInv, NEW no \in PortNos, InUse(no) PROVE PortOK(ports[no]) /\ Used(ports[no])
  BY DEF PortsInv, EachPort, InUse
---------------------------------------------------------------------------
\* The classes and those that are stuck are c and s, and only that of queue q
\* of the device has changed.
OnlyClass(c, s, name, q) ==
    \A i \in Interfaces, r \in Queues : i # name \/ r # q =>
        c[i][r] = classes[i][r] /\ (<<i, r>> \in s <=> <<i, r>> \in stuck)
AgreeAt(p, c, s, q) ==
    <<p.netdev, q>> \notin s /\ c[p.netdev][q] # {} =>
        p.queues[q].used /\ c[p.netdev][q] = {p.queues[q].rate}

LEMMA QueueStep ==
    ASSUME PortsAssumption, PortsInv, NEW no \in Slots, InUse(no), NEW q \in Queues, NEW d,
           QueueAltered(ports[no], d, q), ports' = [ports EXCEPT ![no] = d],
           UNCHANGED <<pending, port_list, ports_num>>, ClassesType(classes'),
           OnlyClass(classes', stuck', ports[no].netdev, q), AgreeAt(d, classes', stuck', q)
    PROVE  PortsInv'
<1>1. ports \in [PortNos -> Port] /\ d \in Port /\ no \in PortNos
  BY DEF PortsInv, PortsType, PortOK, QueueAltered, PortNos
<1>2. ports' \in [PortNos -> Port] /\ ports'[no] = d /\ \A m \in PortNos \ {no} : ports'[m] = ports[m]
  BY <1>1
<1>3. PortsKept(ports')
  <2> SUFFICES ASSUME NEW m \in PortNos
               PROVE  /\ PortOK(ports'[m]) /\ ports'[m].netdev = ports[m].netdev
                      /\ ports'[m].max_queues = ports[m].max_queues
    BY <1>2 DEF PortsKept
  <2>1. CASE m = no
    BY <1>2, <2>1 DEF QueueAltered
  <2>2. CASE m # no
    <3>1. ports'[m] = ports[m]
      BY <1>2, <2>2
    <3> QED BY <3>1 DEF PortsInv, EachPort
  <2> QED BY <2>1, <2>2
<1>4. ClassesAgree'
  <2> SUFFICES ASSUME NEW m \in Slots, InUse(m)', NEW r \in Queues,
                      <<ports'[m].netdev, r>> \notin stuck', classes'[ports'[m].netdev][r] # {}
               PROVE  ports'[m].queues[r].used /\ classes'[ports'[m].netdev][r] = {ports'[m].queues[r].rate}
    BY DEF ClassesAgree, Agree
  <2>1. m \in PortNos /\ ports'[m].netdev = ports[m].netdev
    BY <1>3 DEF PortNos, PortsKept
  <2>2. InUse(m)
    BY <2>1 DEF InUse, Used
  <2>3. Agree(ports[m], classes, stuck)
    BY <2>2 DEF PortsInv, ClassesAgree
  <2>4. ports[m].netdev \in Interfaces
    BY <2>1, <2>2 DEF PortsInv, EachPort, PortOK, InUse, Sound
  <2>5. CASE m = no /\ r = q
    <3>1. ports'[m] = d
      BY <1>2, <2>5, SMTT(30)
    <3> QED BY <2>5, <3>1 DEF AgreeAt
  <2>6. CASE m = no /\ r # q
    <3>1. ports'[m].queues[r] = ports[m].queues[r]
      BY <1>2, <2>6 DEF QueueAltered
    <3>2. classes'[ports[m].netdev][r] = classes[ports[m].netdev][r] /\ <<ports[m].netdev, r>> \notin stuck
      BY <2>1, <2>4, <2>6 DEF OnlyClass
    <3> QED BY <2>1, <2>3, <3>1, <3>2 DEF Agree
  <2>7. CASE m # no
    <3>1. ports'[m] = ports[m]
      BY <1>2, <2>1, <2>7
    <3>2. ports[m].netdev # ports[no].netdev
      BY <2>2, <2>7 DEF PortsInv, Devices
    <3>3. classes'[ports[m].netdev][r] = classes[ports[m].netdev][r] /\ <<ports[m].netdev, r>> \notin stuck
      BY <2>1, <2>4, <3>2 DEF OnlyClass
    <3> QED BY <2>3, <3>1, <3>3 DEF Agree
  <2> QED BY <2>5, <2>6, <2>7
<1>5. LocalQueues'
  <2>1. ports'[OFPP_LOCAL] = ports[OFPP_LOCAL]
    BY <1>2 DEF PortNos, PortsAssumption
  <2> QED BY <2>1 DEF PortsInv, LocalQueues
<1> QED BY <1>3, <1>4, <1>5, ShapeKept

\* Setting the class of one queue of a device to x.
SetClass(name, q, x) == [classes EXCEPT ![name][q] = x]
ClassIs(c, name, q, x) ==
    /\ ClassesType(c) /\ c[name][q] = x
    /\ \A i \in Interfaces, r \in Queues : i # name \/ r # q => c[i][r] = classes[i][r]
LEMMA ClassSet ==
    ASSUME PortsInv, NEW name \in Interfaces, NEW q \in Queues, NEW x \in SUBSET Nat
    PROVE  ClassIs(SetClass(name, q, x), name, q, x)
<1>1. classes \in [Interfaces -> [Queues -> SUBSET Nat]]
  BY DEF PortsInv, PortsType
<1>2. PICK f : f = [classes[name] EXCEPT ![q] = x]
  BY Zenon
<1>3. f \in [Queues -> SUBSET Nat] /\ f[q] = x /\ \A r \in Queues \ {q} : f[r] = classes[name][r]
  BY <1>1, <1>2
<1>4. PICK c : c = SetClass(name, q, x) /\ c = [classes EXCEPT ![name] = f]
  BY <1>2, Zenon DEF SetClass
<1>5. c \in [Interfaces -> [Queues -> SUBSET Nat]] /\ c[name] = f
      /\ \A i \in Interfaces \ {name} : c[i] = classes[i]
  BY <1>1, <1>3, <1>4
<1> QED BY <1>3, <1>4, <1>5 DEF ClassesType, ClassIs

\* The local port has no queues.
LEMMA QueuePort ==
    ASSUME PortsAssumption, PortsInv, NEW no \in PortNos, NEW q \in Queues, q < ports[no].max_queues
    PROVE  no \in Slots
<1>1. QueuesOf(no, ports[no])
  BY DEF PortsInv, EachPort
<1>2. q \in Nat
  BY SMT DEF Queues, PortsAssumption
<1>3. no # OFPP_LOCAL
  BY <1>1, <1>2, SMT DEF QueuesOf
<1> QED BY <1>3 DEF PortNos
---------------------------------------------------------------------------
\* Whatever the phase is, and however many packets there were.
LEMMA PhaseInv ==
    ASSUME PortsInv, UNCHANGED <<pending, ports, port_list, ports_num, classes, stuck>> PROVE PortsInv'
<1>2. PortsType' /\ Numbered' /\ Listing' /\ Devices'
  BY DEF PortsInv, PortsType, Numbered, Taken, Listing, Devices, InUse
<1>3. EachPort' /\ ClassesAgree' /\ LocalQueues'
  BY DEF PortsInv, EachPort, ClassesAgree, LocalQueues, InUse
<1> QED BY <1>2, <1>3 DEF PortsInv

LEMMA StutterInv == ASSUME PortsInv, UNCHANGED portVars PROVE PortsInv'
  BY PhaseInv DEF portVars

LEMMA PortModInv ==
    ASSUME PortsAssumption, PortsInv, NEW msg \in PortRequests, msg.type = "PORT_MOD",
           dp_ports_handle_port_mod(msg)
    PROVE  PortsInv'
<1>1. CASE UNCHANGED portVars
  BY <1>1, StutterInv
<1>2. CASE ~UNCHANGED portVars
  <2>1. PICK no \in dp_ports_lookup(msg.port) :
            Changes(no, Reconfigured(ports[no], msg)) /\ UNCHANGED <<classes, stuck>>
    BY <1>2 DEF dp_ports_handle_port_mod, Refused
  <2>2. no \in PortNos /\ InUse(no)
    BY <2>1, Lookup
  <2>3. PortOK(ports[no]) /\ Used(ports[no])
    BY <2>2, PortIsOK
  <2>4. msg.config \subseteq Flags /\ msg.mask \subseteq Flags
    BY DEF PortsAssumption
  <2>5. PICK d : d = Reconfigured(ports[no], msg)
    OBVIOUS
  <2>6. PortOK(d) /\ SameQueues(ports[no], d)
    BY <2>3, <2>4, <2>5, ReconfiguredOK
  <2>7. ports' = [ports EXCEPT ![no] = d] /\ UNCHANGED <<pending, port_list, ports_num, classes, stuck>>
    BY <2>1, <2>5 DEF Changes
  <2> QED BY <2>2, <2>6, <2>7, OneKept, Zenon
<1> QED BY <1>1, <1>2

LEMMA QueueChangedInv ==
    ASSUME PortsAssumption, PortsInv, NEW no \in PortNos, InUse(no), NEW msg, msg.rate \in Nat,
           NEW q \in dp_ports_lookup_queue(ports[no], msg.queue), QueueChanged(no, q, msg)
    PROVE  PortsInv'
<1>1. CASE UNCHANGED portVars
  BY <1>1, StutterInv
<1>2. CASE ~UNCHANGED portVars
  <2>1. q \in Queues /\ q < ports[no].max_queues /\ ports[no].queues[q].used
    BY DEF dp_ports_lookup_queue
  <2>2. PortOK(ports[no]) /\ Used(ports[no]) /\ no \in Slots
    BY <2>1, PortIsOK, QueuePort
  <2>3. PICK d : d = WithRate(ports[no], q, msg.rate)
    OBVIOUS
  <2>4. QueueAltered(ports[no], d, q) /\ HasRate(d, q, msg.rate)
    BY <2>1, <2>2, <2>3, ChangedQueueOK
  <2>5. /\ classes' = [classes EXCEPT ![ports[no].netdev][q] = {msg.rate}]
        /\ ports' = [ports EXCEPT ![no] = d] /\ UNCHANGED <<pending, port_list, ports_num, stuck>>
    BY <1>2, <2>3 DEF QueueChanged, Refused, netdev_change_class, Changes
  <2>6. ports[no].netdev \in Interfaces /\ {msg.rate} \in SUBSET Nat
    BY <2>2 DEF PortOK, Sound
  <2>7. ClassesType(classes') /\ OnlyClass(classes', stuck', ports[no].netdev, q)
        /\ classes'[ports[no].netdev][q] = {msg.rate}
    <3>1. ClassIs(SetClass(ports[no].netdev, q, {msg.rate}), ports[no].netdev, q, {msg.rate})
      BY <2>1, <2>6, ClassSet
    <3> QED BY <2>5, <3>1 DEF SetClass, ClassIs, OnlyClass
  <2>8. AgreeAt(d, classes', stuck', q)
    BY <2>4, <2>7 DEF AgreeAt, QueueAltered, HasRate
  <2> QED BY <2>1, <2>2, <2>4, <2>5, <2>7, <2>8, QueueStep, Zenon
<1> QED BY <1>1, <1>2

LEMMA QueueAddedInv ==
    ASSUME PortsAssumption, PortsInv, NEW no \in PortNos, InUse(no), NEW msg, msg.rate \in Nat,
           QueueAdded(no, msg)
    PROVE  PortsInv'
<1>1. CASE UNCHANGED portVars
  BY <1>1, StutterInv
<1>2. CASE ~UNCHANGED portVars
  <2>1. PICK d \in port_add_queue(ports[no], msg.queue, msg.rate) :
            /\ Changes(no, d) /\ UNCHANGED stuck
            /\ UNCHANGED classes \/ classes' \in netdev_setup_class(classes, d.netdev, msg.queue, msg.rate)
    BY <1>2 DEF QueueAdded, Refused
  <2>2. PICK q \in Queues : /\ q = msg.queue /\ q < ports[no].max_queues /\ ~ports[no].queues[q].used
                            /\ d = new_queue(ports[no], q, msg.rate)
    BY <2>1 DEF port_add_queue
  <2>3. PortOK(ports[no]) /\ Used(ports[no]) /\ no \in Slots
    BY <2>2, PortIsOK, QueuePort
  <2>4. QueueAltered(ports[no], d, q) /\ HasRate(d, q, msg.rate)
    BY <2>2, <2>3, NewQueueOK
  <2>5. PICK name : name = ports[no].netdev /\ name = d.netdev /\ name \in Interfaces
    BY <2>3, <2>4 DEF PortOK, Sound, QueueAltered
  <2>6. ports' = [ports EXCEPT ![no] = d] /\ UNCHANGED <<pending, port_list, ports_num, stuck>>
    BY <2>1, SMTT(30) DEF Changes
  <2>7. CASE UNCHANGED classes
    <3>1. ClassesType(classes') /\ OnlyClass(classes', stuck', name, q)
      BY <2>6, <2>7 DEF PortsInv, PortsType, ClassesType, OnlyClass
    <3>2. AgreeAt(d, classes', stuck', q)
      <4>1. Agree(ports[no], classes, stuck)
        BY <2>3, SMTT(30) DEF PortsInv, ClassesAgree
      <4> QED BY <2>2, <2>5, <2>6, <2>7, <4>1, SMTT(30) DEF AgreeAt, Agree
    <3> QED BY <2>2, <2>3, <2>4, <2>5, <2>6, <3>1, <3>2, QueueStep, Zenon
  <2>8. CASE classes' \in netdev_setup_class(classes, d.netdev, msg.queue, msg.rate)
    <3>1. classes' = [classes EXCEPT ![name][q] = {msg.rate}]
      BY <2>2, <2>5, <2>8 DEF netdev_setup_class
    <3>2. {msg.rate} \in SUBSET Nat
      OBVIOUS
    <3>3. ClassesType(classes') /\ OnlyClass(classes', stuck', name, q) /\ classes'[name][q] = {msg.rate}
      <4>1. ClassIs(SetClass(name, q, {msg.rate}), name, q, {msg.rate})
        BY <2>5, <3>2, ClassSet
      <4> QED BY <2>6, <3>1, <4>1 DEF SetClass, ClassIs, OnlyClass
    <3>4. AgreeAt(d, classes', stuck', q)
      BY <2>4, <2>5, <3>3 DEF AgreeAt, HasRate
    <3> QED BY <2>2, <2>3, <2>4, <2>5, <2>6, <3>3, <3>4, QueueStep, Zenon
  <2> QED BY <2>1, <2>7, <2>8
<1> QED BY <1>1, <1>2

LEMMA QueueModifyInv ==
    ASSUME PortsAssumption, PortsInv, NEW msg \in PortRequests, msg.type = "QUEUE_MODIFY",
           dp_ports_handle_queue_modify(msg)
    PROVE  PortsInv'
<1>1. CASE UNCHANGED portVars
  BY <1>1, StutterInv
<1>2. CASE ~UNCHANGED portVars
  <2>1. PICK no \in dp_ports_lookup(msg.port) :
            \/ \E q \in dp_ports_lookup_queue(ports[no], msg.queue) : QueueChanged(no, q, msg)
            \/ QueueAdded(no, msg)
    BY <1>2 DEF dp_ports_handle_queue_modify, Refused
  <2>2. no \in PortNos /\ InUse(no) /\ msg.rate \in Nat
    BY <2>1, Lookup DEF PortsAssumption
  <2>3. CASE QueueAdded(no, msg)
    BY <2>2, <2>3, QueueAddedInv
  <2>4. ASSUME NEW q \in dp_ports_lookup_queue(ports[no], msg.queue), QueueChanged(no, q, msg)
        PROVE  PortsInv'
    BY <2>2, <2>4, QueueChangedInv
  <2> QED BY <2>1, <2>3, <2>4
<1> QED BY <1>1, <1>2

LEMMA QueueDeleteInv ==
    ASSUME PortsAssumption, PortsInv, NEW msg, dp_ports_handle_queue_delete(msg)
    PROVE  PortsInv'
<1>1. CASE UNCHANGED portVars
  BY <1>1, StutterInv
<1>2. CASE ~UNCHANGED portVars
  <2>1. PICK no \in dp_ports_lookup(msg.port), q \in Queues :
            /\ q \in dp_ports_lookup_queue(ports[no], msg.queue)
            /\ Changes(no, port_delete_queue(ports[no], q))
            /\ \/ /\ classes' = netdev_delete_class(classes, ports[no].netdev, q)
                  /\ stuck' = stuck \ {<<ports[no].netdev, q>>}
               \/ /\ UNCHANGED classes
                  /\ stuck' = stuck \cup {<<ports[no].netdev, q>>}
    BY <1>2 DEF dp_ports_handle_queue_delete, Refused, dp_ports_lookup_queue
  <2>2. q \in Queues /\ q < ports[no].max_queues /\ ports[no].queues[q].used
    BY <2>1 DEF dp_ports_lookup_queue
  <2>3. no \in PortNos /\ InUse(no)
    BY <2>1, Lookup
  <2>4. PortOK(ports[no]) /\ Used(ports[no]) /\ no \in Slots
    BY <2>2, <2>3, PortIsOK, QueuePort
  <2>5. PICK d : d = port_delete_queue(ports[no], q)
    OBVIOUS
  <2>6. QueueAltered(ports[no], d, q)
    BY <2>2, <2>4, <2>5, DeletedQueueOK
  <2>7. PICK name : name = ports[no].netdev /\ name = d.netdev /\ name \in Interfaces
    BY <2>4, <2>6 DEF PortOK, Sound, QueueAltered
  <2>8. ports' = [ports EXCEPT ![no] = d] /\ UNCHANGED <<pending, port_list, ports_num>>
    BY <2>1, <2>5, SMTT(30) DEF Changes
  <2>9. CASE classes' = netdev_delete_class(classes, name, q) /\ stuck' = stuck \ {<<name, q>>}
    <3>1. classes' = [classes EXCEPT ![name][q] = {}]
      BY <2>9 DEF netdev_delete_class
    <3>2. ClassesType(classes') /\ classes'[name][q] = {}
          /\ \A i \in Interfaces, r \in Queues : i # name \/ r # q => classes'[i][r] = classes[i][r]
      <4>1. ClassIs(SetClass(name, q, {}), name, q, {})
        BY <2>2, <2>7, ClassSet
      <4> QED BY <3>1, <4>1 DEF SetClass, ClassIs
    <3>3. OnlyClass(classes', stuck', name, q)
      BY <2>9, <3>2 DEF OnlyClass
    <3>4. AgreeAt(d, classes', stuck', q)
      BY <2>7, <3>2 DEF AgreeAt
    <3> QED BY <2>2, <2>3, <2>4, <2>6, <2>7, <2>8, <3>2, <3>3, <3>4, QueueStep, Zenon
  <2>10. CASE UNCHANGED classes /\ stuck' = stuck \cup {<<name, q>>}
    <3>1. ClassesType(classes')
      BY <2>10 DEF PortsInv, PortsType, ClassesType
    <3>2. OnlyClass(classes', stuck', name, q)
      BY <2>10 DEF OnlyClass
    <3>3. AgreeAt(d, classes', stuck', q)
      BY <2>7, <2>10 DEF AgreeAt
    <3> QED BY <2>2, <2>3, <2>4, <2>6, <2>7, <2>8, <3>1, <3>2, <3>3, QueueStep, Zenon
  <2> QED BY <2>1, <2>7, <2>9, <2>10
<1> QED BY <1>1, <1>2
---------------------------------------------------------------------------
LEMMA RunInv ==
    ASSUME PortsAssumption, PortsInv, NEW no \in PortNos, dp_ports_run(no) PROVE PortsInv'
<1>1. InUse(no) /\ PortOK(ports[no]) /\ Used(ports[no])
  BY InList, PortIsOK DEF dp_ports_run
<1>2. PICK link : /\ \/ ports' = [ports EXCEPT ![no] = LinkSeen(ports[no], link)]
                     \/ ports' = [ports EXCEPT ![no] = [LinkSeen(ports[no], link) EXCEPT !.rx = @ + 1]]
                  /\ UNCHANGED <<pending, port_list, ports_num, classes, stuck>>
  BY DEF dp_ports_run, Changes
<1>3. PICK d : d = LinkSeen(ports[no], link)
  OBVIOUS
<1>4. PortOK(d) /\ SameQueues(ports[no], d)
  BY <1>1, <1>3, LinkSeenOK
<1>5. CASE ports' = [ports EXCEPT ![no] = d]
  BY <1>2, <1>4, <1>5, OneKept, Zenon
<1>6. CASE ports' = [ports EXCEPT ![no] = [d EXCEPT !.rx = @ + 1]]
  <2>1. PICK e : e = [d EXCEPT !.rx = @ + 1]
    BY Zenon
  <2>2. Used(d)
    BY <1>1, <1>4 DEF Used, SameQueues
  <2>3. PortOK(e) /\ SameQueues(d, e)
    BY <1>4, <2>1, <2>2, ReceivedOK
  <2>4. SameQueues(ports[no], e)
    BY <1>4, <2>3 DEF SameQueues
  <2>5. ports' = [ports EXCEPT ![no] = e]
    BY <1>6, <2>1
  <2> QED BY <1>2, <2>3, <2>4, <2>5, OneKept, Zenon
<1> QED BY <1>2, <1>3, <1>5, <1>6

LEMMA OutputToInv ==
    ASSUME PortsAssumption, PortsInv, NEW nos, NEW queue_id, OutputTo(nos, queue_id) PROVE PortsInv'
<1>1. PICK sent : ports' = [no \in PortNos |->
               IF no \in nos THEN Output(ports[no], queue_id, no \in sent) ELSE ports[no]]
  BY DEF OutputTo
<1>2. UNCHANGED <<pending, port_list, ports_num, classes, stuck>>
  BY DEF OutputTo
<1>3. ASSUME NEW no \in PortNos PROVE PortOK(ports'[no]) /\ SameQueues(ports[no], ports'[no])
  <2>1. PortOK(ports[no])
    BY DEF PortsInv, EachPort
  <2>2. CASE no \in nos
    <3>1. PICK b : b = (no \in sent)
      OBVIOUS
    <3>2. ports'[no] = Output(ports[no], queue_id, b)
      BY <1>1, <2>2, <3>1
    <3> QED BY <2>1, <3>2, OutputOK
  <2>3. CASE no \notin nos
    <3>1. ports'[no] = ports[no]
      BY <1>1, <2>3
    <3> QED BY <2>1, <3>1 DEF SameQueues
  <2> QED BY <2>2, <2>3
<1>4. ports' \in [PortNos -> Port]
  <2>1. \A no \in PortNos : ports'[no] \in Port
    BY <1>3 DEF PortOK
  <2>2. \E f : ports' = [no \in PortNos |-> f[no]]
    <3>1. ports' = [no \in PortNos |-> ports'[no]]
      BY <1>1
    <3> QED BY <3>1
  <2> QED BY <2>1, <2>2
<1> QED BY <1>2, <1>3, <1>4, QueuesKept
---------------------------------------------------------------------------
(* New ports.                                                            *)

LEMMA NoPortOK ==
    ASSUME PortsAssumption
    PROVE  NoPort \in Port /\ Counted(NoPort) /\ ~Used(NoPort) /\ NoPort.max_queues = 0
           /\ \A q \in Queues : NoPort.queues[q].tx = 0
<1>1. [q \in Queues |-> NoQueue] \in [Queues -> Queue]
  BY SMT DEF NoQueue, Queue
<1>2. NoPort \in Port
  BY <1>1, SMT DEF NoPort, Port
<1>3. UsedOf(NoPort) = {}
  BY SMT DEF UsedOf, NoPort, NoQueue
<1>4. Counted(NoPort)
  BY <1>3, FS_EmptySet, SMT DEF Counted, NoPort
<1>5. ~Used(NoPort) /\ NoPort.max_queues = 0
  BY SMT DEF NoPort, Used
<1>6. \A q \in Queues : NoPort.queues[q].tx = 0
  BY SMT DEF NoPort, NoQueue
<1> QED BY <1>2, <1>4, <1>5, <1>6

\* d is a new port of the device.
Fresh(d, name, max_queues) ==
    /\ PortOK(d) /\ d.netdev = name /\ d.max_queues = max_queues
    /\ \A q \in Queues : ~d.queues[q].used

LEMMA NewPortFresh ==
    ASSUME PortsAssumption, NEW no, NEW name \in Interfaces, NEW max_queues \in Nat
    PROVE  Fresh(NewPort(no, name, max_queues), name, max_queues)
<1>1. PICK c : c = IF no = OFPP_LOCAL THEN {"NO_FWD"} ELSE {}
  BY Zenon
<1>2. c \in SUBSET Flags
  BY <1>1 DEF Flags
<1>3. PICK qs : qs = [q \in Queues |-> NoQueue]
  BY Zenon
<1>4. qs \in [Queues -> Queue] /\ \A q \in Queues : ~qs[q].used /\ qs[q].tx = 0
  BY <1>3, SMT DEF NoQueue, Queue
<1>51. PICK b1 : b1 = [NoPort EXCEPT !.netdev = name]
  BY Zenon
<1>52. PICK b2 : b2 = [b1 EXCEPT !.state = {"LIVE"}]
  BY Zenon
<1>53. PICK b3 : b3 = [b2 EXCEPT !.max_queues = max_queues]
  BY Zenon
<1>54. PICK b : b = [b3 EXCEPT !.config = c]
  BY Zenon
<1>6. b = [NoPort EXCEPT !.netdev = name, !.state = {"LIVE"}, !.max_queues = max_queues, !.config = c]
  BY <1>51, <1>52, <1>53, <1>54
<1>7. /\ b \in Port /\ b.netdev = name /\ b.max_queues = max_queues /\ b.num_queues = 0
      /\ b.queues = qs /\ b.tx = 0
  <2>1. NoPort \in Port /\ NoPort.num_queues = 0 /\ NoPort.queues = qs /\ NoPort.tx = 0
    BY <1>3, NoPortOK, Zenon DEF NoPort
  <2>2. /\ b1 \in Port /\ b1.netdev = name /\ b1.num_queues = 0 /\ b1.queues = qs /\ b1.tx = 0
    BY ONLY <1>51, <2>1, name \in Interfaces, SMT DEF Port
  <2>3. /\ b2 \in Port /\ b2.netdev = name /\ b2.num_queues = 0 /\ b2.queues = qs /\ b2.tx = 0
    BY ONLY <1>52, <2>2, SMT DEF Port
  <2>4. /\ b3 \in Port /\ b3.netdev = name /\ b3.num_queues = 0 /\ b3.queues = qs /\ b3.tx = 0
        /\ b3.max_queues = max_queues
    BY ONLY <1>53, <2>3, max_queues \in Nat, SMT DEF Port
  <2> QED BY ONLY <1>2, <1>54, <2>4, SMT DEF Port
<1>8. PICK d : d = dp_port_live_update(b)
  OBVIOUS
<1>9. d \in Port /\ LiveAsItIs(d) /\ SameCounts(b, d)
  BY <1>7, <1>8, LiveUpdate
<1>10. PICK e : e = Announced(d)
  OBVIOUS
<1>11. e \in Port /\ SameCounts(d, e) /\ e.told = e.config /\ LiveAsItIs(e)
  BY <1>9, <1>10, Status
<1>12. SameCounts(b, e)
  BY <1>9, <1>11, SameCountsTrans
<1>13. /\ e.netdev = name /\ e.max_queues = max_queues /\ e.num_queues = 0
       /\ e.queues = qs /\ e.tx = 0
  BY <1>7, <1>12 DEF SameCounts
<1>14. UsedOf(e) = {}
  BY <1>4, <1>13 DEF UsedOf
<1>15. Counted(e)
  BY <1>13, <1>14, FS_EmptySet DEF Counted
<1>16. \A q \in Queues : e.queues[q].tx <= e.tx
  BY <1>4, <1>13, SMT
<1>17. Sound(e)
  BY <1>11, <1>13, <1>16 DEF Sound
<1>18. NewPort(no, name, max_queues) = e
  BY <1>1, <1>6, <1>8, <1>10 DEF NewPort
<1> QED BY <1>4, <1>11, <1>13, <1>15, <1>17, <1>18 DEF PortOK, Fresh

LEMMA InitInv == ASSUME PortsAssumption, PortsInit PROVE PortsInv
<1>1. PICK list \in PortLists, local \in LocalPorts : pending = [ports |-> list, local |-> local]
  BY DEF PortsInit
<1>2. /\ list \in Seq(Interfaces) /\ IsInjective(list) /\ local \subseteq Interfaces
      /\ pending.ports = list /\ pending \in [ports : Seq(Interfaces), local : SUBSET Interfaces]
  BY <1>1 DEF PortsAssumption
<1>3. \A no \in PortNos : ports[no] = NoPort /\ ~InUse(no)
  BY NoPortOK DEF PortsInit, InUse
<1>4. OFPP_LOCAL \in PortNos /\ Slots \subseteq PortNos
  BY DEF PortNos
<1>5. PortsType
  <2>1. ports \in [PortNos -> Port]
    BY NoPortOK DEF PortsInit
  <2>2. classes \in [Interfaces -> [Queues -> SUBSET Nat]]
    BY DEF PortsInit
  <2>3. port_list \in Seq(PortNos) /\ ports_num \in Nat
    BY SMT DEF PortsInit
  <2> QED BY <1>2, <2>1, <2>2, <2>3 DEF PortsType
<1>6. Numbered
  <2>1. Taken = 0
    BY <1>3, <1>4 DEF Taken, PortsInit
  <2>2. Taken \in 0..(DP_MAX_PORTS - 1)
    BY <2>1, SMT DEF PortsAssumption
  <2>3. ASSUME NEW no \in Slots PROVE InUse(no) <=> no <= Taken
    <3>1. ~(no <= Taken)
      BY <2>1, SMT DEF Slots, PortsAssumption
    <3> QED BY <1>3, <1>4, <3>1
  <2> QED BY <2>2, <2>3 DEF Numbered
<1>7. Listing
  <2>1. port_list = <<>> /\ Len(port_list) = 0 /\ DOMAIN port_list = {} /\ ports_num = 0
    BY SMT DEF PortsInit
  <2>2. Range(port_list) = {}
    BY <2>1 DEF Range
  <2> QED BY <1>3, <2>1, <2>2 DEF Listing, IsInjective
<1>8. Devices
  <2>1. ASSUME NEW no \in Slots, NEW i \in DOMAIN pending.ports PROVE ports[no].netdev # pending.ports[i]
    <3>1. ports[no].netdev = "NULL"
      BY <1>3, <1>4 DEF InUse, Used
    <3>2. pending.ports[i] \in Interfaces
      BY <1>2
    <3> QED BY <3>1, <3>2 DEF PortsAssumption
  <2> QED BY <1>2, <1>3, <1>4, <2>1 DEF Devices
<1>9. EachPort
  BY <1>3, NoPortOK DEF EachPort, PortOK, QueuesOf
<1>10. ClassesAgree
  BY <1>3, <1>4 DEF ClassesAgree
<1>11. LocalQueues
  <2>1. \A q \in Queues : ~NoPort.queues[q].used
    BY SMT DEF NoPort, NoQueue
  <2> QED BY <1>3, <1>4, <2>1 DEF LocalQueues
<1> QED BY <1>5, <1>6, <1>7, <1>8, <1>9, <1>10, <1>11 DEF PortsInv
---------------------------------------------------------------------------
\* The list with one port more.
LEMMA Longer ==
    ASSUME PortsInv, NEW no \in PortNos, no \notin Range(port_list), NEW list,
           list = Append(port_list, no)
    PROVE  /\ list \in Seq(PortNos) /\ Len(list) = Len(port_list) + 1
           /\ Range(list) = Range(port_list) \cup {no} /\ IsInjective(list)
<1>1. port_list \in Seq(PortNos) /\ Len(port_list) \in Nat /\ DOMAIN port_list = 1..Len(port_list)
  BY DEF PortsInv, PortsType
<1>2. /\ list \in Seq(PortNos) /\ Len(list) = Len(port_list) + 1 /\ DOMAIN list = 1..(Len(port_list) + 1)
      /\ list[Len(port_list) + 1] = no /\ \A i \in 1..Len(port_list) : list[i] = port_list[i]
  BY <1>1, SMT
<1>3. DOMAIN list = DOMAIN port_list \cup {Len(port_list) + 1}
  BY <1>1, <1>2, SMT
<1>4. Range(list) = Range(port_list) \cup {no}
  <2>1. \A k \in DOMAIN port_list : k \in DOMAIN list /\ list[k] = port_list[k]
    BY <1>1, <1>2, <1>3
  <2>2. Len(port_list) + 1 \in DOMAIN list
    BY <1>3
  <2>3. ASSUME NEW x \in Range(list) PROVE x \in Range(port_list) \cup {no}
    <3>1. PICK k \in DOMAIN list : x = list[k]
      BY DEF Range
    <3>2. CASE k \in DOMAIN port_list
      BY <2>1, <3>1, <3>2 DEF Range
    <3>3. CASE k = Len(port_list) + 1
      BY <1>2, <3>1, <3>3
    <3> QED BY <1>3, <3>2, <3>3
  <2>4. ASSUME NEW x \in Range(port_list) PROVE x \in Range(list)
    <3>1. PICK k \in DOMAIN port_list : x = port_list[k]
      BY DEF Range
    <3> QED BY <2>1, <3>1 DEF Range
  <2>5. no \in Range(list)
    BY <1>2, <2>2 DEF Range
  <2> QED BY <2>3, <2>4, <2>5
<1>5. IsInjective(list)
  <2> SUFFICES ASSUME NEW i \in DOMAIN list, NEW j \in DOMAIN list, list[i] = list[j] PROVE i = j
    BY DEF IsInjective
  <2>1. \A k \in DOMAIN port_list : port_list[k] # no
    BY DEF Range
  <2>2. IsInjective(port_list)
    BY DEF PortsInv, Listing
  <2> QED BY <1>1, <1>2, <1>3, <2>1, <2>2 DEF IsInjective
<1> QED BY <1>2, <1>4, <1>5

\* The next free slot is the one after those taken.
LEMMA NextSlot ==
    ASSUME PortsAssumption, PortsInv, NEW no \in Slots, ~InUse(no), \A m \in 1..(no - 1) : InUse(m)
    PROVE  no = Taken + 1 /\ Taken \in Nat
<1>1. no \in Nat /\ Taken \in Nat /\ DP_MAX_PORTS \in Nat /\ no <= DP_MAX_PORTS - 1
  BY SMT DEF Slots, PortsAssumption, PortsInv, Numbered
<1>2. ~(no <= Taken)
  BY DEF PortsInv, Numbered
<1>3. ASSUME Taken + 1 < no PROVE FALSE
  <2>1. Taken + 1 \in 1..(no - 1) /\ Taken + 1 \in Slots
    BY <1>1, <1>3, SMT DEF Slots
  <2>2. InUse(Taken + 1)
    BY <2>1
  <2>3. Taken + 1 <= Taken
    BY <2>1, <2>2 DEF PortsInv, Numbered
  <2> QED BY <1>1, <2>3, SMT
<1> QED BY <1>1, <1>2, <1>3, SMT

\* Ports that differ from those there are in nothing but what packets, links and
\* messages change.
AsBefore(f) ==
    /\ f \in [PortNos -> Port]
    /\ \A no \in PortNos : PortOK(f[no]) /\ SameQueues(ports[no], f[no])
\* The devices still to be added, other than name.
StillPending(pend, name) ==
    /\ pend \in [ports : Seq(Interfaces), local : SUBSET Interfaces] /\ IsInjective(pend.ports)
    /\ \A i \in DOMAIN pend.ports :
           /\ pend.ports[i] # name
           /\ \A no \in Slots : ports[no].netdev # pend.ports[i]

LEMMA NewPortStep ==
    ASSUME PortsAssumption, PortsInv, NEW no \in PortNos, ~InUse(no), NEW name \in Interfaces,
           NEW old, AsBefore(old), NEW max_queues,
           max_queues = IF no = OFPP_LOCAL THEN 0 ELSE Slicing,
           new_port(old, no, name, max_queues), UNCHANGED stuck,
           no = OFPP_LOCAL => UNCHANGED pending,
           no # OFPP_LOCAL => /\ no = Taken + 1 /\ Taken \in Nat
                              /\ \A m \in Slots : ports[m].netdev # name
                              /\ StillPending(pending', name)
    PROVE  PortsInv'
<1>1. max_queues \in Nat
  BY DEF PortsAssumption
<1>2. PICK d : d = NewPort(no, name, max_queues) /\ Fresh(d, name, max_queues)
  BY <1>1, NewPortFresh
<1>3. ports' = [old EXCEPT ![no] = d]
  BY <1>2 DEF new_port
<1>4. /\ ports' \in [PortNos -> Port] /\ ports'[no] = d
      /\ \A m \in PortNos \ {no} : ports'[m] = old[m]
  <2>1. d \in Port /\ old \in [PortNos -> Port]
    BY <1>2 DEF Fresh, PortOK, AsBefore
  <2> QED BY <1>3, <2>1
<1>5. d.netdev = name /\ d.max_queues = max_queues /\ PortOK(d) /\ Used(d)
  BY <1>2 DEF Fresh, Used, PortsAssumption
<1>6. ASSUME NEW m \in PortNos, m # no
      PROVE  /\ PortOK(ports'[m]) /\ SameQueues(ports[m], ports'[m])
             /\ ports'[m].netdev = ports[m].netdev /\ (InUse(m)' <=> InUse(m))
  <2>1. ports'[m] = old[m]
    BY <1>4, <1>6
  <2>2. PortOK(ports'[m]) /\ SameQueues(ports[m], ports'[m])
    BY <2>1 DEF AsBefore
  <2> QED BY <2>2 DEF SameQueues, InUse, Used
<1>7. InUse(no)'
  BY <1>4, <1>5 DEF InUse
<1>8. OFPP_LOCAL \in PortNos /\ Slots \subseteq PortNos /\ OFPP_LOCAL \notin Slots
  BY DEF PortNos, PortsAssumption
<1>9. ports_num' = ports_num + 1 /\ ports_num \in Nat /\ port_list' = Append(port_list, no)
  BY DEF new_port, PortsInv, PortsType
<1>10. Numbered'
  <2>1. Taken \in 0..(DP_MAX_PORTS - 1) /\ \A m \in Slots : InUse(m) <=> m <= Taken
    BY DEF PortsInv, Numbered
  <2>2. CASE no = OFPP_LOCAL
    <3>1. Taken = ports_num
      BY <2>2 DEF Taken
    <3>2. Taken' = ports_num' - 1
      BY <1>7, <2>2 DEF Taken
    <3>3. Taken' = Taken
      BY <1>9, <3>1, <3>2, SMT
    <3>4. \A m \in Slots : InUse(m)' <=> InUse(m)
      BY <1>6, <1>8, <2>2
    <3> QED BY <2>1, <3>3, <3>4 DEF Numbered
  <2>3. CASE no # OFPP_LOCAL
    <3>1. InUse(OFPP_LOCAL)' <=> InUse(OFPP_LOCAL)
      BY <1>6, <1>8, <2>3
    <3>2. Taken' = Taken + 1
      <4>1. CASE InUse(OFPP_LOCAL)
        <5>1. Taken = ports_num - 1 /\ Taken' = ports_num' - 1
          BY <3>1, <4>1 DEF Taken
        <5> QED BY <1>9, <5>1, SMT
      <4>2. CASE ~InUse(OFPP_LOCAL)
        <5>1. Taken = ports_num /\ Taken' = ports_num'
          BY <3>1, <4>2 DEF Taken
        <5> QED BY <1>9, <5>1, SMT
      <4> QED BY <4>1, <4>2
    <3>3. no \in Slots /\ no = Taken + 1 /\ Taken \in Nat /\ DP_MAX_PORTS \in Nat
      BY <2>3 DEF PortNos, PortsAssumption
    <3>4. Taken' \in 0..(DP_MAX_PORTS - 1)
      BY <3>2, <3>3, SMT DEF Slots
    <3>5. ASSUME NEW m \in Slots PROVE InUse(m)' <=> m <= Taken'
      <4>1. CASE m = no
        BY <1>7, <3>2, <3>3, <4>1, SMT
      <4>2. CASE m # no
        <5>1. InUse(m)' <=> m <= Taken
          BY <1>6, <1>8, <2>1, <4>2
        <5>2. m \in Nat
          BY <3>3, SMT DEF Slots
        <5>3. m <= Taken <=> m <= Taken'
          BY <3>2, <3>3, <4>2, <5>2, SMT
        <5> QED BY <5>1, <5>3
      <4> QED BY <4>1, <4>2
    <3> QED BY <3>4, <3>5 DEF Numbered
  <2> QED BY <2>2, <2>3
<1>11. port_list' \in Seq(PortNos) /\ Listing'
  <2>1. Range(port_list) = {m \in PortNos : InUse(m)} /\ Len(port_list) = ports_num
    BY DEF PortsInv, Listing
  <2>2. no \notin Range(port_list)
    BY <2>1
  <2>3. /\ port_list' \in Seq(PortNos) /\ Len(port_list') = Len(port_list) + 1
        /\ Range(port_list') = Range(port_list) \cup {no} /\ IsInjective(port_list')
    BY <1>9, <2>2, Longer, ZenonT(30)
  <2>4. {m \in PortNos : InUse(m)'} = {m \in PortNos : InUse(m)} \cup {no}
    BY <1>6, <1>7
  <2> QED BY <1>9, <2>1, <2>3, <2>4 DEF Listing
<1>12. Devices' /\ pending' \in [ports : Seq(Interfaces), local : SUBSET Interfaces]
  <2>1. CASE no = OFPP_LOCAL
    <3>1. \A m \in Slots : ports'[m].netdev = ports[m].netdev /\ (InUse(m)' <=> InUse(m))
      BY <1>6, <1>8, <2>1, SMTT(30)
    <3> QED BY <2>1, <3>1, SMTT(30) DEF PortsInv, PortsType, Devices
  <2>2. CASE no # OFPP_LOCAL
    <3>1. \A m \in Slots \ {no} : ports'[m].netdev = ports[m].netdev /\ (InUse(m)' <=> InUse(m))
      BY <1>6, <1>8, <2>2
    <3>2. ports'[no].netdev = name /\ \A m \in Slots \ {no} : ports'[m].netdev # name
      BY <1>4, <1>5, <2>2, <3>1
    <3>3. StillPending(pending', name)
      BY <2>2, SMTT(30)
    <3>4. \A m \in Slots, i \in DOMAIN pending'.ports : ports'[m].netdev # pending'.ports[i]
      BY <3>1, <3>2, <3>3, SMTT(30) DEF StillPending
    <3>5. \A m, n \in Slots : InUse(m)' /\ ports'[m].netdev = ports'[n].netdev => m = n
      <4> SUFFICES ASSUME NEW m \in Slots, NEW n \in Slots, InUse(m)',
                          ports'[m].netdev = ports'[n].netdev, m # n
                   PROVE  FALSE
        OBVIOUS
      <4>1. m # no /\ n # no
        BY <3>2
      <4> QED BY <3>1, <4>1 DEF PortsInv, Devices
    <3> QED BY <3>3, <3>4, <3>5, SMTT(30) DEF Devices, StillPending
  <2> QED BY <2>1, <2>2
<1>13. EachPort'
  <2> SUFFICES ASSUME NEW m \in PortNos PROVE PortOK(ports'[m]) /\ QueuesOf(m, ports'[m])
    BY DEF EachPort
  <2>1. CASE m = no
    BY <1>4, <1>5, <2>1 DEF QueuesOf
  <2>2. CASE m # no
    <3>1. QueuesOf(m, ports[m])
      BY DEF PortsInv, EachPort
    <3>2. PortOK(ports'[m]) /\ SameQueues(ports[m], ports'[m])
      BY <1>6, <2>2
    <3> QED BY <3>1, <3>2 DEF QueuesOf, SameQueues, Used
  <2> QED BY <2>1, <2>2
<1>14. classes \in [Interfaces -> [Queues -> SUBSET Nat]]
  BY DEF PortsInv, PortsType
<1>15. /\ classes' \in [Interfaces -> [Queues -> SUBSET Nat]]
       /\ \A i \in Interfaces : i # name \/ no = OFPP_LOCAL => classes'[i] = classes[i]
       /\ no # OFPP_LOCAL => \A q \in Queues : classes'[name][q] = {}
  <2>1. CASE max_queues > 0
    <3>1. PICK none : none = [q \in Queues |-> {}]
      BY Zenon
    <3>2. none \in [Queues -> SUBSET Nat] /\ \A q \in Queues : none[q] = {}
      BY <3>1
    <3>3. classes' = [classes EXCEPT ![name] = none]
      BY <2>1, <3>1 DEF new_port, netdev_setup_slicing
    <3>4. no # OFPP_LOCAL
      BY <2>1, SMT
    <3> QED BY <1>14, <3>2, <3>3, <3>4
  <2>2. CASE ~(max_queues > 0)
    <3>1. classes' = classes
      BY <2>2 DEF new_port
    <3>2. no # OFPP_LOCAL => Queues = {}
      <4> SUFFICES ASSUME no # OFPP_LOCAL PROVE Queues = {}
        OBVIOUS
      <4>1. Slicing = 0
        BY <1>1, <2>2, SMTT(30)
      <4> QED BY <4>1, SMT DEF Queues
    <3> QED BY <1>14, <3>1, <3>2
  <2> QED BY <2>1, <2>2
<1>16. ClassesAgree'
  <2> SUFFICES ASSUME NEW m \in Slots, InUse(m)', NEW q \in Queues,
                      <<ports'[m].netdev, q>> \notin stuck', classes'[ports'[m].netdev][q] # {}
               PROVE  ports'[m].queues[q].used /\ classes'[ports'[m].netdev][q] = {ports'[m].queues[q].rate}
    BY SMTT(30) DEF ClassesAgree, Agree
  <2>1. m # no
    BY <1>4, <1>5, <1>8, <1>15, SMTT(30)
  <2>2. m \in PortNos /\ ports'[m].netdev = ports[m].netdev /\ InUse(m) /\ SameQueues(ports[m], ports'[m])
    BY <1>6, <1>8, <2>1, SMTT(30)
  <2>3. ports[m].netdev \in Interfaces
    BY <2>2 DEF PortsInv, EachPort, PortOK, InUse, Sound
  <2>4. classes'[ports[m].netdev] = classes[ports[m].netdev]
    BY <1>15, <2>3, SMTT(30)
  <2>5. Agree(ports[m], classes, stuck)
    BY <2>2 DEF PortsInv, ClassesAgree
  <2>6. ports[m].queues[q].used /\ classes[ports[m].netdev][q] = {ports[m].queues[q].rate}
    BY <2>2, <2>4, <2>5, Zenon DEF Agree
  <2> QED BY <2>2, <2>4, <2>6, Zenon DEF SameQueues
<1>17. PortsType'
  <2>1. ports_num' \in Nat
    BY <1>9, SMT
  <2> QED BY <1>4, <1>11, <1>12, <1>15, <2>1, Zenon DEF PortsType
<1>18. LocalQueues'
  <2>1. CASE no = OFPP_LOCAL
    BY <1>2, <1>4, <2>1 DEF Fresh, LocalQueues
  <2>2. CASE no # OFPP_LOCAL
    <3>1. SameQueues(ports[OFPP_LOCAL], ports'[OFPP_LOCAL])
      BY <1>6, <1>8, <2>2
    <3> QED BY <3>1 DEF SameQueues, PortsInv, LocalQueues
  <2> QED BY <2>1, <2>2
<1> QED BY <1>10, <1>11, <1>12, <1>13, <1>16, <1>17, <1>18 DEF PortsInv
---------------------------------------------------------------------------
LEMMA SamePorts == ASSUME PortsInv PROVE AsBefore(ports)
  BY DEF PortsInv, PortsType, EachPort, AsBefore, SameQueues

\* The first of a sequence without repetitions is not among the others.
LEMMA RestOf ==
    ASSUME NEW s \in Seq(Interfaces), s # <<>>, IsInjective(s)
    PROVE  /\ Head(s) \in Interfaces /\ Head(s) = s[1] /\ 1 \in DOMAIN s
           /\ Tail(s) \in Seq(Interfaces) /\ IsInjective(Tail(s))
           /\ \A i \in DOMAIN Tail(s) : Tail(s)[i] # Head(s) /\ \E j \in DOMAIN s : Tail(s)[i] = s[j]
<1>1. /\ Len(s) \in Nat /\ Len(s) >= 1 /\ DOMAIN s = 1..Len(s) /\ Head(s) = s[1]
      /\ Head(s) \in Interfaces
  BY SMT
<1>2. PICK t : t = Tail(s)
  BY Zenon
<1>3. /\ t \in Seq(Interfaces) /\ Len(t) = Len(s) - 1 /\ DOMAIN t = 1..(Len(s) - 1)
      /\ \A i \in 1..(Len(s) - 1) : t[i] = s[i + 1]
  BY <1>1, <1>2, SMT
<1>4. ASSUME NEW i \in DOMAIN t PROVE i + 1 \in DOMAIN s /\ i + 1 # 1 /\ t[i] = s[i + 1] /\ i \in Nat
  BY <1>1, <1>3, SMT
<1>5. 1 \in DOMAIN s
  BY <1>1, SMT
<1>6. IsInjective(t)
  <2> SUFFICES ASSUME NEW i \in DOMAIN t, NEW j \in DOMAIN t, t[i] = t[j] PROVE i = j
    BY DEF IsInjective
  <2>1. i + 1 = j + 1
    BY <1>4 DEF IsInjective
  <2> QED BY <1>4, <2>1, SMT
<1>7. ASSUME NEW i \in DOMAIN t PROVE t[i] # Head(s) /\ \E j \in DOMAIN s : t[i] = s[j]
  BY <1>1, <1>4, <1>5 DEF IsInjective
<1> QED BY <1>1, <1>2, <1>3, <1>5, <1>6, <1>7

LEMMA AddPortsInv == ASSUME PortsAssumption, PortsInv, add_ports PROVE PortsInv'
<1>1. CASE Fatal
  BY <1>1, PhaseInv DEF Fatal
<1>2. CASE ~Fatal
  <2>1. /\ pending.ports # <<>> /\ dp_ports_add(Head(pending.ports))
        /\ pending' = [pending EXCEPT !.ports = Tail(@)] /\ UNCHANGED stuck
    BY <1>2 DEF add_ports
  <2>2. PICK s : s = pending.ports
    OBVIOUS
  <2>3. PICK name : name = Head(s)
    OBVIOUS
  <2>4. /\ s \in Seq(Interfaces) /\ IsInjective(s) /\ pending.local \in SUBSET Interfaces
        /\ \A no \in Slots, i \in DOMAIN s : ports[no].netdev # s[i]
    BY <2>2 DEF PortsInv, PortsType, Devices
  <2>5. /\ name \in Interfaces /\ name = s[1] /\ 1 \in DOMAIN s
        /\ Tail(s) \in Seq(Interfaces) /\ IsInjective(Tail(s))
        /\ \A i \in DOMAIN Tail(s) : Tail(s)[i] # name /\ \E j \in DOMAIN s : Tail(s)[i] = s[j]
    BY <2>1, <2>2, <2>3, <2>4, RestOf
  <2>6. /\ pending'.ports = Tail(s)
        /\ pending' \in [ports : Seq(Interfaces), local : SUBSET Interfaces]
    <3>1. pending \in [ports : Seq(Interfaces), local : SUBSET Interfaces]
      BY DEF PortsInv, PortsType
    <3>2. pending' = [pending EXCEPT !.ports = Tail(s)]
      BY <2>1, <2>2
    <3> QED BY <2>5, <3>1, <3>2, Zenon
  <2>7. StillPending(pending', name)
    BY <2>4, <2>5, <2>6 DEF StillPending
  <2>8. \A m \in Slots : ports[m].netdev # name
    BY <2>4, <2>5
  <2>9. PICK no \in Slots : /\ ~InUse(no) /\ \A m \in 1..(no - 1) : InUse(m)
                            /\ new_port(ports, no, name, Slicing)
    BY <2>1, <2>2, <2>3 DEF dp_ports_add
  <2>10. no = Taken + 1 /\ Taken \in Nat /\ no # OFPP_LOCAL /\ no \in PortNos
    BY <2>9, NextSlot DEF PortsAssumption, PortNos
  <2>11. AsBefore(ports)
    BY SamePorts
  <2> QED BY <2>1, <2>5, <2>7, <2>8, <2>9, <2>10, <2>11, NewPortStep, Zenon
<1> QED BY <1>1, <1>2

LEMMA LocalPortInv ==
    ASSUME PortsAssumption, PortsInv, NEW old, AsBefore(old), NEW name \in Interfaces,
           dp_ports_add_local(old, name), UNCHANGED <<pending, stuck>>
    PROVE  PortsInv'
<1>1. OFPP_LOCAL \in PortNos
  BY DEF PortNos
<1> QED BY <1>1, NewPortStep DEF dp_ports_add_local

LEMMA MainInv == ASSUME PortsAssumption, PortsInv, main PROVE PortsInv'
<1>1. CASE UNCHANGED <<pending, ports, port_list, ports_num, classes, stuck>>
  BY <1>1, PhaseInv
<1>2. CASE ~UNCHANGED <<pending, ports, port_list, ports_num, classes, stuck>>
  <2>1. PICK name \in pending.local : dp_ports_add_local(ports, name) /\ UNCHANGED <<pending, stuck>>
    BY <1>2 DEF main, Fatal
  <2>2. name \in Interfaces
    BY <2>1 DEF PortsInv, PortsType
  <2> QED BY <2>1, <2>2, SamePorts, LocalPortInv
<1> QED BY <1>1, <1>2

LEMMA EhddpInv ==
    ASSUME PortsAssumption, PortsInv, NEW in_port, NEW first, ehddp_mod_local_port(in_port, first)
    PROVE  PortsInv'
<1>1. in_port \in PortNos /\ PortOK(ports[in_port]) /\ Used(ports[in_port])
  BY InList, PortIsOK DEF ehddp_mod_local_port
<1>2. UNCHANGED <<pending, stuck>>
  BY DEF ehddp_mod_local_port
<1>3. PICK told : told = dp_ports_handle_port_mod_UAH(in_port)
  OBVIOUS
<1>4. AsBefore(told)
  <2>1. PICK d : d = Announced(ports[in_port])
    OBVIOUS
  <2>2. d \in Port /\ SameCounts(ports[in_port], d) /\ d.told = d.config /\ LiveAsItIs(d)
    BY <1>1, <2>1, Status DEF PortOK, Sound
  <2>3. PortOK(d) /\ SameQueues(ports[in_port], d)
    BY <1>1, <2>2, StillOK
  <2>4. told = [ports EXCEPT ![in_port] = d] /\ ports \in [PortNos -> Port]
    BY <1>3, <2>1 DEF dp_ports_handle_port_mod_UAH, PortsInv, PortsType
  <2>5. /\ told \in [PortNos -> Port] /\ told[in_port] = d
        /\ \A m \in PortNos \ {in_port} : told[m] = ports[m]
    BY <1>1, <2>2, <2>4
  <2>6. ASSUME NEW m \in PortNos PROVE PortOK(told[m]) /\ SameQueues(ports[m], told[m])
    <3>1. CASE m = in_port
      BY <2>3, <2>5, <3>1
    <3>2. CASE m # in_port
      <4>1. told[m] = ports[m]
        BY <2>5, <3>2
      <4> QED BY <4>1 DEF PortsInv, EachPort, SameQueues
    <3> QED BY <3>1, <3>2
  <2> QED BY <2>5, <2>6 DEF AsBefore
<1>5. PICK old : AsBefore(old) /\ configure_new_local_port_ehddp_UAH(old, first)
  BY <1>3, <1>4, SamePorts DEF ehddp_mod_local_port
<1>6. PICK p \in dp_ports_lookup(first) : dp_ports_add_local(old, ports[p].netdev)
  BY <1>5 DEF configure_new_local_port_ehddp_UAH
<1>7. p \in PortNos /\ InUse(p)
  BY <1>6, Lookup
<1>8. ports[p].netdev \in Interfaces
  BY <1>7, PortIsOK DEF PortOK, Sound
<1> QED BY <1>2, <1>5, <1>6, <1>8, LocalPortInv

LEMMA RequestInv ==
    ASSUME PortsAssumption, PortsInv, NEW msg \in PortRequests, PortRequest(msg) PROVE PortsInv'
<1>1. CASE msg.type = "PORT_MOD" /\ dp_ports_handle_port_mod(msg)
  BY <1>1, PortModInv
<1>2. CASE msg.type = "QUEUE_MODIFY" /\ dp_ports_handle_queue_modify(msg)
  BY <1>2, QueueModifyInv
<1>3. CASE msg.type = "QUEUE_DELETE" /\ dp_ports_handle_queue_delete(msg)
  BY <1>3, QueueDeleteInv
<1> QED BY <1>1, <1>2, <1>3 DEF PortRequest

\* Whatever ports -i and -L name, whatever requests, packets, link changes and
\* failures of tc come, and whenever EHDDP adds the local port: the ports and
\* queues are as the replies and PORT_STATUS messages of dp_ports.c report them,
\* and a flood never leaves through the device it came in by.
THEOREM PortsReported == ASSUME PortsAssumption PROVE PortsSpec => []PortsAsReported
<1>1. PortsInit => PortsInv
  BY InitInv
<1>2. PortsInv /\ [PortsNext]_portVars => PortsInv'
  <2> SUFFICES ASSUME PortsInv, [PortsNext]_portVars PROVE PortsInv'
    OBVIOUS
  <2>1. CASE add_ports
    BY <2>1, AddPortsInv
  <2>2. CASE main
    BY <2>2, MainInv
  <2>3. ASSUME NEW in_port \in Slots, NEW first \in Slots, ehddp_mod_local_port(in_port, first)
        PROVE  PortsInv'
    BY <2>3, EhddpInv
  <2>4. ASSUME NEW msg \in PortRequests, PortRequest(msg) PROVE PortsInv'
    BY <2>4, RequestInv
  <2>5. ASSUME NEW no \in PortNos, dp_ports_run(no) PROVE PortsInv'
    BY <2>5, RunInv
  <2>6. ASSUME NEW no \in PortNos, NEW q \in Queues, dp_ports_output(no, q) PROVE PortsInv'
    BY <2>6, OutputToInv DEF dp_ports_output
  <2>7. ASSUME NEW no, NEW flood, dp_ports_output_all(no, flood) PROVE PortsInv'
    BY <2>7, OutputToInv DEF dp_ports_output_all
  <2>8. CASE UNCHANGED portVars
    BY <2>8, StutterInv
  <2> QED BY <2>1, <2>2, <2>3, <2>4, <2>5, <2>6, <2>7, <2>8 DEF PortsNext
<1>3. PortsInv => PortsAsReported
  BY PortsInvReports
<1> QED BY <1>1, <1>2, <1>3, PTL DEF PortsSpec
=============================================================================
