--------------------------- MODULE ArpPathProofs ---------------------------
(***************************************************************************)
(* pipeline_arp_path() sends no frame round a loop, in any network.        *)
(*                                                                         *)
(* The invariant (Kept) is about the ports the tables lead to: the port of *)
(* a host leads to the host or to a switch that knows it (Led), the way    *)
(* from switch to switch to a host has no loop (Trees), every frame under  *)
(* way came from a switch that knows its source (WireOK), a unicast frame  *)
(* is on the way to its destination behind the switches it has been at     *)
(* (Straight), and the copy a switch flooded is the one that came on the   *)
(* port it has locked (Locked).  A switch that learns a port puts itself   *)
(* below the end of a way: no switch that knows the host leads to it.      *)
(***************************************************************************)
EXTENDS ArpPath, NetworkLemmas

USE Zenon

-----------------------------------------------------------------------------
(* The learning table of one switch.                                       *)

Host == DOMAIN Hosts
Entry == [mac : Host, port_in : Nat \ {0}, left : Int, num_sec : {0}]

\* A table none of whose entries has expired.
Valid(t) == t \in Seq(Entry) /\ \A i \in 1 .. Len(t) : t[i].left >= 0

\* Where the switch sends frames for d: -1 when it does not know.
Port(t, d) == mac_to_port_found_port(t, d, 0)

\* i is the first entry of d.
First(t, d, i) == t[i].mac = d /\ \A j \in 1 .. i - 1 : t[j].mac # d

\* A table in which one entry is rewritten.
LEMMA Rewritten ==
    ASSUME NEW S, NEW t \in Seq(S), NEW i \in 1 .. Len(t), NEW r \in S
    PROVE  /\ [t EXCEPT ![i] = r] \in Seq(S) /\ Len([t EXCEPT ![i] = r]) = Len(t)
           /\ \A k \in 1 .. Len(t) : [t EXCEPT ![i] = r][k] = IF k = i THEN r ELSE t[k]
BY SMT

\* An entry with another time.
LEMMA EntryLeft ==
    ASSUME NEW e \in Entry, NEW l \in Int
    PROVE  /\ [e EXCEPT !.left = l] \in Entry /\ [e EXCEPT !.left = l].left = l
           /\ [e EXCEPT !.left = l].mac = e.mac /\ [e EXCEPT !.left = l].port_in = e.port_in
BY SMT DEF Entry

\* An entry whose num_sec is zero stays what it is when it is set to zero.
LEMMA EntrySame ==
    ASSUME NEW e \in Entry
    PROVE  [e EXCEPT !.num_sec = 0] = e /\ e.left \in Int /\ e.port_in \in Nat \ {0} /\ e.num_sec = 0
BY SMT DEF Entry

\* Position() finds the first entry.
LEMMA PositionFirst ==
    ASSUME NEW t, Len(t) \in Nat, NEW d, NEW i \in 1 .. Len(t), First(t, d, i)
    PROVE  Position(t, d) = i
<1>. DEFINE P(k) == t[k].mac = d /\ \A j \in 1 .. k - 1 : t[j].mac # d
<1>1. Position(t, d) = CHOOSE k \in 1 .. Len(t) : P(k)
  BY DEF Position, First
<1>2. P(i)
  BY DEF First
<1>3. ASSUME NEW k \in 1 .. Len(t), P(k) PROVE k = i
  BY <1>2, <1>3, SMT
<1>. HIDE DEF P
<1>. QED
  BY <1>1, <1>2, <1>3

\* A table has a first entry of d, or none.
LEMMA FirstOrNone ==
    ASSUME NEW t, Len(t) \in Nat, NEW d
    PROVE  \/ \A i \in 1 .. Len(t) : t[i].mac # d
           \/ \E i \in 1 .. Len(t) : First(t, d, i)
<1>. DEFINE T == {i \in 1 .. Len(t) : t[i].mac = d}
<1>1. SUFFICES ASSUME T # {} PROVE \E i \in 1 .. Len(t) : First(t, d, i)
  OBVIOUS
<1>2. T \subseteq Nat
  BY SMT
<1>3. PICK x \in T : \A y \in T : x <= y
  BY <1>1, <1>2, LeastNumber
<1>4. x \in 1 .. Len(t) /\ t[x].mac = d
  OBVIOUS
<1>5. ASSUME NEW j \in 1 .. x - 1 PROVE t[j].mac # d
  <2>1. j \in 1 .. Len(t) /\ ~(x <= j)
    BY <1>4, SMT
  <2>. QED
    BY <1>3, <2>1
<1>. QED
  BY <1>4, <1>5 DEF First

\* In a valid table the port is that of the first entry; it is never 0.
LEMMA PortFirst ==
    ASSUME NEW t, Valid(t), NEW d
    PROVE  /\ Port(t, d) = -1 <=> \A i \in 1 .. Len(t) : t[i].mac # d
           /\ Port(t, d) = -1 \/ Port(t, d) \in Nat \ {0}
           /\ \A i \in 1 .. Len(t) : First(t, d, i) => Port(t, d) = t[i].port_in
<1>1. Len(t) \in Nat /\ \A i \in 1 .. Len(t) : t[i] \in Entry
  BY SMT DEF Valid
<1>2. ASSUME NEW i \in 1 .. Len(t), First(t, d, i)
      PROVE  Port(t, d) = t[i].port_in /\ t[i].port_in \in Nat \ {0} /\ t[i].mac = d
  <2>1. Position(t, d) = i
    BY <1>1, <1>2, PositionFirst
  <2>2. t[i].left >= 0 /\ t[i].num_sec = 0 /\ t[i].port_in \in Nat \ {0} /\ t[i].mac = d
    BY <1>1, <1>2, SMT DEF Valid, Entry, First
  <2>3. i # 0
    BY SMT
  <2>4. Port(t, d) = t[i].port_in
    BY <2>1, <2>2, <2>3 DEF Port, mac_to_port_found_port
  <2>. QED
    BY <2>2, <2>4
<1>3. ASSUME \A i \in 1 .. Len(t) : t[i].mac # d PROVE Port(t, d) = -1
  <2>1. Position(t, d) = 0
    BY <1>3 DEF Position
  <2>. QED
    BY <2>1 DEF Port, mac_to_port_found_port
<1>4. \A p \in Nat \ {0} : p # -1
  BY SMT
<1>5. CASE \A i \in 1 .. Len(t) : t[i].mac # d
  BY <1>3, <1>5, <1>2
<1>6. CASE \E i \in 1 .. Len(t) : First(t, d, i)
  BY <1>6, <1>2, <1>4
<1>. QED
  BY <1>1, <1>5, <1>6, FirstOrNone

\* The port found is that of the first entry.
LEMMA PortIs ==
    ASSUME NEW t, Valid(t), NEW d, NEW i \in 1 .. Len(t), First(t, d, i)
    PROVE  Port(t, d) = t[i].port_in
<1>1. \A k \in 1 .. Len(t) : First(t, d, k) => Port(t, d) = t[k].port_in
  BY PortFirst
<1>. QED
  BY <1>1

\* Tables that agree on MAC and port have the same ports.
LEMMA SamePort ==
    ASSUME NEW t, Valid(t), NEW u, Valid(u), Len(u) = Len(t),
           \A i \in 1 .. Len(t) : u[i].mac = t[i].mac /\ u[i].port_in = t[i].port_in
    PROVE  \A d : Port(u, d) = Port(t, d)
<1>. TAKE d
<1>1. Len(t) \in Nat
  BY SMT DEF Valid
<1>2. CASE \A i \in 1 .. Len(t) : t[i].mac # d
  <2>1. \A i \in 1 .. Len(u) : u[i].mac # d
    BY <1>2
  <2>2. Port(u, d) = -1
    BY <2>1, PortFirst
  <2>3. Port(t, d) = -1
    BY <1>2, PortFirst
  <2>. QED
    BY <2>2, <2>3
<1>3. CASE \E i \in 1 .. Len(t) : First(t, d, i)
  <2>1. PICK i \in 1 .. Len(t) : First(t, d, i)
    BY <1>3
  <2>2. \A j \in 1 .. i - 1 : j \in 1 .. Len(t)
    BY <1>1, SMT
  <2>3. First(u, d, i) /\ i \in 1 .. Len(u)
    BY <2>1, <2>2 DEF First
  <2>4. Port(u, d) = u[i].port_in
    BY <2>3, PortIs
  <2>5. Port(t, d) = t[i].port_in
    BY <2>1, PortIs
  <2>. QED
    BY <2>4, <2>5
<1>. QED
  BY <1>1, <1>2, <1>3, FirstOrNone

\* A host that is added gets the port, and no other host's port changes.
LEMMA AddPort ==
    ASSUME NEW t, Valid(t), NEW d \in Host, NEW p \in Nat \ {0}, LT_TIME \in Nat,
           Port(t, d) = -1, NEW u, u = mac_to_port_add(t, d, p, LT_TIME, 0)
    PROVE  Valid(u) /\ Port(u, d) = p /\ \A g : g # d => Port(u, g) = Port(t, g)
<1>. DEFINE e == [mac |-> d, port_in |-> p, left |-> LT_TIME, num_sec |-> 0]
<1>1. e \in Entry /\ e.left >= 0 /\ e.mac = d /\ e.port_in = p
  BY SMT DEF Entry
<1>2. u = Append(t, e)
  BY DEF mac_to_port_add
<1>. HIDE DEF e
<1>3. /\ u \in Seq(Entry) /\ Len(u) = Len(t) + 1 /\ Len(t) \in Nat
      /\ u[Len(t) + 1] = e /\ \A i \in 1 .. Len(t) : u[i] = t[i]
  BY <1>1, <1>2, SMT DEF Valid
<1>4. \A i \in 1 .. Len(u) : i = Len(t) + 1 \/ i \in 1 .. Len(t)
  BY <1>3, SMT
<1>5. Len(t) + 1 \in 1 .. Len(u) /\ Len(u) \in Nat /\ (Len(t) + 1) - 1 = Len(t) /\ \A i \in 1 .. Len(t) : i \in 1 .. Len(u)
  BY <1>3, SMT
<1>6. Valid(u)
  BY <1>1, <1>3, <1>4 DEF Valid
<1>7. Port(u, d) = p
  <2>1. \A i \in 1 .. Len(t) : t[i].mac # d
    BY PortFirst
  <2>2. First(u, d, Len(t) + 1)
    BY <2>1, <1>1, <1>3, <1>5 DEF First
  <2>3. Port(u, d) = u[Len(t) + 1].port_in
    BY <2>2, <1>5, <1>6, PortIs
  <2>. QED
    BY <2>3, <1>1, <1>3
<1>8. ASSUME NEW g, g # d PROVE Port(u, g) = Port(t, g)
  <2>1. CASE \A i \in 1 .. Len(t) : t[i].mac # g
    <3>1. \A i \in 1 .. Len(u) : u[i].mac # g
      BY <2>1, <1>1, <1>3, <1>4, <1>8
    <3>. QED
      BY <2>1, <3>1, <1>6, PortFirst
  <2>2. CASE \E i \in 1 .. Len(t) : First(t, g, i)
    <3>1. PICK i \in 1 .. Len(t) : First(t, g, i)
      BY <2>2
    <3>2. \A j \in 1 .. i - 1 : j \in 1 .. Len(t)
      BY <1>3, SMT
    <3>3. First(u, g, i) /\ i \in 1 .. Len(u)
      BY <3>1, <3>2, <1>3, <1>5 DEF First
    <3>4. Port(u, g) = u[i].port_in
      BY <3>3, <1>6, PortIs
    <3>5. Port(t, g) = t[i].port_in
      BY <3>1, PortIs
    <3>. QED
      BY <3>4, <3>5, <1>3
  <2>. QED
    BY <1>3, <2>1, <2>2, FirstOrNone
<1>. QED
  BY <1>6, <1>7, <1>8

\* An entry that is refreshed keeps its port.
LEMMA RefreshPort ==
    ASSUME NEW t, Valid(t), NEW d, LT_TIME \in Nat,
           NEW u, u = mac_to_port_time_refresh(t, d, LT_TIME, 0)
    PROVE  Valid(u) /\ \A g : Port(u, g) = Port(t, g)
<1>1. Len(t) \in Nat /\ \A i \in 1 .. Len(t) : t[i] \in Entry
  BY SMT DEF Valid
<1>2. CASE \A i \in 1 .. Len(t) : t[i].mac # d
  <2>1. Position(t, d) = 0
    BY <1>2 DEF Position
  <2>2. u = t
    BY <2>1 DEF mac_to_port_time_refresh
  <2>. QED
    BY <2>2
<1>3. CASE \E i \in 1 .. Len(t) : First(t, d, i)
  <2>1. PICK i \in 1 .. Len(t) : First(t, d, i)
    BY <1>3
  <2>2. Position(t, d) = i /\ i # 0
    <3>1. i # 0
      BY SMT
    <3>. QED
      BY <1>1, <2>1, <3>1, PositionFirst
  <2>3. u = [t EXCEPT ![i].num_sec = 0, ![i].left = Later(@, LT_TIME)]
    BY <2>2 DEF mac_to_port_time_refresh
  <2>4. t[i] \in Entry /\ t[i].left >= 0 /\ t \in Seq(Entry) /\ DOMAIN t = 1 .. Len(t) /\ t = [k \in DOMAIN t |-> t[k]]
    <3>1. t \in Seq(Entry) /\ t[i] \in Entry /\ t[i].left >= 0
      BY <1>1 DEF Valid
    <3>. QED
      BY <3>1, SMT
  <2>5. PICK r : r = [t[i] EXCEPT !.left = Later(t[i].left, LT_TIME)]
    OBVIOUS
  <2>6. r \in Entry /\ r.mac = t[i].mac /\ r.port_in = t[i].port_in /\ r.left >= 0
    <3>1. t[i].left \in Int
      BY <2>4, EntrySame
    <3>2. Later(t[i].left, LT_TIME) \in Int /\ Later(t[i].left, LT_TIME) >= 0
      BY <2>4, <3>1, SMT DEF Later
    <3>. QED
      BY <2>4, <2>5, <3>2, EntryLeft
  <2>7. /\ u \in Seq(Entry) /\ Len(u) = Len(t) /\ u[i] = r
        /\ \A k \in 1 .. Len(t) : k # i => u[k] = t[k]
    <3>1. [t[i] EXCEPT !.num_sec = 0] = t[i]
      BY <2>4, EntrySame
    <3>2. [t EXCEPT ![i] = t[i]] = t
      BY <2>4
    <3>3. u = [t EXCEPT ![i] = r]
      BY <2>3, <2>5, <3>1, <3>2
    <3>4. /\ [t EXCEPT ![i] = r] \in Seq(Entry) /\ Len([t EXCEPT ![i] = r]) = Len(t)
          /\ \A k \in 1 .. Len(t) : [t EXCEPT ![i] = r][k] = IF k = i THEN r ELSE t[k]
      BY <2>4, <2>6, Rewritten
    <3>. QED
      BY <3>3, <3>4
  <2>8. \A k \in 1 .. Len(t) : /\ u[k] \in Entry /\ u[k].left >= 0
                               /\ u[k].mac = t[k].mac /\ u[k].port_in = t[k].port_in
    BY <1>1, <2>6, <2>7 DEF Valid
  <2>9. Valid(u)
    BY <2>7, <2>8 DEF Valid
  <2>10. \A g : Port(u, g) = Port(t, g)
    BY <2>7, <2>8, <2>9, SamePort
  <2>. QED
    BY <2>9, <2>10
<1>. QED
  BY <1>1, <1>2, <1>3, FirstOrNone

\* A tick that lets no entry expire changes no port.
LEMMA TickPort ==
    ASSUME NEW t, Valid(t), NEW u,
           u = [i \in DOMAIN t |-> [t[i] EXCEPT !.left = IF @ >= 0 THEN @ - 1 ELSE @]],
           \A i \in DOMAIN u : u[i].left # EXPIRED
    PROVE  Valid(u) /\ \A g : Port(u, g) = Port(t, g)
<1>1. Len(t) \in Nat /\ DOMAIN t = 1 .. Len(t) /\ \A i \in 1 .. Len(t) : t[i] \in Entry /\ t[i].left >= 0
  BY SMT DEF Valid
<1>2. ASSUME NEW i \in 1 .. Len(t)
      PROVE  /\ u[i] \in Entry /\ u[i].left >= 0
             /\ u[i].mac = t[i].mac /\ u[i].port_in = t[i].port_in
  <2>1. t[i] \in Entry /\ t[i].left >= 0 /\ t[i].left \in Int
    BY <1>1, EntrySame
  <2>2. u[i] = [t[i] EXCEPT !.left = t[i].left - 1] /\ u[i].left # -1
    BY <1>1, <2>1 DEF EXPIRED
  <2>3. t[i].left - 1 \in Int
    BY <2>1, SMT
  <2>4. u[i] \in Entry /\ u[i].left = t[i].left - 1 /\ u[i].mac = t[i].mac /\ u[i].port_in = t[i].port_in
    <3>1. PICK e : e = t[i]
      OBVIOUS
    <3>2. PICK l : l = t[i].left - 1
      OBVIOUS
    <3>3. /\ [e EXCEPT !.left = l] \in Entry /\ [e EXCEPT !.left = l].left = l
          /\ [e EXCEPT !.left = l].mac = e.mac /\ [e EXCEPT !.left = l].port_in = e.port_in
      <4>1. e \in Entry /\ l \in Int
        BY <2>1, <2>3, <3>1, <3>2
      <4>. QED
        BY ONLY <4>1, EntryLeft
    <3>4. u[i] = [e EXCEPT !.left = l]
      BY <2>2, <3>1, <3>2
    <3>. QED
      BY <3>1, <3>2, <3>3, <3>4
  <2>5. u[i].left >= 0
    BY <2>1, <2>2, <2>4, SMT
  <2>. QED
    BY <2>4, <2>5
<1>3. u \in Seq(Entry) /\ Len(u) = Len(t)
  <2>1. u = [k \in 1 .. Len(t) |-> u[k]]
    BY <1>1
  <2>2. \A k \in 1 .. Len(t) : u[k] \in Entry
    BY <1>2
  <2>. HIDE DEF Entry
  <2>. QED
    BY <1>1, <2>1, <2>2, SMT
<1>4. Valid(u)
  BY <1>2, <1>3 DEF Valid
<1>5. \A i \in 1 .. Len(t) : u[i].mac = t[i].mac /\ u[i].port_in = t[i].port_in
  BY <1>2
<1>6. \A g : Port(u, g) = Port(t, g)
  BY <1>3, <1>4, <1>5, SamePort
<1>. QED
  BY <1>4, <1>6

\* An entry that has not expired is not updated by a reply.
LEMMA NoTimeout ==
    ASSUME NEW t, Valid(t), NEW d PROVE mac_to_port_check_timeout(t, d) # 1
<1>1. Len(t) \in Nat
  BY SMT DEF Valid
<1>2. CASE \A i \in 1 .. Len(t) : t[i].mac # d
  <2>1. Position(t, d) = 0
    BY <1>2 DEF Position
  <2>. QED
    BY <2>1, SMT DEF mac_to_port_check_timeout
<1>3. CASE \E i \in 1 .. Len(t) : First(t, d, i)
  <2>1. PICK i \in 1 .. Len(t) : First(t, d, i)
    BY <1>3
  <2>2. Position(t, d) = i
    BY <1>1, <2>1, PositionFirst
  <2>3. t[i].left \in Int /\ t[i].left >= 0 /\ i # 0
    <3>1. t[i] \in Entry /\ t[i].left >= 0 /\ i # 0
      BY SMT DEF Valid
    <3>. QED
      BY <3>1, EntrySame
  <2>. QED
    BY <2>2, <2>3, SMT DEF mac_to_port_check_timeout
<1>. QED
  BY <1>1, <1>2, <1>3, FirstOrNone

\* u has the ports of t.
Same(t, u) == Valid(u) /\ \A g : Port(u, g) = Port(t, g)

\* u has the ports of t and port p for d, which t does not know.
Adds(t, u, d, p) ==
    Valid(u) /\ Port(t, d) = -1 /\ Port(u, d) = p /\ \A g : g # d => Port(u, g) = Port(t, g)

\* mac_to_port_add() adds the port of a host that is not known.
LEMMA AddAdds ==
    ASSUME NEW t, Valid(t), NEW d \in Host, NEW p \in Nat \ {0}, LT_TIME \in Nat, Port(t, d) = -1
    PROVE  Adds(t, mac_to_port_add(t, d, p, LT_TIME, 0), d, p)
<1>1. PICK u : u = mac_to_port_add(t, d, p, LT_TIME, 0)
  OBVIOUS
<1>2. Valid(u) /\ Port(u, d) = p /\ \A g : g # d => Port(u, g) = Port(t, g)
  BY <1>1, AddPort, SMT
<1>. QED
  BY <1>1, <1>2 DEF Adds

\* mac_to_port_time_refresh() leaves the ports.
LEMMA RefreshSame ==
    ASSUME NEW t, Valid(t), NEW d, LT_TIME \in Nat
    PROVE  Same(t, mac_to_port_time_refresh(t, d, LT_TIME, 0))
<1>1. PICK u : u = mac_to_port_time_refresh(t, d, LT_TIME, 0)
  OBVIOUS
<1>2. Valid(u) /\ \A g : Port(u, g) = Port(t, g)
  BY <1>1, RefreshPort
<1>. QED
  BY <1>1, <1>2 DEF Same

-----------------------------------------------------------------------------
(* The ports of all switches.                                              *)

Nodes == {e[1] : e \in Ends} \cup Switches

\* P[s][d] is the port by which switch s sends frames for host d, -1 when it has none.
PortTables == [Switches -> [Host -> Int]]

\* From node to node to host d.
Way(P, d) == [s \in {q \in Switches : P[q][d] # -1} |-> Peer[<<s, P[s][d]>>][1]]

\* What comes to end e comes from host d itself or from a switch that knows it.
Origin(P, e, d) ==
    \/ Peer[e] = Hosts[d]
    \/ Peer[e][1] \in Switches /\ P[Peer[e][1]][d] # -1

Led(P) ==
    \A s \in Switches, d \in Host :
        P[s][d] # -1 => <<s, P[s][d]>> \in Ends /\ Origin(P, <<s, P[s][d]>>, d)

\* No way to a host comes to a switch twice.
NoLoop(w) == \A k \in DOMAIN w : ~Below(Nodes, w, w[k], k)
Trees(P) == \A d \in Host : NoLoop(Way(P, d))

\* Node n is on the way to d behind switch q.
OnWay(P, d, q, n) == q \in DOMAIN Way(P, d) /\ Below(Nodes, Way(P, d), Way(P, d)[q], n)

\* Switch s learns port `in' for host g.
Learns(P, P2, s, g, in) ==
    /\ P \in PortTables /\ P2 \in PortTables
    /\ s \in Switches /\ g \in Host /\ <<s, in>> \in Ends
    /\ P[s][g] = -1 /\ P2[s][g] = in /\ Origin(P, <<s, in>>, g)
    /\ \A q \in Switches, d \in Host : q # s \/ d # g => P2[q][d] = P[q][d]

\* What a network is, for one of its ends.
LEMMA EndFacts ==
    ASSUME Network, NEW e \in Ends
    PROVE  /\ e = <<e[1], e[2]>> /\ e[2] \in Nat \ {0} /\ e[2] # -1 /\ e[1] \in Nodes
           /\ Peer[e] \in Ends /\ Peer[Peer[e]] = e /\ Peer[e][1] \in Nodes
<1>1. e = <<e[1], e[2]>> /\ e[2] \in Nat \ {0} /\ Peer[e] \in Ends /\ Peer[Peer[e]] = e
  BY DEF Network
<1>2. \A x \in Ends : x[1] \in Nodes
  BY DEF Nodes
<1>3. e[2] # -1
  BY <1>1, SMT
<1>. QED
  BY <1>1, <1>2, <1>3

\* What a network is, for one of its hosts.
LEMMA HostFacts ==
    ASSUME Network, NEW d \in Host
    PROVE  Hosts[d] \in Ends /\ Hosts[d][1] \notin Switches /\ Peer[Hosts[d]] \in Ends /\ Peer[Peer[Hosts[d]]] = Hosts[d]
BY DEF Network, Host

\* What leads to d from q is a host or another switch that knows d.
LEMMA OriginKnows ==
    ASSUME Network, NEW P, NEW e, NEW d \in Host, Origin(P, e, d), NEW s \in Switches, P[s][d] = -1
    PROVE  Peer[e][1] # s
BY HostFacts DEF Origin

\* One more switch that knows g makes no loop and leaves the ways there are.
LEMMA LearnWay ==
    ASSUME Network, NEW P, NEW P2, NEW s, NEW g, NEW in,
           Led(P), Trees(P), Learns(P, P2, s, g, in)
    PROVE  /\ Led(P2) /\ Trees(P2)
           /\ \A e : \A d \in Host : Origin(P, e, d) => Origin(P2, e, d)
           /\ \A d \in Host : \A q, n : OnWay(P, d, q, n) => OnWay(P2, d, q, n)
<1>1. in # -1 /\ s \in Switches /\ g \in Host /\ <<s, in>> \in Ends
  <2>1. <<s, in>>[2] = in
    OBVIOUS
  <2>. QED
    BY <2>1, EndFacts DEF Learns
<1>0. /\ P[s][g] = -1 /\ P2[s][g] = in /\ Origin(P, <<s, in>>, g)
      /\ \A q \in Switches, d \in Host : q # s \/ d # g => P2[q][d] = P[q][d]
  BY DEF Learns
<1>2. \A q \in Switches, d \in Host : P[q][d] # -1 => P2[q][d] = P[q][d] /\ P2[q][d] # -1
  BY DEF Learns
<1>3. \A e : \A d \in Host : Origin(P, e, d) => Origin(P2, e, d)
  BY <1>2 DEF Origin
<1>4. Led(P2)
  <2> SUFFICES ASSUME NEW q \in Switches, NEW d \in Host, P2[q][d] # -1
               PROVE  <<q, P2[q][d]>> \in Ends /\ Origin(P2, <<q, P2[q][d]>>, d)
    BY DEF Led
  <2>1. CASE q = s /\ d = g
    <3>1. Origin(P2, <<s, in>>, g)
      BY <1>0, <1>1, <1>3
    <3>2. P2[q][d] = in /\ <<q, P2[q][d]>> = <<s, in>>
      BY <2>1, <1>0
    <3>. QED
      BY <2>1, <3>1, <3>2, <1>1
  <2>2. CASE q # s \/ d # g
    <3>1. P2[q][d] = P[q][d]
      BY <2>2 DEF Learns
    <3>2. <<q, P[q][d]>> \in Ends /\ Origin(P, <<q, P[q][d]>>, d)
      BY <3>1 DEF Led
    <3>3. Origin(P2, <<q, P[q][d]>>, d)
      BY <3>2, <1>3
    <3>. QED
      BY <3>1, <3>2, <3>3
  <2>. QED
    BY <2>1, <2>2
<1>5. ASSUME NEW d \in Host, d # g PROVE Way(P2, d) = Way(P, d)
  <2>1. \A q \in Switches : P2[q][d] = P[q][d]
    BY <1>5 DEF Learns
  <2>2. {q \in Switches : P2[q][d] # -1} = {q \in Switches : P[q][d] # -1}
    BY <2>1
  <2>. QED
    BY <2>1, <2>2 DEF Way
<1>6. /\ DOMAIN Way(P2, g) = DOMAIN Way(P, g) \cup {s}
      /\ Way(P2, g)[s] = Peer[<<s, in>>][1]
      /\ \A k \in DOMAIN Way(P, g) : Way(P2, g)[k] = Way(P, g)[k]
  <2>1. DOMAIN Way(P, g) = {q \in Switches : P[q][g] # -1}
    BY DEF Way
  <2>2. DOMAIN Way(P2, g) = {q \in Switches : P2[q][g] # -1}
    BY DEF Way
  <2>3. P2[s][g] = in /\ \A q \in Switches : q # s => P2[q][g] = P[q][g]
    BY <1>1 DEF Learns
  <2>4. DOMAIN Way(P2, g) = DOMAIN Way(P, g) \cup {s}
    BY <2>1, <2>2, <2>3, <1>1, <1>2
  <2>5. Way(P2, g)[s] = Peer[<<s, in>>][1]
    BY <2>2, <2>3, <2>4 DEF Way
  <2>6. ASSUME NEW k \in DOMAIN Way(P, g) PROVE Way(P2, g)[k] = Way(P, g)[k]
    <3>1. k \in Switches /\ P[k][g] # -1 /\ k \in DOMAIN Way(P2, g)
      BY <2>1, <2>4
    <3>2. P2[k][g] = P[k][g]
      BY <3>1, <1>1, <1>2
    <3>. QED
      BY <3>1, <3>2, <2>1, <2>2 DEF Way
  <2>. QED
    BY <2>4, <2>5, <2>6
<1>. DEFINE R == Nodes \ {s}
<1>7. Grows(Nodes, Way(P, g), Way(P2, g), R, s, Peer[<<s, in>>][1])
  <2>1. P[s][g] = -1
    BY DEF Learns
  <2>2. Peer[<<s, in>>][1] \in R
    <3>1. Peer[<<s, in>>][1] # s
      <4>1. P[s][g] = -1 /\ Origin(P, <<s, in>>, g) /\ s \in Switches /\ g \in Host
        BY <1>0, <1>1
      <4>. QED
        BY <4>1, OriginKnows
    <3>2. Peer[<<s, in>>][1] \in Nodes
      BY <1>1, EndFacts
    <3>. QED
      BY <3>1, <3>2
  <2>3. s \in Nodes
    BY <1>1 DEF Nodes
  <2>4. ASSUME NEW k \in DOMAIN Way(P, g) PROVE k \in R /\ Way(P, g)[k] \in R
    <3>1. k \in Switches /\ P[k][g] # -1 /\ Way(P, g)[k] = Peer[<<k, P[k][g]>>][1]
      BY DEF Way
    <3>2. <<k, P[k][g]>> \in Ends /\ Origin(P, <<k, P[k][g]>>, g)
      BY <3>1, <1>1 DEF Led
    <3>3. Way(P, g)[k] # s /\ Way(P, g)[k] \in Nodes
      <4>1. Peer[<<k, P[k][g]>>][1] # s
        BY <3>2, <2>1, <1>1, OriginKnows
      <4>2. Peer[<<k, P[k][g]>>][1] \in Nodes
        BY <3>2, EndFacts
      <4>. QED
        BY <3>1, <4>1, <4>2
    <3>4. k \in Nodes /\ k # s
      BY <3>1, <2>1 DEF Nodes
    <3>. QED
      BY <3>3, <3>4
  <2>. QED
    BY <2>2, <2>3, <2>4, <1>6 DEF Grows
<1>8. NoLoop(Way(P2, g))
  <2> SUFFICES ASSUME NEW k \in DOMAIN Way(P2, g) PROVE ~Below(Nodes, Way(P2, g), Way(P2, g)[k], k)
    BY DEF NoLoop
  <2>1. /\ \A m \in R, n \in R : Below(Nodes, Way(P2, g), m, n) <=> Below(Nodes, Way(P, g), m, n)
        /\ \A m \in R : ~Below(Nodes, Way(P2, g), m, s)
    <3>1. PICK v : v = Way(P, g)
      OBVIOUS
    <3>2. PICK w : w = Way(P2, g)
      OBVIOUS
    <3>3. PICK b : b = Peer[<<s, in>>][1]
      OBVIOUS
    <3>4. Grows(Nodes, v, w, R, s, b)
      BY <1>7, <3>1, <3>2, <3>3
    <3>. HIDE DEF R
    <3>5. /\ \A m \in R, n \in R : Below(Nodes, w, m, n) <=> Below(Nodes, v, m, n)
          /\ \A m \in R : ~Below(Nodes, w, m, s)
      BY ONLY <3>4, BelowGrows
    <3>. QED
      BY <3>1, <3>2, <3>5
  <2>2. CASE k = s
    <3>1. Peer[<<s, in>>][1] \in R
      BY <1>7 DEF Grows
    <3>. QED
      BY <2>1, <2>2, <3>1, <1>6
  <2>3. CASE k # s
    <3>1. k \in DOMAIN Way(P, g) /\ Way(P2, g)[k] = Way(P, g)[k]
      BY <2>3, <1>6
    <3>2. k \in R /\ Way(P, g)[k] \in R
      BY <3>1, <1>7 DEF Grows
    <3>3. ~Below(Nodes, Way(P, g), Way(P, g)[k], k)
      BY <3>1, <1>1 DEF Trees, NoLoop
    <3>. QED
      BY <3>1, <3>2, <3>3, <2>1
  <2>. QED
    BY <2>2, <2>3
<1>9. Trees(P2)
  BY <1>5, <1>8 DEF Trees
<1>10. ASSUME NEW d \in Host, NEW q, NEW n, OnWay(P, d, q, n) PROVE OnWay(P2, d, q, n)
  <2>1. CASE d # g
    BY <2>1, <1>5, <1>10 DEF OnWay
  <2>2. CASE d = g
    <3>1. q \in DOMAIN Way(P2, g) /\ Way(P2, g)[q] = Way(P, g)[q]
      BY <2>2, <1>6, <1>10 DEF OnWay
    <3>2. \A S : Closed(Way(P2, g), S) => Closed(Way(P, g), S)
      BY <1>6 DEF Closed
    <3>3. Below(Nodes, Way(P, g), Way(P, g)[q], n)
      BY <2>2, <1>10 DEF OnWay
    <3>4. Below(Nodes, Way(P2, g), Way(P, g)[q], n)
      BY <3>2, <3>3 DEF Below
    <3>. QED
      BY <2>2, <3>1, <3>4 DEF OnWay
  <2>. QED
    BY <2>1, <2>2
<1>. QED
  BY <1>3, <1>4, <1>9, <1>10

-----------------------------------------------------------------------------
(* The frames under way.                                                   *)

Unicast == [kind : {"reply", "data"}, src : Host, dst : Host, n : 1 .. MaxRequests,
            hops : Seq(Switches)]
Messages == [to : Ends, frame : Requests \cup Unicast]

\* Frame f, on its way to node n, has come along the way to its destination.
Straight(P, n, f) ==
    /\ \A i, j \in DOMAIN f.hops : i # j => f.hops[i] # f.hops[j]
    /\ \A i \in DOMAIN f.hops : OnWay(P, f.dst, f.hops[i], n)

\* What a switch learns from a frame leads to its source.
WireOK(P, W) ==
    /\ W \subseteq Messages
    /\ \A m \in W : m.frame.kind # "data" => Origin(P, m.to, m.frame.src)
    /\ \A m \in W : m.frame.kind # "request" => Straight(P, m.to[1], m.frame)

\* Broadcast b has been sent to end e: by its source, or by the switch there, which
\* has flooded it.
SentTo(F, A, e, b) ==
    \/ Peer[e] = Hosts[b.src] /\ b.n <= A[b.src]
    \/ Peer[e][1] \in Switches /\ F[<<Peer[e][1], b>>] = 1

\* A switch that has flooded a broadcast gets no other copy on the port it has learned.
Locked(P, W, F, A) ==
    \A s \in Switches, b \in Requests : F[<<s, b>>] = 1 =>
        /\ P[s][b.src] # -1
        /\ SentTo(F, A, <<s, P[s][b.src]>>, b)
        /\ \A m \in W : ~(m.to = <<s, P[s][b.src]>> /\ m.frame = b)

FloodOK(P, W, F, A) ==
    /\ F \in [Switches \X Requests -> {0, 1}]
    /\ A \in [Host -> Nat]
    /\ Locked(P, W, F, A)
    /\ \A m \in W : m.frame \in Requests => SentTo(F, A, m.to, m.frame)

Good(P, W, F, A) ==
    /\ P \in PortTables /\ Led(P) /\ Trees(P)
    /\ WireOK(P, W)
    /\ FloodOK(P, W, F, A)

\* The kinds of frames are told apart by their fields.
LEMMA FrameFacts ==
    /\ \A f \in Requests : f.kind = "request" /\ f.src \in Host /\ f.n \in 1 .. MaxRequests
    /\ \A f \in Unicast : /\ f.kind \in {"reply", "data"} /\ f.kind # "request"
                          /\ f.src \in Host /\ f.dst \in Host /\ f.n \in 1 .. MaxRequests
                          /\ f.hops \in Seq(Switches)
    /\ \A m \in Messages : /\ m.to \in Ends /\ m.frame \in Requests \cup Unicast
                           /\ m.frame.src \in Host
                           /\ m.frame.kind = "request" <=> m.frame \in Requests
                           /\ m.frame.kind # "request" <=> m.frame \in Unicast
                           /\ m = [to |-> m.to, frame |-> m.frame]
<1>1. \A f \in Requests : f.kind = "request" /\ f.src \in Host /\ f.n \in 1 .. MaxRequests
  BY SMT DEF Requests, Host
<1>2. \A f \in Unicast : /\ f.kind \in {"reply", "data"} /\ f.kind # "request"
                         /\ f.src \in Host /\ f.dst \in Host /\ f.n \in 1 .. MaxRequests
                         /\ f.hops \in Seq(Switches)
  BY SMT DEF Unicast
<1>3. ASSUME NEW m \in Messages
      PROVE  /\ m.to \in Ends /\ m.frame \in Requests \cup Unicast
             /\ m = [to |-> m.to, frame |-> m.frame]
  BY SMT DEF Messages
<1>. QED
  BY <1>1, <1>2, <1>3

\* Frames may be lost.
LEMMA FewerGood ==
    ASSUME NEW P, NEW W, NEW F, NEW A, Good(P, W, F, A), NEW V, V \subseteq W
    PROVE  Good(P, V, F, A)
<1>1. WireOK(P, V)
  BY DEF Good, WireOK
<1>2. FloodOK(P, V, F, A)
  BY DEF Good, FloodOK, Locked
<1>. QED
  BY <1>1, <1>2 DEF Good

\* A switch may learn where a frame came from.
LEMMA LearnGood ==
    ASSUME Network, NEW P, NEW P2, NEW W, NEW F, NEW A, Good(P, W, F, A),
           NEW s, NEW g, NEW in, Learns(P, P2, s, g, in)
    PROVE  Good(P2, W, F, A)
<1>1. /\ Led(P2) /\ Trees(P2) /\ P2 \in PortTables
      /\ \A e : \A d \in Host : Origin(P, e, d) => Origin(P2, e, d)
      /\ \A d \in Host : \A q, n : OnWay(P, d, q, n) => OnWay(P2, d, q, n)
  <2>1. Led(P) /\ Trees(P)
    BY DEF Good
  <2>2. P2 \in PortTables
    BY DEF Learns
  <2>. QED
    BY <2>1, <2>2, LearnWay
<1>2. WireOK(P2, W)
  <2>1. W \subseteq Messages
    BY DEF Good, WireOK
  <2>2. ASSUME NEW m \in W, m.frame.kind # "data" PROVE Origin(P2, m.to, m.frame.src)
    <3>1. m.frame.src \in Host
      BY <2>1, FrameFacts
    <3>2. Origin(P, m.to, m.frame.src)
      BY <2>2 DEF Good, WireOK
    <3>. QED
      BY <3>1, <3>2, <1>1
  <2>3. ASSUME NEW m \in W, m.frame.kind # "request" PROVE Straight(P2, m.to[1], m.frame)
    <3>1. m.frame.dst \in Host
      BY <2>1, <2>3, FrameFacts
    <3>2. Straight(P, m.to[1], m.frame)
      BY <2>3 DEF Good, WireOK
    <3>. QED
      BY <3>1, <3>2, <1>1 DEF Straight
  <2>. QED
    BY <2>1, <2>2, <2>3 DEF WireOK
<1>3. Locked(P2, W, F, A)
  <2> SUFFICES ASSUME NEW q \in Switches, NEW b \in Requests, F[<<q, b>>] = 1
               PROVE  P2[q][b.src] = P[q][b.src]
    <3> SUFFICES ASSUME NEW q \in Switches, NEW b \in Requests, F[<<q, b>>] = 1
                 PROVE  /\ P2[q][b.src] # -1
                        /\ SentTo(F, A, <<q, P2[q][b.src]>>, b)
                        /\ \A m \in W : ~(m.to = <<q, P2[q][b.src]>> /\ m.frame = b)
      BY DEF Locked
    <3>1. P2[q][b.src] = P[q][b.src]
      OBVIOUS
    <3>2. /\ P[q][b.src] # -1
          /\ SentTo(F, A, <<q, P[q][b.src]>>, b)
          /\ \A m \in W : ~(m.to = <<q, P[q][b.src]>> /\ m.frame = b)
      BY DEF Good, FloodOK, Locked
    <3>. QED
      BY <3>1, <3>2
  <2>1. P[q][b.src] # -1 /\ b.src \in Host
    BY FrameFacts DEF Good, FloodOK, Locked
  <2>. QED
    BY <2>1 DEF Learns
<1>. QED
  BY <1>1, <1>2, <1>3 DEF Good, FloodOK

\* A unicast frame may be sent along the way to its destination.
LEMMA EmitGood ==
    ASSUME NEW P, NEW W, NEW F, NEW A, Good(P, W, F, A),
           NEW e \in Ends, NEW f \in Unicast,
           f.kind = "reply" => Origin(P, e, f.src), Straight(P, e[1], f)
    PROVE  Good(P, W \cup {[to |-> e, frame |-> f]}, F, A)
<1>1. PICK m : m = [to |-> e, frame |-> f]
  OBVIOUS
<1>2. m \in Messages /\ m.to = e /\ m.frame = f
  BY <1>1, SMT DEF Messages
<1>3. f.kind # "request" /\ f \notin Requests /\ (f.kind = "reply" \/ f.kind = "data")
  BY FrameFacts
<1>4. WireOK(P, W \cup {m})
  BY <1>2, <1>3 DEF Good, WireOK
<1>5. FloodOK(P, W \cup {m}, F, A)
  BY <1>2, <1>3 DEF Good, FloodOK, Locked
<1>. QED
  BY <1>1, <1>4, <1>5 DEF Good

\* What a switch changes in a frame.
LEMMA HopsSet ==
    ASSUME NEW f \in Unicast, NEW p \in Seq(Switches)
    PROVE  /\ [f EXCEPT !.hops = p] \in Unicast /\ [f EXCEPT !.hops = p].hops = p
           /\ [f EXCEPT !.hops = p].kind = f.kind /\ [f EXCEPT !.hops = p].src = f.src
           /\ [f EXCEPT !.hops = p].dst = f.dst
<1>1. PICK S : S = Seq(Switches)
  OBVIOUS
<1>2. f \in [kind : {"reply", "data"}, src : Host, dst : Host, n : 1 .. MaxRequests, hops : S]
  BY <1>1 DEF Unicast
<1>3. /\ [f EXCEPT !.hops = p] \in [kind : {"reply", "data"}, src : Host, dst : Host, n : 1 .. MaxRequests, hops : S]
      /\ [f EXCEPT !.hops = p].hops = p
      /\ [f EXCEPT !.hops = p].kind = f.kind /\ [f EXCEPT !.hops = p].src = f.src
      /\ [f EXCEPT !.hops = p].dst = f.dst
  BY <1>1, <1>2, SMT
<1>. QED
  BY <1>1, <1>3 DEF Unicast

\* A switch that knows the destination sends a frame one step further on its way.
LEMMA StepStraight ==
    ASSUME Network, NEW P, Led(P), Trees(P), NEW s \in Switches, NEW f \in Unicast,
           Straight(P, s, f), P[s][f.dst] # -1,
           NEW f2, f2 = [f EXCEPT !.hops = Append(@, s)]
    PROVE  /\ f2 \in Unicast /\ f2.kind = f.kind /\ f2.src = f.src
           /\ Straight(P, Peer[<<s, P[s][f.dst]>>][1], f2)
<1>1. f.hops \in Seq(Switches) /\ f.dst \in Host
  BY FrameFacts
<1>2. /\ f2 \in Unicast /\ f2.kind = f.kind /\ f2.src = f.src /\ f2.dst = f.dst
      /\ f2.hops = Append(f.hops, s)
  <2>1. PICK p : p = Append(f.hops, s)
    OBVIOUS
  <2>2. f2 = [f EXCEPT !.hops = p]
    BY <2>1
  <2>3. \A h \in Seq(Switches) : Append(h, s) \in Seq(Switches)
    BY SMT
  <2>4. p \in Seq(Switches)
    BY <2>1, <2>3, <1>1
  <2>5. /\ [f EXCEPT !.hops = p] \in Unicast /\ [f EXCEPT !.hops = p].hops = p
        /\ [f EXCEPT !.hops = p].kind = f.kind /\ [f EXCEPT !.hops = p].src = f.src
        /\ [f EXCEPT !.hops = p].dst = f.dst
    BY <2>4, HopsSet
  <2>. QED
    BY <2>1, <2>2, <2>5
<1>3. PICK k \in Nat : k = Len(f.hops)
  BY <1>1, SMT
<1>4. /\ DOMAIN f.hops = 1 .. k /\ DOMAIN f2.hops = 1 .. (k + 1) /\ f2.hops[k + 1] = s
      /\ \A i \in 1 .. k : f2.hops[i] = f.hops[i]
  BY <1>1, <1>2, <1>3, SMT
<1>5. \A i \in 1 .. (k + 1) : i = k + 1 \/ i \in 1 .. k
  BY SMT
<1>. DEFINE w == Way(P, f.dst)
<1>6. s \in DOMAIN w /\ w[s] = Peer[<<s, P[s][f.dst]>>][1]
  BY DEF Way
<1>7. ASSUME NEW i \in 1 .. k PROVE f.hops[i] # s /\ OnWay(P, f.dst, f.hops[i], w[s])
  <2>1. f.hops[i] \in DOMAIN w /\ Below(Nodes, w, w[f.hops[i]], s)
    BY <1>4 DEF Straight, OnWay
  <2>2. f.hops[i] # s
    BY <2>1, <1>1 DEF Trees, NoLoop
  <2>3. Below(Nodes, w, w[f.hops[i]], w[s])
    BY <2>1, <1>6 DEF Below, Closed
  <2>. QED
    BY <2>1, <2>2, <2>3 DEF OnWay
<1>8. OnWay(P, f.dst, s, w[s])
  BY <1>6, BelowSelf DEF OnWay
<1>9. ASSUME NEW i \in 1 .. (k + 1), NEW j \in 1 .. (k + 1), i # j
      PROVE  f2.hops[i] # f2.hops[j]
  <2>1. CASE i \in 1 .. k /\ j \in 1 .. k
    BY <2>1, <1>4, <1>9 DEF Straight
  <2>2. CASE i = k + 1
    <3>1. j \in 1 .. k
      BY <2>2, <1>5, <1>9
    <3>. QED
      BY <2>2, <3>1, <1>4, <1>7
  <2>3. CASE j = k + 1
    <3>1. i \in 1 .. k
      BY <2>3, <1>5, <1>9
    <3>. QED
      BY <2>3, <3>1, <1>4, <1>7
  <2>. QED
    BY <2>1, <2>2, <2>3, <1>5
<1>10. \A i \in 1 .. (k + 1) : OnWay(P, f2.dst, f2.hops[i], w[s])
  BY <1>2, <1>4, <1>5, <1>7, <1>8
<1>. HIDE DEF w
<1>. QED
  BY <1>2, <1>4, <1>6, <1>9, <1>10 DEF Straight

\* A host may ask.
LEMMA AskGood ==
    ASSUME Network, NEW P, NEW W, NEW F, NEW A, Good(P, W, F, A),
           NEW h \in Host, NEW b \in Requests, b.src = h, b.n = A[h] + 1,
           NEW B, B = [A EXCEPT ![h] = @ + 1]
    PROVE  Good(P, W \cup {[to |-> Peer[Hosts[h]], frame |-> b]}, F, B)
<1>1. PICK m : m = [to |-> Peer[Hosts[h]], frame |-> b]
  OBVIOUS
<1>2. /\ Peer[Hosts[h]] \in Ends /\ Peer[Peer[Hosts[h]]] = Hosts[h] /\ Hosts[h][1] \notin Switches
  BY HostFacts
<1>3. m \in Messages /\ m.to = Peer[Hosts[h]] /\ m.frame = b
  BY <1>1, <1>2, SMT DEF Messages
<1>4. b.kind = "request"
  BY FrameFacts
<1>5. WireOK(P, W \cup {m})
  <2>1. Origin(P, m.to, m.frame.src)
    BY <1>2, <1>3 DEF Origin
  <2>. QED
    BY <2>1, <1>3, <1>4 DEF Good, WireOK
<1>6. A \in [Host -> Nat]
  BY DEF Good, FloodOK
<1>7. B \in [Host -> Nat] /\ B[h] = A[h] + 1 /\ \A g \in Host : \A n \in Nat : n <= A[g] => n <= B[g]
  BY <1>6, SMT
<1>8. \A c \in Requests : c.n \in Nat /\ c.src \in Host
  <2>1. \A n \in 1 .. MaxRequests : n \in Nat
    BY SMT DEF Network
  <2>. QED
    BY <2>1, FrameFacts
<1>9. \A e : \A c \in Requests : SentTo(F, A, e, c) => SentTo(F, B, e, c)
  BY <1>7, <1>8 DEF SentTo
<1>10. SentTo(F, B, m.to, b)
  <2>1. b.n <= B[h]
    BY <1>7, <1>8, SMT
  <2>. QED
    BY <2>1, <1>2, <1>3 DEF SentTo
<1>11. Locked(P, W \cup {m}, F, B)
  <2> SUFFICES ASSUME NEW s \in Switches, NEW c \in Requests, F[<<s, c>>] = 1
               PROVE  /\ P[s][c.src] # -1
                      /\ SentTo(F, B, <<s, P[s][c.src]>>, c)
                      /\ \A x \in W \cup {m} : ~(x.to = <<s, P[s][c.src]>> /\ x.frame = c)
    BY DEF Locked
  <2>1. /\ P[s][c.src] # -1 /\ SentTo(F, A, <<s, P[s][c.src]>>, c)
        /\ \A x \in W : ~(x.to = <<s, P[s][c.src]>> /\ x.frame = c)
    BY DEF Good, FloodOK, Locked
  <2>2. ASSUME m.to = <<s, P[s][c.src]>>, m.frame = c PROVE FALSE
    <3>1. c = b /\ Peer[<<s, P[s][c.src]>>] = Hosts[h]
      BY <2>2, <1>2, <1>3
    <3>2. b.n <= A[h]
      BY <3>1, <2>1, <1>2 DEF SentTo
    <3>. QED
      BY <3>2, <1>6, SMT
  <2>. QED
    BY <2>1, <2>2, <1>9
<1>12. FloodOK(P, W \cup {m}, F, B)
  <2>1. \A x \in W : x.frame \in Requests => SentTo(F, B, x.to, x.frame)
    BY <1>9 DEF Good, FloodOK
  <2>2. F \in [Switches \X Requests -> {0, 1}]
    BY DEF Good, FloodOK
  <2>. QED
    BY <2>1, <2>2, <1>3, <1>7, <1>10, <1>11 DEF FloodOK
<1>. QED
  BY <1>1, <1>5, <1>12 DEF Good

\* What the handlers do to the counters and to the tables.
Bump(F, x) == [F EXCEPT ![x] = @ + 1]
Put(lt, s, u) == [lt EXCEPT ![s] = u]

\* A switch that has locked the port of a broadcast may flood it.
LEMMA FloodGood ==
    ASSUME Network, NEW P, NEW W, NEW F, NEW A, Good(P, W, F, A),
           NEW m \in W, NEW b \in Requests, m.frame = b,
           NEW s \in Switches, NEW in, m.to = <<s, in>>,
           P[s][b.src] = in, F[<<s, b>>] = 0,
           NEW Q, Q \subseteq PortsOf(s) \ {in},
           NEW G, G = Bump(F, <<s, b>>),
           NEW V, V = (W \ {m}) \cup Sent(s, Q, b)
    PROVE  Good(P, V, G, A)
<1>1. /\ F \in [Switches \X Requests -> {0, 1}] /\ A \in [Host -> Nat]
      /\ W \subseteq Messages
  BY DEF Good, FloodOK, WireOK
<1>2. /\ G \in [Switches \X Requests -> {0, 1}] /\ G[<<s, b>>] = 1
      /\ \A y \in Switches \X Requests : y # <<s, b>> => G[y] = F[y]
  <2>1. <<s, b>> \in Switches \X Requests
    OBVIOUS
  <2>2. F[<<s, b>>] + 1 = 1
    BY SMT
  <2>. QED
    BY <1>1, <2>1, <2>2 DEF Bump
<1>3. \A e : \A c \in Requests : SentTo(F, A, e, c) => SentTo(G, A, e, c)
  <2>1. \A q \in Switches : \A c \in Requests : F[<<q, c>>] = 1 => G[<<q, c>>] = 1
    <3>1. 0 # 1
      BY SMT
    <3>. QED
      BY <1>2, <3>1
  <2>. QED
    BY <2>1 DEF SentTo
<1>4. b.kind = "request" /\ b.src \in Host
  BY FrameFacts
<1>5. m \in Messages /\ <<s, in>> \in Ends /\ in # -1
  <2>1. m.to \in Ends
    BY <1>1, FrameFacts
  <2>2. <<s, in>>[2] = in
    OBVIOUS
  <2>3. <<s, in>> \in Ends
    BY <2>1
  <2>4. <<s, in>>[2] # -1
    BY <2>3, EndFacts
  <2>. QED
    BY <1>1, <2>2, <2>3, <2>4
<1>6. ASSUME NEW x \in Sent(s, Q, b)
      PROVE  /\ x \in Messages /\ x.frame = b
             /\ Peer[x.to][1] = s /\ ~SentTo(F, A, x.to, b)
  <2>1. PICK p \in Q : x = [to |-> Peer[<<s, p>>], frame |-> b]
    BY DEF Sent
  <2>2. PICK e \in Ends : e[1] = s /\ e[2] = p
    BY DEF PortsOf
  <2>3. e = <<s, p>> /\ Peer[e] \in Ends /\ Peer[Peer[e]] = e
    BY <2>2, EndFacts
  <2>4. x \in Messages /\ x.frame = b /\ x.to = Peer[e]
    BY <2>1, <2>3, SMT DEF Messages
  <2>5. Peer[x.to][1] = s
    BY <2>2, <2>3, <2>4
  <2>6. Peer[x.to] # Hosts[b.src]
    <3>1. Hosts[b.src][1] \notin Switches
      BY <1>4, HostFacts
    <3>. QED
      BY <2>5, <3>1
  <2>7. F[<<s, b>>] # 1
    BY SMT
  <2>. QED
    BY <2>4, <2>5, <2>6, <2>7 DEF SentTo
<1>7. WireOK(P, V)
  <2>1. \A x \in V : x \in W \/ x \in Sent(s, Q, b)
    OBVIOUS
  <2>2. V \subseteq Messages
    BY <2>1, <1>1, <1>6
  <2>3. ASSUME NEW x \in V, x.frame.kind # "data" PROVE Origin(P, x.to, x.frame.src)
    <3>1. CASE x \in W
      BY <3>1, <2>3 DEF Good, WireOK
    <3>2. CASE x \in Sent(s, Q, b)
      BY <3>2, <1>5, <1>6 DEF Origin
    <3>. QED
      BY <2>1, <3>1, <3>2
  <2>4. ASSUME NEW x \in V, x.frame.kind # "request" PROVE Straight(P, x.to[1], x.frame)
    BY <2>1, <2>4, <1>4, <1>6 DEF Good, WireOK
  <2>. QED
    BY <2>2, <2>3, <2>4 DEF WireOK
<1>8. Locked(P, V, G, A)
  <2> SUFFICES ASSUME NEW q \in Switches, NEW c \in Requests, G[<<q, c>>] = 1
               PROVE  /\ P[q][c.src] # -1
                      /\ SentTo(G, A, <<q, P[q][c.src]>>, c)
                      /\ \A x \in V : ~(x.to = <<q, P[q][c.src]>> /\ x.frame = c)
    BY DEF Locked
  <2>1. /\ P[q][c.src] # -1 /\ SentTo(F, A, <<q, P[q][c.src]>>, c)
        /\ \A x \in W \ {m} : ~(x.to = <<q, P[q][c.src]>> /\ x.frame = c)
    <3>1. CASE q = s /\ c = b
      <4>1. SentTo(F, A, <<s, in>>, b)
        BY DEF Good, FloodOK
      <4>2. ASSUME NEW x \in W, x.to = <<s, in>>, x.frame = b PROVE x = m
        BY <4>2, <1>1, <1>5, FrameFacts
      <4>. QED
        BY <3>1, <4>1, <4>2, <1>5
    <3>2. CASE ~(q = s /\ c = b)
      <4>1. <<q, c>> # <<s, b>> /\ <<q, c>> \in Switches \X Requests
        BY <3>2
      <4>2. F[<<q, c>>] = 1
        BY <4>1, <1>2
      <4>. QED
        BY <4>2 DEF Good, FloodOK, Locked
    <3>. QED
      BY <3>1, <3>2
  <2>2. ASSUME NEW x \in Sent(s, Q, b), x.to = <<q, P[q][c.src]>>, x.frame = c PROVE FALSE
    BY <2>1, <2>2, <1>6
  <2>. QED
    BY <2>1, <2>2, <1>3
<1>9. \A x \in V : x.frame \in Requests => SentTo(G, A, x.to, x.frame)
  <2>1. \A x \in W : x.frame \in Requests => SentTo(G, A, x.to, x.frame)
    BY <1>3 DEF Good, FloodOK
  <2>2. \A x \in Sent(s, Q, b) : SentTo(G, A, x.to, x.frame)
    BY <1>2, <1>6 DEF SentTo
  <2>. QED
    BY <2>1, <2>2
<1>10. FloodOK(P, V, G, A)
  BY <1>1, <1>2, <1>8, <1>9 DEF FloodOK
<1>. QED
  BY <1>7, <1>10 DEF Good

-----------------------------------------------------------------------------
(* The learning tables of all switches.                                    *)

TablesOK(lt) == lt \in [Switches -> Seq(Entry)] /\ \A s \in Switches : Valid(lt[s])

PortsIn(lt) == [s \in Switches |-> [d \in Host |-> Port(lt[s], d)]]

\* Ports are numbers.
LEMMA PortsInType == ASSUME NEW lt, TablesOK(lt) PROVE PortsIn(lt) \in PortTables
<1>1. -1 \in Int /\ \A p \in Nat \ {0} : p \in Int
  BY SMT
<1>2. \A s \in Switches : \A d : Port(lt[s], d) \in Int
  BY <1>1, PortFirst DEF TablesOK
<1>. QED
  BY <1>2 DEF PortsIn, PortTables

\* The table of one switch is replaced.
LEMMA PutOK ==
    ASSUME NEW lt, TablesOK(lt), NEW s \in Switches, NEW u, Valid(u)
    PROVE  TablesOK(Put(lt, s, u))
<1>1. lt \in [Switches -> Seq(Entry)] /\ u \in Seq(Entry)
  BY DEF TablesOK, Valid
<1>2. /\ Put(lt, s, u) \in [Switches -> Seq(Entry)] /\ Put(lt, s, u)[s] = u
      /\ \A q \in Switches : q # s => Put(lt, s, u)[q] = lt[q]
  BY <1>1 DEF Put
<1>. QED
  BY <1>2 DEF TablesOK

\* What is put last is there.
LEMMA PutTwice ==
    ASSUME NEW lt, TablesOK(lt), NEW s \in Switches, NEW u, NEW v
    PROVE  Put(Put(lt, s, u), s, v) = Put(lt, s, v)
<1>1. DOMAIN lt = Switches
  BY DEF TablesOK
<1>2. Put(lt, s, u) = [q \in Switches |-> IF q = s THEN u ELSE lt[q]]
  BY <1>1 DEF Put
<1>3. Put(lt, s, v) = [q \in Switches |-> IF q = s THEN v ELSE lt[q]]
  BY <1>1 DEF Put
<1>4. PICK w : w = Put(lt, s, u)
  OBVIOUS
<1>5. DOMAIN w = Switches /\ \A q \in Switches : q # s => w[q] = lt[q]
  BY <1>2, <1>4
<1>6. Put(w, s, v) = [q \in Switches |-> IF q = s THEN v ELSE w[q]]
  BY <1>5 DEF Put
<1>7. [q \in Switches |-> IF q = s THEN v ELSE w[q]] = [q \in Switches |-> IF q = s THEN v ELSE lt[q]]
  BY <1>5
<1>. QED
  BY <1>3, <1>4, <1>6, <1>7

\* A switch that keeps its ports.
LEMMA TableSame ==
    ASSUME NEW lt, TablesOK(lt), NEW s \in Switches, NEW u, Same(lt[s], u)
    PROVE  TablesOK(Put(lt, s, u)) /\ PortsIn(Put(lt, s, u)) = PortsIn(lt)
<1>. DEFINE lt2 == Put(lt, s, u)
<1>1. TablesOK(lt2) /\ lt2[s] = u /\ \A q \in Switches : q # s => lt2[q] = lt[q]
  <2>1. Valid(u)
    BY DEF Same
  <2>2. TablesOK(lt2)
    BY <2>1, PutOK
  <2>3. lt2[s] = u
    BY DEF TablesOK, Put
  <2>4. \A q \in Switches : q # s => lt2[q] = lt[q]
    BY DEF TablesOK, Put
  <2>. QED
    BY <2>2, <2>3, <2>4
<1>. HIDE DEF lt2
<1>2. ASSUME NEW q \in Switches, NEW d \in Host PROVE Port(lt2[q], d) = Port(lt[q], d)
  BY <1>1 DEF Same
<1>3. PortsIn(lt2) = PortsIn(lt)
  BY <1>2 DEF PortsIn
<1>. QED
  BY <1>1, <1>3 DEF lt2

\* A switch that learns a port.
LEMMA TableLearns ==
    ASSUME NEW lt, TablesOK(lt), NEW s \in Switches, NEW u, NEW g \in Host, NEW in,
           Adds(lt[s], u, g, in), <<s, in>> \in Ends, Origin(PortsIn(lt), <<s, in>>, g)
    PROVE  /\ TablesOK(Put(lt, s, u))
           /\ Learns(PortsIn(lt), PortsIn(Put(lt, s, u)), s, g, in)
<1>. DEFINE lt2 == Put(lt, s, u)
<1>1. TablesOK(lt2) /\ lt2[s] = u /\ \A q \in Switches : q # s => lt2[q] = lt[q]
  <2>1. Valid(u)
    BY DEF Adds
  <2>2. TablesOK(lt2)
    BY <2>1, PutOK
  <2>3. lt2[s] = u
    BY DEF TablesOK, Put
  <2>4. \A q \in Switches : q # s => lt2[q] = lt[q]
    BY DEF TablesOK, Put
  <2>. QED
    BY <2>2, <2>3, <2>4
<1>. HIDE DEF lt2
<1>2. PortsIn(lt) \in PortTables /\ PortsIn(lt2) \in PortTables
  BY <1>1, PortsInType
<1>3. /\ \A q \in Switches, d \in Host : PortsIn(lt)[q][d] = Port(lt[q], d)
      /\ \A q \in Switches, d \in Host : PortsIn(lt2)[q][d] = Port(lt2[q], d)
  BY DEF PortsIn
<1>4. ASSUME NEW q \in Switches, NEW d \in Host, q # s \/ d # g
      PROVE  Port(lt2[q], d) = Port(lt[q], d)
  BY <1>1, <1>4 DEF Adds
<1>5. Port(lt[s], g) = -1 /\ Port(lt2[s], g) = in
  BY <1>1 DEF Adds
<1>6. Learns(PortsIn(lt), PortsIn(lt2), s, g, in)
  <2>1. PortsIn(lt)[s][g] = -1 /\ PortsIn(lt2)[s][g] = in
    BY <1>3, <1>5
  <2>2. ASSUME NEW q \in Switches, NEW d \in Host, q # s \/ d # g
        PROVE  PortsIn(lt2)[q][d] = PortsIn(lt)[q][d]
    BY <1>3, <1>4, <2>2
  <2>. QED
    BY <1>2, <2>1, <2>2 DEF Learns
<1>. QED
  BY <1>1, <1>6 DEF lt2

-----------------------------------------------------------------------------
(* What a switch does with a frame.                                        *)

\* A copy on another port is dropped; the first one, and those on its port, are flooded.
LEMMA BroadcastDoes ==
    ASSUME Network, NEW t, Valid(t), NEW s, NEW in \in Nat \ {0}, NEW f \in Requests,
           NEW r, r = ForwardBroadcast(t, s, in, f)
    PROVE  \/ r.table = t /\ r.out = {}
           \/ Same(t, r.table) /\ Port(t, f.src) = in /\ r.out = Flood(s, in, f)
           \/ Adds(t, r.table, f.src, in) /\ r.out = Flood(s, in, f)
<1>1. LT_TIME \in Nat /\ f.src \in Host
  BY FrameFacts DEF Network
<1>2. PICK port : port = Port(t, f.src)
  OBVIOUS
<1>3. port = -1 \/ port \in Nat \ {0}
  BY <1>2, PortFirst
<1>4. port # 0 /\ in # -1 /\ in # 0
  BY <1>3, SMT
<1>5. CASE port = -1
  <2>1. /\ r.table = mac_to_port_add(t, f.src, in, LT_TIME, 0)
        /\ r.out = Flood(s, in, f)
    BY <1>2, <1>5, SMT DEF ForwardBroadcast, Port
  <2>2. Adds(t, r.table, f.src, in)
    BY <2>1, <1>1, <1>2, <1>5, AddAdds
  <2>. QED
    BY <2>1, <2>2
<1>6. CASE port # -1 /\ port = in
  <2>1. /\ r.table = mac_to_port_time_refresh(t, f.src, LT_TIME, 0)
        /\ r.out = Flood(s, in, f)
    BY <1>2, <1>4, <1>6, SMT DEF ForwardBroadcast, Port
  <2>2. Same(t, r.table)
    BY <2>1, <1>1, RefreshSame
  <2>. QED
    BY <2>1, <2>2, <1>2, <1>6
<1>7. CASE port # -1 /\ port # in
  BY <1>2, <1>4, <1>7, SMT DEF ForwardBroadcast, Port
<1>. QED
  BY <1>5, <1>6, <1>7

\* A reply is learned unless its source is known.
LEMMA LearnReplyDoes ==
    ASSUME Network, NEW t, Valid(t), NEW in \in Nat \ {0}, NEW f \in Unicast,
           NEW u, u = LearnReply(t, in, f)
    PROVE  \/ Same(t, u) /\ Port(t, f.src) # -1
           \/ Adds(t, u, f.src, in)
<1>1. LT_TIME \in Nat /\ f.src \in Host
  BY FrameFacts DEF Network
<1>2. mac_to_port_check_timeout(t, f.src) # 1
  BY NoTimeout
<1>3. CASE Port(t, f.src) = -1
  <2>1. u = mac_to_port_add(t, f.src, in, LT_TIME, 0)
    BY <1>3 DEF LearnReply, Port
  <2>. QED
    BY <2>1, <1>1, <1>3, AddAdds
<1>4. CASE Port(t, f.src) # -1
  <2>1. u = mac_to_port_time_refresh(t, f.src, LT_TIME, 0)
    BY <1>2, <1>4 DEF LearnReply, Port
  <2>. QED
    BY <2>1, <1>1, <1>4, RefreshSame
<1>. QED
  BY <1>3, <1>4

\* A unicast frame goes out of the port of its destination.
LEMMA SendUnicastDoes ==
    ASSUME Network, NEW t, Valid(t), NEW s, NEW f \in Unicast,
           NEW r, r = arp_path_send_unicast(t, s, f)
    PROVE  /\ Same(t, r.table)
           /\ \/ r.out = {}
              \/ /\ Port(t, f.dst) # -1
                 /\ r.out = {[to |-> Peer[<<s, Port(t, f.dst)>>],
                              frame |-> [f EXCEPT !.hops = Append(@, s)]]}
<1>1. LT_TIME \in Nat
  BY DEF Network
<1>2. PICK port : port = Port(t, f.dst)
  OBVIOUS
<1>3. CASE port > 0 /\ port \in PortsOf(s)
  <2>1. /\ r.table = mac_to_port_time_refresh(t, f.dst, LT_TIME, 0)
        /\ r.out = Sent(s, {port}, [f EXCEPT !.hops = Append(@, s)])
    BY <1>2, <1>3 DEF arp_path_send_unicast, Port
  <2>2. port # -1
    BY <1>3, SMT
  <2>3. r.out = {[to |-> Peer[<<s, port>>], frame |-> [f EXCEPT !.hops = Append(@, s)]]}
    BY <2>1 DEF Sent
  <2>. QED
    BY <2>1, <2>2, <2>3, <1>1, <1>2, RefreshSame
<1>4. CASE ~(port > 0 /\ port \in PortsOf(s))
  <2>1. r.table = t /\ r.out = {}
    BY <1>2, <1>4 DEF arp_path_send_unicast, Port
  <2>. QED
    BY <2>1 DEF Same
<1>. QED
  BY <1>3, <1>4

\* The state the handlers keep.
Counted(F, x, out) == IF out # {} THEN Bump(F, x) ELSE F
FloodsIn(F, s, frame, out) == IF frame.kind = "request" THEN Counted(F, <<s, frame>>, out) ELSE F
Kept(lt, W, F, A) == TablesOK(lt) /\ Good(PortsIn(lt), W, F, A)

\* A switch takes a broadcast.
LEMMA RequestGood ==
    ASSUME Network, NEW lt, NEW W, NEW F, NEW A, Kept(lt, W, F, A),
           NEW m \in W, m.frame.kind = "request", NEW s \in Switches, m.to[1] = s,
           NEW r, r = ForwardBroadcast(lt[s], s, m.to[2], m.frame)
    PROVE  Kept(Put(lt, s, r.table), (W \ {m}) \cup r.out, Counted(F, <<s, m.frame>>, r.out), A)
<1>0. TablesOK(lt) /\ Good(PortsIn(lt), W, F, A)
  BY DEF Kept
<1>. USE <1>0
<1>a. PICK lt2 : lt2 = Put(lt, s, r.table)
  OBVIOUS
<1>b. PICK V : V = (W \ {m}) \cup r.out
  OBVIOUS
<1>c. PICK G : G = Counted(F, <<s, m.frame>>, r.out)
  OBVIOUS
<1>. SUFFICES TablesOK(lt2) /\ Good(PortsIn(lt2), V, G, A)
  BY <1>a, <1>b, <1>c DEF Kept
<1>1. PICK b : b = m.frame
  OBVIOUS
<1>2. PICK in : in = m.to[2]
  OBVIOUS
<1>3. /\ W \subseteq Messages /\ m.to \in Ends
      /\ b \in Requests /\ b.src \in Host
  BY <1>1, FrameFacts DEF Good, WireOK
<1>4. m.to = <<s, in>> /\ in \in Nat \ {0} /\ in # -1
  BY <1>2, <1>3, EndFacts
<1>5. Origin(PortsIn(lt), <<s, in>>, b.src)
  <2>1. "request" # "data"
    OBVIOUS
  <2>. QED
    BY <2>1, <1>1, <1>4 DEF Good, WireOK
<1>6. Valid(lt[s]) /\ PortsIn(lt)[s][b.src] = Port(lt[s], b.src)
  BY <1>3 DEF TablesOK, PortsIn
<1>7. CASE r.table = lt[s] /\ r.out = {}
  <2>1. Same(lt[s], r.table)
    BY <1>6, <1>7 DEF Same
  <2>2. TablesOK(lt2) /\ PortsIn(lt2) = PortsIn(lt)
    BY <2>1, <1>a, TableSame
  <2>3. V \subseteq W /\ G = F
    BY <1>7, <1>b, <1>c DEF Counted
  <2>. QED
    BY <2>2, <2>3, FewerGood
<1>8. ASSUME TablesOK(lt2), Good(PortsIn(lt2), W, F, A), PortsIn(lt2)[s][b.src] = in,
             F[<<s, b>>] = 0, r.out = Flood(s, in, b)
      PROVE  Good(PortsIn(lt2), V, G, A)
  <2>1. CASE r.out = {}
    <3>1. V \subseteq W /\ G = F
      BY <2>1, <1>b, <1>c DEF Counted
    <3>. QED
      BY <3>1, <1>8, FewerGood
  <2>2. CASE r.out # {}
    <3>1. r.out = Sent(s, PortsOf(s) \ {in}, b)
      BY <2>2, <1>8 DEF Flood
    <3>2. G = Bump(F, <<s, b>>)
      BY <2>2, <1>1, <1>c DEF Counted
    <3>3. PICK P : P = PortsIn(lt2)
      OBVIOUS
    <3>4. PICK Q : Q = PortsOf(s) \ {in}
      OBVIOUS
    <3>5. /\ Good(P, W, F, A) /\ m.frame = b /\ m.to = <<s, in>> /\ P[s][b.src] = in
          /\ F[<<s, b>>] = 0 /\ Q \subseteq PortsOf(s) \ {in}
          /\ G = Bump(F, <<s, b>>) /\ V = (W \ {m}) \cup Sent(s, Q, b)
      BY <3>1, <3>2, <3>3, <3>4, <1>1, <1>4, <1>8, <1>b
    <3>6. Good(P, V, G, A)
      BY <3>5, <1>3, FloodGood
    <3>. QED
      BY <3>3, <3>6
  <2>. QED
    BY <2>1, <2>2
<1>9. F[<<s, b>>] = 0 \/ F[<<s, b>>] = 1
  <2>1. F \in [Switches \X Requests -> {0, 1}] /\ <<s, b>> \in Switches \X Requests
    BY <1>3 DEF Good, FloodOK
  <2>. QED
    BY <2>1
<1>10. CASE /\ Same(lt[s], r.table) /\ Port(lt[s], b.src) = in
            /\ r.out = Flood(s, in, b)
  <2>1. TablesOK(lt2) /\ PortsIn(lt2) = PortsIn(lt)
    BY <1>10, <1>a, TableSame
  <2>2. F[<<s, b>>] # 1
    <3>1. SUFFICES ASSUME F[<<s, b>>] = 1 PROVE FALSE
      OBVIOUS
    <3>2. ~(m.to = <<s, PortsIn(lt)[s][b.src]>> /\ m.frame = b)
      BY <3>1, <1>3 DEF Good, FloodOK, Locked
    <3>. QED
      BY <3>2, <1>1, <1>4, <1>6, <1>10
  <2>. QED
    BY <2>1, <2>2, <1>6, <1>8, <1>9, <1>10
<1>11. CASE /\ Adds(lt[s], r.table, b.src, in) /\ r.out = Flood(s, in, b)
  <2>1. TablesOK(lt2) /\ Learns(PortsIn(lt), PortsIn(lt2), s, b.src, in)
    BY <1>3, <1>4, <1>5, <1>11, <1>a, TableLearns
  <2>2. Good(PortsIn(lt2), W, F, A) /\ PortsIn(lt2)[s][b.src] = in
    <3>1. PortsIn(lt2)[s][b.src] = in
      BY <2>1 DEF Learns
    <3>. QED
      BY <2>1, <3>1, LearnGood
  <2>3. F[<<s, b>>] # 1
    BY <2>1, <1>3 DEF Learns, Good, FloodOK, Locked
  <2>. QED
    BY <2>1, <2>2, <2>3, <1>8, <1>9, <1>11
<1>12. \/ r.table = lt[s] /\ r.out = {}
       \/ Same(lt[s], r.table) /\ Port(lt[s], b.src) = in /\ r.out = Flood(s, in, b)
       \/ Adds(lt[s], r.table, b.src, in) /\ r.out = Flood(s, in, b)
  BY <1>1, <1>2, <1>3, <1>4, <1>6, BroadcastDoes, SMT
<1>. QED
  BY <1>7, <1>10, <1>11, <1>12

\* A switch that has learned what it may takes a unicast frame.
LEMMA UnicastGood ==
    ASSUME Network, NEW lt, NEW W, NEW F, NEW A, Kept(lt, W, F, A),
           NEW m \in W, m.frame.kind # "request", NEW s \in Switches, m.to[1] = s,
           m.frame.kind = "reply" => Port(lt[s], m.frame.src) # -1,
           NEW r, r = arp_path_send_unicast(lt[s], s, m.frame)
    PROVE  Kept(Put(lt, s, r.table), (W \ {m}) \cup r.out, F, A)
<1>0. TablesOK(lt) /\ Good(PortsIn(lt), W, F, A)
  BY DEF Kept
<1>. USE <1>0
<1>a. PICK lt2 : lt2 = Put(lt, s, r.table)
  OBVIOUS
<1>b. PICK V : V = (W \ {m}) \cup r.out
  OBVIOUS
<1>. SUFFICES TablesOK(lt2) /\ Good(PortsIn(lt2), V, F, A)
  BY <1>a, <1>b DEF Kept
<1>1. PICK f : f = m.frame
  OBVIOUS
<1>2. /\ W \subseteq Messages /\ m.to \in Ends
      /\ f \in Unicast /\ f.src \in Host /\ f.dst \in Host
  BY <1>1, FrameFacts DEF Good, WireOK
<1>3. /\ Valid(lt[s])
      /\ \A d \in Host : PortsIn(lt)[s][d] = Port(lt[s], d)
  BY DEF TablesOK, PortsIn
<1>4. /\ Same(lt[s], r.table)
      /\ \/ r.out = {}
         \/ /\ Port(lt[s], f.dst) # -1
            /\ r.out = {[to |-> Peer[<<s, Port(lt[s], f.dst)>>],
                         frame |-> [f EXCEPT !.hops = Append(@, s)]]}
  BY <1>1, <1>2, <1>3, SendUnicastDoes, SMT
<1>5. TablesOK(lt2) /\ PortsIn(lt2) = PortsIn(lt)
  BY <1>4, <1>a, TableSame
<1>6. Good(PortsIn(lt), W \ {m}, F, A)
  BY FewerGood
<1>7. CASE r.out = {}
  BY <1>5, <1>6, <1>7, <1>b
<1>8. CASE /\ Port(lt[s], f.dst) # -1
           /\ r.out = {[to |-> Peer[<<s, Port(lt[s], f.dst)>>],
                        frame |-> [f EXCEPT !.hops = Append(@, s)]]}
  <2>1. PICK f2 : f2 = [f EXCEPT !.hops = Append(@, s)]
    OBVIOUS
  <2>2. PICK e : e = Peer[<<s, Port(lt[s], f.dst)>>]
    OBVIOUS
  <2>3. PortsIn(lt)[s][f.dst] = Port(lt[s], f.dst)
    BY <1>2, <1>3
  <2>4. <<s, Port(lt[s], f.dst)>> \in Ends
    BY <1>2, <1>8, <2>3 DEF Good, Led
  <2>5. e \in Ends /\ Peer[e] = <<s, Port(lt[s], f.dst)>>
    BY <2>2, <2>4, EndFacts
  <2>6. Straight(PortsIn(lt), s, f)
    BY <1>1 DEF Good, WireOK
  <2>7. /\ f2 \in Unicast /\ f2.kind = f.kind /\ f2.src = f.src
        /\ Straight(PortsIn(lt), e[1], f2)
    <3>1. Led(PortsIn(lt)) /\ Trees(PortsIn(lt))
      BY DEF Good
    <3>2. PortsIn(lt)[s][f.dst] # -1
      BY <2>3, <1>8
    <3>. QED
      BY <3>1, <3>2, <2>1, <2>2, <2>3, <2>6, <1>2, StepStraight, SMT
  <2>8. f2.kind = "reply" => Origin(PortsIn(lt), e, f2.src)
    <3>1. Peer[e][1] = s
      BY <2>5, SMT
    <3>. QED
      BY <3>1, <2>7, <1>1, <1>2, <1>3 DEF Origin
  <2>9. Good(PortsIn(lt), (W \ {m}) \cup {[to |-> e, frame |-> f2]}, F, A)
    BY <1>6, <2>5, <2>7, <2>8, EmitGood
  <2>. QED
    BY <1>5, <1>8, <2>1, <2>2, <2>9, <1>b
<1>. QED
  BY <1>4, <1>7, <1>8

\* A switch takes a reply.
LEMMA ReplyGood ==
    ASSUME Network, NEW lt, NEW W, NEW F, NEW A, Kept(lt, W, F, A),
           NEW m \in W, m.frame.kind = "reply", NEW s \in Switches, m.to[1] = s,
           NEW u, u = LearnReply(lt[s], m.to[2], m.frame)
    PROVE  Kept(Put(lt, s, u), W, F, A) /\ Port(u, m.frame.src) # -1
<1>0. TablesOK(lt) /\ Good(PortsIn(lt), W, F, A)
  BY DEF Kept
<1>. USE <1>0
<1>a. PICK lt1 : lt1 = Put(lt, s, u)
  OBVIOUS
<1>1. PICK f : f = m.frame
  OBVIOUS
<1>2. PICK in : in = m.to[2]
  OBVIOUS
<1>3. /\ W \subseteq Messages /\ m.to \in Ends
      /\ f \in Unicast /\ f.src \in Host
  <2>1. "reply" # "request"
    OBVIOUS
  <2>. QED
    BY <1>1, <2>1, FrameFacts DEF Good, WireOK
<1>4. m.to = <<s, in>> /\ in \in Nat \ {0} /\ in # -1
  BY <1>2, <1>3, EndFacts
<1>5. Origin(PortsIn(lt), <<s, in>>, f.src)
  <2>1. "reply" # "data"
    OBVIOUS
  <2>. QED
    BY <2>1, <1>1, <1>4 DEF Good, WireOK
<1>6. Valid(lt[s])
  BY DEF TablesOK
<1>7. \/ Same(lt[s], u) /\ Port(lt[s], f.src) # -1
      \/ Adds(lt[s], u, f.src, in)
  BY <1>1, <1>2, <1>3, <1>4, <1>6, LearnReplyDoes
<1>9. CASE Same(lt[s], u) /\ Port(lt[s], f.src) # -1
  <2>1. TablesOK(lt1) /\ PortsIn(lt1) = PortsIn(lt)
    BY <1>9, <1>a, TableSame
  <2>2. Port(u, f.src) # -1
    BY <1>9 DEF Same
  <2>. QED
    BY <2>1, <2>2, <1>1, <1>a DEF Kept
<1>10. CASE Adds(lt[s], u, f.src, in)
  <2>1. TablesOK(lt1) /\ Learns(PortsIn(lt), PortsIn(lt1), s, f.src, in)
    BY <1>3, <1>4, <1>5, <1>10, <1>a, TableLearns
  <2>2. Good(PortsIn(lt1), W, F, A)
    BY <2>1, LearnGood
  <2>3. Port(u, f.src) # -1
    BY <1>4, <1>10 DEF Adds
  <2>. QED
    BY <2>1, <2>2, <2>3, <1>1, <1>a DEF Kept
<1>. QED
  BY <1>7, <1>9, <1>10

\* A switch takes a frame.
LEMMA ForwardGood ==
    ASSUME Network, NEW lt, NEW W, NEW F, NEW A, Kept(lt, W, F, A),
           NEW m \in W, NEW s \in Switches, m.to[1] = s,
           NEW r, r = pipeline_arp_path(lt[s], s, m.to[2], m.frame)
    PROVE  Kept(Put(lt, s, r.table), (W \ {m}) \cup r.out, FloodsIn(F, s, m.frame, r.out), A)
<1>1. /\ "request" # "reply" /\ "request" # "data" /\ "reply" # "data"
      /\ m.frame.kind = "request" \/ m.frame.kind = "reply" \/ m.frame.kind = "data"
  BY FrameFacts DEF Kept, Good, WireOK
<1>2. CASE m.frame.kind = "request"
  <2>1. r = ForwardBroadcast(lt[s], s, m.to[2], m.frame)
    BY <1>1, <1>2 DEF pipeline_arp_path
  <2>2. FloodsIn(F, s, m.frame, r.out) = Counted(F, <<s, m.frame>>, r.out)
    BY <1>2 DEF FloodsIn
  <2>3. Kept(Put(lt, s, r.table), (W \ {m}) \cup r.out, Counted(F, <<s, m.frame>>, r.out), A)
    BY <2>1, <1>2, RequestGood
  <2>. QED
    BY <2>2, <2>3
<1>3. CASE m.frame.kind = "reply"
  <2>1. PICK u : u = LearnReply(lt[s], m.to[2], m.frame)
    OBVIOUS
  <2>2. PICK lt1 : lt1 = Put(lt, s, u)
    OBVIOUS
  <2>3. Kept(lt1, W, F, A) /\ Port(u, m.frame.src) # -1
    BY <2>1, <2>2, <1>3, ReplyGood
  <2>4. lt1[s] = u
    BY <2>2 DEF Kept, TablesOK, Put
  <2>5. r = arp_path_send_unicast(lt1[s], s, m.frame)
    BY <2>1, <2>4, <1>1, <1>3 DEF pipeline_arp_path
  <2>6. Put(lt1, s, r.table) = Put(lt, s, r.table)
    BY <2>2, PutTwice, SMT DEF Kept
  <2>7. FloodsIn(F, s, m.frame, r.out) = F
    BY <1>1, <1>3 DEF FloodsIn
  <2>8. m.frame.kind # "request" /\ Port(lt1[s], m.frame.src) # -1
    BY <2>3, <2>4, <1>1, <1>3
  <2>9. Kept(Put(lt1, s, r.table), (W \ {m}) \cup r.out, F, A)
    BY <2>3, <2>5, <2>8, UnicastGood
  <2>. QED
    BY <2>6, <2>7, <2>9
<1>4. CASE m.frame.kind = "data"
  <2>1. r = arp_path_send_unicast(lt[s], s, m.frame)
    BY <1>1, <1>4 DEF pipeline_arp_path
  <2>2. FloodsIn(F, s, m.frame, r.out) = F
    BY <1>1, <1>4 DEF FloodsIn
  <2>3. m.frame.kind # "request" /\ m.frame.kind # "reply"
    BY <1>1, <1>4
  <2>4. Kept(Put(lt, s, r.table), (W \ {m}) \cup r.out, F, A)
    BY <2>1, <2>3, UnicastGood
  <2>. QED
    BY <2>2, <2>4
<1>. QED
  BY <1>1, <1>2, <1>3, <1>4

\* Time passes, and no entry expires.
LEMMA TickGood ==
    ASSUME NEW lt, TablesOK(lt), NEW lt2,
           lt2 = [s \in Switches |->
                    [i \in DOMAIN lt[s] |-> [lt[s][i] EXCEPT !.left = IF @ >= 0 THEN @ - 1 ELSE @]]],
           \A s \in Switches : \A i \in DOMAIN lt2[s] : lt2[s][i].left # EXPIRED
    PROVE  TablesOK(lt2) /\ PortsIn(lt2) = PortsIn(lt)
<1>1. ASSUME NEW s \in Switches PROVE Valid(lt2[s]) /\ \A g : Port(lt2[s], g) = Port(lt[s], g)
  <2>1. Valid(lt[s])
    BY DEF TablesOK
  <2>2. lt2[s] = [i \in DOMAIN lt[s] |-> [lt[s][i] EXCEPT !.left = IF @ >= 0 THEN @ - 1 ELSE @]]
    OBVIOUS
  <2>. QED
    BY <2>1, <2>2, TickPort
<1>2. lt2 \in [Switches -> Seq(Entry)]
  <2>1. \A s \in Switches : lt2[s] \in Seq(Entry)
    BY <1>1 DEF Valid
  <2>2. DOMAIN lt2 = Switches /\ lt2 = [s \in Switches |-> lt2[s]]
    OBVIOUS
  <2>. QED
    BY <2>1, <2>2
<1>. QED
  BY <1>1, <1>2 DEF TablesOK, PortsIn
-----------------------------------------------------------------------------
(* The invariant.                                                          *)

AInv ==
    ~expired => Kept(learning_table, wire, flooded, sentArp)

\* At the start no switch knows a host.
LEMMA AInit == ASSUME Network, ArpInit PROVE AInv
<1>. DEFINE P == PortsIn(learning_table)
<1>1. \A s \in Switches : learning_table[s] = << >>
  BY DEF ArpInit
<1>2. Valid(<< >>)
  BY SMT DEF Valid
<1>3. TablesOK(learning_table)
  <2>1. << >> \in Seq(Entry)
    BY SMT
  <2>. QED
    BY <1>1, <1>2, <2>1 DEF TablesOK, ArpInit
<1>4. \A s \in Switches, d \in Host : P[s][d] = -1
  <2>1. \A i \in 1 .. Len(<< >>) : FALSE
    BY SMT
  <2>2. \A d : Port(<< >>, d) = -1
    BY <2>1, <1>2, PortFirst
  <2>. QED
    BY <1>1, <2>2 DEF PortsIn
<1>5. P \in PortTables
  BY <1>3, PortsInType
<1>. HIDE DEF P
<1>6. Led(P) /\ Trees(P)
  <2>1. \A d \in Host : DOMAIN Way(P, d) = {}
    BY <1>4 DEF Way
  <2>. QED
    BY <2>1, <1>4 DEF Led, Trees, NoLoop
<1>7. wire = {} /\ WireOK(P, {})
  BY DEF WireOK, ArpInit
<1>8. FloodOK(P, {}, flooded, sentArp)
  <2>1. 0 \in Nat /\ 0 # 1
    BY SMT
  <2>2. /\ flooded \in [Switches \X Requests -> {0, 1}] /\ sentArp \in [Host -> Nat]
        /\ \A s \in Switches, b \in Requests : flooded[<<s, b>>] = 0
    BY <2>1 DEF ArpInit, Host
  <2>. QED
    BY <2>1, <2>2 DEF FloodOK, Locked
<1>9. Good(P, wire, flooded, sentArp)
  BY <1>5, <1>6, <1>7, <1>8 DEF Good
<1>. QED
  BY <1>3, <1>9 DEF AInv, Kept, P

\* A host asks.
LEMMA AAsk ==
    ASSUME Network, AInv, NEW h \in Host, Ask(h) PROVE AInv'
<1>. SUFFICES ASSUME ~expired PROVE TablesOK(learning_table) /\ Good(PortsIn(learning_table), wire', flooded, sentArp')
  BY DEF Ask, AInv, Kept
<1>1. TablesOK(learning_table) /\ Good(PortsIn(learning_table), wire, flooded, sentArp)
  BY DEF AInv, Kept
<1>2. PICK tpa \in Asked[h] :
         wire' = wire \cup {[to |-> Peer[Hosts[h]], frame |->
                              [kind |-> "request", src |-> h, n |-> sentArp[h] + 1, tpa |-> tpa]]}
  BY DEF Ask
<1>3. PICK b : b = [kind |-> "request", src |-> h, n |-> sentArp[h] + 1, tpa |-> tpa]
  OBVIOUS
<1>4. sentArp[h] + 1 \in 1 .. MaxRequests
  <2>1. sentArp[h] \in Nat
    BY <1>1 DEF Good, FloodOK
  <2>2. sentArp[h] < MaxRequests /\ MaxRequests \in Nat
    BY DEF Ask, Network
  <2>. QED
    BY <2>1, <2>2, SMT
<1>5. b \in Requests /\ b.src = h /\ b.n = sentArp[h] + 1
  <2>1. tpa \in Targets
    BY DEF Network, Host, Targets
  <2>. QED
    BY <2>1, <1>3, <1>4, SMT DEF Requests, Host
<1>6. sentArp' = [sentArp EXCEPT ![h] = @ + 1]
  BY DEF Ask
<1>. QED
  BY <1>1, <1>2, <1>3, <1>5, <1>6, AskGood

\* A host hears a frame.
LEMMA AHear ==
    ASSUME Network, AInv, NEW h \in Host, Hear(h) PROVE AInv'
<1>0. UNCHANGED <<learning_table, flooded, sentArp, ticks, expired>>
  BY DEF Hear
<1>. SUFFICES ASSUME ~expired PROVE TablesOK(learning_table) /\ Good(PortsIn(learning_table), wire', flooded, sentArp)
  BY <1>0 DEF AInv, Kept
<1>1. TablesOK(learning_table) /\ Good(PortsIn(learning_table), wire, flooded, sentArp)
  BY DEF AInv, Kept
<1>2. PICK m \in wire :
        wire' = (wire \ {m}) \cup
             (CASE m.frame.kind = "request" ->
                     {[to |-> Peer[Hosts[h]], frame |-> [kind |-> "reply", src |-> h, dst |-> m.frame.src,
                                                         n |-> m.frame.n, hops |-> << >>]]}
                [] m.frame.kind = "reply" ->
                     {[to |-> Peer[Hosts[h]], frame |-> [kind |-> "data", src |-> h, dst |-> m.frame.src,
                                                         n |-> m.frame.n, hops |-> << >>]]}
                [] m.frame.kind = "data" -> {})
  BY DEF Hear
<1>3. /\ m.frame.src \in Host /\ m.frame.n \in 1 .. MaxRequests
      /\ m.frame.kind = "request" \/ m.frame.kind = "reply" \/ m.frame.kind = "data"
      /\ "request" # "reply" /\ "request" # "data" /\ "reply" # "data"
  BY <1>1, FrameFacts DEF Good, WireOK
<1>4. Good(PortsIn(learning_table), wire \ {m}, flooded, sentArp)
  BY <1>1, FewerGood
<1>5. Peer[Hosts[h]] \in Ends /\ Peer[Peer[Hosts[h]]] = Hosts[h]
  BY HostFacts
<1>6. ASSUME NEW k \in {"reply", "data"}, NEW f,
             f = [kind |-> k, src |-> h, dst |-> m.frame.src, n |-> m.frame.n, hops |-> << >>]
      PROVE  Good(PortsIn(learning_table), (wire \ {m}) \cup {[to |-> Peer[Hosts[h]], frame |-> f]},
                  flooded, sentArp)
  <2>1. f \in Unicast /\ f.src = h /\ f.hops = << >>
    BY <1>3, <1>6, SMT DEF Unicast
  <2>2. DOMAIN f.hops = {}
    BY <2>1, SMT
  <2>3. Straight(PortsIn(learning_table), Peer[Hosts[h]][1], f)
    BY <2>2 DEF Straight
  <2>4. Origin(PortsIn(learning_table), Peer[Hosts[h]], f.src)
    BY <2>1, <1>5 DEF Origin
  <2>. QED
    BY <1>4, <1>5, <2>1, <2>3, <2>4, EmitGood
<1>7. CASE m.frame.kind = "request"
  <2>1. wire' = (wire \ {m}) \cup
             {[to |-> Peer[Hosts[h]], frame |-> [kind |-> "reply", src |-> h, dst |-> m.frame.src,
                                                 n |-> m.frame.n, hops |-> << >>]]}
    BY <1>2, <1>3, <1>7
  <2>. QED
    BY <2>1, <1>1, <1>6
<1>8. CASE m.frame.kind = "reply"
  <2>1. wire' = (wire \ {m}) \cup
             {[to |-> Peer[Hosts[h]], frame |-> [kind |-> "data", src |-> h, dst |-> m.frame.src,
                                                 n |-> m.frame.n, hops |-> << >>]]}
    BY <1>2, <1>3, <1>8
  <2>. QED
    BY <2>1, <1>1, <1>6
<1>9. CASE m.frame.kind = "data"
  <2>1. wire' = (wire \ {m}) \cup {}
    BY <1>2, <1>3, <1>9
  <2>. QED
    BY <2>1, <1>1, <1>4
<1>. QED
  BY <1>3, <1>7, <1>8, <1>9

\* A switch takes a frame.
LEMMA AForward ==
    ASSUME Network, AInv, NEW s \in Switches, Forward(s) PROVE AInv'
<1>0. UNCHANGED <<sentArp, ticks, expired>>
  BY DEF Forward
<1>. SUFFICES ASSUME ~expired PROVE Kept(learning_table', wire', flooded', sentArp)
  BY <1>0 DEF AInv
<1>1. Kept(learning_table, wire, flooded, sentArp)
  BY DEF AInv
<1>2. PICK m \in wire :
        /\ m.to[1] = s
        /\ \E r \in {pipeline_arp_path(learning_table[s], s, m.to[2], m.frame)} :
             /\ learning_table' = [learning_table EXCEPT ![s] = r.table]
             /\ wire' = (wire \ {m}) \cup r.out
             /\ flooded' = IF m.frame.kind = "request" /\ r.out # {}
                           THEN [flooded EXCEPT ![<<s, m.frame>>] = @ + 1] ELSE flooded
  BY DEF Forward
<1>3. PICK r : /\ r = pipeline_arp_path(learning_table[s], s, m.to[2], m.frame)
               /\ learning_table' = Put(learning_table, s, r.table)
               /\ wire' = (wire \ {m}) \cup r.out
               /\ flooded' = FloodsIn(flooded, s, m.frame, r.out)
  BY <1>2 DEF Put, FloodsIn, Counted, Bump
<1>4. Kept(Put(learning_table, s, r.table), (wire \ {m}) \cup r.out, FloodsIn(flooded, s, m.frame, r.out), sentArp)
  BY <1>1, <1>2, <1>3, ForwardGood
<1>. QED
  BY <1>3, <1>4

\* Time passes.
LEMMA ATick ==
    ASSUME AInv, Tick PROVE AInv'
<1>. SUFFICES ASSUME ~expired' PROVE TablesOK(learning_table') /\ Good(PortsIn(learning_table'), wire, flooded, sentArp)
  BY DEF Tick, AInv, Kept
<1>1. /\ ~expired
      /\ \A s \in Switches : \A i \in DOMAIN learning_table'[s] : learning_table'[s][i].left # EXPIRED
  BY DEF Tick
<1>2. TablesOK(learning_table) /\ Good(PortsIn(learning_table), wire, flooded, sentArp)
  BY <1>1 DEF AInv, Kept
<1>3. learning_table' = [s \in Switches |->
         [i \in DOMAIN learning_table[s] |->
            [learning_table[s][i] EXCEPT !.left = IF @ >= 0 THEN @ - 1 ELSE @]]]
  BY DEF Tick
<1>4. TablesOK(learning_table') /\ PortsIn(learning_table') = PortsIn(learning_table)
  BY <1>1, <1>2, <1>3, TickGood
<1>. QED
  BY <1>2, <1>4

\* The invariant says what the property does.
LEMMA AShows == ASSUME Network, AInv PROVE UnicastLoopFree
<1>. SUFFICES ASSUME ~expired
              PROVE  /\ \A x \in DOMAIN flooded : flooded[x] <= 1
                     /\ \A m \in wire : m.frame.kind # "request" =>
                          \A i, j \in DOMAIN m.frame.hops : i # j => m.frame.hops[i] # m.frame.hops[j]
  BY DEF UnicastLoopFree, LoopsCut, UnicastOnce
<1>1. Good(PortsIn(learning_table), wire, flooded, sentArp)
  BY DEF AInv, Kept
<1>2. \A x \in DOMAIN flooded : flooded[x] <= 1
  <2>1. \A n \in {0, 1} : n <= 1
    BY SMT
  <2>2. flooded \in [Switches \X Requests -> {0, 1}]
    BY <1>1 DEF Good, FloodOK
  <2>. QED
    BY <2>1, <2>2
<1>3. \A m \in wire : m.frame.kind # "request" => Straight(PortsIn(learning_table), m.to[1], m.frame)
  BY <1>1 DEF Good, WireOK
<1>. QED
  BY <1>2, <1>3 DEF Straight

\* Whatever the network, a broadcast is flooded once by a switch and a unicast
\* frame comes to a switch once, until an entry expires: the first copy of a host's
\* broadcast or reply locks the port, so the ports that lead to a host form a tree
\* (pipeline_arp_path()).
THEOREM LoopFree ==
    ASSUME Network PROVE ArpSpec => []UnicastLoopFree
<1>1. ArpInit => AInv
  BY AInit
<1>2. AInv /\ [ArpNext]_arpVars => AInv'
  <2> SUFFICES ASSUME AInv, [ArpNext]_arpVars PROVE AInv'
    OBVIOUS
  <2>1. ASSUME NEW h \in DOMAIN Hosts, Ask(h) PROVE AInv'
    BY <2>1, AAsk DEF Host
  <2>2. ASSUME NEW h \in DOMAIN Hosts, Hear(h) PROVE AInv'
    BY <2>2, AHear DEF Host
  <2>3. ASSUME NEW s \in Switches, Forward(s) PROVE AInv'
    BY <2>3, AForward
  <2>4. CASE Tick
    BY <2>4, ATick
  <2>5. CASE UNCHANGED arpVars
    BY <2>5 DEF AInv, arpVars
  <2>. QED
    BY <2>1, <2>2, <2>3, <2>4, <2>5 DEF ArpNext
<1>3. AInv => UnicastLoopFree
  BY AShows
<1>. QED
  BY <1>1, <1>2, <1>3, PTL DEF ArpSpec
=============================================================================
