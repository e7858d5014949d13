---------------------------- MODULE EhddpProofs ----------------------------
(***************************************************************************)
(* Theorems about Ehddp for every network and every number of explorations *)
(*                                                                         *)
(* Whatever is delayed: the in-band paths form a tree (TreeInv), and the   *)
(* application takes no two switches for linked that are not (LinkInv).    *)
(* When packets arrive before the clock ticks: a switch passes the request *)
(* of an exploration on once, and replies have a way up (OnceInv).         *)
(***************************************************************************)
EXTENDS Ehddp, NetworkLemmas

\* Most steps are logic only.  The others name SMT.
USE Zenon

\* An input is a port of a switch, and its peer the switch at the other end.
LEMMA InputFacts ==
    ASSUME NEW x \in Inputs
    PROVE  /\ x = <<x[1], x[2]>> /\ x[1] \in Switch /\ x[2] \in PortNo(x[1])
           /\ Peer[x][1] = Ports[x[1]][x[2]] /\ Peer[x][1] \in Switch
           /\ x[2] # NO_PORT
<1>1. PICK n \in Switch : x \in {n} \X PortNo(n)
  BY DEF Inputs
<1>2. x = <<x[1], x[2]>> /\ x[1] = n /\ x[2] \in PortNo(n)
  BY <1>1, SMT
<1>3. Peer[x] = OtherEnd(x[1], x[2])
  BY DEF Peer
<1>4. Ports[x[1]][x[2]] \in Switch \cup {HOST}
  BY <1>2, EhddpAssumption, SMT DEF PortNo
<1>5. Ports[x[1]][x[2]] # HOST
  BY DEF Inputs
<1>. QED
  BY <1>2, <1>3, <1>4, <1>5, EhddpAssumption, SMT DEF OtherEnd, PortNo, NO_PORT

\* Packet p is under way to x in the network w.
In(w, x, p) == \E k \in 1 .. Len(w[x]) : w[x][k] = p

\* Sending adds packet q, from n, and nothing else.
LEMMA SentFacts ==
    ASSUME NEW w \in [Inputs -> Seq(Packet)], NEW n, NEW out, NEW q \in Packet
    PROVE  /\ Sent(w, n, out, q) \in [Inputs -> Seq(Packet)]
           /\ \A x \in Inputs : \A p : In(Sent(w, n, out, q), x, p) =>
                 In(w, x, p) \/ (p = q /\ Peer[x][1] = n)
<1>1. \A x \in Inputs : w[x] \in Seq(Packet) /\ Append(w[x], q) \in Seq(Packet)
  BY SMT
<1>2. Sent(w, n, out, q) \in [Inputs -> Seq(Packet)]
  BY <1>1 DEF Sent
<1>3. ASSUME NEW x \in Inputs, NEW p, In(Sent(w, n, out, q), x, p)
      PROVE  In(w, x, p) \/ (p = q /\ Peer[x][1] = n)
  <2>1. CASE Sent(w, n, out, q)[x] = w[x]
    BY <1>3, <2>1 DEF In
  <2>2. CASE Sent(w, n, out, q)[x] # w[x]
    <3>1. Peer[x][1] = n /\ Sent(w, n, out, q)[x] = Append(w[x], q)
      BY <2>2 DEF Sent
    <3>2. PICK k \in 1 .. Len(Append(w[x], q)) : Append(w[x], q)[k] = p
      BY <1>3, <3>1 DEF In
    <3>3. (k \in 1 .. Len(w[x]) /\ w[x][k] = p) \/ p = q
      BY <3>2, <1>1, SMT
    <3>. QED
      BY <3>1, <3>3 DEF In
  <2>. QED
    BY <2>1, <2>2
<1>. QED
  BY <1>2, <1>3

\* Receiving takes a packet away and adds none.
LEMMA RestFacts ==
    ASSUME NEW w \in [Inputs -> Seq(Packet)], NEW y \in Inputs, w[y] # <<>>
    PROVE  /\ [w EXCEPT ![y] = Tail(@)] \in [Inputs -> Seq(Packet)]
           /\ Head(w[y]) \in Packet /\ In(w, y, Head(w[y]))
           /\ \A x \in Inputs : \A p : In([w EXCEPT ![y] = Tail(@)], x, p) => In(w, x, p)
<1>1. w[y] \in Seq(Packet) /\ Len(w[y]) \in Nat /\ Len(w[y]) > 0 /\ Tail(w[y]) \in Seq(Packet)
  BY SMT
<1>2. Head(w[y]) = w[y][1] /\ w[y][1] \in Packet
  BY <1>1, SMT
<1>3. In(w, y, Head(w[y]))
  BY <1>1, <1>2, SMT DEF In
<1>4. ASSUME NEW x \in Inputs, NEW p, In([w EXCEPT ![y] = Tail(@)], x, p)
      PROVE  In(w, x, p)
  <2>1. CASE x # y
    BY <1>4, <2>1 DEF In
  <2>2. CASE x = y
    <3>1. PICK k \in 1 .. Len(Tail(w[y])) : Tail(w[y])[k] = p
      BY <1>4, <2>2 DEF In
    <3>2. k + 1 \in 1 .. Len(w[y]) /\ w[y][k + 1] = p
      BY <3>1, <1>1, SMT
    <3>. QED
      BY <3>2, <2>2 DEF In
  <2>. QED
    BY <2>1, <2>2
<1>. QED
  BY <1>1, <1>2, <1>3, <1>4
-----------------------------------------------------------------------------
(* The in-band tree *)

\* The controller's switch, or one that has an in-band port.
HasJoined(n) == n = Root \/ joined[n].port # NO_PORT

\* The types that the tree argument needs.
Types ==
    /\ attached \subseteq Switch
    /\ local_port \in [Switch -> Int]
    /\ joined \in [Switch -> [port : Int, depth : Nat]]
    /\ net \in [Inputs -> Seq(Packet)]
    /\ timestamp_hddp \in 0 .. Waves

\* What keeps the tree a tree: a request comes from a switch that has joined,
\* as do the connected switches, and a switch looks for a local port only
\* before it has one.
TreeInv ==
    /\ Types
    /\ InBandTree
    /\ \A n \in attached : HasJoined(n)
    /\ \A x \in Inputs : \A p : In(net, x, p) /\ p.opcode = 1 => HasJoined(Peer[x][1])
    /\ \A n \in Switch : joined[n].port = NO_PORT \/ joined[n].port \in PortNo(n)
    /\ \A n \in NonSdn : local_port[n] = NO_PORT
    /\ \A n \in moved : local_port[n] # NO_PORT
    /\ local_port[Root] = NO_PORT /\ joined[Root].port = NO_PORT

\* The packets that a switch makes are packets, with its name at the end.
LEMMA PacketFacts ==
    ASSUME NEW n \in Switch, NEW p \in Packet, NEW s \in 1 .. Waves, NEW r \in BOOLEAN
    PROVE  /\ Reply(s, <<n>>) \in Packet /\ Request(s, <<n>>) \in Packet
           /\ Reply(s, <<n>>).opcode = 2 /\ Reply(s, <<n>>).ids = <<n>>
           /\ Request(s, <<n>>).opcode = 1 /\ Request(s, <<n>>).ids = <<n>>
           /\ Extended(p, n, r) \in Packet /\ Extended(p, n, r).opcode = p.opcode
           /\ Extended(p, n, r) # p => Extended(p, n, r).ids = Append(p.ids, n)
<1>1. <<n>> \in Seq(Switch)
  BY SMT
<1>2. p.ids \in Seq(Switch) /\ Append(p.ids, n) \in Seq(Switch)
  BY SMT DEF Packet
<1>. QED
  BY <1>1, <1>2 DEF Packet, Reply, Request, Extended

\* What a switch sends when it handles packet h: a reply of its own, the
\* request passed on by a switch that may, or the reply passed on.
Output(n, h, p, forwards) ==
    \/ p.opcode = 2 /\ p.ids = <<n>>
    \/ h.opcode = 1 /\ forwards /\ \E r \in Repetido : p = Extended(h, n, r)
    \/ h.opcode = 2 /\ \E r \in Repetido : p = Extended(h, n, r) /\ p # h

\* The network after switch n handled packet h.
NetAfter(n, h, forwards) ==
    /\ net' \in [Inputs -> Seq(Packet)]
    /\ \A x \in Inputs : \A p : In(net', x, p) =>
          In(net, x, p) \/ (Peer[x][1] = n /\ Output(n, h, p, forwards))

\* What the application makes a connected switch send,
LEMMA ProcessSends ==
    ASSUME Types, NEW y \in Inputs, net[y] # <<>>,
           process(y[1], y[2], Head(net[y]), [net EXCEPT ![y] = Tail(@)])
    PROVE  NetAfter(y[1], Head(net[y]), FALSE) /\ timestamp_hddp' = timestamp_hddp
<1>. DEFINE h == Head(net[y])
            rest == [net EXCEPT ![y] = Tail(@)]
            q == Reply(timestamp_hddp, <<y[1]>>)
<1>1. net \in [Inputs -> Seq(Packet)]
  BY DEF Types
<1>2. /\ rest \in [Inputs -> Seq(Packet)] /\ h \in Packet
      /\ \A x \in Inputs : \A p : In(rest, x, p) => In(net, x, p)
  BY <1>1, RestFacts
<1>3. y[1] \in Switch
  BY InputFacts
<1>4. timestamp_hddp' = timestamp_hddp
  BY DEF process
<1>5. CASE net' = rest
  BY <1>2, <1>4, <1>5 DEF NetAfter
<1>6. CASE net' # rest
  <2>1. h.num_sec = timestamp_hddp /\ net' = Sent(rest, y[1], {y[2]}, q)
    BY <1>6 DEF process
  <2>2. timestamp_hddp \in 1 .. Waves
    BY <1>2, <2>1 DEF Packet
  <2>3. q \in Packet /\ q.opcode = 2 /\ q.ids = <<y[1]>>
    BY <1>2, <1>3, <2>2, PacketFacts
  <2>. HIDE DEF rest, q, h
  <2>4. /\ net' \in [Inputs -> Seq(Packet)]
        /\ \A x \in Inputs : \A p : In(net', x, p) =>
              In(rest, x, p) \/ (p = q /\ Peer[x][1] = y[1])
    BY <1>2, <2>1, <2>3, SentFacts, SMT
  <2>5. NetAfter(y[1], h, FALSE)
    BY <1>2, <2>3, <2>4 DEF NetAfter, Output
  <2>. QED
    BY <1>4, <2>5 DEF h
<1>. QED
  BY <1>5, <1>6

\* what a switch sends on a request,
LEMMA RequestSends ==
    ASSUME Types, NEW y \in Inputs, net[y] # <<>>, Head(net[y]).opcode = 1, NEW mod,
           handle_ehddp_request_packets(y[1], y[2], Head(net[y]), mod, [net EXCEPT ![y] = Tail(@)])
    PROVE  NetAfter(y[1], Head(net[y]), Forwards(mod))
<1>. DEFINE h == Head(net[y])
            rest == [net EXCEPT ![y] = Tail(@)]
            q == Reply(h.num_sec, <<y[1]>>)
<1>1. net \in [Inputs -> Seq(Packet)]
  BY DEF Types
<1>2. /\ rest \in [Inputs -> Seq(Packet)] /\ h \in Packet
      /\ \A x \in Inputs : \A p : In(rest, x, p) => In(net, x, p)
  BY <1>1, RestFacts
<1>3. y[1] \in Switch /\ h.num_sec \in 1 .. Waves /\ h.opcode = 1
  BY <1>2, InputFacts DEF Packet
<1>4. PICK r \in Repetido :
         \/ net' = Sent(rest, y[1], {y[2]}, q)
         \/ net' = Sent(rest, y[1], PortNo(y[1]) \ {y[2]}, Extended(h, y[1], r)) /\ Forwards(mod)
         \/ net' = rest
  BY DEF handle_ehddp_request_packets
<1>5. r \in BOOLEAN
  BY EhddpAssumption
<1>6. /\ q \in Packet /\ q.opcode = 2 /\ q.ids = <<y[1]>>
      /\ Extended(h, y[1], r) \in Packet
  BY <1>2, <1>3, <1>5, PacketFacts
<1>. HIDE DEF rest, q, h
<1>7. CASE net' = Sent(rest, y[1], {y[2]}, q)
  <2>1. /\ net' \in [Inputs -> Seq(Packet)]
        /\ \A x \in Inputs : \A p : In(net', x, p) =>
              In(rest, x, p) \/ (p = q /\ Peer[x][1] = y[1])
    BY <1>2, <1>6, <1>7, SentFacts, SMTT(30)
  <2>2. NetAfter(y[1], h, Forwards(mod))
    BY <1>2, <1>6, <2>1 DEF NetAfter, Output
  <2>. QED
    BY <2>2 DEF h
<1>8. CASE net' = Sent(rest, y[1], PortNo(y[1]) \ {y[2]}, Extended(h, y[1], r)) /\ Forwards(mod)
  <2>1. /\ net' \in [Inputs -> Seq(Packet)]
        /\ \A x \in Inputs : \A p : In(net', x, p) =>
              In(rest, x, p) \/ (p = Extended(h, y[1], r) /\ Peer[x][1] = y[1])
    BY <1>2, <1>6, <1>8, SentFacts, SMT
  <2>2. NetAfter(y[1], h, Forwards(mod))
    BY <1>2, <1>3, <1>8, <2>1 DEF NetAfter, Output
  <2>. QED
    BY <2>2 DEF h
<1>9. CASE net' = rest
  <2>1. NetAfter(y[1], h, Forwards(mod))
    BY <1>2, <1>9 DEF NetAfter
  <2>. QED
    BY <2>1 DEF h
<1>. QED
  BY <1>4, <1>7, <1>8, <1>9

\* and what it sends on a reply.
LEMMA ReplySends ==
    ASSUME Types, NEW y \in Inputs, net[y] # <<>>, Head(net[y]).opcode = 2,
           handle_ehddp_reply_packets(y[1], Head(net[y]), [net EXCEPT ![y] = Tail(@)])
    PROVE  NetAfter(y[1], Head(net[y]), FALSE)
<1>. DEFINE h == Head(net[y])
            rest == [net EXCEPT ![y] = Tail(@)]
            out == {found_port(y[1], h)}
<1>1. net \in [Inputs -> Seq(Packet)]
  BY DEF Types
<1>2. /\ rest \in [Inputs -> Seq(Packet)] /\ h \in Packet
      /\ \A x \in Inputs : \A p : In(rest, x, p) => In(net, x, p)
  BY <1>1, RestFacts
<1>3. y[1] \in Switch /\ h.opcode = 2
  BY <1>2, InputFacts
<1>4. PICK r \in Repetido :
         \/ net' = Sent(rest, y[1], out, Extended(h, y[1], r)) /\ Extended(h, y[1], r) # h
         \/ net' = rest
  BY DEF handle_ehddp_reply_packets
<1>5. r \in BOOLEAN
  BY EhddpAssumption
<1>6. Extended(h, y[1], r) \in Packet
  BY <1>2, <1>3, <1>5, EhddpAssumption, PacketFacts DEF Packet
<1>. HIDE DEF rest, h, out
<1>7. CASE net' = Sent(rest, y[1], out, Extended(h, y[1], r)) /\ Extended(h, y[1], r) # h
  <2>1. /\ net' \in [Inputs -> Seq(Packet)]
        /\ \A x \in Inputs : \A p : In(net', x, p) =>
              In(rest, x, p) \/ (p = Extended(h, y[1], r) /\ Peer[x][1] = y[1])
    BY <1>2, <1>6, <1>7, SentFacts, SMT
  <2>2. NetAfter(y[1], h, FALSE)
    BY <1>2, <1>3, <1>7, <2>1 DEF NetAfter, Output
  <2>. QED
    BY <2>2 DEF h
<1>8. CASE net' = rest
  <2>1. NetAfter(y[1], h, FALSE)
    BY <1>2, <1>8 DEF NetAfter
  <2>. QED
    BY <2>1 DEF h
<1>. QED
  BY <1>4, <1>7, <1>8

\* Before the first exploration the tree is its root.
LEMMA TreeInit == Init => TreeInv
<1>. SUFFICES ASSUME Init PROVE TreeInv
  OBVIOUS
<1>1. Types
  BY EhddpAssumption, SMT DEF Init, Types, NO_PORT
<1>2. \A x \in Inputs : \A p : ~In(net, x, p)
  BY SMT DEF Init, In
<1>. QED
  BY <1>1, <1>2, EhddpAssumption
  DEF Init, TreeInv, InBandTree, HasJoined, NO_PORT, PortNo, Sdn

\* A step that leaves the ports of the switches and the history alone, and
\* sends requests only from switches that have joined.
LEMMA TreeKept ==
    ASSUME TreeInv, UNCHANGED <<local_port, moved, joined>>,
           attached' \subseteq Switch, \A n \in attached' : HasJoined(n),
           net' \in [Inputs -> Seq(Packet)], timestamp_hddp' \in 0 .. Waves,
           \A x \in Inputs : \A p : In(net', x, p) /\ p.opcode = 1 => HasJoined(Peer[x][1])
    PROVE  TreeInv'
<1>1. Types'
  BY DEF TreeInv, Types
<1>2. InBandTree'
  BY DEF TreeInv, InBandTree
<1>. QED
  BY <1>1, <1>2 DEF TreeInv, HasJoined, In

\* Connected switches start an exploration;
LEMMA TreeStart == TreeInv /\ starteHDDPProcess => TreeInv'
<1>. SUFFICES ASSUME TreeInv, starteHDDPProcess PROVE TreeInv'
  OBVIOUS
<1>1. net \in [Inputs -> Seq(Packet)] /\ timestamp_hddp + 1 \in 1 .. Waves
  BY EhddpAssumption, SMT DEF TreeInv, Types, starteHDDPProcess
<1>2. ASSUME NEW x \in Inputs
      PROVE  /\ net'[x] \in Seq(Packet)
             /\ \A p : In(net', x, p) => In(net, x, p) \/ Peer[x][1] \in attached
  <2>. DEFINE q == Request(timestamp_hddp + 1, <<Peer[x][1]>>)
  <2>1. net'[x] = IF Peer[x][1] \in attached THEN Append(net[x], q) ELSE net[x]
    BY <1>2 DEF starteHDDPProcess
  <2>2. q \in Packet
    <3>1. <<Peer[x][1]>> \in Seq(Switch)
      BY InputFacts, SMT
    <3>. QED
      BY <1>1, <3>1 DEF Request, Packet
  <2>. HIDE DEF q
  <2>3. net[x] \in Seq(Packet)
    BY <1>1
  <2>4. CASE Peer[x][1] \in attached
    BY <2>1, <2>2, <2>3, <2>4, SMT
  <2>5. CASE Peer[x][1] \notin attached
    BY <2>1, <2>3, <2>5 DEF In
  <2>. QED
    BY <2>4, <2>5
<1>3. net' \in [Inputs -> Seq(Packet)]
  BY <1>2 DEF starteHDDPProcess
<1>4. \A x \in Inputs : \A p : In(net', x, p) /\ p.opcode = 1 => HasJoined(Peer[x][1])
  BY <1>2 DEF TreeInv
<1>5. /\ UNCHANGED <<local_port, moved, joined>> /\ attached' = attached
      /\ timestamp_hddp' \in 0 .. Waves
  BY <1>1, SMT DEF starteHDDPProcess, switches
<1>6. attached' \subseteq Switch /\ \A n \in attached' : HasJoined(n)
  BY <1>5 DEF TreeInv, Types
<1>. QED
  BY <1>3, <1>4, <1>5, <1>6, TreeKept

\* a switch connects over its in-band path;
LEMMA TreeAttach == ASSUME TreeInv, NEW n \in Switch, Attach(n) PROVE TreeInv'
<1>1. /\ UNCHANGED <<local_port, moved, joined, net, timestamp_hddp>>
      /\ attached' = attached \cup {n} /\ local_port[n] \in PortNo(n)
  BY DEF Attach, switches, app
<1>2. HasJoined(n)
  BY <1>1, SMT DEF TreeInv, InBandTree, HasJoined, PortNo, NO_PORT
<1>3. \A x \in Inputs : \A p : In(net', x, p) => In(net, x, p)
  BY <1>1 DEF In
<1>. QED
  BY <1>1, <1>2, <1>3, TreeKept DEF TreeInv, Types

\* The clock, the purge and stuttering touch none of it.
LEMMA TreeOther ==
    ASSUME TreeInv, UNCHANGED <<local_port, moved, joined, net, timestamp_hddp, attached>>
    PROVE  TreeInv'
<1>1. \A x \in Inputs : \A p : In(net', x, p) => In(net, x, p)
  BY DEF In
<1>. QED
  BY <1>1, TreeKept DEF TreeInv, Types

\* replies leave the tree alone;
LEMMA TreeReply == ASSUME TreeInv, NEW y \in Inputs, ReceiveReply(y[1], y[2]) PROVE TreeInv'
<1>1. y = <<y[1], y[2]>>
  BY InputFacts
<1>2. /\ net[y] # <<>> /\ Head(net[y]).opcode = 2
      /\ \/ process(y[1], y[2], Head(net[y]), [net EXCEPT ![y] = Tail(@)])
         \/ /\ handle_ehddp_reply_packets(y[1], Head(net[y]), [net EXCEPT ![y] = Tail(@)])
            /\ UNCHANGED timestamp_hddp
      /\ UNCHANGED <<local_port, moved, attached, joined>>
  BY <1>1, Zenon DEF ReceiveReply, switches, history, app
<1>3. Types
  BY DEF TreeInv
<1>4. NetAfter(y[1], Head(net[y]), FALSE) /\ timestamp_hddp' = timestamp_hddp
  BY <1>2, <1>3, ProcessSends, ReplySends
<1>5. net \in [Inputs -> Seq(Packet)]
  BY <1>3 DEF Types
<1>6. Head(net[y]) \in Packet
  BY <1>2, <1>5, RestFacts
<1>7. \A r \in Repetido : Extended(Head(net[y]), y[1], r).opcode = 2
  BY <1>2, <1>6 DEF Extended, Packet
<1>8. \A x \in Inputs : \A p : In(net', x, p) /\ p.opcode = 1 => In(net, x, p)
  BY <1>2, <1>4, <1>7, SMT DEF NetAfter, Output
<1>. QED
  BY <1>2, <1>3, <1>4, <1>8, TreeKept DEF TreeInv, Types, NetAfter

\* What a request does to a switch other than Root, as far as the tree goes.
LEMMA RequestStep ==
    ASSUME TreeInv, NEW y \in Inputs, ReceiveRequest(y[1], y[2]), y[1] # Root
    PROVE  \E how \in Outcomes :
             LET mod == ehddp_mod_local_port(y[1], y[2], Head(net[y]), how) IN
             /\ local_port' = [local_port EXCEPT ![y[1]] = mod.port]
             /\ moved' = IF mod.result = 1 /\ y[1] \in Sdn THEN moved \cup {y[1]} ELSE moved
             /\ joined' = Joined(y[1], y[2], mod)
             /\ attached' = attached /\ timestamp_hddp' = timestamp_hddp
             /\ NetAfter(y[1], Head(net[y]), Forwards(mod))
<1>1. y = <<y[1], y[2]>>
  BY InputFacts
<1>2. net[y] # <<>> /\ Head(net[y]).opcode = 1
  BY <1>1, Zenon DEF ReceiveRequest
<1>3. PICK how \in Outcomes :
         LET mod == ehddp_mod_local_port(y[1], y[2], Head(net[y]), how) IN
         /\ local_port' = [local_port EXCEPT ![y[1]] = mod.port]
         /\ moved' = IF mod.result = 1 /\ y[1] \in Sdn THEN moved \cup {y[1]} ELSE moved
         /\ joined' = Joined(y[1], y[2], mod)
         /\ \/ process(y[1], y[2], Head(net[y]), [net EXCEPT ![y] = Tail(@)])
            \/ /\ handle_ehddp_request_packets(y[1], y[2], Head(net[y]), mod,
                                               [net EXCEPT ![y] = Tail(@)])
               /\ UNCHANGED app
         /\ attached' = attached
  BY <1>1, ZenonT(30) DEF ReceiveRequest
<1>. DEFINE mod == ehddp_mod_local_port(y[1], y[2], Head(net[y]), how)
<1>4. Types
  BY DEF TreeInv
<1>. HIDE DEF mod
<1>5. CASE process(y[1], y[2], Head(net[y]), [net EXCEPT ![y] = Tail(@)])
  <2>1. NetAfter(y[1], Head(net[y]), FALSE) /\ timestamp_hddp' = timestamp_hddp
    BY <1>2, <1>4, <1>5, ProcessSends
  <2>2. NetAfter(y[1], Head(net[y]), Forwards(mod))
    BY <2>1 DEF NetAfter, Output
  <2>. QED
    BY <1>3, <2>1, <2>2, Zenon DEF mod
<1>6. CASE handle_ehddp_request_packets(y[1], y[2], Head(net[y]), mod, [net EXCEPT ![y] = Tail(@)])
           /\ UNCHANGED app
  <2>1. NetAfter(y[1], Head(net[y]), Forwards(mod)) /\ timestamp_hddp' = timestamp_hddp
    BY <1>2, <1>4, <1>6, RequestSends DEF app
  <2>. QED
    BY <1>3, <2>1, Zenon DEF mod
<1>. QED
  BY <1>3, <1>5, <1>6 DEF mod

\* and the first request to reach a switch adds it below its sender.
LEMMA TreeRequest == ASSUME TreeInv, NEW y \in Inputs, ReceiveRequest(y[1], y[2]) PROVE TreeInv'
<1>. DEFINE n == y[1]
            i == y[2]
            up == Ports[n][i]
<1>1. /\ y = <<n, i>> /\ n \in Switch /\ i \in PortNo(n) /\ i # NO_PORT
      /\ Peer[y][1] = up /\ up \in Switch
  BY InputFacts
<1>2. net[y] # <<>> /\ Head(net[y]).opcode = 1
  BY <1>1, Zenon DEF ReceiveRequest
<1>3. Types
  BY DEF TreeInv
<1>4. net \in [Inputs -> Seq(Packet)]
  BY <1>3 DEF Types
<1>5. In(net, y, Head(net[y])) /\ Head(net[y]) \in Packet
  BY <1>2, <1>4, RestFacts
<1>6. HasJoined(up)
  BY <1>1, <1>2, <1>5 DEF TreeInv
<1>7. CASE n = Root
  <2>1. /\ process(n, i, Head(net[y]), [net EXCEPT ![y] = Tail(@)])
        /\ UNCHANGED <<local_port, moved, attached, joined>>
    BY <1>1, <1>7, Zenon DEF ReceiveRequest, switches, history
  <2>2. NetAfter(n, Head(net[y]), FALSE) /\ timestamp_hddp' = timestamp_hddp
    BY <1>2, <1>3, <2>1, ProcessSends
  <2>3. \A x \in Inputs : \A p : In(net', x, p) /\ p.opcode = 1 => In(net, x, p)
    BY <1>2, <2>2, SMT DEF NetAfter, Output
  <2>. QED
    BY <1>3, <2>1, <2>2, <2>3, TreeKept DEF TreeInv, Types, NetAfter
<1>8. CASE n # Root
  <2>1. PICK how \in Outcomes :
          LET mod == ehddp_mod_local_port(n, i, Head(net[y]), how) IN
          /\ local_port' = [local_port EXCEPT ![n] = mod.port]
          /\ moved' = IF mod.result = 1 /\ n \in Sdn THEN moved \cup {n} ELSE moved
          /\ joined' = Joined(n, i, mod)
          /\ attached' = attached /\ timestamp_hddp' = timestamp_hddp
          /\ NetAfter(n, Head(net[y]), Forwards(mod))
    BY <1>8, RequestStep
  <2>. DEFINE mod == ehddp_mod_local_port(n, i, Head(net[y]), how)
  <2>2. \/ /\ mod.result = 0 /\ mod.port = local_port[n]
        \/ /\ mod.result = 1 /\ mod.port = local_port[n] /\ ~NeedsLocalPort(n)
        \/ /\ mod.result = 1 /\ mod.port = i /\ NeedsLocalPort(n)
        \/ /\ mod.result = 255 /\ mod.port \in {NO_PORT, FREED} /\ NeedsLocalPort(n)
    BY DEF ehddp_mod_local_port
  <2>3. /\ local_port' = [local_port EXCEPT ![n] = mod.port]
        /\ moved' = IF mod.result = 1 /\ n \in Sdn THEN moved \cup {n} ELSE moved
        /\ joined' = IF mod.result = 1 /\ joined[n].port = NO_PORT
                     THEN [joined EXCEPT ![n] = [port |-> i, depth |-> joined[up].depth + 1]]
                     ELSE joined
        /\ attached' = attached /\ timestamp_hddp' = timestamp_hddp
        /\ NetAfter(n, Head(net[y]), mod.result = 1)
    BY <2>1 DEF Joined, Forwards
  <2>. HIDE DEF mod, n, i, up
  <2>4. mod.port \in Int /\ local_port \in [Switch -> Int] /\ i \in Int
    BY <1>1, <1>3, <2>2, SMT DEF Types, PortNo, NO_PORT, FREED
  <2>5. joined \in [Switch -> [port : Int, depth : Nat]] /\ joined[up].depth \in Nat
    BY <1>1, <1>3 DEF Types
  <2>6. Types'
    BY <1>1, <1>3, <2>3, <2>4, <2>5, SMT DEF Types, NetAfter
  <2>7. \A m \in Switch : m # n => joined'[m] = joined[m] /\ local_port'[m] = local_port[m]
    BY <1>1, <2>3, <2>4, <2>5
  <2>8. local_port'[n] = mod.port
    BY <1>1, <2>3, <2>4
  <2>9. \/ joined[n].port # NO_PORT /\ joined'[n] = joined[n]
        \/ joined[n].port = NO_PORT /\ mod.result # 1 /\ joined'[n] = joined[n]
        \/ /\ joined[n].port = NO_PORT /\ mod.result = 1 /\ up # n
           /\ joined'[n].port = i /\ joined'[n].depth = joined[up].depth + 1
    BY <1>1, <1>6, <1>8, <2>3, <2>5 DEF HasJoined
  <2>10. \A m \in Switch : HasJoined(m) => HasJoined(m)'
    BY <1>1, <2>7, <2>9 DEF HasJoined
  <2>11. \A m \in Switch : HasJoined(m) => joined'[m] = joined[m]
    BY <1>1, <1>8, <2>7, <2>9 DEF HasJoined
  <2>12. /\ \A m \in NonSdn : local_port'[m] = NO_PORT
         /\ \A m \in moved' : local_port'[m] # NO_PORT
         /\ local_port'[Root] = NO_PORT /\ joined'[Root].port = NO_PORT
         /\ \A m \in Switch : joined'[m].port = NO_PORT \/ joined'[m].port \in PortNo(m)
    <3>1. \A m \in NonSdn : local_port'[m] = NO_PORT
      <4>1. \A m \in NonSdn : m \in Switch /\ local_port[m] = NO_PORT
        BY EhddpAssumption DEF TreeInv
      <4>2. n \in NonSdn => ~NeedsLocalPort(n)
        BY DEF NeedsLocalPort, Sdn
      <4>3. n \in NonSdn => mod.port = local_port[n]
        BY <2>2, <4>2
      <4>. QED
        BY <2>7, <2>8, <4>1, <4>3
    <3>2. \A m \in moved' : local_port'[m] # NO_PORT
      <4>1. \A m \in moved' \ {n} : local_port'[m] # NO_PORT
        BY <2>3, <2>4, SMT DEF TreeInv
      <4>2. n \in moved' => mod.port # NO_PORT
        BY <1>1, <2>2, <2>3, SMT DEF TreeInv, NeedsLocalPort
      <4>. QED
        BY <4>1, <4>2, <2>8
    <3>3. local_port'[Root] = NO_PORT /\ joined'[Root].port = NO_PORT
      BY <1>8, <2>7, EhddpAssumption DEF TreeInv
    <3>4. \A m \in Switch : joined'[m].port = NO_PORT \/ joined'[m].port \in PortNo(m)
      BY <1>1, <2>7, <2>9 DEF TreeInv
    <3>. QED
      BY <3>1, <3>2, <3>3, <3>4
  <2>13. InBandTree'
    <3>. SUFFICES ASSUME NEW m \in Switch
                  PROVE  /\ joined'[m].port # NO_PORT =>
                              LET u == Ports[m][joined'[m].port] IN
                              /\ m # Root
                              /\ u = Root \/ joined'[u].port # NO_PORT
                              /\ joined'[m].depth = joined'[u].depth + 1
                         /\ local_port'[m] \in PortNo(m) => local_port'[m] = joined'[m].port
                         /\ m \in Sdn /\ joined'[m].port # NO_PORT => local_port'[m] # NO_PORT
      BY DEF InBandTree
    <3>1. CASE joined'[m] = joined[m]
      <4>1. ASSUME joined[m].port # NO_PORT
            PROVE  LET u == Ports[m][joined[m].port] IN
                   /\ m # Root
                   /\ u = Root \/ joined'[u].port # NO_PORT
                   /\ joined[m].depth = joined'[u].depth + 1
        <5>. DEFINE u == Ports[m][joined[m].port]
        <5>1. /\ m # Root /\ (u = Root \/ joined[u].port # NO_PORT)
              /\ joined[m].depth = joined[u].depth + 1
          BY <4>1 DEF TreeInv, InBandTree
        <5>2. u \in Switch \cup {HOST}
          BY <4>1, EhddpAssumption, SMT DEF TreeInv, PortNo
        <5>3. u \in Switch => joined'[u] = joined[u]
          BY <5>1, <2>11 DEF HasJoined
        <5>4. u \notin Switch => joined'[u] = joined[u]
          BY <1>1, <2>3, <2>5, <5>2, EhddpAssumption, SMTT(30)
        <5>. QED
          BY <5>1, <5>3, <5>4
      <4>2. local_port'[m] \in PortNo(m) => local_port'[m] = joined[m].port
        <5>1. CASE m # n
          BY <5>1, <2>7 DEF TreeInv, InBandTree
        <5>2. CASE m = n
          <6>1. mod.port = local_port[n] => (mod.port \in PortNo(n) => mod.port = joined[n].port)
            BY <1>1 DEF TreeInv, InBandTree
          <6>2. NeedsLocalPort(n) => joined[n].port = NO_PORT
            BY <1>1 DEF TreeInv, InBandTree, NeedsLocalPort
          <6>3. mod.result = 1 /\ NeedsLocalPort(n) => FALSE
            BY <6>2, <2>9, <3>1, <5>2, <1>1
          <6>4. NO_PORT \notin PortNo(n) /\ FREED \notin PortNo(n)
            BY SMT DEF PortNo, NO_PORT, FREED
          <6>. QED
            BY <6>1, <6>3, <6>4, <2>2, <2>8, <5>2, SMT
        <5>. QED
          BY <5>1, <5>2
      <4>3. m \in Sdn /\ joined[m].port # NO_PORT => local_port'[m] # NO_PORT
        <5>1. CASE m # n
          BY <5>1, <2>7 DEF TreeInv, InBandTree
        <5>2. CASE m = n
          <6>1. m \in Sdn /\ joined[m].port # NO_PORT => local_port[n] # NO_PORT
            BY <5>2 DEF TreeInv, InBandTree
          <6>. QED
            BY <6>1, <2>2, <2>8, <5>2, <1>1 DEF NeedsLocalPort
        <5>. QED
          BY <5>1, <5>2
      <4>. QED
        BY <3>1, <4>1, <4>2, <4>3
    <3>2. CASE joined'[m] # joined[m]
      <4>1. /\ m = n /\ joined[n].port = NO_PORT /\ mod.result = 1 /\ up # n
            /\ joined'[n].port = i /\ joined'[n].depth = joined[up].depth + 1
        BY <3>2, <2>7, <2>9, SMT
      <4>2. joined'[up] = joined[up]
        BY <4>1, <2>7, <1>1
      <4>3. up = Root \/ joined'[up].port # NO_PORT
        BY <4>2, <1>6 DEF HasJoined
      <4>4. local_port'[n] \in PortNo(n) => local_port'[n] = i
        <5>1. local_port[n] \in PortNo(n) => FALSE
          BY <4>1, <1>1, SMT DEF TreeInv, InBandTree, PortNo, NO_PORT
        <5>. QED
          BY <5>1, <4>1, <2>2, <2>8, SMT
      <4>5. n \in Sdn => local_port'[n] # NO_PORT
        BY <4>1, <2>2, <2>8, <1>1, SMT DEF NeedsLocalPort, TreeInv
      <4>. QED
        BY <4>1, <4>2, <4>3, <4>4, <4>5, <1>8 DEF up
    <3>. QED
      BY <3>1, <3>2
  <2>14. \A x \in Inputs : \A p : In(net', x, p) /\ p.opcode = 1 => HasJoined(Peer[x][1])'
    <3>. SUFFICES ASSUME NEW x \in Inputs, NEW p, In(net', x, p), p.opcode = 1
                  PROVE  HasJoined(Peer[x][1])'
      OBVIOUS
    <3>1. Peer[x][1] \in Switch
      BY InputFacts
    <3>2. CASE In(net, x, p)
      BY <3>1, <3>2, <2>10 DEF TreeInv
    <3>3. CASE Peer[x][1] = n /\ mod.result = 1
      <4>1. HasJoined(n)'
        BY <3>3, <2>9, <1>1 DEF HasJoined
      <4>. QED
        BY <4>1, <3>3 DEF HasJoined
    <3>. QED
      BY <1>2, <2>3, <3>2, <3>3, SMT DEF NetAfter, Output
  <2>15. \A m \in attached' : HasJoined(m)'
    BY <2>3, <2>10, <1>3 DEF TreeInv, Types
  <2>. QED
    BY <2>6, <2>12, <2>13, <2>14, <2>15 DEF TreeInv, In
<1>. QED
  BY <1>7, <1>8

\* No step breaks the tree.
LEMMA TreeStep == TreeInv /\ [Next]_vars => TreeInv'
<1>. SUFFICES ASSUME TreeInv, [Next]_vars PROVE TreeInv'
  OBVIOUS
<1>1. CASE UNCHANGED vars
  BY <1>1, TreeOther DEF vars, switches, app, history
<1>2. CASE \E n \in Switch : Attach(n)
  BY <1>2, TreeAttach
<1>3. CASE \E n \in Switch : PurgeTables(n)
  BY <1>3, TreeOther DEF PurgeTables, app, history
<1>4. CASE Tick
  BY <1>4, TreeOther DEF Tick, app, history
<1>5. CASE WakeUp
  BY <1>5, TreeOther DEF WakeUp, switches, history
<1>. QED
  BY <1>1, <1>2, <1>3, <1>4, <1>5, TreeStart, TreeRequest, TreeReply DEF Next

\* In every network, whatever is delayed, expires or fails, the local ports
\* the switches make from eHDDP requests lead up a tree to Root.
THEOREM InBandPathsFormATree == Spec => []InBandTree
<1>1. TreeInv => InBandTree
  BY DEF TreeInv
<1>. QED
  BY <1>1, TreeInit, TreeStep, PTL DEF Spec
-----------------------------------------------------------------------------
(* The links the application learns *)

\* When num_repetido finds nothing past the end of a packet, and a packet has
\* room for two switches.
Readable == Repetido = {FALSE} /\ MAX_ELEMENTS >= 2

\* What a packet on its way to x says: a reply, and a request that nobody has
\* passed on, ends with the switch at the other end of the link, and two
\* switches next to each other in a reply are neighbours.
Truthful(x, p) ==
    /\ Len(p.ids) >= 1
    /\ p.opcode = 2 \/ Len(p.ids) = 1 => p.ids[Len(p.ids)] = Peer[x][1]
    /\ p.opcode = 2 => \A k \in 1 .. Len(p.ids) - 1 : {p.ids[k], p.ids[k + 1]} \in Links

\* What the application knows, and what packets say, is true.
LinkInv == NoFalseLinks /\ \A x \in Inputs : \A p : In(net, x, p) => Truthful(x, p)

\* Switches at the two ends of a port are linked.
LEMMA LinkFacts == ASSUME NEW y \in Inputs PROVE {Peer[y][1], y[1]} \in Links
<1>1. {y[1], Peer[y][1]} \in Links
  BY DEF Links
<1>. QED
  BY <1>1

\* A switch that reads a true packet sends true ones:
LEMMA OutputTruthful ==
    ASSUME Readable, NEW y \in Inputs, NEW h \in Packet, Truthful(y, h),
           NEW forwards, NEW x \in Inputs, Peer[x][1] = y[1],
           NEW p, Output(y[1], h, p, forwards)
    PROVE  Truthful(x, p)
<1>1. y[1] \in Switch /\ h.ids \in Seq(Switch) /\ Len(h.ids) \in Nat
  BY InputFacts, SMT DEF Packet
<1>2. CASE p.opcode = 2 /\ p.ids = <<y[1]>>
  BY <1>2, SMT DEF Truthful
<1>3. CASE h.opcode = 1 /\ p = Extended(h, y[1], FALSE)
  <2>1. p.opcode = 1
    BY <1>1, <1>3, PacketFacts, EhddpAssumption DEF Extended, Packet
  <2>2. CASE Len(h.ids) + 1 > MAX_ELEMENTS
    <3>1. p = h
      BY <1>3, <2>2 DEF Extended
    <3>2. Len(h.ids) >= 2
      BY <1>1, <2>2, EhddpAssumption, SMT DEF Readable
    <3>3. Len(p.ids) \in Nat /\ Len(p.ids) >= 2
      BY <3>1, <3>2, <1>1, Zenon
    <3>. QED
      BY <3>3, <2>1, SMT DEF Truthful
  <2>3. CASE ~(Len(h.ids) + 1 > MAX_ELEMENTS)
    <3>1. p.ids = Append(h.ids, y[1])
      BY <1>1, <1>3, <2>3 DEF Extended, Packet
    <3>2. Len(p.ids) = Len(h.ids) + 1 /\ Len(h.ids) >= 1
      BY <3>1, <1>1, SMT DEF Truthful
    <3>. QED
      BY <3>2, <2>1, <1>1, SMT DEF Truthful
  <2>. QED
    BY <2>2, <2>3
<1>4. CASE h.opcode = 2 /\ p = Extended(h, y[1], FALSE) /\ p # h
  <2>1. p.ids = Append(h.ids, y[1]) /\ p.opcode = 2
    BY <1>1, <1>4 DEF Extended, Packet
  <2>. DEFINE l == Len(h.ids)
  <2>2. /\ l \in Nat /\ l >= 1 /\ Len(p.ids) = l + 1 /\ p.ids[l + 1] = y[1]
        /\ \A k \in 1 .. l : p.ids[k] = h.ids[k]
    BY <2>1, <1>1, SMT DEF Truthful
  <2>3. {p.ids[l], p.ids[l + 1]} \in Links
    <3>1. h.ids[l] = Peer[y][1]
      BY <1>4 DEF Truthful
    <3>2. p.ids[l] = Peer[y][1]
      BY <3>1, <2>2, SMT
    <3>. QED
      BY <3>2, <2>2, LinkFacts
  <2>4. \A k \in 1 .. l - 1 : {h.ids[k], h.ids[k + 1]} \in Links
    BY <1>4 DEF Truthful
  <2>. HIDE DEF l
  <2>5. \A k \in 1 .. l : {p.ids[k], p.ids[k + 1]} \in Links
    <3>. TAKE k \in 1 .. l
    <3>1. CASE k = l
      BY <3>1, <2>3
    <3>2. CASE k # l
      <4>1. k \in 1 .. l - 1 /\ p.ids[k] = h.ids[k] /\ p.ids[k + 1] = h.ids[k + 1]
        BY <3>2, <2>2, SMT
      <4>. QED
        BY <4>1, <2>4
    <3>. QED
      BY <3>1, <3>2
  <2>. QED
    BY <2>1, <2>2, <2>5, SMT DEF Truthful
<1>. QED
  BY <1>2, <1>3, <1>4 DEF Output, Readable

\* The application, handling a truthful packet, learns only links there are.
LEMMA ProcessTruthful ==
    ASSUME NoFalseLinks, NEW y \in Inputs, NEW h \in Packet, Truthful(y, h), NEW rest,
           process(y[1], y[2], h, rest)
    PROVE  NoFalseLinks'
<1>1. h.ids \in Seq(Switch) /\ Len(h.ids) \in Nat
  BY SMT DEF Packet
<1>2. configuredLinks' = configuredLinks \/
      /\ (h.opcode = 2 \/ Len(h.ids) = 1)
      /\ configuredLinks' = configuredLinks \cup PathLinks(y[1], h.ids)
  BY DEF process
<1>3. ASSUME h.opcode = 2 \/ Len(h.ids) = 1 PROVE PathLinks(y[1], h.ids) \subseteq Links
  <2>1. h.ids[Len(h.ids)] = Peer[y][1]
    BY <1>3 DEF Truthful
  <2>2. {h.ids[Len(h.ids)], y[1]} \in Links
    BY <2>1, LinkFacts
  <2>3. \A k \in 1 .. Len(h.ids) - 1 : {h.ids[k], h.ids[k + 1]} \in Links
    BY <1>1, <1>3, SMTT(30) DEF Truthful
  <2>. QED
    BY <2>2, <2>3 DEF PathLinks
<1>. QED
  BY <1>2, <1>3 DEF NoFalseLinks

\* those that start an exploration,
LEMMA LinkStart == TreeInv /\ LinkInv /\ starteHDDPProcess => LinkInv'
<1>. SUFFICES ASSUME TreeInv, LinkInv, starteHDDPProcess PROVE LinkInv'
  OBVIOUS
<1>1. NoFalseLinks'
  BY DEF LinkInv, NoFalseLinks, starteHDDPProcess
<1>2. ASSUME NEW x \in Inputs, NEW p, In(net', x, p) PROVE Truthful(x, p)
  <2>. DEFINE q == Request(timestamp_hddp + 1, <<Peer[x][1]>>)
  <2>1. net'[x] = Append(net[x], q) \/ net'[x] = net[x]
    BY DEF starteHDDPProcess
  <2>2. net[x] \in Seq(Packet)
    BY DEF TreeInv, Types
  <2>3. Truthful(x, q)
    BY SMT DEF Truthful, Request
  <2>. HIDE DEF q
  <2>4. PICK k \in 1 .. Len(net'[x]) : net'[x][k] = p
    BY <1>2 DEF In
  <2>5. p = q \/ In(net, x, p)
    BY <2>1, <2>2, <2>4, SMT DEF In
  <2>. QED
    BY <2>3, <2>5 DEF LinkInv
<1>. QED
  BY <1>1, <1>2 DEF LinkInv, In

\* A switch or the application handles the packet at the head of input y.
LEMMA LinkHandled ==
    ASSUME Readable, TreeInv, LinkInv, NEW y \in Inputs, net[y] # <<>>, NEW forwards,
           NetAfter(y[1], Head(net[y]), forwards),
           \/ configuredLinks' = configuredLinks
           \/ process(y[1], y[2], Head(net[y]), [net EXCEPT ![y] = Tail(@)])
    PROVE  LinkInv'
<1>1. Head(net[y]) \in Packet /\ Truthful(y, Head(net[y]))
  BY RestFacts DEF TreeInv, Types, LinkInv
<1>2. NoFalseLinks'
  <2>1. CASE configuredLinks' = configuredLinks
    BY <2>1 DEF LinkInv, NoFalseLinks
  <2>2. CASE process(y[1], y[2], Head(net[y]), [net EXCEPT ![y] = Tail(@)])
    BY <1>1, <2>2, ProcessTruthful DEF LinkInv
  <2>. QED
    BY <2>1, <2>2
<1>3. ASSUME NEW x \in Inputs, NEW p, In(net', x, p) PROVE Truthful(x, p)
  <2>1. CASE In(net, x, p)
    BY <2>1 DEF LinkInv
  <2>2. CASE Peer[x][1] = y[1] /\ Output(y[1], Head(net[y]), p, forwards)
    BY <1>1, <2>2, OutputTruthful
  <2>. QED
    BY <1>3, <2>1, <2>2 DEF NetAfter
<1>. QED
  BY <1>2, <1>3 DEF LinkInv, In

\* those it sends on a request,
LEMMA LinkRequest ==
    ASSUME Readable, TreeInv, LinkInv, NEW y \in Inputs, ReceiveRequest(y[1], y[2])
    PROVE  LinkInv'
<1>1. y = <<y[1], y[2]>>
  BY InputFacts
<1>2. net[y] # <<>> /\ Head(net[y]).opcode = 1
  BY <1>1, Zenon DEF ReceiveRequest
<1>3. PICK mod :
         \/ process(y[1], y[2], Head(net[y]), [net EXCEPT ![y] = Tail(@)])
         \/ /\ handle_ehddp_request_packets(y[1], y[2], Head(net[y]), mod,
                                            [net EXCEPT ![y] = Tail(@)])
            /\ UNCHANGED app
  BY <1>1, Zenon DEF ReceiveRequest
<1>4. CASE process(y[1], y[2], Head(net[y]), [net EXCEPT ![y] = Tail(@)])
  BY <1>2, <1>4, ProcessSends, LinkHandled DEF TreeInv
<1>5. CASE /\ handle_ehddp_request_packets(y[1], y[2], Head(net[y]), mod,
                                           [net EXCEPT ![y] = Tail(@)])
           /\ UNCHANGED app
  <2>1. NetAfter(y[1], Head(net[y]), Forwards(mod))
    BY <1>2, <1>5, RequestSends DEF TreeInv
  <2>. QED
    BY <1>2, <1>5, <2>1, LinkHandled DEF app
<1>. QED
  BY <1>3, <1>4, <1>5

\* and those it sends on a reply.
LEMMA LinkReply ==
    ASSUME Readable, TreeInv, LinkInv, NEW y \in Inputs, ReceiveReply(y[1], y[2])
    PROVE  LinkInv'
<1>1. y = <<y[1], y[2]>>
  BY InputFacts
<1>2. /\ net[y] # <<>> /\ Head(net[y]).opcode = 2
      /\ \/ process(y[1], y[2], Head(net[y]), [net EXCEPT ![y] = Tail(@)])
         \/ /\ handle_ehddp_reply_packets(y[1], Head(net[y]), [net EXCEPT ![y] = Tail(@)])
            /\ UNCHANGED configuredLinks
  BY <1>1, Zenon DEF ReceiveReply, app
<1>3. NetAfter(y[1], Head(net[y]), FALSE)
  BY <1>2, ProcessSends, ReplySends DEF TreeInv
<1>. QED
  BY <1>2, <1>3, LinkHandled

\* Other steps touch neither packets nor links.
LEMMA LinkOther ==
    ASSUME LinkInv, UNCHANGED <<net, configuredLinks>> PROVE LinkInv'
BY DEF LinkInv, NoFalseLinks, In

\* No step teaches a false link.
LEMMA LinkStep == ASSUME Readable PROVE TreeInv /\ LinkInv /\ [Next]_vars => LinkInv'
<1>. SUFFICES ASSUME TreeInv, LinkInv, [Next]_vars PROVE LinkInv'
  OBVIOUS
<1>1. CASE UNCHANGED vars
  BY <1>1, LinkOther DEF vars, app
<1>2. CASE \E n \in Switch : Attach(n)
  BY <1>2, LinkOther DEF Attach, app
<1>3. CASE \E n \in Switch : PurgeTables(n)
  BY <1>3, LinkOther DEF PurgeTables, app
<1>4. CASE Tick
  BY <1>4, LinkOther DEF Tick, app
<1>5. CASE WakeUp
  BY <1>5 DEF WakeUp, LinkInv, NoFalseLinks, In
<1>. QED
  BY <1>1, <1>2, <1>3, <1>4, <1>5, LinkStart, LinkRequest, LinkReply DEF Next

\* Whatever is delayed, expires or fails, the application knows of no link
\* the network does not have, as long as the switches read the packets right.
THEOREM LearnsOnlyLinks == ASSUME Readable PROVE Spec => []NoFalseLinks
<1>1. Init => LinkInv
  BY SMT DEF Init, LinkInv, NoFalseLinks, In
<1>2. LinkInv => NoFalseLinks
  BY DEF LinkInv
<1>3. TreeInv /\ LinkInv /\ [Next]_vars => LinkInv'
  BY LinkStep
<1>. QED
  BY <1>1, <1>2, <1>3, TreeInit, TreeStep, PTL DEF Spec

-----------------------------------------------------------------------------
(* Once down and once up *)

\* Packets arrive before the clock ticks, an entry lives for a tick at least, and
\* a packet has room for a switch.
Calm == ~SlowNetwork /\ LIFETIME > 0 /\ MAX_ELEMENTS >= 1

\* The entries of a switch's table.
Entries(n) ==
    [mac : {MAC_GENERIC}, port_in : PortNo(n), left : EXPIRED .. LIFETIME, num_sec : 1 .. Waves]

\* A switch that took the request of the present exploration.
Fresh(n) ==
    /\ Len(bt_table[n]) > 0 /\ bt_table[n][1].num_sec = timestamp_hddp
    /\ bt_table[n][1].left > 0

\* A switch that has joined the present exploration.
Reached(n) == n \in attached \/ Fresh(n)

\* Where such a switch sends replies, and the switches that send them on.
Parent(n) == Ports[n][bt_table[n][1].port_in]

Way == [n \in {k \in Switch \ attached : Fresh(k)} |-> Parent(n)]

\* The packets under way to x.
Under(x) == {net[x][k] : k \in 1 .. Len(net[x])}

\* The type of the tables.
Tables ==
    /\ bt_table = [n \in Switch |-> bt_table[n]]
    /\ \A n \in Switch : bt_table[n] \in Seq(Entries(n))

\* What found_port() and a request do to the table of a switch.
LEMMA RecordedFacts ==
    ASSUME Tables, NEW n \in Switch, NEW i \in PortNo(n), NEW h \in Packet
    PROVE  LET t == bt_table[n]
               u == Recorded(n, i, h)
           IN  /\ u \in Seq(Entries(n)) /\ Len(u) > 0
               /\ found_port(n, h) > 0 <=>
                    Len(t) > 0 /\ t[1].left >= 0 /\ t[1].num_sec = h.num_sec
               /\ found_port(n, h) > 0 => u[1] = t[1]
               /\ ~(found_port(n, h) > 0) =>
                    u[1].port_in = i /\ u[1].num_sec = h.num_sec /\ u[1].left = LIFETIME
               /\ \A k \in 1 .. Len(u) :
                    u[k].num_sec = h.num_sec \/ \E j \in 1 .. Len(t) : u[k] = t[j]
<1>. DEFINE E == Entries(n)
            t == bt_table[n]
            s == h.num_sec
            f == mac_to_port_found_port(t, MAC_GENERIC, s)
            a == mac_to_port_add(t, MAC_GENERIC, i, LIFETIME, s)
            u == mac_to_port_update(t, MAC_GENERIC, i, LIFETIME, s)
            e == [mac |-> MAC_GENERIC, port_in |-> i, left |-> LIFETIME, num_sec |-> s]
<1>1. t \in Seq(E) /\ LIFETIME \in Nat /\ s \in 1 .. Waves /\ Len(t) \in Nat
  BY EhddpAssumption, SMT DEF Tables, Packet
<1>2. /\ \A x \in E : x.mac = MAC_GENERIC /\ x.port_in \in PortNo(n) /\ x.left \in EXPIRED .. LIFETIME
      /\ \A x \in E : x = [g \in {"mac", "port_in", "left", "num_sec"} |-> x[g]]
      /\ e \in E
  BY <1>1, SMT DEF Entries, EXPIRED
<1>. HIDE DEF E, t, s
<1>3. f = IF Len(t) = 0 THEN -1 ELSE IF t[1].left >= 0 /\ t[1].num_sec = s THEN t[1].port_in ELSE 0
  <2>1. \A x \in E : x.mac = MAC_GENERIC
    BY <1>2
  <2>. QED
    BY <1>1, <2>1, FoundFirst
<1>4. Len(t) > 0 => t[1].port_in \in Nat /\ t[1].port_in > 0
  BY <1>1, <1>2, SMT DEF PortNo
<1>5. /\ a \in Seq(E) /\ Len(a) = Len(t) + 1 /\ a[Len(t) + 1] = e
      /\ \A k \in 1 .. Len(t) : a[k] = t[k]
  BY <1>1, <1>2, SMT DEF mac_to_port_add
<1>6. Len(t) > 0 => /\ u \in Seq(E) /\ Len(u) = Len(t) /\ u[1] = e
                    /\ \A k \in 2 .. Len(t) : u[k] = t[k]
  <2>. SUFFICES ASSUME Len(t) > 0
                PROVE  /\ u \in Seq(E) /\ Len(u) = Len(t) /\ u[1] = e
                       /\ \A k \in 2 .. Len(t) : u[k] = t[k]
    OBVIOUS
  <2>1. Later(t[1].left, LIFETIME) = LIFETIME
    BY <1>1, <1>2, SMT DEF Later, EXPIRED
  <2>. HIDE DEF u
  <2>. QED
    BY <1>1, <1>2, <2>1, UpdateFirst, SMT DEF u
<1>7. found_port(n, h) = f /\ Recorded(n, i, h) = IF f = 0 THEN u ELSE a
  BY DEF found_port, Recorded, t, s
<1>. HIDE DEF f, a, u, e
<1>8. f > 0 <=> Len(t) > 0 /\ t[1].left >= 0 /\ t[1].num_sec = s
  BY <1>1, <1>3, <1>4, SMT
<1>9. CASE f = 0
  <2>1. Len(t) > 0 /\ Recorded(n, i, h) = u /\ ~(f > 0)
    BY <1>1, <1>3, <1>7, <1>9, SMT
  <2>. QED
    BY <1>1, <1>6, <1>7, <1>8, <2>1, SMT DEF E, t, s, e
<1>10. CASE f # 0
  <2>1. Recorded(n, i, h) = a
    BY <1>7, <1>10
  <2>2. f > 0 => Len(t) > 0
    BY <1>8
  <2>3. ~(f > 0) => Len(t) = 0
    BY <1>1, <1>3, <1>4, <1>10, SMT
  <2>4. ~(f > 0) => a[1].port_in = i /\ a[1].num_sec = s /\ a[1].left = LIFETIME
    BY <1>5, <2>3, SMT DEF e
  <2>5. f > 0 => a[1] = t[1]
    BY <1>1, <1>5, <2>2, SMT
  <2>6. \A k \in 1 .. Len(a) : a[k].num_sec = s \/ \E j \in 1 .. Len(t) : a[k] = t[j]
    BY <1>1, <1>5, SMT DEF e
  <2>. QED
    BY <1>1, <1>5, <1>7, <1>8, <2>1, <2>4, <2>5, <2>6, SMT DEF E, t, s
<1>. QED
  BY <1>9, <1>10

\* Under and In say the same.
LEMMA UnderIn ==
    ASSUME NEW x \in Inputs PROVE /\ \A p : p \in Under(x) <=> In(net, x, p)
                                  /\ \A p : (p \in Under(x))' <=> In(net', x, p)
BY DEF Under, In

\* Receiving takes the first packet away.
LEMMA RestKeeps ==
    ASSUME NEW w \in [Inputs -> Seq(Packet)], NEW y \in Inputs, w[y] # <<>>,
           NEW x \in Inputs, NEW p, In(w, x, p)
    PROVE  In([w EXCEPT ![y] = Tail(@)], x, p) \/ (x = y /\ p = Head(w[y]))
<1>1. w[y] \in Seq(Packet) /\ Len(w[y]) \in Nat /\ Len(w[y]) > 0 /\ Tail(w[y]) \in Seq(Packet)
  BY SMT
<1>2. CASE x # y
  BY <1>2 DEF In
<1>3. CASE x = y
  <2>1. PICK k \in 1 .. Len(w[y]) : w[y][k] = p
    BY <1>3 DEF In
  <2>2. CASE k = 1
    BY <1>1, <1>3, <2>1, <2>2, SMT
  <2>3. CASE k # 1
    <3>1. k - 1 \in 1 .. Len(Tail(w[y])) /\ Tail(w[y])[k - 1] = p
      BY <1>1, <2>1, <2>3, SMT
    <3>. QED
      BY <1>3, <3>1 DEF In
  <2>. QED
    BY <2>2, <2>3
<1>. QED
  BY <1>2, <1>3

\* Sending keeps what is under way and adds the packet at the other ends.
LEMMA SentKeeps ==
    ASSUME NEW w \in [Inputs -> Seq(Packet)], NEW n, NEW out, NEW q \in Packet,
           NEW x \in Inputs
    PROVE  /\ \A p : In(w, x, p) => In(Sent(w, n, out, q), x, p)
           /\ Peer[x][1] = n /\ Peer[x][2] \in out => In(Sent(w, n, out, q), x, q)
           /\ \A p : In(Sent(w, n, out, q), x, p) =>
                 In(w, x, p) \/ (p = q /\ Peer[x][1] = n /\ Peer[x][2] \in out)
<1>1. w[x] \in Seq(Packet) /\ Len(w[x]) \in Nat
  BY SMT
<1>2. Sent(w, n, out, q)[x] = IF Peer[x][1] = n /\ Peer[x][2] \in out
                              THEN Append(w[x], q) ELSE w[x]
  BY DEF Sent
<1>3. CASE Peer[x][1] = n /\ Peer[x][2] \in out
  <2>1. /\ Len(Append(w[x], q)) = Len(w[x]) + 1 /\ Append(w[x], q)[Len(w[x]) + 1] = q
        /\ \A k \in 1 .. Len(w[x]) : Append(w[x], q)[k] = w[x][k]
    BY <1>1, SMT
  <2>2. Sent(w, n, out, q)[x] = Append(w[x], q)
    BY <1>2, <1>3
  <2>3. \A p : In(w, x, p) => In(Sent(w, n, out, q), x, p)
    BY <1>1, <2>1, <2>2, SMT DEF In
  <2>4. In(Sent(w, n, out, q), x, q)
    BY <1>1, <2>1, <2>2, SMT DEF In
  <2>5. \A p : In(Sent(w, n, out, q), x, p) => In(w, x, p) \/ p = q
    BY <1>1, <2>1, <2>2, SMT DEF In
  <2>. QED
    BY <1>3, <2>3, <2>4, <2>5
<1>4. CASE ~(Peer[x][1] = n /\ Peer[x][2] \in out)
  BY <1>2, <1>4 DEF In
<1>. QED
  BY <1>3, <1>4

\* What is sent out of a port gets to the switch at its other end.
LEMMA OtherSide ==
    ASSUME NEW x \in Inputs PROVE Peer[x][2] \in PortNo(Peer[x][1]) /\ Ports[Peer[x][1]][Peer[x][2]] = x[1]
<1>1. /\ x[1] \in Switch /\ x[2] \in PortNo(x[1]) /\ Peer[x][1] = Ports[x[1]][x[2]]
      /\ Peer[x][1] \in Switch
  BY InputFacts
<1>2. Peer[x] = OtherEnd(x[1], x[2])
  BY DEF Peer
<1>3. \E j \in PortNo(Ports[x[1]][x[2]]) : Ports[Ports[x[1]][x[2]]][j] = x[1]
  BY <1>1, EhddpAssumption DEF PortNo
<1>. QED
  BY <1>1, <1>2, <1>3, SMT DEF OtherEnd

\* At all times.
Steady ==
    /\ TypeOK /\ Tables /\ Root \in attached
    /\ \A n \in Switch : \A k \in 1 .. Len(bt_table[n]) :
          bt_table[n][k].num_sec <= timestamp_hddp
    /\ \A x \in Inputs : \A p \in Under(x) : p.num_sec = timestamp_hddp
    /\ floods \in [Switch -> [1 .. Waves -> Nat]]
    /\ FloodsOnce
    /\ \A n \in Switch : \A s \in 1 .. Waves : s > timestamp_hddp => floods[n][s] = 0

\* While packets are under way.
Active ==
    /\ timestamp_hddp \in 1 .. Waves
    /\ \A n \in Switch : \A k \in 1 .. Len(bt_table[n]) :
          bt_table[n][k].num_sec = timestamp_hddp => Fresh(n)
    /\ \A n \in Switch : floods[n][timestamp_hddp] > 0 => Fresh(n)
    /\ \A x \in Inputs : \A p \in Under(x) :
          /\ p.opcode = 1 => Reached(Peer[x][1])
          /\ p.opcode = 2 => Reached(x[1])
    /\ \A n \in Switch : Fresh(n) => <<n, bt_table[n][1].port_in>> \in Inputs /\ Reached(Parent(n))
    /\ \A n \in Switch : Reached(n) => Climbs(n, timestamp_hddp)

\* The inductive invariant: the tables speak of the present exploration only while
\* its packets are under way.
OnceInv == TreeInv /\ Steady /\ (~Quiet => Active)

\* The packet that y receives next,
First(y) == Head(net[y])

\* and the network without it.
Rest(y) == [net EXCEPT ![y] = Tail(@)]

\* Where a switch with table t sends the replies of an exploration.
LEMMA FirstEntry ==
    ASSUME NEW n \in Switch, NEW t \in Seq(Entries(n)), NEW s
    PROVE  /\ mac_to_port_found_port(t, MAC_GENERIC, s) =
                 IF Len(t) = 0 THEN -1
                 ELSE IF t[1].left >= 0 /\ t[1].num_sec = s THEN t[1].port_in ELSE 0
           /\ Len(t) > 0 =>
                 /\ t[1] \in Entries(n) /\ t[1].port_in \in PortNo(n)
                 /\ t[1].port_in > 0 /\ t[1].left \in EXPIRED .. LIFETIME
<1>1. Len(t) \in Nat
  BY SMT
<1>2. \A x \in Entries(n) : /\ x.mac = MAC_GENERIC /\ x.port_in \in PortNo(n)
                            /\ x.left \in EXPIRED .. LIFETIME
  BY DEF Entries
<1>3. \A x \in Entries(n) : x.mac = MAC_GENERIC
  BY <1>2
<1>4. Len(t) > 0 => t[1] \in Entries(n)
  BY <1>1, SMT
<1>5. mac_to_port_found_port(t, MAC_GENERIC, s) =
        IF Len(t) = 0 THEN -1
        ELSE IF t[1].left >= 0 /\ t[1].num_sec = s THEN t[1].port_in ELSE 0
  BY <1>1, <1>3, FoundFirst
<1>. QED
  BY <1>2, <1>4, <1>5, SMT DEF PortNo

\* While packets are under way, the switches that have a way up for them are
\* those that took the request.
LEMMA FreshUp ==
    ASSUME Tables, Active, NEW n \in Switch
    PROVE  /\ Up(n, timestamp_hddp) > 0 <=> Fresh(n)
           /\ Fresh(n) => /\ Up(n, timestamp_hddp) = bt_table[n][1].port_in
                          /\ bt_table[n][1].port_in \in PortNo(n)
<1>1. Len(bt_table[n]) \in Nat
  BY SMT DEF Tables
<1>2. Len(bt_table[n]) > 0 /\ bt_table[n][1].num_sec = timestamp_hddp => Fresh(n)
  BY <1>1, SMT DEF Active
<1>. QED
  BY <1>1, <1>2, FirstEntry, SMT DEF Fresh, EXPIRED, Tables, Up

\* A way up stays one when switches attach and others take the request.
LEMMA ClimbsKept ==
    ASSUME attached \subseteq attached', attached' \subseteq Switch, NEW s, NEW n, Climbs(n, s),
           \A m \in Switch : Up(m, s) > 0 => Up(m, s)' = Up(m, s)
    PROVE  Climbs(n, s)'
<1>. SUFFICES ASSUME NEW S \in SUBSET (Switch \ attached'),
                     \A m \in Switch \ attached' :
                        Up(m, s)' > 0 /\ Ports[m][Up(m, s)'] \in S \cup attached' => m \in S
              PROVE  n \in S \cup attached'
  BY DEF Climbs
<1>. DEFINE T == S \cup (attached' \ attached)
<1>1. T \in SUBSET (Switch \ attached) /\ T \cup attached = S \cup attached'
  OBVIOUS
<1>2. ASSUME NEW m \in Switch \ attached, Up(m, s) > 0, Ports[m][Up(m, s)] \in T \cup attached
      PROVE  m \in T
  BY <1>1, <1>2
<1>3. n \in T \cup attached
  BY <1>1, <1>2 DEF Climbs
<1>. QED
  BY <1>1, <1>3



\* A step during an exploration: the first entries it made stay where they
\* are, and only the switches `new' make one.
TablesKept(new) ==
    /\ Tables' /\ timestamp_hddp' = timestamp_hddp
    /\ \A m \in Switch : Fresh(m) => Fresh(m)' /\ bt_table'[m][1].port_in = bt_table[m][1].port_in
    /\ \A m \in Switch : Fresh(m)' => Fresh(m) \/ m \in new
    /\ \A m \in Switch : \A k \in 1 .. Len(bt_table'[m]) :
          /\ bt_table'[m][k].num_sec <= timestamp_hddp
          /\ bt_table'[m][k].num_sec = timestamp_hddp => Fresh(m)'

\* Steps that leave the tables alone keep the ways up.
LEMMA SameTables ==
    ASSUME Steady, Active, UNCHANGED <<bt_table, timestamp_hddp>> PROVE TablesKept({})
BY DEF Steady, Active, TablesKept, Tables, Fresh

\* A request that comes to n by port i leaves a first entry of this
\* exploration; when there was none, it is port i's.
LEMMA RequestTables ==
    ASSUME Calm, Steady, Active, NEW n \in Switch, NEW i \in PortNo(n), NEW h \in Packet,
           h.num_sec = timestamp_hddp, timestamp_hddp' = timestamp_hddp,
           bt_table' = [bt_table EXCEPT ![n] = Recorded(n, i, h)]
    PROVE  /\ TablesKept({n}) /\ Fresh(n)'
           /\ ~Fresh(n) => bt_table'[n][1].port_in = i
           /\ found_port(n, h) > 0 <=> Fresh(n)
<1>. DEFINE u == Recorded(n, i, h)
            t == bt_table[n]
<1>1. Tables /\ bt_table = [m \in Switch |-> bt_table[m]] /\ timestamp_hddp \in Nat
  BY EhddpAssumption, SMT DEF Steady, Tables, Active
<1>2. /\ u \in Seq(Entries(n)) /\ Len(u) > 0
      /\ found_port(n, h) > 0 <=> Len(t) > 0 /\ t[1].left >= 0 /\ t[1].num_sec = h.num_sec
      /\ found_port(n, h) > 0 => u[1] = t[1]
      /\ ~(found_port(n, h) > 0) =>
            u[1].port_in = i /\ u[1].num_sec = h.num_sec /\ u[1].left = LIFETIME
      /\ \A k \in 1 .. Len(u) : u[k].num_sec = h.num_sec \/ \E j \in 1 .. Len(t) : u[k] = t[j]
  BY <1>1, RecordedFacts, SMTT(30)
<1>3. found_port(n, h) = Up(n, timestamp_hddp)
  BY DEF found_port, Up
<1>4. found_port(n, h) > 0 <=> Fresh(n)
  BY <1>1, <1>3, FreshUp
<1>5. bt_table'[n] = u /\ \A m \in Switch : m # n => bt_table'[m] = bt_table[m]
  BY <1>1
<1>. HIDE DEF u
<1>6. Fresh(n)'
  <2>1. CASE Fresh(n)
    BY <1>2, <1>4, <1>5, <2>1 DEF Fresh
  <2>2. CASE ~Fresh(n)
    BY <1>2, <1>4, <1>5, <2>2 DEF Fresh, Calm
  <2>. QED
    BY <2>1, <2>2
<1>7. \A m \in Switch : m # n => (Fresh(m)' <=> Fresh(m))
  BY <1>5 DEF Fresh
<1>8. Tables'
  <2>1. bt_table' = [m \in Switch |-> bt_table'[m]]
    BY <1>1
  <2>2. \A m \in Switch : bt_table'[m] \in Seq(Entries(m))
    BY <1>1, <1>2, <1>5 DEF Tables
  <2>. QED
    BY <2>1, <2>2 DEF Tables
<1>9. Fresh(n) => bt_table'[n][1].port_in = bt_table[n][1].port_in
  BY <1>2, <1>4, <1>5
<1>10. ~Fresh(n) => bt_table'[n][1].port_in = i
  BY <1>2, <1>4, <1>5
<1>11. ASSUME NEW m \in Switch, NEW k \in 1 .. Len(bt_table'[m])
       PROVE  /\ bt_table'[m][k].num_sec <= timestamp_hddp
              /\ bt_table'[m][k].num_sec = timestamp_hddp => Fresh(m)'
  <2>1. CASE m = n
    BY <1>1, <1>2, <1>5, <1>6, <1>11, <2>1, SMTT(30) DEF Steady
  <2>2. CASE m # n
    BY <1>5, <1>7, <2>2 DEF Steady, Active
  <2>. QED
    BY <2>1, <2>2
<1>12. TablesKept({n})
  BY <1>5, <1>6, <1>7, <1>8, <1>9, <1>11 DEF TablesKept
<1>. QED
  BY <1>4, <1>6, <1>10, <1>12

\* The purge of a table keeps a first entry that has not expired.
LEMMA PurgedTables ==
    ASSUME Steady, Active, NEW n \in Switch, PurgeTables(n) PROVE TablesKept({})
<1>. DEFINE t == bt_table[n]
            d == mac_to_port_delete_timeout(t)
            u == mac_to_port_delete_timeout_ehddp(d)
<1>1. /\ Tables /\ bt_table = [m \in Switch |-> bt_table[m]] /\ timestamp_hddp \in Nat
      /\ t \in Seq(Entries(n)) /\ \A e \in Entries(n) : e.left \in Int
  BY EhddpAssumption, SMT DEF Steady, Tables, Active, Entries, EXPIRED
<1>2. timestamp_hddp' = timestamp_hddp /\ bt_table' = [bt_table EXCEPT ![n] = u]
  BY DEF PurgeTables, app
<1>3. /\ d \in Seq(Entries(n))
      /\ \A k \in 1 .. Len(d) : \E j \in 1 .. Len(t) : d[k] = t[j] /\ t[j].left > 0
      /\ Len(t) > 0 /\ t[1].left > 0 => Len(d) > 0 /\ d[1] = t[1]
  BY <1>1, PurgeFacts
<1>. HIDE DEF d
<1>4. u = d
  <2>1. d # <<>> => Len(d) \in Nat /\ 1 \in 1 .. Len(d)
    BY <1>3, SMT
  <2>2. d # <<>> => d[1] \in Entries(n) /\ d[1].left > 0
    BY <1>1, <1>3, <2>1, SMTT(30)
  <2>. QED
    BY <1>1, <2>2, SMT DEF mac_to_port_delete_timeout_ehddp
<1>. HIDE DEF u
<1>5. bt_table'[n] = d /\ \A m \in Switch : m # n => bt_table'[m] = bt_table[m]
  BY <1>1, <1>2, <1>4
<1>6. /\ bt_table' = [m \in Switch |-> bt_table'[m]]
      /\ \A m \in Switch : bt_table'[m] \in Seq(Entries(m))
  BY <1>1, <1>2, <1>3, <1>5 DEF Tables
<1>7. \A m \in Switch : Fresh(m) => Fresh(m)' /\ bt_table'[m][1].port_in = bt_table[m][1].port_in
  <2>1. Fresh(n) => Fresh(n)' /\ bt_table'[n][1] = bt_table[n][1]
    BY <1>2, <1>3, <1>5, SMT DEF Fresh
  <2>2. \A m \in Switch : m # n /\ Fresh(m) => Fresh(m)' /\ bt_table'[m][1] = bt_table[m][1]
    BY <1>2, <1>5 DEF Fresh
  <2>. QED
    BY <2>1, <2>2
<1>8. \A m \in Switch : \A k \in 1 .. Len(bt_table'[m]) :
         \E j \in 1 .. Len(bt_table[m]) : bt_table'[m][k] = bt_table[m][j]
  <2>1. \A k \in 1 .. Len(bt_table'[n]) :
           \E j \in 1 .. Len(bt_table[n]) : bt_table'[n][k] = bt_table[n][j]
    BY <1>3, <1>5
  <2>2. ASSUME NEW m \in Switch, m # n, NEW k \in 1 .. Len(bt_table'[m])
        PROVE  \E j \in 1 .. Len(bt_table[m]) : bt_table'[m][k] = bt_table[m][j]
    BY <1>5, <2>2
  <2>. QED
    BY <2>1, <2>2
<1>9. ASSUME NEW m \in Switch, NEW k \in 1 .. Len(bt_table'[m])
      PROVE  /\ bt_table'[m][k].num_sec <= timestamp_hddp
             /\ bt_table'[m][k].num_sec = timestamp_hddp => Fresh(m)
  <2>1. PICK j \in 1 .. Len(bt_table[m]) : bt_table'[m][k] = bt_table[m][j]
    BY <1>8
  <2>. QED
    BY <2>1 DEF Steady, Active
<1>10. \A m \in Switch : Fresh(m)' => Fresh(m)
  <2>1. \A m \in Switch : Len(bt_table'[m]) \in Nat
    BY <1>6, SMT
  <2>. QED
    BY <1>2, <1>9, <2>1, SMT DEF Fresh
<1>. QED
  BY <1>2, <1>6, <1>7, <1>9, <1>10 DEF TablesKept, Tables

\* The clock and the purge make no entries.
LEMMA AgedTables ==
    ASSUME Tables, Tick \/ \E n \in Switch : PurgeTables(n)
    PROVE  /\ Tables'
           /\ \A m \in Switch : \A k \in 1 .. Len(bt_table'[m]) :
                 \E j \in 1 .. Len(bt_table[m]) : bt_table'[m][k].num_sec = bt_table[m][j].num_sec
<1>1. CASE Tick
  <2>1. bt_table' = [n \in Switch |-> Aged(bt_table[n])]
    BY <1>1 DEF Tick
  <2>2. ASSUME NEW n \in Switch
        PROVE  /\ Aged(bt_table[n]) \in Seq(Entries(n))
               /\ \A k \in 1 .. Len(Aged(bt_table[n])) :
                     k \in 1 .. Len(bt_table[n]) /\ Aged(bt_table[n])[k].num_sec = bt_table[n][k].num_sec
    <3>. DEFINE t == bt_table[n]
    <3>1. t \in Seq(Entries(n)) /\ Len(t) \in Nat
      BY SMT DEF Tables
    <3>2. ASSUME NEW e \in Entries(n)
          PROVE  /\ [e EXCEPT !.left = Later(@ - 1, EXPIRED)] \in Entries(n)
                 /\ [e EXCEPT !.left = Later(@ - 1, EXPIRED)].num_sec = e.num_sec
      <4>1. e.left \in EXPIRED .. LIFETIME /\ LIFETIME \in Nat
        BY EhddpAssumption DEF Entries
      <4>2. Later(e.left - 1, EXPIRED) \in EXPIRED .. LIFETIME
        BY <4>1, SMT DEF Later, EXPIRED
      <4>. QED
        BY <4>2 DEF Entries
    <3>3. \A k \in 1 .. Len(t) : t[k] \in Entries(n)
      BY <3>1, SMT
    <3>. HIDE DEF t
    <3>4. Aged(t) = [k \in 1 .. Len(t) |-> [t[k] EXCEPT !.left = Later(@ - 1, EXPIRED)]]
      BY DEF Aged
    <3>5. \A k \in 1 .. Len(t) : Aged(t)[k] \in Entries(n) /\ Aged(t)[k].num_sec = t[k].num_sec
      BY <3>2, <3>3, <3>4
    <3>6. Aged(t) = [k \in 1 .. Len(t) |-> Aged(t)[k]]
      BY <3>4
    <3>7. Aged(t) \in Seq(Entries(n)) /\ Len(Aged(t)) = Len(t)
      BY <3>1, <3>5, <3>6, SMT
    <3>. QED
      BY <3>5, <3>7 DEF t
  <2>3. \A n \in Switch : bt_table'[n] = Aged(bt_table[n])
    BY <2>1
  <2>4. Tables'
    BY <2>1, <2>2, <2>3 DEF Tables
  <2>. QED
    BY <2>2, <2>3, <2>4
<1>2. ASSUME NEW n \in Switch, PurgeTables(n)
      PROVE  /\ Tables'
             /\ \A m \in Switch : \A k \in 1 .. Len(bt_table'[m]) :
                   \E j \in 1 .. Len(bt_table[m]) : bt_table'[m][k].num_sec = bt_table[m][j].num_sec
  <2>. DEFINE t == bt_table[n]
              d == mac_to_port_delete_timeout(t)
              u == mac_to_port_delete_timeout_ehddp(d)
  <2>1. t \in Seq(Entries(n)) /\ bt_table = [m \in Switch |-> bt_table[m]]
    BY DEF Tables
  <2>2. bt_table' = [bt_table EXCEPT ![n] = u]
    BY <1>2 DEF PurgeTables
  <2>3. d \in Seq(Entries(n)) /\ \A k \in 1 .. Len(d) : \E j \in 1 .. Len(t) : d[k] = t[j]
    BY <2>1, PurgeFacts, ZenonT(30)
  <2>4. u = d \/ u = <<>>
    BY DEF mac_to_port_delete_timeout_ehddp
  <2>. HIDE DEF d, u
  <2>5. u \in Seq(Entries(n)) /\ \A k \in 1 .. Len(u) : \E j \in 1 .. Len(t) : u[k] = t[j]
    <3>1. CASE u = <<>>
      BY <3>1, SMT
    <3>. QED
      BY <2>3, <2>4, <3>1
  <2>6. bt_table'[n] = u /\ \A m \in Switch : m # n => bt_table'[m] = bt_table[m]
    BY <2>1, <2>2
  <2>7. Tables'
    BY <2>1, <2>2, <2>5, <2>6 DEF Tables
  <2>8. ASSUME NEW m \in Switch, NEW k \in 1 .. Len(bt_table'[m])
        PROVE  \E j \in 1 .. Len(bt_table[m]) : bt_table'[m][k].num_sec = bt_table[m][j].num_sec
    <3>1. CASE m = n
      BY <2>5, <2>6, <2>8, <3>1
    <3>2. CASE m # n
      BY <2>6, <2>8, <3>2
    <3>. QED
      BY <3>1, <3>2
  <2>. QED
    BY <2>7, <2>8
<1>. QED
  BY <1>1, <1>2

\* At all times a packet names at least one switch and has room for those it names.
Sized == \A x \in Inputs : \A p : In(net, x, p) => Len(p.ids) \in 1 .. MAX_ELEMENTS

\* Packets stay as short as num_ids allows.
LEMMA SizedAfter ==
    ASSUME Calm, Types, Sized, NEW y \in Inputs, net[y] # <<>>, NEW forwards,
           NetAfter(y[1], Head(net[y]), forwards)
    PROVE  Sized'
<1>. DEFINE h == Head(net[y])
<1>1. h \in Packet /\ Len(h.ids) \in 1 .. MAX_ELEMENTS /\ h.ids \in Seq(Switch)
  BY RestFacts DEF Types, Sized, Packet
<1>2. y[1] \in Switch /\ MAX_ELEMENTS \in Nat /\ MAX_ELEMENTS >= 1
  BY InputFacts, EhddpAssumption DEF Calm
<1>3. ASSUME NEW r PROVE Len(Extended(h, y[1], r).ids) \in 1 .. MAX_ELEMENTS
  <2>1. CASE Extended(h, y[1], r) = h
    BY <1>1, <2>1
  <2>2. CASE Extended(h, y[1], r) # h
    <3>1. Len(h.ids) + 1 <= MAX_ELEMENTS /\ Extended(h, y[1], r).ids = Append(h.ids, y[1])
      BY <1>1, <1>2, <2>2, SMT DEF Extended, Packet
    <3>. QED
      BY <1>1, <1>2, <3>1, SMTT(30)
  <2>. QED
    BY <2>1, <2>2
<1>. HIDE DEF h
<1>4. ASSUME NEW p, Output(y[1], h, p, forwards) PROVE Len(p.ids) \in 1 .. MAX_ELEMENTS
  <2>1. p.ids = <<y[1]>> => Len(p.ids) \in 1 .. MAX_ELEMENTS
    BY <1>2, SMT
  <2>2. p.ids = <<y[1]>> \/ \E r : p = Extended(h, y[1], r)
    BY <1>4, Zenon DEF Output
  <2>3. ASSUME NEW r, p = Extended(h, y[1], r) PROVE Len(p.ids) \in 1 .. MAX_ELEMENTS
    BY <1>3, <2>3, Zenon
  <2>. QED
    BY <2>1, <2>2, <2>3, Zenon
<1>5. ASSUME NEW x \in Inputs, NEW p, In(net', x, p) PROVE Len(p.ids) \in 1 .. MAX_ELEMENTS
  BY <1>4, <1>5 DEF NetAfter, Sized, h
<1>. QED
  BY <1>5 DEF Sized, In

\* What handling a packet does to what the application knows.
LEMMA ProcessLearns ==
    ASSUME NEW y \in Inputs, NEW h \in Packet, Len(h.ids) >= 1, NEW rest,
           process(y[1], y[2], h, rest),
           configuredLinks \subseteq SUBSET Switch, link_sdn_nodes \subseteq Switch \X Switch
    PROVE  /\ configuredLinks' \subseteq SUBSET Switch
           /\ link_sdn_nodes' \subseteq Switch \X Switch
           /\ UNCHANGED <<timestamp_hddp, log_listo, sleeping>>
<1>1. h.ids \in Seq(Switch) /\ Len(h.ids) \in Nat /\ y[1] \in Switch
  BY InputFacts, SMT DEF Packet
<1>2. \A k \in 1 .. Len(h.ids) : h.ids[k] \in Switch
  BY <1>1, SMT
<1>3. PathLinks(y[1], h.ids) \subseteq SUBSET Switch
  BY <1>1, <1>2, SMT DEF PathLinks
<1>4. <<y[1], h.ids[1]>> \in Switch \X Switch
  BY <1>1, <1>2, SMT
<1>5. /\ configuredLinks' = configuredLinks \/ configuredLinks' = configuredLinks \cup PathLinks(y[1], h.ids)
      /\ \/ link_sdn_nodes' = link_sdn_nodes
         \/ link_sdn_nodes' = link_sdn_nodes \cup {<<y[1], h.ids[1]>>}
  BY Zenon DEF process
<1>6. UNCHANGED <<timestamp_hddp, log_listo, sleeping>>
  BY Zenon DEF process
<1>. QED
  BY <1>3, <1>4, <1>5, <1>6

\* TypeOK, with what is under way taken packet by packet.
TypeParts ==
    /\ \A n \in Switch : \A k \in 1 .. Len(bt_table[n]) : bt_table[n][k] \in Entries(n)
    /\ \A n \in Switch : local_port[n] \in PortNo(n) \cup {NO_PORT, FREED}
    /\ moved \subseteq Sdn /\ attached \subseteq Sdn
    /\ (\A x \in Inputs : \A p : In(net, x, p) => p \in Packet) /\ Sized
    /\ timestamp_hddp \in 0 .. Waves /\ configuredLinks \subseteq SUBSET Switch
    /\ link_sdn_nodes \subseteq Switch \X Switch /\ log_listo \in BOOLEAN /\ sleeping \in BOOLEAN

\* TypeOK variable by variable.
LEMMA TypesByPart == TypeOK <=> TypeParts
<1>1. (\A x \in Inputs : \A k \in 1 .. Len(net[x]) :
          net[x][k] \in Packet /\ Len(net[x][k].ids) \in 1 .. MAX_ELEMENTS)
      <=> (\A x \in Inputs : \A p : In(net, x, p) => p \in Packet) /\ Sized
  BY Zenon DEF In, Sized
<1>. QED
  BY <1>1, Zenon DEF TypeOK, TypeParts, Entries

\* The tables and packets are all that a type could be lost by.
LEMMA TypesKept ==
    ASSUME Tables', TreeInv', Sized', attached' \subseteq Sdn, moved' \subseteq Sdn,
           \A n \in Switch : local_port'[n] \in PortNo(n) \cup {NO_PORT, FREED}, configuredLinks' \subseteq SUBSET Switch,
           link_sdn_nodes' \subseteq Switch \X Switch, log_listo' \in BOOLEAN, sleeping' \in BOOLEAN
    PROVE  TypeOK'
<1>2. \A n \in Switch : \A k \in 1 .. Len(bt_table'[n]) : bt_table'[n][k] \in Entries(n)
  BY SMT DEF Tables
<1>3. timestamp_hddp' \in 0 .. Waves /\ net' \in [Inputs -> Seq(Packet)]
  BY DEF TreeInv, Types
<1>4. \A x \in Inputs : \A p : In(net, x, p)' => p \in Packet
  BY <1>3, SMT DEF In
<1>5. TypeParts'
  BY <1>2, <1>3, <1>4, Zenon DEF TypeParts
<1>. QED
  BY <1>5, TypesByPart, PTL

\* A step during an exploration: ways up grow from switches that were reached.
LEMMA ActiveStep ==
    ASSUME Steady, Active, NEW new, TablesKept(new), attached \subseteq attached', attached' \subseteq Switch,
           \A m \in Switch : Fresh(m)' /\ ~Fresh(m) =>
              <<m, bt_table'[m][1].port_in>> \in Inputs /\ Reached(Ports[m][bt_table'[m][1].port_in]),
           \A x \in Inputs : \A p : In(net', x, p) =>
              /\ p.opcode = 1 => Reached(Peer[x][1])'
              /\ p.opcode = 2 => Reached(x[1])',
           \A n \in Switch : floods'[n][timestamp_hddp] > 0 => Fresh(n)'
    PROVE  Active'
<1>1. Tables /\ Tables' /\ timestamp_hddp' = timestamp_hddp
  BY DEF Steady, TablesKept
<1>2. \A m \in Switch : Reached(m) => Reached(m)'
  BY DEF Reached, TablesKept
<1>3. ASSUME NEW m \in Switch, Fresh(m)'
      PROVE  /\ <<m, bt_table'[m][1].port_in>> \in Inputs
             /\ Ports[m][bt_table'[m][1].port_in] \in Switch
             /\ Reached(Ports[m][bt_table'[m][1].port_in])
  <2>1. <<m, bt_table'[m][1].port_in>> \in Inputs /\ Reached(Ports[m][bt_table'[m][1].port_in])
    BY <1>3 DEF Active, TablesKept, Parent
  <2>. QED
    BY <2>1, InputFacts
<1>4. PICK s : s = timestamp_hddp
  OBVIOUS
<1>5. ASSUME NEW m \in Switch, Fresh(m)'
      PROVE  Up(m, s)' = bt_table'[m][1].port_in /\ Up(m, s)' > 0
  <2>1. Len(bt_table'[m]) > 0 /\ bt_table'[m][1].num_sec = s /\ bt_table'[m][1].left > 0
    BY <1>1, <1>4, <1>5 DEF Fresh
  <2>2. bt_table'[m] \in Seq(Entries(m))
    BY <1>1 DEF Tables
  <2>3. /\ Up(m, s)' = IF Len(bt_table'[m]) = 0 THEN -1
                       ELSE IF bt_table'[m][1].left >= 0 /\ bt_table'[m][1].num_sec = s
                       THEN bt_table'[m][1].port_in ELSE 0
        /\ bt_table'[m][1].port_in > 0 /\ bt_table'[m][1].left \in EXPIRED .. LIFETIME
    BY <2>1, <2>2, FirstEntry DEF Up
  <2>. QED
    BY <2>1, <2>3, SMT DEF EXPIRED
<1>6. ASSUME NEW m \in Switch, Up(m, s) > 0 PROVE Up(m, s)' = Up(m, s)
  <2>1. Fresh(m) /\ Up(m, s) = bt_table[m][1].port_in
    BY <1>1, <1>4, <1>6, FreshUp
  <2>2. Fresh(m)' /\ bt_table'[m][1].port_in = bt_table[m][1].port_in
    BY <2>1 DEF TablesKept
  <2>. QED
    BY <1>5, <2>1, <2>2
<1>7. ASSUME NEW m \in Switch, Reached(m) PROVE Climbs(m, s)'
  <2>1. Climbs(m, s)
    BY <1>4, <1>7 DEF Active
  <2>. QED
    BY <1>6, <2>1, ClimbsKept
<1>8. ASSUME NEW m \in Switch, Reached(m)' PROVE Climbs(m, s)'
  <2>1. CASE m \in attached'
    BY <2>1 DEF Climbs
  <2>2. CASE Fresh(m)'
    <3>1. Ports[m][Up(m, s)'] \in Switch /\ Reached(Ports[m][Up(m, s)']) /\ Up(m, s)' > 0
      BY <1>3, <1>5, <2>2
    <3>2. Climbs(Ports[m][Up(m, s)], s)'
      BY <1>7, <3>1 DEF Climbs
    <3>. QED
      BY <3>1, <3>2 DEF Climbs
  <2>. QED
    BY <1>8, <2>1, <2>2 DEF Reached
<1>9. \A m \in Switch : Reached(m)' => Climbs(m, timestamp_hddp)'
  BY <1>1, <1>4, <1>8 DEF Climbs, Up
<1>10. ASSUME NEW m \in Switch, Fresh(m)' PROVE Reached(Parent(m))'
  <2>1. PICK u \in Switch : u = Ports[m][bt_table'[m][1].port_in] /\ Reached(u)
    BY <1>3, <1>10
  <2>2. Reached(u)'
    BY <1>2, <2>1
  <2>. QED
    BY <2>1, <2>2 DEF Reached, Parent, Fresh
<1>11. \A x \in Inputs : \A p : (p \in Under(x))' => In(net', x, p)
  BY UnderIn
<1>12. \A x \in Inputs : \A p \in Under(x)' :
          /\ p.opcode = 1 => Reached(Peer[x][1])'
          /\ p.opcode = 2 => Reached(x[1])'
  BY <1>11
<1>. QED
  BY <1>1, <1>3, <1>9, <1>10, <1>12 DEF Active, TablesKept

\* What a switch that is not connected does with a request: answer it, pass
\* it on or drop it.
Answers(y) ==
    net' = Sent(Rest(y), y[1], {y[2]}, Reply(timestamp_hddp, <<y[1]>>)) /\ floods' = floods

PassesOn(y) ==
    /\ \E r \in Repetido :
         net' = Sent(Rest(y), y[1], PortNo(y[1]) \ {y[2]}, Extended(First(y), y[1], r))
    /\ floods' = [floods EXCEPT ![y[1]][timestamp_hddp] = IF @ < 2 THEN @ + 1 ELSE @]

Drops(y) == net' = Rest(y) /\ floods' = floods

\* A received packet is one of the present exploration.
LEMMA FirstFacts ==
    ASSUME TreeInv, Steady, NEW y \in Inputs, net[y] # <<>>
    PROVE  /\ First(y) \in Packet /\ First(y) \in Under(y) /\ First(y).num_sec = timestamp_hddp
           /\ Rest(y) \in [Inputs -> Seq(Packet)] /\ ~Quiet
           /\ y = <<y[1], y[2]>> /\ y[1] \in Switch /\ y[2] \in PortNo(y[1])
           /\ timestamp_hddp \in 1 .. Waves
<1>1. /\ First(y) \in Packet /\ In(net, y, First(y)) /\ Rest(y) \in [Inputs -> Seq(Packet)]
  BY RestFacts DEF TreeInv, Types, First, Rest
<1>2. First(y) \in Under(y)
  BY <1>1, UnderIn
<1>. QED
  BY <1>1, <1>2, InputFacts DEF Steady, Quiet, Packet

\* What ReceiveRequest does, when the clock does not tick meanwhile:
\* a connected switch asks the application, another answers, passes on or drops,
\* and passes on only the first request.
LEMMA RequestEffect ==
    ASSUME Calm, TreeInv, Steady, Active, NEW y \in Inputs, ReceiveRequest(y[1], y[2])
    PROVE  /\ net[y] # <<>> /\ First(y).opcode = 1
           /\ attached' = attached /\ timestamp_hddp' = timestamp_hddp
           /\ y[1] = Root => bt_table' = bt_table
           /\ y[1] # Root => bt_table' = [bt_table EXCEPT ![y[1]] = Recorded(y[1], y[2], First(y))]
           /\ y[1] \in attached =>
                 process(y[1], y[2], First(y), Rest(y)) /\ floods' = floods
           /\ y[1] \notin attached =>
                 UNCHANGED app /\ (Answers(y) \/ (~Fresh(y[1]) /\ PassesOn(y)) \/ Drops(y))
<1>. DEFINE n == y[1]
            i == y[2]
            h == First(y)
<1>1. y = <<n, i>> /\ n \in Switch /\ i \in PortNo(n)
  BY InputFacts
<1>2. net[y] # <<>> /\ h.opcode = 1
  BY <1>1, Zenon DEF ReceiveRequest, First
<1>3. h \in Packet /\ h.num_sec = timestamp_hddp
  BY <1>2, FirstFacts
<1>4. CASE n = Root
  <2>1. process(n, i, h, Rest(y)) /\ UNCHANGED <<switches, attached, history>>
    BY <1>1, <1>4, Zenon DEF ReceiveRequest, First, Rest
  <2>2. timestamp_hddp' = timestamp_hddp
    BY <2>1, Zenon DEF process
  <2>3. Root \in attached
    BY DEF Steady
  <2>. QED
    BY <1>2, <1>4, <2>1, <2>2, <2>3, Zenon DEF switches, history
<1>5. CASE n # Root
  <2>1. PICK how \in Outcomes :
          LET mod == ehddp_mod_local_port(n, i, h, how) IN
          /\ bt_table' = [bt_table EXCEPT ![n] = Recorded(n, i, h)]
          /\ IF n \in attached
             THEN process(n, i, h, Rest(y)) /\ UNCHANGED floods
             ELSE handle_ehddp_request_packets(n, i, h, mod, Rest(y)) /\ UNCHANGED app
          /\ UNCHANGED attached
    BY <1>1, <1>5, Zenon DEF ReceiveRequest, First, Rest
  <2>2. CASE n \in attached
    <3>1. timestamp_hddp' = timestamp_hddp
      BY <2>1, <2>2, Zenon DEF process
    <3>. QED
      BY <1>2, <1>5, <2>1, <2>2, <3>1, Zenon
  <2>3. CASE n \notin attached
    <3>. DEFINE mod == ehddp_mod_local_port(n, i, h, how)
    <3>1. handle_ehddp_request_packets(n, i, h, mod, Rest(y)) /\ UNCHANGED app
      BY <2>1, <2>3
    <3>2. Forwards(mod) => ~Fresh(n)
      <4>1. found_port(n, h) = Up(n, timestamp_hddp)
        BY <1>3 DEF found_port, Up
      <4>2. found_port(n, h) > 0 => mod.result = 0
        BY DEF ehddp_mod_local_port
      <4>3. Fresh(n) => found_port(n, h) > 0
        BY <1>1, <4>1, FreshUp DEF Steady
      <4>. QED
        BY <4>2, <4>3, SMT DEF Forwards
    <3>. HIDE DEF mod
    <3>3. PICK r \in Repetido :
            LET answer == num_port_available(n, mod.port) = 1 \/ mod.result = 0
                flood == ~answer /\ Forwards(mod)
            IN  /\ net' = IF answer THEN Sent(Rest(y), n, {i}, Reply(h.num_sec, <<n>>))
                          ELSE IF flood THEN Sent(Rest(y), n, PortNo(n) \ {i}, Extended(h, n, r))
                          ELSE Rest(y)
                /\ floods' = IF flood THEN [floods EXCEPT ![n][h.num_sec] = IF @ < 2 THEN @ + 1 ELSE @]
                             ELSE floods
      BY <3>1 DEF handle_ehddp_request_packets
    <3>4. Answers(y) \/ (~Fresh(n) /\ PassesOn(y)) \/ Drops(y)
      BY <1>3, <3>2, <3>3, Zenon DEF Answers, PassesOn, Drops
    <3>5. timestamp_hddp' = timestamp_hddp
      BY <3>1 DEF app
    <3>. QED
      BY <1>2, <1>5, <2>1, <2>3, <3>1, <3>4, <3>5, Zenon
  <2>. QED
    BY <2>2, <2>3
<1>. QED
  BY <1>4, <1>5

\* The local ports after a request.
LEMMA RequestPorts ==
    ASSUME TreeInv, TypeOK, NEW y \in Inputs, ReceiveRequest(y[1], y[2])
    PROVE  /\ moved' \subseteq Sdn
           /\ \A n \in Switch : local_port'[n] \in PortNo(n) \cup {NO_PORT, FREED}
<1>1. /\ y = <<y[1], y[2]>> /\ y[1] \in Switch /\ y[2] \in PortNo(y[1])
      /\ moved \subseteq Sdn /\ \A n \in Switch : local_port[n] \in PortNo(n) \cup {NO_PORT, FREED}
  BY InputFacts DEF TypeOK
<1>2. CASE y[1] = Root
  <2>1. UNCHANGED <<local_port, moved>>
    BY <1>1, <1>2, Zenon DEF ReceiveRequest, switches
  <2>. QED
    BY <1>1, <2>1
<1>3. CASE y[1] # Root
  <2>1. PICK how \in Outcomes :
          LET mod == ehddp_mod_local_port(y[1], y[2], Head(net[y]), how) IN
          /\ local_port' = [local_port EXCEPT ![y[1]] = mod.port]
          /\ moved' = IF mod.result = 1 /\ y[1] \in Sdn THEN moved \cup {y[1]} ELSE moved
    BY <1>3, RequestStep
  <2>. DEFINE mod == ehddp_mod_local_port(y[1], y[2], Head(net[y]), how)
  <2>2. mod.port \in PortNo(y[1]) \cup {NO_PORT, FREED}
    BY <1>1 DEF ehddp_mod_local_port
  <2>. HIDE DEF mod
  <2>3. local_port \in [Switch -> Int]
    BY DEF TreeInv, Types
  <2>4. \A n \in Switch : local_port'[n] \in PortNo(n) \cup {NO_PORT, FREED}
    BY <1>1, <2>1, <2>2, <2>3 DEF mod
  <2>5. moved' \subseteq Sdn
    BY <1>1, <2>1, Zenon DEF mod
  <2>. QED
    BY <2>4, <2>5
<1>. QED
  BY <1>2, <1>3

\* What is under way after a request: what was, replies to the switch it came
\* from, and requests from a switch that has just taken it.
LEMMA RequestNet ==
    ASSUME Calm, TreeInv, Steady, Active, NEW y \in Inputs, ReceiveRequest(y[1], y[2]),
           NEW x \in Inputs, NEW p, In(net', x, p), ~In(net, x, p)
    PROVE  /\ p.num_sec = timestamp_hddp
           /\ \/ p.opcode = 2 /\ x[1] = Peer[y][1] /\ Peer[x] = y
              \/ p.opcode = 1 /\ Peer[x][1] = y[1] /\ y[1] \notin attached
<1>. DEFINE q == Reply(timestamp_hddp, <<y[1]>>)
<1>1. /\ First(y) \in Packet /\ First(y).num_sec = timestamp_hddp /\ First(y).opcode = 1
      /\ Rest(y) \in [Inputs -> Seq(Packet)] /\ net[y] # <<>>
      /\ y = <<y[1], y[2]>> /\ y[1] \in Switch /\ y[2] \in PortNo(y[1])
      /\ timestamp_hddp \in 1 .. Waves
  BY RequestEffect, FirstFacts
<1>2. ~In(Rest(y), x, p)
  BY <1>1, RestFacts DEF Rest, TreeInv, Types
<1>3. q \in Packet /\ q.opcode = 2 /\ q.num_sec = timestamp_hddp
  BY <1>1, PacketFacts DEF Reply
<1>4. Peer[y][1] = Ports[y[1]][y[2]] /\ Ports[Peer[x][1]][Peer[x][2]] = x[1]
      /\ Peer[x] = <<Peer[x][1], Peer[x][2]>>
  <2>1. Peer[x] = <<Peer[x][1], Peer[x][2]>>
    BY SMTT(30) DEF Peer, OtherEnd
  <2>. QED
    BY <2>1, InputFacts, OtherSide
<1>. HIDE DEF q
<1>5. CASE net' = Sent(Rest(y), y[1], {y[2]}, q)
  <2>1. p = q /\ Peer[x][1] = y[1] /\ Peer[x][2] = y[2]
    BY <1>1, <1>2, <1>3, <1>5, SentKeeps, SMT
  <2>. QED
    BY <1>1, <1>3, <1>4, <2>1
<1>6. CASE y[1] \notin attached /\ PassesOn(y)
  <2>1. PICK r \in Repetido :
          net' = Sent(Rest(y), y[1], PortNo(y[1]) \ {y[2]}, Extended(First(y), y[1], r))
    BY <1>6 DEF PassesOn
  <2>2. Extended(First(y), y[1], r) \in Packet /\ Extended(First(y), y[1], r).opcode = 1
    BY <1>1, PacketFacts, EhddpAssumption
  <2>3. Extended(First(y), y[1], r).num_sec = timestamp_hddp
    BY <1>1 DEF Extended, Packet
  <2>4. p = Extended(First(y), y[1], r) /\ Peer[x][1] = y[1]
    BY <1>1, <1>2, <2>1, <2>2, SentKeeps, SMT
  <2>. QED
    BY <1>6, <2>2, <2>3, <2>4
<1>7. net' # Rest(y)
  BY <1>2
<1>8. process(y[1], y[2], First(y), Rest(y)) => net' = Rest(y) \/ net' = Sent(Rest(y), y[1], {y[2]}, q)
  BY DEF process, q
<1>. QED
  BY <1>5, <1>6, <1>7, <1>8, RequestEffect DEF Answers, Drops, q

\* A request keeps the invariant, and opens a way up by the port it came in.
LEMMA OnceRequest ==
    ASSUME Calm, TreeInv, TreeInv', Steady, Active, NEW y \in Inputs, ReceiveRequest(y[1], y[2])
    PROVE  /\ Steady' /\ Active' /\ TablesKept({y[1]}) /\ (y[1] = Root \/ Fresh(y[1])')
           /\ y[1] # Root /\ ~Fresh(y[1]) => bt_table'[y[1]][1].port_in = y[2]
<1>. DEFINE n == y[1]
            i == y[2]
<1>1. /\ First(y) \in Packet /\ First(y).num_sec = timestamp_hddp /\ First(y).opcode = 1
      /\ Rest(y) \in [Inputs -> Seq(Packet)] /\ net[y] # <<>> /\ First(y) \in Under(y)
      /\ y = <<n, i>> /\ n \in Switch /\ i \in PortNo(n) /\ timestamp_hddp \in 1 .. Waves
  BY RequestEffect, FirstFacts
<1>2. /\ attached' = attached /\ timestamp_hddp' = timestamp_hddp
      /\ n = Root => bt_table' = bt_table
      /\ n # Root => bt_table' = [bt_table EXCEPT ![n] = Recorded(n, i, First(y))]
      /\ n \in attached => process(n, i, First(y), Rest(y)) /\ floods' = floods
      /\ n \notin attached =>
            UNCHANGED app /\ (Answers(y) \/ (~Fresh(n) /\ PassesOn(y)) \/ Drops(y))
  BY RequestEffect
<1>3. /\ TablesKept({n}) /\ (n = Root \/ Fresh(n)')
      /\ n # Root /\ ~Fresh(n) => bt_table'[n][1].port_in = i
  <2>1. CASE n = Root
    BY <1>2, <2>1, SameTables DEF TablesKept
  <2>2. CASE n # Root
    BY <1>1, <1>2, <2>2, RequestTables
  <2>. QED
    BY <2>1, <2>2
<1>4. Peer[y][1] = Ports[n][i] /\ Peer[y][1] \in Switch /\ Reached(Peer[y][1])
  BY <1>1, InputFacts DEF Active
<1>5. \A m \in Switch : Reached(m) => Reached(m)'
  BY <1>2, <1>3 DEF TablesKept, Reached
<1>6. ASSUME NEW m \in Switch, Fresh(m)', ~Fresh(m)
      PROVE  <<m, bt_table'[m][1].port_in>> \in Inputs /\ Reached(Ports[m][bt_table'[m][1].port_in])
  <2>1. m = n
    BY <1>3, <1>6 DEF TablesKept
  <2>2. n # Root
    BY <1>2, <1>6, <2>1 DEF Fresh
  <2>. QED
    BY <1>1, <1>3, <1>4, <1>6, <2>1, <2>2
<1>7. Root \in attached
  BY DEF Steady
<1>8. ASSUME NEW x \in Inputs, NEW p, In(net', x, p)
      PROVE  /\ p.num_sec = timestamp_hddp
             /\ p.opcode = 1 => Reached(Peer[x][1])'
             /\ p.opcode = 2 => Reached(x[1])'
  <2>1. x[1] \in Switch /\ Peer[x][1] \in Switch
    BY InputFacts
  <2>2. CASE In(net, x, p)
    <3>1. p \in Under(x)
      BY <2>2, UnderIn
    <3>2. /\ p.num_sec = timestamp_hddp /\ (p.opcode = 1 => Reached(Peer[x][1]))
          /\ (p.opcode = 2 => Reached(x[1]))
      BY <3>1 DEF Steady, Active
    <3>. QED
      BY <1>5, <2>1, <3>2
  <2>3. CASE ~In(net, x, p)
    <3>1. /\ p.num_sec = timestamp_hddp
          /\ \/ p.opcode = 2 /\ x[1] = Peer[y][1]
             \/ p.opcode = 1 /\ Peer[x][1] = n /\ n \notin attached
      BY <1>8, <2>3, RequestNet
    <3>2. CASE p.opcode = 2 /\ x[1] = Peer[y][1]
      <4>1. Reached(x[1])'
        BY <1>4, <1>5, <2>1, <3>2
      <4>. QED
        BY <3>1, <3>2, <4>1, SMT
    <3>3. CASE p.opcode = 1 /\ Peer[x][1] = n /\ n \notin attached
      <4>1. Fresh(n)'
        BY <1>3, <1>7, <3>3
      <4>2. Reached(Peer[x][1])'
        BY <3>3, <4>1 DEF Reached, Fresh
      <4>. QED
        BY <3>1, <3>3, <4>2, SMT
    <3>. QED
      BY <3>1, <3>2, <3>3
  <2>. QED
    BY <2>2, <2>3
<1>9. floods \in [Switch -> [1 .. Waves -> Nat]]
  BY DEF Steady
<1>10. ~Fresh(n) => floods[n][timestamp_hddp] = 0
  <2>1. floods[n][timestamp_hddp] \in Nat
    BY <1>1, <1>9
  <2>2. floods[n][timestamp_hddp] > 0 => Fresh(n)
    BY <1>1 DEF Active
  <2>. HIDE DEF n
  <2>. QED
    BY <2>1, <2>2, SMT
<1>11. /\ floods' \in [Switch -> [1 .. Waves -> Nat]] /\ FloodsOnce'
       /\ \A m \in Switch : \A s \in 1 .. Waves : s > timestamp_hddp' => floods'[m][s] = 0
       /\ \A m \in Switch : floods'[m][timestamp_hddp] > 0 => Fresh(m)'
  <2>1. CASE floods' = floods
    BY <1>2, <1>3, <2>1 DEF Steady, Active, TablesKept, FloodsOnce
  <2>2. CASE n \notin attached /\ ~Fresh(n) /\ PassesOn(y)
    <3>1. floods' = [floods EXCEPT ![n][timestamp_hddp] = 1]
      <4>1. floods' = [floods EXCEPT ![n][timestamp_hddp] = IF @ < 2 THEN @ + 1 ELSE @]
        BY <2>2, Zenon DEF PassesOn
      <4>2. floods[n][timestamp_hddp] = 0
        BY <1>10, <2>2
      <4>. HIDE DEF n
      <4>. QED
        BY <4>1, <4>2, SMT
    <3>2. Fresh(n)'
      BY <1>3, <1>7, <2>2
    <3>3. /\ floods' \in [Switch -> [1 .. Waves -> Nat]]
          /\ floods'[n][timestamp_hddp] = 1
          /\ \A m \in Switch : \A s \in 1 .. Waves :
                m # n \/ s # timestamp_hddp => floods'[m][s] = floods[m][s]
      BY <1>1, <1>9, <3>1
    <3>4. FloodsOnce'
      <4>1. \A m \in Switch : \A s \in 1 .. Waves : floods[m][s] <= 1
        BY DEF FloodsOnce, Steady
      <4>2. \A m \in Switch : \A s \in 1 .. Waves : floods'[m][s] <= 1
        BY <1>1, <3>3, <4>1, SMT
      <4>. QED
        BY <4>2 DEF FloodsOnce
    <3>5. \A m \in Switch : \A s \in 1 .. Waves : s > timestamp_hddp' => floods'[m][s] = 0
      <4>1. \A m \in Switch : \A s \in 1 .. Waves : s > timestamp_hddp => floods[m][s] = 0
        BY DEF Steady
      <4>2. ASSUME NEW m \in Switch, NEW s \in 1 .. Waves, s > timestamp_hddp'
            PROVE  floods'[m][s] = 0
        <5>1. s > timestamp_hddp /\ s # timestamp_hddp
          BY <1>1, <1>2, <4>2, SMT
        <5>. QED
          BY <3>3, <4>1, <5>1, SMT
      <4>. QED
        BY <4>2
    <3>6. \A m \in Switch : floods'[m][timestamp_hddp] > 0 => Fresh(m)'
      <4>1. \A m \in Switch : floods[m][timestamp_hddp] > 0 => Fresh(m)
        BY DEF Active
      <4>2. \A m \in Switch : Fresh(m) => Fresh(m)'
        BY <1>3 DEF TablesKept
      <4>. QED
        BY <1>1, <3>2, <3>3, <4>1, <4>2
    <3>. QED
      BY <3>3, <3>4, <3>5, <3>6
  <2>. QED
    BY <1>2, <2>1, <2>2 DEF Answers, Drops
<1>12. attached' \subseteq Switch
  BY DEF TreeInv, Types
<1>13. Active'
  BY <1>2, <1>3, <1>6, <1>8, <1>11, <1>12, ActiveStep
<1>14. TypeOK'
  <2>1. Types /\ TypeOK /\ Sized /\ Tables'
    BY <1>3, TypesByPart DEF TreeInv, Steady, TypeParts, TablesKept
  <2>2. \E forwards : NetAfter(n, Head(net[y]), forwards)
    <3>1. CASE n = Root
      <4>1. process(n, i, Head(net[y]), [net EXCEPT ![y] = Tail(@)])
        BY <1>2, <1>7, <3>1 DEF First, Rest
      <4>. QED
        BY <1>1, <2>1, <4>1, ProcessSends
    <3>2. CASE n # Root
      BY <3>2, RequestStep
    <3>. QED
      BY <3>1, <3>2
  <2>3. Sized'
    BY <1>1, <2>1, <2>2, SizedAfter
  <2>4. configuredLinks \subseteq SUBSET Switch /\ link_sdn_nodes \subseteq Switch \X Switch
    BY <2>1 DEF TypeOK
  <2>5. Len(First(y).ids) >= 1
    BY <1>1, <2>1, UnderIn, SMT DEF Sized
  <2>6. /\ configuredLinks' \subseteq SUBSET Switch /\ link_sdn_nodes' \subseteq Switch \X Switch
        /\ UNCHANGED <<log_listo, sleeping>>
    <3>1. CASE n \in attached
      BY <1>1, <1>2, <2>4, <2>5, <3>1, ProcessLearns
    <3>2. CASE n \notin attached
      BY <1>2, <2>4, <3>2 DEF app
    <3>. QED
      BY <3>1, <3>2
  <2>7. log_listo' \in BOOLEAN /\ sleeping' \in BOOLEAN /\ attached' \subseteq Sdn
    BY <1>2, <2>1, <2>6, Zenon DEF TypeOK
  <2>8. /\ moved' \subseteq Sdn
        /\ \A m \in Switch : local_port'[m] \in PortNo(m) \cup {NO_PORT, FREED}
    BY <2>1, RequestPorts
  <2>. QED
    BY <2>1, <2>3, <2>6, <2>7, <2>8, TypesKept
<1>15. \A x \in Inputs : \A p \in Under(x)' : p.num_sec = timestamp_hddp'
  BY <1>2, <1>8, UnderIn
<1>16. Steady'
  BY <1>2, <1>3, <1>7, <1>11, <1>14, <1>15, SMTT(30) DEF Steady, TablesKept
<1>. QED
  BY <1>3, <1>13, <1>16

\* What ReceiveReply does: a switch that is not connected has a way up, and sends
\* the reply there.
LEMMA ReplyEffect ==
    ASSUME TreeInv, Steady, Active, NEW y \in Inputs, ReceiveReply(y[1], y[2])
    PROVE  /\ net[y] # <<>> /\ First(y).opcode = 2
           /\ UNCHANGED <<switches, attached, history, timestamp_hddp>>
           /\ y[1] \in attached => process(y[1], y[2], First(y), Rest(y))
           /\ y[1] \notin attached =>
                 /\ UNCHANGED app /\ Fresh(y[1])
                 /\ \E r \in Repetido :
                      net' = IF Extended(First(y), y[1], r) # First(y)
                             THEN Sent(Rest(y), y[1], {bt_table[y[1]][1].port_in},
                                       Extended(First(y), y[1], r))
                             ELSE Rest(y)
<1>. DEFINE n == y[1]
            i == y[2]
            h == First(y)
<1>1. y = <<n, i>> /\ n \in Switch /\ i \in PortNo(n)
  BY InputFacts
<1>2. net[y] # <<>> /\ h.opcode = 2 /\ UNCHANGED <<switches, attached, history>>
  BY <1>1, Zenon DEF ReceiveReply, First
<1>3. h \in Packet /\ h.num_sec = timestamp_hddp /\ h \in Under(y)
  BY <1>2, FirstFacts
<1>4. Reached(n)
  BY <1>2, <1>3 DEF Active
<1>5. CASE n \in attached
  <2>1. process(n, i, h, Rest(y))
    BY <1>1, <1>5, Zenon DEF ReceiveReply, First, Rest
  <2>2. timestamp_hddp' = timestamp_hddp
    BY <2>1, Zenon DEF process
  <2>. QED
    BY <1>2, <1>5, <2>1, <2>2
<1>6. CASE n \notin attached
  <2>1. handle_ehddp_reply_packets(n, h, Rest(y)) /\ UNCHANGED app
    BY <1>1, <1>6, Zenon DEF ReceiveReply, First, Rest
  <2>2. Fresh(n)
    BY <1>4, <1>6 DEF Reached
  <2>3. found_port(n, h) = bt_table[n][1].port_in /\ found_port(n, h) > 0
    <3>1. found_port(n, h) = Up(n, timestamp_hddp)
      BY <1>3 DEF found_port, Up
    <3>. QED
      BY <1>1, <2>2, <3>1, FreshUp DEF Steady
  <2>4. found_port(n, h) >= 1
    <3>1. bt_table[n][1].port_in \in PortNo(n)
      BY <1>1, <2>2, FreshUp DEF Steady
    <3>. QED
      BY <2>3, <3>1, SMT DEF PortNo
  <2>5. PICK r \in Repetido :
          net' = IF found_port(n, h) >= 1 /\ Extended(h, n, r) # h
                 THEN Sent(Rest(y), n, {found_port(n, h)}, Extended(h, n, r)) ELSE Rest(y)
    BY <2>1, Zenon DEF handle_ehddp_reply_packets
  <2>6. net' = IF Extended(h, n, r) # h
               THEN Sent(Rest(y), n, {bt_table[n][1].port_in}, Extended(h, n, r)) ELSE Rest(y)
    BY <2>3, <2>4, <2>5, Zenon
  <2>7. timestamp_hddp' = timestamp_hddp
    BY <2>1 DEF app
  <2>. QED
    BY <1>2, <1>6, <2>1, <2>2, <2>6, <2>7, Zenon
<1>. QED
  BY <1>5, <1>6

\* A reply goes from a switch to its parent.
LEMMA ReplyNet ==
    ASSUME TreeInv, Steady, Active, NEW y \in Inputs, ReceiveReply(y[1], y[2]),
           NEW x \in Inputs, NEW p, In(net', x, p), ~In(net, x, p)
    PROVE  /\ p.num_sec = timestamp_hddp /\ p.opcode = 2
           /\ y[1] \notin attached /\ Fresh(y[1]) /\ x[1] = Parent(y[1])
<1>1. /\ First(y) \in Packet /\ First(y).num_sec = timestamp_hddp /\ First(y).opcode = 2
      /\ Rest(y) \in [Inputs -> Seq(Packet)] /\ net[y] # <<>>
      /\ y = <<y[1], y[2]>> /\ y[1] \in Switch /\ y[2] \in PortNo(y[1])
      /\ timestamp_hddp \in 1 .. Waves
  BY ReplyEffect, FirstFacts
<1>2. ~In(Rest(y), x, p)
  BY <1>1, RestFacts DEF Rest, TreeInv, Types
<1>3. net' # Rest(y)
  BY <1>2
<1>4. process(y[1], y[2], First(y), Rest(y)) => net' = Rest(y)
  BY <1>1, SMT DEF process
<1>5. PICK r \in Repetido :
        /\ y[1] \notin attached /\ Fresh(y[1])
        /\ net' = Sent(Rest(y), y[1], {bt_table[y[1]][1].port_in}, Extended(First(y), y[1], r))
  BY <1>3, <1>4, ReplyEffect
<1>6. /\ Extended(First(y), y[1], r) \in Packet /\ Extended(First(y), y[1], r).opcode = 2
  BY <1>1, PacketFacts, EhddpAssumption, ZenonT(30)
<1>7. Extended(First(y), y[1], r).num_sec = timestamp_hddp
  BY <1>1 DEF Extended, Packet
<1>8. p = Extended(First(y), y[1], r) /\ Peer[x][1] = y[1] /\ Peer[x][2] = bt_table[y[1]][1].port_in
  BY <1>1, <1>2, <1>5, <1>6, SentKeeps, SMT
<1>9. Ports[Peer[x][1]][Peer[x][2]] = x[1]
  BY OtherSide
<1>. QED
  BY <1>5, <1>6, <1>7, <1>8, <1>9 DEF Parent

\* A reply keeps the invariant and every way up.
LEMMA OnceReply ==
    ASSUME Calm, TreeInv, TreeInv', Steady, Active, NEW y \in Inputs, ReceiveReply(y[1], y[2])
    PROVE  Steady' /\ Active' /\ TablesKept({})
<1>. DEFINE n == y[1]
            i == y[2]
<1>1. /\ First(y) \in Packet /\ First(y).num_sec = timestamp_hddp /\ First(y).opcode = 2
      /\ Rest(y) \in [Inputs -> Seq(Packet)] /\ net[y] # <<>> /\ First(y) \in Under(y)
      /\ y = <<n, i>> /\ n \in Switch /\ i \in PortNo(n) /\ timestamp_hddp \in 1 .. Waves
  BY ReplyEffect, FirstFacts
<1>2. /\ UNCHANGED <<switches, attached, history, timestamp_hddp>>
      /\ n \in attached => process(n, i, First(y), Rest(y))
      /\ n \notin attached => UNCHANGED app
  BY ReplyEffect
<1>3. UNCHANGED <<bt_table, attached, floods, local_port, moved, timestamp_hddp>>
  BY <1>2 DEF switches, history
<1>4. TablesKept({})
  BY <1>3, SameTables
<1>5. \A m \in Switch : Reached(m) => Reached(m)'
  BY <1>3, <1>4 DEF TablesKept, Reached
<1>6. ASSUME NEW x \in Inputs, NEW p, In(net', x, p)
      PROVE  /\ p.num_sec = timestamp_hddp
             /\ p.opcode = 1 => Reached(Peer[x][1])'
             /\ p.opcode = 2 => Reached(x[1])'
  <2>1. x[1] \in Switch /\ Peer[x][1] \in Switch
    BY InputFacts
  <2>2. CASE In(net, x, p)
    <3>1. p \in Under(x)
      BY <2>2, UnderIn
    <3>2. /\ p.num_sec = timestamp_hddp /\ (p.opcode = 1 => Reached(Peer[x][1]))
          /\ (p.opcode = 2 => Reached(x[1]))
      BY <3>1 DEF Steady, Active
    <3>. QED
      BY <1>5, <2>1, <3>2
  <2>3. CASE ~In(net, x, p)
    <3>1. /\ p.num_sec = timestamp_hddp /\ p.opcode = 2 /\ Fresh(n) /\ x[1] = Parent(n)
      BY <1>6, <2>3, ReplyNet
    <3>2. Reached(x[1])
      BY <1>1, <3>1 DEF Active
    <3>. QED
      BY <1>5, <2>1, <3>1, <3>2, SMT
  <2>. QED
    BY <2>2, <2>3
<1>7. /\ \A m \in Switch : floods'[m][timestamp_hddp] > 0 => Fresh(m)'
      /\ \A m \in Switch : Fresh(m)' => Fresh(m)
  BY <1>3, <1>4 DEF Active, TablesKept
<1>8. attached' \subseteq Switch
  BY DEF TreeInv, Types
<1>9. Active'
  BY <1>3, <1>4, <1>6, <1>7, <1>8, ActiveStep
<1>10. TypeOK'
  <2>1. Types /\ TypeOK /\ Sized /\ Tables'
    BY <1>4, TypesByPart DEF TreeInv, Steady, TypeParts, TablesKept
  <2>2. NetAfter(n, Head(net[y]), FALSE)
    <3>1. CASE n \in attached
      <4>1. process(n, i, Head(net[y]), [net EXCEPT ![y] = Tail(@)])
        BY <1>2, <3>1 DEF First, Rest
      <4>. QED
        BY <1>1, <2>1, <4>1, ProcessSends
    <3>2. CASE n \notin attached
      <4>1. handle_ehddp_reply_packets(n, Head(net[y]), [net EXCEPT ![y] = Tail(@)])
        BY <1>1, <3>2, Zenon DEF ReceiveReply
      <4>. QED
        BY <1>1, <2>1, <4>1, ReplySends DEF First
    <3>. QED
      BY <3>1, <3>2
  <2>3. Sized'
    BY <1>1, <2>1, <2>2, SizedAfter
  <2>4. configuredLinks \subseteq SUBSET Switch /\ link_sdn_nodes \subseteq Switch \X Switch
    BY <2>1 DEF TypeOK
  <2>5. Len(First(y).ids) >= 1
    BY <1>1, <2>1, UnderIn, SMT DEF Sized
  <2>6. /\ configuredLinks' \subseteq SUBSET Switch /\ link_sdn_nodes' \subseteq Switch \X Switch
        /\ UNCHANGED <<log_listo, sleeping>>
    <3>1. CASE n \in attached
      BY <1>1, <1>2, <2>4, <2>5, <3>1, ProcessLearns
    <3>2. CASE n \notin attached
      BY <1>2, <2>4, <3>2 DEF app
    <3>. QED
      BY <3>1, <3>2
  <2>7. /\ log_listo' \in BOOLEAN /\ sleeping' \in BOOLEAN /\ attached' \subseteq Sdn
        /\ moved' \subseteq Sdn
        /\ \A m \in Switch : local_port'[m] \in PortNo(m) \cup {NO_PORT, FREED}
    BY <1>3, <2>1, <2>6, Zenon DEF TypeOK
  <2>. QED
    BY <2>1, <2>3, <2>6, <2>7, TypesKept
<1>11. \A x \in Inputs : \A p \in Under(x)' : p.num_sec = timestamp_hddp'
  BY <1>3, <1>6, UnderIn
<1>12. Steady'
  BY <1>3, <1>4, <1>10, <1>11 DEF Steady, TablesKept, FloodsOnce
<1>. QED
  BY <1>4, <1>9, <1>12

\* A new exploration starts in a network at rest.
LEMMA StartNet ==
    ASSUME Calm, starteHDDPProcess, NEW x \in Inputs
    PROVE  /\ Quiet
           /\ \A p : In(net', x, p) <=>
                 Peer[x][1] \in attached /\ p = Request(timestamp_hddp + 1, <<Peer[x][1]>>)
<1>1. Quiet
  BY DEF starteHDDPProcess, Calm
<1>2. net[x] = <<>>
  BY <1>1 DEF Quiet
<1>3. net'[x] = IF Peer[x][1] \in attached
                THEN Append(net[x], Request(timestamp_hddp + 1, <<Peer[x][1]>>)) ELSE net[x]
  BY DEF starteHDDPProcess
<1>. DEFINE q == Request(timestamp_hddp + 1, <<Peer[x][1]>>)
<1>. HIDE DEF q
<1>4. CASE Peer[x][1] \in attached
  <2>1. net'[x] = <<q>>
    BY <1>2, <1>3, <1>4, SMT DEF q
  <2>2. \A p : In(net', x, p) <=> p = q
    BY <2>1, SMT DEF In
  <2>. QED
    BY <1>1, <1>4, <2>2 DEF q
<1>5. CASE Peer[x][1] \notin attached
  BY <1>1, <1>2, <1>3, <1>5, SMT DEF In
<1>. QED
  BY <1>4, <1>5

\* A new exploration starts with no way up at all.
LEMMA OnceStart ==
    ASSUME Calm, TreeInv, TreeInv', Steady, starteHDDPProcess
    PROVE  /\ Steady' /\ Active' /\ \A n \in Switch : ~Fresh(n)'
<1>1. /\ timestamp_hddp \in Nat /\ timestamp_hddp' = timestamp_hddp + 1
      /\ timestamp_hddp' \in 1 .. Waves
      /\ UNCHANGED <<bt_table, local_port, moved, attached, configuredLinks, link_sdn_nodes, log_listo, floods>>
  BY EhddpAssumption, SMT DEF starteHDDPProcess, switches, TreeInv, Types
<1>2. sleeping' \in BOOLEAN
  BY DEF starteHDDPProcess
<1>3. \A n \in Switch : \A k \in 1 .. Len(bt_table'[n]) :
         bt_table'[n][k].num_sec <= timestamp_hddp' /\ bt_table'[n][k].num_sec # timestamp_hddp'
  <2>1. ASSUME NEW n \in Switch, NEW k \in 1 .. Len(bt_table[n])
        PROVE  bt_table[n][k].num_sec <= timestamp_hddp /\ bt_table[n][k].num_sec \in Nat
    <3>1. bt_table[n][k] \in Entries(n)
      BY SMT DEF Steady, Tables
    <3>. QED
      BY <3>1, EhddpAssumption, SMT DEF Steady, Entries
  <2>. QED
    BY <1>1, <2>1, SMT
<1>4. Tables'
  BY <1>1 DEF Steady, Tables
<1>5. \A n \in Switch : ~Fresh(n)'
  <2>1. \A n \in Switch : Len(bt_table'[n]) \in Nat
    BY <1>4, SMT DEF Tables
  <2>. QED
    BY <1>3, <2>1, SMT DEF Fresh
<1>6. ASSUME NEW x \in Inputs, NEW p, In(net', x, p)
      PROVE  /\ p.num_sec = timestamp_hddp' /\ p.opcode = 1 /\ Peer[x][1] \in attached'
             /\ Len(p.ids) = 1
  BY <1>1, <1>6, StartNet, SMT DEF Request
<1>7. TypeOK'
  <2>1. Sized'
    <3>1. 1 \in 1 .. MAX_ELEMENTS
      BY EhddpAssumption, SMT DEF Calm
    <3>. QED
      BY <1>6, <3>1 DEF Sized, In
  <2>2. /\ log_listo' \in BOOLEAN /\ sleeping' \in BOOLEAN /\ attached' \subseteq Sdn
        /\ moved' \subseteq Sdn
        /\ \A m \in Switch : local_port'[m] \in PortNo(m) \cup {NO_PORT, FREED}
        /\ configuredLinks' \subseteq SUBSET Switch /\ link_sdn_nodes' \subseteq Switch \X Switch
    BY <1>1, <1>2, Zenon DEF Steady, TypeOK
  <2>. QED
    BY <1>4, <2>1, <2>2, TypesKept
<1>8. \A n \in Switch : floods'[n][timestamp_hddp'] = 0
  BY <1>1, SMT DEF Steady
<1>9. /\ \A n \in Switch : \A s \in 1 .. Waves : s > timestamp_hddp' => floods'[n][s] = 0
      /\ FloodsOnce' /\ floods' \in [Switch -> [1 .. Waves -> Nat]]
  BY <1>1, SMT DEF Steady, FloodsOnce
<1>10. \A x \in Inputs : \A p \in Under(x)' : In(net', x, p)
  BY UnderIn
<1>11. Steady'
  BY <1>1, <1>3, <1>4, <1>6, <1>7, <1>9, <1>10 DEF Steady
<1>12. \A n \in Switch : Reached(n)' => Climbs(n, timestamp_hddp)'
  BY <1>5 DEF Reached, Climbs
<1>13. \A x \in Inputs : \A p \in Under(x)' :
          (p.opcode = 1 => Reached(Peer[x][1])') /\ (p.opcode = 2 => Reached(x[1])')
  BY <1>6, <1>10, SMT DEF Reached
<1>14. Active'
  BY <1>1, <1>3, <1>5, <1>8, <1>12, <1>13, SMT DEF Active
<1>. QED
  BY <1>5, <1>11, <1>14

\* Steps that leave the network and the local ports alone.
LEMMA OnceOther ==
    ASSUME TreeInv', Steady, Tables', UNCHANGED <<net, timestamp_hddp, floods, local_port, moved>>,
           \A m \in Switch : \A k \in 1 .. Len(bt_table'[m]) :
              \E j \in 1 .. Len(bt_table[m]) : bt_table'[m][k].num_sec = bt_table[m][j].num_sec,
           attached \subseteq attached', attached' \subseteq Sdn,
           configuredLinks' \subseteq SUBSET Switch, link_sdn_nodes' \subseteq Switch \X Switch,
           log_listo' \in BOOLEAN, sleeping' \in BOOLEAN
    PROVE  Steady'
<1>1. Sized' /\ moved' \subseteq Sdn
      /\ \A m \in Switch : local_port'[m] \in PortNo(m) \cup {NO_PORT, FREED}
  <2>1. Sized /\ TypeOK
    BY TypesByPart DEF Steady, TypeParts
  <2>. QED
    BY <2>1 DEF Sized, In, TypeOK
<1>2. TypeOK'
  BY <1>1, TypesKept
<1>3. \A m \in Switch : \A k \in 1 .. Len(bt_table'[m]) : bt_table'[m][k].num_sec <= timestamp_hddp'
  BY DEF Steady
<1>4. \A x \in Inputs : \A p \in Under(x)' : p.num_sec = timestamp_hddp'
  BY SMT DEF Steady, Under
<1>. QED
  BY <1>2, <1>3, <1>4 DEF Steady, FloodsOnce

\* Steps during an exploration that leave the network alone.
LEMMA ActiveOther ==
    ASSUME Steady, Active, TablesKept({}), UNCHANGED <<net, floods>>,
           attached \subseteq attached', attached' \subseteq Switch
    PROVE  Active'
<1>1. \A m \in Switch : (Fresh(m)' => Fresh(m)) /\ (Reached(m) => Reached(m)')
  BY DEF TablesKept, Reached
<1>2. ASSUME NEW x \in Inputs, NEW p, In(net', x, p)
      PROVE  /\ p.opcode = 1 => Reached(Peer[x][1])'
             /\ p.opcode = 2 => Reached(x[1])'
  <2>1. p \in Under(x)
    BY <1>2, UnderIn
  <2>2. (p.opcode = 1 => Reached(Peer[x][1])) /\ (p.opcode = 2 => Reached(x[1]))
    BY <2>1 DEF Active
  <2>. QED
    BY <1>1, <2>2, InputFacts
<1>3. \A n \in Switch : floods'[n][timestamp_hddp] > 0 => Fresh(n)'
  BY DEF Active, TablesKept
<1>. QED
  BY <1>1, <1>2, <1>3, ActiveStep

\* A connection made in band, and the purge of a table.
LEMMA OnceAttach ==
    ASSUME TreeInv', Steady, NEW n \in Switch, Attach(n)
    PROVE  Steady' /\ (Active => Active') /\ (Quiet' <=> Quiet)
<1>1. /\ UNCHANGED <<bt_table, local_port, moved, net, floods, timestamp_hddp, configuredLinks,
                      link_sdn_nodes, log_listo, sleeping>>
      /\ attached' = attached \cup {n} /\ n \in Sdn
  BY DEF Attach, switches, app
<1>2. /\ Tables /\ attached' \subseteq Sdn /\ configuredLinks' \subseteq SUBSET Switch
      /\ link_sdn_nodes' \subseteq Switch \X Switch
      /\ log_listo' \in BOOLEAN /\ sleeping' \in BOOLEAN
  BY <1>1 DEF Steady, TypeOK
<1>3. Tables'
  BY <1>1, <1>2 DEF Tables
<1>4. Steady'
  BY <1>1, <1>2, <1>3, OnceOther
<1>5. Active => Active'
  <2>1. Active => TablesKept({})
    BY <1>1, SameTables
  <2>. QED
    BY <1>1, <1>2, <2>1, ActiveOther DEF Sdn
<1>. QED
  BY <1>1, <1>4, <1>5 DEF Quiet

\* Between explorations an entry may expire.
LEMMA OncePurge ==
    ASSUME TreeInv', Steady, NEW n \in Switch, PurgeTables(n)
    PROVE  Steady' /\ (Active => Active') /\ (Quiet' <=> Quiet)
<1>1. UNCHANGED <<local_port, moved, attached, net, floods, timestamp_hddp, configuredLinks,
                  link_sdn_nodes, log_listo, sleeping>>
  BY DEF PurgeTables, app, history
<1>2. /\ Tables /\ attached' \subseteq Sdn /\ configuredLinks' \subseteq SUBSET Switch
      /\ link_sdn_nodes' \subseteq Switch \X Switch
      /\ log_listo' \in BOOLEAN /\ sleeping' \in BOOLEAN
  BY <1>1 DEF Steady, TypeOK
<1>3. Steady'
  BY <1>1, <1>2, AgedTables, OnceOther
<1>4. Active => Active'
  BY <1>1, <1>2, PurgedTables, ActiveOther DEF Sdn
<1>. QED
  BY <1>1, <1>3, <1>4 DEF Quiet

\* The clock ticks, and a round ends, when the network is at rest.
LEMMA OnceAtRest ==
    ASSUME Calm, TreeInv', Steady, Tick \/ WakeUp
    PROVE  Steady' /\ Quiet /\ Quiet'
<1>1. /\ UNCHANGED <<local_port, moved, attached, net, floods, timestamp_hddp>>
      /\ Tick \/ bt_table' = bt_table
      /\ configuredLinks' \in {configuredLinks, {}} /\ link_sdn_nodes' \in {link_sdn_nodes, {}}
      /\ Quiet
  BY DEF Tick, WakeUp, app, history, switches, Calm
<1>2. /\ Tables /\ attached' \subseteq Sdn /\ configuredLinks' \subseteq SUBSET Switch
      /\ link_sdn_nodes' \subseteq Switch \X Switch
  BY <1>1 DEF Steady, TypeOK
<1>3. log_listo' \in BOOLEAN /\ sleeping' \in BOOLEAN
  BY DEF Steady, TypeOK, Tick, WakeUp, app
<1>4. /\ Tables'
      /\ \A m \in Switch : \A k \in 1 .. Len(bt_table'[m]) :
            \E j \in 1 .. Len(bt_table[m]) : bt_table'[m][k].num_sec = bt_table[m][j].num_sec
  <2>1. CASE Tick
    BY <1>2, <2>1, AgedTables
  <2>2. CASE bt_table' = bt_table
    BY <1>2, <2>2 DEF Tables
  <2>. QED
    BY <1>1, <2>1, <2>2
<1>5. Steady'
  BY <1>1, <1>2, <1>3, <1>4, OnceOther
<1>. QED
  BY <1>1, <1>5 DEF Quiet

\* Every step keeps the invariant.
LEMMA OnceStep == ASSUME Calm, OnceInv, [Next]_vars PROVE OnceInv'
<1>1. TreeInv /\ TreeInv' /\ Steady /\ (~Quiet => Active)
  BY TreeStep DEF OnceInv
<1>2. CASE UNCHANGED vars
  <2>1. UNCHANGED <<bt_table, local_port, moved, attached, net, timestamp_hddp, configuredLinks,
                    link_sdn_nodes, log_listo, sleeping, floods>>
    BY <1>2 DEF vars, switches, app, history
  <2>2. Steady'
    BY <1>1, <2>1, SMT DEF Steady, Tables, TypeOK, FloodsOnce, Under
  <2>3. Active => Active'
    <3>1. Active => TablesKept({})
      BY <1>1, <2>1, SameTables
    <3>2. attached' \subseteq Switch
      BY <1>1 DEF TreeInv, Types
    <3>. QED
      BY <1>1, <2>1, <3>1, <3>2, ActiveOther
  <2>. QED
    BY <1>1, <2>1, <2>2, <2>3 DEF OnceInv, Quiet
<1>3. CASE starteHDDPProcess
  BY <1>1, <1>3, OnceStart DEF OnceInv
<1>4. CASE \E n \in Switch : Attach(n)
  BY <1>1, <1>4, OnceAttach DEF OnceInv
<1>5. CASE \E n \in Switch : PurgeTables(n)
  BY <1>1, <1>5, OncePurge DEF OnceInv
<1>6. CASE Tick \/ WakeUp
  BY <1>1, <1>6, OnceAtRest DEF OnceInv
<1>7. ASSUME NEW y \in Inputs, ReceiveRequest(y[1], y[2]) \/ ReceiveReply(y[1], y[2]) PROVE OnceInv'
  <2>1. ~Quiet
    <3>1. y = <<y[1], y[2]>>
      BY InputFacts
    <3>2. net[y] # <<>>
      BY <1>7, <3>1, Zenon DEF ReceiveRequest, ReceiveReply
    <3>. QED
      BY <3>2 DEF Quiet
  <2>. QED
    BY <1>1, <1>7, <2>1, OnceRequest, OnceReply DEF OnceInv
<1>. QED
  BY <1>2, <1>3, <1>4, <1>5, <1>6, <1>7 DEF Next

\* It holds at first.
LEMMA OnceStarts == ASSUME Calm, Init PROVE OnceInv
<1>1. TreeInv
  BY TreeInit
<1>2. Quiet
  BY DEF Init, Quiet
<1>3. Sdn \subseteq Switch /\ Root \in Sdn
  BY EhddpAssumption DEF Sdn
<1>4. TypeOK
  <2>1. \A x \in Inputs : Len(net[x]) = 0
    BY DEF Init
  <2>2. \A n \in Switch : Len(bt_table[n]) = 0 /\ local_port[n] = NO_PORT
    BY DEF Init
  <2>3. moved = {} /\ attached = {Root} /\ timestamp_hddp = 0 /\ configuredLinks = {} /\ link_sdn_nodes = {}
    BY DEF Init
  <2>4. log_listo \in BOOLEAN /\ sleeping \in BOOLEAN
    BY DEF Init
  <2>. QED
    BY <1>3, <2>1, <2>2, <2>3, <2>4, EhddpAssumption, SMT DEF TypeOK
<1>5. Tables
  BY SMT DEF Init, Tables
<1>6. Steady
  BY <1>4, <1>5, SMT DEF Init, Steady, FloodsOnce, Under
<1>. QED
  BY <1>1, <1>2, <1>6 DEF OnceInv

\* Calm: when packets arrive before the clock ticks, no switch passes the request of
\* an exploration on twice (handle_ehddp_request_packets() finds its table entry)
\* and every switch that took it has a way up to a connected one, by the first
\* entries that found_port() reads, for handle_ehddp_reply_packets() to use.
THEOREM FloodsOnceAndRepliesClimb == ASSUME Calm PROVE Spec => []OnceDownOnceUp
<1>1. OnceInv => OnceDownOnceUp
  <2>. SUFFICES ASSUME OnceInv PROVE OnceDownOnceUp
    OBVIOUS
  <2>1. TypeOK /\ FloodsOnce
    BY DEF OnceInv, Steady
  <2>2. ASSUME NEW x \in Inputs, NEW k \in 1 .. Len(net[x]), net[x][k].opcode = 2
        PROVE  Climbs(x[1], net[x][k].num_sec)
    <3>1. net[x][k] \in Under(x)
      BY DEF Under
    <3>2. net[x] # <<>>
      BY SMT
    <3>3. Active
      BY <3>2 DEF OnceInv, Quiet
    <3>4. Reached(x[1]) /\ net[x][k].num_sec = timestamp_hddp
      BY <2>2, <3>1, <3>3 DEF Active, OnceInv, Steady
    <3>. QED
      BY <3>3, <3>4, InputFacts DEF Active
  <2>. QED
    BY <2>1, <2>2 DEF OnceDownOnceUp, RepliesClimb
<1>2. Init => OnceInv
  BY OnceStarts
<1>3. OnceInv /\ [Next]_vars => OnceInv'
  BY OnceStep
<1>. QED
  BY <1>1, <1>2, <1>3, PTL DEF Spec
=============================================================================
