------------------------ MODULE EhddpDiscoveryProofs ------------------------
(***************************************************************************)
(* An exploration that nothing disturbs makes all links of the network     *)
(* known, in every network that is Explorable.                             *)
(*                                                                         *)
(* The argument is about one exploration as a wave: the switches R it has  *)
(* reached, the ways w by which replies go up from them, the connected     *)
(* switches A, the packets N, the links C that the application knows and   *)
(* the half-links L that one of two connected neighbours has told it of.   *)
(* A link between switches of R is known, or some packet is on its way     *)
(* that will make it known (Wave).  The lemmas up to WaveStarts are about  *)
(* waves alone; those after it show that every step of Ehddp is one that   *)
(* such a lemma speaks of.                                                 *)
(***************************************************************************)
EXTENDS EhddpProofs, FiniteSetTheorems

\* Most steps are logic only.  The others name SMT.
USE Zenon

\* The packets that network N has under way to x.
Held(N, x) == {N[x][k] : k \in 1 .. Len(N[x])}

\* A request is under way to x.
Asked(N, x) == \E p \in Held(N, x) : p.opcode = 1

\* The link of a port, by the switches at its ends.
LinkOf(x) == {x[1], Peer[x][1]}

\* The switch that a packet's replies start from.
From(x, p) == IF p.opcode = 2 THEN x[1] ELSE Peer[x][1]

\* Switch n, where replies go up by w, has still to pass one on.
Coming(w, N, n) == \E x \in Inputs : \E p \in Held(N, x) : Below(Switch, w, From(x, p), n)

\* The application knows link l or is still to be told: by a reply, by a
\* request that will be answered or, when both ends are connected, by the
\* second of two requests, or by the replies that are to go up this link.
Known(w, A, N, C, L, l) ==
    \/ l \in C
    \/ \E x \in Inputs : \E p \in Held(N, x) : p.opcode = 2 /\ l \in PathLinks(x[1], p.ids)
    \/ \E x \in Inputs :
          /\ LinkOf(x) = l /\ Asked(N, x)
          /\ l \subseteq A => <<Peer[x][1], x[1]>> \in L \/ Asked(N, Peer[x])
    \/ \E n \in DOMAIN w : l = {n, w[n]} /\ Coming(w, N, n)

\* What packet p under way to x says: a request has one switch if a connected
\* switch sent it, and a reply went up from switch to switch.
Fits(w, A, x, p) ==
    /\ p.opcode = 1 => (Len(p.ids) = 1 <=> Peer[x][1] \in A)
    /\ p.opcode = 2 =>
          \A k \in 2 .. Len(p.ids) :
             /\ p.ids[k] \in DOMAIN w /\ ~Below(Switch, w, x[1], p.ids[k])
             /\ \A j \in 2 .. Len(p.ids) : p.ids[j] = p.ids[k] => j = k

\* All packets say what they should.
AllFit(w, A, N) == \A x \in Inputs : \A p \in Held(N, x) : Fits(w, A, x, p)

\* No way up comes back.
NoLoop(w) == \A n \in DOMAIN w : ~Below(Switch, w, w[n], n)

\* An exploration that reached the switches R.
Wave(R, w, A, N, C, L) ==
    /\ \A x \in Inputs : Peer[x][1] \in R =>
          IF x[1] \in R THEN Known(w, A, N, C, L, LinkOf(x)) ELSE Asked(N, x)
    /\ AllFit(w, A, N) /\ NoLoop(w)

\* The switches that have joined the present exploration, ...
ReachedSet == {n \in Switch : Reached(n)}

\* ... and where that exploration has got to.
Exploring == Wave(ReachedSet, Way, attached, net, configuredLinks, link_sdn_nodes)

\* The inductive invariant: an undisturbed exploration is on its way, or it has
\* come to rest and every link is known.
DiscInv ==
    sleeping /\ ~disturbed => IF Quiet THEN Links \subseteq configuredLinks ELSE Exploring

-----------------------------------------------------------------------------
\* The network is finite.
Finite == IsFiniteSet(Switch)

\* The links can be followed both ways.
LEMMA PeerBack ==
    ASSUME Explorable, NEW x \in Inputs
    PROVE  /\ Peer[x] \in Inputs /\ Peer[Peer[x]] = x /\ Peer[x][1] # x[1]
           /\ LinkOf(Peer[x]) = LinkOf(x)
<1>. DEFINE n == x[1]
            i == x[2]
            m == Peer[x][1]
            j == Peer[x][2]
<1>1. /\ x = <<n, i>> /\ n \in Switch /\ i \in PortNo(n) /\ m = Ports[n][i] /\ m \in Switch
      /\ j \in PortNo(m) /\ Ports[m][j] = n
  BY InputFacts, OtherSide
<1>2. Peer[x] = OtherEnd(n, i) /\ Peer[x] = <<m, j>>
  <2>1. Peer[x] = OtherEnd(n, i)
    BY DEF Peer
  <2>2. PICK y : y = CHOOSE k \in PortNo(Ports[n][i]) : Ports[Ports[n][i]][k] = n
    OBVIOUS
  <2>3. Peer[x] = <<Ports[n][i], y>>
    BY <2>1, <2>2 DEF OtherEnd
  <2>4. Peer[x][1] = Ports[n][i] /\ Peer[x][2] = y
    BY <2>3, SMT
  <2>. QED
    BY <2>1, <2>3, <2>4
<1>3. m # n /\ \A k \in PortNo(n) : Ports[n][k] = m => k = i
  BY <1>1, EhddpAssumption, SMT DEF Explorable
<1>4. (CHOOSE k \in PortNo(n) : Ports[n][k] = m) = i
  BY <1>1, <1>3
<1>5. OtherEnd(m, j) = x
  BY <1>1, <1>4 DEF OtherEnd
<1>6. Peer[x] \in Inputs
  <2>1. Peer[x] \in {m} \X PortNo(m)
    BY <1>1, <1>2, ZenonT(30)
  <2>2. x \notin LinkDown /\ Peer[x] \notin LinkDown
    BY <1>2 DEF Inputs
  <2>3. Ports[m][j] # HOST
    BY <1>1, EhddpAssumption
  <2>. HIDE DEF n, i, m, j
  <2>. QED
    BY <1>1, <1>2, <1>5, <2>1, <2>2, <2>3, SMT DEF Inputs
<1>7. Peer[Peer[x]] = x
  BY <1>2, <1>5, <1>6 DEF Peer
<1>. QED
  BY <1>3, <1>6, <1>7 DEF LinkOf

\* A reply that climbs from switch to switch has room for the next one.
LEMMA Room ==
    ASSUME Finite, Explorable, NEW ids \in Seq(Switch), NEW n \in Switch \ {Root},
           \A k \in 2 .. Len(ids) :
              /\ ids[k] \in Switch \ {Root, n}
              /\ \A j \in 2 .. Len(ids) : ids[j] = ids[k] => j = k
    PROVE  Len(ids) + 1 <= MAX_ELEMENTS
<1>. DEFINE L == Len(ids)
            T == Switch \ {Root}
            g == [k \in 1 .. L |-> IF k < L THEN ids[k + 1] ELSE n]
<1>1. L \in Nat
  BY SMT
<1>2. \A k \in 1 .. L : g[k] \in T
  BY <1>1, SMT
<1>3. \A j, k \in 1 .. L : g[j] = g[k] => j = k
  <2>. SUFFICES ASSUME NEW j \in 1 .. L, NEW k \in 1 .. L, g[j] = g[k] PROVE j = k
    OBVIOUS
  <2>1. j < L => j + 1 \in 2 .. L /\ g[j] = ids[j + 1] /\ ids[j + 1] # n
    BY <1>1, SMT
  <2>2. k < L => k + 1 \in 2 .. L /\ g[k] = ids[k + 1] /\ ids[k + 1] # n
    BY <1>1, SMT
  <2>3. (~(j < L) => j = L /\ g[j] = n) /\ (~(k < L) => k = L /\ g[k] = n)
    BY <1>1, SMT
  <2>. HIDE DEF g
  <2>4. CASE j < L /\ k < L
    <3>1. j + 1 = k + 1
      BY <2>1, <2>2, <2>4
    <3>. QED
      BY <3>1, SMT
  <2>. QED
    BY <2>1, <2>2, <2>3, <2>4
<1>4. g \in Injection(1 .. L, T)
  BY <1>2, <1>3 DEF Injection, IsInjective
<1>5. IsFiniteSet(T) /\ Cardinality(T) = Cardinality(Switch) - 1
  BY FS_RemoveElement, EhddpAssumption DEF Finite
<1>6. Cardinality(1 .. L) = L
  BY <1>1, FS_Interval, SMTT(30)
<1>7. Cardinality(1 .. L) <= Cardinality(T)
  BY <1>4, <1>5, FS_Injection
<1>8. Cardinality(Switch) \in Nat /\ MAX_ELEMENTS \in Nat /\ MAX_ELEMENTS >= Cardinality(Switch)
  BY FS_CardinalityType, EhddpAssumption DEF Finite, Explorable
<1>. QED
  BY <1>1, <1>5, <1>6, <1>7, <1>8, SMT

\* N2 has what N has, less packet h for y.
Takes(N, N2, y, h) ==
    \A x \in Inputs : \A p \in Held(N, x) : p \in Held(N2, x) \/ (x = y /\ p = h)

\* w2 has the ways up of w, and maybe more.
Grown(w, w2) ==
    /\ DOMAIN w \subseteq DOMAIN w2 /\ \A k \in DOMAIN w : w2[k] = w[k]
    /\ \A m, k : Below(Switch, w, m, k) => Below(Switch, w2, m, k)

\* A step that takes packet h from y and loses nothing else keeps what is
\* known of a link, when what h was to tell about it is.
LEMMA KnownKept ==
    ASSUME NEW w, NEW w2, NEW A, NEW N, NEW N2, NEW C, NEW C2, NEW L, NEW L2, NEW l,
           Explorable, NEW y \in Inputs, NEW h, C \subseteq C2, L \subseteq L2,
           Takes(N, N2, y, h), Grown(w, w2),
           Known(w, A, N, C, L, l),
           h.opcode = 2 /\ l \in PathLinks(y[1], h.ids) => Known(w2, A, N2, C2, L2, l),
           /\ h.opcode = 1 /\ LinkOf(y) = l
           /\ l \subseteq A => <<Peer[y][1], y[1]>> \in L \/ Asked(N, Peer[y])
           => Known(w2, A, N2, C2, L2, l),
           \A k \in DOMAIN w : l = {k, w[k]} /\ Below(Switch, w, From(y, h), k)
              => Known(w2, A, N2, C2, L2, l)
    PROVE  Known(w2, A, N2, C2, L2, l)
<1>1. CASE l \in C
  BY <1>1 DEF Known
<1>2. ASSUME NEW x \in Inputs, NEW p \in Held(N, x), p.opcode = 2, l \in PathLinks(x[1], p.ids)
      PROVE  Known(w2, A, N2, C2, L2, l)
  BY <1>2 DEF Known, Takes
<1>3. ASSUME NEW x \in Inputs, LinkOf(x) = l, Asked(N, x),
             l \subseteq A => <<Peer[x][1], x[1]>> \in L \/ Asked(N, Peer[x])
      PROVE  Known(w2, A, N2, C2, L2, l)
  <2>1. Peer[x] \in Inputs /\ Peer[Peer[x]] = x /\ LinkOf(Peer[x]) = l
    BY <1>3, PeerBack
  <2>2. \A z \in Inputs : Asked(N, z) => Asked(N2, z) \/ (z = y /\ h.opcode = 1)
    BY DEF Asked, Takes
  <2>3. CASE x = y /\ h.opcode = 1
    BY <1>3, <2>3
  <2>4. CASE Peer[x] = y /\ h.opcode = 1
    BY <1>3, <2>1, <2>4
  <2>5. CASE ~(h.opcode = 1 /\ (x = y \/ Peer[x] = y))
    BY <1>3, <2>1, <2>2, <2>5 DEF Known
  <2>. QED
    BY <2>3, <2>4, <2>5
<1>4. ASSUME NEW n \in DOMAIN w, l = {n, w[n]}, Coming(w, N, n)
      PROVE  Known(w2, A, N2, C2, L2, l)
  <2>1. PICK x \in Inputs : \E p \in Held(N, x) : Below(Switch, w, From(x, p), n)
    BY <1>4 DEF Coming
  <2>2. PICK p \in Held(N, x) : Below(Switch, w, From(x, p), n)
    BY <2>1
  <2>3. CASE x = y /\ p = h
    BY <1>4, <2>2, <2>3
  <2>4. CASE p \in Held(N2, x)
    <3>1. Coming(w2, N2, n)
      BY <2>2, <2>4 DEF Coming, Grown
    <3>. QED
      BY <1>4, <3>1 DEF Known, Grown
  <2>. QED
    BY <2>2, <2>3, <2>4 DEF Takes
<1>. QED
  BY <1>1, <1>2, <1>3, <1>4 DEF Known

\* What packet h for y was to tell about is known.
Settled(w, w2, A, N, N2, C2, L, L2, y, h) ==
    /\ h.opcode = 2 => \A l \in PathLinks(y[1], h.ids) : Known(w2, A, N2, C2, L2, l)
    /\ /\ h.opcode = 1
       /\ LinkOf(y) \subseteq A => <<Peer[y][1], y[1]>> \in L \/ Asked(N, Peer[y])
       => Known(w2, A, N2, C2, L2, LinkOf(y))
    /\ \A k \in DOMAIN w : Below(Switch, w, From(y, h), k) => Known(w2, A, N2, C2, L2, {k, w[k]})

\* The switches of R2 that are not in R have taken the request.
Front(R, R2, w, A, N, C, L) ==
    \A x \in Inputs : Peer[x][1] \in R2 =>
       /\ Peer[x][1] \notin R /\ x[1] \notin R2 => Asked(N, x)
       /\ x[1] \in R2 \ R => Known(w, A, N, C, L, LinkOf(x))

\* How an exploration goes on from the switches R to R2.
LEMMA WaveStep ==
    ASSUME NEW R, NEW R2, NEW w, NEW w2, NEW A, NEW N, NEW N2, NEW C, NEW C2, NEW L, NEW L2,
           Explorable, NEW y \in Inputs, NEW h, C \subseteq C2, L \subseteq L2,
           R \subseteq R2, y[1] \in R2, Wave(R, w, A, N, C, L),
           Takes(N, N2, y, h), Grown(w, w2),
           Settled(w, w2, A, N, N2, C2, L, L2, y, h),
           Front(R, R2, w2, A, N2, C2, L2), AllFit(w2, A, N2), NoLoop(w2)
    PROVE  Wave(R2, w2, A, N2, C2, L2)
<1>1. ASSUME NEW l, Known(w, A, N, C, L, l) PROVE Known(w2, A, N2, C2, L2, l)
  <2>1. h.opcode = 2 /\ l \in PathLinks(y[1], h.ids) => Known(w2, A, N2, C2, L2, l)
    BY DEF Settled
  <2>2. /\ h.opcode = 1 /\ LinkOf(y) = l
        /\ l \subseteq A => <<Peer[y][1], y[1]>> \in L \/ Asked(N, Peer[y])
        => Known(w2, A, N2, C2, L2, l)
    BY DEF Settled
  <2>3. \A k \in DOMAIN w : l = {k, w[k]} /\ Below(Switch, w, From(y, h), k)
           => Known(w2, A, N2, C2, L2, l)
    BY DEF Settled
  <2>. QED
    BY <1>1, <2>1, <2>2, <2>3, KnownKept, Zenon
<1>2. ASSUME NEW x \in Inputs, Peer[x][1] \in R2, x[1] \in R2 PROVE Known(w2, A, N2, C2, L2, LinkOf(x))
  <2>1. CASE Peer[x][1] \in R /\ x[1] \in R
    BY <1>1, <2>1 DEF Wave
  <2>2. CASE x[1] \notin R
    BY <1>2, <2>2 DEF Front
  <2>3. CASE Peer[x][1] \notin R
    <3>1. Peer[x] \in Inputs /\ Peer[Peer[x]] = x /\ LinkOf(Peer[x]) = LinkOf(x)
      BY PeerBack
    <3>2. Known(w2, A, N2, C2, L2, LinkOf(Peer[x]))
      BY <1>2, <2>3, <3>1 DEF Front
    <3>. QED
      BY <3>1, <3>2
  <2>. QED
    BY <2>1, <2>2, <2>3
<1>3. ASSUME NEW x \in Inputs, Peer[x][1] \in R2, x[1] \notin R2 PROVE Asked(N2, x)
  <2>1. CASE Peer[x][1] \notin R
    BY <1>3, <2>1 DEF Front
  <2>2. CASE Peer[x][1] \in R
    <3>1. Asked(N, x) /\ x # y
      BY <1>3, <2>2 DEF Wave
    <3>. QED
      BY <3>1 DEF Asked, Takes
  <2>. QED
    BY <2>1, <2>2
<1>. QED
  BY <1>2, <1>3 DEF Wave

\* The switches A are connected, and the others of R have a way up.
Shape(R, w, A) ==
    /\ R \subseteq Switch /\ A \subseteq R /\ DOMAIN w = R \ A /\ \A k \in DOMAIN w : w[k] \in R

\* A new switch closes none.
LEMMA GrownFacts ==
    ASSUME NEW R, NEW w, NEW w2, NEW a, NEW b, Grows(Switch, w, w2, R, a, b)
    PROVE  Grown(w, w2)
<1>1. DOMAIN w \subseteq DOMAIN w2 /\ \A k \in DOMAIN w : w2[k] = w[k]
  BY DEF Grows
<1>2. ASSUME NEW m, NEW k, Below(Switch, w, m, k) PROVE Below(Switch, w2, m, k)
  BY <1>1, <1>2 DEF Below, Closed
<1>. QED
  BY <1>1, <1>2 DEF Grown

\* Nothing is above a connected switch.
LEMMA NoneAbove ==
    ASSUME NEW R, NEW w, NEW A, Shape(R, w, A), NEW a \in A, NEW k \in DOMAIN w,
           Below(Switch, w, a, k)
    PROVE  FALSE
<1>1. a \in Switch /\ a \notin DOMAIN w /\ k # a
  BY DEF Shape
<1>. QED
  BY <1>1, BelowTop

\* The switches of R have taken the request already.
LEMMA WaveStays ==
    ASSUME NEW R, NEW w, NEW A, NEW N, NEW N2, NEW C, NEW C2, NEW L, NEW L2,
           Explorable, NEW y \in Inputs, NEW h, C \subseteq C2, L \subseteq L2,
           y[1] \in R, Wave(R, w, A, N, C, L), Takes(N, N2, y, h),
           Settled(w, w, A, N, N2, C2, L, L2, y, h),
           \A x \in Inputs : \A p \in Held(N2, x) : p \notin Held(N, x) => Fits(w, A, x, p)
    PROVE  Wave(R, w, A, N2, C2, L2)
<1>1. Grown(w, w)
  BY DEF Grown
<1>2. NoLoop(w) /\ AllFit(w, A, N2)
  BY DEF Wave, AllFit
<1>3. R \subseteq R /\ Front(R, R, w, A, N2, C2, L2)
  BY DEF Front
<1>. QED
  BY <1>1, <1>2, <1>3, WaveStep

\* The application handles a request of another connected switch.
LEMMA WaveDirect ==
    ASSUME NEW R, NEW w, NEW A, NEW N, NEW N2, NEW C, NEW C2, NEW L, NEW L2,
           Explorable, NEW y \in Inputs, NEW h, C \subseteq C2, L \subseteq L2,
           Shape(R, w, A), Wave(R, w, A, N, C, L), Takes(N, N2, y, h), h.opcode = 1,
           y[1] \in A, Peer[y][1] \in A,
           \A x \in Inputs : Held(N2, x) \subseteq Held(N, x),
           <<Peer[y][1], y[1]>> \in L => LinkOf(y) \in C2,
           <<Peer[y][1], y[1]>> \notin L => <<y[1], Peer[y][1]>> \in L2
    PROVE  Wave(R, w, A, N2, C2, L2)
<1>1. From(y, h) = Peer[y][1] /\ y[1] \in R
  BY SMT DEF From, Shape
<1>2. \A k \in DOMAIN w : ~Below(Switch, w, From(y, h), k)
  BY <1>1, NoneAbove
<1>3. Peer[y] \in Inputs /\ Peer[Peer[y]] = y /\ Peer[y] # y /\ LinkOf(Peer[y]) = LinkOf(y)
  BY PeerBack
<1>4. ASSUME <<Peer[y][1], y[1]>> \in L \/ Asked(N, Peer[y])
      PROVE  Known(w, A, N2, C2, L2, LinkOf(y))
  <2>1. CASE <<Peer[y][1], y[1]>> \in L
    BY <2>1 DEF Known
  <2>2. CASE <<Peer[y][1], y[1]>> \notin L
    <3>1. Asked(N2, Peer[y])
      BY <1>3, <1>4, <2>2 DEF Asked, Takes
    <3>. QED
      BY <1>3, <2>2, <3>1 DEF Known
  <2>. QED
    BY <2>1, <2>2
<1>5. LinkOf(y) \subseteq A
  BY DEF LinkOf
<1>6. Settled(w, w, A, N, N2, C2, L, L2, y, h)
  BY <1>2, <1>4, <1>5, SMT DEF Settled
<1>7. \A x \in Inputs : \A p \in Held(N2, x) : p \notin Held(N, x) => Fits(w, A, x, p)
  OBVIOUS
<1>. QED
  BY <1>1, <1>6, <1>7, WaveStays

\* A reply reaches a connected switch.
LEMMA WaveTold ==
    ASSUME NEW R, NEW w, NEW A, NEW N, NEW N2, NEW C, NEW C2, NEW L, NEW L2,
           Explorable, NEW y \in Inputs, NEW h, C \subseteq C2, L \subseteq L2,
           Shape(R, w, A), Wave(R, w, A, N, C, L), Takes(N, N2, y, h), h.opcode = 2,
           y[1] \in A, \A x \in Inputs : Held(N2, x) \subseteq Held(N, x),
           PathLinks(y[1], h.ids) \subseteq C2
    PROVE  Wave(R, w, A, N2, C2, L2)
<1>1. From(y, h) = y[1] /\ y[1] \in R
  BY DEF From, Shape
<1>2. \A k \in DOMAIN w : ~Below(Switch, w, From(y, h), k)
  BY <1>1, NoneAbove
<1>3. Settled(w, w, A, N, N2, C2, L, L2, y, h)
  BY <1>2, SMT DEF Known, Settled
<1>4. \A x \in Inputs : \A p \in Held(N2, x) : p \notin Held(N, x) => Fits(w, A, x, p)
  OBVIOUS
<1>. QED
  BY <1>1, <1>3, <1>4, WaveStays

\* Packet q is sent to x, and no other.
Adds(N, N2, x, q) ==
    q \in Held(N2, x) /\ \A z \in Inputs : \A p \in Held(N2, z) : p \in Held(N, z) \/ (z = x /\ p = q)

\* The answer to a request tells of its link.
LEMMA AnswerTells ==
    ASSUME NEW w, NEW w2, NEW A, NEW N, NEW N2, NEW C, NEW C2, NEW L, NEW L2, NEW y \in Inputs,
           NEW h, NEW q, Explorable, h.opcode = 1, q.opcode = 2, q.ids = <<y[1]>>, Grown(w, w2),
           Adds(N, N2, Peer[y], q)
    PROVE  Settled(w, w2, A, N, N2, C2, L, L2, y, h) /\ Known(w2, A, N2, C2, L2, LinkOf(y))
<1>1. Peer[y] \in Inputs /\ q \in Held(N2, Peer[y])
  BY PeerBack DEF Adds
<1>2. LinkOf(y) \in PathLinks(Peer[y][1], q.ids)
  <2>1. Len(q.ids) = 1 /\ q.ids[Len(q.ids)] = y[1]
    BY SMT
  <2>. QED
    BY <2>1 DEF PathLinks, LinkOf
<1>3. Known(w2, A, N2, C2, L2, LinkOf(y))
  BY <1>1, <1>2 DEF Known
<1>4. ASSUME NEW k \in DOMAIN w, Below(Switch, w, From(y, h), k)
      PROVE  Known(w2, A, N2, C2, L2, {k, w[k]})
  <2>1. From(y, h) = From(Peer[y], q)
    BY SMT DEF From
  <2>2. Coming(w2, N2, k)
    BY <1>1, <1>4, <2>1 DEF Coming, Grown
  <2>3. k \in DOMAIN w2 /\ w2[k] = w[k]
    BY DEF Grown
  <2>. QED
    BY <2>2, <2>3 DEF Known
<1>. QED
  BY <1>3, <1>4, SMT DEF Settled

\* A switch that has taken the request answers another copy.
LEMMA WaveAnswer ==
    ASSUME NEW R, NEW w, NEW A, NEW N, NEW N2, NEW C, NEW L, NEW y \in Inputs, NEW h, NEW q,
           Explorable, y[1] \in R, Wave(R, w, A, N, C, L), Takes(N, N2, y, h),
           h.opcode = 1, q.opcode = 2, q.ids = <<y[1]>>, Adds(N, N2, Peer[y], q)
    PROVE  Wave(R, w, A, N2, C, L)
<1>1. Settled(w, w, A, N, N2, C, L, L, y, h)
  <2>1. Grown(w, w)
    BY DEF Grown
  <2>. QED
    BY <2>1, AnswerTells
<1>2. Fits(w, A, Peer[y], q)
  BY SMT DEF Fits
<1>3. \A x \in Inputs : \A p \in Held(N2, x) : p \notin Held(N, x) => Fits(w, A, x, p)
  BY <1>2 DEF Adds
<1>4. C \subseteq C /\ L \subseteq L
  OBVIOUS
<1>. QED
  BY <1>1, <1>3, <1>4, WaveStays

\* A reply goes one switch up.
LEMMA WaveUp ==
    ASSUME NEW R, NEW w, NEW A, NEW N, NEW N2, NEW C, NEW L, NEW y \in Inputs, NEW h, NEW q,
           NEW x \in Inputs, Explorable, Shape(R, w, A), Wave(R, w, A, N, C, L),
           Takes(N, N2, y, h), h \in Held(N, y), y[1] \in R \ A, x[1] = w[y[1]],
           h.opcode = 2, q.opcode = 2, h.ids \in Seq(Switch), Len(h.ids) >= 1,
           q.ids = Append(h.ids, y[1]), Adds(N, N2, x, q)
    PROVE  Wave(R, w, A, N2, C, L)
<1>. DEFINE n == y[1]
            m == Len(h.ids)
<1>1. n \in DOMAIN w /\ n \in Switch /\ x[1] = w[n] /\ q \in Held(N2, x)
  BY InputFacts DEF Shape, Adds
<1>2. /\ m \in Nat /\ m >= 1 /\ Len(q.ids) = m + 1 /\ q.ids[m + 1] = n
      /\ \A k \in 1 .. m : q.ids[k] = h.ids[k]
  BY <1>1, SMT
<1>3. {n, w[n]} \in PathLinks(x[1], q.ids)
  BY <1>1, <1>2 DEF PathLinks
<1>4. ASSUME NEW l \in PathLinks(n, h.ids) PROVE l \in PathLinks(x[1], q.ids)
  <2>1. CASE l = {h.ids[m], n}
    <3>1. l = {q.ids[m], q.ids[m + 1]} /\ m \in 1 .. Len(q.ids) - 1
      BY <1>2, <2>1, SMT
    <3>. QED
      BY <3>1 DEF PathLinks
  <2>2. ASSUME NEW k \in 1 .. m - 1, l = {h.ids[k], h.ids[k + 1]} PROVE l \in PathLinks(x[1], q.ids)
    <3>1. l = {q.ids[k], q.ids[k + 1]} /\ k \in 1 .. Len(q.ids) - 1
      BY <1>2, <2>2, SMT
    <3>. QED
      BY <3>1 DEF PathLinks
  <2>. QED
    BY <2>1, <2>2 DEF PathLinks
<1>5. \A l \in PathLinks(x[1], q.ids) : Known(w, A, N2, C, L, l)
  BY <1>1 DEF Known
<1>6. ASSUME NEW k \in DOMAIN w, Below(Switch, w, n, k) PROVE Known(w, A, N2, C, L, {k, w[k]})
  <2>1. CASE k = n
    BY <1>3, <1>5, <2>1
  <2>2. CASE k # n
    <3>1. Below(Switch, w, w[n], k)
      BY <1>1, <1>6, <2>2, BelowNext
    <3>2. Coming(w, N2, k)
      BY <1>1, <3>1 DEF Coming, From
    <3>. QED
      BY <3>2 DEF Known
  <2>. QED
    BY <2>1, <2>2
<1>7. Settled(w, w, A, N, N2, C, L, L, y, h)
  BY <1>4, <1>5, <1>6, SMTT(30) DEF Settled, From
<1>8. Fits(w, A, x, q)
  <2>1. \A k \in 2 .. m :
           /\ h.ids[k] \in DOMAIN w /\ ~Below(Switch, w, n, h.ids[k])
           /\ \A j \in 2 .. m : h.ids[j] = h.ids[k] => j = k
    BY DEF Wave, AllFit, Fits
  <2>2. ~Below(Switch, w, w[n], n)
    BY <1>1 DEF Wave, NoLoop
  <2>3. \A k \in 2 .. m : h.ids[k] # n /\ ~Below(Switch, w, w[n], h.ids[k])
    BY <1>1, <2>1, BelowSelf, BelowUp
  <2>4. ASSUME NEW k \in 2 .. m + 1
        PROVE  /\ q.ids[k] \in DOMAIN w /\ ~Below(Switch, w, w[n], q.ids[k])
               /\ \A j \in 2 .. m + 1 : q.ids[j] = q.ids[k] => j = k
    <3>. HIDE DEF n, m
    <3>1. CASE k = m + 1
      <4>1. q.ids[k] = n
        BY <1>2, <3>1
      <4>2. ASSUME NEW j \in 2 .. m + 1, q.ids[j] = n PROVE j = k
        <5>1. j \in 2 .. m => q.ids[j] = h.ids[j] /\ h.ids[j] # n
          BY <1>2, <2>3, SMTT(30)
        <5>. QED
          BY <1>2, <3>1, <4>2, <5>1, SMT
      <4>. QED
        BY <1>1, <2>2, <4>1, <4>2
    <3>2. CASE k # m + 1
      <4>1. k \in 2 .. m /\ q.ids[k] = h.ids[k]
        BY <1>2, <3>2, SMTT(30)
      <4>2. ASSUME NEW j \in 2 .. m + 1, q.ids[j] = q.ids[k] PROVE j = k
        <5>1. CASE j = m + 1
          BY <1>2, <2>3, <4>1, <4>2, <5>1
        <5>2. CASE j # m + 1
          <6>1. j \in 2 .. m /\ q.ids[j] = h.ids[j]
            BY <1>2, <5>2, SMTT(30)
          <6>. QED
            BY <2>1, <4>1, <4>2, <6>1
        <5>. QED
          BY <5>1, <5>2
      <4>. QED
        BY <2>1, <2>3, <4>1, <4>2
    <3>. QED
      BY <3>1, <3>2
  <2>. QED
    BY <1>1, <1>2, <2>4, SMTT(30) DEF Fits
<1>9. \A z \in Inputs : \A p \in Held(N2, z) : p \notin Held(N, z) => Fits(w, A, z, p)
  BY <1>8 DEF Adds
<1>10. C \subseteq C /\ L \subseteq L /\ y[1] \in R
  OBVIOUS
<1>. QED
  BY <1>7, <1>9, <1>10, WaveStays

\* A switch takes the request: w2 is w with the switch of y below the one the
\* request came from.
LEMMA WaveNew ==
    ASSUME NEW R, NEW w, NEW w2, NEW A, NEW N, NEW N2, NEW C, NEW L, NEW y \in Inputs, NEW h,
           Explorable, Shape(R, w, A), Grows(Switch, w, w2, R, y[1], Peer[y][1]),
           Wave(R, w, A, N, C, L), Takes(N, N2, y, h),
           Settled(w, w2, A, N, N2, C, L, L, y, h), Known(w2, A, N2, C, L, LinkOf(y)),
           \A x \in Inputs : \A p \in Held(N, x) : p.opcode = 2 => x[1] \in R,
           \A x \in Inputs : Peer[x][1] = y[1] /\ x[1] \notin R => Asked(N2, x),
           \A x \in Inputs : \A p \in Held(N2, x) : p \notin Held(N, x) => Fits(w2, A, x, p)
    PROVE  Wave(R \cup {y[1]}, w2, A, N2, C, L)
<1>. DEFINE n == y[1]
            R2 == R \cup {n}
<1>1. /\ Grown(w, w2) /\ n \notin R /\ Peer[y][1] \in R /\ R \subseteq Switch
      /\ DOMAIN w2 = DOMAIN w \cup {n} /\ w2[n] = Peer[y][1]
      /\ \A k \in DOMAIN w : w2[k] = w[k] /\ w[k] \in R /\ k \in R
  BY GrownFacts, SMT DEF Grows
<1>2. /\ \A m \in R, k \in R : Below(Switch, w2, m, k) <=> Below(Switch, w, m, k)
      /\ \A m \in R : ~Below(Switch, w2, m, n)
  BY BelowGrows, SMT
<1>3. NoLoop(w2)
  BY <1>1, <1>2, SMTT(30) DEF Wave, NoLoop
<1>4. AllFit(w2, A, N2)
  <2>1. ASSUME NEW x \in Inputs, NEW p \in Held(N, x), Fits(w, A, x, p) PROVE Fits(w2, A, x, p)
    BY <1>1, <1>2, <2>1 DEF Fits
  <2>. QED
    BY <2>1 DEF Wave, AllFit
<1>5. ASSUME NEW x \in Inputs, Peer[x][1] \in R2, x[1] \in R2 \ R
      PROVE  Known(w2, A, N2, C, L, LinkOf(x))
  <2>1. x[1] = n /\ Peer[x][1] \in R
    BY <1>5, PeerBack
  <2>2. CASE x = y
    BY <2>2
  <2>3. CASE x # y
    <3>1. Asked(N2, x)
      BY <1>1, <2>1, <2>3 DEF Wave, Asked, Takes
    <3>2. ~(LinkOf(x) \subseteq A)
      BY <1>1, <2>1 DEF LinkOf, Shape
    <3>. QED
      BY <3>1, <3>2 DEF Known
  <2>. QED
    BY <2>2, <2>3
<1>6. ASSUME NEW x \in Inputs, Peer[x][1] \in R2 \ R, x[1] \notin R2 PROVE Asked(N2, x)
  BY <1>6
<1>7. C \subseteq C /\ L \subseteq L /\ R \subseteq R2 /\ y[1] \in R2
  OBVIOUS
<1>8. Front(R, R2, w2, A, N2, C, L)
  BY <1>5, <1>6 DEF Front
<1>. HIDE DEF R2
<1>9. Wave(R2, w2, A, N2, C, L)
  BY <1>1, <1>3, <1>4, <1>7, <1>8, WaveStep
<1>. QED
  BY <1>9 DEF R2

\* A switch with no other neighbour answers.
LEMMA WaveLeaf ==
    ASSUME NEW R, NEW w, NEW w2, NEW A, NEW N, NEW N2, NEW C, NEW L, NEW y \in Inputs, NEW h, NEW q,
           Explorable, Shape(R, w, A), Grows(Switch, w, w2, R, y[1], Peer[y][1]),
           Wave(R, w, A, N, C, L), Takes(N, N2, y, h),
           \A x \in Inputs : \A p \in Held(N, x) : p.opcode = 2 => x[1] \in R,
           h.opcode = 1, q.opcode = 2, q.ids = <<y[1]>>, Adds(N, N2, Peer[y], q),
           \A z \in Inputs : z[1] = y[1] => z = y
    PROVE  Wave(R \cup {y[1]}, w2, A, N2, C, L)
<1>1. Grown(w, w2) /\ Peer[y][1] \in R
  BY GrownFacts, SMTT(30) DEF Grows
<1>2. Settled(w, w2, A, N, N2, C, L, L, y, h) /\ Known(w2, A, N2, C, L, LinkOf(y))
  BY <1>1, AnswerTells
<1>3. ASSUME NEW x \in Inputs, Peer[x][1] = y[1], x[1] \notin R PROVE Asked(N2, x)
  <2>1. Peer[x] = y /\ Peer[y] = x
    BY <1>3, PeerBack
  <2>. QED
    BY <1>1, <1>3, <2>1
<1>4. Fits(w2, A, Peer[y], q)
  BY SMTT(30) DEF Fits
<1>5. \A x \in Inputs : \A p \in Held(N2, x) : p \notin Held(N, x) => Fits(w2, A, x, p)
  BY <1>4 DEF Adds
<1>. QED
  BY <1>2, <1>3, <1>5, WaveNew, SMTT(30)

\* A switch with other neighbours passes the request on to them.
LEMMA WavePass ==
    ASSUME NEW R, NEW w, NEW w2, NEW A, NEW N, NEW N2, NEW C, NEW L, NEW y \in Inputs, NEW h, NEW q,
           Explorable, Shape(R, w, A), Grows(Switch, w, w2, R, y[1], Peer[y][1]),
           Wave(R, w, A, N, C, L), Takes(N, N2, y, h),
           \A x \in Inputs : \A p \in Held(N, x) : p.opcode = 2 => x[1] \in R,
           h.opcode = 1, q.opcode = 1, Len(q.ids) # 1,
           \A x \in Inputs : Peer[x][1] = y[1] /\ x # Peer[y] => q \in Held(N2, x),
           \A x \in Inputs : \A p \in Held(N2, x) : p \in Held(N, x) \/ (p = q /\ Peer[x][1] = y[1]),
           NEW z \in Inputs, z[1] = y[1], z # y
    PROVE  Wave(R \cup {y[1]}, w2, A, N2, C, L)
<1>. DEFINE n == y[1]
<1>1. /\ Grown(w, w2) /\ n \in DOMAIN w2 /\ w2[n] = Peer[y][1] /\ n \notin A /\ Peer[y][1] \in R
  BY GrownFacts, SMTT(30) DEF Grows, Shape
<1>2. Peer[z] \in Inputs /\ Peer[Peer[z]] = z /\ Peer[Peer[y]] = y /\ q \in Held(N2, Peer[z])
  BY PeerBack, SMTT(30)
<1>3. From(Peer[z], q) = n
  BY <1>2, SMTT(30) DEF From
<1>4. Coming(w2, N2, n)
  BY <1>2, <1>3, BelowSelf DEF Coming
<1>5. Known(w2, A, N2, C, L, LinkOf(y))
  BY <1>1, <1>4 DEF Known, LinkOf
<1>6. ASSUME NEW k \in DOMAIN w, Below(Switch, w, From(y, h), k)
      PROVE  Known(w2, A, N2, C, L, {k, w[k]})
  <2>1. Below(Switch, w2, w2[n], k)
    BY <1>1, <1>6, SMT DEF From, Grown
  <2>2. Below(Switch, w2, n, k)
    BY <1>1, <2>1, BelowUp
  <2>3. Coming(w2, N2, k)
    BY <1>2, <1>3, <2>2 DEF Coming
  <2>. QED
    BY <1>1, <2>3 DEF Known, Grown
<1>7. Settled(w, w2, A, N, N2, C, L, L, y, h)
  BY <1>5, <1>6, SMTT(30) DEF Settled
<1>8. ASSUME NEW x \in Inputs, Peer[x][1] = n, x[1] \notin R PROVE Asked(N2, x)
  BY <1>1, <1>8 DEF Asked
<1>9. ASSUME NEW x \in Inputs, NEW p \in Held(N2, x), p \notin Held(N, x) PROVE Fits(w2, A, x, p)
  BY <1>1, <1>9, SMTT(30) DEF Fits
<1>. QED
  BY <1>5, <1>7, <1>8, <1>9, WaveNew

-----------------------------------------------------------------------------
\* An exploration whose packets have all been received has reached every switch and
\* made every link known.
LEMMA WaveEnds ==
    ASSUME NEW R, NEW w, NEW A, NEW N, NEW C, NEW L, Explorable, Wave(R, w, A, N, C, L),
           Root \in R, R \subseteq Switch, \A x \in Inputs : Held(N, x) = {}
    PROVE  Links \subseteq C
<1>1. \A x \in Inputs : ~Asked(N, x)
  BY DEF Asked
<1>2. \A x \in Inputs : Peer[x][1] \in R => x[1] \in R
  BY <1>1 DEF Wave
<1>3. R = Switch
  BY <1>2 DEF Explorable
<1>4. ASSUME NEW x \in Inputs PROVE LinkOf(x) \in C
  <2>1. Known(w, A, N, C, L, LinkOf(x))
    BY <1>3, InputFacts DEF Wave
  <2>2. \A n : ~Coming(w, N, n)
    BY DEF Coming
  <2>. QED
    BY <1>1, <2>1, <2>2 DEF Known
<1>. QED
  BY <1>4 DEF Links, LinkOf

\* An exploration starts with a request to every neighbour of a connected switch.
LEMMA WaveStarts ==
    ASSUME NEW w, NEW A, NEW N, NEW C, NEW L, Explorable, DOMAIN w = {},
           \A x \in Inputs : Peer[x][1] \in A => Asked(N, x),
           \A x \in Inputs : \A p \in Held(N, x) :
              p.opcode = 1 /\ Len(p.ids) = 1 /\ Peer[x][1] \in A
    PROVE  Wave(A, w, A, N, C, L)
<1>1. ASSUME NEW x \in Inputs, Peer[x][1] \in A, x[1] \in A PROVE Known(w, A, N, C, L, LinkOf(x))
  <2>1. Peer[x] \in Inputs /\ Peer[Peer[x]] = x
    BY PeerBack
  <2>2. Asked(N, x) /\ Asked(N, Peer[x])
    BY <1>1, <2>1
  <2>. QED
    BY <2>2 DEF Known
<1>2. AllFit(w, A, N) /\ NoLoop(w)
  BY SMT DEF Fits, AllFit, NoLoop
<1>. QED
  BY <1>1, <1>2 DEF Wave

\* Where the exploration is.
LEMMA WayShape ==
    ASSUME TreeInv, Steady, Active PROVE Shape(ReachedSet, Way, attached) /\ Root \in ReachedSet
<1>1. attached \subseteq Switch /\ Root \in attached
  BY DEF TreeInv, Types, Steady
<1>2. DOMAIN Way = {k \in Switch \ attached : Fresh(k)} /\ \A k \in DOMAIN Way : Way[k] = Parent(k)
  BY DEF Way
<1>3. ASSUME NEW k \in DOMAIN Way PROVE Way[k] \in ReachedSet
  <2>1. k \in Switch /\ Fresh(k)
    BY <1>2
  <2>2. <<k, bt_table[k][1].port_in>> \in Inputs /\ Reached(Parent(k))
    BY <2>1 DEF Active
  <2>3. Parent(k) \in Switch
    BY <2>2, InputFacts DEF Parent
  <2>. QED
    BY <1>2, <2>2, <2>3 DEF ReachedSet
<1>. QED
  BY <1>1, <1>2, <1>3 DEF Shape, ReachedSet, Reached

\* A step that lets no switch join leaves the ways up as they are,
LEMMA WayStays ==
    ASSUME NEW new, TablesKept(new), attached' = attached, attached \subseteq Switch,
           \A m \in new : m \in Switch => Reached(m)
    PROVE  ReachedSet' = ReachedSet /\ Way' = Way
<1>1. \A m \in Switch : Fresh(m) => Fresh(m)'
  BY DEF TablesKept
<1>2. \A m \in Switch \ attached : Fresh(m)' => Fresh(m)
  BY DEF TablesKept, Reached
<1>3. \A m \in Switch \ attached : Fresh(m)' <=> Fresh(m)
  BY <1>1, <1>2
<1>4. ReachedSet' = ReachedSet
  BY <1>3 DEF ReachedSet, Reached
<1>5. \A m \in Switch : Fresh(m) => Parent(m)' = Parent(m)
  BY DEF TablesKept, Parent
<1>6. {k \in Switch \ attached' : Fresh(k)'} = {k \in Switch \ attached : Fresh(k)}
  BY <1>3
<1>7. Way' = Way
  BY <1>5, <1>6 DEF Way
<1>. QED
  BY <1>4, <1>7

\* and one that lets the switch of y join puts it below the sender.
LEMMA WayGrows ==
    ASSUME TreeInv, Steady, Active, NEW y \in Inputs, TablesKept({y[1]}), attached' = attached,
           ~Reached(y[1]), Fresh(y[1])', bt_table'[y[1]][1].port_in = y[2], Reached(Peer[y][1])
    PROVE  /\ ReachedSet' = ReachedSet \cup {y[1]}
           /\ Grows(Switch, Way, Way', ReachedSet, y[1], Peer[y][1])
<1>. DEFINE n == y[1]
<1>1. n \in Switch /\ n \notin attached /\ ~Fresh(n) /\ Peer[y][1] = Ports[n][y[2]] /\ Peer[y][1] \in Switch
  BY InputFacts DEF Reached
<1>2. \A m \in Switch : Fresh(m)' <=> Fresh(m) \/ m = n
  BY DEF TablesKept
<1>3. ReachedSet' = ReachedSet \cup {n}
  BY <1>1, <1>2 DEF ReachedSet, Reached
<1>4. \A m \in Switch : Fresh(m) => Parent(m)' = Parent(m)
  BY DEF TablesKept, Parent
<1>5. Parent(n)' = Peer[y][1]
  BY <1>1 DEF Parent
<1>6. /\ DOMAIN Way = {k \in Switch \ attached : Fresh(k)}
      /\ \A k \in DOMAIN Way : Way[k] = Parent(k)
      /\ DOMAIN Way' = {k \in Switch \ attached' : Fresh(k)'}
      /\ \A k \in DOMAIN Way' : Way'[k] = Parent(k)'
  BY DEF Way
<1>7. DOMAIN Way' = DOMAIN Way \cup {n}
  BY <1>1, <1>2, <1>6
<1>8. Way'[n] = Peer[y][1]
  BY <1>5, <1>6, <1>7
<1>9. \A k \in DOMAIN Way : Way'[k] = Way[k]
  BY <1>4, <1>6, <1>7
<1>10. Shape(ReachedSet, Way, attached) /\ n \notin ReachedSet /\ Peer[y][1] \in ReachedSet
  BY <1>1, WayShape DEF ReachedSet
<1>. QED
  BY <1>1, <1>3, <1>7, <1>8, <1>9, <1>10 DEF Grows, Shape

\* Held and In say the same.
LEMMA HeldIn == ASSUME NEW N, NEW x PROVE \A p : p \in Held(N, x) <=> In(N, x, p)
BY DEF Held, In

\* The network after a packet was taken and q sent by the ports `out'.
LEMMA SentNet ==
    ASSUME TreeInv, NEW y \in Inputs, net[y] # <<>>, NEW out, NEW q \in Packet
    PROVE  LET N2 == Sent(Rest(y), y[1], out, q) IN
           /\ Takes(net, N2, y, First(y))
           /\ \A x \in Inputs : Peer[x][1] = y[1] /\ Peer[x][2] \in out => q \in Held(N2, x)
           /\ \A x \in Inputs : \A p \in Held(N2, x) :
                 p \in Held(net, x) \/ (p = q /\ Peer[x][1] = y[1] /\ Peer[x][2] \in out)
<1>. DEFINE N2 == Sent(Rest(y), y[1], out, q)
<1>1. net \in [Inputs -> Seq(Packet)] /\ Rest(y) \in [Inputs -> Seq(Packet)]
  BY RestFacts DEF TreeInv, Types, Rest
<1>2. ASSUME NEW x \in Inputs, NEW p, In(net, x, p) PROVE In(N2, x, p) \/ (x = y /\ p = First(y))
  <2>1. In(Rest(y), x, p) \/ (x = y /\ p = First(y))
    BY <1>1, <1>2, RestKeeps DEF Rest, First
  <2>. QED
    BY <1>1, <2>1, SentKeeps, SMTT(30)
<1>3. ASSUME NEW x \in Inputs, NEW p, In(N2, x, p)
      PROVE  In(net, x, p) \/ (p = q /\ Peer[x][1] = y[1] /\ Peer[x][2] \in out)
  <2>1. In(Rest(y), x, p) \/ (p = q /\ Peer[x][1] = y[1] /\ Peer[x][2] \in out)
    BY <1>1, <1>3, SentKeeps, SMT
  <2>. QED
    BY <1>1, <2>1, RestFacts DEF Rest
<1>4. ASSUME NEW x \in Inputs, Peer[x][1] = y[1], Peer[x][2] \in out PROVE In(N2, x, q)
  BY <1>1, <1>4, SentKeeps, SMTT(30)
<1>. HIDE DEF N2
<1>. QED
  BY <1>2, <1>3, <1>4, HeldIn DEF Takes, N2

\* Receiving a packet takes it away and nothing else.
LEMMA RestNet ==
    ASSUME TreeInv, NEW y \in Inputs, net[y] # <<>>
    PROVE  /\ Takes(net, Rest(y), y, First(y))
           /\ \A x \in Inputs : Held(Rest(y), x) \subseteq Held(net, x)
<1>1. net \in [Inputs -> Seq(Packet)]
  BY DEF TreeInv, Types
<1>2. \A x \in Inputs : \A p : In(net, x, p) => In(Rest(y), x, p) \/ (x = y /\ p = First(y))
  BY <1>1, RestKeeps DEF Rest, First
<1>3. \A x \in Inputs : \A p : In(Rest(y), x, p) => In(net, x, p)
  BY <1>1, RestFacts DEF Rest
<1>. QED
  BY <1>2, <1>3, HeldIn DEF Takes

\* One packet to the switch at the other end of port z.
LEMMA SentOne ==
    ASSUME Explorable, TreeInv, NEW y \in Inputs, net[y] # <<>>, NEW z \in Inputs, z[1] = y[1],
           NEW q \in Packet
    PROVE  LET N2 == Sent(Rest(y), y[1], {z[2]}, q) IN
           Takes(net, N2, y, First(y)) /\ Adds(net, N2, Peer[z], q)
<1>. DEFINE out == {z[2]}
            N2 == Sent(Rest(y), y[1], out, q)
<1>. HIDE DEF out
<1>1. /\ Takes(net, N2, y, First(y))
      /\ \A x \in Inputs : Peer[x][1] = y[1] /\ Peer[x][2] \in out => q \in Held(N2, x)
      /\ \A x \in Inputs : \A p \in Held(N2, x) :
            p \in Held(net, x) \/ (p = q /\ Peer[x][1] = y[1] /\ Peer[x][2] \in out)
  BY SentNet
<1>. HIDE DEF N2
<1>2. Peer[z] \in Inputs /\ Peer[Peer[z]] = z
  BY PeerBack
<1>3. ASSUME NEW x \in Inputs, Peer[x][1] = y[1], Peer[x][2] = z[2] PROVE x = Peer[z]
  <2>1. Peer[x] \in Inputs /\ Peer[Peer[x]] = x
    BY PeerBack
  <2>2. Peer[x] = z
    BY <1>3, <2>1, InputFacts
  <2>. QED
    BY <2>1, <2>2
<1>. QED
  BY <1>1, <1>2, <1>3 DEF Adds, out, N2

\* A switch that is not connected and could do what the request asks for
\* answers it, or passes it on when it is the first and there are neighbours.
LEMMA RequestUndisturbed ==
    ASSUME Explorable, Calm, TreeInv, Steady, Active, NEW y \in Inputs, ReceiveRequest(y[1], y[2]),
           y[1] \notin attached, ~disturbed'
    PROVE  /\ Fresh(y[1]) => Answers(y)
           /\ ~Fresh(y[1]) =>
                IF \A z \in Inputs : z[1] = y[1] => z = y THEN Answers(y) ELSE PassesOn(y)
<1>. DEFINE n == y[1]
            i == y[2]
            h == First(y)
<1>1. y = <<n, i>> /\ n \in Switch /\ i \in PortNo(n) /\ n # Root
  BY InputFacts DEF Steady
<1>2. net[y] # <<>> /\ h \in Packet /\ h.num_sec = timestamp_hddp
  BY RequestEffect, FirstFacts
<1>3. PICK how \in Outcomes :
        LET mod == ehddp_mod_local_port(n, i, h, how) IN
        /\ mod.result = 255 => disturbed'
        /\ IF n \in attached
           THEN process(n, i, h, Rest(y)) /\ UNCHANGED floods
           ELSE handle_ehddp_request_packets(n, i, h, mod, Rest(y)) /\ UNCHANGED app
  <2>1. ReceiveRequest(n, i) /\ n # Root
    BY <1>1
  <2>2. \E how \in Outcomes :
        LET mod == ehddp_mod_local_port(n, i, Head(net[<<n, i>>]), how) IN
        /\ mod.result = 255 => disturbed'
        /\ IF n \in attached
           THEN process(n, i, Head(net[<<n, i>>]), [net EXCEPT ![<<n, i>>] = Tail(@)]) /\ UNCHANGED floods
           ELSE handle_ehddp_request_packets(n, i, Head(net[<<n, i>>]), mod, [net EXCEPT ![<<n, i>>] = Tail(@)])
                /\ UNCHANGED app
    <3>. HIDE DEF n, i
    <3>. QED
      BY <2>1 DEF ReceiveRequest
  <2>. QED
    BY <1>1, <2>2 DEF First, Rest
<1>. DEFINE mod == ehddp_mod_local_port(n, i, h, how)
<1>4. mod.result # 255
  BY <1>3, Zenon
<1>5. found_port(n, h) > 0 <=> Fresh(n)
  <2>1. found_port(n, h) = Up(n, timestamp_hddp)
    BY <1>2 DEF found_port, Up
  <2>. QED
    BY <1>1, <2>1, FreshUp DEF Steady
<1>6. Fresh(n) => mod.result = 0
  BY <1>5 DEF ehddp_mod_local_port
<1>7. ~Fresh(n) => mod.result = 1 /\ (mod.port = NO_PORT <=> n \in NonSdn)
  <2>1. /\ n \in NonSdn => local_port[n] = NO_PORT
        /\ n \in moved => local_port[n] # NO_PORT
    BY DEF TreeInv
  <2>2. ~Fresh(n) => \/ mod = [result |-> 1, port |-> local_port[n]] /\ ~NeedsLocalPort(n)
                     \/ mod = [result |-> 1, port |-> i] /\ NeedsLocalPort(n)
    BY <1>4, <1>5 DEF ehddp_mod_local_port
  <2>3. i # NO_PORT
    BY <1>1, SMT DEF PortNo, NO_PORT
  <2>. HIDE DEF mod
  <2>. QED
    BY <1>1, <2>1, <2>2, <2>3, SMT DEF NeedsLocalPort, Sdn
<1>. HIDE DEF mod
<1>8. ~Fresh(n) => num_port_available(n, mod.port) =
                   num_port_available(n, IF n \in NonSdn THEN NO_PORT ELSE 1)
  <2>. DEFINE d == IF n \in NonSdn THEN NO_PORT ELSE 1
  <2>1. ~Fresh(n) => (mod.port = NO_PORT <=> d = NO_PORT)
    BY <1>7, SMT DEF NO_PORT
  <2>2. \A a, b : (a = NO_PORT <=> b = NO_PORT) => num_port_available(n, a) = num_port_available(n, b)
    BY Zenon DEF num_port_available
  <2>. HIDE DEF d
  <2>3. ~Fresh(n) => num_port_available(n, mod.port) = num_port_available(n, d)
    BY <2>1, <2>2
  <2>. QED
    BY <2>3 DEF d
<1>9. num_port_available(n, IF n \in NonSdn THEN NO_PORT ELSE 1) = 1
      <=> \A z \in Inputs : z[1] = n => z = y
  BY <1>1 DEF Explorable
<1>10. PICK r \in Repetido :
        LET answer == num_port_available(n, mod.port) = 1 \/ mod.result = 0
            flood == ~answer /\ Forwards(mod)
        IN  /\ net' = IF answer THEN Sent(Rest(y), n, {i}, Reply(h.num_sec, <<n>>))
                      ELSE IF flood THEN Sent(Rest(y), n, PortNo(n) \ {i}, Extended(h, n, r))
                      ELSE Rest(y)
            /\ floods' = IF flood THEN [floods EXCEPT ![n][h.num_sec] = IF @ < 2 THEN @ + 1 ELSE @]
                         ELSE floods
  BY <1>3 DEF handle_ehddp_request_packets, mod
<1>11. num_port_available(n, mod.port) = 1 \/ mod.result = 0 => Answers(y)
  BY <1>2, <1>10, Zenon DEF Answers
<1>12. ~(num_port_available(n, mod.port) = 1 \/ mod.result = 0) /\ mod.result = 1 => PassesOn(y)
  BY <1>2, <1>10, Zenon DEF PassesOn, Forwards
<1>13. Fresh(n) => Answers(y)
  BY <1>6, <1>11
<1>14. ASSUME ~Fresh(n)
       PROVE  IF \A z \in Inputs : z[1] = n => z = y THEN Answers(y) ELSE PassesOn(y)
  <2>1. mod.result = 1 /\ mod.result # 0
    BY <1>7, <1>14, SMTT(30)
  <2>2. num_port_available(n, mod.port) = 1 <=> \A z \in Inputs : z[1] = n => z = y
    BY <1>8, <1>9, <1>14
  <2>. QED
    BY <1>11, <1>12, <2>1, <2>2
<1>. QED
  BY <1>13, <1>14

\* What is used of the exploration when a packet comes to y.
Setting(y) ==
    /\ Explorable /\ Calm /\ Readable /\ TreeInv /\ Steady /\ Active /\ LinkInv /\ Exploring
    /\ net[y] # <<>>

\* What that says about the packet received.
LEMMA SettingFacts ==
    ASSUME NEW y \in Inputs, Setting(y)
    PROVE  /\ First(y) \in Packet /\ First(y).num_sec = timestamp_hddp /\ First(y) \in Held(net, y)
           /\ timestamp_hddp \in 1 .. Waves /\ Truthful(y, First(y)) /\ Fits(Way, attached, y, First(y))
           /\ y = <<y[1], y[2]>> /\ y[1] \in Switch /\ y[2] \in PortNo(y[1])
           /\ First(y).opcode = 1 => Reached(Peer[y][1])
           /\ First(y).opcode = 2 => Reached(y[1])
           /\ \A x \in Inputs : \A p \in Held(net, x) : p.opcode = 2 => x[1] \in ReachedSet
<1>1. /\ First(y) \in Packet /\ First(y) \in Under(y) /\ First(y).num_sec = timestamp_hddp
      /\ timestamp_hddp \in 1 .. Waves
      /\ y = <<y[1], y[2]>> /\ y[1] \in Switch /\ y[2] \in PortNo(y[1])
  BY FirstFacts DEF Setting
<1>2. In(net, y, First(y)) /\ First(y) \in Held(net, y)
  BY <1>1, UnderIn, HeldIn
<1>3. Truthful(y, First(y)) /\ Fits(Way, attached, y, First(y))
  BY <1>2 DEF Setting, LinkInv, Exploring, Wave, AllFit
<1>4. \A x \in Inputs : \A p \in Under(x) :
         /\ p.opcode = 1 => Reached(Peer[x][1])
         /\ p.opcode = 2 => Reached(x[1])
  BY DEF Setting, Active
<1>5. \A x \in Inputs : Under(x) = Held(net, x) /\ x[1] \in Switch
  BY InputFacts DEF Under, Held
<1>. QED
  BY <1>1, <1>2, <1>3, <1>4, <1>5 DEF ReachedSet

\* The application handles a request.
LEMMA DiscHandled ==
    ASSUME NEW y \in Inputs, Setting(y), First(y).opcode = 1, y[1] \in attached,
           process(y[1], y[2], First(y), Rest(y)), attached' = attached,
           Way' = Way, ReachedSet' = ReachedSet
    PROVE  Exploring'
<1>. DEFINE n == y[1]
            h == First(y)
            m == Peer[y][1]
<1>1. /\ Explorable /\ Shape(ReachedSet, Way, attached)
      /\ Wave(ReachedSet, Way, attached, net, configuredLinks, link_sdn_nodes)
  BY WayShape DEF Setting, Exploring
<1>2. /\ h \in Packet /\ h.num_sec = timestamp_hddp /\ timestamp_hddp \in 1 .. Waves
      /\ Truthful(y, h) /\ Fits(Way, attached, y, h) /\ n \in Switch /\ TreeInv /\ net[y] # <<>>
  BY SettingFacts DEF Setting
<1>3. n \in ReachedSet
  BY <1>1 DEF Shape
<1>4. CASE Len(h.ids) = 1
  <2>1. m \in attached /\ h.ids[1] = m
    BY <1>2, <1>4 DEF Fits, Truthful
  <2>2. PathLinks(n, h.ids) = {LinkOf(y)}
    BY <1>4, <2>1, SMT DEF PathLinks, LinkOf
  <2>3. /\ link_sdn_nodes' = IF <<m, n>> \notin link_sdn_nodes
                             THEN link_sdn_nodes \cup {<<n, m>>} ELSE link_sdn_nodes
        /\ configuredLinks' = IF <<m, n>> \in link_sdn_nodes
                              THEN configuredLinks \cup PathLinks(n, h.ids) ELSE configuredLinks
        /\ net' = Rest(y)
    BY <1>2, <1>4, <2>1, SMTT(30) DEF process
  <2>4. /\ configuredLinks \subseteq configuredLinks' /\ link_sdn_nodes \subseteq link_sdn_nodes'
        /\ <<m, n>> \in link_sdn_nodes => LinkOf(y) \in configuredLinks'
        /\ <<m, n>> \notin link_sdn_nodes => <<n, m>> \in link_sdn_nodes'
    BY <2>2, <2>3
  <2>5. /\ Takes(net, net', y, h)
        /\ \A x \in Inputs : Held(net', x) \subseteq Held(net, x)
    BY <1>2, <2>3, RestNet
  <2>6. Wave(ReachedSet, Way, attached, net', configuredLinks', link_sdn_nodes')
    BY <1>1, <2>1, <2>4, <2>5, WaveDirect
  <2>. QED
    BY <2>6 DEF Exploring
<1>5. CASE Len(h.ids) # 1
  <2>. DEFINE q == Reply(timestamp_hddp, <<n>>)
  <2>1. q \in Packet /\ q.opcode = 2 /\ q.ids = <<n>>
    BY <1>2, PacketFacts, ZenonT(30)
  <2>2. /\ net' = Sent(Rest(y), n, {y[2]}, q)
        /\ UNCHANGED <<configuredLinks, link_sdn_nodes>>
    BY <1>2, <1>5, SMT DEF process
  <2>. HIDE DEF q
  <2>3. Takes(net, net', y, h) /\ Adds(net, net', Peer[y], q)
    BY <1>1, <1>2, <2>1, <2>2, SentOne
  <2>4. Wave(ReachedSet, Way, attached, net', configuredLinks, link_sdn_nodes)
    BY <1>1, <1>3, <2>1, <2>3, WaveAnswer
  <2>. QED
    BY <2>2, <2>4 DEF Exploring
<1>. QED
  BY <1>4, <1>5

\* A switch that is not connected answers a request.
LEMMA DiscAnswered ==
    ASSUME NEW y \in Inputs, Setting(y), First(y).opcode = 1, Answers(y),
           attached' = attached, UNCHANGED <<configuredLinks, link_sdn_nodes>>,
           \/ y[1] \in ReachedSet /\ Way' = Way /\ ReachedSet' = ReachedSet
           \/ /\ Grows(Switch, Way, Way', ReachedSet, y[1], Peer[y][1])
              /\ ReachedSet' = ReachedSet \cup {y[1]}
              /\ \A z \in Inputs : z[1] = y[1] => z = y
    PROVE  Exploring'
<1>. DEFINE n == y[1]
            h == First(y)
            q == Reply(timestamp_hddp, <<n>>)
<1>1. /\ Explorable /\ Shape(ReachedSet, Way, attached)
      /\ Wave(ReachedSet, Way, attached, net, configuredLinks, link_sdn_nodes)
  BY WayShape DEF Setting, Exploring
<1>2. /\ timestamp_hddp \in 1 .. Waves /\ h \in Packet /\ n \in Switch /\ TreeInv /\ net[y] # <<>>
      /\ \A x \in Inputs : \A p \in Held(net, x) : p.opcode = 2 => x[1] \in ReachedSet
  BY SettingFacts DEF Setting
<1>3. q \in Packet /\ q.opcode = 2 /\ q.ids = <<n>> /\ net' = Sent(Rest(y), n, {y[2]}, q)
  BY <1>2, PacketFacts, ZenonT(30) DEF Answers
<1>. HIDE DEF q
<1>4. Takes(net, net', y, h) /\ Adds(net, net', Peer[y], q)
  BY <1>1, <1>2, <1>3, SentOne
<1>5. CASE n \in ReachedSet /\ Way' = Way /\ ReachedSet' = ReachedSet
  <2>1. Wave(ReachedSet, Way, attached, net', configuredLinks, link_sdn_nodes)
    BY <1>1, <1>3, <1>4, <1>5, WaveAnswer
  <2>. QED
    BY <1>5, <2>1 DEF Exploring
<1>6. CASE /\ Grows(Switch, Way, Way', ReachedSet, n, Peer[y][1])
           /\ ReachedSet' = ReachedSet \cup {n}
           /\ \A z \in Inputs : z[1] = n => z = y
  <2>1. Wave(ReachedSet \cup {n}, Way', attached, net', configuredLinks, link_sdn_nodes)
    BY <1>1, <1>2, <1>3, <1>4, <1>6, WaveLeaf
  <2>. QED
    BY <1>6, <2>1 DEF Exploring
<1>. QED
  BY <1>5, <1>6

\* A switch takes the request and passes it on.
LEMMA DiscPassed ==
    ASSUME NEW y \in Inputs, Setting(y), First(y).opcode = 1, PassesOn(y),
           attached' = attached, UNCHANGED <<configuredLinks, link_sdn_nodes>>,
           Grows(Switch, Way, Way', ReachedSet, y[1], Peer[y][1]),
           ReachedSet' = ReachedSet \cup {y[1]}, \E z \in Inputs : z[1] = y[1] /\ z # y
    PROVE  Exploring'
<1>. DEFINE n == y[1]
            h == First(y)
            out == PortNo(n) \ {y[2]}
<1>1. /\ Explorable /\ Shape(ReachedSet, Way, attached)
      /\ Wave(ReachedSet, Way, attached, net, configuredLinks, link_sdn_nodes)
  BY WayShape DEF Setting, Exploring
<1>2. /\ h \in Packet /\ Truthful(y, h) /\ n \in Switch /\ TreeInv /\ net[y] # <<>>
      /\ \A x \in Inputs : \A p \in Held(net, x) : p.opcode = 2 => x[1] \in ReachedSet
  BY SettingFacts DEF Setting
<1>3. PICK r \in Repetido : net' = Sent(Rest(y), n, out, Extended(h, n, r))
  BY DEF PassesOn
<1>. DEFINE q == Extended(h, n, r)
<1>4. q \in Packet /\ q.opcode = 1
  <2>1. r \in BOOLEAN /\ timestamp_hddp \in 1 .. Waves
    BY EhddpAssumption, SettingFacts
  <2>. QED
    BY <1>2, <2>1, PacketFacts
<1>5. Len(q.ids) # 1
  <2>1. Repetido = {FALSE} /\ MAX_ELEMENTS >= 2 /\ MAX_ELEMENTS \in Nat
    BY EhddpAssumption DEF Setting, Readable
  <2>2. r = FALSE
    BY <2>1
  <2>3. h.ids \in Seq(Switch) /\ Len(h.ids) \in Nat /\ Len(h.ids) >= 1
    BY <1>2, SMT DEF Packet, Truthful
  <2>4. CASE Len(h.ids) + 1 > MAX_ELEMENTS
    <3>1. q = h
      BY <2>4 DEF Extended
    <3>2. ASSUME NEW a \in Nat, a + 1 > MAX_ELEMENTS PROVE a # 1
      BY <2>1, <3>2, SMT
    <3>3. Len(h.ids) # 1
      BY <2>3, <2>4, <3>2
    <3>. HIDE DEF q
    <3>. QED
      BY <3>1, <3>3
  <2>5. CASE ~(Len(h.ids) + 1 > MAX_ELEMENTS)
    <3>1. q = [h EXCEPT !.ids = Append(@, n)]
      BY <2>2, <2>5 DEF Extended
    <3>2. q.ids = Append(h.ids, n)
      BY <1>2, <3>1 DEF Packet
    <3>. QED
      BY <1>2, <2>3, <3>2, SMTT(30)
  <2>. QED
    BY <2>4, <2>5
<1>. HIDE DEF q, out
<1>6. /\ Takes(net, net', y, h)
      /\ \A x \in Inputs : Peer[x][1] = n /\ Peer[x][2] \in out => q \in Held(net', x)
      /\ \A x \in Inputs : \A p \in Held(net', x) : p \in Held(net, x) \/ (p = q /\ Peer[x][1] = n)
  <2>1. net' = Sent(Rest(y), n, out, q)
    BY <1>3 DEF q
  <2>. DEFINE N2 == Sent(Rest(y), n, out, q)
  <2>2. /\ Takes(net, N2, y, h)
        /\ \A x \in Inputs : Peer[x][1] = n /\ Peer[x][2] \in out => q \in Held(N2, x)
        /\ \A x \in Inputs : \A p \in Held(N2, x) :
              p \in Held(net, x) \/ (p = q /\ Peer[x][1] = n /\ Peer[x][2] \in out)
    BY <1>2, <1>4, SentNet
  <2>. HIDE DEF N2
  <2>3. net' = N2
    BY <2>1 DEF N2
  <2>. QED
    BY <2>2, <2>3
<1>7. ASSUME NEW x \in Inputs, Peer[x][1] = n, x # Peer[y] PROVE q \in Held(net', x)
  <2>1. Peer[x] \in Inputs /\ Peer[Peer[x]] = x /\ Peer[x] # y
    BY <1>1, <1>7, PeerBack
  <2>2. Peer[x] = <<Peer[x][1], Peer[x][2]>> /\ Peer[x][2] \in PortNo(Peer[x][1]) /\ y = <<n, y[2]>>
    BY <2>1, InputFacts
  <2>3. Peer[x][2] \in out
    BY <1>7, <2>1, <2>2 DEF out
  <2>. QED
    BY <1>6, <1>7, <2>3
<1>8. PICK z \in Inputs : z[1] = n /\ z # y
  OBVIOUS
<1>9. Wave(ReachedSet \cup {n}, Way', attached, net', configuredLinks, link_sdn_nodes)
  BY <1>1, <1>2, <1>4, <1>5, <1>6, <1>7, <1>8, WavePass, SMTT(30)
<1>. QED
  BY <1>9 DEF Exploring

\* ReceiveRequest keeps the exploration on its way, unless it disturbs it;
LEMMA DiscRequest ==
    ASSUME NEW y \in Inputs, Setting(y), TreeInv', ReceiveRequest(y[1], y[2]), ~disturbed'
    PROVE  Exploring'
<1>. DEFINE n == y[1]
<1>1. Explorable /\ Calm /\ TreeInv /\ Steady /\ Active
  BY DEF Setting
<1>2. /\ First(y).opcode = 1 /\ attached' = attached
      /\ n \in attached => process(n, y[2], First(y), Rest(y))
      /\ n \notin attached => UNCHANGED app
  BY <1>1, RequestEffect
<1>3. /\ TablesKept({n}) /\ (n = Root \/ Fresh(n)')
      /\ n # Root /\ ~Fresh(n) => bt_table'[n][1].port_in = y[2]
  BY <1>1, OnceRequest
<1>4. attached \subseteq Switch /\ Root \in attached /\ n \in Switch
  BY <1>1, InputFacts DEF TreeInv, Types, Steady
<1>5. Reached(n) => ReachedSet' = ReachedSet /\ Way' = Way /\ n \in ReachedSet
  BY <1>2, <1>3, <1>4, WayStays DEF ReachedSet
<1>6. Reached(Peer[y][1])
  BY <1>2, SettingFacts
<1>7. CASE n \in attached
  <2>1. Reached(n)
    BY <1>7 DEF Reached
  <2>. QED
    BY <1>2, <1>5, <1>7, <2>1, DiscHandled
<1>8. CASE n \notin attached
  <2>1. /\ Fresh(n) => Answers(y)
        /\ ~Fresh(n) => IF \A z \in Inputs : z[1] = n => z = y THEN Answers(y) ELSE PassesOn(y)
    BY <1>1, <1>8, RequestUndisturbed
  <2>2. UNCHANGED <<configuredLinks, link_sdn_nodes>>
    BY <1>2, <1>8 DEF app
  <2>3. CASE Fresh(n)
    <3>1. Reached(n)
      BY <2>3 DEF Reached
    <3>. QED
      BY <1>2, <1>5, <2>1, <2>2, <2>3, <3>1, DiscAnswered
  <2>4. CASE ~Fresh(n)
    <3>1. /\ ReachedSet' = ReachedSet \cup {n}
          /\ Grows(Switch, Way, Way', ReachedSet, n, Peer[y][1])
      <4>1. ~Reached(n) /\ Fresh(n)' /\ bt_table'[n][1].port_in = y[2]
        BY <1>3, <1>4, <1>8, <2>4 DEF Reached
      <4>. QED
        BY <1>1, <1>2, <1>3, <1>6, <4>1, WayGrows
    <3>2. CASE \A z \in Inputs : z[1] = n => z = y
      BY <1>2, <2>1, <2>2, <2>4, <3>1, <3>2, DiscAnswered
    <3>3. CASE ~(\A z \in Inputs : z[1] = n => z = y)
      BY <1>2, <2>1, <2>2, <2>4, <3>1, <3>3, DiscPassed, ZenonT(30)
    <3>. QED
      BY <3>2, <3>3
  <2>. QED
    BY <2>3, <2>4
<1>. QED
  BY <1>7, <1>8, SMTT(30)

\* so does ReceiveReply.
LEMMA DiscReply ==
    ASSUME Finite, NEW y \in Inputs, Setting(y), TreeInv', ReceiveReply(y[1], y[2])
    PROVE  Exploring'
<1>. DEFINE n == y[1]
            h == First(y)
<1>1. /\ Explorable /\ Calm /\ TreeInv /\ Steady /\ Active /\ Shape(ReachedSet, Way, attached)
      /\ Wave(ReachedSet, Way, attached, net, configuredLinks, link_sdn_nodes)
      /\ Root \in attached /\ net[y] # <<>> /\ Readable
  BY WayShape DEF Setting, Exploring, Steady
<1>2. /\ h.opcode = 2 /\ attached' = attached
      /\ n \in attached => process(n, y[2], h, Rest(y))
      /\ n \notin attached =>
            /\ UNCHANGED app /\ Fresh(n)
            /\ \E r \in Repetido :
                 net' = IF Extended(h, n, r) # h
                        THEN Sent(Rest(y), n, {bt_table[n][1].port_in}, Extended(h, n, r))
                        ELSE Rest(y)
  BY <1>1, ReplyEffect
<1>3. ReachedSet' = ReachedSet /\ Way' = Way
  <2>1. TablesKept({}) /\ attached \subseteq Switch
    BY <1>1, OnceReply DEF TreeInv, Types
  <2>. QED
    BY <1>2, <2>1, WayStays
<1>4. /\ h \in Packet /\ h.num_sec = timestamp_hddp /\ h \in Held(net, y) /\ n \in Switch
      /\ Fits(Way, attached, y, h) /\ Truthful(y, h)
  BY SettingFacts
<1>5. CASE n \in attached
  <2>1. /\ net' = Rest(y) /\ link_sdn_nodes' = link_sdn_nodes
        /\ configuredLinks' = configuredLinks \cup PathLinks(n, h.ids)
    BY <1>2, <1>4, <1>5, SMTT(30) DEF process
  <2>2. /\ Takes(net, net', y, h) /\ \A x \in Inputs : Held(net', x) \subseteq Held(net, x)
    BY <1>1, <2>1, RestNet
  <2>3. /\ configuredLinks \subseteq configuredLinks' /\ link_sdn_nodes \subseteq link_sdn_nodes'
        /\ PathLinks(n, h.ids) \subseteq configuredLinks'
    BY <2>1
  <2>4. Wave(ReachedSet, Way, attached, net', configuredLinks', link_sdn_nodes')
    BY <1>1, <1>2, <1>5, <2>2, <2>3, WaveTold
  <2>. QED
    BY <1>2, <1>3, <2>4 DEF Exploring
<1>6. CASE n \notin attached
  <2>. DEFINE z == <<n, bt_table[n][1].port_in>>
  <2>1. Fresh(n) /\ n \in ReachedSet \ attached /\ n \in DOMAIN Way /\ Way[n] = Parent(n)
    BY <1>2, <1>4, <1>6 DEF Way, ReachedSet, Reached
  <2>2. z \in Inputs /\ z[1] = n /\ z[2] = bt_table[n][1].port_in
    BY <1>1, <1>4, <2>1 DEF Active
  <2>3. Peer[z] \in Inputs /\ Peer[z][1] = Way[n]
    BY <1>1, <2>1, <2>2, PeerBack, InputFacts DEF Parent
  <2>. HIDE DEF z
  <2>4. h.ids \in Seq(Switch) /\ Len(h.ids) \in Nat /\ Len(h.ids) >= 1
    BY <1>4, SMTT(30) DEF Packet, Truthful
  <2>5. Len(h.ids) + 1 <= MAX_ELEMENTS
    <3>1. ASSUME NEW k \in 2 .. Len(h.ids)
          PROVE  /\ h.ids[k] \in Switch \ {Root, n}
                 /\ \A j \in 2 .. Len(h.ids) : h.ids[j] = h.ids[k] => j = k
      <4>1. /\ h.ids[k] \in DOMAIN Way /\ ~Below(Switch, Way, n, h.ids[k])
            /\ \A j \in 2 .. Len(h.ids) : h.ids[j] = h.ids[k] => j = k
        BY <1>2, <1>4 DEF Fits
      <4>2. h.ids[k] # n
        BY <4>1, BelowSelf
      <4>. QED
        BY <1>1, <4>1, <4>2 DEF Shape
    <3>2. n \in Switch \ {Root}
      BY <1>1, <1>4, <1>6
    <3>. QED
      BY <1>1, <2>4, <3>1, <3>2, Room
  <2>6. PICK r \in Repetido :
          net' = IF Extended(h, n, r) # h
                 THEN Sent(Rest(y), n, {bt_table[n][1].port_in}, Extended(h, n, r)) ELSE Rest(y)
    BY <1>2, <1>6
  <2>. DEFINE q == Extended(h, n, r)
  <2>7. q \in Packet /\ q.opcode = 2 /\ q.ids = Append(h.ids, n) /\ q # h
    <3>1. r = FALSE /\ MAX_ELEMENTS \in Nat
      BY <1>1, EhddpAssumption DEF Readable
    <3>2. ~(Len(h.ids) + 1 > MAX_ELEMENTS)
      BY <2>4, <2>5, <3>1, SMT
    <3>3. q = [h EXCEPT !.ids = Append(@, n)]
      BY <3>1, <3>2 DEF Extended
    <3>4. q.ids = Append(h.ids, n)
      BY <1>4, <3>3 DEF Packet
    <3>5. Len(q.ids) = Len(h.ids) + 1
      BY <1>4, <2>4, <3>4, SMT
    <3>6. q # h
      BY <2>4, <3>5, SMTT(30)
    <3>7. q \in Packet /\ q.opcode = 2
      <4>1. r \in BOOLEAN /\ timestamp_hddp \in 1 .. Waves
        BY <3>1, SettingFacts
      <4>. QED
        BY <1>2, <1>4, <4>1, PacketFacts
    <3>. QED
      BY <3>4, <3>6, <3>7
  <2>8. net' = Sent(Rest(y), n, {z[2]}, q)
    BY <2>2, <2>6, <2>7
  <2>. HIDE DEF q
  <2>9. Takes(net, net', y, h) /\ Adds(net, net', Peer[z], q)
    BY <1>1, <2>2, <2>7, <2>8, SentOne
  <2>10. Wave(ReachedSet, Way, attached, net', configuredLinks, link_sdn_nodes)
    BY <1>1, <1>2, <1>4, <2>1, <2>3, <2>4, <2>7, <2>9, WaveUp
  <2>11. UNCHANGED <<configuredLinks, link_sdn_nodes>>
    BY <1>2, <1>6, ZenonT(30) DEF app
  <2>. QED
    BY <1>2, <1>3, <2>10, <2>11 DEF Exploring
<1>. QED
  BY <1>5, <1>6

\* An exploration starts.
LEMMA DiscStart ==
    ASSUME Explorable, Calm, TreeInv, TreeInv', Steady, starteHDDPProcess PROVE Exploring'
<1>1. \A n \in Switch : ~Fresh(n)'
  BY OnceStart
<1>2. attached' = attached /\ attached \subseteq Switch
  BY DEF starteHDDPProcess, TreeInv, Types
<1>3. ReachedSet' = attached /\ DOMAIN Way' = {}
  BY <1>1, <1>2 DEF ReachedSet, Reached, Way
<1>4. ASSUME NEW x \in Inputs
      PROVE  \A p : p \in Held(net', x) <=>
                Peer[x][1] \in attached /\ p = Request(timestamp_hddp + 1, <<Peer[x][1]>>)
  BY StartNet, HeldIn
<1>5. ASSUME NEW x \in Inputs
      PROVE  LET q == Request(timestamp_hddp + 1, <<Peer[x][1]>>) IN q.opcode = 1 /\ Len(q.ids) = 1
  BY DEF Request
<1>6. ASSUME NEW x \in Inputs, Peer[x][1] \in attached PROVE Asked(net', x)
  <2>1. PICK q : q = Request(timestamp_hddp + 1, <<Peer[x][1]>>)
    OBVIOUS
  <2>2. q \in Held(net', x) /\ q.opcode = 1
    BY <1>4, <1>5, <1>6, <2>1
  <2>. QED
    BY <2>2 DEF Asked
<1>7. ASSUME NEW x \in Inputs, NEW p \in Held(net', x)
      PROVE  p.opcode = 1 /\ Len(p.ids) = 1 /\ Peer[x][1] \in attached
  <2>1. p = Request(timestamp_hddp + 1, <<Peer[x][1]>>) /\ Peer[x][1] \in attached
    BY <1>4
  <2>. QED
    BY <1>5, <2>1
<1>8. Wave(attached, Way', attached, net', configuredLinks', link_sdn_nodes')
  BY <1>3, <1>6, <1>7, WaveStarts
<1>. QED
  BY <1>2, <1>3, <1>8 DEF Exploring

\* A network at rest has nothing under way.
LEMMA AtRest == ASSUME NEW N, \A x \in Inputs : N[x] = <<>> PROVE \A x \in Inputs : Held(N, x) = {}
BY SMTT(30) DEF Held

\* What the application knows when the exploration has come to rest.
LEMMA DiscEnds == Explorable /\ TreeInv /\ Steady /\ Active /\ Exploring /\ Quiet => Links \subseteq configuredLinks
<1>. SUFFICES ASSUME Explorable, TreeInv, Steady, Active, Exploring, Quiet
              PROVE  Links \subseteq configuredLinks
  OBVIOUS
<1>1. \A x \in Inputs : Held(net, x) = {}
  BY AtRest DEF Quiet
<1>2. Root \in ReachedSet /\ ReachedSet \subseteq Switch
  BY WayShape DEF Shape
<1>. QED
  BY <1>1, <1>2, WaveEnds DEF Exploring

\* Exploring, or at its end, in the next state.
LEMMA DiscAfter == ASSUME Explorable, TreeInv', Steady', Active', Exploring' PROVE DiscInv'
<1>1. (Explorable /\ TreeInv /\ Steady /\ Active /\ Exploring /\ Quiet => Links \subseteq configuredLinks)'
  BY DiscEnds, PTL
<1>2. Explorable'
  BY DEF Explorable, Inputs, Peer, OtherEnd, PortNo, num_port_available
<1>. QED
  BY <1>1, <1>2 DEF DiscInv, Links, Inputs, Peer, OtherEnd, PortNo

\* Steps that leave what is known, the network and the tables' first entries alone.
LEMMA DiscKept ==
    ASSUME UNCHANGED <<attached, net, configuredLinks, link_sdn_nodes>>,
           Exploring, attached \subseteq Switch, TablesKept({})
    PROVE  Exploring'
<1>1. ReachedSet' = ReachedSet /\ Way' = Way
  BY WayStays
<1>. QED
  BY <1>1 DEF Exploring

\* Every step keeps the invariant.
LEMMA DiscStep ==
    ASSUME Finite, Explorable, OnceInv, LinkInv, DiscInv, [Next]_vars PROVE DiscInv'
<1>1. Calm /\ Readable
  BY EhddpAssumption, SMTT(30) DEF Explorable, Calm, Readable
<1>2. /\ TreeInv /\ TreeInv' /\ Steady /\ (~Quiet => Active) /\ attached \subseteq Switch
      /\ Steady' /\ (~Quiet' => Active')
  BY <1>1, OnceStep, TreeStep DEF OnceInv, TreeInv, Types
<1>3. CASE UNCHANGED vars
  <2>1. UNCHANGED <<bt_table, timestamp_hddp, attached, net, configuredLinks, link_sdn_nodes, sleeping, disturbed>>
    BY <1>3 DEF vars, switches, app, history
  <2>2. Quiet' <=> Quiet
    BY <2>1 DEF Quiet
  <2>3. Active /\ Exploring => Exploring'
    BY <1>2, <2>1, SameTables, DiscKept
  <2>. QED
    BY <1>2, <2>1, <2>2, <2>3 DEF DiscInv, Links
<1>4. CASE starteHDDPProcess
  BY <1>1, <1>2, <1>4, OnceStart, DiscStart, DiscAfter
<1>5. CASE \E n \in Switch : Attach(n)
  <2>1. disturbed'
    BY <1>5 DEF Attach
  <2>. QED
    BY <2>1 DEF DiscInv
<1>6. ASSUME NEW n \in Switch, PurgeTables(n) PROVE DiscInv'
  <2>1. UNCHANGED <<attached, net, configuredLinks, link_sdn_nodes, sleeping, disturbed>>
    BY <1>6 DEF PurgeTables, app, history
  <2>2. Quiet' <=> Quiet
    BY <2>1 DEF Quiet
  <2>3. Active /\ Exploring => Exploring'
    BY <1>2, <1>6, <2>1, PurgedTables, DiscKept
  <2>. QED
    BY <1>2, <2>1, <2>2, <2>3 DEF DiscInv, Links
<1>7. CASE Tick
  <2>1. Quiet /\ UNCHANGED <<net, configuredLinks, sleeping, disturbed>>
    BY <1>1, <1>7 DEF Tick, app, history, Calm
  <2>. QED
    BY <2>1 DEF DiscInv, Quiet, Links
<1>8. CASE WakeUp
  <2>1. ~sleeping'
    BY <1>8 DEF WakeUp
  <2>. QED
    BY <2>1 DEF DiscInv
<1>9. ASSUME NEW y \in Inputs, ReceiveRequest(y[1], y[2]) \/ ReceiveReply(y[1], y[2]) PROVE DiscInv'
  <2>1. net[y] # <<>>
    <3>1. y = <<y[1], y[2]>>
      BY InputFacts
    <3>. QED
      BY <1>9, <3>1, Zenon DEF ReceiveRequest, ReceiveReply
  <2>2. ~Quiet /\ Active
    BY <1>2, <2>1 DEF Quiet
  <2>3. Active'
    BY <1>1, <1>2, <1>9, <2>2, OnceRequest, OnceReply
  <2>4. sleeping' = sleeping /\ (disturbed => disturbed')
    <3>1. CASE ReceiveRequest(y[1], y[2])
      BY <3>1, Zenon DEF ReceiveRequest, process, app, history
    <3>2. CASE ReceiveReply(y[1], y[2])
      BY <3>2, Zenon DEF ReceiveReply, process, app, history
    <3>. QED
      BY <1>9, <3>1, <3>2
  <2>5. CASE sleeping' /\ ~disturbed'
    <3>1. Exploring
      BY <2>2, <2>4, <2>5 DEF DiscInv
    <3>2. Setting(y)
      BY <1>1, <1>2, <2>1, <2>2, <3>1 DEF Setting
    <3>3. Exploring'
      BY <1>2, <1>9, <2>5, <3>2, DiscRequest, DiscReply
    <3>. QED
      BY <1>2, <2>3, <3>3, DiscAfter
  <2>6. CASE ~(sleeping' /\ ~disturbed')
    BY <2>6 DEF DiscInv
  <2>. QED
    BY <2>5, <2>6
<1>. QED
  BY <1>3, <1>4, <1>5, <1>6, <1>7, <1>8, <1>9 DEF Next

\* In every finite network that is Explorable, an exploration that no switch disturbs
\* (by connecting meanwhile, or by finding no address for its in-band port) ends with exactly the
\* links of the network in configuredLinks: each was named by a reply that came up to
\* a connected switch, or by the two requests that connected neighbours sent each other.
THEOREM ExplorationFindsAllLinks == ASSUME Finite, Explorable PROVE Spec => []LinksDiscovered
<1>1. Calm /\ Readable
  BY EhddpAssumption, SMTT(30) DEF Explorable, Calm, Readable
<1>2. Init => OnceInv /\ LinkInv /\ DiscInv
  <2>1. Init => OnceInv
    BY <1>1, OnceStarts
  <2>2. Init => LinkInv
    BY SMT DEF Init, LinkInv, NoFalseLinks, In
  <2>3. Init => DiscInv
    BY DEF Init, DiscInv
  <2>. QED
    BY <2>1, <2>2, <2>3
<1>3. OnceInv /\ LinkInv /\ DiscInv /\ [Next]_vars => OnceInv' /\ LinkInv' /\ DiscInv'
  <2>. SUFFICES ASSUME OnceInv, LinkInv, DiscInv, [Next]_vars PROVE OnceInv' /\ LinkInv' /\ DiscInv'
    OBVIOUS
  <2>1. OnceInv'
    BY <1>1, OnceStep
  <2>2. LinkInv'
    BY <1>1, LinkStep DEF OnceInv
  <2>3. DiscInv'
    BY DiscStep
  <2>. QED
    BY <2>1, <2>2, <2>3
<1>4. LinkInv /\ DiscInv => LinksDiscovered
  BY DEF LinkInv, NoFalseLinks, DiscInv, LinksDiscovered
<1>. QED
  BY <1>2, <1>3, <1>4, PTL DEF Spec
=============================================================================
