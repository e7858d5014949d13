------------------------- MODULE NetworkLemmas -------------------------
(***************************************************************************)
(* What the proofs about networks of switches share: what the operations   *)
(* of MacToPortOps do, for tables of every length, and the ways by which   *)
(* packets go from switch to switch.                                       *)
(*                                                                         *)
(* A purge is a loop over the table, so what it leaves is shown by         *)
(* induction over the entries it has passed.  Induction is stated for      *)
(* sets: the library's theorems about well-founded relations give the      *)
(* least number of a set.                                                  *)
(***************************************************************************)
EXTENDS MacToPortOps, WellFoundedInduction, TLAPS

\* A set of naturals that is not empty has a least one.
LEMMA LeastNumber ==
    ASSUME NEW T, T \subseteq Nat, T # {}
    PROVE  \E x \in T : \A y \in T : x <= y
<1>1. IsWellFoundedOn({ss \in Nat \X Nat : ss[1] < ss[2]}, Nat)
  BY NatLessThanWellFounded DEF OpToRel
<1>2. PICK x \in T : \A y \in T : ~ (<<y, x>> \in {ss \in Nat \X Nat : ss[1] < ss[2]})
  BY <1>1, WFMin
<1>3. ASSUME NEW y \in T PROVE x <= y
  <2>1. ~ (<<y, x>> \in {ss \in Nat \X Nat : ss[1] < ss[2]})
    BY <1>2
  <2>2. x \in Nat /\ y \in Nat
    OBVIOUS
  <2>3. ~ (y < x)
    BY <2>1, <2>2
  <2>. QED
    BY <2>2, <2>3
<1>. QED
  BY <1>3

\* A set that holds 0 and with every number the next one holds them all.
LEMMA SetInduction ==
    ASSUME NEW S, 0 \in S, \A n \in Nat : n \in S => n + 1 \in S
    PROVE  \A n \in Nat : n \in S
<1>. DEFINE T == Nat \ S
<1>1. SUFFICES ASSUME T # {} PROVE FALSE
  OBVIOUS
<1>2. PICK x \in T : \A y \in T : x <= y
  <2>1. T \subseteq Nat
    OBVIOUS
  <2>. HIDE DEF T
  <2>. QED
    BY <1>1, <2>1, LeastNumber
<1>3. x # 0 /\ x - 1 \in Nat
  OBVIOUS
<1>4. x - 1 \in S
  BY <1>2, <1>3
<1>. QED
  BY <1>3, <1>4

\* One step of the loop of mac_to_port_delete_timeout(): the table after entry i.
Purged(t, F, i) == IF i = 0 THEN <<>>
                   ELSE IF t[i].left > 0 THEN Append(F[i - 1], t[i]) ELSE F[i - 1]

\* F has the table after each entry.
Chosen(t, F) == F = [i \in 0 .. Len(t) |-> Purged(t, F, i)]

\* The purge is what the loop has kept when it ends ...
LEMMA PurgeIsFold ==
    ASSUME NEW t
    PROVE  mac_to_port_delete_timeout(t) = (CHOOSE F : Chosen(t, F))[Len(t)]
  BY DEF mac_to_port_delete_timeout, Chosen, Purged

\* ... and the loop can be run.
LEMMA FoldExists ==
    ASSUME NEW E, NEW t \in Seq(E)
    PROVE  \E F \in [0 .. Len(t) -> Seq(E)] : Chosen(t, F)
<1>. DEFINE P(m) == \E F \in [0 .. m -> Seq(E)] : \A i \in 0 .. m : F[i] = Purged(t, F, i)
            S == {m \in Nat : m <= Len(t) => P(m)}
<1>1. 0 \in S
  <2>. DEFINE F == [i \in 0 .. 0 |-> <<>>]
  <2>1. F \in [0 .. 0 -> Seq(E)] /\ \A i \in 0 .. 0 : F[i] = Purged(t, F, i)
    BY DEF Purged
  <2>2. P(0)
    BY <2>1
  <2>. QED
    BY <2>2
<1>2. ASSUME NEW m \in Nat, m \in S PROVE m + 1 \in S
  <2>. HIDE DEF P
  <2>1. SUFFICES ASSUME m + 1 <= Len(t) PROVE P(m + 1)
    OBVIOUS
  <2>2. P(m)
    BY <1>2, <2>1
  <2>. USE DEF P
  <2>3. PICK F \in [0 .. m -> Seq(E)] : \A i \in 0 .. m : F[i] = Purged(t, F, i)
    BY <2>2
  <2>. DEFINE last == IF t[m + 1].left > 0 THEN Append(F[m], t[m + 1]) ELSE F[m]
              H == [i \in 0 .. m + 1 |-> IF i = m + 1 THEN last ELSE F[i]]
  <2>4. t[m + 1] \in E /\ F[m] \in Seq(E)
    BY <2>1, <2>3
  <2>5. last \in Seq(E)
    BY <2>4
  <2>6. \A i \in 0 .. m : H[i] = F[i]
    OBVIOUS
  <2>7. H[m + 1] = last
    OBVIOUS
  <2>. HIDE DEF last
  <2>8. H \in [0 .. m + 1 -> Seq(E)]
    BY <2>5
  <2>. HIDE DEF H
  <2>9. ASSUME NEW i \in 0 .. m + 1 PROVE H[i] = Purged(t, H, i)
    <3>1. CASE i = m + 1
      BY <3>1, <2>6, <2>7 DEF Purged, last
    <3>2. CASE i # m + 1
      <4>1. i \in 0 .. m /\ (i # 0 => i - 1 \in 0 .. m)
        BY <3>2
      <4>2. F[i] = Purged(t, F, i)
        BY <4>1, <2>3
      <4>. QED
        BY <4>1, <4>2, <2>6 DEF Purged
    <3>. QED
      BY <3>1, <3>2
  <2>. QED
    BY <2>8, <2>9
<1>. HIDE DEF S
<1>3. \A m \in Nat : m \in S
  BY <1>1, <1>2, SetInduction
<1>4. P(Len(t))
  <2>1. Len(t) \in S /\ Len(t) \in Nat
    BY <1>3
  <2>. QED
    BY <2>1 DEF S
<1>5. PICK F \in [0 .. Len(t) -> Seq(E)] : \A i \in 0 .. Len(t) : F[i] = Purged(t, F, i)
  BY <1>4
<1>6. F = [i \in 0 .. Len(t) |-> Purged(t, F, i)]
  BY <1>5
<1>. QED
  BY <1>6, <1>5 DEF Chosen
\* A purge only removes entries, and a first entry that is valid stays first.
LEMMA PurgeFacts ==
    ASSUME NEW E, NEW t \in Seq(E)
    PROVE  LET d == mac_to_port_delete_timeout(t) IN
           /\ d \in Seq(E)
           /\ \A k \in 1 .. Len(d) : \E j \in 1 .. Len(t) : d[k] = t[j] /\ t[j].left > 0
           /\ Len(t) > 0 /\ t[1].left > 0 => Len(d) > 0 /\ d[1] = t[1]
<1>1. PICK F : F = CHOOSE G : Chosen(t, G)
  OBVIOUS
<1>2. Chosen(t, F) /\ mac_to_port_delete_timeout(t) = F[Len(t)]
  <2>1. \E G : Chosen(t, G)
    BY FoldExists
  <2>2. Chosen(t, F)
    BY <1>1, <2>1
  <2>. QED
    BY <1>1, <2>2, PurgeIsFold
<1>3. Len(t) \in Nat
  OBVIOUS
<1>4. F[0] = <<>> /\ \A i \in 1 .. Len(t) :
         F[i] = IF t[i].left > 0 THEN Append(F[i - 1], t[i]) ELSE F[i - 1]
  <2>1. F = [i \in 0 .. Len(t) |-> Purged(t, F, i)]
    BY <1>2 DEF Chosen
  <2>2. \A i \in 0 .. Len(t) : F[i] = Purged(t, F, i)
    BY <2>1
  <2>. QED
    BY <2>2, <1>3 DEF Purged
<1>. DEFINE Good(d, m) ==
               /\ d \in Seq(E)
               /\ \A k \in 1 .. Len(d) : \E j \in 1 .. Len(t) : d[k] = t[j] /\ t[j].left > 0
               /\ m > 0 /\ t[1].left > 0 => Len(d) > 0 /\ d[1] = t[1]
            S == {m \in Nat : m <= Len(t) => Good(F[m], m)}
<1>5. 0 \in S
  <2>1. Good(<<>>, 0)
    OBVIOUS
  <2>. HIDE DEF Good
  <2>. QED
    BY <1>4, <2>1
<1>6. ASSUME NEW m \in Nat, m \in S PROVE m + 1 \in S
  <2>. HIDE DEF Good
  <2>1. SUFFICES ASSUME m + 1 <= Len(t) PROVE Good(F[m + 1], m + 1)
    OBVIOUS
  <2>2. Good(F[m], m)
    BY <1>6, <2>1
  <2>3. m + 1 \in 1 .. Len(t) /\ t[m + 1] \in E
    BY <1>3, <2>1
  <2>4. F[m + 1] = IF t[m + 1].left > 0 THEN Append(F[m], t[m + 1]) ELSE F[m]
    BY <1>4, <2>3
  <2>5. CASE t[m + 1].left > 0
    <3>1. F[m] \in Seq(E) /\ F[m + 1] = Append(F[m], t[m + 1])
      BY <2>2, <2>4, <2>5 DEF Good
    <3>2. \A k \in 1 .. Len(F[m + 1]) :
             \E j \in 1 .. Len(t) : F[m + 1][k] = t[j] /\ t[j].left > 0
      <4> TAKE k \in 1 .. Len(F[m + 1])
      <4>1. CASE k = Len(F[m]) + 1
        BY <4>1, <3>1, <2>3, <2>5
      <4>2. CASE k # Len(F[m]) + 1
        <5>1. k \in 1 .. Len(F[m]) /\ F[m + 1][k] = F[m][k]
          BY <4>2, <3>1
        <5>. QED
          BY <5>1, <2>2 DEF Good
      <4>. QED
        BY <4>1, <4>2
    <3>3. t[1].left > 0 => Len(F[m + 1]) > 0 /\ F[m + 1][1] = t[1]
      <4>1. CASE m = 0
        BY <4>1, <3>1, <1>4
      <4>2. CASE m > 0
        BY <4>2, <3>1, <2>2 DEF Good
      <4>. QED
        BY <4>1, <4>2
    <3>. QED
      BY <3>1, <3>2, <3>3, <2>3 DEF Good
  <2>6. CASE ~(t[m + 1].left > 0)
    <3>1. F[m + 1] = F[m]
      BY <2>4, <2>6
    <3>. QED
      BY <3>1, <2>2, <2>6 DEF Good
  <2>. QED
    BY <2>5, <2>6
<1>. HIDE DEF S, Good
<1>7. Len(t) \in S
  BY <1>3, <1>5, <1>6, SetInduction
<1>8. Good(F[Len(t)], Len(t))
  BY <1>3, <1>7 DEF S
<1>. QED
  BY <1>2, <1>8 DEF Good

-----------------------------------------------------------------------------
(* Tables in which all entries have the same MAC.                          *)

\* Only the first entry of such a table is looked at.
LEMMA FoundFirst ==
    ASSUME NEW E, NEW t \in Seq(E), NEW mac, \A e \in E : e.mac = mac, NEW s
    PROVE  /\ Position(t, mac) = IF Len(t) = 0 THEN 0 ELSE 1
           /\ mac_to_port_found_port(t, mac, s) =
                IF Len(t) = 0 THEN -1
                ELSE IF t[1].left >= 0 /\ t[1].num_sec = s THEN t[1].port_in ELSE 0
<1>1. \A i \in 1 .. Len(t) : t[i].mac = mac
  OBVIOUS
<1>2. Len(t) \in Nat
  OBVIOUS
<1>3. CASE Len(t) = 0
  BY <1>3 DEF Position, mac_to_port_found_port
<1>4. CASE Len(t) # 0
  <2>1. 1 \in 1 .. Len(t)
    BY <1>2, <1>4
  <2>. DEFINE First(i) == t[i].mac = mac /\ \A j \in 1 .. i - 1 : t[j].mac # mac
  <2>2. First(1)
    BY <1>1, <2>1
  <2>3. \A i \in 1 .. Len(t) : First(i) => i = 1
    BY <1>1, <2>1
  <2>4. Position(t, mac) = CHOOSE i \in 1 .. Len(t) : First(i)
    BY <1>1, <2>1 DEF Position
  <2>. HIDE DEF First
  <2>5. Position(t, mac) = 1
    BY <2>1, <2>2, <2>3, <2>4
  <2>. QED
    BY <1>4, <2>5 DEF mac_to_port_found_port
<1>. QED
  BY <1>3, <1>4

\* mac_to_port_update() rewrites the first entry and leaves the others.
LEMMA UpdateFirst ==
    ASSUME NEW E, NEW t \in Seq(E), Len(t) > 0, NEW mac, NEW port, NEW time, NEW s,
           \A e \in E : e.mac = mac,
           \A e \in E : e = [f \in {"mac", "port_in", "left", "num_sec"} |-> e[f]],
           NEW r, r = [mac |-> mac, port_in |-> port, left |-> Later(t[1].left, time),
                       num_sec |-> s],
           r \in E,
           NEW u, u = mac_to_port_update(t, mac, port, time, s)
    PROVE  u \in Seq(E) /\ Len(u) = Len(t) /\ u[1] = r /\ \A k \in 2 .. Len(t) : u[k] = t[k]
<1>1. Position(t, mac) = 1 /\ Len(t) \in Nat /\ 1 \in 1 .. Len(t)
  BY FoundFirst
<1>2. /\ t[1] \in E /\ DOMAIN t[1] = {"mac", "port_in", "left", "num_sec"} /\ t[1].mac = mac
      /\ t[1] = [f \in DOMAIN t[1] |-> t[1][f]]
  BY <1>1
<1>3. u = [t EXCEPT ![1].port_in = port, ![1].num_sec = s, ![1].left = Later(@, time)]
  BY <1>1 DEF mac_to_port_update
<1>4. DOMAIN t = 1 .. Len(t) /\ t = [k \in 1 .. Len(t) |-> t[k]]
  OBVIOUS
<1>5. DOMAIN u = 1 .. Len(t) /\ \A k \in 2 .. Len(t) : u[k] = t[k]
  BY <1>1, <1>3, <1>4
<1>6. u[1] = r
  <2>. DEFINE q == [[[t[1] EXCEPT !.port_in = port] EXCEPT !.num_sec = s]
                       EXCEPT !.left = Later(t[1].left, time)]
  <2>1. u[1] = q
    BY <1>1, <1>2, <1>3, <1>4
  <2>2. DOMAIN q = {"mac", "port_in", "left", "num_sec"}
    BY <1>2
  <2>3. /\ q.mac = mac /\ q.port_in = port /\ q.num_sec = s
        /\ q.left = Later(t[1].left, time)
    BY <1>2
  <2>4. q = [x \in DOMAIN q |-> q[x]]
    OBVIOUS
  <2>. HIDE DEF q
  <2>. QED
    BY <2>1, <2>2, <2>3, <2>4
<1>7. u \in Seq(E) /\ Len(u) = Len(t)
  <2>1. u = [k \in 1 .. Len(t) |-> u[k]]
    BY <1>3, <1>5
  <2>2. \A k \in 1 .. Len(t) : u[k] \in E
    BY <1>1, <1>5, <1>6
  <2>. QED
    BY <1>1, <2>1, <2>2
<1>. QED
  BY <1>5, <1>6, <1>7
-----------------------------------------------------------------------------
(* Ways up *)

\* w gives some nodes a parent.  Below(N, w, m, n): n is m or one of the nodes on the way up from m.
Closed(w, S) == \A k \in DOMAIN w : k \in S => w[k] \in S
Below(N, w, m, n) == \A S \in SUBSET N : m \in S /\ Closed(w, S) => n \in S

\* A node is on its own way up ...
LEMMA BelowSelf == ASSUME NEW N, NEW w, NEW m PROVE Below(N, w, m, m)
BY DEF Below

\* ... and so is what is on its parent's way up;
LEMMA BelowUp == ASSUME NEW N, NEW w, NEW m \in DOMAIN w, NEW n, Below(N, w, w[m], n) PROVE Below(N, w, m, n)
BY DEF Below, Closed

\* what is on the way up from m, and is not m, is on its parent's,
LEMMA BelowNext ==
    ASSUME NEW N, NEW w, NEW m \in DOMAIN w, m \in N, NEW n, Below(N, w, m, n), n # m
    PROVE  Below(N, w, w[m], n)
<1>. SUFFICES ASSUME NEW S \in SUBSET N, w[m] \in S, Closed(w, S) PROVE n \in S
  BY DEF Below
<1>1. Closed(w, S \cup {m}) /\ S \cup {m} \in SUBSET N
  BY DEF Closed
<1>2. n \in S \cup {m}
  BY <1>1 DEF Below
<1>. QED
  BY <1>2

\* and a node without a parent has only itself.
LEMMA BelowTop ==
    ASSUME NEW N, NEW w, NEW m \in N, m \notin DOMAIN w, NEW n, Below(N, w, m, n) PROVE n = m
<1>1. Closed(w, {m}) /\ {m} \in SUBSET N
  BY DEF Closed
<1>. QED
  BY <1>1 DEF Below

\* w2 is w with node a, so far unknown, below b.
Grows(N, w, w2, R, a, b) ==
    /\ R \subseteq N /\ a \in N \ R /\ b \in R
    /\ DOMAIN w \subseteq R /\ \A k \in DOMAIN w : w[k] \in R
    /\ DOMAIN w2 = DOMAIN w \cup {a} /\ w2[a] = b /\ \A k \in DOMAIN w : w2[k] = w[k]

\* A new node changes no way up, and is on none but its own.
LEMMA BelowGrows ==
    ASSUME NEW N, NEW w, NEW w2, NEW R, NEW a, NEW b, Grows(N, w, w2, R, a, b)
    PROVE  /\ \A m \in R, n \in R : Below(N, w2, m, n) <=> Below(N, w, m, n)
           /\ \A m \in R : ~Below(N, w2, m, a)
<1>1. ASSUME NEW m \in R, NEW n \in R, Below(N, w2, m, n) PROVE Below(N, w, m, n)
  <2>. SUFFICES ASSUME NEW S \in SUBSET N, m \in S, Closed(w, S) PROVE n \in S
    BY DEF Below
  <2>1. S \cap R \in SUBSET N /\ m \in S \cap R
    BY <1>1 DEF Grows
  <2>2. Closed(w2, S \cap R)
    BY DEF Closed, Grows
  <2>. QED
    BY <1>1, <2>1, <2>2 DEF Below
<1>2. ASSUME NEW m \in R, NEW n \in R, Below(N, w, m, n) PROVE Below(N, w2, m, n)
  <2>. SUFFICES ASSUME NEW S \in SUBSET N, m \in S, Closed(w2, S) PROVE n \in S
    BY DEF Below
  <2>1. Closed(w, S)
    BY DEF Closed, Grows
  <2>. QED
    BY <1>2, <2>1 DEF Below
<1>3. ASSUME NEW m \in R, Below(N, w2, m, a) PROVE FALSE
  <2>1. R \in SUBSET N /\ a \notin R
    BY DEF Grows
  <2>2. Closed(w2, R)
    BY DEF Closed, Grows
  <2>. QED
    BY <1>3, <2>1, <2>2 DEF Below
<1>. QED
  BY <1>1, <1>2, <1>3
=============================================================================
