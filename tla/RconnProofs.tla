----------------------------- MODULE RconnProofs -----------------------------
(***************************************************************************)
(* Theorem about Rconn, for every limit of the queue, the timers and the   *)
(* back-off: RconnSound is an inductive invariant.  A failure may come at  *)
(* every step, with any part of the queue sent; the lemmas follow the      *)
(* functions of rconn.c, and each says that its function, called where the *)
(* invariant holds, restores it before it returns to the main loop.        *)
(***************************************************************************)
EXTENDS Rconn, FiniteSetTheorems, TLAPS

\* What the proofs use of the constants.
LEMMA Limits ==
    /\ PROBE_INTERVAL \in Nat /\ MAX_BACKOFF \in Nat /\ MAX_BACKOFF > 0
    /\ QUESTION_SECS \in Nat /\ QUEUE_LIMIT \in Nat /\ QUEUE_BOUND \in Nat
  BY RconnAssumption

\* The messages of a queue whose packet counter is to be decremented.
Counted(q) == {i \in 1 .. Len(q) : q[i].counted}

\* A queue has finitely many of them.
LEMMA CountedFinite ==
    \A q \in Seq(Message) : IsFiniteSet(Counted(q)) /\ NumCounted(q) \in Nat
<1> TAKE q \in Seq(Message)
<1>1. IsFiniteSet(1 .. Len(q))
  BY FS_Interval
<1>2. Counted(q) \in SUBSET (1 .. Len(q))
  BY DEF Counted
<1>3. IsFiniteSet(Counted(q))
  BY <1>1, <1>2, FS_Subset
<1> QED
  BY <1>3, FS_CardinalityType DEF NumCounted, Counted

\* The same without the finiteness, for the steps of the protocol.
LEMMA CountIsNatural == \A q \in Seq(Message) : NumCounted(q) \in Nat
  BY CountedFinite

\* An empty queue holds none.
LEMMA CountOfNone == NumCounted(<<>>) = 0
<1>1. {i \in 1 .. Len(<<>>) : (<<>>)[i].counted} = {}
  OBVIOUS
<1> QED
  BY <1>1, FS_EmptySet DEF NumCounted

\* queue_push_tail() adds the weight of the message.
LEMMA CountOfAppend ==
    \A q \in Seq(Message), m \in Message :
        NumCounted(Append(q, m)) = NumCounted(q) + Weight(m)
<1> TAKE q \in Seq(Message), m \in Message
<1> DEFINE qm == Append(q, m)
<1>1. /\ Len(qm) = Len(q) + 1 /\ qm[Len(q) + 1] = m
      /\ \A i \in 1 .. Len(q) : qm[i] = q[i]
      /\ Len(q) \in Nat
  OBVIOUS
<1>2. IsFiniteSet(Counted(q)) /\ NumCounted(q) \in Nat
  BY CountedFinite
<1>3. Len(q) + 1 \notin Counted(q)
  BY <1>1 DEF Counted
<1>4. NumCounted(q) = Cardinality(Counted(q)) /\ NumCounted(qm) = Cardinality(Counted(qm))
  BY DEF NumCounted, Counted
<1> HIDE DEF qm
<1>5. CASE m.counted
  <2>1. Counted(qm) = Counted(q) \cup {Len(q) + 1}
    BY <1>1, <1>5 DEF Counted
  <2>2. Cardinality(Counted(q) \cup {Len(q) + 1}) = Cardinality(Counted(q)) + 1
    BY <1>2, <1>3, FS_AddElement, Zenon
  <2> QED
    BY <1>4, <1>5, <2>1, <2>2 DEF Weight, qm
<1>6. CASE ~m.counted
  <2>1. Counted(qm) = Counted(q)
    BY <1>1, <1>6 DEF Counted
  <2> QED
    BY <1>2, <1>4, <1>6, <2>1 DEF Weight, qm
<1> QED
  BY <1>5, <1>6

\* What is sent and what is left of a queue add up to it.
LEMMA CountOfSplit ==
    \A q \in Seq(Message) : \A k \in 0 .. Len(q) :
        /\ SubSeq(q, 1, k) \in Seq(Message) /\ SubSeq(q, k + 1, Len(q)) \in Seq(Message)
        /\ NumCounted(q) = NumCounted(SubSeq(q, 1, k)) + NumCounted(SubSeq(q, k + 1, Len(q)))
<1> TAKE q \in Seq(Message)
<1> TAKE k \in 0 .. Len(q)
<1> DEFINE sent == SubSeq(q, 1, k)
           left == SubSeq(q, k + 1, Len(q))
           rest == {i \in k + 1 .. Len(q) : q[i].counted}
           shift == [i \in Counted(left) |-> i + k]
<1>1. Len(q) \in Nat /\ k \in Nat /\ k <= Len(q)
  OBVIOUS
<1>2. /\ sent \in Seq(Message) /\ Len(sent) = k
      /\ \A i \in 1 .. k : sent[i] = q[i]
  BY <1>1
<1>3. /\ left \in Seq(Message) /\ Len(left) = Len(q) - k
      /\ \A i \in 1 .. Len(q) - k : left[i] = q[k + i]
  BY <1>1
<1> HIDE DEF sent, left
<1>4. Counted(q) = Counted(sent) \cup rest /\ Counted(sent) \cap rest = {}
  BY <1>1, <1>2 DEF Counted
<1>5. /\ IsFiniteSet(Counted(sent)) /\ NumCounted(sent) \in Nat
      /\ IsFiniteSet(Counted(left)) /\ NumCounted(left) \in Nat
  BY <1>2, <1>3, CountedFinite
<1>6. ExistsBijection(Counted(left), rest)
  <2>1. shift \in [Counted(left) -> rest]
    BY <1>1, <1>3 DEF Counted
  <2>2. \A i, j \in Counted(left) : shift[i] = shift[j] => i = j
    BY <1>1 DEF Counted
  <2>3. \A j \in rest : \E i \in Counted(left) : shift[i] = j
    <3> TAKE j \in rest
    <3>1. j - k \in Counted(left)
      BY <1>1, <1>3 DEF Counted
    <3> QED
      BY <1>1, <3>1
  <2> QED
    BY <2>1, <2>2, <2>3, Zenon DEF ExistsBijection, Bijection, Injection, Surjection, IsInjective
<1>7. IsFiniteSet(rest) /\ Cardinality(rest) = Cardinality(Counted(left))
  BY <1>5, <1>6, FS_Bijection
<1>8. Cardinality(Counted(sent) \cup rest) =
        Cardinality(Counted(sent)) + Cardinality(rest) - Cardinality({})
  BY <1>4, <1>5, <1>7, FS_Union
<1>9. Cardinality({}) = 0
  BY FS_EmptySet
<1>10. /\ NumCounted(q) = Cardinality(Counted(q))
       /\ NumCounted(sent) = Cardinality(Counted(sent))
       /\ NumCounted(left) = Cardinality(Counted(left))
  BY DEF NumCounted, Counted
<1>11. NumCounted(q) = NumCounted(sent) + NumCounted(left)
  BY <1>4, <1>5, <1>7, <1>8, <1>9, <1>10
<1> QED
  BY <1>2, <1>3, <1>11 DEF sent, left
-----------------------------------------------------------------------------
(* TypeOK in three parts.                                                  *)

Numbers ==
    /\ elapsed \in 0 .. Horizon /\ last_received \in 0 .. PROBE_INTERVAL
    /\ last_connected \in 0 .. QUESTION_SECS + 1 /\ last_questioned \in 0 .. QUESTION_SECS + 1
    /\ n_queued \in 0 .. QUEUE_LIMIT
    /\ backoff \in 0 .. MAX_BACKOFF /\ backoff_deadline \in 0 .. NEVER

Flags ==
    /\ vconn \in BOOLEAN /\ reliable \in BOOLEAN /\ running \in BOOLEAN
    /\ questionable_connectivity \in BOOLEAN /\ abandoned \in BOOLEAN

Contents ==
    /\ state \in {"VOID", "BACKOFF", "CONNECTING", "ACTIVE", "IDLE", "freed"}
    /\ txq \in Seq(Message) /\ idle_echo_xid \in Xid \cup {PROBE, 0}

\* The parts of RconnSound, in both states.
LEMMA Parts ==
    /\ RconnSound <=> /\ Numbers /\ Flags /\ Contents
                      /\ VconnMatchesState /\ CountMatchesQueue /\ QueueOnlyWhenConnected
    /\ RconnSound' <=> /\ Numbers' /\ Flags' /\ Contents'
                       /\ VconnMatchesState' /\ CountMatchesQueue' /\ QueueOnlyWhenConnected'
  BY DEF RconnSound, TypeOK, Numbers, Flags, Contents

\* rconn_new() establishes the invariant.
LEMMA InitSound == Init => RconnSound
<1> SUFFICES ASSUME Init PROVE RconnSound
  OBVIOUS
<1>1. Numbers
  BY Limits DEF Init, Numbers, Horizon, Larger, NEVER
<1>2. Flags
  BY Zenon DEF Init, Flags
<1>3. Contents
  BY DEF Init, Contents
<1>4. VconnMatchesState /\ QueueOnlyWhenConnected
  BY DEF Init, VconnMatchesState, QueueOnlyWhenConnected
<1>5. CountMatchesQueue
  BY CountOfNone DEF Init, CountMatchesQueue
<1> QED
  BY <1>1, <1>2, <1>3, <1>4, <1>5, Parts

\* A step that changes nothing keeps it.
LEMMA StutterSound == ASSUME RconnSound, UNCHANGED vars PROVE RconnSound'
  BY DEF RconnSound, TypeOK, VconnMatchesState, CountMatchesQueue, QueueOnlyWhenConnected,
      vars, queue, retry, timers, doubt, Connected

\* question_connectivity() keeps the types of what it sets.
LEMMA QuestionTyped ==
  ASSUME Numbers, Flags, NEW asked, question_connectivity(asked)
  PROVE  last_questioned' \in 0 .. QUESTION_SECS + 1 /\ questionable_connectivity' \in BOOLEAN
<1>1. last_questioned' \in {0, last_questioned}
  BY DEF question_connectivity, doubt
<1>2. questionable_connectivity' \in BOOLEAN
  BY Zenon DEF question_connectivity, doubt, Flags
<1> QED
  BY <1>1, <1>2, Limits DEF Numbers

\* NextBackoff() stays below the limit, and so does the deadline set from it.
LEMMA BackoffBounded ==
  ASSUME NEW b \in 0 .. MAX_BACKOFF, NEW deadline \in 0 .. NEVER
  PROVE  /\ NextBackoff(b, deadline) \in 0 .. MAX_BACKOFF
         /\ NextBackoff(b, deadline) \in 0 .. NEVER
         /\ NEVER \in 0 .. NEVER /\ b \in 0 .. NEVER
  BY Limits DEF NextBackoff, Smaller, Larger, NEVER

\* What the vconn's failure leaves, be the connection reliable or not.
LEMMA DisconnectSound ==
  ASSUME RconnSound, NEW q \in Seq(Message), NEW n, n = NumCounted(q), n \in 0 .. QUEUE_LIMIT,
         NEW deadline \in 0 .. NEVER, NEW asked \in BOOLEAN,
         disconnect(q, n, deadline, asked),
         UNCHANGED timers, idle_echo_xid' \in Xid \cup {PROBE, 0}, running' \in BOOLEAN
  PROVE  RconnSound'
<1>0. Numbers /\ Flags /\ Contents
  BY Parts
<1>1. last_connected' = last_connected /\ last_received' = last_received
  BY DEF timers
<1>2. last_questioned' \in 0 .. QUESTION_SECS + 1 /\ questionable_connectivity' \in BOOLEAN
  <2>1. \E a : question_connectivity(a)
    BY Zenon DEF disconnect, Drop
  <2> QED
    BY <1>0, <2>1, QuestionTyped
<1>3. 0 \in 0 .. Horizon /\ 0 \in 0 .. QUEUE_LIMIT /\ 0 \in 0 .. MAX_BACKOFF /\ 0 \in 0 .. NEVER
  BY Limits DEF Horizon, Larger, NEVER
<1>4. CASE reliable
  <2>1. /\ vconn' = FALSE /\ txq' = <<>> /\ n_queued' = n - NumCounted(q)
        /\ backoff' = NextBackoff(backoff, deadline) /\ backoff_deadline' = backoff'
        /\ state' = "BACKOFF" /\ elapsed' = 0
        /\ reliable' = reliable /\ abandoned' = abandoned
    BY <1>4, Zenon DEF disconnect, Drop, flush_queue, state_transition
  <2>2. backoff' \in 0 .. MAX_BACKOFF /\ backoff_deadline' \in 0 .. NEVER
    BY <1>0, <2>1, BackoffBounded DEF Numbers
  <2>3. n_queued' = 0
    BY <2>1, CountIsNatural
  <2>4. Numbers'
    BY <1>0, <1>1, <1>2, <1>3, <2>1, <2>2, <2>3, SMTT(30) DEF Numbers
  <2>5. Flags'
    BY <1>0, <1>2, <2>1, Zenon DEF Flags
  <2>6. Contents'
    BY <2>1 DEF Contents
  <2>7. VconnMatchesState' /\ QueueOnlyWhenConnected'
    BY <2>1 DEF VconnMatchesState, QueueOnlyWhenConnected
  <2>8. CountMatchesQueue'
    BY <2>1, <2>3, CountOfNone DEF CountMatchesQueue
  <2> QED
    BY <2>4, <2>5, <2>6, <2>7, <2>8, Parts
<1>5. CASE ~reliable
  <2>1. /\ vconn' = FALSE /\ reliable' = FALSE /\ backoff' = 0 /\ backoff_deadline' = 0
        /\ txq' = q /\ n_queued' = n /\ abandoned' = (abandoned \/ q # <<>>)
        /\ state' = "VOID" /\ elapsed' = 0
    BY <1>5, Zenon DEF disconnect, rconn_disconnect, state_transition
  <2>2. Numbers'
    BY <1>0, <1>1, <1>2, <1>3, <2>1 DEF Numbers
  <2>3. Flags'
    BY <1>0, <1>2, <2>1, Zenon DEF Flags
  <2>4. Contents'
    BY <2>1 DEF Contents
  <2>5. VconnMatchesState' /\ QueueOnlyWhenConnected'
    BY <2>1, Zenon DEF VconnMatchesState, QueueOnlyWhenConnected
  <2>6. CountMatchesQueue'
    BY <2>1 DEF CountMatchesQueue
  <2> QED
    BY <2>2, <2>3, <2>4, <2>5, <2>6, Parts
<1> QED
  BY <1>4, <1>5

\* What reconnect() leaves, if the queue has no message that was not abandoned.
LEMMA ReconnectSound ==
  ASSUME RconnSound, NEW b \in 0 .. MAX_BACKOFF,
         OpenFailed(b) \/ (\E reconnectable \in BOOLEAN : Opened(b, reconnectable)),
         abandoned' \in BOOLEAN, txq # <<>> => abandoned',
         UNCHANGED <<queue, timers, idle_echo_xid>>, running' \in BOOLEAN
  PROVE  RconnSound'
<1>0. Numbers /\ Flags /\ Contents /\ CountMatchesQueue
  BY Parts
<1>1. /\ last_connected' = last_connected /\ last_received' = last_received
      /\ txq' = txq /\ n_queued' = n_queued /\ idle_echo_xid' = idle_echo_xid
  BY DEF timers, queue
<1>2. 0 \in 0 .. Horizon
  BY Limits DEF Horizon, Larger
<1>3. /\ last_questioned' \in 0 .. QUESTION_SECS + 1 /\ questionable_connectivity' \in BOOLEAN
      /\ backoff' \in 0 .. MAX_BACKOFF /\ backoff_deadline' \in 0 .. NEVER
      /\ reliable' \in BOOLEAN /\ elapsed' = 0
      /\ \/ state' = "BACKOFF" /\ vconn' = FALSE
         \/ state' = "CONNECTING" /\ vconn' = TRUE
  <2>1. CASE OpenFailed(b)
    <3>1. /\ vconn' = FALSE /\ reliable' = TRUE /\ state' = "BACKOFF" /\ elapsed' = 0
          /\ backoff' = NextBackoff(b, NEVER) /\ backoff_deadline' = backoff'
          /\ question_connectivity(last_connected > QUESTION_SECS)
      BY <2>1, Zenon DEF OpenFailed, state_transition
    <3>2. last_questioned' \in 0 .. QUESTION_SECS + 1 /\ questionable_connectivity' \in BOOLEAN
      BY <1>0, <3>1, QuestionTyped
    <3>3. NEVER \in 0 .. NEVER
      BY Limits DEF NEVER
    <3>4. backoff' \in 0 .. MAX_BACKOFF /\ backoff_deadline' \in 0 .. NEVER
      BY <3>1, <3>3, BackoffBounded
    <3> QED
      BY <3>1, <3>2, <3>4, Zenon
  <2>2. CASE \E reconnectable \in BOOLEAN : Opened(b, reconnectable)
    <3>1. /\ vconn' = TRUE /\ reliable' \in BOOLEAN /\ state' = "CONNECTING" /\ elapsed' = 0
          /\ backoff' = b /\ backoff_deadline' = b /\ last_questioned' = last_questioned
          /\ questionable_connectivity' = questionable_connectivity
      BY <2>2, Zenon DEF Opened, state_transition, doubt
    <3>2. b \in 0 .. NEVER
      BY Limits DEF NEVER
    <3> QED
      BY <1>0, <3>1, <3>2, Zenon DEF Numbers, Flags
  <2> QED
    BY <2>1, <2>2, Zenon
<1>4. Numbers'
  BY <1>0, <1>1, <1>2, <1>3 DEF Numbers
<1>5. Flags'
  BY <1>3, Zenon DEF Flags
<1>6. Contents'
  BY <1>0, <1>1, <1>3 DEF Contents
<1>7. VconnMatchesState' /\ CountMatchesQueue' /\ QueueOnlyWhenConnected'
  BY <1>0, <1>1, <1>3 DEF VconnMatchesState, CountMatchesQueue, QueueOnlyWhenConnected
<1> QED
  BY <1>4, <1>5, <1>6, <1>7, Parts

\* What changes only the queue and how it is doing, while rc stays connected.
LEMMA StaysConnectedSound ==
  ASSUME RconnSound, state \in Connected, state' \in Connected, elapsed' \in {0, elapsed},
         UNCHANGED <<vconn, reliable, retry, doubt, abandoned>>, UNCHANGED timers,
         idle_echo_xid' \in Xid \cup {PROBE, 0}, running' \in BOOLEAN,
         txq' \in Seq(Message), n_queued' = NumCounted(txq'), n_queued' \in 0 .. QUEUE_LIMIT
  PROVE  RconnSound'
<1>0. Numbers /\ Flags /\ Contents /\ VconnMatchesState
  BY Parts
<1>1. Numbers'
  BY <1>0, Limits DEF Numbers, retry, doubt, timers, Horizon, Larger
<1>2. Flags'
  BY <1>0 DEF Flags, doubt
<1>3. Contents'
  BY DEF Contents, Connected
<1>4. VconnMatchesState' /\ QueueOnlyWhenConnected'
  BY <1>0 DEF VconnMatchesState, QueueOnlyWhenConnected, Connected
<1>5. CountMatchesQueue'
  BY DEF CountMatchesQueue
<1> QED
  BY <1>1, <1>2, <1>3, <1>4, <1>5, Parts

\* rconn_send(): queued, sent at once, or the vconn fails while it is sent.
LEMMA SendSound ==
  ASSUME RconnSound, state \in Connected, NEW s \in Connected, NEW m \in Message,
         m.counted => BelowLimit, Send(s, m), UNCHANGED timers, running' \in BOOLEAN
  PROVE  RconnSound'
<1> DEFINE q == Append(txq, m)
           n == n_queued + Weight(m)
<1>0. Numbers /\ Flags /\ Contents /\ CountMatchesQueue
  BY Parts
<1>1. q \in Seq(Message) /\ n = NumCounted(q)
  BY <1>0, CountOfAppend DEF Contents, CountMatchesQueue
<1>2. n \in 0 .. QUEUE_LIMIT
  <2>1. CASE m.counted
    BY <1>0, <2>1, Limits DEF Weight, BelowLimit, Numbers
  <2>2. CASE ~m.counted
    BY <1>0, <2>2, Limits DEF Weight, Numbers
  <2> QED
    BY <2>1, <2>2
<1>3. /\ m.xid \in Xid \cup {PROBE, 0} /\ 0 \in Xid \cup {PROBE, 0}
      /\ idle_echo_xid \in Xid \cup {PROBE, 0}
  BY <1>0 DEF Message, Contents
<1>4. backoff_deadline \in 0 .. NEVER
  BY <1>0 DEF Numbers
<1>5. CASE /\ Len(txq) = 0 /\ idle_echo_xid' = 0
           /\ disconnect(q, n, backoff_deadline, FALSE)
  BY <1>1, <1>2, <1>3, <1>4, <1>5, DisconnectSound, Zenon
<1>6. CASE /\ Len(txq) = 0 /\ idle_echo_xid' = m.xid
           /\ txq' = <<>> /\ Sent(q, n, 1)
           /\ state' = s /\ elapsed' = (IF s = state THEN elapsed ELSE 0)
           /\ UNCHANGED <<vconn, reliable, retry, doubt, abandoned>>
  <2>1. SubSeq(q, 1, 1) = q
    BY <1>0, <1>6 DEF Contents
  <2>2. n_queued' = 0
    <3>1. n_queued' = NumCounted(q) - NumCounted(q)
      BY <1>1, <1>6, <2>1, Zenon DEF Sent
    <3>2. NumCounted(q) \in Nat
      BY <1>1, CountIsNatural, Zenon
    <3> QED
      BY <3>1, <3>2
  <2>3. 0 \in 0 .. QUEUE_LIMIT /\ txq' \in Seq(Message) /\ n_queued' = NumCounted(txq')
    BY <1>6, <2>2, CountOfNone, Limits
  <2>4. state' \in Connected /\ elapsed' \in {0, elapsed}
    BY <1>6
  <2> QED
    BY <1>3, <1>6, <2>2, <2>3, <2>4, StaysConnectedSound
<1>7. CASE /\ idle_echo_xid' = (IF Len(txq) = 0 THEN 0 ELSE idle_echo_xid)
           /\ txq' = q /\ n_queued' = n
           /\ state' = s /\ elapsed' = (IF s = state THEN elapsed ELSE 0)
           /\ UNCHANGED <<vconn, reliable, retry, doubt, abandoned>>
  BY <1>1, <1>2, <1>3, <1>7, StaysConnectedSound
<1> QED
  BY <1>5, <1>6, <1>7, Zenon DEF Send

\* do_tx_work(), whatever part of the queue goes out before it would block or
\* the vconn fails.
LEMMA TxWorkSound ==
  ASSUME RconnSound, state \in Connected, do_tx_work, UNCHANGED timers, running' \in BOOLEAN
  PROVE  RconnSound'
<1>0. Numbers /\ Flags /\ Contents /\ CountMatchesQueue
  BY Parts
<1>1. PICK k \in 0 .. Len(txq) : do_tx_work!(k)
  BY Zenon DEF do_tx_work
<1> DEFINE sent == SubSeq(txq, 1, k)
           left == SubSeq(txq, k + 1, Len(txq))
           n == n_queued - NumCounted(sent)
<1>2. /\ sent \in Seq(Message) /\ left \in Seq(Message)
      /\ NumCounted(txq) = NumCounted(sent) + NumCounted(left)
  BY <1>0, CountOfSplit DEF Contents
<1>3. NumCounted(sent) \in Nat /\ NumCounted(left) \in Nat
  BY <1>2, CountIsNatural, Zenon
<1> HIDE DEF sent, left
<1>4. n = NumCounted(left) /\ n \in 0 .. QUEUE_LIMIT
  BY <1>0, <1>2, <1>3, Limits DEF Numbers, CountMatchesQueue
<1>5. k \in Nat /\ Len(txq) \in Nat /\ (k = Len(txq) => left = <<>>)
  BY <1>0 DEF Contents, left
<1>6. /\ 0 \in Xid \cup {PROBE, 0} /\ idle_echo_xid \in Xid \cup {PROBE, 0}
      /\ backoff_deadline \in 0 .. NEVER
  BY <1>0 DEF Contents, Numbers
<1>7. CASE /\ k < Len(txq) /\ idle_echo_xid' = 0
           /\ disconnect(left, n, backoff_deadline, FALSE)
  BY <1>2, <1>4, <1>6, <1>7, DisconnectSound, Zenon
<1>8. CASE /\ k = Len(txq)
           /\ idle_echo_xid' = (IF k > 0 THEN txq[k].xid ELSE idle_echo_xid)
           /\ txq' = <<>> /\ Sent(txq, n_queued, k)
           /\ UNCHANGED <<state, elapsed, vconn, reliable, retry, doubt, abandoned>>
  <2>1. CASE k > 0
    <3>1. txq[k] \in Message
      BY <1>0, <1>5, <1>8, <2>1 DEF Contents
    <3> QED
      BY <1>2, <1>4, <1>5, <1>8, <2>1, <3>1, StaysConnectedSound DEF Sent, sent, Message
  <2>2. CASE ~(k > 0)
    BY <1>2, <1>4, <1>5, <1>6, <1>8, <2>2, StaysConnectedSound DEF Sent, sent
  <2> QED
    BY <2>1, <2>2
<1>9. CASE /\ k < Len(txq) /\ idle_echo_xid' = 0
           /\ txq' = left /\ Sent(txq, n_queued, k)
           /\ UNCHANGED <<state, elapsed, vconn, reliable, retry, doubt, abandoned>>
  BY <1>2, <1>4, <1>6, <1>9, StaysConnectedSound DEF Sent, sent
<1> QED
  BY <1>1, <1>7, <1>8, <1>9, Zenon DEF left, sent
-----------------------------------------------------------------------------
(* rconn_run() *)

\* A failure that does not come from sending.
LEMMA FailureSound ==
  ASSUME RconnSound, NEW deadline \in {backoff_deadline, NEVER}, NEW asked \in BOOLEAN,
         disconnect(txq, n_queued, deadline, asked),
         UNCHANGED <<timers, idle_echo_xid>>, running' \in BOOLEAN
  PROVE  RconnSound'
<1>1. Numbers /\ Contents /\ CountMatchesQueue
  BY Parts
<1>2. txq \in Seq(Message) /\ n_queued = NumCounted(txq) /\ idle_echo_xid' \in Xid \cup {PROBE, 0}
  BY <1>1 DEF Contents, CountMatchesQueue
<1>3. n_queued \in 0 .. QUEUE_LIMIT /\ deadline \in 0 .. NEVER
  BY <1>1, Limits DEF Numbers, NEVER
<1> QED
  BY <1>2, <1>3, DisconnectSound

\* rconn_run() in each of its states.
LEMMA RunSound == ASSUME RconnSound, rconn_run PROVE RconnSound'
<1>0. Numbers /\ Flags /\ Contents /\ VconnMatchesState /\ CountMatchesQueue /\ QueueOnlyWhenConnected
  BY Parts
<1>1. CASE run_BACKOFF_open \/ run_BACKOFF_fail
  <2>1. /\ OpenFailed(backoff) \/ (\E reconnectable \in BOOLEAN : Opened(backoff, reconnectable))
        /\ UNCHANGED <<queue, timers, idle_echo_xid>> /\ running' \in BOOLEAN
        /\ state = "BACKOFF" /\ abandoned' = abandoned
    BY <1>1, Zenon DEF run_BACKOFF_open, run_BACKOFF_fail, Turn
  <2>2. abandoned' \in BOOLEAN /\ (txq # <<>> => abandoned')
    BY <1>0, <2>1 DEF QueueOnlyWhenConnected, Connected, Flags
  <2>3. backoff \in 0 .. MAX_BACKOFF
    BY <1>0 DEF Numbers
  <2> QED
    BY <2>1, <2>2, <2>3, ReconnectSound
<1>2. CASE run_CONNECTING_ok
  <2>1. /\ state = "CONNECTING" /\ state' = "ACTIVE" /\ elapsed' = 0 /\ last_connected' = 0
        /\ running' \in BOOLEAN /\ vconn' = vconn /\ reliable' = reliable /\ txq' = txq
        /\ n_queued' = n_queued /\ backoff' = backoff /\ backoff_deadline' = backoff_deadline
        /\ last_received' = last_received /\ last_questioned' = last_questioned
        /\ questionable_connectivity' = questionable_connectivity
        /\ idle_echo_xid' = idle_echo_xid /\ abandoned' = abandoned
    BY <1>2 DEF run_CONNECTING_ok, state_transition, Turn, queue, retry, doubt
  <2>2. Numbers'
    BY <1>0, <2>1, Limits DEF Numbers, Horizon, Larger
  <2>3. Flags'
    BY <1>0, <2>1 DEF Flags
  <2>4. Contents'
    BY <1>0, <2>1 DEF Contents
  <2>5. VconnMatchesState' /\ CountMatchesQueue' /\ QueueOnlyWhenConnected'
    BY <1>0, <2>1 DEF VconnMatchesState, CountMatchesQueue, QueueOnlyWhenConnected, Connected
  <2> QED
    BY <2>2, <2>3, <2>4, <2>5, Parts
<1>3. CASE run_CONNECTING_fail
  <2>1. /\ \/ disconnect(txq, n_queued, backoff_deadline, FALSE)
           \/ disconnect(txq, n_queued, NEVER, FALSE)
        /\ UNCHANGED <<timers, idle_echo_xid>> /\ running' \in BOOLEAN
    BY <1>3, Zenon DEF run_CONNECTING_fail, Turn
  <2> QED
    BY <2>1, FailureSound, Zenon
<1>4. CASE run_ACTIVE
  <2>1. state \in Connected /\ "IDLE" \in Connected /\ UNCHANGED timers /\ running' \in BOOLEAN
    BY <1>4 DEF run_ACTIVE, Connected, Turn
  <2>2. CASE Send("IDLE", [xid |-> PROBE, counted |-> FALSE])
    <3>1. [xid |-> PROBE, counted |-> FALSE] \in Message
      BY DEF Message
    <3> QED
      BY <2>1, <2>2, <3>1, SendSound
  <2>3. CASE do_tx_work
    BY <2>1, <2>3, TxWorkSound
  <2> QED
    BY <1>4, <2>2, <2>3 DEF run_ACTIVE
<1>5. CASE run_IDLE
  <2>1. state \in Connected /\ UNCHANGED timers /\ running' \in BOOLEAN
    BY <1>5 DEF run_IDLE, Connected, Turn
  <2>2. CASE disconnect(txq, n_queued, backoff_deadline, TRUE) /\ UNCHANGED idle_echo_xid
    BY <2>1, <2>2, FailureSound, Zenon
  <2>3. CASE do_tx_work
    BY <2>1, <2>3, TxWorkSound
  <2> QED
    BY <1>5, <2>2, <2>3, Zenon DEF run_IDLE
<1>6. CASE run_nothing
  <2>1. /\ UNCHANGED <<state, elapsed, vconn, reliable, queue, retry, timers, doubt,
                       idle_echo_xid, abandoned>>
        /\ running' = FALSE
    BY <1>6 DEF run_nothing
  <2>2. Numbers' /\ Contents'
    BY <1>0, <2>1 DEF Numbers, Contents, queue, retry, timers, doubt
  <2>3. Flags'
    BY <1>0, <2>1, Zenon DEF Flags, doubt
  <2>4. VconnMatchesState' /\ CountMatchesQueue' /\ QueueOnlyWhenConnected'
    BY <1>0, <2>1 DEF VconnMatchesState, CountMatchesQueue, QueueOnlyWhenConnected, queue, Connected
  <2> QED
    BY <2>2, <2>3, <2>4, Parts
<1> QED
  BY <1>1, <1>2, <1>3, <1>4, <1>5, <1>6 DEF rconn_run
-----------------------------------------------------------------------------
(* The users' calls *)

\* rconn_connect() keeps the invariant.
LEMMA ConnectSound == ASSUME RconnSound, rconn_connect PROVE RconnSound'
<1>0. Flags /\ QueueOnlyWhenConnected
  BY Parts
<1>1. /\ OpenFailed(0) \/ (\E reconnectable \in BOOLEAN : Opened(0, reconnectable))
      /\ UNCHANGED <<queue, timers, idle_echo_xid>> /\ running' = running
      /\ abandoned' = (abandoned \/ (state # "VOID" /\ txq # <<>>))
  BY DEF rconn_connect
<1>2. abandoned' \in BOOLEAN /\ (txq # <<>> => abandoned') /\ running' \in BOOLEAN
  BY <1>0, <1>1, Zenon DEF QueueOnlyWhenConnected, Connected, Flags
<1>3. 0 \in 0 .. MAX_BACKOFF
  BY Limits
<1> QED
  BY <1>1, <1>2, <1>3, ReconnectSound

\* rconn_connect_unreliably() keeps the invariant.
LEMMA ConnectUnreliablySound == ASSUME RconnSound, rconn_connect_unreliably PROVE RconnSound'
<1>0. Numbers /\ Flags /\ Contents /\ CountMatchesQueue
  BY Parts
<1>1. /\ vconn' = TRUE /\ reliable' = FALSE /\ last_connected' = 0
      /\ state' = "ACTIVE" /\ elapsed' = 0
      /\ UNCHANGED <<queue, retry, last_received, doubt, idle_echo_xid, running, abandoned>>
  BY DEF rconn_connect_unreliably, state_transition
<1>2. Numbers'
  BY <1>0, <1>1, Limits DEF Numbers, Horizon, Larger, queue, retry, doubt
<1>3. Flags'
  BY <1>0, <1>1, Zenon DEF Flags, doubt
<1>4. Contents'
  BY <1>0, <1>1 DEF Contents, queue
<1>5. VconnMatchesState' /\ CountMatchesQueue' /\ QueueOnlyWhenConnected'
  BY <1>0, <1>1 DEF VconnMatchesState, CountMatchesQueue, QueueOnlyWhenConnected, queue, Connected
<1> QED
  BY <1>2, <1>3, <1>4, <1>5, Parts

\* rconn_disconnect() keeps the invariant.
LEMMA UserDisconnectSound == ASSUME RconnSound, Disconnect PROVE RconnSound'
<1>0. Numbers /\ Flags /\ Contents /\ CountMatchesQueue
  BY Parts
<1>1. /\ vconn' = FALSE /\ reliable' = FALSE /\ backoff' = 0 /\ backoff_deadline' = 0
      /\ txq' = txq /\ n_queued' = n_queued /\ abandoned' = (abandoned \/ txq # <<>>)
      /\ state' = "VOID" /\ elapsed' = 0
      /\ UNCHANGED <<timers, doubt, idle_echo_xid, running>>
  BY DEF Disconnect, rconn_disconnect, state_transition
<1>2. Numbers'
  BY <1>0, <1>1, Limits DEF Numbers, Horizon, Larger, NEVER, timers, doubt
<1>3. Flags'
  BY <1>0, <1>1, Zenon DEF Flags, doubt
<1>4. Contents'
  BY <1>0, <1>1 DEF Contents
<1>5. VconnMatchesState' /\ CountMatchesQueue' /\ QueueOnlyWhenConnected'
  BY <1>0, <1>1, Zenon DEF VconnMatchesState, CountMatchesQueue, QueueOnlyWhenConnected
<1> QED
  BY <1>2, <1>3, <1>4, <1>5, Parts

\* rconn_destroy() keeps the invariant.
LEMMA DestroySound == ASSUME RconnSound, rconn_destroy PROVE RconnSound'
<1>0. Numbers /\ Flags /\ Contents /\ CountMatchesQueue
  BY Parts
<1>1. /\ vconn' = FALSE /\ txq' = <<>> /\ n_queued' = n_queued - NumCounted(txq)
      /\ state' = "freed" /\ elapsed' = 0
      /\ UNCHANGED <<reliable, retry, timers, doubt, idle_echo_xid, running, abandoned>>
  BY DEF rconn_destroy, flush_queue, state_transition
<1>2. n_queued' = 0
  BY <1>0, <1>1, CountIsNatural DEF CountMatchesQueue, Contents
<1>3. Numbers'
  BY <1>0, <1>1, <1>2, Limits DEF Numbers, Horizon, Larger, timers, doubt, retry
<1>4. Flags'
  BY <1>0, <1>1, Zenon DEF Flags, doubt
<1>5. Contents'
  BY <1>0, <1>1 DEF Contents
<1>6. VconnMatchesState' /\ QueueOnlyWhenConnected'
  BY <1>1 DEF VconnMatchesState, QueueOnlyWhenConnected
<1>7. CountMatchesQueue'
  BY <1>1, <1>2, CountOfNone DEF CountMatchesQueue
<1> QED
  BY <1>3, <1>4, <1>5, <1>6, <1>7, Parts

\* rconn_recv() with a message keeps the invariant.
LEMMA RecvSound ==
  ASSUME RconnSound, NEW xid \in Xid \cup {PROBE}, NEW echo_reply \in BOOLEAN,
         rconn_recv(echo_reply, xid)
  PROVE  RconnSound'
<1>0. Numbers /\ Flags /\ Contents /\ VconnMatchesState /\ CountMatchesQueue
  BY Parts
<1>1. /\ last_received' = 0 /\ state \in Connected /\ state' \in Connected
      /\ elapsed' \in {0, elapsed} /\ idle_echo_xid' \in {0, idle_echo_xid}
      /\ UNCHANGED <<vconn, reliable, queue, retry, last_connected, doubt, running, abandoned>>
  BY DEF rconn_recv, Connected
<1>2. Numbers'
  BY <1>0, <1>1, Limits DEF Numbers, Horizon, Larger, queue, retry, doubt
<1>3. Flags'
  BY <1>0, <1>1 DEF Flags, doubt
<1>4. Contents'
  BY <1>0, <1>1 DEF Contents, queue, Connected
<1>5. VconnMatchesState' /\ CountMatchesQueue' /\ QueueOnlyWhenConnected'
  BY <1>0, <1>1 DEF VconnMatchesState, CountMatchesQueue, QueueOnlyWhenConnected, queue, Connected
<1> QED
  BY <1>2, <1>3, <1>4, <1>5, Parts

\* rconn_recv() with an error keeps the invariant.
LEMMA RecvErrorSound == ASSUME RconnSound, rconn_recv_error PROVE RconnSound'
<1>1. /\ disconnect(txq, n_queued, backoff_deadline, FALSE)
      /\ UNCHANGED <<timers, idle_echo_xid>> /\ running' = running
  BY Zenon DEF rconn_recv_error
<1>2. running' \in BOOLEAN
  BY <1>1, Parts DEF Flags
<1> QED
  BY <1>1, <1>2, FailureSound, Zenon

\* rconn_send() and rconn_send_with_limit() keeps the invariant.
LEMMA SendCallSound ==
  ASSUME RconnSound, NEW xid \in Xid, rconn_send(xid) \/ rconn_send_with_limit(xid)
  PROVE  RconnSound'
<1>1. \E c \in BOOLEAN : Send(state, [xid |-> xid, counted |-> c]) /\ (c => BelowLimit)
  BY Zenon DEF rconn_send, rconn_send_with_limit
<1>2. PICK c \in BOOLEAN : Send(state, [xid |-> xid, counted |-> c]) /\ (c => BelowLimit)
  BY <1>1
<1>3. state \in Connected /\ UNCHANGED timers /\ running' = running
  BY DEF rconn_send, rconn_send_with_limit
<1>4. running' \in BOOLEAN
  BY <1>3, Parts DEF Flags
<1>5. [xid |-> xid, counted |-> c] \in Message /\ [xid |-> xid, counted |-> c].counted = c
  BY DEF Message
<1> QED
  BY <1>2, <1>3, <1>4, <1>5, SendSound

\* rconn_is_connectivity_questionable() keeps the invariant.
LEMMA QuestionedSound == ASSUME RconnSound, rconn_is_connectivity_questionable PROVE RconnSound'
<1>0. Numbers /\ Flags /\ Contents /\ VconnMatchesState /\ CountMatchesQueue /\ QueueOnlyWhenConnected
  BY Parts
<1>1. /\ questionable_connectivity' = FALSE
      /\ UNCHANGED <<state, elapsed, vconn, reliable, queue, retry, timers, last_questioned,
                     idle_echo_xid, running, abandoned>>
  BY DEF rconn_is_connectivity_questionable
<1>2. Numbers' /\ Contents'
  BY <1>0, <1>1 DEF Numbers, Contents, queue, retry, timers
<1>3. Flags'
  BY <1>0, <1>1, Zenon DEF Flags
<1>4. VconnMatchesState' /\ CountMatchesQueue' /\ QueueOnlyWhenConnected'
  BY <1>0, <1>1 DEF VconnMatchesState, CountMatchesQueue, QueueOnlyWhenConnected, queue, Connected
<1> QED
  BY <1>2, <1>3, <1>4, Parts

\* The clock keeps it.
LEMMA TickSound == ASSUME RconnSound, Tick PROVE RconnSound'
<1>0. Numbers /\ Flags /\ Contents /\ VconnMatchesState /\ CountMatchesQueue /\ QueueOnlyWhenConnected
  BY Parts
<1>1. UNCHANGED <<state, vconn, reliable, queue, backoff, questionable_connectivity,
                   idle_echo_xid, running, abandoned>>
  BY DEF Tick
<1>2. Numbers'
  BY <1>0, <1>1, Limits DEF Tick, Numbers, Smaller, Larger, Horizon, NEVER, queue
<1>3. Flags'
  BY <1>0, <1>1 DEF Flags
<1>4. Contents'
  BY <1>0, <1>1 DEF Contents, queue
<1>5. VconnMatchesState' /\ CountMatchesQueue' /\ QueueOnlyWhenConnected'
  BY <1>0, <1>1 DEF VconnMatchesState, CountMatchesQueue, QueueOnlyWhenConnected, queue, Connected
<1> QED
  BY <1>2, <1>3, <1>4, <1>5, Parts
-----------------------------------------------------------------------------
\* However its calls, failures and timers follow each other, an rconn has a
\* vconn exactly in the states that need one, its n_queued is the number of
\* counted messages in its queue, never above the limit, and a queue that is
\* left when it is not connected has been abandoned by its user (rconn.c).
THEOREM RconnIsSound == Spec => []RconnSound
<1>1. ASSUME RconnSound, [Next]_vars PROVE RconnSound'
  <2>1. CASE Next
    BY <1>1, <2>1, RunSound, ConnectSound, ConnectUnreliablySound, UserDisconnectSound,
       DestroySound, RecvSound, RecvErrorSound, SendCallSound, QuestionedSound, TickSound DEF Next
  <2>2. CASE UNCHANGED vars
    BY <1>1, <2>2, StutterSound
  <2> QED
    BY <1>1, <2>1, <2>2
<1> QED
  BY <1>1, InitSound, PTL DEF Spec
=============================================================================
