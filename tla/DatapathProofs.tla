-------------------------- MODULE DatapathProofs ---------------------------
(***************************************************************************)
(* Three parts of the datapath.  The packet buffers: unless a packet is    *)
(* processed beyond the time of its slot, the buffers never hold a freed   *)
(* packet nor one packet twice, for any number of slots, cookies and       *)
(* packets and any time-out.  The meters: for any bands, any length of a   *)
(* second, any word size and any periods between refills, a meter lets     *)
(* through no more than its rate, and all of a flow that keeps below it.   *)
(* The controllers: for any number of them, any size of generation_id and  *)
(* any queue limit, a datapath has at most one master, only a master or an *)
(* equal writes its tables, a slave is told of ports only, and roles       *)
(* change for a cause.                                                     *)
(***************************************************************************)
EXTENDS DpBuffers, Meters, DatapathRemotes, TLAPS

\* Every packet that is not freed has an owner.
BuffersInv == BuffersTypeOK /\ Ownership /\ NoPacketLeaked

LEMMA IdType == NO_BUFFER \in BufferId /\ Slot # {}
  BY BuffersAssumption DEF NO_BUFFER, BufferId, Slot

LEMMA NextIdxType == BuffersTypeOK => NextIdx \in Slot
  BY BuffersAssumption DEF BuffersTypeOK, NextIdx, Slot

\* A cookie that is handed out is below the one of NO_BUFFER.
LEMMA NextCookieRange ==
    \A c \in -1 .. N_COOKIES - 1 : NextCookie(c) \in 0 .. N_COOKIES - 2
  BY BuffersAssumption DEF NextCookie

\* Types are kept whatever the clock does.
LEMMA TypeNext == BuffersTypeOK /\ [BuffersNext]_bufferVars => BuffersTypeOK'
<1> SUFFICES ASSUME BuffersTypeOK, [BuffersNext]_bufferVars PROVE BuffersTypeOK'
  OBVIOUS
<1>1. ASSUME NEW p \in Packet, packet_create(p) PROVE BuffersTypeOK'
  BY <1>1, IdType DEF BuffersTypeOK, packet_create
<1>2. ASSUME NEW p \in Packet, dp_buffers_save(p) PROVE BuffersTypeOK'
  <2> DEFINE c == NextCookie(buffers[NextIdx].cookie)
  <2>1. NextIdx \in Slot /\ NextIdx \in -1 .. N_PKT_BUFFERS - 1
    BY NextIdxType, BuffersAssumption DEF Slot
  <2>2. c \in 0 .. N_COOKIES - 2
    BY <2>1, NextCookieRange DEF BuffersTypeOK, PacketBuffer
  <2>3. [pkt |-> p, cookie |-> c, timeout |-> OVERWRITE_SECS] \in PacketBuffer
    BY <2>2, BuffersAssumption DEF PacketBuffer
  <2>4. [slot |-> NextIdx, cookie |-> c] \in BufferId
    BY <2>1, <2>2, BuffersAssumption DEF BufferId
  <2> HIDE DEF c
  <2>5. CASE SlotTaken(NextIdx)
    BY <1>2, <2>1, <2>5 DEF BuffersTypeOK, dp_buffers_save
  <2>6. CASE ~SlotTaken(NextIdx)
    <3>1. /\ buffers' = [buffers EXCEPT ![NextIdx] =
                             [pkt |-> p, cookie |-> c, timeout |-> OVERWRITE_SECS]]
          /\ buffer_id' = [buffer_id EXCEPT ![p] = [slot |-> NextIdx, cookie |-> c]]
          /\ allocated' = allocated \ Evicted(NextIdx)
          /\ UNCHANGED <<active, outlived>>
          /\ buffer_idx' = NextIdx
      BY <1>2, <2>6 DEF dp_buffers_save, c
    <3> QED BY <2>1, <2>3, <2>4, <3>1 DEF BuffersTypeOK
  <2> QED BY <2>5, <2>6
<1>3. ASSUME NEW p \in Packet, packet_destroy(p) PROVE BuffersTypeOK'
  <2>1. buffer_id[p].slot \in Slot
    BY DEF BuffersTypeOK, BufferId
  <2>2. buffers' \in [Slot -> PacketBuffer]
    BY <1>3, <2>1 DEF BuffersTypeOK, PacketBuffer, packet_destroy, dp_buffers_discard
  <2> QED BY <1>3, <2>2 DEF BuffersTypeOK, packet_destroy
<1>4. ASSUME NEW id \in BufferId, dp_buffers_retrieve(id) PROVE BuffersTypeOK'
  <2>1. id.slot \in Slot
    BY DEF BufferId
  <2>2. buffers[id.slot].pkt \in Packet
    BY <1>4, <2>1 DEF BuffersTypeOK, PacketBuffer, dp_buffers_retrieve
  <2>3. buffers' \in [Slot -> PacketBuffer]
    BY <1>4, <2>1 DEF BuffersTypeOK, PacketBuffer, dp_buffers_retrieve
  <2> QED BY <1>4, <2>2, <2>3, IdType DEF BuffersTypeOK, dp_buffers_retrieve
<1>5. CASE Tick
  <2>1. buffers' = [i \in Slot |-> [buffers[i] EXCEPT !.timeout = IF @ > 0 THEN @ - 1 ELSE 0]]
    BY <1>5 DEF Tick
  <2>2. \A i \in Slot : buffers[i] \in PacketBuffer
    BY DEF BuffersTypeOK
  <2>3. buffers' \in [Slot -> PacketBuffer]
    BY <2>1, <2>2, BuffersAssumption DEF PacketBuffer
  <2> QED BY <1>5, <2>3 DEF BuffersTypeOK, Tick
<1>6. CASE UNCHANGED bufferVars
  BY <1>6 DEF BuffersTypeOK, bufferVars
<1> QED BY <1>1, <1>2, <1>3, <1>4, <1>5, <1>6 DEF BuffersNext

LEMMA BuffersInitHolds == BuffersInit => BuffersInv
<1> SUFFICES ASSUME BuffersInit PROVE BuffersInv
  OBVIOUS
<1>1. BuffersTypeOK
  BY BuffersAssumption, IdType DEF BuffersInit, BuffersTypeOK, PacketBuffer
<1> QED BY <1>1 DEF BuffersInit, BuffersInv, Ownership, NoPacketLeaked

LEMMA CreateKeeps ==
    ASSUME BuffersInv, outlived = {}, outlived' = {}, NEW p \in Packet, packet_create(p)
    PROVE  BuffersInv'
<1> USE DEF BuffersInv
<1>1. BuffersTypeOK'
  BY TypeNext DEF BuffersNext
<1>2. Ownership'
  BY <1>1 DEF BuffersTypeOK, Ownership, packet_create, dp_buffers_is_alive
<1>3. NoPacketLeaked'
  BY DEF NoPacketLeaked, packet_create
<1> QED BY <1>1, <1>2, <1>3

LEMMA SaveKeeps ==
    ASSUME BuffersInv, outlived = {}, outlived' = {}, NEW p \in Packet, dp_buffers_save(p)
    PROVE  BuffersInv'
<1> USE DEF BuffersInv
<1> DEFINE i == NextIdx
           c == NextCookie(buffers[i].cookie)
<1>0. i \in Slot /\ c \in 0 .. N_COOKIES - 2 /\ p \in active /\ p \in allocated
  <2>1. i \in Slot
    BY NextIdxType
  <2>2. buffers[i].cookie \in -1 .. N_COOKIES - 1
    BY <2>1 DEF BuffersTypeOK, PacketBuffer
  <2> QED BY <2>1, <2>2, NextCookieRange DEF dp_buffers_save, Ownership
\* A packet being processed that believes it is buffered is alive, so one that
\* is saved was in no slot.
<1>1. buffer_id[p] = NO_BUFFER /\ \A j \in Slot : buffers[j].pkt # p
  <2>1. buffer_id[p] = NO_BUFFER
    BY <1>0 DEF dp_buffers_save, Ownership
  <2>2. ASSUME NEW j \in Slot, buffers[j].pkt = p PROVE FALSE
    <3>1. buffers[j].pkt # NULL
      BY <2>2, BuffersAssumption
    <3>2. buffer_id[p].cookie < N_COOKIES - 1
      BY <2>2, <3>1 DEF Ownership
    <3> QED BY <2>1, <3>2, BuffersAssumption DEF NO_BUFFER
  <2> QED BY <2>1, <2>2
<1>2. buffer_idx' = i
  BY DEF dp_buffers_save
<1>3. CASE SlotTaken(i)
  <2>1. UNCHANGED <<buffers, buffer_id, allocated, active>>
    BY <1>3 DEF dp_buffers_save
  <2>2. BuffersTypeOK'
    BY TypeNext DEF BuffersNext
  <2> QED BY <2>1, <2>2 DEF Ownership, NoPacketLeaked, dp_buffers_is_alive
<1>4. CASE ~SlotTaken(i)
  <2>1. /\ buffers' = [buffers EXCEPT ![i] = [pkt |-> p, cookie |-> c, timeout |-> OVERWRITE_SECS]]
        /\ buffer_id' = [buffer_id EXCEPT ![p] = [slot |-> i, cookie |-> c]]
        /\ allocated' = allocated \ Evicted(i)
        /\ UNCHANGED active
    BY <1>4 DEF dp_buffers_save
  <2> HIDE DEF i, c
  <2>2. BuffersTypeOK'
    BY TypeNext DEF BuffersNext
  <2>3. p \notin Evicted(i)
    BY <1>0, <1>1 DEF Evicted
  \* A packet being processed is not evicted: its slot has not timed out.
  <2>4. \A q \in active : q \notin Evicted(i)
    <3> SUFFICES ASSUME NEW q \in active, q \in Evicted(i) PROVE FALSE
      OBVIOUS
    <3>1. buffers[i].pkt = q /\ q # NULL
      BY DEF Evicted
    <3>2. buffer_id[q].slot = i /\ buffer_id[q].cookie < N_COOKIES - 1
      BY <1>0, <3>1 DEF Ownership, BuffersTypeOK, PacketBuffer
    <3>3. buffer_id[q] # NO_BUFFER
      BY <3>2, BuffersAssumption DEF NO_BUFFER
    <3>4. buffers[i].timeout > 0
      BY <3>2, <3>3 DEF Ownership, dp_buffers_is_alive
    <3> QED BY <1>4, <3>1, <3>4 DEF SlotTaken
  <2>5. Ownership'
    <3>1. ASSUME NEW j \in Slot, buffers'[j].pkt # NULL
          PROVE  /\ buffers'[j].pkt \in allocated'
                 /\ buffer_id'[buffers'[j].pkt].slot = j
                 /\ buffer_id'[buffers'[j].pkt].cookie = buffers'[j].cookie
                 /\ buffers'[j].cookie < N_COOKIES - 1
      <4>1. CASE j = i
        BY <1>0, <2>1, <2>3, <4>1, BuffersAssumption DEF BuffersTypeOK
      <4>2. CASE j # i
        <5>1. buffers'[j] = buffers[j]
          BY <1>0, <2>1, <4>2 DEF BuffersTypeOK
        <5>2. buffers[j].pkt # p /\ buffers[j].pkt \in Packet
          BY <1>1, <3>1, <5>1 DEF BuffersTypeOK, PacketBuffer
        <5>3. buffer_id'[buffers[j].pkt] = buffer_id[buffers[j].pkt]
          BY <2>1, <5>2 DEF BuffersTypeOK
        <5>4. buffers[j].pkt \notin Evicted(i)
          BY <1>0, <3>1, <4>2, <5>1 DEF Ownership, Evicted
        <5> QED BY <2>1, <3>1, <5>1, <5>3, <5>4 DEF Ownership
      <4> QED BY <4>1, <4>2
    <3>2. ASSUME NEW q \in active', buffer_id'[q] # NO_BUFFER
          PROVE  /\ buffers'[buffer_id'[q].slot].pkt = q
                 /\ dp_buffers_is_alive(buffer_id[q])'
      <4>1. CASE q = p
        BY <1>0, <2>1, <4>1, BuffersAssumption DEF BuffersTypeOK, dp_buffers_is_alive
      <4>2. CASE q # p
        <5>0. q \in active /\ q \in Packet
          BY <2>1 DEF BuffersTypeOK
        <5>1. buffer_id'[q] = buffer_id[q]
          BY <2>1, <4>2, <5>0 DEF BuffersTypeOK
        <5>2. buffers[buffer_id[q].slot].pkt = q /\ dp_buffers_is_alive(buffer_id[q])
          BY <3>2, <5>0, <5>1 DEF Ownership
        <5>3. buffer_id[q].slot \in Slot /\ q # NULL
          BY <5>0, BuffersAssumption DEF BuffersTypeOK, BufferId
        <5>4. buffer_id[q].slot # i
          BY <2>4, <5>0, <5>2, <5>3 DEF Evicted
        <5>5. buffers'[buffer_id[q].slot] = buffers[buffer_id[q].slot]
          BY <2>1, <5>3, <5>4 DEF BuffersTypeOK
        <5> QED BY <5>1, <5>2, <5>5 DEF dp_buffers_is_alive
      <4> QED BY <4>1, <4>2
    <3>3. \A q \in active' : q \in allocated'
      BY <2>1, <2>4 DEF Ownership
    <3> QED BY <3>1, <3>2, <3>3 DEF Ownership
  <2>6. NoPacketLeaked'
    <3> SUFFICES ASSUME NEW q \in allocated', q \notin active'
                 PROVE  \E j \in Slot : buffers'[j].pkt = q
      BY DEF NoPacketLeaked
    <3>1. q \in allocated /\ q \notin active /\ q \notin Evicted(i)
      BY <2>1
    <3>2. PICK j \in Slot : buffers[j].pkt = q
      BY <3>1 DEF NoPacketLeaked
    <3>3. j # i
      BY <3>1, <3>2, BuffersAssumption DEF Evicted, BuffersTypeOK
    <3> QED BY <2>1, <3>2, <3>3 DEF BuffersTypeOK
  <2> QED BY <2>2, <2>5, <2>6
<1> QED BY <1>3, <1>4

LEMMA RetrieveKeeps ==
    ASSUME BuffersInv, outlived = {}, outlived' = {}, NEW id \in BufferId, dp_buffers_retrieve(id)
    PROVE  BuffersInv'
<1> USE DEF BuffersInv
<1> DEFINE p == buffers[id.slot].pkt
<1>0. BuffersTypeOK'
  BY TypeNext DEF BuffersNext
<1>1. id.slot \in Slot /\ p # NULL /\ p \in Packet /\ p \in allocated /\ active = {}
  BY DEF dp_buffers_retrieve, BufferId, BuffersTypeOK, PacketBuffer, Ownership
<1>2. /\ active' = {p}
      /\ buffer_id' = [buffer_id EXCEPT ![p] = NO_BUFFER]
      /\ buffers' = [buffers EXCEPT ![id.slot].pkt = NULL]
      /\ UNCHANGED <<buffer_idx, allocated, outlived>>
  BY DEF dp_buffers_retrieve
<1>3. \A j \in Slot : buffers[j].pkt = p => j = id.slot
  BY <1>1 DEF Ownership
<1>4. \A j \in Slot : j # id.slot => buffers'[j] = buffers[j]
  BY <1>1, <1>2 DEF BuffersTypeOK
<1>5. buffers'[id.slot].pkt = NULL
  BY <1>1, <1>2 DEF BuffersTypeOK, PacketBuffer
<1> HIDE DEF p
<1>6. Ownership'
  <2>1. ASSUME NEW j \in Slot, buffers'[j].pkt # NULL
        PROVE  /\ buffers'[j].pkt \in allocated'
               /\ buffer_id'[buffers'[j].pkt].slot = j
               /\ buffer_id'[buffers'[j].pkt].cookie = buffers'[j].cookie
               /\ buffers'[j].cookie < N_COOKIES - 1
    <3>1. j # id.slot /\ buffers'[j] = buffers[j] /\ buffers[j].pkt # p
      BY <1>3, <1>4, <1>5, <2>1
    <3>2. buffers[j].pkt \in Packet
      BY <2>1, <3>1 DEF BuffersTypeOK, PacketBuffer
    <3>3. buffer_id'[buffers[j].pkt] = buffer_id[buffers[j].pkt]
      BY <1>1, <1>2, <3>1, <3>2 DEF BuffersTypeOK
    <3> QED BY <1>2, <2>1, <3>1, <3>3 DEF Ownership
  <2>2. buffer_id'[p] = NO_BUFFER
    BY <1>1, <1>2 DEF BuffersTypeOK
  <2> QED BY <1>1, <1>2, <2>1, <2>2 DEF Ownership
<1>7. NoPacketLeaked'
  <2> SUFFICES ASSUME NEW q \in allocated, q # p
               PROVE  \E j \in Slot : buffers'[j].pkt = q
    BY <1>2 DEF NoPacketLeaked
  <2>1. PICK j \in Slot : buffers[j].pkt = q
    BY <1>1 DEF NoPacketLeaked
  <2>2. j # id.slot
    BY <2>1 DEF p
  <2> QED BY <1>4, <2>1, <2>2
<1> QED BY <1>0, <1>6, <1>7

LEMMA DestroyKeeps ==
    ASSUME BuffersInv, outlived = {}, outlived' = {}, NEW p \in Packet, packet_destroy(p)
    PROVE  BuffersInv'
<1> USE DEF BuffersInv
<1>0. BuffersTypeOK' /\ p \in active /\ active' = active \ {p} /\ UNCHANGED <<buffer_idx, buffer_id>>
  BY TypeNext DEF BuffersNext, packet_destroy
\* The branch that discards a timed-out slot is not reached.
<1>1. CASE buffer_id[p] # NO_BUFFER
  <2>1. dp_buffers_is_alive(buffer_id[p]) /\ buffers[buffer_id[p].slot].pkt = p
    BY <1>0, <1>1 DEF Ownership
  <2>2. UNCHANGED <<buffers, allocated>>
    BY <1>1, <2>1 DEF packet_destroy
  <2>3. Ownership'
    BY <1>0, <2>2 DEF Ownership, dp_buffers_is_alive
  <2>4. buffer_id[p].slot \in Slot
    BY DEF BuffersTypeOK, BufferId
  <2>5. NoPacketLeaked'
    BY <1>0, <2>1, <2>2, <2>4 DEF NoPacketLeaked
  <2> QED BY <1>0, <2>3, <2>5
<1>2. CASE buffer_id[p] = NO_BUFFER
  <2>1. allocated' = allocated \ {p} /\ UNCHANGED buffers
    BY <1>2 DEF packet_destroy
  <2>2. \A j \in Slot : buffers[j].pkt # p
    <3> SUFFICES ASSUME NEW j \in Slot, buffers[j].pkt = p PROVE FALSE
      OBVIOUS
    <3>1. buffers[j].pkt # NULL
      BY BuffersAssumption
    <3>2. buffer_id[p].cookie < N_COOKIES - 1
      BY <3>1 DEF Ownership
    <3> QED BY <1>2, <3>2, BuffersAssumption DEF NO_BUFFER
  <2>3. Ownership'
    BY <1>0, <2>1, <2>2 DEF Ownership, dp_buffers_is_alive
  <2>4. NoPacketLeaked'
    BY <1>0, <2>1 DEF NoPacketLeaked
  <2> QED BY <1>0, <2>3, <2>4
<1> QED BY <1>1, <1>2

LEMMA TickKeeps ==
    ASSUME BuffersInv, outlived = {}, outlived' = {}, Tick
    PROVE  BuffersInv'
<1> USE DEF BuffersInv
<1>0. BuffersTypeOK' /\ UNCHANGED <<buffer_idx, buffer_id, allocated, active>>
  BY TypeNext DEF BuffersNext, Tick
<1>1. \A j \in Slot : /\ buffers'[j].pkt = buffers[j].pkt /\ buffers'[j].cookie = buffers[j].cookie
                      /\ buffers[j].timeout > 1 => buffers'[j].timeout > 0
  BY DEF Tick, BuffersTypeOK, PacketBuffer
\* A slot whose packet is being processed has more than a second left.
<1>2. \A p \in active : buffer_id[p] # NO_BUFFER => buffers[buffer_id[p].slot].timeout > 1
  <2> SUFFICES ASSUME NEW p \in active, buffer_id[p] # NO_BUFFER
               PROVE  buffers[buffer_id[p].slot].timeout > 1
    OBVIOUS
  <2>1. ~(buffers[buffer_id[p].slot].timeout <= 1)
    BY DEF Tick
  <2>2. buffers[buffer_id[p].slot].timeout \in 0 .. OVERWRITE_SECS
    BY DEF BuffersTypeOK, BufferId, PacketBuffer
  <2> QED BY <2>1, <2>2, BuffersAssumption
<1>3. \A p \in active : buffer_id[p].slot \in Slot
  BY DEF BuffersTypeOK, BufferId
<1> QED BY <1>0, <1>1, <1>2, <1>3 DEF Ownership, NoPacketLeaked, dp_buffers_is_alive

LEMMA BuffersNextKeeps == BuffersInv /\ [BuffersNext]_bufferVars => BuffersInv'
<1> SUFFICES ASSUME BuffersInv, [BuffersNext]_bufferVars PROVE BuffersInv'
  OBVIOUS
<1>1. CASE UNCHANGED bufferVars
  BY <1>1 DEF bufferVars, BuffersInv, BuffersTypeOK, Ownership, NoPacketLeaked, dp_buffers_is_alive
<1>2. CASE BuffersNext /\ outlived' # {}
  BY <1>2, TypeNext DEF BuffersInv, Ownership, NoPacketLeaked
<1>3. CASE BuffersNext /\ outlived' = {}
  <2>1. outlived = {}
    BY <1>3, Zenon DEF BuffersNext, packet_create, dp_buffers_save, packet_destroy, dp_buffers_retrieve, Tick
  <2> QED BY <1>3, <2>1, CreateKeeps, SaveKeeps, DestroyKeeps, RetrieveKeeps, TickKeeps DEF BuffersNext
<1> QED BY <1>1, <1>2, <1>3

\* Every field of the ring keeps its range, also when the clock advances while a
\* packet is processed.
THEOREM BuffersTypeCorrect == BuffersSpec => []BuffersTypeOK
<1>1. BuffersInit => BuffersTypeOK
  BY BuffersAssumption, IdType DEF BuffersInit, BuffersTypeOK, PacketBuffer
<1> QED BY <1>1, TypeNext, PTL DEF BuffersSpec

\* dp_buffers_save() passes over a slot that has not timed out, and
\* packet_destroy() leaves it alone, whatever the clock does: what was announced
\* to the controller is there for OVERWRITE_SECS.
THEOREM AnnouncedPacketsAreHeld == BuffersSpec => HeldUntilTimeout
<1> DEFINE A == \A i \in Slot :
                  /\ buffers[i].pkt # NULL
                  /\ buffers[i].timeout > 0
                  /\ buffers'[i].pkt # buffers[i].pkt
                  => active = {} /\ active' = {buffers[i].pkt}
<1>1. BuffersTypeOK /\ [BuffersNext]_bufferVars => [A]_bufferVars
  <2> SUFFICES ASSUME BuffersTypeOK, BuffersNext, NEW i \in Slot, buffers[i].pkt # NULL,
                      buffers[i].timeout > 0, buffers'[i].pkt # buffers[i].pkt
               PROVE  active = {} /\ active' = {buffers[i].pkt}
    OBVIOUS
  <2>1. ASSUME NEW p \in Packet, packet_create(p) PROVE FALSE
    BY <2>1 DEF packet_create
  <2>2. ASSUME NEW p \in Packet, dp_buffers_save(p) PROVE FALSE
    <3>1. CASE SlotTaken(NextIdx)
      BY <2>2, <3>1 DEF dp_buffers_save
    <3>2. CASE ~SlotTaken(NextIdx)
      <4>1. i # NextIdx
        BY <3>2 DEF SlotTaken
      <4>2. \E r : buffers' = [buffers EXCEPT ![NextIdx] = r]
        BY <2>2, <3>2 DEF dp_buffers_save
      <4> QED BY <4>1, <4>2 DEF BuffersTypeOK
    <3> QED BY <3>1, <3>2
  <2>3. ASSUME NEW p \in Packet, packet_destroy(p) PROVE FALSE
    <3>1. buffer_id[p].slot \in Slot
      BY DEF BuffersTypeOK, BufferId
    <3> QED BY <2>3, <3>1 DEF packet_destroy, dp_buffers_discard, dp_buffers_is_alive, BuffersTypeOK
  <2>4. ASSUME NEW id \in BufferId, dp_buffers_retrieve(id)
        PROVE  active = {} /\ active' = {buffers[i].pkt}
    BY <2>4 DEF dp_buffers_retrieve, BuffersTypeOK, BufferId
  <2>5. CASE Tick
    BY <2>5 DEF Tick, BuffersTypeOK, PacketBuffer
  <2> QED BY <2>1, <2>2, <2>3, <2>4, <2>5 DEF BuffersNext
<1>2. BuffersSpec => [][A]_bufferVars
  BY <1>1, BuffersTypeCorrect, PTL DEF BuffersSpec
<1> QED BY <1>2 DEF HeldUntilTimeout

\* As long as no packet is processed beyond the time of its slot, nobody holds a
\* freed packet.
THEOREM NoUseAfterFree == BuffersSpec => []NoDanglingPacket
<1>1. BuffersInv => NoDanglingPacket
  BY DEF BuffersInv, Ownership, NoDanglingPacket
<1> QED BY <1>1, BuffersNextKeeps, BuffersInitHolds, PTL DEF BuffersSpec

\* ... no packet is in two slots, as the note in dp_buffers.c assumes ...
THEOREM PacketsSavedOnce == BuffersSpec => []SavedOnceInTime
<1>1. BuffersInv => SavedOnceInTime
  BY DEF BuffersInv, Ownership, SavedOnce, SavedOnceInTime
<1> QED BY <1>1, BuffersNextKeeps, BuffersInitHolds, PTL DEF BuffersSpec

\* ... and no packet is lost before it is freed.
THEOREM NoLeak == BuffersSpec => []NoPacketLeaked
<1>1. BuffersInv => NoPacketLeaked
  BY DEF BuffersInv
<1> QED BY <1>1, BuffersNextKeeps, BuffersInitHolds, PTL DEF BuffersSpec

----------------------------------------------------------------------------
(* Meters.                                                                 *)

\* Facts of arithmetic that the products and quotients of refill_bucket() need.
LEMMA ModLe == \A a \in Nat : \A w \in Nat \ {0} : a % w \in Nat /\ a % w <= a
  BY SMT
LEMMA ModSame == \A a \in Nat : \A w \in Nat \ {0} : a < w => a % w = a
  BY SMT
LEMMA ProductNat == \A a, b \in Nat : a * b \in Nat
  BY SMT
LEMMA ProductLe == \A a, b, c \in Nat : a <= b => a * c <= b * c
  BY SMT
LEMMA DivLess ==
    \A x, m \in Nat : \A s \in Nat \ {0} : x <= m * s => x \div s \in Nat /\ x \div s <= m
  BY SMT
LEMMA DivExact == \A m \in Nat : \A s \in Nat \ {0} : (m * s) \div s = m
  BY SMT
LEMMA Commute == \A a, b, c \in Nat : (a * b) * c = (a * c) * b
  BY SMT
LEMMA Distribute == \A a, b, c \in Nat : a * (b + c) = a * b + a * c
  BY SMT
LEMMA OneMore == \A n \in Nat : \A s \in Nat : (n + 1) * s = n * s + s
  BY SMT
LEMMA MinOfTwo == \A a, b \in Nat : Min({a, b}) = IF a <= b THEN a ELSE b
  BY SMT DEF Min

\* What a band earns in some time, as refill_bucket() computes it.
Earned(rate, elapsed) == (((rate * Second) % Word) * elapsed) \div Second

\* A band never earns more than its rate, and earns it exactly unless the product
\* overflows.
LEMMA EarnedLe ==
    ASSUME MeterAssumption, NEW rate \in Nat, NEW elapsed \in Nat
    PROVE  /\ Earned(rate, elapsed) \in Nat
           /\ Earned(rate, elapsed) <= rate * elapsed
           /\ rate * Second < Word => Earned(rate, elapsed) = rate * elapsed
<1>1. Second \in Nat \ {0} /\ Word \in Nat \ {0}
  BY DEF MeterAssumption
<1>2. PICK a : a = rate * Second
  OBVIOUS
<1>3. PICK c : c = a % Word
  OBVIOUS
<1>4. a \in Nat
  BY <1>1, <1>2, ProductNat
<1>5. c \in Nat /\ c <= a
  BY <1>1, <1>3, <1>4, ModLe
<1>6. PICK m : m = rate * elapsed
  OBVIOUS
<1>7. m \in Nat
  BY <1>6, ProductNat
<1>8. a * elapsed = m * Second
  BY <1>1, <1>2, <1>6, Commute
<1>9. PICK x : x = c * elapsed
  OBVIOUS
<1>10. x \in Nat /\ x <= m * Second
  BY <1>4, <1>5, <1>8, <1>9, ProductNat, ProductLe
<1>11. Earned(rate, elapsed) = x \div Second
  BY <1>2, <1>3, <1>9 DEF Earned
<1>12. x \div Second \in Nat /\ x \div Second <= m
  BY <1>1, <1>7, <1>10, DivLess
<1>13. ASSUME a < Word PROVE x \div Second = m
  <2>1. c = a
    BY <1>1, <1>3, <1>4, <1>13, ModSame
  <2> QED BY <1>1, <1>7, <1>8, <1>9, <2>1, DivExact
<1> QED BY <1>2, <1>6, <1>11, <1>12, <1>13

Rate(b) == meter.bands[b].rate

MeterType ==
    /\ \E i \in DOMAIN MeterMods : meter = MeterMods[i]
    /\ tokens \in [Bands -> Nat]
    /\ used \in [Bands -> Nat]
    /\ clock \in Nat
    /\ last_fill = clock
    /\ interval \in [now : Nat, most : Nat]
    /\ refills \in Nat

CountsPackets == "PKTPS" \in meter.flags /\ "KBPS" \notin meter.flags

\* What is left in a bucket, with what the packets of this interval took out of it, is
\* enough for any slow flow.
Fed ==
    CountsPackets /\ refills > 0 =>
       \A n \in Nat : Slow(n) => \A b \in Bands : n * Second <= tokens[b] + interval.now * Second

MeterInv == MeterType /\ RateHeld /\ Fed /\ SlowFlowPasses

\* The messages the bands come from hold numbers.
LEMMA BandType ==
    ASSUME MeterAssumption, MeterType, NEW b \in Bands
    PROVE  Rate(b) \in Nat /\ Cap(b) \in Nat
<1>1. PICK i \in DOMAIN MeterMods : meter = MeterMods[i]
  BY DEF MeterType
<1>2. meter.bands[b].rate \in Nat /\ meter.bands[b].burst_size \in Nat
  BY <1>1 DEF MeterAssumption, Bands
<1>3. PICK a : a = IF "BURST" \in meter.flags THEN meter.bands[b].burst_size ELSE meter.bands[b].rate
  OBVIOUS
<1>4. a \in Nat
  BY <1>2, <1>3
<1>5. Second \in Nat \ {0} /\ Word \in Nat \ {0}
  BY DEF MeterAssumption
<1>6. (a * Second) % Word \in Nat
  BY <1>4, <1>5, ProductNat, ModLe
<1> QED BY <1>2, <1>3, <1>6 DEF Cap, Rate

LEMMA PriceType ==
    ASSUME MeterAssumption, NEW size \in Sizes
    PROVE  Price(size) \in Nat
  BY DEF MeterAssumption, Price

\* A packet moves tokens from what is left to what was taken, and only if they are there;
\* one of a slow flow finds them in every bucket.
LEMMA ApplyKeeps ==
    ASSUME MeterAssumption, MeterInv, NEW size \in Sizes, NEW old \in Marks,
           meter_entry_apply(size, old)
    PROVE  MeterInv'
<1> DEFINE taken == [c \in Bands |-> IF consume_tokens(c, size) THEN Price(size) ELSE 0]
<1>0. Second \in Nat \ {0} /\ MeterType
  BY DEF MeterAssumption, MeterInv
<1>1. /\ tokens' = [c \in Bands |-> tokens[c] - taken[c]]
      /\ used' = [c \in Bands |-> used[c] + taken[c]]
      /\ interval' = [now |-> interval.now + 1,
                      most |-> IF interval.now + 1 > interval.most THEN interval.now + 1
                               ELSE interval.most]
      /\ UNCHANGED <<meter, last_fill, clock, refills>>
  BY DEF meter_entry_apply
<1>2. /\ Bands' = Bands
      /\ \A b : Rate(b)' = Rate(b) /\ Cap(b)' = Cap(b)
      /\ CountsPackets' = CountsPackets
      /\ \A n : Slow(n)' = Slow(n)
  BY <1>1 DEF Bands, Rate, Cap, CountsPackets, Slow
<1>3. ASSUME NEW b \in Bands
      PROVE  taken[b] \in Nat /\ taken[b] <= tokens[b]
  <2>1. Price(size) \in Nat /\ tokens[b] \in Nat
    BY <1>0, PriceType DEF MeterType
  <2> QED BY <2>1, SMT DEF consume_tokens
<1> HIDE DEF taken
<1>4. ASSUME NEW b \in Bands
      PROVE  /\ tokens'[b] \in Nat /\ used'[b] \in Nat
             /\ tokens'[b] = tokens[b] - taken[b]
             /\ used'[b] + tokens'[b] = used[b] + tokens[b]
  BY <1>0, <1>1, <1>3, SMT DEF MeterType
<1>5. interval.now \in Nat /\ interval.most \in Nat
  BY <1>0 DEF MeterType
<1>6. interval'.now = interval.now + 1 /\ interval'.now \in Nat
      /\ interval'.most \in Nat /\ interval'.now <= interval'.most
      /\ interval' \in [now : Nat, most : Nat]
  BY <1>1, <1>5, SMT
<1>7. MeterType'
  <2>1. tokens' \in [Bands -> Nat] /\ used' \in [Bands -> Nat]
    BY <1>1, <1>4
  <2> QED BY <1>0, <1>1, <1>2, <1>6, <2>1 DEF MeterType
<1>8. RateHeld'
  BY <1>1, <1>2, <1>4, SMT DEF RateHeld, MeterInv
<1>9. Fed'
  <2> SUFFICES ASSUME CountsPackets, refills > 0, NEW n \in Nat, Slow(n), NEW b \in Bands
               PROVE  n * Second <= tokens'[b] + interval'.now * Second
    BY <1>1, <1>2 DEF Fed
  <2>1. n * Second <= tokens[b] + interval.now * Second
    BY DEF MeterInv, Fed
  <2>2. taken[b] <= Second
    BY <1>0 DEF taken, CountsPackets, Price
  <2>3. interval'.now * Second = interval.now * Second + Second
    BY <1>0, <1>5, <1>6, OneMore
  <2>4. n * Second \in Nat /\ interval.now * Second \in Nat
    BY <1>0, <1>5, ProductNat
  <2>5. tokens[b] \in Nat
    BY <1>0 DEF MeterType
  <2> QED BY <1>0, <1>3, <1>4, <2>1, <2>2, <2>3, <2>4, <2>5, SMT
<1>10. SlowFlowPasses'
  <2> SUFFICES ASSUME CountsPackets, refills > 0, Slow(interval'.most)
               PROVE  ~dropped' /\ mark'.new = mark'.old
    BY <1>1, <1>2 DEF SlowFlowPasses, CountsPackets
  <2>1. ASSUME NEW b \in Bands PROVE consume_tokens(b, size)
    <3>1. interval'.most * Second <= tokens[b] + interval.now * Second
      BY <1>6, <2>1 DEF MeterInv, Fed
    <3>2. interval'.now * Second = interval.now * Second + Second
      BY <1>0, <1>5, <1>6, OneMore
    <3>3. interval'.now * Second <= interval'.most * Second
      BY <1>0, <1>6, ProductLe
    <3>4. /\ interval'.now * Second \in Nat /\ interval'.most * Second \in Nat
          /\ interval.now * Second \in Nat
      BY <1>0, <1>5, <1>6, ProductNat
    <3>5. tokens[b] \in Nat
      BY <1>0 DEF MeterType
    <3>6. Second <= tokens[b]
      BY <1>0, <3>1, <3>2, <3>3, <3>4, <3>5, SMT
    <3> QED BY <1>0, <3>6, SMT DEF consume_tokens, Price, CountsPackets
  <2>2. choose_band(size) = 0
    BY <2>1 DEF choose_band
  <2> QED BY <2>2, Zenon DEF meter_entry_apply
<1> QED BY <1>7, <1>8, <1>9, <1>10 DEF MeterInv

\* A refill adds at most what the elapsed time is worth at the band's rate, and leaves in
\* the bucket what any slow flow needs until the next.
LEMMA RefillKeeps ==
    ASSUME MeterAssumption, MeterInv, NEW elapsed \in Periods, refill_bucket(elapsed)
    PROVE  MeterInv'
<1>0. /\ Second \in Nat \ {0} /\ MeterType /\ elapsed \in Nat /\ clock \in Nat
      /\ last_fill = clock /\ interval \in [now : Nat, most : Nat]
  BY DEF MeterAssumption, MeterInv, MeterType
<1>1. /\ clock' = clock + elapsed
      /\ tokens' = [b \in Bands |-> Refilled(b, clock' - last_fill)]
      /\ last_fill' = clock'
      /\ interval' = [now |-> 0, most |-> IF refills = 0 THEN 0 ELSE interval.most]
      /\ refills' = 1
      /\ UNCHANGED <<meter, mark, dropped, used>>
  BY DEF refill_bucket
<1>2. /\ Bands' = Bands
      /\ \A b : Rate(b)' = Rate(b) /\ Cap(b)' = Cap(b)
      /\ CountsPackets' = CountsPackets
      /\ \A n : Slow(n)' = Slow(n)
  BY <1>1 DEF Bands, Rate, Cap, CountsPackets, Slow
<1>3. clock' - last_fill = elapsed
  BY <1>0, <1>1, SMT
<1>4. \A b \in Bands : tokens'[b] = Refilled(b, elapsed)
  BY <1>1, <1>3
<1>5. ASSUME NEW b \in Bands
      PROVE  Refilled(b, elapsed) =
               LET new == Earned(Rate(b), elapsed) + tokens[b]
                   least == IF "KBPS" \in meter.flags THEN 1 ELSE Second
               IN IF new >= least THEN Min({new, Cap(b)}) ELSE tokens[b]
  BY DEF Refilled, Earned, Rate
<1>6. ASSUME NEW b \in Bands
      PROVE  /\ tokens[b] \in Nat /\ used[b] \in Nat /\ Rate(b) \in Nat /\ Cap(b) \in Nat
             /\ Earned(Rate(b), elapsed) \in Nat
             /\ Earned(Rate(b), elapsed) <= Rate(b) * elapsed
             /\ Rate(b) * Second < Word => Earned(Rate(b), elapsed) = Rate(b) * elapsed
  BY <1>0, BandType, EarnedLe, Zenon DEF MeterType
<1>7. ASSUME NEW b \in Bands
      PROVE  tokens'[b] \in Nat /\ tokens'[b] <= Earned(Rate(b), elapsed) + tokens[b]
  <2>1. PICK e : e = Earned(Rate(b), elapsed)
    OBVIOUS
  <2>2. PICK c : c = Cap(b)
    OBVIOUS
  <2>3. e \in Nat /\ c \in Nat /\ tokens[b] \in Nat
    BY <1>6, <2>1, <2>2
  <2>4. Min({e + tokens[b], c}) = IF e + tokens[b] <= c THEN e + tokens[b] ELSE c
    BY <2>3, MinOfTwo
  <2>5. tokens'[b] = Min({e + tokens[b], c}) \/ tokens'[b] = tokens[b]
    BY <1>4, <1>5, <2>1, <2>2
  <2>6. tokens'[b] \in Nat /\ tokens'[b] <= e + tokens[b]
    BY <2>3, <2>4, <2>5, SMT
  <2> QED BY <2>1, <2>6
<1>8. MeterType'
  <2>1. tokens' \in [Bands -> Nat]
    BY <1>1, <1>4, <1>7
  <2>2. interval' \in [now : Nat, most : Nat] /\ clock' \in Nat /\ refills' \in Nat
    BY <1>0, <1>1, SMT
  <2> QED BY <1>0, <1>1, <1>2, <2>1, <2>2 DEF MeterType
<1>9. RateHeld'
  <2> SUFFICES ASSUME NEW b \in Bands
               PROVE  used[b] + tokens'[b] <= Rate(b) * (clock + elapsed)
    BY <1>1, <1>2 DEF RateHeld, Rate
  <2>1. used[b] + tokens[b] <= Rate(b) * clock
    BY <1>0 DEF MeterInv, RateHeld, Rate
  <2>2. Rate(b) * (clock + elapsed) = Rate(b) * clock + Rate(b) * elapsed
    BY <1>0, <1>6, Distribute
  <2>3. Rate(b) * clock \in Nat /\ Rate(b) * elapsed \in Nat
    BY <1>0, <1>6, ProductNat
  <2> QED BY <1>6, <1>7, <2>1, <2>2, <2>3, SMTT(30)
<1>10. Fed'
  <2> SUFFICES ASSUME CountsPackets, NEW n \in Nat, Slow(n), NEW b \in Bands
               PROVE  n * Second <= tokens'[b] + interval'.now * Second
    BY <1>1, <1>2 DEF Fed
  <2>1. interval'.now * Second = 0
    BY <1>0, <1>1, SMT
  <2>2. PICK q : q = n * Second
    OBVIOUS
  <2>3. q \in Nat /\ (q = 0 \/ q >= Second)
    BY <1>0, <2>2, SMT
  <2>4. PICK e : e = Earned(Rate(b), elapsed)
    OBVIOUS
  <2>5. PICK c : c = Cap(b)
    OBVIOUS
  <2>6. e \in Nat /\ c \in Nat /\ tokens[b] \in Nat
    BY <1>6, <2>4, <2>5
  <2>7. q <= e /\ q <= c
    <3>1. q <= Rate(b) * elapsed /\ q <= c /\ Rate(b) * Second < Word
      BY <2>2, <2>5 DEF Slow, Rate
    <3> QED BY <1>6, <2>4, <3>1
  <2>8. tokens'[b] = IF e + tokens[b] >= Second THEN Min({e + tokens[b], c}) ELSE tokens[b]
    BY <1>4, <1>5, <2>4, <2>5 DEF CountsPackets
  <2>9. Min({e + tokens[b], c}) = IF e + tokens[b] <= c THEN e + tokens[b] ELSE c
    BY <2>6, MinOfTwo
  <2>10. q <= tokens'[b]
    BY <1>0, <2>3, <2>6, <2>7, <2>8, <2>9, SMT
  <2>11. tokens'[b] \in Nat
    BY <1>7
  <2> QED BY <2>1, <2>2, <2>3, <2>10, <2>11, SMT
<1>11. SlowFlowPasses'
  BY <1>1, SMT DEF SlowFlowPasses
<1> QED BY <1>8, <1>9, <1>10, <1>11 DEF MeterInv

\* No band of a meter lets more through than its rate, and a meter that counts packets
\* touches no packet of a flow that stays within every band, whatever the periods between
\* the refills (meter_entry_apply(), refill_bucket()).
THEOREM MetersExact ==
    ASSUME MeterAssumption PROVE MeterSpec => []MeterExact
<1>1. MeterInit => MeterInv
  <2> SUFFICES ASSUME MeterInit PROVE MeterInv
    OBVIOUS
  <2>1. MeterType
    BY SMT DEF MeterInit, meter_entry_create, MeterType, Bands
  <2>2. RateHeld
    <3> SUFFICES ASSUME NEW b \in Bands PROVE used[b] + tokens[b] <= meter.bands[b].rate * last_fill
      BY DEF RateHeld
    <3>1. used[b] = 0 /\ tokens[b] = 0 /\ last_fill = 0
      BY DEF MeterInit, meter_entry_create, Bands
    <3>2. Rate(b) \in Nat
      BY <2>1, BandType
    <3>3. Rate(b) * 0 = 0
      BY <3>2, SMT
    <3> QED BY <3>1, <3>3, SMT DEF Rate
  <2>3. Fed /\ SlowFlowPasses
    BY SMT DEF MeterInit, Fed, SlowFlowPasses
  <2> QED BY <2>1, <2>2, <2>3 DEF MeterInv
<1>2. MeterInv /\ [MeterNext]_meterVars => MeterInv'
  <2>1. ASSUME MeterInv, MeterNext PROVE MeterInv'
    BY <2>1, ApplyKeeps, RefillKeeps DEF MeterNext
  <2>2. ASSUME MeterInv, UNCHANGED meterVars PROVE MeterInv'
    BY <2>2 DEF meterVars, MeterInv, MeterType, RateHeld, Fed, SlowFlowPasses, Slow, Cap, Bands,
                CountsPackets
  <2> QED BY <2>1, <2>2
<1>3. MeterInv => MeterExact
  BY DEF MeterInv, MeterExact
<1> QED BY <1>1, <1>2, <1>3, PTL DEF MeterSpec
----------------------------------------------------------------------------
(* Controllers.                                                            *)

\* Queueing a message keeps the queues within their limit.
LEMMA SendKeepsTypes ==
    ASSUME TypeOK, NEW S \in SUBSET Remote, NEW m \in Message,
           NEW r \in Remote \cup {NoRemote}, NEW w \in Part,
           send_openflow_buffer_to_remote(S, m, r, w)
    PROVE  /\ n_txq' \in [Remote -> 0 .. TXQ_LIMIT]
           /\ last' \in LastStep
<1>1. n_txq' \in [Remote -> 0 .. TXQ_LIMIT]
  BY RemotesAssumption DEF TypeOK, send_openflow_buffer_to_remote, Accepting
<1>2. last' \in LastStep
  BY DEF send_openflow_buffer_to_remote, Accepting, LastStep
<1> QED BY <1>1, <1>2

LEMMA QuietType == \A r \in Remote \cup {NoRemote} : Quiet(r) \in LastStep
  BY DEF Quiet, LastStep, Part, Message

\* The invariant of every step.
IInv ==
    /\ TypeOK
    /\ AtMostOneMaster
    /\ TablesNotWrittenBySlaves

LEMMA InitHolds == Init => IInv
<1> SUFFICES ASSUME Init PROVE IInv
  OBVIOUS
<1>1. TypeOK
  <2>1. generation_id \in GenerationId
    BY RemotesAssumption DEF Init, GenerationId
  <2>2. last \in LastStep
    BY QuietType DEF Init
  <2>3. n_txq \in [Remote -> 0 .. TXQ_LIMIT]
    BY RemotesAssumption DEF Init
  <2> QED BY <2>1, <2>2, <2>3, RemotesAssumption DEF Init, TypeOK, Role
<1>2. AtMostOneMaster /\ TablesNotWrittenBySlaves
  BY DEF Init, AtMostOneMaster, TablesNotWrittenBySlaves, Quiet
<1> QED BY <1>1, <1>2 DEF IInv

\* The part of a step that the role requests do not share: no role changes, and
\* no controller joins the list with another role than EQUAL.
LEMMA RolesKept ==
    ASSUME IInv, remotes' \subseteq remotes, role' = role
    PROVE  AtMostOneMaster'
  BY DEF IInv, AtMostOneMaster

LEMMA BroadcastKeeps ==
    ASSUME IInv, NEW m \in AsyncMsg, Broadcast(m)
    PROVE  IInv'
<1>1. m \in Message /\ {r \in remotes : AsyncEnabled(r, m)} \in SUBSET Remote
  BY DEF IInv, TypeOK, Message
<1>2. n_txq' \in [Remote -> 0 .. TXQ_LIMIT] /\ last' \in LastStep
  BY <1>1, SendKeepsTypes, Zenon DEF IInv, Broadcast, Part
<1>3. TypeOK'
  BY <1>2 DEF IInv, TypeOK, Broadcast
<1>4. AtMostOneMaster'
  BY RolesKept DEF Broadcast
<1>5. TablesNotWrittenBySlaves'
  BY DEF Broadcast, send_openflow_buffer_to_remote, TablesNotWrittenBySlaves
<1> QED BY <1>3, <1>4, <1>5 DEF IInv

LEMMA ConnectionsKeep ==
    ASSUME IInv, NEW r \in Remote,
           \/ remote_create(r) \/ ConnectionLost(r)
           \/ remote_destroy(r) \/ Transmit(r)
    PROVE  IInv'
<1>1. last' = Quiet(NoRemote)
  BY DEF remote_create, ConnectionLost, remote_destroy, Transmit
<1>2. TablesNotWrittenBySlaves'
  BY <1>1 DEF TablesNotWrittenBySlaves, Quiet
<1>3. last' \in LastStep
  BY <1>1, QuietType
<1>4. CASE remote_create(r)
  <2>1. TypeOK'
    BY <1>3, <1>4, RemotesAssumption DEF IInv, TypeOK, remote_create, Role
  <2>2. AtMostOneMaster'
    BY <1>4 DEF IInv, TypeOK, AtMostOneMaster, remote_create
  <2> QED BY <2>1, <2>2, <1>2 DEF IInv
<1>5. CASE ConnectionLost(r)
  <2>1. TypeOK'
    BY <1>3, <1>5 DEF IInv, TypeOK, ConnectionLost
  <2> QED BY <2>1, <1>2, <1>5, RolesKept DEF IInv, ConnectionLost
<1>6. CASE remote_destroy(r)
  <2>1. TypeOK'
    BY <1>3, <1>6, RemotesAssumption DEF IInv, TypeOK, remote_destroy, Role
  <2>2. AtMostOneMaster'
    BY <1>6 DEF IInv, TypeOK, AtMostOneMaster, remote_destroy
  <2> QED BY <2>1, <2>2, <1>2 DEF IInv
<1>7. CASE Transmit(r)
  <2>1. n_txq' \in [Remote -> 0 .. TXQ_LIMIT]
    BY <1>7, RemotesAssumption DEF IInv, TypeOK, Transmit
  <2>2. TypeOK'
    BY <1>3, <1>7, <2>1 DEF IInv, TypeOK, Transmit
  <2> QED BY <2>2, <1>2, <1>7, RolesKept DEF IInv, Transmit
<1> QED BY <1>4, <1>5, <1>6, <1>7

\* A message of r is a role request, one on masks, or a write.
LEMMA MessageCases ==
    ASSUME NEW r \in Remote, handle_control_msg(r)
    PROVE  /\ r \in up
           /\ \/ \E new_role \in Role \cup {"NOCHANGE", "UNKNOWN"}, gen \in GenerationId :
                    dp_handle_role_request(r, new_role, gen)
              \/ dp_handle_async_request(r)
              \/ handle_table_write(r)
              \/ handle_config_write(r)
<1>1. 0 \in GenerationId
  BY RemotesAssumption DEF GenerationId
<1> QED BY <1>1, Zenon DEF handle_control_msg, Role

\* Electing a master leaves exactly one; so does every other answer to a role
\* request, since it makes nobody master.
LEMMA RoleRequestKeeps ==
    ASSUME IInv, NEW r \in up, NEW new_role \in Role \cup {"NOCHANGE", "UNKNOWN"},
           NEW gen \in GenerationId, dp_handle_role_request(r, new_role, gen)
    PROVE  IInv'
<1> USE DEF IInv
<1>0. r \in Remote /\ r \in remotes
  BY DEF TypeOK
<1>1. PICK m \in Message : Reply(r, m)
  BY DEF dp_handle_role_request, ReplyError, Message, RoleReply, ErrorMsg, TypeOK, Role
<1>2. n_txq' \in [Remote -> 0 .. TXQ_LIMIT] /\ last' \in LastStep
  BY <1>0, <1>1, SendKeepsTypes, Zenon DEF Reply, Part
<1>3. last'.wrote = "nothing"
  BY <1>1 DEF Reply, send_openflow_buffer_to_remote
<1>4. role' \in [Remote -> Role]
  BY <1>0 DEF dp_handle_role_request, TypeOK, Role, Elect
<1>5. generation_id' \in GenerationId
  BY DEF dp_handle_role_request, TypeOK
<1>6. TypeOK'
  BY <1>2, <1>4, <1>5 DEF TypeOK, dp_handle_role_request
<1>7. AtMostOneMaster'
  <2>1. CASE role' = Elect(r)
    BY <2>1, <1>0 DEF AtMostOneMaster, Elect, TypeOK, dp_handle_role_request
  <2>2. CASE role' = role
    BY <2>2, RolesKept DEF dp_handle_role_request
  <2>3. CASE role' = [role EXCEPT ![r] = "EQUAL"] \/ role' = [role EXCEPT ![r] = "SLAVE"]
    BY <2>3, <1>0 DEF AtMostOneMaster, TypeOK, dp_handle_role_request
  <2> QED BY <2>1, <2>2, <2>3 DEF dp_handle_role_request
<1>8. TablesNotWrittenBySlaves'
  BY <1>3 DEF TablesNotWrittenBySlaves
<1> QED BY <1>6, <1>7, <1>8

LEMMA OtherMessagesKeep ==
    ASSUME IInv, NEW r \in up,
           \/ dp_handle_async_request(r) \/ handle_table_write(r)
           \/ handle_config_write(r)
    PROVE  IInv'
<1> USE DEF IInv
<1>0. r \in Remote /\ r \in remotes
  BY DEF TypeOK
<1>1. CASE dp_handle_async_request(r)
  <2>1. n_txq' \in [Remote -> 0 .. TXQ_LIMIT] /\ last' \in LastStep
    <3>1. CASE Reply(r, AsyncReply)
      BY <1>0, <3>1, SendKeepsTypes, Zenon DEF Reply, Part, Message
    <3>2. CASE last' = Quiet(r) /\ UNCHANGED n_txq
      BY <1>0, <3>2, QuietType DEF TypeOK
    <3> QED BY <1>1, <3>1, <3>2 DEF dp_handle_async_request
  <2>2. last'.wrote = "nothing"
    <3>1. CASE Reply(r, AsyncReply)
      BY <3>1 DEF Reply, send_openflow_buffer_to_remote
    <3>2. CASE last' = Quiet(r)
      BY <3>2 DEF Quiet
    <3> QED BY <1>1, <3>1, <3>2 DEF dp_handle_async_request
  <2>3. TypeOK'
    BY <1>0, <1>1, <2>1 DEF TypeOK, dp_handle_async_request
  <2>4. AtMostOneMaster' /\ TablesNotWrittenBySlaves'
    BY <1>1, <2>2, RolesKept DEF dp_handle_async_request, TablesNotWrittenBySlaves
  <2> QED BY <2>3, <2>4
<1>2. CASE handle_table_write(r)
  <2>1. CASE role[r] # "SLAVE"
    <3>1. last' = [Quiet(r) EXCEPT !.wrote = "tables"] /\ UNCHANGED n_txq
      BY <1>2, <2>1 DEF handle_table_write
    <3>2. last' \in LastStep /\ last'.actor = r
      BY <1>0, <3>1, QuietType DEF LastStep, Part, Quiet
    <3>3. TypeOK'
      BY <1>2, <3>1, <3>2 DEF TypeOK, handle_table_write
    <3>4. AtMostOneMaster' /\ TablesNotWrittenBySlaves'
      BY <1>2, <2>1, <3>2, RolesKept DEF handle_table_write, TablesNotWrittenBySlaves
    <3> QED BY <3>3, <3>4
  <2>2. CASE role[r] = "SLAVE"
    <3>1. PICK m \in Message : Reply(r, m)
      BY <1>2, <2>2 DEF handle_table_write, ReplyError, Message, ErrorMsg
    <3>2. n_txq' \in [Remote -> 0 .. TXQ_LIMIT] /\ last' \in LastStep
      BY <1>0, <3>1, SendKeepsTypes, Zenon DEF Reply, Part
    <3>3. last'.wrote = "nothing"
      BY <3>1 DEF Reply, send_openflow_buffer_to_remote
    <3>4. TypeOK'
      BY <1>2, <3>2 DEF TypeOK, handle_table_write
    <3>5. AtMostOneMaster' /\ TablesNotWrittenBySlaves'
      BY <1>2, <3>3, RolesKept DEF handle_table_write, TablesNotWrittenBySlaves
    <3> QED BY <3>4, <3>5
  <2> QED BY <2>1, <2>2
<1>3. CASE handle_config_write(r)
  <2>1. last' = [Quiet(r) EXCEPT !.wrote = "config"]
    BY <1>3 DEF handle_config_write
  <2>2. last' \in LastStep /\ last'.wrote = "config"
    BY <1>0, <2>1, QuietType DEF LastStep, Part, Quiet
  <2>3. TypeOK'
    BY <1>3, <2>2 DEF TypeOK, handle_config_write
  <2>4. AtMostOneMaster' /\ TablesNotWrittenBySlaves'
    BY <1>3, <2>2, RolesKept DEF handle_config_write, TablesNotWrittenBySlaves
  <2> QED BY <2>3, <2>4
<1> QED BY <1>1, <1>2, <1>3

LEMMA NextKeeps == IInv /\ [Next]_vars => IInv'
<1> SUFFICES ASSUME IInv, [Next]_vars PROVE IInv'
  OBVIOUS
<1>1. ASSUME NEW m \in AsyncMsg, Broadcast(m) PROVE IInv'
  BY <1>1, BroadcastKeeps
<1>2. ASSUME NEW r \in Remote,
             \/ remote_create(r) \/ ConnectionLost(r)
             \/ remote_destroy(r) \/ Transmit(r)
      PROVE  IInv'
  BY <1>2, ConnectionsKeep
<1>3. ASSUME NEW r \in Remote, handle_control_msg(r) PROVE IInv'
  <2>1. r \in up
    BY <1>3 DEF handle_control_msg
  <2> QED BY <1>3, <2>1, MessageCases, RoleRequestKeeps, OtherMessagesKeep
<1>4. CASE UNCHANGED vars
  BY <1>4 DEF vars, IInv, TypeOK, AtMostOneMaster, TablesNotWrittenBySlaves
<1> QED BY <1>1, <1>2, <1>3, <1>4 DEF Next

\* The fields of the datapath and of its remotes keep their types, and no
\* queue grows past TXQ_LIMIT.
THEOREM TypeCorrect == Spec => []TypeOK
<1>1. IInv => TypeOK
  BY DEF IInv
<1> QED BY <1>1, InitHolds, NextKeeps, PTL DEF Spec

\* dp_handle_role_request() demotes every other master of dp->remotes before it
\* promotes the sender, and nothing else makes a master.
THEOREM OneMaster == Spec => []AtMostOneMaster
<1>1. IInv => AtMostOneMaster
  BY DEF IInv
<1> QED BY <1>1, InitHolds, NextKeeps, PTL DEF Spec

\* The role checks of the table handlers hold a replaced master off.
THEOREM SlavesDoNotWriteTables == Spec => []TablesNotWrittenBySlaves
<1>1. IInv => TablesNotWrittenBySlaves
  BY DEF IInv
<1> QED BY <1>1, InitHolds, NextKeeps, PTL DEF Spec
\* What a controller's own message is answered with is no asynchronous message.
LEMMA RepliesAreNotAsync ==
    ASSUME NEW r, NEW m \in RoleReply \cup ErrorMsg \cup {AsyncReply}, Reply(r, m)
    PROVE  last'.sent \notin AsyncMsg /\ last'.actor = r
<1>1. m \notin AsyncMsg
  BY DEF AsyncMsg, PacketIn, PortStatus, FlowRemoved, RoleReply, ErrorMsg, AsyncReply
<1> QED BY <1>1 DEF Reply, send_openflow_buffer_to_remote

LEMMA QuietSendsNothing ==
    ASSUME NEW r, last'.to = Quiet(r).to
    PROVE  SlavesHearOnlyPortStatus'
  BY DEF Quiet, SlavesHearOnlyPortStatus

\* Handling a message: an answer goes to its sender, or nothing is sent.
LEMMA HandlersSendAnswers ==
    ASSUME IInv, NEW r \in Remote, handle_control_msg(r)
    PROVE  SlavesHearOnlyPortStatus' /\ last'.actor = r
<1>1. ASSUME NEW m \in RoleReply \cup ErrorMsg \cup {AsyncReply}, Reply(r, m)
      PROVE  SlavesHearOnlyPortStatus' /\ last'.actor = r
  BY <1>1, RepliesAreNotAsync DEF SlavesHearOnlyPortStatus
<1>2. ASSUME NEW new_role \in Role \cup {"NOCHANGE", "UNKNOWN"}, NEW gen \in GenerationId,
             dp_handle_role_request(r, new_role, gen)
      PROVE  \E m \in RoleReply \cup ErrorMsg \cup {AsyncReply} : Reply(r, m)
  BY <1>2 DEF dp_handle_role_request, ReplyError, RoleReply, ErrorMsg, IInv, TypeOK, Role
<1>3. ASSUME dp_handle_async_request(r)
      PROVE  SlavesHearOnlyPortStatus' /\ last'.actor = r
  <2>1. CASE Reply(r, AsyncReply)
    BY <1>1, <2>1
  <2>2. CASE last' = Quiet(r)
    BY <2>2, QuietSendsNothing DEF Quiet
  <2> QED BY <1>3, <2>1, <2>2 DEF dp_handle_async_request
<1>4. ASSUME handle_table_write(r)
      PROVE  SlavesHearOnlyPortStatus' /\ last'.actor = r
  <2>1. CASE last' = [Quiet(r) EXCEPT !.wrote = "tables"]
    BY <2>1, QuietSendsNothing DEF Quiet
  <2>2. CASE ReplyError(r, "IS_SLAVE")
    BY <1>1, <2>2 DEF ReplyError, ErrorMsg
  <2> QED BY <1>4, <2>1, <2>2 DEF handle_table_write
<1>5. ASSUME handle_config_write(r)
      PROVE  SlavesHearOnlyPortStatus' /\ last'.actor = r
  BY <1>5, QuietSendsNothing DEF handle_config_write, Quiet
<1> QED BY <1>1, <1>2, <1>3, <1>4, <1>5, MessageCases

LEMMA NextTellsSlavesPortsOnly ==
    ASSUME IInv, SlavesHearOnlyPortStatus, [Next]_vars
    PROVE  SlavesHearOnlyPortStatus'
<1>1. ASSUME NEW m \in AsyncMsg, Broadcast(m) PROVE SlavesHearOnlyPortStatus'
  <2>1. last'.sent = m /\ role' = role /\ \A r \in last'.to : AsyncEnabled(r, m)
    BY <1>1 DEF Broadcast, send_openflow_buffer_to_remote, Accepting
  <2>2. m.type = "PORT_STATUS" => m \in PortStatus
    BY DEF AsyncMsg, PacketIn, PortStatus, FlowRemoved
  <2> QED BY <2>1, <2>2 DEF AsyncEnabled, SlavesHearOnlyPortStatus
<1>2. ASSUME NEW r \in Remote,
             \/ remote_create(r) \/ ConnectionLost(r)
             \/ remote_destroy(r) \/ Transmit(r)
      PROVE  SlavesHearOnlyPortStatus'
  BY <1>2, QuietSendsNothing DEF remote_create, ConnectionLost, remote_destroy, Transmit
<1>3. ASSUME NEW r \in Remote, handle_control_msg(r) PROVE SlavesHearOnlyPortStatus'
  BY <1>3, HandlersSendAnswers
<1>4. CASE UNCHANGED vars
  BY <1>4 DEF vars, SlavesHearOnlyPortStatus
<1> QED BY <1>1, <1>2, <1>3, <1>4 DEF Next

\* What send_openflow_buffer() queues for a slave without its asking is a port
\* status: the masks of the other two messages are looked at for masters and
\* equals only, whatever a controller set them to and whenever its role changed.
THEOREM SlavesAreToldOfPortsOnly == Spec => []SlavesHearOnlyPortStatus
<1>1. Init => SlavesHearOnlyPortStatus
  BY DEF Init, Quiet, SlavesHearOnlyPortStatus
<1>2. IInv /\ SlavesHearOnlyPortStatus /\ [Next]_vars => SlavesHearOnlyPortStatus'
  BY NextTellsSlavesPortsOnly
<1> QED BY <1>1, <1>2, InitHolds, NextKeeps, PTL DEF Spec

\* The role of a controller that stays in dp->remotes changes by a request of its
\* own, or from MASTER to SLAVE when dp_handle_role_request() makes the sender of
\* another request master.
LEMMA NextChangesRolesForACause ==
    ASSUME IInv, [Next]_vars, NEW q \in remotes \cap remotes', role'[q] # role[q]
    PROVE  \/ last'.actor = q
           \/ /\ role[q] = "MASTER" /\ role'[q] = "SLAVE"
              /\ last'.actor \in up /\ role'[last'.actor] = "MASTER"
<1> USE DEF IInv, TypeOK
<1>1. ASSUME NEW m \in AsyncMsg, Broadcast(m) PROVE FALSE
  BY <1>1 DEF Broadcast
<1>2. ASSUME NEW r \in Remote,
             \/ remote_create(r) \/ ConnectionLost(r)
             \/ remote_destroy(r) \/ Transmit(r)
      PROVE  FALSE
  BY <1>2 DEF remote_create, ConnectionLost, remote_destroy, Transmit
<1>3. ASSUME NEW r \in Remote, handle_control_msg(r)
      PROVE  \/ last'.actor = q
             \/ /\ role[q] = "MASTER" /\ role'[q] = "SLAVE"
                /\ last'.actor \in up /\ role'[last'.actor] = "MASTER"
  <2>1. r \in up /\ last'.actor = r
    BY <1>3, HandlersSendAnswers, Zenon DEF handle_control_msg
  <2>2. CASE role' = Elect(r)
    BY <2>1, <2>2 DEF Elect
  <2>3. CASE \/ role' = role \/ role' = [role EXCEPT ![r] = "EQUAL"]
             \/ role' = [role EXCEPT ![r] = "SLAVE"]
    BY <2>1, <2>3
  <2>4. \/ role' = Elect(r) \/ role' = role \/ role' = [role EXCEPT ![r] = "EQUAL"]
        \/ role' = [role EXCEPT ![r] = "SLAVE"]
    BY <1>3, Zenon DEF handle_control_msg, dp_handle_role_request, dp_handle_async_request,
                handle_table_write, handle_config_write
  <2> QED BY <2>2, <2>3, <2>4
<1>4. ~UNCHANGED vars
  BY DEF vars
<1> QED BY <1>1, <1>2, <1>3, <1>4 DEF Next

\* No broadcast, no connection and no other message changes a controller's role
\* behind its back.
THEOREM RolesChangeForACause == Spec => RoleChangesHaveACause
<1>1. IInv /\ [Next]_vars =>
         [\A r \in remotes \cap remotes' :
            role'[r] # role[r] =>
               \/ last'.actor = r
               \/ /\ role[r] = "MASTER" /\ role'[r] = "SLAVE"
                  /\ last'.actor \in up /\ role'[last'.actor] = "MASTER"]_vars
  BY NextChangesRolesForACause
<1> QED BY <1>1, InitHolds, NextKeeps, PTL DEF Spec, RoleChangesHaveACause
=============================================================================
