----------------------------- MODULE DpBuffers -----------------------------
(***************************************************************************)
(* The packet buffers of the datapath (udatapath/dp_buffers.c) and the     *)
(* ownership of packets they share with the pipeline (packet_create,       *)
(* packet_clone and packet_destroy of udatapath/packet.c).                 *)
(*                                                                         *)
(* A packet structure belongs to the code that processes it, to a slot of  *)
(* the ring, or to both: packet_destroy() leaves a packet alone whose slot *)
(* has not timed out.  Time is what makes this delicate: a slot may time   *)
(* out between any two steps, also while its packet is being processed.    *)
(***************************************************************************)
EXTENDS Integers

CONSTANTS
    Packet,            \* addresses of packet structures
    NULL,
    N_PKT_BUFFERS,     \* slots of the ring (256 in the code)
    N_COOKIES,         \* values of the cookie bits of an id (2^24)
    OVERWRITE_SECS     \* seconds for which a slot is kept (1)

ASSUME BuffersAssumption ==
    /\ NULL \notin Packet
    /\ N_PKT_BUFFERS \in Nat \ {0}
    /\ N_COOKIES \in Nat /\ N_COOKIES > 1
    /\ OVERWRITE_SECS \in Nat \ {0}

VARIABLES
    buffer_idx,  \* dpb->buffer_idx: the slot used last
    buffers,     \* dpb->buffers; `timeout' is the number of seconds left
    buffer_id,   \* pkt->buffer_id of each packet
    allocated,   \* packets not freed
    active,      \* packets owned by the code that processes them
    outlived     \* history: packets that were processed beyond their slot's time

bufferVars == <<buffer_idx, buffers, buffer_id, allocated, active, outlived>>

Slot == 0 .. N_PKT_BUFFERS - 1

\* A buffer id is a slot in its low bits and a cookie in the others; the id
\* with all bits set means "not buffered".
BufferId == [slot : Slot, cookie : 0 .. N_COOKIES - 1]

NO_BUFFER == [slot |-> N_PKT_BUFFERS - 1, cookie |-> N_COOKIES - 1]

\* A slot's cookie starts at UINT32_MAX, here -1: no id has it.
PacketBuffer ==
    [pkt : Packet \cup {NULL}, cookie : -1 .. N_COOKIES - 1, timeout : 0 .. OVERWRITE_SECS]

BuffersTypeOK ==
    /\ buffer_idx \in -1 .. N_PKT_BUFFERS - 1
    /\ buffers \in [Slot -> PacketBuffer]
    /\ buffer_id \in [Packet -> BufferId]
    /\ allocated \subseteq Packet
    /\ active \subseteq Packet
    /\ outlived \subseteq Packet

\* dp_buffers_create(): buffer_idx is (size_t) -1.
BuffersInit ==
    /\ buffer_idx = -1
    /\ buffers = [i \in Slot |-> [pkt |-> NULL, cookie |-> -1, timeout |-> 0]]
    /\ buffer_id = [p \in Packet |-> NO_BUFFER]
    /\ allocated = {}
    /\ active = {}
    /\ outlived = {}

-----------------------------------------------------------------------------

dp_buffers_is_alive(id) ==
    buffers[id.slot].cookie = id.cookie /\ buffers[id.slot].timeout > 0

\* packet_create() for a packet from a port or a packet-out, packet_clone() for
\* a copy made while another is processed: neither is in a buffer.
packet_create(p) ==
    /\ p \notin allocated
    /\ allocated' = allocated \cup {p}
    /\ active' = active \cup {p}
    /\ buffer_id' = [buffer_id EXCEPT ![p] = NO_BUFFER]
    /\ UNCHANGED <<buffer_idx, buffers, outlived>>

NextIdx == (buffer_idx + 1) % N_PKT_BUFFERS

\* Mutant: the largest cookie is used too.
NextCookie_UpToMax(c) == IF c + 1 >= N_COOKIES THEN 0 ELSE c + 1

\* The largest cookie is left to NO_BUFFER.
NextCookie(c) == IF c + 1 >= N_COOKIES - 1 THEN 0 ELSE c + 1

\* Mutant: a slot is reused whether it has timed out or not.
SlotTaken_Never(i) == FALSE

SlotTaken(i) == buffers[i].pkt # NULL /\ buffers[i].timeout > 0

\* Mutant: the packet that held the slot is not destroyed.
Evicted_Kept(i) == {}

\* The packet that a save into slot i destroys: its buffer_id is reset first, so
\* packet_destroy() frees it.
Evicted(i) == {buffers[i].pkt} \ {NULL}

\* dp_buffers_save() of a packet sent to the controller.
dp_buffers_save(p) ==
    /\ p \in active
    /\ \/ buffer_id[p] = NO_BUFFER
       \/ ~dp_buffers_is_alive(buffer_id[p])
    /\ buffer_idx' = NextIdx
    /\ UNCHANGED outlived
    /\ IF SlotTaken(NextIdx)
       THEN UNCHANGED <<buffers, buffer_id, allocated, active>>
       ELSE LET c == NextCookie(buffers[NextIdx].cookie)
            IN  /\ buffers' = [buffers EXCEPT ![NextIdx] =
                       [pkt |-> p, cookie |-> c, timeout |-> OVERWRITE_SECS]]
                /\ buffer_id' = [buffer_id EXCEPT ![p] = [slot |-> NextIdx, cookie |-> c]]
                /\ allocated' = allocated \ Evicted(NextIdx)
                /\ UNCHANGED active

\* dp_buffers_retrieve() for a packet-out or a flow-mod that cites id, one that
\* a controller chose: a slot is looked at whatever its time-out.
dp_buffers_retrieve(id) ==
    /\ active = {}
    /\ id # NO_BUFFER
    /\ LET p == buffers[id.slot].pkt
       IN  /\ buffers[id.slot].cookie = id.cookie
           /\ p # NULL
           /\ active' = {p}
           /\ buffer_id' = [buffer_id EXCEPT ![p] = NO_BUFFER]
           /\ buffers' = [buffers EXCEPT ![id.slot].pkt = NULL]
    /\ UNCHANGED <<buffer_idx, allocated, outlived>>

\* dp_buffers_discard() with destroy = false, the only way it is called.
dp_buffers_discard(id) ==
    buffers' = IF buffers[id.slot].cookie = id.cookie
               THEN [buffers EXCEPT ![id.slot].pkt = NULL]
               ELSE buffers

\* packet_destroy() at the end of the processing of p.
packet_destroy(p) ==
    /\ p \in active
    /\ active' = active \ {p}
    /\ \/ /\ buffer_id[p] # NO_BUFFER
          /\ dp_buffers_is_alive(buffer_id[p])
          /\ UNCHANGED <<buffers, allocated>>
       \/ /\ buffer_id[p] # NO_BUFFER
          /\ ~dp_buffers_is_alive(buffer_id[p])
          /\ dp_buffers_discard(buffer_id[p])
          /\ allocated' = allocated \ {p}
       \/ /\ buffer_id[p] = NO_BUFFER
          /\ allocated' = allocated \ {p}
          /\ UNCHANGED buffers
    /\ UNCHANGED <<buffer_idx, buffer_id, outlived>>

\* time_now() moves on by one second, perhaps while a packet is processed.
Tick ==
    /\ buffers' = [i \in Slot |-> [buffers[i] EXCEPT !.timeout = IF @ > 0 THEN @ - 1 ELSE 0]]
    /\ outlived' = outlived \cup {p \in active :
                       buffer_id[p] # NO_BUFFER /\ buffers[buffer_id[p].slot].timeout <= 1}
    /\ UNCHANGED <<buffer_idx, buffer_id, allocated, active>>

BuffersNext ==
    \/ \E p \in Packet : packet_create(p) \/ dp_buffers_save(p) \/ packet_destroy(p)
    \/ \E id \in BufferId : dp_buffers_retrieve(id)
    \/ Tick

BuffersSpec == BuffersInit /\ [][BuffersNext]_bufferVars

-----------------------------------------------------------------------------
(* Properties.                                                             *)

\* Unless a packet was processed beyond the time of its slot: no slot, and no
\* code processing a packet, holds the address of a freed packet.
\* dp_buffers_save(), packet_destroy() and a packet-out may each free a packet
\* that another of them still knows.
NoDanglingPacket ==
    outlived = {} =>
        /\ active \subseteq allocated
        /\ \A i \in Slot : buffers[i].pkt # NULL => buffers[i].pkt \in allocated

\* Unless a packet was processed beyond the time of its slot: every packet not
\* freed can still be freed, as it is being processed, or a slot has it (until
\* a packet-out takes it or a later save evicts it).
NoPacketLeaked ==
    outlived = {} => \A p \in allocated : p \in active \/ \E i \in Slot : buffers[i].pkt = p

\* The note of dp_buffers.c: "The current implementation assumes that a packet
\* is only saved once to the buffers. [...] In the current implementation this
\* should not happen."
SavedOnce ==
    \A i, j \in Slot : buffers[i].pkt # NULL /\ buffers[i].pkt = buffers[j].pkt => i = j

\* What does hold: no packet is in two slots unless one was processed beyond
\* the time of its slot.
SavedOnceInTime == outlived = {} => SavedOnce

\* A packet announced to the controller stays retrievable for OVERWRITE_SECS:
\* until its slot times out, only a packet-out or flow-mod empties it.
HeldUntilTimeout ==
    [][\A i \in Slot :
          /\ buffers[i].pkt # NULL
          /\ buffers[i].timeout > 0
          /\ buffers'[i].pkt # buffers[i].pkt
          => active = {} /\ active' = {buffers[i].pkt}]_bufferVars

\* The inductive invariant behind them: the packet in a slot knows that slot,
\* and a packet being processed that believes it is buffered is, in a slot
\* that has not timed out.
Ownership ==
    outlived = {} =>
    /\ \A i \in Slot : buffers[i].pkt # NULL =>
          /\ buffers[i].pkt \in allocated
          /\ buffer_id[buffers[i].pkt].slot = i
          /\ buffer_id[buffers[i].pkt].cookie = buffers[i].cookie
          /\ buffers[i].cookie < N_COOKIES - 1
    /\ \A p \in active :
          /\ p \in allocated
          /\ buffer_id[p] # NO_BUFFER =>
                /\ buffers[buffer_id[p].slot].pkt = p
                /\ dp_buffers_is_alive(buffer_id[p])
=============================================================================
