----------------------------- MODULE PacketEdit -----------------------------
(***************************************************************************)
(* A packet under the actions of an apply list, one after the other        *)
(* (dp_execute_action_list()), and what must stay true of its headers.     *)
(***************************************************************************)
EXTENDS PacketStd

CONSTANTS Frames,        \* frames that come in
          Edits,         \* the actions, a sequence
          MaxEdits       \* actions in a list

VARIABLES pkt,           \* struct packet, with its handle
          edits          \* actions executed

editVars == <<pkt, edits>>

EditInit == pkt \in {packet_create(f, 1, FALSE) : f \in Frames} /\ edits = 0

\* A field is set only in a packet that has its header, and pop_mpls is given the type
\* of what it uncovers.
Fits(p, a) ==
    /\ a.k = "set_field" => Has(p, Needs(a.field))
    /\ a.k = "pop_mpls" /\ Has(p, "mpls") =>
          Beneath(p) <= Len(p.frame) /\ p.frame[Beneath(p)].k = a.type

Edit(a) ==
    /\ edits < MaxEdits
    /\ Fits(packet_handle_std_validate(pkt), a)
    /\ pkt' = dp_execute_action(pkt, a)
    /\ edits' = edits + 1

\* Somebody looks at the packet: a lookup in the next table or a message to the
\* controller.
Look ==
    /\ ~pkt.valid
    /\ pkt' = packet_handle_std_validate(pkt)
    /\ UNCHANGED edits

EditNext == (\E i \in DOMAIN Edits : Edit(Edits[i])) \/ Look

----------------------------------------------------------------------------
\* What the handle says is what is in the packet: every action that changes a
\* field that can be matched, or moves a header, makes the handle invalid
\* (packet_handle_std.h: "Set to true if the handler data is valid").
HandleFresh == pkt.valid => /\ pkt.proto = Protocols(pkt.frame)
                            /\ pkt.match = nblink_packet_parse(pkt.frame).match

\* The words that a checksum covers, added up, and the checksum itself make the
\* zero of ones-complement arithmetic: what a receiver verifies.
Verifies(csum, sum) == csum \in 0 .. WORD - 1 /\ (sum + csum) % (WORD - 1) = 0

\* Every IPv4 header has the checksum of its fields, also one that is now under
\* labels or tags: the actions correct it word by word (recalc_csum16()).
IpChecksumRight ==
    \A i \in DOMAIN pkt.frame :
        LET h == pkt.frame[i]
        IN h.k = "ip" =>
             Verifies(h.csum, Tos(h.dscp, h.ecn) + TtlProto(h.ttl, h.proto) + h.src + h.dst)

\* The checksum of TCP and UDP covers the ports and the addresses beneath: it is
\* right as long as the IP header names the protocol.
TransportChecksumRight ==
    \A i \in 2..Len(pkt.frame) :
        LET h == pkt.frame[i]  ip == pkt.frame[i - 1]
        IN h.k \in {"tcp", "udp"} /\ ip.proto = h.k =>
             Verifies(h.csum, h.sport + h.dport + ip.src + ip.dst)

\* A tag that is put on and taken off again leaves the packet as it was.
PopUndoesPush(p) ==
    /\ pop_vlan(packet_handle_std_validate(push_vlan(p, [type |-> "vlan"]))).frame = p.frame
    /\ pop_pbb(packet_handle_std_validate(push_pbb(p, [type |-> "pbb"]))).frame = p.frame
    /\ ~Has(p, "vlan") =>
          pop_mpls(packet_handle_std_validate(push_mpls(p, [type |-> "mpls"])),
                   [type |-> p.frame[1].type]).frame = p.frame
PushThenPop == PopUndoesPush(packet_handle_std_validate(pkt))
=============================================================================
