----------------------------- MODULE PacketStd -----------------------------
(***************************************************************************)
(* A packet in the datapath: its headers (packet.c), what the handle knows *)
(* of them (packet_handle_std.c, nbee_link.cpp and the encapsulations of   *)
(* customnetpdl.xml) and the actions that edit it (dp_actions.c).          *)
(*                                                                         *)
(* A frame is the sequence of its headers from the outermost.  The decoder *)
(* goes on as long as a header names the kind of the next one; what does   *)
(* not carry the type it is announced with is not decoded.  An address or  *)
(* a port is one word of the checksums that cover it.  eth_snap is never   *)
(* set by the decoder: the branches for SNAP are dead.                     *)
(***************************************************************************)
EXTENDS Integers, Sequences, SequencesExt, FiniteSets, TLC

Transport == {"tcp", "udp", "sctp", "icmp"}
OFPG_ANY == 0        \* no group (groups are numbered from 1)
VlanTypes == {"vlan", "svlan"}
Kind(type) == IF type \in VlanTypes THEN "vlan" ELSE type

\* The kinds that the decoder follows out of a header.
Encapsulated(kind) ==
    CASE kind = "eth" -> {"vlan", "mpls", "pbb", "ip", "ip6", "arp"}
      [] kind \in {"vlan", "pbb"} -> {"vlan", "pbb", "ip", "ip6", "arp"}
      [] kind \in {"ip", "ip6"} -> Transport
      [] OTHER -> {}

Announces(h) == IF h.k \in {"ip", "ip6"} THEN h.proto
                ELSE IF h.k \in {"eth", "vlan", "pbb"} THEN Kind(h.type) ELSE "data"

\* How many headers of the frame are decoded.
Decoded(frame) ==
    LET Follows(i) == /\ frame[i + 1].k = Announces(frame[i])
                      /\ frame[i + 1].k \in Encapsulated(frame[i].k)
    IN CHOOSE n \in 1..Len(frame) : /\ \A i \in 1..(n - 1) : Follows(i)
                                    /\ n = Len(frame) \/ ~Follows(n)

\* struct protocols_std: the first decoded header of each kind, 0 when there is
\* none, and the last VLAN tag.
NoProto == [k \in {"eth", "vlan", "vlan_last", "mpls", "pbb", "ip", "ip6", "arp"} \cup Transport |-> 0]
ProtocolsUpTo(n, frame) ==
    LET First(k) == IF \E i \in 1..n : frame[i].k = k
                    THEN CHOOSE i \in 1..n : frame[i].k = k /\ \A j \in 1..(i - 1) : frame[j].k # k
                    ELSE 0
        LastOf(k) == IF \E i \in 1..n : frame[i].k = k
                   THEN CHOOSE i \in 1..n : frame[i].k = k /\ \A j \in (i + 1)..n : frame[j].k # k
                   ELSE 0
    IN [k \in DOMAIN NoProto |-> IF k = "vlan_last" THEN LastOf("vlan") ELSE First(k)]
Protocols(frame) == ProtocolsUpTo(Decoded(frame), frame)

\* The match fields of a decoded header (IPV6_ECN_MASK selects the last bits of
\* the flow label).
FieldsOf(h) ==
    CASE h.k = "eth"  -> ("ETH_DST" :> h.dst) @@ ("ETH_SRC" :> h.src)
      [] h.k = "vlan" -> ("VLAN_VID" :> h.vid) @@ ("VLAN_PCP" :> h.pcp)
      [] h.k = "mpls" -> ("MPLS_LABEL" :> h.label) @@ ("MPLS_BOS" :> h.s)
      [] h.k = "pbb"  -> "PBB_ISID" :> h.isid
      [] h.k = "arp"  -> ("ARP_OP" :> h.op) @@ ("ARP_SPA" :> h.spa)
      [] h.k = "ip"   -> ("IP_DSCP" :> h.dscp) @@ ("IP_ECN" :> h.ecn) @@ ("IP_PROTO" :> h.proto)
                         @@ ("IPV4_SRC" :> h.src) @@ ("IPV4_DST" :> h.dst)
      [] h.k = "ip6"  -> ("IP_DSCP" :> h.dscp) @@ ("IP_ECN" :> h.flabel % 4) @@ ("IP_PROTO" :> h.proto)
                         @@ ("IPV6_SRC" :> h.src) @@ ("IPV6_DST" :> h.dst)
                         @@ ("IPV6_FLABEL" :> h.flabel)
      [] h.k = "tcp"  -> ("TCP_SRC" :> h.sport) @@ ("TCP_DST" :> h.dport)
      [] h.k = "udp"  -> ("UDP_SRC" :> h.sport) @@ ("UDP_DST" :> h.dport)
      [] h.k = "sctp" -> ("SCTP_SRC" :> h.sport) @@ ("SCTP_DST" :> h.dport)
      [] h.k = "icmp" -> ("ICMP_TYPE" :> h.type) @@ ("ICMP_CODE" :> h.code)

\* nblink_packet_parse(): the fields of the first header of each kind, and the
\* first EtherType that is not a VLAN's (nblink_extract_proto_fields()).
ParsedUpTo(n, frame, proto) ==
    LET seen == SelectSeq([i \in 1..n |-> i], LAMBDA i : proto[frame[i].k] = i)
        typed == SelectSeq([i \in 1..n |-> i],
                           LAMBDA i : /\ frame[i].k \in {"eth", "vlan", "pbb"}
                                      /\ frame[i].type \notin VlanTypes
                                      /\ frame[i].k = "vlan" \/ proto[frame[i].k] = i)
        type == IF typed = << >> THEN << >> ELSE "ETH_TYPE" :> frame[typed[1]].type
    IN [proto |-> proto,
        match |-> FoldLeft(LAMBDA f, i : f @@ FieldsOf(frame[i]), type, seen)]
nblink_packet_parse(frame) == ParsedUpTo(Decoded(frame), frame, Protocols(frame))

\* Metadata and tunnel identifier are no part of the frame: they are kept.
Valid(p, parsed) == [p EXCEPT !.valid = TRUE, !.proto = parsed.proto, !.match = parsed.match]
packet_handle_std_validate(p) == IF p.valid THEN p ELSE Valid(p, nblink_packet_parse(p.frame))

packet_handle_std_create(p) ==
    packet_handle_std_validate(
      p @@ [valid |-> FALSE, proto |-> NoProto, match |-> << >>, metadata |-> {}, tunnel_id |-> 0])

packet_create(frame, in_port, packet_out) ==
    packet_handle_std_create(
      [frame |-> frame, in_port |-> in_port, packet_out |-> packet_out,
       action_set |-> << >>, out_group |-> OFPG_ANY, out_port |-> "ANY", out_queue |-> 0,
       table_id |-> 0, table_miss |-> "unset", saved |-> FALSE])

\* The handle is parsed afresh: the clone has neither metadata nor tunnel_id, and
\* table_miss is what the memory held.
packet_clone(p) ==
    [packet_create(p.frame, p.in_port, p.packet_out) EXCEPT !.table_id = p.table_id]

packet_handle_std_is_ttl_valid(p) ==
    /\ p.proto["mpls"] # 0 => p.frame[p.proto["mpls"]].ttl > 1
    /\ p.proto["ip"] # 0 => p.frame[p.proto["ip"]].ttl >= 1

----------------------------------------------------------------------------
\* p with field f of its header of kind k set to v; k must be decoded.
With(p, k, f, v) == [p EXCEPT !.frame[p.proto[k]][f] = v]
Of(p, k, f) == p.frame[p.proto[k]][f]
Has(p, k) == p.proto[k] # 0

\* Ones-complement arithmetic on 16 bits, with the carry added in once.
WORD == 65536
ForgetsCarry(old_csum, old, new) ==
    WORD - 1 - (((WORD - 1 - old_csum) + (WORD - 1 - old) + new) % WORD)
recalc_csum16(old_csum, old, new) ==
    LET sum == (WORD - 1 - old_csum) + (WORD - 1 - old) + new
    IN WORD - 1 - ((sum + (sum \div WORD)) % WORD)

recalc_csum(p, k, old, new) == With(p, k, "csum", recalc_csum16(Of(p, k, "csum"), old, new))

\* The words of an IP header that the actions change.
Tos(dscp, ecn) == 4 * dscp + ecn
Code(proto) == CASE proto = "tcp" -> 1 [] proto = "udp" -> 2 [] proto = "sctp" -> 3
                 [] proto = "icmp" -> 4 [] OTHER -> 5
TtlProto(ttl, proto) == 8 * ttl + Code(proto)

\* set_field(), one definition for each group of fields.
set_field_eth(p, f, v) ==
    CASE f = "ETH_DST" -> With(p, "eth", "dst", v)
      [] f = "ETH_SRC" -> With(p, "eth", "src", v)
      [] f = "ETH_TYPE" -> With(p, "eth", "type", v)
      [] f = "VLAN_VID" -> IF Has(p, "vlan") THEN With(p, "vlan", "vid", v) ELSE p

\* IPV6_ECN_MASK is not shifted: the ECN is or-ed in and the last bits of the flow
\* label are cleared.
set_field_ecn6(p, v) ==
    LET h == p.frame[p.proto["ip6"]]
        Or(a, b) == 2 * (IF (a \div 2) + (b \div 2) > 0 THEN 1 ELSE 0)
                    + (IF (a % 2) + (b % 2) > 0 THEN 1 ELSE 0)
    IN With(With(p, "ip6", "ecn", Or(h.ecn, v)), "ip6", "flabel", 4 * (h.flabel \div 4))

set_field_tos(p, f, v) ==
    LET h4 == p.frame[p.proto["ip"]]
        dscp == IF f = "IP_DSCP" THEN v ELSE h4.dscp
        ecn == IF f = "IP_ECN" THEN v ELSE h4.ecn
    IN CASE Has(p, "ip") ->
              With(With(recalc_csum(p, "ip", Tos(h4.dscp, h4.ecn), Tos(dscp, ecn)),
                        "ip", "dscp", dscp), "ip", "ecn", ecn)
         [] ~Has(p, "ip") /\ Has(p, "ip6") /\ f = "IP_DSCP" -> With(p, "ip6", "dscp", v)
         [] ~Has(p, "ip") /\ Has(p, "ip6") /\ f = "IP_ECN" -> set_field_ecn6(p, v)
         [] OTHER -> p

\* Without a VLAN tag the case of VLAN_PCP runs on into the one of IP_DSCP.
set_field_pcp(p, v) ==
    IF Has(p, "vlan") THEN With(p, "vlan", "pcp", v) ELSE set_field_tos(p, "IP_DSCP", v)

set_field_proto(p, v) ==
    LET h == p.frame[p.proto["ip"]]
    IN With(recalc_csum(p, "ip", TtlProto(h.ttl, h.proto), TtlProto(h.ttl, v)), "ip", "proto", v)

\* The address goes into the checksum of TCP or UDP as well.
InTransport(p, old, new) ==
    CASE Has(p, "tcp") -> recalc_csum(p, "tcp", old, new)
      [] ~Has(p, "tcp") /\ Has(p, "udp") -> recalc_csum(p, "udp", old, new)
      [] OTHER -> p

ForgetsTransport(p, f, v) ==
    LET a == IF f = "IPV4_SRC" THEN "src" ELSE "dst"
    IN With(recalc_csum(p, "ip", Of(p, "ip", a), v), "ip", a, v)
set_field_ipv4(p, f, v) ==
    LET a == IF f = "IPV4_SRC" THEN "src" ELSE "dst"
    IN With(recalc_csum(InTransport(p, Of(p, "ip", a), v), "ip", Of(p, "ip", a), v), "ip", a, v)

set_field_ipv6(p, f, v) ==
    LET a == IF f = "IPV6_SRC" THEN "src" ELSE "dst"
    IN IF f = "IPV6_FLABEL" THEN With(p, "ip6", "flabel", v)
       ELSE With(InTransport(p, Of(p, "ip6", a), v), "ip6", a, v)

\* The checksum of SCTP is computed over the whole segment again.
set_field_port(p, f, v) ==
    LET k == CASE f \in {"TCP_SRC", "TCP_DST"} -> "tcp" [] f \in {"UDP_SRC", "UDP_DST"} -> "udp"
               [] OTHER -> "sctp"
        a == IF f \in {"TCP_SRC", "UDP_SRC", "SCTP_SRC"} THEN "sport" ELSE "dport"
        q == With(p, k, a, v)
    IN IF k = "sctp" THEN With(q, k, "csum", Of(q, k, "sport") + Of(q, k, "dport"))
       ELSE recalc_csum(q, k, Of(p, k, a), v)

set_field_icmp(p, f, v) ==
    LET a == IF f = "ICMP_TYPE" THEN "type" ELSE "code"
        w == IF f = "ICMP_TYPE" THEN 8 ELSE 1
    IN With(recalc_csum(p, "icmp", w * Of(p, "icmp", a), w * v), "icmp", a, v)

set_field_arp(p, f, v) == With(p, "arp", IF f = "ARP_OP" THEN "op" ELSE "spa", v)

set_field_mpls(p, f, v) == With(p, "mpls", IF f = "MPLS_LABEL" THEN "label" ELSE "s", v)

\* The second byte is written twice.
set_field_pbb(p, v) == With(p, "pbb", "isid", <<v[2], v[2], v[3]>>)

\* The header that a field is in must be decoded ("Field existence is guaranteed
\* by the field pre-requisite on matching").
Needs(f) ==
    CASE f \in {"IPV4_SRC", "IPV4_DST", "IP_PROTO"} -> "ip"
      [] f \in {"IPV6_SRC", "IPV6_DST", "IPV6_FLABEL"} -> "ip6"
      [] f \in {"TCP_SRC", "TCP_DST"} -> "tcp" [] f \in {"UDP_SRC", "UDP_DST"} -> "udp"
      [] f \in {"SCTP_SRC", "SCTP_DST"} -> "sctp" [] f \in {"ICMP_TYPE", "ICMP_CODE"} -> "icmp"
      [] f \in {"ARP_OP", "ARP_SPA"} -> "arp" [] f \in {"MPLS_LABEL", "MPLS_BOS"} -> "mpls"
      [] f = "PBB_ISID" -> "pbb" [] OTHER -> "eth"

SetIn(p, f, v) ==
    CASE f \in {"ETH_DST", "ETH_SRC", "ETH_TYPE", "VLAN_VID"} -> set_field_eth(p, f, v)
      [] f = "VLAN_PCP" -> set_field_pcp(p, v)
      [] f \in {"IP_DSCP", "IP_ECN"} -> set_field_tos(p, f, v)
      [] f = "IP_PROTO" -> set_field_proto(p, v)
      [] f \in {"IPV4_SRC", "IPV4_DST"} -> set_field_ipv4(p, f, v)
      [] f \in {"IPV6_SRC", "IPV6_DST", "IPV6_FLABEL"} -> set_field_ipv6(p, f, v)
      [] Needs(f) \in {"tcp", "udp", "sctp"} -> set_field_port(p, f, v)
      [] Needs(f) = "icmp" -> set_field_icmp(p, f, v)
      [] Needs(f) = "arp" -> set_field_arp(p, f, v)
      [] Needs(f) = "mpls" -> set_field_mpls(p, f, v)
      [] f = "PBB_ISID" -> set_field_pbb(p, v)
      [] f = "TUNNEL_ID" -> [p EXCEPT !.tunnel_id = v]
KeepsHandle(p, a) == SetIn(p, a.field, a.value)
set_field(p, a) == [SetIn(p, a.field, a.value) EXCEPT !.valid = FALSE]

----------------------------------------------------------------------------
\* The TTL actions; what follows the last label is recognised by its version.
Beneath(p) == p.proto["mpls"] + 1
Labelled(p) == Has(p, "mpls") /\ Beneath(p) <= Len(p.frame)
               /\ p.frame[Beneath(p)].k \in
                    (IF Of(p, "mpls", "s") = 0 THEN {"mpls"} ELSE {"ip", "ip6"})

copy_ttl_out(p) ==
    IF Labelled(p) THEN With(p, "mpls", "ttl", p.frame[Beneath(p)].ttl) ELSE p

copy_ttl_in(p) ==
    LET i == Beneath(p)
        ttl == Of(p, "mpls", "ttl")
    IN IF ~Labelled(p) THEN p
       ELSE [p EXCEPT !.frame[i] =
               IF @.k = "ip"
               THEN [@ EXCEPT !.ttl = ttl,
                              !.csum = recalc_csum16(@, TtlProto(p.frame[i].ttl, p.frame[i].proto),
                                                     TtlProto(ttl, p.frame[i].proto))]
               ELSE [@ EXCEPT !.ttl = ttl]]

set_mpls_ttl(p, a) ==
    IF Has(p, "mpls") THEN With(p, "mpls", "ttl", a.ttl) ELSE p

dec_mpls_ttl(p) ==
    IF Has(p, "mpls") /\ Of(p, "mpls", "ttl") > 0
       THEN With(p, "mpls", "ttl", Of(p, "mpls", "ttl") - 1) ELSE p

TtlAlone(p, ttl) ==
    CASE Has(p, "ip") -> With(p, "ip", "ttl", ttl)
      [] ~Has(p, "ip") /\ Has(p, "ip6") -> With(p, "ip6", "ttl", ttl)
      [] OTHER -> p
NwTtl(p, ttl) ==
    LET h == p.frame[p.proto["ip"]]
    IN CASE Has(p, "ip") ->
              With(recalc_csum(p, "ip", TtlProto(h.ttl, h.proto), TtlProto(ttl, h.proto)),
                   "ip", "ttl", ttl)
         [] ~Has(p, "ip") /\ Has(p, "ip6") -> With(p, "ip6", "ttl", ttl)
         [] OTHER -> p

set_nw_ttl(p, a) == NwTtl(p, a.ttl)

dec_nw_ttl(p) ==
    LET k == IF Has(p, "ip") THEN "ip" ELSE "ip6"
    IN IF Has(p, k) /\ Of(p, k, "ttl") > 0 THEN NwTtl(p, Of(p, k, "ttl") - 1) ELSE p

----------------------------------------------------------------------------
\* The tags.  A new VLAN tag or PBB header goes behind the Ethernet header, a new
\* label behind the last VLAN tag.
Insert(p, i, h) ==
    [p EXCEPT !.frame = SubSeq(p.frame, 1, i) \o <<h>> \o SubSeq(p.frame, i + 1, Len(p.frame)),
              !.valid = FALSE]
Cut(p, i) == [p EXCEPT !.frame = RemoveAt(p.frame, i), !.valid = FALSE]

push_vlan(p, a) ==
    LET tag == [k |-> "vlan", type |-> Of(p, "eth", "type"),
                vid |-> IF Has(p, "vlan") THEN Of(p, "vlan", "vid") ELSE 0,
                pcp |-> IF Has(p, "vlan") THEN Of(p, "vlan", "pcp") ELSE 0]
    IN Insert(With(p, "eth", "type", a.type), 1, tag)

pop_vlan(p) ==
    IF ~Has(p, "vlan") THEN p
       ELSE Cut(With(p, "eth", "type", Of(p, "vlan", "type")), p.proto["vlan"])

\* The label's fields come from the label or the IP header beneath.
push_mpls(p, a) ==
    LET ttl == CASE Has(p, "ip") -> Of(p, "ip", "ttl")
                 [] ~Has(p, "ip") /\ Has(p, "ip6") -> Of(p, "ip6", "ttl")
                 [] OTHER -> 0
        label == IF Has(p, "mpls") THEN [p.frame[p.proto["mpls"]] EXCEPT !.s = 0]
                 ELSE [k |-> "mpls", label |-> 0, s |-> 1, ttl |-> ttl]
        last == IF Has(p, "vlan_last") THEN p.proto["vlan_last"] ELSE 1
    IN Insert([p EXCEPT !.frame[last].type = a.type], last, label)

pop_mpls(p, a) ==
    LET last == IF Has(p, "vlan_last") THEN p.proto["vlan_last"] ELSE 1
    IN IF ~Has(p, "mpls") THEN p
       ELSE Cut([p EXCEPT !.frame[last].type = a.type], p.proto["mpls"])

\* The identifier of the old PBB header, masked by the VLAN tag if there is one (in
\* the model a byte is 0 or 1).
push_pbb(p, a) ==
    LET eth == p.frame[1]
        id == IF Has(p, "pbb") THEN Of(p, "pbb", "isid") ELSE <<0, 0, 0>>
        pbb == [k |-> "pbb", src |-> eth.src, dst |-> eth.dst, type |-> eth.type,
                isid |-> IF Has(p, "vlan") THEN <<0, 0, id[3] * Of(p, "vlan", "vid")>> ELSE id]
    IN Insert(With(p, "eth", "type", a.type), 1, pbb)

\* What is behind the identifier becomes the Ethernet header.
pop_pbb(p) ==
    LET i == p.proto["pbb"]
        h == p.frame[i]
    IN IF ~Has(p, "pbb") THEN p
       ELSE [p EXCEPT !.frame = <<[k |-> "eth", src |-> h.src, dst |-> h.dst, type |-> h.type]>>
                                \o SubSeq(p.frame, i + 1, Len(p.frame)),
                      !.valid = FALSE]

----------------------------------------------------------------------------
\* dp_execute_action(): the output actions only note where the packet is to go.
output(p, a) == [p EXCEPT !.out_port = a.port]
group(p, a) == [p EXCEPT !.out_group = a.group]
set_queue(p, a) == [p EXCEPT !.out_queue = a.queue]

\* All others look at the handle first, and find it valid.
Edited(p, a) ==
    CASE a.k = "set_field" -> set_field(p, a)
      [] a.k = "copy_ttl_out" -> copy_ttl_out(p)
      [] a.k = "copy_ttl_in" -> copy_ttl_in(p)
      [] a.k = "set_mpls_ttl" -> set_mpls_ttl(p, a)
      [] a.k = "dec_mpls_ttl" -> dec_mpls_ttl(p)
      [] a.k = "set_nw_ttl" -> set_nw_ttl(p, a)
      [] a.k = "dec_nw_ttl" -> dec_nw_ttl(p)
      [] a.k = "push_vlan" -> push_vlan(p, a)
      [] a.k = "pop_vlan" -> pop_vlan(p)
      [] a.k = "push_mpls" -> push_mpls(p, a)
      [] a.k = "pop_mpls" -> pop_mpls(p, a)
      [] a.k = "push_pbb" -> push_pbb(p, a)
      [] a.k = "pop_pbb" -> pop_pbb(p)

dp_execute_action(p, a) ==
    CASE a.k = "output" -> output(p, a)
      [] a.k = "group" -> group(p, a)
      [] a.k = "set_queue" -> set_queue(p, a)
      [] OTHER -> Edited(packet_handle_std_validate(p), a)
=============================================================================
