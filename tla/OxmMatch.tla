------------------------------ MODULE OxmMatch ------------------------------
(***************************************************************************)
(* oflib/oxm-match.c and ofl-structs-match.c: the OXM fields of a match,   *)
(* packed and unpacked.                                                    *)
(*                                                                         *)
(* A match has the number of bytes of its TLVs (match.header.length) and   *)
(* its TLVs in the order in which HMAP_FOR_EACH() meets them, which is any *)
(* order.  A header is the name of a field and its has_mask bit.           *)
(*                                                                         *)
(* First what all pack and unpack functions of oflib have in common.       *)
(* Packed bytes are cells at byte offsets.  A cell is a C structure, or    *)
(* the part of one that a function fills: its size and its fields.  A      *)
(* field in network byte order is <<bits, value>>; a field copied byte by  *)
(* byte is the value.  A field read with another width, or at an offset    *)
(* where no structure starts, is Garbled.                                  *)
(*                                                                         *)
(* A cursor is what an unpack function is given: a pointer (at, off) and   *)
(* the number of bytes left, *len.                                         *)
(***************************************************************************)
EXTENDS Integers, Sequences, SequencesExt, TLC, Bitwise

Garbled == 65535

\* size_t subtraction; SIZE_T stands for 2^64.
SIZE_T == 1048576
Less(n, k) == (n - k) % SIZE_T

RoundUp8(n) == ((n + 7) \div 8) * 8

----------------------------------------------------------------------------
\* Writing.  hton*() of the fields F of s, and memcpy() of them.
Order(bits, F, s) == [f \in F |-> <<bits, s[f]>>]
Htons(F, s) == Order(16, F, s)
Htonl(F, s) == Order(32, F, s)
Hton64(F, s) == Order(64, F, s)
Bytes(F, s) == [f \in F |-> s[f]]

\* The bytes of one structure; nothing; b written at the offset off.
Struct(size, fields) == [len |-> size, at |-> 0 :> [size |-> size, fields |-> fields]]
Nothing == [len |-> 0, at |-> << >>]
At(off, b) == [o \in {off + p : p \in DOMAIN b.at} |-> b.at[o - off]]

\* A buffer of len bytes with the cells written to it.
Buffer(len, at) == [len |-> len, at |-> at]

\* Every item after the bytes that the one before it returned.
PackAll(Pack(_), items) ==
    LET Then(b, p) == Buffer(b.len + p.len, b.at @@ At(b.len, p))
    IN FoldLeft(LAMBDA b, x : Then(b, Pack(x)), Nothing, items)

TotalLen(Len1(_), items) == FoldLeft(LAMBDA n, x : n + Len1(x), 0, items)

\* No structure is written past the end of the buffer, none over another.
Fits(b) ==
    \A o \in DOMAIN b.at :
        /\ o + b.at[o].size <= b.len
        /\ \A p \in DOMAIN b.at : o < p => o + b.at[o].size <= p

----------------------------------------------------------------------------
\* Reading.
Cursor(b) == [at |-> b.at, off |-> 0, len |-> b.len]
Skip(c, n) == [c EXCEPT !.off = @ + n]
Take(c, n) == [c EXCEPT !.off = @ + n, !.len = Less(@, n)]
Limit(c, n) == [c EXCEPT !.len = n]

Has(c, f) == c.off \in DOMAIN c.at /\ f \in DOMAIN c.at[c.off].fields
Field(c, f) == IF Has(c, f) THEN c.at[c.off].fields[f] ELSE Garbled

Host(bits, c, f) == IF Has(c, f) /\ Field(c, f)[1] = bits THEN Field(c, f)[2] ELSE Garbled
ntohs(c, f) == Host(16, c, f)
ntohl(c, f) == Host(32, c, f)
Ntohs(F, c) == [f \in F |-> ntohs(c, f)]
Ntohl(F, c) == [f \in F |-> ntohl(c, f)]
Ntoh64(F, c) == [f \in F |-> Host(64, c, f)]
Copied(F, c) == [f \in F |-> Field(c, f)]

\* What an unpack function leaves: an error or 0, the value and *len.
OK == "0"
Done(v, len) == [err |-> OK, v |-> v, len |-> len]
Failed(e) == [err |-> e, v |-> Garbled, len |-> 0]
BAD_LEN == Failed("BAD_LEN")

\* The value V of what was unpacked, with the bytes that are left.
As(r, V(_)) == IF r.err # OK THEN Failed(r.err) ELSE Done(V(r.v), r.len)

\* n items one after the other: each unpack takes its bytes from *len, and the
\* pointer moves by Step, which the caller reads from the item.
Unpacked(r, u, step) ==
    IF u.err # OK THEN [r EXCEPT !.err = u.err]
    ELSE [err |-> OK, v |-> Append(r.v, u.v), c |-> Limit(Skip(r.c, step), u.len)]
Result(r) == [err |-> r.err, v |-> r.v, len |-> r.c.len]
UnpackN(Unpack(_), Step(_), c, n) ==
    Result(FoldLeft(LAMBDA r, i : IF r.err # OK THEN r ELSE Unpacked(r, Unpack(r.c), Step(r.c)),
                    [err |-> OK, v |-> << >>, c |-> c], [i \in 1..n |-> i]))

\* The counting loop of the ofl_utils_count_*() functions: while `more' bytes are
\* left, an item that is Len1 bytes long, not less than `least', and Step apart.
CountItems(Len1(_), Step(_), least, more, c) ==
    LET Bad(left, n) == left < n \/ n < least
        RECURSIVE From(_)
        From(r) ==
          CASE r.c.len < more -> r
            [] r.c.len >= more /\ Bad(r.c.len, Len1(r.c)) -> [r EXCEPT !.err = "BAD_LEN"]
            [] OTHER -> From([r EXCEPT !.n = @ + 1, !.c = Take(@, Step(r.c))])
    IN From([err |-> OK, n |-> 0, c |-> c])

\* The items that were counted.
UnpackCounted(Unpack(_), Step(_), c, k) ==
    IF k.err # OK THEN Failed(k.err) ELSE UnpackN(Unpack, Step, c, k.n)

\* The end of an unpack function that gave all bytes of a structure to a list.
Whole(r, V(_), len) ==
    CASE r.err # OK -> Failed(r.err)
      [] r.len # 0 -> BAD_LEN
      [] OTHER -> Done(V(r.v), len)

-----------------------------------------------------------------------------
(* Match fields *)

ETH_IP == 2048
ETH_IPV6 == 34525
ETH_ARP == 2054
ETH_MPLS == 34887
ETH_MPLS_MCAST == 34888
ETH_PBB == 35047
ETH_EHDDP == 65450
ICMP == 1
ICMPV6 == 58
TCP == 6
UDP == 17
SCTP == 132
NEIGHSOL == 135
NEIGHADV == 136
OFPVID_NONE == 0
VLAN_VID_LAST == 4096 + 4095

F(len, dl, proto, maskable) == [len |-> len, dl |-> dl, proto |-> proto, maskable |-> maskable]
IP_ANY == {ETH_IP, ETH_IPV6}

EhddpLength ==
    [EHDDP_FLAGS |-> 1, EHDDP_OPCODE |-> 1, EHDDP_NUM_DEVICE |-> 1, EHDDP_NUM_SEC |-> 8,
     EHDDP_PRE_MAC_SIZ |-> 1, EHDDP_PRE_MAC |-> 6, EHDDP_NUM_ACK |-> 8, EHDDP_SRC_MAC |-> 6,
     EHDDP_LAS_MAC |-> 6, EHDDP_TIM_BLO |-> 4, EHDDP_CONFIG |-> 1, EHDDP_TYPE_DEVICE |-> 2,
     EHDDP_IDS |-> 8, EHDDP_IN_PORTS |-> 4, EHDDP_OUT_PORTS |-> 4]

\* all_fields[]: payload bytes, Ethernet types, IP protocol, and whether the
\* field also has a header with a mask.
all_fields ==
    [IN_PORT |-> F(4, {}, 0, FALSE), IN_PHY_PORT |-> F(4, {}, 0, FALSE),
     METADATA |-> F(8, {}, 0, TRUE), ETH_DST |-> F(6, {}, 0, TRUE),
     ETH_SRC |-> F(6, {}, 0, TRUE), ETH_TYPE |-> F(2, {}, 0, FALSE),
     VLAN_VID |-> F(2, {}, 0, TRUE), VLAN_PCP |-> F(1, {}, 0, FALSE),
     PBB_ISID |-> F(3, {ETH_PBB}, 0, TRUE),
     MPLS_LABEL |-> F(4, {ETH_MPLS, ETH_MPLS_MCAST}, 0, FALSE),
     MPLS_TC |-> F(1, {ETH_MPLS, ETH_MPLS_MCAST}, 0, FALSE),
     MPLS_BOS |-> F(1, {ETH_MPLS, ETH_MPLS_MCAST}, 0, FALSE),
     IP_DSCP |-> F(1, IP_ANY, 0, FALSE), IP_ECN |-> F(1, IP_ANY, 0, FALSE),
     IPV4_SRC |-> F(4, {ETH_IP}, 0, TRUE), IPV4_DST |-> F(4, {ETH_IP}, 0, TRUE),
     IPV6_SRC |-> F(16, {ETH_IPV6}, 0, TRUE), IPV6_DST |-> F(16, {ETH_IPV6}, 0, TRUE),
     IPV6_FLABEL |-> F(4, {ETH_IPV6}, 0, TRUE), IPV6_EXTHDR |-> F(2, {ETH_IPV6}, 0, TRUE),
     IP_PROTO |-> F(1, IP_ANY, 0, FALSE),
     TCP_SRC |-> F(2, IP_ANY, TCP, FALSE), TCP_DST |-> F(2, IP_ANY, TCP, FALSE),
     UDP_SRC |-> F(2, IP_ANY, UDP, FALSE), UDP_DST |-> F(2, IP_ANY, UDP, FALSE),
     SCTP_SRC |-> F(2, IP_ANY, SCTP, FALSE), SCTP_DST |-> F(2, IP_ANY, SCTP, FALSE),
     ARP_OP |-> F(2, {ETH_ARP}, 0, FALSE),
     ARP_SPA |-> F(4, {ETH_ARP}, 0, TRUE), ARP_TPA |-> F(4, {ETH_ARP}, 0, TRUE),
     ARP_SHA |-> F(6, {ETH_ARP}, 0, TRUE), ARP_THA |-> F(6, {ETH_ARP}, 0, TRUE),
     ICMPV4_TYPE |-> F(1, {ETH_IP}, ICMP, FALSE), ICMPV4_CODE |-> F(1, {ETH_IP}, ICMP, FALSE),
     ICMPV6_TYPE |-> F(1, {ETH_IPV6}, ICMPV6, FALSE),
     ICMPV6_CODE |-> F(1, {ETH_IPV6}, ICMPV6, FALSE),
     IPV6_ND_TARGET |-> F(16, {ETH_IPV6}, ICMPV6, FALSE),
     IPV6_ND_SLL |-> F(6, {ETH_IPV6}, ICMPV6, FALSE),
     IPV6_ND_TLL |-> F(6, {ETH_IPV6}, ICMPV6, FALSE),
     TUNNEL_ID |-> F(8, {}, 0, TRUE)]
    @@ [f \in DOMAIN EhddpLength |-> F(EhddpLength[f], {ETH_EHDDP}, 0, FALSE)]

Addresses == {"IPV4_SRC", "IPV4_DST", "ARP_SPA", "ARP_TPA"}

OXM_LENGTH(h) == (IF h[2] THEN 2 ELSE 1) * all_fields[h[1]].len

\* oxm_field_lookup(): only the fields defined with DEFINE_FIELD_M have a
\* header with a mask.
oxm_field_lookup(h) == h[1] \in DOMAIN all_fields /\ (h[2] => all_fields[h[1]].maskable)

----------------------------------------------------------------------------
\* ofl_structs_match_init(), and the TLVs of m with a header.
EmptyMatch == [length |-> 0, tlvs |-> << >>]
With(m, f) == SelectSeq(m.tlvs, LAMBDA t : t.header = <<f, FALSE>>)
Tlv(h, value, mask) == [header |-> h, value |-> value, mask |-> mask]

\* ofl_structs_match_put8(), ..., ofl_structs_match_put_ipv6m(): a value of len
\* bytes, and a mask of as many where the function has one.
match_put(m, h, len, value, mask) ==
    [length |-> m.length + 4 + (IF h[2] THEN 2 * len ELSE len),
     tlvs |-> Append(m.tlvs, Tlv(h, value, mask))]

\* oxm_prereqs_ok() of the field f, for the TLVs already in m.
PrereqsOk(f, field, m) ==
    LET type == With(m, "ICMPV6_TYPE")
        Is(v) == type # << >> /\ \A i \in DOMAIN type : type[i].value = v
        proto == With(m, "IP_PROTO")
        eth == With(m, "ETH_TYPE")
    IN /\ f \in {"IPV6_ND_SLL", "IPV6_ND_TARGET"} => Is(NEIGHSOL)
       /\ f = "IPV6_ND_TLL" => Is(NEIGHADV)
       /\ field.proto # 0 =>
             proto # << >> /\ \A i \in DOMAIN proto : proto[i].value = field.proto
       /\ field.dl # {} => \E i \in DOMAIN eth : eth[i].value \in field.dl
oxm_prereqs_ok(f, m) == PrereqsOk(f, all_fields[f], m)

check_bad_wildcard(value, mask) == value # value & mask

\* parse_oxm_entry(): the value of the TLV at c goes to m in host order.
\* IN_PHY_PORT has no return and goes on into METADATA; the mask of PBB_ISID_W
\* is the address of a pointer; the fields of eHDDP are left out.
ParseEntry(m, h, len, c) ==
    LET f == h[1]
        Get(x) == IF f \in Addresses \/ len \in {1, 3, 6, 16} THEN Field(c, x)
                  ELSE Host(8 * len, c, x)
        value == Get("value")
        mask == IF h[2] THEN Get("mask") ELSE 0
        Fail(e) == [err |-> e, m |-> m]
        Put(n, v, k) == [err |-> OK, m |-> match_put(m, h, n, v, k)]
    IN CASE f = "IN_PHY_PORT" ->
              IF With(m, "IN_PORT") = << >> THEN Fail("BAD_PREREQ")
              ELSE [err |-> OK,
                    m |-> match_put(match_put(m, h, 4, value, 0), h, 8, Garbled, 0)]
         [] f = "VLAN_PCP" ->
              IF With(m, "VLAN_VID") = << >> THEN Fail("BAD_PREREQ")
              ELSE IF With(m, "VLAN_VID")[1].value = OFPVID_NONE THEN [err |-> OK, m |-> m]
              ELSE Put(1, value, 0)
         [] f \in DOMAIN EhddpLength -> [err |-> OK, m |-> m]
         [] h[2] /\ f # "IPV6_EXTHDR" /\ check_bad_wildcard(value, mask) ->
              Fail("BAD_WILDCARDS")
         [] f = "VLAN_VID" /\ value > VLAN_VID_LAST -> Fail("BAD_VALUE")
         [] f = "IP_DSCP" /\ value & 192 # 0 -> Fail("BAD_VALUE")
         [] h = <<"PBB_ISID", TRUE>> -> Put(6, value, Garbled)
         [] OTHER -> Put(len, value, mask)
parse_oxm_entry(m, h, c) == ParseEntry(m, h, all_fields[h[1]].len, c)

\* oxm_entry_ok(): the header at c, or NoHeader.
NoHeader == <<"", FALSE>>
oxm_entry_ok(c) ==
    LET Whole1(h) == IF c.len < OXM_LENGTH(h) + 4 THEN NoHeader ELSE h
    IN IF c.len <= 4 \/ ~Has(c, "header") THEN NoHeader ELSE Whole1(ntohl(c, "header"))

\* oxm_pull_match() of c.len bytes.
RECURSIVE PullFrom(_, _)
PullEntry(c, m, h) ==
    LET Fail(e) == [err |-> e, m |-> m]
        Next(e) == IF e.err # OK THEN Fail(e.err) ELSE PullFrom(Take(c, 4 + OXM_LENGTH(h)), e.m)
    IN CASE h = NoHeader -> Fail(IF c.len = 0 THEN OK ELSE "BAD_LEN")
         [] h # NoHeader /\ ~oxm_field_lookup(h) -> Fail("BAD_FIELD")
         [] h # NoHeader /\ oxm_field_lookup(h) /\ ~oxm_prereqs_ok(h[1], m) -> Fail("BAD_PREREQ")
         [] OTHER -> IF \E i \in DOMAIN m.tlvs : m.tlvs[i].header = h THEN Fail("DUP_FIELD")
                     ELSE Next(parse_oxm_entry(m, h, c))
PullFrom(c, m) == PullEntry(c, m, oxm_entry_ok(c))

oxm_pull_match(c) == PullFrom(c, EmptyMatch)

----------------------------------------------------------------------------
\* oxm_put_8(), ..., oxm_put_ipv6m(): the header and the value, in the order
\* that oxm_put_match() gives it, and the mask.  oxm_put_8w() puts a mask of 16
\* bits.
PutField(t, f, len) ==
    LET Swap(x) == IF f \in Addresses \/ len \in {1, 3, 6, 16} THEN x ELSE <<8 * len, x>>
        header == [header |-> <<32, t.header>>]
    IN IF t.header[2]
       THEN Struct(4 + (IF len = 1 THEN 3 ELSE 2 * len),
                   header @@ [value |-> Swap(t.value), mask |-> Swap(t.mask)])
       ELSE Struct(4 + len, header @@ [value |-> Swap(t.value)])
oxm_put(t) == PutField(t, t.header[1], all_fields[t.header[1]].len)

Requisites == <<"IN_PORT", "ETH_TYPE", "VLAN_VID", "IP_PROTO", "ICMPV6_TYPE">>
is_requisite(h) == \E i \in DOMAIN Requisites : h = <<Requisites[i], FALSE>>

\* oxm_put_match(): the fields that others require first, in this order.
oxm_put_match(m) ==
    PackAll(oxm_put, FlattenSeq([i \in DOMAIN Requisites |-> With(m, Requisites[i])])
                     \o SelectSeq(m.tlvs, LAMBDA t : ~is_requisite(t.header)))

\* ofl_structs_match_pack() at a structure ofp_match: the bytes written, and the
\* ones it returns (the pointer to the fields that it is given is not used).
ofl_structs_match_pack(m) ==
    LET Start(n) == Struct(4, [type |-> <<16, "OXM">>, length |-> <<16, n>>])
        Match(b) == Buffer(b.len + 4, Start(b.len + 4).at @@ At(4, b))
    IN IF m.length = 0 THEN Buffer(0, Start(4).at) ELSE Match(oxm_put_match(m))

\* ofl_structs_oxm_match_unpack() at a structure ofp_match: *len is not compared
\* with the length of the match before it is decreased.
ofl_structs_oxm_match_unpack(c) ==
    LET n == ntohs(c, "length")
        left == Less(c.len, RoundUp8(n))
        Match(r) == IF r.err # OK THEN Failed(r.err) ELSE Done([r.m EXCEPT !.length = n - 4], left)
    IN IF n <= 8 THEN Done(EmptyMatch, left) ELSE Match(oxm_pull_match(Limit(Skip(c, 4), n - 4)))

ofl_structs_match_unpack(c) ==
    IF ntohs(c, "type") = "OXM" THEN ofl_structs_oxm_match_unpack(c) ELSE Failed("BAD_TYPE")
=============================================================================
