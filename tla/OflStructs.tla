----------------------------- MODULE OflStructs -----------------------------
(***************************************************************************)
(* The parts of OpenFlow messages, packed and unpacked by                  *)
(* oflib/ofl-actions*.c and ofl-structs*.c: actions, instructions, the     *)
(* features of tables, groups, meters, statistics, ports and queues.       *)
(* Sizes are the ones that include/openflow/openflow.h asserts.            *)
(*                                                                         *)
(* An action is a record with its type.  Experimenter actions have no      *)
(* callback in any of the programs, and unpacking one is an error.  The    *)
(* reserved numbers keep their order; they stand for 0xffffff00 and the    *)
(* numbers above it.                                                       *)
(***************************************************************************)
EXTENDS OxmMatch

OFPP_MAX == 1000
OFPP_IN_PORT == 1008
OFPP_LOCAL == 1014
OFPP_ANY == 1015
OFPG_MAX == 1000
ETH_VLAN == 33024
ETH_VLAN_PBB == 34984

Plain == {"COPY_TTL_OUT", "COPY_TTL_IN", "DEC_MPLS_TTL", "POP_VLAN", "POP_PBB", "DEC_NW_TTL"}
Push == {"PUSH_VLAN", "PUSH_MPLS", "PUSH_PBB"}

ofl_actions_ofp_len(a) ==
    CASE a.type = "OUTPUT" -> 16
      [] a.type = "SET_FIELD" -> 8 + RoundUp8(OXM_LENGTH(a.field.header))
      [] OTHER -> 8

ofl_actions_ofp_total_len(actions) == TotalLen(ofl_actions_ofp_len, actions)

\* The four fields that stay in network order in memory.
InNetworkOrder(h) == OXM_LENGTH(h) \in {1, 3, 6, 16} \/ h[1] \in Addresses
FieldOrder(h, x) == IF InNetworkOrder(h) THEN x ELSE <<8 * OXM_LENGTH(h), x>>

\* ofl_actions_pack(): the value of a SET_FIELD goes after the structure, which
\* holds the OXM header.
ofl_actions_pack(a) ==
    LET header(n) == [type |-> <<16, a.type>>, len |-> <<16, n>>]
        n == 8 + RoundUp8(OXM_LENGTH(a.field.header))
    IN CASE a.type = "OUTPUT" ->
              Struct(16, header(16) @@ Htonl({"port"}, a) @@ Htons({"max_len"}, a))
         [] a.type \in Plain -> Struct(8, header(8))
         [] a.type = "SET_MPLS_TTL" -> Struct(8, header(8) @@ Bytes({"mpls_ttl"}, a))
         [] a.type \in Push \cup {"POP_MPLS"} ->
              Struct(8, header(8) @@ Htons({"ethertype"}, a))
         [] a.type = "SET_QUEUE" -> Struct(8, header(8) @@ Htonl({"queue_id"}, a))
         [] a.type = "GROUP" -> Struct(8, header(8) @@ Htonl({"group_id"}, a))
         [] a.type = "SET_NW_TTL" -> Struct(8, header(8) @@ Bytes({"nw_ttl"}, a))
         [] a.type = "SET_FIELD" ->
              Buffer(n, Struct(8, header(n) @@ [field |-> <<32, a.field.header>>]).at
                        @@ At(8, Struct(OXM_LENGTH(a.field.header),
                                        [value |-> FieldOrder(a.field.header, a.field.value)])))

----------------------------------------------------------------------------
ofl_utils_count_ofp_actions(c) ==
    CountItems(LAMBDA x : ntohs(x, "len"), LAMBDA x : ntohs(x, "len"), 4, 4, c)

BadOutPort(port) ==
    port = 0 \/ (port > OFPP_MAX /\ port < OFPP_IN_PORT) \/ port = OFPP_ANY

BadPush(type, ethertype) ==
    CASE type = "PUSH_VLAN" -> ethertype \notin {ETH_VLAN, ETH_VLAN_PBB}
      [] type = "PUSH_MPLS" -> ethertype \notin {ETH_MPLS, ETH_MPLS_MCAST}
      [] OTHER -> ethertype # ETH_PBB

\* The case OFPAT_SET_FIELD of ofl_actions_unpack().
unpack_set_field(c) ==
    LET h == ntohl(c, "field")
        at == Skip(c, 8)
    IN IF h \in {<<"IN_PORT", FALSE>>, <<"IN_PHY_PORT", FALSE>>, <<"METADATA", FALSE>>,
                 <<"IPV6_EXTHDR", FALSE>>}
       THEN Failed("BAD_SET_TYPE")
       ELSE Done([type |-> "SET_FIELD",
                  field |-> [header |-> h,
                             value |-> IF InNetworkOrder(h) THEN Field(at, "value")
                                       ELSE Host(8 * OXM_LENGTH(h), at, "value")]],
                 Less(c.len, RoundUp8(ntohs(c, "len"))))

ofl_actions_unpack(c) ==
    LET type == ntohs(c, "type")
        n == ntohs(c, "len")
        Sized(size, fields) == IF c.len < size THEN BAD_LEN
                            ELSE Done([type |-> type] @@ fields, Less(c.len, size))
    IN CASE c.len < 8 \/ c.len < n \/ n % 8 # 0 -> BAD_LEN
         [] type = "OUTPUT" ->
              IF BadOutPort(ntohl(c, "port")) THEN Failed("BAD_OUT_PORT")
              ELSE Sized(16, Ntohl({"port"}, c) @@ Ntohs({"max_len"}, c))
         [] type \in Plain -> Sized(8, << >>)
         [] type = "SET_MPLS_TTL" -> Sized(8, Copied({"mpls_ttl"}, c))
         [] type \in Push ->
              IF BadPush(type, ntohs(c, "ethertype")) THEN Failed("BAD_ARGUMENT")
              ELSE Sized(8, Ntohs({"ethertype"}, c))
         [] type = "POP_MPLS" -> Sized(8, Ntohs({"ethertype"}, c))
         [] type = "SET_QUEUE" -> Sized(8, Ntohl({"queue_id"}, c))
         [] type = "GROUP" ->
              IF ntohl(c, "group_id") > OFPG_MAX THEN Failed("BAD_OUT_GROUP")
              ELSE Sized(8, Ntohl({"group_id"}, c))
         [] type = "SET_NW_TTL" -> Sized(8, Copied({"nw_ttl"}, c))
         [] type = "SET_FIELD" -> unpack_set_field(c)
         [] OTHER -> Failed("BAD_TYPE")

\* The actions in the c.len bytes at c, as every caller unpacks them.
unpack_actions(c) ==
    UnpackCounted(ofl_actions_unpack, LAMBDA x : ntohs(x, "len"), c,
                  ofl_utils_count_ofp_actions(c))

----------------------------------------------------------------------------
\* 64 in the code.
PIPELINE_TABLES == 4

WriteOrApply == {"WRITE_ACTIONS", "APPLY_ACTIONS"}

----------------------------------------------------------------------------
\* Instructions.
MetadataWithoutMask(i) ==
    CASE i.type = "WRITE_METADATA" -> 16
      [] i.type \in WriteOrApply -> 8 + ofl_actions_ofp_total_len(i.actions)
      [] OTHER -> 8
ofl_structs_instructions_ofp_len(i) ==
    CASE i.type = "WRITE_METADATA" -> 24
      [] i.type \in WriteOrApply -> 8 + ofl_actions_ofp_total_len(i.actions)
      [] OTHER -> 8

ofl_structs_instructions_ofp_total_len(is) == TotalLen(ofl_structs_instructions_ofp_len, is)

ofl_structs_instructions_pack(i) ==
    LET header(n) == [type |-> <<16, i.type>>, len |-> <<16, n>>]
        n == 8 + ofl_actions_ofp_total_len(i.actions)
    IN CASE i.type = "GOTO_TABLE" -> Struct(8, header(8) @@ Bytes({"table_id"}, i))
         [] i.type = "WRITE_METADATA" ->
              Struct(24, header(24) @@ Hton64({"metadata", "metadata_mask"}, i))
         [] i.type \in WriteOrApply ->
              Buffer(n, Struct(8, header(n)).at @@ At(8, PackAll(ofl_actions_pack, i.actions)))
         [] i.type = "CLEAR_ACTIONS" -> Struct(8, header(8))
         [] i.type = "METER" -> Struct(8, header(8) @@ Htonl({"meter_id"}, i))

ofl_utils_count_ofp_instructions(c) ==
    CountItems(LAMBDA x : ntohs(x, "len"), LAMBDA x : ntohs(x, "len"), 0, 5, c)

\* ilen counts down the bytes of the instruction: what is left of it is an error.
ofl_structs_instructions_unpack(c) ==
    LET type == ntohs(c, "type")
        ilen == ntohs(c, "len")
        Sized(size, fields) == IF ilen # size THEN BAD_LEN
                            ELSE Done([type |-> type] @@ fields, Less(c.len, ilen))
    IN CASE c.len < 4 \/ c.len < ilen -> BAD_LEN
         [] type = "GOTO_TABLE" ->
              IF ilen >= 8 /\ Field(c, "table_id") >= PIPELINE_TABLES
              THEN Failed("BAD_TABLE_ID") ELSE Sized(8, Copied({"table_id"}, c))
         [] type = "WRITE_METADATA" -> Sized(24, Ntoh64({"metadata", "metadata_mask"}, c))
         [] type \in WriteOrApply ->
              IF ilen < 8 THEN BAD_LEN
              ELSE Whole(unpack_actions(Limit(Skip(c, 8), ilen - 8)),
                         LAMBDA as : [type |-> type, actions |-> as], Less(c.len, ilen))
         [] type = "CLEAR_ACTIONS" -> Sized(8, << >>)
         [] type = "METER" -> Sized(8, Ntohl({"meter_id"}, c))
         [] OTHER -> Failed("UNKNOWN_INST")

unpack_instructions(c) ==
    UnpackCounted(ofl_structs_instructions_unpack, LAMBDA x : ntohs(x, "len"), c,
                  ofl_utils_count_ofp_instructions(c))

----------------------------------------------------------------------------
\* Meter bands.
ofl_structs_meter_band_ofp_len(b) == 16
ofl_structs_meter_bands_ofp_total_len(bs) == TotalLen(ofl_structs_meter_band_ofp_len, bs)

ofl_structs_meter_band_pack(b) ==
    Struct(16, [len |-> <<16, 16>>] @@ Htons({"type"}, b) @@ Htonl({"rate", "burst_size"}, b)
               @@ (CASE b.type = "DROP" -> << >>
                     [] b.type = "DSCP_REMARK" -> Bytes({"prec_level"}, b)
                     [] b.type = "EXPERIMENTER" -> Htonl({"experimenter"}, b)))

ofl_utils_count_ofp_meter_bands(c) ==
    CountItems(LAMBDA x : ntohs(x, "len"), LAMBDA x : ntohs(x, "len"), 12, 12, c)

ofl_structs_meter_band_unpack(c) ==
    LET type == ntohs(c, "type")
    IN IF c.len < 12 THEN BAD_LEN
       ELSE Done(Ntohs({"type"}, c) @@ Ntohl({"rate", "burst_size"}, c)
                 @@ (CASE type = "DSCP_REMARK" -> Copied({"prec_level"}, c)
                       [] type = "EXPERIMENTER" -> Ntohl({"experimenter"}, c)
                       [] OTHER -> << >>),
                 Less(c.len, ntohs(c, "len")))

unpack_bands(c) ==
    UnpackCounted(ofl_structs_meter_band_unpack, LAMBDA x : ntohs(x, "len"), c,
                  ofl_utils_count_ofp_meter_bands(c))

----------------------------------------------------------------------------
\* Table features.  A property has its type, its length without the padding and
\* its ids.
InstructionProps == {"INSTRUCTIONS", "INSTRUCTIONS_MISS"}
NextTables == {"NEXT_TABLES", "NEXT_TABLES_MISS"}
ActionProps == {"WRITE_ACTIONS", "WRITE_ACTIONS_MISS", "APPLY_ACTIONS", "APPLY_ACTIONS_MISS"}
OxmProps == {"MATCH", "WILDCARDS", "WRITE_SETFIELD", "WRITE_SETFIELD_MISS",
             "APPLY_SETFIELD", "APPLY_SETFIELD_MISS"}

\* sizeof(struct ofp_instruction) - 4 is 0, so an instruction takes no bytes.
ofl_structs_table_features_properties_ofp_len(p) ==
    CASE p.type \in InstructionProps -> 4 + 0 * Len(p.ids)
      [] p.type \in NextTables -> 4 + Len(p.ids)
      [] p.type \in ActionProps \cup OxmProps -> 4 + 4 * Len(p.ids)

ofl_structs_table_features_properties_ofp_total_len(ps) ==
    TotalLen(LAMBDA p : RoundUp8(p.length), ps)

ofl_structs_table_features_ofp_total_len(fs) ==
    TotalLen(LAMBDA f : 64 + ofl_structs_table_features_properties_ofp_total_len(f.properties), fs)

\* flow_table_create_property(): what a table says of itself.  The lists stand
\* for the arrays of flow_table.c.
flow_table_create_property(type, table_id) ==
    LET ids == CASE type \in InstructionProps ->
                      IF table_id < PIPELINE_TABLES - 1 THEN <<"GOTO_TABLE", "METER">>
                      ELSE <<"METER">>
                 [] type \in NextTables ->
                      [i \in 1..(PIPELINE_TABLES - 1 - table_id) |-> table_id + i]
                 [] type \in ActionProps ->
                      <<[type |-> "OUTPUT", len |-> 4], [type |-> "GROUP", len |-> 4]>>
                 [] type = "WILDCARDS" -> <<"METADATA", "ETH_DST">>
                 [] OTHER -> <<"IN_PORT", "METADATA", "ETH_DST">>
        p == [type |-> type, ids |-> ids]
    IN p @@ [length |-> ofl_structs_table_features_properties_ofp_len(p)]

ofl_structs_table_properties_pack(p) ==
    LET Item(x) == CASE p.type \in InstructionProps -> Nothing
                     [] p.type \in NextTables -> Struct(1, [id |-> x])
                     [] p.type \in ActionProps -> Struct(4, Htons({"type", "len"}, x))
                     [] p.type \in OxmProps -> Struct(4, [id |-> <<32, x>>])
    IN Buffer(RoundUp8(p.length),
              Struct(4, Htons({"type", "length"}, p)).at @@ At(4, PackAll(Item, p.ids)))

ofl_structs_table_features_pack(f) ==
    LET n == 64 + ofl_structs_table_features_properties_ofp_total_len(f.properties)
    IN Buffer(n, Struct(64, [length |-> <<16, n>>] @@ Bytes({"table_id", "name"}, f)
                            @@ Hton64({"metadata_match", "metadata_write"}, f)
                            @@ Htonl({"config", "max_entries"}, f)).at
                 @@ At(64, PackAll(ofl_structs_table_properties_pack, f.properties)))

ofl_utils_count_ofp_table_features_properties(c) ==
    CountItems(LAMBDA x : ntohs(x, "length"), LAMBDA x : RoundUp8(ntohs(x, "length")), 4, 4, c)

ofl_utils_count_ofp_table_features(c) ==
    CountItems(LAMBDA x : ntohs(x, "length"), LAMBDA x : ntohs(x, "length"), 64, 64, c)

\* ofl_structs_table_properties_unpack(): *len loses the length without padding.
ofl_structs_table_properties_unpack(c) ==
    LET type == ntohs(c, "type")
        n == ntohs(c, "length")
        body == Limit(Skip(c, 4), n - 4)
        Counted(k, Id(_)) ==
            IF k.err # OK THEN Failed(k.err)
            ELSE Done([type |-> type, length |-> n,
                       ids |-> [i \in 1..k.n |-> Id(Skip(body, 4 * (i - 1)))]], Less(c.len, n))
        Prop(ids) == Done([type |-> type, length |-> n, ids |-> ids], Less(c.len, n))
    IN CASE c.len < 4 \/ c.len < n \/ n < 4 -> BAD_LEN
         [] type \in InstructionProps ->
              Counted(ofl_utils_count_ofp_instructions(body), LAMBDA x : ntohs(x, "type"))
         [] type \in NextTables ->
              Prop([i \in 1..(n - 4) |-> Field(Skip(body, i - 1), "id")])
         [] type \in ActionProps ->
              Counted(ofl_utils_count_ofp_actions(body), LAMBDA x : Ntohs({"type", "len"}, x))
         [] type \in OxmProps ->
              Prop([i \in 1..((n - 4) \div 4) |-> ntohl(Skip(body, 4 * (i - 1)), "id")])
         [] OTHER -> Failed("BAD_TYPE")

ofl_structs_table_features_unpack(c) ==
    LET n == ntohs(c, "length")
        body == Limit(Skip(c, 64), n - 64)
        Features(ps) ==
            IF ps.err # OK THEN Failed(ps.err)
            ELSE Done([length |-> n, properties |-> ps.v] @@ Copied({"table_id", "name"}, c)
                      @@ Ntoh64({"metadata_match", "metadata_write"}, c)
                      @@ Ntohl({"config", "max_entries"}, c), Less(c.len, n))
    IN IF c.len < 64 \/ c.len < n THEN BAD_LEN
       ELSE Features(UnpackCounted(ofl_structs_table_properties_unpack,
                                   LAMBDA x : RoundUp8(ntohs(x, "length")), body,
                                   ofl_utils_count_ofp_table_features_properties(body)))

----------------------------------------------------------------------------
\* Buckets.
ofl_structs_buckets_ofp_len(b) == RoundUp8(16 + ofl_actions_ofp_total_len(b.actions))
ofl_structs_buckets_ofp_total_len(bs) == TotalLen(ofl_structs_buckets_ofp_len, bs)

ofl_structs_bucket_pack(b) ==
    LET n == RoundUp8(16 + ofl_actions_ofp_total_len(b.actions))
    IN Buffer(n, Struct(16, [len |-> <<16, n>>] @@ Htons({"weight"}, b)
                            @@ Htonl({"watch_port", "watch_group"}, b)).at
                 @@ At(16, PackAll(ofl_actions_pack, b.actions)))

ofl_utils_count_ofp_buckets(c) ==
    CountItems(LAMBDA x : ntohs(x, "len"), LAMBDA x : ntohs(x, "len"), 16, 16, c)

ofl_structs_bucket_unpack(gtype, c) ==
    LET n == ntohs(c, "len")
        Bucket(a) ==
            CASE a.err # OK -> Failed(a.err)
              [] a.err = OK /\ a.len >= 8 -> BAD_LEN
              [] OTHER -> Done([actions |-> a.v] @@ Ntohs({"weight"}, c)
                               @@ Ntohl({"watch_port", "watch_group"}, c), Less(c.len, n))
    IN CASE c.len < 16 \/ c.len < n -> BAD_LEN
         [] (gtype = "SELECT") = (ntohs(c, "weight") = 0) -> Failed("INVALID_GROUP")
         [] OTHER -> Bucket(unpack_actions(Limit(Skip(c, 16), n - 16)))

unpack_buckets(gtype, c) ==
    UnpackCounted(LAMBDA x : ofl_structs_bucket_unpack(gtype, x), LAMBDA x : ntohs(x, "len"), c,
                  ofl_utils_count_ofp_buckets(c))

----------------------------------------------------------------------------
\* The items of a list of structures of one size, counted by division.
UnpackArray(Unpack(_), size, c) == UnpackN(Unpack, LAMBDA x : size, c, c.len \div size)

BadPort(port) == port = 0 \/ (port > OFPP_MAX /\ port # OFPP_LOCAL)

----------------------------------------------------------------------------
\* Flow statistics.  The structure ends with the ofp_match, whose OXM TLVs start
\* at its byte 52.
FlowShorts == {"priority", "idle_timeout", "hard_timeout", "flags"}
FlowCounts == {"cookie", "packet_count", "byte_count"}
Duration == {"duration_sec", "duration_nsec"}

ofl_structs_flow_stats_ofp_len(s) ==
    RoundUp8(52 + s.match.length) + ofl_structs_instructions_ofp_total_len(s.instructions)
ofl_structs_flow_stats_ofp_total_len(ss) == TotalLen(ofl_structs_flow_stats_ofp_len, ss)

ofl_structs_flow_stats_pack(s) ==
    LET at == RoundUp8(52 + s.match.length)
        n == at + ofl_structs_instructions_ofp_total_len(s.instructions)
    IN Buffer(n, Struct(48, [length |-> <<16, n>>] @@ Bytes({"table_id"}, s)
                            @@ Htonl(Duration, s) @@ Htons(FlowShorts, s)
                            @@ Hton64(FlowCounts, s)).at
                 @@ At(48, ofl_structs_match_pack(s.match))
                 @@ At(at, PackAll(ofl_structs_instructions_pack, s.instructions)))

ofl_utils_count_ofp_flow_stats(c) ==
    CountItems(LAMBDA x : ntohs(x, "length"), LAMBDA x : ntohs(x, "length"), 56, 56, c)

ofl_structs_flow_stats_unpack(c) ==
    LET n == ntohs(c, "length")
        match == Limit(Skip(c, 48), Less(n, 48))
        Stats(m) ==
            IF m.err # OK THEN Failed(m.err)
            ELSE Whole(unpack_instructions(Limit(Skip(c, RoundUp8(52 + m.v.length)), m.len)),
                       LAMBDA is : [match |-> m.v, instructions |-> is]
                                   @@ Copied({"table_id"}, c) @@ Ntohl(Duration, c)
                                   @@ Ntohs(FlowShorts, c) @@ Ntoh64(FlowCounts, c),
                       Less(c.len, n))
    IN CASE c.len < 48 + RoundUp8(ntohs(match, "length")) \/ c.len < n -> BAD_LEN
         [] Field(c, "table_id") >= PIPELINE_TABLES -> Failed("BAD_TABLE_ID")
         [] OTHER -> Stats(ofl_structs_match_unpack(match))

----------------------------------------------------------------------------
\* Group statistics and descriptions.
Counts == {"packet_count", "byte_count"}

ofl_structs_bucket_counter_pack(b) == Struct(16, Hton64(Counts, b))
ofl_structs_bucket_counter_unpack(c) ==
    IF c.len < 16 THEN BAD_LEN ELSE Done(Ntoh64(Counts, c), Less(c.len, 16))

ofl_structs_group_stats_ofp_len(s) == 40 + 16 * Len(s.counters)
ofl_structs_group_stats_ofp_total_len(ss) == TotalLen(ofl_structs_group_stats_ofp_len, ss)

ofl_structs_group_stats_pack(s) ==
    LET n == 40 + 16 * Len(s.counters)
    IN Buffer(n, Struct(40, [length |-> <<16, n>>] @@ Htonl({"group_id", "ref_count"}, s)
                            @@ Hton64(Counts, s) @@ Htonl(Duration, s)).at
                 @@ At(40, PackAll(ofl_structs_bucket_counter_pack, s.counters)))

ofl_utils_count_ofp_group_stats(c) ==
    CountItems(LAMBDA x : ntohs(x, "length"), LAMBDA x : ntohs(x, "length"), 40, 40, c)

ofl_structs_group_stats_unpack(c) ==
    LET n == ntohs(c, "length")
    IN IF c.len < 40 \/ c.len < n \/ ntohl(c, "group_id") > OFPG_MAX THEN BAD_LEN
       ELSE Whole(UnpackArray(ofl_structs_bucket_counter_unpack, 16, Limit(Skip(c, 40), n - 40)),
                  LAMBDA bs : [counters |-> bs] @@ Ntohl({"group_id", "ref_count"}, c)
                      @@ Ntoh64(Counts, c) @@ Ntohl(Duration, c), Less(c.len, n))

ofl_structs_group_desc_stats_ofp_len(s) == 8 + ofl_structs_buckets_ofp_total_len(s.buckets)
ofl_structs_group_desc_stats_ofp_total_len(ss) ==
    TotalLen(ofl_structs_group_desc_stats_ofp_len, ss)

ofl_structs_group_desc_stats_pack(s) ==
    LET n == 8 + ofl_structs_buckets_ofp_total_len(s.buckets)
    IN Buffer(n, Struct(8, [length |-> <<16, n>>] @@ Bytes({"type"}, s)
                           @@ Htonl({"group_id"}, s)).at
                 @@ At(8, PackAll(ofl_structs_bucket_pack, s.buckets)))

ofl_utils_count_ofp_group_desc_stats(c) ==
    CountItems(LAMBDA x : ntohs(x, "length"), LAMBDA x : ntohs(x, "length"), 8, 8, c)

ofl_structs_group_desc_stats_unpack(c) ==
    LET n == ntohs(c, "length")
    IN IF c.len < 8 \/ c.len < n \/ ntohl(c, "group_id") > OFPG_MAX THEN BAD_LEN
       ELSE Whole(unpack_buckets(Field(c, "type"), Limit(Skip(c, 8), n - 8)),
                  LAMBDA bs : [buckets |-> bs] @@ Copied({"type"}, c) @@ Ntohl({"group_id"}, c),
                  Less(c.len, n))

----------------------------------------------------------------------------
\* Meter statistics and configurations.
BandCounts == {"packet_band_count", "byte_band_count"}
InCounts == {"packet_in_count", "byte_in_count"}

ofl_structs_pack_band_stats(b) == Struct(16, Hton64(BandCounts, b))
ofl_structs_meter_band_stats_unpack(c) ==
    IF c.len < 16 THEN BAD_LEN ELSE Done(Ntoh64(BandCounts, c), Less(c.len, 16))

ofl_structs_meter_stats_ofp_len(s) == 40 + 16 * Len(s.band_stats)
ofl_structs_meter_stats_ofp_total_len(ss) == TotalLen(ofl_structs_meter_stats_ofp_len, ss)

ofl_structs_meter_stats_pack(s) ==
    LET n == 40 + 16 * Len(s.band_stats)
    IN Buffer(n, Struct(40, [len |-> <<16, n>>] @@ Htonl({"meter_id", "flow_count"}, s)
                            @@ Hton64(InCounts, s) @@ Htonl(Duration, s)).at
                 @@ At(40, PackAll(ofl_structs_pack_band_stats, s.band_stats)))

ofl_utils_count_ofp_meter_stats(c) ==
    CountItems(LAMBDA x : ntohs(x, "len"), LAMBDA x : ntohs(x, "len"), 40, 40, c)

ofl_structs_meter_stats_unpack(c) ==
    LET n == ntohs(c, "len")
    IN IF c.len < 40 \/ c.len < n THEN BAD_LEN
       ELSE Whole(UnpackArray(ofl_structs_meter_band_stats_unpack, 16, Limit(Skip(c, 40), n - 40)),
                  LAMBDA bs : [len |-> n, band_stats |-> bs] @@ Ntohl({"meter_id", "flow_count"}, c)
                      @@ Ntoh64(InCounts, c) @@ Ntohl(Duration, c), Less(c.len, n))

ofl_structs_meter_conf_ofp_len(s) == 8 + ofl_structs_meter_bands_ofp_total_len(s.bands)
ofl_structs_meter_conf_ofp_total_len(ss) == TotalLen(ofl_structs_meter_conf_ofp_len, ss)

ofl_structs_meter_conf_pack(s) ==
    LET n == 8 + ofl_structs_meter_bands_ofp_total_len(s.bands)
    IN Buffer(n, Struct(8, [length |-> <<16, n>>] @@ Htons({"flags"}, s)
                           @@ Htonl({"meter_id"}, s)).at
                 @@ At(8, PackAll(ofl_structs_meter_band_pack, s.bands)))

ofl_utils_count_ofp_meter_config(c) ==
    CountItems(LAMBDA x : ntohs(x, "length"), LAMBDA x : ntohs(x, "length"), 8, 8, c)

ofl_structs_meter_config_unpack(c) ==
    LET n == ntohs(c, "length")
    IN IF c.len < 8 \/ c.len < n THEN BAD_LEN
       ELSE Whole(unpack_bands(Limit(Skip(c, 8), n - 8)),
                  LAMBDA bs : [length |-> n, bands |-> bs] @@ Ntohs({"flags"}, c) @@ Ntohl({"meter_id"}, c),
                  Less(c.len, n))

----------------------------------------------------------------------------
\* Queues.  The data of an experimenter property is not packed, and the unpack
\* function stores the address of the bytes in its place.
Rates == {"MIN_RATE", "MAX_RATE"}

ofl_structs_queue_prop_ofp_len(p) == 16
ofl_structs_queue_prop_ofp_total_len(ps) == TotalLen(ofl_structs_queue_prop_ofp_len, ps)

ofl_structs_queue_prop_pack(p) ==
    Struct(16, [property |-> <<16, p.type>>, len |-> <<16, 16>>]
               @@ (IF p.type \in Rates THEN Htons({"rate"}, p) ELSE << >>))

ofl_utils_count_ofp_queue_props(c) ==
    CountItems(LAMBDA x : ntohs(x, "len"), LAMBDA x : ntohs(x, "len"), 8, 8, c)

ofl_structs_queue_prop_unpack(c) ==
    LET type == ntohs(c, "property")
    IN IF c.len < 8 \/ c.len < ntohs(c, "len") \/ c.len < 16
          \/ type \notin Rates \cup {"EXPERIMENTER"} THEN BAD_LEN
       ELSE Done([type |-> type] @@ (IF type \in Rates THEN Ntohs({"rate"}, c) ELSE << >>),
                 Less(c.len, 16))

ofl_structs_packet_queue_ofp_len(q) == 16 + ofl_structs_queue_prop_ofp_total_len(q.properties)
ofl_structs_packet_queue_ofp_total_len(qs) == TotalLen(ofl_structs_packet_queue_ofp_len, qs)

ofl_structs_packet_queue_pack(q) ==
    LET n == 16 + ofl_structs_queue_prop_ofp_total_len(q.properties)
    IN Buffer(n, Struct(16, [len |-> <<16, n>>] @@ Htonl({"queue_id"}, q)).at
                 @@ At(16, PackAll(ofl_structs_queue_prop_pack, q.properties)))

ofl_utils_count_ofp_packet_queues(c) ==
    CountItems(LAMBDA x : ntohs(x, "len"), LAMBDA x : ntohs(x, "len"), 16, 16, c)

\* The properties take their bytes from *len itself, and an error in one of them
\* is not looked at: its pointer stays as malloc() left it.
ofl_structs_packet_queue_unpack(c) ==
    LET n == ntohs(c, "len")
        Ignored(u, len) == IF u.err = OK THEN u ELSE Done(Garbled, len)
    IN IF c.len < n THEN BAD_LEN
       ELSE As(UnpackCounted(LAMBDA x : Ignored(ofl_structs_queue_prop_unpack(x), x.len),
                             LAMBDA x : ntohs(x, "len"), Take(c, 16),
                             ofl_utils_count_ofp_queue_props(Limit(Skip(c, 16), n - 16))),
               LAMBDA ps : [properties |-> ps] @@ Ntohl({"queue_id"}, c))

----------------------------------------------------------------------------
\* Ports and the statistics of tables, ports and queues.
PortWords == {"config", "state", "curr", "advertised", "supported", "peer",
              "curr_speed", "max_speed"}
PortCounts == {"rx_packets", "tx_packets", "rx_bytes", "tx_bytes", "rx_dropped", "tx_dropped",
               "rx_errors", "tx_errors", "rx_frame_err", "rx_over_err", "rx_crc_err",
               "collisions"}
QueueCounts == {"tx_bytes", "tx_packets", "tx_errors"}

ofl_structs_port_pack(p) ==
    Struct(64, Bytes({"hw_addr", "name"}, p) @@ Htonl({"port_no"} \cup PortWords, p))

ofl_structs_port_unpack(c) ==
    CASE c.len < 64 -> BAD_LEN
      [] BadPort(ntohl(c, "port_no")) -> Failed("BAD_LEN")
      [] OTHER -> Done(Copied({"hw_addr", "name"}, c) @@ Ntohl({"port_no"} \cup PortWords, c),
                       Less(c.len, 64))

ofl_structs_table_stats_pack(s) ==
    Struct(24, Bytes({"table_id"}, s) @@ Htonl({"active_count"}, s)
               @@ Hton64({"lookup_count", "matched_count"}, s))

ofl_structs_table_stats_unpack(c) ==
    CASE c.len < 24 -> BAD_LEN
      [] Field(c, "table_id") = 255 -> Failed("BAD_TABLE_ID")
      [] OTHER -> Done(Copied({"table_id"}, c) @@ Ntohl({"active_count"}, c)
                       @@ Ntoh64({"lookup_count", "matched_count"}, c), Less(c.len, 24))

ofl_structs_port_stats_pack(s) ==
    Struct(112, Htonl({"port_no"} \cup Duration, s) @@ Hton64(PortCounts, s))

ofl_structs_port_stats_unpack(c) ==
    CASE c.len < 112 -> BAD_LEN
      [] BadPort(ntohl(c, "port_no")) -> Failed("BAD_LEN")
      [] OTHER -> Done(Ntohl({"port_no"} \cup Duration, c) @@ Ntoh64(PortCounts, c),
                       Less(c.len, 112))

ofl_structs_queue_stats_pack(s) ==
    Struct(40, Htonl({"port_no", "queue_id"} \cup Duration, s) @@ Hton64(QueueCounts, s))

ofl_structs_queue_stats_unpack(c) ==
    CASE c.len < 40 -> BAD_LEN
      [] ntohl(c, "port_no") = 0 \/ ntohl(c, "port_no") > OFPP_MAX -> Failed("BAD_LEN")
      [] OTHER -> Done(Ntohl({"port_no", "queue_id"} \cup Duration, c) @@ Ntoh64(QueueCounts, c),
                       Less(c.len, 40))
=============================================================================
