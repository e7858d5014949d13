---------------------------- MODULE OflMessages ----------------------------
(***************************************************************************)
(* oflib/ofl-messages-pack.c and ofl-messages-unpack.c.  A message is a    *)
(* record with its type; a multipart message has the name of its body in   *)
(* mtype.  The ofp_header is the cell at offset 0, what a message adds to  *)
(* it the cell at offset 8.                                                *)
(*                                                                         *)
(* The second half sends one or more messages of every type, with a value  *)
(* of its own in every field and matches in every order of their fields:   *)
(* every program of the repository (ofdatapath, ofprotocol, dpctl) sends   *)
(* with ofl_msg_pack() and receives with ofl_msg_unpack().                 *)
(***************************************************************************)
EXTENDS OflStructs, FiniteSetsExt

OFPTT_ALL == 255
OFPG_ALL == 1020
OFPM_MAX == 1000
OFPM_ALL == 1020
NO_BUFFER == 1023

Fixed(size, fields) == Buffer(size, At(8, Struct(size - 8, fields)))

\* Opaque data: a sequence of bytes copied as it is.
Data(d) == IF d = << >> THEN Nothing ELSE Struct(Len(d), [data |-> d])
DataAt(c) ==
    CASE c.len = 0 -> << >>
      [] c.len # 0 /\ c.off \in DOMAIN c.at /\ "data" \in DOMAIN c.at[c.off].fields ->
           IF Len(c.at[c.off].fields.data) = c.len THEN c.at[c.off].fields.data ELSE Garbled
      [] OTHER -> Garbled

----------------------------------------------------------------------------
(* Messages with a body of one size. *)
AsyncMasks == {"packet_in_mask", "port_status_mask", "flow_removed_mask"}

ofl_msg_pack_empty(m) == Buffer(8, << >>)
ofl_msg_unpack_empty(c) == Done(<< >>, Less(c.len, 8))

ofl_msg_pack_error(m) ==
    Buffer(12 + Len(m.data), At(8, Struct(4, [type |-> <<16, m.etype>>, code |-> <<16, m.code>>]))
                             @@ At(12, Data(m.data)))
ofl_msg_unpack_error(c) ==
    IF c.len < 12 THEN Failed("ERROR")
    ELSE Done([etype |-> ntohs(Skip(c, 8), "type"), code |-> ntohs(Skip(c, 8), "code"),
               data |-> DataAt(Take(c, 12))], 0)

ofl_msg_pack_echo(m) == Buffer(8 + Len(m.data), At(8, Data(m.data)))
ofl_msg_unpack_echo(c) == Done([data |-> DataAt(Take(c, 8))], 0)

ofl_msg_pack_role_request(m) == Fixed(24, Htonl({"role"}, m) @@ Hton64({"generation_id"}, m))
ofl_msg_unpack_role_request(c) ==
    IF c.len < 24 THEN BAD_LEN
    ELSE Done(Ntohl({"role"}, Skip(c, 8)) @@ Ntoh64({"generation_id"}, Skip(c, 8)),
              Less(c.len, 24))

ofl_msg_pack_features_reply(m) ==
    Fixed(32, Hton64({"datapath_id"}, m) @@ Htonl({"n_buffers", "capabilities"}, m)
              @@ Bytes({"n_tables", "auxiliary_id"}, m))

\* A message that is too short is only logged.
ofl_msg_unpack_features_reply(c) ==
    LET b == Skip(c, 8)
    IN Done(Ntoh64({"datapath_id"}, b) @@ Ntohl({"n_buffers", "capabilities"}, b)
            @@ Copied({"n_tables", "auxiliary_id"}, b), Less(c.len, 32))

ofl_msg_pack_get_config_reply(m) == Fixed(12, Htons({"flags", "miss_send_len"}, m))
ofl_msg_unpack_get_config_reply(c) ==
    IF c.len < 12 THEN BAD_LEN
    ELSE Done(Ntohs({"flags", "miss_send_len"}, Skip(c, 8)), Less(c.len, 12))
ofl_msg_pack_set_config(m) == Fixed(12, Htons({"flags", "miss_send_len"}, m))
ofl_msg_unpack_set_config(c) ==
    IF c.len < 12 THEN BAD_LEN
    ELSE Done(Ntohs({"flags", "miss_send_len"}, Skip(c, 8)), Less(c.len, 12))

\* The two elements of a mask are one value.
ofl_msg_pack_async_config(m) == Fixed(32, Htonl(AsyncMasks, m))
ofl_msg_unpack_async_config(c) ==
    IF c.len < 32 THEN BAD_LEN ELSE Done(Ntohl(AsyncMasks, Skip(c, 8)), Less(c.len, 32))

ofl_msg_pack_port_mod(m) ==
    Fixed(40, Htonl({"port_no", "config", "mask", "advertise"}, m) @@ Bytes({"hw_addr"}, m))
ofl_msg_unpack_port_mod(c) ==
    IF c.len < 40 THEN BAD_LEN
    ELSE Done(Ntohl({"port_no", "config", "mask", "advertise"}, Skip(c, 8))
              @@ Copied({"hw_addr"}, Skip(c, 8)), Less(c.len, 40))

ofl_msg_pack_table_mod(m) == Fixed(16, Bytes({"table_id"}, m) @@ Htonl({"config"}, m))
ofl_msg_unpack_table_mod(c) ==
    CASE c.len < 16 -> BAD_LEN
      [] Field(Skip(c, 8), "table_id") >= PIPELINE_TABLES -> Failed("BAD_TABLE_ID")
      [] OTHER -> Done(Copied({"table_id"}, Skip(c, 8)) @@ Ntohl({"config"}, Skip(c, 8)),
                       Less(c.len, 16))

ofl_msg_pack_port_status(m) ==
    Buffer(80, At(8, Struct(8, Bytes({"reason"}, m))) @@ At(16, ofl_structs_port_pack(m.desc)))
ofl_msg_unpack_port_status(c) ==
    IF c.len < 80 THEN BAD_LEN
    ELSE As(ofl_structs_port_unpack(Take(c, 16)),
            LAMBDA p : [desc |-> p] @@ Copied({"reason"}, Skip(c, 8)))

ofl_msg_pack_queue_get_config_request(m) == Fixed(16, Htonl({"port"}, m))

\* The length is compared with the size of another structure.
ofl_msg_unpack_queue_get_config_request(c) ==
    LET port == ntohl(Skip(c, 8), "port")
    IN CASE c.len < 8 -> BAD_LEN
         [] port = 0 \/ port > OFPP_ANY -> Failed("BAD_PORT")
         [] OTHER -> Done([port |-> port], Less(c.len, 16))

----------------------------------------------------------------------------
(* Messages with a match: the TLVs start four bytes before the end of the  *)
(* structure.                                                              *)
ofl_msg_pack_packet_in(m) ==
    Buffer(32 + RoundUp8(m.match.length - 4) + Len(m.data) + 2,
           At(8, Struct(16, Htonl({"buffer_id"}, m) @@ Htons({"total_len"}, m)
                            @@ Bytes({"reason", "table_id"}, m) @@ Hton64({"cookie"}, m)))
           @@ At(24, ofl_structs_match_pack(m.match))
           @@ At(RoundUp8(28 + m.match.length) + 2, Data(m.data)))

\* An error in the match is not looked at.
ofl_msg_unpack_packet_in(c) ==
    LET b == Skip(c, 8)
        PacketIn(m) ==
            Done([match |-> m.v,
                  data |-> DataAt(Limit(Skip(c, RoundUp8(28 + m.v.length) + 2), Less(m.len, 2)))]
                 @@ Ntohl({"buffer_id"}, b) @@ Ntohs({"total_len"}, b)
                 @@ Copied({"reason", "table_id"}, b) @@ Ntoh64({"cookie"}, b), 0)
    IN CASE c.len < 32 -> BAD_LEN
         [] Field(b, "table_id") = PIPELINE_TABLES -> Failed("BAD_TABLE_ID")
         [] OTHER -> PacketIn(ofl_structs_match_unpack(Take(c, 24)))

RemovedShorts == {"priority", "idle_timeout"}

ofl_msg_pack_flow_removed(m) ==
    Buffer(RoundUp8(52 + m.stats.match.length),
           At(8, Struct(40, Hton64(FlowCounts, m.stats) @@ Htons(RemovedShorts, m.stats)
                            @@ Bytes({"reason"}, m) @@ Bytes({"table_id"}, m.stats)
                            @@ Htonl(Duration, m.stats)))
           @@ At(48, ofl_structs_match_pack(m.stats.match)))

ofl_msg_unpack_flow_removed(c) ==
    LET b == Skip(c, 8)
        Stats(m) == [hard_timeout |-> 0, instructions |-> << >>, match |-> m]
                    @@ Copied({"table_id"}, b) @@ Ntohl(Duration, b) @@ Ntohs(RemovedShorts, b)
                    @@ Ntoh64(FlowCounts, b)
    IN CASE c.len < 48 -> Failed("ERROR")
         [] Field(b, "table_id") >= PIPELINE_TABLES -> Failed("BAD_TABLE_ID")
         [] OTHER -> As(ofl_structs_match_unpack(Take(c, 48)),
                        LAMBDA m : [stats |-> Stats(m)] @@ Copied({"reason"}, b))

ModShorts == {"idle_timeout", "hard_timeout", "priority", "flags"}
ModWords == {"buffer_id", "out_port", "out_group"}

ofl_msg_pack_flow_mod(m) ==
    LET at == RoundUp8(52 + m.match.length)
    IN Buffer(at + ofl_structs_instructions_ofp_total_len(m.instructions),
              At(8, Struct(40, Hton64({"cookie", "cookie_mask"}, m)
                               @@ Bytes({"table_id", "command"}, m)
                               @@ Htons(ModShorts, m) @@ Htonl(ModWords, m)))
              @@ At(48, ofl_structs_match_pack(m.match))
              @@ At(at, PackAll(ofl_structs_instructions_pack, m.instructions)))

\* `command != DELETE || command != DELETE_STRICT' is always true.
ofl_msg_unpack_flow_mod(c) ==
    LET b == Skip(c, 8)
        table_id == Field(b, "table_id")
        Mod(m) ==
            IF m.err # OK THEN Failed(m.err)
            ELSE As(unpack_instructions(Limit(Skip(c, RoundUp8(52 + m.v.length)), m.len)),
                    LAMBDA is : [match |-> m.v, instructions |-> is]
                                @@ Ntoh64({"cookie", "cookie_mask"}, b)
                                @@ Copied({"table_id", "command"}, b)
                                @@ Ntohs(ModShorts, b) @@ Ntohl(ModWords, b))
    IN CASE c.len < 48 -> BAD_LEN
         [] table_id >= PIPELINE_TABLES /\ table_id # OFPTT_ALL -> Failed("BAD_TABLE_ID")
         [] OTHER -> Mod(ofl_structs_match_unpack(Take(c, 48)))

----------------------------------------------------------------------------
(* Messages with a list. *)
ofl_msg_pack_packet_out(m) ==
    LET Out(n, packed) ==
            Buffer(24 + n + Len(m.data),
                   At(8, Struct(16, Htonl({"buffer_id", "in_port"}, m) @@ [actions_len |-> <<16, n>>]))
                   @@ At(24, packed) @@ At(24 + packed.len, Data(m.data)))
    IN Out(ofl_actions_ofp_total_len(m.actions), PackAll(ofl_actions_pack, m.actions))

\* The actions take their bytes from *len, and what is left is the data.  After an
\* error in an action the function goes on with the freed message; only actions
\* that unpack are modelled.
ofl_msg_unpack_packet_out(c) ==
    LET b == Skip(c, 8)
        n == ntohs(b, "actions_len")
        Out(as) ==
            IF as.err # OK THEN as
            ELSE Done([actions |-> as.v, data |-> DataAt(Limit(Skip(c, 24 + n), as.len))]
                      @@ Ntohl({"buffer_id", "in_port"}, b), 0)
    IN CASE c.len < 24 -> BAD_LEN
         [] ntohl(b, "buffer_id") # NO_BUFFER /\ c.len # 24 + n -> BAD_LEN
         [] c.len - 24 < n -> BAD_LEN
         [] OTHER -> Out(UnpackCounted(ofl_actions_unpack, LAMBDA x : ntohs(x, "len"), Take(c, 24),
                                       ofl_utils_count_ofp_actions(Limit(Skip(c, 24), n))))

GroupCommands == {"ADD", "MODIFY", "DELETE"}

ofl_msg_pack_group_mod(m) ==
    Buffer(16 + ofl_structs_buckets_ofp_total_len(m.buckets),
           At(8, Struct(8, Htons({"command"}, m) @@ [type |-> m.gtype] @@ Htonl({"group_id"}, m)))
           @@ At(16, PackAll(ofl_structs_bucket_pack, m.buckets)))

\* The check of the type reads ntohs() of one byte, which is 0 or at least 256 on a
\* little-endian host: it rejects nothing.
ofl_msg_unpack_group_mod(c) ==
    LET b == Skip(c, 8)
        command == ntohs(b, "command")
        type == Field(b, "type")
        id == ntohl(b, "group_id")
        Buckets(k) ==
            CASE k.err # OK -> Failed(k.err)
              [] k.err = OK /\ ((command = "DELETE" /\ k.n > 0) \/ (type = "INDIRECT" /\ k.n # 1)) ->
                   Failed("INVALID_GROUP")
              [] OTHER -> As(unpack_buckets(type, Take(c, 16)),
                             LAMBDA bs : [command |-> command, gtype |-> type, group_id |-> id,
                                          buckets |-> bs])
    IN CASE c.len < 16 -> BAD_LEN
         [] command \notin GroupCommands -> Failed("BAD_COMMAND")
         [] id > OFPG_MAX /\ ~(command = "DELETE" /\ id = OFPG_ALL) -> Failed("INVALID_GROUP")
         [] OTHER -> Buckets(ofl_utils_count_ofp_buckets(Take(c, 16)))

ofl_msg_pack_meter_mod(m) ==
    Buffer(16 + ofl_structs_meter_bands_ofp_total_len(m.bands),
           At(8, Struct(8, Htons({"command", "flags"}, m) @@ Htonl({"meter_id"}, m)))
           @@ At(16, PackAll(ofl_structs_meter_band_pack, m.bands)))

ofl_msg_unpack_meter_mod(c) ==
    LET b == Skip(c, 8)
        command == ntohs(b, "command")
        id == ntohl(b, "meter_id")
    IN CASE c.len < 16 -> BAD_LEN
         [] command \notin GroupCommands -> Failed("BAD_COMMAND")
         [] ntohs(b, "flags") \div 8 > 1 -> Failed("BAD_FLAGS")
         [] id > OFPM_MAX /\ ~(command = "DELETE" /\ id = OFPM_ALL) -> Failed("INVALID_METER")
         [] OTHER -> As(unpack_bands(Take(c, 16)),
                        LAMBDA bs : [bands |-> bs] @@ Ntohs({"command", "flags"}, b)
                                    @@ Ntohl({"meter_id"}, b))

ofl_msg_pack_queue_get_config_reply(m) ==
    Buffer(16 + ofl_structs_packet_queue_ofp_total_len(m.queues),
           At(8, Struct(8, Htonl({"port"}, m)))
           @@ At(16, PackAll(ofl_structs_packet_queue_pack, m.queues)))

ofl_msg_unpack_queue_get_config_reply(c) ==
    IF c.len < 16 THEN BAD_LEN
    ELSE As(UnpackCounted(ofl_structs_packet_queue_unpack, LAMBDA x : ntohs(x, "len"), Take(c, 16),
                          ofl_utils_count_ofp_packet_queues(Take(c, 16))),
            LAMBDA qs : [queues |-> qs] @@ Ntohl({"port"}, Skip(c, 8)))

----------------------------------------------------------------------------
(* Multipart requests: the body follows the 16 bytes of the header.  The   *)
(* unpack functions get a cursor at the body.                              *)
Body(b) == Buffer(16 + b.len, At(16, b))
BadRequestPort(port) == port = 0 \/ (port > OFPP_MAX /\ port # OFPP_ANY)

\* The TLVs go after the whole ofp_flow_stats_request, whose last four bytes are
\* padding of the match: four bytes after the place where they are looked for.
ofl_msg_pack_multipart_request_flow(m) ==
    Body(Buffer(40 + m.match.length,
                Struct(32, Bytes({"table_id"}, m) @@ Htonl({"out_port", "out_group"}, m)
                           @@ Hton64({"cookie", "cookie_mask"}, m)).at
                @@ At(32, ofl_structs_match_pack(m.match))))

ofl_msg_unpack_multipart_request_flow(c) ==
    LET table_id == Field(c, "table_id")
    IN CASE c.len < 32 -> BAD_LEN
         [] table_id # OFPTT_ALL /\ table_id >= PIPELINE_TABLES -> Failed("BAD_TABLE_ID")
         [] OTHER -> As(ofl_structs_match_unpack(Take(c, 32)),
                        LAMBDA m : [table_id |-> table_id, match |-> m]
                                   @@ Ntohl({"out_port", "out_group"}, c)
                                   @@ Ntoh64({"cookie", "cookie_mask"}, c))

ofl_msg_pack_multipart_request_port(m) == Body(Struct(8, Htonl({"port_no"}, m)))
ofl_msg_unpack_multipart_request_port(c) ==
    IF c.len < 8 \/ BadRequestPort(ntohl(c, "port_no")) THEN BAD_LEN
    ELSE Done(Ntohl({"port_no"}, c), Less(c.len, 8))

ofl_msg_pack_multipart_request_queue(m) == Body(Struct(8, Htonl({"port_no", "queue_id"}, m)))
ofl_msg_unpack_multipart_request_queue(c) ==
    IF c.len < 8 \/ BadRequestPort(ntohl(c, "port_no")) THEN BAD_LEN
    ELSE Done(Ntohl({"port_no", "queue_id"}, c), Less(c.len, 8))

ofl_msg_pack_multipart_request_group(m) == Body(Struct(8, Htonl({"group_id"}, m)))
ofl_msg_unpack_multipart_request_group(c) ==
    IF c.len < 8 THEN BAD_LEN ELSE Done(Ntohl({"group_id"}, c), Less(c.len, 8))

ofl_msg_pack_meter_multipart_request(m) == Body(Struct(8, Htonl({"meter_id"}, m)))
ofl_msg_unpack_meter_multipart_request(c) ==
    IF c.len < 8 THEN BAD_LEN ELSE Done(Ntohl({"meter_id"}, c), Less(c.len, 8))

ofl_msg_pack_multipart_request_table_features(m) ==
    Body(Buffer(ofl_structs_table_features_ofp_total_len(m.table_features),
                PackAll(ofl_structs_table_features_pack, m.table_features).at))

unpack_table_features(c) ==
    As(UnpackCounted(ofl_structs_table_features_unpack, LAMBDA x : ntohs(x, "length"), c,
                     ofl_utils_count_ofp_table_features(c)),
       LAMBDA fs : [table_features |-> fs])

ofl_msg_unpack_multipart_request_table_features(c) ==
    IF c.len = 0 THEN Done([table_features |-> << >>], 0) ELSE unpack_table_features(c)

ofl_msg_pack_multipart_request_empty(m) == Buffer(16, << >>)

\* len, the pointer, is decreased and not *len: it stays what it was.
ofl_msg_unpack_multipart_request_empty(c) == Done(<< >>, c.len)

EmptyRequests == {"DESC", "TABLE", "GROUP_DESC", "GROUP_FEATURES", "METER_FEATURES", "PORT_DESC"}

Multipart(m, body) ==
    Buffer(body.len, body.at @@ At(8, Struct(8, [type |-> <<16, m.mtype>>] @@ Htons({"flags"}, m))))
ofl_msg_pack_multipart_request(m) ==
    LET body == CASE m.mtype \in EmptyRequests -> ofl_msg_pack_multipart_request_empty(m)
                  [] m.mtype \in {"FLOW", "AGGREGATE"} -> ofl_msg_pack_multipart_request_flow(m)
                  [] m.mtype = "PORT_STATS" -> ofl_msg_pack_multipart_request_port(m)
                  [] m.mtype = "QUEUE" -> ofl_msg_pack_multipart_request_queue(m)
                  [] m.mtype = "GROUP" -> ofl_msg_pack_multipart_request_group(m)
                  [] m.mtype \in {"METER", "METER_CONFIG"} ->
                       ofl_msg_pack_meter_multipart_request(m)
                  [] m.mtype = "TABLE_FEATURES" ->
                       ofl_msg_pack_multipart_request_table_features(m)
    IN Multipart(m, body)

ofl_msg_unpack_multipart_request(c) ==
    LET h == Skip(c, 8)
        type == ntohs(h, "type")
        b == Take(c, 16)
        body == CASE type \in EmptyRequests -> ofl_msg_unpack_multipart_request_empty(b)
                  [] type \in {"FLOW", "AGGREGATE"} -> ofl_msg_unpack_multipart_request_flow(b)
                  [] type = "PORT_STATS" -> ofl_msg_unpack_multipart_request_port(b)
                  [] type = "QUEUE" -> ofl_msg_unpack_multipart_request_queue(b)
                  [] type = "GROUP" -> ofl_msg_unpack_multipart_request_group(b)
                  [] type \in {"METER", "METER_CONFIG"} -> ofl_msg_unpack_meter_multipart_request(b)
                  [] type = "TABLE_FEATURES" -> ofl_msg_unpack_multipart_request_table_features(b)
                  [] OTHER -> Failed("BAD_MULTIPART")
    IN IF c.len < 16 THEN BAD_LEN
       ELSE As(body, LAMBDA v : [mtype |-> type] @@ Ntohs({"flags"}, h) @@ v)

----------------------------------------------------------------------------
(* Multipart replies. *)
Desc == {"mfr_desc", "hw_desc", "sw_desc", "serial_num", "dp_desc"}
Arrays == {"max_groups", "actions"}
MeterWords == {"max_meter", "band_types", "capabilities"}

\* A reply that is a list: the length that the *_ofp_total_len() function gives,
\* and the items one after the other.
List(Pack(_), total, items) == Body(Buffer(total, PackAll(Pack, items).at))

\* The items of a list reply, counted before they are unpacked.
UnpackList(Unpack(_), Step(_), k, c) ==
    As(UnpackCounted(Unpack, Step, c, k), LAMBDA items : [stats |-> items])

UnpackStats(Unpack(_), size, c) ==
    UnpackList(Unpack, LAMBDA x : size, [err |-> OK, n |-> c.len \div size], c)

ofl_msg_pack_multipart_reply_desc(m) == Body(Struct(1056, Bytes(Desc, m)))
ofl_msg_unpack_reply_desc(c) ==
    IF c.len < 1056 THEN BAD_LEN ELSE Done(Copied(Desc, c), Less(c.len, 1056))

ofl_msg_pack_multipart_reply_flow(m) ==
    List(ofl_structs_flow_stats_pack, ofl_structs_flow_stats_ofp_total_len(m.stats), m.stats)
ofl_msg_unpack_multipart_reply_flow(c) ==
    UnpackList(ofl_structs_flow_stats_unpack, LAMBDA x : ntohs(x, "length"),
               ofl_utils_count_ofp_flow_stats(c), c)

ofl_msg_pack_multipart_reply_aggregate(m) ==
    Body(Struct(24, Hton64(Counts, m) @@ Htonl({"flow_count"}, m)))
ofl_msg_unpack_multipart_reply_aggregate(c) ==
    IF c.len < 24 THEN BAD_LEN
    ELSE Done(Ntoh64(Counts, c) @@ Ntohl({"flow_count"}, c), Less(c.len, 24))

ofl_msg_pack_multipart_reply_table(m) ==
    List(ofl_structs_table_stats_pack, 24 * Len(m.stats), m.stats)
ofl_msg_unpack_multipart_reply_table(c) == UnpackStats(ofl_structs_table_stats_unpack, 24, c)

ofl_msg_pack_multipart_reply_port(m) ==
    List(ofl_structs_port_stats_pack, 112 * Len(m.stats), m.stats)
ofl_msg_unpack_multipart_reply_port(c) == UnpackStats(ofl_structs_port_stats_unpack, 112, c)

ofl_msg_pack_multipart_reply_queue(m) ==
    List(ofl_structs_queue_stats_pack, 40 * Len(m.stats), m.stats)
ofl_msg_unpack_multipart_reply_queue(c) == UnpackStats(ofl_structs_queue_stats_unpack, 40, c)

ofl_msg_pack_multipart_reply_group(m) ==
    List(ofl_structs_group_stats_pack, ofl_structs_group_stats_ofp_total_len(m.stats), m.stats)
ofl_msg_unpack_multipart_reply_group(c) ==
    UnpackList(ofl_structs_group_stats_unpack, LAMBDA x : ntohs(x, "length"),
               ofl_utils_count_ofp_group_stats(c), c)

ofl_msg_pack_multipart_reply_group_desc(m) ==
    List(ofl_structs_group_desc_stats_pack,
         ofl_structs_group_desc_stats_ofp_total_len(m.stats), m.stats)
ofl_msg_unpack_multipart_reply_group_desc(c) ==
    UnpackList(ofl_structs_group_desc_stats_unpack, LAMBDA x : ntohs(x, "length"),
               ofl_utils_count_ofp_group_desc_stats(c), c)

\* The four elements of an array are one value.
ofl_msg_pack_multipart_reply_group_features(m) ==
    Body(Struct(40, Htonl({"types", "capabilities"} \cup Arrays, m)))
ofl_msg_unpack_multipart_reply_group_features(c) ==
    IF c.len < 40 THEN BAD_LEN
    ELSE Done(Ntohl({"types", "capabilities"} \cup Arrays, c), Less(c.len, 40))

ofl_msg_pack_multipart_reply_table_features(m) ==
    List(ofl_structs_table_features_pack,
         ofl_structs_table_features_ofp_total_len(m.table_features), m.table_features)
ofl_msg_unpack_multipart_reply_table_features(c) == unpack_table_features(c)

ofl_msg_pack_multipart_reply_meter_stats(m) ==
    List(ofl_structs_meter_stats_pack, ofl_structs_meter_stats_ofp_total_len(m.stats), m.stats)
ofl_msg_unpack_multipart_reply_meter_stats(c) ==
    UnpackList(ofl_structs_meter_stats_unpack, LAMBDA x : ntohs(x, "len"),
               ofl_utils_count_ofp_meter_stats(c), c)

ofl_msg_pack_multipart_reply_meter_conf(m) ==
    List(ofl_structs_meter_conf_pack, ofl_structs_meter_conf_ofp_total_len(m.stats), m.stats)
ofl_msg_unpack_multipart_reply_meter_config(c) ==
    UnpackList(ofl_structs_meter_config_unpack, LAMBDA x : ntohs(x, "length"),
               ofl_utils_count_ofp_meter_config(c), c)

ofl_msg_pack_multipart_reply_port_status_desc(m) ==
    List(ofl_structs_port_pack, 64 * Len(m.stats), m.stats)
ofl_msg_unpack_multipart_reply_port_desc(c) == UnpackStats(ofl_structs_port_unpack, 64, c)

ofl_msg_pack_multipart_reply_meter_features(m) ==
    Body(Struct(16, Htonl(MeterWords, m) @@ Bytes({"max_bands", "max_color"}, m)))
ofl_msg_unpack_multipart_reply_meter_features(c) ==
    IF c.len < 16 THEN BAD_LEN
    ELSE Done(Ntohl(MeterWords, c) @@ Copied({"max_bands", "max_color"}, c), Less(c.len, 16))

ofl_msg_pack_multipart_reply(m) ==
    LET body == CASE m.mtype = "DESC" -> ofl_msg_pack_multipart_reply_desc(m)
                  [] m.mtype = "FLOW" -> ofl_msg_pack_multipart_reply_flow(m)
                  [] m.mtype = "AGGREGATE" -> ofl_msg_pack_multipart_reply_aggregate(m)
                  [] m.mtype = "TABLE" -> ofl_msg_pack_multipart_reply_table(m)
                  [] m.mtype = "PORT_STATS" -> ofl_msg_pack_multipart_reply_port(m)
                  [] m.mtype = "QUEUE" -> ofl_msg_pack_multipart_reply_queue(m)
                  [] m.mtype = "GROUP" -> ofl_msg_pack_multipart_reply_group(m)
                  [] m.mtype = "GROUP_DESC" -> ofl_msg_pack_multipart_reply_group_desc(m)
                  [] m.mtype = "GROUP_FEATURES" -> ofl_msg_pack_multipart_reply_group_features(m)
                  [] m.mtype = "TABLE_FEATURES" -> ofl_msg_pack_multipart_reply_table_features(m)
                  [] m.mtype = "METER" -> ofl_msg_pack_multipart_reply_meter_stats(m)
                  [] m.mtype = "METER_CONFIG" -> ofl_msg_pack_multipart_reply_meter_conf(m)
                  [] m.mtype = "METER_FEATURES" -> ofl_msg_pack_multipart_reply_meter_features(m)
                  [] m.mtype = "PORT_DESC" -> ofl_msg_pack_multipart_reply_port_status_desc(m)
    IN Multipart(m, body)

ofl_msg_unpack_multipart_reply(c) ==
    LET h == Skip(c, 8)
        type == ntohs(h, "type")
        b == Take(c, 16)
        body == CASE type = "DESC" -> ofl_msg_unpack_reply_desc(b)
                  [] type = "FLOW" -> ofl_msg_unpack_multipart_reply_flow(b)
                  [] type = "AGGREGATE" -> ofl_msg_unpack_multipart_reply_aggregate(b)
                  [] type = "TABLE" -> ofl_msg_unpack_multipart_reply_table(b)
                  [] type = "PORT_STATS" -> ofl_msg_unpack_multipart_reply_port(b)
                  [] type = "QUEUE" -> ofl_msg_unpack_multipart_reply_queue(b)
                  [] type = "GROUP" -> ofl_msg_unpack_multipart_reply_group(b)
                  [] type = "GROUP_DESC" -> ofl_msg_unpack_multipart_reply_group_desc(b)
                  [] type = "GROUP_FEATURES" -> ofl_msg_unpack_multipart_reply_group_features(b)
                  [] type = "TABLE_FEATURES" -> ofl_msg_unpack_multipart_reply_table_features(b)
                  [] type = "METER" -> ofl_msg_unpack_multipart_reply_meter_stats(b)
                  [] type = "METER_CONFIG" -> ofl_msg_unpack_multipart_reply_meter_config(b)
                  [] type = "METER_FEATURES" -> ofl_msg_unpack_multipart_reply_meter_features(b)
                  [] type = "PORT_DESC" -> ofl_msg_unpack_multipart_reply_port_desc(b)
                  [] OTHER -> Failed("BAD_MULTIPART")
    IN IF c.len < 16 THEN BAD_LEN
       ELSE As(body, LAMBDA v : [mtype |-> type] @@ Ntohs({"flags"}, h) @@ v)

----------------------------------------------------------------------------
(* Experimenter messages (oflib-exp): vendor and subtype follow the header. *)
QueueCommands == {"QUEUE_MODIFY", "QUEUE_DELETE"}
Roles == {"NXT_ROLE_REQUEST", "NXT_ROLE_REPLY"}
Extension(m) == [vendor |-> <<32, m.experimenter_id>>, subtype |-> <<32, m.etype>>]

ofl_exp_openflow_msg_pack(m) ==
    CASE m.etype \in QueueCommands ->
           Buffer(24 + ofl_structs_packet_queue_ofp_len(m.queue),
                  At(8, Struct(16, Extension(m) @@ [port |-> <<32, m.port_id>>]))
                  @@ At(24, ofl_structs_packet_queue_pack(m.queue)))
      [] m.etype = "SET_DESC" -> Fixed(272, Extension(m) @@ Bytes({"dp_desc"}, m))

ofl_exp_openflow_msg_unpack(c) ==
    LET b == Skip(c, 8)
        type == ntohl(b, "subtype")
        Message(v) == [experimenter_id |-> ntohl(b, "vendor"), etype |-> type] @@ v
    IN CASE c.len < 16 -> BAD_LEN
         [] type \in QueueCommands /\ c.len < 24 -> BAD_LEN
         [] type \in QueueCommands /\ c.len >= 24 ->
              As(ofl_structs_packet_queue_unpack(Take(c, 24)),
                 LAMBDA q : Message([port_id |-> ntohl(b, "port"), queue |-> q]))
         [] type = "SET_DESC" ->
              IF c.len < 272 THEN BAD_LEN
              ELSE Done(Message(Copied({"dp_desc"}, b)), Less(c.len, 272))
         [] OTHER -> Failed("BAD_EXPERIMENTER")

ofl_exp_nicira_msg_pack(m) == Fixed(20, Extension(m) @@ Htonl({"role"}, m))

ofl_exp_nicira_msg_unpack(c) ==
    LET b == Skip(c, 8)
        type == ntohl(b, "subtype")
    IN CASE c.len < 16 -> BAD_LEN
         [] type \notin Roles -> Failed("BAD_EXPERIMENTER")
         [] c.len < 20 -> BAD_LEN
         [] OTHER -> Done([experimenter_id |-> ntohl(b, "vendor"), etype |-> type]
                          @@ Ntohl({"role"}, b), Less(c.len, 20))

ofl_exp_msg_pack(m) ==
    IF m.experimenter_id = "OPENFLOW" THEN ofl_exp_openflow_msg_pack(m)
    ELSE ofl_exp_nicira_msg_pack(m)

ofl_exp_msg_unpack(c) ==
    LET id == ntohl(Skip(c, 8), "vendor")
    IN CASE c.len < 16 -> BAD_LEN
         [] id = "OPENFLOW" -> ofl_exp_openflow_msg_unpack(c)
         [] id = "NX" -> ofl_exp_nicira_msg_unpack(c)
         [] OTHER -> Failed("BAD_EXPERIMENTER")

----------------------------------------------------------------------------
(* The whole message. *)
OFP_VERSION == 4
Empty == {"HELLO", "FEATURES_REQUEST", "GET_CONFIG_REQUEST", "GET_ASYNC_REQUEST",
          "BARRIER_REQUEST", "BARRIER_REPLY"}

\* ofl_msg_pack(): the header is written last, with the length of the buffer.
ofl_msg_pack(m, xid) ==
    LET b == CASE m.type \in Empty -> ofl_msg_pack_empty(m)
               [] m.type = "ERROR" -> ofl_msg_pack_error(m)
               [] m.type \in {"ECHO_REQUEST", "ECHO_REPLY"} -> ofl_msg_pack_echo(m)
               [] m.type = "EXPERIMENTER" -> ofl_exp_msg_pack(m)
               [] m.type = "FEATURES_REPLY" -> ofl_msg_pack_features_reply(m)
               [] m.type = "GET_CONFIG_REPLY" -> ofl_msg_pack_get_config_reply(m)
               [] m.type = "SET_CONFIG" -> ofl_msg_pack_set_config(m)
               [] m.type = "PACKET_IN" -> ofl_msg_pack_packet_in(m)
               [] m.type = "FLOW_REMOVED" -> ofl_msg_pack_flow_removed(m)
               [] m.type = "PORT_STATUS" -> ofl_msg_pack_port_status(m)
               [] m.type \in {"GET_ASYNC_REPLY", "SET_ASYNC"} -> ofl_msg_pack_async_config(m)
               [] m.type = "PACKET_OUT" -> ofl_msg_pack_packet_out(m)
               [] m.type = "FLOW_MOD" -> ofl_msg_pack_flow_mod(m)
               [] m.type = "GROUP_MOD" -> ofl_msg_pack_group_mod(m)
               [] m.type = "PORT_MOD" -> ofl_msg_pack_port_mod(m)
               [] m.type = "TABLE_MOD" -> ofl_msg_pack_table_mod(m)
               [] m.type = "METER_MOD" -> ofl_msg_pack_meter_mod(m)
               [] m.type = "MULTIPART_REQUEST" -> ofl_msg_pack_multipart_request(m)
               [] m.type = "MULTIPART_REPLY" -> ofl_msg_pack_multipart_reply(m)
               [] m.type = "QUEUE_GET_CONFIG_REQUEST" -> ofl_msg_pack_queue_get_config_request(m)
               [] m.type = "QUEUE_GET_CONFIG_REPLY" -> ofl_msg_pack_queue_get_config_reply(m)
               [] m.type \in {"ROLE_REQUEST", "ROLE_REPLY"} -> ofl_msg_pack_role_request(m)
        Headed(p) == Buffer(p.len, p.at @@ Struct(8, [version |-> OFP_VERSION, type |-> m.type,
                                                      length |-> <<16, p.len>>, xid |-> <<32, xid>>]).at)
    IN Headed(b)

\* ofl_msg_unpack(): bytes that are left are only logged.
ofl_msg_unpack(c) ==
    LET type == Field(c, "type")
        r == CASE type \in Empty -> ofl_msg_unpack_empty(c)
               [] type = "ERROR" -> ofl_msg_unpack_error(c)
               [] type \in {"ECHO_REQUEST", "ECHO_REPLY"} -> ofl_msg_unpack_echo(c)
               [] type = "EXPERIMENTER" -> ofl_exp_msg_unpack(c)
               [] type = "FEATURES_REPLY" -> ofl_msg_unpack_features_reply(c)
               [] type = "GET_CONFIG_REPLY" -> ofl_msg_unpack_get_config_reply(c)
               [] type = "SET_CONFIG" -> ofl_msg_unpack_set_config(c)
               [] type = "PACKET_IN" -> ofl_msg_unpack_packet_in(c)
               [] type = "FLOW_REMOVED" -> ofl_msg_unpack_flow_removed(c)
               [] type = "PORT_STATUS" -> ofl_msg_unpack_port_status(c)
               [] type \in {"GET_ASYNC_REPLY", "SET_ASYNC"} -> ofl_msg_unpack_async_config(c)
               [] type = "PACKET_OUT" -> ofl_msg_unpack_packet_out(c)
               [] type = "FLOW_MOD" -> ofl_msg_unpack_flow_mod(c)
               [] type = "GROUP_MOD" -> ofl_msg_unpack_group_mod(c)
               [] type = "PORT_MOD" -> ofl_msg_unpack_port_mod(c)
               [] type = "TABLE_MOD" -> ofl_msg_unpack_table_mod(c)
               [] type = "METER_MOD" -> ofl_msg_unpack_meter_mod(c)
               [] type = "MULTIPART_REQUEST" -> ofl_msg_unpack_multipart_request(c)
               [] type = "MULTIPART_REPLY" -> ofl_msg_unpack_multipart_reply(c)
               [] type = "QUEUE_GET_CONFIG_REQUEST" -> ofl_msg_unpack_queue_get_config_request(c)
               [] type = "QUEUE_GET_CONFIG_REPLY" -> ofl_msg_unpack_queue_get_config_reply(c)
               [] type \in {"ROLE_REQUEST", "ROLE_REPLY"} -> ofl_msg_unpack_role_request(c)
               [] OTHER -> Failed("BAD_TYPE")
    IN CASE c.len < 8 -> BAD_LEN
         [] Field(c, "version") # OFP_VERSION -> Failed("INCOMPATIBLE")
         [] c.len # ntohs(c, "length") -> BAD_LEN
         [] OTHER -> As(r, LAMBDA v : [type |-> type] @@ v)

----------------------------------------------------------------------------
(* A message that one program packs and another one unpacks.               *)
VARIABLES msg,         \* the message of the sender
          wire,        \* the bytes, or Nothing
          received     \* what the receiver unpacked, or Unread

codecVars == <<msg, wire, received>>

----------------------------------------------------------------------------
(* The messages.                                                           *)
\* Every field of a structure holds a number of its own.
Sym(names) == FoldSet(LAMBDA f, r : r @@ (f :> 100 + Cardinality(DOMAIN r)), << >>, names)

MatchOf(tlvs) ==
    [length |-> FoldLeft(LAMBDA n, t : n + 4 + OXM_LENGTH(t.header), 0, tlvs), tlvs |-> tlvs]
Is(f, v) == Tlv(<<f, FALSE>>, v, 0)
Masked(f, v, mask) == Tlv(<<f, TRUE>>, v, mask)

FieldSets ==
    { {Is("IN_PORT", 1), Is("ETH_TYPE", ETH_IPV6), Is("IP_PROTO", ICMPV6),
       Is("ICMPV6_TYPE", NEIGHSOL), Is("IPV6_ND_TARGET", 9)},
      {Is("ETH_TYPE", ETH_IPV6), Is("IP_PROTO", ICMPV6), Is("ICMPV6_TYPE", NEIGHADV),
       Is("IPV6_ND_TLL", 9), Masked("IPV6_FLABEL", 4, 12)},
      {Is("ETH_TYPE", ETH_IP), Is("IP_PROTO", TCP), Is("TCP_SRC", 80),
       Masked("IPV4_DST", 8, 12), Masked("METADATA", 2, 3)},
      {Is("VLAN_VID", 4097), Is("VLAN_PCP", 3), Is("ETH_TYPE", ETH_MPLS), Is("MPLS_LABEL", 5)},
      {Is("ETH_TYPE", ETH_ARP), Is("ARP_OP", 1), Masked("ARP_SPA", 8, 8), Is("ARP_THA", 2)},
      {Is("ETH_TYPE", ETH_IP), Is("IP_PROTO", UDP), Is("UDP_DST", 67), Is("IP_DSCP", 3)},
      {Masked("VLAN_VID", 4096, 4096), Is("TUNNEL_ID", 6), Masked("ETH_DST", 1, 1),
       Is("ETH_SRC", 2)} }

Orders == UNION {{MatchOf(s) : s \in SetToSeqs(fs)} : fs \in FieldSets}
SomeMatches == {EmptyMatch, MatchOf(<<Is("IN_PORT", 1)>>),
                MatchOf(<<Is("ETH_TYPE", ETH_ARP), Is("ARP_OP", 1)>>)}

Outputs == <<[type |-> "OUTPUT", port |-> 2, max_len |-> 9]>>
Every ==
    <<[type |-> "POP_VLAN"], [type |-> "PUSH_MPLS", ethertype |-> ETH_MPLS],
      [type |-> "SET_FIELD", field |-> [header |-> <<"UDP_DST", FALSE>>, value |-> 3]],
      [type |-> "SET_FIELD", field |-> [header |-> <<"ETH_DST", FALSE>>, value |-> 4]],
      [type |-> "SET_FIELD", field |-> [header |-> <<"IPV6_SRC", FALSE>>, value |-> 5]],
      [type |-> "SET_MPLS_TTL", mpls_ttl |-> 9], [type |-> "POP_MPLS", ethertype |-> ETH_IP],
      [type |-> "SET_QUEUE", queue_id |-> 1], [type |-> "GROUP", group_id |-> 3],
      [type |-> "SET_NW_TTL", nw_ttl |-> 8]>> \o Outputs
ActionLists == {<< >>, Outputs, Every}

InstructionLists ==
    {<< >>,
     <<[type |-> "METER", meter_id |-> 1], [type |-> "APPLY_ACTIONS", actions |-> Every],
       [type |-> "CLEAR_ACTIONS"], [type |-> "WRITE_ACTIONS", actions |-> << >>],
       [type |-> "WRITE_METADATA"] @@ Sym({"metadata", "metadata_mask"}),
       [type |-> "GOTO_TABLE", table_id |-> 3]>>}

Bands == <<[type |-> "DROP"] @@ Sym({"rate", "burst_size"}),
           [type |-> "DSCP_REMARK", prec_level |-> 1] @@ Sym({"rate", "burst_size"}),
           [type |-> "EXPERIMENTER", experimenter |-> "NX"] @@ Sym({"rate", "burst_size"})>>
BandLists == {<< >>, Bands}

Bucket(weight, as) ==
    [weight |-> weight, actions |-> as] @@ Sym({"watch_port", "watch_group"})
Weight(gtype) == IF gtype = "SELECT" THEN 5 ELSE 0
Buckets(gtype) == {<<Bucket(Weight(gtype), Every)>>,
                   <<Bucket(Weight(gtype), Outputs), Bucket(Weight(gtype), << >>)>>}

FlowStat(match, is) ==
    [table_id |-> 1, match |-> match, instructions |-> is]
    @@ Sym(Duration \cup FlowShorts \cup FlowCounts)

Port(n) == [port_no |-> n] @@ Sym({"hw_addr", "name"} \cup PortWords)
Queue(n, ps) == [queue_id |-> n, properties |-> ps]
QueueProps == <<[type |-> "MIN_RATE", rate |-> 10], [type |-> "MAX_RATE", rate |-> 20],
                [type |-> "EXPERIMENTER"]>>

\* The features of a table, without the properties that list instructions (they
\* are packed as no bytes).
PropertyTypes == <<"NEXT_TABLES", "NEXT_TABLES_MISS", "WRITE_ACTIONS", "APPLY_ACTIONS_MISS",
                   "MATCH", "WILDCARDS", "WRITE_SETFIELD", "APPLY_SETFIELD_MISS">>
flow_table_features(id) ==
    LET ps == [i \in DOMAIN PropertyTypes |-> flow_table_create_property(PropertyTypes[i], id)]
    IN [table_id |-> id, properties |-> ps,
        length |-> 64 + ofl_structs_table_features_properties_ofp_total_len(ps)]
       @@ Sym({"name", "metadata_match", "metadata_write", "config", "max_entries"})

ControlMessages ==
    {[type |-> t] : t \in Empty}
    \cup {[type |-> "ERROR", etype |-> "t", code |-> "c", data |-> d] : d \in {<<1, 2>>, << >>}}
    \cup {[type |-> "ECHO_REQUEST", data |-> d] : d \in {<<1, 2, 3>>, << >>}}
    \cup {[type |-> "ECHO_REPLY", data |-> << >>],
          [type |-> "ROLE_REQUEST"] @@ Sym({"role", "generation_id"}),
          [type |-> "FEATURES_REPLY"] @@ Sym({"datapath_id", "n_buffers", "capabilities",
                                             "n_tables", "auxiliary_id"}),
          [type |-> "GET_CONFIG_REPLY"] @@ Sym({"flags", "miss_send_len"}),
          [type |-> "SET_CONFIG"] @@ Sym({"flags", "miss_send_len"}),
          [type |-> "SET_ASYNC"] @@ Sym(AsyncMasks),
          [type |-> "PORT_MOD"] @@ Sym({"port_no", "config", "mask", "advertise", "hw_addr"}),
          [type |-> "TABLE_MOD", table_id |-> 2, config |-> 8],
          [type |-> "PORT_STATUS", reason |-> "ADD", desc |-> Port(1)],
          [type |-> "QUEUE_GET_CONFIG_REQUEST", port |-> 3],
          [type |-> "EXPERIMENTER", experimenter_id |-> "OPENFLOW", etype |-> "SET_DESC",
           dp_desc |-> "dp"],
          [type |-> "EXPERIMENTER", experimenter_id |-> "OPENFLOW", etype |-> "QUEUE_MODIFY",
           port_id |-> 3, queue |-> Queue(1, QueueProps)],
          [type |-> "EXPERIMENTER", experimenter_id |-> "NX", etype |-> "NXT_ROLE_REPLY",
           role |-> "MASTER"]}
    \cup {[type |-> "QUEUE_GET_CONFIG_REPLY", port |-> 3, queues |-> qs] :
            qs \in {<< >>, <<Queue(1, QueueProps), Queue(2, << >>)>>}}

ModMessages ==
    {[type |-> "FLOW_MOD", table_id |-> 1, command |-> "ADD", match |-> m, instructions |-> is]
       @@ Sym({"cookie", "cookie_mask"} \cup ModShorts \cup ModWords) :
       m \in SomeMatches, is \in InstructionLists}
    \cup {[type |-> "FLOW_MOD", table_id |-> OFPTT_ALL, command |-> "DELETE", match |-> m,
           instructions |-> << >>] @@ Sym({"cookie", "cookie_mask"} \cup ModShorts \cup ModWords) :
            m \in Orders}
    \cup {[type |-> "PACKET_IN", table_id |-> 0, match |-> m, data |-> d]
            @@ Sym({"buffer_id", "total_len", "reason", "cookie"}) :
            m \in SomeMatches, d \in {<< >>, <<1, 2, 3>>}}
    \cup {[type |-> "FLOW_REMOVED", reason |-> "IDLE",
           stats |-> [table_id |-> 1, match |-> m, instructions |-> << >>, hard_timeout |-> 0]
                     @@ Sym(Duration \cup RemovedShorts \cup FlowCounts)] : m \in SomeMatches}
    \cup {[type |-> "PACKET_OUT", buffer_id |-> NO_BUFFER, in_port |-> 1, actions |-> as,
           data |-> d] : as \in ActionLists, d \in {<< >>, <<1, 2, 3, 4, 5>>}}
    \cup {[type |-> "PACKET_OUT", buffer_id |-> 5, in_port |-> 1, actions |-> as,
           data |-> << >>] : as \in ActionLists}
    \cup UNION {{[type |-> "GROUP_MOD", command |-> "ADD", gtype |-> g, group_id |-> 3,
                  buckets |-> bs] : bs \in Buckets(g)} : g \in {"ALL", "SELECT", "FF"}}
    \cup {[type |-> "GROUP_MOD", command |-> "DELETE", gtype |-> "ALL", group_id |-> OFPG_ALL,
           buckets |-> << >>]}
    \cup {[type |-> "METER_MOD", command |-> "ADD", flags |-> 1, meter_id |-> 4, bands |-> bs] :
            bs \in BandLists}

Request(mtype, body) == [type |-> "MULTIPART_REQUEST", mtype |-> mtype, flags |-> 7] @@ body
FlowRequest(m) == [table_id |-> 1, match |-> m]
                  @@ Sym({"out_port", "out_group", "cookie", "cookie_mask"})

\* Flow and aggregate requests with matches of a multiple of eight bytes only.
WordMatches == {EmptyMatch, MatchOf(<<Is("IN_PORT", 1)>>),
                MatchOf(<<Is("ETH_SRC", 1), Is("ETH_TYPE", ETH_IP)>>)}
Requests ==
    {Request(t, << >>) : t \in EmptyRequests}
    \cup {Request(t, FlowRequest(m)) : t \in {"FLOW", "AGGREGATE"}, m \in WordMatches}
    \cup {Request("PORT_STATS", [port_no |-> p]) : p \in {1, OFPP_ANY}}
    \cup {Request("QUEUE", [port_no |-> 1, queue_id |-> 2]),
          Request("GROUP", [group_id |-> OFPG_ALL]), Request("METER", [meter_id |-> 2]),
          Request("METER_CONFIG", [meter_id |-> OFPM_ALL]),
          Request("TABLE_FEATURES", [table_features |-> << >>]),
          Request("TABLE_FEATURES", [table_features |-> <<flow_table_features(1)>>])}

Reply(mtype, body) == [type |-> "MULTIPART_REPLY", mtype |-> mtype, flags |-> 7] @@ body
Stats(mtype, lists) == {Reply(mtype, [stats |-> ss]) : ss \in lists}
UpTo2(x, y) == {<< >>, <<x>>, <<x, y>>}

GroupStat(id, n) ==
    [group_id |-> id, counters |-> [i \in 1..n |-> [packet_count |-> i, byte_count |-> 10 * i]]]
    @@ Sym({"ref_count"} \cup Counts \cup Duration)
MeterStat(id, n) ==
    [meter_id |-> id, len |-> 40 + 16 * n,
     band_stats |-> [i \in 1..n |-> [packet_band_count |-> i, byte_band_count |-> 10 * i]]]
    @@ Sym({"flow_count"} \cup InCounts \cup Duration)
MeterConf(id, bs) == [meter_id |-> id, flags |-> 7, bands |-> bs,
                      length |-> 8 + ofl_structs_meter_bands_ofp_total_len(bs)]
QueueStat(n) == [port_no |-> n, queue_id |-> 1] @@ Sym(QueueCounts \cup Duration)
PortStat(n) == [port_no |-> n] @@ Sym(PortCounts \cup Duration)
TableStat(n) == [table_id |-> n] @@ Sym({"active_count", "lookup_count", "matched_count"})

Replies ==
    Stats("FLOW", UNION {UpTo2(FlowStat(m, is), FlowStat(EmptyMatch, << >>)) :
                           m \in SomeMatches, is \in InstructionLists})
    \cup Stats("TABLE", UpTo2(TableStat(0), TableStat(1)))
    \cup Stats("PORT_STATS", UpTo2(PortStat(1), PortStat(OFPP_LOCAL)))
    \cup Stats("QUEUE", UpTo2(QueueStat(1), QueueStat(2)))
    \cup Stats("GROUP", UpTo2(GroupStat(1, 2), GroupStat(2, 0)))
    \cup Stats("GROUP_DESC",
               UNION {{<<[type |-> g, group_id |-> 4, buckets |-> bs],
                         [type |-> "ALL", group_id |-> 5, buckets |-> << >>]>> :
                         bs \in Buckets(g)} : g \in {"ALL", "SELECT"}})
    \cup Stats("METER", UpTo2(MeterStat(1, 2), MeterStat(2, 0)))
    \cup Stats("METER_CONFIG", UpTo2(MeterConf(1, Bands), MeterConf(2, << >>)))
    \cup Stats("PORT_DESC", UpTo2(Port(1), Port(OFPP_LOCAL)))
    \cup {Reply("DESC", Sym(Desc)), Reply("AGGREGATE", Sym(Counts \cup {"flow_count"})),
          Reply("GROUP_FEATURES", Sym({"types", "capabilities"} \cup Arrays)),
          Reply("METER_FEATURES", Sym(MeterWords \cup {"max_bands", "max_color"})),
          Reply("TABLE_FEATURES",
                [table_features |-> <<flow_table_features(0), flow_table_features(3)>>])}

\* The messages that are sent.
Messages == ControlMessages \cup ModMessages \cup Requests \cup Replies

----------------------------------------------------------------------------
Unread == [err |-> "unread", v |-> Garbled, len |-> 0]

Arrived == received.err # "unread"

CodecInit ==
    /\ msg \in Messages
    /\ wire = Nothing
    /\ received = Unread

Send ==
    /\ wire = Nothing
    /\ wire' = ofl_msg_pack(msg, 7)
    /\ UNCHANGED <<msg, received>>

Receive ==
    /\ wire # Nothing
    /\ ~Arrived
    /\ received' = ofl_msg_unpack(Cursor(wire))
    /\ UNCHANGED <<msg, wire>>

CodecNext == Send \/ Receive

\* The fields of a match are kept in a hash map: their order says nothing.
Unordered(r) == [f \in DOMAIN r |-> IF f = "match" THEN [length |-> r.match.length,
                                                         tlvs |-> Range(r.match.tlvs),
                                                         n |-> Len(r.match.tlvs)]
                                    ELSE r[f]]

SameMessage(a, b) ==
    LET Plainly(m) ==
          CASE m.type = "FLOW_REMOVED" -> [m EXCEPT !.stats = Unordered(@)]
            [] m.type = "MULTIPART_REPLY" /\ m.mtype = "FLOW" ->
                 [m EXCEPT !.stats = [i \in DOMAIN @ |-> Unordered(@[i])]]
            [] OTHER -> Unordered(m)
    IN Plainly(a) = Plainly(b)

----------------------------------------------------------------------------
\* What ofl_msg_unpack() gives the receiver is the message that the sender gave
\* to ofl_msg_pack(), whatever the order of the match's hash map.
RoundTrip == Arrived => received.err = OK /\ SameMessage(received.v, msg)

\* ofl_msg_pack() writes no structure past the *buf_len bytes it allocated, and
\* none over another: lengths are computed by other functions than the ones that
\* write.
PackedInPlace == wire # Nothing => Fits(wire)

\* "At this point the whole message must be consumed, and len should equal to
\* zero" (ofl_msg_unpack()).
WholeMessageConsumed == Arrived /\ received.err = OK => received.len = 0
=============================================================================
