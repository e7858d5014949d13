------------------------------ MODULE Requests ------------------------------
(***************************************************************************)
(* The requests of controllers: the dispatch of dp_control.c, the handlers *)
(* that work on all tables, groups and meters together (pipeline.c,        *)
(* flow_table.c, group_table.c, meter_table.c), the answer to each and who *)
(* frees the message (remote_rconn_run() of datapath.c).                   *)
(*                                                                         *)
(* A match is one of a few names or AnyId; a cookie is a set of bits; an   *)
(* action is its type and what it is about, a bucket a list of actions, a  *)
(* group a list of buckets, and a meter the number of its bands.  A reply  *)
(* is its type, the number of entries it announces and the entries it was  *)
(* given.  Left out: what packets go through (Pipeline, PacketEdit), the   *)
(* timeouts of flows and the counters (FlowTable), and the state of roles, *)
(* masks, ports, queues and table features, of whose handlers only the     *)
(* fate of the message is here (DatapathRemotes, DpPorts, TableFeatures).  *)
(***************************************************************************)
EXTENDS Naturals, Sequences, SequencesExt, FiniteSets, FiniteSetsExt, Functions

CONSTANTS
    PIPELINE_TABLES,
    MAX_ENTRIES,             \* FLOW_TABLE_MAX_ENTRIES
    GROUP_TABLE_MAX_ENTRIES, GROUP_TABLE_MAX_BUCKETS,
    DEFAULT_MAX_METER, METER_TABLE_MAX_BANDS,
    Garbage,                 \* what bands_num may be in memory that is not set
    WORD,                    \* number of values of a size_t
    PortNumbers,             \* ports up to OFPP_MAX
    Ports,                   \* those of the datapath
    Groups, Buffers,
    Prereqs,                 \* the fields and matches that oxm_prereqs_ok() accepts
    Sessions                 \* sets of messages: what a controller keeps sending

Tables == 0 .. PIPELINE_TABLES - 1
AnyId == "any"   \* the empty match, OFPG_ANY, OFPG_ALL, OFPM_ALL, OFPP_ANY
ALL == 255       \* all tables
NO_BUFFER == "no buffer"

VARIABLES
    dp,       \* tables, groups, meters, configuration, buffers, controller's signals
    session,  \* which messages arrive
    answers,  \* FLOW_REMOVEDs and replies sent while the last was handled
    memory    \* its type and parts, those that were freed, in order, and that were kept

reqVars == <<dp, session, answers, memory>>

Nothing == [removed |-> {}, replies |-> <<>>]

RequestsInit ==
    /\ \E b \in Garbage :
          dp = [flows |-> [t \in Tables |-> <<>>], table_config |-> [t \in Tables |-> 0],
                groups |-> [g \in {} |-> <<>>], meters |-> [m \in {} |-> 0], bands_num |-> b,
                config |-> [flags |-> 0, miss_send_len |-> 128], buffers |-> {},
                signals |-> {}, shared |-> FALSE]
    /\ session \in DOMAIN Sessions /\ answers = Nothing
    /\ memory = [type |-> "none", parts |-> <<>>, freed |-> <<>>, kept |-> {}]
-----------------------------------------------------------------------------
(* Messages and outcomes.  An outcome is the datapath afterwards, the error *)
(* that is returned, the FLOW_REMOVEDs and replies that were sent, and what *)
(* became of the message's parts.  A handler is the set of its outcomes.    *)

PartsOf(msg) ==
    CASE msg.type = "FLOW_MOD"   -> <<"match", "instructions", "msg">>
      [] msg.type = "GROUP_MOD"  -> <<"buckets", "msg">>
      [] msg.type = "METER_MOD"  -> <<"bands", "msg">>
      [] msg.type = "PACKET_OUT" -> <<"data", "actions", "msg">>
      [] msg.type = "SET_CONFIG" -> <<"config", "msg">>
      [] msg.type \in {"ECHO_REQUEST", "ECHO_REPLY", "ERROR"} -> <<"data", "msg">>
      [] OTHER                   -> <<"msg">>

ofl_msg_free(msg) == PartsOf(msg)
Without(msg, parts) == SelectSeq(PartsOf(msg), LAMBDA p : p \notin parts)

Fails(d, e) ==
    [dp |-> d, error |-> e, removed |-> {}, replies |-> <<>>, freed |-> <<>>, kept |-> {}]
Succeeds(d, removed, freed, kept) ==
    [dp |-> d, error |-> "none", removed |-> removed, replies |-> <<>>, freed |-> freed, kept |-> kept]
Does(d, msg) == Succeeds(d, {}, ofl_msg_free(msg), {})
Replies(d, msg, type, num, entries) ==
    [Does(d, msg) EXCEPT !.replies = <<[type |-> type, num |-> num, entries |-> entries]>>]
Answers(d, msg, type) == Replies(d, msg, type, 0, {})

FirstError(errors) ==
    LET bad == SelectSeq(errors, LAMBDA e : e # "none")
    IN  IF bad = <<>> THEN "none" ELSE Head(bad)

\* What the actions of a type are about: ports, groups or fields.
About(type, actions) == {a[2] : a \in {b \in Range(actions) : b[1] = type}}

dp_actions_validate(d, actions) ==
    LET error(a) == IF a[1] = "OUTPUT" /\ a[2] \in PortNumbers \ Ports THEN "BAD_OUT_PORT"
                    ELSE IF a[1] = "GROUP" /\ a[2] \notin DOMAIN d.groups THEN "BAD_OUT_GROUP"
                    ELSE "none"
    IN  FirstError([n \in DOMAIN actions |-> error(actions[n])])

dp_actions_check_set_field_req(match, actions) ==
    IF \A f \in About("SET_FIELD", actions) : <<f, match>> \in Prereqs THEN "none"
    ELSE "MATCH_INCONSISTENT"

\* match_std_nonstrict(), match_std_overlap(); match_std_strict() is equality.
match_std_nonstrict(wide, narrow) == wide \in {AnyId, narrow}
match_std_overlap(a, b) == a = b \/ AnyId \in {a, b}
-----------------------------------------------------------------------------
(* Flow tables: lists of entries by descending priority.                    *)

\* What the instructions apply or write is about.
Acting == {"APPLY_ACTIONS", "WRITE_ACTIONS"}
OutTo(type, insts) == UNION {About(type, i[2]) : i \in {j \in Range(insts) : j[1] \in Acting}}
Metered(insts) == {i[2] : i \in {j \in Range(insts) : j[1] = "METER"}}

flow_entry_has_out_port(f, p) == p \in OutTo("OUTPUT", f.insts)
flow_entry_has_out_group(f, g) == g \in OutTo("GROUP", f.insts)
Filtered(f, msg) ==
    /\ msg.out_port = AnyId \/ flow_entry_has_out_port(f, msg.out_port)
    /\ msg.out_group = AnyId \/ flow_entry_has_out_group(f, msg.out_group)

flow_entry_matches(f, mod, strict, check_cookie) ==
    /\ check_cookie => f.cookie \cap mod.cookie_mask = mod.cookie \cap mod.cookie_mask
    /\ IF strict THEN f.priority = mod.priority /\ f.match = mod.match
       ELSE match_std_nonstrict(mod.match, f.match)

flow_entry_overlaps(f, mod) ==
    f.priority = mod.priority /\ Filtered(f, mod) /\ match_std_overlap(f.match, mod.match)

\* The meters are those that know of the flow: init_meter_refs().
flow_entry_create(d, mod) ==
    [table_id |-> mod.table_id, match |-> mod.match, priority |-> mod.priority,
     cookie |-> mod.cookie, insts |-> mod.insts,
     meters |-> Metered(mod.insts) \cap DOMAIN d.meters, send_removed |-> mod.send_removed]

\* What became of a table, and what it keeps of the message.
Table(flows, error, removed, kept) ==
    [flows |-> flows, error |-> error, removed |-> removed, kept |-> kept]

flow_table_add(d, t, mod) ==
    LET overlaps(f) == mod.check_overlap /\ flow_entry_overlaps(f, mod)
        equals(f) == flow_entry_matches(f, mod, TRUE, FALSE)
        n == SelectInSeq(t, LAMBDA f : overlaps(f) \/ equals(f) \/ mod.priority > f.priority)
        new == flow_entry_create(d, mod)
        both == {"match", "instructions"}
    IN  IF n # 0 /\ overlaps(t[n]) THEN Table(t, "OVERLAP", {}, {})
        ELSE IF n # 0 /\ equals(t[n]) THEN Table(ReplaceAt(t, n, new), "none", {}, both)
        ELSE IF Len(t) = MAX_ENTRIES THEN Table(t, "TABLE_FULL", {}, {})
        ELSE Table(InsertAt(t, IF n = 0 THEN Len(t) + 1 ELSE n, new), "none", {}, both)

\* flow_entry_replace_instructions() leaves the meters of the flow as they were.
Matching(t, mod, strict) == {n \in DOMAIN t : flow_entry_matches(t[n], mod, strict, TRUE)}
flow_table_modify(t, mod, strict) ==
    LET hit == Matching(t, mod, strict)
    IN  Table([n \in DOMAIN t |-> IF n \in hit THEN [t[n] EXCEPT !.insts = mod.insts] ELSE t[n]],
              "none", {}, IF hit = {} THEN {} ELSE {"instructions"})

\* flow_entry_remove() announces the flows that asked for it.
Announced(flows, reason) == {<<f, reason>> : f \in {g \in flows : g.send_removed}}

flow_table_delete(t, mod, strict) ==
    LET hit(f) == Filtered(f, mod) /\ flow_entry_matches(f, mod, strict, TRUE)
    IN  Table(SelectSeq(t, LAMBDA f : ~hit(f)), "none",
              Announced({f \in Range(t) : hit(f)}, "DELETE"), {})

flow_table_flow_mod(d, t, mod) ==
    CASE mod.command = "ADD"           -> flow_table_add(d, t, mod)
      [] mod.command = "MODIFY"        -> flow_table_modify(t, mod, FALSE)
      [] mod.command = "MODIFY_STRICT" -> flow_table_modify(t, mod, TRUE)
      [] mod.command = "DELETE"        -> flow_table_delete(t, mod, FALSE)
      [] mod.command = "DELETE_STRICT" -> flow_table_delete(t, mod, TRUE)
      [] OTHER -> Table(t, "BAD_COMMAND", {}, {})
-----------------------------------------------------------------------------
(* The pipeline *)

\* The instructions are in the order that qsort() left, which is not fixed:
\* inst_compare() is no order.
InstructionError(d, mod, i) ==
    IF i[1] \in Acting
    THEN FirstError(<<dp_actions_validate(d, i[2]), dp_actions_check_set_field_req(mod.match, i[2])>>)
    ELSE IF i[1] = "GOTO_TABLE" /\ mod.table_id = PIPELINE_TABLES - 1 THEN "UNSUP_INST"
    ELSE "none"

\* A packet that was processed may have been left in buffers for controllers.
Processed(d) == {[d EXCEPT !.buffers = @ \cup b] : b \in SUBSET Buffers}

Adds(mod) == mod.command \in {"ADD", "MODIFY", "MODIFY_STRICT"}
Deletes(mod) == mod.command \in {"DELETE", "DELETE_STRICT"}
Changed(msg) == IF msg.table_id = ALL THEN Tables ELSE {msg.table_id}

\* A buffered packet that a flow mod names is taken, if it is still there.
RunBuffered(d, mod) ==
    IF Adds(mod) /\ mod.buffer_id \in d.buffers
    THEN Processed([d EXCEPT !.buffers = @ \ {mod.buffer_id}]) ELSE {d}

\* The tables after a flow mod.  Entries that one MODIFY changed share the
\* instructions of the message.
Tabled(d, mod, after) ==
    [d EXCEPT !.flows = [t \in Tables |-> IF t \in Changed(mod) THEN after[t].flows ELSE @[t]],
              !.shared = mod.command = "MODIFY"
                            /\ Cardinality(Matching(d.flows[mod.table_id], mod, FALSE)) > 1]

\* Why a flow mod of a controller that may write is refused.
Refused(d, mod, after) ==
    FirstError([n \in DOMAIN mod.insts |-> InstructionError(d, mod, mod.insts[n])]
               \o <<IF mod.table_id = ALL THEN (IF Deletes(mod) THEN "none" ELSE "BAD_TABLE_ID")
                    ELSE after[mod.table_id].error>>)

\* Mutant: the buffered packet is taken before the flow mod is looked at.
RunsBufferFirst(d, mod) ==
    LET after == [t \in Changed(mod) |-> flow_table_flow_mod(d, d.flows[t], mod)]
        e == Refused(d, mod, after)
        kept == UNION {after[t].kept : t \in Changed(mod)}
        removed == UNION {after[t].removed : t \in Changed(mod)}
    IN  IF mod.slave THEN {Fails(d, "IS_SLAVE")}
        ELSE IF e # "none" THEN {Fails(x, e) : x \in RunBuffered(d, mod)}
        ELSE {Succeeds(x, removed, Without(mod, kept), kept) : x \in RunBuffered(Tabled(d, mod, after), mod)}

pipeline_handle_flow_mod(d, mod) ==
    LET after == [t \in Changed(mod) |-> flow_table_flow_mod(d, d.flows[t], mod)]
        e == Refused(d, mod, after)
        kept == UNION {after[t].kept : t \in Changed(mod)}
        removed == UNION {after[t].removed : t \in Changed(mod)}
    IN  IF mod.slave THEN {Fails(d, "IS_SLAVE")}
        ELSE IF e # "none" THEN {Fails(d, e)}
        ELSE {Succeeds(x, removed, Without(mod, kept), kept) : x \in RunBuffered(Tabled(d, mod, after), mod)}

pipeline_handle_table_mod(d, mod) ==
    IF mod.slave THEN Fails(d, "IS_SLAVE")
    ELSE Does([d EXCEPT !.table_config = [t \in Tables |->
                  IF t \in Changed(mod) THEN mod.config ELSE @[t]]], mod)

\* flow_table_stats() and flow_table_aggregate_stats(), which does not look at
\* the match, over one table or all.
flow_table_stats(t, msg) ==
    SelectSeq(t, LAMBDA f : Filtered(f, msg) /\ match_std_nonstrict(msg.match, f.match))
flow_table_aggregate_stats(t, msg) == SelectSeq(t, LAMBDA f : Filtered(f, msg))

TotalLength(lists) == FoldFunction(LAMBDA l, n : Len(l) + n, 0, lists)

pipeline_handle_stats_request_flow(d, msg) ==
    LET found == [t \in Changed(msg) |-> flow_table_stats(d.flows[t], msg)]
    IN  Replies(d, msg, "FLOW", TotalLength(found),
                UNION {Range(found[t]) : t \in Changed(msg)})

pipeline_handle_stats_request_aggregate(d, msg) ==
    Replies(d, msg, "AGGREGATE",
            TotalLength([t \in Changed(msg) |-> flow_table_aggregate_stats(d.flows[t], msg)]), {})

pipeline_handle_stats_request_table(d, msg) ==
    Replies(d, msg, "TABLE", PIPELINE_TABLES, {<<t, Len(d.flows[t])>> : t \in Tables})
-----------------------------------------------------------------------------
(* Groups *)

ForwardTo(buckets) == UNION {About("GROUP", b) : b \in Range(buckets)}
buckets_num(groups) == TotalLength(groups)

\* The groups that can be reached from those in gs.
Reached(groups, gs) ==
    FoldSet(LAMBDA step, seen : seen \cup UNION {ForwardTo(groups[h]) : h \in seen \cap DOMAIN groups},
            gs, Groups)
is_loop_free(groups, mod) == mod.group_id \notin Reached(groups, ForwardTo(mod.buckets))

\* Mutant: the flows stay.
KeepsFlows(flows, gone) == flows

\* The flows that group_entry_destroy() leaves.
WithoutGroups(flows, gone) ==
    [t \in Tables |-> SelectSeq(flows[t], LAMBDA f : OutTo("GROUP", f.insts) \cap gone = {})]
AllFlows(flows) == UNION {Range(flows[t]) : t \in Tables}

\* Groups are destroyed, each with the flows that forward to it.
Destroyed(d, mod, gone) ==
    LET left == WithoutGroups(d.flows, gone)
    IN  Succeeds([d EXCEPT !.groups = [g \in DOMAIN @ \ gone |-> @[g]], !.flows = left],
                 Announced(AllFlows(d.flows) \ AllFlows(left), "GROUP_DELETE"), ofl_msg_free(mod), {})
\* The entry takes the buckets of the message.
Stored(d, mod) ==
    Succeeds([d EXCEPT !.groups = [g \in DOMAIN @ \cup {mod.group_id} |->
                                     IF g = mod.group_id THEN mod.buckets ELSE @[g]]],
             {}, Without(mod, {"buckets"}), {"buckets"})

group_table_add(d, mod) ==
    IF mod.group_id \in DOMAIN d.groups THEN Fails(d, "GROUP_EXISTS")
    ELSE IF Cardinality(DOMAIN d.groups) = GROUP_TABLE_MAX_ENTRIES THEN Fails(d, "OUT_OF_GROUPS")
    ELSE IF buckets_num(d.groups) + Len(mod.buckets) > GROUP_TABLE_MAX_BUCKETS
         THEN Fails(d, "OUT_OF_BUCKETS")
    ELSE Stored(d, mod)

group_table_modify(d, mod) ==
    IF mod.group_id \notin DOMAIN d.groups THEN Fails(d, "UNKNOWN_GROUP")
    ELSE IF buckets_num(d.groups) - Len(d.groups[mod.group_id]) + Len(mod.buckets)
               > GROUP_TABLE_MAX_BUCKETS
         THEN Fails(d, "OUT_OF_BUCKETS")
    ELSE IF ~is_loop_free(d.groups, mod) THEN Fails(d, "LOOP")
    ELSE Stored(d, mod)

\* The entries of one group or meter, or of all; none if it does not exist.
Selected(ids, id) == IF id = AnyId THEN ids ELSE ids \cap {id}
Chained(d, id) == id \in DOMAIN d.groups /\ \E g \in DOMAIN d.groups : id \in ForwardTo(d.groups[g])

\* Mutant: the flows go before the other groups are looked at.
DestroysFirst(d, mod) ==
    LET gone == Selected(DOMAIN d.groups, mod.group_id)
    IN  IF Chained(d, mod.group_id)
        THEN Fails([d EXCEPT !.flows = WithoutGroups(@, gone)], "CHAINING_UNSUPPORTED")
        ELSE Destroyed(d, mod, gone)

group_table_delete(d, mod) ==
    LET gone == Selected(DOMAIN d.groups, mod.group_id)
    IN  IF Chained(d, mod.group_id) THEN Fails(d, "CHAINING_UNSUPPORTED")
        ELSE Destroyed(d, mod, gone)

group_table_handle_group_mod(d, mod) ==
    LET e == FirstError([n \in DOMAIN mod.buckets |-> dp_actions_validate(d, mod.buckets[n])])
    IN  IF mod.slave THEN Fails(d, "IS_SLAVE")
        ELSE IF e # "none" THEN Fails(d, e)
        ELSE CASE mod.command = "ADD"    -> group_table_add(d, mod)
               [] mod.command = "MODIFY" -> group_table_modify(d, mod)
               [] mod.command = "DELETE" -> group_table_delete(d, mod)
               [] OTHER -> Fails(d, "BAD_TYPE")

group_table_handle_stats_request_group(d, msg) ==
    IF msg.id \notin DOMAIN d.groups \cup {AnyId} THEN Fails(d, "UNKNOWN_GROUP")
    ELSE Replies(d, msg, "GROUP", IF msg.id = AnyId THEN Cardinality(DOMAIN d.groups) ELSE 1,
                 Selected(DOMAIN d.groups, msg.id))

group_table_handle_stats_request_group_desc(d, msg) ==
    Replies(d, msg, "GROUP_DESC", Cardinality(DOMAIN d.groups),
            {<<g, d.groups[g]>> : g \in DOMAIN d.groups})

group_table_handle_stats_request_group_features(d, msg) == Answers(d, msg, "GROUP_FEATURES")
-----------------------------------------------------------------------------
(* Meters.  An entry copies the bands of its message, which are not freed.  *)
(* meter_table_create() does not set bands_num.                             *)

Metering(d, mod, meters, bands_num, flows, removed) ==
    Succeeds([d EXCEPT !.meters = meters, !.bands_num = bands_num, !.flows = flows],
             removed, Without(mod, {"bands"}), {})
Set(d, mod, bands_num) ==
    Metering(d, mod, [m \in DOMAIN d.meters \cup {mod.id} |->
                        IF m = mod.id THEN mod.bands ELSE d.meters[m]], bands_num, d.flows, {})

meter_table_add(d, mod) ==
    LET bands == (d.bands_num + mod.bands) % WORD
    IN  IF mod.id \in DOMAIN d.meters THEN Fails(d, "METER_EXISTS")
        ELSE IF Cardinality(DOMAIN d.meters) = DEFAULT_MAX_METER THEN Fails(d, "OUT_OF_METERS")
        ELSE IF bands > METER_TABLE_MAX_BANDS THEN Fails(d, "OUT_OF_BANDS")
        ELSE Set(d, mod, bands)

meter_table_modify(d, mod) ==
    IF mod.id \notin DOMAIN d.meters THEN Fails(d, "UNKNOWN_METER")
    ELSE LET bands == (d.bands_num + WORD - d.meters[mod.id] + mod.bands) % WORD
         IN  IF bands > METER_TABLE_MAX_BANDS THEN Fails(d, "OUT_OF_BANDS") ELSE Set(d, mod, bands)

\* meter_entry_destroy() removes the flows that the meter knows of.
meter_table_delete(d, mod) ==
    LET gone == Selected(DOMAIN d.meters, mod.id)
        left == [t \in Tables |-> SelectSeq(d.flows[t], LAMBDA f : f.meters \cap gone = {})]
        bands == IF mod.id = AnyId THEN 0
                 ELSE IF gone = {} THEN d.bands_num
                 ELSE (d.bands_num + WORD - d.meters[mod.id]) % WORD
    IN  Metering(d, mod, [m \in DOMAIN d.meters \ gone |-> d.meters[m]], bands, left,
                 Announced(AllFlows(d.flows) \ AllFlows(left), "METER_DELETE"))

meter_table_handle_meter_mod(d, mod) ==
    IF mod.slave THEN Fails(d, "IS_SLAVE")
    ELSE CASE mod.command = "ADD"    -> meter_table_add(d, mod)
           [] mod.command = "MODIFY" -> meter_table_modify(d, mod)
           [] mod.command = "DELETE" -> meter_table_delete(d, mod)
           [] OTHER -> Fails(d, "BAD_TYPE")

meter_table_handle_stats_request_meter(d, msg) ==
    IF msg.id \notin DOMAIN d.meters \cup {AnyId} THEN Fails(d, "UNKNOWN_METER")
    ELSE Replies(d, msg, "METER", IF msg.id = AnyId THEN Cardinality(DOMAIN d.meters) ELSE 1,
                 Selected(DOMAIN d.meters, msg.id))

\* It announces all meters, also when it was given one.
meter_table_handle_stats_request_meter_conf(d, msg) ==
    IF msg.id \notin DOMAIN d.meters \cup {AnyId} THEN Fails(d, "UNKNOWN_METER")
    ELSE Replies(d, msg, "METER_CONFIG", Cardinality(DOMAIN d.meters), Selected(DOMAIN d.meters, msg.id))

meter_table_handle_features_request(d, msg) == Answers(d, msg, "METER_FEATURES")
-----------------------------------------------------------------------------
(* Dispatch *)

handle_control_barrier_request(d, msg) == Answers(d, msg, "BARRIER_REPLY")
handle_control_features_request(d, msg) == Answers(d, msg, "FEATURES_REPLY")
handle_control_get_config_request(d, msg) == Replies(d, msg, "GET_CONFIG_REPLY", 1, {d.config})
handle_control_echo_request(d, msg) == Answers(d, msg, "ECHO_REPLY")
handle_control_echo_reply(d, msg) == Does(d, msg)
handle_control_stats_request_desc(d, msg) == Answers(d, msg, "DESC")

\* Fragments are either left alone (0) or dropped (1).
handle_control_set_config(d, msg) ==
    LET flags == msg.flags % 4
    IN  Does([d EXCEPT !.config = [flags |-> IF flags \in {0, 1} THEN flags ELSE 1,
                                   miss_send_len |-> msg.miss_send_len]], msg)

\* Packet-outs of 1 byte (of which the low byte of the length is looked at)
\* and of 8 bytes are signals from the own controller.  The data go to the
\* packet; a packet-out that names a buffer has none.
handle_control_packet_out(d, msg) ==
    LET rest == Without(msg, {"data"})
        signalled(s) == {Succeeds([d EXCEPT !.signals = @ \cup {s}], {}, rest, {})}
        e == dp_actions_validate(d, msg.actions)
    IN  IF msg.slave THEN {Fails(d, "IS_SLAVE")}
        ELSE IF msg.len % 256 = 1 THEN signalled("conection_status_ofp_controller")
        ELSE IF msg.len = 8 THEN signalled("controller_connected")
        ELSE IF e # "none" THEN {Fails(d, e)}
        ELSE IF msg.buffer_id = NO_BUFFER
        THEN IF msg.len = 0 THEN {Fails(d, "BAD_PACKET")}
             ELSE {Succeeds(x, {}, rest, {"data"}) : x \in Processed(d)}
        ELSE IF msg.buffer_id \notin d.buffers THEN {Fails(d, "BUFFER_EMPTY")}
        ELSE {Succeeds(x, {}, rest, {}) : x \in Processed([d EXCEPT !.buffers = @ \ {msg.buffer_id}])}

\* Handlers of ports and queues: what they answer is in DpPorts.
OfPorts(d, msg, type) == {Answers(d, msg, type)}
MayRefuse(d, msg) == {Does(d, msg), Fails(d, "refused")}

\* A port that does not exist: the message is freed and an error returned.
dp_ports_handle_queue_get_config_request(d, msg) ==
    {Answers(d, msg, "QUEUE_GET_CONFIG_REPLY"),
     [Fails(d, "BAD_PORT") EXCEPT !.freed = ofl_msg_free(msg)]}

\* The roles and masks are in DatapathRemotes.  On success a role request and
\* the setting of masks are not freed.
dp_handle_role_request(d, msg) ==
    {[Answers(d, msg, "ROLE_REPLY") EXCEPT !.freed = <<>>], Fails(d, "STALE"), Fails(d, "BAD_ROLE")}
dp_handle_async_request(d, msg) ==
    IF msg.type = "GET_ASYNC_REQUEST" THEN {Answers(d, msg, "GET_ASYNC_REPLY")}
    ELSE {Succeeds(d, {}, <<>>, {})}

dp_exp_message(d, msg) ==
    CASE msg.exp \in {"QUEUE_MODIFY", "QUEUE_DELETE"} -> MayRefuse(d, msg)
      [] msg.exp = "SET_DESC" -> {Does(d, msg)}
      [] OTHER -> {Fails(d, "BAD_EXPERIMENTER")}
dp_exp_stats(d, msg) == Fails(d, "BAD_EXPERIMENTER")

\* Requests for table features, which are kept until they are complete, are in
\* TableFeatures: none are sent here.
handle_control_stats_request(d, msg) ==
    CASE msg.mp = "DESC"           -> {handle_control_stats_request_desc(d, msg)}
      [] msg.mp = "FLOW"           -> {pipeline_handle_stats_request_flow(d, msg)}
      [] msg.mp = "AGGREGATE"      -> {pipeline_handle_stats_request_aggregate(d, msg)}
      [] msg.mp = "TABLE"          -> {pipeline_handle_stats_request_table(d, msg)}
      [] msg.mp = "TABLE_FEATURES" -> {}
      [] msg.mp \in {"PORT_STATS", "QUEUE", "PORT_DESC"} -> OfPorts(d, msg, msg.mp)
      [] msg.mp = "GROUP"          -> {group_table_handle_stats_request_group(d, msg)}
      [] msg.mp = "GROUP_DESC"     -> {group_table_handle_stats_request_group_desc(d, msg)}
      [] msg.mp = "GROUP_FEATURES" -> {group_table_handle_stats_request_group_features(d, msg)}
      [] msg.mp = "METER"          -> {meter_table_handle_stats_request_meter(d, msg)}
      [] msg.mp = "METER_CONFIG"   -> {meter_table_handle_stats_request_meter_conf(d, msg)}
      [] msg.mp = "METER_FEATURES" -> {meter_table_handle_features_request(d, msg)}
      [] msg.mp = "EXPERIMENTER"   -> {dp_exp_stats(d, msg)}
      [] OTHER -> {Fails(d, "BAD_MULTIPART")}

handle_control_msg(d, msg) ==
    CASE msg.type \in {"HELLO", "BARRIER_REPLY"} -> {Does(d, msg)}
      [] msg.type = "BARRIER_REQUEST"    -> {handle_control_barrier_request(d, msg)}
      [] msg.type = "FEATURES_REQUEST"   -> {handle_control_features_request(d, msg)}
      [] msg.type = "GET_CONFIG_REQUEST" -> {handle_control_get_config_request(d, msg)}
      [] msg.type = "SET_CONFIG"         -> {handle_control_set_config(d, msg)}
      [] msg.type = "PACKET_OUT"         -> handle_control_packet_out(d, msg)
      [] msg.type = "FLOW_MOD"           -> pipeline_handle_flow_mod(d, msg)
      [] msg.type = "GROUP_MOD"          -> {group_table_handle_group_mod(d, msg)}
      [] msg.type = "PORT_MOD"           -> MayRefuse(d, msg)
      [] msg.type = "TABLE_MOD"          -> {pipeline_handle_table_mod(d, msg)}
      [] msg.type = "METER_MOD"          -> {meter_table_handle_meter_mod(d, msg)}
      [] msg.type = "MULTIPART_REQUEST"  -> handle_control_stats_request(d, msg)
      [] msg.type = "ECHO_REQUEST"       -> {handle_control_echo_request(d, msg)}
      [] msg.type = "ECHO_REPLY"         -> {handle_control_echo_reply(d, msg)}
      [] msg.type = "QUEUE_GET_CONFIG_REQUEST" -> dp_ports_handle_queue_get_config_request(d, msg)
      [] msg.type = "ROLE_REQUEST"       -> dp_handle_role_request(d, msg)
      [] msg.type \in {"GET_ASYNC_REQUEST", "SET_ASYNC"} -> dp_handle_async_request(d, msg)
      [] msg.type = "EXPERIMENTER"       -> dp_exp_message(d, msg)
      [] OTHER -> {Fails(d, "BAD_TYPE")}   \* replies and notices of a switch, and unknown types

Failed(r) == r.error # "none"
Answer(r) ==
    [removed |-> r.removed,
     replies |-> IF Failed(r) THEN Append(r.replies, [type |-> "ERROR", num |-> 0, entries |-> {r.error}])
                 ELSE r.replies]

\* One message of remote_rconn_run().  It is handled, and freed and answered with
\* the error if there is one; a message that cannot be unpacked is answered only.
remote_rconn_run(msg) ==
    /\ \/ /\ msg.type # "MALFORMED"
          /\ \E r \in handle_control_msg(dp, msg) :
                /\ dp' = r.dp
                /\ answers' = Answer(r)
                /\ memory' = [type |-> msg.type, parts |-> PartsOf(msg),
                              freed |-> IF Failed(r) THEN r.freed \o ofl_msg_free(msg) ELSE r.freed,
                              kept |-> r.kept]
       \/ /\ msg.type = "MALFORMED"
          /\ dp' = dp
          /\ answers' = Answer(Fails(dp, "BAD_LEN"))
          /\ memory' = [type |-> msg.type, parts |-> <<>>, freed |-> <<>>, kept |-> {}]
    /\ UNCHANGED session

\* Packets that go to the controllers are left in buffers, and buffers are used
\* again (DpBuffers).
PacketBuffered ==
    \E b \in SUBSET Buffers \ {dp.buffers} :
        /\ dp' = [dp EXCEPT !.buffers = b]
        /\ answers' = Nothing
        /\ UNCHANGED <<session, memory>>

\* Once entries share instructions, what may follow is in TableRefs.
RequestsNext ==
    ~dp.shared /\ (PacketBuffered \/ \E msg \in Sessions[session] : remote_rconn_run(msg))
-----------------------------------------------------------------------------
\* A request that is answered with an error has changed nothing and announced
\* nothing: no table, no group, no meter, no configuration, no buffered packet
\* was used up, and no flow was reported as removed (handle_control_msg()).
RefusedChangesNothing ==
    (\E n \in DOMAIN answers'.replies : answers'.replies[n].type = "ERROR") =>
        dp' = dp /\ answers'.removed = {}

\* Every flow that a flow stats reply of any table lists forwards to groups and
\* is known to meters that the datapath has at that time, and a reply about
\* flows, groups, meters and tables announces as many entries as it was given.
RepliesConsistent ==
    \A n \in DOMAIN answers.replies :
        LET reply == answers.replies[n]
        IN  /\ reply.type \in {"FLOW", "GROUP", "GROUP_DESC", "METER", "TABLE"} =>
                  reply.num = Cardinality(reply.entries)
            /\ reply.type = "FLOW" => \A f \in reply.entries :
                  OutTo("GROUP", f.insts) \subseteq DOMAIN dp.groups /\ f.meters \subseteq DOMAIN dp.meters

\* A handler that returns an error has not used any part of the message, so
\* that remote_rconn_run() may free it: no part is freed twice, or freed while
\* a table keeps it.  (The queues of a port that does not exist are excepted:
\* dp_ports_handle_queue_get_config_request() frees the request and returns an
\* error.)
NoPartFreedTwice ==
    memory.type # "QUEUE_GET_CONFIG_REQUEST" => \A n \in DOMAIN memory.parts :
        Cardinality({k \in DOMAIN memory.freed : memory.freed[k] = memory.parts[n]})
            + (IF memory.parts[n] \in memory.kept THEN 1 ELSE 0) <= 1
=============================================================================
