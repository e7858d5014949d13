------------------------------ MODULE MCTables ------------------------------
(***************************************************************************)
(* The tables of the datapath and the requests about them: the references  *)
(* between flows, groups and meters, one flow table, the requests over all *)
(* tables, and the table features.  They share no state: a behaviour is    *)
(* one of the part that is chosen at the start, and the variables of the   *)
(* others are Off (those of TableRefs, as at the start).                   *)
(***************************************************************************)
EXTENDS TableRefs, TLC

CONSTANTS Parts,   \* the parts to be checked
          ANY

VARIABLES
    part,
    match_entries, hard_entries, idle_entries, active_count, flow_removed,
    tables, mp_req, answer, gone, history,
    dp, session, answers, message

-----------------------------------------------------------------------------
(* TableRefs: two flows, three groups and a meter.  Buckets forward to     *)
(* none of the groups, to one or to two; a flow mod names two groups, or   *)
(* one and the meter.  Groups of two, two and one bucket are over the      *)
(* limit, and the meter over that of bands if bands_num starts at 3.       *)
(* Counters wrap at 8, which is more than there are flows.                 *)
MCFlow == {"f1", "f2"}
MCArray == 1 .. 3
MCGroup == 1 .. 3
MCMeter == {"m"}
MCBucketLists ==
    {[num |-> 1, out |-> {}], [num |-> 2, out |-> {2, 3}]}
        \cup {[num |-> 2, out |-> {g}] : g \in MCGroup}
MCFlowInstructions ==
    {[groups |-> {1, 2}, meters |-> {}], [groups |-> {2}, meters |-> {"m"}]}
MCBands == {1}
MCGarbage == {0, 3}

\* What happens after memory was freed twice is undefined.
Defined == ~double_free

-----------------------------------------------------------------------------
(* FlowTable: at most three flows on one field of one bit.                 *)
Exact(b) == <<"f", FALSE>> :> [value |-> b, mask |-> {}]
Masked(b, m) == <<"f", TRUE>> :> [value |-> b, mask |-> m]
Everything == <<>>

Add(m, prio, overlap, idle, hard) ==
    [command |-> "ADD", match |-> m, priority |-> prio, check_overlap |-> overlap,
     cookie |-> prio, insts |-> {}, out |-> ANY, send_removed |-> prio = 2,
     idle_timeout |-> idle, hard_timeout |-> hard]

Change(command, m, prio, cookie, target) ==
    [command |-> command, match |-> m, priority |-> prio, check_overlap |-> FALSE,
     cookie |-> cookie, insts |-> {"port"}, out |-> target, send_removed |-> FALSE,
     idle_timeout |-> 0, hard_timeout |-> 0]

FlowMods ==
    {Add(Everything, 1, FALSE, 0, 0), Add(Exact({}), 1, TRUE, 0, 2), Add(Exact({}), 2, FALSE, 1, 1),
     Add(Exact({0}), 2, TRUE, 1, 0), Add(Masked({0}, {0}), 1, FALSE, 0, 1),
     Change("MODIFY", Everything, 0, ANY, ANY), Change("MODIFY_STRICT", Exact({}), 2, ANY, ANY),
     Change("DELETE", Exact({}), 0, 1, ANY), Change("DELETE", Masked({}, {}), 0, ANY, "port"),
     Change("DELETE_STRICT", Masked({0}, {0}), 1, ANY, ANY)}

PacketsIn == {"f" :> {}, "f" :> {0}}

Table ==
    INSTANCE FlowTable WITH Field <- {"f"}, Bit <- {0}, Word <- {{0}}, EntryId <- 1 .. 4, MAX_ENTRIES <- 3

-----------------------------------------------------------------------------
(* TableFeatures: two controllers, three tables sent in segments of two,   *)
(* and fragments with no table, one, an unacceptable one, an unknown one,  *)
(* and all.                                                                *)
Good(id) == [id |-> id, big |-> FALSE]
Fragments == {<<>>, <<Good(0)>>, <<Good(2), Good(1)>>, <<[id |-> 1, big |-> TRUE]>>,
              <<Good(3)>>}

Features ==
    INSTANCE TableFeatures WITH Remotes <- {"r1", "r2"}, Xids <- {1, 2}, Bodies <- Fragments,
        PIPELINE_TABLES <- 3, SEGMENT <- 2, MaxFragments <- 4

-----------------------------------------------------------------------------
(* Requests: two tables of two flows, two groups of three buckets in all,   *)
(* two meters of three bands in all and one buffer, and every request about *)
(* them.                                                                    *)
Apply(action) == <<<<"APPLY_ACTIONS", <<action>>>>>>
FlowMod(command, no, m, prio, instructions) ==
    [type |-> "FLOW_MOD", command |-> command, table_id |-> no, match |-> m, priority |-> prio,
     insts |-> instructions, cookie |-> {prio}, cookie_mask |-> {}, out_port |-> "any", out_group |-> "any",
     check_overlap |-> FALSE, send_removed |-> prio = 2, buffer_id |-> "no buffer", slave |-> FALSE]
Deletion == FlowMod("DELETE", 255, "any", 1, <<>>)
ToGroup1 == FlowMod("ADD", 0, "a", 2, Apply(<<"GROUP", "g1">>))
FlowRequests ==
    {ToGroup1, [ToGroup1 EXCEPT !.slave = TRUE], [ToGroup1 EXCEPT !.table_id = 255],
     [ToGroup1 EXCEPT !.command = "unknown"],
     [FlowMod("ADD", 0, "any", 2, Apply(<<"OUTPUT", "p1">>)) EXCEPT !.check_overlap = TRUE],
     [FlowMod("ADD", 0, "a", 2, <<>>) EXCEPT !.check_overlap = TRUE, !.out_port = "p1"],
     FlowMod("ADD", 0, "any", 1, <<>>),
     [FlowMod("ADD", 1, "a", 1, Apply(<<"GROUP", "g2">>)) EXCEPT !.buffer_id = "b1"],
     [FlowMod("MODIFY", 1, "any", 1, Apply(<<"GROUP", "g1">>)) EXCEPT !.buffer_id = "b1"],
     FlowMod("MODIFY_STRICT", 0, "a", 2, Apply(<<"GROUP", "g2">>)),
     [FlowMod("MODIFY", 0, "a", 2, <<>>) EXCEPT !.cookie_mask = {1, 2}],
     Deletion, [Deletion EXCEPT !.out_group = "g1"],
     [Deletion EXCEPT !.cookie_mask = {1}, !.table_id = 0],
     FlowMod("DELETE_STRICT", 255, "a", 2, <<>>)}
    \cup {[FlowMod("ADD", t, "any", 1, i) EXCEPT !.buffer_id = "b1"] :
             t \in {0, 1}, i \in {<<<<"GOTO_TABLE", 1>>>>, Apply(<<"OUTPUT", "p2">>)}}
    \cup {[FlowMod("ADD", 0, m, 1, Apply(<<"SET_FIELD", "f">>)) EXCEPT !.buffer_id = "b1"] : m \in {"a", "any"}}
GroupMod(command, g, buckets) ==
    [type |-> "GROUP_MOD", command |-> command, group_id |-> g, buckets |-> buckets, slave |-> FALSE]
To(g) == <<<<"GROUP", g>>>>
GroupMods ==
    {GroupMod(c, g, b) : c \in {"ADD", "MODIFY"}, g \in {"g1", "g2"},
                         b \in {<<<<>>>>, <<To("g1"), <<>>>>, <<To("g2"), <<>>>>}}
    \cup {GroupMod("DELETE", g, <<>>) : g \in {"g1", "g2", "any"}}
    \cup {GroupMod("ADD", "g3", <<<<>>>>), GroupMod("MODIFY", "g1", <<<<>>, <<>>, <<>>>>),
          GroupMod("MODIFY", "g1", <<<<<<"OUTPUT", "p2">>>>>>),
          [GroupMod("DELETE", "any", <<>>) EXCEPT !.slave = TRUE]}
MeterRequests ==
    {[type |-> "METER_MOD", command |-> c, id |-> m, bands |-> n, slave |-> FALSE] :
       c \in {"ADD", "MODIFY"}, m \in {"m1", "m2"}, n \in 1 .. 2}
    \cup {[type |-> "METER_MOD", command |-> "DELETE", id |-> m, bands |-> 0, slave |-> s] :
            m \in {"m1", "any"}, s \in BOOLEAN}
    \cup {[type |-> "METER_MOD", command |-> "ADD", id |-> "m3", bands |-> 0, slave |-> FALSE]}
MeteredFlows ==
    {FlowMod("ADD", 0, "a", 2, <<<<"METER", "m1">>>>), FlowMod("ADD", 1, "a", 2, <<<<"METER", "m2">>>>),
     FlowMod("MODIFY", 0, "any", 1, <<>>)}
TableMods == [type : {"TABLE_MOD"}, table_id : {0}, config : 0 .. 1, slave : BOOLEAN]
PacketOuts ==
    [type : {"PACKET_OUT"}, len : {0, 1, 8, 60, 257}, buffer_id : {"no buffer"},
     actions : {<<>>, To("g1")}, slave : {FALSE}]
    \cup [type : {"PACKET_OUT"}, len : {0}, buffer_id : {"b1"}, actions : {<<>>, To("g1")}, slave : BOOLEAN]
Asking(types) == [type : {"MULTIPART_REQUEST"}, mp : types]
AskingFor(types, ids) == [type : {"MULTIPART_REQUEST"}, mp : types, id : ids]
FlowStats ==
    [type : {"MULTIPART_REQUEST"}, mp : {"FLOW"}, table_id : {0, 255}, match : {"a", "any"},
     out_port : {"any"}, out_group : {"any"}]
    \cup [type : {"MULTIPART_REQUEST"}, mp : {"FLOW", "AGGREGATE"}, table_id : {255}, match : {"a"},
          out_port : {"any", "p1"}, out_group : {"g1"}]
Others ==
    [type : {"HELLO", "BARRIER_REQUEST", "BARRIER_REPLY", "FEATURES_REQUEST", "GET_CONFIG_REQUEST",
             "ECHO_REQUEST", "ECHO_REPLY", "PACKET_IN", "PORT_MOD", "QUEUE_GET_CONFIG_REQUEST",
             "ROLE_REQUEST", "GET_ASYNC_REQUEST", "SET_ASYNC", "MALFORMED"}]
    \cup [type : {"SET_CONFIG"}, flags : 0 .. 3, miss_send_len : {128}]
    \cup [type : {"EXPERIMENTER"}, exp : {"QUEUE_DELETE", "SET_DESC", "unknown"}]
    \cup Asking({"DESC", "TABLE", "PORT_STATS", "GROUP_FEATURES", "METER_FEATURES", "EXPERIMENTER", "unknown"})
Sessions ==
    <<FlowRequests \cup GroupMods \cup FlowStats \cup AskingFor({"GROUP"}, {"g1", "any"})
          \cup Asking({"GROUP_DESC", "TABLE"}),
      MeterRequests \cup MeteredFlows \cup FlowStats \cup AskingFor({"METER", "METER_CONFIG"}, {"m1", "any"}),
      TableMods \cup PacketOuts \cup Others>>

Request ==
    INSTANCE Requests WITH PIPELINE_TABLES <- 2, MAX_ENTRIES <- 2, GROUP_TABLE_MAX_ENTRIES <- 2,
        GROUP_TABLE_MAX_BUCKETS <- 3, DEFAULT_MAX_METER <- 2, METER_TABLE_MAX_BANDS <- 3,
        PortNumbers <- {"p1", "p2"}, Ports <- {"p1"}, Groups <- {"g1", "g2", "g3"}, Buffers <- {"b1"},
        Prereqs <- {<<"f", "a">>}, Garbage <- {0, 7}, memory <- message

-----------------------------------------------------------------------------
tableVars == <<match_entries, hard_entries, idle_entries, active_count, flow_removed>>
tfVars == <<tables, mp_req, answer, gone, history>>
reqVars == <<dp, session, answers, message>>
suiteVars == <<part, vars, tableVars, tfVars, reqVars>>

Off == "off"

SuiteInit ==
    /\ part \in Parts
    /\ Init /\ (part # "table_refs" => bands_num = 0)
    /\ IF part = "flow_table" THEN Table!Init
       ELSE /\ match_entries = Off /\ hard_entries = Off /\ idle_entries = Off
            /\ active_count = Off /\ flow_removed = Off
    /\ IF part = "features" THEN Features!TfInit
       ELSE tables = Off /\ mp_req = Off /\ answer = Off /\ gone = Off /\ history = Off
    /\ IF part = "requests" THEN Request!RequestsInit
       ELSE dp = Off /\ session = Off /\ answers = Off /\ message = Off

\* A step of part p leaves the variables of all others alone.
Only(p) ==
    /\ part = p /\ UNCHANGED part
    /\ IF p = "table_refs" THEN TRUE ELSE UNCHANGED vars
    /\ IF p = "flow_table" THEN TRUE ELSE UNCHANGED tableVars
    /\ IF p = "features" THEN TRUE ELSE UNCHANGED tfVars
    /\ IF p = "requests" THEN TRUE ELSE UNCHANGED reqVars

\* Fragments of table features are bounded in number, and the requests end when
\* flows share instructions.
Ended == part \in {"features", "requests"} /\ UNCHANGED suiteVars

SuiteNext ==
    \/ Only("table_refs") /\ Next
    \/ Only("flow_table") /\ Table!Next
    \/ Only("features") /\ Features!TfNext
    \/ Only("requests") /\ Request!RequestsNext
    \/ Ended

SuiteSpec == SuiteInit /\ [][SuiteNext]_suiteVars
-----------------------------------------------------------------------------
\* A flow table is what its lookups and timeouts promise: a lookup finds a
\* matching entry of the highest priority, no flow has two entries, the number
\* of entries is right; an entry is removed by its timeouts in the second it has
\* to be and no sooner, and an addition that must not overlap does not
\* (flow_table_lookup(), flow_table_add(), flow_table_timeout()).
FlowTableExact ==
    /\ [](part = "flow_table" => /\ Table!TypeOK /\ Table!ActiveCountExact
                                 /\ Table!LookupFindsBest /\ Table!OneEntryPerFlow)
    /\ [][part = "flow_table" => Table!TimeoutExact /\ Table!OverlapRefused]_suiteVars

\* The tables are as one complete request says, never a mixture of two, and the
\* reply lists each table once (handle_control_stats_request() and
\* pipeline_handle_stats_request_table_features_request()).
OneRequestInForce == part = "features" => Features!OneRequestInForce /\ Features!ReplyComplete

\* A request that is answered with an error has changed nothing, and no part of a
\* request is freed twice or freed while a table keeps it (handle_control_msg()
\* and the handlers it calls); and the flows, groups and
\* meters that the replies list agree with each other and with the number that
\* is announced (the multipart handlers).
RequestsConsistent ==
    /\ [][part = "requests" => Request!RefusedChangesNothing]_suiteVars
    /\ [](part = "requests" => Request!RepliesConsistent /\ Request!NoPartFreedTwice)
=============================================================================
