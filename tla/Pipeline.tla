------------------------------ MODULE Pipeline ------------------------------
(***************************************************************************)
(* The way of one packet through the flow tables (pipeline.c), its action  *)
(* set (action_set.c), action lists (dp_actions.c) and groups              *)
(* (group_entry.c).  A packet is handled to its end before the next one is *)
(* read, so the whole way is one step.  What is observed of it: what was   *)
(* sent, and which of the packets that it was copied to were freed.        *)
(*                                                                         *)
(* The handlers map the datapath s, [fresh, freed, kept, bad, sent, wrr,   *)
(* count], to the datapath after them; fresh is the next packet's name,    *)
(* freed the packets freed, in their order, kept those in the buffers, and *)
(* bad whether one was used after it was freed.                            *)
(* Which entry matches is FlowTable's, meters are Meters', the eHDDP and   *)
(* ARP packets Ehddp's and ArpPath's.                                      *)
(***************************************************************************)
EXTENDS PacketStd, FiniteSetsExt

CONSTANTS Configs,       \* a family of switches, [tables, groups, buffering, meter]
          Arrivals,      \* packets, [frame, in_port, packet_out, actions, length]
          MaxPackets

VARIABLES conf,          \* the configuration
          groups,        \* [wrr, count]: state of the groups
          last,          \* what came of the last packet
          packets        \* packets handled

pipeVars == <<conf, groups, last, packets>>

After(b, Op(_)) == CHOOSE r \in {Op(x) : x \in {b}} : TRUE

MULTICAST == 9           \* the destination with the multicast bit

packet_destroy(s, p) == IF p.saved THEN s ELSE [s EXCEPT !.freed = Append(@, p.id)]

\* A packet of its own for p.
Named(s, p) == [s |-> [s EXCEPT !.fresh = @ + 1], p |-> [id |-> s.fresh] @@ p]

Used(s, p) == [s EXCEPT !.bad = @ \/ Contains(s.freed, p.id)]
dp_ports_output(s, p, port, queue) ==
    [Used(s, p) EXCEPT !.sent = Append(@, [port |-> port, queue |-> queue, frame |-> p.frame,
                                           reason |-> "none"])]

----------------------------------------------------------------------------
action_set_order(a) ==
    CASE a.k = "copy_ttl_in" -> 10
      [] a.k \in {"pop_pbb", "pop_vlan", "pop_mpls"} -> 20
      [] a.k \in {"push_pbb", "push_vlan", "push_mpls"} -> 30
      [] a.k = "copy_ttl_out" -> 40
      [] a.k \in {"dec_mpls_ttl", "dec_nw_ttl"} -> 50
      [] a.k \in {"set_field", "set_mpls_ttl", "set_nw_ttl"} -> 60
      [] a.k = "set_queue" -> 70
      [] a.k = "group" -> 80
      [] a.k = "output" -> 90

OfSameType(a, b) == a.k = b.k /\ (a.k = "set_field" => a.field = b.field)

InsertsOnly(set, a) ==
    LET stops == {i \in DOMAIN set : action_set_order(a) < action_set_order(set[i])}
    IN IF stops = {} THEN Append(set, a) ELSE InsertAt(set, Min(stops), a)
action_set_write_action(set, a) ==
    LET stops == {i \in DOMAIN set : \/ OfSameType(a, set[i])
                                     \/ action_set_order(a) < action_set_order(set[i])}
    IN CASE stops = {} -> Append(set, a)
         [] stops # {} /\ OfSameType(a, set[Min(stops)]) -> [set EXCEPT ![Min(stops)] = a]
         [] OTHER -> InsertAt(set, Min(stops), a)

action_set_write_actions(p, actions) ==
    [p EXCEPT !.action_set = FoldLeft(action_set_write_action, @, actions)]

action_set_clear_actions(p) == [p EXCEPT !.action_set = << >>]

----------------------------------------------------------------------------
\* Weighted round robin over the buckets (numbered from 1; 0 is "none yet").
gcd(a, b) == IF a = 0 THEN b ELSE CHOOSE g \in 1..a : /\ a % g = 0 /\ b % g = 0
                                   /\ \A h \in (g + 1)..a : a % h # 0 \/ b % h # 0
Weights(g) == [i \in DOMAIN g.buckets |-> g.buckets[i].weight]
init_select_group == [curr_weight |-> 0, curr_bucket |-> 0]

\* The next bucket and weight of the round.
WrapsLate(g, w) ==
    LET b == (w.curr_bucket % Len(g.buckets)) + 1
        step == FoldLeft(gcd, 0, Weights(g))
    IN [curr_bucket |-> b,
        curr_weight |-> IF b # 1 THEN w.curr_weight
                        ELSE IF w.curr_weight < step THEN Max(Range(Weights(g)))
                        ELSE w.curr_weight - step]
Turn(g, w) ==
    LET b == (w.curr_bucket % Len(g.buckets)) + 1
        step == FoldLeft(gcd, 0, Weights(g))
    IN [curr_bucket |-> b,
        curr_weight |-> IF b # 1 THEN w.curr_weight
                        ELSE IF w.curr_weight <= step THEN Max(Range(Weights(g)))
                        ELSE w.curr_weight - step]

\* The first bucket of at most a whole round with the current weight.
select_from_select_group(g, w) ==
    LET Round[n \in 0..Len(g.buckets)] == IF n = 0 THEN w ELSE Turn(g, Round[n - 1])
        Takes(n) == g.buckets[Round[n].curr_bucket].weight >= Round[n].curr_weight
        hits == {n \in 1..Len(g.buckets) : Takes(n)}
    IN IF hits = {} THEN [wrr |-> Round[Len(g.buckets)], bucket |-> 0]
       ELSE [wrr |-> Round[Min(hits)], bucket |-> Round[Min(hits)].curr_bucket]

select_from_ff_group(g) ==
    LET live == {i \in DOMAIN g.buckets : g.buckets[i].live}
    IN IF live = {} THEN 0 ELSE Min(live)

----------------------------------------------------------------------------
RECURSIVE action_set_execute(_, _, _), pipeline_process_packet(_, _, _), execute_all(_, _, _, _, _)

\* The part that SELECT, INDIRECT and FF share: the packet itself takes the actions of
\* bucket b.
ExecuteBucket(c, s, p, id, b) ==
    IF b = 0 THEN packet_destroy(s, p)
    ELSE action_set_execute(c, [s EXCEPT !.count[id][b] = @ + 1],
                            action_set_write_actions(p, c.groups[id].buckets[b].actions))

execute_select(c, s, p, id) ==
    After(select_from_select_group(c.groups[id], s.wrr[id]),
          LAMBDA sel : ExecuteBucket(c, [s EXCEPT !.wrr[id] = sel.wrr], p, id, sel.bucket))

execute_indirect(c, s, p, id) ==
    ExecuteBucket(c, s, p, id, IF c.groups[id].buckets = << >> THEN 0 ELSE 1)

execute_ff(c, s, p, id) == ExecuteBucket(c, s, p, id, select_from_ff_group(c.groups[id]))

\* Buckets b and after, each on a clone.
execute_all(c, s, p, id, b) ==
    IF b > Len(c.groups[id].buckets) THEN packet_destroy(s, p)
    ELSE After(Named(s, packet_clone(p)), LAMBDA n :
         After(ExecuteBucket(c, n.s, n.p, id, b), LAMBDA t : execute_all(c, t, p, id, b + 1)))

group_entry_execute(c, s, p, id) ==
    CASE c.groups[id].type = "ALL" -> execute_all(c, s, p, id, 1)
      [] c.groups[id].type = "SELECT" -> execute_select(c, s, p, id)
      [] c.groups[id].type = "INDIRECT" -> execute_indirect(c, s, p, id)
      [] c.groups[id].type = "FF" -> execute_ff(c, s, p, id)

group_table_execute(c, s, p, id) ==
    IF id \in DOMAIN c.groups THEN group_entry_execute(c, s, p, id) ELSE s

----------------------------------------------------------------------------
\* The packet-in message; the packet stays in the buffers.
ToController(c, s, p, reason) ==
    LET q == packet_handle_std_validate([p EXCEPT !.saved = c.buffering])
    IN [s |-> [Used(s, p) EXCEPT !.kept = IF c.buffering THEN @ \cup {p.id} ELSE @,
                                 !.sent = Append(@, [port |-> "CONTROLLER", queue |-> 0,
                                                     frame |-> p.frame, reason |-> reason])],
        p |-> q]

dp_actions_output_port(c, s, p, port, queue) ==
    CASE port = "TABLE" ->
           [s |-> IF p.packet_out
                  THEN After(Named(s, [packet_clone(p) EXCEPT !.packet_out = FALSE]),
                             LAMBDA n : pipeline_process_packet(c, n.s, n.p))
                  ELSE s,
            p |-> p]
      [] port = "IN_PORT" -> [s |-> dp_ports_output(s, p, p.in_port, 0), p |-> p]
      [] port = "CONTROLLER" ->
           ToController(c, s, p, [yes |-> "NO_MATCH", no |-> "ACTION", unset |-> "either"][p.table_miss])
      [] port \in {"FLOOD", "ALL"} -> [s |-> dp_ports_output(s, p, port, 0), p |-> p]
      [] OTHER -> [s |-> dp_ports_output(s, p, port, queue), p |-> p]

\* dp_execute_action_list() from one action on.  A group gets a clone, so that the
\* packet goes on unmodified.
GroupTakesPacket(c, sp, a) ==
    After(dp_execute_action(sp.p, a), LAMBDA p :
        CASE p.out_group # OFPG_ANY ->
               [s |-> group_table_execute(c, sp.s, [p EXCEPT !.out_group = OFPG_ANY], p.out_group),
                p |-> [p EXCEPT !.out_group = OFPG_ANY]]
          [] p.out_group = OFPG_ANY /\ p.out_port # "ANY" ->
               dp_actions_output_port(c, sp.s, [p EXCEPT !.out_port = "ANY", !.out_queue = 0],
                                      p.out_port, p.out_queue)
          [] OTHER -> [s |-> sp.s, p |-> p])
ListAction(c, sp, a) ==
    After(dp_execute_action(sp.p, a), LAMBDA p :
        CASE p.out_group # OFPG_ANY ->
               [s |-> After(Named(sp.s, packet_clone(p)),
                            LAMBDA n : group_table_execute(c, n.s, n.p, p.out_group)),
                p |-> [p EXCEPT !.out_group = OFPG_ANY]]
          [] p.out_group = OFPG_ANY /\ p.out_port # "ANY" ->
               dp_actions_output_port(c, sp.s, [p EXCEPT !.out_port = "ANY", !.out_queue = 0],
                                      p.out_port, p.out_queue)
          [] OTHER -> [s |-> sp.s, p |-> p])
dp_execute_action_list(c, sp, actions) ==
    FoldLeft(LAMBDA x, a : ListAction(c, x, a), sp, actions)

action_set_execute(c, s, packet) ==
    After(FoldLeft(dp_execute_action, action_set_clear_actions(packet), packet.action_set),
          LAMBDA p :
            CASE p.out_group # OFPG_ANY ->
                   group_table_execute(c, s, [p EXCEPT !.out_group = OFPG_ANY], p.out_group)
              [] p.out_group = OFPG_ANY /\ p.out_port # "ANY" ->
                   After(dp_actions_output_port(c, s, [p EXCEPT !.out_port = "ANY", !.out_queue = 0],
                                                p.out_port, p.out_queue),
                         LAMBDA sp : packet_destroy(sp.s, sp.p))
              [] OTHER -> packet_destroy(s, p))

----------------------------------------------------------------------------
\* The order of the instructions in an entry (inst_compare()).
InstructionOrder == <<"meter", "apply", "clear", "write", "metadata", "goto">>
inst_compare(a, b) ==
    LET Rank(i) == CHOOSE n \in DOMAIN InstructionOrder : InstructionOrder[n] = i.k
    IN Rank(a) < Rank(b)

\* One instruction: x is [s, p, dropped, next].
Instruction(c, x, i) ==
    IF x.dropped THEN x
    ELSE CASE i.k = "goto" -> [x EXCEPT !.next = i.table]
           [] i.k = "metadata" ->
                [x EXCEPT !.p = [packet_handle_std_validate(@) EXCEPT
                                   !.metadata = (@ \ i.mask) \cup (i.value \cap i.mask)]]
           [] i.k = "write" -> [x EXCEPT !.p = action_set_write_actions(@, i.actions)]
           [] i.k = "apply" ->
                After(dp_execute_action_list(c, [s |-> x.s, p |-> x.p], i.actions),
                      LAMBDA sp : [x EXCEPT !.s = sp.s, !.p = sp.p])
           [] i.k = "clear" -> [x EXCEPT !.p = action_set_clear_actions(@)]
           [] i.k = "meter" ->
                IF c.meter = "exceeded" THEN [x EXCEPT !.s = packet_destroy(x.s, x.p), !.dropped = TRUE]
                ELSE x
execute_entry(c, s, p, entry) ==
    FoldLeft(LAMBDA x, i : Instruction(c, x, i), [s |-> s, p |-> p, dropped |-> FALSE, next |-> 0],
             SortSeq(entry.instructions, inst_compare))

is_table_miss(entry) == entry.fields = << >>

\* The first entry of the table that matches (flow_table_lookup()), 0 if there is none.
Matches(e, p) == /\ \A f \in DOMAIN e.fields : f \in DOMAIN p.match /\ p.match[f] = e.fields[f]
                 /\ e.metadata \subseteq p.metadata
flow_table_lookup(table, p) ==
    After(packet_handle_std_validate(p), LAMBDA q :
        LET found == {i \in DOMAIN table : Matches(table[i], q)}
        IN IF found = {} THEN 0 ELSE Min(found))

\* The packet at an entry of table t, and in the table.
InEntry(p, t, entry) == [packet_handle_std_validate(p) EXCEPT
                           !.table_id = t,
                           !.table_miss = IF is_table_miss(entry) THEN "yes" ELSE "no"]
RECURSIVE InTable(_, _, _, _)
InTable(c, s, p, t) ==
    After(flow_table_lookup(c.tables[t], p), LAMBDA i :
       IF i = 0
       THEN packet_destroy([s EXCEPT !.sent = Append(@, [port |-> "LEARN", queue |-> 0, reason |-> "none",
                                                         frame |-> p.frame])], p)
       ELSE After(execute_entry(c, s, InEntry(p, t, c.tables[t][i]), c.tables[t][i]), LAMBDA x :
                CASE x.dropped -> x.s
                  [] ~x.dropped /\ x.next = 0 -> action_set_execute(c, x.s, x.p)
                  [] OTHER -> InTable(c, x.s, x.p, x.next)))

pipeline_process_packet(c, s, p) ==
    CASE ~packet_handle_std_is_ttl_valid(p) ->
           After(ToController(c, s, p, "INVALID_TTL"), LAMBDA sp : packet_destroy(sp.s, sp.p))
      [] packet_handle_std_is_ttl_valid(p)
         /\ \/ Has(p, "udp") /\ Of(p, "eth", "dst") = MULTICAST
            \/ Of(p, "eth", "type") = "ip6" ->
           packet_destroy(s, p)
      [] OTHER -> InTable(c, s, p, 1)

----------------------------------------------------------------------------
NoPacket == [fresh |-> 0, freed |-> << >>, kept |-> {}, bad |-> FALSE, sent |-> << >>, arrival |-> 0]

PipeInit ==
    /\ \E i \in DOMAIN Configs : conf = Configs[i]
    /\ groups = [wrr |-> [g \in DOMAIN conf.groups |-> init_select_group],
                 count |-> [g \in DOMAIN conf.groups |->
                              [b \in DOMAIN conf.groups[g].buckets |-> 0]]]
    /\ last = NoPacket
    /\ packets = 0

\* The actions of the message; a message with one byte of data is the status of the
\* connection, one with eight the time of it (the length is cut to 8 bits first).
handle_control_packet_out(c, s, p, a) ==
    IF a.length % 256 = 1 \/ a.length = 8 THEN packet_destroy(s, p)
    ELSE After(dp_execute_action_list(c, [s |-> s, p |-> p], a.actions),
               LAMBDA sp : packet_destroy(sp.s, sp.p))

Handled(c, s, p, a) == IF p.packet_out THEN handle_control_packet_out(c, s, p, a)
                       ELSE pipeline_process_packet(c, s, p)

Receive(i) ==
    /\ packets < MaxPackets
    /\ \E n \in {Named([fresh |-> 1, freed |-> << >>, kept |-> {}, bad |-> FALSE, sent |-> << >>,
                         wrr |-> groups.wrr, count |-> groups.count],
                        packet_create(Arrivals[i].frame, Arrivals[i].in_port, Arrivals[i].packet_out))} :
       \E s \in {Handled(conf, n.s, n.p, Arrivals[i])} :
         /\ groups' = [wrr |-> s.wrr, count |-> s.count]
         /\ last' = [fresh |-> s.fresh, freed |-> s.freed, kept |-> s.kept, bad |-> s.bad,
                   sent |-> s.sent, arrival |-> i]
    /\ packets' = packets + 1
    /\ UNCHANGED conf

----------------------------------------------------------------------------
(***************************************************************************)
(* What a switch has to send, without packets that are shared, copied or   *)
(* marked: an action set is the written actions, the last of each type, in *)
(* the order of their types; groups and outputs are what they yield.  pick *)
(* is the bucket that each SELECT group takes.                             *)
(***************************************************************************)
LastWritten(actions) ==
    LET firsts == SelectSeq([i \in DOMAIN actions |-> i],
                            LAMBDA i : \A j \in 1..(i - 1) : ~OfSameType(actions[i], actions[j]))
        Newest(i) == actions[Max({j \in DOMAIN actions : OfSameType(actions[i], actions[j])})]
        Order(a, b) == action_set_order(a) < action_set_order(b)
    IN SortSeq([n \in DOMAIN firsts |-> Newest(firsts[n])], Order)

Kept(p) == [p EXCEPT !.out_port = "ANY", !.out_group = OFPG_ANY, !.out_queue = 0]
Sends(p, port) ==
    [frame |-> p.frame,
     port |-> IF port = "IN_PORT" THEN p.in_port ELSE port,
     queue |-> IF port \in {"IN_PORT", "CONTROLLER", "FLOOD", "ALL"} THEN 0 ELSE p.out_queue]

RECURSIVE SetYields(_, _, _, _), TableYields(_, _, _, _, _)
GroupYields(c, p, id, pick) ==
    LET g == c.groups[id]
        live == {i \in DOMAIN g.buckets : g.buckets[i].live}
        taken == CASE g.type = "ALL" -> [b \in DOMAIN g.buckets |-> b]
                   [] g.type = "SELECT" -> <<pick[id]>>
                   [] g.type = "INDIRECT" -> IF g.buckets = << >> THEN << >> ELSE <<1>>
                   [] g.type = "FF" -> IF live = {} THEN << >> ELSE <<Min(live)>>
    IN FoldLeft(LAMBDA sent, b : sent \o SetYields(c, Kept(p), g.buckets[b].actions, pick), << >>, taken)

SetYields(c, p, actions, pick) ==
    After(FoldLeft(dp_execute_action, p, LastWritten(actions)), LAMBDA q :
        CASE q.out_group # OFPG_ANY -> GroupYields(c, q, q.out_group, pick)
          [] q.out_group = OFPG_ANY /\ q.out_port # "ANY" -> <<Sends(q, q.out_port)>>
          [] OTHER -> << >>)

\* What a list yields, and the packet after it.
ListYields(c, p, actions, pick) ==
    FoldLeft(LAMBDA x, a :
               CASE a.k = "group" -> [x EXCEPT !.sent = @ \o GroupYields(c, x.p, a.group, pick)]
                 [] a.k = "output" /\ a.port = "TABLE" ->
                      [x EXCEPT !.sent = @ \o (IF x.p.packet_out
                                                THEN TableYields(c, x.p, 1, << >>, pick) ELSE << >>),
                                !.p = Kept(@)]
                 [] a.k = "output" /\ a.port # "TABLE" ->
                      [x EXCEPT !.sent = Append(@, Sends(x.p, a.port)), !.p = Kept(@)]
                 [] OTHER -> [x EXCEPT !.p = dp_execute_action(@, a)],
             [sent |-> << >>, p |-> p], actions)

\* What an entry yields: applied is what its Apply-Actions yielded, written the actions
\* written since the last Clear-Actions.
The(ins, k) == ins[CHOOSE n \in DOMAIN ins : ins[n].k = k]
Holds(ins, k) == \E n \in DOMAIN ins : ins[n].k = k
EntryYields(c, applied, ins, written, pick) ==
    LET set == (IF Holds(ins, "clear") THEN << >> ELSE written)
               \o (IF Holds(ins, "write") THEN The(ins, "write").actions ELSE << >>)
        m == The(ins, "metadata")
        q == IF Holds(ins, "metadata")
             THEN [applied.p EXCEPT !.metadata = (@ \ m.mask) \cup (m.value \cap m.mask)]
             ELSE applied.p
    IN applied.sent \o (IF Holds(ins, "goto") THEN TableYields(c, q, The(ins, "goto").table, set, pick)
                        ELSE SetYields(c, q, set, pick))
InstructionsYield(c, p, ins, written, pick) ==
    IF Holds(ins, "meter") /\ c.meter = "exceeded" THEN << >>
    ELSE After(ListYields(c, p, IF Holds(ins, "apply") THEN The(ins, "apply").actions ELSE << >>, pick),
               LAMBDA applied : EntryYields(c, applied, ins, written, pick))
TableYields(c, p, t, written, pick) ==
    After(flow_table_lookup(c.tables[t], p), LAMBDA i :
        IF i = 0 THEN <<[port |-> "LEARN", queue |-> 0, frame |-> p.frame]>>
        ELSE InstructionsYield(c, p, c.tables[t][i].instructions, written, pick))

Yields(c, a, pick) ==
    After(packet_create(a.frame, a.in_port, a.packet_out), LAMBDA p :
        CASE a.packet_out -> ListYields(c, p, a.actions, pick).sent
          [] ~a.packet_out /\ ~packet_handle_std_is_ttl_valid(p) ->
               <<[port |-> "CONTROLLER", queue |-> 0, frame |-> a.frame]>>
          [] ~a.packet_out /\ packet_handle_std_is_ttl_valid(p) /\ a.frame[1].dst = MULTICAST -> << >>
          [] OTHER -> TableYields(c, p, 1, << >>, pick))

Picks(c) == {f \in [DOMAIN c.groups -> 0..3] :
               \A g \in DOMAIN c.groups :
                 IF c.groups[g].type = "SELECT"
                 THEN f[g] \in DOMAIN c.groups[g].buckets /\ c.groups[g].buckets[f[g]].weight > 0
                 ELSE f[g] = 0}

\* What the switch sends for a packet, and in which order, is what its tables, its
\* groups and the packet's action set say: no mark that one part of the way leaves in
\* the packet (out_group, out_port, out_queue, the handle) is seen by another
\* (action_set.c, dp_actions.c, group_entry.c).
SendsWhatItShould ==
    last.arrival # 0 =>
        LET sent == [n \in DOMAIN last.sent |-> [port |-> last.sent[n].port, queue |-> last.sent[n].queue,
                                                 frame |-> last.sent[n].frame]]
        IN \E pick \in Picks(conf) : sent = Yields(conf, Arrivals[last.arrival], pick)

\* The packet and every clone of it is freed exactly once, unless it stays in the
\* buffers, and nothing is done to it after that (pipeline_process_packet(): "takes
\* ownership of the packet and will destroy it"; "Clone will be destroyed above").
EachPacketEndsOnce ==
    last.arrival # 0 =>
        /\ ~last.bad
        /\ \A i, j \in DOMAIN last.freed : i # j => last.freed[i] # last.freed[j]
        /\ Range(last.freed) \cup last.kept = 1..(last.fresh - 1)
        /\ Range(last.freed) \cap last.kept = {}

Total(f) == FoldLeft(LAMBDA x, y : x + y, 0, f)

\* A SELECT group shares its packets out by weight: after each round of Sum(weights)/gcd
\* packets every bucket has had exactly its share (select_from_select_group()).
WeightedShares ==
    \A g \in DOMAIN conf.groups :
        LET w == Weights(conf.groups[g])
            n == groups.count[g]
            sum == Total(w)
            step == FoldLeft(gcd, 0, w)
            rounds == (Total(n) * step) \div sum
        IN conf.groups[g].type = "SELECT" /\ (Total(n) * step) % sum = 0 =>
             \A b \in DOMAIN w : n[b] * step = rounds * w[b]
=============================================================================
