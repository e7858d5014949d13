------------------------------ MODULE TableRefs ------------------------------
(***************************************************************************)
(* The references between the flow entries of a datapath, its groups and   *)
(* its meters: udatapath/flow_entry.c, group_table.c, group_entry.c,       *)
(* meter_table.c and meter_entry.c.  Which flows a flow mod or a timeout   *)
(* selects is the business of FlowTable; here it is any.                   *)
(*                                                                         *)
(* Flows and instruction arrays are addresses, so that a reference that    *)
(* outlives what it refers to can be seen.  The fields of what does not    *)
(* exist keep their initial value.  A flow has at most one meter           *)
(* instruction.  Left out: packets, statistics other than the counts of    *)
(* references, what dp_actions_validate() says of ports, and the group     *)
(* numbers above OFPG_MAX, which it lets pass.                             *)
(***************************************************************************)
EXTENDS Integers, FiniteSets

CONSTANTS
    Flow, Array,              \* addresses of flow entries, of instructions
    Group, Meter,             \* ids
    BucketLists,              \* buckets of a group mod: how many, and the
                              \* groups that their actions forward to
    FlowInstructions,         \* instructions of a flow mod: groups and meters
    Bands,                    \* numbers of bands of a meter mod
    GROUP_TABLE_MAX_ENTRIES, GROUP_TABLE_MAX_BUCKETS,
    DEFAULT_MAX_METER, METER_TABLE_MAX_BANDS,
    Garbage,                  \* bands_num, which meter_table_create() does not set
    WORD,                     \* 2^32 (2^64 for bands_num)
    FREE                      \* no array

ASSUME TableRefsAssumption ==
    /\ \A b \in BucketLists : b.num \in Nat /\ b.out \subseteq Group
    /\ \A i \in FlowInstructions : i.groups \subseteq Group /\ i.meters \subseteq Meter
    /\ WORD \in Nat \ {0} /\ Bands \subseteq Nat /\ Garbage \subseteq 0 .. WORD - 1
    /\ FREE \notin Array
    /\ GROUP_TABLE_MAX_ENTRIES \in Nat /\ GROUP_TABLE_MAX_BUCKETS \in Nat

\* There is memory for the instructions of every flow, and of one flow mod.
ASSUME MemoryAssumption ==
    IsFiniteSet(Flow) /\ IsFiniteSet(Array) /\ Cardinality(Flow) < Cardinality(Array)

VARIABLES
    flows,                  \* the flow entries
    insts,                  \* their instructions' array
    inst_groups, inst_meters,  \* what the instructions name
    group_refs, meter_refs,
    arrays,                 \* the arrays that are allocated
    groups, out, num,       \* the groups, their buckets' groups and number
    flow_refs, ref_count,
    entries_num, buckets_num,
    meters, bands, meter_flow_refs, flow_count,
    meters_num, bands_num,
    shared,                 \* history: a flow mod gave several flows its array
    double_free             \* history: an array was freed that was free

memory == <<insts, arrays, shared, double_free>>
flowvars == <<flows, memory, inst_groups, inst_meters, group_refs, meter_refs>>
groupvars == <<groups, out, num, entries_num, buckets_num>>
metervars == <<meters, bands, meters_num, bands_num>>
backrefs == <<flow_refs, ref_count, meter_flow_refs, flow_count>>
vars == <<flowvars, groupvars, metervars, backrefs>>

Init ==
    /\ flows = {} /\ insts = [f \in Flow |-> FREE] /\ arrays = {}
    /\ inst_groups = [f \in Flow |-> {}] /\ inst_meters = [f \in Flow |-> {}]
    /\ group_refs = [f \in Flow |-> {}] /\ meter_refs = [f \in Flow |-> {}]
    /\ groups = {} /\ out = [g \in Group |-> {}] /\ num = [g \in Group |-> 0]
    /\ flow_refs = [g \in Group |-> {}] /\ ref_count = [g \in Group |-> 0]
    /\ entries_num = 0 /\ buckets_num = 0
    /\ meters = {} /\ bands = [m \in Meter |-> 0]
    /\ meter_flow_refs = [m \in Meter |-> {}] /\ flow_count = [m \in Meter |-> 0]
    /\ meters_num = 0 /\ bands_num \in Garbage
    /\ shared = FALSE /\ double_free = FALSE

\* r with the entries of the keys ks set to v.
Reset(r, ks, v) == [k \in DOMAIN r |-> IF k \in ks THEN v ELSE r[k]]
-----------------------------------------------------------------------------
(* References *)

\* init_group_refs(), init_meter_refs(): back is back with the flows fs added
\* at the keys `refs' among those that exist.
init_refs(back, exist, fs, refs) ==
    [k \in DOMAIN back |-> IF k \in exist \cap refs THEN back[k] \cup fs ELSE back[k]]

\* Mutant: the references are not taken back.
del_refs_None(back, exist, fs, refs) == back

\* del_group_refs(), del_meter_refs(): back without the flows fs at the keys
\* they refer to.
del_refs(back, exist, fs, refs) ==
    [k \in DOMAIN back |->
        IF k \in exist THEN back[k] \ {f \in fs : k \in refs[f]} ELSE back[k]]

\* Mutant: a reference that is taken back stays counted.
Counted_Up(count, back, new) ==
    [k \in DOMAIN count |-> (count[k] + Cardinality(new[k] \ back[k])) % WORD]

\* The counters that are changed with every reference.
Counted(count, back, new) ==
    [k \in DOMAIN count |-> (count[k] + Cardinality(new[k]) - Cardinality(back[k])) % WORD]

\* Mutant: the instructions are left allocated.
Freed_Not(fs) == arrays

\* What is allocated once the arrays of the flows fs are freed.
Freed(fs) == arrays \ {insts[f] : f \in fs}

FreesTwice(fs) ==
    \/ \E f \in fs : insts[f] \notin arrays
    \/ \E f, h \in fs : f # h /\ insts[f] = insts[h]

Unused(S, used) == CHOOSE x \in S : x \notin used
-----------------------------------------------------------------------------
(* Flow entries *)

\* flow_entry_create() of f, and flow_entry_destroy() of the flow it replaces,
\* if any (fs).
flow_table_add ==
    \E i \in FlowInstructions, fs \in SUBSET flows :
    /\ flows # Flow /\ Cardinality(fs) <= 1
    /\ i.groups \subseteq groups       \* dp_actions_validate()
    /\ LET f == Unused(Flow, flows)
           a == Unused(Array, arrays)
           new_refs == del_refs(init_refs(flow_refs, groups, {f}, i.groups), groups, fs, group_refs)
           new_meter_refs == del_refs(init_refs(meter_flow_refs, meters, {f}, i.meters),
                                      meters, fs, meter_refs)
       IN  /\ flows' = (flows \ fs) \cup {f}
           /\ insts' = [Reset(insts, fs, FREE) EXCEPT ![f] = a]
           /\ inst_groups' = [Reset(inst_groups, fs, {}) EXCEPT ![f] = i.groups]
           /\ inst_meters' = [Reset(inst_meters, fs, {}) EXCEPT ![f] = i.meters]
           /\ group_refs' = [Reset(group_refs, fs, {}) EXCEPT ![f] = i.groups]
           /\ meter_refs' = [Reset(meter_refs, fs, {}) EXCEPT ![f] = i.meters]
           /\ flow_refs' = new_refs /\ ref_count' = Counted(ref_count, flow_refs, new_refs)
           /\ meter_flow_refs' = new_meter_refs
           /\ flow_count' = Counted(flow_count, meter_flow_refs, new_meter_refs)
           /\ arrays' = Freed(fs) \cup {a}
           /\ double_free' = (double_free \/ FreesTwice(fs))
    /\ UNCHANGED <<groupvars, metervars, shared>>

\* Mutant: a modified flow keeps its references to groups, as it does those to
\* meters.
flow_table_modify_KeptRefs ==
    \E i \in FlowInstructions, fs \in SUBSET flows :
    /\ fs # {} /\ i.groups \subseteq groups
    /\ LET a == Unused(Array, arrays) IN
       /\ insts' = Reset(insts, fs, a)
       /\ inst_groups' = Reset(inst_groups, fs, i.groups)
       /\ inst_meters' = Reset(inst_meters, fs, i.meters)
       /\ arrays' = Freed(fs) \cup {a}
       /\ double_free' = (double_free \/ FreesTwice(fs))
       /\ shared' = (shared \/ Cardinality(fs) > 1)
    /\ UNCHANGED <<flows, group_refs, meter_refs, groupvars, metervars, backrefs>>

\* flow_entry_replace_instructions() of all the flows fs: they share the array
\* of the flow mod, and their references to meters stay as they were.
flow_table_modify ==
    \E i \in FlowInstructions, fs \in SUBSET flows :
    /\ fs # {} /\ i.groups \subseteq groups
    /\ LET a == Unused(Array, arrays)
           new_refs == init_refs(del_refs(flow_refs, groups, fs, group_refs), groups, fs, i.groups)
       IN  /\ insts' = Reset(insts, fs, a)
           /\ inst_groups' = Reset(inst_groups, fs, i.groups)
           /\ inst_meters' = Reset(inst_meters, fs, i.meters)
           /\ group_refs' = Reset(group_refs, fs, i.groups)
           /\ flow_refs' = new_refs /\ ref_count' = Counted(ref_count, flow_refs, new_refs)
           /\ arrays' = Freed(fs) \cup {a}
           /\ double_free' = (double_free \/ FreesTwice(fs))
           /\ shared' = (shared \/ Cardinality(fs) > 1)
    /\ UNCHANGED <<flows, meter_refs, meter_flow_refs, flow_count, groupvars, metervars>>

\* flow_entry_remove() of the flows fs; `gone' are the groups and `lost' the
\* meters being destroyed.
flow_entry_remove(fs, gone, lost) ==
    LET new_refs == Reset(del_refs(flow_refs, groups \ gone, fs, group_refs), gone, {})
        new_meter_refs == Reset(del_refs(meter_flow_refs, meters \ lost, fs, meter_refs), lost, {})
    IN  /\ flows' = flows \ fs
        /\ insts' = Reset(insts, fs, FREE)
        /\ inst_groups' = Reset(inst_groups, fs, {}) /\ inst_meters' = Reset(inst_meters, fs, {})
        /\ group_refs' = Reset(group_refs, fs, {}) /\ meter_refs' = Reset(meter_refs, fs, {})
        /\ flow_refs' = new_refs
        /\ ref_count' = Reset(Counted(ref_count, flow_refs, new_refs), gone, 0)
        /\ meter_flow_refs' = new_meter_refs
        /\ flow_count' = Reset(Counted(flow_count, meter_flow_refs, new_meter_refs), lost, 0)
        /\ arrays' = Freed(fs)
        /\ double_free' = (double_free \/ FreesTwice(fs))
        /\ UNCHANGED shared

\* A flow mod deletes flows, or they time out.
RemoveFlows ==
    /\ \E fs \in SUBSET flows : fs # {} /\ flow_entry_remove(fs, {}, {})
    /\ UNCHANGED <<groupvars, metervars>>
-----------------------------------------------------------------------------
(* Groups *)

\* Mutant: the buckets to come are not counted.
OutOfBuckets_Before(others, n) == others > GROUP_TABLE_MAX_BUCKETS

OutOfBuckets(others, n) == others + n > GROUP_TABLE_MAX_BUCKETS

group_table_add(g, b) ==
    /\ g \notin groups /\ b.out \subseteq groups
    /\ entries_num # GROUP_TABLE_MAX_ENTRIES
    /\ ~OutOfBuckets(buckets_num, b.num)
    /\ groups' = groups \cup {g}
    /\ out' = [out EXCEPT ![g] = b.out] /\ num' = [num EXCEPT ![g] = b.num]
    /\ entries_num' = entries_num + 1 /\ buckets_num' = buckets_num + b.num
    /\ UNCHANGED <<flowvars, metervars, backrefs>>

\* Mutant: only the modified group itself is looked for.
is_loop_free_Direct(g, targets) == g \notin targets

\* The groups that `targets' lead to, g left as it is, can be visited without
\* coming to g.
is_loop_free(g, targets) ==
    \E visited \in SUBSET groups :
        /\ targets \subseteq visited /\ g \notin visited
        /\ \A v \in visited : out[v] \subseteq visited

\* The new entry keeps the flow_refs of the old one, and counts none of them.
group_table_modify(g, b) ==
    /\ g \in groups /\ b.out \subseteq groups
    /\ ~OutOfBuckets(buckets_num - num[g], b.num)
    /\ is_loop_free(g, b.out)
    /\ out' = [out EXCEPT ![g] = b.out] /\ num' = [num EXCEPT ![g] = b.num]
    /\ buckets_num' = buckets_num - num[g] + b.num
    /\ ref_count' = [ref_count EXCEPT ![g] = 0]
    /\ UNCHANGED <<flowvars, groups, entries_num, metervars, flow_refs, meter_flow_refs, flow_count>>

\* Mutant: a group is deleted although others forward to it.
Unchained_Any(g) == TRUE

\* No group forwards to g.
Unchained(g) == \A e \in groups : g \notin out[e]

group_table_delete(g) ==
    /\ g \in groups /\ Unchained(g)
    /\ groups' = groups \ {g}
    /\ out' = [out EXCEPT ![g] = {}] /\ num' = [num EXCEPT ![g] = 0]
    /\ entries_num' = entries_num - 1 /\ buckets_num' = buckets_num - num[g]
    /\ flow_entry_remove(flow_refs[g], {g}, {})
    /\ UNCHANGED metervars

\* OFPG_ALL.
group_table_delete_all ==
    /\ groups' = {}
    /\ out' = [g \in Group |-> {}] /\ num' = [g \in Group |-> 0]
    /\ entries_num' = 0 /\ buckets_num' = 0
    /\ flow_entry_remove(UNION {flow_refs[g] : g \in groups}, groups, {})
    /\ UNCHANGED metervars
-----------------------------------------------------------------------------
(* Meters *)

meter_table_add(m, n) ==
    /\ m \notin meters /\ meters_num # DEFAULT_MAX_METER
    /\ (bands_num + n) % WORD <= METER_TABLE_MAX_BANDS
    /\ meters' = meters \cup {m}
    /\ bands' = [bands EXCEPT ![m] = n]
    /\ meters_num' = meters_num + 1 /\ bands_num' = (bands_num + n) % WORD
    /\ UNCHANGED <<flowvars, groupvars, backrefs>>

\* The new entry keeps flow_refs and flow_count of the old one.
meter_table_modify(m, n) ==
    /\ m \in meters /\ (bands_num - bands[m] + n) % WORD <= METER_TABLE_MAX_BANDS
    /\ bands' = [bands EXCEPT ![m] = n]
    /\ bands_num' = (bands_num - bands[m] + n) % WORD
    /\ UNCHANGED <<flowvars, groupvars, meters, meters_num, backrefs>>

meter_table_delete(m) ==
    /\ m \in meters
    /\ meters' = meters \ {m} /\ bands' = [bands EXCEPT ![m] = 0]
    /\ meters_num' = meters_num - 1 /\ bands_num' = (bands_num - bands[m]) % WORD
    /\ flow_entry_remove(meter_flow_refs[m], {}, {m})
    /\ UNCHANGED groupvars

\* OFPM_ALL.
meter_table_delete_all ==
    /\ meters' = {} /\ bands' = [m \in Meter |-> 0]
    /\ meters_num' = 0 /\ bands_num' = 0
    /\ flow_entry_remove(UNION {meter_flow_refs[m] : m \in meters}, {}, meters)
    /\ UNCHANGED groupvars

Next ==
    \/ flow_table_add \/ flow_table_modify \/ RemoveFlows
    \/ \E g \in Group, b \in BucketLists : group_table_add(g, b) \/ group_table_modify(g, b)
    \/ \E g \in Group : group_table_delete(g)
    \/ group_table_delete_all
    \/ \E m \in Meter, n \in Bands : meter_table_add(m, n) \/ meter_table_modify(m, n)
    \/ \E m \in Meter : meter_table_delete(m)
    \/ meter_table_delete_all

Spec == Init /\ [][Next]_vars
-----------------------------------------------------------------------------
\* The fields hold what they are declared for; a table has no more entries
\* and buckets than it may.
TypeOK ==
    /\ flows \subseteq Flow /\ groups \subseteq Group /\ meters \subseteq Meter
    /\ insts \in [Flow -> Array \cup {FREE}] /\ arrays \subseteq Array
    /\ inst_groups \in [Flow -> SUBSET Group] /\ inst_meters \in [Flow -> SUBSET Meter]
    /\ group_refs \in [Flow -> SUBSET Group] /\ meter_refs \in [Flow -> SUBSET Meter]
    /\ out \in [Group -> SUBSET Group] /\ flow_refs \in [Group -> SUBSET Flow]
    /\ meter_flow_refs \in [Meter -> SUBSET Flow]
    /\ ref_count \in [Group -> 0 .. WORD - 1] /\ flow_count \in [Meter -> 0 .. WORD - 1]
    /\ entries_num \in 0 .. GROUP_TABLE_MAX_ENTRIES
    /\ buckets_num \in 0 .. GROUP_TABLE_MAX_BUCKETS

\* What a group or a meter takes for a flow that refers to it is a flow:
\* deleting the group removes that flow, so a stale reference would remove
\* memory that was freed.
NoStaleFlowRefs ==
    /\ \A g \in Group : flow_refs[g] \subseteq flows
    /\ \A m \in Meter : meter_flow_refs[m] \subseteq flows

\* No flow and no bucket forwards to a group that does not exist: group mods
\* and flow mods are refused if they name such a group, a group that others
\* forward to is not deleted, and a group takes its flows with it.
ForwardedGroupsExist ==
    /\ \A f \in flows : inst_groups[f] \subseteq groups
    /\ \A g \in groups : out[g] \subseteq groups

\* "It is assumed that table is loop free": groups never forward to each other
\* in a circle, in which group_entry_execute() would not end.
GroupsLoopFree ==
    \A S \in SUBSET groups : S # {} => \E g \in S : out[g] \cap S = {}

\* The buckets of the groups gs, if g has n[g] of them.
Buckets(gs, n) == UNION {{g} \X (1 .. n[g]) : g \in gs}

\* The numbers that the limits are tested against are those of the table, and
\* a meter's flow_count that of its flows.
CountsExact ==
    /\ entries_num = Cardinality(groups) /\ meters_num = Cardinality(meters)
    /\ buckets_num = Cardinality(Buckets(groups, num))
    /\ \A m \in Meter : flow_count[m] = Cardinality(meter_flow_refs[m]) % WORD

\* As long as no flow mod modifies several flows at once, each flow owns its
\* instructions: they are freed with it, and only then.
InstructionsOwned ==
    ~shared =>
        /\ ~double_free
        /\ arrays = {insts[f] : f \in flows}
        /\ \A f, h \in flows : insts[f] = insts[h] => f = h

\* The tables of groups and meters hold what they may and no more: the numbers that
\* the limits of the group and meter tables are tested against
\* are those of the tables, and a flow's instructions are freed with it and only
\* then, as long as no flow mod modifies several flows at once (group_table.c,
\* meter_table.c, flow_entry.c).
RefsCounted == TypeOK /\ CountsExact /\ InstructionsOwned
=============================================================================
