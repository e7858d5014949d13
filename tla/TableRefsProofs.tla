--------------------------- MODULE TableRefsProofs ---------------------------
(***************************************************************************)
(* For every number of flows, groups and meters, and whatever flow mods,   *)
(* group mods and meter mods name: references that groups and meters hold  *)
(* are to flows that exist, what is forwarded to exists, groups are free   *)
(* of loops (IInv), the counts are right (GroupCounts, MeterCounts), and   *)
(* instructions are freed once (Memory).                                   *)
(***************************************************************************)
EXTENDS TableRefs, FiniteSetTheorems, TLAPS

\* What the tables hold is what it is declared for.
Typed ==
    /\ flows \subseteq Flow /\ groups \subseteq Group /\ meters \subseteq Meter
    /\ flow_refs \in [Group -> SUBSET Flow] /\ group_refs \in [Flow -> SUBSET Group]
    /\ meter_flow_refs \in [Meter -> SUBSET Flow] /\ meter_refs \in [Flow -> SUBSET Meter]
    /\ inst_groups \in [Flow -> SUBSET Group] /\ out \in [Group -> SUBSET Group]

\* A flow refers to the groups that its instructions name, all of which exist.
FlowRefsExact ==
    \A f \in flows : group_refs[f] = inst_groups[f] /\ inst_groups[f] \subseteq groups

\* A group refers to the flows that refer to it.
GroupRefsMutual ==
    \A g \in Group, f \in Flow :
        f \in flow_refs[g] <=> f \in flows /\ g \in groups /\ g \in group_refs[f]

\* A meter refers only to flows that refer to it.
MeterRefsMutual ==
    \A m \in Meter, f \in Flow :
        f \in meter_flow_refs[m] => f \in flows /\ m \in meters /\ m \in meter_refs[f]

BucketGroupsExist == \A g \in groups : out[g] \subseteq groups

IInv ==
    /\ Typed /\ FlowRefsExact /\ GroupRefsMutual /\ MeterRefsMutual
    /\ BucketGroupsExist /\ GroupsLoopFree

LEMMA InitIInv == Init => IInv
  BY DEF Init, IInv, Typed, FlowRefsExact, GroupRefsMutual, MeterRefsMutual,
         BucketGroupsExist, GroupsLoopFree

\* Nothing that the invariant speaks of changes.
LEMMA StutterIInv == ASSUME IInv, UNCHANGED vars PROVE IInv'
  BY DEF IInv, Typed, FlowRefsExact, GroupRefsMutual, MeterRefsMutual, BucketGroupsExist,
         GroupsLoopFree, vars, flowvars, groupvars, metervars, backrefs

-----------------------------------------------------------------------------
(* Flow entries *)

LEMMA AddIInv == ASSUME IInv, flow_table_add PROVE IInv'
<1>1. PICK i \in FlowInstructions, fs \in SUBSET flows : flow_table_add!(i, fs)
  BY Zenon DEF flow_table_add
<1> DEFINE f == Unused(Flow, flows)
<1>2. f \in Flow /\ f \notin flows
  BY <1>1, Zenon DEF Unused, IInv, Typed
<1>3. i.groups \subseteq groups /\ i.groups \subseteq Group /\ i.meters \subseteq Meter
  BY <1>1, TableRefsAssumption
<1>4. /\ flows' = (flows \ fs) \cup {f}
      /\ inst_groups' = [Reset(inst_groups, fs, {}) EXCEPT ![f] = i.groups]
      /\ group_refs' = [Reset(group_refs, fs, {}) EXCEPT ![f] = i.groups]
      /\ meter_refs' = [Reset(meter_refs, fs, {}) EXCEPT ![f] = i.meters]
      /\ flow_refs' = del_refs(init_refs(flow_refs, groups, {f}, i.groups), groups, fs, group_refs)
      /\ meter_flow_refs' = del_refs(init_refs(meter_flow_refs, meters, {f}, i.meters),
                                     meters, fs, meter_refs)
      /\ groups' = groups /\ out' = out /\ meters' = meters
  BY <1>1, Zenon DEF groupvars, metervars
<1> HIDE DEF f
<1>5. Typed'
  BY <1>2, <1>3, <1>4 DEF IInv, Typed, Reset, del_refs, init_refs
<1>6. FlowRefsExact'
  BY <1>2, <1>3, <1>4 DEF IInv, Typed, Reset, FlowRefsExact
<1>7. GroupRefsMutual'
  BY <1>2, <1>3, <1>4 DEF IInv, Typed, Reset, del_refs, init_refs, GroupRefsMutual
<1>8. MeterRefsMutual'
  BY <1>2, <1>3, <1>4 DEF IInv, Typed, Reset, del_refs, init_refs, MeterRefsMutual
<1> QED  BY <1>4, <1>5, <1>6, <1>7, <1>8 DEF IInv, BucketGroupsExist, GroupsLoopFree

LEMMA ModifyIInv == ASSUME IInv, flow_table_modify PROVE IInv'
<1>1. PICK i \in FlowInstructions, fs \in SUBSET flows : flow_table_modify!(i, fs)
  BY Zenon DEF flow_table_modify
<1>2. i.groups \subseteq groups /\ i.groups \subseteq Group
  BY <1>1, TableRefsAssumption
<1>3. /\ inst_groups' = Reset(inst_groups, fs, i.groups)
      /\ group_refs' = Reset(group_refs, fs, i.groups)
      /\ flow_refs' = init_refs(del_refs(flow_refs, groups, fs, group_refs), groups, fs, i.groups)
      /\ flows' = flows /\ groups' = groups /\ out' = out /\ meters' = meters
      /\ meter_refs' = meter_refs /\ meter_flow_refs' = meter_flow_refs
  BY <1>1, Zenon DEF groupvars, metervars
<1>4. Typed'
  BY <1>2, <1>3 DEF IInv, Typed, Reset, del_refs, init_refs
<1>5. FlowRefsExact'
  BY <1>2, <1>3 DEF IInv, Typed, Reset, FlowRefsExact
<1>6. GroupRefsMutual'
  BY <1>2, <1>3 DEF IInv, Typed, Reset, del_refs, init_refs, GroupRefsMutual
<1> QED
  BY <1>3, <1>4, <1>5, <1>6 DEF IInv, MeterRefsMutual, BucketGroupsExist, GroupsLoopFree

\* What flow_entry_remove() leaves of the references, if it removes all flows
\* that refer to the groups and meters being destroyed.
LEMMA RemoveRefs ==
  ASSUME IInv, NEW fs \in SUBSET flows, NEW gone \in SUBSET groups, NEW lost \in SUBSET meters,
         \A g \in gone : flow_refs[g] \subseteq fs,
         flow_entry_remove(fs, gone, lost),
         groups' = groups \ gone, meters' = meters \ lost,
         out' \in [Group -> SUBSET Group]
  PROVE  Typed' /\ FlowRefsExact' /\ GroupRefsMutual' /\ MeterRefsMutual'
<1>1. /\ flows' = flows \ fs
      /\ inst_groups' = Reset(inst_groups, fs, {})
      /\ group_refs' = Reset(group_refs, fs, {}) /\ meter_refs' = Reset(meter_refs, fs, {})
      /\ flow_refs' = Reset(del_refs(flow_refs, groups \ gone, fs, group_refs), gone, {})
      /\ meter_flow_refs' = Reset(del_refs(meter_flow_refs, meters \ lost, fs, meter_refs), lost, {})
  BY Zenon DEF flow_entry_remove
<1>2. Typed'
  BY <1>1 DEF IInv, Typed, Reset, del_refs
<1>3. FlowRefsExact'
  BY <1>1 DEF IInv, Typed, Reset, FlowRefsExact, GroupRefsMutual
<1>4. GroupRefsMutual'
  BY <1>1 DEF IInv, Typed, Reset, del_refs, GroupRefsMutual
<1>5. MeterRefsMutual'
  BY <1>1 DEF IInv, Typed, Reset, del_refs, MeterRefsMutual
<1> QED  BY <1>2, <1>3, <1>4, <1>5

LEMMA RemoveFlowsIInv == ASSUME IInv, RemoveFlows PROVE IInv'
<1>1. PICK fs \in SUBSET flows : flow_entry_remove(fs, {}, {})
  BY Zenon DEF RemoveFlows
<1>2. groups' = groups /\ meters' = meters /\ out' = out
  BY Zenon DEF RemoveFlows, groupvars, metervars
<1>3. /\ groups' = groups \ {} /\ meters' = meters \ {} /\ out' \in [Group -> SUBSET Group]
      /\ {} \in SUBSET groups /\ {} \in SUBSET meters
  BY <1>2 DEF IInv, Typed
<1>4. Typed' /\ FlowRefsExact' /\ GroupRefsMutual' /\ MeterRefsMutual'
  BY <1>1, <1>3, RemoveRefs
<1> QED  BY <1>2, <1>4 DEF IInv, BucketGroupsExist, GroupsLoopFree
-----------------------------------------------------------------------------
(* Groups *)

\* In a table without loops, what does not exist may be given any buckets
\* that forward to what exists.
LEMMA AddLoopFree ==
  ASSUME GroupsLoopFree, BucketGroupsExist, groups \subseteq Group, out \in [Group -> SUBSET Group],
         NEW g \in Group \ groups, NEW targets \in SUBSET groups,
         groups' = groups \cup {g}, out' = [out EXCEPT ![g] = targets]
  PROVE  GroupsLoopFree'
<1> SUFFICES ASSUME NEW S \in SUBSET (groups \cup {g}), S # {}
             PROVE  \E h \in S : out'[h] \cap S = {}
  BY DEF GroupsLoopFree
<1>1. \A h \in groups : out'[h] = out[h] /\ g \notin out'[h]
  BY DEF BucketGroupsExist
<1>2. CASE S \cap groups # {}
  <2>1. PICK h \in S \cap groups : out[h] \cap (S \cap groups) = {}
    BY <1>2, Zenon DEF GroupsLoopFree
  <2> QED  BY <1>1, <2>1 DEF BucketGroupsExist
<1>3. CASE S \cap groups = {}
  <2>1. S = {g} /\ out'[g] = targets
    BY <1>3
  <2> QED  BY <2>1
<1> QED  BY <1>2, <1>3

\* is_loop_free() keeps the promise of its comment.  A circle after the change
\* either meets the groups that `targets' lead to, which are unchanged, or
\* passes through g, which leads only to those, or was there before.
LEMMA ModifyLoopFree ==
  ASSUME GroupsLoopFree, groups \subseteq Group, out \in [Group -> SUBSET Group],
         NEW g \in groups, NEW targets \in SUBSET groups, is_loop_free(g, targets),
         groups' = groups, out' = [out EXCEPT ![g] = targets]
  PROVE  GroupsLoopFree'
<1>1. PICK visited \in SUBSET groups :
        /\ targets \subseteq visited /\ g \notin visited
        /\ \A v \in visited : out[v] \subseteq visited
  BY DEF is_loop_free
<1> SUFFICES ASSUME NEW S \in SUBSET groups, S # {}
             PROVE  \E h \in S : out'[h] \cap S = {}
  BY DEF GroupsLoopFree
<1>2. CASE S \cap visited # {}
  <2>1. PICK h \in S \cap visited : out[h] \cap (S \cap visited) = {}
    BY <1>2, Zenon DEF GroupsLoopFree
  <2>2. out'[h] = out[h] /\ out[h] \subseteq visited
    BY <1>1, <2>1
  <2> QED  BY <2>1, <2>2
<1>3. CASE S \cap visited = {} /\ g \in S
  <2>1. out'[g] = targets
    OBVIOUS
  <2> QED  BY <1>1, <1>3, <2>1
<1>4. CASE g \notin S
  <2>1. PICK h \in S : out[h] \cap S = {}
    BY DEF GroupsLoopFree
  <2> QED  BY <1>4, <2>1
<1> QED  BY <1>2, <1>3, <1>4

\* A table that loses groups gets no loop.
LEMMA DeleteLoopFree ==
  ASSUME GroupsLoopFree, groups' \subseteq groups, \A g \in groups' : out'[g] = out[g]
  PROVE  GroupsLoopFree'
<1> SUFFICES ASSUME NEW S \in SUBSET groups', S # {}
             PROVE  \E h \in S : out'[h] \cap S = {}
  BY DEF GroupsLoopFree
<1>1. PICK h \in S : out[h] \cap S = {}
  BY DEF GroupsLoopFree
<1> QED  BY <1>1

LEMMA GroupAddIInv ==
  ASSUME IInv, NEW g \in Group, NEW b \in BucketLists, group_table_add(g, b)  PROVE IInv'
<1>1. /\ g \notin groups /\ b.out \subseteq groups
      /\ groups' = groups \cup {g} /\ out' = [out EXCEPT ![g] = b.out]
      /\ flows' = flows /\ inst_groups' = inst_groups /\ group_refs' = group_refs
      /\ meter_refs' = meter_refs /\ flow_refs' = flow_refs
      /\ meter_flow_refs' = meter_flow_refs /\ meters' = meters
  BY Zenon DEF group_table_add, flowvars, metervars, backrefs
<1>2. Typed'
  BY <1>1 DEF IInv, Typed
<1>3. FlowRefsExact' /\ GroupRefsMutual' /\ MeterRefsMutual'
  BY <1>1 DEF IInv, Typed, FlowRefsExact, GroupRefsMutual, MeterRefsMutual
<1>4. BucketGroupsExist'
  BY <1>1 DEF IInv, Typed, BucketGroupsExist
<1>5. GroupsLoopFree'
  BY <1>1, AddLoopFree, Zenon DEF IInv, Typed
<1> QED  BY <1>2, <1>3, <1>4, <1>5 DEF IInv

LEMMA GroupModifyIInv ==
  ASSUME IInv, NEW g \in Group, NEW b \in BucketLists, group_table_modify(g, b)  PROVE IInv'
<1>1. /\ g \in groups /\ b.out \subseteq groups /\ is_loop_free(g, b.out)
      /\ groups' = groups /\ out' = [out EXCEPT ![g] = b.out]
      /\ flows' = flows /\ inst_groups' = inst_groups /\ group_refs' = group_refs
      /\ meter_refs' = meter_refs /\ flow_refs' = flow_refs
      /\ meter_flow_refs' = meter_flow_refs /\ meters' = meters
  BY Zenon DEF group_table_modify, flowvars, metervars, backrefs
<1>2. Typed'
  BY <1>1 DEF IInv, Typed
<1>3. FlowRefsExact' /\ GroupRefsMutual' /\ MeterRefsMutual'
  BY <1>1 DEF IInv, FlowRefsExact, GroupRefsMutual, MeterRefsMutual
<1>4. BucketGroupsExist'
  BY <1>1 DEF IInv, Typed, BucketGroupsExist
<1>5. GroupsLoopFree'
  BY <1>1, ModifyLoopFree, Zenon DEF IInv, Typed
<1> QED  BY <1>2, <1>3, <1>4, <1>5 DEF IInv

LEMMA GroupDeleteIInv == ASSUME IInv, NEW g \in Group, group_table_delete(g)  PROVE IInv'
<1>1. /\ g \in groups /\ Unchained(g)
      /\ groups' = groups \ {g} /\ out' = [out EXCEPT ![g] = {}]
      /\ flow_entry_remove(flow_refs[g], {g}, {}) /\ meters' = meters
  BY Zenon DEF group_table_delete, metervars
<1>2. /\ flow_refs[g] \in SUBSET flows /\ {g} \in SUBSET groups /\ {} \in SUBSET meters
      /\ \A h \in {g} : flow_refs[h] \subseteq flow_refs[g]
      /\ meters' = meters \ {} /\ out' \in [Group -> SUBSET Group]
  BY <1>1 DEF IInv, Typed, GroupRefsMutual
<1>3. Typed' /\ FlowRefsExact' /\ GroupRefsMutual' /\ MeterRefsMutual'
  BY <1>1, <1>2, RemoveRefs
<1>4. BucketGroupsExist'
  BY <1>1 DEF IInv, Typed, BucketGroupsExist, Unchained
<1>5. GroupsLoopFree'
  BY <1>1, DeleteLoopFree DEF IInv, Typed
<1> QED  BY <1>3, <1>4, <1>5 DEF IInv

LEMMA GroupDeleteAllIInv == ASSUME IInv, group_table_delete_all  PROVE IInv'
<1> DEFINE fs == UNION {flow_refs[g] : g \in groups}
<1>1. /\ groups' = {} /\ out' = [g \in Group |-> {}] /\ meters' = meters
      /\ flow_entry_remove(fs, groups, {})
  BY Zenon DEF group_table_delete_all, metervars
<1>2. fs \in SUBSET flows
  BY DEF IInv, Typed, GroupRefsMutual
<1>3. \A g \in groups : flow_refs[g] \subseteq fs
  OBVIOUS
<1> HIDE DEF fs
<1>4. /\ groups \in SUBSET groups /\ {} \in SUBSET meters /\ groups' = groups \ groups
      /\ meters' = meters \ {} /\ out' \in [Group -> SUBSET Group]
  BY <1>1
<1>5. Typed' /\ FlowRefsExact' /\ GroupRefsMutual' /\ MeterRefsMutual'
  BY <1>1, <1>2, <1>3, <1>4, RemoveRefs
<1> QED  BY <1>1, <1>5 DEF IInv, BucketGroupsExist, GroupsLoopFree
-----------------------------------------------------------------------------
(* Meters *)

LEMMA MeterChangeIInv ==
  ASSUME IInv, NEW m \in Meter, NEW n \in Bands,
         meter_table_add(m, n) \/ meter_table_modify(m, n)
  PROVE  IInv'
<1>1. /\ flows' = flows /\ inst_groups' = inst_groups /\ group_refs' = group_refs
      /\ meter_refs' = meter_refs /\ flow_refs' = flow_refs /\ groups' = groups /\ out' = out
      /\ meter_flow_refs' = meter_flow_refs /\ (meters' = meters \/ meters' = meters \cup {m})
  BY Zenon DEF meter_table_add, meter_table_modify, flowvars, groupvars, backrefs
<1> QED
  BY <1>1 DEF IInv, Typed, FlowRefsExact, GroupRefsMutual, MeterRefsMutual, BucketGroupsExist,
              GroupsLoopFree

LEMMA MeterDeleteIInv == ASSUME IInv, NEW m \in Meter, meter_table_delete(m)  PROVE IInv'
<1>1. /\ m \in meters /\ meters' = meters \ {m} /\ groups' = groups /\ out' = out
      /\ flow_entry_remove(meter_flow_refs[m], {}, {m})
  BY Zenon DEF meter_table_delete, groupvars
<1>2. /\ meter_flow_refs[m] \in SUBSET flows /\ {} \in SUBSET groups /\ {m} \in SUBSET meters
      /\ groups' = groups \ {} /\ out' \in [Group -> SUBSET Group]
  BY <1>1 DEF IInv, Typed, MeterRefsMutual
<1>3. Typed' /\ FlowRefsExact' /\ GroupRefsMutual' /\ MeterRefsMutual'
  BY <1>1, <1>2, RemoveRefs
<1> QED  BY <1>1, <1>3 DEF IInv, BucketGroupsExist, GroupsLoopFree

LEMMA MeterDeleteAllIInv == ASSUME IInv, meter_table_delete_all  PROVE IInv'
<1> DEFINE fs == UNION {meter_flow_refs[m] : m \in meters}
<1>1. /\ meters' = {} /\ groups' = groups /\ out' = out /\ flow_entry_remove(fs, {}, meters)
  BY Zenon DEF meter_table_delete_all, groupvars
<1>2. fs \in SUBSET flows
  BY DEF IInv, Typed, MeterRefsMutual
<1> HIDE DEF fs
<1>3. /\ {} \in SUBSET groups /\ meters \in SUBSET meters /\ meters' = meters \ meters
      /\ groups' = groups \ {} /\ out' \in [Group -> SUBSET Group]
  BY <1>1 DEF IInv, Typed
<1>4. Typed' /\ FlowRefsExact' /\ GroupRefsMutual' /\ MeterRefsMutual'
  BY <1>1, <1>2, <1>3, RemoveRefs
<1> QED  BY <1>1, <1>4 DEF IInv, BucketGroupsExist, GroupsLoopFree
-----------------------------------------------------------------------------
LEMMA NextIInv == ASSUME IInv, [Next]_vars PROVE IInv'
<1>1. CASE flow_table_add  BY <1>1, AddIInv
<1>2. CASE flow_table_modify  BY <1>2, ModifyIInv
<1>3. CASE RemoveFlows  BY <1>3, RemoveFlowsIInv
<1>4. CASE \E g \in Group, b \in BucketLists : group_table_add(g, b) \/ group_table_modify(g, b)
  BY <1>4, GroupAddIInv, GroupModifyIInv
<1>5. CASE \E g \in Group : group_table_delete(g)  BY <1>5, GroupDeleteIInv
<1>6. CASE group_table_delete_all  BY <1>6, GroupDeleteAllIInv
<1>7. CASE \E m \in Meter, n \in Bands : meter_table_add(m, n) \/ meter_table_modify(m, n)
  BY <1>7, MeterChangeIInv
<1>8. CASE \E m \in Meter : meter_table_delete(m)  BY <1>8, MeterDeleteIInv
<1>9. CASE meter_table_delete_all  BY <1>9, MeterDeleteAllIInv
<1>10. CASE UNCHANGED vars  BY <1>10, StutterIInv
<1> QED  BY <1>1, <1>2, <1>3, <1>4, <1>5, <1>6, <1>7, <1>8, <1>9, <1>10 DEF Next

\* References are mutual in every reachable state.
THEOREM RefsMutual == Spec => []IInv
  BY InitIInv, NextIInv, PTL DEF Spec

\* Neither group_entry_destroy() nor meter_entry_destroy() ever removes a flow
\* that was freed: the lists they walk name flows that exist.
THEOREM NoStaleFlowRefsHolds == Spec => []NoStaleFlowRefs
<1>1. IInv => NoStaleFlowRefs
  BY DEF IInv, Typed, GroupRefsMutual, MeterRefsMutual, NoStaleFlowRefs
<1> QED  BY <1>1, RefsMutual, PTL

\* group_table_execute() finds every group that an installed flow or bucket
\* forwards to.
THEOREM ForwardedGroupsExistHolds == Spec => []ForwardedGroupsExist
<1>1. IInv => ForwardedGroupsExist
  BY DEF IInv, FlowRefsExact, BucketGroupsExist, ForwardedGroupsExist
<1> QED  BY <1>1, RefsMutual, PTL

\* What is_loop_free() assumes, and promises in its comment: groups never
\* forward in a circle.
THEOREM GroupsLoopFreeHolds == Spec => []GroupsLoopFree
<1>1. IInv => GroupsLoopFree
  BY DEF IInv
<1> QED  BY <1>1, RefsMutual, PTL
-----------------------------------------------------------------------------
(* How many groups and buckets there are                                   *)

LEMMA Limits ==
    /\ GROUP_TABLE_MAX_ENTRIES \in Nat /\ GROUP_TABLE_MAX_BUCKETS \in Nat
    /\ \A b \in BucketLists : b.num \in Nat
  BY TableRefsAssumption

GroupCounts ==
    /\ IsFiniteSet(groups) /\ entries_num = Cardinality(groups)
    /\ entries_num <= GROUP_TABLE_MAX_ENTRIES
    /\ num \in [Group -> Nat]
    /\ IsFiniteSet(Buckets(groups, num)) /\ buckets_num = Cardinality(Buckets(groups, num))
    /\ buckets_num <= GROUP_TABLE_MAX_BUCKETS

\* The buckets of some groups are those of g and those of the others.
LEMMA BucketsOfOne ==
    ASSUME NEW gs, NEW n \in [Group -> Nat], NEW g \in gs, gs \subseteq Group,
           IsFiniteSet(Buckets(gs \ {g}, n))
    PROVE  /\ IsFiniteSet(Buckets(gs, n))
           /\ Cardinality(Buckets(gs, n)) = Cardinality(Buckets(gs \ {g}, n)) + n[g]
<1> DEFINE own == {g} \X (1 .. n[g])
           rest == Buckets(gs \ {g}, n)
<1>1. n[g] \in Nat
  OBVIOUS
<1>2. IsFiniteSet({g}) /\ Cardinality({g}) = 1
  BY FS_Singleton, Zenon
<1>3. IsFiniteSet(1 .. n[g]) /\ Cardinality(1 .. n[g]) = n[g]
  BY <1>1, FS_Interval, SMTT(30)
<1>4. IsFiniteSet(own) /\ Cardinality(own) = 1 * n[g]
  BY <1>2, <1>3, FS_Product
<1>5. Buckets(gs, n) = rest \cup own
  BY DEF Buckets
<1>6. rest \cap own = {}
  BY DEF Buckets
<1>7. IsFiniteSet(rest)
  OBVIOUS
<1> HIDE DEF own, rest
<1>8. /\ IsFiniteSet(rest \cup own)
      /\ Cardinality(rest \cup own) = Cardinality(rest) + Cardinality(own) - Cardinality(rest \cap own)
  BY <1>4, <1>7, FS_Union
<1>9. Cardinality({}) = 0 /\ Cardinality(rest) \in Nat
  BY <1>7, FS_EmptySet, FS_CardinalityType
<1>10. Cardinality(own) = n[g] /\ Cardinality(rest \cap own) = 0
  BY <1>1, <1>4, <1>6, <1>9
<1>11. Cardinality(rest \cup own) = Cardinality(rest) + n[g]
  BY <1>1, <1>8, <1>9, <1>10
<1> QED
  BY <1>5, <1>8, <1>11, Zenon DEF rest

\* What is left of the buckets without those of g.
LEMMA BucketsWithout ==
    ASSUME NEW gs, NEW n \in [Group -> Nat], NEW g \in gs, gs \subseteq Group,
           IsFiniteSet(Buckets(gs, n))
    PROVE  /\ IsFiniteSet(Buckets(gs \ {g}, n)) /\ n[g] \in Nat
           /\ Cardinality(Buckets(gs \ {g}, n)) \in Nat
           /\ Cardinality(Buckets(gs, n)) = Cardinality(Buckets(gs \ {g}, n)) + n[g]
<1>1. Buckets(gs \ {g}, n) \in SUBSET Buckets(gs, n)
  BY DEF Buckets
<1>2. IsFiniteSet(Buckets(gs \ {g}, n)) /\ Cardinality(Buckets(gs \ {g}, n)) \in Nat
  BY <1>1, FS_Subset, FS_CardinalityType, Zenon
<1> QED
  BY <1>2, BucketsOfOne

\* Only the number of buckets of groups in gs matters.
LEMMA BucketsAgree ==
    ASSUME NEW gs, NEW n, NEW k, \A g \in gs : n[g] = k[g]
    PROVE  Buckets(gs, n) = Buckets(gs, k)
  BY DEF Buckets

LEMMA NoBuckets == ASSUME NEW n PROVE IsFiniteSet(Buckets({}, n)) /\ Cardinality(Buckets({}, n)) = 0
<1>1. Buckets({}, n) = {}
  BY DEF Buckets
<1> QED
  BY <1>1, FS_EmptySet

LEMMA InitGroupCounts == Init => GroupCounts
  BY NoBuckets, FS_EmptySet, Limits DEF Init, GroupCounts

LEMMA GroupAddCounts ==
  ASSUME Typed, GroupCounts, NEW g \in Group, NEW b \in BucketLists, group_table_add(g, b)
  PROVE  GroupCounts'
<1>1. /\ g \notin groups /\ groups' = groups \cup {g} /\ num' = [num EXCEPT ![g] = b.num]
      /\ entries_num # GROUP_TABLE_MAX_ENTRIES /\ ~(buckets_num + b.num > GROUP_TABLE_MAX_BUCKETS)
      /\ entries_num' = entries_num + 1 /\ buckets_num' = buckets_num + b.num
  BY Zenon DEF group_table_add, OutOfBuckets
<1>2. b.num \in Nat /\ num' \in [Group -> Nat] /\ num'[g] = b.num
  BY <1>1, Limits DEF GroupCounts
<1>3. /\ IsFiniteSet(groups') /\ Cardinality(groups') = Cardinality(groups) + 1
      /\ Cardinality(groups) \in Nat
  BY <1>1, FS_AddElement, FS_CardinalityType DEF GroupCounts
<1>4. Buckets(groups' \ {g}, num') = Buckets(groups, num)
  <2>1. groups' \ {g} = groups /\ \A h \in groups : num'[h] = num[h]
    BY <1>1 DEF Typed, GroupCounts
  <2> QED
    BY <2>1, BucketsAgree
<1>5. /\ IsFiniteSet(Buckets(groups', num'))
      /\ Cardinality(Buckets(groups', num')) = Cardinality(Buckets(groups, num)) + b.num
  <2>1. g \in groups' /\ groups' \subseteq Group /\ IsFiniteSet(Buckets(groups' \ {g}, num'))
    BY <1>1, <1>4 DEF Typed, GroupCounts
  <2> QED
    BY <1>2, <1>4, <2>1, BucketsOfOne
<1>6. Cardinality(Buckets(groups, num)) \in Nat
  BY FS_CardinalityType DEF GroupCounts
<1> QED
  BY <1>1, <1>2, <1>3, <1>5, <1>6, Limits DEF GroupCounts

LEMMA GroupModifyCounts ==
  ASSUME Typed, GroupCounts, NEW g \in Group, NEW b \in BucketLists, group_table_modify(g, b)
  PROVE  GroupCounts'
<1>1. /\ g \in groups /\ groups' = groups /\ num' = [num EXCEPT ![g] = b.num]
      /\ ~(buckets_num - num[g] + b.num > GROUP_TABLE_MAX_BUCKETS)
      /\ entries_num' = entries_num /\ buckets_num' = buckets_num - num[g] + b.num
  BY Zenon DEF group_table_modify, OutOfBuckets
<1>2. b.num \in Nat /\ num' \in [Group -> Nat] /\ num'[g] = b.num /\ groups \subseteq Group
  BY <1>1, Limits DEF GroupCounts, Typed
<1>3. /\ IsFiniteSet(Buckets(groups \ {g}, num)) /\ num[g] \in Nat
      /\ Cardinality(Buckets(groups \ {g}, num)) \in Nat
      /\ Cardinality(Buckets(groups, num)) = Cardinality(Buckets(groups \ {g}, num)) + num[g]
  BY <1>1, <1>2, BucketsWithout DEF GroupCounts
<1>4. Buckets(groups \ {g}, num') = Buckets(groups \ {g}, num)
  <2>1. \A h \in groups \ {g} : num'[h] = num[h]
    BY <1>1 DEF Typed, GroupCounts
  <2> QED
    BY <2>1, BucketsAgree
<1>5. /\ IsFiniteSet(Buckets(groups, num'))
      /\ Cardinality(Buckets(groups, num')) = Cardinality(Buckets(groups \ {g}, num')) + num'[g]
  BY <1>1, <1>2, <1>3, <1>4, BucketsOfOne, Zenon
<1> QED
  BY <1>1, <1>2, <1>3, <1>4, <1>5, Limits DEF GroupCounts

LEMMA GroupDeleteCounts ==
  ASSUME Typed, GroupCounts, NEW g \in Group, group_table_delete(g)
  PROVE  GroupCounts'
<1>1. /\ g \in groups /\ groups' = groups \ {g} /\ num' = [num EXCEPT ![g] = 0]
      /\ entries_num' = entries_num - 1 /\ buckets_num' = buckets_num - num[g]
  BY Zenon DEF group_table_delete
<1>2. num' \in [Group -> Nat] /\ groups \subseteq Group
  BY <1>1 DEF GroupCounts, Typed
<1>3. /\ IsFiniteSet(Buckets(groups \ {g}, num)) /\ num[g] \in Nat
      /\ Cardinality(Buckets(groups \ {g}, num)) \in Nat
      /\ Cardinality(Buckets(groups, num)) = Cardinality(Buckets(groups \ {g}, num)) + num[g]
  BY <1>1, <1>2, BucketsWithout DEF GroupCounts
<1>4. Buckets(groups', num') = Buckets(groups \ {g}, num)
  <2>1. \A h \in groups' : num'[h] = num[h]
    BY <1>1 DEF Typed, GroupCounts
  <2> QED
    BY <1>1, <2>1, BucketsAgree, Zenon
<1>5. IsFiniteSet(groups') /\ Cardinality(groups') = Cardinality(groups) - 1
  BY <1>1, FS_RemoveElement DEF GroupCounts
<1>6. Cardinality(groups) \in Nat
  BY FS_CardinalityType DEF GroupCounts
<1> QED
  BY <1>1, <1>2, <1>3, <1>4, <1>5, <1>6, Limits DEF GroupCounts

LEMMA NextGroupCounts == ASSUME IInv, GroupCounts, [Next]_vars PROVE GroupCounts'
<1>1. Typed
  BY DEF IInv
<1>2. CASE UNCHANGED groupvars
  BY <1>2 DEF groupvars, GroupCounts
<1>3. CASE \E g \in Group, b \in BucketLists : group_table_add(g, b) \/ group_table_modify(g, b)
  BY <1>1, <1>3, GroupAddCounts, GroupModifyCounts
<1>4. CASE \E g \in Group : group_table_delete(g)
  BY <1>1, <1>4, GroupDeleteCounts
<1>5. CASE group_table_delete_all
  <2>1. /\ groups' = {} /\ num' = [g \in Group |-> 0] /\ entries_num' = 0 /\ buckets_num' = 0
    BY <1>5, Zenon DEF group_table_delete_all
  <2> QED
    BY <2>1, NoBuckets, FS_EmptySet, Limits DEF GroupCounts
<1>6. CASE \/ flow_table_add \/ flow_table_modify \/ RemoveFlows
           \/ \E m \in Meter, n \in Bands : meter_table_add(m, n) \/ meter_table_modify(m, n)
           \/ \E m \in Meter : meter_table_delete(m)
           \/ meter_table_delete_all \/ UNCHANGED vars
  <2>1. UNCHANGED groupvars
    BY <1>6, Zenon DEF flow_table_add, flow_table_modify, RemoveFlows, meter_table_add,
       meter_table_modify, meter_table_delete, meter_table_delete_all, vars
  <2> QED
    BY <1>2, <2>1
<1> QED
  BY <1>3, <1>4, <1>5, <1>6 DEF Next
-----------------------------------------------------------------------------
(* How many meters there are, and flows that refer to them                 *)

\* A counter that is changed by as much as what it counts still counts it, as
\* far as it goes.
LEMMA CountedModulo ==
    ASSUME NEW w \in Nat \ {0}, NEW c \in Nat, NEW n \in Nat
    PROVE  ((c % w) + n - c) % w = n % w
<1> DEFINE x == (c % w) + n - c
<1>1. /\ c = w * (c \div w) + (c % w) /\ c \div w \in Int /\ c % w \in 0 .. w - 1
      /\ n = w * (n \div w) + (n % w) /\ n \div w \in Int /\ n % w \in 0 .. w - 1
  OBVIOUS
<1>2. x \in Int
  BY <1>1
<1> HIDE DEF x
<1>3. x = w * (x \div w) + (x % w) /\ x \div w \in Int /\ x % w \in 0 .. w - 1
  BY <1>2
<1> DEFINE t == (n \div w) - (c \div w) - (x \div w)
<1>4. t \in Int /\ w * t = (x % w) - (n % w)
  <2>1. w * t = w * (n \div w) - w * (c \div w) - w * (x \div w)
    BY <1>1, <1>3
  <2> QED
    BY <1>1, <1>3, <2>1 DEF x
<1> HIDE DEF t
<1>5. w * t < w /\ 0 - w < w * t
  <2>1. n % w \in 0 .. w - 1 /\ x % w \in 0 .. w - 1
    BY <1>1, <1>3
  <2>2. (x % w) - (n % w) < w /\ 0 - w < (x % w) - (n % w)
    BY <2>1
  <2> QED
    BY <1>4, <2>2
<1>6. t = 0
  BY <1>4, <1>5
<1> QED
  BY <1>1, <1>3, <1>4, <1>6 DEF x

LEMMA WordLimit == WORD \in Nat \ {0}
  BY TableRefsAssumption

\* What refers to a meter or a group is finite.
LEMMA RefsFinite == \A S \in SUBSET Flow : IsFiniteSet(S) /\ Cardinality(S) \in Nat
  BY MemoryAssumption, FS_Subset, FS_CardinalityType

LEMMA SizesNatural == \A S \in SUBSET Flow : Cardinality(S) \in Nat
  BY RefsFinite

\* Exact counts stay exact when the references change.
LEMMA CountedExact ==
    ASSUME NEW K, NEW count \in [K -> 0 .. WORD - 1], NEW back \in [K -> SUBSET Flow],
           NEW new \in [K -> SUBSET Flow]
    PROVE  /\ Counted(count, back, new) \in [K -> 0 .. WORD - 1]
           /\ \A k \in K : count[k] = Cardinality(back[k]) % WORD
                           => Counted(count, back, new)[k] = Cardinality(new[k]) % WORD
<1> DEFINE c == Counted(count, back, new)
<1>1. c = [k \in K |-> (count[k] + Cardinality(new[k]) - Cardinality(back[k])) % WORD]
  BY DEF Counted
<1> HIDE DEF c
<1>2. ASSUME NEW k \in K
      PROVE  /\ c[k] \in 0 .. WORD - 1
             /\ count[k] = Cardinality(back[k]) % WORD => c[k] = Cardinality(new[k]) % WORD
  <2>1. Cardinality(new[k]) \in Nat /\ Cardinality(back[k]) \in Nat /\ count[k] \in Int
    BY SizesNatural
  <2>2. c[k] = (count[k] + Cardinality(new[k]) - Cardinality(back[k])) % WORD
    BY <1>1
  <2>3. c[k] \in 0 .. WORD - 1
    BY <2>1, <2>2, WordLimit
  <2>4. ASSUME count[k] = Cardinality(back[k]) % WORD PROVE c[k] = Cardinality(new[k]) % WORD
    BY <2>1, <2>2, <2>4, WordLimit, CountedModulo
  <2> QED
    BY <2>3, <2>4
<1> QED
  BY <1>1, <1>2 DEF c

MeterCounts ==
    /\ IsFiniteSet(meters) /\ meters_num = Cardinality(meters)
    /\ ref_count \in [Group -> 0 .. WORD - 1] /\ flow_count \in [Meter -> 0 .. WORD - 1]
    /\ \A m \in Meter : flow_count[m] = Cardinality(meter_flow_refs[m]) % WORD

LEMMA ZeroCount == 0 \in 0 .. WORD - 1 /\ Cardinality({}) = 0 /\ 0 % WORD = 0
  BY WordLimit, FS_EmptySet

LEMMA InitMeterCounts == Init => MeterCounts
  BY FS_EmptySet, ZeroCount DEF Init, MeterCounts

LEMMA FlowRemoveCounts ==
  ASSUME Typed, MeterCounts, NEW fs, NEW lost, NEW losing, flow_entry_remove(fs, losing, lost),
         Typed'
  PROVE  /\ ref_count' \in [Group -> 0 .. WORD - 1] /\ flow_count' \in [Meter -> 0 .. WORD - 1]
         /\ \A m \in Meter : flow_count'[m] = Cardinality(meter_flow_refs'[m]) % WORD
<1> DEFINE new == Reset(del_refs(flow_refs, groups \ losing, fs, group_refs), losing, {})
           meter_new == Reset(del_refs(meter_flow_refs, meters \ lost, fs, meter_refs), lost, {})
           groups_counted == Counted(ref_count, flow_refs, new)
           meters_counted == Counted(flow_count, meter_flow_refs, meter_new)
<1>1. /\ flow_refs' = new /\ ref_count' = Reset(groups_counted, losing, 0)
      /\ meter_flow_refs' = meter_new /\ flow_count' = Reset(meters_counted, lost, 0)
  BY Zenon DEF flow_entry_remove
<1>2. \A m \in Meter \cap lost : meter_new[m] = {}
  BY DEF Typed, Reset, del_refs
<1> HIDE DEF new, meter_new
<1>3. groups_counted \in [Group -> 0 .. WORD - 1]
  BY <1>1, CountedExact, Zenon DEF Typed, MeterCounts
<1>4. /\ meters_counted \in [Meter -> 0 .. WORD - 1]
      /\ \A m \in Meter : meters_counted[m] = Cardinality(meter_new[m]) % WORD
  <2>1. meter_flow_refs \in [Meter -> SUBSET Flow] /\ meter_new \in [Meter -> SUBSET Flow]
    BY <1>1, Zenon DEF Typed
  <2>2. /\ flow_count \in [Meter -> 0 .. WORD - 1]
        /\ \A m \in Meter : flow_count[m] = Cardinality(meter_flow_refs[m]) % WORD
    BY Zenon DEF MeterCounts
  <2>3. /\ meters_counted \in [Meter -> 0 .. WORD - 1]
        /\ \A m \in Meter : flow_count[m] = Cardinality(meter_flow_refs[m]) % WORD
                           => meters_counted[m] = Cardinality(meter_new[m]) % WORD
    BY <2>1, <2>2, CountedExact
  <2> QED
    BY <2>2, <2>3, Zenon
<1> HIDE DEF groups_counted, meters_counted
<1>5. ref_count' \in [Group -> 0 .. WORD - 1]
  BY <1>1, <1>3, ZeroCount DEF Reset
<1>6. flow_count' \in [Meter -> 0 .. WORD - 1]
  BY <1>1, <1>4, ZeroCount DEF Reset
<1>7. ASSUME NEW m \in Meter PROVE flow_count'[m] = Cardinality(meter_flow_refs'[m]) % WORD
  <2>1. CASE m \in lost
    BY <1>1, <1>2, <1>4, <2>1, ZeroCount, Zenon DEF Reset
  <2>2. CASE m \notin lost
    BY <1>1, <1>4, <2>2 DEF Reset
  <2> QED
    BY <2>1, <2>2
<1> QED
  BY <1>5, <1>6, <1>7

LEMMA NextMeterCounts == ASSUME IInv, MeterCounts, [Next]_vars, IInv' PROVE MeterCounts'
<1>0. Typed /\ Typed'
  BY DEF IInv
<1>1. CASE flow_table_add
  <2>1. /\ ref_count' = Counted(ref_count, flow_refs, flow_refs')
        /\ flow_count' = Counted(flow_count, meter_flow_refs, meter_flow_refs')
        /\ meters' = meters /\ meters_num' = meters_num
    BY <1>1, Zenon DEF flow_table_add, metervars
  <2> QED
    BY <1>0, <2>1, CountedExact, SMTT(30) DEF MeterCounts, Typed
<1>2. CASE flow_table_modify
  <2>1. /\ ref_count' = Counted(ref_count, flow_refs, flow_refs')
        /\ flow_count' = flow_count /\ meter_flow_refs' = meter_flow_refs
        /\ meters' = meters /\ meters_num' = meters_num
    BY <1>2, Zenon DEF flow_table_modify, metervars
  <2> QED
    BY <1>0, <2>1, CountedExact, SMTT(30) DEF MeterCounts, Typed
<1>3. ASSUME NEW fs, NEW losing, NEW lost, flow_entry_remove(fs, losing, lost),
             IsFiniteSet(meters'), meters_num' = Cardinality(meters')
      PROVE  MeterCounts'
  BY <1>0, <1>3, FlowRemoveCounts, SMTT(30) DEF MeterCounts
<1>4. CASE RemoveFlows
  <2>1. (\E fs \in SUBSET flows : flow_entry_remove(fs, {}, {}))
        /\ meters' = meters /\ meters_num' = meters_num
    BY <1>4, Zenon DEF RemoveFlows, metervars
  <2> QED
    BY <1>3, <2>1 DEF MeterCounts
<1>5. CASE \E g \in Group, b \in BucketLists : group_table_add(g, b)
  <2>1. /\ meters' = meters /\ meters_num' = meters_num /\ ref_count' = ref_count
        /\ flow_count' = flow_count /\ meter_flow_refs' = meter_flow_refs
    BY <1>5, Zenon DEF group_table_add, metervars, backrefs
  <2> QED
    BY <2>1 DEF MeterCounts
<1>6. CASE \E g \in Group, b \in BucketLists : group_table_modify(g, b)
  <2>1. \E g \in Group : ref_count' = [ref_count EXCEPT ![g] = 0]
    BY <1>6, Zenon DEF group_table_modify
  <2>2. /\ meters' = meters /\ meters_num' = meters_num
        /\ flow_count' = flow_count /\ meter_flow_refs' = meter_flow_refs
    BY <1>6, Zenon DEF group_table_modify, metervars
  <2> QED
    BY <2>1, <2>2, ZeroCount DEF MeterCounts
<1>7. CASE \E g \in Group : group_table_delete(g)
  <2>1. /\ \E fs, losing : flow_entry_remove(fs, losing, {})
        /\ meters' = meters /\ meters_num' = meters_num
    BY <1>7, Zenon DEF group_table_delete, metervars
  <2> QED
    BY <1>3, <2>1 DEF MeterCounts
<1>8. CASE group_table_delete_all
  <2>1. /\ \E fs, losing : flow_entry_remove(fs, losing, {})
        /\ meters' = meters /\ meters_num' = meters_num
    BY <1>8, Zenon DEF group_table_delete_all, metervars
  <2> QED
    BY <1>3, <2>1 DEF MeterCounts
<1>9. CASE \E m \in Meter, n \in Bands : meter_table_add(m, n)
  <2>1. /\ \E m \in Meter : m \notin meters /\ meters' = meters \cup {m}
        /\ meters_num' = meters_num + 1 /\ UNCHANGED backrefs
    BY <1>9, Zenon DEF meter_table_add
  <2>2. IsFiniteSet(meters') /\ Cardinality(meters') = Cardinality(meters) + 1
    BY <2>1, FS_AddElement DEF MeterCounts
  <2> QED
    BY <2>1, <2>2 DEF MeterCounts, backrefs
<1>10. CASE \E m \in Meter, n \in Bands : meter_table_modify(m, n)
  <2>1. meters' = meters /\ meters_num' = meters_num /\ UNCHANGED backrefs
    BY <1>10, Zenon DEF meter_table_modify
  <2> QED
    BY <2>1 DEF MeterCounts, backrefs
<1>11. CASE \E m \in Meter : meter_table_delete(m)
  <2>1. /\ \E m \in Meter : m \in meters /\ meters' = meters \ {m}
        /\ meters_num' = meters_num - 1
        /\ \E fs, m : flow_entry_remove(fs, {}, {m})
    BY <1>11, Zenon DEF meter_table_delete
  <2>2. IsFiniteSet(meters') /\ Cardinality(meters') = Cardinality(meters) - 1
    BY <2>1, FS_RemoveElement, SMTT(30) DEF MeterCounts
  <2> QED
    BY <1>3, <2>1, <2>2, Zenon DEF MeterCounts
<1>12. CASE meter_table_delete_all
  <2>1. meters' = {} /\ meters_num' = 0 /\ \E fs : flow_entry_remove(fs, {}, meters)
    BY <1>12, Zenon DEF meter_table_delete_all
  <2> QED
    BY <1>3, <2>1, FS_EmptySet
<1>13. CASE UNCHANGED vars
  BY <1>13 DEF vars, metervars, backrefs, MeterCounts
<1> QED
  BY <1>1, <1>2, <1>4, <1>5, <1>6, <1>7, <1>8, <1>9, <1>10, <1>11, <1>12, <1>13 DEF Next
-----------------------------------------------------------------------------
(* Whose the arrays of instructions are                                    *)

\* Whatever is shared, every array that is allocated is some flow's.
Memory ==
    /\ insts \in [Flow -> Array \cup {FREE}] /\ arrays \subseteq Array
    /\ inst_meters \in [Flow -> SUBSET Meter]
    /\ \A a \in arrays : \E f \in flows : insts[f] = a
    /\ InstructionsOwned

\* Flows have fewer arrays than there are, so that one can be allocated.
LEMMA ArrayUnused ==
  ASSUME flows \subseteq Flow, Memory
  PROVE  Unused(Array, arrays) \in Array /\ Unused(Array, arrays) \notin arrays
<1> DEFINE used == {insts[f] : f \in flows}
           assigned == [f \in flows |-> insts[f]]
<1>1. IsFiniteSet(flows) /\ Cardinality(flows) \in Nat /\ Cardinality(flows) <= Cardinality(Flow)
  BY MemoryAssumption, FS_Subset, FS_CardinalityType
<1>2. assigned \in Surjection(flows, used)
  BY DEF Surjection
<1>3. IsFiniteSet(used) /\ Cardinality(used) <= Cardinality(flows)
  BY <1>1, <1>2, FS_Surjection
<1>4. arrays \in SUBSET used
  BY DEF Memory
<1> HIDE DEF used
<1>5. IsFiniteSet(arrays) /\ Cardinality(arrays) <= Cardinality(used)
  BY <1>3, <1>4, FS_Subset
<1>6. /\ Cardinality(arrays) \in Nat /\ Cardinality(used) \in Nat /\ Cardinality(Flow) \in Nat
      /\ Cardinality(Array) \in Nat
  BY <1>3, <1>5, MemoryAssumption, FS_CardinalityType
<1>7. Cardinality(arrays) < Cardinality(Array)
  BY <1>1, <1>3, <1>5, <1>6, MemoryAssumption
<1>8. arrays # Array
  BY <1>6, <1>7
<1>9. \E a \in Array : a \notin arrays
  BY <1>8 DEF Memory
<1> QED
  BY <1>9 DEF Unused

LEMMA InitMemory == Init => Memory
  BY DEF Init, Memory, InstructionsOwned

LEMMA AddMemory == ASSUME Typed, Memory, flow_table_add PROVE Memory'
<1>1. PICK i \in FlowInstructions, fs \in SUBSET flows : flow_table_add!(i, fs)
  BY Zenon DEF flow_table_add
<1> DEFINE f == Unused(Flow, flows)
           a == Unused(Array, arrays)
<1>2. f \in Flow /\ f \notin flows
  BY <1>1, Zenon DEF Unused, Typed
<1>3. a \in Array /\ a \notin arrays
  BY ArrayUnused DEF Typed
<1>4. /\ flows' = (flows \ fs) \cup {f} /\ insts' = [Reset(insts, fs, FREE) EXCEPT ![f] = a]
      /\ inst_meters' = [Reset(inst_meters, fs, {}) EXCEPT ![f] = i.meters]
      /\ arrays' = (arrays \ {insts[h] : h \in fs}) \cup {a}
      /\ double_free' = (double_free \/ FreesTwice(fs)) /\ shared' = shared
  BY <1>1, Zenon DEF Freed
<1>5. i.meters \subseteq Meter
  BY TableRefsAssumption
<1> HIDE DEF f, a
<1>6. insts' \in [Flow -> Array \cup {FREE}] /\ inst_meters' \in [Flow -> SUBSET Meter]
  BY <1>2, <1>3, <1>4, <1>5 DEF Memory, Reset
<1>7. \A h \in Flow : insts'[h] = IF h = f THEN a ELSE IF h \in fs THEN FREE ELSE insts[h]
  BY <1>2, <1>4 DEF Memory, Reset
<1>8. arrays' \subseteq Array /\ \A x \in arrays' : \E h \in flows' : insts'[h] = x
  BY <1>2, <1>3, <1>4, <1>7 DEF Memory, Typed
<1>9. ASSUME ~shared' PROVE /\ ~double_free' /\ arrays' = {insts'[h] : h \in flows'}
                            /\ \A h, k \in flows' : insts'[h] = insts'[k] => h = k
  <2>1. /\ ~double_free /\ arrays = {insts[h] : h \in flows}
        /\ \A h, k \in flows : insts[h] = insts[k] => h = k
    BY <1>4, <1>9 DEF Memory, InstructionsOwned
  <2>2. ~FreesTwice(fs)
    BY <2>1 DEF FreesTwice
  <2>3. \A h \in flows \ fs : insts'[h] = insts[h] /\ h # f
    BY <1>2, <1>7 DEF Typed
  <2>4. insts'[f] = a
    BY <1>2, <1>7
  <2>5. arrays' = {insts'[h] : h \in flows'}
    BY <1>4, <2>1, <2>3, <2>4
  <2>6. \A h, k \in flows' : insts'[h] = insts'[k] => h = k
    BY <1>3, <1>4, <2>1, <2>3, <2>4
  <2> QED
    BY <1>4, <2>1, <2>2, <2>5, <2>6, Zenon
<1> QED
  BY <1>6, <1>8, <1>9 DEF Memory, InstructionsOwned

\* A set that has at most one element has no two.
LEMMA AtMostOne == \A S \in SUBSET Flow : ~(Cardinality(S) > 1) => \A f, h \in S : f = h
<1> SUFFICES ASSUME NEW S \in SUBSET Flow, NEW f \in S, NEW h \in S, f # h
             PROVE  Cardinality(S) > 1
  OBVIOUS
<1>1. IsFiniteSet({f}) /\ Cardinality({f}) = 1
  BY FS_Singleton, Zenon
<1>2. Cardinality({f} \cup {h}) = 2
  BY <1>1, FS_AddElement
<1>3. IsFiniteSet(S) /\ Cardinality(S) \in Nat
  BY RefsFinite
<1>4. {f} \cup {h} \in SUBSET S
  OBVIOUS
<1>5. Cardinality({f} \cup {h}) <= Cardinality(S)
  BY <1>3, <1>4, FS_Subset
<1> QED
  BY <1>2, <1>3, <1>5

LEMMA ModifyMemory == ASSUME Typed, Memory, flow_table_modify PROVE Memory'
<1>1. PICK i \in FlowInstructions, fs \in SUBSET flows : flow_table_modify!(i, fs)
  BY Zenon DEF flow_table_modify
<1> DEFINE a == Unused(Array, arrays)
<1>2. a \in Array /\ a \notin arrays
  BY ArrayUnused DEF Typed
<1>3. /\ flows' = flows /\ insts' = Reset(insts, fs, a) /\ fs # {}
      /\ inst_meters' = Reset(inst_meters, fs, i.meters)
      /\ arrays' = (arrays \ {insts[h] : h \in fs}) \cup {a}
      /\ double_free' = (double_free \/ FreesTwice(fs))
      /\ shared' = (shared \/ Cardinality(fs) > 1)
  BY <1>1, Zenon DEF Freed
<1>4. i.meters \subseteq Meter
  BY TableRefsAssumption
<1> HIDE DEF a
<1>5. insts' \in [Flow -> Array \cup {FREE}] /\ inst_meters' \in [Flow -> SUBSET Meter]
  BY <1>2, <1>3, <1>4 DEF Memory, Reset
<1>6. \A h \in Flow : insts'[h] = IF h \in fs THEN a ELSE insts[h]
  BY <1>3 DEF Memory, Reset
<1>7. arrays' \subseteq Array /\ \A x \in arrays' : \E h \in flows' : insts'[h] = x
  BY <1>2, <1>3, <1>6 DEF Memory, Typed
<1>8. ASSUME ~shared' PROVE /\ ~double_free' /\ arrays' = {insts'[h] : h \in flows'}
                            /\ \A h, k \in flows' : insts'[h] = insts'[k] => h = k
  <2>1. /\ ~double_free /\ arrays = {insts[h] : h \in flows}
        /\ \A h, k \in flows : insts[h] = insts[k] => h = k
    BY <1>3, <1>8, Zenon DEF Memory, InstructionsOwned
  <2>2. \A h, k \in fs : h = k
    <3>1. ~(Cardinality(fs) > 1)
      BY <1>3, <1>8, Zenon
    <3> QED
      BY <3>1, AtMostOne DEF Typed
  <2>3. ~FreesTwice(fs)
    BY <2>1 DEF FreesTwice
  <2>4. (\A h \in flows \ fs : insts'[h] = insts[h]) /\ (\A h \in fs : insts'[h] = a)
    BY <1>6 DEF Typed
  <2>5. arrays' = {insts'[h] : h \in flows'}
    BY <1>3, <2>1, <2>4
  <2>6. \A h, k \in flows' : insts'[h] = insts'[k] => h = k
    BY <1>2, <1>3, <2>1, <2>2, <2>4
  <2> QED
    BY <1>3, <2>1, <2>3, <2>5, <2>6, Zenon
<1> QED
  BY <1>5, <1>7, <1>8 DEF Memory, InstructionsOwned

LEMMA RemoveMemory ==
  ASSUME Typed, Memory, NEW fs \in SUBSET flows, NEW losing, NEW lost,
         flow_entry_remove(fs, losing, lost)
  PROVE  Memory'
<1>1. /\ flows' = flows \ fs /\ insts' = Reset(insts, fs, FREE)
      /\ inst_meters' = Reset(inst_meters, fs, {})
      /\ arrays' = arrays \ {insts[h] : h \in fs}
      /\ double_free' = (double_free \/ FreesTwice(fs)) /\ shared' = shared
  BY Zenon DEF flow_entry_remove, Freed
<1>2. insts' \in [Flow -> Array \cup {FREE}] /\ inst_meters' \in [Flow -> SUBSET Meter]
  BY <1>1 DEF Memory, Reset
<1>3. \A h \in Flow : insts'[h] = IF h \in fs THEN FREE ELSE insts[h]
  BY <1>1 DEF Memory, Reset
<1>4. arrays' \subseteq Array /\ \A x \in arrays' : \E h \in flows' : insts'[h] = x
  BY <1>1, <1>3 DEF Memory, Typed
<1>5. ASSUME ~shared' PROVE /\ ~double_free' /\ arrays' = {insts'[h] : h \in flows'}
                            /\ \A h, k \in flows' : insts'[h] = insts'[k] => h = k
  <2>1. /\ ~double_free /\ arrays = {insts[h] : h \in flows}
        /\ \A h, k \in flows : insts[h] = insts[k] => h = k
    BY <1>1, <1>5 DEF Memory, InstructionsOwned
  <2>2. ~FreesTwice(fs)
    BY <2>1 DEF FreesTwice
  <2>3. \A h \in flows' : insts'[h] = insts[h] /\ h \in flows \ fs
    BY <1>1, <1>3, SMTT(30) DEF Typed
  <2>4. arrays' = {insts'[h] : h \in flows'}
    BY <1>1, <2>1, <2>3
  <2> QED
    BY <1>1, <2>1, <2>2, <2>3, <2>4, ZenonT(30)
<1> QED
  BY <1>2, <1>4, <1>5 DEF Memory, InstructionsOwned

LEMMA NextMemory == ASSUME IInv, Memory, [Next]_vars PROVE Memory'
<1>0. /\ Typed /\ \A g \in Group : flow_refs[g] \subseteq flows
      /\ \A m \in Meter : meter_flow_refs[m] \subseteq flows
  BY DEF IInv, Typed, GroupRefsMutual, MeterRefsMutual
<1>1. CASE flow_table_add
  BY <1>0, <1>1, AddMemory
<1>2. CASE flow_table_modify
  BY <1>0, <1>2, ModifyMemory
<1>3. CASE RemoveFlows
  BY <1>0, <1>3, RemoveMemory DEF RemoveFlows
<1>4. CASE \E g \in Group : group_table_delete(g)
  BY <1>0, <1>4, RemoveMemory DEF group_table_delete
<1>5. CASE group_table_delete_all
  <2>1. UNION {flow_refs[g] : g \in groups} \in SUBSET flows
    BY <1>0 DEF Typed
  <2> QED
    BY <1>0, <1>5, <2>1, RemoveMemory DEF group_table_delete_all
<1>6. CASE \E m \in Meter : meter_table_delete(m)
  BY <1>0, <1>6, RemoveMemory DEF meter_table_delete
<1>7. CASE meter_table_delete_all
  <2>1. UNION {meter_flow_refs[m] : m \in meters} \in SUBSET flows
    BY <1>0 DEF Typed
  <2> QED
    BY <1>0, <1>7, <2>1, RemoveMemory DEF meter_table_delete_all
<1>8. CASE \/ \E g \in Group, b \in BucketLists : group_table_add(g, b) \/ group_table_modify(g, b)
           \/ \E m \in Meter, n \in Bands : meter_table_add(m, n) \/ meter_table_modify(m, n)
           \/ UNCHANGED vars
  <2>1. UNCHANGED flowvars
    BY <1>8, Zenon DEF group_table_add, group_table_modify, meter_table_add, meter_table_modify,
       vars
  <2> QED
    BY <2>1 DEF flowvars, memory, Memory, InstructionsOwned
<1> QED
  BY <1>1, <1>2, <1>3, <1>4, <1>5, <1>6, <1>7, <1>8 DEF Next
-----------------------------------------------------------------------------
\* The numbers that group_table_add(), group_table_modify() and
\* meter_table_add() test against their limits are exact and within them,
\* through any sequence of requests; and as long as no flow mod modifies several
\* flows at once, flow_entry_destroy() and flow_entry_replace_instructions()
\* free each array of instructions exactly once, and lose none.
THEOREM RefsCountedHolds == Spec => []RefsCounted
<1> DEFINE CInv == IInv /\ GroupCounts /\ MeterCounts /\ Memory
<1>1. Init => CInv
  BY InitIInv, InitGroupCounts, InitMeterCounts, InitMemory
<1>2. CInv /\ [Next]_vars => CInv'
  BY NextIInv, NextGroupCounts, NextMeterCounts, NextMemory
<1>3. CInv => RefsCounted
  <2> SUFFICES ASSUME CInv PROVE RefsCounted
    OBVIOUS
  <2>1. CountsExact
    BY DEF GroupCounts, MeterCounts, CountsExact
  <2>2. entries_num \in 0 .. GROUP_TABLE_MAX_ENTRIES /\ buckets_num \in 0 .. GROUP_TABLE_MAX_BUCKETS
    BY FS_CardinalityType, Limits DEF GroupCounts
  <2>3. TypeOK
    BY <2>2 DEF TypeOK, IInv, Typed, MeterCounts, Memory
  <2> QED
    BY <2>1, <2>3 DEF RefsCounted, Memory
<1> QED
  BY <1>1, <1>2, <1>3, PTL DEF Spec
=============================================================================
