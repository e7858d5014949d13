------------------------------ MODULE FlowTable ------------------------------
(***************************************************************************)
(* One flow table of the datapath: udatapath/flow_table.c with the entries *)
(* of flow_entry.c.  A table keeps its entries in match_entries by falling *)
(* priority, and those with a timeout in a second or third list as well.   *)
(*                                                                         *)
(* Times are kept relative to time_msec(), in clock ticks, down to OVER,   *)
(* the past.  An entry's address is its id.  The cookie stands for the     *)
(* bits of it that a cookie_mask keeps; ports and groups that instructions *)
(* forward to are both Targets.  Left out: counters, and the references to *)
(* groups and meters (TableRefs).                                          *)
(*                                                                         *)
(* A match (match_std.c) maps the headers of its TLVs to their values and  *)
(* masks; a header is a field and its has_mask bit.  A value or a mask is  *)
(* the set of its bits that are 1; every field has the bits Bit, and Word  *)
(* holds the words (8, 16, 32 or 64 bits) that the functions for wide      *)
(* fields compare one after the other.  Left out: what VLAN_VID and        *)
(* IPV6_EXTHDR mean to packet_match() alone, and the fields whose length a *)
(* switch statement does not list.                                         *)
(***************************************************************************)
EXTENDS FiniteSets, Integers, SequencesExt

CONSTANTS
    Field, Bit,
    Word,         \* words of bits, which cover Bit
    EntryId,      \* addresses of entries, more than MAX_ENTRIES
    FlowMods,     \* the flow mods that controllers send
    PacketsIn,    \* the packets that are looked up
    MAX_ENTRIES,  \* FLOW_TABLE_MAX_ENTRIES
    ANY           \* OFPP_ANY, OFPG_ANY, or a cookie_mask of 0

OVER == -1
NEVER == -2   \* remove_at = 0, no hard timeout

VARIABLES
    match_entries,  \* the entries, highest priority first
    hard_entries,   \* ids of those with a hard timeout, earliest first
    idle_entries,   \* ids of those with an idle timeout
    active_count,
    flow_removed    \* ids of the FLOW_REMOVED messages of the last step

-----------------------------------------------------------------------------
(* Matching *)

Value == SUBSET Bit
Header == Field \X BOOLEAN
Tlv == [value : Value, mask : Value]

Matches == UNION {[H -> Tlv] : H \in SUBSET Header}
Packets == UNION {[F -> Value] : F \in SUBSET Field}

Xor(a, b) == (a \ b) \cup (b \ a)

\* packet_match(): the packet has every field of the match.
packet_match(m, p) ==
    \A h \in DOMAIN m :
        /\ h[1] \in DOMAIN p
        /\ IF h[2] THEN m[h].mask \cap Xor(m[h].value, p[h[1]]) = {}
           ELSE m[h].value = p[h[1]]

\* header.length, in units of the length of a field.
Length(m) == Cardinality(DOMAIN m) + Cardinality({h \in DOMAIN m : h[2]})

\* strict_mask8(), ...: true also where the masks differ.
strict_mask(x, y) ==
    \A w \in Word :
        ~(x.mask \cap w = y.mask \cap w /\ Xor(x.value, y.value) \cap x.mask \cap w # {})

\* match_std_strict() of the match a of a flow mod and the match b of an entry.
match_std_strict(a, b) ==
    /\ Length(a) = Length(b)
    /\ \A h \in DOMAIN a :
          /\ h \in DOMAIN b
          /\ IF h[2] THEN strict_mask(a[h], b[h]) ELSE a[h].value = b[h].value

\* nonstrict_mask8(), ...: a 1 in a mask is taken for a bit that does not matter.
nonstrict_mask(x, y) ==
    (Bit \ x.mask) \cap ((Bit \ x.value) \cup (Bit \ y.value) \cup y.mask)
                   \cap (x.value \cup y.value \cup y.mask) = {}

match_std_nonstrict(a, b) ==
    \A h \in DOMAIN a :
        /\ h \in DOMAIN b
        /\ IF h[2] THEN nonstrict_mask(a[h], b[h]) ELSE a[h].value = b[h].value

\* The bits a TLV sets; the mask of one without is all_mask.
Bits(h, m) == IF h[2] THEN m[h].mask \cap m[h].value ELSE m[h].value

\* The TLV of field f in b that match_std_overlap() looks at.
Corresponding(f, b) == IF <<f, FALSE>> \in DOMAIN b THEN <<f, FALSE>> ELSE <<f, TRUE>>

\* Mutant: matches on different fields are taken for disjoint.
match_std_overlap_SameFields(a, b) ==
    \A h \in DOMAIN a \cup DOMAIN b :
        h \in DOMAIN a \cap DOMAIN b /\ Bits(h, a) = Bits(h, b)

\* No field of both is incompatible_8(), ...
match_std_overlap(a, b) ==
    \A h \in DOMAIN a :
        Corresponding(h[1], b) \in DOMAIN b
            => Bits(h, a) = Bits(Corresponding(h[1], b), b)

-----------------------------------------------------------------------------
vars == <<match_entries, hard_entries, idle_entries, active_count, flow_removed>>

Ids == {match_entries[i].id : i \in 1 .. Len(match_entries)}
Entry(id) == match_entries[SelectInSeq(match_entries, LAMBDA e : e.id = id)]

\* Where Test first holds in s, or behind the end of s.
FirstOrEnd(s, Test(_)) == LET i == SelectInSeq(s, Test) IN IF i = 0 THEN Len(s) + 1 ELSE i

Init ==
    /\ match_entries = <<>> /\ hard_entries = <<>> /\ idle_entries = {}
    /\ active_count = 0 /\ flow_removed = {}
-----------------------------------------------------------------------------
(* Entries *)

has_out(e, target) == target = ANY \/ target \in e.insts

flow_entry_matches(e, mod, strict, check_cookie) ==
    /\ check_cookie => mod.cookie \in {ANY, e.cookie}
    /\ IF strict THEN e.priority = mod.priority /\ match_std_strict(mod.match, e.match)
       ELSE match_std_nonstrict(mod.match, e.match)

flow_entry_overlaps(e, mod) ==
    e.priority = mod.priority /\ has_out(e, mod.out) /\ match_std_overlap(e.match, mod.match)

flow_entry_create(id, mod) ==
    [id |-> id, match |-> mod.match, priority |-> mod.priority, cookie |-> mod.cookie,
     insts |-> mod.insts, send_removed |-> mod.send_removed,
     remove_in |-> IF mod.hard_timeout = 0 THEN NEVER ELSE mod.hard_timeout,
     idle_timeout |-> mod.idle_timeout, idle_in |-> mod.idle_timeout]

flow_entry_hard_timeout(e) == e.remove_in = OVER
flow_entry_idle_timeout(e) == e.idle_timeout # 0 /\ e.idle_in = OVER

\* Mutants: an entry stays in the list of hard timeouts, or is still counted.
flow_entry_remove_KeptHard(ids) ==
    /\ match_entries' = SelectSeq(match_entries, LAMBDA e : e.id \notin ids)
    /\ idle_entries' = idle_entries \ ids
    /\ active_count' = active_count - Cardinality(ids)
    /\ flow_removed' = {id \in ids : Entry(id).send_removed}
    /\ UNCHANGED hard_entries
flow_entry_remove_Counted(ids) ==
    /\ match_entries' = SelectSeq(match_entries, LAMBDA e : e.id \notin ids)
    /\ hard_entries' = SelectSeq(hard_entries, LAMBDA id : id \notin ids)
    /\ idle_entries' = idle_entries \ ids
    /\ flow_removed' = {id \in ids : Entry(id).send_removed}
    /\ UNCHANGED active_count

\* flow_entry_remove() of the entries with these ids.
flow_entry_remove(ids) ==
    /\ match_entries' = SelectSeq(match_entries, LAMBDA e : e.id \notin ids)
    /\ hard_entries' = SelectSeq(hard_entries, LAMBDA id : id \notin ids)
    /\ idle_entries' = idle_entries \ ids
    /\ active_count' = active_count - Cardinality(ids)
    /\ flow_removed' = {id \in ids : Entry(id).send_removed}
-----------------------------------------------------------------------------
(* Flow mods *)

\* Mutant: the list of hard timeouts is not kept in order.
add_to_timeout_lists_AtEnd(new, hard, idle) ==
    /\ idle_entries' = IF new.idle_timeout > 0 THEN idle \cup {new.id} ELSE idle
    /\ hard_entries' = IF new.remove_in = NEVER THEN hard ELSE Append(hard, new.id)

\* add_to_timeout_lists() of a new entry; hard and idle are the lists by then.
add_to_timeout_lists(new, hard, idle) ==
    /\ idle_entries' = IF new.idle_timeout > 0 THEN idle \cup {new.id} ELSE idle
    /\ hard_entries' =
          IF new.remove_in = NEVER THEN hard
          ELSE InsertAt(hard, FirstOrEnd(hard, LAMBDA id : Entry(id).remove_in > new.remove_in),
                        new.id)

\* Mutant: the entry is put behind the ones of lower priority.
Stop_Lower(mod) ==
    FirstOrEnd(match_entries,
               LAMBDA e : \/ mod.check_overlap /\ flow_entry_overlaps(e, mod)
                          \/ flow_entry_matches(e, mod, TRUE, FALSE)
                          \/ mod.priority < e.priority)

\* Mutant: the loop stops at an entry of the same priority.
Stop_Same(mod) ==
    FirstOrEnd(match_entries,
               LAMBDA e : \/ mod.check_overlap /\ flow_entry_overlaps(e, mod)
                          \/ mod.priority >= e.priority)

\* Where the loop of flow_table_add() stops.
Stop(mod) ==
    FirstOrEnd(match_entries,
               LAMBDA e : \/ mod.check_overlap /\ flow_entry_overlaps(e, mod)
                          \/ flow_entry_matches(e, mod, TRUE, FALSE)
                          \/ mod.priority > e.priority)

Overlap(mod) ==
    Stop(mod) <= Len(match_entries) /\ mod.check_overlap
        /\ flow_entry_overlaps(match_entries[Stop(mod)], mod)

Equal(mod) ==
    Stop(mod) <= Len(match_entries) /\ ~Overlap(mod)
        /\ flow_entry_matches(match_entries[Stop(mod)], mod, TRUE, FALSE)

Unused == CHOOSE id \in EntryId : id \notin Ids

\* An equal entry is replaced, without a FLOW_REMOVED.
AddReplacing(mod) ==
    /\ Equal(mod)
    /\ LET old == match_entries[Stop(mod)].id
           new == flow_entry_create(Unused, mod)
       IN  /\ match_entries' = ReplaceAt(match_entries, Stop(mod), new)
           /\ add_to_timeout_lists(new, SelectSeq(hard_entries, LAMBDA id : id # old),
                                   idle_entries \ {old})
    /\ flow_removed' = {}
    /\ UNCHANGED active_count

AddNew(mod) ==
    /\ ~Overlap(mod) /\ ~Equal(mod) /\ active_count # MAX_ENTRIES
    /\ LET new == flow_entry_create(Unused, mod) IN
       /\ match_entries' = InsertAt(match_entries, Stop(mod), new)
       /\ add_to_timeout_lists(new, hard_entries, idle_entries)
    /\ active_count' = active_count + 1
    /\ flow_removed' = {}

flow_table_add(mod) == mod.command = "ADD" /\ (AddReplacing(mod) \/ AddNew(mod))

flow_table_modify(mod) ==
    /\ mod.command \in {"MODIFY", "MODIFY_STRICT"}
    /\ match_entries' =
          [i \in DOMAIN match_entries |->
              IF flow_entry_matches(match_entries[i], mod, mod.command = "MODIFY_STRICT", TRUE)
              THEN [match_entries[i] EXCEPT !.insts = mod.insts] ELSE match_entries[i]]
    /\ flow_removed' = {}
    /\ UNCHANGED <<hard_entries, idle_entries, active_count>>

flow_table_delete(mod) ==
    /\ mod.command \in {"DELETE", "DELETE_STRICT"}
    /\ flow_entry_remove({id \in Ids :
            /\ has_out(Entry(id), mod.out)
            /\ flow_entry_matches(Entry(id), mod, mod.command = "DELETE_STRICT", TRUE)})
-----------------------------------------------------------------------------
(* Packets and time *)

\* The position of the entry for packet p, or 0.
Found(p) == SelectInSeq(match_entries, LAMBDA e : packet_match(e.match, p))

flow_table_lookup(p) ==
    /\ Found(p) # 0
    /\ match_entries' = [match_entries EXCEPT ![Found(p)].idle_in = match_entries[Found(p)].idle_timeout]
    /\ flow_removed' = {}
    /\ UNCHANGED <<hard_entries, idle_entries, active_count>>

\* flow_table_timeout(): the loop over hard_entries ends at the first entry
\* that has time left.
flow_table_timeout ==
    LET hard == {hard_entries[i] : i \in {j \in 1 .. Len(hard_entries) :
                    \A k \in 1 .. j : flow_entry_hard_timeout(Entry(hard_entries[k]))}}
        idle == {id \in idle_entries : flow_entry_idle_timeout(Entry(id))}
    IN  flow_entry_remove(hard \cup idle)

\* group_entry_destroy() and meter_entry_destroy() remove the flows that
\* refer to them.
ReferenceDestroyed == \E ids \in SUBSET Ids : ids # {} /\ flow_entry_remove(ids)

Passed(t) == IF t > 0 THEN t - 1 ELSE IF t = 0 THEN OVER ELSE t

Tick ==
    /\ match_entries' = [i \in DOMAIN match_entries |->
                           [match_entries[i] EXCEPT !.remove_in = Passed(@),
                               !.idle_in = IF match_entries[i].idle_timeout = 0 THEN 0 ELSE Passed(@)]]
    /\ flow_removed' = {}
    /\ UNCHANGED <<hard_entries, idle_entries, active_count>>

Next ==
    \/ \E mod \in FlowMods : flow_table_add(mod) \/ flow_table_modify(mod) \/ flow_table_delete(mod)
    \/ \E p \in PacketsIn : flow_table_lookup(p)
    \/ flow_table_timeout \/ ReferenceDestroyed \/ Tick

Spec == Init /\ [][Next]_vars
-----------------------------------------------------------------------------
\* Every entry has an address of its own; the second and third list hold
\* entries of the table.
TypeOK ==
    /\ \A i \in 1 .. Len(match_entries) : match_entries[i].id \in EntryId
    /\ Cardinality(Ids) = Len(match_entries)
    /\ ToSet(hard_entries) \subseteq Ids /\ idle_entries \subseteq Ids
    /\ active_count \in 0 .. MAX_ENTRIES

\* active_count is the number of entries, through additions that replace,
\* timeouts and removals by groups: it decides when the table is full.
ActiveCountExact == active_count = Len(match_entries)

\* "Finds the flow entry with the highest priority, which matches the packet."
LookupFindsBest ==
    \A p \in Packets, i \in 1 .. Len(match_entries) :
        packet_match(match_entries[i].match, p)
            => Found(p) # 0 /\ match_entries[Found(p)].priority >= match_entries[i].priority

\* A flow, a priority with a match, has one entry at most, so that a strict
\* modification or deletion of it has one effect.
OneEntryPerFlow ==
    \A i, j \in 1 .. Len(match_entries) :
        /\ match_entries[i].priority = match_entries[j].priority
        /\ match_entries[i].match = match_entries[j].match
        => i = j

\* flow_table_timeout() leaves exactly the entries whose timeouts are not over,
\* although it looks at the first of the hard timeouts only.
TimeoutExact ==
    flow_table_timeout =>
        {match_entries'[i] : i \in 1 .. Len(match_entries')} =
        {e \in {match_entries[i] : i \in 1 .. Len(match_entries)} :
            e.remove_in # OVER /\ (e.idle_timeout = 0 \/ e.idle_in # OVER)}

NoMasks(m) == \A h \in DOMAIN m : ~h[2]

\* match_std_overlap(): "there exists a packet which both match structures
\* match on": an addition with CHECK_OVERLAP is refused if for some packet it
\* were a matter of order between the new entry and an older one of the same
\* priority, and no field is masked.
OverlapRefused ==
    \A mod \in FlowMods :
        /\ mod.check_overlap /\ NoMasks(mod.match) /\ ~(Ids' \subseteq Ids)
        /\ \E i \in 1 .. Len(match_entries), p \in Packets :
              /\ match_entries[i].priority = mod.priority /\ NoMasks(match_entries[i].match)
              /\ packet_match(mod.match, p) /\ packet_match(match_entries[i].match, p)
        => ~flow_table_add(mod)
=============================================================================
