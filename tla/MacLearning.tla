---------------------------- MODULE MacLearning -----------------------------
(***************************************************************************)
(* The MAC learning table of in-band control: lib/mac-learning.c.  An      *)
(* array of entries, each on the list of free ones or on that of the used  *)
(* ones, least recently used first, and the used ones in the buckets of a  *)
(* hash table as well.  The only VLAN in use is 0; the tags for            *)
(* revalidating flows, which no caller looks at, are left out.             *)
(***************************************************************************)
EXTENDS Naturals, Sequences, SequencesExt, Bitwise

CONSTANTS
    Macs, Multicast,  \* unicast and multicast addresses
    Ports,
    MacHash,          \* mac_table_hash()
    MAC_MAX,          \* how many entries there are
    Lifetime,         \* seconds until an entry expires (60)
    OFPP_FLOOD

VARIABLES
    ml,    \* the table
    heard  \* history: what was heard of each address, the latest last

learningVars == <<ml, heard>>

Entries == 1 .. MAC_MAX
MAC_HASH_BITS == 10

\* The hash is cut to four buckets: the mask is MAC_HASH_BITS.
mac_table_bucket(mac) == MacHash[mac] & MAC_HASH_BITS

Without(list, e) == SelectSeq(list, LAMBDA x : x # e)
InUse(e) == \E k \in DOMAIN ml.lrus : ml.lrus[k] = e

search_bucket(mac) == SelectSeq(ml.table[mac_table_bucket(mac)], LAMBDA e : ml.entries[e].mac = mac)

mac_learning_create ==
    [free |-> [k \in Entries |-> MAC_MAX + 1 - k], lrus |-> << >>,
     table |-> [b \in 0 .. MAC_HASH_BITS |-> << >>],
     entries |-> [e \in Entries |-> [mac |-> "none", port |-> 0, left |-> 0]]]

LearningInit == ml = mac_learning_create /\ heard = << >>

\* Without an entry for the address the first free one is taken, or the least
\* recently used one, out of its bucket.
Taken == IF ml.free # << >> THEN ml.free[1] ELSE ml.lrus[1]

\* Mutant: an entry that is known stays where it is among the used ones.
StaysInPlace(mac, port) ==
    LET found == search_bucket(mac)
        e == IF found # << >> THEN found[1] ELSE Taken
        b == mac_table_bucket(mac)
        out == [i \in DOMAIN ml.table |-> Without(ml.table[i], e)]
    IN  [ml EXCEPT !.free = Without(@, e),
                   !.lrus = IF found # << >> THEN @ ELSE Append(Without(@, e), e),
                   !.table = IF found # << >> THEN @ ELSE [out EXCEPT ![b] = <<e>> \o @],
                   !.entries[e] = [mac |-> mac, port |-> port, left |-> Lifetime]]

\* What the table is after the address was heard on the port.
Learned(mac, port) ==
    LET found == search_bucket(mac)
        e == IF found # << >> THEN found[1] ELSE Taken
        b == mac_table_bucket(mac)
        out == [i \in DOMAIN ml.table |-> Without(ml.table[i], e)]
    IN  [ml EXCEPT !.free = Without(@, e),
                   !.lrus = Append(Without(@, e), e),
                   !.table = IF found # << >> THEN @ ELSE [out EXCEPT ![b] = <<e>> \o @],
                   !.entries[e] = [mac |-> mac, port |-> port, left |-> Lifetime]]

mac_learning_learn(mac, port) ==
    IF mac \in Multicast THEN UNCHANGED learningVars
    ELSE /\ ml' = Learned(mac, port)
         /\ heard' = Append(SelectSeq(heard, LAMBDA h : h.mac # mac),
                            [mac |-> mac, port |-> port, left |-> Lifetime])

mac_learning_lookup(mac) ==
    IF mac \in Multicast \/ search_bucket(mac) = << >> THEN OFPP_FLOOD
    ELSE ml.entries[search_bucket(mac)[1]].port

free_mac_entry(t, e) ==
    [t EXCEPT !.table = [b \in DOMAIN @ |-> Without(@[b], e)],
              !.lrus = Without(@, e), !.free = <<e>> \o @]

\* The number of entries that mac_learning_run() frees: it stops at the first
\* that has time left.
Expired ==
    IF \E k \in DOMAIN ml.lrus : ml.entries[ml.lrus[k]].left > 0
    THEN (CHOOSE k \in DOMAIN ml.lrus : /\ ml.entries[ml.lrus[k]].left > 0
                                        /\ \A j \in 1 .. (k - 1) : ml.entries[ml.lrus[j]].left = 0) - 1
    ELSE Len(ml.lrus)

mac_learning_run ==
    /\ Expired > 0
    /\ ml' = FoldLeft(free_mac_entry, ml, SubSeq(ml.lrus, 1, Expired))
    /\ heard' = SelectSeq(heard, LAMBDA h : h.left > 0)

mac_learning_flush ==
    /\ ml.lrus # << >>
    /\ ml' = FoldLeft(free_mac_entry, ml, ml.lrus)
    /\ heard' = << >>

\* time_now() advances by a second.
Second ==
    LET Less(n) == IF n > 0 THEN n - 1 ELSE 0 IN
    /\ ml' = [ml EXCEPT !.entries = [e \in Entries |-> [@[e] EXCEPT !.left = Less(@)]]]
    /\ heard' = [k \in DOMAIN heard |-> [heard[k] EXCEPT !.left = Less(@)]]

LearningNext ==
    \/ \E mac \in Macs \cup Multicast, port \in Ports : mac_learning_learn(mac, port)
    \/ mac_learning_run \/ mac_learning_flush \/ Second
-----------------------------------------------------------------------------
\* A lookup gives the port on which the address was last heard if it is one of
\* the MAC_MAX addresses heard latest that were not due at the last purge, and
\* floods otherwise, although the purge stops at the first entry with time left
\* and entries are taken from other addresses.
KnowsTheLatest ==
    LET latest == SubSeq(heard, (IF Len(heard) > MAC_MAX THEN Len(heard) - MAC_MAX ELSE 0) + 1, Len(heard))
        Of(mac) == SelectSeq(latest, LAMBDA h : h.mac = mac)
    IN  \A mac \in Macs :
            mac_learning_lookup(mac) = IF Of(mac) = << >> THEN OFPP_FLOOD ELSE Of(mac)[1].port

\* Every entry is free or in use, once, and exactly the used ones are in the
\* hash table, each in the bucket of its address.
ListsAgree ==
    /\ Len(ml.free) + Len(ml.lrus) = MAC_MAX
    /\ ToSet(ml.free) \cup ToSet(ml.lrus) = Entries
    /\ \A b \in DOMAIN ml.table :
          ToSet(ml.table[b]) = {e \in Entries : InUse(e) /\ mac_table_bucket(ml.entries[e].mac) = b}
=============================================================================
