-------------------------------- MODULE Hmap --------------------------------
(***************************************************************************)
(* The hash map that holds groups and meters: lib/hmap.c and hmap.h.  The  *)
(* nodes are chained by their own next pointers from an array of buckets,  *)
(* which is reallocated as the map grows and shrinks.  An iteration may    *)
(* remove the node that it visits, and free it if it is one of the SAFE    *)
(* kind; nothing is inserted meanwhile.                                    *)
(***************************************************************************)
EXTENDS Naturals, FiniteSets, FiniteSetsExt

CONSTANTS
    Nodes,
    Hash,       \* the hash of each, which the caller gives
    Capacities, \* what room is reserved for
    NULL

VARIABLES
    hmap,   \* buckets (from 0 to the mask) and n
    next,   \* the next pointers of the nodes
    held,   \* history: the nodes in the map
    iter    \* the iteration: its kind, where it is, what is ahead, what was seen

hmapVars == <<hmap, next, held, iter>>

mask == Cardinality(DOMAIN hmap.buckets) - 1
Bucket(h, m) == h % (m + 1)

Empty(m) == [buckets |-> [i \in 0 .. m |-> NULL], n |-> 0]
NoIter == [kind |-> "none", node |-> NULL, ahead |-> NULL, seen |-> {}, all |-> {}]

hmap_init == Empty(0)

HmapInit ==
    /\ hmap = hmap_init /\ held = {} /\ iter = NoIter
    /\ next = [x \in Nodes |-> NULL]

(* A map with its chains: what the functions below work on. *)
Now == [map |-> hmap, next |-> next]

hmap_insert_fast(c, x) ==
    LET i == Bucket(Hash[x], Cardinality(DOMAIN c.map.buckets) - 1)
    IN  [map |-> [buckets |-> [c.map.buckets EXCEPT ![i] = x], n |-> c.map.n + 1],
         next |-> [c.next EXCEPT ![x] = c.map.buckets[i]]]

\* The nodes of c from x on, in order of the chain: x is moved with all behind it.
RECURSIVE MoveChain(_, _, _)
MoveChain(from, x, to) ==
    IF x = NULL THEN to ELSE MoveChain(from, from[x], hmap_insert_fast(to, x))

RECURSIVE MoveBuckets(_, _, _)
MoveBuckets(c, i, to) ==
    IF i \notin DOMAIN c.map.buckets THEN to
    ELSE MoveBuckets(c, i + 1, MoveChain(c.next, c.map.buckets[i], to))

\* Mutant: only the first node of each bucket is moved.
MovesHeads(c, m) ==
    LET heads == {c.map.buckets[i] : i \in DOMAIN c.map.buckets} \ {NULL}
    IN  FoldSet(LAMBDA x, to : hmap_insert_fast(to, x), [map |-> Empty(m), next |-> c.next], heads)

\* resize(): as the nodes move, their next pointers change; the loop has read
\* the pointer of each before.
resize(c, m) == MoveBuckets(c, 0, [map |-> Empty(m), next |-> c.next])

\* The least 2^k - 1 that is not below half the capacity; 3 instead of 1.
calc_mask(capacity) ==
    IF capacity < 2 THEN 0
    ELSE Min({m \in {2^k - 1 : k \in 2 .. 8} : m >= capacity \div 2})

hmap_expand(c) ==
    LET m == calc_mask(c.map.n)
    IN  IF m > Cardinality(DOMAIN c.map.buckets) - 1 THEN resize(c, m) ELSE c

Sets(c) == hmap' = c.map /\ next' = c.next

hmap_insert(x) ==
    /\ x \notin held /\ iter = NoIter
    /\ \E c \in {hmap_insert_fast(Now, x)} :
          Sets(IF c.map.n \div 2 > mask THEN hmap_expand(c) ELSE c)
    /\ held' = held \cup {x}
    /\ UNCHANGED iter

\* Inserted as a modified group is, whose map is as large as before.
InsertFast(x) ==
    /\ x \notin held /\ iter = NoIter
    /\ Sets(hmap_insert_fast(Now, x))
    /\ held' = held \cup {x}
    /\ UNCHANGED iter

\* Mutant: what was behind the node is lost.
CutsChain(c, x) ==
    LET i == Bucket(Hash[x], Cardinality(DOMAIN c.map.buckets) - 1)
    IN  [map |-> [buckets |-> [c.map.buckets EXCEPT ![i] = IF @ = x THEN NULL ELSE @],
                  n |-> c.map.n - 1],
         next |-> [y \in Nodes |-> IF c.next[y] = x THEN NULL ELSE c.next[y]]]

\* The pointer to x, in its bucket or in another node, becomes x's own next,
\* which x keeps.
hmap_remove(c, x) ==
    LET i == Bucket(Hash[x], Cardinality(DOMAIN c.map.buckets) - 1)
    IN  [map |-> [buckets |-> [c.map.buckets EXCEPT ![i] = IF @ = x THEN c.next[x] ELSE @],
                  n |-> c.map.n - 1],
         next |-> [y \in Nodes |-> IF c.next[y] = x /\ y \in held THEN c.next[x] ELSE c.next[y]]]

Remove(x) ==
    /\ x \in held /\ iter = NoIter
    /\ Sets(hmap_remove(Now, x))
    /\ held' = held \ {x}
    /\ UNCHANGED iter

hmap_shrink ==
    /\ iter = NoIter /\ calc_mask(hmap.n) < mask
    /\ \E c \in {resize(Now, calc_mask(hmap.n))} : Sets(c)
    /\ UNCHANGED <<held, iter>>

hmap_reserve(n) ==
    /\ iter = NoIter /\ calc_mask(n) > mask
    /\ \E c \in {resize(Now, calc_mask(n))} : Sets(c)
    /\ UNCHANGED <<held, iter>>
-----------------------------------------------------------------------------
(* Iteration *)

\* hmap_next__(): the first node of the first bucket from i on that has one.
hmap_next__(i) ==
    LET used == {k \in i .. mask : hmap.buckets[k] # NULL}
    IN  IF used = {} THEN NULL ELSE hmap.buckets[Min(used)]

hmap_first == hmap_next__(0)

\* Mutant: the bucket of the node is looked at once more.
SameBucketAgain(x) == IF next[x] # NULL THEN next[x] ELSE hmap_next__(Bucket(Hash[x], mask))

hmap_next(x) == IF next[x] # NULL THEN next[x] ELSE hmap_next__(Bucket(Hash[x], mask) + 1)

\* The loop goes to x; the SAFE kind reads what comes after x before its body.
GoTo(kind, x, seen, all) ==
    iter' = IF x = NULL THEN NoIter
            ELSE [kind |-> kind, node |-> x, seen |-> seen \cup {x}, all |-> all,
                  ahead |-> IF kind = "SAFE" THEN hmap_next(x) ELSE NULL]

FOR_EACH(kind) ==
    /\ iter = NoIter
    /\ GoTo(kind, hmap_first, {}, held)
    /\ UNCHANGED <<hmap, next, held>>

\* The body removes its node.  In the SAFE kind it is freed: its next pointer
\* may be anything.
Body ==
    /\ iter.node \in held
    /\ \E c \in {hmap_remove(Now, iter.node)} :
          /\ hmap' = c.map
          /\ \E junk \in IF iter.kind = "SAFE" THEN Nodes \cup {NULL} ELSE {c.next[iter.node]} :
                next' = [c.next EXCEPT ![iter.node] = junk]
    /\ held' = held \ {iter.node}
    /\ UNCHANGED iter

Advance ==
    /\ iter.kind # "none"
    /\ GoTo(iter.kind, IF iter.kind = "SAFE" THEN iter.ahead ELSE hmap_next(iter.node),
            iter.seen, iter.all)
    /\ UNCHANGED <<hmap, next, held>>

HmapNext ==
    \/ \E x \in Nodes : hmap_insert(x) \/ InsertFast(x) \/ Remove(x)
    \/ hmap_shrink \/ \E n \in Capacities : hmap_reserve(n)
    \/ \E kind \in {"plain", "SAFE"} : FOR_EACH(kind)
    \/ Body \/ Advance
-----------------------------------------------------------------------------
RECURSIVE Chain(_, _)
Chain(x, n) == IF x = NULL \/ n = 0 THEN {} ELSE {x} \cup Chain(next[x], n - 1)

\* However it was filled, emptied and resized, the map holds exactly the nodes
\* that were put in and not taken out, each where hmap_first_with_hash() looks
\* for its hash, and counts them.
FoundByHash ==
    /\ hmap.n = Cardinality(held)
    /\ \A i \in 0 .. mask :
          Chain(hmap.buckets[i], Cardinality(Nodes) + 1) =
              {x \in held : Bucket(Hash[x], mask) = i}

\* An iteration, also one that removes or frees the nodes it visits, comes to
\* every node once: it never goes on to one that it has seen, and does not end
\* before it has seen all.
VisitsEachOnce ==
    /\ iter.kind # "none" /\ iter' = NoIter => iter.seen = iter.all
    /\ iter.kind # "none" /\ iter' # iter /\ iter' # NoIter => iter'.node \notin iter.seen
=============================================================================
