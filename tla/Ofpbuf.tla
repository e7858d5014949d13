------------------------------- MODULE Ofpbuf -------------------------------
(***************************************************************************)
(* The buffer of every packet and message: lib/ofpbuf.c.  A block of       *)
(* memory with unused room at its head and at its tail, which moves when   *)
(* the tail room does not suffice, and pointers into it.                   *)
(*                                                                         *)
(* Addresses are numbers.  A byte is a number that tells it from all       *)
(* others, 0 where none was written since the allocation; l stands for the *)
(* four layer pointers, which are moved alike.                             *)
(***************************************************************************)
EXTENDS Naturals, Integers, Sequences, SequencesExt

CONSTANTS
    Blocks,    \* addresses where the allocator finds room
    Sizes,     \* sizes that callers ask for
    GROW,      \* 64: the least tail room after growing
    MaxWrites, \* bound: writes in a run
    MaxHeadroom \* bound: head room that callers reserve

Null == 0

VARIABLES
    b,         \* base, data, size, allocated, l
    heap,      \* the bytes of the block, from base on
    writes,
    content,   \* history: the bytes that the callers put in, in order
    marked     \* history: the byte that l was set to

bufVars == <<b, heap, writes, content, marked>>

ofpbuf_headroom(buf) == buf.data - buf.base
ofpbuf_tail(buf) == buf.data + buf.size
ofpbuf_end(buf) == buf.base + buf.allocated
ofpbuf_tailroom(buf) == ofpbuf_end(buf) - ofpbuf_tail(buf)

Fresh(n) == [i \in 1 .. n |-> 0]
ofpbuf_use(base, allocated) ==
    [base |-> base, data |-> base, size |-> 0, allocated |-> allocated, l |-> Null]

\* ofpbuf_init(), ofpbuf_new(): no block at all for size 0.
BufInit ==
    /\ \E n \in Sizes \cup {0} :
          /\ b \in IF n = 0 THEN {ofpbuf_use(Null, 0)} ELSE {ofpbuf_use(a, n) : a \in Blocks}
          /\ heap = Fresh(n)
    /\ writes = 0 /\ content = <<>> /\ marked = Null

\* Mutant: the layers stay where they were.
LayersStay(buf, new_base) ==
    LET delta == new_base - buf.base
    IN  [buf EXCEPT !.base = new_base, !.data = @ + delta]

ofpbuf_rebase__(buf, new_base) ==
    LET delta == new_base - buf.base
    IN  [buf EXCEPT !.base = new_base, !.data = @ + delta,
                    !.l = IF @ = Null THEN Null ELSE @ + delta]

\* Mutant: the head room is not counted.
ForgetsHeadroom(buf, room) == buf.size + room

NewSize(buf, room) == ofpbuf_headroom(buf) + buf.size + room

\* xrealloc() keeps the bytes that fit and may move the block or not.
Resized(buf, bytes, room) ==
    LET n == NewSize(buf, room)
        bases == IF n = 0 THEN {Null} ELSE Blocks
    IN  {[buf |-> [ofpbuf_rebase__(buf, a) EXCEPT !.allocated = n],
          heap |-> [i \in 1 .. n |-> IF i <= Len(bytes) THEN bytes[i] ELSE 0]] : a \in bases}

\* The buffers that ofpbuf_prealloc_tailroom() may leave.
ofpbuf_prealloc_tailroom(n) ==
    IF n > ofpbuf_tailroom(b) THEN Resized(b, heap, IF n > GROW THEN n ELSE GROW)
    ELSE {[buf |-> b, heap |-> heap]}

Bytes(n) == [i \in 1 .. n |-> 10 * (writes + 1) + i]
\* bytes with new from the address p on, in a block at base.
Write(bytes, base, p, new) ==
    [i \in DOMAIN bytes |->
        IF i \in p - base + 1 .. p - base + Len(new) THEN new[i - (p - base)] ELSE bytes[i]]

\* ofpbuf_put(), and ofpbuf_put_zeros(), ofpbuf_put_uninit() with the write of
\* the caller.
ofpbuf_put(n) ==
    /\ writes < MaxWrites
    /\ \E r \in ofpbuf_prealloc_tailroom(n) :
          /\ b' = [r.buf EXCEPT !.size = @ + n]
          /\ heap' = Write(r.heap, r.buf.base, ofpbuf_tail(r.buf), Bytes(n))
    /\ writes' = writes + 1
    /\ content' = content \o Bytes(n)
    /\ UNCHANGED marked

\* ofpbuf_push() and its kin assert that there is head room.
ofpbuf_push(n) ==
    /\ writes < MaxWrites /\ n <= ofpbuf_headroom(b)
    /\ b' = [b EXCEPT !.data = @ - n, !.size = @ + n]
    /\ heap' = Write(heap, b.base, b.data - n, Bytes(n))
    /\ writes' = writes + 1
    /\ content' = Bytes(n) \o content
    /\ UNCHANGED marked

\* Mutant: the room is not made first.
ReservesNothing(n) ==
    /\ b.size = 0 /\ ofpbuf_headroom(b) + n <= MaxHeadroom
    /\ b' = [b EXCEPT !.data = @ + n]
    /\ UNCHANGED <<heap, writes, content, marked>>

ofpbuf_reserve(n) ==
    /\ b.size = 0 /\ ofpbuf_headroom(b) + n <= MaxHeadroom
    /\ \E r \in ofpbuf_prealloc_tailroom(n) :
          b' = [r.buf EXCEPT !.data = @ + n] /\ heap' = r.heap
    /\ UNCHANGED <<writes, content, marked>>

\* ofpbuf_pull(), which asserts what ofpbuf_try_pull() tests.
ofpbuf_try_pull(n) ==
    /\ b.size >= n
    /\ b' = [b EXCEPT !.data = @ + n, !.size = @ - n]
    /\ content' = SubSeq(content, n + 1, Len(content))
    /\ UNCHANGED <<heap, writes, marked>>

ofpbuf_trim ==
    /\ ofpbuf_tailroom(b) > 0
    /\ \E r \in Resized(b, heap, 0) : b' = r.buf /\ heap' = r.heap
    /\ UNCHANGED <<writes, content, marked>>

ofpbuf_clear ==
    /\ b' = [b EXCEPT !.data = b.base, !.size = 0]
    /\ content' = <<>>
    /\ UNCHANGED <<heap, writes, marked>>

\* ofpbuf_clone_with_headroom(), and ofpbuf_clone() with no headroom; the
\* original is deleted.
ofpbuf_clone_with_headroom(headroom) ==
    /\ b.size + headroom > 0
    /\ \E a \in Blocks :
          /\ b' = [ofpbuf_use(a, b.size + headroom) EXCEPT !.data = a + headroom, !.size = b.size]
          /\ heap' = Fresh(headroom) \o SubSeq(heap, ofpbuf_headroom(b) + 1, ofpbuf_headroom(b) + b.size)
    /\ marked' = Null
    /\ UNCHANGED <<writes, content>>

\* A caller notes where a layer begins.
SetLayer ==
    /\ b.size > 0
    /\ b' = [b EXCEPT !.l = b.data]
    /\ marked' = Head(content)
    /\ UNCHANGED <<heap, writes, content>>

BufNext ==
    \/ \E n \in Sizes : ofpbuf_put(n) \/ ofpbuf_push(n) \/ ofpbuf_reserve(n) \/ ofpbuf_try_pull(n)
    \/ ofpbuf_trim \/ ofpbuf_clear \/ SetLayer
    \/ \E n \in Sizes \cup {0} : ofpbuf_clone_with_headroom(n)
-----------------------------------------------------------------------------
\* Whatever was put at the tail, pushed at the head and pulled, and however
\* often the block moved, the data of a buffer lie within its block and are the
\* bytes that the callers wrote, and a layer pointer is at the byte it was set
\* to for as long as that byte is among the data.
BytesKept ==
    /\ b.base <= b.data /\ ofpbuf_tail(b) <= ofpbuf_end(b) /\ b.allocated = Len(heap)
    /\ SubSeq(heap, ofpbuf_headroom(b) + 1, ofpbuf_headroom(b) + b.size) = content
    /\ b.l # Null /\ marked \in ToSet(content) =>
          b.l \in b.base .. ofpbuf_end(b) - 1 /\ heap[b.l - b.base + 1] = marked
=============================================================================
