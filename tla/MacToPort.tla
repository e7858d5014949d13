----------------------------- MODULE MacToPort -----------------------------
(***************************************************************************)
(* The MAC-to-port tables as udatapath/dp_ports.c stores them: a singly    *)
(* linked list of heap nodes with pointers to the first (inicio) and the   *)
(* last (fin) node and a count.  The two functions that delete expired     *)
(* entries are loops over three pointers; a step of the model is one       *)
(* iteration.  A read through a pointer to a freed node returns any        *)
(* pointer at all.                                                         *)
(***************************************************************************)
EXTENDS MacToPortOps, FiniteSets

CONSTANTS
    MAC, Port, NumSec, Lifetime, MaxElements,
    Addr,   \* heap addresses of nodes
    NULL

VARIABLES
    inicio, fin, num_element,  \* struct mac_to_port
    heap,       \* the allocated nodes: entry and next pointer
    loop        \* the running delete loop: its function and its pointers

vars == <<inicio, fin, num_element, heap, loop>>

Ptr == Addr \cup {NULL}

Entry == [mac : MAC, port_in : Port, left : Int, num_sec : NumSec]

Allocated == DOMAIN heap

IDLE == [run |-> "none", anterior |-> NULL, actual |-> NULL]

\* The nodes from p on, in list order.
Walk(p) ==
    LET walk[n \in 0 .. Cardinality(Allocated), q \in Ptr] ==
            IF n = 0 \/ q \notin Allocated THEN <<>>
            ELSE <<q>> \o walk[n - 1, heap[q].next]
    IN  walk[Cardinality(Allocated), p]

EntriesFrom(p) == LET w == Walk(p) IN [i \in 1 .. Len(w) |-> heap[w[i]].entry]

\* The first node of mac, NULL when there is none.
FirstNode(mac) ==
    LET w == Walk(inicio)
        i == Position(EntriesFrom(inicio), mac)
    IN  IF i = 0 THEN NULL ELSE w[i]

Init ==
    /\ inicio = NULL /\ fin = NULL /\ num_element = 0
    /\ heap = [a \in {} |-> NULL]
    /\ loop = IDLE

Add ==
    /\ loop.run = "none"
    /\ Cardinality(Allocated) < MaxElements
    /\ \E m \in MAC, p \in Port, d \in Lifetime, s \in NumSec, nuevo \in Addr \ Allocated :
          LET e == [mac |-> m, port_in |-> p, left |-> d, num_sec |-> s]
              linked == [a \in Allocated |->
                            IF inicio # NULL /\ a = fin
                            THEN [heap[a] EXCEPT !.next = nuevo] ELSE heap[a]]
          IN  /\ heap' = [a \in Allocated \cup {nuevo} |->
                            IF a = nuevo THEN [entry |-> e, next |-> NULL] ELSE linked[a]]
              /\ inicio' = IF inicio = NULL THEN nuevo ELSE inicio
              /\ fin' = nuevo
              /\ num_element' = num_element + 1
    /\ UNCHANGED loop

\* What an operation does to the first node of a MAC.
Rewrite(mac, Op(_)) ==
    LET a == FirstNode(mac) IN
    /\ heap' = IF num_element > 0 /\ a # NULL
               THEN [heap EXCEPT ![a].entry = Op(<<@>>)[1]] ELSE heap
    /\ UNCHANGED <<inicio, fin, num_element, loop>>

Update ==
    /\ loop.run = "none"
    /\ \E m \in MAC, p \in Port, d \in Lifetime, s \in NumSec :
          LET Op(t) == mac_to_port_update(t, m, p, d, s) IN Rewrite(m, Op)

Refresh ==
    /\ loop.run = "none"
    /\ \E m \in MAC, d \in Lifetime, s \in NumSec :
          LET Op(t) == mac_to_port_time_refresh(t, m, d, s) IN Rewrite(m, Op)

\* The deletions test time_msec() once, before their loop.
Tick ==
    /\ loop.run = "none"
    /\ heap' = [a \in Allocated |-> [heap[a] EXCEPT !.entry = Aged(<<@>>)[1]]]
    /\ UNCHANGED <<inicio, fin, num_element, loop>>

StartDeleteTimeout ==
    /\ loop.run = "none"
    /\ loop' = [run |-> "timeout", anterior |-> inicio, actual |-> inicio]
    /\ UNCHANGED <<inicio, fin, num_element, heap>>

\* limpiar_tabla is 1 when the first entry has expired.
StartDeleteTimeoutEhddp ==
    /\ loop.run = "none"
    /\ loop' = [run |-> IF num_element > 0 /\ heap[inicio].entry.left < 0
                        THEN "all" ELSE "nothing",
                anterior |-> inicio, actual |-> inicio]
    /\ UNCHANGED <<inicio, fin, num_element, heap>>

\* Mutant: the last-node test is forgotten.
OnlyNode_FirstSuffices(a) == a = inicio

OnlyNode(a) == a = inicio /\ a = fin

\* Mutant: the count is decremented without looking whether it is zero.
CountAfterDelete_Unguarded(only) == IF only THEN 0 - 1 ELSE num_element - 1

CountAfterDelete(only) ==
    IF only THEN 0 ELSE IF num_element > 0 THEN num_element - 1 ELSE num_element

\* The list after `actual' is unlinked and freed.
Unlinked ==
    LET a == loop.actual
        b == loop.anterior
        without == [x \in Allocated \ {a} |->
                      IF x = b /\ a # inicio
                      THEN [heap[x] EXCEPT !.next = IF a = fin THEN NULL ELSE heap[a].next]
                      ELSE heap[x]]
    IN  /\ heap' = without
        /\ num_element' = CountAfterDelete(OnlyNode(a))
        /\ IF OnlyNode(a) THEN inicio' = NULL /\ fin' = NULL
           ELSE /\ inicio' = IF a = inicio THEN heap[a].next ELSE inicio
                /\ fin' = IF a # inicio /\ a = fin THEN b ELSE fin

\* `anterior' after the node is gone: the new first node when the first was
\* deleted, and the freed node itself when it was the only one.
AnteriorAfterUnlink ==
    IF loop.actual = inicio /\ loop.actual # fin THEN heap[loop.actual].next ELSE loop.anterior

\* The pointers at the end of an iteration; `b' is the new anterior and
\* `inicial' tells that the first node was deleted.
Advance(b, inicial) ==
    IF b = NULL THEN loop' = [loop EXCEPT !.anterior = b, !.actual = NULL]
    ELSE IF inicial THEN loop' = [loop EXCEPT !.anterior = b, !.actual = b]
    ELSE IF b \in DOMAIN heap'
         THEN loop' = [loop EXCEPT !.anterior = b, !.actual = heap'[b].next]
    ELSE \E any \in Ptr : loop' = [loop EXCEPT !.anterior = b, !.actual = any]

Iterating == loop.run # "none" /\ loop.actual # NULL /\ num_element > 0

\* Mutant: the comparison of mac_to_port_check_timeout().
PastValidity_Strict(a) == heap[a].entry.left < 0

PastValidity(a) == heap[a].entry.left <= 0

DeleteStep ==
    /\ Iterating
    /\ \/ loop.run = "all"
       \/ loop.run = "timeout" /\ PastValidity(loop.actual)
    /\ Unlinked
    /\ Advance(AnteriorAfterUnlink, loop.actual = inicio /\ loop.actual # fin)

\* Mutant: `anterior' does not move over an entry that stays.
AfterKept_Stuck == loop.anterior

AfterKept == heap[loop.anterior].next

SkipStep ==
    /\ Iterating
    /\ UNCHANGED <<inicio, fin, num_element, heap>>
    /\ \/ /\ loop.run = "timeout" /\ ~PastValidity(loop.actual)
          /\ Advance(loop.actual, FALSE)
       \/ /\ loop.run = "nothing"
          /\ Advance(AfterKept, FALSE)

EndLoop ==
    /\ loop.run # "none" /\ ~Iterating
    /\ loop' = IDLE
    /\ UNCHANGED <<inicio, fin, num_element, heap>>

Next ==
    \/ Add \/ Update \/ Refresh \/ Tick
    \/ StartDeleteTimeout \/ StartDeleteTimeoutEhddp
    \/ DeleteStep \/ SkipStep \/ EndLoop

Spec == Init /\ [][Next]_vars /\ WF_vars(DeleteStep \/ SkipStep \/ EndLoop)
-----------------------------------------------------------------------------
\* The fields hold what their C types and the heap allow.
TypeOK ==
    /\ inicio \in Ptr /\ fin \in Ptr /\ num_element \in 0 .. MaxElements
    /\ Allocated \subseteq Addr
    /\ \A a \in Allocated : heap[a].entry \in Entry /\ heap[a].next \in Ptr
    /\ loop \in [run : {"none", "timeout", "all", "nothing"}, anterior : Ptr, actual : Ptr]

\* Whatever the operations and the delete loops do, the list stays a list:
\* its nodes are exactly the allocated ones (nothing leaks, nothing freed is
\* linked), fin is its last node and num_element its length.
WellFormed ==
    LET w == Walk(inicio) IN
    /\ {w[i] : i \in 1 .. Len(w)} = Allocated
    /\ Len(w) = Cardinality(Allocated) /\ num_element = Len(w)
    /\ IF w = <<>> THEN inicio = NULL /\ fin = NULL
       ELSE fin = w[Len(w)] /\ heap[fin].next = NULL

\* A delete loop ends: mac_to_port_delete_timeout() and
\* mac_to_port_delete_timeout_ehddp() return to the main loop.
LoopsEnd == []<>(loop.run = "none")

\* The table the list stands for.  A delete loop stands for its result from
\* its first step on: what lies before `actual' has been kept already.
Remaining == IF Iterating THEN EntriesFrom(loop.actual) ELSE <<>>

AbstractTable ==
    LET all == EntriesFrom(inicio)
        done == SubSeq(all, 1, Len(all) - Len(Remaining))
    IN  CASE loop.run = "timeout" -> done \o mac_to_port_delete_timeout(Remaining)
          [] loop.run = "all" -> <<>>
          [] OTHER -> all

Table == INSTANCE MacToPortTable WITH table <- AbstractTable

\* The linked list and its delete loops implement the table of
\* MacToPortTable, in spite of the read through a freed node that ends the
\* deletion of the last entry.
ImplementsTable == Table!Spec
=============================================================================
