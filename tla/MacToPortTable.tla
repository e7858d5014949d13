--------------------------- MODULE MacToPortTable ---------------------------
(***************************************************************************)
(* What a MAC-to-port table promises: the operations of MacToPortOps, each *)
(* in one step, on a sequence of entries.                                  *)
(***************************************************************************)
EXTENDS MacToPortOps

CONSTANTS
    MAC,         \* Ethernet addresses
    Port,        \* port numbers
    NumSec,      \* exploration numbers
    Lifetime,    \* 0.8 * time, in clock ticks
    MaxElements  \* bound: entries of a table

VARIABLE table

Init == table = <<>>  \* mac_to_port_new()

Add ==
    /\ Len(table) < MaxElements
    /\ \E m \in MAC, p \in Port, d \in Lifetime, s \in NumSec :
          table' = mac_to_port_add(table, m, p, d, s)

Update ==
    \E m \in MAC, p \in Port, d \in Lifetime, s \in NumSec :
        table' = mac_to_port_update(table, m, p, d, s)

Refresh ==
    \E m \in MAC, d \in Lifetime, s \in NumSec :
        table' = mac_to_port_time_refresh(table, m, d, s)

\* The main loop of ofdatapath purges bt_table with both functions.
Purge == table' = mac_to_port_delete_timeout(table)

PurgeAll == table' = mac_to_port_delete_timeout_ehddp(table)

Tick == table' = Aged(table)

Next == Add \/ Update \/ Refresh \/ Purge \/ PurgeAll \/ Tick

Spec == Init /\ [][Next]_table
=============================================================================
