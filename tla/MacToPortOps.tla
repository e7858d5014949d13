---------------------------- MODULE MacToPortOps ----------------------------
(***************************************************************************)
(* The MAC-to-port tables of udatapath/dp_ports.c (bt_table, learned from  *)
(* eHDDP requests, and learning_table, learned from ARP), as a sequence of *)
(* entries in insertion order.  Only the first entry of a MAC is ever      *)
(* looked at, updated or refreshed.                                        *)
(*                                                                         *)
(* `left' is valid_time_entry - time_msec(), counted in clock ticks and    *)
(* kept at EXPIRED once it is negative, so time_msec() <= valid_time_entry *)
(* is left >= 0.                                                           *)
(***************************************************************************)
EXTENDS Integers, Sequences

EXPIRED == -1

Later(a, b) == IF a >= b THEN a ELSE b

\* The position of the first entry of mac, 0 when there is none.
Position(t, mac) ==
    IF \E i \in 1 .. Len(t) : t[i].mac = mac
    THEN CHOOSE i \in 1 .. Len(t) :
            t[i].mac = mac /\ \A j \in 1 .. i - 1 : t[j].mac # mac
    ELSE 0

\* -1: no entry; 0: the entry has expired or is of another exploration.
mac_to_port_found_port(t, mac, num_sec) ==
    LET i == Position(t, mac) IN
    IF i = 0 THEN -1
    ELSE IF t[i].left >= 0 /\ t[i].num_sec = num_sec THEN t[i].port_in
    ELSE 0

\* 1: the entry has expired; 0: it has not; 2: there is none.
mac_to_port_check_timeout(t, mac) ==
    LET i == Position(t, mac) IN
    IF i = 0 THEN 2 ELSE IF t[i].left < 0 THEN 1 ELSE 0

mac_to_port_add(t, mac, port, time, num_sec) ==
    Append(t, [mac |-> mac, port_in |-> port, left |-> time, num_sec |-> num_sec])

\* The validity of an entry is extended, never shortened.
mac_to_port_update(t, mac, port, time, num_sec) ==
    LET i == Position(t, mac) IN
    IF i = 0 THEN t
    ELSE [t EXCEPT ![i].port_in = port, ![i].num_sec = num_sec,
                   ![i].left = Later(@, time)]

mac_to_port_time_refresh(t, mac, time, num_sec) ==
    LET i == Position(t, mac) IN
    IF i = 0 THEN t
    ELSE [t EXCEPT ![i].num_sec = num_sec, ![i].left = Later(@, time)]

\* An entry whose last millisecond of validity has come is removed, although
\* found_port would still return its port.
mac_to_port_delete_timeout(t) ==
    LET kept[i \in 0 .. Len(t)] ==
            IF i = 0 THEN <<>>
            ELSE IF t[i].left > 0 THEN Append(kept[i - 1], t[i]) ELSE kept[i - 1]
    IN  kept[Len(t)]

\* The whole table goes when its first entry has expired.
mac_to_port_delete_timeout_ehddp(t) ==
    IF t # <<>> /\ t[1].left < 0 THEN <<>> ELSE t

\* One tick of time_msec().
Aged(t) == [i \in 1 .. Len(t) |-> [t[i] EXCEPT !.left = Later(@ - 1, EXPIRED)]]
=============================================================================
