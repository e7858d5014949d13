----------------------------- MODULE EhddpWire -----------------------------
(***************************************************************************)
(* The bytes of an eHDDP packet, written by the switches (udatapath/       *)
(* packet.c) and by the ONOS application (eHDDPpacket.java,                *)
(* AppComponent.java) and read by both.                                    *)
(*                                                                         *)
(* A packet is the sequence of its bytes after the Ethernet header: 42     *)
(* bytes of header and 19 bytes for every device it passed.  The switches  *)
(* append a device with ofpbuf_put() and change the header through         *)
(* struct ehddp_header, whose tables have all devices' configurations      *)
(* first, then all types, then all ids; num_repetido() reads the ids       *)
(* through those tables.                                                   *)
(*                                                                         *)
(* A trip is a packet made by the controller (a request) or by a switch    *)
(* (a reply) and the devices that handle it one after the other.           *)
(***************************************************************************)
EXTENDS Integers, Sequences, SequencesExt

CONSTANTS
    Trips,    \* [opcode, devices]: who handles a packet, in order
    Beyond    \* the bytes that may lie behind a packet in its buffer

VARIABLES
    trip,     \* the trip of the packet
    bytes,    \* the packet, after the Ethernet header
    hops,     \* history: the devices that put themselves into the packet
    refused   \* history: the devices that found it full or themselves in it

wireVars == <<trip, bytes, hops, refused>>

EHDDP_MAX_ELEMENTS == 31
ETH_ADDR_LEN == 6

\* struct ehddp_header: where its fields start, from 0.
ehddp_header ==
    [flags |-> 0, opcode |-> 1, num_devices |-> 2, num_sec |-> 3,
     previous_size_mac |-> 11, nxt_mac |-> 12, num_ack |-> 18, last_mac |-> 26,
     src_mac |-> 32, time_block |-> 38, configurations |-> 42,
     type_devices |-> 42 + EHDDP_MAX_ELEMENTS,
     ids |-> 42 + 3 * EHDDP_MAX_ELEMENTS]

HeaderSize == ehddp_header.configurations
DeviceSize == 19

\* The k bytes of v in network order, and the long with those bytes, the sign
\* carried on.
Net(v, k) ==
    LET quotient[n \in 0..k] == IF n = 0 THEN v ELSE quotient[n - 1] \div 256
    IN  [i \in 1..k |-> quotient[k - i] % 256]
Fill(n, b) == [i \in 1..n |-> b]
Long(bs) == Fill(8 - Len(bs), IF bs # <<>> /\ bs[1] >= 128 THEN 255 ELSE 0) \o bs

At(bs, offset, k) == SubSeq(bs, offset + 1, offset + k)
Put(bs, offset, field) ==
    SubSeq(bs, 1, offset) \o field \o SubSeq(bs, offset + Len(field) + 1, Len(bs))

MAC_GENERIC == <<170, 187, 204, 221, 238, 255>>
eth_addr_from_uint64(id) == Net(id, ETH_ADDR_LEN)
Configuration == 127   \* 0b01111111: lengths 2, 8 and 4, bidirectional
TIME_BLOCK_IN_DEVICE == 3000
Num_Sec == Net(1605, 8)    \* timestamp_hddp
Num_Ack == Net(77, 8)      \* randomno.nextLong()

-----------------------------------------------------------------------------
(* The switches.                                                           *)

\* A device as the switches append it.
Device(type, id, in_port, out_port) ==
    <<Configuration>> \o Net(type, 2) \o Net(id, 8) \o Net(in_port, 4) \o Net(out_port, 4)

\* The reply of switch id to a request with these numbers.
create_ehddp_reply_packet(d, num_sec, num_ack, time_block) ==
    <<1, 2, 1>> \o num_sec \o <<ETH_ADDR_LEN>> \o MAC_GENERIC \o num_ack
        \o eth_addr_from_uint64(d.id) \o eth_addr_from_uint64(d.id) \o time_block
        \o Device(d.type, d.id, d.in, d.in)

\* ids[i] as the structure has it, in the order of this machine.
ids(bs, i) == Reverse(At(bs, ehddp_header.ids + 8 * i, 8))

num_repetido(bs, id, beyond) ==
    LET seen == bs \o Fill(EHDDP_MAX_ELEMENTS * DeviceSize, beyond)
    IN  {i \in 0..(bs[ehddp_header.num_devices + 1] - 1) : ids(seen, i) = Net(id, 8)}

Accepts(bs, id, beyond) ==
    /\ bs[ehddp_header.num_devices + 1] + 1 <= EHDDP_MAX_ELEMENTS
    /\ num_repetido(bs, id, beyond) = {}

\* Without counting the new device.
AddsUncounted(bs, d) ==
    LET out_port == IF d.out > 255 THEN 255 ELSE d.out
        added == bs \o Device(d.type, d.id, d.in, out_port)
        signed == Put(added, ehddp_header.last_mac, eth_addr_from_uint64(d.id))
    IN  Put(signed, ehddp_header.nxt_mac, MAC_GENERIC)

\* An out port beyond 255 (a flood) is written as 255.
update_data_msg(bs, d) ==
    LET out_port == IF d.out > 255 THEN 255 ELSE d.out
        added == bs \o Device(d.type, d.id, d.in, out_port)
        counted == Put(added, ehddp_header.num_devices,
                       <<bs[ehddp_header.num_devices + 1] + 1>>)
        sized == Put(counted, ehddp_header.previous_size_mac, <<ETH_ADDR_LEN>>)
        signed == Put(sized, ehddp_header.last_mac, eth_addr_from_uint64(d.id))
    IN  Put(signed, ehddp_header.nxt_mac, MAC_GENERIC)

-----------------------------------------------------------------------------
(* The controller.                                                         *)

\* BitSet_To_Byte: the set bits of the second vector behind the first.
Highest(s) == IF s = {} THEN 0 ELSE 1 + CHOOSE i \in s : \A j \in s : j <= i
BitSet_To_Byte(vector_1, vector_2) ==
    LET set == vector_1 \cup {i + Highest(vector_1) : i \in vector_2}
    IN  IF 0 \in set THEN 1 ELSE 0     \* the only bit this program sets

set_array_dev_buffer(devices) ==
    FlattenSeq([k \in DOMAIN devices |->
        <<devices[k].configuration>> \o Net(devices[k].type, 2) \o Net(devices[k].id, 8)
            \o Net(devices[k].in, 4) \o Net(devices[k].out, 4)])

set_Packet_Size(num_devices) == HeaderSize + DeviceSize * num_devices

\* The buffer has the size for the devices; what does not fit would throw.
serialize(p) ==
    LET written == <<BitSet_To_Byte(p.Flags, p.Version), p.Opcode, p.Num_hops>>
                   \o p.Num_Sec \o <<p.Previous_MAC_Length>> \o p.Mac_ant \o p.Num_Ack
                   \o p.Last_mac \o p.Src_mac \o Net(p.Time_block, 4)
                   \o set_array_dev_buffer(p.devices)
    IN  written \o Fill(set_Packet_Size(p.Num_hops) - Len(written), 0)

CreatePacketeHDDP(d, opcode, port) ==
    [Flags |-> {}, Version |-> {0}, Opcode |-> opcode, Num_hops |-> 1,
     Num_Sec |-> Num_Sec, Previous_MAC_Length |-> ETH_ADDR_LEN,
     Mac_ant |-> MAC_GENERIC, Num_Ack |-> Num_Ack, Last_mac |-> MAC_GENERIC,
     Src_mac |-> MAC_GENERIC, Time_block |-> TIME_BLOCK_IN_DEVICE,
     devices |-> <<[configuration |-> Configuration, type |-> 1, id |-> d.id,
                    in |-> port, out |-> port]>>]

\* Bit fields of a configuration byte c.
Bits(c, low, n) == (c \div 2^low) % 2^n
\* The code shifts the masked bits to the left.
getDevice_type_len(c) == Bits(c, 6, 2) * 2^12 + 1
getDevice_id_len(c) == Bits(c, 3, 3) * 2^6 + 1
getport_len(c) == Bits(c, 1, 2) * 2^2 + 1
getbidirectional(c) == Bits(c, 0, 1) = 1

\* How many bytes are taken from the buffer for a field of this length.
get_Type_device_frame(len) == IF len = 0 THEN 0 ELSE IF len = 1 THEN 1 ELSE 2
get_port_frame(len) ==
    CASE len \in {0, 3} -> 0 [] len = 1 -> 1 [] len = 2 -> 2 [] OTHER -> 4
get_id_mac_device_frame(len) ==
    CASE len \in {0, 3} -> 0 [] len = 1 -> 1 [] len = 2 -> 2 [] len = 4 -> 4 [] OTHER -> 8

\* BitSet_split_vars: from pos_init up to pos_end, which lies below it.
BitSet_split_vars(set, pos_init, pos_end) ==
    {i - pos_init : i \in {j \in set : pos_init <= j /\ j < pos_end}}

\* The devices from offset on; a read behind the end throws.
DevicesFrom(bs, start, n) ==
    LET next[k \in 0..n] ==
            IF k = 0 THEN start
            ELSE LET o == next[k - 1]
                     c == bs[o + 1]
                 IN  o + 1 + get_Type_device_frame(getDevice_type_len(c))
                       + get_id_mac_device_frame(getDevice_id_len(c))
                       + 2 * get_port_frame(getport_len(c))
    IN  [k \in 1..n |->
            LET o == next[k - 1] + 1
                c == bs[o]
                t == get_Type_device_frame(getDevice_type_len(c))
                i == get_id_mac_device_frame(getDevice_id_len(c))
                p == get_port_frame(getport_len(c))
            IN  [bidirectional |-> getbidirectional(c),
                 type |-> Long(At(bs, o, t)),
                 id |-> Long(At(bs, o + t, i)),
                 in |-> Long(At(bs, o + t + i, p)),
                 out |-> Long(At(bs, o + t + i + p, p))]]

deserializer(bs) ==
    LET size == bs[12]   \* Previous_MAC_Length
        first == {i \in 0..7 : Bits(bs[1], i, 1) = 1}
    IN  [Flags |-> BitSet_split_vars(first, 7, 4), Version |-> BitSet_split_vars(first, 3, 0),
         Opcode |-> bs[2], Num_hops |-> bs[3], Num_Sec |-> At(bs, 3, 8),
         Mac_ant |-> At(bs, 12, size), Num_Ack |-> At(bs, 12 + size, 8),
         Last_mac |-> At(bs, 20 + size, size), Src_mac |-> At(bs, 20 + 2 * size, size),
         Time_block |-> At(bs, 20 + 3 * size, 4),
         devices |-> DevicesFrom(bs, 24 + 3 * size, bs[3])]

-----------------------------------------------------------------------------
\* Where a trip starts: the controller's request to a switch, which floods it
\* as it is, or a switch's reply to such a request.
WireInit ==
    /\ trip \in Trips
    /\ LET d == Head(trip.devices)
           request == serialize(CreatePacketeHDDP(d, 1, 255))
       IN  /\ bytes = IF trip.opcode = 1 THEN request
                      ELSE create_ehddp_reply_packet(d, At(request, ehddp_header.num_sec, 8),
                               At(request, ehddp_header.num_ack, 8),
                               At(request, ehddp_header.time_block, 4))
           /\ hops = <<IF trip.opcode = 1 THEN [d EXCEPT !.type = 1, !.in = 255, !.out = 255]
                       ELSE [d EXCEPT !.out = d.in]>>
    /\ refused = {}

\* The next switch of the trip handles the packet: it adds itself and passes
\* the packet on.  A request goes on as it came when it cannot; a reply ends.
Handle(beyond) ==
    LET k == Len(hops) + 1
        d == trip.devices[k]
    IN  /\ k <= Len(trip.devices) /\ refused = {}
        /\ IF Accepts(bytes, d.id, beyond)
           THEN /\ bytes' = update_data_msg(bytes, d)
                /\ hops' = Append(hops, d)
                /\ refused' = refused
           ELSE refused' = {d.id} /\ UNCHANGED <<bytes, hops>>
        /\ trip' = trip

WireNext == \E beyond \in Beyond : Handle(beyond)

-----------------------------------------------------------------------------
\* What the controller reads from a packet is what the switches on its way
\* wrote: the numbers of its own request, the last switch and, in their order,
\* the type, the id and the ports of every device, at most 31 of them, floods
\* as port 255 - although the two sides are written in two languages, count
\* the lengths of the fields differently and never agree on a byte order.
ControllerReads ==
    LET p == deserializer(bytes)
        Read(d) == [bidirectional |-> TRUE, type |-> Long(Net(d.type, 2)),
                    id |-> Long(Net(d.id, 8)), in |-> Long(Net(d.in, 4)),
                    out |-> Long(Net(IF d.out > 255 THEN 255 ELSE d.out, 4))]
    IN  /\ p.Opcode = trip.opcode /\ p.Num_hops = Len(hops)
        /\ p.Num_Sec = Num_Sec /\ p.Num_Ack = Num_Ack /\ p.Mac_ant = MAC_GENERIC
        /\ Long(p.Time_block) = Long(Net(TIME_BLOCK_IN_DEVICE, 4))
        /\ (Len(hops) > 1 => p.Last_mac = eth_addr_from_uint64(Last(hops).id))
        /\ p.devices = [k \in DOMAIN hops |-> Read(hops[k])]
        /\ Len(bytes) = set_Packet_Size(Len(hops))
=============================================================================
