------------------------------- MODULE Meters -------------------------------
(***************************************************************************)
(* The token buckets of a meter (meter_entry.c): every band has one, a     *)
(* packet takes tokens from each of them, and the band with the highest    *)
(* rate of those that have too few says what happens to it.  The datapath  *)
(* refills the buckets about once a second.                                *)
(*                                                                         *)
(* A second has Second units (1000 milliseconds in the code): a packet     *)
(* costs Second tokens, a byte one.  Products are cut to Word as the code  *)
(* cuts them to 32 bits.                                                   *)
(***************************************************************************)
EXTENDS Integers, FiniteSetsExt

CONSTANTS MeterMods,     \* meter_mod messages, [flags, bands]
          Second, Word,
          Sizes,         \* sizes of packets
          Marks,         \* drop precedences in the DSCP of packets
          Periods,       \* units between two refills
          MaxClock, MaxBurst   \* packets between two refills

VARIABLES meter,         \* the message that made the meter
          tokens,        \* band -> band_stats.tokens
          last_fill,     \* band_stats.last_fill, the same for all bands
          clock,
          mark,          \* drop precedence of the last packet, before and after
          dropped,       \* whether it was dropped
          used,          \* band -> tokens taken
          interval,      \* [now, most]: packets since the last refill and the most of them
          refills

meterVars == <<meter, tokens, last_fill, clock, mark, dropped, used, interval, refills>>

Bands == DOMAIN meter.bands

meter_entry_create(mod) ==
    /\ meter = mod
    /\ tokens = [b \in DOMAIN mod.bands |-> 0]
    /\ last_fill = 0

\* The price of a packet, 0 for a meter that counts neither packets nor bits: such a
\* meter is always exceeded.
Price(size) == CASE "KBPS" \in meter.flags -> size
                 [] "KBPS" \notin meter.flags /\ "PKTPS" \in meter.flags -> Second
                 [] OTHER -> 0

consume_tokens(b, size) == Price(size) > 0 /\ tokens[b] >= Price(size)

\* The exceeded band of the highest rate, the first of several; 0 if none.
choose_band(size) ==
    LET exceeded == {b \in Bands : ~consume_tokens(b, size) /\ meter.bands[b].rate > 0}
    IN IF exceeded = {} THEN 0
       ELSE CHOOSE b \in exceeded :
              \A c \in exceeded : \/ meter.bands[c].rate < meter.bands[b].rate
                                  \/ meter.bands[c].rate = meter.bands[b].rate /\ b <= c

\* The drop precedence (1 low, 2 medium, 3 high) is raised only to another valid one.
Remarked(old, band) ==
    IF (old = 1 /\ band.prec_level <= 2) \/ (old = 2 /\ band.prec_level <= 1)
    THEN old + band.prec_level ELSE old

meter_entry_apply(size, old) ==
    LET b == choose_band(size)
        taken == [c \in Bands |-> IF consume_tokens(c, size) THEN Price(size) ELSE 0]
    IN /\ interval.now < MaxBurst
       /\ tokens' = [c \in Bands |-> tokens[c] - taken[c]]
       /\ used' = [c \in Bands |-> used[c] + taken[c]]
       /\ dropped' = (b # 0 /\ meter.bands[b].type = "DROP")
       /\ mark' = [old |-> old,
                   new |-> IF b # 0 /\ meter.bands[b].type = "DSCP_REMARK"
                           THEN Remarked(old, meter.bands[b]) ELSE old]
       /\ interval' = [now |-> interval.now + 1,
                       most |-> IF interval.now + 1 > interval.most THEN interval.now + 1
                                ELSE interval.most]
       /\ UNCHANGED <<meter, last_fill, clock, refills>>

Cap(b) == ((IF "BURST" \in meter.flags THEN meter.bands[b].burst_size ELSE meter.bands[b].rate)
           * Second) % Word

CutTooShort(b, elapsed) ==
    LET rate == (meter.bands[b].rate * Second) % (Word \div 4)
        new == ((rate * elapsed) \div Second) + tokens[b]
        least == IF "KBPS" \in meter.flags THEN 1 ELSE Second
    IN IF new >= least THEN Min({new, Cap(b)}) ELSE tokens[b]
\* A bucket with less than a packet (a bit) in it is not filled at all.
Refilled(b, elapsed) ==
    LET rate == (meter.bands[b].rate * Second) % Word
        new == ((rate * elapsed) \div Second) + tokens[b]
        least == IF "KBPS" \in meter.flags THEN 1 ELSE Second
    IN IF new >= least THEN Min({new, Cap(b)}) ELSE tokens[b]

\* meter_table_add_tokens(), when the second of the clock has changed.
KeepsLastFill(elapsed) ==
    /\ clock + elapsed <= MaxClock
    /\ clock' = clock + elapsed
    /\ tokens' = [b \in Bands |-> Refilled(b, clock' - last_fill)]
    /\ interval' = [now |-> 0, most |-> IF refills = 0 THEN 0 ELSE interval.most]
    /\ refills' = 1
    /\ UNCHANGED <<meter, last_fill, mark, dropped, used>>
refill_bucket(elapsed) ==
    /\ clock + elapsed <= MaxClock
    /\ clock' = clock + elapsed
    /\ tokens' = [b \in Bands |-> Refilled(b, clock' - last_fill)]
    /\ last_fill' = clock'
    /\ interval' = [now |-> 0, most |-> IF refills = 0 THEN 0 ELSE interval.most]
    /\ refills' = 1
    /\ UNCHANGED <<meter, mark, dropped, used>>

MeterInit ==
    /\ \E i \in DOMAIN MeterMods : meter_entry_create(MeterMods[i])
    /\ clock = 0
    /\ mark = [old |-> 1, new |-> 1] /\ dropped = FALSE
    /\ used = [b \in DOMAIN meter.bands |-> 0]
    /\ interval = [now |-> 0, most |-> 0]
    /\ refills = 0

MeterNext ==
    \/ \E size \in Sizes, old \in Marks : meter_entry_apply(size, old)
    \/ \E elapsed \in Periods : refill_bucket(elapsed)

MeterSpec == MeterInit /\ [][MeterNext]_meterVars

\* What a meter_mod may hold, and a clock that moves on between two refills.
MeterAssumption ==
    /\ Second \in Nat \ {0} /\ Word \in Nat \ {0}
    /\ Sizes \subseteq Nat /\ Periods \subseteq Nat
    /\ \A i \in DOMAIN MeterMods : \A b \in DOMAIN MeterMods[i].bands :
          MeterMods[i].bands[b].rate \in Nat /\ MeterMods[i].bands[b].burst_size \in Nat

----------------------------------------------------------------------------
\* No band lets more through than its rate since the meter was made: a packet that is
\* not touched has found tokens in every bucket, and no unit of time is counted twice
\* by the refills (refill_bucket(), consume_tokens()).
RateHeld ==
    \A b \in Bands : used[b] + tokens[b] <= meter.bands[b].rate * last_fill

\* n packets between two refills are within what every band earns in the shortest
\* period and may keep (its burst, or what it earns in a second), as long as no product
\* overflows.
Slow(n) ==
    \A b \in Bands :
       /\ \A elapsed \in Periods : n * Second <= meter.bands[b].rate * elapsed
       /\ n * Second <= Cap(b)
       /\ meter.bands[b].rate * Second < Word

\* From the first refill on, a flow that never sends more packets between two refills
\* than each band's rate and burst allow is not touched by a meter that counts packets,
\* also when the refills come early or late.
SlowFlowPasses ==
    ("PKTPS" \in meter.flags /\ "KBPS" \notin meter.flags /\ refills > 0 /\ interval.now > 0
     /\ Slow(interval.most))
    => ~dropped /\ mark.new = mark.old

\* A meter lets through what its bands allow, and no more.
MeterExact == RateHeld /\ SlowFlowPasses
=============================================================================
