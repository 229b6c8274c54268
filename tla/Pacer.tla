------------------------------- MODULE Pacer --------------------------------
(***************************************************************************)
(* EgressPacer: how fast a pump may send.  The bytes of the current epoch  *)
(* are held against the time since it began; a rate change, decided from   *)
(* QUIC's loss counters, starts a new epoch.                               *)
(*                                                                         *)
(* Rates are whole bytes per tick where the code has floats; a faster rate *)
(* is rounded up, so that a small one still grows.  `allowed_bytes` is     *)
(* exact.  Waking at `target_time` is waking as soon as the epoch's bytes  *)
(* fit.  What was sent, and how often the rate changed, since the start is *)
(* recorded for the properties; no action reads it.                        *)
(***************************************************************************)
EXTENDS Integers

CONSTANTS MaxRate,      \* max_bytes_per_sec, in bytes per tick
          Burst,        \* burst_bytes
          Packet,       \* packet_bytes, at most the mtu that Burst covers
          Adaptive,     \* adaptive_egress
          AdjustEvery,  \* 250 ms, in ticks
          MaxTime       \* bound: the ticks looked at

\* target_burst_bytes is at least a packet of the mtu.
ASSUME PacerAssumption ==
  /\ MaxRate \in Nat \ {0} /\ Packet \in Nat \ {0} /\ Burst \in Nat /\ Burst >= Packet
  /\ Adaptive \in BOOLEAN /\ AdjustEvery \in Nat \ {0} /\ MaxTime \in Nat

\* max * 0.50
MinRate == (MaxRate + 1) \div 2

VARIABLES pump,         \* "ready" for a packet, or "asleep" in wait
          rate,         \* current_bytes_per_sec
          bytes,        \* epoch_bytes
          elapsed,      \* ticks since epoch_started
          sinceAdjust,  \* ticks since last_adjust, up to AdjustEvery
          known,        \* last_lost_packets is Some
          inTick,       \* bytes sent since the last tick
          clock,        \* ticks since the pump started
          total,        \* bytes it has sent
          epochs        \* rate changes so far

vars == <<pump, rate, bytes, elapsed, sinceAdjust, known, inTick, clock, total, epochs>>

Init ==
  /\ pump = "ready" /\ rate = MaxRate
  /\ bytes = 0 /\ elapsed = 0
  /\ sinceAdjust = 0 /\ known = FALSE
  /\ inTick = 0 /\ clock = 0 /\ total = 0 /\ epochs = 0

\* A mistake: no floor under the rate.
SlowerUnbounded(r) == (r * 85) \div 100

\* (current * 0.85).max(min)
Slower(r) ==
  LET next == (r * 85) \div 100 IN IF next < MinRate THEN MinRate ELSE next

\* (current * 1.02).min(max)
Faster(r) ==
  LET next == (r * 102 + 99) \div 100 IN IF next > MaxRate THEN MaxRate ELSE next

\* wait: within the burst, or within what the elapsed time allows.
Fits(b, e, r) == b <= e * r + Burst

\* wait, after the packet was counted.
Wait == pump' = IF Fits(bytes', elapsed', rate') THEN "ready" ELSE "asleep"

\* A packet is on its way.
Sent == inTick' = inTick + Packet /\ total' = total + Packet /\ UNCHANGED clock

\* adjust has something to compare with only from the second time on.
Adjusts == Adaptive /\ sinceAdjust = AdjustEvery

\* record_and_wait without a change of rate: not adaptive, too soon, the first
\* look at the counters, or a rate that is already at its limit.
Record ==
  /\ pump = "ready"
  /\ bytes' = bytes + Packet
  /\ Sent
  /\ \/ ~Adjusts /\ UNCHANGED <<known, sinceAdjust>>
     \/ Adjusts /\ ~known /\ known' = TRUE /\ sinceAdjust' = 0
     \/ Adjusts /\ known /\ rate \in {Slower(rate), Faster(rate)} /\ sinceAdjust' = 0 /\ UNCHANGED known
  /\ UNCHANGED <<rate, elapsed, epochs>>
  /\ Wait

\* A mistake: the new rate is held against the old epoch.
AdjustKeepsEpoch(next) ==
  /\ pump = "ready" /\ Adjusts /\ known /\ next # rate
  /\ rate' = next /\ epochs' = epochs + 1
  /\ bytes' = bytes + Packet /\ UNCHANGED elapsed
  /\ sinceAdjust' = 0
  /\ Sent
  /\ UNCHANGED known
  /\ Wait

\* A mistake: last_adjust is only set when the counters are first looked at.
AdjustAnyTime(next) ==
  /\ pump = "ready" /\ Adjusts /\ known /\ next # rate
  /\ rate' = next /\ epochs' = epochs + 1
  /\ bytes' = 0 /\ elapsed' = 0
  /\ Sent
  /\ UNCHANGED <<known, sinceAdjust>>
  /\ Wait

\* record_and_wait with a change of rate: reset_epoch forgets the packet too.
Adjust(next) ==
  /\ pump = "ready" /\ Adjusts /\ known /\ next # rate
  /\ rate' = next /\ epochs' = epochs + 1
  /\ bytes' = 0 /\ elapsed' = 0
  /\ sinceAdjust' = 0
  /\ Sent
  /\ UNCHANGED known
  /\ Wait

Tick ==
  /\ clock < MaxTime
  /\ clock' = clock + 1 /\ elapsed' = elapsed + 1
  /\ sinceAdjust' = IF sinceAdjust < AdjustEvery THEN sinceAdjust + 1 ELSE sinceAdjust
  /\ inTick' = 0
  /\ UNCHANGED <<pump, rate, bytes, known, total, epochs>>

\* sleep_until(target_time) returns.
Wake ==
  /\ pump = "asleep" /\ Fits(bytes, elapsed, rate)
  /\ pump' = "ready"
  /\ UNCHANGED <<rate, bytes, elapsed, sinceAdjust, known, inTick, clock, total, epochs>>

Next ==
  \/ Record
  \/ Adjust(Slower(rate)) \/ Adjust(Faster(rate))
  \/ Tick
  \/ Wake

Spec == Init /\ [][Next]_vars

-----------------------------------------------------------------------------
TypeOK ==
  /\ pump \in {"ready", "asleep"}
  /\ rate \in MinRate..MaxRate
  /\ bytes \in Nat /\ elapsed \in Nat /\ inTick \in Nat
  /\ sinceAdjust \in 0..AdjustEvery
  /\ known \in BOOLEAN
  /\ clock \in Nat /\ total \in Nat /\ epochs \in Nat

\* No packet makes a pump sleep for longer than that packet takes at the current
\* rate, which is at least half the target: a rate cut in the middle of a long
\* epoch does not stall the tunnel (quic.rs:97-111, :120-134).
SleepIsShort == bytes - Burst - elapsed * rate <= Packet

\* Every rate change starts an epoch with a burst of its own and forgets a packet
\* (quic.rs:97-111), so what an epoch is allowed says nothing of the whole.  Over any
\* length of time a pump sends what the target allows, and one burst and packet more for
\* its start and for each rate change; and these are 250 ms apart, however the losses
\* come and go (quic.rs:69-111, :113-135).
KeepsToTarget ==
  /\ total <= clock * MaxRate + (epochs + 1) * (Burst + Packet)
  /\ epochs * AdjustEvery <= clock

\* "Per-packet sleep was too coarse on macOS, so pacing uses a small burst budget"
\* (OPTIMIZATION_LOG.md:152), of 5 ms (:183): what goes out at once is the budget,
\* one packet and a tick's worth.
BurstIsSmall == inTick <= Burst + Packet + MaxRate
=============================================================================
