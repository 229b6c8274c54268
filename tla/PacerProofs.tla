---------------------------- MODULE PacerProofs -----------------------------
(***************************************************************************)
(* The egress pacer keeps its promises at every rate, burst, packet size   *)
(* and adjustment interval.  A packet is only taken when the epoch's bytes *)
(* are within the budget, so it can exceed it by itself alone; the time    *)
(* that passes only adds to the budget; and a new rate starts a new epoch, *)
(* where the old bytes do not count: they are paid for by the time of the  *)
(* old one, and one burst and packet.                                      *)
(***************************************************************************)
EXTENDS Pacer, TLAPS

\* A pump that is ready for a packet has kept to its budget.
WithinBudget == pump = "ready" => bytes <= elapsed * rate + Burst

IInv == TypeOK /\ WithinBudget /\ SleepIsShort

\* The two rate changes stay between the limits.
LEMMA RatesBounded ==
  /\ MinRate \in Nat \ {0} /\ MinRate <= MaxRate
  /\ \A r \in MinRate..MaxRate : Slower(r) \in MinRate..MaxRate /\ Faster(r) \in MinRate..MaxRate
  BY PacerAssumption DEF MinRate, Slower, Faster

\* A tick adds a tick's worth of bytes to what the epoch allows.
LEMMA TickAllowance ==
  ASSUME NEW e \in Nat, NEW r \in Nat
  PROVE  /\ e * r \in Nat
         /\ (e + 1) * r = e * r + r
         /\ 0 * r = 0
  OBVIOUS

\* A new pacer is within its budget.
LEMMA InitIInv == Init => IInv
<1> SUFFICES ASSUME Init PROVE IInv
  OBVIOUS
<1>0. known \in BOOLEAN
  BY Zenon DEF Init
<1>1. TypeOK
  BY <1>0, RatesBounded, PacerAssumption DEF Init, TypeOK
<1>2. elapsed * rate = 0
  BY <1>1, TickAllowance, RatesBounded DEF Init, TypeOK
<1>. QED
  BY <1>1, <1>2, PacerAssumption DEF Init, IInv, WithinBudget, SleepIsShort

\* Every step of the pump, and the passing of time, preserves the invariant
\* (quic.rs:56-135).
THEOREM Inductive == IInv /\ [Next]_vars => IInv'
<1> SUFFICES ASSUME IInv, [Next]_vars PROVE IInv'
  OBVIOUS
<1> USE DEF IInv
<1>0. /\ rate \in Nat /\ elapsed \in Nat /\ bytes \in Nat /\ inTick \in Nat
      /\ elapsed * rate \in Nat /\ clock \in Nat /\ total \in Nat /\ epochs \in Nat
  BY RatesBounded, TickAllowance DEF TypeOK
<1> USE DEF Sent
<1>1. CASE Record
  <2>0. known' \in BOOLEAN
    BY <1>1, Zenon DEF Record, TypeOK
  <2>1. TypeOK'
    BY <1>0, <1>1, <2>0, PacerAssumption DEF Record, Wait, TypeOK
  <2>2. bytes <= elapsed * rate + Burst /\ elapsed' * rate' = elapsed * rate
    BY <1>1 DEF Record, WithinBudget
  <2>3. WithinBudget'
    BY <1>1 DEF Record, Wait, Fits, WithinBudget
  <2>4. SleepIsShort'
    BY <1>0, <1>1, <2>2, PacerAssumption DEF Record, SleepIsShort
  <2>. QED
    BY <2>1, <2>3, <2>4
<1>2. ASSUME NEW next \in {Slower(rate), Faster(rate)}, Adjust(next) PROVE IInv'
  <2>1. rate' \in MinRate..MaxRate
    BY <1>2, RatesBounded DEF Adjust, TypeOK
  <2>2. TypeOK'
    BY <1>0, <1>2, <2>1, PacerAssumption DEF Adjust, Wait, TypeOK
  <2>3. elapsed' * rate' = 0
    BY <1>2, <2>1, RatesBounded, TickAllowance DEF Adjust
  <2>4. WithinBudget'
    BY <1>2 DEF Adjust, Wait, Fits, WithinBudget
  <2>5. SleepIsShort'
    BY <1>2, <2>3, PacerAssumption DEF Adjust, SleepIsShort
  <2>. QED
    BY <2>2, <2>4, <2>5
<1>3. CASE Tick
  <2>1. TypeOK'
    BY <1>0, <1>3, PacerAssumption DEF Tick, TypeOK
  <2>2. elapsed' * rate' = elapsed * rate + rate
    BY <1>0, <1>3, TickAllowance DEF Tick
  <2>3. WithinBudget'
    BY <1>0, <1>3, <2>2, PacerAssumption DEF Tick, WithinBudget
  <2>4. SleepIsShort'
    BY <1>0, <1>3, <2>2, PacerAssumption DEF Tick, SleepIsShort
  <2>. QED
    BY <2>1, <2>3, <2>4
<1>4. CASE Wake
  BY <1>4 DEF Wake, Fits, TypeOK, WithinBudget, SleepIsShort
<1>5. CASE UNCHANGED vars
  BY <1>5 DEF vars, TypeOK, WithinBudget, SleepIsShort
<1>. QED
  BY <1>1, <1>2, <1>3, <1>4, <1>5 DEF Next

\* The rate stays between half the target and the target, whatever the losses.
THEOREM TypeCorrect == Spec => []TypeOK
<1>1. IInv => TypeOK
  BY DEF IInv
<1>. QED
  BY <1>1, InitIInv, Inductive, PTL DEF Spec

\* No packet makes a pump sleep longer than the packet takes at the current rate.
THEOREM ShortSleep == Spec => []SleepIsShort
<1>1. IInv => SleepIsShort
  BY DEF IInv
<1>. QED
  BY <1>1, InitIInv, Inductive, PTL DEF Spec
-----------------------------------------------------------------------------
(* The pacer over many epochs.                                             *)

\* Each closed epoch kept to the target and its own burst and packet.
PaidFor ==
  /\ elapsed <= clock
  /\ total - bytes <= (clock - elapsed) * MaxRate + epochs * (Burst + Packet)

\* Rate changes are AdjustEvery ticks apart.
Spaced == epochs * AdjustEvery + sinceAdjust <= clock

LongInv == IInv /\ PaidFor /\ Spaced

\* What an epoch sends at its rate it could have sent at the target.
LEMMA TargetAllows ==
  ASSUME NEW e \in Nat, NEW r \in Nat, NEW m \in Nat, r <= m
  PROVE  e * r <= e * m
<1>1. e * m - e * r = e * (m - r) /\ m - r \in Nat
  OBVIOUS
<1>2. e * (m - r) >= 0
  BY <1>1
<1> QED
  BY <1>1, <1>2

\* One more rate change, or one more tick, in the two products.
LEMMA OneMore ==
  ASSUME NEW n \in Int, NEW k \in Int
  PROVE  (n + 1) * k = n * k + k /\ n * k \in Int
  OBVIOUS

\* A pump that starts owes nothing.
LEMMA LongInitInv == Init => LongInv
<1> SUFFICES ASSUME Init PROVE LongInv
  OBVIOUS
<1>1. IInv
  BY InitIInv
<1>2. /\ clock = 0 /\ total = 0 /\ epochs = 0
      /\ elapsed = 0 /\ bytes = 0 /\ sinceAdjust = 0
  BY DEF Init
<1>3. 0 * MaxRate = 0 /\ 0 * (Burst + Packet) = 0 /\ 0 * AdjustEvery = 0
  BY PacerAssumption
<1>4. PaidFor
  BY <1>2, <1>3 DEF PaidFor
<1>5. Spaced
  BY <1>2, <1>3 DEF Spaced
<1> QED
  BY <1>1, <1>4, <1>5 DEF LongInv

\* One step per action, with what it adds to the two accounts.
LEMMA LongNextInv == LongInv /\ [Next]_vars => LongInv'
<1> SUFFICES ASSUME LongInv, [Next]_vars PROVE LongInv'
  OBVIOUS
<1> USE DEF Sent
<1>1. IInv /\ IInv'
  BY Inductive DEF LongInv
<1>2. /\ rate \in Nat /\ rate <= MaxRate /\ elapsed \in Nat /\ bytes \in Nat
      /\ sinceAdjust \in Nat /\ elapsed * rate \in Nat
      /\ clock \in Nat /\ total \in Nat /\ epochs \in Nat /\ elapsed <= clock
      /\ MaxRate \in Nat /\ Burst \in Nat /\ Packet \in Nat /\ AdjustEvery \in Nat
  BY <1>1, RatesBounded, TickAllowance, PacerAssumption DEF LongInv, IInv, TypeOK, PaidFor
<1> DEFINE share == Burst + Packet
<1>3. /\ total - bytes <= (clock - elapsed) * MaxRate + epochs * share
      /\ epochs * AdjustEvery + sinceAdjust <= clock
      /\ (clock - elapsed) * MaxRate \in Int /\ epochs * share \in Int /\ epochs * AdjustEvery \in Int
  BY <1>2 DEF LongInv, PaidFor, Spaced
<1>4. CASE Tick
  <2>1. clock' - elapsed' = clock - elapsed /\ elapsed' <= clock'
    BY <1>2, <1>4 DEF Tick
  <2>2. PaidFor'
    BY <1>2, <1>3, <1>4, <2>1 DEF PaidFor, Tick
  <2>3. Spaced'
    BY <1>2, <1>3, <1>4 DEF Tick, Spaced, LongInv
  <2> QED
    BY <1>1, <2>2, <2>3 DEF LongInv
<1>5. CASE Record
  <2>1. /\ total' - bytes' = total - bytes /\ total' \in Nat
        /\ elapsed' = elapsed /\ sinceAdjust' \in {sinceAdjust, 0}
    BY <1>2, <1>5 DEF Record
  <2>2. PaidFor'
    BY <1>2, <1>3, <1>5, <2>1 DEF PaidFor, Record
  <2>3. epochs' * AdjustEvery + sinceAdjust' <= clock'
    <3>1. epochs' * AdjustEvery = epochs * AdjustEvery /\ clock' = clock
      BY <1>5 DEF Record
    <3>2. sinceAdjust' \in Nat /\ sinceAdjust' <= sinceAdjust
      BY <1>2, <2>1
    <3> QED
      BY <1>2, <1>3, <3>1, <3>2
  <2> QED
    BY <1>1, <2>2, <2>3 DEF LongInv, Spaced
<1>6. CASE Adjust(Slower(rate)) \/ Adjust(Faster(rate))
  <2>1. /\ pump = "ready" /\ sinceAdjust = AdjustEvery
        /\ bytes' = 0 /\ elapsed' = 0 /\ sinceAdjust' = 0
        /\ total' = total + Packet /\ epochs' = epochs + 1 /\ clock' = clock
    BY <1>6 DEF Adjust, Adjusts
  <2>2. bytes <= elapsed * rate + Burst
    BY <1>1, <2>1 DEF IInv, WithinBudget
  <2>3. elapsed * rate <= elapsed * MaxRate /\ elapsed * MaxRate \in Nat
    BY <1>2, TargetAllows
  <2>4. clock' * MaxRate = (clock - elapsed) * MaxRate + elapsed * MaxRate
    BY <1>2, <2>1
  <2>5. epochs' * share = epochs * share + share
    BY <1>2, <2>1, OneMore
  <2>6. epochs' * AdjustEvery = epochs * AdjustEvery + AdjustEvery
    BY <1>2, <2>1, OneMore
  <2>7. total' <= clock' * MaxRate + epochs' * share
    BY <1>2, <1>3, <2>1, <2>2, <2>3, <2>4, <2>5
  <2>8. PaidFor'
    BY <1>2, <2>1, <2>7 DEF PaidFor
  <2>9. Spaced'
    BY <1>2, <1>3, <2>1, <2>6 DEF Spaced
  <2> QED
    BY <1>1, <2>8, <2>9 DEF LongInv
<1>7. CASE Wake
  BY <1>1, <1>7 DEF Wake, LongInv, PaidFor, Spaced
<1>8. CASE UNCHANGED vars
  BY <1>1, <1>8 DEF vars, LongInv, PaidFor, Spaced
<1> QED
  BY <1>4, <1>5, <1>6, <1>7, <1>8 DEF Next

\* Over any length of time a pump sends what the target rate allows, and one burst
\* and packet more for its start and for every rate change, which are at least 250 ms
\* apart: however the losses come and go, the epochs an adaptive pacer opens never add
\* up to more than that (quic.rs:56-135).
THEOREM LongRun == Spec => []KeepsToTarget
<1>1. ASSUME LongInv PROVE KeepsToTarget
  <2>1. /\ rate \in Nat /\ rate <= MaxRate /\ elapsed \in Nat /\ bytes \in Nat
        /\ sinceAdjust \in Nat /\ elapsed * rate \in Nat
        /\ clock \in Nat /\ total \in Nat /\ epochs \in Nat /\ elapsed <= clock
        /\ MaxRate \in Nat /\ Burst \in Nat /\ Packet \in Nat /\ AdjustEvery \in Nat
    BY <1>1, RatesBounded, TickAllowance, PacerAssumption DEF LongInv, IInv, TypeOK, PaidFor
  <2>2. bytes <= elapsed * rate + Burst + Packet
    BY <1>1, <2>1 DEF LongInv, IInv, SleepIsShort
  <2>3. elapsed * rate <= elapsed * MaxRate /\ elapsed * MaxRate \in Nat
    BY <2>1, TargetAllows
  <2>4. clock * MaxRate = (clock - elapsed) * MaxRate + elapsed * MaxRate
    BY <2>1
  <2>5. (epochs + 1) * (Burst + Packet) = epochs * (Burst + Packet) + (Burst + Packet)
    BY <2>1, OneMore
  <2>6. /\ total - bytes <= (clock - elapsed) * MaxRate + epochs * (Burst + Packet)
        /\ (clock - elapsed) * MaxRate \in Int /\ epochs * (Burst + Packet) \in Int
    BY <1>1, <2>1 DEF LongInv, PaidFor
  <2>7. total <= clock * MaxRate + (epochs + 1) * (Burst + Packet)
    BY <2>1, <2>2, <2>3, <2>4, <2>5, <2>6
  <2>8. epochs * AdjustEvery <= clock
    BY <1>1, <2>1 DEF LongInv, Spaced
  <2> QED
    BY <2>7, <2>8 DEF KeepsToTarget
<1> QED
  BY <1>1, LongInitInv, LongNextInv, PTL DEF Spec
=============================================================================
