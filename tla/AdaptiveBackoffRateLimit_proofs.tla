------------------ MODULE AdaptiveBackoffRateLimit_proofs ------------------
(***************************************************************************)
(* The adaptive limit for every rate, multiplier, increment and hint: the  *)
(* rpm and its bucket agree, the rate keeps to the limits in force, growth *)
(* is earned, and a window admits what its rates and hints allow.          *)
(***************************************************************************)
EXTENDS AdaptiveBackoffRateLimit, TLAPS

----------------------------------------------------------------------------
(* Arithmetic of the bucket, for every capacity and every length of the minute. *)

\* Flooring never rounds up: multiplying back gives at most what was divided.
LEMMA FloorBounds ==
    ASSUME NEW x \in Nat, NEW m \in Nat \ {0}
    PROVE  /\ x \div m \in Nat
           /\ (x \div m) * m <= x
           /\ x < (x \div m) * m + m
  OBVIOUS

\* The product of natural numbers is one.
LEMMA ProductNat ==
    ASSUME NEW x \in Nat, NEW y \in Nat
    PROVE  x * y \in Nat
  OBVIOUS

\* Multiplying by a natural number preserves the order.
LEMMA ProductMonotonic ==
    ASSUME NEW x \in Int, NEW y \in Int, NEW m \in Nat, x <= y
    PROVE  x * m <= y * m
  OBVIOUS

----------------------------------------------------------------------------
\* Reading a bucket gives between nothing and max, and never more than its credit.
LEMMA AvailableBounds ==
    ASSUME NEW max \in Nat, NEW t \in Nat, NEW b \in BucketsOf(max, t)
    PROVE  /\ Available(b, t) \in 0..max
           /\ Available(b, t) * Minute <= Credit(b, t)
  <1> DEFINE x == b.max * (t - b.last)
             r == x \div Minute
  <1>1. b.max = max /\ b.cap \in 0..max /\ b.last \in 0..t
    BY DEF BucketsOf
  <1>2. x \in Nat
    BY <1>1, ProductNat
  <1>3. r \in Nat /\ r * Minute <= x
    BY <1>2, FloorBounds, MinuteAssumption
  <1>4. Available(b, t) = Least(r + b.cap, max)
    BY <1>1 DEF Available, Replenished
  <1>5. Credit(b, t) = Least(b.cap * Minute + x, max * Minute)
    BY <1>1 DEF Credit
  <1> HIDE DEF x, r
  <1>6. Available(b, t) \in 0..max
    BY <1>1, <1>3, <1>4 DEF Least
  <1>7. Available(b, t) * Minute <= (r + b.cap) * Minute
    BY <1>1, <1>3, <1>4, ProductMonotonic, MinuteAssumption DEF Least
  <1>8. Available(b, t) * Minute <= max * Minute
    BY <1>6, ProductMonotonic, MinuteAssumption
  <1>9. (r + b.cap) * Minute = r * Minute + b.cap * Minute
    BY <1>1, <1>3, MinuteAssumption
  <1>10. /\ Available(b, t) * Minute \in Nat
         /\ b.cap * Minute \in Nat
         /\ max * Minute \in Nat
         /\ r * Minute \in Nat
    BY <1>1, <1>3, <1>6, MinuteAssumption, ProductNat
  <1> QED
    BY <1>2, <1>3, <1>5, <1>6, <1>7, <1>8, <1>9, <1>10 DEF Least

\* Credit is at most a full bucket, and time adds at most max to it per tick.
LEMMA CreditAccrues ==
    ASSUME NEW max \in Nat, NEW t \in Nat, NEW b \in BucketsOf(max, t)
    PROVE  /\ Credit(b, t) \in Int
           /\ Credit(b, t) <= max * Minute
           /\ Credit(b, t + 1) \in Int
           /\ Credit(b, t + 1) <= Credit(b, t) + max
  <1> DEFINE x == max * (t - b.last)
             y == max * (t + 1 - b.last)
  <1>1. b.max = max /\ b.cap \in 0..max /\ b.last \in 0..t
    BY DEF BucketsOf
  <1>2. x \in Int /\ y \in Int /\ y = x + max
    BY <1>1
  <1>3. b.cap * Minute \in Nat /\ max * Minute \in Nat
    BY <1>1, MinuteAssumption, ProductNat
  <1>4. Credit(b, t) = Least(b.cap * Minute + x, max * Minute)
    BY <1>1 DEF Credit
  <1>5. Credit(b, t + 1) = Least(b.cap * Minute + y, max * Minute)
    BY <1>1 DEF Credit
  <1> HIDE DEF x, y
  <1> QED
    BY <1>2, <1>3, <1>4, <1>5 DEF Least

\* A bucket just written is worth exactly what was written to it.
LEMMA CreditAfterWrite ==
    ASSUME NEW max \in Nat, NEW t \in Nat, NEW b, b.max = max, NEW c \in 0..max
    PROVE  /\ SetCapacity(b, c, t) \in BucketsOf(max, t)
           /\ Credit(SetCapacity(b, c, t), t) = c * Minute
  <1>1. SetCapacity(b, c, t) = [max |-> max, cap |-> c, last |-> t]
    BY DEF SetCapacity
  <1>2. max * (t - t) = 0
    OBVIOUS
  <1>3. c * Minute <= max * Minute /\ c * Minute \in Nat /\ max * Minute \in Nat
    BY ProductMonotonic, ProductNat, MinuteAssumption
  <1>4. Credit([max |-> max, cap |-> c, last |-> t], t) = Least(c * Minute + 0, max * Minute)
    BY <1>2 DEF Credit
  <1>5. [max |-> max, cap |-> c, last |-> t] \in BucketsOf(max, t)
    BY DEF BucketsOf
  <1> QED
    BY <1>1, <1>3, <1>4, <1>5 DEF Least

\* A new bucket is full.
LEMMA NewBucketFull ==
    ASSUME NEW max \in Nat, NEW t \in Nat
    PROVE  /\ NewBucket(max, t) \in BucketsOf(max, t)
           /\ Credit(NewBucket(max, t), t) = max * Minute
  <1>1. max * (t - t) = 0
    OBVIOUS
  <1>2. max * Minute \in Nat
    BY ProductNat, MinuteAssumption
  <1>3. Credit([max |-> max, cap |-> max, last |-> t], t) = Least(max * Minute + 0, max * Minute)
    BY <1>1 DEF Credit
  <1> QED
    BY <1>2, <1>3 DEF NewBucket, BucketsOf, Least

----------------------------------------------------------------------------
(***************************************************************************)
(* The rate bound of a window.  "used" is what was taken from a bucket in   *)
(* the window, less what was returned, and A what the window allows, in    *)
(* units of 1/Minute: used * Minute + Credit(b, t) <= A survives a write    *)
(* that does not make more of what is left and what was used together, and *)
(* a tick that adds max to A; and it starts out true.                      *)
(***************************************************************************)

\* A write of c that leaves the window's use at "after", to the bucket or to one of
\* another size that takes its place.
LEMMA WindowReplace ==
    ASSUME NEW max \in Nat, NEW t \in Nat, NEW b \in BucketsOf(max, t),
           NEW used \in Int, NEW A \in Int, NEW after \in Int,
           NEW size \in Nat, NEW r, r.max = size, NEW c \in 0..size,
           used * Minute + Credit(b, t) <= A,
           c + after <= Available(b, t) + used
    PROVE  /\ SetCapacity(r, c, t) \in BucketsOf(size, t)
           /\ after * Minute + Credit(SetCapacity(r, c, t), t) <= A
  <1> DEFINE avail == Available(b, t)
  <1>1. /\ SetCapacity(r, c, t) \in BucketsOf(size, t)
        /\ Credit(SetCapacity(r, c, t), t) = c * Minute
    BY CreditAfterWrite
  <1>2. avail \in 0..max /\ avail * Minute <= Credit(b, t)
    BY AvailableBounds
  <1>3. Credit(b, t) \in Int
    BY CreditAccrues
  <1> HIDE DEF avail
  <1>4. (c + after) * Minute <= (avail + used) * Minute
    BY <1>2, ProductMonotonic, MinuteAssumption DEF avail
  <1>5. /\ (c + after) * Minute = c * Minute + after * Minute
        /\ (avail + used) * Minute = avail * Minute + used * Minute
    BY <1>2, MinuteAssumption
  <1>6. /\ c * Minute \in Int /\ avail * Minute \in Int
        /\ after * Minute \in Int /\ used * Minute \in Int
    BY <1>2, MinuteAssumption
  <1> QED
    BY <1>1, <1>2, <1>3, <1>4, <1>5, <1>6

\* A write that leaves the window's use at "after".
LEMMA WindowWrite ==
    ASSUME NEW max \in Nat, NEW t \in Nat, NEW b \in BucketsOf(max, t),
           NEW used \in Int, NEW A \in Int, NEW after \in Int, NEW c \in 0..max,
           used * Minute + Credit(b, t) <= A,
           c + after <= Available(b, t) + used
    PROVE  /\ SetCapacity(b, c, t) \in BucketsOf(max, t)
           /\ after * Minute + Credit(SetCapacity(b, c, t), t) <= A
  <1>1. b.max = max
    BY DEF BucketsOf
  <1> QED
    BY <1>1, WindowReplace

\* A tick refills at most what it adds to the window's allowance.
LEMMA WindowTick ==
    ASSUME NEW max \in Nat, NEW t \in Nat, NEW b \in BucketsOf(max, t),
           NEW used \in Int, NEW A \in Int,
           used * Minute + Credit(b, t) <= A
    PROVE  /\ b \in BucketsOf(max, t + 1)
           /\ used * Minute + Credit(b, t + 1) <= A + max
  <1>1. b \in BucketsOf(max, t + 1)
    BY DEF BucketsOf
  <1>2. /\ Credit(b, t) \in Int /\ Credit(b, t + 1) \in Int
        /\ Credit(b, t + 1) <= Credit(b, t) + max
    BY CreditAccrues
  <1>3. used * Minute \in Int
    BY MinuteAssumption
  <1> QED
    BY <1>1, <1>2, <1>3

\* The credit left in the bucket is not negative, so the use itself obeys the bound.
LEMMA WindowUseBounded ==
    ASSUME NEW max \in Nat, NEW t \in Nat, NEW b \in BucketsOf(max, t),
           NEW used \in Int, NEW A \in Int,
           used * Minute + Credit(b, t) <= A
    PROVE  used * Minute <= A
  <1>1. Available(b, t) \in 0..max /\ Available(b, t) * Minute <= Credit(b, t)
    BY AvailableBounds
  <1>2. Available(b, t) * Minute \in Nat
    BY <1>1, ProductNat, MinuteAssumption
  <1>3. Credit(b, t) \in Int /\ used * Minute \in Int
    BY CreditAccrues, MinuteAssumption
  <1> QED
    BY <1>1, <1>2, <1>3

----------------------------------------------------------------------------
(* The strategy. *)

\* What growth relies on: successes never exceed the admissions since the rate last
\* moved, and no hint was received as long as none is recorded.
GrowthInvariant ==
    /\ successes <= streak
    /\ hint = NoHint => hinted = 0

\* The inductive invariant of the strategy.
IInv == TypeOK /\ RateWithinLimits /\ GrowthInvariant /\ WindowInvariant

\* Requests admitted in the window.
Used == admitted - mark.admitted

\* The types the arithmetic of the proofs rests on.
LEMMA Ranges ==
    ASSUME TypeOK
    PROVE  /\ now \in Nat /\ Minute \in Nat /\ PeakRPM \in Nat
           /\ rpm \in 1..PeakRPM /\ rpm \in Nat
           /\ bucket \in BucketsOf(rpm, now) /\ bucket.max = rpm
           /\ hinted \in Int /\ mark.hinted \in Int /\ mark.time \in Int
           /\ admitted \in Nat /\ Used \in Int /\ Allowance \in Int
  <1>1. /\ now \in Nat /\ Minute \in Nat /\ PeakRPM \in Nat
        /\ rpm \in 1..PeakRPM
        /\ bucket \in BucketsOf(rpm, now)
        /\ hinted \in Int /\ mark.hinted \in Int /\ mark.time \in Int
        /\ admitted \in Nat /\ mark.admitted \in Int
    BY AdaptiveAssumption, MinuteAssumption DEF TypeOK
  <1>2. bucket.max = rpm
    BY <1>1 DEF BucketsOf
  <1>3. Minute * (1 + (hinted - mark.hinted)) \in Int
    BY <1>1
  <1>4. Allowance \in Int
    BY <1>1, <1>3 DEF Allowance
  <1> QED
    BY <1>1, <1>2, <1>4 DEF Used

\* What one more hint adds to the allowance of a window, and what a tick does.
LEMMA AllowanceGrows ==
    ASSUME NEW p \in Int, NEW m \in Int, NEW h \in Int, NEW t \in Int
    PROVE  /\ p * (m * (1 + (h + 1)) + t) = p * (m * (1 + h) + t) + p * m
           /\ p * (m * (1 + h) + (t + 1)) = p * (m * (1 + h) + t) + p
  <1> DEFINE w == m * (1 + h) + t
  <1>1. w \in Int /\ m * (1 + (h + 1)) + t = w + m /\ m * (1 + h) + (t + 1) = w + 1
    OBVIOUS
  <1> HIDE DEF w
  <1>2. p * (w + m) = p * w + p * m /\ p * (w + 1) = p * w + p
    BY <1>1
  <1> QED
    BY <1>1, <1>2 DEF w

\* A fraction below one of a rate is at most the rate.
LEMMA FractionBelow ==
    ASSUME NEW x \in Nat
    PROVE  (x * MultNum) \div MultDen \in Nat /\ (x * MultNum) \div MultDen <= x
  <1> DEFINE y == x * MultNum
             q == y \div MultDen
  <1>1. MultNum \in Nat /\ MultDen \in Nat \ {0} /\ MultNum <= MultDen
    BY AdaptiveAssumption
  <1>2. y \in Nat
    BY <1>1, ProductNat
  <1>3. q \in Nat /\ q * MultDen <= y
    BY <1>1, <1>2, FloorBounds
  <1>4. y <= x * MultDen
    <2>1. MultNum * x <= MultDen * x
      BY <1>1, ProductMonotonic
    <2> QED
      BY <1>1, <2>1
  <1> HIDE DEF y, q
  <1>5. ASSUME x + 1 <= q PROVE FALSE
    <2>1. (x + 1) * MultDen <= q * MultDen
      BY <1>1, <1>3, <1>5, ProductMonotonic
    <2>2. (x + 1) * MultDen = x * MultDen + MultDen /\ x * MultDen \in Nat /\ q * MultDen \in Nat
      BY <1>1, <1>3, ProductNat
    <2> QED
      BY <1>1, <1>2, <1>3, <1>4, <2>1, <2>2
  <1>6. q \in Nat /\ q <= x
    BY <1>3, <1>5
  <1> QED
    BY <1>6 DEF q, y

\* The rate a backoff leaves is a rate, and within the limits in force.
LEMMA BackedOffBounds ==
    ASSUME TypeOK, RateWithinLimits
    PROVE  /\ BackedOff \in 1..PeakRPM
           /\ hint # NoHint => BackedOff <= hint
           /\ hint = NoHint => BackedOff <= Greatest(StartRPM, MaxRPM)
  <1>1. rpm \in 1..PeakRPM /\ hint \in Hints \cup {NoHint}
    BY DEF TypeOK
  <1>2. CASE hint # NoHint
    BY <1>1, <1>2, AdaptiveAssumption DEF BackedOff
  <1>3. CASE hint = NoHint
    <2> DEFINE q == (rpm * MultNum) \div MultDen
    <2>1. q \in Nat /\ q <= rpm
      BY <1>1, FractionBelow, AdaptiveAssumption
    <2>2. BackedOff = Greatest(MinRPM, q)
      BY <1>3 DEF BackedOff
    <2> HIDE DEF q
    <2> QED
      BY <1>1, <1>3, <2>1, <2>2, AdaptiveAssumption DEF RateWithinLimits, Greatest
  <1> QED
    BY <1>2, <1>3

\* The invariant holds initially: a full bucket at the starting rate, no hint.
LEMMA InitInv == Init => IInv
  <1> SUFFICES ASSUME Init PROVE IInv
    OBVIOUS
  <1>1. StartRPM \in 1..PeakRPM /\ StartRPM \in Nat /\ MaxRPM \in Nat /\ PeakRPM \in Nat
        /\ Minute \in Nat
    BY AdaptiveAssumption, MinuteAssumption
  <1>2. bucket \in BucketsOf(StartRPM, 0) /\ Credit(bucket, 0) = StartRPM * Minute
    BY <1>1, NewBucketFull DEF Init
  <1>3. TypeOK
    <2>1. 0 \in 0..MaxTime /\ 0 \in 0..MaxHints /\ StartRPM \in 1..PeakRPM
      BY AdaptiveAssumption
    <2>2. mark \in [time : 0..0, admitted : 0..0, hinted : 0..0]
      BY DEF Init
    <2> QED
      BY <1>2, <2>1, <2>2 DEF Init, TypeOK, NoRetry
  <1>4. RateWithinLimits /\ GrowthInvariant
    BY <1>1 DEF Init, RateWithinLimits, GrowthInvariant, Greatest
  <1>5. WindowInvariant
    <2>1. StartRPM * Minute <= PeakRPM * Minute
      BY <1>1, ProductMonotonic
    <2>2. (0 - 0) * Minute + StartRPM * Minute <= PeakRPM * (Minute * (1 + (0 - 0)) + (0 - 0))
      BY <1>1, <2>1
    <2> QED
      BY <1>2, <2>2 DEF Init, WindowInvariant, Allowance
  <1> QED
    BY <1>3, <1>4, <1>5 DEF IInv

\* Every step of the strategy preserves the invariant.
LEMMA NextInv == IInv /\ [Next]_vars => IInv'
  <1> SUFFICES ASSUME IInv, [Next]_vars PROVE IInv'
    OBVIOUS
  <1> DEFINE avail == Available(bucket, now)
  <1>1. TypeOK /\ RateWithinLimits /\ GrowthInvariant
    BY DEF IInv
  <1>2. Used * Minute + Credit(bucket, now) <= Allowance
    BY DEF IInv, WindowInvariant, Used
  <1>3. avail \in 0..rpm
    BY <1>1, Ranges, AvailableBounds
  <1>4. CASE Consume
    <2>1. /\ now' = now /\ mark' = mark /\ hint' = hint /\ hinted' = hinted
          /\ admitted' = admitted + 1 /\ result' = "admitted"
          /\ cooldown' = cooldown /\ onCooldown' = FALSE
          /\ avail - 1 \in 0..rpm
      BY <1>1, <1>3, <1>4, Ranges DEF Consume, CanSend
    <2>2. /\ Used' = Used + 1 /\ Used' \in Int
          /\ Allowance' = Allowance
          /\ mark \in [time : 0..now, admitted : 0..(admitted + 1), hinted : 0..hinted]
      BY <1>1, <2>1, Ranges DEF Used, Allowance, TypeOK
    <2>3. CASE MayGrow
      <3> DEFINE c == Carried(avail - 1)
      <3>1. /\ rpm' = Grown /\ successes' = 0 /\ streak' = 0
            /\ bucket' = SetCapacity(NewBucket(Grown, now), c, now)
        BY <1>4, <2>3 DEF Consume
      <3>2. /\ Grown \in 1..PeakRPM /\ Grown \in Nat
            /\ Grown <= MaxRPM
            /\ c \in 0..Grown /\ c <= avail - 1
        BY <1>1, <1>3, <2>1, Ranges, AdaptiveAssumption DEF Grown, Carried, Least
      <3> HIDE DEF c
      <3>3. NewBucket(Grown, now).max = Grown
        BY DEF NewBucket
      <3>4. c + Used' <= avail + Used
        BY <1>1, <1>3, <2>2, <3>2, Ranges
      <3>5. /\ bucket' \in BucketsOf(Grown, now)
            /\ Used' * Minute + Credit(bucket', now) <= Allowance
        BY <1>1, <1>2, <2>2, <3>1, <3>2, <3>3, <3>4, Ranges, WindowReplace
      <3>6. TypeOK'
        <4>1. admitted' \in Nat
          BY <1>1, <2>1, Ranges
        <4> QED
          BY <1>1, <2>1, <2>2, <3>1, <3>2, <3>5, <4>1 DEF TypeOK
      <3>7. RateWithinLimits' /\ GrowthInvariant'
        BY <1>1, <2>1, <2>3, <3>1, <3>2, AdaptiveAssumption
        DEF RateWithinLimits, GrowthInvariant, MayGrow, Greatest
      <3> QED
        BY <2>1, <2>2, <3>5, <3>6, <3>7 DEF IInv, WindowInvariant, Used
    <2>4. CASE ~MayGrow
      <3>1. /\ rpm' = rpm /\ streak' = streak + 1
            /\ successes' = IF hint = NoHint THEN successes + 1 ELSE 0
            /\ bucket' = SetCapacity(bucket, avail - 1, now)
        BY <1>4, <2>4 DEF Consume
      <3>2. (avail - 1) + Used' <= avail + Used
        BY <1>1, <1>3, <2>2, Ranges
      <3>3. /\ bucket' \in BucketsOf(rpm, now)
            /\ Used' * Minute + Credit(bucket', now) <= Allowance
        BY <1>1, <1>2, <2>1, <2>2, <3>1, <3>2, Ranges, WindowWrite
      <3>4. TypeOK'
        <4>1. admitted' \in Nat /\ successes' \in Nat /\ streak' \in Nat
          BY <1>1, <2>1, <3>1 DEF TypeOK
        <4> QED
          BY <1>1, <2>1, <2>2, <3>1, <3>3, <4>1 DEF TypeOK
      <3>5. RateWithinLimits' /\ GrowthInvariant'
        BY <1>1, <2>1, <3>1 DEF RateWithinLimits, GrowthInvariant, TypeOK
      <3> QED
        BY <2>1, <2>2, <3>3, <3>4, <3>5 DEF IInv, WindowInvariant, Used
    <2> QED
      BY <2>3, <2>4
  <1>5. CASE Deny
    BY <1>1, <1>5
    DEF IInv, TypeOK, RateWithinLimits, GrowthInvariant, WindowInvariant, Allowance, Deny
  <1>6. CASE RegisterHint
    <2>1. /\ now' = now /\ mark' = mark /\ admitted' = admitted
          /\ successes' = successes /\ streak' = streak /\ result' = result
      BY <1>6 DEF RegisterHint
    <2>2. cooldown' \in Nat /\ onCooldown' \in BOOLEAN
      <3>1. (\E d \in Delays : HintRetry(d)) \/ UNCHANGED <<cooldown, onCooldown>>
        BY <1>6 DEF RegisterHint
      <3>2. ASSUME NEW d \in Delays, HintRetry(d) PROVE cooldown' \in Nat /\ onCooldown' = TRUE
        BY <1>1, <3>2, Ranges, AdaptiveAssumption DEF HintRetry
      <3> QED
        BY <1>1, <3>1, <3>2 DEF TypeOK
    <2>3. ASSUME NEW h \in Hints, HintRate(h) PROVE IInv'
      <3>1. /\ h \in 1..PeakRPM /\ h # NoHint
            /\ hint' = h /\ hinted' = hinted + 1 /\ hinted' \in 0..MaxHints
            /\ rpm' = Least(rpm, h) /\ bucket' = NewBucket(rpm', now)
        BY <1>1, <2>3, AdaptiveAssumption DEF HintRate, TypeOK, NoHint
      <3>2. rpm' \in 1..PeakRPM /\ rpm' \in Nat /\ rpm' <= h
        BY <1>1, <3>1, Ranges DEF Least
      <3>3. bucket' \in BucketsOf(rpm', now) /\ Credit(bucket', now) = rpm' * Minute
        BY <1>1, <3>1, <3>2, Ranges, NewBucketFull
      <3>4. mark \in [time : 0..now, admitted : 0..admitted, hinted : 0..hinted']
        BY <1>1, <3>1 DEF TypeOK
      <3>5. TypeOK'
        BY <1>1, <2>1, <2>2, <3>1, <3>2, <3>3, <3>4 DEF TypeOK
      <3>6. RateWithinLimits' /\ GrowthInvariant'
        BY <1>1, <2>1, <3>1, <3>2 DEF RateWithinLimits, GrowthInvariant
      <3>7. Used * Minute <= Allowance /\ Used * Minute \in Int
        BY <1>1, <1>2, Ranges, WindowUseBounded
      <3>8. rpm' * Minute <= PeakRPM * Minute /\ rpm' * Minute \in Int /\ PeakRPM * Minute \in Int
        BY <1>1, <3>2, Ranges, ProductMonotonic
      <3>9. Allowance' = Allowance + PeakRPM * Minute
        <4>1. now \in Int /\ mark.time \in Int /\ hinted \in Int /\ mark.hinted \in Int
              /\ PeakRPM \in Int /\ Minute \in Int
          BY <1>1, Ranges
        <4>2. hinted' - mark'.hinted = (hinted - mark.hinted) + 1
          BY <2>1, <3>1, <4>1
        <4>3. hinted - mark.hinted \in Int /\ now - mark.time \in Int
          BY <4>1
        <4> QED
          BY <2>1, <4>1, <4>2, <4>3, AllowanceGrows DEF Allowance
      <3>10. Used * Minute + Credit(bucket', now) <= Allowance'
        BY <1>1, <3>3, <3>7, <3>8, <3>9, Ranges
      <3> QED
        BY <2>1, <3>5, <3>6, <3>10 DEF IInv, WindowInvariant, Used
    <2>4. CASE UNCHANGED <<hint, rpm, bucket, hinted>>
      BY <1>1, <2>1, <2>2, <2>4
      DEF IInv, TypeOK, RateWithinLimits, GrowthInvariant, WindowInvariant, Allowance
    <2> QED
      BY <1>6, <2>3, <2>4 DEF RegisterHint
  <1>7. CASE Backoff
    <2>1. /\ now' = now /\ mark' = mark /\ admitted' = admitted
          /\ hint' = hint /\ hinted' = hinted
          /\ rpm' = BackedOff /\ successes' = 0 /\ streak' = 0
          /\ bucket' = SetCapacity(Resized(bucket, BackedOff), 0, now)
      BY <1>7 DEF Backoff
    <2>2. /\ BackedOff \in 1..PeakRPM /\ BackedOff \in Nat
          /\ 0 \in 0..BackedOff /\ 0 + Used <= avail + Used
      BY <1>1, <1>3, Ranges, BackedOffBounds
    <2>3. Resized(bucket, BackedOff).max = BackedOff
      BY DEF Resized, NewBucket
    <2>4. /\ bucket' \in BucketsOf(BackedOff, now)
          /\ Used * Minute + Credit(bucket', now) <= Allowance
      BY <1>1, <1>2, <2>1, <2>2, <2>3, Ranges, WindowReplace
    <2>5. TypeOK'
      BY <1>1, <1>7, <2>1, <2>2, <2>4 DEF TypeOK, Backoff
    <2>6. RateWithinLimits' /\ GrowthInvariant'
      BY <1>1, <2>1, BackedOffBounds DEF RateWithinLimits, GrowthInvariant
    <2> QED
      BY <2>1, <2>4, <2>5, <2>6 DEF IInv, WindowInvariant, Used, Allowance
  <1>8. CASE Tick
    <2>1. /\ now' = now + 1 /\ mark' = mark /\ admitted' = admitted
          /\ hint' = hint /\ hinted' = hinted /\ rpm' = rpm /\ bucket' = bucket
          /\ successes' = successes /\ streak' = streak
      BY <1>8 DEF Tick
    <2>2. /\ bucket \in BucketsOf(rpm, now + 1)
          /\ Used * Minute + Credit(bucket, now + 1) <= Allowance + rpm
      BY <1>1, <1>2, Ranges, WindowTick
    <2>3. Allowance' = Allowance + PeakRPM
      <3>1. now \in Int /\ mark.time \in Int /\ hinted \in Int /\ mark.hinted \in Int
            /\ PeakRPM \in Int /\ Minute \in Int
        BY <1>1, Ranges
      <3>2. now' - mark'.time = (now - mark.time) + 1
        BY <2>1, <3>1
      <3>3. hinted - mark.hinted \in Int /\ now - mark.time \in Int
        BY <3>1
      <3> QED
        BY <2>1, <3>1, <3>2, <3>3, AllowanceGrows DEF Allowance
    <2>4. TypeOK'
      BY <1>1, <1>8, <2>1, <2>2, AdaptiveAssumption DEF TypeOK, Tick
    <2>5. RateWithinLimits' /\ GrowthInvariant'
      BY <1>1, <2>1 DEF RateWithinLimits, GrowthInvariant
    <2>6. Used * Minute + Credit(bucket, now + 1) <= Allowance'
      <3>1. Credit(bucket, now + 1) \in Int /\ Used * Minute \in Int
        BY <1>1, Ranges, CreditAccrues
      <3> QED
        BY <1>1, <2>2, <2>3, <3>1, Ranges
    <2> QED
      BY <2>1, <2>4, <2>5, <2>6 DEF IInv, WindowInvariant, Used
  <1>9. CASE OpenWindow
    <2>1. /\ mark' = [time |-> now, admitted |-> admitted, hinted |-> hinted]
          /\ UNCHANGED <<now, rpm, bucket, successes, hint, cooldown, onCooldown, result,
                         admitted, streak, hinted>>
      BY <1>9 DEF OpenWindow
    <2>2. TypeOK' /\ RateWithinLimits' /\ GrowthInvariant'
      BY <1>1, <2>1 DEF TypeOK, RateWithinLimits, GrowthInvariant
    <2>3. /\ Credit(bucket, now) \in Int /\ Credit(bucket, now) <= rpm * Minute
          /\ rpm * Minute <= PeakRPM * Minute
          /\ rpm * Minute \in Int /\ PeakRPM * Minute \in Int
      BY <1>1, Ranges, CreditAccrues, ProductMonotonic
    <2>4. /\ (admitted - admitted) * Minute = 0
          /\ PeakRPM * (Minute * (1 + (hinted - hinted)) + (now - now)) = PeakRPM * Minute
      BY <1>1, Ranges
    <2>5. (admitted - admitted) * Minute + Credit(bucket, now)
              <= PeakRPM * (Minute * (1 + (hinted - hinted)) + (now - now))
      BY <2>3, <2>4
    <2> QED
      BY <2>1, <2>2, <2>5 DEF IInv, WindowInvariant, Allowance
  <1>10. CASE UNCHANGED vars
    BY <1>1, <1>10
    DEF IInv, TypeOK, RateWithinLimits, GrowthInvariant, WindowInvariant, Allowance, vars
  <1> QED
    BY <1>4, <1>5, <1>6, <1>7, <1>8, <1>9, <1>10 DEF Next

\* IInv is an invariant of the strategy.
THEOREM Invariance == Spec => []IInv
  BY InitInv, NextInv, PTL DEF Spec

----------------------------------------------------------------------------
\* The rpm and the size of its bucket agree, and the bucket stays within it.
THEOREM TypeCorrect == Spec => []TypeOK
  <1>1. IInv => TypeOK
    BY DEF IInv
  <1> QED
    BY <1>1, Invariance, PTL

\* The rate keeps to the last hint or, before any, to the start and the maximum.
THEOREM RateLimited == Spec => []RateWithinLimits
  <1>1. IInv => RateWithinLimits
    BY DEF IInv
  <1> QED
    BY <1>1, Invariance, PTL

\* A window admits one burst at the peak rate, one more for each hint, and the refill.
THEOREM WindowBounded == Spec => []WindowBound
  <1>1. IInv => WindowBound
    <2> SUFFICES ASSUME IInv PROVE Used * Minute <= Allowance
      BY DEF WindowBound, Used
    <2> QED
      BY Ranges, WindowUseBounded DEF IInv, WindowInvariant, Used
  <1> QED
    BY <1>1, Invariance, PTL

\* Growth takes a full run of admissions since the rate last moved, and no hint.
THEOREM GrowthEarned == Spec => GrowthIsEarned
  <1>1. ASSUME IInv, [Next]_vars, rpm' > rpm, admitted' > admitted
        PROVE  streak + 1 >= IncreaseAfter /\ hinted = 0
    <2>1. TypeOK /\ GrowthInvariant
      BY <1>1 DEF IInv
    <2>2. rpm \in Int /\ admitted \in Int
      BY <2>1, Ranges
    <2>3. Consume
      BY <1>1, <2>2 DEF Next, Deny, RegisterHint, Backoff, Tick, OpenWindow, vars
    <2>4. MayGrow
      BY <1>1, <2>2, <2>3 DEF Consume
    <2> QED
      BY <2>1, <2>4, AdaptiveAssumption DEF MayGrow, GrowthInvariant, TypeOK
  <1>2. IInv /\ [Next]_vars
            => [rpm' > rpm /\ admitted' > admitted
                   => streak + 1 >= IncreaseAfter /\ hinted = 0]_vars
    BY <1>1
  <1> QED
    BY <1>2, Invariance, PTL DEF Spec, GrowthIsEarned
=============================================================================
