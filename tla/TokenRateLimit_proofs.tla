----------------------- MODULE TokenRateLimit_proofs -----------------------
(***************************************************************************)
(* Requests and each kind of tokens keep their own rate, for any kinds of   *)
(* tokens, limits, estimates and responses, and for every window.           *)
(***************************************************************************)
EXTENDS TokenRateLimit, TLAPS

----------------------------------------------------------------------------
(* Arithmetic of the bucket, for every capacity and every length of the minute. *)

\* Flooring never rounds up: multiplying back gives at most what was divided.
LEMMA FloorBounds ==
    ASSUME NEW x \in Nat, NEW m \in Nat \ {0}
    PROVE  /\ x \div m \in Nat
           /\ (x \div m) * m <= x
           /\ x < (x \div m) * m + m
  OBVIOUS

\* The product of natural numbers is one.
LEMMA ProductNat ==
    ASSUME NEW x \in Nat, NEW y \in Nat
    PROVE  x * y \in Nat
  OBVIOUS

\* Multiplying by a natural number preserves the order.
LEMMA ProductMonotonic ==
    ASSUME NEW x \in Int, NEW y \in Int, NEW m \in Nat, x <= y
    PROVE  x * m <= y * m
  OBVIOUS

----------------------------------------------------------------------------
\* Reading a bucket gives between nothing and max, and never more than its credit.
LEMMA AvailableBounds ==
    ASSUME NEW max \in Nat, NEW t \in Nat, NEW b \in BucketsOf(max, t)
    PROVE  /\ Available(b, t) \in 0..max
           /\ Available(b, t) * Minute <= Credit(b, t)
  <1> DEFINE x == b.max * (t - b.last)
             r == x \div Minute
  <1>1. b.max = max /\ b.cap \in 0..max /\ b.last \in 0..t
    BY DEF BucketsOf
  <1>2. x \in Nat
    BY <1>1, ProductNat
  <1>3. r \in Nat /\ r * Minute <= x
    BY <1>2, FloorBounds, MinuteAssumption
  <1>4. Available(b, t) = Least(r + b.cap, max)
    BY <1>1 DEF Available, Replenished
  <1>5. Credit(b, t) = Least(b.cap * Minute + x, max * Minute)
    BY <1>1 DEF Credit
  <1> HIDE DEF x, r
  <1>6. Available(b, t) \in 0..max
    BY <1>1, <1>3, <1>4 DEF Least
  <1>7. Available(b, t) * Minute <= (r + b.cap) * Minute
    BY <1>1, <1>3, <1>4, ProductMonotonic, MinuteAssumption DEF Least
  <1>8. Available(b, t) * Minute <= max * Minute
    BY <1>6, ProductMonotonic, MinuteAssumption
  <1>9. (r + b.cap) * Minute = r * Minute + b.cap * Minute
    BY <1>1, <1>3, MinuteAssumption
  <1>10. /\ Available(b, t) * Minute \in Nat
         /\ b.cap * Minute \in Nat
         /\ max * Minute \in Nat
         /\ r * Minute \in Nat
    BY <1>1, <1>3, <1>6, MinuteAssumption, ProductNat
  <1> QED
    BY <1>2, <1>3, <1>5, <1>6, <1>7, <1>8, <1>9, <1>10 DEF Least

\* Credit is at most a full bucket, and time adds at most max to it per tick.
LEMMA CreditAccrues ==
    ASSUME NEW max \in Nat, NEW t \in Nat, NEW b \in BucketsOf(max, t)
    PROVE  /\ Credit(b, t) \in Int
           /\ Credit(b, t) <= max * Minute
           /\ Credit(b, t + 1) \in Int
           /\ Credit(b, t + 1) <= Credit(b, t) + max
  <1> DEFINE x == max * (t - b.last)
             y == max * (t + 1 - b.last)
  <1>1. b.max = max /\ b.cap \in 0..max /\ b.last \in 0..t
    BY DEF BucketsOf
  <1>2. x \in Int /\ y \in Int /\ y = x + max
    BY <1>1
  <1>3. b.cap * Minute \in Nat /\ max * Minute \in Nat
    BY <1>1, MinuteAssumption, ProductNat
  <1>4. Credit(b, t) = Least(b.cap * Minute + x, max * Minute)
    BY <1>1 DEF Credit
  <1>5. Credit(b, t + 1) = Least(b.cap * Minute + y, max * Minute)
    BY <1>1 DEF Credit
  <1> HIDE DEF x, y
  <1> QED
    BY <1>2, <1>3, <1>4, <1>5 DEF Least

\* A bucket just written is worth exactly what was written to it.
LEMMA CreditAfterWrite ==
    ASSUME NEW max \in Nat, NEW t \in Nat, NEW b, b.max = max, NEW c \in 0..max
    PROVE  /\ SetCapacity(b, c, t) \in BucketsOf(max, t)
           /\ Credit(SetCapacity(b, c, t), t) = c * Minute
  <1>1. SetCapacity(b, c, t) = [max |-> max, cap |-> c, last |-> t]
    BY DEF SetCapacity
  <1>2. max * (t - t) = 0
    OBVIOUS
  <1>3. c * Minute <= max * Minute /\ c * Minute \in Nat /\ max * Minute \in Nat
    BY ProductMonotonic, ProductNat, MinuteAssumption
  <1>4. Credit([max |-> max, cap |-> c, last |-> t], t) = Least(c * Minute + 0, max * Minute)
    BY <1>2 DEF Credit
  <1>5. [max |-> max, cap |-> c, last |-> t] \in BucketsOf(max, t)
    BY DEF BucketsOf
  <1> QED
    BY <1>1, <1>3, <1>4, <1>5 DEF Least

\* A new bucket is full.
LEMMA NewBucketFull ==
    ASSUME NEW max \in Nat, NEW t \in Nat
    PROVE  /\ NewBucket(max, t) \in BucketsOf(max, t)
           /\ Credit(NewBucket(max, t), t) = max * Minute
  <1>1. max * (t - t) = 0
    OBVIOUS
  <1>2. max * Minute \in Nat
    BY ProductNat, MinuteAssumption
  <1>3. Credit([max |-> max, cap |-> max, last |-> t], t) = Least(max * Minute + 0, max * Minute)
    BY <1>1 DEF Credit
  <1> QED
    BY <1>2, <1>3 DEF NewBucket, BucketsOf, Least

\* A minute after it was last written a bucket is full: what SetCapacity
\* dropped delays a refill, it never loses one.
LEMMA FullAfterMinute ==
    ASSUME NEW max \in Nat, NEW t \in Nat, NEW b \in BucketsOf(max, t),
           t - b.last >= Minute
    PROVE  Available(b, t) = max
  <1> DEFINE x == b.max * (t - b.last)
             r == x \div Minute
  <1>1. b.max = max /\ b.cap \in 0..max /\ b.last \in 0..t
    BY DEF BucketsOf
  <1>2. x \in Nat /\ max * Minute \in Nat
    BY <1>1, ProductNat, MinuteAssumption
  <1>3. max * Minute <= x
    <2>1. Minute * max <= (t - b.last) * max
      BY <1>1, ProductMonotonic, MinuteAssumption
    <2> QED
      BY <1>1, <2>1, MinuteAssumption
  <1>4. r \in Nat /\ x < r * Minute + Minute
    BY <1>2, FloorBounds, MinuteAssumption
  <1>5. max <= r
    <2>1. SUFFICES ASSUME r + 1 <= max PROVE FALSE
      BY <1>4
    <2>2. (r + 1) * Minute <= max * Minute
      BY <2>1, <1>4, ProductMonotonic, MinuteAssumption
    <2>3. (r + 1) * Minute = r * Minute + Minute /\ r * Minute \in Int
      BY <1>4, MinuteAssumption
    <2> HIDE DEF x, r
    <2> QED
      BY <1>2, <1>3, <1>4, <2>2, <2>3, MinuteAssumption
  <1>6. Available(b, t) = Least(r + b.cap, max)
    BY <1>1 DEF Available, Replenished
  <1> HIDE DEF x, r
  <1> QED
    BY <1>1, <1>4, <1>5, <1>6 DEF Least
----------------------------------------------------------------------------
(***************************************************************************)
(* The rate bound of a window.  "used" is what was taken from a bucket in   *)
(* the window, less what was returned, and A what the window allows, in    *)
(* units of 1/Minute: used * Minute + Credit(b, t) <= A survives a write    *)
(* that does not make more of what is left and what was used together, and *)
(* a tick that adds max to A; and it starts out true.                      *)
(***************************************************************************)

\* A write of c that leaves the window's use at "after", to the bucket or to one of
\* another size that takes its place.
LEMMA WindowReplace ==
    ASSUME NEW max \in Nat, NEW t \in Nat, NEW b \in BucketsOf(max, t),
           NEW used \in Int, NEW A \in Int, NEW after \in Int,
           NEW size \in Nat, NEW r, r.max = size, NEW c \in 0..size,
           used * Minute + Credit(b, t) <= A,
           c + after <= Available(b, t) + used
    PROVE  /\ SetCapacity(r, c, t) \in BucketsOf(size, t)
           /\ after * Minute + Credit(SetCapacity(r, c, t), t) <= A
  <1> DEFINE avail == Available(b, t)
  <1>1. /\ SetCapacity(r, c, t) \in BucketsOf(size, t)
        /\ Credit(SetCapacity(r, c, t), t) = c * Minute
    BY CreditAfterWrite
  <1>2. avail \in 0..max /\ avail * Minute <= Credit(b, t)
    BY AvailableBounds
  <1>3. Credit(b, t) \in Int
    BY CreditAccrues
  <1> HIDE DEF avail
  <1>4. (c + after) * Minute <= (avail + used) * Minute
    BY <1>2, ProductMonotonic, MinuteAssumption DEF avail
  <1>5. /\ (c + after) * Minute = c * Minute + after * Minute
        /\ (avail + used) * Minute = avail * Minute + used * Minute
    BY <1>2, MinuteAssumption
  <1>6. /\ c * Minute \in Int /\ avail * Minute \in Int
        /\ after * Minute \in Int /\ used * Minute \in Int
    BY <1>2, MinuteAssumption
  <1> QED
    BY <1>1, <1>2, <1>3, <1>4, <1>5, <1>6

\* A write that leaves the window's use at "after".
LEMMA WindowWrite ==
    ASSUME NEW max \in Nat, NEW t \in Nat, NEW b \in BucketsOf(max, t),
           NEW used \in Int, NEW A \in Int, NEW after \in Int, NEW c \in 0..max,
           used * Minute + Credit(b, t) <= A,
           c + after <= Available(b, t) + used
    PROVE  /\ SetCapacity(b, c, t) \in BucketsOf(max, t)
           /\ after * Minute + Credit(SetCapacity(b, c, t), t) <= A
  <1>1. b.max = max
    BY DEF BucketsOf
  <1> QED
    BY <1>1, WindowReplace

\* A tick refills at most what it adds to the window's allowance.
LEMMA WindowTick ==
    ASSUME NEW max \in Nat, NEW t \in Nat, NEW b \in BucketsOf(max, t),
           NEW used \in Int, NEW A \in Int,
           used * Minute + Credit(b, t) <= A
    PROVE  /\ b \in BucketsOf(max, t + 1)
           /\ used * Minute + Credit(b, t + 1) <= A + max
  <1>1. b \in BucketsOf(max, t + 1)
    BY DEF BucketsOf
  <1>2. /\ Credit(b, t) \in Int /\ Credit(b, t + 1) \in Int
        /\ Credit(b, t + 1) <= Credit(b, t) + max
    BY CreditAccrues
  <1>3. used * Minute \in Int
    BY MinuteAssumption
  <1> QED
    BY <1>1, <1>2, <1>3

\* A window that opens is allowed a full bucket.
LEMMA WindowOpens ==
    ASSUME NEW max \in Nat, NEW t \in Nat, NEW b \in BucketsOf(max, t), NEW used \in Int
    PROVE  (used - used) * Minute + Credit(b, t) <= max * (Minute + (t - t))
  <1>1. Credit(b, t) \in Int /\ Credit(b, t) <= max * Minute
    BY CreditAccrues
  <1>2. (used - used) * Minute = 0 /\ max * (Minute + (t - t)) = max * Minute
    BY MinuteAssumption
  <1>3. max * Minute \in Int
    BY MinuteAssumption
  <1> QED
    BY <1>1, <1>2, <1>3

\* The credit left in the bucket is not negative, so the use itself obeys the bound.
LEMMA WindowUseBounded ==
    ASSUME NEW max \in Nat, NEW t \in Nat, NEW b \in BucketsOf(max, t),
           NEW used \in Int, NEW A \in Int,
           used * Minute + Credit(b, t) <= A
    PROVE  used * Minute <= A
  <1>1. Available(b, t) \in 0..max /\ Available(b, t) * Minute <= Credit(b, t)
    BY AvailableBounds
  <1>2. Available(b, t) * Minute \in Nat
    BY <1>1, ProductNat, MinuteAssumption
  <1>3. Credit(b, t) \in Int /\ used * Minute \in Int
    BY CreditAccrues, MinuteAssumption
  <1> QED
    BY <1>1, <1>2, <1>3

----------------------------------------------------------------------------
(* The strategy. *)

\* The inductive invariant of the strategies.
IInv == TypeOK /\ WindowInvariant

\* What the window took from each bucket.
UsedRequests  == admitted - mark.admitted
UsedTokens(k) == charged[k] - mark.charged[k]

\* The types the arithmetic of the proofs rests on.
LEMMA Ranges ==
    ASSUME TypeOK
    PROVE  /\ now \in Nat /\ Minute \in Nat /\ mark.time \in 0..now
           /\ RPM \in Nat /\ requests \in BucketsOf(RPM, now)
           /\ admitted \in Int /\ UsedRequests \in Int
           /\ \A k \in Kinds : /\ TPM[k] \in Nat /\ tokens[k] \in BucketsOf(TPM[k], now)
                               /\ charged[k] \in Int /\ mark.charged[k] \in Int /\ UsedTokens(k) \in Int
           /\ \A max \in Nat : Allowance(max) \in Int
  <1>1. /\ now \in Nat /\ Minute \in Nat /\ mark.time \in 0..now
        /\ RPM \in Nat /\ requests \in BucketsOf(RPM, now)
        /\ admitted \in Int /\ mark.admitted \in Int
    BY TokenAssumption, MinuteAssumption DEF TypeOK
  <1>2. ASSUME NEW k \in Kinds
        PROVE  /\ TPM[k] \in Nat /\ tokens[k] \in BucketsOf(TPM[k], now)
               /\ charged[k] \in Int /\ mark.charged[k] \in Int
    BY TokenAssumption DEF TypeOK
  <1>3. ASSUME NEW max \in Nat PROVE Allowance(max) \in Int
    BY <1>1 DEF Allowance
  <1> QED
    BY <1>1, <1>2, <1>3 DEF UsedRequests, UsedTokens

\* What the estimates and responses are made of.
LEMMA Amounts ==
    /\ \A e \in Estimates, k \in Kinds : e[k] \in Nat
    /\ \A a \in Actuals, k \in Kinds : a[k] \in Nat
  BY TokenAssumption DEF Tokens

\* The invariant holds initially: the buckets are full and the window is empty.
LEMMA InitInv == Init => IInv
  <1> SUFFICES ASSUME Init PROVE IInv
    OBVIOUS
  <1> USE TokenAssumption, MinuteAssumption
  <1>1. /\ requests \in BucketsOf(RPM, 0)
        /\ (0 - 0) * Minute + Credit(requests, 0) <= RPM * (Minute + (0 - 0))
    BY NewBucketFull, WindowOpens DEF Init
  <1>2. ASSUME NEW k \in Kinds
        PROVE  /\ tokens[k] \in BucketsOf(TPM[k], 0)
               /\ (0 - 0) * Minute + Credit(tokens[k], 0) <= TPM[k] * (Minute + (0 - 0))
    BY NewBucketFull, WindowOpens DEF Init
  <1>3. TypeOK
    BY <1>1, <1>2 DEF Init, TypeOK
  <1>4. WindowInvariant
    BY <1>1, <1>2 DEF Init, WindowInvariant, Allowance
  <1> QED
    BY <1>3, <1>4 DEF IInv

\* A step that leaves clock, buckets and window alone preserves the invariant.
LEMMA IdleStep ==
    ASSUME IInv, UNCHANGED <<now, requests, tokens, admitted, charged, mark>>,
           reserved' \in [Estimates -> 0..MaxReserved],
           result' \in {"none", "admitted", "denied", "raised"}
    PROVE  IInv'
  BY DEF IInv, TypeOK, WindowInvariant, Allowance

\* The level settle writes fits the bucket and returns no more than was reserved.
LEMMA SettledBounds ==
    ASSUME NEW max \in Nat, NEW b \in BucketsOf(max, now), now \in Nat, NEW d \in Int
    PROVE  Settled(b, d) \in 0..max /\ Settled(b, d) <= Available(b, now) + Greatest(0, d)
  <1>1. b.max = max /\ Available(b, now) \in 0..max
    BY AvailableBounds DEF BucketsOf
  <1> QED
    BY <1>1 DEF Settled, Least, Greatest

\* Every step of a strategy preserves the invariant.
LEMMA NextInv == IInv /\ [Next]_vars => IInv'
  <1> SUFFICES ASSUME IInv, [Next]_vars PROVE IInv'
    OBVIOUS
  <1> DEFINE avail == Available(requests, now)
             Avail(k) == Available(tokens[k], now)
  <1>1. TypeOK
    BY DEF IInv
  <1>2. /\ avail \in 0..RPM
        /\ UsedRequests * Minute + Credit(requests, now) <= Allowance(RPM)
    BY <1>1, Ranges, AvailableBounds DEF IInv, WindowInvariant, UsedRequests
  <1>3. ASSUME NEW k \in Kinds
        PROVE  /\ Avail(k) \in 0..TPM[k]
               /\ UsedTokens(k) * Minute + Credit(tokens[k], now) <= Allowance(TPM[k])
    BY <1>1, Ranges, AvailableBounds DEF IInv, WindowInvariant, UsedTokens
  <1>4. ASSUME NEW e \in Estimates, RaiseTooLarge(e) \/ Deny(e) \/ Forfeit(e) PROVE IInv'
    BY <1>1, <1>4, IdleStep, TokenAssumption DEF TypeOK, RaiseTooLarge, Deny, Forfeit
  <1>5. ASSUME NEW e \in Estimates, Consume(e) PROVE IInv'
    <2>1. /\ now' = now /\ mark' = mark /\ admitted' = admitted + 1
          /\ charged' = [k \in Kinds |-> charged[k] + e[k]]
          /\ requests' = SetCapacity(requests, avail - 1, now)
          /\ tokens' = [k \in Kinds |-> SetCapacity(tokens[k], Avail(k) - e[k], now)]
      BY <1>5 DEF Consume
    <2>2. /\ requests' \in BucketsOf(RPM, now)
          /\ UsedRequests' * Minute + Credit(requests', now) <= Allowance(RPM)
      <3>1. avail - 1 \in 0..RPM
        BY <1>1, <1>2, <1>5, Ranges DEF Consume, HasCapacity
      <3>2. UsedRequests' = UsedRequests + 1
        BY <1>1, <2>1, Ranges DEF TypeOK, UsedRequests
      <3>3. UsedRequests' \in Int /\ (avail - 1) + UsedRequests' <= avail + UsedRequests
        BY <1>1, <1>2, <3>2, Ranges
      <3> QED
        BY <1>1, <1>2, <2>1, <3>1, <3>3, Ranges, WindowWrite
    <2>3. ASSUME NEW k \in Kinds
          PROVE  /\ tokens'[k] \in BucketsOf(TPM[k], now) /\ charged'[k] \in Int
                 /\ UsedTokens(k)' * Minute + Credit(tokens'[k], now) <= Allowance(TPM[k])
      <3>1. Avail(k) - e[k] \in 0..TPM[k]
        BY <1>1, <1>3, <1>5, Amounts, Ranges DEF Consume, HasCapacity
      <3>2. UsedTokens(k)' = UsedTokens(k) + e[k] /\ charged'[k] \in Int
        BY <1>1, <2>1, Amounts, Ranges DEF UsedTokens
      <3>3. UsedTokens(k)' \in Int /\ (Avail(k) - e[k]) + UsedTokens(k)' <= Avail(k) + UsedTokens(k)
        BY <1>1, <1>3, <3>2, Amounts, Ranges
      <3>4. tokens'[k] = SetCapacity(tokens[k], Avail(k) - e[k], now)
        BY <2>1
      <3> QED
        BY <1>1, <1>3, <3>1, <3>2, <3>3, <3>4, Ranges, WindowWrite
    <2>4. TypeOK'
      <3>1. charged' \in [Kinds -> Int] /\ DOMAIN tokens' = Kinds
        BY <2>1, <2>3
      <3> QED
        BY <1>1, <1>5, <2>1, <2>2, <2>3, <3>1, TokenAssumption DEF TypeOK, Consume
    <2> QED
      BY <2>1, <2>2, <2>3, <2>4 DEF IInv, WindowInvariant, Allowance, UsedRequests, UsedTokens
  <1>6. ASSUME NEW e \in Estimates, NEW a \in Actuals, Settle(e, a) PROVE IInv'
    <2>1. /\ now' = now /\ mark' = mark /\ requests' = requests /\ admitted' = admitted
          /\ charged' = [k \in Kinds |-> charged[k] - Greatest(0, e[k] - a[k])]
          /\ tokens' = [k \in Kinds |-> SetCapacity(tokens[k], Settled(tokens[k], e[k] - a[k]), now)]
      BY <1>6 DEF Settle
    <2>2. ASSUME NEW k \in Kinds
          PROVE  /\ tokens'[k] \in BucketsOf(TPM[k], now) /\ charged'[k] \in Int
                 /\ UsedTokens(k)' * Minute + Credit(tokens'[k], now) <= Allowance(TPM[k])
      <3> DEFINE d == e[k] - a[k]
                 back == Greatest(0, d)
                 level == Settled(tokens[k], d)
      <3>1. d \in Int /\ back \in Nat
        BY Amounts DEF Greatest
      <3>2. level \in 0..TPM[k] /\ level <= Avail(k) + back
        BY <1>1, <3>1, Ranges, SettledBounds
      <3>3. tokens'[k] = SetCapacity(tokens[k], level, now) /\ charged'[k] = charged[k] - back
        BY <2>1
      <3> HIDE DEF d, back, level
      <3>4. UsedTokens(k)' = UsedTokens(k) - back /\ charged'[k] \in Int
        BY <1>1, <2>1, <3>1, <3>3, Ranges DEF UsedTokens
      <3>5. UsedTokens(k)' \in Int /\ level + UsedTokens(k)' <= Avail(k) + UsedTokens(k)
        BY <1>1, <1>3, <3>1, <3>2, <3>4, Ranges
      <3>6. /\ now \in Nat /\ TPM[k] \in Nat /\ tokens[k] \in BucketsOf(TPM[k], now)
            /\ UsedTokens(k) \in Int /\ Allowance(TPM[k]) \in Int
        BY <1>1, Ranges
      <3>7. /\ SetCapacity(tokens[k], level, now) \in BucketsOf(TPM[k], now)
            /\ UsedTokens(k)' * Minute + Credit(SetCapacity(tokens[k], level, now), now) <= Allowance(TPM[k])
        BY <1>3, <3>2, <3>5, <3>6, WindowWrite
      <3> QED
        BY <3>3, <3>4, <3>7
    <2>3. TypeOK'
      <3>1. charged' \in [Kinds -> Int] /\ DOMAIN tokens' = Kinds
        BY <2>1, <2>2
      <3> QED
        BY <1>1, <1>6, <2>1, <2>2, <3>1, TokenAssumption DEF TypeOK, Settle
    <2> QED
      BY <1>2, <2>1, <2>2, <2>3 DEF IInv, WindowInvariant, Allowance, UsedRequests, UsedTokens
  <1>7. CASE Backoff
    <2>1. /\ now' = now /\ mark' = mark /\ charged' = charged /\ admitted' = admitted
          /\ requests' = SetCapacity(requests, 0, now)
          /\ tokens' = [k \in Kinds |-> SetCapacity(tokens[k], 0, now)]
      BY <1>7 DEF Backoff
    <2>2. /\ requests' \in BucketsOf(RPM, now)
          /\ UsedRequests * Minute + Credit(requests', now) <= Allowance(RPM)
      <3>1. 0 \in 0..RPM /\ 0 + UsedRequests <= avail + UsedRequests
        BY <1>1, <1>2, Ranges
      <3> QED
        BY <1>1, <1>2, <2>1, <3>1, Ranges, WindowWrite
    <2>3. ASSUME NEW k \in Kinds
          PROVE  /\ tokens'[k] \in BucketsOf(TPM[k], now)
                 /\ UsedTokens(k) * Minute + Credit(tokens'[k], now) <= Allowance(TPM[k])
      <3>1. 0 \in 0..TPM[k] /\ 0 + UsedTokens(k) <= Avail(k) + UsedTokens(k)
        BY <1>1, <1>3, Ranges
      <3>2. tokens'[k] = SetCapacity(tokens[k], 0, now)
        BY <2>1
      <3>3. /\ now \in Nat /\ TPM[k] \in Nat /\ tokens[k] \in BucketsOf(TPM[k], now)
            /\ UsedTokens(k) \in Int /\ Allowance(TPM[k]) \in Int
        BY <1>1, Ranges
      <3>4. /\ SetCapacity(tokens[k], 0, now) \in BucketsOf(TPM[k], now)
            /\ UsedTokens(k) * Minute + Credit(SetCapacity(tokens[k], 0, now), now) <= Allowance(TPM[k])
        BY <1>3, <3>1, <3>3, WindowWrite
      <3> QED
        BY <3>2, <3>4
    <2>4. TypeOK'
      BY <1>1, <1>7, <2>1, <2>2, <2>3 DEF TypeOK, Backoff
    <2> QED
      BY <2>1, <2>2, <2>3, <2>4 DEF IInv, WindowInvariant, Allowance, UsedRequests, UsedTokens
  <1>8. CASE Tick
    <2>1. /\ now' = now + 1 /\ mark' = mark /\ charged' = charged /\ admitted' = admitted
          /\ requests' = requests /\ tokens' = tokens
      BY <1>8 DEF Tick
    <2>2. ASSUME NEW max \in Nat PROVE Allowance(max)' = Allowance(max) + max
      <3>1. now \in Int /\ mark.time \in Int /\ Minute \in Int
        BY <1>1, Ranges
      <3> QED
        BY <2>1, <3>1 DEF Allowance
    <2>3. /\ requests \in BucketsOf(RPM, now + 1)
          /\ UsedRequests * Minute + Credit(requests, now + 1) <= Allowance(RPM)'
      BY <1>1, <1>2, <2>2, Ranges, WindowTick
    <2>4. ASSUME NEW k \in Kinds
          PROVE  /\ tokens[k] \in BucketsOf(TPM[k], now + 1)
                 /\ UsedTokens(k) * Minute + Credit(tokens[k], now + 1) <= Allowance(TPM[k])'
      BY <1>1, <1>3, <2>2, Ranges, WindowTick
    <2>5. TypeOK'
      BY <1>1, <1>8, <2>1, <2>3, <2>4, TokenAssumption DEF TypeOK, Tick
    <2>6. WindowInvariant'
      BY <2>1, <2>3, <2>4 DEF WindowInvariant, UsedRequests, UsedTokens
    <2> QED
      BY <2>5, <2>6 DEF IInv
  <1>9. CASE OpenWindow
    <2>1. /\ now' = now /\ admitted' = admitted /\ charged' = charged
          /\ requests' = requests /\ tokens' = tokens
          /\ mark' = [time |-> now, admitted |-> admitted, charged |-> charged]
      BY <1>9 DEF OpenWindow
    <2>2. (admitted - admitted) * Minute + Credit(requests, now) <= RPM * (Minute + (now - now))
      BY <1>1, Ranges, WindowOpens
    <2>3. ASSUME NEW k \in Kinds
          PROVE  (charged[k] - charged[k]) * Minute + Credit(tokens[k], now)
                    <= TPM[k] * (Minute + (now - now))
      BY <1>1, Ranges, WindowOpens
    <2>4. TypeOK'
      BY <1>1, <1>9, <2>1 DEF TypeOK, OpenWindow
    <2> QED
      BY <2>1, <2>2, <2>3, <2>4 DEF IInv, WindowInvariant, Allowance
  <1>10. CASE UNCHANGED vars
    BY <1>1, <1>10, IdleStep DEF TypeOK, vars
  <1> QED
    BY <1>4, <1>5, <1>6, <1>7, <1>8, <1>9, <1>10 DEF Next

\* IInv is an invariant of the strategies.
THEOREM Invariance == Spec => []IInv
  BY InitInv, NextInv, PTL DEF Spec

----------------------------------------------------------------------------
\* check_and_consume_rate_limit, settle and backoff never take a bucket out of 0..max or
\* stamp it with a future time.
THEOREM TypeCorrect == Spec => []TypeOK
  <1>1. IInv => TypeOK
    BY DEF IInv
  <1> QED
    BY <1>1, Invariance, PTL

\* The requests and each kind of tokens of any window keep their own bound, refunds of
\* settle included.
THEOREM RatesBounded == Spec => []WindowBounds
  <1>1. ASSUME IInv PROVE UsedRequests * Minute <= Allowance(RPM)
    BY <1>1, Ranges, WindowUseBounded DEF IInv, WindowInvariant, UsedRequests
  <1>2. ASSUME IInv, NEW k \in Kinds PROVE UsedTokens(k) * Minute <= Allowance(TPM[k])
    <2>1. UsedTokens(k) * Minute + Credit(tokens[k], now) <= Allowance(TPM[k])
      BY <1>2 DEF IInv, WindowInvariant, UsedTokens
    <2> QED
      BY <1>2, <2>1, Ranges, WindowUseBounded DEF IInv
  <1>3. IInv => WindowBounds
    BY <1>1, <1>2 DEF WindowBounds, UsedRequests, UsedTokens
  <1> QED
    BY <1>3, Invariance, PTL

\* A minute after the last write check_and_consume_rate_limit admits every request that can
\* ever fit.
THEOREM NeverStarved == Spec => []AdmissibleAfterAMinute
  <1>1. IInv => AdmissibleAfterAMinute
    <2> SUFFICES ASSUME IInv, now - requests.last >= Minute,
                        \A k \in Kinds : now - tokens[k].last >= Minute,
                        NEW e \in Estimates, ~Impossible(e)
                 PROVE  HasCapacity(e)
      BY DEF AdmissibleAfterAMinute
    <2>1. TypeOK
      BY DEF IInv
    <2>2. Available(requests, now) = RPM
      BY <2>1, Ranges, FullAfterMinute
    <2>3. ASSUME NEW k \in Kinds PROVE Available(tokens[k], now) >= e[k]
      <3>1. Available(tokens[k], now) = TPM[k]
        BY <2>1, Ranges, FullAfterMinute
      <3> QED
        BY <3>1, <2>1, Ranges, Amounts DEF Impossible
    <2> QED
      BY <2>2, <2>3, TokenAssumption DEF HasCapacity
  <1> QED
    BY <1>1, Invariance, PTL
=============================================================================
