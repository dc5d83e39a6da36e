-------------------------- MODULE RateLimitBucket --------------------------
(***************************************************************************)
(* The token bucket every rate limit strategy is built from (class         *)
(* RateLimitBucket).  A bucket is a value: its capacity is refilled lazily, *)
(* from the time elapsed since it was last written, each time it is read.  *)
(*                                                                         *)
(* Time is counted in ticks and a minute lasts Minute ticks.  The code's   *)
(* clock is a float; what matters to the bucket is math.floor of the       *)
(* refill, which a tick shorter than one unit of capacity reproduces.      *)
(***************************************************************************)
EXTENDS Integers

CONSTANT Minute       \* ticks in MINUTE_IN_SECONDS
ASSUME MinuteAssumption == Minute \in Nat \ {0}

Least(a, b)    == IF a <= b THEN a ELSE b
Greatest(a, b) == IF a >= b THEN a ELSE b

\* The buckets of a given size that may exist at time t.
BucketsOf(max, t) == [max : {max}, cap : 0..max, last : 0..t]

NewBucket(max, t) == [max |-> max, cap |-> max, last |-> t]

Replenished(b, t) == (b.max * (t - b.last)) \div Minute

\* _get_available_capacity: reads, never writes.
Available(b, t) == Least(Replenished(b, t) + b.cap, b.max)

\* _set_capacity: the fraction of a unit refilled since b.last is dropped.
SetCapacity(b, capacity, t) == [max |-> b.max, cap |-> capacity, last |-> t]

----------------------------------------------------------------------------
(***************************************************************************)
(* The credit of a bucket, in units of 1/Minute of a token so that it is an *)
(* integer: what it holds and what has accrued since it was written.  It   *)
(* is the measure the rate bounds of the strategies are stated with; the   *)
(* code never computes it.                                                 *)
(***************************************************************************)
Credit(b, t) == Least(b.cap * Minute + b.max * (t - b.last), b.max * Minute)
=============================================================================
