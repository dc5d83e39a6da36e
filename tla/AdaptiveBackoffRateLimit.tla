---------------------- MODULE AdaptiveBackoffRateLimit ----------------------
(***************************************************************************)
(* AdaptiveBackoffRateLimitStrategy: a bucket of requests whose size, the  *)
(* rpm, moves.  A backoff shrinks it, a run of admissions grows it, and a  *)
(* provider's hint caps it and may forbid sending before a given time.     *)
(* The strategy is used from the event loop only; a method is one action.  *)
(***************************************************************************)
EXTENDS RateLimitBucket

CONSTANTS
    StartRPM,               \* rpm
    MinRPM,                 \* min_rpm, already raised to 1
    MaxRPM,                 \* max_rpm, already raised to min_rpm
    MultNum, MultDen,       \* backoff_multiplier, as a fraction
    Increment,              \* additive_increment
    IncreaseAfter,          \* increase_after_successes
    Hints,                  \* rpm hints a provider may give
    Delays,                 \* how far ahead a provider may set its retry time
    PeakRPM,                \* an upper bound on all the rates above
    MaxTime,                \* bound on the clock
    MaxHints                \* bound on the hints received

ASSUME AdaptiveAssumption ==
    /\ {StartRPM, MinRPM, MaxRPM} \subseteq 1..PeakRPM
    /\ PeakRPM \in Nat
    /\ MinRPM <= MaxRPM
    /\ MultNum \in Nat \ {0} /\ MultDen \in Nat /\ MultNum < MultDen
    /\ Increment \in Nat \ {0}
    /\ IncreaseAfter \in Nat \ {0}
    /\ Hints \subseteq 1..PeakRPM
    /\ Delays \subseteq Nat
    /\ MaxTime \in Nat
    /\ MaxHints \in Nat

NoHint  == 0        \* _rpm_hint is None
NoRetry == 0        \* _cooldown_until at the start

VARIABLES
    now,            \* time.time()
    rpm,
    bucket,         \* requests_bucket
    successes,      \* _consecutive_successes
    hint,           \* _rpm_hint
    cooldown,       \* _cooldown_until
    onCooldown,     \* _on_cooldown
    result,         \* what the last check_and_consume_rate_limit call returned
    \* History, for the properties only.
    admitted,       \* requests admitted so far
    streak,         \* requests admitted since the rate last moved or was backed off
    hinted,         \* rpm hints received so far
    mark            \* where a window of observation was opened

vars == <<now, rpm, bucket, successes, hint, cooldown, onCooldown, result,
          admitted, streak, hinted, mark>>

Init ==
    /\ now = 0
    /\ rpm = StartRPM
    /\ bucket = NewBucket(StartRPM, 0)
    /\ successes = 0
    /\ hint = NoHint
    /\ cooldown = NoRetry
    /\ onCooldown = FALSE
    /\ result = "none"
    /\ admitted = 0
    /\ streak = 0
    /\ hinted = 0
    /\ mark = [time |-> 0, admitted |-> 0, hinted |-> 0]

\* The size of the step up: _record_success_and_maybe_grow.
Grown == Least(MaxRPM, rpm + Increment)

\* Mutant: a provider's hint does not stop the growth.
MayGrow_IgnoresHint ==
    /\ successes + 1 >= IncreaseAfter
    /\ rpm < MaxRPM

\* Mutant: one admission too early.
MayGrow_Early ==
    /\ hint = NoHint
    /\ successes + 2 >= IncreaseAfter
    /\ rpm < MaxRPM

MayGrow ==
    /\ hint = NoHint
    /\ successes + 1 >= IncreaseAfter
    /\ rpm < MaxRPM

CanSend ==
    /\ now >= cooldown
    /\ Available(bucket, now) >= 1

\* Mutant: growing starts with a full bucket.
Carried_Full(left) == Grown

\* What a bucket that grows keeps of what it held.
Carried(left) == Least(left, Grown)

\* check_and_consume_rate_limit returning True, and the growth it may trigger.
Consume ==
    /\ CanSend
    /\ result' = "admitted"
    /\ onCooldown' = FALSE
    /\ admitted' = admitted + 1
    /\ LET left == Available(bucket, now) - 1
       IN  \/ /\ MayGrow
              /\ rpm' = Grown
              /\ bucket' = SetCapacity(NewBucket(Grown, now), Carried(left), now)
              /\ successes' = 0
              /\ streak' = 0
           \/ /\ ~MayGrow
              /\ bucket' = SetCapacity(bucket, left, now)
              /\ successes' = IF hint = NoHint THEN successes + 1 ELSE 0
              /\ streak' = streak + 1
              /\ UNCHANGED rpm
    /\ UNCHANGED <<now, hint, cooldown, hinted, mark>>

\* check_and_consume_rate_limit returning False.
Deny ==
    /\ ~CanSend
    /\ result' = "denied"
    /\ UNCHANGED <<now, rpm, bucket, successes, hint, cooldown, onCooldown,
                   admitted, streak, hinted, mark>>

\* register_rate_limit_hint(h, None): the bucket is replaced by a full one.
HintRate(h) ==
    /\ hinted < MaxHints
    /\ hint' = h
    /\ rpm' = Least(rpm, h)
    /\ bucket' = NewBucket(rpm', now)
    /\ hinted' = hinted + 1

\* register_rate_limit_hint(None, now + d)
HintRetry(d) ==
    /\ now + d > 0
    /\ cooldown' = now + d
    /\ onCooldown' = TRUE

\* register_rate_limit_hint with either value or both.
RegisterHint ==
    /\ \/ /\ \E h \in Hints : HintRate(h)
          /\ (\E d \in Delays : HintRetry(d)) \/ UNCHANGED <<cooldown, onCooldown>>
       \/ /\ \E d \in Delays : HintRetry(d)
          /\ UNCHANGED <<hint, rpm, bucket, hinted>>
    /\ UNCHANGED <<now, successes, result, admitted, streak, mark>>

\* The rate after a backoff: the provider's hint, or a fraction of the current rate.
BackedOff ==
    IF hint # NoHint THEN hint ELSE Greatest(MinRPM, (rpm * MultNum) \div MultDen)

\* Mutant: the bucket is not replaced.
Resized_Kept(b, max) == b

\* A change of rate replaces the bucket.
Resized(b, max) == IF b.max = max THEN b ELSE NewBucket(max, now)

\* backoff(curr_time): resize, and empty the bucket.
Backoff ==
    /\ rpm' = BackedOff
    /\ bucket' = SetCapacity(Resized(bucket, BackedOff), 0, now)
    /\ successes' = 0
    /\ streak' = 0
    /\ UNCHANGED <<now, hint, cooldown, onCooldown, result, admitted, hinted, mark>>

Tick ==
    /\ now < MaxTime
    /\ now' = now + 1
    /\ UNCHANGED <<rpm, bucket, successes, hint, cooldown, onCooldown, result,
                   admitted, streak, hinted, mark>>

\* An observer opens a window; the bounds below are about every window.
OpenWindow ==
    /\ mark' = [time |-> now, admitted |-> admitted, hinted |-> hinted]
    /\ UNCHANGED <<now, rpm, bucket, successes, hint, cooldown, onCooldown, result,
                   admitted, streak, hinted>>

Next == Consume \/ Deny \/ RegisterHint \/ Backoff \/ Tick \/ OpenWindow

Spec == Init /\ [][Next]_vars

----------------------------------------------------------------------------
\* rpm and its bucket always agree: three methods resize one and must replace the other.
TypeOK ==
    /\ now \in 0..MaxTime
    /\ rpm \in 1..PeakRPM
    /\ bucket \in BucketsOf(rpm, now)
    /\ successes \in Nat
    /\ hint \in Hints \cup {NoHint}
    /\ cooldown \in Nat
    /\ onCooldown \in BOOLEAN
    /\ result \in {"none", "admitted", "denied"}
    /\ admitted \in Nat
    /\ streak \in Nat
    /\ hinted \in 0..MaxHints
    /\ mark \in [time : 0..now, admitted : 0..admitted, hinted : 0..hinted]

\* No sequence of backoffs, growth and hints takes the rate above what the provider
\* last hinted or, before any hint, above the larger of the start and the maximum.
RateWithinLimits ==
    /\ hint # NoHint => rpm <= hint
    /\ hint = NoHint => rpm <= Greatest(StartRPM, MaxRPM)

\* The rate grows with an admission only if the configured number of admissions came
\* since the rate was last grown or backed off, and never once a provider gave a hint.
GrowthIsEarned ==
    [][rpm' > rpm /\ admitted' > admitted =>
          streak + 1 >= IncreaseAfter /\ hinted = 0]_vars

\* What the window open since mark allows: a full bucket at the highest rate, one
\* more for each hint received in it, and the refill of the time elapsed.
Allowance ==
    PeakRPM * (Minute * (1 + (hinted - mark.hinted)) + (now - mark.time))

WindowInvariant ==
    (admitted - mark.admitted) * Minute + Credit(bucket, now) <= Allowance

\* However the rate moves, a window admits no more than that: growing, or emptying
\* and refilling, never hands out a second burst; only a hint does.
WindowBound == (admitted - mark.admitted) * Minute <= Allowance
=============================================================================
