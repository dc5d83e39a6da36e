--------------------------- MODULE TokenRateLimit ---------------------------
(***************************************************************************)
(* UnifiedTokenRateLimitStrategy and SeparatedTokenRateLimitStrategy: a      *)
(* bucket of requests and one for each kind of tokens, all refilled over a   *)
(* minute.  The unified strategy has one kind, the total, and the separated  *)
(* one has two, input and output; their methods are otherwise the same.  A   *)
(* request takes from every bucket or from none.  The strategies are only    *)
(* used from the asyncio event loop, so each of their methods is one action. *)
(*                                                                         *)
(* Requests admitted and not yet settled are kept in "reserved", the client's *)
(* side of the protocol: a response settles a reservation once, and a         *)
(* reservation whose request failed is never settled.                        *)
(***************************************************************************)
EXTENDS RateLimitBucket

CONSTANTS
    Kinds,          \* the kinds of tokens with a bucket of their own
    RPM,            \* requests per minute
    TPM,            \* tokens per minute, of each kind
    Estimates,      \* token estimates a request may carry
    Actuals,        \* usage a provider may report for a response
    MaxTime,        \* bound on the clock
    MaxReserved     \* bound on the reservations outstanding per estimate

\* What a TokenEstimate says of each kind; total_tokens is the sum of the other two.
Tokens == [Kinds -> Nat]

ASSUME TokenAssumption ==
    /\ RPM \in Nat \ {0}
    /\ TPM \in [Kinds -> Nat \ {0}]
    /\ Estimates \subseteq Tokens
    /\ Actuals \subseteq Tokens
    /\ MaxTime \in Nat
    /\ MaxReserved \in Nat

VARIABLES
    now,            \* time.time()
    requests,       \* requests_bucket
    tokens,         \* unified_tokens_bucket, or input_tokens_bucket and output_tokens_bucket
    reserved,       \* reserved[e]: admitted requests of estimate e not yet settled
    result,         \* what the last check_and_consume_rate_limit call did
    \* History, for the properties only.
    admitted,       \* requests admitted so far
    charged,        \* tokens reserved so far less the tokens settled back
    mark            \* where a window of observation was opened

vars == <<now, requests, tokens, reserved, result, admitted, charged, mark>>

Init ==
    /\ now = 0
    /\ requests = NewBucket(RPM, 0)
    /\ tokens = [k \in Kinds |-> NewBucket(TPM[k], 0)]
    /\ reserved = [e \in Estimates |-> 0]
    /\ result = "none"
    /\ admitted = 0
    /\ charged = [k \in Kinds |-> 0]
    /\ mark = [time |-> 0, admitted |-> 0, charged |-> charged]

\* Mutant: one limit is checked, and not the other.
Impossible_OneKind(e) == LET k == CHOOSE k \in Kinds : TRUE IN TPM[k] < e[k]

\* _check_max_rate_limits
Impossible(e) == \E k \in Kinds : TPM[k] < e[k]

\* Mutant: one bucket is checked, and not the other.
HasCapacity_OneKind(e) ==
    /\ Available(requests, now) >= 1
    /\ LET k == CHOOSE k \in Kinds : TRUE IN Available(tokens[k], now) >= e[k]

HasCapacity(e) ==
    /\ Available(requests, now) >= 1
    /\ \A k \in Kinds : Available(tokens[k], now) >= e[k]

\* check_and_consume_rate_limit when the request could never fit.
RaiseTooLarge(e) ==
    /\ Impossible(e)
    /\ result' = "raised"
    /\ UNCHANGED <<now, requests, tokens, reserved, admitted, charged, mark>>

\* check_and_consume_rate_limit returning True.
Consume(e) ==
    /\ ~Impossible(e)
    /\ HasCapacity(e)
    /\ reserved[e] < MaxReserved
    /\ tokens' = [k \in Kinds |-> SetCapacity(tokens[k], Available(tokens[k], now) - e[k], now)]
    /\ requests' = SetCapacity(requests, Available(requests, now) - 1, now)
    /\ reserved' = [reserved EXCEPT ![e] = @ + 1]
    /\ result' = "admitted"
    /\ admitted' = admitted + 1
    /\ charged' = [k \in Kinds |-> charged[k] + e[k]]
    /\ UNCHANGED <<now, mark>>

\* check_and_consume_rate_limit returning False.
Deny(e) ==
    /\ ~Impossible(e)
    /\ ~HasCapacity(e)
    /\ result' = "denied"
    /\ UNCHANGED <<now, requests, tokens, reserved, admitted, charged, mark>>

\* Mutant: actual - reserved is taken for reserved - actual.
Settled_Swapped(b, delta) == Least(b.max, Greatest(0, Available(b, now) - delta))

\* The level settle writes to a bucket: refund or debit, clamped to 0..max.
Settled(b, delta) == Least(b.max, Greatest(0, Available(b, now) + delta))

\* settle(reserved, actual), for a reservation of some tokens.
Settle(e, a) ==
    /\ reserved[e] > 0
    /\ \E k \in Kinds : e[k] > 0
    /\ reserved' = [reserved EXCEPT ![e] = @ - 1]
    /\ tokens' = [k \in Kinds |-> SetCapacity(tokens[k], Settled(tokens[k], e[k] - a[k]), now)]
    /\ charged' = [k \in Kinds |-> charged[k] - Greatest(0, e[k] - a[k])]
    /\ UNCHANGED <<now, requests, result, admitted, mark>>

\* A request that ends without a response keeps what it reserved.
Forfeit(e) ==
    /\ reserved[e] > 0
    /\ reserved' = [reserved EXCEPT ![e] = @ - 1]
    /\ UNCHANGED <<now, requests, tokens, result, admitted, charged, mark>>

\* backoff(curr_time)
Backoff ==
    /\ tokens' = [k \in Kinds |-> SetCapacity(tokens[k], 0, now)]
    /\ requests' = SetCapacity(requests, 0, now)
    /\ UNCHANGED <<now, reserved, result, admitted, charged, mark>>

Tick ==
    /\ now < MaxTime
    /\ now' = now + 1
    /\ UNCHANGED <<requests, tokens, reserved, result, admitted, charged, mark>>

\* An observer opens a window; the bounds below are about every window.
OpenWindow ==
    /\ mark' = [time |-> now, admitted |-> admitted, charged |-> charged]
    /\ UNCHANGED <<now, requests, tokens, reserved, result, admitted, charged>>

Next ==
    \/ \E e \in Estimates :
        \/ RaiseTooLarge(e)
        \/ Consume(e)
        \/ Deny(e)
        \/ Forfeit(e)
        \/ \E a \in Actuals : Settle(e, a)
    \/ Backoff
    \/ Tick
    \/ OpenWindow

Spec == Init /\ [][Next]_vars

----------------------------------------------------------------------------
\* The buckets stay within 0..max and are never written in the future: no estimate takes
\* more than there is, and no refund gives more than fits.
TypeOK ==
    /\ now \in 0..MaxTime
    /\ requests \in BucketsOf(RPM, now)
    /\ DOMAIN tokens = Kinds /\ \A k \in Kinds : tokens[k] \in BucketsOf(TPM[k], now)
    /\ reserved \in [Estimates -> 0..MaxReserved]
    /\ result \in {"none", "admitted", "denied", "raised"}
    /\ admitted \in Nat
    /\ charged \in [Kinds -> Int]
    /\ mark \in [time : 0..now, admitted : 0..admitted, charged : [Kinds -> Int]]

\* What the window open since mark allows a bucket of this size: a full bucket and the
\* refill of the time elapsed, in units of 1/Minute of a request or token.
Allowance(max) == max * (Minute + (now - mark.time))

\* In any window the requests, and each kind of token net of what responses gave back, stay
\* within a full bucket of their own and its refill, whatever settle and backoff do in
\* between: a refund returns no more than the request had taken, a refund of one kind never
\* buys tokens of another, and no request takes from one bucket but not another.
WindowBounds ==
    /\ (admitted - mark.admitted) * Minute <= Allowance(RPM)
    /\ \A k \in Kinds : (charged[k] - mark.charged[k]) * Minute <= Allowance(TPM[k])

\* What keeps these bounds inductive: the credit a bucket still holds counts against the
\* window too.
WindowInvariant ==
    /\ (admitted - mark.admitted) * Minute + Credit(requests, now) <= Allowance(RPM)
    /\ \A k \in Kinds :
          (charged[k] - mark.charged[k]) * Minute + Credit(tokens[k], now) <= Allowance(TPM[k])

\* A request is denied only while some bucket is short: nothing that could ever fit is
\* starved by the fractions that writes drop, for a minute after the buckets were last
\* written every such estimate is admitted.
AdmissibleAfterAMinute ==
    (now - requests.last >= Minute /\ \A k \in Kinds : now - tokens[k].last >= Minute)
        => \A e \in Estimates : ~Impossible(e) => HasCapacity(e)
=============================================================================
