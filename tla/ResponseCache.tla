---------------------------- MODULE ResponseCache ----------------------------
(***************************************************************************)
(* What the users of the LLM response cache (_inference/cache/protocol.py)   *)
(* rely on: an entry may vanish at any time, but a lookup only ever returns  *)
(* what was last stored under that key in that namespace, and nothing that   *)
(* is older than the time to live.  An error may leave a namespace with work *)
(* that is neither committed nor undone: until that is over, a store that    *)
(* failed may still take effect, and a lookup may return an entry that was   *)
(* replaced, or is not committed yet.                                       *)
(***************************************************************************)
EXTENDS Integers

CONSTANTS Namespaces, Keys, Values, Threads, NsOf, None, TTL

VARIABLES
    entry,  \* the entry of each key in each namespace: what was stored, and when
    stored, \* all that was ever stored under each key in each namespace
    left,   \* the namespaces in which an error has left work behind
    seen,   \* what the last lookup of each thread returned
    now

rvars == <<entry, stored, left, seen, now>>

Nothing == [k \in Keys |-> None]

Init ==
    /\ entry = [n \in Namespaces |-> Nothing]
    /\ stored = [n \in Namespaces |-> [k \in Keys |-> {}]]
    /\ left = [n \in Namespaces |-> FALSE]
    /\ seen = [t \in Threads |-> Nothing]
    /\ now = 0

\* Work may be left behind in n, or may end.
Leaves(n) == \E b \in BOOLEAN : left' = [left EXCEPT ![n] = b]

\* The entries of n beyond those that are stored now: unchanged or gone, or what was left
\* behind takes effect.
Others(n, S) ==
    \A k \in Keys \ S :
        entry'[n][k] \in {entry[n][k], None} \cup (IF left[n] THEN stored[n][k] ELSE {})

\* Elsewhere entries only vanish.
Elsewhere(n) ==
    /\ DOMAIN entry' = Namespaces
    /\ \A m \in Namespaces :
          /\ DOMAIN entry'[m] = Keys
          /\ m # n => \A k \in Keys : entry'[m][k] \in {entry[m][k], None}

\* Store a response under some keys, all at once, or fail to.
Store(n) ==
    \E S \in SUBSET Keys, v \in Values :
        LET e == [value |-> v, at |-> now]
        IN  /\ stored' = [stored EXCEPT ![n] =
                  [k \in Keys |-> IF k \in S THEN stored[n][k] \cup {e} ELSE stored[n][k]]]
            /\ \/ (\A k \in S : entry'[n][k] = e) /\ Others(n, S) /\ Elsewhere(n)
               \/ entry' = entry
            /\ Leaves(n)
            /\ UNCHANGED <<seen, now>>

\* Entries vanish, and what was left behind may take effect.
Change(n) ==
    /\ Others(n, {}) /\ Elsewhere(n)
    /\ Leaves(n)
    /\ UNCHANGED <<stored, seen, now>>

Fresh(e) == e # None /\ e.at > now - TTL

\* A lookup returns some of the fresh entries asked for.
Lookup(t) ==
    LET n == NsOf[t]
    IN  /\ \A k \in Keys : seen'[t][k] # None =>
              \E e \in {entry[n][k]} \cup (IF left[n] THEN stored[n][k] ELSE {}) :
                  Fresh(e) /\ seen'[t][k] = e.value
        /\ \E f \in [Keys -> Values \cup {None}] : seen' = [seen EXCEPT ![t] = f]
        /\ UNCHANGED <<entry, stored, left, now>>

\* A lookup that fails.
LookupFails(t) ==
    /\ \E f \in {seen[t], Nothing} : seen' = [seen EXCEPT ![t] = f]
    /\ Leaves(NsOf[t])
    /\ UNCHANGED <<entry, stored, now>>

Tick ==
    /\ now' = now + 1
    /\ UNCHANGED <<entry, stored, left, seen>>

Next ==
    \/ \E n \in Namespaces : Store(n) \/ Change(n)
    \/ \E t \in Threads : Lookup(t) \/ LookupFails(t)
    \/ Tick

Spec == Init /\ [][Next]_rvars
=============================================================================
