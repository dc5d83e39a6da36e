---------------------------- MODULE SQLiteLLMCache ----------------------------
(***************************************************************************)
(* SQLiteLLMCache (_inference/cache/sqlite_cache.py): each session has a     *)
(* cache with a namespace and a small pool of connections; all caches of a   *)
(* machine share one database file.  Threads call the operations.           *)
(*                                                                         *)
(* Connections are of isolation level DEFERRED, and no error handler rolls   *)
(* back: what a failing statement or commit leaves of its transaction stays  *)
(* on the connection when it goes back to the pool.  A write and the commit  *)
(* after it are one step: no other writer gets in between, and nobody sees   *)
(* the write before.  The size of the file is abstracted: whether it is      *)
(* over its limit is either way.  Statistics are left out, and so is stats,  *)
(* which only reads.                                                        *)
(***************************************************************************)
EXTENDS Integers, FiniteSets

CONSTANTS
    Caches,         \* the caches, each its own namespace
    Threads,
    CacheOf,        \* the cache each thread uses
    Keys,
    Values,
    None,
    MaxConnections, \* max_connections, 3 by default
    EvictShare,     \* the tenth of the entries that is evicted, 10 in the code
    TTL,            \* ttl_seconds
    MaxTime,        \* bound on the clock
    MaxOps,         \* bound on the operations of each thread
    Ops,            \* the operations each thread may call
    MayClose,       \* caches that may be closed
    MayFail         \* threads whose statements may fail without waiting for the lock

\* An operation: what it does, the keys it does it to and the response it stores.
Op ==
    [kind : {"get"}, keys : {{k} : k \in Keys}, value : {None}]
    \cup [kind : {"get_batch"}, keys : (SUBSET Keys) \ {{}}, value : {None}]
    \cup [kind : {"set"}, keys : {{k} : k \in Keys}, value : Values]
    \cup [kind : {"set_batch"}, keys : (SUBSET Keys) \ {{}}, value : Values]
    \cup [kind : {"clear"}, keys : {{}}, value : {None}]

ASSUME CacheAssumption ==
    /\ IsFiniteSet(Keys)
    /\ CacheOf \in [Threads -> Caches]
    /\ None \notin Values
    /\ \A v \in Values, a, u \in 0..MaxTime :
          None \notin {[value |-> v, at |-> a], [value |-> v, at |-> a, used |-> u]}
    /\ MaxConnections \in Nat \ {0}
    /\ EvictShare \in Nat \ {0}
    /\ TTL \in Nat /\ MaxTime \in Nat
    /\ MaxOps \in [Threads -> Nat]
    /\ MayClose \subseteq Caches
    /\ MayFail \subseteq Threads
    /\ Ops \in [Threads -> SUBSET Op]

\* A connection, of a cache; a thread that has none has number 0.
Numbers == 1..MaxConnections
Connections == Caches \X Numbers

VARIABLES
    row,        \* llm_responses as committed: the row of each namespace and key
    now,        \* the clock
    idle,       \* the connections in each pool
    opened,     \* _initialized_connections
    closing,    \* close: "open", "draining" or "closed"
    txn,        \* the transaction of each connection
    view,       \* the rows that transaction sees, once it has read or written
    pc,         \* where each thread is
    op,         \* its operation
    conn,       \* its connection
    found,      \* the responses its lookup has read
    quota,      \* evict_count
    calls,      \* operations begun by each thread
    ever        \* history: what was stored under each key, be it committed or not

dbVars == <<row, txn, view, ever>>
poolVars == <<idle, opened, closing>>
threadVars == <<pc, op, conn, found, quota, calls>>
vars == <<dbVars, now, poolVars, threadVars>>

Nothing == [k \in Keys |-> None]
NoRows == [c \in Caches |-> Nothing]
NoOp == [kind |-> "none", keys |-> {}, value |-> None]

\* __init__ leaves the connection that created the table in the pool.
Init ==
    /\ row = NoRows
    /\ now = 0
    /\ idle = [c \in Caches |-> {1}]
    /\ opened = [c \in Caches |-> 1]
    /\ closing = [c \in Caches |-> "open"]
    /\ txn = [x \in Connections |-> "none"]
    /\ view = [x \in Connections |-> NoRows]
    /\ pc = [t \in Threads |-> "idle"]
    /\ op = [t \in Threads |-> NoOp]
    /\ conn = [t \in Threads |-> 0]
    /\ found = [t \in Threads |-> Nothing]
    /\ quota = [t \in Threads |-> 0]
    /\ calls = [t \in Threads |-> 0]
    /\ ever = [c \in Caches |-> [k \in Keys |-> {}]]

----------------------------------------------------------------------------
(***************************************************************************)
(* The connection pool                                                     *)
(***************************************************************************)
Goto(t, p) == pc' = [pc EXCEPT ![t] = p]

\* The operation returns.
Return(t) ==
    /\ Goto(t, "idle")
    /\ op' = [op EXCEPT ![t] = NoOp]
    /\ conn' = [conn EXCEPT ![t] = 0]
    /\ found' = [found EXCEPT ![t] = Nothing]
    /\ quota' = [quota EXCEPT ![t] = 0]

\* get_connection refuses a closed cache.
Begin(t, o) ==
    /\ pc[t] = "idle"
    /\ calls[t] < MaxOps[t]
    /\ calls' = [calls EXCEPT ![t] = @ + 1]
    /\ IF closing[CacheOf[t]] = "open"
       THEN op' = [op EXCEPT ![t] = o] /\ Goto(t, "pool")
       ELSE UNCHANGED <<op, pc>>
    /\ UNCHANGED <<dbVars, now, poolVars, conn, found, quota>>

TakeIdle(t) ==
    /\ \E n \in idle[CacheOf[t]] :
          /\ idle' = [idle EXCEPT ![CacheOf[t]] = @ \ {n}]
          /\ conn' = [conn EXCEPT ![t] = n]
    /\ Goto(t, "run")
    /\ UNCHANGED <<dbVars, now, opened, closing, op, found, quota, calls>>

\* get_nowait
FromPool(t) ==
    /\ pc[t] = "pool"
    /\ \/ TakeIdle(t)
       \/ /\ idle[CacheOf[t]] = {}
          /\ Goto(t, "lock")
          /\ UNCHANGED <<dbVars, now, poolVars, op, conn, found, quota, calls>>

\* Mutant: off by one.
MayOpen_OneMore(c) == opened[c] <= MaxConnections

MayOpen(c) == opened[c] < MaxConnections

\* Under _pool_lock: create a connection and count it, or go and wait for one.
OpenOrBlock(t) ==
    /\ pc[t] = "lock"
    /\ IF MayOpen(CacheOf[t])
       THEN /\ opened' = [opened EXCEPT ![CacheOf[t]] = @ + 1]
            /\ conn' = [conn EXCEPT ![t] = opened'[CacheOf[t]]]
            /\ Goto(t, "run")
       ELSE Goto(t, "blocked") /\ UNCHANGED <<opened, conn>>
    /\ UNCHANGED <<dbVars, now, idle, closing, op, found, quota, calls>>

\* The connection cannot be created: the operation raises.
OpenFails(t) ==
    /\ t \in MayFail
    /\ pc[t] = "lock" /\ MayOpen(CacheOf[t])
    /\ Return(t)
    /\ UNCHANGED <<dbVars, now, poolVars, calls>>

Unblock(t) ==
    /\ pc[t] = "blocked"
    /\ TakeIdle(t)

\* A connection that is closed takes its transaction with it.
RollBack(x) ==
    /\ txn' = [txn EXCEPT ![x] = "none"]
    /\ view' = [view EXCEPT ![x] = NoRows]
    /\ UNCHANGED <<row, ever>>

Connection(t) == <<CacheOf[t], conn[t]>>

\* release_connection tests _closed and then puts; a connection that is not put is dropped.
Release(t) ==
    /\ pc[t] = "release"
    /\ IF closing[CacheOf[t]] = "open"
       THEN Goto(t, "put") /\ UNCHANGED <<dbVars, op, conn, found, quota>>
       ELSE Return(t) /\ RollBack(Connection(t))
    /\ UNCHANGED <<now, poolVars, calls>>

Put(t) ==
    /\ pc[t] = "put"
    /\ idle' = [idle EXCEPT ![CacheOf[t]] = @ \cup {conn[t]}]
    /\ Return(t)
    /\ UNCHANGED <<dbVars, now, opened, closing, calls>>

----------------------------------------------------------------------------
(***************************************************************************)
(* Transactions                                                            *)
(*                                                                         *)
(* "begun": BEGIN DEFERRED, nothing read; "snapshot": it has read, and reads *)
(* the same rows until it ends; "writing": it holds the write lock.         *)
(***************************************************************************)
\* The rows t's connection sees.
View(t) ==
    IF txn[Connection(t)] \in {"snapshot", "writing"} THEN view[Connection(t)] ELSE row

\* Nobody else holds the write lock, and nothing was committed since the transaction read.
CanWrite(t) ==
    \/ txn[Connection(t)] = "writing"
    \/ /\ \A x \in Connections : txn[x] # "writing"
       /\ txn[Connection(t)] = "snapshot" => view[Connection(t)] = row

SetTxn(t, how, rows) ==
    /\ txn' = [txn EXCEPT ![Connection(t)] = how]
    /\ view' = [view EXCEPT ![Connection(t)] = rows]

\* The connection writes rows, and commits them with all it wrote before.
Commits(t, rows) ==
    /\ CanWrite(t)
    /\ row' = rows
    /\ SetTxn(t, "none", NoRows)

\* What an error leaves of the transaction that was to write rows: SQLite itself may have
\* rolled it back; the statement may have failed, before or after it took the lock; or the
\* commit failed.
Leaves(t, rows) ==
    /\ \/ SetTxn(t, "none", NoRows)
       \/ txn[Connection(t)] = "none" /\ SetTxn(t, "begun", NoRows)
       \/ UNCHANGED <<txn, view>>
       \/ CanWrite(t) /\ \E r \in {View(t), rows} : SetTxn(t, "writing", r)
    /\ UNCHANGED row

\* Also a write that has waited its 30 seconds for the lock, or whose snapshot is old, fails.
Fails(t, rows) == (t \in MayFail \/ ~CanWrite(t)) /\ Leaves(t, rows)

----------------------------------------------------------------------------
(***************************************************************************)
(* The operations, with a connection                                       *)
(***************************************************************************)
Running(t, kinds) == pc[t] = "run" /\ op[t].kind \in kinds

Unexpired(e) == e # None /\ e.at > now - TTL

\* SELECT ... AND cached_at > cutoff: in a transaction that was left open it is the first
\* read that fixes what the transaction sees.
Select(t) ==
    /\ Running(t, {"get", "get_batch"})
    /\ found' = [found EXCEPT ![t] =
          [k \in Keys |-> IF k \in op[t].keys /\ Unexpired(View(t)[CacheOf[t]][k])
                          THEN View(t)[CacheOf[t]][k].value ELSE None]]
    /\ IF txn[Connection(t)] = "begun" THEN SetTxn(t, "snapshot", row)
                                       ELSE UNCHANGED <<txn, view>>
    /\ Goto(t, IF found'[t] = Nothing THEN "release" ELSE "touch")
    /\ UNCHANGED <<row, ever, now, poolVars, op, conn, quota, calls>>

\* Mutant: an error returns from the operation without its finally.
AfterError_NoFinally(t) == Goto(t, "idle")

AfterError(t) == Goto(t, "release")

\* A statement that only reads fails.
ReadFails(t) ==
    /\ t \in MayFail
    /\ Running(t, {"get", "get_batch"}) \/ pc[t] = "size"
    /\ AfterError(t)
    /\ UNCHANGED <<dbVars, now, poolVars, op, conn, found, quota, calls>>

\* Mutant: the response that was read is written back with its use time.
Touched_WritesBack(t) ==
    [View(t) EXCEPT ![CacheOf[t]] =
        [k \in Keys |-> IF found[t][k] # None
                        THEN [value |-> found[t][k], at |-> now, used |-> now]
                        ELSE View(t)[CacheOf[t]][k]]]

\* The rows with their use time updated: by then a row may be another one, or gone.
Touched(t) ==
    [View(t) EXCEPT ![CacheOf[t]] =
        [k \in Keys |-> IF found[t][k] # None /\ View(t)[CacheOf[t]][k] # None
                        THEN [View(t)[CacheOf[t]][k] EXCEPT !.used = now]
                        ELSE View(t)[CacheOf[t]][k]]]

\* UPDATE ... SET last_accessed: if it fails, get returns nothing, and get_batch what it
\* has read.
Touch(t) ==
    /\ pc[t] = "touch"
    /\ \/ Commits(t, Touched(t)) /\ Goto(t, "release") /\ UNCHANGED found
       \/ /\ Fails(t, Touched(t)) /\ AfterError(t)
          /\ found' = [found EXCEPT ![t] = IF op[t].kind = "get" THEN Nothing ELSE @]
    /\ UNCHANGED <<ever, now, poolVars, op, conn, quota, calls>>

\* The rows once t has stored its response under the keys of S.
Stored(t, S) ==
    [View(t) EXCEPT ![CacheOf[t]] =
        [k \in Keys |-> IF k \in S THEN [value |-> op[t].value, at |-> now, used |-> now]
                        ELSE View(t)[CacheOf[t]][k]]]

Recorded(t, S) ==
    ever' = [ever EXCEPT ![CacheOf[t]] =
        [k \in Keys |-> IF k \in S THEN @[k] \cup {[value |-> op[t].value, at |-> now]}
                        ELSE @[k]]]

\* set: INSERT OR REPLACE and commit, then an eviction.
Insert(t) ==
    /\ Running(t, {"set"})
    /\ \/ Commits(t, Stored(t, op[t].keys)) /\ Goto(t, "size")
       \/ Fails(t, Stored(t, op[t].keys)) /\ AfterError(t)
    /\ Recorded(t, op[t].keys)
    /\ UNCHANGED <<now, poolVars, op, conn, found, quota, calls>>

\* set_batch skips the entries that fail, each for itself, and commits even if all did,
\* which ends a transaction that was left open.  No eviction follows: the call of
\* _maybe_evict lacks the connection and raises.
InsertBatch(t) ==
    /\ Running(t, {"set_batch"})
    /\ \E S \in SUBSET op[t].keys :
          /\ S # op[t].keys => t \in MayFail \/ ~CanWrite(t)
          /\ \/ Commits(t, Stored(t, S)) /\ Goto(t, "release")
             \/ /\ S = {} /\ ~CanWrite(t)
                /\ SetTxn(t, "none", NoRows) /\ UNCHANGED row /\ Goto(t, "release")
             \/ t \in MayFail /\ (S = {} \/ CanWrite(t)) /\ Leaves(t, Stored(t, S)) /\ AfterError(t)
          /\ Recorded(t, S)
    /\ UNCHANGED <<now, poolVars, op, conn, found, quota, calls>>

OwnRows(t) == {k \in Keys : View(t)[CacheOf[t]][k] # None}

More(a, b) == IF a > b THEN a ELSE b

EvictCount(t) == More(1, Cardinality(OwnRows(t)) \div EvictShare)

\* _maybe_evict: measure the file, and count the entries of the namespace if it is too big.
Measure(t) ==
    /\ pc[t] = "size"
    /\ \/ quota' = [quota EXCEPT ![t] = EvictCount(t)] /\ Goto(t, "evict")
       \/ Goto(t, "release") /\ UNCHANGED quota
    /\ UNCHANGED <<dbVars, now, poolVars, op, conn, found, calls>>

\* The n least recently used keys of t's cache.
Oldest(t, n) ==
    {S \in SUBSET OwnRows(t) :
        /\ Cardinality(S) = IF n < Cardinality(OwnRows(t)) THEN n ELSE Cardinality(OwnRows(t))
        /\ \A k \in S, j \in OwnRows(t) \ S :
              View(t)[CacheOf[t]][k].used <= View(t)[CacheOf[t]][j].used}

\* DELETE ... WHERE cache_key IN (...), in whatever namespace the keys are.
Without(t, S) ==
    [c \in Caches |-> [k \in Keys |-> IF k \in S THEN None ELSE View(t)[c][k]]]

Evict(t) ==
    /\ pc[t] = "evict"
    /\ \E S \in Oldest(t, quota[t]) :
          \/ Commits(t, Without(t, S)) /\ Goto(t, "release")
          \/ Fails(t, Without(t, S)) /\ AfterError(t)
    /\ UNCHANGED <<ever, now, poolVars, op, conn, found, quota, calls>>

Cleared(t) == [View(t) EXCEPT ![CacheOf[t]] = Nothing]

Clear(t) ==
    /\ Running(t, {"clear"})
    /\ \/ Commits(t, Cleared(t)) /\ Goto(t, "release")
       \/ Fails(t, Cleared(t)) /\ AfterError(t)
    /\ UNCHANGED <<ever, now, poolVars, op, conn, found, quota, calls>>

----------------------------------------------------------------------------
\* close: mark the cache closed, then close what is in the pool.
Close(c) ==
    /\ c \in MayClose
    /\ closing[c] = "open"
    /\ closing' = [closing EXCEPT ![c] = "draining"]
    /\ UNCHANGED <<dbVars, now, idle, opened, threadVars>>

Drain(c) ==
    /\ closing[c] = "draining"
    /\ \/ \E n \in idle[c] :
             /\ idle' = [idle EXCEPT ![c] = @ \ {n}]
             /\ RollBack(<<c, n>>)
             /\ UNCHANGED closing
       \/ /\ idle[c] = {}
          /\ closing' = [closing EXCEPT ![c] = "closed"]
          /\ UNCHANGED <<dbVars, idle>>
    /\ UNCHANGED <<now, opened, threadVars>>

Tick ==
    /\ now < MaxTime
    /\ now' = now + 1
    /\ UNCHANGED <<dbVars, poolVars, threadVars>>

Step(t) ==
    \/ FromPool(t) \/ OpenOrBlock(t) \/ OpenFails(t) \/ Unblock(t)
    \/ Select(t) \/ ReadFails(t) \/ Touch(t) \/ Insert(t) \/ InsertBatch(t)
    \/ Measure(t) \/ Evict(t) \/ Clear(t)
    \/ Release(t) \/ Put(t)

Next ==
    \/ \E t \in Threads : Step(t) \/ \E o \in Ops[t] : Begin(t, o)
    \/ \E c \in Caches : Close(c) \/ Drain(c)
    \/ Tick

Spec == Init /\ [][Next]_vars

\* A thread that is not blocked goes on, be it that the wait for the lock times out, and so
\* does a close.
Fairness ==
    /\ \A t \in Threads : WF_vars(Step(t))
    /\ \A c \in Caches : WF_vars(Drain(c))

FairSpec == Spec /\ Fairness

----------------------------------------------------------------------------
(***************************************************************************)
(* Properties                                                              *)
(***************************************************************************)
Entry == [value : Values, at : 0..MaxTime, used : 0..MaxTime]
Tables == [Caches -> [Keys -> Entry \cup {None}]]

TypeOK ==
    /\ row \in Tables
    /\ now \in 0..MaxTime
    /\ idle \in [Caches -> SUBSET Numbers]
    /\ opened \in [Caches -> Numbers]
    /\ closing \in [Caches -> {"open", "draining", "closed"}]
    /\ txn \in [Connections -> {"none", "begun", "snapshot", "writing"}]
    /\ view \in [Connections -> Tables]
    /\ pc \in [Threads -> {"idle", "pool", "lock", "blocked", "run", "touch", "size", "evict",
                           "release", "put"}]
    /\ op \in [Threads -> Op \cup {NoOp}]
    /\ conn \in [Threads -> Numbers \cup {0}]
    /\ found \in [Threads -> [Keys -> Values \cup {None}]]
    /\ quota \in [Threads -> Nat]
    /\ calls \in [Threads -> Nat]
    /\ ever \in [Caches -> [Keys -> SUBSET [value : Values, at : 0..MaxTime]]]

Busy(t) == pc[t] \in {"run", "touch", "size", "evict", "release", "put"}

\* The connections of c that threads have.
Held(c) == {conn[t] : t \in {u \in Threads : CacheOf[u] = c /\ Busy(u)}}

\* No two threads have one connection, none has one that is in the pool, and until the cache
\* is closed every connection is in the pool or with a thread: no operation and no error
\* loses one, which would leave a later caller waiting for good.
ConnectionsAccounted ==
    /\ \A t, u \in Threads :
          Busy(t) /\ Busy(u) /\ t # u /\ CacheOf[t] = CacheOf[u] => conn[t] # conn[u]
    /\ \A c \in Caches :
          /\ idle[c] \cap Held(c) = {}
          /\ idle[c] \cup Held(c) \subseteq 1..opened[c]
          /\ closing[c] = "open" => idle[c] \cup Held(c) = 1..opened[c]

\* The cache is a ResponseCache: whatever is stored, evicted, cleared or read meanwhile, a
\* lookup returns what was last stored for its key in its own namespace; and while an error
\* has left a transaction of the cache open, at worst something stored before for that key
\* in that namespace, and never anything that has expired.
Responses == INSTANCE ResponseCache WITH
    Namespaces <- Caches,
    NsOf <- CacheOf,
    seen <- found,
    stored <- ever,
    left <- [c \in Caches |-> \E n \in Numbers : txn[<<c, n>>] # "none"],
    entry <- [c \in Caches |-> [k \in Keys |->
                 IF row[c][k] = None THEN None
                 ELSE [value |-> row[c][k].value, at |-> row[c][k].at]]]
ImplementsResponseCache == Responses!Spec

\* Every operation ends, or its cache was closed: a connection is always given back, so a
\* caller that waits for one gets it, and who waits for the write lock gives up, even if a
\* connection in a pool holds it for good.
OperationsEnd ==
    \A t \in Threads : pc[t] # "idle" ~> pc[t] = "idle" \/ closing[CacheOf[t]] # "open"
=============================================================================
