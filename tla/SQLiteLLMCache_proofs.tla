------------------------- MODULE SQLiteLLMCache_proofs -------------------------
(***************************************************************************)
(* The response cache for any caches, threads, keys, operations and sizes:  *)
(* no connection of a pool is lost, and a lookup returns what was last      *)
(* stored for its key in its namespace, or, while an error has left a        *)
(* transaction of the cache open, what was stored there before.             *)
(***************************************************************************)
EXTENDS SQLiteLLMCache, FiniteSetTheorems, TLAPS

PcStates == {"idle", "pool", "lock", "blocked", "run", "touch", "size", "evict", "release", "put"}

TxnStates == {"none", "begun", "snapshot", "writing"}

DbTypes ==
    /\ row \in Tables
    /\ now \in 0..MaxTime
    /\ txn \in [Connections -> TxnStates]
    /\ view \in [Connections -> Tables]
    /\ ever \in [Caches -> [Keys -> SUBSET [value : Values, at : 0..MaxTime]]]

PoolTypes ==
    /\ idle \in [Caches -> SUBSET Numbers]
    /\ opened \in [Caches -> Numbers]
    /\ closing \in [Caches -> {"open", "draining", "closed"}]

ThreadTypes ==
    /\ pc \in [Threads -> PcStates]
    /\ op \in [Threads -> Op \cup {NoOp}]
    /\ conn \in [Threads -> Numbers \cup {0}]
    /\ found \in [Threads -> [Keys -> Values \cup {None}]]
    /\ quota \in [Threads -> Nat]
    /\ calls \in [Threads -> Nat]

\* The type invariant by its parts.
LEMMA TypeParts == TypeOK <=> DbTypes /\ PoolTypes /\ ThreadTypes
  BY DEF TypeOK, DbTypes, PoolTypes, ThreadTypes, PcStates, TxnStates

\* Nothing stored is None.
LEMMA NoneIsNoEntry == None \notin Entry
  <1> SUFFICES ASSUME None \in Entry PROVE FALSE
    OBVIOUS
  <1>1. PICK v \in Values, a \in 0..MaxTime, u \in 0..MaxTime :
           None = [value |-> v, at |-> a, used |-> u]
    BY DEF Entry
  <1> QED
    BY <1>1, CacheAssumption

\* What an operation names: keys, and a response if it stores one.
LEMMA OpFacts ==
    ASSUME ThreadTypes, NEW t \in Threads
    PROVE  /\ op[t].keys \in SUBSET Keys
           /\ op[t].kind \in {"set", "set_batch"} => op[t].value \in Values
  <1> SUFFICES ASSUME NEW o \in Op \cup {NoOp}
               PROVE  /\ o.keys \in SUBSET Keys
                      /\ o.kind \in {"set", "set_batch"} => o.value \in Values
    BY DEF ThreadTypes
  <1>1. CASE o = NoOp
    BY <1>1 DEF NoOp
  <1>2. CASE o \in [kind : {"get"}, keys : {{k} : k \in Keys}, value : {None}]
    BY <1>2
  <1>3. CASE o \in [kind : {"get_batch"}, keys : (SUBSET Keys) \ {{}}, value : {None}]
    BY <1>3
  <1>4. CASE o \in [kind : {"set"}, keys : {{k} : k \in Keys}, value : Values]
    BY <1>4
  <1>5. CASE o \in [kind : {"set_batch"}, keys : (SUBSET Keys) \ {{}}, value : Values]
    BY <1>5
  <1>6. CASE o \in [kind : {"clear"}, keys : {{}}, value : {None}]
    BY <1>6
  <1> QED
    BY <1>1, <1>2, <1>3, <1>4, <1>5, <1>6 DEF Op

\* An eviction takes away a number of entries.
LEMMA EvictCountFacts ==
    ASSUME NEW t \in Threads
    PROVE  EvictCount(t) \in Nat
  <1> DEFINE n == Cardinality(OwnRows(t))
  <1>1. n \in Nat
    BY CacheAssumption, FS_Subset, FS_CardinalityType DEF OwnRows
  <1>2. EvictShare \in Nat \ {0}
    BY CacheAssumption
  <1>3. EvictCount(t) = More(1, n \div EvictShare)
    BY DEF EvictCount
  <1> HIDE DEF n
  <1>4. n \div EvictShare \in Nat
    BY <1>1, <1>2
  <1> QED
    BY <1>3, <1>4 DEF More

----------------------------------------------------------------------------
(***************************************************************************)
(* The connections                                                         *)
(***************************************************************************)
PoolInv == PoolTypes /\ ConnectionsAccounted

\* A connection is held if some thread of the cache has it.
LEMMA HeldFacts ==
    ASSUME NEW c \in Caches, NEW n
    PROVE  n \in Held(c) <=> \E u \in Threads : CacheOf[u] = c /\ Busy(u) /\ conn[u] = n
  BY DEF Held

\* What a thread that is at its operation has: a connection of its cache, and rows to see.
LEMMA BusyFacts ==
    ASSUME DbTypes, PoolInv, NEW t \in Threads, Busy(t)
    PROVE  /\ CacheOf[t] \in Caches /\ conn[t] \in Numbers
           /\ Connection(t) \in Connections /\ View(t) \in Tables
  <1>1. CacheOf[t] \in Caches
    BY CacheAssumption
  <1>2. conn[t] \in Held(CacheOf[t])
    BY <1>1, HeldFacts
  <1>3. conn[t] \in 1..opened[CacheOf[t]]
    BY <1>1, <1>2 DEF PoolInv, ConnectionsAccounted
  <1>4. opened[CacheOf[t]] \in 1..MaxConnections /\ MaxConnections \in Nat
    BY <1>1, CacheAssumption DEF PoolInv, PoolTypes, Numbers
  <1>5. conn[t] \in Numbers
    BY <1>3, <1>4 DEF Numbers
  <1>6. Connection(t) \in Connections
    BY <1>1, <1>5 DEF Connection, Connections
  <1> QED
    BY <1>1, <1>5, <1>6 DEF View, DbTypes

\* The parts of ConnectionsAccounted, with a thread to each connection that is held.
LEMMA AccountedIff ==
    ConnectionsAccounted <=>
       /\ \A t, u \in Threads :
             Busy(t) /\ Busy(u) /\ t # u /\ CacheOf[t] = CacheOf[u] => conn[t] # conn[u]
       /\ \A u \in Threads :
             CacheOf[u] \in Caches /\ Busy(u) => /\ conn[u] \notin idle[CacheOf[u]]
                                                 /\ conn[u] \in 1..opened[CacheOf[u]]
       /\ \A c \in Caches : idle[c] \subseteq 1..opened[c]
       /\ \A c \in Caches : closing[c] = "open" => 1..opened[c] \subseteq idle[c] \cup Held(c)
  BY DEF ConnectionsAccounted, Held

\* The same after a step.
LEMMA AccountedNext ==
    ASSUME \A t, u \in Threads :
              Busy(t)' /\ Busy(u)' /\ t # u /\ CacheOf[t] = CacheOf[u] => conn'[t] # conn'[u],
           \A u \in Threads :
              CacheOf[u] \in Caches /\ Busy(u)' => /\ conn'[u] \notin idle'[CacheOf[u]]
                                                   /\ conn'[u] \in 1..opened'[CacheOf[u]],
           \A c \in Caches : idle'[c] \subseteq 1..opened'[c],
           \A c \in Caches : closing'[c] = "open" => 1..opened'[c] \subseteq idle'[c] \cup Held(c)'
    PROVE  ConnectionsAccounted'
  BY DEF ConnectionsAccounted, Held

\* No step of a thread that has as much of a connection before as after.
LEMMA KeepsConnection ==
    ASSUME PoolInv, UNCHANGED poolVars,
           \A u \in Threads : (Busy(u) <=> Busy(u)') /\ (Busy(u) => conn'[u] = conn[u])
    PROVE  PoolInv'
  <1>1. \A c \in Caches : Held(c)' = Held(c)
    BY DEF Held
  <1>2. PoolTypes'
    BY DEF PoolInv, PoolTypes, poolVars
  <1>3. ConnectionsAccounted'
    BY <1>1 DEF PoolInv, ConnectionsAccounted, poolVars
  <1> QED
    BY <1>2, <1>3 DEF PoolInv

\* A thread goes on, and no other does.
LEMMA GotoFacts ==
    ASSUME ThreadTypes, NEW t \in Threads, NEW q \in PcStates, Goto(t, q)
    PROVE  /\ pc' \in [Threads -> PcStates] /\ pc'[t] = q
           /\ \A u \in Threads : u # t => pc'[u] = pc[u]
  BY DEF ThreadTypes, Goto

\* A thread that takes a connection from the pool has it from then on.
LEMMA TakesIdle ==
    ASSUME ThreadTypes, PoolInv, NEW t \in Threads, ~Busy(t), TakeIdle(t)
    PROVE  PoolInv'
  <1> DEFINE d == CacheOf[t]
  <1>1. PICK n \in idle[d] : idle' = [idle EXCEPT ![d] = @ \ {n}] /\ conn' = [conn EXCEPT ![t] = n]
    BY DEF TakeIdle
  <1>2. d \in Caches /\ UNCHANGED <<opened, closing>> /\ pc'[t] = "run"
        /\ \A u \in Threads : u # t => pc'[u] = pc[u]
    BY CacheAssumption, GotoFacts DEF TakeIdle, PcStates
  <1>3. PoolTypes'
    BY <1>1, <1>2 DEF PoolInv, PoolTypes
  <1>4. /\ conn'[t] = n /\ Busy(t)' /\ n \in 1..opened[d]
        /\ \A u \in Threads : u # t => conn'[u] = conn[u] /\ (Busy(u)' <=> Busy(u))
    BY <1>1, <1>2, AccountedIff DEF ThreadTypes, Busy, PoolInv
  <1>5. \A c \in Caches : idle'[c] = IF c = d THEN idle[c] \ {n} ELSE idle[c]
    BY <1>1, <1>2 DEF PoolInv, PoolTypes
  <1>6. ASSUME NEW u \in Threads, NEW v \in Threads, Busy(u)', Busy(v)', u # v, CacheOf[u] = CacheOf[v]
        PROVE  conn'[u] # conn'[v]
    BY <1>1, <1>2, <1>4, <1>6, AccountedIff DEF PoolInv
  <1>7. ASSUME NEW u \in Threads, CacheOf[u] \in Caches, Busy(u)'
        PROVE  conn'[u] \notin idle'[CacheOf[u]] /\ conn'[u] \in 1..opened[CacheOf[u]]
    BY <1>1, <1>2, <1>4, <1>5, <1>7, AccountedIff DEF PoolInv
  <1>8. \A c \in Caches : idle'[c] \subseteq 1..opened[c]
    BY <1>5, AccountedIff DEF PoolInv
  <1>9. ASSUME NEW c \in Caches, closing[c] = "open", NEW i \in 1..opened[c]
        PROVE  i \in idle'[c] \cup Held(c)'
    <2>1. i \in idle[c] \/ i \in Held(c)
      BY <1>9, AccountedIff DEF PoolInv
    <2>2. CASE i \in Held(c)
      <3>1. PICK u \in Threads : CacheOf[u] = c /\ Busy(u) /\ conn[u] = i
        BY <2>2, HeldFacts
      <3>2. Busy(u)' /\ conn'[u] = i
        BY <3>1, <1>4
      <3> QED
        BY <3>1, <3>2 DEF Held
    <2>3. CASE i \in idle[c] /\ ~(c = d /\ i = n)
      BY <1>5, <2>3
    <2>4. CASE c = d /\ i = n
      BY <1>4, <2>4 DEF Held
    <2> QED
      BY <2>1, <2>2, <2>3, <2>4
  <1>10. ConnectionsAccounted'
    BY <1>2, <1>6, <1>7, <1>8, <1>9, AccountedNext
  <1> QED
    BY <1>3, <1>10 DEF PoolInv

\* A thread that opens a connection has it from then on, under a number nobody had.
LEMMA Opens ==
    ASSUME ThreadTypes, PoolInv, NEW t \in Threads, OpenOrBlock(t)
    PROVE  PoolInv'
  <1> DEFINE d == CacheOf[t]
  <1>1. CASE ~MayOpen(d)
    <2>1. Goto(t, "blocked") /\ UNCHANGED <<opened, conn, idle, closing>> /\ pc[t] = "lock"
      BY <1>1 DEF OpenOrBlock
    <2>2. \A u \in Threads : Busy(u)' <=> Busy(u)
      BY <2>1, GotoFacts DEF PcStates, Busy
    <2> QED
      BY <2>1, <2>2, KeepsConnection DEF poolVars
  <1>2. CASE MayOpen(d)
    <2>1. /\ opened' = [opened EXCEPT ![d] = @ + 1] /\ conn' = [conn EXCEPT ![t] = opened'[d]]
          /\ Goto(t, "run") /\ UNCHANGED <<idle, closing>> /\ pc[t] = "lock"
      BY <1>2 DEF OpenOrBlock
    <2>2. d \in Caches /\ pc'[t] = "run" /\ \A u \in Threads : u # t => pc'[u] = pc[u]
      BY <2>1, CacheAssumption, GotoFacts DEF PcStates
    <2>3. opened[d] \in Numbers /\ opened[d] < MaxConnections /\ MaxConnections \in Nat
      BY <1>2, <2>2, CacheAssumption DEF MayOpen, PoolInv, PoolTypes
    <2> DEFINE n == opened[d] + 1
    <2>4. n \in Numbers /\ opened[d] \in Nat
      BY <2>3 DEF Numbers
    <2>5. PoolTypes'
      BY <2>1, <2>4 DEF PoolInv, PoolTypes
    <2>6. \A c \in Caches : opened'[c] = IF c = d THEN n ELSE opened[c]
      BY <2>1, <2>2 DEF PoolInv, PoolTypes
    <2>7. /\ conn'[t] = n /\ Busy(t)' /\ ~Busy(t)
          /\ \A u \in Threads : u # t => conn'[u] = conn[u] /\ (Busy(u)' <=> Busy(u))
      BY <2>1, <2>2, <2>6 DEF ThreadTypes, Busy
    <2>8. \A i \in 1..opened[d] : i \in 1..n /\ i # n
      BY <2>4
    <2>15. n \in 1..n /\ \A i \in 1..n : i # n => i \in 1..opened[d]
      BY <2>4
    <2> HIDE DEF n
    <2>9. ASSUME NEW u \in Threads, NEW v \in Threads, Busy(u)', Busy(v)', u # v,
                 CacheOf[u] = CacheOf[v]
          PROVE  conn'[u] # conn'[v]
      BY <2>2, <2>7, <2>8, <2>9, AccountedIff DEF PoolInv
    <2>10. ASSUME NEW u \in Threads, CacheOf[u] \in Caches, Busy(u)'
           PROVE  conn'[u] \notin idle'[CacheOf[u]] /\ conn'[u] \in 1..opened'[CacheOf[u]]
      BY <2>1, <2>2, <2>6, <2>7, <2>8, <2>10, <2>15, AccountedIff DEF PoolInv
    <2>11. \A c \in Caches : idle'[c] \subseteq 1..opened'[c]
      BY <2>1, <2>6, <2>8, AccountedIff DEF PoolInv
    <2>12. ASSUME NEW c \in Caches, closing'[c] = "open", NEW i \in 1..opened'[c]
           PROVE  i \in idle'[c] \cup Held(c)'
      <3>1. CASE c = d /\ i = n
        BY <2>7, <3>1 DEF Held
      <3>2. CASE ~(c = d /\ i = n)
        <4>1. i \in 1..opened[c]
          BY <2>6, <2>12, <2>15, <3>2
        <4>2. i \in idle[c] \/ i \in Held(c)
          BY <2>1, <2>12, <4>1, AccountedIff DEF PoolInv
        <4>3. ASSUME i \in Held(c) PROVE i \in Held(c)'
          <5>1. PICK u \in Threads : CacheOf[u] = c /\ Busy(u) /\ conn[u] = i
            BY <4>3, HeldFacts
          <5> QED
            BY <5>1, <2>7 DEF Held
        <4> QED
          BY <2>1, <4>2, <4>3
      <3> QED
        BY <3>1, <3>2
    <2>13. ConnectionsAccounted'
      BY <2>9, <2>10, <2>11, <2>12, AccountedNext
    <2> QED
      BY <2>5, <2>13 DEF PoolInv
  <1> QED
    BY <1>1, <1>2

\* What Return leaves of the thread.
LEMMA ReturnFacts ==
    ASSUME ThreadTypes, NEW t \in Threads, Return(t)
    PROVE  /\ ~Busy(t)'
           /\ \A u \in Threads : u # t => conn'[u] = conn[u] /\ (Busy(u)' <=> Busy(u))
  BY GotoFacts DEF Return, PcStates, Busy, ThreadTypes

\* A connection may be dropped once the cache is closed.
LEMMA Drops ==
    ASSUME ThreadTypes, PoolInv, NEW t \in Threads, Return(t), UNCHANGED poolVars,
           ~Busy(t) \/ closing[CacheOf[t]] # "open"
    PROVE  PoolInv'
  <1>1. /\ ~Busy(t)'
        /\ \A u \in Threads : u # t => conn'[u] = conn[u] /\ (Busy(u)' <=> Busy(u))
    BY ReturnFacts
  <1>2. PoolTypes' /\ UNCHANGED <<idle, opened, closing>>
    BY DEF PoolInv, PoolTypes, poolVars
  <1>3. ASSUME NEW c \in Caches, closing[c] = "open", NEW i \in 1..opened[c]
        PROVE  i \in idle[c] \cup Held(c)'
    <2>1. i \in idle[c] \/ i \in Held(c)
      BY <1>3, AccountedIff DEF PoolInv
    <2>2. ASSUME i \in Held(c) PROVE i \in Held(c)'
      <3>1. PICK u \in Threads : CacheOf[u] = c /\ Busy(u) /\ conn[u] = i
        BY <2>2, HeldFacts
      <3> QED
        BY <3>1, <1>1, <1>3 DEF Held
    <2> QED
      BY <2>1, <2>2
  <1>4. \A u, v \in Threads :
           Busy(u)' /\ Busy(v)' /\ u # v /\ CacheOf[u] = CacheOf[v] => conn'[u] # conn'[v]
    BY <1>1, AccountedIff DEF PoolInv
  <1>5. ConnectionsAccounted'
    BY <1>1, <1>2, <1>3, <1>4, AccountedIff, AccountedNext DEF PoolInv
  <1> QED
    BY <1>2, <1>5 DEF PoolInv

\* A thread that puts its connection back had it all to itself.
LEMMA PutsBack ==
    ASSUME ThreadTypes, PoolInv, NEW t \in Threads, Put(t)
    PROVE  PoolInv'
  <1> DEFINE d == CacheOf[t]
             n == conn[t]
  <1>1. Return(t) /\ UNCHANGED <<opened, closing>> /\ idle' = [idle EXCEPT ![d] = @ \cup {n}]
        /\ Busy(t) /\ d \in Caches
    BY CacheAssumption DEF Put, Busy
  <1>2. /\ ~Busy(t)'
        /\ \A u \in Threads : u # t => conn'[u] = conn[u] /\ (Busy(u)' <=> Busy(u))
    BY <1>1, ReturnFacts
  <1>3. \A c \in Caches : idle'[c] = IF c = d THEN idle[c] \cup {n} ELSE idle[c]
    BY <1>1 DEF PoolInv, PoolTypes
  <1>4. n \in 1..opened[d] /\ opened[d] \in 1..MaxConnections /\ MaxConnections \in Nat
    BY <1>1, CacheAssumption, AccountedIff DEF PoolInv, PoolTypes, Numbers
  <1>5. n \in Numbers
    BY <1>4 DEF Numbers
  <1>6. PoolTypes'
    BY <1>1, <1>5 DEF PoolInv, PoolTypes
  <1>7. ASSUME NEW c \in Caches, closing[c] = "open", NEW i \in 1..opened[c]
        PROVE  i \in idle'[c] \cup Held(c)'
    <2>1. i \in idle[c] \/ i \in Held(c)
      BY <1>7, AccountedIff DEF PoolInv
    <2>2. ASSUME i \in Held(c) PROVE i \in idle'[c] \cup Held(c)'
      <3>1. PICK u \in Threads : CacheOf[u] = c /\ Busy(u) /\ conn[u] = i
        BY <2>2, HeldFacts
      <3>2. CASE u = t
        BY <1>3, <3>1, <3>2
      <3>3. CASE u # t
        BY <1>2, <3>1, <3>3 DEF Held
      <3> QED
        BY <3>2, <3>3
    <2> QED
      BY <1>3, <2>1, <2>2
  <1>8. \A u, v \in Threads :
           Busy(u)' /\ Busy(v)' /\ u # v /\ CacheOf[u] = CacheOf[v] => conn'[u] # conn'[v]
    BY <1>2, AccountedIff DEF PoolInv
  <1>9. ASSUME NEW u \in Threads, CacheOf[u] \in Caches, Busy(u)'
        PROVE  conn'[u] \notin idle'[CacheOf[u]] /\ conn'[u] \in 1..opened'[CacheOf[u]]
    <2>1. u # t /\ Busy(u) /\ conn'[u] = conn[u]
      BY <1>2, <1>9
    <2>2. CacheOf[u] = d => conn[u] # n
      BY <1>1, <2>1, AccountedIff DEF PoolInv
    <2> QED
      BY <1>1, <1>3, <1>9, <2>1, <2>2, AccountedIff DEF PoolInv
  <1>10. \A c \in Caches : idle'[c] \subseteq 1..opened'[c]
    BY <1>1, <1>3, <1>4, AccountedIff DEF PoolInv
  <1>11. ConnectionsAccounted'
    BY <1>1, <1>7, <1>8, <1>9, <1>10, AccountedNext
  <1> QED
    BY <1>6, <1>11 DEF PoolInv

\* Closing takes connections out of the pool only when new ones are refused.
LEMMA Closes ==
    ASSUME ThreadTypes, PoolInv, NEW c \in Caches, Close(c) \/ Drain(c)
    PROVE  PoolInv'
  <1>1. UNCHANGED <<opened, pc, conn>>
    BY DEF Close, Drain, threadVars
  <1>2. \A d \in Caches : Held(d)' = Held(d)
    BY <1>1 DEF Held, Busy
  <1>3. PoolTypes' /\ \A d \in Caches : idle'[d] \subseteq idle[d]
    BY <1>1 DEF Close, Drain, PoolInv, PoolTypes
  <1>4. \A d \in Caches : closing'[d] = "open" => closing[d] = "open" /\ idle'[d] = idle[d]
    BY <1>1 DEF Close, Drain, PoolInv, PoolTypes
  <1>5. \A t, u \in Threads :
           Busy(t)' /\ Busy(u)' /\ t # u /\ CacheOf[t] = CacheOf[u] => conn'[t] # conn'[u]
    BY <1>1 DEF Busy, PoolInv, ConnectionsAccounted
  <1>6. ConnectionsAccounted'
    BY <1>1, <1>2, <1>3, <1>4, <1>5 DEF PoolInv, ConnectionsAccounted
  <1> QED
    BY <1>3, <1>6 DEF PoolInv

\* Every connection stays accounted for.
LEMMA PoolNext == TypeOK /\ PoolInv /\ [Next]_vars => PoolInv'
  <1> SUFFICES ASSUME TypeOK, PoolInv, [Next]_vars PROVE PoolInv'
    OBVIOUS
  <1>1. ThreadTypes
    BY TypeParts
  <1>2. ASSUME NEW t \in Threads, FromPool(t) \/ Unblock(t) PROVE PoolInv'
    <2>1. ~Busy(t)
      BY <1>2 DEF FromPool, Unblock, Busy
    <2>2. CASE TakeIdle(t)
      BY <1>1, <2>1, <2>2, TakesIdle
    <2>3. CASE ~TakeIdle(t)
      <3>1. Goto(t, "lock") /\ UNCHANGED <<poolVars, conn>>
        BY <1>2, <2>3 DEF FromPool, Unblock
      <3>2. \A u \in Threads : Busy(u)' <=> Busy(u)
        BY <1>1, <2>1, <3>1, GotoFacts DEF PcStates, Busy
      <3> QED
        BY <3>1, <3>2, KeepsConnection
    <2> QED
      BY <2>2, <2>3
  <1>3. ASSUME NEW t \in Threads, NEW o \in Ops[t], Begin(t, o) PROVE PoolInv'
    <2>1. UNCHANGED <<poolVars, conn>> /\ pc[t] = "idle" /\ (pc' = pc \/ Goto(t, "pool"))
      BY <1>3 DEF Begin
    <2>2. \A u \in Threads : Busy(u)' <=> Busy(u)
      BY <1>1, <2>1, GotoFacts DEF PcStates, Busy
    <2> QED
      BY <2>1, <2>2, KeepsConnection
  <1>4. ASSUME NEW t \in Threads, OpenOrBlock(t) PROVE PoolInv'
    BY <1>1, <1>4, Opens
  <1>5. ASSUME NEW t \in Threads, OpenFails(t) PROVE PoolInv'
    BY <1>1, <1>5, Drops DEF OpenFails, Busy
  <1>6. ASSUME NEW t \in Threads,
               \/ Select(t) \/ ReadFails(t) \/ Touch(t) \/ Insert(t) \/ InsertBatch(t)
               \/ Measure(t) \/ Evict(t) \/ Clear(t)
        PROVE  PoolInv'
    <2>1. UNCHANGED <<poolVars, conn>> /\ Busy(t)
      BY <1>6 DEF Select, ReadFails, Touch, Insert, InsertBatch, Measure, Evict, Clear, Running, Busy
    <2>2. \E q \in {"touch", "size", "evict", "release"} : Goto(t, q)
      BY <1>6 DEF Select, ReadFails, Touch, Insert, InsertBatch, Measure, Evict, Clear, AfterError
    <2>3. \A u \in Threads : Busy(u)' <=> Busy(u)
      BY <1>1, <2>1, <2>2, GotoFacts DEF PcStates, Busy
    <2> QED
      BY <2>1, <2>3, KeepsConnection
  <1>7. ASSUME NEW t \in Threads, Release(t) PROVE PoolInv'
    <2>1. CASE closing[CacheOf[t]] = "open"
      <3>1. UNCHANGED <<poolVars, conn>> /\ Goto(t, "put") /\ pc[t] = "release"
        BY <1>7, <2>1 DEF Release
      <3>2. \A u \in Threads : Busy(u)' <=> Busy(u)
        BY <1>1, <3>1, GotoFacts DEF PcStates, Busy
      <3> QED
        BY <3>1, <3>2, KeepsConnection
    <2>2. CASE closing[CacheOf[t]] # "open"
      BY <1>1, <1>7, <2>2, Drops DEF Release
    <2> QED
      BY <2>1, <2>2
  <1>8. ASSUME NEW t \in Threads, Put(t) PROVE PoolInv'
    BY <1>1, <1>8, PutsBack
  <1>9. ASSUME NEW c \in Caches, Close(c) \/ Drain(c) PROVE PoolInv'
    BY <1>1, <1>9, Closes
  <1>10. CASE Tick \/ UNCHANGED vars
    <2>1. UNCHANGED <<poolVars, pc, conn>>
      BY <1>10 DEF Tick, vars, threadVars
    <2> QED
      BY <2>1, KeepsConnection DEF Busy
  <1> QED
    BY <1>2, <1>3, <1>4, <1>5, <1>6, <1>7, <1>8, <1>9, <1>10 DEF Next, Step

----------------------------------------------------------------------------
(***************************************************************************)
(* The threads                                                             *)
(***************************************************************************)
\* What a lookup reads are responses.
LEMMA SelectFound ==
    ASSUME DbTypes, PoolInv, ThreadTypes, NEW t \in Threads, Select(t)
    PROVE  found' \in [Threads -> [Keys -> Values \cup {None}]]
  <1> DEFINE f == [k \in Keys |-> IF k \in op[t].keys /\ Unexpired(View(t)[CacheOf[t]][k])
                                  THEN View(t)[CacheOf[t]][k].value ELSE None]
  <1>1. found' = [found EXCEPT ![t] = f]
    BY DEF Select
  <1>2. View(t) \in Tables /\ CacheOf[t] \in Caches
    BY BusyFacts DEF Select, Running, Busy
  <1>3. \A k \in Keys : Unexpired(View(t)[CacheOf[t]][k]) => View(t)[CacheOf[t]][k].value \in Values
    BY <1>2 DEF Tables, Unexpired, Entry
  <1>4. f \in [Keys -> Values \cup {None}]
    BY <1>3
  <1> HIDE DEF f
  <1> QED
    BY <1>1, <1>4 DEF ThreadTypes

\* Where a step of a thread may put it, and what it leaves of its own state.
LEMMA ThreadNext == TypeOK /\ PoolInv /\ [Next]_vars => ThreadTypes'
  <1> SUFFICES ASSUME TypeOK, PoolInv, [Next]_vars PROVE ThreadTypes'
    OBVIOUS
  <1>1. DbTypes /\ ThreadTypes
    BY TypeParts
  <1>2. Nothing \in [Keys -> Values \cup {None}]
    BY DEF Nothing
  <1>3. ASSUME NEW t \in Threads, Return(t), calls' = calls PROVE ThreadTypes'
    BY <1>1, <1>2, <1>3 DEF ThreadTypes, Return, Goto, PcStates
  <1>4. ASSUME NEW t \in Threads, NEW o \in Ops[t], Begin(t, o) PROVE ThreadTypes'
    <2>1. o \in Op /\ "pool" \in PcStates
      BY CacheAssumption DEF PcStates
    <2>2. pc' \in [Threads -> PcStates] /\ op' \in [Threads -> Op \cup {NoOp}]
      BY <1>1, <1>4, <2>1 DEF Begin, Goto, ThreadTypes
    <2>3. calls' \in [Threads -> Nat] /\ UNCHANGED <<conn, found, quota>>
      BY <1>1, <1>4 DEF Begin, ThreadTypes
    <2> QED
      BY <1>1, <2>2, <2>3 DEF ThreadTypes
  <1>5. ASSUME NEW t \in Threads, TakeIdle(t) PROVE ThreadTypes'
    <2>1. CacheOf[t] \in Caches
      BY CacheAssumption
    <2>2. idle[CacheOf[t]] \subseteq Numbers
      BY <2>1 DEF PoolInv, PoolTypes
    <2>3. conn' \in [Threads -> Numbers \cup {0}]
      BY <1>1, <1>5, <2>2 DEF TakeIdle, ThreadTypes
    <2> QED
      BY <1>1, <1>5, <2>3 DEF TakeIdle, Goto, ThreadTypes, PcStates
  <1>6. ASSUME NEW t \in Threads, FromPool(t) \/ Unblock(t) PROVE ThreadTypes'
    <2>1. CASE TakeIdle(t)
      BY <1>5, <2>1
    <2>2. CASE ~TakeIdle(t)
      BY <1>1, <1>6, <2>2 DEF FromPool, Unblock, Goto, ThreadTypes, PcStates
    <2> QED
      BY <2>1, <2>2
  <1>7. ASSUME NEW t \in Threads, OpenOrBlock(t) PROVE ThreadTypes'
    <2>1. opened' \in [Caches -> Numbers] /\ CacheOf[t] \in Caches
      BY <1>1, <1>7, Opens, CacheAssumption DEF PoolInv, PoolTypes
    <2>2. conn' \in [Threads -> Numbers \cup {0}]
      BY <1>1, <1>7, <2>1 DEF OpenOrBlock, ThreadTypes
    <2>3. pc' \in [Threads -> PcStates]
      BY <1>1, <1>7 DEF OpenOrBlock, Goto, ThreadTypes, PcStates
    <2> QED
      BY <1>1, <1>7, <2>2, <2>3 DEF OpenOrBlock, ThreadTypes
  <1>8. ASSUME NEW t \in Threads, OpenFails(t) \/ Put(t) PROVE ThreadTypes'
    BY <1>3, <1>8 DEF OpenFails, Put
  <1>9. ASSUME NEW t \in Threads, Select(t) PROVE ThreadTypes'
    <2>1. found' \in [Threads -> [Keys -> Values \cup {None}]]
      BY <1>1, <1>9, SelectFound
    <2>2. pc' \in [Threads -> PcStates]
      BY <1>1, <1>9 DEF Select, Goto, ThreadTypes, PcStates
    <2> QED
      BY <1>1, <1>9, <2>1, <2>2 DEF Select, ThreadTypes
  <1>10. ASSUME NEW t \in Threads, Touch(t) PROVE ThreadTypes'
    <2>1. found' = found \/ found' = [found EXCEPT ![t] = Nothing]
      BY <1>1, <1>10 DEF Touch, ThreadTypes
    <2>2. found' \in [Threads -> [Keys -> Values \cup {None}]]
      BY <1>1, <1>2, <2>1 DEF ThreadTypes
    <2>3. pc' \in [Threads -> PcStates] /\ UNCHANGED <<op, conn, quota, calls>>
      BY <1>1, <1>10 DEF Touch, Goto, AfterError, ThreadTypes, PcStates
    <2> QED
      BY <1>1, <2>2, <2>3 DEF ThreadTypes
  <1>11. ASSUME NEW t \in Threads,
                ReadFails(t) \/ Insert(t) \/ InsertBatch(t) \/ Evict(t) \/ Clear(t)
         PROVE  ThreadTypes'
    <2>1. \E q \in {"size", "release"} : Goto(t, q)
      BY <1>11 DEF ReadFails, Insert, InsertBatch, Evict, Clear, AfterError
    <2>2. UNCHANGED <<op, conn, found, quota, calls>>
      BY <1>11 DEF ReadFails, Insert, InsertBatch, Evict, Clear
    <2>3. pc' \in [Threads -> PcStates]
      BY <1>1, <2>1 DEF Goto, ThreadTypes, PcStates
    <2> QED
      BY <1>1, <2>2, <2>3 DEF ThreadTypes
  <1>12. ASSUME NEW t \in Threads, Measure(t) PROVE ThreadTypes'
    <2>1. quota' \in [Threads -> Nat]
      BY <1>1, <1>12, EvictCountFacts DEF Measure, ThreadTypes
    <2>2. pc' \in [Threads -> PcStates] /\ UNCHANGED <<op, conn, found, calls>>
      BY <1>1, <1>12 DEF Measure, Goto, ThreadTypes, PcStates
    <2> QED
      BY <1>1, <2>1, <2>2 DEF ThreadTypes
  <1>13. ASSUME NEW t \in Threads, Release(t) PROVE ThreadTypes'
    <2>1. CASE closing[CacheOf[t]] = "open"
      BY <1>1, <1>13, <2>1 DEF Release, Goto, ThreadTypes, PcStates
    <2>2. CASE closing[CacheOf[t]] # "open"
      BY <1>3, <1>13, <2>2 DEF Release
    <2> QED
      BY <2>1, <2>2
  <1>14. CASE (\E c \in Caches : Close(c) \/ Drain(c)) \/ Tick \/ UNCHANGED vars
    <2>1. UNCHANGED <<pc, op, conn, found, quota, calls>>
      BY <1>14 DEF Close, Drain, Tick, vars, threadVars
    <2> QED
      BY <1>1, <2>1 DEF ThreadTypes
  <1> QED
    BY <1>4, <1>6, <1>7, <1>8, <1>9, <1>10, <1>11, <1>12, <1>13, <1>14 DEF Next, Step

----------------------------------------------------------------------------
(***************************************************************************)
(* The rows, and what errors leave of transactions                         *)
(***************************************************************************)
\* What a user can tell of a row: the response and when it was stored.
Visible(e) == IF e = None THEN None ELSE [value |-> e.value, at |-> e.at]

\* The row holds what was once stored under its key in its namespace.
Known(c, k, e) == e = None \/ Visible(e) \in ever[c][k]

\* One connection at most has the write lock; nothing is in a namespace, or seen there by a
\* transaction of its own cache, that was not stored there; and a transaction that writes
\* has taken no more than rows away from the other namespaces.
TxnInv ==
    /\ \A x, y \in Connections : txn[x] = "writing" /\ txn[y] = "writing" => x = y
    /\ \A c \in Caches, k \in Keys : Known(c, k, row[c][k])
    /\ \A x \in Connections, k \in Keys :
          txn[x] \in {"snapshot", "writing"} => Known(x[1], k, view[x][x[1]][k])
    /\ \A x \in Connections, c \in Caches, k \in Keys :
          txn[x] = "writing" /\ c # x[1] => Visible(view[x][c][k]) \in {Visible(row[c][k]), None}

NewEntry(t) == [value |-> op[t].value, at |-> now, used |-> now]

\* What a write of t makes of the rows it sees: the response under the keys of S, and
\* otherwise what was there, or nothing.
Follows(t, rows, S) ==
    /\ rows \in Tables
    /\ \A c \in Caches, k \in Keys :
          IF c = CacheOf[t] /\ k \in S
          THEN rows[c][k] = NewEntry(t)
          ELSE Visible(rows[c][k]) \in {Visible(View(t)[c][k]), None}

\* Only None looks like None.
LEMMA VisibleFacts ==
    ASSUME NEW e \in Entry \cup {None}
    PROVE  /\ Visible(e) = None <=> e = None
           /\ e # None => /\ Visible(e) = [value |-> e.value, at |-> e.at]
                          /\ e.value \in Values /\ e.at \in 0..MaxTime
  <1>1. e # None => e.value \in Values /\ e.at \in 0..MaxTime
    BY DEF Entry
  <1>2. ASSUME e # None PROVE [value |-> e.value, at |-> e.at] # None
    BY <1>1, <1>2, CacheAssumption
  <1> QED
    BY <1>1, <1>2 DEF Visible

\* The use time of rows does not show.
LEMMA TouchedFollows ==
    ASSUME DbTypes, NEW t \in Threads, View(t) \in Tables, CacheOf[t] \in Caches
    PROVE  Follows(t, Touched(t), {})
  <1> DEFINE d == CacheOf[t]
             w == View(t)
             new == [k \in Keys |-> IF found[t][k] # None /\ w[d][k] # None
                                    THEN [w[d][k] EXCEPT !.used = now] ELSE w[d][k]]
  <1>1. Touched(t) = [w EXCEPT ![d] = new]
    BY DEF Touched
  <1>2. \A e \in Entry : /\ [e EXCEPT !.used = now] \in Entry
                         /\ [e EXCEPT !.used = now].value = e.value
                         /\ [e EXCEPT !.used = now].at = e.at
    BY DEF Entry, DbTypes
  <1>3. \A k \in Keys : w[d][k] \in Entry \cup {None}
    BY DEF Tables
  <1>4. \A k \in Keys : new[k] \in Entry \cup {None} /\ Visible(new[k]) = Visible(w[d][k])
    BY <1>2, <1>3, NoneIsNoEntry DEF Visible
  <1>5. new \in [Keys -> Entry \cup {None}]
    BY <1>4
  <1> HIDE DEF new, w
  <1>6. w \in Tables
    BY DEF w
  <1>7. Touched(t) \in Tables /\ \A c \in Caches : Touched(t)[c] = IF c = d THEN new ELSE w[c]
    BY <1>1, <1>5, <1>6 DEF Tables
  <1>8. \A c \in Caches, k \in Keys : Visible(Touched(t)[c][k]) = Visible(w[c][k])
    BY <1>4, <1>7
  <1> QED
    BY <1>7, <1>8 DEF Follows, w

\* A store puts the response under its keys.
LEMMA StoredFollows ==
    ASSUME DbTypes, NEW t \in Threads, View(t) \in Tables, CacheOf[t] \in Caches,
           op[t].value \in Values, NEW S \in SUBSET Keys
    PROVE  Follows(t, Stored(t, S), S)
  <1> DEFINE d == CacheOf[t]
             w == View(t)
             new == [k \in Keys |-> IF k \in S THEN NewEntry(t) ELSE w[d][k]]
  <1>1. Stored(t, S) = [w EXCEPT ![d] = new]
    BY DEF Stored, NewEntry
  <1>2. NewEntry(t) \in Entry
    BY DEF Entry, DbTypes, NewEntry
  <1>3. new \in [Keys -> Entry \cup {None}]
    BY <1>2 DEF Tables
  <1>4. \A k \in Keys : new[k] = IF k \in S THEN NewEntry(t) ELSE w[d][k]
    OBVIOUS
  <1> HIDE DEF new, w
  <1>5. w \in Tables
    BY DEF w
  <1>6. Stored(t, S) \in Tables /\ \A c \in Caches : Stored(t, S)[c] = IF c = d THEN new ELSE w[c]
    BY <1>1, <1>3, <1>5 DEF Tables
  <1> QED
    BY <1>4, <1>6 DEF Follows, w

\* An eviction takes rows away, in any namespace.
LEMMA WithoutFollows ==
    ASSUME NEW t \in Threads, View(t) \in Tables, NEW S
    PROVE  Follows(t, Without(t, S), {})
  <1>1. Without(t, S) \in Tables
    BY DEF Without, Tables
  <1>2. \A c \in Caches, k \in Keys :
           Without(t, S)[c][k] = IF k \in S THEN None ELSE View(t)[c][k]
    BY DEF Without
  <1> QED
    BY <1>1, <1>2 DEF Follows, Visible

\* Clearing a cache takes the rows of its namespace away.
LEMMA ClearedFollows ==
    ASSUME NEW t \in Threads, View(t) \in Tables, CacheOf[t] \in Caches
    PROVE  Follows(t, Cleared(t), {})
  <1>1. Cleared(t) \in Tables
    BY DEF Cleared, Tables, Nothing
  <1>2. \A c \in Caches, k \in Keys :
           Cleared(t)[c][k] = IF c = CacheOf[t] THEN None ELSE View(t)[c][k]
    BY DEF Cleared, Tables, Nothing
  <1> QED
    BY <1>1, <1>2 DEF Follows, Visible

\* What a step makes of the transaction of a connection.
LEMMA SetTxnFacts ==
    ASSUME DbTypes, NEW t \in Threads, Connection(t) \in Connections,
           NEW how \in TxnStates, NEW r \in Tables, SetTxn(t, how, r)
    PROVE  /\ txn' \in [Connections -> TxnStates] /\ view' \in [Connections -> Tables]
           /\ \A x \in Connections :
                 /\ txn'[x] = IF x = Connection(t) THEN how ELSE txn[x]
                 /\ view'[x] = IF x = Connection(t) THEN r ELSE view[x]
  BY DEF SetTxn, DbTypes

LEMMA NoRowsFacts == NoRows \in Tables /\ \A c \in Caches, k \in Keys : NoRows[c][k] = None
  BY DEF NoRows, Nothing, Tables

\* What is stored is remembered.
Grows ==
    /\ ever' \in [Caches -> [Keys -> SUBSET [value : Values, at : 0..MaxTime]]]
    /\ \A c \in Caches, k \in Keys : ever[c][k] \subseteq ever'[c][k]

\* The rows a connection sees were stored in its namespace, and if it may write, nothing
\* else than what is committed is in the other ones.
LEMMA ViewFacts ==
    ASSUME DbTypes, PoolInv, TxnInv, NEW t \in Threads, Busy(t)
    PROVE  /\ \A k \in Keys : Known(CacheOf[t], k, View(t)[CacheOf[t]][k])
           /\ CanWrite(t) => \A c \in Caches, k \in Keys :
                 c # CacheOf[t] => Visible(View(t)[c][k]) \in {Visible(row[c][k]), None}
           /\ txn[Connection(t)] \in {"none", "begun"} => View(t) = row
  <1>1. CacheOf[t] \in Caches /\ Connection(t) \in Connections /\ Connection(t)[1] = CacheOf[t]
    BY BusyFacts DEF Connection
  <1>2. ASSUME NEW k \in Keys PROVE Known(CacheOf[t], k, View(t)[CacheOf[t]][k])
    BY <1>1 DEF TxnInv, View
  <1>3. ASSUME CanWrite(t), NEW c \in Caches, NEW k \in Keys, c # CacheOf[t]
        PROVE  Visible(View(t)[c][k]) \in {Visible(row[c][k]), None}
    BY <1>1, <1>3 DEF TxnInv, View, CanWrite
  <1>4. txn[Connection(t)] \in {"none", "begun"} => View(t) = row
    BY DEF View
  <1> QED
    BY <1>2, <1>3, <1>4

\* Rows that t may put in the place of those it sees.
Fits(t, r) ==
    /\ r \in Tables
    /\ \A k \in Keys : r[CacheOf[t]][k] = None \/ Visible(r[CacheOf[t]][k]) \in ever'[CacheOf[t]][k]
    /\ CanWrite(t) => \A c \in Caches, k \in Keys :
          c # CacheOf[t] => Visible(r[c][k]) \in {Visible(row[c][k]), None}

LEMMA ViewFits ==
    ASSUME DbTypes, PoolInv, TxnInv, NEW t \in Threads, Busy(t), Grows
    PROVE  Fits(t, View(t))
  BY BusyFacts, ViewFacts DEF Fits, Grows, Known

LEMMA WriteFits ==
    ASSUME DbTypes, PoolInv, TxnInv, NEW t \in Threads, Busy(t), Grows,
           NEW S \in SUBSET Keys, NEW r, Follows(t, r, S),
           \A k \in S : Visible(NewEntry(t)) \in ever'[CacheOf[t]][k]
    PROVE  Fits(t, r)
  <1> DEFINE d == CacheOf[t]
  <1>1. d \in Caches /\ View(t) \in Tables /\ r \in Tables
    BY BusyFacts DEF Follows
  <1>2. /\ \A k \in Keys : Known(d, k, View(t)[d][k])
        /\ CanWrite(t) => \A c \in Caches, k \in Keys :
              c # d => Visible(View(t)[c][k]) \in {Visible(row[c][k]), None}
    BY ViewFacts
  <1>3. ASSUME NEW k \in Keys PROVE r[d][k] = None \/ Visible(r[d][k]) \in ever'[d][k]
    <2>1. CASE k \in S
      BY <1>1, <2>1 DEF Follows
    <2>2. CASE k \notin S
      <3>1. Visible(r[d][k]) \in {Visible(View(t)[d][k]), None}
        BY <1>1, <2>2 DEF Follows
      <3>2. /\ View(t)[d][k] \in Entry \cup {None} /\ r[d][k] \in Entry \cup {None}
        BY <1>1 DEF Tables
      <3>3. /\ Visible(r[d][k]) = None <=> r[d][k] = None
            /\ Visible(View(t)[d][k]) = None <=> View(t)[d][k] = None
        BY <3>2, VisibleFacts
      <3>4. View(t)[d][k] = None \/ Visible(View(t)[d][k]) \in ever[d][k]
        BY <1>2 DEF Known
      <3> QED
        BY <1>1, <3>1, <3>3, <3>4 DEF Grows
    <2> QED
      BY <2>1, <2>2
  <1>4. ASSUME CanWrite(t), NEW c \in Caches, NEW k \in Keys, c # d
        PROVE  Visible(r[c][k]) \in {Visible(row[c][k]), None}
    <2>1. Visible(r[c][k]) \in {Visible(View(t)[c][k]), None}
      BY <1>4 DEF Follows
    <2> QED
      BY <1>2, <1>4, <2>1
  <1> QED
    BY <1>1, <1>3, <1>4 DEF Fits

\* How a write, an error of it, or a commit of nothing ends.
Ends(t, r) == Commits(t, r) \/ Leaves(t, r) \/ (SetTxn(t, "none", NoRows) /\ UNCHANGED row)

\* However a write ends, nothing comes to be seen that was not stored.
LEMMA WriteKeeps ==
    ASSUME DbTypes, PoolInv, TxnInv, NEW t \in Threads, Busy(t), Grows, now' = now,
           NEW S \in SUBSET Keys, NEW r, Follows(t, r, S), Ends(t, r),
           \A k \in S : Visible(NewEntry(t)) \in ever'[CacheOf[t]][k]
    PROVE  DbTypes' /\ TxnInv'
  <1> DEFINE x == Connection(t)
             d == CacheOf[t]
  <1>1. d \in Caches /\ x \in Connections /\ x[1] = d
    BY BusyFacts DEF Connection
  <1>2. Fits(t, r) /\ Fits(t, View(t))
    BY ViewFits, WriteFits
  <1>3. NoRows \in Tables
    BY NoRowsFacts
  <1>4. ASSUME NEW y \in Connections, txn[y] \in {"snapshot", "writing"}, NEW k \in Keys
        PROVE  view[y][y[1]][k] = None \/ Visible(view[y][y[1]][k]) \in ever'[y[1]][k]
    BY <1>4 DEF TxnInv, Known, Grows, Connections
  <1>5. \A c \in Caches, k \in Keys : row[c][k] = None \/ Visible(row[c][k]) \in ever'[c][k]
    BY DEF TxnInv, Known, Grows
  <1>6. CASE Commits(t, r)
    <2>1. CanWrite(t) /\ row' = r /\ SetTxn(t, "none", NoRows)
      BY <1>6 DEF Commits
    <2>2. /\ txn' \in [Connections -> TxnStates] /\ view' \in [Connections -> Tables]
          /\ \A y \in Connections : /\ txn'[y] = IF y = x THEN "none" ELSE txn[y]
                                    /\ y # x => view'[y] = view[y]
      BY <1>1, <1>3, <2>1, SetTxnFacts DEF TxnStates
    <2>3. \A y \in Connections : txn'[y] # "writing"
      BY <1>1, <2>1, <2>2 DEF CanWrite, TxnInv
    <2>4. ASSUME NEW c \in Caches, NEW k \in Keys
          PROVE  row'[c][k] = None \/ Visible(row'[c][k]) \in ever'[c][k]
      <3>1. CASE c = d
        BY <1>2, <2>1, <3>1 DEF Fits
      <3>2. CASE c # d
        <4>1. Visible(r[c][k]) \in {Visible(row[c][k]), None} /\ r[c][k] \in Entry \cup {None}
          BY <1>2, <2>1, <3>2 DEF Fits, Tables
        <4>2. /\ Visible(r[c][k]) = None <=> r[c][k] = None
              /\ Visible(row[c][k]) = None <=> row[c][k] = None
          BY <4>1, VisibleFacts DEF DbTypes, Tables
        <4> QED
          BY <1>5, <2>1, <4>1, <4>2
      <3> QED
        BY <3>1, <3>2
    <2>5. ASSUME NEW y \in Connections, NEW k \in Keys, txn'[y] \in {"snapshot", "writing"}
          PROVE  view'[y][y[1]][k] = None \/ Visible(view'[y][y[1]][k]) \in ever'[y[1]][k]
      BY <1>4, <2>2, <2>5
    <2>6. DbTypes'
      BY <1>2, <2>1, <2>2 DEF DbTypes, Fits, Grows
    <2>7. TxnInv'
      BY <2>3, <2>4, <2>5 DEF TxnInv, Known, Visible
    <2> QED
      BY <2>6, <2>7
  <1>7. ASSUME NEW how \in TxnStates, NEW w \in Tables, SetTxn(t, how, w), row' = row,
               how = "writing" => CanWrite(t),
               how \in {"snapshot", "writing"} => Fits(t, w)
        PROVE  DbTypes' /\ TxnInv'
    <2>1. /\ txn' \in [Connections -> TxnStates] /\ view' \in [Connections -> Tables]
          /\ \A y \in Connections : /\ txn'[y] = IF y = x THEN how ELSE txn[y]
                                    /\ view'[y] = IF y = x THEN w ELSE view[y]
      BY <1>1, <1>7, SetTxnFacts
    <2>2. \A y, z \in Connections : txn'[y] = "writing" /\ txn'[z] = "writing" => y = z
      BY <1>1, <1>7, <2>1 DEF CanWrite, TxnInv
    <2>3. ASSUME NEW y \in Connections, NEW k \in Keys, txn'[y] \in {"snapshot", "writing"}
          PROVE  view'[y][y[1]][k] = None \/ Visible(view'[y][y[1]][k]) \in ever'[y[1]][k]
      BY <1>1, <1>4, <1>7, <2>1, <2>3 DEF Fits
    <2>4. ASSUME NEW y \in Connections, NEW c \in Caches, NEW k \in Keys, txn'[y] = "writing", c # y[1]
          PROVE  Visible(view'[y][c][k]) \in {Visible(row'[c][k]), None}
      BY <1>1, <1>7, <2>1, <2>4 DEF Fits, TxnInv
    <2>5. DbTypes'
      BY <1>7, <2>1 DEF DbTypes, Grows
    <2>6. TxnInv'
      BY <1>5, <1>7, <2>2, <2>3, <2>4 DEF TxnInv, Known, Visible
    <2> QED
      BY <2>5, <2>6
  <1>8. CASE SetTxn(t, "none", NoRows) /\ UNCHANGED row
    BY <1>3, <1>7, <1>8 DEF TxnStates
  <1>9. CASE Leaves(t, r)
    <2>1. CASE SetTxn(t, "begun", NoRows)
      BY <1>3, <1>7, <1>9, <2>1 DEF TxnStates, Leaves
    <2>2. CASE UNCHANGED <<txn, view>>
      <3>1. row' = row
        BY <1>9 DEF Leaves
      <3>2. DbTypes'
        BY <2>2, <3>1 DEF DbTypes, Grows
      <3>3. TxnInv'
        BY <1>4, <1>5, <2>2, <3>1 DEF TxnInv, Known, Visible
      <3> QED
        BY <3>2, <3>3
    <2>3. CASE CanWrite(t) /\ \E w \in {View(t), r} : SetTxn(t, "writing", w)
      <3>1. PICK w \in {View(t), r} : SetTxn(t, "writing", w)
        BY <2>3
      <3>2. Fits(t, w) /\ w \in Tables /\ row' = row
        BY <1>2, <1>9, <3>1 DEF Fits, Leaves
      <3> HIDE DEF x, d
      <3> QED
        BY <1>7, <2>3, <3>1, <3>2 DEF TxnStates
    <2> QED
      BY <1>8, <1>9, <2>1, <2>2, <2>3 DEF Leaves
  <1> QED
    BY <1>6, <1>8, <1>9 DEF Ends

\* What a store records.
LEMMA RecordedFacts ==
    ASSUME DbTypes, NEW t \in Threads, CacheOf[t] \in Caches, NEW S \in SUBSET Keys,
           op[t].value \in Values, Recorded(t, S)
    PROVE  /\ Grows
           /\ \A k \in S : Visible(NewEntry(t)) \in ever'[CacheOf[t]][k]
           /\ Visible(NewEntry(t)) = [value |-> op[t].value, at |-> now]
  <1> DEFINE d == CacheOf[t]
             e == [value |-> op[t].value, at |-> now]
             new == [k \in Keys |-> IF k \in S THEN ever[d][k] \cup {e} ELSE ever[d][k]]
  <1>1. NewEntry(t) \in Entry /\ now \in 0..MaxTime
    BY DEF NewEntry, Entry, DbTypes
  <1>2. Visible(NewEntry(t)) = e
    BY <1>1, NoneIsNoEntry DEF Visible, NewEntry
  <1>3. e \in [value : Values, at : 0..MaxTime]
    BY <1>1
  <1>4. ever' = [ever EXCEPT ![d] = new]
    BY DEF Recorded
  <1> HIDE DEF e
  <1>5. new \in [Keys -> SUBSET [value : Values, at : 0..MaxTime]]
    BY <1>3 DEF DbTypes
  <1>6. \A k \in Keys : ever[d][k] \subseteq new[k] /\ (k \in S => e \in new[k])
    OBVIOUS
  <1> HIDE DEF new
  <1>7. /\ ever' \in [Caches -> [Keys -> SUBSET [value : Values, at : 0..MaxTime]]]
        /\ \A c \in Caches : ever'[c] = IF c = d THEN new ELSE ever[c]
    BY <1>4, <1>5 DEF DbTypes
  <1>8. Grows
    BY <1>6, <1>7 DEF Grows
  <1>9. \A k \in S : e \in ever'[d][k]
    BY <1>6, <1>7
  <1> QED
    BY <1>2, <1>8, <1>9 DEF e

\* The steps that write: how each one ends, what it writes, and what it records.
LEMMA WriteSteps ==
    ASSUME DbTypes, PoolInv, ThreadTypes, NEW t \in Threads,
           Touch(t) \/ Insert(t) \/ InsertBatch(t) \/ Evict(t) \/ Clear(t)
    PROVE  /\ Busy(t) /\ now' = now
           /\ \/ /\ ever' = ever
                 /\ \E r : Follows(t, r, {}) /\ Ends(t, r)
              \/ /\ op[t].value \in Values /\ found' = found
                 /\ \E S \in SUBSET Keys : /\ Recorded(t, S)
                                           /\ \E r : Follows(t, r, S) /\ Ends(t, r)
  <1>1. Busy(t) /\ now' = now
    BY DEF Touch, Insert, InsertBatch, Evict, Clear, Running, Busy
  <1>2. CacheOf[t] \in Caches /\ View(t) \in Tables
    BY <1>1, BusyFacts
  <1>3. CASE Touch(t)
    <2>1. ever' = ever /\ Ends(t, Touched(t))
      BY <1>3 DEF Touch, Ends, Fails
    <2> QED
      BY <1>1, <1>2, <2>1, TouchedFollows
  <1>4. CASE Evict(t)
    <2>1. PICK S \in Oldest(t, quota[t]) : Commits(t, Without(t, S)) \/ Fails(t, Without(t, S))
      BY <1>4 DEF Evict
    <2>2. ever' = ever /\ Ends(t, Without(t, S))
      BY <1>4, <2>1 DEF Evict, Ends, Fails
    <2> QED
      BY <1>1, <1>2, <2>2, WithoutFollows
  <1>5. CASE Clear(t)
    <2>1. ever' = ever /\ Ends(t, Cleared(t))
      BY <1>5 DEF Clear, Ends, Fails
    <2> QED
      BY <1>1, <1>2, <2>1, ClearedFollows
  <1>6. CASE Insert(t)
    <2>1. /\ op[t].value \in Values /\ op[t].keys \in SUBSET Keys /\ found' = found
          /\ Recorded(t, op[t].keys) /\ Ends(t, Stored(t, op[t].keys))
      BY <1>6, OpFacts DEF Insert, Running, Ends, Fails
    <2> QED
      BY <1>1, <1>2, <2>1, StoredFollows
  <1>7. CASE InsertBatch(t)
    <2>1. /\ op[t].value \in Values /\ op[t].keys \in SUBSET Keys /\ found' = found
      BY <1>7, OpFacts DEF InsertBatch, Running
    <2>2. PICK S \in SUBSET op[t].keys : Recorded(t, S) /\ Ends(t, Stored(t, S))
      BY <1>7 DEF InsertBatch, Ends
    <2> QED
      BY <1>1, <1>2, <2>1, <2>2, StoredFollows
  <1> QED
    BY <1>3, <1>4, <1>5, <1>6, <1>7

\* A connection that is closed forgets its transaction.
LEMMA RollsBack ==
    ASSUME DbTypes, TxnInv, NEW x \in Connections, RollBack(x), now' = now
    PROVE  DbTypes' /\ TxnInv'
  <1>1. /\ txn' \in [Connections -> TxnStates] /\ view' \in [Connections -> Tables]
        /\ \A y \in Connections : /\ txn'[y] = IF y = x THEN "none" ELSE txn[y]
                                  /\ y # x => view'[y] = view[y]
    BY NoRowsFacts DEF RollBack, DbTypes, TxnStates
  <1>2. UNCHANGED <<row, ever>>
    BY DEF RollBack
  <1>3. DbTypes'
    BY <1>1, <1>2 DEF DbTypes
  <1>4. TxnInv'
    BY <1>1, <1>2 DEF TxnInv, Known, Visible
  <1> QED
    BY <1>3, <1>4

\* A transaction that reads for the first time sees what is committed.
LEMMA SelectKeeps ==
    ASSUME DbTypes, PoolInv, TxnInv, NEW t \in Threads, Select(t)
    PROVE  DbTypes' /\ TxnInv'
  <1>1. Busy(t) /\ UNCHANGED <<row, ever, now>>
    BY DEF Select, Running, Busy
  <1>2. Connection(t) \in Connections
    BY <1>1, BusyFacts
  <1>3. CASE UNCHANGED <<txn, view>>
    BY <1>1, <1>3 DEF DbTypes, TxnInv, Known, Visible
  <1>4. CASE SetTxn(t, "snapshot", row)
    <2>1. /\ txn' \in [Connections -> TxnStates] /\ view' \in [Connections -> Tables]
          /\ \A y \in Connections : /\ txn'[y] = IF y = Connection(t) THEN "snapshot" ELSE txn[y]
                                    /\ view'[y] = IF y = Connection(t) THEN row ELSE view[y]
      BY <1>2, <1>4, SetTxnFacts DEF TxnStates, DbTypes
    <2>2. DbTypes'
      BY <1>1, <2>1 DEF DbTypes
    <2>3. \A y \in Connections : y[1] \in Caches
      BY DEF Connections
    <2>4. TxnInv'
      BY <1>1, <2>1, <2>3 DEF TxnInv, Known, Visible
    <2> QED
      BY <2>2, <2>4
  <1> QED
    BY <1>3, <1>4 DEF Select

\* The database keeps its types, and its transactions the invariant.
LEMMA DbNext == TypeOK /\ PoolInv /\ TxnInv /\ [Next]_vars => DbTypes' /\ TxnInv'
  <1> SUFFICES ASSUME TypeOK, PoolInv, TxnInv, [Next]_vars PROVE DbTypes' /\ TxnInv'
    OBVIOUS
  <1>1. DbTypes /\ ThreadTypes
    BY TypeParts
  <1>2. ASSUME UNCHANGED <<row, txn, view, ever>>, now' \in 0..MaxTime PROVE DbTypes' /\ TxnInv'
    BY <1>1, <1>2 DEF DbTypes, TxnInv, Known, Visible
  <1>3. now \in 0..MaxTime
    BY <1>1 DEF DbTypes
  <1>4. ASSUME NEW t \in Threads,
               Touch(t) \/ Insert(t) \/ InsertBatch(t) \/ Evict(t) \/ Clear(t)
        PROVE  DbTypes' /\ TxnInv'
    <2>1. Busy(t) /\ now' = now /\ CacheOf[t] \in Caches
      BY <1>1, <1>4, WriteSteps, CacheAssumption
    <2>2. CASE ever' = ever /\ \E r : Follows(t, r, {}) /\ Ends(t, r)
      <3>1. PICK r : Follows(t, r, {}) /\ Ends(t, r)
        BY <2>2
      <3>2. Grows
        BY <1>1, <2>2 DEF Grows, DbTypes
      <3> QED
        BY <1>1, <2>1, <3>1, <3>2, WriteKeeps
    <2>3. ASSUME op[t].value \in Values, NEW S \in SUBSET Keys, Recorded(t, S),
                 NEW r, Follows(t, r, S), Ends(t, r)
          PROVE  DbTypes' /\ TxnInv'
      <3>1. Grows /\ \A k \in S : Visible(NewEntry(t)) \in ever'[CacheOf[t]][k]
        BY <1>1, <2>1, <2>3, RecordedFacts
      <3> QED
        BY <1>1, <2>1, <2>3, <3>1, WriteKeeps
    <2> QED
      BY <1>1, <1>4, <2>2, <2>3, WriteSteps
  <1>5. ASSUME NEW t \in Threads, Select(t) PROVE DbTypes' /\ TxnInv'
    BY <1>1, <1>5, SelectKeeps
  <1>6. ASSUME NEW t \in Threads, Release(t) PROVE DbTypes' /\ TxnInv'
    <2>1. CASE closing[CacheOf[t]] = "open"
      <3>1. UNCHANGED <<row, txn, view, ever, now>>
        BY <1>6, <2>1 DEF Release, dbVars
      <3> QED
        BY <1>2, <1>3, <3>1
    <2>2. CASE closing[CacheOf[t]] # "open"
      <3>1. RollBack(Connection(t)) /\ now' = now /\ Busy(t)
        BY <1>6, <2>2 DEF Release, Busy
      <3> QED
        BY <1>1, <3>1, BusyFacts, RollsBack
    <2> QED
      BY <2>1, <2>2
  <1>7. ASSUME NEW c \in Caches, Drain(c) PROVE DbTypes' /\ TxnInv'
    <2>1. CASE \E n \in idle[c] : RollBack(<<c, n>>)
      <3>1. PICK n \in idle[c] : RollBack(<<c, n>>)
        BY <2>1
      <3>2. <<c, n>> \in Connections
        BY DEF Connections, PoolInv, PoolTypes
      <3>3. now' = now
        BY <1>7 DEF Drain
      <3> QED
        BY <1>1, <3>1, <3>2, <3>3, RollsBack
    <2>2. CASE UNCHANGED dbVars
      <3>1. UNCHANGED <<row, txn, view, ever, now>>
        BY <1>7, <2>2 DEF Drain, dbVars
      <3> QED
        BY <1>2, <1>3, <3>1
    <2> QED
      BY <1>7, <2>1, <2>2 DEF Drain
  <1>8. ASSUME NEW t \in Threads,
               \/ FromPool(t) \/ OpenOrBlock(t) \/ OpenFails(t) \/ Unblock(t) \/ ReadFails(t)
               \/ Measure(t) \/ Put(t) \/ \E o \in Ops[t] : Begin(t, o)
        PROVE  DbTypes' /\ TxnInv'
    <2>1. UNCHANGED dbVars /\ now' = now
      BY <1>8 DEF FromPool, OpenOrBlock, OpenFails, Unblock, TakeIdle, ReadFails, Measure, Put, Begin
    <2>2. UNCHANGED <<row, txn, view, ever>>
      BY <2>1 DEF dbVars
    <2> QED
      BY <1>2, <1>3, <2>1, <2>2
  <1>9. CASE (\E c \in Caches : Close(c)) \/ UNCHANGED vars
    <2>1. UNCHANGED <<row, txn, view, ever, now>>
      BY <1>9 DEF Close, vars, dbVars
    <2> QED
      BY <1>2, <1>3, <2>1
  <1>10. CASE Tick
    <2>1. now' = now + 1 /\ now < MaxTime /\ MaxTime \in Nat /\ UNCHANGED <<row, txn, view, ever>>
      BY <1>10, CacheAssumption DEF Tick, dbVars
    <2> QED
      BY <1>2, <1>3, <2>1
  <1> QED
    BY <1>4, <1>5, <1>6, <1>7, <1>8, <1>9, <1>10 DEF Next, Step

----------------------------------------------------------------------------
(***************************************************************************)
(* The invariant                                                           *)
(***************************************************************************)
IInv == TypeOK /\ PoolInv /\ TxnInv

LEMMA InitInv == Init => IInv
  <1> SUFFICES ASSUME Init PROVE IInv
    OBVIOUS
  <1>1. 0 \in 0..MaxTime /\ 1 \in Numbers /\ MaxConnections \in Nat
    BY CacheAssumption DEF Numbers
  <1>2. NoRows \in Tables /\ \A c \in Caches, k \in Keys : NoRows[c][k] = None
    BY NoRowsFacts
  <1>3. DbTypes
    BY <1>1, <1>2 DEF Init, DbTypes, TxnStates
  <1>4. PoolTypes
    BY <1>1 DEF Init, PoolTypes
  <1>5. ThreadTypes
    BY DEF Init, ThreadTypes, PcStates, Nothing
  <1>6. \A t \in Threads : ~Busy(t)
    BY DEF Init, Busy
  <1>7. ConnectionsAccounted
    BY <1>6 DEF Init, ConnectionsAccounted, Held
  <1>8. TxnInv
    BY <1>2 DEF Init, TxnInv, Known
  <1> QED
    BY <1>3, <1>4, <1>5, <1>7, <1>8, TypeParts DEF IInv, PoolInv

LEMMA NextInv == IInv /\ [Next]_vars => IInv'
  <1> SUFFICES ASSUME IInv, [Next]_vars PROVE IInv'
    OBVIOUS
  <1>1. ThreadTypes' /\ PoolInv' /\ DbTypes' /\ TxnInv'
    BY ThreadNext, PoolNext, DbNext DEF IInv
  <1>2. TypeOK'
    BY <1>1 DEF TypeOK, DbTypes, PoolInv, PoolTypes, ThreadTypes, PcStates, TxnStates
  <1> QED
    BY <1>1, <1>2 DEF IInv

LEMMA Invariance == Spec => []IInv
  BY InitInv, NextInv, PTL DEF Spec

\* Every variable of the cache has its type, for any number of caches, threads and
\* connections.
THEOREM TypeCorrect == Spec => []TypeOK
  <1>1. IInv => TypeOK
    BY DEF IInv
  <1> QED
    BY <1>1, Invariance, PTL

\* No connection is lost or given to two threads, whatever fails and whenever the cache is
\* closed.
THEOREM NoConnectionLost == Spec => []ConnectionsAccounted
  <1>1. IInv => ConnectionsAccounted
    BY DEF IInv, PoolInv
  <1> QED
    BY <1>1, Invariance, PTL

----------------------------------------------------------------------------
(***************************************************************************)
(* The cache is a ResponseCache                                            *)
(***************************************************************************)
\* The entries of a ResponseCache that the rows stand for.
Told == [c \in Caches |-> [k \in Keys |->
            IF row[c][k] = None THEN None ELSE [value |-> row[c][k].value, at |-> row[c][k].at]]]

\* The caches of which a connection has a transaction that was left open.
Left == [c \in Caches |-> \E n \in Numbers : txn[<<c, n>>] # "none"]

LEMMA ToldFacts ==
    /\ \A c \in Caches, k \in Keys : Told[c][k] = Visible(row[c][k])
    /\ DOMAIN Told = Caches /\ \A c \in Caches : DOMAIN Told[c] = Keys
  BY DEF Told, Visible

LEMMA ToldNext ==
    /\ \A c \in Caches, k \in Keys : Told'[c][k] = Visible(row'[c][k])
    /\ DOMAIN Told' = Caches /\ \A c \in Caches : DOMAIN Told'[c] = Keys
  BY DEF Told, Visible

\* If the step concerns one connection, work is left behind or ends in its cache only.
LEMMA LeftStep ==
    ASSUME NEW x \in Connections, \A y \in Connections : y # x => txn'[y] = txn[y]
    PROVE  \E b \in BOOLEAN : Left' = [Left EXCEPT ![x[1]] = b]
  <1> DEFINE d == x[1]
  <1>1. d \in Caches /\ \A c \in Caches, n \in Numbers : <<c, n>> \in Connections /\ <<c, n>>[1] = c
    BY DEF Connections
  <1>2. \A c \in Caches : c # d => (Left'[c] <=> Left[c])
    BY <1>1 DEF Left
  <1>3. \A c \in Caches : Left'[c] \in BOOLEAN /\ Left[c] \in BOOLEAN
    BY DEF Left
  <1>4. Left' = [c \in Caches |-> Left'[c]] /\ Left = [c \in Caches |-> Left[c]]
    BY DEF Left
  <1>5. Left' = [Left EXCEPT ![d] = Left'[d]]
    <2>1. \A c \in Caches : Left'[c] = [Left EXCEPT ![d] = Left'[d]][c]
      BY <1>1, <1>2, <1>3, <1>4
    <2> QED
      BY <1>4, <2>1
  <1> QED
    BY <1>1, <1>3, <1>5

\* Nothing is left behind in a cache: each of its connections sees what is committed.
LEMMA NothingLeft ==
    ASSUME DbTypes, PoolInv, NEW t \in Threads, Busy(t), ~Left[CacheOf[t]]
    PROVE  View(t) = row
  <1>1. CacheOf[t] \in Caches /\ conn[t] \in Numbers
    BY BusyFacts
  <1>2. txn[Connection(t)] = "none"
    BY <1>1 DEF Left, Connection
  <1> QED
    BY <1>2 DEF View

\* A row that t sees in its own namespace is the entry of its key, or what was left behind.
LEMMA Sees ==
    ASSUME DbTypes, PoolInv, TxnInv, NEW t \in Threads, Busy(t), NEW k \in Keys
    PROVE  /\ View(t)[CacheOf[t]][k] \in Entry \cup {None}
           /\ Visible(View(t)[CacheOf[t]][k]) \in
                 {Told[CacheOf[t]][k], None}
                 \cup (IF Left[CacheOf[t]] THEN ever[CacheOf[t]][k] ELSE {})
  <1> DEFINE d == CacheOf[t]
  <1>1. d \in Caches /\ View(t)[d][k] \in Entry \cup {None}
    BY BusyFacts DEF Tables
  <1>2. CASE Left[d]
    BY <1>1, <1>2, ViewFacts DEF Known, Visible
  <1>3. CASE ~Left[d]
    BY <1>1, <1>3, NothingLeft, ToldFacts
  <1> QED
    BY <1>1, <1>2, <1>3

\* How a write ends, as a ResponseCache has it.
LEMMA EndsImplements ==
    ASSUME DbTypes, PoolInv, TxnInv, NEW t \in Threads, Busy(t),
           NEW S \in SUBSET Keys, NEW r, Follows(t, r, S), Ends(t, r)
    PROVE  /\ \E b \in BOOLEAN : Left' = [Left EXCEPT ![CacheOf[t]] = b]
           /\ \/ row' = row
              \/ /\ \A k \in S : Told'[CacheOf[t]][k] = Visible(NewEntry(t))
                 /\ \A k \in Keys \ S : Told'[CacheOf[t]][k] \in
                       {Told[CacheOf[t]][k], None}
                       \cup (IF Left[CacheOf[t]] THEN ever[CacheOf[t]][k] ELSE {})
                 /\ \A c \in Caches, k \in Keys :
                       c # CacheOf[t] => Told'[c][k] \in {Told[c][k], None}
  <1> DEFINE x == Connection(t)
             d == CacheOf[t]
  <1>1. d \in Caches /\ x \in Connections /\ x[1] = d
    BY BusyFacts DEF Connection
  <1>2. \A y \in Connections : y # x => txn'[y] = txn[y]
    BY DEF Ends, Commits, Leaves, SetTxn, DbTypes
  <1>3. \E b \in BOOLEAN : Left' = [Left EXCEPT ![d] = b]
    BY <1>1, <1>2, LeftStep
  <1>4. CASE row' = row
    BY <1>3, <1>4
  <1>5. CASE Commits(t, r)
    <2>1. CanWrite(t) /\ row' = r
      BY <1>5 DEF Commits
    <2>2. ASSUME NEW k \in S PROVE Told'[d][k] = Visible(NewEntry(t))
      BY <1>1, <2>1, ToldNext DEF Follows
    <2>3. ASSUME NEW k \in Keys \ S
          PROVE  Told'[d][k] \in {Told[d][k], None} \cup (IF Left[d] THEN ever[d][k] ELSE {})
      <3>1. Told'[d][k] \in {Visible(View(t)[d][k]), None}
        BY <1>1, <2>1, ToldNext DEF Follows
      <3> QED
        BY <3>1, Sees
    <2>4. ASSUME NEW c \in Caches, NEW k \in Keys, c # d
          PROVE  Told'[c][k] \in {Told[c][k], None}
      <3>1. Told'[c][k] \in {Visible(View(t)[c][k]), None}
        BY <2>1, <2>4, ToldNext DEF Follows
      <3>2. Visible(View(t)[c][k]) \in {Visible(row[c][k]), None}
        BY <2>1, <2>4, ViewFacts
      <3> QED
        BY <2>4, <3>1, <3>2, ToldFacts
    <2> QED
      BY <1>3, <2>2, <2>3, <2>4
  <1> QED
    BY <1>4, <1>5 DEF Ends, Leaves

\* What work of one connection does to a ResponseCache that nothing else happens to.
LEMMA LeavesImplements ==
    ASSUME NEW t \in Threads, row' = row, ever' = ever, now' = now,
           \E b \in BOOLEAN : Left' = [Left EXCEPT ![CacheOf[t]] = b],
           found' = [found EXCEPT ![t] = found[t]] \/ found' = [found EXCEPT ![t] = Nothing]
    PROVE  Responses!LookupFails(t)
  BY DEF Responses!LookupFails, Responses!Leaves, Responses!Nothing, Nothing, Left

\* A store.
LEMMA StoreImplements ==
    ASSUME DbTypes, PoolInv, TxnInv, NEW t \in Threads, Busy(t), now' = now, found' = found,
           op[t].value \in Values, NEW S \in SUBSET Keys, Recorded(t, S),
           NEW r, Follows(t, r, S), Ends(t, r)
    PROVE  Responses!Store(CacheOf[t])
  <1> DEFINE d == CacheOf[t]
             e == [value |-> op[t].value, at |-> now]
  <1>1. d \in Caches
    BY BusyFacts
  <1>2. Visible(NewEntry(t)) = e
    BY <1>1, RecordedFacts
  <1>3. ever' = [ever EXCEPT ![d] = [k \in Keys |-> IF k \in S THEN ever[d][k] \cup {e} ELSE ever[d][k]]]
    BY DEF Recorded
  <1>4. /\ \E b \in BOOLEAN : Left' = [Left EXCEPT ![d] = b]
        /\ \/ row' = row
           \/ /\ \A k \in S : Told'[d][k] = e
              /\ \A k \in Keys \ S : Told'[d][k] \in
                    {Told[d][k], None} \cup (IF Left[d] THEN ever[d][k] ELSE {})
              /\ \A c \in Caches, k \in Keys : c # d => Told'[c][k] \in {Told[c][k], None}
    BY <1>2, EndsImplements
  <1>5. row' = row => Told' = Told
    BY DEF Told
  <1>6. DOMAIN Told' = Caches /\ \A c \in Caches : DOMAIN Told'[c] = Keys
    BY ToldNext
  <1>7. Responses!Leaves(d)
    BY <1>4 DEF Responses!Leaves, Left
  <1>8. \/ Told' = Told
        \/ (\A k \in S : Told'[d][k] = e) /\ Responses!Others(d, S) /\ Responses!Elsewhere(d)
    <2>1. CASE row' = row
      BY <1>5, <2>1
    <2>2. CASE row' # row
      <3>1. Responses!Others(d, S)
        BY <1>4, <2>2 DEF Responses!Others, Told, Left
      <3>2. Responses!Elsewhere(d)
        BY <1>4, <1>6, <2>2 DEF Responses!Elsewhere, Told
      <3> QED
        BY <1>4, <2>2, <3>1, <3>2
    <2> QED
      BY <2>1, <2>2
  <1> QED
    BY <1>3, <1>7, <1>8 DEF Responses!Store, Told

\* A write that stores nothing.
LEMMA ChangeImplements ==
    ASSUME DbTypes, PoolInv, TxnInv, NEW t \in Threads, Busy(t), now' = now, found' = found,
           ever' = ever, NEW r, Follows(t, r, {}), Ends(t, r)
    PROVE  Responses!Change(CacheOf[t])
  <1> DEFINE d == CacheOf[t]
  <1>1. d \in Caches
    BY BusyFacts
  <1>2. /\ \E b \in BOOLEAN : Left' = [Left EXCEPT ![d] = b]
        /\ \/ row' = row
           \/ /\ \A k \in Keys \ {} : Told'[d][k] \in
                    {Told[d][k], None} \cup (IF Left[d] THEN ever[d][k] ELSE {})
              /\ \A c \in Caches, k \in Keys : c # d => Told'[c][k] \in {Told[c][k], None}
    BY EndsImplements
  <1>3. row' = row => \A c \in Caches, k \in Keys : Told'[c][k] = Told[c][k]
    BY DEF Told
  <1>4. DOMAIN Told' = Caches /\ \A c \in Caches : DOMAIN Told'[c] = Keys
    BY ToldNext
  <1>5. Responses!Leaves(d)
    BY <1>2 DEF Responses!Leaves, Left
  <1>6. Responses!Others(d, {})
    BY <1>1, <1>2, <1>3 DEF Responses!Others, Told, Left
  <1>7. Responses!Elsewhere(d)
    BY <1>2, <1>3, <1>4 DEF Responses!Elsewhere, Told
  <1> QED
    BY <1>5, <1>6, <1>7 DEF Responses!Change

\* A lookup returns what t sees under its keys in its namespace, unless it has expired.
LEMMA SelectImplements ==
    ASSUME DbTypes, PoolInv, TxnInv, ThreadTypes, NEW t \in Threads, Select(t)
    PROVE  Responses!Lookup(t)
  <1> DEFINE d == CacheOf[t]
             w == View(t)
             f == [k \in Keys |-> IF k \in op[t].keys /\ Unexpired(w[d][k])
                                  THEN w[d][k].value ELSE None]
  <1>1. found' = [found EXCEPT ![t] = f] /\ UNCHANGED <<row, ever, now>> /\ Busy(t)
    BY DEF Select, Running, Busy
  <1>2. d \in Caches /\ Connection(t) \in Connections
    BY <1>1, BusyFacts
  <1>3. \A k \in Keys : w[d][k] \in Entry \cup {None}
    BY <1>1, Sees
  <1>4. \A k \in Keys : Unexpired(w[d][k]) => w[d][k].value \in Values
    BY <1>3 DEF Unexpired, Entry
  <1>5. f \in [Keys -> Values \cup {None}]
    BY <1>4
  <1>6. found'[t] = f
    BY <1>1 DEF ThreadTypes
  <1>7. ASSUME NEW k \in Keys, found'[t][k] # None
        PROVE  \E e \in {Told[d][k]} \cup (IF Left[d] THEN ever[d][k] ELSE {}) :
                  Responses!Fresh(e) /\ found'[t][k] = e.value
    <2>1. Unexpired(w[d][k]) /\ found'[t][k] = w[d][k].value
      BY <1>6, <1>7
    <2>2. w[d][k] # None /\ w[d][k].at > now - TTL
      BY <2>1 DEF Unexpired
    <2>3. /\ Visible(w[d][k]) = [value |-> w[d][k].value, at |-> w[d][k].at]
          /\ Visible(w[d][k]) # None
      BY <1>3, <2>2, VisibleFacts
    <2>4. Visible(w[d][k]) \in {Told[d][k]} \cup (IF Left[d] THEN ever[d][k] ELSE {})
      BY <1>1, <2>3, Sees
    <2>5. Responses!Fresh(Visible(w[d][k])) /\ found'[t][k] = Visible(w[d][k]).value
      BY <2>1, <2>2, <2>3 DEF Responses!Fresh
    <2> QED
      BY <2>4, <2>5
  <1> HIDE DEF f, w
  <1>8. Told' = Told
    BY <1>1 DEF Told
  <1>9. Left' = Left
    <2>1. CASE UNCHANGED <<txn, view>>
      BY <2>1 DEF Left
    <2>2. CASE txn[Connection(t)] = "begun" /\ SetTxn(t, "snapshot", row)
      <3>1. \A y \in Connections : txn'[y] # "none" <=> txn[y] # "none"
        BY <1>2, <2>2 DEF SetTxn, DbTypes
      <3>2. \A c \in Caches, n \in Numbers : <<c, n>> \in Connections
        BY DEF Connections
      <3>3. \A c \in Caches : (\E n \in Numbers : txn'[<<c, n>>] # "none")
                               <=> (\E n \in Numbers : txn[<<c, n>>] # "none")
        BY <3>1, <3>2
      <3> QED
        BY <3>3 DEF Left
    <2> QED
      BY <2>1, <2>2 DEF Select
  <1> QED
    BY <1>1, <1>5, <1>7, <1>8, <1>9 DEF Responses!Lookup, Told, Left

\* A connection of c that is closed ends what was left behind on it.
LEMMA RollBackImplements ==
    ASSUME DbTypes, NEW x \in Connections, RollBack(x)
    PROVE  row' = row /\ ever' = ever /\ \E b \in BOOLEAN : Left' = [Left EXCEPT ![x[1]] = b]
  <1>1. \A y \in Connections : y # x => txn'[y] = txn[y]
    BY DEF RollBack, DbTypes
  <1> QED
    BY <1>1, LeftStep DEF RollBack

\* Every step of the caches is a step of a ResponseCache, or one that it does not see.
LEMMA NextImplements == IInv /\ [Next]_vars => [Responses!Next]_(Responses!rvars)
  <1> SUFFICES ASSUME IInv, [Next]_vars PROVE Responses!Next \/ UNCHANGED Responses!rvars
    BY Zenon
  <1>1. DbTypes /\ ThreadTypes /\ PoolInv /\ TxnInv
    BY TypeParts DEF IInv
  <1>2. ASSUME UNCHANGED <<row, txn, ever, found, now>> PROVE UNCHANGED Responses!rvars
    BY <1>2 DEF Responses!rvars
  <1>3. ASSUME NEW t \in Threads, found' = [found EXCEPT ![t] = Nothing],
               UNCHANGED <<row, txn, ever, now>>
        PROVE  Responses!Next
    <2>1. Left' = Left /\ CacheOf[t] \in Caches
      BY <1>3, CacheAssumption DEF Left
    <2>2. Left[CacheOf[t]] \in BOOLEAN /\ Left = [Left EXCEPT ![CacheOf[t]] = Left[CacheOf[t]]]
      BY <2>1 DEF Left
    <2> QED
      BY <1>3, <2>1, <2>2, LeavesImplements DEF Responses!Next
  <1>4. ASSUME NEW t \in Threads,
               \/ FromPool(t) \/ OpenOrBlock(t) \/ Unblock(t) \/ ReadFails(t) \/ Measure(t)
               \/ \E o \in Ops[t] : Begin(t, o)
        PROVE  UNCHANGED Responses!rvars
    <2>1. UNCHANGED <<dbVars, found, now>>
      BY <1>4 DEF FromPool, OpenOrBlock, Unblock, TakeIdle, ReadFails, Measure, Begin
    <2> QED
      BY <1>2, <2>1 DEF dbVars
  <1>5. ASSUME NEW t \in Threads, OpenFails(t) \/ Put(t) PROVE Responses!Next
    <2>1. Return(t) /\ UNCHANGED <<dbVars, now>>
      BY <1>5 DEF OpenFails, Put
    <2> QED
      BY <1>3, <2>1 DEF Return, dbVars
  <1>6. ASSUME NEW t \in Threads, Release(t) PROVE Responses!Next \/ UNCHANGED Responses!rvars
    <2>1. CASE closing[CacheOf[t]] = "open"
      <3>1. UNCHANGED <<row, txn, ever, found, now>>
        BY <1>6, <2>1 DEF Release, dbVars
      <3> QED
        BY <1>2, <3>1
    <2>2. CASE closing[CacheOf[t]] # "open"
      <3>1. Return(t) /\ RollBack(Connection(t)) /\ now' = now /\ Busy(t)
        BY <1>6, <2>2 DEF Release, Busy
      <3>2. Connection(t) \in Connections /\ Connection(t)[1] = CacheOf[t]
        BY <1>1, <3>1, BusyFacts DEF Connection
      <3>3. row' = row /\ ever' = ever /\ \E b \in BOOLEAN : Left' = [Left EXCEPT ![CacheOf[t]] = b]
        BY <1>1, <3>1, <3>2, RollBackImplements
      <3>4. Responses!LookupFails(t)
        BY <3>1, <3>3, LeavesImplements DEF Return
      <3> QED
        BY <3>4 DEF Responses!Next
    <2> QED
      BY <2>1, <2>2
  <1>7. ASSUME NEW t \in Threads, Select(t) PROVE Responses!Next
    BY <1>1, <1>7, SelectImplements DEF Responses!Next
  <1>8. ASSUME NEW t \in Threads, Insert(t) \/ InsertBatch(t) \/ Evict(t) \/ Clear(t)
        PROVE  Responses!Next
    <2>1. found' = found /\ CacheOf[t] \in Caches
      BY <1>8, CacheAssumption DEF Insert, InsertBatch, Evict, Clear
    <2>2. Responses!Store(CacheOf[t]) \/ Responses!Change(CacheOf[t])
      BY <1>1, <1>8, <2>1, WriteSteps, StoreImplements, ChangeImplements
    <2> QED
      BY <2>1, <2>2 DEF Responses!Next
  <1>9. ASSUME NEW t \in Threads, Touch(t) PROVE Responses!Next
    <2>1. Busy(t) /\ now' = now /\ ever' = ever /\ CacheOf[t] \in Caches /\ View(t) \in Tables
      BY <1>1, <1>9, BusyFacts DEF Touch, Busy
    <2>2. Follows(t, Touched(t), {}) /\ Ends(t, Touched(t))
      BY <1>1, <1>9, <2>1, TouchedFollows DEF Touch, Fails, Ends
    <2>3. CASE found' = found
      <3>1. Responses!Change(CacheOf[t])
        BY <1>1, <2>1, <2>2, <2>3, ChangeImplements
      <3> QED
        BY <2>1, <3>1 DEF Responses!Next
    <2>4. CASE found' # found
      <3>1. row' = row /\ found' = [found EXCEPT ![t] = Nothing]
        BY <1>1, <1>9, <2>4 DEF Touch, Fails, Leaves, ThreadTypes
      <3>2. \E b \in BOOLEAN : Left' = [Left EXCEPT ![CacheOf[t]] = b]
        BY <1>1, <2>1, <2>2, EndsImplements
      <3>3. Responses!LookupFails(t)
        BY <2>1, <3>1, <3>2, LeavesImplements
      <3> QED
        BY <3>3 DEF Responses!Next
    <2> QED
      BY <2>3, <2>4
  <1>10. ASSUME NEW c \in Caches, Close(c) PROVE UNCHANGED Responses!rvars
    BY <1>2, <1>10 DEF Close, dbVars, threadVars
  <1>11. ASSUME NEW c \in Caches, Drain(c) PROVE Responses!Next \/ UNCHANGED Responses!rvars
    <2>1. now' = now /\ found' = found
      BY <1>11 DEF Drain, threadVars
    <2>2. CASE UNCHANGED dbVars
      BY <1>2, <2>1, <2>2 DEF dbVars
    <2>3. ASSUME NEW n \in idle[c], RollBack(<<c, n>>) PROVE Responses!Change(c)
      <3>1. <<c, n>> \in Connections /\ <<c, n>>[1] = c
        BY <1>1 DEF Connections, PoolInv, PoolTypes
      <3>2. row' = row /\ ever' = ever /\ \E b \in BOOLEAN : Left' = [Left EXCEPT ![c] = b]
        BY <1>1, <2>3, <3>1, RollBackImplements
      <3>3. /\ DOMAIN Told' = Caches /\ \A m \in Caches : DOMAIN Told'[m] = Keys
            /\ \A m \in Caches, k \in Keys : Told'[m][k] = Told[m][k]
        BY <3>2, ToldNext, ToldFacts
      <3>4. Responses!Others(c, {}) /\ Responses!Elsewhere(c)
        BY <3>3 DEF Responses!Others, Responses!Elsewhere, Told
      <3>5. Responses!Leaves(c)
        BY <3>2 DEF Responses!Leaves, Left
      <3> QED
        BY <2>1, <3>2, <3>4, <3>5 DEF Responses!Change
    <2> QED
      BY <1>11, <2>2, <2>3 DEF Drain, Responses!Next
  <1>12. CASE Tick
    <2>1. now' = now + 1 /\ UNCHANGED <<row, txn, ever, found>>
      BY <1>12 DEF Tick, dbVars, threadVars
    <2> QED
      BY <2>1 DEF Responses!Next, Responses!Tick
  <1>13. CASE UNCHANGED vars
    BY <1>2, <1>13 DEF vars, dbVars, threadVars
  <1> QED
    BY <1>4, <1>5, <1>6, <1>7, <1>8, <1>9, <1>10, <1>11, <1>12, <1>13 DEF Next, Step

\* The cache is a ResponseCache: whatever is stored, evicted, cleared and read meanwhile, in
\* any namespace, and whatever transactions errors leave open on the connections of the
\* pools, a lookup returns what was last stored for its key in its own namespace, and
\* nothing older than the time to live; only while such a transaction of its own cache is
\* open may it return, or a write bring back, what was stored there before.
THEOREM LookupsAreRight == Spec => ImplementsResponseCache
  <1>1. ASSUME Init PROVE Responses!Init
    <2>1. Told = [c \in Caches |-> Nothing]
      BY <1>1 DEF Init, Told, NoRows, Nothing
    <2>2. \A c \in Caches, n \in Numbers : <<c, n>> \in Connections
      BY DEF Connections
    <2>3. Left = [c \in Caches |-> FALSE]
      BY <1>1, <2>2 DEF Init, Left
    <2>4. /\ ever = [c \in Caches |-> [k \in Keys |-> {}]] /\ now = 0
          /\ found = [t \in Threads |-> Nothing]
      BY <1>1 DEF Init
    <2> QED
      BY <2>1, <2>3, <2>4 DEF Responses!Init, Responses!Nothing, Nothing, Told, Left
  <1> QED
    BY <1>1, NextImplements, Invariance, PTL DEF Spec, ImplementsResponseCache, Responses!Spec

=============================================================================
