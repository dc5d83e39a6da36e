------------------------- MODULE LocalSessions_proofs -------------------------
(***************************************************************************)
(* Local sessions for any threads, apps, numbers of models, sessions and    *)
(* queries: clients are released a bounded number of times, loops are not    *)
(* forgotten and counted as long as no client is released twice, and        *)
(* databases and caches have one owner.                                     *)
(***************************************************************************)
EXTENDS LocalSessions, FiniteSetTheorems, TLAPS

\* The thread closes a loop it took from the manager.
Closing(t) == pc[t] \in {"halt", "join"}

\* Where the thread is, or goes on once that loop is closed.
Place(t) == IF Closing(t) THEN after[t] ELSE pc[t]

Building(t) == Place(t) \in {"build", "validate", "store", "fail"}
Shutting(t) == Place(t) \in {"client", "release"}
Removing(t) == then[t] = "delete" \/ pc[t] = "delete"

\* All its clients were constructed.
Complete(s) == \A k \in Models(s) : sessions[s].loopOf[k] # 0

\* A session under construction belongs to its thread alone, and has the clients so far.
BuildingOK(t) ==
    LET s == on[t]
    IN  /\ s # 0 /\ lock = t
        /\ live[sessions[s].app] = 0 /\ sessions[s].connected
        /\ \A k \in Models(s) : sessions[s].released[k] = 0
                                /\ (sessions[s].loopOf[k] = 0 <=> k >= at[t])
        /\ \A u \in Threads : handle[u] # s /\ (u # t => on[u] # s)
        /\ pc[t] = "validate" => at[t] = Clients[sessions[s].app] + 1

\* Whoever removes a session holds the lock, and the session is its app's.
RemovingOK(t) ==
    /\ lock = t
    /\ handle[t] # 0 /\ on[t] # 0
    /\ on[t] = live[sessions[handle[t]].app]
    /\ ~ sessions[on[t]].connected

PlaceOK(t) ==
    /\ Closing(t) => after[t] \in {"store", "fail", "idle", "client"} /\ mine[t] # 0
    /\ Place(t) \in {"idle", "query", "inside"} => on[t] = 0
    /\ Building(t) => BuildingOK(t)
    /\ Removing(t) => RemovingOK(t)
    /\ Shutting(t) => on[t] # 0 /\ Complete(on[t]) /\ then[t] \in {"cache", "delete"}
    /\ pc[t] = "release" => at[t] \in Models(on[t])
    /\ ~ Shutting(t) /\ pc[t] # "hung" => then[t] = "idle"
    /\ then[t] = "cache" \/ Place(t) \in {"cache", "remove"} => on[t] = handle[t] /\ handle[t] # 0
    /\ pc[t] = "cache" => sessions[on[t]].models_shutdown
    /\ handle[t] # 0 => Complete(handle[t])
    /\ lock = t => Building(t) \/ Removing(t) \/ pc[t] = "hung"

PlaceInv == \A t \in Threads : PlaceOK(t)

OwnerInv ==
    /\ \A a \in Apps : live[a] # 0 =>
          /\ sessions[live[a]].app = a /\ Complete(live[a])
          /\ \/ sessions[live[a]].connected
             \/ /\ lock # None /\ on[lock] = live[a]
                /\ handle[lock] # 0 /\ sessions[handle[lock]].app = a
    /\ \A s \in Sids : sessions[s].connected =>
          \/ live[sessions[s].app] = s
          \/ lock # None /\ on[lock] = s /\ live[sessions[s].app] = 0
    /\ \A s \in Sids : ~ sessions[s].caching => sessions[s].models_shutdown

LoopInv ==
    /\ loop # 0 => loops[loop] = "running"
    /\ \A t \in Threads : Closing(t) => mine[t] # loop
    /\ \A t, u \in Threads : Closing(t) /\ Closing(u) /\ mine[t] = mine[u] => t = u
    /\ \A t \in Threads : pc[t] = "halt" => loops[mine[t]] = "running"
    /\ \A t \in Threads : pc[t] = "join" => loops[mine[t]] \in {"stopping", "closed"}
    /\ \A l \in DOMAIN loops : l # loop =>
          \/ loops[l] = "running" /\ \E t \in Threads : pc[t] = "halt" /\ mine[t] = l
          \/ loops[l] = "stopping" /\ \E t \in Threads : pc[t] = "join" /\ mine[t] = l
          \/ loops[l] = "closed"

\* Threads that shut down the models of s and have passed model k, or have it before them.
Turn(t) == Shutting(t) \/ pc[t] = "hung"
Passed(s, k) == {t \in Threads : Turn(t) /\ on[t] = s /\ at[t] > k}
Ahead(s, k) == {t \in Threads : Turn(t) /\ on[t] = s /\ at[t] <= k}

TurnInv ==
    \A s \in Sids : \A k \in Models(s) :
        IF sessions[s].models_shutdown
        THEN sessions[s].released[k] + Cardinality(Ahead(s, k)) <= Cardinality(Threads)
        ELSE sessions[s].released[k] <= Cardinality(Passed(s, k))

RefsInv ==
    /\ IsFiniteSet(ClientRefs)
    /\ ReleasedTwice \/
          /\ count = Cardinality(ClientRefs) + Cardinality(ThreadRefs)
          /\ (loop # 0) <=> (count > 0)
          /\ \A r \in ClientRefs : sessions[r[1]].loopOf[r[2]] = loop
          /\ \A t \in ThreadRefs : mine[t] = loop

FlagInv ==
    ReleasedTwice \/
        /\ \A s \in Sids : sessions[s].models_shutdown =>
              \A k \in Models(s) : sessions[s].released[k] >= 1
        /\ \A t \in Threads : Shutting(t) =>
              \A k \in Models(on[t]) : k < at[t] => sessions[on[t]].released[k] >= 1

\* A session object, whatever the number of its models.
Fns == UNION {[1..n -> Nat] : n \in Nat}
Record == [app : Apps, connected : BOOLEAN, caching : BOOLEAN, models_shutdown : BOOLEAN,
           loopOf : Fns, released : Fns]
LoopStates == {"running", "stopping", "closed"}

DataInv ==
    /\ sessions \in Seq(Record)
    /\ loops \in Seq(LoopStates)
    /\ at \in [Threads -> Nat \ {0}]

\* The inductive invariant of the sessions.
IInv ==
    TypeOK /\ DataInv /\ PlaceInv /\ OwnerInv /\ LoopInv /\ TurnInv /\ RefsInv /\ FlagInv

----------------------------------------------------------------------------
(***************************************************************************)
(* What a step does to a session, a loop and a thread                      *)
(***************************************************************************)
Still(u) ==
    /\ pc'[u] = pc[u] /\ handle'[u] = handle[u] /\ on'[u] = on[u] /\ at'[u] = at[u]
    /\ mine'[u] = mine[u] /\ after'[u] = after[u] /\ then'[u] = then[u]

Others(t) == \A u \in Threads : u # t => Still(u)

ThreadTypes ==
    /\ pc \in [Threads -> Places]
    /\ handle \in [Threads -> 0 .. Len(sessions)]
    /\ on \in [Threads -> 0 .. Len(sessions)]
    /\ at \in [Threads -> Nat \ {0}]
    /\ mine \in [Threads -> 0 .. Len(loops)]
    /\ after \in [Threads -> Places]
    /\ then \in [Threads -> {"idle", "cache", "delete"}]

\* The other sessions of a step that changes one stay.
Only(s) ==
    /\ sessions' \in Seq(Record) /\ Len(sessions') = Len(sessions)
    /\ \A x \in Sids : x # s => sessions'[x] = sessions[x]

\* A step that assigns one session leaves the others, and their number, as they are.
LEMMA OneSession ==
    ASSUME sessions \in Seq(Record), NEW s \in Sids, NEW r \in Record,
           sessions' = [sessions EXCEPT ![s] = r]
    PROVE  Only(s) /\ sessions'[s] = r
  BY DEF Only, Sids

\* The fields of a session.
LEMMA RecordFacts ==
    ASSUME sessions \in Seq(Record), NEW s \in Sids
    PROVE  /\ sessions[s] \in Record /\ sessions[s].app \in Apps
           /\ sessions[s].connected \in BOOLEAN /\ sessions[s].caching \in BOOLEAN
           /\ sessions[s].models_shutdown \in BOOLEAN
           /\ sessions[s].loopOf \in Fns /\ sessions[s].released \in Fns
           /\ Clients[sessions[s].app] \in Nat
           /\ Len(sessions) \in Nat
  <1>1. sessions[s] \in Record /\ Len(sessions) \in Nat
    BY DEF Sids
  <1>2. /\ sessions[s].app \in Apps /\ sessions[s].connected \in BOOLEAN
        /\ sessions[s].caching \in BOOLEAN /\ sessions[s].models_shutdown \in BOOLEAN
        /\ sessions[s].loopOf \in Fns /\ sessions[s].released \in Fns
    BY <1>1 DEF Record
  <1> QED
    BY <1>1, <1>2, SessionsAssumption

\* Closing the database of a session.
LEMMA Disconnected ==
    ASSUME sessions \in Seq(Record), NEW s \in Sids,
           sessions' = [sessions EXCEPT ![s].connected = FALSE]
    PROVE  /\ Only(s)
           /\ sessions'[s].app = sessions[s].app
           /\ sessions'[s].loopOf = sessions[s].loopOf
           /\ sessions'[s].released = sessions[s].released
           /\ sessions'[s].connected = FALSE
           /\ sessions'[s].caching = sessions[s].caching
           /\ sessions'[s].models_shutdown = sessions[s].models_shutdown
  <1> DEFINE r == [sessions[s] EXCEPT !.connected = FALSE]
  <1>1. sessions[s] \in Record
    BY RecordFacts
  <1>2. /\ r \in Record /\ r.app = sessions[s].app /\ r.loopOf = sessions[s].loopOf
        /\ r.released = sessions[s].released /\ r.connected = FALSE
        /\ r.caching = sessions[s].caching
        /\ r.models_shutdown = sessions[s].models_shutdown
    BY <1>1 DEF Record
  <1>3. sessions' = [sessions EXCEPT ![s] = r]
    OBVIOUS
  <1> HIDE DEF r
  <1> QED
    BY <1>2, <1>3, OneSession

\* Closing its cache.
LEMMA CacheClosed ==
    ASSUME sessions \in Seq(Record), NEW s \in Sids,
           sessions' = [sessions EXCEPT ![s].caching = FALSE]
    PROVE  /\ Only(s)
           /\ sessions'[s].app = sessions[s].app
           /\ sessions'[s].loopOf = sessions[s].loopOf
           /\ sessions'[s].released = sessions[s].released
           /\ sessions'[s].caching = FALSE
           /\ sessions'[s].connected = sessions[s].connected
           /\ sessions'[s].models_shutdown = sessions[s].models_shutdown
  <1> DEFINE r == [sessions[s] EXCEPT !.caching = FALSE]
  <1>1. sessions[s] \in Record
    BY RecordFacts
  <1>2. /\ r \in Record /\ r.app = sessions[s].app /\ r.loopOf = sessions[s].loopOf
        /\ r.released = sessions[s].released /\ r.caching = FALSE
        /\ r.connected = sessions[s].connected
        /\ r.models_shutdown = sessions[s].models_shutdown
    BY <1>1 DEF Record
  <1>3. sessions' = [sessions EXCEPT ![s] = r]
    OBVIOUS
  <1> HIDE DEF r
  <1> QED
    BY <1>2, <1>3, OneSession

\* Marking its models as shut down.
LEMMA FlagSet ==
    ASSUME sessions \in Seq(Record), NEW s \in Sids,
           sessions' = [sessions EXCEPT ![s].models_shutdown = TRUE]
    PROVE  /\ Only(s)
           /\ sessions'[s].app = sessions[s].app
           /\ sessions'[s].loopOf = sessions[s].loopOf
           /\ sessions'[s].released = sessions[s].released
           /\ sessions'[s].models_shutdown = TRUE
           /\ sessions'[s].connected = sessions[s].connected
           /\ sessions'[s].caching = sessions[s].caching
  <1> DEFINE r == [sessions[s] EXCEPT !.models_shutdown = TRUE]
  <1>1. sessions[s] \in Record
    BY RecordFacts
  <1>2. /\ r \in Record /\ r.app = sessions[s].app /\ r.loopOf = sessions[s].loopOf
        /\ r.released = sessions[s].released /\ r.models_shutdown = TRUE
        /\ r.connected = sessions[s].connected
        /\ r.caching = sessions[s].caching
    BY <1>1 DEF Record
  <1>3. sessions' = [sessions EXCEPT ![s] = r]
    OBVIOUS
  <1> HIDE DEF r
  <1> QED
    BY <1>2, <1>3, OneSession

\* Giving client k its loop.
LEMMA LoopGiven ==
    ASSUME sessions \in Seq(Record), NEW s \in Sids, NEW k \in DOMAIN sessions[s].loopOf, NEW l \in Nat,
           sessions' = [sessions EXCEPT ![s].loopOf[k] = l]
    PROVE  /\ Only(s)
           /\ sessions'[s].app = sessions[s].app
           /\ sessions'[s].connected = sessions[s].connected
           /\ sessions'[s].caching = sessions[s].caching
           /\ sessions'[s].models_shutdown = sessions[s].models_shutdown
           /\ sessions'[s].released = sessions[s].released
           /\ DOMAIN sessions'[s].loopOf = DOMAIN sessions[s].loopOf
           /\ \A j \in DOMAIN sessions[s].loopOf :
                 sessions'[s].loopOf[j] = IF j = k THEN l ELSE sessions[s].loopOf[j]
  <1> DEFINE g == [sessions[s].loopOf EXCEPT ![k] = l]
             r == [sessions[s] EXCEPT !.loopOf = g]
  <1>1. sessions[s] \in Record /\ sessions[s].loopOf \in Fns
    BY RecordFacts
  <1>2. /\ g \in Fns /\ DOMAIN g = DOMAIN sessions[s].loopOf
        /\ \A j \in DOMAIN sessions[s].loopOf : g[j] = IF j = k THEN l ELSE sessions[s].loopOf[j]
    BY <1>1 DEF Fns
  <1>4. sessions' = [sessions EXCEPT ![s] = r]
    OBVIOUS
  <1> HIDE DEF g
  <1>3. /\ r \in Record /\ r.app = sessions[s].app /\ r.connected = sessions[s].connected
        /\ r.caching = sessions[s].caching /\ r.models_shutdown = sessions[s].models_shutdown
        /\ r.released = sessions[s].released /\ r.loopOf = g
    BY <1>1, <1>2 DEF Record
  <1> HIDE DEF r
  <1> QED
    BY <1>2, <1>3, <1>4, OneSession

\* Client k gives its reference back.
LEMMA Released ==
    ASSUME sessions \in Seq(Record), NEW s \in Sids, NEW k \in DOMAIN sessions[s].released, NEW l \in Nat,
           sessions' = [sessions EXCEPT ![s].released[k] = l]
    PROVE  /\ Only(s)
           /\ sessions'[s].app = sessions[s].app
           /\ sessions'[s].connected = sessions[s].connected
           /\ sessions'[s].caching = sessions[s].caching
           /\ sessions'[s].models_shutdown = sessions[s].models_shutdown
           /\ sessions'[s].loopOf = sessions[s].loopOf
           /\ DOMAIN sessions'[s].released = DOMAIN sessions[s].released
           /\ \A j \in DOMAIN sessions[s].released :
                 sessions'[s].released[j] = IF j = k THEN l ELSE sessions[s].released[j]
  <1> DEFINE g == [sessions[s].released EXCEPT ![k] = l]
             r == [sessions[s] EXCEPT !.released = g]
  <1>1. sessions[s] \in Record /\ sessions[s].released \in Fns
    BY RecordFacts
  <1>2. /\ g \in Fns /\ DOMAIN g = DOMAIN sessions[s].released
        /\ \A j \in DOMAIN sessions[s].released : g[j] = IF j = k THEN l ELSE sessions[s].released[j]
    BY <1>1 DEF Fns
  <1>4. sessions' = [sessions EXCEPT ![s] = r]
    OBVIOUS
  <1> HIDE DEF g
  <1>3. /\ r \in Record /\ r.app = sessions[s].app /\ r.connected = sessions[s].connected
        /\ r.caching = sessions[s].caching /\ r.models_shutdown = sessions[s].models_shutdown
        /\ r.loopOf = sessions[s].loopOf /\ r.released = g
    BY <1>1, <1>2 DEF Record
  <1> HIDE DEF r
  <1> QED
    BY <1>2, <1>3, <1>4, OneSession

\* Constructing a session.
LEMMA NewFacts ==
    ASSUME sessions \in Seq(Record), NEW a \in Apps, sessions' = Append(sessions, NewSession(a))
    PROVE  /\ sessions' \in Seq(Record) /\ Len(sessions') = Len(sessions) + 1
           /\ Len(sessions) \in Nat
           /\ \A x \in Sids : sessions'[x] = sessions[x]
           /\ sessions'[Len(sessions) + 1] = NewSession(a)
           /\ sessions'[Len(sessions) + 1].app = a
           /\ sessions'[Len(sessions) + 1].connected = TRUE
           /\ sessions'[Len(sessions) + 1].caching = TRUE
           /\ sessions'[Len(sessions) + 1].models_shutdown = FALSE
           /\ sessions'[Len(sessions) + 1].loopOf = [k \in 1 .. Clients[a] |-> 0]
           /\ sessions'[Len(sessions) + 1].released = [k \in 1 .. Clients[a] |-> 0]
  <1>1. Clients[a] \in Nat
    BY SessionsAssumption
  <1>2. [k \in 1 .. Clients[a] |-> 0] \in Fns
    BY <1>1 DEF Fns
  <1>3. NewSession(a) \in Record
    BY <1>2 DEF NewSession, Record
  <1>4. /\ sessions' \in Seq(Record) /\ Len(sessions') = Len(sessions) + 1
        /\ Len(sessions) \in Nat
        /\ \A x \in Sids : sessions'[x] = sessions[x]
        /\ sessions'[Len(sessions) + 1] = NewSession(a)
    BY <1>3 DEF Sids
  <1>5. PICK r : r = NewSession(a)
    OBVIOUS
  <1>6. /\ r.app = a /\ r.connected = TRUE /\ r.caching = TRUE /\ r.models_shutdown = FALSE
        /\ r.loopOf = [k \in 1 .. Clients[a] |-> 0]
        /\ r.released = [k \in 1 .. Clients[a] |-> 0]
    BY <1>5 DEF NewSession
  <1> QED
    BY <1>4, <1>5, <1>6

----------------------------------------------------------------------------
(***************************************************************************)
(* What the steps of one thread leave to the others                        *)
(***************************************************************************)
\* What no step undoes in a session.
Carries(s) ==
    /\ sessions'[s].app = sessions[s].app
    /\ sessions[s].models_shutdown => sessions'[s].models_shutdown
    /\ sessions'[s].connected => sessions[s].connected
    /\ Complete(s) => Complete(s)'

Frame(t) ==
    /\ Others(t)
    /\ Len(sessions) <= Len(sessions')
    /\ \A s \in Sids : Carries(s)
    /\ \/ lock' = lock
       \/ lock = None /\ lock' = t
       \/ lock = t /\ lock' = None
    /\ lock # t => live' = live

\* A thread that constructs or removes a session is not disturbed, and no other is.
LEMMA OtherPlaces ==
    ASSUME TypeOK, DataInv, PlaceInv, OwnerInv, NEW t \in Threads, Frame(t),
           NEW u \in Threads, u # t,
           Building(u) => /\ sessions'[on[u]] = sessions[on[u]]
                          /\ handle'[t] # on[u] /\ on'[t] # on[u]
    PROVE  PlaceOK(u)'
  <1>1. PlaceOK(u) /\ Still(u)
    BY DEF PlaceInv, Frame, Others, TypeOK
  <1>2. /\ on[u] \in 0 .. Len(sessions) /\ handle[u] \in 0 .. Len(sessions)
        /\ Len(sessions) \in Nat /\ Len(sessions') \in Int
    BY DEF TypeOK, DataInv
  <1>3. /\ on[u] # 0 => on[u] \in Sids
        /\ handle[u] # 0 => handle[u] \in Sids
    BY <1>2 DEF Sids
  <1>4. Place(u)' = Place(u) /\ (Closing(u)' <=> Closing(u))
    BY <1>1 DEF Still, Place, Closing
  <1>5. (Building(u)' <=> Building(u)) /\ (Shutting(u)' <=> Shutting(u)) /\ (Removing(u)' <=> Removing(u))
    BY <1>1, <1>4 DEF Still, Building, Shutting, Removing
  <1>6. /\ \A s \in Sids : s \in Sids' /\ Carries(s)
        /\ \A s \in Sids : Models(s)' = Models(s)
    BY <1>2 DEF Frame, Sids, Carries, Models
  <1>7. /\ lock = u => lock' = u /\ live' = live
        /\ lock' = u => lock = u
    BY SessionsAssumption DEF Frame
  <1>8. Building(u) => BuildingOK(u)'
    <2> SUFFICES ASSUME Building(u) PROVE BuildingOK(u)'
      OBVIOUS
    <2>1. BuildingOK(u)
      BY <1>1 DEF PlaceOK
    <2>2. /\ on[u] \in Sids /\ lock' = u /\ live' = live
          /\ on'[u] = on[u] /\ at'[u] = at[u] /\ pc'[u] = pc[u]
          /\ sessions'[on[u]] = sessions[on[u]]
      BY <1>1, <1>3, <1>7, <2>1 DEF BuildingOK, Still
    <2>3. \A x \in Threads : handle'[x] # on[u] /\ (x # u => on'[x] # on[u])
      BY <2>1 DEF BuildingOK, Frame, Others, Still
    <2> QED
      BY <2>1, <2>2, <2>3 DEF BuildingOK, Models
  <1>9. Removing(u) => RemovingOK(u)'
    <2> SUFFICES ASSUME Removing(u) PROVE RemovingOK(u)'
      OBVIOUS
    <2>1. RemovingOK(u)
      BY <1>1 DEF PlaceOK
    <2>2. /\ on[u] \in Sids /\ handle[u] \in Sids /\ lock' = u /\ live' = live
          /\ on'[u] = on[u] /\ handle'[u] = handle[u]
      BY <1>1, <1>3, <1>7, <2>1 DEF RemovingOK, Still
    <2> QED
      BY <1>6, <2>1, <2>2 DEF RemovingOK, Carries
  <1>10. /\ Shutting(u) => on'[u] # 0 /\ Complete(on[u])' /\ then'[u] \in {"cache", "delete"}
         /\ pc'[u] = "release" => at'[u] \in Models(on[u])'
         /\ pc'[u] = "cache" => sessions'[on'[u]].models_shutdown
         /\ handle'[u] # 0 => Complete(handle[u])'
    <2>1. /\ Shutting(u) => on[u] \in Sids /\ Complete(on[u]) /\ then[u] \in {"cache", "delete"}
          /\ pc[u] = "release" => Shutting(u) /\ at[u] \in Models(on[u])
          /\ pc[u] = "cache" => on[u] \in Sids /\ sessions[on[u]].models_shutdown
          /\ handle[u] # 0 => handle[u] \in Sids /\ Complete(handle[u])
      BY <1>1, <1>3 DEF PlaceOK, Shutting, Place, Closing
    <2>2. PICK s, h : s = on[u] /\ h = handle[u]
      OBVIOUS
    <2>3. on'[u] = s /\ handle'[u] = h
      BY <1>1, <2>2 DEF Still
    <2>4. /\ Shutting(u) => s \in Sids /\ Complete(s)'
          /\ pc[u] = "release" => at[u] \in Models(s)'
          /\ pc[u] = "cache" => sessions'[s].models_shutdown
          /\ h # 0 => Complete(h)'
      BY <1>6, <2>1, <2>2 DEF Carries
    <2>5. Shutting(u) => s # 0 /\ then'[u] \in {"cache", "delete"}
      BY <1>1, <1>3, <2>1, <2>2 DEF Still, PlaceOK
    <2> QED
      BY <1>1, <2>2, <2>3, <2>4, <2>5 DEF Still
  <1>11. /\ Closing(u)' => after'[u] \in {"store", "fail", "idle", "client"} /\ mine'[u] # 0
         /\ Place(u)' \in {"idle", "query", "inside"} => on'[u] = 0
         /\ ~ Shutting(u)' /\ pc'[u] # "hung" => then'[u] = "idle"
         /\ then'[u] = "cache" \/ Place(u)' \in {"cache", "remove"} => on'[u] = handle'[u] /\ handle'[u] # 0
         /\ lock' = u => Building(u)' \/ Removing(u)' \/ pc'[u] = "hung"
    BY <1>1, <1>4, <1>5, <1>7 DEF PlaceOK, Still
  <1>12. Shutting(u)' => on'[u] # 0 /\ Complete(on[u])' /\ then'[u] \in {"cache", "delete"}
    BY <1>5, <1>10
  <1>13. /\ Building(u)' => BuildingOK(u)'
         /\ Removing(u)' => RemovingOK(u)'
    BY <1>5, <1>8, <1>9
  <1> QED
    BY <1>10, <1>11, <1>12, <1>13 DEF PlaceOK

\* Who owns databases and caches does not change with what has nothing to do with them.
LEMMA OwnersStay ==
    ASSUME TypeOK, DataInv, OwnerInv, NEW t \in Threads, Frame(t), live' = live, lock' = lock,
           lock = t => on'[t] = on[t] /\ handle'[t] = handle[t],
           Len(sessions') = Len(sessions),
           \A s \in Sids : sessions'[s].connected = sessions[s].connected
                           /\ (sessions'[s].caching = sessions[s].caching \/ sessions'[s].models_shutdown)
    PROVE  OwnerInv'
  <1>1. lock # None => lock \in Threads /\ on'[lock] = on[lock] /\ handle'[lock] = handle[lock]
    BY DEF TypeOK, Frame, Others, Still
  <1>2. Sids' = Sids /\ \A s \in Sids : Carries(s)
    BY DEF Sids, Frame
  <1>3. ASSUME NEW x \in 0 .. Len(sessions), x # 0 PROVE x \in Sids
    BY <1>3 DEF DataInv, Sids
  <1>4. /\ \A a \in Apps : live[a] # 0 => live[a] \in Sids
        /\ lock # None /\ handle[lock] # 0 => handle[lock] \in Sids
    BY <1>1, <1>3 DEF TypeOK
  <1>5. ASSUME NEW a \in Apps, live'[a] # 0
        PROVE  /\ sessions'[live'[a]].app = a /\ Complete(live[a])'
               /\ \/ sessions'[live'[a]].connected
                  \/ /\ lock' # None /\ on'[lock'] = live'[a]
                     /\ handle'[lock'] # 0 /\ sessions'[handle'[lock']].app = a
    <2>1. /\ live[a] \in Sids /\ sessions[live[a]].app = a /\ Complete(live[a])
          /\ \/ sessions[live[a]].connected
             \/ /\ lock # None /\ on[lock] = live[a]
                /\ handle[lock] # 0 /\ sessions[handle[lock]].app = a
      BY <1>4, <1>5 DEF OwnerInv
    <2>2. PICK s \in Sids : s = live[a] /\ s = live'[a]
      BY <2>1
    <2>3. Complete(s)' /\ sessions'[s].app = a
      BY <1>2, <2>1, <2>2 DEF Carries
    <2>4. sessions[s].connected => sessions'[s].connected
      OBVIOUS
    <2>5. ~ sessions[s].connected =>
            /\ lock' # None /\ on'[lock'] = live'[a]
            /\ handle'[lock'] # 0 /\ sessions'[handle'[lock']].app = a
      BY <1>1, <1>2, <1>4, <2>1, <2>2 DEF Carries
    <2> QED
      BY <2>2, <2>3, <2>4, <2>5
  <1>6. ASSUME NEW s \in Sids', sessions'[s].connected
        PROVE  \/ live'[sessions'[s].app] = s
               \/ lock' # None /\ on'[lock'] = s /\ live'[sessions'[s].app] = 0
    BY <1>1, <1>2, <1>6 DEF OwnerInv, Carries
  <1>7. ASSUME NEW s \in Sids', ~ sessions'[s].caching PROVE sessions'[s].models_shutdown
    BY <1>2, <1>7 DEF OwnerInv, Carries
  <1> QED
    BY <1>5, <1>6, <1>7 DEF OwnerInv

\* Nor do the loops change with a thread that does not close one.
LEMMA LoopsStay ==
    ASSUME LoopInv, NEW t \in Threads, Others(t), UNCHANGED loopVars, ~ Closing(t), ~ Closing(t)'
    PROVE  LoopInv'
  <1>1. \A u \in Threads : /\ pc'[u] = "halt" <=> pc[u] = "halt"
                           /\ pc'[u] = "join" <=> pc[u] = "join"
                           /\ Closing(u) => mine'[u] = mine[u]
    BY DEF Others, Still, Closing
  <1> QED
    BY <1>1 DEF LoopInv, loopVars, Closing

\* The loop a caller is given runs, and is the manager's.
LEMMA LoopTaken ==
    ASSUME TypeOK, DataInv, LoopInv, TakeLoop
    PROVE  /\ Given \in Nat \ {0} /\ loop' = Given /\ Given \in 1 .. Len(loops')
           /\ loops' \in Seq(LoopStates) /\ Len(loops) <= Len(loops') /\ Len(loops') \in Nat
           /\ \A l \in DOMAIN loops : loops'[l] = loops[l]
           /\ loops'[Given] = "running"
           /\ DOMAIN loops' = DOMAIN loops \cup {Given}
           /\ loop # 0 => Given = loop
           /\ loop = 0 => Given \notin DOMAIN loops
           /\ count' = count + 1
  <1>1. /\ loops \in Seq(LoopStates) /\ Len(loops) \in Nat /\ loop \in 0 .. Len(loops)
        /\ loop # 0 => loops[loop] = "running"
        /\ DOMAIN loops = 1 .. Len(loops)
    BY DEF TypeOK, DataInv, LoopInv
  <1>2. PICK g : g = Given
    OBVIOUS
  <1>3. g = IF loop = 0 THEN Len(loops) + 1 ELSE loop
    BY <1>1, <1>2 DEF Given
  <1>4. /\ loops' = IF g > Len(loops) THEN Append(loops, "running") ELSE loops
        /\ loop' = g /\ count' = count + 1
    BY <1>2 DEF TakeLoop
  <1>5. "running" \in LoopStates
    BY DEF LoopStates
  <1>6. CASE loop = 0
    <2>1. g = Len(loops) + 1
      BY <1>3, <1>6
    <2>2. g > Len(loops)
      BY <1>1, <2>1
    <2>3. loops' = Append(loops, "running")
      BY <1>4, <2>2
    <2>4. /\ loops' \in Seq(LoopStates) /\ Len(loops') = Len(loops) + 1
          /\ loops'[g] = "running" /\ \A l \in DOMAIN loops : loops'[l] = loops[l]
          /\ DOMAIN loops' = 1 .. Len(loops')
      BY <1>1, <1>5, <2>1, <2>3
    <2> QED
      BY <1>1, <1>2, <1>4, <1>6, <2>1, <2>4
  <1>7. CASE loop # 0
    <2>1. g = loop
      BY <1>3, <1>7
    <2>2. ~ (g > Len(loops))
      BY <1>1, <2>1
    <2>3. loops' = loops
      BY <1>4, <2>2
    <2>4. loops'[g] = "running" /\ g \in DOMAIN loops
      BY <1>1, <1>7, <2>1, <2>3
    <2>5. DOMAIN loops' = DOMAIN loops \cup {g}
      BY <2>3, <2>4
    <2>6. /\ g \in Nat \ {0} /\ g \in 1 .. Len(loops') /\ Len(loops') = Len(loops)
          /\ \A l \in DOMAIN loops : loops'[l] = loops[l]
      BY <1>1, <1>7, <2>1, <2>3
    <2>7. loops' \in Seq(LoopStates) /\ loop' = g /\ count' = count + 1
      BY <1>1, <1>4, <2>3
    <2> QED
      BY <1>1, <1>2, <1>7, <2>1, <2>4, <2>5, <2>6, <2>7
  <1> QED
    BY <1>6, <1>7

\* Taking a loop forgets none.
LEMMA TakenForgets ==
    ASSUME TypeOK, DataInv, LoopInv, PlaceInv, TakeLoop,
           NEW t \in Threads, Others(t), ~ Closing(t), ~ Closing(t)'
    PROVE  LoopInv'
  <1>1. /\ loop' = Given /\ loops'[Given] = "running"
        /\ \A l \in DOMAIN loops : loops'[l] = loops[l]
        /\ DOMAIN loops' = DOMAIN loops \cup {Given}
        /\ loop # 0 => Given = loop
        /\ loop = 0 => Given \notin DOMAIN loops
    BY LoopTaken
  <1>2. \A u \in Threads : /\ pc'[u] = "halt" <=> pc[u] = "halt"
                           /\ pc'[u] = "join" <=> pc[u] = "join"
                           /\ Closing(u) => mine'[u] = mine[u] /\ mine[u] \in DOMAIN loops
    <2>1. \A u \in Threads : Closing(u) => mine[u] \in DOMAIN loops
      BY DEF PlaceInv, PlaceOK, TypeOK, DataInv
    <2> QED
      BY <2>1 DEF Others, Still, Closing
  <1>3. \A u \in Threads : Closing(u)' <=> Closing(u)
    BY <1>2 DEF Closing
  <1>4. \A u \in Threads : Closing(u)' => mine'[u] # loop'
    BY <1>1, <1>2, <1>3 DEF LoopInv
  <1>5. \A u, v \in Threads : Closing(u)' /\ Closing(v)' /\ mine'[u] = mine'[v] => u = v
    BY <1>2, <1>3 DEF LoopInv
  <1>6. /\ \A u \in Threads : pc'[u] = "halt" => loops'[mine'[u]] = "running"
        /\ \A u \in Threads : pc'[u] = "join" => loops'[mine'[u]] \in {"stopping", "closed"}
    BY <1>1, <1>2 DEF LoopInv, Closing
  <1>7. ASSUME NEW l \in DOMAIN loops', l # loop'
        PROVE  \/ loops'[l] = "running" /\ \E u \in Threads : pc'[u] = "halt" /\ mine'[u] = l
               \/ loops'[l] = "stopping" /\ \E u \in Threads : pc'[u] = "join" /\ mine'[u] = l
               \/ loops'[l] = "closed"
    <2>1. l \in DOMAIN loops /\ l # loop /\ loops'[l] = loops[l]
      BY <1>1, <1>7 DEF TypeOK, DataInv
    <2> QED
      BY <1>2, <2>1 DEF LoopInv, Closing
  <1> QED
    BY <1>1, <1>4, <1>5, <1>6, <1>7 DEF LoopInv

\* Nor does giving a reference back: the thread that drops the last one closes the loop.
LEMMA DroppedForgets ==
    ASSUME TypeOK, DataInv, LoopInv, PlaceInv, NEW t \in Threads, NEW place \in Places,
           place \notin {"halt", "join"}, DropLoop(t, place), Others(t), ~ Closing(t)
    PROVE  LoopInv'
  <1>1. /\ pc \in [Threads -> Places] /\ mine \in [Threads -> 0 .. Len(loops)]
        /\ loop \in 0 .. Len(loops) /\ DOMAIN loops = 1 .. Len(loops) /\ Len(loops) \in Nat
        /\ loops' = loops
    BY DEF TypeOK, DataInv, DropLoop
  <1>2. CASE IsLast
    <2>1. /\ pc'[t] = "halt" /\ mine'[t] = loop /\ loop' = 0 /\ loop # 0 /\ loop \in DOMAIN loops
          /\ loops[loop] = "running"
      BY <1>1, <1>2 DEF DropLoop, Goto, IsLast
    <2>2. \A u \in Threads : u # t => /\ pc'[u] = pc[u] /\ mine'[u] = mine[u]
                                      /\ (Closing(u)' <=> Closing(u))
      BY DEF Others, Still, Closing
    <2>3. \A u \in Threads : Closing(u) => u # t /\ mine[u] # 0 /\ mine[u] # loop
      BY DEF LoopInv, PlaceInv, PlaceOK
    <2>4. \A u, v \in Threads : Closing(u)' /\ Closing(v)' /\ mine'[u] = mine'[v] => u = v
      BY <2>1, <2>2, <2>3 DEF LoopInv
    <2>5. \A u \in Threads : Closing(u)' => mine'[u] # loop'
      BY <2>1, <2>2, <2>3
    <2>6. /\ \A u \in Threads : pc'[u] = "halt" => loops'[mine'[u]] = "running"
          /\ \A u \in Threads : pc'[u] = "join" => loops'[mine'[u]] \in {"stopping", "closed"}
      BY <1>1, <2>1, <2>2 DEF LoopInv
    <2>7. ASSUME NEW l \in DOMAIN loops
          PROVE  \/ loops[l] = "running" /\ \E u \in Threads : pc'[u] = "halt" /\ mine'[u] = l
                 \/ loops[l] = "stopping" /\ \E u \in Threads : pc'[u] = "join" /\ mine'[u] = l
                 \/ loops[l] = "closed"
      <3>1. CASE l = loop
        BY <2>1, <3>1
      <3>2. CASE l # loop
        BY <2>2, <2>3, <3>2 DEF LoopInv, Closing
      <3> QED
        BY <3>1, <3>2
    <2> QED
      BY <1>1, <2>1, <2>4, <2>5, <2>6, <2>7 DEF LoopInv
  <1>3. CASE ~ IsLast
    <2>1. loop' = loop /\ pc'[t] = place
      BY <1>1, <1>3 DEF DropLoop, Goto
    <2>2. ~ Closing(t)'
      BY <2>1 DEF Closing
    <2> QED
      BY <1>1, <2>1, <2>2 DEF LoopInv, Others, Still, Closing
  <1> QED
    BY <1>2, <1>3

----------------------------------------------------------------------------
(***************************************************************************)
(* References and turns                                                    *)
(***************************************************************************)
\* What a reference of a client is.
LEMMA ClientRefIs ==
    /\ \A r : r \in ClientRefs <=>
          \E s \in Sids : \E k \in Models(s) :
              r = <<s, k>> /\ sessions[s].loopOf[k] # 0 /\ sessions[s].released[k] = 0
    /\ \A r : r \in ClientRefs' <=>
          \E s \in Sids' : \E k \in Models(s)' :
              r = <<s, k>> /\ sessions'[s].loopOf[k] # 0 /\ sessions'[s].released[k] = 0
  BY DEF ClientRefs

\* The step leaves the clients of every session as they are.
Quiet ==
    /\ Len(sessions') = Len(sessions)
    /\ \A s \in Sids : /\ sessions'[s].app = sessions[s].app
                       /\ sessions'[s].loopOf = sessions[s].loopOf
                       /\ sessions'[s].released = sessions[s].released

\* Then their references are the same.
LEMMA QuietFacts ==
    ASSUME Quiet
    PROVE  /\ Sids' = Sids
           /\ \A s \in Sids : Models(s)' = Models(s) /\ (Complete(s)' <=> Complete(s))
           /\ ClientRefs' = ClientRefs
           /\ ReleasedTwice' <=> ReleasedTwice
  <1>1. Sids' = Sids /\ \A s \in Sids : Models(s)' = Models(s)
    BY DEF Quiet, Sids, Models
  <1>2. \A s \in Sids : Complete(s)' <=> Complete(s)
    BY <1>1 DEF Quiet, Complete
  <1>3. \A r : r \in ClientRefs' <=> r \in ClientRefs
    BY <1>1, ClientRefIs DEF Quiet
  <1>4. ReleasedTwice' <=> ReleasedTwice
    BY <1>1 DEF Quiet, ReleasedTwice
  <1> QED
    BY <1>1, <1>2, <1>3, <1>4

\* Sets of threads are finite, and have no more members than there are threads.
LEMMA ThreadSets ==
    /\ IsFiniteSet(Threads)
    /\ \A S \in SUBSET Threads : IsFiniteSet(S) /\ Cardinality(S) \in Nat
                                 /\ Cardinality(S) <= Cardinality(Threads)
    /\ \A S, T \in SUBSET Threads : S \subseteq T => Cardinality(S) <= Cardinality(T)
    /\ Cardinality(Threads) \in Nat
  BY SessionsAssumption, FS_Subset, FS_CardinalityType

\* The types of what a session knows of its clients: their loops and their releases.
LEMMA ClientTypes ==
    ASSUME TypeOK, NEW s \in Sids
    PROVE  /\ sessions[s].loopOf \in [Models(s) -> 0 .. Len(loops)]
           /\ sessions[s].released \in [Models(s) -> 0 .. Cardinality(Threads)]
           /\ \A k \in Models(s) : /\ sessions[s].released[k] \in Nat
                                   /\ sessions[s].released[k] <= Cardinality(Threads)
  <1>1. /\ sessions[s].loopOf \in [Models(s) -> 0 .. Len(loops)]
        /\ sessions[s].released \in [Models(s) -> 0 .. Cardinality(Threads)]
    BY DEF TypeOK, SessionType
  <1> QED
    BY <1>1, ThreadSets

\* A step that gives back no reference does not disturb the turns, unless it moves a thread
\* back behind a model it has to shut down, or before one that is shut down.
LEMMA TurnsStay ==
    ASSUME TypeOK, TurnInv, NEW t \in Threads, Others(t),
           \A s \in Sids : /\ s \in Sids' /\ Models(s)' = Models(s)
                           /\ sessions'[s].models_shutdown = sessions[s].models_shutdown
                           /\ sessions'[s].released = sessions[s].released,
           \A s \in Sids' : s \notin Sids => \A k \in Models(s)' :
               sessions'[s].released[k] = 0 /\ ~ sessions'[s].models_shutdown,
           \A s \in Sids : \A k \in Models(s) :
               IF sessions[s].models_shutdown THEN t \in Ahead(s, k)' => t \in Ahead(s, k)
               ELSE t \in Passed(s, k) => t \in Passed(s, k)'
    PROVE  TurnInv'
  <1>1. SUFFICES ASSUME NEW s \in Sids', NEW k \in Models(s)'
                 PROVE  IF sessions'[s].models_shutdown
                        THEN sessions'[s].released[k] + Cardinality(Ahead(s, k)') <= Cardinality(Threads)
                        ELSE sessions'[s].released[k] <= Cardinality(Passed(s, k)')
    BY DEF TurnInv
  <1>2. CASE s \in Sids
    <2>1. /\ k \in Models(s) /\ sessions'[s].released = sessions[s].released
          /\ sessions'[s].models_shutdown = sessions[s].models_shutdown
      BY <1>2
    <2>2. /\ sessions[s].released[k] \in Nat
          /\ IF sessions[s].models_shutdown
             THEN sessions[s].released[k] + Cardinality(Ahead(s, k)) <= Cardinality(Threads)
             ELSE sessions[s].released[k] <= Cardinality(Passed(s, k))
      BY <1>2, <2>1, ClientTypes DEF TurnInv
    <2>3. \A u \in Threads : u # t => /\ u \in Ahead(s, k)' <=> u \in Ahead(s, k)
                                      /\ u \in Passed(s, k)' <=> u \in Passed(s, k)
      BY DEF Ahead, Passed, Turn, Shutting, Place, Closing, Others, Still
    <2>4. /\ Ahead(s, k) \subseteq Threads /\ Ahead(s, k)' \subseteq Threads
          /\ Passed(s, k) \subseteq Threads /\ Passed(s, k)' \subseteq Threads
      BY DEF Ahead, Passed
    <2>5. PICK A, A2, P, P2 : /\ A = Ahead(s, k) /\ A2 = Ahead(s, k)'
                              /\ P = Passed(s, k) /\ P2 = Passed(s, k)'
      OBVIOUS
    <2>6. /\ sessions[s].models_shutdown => A2 \subseteq A
          /\ ~ sessions[s].models_shutdown => P \subseteq P2
      BY <1>2, <2>1, <2>3, <2>4, <2>5
    <2>7. /\ Cardinality(A) \in Nat /\ Cardinality(A2) \in Nat
          /\ Cardinality(P) \in Nat /\ Cardinality(P2) \in Nat
          /\ sessions[s].models_shutdown => Cardinality(A2) <= Cardinality(A)
          /\ ~ sessions[s].models_shutdown => Cardinality(P) <= Cardinality(P2)
      BY <2>4, <2>5, <2>6, ThreadSets
    <2>8. /\ sessions[s].models_shutdown =>
               sessions[s].released[k] + Cardinality(A2) <= Cardinality(Threads)
          /\ ~ sessions[s].models_shutdown => sessions[s].released[k] <= Cardinality(P2)
      BY <2>2, <2>5, <2>7, ThreadSets
    <2> QED
      BY <2>1, <2>5, <2>8
  <1>3. CASE s \notin Sids
    BY <1>3, ThreadSets DEF Passed
  <1> QED
    BY <1>2, <1>3

\* Nor are the counts disturbed by a thread that neither takes a loop nor gives one back.
LEMMA RefsStay ==
    ASSUME RefsInv, Quiet, NEW t \in Threads, Others(t), loop' = loop, count' = count,
           ReleasedTwice \/ (/\ t \in ThreadRefs' <=> t \in ThreadRefs
                             /\ t \in ThreadRefs => mine'[t] = mine[t])
    PROVE  RefsInv'
  <1>1. /\ ClientRefs' = ClientRefs /\ (ReleasedTwice' <=> ReleasedTwice) /\ Sids' = Sids
        /\ \A s \in Sids : Models(s)' = Models(s)
    BY QuietFacts
  <1>2. CASE ReleasedTwice
    BY <1>1, <1>2 DEF RefsInv
  <1>3. CASE ~ ReleasedTwice
    <2>1. ThreadRefs' = ThreadRefs /\ \A u \in ThreadRefs : mine'[u] = mine[u]
      BY <1>3 DEF ThreadRefs, Others, Still
    <2>2. \A r \in ClientRefs : sessions'[r[1]].loopOf[r[2]] = sessions[r[1]].loopOf[r[2]]
      <3>1. \A r \in ClientRefs : r[1] \in Sids
        BY ClientRefIs
      <3> QED
        BY <3>1 DEF Quiet
    <2>3. PICK C, T : C = ClientRefs /\ T = ThreadRefs /\ C = ClientRefs' /\ T = ThreadRefs'
      BY <1>1, <2>1
    <2>4. /\ IsFiniteSet(C) /\ count = Cardinality(C) + Cardinality(T)
          /\ (loop # 0) <=> (count > 0)
          /\ \A r \in C : sessions'[r[1]].loopOf[r[2]] = loop
          /\ \A u \in T : mine'[u] = loop
      BY <1>3, <2>1, <2>2, <2>3 DEF RefsInv
    <2> QED
      BY <2>3, <2>4 DEF RefsInv
  <1> QED
    BY <1>2, <1>3

\* What is shut down stays so.
LEMMA FlagsStay ==
    ASSUME TypeOK, DataInv, PlaceInv, FlagInv, NEW t \in Threads, Others(t), ReleasedTwice => ReleasedTwice',
           \A s \in Sids : /\ s \in Sids' /\ Models(s)' = Models(s)
                           /\ sessions'[s].models_shutdown = sessions[s].models_shutdown
                           /\ \A k \in Models(s) :
                                 sessions[s].released[k] >= 1 => sessions'[s].released[k] >= 1,
           \A s \in Sids' : s \notin Sids => ~ sessions'[s].models_shutdown,
           ReleasedTwice' \/ (Shutting(t)' =>
               \A k \in Models(on[t])' : k < at'[t] => sessions'[on'[t]].released[k] >= 1)
    PROVE  FlagInv'
  <1>1. SUFFICES ASSUME ~ ReleasedTwice'
                 PROVE  /\ \A s \in Sids' : sessions'[s].models_shutdown =>
                              \A k \in Models(s)' : sessions'[s].released[k] >= 1
                        /\ \A u \in Threads : Shutting(u)' =>
                              \A k \in Models(on[u])' : k < at'[u] => sessions'[on'[u]].released[k] >= 1
    BY DEF FlagInv
  <1>2. ASSUME NEW s \in Sids', sessions'[s].models_shutdown, NEW k \in Models(s)'
        PROVE  sessions'[s].released[k] >= 1
    BY <1>1, <1>2 DEF FlagInv
  <1>3. ASSUME NEW u \in Threads, u # t, Shutting(u)', NEW k \in Models(on[u])', k < at'[u]
        PROVE  sessions'[on'[u]].released[k] >= 1
    <2>1. Still(u) /\ Shutting(u)
      BY <1>3 DEF Others, Still, Shutting, Place, Closing
    <2>2. on[u] \in Sids
      BY <2>1 DEF TypeOK, DataInv, PlaceInv, PlaceOK, Sids
    <2>3. PICK s \in Sids : s = on[u] /\ s = on'[u]
      BY <2>1, <2>2 DEF Still
    <2>4. k \in Models(s)' /\ k < at[u]
      BY <1>3, <2>1, <2>3 DEF Still
    <2> QED
      BY <1>1, <2>1, <2>3, <2>4 DEF FlagInv
  <1> QED
    BY <1>1, <1>2, <1>3

----------------------------------------------------------------------------
(***************************************************************************)
(* Steps: what is left to show for one                                     *)
(***************************************************************************)
\* The types of a step.
StepTypes(t) ==
    /\ DataInv' /\ ThreadTypes'
    /\ live' \in [Apps -> 0 .. Len(sessions')] /\ lock' \in Threads \cup {None}
    /\ Len(sessions') <= MaxSessions
    /\ loop' \in 0 .. Len(loops') /\ count' \in Int /\ queries' \in 0 .. MaxQueries
    /\ on'[t] # 0 => at'[t] <= Clients[sessions'[on'[t]].app] + 1
    /\ \A s \in Sids' : /\ sessions'[s].loopOf \in [Models(s)' -> 0 .. Len(loops')]
                        /\ sessions'[s].released \in [Models(s)' -> Nat]

\* The types of a step follow from those of what it assigns; that a client is released once
\* per thread at most follows from whose turn it is (TurnInv).
LEMMA TypesKept ==
    ASSUME TypeOK, DataInv, NEW t \in Threads, Frame(t), StepTypes(t), TurnInv'
    PROVE  TypeOK'
  <1>1. \A s \in Sids' : \A k \in Models(s)' : sessions'[s].released[k] <= Cardinality(Threads)
    <2>1. SUFFICES ASSUME NEW s \in Sids', NEW k \in Models(s)'
                   PROVE  sessions'[s].released[k] <= Cardinality(Threads)
      OBVIOUS
    <2>2. /\ Ahead(s, k)' \subseteq Threads /\ Passed(s, k)' \subseteq Threads
          /\ sessions'[s].released[k] \in Nat
      BY DEF Ahead, Passed, StepTypes
    <2>3. PICK A, P : A = Ahead(s, k)' /\ P = Passed(s, k)'
      OBVIOUS
    <2>4. /\ sessions'[s].models_shutdown =>
                sessions'[s].released[k] + Cardinality(A) <= Cardinality(Threads)
          /\ ~ sessions'[s].models_shutdown => sessions'[s].released[k] <= Cardinality(P)
      BY <2>3 DEF TurnInv
    <2>5. /\ Cardinality(A) \in Nat /\ Cardinality(P) \in Nat /\ Cardinality(Threads) \in Nat
          /\ Cardinality(P) <= Cardinality(Threads)
      BY <2>2, <2>3, ThreadSets
    <2> QED
      BY <2>2, <2>4, <2>5
  <1>2. \A s \in Sids' : SessionType(s)'
    <2>1. SUFFICES ASSUME NEW s \in Sids' PROVE SessionType(s)'
      OBVIOUS
    <2>2. sessions'[s] \in Record
      BY DEF StepTypes, DataInv, Sids
    <2>3. /\ sessions'[s].app \in Apps /\ sessions'[s].connected \in BOOLEAN
          /\ sessions'[s].caching \in BOOLEAN /\ sessions'[s].models_shutdown \in BOOLEAN
      BY <2>2 DEF Record
    <2>4. sessions'[s].released \in [Models(s)' -> 0 .. Cardinality(Threads)]
      BY <1>1, ThreadSets DEF StepTypes
    <2> QED
      BY <2>3, <2>4 DEF StepTypes, SessionType
  <1>3. \A u \in Threads : on'[u] # 0 => at'[u] \in 1 .. Clients[sessions'[on'[u]].app] + 1
    <2>1. SUFFICES ASSUME NEW u \in Threads, on'[u] # 0
                   PROVE  at'[u] \in 1 .. Clients[sessions'[on'[u]].app] + 1
      OBVIOUS
    <2>2. /\ at'[u] \in Nat \ {0} /\ on'[u] \in Sids'
      <3>1. at'[u] \in Nat \ {0} /\ on'[u] \in 0 .. Len(sessions')
        BY DEF StepTypes, ThreadTypes
      <3>2. Len(sessions') \in Nat
        BY DEF StepTypes, DataInv
      <3> QED
        BY <2>1, <3>1, <3>2 DEF Sids
    <2>3. Clients[sessions'[on'[u]].app] \in Nat
      BY <1>2, <2>2, SessionsAssumption DEF SessionType
    <2>4. at'[u] <= Clients[sessions'[on'[u]].app] + 1
      <3>1. CASE u = t
        BY <2>1, <3>1 DEF StepTypes
      <3>2. CASE u # t
        <4>1. on'[u] = on[u] /\ at'[u] = at[u] /\ on[u] # 0 /\ on[u] \in Sids
          BY <2>1, <3>2 DEF Frame, Others, Still, TypeOK, DataInv, Sids
        <4>2. PICK s \in Sids : s = on[u] /\ s = on'[u]
          BY <4>1
        <4>3. sessions'[s].app = sessions[s].app
          BY DEF Frame, Carries
        <4>4. at[u] \in 1 .. Clients[sessions[s].app] + 1
          BY <4>1, <4>2 DEF TypeOK
        <4> QED
          BY <2>2, <2>3, <4>1, <4>2, <4>3, <4>4
      <3> QED
        BY <3>1, <3>2
    <2> QED
      BY <2>2, <2>3, <2>4
  <1>4. \A l \in DOMAIN loops' : loops'[l] \in {"running", "stopping", "closed"}
    BY DEF StepTypes, DataInv, LoopStates
  <1> QED
    BY <1>2, <1>3, <1>4 DEF StepTypes, ThreadTypes, TypeOK

\* The step of a thread to a session under construction by another.
Aside(t) ==
    \A u \in Threads : u # t /\ Building(u) =>
        sessions'[on[u]] = sessions[on[u]] /\ handle'[t] # on[u] /\ on'[t] # on[u]

\* A step keeps the places of the threads when its own thread is right where it goes.
LEMMA PlacesKept ==
    ASSUME TypeOK, DataInv, PlaceInv, OwnerInv, NEW t \in Threads, Frame(t), Aside(t), PlaceOK(t)'
    PROVE  PlaceInv'
  <1>1. ASSUME NEW u \in Threads, u # t PROVE PlaceOK(u)'
    BY <1>1, OtherPlaces DEF Aside
  <1> QED
    BY <1>1 DEF PlaceInv

\* A session under construction is nobody else's.
LEMMA Apart ==
    ASSUME TypeOK, DataInv, PlaceInv, OwnerInv, NEW t \in Threads, NEW u \in Threads, u # t, Building(u)
    PROVE  /\ lock = u /\ on[u] \in Sids /\ on[u] # 0
           /\ on[t] # on[u] /\ handle[t] # on[u]
           /\ \A a \in Apps : live[a] # on[u]
  <1>1. /\ lock = u /\ on[u] # 0 /\ on[t] # on[u] /\ handle[t] # on[u]
        /\ live[sessions[on[u]].app] = 0
    BY DEF PlaceInv, PlaceOK, BuildingOK
  <1>2. on[u] \in Sids
    BY <1>1 DEF TypeOK, DataInv, Sids
  <1>3. \A a \in Apps : live[a] = on[u] => sessions[on[u]].app = a
    BY <1>1 DEF OwnerInv
  <1> QED
    BY <1>1, <1>2, <1>3

\* What is left to show of a step: the parts of the invariant, and only its own thread's place.
LEMMA Assembled ==
    ASSUME IInv, NEW t \in Threads, Frame(t), Aside(t), StepTypes(t), PlaceOK(t)',
           OwnerInv', LoopInv', TurnInv', RefsInv', FlagInv'
    PROVE  IInv'
  <1>1. PlaceInv'
    BY PlacesKept DEF IInv
  <1>2. TypeOK'
    BY TypesKept DEF IInv
  <1> QED
    BY <1>1, <1>2 DEF IInv, StepTypes

\* How the thread of a quiet step may move.
Moves(t) ==
    /\ on'[t] # 0 => at'[t] <= Clients[sessions'[on'[t]].app] + 1
    /\ \A s \in Sids : \A k \in Models(s) :
           IF sessions[s].models_shutdown THEN t \in Ahead(s, k)' => t \in Ahead(s, k)
           ELSE t \in Passed(s, k) => t \in Passed(s, k)'
    /\ ReleasedTwice \/ (/\ t \in ThreadRefs' <=> t \in ThreadRefs
                         /\ t \in ThreadRefs => mine'[t] = mine[t])
    /\ ReleasedTwice \/ (Shutting(t)' =>
           \A k \in Models(on[t])' : k < at'[t] => sessions'[on'[t]].released[k] >= 1)

\* A step that leaves clients and references alone.
LEMMA QuietTypes ==
    ASSUME IInv, NEW t \in Threads, Quiet, Len(loops') = Len(loops),
           sessions' \in Seq(Record), loops' \in Seq(LoopStates), ThreadTypes',
           live' \in [Apps -> 0 .. Len(sessions)], lock' \in Threads \cup {None},
           loop' = loop, count' = count, queries' \in 0 .. MaxQueries,
           on'[t] # 0 => at'[t] <= Clients[sessions'[on'[t]].app] + 1
    PROVE  StepTypes(t)
  <1>1. TypeOK /\ DataInv /\ Sids' = Sids /\ \A s \in Sids : Models(s)' = Models(s)
    BY QuietFacts DEF IInv
  <1>2. \A s \in Sids' : /\ sessions'[s].loopOf \in [Models(s)' -> 0 .. Len(loops')]
                         /\ sessions'[s].released \in [Models(s)' -> Nat]
    <2>1. SUFFICES ASSUME NEW s \in Sids
                   PROVE  /\ sessions'[s].loopOf \in [Models(s)' -> 0 .. Len(loops')]
                          /\ sessions'[s].released \in [Models(s)' -> Nat]
      BY <1>1
    <2>2. /\ sessions[s].loopOf \in [Models(s) -> 0 .. Len(loops)]
          /\ sessions[s].released \in [Models(s) -> Nat]
      BY <1>1, ClientTypes, ThreadSets
    <2> QED
      BY <1>1, <2>2 DEF Quiet
  <1>3. loop \in 0 .. Len(loops) /\ count \in Int /\ Len(sessions) <= MaxSessions
    BY <1>1 DEF TypeOK
  <1>4. DataInv'
    BY DEF DataInv, ThreadTypes
  <1> QED
    BY <1>2, <1>3, <1>4 DEF StepTypes, Quiet

\* A step that leaves clients, references and _models_shutdown alone keeps the invariant if it
\* keeps the owners and the loops.
LEMMA QuietStep ==
    ASSUME IInv, NEW t \in Threads, Frame(t), Aside(t), Quiet, StepTypes(t), Moves(t),
           loop' = loop, count' = count,
           \A s \in Sids : sessions'[s].models_shutdown = sessions[s].models_shutdown,
           PlaceOK(t)', OwnerInv', LoopInv'
    PROVE  IInv'
  <1>1. /\ Sids' = Sids /\ \A s \in Sids : Models(s)' = Models(s)
        /\ ReleasedTwice' <=> ReleasedTwice
    BY QuietFacts
  <1>2. Others(t)
    BY DEF Frame
  <1>3. TurnInv'
    BY <1>1, <1>2, TurnsStay DEF IInv, Quiet, Moves
  <1>4. RefsInv'
    BY <1>2, RefsStay DEF IInv, Moves
  <1>5. FlagInv'
    BY <1>1, <1>2, FlagsStay DEF IInv, Quiet, Moves
  <1> QED
    BY <1>3, <1>4, <1>5, Assembled

\* A step that leaves the sessions alone.
LEMMA SameSessions ==
    ASSUME sessions' = sessions
    PROVE  /\ Quiet
           /\ \A s \in Sids : /\ Carries(s)
                              /\ sessions'[s] = sessions[s]
                              /\ sessions'[s].connected = sessions[s].connected
                              /\ sessions'[s].caching = sessions[s].caching
                              /\ sessions'[s].models_shutdown = sessions[s].models_shutdown
  <1>1. Quiet
    BY DEF Quiet
  <1>2. \A s \in Sids : Carries(s)
    BY <1>1, QuietFacts DEF Carries
  <1> QED
    BY <1>1, <1>2

\* A step that assigns nothing of the manager but the state of a loop keeps the invariant.
LEMMA CalmStep ==
    ASSUME IInv, NEW t \in Threads, Others(t), UNCHANGED <<managerVars, loop, count>>,
           loops' \in Seq(LoopStates), Len(loops') = Len(loops), LoopInv',
           ThreadTypes', queries' \in 0 .. MaxQueries, Moves(t), PlaceOK(t)',
           handle'[t] = handle[t] \/ \E a \in Apps : handle'[t] = live[a],
           on'[t] \in {0, on[t], handle[t]},
           lock = t => on'[t] = on[t] /\ handle'[t] = handle[t]
    PROVE  IInv'
  <1>1. /\ TypeOK /\ DataInv /\ OwnerInv /\ PlaceInv
        /\ sessions' = sessions /\ live' = live /\ lock' = lock
    BY DEF IInv, managerVars
  <1>2. /\ Quiet
        /\ \A s \in Sids : /\ Carries(s)
                           /\ sessions'[s] = sessions[s]
                           /\ sessions'[s].connected = sessions[s].connected
                           /\ sessions'[s].caching = sessions[s].caching
                           /\ sessions'[s].models_shutdown = sessions[s].models_shutdown
    BY <1>1, SameSessions
  <1>3. Frame(t)
    BY <1>1, <1>2 DEF Frame, DataInv
  <1>4. Aside(t)
    BY <1>1, <1>2, Apart DEF Aside
  <1>5. StepTypes(t)
    <2>1. /\ sessions' \in Seq(Record) /\ live' \in [Apps -> 0 .. Len(sessions)]
          /\ lock' \in Threads \cup {None}
      BY <1>1 DEF TypeOK, DataInv
    <2> QED
      BY <1>2, <2>1, QuietTypes DEF Moves
  <1>6. OwnerInv'
    BY <1>1, <1>2, <1>3, OwnersStay
  <1> QED
    BY <1>2, <1>3, <1>4, <1>5, <1>6, QuietStep

----------------------------------------------------------------------------
(***************************************************************************)
(* The steps                                                               *)
(***************************************************************************)
\* No session, no loop and idle threads satisfy the invariant.
LEMMA InitInv == ASSUME Init PROVE IInv
  <1>1. Sids = {} /\ Len(sessions) = 0 /\ Len(loops) = 0 /\ DOMAIN loops = {}
    BY DEF Init, Sids
  <1>2. TypeOK
    BY <1>1, SessionsAssumption DEF Init, TypeOK, Places
  <1>3. DataInv
    BY DEF Init, DataInv
  <1>4. PlaceInv
    BY SessionsAssumption DEF Init, PlaceInv, PlaceOK, Place, Closing, Building, Shutting, Removing
  <1>5. OwnerInv /\ LoopInv /\ TurnInv
    BY <1>1 DEF Init, OwnerInv, LoopInv, TurnInv, Closing
  <1>6. RefsInv
    <2>1. ClientRefs = {}
      BY <1>1, ClientRefIs
    <2>2. ThreadRefs = {}
      BY DEF Init, ThreadRefs
    <2> QED
      BY <2>1, <2>2, FS_EmptySet DEF Init, RefsInv
  <1>7. FlagInv
    BY <1>1 DEF Init, FlagInv, Shutting, Place, Closing
  <1> QED
    BY <1>2, <1>3, <1>4, <1>5, <1>6, <1>7 DEF IInv

\* The sessions a thread knows keep their clients.
LEMMA KnownComplete ==
    ASSUME TypeOK, DataInv, PlaceInv, NEW t \in Threads, \A s \in Sids : Carries(s)
    PROVE  /\ handle'[t] = handle[t] /\ handle'[t] # 0 => Complete(handle[t])'
           /\ on'[t] = on[t] /\ Shutting(t) => Complete(on[t])'
           /\ on'[t] = handle[t] /\ handle[t] # 0 => Complete(on[t])'
           /\ \A s \in Sids : Complete(s) /\ on'[t] = s => Complete(on[t])'
           /\ \A s \in Sids : Complete(s) /\ handle'[t] = s => Complete(handle[t])'
  <1>1. PICK h, s : h = handle[t] /\ s = on[t]
    OBVIOUS
  <1>2. /\ h # 0 => h \in Sids /\ Complete(h)
        /\ Shutting(t) => s \in Sids /\ Complete(s)
    BY <1>1 DEF PlaceInv, PlaceOK, TypeOK, DataInv, Sids
  <1>3. /\ h # 0 => Complete(h)'
        /\ Shutting(t) => Complete(s)'
        /\ \A x \in Sids : Complete(x) => Complete(x)'
    BY <1>2 DEF Carries
  <1>4. PICK h2, s2 : h2 = handle'[t] /\ s2 = on'[t]
    OBVIOUS
  <1>5. /\ Complete(h2)' => Complete(handle[t])'
        /\ Complete(s2)' => Complete(on[t])'
    BY <1>4 DEF Complete, Models
  <1> QED
    BY <1>1, <1>3, <1>4, <1>5

\* A query that finds its session active (_check_active) keeps the invariant.
LEMMA QueryStep ==
    ASSUME IInv, NEW t \in Threads, Query(t)
    PROVE  IInv'
  <1>1. /\ TypeOK /\ DataInv /\ PlaceInv /\ LoopInv /\ PlaceOK(t) /\ sessions' = sessions
        /\ lock = None /\ lock' = None /\ queries' = queries + 1
    BY DEF IInv, PlaceInv, Query, managerVars
  <1>2. /\ Others(t) /\ ThreadTypes'
        /\ pc[t] = "idle" /\ pc'[t] = "query" /\ handle'[t] = handle[t] /\ on'[t] = on[t]
        /\ at'[t] = at[t] /\ mine'[t] = mine[t] /\ after'[t] = after[t] /\ then'[t] = then[t]
    BY <1>1 DEF Query, Goto, Others, Still, TypeOK, DataInv, ThreadTypes, managerVars, loopVars, Places
  <1>3. on[t] = 0 /\ then[t] = "idle" /\ ~ Closing(t) /\ ~ Closing(t)'
    BY <1>1, <1>2 DEF PlaceOK, Place, Closing, Shutting
  <1>4. handle'[t] # 0 => Complete(handle[t])'
    BY <1>1, <1>2, SameSessions, KnownComplete
  <1>5. PlaceOK(t)'
    BY <1>1, <1>2, <1>3, <1>4, SessionsAssumption
       DEF PlaceOK, Place, Closing, Building, Shutting, Removing
  <1>6. LoopInv'
    BY <1>1, <1>2, <1>3, LoopsStay DEF Query
  <1>7. Moves(t)
    BY <1>2, <1>3 DEF Moves, Ahead, Passed, Turn, Shutting, Place, Closing, ThreadRefs
  <1>8. /\ UNCHANGED <<managerVars, loop, count>> /\ loops' \in Seq(LoopStates)
        /\ Len(loops') = Len(loops) /\ queries' \in 0 .. MaxQueries
    BY <1>1, SessionsAssumption DEF Query, loopVars, DataInv, TypeOK
  <1> QED
    BY <1>1, <1>2, <1>5, <1>6, <1>7, <1>8, CalmStep, SessionsAssumption

\* A thread that is given the session the app has keeps the invariant.
LEMMA GetExistingStep ==
    ASSUME IInv, NEW t \in Threads, NEW a \in Apps, GetExisting(t, a)
    PROVE  IInv'
  <1>1. /\ TypeOK /\ DataInv /\ PlaceInv /\ OwnerInv /\ LoopInv /\ PlaceOK(t) /\ sessions' = sessions
        /\ lock = None /\ lock' = None
    BY DEF IInv, PlaceInv, GetExisting, managerVars
  <1>2. live[a] # 0 /\ live[a] \in Sids /\ Complete(live[a])
    BY <1>1 DEF GetExisting, TypeOK, DataInv, Sids, OwnerInv
  <1>3. /\ Others(t) /\ ThreadTypes'
        /\ pc[t] = "idle" /\ pc'[t] = "idle" /\ handle'[t] = live[a] /\ on'[t] = on[t]
        /\ at'[t] = at[t] /\ mine'[t] = mine[t] /\ after'[t] = after[t] /\ then'[t] = then[t]
    BY <1>1 DEF GetExisting, Others, Still, TypeOK, DataInv, ThreadTypes, managerVars, loopVars
  <1>4. on[t] = 0 /\ then[t] = "idle" /\ ~ Closing(t) /\ ~ Closing(t)'
    BY <1>1, <1>3 DEF PlaceOK, Place, Closing, Shutting
  <1>5. Complete(handle[t])'
    BY <1>1, <1>2, <1>3, SameSessions, KnownComplete
  <1>6. PlaceOK(t)'
    BY <1>1, <1>3, <1>4, <1>5, SessionsAssumption
       DEF PlaceOK, Place, Closing, Building, Shutting, Removing
  <1>7. LoopInv'
    BY <1>1, <1>3, <1>4, LoopsStay DEF GetExisting
  <1>8. Moves(t)
    BY <1>3, <1>4 DEF Moves, Ahead, Passed, Turn, Shutting, Place, Closing, ThreadRefs
  <1>9. /\ UNCHANGED <<managerVars, loop, count>> /\ loops' \in Seq(LoopStates)
        /\ Len(loops') = Len(loops) /\ queries' \in 0 .. MaxQueries
    BY <1>1 DEF GetExisting, loopVars, DataInv, TypeOK
  <1> QED
    BY <1>1, <1>3, <1>6, <1>7, <1>8, <1>9, CalmStep, SessionsAssumption

\* Cancelling the requests of a client (ModelClient.shutdown) keeps the invariant.
LEMMA CancelRequestsStep ==
    ASSUME IInv, NEW t \in Threads, CancelRequests(t)
    PROVE  IInv'
  <1>1. /\ TypeOK /\ DataInv /\ PlaceInv /\ LoopInv /\ FlagInv /\ PlaceOK(t) /\ sessions' = sessions
        /\ lock' = lock /\ live' = live
    BY DEF IInv, PlaceInv, CancelRequests, managerVars
  <1>2. /\ Others(t) /\ ThreadTypes'
        /\ pc[t] = "client" /\ pc'[t] = "release" /\ handle' = handle /\ on' = on
        /\ at' = at /\ mine'[t] = mine[t] /\ after'[t] = after[t] /\ then'[t] = then[t]
        /\ at[t] \in Models(on[t])
    BY <1>1 DEF CancelRequests, Goto, Others, Still, TypeOK, DataInv, ThreadTypes, managerVars, loopVars, Places
  <1>3. Shutting(t) /\ Shutting(t)' /\ ~ Closing(t) /\ ~ Closing(t)'
    BY <1>2 DEF Place, Closing, Shutting
  <1>4. /\ handle'[t] # 0 => Complete(handle[t])'
        /\ Complete(on[t])'
    BY <1>1, <1>2, <1>3, SameSessions, KnownComplete
  <1>5. Removing(t)' <=> Removing(t)
    BY <1>2 DEF Removing
  <1>6. Removing(t) => RemovingOK(t)'
    BY <1>1, <1>2 DEF PlaceOK, RemovingOK
  <1>7. at'[t] \in Models(on[t])'
    BY <1>1, <1>2 DEF Models
  <1>8. PlaceOK(t)'
    BY <1>1, <1>2, <1>3, <1>4, <1>5, <1>6, <1>7
       DEF PlaceOK, Place, Closing, Building, Shutting, Removing
  <1>9. LoopInv'
    BY <1>1, <1>2, <1>3, LoopsStay DEF CancelRequests
  <1>10. Moves(t)
    <2>1. on'[t] # 0 => at'[t] <= Clients[sessions'[on'[t]].app] + 1
      BY <1>1, <1>2, <1>3, SessionsAssumption DEF Models, PlaceOK, TypeOK
    <2>2. \A s \in Sids : \A k \in Models(s) : /\ t \in Ahead(s, k)' <=> t \in Ahead(s, k)
                                               /\ t \in Passed(s, k)' <=> t \in Passed(s, k)
      BY <1>2, <1>3 DEF Ahead, Passed, Turn
    <2>3. t \notin ThreadRefs /\ t \notin ThreadRefs'
      BY <1>2 DEF ThreadRefs
    <2>4. ReleasedTwice \/
            \A k \in Models(on[t])' : k < at'[t] => sessions'[on'[t]].released[k] >= 1
      BY <1>1, <1>2, <1>3 DEF FlagInv, Models
    <2> QED
      BY <2>1, <2>2, <2>3, <2>4 DEF Moves
  <1>11. /\ UNCHANGED <<managerVars, loop, count>> /\ loops' \in Seq(LoopStates)
         /\ Len(loops') = Len(loops) /\ queries' \in 0 .. MaxQueries
    BY <1>1 DEF CancelRequests, loopVars, DataInv, TypeOK
  <1> QED
    BY <1>1, <1>2, <1>8, <1>9, <1>10, <1>11, CalmStep

\* A client passed over because its shutdown raises keeps the invariant: its loop is closed
\* under it, so its reference was given back already, or some client's twice.
LEMMA ShutdownRaisesStep ==
    ASSUME IInv, NEW t \in Threads, ShutdownRaises(t)
    PROVE  IInv'
  <1>1. /\ TypeOK /\ DataInv /\ PlaceInv /\ LoopInv /\ FlagInv /\ RefsInv /\ PlaceOK(t)
        /\ sessions' = sessions /\ lock' = lock /\ live' = live
    BY DEF IInv, PlaceInv, ShutdownRaises, managerVars
  <1>2. at[t] \in Nat \ {0} /\ at' = [at EXCEPT ![t] = at[t] + 1] /\ at \in [Threads -> Nat \ {0}]
    BY <1>1 DEF ShutdownRaises, DataInv
  <1>3. at' \in [Threads -> Nat \ {0}] /\ at'[t] = at[t] + 1 /\ \A u \in Threads : u # t => at'[u] = at[u]
    BY <1>2
  <1>4. /\ Others(t) /\ ThreadTypes'
        /\ pc[t] = "client" /\ pc'[t] = "client" /\ handle' = handle /\ on' = on
        /\ at'[t] = at[t] + 1 /\ mine'[t] = mine[t] /\ after'[t] = after[t] /\ then'[t] = then[t]
        /\ at[t] \in Models(on[t]) /\ at[t] \in Nat \ {0}
    BY <1>1, <1>2, <1>3 DEF ShutdownRaises, Others, Still, TypeOK, ThreadTypes, managerVars, loopVars
  <1>5. Shutting(t) /\ Shutting(t)' /\ ~ Closing(t) /\ ~ Closing(t)'
    BY <1>4 DEF Place, Closing, Shutting
  <1>6. /\ handle'[t] # 0 => Complete(handle[t])'
        /\ Complete(on[t])'
    BY <1>1, <1>4, <1>5, SameSessions, KnownComplete
  <1>7. Removing(t)' <=> Removing(t)
    BY <1>4 DEF Removing
  <1>8. Removing(t) => RemovingOK(t)'
    BY <1>1, <1>4 DEF PlaceOK, RemovingOK
  <1>9. PlaceOK(t)'
    BY <1>1, <1>4, <1>5, <1>6, <1>7, <1>8
       DEF PlaceOK, Place, Closing, Building, Shutting, Removing
  <1>10. LoopInv'
    BY <1>1, <1>4, <1>5, LoopsStay DEF ShutdownRaises
  \* The client's reference is gone: while it counts, the manager's loop is the client's and runs.
  <1>11. ReleasedTwice \/ sessions[on[t]].released[at[t]] >= 1
    <2>1. SUFFICES ASSUME ~ ReleasedTwice, ~ (sessions[on[t]].released[at[t]] >= 1) PROVE FALSE
      OBVIOUS
    <2>2. PICK s, k : s = on[t] /\ k = at[t]
      OBVIOUS
    <2>3. s \in Sids /\ k \in Models(s) /\ sessions[s].loopOf[k] # 0
      BY <1>1, <1>4, <1>5, <2>2 DEF PlaceOK, TypeOK, DataInv, Sids, Complete
    <2>4. sessions[s].released[k] = 0
      BY <1>1, <2>1, <2>2, <2>3, ClientTypes
    <2>5. <<s, k>> \in ClientRefs
      BY <2>3, <2>4, ClientRefIs
    <2>6. sessions[s].loopOf[k] = loop
      BY <1>1, <2>1, <2>5 DEF RefsInv
    <2>7. ClientLoop(t) = "running"
      BY <1>1, <2>2, <2>3, <2>6 DEF LoopInv, ClientLoop
    <2> QED
      BY <2>7 DEF ShutdownRaises
  <1>12. Moves(t)
    <2>1. on'[t] # 0 => at'[t] <= Clients[sessions'[on'[t]].app] + 1
      <3>1. on[t] \in Sids
        BY <1>1, <1>5 DEF PlaceOK, TypeOK, DataInv, Sids
      <3>2. Clients[sessions[on[t]].app] \in Nat
        BY <1>1, <3>1, RecordFacts DEF DataInv
      <3>3. at[t] + 1 <= Clients[sessions[on[t]].app] + 1
        BY <1>4, <3>2 DEF Models
      <3> QED
        BY <1>1, <1>4, <3>3
    <2>2. \A s \in Sids : \A k \in Models(s) : /\ t \in Ahead(s, k)' => t \in Ahead(s, k)
                                               /\ t \in Passed(s, k) => t \in Passed(s, k)'
      <3>1. ASSUME NEW s \in Sids, NEW k \in Models(s)
            PROVE  /\ t \in Ahead(s, k)' => t \in Ahead(s, k)
                   /\ t \in Passed(s, k) => t \in Passed(s, k)'
        <4>1. k \in Int
          BY DEF Models
        <4> QED
          BY <1>4, <1>5, <4>1 DEF Ahead, Passed, Turn
      <3> QED
        BY <3>1
    <2>3. t \notin ThreadRefs /\ t \notin ThreadRefs'
      BY <1>4 DEF ThreadRefs
    <2>4. ReleasedTwice \/
            \A k \in Models(on[t])' : k < at'[t] => sessions'[on'[t]].released[k] >= 1
      <3>1. ASSUME NEW k \in Models(on[t]), k < at[t] + 1, ~ ReleasedTwice
            PROVE  sessions[on[t]].released[k] >= 1
        <4>1. k < at[t] \/ k = at[t]
          BY <1>4, <3>1 DEF Models
        <4> QED
          BY <1>1, <1>5, <1>11, <3>1, <4>1 DEF FlagInv
      <3> QED
        BY <1>1, <1>4, <3>1 DEF Models
    <2> QED
      BY <2>1, <2>2, <2>3, <2>4 DEF Moves
  <1>13. /\ UNCHANGED <<managerVars, loop, count>> /\ loops' \in Seq(LoopStates)
         /\ Len(loops') = Len(loops) /\ queries' \in 0 .. MaxQueries
    BY <1>1 DEF ShutdownRaises, loopVars, DataInv, TypeOK
  <1> QED
    BY <1>1, <1>4, <1>9, <1>10, <1>12, <1>13, CalmStep

\* A thread that hangs on a loop closed under it keeps the invariant, and it holds no reference
\* that is still counted.
LEMMA HangStep ==
    ASSUME IInv, NEW t \in Threads, Hang(t)
    PROVE  IInv'
  <1>1. /\ TypeOK /\ DataInv /\ PlaceInv /\ LoopInv /\ RefsInv /\ PlaceOK(t)
        /\ sessions' = sessions /\ lock' = lock /\ live' = live
    BY DEF IInv, PlaceInv, Hang, managerVars
  <1>2. /\ Others(t) /\ ThreadTypes'
        /\ pc[t] \in {"client", "validate", "inside"} /\ pc'[t] = "hung"
        /\ handle' = handle /\ on' = on /\ at' = at /\ mine' = mine /\ after' = after /\ then' = then
    BY <1>1 DEF Hang, Goto, Others, Still, TypeOK, DataInv, ThreadTypes, managerVars, loopVars, Places
  <1>3. ~ Closing(t) /\ ~ Closing(t)' /\ ~ Shutting(t)' /\ ~ Building(t)' /\ Place(t)' = "hung"
    BY <1>2 DEF Place, Closing, Shutting, Building
  <1>4. handle'[t] # 0 => Complete(handle[t])'
    BY <1>1, <1>2, SameSessions, KnownComplete
  <1>5. Removing(t)' <=> Removing(t)
    BY <1>2 DEF Removing
  <1>6. Removing(t) => RemovingOK(t)'
    BY <1>1, <1>2 DEF PlaceOK, RemovingOK
  <1>7. PlaceOK(t)'
    BY <1>1, <1>2, <1>3, <1>4, <1>5, <1>6 DEF PlaceOK
  <1>8. LoopInv'
    BY <1>1, <1>2, <1>3, LoopsStay DEF Hang
  <1>9. Moves(t)
    <2>1. on'[t] # 0 => at'[t] <= Clients[sessions'[on'[t]].app] + 1
      <3>1. on[t] # 0 => on[t] \in Sids /\ at[t] \in 1 .. Clients[sessions[on[t]].app] + 1
        BY <1>1 DEF TypeOK, DataInv, Sids
      <3> QED
        BY <1>1, <1>2, <3>1, RecordFacts DEF DataInv
    <2>2. ASSUME NEW s \in Sids, NEW k \in Models(s)
          PROVE  /\ t \in Passed(s, k) => t \in Passed(s, k)'
                 /\ t \in Ahead(s, k)' => t \in Ahead(s, k)
      <3>1. t \in Passed(s, k) => t \in Passed(s, k)'
        BY <1>2 DEF Passed, Turn
      <3>2. CASE pc[t] = "client"
        <4>1. Turn(t)
          BY <3>2 DEF Turn, Shutting, Place, Closing
        <4> QED
          BY <1>2, <3>1, <4>1 DEF Ahead
      <3>3. CASE pc[t] = "inside"
        <4>1. on[t] = 0
          BY <1>1, <1>3, <3>3 DEF PlaceOK, Place
        <4> QED
          BY <1>2, <3>1, <4>1 DEF Ahead, Sids
      <3>4. CASE pc[t] = "validate"
        <4>1. at[t] = Clients[sessions[on[t]].app] + 1 /\ on[t] # 0
          BY <1>1, <1>3, <3>4 DEF PlaceOK, Building, BuildingOK, Place
        <4>2. Clients[sessions[s].app] \in Nat
          BY <1>1, RecordFacts DEF DataInv
        <4>3. on[t] = s => ~ (at[t] <= k)
          BY <4>1, <4>2 DEF Models
        <4> QED
          BY <1>2, <3>1, <4>3 DEF Ahead
      <3> QED
        BY <1>2, <3>1, <3>2, <3>3, <3>4
    <2>3. ReleasedTwice \/ (t \notin ThreadRefs /\ t \notin ThreadRefs')
      <3>1. t \notin ThreadRefs'
        BY <1>2 DEF ThreadRefs
      <3>2. ASSUME ~ ReleasedTwice, t \in ThreadRefs PROVE FALSE
        <4>1. mine[t] = loop /\ loops[mine[t]] = "stopping"
          BY <1>1, <3>2 DEF RefsInv, ThreadRefs, Hang
        <4>2. loop # 0
          <5>1. Cardinality(ThreadRefs) \in Nat /\ ThreadRefs # {} /\ IsFiniteSet(ThreadRefs)
            BY <3>2, ThreadSets DEF ThreadRefs
          <5>2. Cardinality(ThreadRefs) > 0
            BY <5>1, FS_EmptySet
          <5>3. Cardinality(ClientRefs) \in Nat
            BY <1>1, FS_CardinalityType DEF RefsInv
          <5>4. count = Cardinality(ClientRefs) + Cardinality(ThreadRefs) /\ ((loop # 0) <=> (count > 0))
            BY <1>1, <3>2 DEF RefsInv
          <5>5. PICK c, d : c = Cardinality(ClientRefs) /\ d = Cardinality(ThreadRefs)
            OBVIOUS
          <5> QED
            BY <5>1, <5>2, <5>3, <5>4, <5>5
        <4> QED
          BY <1>1, <4>1, <4>2 DEF LoopInv
      <3> QED
        BY <3>1, <3>2
    <2> QED
      BY <1>3, <2>1, <2>2, <2>3 DEF Moves
  <1>10. /\ UNCHANGED <<managerVars, loop, count>> /\ loops' \in Seq(LoopStates)
         /\ Len(loops') = Len(loops) /\ queries' \in 0 .. MaxQueries
    BY <1>1 DEF Hang, loopVars, DataInv, TypeOK
  <1> QED
    BY <1>1, <1>2, <1>7, <1>8, <1>9, <1>10, CalmStep

\* A removal that finds its app without a session keeps the invariant.
LEMMA RedundantStep ==
    ASSUME IInv, NEW t \in Threads, Redundant(t)
    PROVE  IInv'
  <1>1. /\ TypeOK /\ DataInv /\ PlaceInv /\ LoopInv /\ PlaceOK(t)
        /\ sessions' = sessions /\ lock = None /\ lock' = None
    BY DEF IInv, PlaceInv, Redundant, managerVars
  <1>2. /\ Others(t) /\ ThreadTypes'
        /\ pc[t] = "remove" /\ pc'[t] = "idle" /\ handle'[t] = handle[t] /\ on'[t] = 0
        /\ at'[t] = at[t] /\ mine'[t] = mine[t] /\ after'[t] = after[t] /\ then'[t] = then[t]
    BY <1>1 DEF Redundant, Goto, Others, Still, TypeOK, DataInv, ThreadTypes, managerVars, loopVars, Places
  <1>3. then[t] = "idle" /\ ~ Closing(t) /\ ~ Closing(t)'
    BY <1>1, <1>2 DEF PlaceOK, Place, Closing, Shutting
  <1>4. handle'[t] # 0 => Complete(handle[t])'
    BY <1>1, <1>2, SameSessions, KnownComplete
  <1>5. PlaceOK(t)'
    BY <1>1, <1>2, <1>3, <1>4, SessionsAssumption
       DEF PlaceOK, Place, Closing, Building, Shutting, Removing
  <1>6. LoopInv'
    BY <1>1, <1>2, <1>3, LoopsStay DEF Redundant
  <1>7. Moves(t)
    BY <1>2, <1>3 DEF Moves, Ahead, Passed, Turn, Shutting, Place, Closing, ThreadRefs
  <1>8. /\ UNCHANGED <<managerVars, loop, count>> /\ loops' \in Seq(LoopStates)
        /\ Len(loops') = Len(loops) /\ queries' \in 0 .. MaxQueries
    BY <1>1 DEF Redundant, loopVars, DataInv, TypeOK
  <1> QED
    BY <1>1, <1>2, <1>5, <1>6, <1>7, <1>8, CalmStep, SessionsAssumption

\* The first step of LocalSessionState.stop keeps the invariant.
LEMMA StopStep ==
    ASSUME IInv, NEW t \in Threads, Stop(t)
    PROVE  IInv'
  <1>1. /\ TypeOK /\ DataInv /\ PlaceInv /\ LoopInv /\ PlaceOK(t)
        /\ sessions' = sessions /\ lock' = lock
    BY DEF IInv, PlaceInv, Stop, managerVars
  <1>2. PICK s : s = handle[t]
    OBVIOUS
  <1>3. /\ pc[t] = "idle" /\ s # 0 /\ s \in Sids /\ Complete(s)
        /\ on[t] = 0 /\ then[t] = "idle" /\ ~ Closing(t) /\ lock # t
    BY <1>1, <1>2 DEF Stop, PlaceOK, Place, Closing, Building, Shutting, Removing, TypeOK, DataInv, Sids
  <1>4. /\ Others(t) /\ ThreadTypes'
        /\ handle'[t] = s /\ on'[t] = s /\ at'[t] = 1 /\ mine'[t] = mine[t] /\ after'[t] = after[t]
        /\ \/ sessions[s].models_shutdown /\ pc'[t] = "cache" /\ then'[t] = "idle"
           \/ ~ sessions[s].models_shutdown /\ pc'[t] = "client" /\ then'[t] = "cache"
    <2>1. /\ on' = [on EXCEPT ![t] = s] /\ at' = [at EXCEPT ![t] = 1] /\ handle' = handle
          /\ mine' = mine /\ after' = after /\ loops' = loops
          /\ \/ /\ sessions[s].models_shutdown /\ pc' = [pc EXCEPT ![t] = "cache"]
                /\ then' = [then EXCEPT ![t] = "idle"]
             \/ /\ ~ sessions[s].models_shutdown /\ pc' = [pc EXCEPT ![t] = "client"]
                /\ then' = [then EXCEPT ![t] = "cache"]
      BY <1>2 DEF Stop, ShutdownModels, Goto, loopVars
    <2>2. PICK p, w : pc' = [pc EXCEPT ![t] = p] /\ then' = [then EXCEPT ![t] = w]
                      /\ \/ sessions[s].models_shutdown /\ p = "cache" /\ w = "idle"
                         \/ ~ sessions[s].models_shutdown /\ p = "client" /\ w = "cache"
      BY <2>1
    <2>3. s \in 0 .. Len(sessions) /\ p \in Places /\ 1 \in Nat \ {0} /\ w \in {"idle", "cache", "delete"}
      BY <1>1, <1>3, <2>2 DEF DataInv, Sids, Places
    <2>4. ThreadTypes'
      BY <1>1, <2>1, <2>2, <2>3 DEF TypeOK, DataInv, ThreadTypes
    <2>5. Others(t)
      BY <1>1, <2>1, <2>2 DEF Others, Still, TypeOK, DataInv
    <2>6. /\ pc'[t] = p /\ then'[t] = w /\ handle'[t] = s /\ on'[t] = s /\ at'[t] = 1
          /\ mine'[t] = mine[t] /\ after'[t] = after[t]
      BY <1>1, <1>2, <2>1, <2>2 DEF TypeOK, DataInv
    <2> QED
      BY <2>2, <2>4, <2>5, <2>6
  <1>5. Complete(handle[t])' /\ Complete(on[t])'
    BY <1>1, <1>2, <1>3, <1>4, SameSessions, KnownComplete
  <1>6. ~ Closing(t)'
    BY <1>4 DEF Closing
  <1>7. PlaceOK(t)'
    BY <1>1, <1>3, <1>4, <1>5, <1>6 DEF PlaceOK, Place, Closing, Building, Shutting, Removing
  <1>8. LoopInv'
    BY <1>1, <1>3, <1>4, <1>6, LoopsStay DEF Stop
  <1>9. Moves(t)
    <2>1. on'[t] # 0 => at'[t] <= Clients[sessions'[on'[t]].app] + 1
      BY <1>1, <1>3, <1>4, RecordFacts DEF DataInv
    <2>2. ASSUME NEW x \in Sids, NEW k \in Models(x)
          PROVE  /\ t \notin Passed(x, k)
                 /\ sessions[x].models_shutdown => t \notin Ahead(x, k)'
      BY <1>3, <1>4, <1>6 DEF Ahead, Passed, Turn, Shutting, Place, Closing
    <2>3. t \notin ThreadRefs /\ t \notin ThreadRefs'
      BY <1>3, <1>4 DEF ThreadRefs
    <2>4. \A k \in Models(on[t])' : ~ (k < at'[t])
      BY <1>4 DEF Models
    <2> QED
      BY <2>1, <2>2, <2>3, <2>4 DEF Moves
  <1>10. /\ UNCHANGED <<managerVars, loop, count>> /\ loops' \in Seq(LoopStates)
         /\ Len(loops') = Len(loops) /\ queries' \in 0 .. MaxQueries
    BY <1>1 DEF Stop, loopVars, DataInv, TypeOK
  <1> QED
    BY <1>1, <1>2, <1>3, <1>4, <1>7, <1>8, <1>9, <1>10, CalmStep

\* A thread that closes a loop goes on where it was.
LEMMA SamePlace ==
    ASSUME TypeOK, DataInv, PlaceInv, NEW t \in Threads, Closing(t), Place(t)' = Place(t),
           sessions' = sessions, lock' = lock, live' = live,
           \A u \in Threads : handle'[u] = handle[u] /\ on'[u] = on[u],
           at'[t] = at[t], then'[t] = then[t],
           IF Closing(t)' THEN mine'[t] # 0 ELSE pc'[t] \in {"store", "fail", "idle", "client"}
    PROVE  PlaceOK(t)'
  <1>1. PlaceOK(t) /\ Place(t) = after[t] /\ after[t] \in {"store", "fail", "idle", "client"}
    BY DEF PlaceInv, PlaceOK, Place
  <1>2. /\ (Building(t)' <=> Building(t)) /\ (Shutting(t)' <=> Shutting(t))
        /\ (Removing(t)' <=> Removing(t))
        /\ pc'[t] \notin {"validate", "release", "cache", "delete", "remove", "hung"}
        /\ pc[t] \notin {"validate", "release", "cache", "delete", "remove", "hung"}
    BY <1>1 DEF Building, Shutting, Removing, Closing, Place
  <1>3. handle'[t] # 0 => Complete(handle[t])'
    BY SameSessions, KnownComplete
  <1>4. Shutting(t) => Complete(on[t])'
    BY SameSessions, KnownComplete
  <1>5. Building(t) => BuildingOK(t)'
    BY <1>1, <1>2 DEF PlaceOK, BuildingOK, Models
  <1>6. Removing(t) => RemovingOK(t)'
    BY <1>1, <1>2 DEF PlaceOK, RemovingOK
  <1>7. Closing(t)' => after'[t] \in {"store", "fail", "idle", "client"}
    BY <1>1 DEF Place
  <1> QED
    BY <1>1, <1>2, <1>3, <1>4, <1>5, <1>6, <1>7 DEF PlaceOK, Closing

\* And its turns and references are what they were.
LEMMA SameMoves ==
    ASSUME TypeOK, DataInv, PlaceInv, FlagInv, NEW t \in Threads, Closing(t), Place(t)' = Place(t),
           sessions' = sessions, on'[t] = on[t], at'[t] = at[t],
           pc'[t] \notin {"validate", "inside", "hung"}
    PROVE  Moves(t)
  <1>1. on'[t] # 0 => at'[t] <= Clients[sessions'[on'[t]].app] + 1
    <2>1. on[t] # 0 => on[t] \in Sids /\ at[t] \in 1 .. Clients[sessions[on[t]].app] + 1
      BY DEF TypeOK, DataInv, Sids
    <2> QED
      BY <2>1, RecordFacts DEF DataInv
  <1>2. (Shutting(t)' <=> Shutting(t)) /\ (Turn(t)' <=> Turn(t))
    BY DEF Shutting, Turn, Closing
  <1>3. \A s \in Sids : \A k \in Models(s) : /\ t \in Ahead(s, k)' <=> t \in Ahead(s, k)
                                             /\ t \in Passed(s, k)' <=> t \in Passed(s, k)
    BY <1>2 DEF Ahead, Passed
  <1>4. t \notin ThreadRefs /\ t \notin ThreadRefs'
    BY DEF ThreadRefs, Closing
  <1>5. ReleasedTwice \/ (Shutting(t)' =>
            \A k \in Models(on[t])' : k < at'[t] => sessions'[on'[t]].released[k] >= 1)
    BY <1>2 DEF FlagInv, Models
  <1> QED
    BY <1>1, <1>3, <1>4, <1>5 DEF Moves

\* Asking a loop to stop (_shutdown_loop) keeps the invariant.
LEMMA HaltStep ==
    ASSUME IInv, NEW t \in Threads, Halt(t)
    PROVE  IInv'
  <1>1. /\ TypeOK /\ DataInv /\ PlaceInv /\ LoopInv /\ FlagInv /\ PlaceOK(t)
        /\ sessions' = sessions /\ lock' = lock /\ live' = live
    BY DEF IInv, PlaceInv, Halt, managerVars
  <1>2. PICK l : l = mine[t]
    OBVIOUS
  <1>3. /\ Others(t) /\ ThreadTypes'
        /\ pc[t] = "halt" /\ pc'[t] = "join" /\ handle' = handle /\ on' = on /\ at' = at
        /\ mine' = mine /\ after' = after /\ then' = then
        /\ Len(loops') = Len(loops) /\ loops' \in Seq(LoopStates)
    <2>1. loops' = [loops EXCEPT ![l] = "stopping"] /\ "stopping" \in LoopStates
      BY <1>2 DEF Halt, LoopStates
    <2>2. Len(loops') = Len(loops) /\ loops' \in Seq(LoopStates)
      <3>1. l \in 1 .. Len(loops) /\ loops \in Seq(LoopStates)
        BY <1>1, <1>2 DEF Halt, PlaceOK, Closing, TypeOK, DataInv
      <3> QED
        BY <2>1, <3>1
    <2> QED
      BY <1>1, <2>2 DEF Halt, Goto, Others, Still, TypeOK, DataInv, ThreadTypes, managerVars, Places
  <1>4. Closing(t) /\ Closing(t)' /\ Place(t)' = Place(t) /\ mine[t] # 0
    BY <1>1, <1>3 DEF Closing, Place, PlaceOK
  <1>5. PlaceOK(t)'
    BY <1>1, <1>3, <1>4, SamePlace
  <1>6. Moves(t)
    BY <1>1, <1>3, <1>4, SameMoves
  <1>7. /\ l \in DOMAIN loops /\ l # loop /\ DOMAIN loops' = DOMAIN loops
        /\ loops'[l] = "stopping" /\ loop' = loop
        /\ \A x \in DOMAIN loops : x # l => loops'[x] = loops[x]
    BY <1>1, <1>2, <1>4 DEF Halt, TypeOK, DataInv, LoopInv
  <1>8. \A u \in Threads : /\ Closing(u)' <=> Closing(u)
                           /\ u # t => pc'[u] = pc[u]
                           /\ u # t /\ Closing(u) => mine[u] # l /\ mine[u] \in DOMAIN loops
    <2>1. \A u \in Threads : u # t => pc'[u] = pc[u]
      BY <1>3 DEF Others, Still
    <2>2. \A u \in Threads : Closing(u)' <=> Closing(u)
      BY <1>4, <2>1 DEF Closing
    <2>3. \A u \in Threads : u # t /\ Closing(u) => mine[u] # l /\ mine[u] \in DOMAIN loops
      BY <1>1, <1>2, <1>4 DEF LoopInv, PlaceInv, PlaceOK, TypeOK, DataInv
    <2> QED
      BY <2>1, <2>2, <2>3
  <1>9. LoopInv'
    <2>1. loop' # 0 => loops'[loop'] = "running"
      BY <1>1, <1>7 DEF LoopInv, TypeOK, DataInv
    <2>2. /\ \A u \in Threads : Closing(u)' => mine'[u] # loop'
          /\ \A u, v \in Threads : Closing(u)' /\ Closing(v)' /\ mine'[u] = mine'[v] => u = v
      BY <1>1, <1>3, <1>7, <1>8 DEF LoopInv
    <2>3. \A u \in Threads : pc'[u] = "halt" => loops'[mine'[u]] = "running"
      BY <1>1, <1>3, <1>7, <1>8 DEF LoopInv, Closing
    <2>4. \A u \in Threads : pc'[u] = "join" => loops'[mine'[u]] \in {"stopping", "closed"}
      BY <1>1, <1>2, <1>3, <1>7, <1>8 DEF LoopInv, Closing
    <2>5. ASSUME NEW x \in DOMAIN loops', x # loop'
          PROVE  \/ loops'[x] = "running" /\ \E u \in Threads : pc'[u] = "halt" /\ mine'[u] = x
                 \/ loops'[x] = "stopping" /\ \E u \in Threads : pc'[u] = "join" /\ mine'[u] = x
                 \/ loops'[x] = "closed"
      <3>1. CASE x = l
        BY <1>2, <1>3, <1>7, <3>1
      <3>2. CASE x # l
        BY <1>1, <1>2, <1>3, <1>7, <1>8, <2>5, <3>2 DEF LoopInv
      <3> QED
        BY <3>1, <3>2
    <2> QED
      BY <2>1, <2>2, <2>3, <2>4, <2>5 DEF LoopInv
  <1>10. UNCHANGED <<managerVars, loop, count>> /\ queries' \in 0 .. MaxQueries
    BY <1>1 DEF Halt, TypeOK
  <1> QED
    BY <1>1, <1>3, <1>5, <1>6, <1>9, <1>10, CalmStep

\* Joining the thread of a closed loop keeps the invariant.
LEMMA JoinStep ==
    ASSUME IInv, NEW t \in Threads, Join(t)
    PROVE  IInv'
  <1>1. /\ TypeOK /\ DataInv /\ PlaceInv /\ LoopInv /\ FlagInv /\ PlaceOK(t)
        /\ sessions' = sessions /\ lock' = lock /\ live' = live /\ loops' = loops /\ loop' = loop
    BY DEF IInv, PlaceInv, Join, managerVars, loopVars
  <1>2. /\ Others(t) /\ ThreadTypes'
        /\ pc[t] = "join" /\ pc'[t] = after[t] /\ handle' = handle /\ on' = on /\ at' = at
        /\ mine'[t] = 0 /\ after'[t] = "idle" /\ then' = then
    <2>1. /\ pc[t] = "join" /\ pc' = [pc EXCEPT ![t] = after[t]] /\ mine' = [mine EXCEPT ![t] = 0]
          /\ after' = [after EXCEPT ![t] = "idle"]
          /\ handle' = handle /\ on' = on /\ at' = at /\ then' = then
      BY DEF Join, Goto
    <2>2. "idle" \in Places /\ after[t] \in Places /\ 0 \in 0 .. Len(loops)
      BY <1>1 DEF TypeOK, DataInv, Places
    <2>3. ThreadTypes'
      BY <1>1, <2>1, <2>2 DEF TypeOK, DataInv, ThreadTypes
    <2> QED
      BY <1>1, <2>1, <2>3 DEF Others, Still, TypeOK, DataInv
  <1>3. /\ Closing(t) /\ after[t] \in {"store", "fail", "idle", "client"}
        /\ ~ Closing(t)' /\ Place(t)' = Place(t)
    BY <1>1, <1>2 DEF Closing, Place, PlaceOK
  <1>4. PlaceOK(t)'
    BY <1>1, <1>2, <1>3, SamePlace
  <1>5. Moves(t)
    BY <1>1, <1>2, <1>3, SameMoves
  <1>6. \A u \in Threads : /\ Closing(u)' => u # t /\ Closing(u) /\ mine'[u] = mine[u]
                           /\ u # t => pc'[u] = pc[u] /\ mine'[u] = mine[u]
    <2>1. \A u \in Threads : u # t => pc'[u] = pc[u] /\ mine'[u] = mine[u]
      BY <1>2 DEF Others, Still
    <2> QED
      BY <1>3, <2>1 DEF Closing
  <1>7. LoopInv'
    <2>1. /\ loop' # 0 => loops'[loop'] = "running"
          /\ \A u \in Threads : Closing(u)' => mine'[u] # loop'
          /\ \A u, v \in Threads : Closing(u)' /\ Closing(v)' /\ mine'[u] = mine'[v] => u = v
      BY <1>1, <1>6 DEF LoopInv
    <2>2. /\ \A u \in Threads : pc'[u] = "halt" => loops'[mine'[u]] = "running"
          /\ \A u \in Threads : pc'[u] = "join" => loops'[mine'[u]] \in {"stopping", "closed"}
      BY <1>1, <1>2, <1>3, <1>6 DEF LoopInv
    <2>3. ASSUME NEW x \in DOMAIN loops, x # loop
          PROVE  \/ loops'[x] = "running" /\ \E u \in Threads : pc'[u] = "halt" /\ mine'[u] = x
                 \/ loops'[x] = "stopping" /\ \E u \in Threads : pc'[u] = "join" /\ mine'[u] = x
                 \/ loops'[x] = "closed"
      <3>1. CASE x = mine[t]
        BY <1>1, <3>1 DEF Join
      <3>2. CASE x # mine[t]
        BY <1>1, <1>6, <2>3, <3>2 DEF LoopInv
      <3> QED
        BY <3>1, <3>2
    <2> QED
      BY <1>1, <2>1, <2>2, <2>3 DEF LoopInv
  <1>8. /\ UNCHANGED <<managerVars, loop, count>> /\ loops' \in Seq(LoopStates)
        /\ Len(loops') = Len(loops) /\ queries' \in 0 .. MaxQueries
    BY <1>1 DEF Join, loopVars, DataInv, TypeOK
  <1> QED
    BY <1>1, <1>2, <1>4, <1>5, <1>7, <1>8, CalmStep

\* The loop's own thread ends: only the loops change.
LEMMA LoopClosesStep ==
    ASSUME IInv, NEW l \in DOMAIN loops, LoopCloses(l)
    PROVE  IInv'
  <1>1. /\ TypeOK /\ DataInv /\ PlaceInv /\ OwnerInv /\ LoopInv /\ TurnInv /\ RefsInv /\ FlagInv
        /\ sessions' = sessions /\ lock' = lock /\ live' = live /\ loop' = loop /\ count' = count
        /\ pc' = pc /\ handle' = handle /\ on' = on /\ at' = at /\ mine' = mine
        /\ after' = after /\ then' = then /\ queries' = queries
    BY DEF IInv, LoopCloses, managerVars, threadVars
  <1>2. /\ loops \in Seq(LoopStates) /\ loops[l] = "stopping" /\ loops' = [loops EXCEPT ![l] = "closed"]
        /\ "closed" \in LoopStates
    BY <1>1 DEF LoopCloses, DataInv, LoopStates
  <1>3. /\ loops' \in Seq(LoopStates) /\ Len(loops') = Len(loops) /\ DOMAIN loops' = DOMAIN loops
        /\ loops'[l] = "closed" /\ \A x \in DOMAIN loops : x # l => loops'[x] = loops[x]
    BY <1>2
  <1>4. DataInv' /\ PlaceInv' /\ OwnerInv' /\ TurnInv' /\ RefsInv' /\ FlagInv'
    <2>1. DataInv'
      BY <1>1, <1>3 DEF DataInv
    <2>2. Sids' = Sids /\ \A s \in Sids : Models(s)' = Models(s)
      BY <1>1 DEF Sids, Models
    <2>3. PlaceInv'
      BY <1>1 DEF PlaceInv, PlaceOK, Place, Closing, Building, Shutting, Removing, BuildingOK, RemovingOK,
                  Complete, Models
    <2>4. OwnerInv'
      BY <1>1 DEF OwnerInv, Complete, Models, Sids
    <2>5. TurnInv'
      <3>1. ASSUME NEW s, NEW k PROVE Ahead(s, k)' = Ahead(s, k) /\ Passed(s, k)' = Passed(s, k)
        BY <1>1 DEF Ahead, Passed, Turn, Shutting, Place, Closing
      <3> QED
        BY <1>1, <2>2, <3>1 DEF TurnInv
    <2>6. ReleasedTwice' <=> ReleasedTwice
      BY <1>1, SameSessions, QuietFacts
    <2>7. ClientRefs' = ClientRefs /\ ThreadRefs' = ThreadRefs
      BY <1>1, SameSessions, QuietFacts DEF ThreadRefs
    <2>8. RefsInv'
      BY <1>1, <2>6, <2>7 DEF RefsInv
    <2>9. FlagInv'
      BY <1>1, <2>6 DEF FlagInv, Models, Sids, Shutting, Place, Closing
    <2> QED
      BY <2>1, <2>3, <2>4, <2>5, <2>8, <2>9
  <1>5. LoopInv'
    <2>1. loop' # 0 => loops'[loop'] = "running"
      BY <1>1, <1>2, <1>3 DEF LoopInv, TypeOK
    <2>2. \A u \in Threads : Closing(u)' <=> Closing(u)
      BY <1>1 DEF Closing
    <2>3. \A u \in Threads : Closing(u) => mine[u] \in DOMAIN loops
      BY <1>1 DEF PlaceInv, PlaceOK, TypeOK, DataInv
    <2>4. /\ \A u \in Threads : pc'[u] = "halt" => loops'[mine'[u]] = "running"
          /\ \A u \in Threads : pc'[u] = "join" => loops'[mine'[u]] \in {"stopping", "closed"}
      BY <1>1, <1>2, <1>3, <2>3 DEF LoopInv, Closing
    <2>5. \A x \in DOMAIN loops' : x # loop' =>
            \/ loops'[x] = "running" /\ \E u \in Threads : pc'[u] = "halt" /\ mine'[u] = x
            \/ loops'[x] = "stopping" /\ \E u \in Threads : pc'[u] = "join" /\ mine'[u] = x
            \/ loops'[x] = "closed"
      BY <1>1, <1>2, <1>3 DEF LoopInv
    <2> QED
      BY <1>1, <2>1, <2>2, <2>4, <2>5 DEF LoopInv
  <1>6. TypeOK'
    <2>1. /\ \A s \in Sids' : SessionType(s)'
          /\ \A x \in DOMAIN loops' : loops'[x] \in {"running", "stopping", "closed"}
      BY <1>1, <1>2, <1>3 DEF TypeOK, SessionType, Sids, Models
    <2> QED
      BY <1>1, <1>3, <2>1 DEF TypeOK
  <1> QED
    BY <1>4, <1>5, <1>6 DEF IInv

\* A step that gives up the lock or the session it was at, and keeps the loops.
LEMMA LeaveStep ==
    ASSUME IInv, NEW t \in Threads, Frame(t), Aside(t), Quiet, ThreadTypes',
           sessions' \in Seq(Record), live' \in [Apps -> 0 .. Len(sessions)], lock' \in Threads \cup {None},
           loops' = loops, loop' = loop, count' = count, queries' = queries,
           ~ Closing(t), ~ Closing(t)', on'[t] = 0, ~ Turn(t), ~ Turn(t)',
           t \notin ThreadRefs, t \notin ThreadRefs',
           \A s \in Sids : sessions'[s].models_shutdown = sessions[s].models_shutdown,
           PlaceOK(t)', OwnerInv'
    PROVE  IInv'
  <1>1. LoopInv'
    BY LoopsStay DEF IInv, Frame, loopVars
  <1>2. StepTypes(t)
    <2>1. loops' \in Seq(LoopStates) /\ Len(loops') = Len(loops) /\ queries' \in 0 .. MaxQueries
      BY DEF IInv, DataInv, TypeOK
    <2> QED
      BY <2>1, QuietTypes
  <1>3. Moves(t)
    BY DEF Moves, Ahead, Passed, Turn
  <1> QED
    BY <1>1, <1>2, <1>3, QuietStep

\* A construction that fails gives up the lock and its database, and keeps the invariant.
LEMMA BuildFailsStep ==
    ASSUME IInv, NEW t \in Threads, BuildFails(t)
    PROVE  IInv'
  <1>1. TypeOK /\ DataInv /\ PlaceInv /\ OwnerInv /\ PlaceOK(t)
    BY DEF IInv, PlaceInv
  <1>2. PICK s : s = on[t]
    OBVIOUS
  <1>3. /\ pc[t] \in {"build", "fail"} /\ Building(t) /\ ~ Closing(t) /\ ~ Turn(t) /\ t \notin ThreadRefs
    BY DEF BuildFails, Building, Closing, Place, Turn, Shutting, ThreadRefs
  <1>4. /\ s \in Sids /\ lock = t /\ live[sessions[s].app] = 0 /\ then[t] = "idle"
    BY <1>1, <1>2, <1>3 DEF PlaceOK, BuildingOK, TypeOK, DataInv, Sids, Turn
  <1>5. /\ Only(s)
        /\ sessions'[s].app = sessions[s].app /\ sessions'[s].loopOf = sessions[s].loopOf
        /\ sessions'[s].released = sessions[s].released /\ sessions'[s].connected = FALSE
        /\ sessions'[s].caching = sessions[s].caching
        /\ sessions'[s].models_shutdown = sessions[s].models_shutdown
    BY <1>1, <1>2, <1>4, Disconnected DEF BuildFails, DataInv
  <1>6. /\ Quiet /\ sessions' \in Seq(Record)
        /\ \A x \in Sids : sessions'[x].models_shutdown = sessions[x].models_shutdown
                           /\ sessions'[x].caching = sessions[x].caching
                           /\ (x # s => sessions'[x] = sessions[x])
    BY <1>5 DEF Only, Quiet
  <1>7. \A x \in Sids : Carries(x)
    BY <1>1, <1>5, <1>6, QuietFacts, RecordFacts DEF Carries, DataInv
  <1>8. /\ Others(t) /\ ThreadTypes'
        /\ pc'[t] = "idle" /\ handle'[t] = handle[t] /\ on'[t] = 0 /\ then'[t] = then[t]
        /\ lock' = None /\ live' = live
    <2>1. Len(sessions') = Len(sessions) /\ "idle" \in Places /\ Len(sessions) \in Nat
      BY <1>1, <1>6 DEF Quiet, Places, DataInv
    <2> QED
      BY <1>1, <2>1, SMTT(30) DEF BuildFails, Goto, Others, Still, TypeOK, DataInv, ThreadTypes, loopVars
  <1>9. Frame(t)
    BY <1>1, <1>4, <1>6, <1>7, <1>8 DEF Frame, Quiet, DataInv
  <1>10. Aside(t)
    BY <1>1, <1>4, Apart DEF Aside
  <1>11. handle'[t] # 0 => Complete(handle[t])'
    BY <1>1, <1>7, <1>8, KnownComplete
  <1>12. ~ Closing(t)' /\ ~ Turn(t)' /\ t \notin ThreadRefs' /\ Place(t)' = "idle"
    BY <1>8 DEF Closing, Turn, Shutting, Place, ThreadRefs
  <1>13. PlaceOK(t)'
    BY <1>4, <1>8, <1>11, <1>12, SessionsAssumption DEF PlaceOK, Place, Closing, Building, Shutting, Removing
  <1>14. OwnerInv'
    <2>1. ASSUME NEW a \in Apps, live'[a] # 0
          PROVE  sessions'[live'[a]].app = a /\ Complete(live[a])' /\ sessions'[live'[a]].connected
      <3>1. PICK v : v = live[a]
        OBVIOUS
      <3>2. v \in Sids /\ sessions[v].app = a /\ Complete(v)
        BY <1>1, <1>8, <2>1, <3>1 DEF TypeOK, DataInv, Sids, OwnerInv
      <3>3. v # s
        BY <1>4, <1>8, <2>1, <3>1, <3>2
      <3>4. sessions[v].connected
        BY <1>1, <1>2, <1>4, <1>8, <2>1, <3>1, <3>3 DEF OwnerInv
      <3>5. sessions'[v] = sessions[v] /\ Complete(v)'
        BY <1>6, <1>7, <3>2, <3>3 DEF Carries
      <3>6. v = live'[a]
        BY <1>8, <3>1
      <3> QED
        BY <3>2, <3>4, <3>5, <3>6
    <2>2. ASSUME NEW x \in Sids', sessions'[x].connected
          PROVE  live'[sessions'[x].app] = x
      <3>1. x \in Sids /\ x # s /\ sessions'[x] = sessions[x]
        BY <1>5, <1>6, <2>2 DEF Quiet, Sids
      <3> QED
        BY <1>1, <1>2, <1>4, <1>8, <2>2, <3>1 DEF OwnerInv
    <2>3. ASSUME NEW x \in Sids', ~ sessions'[x].caching PROVE sessions'[x].models_shutdown
      <3>1. x \in Sids
        BY <1>6 DEF Quiet, Sids
      <3> QED
        BY <1>1, <1>6, <2>3, <3>1 DEF OwnerInv
    <2> QED
      BY <2>1, <2>2, <2>3 DEF OwnerInv
  <1>15. /\ live' \in [Apps -> 0 .. Len(sessions)] /\ lock' \in Threads \cup {None}
         /\ loops' = loops /\ loop' = loop /\ count' = count /\ queries' = queries
    BY <1>1, <1>8 DEF BuildFails, loopVars, TypeOK
  <1> QED
    BY <1>3, <1>6, <1>8, <1>9, <1>10, <1>12, <1>13, <1>14, <1>15, LeaveStep

\* Storing the constructed session under the lock keeps the invariant.
LEMMA StoreStep ==
    ASSUME IInv, NEW t \in Threads, Store(t)
    PROVE  IInv'
  <1>1. TypeOK /\ DataInv /\ PlaceInv /\ OwnerInv /\ PlaceOK(t) /\ sessions' = sessions
    BY DEF IInv, PlaceInv, Store
  <1>2. PICK s : s = on[t]
    OBVIOUS
  <1>3. /\ pc[t] \in {"build", "store"} /\ Building(t) /\ ~ Closing(t) /\ ~ Turn(t) /\ t \notin ThreadRefs
    BY DEF Store, Building, Closing, Place, Turn, Shutting, ThreadRefs
  <1>4. /\ s \in Sids /\ lock = t /\ live[sessions[s].app] = 0 /\ then[t] = "idle"
        /\ sessions[s].connected
        /\ \A k \in Models(s) : sessions[s].loopOf[k] = 0 <=> k >= at[t]
    BY <1>1, <1>2, <1>3 DEF PlaceOK, BuildingOK, TypeOK, DataInv, Sids, Turn
  <1>5. sessions[s].app \in Apps /\ Clients[sessions[s].app] \in Nat /\ Len(sessions) \in Nat
    BY <1>1, <1>4, RecordFacts DEF DataInv
  <1>6. Complete(s)
    BY <1>2, <1>4, <1>5 DEF Store, Complete, Models
  <1>7. /\ Quiet /\ sessions' \in Seq(Record)
        /\ \A x \in Sids : Carries(x) /\ sessions'[x].models_shutdown = sessions[x].models_shutdown
    BY <1>1, SameSessions DEF DataInv
  <1>8. /\ Others(t) /\ ThreadTypes'
        /\ pc'[t] = "idle" /\ handle'[t] = s /\ on'[t] = 0 /\ then'[t] = then[t]
        /\ lock' = None
    <2>1. "idle" \in Places /\ s \in 0 .. Len(sessions)
      BY <1>4, <1>5 DEF Places, Sids
    <2>2. /\ pc' = [pc EXCEPT ![t] = "idle"] /\ on' = [on EXCEPT ![t] = 0] /\ lock' = None
          /\ handle' = [handle EXCEPT ![t] = s] /\ at' = [at EXCEPT ![t] = 1]
          /\ mine' = mine /\ after' = after /\ then' = then /\ loops' = loops
      BY <1>2 DEF Store, Goto, loopVars
    <2>3. ThreadTypes'
      BY <1>1, <1>5, <2>1, <2>2, SMTT(30) DEF TypeOK, DataInv, ThreadTypes
    <2> QED
      BY <1>1, <2>2, <2>3 DEF Others, Still, TypeOK, DataInv
  <1>9. Frame(t)
    BY <1>1, <1>4, <1>7, <1>8 DEF Frame, DataInv
  <1>10. Aside(t)
    BY <1>1, <1>4, Apart DEF Aside
  <1>11. Complete(handle[t])'
    BY <1>1, <1>4, <1>6, <1>7, <1>8, KnownComplete
  <1>12. ~ Closing(t)' /\ ~ Turn(t)' /\ t \notin ThreadRefs' /\ Place(t)' = "idle"
    BY <1>8 DEF Closing, Turn, Shutting, Place, ThreadRefs
  <1>13. PlaceOK(t)'
    BY <1>4, <1>8, <1>11, <1>12, SessionsAssumption DEF PlaceOK, Place, Closing, Building, Shutting, Removing
  <1>14. /\ live' \in [Apps -> 0 .. Len(sessions)] /\ live'[sessions[s].app] = s
         /\ \A a \in Apps : a # sessions[s].app => live'[a] = live[a]
    BY <1>1, <1>2, <1>4, <1>5 DEF Store, TypeOK, Sids
  <1>15. OwnerInv'
    <2>1. ASSUME NEW a \in Apps, live'[a] # 0
          PROVE  sessions'[live'[a]].app = a /\ Complete(live[a])' /\ sessions'[live'[a]].connected
      <3>1. PICK v : v = live'[a]
        OBVIOUS
      <3>2. v \in Sids /\ sessions[v].app = a /\ Complete(v) /\ sessions[v].connected
        <4>1. CASE a = sessions[s].app
          BY <1>4, <1>6, <1>14, <3>1, <4>1
        <4>2. CASE a # sessions[s].app
          <5>1. v = live[a] /\ v # 0 /\ v \in Sids
            BY <1>1, <1>14, <2>1, <3>1, <4>2 DEF TypeOK, DataInv, Sids
          <5>2. sessions[v].app = a /\ Complete(v) /\ v # s
            BY <1>1, <4>2, <5>1 DEF OwnerInv
          <5> QED
            BY <1>1, <1>2, <1>4, <5>1, <5>2 DEF OwnerInv
        <4> QED
          BY <4>1, <4>2
      <3>3. Complete(v)'
        BY <1>7, <3>2 DEF Carries
      <3> QED
        BY <1>1, <3>1, <3>2, <3>3
    <2>2. ASSUME NEW x \in Sids', sessions'[x].connected
          PROVE  live'[sessions'[x].app] = x
      <3>1. x \in Sids /\ sessions'[x] = sessions[x] /\ x # 0 /\ sessions[x].app \in Apps
        BY <1>1, RecordFacts DEF Sids, DataInv
      <3>2. CASE x = s
        BY <1>1, <1>14, <3>2
      <3>3. CASE x # s
        BY <1>1, <1>2, <1>4, <1>14, <2>2, <3>1, <3>3 DEF OwnerInv
      <3> QED
        BY <3>2, <3>3
    <2>3. ASSUME NEW x \in Sids', ~ sessions'[x].caching PROVE sessions'[x].models_shutdown
      BY <1>1, <2>3 DEF OwnerInv, Sids
    <2> QED
      BY <2>1, <2>2, <2>3 DEF OwnerInv
  <1>16. /\ lock' \in Threads \cup {None}
         /\ loops' = loops /\ loop' = loop /\ count' = count /\ queries' = queries
    BY <1>1, <1>8 DEF Store, loopVars, TypeOK
  <1> QED
    BY <1>3, <1>7, <1>8, <1>9, <1>10, <1>12, <1>13, <1>14, <1>15, <1>16, LeaveStep

\* Closing the cache, once the models are shut down, keeps the invariant.
LEMMA CloseCacheStep ==
    ASSUME IInv, NEW t \in Threads, CloseCache(t)
    PROVE  IInv'
  <1>1. TypeOK /\ DataInv /\ PlaceInv /\ OwnerInv /\ LoopInv /\ PlaceOK(t)
    BY DEF IInv, PlaceInv
  <1>2. PICK s : s = on[t]
    OBVIOUS
  <1>3. /\ pc[t] = "cache" /\ ~ Closing(t) /\ ~ Turn(t) /\ t \notin ThreadRefs
    BY DEF CloseCache, Closing, Place, Turn, Shutting, ThreadRefs
  <1>4. /\ s \in Sids /\ s = handle[t] /\ s # 0 /\ sessions[s].models_shutdown /\ then[t] = "idle" /\ lock # t
    BY <1>1, <1>2, <1>3 DEF PlaceOK, Place, Closing, Building, Removing, TypeOK, DataInv, Sids, Turn
  <1>5. /\ Only(s)
        /\ sessions'[s].app = sessions[s].app /\ sessions'[s].loopOf = sessions[s].loopOf
        /\ sessions'[s].released = sessions[s].released
        /\ sessions'[s].connected = sessions[s].connected
        /\ sessions'[s].models_shutdown = sessions[s].models_shutdown
    BY <1>1, <1>2, <1>4, CacheClosed DEF CloseCache, DataInv
  <1>6. /\ Quiet /\ sessions' \in Seq(Record)
        /\ \A x \in Sids : sessions'[x].models_shutdown = sessions[x].models_shutdown
                           /\ sessions'[x].connected = sessions[x].connected
                           /\ (sessions'[x].caching = sessions[x].caching \/ sessions'[x].models_shutdown)
                           /\ (x # s => sessions'[x] = sessions[x])
    BY <1>4, <1>5 DEF Only, Quiet
  <1>7. \A x \in Sids : Carries(x)
    BY <1>6, QuietFacts DEF Carries, Quiet
  <1>8. /\ Others(t) /\ ThreadTypes'
        /\ pc'[t] = "remove" /\ handle'[t] = handle[t] /\ on'[t] = on[t] /\ then'[t] = then[t]
        /\ at'[t] = at[t] /\ mine'[t] = mine[t] /\ lock' = lock /\ live' = live
    <2>1. Len(sessions') = Len(sessions) /\ "remove" \in Places
      BY <1>6 DEF Quiet, Places
    <2> QED
      BY <1>1, <2>1 DEF CloseCache, Goto, Others, Still, TypeOK, DataInv, ThreadTypes, loopVars
  <1>9. Frame(t)
    BY <1>6, <1>7, <1>8, <1>1 DEF Frame, Quiet, DataInv
  <1>10. Aside(t)
    BY <1>1, <1>2, <1>6, <1>8, Apart DEF Aside
  <1>11. handle'[t] # 0 => Complete(handle[t])'
    BY <1>1, <1>7, <1>8, KnownComplete
  <1>12. ~ Closing(t)' /\ ~ Turn(t)' /\ t \notin ThreadRefs' /\ Place(t)' = "remove"
    BY <1>8 DEF Closing, Turn, Shutting, Place, ThreadRefs
  <1>13. PlaceOK(t)'
    BY <1>2, <1>4, <1>8, <1>11, <1>12 DEF PlaceOK, Place, Closing, Building, Shutting, Removing
  <1>14. OwnerInv'
    BY <1>1, <1>4, <1>6, <1>8, <1>9, OwnersStay DEF Quiet
  <1>15. loops' = loops /\ loop' = loop /\ count' = count /\ queries' = queries
    BY DEF CloseCache, loopVars
  <1>16. LoopInv'
    BY <1>1, <1>3, <1>8, <1>12, <1>15, LoopsStay DEF loopVars
  <1>17. Moves(t)
    <2>1. at[t] \in 1 .. Clients[sessions[s].app] + 1
      BY <1>1, <1>2, <1>4 DEF TypeOK
    <2>2. on'[t] # 0 => at'[t] <= Clients[sessions'[on'[t]].app] + 1
      <3>1. Clients[sessions[s].app] \in Nat
        BY <1>1, <1>4, RecordFacts DEF DataInv
      <3>2. at[t] <= Clients[sessions[s].app] + 1
        BY <2>1, <3>1
      <3> QED
        BY <1>2, <1>5, <1>8, <3>2
    <2> QED
      BY <1>3, <1>12, <2>2 DEF Moves, Ahead, Passed, Turn
  <1>18. StepTypes(t)
    <2>1. /\ loops' \in Seq(LoopStates) /\ Len(loops') = Len(loops) /\ queries' \in 0 .. MaxQueries
          /\ live' \in [Apps -> 0 .. Len(sessions)] /\ lock' \in Threads \cup {None}
      BY <1>1, <1>8, <1>15 DEF DataInv, TypeOK
    <2> QED
      BY <1>6, <1>8, <1>15, <1>17, <2>1, QuietTypes DEF Moves
  <1> QED
    BY <1>6, <1>9, <1>10, <1>13, <1>14, <1>15, <1>16, <1>17, <1>18, QuietStep

\* The end of a removal, which gives up the lock, keeps the invariant.
LEMMA DeleteStep ==
    ASSUME IInv, NEW t \in Threads, Delete(t)
    PROVE  IInv'
  <1>1. TypeOK /\ DataInv /\ PlaceInv /\ OwnerInv /\ PlaceOK(t) /\ sessions' = sessions
    BY DEF IInv, PlaceInv, Delete
  <1>2. PICK h, s : h = handle[t] /\ s = on[t]
    OBVIOUS
  <1>3. /\ pc[t] = "delete" /\ Removing(t) /\ ~ Closing(t) /\ ~ Turn(t) /\ t \notin ThreadRefs
    BY DEF Delete, Removing, Closing, Place, Turn, Shutting, ThreadRefs
  <1>4. /\ h \in Sids /\ s \in Sids /\ lock = t /\ live[sessions[h].app] = s /\ then[t] = "idle"
        /\ ~ sessions[s].connected
    BY <1>1, <1>2, <1>3 DEF PlaceOK, RemovingOK, TypeOK, DataInv, Sids, Turn
  <1>5. sessions[h].app \in Apps /\ Len(sessions) \in Nat
    BY <1>1, <1>4, RecordFacts DEF DataInv
  <1>6. /\ Quiet /\ sessions' \in Seq(Record)
        /\ \A x \in Sids : Carries(x) /\ sessions'[x].models_shutdown = sessions[x].models_shutdown
    BY <1>1, SameSessions DEF DataInv
  <1>7. /\ Others(t) /\ ThreadTypes'
        /\ pc'[t] = "idle" /\ handle'[t] = handle[t] /\ on'[t] = 0 /\ then'[t] = then[t]
        /\ lock' = None
    <2>1. "idle" \in Places
      BY DEF Places
    <2>2. /\ pc' = [pc EXCEPT ![t] = "idle"] /\ on' = [on EXCEPT ![t] = 0] /\ handle' = handle
          /\ at' = at /\ mine' = mine /\ after' = after /\ then' = then /\ loops' = loops /\ lock' = None
      BY DEF Delete, Goto, loopVars
    <2>3. ThreadTypes'
      BY <1>1, <1>5, <2>1, <2>2 DEF TypeOK, DataInv, ThreadTypes
    <2> QED
      BY <1>1, <2>2, <2>3 DEF Others, Still, TypeOK, DataInv
  <1>8. Frame(t)
    BY <1>1, <1>4, <1>6, <1>7 DEF Frame, DataInv
  <1>9. Aside(t)
    BY <1>1, <1>4, Apart DEF Aside
  <1>10. handle'[t] # 0 => Complete(handle[t])'
    BY <1>1, <1>6, <1>7, KnownComplete
  <1>11. ~ Closing(t)' /\ ~ Turn(t)' /\ t \notin ThreadRefs' /\ Place(t)' = "idle"
    BY <1>7 DEF Closing, Turn, Shutting, Place, ThreadRefs
  <1>12. PlaceOK(t)'
    BY <1>4, <1>7, <1>10, <1>11, SessionsAssumption DEF PlaceOK, Place, Closing, Building, Shutting, Removing
  <1>13. /\ live' \in [Apps -> 0 .. Len(sessions)] /\ live'[sessions[h].app] = 0
         /\ \A a \in Apps : a # sessions[h].app => live'[a] = live[a]
    BY <1>1, <1>2, <1>4, <1>5 DEF Delete, TypeOK, Sids
  <1>14. OwnerInv'
    <2>1. ASSUME NEW a \in Apps, live'[a] # 0
          PROVE  sessions'[live'[a]].app = a /\ Complete(live[a])' /\ sessions'[live'[a]].connected
      <3>1. PICK v : v = live'[a]
        OBVIOUS
      <3>2. a # sessions[h].app /\ v = live[a] /\ v # 0
        BY <1>13, <2>1, <3>1
      <3>3. v \in 0 .. Len(sessions) /\ v \in Sids
        BY <1>5, <1>13, <3>1, <3>2 DEF Sids
      <3>4. sessions[v].app = a /\ Complete(v) /\ sessions[v].connected
        BY <1>1, <1>2, <1>4, <3>2 DEF OwnerInv
      <3>5. Complete(v)'
        BY <1>6, <3>3, <3>4 DEF Carries
      <3> QED
        BY <1>1, <3>1, <3>4, <3>5
    <2>2. ASSUME NEW x \in Sids', sessions'[x].connected
          PROVE  live'[sessions'[x].app] = x
      <3>1. x \in Sids /\ sessions'[x] = sessions[x] /\ x # s /\ sessions[x].app \in Apps
        BY <1>1, <1>4, <2>2, RecordFacts DEF Sids, DataInv
      <3>2. live[sessions[x].app] = x
        BY <1>1, <1>2, <1>4, <2>2, <3>1 DEF OwnerInv
      <3> QED
        BY <1>4, <1>13, <3>1, <3>2
    <2>3. ASSUME NEW x \in Sids', ~ sessions'[x].caching PROVE sessions'[x].models_shutdown
      BY <1>1, <2>3 DEF OwnerInv, Sids
    <2> QED
      BY <2>1, <2>2, <2>3 DEF OwnerInv
  <1>15. /\ lock' \in Threads \cup {None}
         /\ loops' = loops /\ loop' = loop /\ count' = count /\ queries' = queries
    BY <1>1, <1>7 DEF Delete, loopVars, TypeOK
  <1> QED
    BY <1>3, <1>6, <1>7, <1>8, <1>9, <1>11, <1>12, <1>13, <1>14, <1>15, LeaveStep

\* The start of a removal, which takes the lock and closes the database, keeps the invariant.
LEMMA RemoveStep ==
    ASSUME IInv, NEW t \in Threads, Remove(t)
    PROVE  IInv'
  <1>1. TypeOK /\ DataInv /\ PlaceInv /\ OwnerInv /\ LoopInv /\ PlaceOK(t)
    BY DEF IInv, PlaceInv
  <1>2. PICK h, s : h = handle[t] /\ s = Victim(t)
    OBVIOUS
  <1>3. /\ pc[t] = "remove" /\ ~ Closing(t) /\ ~ Turn(t) /\ t \notin ThreadRefs
        /\ lock = None /\ lock' = t /\ live' = live
    BY DEF Remove, Closing, Place, Turn, Shutting, ThreadRefs
  <1>4. h \in Sids /\ h # 0 /\ then[t] = "idle"
    BY <1>1, <1>2, <1>3 DEF PlaceOK, Place, Closing, TypeOK, DataInv, Sids, Turn
  <1>5. /\ s = live[sessions[h].app] /\ s \in Sids /\ s # 0 /\ sessions[h].app \in Apps
        /\ sessions[s].app = sessions[h].app /\ Complete(s)
    <2>1. sessions[h].app \in Apps
      BY <1>1, <1>4, RecordFacts DEF DataInv
    <2>2. s = live[sessions[h].app] /\ s # 0
      BY <1>2 DEF Remove, Victim
    <2>3. s \in Sids
      BY <1>1, <2>1, <2>2 DEF TypeOK, DataInv, Sids
    <2>4. sessions[s].app = sessions[h].app /\ Complete(s)
      BY <1>1, <2>1, <2>2 DEF OwnerInv
    <2> QED
      BY <2>1, <2>2, <2>3, <2>4
  <1>6. /\ Only(s)
        /\ sessions'[s].app = sessions[s].app /\ sessions'[s].loopOf = sessions[s].loopOf
        /\ sessions'[s].released = sessions[s].released /\ sessions'[s].connected = FALSE
        /\ sessions'[s].caching = sessions[s].caching
        /\ sessions'[s].models_shutdown = sessions[s].models_shutdown
    BY <1>1, <1>2, <1>5, Disconnected DEF Remove, DataInv
  <1>7. /\ Quiet /\ sessions' \in Seq(Record)
        /\ \A x \in Sids : sessions'[x].models_shutdown = sessions[x].models_shutdown
                           /\ sessions'[x].caching = sessions[x].caching
                           /\ (x # s => sessions'[x] = sessions[x])
    BY <1>6 DEF Only, Quiet
  <1>8. \A x \in Sids : Carries(x)
    BY <1>1, <1>6, <1>7, QuietFacts, RecordFacts DEF Carries, DataInv
  <1>9. /\ Others(t) /\ ThreadTypes'
        /\ handle'[t] = h /\ on'[t] = s /\ at'[t] = 1 /\ mine'[t] = mine[t] /\ after'[t] = after[t]
        /\ \/ sessions[s].models_shutdown /\ pc'[t] = "delete" /\ then'[t] = "idle"
           \/ ~ sessions[s].models_shutdown /\ pc'[t] = "client" /\ then'[t] = "delete"
    <2>1. /\ on' = [on EXCEPT ![t] = s] /\ at' = [at EXCEPT ![t] = 1] /\ handle' = handle
          /\ mine' = mine /\ after' = after /\ loops' = loops
          /\ \/ /\ sessions[s].models_shutdown /\ pc' = [pc EXCEPT ![t] = "delete"]
                /\ then' = [then EXCEPT ![t] = "idle"]
             \/ /\ ~ sessions[s].models_shutdown /\ pc' = [pc EXCEPT ![t] = "client"]
                /\ then' = [then EXCEPT ![t] = "delete"]
      BY <1>2 DEF Remove, ShutdownModels, Goto, loopVars
    <2>2. PICK p, w : pc' = [pc EXCEPT ![t] = p] /\ then' = [then EXCEPT ![t] = w]
                      /\ \/ sessions[s].models_shutdown /\ p = "delete" /\ w = "idle"
                         \/ ~ sessions[s].models_shutdown /\ p = "client" /\ w = "delete"
      BY <2>1
    <2>3. /\ s \in 0 .. Len(sessions) /\ p \in Places /\ 1 \in Nat \ {0} /\ w \in {"idle", "cache", "delete"}
          /\ Len(sessions') = Len(sessions)
      BY <1>1, <1>5, <1>7, <2>2 DEF DataInv, Sids, Places, Quiet
    <2>4. ThreadTypes'
      BY <1>1, <2>1, <2>2, <2>3 DEF TypeOK, DataInv, ThreadTypes
    <2>5. Others(t)
      BY <1>1, <2>1, <2>2 DEF Others, Still, TypeOK, DataInv
    <2>6. /\ pc'[t] = p /\ then'[t] = w /\ handle'[t] = h /\ on'[t] = s /\ at'[t] = 1
          /\ mine'[t] = mine[t] /\ after'[t] = after[t]
      BY <1>1, <1>2, <2>1, <2>2 DEF TypeOK, DataInv
    <2> QED
      BY <2>2, <2>4, <2>5, <2>6
  <1>10. Frame(t)
    BY <1>1, <1>3, <1>7, <1>8, <1>9 DEF Frame, Quiet, DataInv
  <1>11. Aside(t)
    BY <1>1, <1>3, Apart, SessionsAssumption DEF Aside
  <1>12. Complete(handle[t])' /\ Complete(on[t])'
    BY <1>1, <1>2, <1>4, <1>5, <1>8, <1>9, KnownComplete
  <1>13. ~ Closing(t)' /\ t \notin ThreadRefs' /\ Removing(t)'
         /\ (Turn(t)' => ~ sessions[s].models_shutdown)
    BY <1>9 DEF Closing, Turn, Shutting, Place, ThreadRefs, Removing
  <1>14. RemovingOK(t)'
    <2>1. sessions'[h].app = sessions[h].app
      BY <1>4, <1>8 DEF Carries
    <2> QED
      BY <1>3, <1>4, <1>5, <1>6, <1>9, <2>1 DEF RemovingOK
  <1>15. PlaceOK(t)'
    BY <1>3, <1>4, <1>5, <1>9, <1>12, <1>13, <1>14 DEF PlaceOK, Place, Closing, Building, Shutting
  <1>16. OwnerInv'
    <2>1. ASSUME NEW a \in Apps, live'[a] # 0
          PROVE  /\ sessions'[live'[a]].app = a /\ Complete(live[a])'
                 /\ \/ sessions'[live'[a]].connected
                    \/ /\ lock' # None /\ on'[lock'] = live'[a]
                       /\ handle'[lock'] # 0 /\ sessions'[handle'[lock']].app = a
      <3>1. PICK v : v = live[a] /\ v = live'[a]
        BY <1>3
      <3>2. v \in Sids /\ sessions[v].app = a /\ Complete(v) /\ sessions[v].connected
        BY <1>1, <1>3, <2>1, <3>1 DEF TypeOK, DataInv, Sids, OwnerInv
      <3>3. Complete(v)' /\ sessions'[v].app = a /\ sessions'[h].app = sessions[h].app
        BY <1>4, <1>8, <3>2 DEF Carries
      <3>4. CASE v = s
        BY <1>3, <1>4, <1>5, <1>9, <3>1, <3>2, <3>3, <3>4, SessionsAssumption
      <3>5. CASE v # s
        BY <1>7, <3>1, <3>2, <3>3, <3>5
      <3> QED
        BY <3>4, <3>5
    <2>2. ASSUME NEW x \in Sids', sessions'[x].connected
          PROVE  live'[sessions'[x].app] = x
      <3>1. x \in Sids /\ x # s /\ sessions'[x] = sessions[x]
        BY <1>6, <1>7, <2>2 DEF Quiet, Sids
      <3> QED
        BY <1>1, <1>3, <2>2, <3>1 DEF OwnerInv
    <2>3. ASSUME NEW x \in Sids', ~ sessions'[x].caching PROVE sessions'[x].models_shutdown
      <3>1. x \in Sids
        BY <1>7 DEF Quiet, Sids
      <3> QED
        BY <1>1, <1>7, <2>3, <3>1 DEF OwnerInv
    <2> QED
      BY <2>1, <2>2, <2>3 DEF OwnerInv
  <1>17. loops' = loops /\ loop' = loop /\ count' = count /\ queries' = queries
    BY DEF Remove, loopVars
  <1>18. LoopInv'
    BY <1>1, <1>3, <1>9, <1>13, <1>17, LoopsStay DEF loopVars
  <1>19. Moves(t)
    <2>1. on'[t] # 0 => at'[t] <= Clients[sessions'[on'[t]].app] + 1
      <3>1. Clients[sessions'[s].app] \in Nat
        BY <1>1, <1>5, <1>6, RecordFacts DEF DataInv
      <3> QED
        BY <1>9, <3>1
    <2>2. ASSUME NEW x \in Sids, NEW k \in Models(x)
          PROVE  /\ t \notin Passed(x, k)
                 /\ sessions[x].models_shutdown => t \notin Ahead(x, k)'
      BY <1>3, <1>9, <1>13 DEF Ahead, Passed
    <2>3. \A k \in Models(on[t])' : ~ (k < at'[t])
      BY <1>9 DEF Models
    <2> QED
      BY <1>3, <1>13, <2>1, <2>2, <2>3 DEF Moves
  <1>20. StepTypes(t)
    <2>1. /\ loops' \in Seq(LoopStates) /\ Len(loops') = Len(loops) /\ queries' \in 0 .. MaxQueries
          /\ live' \in [Apps -> 0 .. Len(sessions)] /\ lock' \in Threads \cup {None}
      BY <1>1, <1>3, <1>17 DEF DataInv, TypeOK
    <2> QED
      BY <1>7, <1>9, <1>17, <1>19, <2>1, QuietTypes DEF Moves
  <1> QED
    BY <1>7, <1>10, <1>11, <1>15, <1>16, <1>17, <1>18, <1>19, <1>20, QuietStep

\* Disjoint sets of threads have no more members together than there are threads.
LEMMA DisjointThreads ==
    ASSUME NEW S \in SUBSET Threads, NEW T \in SUBSET Threads, S \cap T = {}
    PROVE  Cardinality(S) + Cardinality(T) <= Cardinality(Threads)
  <1>1. IsFiniteSet(S) /\ IsFiniteSet(T) /\ Cardinality(S) \in Nat /\ Cardinality(T) \in Nat
    BY ThreadSets
  <1>2. Cardinality(S \cup T) = Cardinality(S) + Cardinality(T) - Cardinality(S \cap T)
    BY <1>1, FS_Union
  <1>3. Cardinality(S \cap T) = 0
    BY FS_EmptySet
  <1>4. Cardinality(S \cup T) <= Cardinality(Threads)
    BY ThreadSets
  <1> QED
    BY <1>1, <1>2, <1>3, <1>4

\* Setting _models_shutdown keeps the invariant: whoever released a client before has passed
\* it, whoever can still release it is before it, and no thread is both.
LEMMA AllShutdownStep ==
    ASSUME IInv, NEW t \in Threads, AllShutdown(t)
    PROVE  IInv'
  <1>1. TypeOK /\ DataInv /\ PlaceInv /\ OwnerInv /\ LoopInv /\ TurnInv /\ FlagInv /\ PlaceOK(t)
    BY DEF IInv, PlaceInv
  <1>2. PICK s : s = on[t]
    OBVIOUS
  <1>3. /\ pc[t] = "client" /\ Shutting(t) /\ ~ Closing(t) /\ Turn(t) /\ t \notin ThreadRefs
    BY DEF AllShutdown, Closing, Place, Turn, Shutting, ThreadRefs
  <1>4. s \in Sids /\ s # 0 /\ then[t] \in {"cache", "delete"} /\ Complete(s) /\ s \in 0 .. Len(sessions)
    BY <1>1, <1>2, <1>3 DEF PlaceOK, TypeOK, DataInv, Sids
  <1>5. /\ Only(s)
        /\ sessions'[s].app = sessions[s].app /\ sessions'[s].loopOf = sessions[s].loopOf
        /\ sessions'[s].released = sessions[s].released
        /\ sessions'[s].connected = sessions[s].connected
        /\ sessions'[s].caching = sessions[s].caching
        /\ sessions'[s].models_shutdown = TRUE
    BY <1>1, <1>2, <1>4, FlagSet DEF AllShutdown, DataInv
  <1>6. /\ Quiet /\ sessions' \in Seq(Record)
        /\ \A x \in Sids : sessions'[x].connected = sessions[x].connected
                           /\ sessions'[x].caching = sessions[x].caching
                           /\ sessions'[x].released = sessions[x].released
                           /\ (x # s => sessions'[x] = sessions[x])
    BY <1>5 DEF Only, Quiet
  <1>7. \A x \in Sids : Carries(x)
    BY <1>5, <1>6, QuietFacts DEF Carries, Quiet
  <1>8. /\ Others(t) /\ ThreadTypes'
        /\ pc'[t] = then[t] /\ handle' = handle /\ on' = on /\ then'[t] = "idle"
        /\ at'[t] = 1 /\ mine' = mine /\ lock' = lock /\ live' = live
    <2>1. PICK w : w = then[t]
      OBVIOUS
    <2>2. Len(sessions') = Len(sessions) /\ w \in Places /\ 1 \in Nat \ {0}
      BY <1>4, <1>6, <2>1 DEF Quiet, Places
    <2>3. /\ pc' = [pc EXCEPT ![t] = w] /\ then' = [then EXCEPT ![t] = "idle"] /\ at' = [at EXCEPT ![t] = 1]
          /\ handle' = handle /\ on' = on /\ mine' = mine /\ after' = after /\ loops' = loops
          /\ lock' = lock /\ live' = live
      BY <2>1 DEF AllShutdown, Goto, loopVars
    <2>4. ThreadTypes'
      BY <1>1, <2>2, <2>3 DEF TypeOK, DataInv, ThreadTypes
    <2>5. Others(t)
      BY <1>1, <2>3 DEF Others, Still, TypeOK, DataInv
    <2> QED
      BY <1>1, <2>1, <2>3, <2>4, <2>5 DEF TypeOK, DataInv
  <1>9. Frame(t)
    BY <1>6, <1>7, <1>8, <1>1 DEF Frame, Quiet, DataInv
  <1>10. Aside(t)
    BY <1>1, <1>2, <1>6, <1>8, Apart DEF Aside
  <1>11. handle'[t] # 0 => Complete(handle[t])'
    BY <1>1, <1>7, <1>8, KnownComplete
  <1>12. ~ Closing(t)' /\ ~ Turn(t)' /\ t \notin ThreadRefs' /\ Place(t)' = then[t]
    BY <1>4, <1>8 DEF Closing, Turn, Shutting, Place, ThreadRefs
  <1>13. Removing(t)' => RemovingOK(t)'
    <2>1. SUFFICES ASSUME Removing(t)' PROVE RemovingOK(t)'
      OBVIOUS
    <2>2. Removing(t) /\ RemovingOK(t)
      BY <1>1, <1>8, <2>1 DEF Removing, PlaceOK
    <2>3. PICK h : h = handle[t]
      OBVIOUS
    <2>4. h \in Sids /\ sessions'[h].app = sessions[h].app
      BY <1>1, <1>7, <2>2, <2>3 DEF RemovingOK, TypeOK, DataInv, Sids, Carries
    <2> QED
      BY <1>2, <1>5, <1>8, <2>2, <2>3, <2>4 DEF RemovingOK
  <1>14. then[t] = "cache" => s = handle[t] /\ handle[t] # 0
    BY <1>1, <1>2 DEF PlaceOK
  <1>15. lock' = t => Removing(t)'
    <2>1. lock = t => then[t] = "delete"
      BY <1>1, <1>3 DEF PlaceOK, Building, Shutting, Removing
    <2> QED
      BY <1>8, <2>1 DEF Removing
  <1>16. PlaceOK(t)'
    BY <1>2, <1>4, <1>5, <1>8, <1>11, <1>12, <1>13, <1>14, <1>15
       DEF PlaceOK, Closing, Building, Shutting
  <1>17. OwnerInv'
    BY <1>1, <1>6, <1>8, <1>9, OwnersStay DEF Quiet
  <1>18. loops' = loops /\ loop' = loop /\ count' = count /\ queries' = queries
    BY DEF AllShutdown, loopVars
  <1>19. LoopInv'
    BY <1>1, <1>3, <1>8, <1>12, <1>18, LoopsStay DEF loopVars
  <1>20. StepTypes(t)
    <2>1. /\ loops' \in Seq(LoopStates) /\ Len(loops') = Len(loops) /\ queries' \in 0 .. MaxQueries
          /\ live' \in [Apps -> 0 .. Len(sessions)] /\ lock' \in Threads \cup {None}
      BY <1>1, <1>8, <1>18 DEF DataInv, TypeOK
    <2>2. on'[t] # 0 => at'[t] <= Clients[sessions'[on'[t]].app] + 1
      BY <1>1, <1>2, <1>4, <1>5, <1>8, RecordFacts DEF DataInv
    <2> QED
      BY <1>6, <1>8, <1>18, <2>1, <2>2, QuietTypes
  <1>21. /\ Sids' = Sids /\ \A x \in Sids : Models(x)' = Models(x)
         /\ ReleasedTwice' <=> ReleasedTwice
    BY <1>6, QuietFacts
  <1>22. TurnInv'
    <2>1. SUFFICES ASSUME NEW x \in Sids, NEW k \in Models(x)
                   PROVE  IF sessions'[x].models_shutdown
                          THEN sessions'[x].released[k] + Cardinality(Ahead(x, k)') <= Cardinality(Threads)
                          ELSE sessions'[x].released[k] <= Cardinality(Passed(x, k)')
      BY <1>21 DEF TurnInv
    <2>2. /\ sessions[x].released[k] \in Nat /\ sessions'[x].released[k] = sessions[x].released[k]
          /\ IF sessions[x].models_shutdown
             THEN sessions[x].released[k] + Cardinality(Ahead(x, k)) <= Cardinality(Threads)
             ELSE sessions[x].released[k] <= Cardinality(Passed(x, k))
      BY <1>1, <1>6, ClientTypes DEF TurnInv
    <2>3. \A u \in Threads : u # t => /\ u \in Ahead(x, k)' <=> u \in Ahead(x, k)
                                      /\ u \in Passed(x, k)' <=> u \in Passed(x, k)
      BY <1>8 DEF Ahead, Passed, Turn, Shutting, Place, Closing, Others, Still
    <2>4. PICK A, A2, P, P2 : /\ A = Ahead(x, k) /\ A2 = Ahead(x, k)'
                              /\ P = Passed(x, k) /\ P2 = Passed(x, k)'
      OBVIOUS
    <2>5. /\ A \in SUBSET Threads /\ A2 \in SUBSET Threads /\ P \in SUBSET Threads /\ P2 \in SUBSET Threads
          /\ A2 \subseteq A /\ t \notin A2 /\ t \notin P2
      BY <1>12, <2>3, <2>4 DEF Ahead, Passed
    <2>6. /\ Cardinality(A) \in Nat /\ Cardinality(A2) \in Nat /\ Cardinality(P) \in Nat
          /\ Cardinality(P2) \in Nat /\ Cardinality(A2) <= Cardinality(A) /\ Cardinality(Threads) \in Nat
      BY <2>5, ThreadSets
    <2>7. CASE sessions[x].models_shutdown
      <3>1. sessions'[x].models_shutdown
        BY <1>7, <2>7 DEF Carries
      <3> QED
        BY <2>2, <2>4, <2>6, <2>7, <3>1
    <2>8. CASE ~ sessions[x].models_shutdown /\ x = s
      <3>1. P \cap A = {}
        <4>1. ASSUME NEW u \in P, u \in A PROVE FALSE
          <5>1. at[u] \in Nat /\ k \in Int
            BY <1>1, <2>4, <4>1 DEF DataInv, Models, Passed
          <5> QED
            BY <2>4, <4>1, <5>1 DEF Passed, Ahead
        <4> QED
          BY <4>1
      <3>2. Cardinality(P) + Cardinality(A) <= Cardinality(Threads)
        BY <2>5, <3>1, DisjointThreads
      <3> QED
        BY <1>5, <2>2, <2>4, <2>6, <2>8, <3>2
    <2>9. CASE ~ sessions[x].models_shutdown /\ x # s
      <3>1. t \notin P
        BY <1>2, <2>4, <2>9 DEF Passed
      <3>2. P \subseteq P2
        BY <2>3, <2>4, <2>5, <3>1
      <3>3. Cardinality(P) <= Cardinality(P2)
        BY <2>5, <3>2, ThreadSets
      <3> QED
        BY <1>6, <2>2, <2>4, <2>6, <2>9, <3>3
    <2> QED
      BY <2>7, <2>8, <2>9
  <1>23. RefsInv'
    BY <1>3, <1>6, <1>8, <1>12, <1>18, RefsStay DEF IInv
  <1>24. FlagInv'
    <2>1. SUFFICES ASSUME ~ ReleasedTwice
                   PROVE  /\ \A x \in Sids : sessions'[x].models_shutdown =>
                                \A k \in Models(x) : sessions'[x].released[k] >= 1
                          /\ \A u \in Threads : Shutting(u)' =>
                                \A k \in Models(on[u])' : k < at'[u] => sessions'[on'[u]].released[k] >= 1
      BY <1>21 DEF FlagInv
    <2>2. ASSUME NEW k \in Models(s) PROVE sessions[s].released[k] >= 1
      <3>1. Clients[sessions[s].app] \in Nat /\ at[t] \in Nat \ {0}
        BY <1>1, <1>4, RecordFacts DEF DataInv
      <3>2. k < at[t]
        BY <1>2, <2>2, <3>1 DEF AllShutdown, Models
      <3> QED
        BY <1>1, <1>2, <1>3, <2>1, <3>2 DEF FlagInv
    <2>3. ASSUME NEW x \in Sids, sessions'[x].models_shutdown, NEW k \in Models(x)
          PROVE  sessions'[x].released[k] >= 1
      <3>1. CASE x = s
        BY <1>5, <2>2, <3>1
      <3>2. CASE x # s
        BY <1>1, <1>6, <2>1, <2>3, <3>2 DEF FlagInv
      <3> QED
        BY <3>1, <3>2
    <2>4. ASSUME NEW u \in Threads, Shutting(u)', NEW k \in Models(on[u])', k < at'[u]
          PROVE  sessions'[on'[u]].released[k] >= 1
      <3>1. u # t /\ Still(u) /\ Shutting(u)
        BY <1>8, <1>12, <2>4 DEF Others, Still, Shutting, Place, Closing, Turn
      <3>2. PICK x \in Sids : x = on[u] /\ x = on'[u]
        BY <1>1, <1>8, <3>1 DEF TypeOK, DataInv, PlaceInv, PlaceOK, Sids
      <3>3. k \in Models(x) /\ k < at[u]
        BY <1>21, <2>4, <3>1, <3>2 DEF Still
      <3> QED
        BY <1>1, <1>6, <2>1, <3>1, <3>2, <3>3 DEF FlagInv
    <2> QED
      BY <2>3, <2>4
  <1> QED
    BY <1>9, <1>10, <1>16, <1>17, <1>19, <1>20, <1>22, <1>23, <1>24, Assembled

\* A new session under the lock, with its database, its cache and no clients yet, keeps the
\* invariant.
LEMMA CreateStep ==
    ASSUME IInv, NEW t \in Threads, NEW a \in Apps, Create(t, a)
    PROVE  IInv'
  <1>1. TypeOK /\ DataInv /\ PlaceInv /\ OwnerInv /\ LoopInv /\ TurnInv /\ FlagInv /\ RefsInv /\ PlaceOK(t)
    BY DEF IInv, PlaceInv
  <1>2. PICK s : s = Len(sessions) + 1
    OBVIOUS
  <1>3. /\ sessions' \in Seq(Record) /\ Len(sessions') = s /\ Len(sessions) \in Nat
        /\ \A x \in Sids : sessions'[x] = sessions[x]
        /\ sessions'[s].app = a /\ sessions'[s].connected = TRUE /\ sessions'[s].caching = TRUE
        /\ sessions'[s].models_shutdown = FALSE
        /\ sessions'[s].loopOf = [k \in 1 .. Clients[a] |-> 0]
        /\ sessions'[s].released = [k \in 1 .. Clients[a] |-> 0]
    BY <1>1, <1>2, NewFacts DEF Create, DataInv
  <1>4. /\ s \notin Sids /\ Sids' = Sids \cup {s} /\ s \in Nat \ {0} /\ s = Len(sessions) + 1
        /\ \A x \in Sids : x \in Sids' /\ Models(x)' = Models(x)
        /\ Models(s)' = 1 .. Clients[a] /\ Clients[a] \in Nat
    BY <1>2, <1>3, SessionsAssumption DEF Sids, Models
  <1>5. /\ pc[t] = "idle" /\ on[t] = 0 /\ then[t] = "idle" /\ ~ Closing(t) /\ ~ Turn(t) /\ t \notin ThreadRefs
        /\ lock = None /\ live[a] = 0
    BY <1>1 DEF Create, PlaceOK, Place, Closing, Turn, Shutting, ThreadRefs
  <1>6. /\ Others(t) /\ ThreadTypes'
        /\ pc'[t] = "build" /\ handle' = handle /\ on'[t] = s /\ then'[t] = then[t]
        /\ at'[t] = 1 /\ mine'[t] = mine[t] /\ lock' = t /\ live' = live
    <2>1. /\ pc' = [pc EXCEPT ![t] = "build"] /\ on' = [on EXCEPT ![t] = s] /\ at' = [at EXCEPT ![t] = 1]
          /\ handle' = handle /\ mine' = mine /\ after' = after /\ then' = then /\ loops' = loops
          /\ lock' = t /\ live' = live
      BY <1>2 DEF Create, Goto, loopVars
    <2>2. "build" \in Places /\ 1 \in Nat \ {0} /\ s \in 0 .. Len(sessions') /\ Len(sessions) <= Len(sessions')
      BY <1>2, <1>3, <1>4 DEF Places
    <2>3. handle' \in [Threads -> 0 .. Len(sessions')] /\ on' \in [Threads -> 0 .. Len(sessions')]
      <3>1. \A n \in 0 .. Len(sessions) : n \in 0 .. Len(sessions')
        BY <1>3, <2>2
      <3> QED
        BY <1>1, <2>1, <2>2, <3>1 DEF TypeOK
    <2>4. ThreadTypes'
      BY <1>1, <2>1, <2>2, <2>3 DEF TypeOK, DataInv, ThreadTypes
    <2> QED
      BY <1>1, <2>1, <2>4 DEF Others, Still, TypeOK, DataInv
  <1>7. \A x \in Sids : Carries(x)
    BY <1>3, <1>4 DEF Carries, Complete
  <1>8. Frame(t)
    BY <1>2, <1>3, <1>5, <1>6, <1>7 DEF Frame
  <1>9. Aside(t)
    BY <1>1, <1>5, Apart, SessionsAssumption DEF Aside
  <1>10. handle'[t] # 0 => Complete(handle[t])'
    BY <1>1, <1>6, <1>7, KnownComplete
  <1>11. ~ Closing(t)' /\ ~ Turn(t)' /\ t \notin ThreadRefs' /\ Place(t)' = "build" /\ ~ Shutting(t)'
    BY <1>6 DEF Closing, Turn, Shutting, Place, ThreadRefs
  <1>12. BuildingOK(t)'
    <2>1. \A u \in Threads : handle'[u] # s /\ (u # t => on'[u] # s)
      <3>1. \A u \in Threads : handle[u] \in 0 .. Len(sessions) /\ on[u] \in 0 .. Len(sessions)
        BY <1>1 DEF TypeOK
      <3> QED
        BY <1>3, <1>4, <1>6, <3>1 DEF Others, Still
    <2>2. \A k \in 1 .. Clients[a] : sessions'[s].released[k] = 0 /\ sessions'[s].loopOf[k] = 0 /\ k >= 1
      BY <1>3
    <2> QED
      BY <1>3, <1>4, <1>5, <1>6, <2>1, <2>2 DEF BuildingOK, Models
  <1>13. PlaceOK(t)'
    BY <1>5, <1>6, <1>10, <1>11, <1>12 DEF PlaceOK, Closing, Building, Removing
  <1>14. OwnerInv'
    <2>1. ASSUME NEW b \in Apps, live'[b] # 0
          PROVE  sessions'[live'[b]].app = b /\ Complete(live[b])' /\ sessions'[live'[b]].connected
      <3>1. PICK v : v = live[b] /\ v = live'[b]
        BY <1>6
      <3>2. v \in Sids /\ sessions[v].app = b /\ Complete(v) /\ sessions[v].connected
        <4>1. v # 0 /\ v \in Sids
          <5>1. live[b] \in 0 .. Len(sessions)
            BY <1>1, <2>1 DEF TypeOK
          <5>2. v # 0
            BY <2>1, <3>1
          <5>3. Len(sessions) \in Nat
            BY <1>3
          <5> QED
            BY <3>1, <5>1, <5>2, <5>3 DEF Sids
        <4>2. sessions[v].app = b /\ Complete(v)
          BY <1>1, <3>1, <4>1 DEF OwnerInv
        <4>3. sessions[v].connected
          BY <1>1, <1>5, <3>1, <4>1 DEF OwnerInv
        <4> QED
          BY <4>1, <4>2, <4>3
      <3>3. sessions'[v] = sessions[v] /\ Complete(v)'
        BY <1>3, <1>7, <3>2 DEF Carries
      <3> QED
        BY <3>1, <3>2, <3>3
    <2>2. ASSUME NEW x \in Sids', sessions'[x].connected
          PROVE  live'[sessions'[x].app] = x
                 \/ (lock' # None /\ on'[lock'] = x /\ live'[sessions'[x].app] = 0)
      <3>1. CASE x = s
        BY <1>3, <1>5, <1>6, <3>1, SessionsAssumption
      <3>2. CASE x # s
        <4>1. x \in Sids /\ sessions'[x] = sessions[x]
          BY <1>3, <1>4, <3>2
        <4> QED
          BY <1>1, <1>5, <1>6, <2>2, <4>1 DEF OwnerInv
      <3> QED
        BY <3>1, <3>2
    <2>3. ASSUME NEW x \in Sids', ~ sessions'[x].caching PROVE sessions'[x].models_shutdown
      <3>1. x \in Sids /\ sessions'[x] = sessions[x]
        BY <1>3, <1>4, <2>3
      <3> QED
        BY <1>1, <2>3, <3>1 DEF OwnerInv
    <2> QED
      BY <2>1, <2>2, <2>3 DEF OwnerInv
  <1>15. loops' = loops /\ loop' = loop /\ count' = count /\ queries' = queries
    BY DEF Create, loopVars
  <1>16. LoopInv'
    BY <1>1, <1>5, <1>6, <1>11, <1>15, LoopsStay DEF loopVars
  <1>17. \A x \in Sids' : x \notin Sids => \A k \in Models(x)' :
             sessions'[x].released[k] = 0 /\ sessions'[x].loopOf[k] = 0 /\ ~ sessions'[x].models_shutdown
    BY <1>3, <1>4
  <1>18. TurnInv'
    <2>1. \A x \in Sids : \A k \in Models(x) : t \notin Passed(x, k) /\ t \notin Ahead(x, k)'
      BY <1>5, <1>11 DEF Passed, Ahead
    <2> QED
      BY <1>1, <1>3, <1>4, <1>6, <1>17, <2>1, TurnsStay
  <1>19. ReleasedTwice' <=> ReleasedTwice
    BY <1>3, <1>4, <1>17 DEF ReleasedTwice
  <1>20. FlagInv'
    <2>1. \A x \in Sids' : x \notin Sids => ~ sessions'[x].models_shutdown
      BY <1>3, <1>4
    <2> QED
      BY <1>1, <1>3, <1>4, <1>6, <1>11, <1>19, <2>1, FlagsStay
  <1>21. RefsInv'
    <2>1. \A r : r \in ClientRefs' <=> r \in ClientRefs
      BY <1>3, <1>4, <1>17, ClientRefIs
    <2>2. ThreadRefs' = ThreadRefs /\ \A u \in ThreadRefs : mine'[u] = mine[u]
      BY <1>5, <1>6, <1>11 DEF ThreadRefs, Others, Still
    <2>3. PICK C, T : C = ClientRefs /\ T = ThreadRefs /\ C = ClientRefs' /\ T = ThreadRefs'
      BY <2>1, <2>2
    <2>4. \A r \in C : r[1] \in Sids
      BY <2>3, ClientRefIs
    <2> QED
      BY <1>1, <1>3, <1>15, <1>19, <2>2, <2>3, <2>4 DEF RefsInv
  <1>22. StepTypes(t)
    <2>1. /\ live' \in [Apps -> 0 .. Len(sessions')] /\ lock' \in Threads \cup {None}
          /\ loop' \in 0 .. Len(loops') /\ count' \in Int /\ queries' \in 0 .. MaxQueries
          /\ loops' \in Seq(LoopStates)
      BY <1>1, <1>2, <1>3, <1>6, <1>15 DEF TypeOK, DataInv
    <2>2. Len(sessions') <= MaxSessions
      BY <1>2, <1>3, SessionsAssumption DEF Create
    <2>3. on'[t] # 0 => at'[t] <= Clients[sessions'[on'[t]].app] + 1
      BY <1>3, <1>4, <1>6
    <2>4. ASSUME NEW x \in Sids'
          PROVE  /\ sessions'[x].loopOf \in [Models(x)' -> 0 .. Len(loops')]
                 /\ sessions'[x].released \in [Models(x)' -> Nat]
      <3>1. CASE x \in Sids
        BY <1>1, <1>3, <1>4, <1>15, <3>1, ClientTypes, ThreadSets
      <3>2. CASE x \notin Sids
        <4>1. x = s /\ 0 \in 0 .. Len(loops') /\ 0 \in Nat
          BY <1>1, <1>4, <1>15, <3>2 DEF DataInv
        <4>2. \A n \in Nat : /\ [k \in 1 .. n |-> 0] \in [1 .. n -> 0 .. Len(loops')]
                            /\ [k \in 1 .. n |-> 0] \in [1 .. n -> Nat]
          BY <4>1
        <4> QED
          BY <1>3, <1>4, <4>1, <4>2
      <3> QED
        BY <3>1, <3>2
    <2>5. DataInv'
      BY <1>3, <1>6, <2>1 DEF DataInv, ThreadTypes
    <2> QED
      BY <1>6, <2>1, <2>2, <2>3, <2>4, <2>5 DEF StepTypes
  <1> QED
    BY <1>8, <1>9, <1>13, <1>14, <1>16, <1>18, <1>20, <1>21, <1>22, Assembled

----------------------------------------------------------------------------
(***************************************************************************)
(* The steps that take the loop or give it back                            *)
(***************************************************************************)
LEMMA RefTypes ==
    ASSUME RefsInv
    PROVE  /\ IsFiniteSet(ClientRefs) /\ Cardinality(ClientRefs) \in Nat
           /\ IsFiniteSet(ThreadRefs) /\ Cardinality(ThreadRefs) \in Nat
           /\ (Cardinality(ClientRefs) = 0) <=> (ClientRefs = {})
           /\ (Cardinality(ThreadRefs) = 0) <=> (ThreadRefs = {})
  <1>1. IsFiniteSet(ClientRefs) /\ ThreadRefs \in SUBSET Threads
    BY DEF RefsInv, ThreadRefs
  <1>2. IsFiniteSet(ThreadRefs)
    BY <1>1, ThreadSets
  <1> QED
    BY <1>1, <1>2, FS_CardinalityType, FS_EmptySet

\* The references after taking the loop for a client or for a thread.
OneMore(C, T) ==
    \/ ThreadRefs' = T /\ \E r : r \notin C /\ ClientRefs' = C \cup {r}
    \/ ClientRefs' = C /\ \E u : u \notin T /\ ThreadRefs' = T \cup {u}

\* The count is right when one reference more is.
LEMMA RefTaken ==
    ASSUME TypeOK, DataInv, LoopInv, RefsInv, TakeLoop, ReleasedTwice => ReleasedTwice',
           OneMore(ClientRefs, ThreadRefs),
           \A r \in ClientRefs' : \/ r \in ClientRefs
                                     /\ sessions'[r[1]].loopOf[r[2]] = sessions[r[1]].loopOf[r[2]]
                                  \/ sessions'[r[1]].loopOf[r[2]] = loop',
           \A u \in ThreadRefs' : (u \in ThreadRefs /\ mine'[u] = mine[u]) \/ mine'[u] = loop'
    PROVE  RefsInv'
  <1>1. /\ loop' # 0 /\ (loop # 0 => loop' = loop) /\ count' = count + 1
    BY LoopTaken
  <1>2. PICK C, T, C2, T2 : C = ClientRefs /\ T = ThreadRefs /\ C2 = ClientRefs' /\ T2 = ThreadRefs'
    OBVIOUS
  <1>3. /\ IsFiniteSet(C) /\ Cardinality(C) \in Nat /\ IsFiniteSet(T) /\ Cardinality(T) \in Nat
        /\ (Cardinality(C) = 0) <=> (C = {})
        /\ (Cardinality(T) = 0) <=> (T = {})
    BY <1>2, RefTypes
  <1>4. /\ IsFiniteSet(C2)
        /\ Cardinality(C2) + Cardinality(T2) = Cardinality(C) + Cardinality(T) + 1
    <2>1. CASE T2 = T /\ \E r : r \notin C /\ C2 = C \cup {r}
      <3>1. PICK r : r \notin C /\ C2 = C \cup {r}
        BY <2>1
      <3>2. IsFiniteSet(C2) /\ Cardinality(C2) = Cardinality(C) + 1
        BY <1>3, <3>1, FS_AddElement
      <3> QED
        BY <1>3, <2>1, <3>2
    <2>2. CASE C2 = C /\ \E u : u \notin T /\ T2 = T \cup {u}
      <3>1. PICK u : u \notin T /\ T2 = T \cup {u}
        BY <2>2
      <3>2. Cardinality(T2) = Cardinality(T) + 1
        BY <1>3, <3>1, FS_AddElement
      <3> QED
        BY <1>3, <2>2, <3>2
    <2> QED
      BY <1>2, <2>1, <2>2 DEF OneMore
  <1>5. CASE ReleasedTwice
    BY <1>2, <1>4, <1>5 DEF RefsInv
  <1>6. CASE ~ ReleasedTwice
    <2>1. /\ count = Cardinality(C) + Cardinality(T) /\ ((loop # 0) <=> (count > 0))
          /\ \A r \in C : sessions[r[1]].loopOf[r[2]] = loop
          /\ \A u \in T : mine[u] = loop
      BY <1>2, <1>6 DEF RefsInv
    <2>2. loop = 0 => C = {} /\ T = {}
      BY <1>3, <2>1
    <2>3. /\ count' = Cardinality(C2) + Cardinality(T2) /\ count' > 0
      BY <1>1, <1>3, <1>4, <2>1
    <2>4. \A r \in C2 : sessions'[r[1]].loopOf[r[2]] = loop'
      BY <1>1, <1>2, <2>1, <2>2
    <2>5. \A u \in T2 : mine'[u] = loop'
      BY <1>1, <1>2, <2>1, <2>2
    <2> QED
      BY <1>1, <1>2, <1>4, <2>3, <2>4, <2>5 DEF RefsInv
  <1> QED
    BY <1>5, <1>6

\* The references after a client or a thread gave the loop back.
OneLess(C, T) ==
    \/ ThreadRefs' = T /\ \E r : r \in C /\ ClientRefs' = C \ {r}
    \/ ClientRefs' = C /\ \E u : u \in T /\ ThreadRefs' = T \ {u}

\* And when one reference less is: the last one takes the loop along.
LEMMA RefDropped ==
    ASSUME TypeOK, DataInv, LoopInv, RefsInv, NEW t \in Threads, NEW place, DropLoop(t, place),
           ReleasedTwice => ReleasedTwice', IsFiniteSet(ClientRefs'),
           ReleasedTwice' \/ OneLess(ClientRefs, ThreadRefs), t \notin ThreadRefs',
           \A r \in ClientRefs' : sessions'[r[1]].loopOf[r[2]] = sessions[r[1]].loopOf[r[2]]
    PROVE  RefsInv'
  <1>1. CASE ReleasedTwice'
    BY <1>1 DEF RefsInv
  <1>2. CASE ~ ReleasedTwice'
    <2>1. PICK C, T, C2, T2 : C = ClientRefs /\ T = ThreadRefs /\ C2 = ClientRefs' /\ T2 = ThreadRefs'
      OBVIOUS
    <2>2. /\ IsFiniteSet(C) /\ Cardinality(C) \in Nat /\ IsFiniteSet(T) /\ Cardinality(T) \in Nat
          /\ IsFiniteSet(C2) /\ C2 \subseteq C /\ T2 \subseteq T
      BY <1>2, <2>1, RefTypes DEF OneLess
    <2>3. Cardinality(C2) \in Nat /\ Cardinality(T2) \in Nat
          /\ Cardinality(C2) + Cardinality(T2) = Cardinality(C) + Cardinality(T) - 1
      <3>1. CASE T2 = T /\ \E r : r \in C /\ C2 = C \ {r}
        <4>1. PICK r : r \in C /\ C2 = C \ {r}
          BY <3>1
        <4>2. Cardinality(C2) = Cardinality(C) - 1 /\ Cardinality(C2) \in Nat
          BY <2>2, <4>1, FS_RemoveElement, FS_CardinalityType
        <4> QED
          BY <2>2, <3>1, <4>2
      <3>2. CASE C2 = C /\ \E u : u \in T /\ T2 = T \ {u}
        <4>1. PICK u : u \in T /\ T2 = T \ {u}
          BY <3>2
        <4>2. Cardinality(T2) = Cardinality(T) - 1 /\ IsFiniteSet(T2)
          BY <2>2, <4>1, FS_RemoveElement
        <4>3. Cardinality(T2) \in Nat
          BY <4>2, FS_CardinalityType
        <4> QED
          BY <2>2, <3>2, <4>2, <4>3
      <3> QED
        BY <1>2, <2>1, <3>1, <3>2 DEF OneLess
    <2>4. /\ count = Cardinality(C) + Cardinality(T) /\ ((loop # 0) <=> (count > 0))
          /\ \A r \in C : sessions[r[1]].loopOf[r[2]] = loop
          /\ \A u \in T : mine[u] = loop
      BY <1>2, <2>1 DEF RefsInv
    <2>5. /\ loop # 0 /\ loops[loop] = "running"
          /\ count - 1 = Cardinality(C2) + Cardinality(T2)
      BY <2>2, <2>3, <2>4 DEF LoopInv
    <2>6. \A u \in T2 : u # t /\ mine'[u] = mine[u]
      BY <2>1 DEF DropLoop, TypeOK, ThreadRefs
    <2>7. CASE IsLast
      <3>1. count' = 0 /\ loop' = 0 /\ count - 1 <= 0
        BY <2>7 DEF DropLoop, IsLast
      <3>2. Cardinality(C2) = 0 /\ Cardinality(T2) = 0
        BY <2>3, <2>5, <3>1
      <3>3. IsFiniteSet(T2)
        BY <2>2, FS_Subset
      <3>4. C2 = {} /\ T2 = {}
        BY <2>2, <3>2, <3>3, FS_EmptySet
      <3> QED
        BY <1>2, <2>1, <2>2, <3>1, <3>2, <3>4 DEF RefsInv
    <2>8. CASE ~ IsLast
      <3>1. count' = count - 1 /\ loop' = loop
        BY <2>8 DEF DropLoop
      <3>2. ~ (count - 1 <= 0)
        BY <2>5, <2>8 DEF IsLast
      <3>3. count' > 0 /\ count' = Cardinality(C2) + Cardinality(T2)
        BY <2>3, <2>5, <3>1, <3>2
      <3>4. /\ \A r \in C2 : sessions'[r[1]].loopOf[r[2]] = loop'
            /\ \A u \in T2 : mine'[u] = loop'
        BY <2>1, <2>2, <2>4, <2>6, <3>1
      <3> QED
        BY <2>1, <2>2, <2>5, <3>1, <3>3, <3>4 DEF RefsInv
    <2> QED
      BY <2>7, <2>8
  <1> QED
    BY <1>1, <1>2

\* The types of taking a reference to the manager's loop (get_or_create_loop).
LEMMA TakeTypes ==
    ASSUME IInv, TakeLoop
    PROVE  /\ loops' \in Seq(LoopStates) /\ loop' \in 0 .. Len(loops') /\ count' \in Int
           /\ Len(loops) <= Len(loops') /\ Given \in 1 .. Len(loops') /\ Given \in Nat \ {0}
           /\ mine \in [Threads -> 0 .. Len(loops')]
           /\ \A n : n \in 0 .. Len(loops) => n \in 0 .. Len(loops')
           /\ \A s \in Sids : sessions[s].loopOf \in [Models(s) -> 0 .. Len(loops')]
  <1>1. TypeOK /\ DataInv /\ LoopInv
    BY DEF IInv
  <1>2. /\ loops' \in Seq(LoopStates) /\ Given \in 1 .. Len(loops') /\ Given \in Nat \ {0}
        /\ loop' = Given
        /\ Len(loops) <= Len(loops') /\ Len(loops') \in Nat /\ count' = count + 1
    BY <1>1, LoopTaken
  <1>3. \A n : n \in 0 .. Len(loops) => n \in 0 .. Len(loops')
    BY <1>1, <1>2 DEF DataInv
  <1>4. PICK n, m : n = 0 .. Len(loops) /\ m = 0 .. Len(loops')
    OBVIOUS
  <1>5. /\ mine \in [Threads -> n] /\ n \subseteq m
        /\ \A s \in Sids : sessions[s].loopOf \in [Models(s) -> n]
    BY <1>1, <1>3, <1>4, ClientTypes DEF TypeOK
  <1>6. /\ mine \in [Threads -> m]
        /\ \A s \in Sids : sessions[s].loopOf \in [Models(s) -> m]
    BY <1>5
  <1>7. loop' \in 0 .. Len(loops') /\ count' \in Int
    BY <1>1, <1>2 DEF TypeOK
  <1> QED
    BY <1>2, <1>3, <1>4, <1>6, <1>7

\* A thread takes the loop to use it itself.
LEMMA LoopUsed ==
    ASSUME IInv, NEW t \in Threads, TakeLoop, NEW p \in {"validate", "inside"},
           pc[t] \in {"build", "query"}, pc' = [pc EXCEPT ![t] = p], mine' = [mine EXCEPT ![t] = Given],
           UNCHANGED <<managerVars, handle, on, at, after, then, queries>>,
           PlaceOK(t)'
    PROVE  IInv'
  <1>1. /\ TypeOK /\ DataInv /\ PlaceInv /\ OwnerInv /\ LoopInv /\ TurnInv /\ FlagInv /\ RefsInv /\ PlaceOK(t)
        /\ sessions' = sessions /\ live' = live /\ lock' = lock
        /\ handle' = handle /\ on' = on /\ at' = at /\ after' = after /\ then' = then /\ queries' = queries
    BY DEF IInv, PlaceInv, managerVars
  <1>2. /\ loops' \in Seq(LoopStates) /\ loop' \in 0 .. Len(loops') /\ count' \in Int
        /\ Given \in 1 .. Len(loops') /\ mine \in [Threads -> 0 .. Len(loops')]
        /\ \A s \in Sids : sessions[s].loopOf \in [Models(s) -> 0 .. Len(loops')]
    BY TakeTypes
  <1>3. PICK g : g = Given
    OBVIOUS
  <1>4. /\ Others(t) /\ ThreadTypes' /\ pc'[t] = p /\ mine'[t] = g
    <2>1. g \in 0 .. Len(loops') /\ p \in Places
      BY <1>2, <1>3 DEF Places
    <2>2. mine' = [mine EXCEPT ![t] = g]
      BY <1>3
    <2>3. mine' \in [Threads -> 0 .. Len(loops')] /\ mine'[t] = g /\ \A u \in Threads : u # t => mine'[u] = mine[u]
      BY <1>2, <2>1, <2>2
    <2>4. pc' \in [Threads -> Places] /\ pc'[t] = p /\ \A u \in Threads : u # t => pc'[u] = pc[u]
      BY <1>1, <2>1 DEF TypeOK
    <2>5. Others(t)
      BY <1>1, <2>3, <2>4 DEF Others, Still
    <2> QED
      BY <1>1, <2>3, <2>4, <2>5 DEF TypeOK, DataInv, ThreadTypes
  <1>5. /\ Quiet
        /\ \A s \in Sids : /\ Carries(s) /\ sessions'[s] = sessions[s]
                           /\ sessions'[s].connected = sessions[s].connected
                           /\ sessions'[s].caching = sessions[s].caching
                           /\ sessions'[s].models_shutdown = sessions[s].models_shutdown
    BY <1>1, SameSessions
  <1>6. /\ Sids' = Sids /\ \A s \in Sids : Models(s)' = Models(s)
        /\ ClientRefs' = ClientRefs /\ (ReleasedTwice' <=> ReleasedTwice)
    BY <1>5, QuietFacts
  <1>7. Frame(t)
    BY <1>1, <1>4, <1>5 DEF Frame, DataInv
  <1>8. Aside(t)
    BY <1>1, <1>5, Apart DEF Aside
  <1>9. OwnerInv'
    BY <1>1, <1>5, <1>7, OwnersStay DEF Quiet
  <1>10. ~ Closing(t) /\ ~ Closing(t)' /\ ~ Turn(t) /\ ~ Turn(t)' /\ ~ Shutting(t)'
    BY <1>4 DEF Closing, Turn, Shutting, Place
  <1>11. LoopInv'
    BY <1>1, <1>4, <1>10, TakenForgets
  <1>12. TurnInv'
    <2>1. \A x \in Sids : \A k \in Models(x) : t \notin Passed(x, k) /\ t \notin Ahead(x, k)'
      BY <1>10 DEF Passed, Ahead
    <2> QED
      BY <1>1, <1>4, <1>5, <1>6, <2>1, TurnsStay
  <1>13. FlagInv'
    BY <1>1, <1>4, <1>5, <1>6, <1>10, FlagsStay
  <1>14. RefsInv'
    <2>1. t \notin ThreadRefs /\ ThreadRefs' = ThreadRefs \cup {t}
      BY <1>4 DEF ThreadRefs, Others, Still
    <2>2. OneMore(ClientRefs, ThreadRefs)
      BY <1>6, <2>1 DEF OneMore
    <2>3. \A u \in ThreadRefs' : (u \in ThreadRefs /\ mine'[u] = mine[u]) \/ mine'[u] = loop'
      <3>1. loop' = g
        BY <1>3 DEF TakeLoop
      <3>2. \A u \in ThreadRefs : u \in Threads
        BY DEF ThreadRefs
      <3> QED
        BY <1>4, <2>1, <3>1, <3>2 DEF Others, Still
    <2>4. \A r \in ClientRefs' : r \in ClientRefs
                                 /\ sessions'[r[1]].loopOf[r[2]] = sessions[r[1]].loopOf[r[2]]
      BY <1>1, <1>6
    <2> QED
      BY <1>1, <1>6, <2>2, <2>3, <2>4, RefTaken
  <1>15. StepTypes(t)
    <2>1. \A s \in Sids' : /\ sessions'[s].loopOf \in [Models(s)' -> 0 .. Len(loops')]
                           /\ sessions'[s].released \in [Models(s)' -> Nat]
      BY <1>1, <1>2, <1>6, ClientTypes, ThreadSets
    <2>2. on'[t] # 0 => at'[t] <= Clients[sessions'[on'[t]].app] + 1
      <3>1. on[t] # 0 => on[t] \in Sids /\ at[t] \in 1 .. Clients[sessions[on[t]].app] + 1
        BY <1>1 DEF TypeOK, DataInv, Sids
      <3> QED
        BY <1>1, <3>1, RecordFacts DEF DataInv
    <2>3. DataInv'
      BY <1>1, <1>2 DEF DataInv
    <2> QED
      BY <1>1, <1>2, <1>4, <2>1, <2>2, <2>3 DEF StepTypes, TypeOK
  <1> QED
    BY <1>7, <1>8, <1>9, <1>11, <1>12, <1>13, <1>14, <1>15, Assembled

\* Taking the loop to check the keys of the providers keeps the invariant.
LEMMA ValidateStep ==
    ASSUME IInv, NEW t \in Threads, Validate(t)
    PROVE  IInv'
  <1>1. /\ TypeOK /\ DataInv /\ PlaceInv /\ PlaceOK(t)
        /\ sessions' = sessions /\ live' = live /\ lock' = lock
        /\ handle' = handle /\ on' = on /\ at' = at /\ after' = after /\ then' = then
    BY DEF IInv, PlaceInv, Validate, managerVars
  <1>2. /\ pc[t] = "build" /\ pc' = [pc EXCEPT ![t] = "validate"] /\ pc'[t] = "validate" /\ TakeLoop
        /\ at[t] = Clients[sessions[on[t]].app] + 1
    BY <1>1 DEF Validate, Goto, TypeOK
  <1>3. Building(t) /\ ~ Closing(t)' /\ Place(t)' = "validate" /\ then[t] = "idle"
    BY <1>1, <1>2 DEF Building, Place, Closing, PlaceOK, Shutting
  <1>4. handle'[t] # 0 => Complete(handle[t])'
    BY <1>1, SameSessions, KnownComplete
  <1>5. BuildingOK(t)'
    BY <1>1, <1>2, <1>3 DEF PlaceOK, BuildingOK, Models
  <1>6. PlaceOK(t)'
    BY <1>1, <1>2, <1>3, <1>4, <1>5 DEF PlaceOK, Closing, Building, Shutting, Removing
  <1> QED
    BY <1>2, <1>6, LoopUsed DEF Validate

\* Taking the loop for a query (loop_context) keeps the invariant.
LEMMA EnterLoopStep ==
    ASSUME IInv, NEW t \in Threads, EnterLoop(t)
    PROVE  IInv'
  <1>1. /\ TypeOK /\ DataInv /\ PlaceInv /\ PlaceOK(t)
        /\ sessions' = sessions /\ live' = live /\ lock' = lock
        /\ handle' = handle /\ on' = on /\ at' = at /\ after' = after /\ then' = then
    BY DEF IInv, PlaceInv, EnterLoop, managerVars
  <1>2. /\ pc[t] = "query" /\ pc' = [pc EXCEPT ![t] = "inside"] /\ pc'[t] = "inside" /\ TakeLoop
    BY <1>1 DEF EnterLoop, Goto, TypeOK
  <1>3. ~ Closing(t)' /\ Place(t)' = "inside" /\ then[t] = "idle" /\ on[t] = 0 /\ lock # t
    BY <1>1, <1>2 DEF Place, Closing, PlaceOK, Shutting, Building, Removing
  <1>4. handle'[t] # 0 => Complete(handle[t])'
    BY <1>1, SameSessions, KnownComplete
  <1>5. PlaceOK(t)'
    BY <1>1, <1>2, <1>3, <1>4 DEF PlaceOK, Closing, Building, Shutting, Removing
  <1> QED
    BY <1>2, <1>5, LoopUsed DEF EnterLoop

\* Constructing a client, which takes a reference to the loop, keeps the invariant.
LEMMA BuildClientStep ==
    ASSUME IInv, NEW t \in Threads, BuildClient(t)
    PROVE  IInv'
  <1>1. /\ TypeOK /\ DataInv /\ PlaceInv /\ OwnerInv /\ LoopInv /\ TurnInv /\ FlagInv /\ RefsInv /\ PlaceOK(t)
        /\ TakeLoop /\ pc[t] = "build"
        /\ live' = live /\ lock' = lock /\ pc' = pc
        /\ handle' = handle /\ on' = on /\ mine' = mine /\ after' = after /\ then' = then /\ queries' = queries
    BY DEF IInv, PlaceInv, BuildClient
  <1>2. PICK s, k, g : s = on[t] /\ k = at[t] /\ g = Given
    OBVIOUS
  <1>3. Building(t) /\ ~ Closing(t) /\ ~ Turn(t) /\ ~ Shutting(t) /\ Place(t) = "build"
    BY <1>1 DEF Building, Closing, Place, Turn, Shutting
  <1>4. /\ s \in Sids /\ s # 0 /\ lock = t /\ live[sessions[s].app] = 0 /\ sessions[s].connected
        /\ then[t] = "idle" /\ handle[t] # s
        /\ \A j \in Models(s) : sessions[s].released[j] = 0 /\ (sessions[s].loopOf[j] = 0 <=> j >= k)
    BY <1>1, <1>2, <1>3 DEF PlaceOK, BuildingOK, TypeOK, DataInv, Sids, Turn
  <1>5. k \in Models(s) /\ k \in Nat \ {0} /\ Clients[sessions[s].app] \in Nat
    BY <1>1, <1>2, <1>4, RecordFacts DEF BuildClient, DataInv
  <1>6. /\ loops' \in Seq(LoopStates) /\ loop' \in 0 .. Len(loops') /\ count' \in Int
        /\ Len(loops) <= Len(loops') /\ g \in 1 .. Len(loops') /\ g \in Nat \ {0} /\ loop' = g
        /\ mine \in [Threads -> 0 .. Len(loops')]
        /\ \A x \in Sids : sessions[x].loopOf \in [Models(x) -> 0 .. Len(loops')]
    BY <1>1, <1>2, TakeTypes DEF TakeLoop
  <1>7. DOMAIN sessions[s].loopOf = Models(s)
    BY <1>4, <1>6
  <1>8. /\ Only(s)
        /\ sessions'[s].app = sessions[s].app
        /\ sessions'[s].connected = sessions[s].connected
        /\ sessions'[s].caching = sessions[s].caching
        /\ sessions'[s].models_shutdown = sessions[s].models_shutdown
        /\ sessions'[s].released = sessions[s].released
        /\ DOMAIN sessions'[s].loopOf = Models(s)
        /\ \A j \in Models(s) : sessions'[s].loopOf[j] = IF j = k THEN g ELSE sessions[s].loopOf[j]
    <2>1. sessions' = [sessions EXCEPT ![s].loopOf[k] = g]
      BY <1>2 DEF BuildClient
    <2>2. k \in DOMAIN sessions[s].loopOf /\ g \in Nat /\ sessions \in Seq(Record)
      BY <1>1, <1>5, <1>6, <1>7 DEF DataInv
    <2>3. /\ Only(s)
          /\ sessions'[s].app = sessions[s].app
          /\ sessions'[s].connected = sessions[s].connected
          /\ sessions'[s].caching = sessions[s].caching
          /\ sessions'[s].models_shutdown = sessions[s].models_shutdown
          /\ sessions'[s].released = sessions[s].released
          /\ DOMAIN sessions'[s].loopOf = DOMAIN sessions[s].loopOf
          /\ \A j \in DOMAIN sessions[s].loopOf :
                sessions'[s].loopOf[j] = IF j = k THEN g ELSE sessions[s].loopOf[j]
      BY <1>4, <2>1, <2>2, LoopGiven
    <2> QED
      BY <1>7, <2>3
  <1>9. /\ sessions' \in Seq(Record) /\ Len(sessions') = Len(sessions) /\ Sids' = Sids
        /\ \A x \in Sids : /\ sessions'[x].app = sessions[x].app
                           /\ sessions'[x].connected = sessions[x].connected
                           /\ sessions'[x].caching = sessions[x].caching
                           /\ sessions'[x].models_shutdown = sessions[x].models_shutdown
                           /\ sessions'[x].released = sessions[x].released
                           /\ x # s => sessions'[x] = sessions[x]
                           /\ Models(x)' = Models(x)
    BY <1>8 DEF Only, Sids, Models
  <1>10. \A x \in Sids : Carries(x)
    <2>1. ASSUME NEW x \in Sids, Complete(x) PROVE Complete(x)'
      <3>1. CASE x = s
        BY <1>6, <1>8, <1>9, <2>1, <3>1 DEF Complete
      <3>2. CASE x # s
        BY <1>9, <2>1, <3>2 DEF Complete
      <3> QED
        BY <3>1, <3>2
    <2> QED
      BY <1>9, <2>1 DEF Carries
  <1>11. /\ Others(t) /\ ThreadTypes' /\ at'[t] = k + 1
    <2>1. at' = [at EXCEPT ![t] = k + 1] /\ k + 1 \in Nat \ {0} /\ at \in [Threads -> Nat \ {0}]
      BY <1>1, <1>2, <1>5 DEF BuildClient, DataInv
    <2>2. at' \in [Threads -> Nat \ {0}] /\ at'[t] = k + 1 /\ \A u \in Threads : u # t => at'[u] = at[u]
      BY <2>1
    <2> QED
      BY <1>1, <1>6, <1>9, <2>2 DEF Others, Still, TypeOK, ThreadTypes
  <1>12. Frame(t)
    BY <1>1, <1>9, <1>10, <1>11 DEF Frame, DataInv
  <1>13. Aside(t)
    BY <1>1, <1>4, Apart DEF Aside
  <1>14. ~ Closing(t)' /\ ~ Turn(t)' /\ ~ Shutting(t)' /\ Place(t)' = "build"
    BY <1>1, <1>3 DEF Closing, Turn, Shutting, Place
  <1>15. handle'[t] # 0 => Complete(handle[t])'
    BY <1>1, <1>10, KnownComplete
  <1>16. BuildingOK(t)'
    <2>1. \A j \in Models(s) : sessions'[s].loopOf[j] = 0 <=> j >= k + 1
      <3>1. ASSUME NEW j \in Models(s) PROVE sessions'[s].loopOf[j] = 0 <=> j >= k + 1
        <4>1. j \in Nat
          BY DEF Models
        <4>2. CASE j = k
          BY <1>5, <1>6, <1>8, <4>2
        <4>3. CASE j # k
          BY <1>4, <1>5, <1>8, <4>1, <4>3
        <4> QED
          BY <4>2, <4>3
      <3> QED
        BY <3>1
    <2>2. \A u \in Threads : handle[u] # s /\ (u # t => on[u] # s)
      BY <1>1, <1>2, <1>3 DEF PlaceOK, BuildingOK
    <2>3. \A j \in Models(s)' : sessions'[s].released[j] = 0 /\ (sessions'[s].loopOf[j] = 0 <=> j >= at'[t])
      BY <1>4, <1>9, <1>11, <2>1
    <2>4. on'[t] = s /\ pc'[t] # "validate"
      BY <1>1, <1>2
    <2> QED
      BY <1>1, <1>4, <1>9, <2>2, <2>3, <2>4 DEF BuildingOK, Models
  <1>17. PlaceOK(t)'
    BY <1>1, <1>4, <1>14, <1>15, <1>16 DEF PlaceOK, Closing, Building, Removing
  <1>18. OwnerInv'
    BY <1>1, <1>9, <1>12, OwnersStay
  <1>19. LoopInv'
    BY <1>1, <1>3, <1>11, <1>14, TakenForgets
  <1>20. TurnInv'
    <2>1. \A x \in Sids : \A j \in Models(x) : t \notin Passed(x, j) /\ t \notin Ahead(x, j)'
      BY <1>3, <1>14 DEF Passed, Ahead
    <2> QED
      BY <1>1, <1>9, <1>11, <2>1, TurnsStay
  <1>21. ReleasedTwice' <=> ReleasedTwice
    BY <1>9 DEF ReleasedTwice
  <1>22. FlagInv'
    BY <1>1, <1>9, <1>11, <1>14, <1>21, FlagsStay
  <1>23. RefsInv'
    <2>1. ThreadRefs' = ThreadRefs
      BY <1>1 DEF ThreadRefs
    <2>2. <<s, k>> \notin ClientRefs
      <3>1. sessions[s].loopOf[k] = 0
        BY <1>4, <1>5
      <3> QED
        BY <3>1, ClientRefIs
    <2>3. \A r : r \in ClientRefs' <=> r \in ClientRefs \cup {<<s, k>>}
      <3>1. ASSUME NEW x \in Sids, NEW j \in Models(x)
            PROVE  (sessions'[x].loopOf[j] # 0 /\ sessions'[x].released[j] = 0)
                     <=> (sessions[x].loopOf[j] # 0 /\ sessions[x].released[j] = 0) \/ <<x, j>> = <<s, k>>
        <4>1. CASE x = s /\ j = k
          BY <1>4, <1>5, <1>6, <1>8, <4>1
        <4>2. CASE x = s /\ j # k
          BY <1>8, <4>2
        <4>3. CASE x # s
          BY <1>9, <4>3
        <4> QED
          BY <4>1, <4>2, <4>3
      <3>2. \A r : r \in ClientRefs' <=>
               \E x \in Sids : \E j \in Models(x) :
                  r = <<x, j>> /\ sessions'[x].loopOf[j] # 0 /\ sessions'[x].released[j] = 0
        BY <1>9, ClientRefIs
      <3>3. \A r : r \in ClientRefs <=>
               \E x \in Sids : \E j \in Models(x) :
                  r = <<x, j>> /\ sessions[x].loopOf[j] # 0 /\ sessions[x].released[j] = 0
        BY ClientRefIs
      <3> QED
        BY <1>4, <1>5, <3>1, <3>2, <3>3
    <2>4. ClientRefs' = ClientRefs \cup {<<s, k>>}
      BY <2>3
    <2>5. OneMore(ClientRefs, ThreadRefs)
      BY <2>1, <2>2, <2>4 DEF OneMore
    <2>6. \A u \in ThreadRefs' : u \in ThreadRefs /\ mine'[u] = mine[u]
      BY <1>1, <2>1
    <2>7. \A r \in ClientRefs' : \/ r \in ClientRefs
                                     /\ sessions'[r[1]].loopOf[r[2]] = sessions[r[1]].loopOf[r[2]]
                                 \/ sessions'[r[1]].loopOf[r[2]] = loop'
      <3>1. ASSUME NEW r \in ClientRefs, r # <<s, k>>
            PROVE  sessions'[r[1]].loopOf[r[2]] = sessions[r[1]].loopOf[r[2]]
        <4>1. PICK x \in Sids : \E j \in Models(x) : r = <<x, j>>
          BY ClientRefIs
        <4>2. PICK j \in Models(x) : r = <<x, j>>
          BY <4>1
        <4>3. sessions'[x].loopOf[j] = sessions[x].loopOf[j]
          <5>1. CASE x = s
            BY <1>8, <3>1, <4>2, <5>1
          <5>2. CASE x # s
            BY <1>9, <5>2
          <5> QED
            BY <5>1, <5>2
        <4> QED
          BY <4>2, <4>3
      <3>2. sessions'[s].loopOf[k] = loop'
        BY <1>5, <1>6, <1>8
      <3> QED
        BY <2>4, <3>1, <3>2
    <2> QED
      BY <1>1, <1>21, <2>5, <2>6, <2>7, RefTaken
  <1>24. StepTypes(t)
    <2>1. ASSUME NEW x \in Sids'
          PROVE  /\ sessions'[x].loopOf \in [Models(x)' -> 0 .. Len(loops')]
                 /\ sessions'[x].released \in [Models(x)' -> Nat]
      <3>1. x \in Sids /\ Models(x)' = Models(x)
        BY <1>9
      <3>2. sessions'[x].released \in [Models(x)' -> Nat]
        BY <1>1, <1>9, <3>1, ClientTypes, ThreadSets
      <3>3. CASE x = s
        <4>1. /\ sessions[s].loopOf \in [Models(s) -> 0 .. Len(loops')] /\ g \in 0 .. Len(loops')
              /\ sessions'[s] \in Record
          BY <1>4, <1>6, <1>9 DEF Sids
        <4>2. sessions'[s].loopOf \in Fns
          BY <4>1 DEF Record
        <4>3. sessions'[s].loopOf = [j \in Models(s) |-> sessions'[s].loopOf[j]]
          BY <1>8, <4>2 DEF Fns
        <4>4. \A j \in Models(s) : sessions'[s].loopOf[j] \in 0 .. Len(loops')
          BY <1>8, <4>1
        <4>5. sessions'[s].loopOf \in [Models(s) -> 0 .. Len(loops')]
          BY <4>3, <4>4
        <4> QED
          BY <3>1, <3>2, <3>3, <4>5
      <3>4. CASE x # s
        BY <1>6, <1>9, <3>1, <3>2, <3>4
      <3> QED
        BY <3>3, <3>4
    <2>2. on'[t] # 0 => at'[t] <= Clients[sessions'[on'[t]].app] + 1
      <3>1. k <= Clients[sessions[s].app]
        BY <1>5 DEF Models
      <3> QED
        BY <1>1, <1>2, <1>5, <1>8, <1>11, <3>1
    <2>3. DataInv'
      BY <1>6, <1>9, <1>11 DEF DataInv, ThreadTypes
    <2> QED
      BY <1>1, <1>6, <1>9, <1>11, <2>1, <2>2, <2>3 DEF StepTypes, TypeOK
  <1> QED
    BY <1>12, <1>13, <1>17, <1>18, <1>19, <1>20, <1>22, <1>23, <1>24, Assembled

\* What giving a reference back (release_loop) does to its thread and to the manager.
LEMMA DropFacts ==
    ASSUME TypeOK, DataInv, NEW t \in Threads, NEW place \in Places, place \notin {"halt", "join"},
           DropLoop(t, place), \A u \in Threads : u # t => at'[u] = at[u],
           handle' = handle, on' = on, then' = then
    PROVE  /\ Others(t) /\ Place(t)' = place /\ loops' = loops
           /\ pc'[t] = "halt" \/ pc'[t] = place
           /\ Closing(t)' => mine'[t] # 0 /\ after'[t] = place
           /\ loop' \in 0 .. Len(loops) /\ count' \in Int
           /\ pc' \in [Threads -> Places] /\ mine' \in [Threads -> 0 .. Len(loops)]
           /\ after' \in [Threads -> Places]
  <1>1. /\ pc \in [Threads -> Places] /\ mine \in [Threads -> 0 .. Len(loops)]
        /\ after \in [Threads -> Places] /\ loop \in 0 .. Len(loops) /\ count \in Int
        /\ 0 \in 0 .. Len(loops) /\ {"halt", "idle"} \subseteq Places
    BY DEF TypeOK, DataInv, Places
  <1>2. PICK p, m, a : /\ p = (IF IsLast THEN "halt" ELSE place)
                       /\ m = (IF IsLast THEN loop ELSE 0)
                       /\ a = (IF IsLast THEN place ELSE "idle")
    OBVIOUS
  <1>3. p \in Places /\ m \in 0 .. Len(loops) /\ a \in Places
    BY <1>1, <1>2
  <1>4. /\ pc' = [pc EXCEPT ![t] = p] /\ mine' = [mine EXCEPT ![t] = m] /\ after' = [after EXCEPT ![t] = a]
        /\ loops' = loops
    BY <1>2 DEF DropLoop, Goto
  <1>5. /\ loop' \in 0 .. Len(loops) /\ count' \in Int
    BY <1>1 DEF DropLoop
  <1>6. /\ pc' \in [Threads -> Places] /\ mine' \in [Threads -> 0 .. Len(loops)]
        /\ after' \in [Threads -> Places] /\ pc'[t] = p /\ mine'[t] = m /\ after'[t] = a
        /\ \A u \in Threads : u # t => pc'[u] = pc[u] /\ mine'[u] = mine[u] /\ after'[u] = after[u]
    BY <1>1, <1>3, <1>4
  <1>7. Others(t)
    BY <1>6 DEF Others, Still
  <1>8. /\ Place(t)' = place /\ (p = "halt" \/ p = place)
        /\ Closing(t)' => mine'[t] # 0 /\ after'[t] = place
    <2>1. CASE IsLast
      <3>1. p = "halt" /\ m = loop /\ a = place /\ loop # 0
        BY <1>2, <2>1 DEF IsLast
      <3> QED
        BY <1>6, <3>1 DEF Place, Closing
    <2>2. CASE ~ IsLast
      <3>1. p = place
        BY <1>2, <2>2
      <3> QED
        BY <1>6, <3>1 DEF Place, Closing
    <2> QED
      BY <2>1, <2>2
  <1> QED
    BY <1>4, <1>5, <1>6, <1>7, <1>8

\* A thread that used the loop itself gives it back.
LEMMA LoopLeft ==
    ASSUME IInv, NEW t \in Threads, NEW place \in {"store", "fail", "idle"}, DropLoop(t, place),
           pc[t] \in {"validate", "inside"},
           UNCHANGED <<managerVars, handle, on, at, then, queries>>,
           Place(t) = "inside" => place = "idle", Place(t) = "validate" => place # "idle"
    PROVE  IInv'
  <1>1. /\ TypeOK /\ DataInv /\ PlaceInv /\ OwnerInv /\ LoopInv /\ TurnInv /\ FlagInv /\ RefsInv /\ PlaceOK(t)
        /\ sessions' = sessions /\ live' = live /\ lock' = lock
        /\ handle' = handle /\ on' = on /\ at' = at /\ then' = then /\ queries' = queries
    BY DEF IInv, PlaceInv, managerVars
  <1>2. /\ Others(t) /\ Place(t)' = place /\ loops' = loops
        /\ (pc'[t] = "halt" \/ pc'[t] = place)
        /\ Closing(t)' => mine'[t] # 0 /\ after'[t] = place
        /\ loop' \in 0 .. Len(loops) /\ count' \in Int
        /\ pc' \in [Threads -> Places] /\ mine' \in [Threads -> 0 .. Len(loops)]
        /\ after' \in [Threads -> Places]
    BY <1>1, DropFacts DEF Places
  <1>3. /\ Quiet
        /\ \A s \in Sids : /\ Carries(s) /\ sessions'[s] = sessions[s]
                           /\ sessions'[s].connected = sessions[s].connected
                           /\ sessions'[s].caching = sessions[s].caching
                           /\ sessions'[s].models_shutdown = sessions[s].models_shutdown
    BY <1>1, SameSessions
  <1>4. /\ Sids' = Sids /\ \A s \in Sids : Models(s)' = Models(s)
        /\ ClientRefs' = ClientRefs /\ (ReleasedTwice' <=> ReleasedTwice)
    BY <1>3, QuietFacts
  <1>5. Frame(t)
    BY <1>1, <1>2, <1>3 DEF Frame, DataInv
  <1>6. Aside(t)
    BY <1>1, <1>3, Apart DEF Aside
  <1>7. OwnerInv'
    BY <1>1, <1>3, <1>5, OwnersStay DEF Quiet
  <1>8. ~ Closing(t) /\ ~ Turn(t) /\ Place(t) = pc[t] /\ then[t] = "idle"
    BY <1>1 DEF Closing, Turn, Shutting, Place, PlaceOK
  <1>9. ~ Turn(t)' /\ ~ Shutting(t)' /\ (Building(t)' <=> Building(t)) /\ ~ Removing(t)' /\ ~ Removing(t)
    BY <1>1, <1>2, <1>8 DEF Turn, Shutting, Building, Removing
  <1>10. handle'[t] # 0 => Complete(handle[t])'
    BY <1>1, <1>3, KnownComplete
  <1>11. Building(t)' => BuildingOK(t)'
    <2>1. pc'[t] # "validate"
      BY <1>2
    <2> QED
      BY <1>1, <1>9, <2>1 DEF PlaceOK, BuildingOK, Models
  <1>12. PlaceOK(t)'
    <2>1. Place(t)' = "idle" => on'[t] = 0
      BY <1>1, <1>2, <1>8 DEF PlaceOK
    <2>2. lock' = t => Building(t)'
      BY <1>1, <1>8, <1>9 DEF PlaceOK
    <2> QED
      BY <1>1, <1>2, <1>8, <1>9, <1>10, <1>11, <2>1, <2>2 DEF PlaceOK
  <1>13. LoopInv'
    BY <1>1, <1>2, <1>8, DroppedForgets DEF Places
  <1>14. TurnInv'
    <2>1. \A x \in Sids : \A k \in Models(x) : t \notin Passed(x, k) /\ t \notin Ahead(x, k)'
      BY <1>8, <1>9 DEF Passed, Ahead
    <2> QED
      BY <1>1, <1>2, <1>3, <1>4, <2>1, TurnsStay
  <1>15. FlagInv'
    BY <1>1, <1>2, <1>3, <1>4, <1>9, FlagsStay
  <1>16. RefsInv'
    <2>1. t \in ThreadRefs /\ t \notin ThreadRefs' /\ ThreadRefs' = ThreadRefs \ {t}
      BY <1>2 DEF ThreadRefs, Others, Still
    <2>2. OneLess(ClientRefs, ThreadRefs)
      BY <1>4, <2>1 DEF OneLess
    <2>3. IsFiniteSet(ClientRefs')
      BY <1>1, <1>4 DEF RefsInv
    <2> QED
      BY <1>1, <1>4, <2>1, <2>2, <2>3, RefDropped
  <1>17. StepTypes(t)
    <2>1. \A s \in Sids' : /\ sessions'[s].loopOf \in [Models(s)' -> 0 .. Len(loops')]
                           /\ sessions'[s].released \in [Models(s)' -> Nat]
      BY <1>1, <1>2, <1>4, ClientTypes, ThreadSets
    <2>2. on'[t] # 0 => at'[t] <= Clients[sessions'[on'[t]].app] + 1
      <3>1. on[t] # 0 => on[t] \in Sids /\ at[t] \in 1 .. Clients[sessions[on[t]].app] + 1
        BY <1>1 DEF TypeOK, DataInv, Sids
      <3> QED
        BY <1>1, <3>1, RecordFacts DEF DataInv
    <2>3. DataInv' /\ ThreadTypes'
      BY <1>1, <1>2 DEF DataInv, ThreadTypes, TypeOK
    <2> QED
      BY <1>1, <1>2, <2>1, <2>2, <2>3 DEF StepTypes, TypeOK
  <1> QED
    BY <1>5, <1>6, <1>7, <1>12, <1>13, <1>14, <1>15, <1>16, <1>17, Assembled

\* Giving the loop back after the keys were checked keeps the invariant.
LEMMA ValidateEndsStep ==
    ASSUME IInv, NEW t \in Threads, ValidateEnds(t)
    PROVE  IInv'
  <1>1. PICK outcome \in {"store", "fail"} : DropLoop(t, outcome)
    BY DEF ValidateEnds
  <1>2. Place(t) = "validate"
    BY DEF ValidateEnds, Place, Closing
  <1> QED
    BY <1>1, <1>2, LoopLeft DEF ValidateEnds

\* Giving the loop back after a query keeps the invariant.
LEMMA LeaveLoopStep ==
    ASSUME IInv, NEW t \in Threads, LeaveLoop(t)
    PROVE  IInv'
  <1>1. Place(t) = "inside"
    BY DEF LeaveLoop, Place, Closing
  <1> QED
    BY <1>1, LoopLeft DEF LeaveLoop

\* Giving back the reference of a client (ModelClient.shutdown) keeps the invariant, also when
\* another thread gave it back before.
LEMMA ReleaseClientStep ==
    ASSUME IInv, NEW t \in Threads, ReleaseClient(t)
    PROVE  IInv'
  <1>1. /\ TypeOK /\ DataInv /\ PlaceInv /\ OwnerInv /\ LoopInv /\ TurnInv /\ FlagInv /\ RefsInv /\ PlaceOK(t)
        /\ pc[t] = "release" /\ DropLoop(t, "client")
        /\ live' = live /\ lock' = lock
        /\ handle' = handle /\ on' = on /\ then' = then /\ queries' = queries
    BY DEF IInv, PlaceInv, ReleaseClient
  <1>2. PICK s, k : s = on[t] /\ k = at[t]
    OBVIOUS
  <1>3. Shutting(t) /\ Turn(t) /\ ~ Closing(t) /\ ~ Building(t)
    BY <1>1 DEF Building, Closing, Place, Turn, Shutting
  <1>4. /\ s \in Sids /\ s # 0 /\ Complete(s) /\ then[t] \in {"cache", "delete"}
        /\ k \in Models(s) /\ k \in Nat \ {0} /\ Clients[sessions[s].app] \in Nat
    <2>1. s # 0 /\ Complete(s) /\ then[t] \in {"cache", "delete"} /\ k \in Models(s)
      BY <1>1, <1>2, <1>3 DEF PlaceOK, Complete, Models
    <2>2. s \in Sids /\ k \in Nat \ {0}
      BY <1>1, <1>2, <2>1 DEF TypeOK, DataInv, Sids
    <2> QED
      BY <1>1, <2>1, <2>2, RecordFacts DEF DataInv
  <1>5. /\ sessions[s].released \in [Models(s) -> Nat] /\ sessions[s].released[k] \in Nat
        /\ sessions[s].loopOf[k] # 0
    BY <1>1, <1>4, ClientTypes, ThreadSets DEF Complete
  <1>6. /\ Only(s)
        /\ sessions'[s].app = sessions[s].app
        /\ sessions'[s].connected = sessions[s].connected
        /\ sessions'[s].caching = sessions[s].caching
        /\ sessions'[s].models_shutdown = sessions[s].models_shutdown
        /\ sessions'[s].loopOf = sessions[s].loopOf
        /\ DOMAIN sessions'[s].released = Models(s)
        /\ \A j \in Models(s) : sessions'[s].released[j] =
              IF j = k THEN sessions[s].released[k] + 1 ELSE sessions[s].released[j]
    <2>1. PICK n : n = sessions[s].released[k] + 1
      OBVIOUS
    <2>2. sessions' = [sessions EXCEPT ![s].released[k] = n]
      BY <1>2, <2>1 DEF ReleaseClient
    <2>3. /\ k \in DOMAIN sessions[s].released /\ DOMAIN sessions[s].released = Models(s) /\ n \in Nat
          /\ sessions \in Seq(Record)
      BY <1>1, <1>4, <1>5, <2>1 DEF DataInv
    <2>4. /\ Only(s)
          /\ sessions'[s].app = sessions[s].app
          /\ sessions'[s].connected = sessions[s].connected
          /\ sessions'[s].caching = sessions[s].caching
          /\ sessions'[s].models_shutdown = sessions[s].models_shutdown
          /\ sessions'[s].loopOf = sessions[s].loopOf
          /\ DOMAIN sessions'[s].released = DOMAIN sessions[s].released
          /\ \A j \in DOMAIN sessions[s].released :
                sessions'[s].released[j] = IF j = k THEN n ELSE sessions[s].released[j]
      BY <1>4, <2>2, <2>3, Released
    <2> QED
      BY <2>1, <2>3, <2>4
  <1>7. /\ sessions' \in Seq(Record) /\ Len(sessions') = Len(sessions) /\ Sids' = Sids
        /\ \A x \in Sids : /\ sessions'[x].app = sessions[x].app
                           /\ sessions'[x].connected = sessions[x].connected
                           /\ sessions'[x].caching = sessions[x].caching
                           /\ sessions'[x].models_shutdown = sessions[x].models_shutdown
                           /\ sessions'[x].loopOf = sessions[x].loopOf
                           /\ x # s => sessions'[x] = sessions[x]
                           /\ Models(x)' = Models(x)
    BY <1>6 DEF Only, Sids, Models
  <1>8. \A x \in Sids : \A j \in Models(x) :
          /\ sessions[x].released[j] \in Nat
          /\ sessions'[x].released[j] =
                IF x = s /\ j = k THEN sessions[x].released[j] + 1 ELSE sessions[x].released[j]
    <2>1. ASSUME NEW x \in Sids, NEW j \in Models(x)
          PROVE  sessions'[x].released[j] =
                   IF x = s /\ j = k THEN sessions[x].released[j] + 1 ELSE sessions[x].released[j]
      <3>1. CASE x = s
        BY <1>6, <2>1, <3>1
      <3>2. CASE x # s
        BY <1>7, <2>1, <3>2
      <3> QED
        BY <3>1, <3>2
    <2> QED
      BY <1>1, <2>1, ClientTypes
  <1>9. \A x \in Sids : Carries(x)
    BY <1>7 DEF Carries, Complete
  <1>10. \A u \in Threads : u # t => at'[u] = at[u]
    BY <1>1 DEF ReleaseClient, DataInv
  <1>11. /\ Others(t) /\ Place(t)' = "client" /\ loops' = loops
         /\ (pc'[t] = "halt" \/ pc'[t] = "client")
         /\ Closing(t)' => mine'[t] # 0 /\ after'[t] = "client"
         /\ loop' \in 0 .. Len(loops) /\ count' \in Int
         /\ pc' \in [Threads -> Places] /\ mine' \in [Threads -> 0 .. Len(loops)]
         /\ after' \in [Threads -> Places]
    <2>1. "client" \in Places
      BY DEF Places
    <2> QED
      BY <1>1, <1>10, <2>1, DropFacts
  <1>12. at' \in [Threads -> Nat \ {0}] /\ at'[t] = k + 1
    <2>1. at' = [at EXCEPT ![t] = k + 1] /\ k + 1 \in Nat \ {0} /\ at \in [Threads -> Nat \ {0}]
      BY <1>1, <1>2, <1>4 DEF ReleaseClient, DataInv
    <2> QED
      BY <2>1
  <1>13. Frame(t)
    BY <1>1, <1>7, <1>9, <1>11 DEF Frame, DataInv
  <1>14. Aside(t)
    BY <1>1, <1>2, <1>7, Apart DEF Aside
  <1>15. OwnerInv'
    BY <1>1, <1>7, <1>13, OwnersStay
  <1>16. Shutting(t)' /\ Turn(t)' /\ ~ Building(t)' /\ (Removing(t)' <=> Removing(t))
    BY <1>1, <1>11 DEF Turn, Shutting, Building, Removing
  <1>17. handle'[t] # 0 => Complete(handle[t])'
    BY <1>1, <1>9, KnownComplete
  <1>18. Complete(on[t])'
    BY <1>1, <1>3, <1>9, KnownComplete
  <1>19. Removing(t)' => RemovingOK(t)'
    <2>1. SUFFICES ASSUME Removing(t)' PROVE RemovingOK(t)'
      OBVIOUS
    <2>2. RemovingOK(t)
      BY <1>1, <1>16, <2>1 DEF PlaceOK
    <2>3. PICK h : h = handle[t]
      OBVIOUS
    <2>4. h \in Sids /\ sessions'[h].app = sessions[h].app
      BY <1>1, <1>7, <2>2, <2>3 DEF RemovingOK, TypeOK, DataInv, Sids
    <2> QED
      BY <1>1, <1>2, <1>6, <2>2, <2>3, <2>4 DEF RemovingOK
  <1>20. PlaceOK(t)'
    <2>1. /\ then'[t] = "cache" => on'[t] = handle'[t] /\ handle'[t] # 0
          /\ lock' = t => Removing(t)'
      BY <1>1, <1>3, <1>16 DEF PlaceOK
    <2> QED
      BY <1>1, <1>2, <1>4, <1>11, <1>16, <1>17, <1>18, <1>19, <2>1 DEF PlaceOK
  <1>21. LoopInv'
    BY <1>1, <1>3, <1>11, DroppedForgets DEF Places
  <1>22. TurnInv'
    <2>1. SUFFICES ASSUME NEW x \in Sids, NEW j \in Models(x)
                   PROVE  IF sessions[x].models_shutdown
                          THEN sessions'[x].released[j] + Cardinality(Ahead(x, j)') <= Cardinality(Threads)
                          ELSE sessions'[x].released[j] <= Cardinality(Passed(x, j)')
      BY <1>7 DEF TurnInv
    <2>2. /\ sessions[x].released[j] \in Nat
          /\ IF sessions[x].models_shutdown
             THEN sessions[x].released[j] + Cardinality(Ahead(x, j)) <= Cardinality(Threads)
             ELSE sessions[x].released[j] <= Cardinality(Passed(x, j))
      BY <1>1, <1>8 DEF TurnInv
    <2>3. \A u \in Threads : u # t => /\ u \in Ahead(x, j)' <=> u \in Ahead(x, j)
                                      /\ u \in Passed(x, j)' <=> u \in Passed(x, j)
      BY <1>11 DEF Ahead, Passed, Turn, Shutting, Place, Closing, Others, Still
    <2>4. PICK A, A2, P, P2 : /\ A = Ahead(x, j) /\ A2 = Ahead(x, j)'
                              /\ P = Passed(x, j) /\ P2 = Passed(x, j)'
      OBVIOUS
    <2>5. /\ A \in SUBSET Threads /\ A2 \in SUBSET Threads /\ P \in SUBSET Threads /\ P2 \in SUBSET Threads
          /\ j \in Int
          /\ t \in A <=> (x = s /\ k <= j)
          /\ t \in A2 <=> (x = s /\ k + 1 <= j)
          /\ t \in P <=> (x = s /\ k > j)
          /\ t \in P2 <=> (x = s /\ k + 1 > j)
      BY <1>1, <1>2, <1>3, <1>12, <1>16, <2>4 DEF Ahead, Passed, Models
    <2>6. /\ A2 \subseteq A /\ P \subseteq P2
          /\ x = s /\ j = k => t \in A /\ t \notin A2 /\ t \notin P /\ t \in P2
      BY <1>4, <2>3, <2>4, <2>5
    <2>7. /\ IsFiniteSet(A) /\ IsFiniteSet(P2) /\ Cardinality(A) \in Nat /\ Cardinality(A2) \in Nat
          /\ Cardinality(P) \in Nat /\ Cardinality(P2) \in Nat /\ Cardinality(Threads) \in Nat
          /\ Cardinality(A2) <= Cardinality(A) /\ Cardinality(P) <= Cardinality(P2)
      BY <2>5, <2>6, ThreadSets
    <2>8. CASE x = s /\ j = k
      <3>1. /\ Cardinality(A \ {t}) = Cardinality(A) - 1 /\ A2 \subseteq A \ {t}
            /\ Cardinality(P2 \ {t}) = Cardinality(P2) - 1 /\ P \subseteq P2 \ {t}
        BY <2>6, <2>7, <2>8, FS_RemoveElement
      <3>2. Cardinality(A2) <= Cardinality(A \ {t}) /\ Cardinality(P) <= Cardinality(P2 \ {t})
        BY <2>5, <3>1, ThreadSets
      <3>3. sessions'[x].released[j] = sessions[x].released[j] + 1
        BY <1>8, <2>8
      <3> QED
        BY <2>2, <2>4, <2>7, <3>1, <3>2, <3>3
    <2>9. CASE ~ (x = s /\ j = k)
      <3>1. sessions'[x].released[j] = sessions[x].released[j]
        BY <1>8, <2>9
      <3> QED
        BY <2>2, <2>4, <2>7, <3>1
    <2> QED
      BY <2>8, <2>9
  <1>23. ReleasedTwice => ReleasedTwice'
    <2>1. SUFFICES ASSUME ReleasedTwice PROVE ReleasedTwice'
      OBVIOUS
    <2>2. PICK x \in Sids : \E j \in Models(x) : sessions[x].released[j] > 1
      BY <2>1 DEF ReleasedTwice
    <2>3. PICK j \in Models(x) : sessions[x].released[j] > 1
      BY <2>2
    <2>4. sessions'[x].released[j] > 1
      BY <1>8, <2>3
    <2> QED
      BY <1>7, <2>4 DEF ReleasedTwice
  <1>24. sessions[s].released[k] # 0 => ReleasedTwice'
    <2>1. SUFFICES ASSUME sessions[s].released[k] # 0 PROVE ReleasedTwice'
      OBVIOUS
    <2>2. sessions'[s].released[k] > 1
      BY <1>4, <1>5, <1>6, <2>1
    <2> QED
      BY <1>4, <1>7, <2>2 DEF ReleasedTwice
  <1>25. FlagInv'
    <2>1. ReleasedTwice' \/ (Shutting(t)' =>
            \A j \in Models(on[t])' : j < at'[t] => sessions'[on'[t]].released[j] >= 1)
      <3>1. ASSUME NEW j \in Models(s), j < k + 1, ~ ReleasedTwice
            PROVE  sessions'[s].released[j] >= 1
        <4>1. j < k \/ j = k
          BY <1>4, <3>1 DEF Models
        <4>2. CASE j = k
          <5>1. sessions'[s].released[k] = sessions[s].released[k] + 1
            BY <1>4, <1>8
          <5> QED
            BY <1>5, <4>2, <5>1
        <4>3. CASE j < k
          <5>1. sessions[s].released[j] >= 1
            BY <1>1, <1>2, <1>3, <3>1, <4>3 DEF FlagInv
          <5>2. j # k
            BY <1>4, <4>3
          <5>3. sessions'[s].released[j] = sessions[s].released[j]
            BY <1>4, <1>8, <5>2
          <5> QED
            BY <5>1, <5>3
        <4> QED
          BY <4>1, <4>2, <4>3
      <3>2. on'[t] = s /\ Models(on[t])' = Models(s)
        BY <1>1, <1>2, <1>4, <1>7 DEF Models
      <3> QED
        BY <1>12, <1>23, <3>1, <3>2
    <2>2. \A x \in Sids : \A j \in Models(x) :
            sessions[x].released[j] >= 1 => sessions'[x].released[j] >= 1
      BY <1>8
    <2> QED
      BY <1>1, <1>7, <1>11, <1>23, <2>1, <2>2, FlagsStay
  <1>26. RefsInv'
    <2>1. ThreadRefs' = ThreadRefs /\ t \notin ThreadRefs'
      BY <1>1, <1>11 DEF ThreadRefs, Others, Still
    <2>2. ClientRefs' = ClientRefs \ {<<s, k>>}
      <3>1. ASSUME NEW x \in Sids, NEW j \in Models(x)
            PROVE  (sessions'[x].loopOf[j] # 0 /\ sessions'[x].released[j] = 0)
                     <=> (sessions[x].loopOf[j] # 0 /\ sessions[x].released[j] = 0 /\ <<x, j>> # <<s, k>>)
        BY <1>7, <1>8
      <3>2. \A r : r \in ClientRefs' <=>
               \E x \in Sids : \E j \in Models(x) :
                  r = <<x, j>> /\ sessions'[x].loopOf[j] # 0 /\ sessions'[x].released[j] = 0
        BY <1>7, ClientRefIs
      <3>3. \A r : r \in ClientRefs <=>
               \E x \in Sids : \E j \in Models(x) :
                  r = <<x, j>> /\ sessions[x].loopOf[j] # 0 /\ sessions[x].released[j] = 0
        BY ClientRefIs
      <3>4. \A r : r \in ClientRefs' <=> r \in ClientRefs \ {<<s, k>>}
        BY <3>1, <3>2, <3>3
      <3> QED
        BY <3>4
    <2>3. sessions[s].released[k] = 0 => <<s, k>> \in ClientRefs
      BY <1>4, <1>5, ClientRefIs
    <2>4. ReleasedTwice' \/ OneLess(ClientRefs, ThreadRefs)
      BY <1>24, <2>1, <2>2, <2>3 DEF OneLess
    <2>5. IsFiniteSet(ClientRefs')
      BY <1>1, <2>2, FS_RemoveElement DEF RefsInv
    <2>6. \A r \in ClientRefs' : sessions'[r[1]].loopOf[r[2]] = sessions[r[1]].loopOf[r[2]]
      <3>1. \A r \in ClientRefs : r[1] \in Sids
        BY ClientRefIs
      <3> QED
        BY <1>7, <2>2, <3>1
    <2> QED
      BY <1>1, <1>23, <2>1, <2>4, <2>5, <2>6, RefDropped
  <1>27. StepTypes(t)
    <2>1. ASSUME NEW x \in Sids'
          PROVE  /\ sessions'[x].loopOf \in [Models(x)' -> 0 .. Len(loops')]
                 /\ sessions'[x].released \in [Models(x)' -> Nat]
      <3>1. x \in Sids /\ Models(x)' = Models(x) /\ sessions'[x].loopOf = sessions[x].loopOf
        BY <1>7
      <3>2. sessions'[x].loopOf \in [Models(x)' -> 0 .. Len(loops')]
        BY <1>1, <1>11, <3>1, ClientTypes
      <3>3. \A j \in Models(x) : sessions'[x].released[j] \in Nat
        BY <1>8, <3>1
      <3>4. CASE x = s
        <4>1. sessions'[s].released \in Fns
          <5>1. sessions'[s] \in Record
            BY <1>4, <1>7 DEF Sids
          <5> QED
            BY <5>1 DEF Record
        <4>2. sessions'[s].released = [j \in Models(s) |-> sessions'[s].released[j]]
          BY <1>6, <4>1 DEF Fns
        <4>3. sessions'[s].released \in [Models(s) -> Nat]
          BY <3>3, <3>4, <4>2
        <4> QED
          BY <3>1, <3>2, <3>4, <4>3
      <3>5. CASE x # s
        BY <1>1, <1>7, <3>1, <3>2, <3>5, ClientTypes, ThreadSets
      <3> QED
        BY <3>4, <3>5
    <2>2. on'[t] # 0 => at'[t] <= Clients[sessions'[on'[t]].app] + 1
      <3>1. k <= Clients[sessions[s].app]
        BY <1>4 DEF Models
      <3> QED
        BY <1>1, <1>2, <1>4, <1>6, <1>12, <3>1
    <2>3. DataInv' /\ ThreadTypes'
      BY <1>1, <1>7, <1>11, <1>12 DEF DataInv, ThreadTypes, TypeOK
    <2> QED
      BY <1>1, <1>7, <1>11, <2>1, <2>2, <2>3 DEF StepTypes, TypeOK
  <1> QED
    BY <1>13, <1>14, <1>15, <1>20, <1>21, <1>22, <1>25, <1>26, <1>27, Assembled

----------------------------------------------------------------------------
(***************************************************************************)
(* The theorems                                                            *)
(***************************************************************************)
\* A step that changes nothing keeps the invariant.
LEMMA StutterInv == ASSUME IInv, UNCHANGED vars PROVE IInv'
  <1>1. /\ TypeOK /\ DataInv /\ PlaceInv /\ OwnerInv /\ LoopInv /\ TurnInv /\ RefsInv /\ FlagInv
        /\ sessions' = sessions /\ lock' = lock /\ live' = live /\ loop' = loop /\ count' = count
        /\ loops' = loops /\ pc' = pc /\ handle' = handle /\ on' = on /\ at' = at /\ mine' = mine
        /\ after' = after /\ then' = then /\ queries' = queries
    BY DEF IInv, vars, managerVars, loopVars, threadVars
  <1>2. Sids' = Sids /\ \A s \in Sids : Models(s)' = Models(s)
    BY <1>1 DEF Sids, Models
  <1>3. TypeOK' /\ DataInv'
    <2>1. \A s \in Sids : SessionType(s)'
      BY <1>1 DEF TypeOK, SessionType, Models
    <2> QED
      BY <1>1, <1>2, <2>1 DEF TypeOK, DataInv
  <1>4. PlaceInv'
    BY <1>1 DEF PlaceInv, PlaceOK, Place, Closing, Building, Shutting, Removing, BuildingOK, RemovingOK,
                Complete, Models
  <1>5. OwnerInv' /\ LoopInv'
    BY <1>1 DEF OwnerInv, LoopInv, Complete, Models, Sids, Closing
  <1>6. TurnInv'
    <2>1. ASSUME NEW s, NEW k PROVE Ahead(s, k)' = Ahead(s, k) /\ Passed(s, k)' = Passed(s, k)
      BY <1>1 DEF Ahead, Passed, Turn, Shutting, Place, Closing
    <2> QED
      BY <1>1, <1>2, <2>1 DEF TurnInv
  <1>7. ReleasedTwice' <=> ReleasedTwice
    BY <1>1, SameSessions, QuietFacts
  <1>8. ClientRefs' = ClientRefs /\ ThreadRefs' = ThreadRefs
    BY <1>1, SameSessions, QuietFacts DEF ThreadRefs
  <1>9. RefsInv' /\ FlagInv'
    BY <1>1, <1>7, <1>8 DEF RefsInv, FlagInv, Models, Sids, Shutting, Place, Closing
  <1> QED
    BY <1>3, <1>4, <1>5, <1>6, <1>9 DEF IInv

\* Every step keeps the invariant.
LEMMA NextInv == ASSUME IInv, [Next]_vars PROVE IInv'
  <1>1. CASE UNCHANGED vars
    BY <1>1, StutterInv
  <1>2. ASSUME NEW t \in Threads, NEW a \in Apps, GetExisting(t, a) \/ Create(t, a)
        PROVE  IInv'
    BY <1>2, GetExistingStep, CreateStep
  <1>3. ASSUME NEW t \in Threads, Query(t) \/ Stop(t)
        PROVE  IInv'
    BY <1>3, QueryStep, StopStep
  <1>4. ASSUME NEW l \in DOMAIN loops, LoopCloses(l)
        PROVE  IInv'
    BY <1>4, LoopClosesStep
  <1>5. ASSUME NEW t \in Threads, Step(t)
        PROVE  IInv'
    <2>1. CASE \/ Halt(t) \/ Join(t)
               \/ BuildClient(t) \/ Validate(t) \/ ValidateEnds(t) \/ BuildFails(t) \/ Store(t)
      BY <2>1, HaltStep, JoinStep, BuildClientStep, ValidateStep, ValidateEndsStep, BuildFailsStep,
         StoreStep
    <2>2. CASE \/ EnterLoop(t) \/ LeaveLoop(t)
               \/ CancelRequests(t) \/ ShutdownRaises(t) \/ ReleaseClient(t) \/ AllShutdown(t) \/ Hang(t)
      BY <2>2, EnterLoopStep, LeaveLoopStep, CancelRequestsStep, ShutdownRaisesStep,
         ReleaseClientStep, AllShutdownStep, HangStep
    <2>3. CASE CloseCache(t) \/ Redundant(t) \/ Remove(t) \/ Delete(t)
      BY <2>3, CloseCacheStep, RedundantStep, RemoveStep, DeleteStep
    <2> QED
      BY <1>5, <2>1, <2>2, <2>3 DEF Step
  <1> QED
    BY <1>1, <1>2, <1>3, <1>4, <1>5 DEF Next

\* The inductive invariant of the sessions is one: get_or_create_session_state, queries, stop
\* and remove_session keep it, whichever of their calls fail and however the threads interleave.
THEOREM Invariance == Spec => []IInv
  BY InitInv, NextInv, PTL DEF Spec

\* Sessions, loops and threads have their types, and no client gives its reference back more
\* often than there are threads (ModelClient.shutdown, from stop and remove_session).
THEOREM TypeCorrect == Spec => []TypeOK
  <1>1. IInv => TypeOK
    BY DEF IInv
  <1> QED
    BY <1>1, Invariance, PTL

\* No loop is forgotten by release_loop and _shutdown_loop, and as long as no client was released
\* twice _client_count is the number of the references and a loop runs while there is one.
THEOREM LoopsShared == Spec => []SharedLoop
  <1>1. ASSUME IInv PROVE SharedLoop
    <2>1. TypeOK /\ PlaceInv /\ LoopInv /\ RefsInv
      BY <1>1 DEF IInv
    <2>2. ASSUME NEW l \in DOMAIN loops, l # loop
          PROVE  LET closers == {t \in Threads : pc[t] \in {"halt", "join"} /\ mine[t] = l}
                 IN  \/ loops[l] = "running"  /\ \E t \in closers : closers = {t} /\ pc[t] = "halt"
                     \/ loops[l] = "stopping" /\ \E t \in closers : closers = {t} /\ pc[t] = "join"
                     \/ loops[l] = "closed"   /\ Cardinality(closers) <= 1
      <3> DEFINE closers == {t \in Threads : pc[t] \in {"halt", "join"} /\ mine[t] = l}
      <3>1. \A t, u \in closers : t = u
        BY <2>1 DEF LoopInv, Closing
      <3>2. \A t \in closers : closers = {t}
        BY <3>1
      <3>3. Cardinality(closers) <= 1
        <4>1. CASE closers = {}
          BY <4>1, FS_EmptySet
        <4>2. CASE closers # {}
          <5>1. PICK t : t \in closers
            BY <4>2
          <5>2. closers = {t}
            BY <3>2, <5>1
          <5>3. Cardinality({t}) = 1
            BY FS_Singleton
          <5> QED
            BY <5>2, <5>3
        <4> QED
          BY <4>1, <4>2
      <3>4. \/ loops[l] = "running" /\ \E t \in Threads : pc[t] = "halt" /\ mine[t] = l
            \/ loops[l] = "stopping" /\ \E t \in Threads : pc[t] = "join" /\ mine[t] = l
            \/ loops[l] = "closed"
        BY <2>1, <2>2 DEF LoopInv
      <3>5. CASE loops[l] = "running" /\ \E t \in Threads : pc[t] = "halt" /\ mine[t] = l
        BY <3>2, <3>5
      <3>6. CASE loops[l] = "stopping" /\ \E t \in Threads : pc[t] = "join" /\ mine[t] = l
        BY <3>2, <3>6
      <3> QED
        BY <3>3, <3>4, <3>5, <3>6
    <2>3. loop # 0 => loops[loop] = "running"
      BY <2>1 DEF LoopInv
    <2>4. ReleasedTwice \/
            /\ count = Cardinality(ClientRefs) + Cardinality(ThreadRefs)
            /\ (loop # 0) <=> (count > 0)
            /\ \A r \in ClientRefs : sessions[r[1]].loopOf[r[2]] = loop
            /\ \A t \in ThreadRefs : mine[t] = loop
      BY <2>1 DEF RefsInv
    <2> QED
      BY <2>2, <2>3, <2>4 DEF SharedLoop
  <1> QED
    BY <1>1, Invariance, PTL

\* Every open database is that of its app's live session or of the construction under the lock,
\* a live session is connected unless it is being removed under the lock, and LocalSessionState.stop
\* closes a cache only after every client gave up its requests, unless one was released twice.
THEOREM OwnersKnown == Spec => []ConnectionsOwned
  <1>1. ASSUME IInv PROVE ConnectionsOwned
    <2>1. TypeOK /\ DataInv /\ OwnerInv /\ FlagInv
      BY <1>1 DEF IInv
    <2>2. \A s \in Sids : sessions[s].connected =>
            \/ live[sessions[s].app] = s
            \/ /\ lock # None /\ on[lock] = s
               /\ live[sessions[s].app] = 0
      BY <2>1 DEF OwnerInv
    <2>3. \A a \in Apps : live[a] # 0 =>
            \/ sessions[live[a]].connected
            \/ lock # None /\ live[a] = Victim(lock)
      BY <2>1 DEF OwnerInv, Victim
    <2>4. ASSUME NEW s \in Sids, ~ sessions[s].caching, ~ ReleasedTwice, NEW k \in Models(s)
          PROVE  sessions[s].released[k] = 1
      <3>1. sessions[s].models_shutdown
        BY <2>1, <2>4 DEF OwnerInv
      <3>2. sessions[s].released[k] >= 1
        BY <2>1, <2>4, <3>1 DEF FlagInv
      <3>3. ~ (sessions[s].released[k] > 1) /\ sessions[s].released[k] \in Nat
        BY <2>1, <2>4, ClientTypes DEF ReleasedTwice
      <3> QED
        BY <3>2, <3>3
    <2> QED
      BY <2>2, <2>3, <2>4 DEF ConnectionsOwned
  <1> QED
    BY <1>1, Invariance, PTL
=============================================================================
