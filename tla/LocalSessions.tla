----------------------------- MODULE LocalSessions -----------------------------
(***************************************************************************)
(* The life of local sessions: LocalSessionManager (manager.py),            *)
(* LocalSessionState (session_state.py), the clients of its                 *)
(* SessionModelRegistry (model_registry.py) and the EventLoopManager        *)
(* (async_utils.py) whose one loop all clients and queries share.           *)
(*                                                                         *)
(* Threads get, use and stop sessions.  A session that is got for an app    *)
(* that has one is the same object, so two threads can hold it, and a       *)
(* thread can keep a session that was stopped.  _manager_lock is held for   *)
(* one step at a time; _sessions_lock is held over whole constructions and  *)
(* removals.  A client is only its reference to the loop: ModelClient.tla   *)
(* has the rest.                                                            *)
(***************************************************************************)
EXTENDS Integers, FiniteSets, Sequences

CONSTANTS
    Threads,
    Apps,
    Clients,        \* the number of models each app configures
    None,
    MaxSessions,    \* bound on the sessions constructed
    MaxQueries      \* bound on the queries that use the loop

ASSUME SessionsAssumption ==
    /\ IsFiniteSet(Threads) /\ None \notin Threads
    /\ Clients \in [Apps -> Nat]
    /\ MaxSessions \in Nat /\ MaxQueries \in Nat

VARIABLES
    live,       \* _live_session_states: the session of each app, 0 if it has none
    lock,       \* the thread that holds _sessions_lock
    sessions,   \* the LocalSessionState objects, in the order of their construction
    loops,      \* the event loops created: "running", "stopping" or "closed"
    loop,       \* EventLoopManager.loop, 0 for None
    count,      \* _client_count
    pc,         \* where each thread is
    handle,     \* the session each thread was given last
    on,         \* the session whose models it constructs or shuts down
    at,         \* the model it is at
    mine,       \* the loop it uses outside a client, or shuts down
    after,      \* where it goes on once that loop is closed
    then,       \* where it goes on once the models are shut down
    queries

managerVars == <<live, lock, sessions>>
loopVars == <<loops, loop, count>>
threadVars == <<pc, handle, on, at, mine, after, then, queries>>
vars == <<managerVars, loopVars, threadVars>>

Sids == 1 .. Len(sessions)
Models(s) == 1 .. Clients[sessions[s].app]

Init ==
    /\ live = [a \in Apps |-> 0]
    /\ lock = None
    /\ sessions = <<>>
    /\ loops = <<>>
    /\ loop = 0
    /\ count = 0
    /\ pc = [t \in Threads |-> "idle"]
    /\ handle = [t \in Threads |-> 0]
    /\ on = [t \in Threads |-> 0]
    /\ at = [t \in Threads |-> 1]
    /\ mine = [t \in Threads |-> 0]
    /\ after = [t \in Threads |-> "idle"]
    /\ then = [t \in Threads |-> "idle"]
    /\ queries = 0

Goto(t, place) == pc' = [pc EXCEPT ![t] = place]

----------------------------------------------------------------------------
(* EventLoopManager. *)

\* get_or_create_loop: the loop a caller is given, a new one if there is none.
Given == IF loop = 0 \/ loops[loop] = "closed" THEN Len(loops) + 1 ELSE loop

TakeLoop ==
    /\ loop' = Given
    /\ loops' = IF Given > Len(loops) THEN Append(loops, "running") ELSE loops
    /\ count' = count + 1

\* Mutant: a loop with one client left is closed.
IsLast_OneLeft == count - 1 <= 1 /\ loop # 0 /\ loops[loop] = "running"

\* release_loop: was this the last reference to a loop that runs?
IsLast == count - 1 <= 0 /\ loop # 0 /\ loops[loop] = "running"

\* The thread that drops the last reference takes the loop from the manager and
\* closes it outside the lock; then, or at once, it goes on at place.
DropLoop(t, place) ==
    /\ count' = IF IsLast THEN 0 ELSE count - 1
    /\ loop' = IF IsLast THEN 0 ELSE loop
    /\ mine' = [mine EXCEPT ![t] = IF IsLast THEN loop ELSE 0]
    /\ after' = [after EXCEPT ![t] = IF IsLast THEN place ELSE "idle"]
    /\ Goto(t, IF IsLast THEN "halt" ELSE place)
    /\ UNCHANGED loops

\* _shutdown_loop: cancel what runs on the loop and ask it to stop, ...
Halt(t) ==
    /\ pc[t] = "halt"
    /\ loops' = [loops EXCEPT ![mine[t]] = "stopping"]
    /\ Goto(t, "join")
    /\ UNCHANGED <<managerVars, loop, count, handle, on, at, mine, after, then, queries>>

\* ... which its thread does after the current round of callbacks; ...
LoopCloses(l) ==
    /\ loops[l] = "stopping"
    /\ loops' = [loops EXCEPT ![l] = "closed"]
    /\ UNCHANGED <<managerVars, loop, count, threadVars>>

\* ... and join that thread.
Join(t) ==
    /\ pc[t] = "join"
    /\ loops[mine[t]] = "closed"
    /\ Goto(t, after[t])
    /\ mine' = [mine EXCEPT ![t] = 0]
    /\ after' = [after EXCEPT ![t] = "idle"]
    /\ UNCHANGED <<managerVars, loopVars, handle, on, at, then, queries>>

----------------------------------------------------------------------------
(* LocalSessionManager.get_or_create_session_state, under the lock. *)

GetExisting(t, a) ==
    /\ pc[t] = "idle"
    /\ lock = None
    /\ live[a] # 0
    /\ handle' = [handle EXCEPT ![t] = live[a]]
    /\ UNCHANGED <<managerVars, loopVars, pc, on, at, mine, after, then, queries>>

NewSession(a) ==
    [app |-> a,
     connected |-> TRUE,                                \* duckdb_conn and the temporary database
     caching |-> TRUE,                                  \* _llm_cache
     models_shutdown |-> FALSE,                         \* _models_shutdown
     loopOf |-> [k \in 1 .. Clients[a] |-> 0],          \* _event_loop of each client
     released |-> [k \in 1 .. Clients[a] |-> 0]]        \* how often the client gave it back

\* A new session opens its database and its cache; then come its models.
Create(t, a) ==
    /\ pc[t] = "idle"
    /\ lock = None
    /\ live[a] = 0
    /\ Len(sessions) < MaxSessions
    /\ lock' = t
    /\ sessions' = Append(sessions, NewSession(a))
    /\ on' = [on EXCEPT ![t] = Len(sessions) + 1]
    /\ at' = [at EXCEPT ![t] = 1]
    /\ Goto(t, "build")
    /\ UNCHANGED <<live, loopVars, handle, mine, after, then, queries>>

BuildClient(t) ==
    /\ pc[t] = "build"
    /\ at[t] \in Models(on[t])
    /\ TakeLoop
    /\ sessions' = [sessions EXCEPT ![on[t]].loopOf[at[t]] = Given]
    /\ at' = [at EXCEPT ![t] = @ + 1]
    /\ UNCHANGED <<live, lock, pc, handle, on, mine, after, then, queries>>

\* The keys of the providers are checked on the loop.
Validate(t) ==
    /\ pc[t] = "build"
    /\ at[t] = Clients[sessions[on[t]].app] + 1
    /\ TakeLoop
    /\ mine' = [mine EXCEPT ![t] = Given]
    /\ Goto(t, "validate")
    /\ UNCHANGED <<managerVars, handle, on, at, after, then, queries>>

ValidateEnds(t) ==
    /\ pc[t] = "validate"
    /\ \E outcome \in {"store", "fail"} : DropLoop(t, outcome)
    /\ UNCHANGED <<managerVars, handle, on, at, then, queries>>

\* Mutant: the lock is kept when the constructor raises.
BuildFails_KeepsLock(t) ==
    /\ pc[t] \in {"build", "fail"}
    /\ sessions' = [sessions EXCEPT ![on[t]].connected = FALSE]
    /\ on' = [on EXCEPT ![t] = 0]
    /\ Goto(t, "idle")
    /\ at' = [at EXCEPT ![t] = 1]
    /\ UNCHANGED <<live, lock, loopVars, handle, mine, after, then, queries>>

\* A model that cannot be constructed, a key that is refused or a database that
\* cannot be opened: the lock is given up and nothing is stored.  The clients that
\* were constructed keep their references to the loop.
BuildFails(t) ==
    /\ pc[t] \in {"build", "fail"}
    /\ sessions' = [sessions EXCEPT ![on[t]].connected = FALSE]
    /\ lock' = None
    /\ on' = [on EXCEPT ![t] = 0]
    /\ Goto(t, "idle")
    /\ at' = [at EXCEPT ![t] = 1]
    /\ UNCHANGED <<live, loopVars, handle, mine, after, then, queries>>

\* Keys are not checked when there is no provider with the default base URL.
Store(t) ==
    /\ pc[t] \in {"build", "store"}
    /\ at[t] = Clients[sessions[on[t]].app] + 1
    /\ live' = [live EXCEPT ![sessions[on[t]].app] = on[t]]
    /\ lock' = None
    /\ handle' = [handle EXCEPT ![t] = on[t]]
    /\ on' = [on EXCEPT ![t] = 0]
    /\ Goto(t, "idle")
    /\ at' = [at EXCEPT ![t] = 1]
    /\ UNCHANGED <<sessions, loopVars, mine, after, then, queries>>

----------------------------------------------------------------------------
(* A query with an asynchronous function: _check_active, then loop_context. *)

Active(s) == live[sessions[s].app] = s

Query(t) ==
    /\ pc[t] = "idle"
    /\ handle[t] # 0
    /\ lock = None
    /\ Active(handle[t])
    /\ queries < MaxQueries
    /\ queries' = queries + 1
    /\ Goto(t, "query")
    /\ UNCHANGED <<managerVars, loopVars, handle, on, at, mine, after, then>>

EnterLoop(t) ==
    /\ pc[t] = "query"
    /\ TakeLoop
    /\ mine' = [mine EXCEPT ![t] = Given]
    /\ Goto(t, "inside")
    /\ UNCHANGED <<managerVars, handle, on, at, after, then, queries>>

LeaveLoop(t) ==
    /\ pc[t] = "inside"
    /\ DropLoop(t, "idle")
    /\ UNCHANGED <<managerVars, handle, on, at, then, queries>>

----------------------------------------------------------------------------
(* shutdown_models, from stop and from remove_session. *)

\* Read _models_shutdown; go on at place if the models are shut down.
ShutdownModels(t, s, place) ==
    /\ on' = [on EXCEPT ![t] = s]
    /\ at' = [at EXCEPT ![t] = 1]
    /\ then' = [then EXCEPT ![t] = IF sessions[s].models_shutdown THEN "idle" ELSE place]
    /\ Goto(t, IF sessions[s].models_shutdown THEN place ELSE "client")

ClientLoop(t) == loops[sessions[on[t]].loopOf[at[t]]]

\* ModelClient.shutdown cancels its requests on the loop and waits for that; ...
CancelRequests(t) ==
    /\ pc[t] = "client"
    /\ at[t] \in Models(on[t])
    /\ ClientLoop(t) = "running"
    /\ Goto(t, "release")
    /\ UNCHANGED <<managerVars, loopVars, handle, on, at, mine, after, then, queries>>

\* ... on a loop that another thread closes it raises, and the registry goes on with
\* the next client.
ShutdownRaises(t) ==
    /\ pc[t] = "client"
    /\ at[t] \in Models(on[t])
    /\ ClientLoop(t) \in {"stopping", "closed"}
    /\ at' = [at EXCEPT ![t] = @ + 1]
    /\ UNCHANGED <<managerVars, loopVars, pc, handle, on, mine, after, then, queries>>

ReleaseClient(t) ==
    /\ pc[t] = "release"
    /\ sessions' = [sessions EXCEPT ![on[t]].released[at[t]] = @ + 1]
    /\ at' = [at EXCEPT ![t] = @ + 1]
    /\ DropLoop(t, "client")
    /\ UNCHANGED <<live, lock, handle, on, then, queries>>

\* Mutant: _models_shutdown is not set.
AllShutdown_NoFlag(t) ==
    /\ pc[t] = "client"
    /\ at[t] \notin Models(on[t])
    /\ Goto(t, then[t])
    /\ at' = [at EXCEPT ![t] = 1]
    /\ then' = [then EXCEPT ![t] = "idle"]
    /\ UNCHANGED <<managerVars, loopVars, handle, on, mine, after, queries>>

AllShutdown(t) ==
    /\ pc[t] = "client"
    /\ at[t] \notin Models(on[t])
    /\ sessions' = [sessions EXCEPT ![on[t]].models_shutdown = TRUE]
    /\ Goto(t, then[t])
    /\ at' = [at EXCEPT ![t] = 1]
    /\ then' = [then EXCEPT ![t] = "idle"]
    /\ UNCHANGED <<live, lock, loopVars, handle, on, mine, after, queries>>

\* What is submitted to a loop after its last round of callbacks is never run, and
\* the thread waits for it for ever.
Hang(t) ==
    /\ \/ /\ pc[t] = "client"
          /\ at[t] \in Models(on[t])
          /\ ClientLoop(t) = "stopping"
       \/ /\ pc[t] \in {"validate", "inside"}
          /\ loops[mine[t]] = "stopping"
    /\ Goto(t, "hung")
    /\ UNCHANGED <<managerVars, loopVars, handle, on, at, mine, after, then, queries>>

----------------------------------------------------------------------------
(* LocalSessionState.stop and LocalSessionManager.remove_session. *)

\* Mutant: the cache is closed first.
Stop_CacheFirst(t) ==
    /\ pc[t] = "idle"
    /\ handle[t] # 0
    /\ on' = [on EXCEPT ![t] = handle[t]]
    /\ Goto(t, "cache")
    /\ UNCHANGED <<managerVars, loopVars, handle, at, mine, after, then, queries>>

Stop(t) ==
    /\ pc[t] = "idle"
    /\ handle[t] # 0
    /\ ShutdownModels(t, handle[t], "cache")
    /\ UNCHANGED <<managerVars, loopVars, handle, mine, after, queries>>

CloseCache(t) ==
    /\ pc[t] = "cache"
    /\ sessions' = [sessions EXCEPT ![on[t]].caching = FALSE]
    /\ Goto(t, "remove")
    /\ UNCHANGED <<live, lock, loopVars, handle, on, at, mine, after, then, queries>>

\* The session to remove is the one the app has now.
Victim(t) == live[sessions[handle[t]].app]

Redundant(t) ==
    /\ pc[t] = "remove"
    /\ lock = None
    /\ Victim(t) = 0
    /\ on' = [on EXCEPT ![t] = 0]
    /\ Goto(t, "idle")
    /\ UNCHANGED <<managerVars, loopVars, handle, at, mine, after, then, queries>>

Remove(t) ==
    /\ pc[t] = "remove"
    /\ lock = None
    /\ Victim(t) # 0
    /\ lock' = t
    /\ sessions' = [sessions EXCEPT ![Victim(t)].connected = FALSE]
    /\ ShutdownModels(t, Victim(t), "delete")
    /\ UNCHANGED <<live, loopVars, handle, mine, after, queries>>

Delete(t) ==
    /\ pc[t] = "delete"
    /\ live' = [live EXCEPT ![sessions[handle[t]].app] = 0]
    /\ lock' = None
    /\ on' = [on EXCEPT ![t] = 0]
    /\ Goto(t, "idle")
    /\ UNCHANGED <<sessions, loopVars, handle, at, mine, after, then, queries>>

Step(t) ==
    \/ Halt(t) \/ Join(t)
    \/ BuildClient(t) \/ Validate(t) \/ ValidateEnds(t) \/ BuildFails(t) \/ Store(t)
    \/ EnterLoop(t) \/ LeaveLoop(t)
    \/ CancelRequests(t) \/ ShutdownRaises(t) \/ ReleaseClient(t) \/ AllShutdown(t) \/ Hang(t)
    \/ CloseCache(t) \/ Redundant(t) \/ Remove(t) \/ Delete(t)

Next ==
    \/ \E t \in Threads, a \in Apps : GetExisting(t, a) \/ Create(t, a)
    \/ \E t \in Threads : Query(t) \/ Stop(t) \/ Step(t)
    \/ \E l \in DOMAIN loops : LoopCloses(l)

Spec == Init /\ [][Next]_vars

\* A call that was made goes on, a loop that was asked to stop does, and a thread
\* gets a lock that is free again and again.
FairSpec ==
    /\ Spec
    /\ \A t \in Threads : WF_vars(Step(t)) /\ SF_vars(Redundant(t) \/ Remove(t))
    /\ WF_vars(\E l \in DOMAIN loops : LoopCloses(l))

----------------------------------------------------------------------------
(* Properties. *)

\* The references to a loop: those of clients not given back yet, and of the threads
\* that use the loop themselves.
ClientRefs ==
    {r \in UNION {{s} \X Models(s) : s \in Sids} :
        sessions[r[1]].loopOf[r[2]] # 0 /\ sessions[r[1]].released[r[2]] = 0}
ThreadRefs == {t \in Threads : pc[t] \in {"validate", "inside"}}

\* Two threads shut the models of one session down at the same time and a client gave
\* its reference back twice.
ReleasedTwice == \E s \in Sids : \E k \in Models(s) : sessions[s].released[k] > 1

Places ==
    {"idle", "build", "validate", "store", "fail", "query", "inside", "client", "release",
     "cache", "remove", "delete", "halt", "join", "hung"}

SessionType(s) ==
    /\ sessions[s].app \in Apps
    /\ sessions[s].connected \in BOOLEAN
    /\ sessions[s].caching \in BOOLEAN
    /\ sessions[s].models_shutdown \in BOOLEAN
    /\ sessions[s].loopOf \in [Models(s) -> 0 .. Len(loops)]
    /\ sessions[s].released \in [Models(s) -> 0 .. Cardinality(Threads)]

\* The type of the state.  A client gives its reference back once per thread at most,
\* which bounds how far _client_count can fall behind.
TypeOK ==
    /\ live \in [Apps -> 0 .. Len(sessions)]
    /\ lock \in Threads \cup {None}
    /\ Len(sessions) <= MaxSessions /\ \A s \in Sids : SessionType(s)
    /\ \A l \in DOMAIN loops : loops[l] \in {"running", "stopping", "closed"}
    /\ loop \in 0 .. Len(loops)
    /\ count \in Int
    /\ pc \in [Threads -> Places]
    /\ handle \in [Threads -> 0 .. Len(sessions)]
    /\ on \in [Threads -> 0 .. Len(sessions)]
    /\ \A t \in Threads : on[t] # 0 => at[t] \in 1 .. Clients[sessions[on[t]].app] + 1
    /\ mine \in [Threads -> 0 .. Len(loops)]
    /\ after \in [Threads -> Places]
    /\ then \in [Threads -> {"idle", "cache", "delete"}]
    /\ queries \in 0 .. MaxQueries

\* However the sessions are used, no loop is forgotten: one that is not the manager's is
\* closed, or one thread is closing it (release_loop hands it over under the lock and
\* _shutdown_loop runs outside it).  And while no client gave its reference back twice,
\* _client_count is the number of references and there is a loop if and only if there is
\* a reference: every client and every query finds the manager's loop running, and the last
\* one to leave takes it down, on the failure paths of a construction too.
SharedLoop ==
    /\ \A l \in DOMAIN loops : l # loop =>
          LET closers == {t \in Threads : pc[t] \in {"halt", "join"} /\ mine[t] = l}
          IN  \/ loops[l] = "running"  /\ \E t \in closers : closers = {t} /\ pc[t] = "halt"
              \/ loops[l] = "stopping" /\ \E t \in closers : closers = {t} /\ pc[t] = "join"
              \/ loops[l] = "closed"   /\ Cardinality(closers) <= 1
    /\ ReleasedTwice \/
          /\ count = Cardinality(ClientRefs) + Cardinality(ThreadRefs)
          /\ (loop # 0) <=> (count > 0)
          /\ loop # 0 => loops[loop] = "running"
          /\ \A r \in ClientRefs : sessions[r[1]].loopOf[r[2]] = loop
          /\ \A t \in ThreadRefs : mine[t] = loop

\* An open database is that of the app's live session, or the thread with the lock is
\* constructing the session: no two sessions have the files of one app open, though
\* TempDFDBClient deletes them when it opens.  A live session is connected unless the
\* thread with the lock is removing it.  And its cache is closed after every client has
\* given up its requests, so no response is lost to a closed cache ("CRITICAL" in stop),
\* also when several threads stop.
ConnectionsOwned ==
    /\ \A s \in Sids : sessions[s].connected =>
          \/ live[sessions[s].app] = s
          \/ /\ lock # None /\ on[lock] = s
             /\ live[sessions[s].app] = 0
    /\ \A a \in Apps : live[a] # 0 =>
          \/ sessions[live[a]].connected
          \/ lock # None /\ live[a] = Victim(lock)
    /\ \A s \in Sids : ~ sessions[s].caching =>
          \/ ReleasedTwice
          \/ \A k \in Models(s) : sessions[s].released[k] = 1

\* A thread that waits for ever on a loop closed under it does so because two threads
\* shut the models of one session down: the other one gave the client's reference back,
\* or some client's was given back twice.
HungByDoubleShutdown(t) ==
    /\ pc[t] = "hung"
    /\ \/ ReleasedTwice
       \/ /\ on[t] # 0
          /\ at[t] \in Models(on[t])
          /\ sessions[on[t]].released[at[t]] = 1

\* Every construction, query, stop and removal ends, also those that wait for the lock
\* while models are shut down under it, except for a thread hung by a double shutdown
\* and those that wait for the lock of such a thread.
CallsEnd ==
    \A t \in Threads : pc[t] # "idle" ~>
        \/ pc[t] = "idle"
        \/ HungByDoubleShutdown(t)
        \/ lock # None /\ HungByDoubleShutdown(lock)
=============================================================================
