----------------------------- MODULE ModelClient -----------------------------
(***************************************************************************)
(* ModelClient (_inference/model_client.py): user threads submit batches of *)
(* requests to a language model, one worker coroutine on the shared asyncio *)
(* event loop dispatches them under a rate limit, and one task per request  *)
(* makes the call, retries it or answers the future its thread waits on.    *)
(*                                                                         *)
(* Actions are grouped by who runs them: the user threads, the worker, the  *)
(* request tasks, and the thread that calls shutdown.  Actions of the event *)
(* loop need the loop to run.                                               *)
(***************************************************************************)
EXTENDS Integers, Sequences, FiniteSets

CONSTANTS
    Threads,        \* user threads
    Keys,           \* request keys: requests with one key are duplicates
    None,           \* an empty request
    Batches,        \* the batches a thread may ask for
    MaxCalls,       \* bound on the batches one thread asks for
    MaxLen,         \* bound on the length of a batch
    QueueSize,      \* queue_size, 100 in the code
    MaxBackoffs,    \* max_backoffs, 10 in the code
    TooLarge,       \* keys whose estimate exceeds the model's capacity
    UseCache,       \* is there a response cache
    AllowShutdown   \* may shutdown be called

ASSUME ModelClientAssumption ==
    /\ None \notin Keys
    /\ MaxCalls \in Nat /\ MaxLen \in Nat
    /\ QueueSize \in Nat \ {0}
    /\ MaxBackoffs \in Nat
    /\ Batches \subseteq Seq(Keys \cup {None})
    /\ \A b \in Batches : Len(b) <= MaxLen
    /\ TooLarge \subseteq Keys
    /\ UseCache \in BOOLEAN
    /\ AllowShutdown \in BOOLEAN

\* A request: the pos-th of the call-th batch of its thread.
Item == [thread : Threads, call : 1..MaxCalls, pos : 1..MaxLen]

\* What a future holds, with the request it came from; also a registered exception.
Open        == [kind |-> "open"]
Null        == [kind |-> "null"]
Response(i) == [kind |-> "response", item |-> i]
Error(i)    == [kind |-> "error", item |-> i]
Answer      == {Open, Null} \cup {Response(i) : i \in Item} \cup {Error(i) : i \in Item}

VARIABLES
    \* User threads
    phase,          \* where _submit_batch_requests or _collect_batch_responses is
    asked,          \* the batches the thread asked for so far, the last one running
    pos,            \* the request the thread is at
    snapshot,       \* cached_responses of the running batch
    verdict,        \* how each call of make_batch_requests ended
    \* Shared between the threads and the event loop
    answer,         \* the future of each request
    copies,         \* duplicates whose future copies that of another request
    cache,          \* the response cache
    threadExc,      \* thread_exceptions
    requestQ,       \* request_queue
    retryQ,         \* retry_queue
    \* The worker
    worker,         \* where _process_queue is
    fetched,        \* what the two get tasks of _get_queued_requests obtained
    pending,        \* pending_requests
    work,           \* the list the for loop iterates over
    scan,           \* the index of the for loop
    processed,      \* processed_requests
    numBackoffs,    \* num_backoffs
    lastTransient,  \* last_transient_exception_time > 0
    \* The request tasks
    task,           \* inflight_requests
    \* Shutdown
    shut,           \* where shutdown is
    shutAt,         \* the index of its loop over pending_requests
    victim,         \* the item that loop is at
    event,          \* shutdown_event
    loopRunning

threadVars == <<phase, asked, pos, snapshot, verdict>>
workerVars == <<worker, fetched, pending, work, scan, processed>>
backoffVars == <<numBackoffs, lastTransient>>
sweepVars == <<shutAt, victim>>
shutVars == <<shut, sweepVars, event, loopRunning>>
vars == <<threadVars, answer, copies, cache, threadExc, requestQ, retryQ,
          workerVars, backoffVars, task, shutVars>>

NoException == [kind |-> "none"]

Init ==
    /\ phase = [t \in Threads |-> "idle"]
    /\ asked = [t \in Threads |-> <<>>]
    /\ pos = [t \in Threads |-> 1]
    /\ snapshot = [t \in Threads |-> [k \in Keys |-> Open]]
    /\ verdict = [t \in Threads |-> <<>>]
    /\ answer = [i \in Item |-> Open]
    /\ copies = {}
    /\ cache = [k \in Keys |-> Open]
    /\ threadExc = [t \in Threads |-> NoException]
    /\ requestQ = <<>>
    /\ retryQ = <<>>
    /\ worker = "fetch"
    /\ fetched = [request |-> <<>>, retry |-> <<>>]
    /\ pending = <<>>
    /\ work = <<>>
    /\ scan = 1
    /\ processed = {}
    /\ numBackoffs = 0
    /\ lastTransient = FALSE
    /\ task = [i \in Item |-> "none"]
    /\ shut = "no"
    /\ shutAt = 1
    /\ victim = None
    /\ event = "unset"
    /\ loopRunning = TRUE

----------------------------------------------------------------------------
(***************************************************************************)
(* Requests and futures                                                    *)
(***************************************************************************)
Batch(t) == asked[t][Len(asked[t])]
Current(t) == [thread |-> t, call |-> Len(asked[t]), pos |-> pos[t]]
KeyOf(i) == asked[i.thread][i.call][i.pos]

\* Mutant: every request of a batch is taken for a duplicate of the first.
Primary_First(i) == [i EXCEPT !.pos = 1]

\* The request of i's batch whose future i's future is or copies (unique_futures).
Primary(i) ==
    LET b == asked[i.thread][i.call]
        p == CHOOSE p \in 1..i.pos :
                 b[p] = b[i.pos] /\ \A q \in 1..(p - 1) : b[q] # b[i.pos]
    IN  [i EXCEPT !.pos = p]

\* A future that has its answer refuses another.
Settles(i, S) == i \in S /\ answer[i] = Open

\* Set each future of S to its answer a[i] unless it has one, and with it its copies.
Resolve(S, a) ==
    answer' = [j \in Item |->
        LET i == IF j \in copies THEN Primary(j) ELSE j
        IN  IF Settles(i, S) THEN a[i] ELSE answer[j]]

\* thread_exceptions of the thread of i.
Recorded(i) == [threadExc EXCEPT ![i.thread] = Error(i)]

\* _register_thread_exception, for every request of S.  It tests done() before it sets the
\* exception: where another thread can set the future in between, the test is a step of
\* its own.
RegisterExceptions(S) ==
    /\ Resolve(S, [i \in S |-> Error(i)])
    /\ threadExc' = [t \in Threads |->
          IF \E i \in S : i.thread = t
          THEN Error(CHOOSE i \in S : i.thread = t)
          ELSE threadExc[t]]

EndCall(t, how) ==
    /\ phase' = [phase EXCEPT ![t] = "idle"]
    /\ verdict' = [verdict EXCEPT ![t] = Append(@, how)]

\* Nothing else runs on the loop while one of its handlers is between test and set.
Loop ==
    /\ loopRunning
    /\ worker # "refusing"
    /\ \A i \in Item : task[i] \in {"none", "created", "calling"}

SeqItems(s) == {s[n] : n \in DOMAIN s}

----------------------------------------------------------------------------
(***************************************************************************)
(* User threads                                                            *)
(***************************************************************************)
\* make_batch_requests up to the submission loop: read the cache once.
Call(t, b) ==
    /\ phase[t] = "idle"
    /\ Len(asked[t]) < MaxCalls
    /\ phase' = [phase EXCEPT ![t] = "submit"]
    /\ asked' = [asked EXCEPT ![t] = Append(@, b)]
    /\ pos' = [pos EXCEPT ![t] = 1]
    /\ snapshot' = [snapshot EXCEPT ![t] =
          [k \in Keys |-> IF \E p \in DOMAIN b : b[p] = k THEN cache[k] ELSE Open]]
    /\ UNCHANGED <<verdict, answer, copies, cache, threadExc, requestQ, retryQ,
                   workerVars, backoffVars, task, shutVars>>

Submitting(t) ==
    /\ phase[t] = "submit"
    /\ pos[t] <= Len(Batch(t))

\* _maybe_raise_thread_exception: the requests already submitted are abandoned.
RaiseThreadException(t) ==
    /\ Submitting(t)
    /\ threadExc[t] # NoException
    /\ EndCall(t, "raised")
    /\ UNCHANGED <<asked, pos, snapshot, answer, copies, cache, threadExc, requestQ,
                   retryQ, workerVars, backoffVars, task, shutVars>>

\* An empty request is answered at once, a cached one from the snapshot.
SubmitAnswered(t) ==
    /\ Submitting(t)
    /\ threadExc[t] = NoException
    /\ LET k == Batch(t)[pos[t]]
       IN  \/ /\ k = None
              /\ answer' = [answer EXCEPT ![Current(t)] = Null]
           \/ /\ k # None /\ snapshot[t][k] # Open
              /\ answer' = [answer EXCEPT ![Current(t)] = snapshot[t][k]]
    /\ pos' = [pos EXCEPT ![t] = @ + 1]
    /\ UNCHANGED <<phase, asked, snapshot, verdict, copies, cache, threadExc, requestQ,
                   retryQ, workerVars, backoffVars, task, shutVars>>

Uncached(t) ==
    /\ Submitting(t)
    /\ threadExc[t] = NoException
    /\ Batch(t)[pos[t]] # None
    /\ snapshot[t][Batch(t)[pos[t]]] = Open

\* Mutant: the answer of a request already answered is not copied.
Copied_LaterOnly(t) == Open

Copied(t) == answer[Primary(Current(t))]

\* _get_or_create_request_future for a duplicate: copy the answer, now or later.
SubmitDuplicate(t) ==
    /\ Uncached(t)
    /\ Primary(Current(t)) # Current(t)
    /\ answer' = [answer EXCEPT ![Current(t)] = Copied(t)]
    /\ copies' = copies \cup {Current(t)}
    /\ pos' = [pos EXCEPT ![t] = @ + 1]
    /\ UNCHANGED <<phase, asked, snapshot, verdict, cache, threadExc, requestQ, retryQ,
                   workerVars, backoffVars, task, shutVars>>

\* A new request: schedule _enqueue_request on the loop and wait for it.
SubmitNew(t) ==
    /\ Uncached(t)
    /\ Primary(Current(t)) = Current(t)
    /\ IF loopRunning
       THEN /\ phase' = [phase EXCEPT ![t] = "enqueue"]
            /\ UNCHANGED verdict
       ELSE EndCall(t, "raised")        \* the loop is closed
    /\ UNCHANGED <<asked, pos, snapshot, answer, copies, cache, threadExc, requestQ,
                   retryQ, workerVars, backoffVars, task, shutVars>>

\* Mutant: off by one.
HasRoom_OneMore == Len(requestQ) <= QueueSize

HasRoom == Len(requestQ) < QueueSize

\* _enqueue_request completes on the loop once the queue has room.
Enqueue(t) ==
    /\ Loop
    /\ phase[t] = "enqueue"
    /\ HasRoom
    /\ requestQ' = Append(requestQ, Current(t))
    /\ phase' = [phase EXCEPT ![t] = "submit"]
    /\ pos' = [pos EXCEPT ![t] = @ + 1]
    /\ UNCHANGED <<asked, snapshot, verdict, answer, copies, cache, threadExc, retryQ,
                   workerVars, backoffVars, task, shutVars>>

\* Every request submitted: wait for the answers in order.
StartCollecting(t) ==
    /\ phase[t] = "submit"
    /\ pos[t] > Len(Batch(t))
    /\ phase' = [phase EXCEPT ![t] = "collect"]
    /\ pos' = [pos EXCEPT ![t] = 1]
    /\ UNCHANGED <<asked, snapshot, verdict, answer, copies, cache, threadExc, requestQ,
                   retryQ, workerVars, backoffVars, task, shutVars>>

\* Mutant: exceptions are collected like responses.
Failed_Never(t) == FALSE

Failed(t) == answer[Current(t)].kind = "error"

\* _collect_batch_responses: the first exception ends the call.
Collect(t) ==
    /\ phase[t] = "collect"
    /\ IF pos[t] > Len(Batch(t))
       THEN EndCall(t, "returned") /\ UNCHANGED pos
       ELSE /\ answer[Current(t)] # Open
            /\ IF Failed(t)
               THEN EndCall(t, "raised") /\ UNCHANGED pos
               ELSE /\ pos' = [pos EXCEPT ![t] = @ + 1]
                    /\ UNCHANGED <<phase, verdict>>
    /\ UNCHANGED <<asked, snapshot, answer, copies, cache, threadExc, requestQ, retryQ,
                   workerVars, backoffVars, task, shutVars>>

Thread(t) ==
    \/ RaiseThreadException(t)
    \/ SubmitAnswered(t)
    \/ SubmitDuplicate(t)
    \/ SubmitNew(t)
    \/ StartCollecting(t)
    \/ Collect(t)

----------------------------------------------------------------------------
(***************************************************************************)
(* The worker: _process_queue                                              *)
(***************************************************************************)
\* Nothing pending: create the get tasks and the shutdown task, and wait.
Fetch ==
    /\ Loop
    /\ worker = "fetch"
    /\ worker' = "waiting"
    /\ UNCHANGED <<threadVars, answer, copies, cache, threadExc, requestQ, retryQ,
                   fetched, pending, work, scan, processed, backoffVars, task, shutVars>>

\* A get task obtains an item; the other one may obtain its own before the worker runs.
GetRetry ==
    /\ Loop
    /\ worker = "waiting"
    /\ fetched.retry = <<>> /\ retryQ # <<>>
    /\ fetched' = [fetched EXCEPT !.retry = <<Head(retryQ)>>]
    /\ retryQ' = Tail(retryQ)
    /\ UNCHANGED <<threadVars, answer, copies, cache, threadExc, requestQ, worker,
                   pending, work, scan, processed, backoffVars, task, shutVars>>

GetRequest ==
    /\ Loop
    /\ worker = "waiting"
    /\ fetched.request = <<>> /\ requestQ # <<>>
    /\ fetched' = [fetched EXCEPT !.request = <<Head(requestQ)>>]
    /\ requestQ' = Tail(requestQ)
    /\ UNCHANGED <<threadVars, answer, copies, cache, threadExc, retryQ, worker,
                   pending, work, scan, processed, backoffVars, task, shutVars>>

\* Mutant: a request obtained together with a retry is dropped.
Obtained_One == IF fetched.retry # <<>> THEN fetched.retry ELSE fetched.request

Obtained == fetched.retry \o fetched.request

\* A list holds two items at most.
PastTheEnd == 3

\* asyncio.wait returns with an item: the retry goes before the request.  A shutdown that
\* is at its loop goes on with the list it began with, which is empty by now.
Resume ==
    /\ Loop
    /\ worker = "waiting"
    /\ Obtained # <<>>
    /\ pending' = Obtained
    /\ work' = pending'
    /\ scan' = 1
    /\ processed' = {}
    /\ fetched' = [request |-> <<>>, retry |-> <<>>]
    /\ worker' = "scan"
    /\ shutAt' = IF shut \in {"sweep", "strike"} THEN PastTheEnd ELSE shutAt
    /\ UNCHANGED <<threadVars, answer, copies, cache, threadExc, requestQ, retryQ,
                   backoffVars, task, shut, victim, event, loopRunning>>

\* Mutant: the shutdown is only noticed when an item arrives.
Signalled_WithItem == event = "set" /\ Obtained # <<>>

Signalled == event = "set"

\* asyncio.wait returns with the shutdown task done: what was fetched is dropped.
Stop ==
    /\ Loop
    /\ worker = "waiting"
    /\ Signalled
    /\ fetched' = [request |-> <<>>, retry |-> <<>>]
    /\ worker' = "stopped"
    /\ UNCHANGED <<threadVars, answer, copies, cache, threadExc, requestQ, retryQ,
                   pending, work, scan, processed, backoffVars, task, shutVars>>

\* pending holds a retry and a request at most.
KeptAt(n, done) ==
    IF n \in DOMAIN pending /\ pending[n] \notin done THEN <<pending[n]>> ELSE <<>>

Kept(done) == KeptAt(1, done) \o KeptAt(2, done)

\* The for loop goes on to the next item or, at the end of the list, removes what it
\* processed.  list.remove raises, and ends the worker, if shutdown replaced the list.
Advance(done) ==
    IF scan < Len(work)
    THEN /\ scan' = scan + 1
         /\ processed' = done
         /\ worker' = "scan"
         /\ UNCHANGED <<pending, work>>
    ELSE /\ scan' = 1
         /\ processed' = {}
         /\ pending' = Kept(done)
         /\ work' = Kept(done)
         /\ worker' = IF ~(done \subseteq SeqItems(pending)) THEN "dead"
                      ELSE IF Kept(done) = <<>> THEN "fetch" ELSE "scan"

\* _maybe_backoff: sleep if the last transient error is recent.  Time is abstracted:
\* whether the backoff time has elapsed is either way.
MaybeBackoff(done) ==
    \/ /\ lastTransient
       /\ worker' = "backoff"
       /\ processed' = done
       /\ UNCHANGED <<pending, work, scan>>
    \/ Advance(done)

\* The rate limit admits the item: its task is created.
Dispatch ==
    /\ Loop
    /\ worker = "scan"
    /\ KeyOf(work[scan]) \notin TooLarge
    /\ task' = [task EXCEPT ![work[scan]] = "created"]
    /\ MaybeBackoff(processed \cup {work[scan]})
    /\ UNCHANGED <<threadVars, answer, copies, cache, threadExc, requestQ, retryQ,
                   fetched, backoffVars, shutVars>>

\* The rate limit has no room for the item: nap for a millisecond.
Deny ==
    /\ Loop
    /\ worker = "scan"
    /\ KeyOf(work[scan]) \notin TooLarge
    /\ worker' = "nap"
    /\ UNCHANGED <<threadVars, answer, copies, cache, threadExc, requestQ, retryQ, fetched,
                   pending, work, scan, processed, backoffVars, task, shutVars>>

Wake ==
    /\ Loop
    /\ worker = "nap"
    /\ MaybeBackoff(processed)
    /\ UNCHANGED <<threadVars, answer, copies, cache, threadExc, requestQ, retryQ, fetched,
                   backoffVars, task, shutVars>>

\* The rate limit raises, as the item can never fit: register the exception.
RefuseTooLarge ==
    /\ Loop
    /\ worker = "scan"
    /\ KeyOf(work[scan]) \in TooLarge
    /\ IF answer[work[scan]] = Open
       THEN /\ worker' = "refusing"
            /\ UNCHANGED <<threadExc, pending, work, scan, processed>>
       ELSE /\ threadExc' = Recorded(work[scan])
            /\ Advance(processed \cup {work[scan]})
    /\ UNCHANGED <<threadVars, answer, copies, cache, requestQ, retryQ, fetched, backoffVars,
                   task, shutVars>>

\* The future was not done.  If shutdown was faster, set_exception raises out of the
\* handler and ends the worker.
Refuse ==
    /\ loopRunning
    /\ worker = "refusing"
    /\ IF answer[work[scan]] = Open
       THEN RegisterExceptions({work[scan]}) /\ Advance(processed \cup {work[scan]})
       ELSE /\ worker' = "dead"
            /\ UNCHANGED <<answer, threadExc, pending, work, scan, processed>>
    /\ UNCHANGED <<threadVars, copies, cache, requestQ, retryQ, fetched, backoffVars,
                   task, shutVars>>

\* The backoff sleep ends.
EndBackoff ==
    /\ Loop
    /\ worker = "backoff"
    /\ numBackoffs' = numBackoffs + 1
    /\ lastTransient' = FALSE
    /\ Advance(processed)
    /\ UNCHANGED <<threadVars, answer, copies, cache, threadExc, requestQ, retryQ, fetched,
                   task, shutVars>>

Worker ==
    \/ Fetch \/ GetRetry \/ GetRequest \/ Resume \/ Stop
    \/ Dispatch \/ Deny \/ Wake \/ RefuseTooLarge \/ Refuse \/ EndBackoff

----------------------------------------------------------------------------
(***************************************************************************)
(* The request tasks: _process_single_request and _handle_response         *)
(***************************************************************************)
StartRequest(i) ==
    /\ Loop
    /\ task[i] = "created"
    /\ task' = [task EXCEPT ![i] = "calling"]
    /\ UNCHANGED <<threadVars, answer, copies, cache, threadExc, requestQ, retryQ,
                   workerVars, backoffVars, shutVars>>

\* The call of a request ends, and the task goes to a state.
Ends(i, to) ==
    /\ Loop
    /\ task[i] = "calling"
    /\ task' = [task EXCEPT ![i] = to]

\* asyncio.wait_for times out: retried without counting.
Timeout(i) ==
    /\ Ends(i, "none")
    /\ retryQ' = Append(retryQ, i)
    /\ UNCHANGED <<threadVars, answer, copies, cache, threadExc, requestQ, workerVars,
                   backoffVars, shutVars>>

\* A request fails: register the exception, once it is found that the future is not done.
Fails(i) ==
    /\ Ends(i, IF answer[i] = Open THEN "failing" ELSE "none")
    /\ threadExc' = IF answer[i] = Open THEN threadExc ELSE Recorded(i)

\* TransientException: retried, unless the client has backed off too often.
Transient(i) ==
    /\ IF numBackoffs >= MaxBackoffs
       THEN /\ Fails(i)
            /\ UNCHANGED <<retryQ, lastTransient>>
       ELSE /\ Ends(i, "none")
            /\ retryQ' = Append(retryQ, i)
            /\ lastTransient' = TRUE
            /\ UNCHANGED threadExc
    /\ UNCHANGED <<threadVars, answer, copies, cache, requestQ, workerVars, numBackoffs,
                   shutVars>>

\* FatalException, or an exception out of make_single_request.
Fatal(i) ==
    /\ Fails(i)
    /\ UNCHANGED <<threadVars, answer, copies, cache, requestQ, retryQ, workerVars, backoffVars,
                   shutVars>>

\* The future was not done.  If shutdown was faster, set_exception raises: the handler of
\* the request registers that in turn, unless it is the one that raised.
SetException(i) ==
    /\ loopRunning
    /\ task[i] = "failing"
    /\ task' = [task EXCEPT ![i] = "none"]
    /\ IF answer[i] = Open
       THEN RegisterExceptions({i})
       ELSE answer' = answer /\ threadExc' \in {threadExc, Recorded(i)}
    /\ UNCHANGED <<threadVars, copies, cache, requestQ, retryQ, workerVars, backoffVars, shutVars>>

\* A response: cache it, then answer the future if it is not done.
Succeed(i) ==
    /\ Ends(i, IF answer[i] = Open THEN "answering" ELSE "none")
    /\ cache' = IF UseCache THEN [cache EXCEPT ![KeyOf(i)] = Response(i)] ELSE cache
    /\ UNCHANGED <<threadVars, answer, copies, threadExc, requestQ, retryQ, workerVars, backoffVars,
                   shutVars>>

\* If shutdown was faster, set_result raises, and that is registered.
SetResult(i) ==
    /\ loopRunning
    /\ task[i] = "answering"
    /\ task' = [task EXCEPT ![i] = "none"]
    /\ Resolve({i}, [j \in {i} |-> Response(j)])
    /\ threadExc' = IF answer[i] = Open THEN threadExc ELSE Recorded(i)
    /\ UNCHANGED <<threadVars, copies, cache, requestQ, retryQ, workerVars, backoffVars, shutVars>>

Answers(i) == Succeed(i) \/ Fatal(i)
EndRequest(i) == Timeout(i) \/ Transient(i) \/ Answers(i)
SetFuture(i) == SetException(i) \/ SetResult(i)
Request(i) == StartRequest(i) \/ EndRequest(i) \/ SetFuture(i)

----------------------------------------------------------------------------
(***************************************************************************)
(* shutdown, called by a thread of its own                                 *)
(***************************************************************************)
ShutdownBegin ==
    /\ AllowShutdown
    /\ shut = "no"
    /\ event' = "scheduled"
    /\ shut' = "pending"
    /\ UNCHANGED <<threadVars, answer, copies, cache, threadExc, requestQ, retryQ,
                   workerVars, backoffVars, task, sweepVars, loopRunning>>

\* The event itself is set by a callback on the loop.
SetEvent ==
    /\ Loop
    /\ event = "scheduled"
    /\ event' = "set"
    /\ UNCHANGED <<threadVars, answer, copies, cache, threadExc, requestQ, retryQ,
                   workerVars, backoffVars, task, shut, sweepVars, loopRunning>>

ShutdownPending ==
    /\ shut = "pending"
    /\ shut' = IF pending = <<>> THEN "requests" ELSE "sweep"
    /\ UNCHANGED <<threadVars, answer, copies, cache, threadExc, requestQ, retryQ, workerVars,
                   backoffVars, task, sweepVars, event, loopRunning>>

\* The loop over pending_requests, a list the worker may shorten meanwhile: register an
\* exception for each item, whose task may be about to answer it.
ShutdownSweep ==
    /\ shut = "sweep"
    /\ IF shutAt > Len(pending)
       THEN /\ shut' = "clear"
            /\ shutAt' = 1
            /\ UNCHANGED <<threadExc, victim>>
       ELSE /\ shutAt' = shutAt + 1
            /\ IF answer[pending[shutAt]] = Open
               THEN shut' = "strike" /\ victim' = pending[shutAt] /\ UNCHANGED threadExc
               ELSE threadExc' = Recorded(pending[shutAt]) /\ UNCHANGED <<shut, victim>>
    /\ UNCHANGED <<threadVars, answer, copies, cache, requestQ, retryQ, workerVars, backoffVars,
                   task, event, loopRunning>>

\* The future was not done.  If the event loop was faster, set_exception raises out of
\* shutdown.
ShutdownStrike ==
    /\ shut = "strike"
    /\ IF answer[victim] = Open
       THEN shut' = "sweep" /\ RegisterExceptions({victim})
       ELSE shut' = "aborted" /\ UNCHANGED <<answer, threadExc>>
    /\ victim' = None
    /\ UNCHANGED <<threadVars, copies, cache, requestQ, retryQ, workerVars, backoffVars, task,
                   shutAt, event, loopRunning>>

ShutdownClear ==
    /\ shut = "clear"
    /\ pending' = <<>>
    /\ shut' = "requests"
    /\ UNCHANGED <<threadVars, answer, copies, cache, threadExc, requestQ, retryQ, worker,
                   fetched, work, scan, processed, backoffVars, task, sweepVars, event,
                   loopRunning>>

\* get_nowait
Drained(q) == Tail(q)

\* Drain a queue one item at a time, until it is found empty.  Nobody else has an item
\* taken from a queue, so nobody else sets its future.
ShutdownRequests ==
    /\ shut = "requests"
    /\ IF requestQ = <<>>
       THEN shut' = "retries" /\ UNCHANGED <<requestQ, answer, threadExc>>
       ELSE /\ requestQ' = Drained(requestQ)
            /\ RegisterExceptions({Head(requestQ)})
            /\ UNCHANGED shut
    /\ UNCHANGED <<threadVars, copies, cache, retryQ, workerVars, backoffVars, task,
                   sweepVars, event, loopRunning>>

ShutdownRetries ==
    /\ shut = "retries"
    /\ IF retryQ = <<>>
       THEN shut' = "cancel" /\ UNCHANGED <<retryQ, answer, threadExc>>
       ELSE /\ retryQ' = Drained(retryQ)
            /\ RegisterExceptions({Head(retryQ)})
            /\ UNCHANGED shut
    /\ UNCHANGED <<threadVars, copies, cache, requestQ, workerVars, backoffVars, task,
                   sweepVars, event, loopRunning>>

\* Cancelled tasks that had begun register the cancellation; the others never run.
CancelTasks ==
    /\ task' = [i \in Item |-> "none"]
    /\ RegisterExceptions({i \in Item : task[i] = "calling"})

\* _cancel_in_flight_requests
ShutdownCancel ==
    /\ Loop
    /\ shut = "cancel"
    /\ CancelTasks
    /\ shut' = "release"
    /\ UNCHANGED <<threadVars, copies, cache, requestQ, retryQ, workerVars, backoffVars,
                   sweepVars, event, loopRunning>>

\* release_loop when other clients hold the loop.
ShutdownKeepLoop ==
    /\ shut = "release"
    /\ shut' = "done"
    /\ UNCHANGED <<threadVars, answer, copies, cache, threadExc, requestQ, retryQ,
                   workerVars, backoffVars, task, sweepVars, event, loopRunning>>

\* release_loop of the last client: every task on the loop is cancelled, the puts
\* threads wait for included, and the loop stops.
ShutdownStopLoop ==
    /\ Loop
    /\ shut = "release"
    /\ shut' = "done"
    /\ loopRunning' = FALSE
    /\ CancelTasks
    /\ worker' = IF worker = "dead" THEN "dead" ELSE "stopped"
    /\ phase' = [t \in Threads |-> IF phase[t] = "enqueue" THEN "idle" ELSE phase[t]]
    /\ verdict' = [t \in Threads |-> IF phase[t] = "enqueue" THEN Append(verdict[t], "raised")
                                     ELSE verdict[t]]
    /\ UNCHANGED <<asked, pos, snapshot, copies, cache, requestQ, retryQ, fetched, pending,
                   work, scan, processed, backoffVars, sweepVars, event>>

Shutdown ==
    \/ ShutdownPending \/ ShutdownSweep \/ ShutdownStrike \/ ShutdownClear
    \/ ShutdownRequests \/ ShutdownRetries
    \/ ShutdownCancel \/ ShutdownKeepLoop \/ ShutdownStopLoop

----------------------------------------------------------------------------
\* Every call has ended and nothing is left to do.
Quiescent ==
    /\ \A t \in Threads : phase[t] = "idle" /\ Len(asked[t]) = MaxCalls
    /\ requestQ = <<>> /\ retryQ = <<>>
    /\ \A i \in Item : task[i] = "none"
    /\ worker \in {"waiting", "stopped", "dead"}

Terminated == Quiescent /\ UNCHANGED vars

Next ==
    \/ \E t \in Threads : Thread(t) \/ Enqueue(t) \/ \E b \in Batches : Call(t, b)
    \/ Worker
    \/ \E i \in Item : Request(i)
    \/ ShutdownBegin
    \/ SetEvent
    \/ Shutdown
    \/ Terminated

Spec == Init /\ [][Next]_vars

(***************************************************************************)
(* A thread that can run does; the loop runs every callback and task that   *)
(* is ready; wait_for bounds every provider call; the rate limit, whose     *)
(* buckets refill, does not deny one item forever; and a request that is    *)
(* sent again and again is answered in the end, with a response or a fatal  *)
(* error: timeouts are retried without limit, so this rests on the provider.*)
(* Nothing makes a thread call, or call shutdown.                           *)
(***************************************************************************)
Fairness ==
    /\ \A t \in Threads : WF_vars(Thread(t) \/ Enqueue(t))
    /\ WF_vars(Worker) /\ SF_vars(Dispatch)
    /\ \A i \in Item : WF_vars(Request(i)) /\ SF_vars(Answers(i))
    /\ WF_vars(SetEvent) /\ WF_vars(Shutdown)

FairSpec == Spec /\ Fairness

----------------------------------------------------------------------------
(***************************************************************************)
(* Properties                                                              *)
(***************************************************************************)
Exceptions == {NoException} \cup {Error(i) : i \in Item}

TypeOK ==
    /\ phase \in [Threads -> {"idle", "submit", "enqueue", "collect"}]
    /\ asked \in [Threads -> Seq(Batches)]
    /\ pos \in [Threads -> 1..(MaxLen + 1)]
    /\ snapshot \in [Threads -> [Keys -> Answer]]
    /\ verdict \in [Threads -> Seq({"returned", "raised"})]
    /\ answer \in [Item -> Answer]
    /\ copies \subseteq Item
    /\ cache \in [Keys -> Answer]
    /\ threadExc \in [Threads -> Exceptions]
    /\ requestQ \in Seq(Item) /\ Len(requestQ) <= QueueSize
    /\ retryQ \in Seq(Item)
    /\ worker \in {"fetch", "waiting", "scan", "nap", "backoff", "refusing", "stopped", "dead"}
    /\ fetched \in [request : Seq(Item), retry : Seq(Item)]
    /\ pending \in Seq(Item) /\ work \in Seq(Item) /\ Len(pending) <= 2
    /\ scan \in Nat \ {0}
    /\ processed \subseteq Item
    /\ numBackoffs \in 0..MaxBackoffs
    /\ lastTransient \in BOOLEAN
    /\ task \in [Item -> {"none", "created", "calling", "answering", "failing"}]
    /\ shut \in {"no", "pending", "sweep", "strike", "clear", "requests", "retries", "cancel",
                 "release", "done", "aborted"}
    /\ shutAt \in Nat \ {0} /\ victim \in Item \cup {None} /\ (shut = "strike" => victim \in Item)
    /\ event \in {"unset", "scheduled", "set"}
    /\ loopRunning \in BOOLEAN

Count(s, i) == Cardinality({n \in DOMAIN s : s[n] = i})

\* In how many places the client holds request i.
Places(i) ==
    Count(requestQ, i) + Count(retryQ, i) + Count(fetched.request, i) + Count(fetched.retry, i)
    + (IF i \in processed THEN 0 ELSE Count(pending, i))
    + (IF task[i] = "none" THEN 0 ELSE 1)
    + (IF phase[i.thread] = "enqueue" /\ Current(i.thread) = i THEN 1 ELSE 0)

\* The requests of t's running call that it counts on an answer for.
Awaited(t) ==
    CASE phase[t] = "idle"    -> {}
      [] phase[t] = "collect" -> {[Current(t) EXCEPT !.pos = p] : p \in 1..Len(Batch(t))}
      [] OTHER                -> {[Current(t) EXCEPT !.pos = p] : p \in 1..(pos[t] - 1)}

\* Between the queues, the retries and the tasks no request a thread waits for is
\* dropped: while its future is open the client still holds it, or what it copies.
NothingLost ==
    \A t \in Threads : \A i \in Awaited(t) :
        answer[i] = Open => Places(IF i \in copies THEN Primary(i) ELSE i) = 1

\* A request is in one place at a time, and in none once it is answered: a retry,
\* a late dispatch or a timeout never makes a second call for it.
NothingTwice ==
    \A i \in Item : Places(i) > 0 => Places(i) = 1 /\ answer[i] = Open

\* Until shutdown, which drops requests, the queues, the worker's lists and the tasks
\* hand every request on, once.
HeldOnce == shut = "no" => NothingLost /\ NothingTwice

\* A batch that returns has, at every position, a response to the request asked
\* there, and the same response for its duplicates, whatever order they came in.
ReturnsWhatWasAsked ==
    \A t \in Threads : \A c \in DOMAIN verdict[t] :
        verdict[t][c] = "returned" =>
            LET b == asked[t][c]
                a == [p \in DOMAIN b |-> answer[[thread |-> t, call |-> c, pos |-> p]]]
            IN  \A p \in DOMAIN b :
                    /\ b[p] = None => a[p] = Null
                    /\ b[p] # None => a[p].kind = "response" /\ KeyOf(a[p].item) = b[p]
                    /\ \A q \in DOMAIN b : b[q] = b[p] => a[q] = a[p]

\* The client is a BatchService: every step of it settles answers once, starts or
\* ends a call as the service may, or is invisible to the callers.
Service == INSTANCE BatchService WITH
    running <- [t \in Threads |-> phase[t] # "idle"],
    stopped <- shut # "no"
ImplementsService == Service!Spec

\* Every batch ends, whatever times out, is throttled, retried or denied, if the provider
\* answers in the end, and unless the client is shut down meanwhile.
CallsEnd == \A t \in Threads : phase[t] # "idle" ~> phase[t] = "idle" \/ shut # "no"

\* shutdown ends, with an exception if the event loop answers a request between its test
\* and its set, and the worker of a client that was shut down ends, also when the shutdown
\* replaced the list the worker was iterating over.
ShutdownEnds == shut # "no" ~> shut \in {"done", "aborted"} /\ worker \in {"stopped", "dead"}

----------------------------------------------------------------------------
(***************************************************************************)
(* What the code's documentation says and the code does not do             *)
(***************************************************************************)
\* "Surface exceptions from event loop to calling thread immediately": an exception
\* surfaces in the call whose request failed.  thread_exceptions is never cleared, so
\* every later call of the thread raises it too.
RaisesForItsOwnRequests ==
    \A t \in Threads : \A c \in DOMAIN verdict[t] :
        verdict[t][c] = "raised" =>
            \E i \in Item : i.thread = t /\ i.call = c /\ answer[i].kind = "error"
=============================================================================
