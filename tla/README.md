# A TLA+ model of fenic's local engine

fenic is a DataFrame library whose semantic operators call language and embedding models.
A query is a logical plan, rewritten by a few rules and translated to a physical plan that Polars
and DuckDB execute; each semantic operator hands a batch of prompts to a model client and waits for
the answers. Most of the library is stateless translation. What is hard to get right, and what this
project models, is the rest: user threads that share one event loop, one set of model clients, one
catalog and one cache of responses; queues, retries, backoffs and rate limits; sessions that may be
stopped at any time; and the rewriting of plans, whose rules depend on one another.

Paths below are relative to `src/fenic`; "RL" is `_inference/rate_limit_strategy.py` and "MC"
`_inference/model_client.py`.

## Inventory

| Component | State | Operations | Hard behaviour | Correct when |
|---|---|---|---|---|
| Rate limit strategies (RL) | one to three token buckets, an rpm, a hint, a cooldown | check and consume, settle, backoff, register a hint | floors and timestamps, refunds after a backoff, a rate that moves | no window exceeds its rate, nothing that fits is starved, rate and bucket agree |
| ModelClient (MC) | two queues, pending list, futures, in-flight tasks, thread exceptions, backoff counters, shutdown event | make_batch_requests, the worker, request tasks, shutdown | threads against the loop, duplicates, retries, a bounded queue, shutdown at any point | every batch ends if the provider answers, answers are right, nothing is lost or sent twice |
| EventLoopManager (`_backends/local/async_utils.py`) | loop, thread, number of holders | get or create, release | a release racing an acquisition; cancellation of every task | the loop runs while it is held |
| OutputTokenEstimator (`_inference/output_token_estimator.py`) | a window of samples per key | reserve, observe | written on the loop, read by producers; quantile and clamp | a reservation within 1..ceiling |
| SQLiteLLMCache (`_inference/cache/sqlite_cache.py`) | rows in a file, a pool of connections and their transactions, counters | get, set, batches of both, evict, clear, close | a bounded pool, expiry, errors that leave a transaction open, close during use | never another key's or an expired answer; nobody waits for a connection forever |
| AsyncUDFSyncStream (`_backends/local/async_udf_stream.py`) | pending tasks, results, next index | call, cancel | results out of order, full buffers, retries, an early stop | results in order, each once, within the bounds |
| LocalSessionManager, LocalSessionState (`_backends/local/manager.py`, `session_state.py`), SessionModelRegistry | live sessions by name, clients, cache, databases | get or create, stop, remove | stop against use, a double stop, a lock held while waiting for the loop | at most one live session per name, resources released once |
| Physical plan execution (`_backends/local/physical_plan/base.py`, `execution.py`, `temp_df_db_client.py`) | metrics of the clients, table of intermediate results | execute, cache, read | two queries of one session share both | usage attributed once, a cached frame written once |
| Lineage (`_backends/local/lineage.py`) | current operator, tables of row mappings | forwards, backwards, restart | joins have two children; a step that fails half way | the rows returned are those that produced, or came from, the rows asked |
| Optimizer rules (`core/_logical_plan/optimizer`) and DuckDB merging (`_backends/local/physical_plan/optimizer`) | none (trees) | merge filters, push negation, split semantic predicates, merge nodes | three-valued logic, cached nodes | the rewritten plan returns the same rows |
| Local catalog and system tables (`_backends/local/catalog.py`, `system_table_client.py`) | tables, views, tools and their metadata | create, describe, insert, replace, drop | check-then-act between threads | data and metadata agree |
| Cloud backend (`_backends/cloud`) | live sessions, channel, loop | configure, create, remove, execute | a remote service that is not in the repository | |
| Transpiler, semantic operators, provider clients, token counters, profiles, DataFrame API, expressions, serialization, MCP server, Rust plugins | none that outlives a call | translation, formatting, parsing | | |

How they interact. A semantic operator calls `make_batch_requests` on a user thread. The thread
reads the cache once, then for each request either answers it on the spot, copies the future of a
duplicate, or schedules `_enqueue_request` on the loop and waits for it. The worker coroutine takes
requests and retries from their queues, asks the rate limit strategy for room, and creates a task.
The task calls the provider, settles the strategy's reservation, writes the cache and answers the
future, or queues the request for a retry. The thread waits for the futures in order. Sessions
create clients through the model registry; each client holds the event loop, and the last one to
release it stops it. A query reads and resets the counters of its session's clients after each operator,
persists the frames marked for it in a DuckDB file of the session, and saves tables through the catalog,
which all threads of the session share.

## Modules

| Module | What it models |
|---|---|
| `RateLimitBucket` | `RateLimitBucket`: a bucket as a record, `Available` for `_get_available_capacity`, `SetCapacity` for `_set_capacity` |
| `TokenRateLimit` | `UnifiedTokenRateLimitStrategy` and `SeparatedTokenRateLimitStrategy`, with the reservations their client holds |
| `AdaptiveBackoffRateLimit` | `AdaptiveBackoffRateLimitStrategy` with provider hints |
| `BatchService` | what a client promises its callers: calls, answers that settle once, returns and raises |
| `ModelClient` | `ModelClient`: user threads, worker, request tasks, shutdown; implements `BatchService` |
| `OrderedStream` | what a user of the async UDF stream relies on: outcomes in the order of the items |
| `AsyncUDFSyncStream` | `AsyncUDFSyncStream`: the generator, its tasks and the consumer; implements `OrderedStream` |
| `ResponseCache` | what a user of the response cache relies on: a lookup returns what was stored, or nothing |
| `SQLiteLLMCache` | `SQLiteLLMCache`: connection pool, statements, eviction, close; implements `ResponseCache` |
| `LocalSessions` | `LocalSessionManager`, `LocalSessionState`, the clients of `SessionModelRegistry`, `EventLoopManager` |
| `LogicalOptimizer` | the optimizer rules, the conversion to operators, and what a plan means |
| `LocalCatalog` | `LocalCatalog` and `SystemTableClient`: databases, tables, views, tools, the lock |
| `QueryExecution` | `LocalExecution`, `PhysicalPlan.execute`, the table sink; extends `LocalCatalog`; what plans compile to are constants, which `MCQueryExecution` takes from `LogicalOptimizer` |
| `Lineage` | `build_node_lineage` of every operator and `LocalLineage`, the cursor on what it built |
| `MC...` | instances for TLC; the constants' values are in the `.cfg` files |
| `..._proofs` | theorems and their proofs |

An operator whose name ends in `_Something` below a comment "Mutant" is a plausible mistake in the operator that
follows it; `PROJECT.json` lists which property each one breaks.

**Rate limits.** The strategies are only called from the event loop, so a method is one action.
`now` is `time.time()` in ticks, `Minute` ticks to the minute; the code's float division and floor
become `\div`, which loses the same fraction. The unified and the separated strategy have the same methods over a bucket of
requests and one or two of tokens, so `TokenRateLimit` has a constant `Kinds`: `{"total"}` for the one, `{"input", "output"}`
for the other. The run has the two kinds; the theorems hold for any. `reserved` is the client's side: a response settles a
reservation once (MC 861-891), and a request that fails or times out never does (`Forfeit`). `admitted`,
`charged` and `streak` are history. `mark` is an observer that may open a window at any moment, so
an invariant that mentions `mark` speaks of every window of every behaviour. In the adaptive strategy
the multiplier is a fraction and a hint or a retry time is chosen from a small set; the two ways
`check_and_consume_rate_limit` may end are `Consume`, which includes the growth it triggers, and `Deny`.

**ModelClient.** A request is an `Item`: thread, call, position. `asked` holds what each position asked
for. The phases of a thread are the points at which another thread or the loop may run: between two
requests of a submission, while `_enqueue_request` waits for room, and at each future it waits for.
`answer` is the future of each item, `copies` the duplicates that share another's answer, and `snapshot`
the result of the one cache read. On the loop, an action runs from one `await` to the next: the worker is
at `fetch`, `waiting` for its get tasks, in a `scan` of the pending list, in the `nap` after a refusal, or
in a `backoff`. `work` is the list object the for loop iterates over and `pending` what the attribute
holds: shutdown replaces the second and not the first. `fetched` is what the two get tasks took out of the
queues and the worker has not seen yet. `shutdown` runs on a thread of its own; each of its statements that
touches shared state is an action, and its loop over the pending list goes item by item, while the worker shortens the list.

A future refuses a second answer: `set_result` and `set_exception` raise. The code tests `done()` first, and on the loop another
coroutine cannot come in between, but `shutdown` can, and the other way round. So test and set are steps of their own wherever both may
have the item: a task is `answering` or `failing` between them, the worker `refusing`, and `shutdown` at `strike` with its `victim`.
When the set comes too late it raises: in a task the handler registers that, in the worker it ends the worker, in `shutdown` it leaves
`shutdown` (`aborted`). `Loop` says that while a handler is between test and set nothing else runs on the loop.
Two pairs remain one step. An item that `shutdown` has drained from a queue is nobody else's, and the tasks it cancels run on the loop
with it. And an exception of the loop is recorded in `thread_exceptions` (MC 964) in the step that sets it on the future (MC 961):
a thread that came in between could submit one more request before it raises.

Abstractions of `ModelClient`: the rate limit admits or refuses at will (`Dispatch`, `Deny`) and raises for
keys in `TooLarge`; a backoff lasts any time, and whether the backoff time of `_maybe_backoff` has elapsed
is either way; a provider call ends in any of its outcomes, and timeouts are retried as often as they happen; the response cache is
one that keeps what is written (`SQLiteLLMCache` is the module of what it does when it fails or forgets, which to the client is a miss);
token estimates, metrics, progress bars and logging are left out.

**BatchService** is the abstract specification. `ModelClient` implements it under the mapping that takes
`running` to "the thread's phase is not idle" and the other variables to themselves; `ImplementsService`
checks it. It says that an answer settles once, only for a request that was asked, with a response made for
the same key, alike for duplicates; that a batch returns only with all its answers; and that it raises only
when a request of its thread failed. The service may be stopped (`Stop`), which is the first step of `shutdown`; from then on
calls may also raise for that, several at once, and requests that are given up fail with them (`GiveUp`). What shutdown still
may not do is change an answer, return a batch that is incomplete, or answer a request with what was made for another.
`HeldOnce` likewise speaks of the time before shutdown: from then on requests are dropped (see below).

**AsyncUDFSyncStream.** `gen` is where `_call_batch_async` stands: at its start, in its loop, suspended at the
yield, or waiting for tasks. `pending` and `results` are the keys of the two dicts, `taken` and `exhausted` the
iterator, `task` and `attempts` the coroutines of `call_with_index` and `_call` with their semaphore, timeouts and
retries. `consumer` is the thread that fills a series; it asks for the next result, or leaves when a result has the
wrong type, and then the generator is closed at its yield. `OrderedStream` lets a stream end early once at least a full
buffer of results has been yielded, because that is what the code guarantees; `lost_items` shows the rest. (The bound is not
strict: when fewer tasks may be pending than the buffer holds, the last of exactly `MaxBuffer` results can leave the generator
with nothing pending: the proof found this, for constants the run does not have.)

**SQLiteLLMCache.** A thread's operation takes a connection (`pool`, `lock`, `blocked`: `get_nowait`, open a new one
under the lock, or block on the queue), runs its statements, each one step, and releases it; `Put` after `Release` is
the gap between reading `_closed` and returning the connection. Opening a connection, counting it and, at the limit, going to block are
one step (`OpenOrBlock`): it is all under `_pool_lock`, and a thread that blocks only takes what comes into the queue later.
All caches of a machine share one file, so `row`, what is committed, is indexed by namespace and key.

Connections have isolation level `DEFERRED` (`_inference/cache/sqlite_cache.py:145`) and no error handler rolls back, so `txn` is the
transaction of each connection, in a thread's hands or in the pool, and `view` the rows it sees: `begun` has read nothing, a
`snapshot` keeps reading what it read first, and the one that is `writing` holds the write lock and its own rows. `Leaves` says what an
error may leave: nothing, if SQLite rolled back itself, a transaction that has begun, one as it was, or one that has written what it
should. The next operation on that connection reads under it and, when it commits, commits what was left (`Commits`). A write fails
when another connection writes or has committed since the snapshot, and in threads of `MayFail` at any time, before or after it took effect in the
transaction. A `set` measures and evicts the tenth that was used least, at least one; whether the file is over its limit is either
way, so rows may be of any size. A `set_batch` skips the entries that fail one by one and commits the others; it never evicts (see below).
A failing `UPDATE` turns a `get` into a miss, and a `get_batch` into what it had read (`found`).

**ResponseCache** is what that leaves a caller: an entry may vanish at any time, and a lookup returns what was last stored under its
key in its own namespace and has not expired. While some connection of the namespace has a transaction open (`left`) it may instead
return anything stored before under that key in that namespace, and such a store may take effect late. Under no circumstances does a
caller get the response to another key or an expired one.

**LocalSessions.** `sessions` are the session objects and `live` the manager's dictionary; `_sessions_lock` is `lock`,
held over whole constructions and removals, while a method of `EventLoopManager` is one step under its own lock. A thread
keeps the session it was given in `handle`, also after someone stopped it. A client is its reference to a loop and how often
it gave that back. `loop` and `count` are the manager's, `loops` every loop ever created: the one that was taken from the
manager is halted and joined outside the lock (`Halt`, `LoopCloses`, `Join`). `Halt` is the wait for the cancelled tasks and the
stop of the loop in one: a call submitted between the two is treated as one submitted after the stop. `BuildFails` closes the database of the session under
construction in the same step: nobody else has the session, and the lock is held throughout. A call submitted to a loop after its last
round of callbacks waits for ever (`Hang`).

**LogicalOptimizer** has the three rules as operators on plans of sources, filters and unions, `Optimized` for their
order, `Convert` for the choice between executing an operator and reading its persisted frame, `Persisted` for the frames a plan
marks and which of them lie inside which, and, as the reference the rules are compared with, `Meaning`: Kleene's three-valued logic and the rows whose predicate is true. `Raises` is where the code
ends in an `AttributeError`.

**LocalCatalog.** A DuckDB transaction is one step; the catalog's lock is held over more than one step only by
`create_table`. `described` is the system table that records schemas. A view may be created under a qualified name whose database does
not exist (`_backends/local/catalog.py:470`), so `views` need not be in `dbs`. `raced` and `disturbed` are history: who changed the
catalog under whom, which separates what the code guarantees from what it does not.

**QueryExecution.** Compilation is a pure step, so the module takes its results as constants: `Compiled` (the operators of a plan,
given which frames are persisted), `CompileRaises`, `MeaningOf`, `PersistedBy`, `Kept`, `CallsOf`, `ConjunctsOf`. `PlansAssumption`
says what a query needs of them, for every plan and every set of persisted frames that with a frame has those inside it: run alone,
the operators end with the frame the plan means, they write just the frames the plan persists, after those inside them, and
no frame of the plan is read before it is there (`Sound`). `MCQueryExecution` defines the constants by `LogicalOptimizer`, so each run of
TLC evaluates `PlansAssumption` on the rules of the code and all of its plans. `Readable` leaves out a plan whose own source is read and
never written (disagreements, *Queries*): nothing is assumed of what its operators compute, and the query fails at the read. `pc` follows `LocalExecution` and the operators: `should_write` and `compare` before a save, `plan`, then
for each operator `execute`, `metrics`, `reset`, `persist`, `write`, and `record` at the end; the table sink checks again and
goes to `create`, or resolves the name and inserts or replaces. `stack` holds the frames of finished operators. `Fail` may end a
query at any step that runs a statement or an operator.

An operator with model calls asks for them (`Ask`), and each response is counted when it arrives, on the loop thread (`Responds`,
`_inference/openai/openai_chat_completions_core.py:190`). If the operator fails, some of its requests are still in flight: they are
`late`, and `RespondsLate` counts them whenever they arrive, also between the same thread's next read of the counters and its reset.
`usage` is the counters of the session's clients; `owed` is what was counted and not yet reported, and `mixed` says that something was
counted, or another thread read, between a read and its reset.

Two pairs of calls are one step. `Transpile` reads all `is_df_cached` answers of a plan at once: frames are only ever added, and
`PlansAssumption` holds for every set of them that is closed, so an answer that comes later differs in nothing but which of two sound plans is
taken for a part. `ShouldWrite` resolves the name and asks whether the table exists: between the two, `set_current_database` could
change what the name means to the next check, and the next check resolves it again (`SinkChecks`).

**Lineage.** `LineageAssumption` says that a plan is a tree whose operators have the children of their class, and that what is
exploded is a list: `Explode._build_schema` (`core/_logical_plan/plans/transform.py:314`) refuses any other column, and `HoldLists` is
that typing for the one column that values have here. `plan` is a function from places (the sides taken from the root) to operators; `Build` makes the operators children
first, left to right: `Makes` says which frames an operator may make of its children's, with the ids each row came from,
`Named` gives the rows new ids or lets them keep the child's, and `Mapping` is the `backwards_...` table. `at` is
`curr_operator`. An explode over an expression (`of`) finds no column to explode in the child's frame and the build fails, unless the
expression has taken the name of a list column (`shadow`): then the code builds, and explodes the column as it was. A source is
the frame as it was given, of which the query coerces the types (`Sourced`); the model has no types. `known` is history: where the calls that returned have left the caller; `astray` says that a call backwards has
failed since the caller last started from a source. A frame is a set of rows with ids, so duplicates count and only the order is
lost: a limit keeps any rows, `drop_duplicates` any one of a class. `Makes` with `ids` false is the operator without the column
`_uuid`, as a query runs it, and the reference for the tables.

Abstractions of the queries: frames are sets of rows, so duplicates are not told apart; a model's answer for a row is fixed,
so a predicate has one meaning; a plan has sources, filters and unions only (the other operators pass through the rules
unchanged and hand their work to Polars or DuckDB in one call); names have no case and no catalog level; descriptions and
the read-only system schema are left out.

## Runs

| Run | Instance | What it shows |
|---|---|---|
| `separated_rate_limit` | minute of 3 ticks, 5 ticks, rpm 2, two kinds of tokens, estimates that fit and one that never does, two reservations at a time | type, window bounds of requests and of each kind of tokens, no starvation |
| `adaptive_rate_limit` | rates 1..4, growth after 2 admissions, two hints | rate, bucket and window agree under backoff, growth and hints |
| `model_client` | two threads, a call each, batches with a duplicate, an empty and an impossible request, queue of one | each request held once, a returned batch holds what was asked, `BatchService` is implemented |
| `model_client_live` | one thread and a shutdown at any point, under `FairSpec` | every call ends if the provider answers in the end, unless the client is shut down; shutdown returns or raises and the worker ends; `BatchService` is implemented through a shutdown too |
| `async_udf_stream` | six items, two permits, three pending, a buffer of three, one retry, under `FairSpec` | the two dicts account for every item, the buffer is bounded, `OrderedStream` is implemented, the stream ends |
| `response_cache` | three threads over a pool of two, one of which reads, one clears, and one stores with statements and commits that fail anywhere, a close, under `FairSpec` | no connection is lost or shared, `ResponseCache` is implemented, operations end unless the cache is closed |
| `local_sessions` | two threads, two apps (one and two models), two constructions, one query, under `FairSpec` | the loop lives as long as its holders, no loop is forgotten, files have one owner, caches outlive clients, calls end |
| `query_execution` | two threads, five plans (one with a persisted frame inside another), five saves, four calls, two databases, two schemas, four rows | results are what plans mean, planned reads find their frame, models see only rows standard predicates let through, catalog and metadata agree, usage is counted once, only overwrite replaces |
| `lineage` | thirteen plans of up to five operators over two sources, four calls | every table is what the query makes, each row's mapping explains it exactly, traces answer for the operator the caller is at |
| `stale_exception`, `lost_items` | smallest instances | the disagreements 1 and 2 below |
| `lineage_answers` | the plans and calls of `lineage` | the disagreement 3 below and, with that plan taken out, 4 |

Why the bounds are enough. *Rate limits*: a clock longer than a minute lets a bucket drain, be backed off and refill whole;
capacities that the minute does not divide exercise the floor. The unified strategy has no run of its own: it is the same definitions
with one kind of tokens instead of two. *Client*: two threads, a queue of one and batches of up to three
requests make putters block, make both get tasks obtain an item, and interleave two submissions; one backoff is
enough to reach the give-up branch after it. Nothing bounds the retries of a request: a retry leads back to a state that was there
before. The live run has one thread because the interesting races are between that thread, the worker and the shutdown. *Stream*: more pending tasks than permits, so that a
task waits for the semaphore, a buffer that can fill while the next item is pending, and as many items as both together, so that
every branch of the scheduling and of the choice of what to wait for is taken; `lost_items` needs eight items so that some are
left. *Cache*: with three threads over two connections the third blocks, and a store can happen between the two statements of a
lookup; a transaction left open by one is met by the next that takes its connection, and by the others through the write lock; with
`EvictShare` 1 an eviction takes as many rows as there were when it counted them, so that the share, and not only the minimum of one,
is taken; one tick of the clock expires an entry.
*Sessions*: two threads can hold, stop and use one session; a second construction makes a new session of an app that was
stopped, or one of the other app while the first one's loop is being closed. *Queries*: each plan exercises one interplay of
the rules (listed in `MCQueryExecution`), the saves cover the four modes with two schemas, and four calls (a collected query
counts as two) let each thread make one query, or one of them change the catalog around the other's save.
*Lineage*: the plans bring each operator duplicates, nulls, empty lists or rows without a counterpart, and each class of operator
above another; four calls are a walk from the root to a source and a failing one, or there and back.

`CHECK_DEADLOCK FALSE` appears where the system may really stop: a stream that has ended, a cache, sessions or queries whose
bounded number of operations is over, a caller that waits for ever on a closed pool or loop, and a client after a shutdown.
In `model_client` a client at rest is the explicit `Terminated` step, so a deadlock is an error; the rate limits never stop.

**Fairness.** In `ModelClient`: a thread that can run does, by itself or, while it waits to enqueue, on the loop; the event loop
runs every ready callback and task (weak fairness of the worker, of each request, of the shutdown event); a provider call
ends because `asyncio.wait_for` bounds it; `shutdown` goes on; and the worker that keeps asking is not refused forever (strong fairness
of `Dispatch`), which is what the invariant `AdmissibleAfterAMinute` of the strategies gives,
because a refusal does not write to the buckets. `CallsEnd` needs one thing that is not the code's to give: timeouts are retried without
limit (MC 816), so it assumes that a request which is sent again and again is answered in the end, with a response or a fatal error
(strong fairness of `Answers`). Without that a call may last for ever, and TLC finds it. Nothing makes a thread call or a session shut
down. In the stream, calls
end by their timeout, sleeps end, and the consumer, a series that is being filled, asks on or leaves. In the cache a thread
that is not blocked goes on, if only because its wait for the write lock times out, as does a close that has begun. In `LocalSessions` a call that was made goes on, a loop that was
asked to stop does, and a thread gets a lock that becomes free again and again (strong fairness of the two steps that wait
for it to begin a removal): `threading.Lock` is not fair in theory, but its waiters are woken. `query_execution` checks safety
only: its liveness would be that of a sequence of statements.

## Disagreements between the code and what it says

Shown by a run:

1. `stale_exception`: `thread_exceptions` is never cleared (MC 964), so after one failed batch every later batch of the
   thread raises the old exception; "Surface exceptions from event loop to calling thread immediately" (MC 534).
2. `lost_items`: while the buffer is full no task is created; if then only the next item's task is pending, its result empties
   the buffer with nothing pending and the generator returns (`_backends/local/async_udf_stream.py:116`) although items are
   left, against "Repeat until all items are processed" (line 36).
3. `lineage_answers`: the lineage of an explode over an expression explodes the column as it is in the child's frame
   (`_backends/local/physical_plan/transform.py:256`; the query computes the expression first, line 231). With a name that is no column
   the lineage fails; with the name of a list column it is built over a frame that the query does not make, against "Get the result of
   the query" (`_backends/local/lineage.py:174`). TLC stops at this one.
4. `lineage_answers`, once the plan with that explode is taken out of `MCPlans`: `_backwards` moves the cursor before it reads (`lineage.py:159`),
   so after a failing read the next `forwards` answers for an operator the caller was never told of; and `forwards` reads the mapping of
   the first child also for the right side of a join or union, and answers with no rows (`lineage.py:100`), against "the transformed rows in
   the next operation" (`api/lineage.py:74`). `TracesCorrect`, which holds, says what is right: `backwards` from either child's side and
   `forwards` from a first child, until a call backwards fails.

Met while modelling, without a run of their own. The models behave as the code does, except where an item says that they leave it out:

- Rate limit: a backoff takes the provider's hint whenever there is one (RL 202), so a rate below the hint goes up; "On backoff,
  reduces RPM by a multiplier" (RL 128).
- Client: `max_backoffs`, "Maximum number of retry attempts" (MC 133), counts the backoffs of the client's lifetime, and
  timeouts are retried without limit; the backoff comes after the dispatch (MC 788), so the throttled request is retried first;
  requests that the worker had fetched, that are enqueued after the drain, or whose task had not begun are dropped by shutdown
  with their futures open, against "Ensures all threads are properly notified of the shutdown" (MC 411); a `shutdown` whose
  `set_exception` loses against the loop ends there with an `InvalidStateError`, queues undrained and the loop held.
- Cache: operations raise once it is closed, where the protocol says they never raise; an error handler never rolls back, so a
  transaction that failed stays open on its connection in the pool: it may hold the write lock against everyone, and the next
  operation commits what was reported as failed, or reads what was replaced since; `set_batch` calls `_maybe_evict` without
  its connection, reports an error after it committed and never evicts; the size that eviction compares is that of the file, which a
  `DELETE` does not shrink (`_inference/cache/sqlite_cache.py:663`), so once the limit was reached every store evicts, against "Evict
  LRU entries if cache exceeds max size" (line 648; sizes are left out of the model); eviction deletes the same key in other namespaces; a
  caller blocked on the pool never wakes after `close`.
- Sessions: `shutdown_models` is "idempotent and can be called multiple times safely" (`_backends/local/session_state.py:137`)
  but tests its flag without a lock: two concurrent stops release each client twice, which stops the loop under another session,
  or wait for ever on a closing loop. A redundant `stop` of an old session removes a new session of the same app name
  (`manager.py:50`). A construction that fails keeps its clients' references to the loop. `get_or_create` can hand out a session
  that is being stopped. Every session of the process waits while `remove_session` shuts models down under the lock.
- Queries: `~(~a) & b` raises an `AttributeError` (`core/_logical_plan/optimizer/not_filter_pushdown_rule.py:84`). A persisted
  source that occurs twice in one plan is read from a frame that is never written, because the conversion marks the key and source
  operators have no `cache_info`; the query fails (`ResultsCorrect` excepts it). Two queries that persist one frame at a time
  may fail on `CREATE TABLE`. Usage of a query that fails is reported by the next one. What is counted between a read and a reset of the
  counters is lost, be it of a concurrent query or a late response to one that failed, and what another query reads there is reported
  twice (`mixed`).
- Catalog: saves check, resolve and write in separate steps without the lock, so two first saves of one table can lose the rows of
  the second silently and record its schema for the first's table (`raced`); `create_tool` checks without the lock and saves with
  `INSERT OR REPLACE`.
- Lineage: `drop_duplicates` without columns compares `_uuid` too and keeps the duplicates that the query drops; a persisted frame that
  occurs twice and was not executed before fails the lineage, which reads the frame and never writes it; `get_result_df` returns the rows
  of the current operator, not always of the query (`_backends/local/lineage.py:174`); `backwards` at a source ends in an `IndexError`.

## Theorems

The proofs hold for every value of the constants under the assumptions named in the modules: positive rates and a positive
minute, natural estimates and responses, a multiplier below one, `MinRPM <= MaxRPM`.

*Rate limits.* The proofs of both strategies begin with the arithmetic of the bucket. `Credit(b, t)` is what a bucket holds and has
accrued, in units of 1/Minute so that it is an integer; the code never computes it. A read gives at most the credit
(`AvailableBounds`, from the bound on the floor), a tick adds at most the rate to it (`CreditAccrues`), a write sets it to what was
written (`CreditAfterWrite`), and after a minute the bucket is full (`FullAfterMinute`). `WindowReplace`, `WindowWrite`,
`WindowTick`, `WindowOpens` and `WindowUseBounded` turn these into the five steps of a window's bound.

The bound of a window, `used * Minute <= rate * (Minute + elapsed)`, is not inductive: a state that has used its whole
allowance and still has a full bucket satisfies it and leaves it in one step. The inductive invariant adds the credit:
`used * Minute + Credit <= rate * (Minute + elapsed)`. An admission moves units from credit to use, a refund moves back at
most what the reservation had taken, a backoff throws credit away, and time adds equally to both sides. For the adaptive
strategy the allowance is stated at the peak rate and each hint adds one bucket, because `register_rate_limit_hint` hands
out a full one; its invariant also needs `successes <= streak` and that no hint was received while none is recorded.

| Module | Theorems |
|---|---|
| `TokenRateLimit_proofs` | `TypeCorrect`, `RatesBounded`, `NeverStarved`, for any kinds of tokens |
| `AdaptiveBackoffRateLimit_proofs` | `TypeCorrect`, `RateLimited`, `WindowBounded`, `GrowthEarned` |
| `ModelClient_proofs` | `TypeCorrect`, `CopiesAgree`, `ReturnsRight`, `HeldOnceAlways`, `IsService` |
| `AsyncUDFSyncStream_proofs` | `TypeCorrect`, `EveryItemAccounted`, `BufferBounded`, `StreamIsOrdered` |
| `SQLiteLLMCache_proofs` | `TypeCorrect`, `NoConnectionLost`, `LookupsAreRight` |
| `LocalSessions_proofs` | `Invariance`, `TypeCorrect`, `LoopsShared`, `OwnersKnown` |
| `QueryExecution_proofs` | `Invariance`, `TypeCorrect`, `CatalogStaysConsistent`, `UsageIsConserved`, `ResultsAreCorrect`, `OnlyOverwritesReplace` |
| `Lineage_proofs` | `Invariance`, `TypeCorrect`, `TablesAreCorrect`, `TracesAreCorrect` |

*The client.* A future keeps its answer, but a copy must not part from the request it copies, nor a submission write a future that is
answered: a step resolves the futures of requests it took from a queue, a list or a
task, and the futures that copy them, and a submission writes the future of the request the thread is at. The invariant
`IInv` of `ModelClient_proofs` says what keeps these apart. A request is `Reached` once its thread has gone past it; whatever
the client holds (`Held`: queues, fetched, pending and iterated lists, processed, tasks) is reached (`HeldInv`); a request
not reached is open (`FreshInv`), so a submission writes an open future; and a copy is reached, is no request of its own and
holds what the request it copies holds (`CopiesInv`), so that resolving the one only when it is open never overwrites the
other. `PrimaryFacts` is where duplicates enter: the first of a batch's equal requests is its own first. `ThreadInv` and
`WorkerInv` keep threads inside their batches and the worker inside its list, and tie `lastTransient` to
`numBackoffs < MaxBackoffs`. The assumptions are those of `ModelClientAssumption`: batches are finite and no longer than
`MaxLen`, calls no more than `MaxCalls`, both arbitrary.

*What a call returns* (`ReturnsRight`). `RightInv` follows a response from the task that made it to the caller: the cache and
each thread's reading of it hold responses under their own keys (`SourceInv`); an answered request has a fitting answer, the
same as the first of the requests equal to it (`FutureInv`); and a request that its running call has submitted was answered
from the cache, is the first of its equals, or copies the first (`SubmittedInv`), which needs that a thread only enqueues what
it did not find in the cache (`UncachedInv`). `CallInv` says how calls end: as many verdicts as calls, and a call that collects
has a result at every position it passed. At the return both meet.

*Where a request is* (`HeldOnceAlways`). `PlacesInv` counts: the occurrences of a request in the two queues and the two get
tasks, plus one if it is in the pending list and not processed, plus one for its task, plus one while its thread is waiting to
enqueue it, are 0 or 1; 1 only for an open request that is the first of its equals; and 1 for every open request that a call has
submitted, or for the one it copies. `HeldOnce` says this only of the requests a thread waits for now, which is not
inductive: a request lost before its thread comes to it would be found later. `CountFacts` gives the counts of a list after it is
appended to, taken from or filtered; `Handed` describes a step that takes a request from one place to another, and `PlacesStep`
shows that such a step keeps the sum. `QuietInv` says that until shutdown the worker's list is the pending one, each item
once, and that what it processed lies before its position. From `PlacesInv` follows what the steps between a test and a set rely
on: until shutdown an item that is held is open (`HeldOpen`, `ScannedOpen`, `TaskOpen`), so no set comes too late before that.

*The refinement* (`IsService`). `ExceptionInv` says that an exception registered for a thread is that of a failed request of
the thread, not necessarily of this call, which is disagreement 1. Then `ServiceStep` maps every step: a submission that begins
is `Call`, the end of a collection `Return` or `Raise`, answers of the worker and of tasks `Settle`, the first step of
shutdown `Stop`, a cancelled loop `GiveUp`, and the rest stutter. `AnsweredService` turns `RightInv` before and after a step
into the abstract condition on the answers that changed.

*The stream.* The invariant of `AsyncUDFSyncStream_proofs` adds to the properties of the run where the generator is
(`Positions`: as many outcomes were yielded as the index is past, awaited tasks are pending), what each task has done
(`TasksInv`: a task that may still call the function is pending, one that is over has an outcome) and why a generator may stop
(`RoomInv`: with nothing pending it has taken every item, or at least a full buffer of them). `ScheduleFacts` says what the
scheduling loop adds. The outcome of an item never changes once its task is over, which makes the yields of the generator the
abstract ones.

*The cache.* `PoolInv` is that every connection is idle or in one thread's hands; each step takes one, gives one back, or keeps its
own. The refinement of `ResponseCache` needs `TxnInv`, because what a lookup sees may be a transaction that an error left behind:
one connection at most writes; every row that is committed, or seen in its own namespace by a transaction of the cache, was stored there under
that key (`Known`); and the transaction that writes differs from what is committed in other namespaces only by rows it has taken away.
The last part holds because a write fails unless the snapshot it began with is what is committed (`CanWrite`), and it is what keeps a
late commit from bringing back rows of another namespace. Where nothing is left open a thread sees what is committed (`NothingLeft`), which
makes the strong half of the promise; `Sees` is the weak one.

*The sessions.* `Invariance` proves the inductive invariant `IInv` of `LocalSessions_proofs`, from which the other three
follow at once; there is one lemma per action, and `QuietStep`, `CalmStep` and `Assembled` say once what a step that leaves clients or
sessions alone still has to show. Its parts are:

- `PlaceInv`: what each place of a thread means. A session under construction is nobody else's, is connected and has exactly the
  clients before the thread's position (`BuildingOK`); whoever removes a session holds the lock and is at the session of the app
  it was called for (`RemovingOK`); and a session that threads have a handle of has all its clients (`Complete`).
- `OwnerInv`: `ConnectionsOwned` with what makes it inductive: the session an app has is complete and of that app, and a cache is
  closed only once `_models_shutdown` is set.
- `LoopInv`: a loop taken from the manager is in the hands of one thread, and what the loop is doing says where that thread is. The
  lock of `release_loop` is what lets no second thread take it.
- `RefsInv`: unless some client was released twice, `_client_count` is the number of references, and every reference is to the
  manager's loop. Each step that takes or gives back a reference changes one element of one of the two sets it counts.
- `FlagInv`: unless some client was released twice, the clients a thread has passed, and those of a session whose models are shut
  down, were released. A client whose shutdown raises was released before: while its reference counts, its loop is the manager's and
  runs, so `ModelClient.shutdown` does not raise.
- `TurnInv`: why a client is released at most once per thread, though `_models_shutdown` is tested without a lock. Before the flag is
  set its releases are at most the threads that have passed it. Once it is set no thread joins them, and releases and the threads
  still before the client are together at most the threads there are. `AllShutdownStep` is where the one turns into the
  other: a thread that has passed a client is not before it.

`TypeOK` alone is not inductive, because the bound on releases in it is that of `TurnInv`; nor is `SharedLoop`, which does not say
that the loop a thread is about to stop is no longer the manager's, nor that a client about to be released has not been. Once a
client was released twice that stays true, so the parts that hold only before it need no proof after it: there the loop can stop
under another session (*Sessions*, above).

*The queries and the catalog.* The three parts of `Inv` in `QueryExecution_proofs` are proved one after the other, because each
needs only the types and itself.

- The catalog. `CatalogConsistent` is not inductive: `CREATE TABLE IF NOT EXISTS` records the schema of the statement even where it
  found another table, so a state in which a thread is about to create a table that is already there leaves it in one step.
  `StillAbsent` says that what a thread saw absent (a table before its sink creates it, in `create_table` or in a save, and a tool
  before `create_tool` saves it) is absent still, or another thread is recorded as having changed the catalog since (`disturbed`);
  the step then puts the table among the `raced`. `OverwriteOnly` says that a thread at a step that replaces rows has a job in that
  mode. With the two, `OnlyOverwriteReplaces` follows for every step.
- The counters. `UsageConserved` adds up what all threads reported, so its proof needs sums over a set of threads whose size is not
  known: `SumsDefined` shows by well-founded induction on the size that the fold of the community modules satisfies its
  equation, and `SumChanges` what changing one summand does. `Counted` adds that as long as nothing was counted or read between them one
  thread at most is between its read and its reset, and that a thread whose operators have not begun has reported nothing. A response,
  on time or late, adds one to both sides (`CountCounted`), or falls between a read and a reset and sets `mixed`; so the theorem is about
  every response that was counted, also those of operators that have failed.
- The plans. `ResultsCorrect` speaks of a query at its end; `PlanFollowed` says why it gets there. For every query past its
  compilation there is a set of persisted frames, all of them persisted now, such that the query runs what its plan was compiled to for
  that set (`Follows`): the operators left are the rest of that list, the stack is what the operators before leave
  (`Ran`), and what they write is in the cache. The set is that of the moment of compilation, and it may be smaller than the cache
  since, which is the interleaving the property is about. `CacheCorrect` says that each persisted frame holds the rows of the plan
  that marks it, and that the frames inside it are persisted too; without the second `PlansAssumption` would not apply to the cache
  the next query compiles with. A frame is never removed, so the set stays below the cache.

`PlansAssumption` is what these theorems assume of the optimizer and of the conversion to operators. `StandardFirst` is not among the
theorems: it is a property of what the rules return, and the rules are recursive operators over trees.

*The lineage.* `Inv` of `Lineage_proofs` has four parts.

- `TreeWell`: the tree that is built so far. `NodeWell` says of each operator what `TypeOK` says and `TableWell`, which is
  `TablesCorrect` for one place, and like it says nothing of the table of a `shadow` explode; children are built before their operator, so an operator that is added disturbs no table but its
  own. Its children get a parent, which is why the parent is part of it.
- `ListsHeld`: at places that the typing of `LineageAssumption` calls lists, values are lists. An explode makes a row for each
  element, and the model's rows have finitely many only for lists.
- `IdsApart`: two operators, neither of which is below the other, have no id in common. An operator that keeps the ids of its child has
  the child's, so ids are not unique in the lineage; but the two children of a join or union have different ones.
- `CursorWell`: until a call backwards fails `at` is where the caller believes to be, and the last answer is of rows there.
  Of a call forwards from a second child it says only that: what that answers is disagreement 4.

The work is in the operators: `AllMade`, from one lemma for each class (`SourceMade`, `ProjectMade`, `SortMade`, `FilterMade`, `LimitMade`,
`DistinctMade`, `ExplodeMade`, `AggregateMade`, `JoinMade`, `UnionMade`), says that over any frames whose rows have ids of their own,
the rows an operator makes with those ids are what it makes without them (`MadeByQuery`), and that of the rows one row is traced to
it makes just the rows that are traced to nothing else (`TracedWell`). A limit is the one operator for which this is a matter of
numbers: of the single row a row is traced to, it keeps one if it keeps any. `OrderFacts` shows, by well-founded induction again, that
the fold which gives the rows their new ids goes through each row once; `NamedIsWell` and `TableIsWell` carry the operator's
lemma over to the rows with ids. `TypeCorrect` then needs no more than that a set of rows told apart by their ids has as many ids.
`TracesCorrect` is an invariant by the cursor's steps alone, given that mappings lead to rows of the child.

*Assumptions.* Those of the cache are that caches, threads and keys are finitely many and that `None` is no value or row; those of the
stream that its bounds are positive; those of the sessions that threads are finitely many and `None` is none of them, and that the
numbers of clients, sessions and queries are natural; those of the queries that threads and the rows of a source are finitely many, that
the database a name gives is one of the catalog's, and `PlansAssumption`; those of the lineage are `LineageAssumption`.

Only model-checked, because the prover does not reach them: liveness under fairness (`CallsEnd`, `ShutdownEnds`, `StreamEnds`,
`OperationsEnd`, of which only `CallsEnd` assumes something of another program, the provider), and what the rules of `LogicalOptimizer` compute, that is `StandardFirst` and that the code's rules satisfy
`PlansAssumption`, which TLC evaluates for the plans of the run and all sets of persisted frames that may occur with them. Every other
invariant and action property of the runs that pass is a theorem.

## Not modelled

By number of lines most of the repository is stateless: builders of plans and expressions with argument checks
(`api/dataframe`, `api/functions`, `core/_logical_plan`), their conversion to protobuf messages and back
(`core/_serde`), one case per node and expression in the transpiler, constant tables of models and prices
(`core/_inference/model_catalog.py`), configuration classes, prompt templates, and Rust functions behind Polars expressions.
A model of these would repeat the code case by case and have no behaviour to check, so the share of the implementation
that the map covers stays small; `PROJECT.json` gives the reason for each part.

- `OutputTokenEstimator`: a quantile over a window, computed in one call; the size of a reservation is open in the client.
- DuckDB node merging: used by tests only; no query runs the rule.
- Cloud backend: clients of a remote service whose behaviour is not in the repository.
- Provider clients: formatting and one HTTP call; `ModelClient` has the outcomes such a call may have.
- Semantic operators: rendering and parsing around one call of a client. MCP server: registers plans as tools of a server library.
- Of the modelled parts: a clock that steps back; the order in which two provider hints are processed; the size of the cache's file, its
  statistics and key hashing; descriptions in the catalog; files, views and schema
  inference in the execution of queries; column types in the lineage; the directory of vector indexes that all sessions share.

The hazards in `PROJECT.json` name each at its line.

## Plan

Every component that is modelled has its theorems, except the optimizer, whose rules are recursive. What would add most next, in this order:

1. More kinds of operators in `LogicalOptimizer` than sources, filters and unions, and more plans in `MCQueryExecution`: that the rules
   satisfy `PlansAssumption` is checked plan by plan.
2. The output token estimator with the client's reservations, which `ModelClient` leaves open.
3. Files and views in `QueryExecution`: a file sink checks for its file as the table sink does for its table, without a lock.
