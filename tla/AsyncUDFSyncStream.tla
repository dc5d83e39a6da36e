-------------------------- MODULE AsyncUDFSyncStream --------------------------
(***************************************************************************)
(* AsyncUDFSyncStream (_backends/local/async_udf_stream.py): an async        *)
(* generator on the event loop runs one task per item, a bounded number at  *)
(* a time, and yields the results in the order of the items to a thread.    *)
(*                                                                         *)
(* The generator is atomic between its awaits and yields; tasks make their  *)
(* steps between them.  Items are numbered from 1.                          *)
(***************************************************************************)
EXTENDS Integers, Sequences, FiniteSets

CONSTANTS
    NumItems,       \* how many items the caller gives
    MaxConcurrency, \* max_concurrency: permits of the semaphore
    MaxPending,     \* max_pending: 3 * max_concurrency in the code, 1000 at most
    MaxBuffer,      \* max_buffer_size: 10 * max_concurrency in the code, 50000 at most
    NumRetries      \* num_retries

ASSUME StreamAssumption ==
    /\ NumItems \in Nat
    /\ MaxConcurrency \in Nat \ {0}
    /\ MaxPending \in Nat \ {0}
    /\ MaxBuffer \in Nat \ {0}
    /\ NumRetries \in Nat

Items == 1..NumItems

VARIABLES
    taken,      \* items taken from the iterator
    exhausted,  \* _exhausted
    pending,    \* the keys of _pending
    results,    \* the keys of _results
    next,       \* _next_idx_to_yield
    output,     \* the outcomes yielded so far
    gen,        \* where the generator is
    awaited,    \* tasks_to_wait
    consumer,   \* what the calling thread does: "asking", "holding" or "gone"
    task,       \* the task of each item
    outcome,    \* the result of each item's task
    attempts    \* calls of fn made for each item

genVars == <<taken, exhausted, pending, results, next, output, gen, awaited>>
taskVars == <<task, outcome, attempts>>
vars == <<genVars, consumer, taskVars>>

Init ==
    /\ taken = 0
    /\ exhausted = FALSE
    /\ pending = {}
    /\ results = {}
    /\ next = 1
    /\ output = <<>>
    /\ gen = "start"
    /\ awaited = {}
    /\ consumer = "asking"
    /\ task = [i \in Items |-> "none"]
    /\ outcome = [i \in Items |-> "none"]
    /\ attempts = [i \in Items |-> 0]

----------------------------------------------------------------------------
(***************************************************************************)
(* The generator: _call_batch_async                                        *)
(***************************************************************************)
Least(a, b) == IF a < b THEN a ELSE b

\* Mutant: a full buffer does not stop the scheduling.
Room_IgnoresBuffer(p, r) == IF exhausted THEN 0 ELSE MaxPending - Cardinality(p)

\* can_schedule_more: how many more tasks may be created with p pending and r buffered.
Room(p, r) ==
    IF exhausted \/ Cardinality(r) >= MaxBuffer THEN 0 ELSE MaxPending - Cardinality(p)

\* Create tasks while there is room and there are items.
Schedule(p, r) ==
    LET n == Least(Room(p, r), NumItems - taken)
        new == (taken + 1)..(taken + n)
    IN  /\ taken' = taken + n
        /\ exhausted' = (exhausted \/ n < Room(p, r))
        /\ pending' = p \cup new
        /\ task' = [i \in Items |-> IF i \in new THEN "queued" ELSE task[i]]

\* The first __anext__.
Start ==
    /\ gen = "start"
    /\ Schedule({}, {})
    /\ gen' = "loop"
    /\ UNCHANGED <<results, next, output, awaited, consumer, outcome, attempts>>

\* Mutant: any buffered result will do.
Candidates_Any == results

\* The result that may be yielded: the one with the next index, once it is buffered.
Candidates == results \cap {next}

\* The next result is buffered: hand it to the consumer and stay suspended at the yield.
Yield ==
    /\ gen = "loop"
    /\ \E i \in Candidates :
           /\ output' = Append(output, outcome[i])
           /\ results' = results \ {i}
    /\ gen' = "suspended"
    /\ consumer' = "holding"
    /\ UNCHANGED <<taken, exhausted, pending, next, awaited, taskVars>>

\* The consumer asks for the next one; the index is advanced only now.
Resume ==
    /\ gen = "suspended"
    /\ consumer = "asking"
    /\ next' = next + 1
    /\ gen' = "loop"
    /\ UNCHANGED <<taken, exhausted, pending, results, output, awaited, consumer, taskVars>>

AwaitNext == Cardinality(results) >= MaxBuffer

\* Wait for the task of the next result if the buffer is full, else for any task.
\* Indexing _pending with an index that is not there would end the generator.
Wait ==
    /\ gen = "loop"
    /\ Candidates = {}
    /\ pending # {}
    /\ awaited' = IF AwaitNext THEN {next} ELSE pending
    /\ gen' = IF AwaitNext /\ next \notin pending THEN "failed" ELSE "waiting"
    /\ UNCHANGED <<taken, exhausted, pending, results, next, output, consumer, taskVars>>

\* Mutant: only one of the finished tasks is moved, the others are forgotten.
Moved_One(done) == {CHOOSE i \in done : TRUE}

Moved(done) == done

\* asyncio.wait returns every awaited task that is done by then.
Wake ==
    /\ gen = "waiting"
    /\ LET done == {i \in awaited : task[i] = "done"}
       IN  /\ done # {}
           /\ results' = results \cup Moved(done)
           /\ Schedule(pending \ done, results \cup Moved(done))
    /\ awaited' = {}
    /\ gen' = "loop"
    /\ UNCHANGED <<next, output, consumer, outcome, attempts>>

\* Nothing is ready and nothing is pending: the generator returns.
Finish ==
    /\ gen = "loop"
    /\ Candidates = {}
    /\ pending = {}
    /\ gen' = "ended"
    /\ UNCHANGED <<taken, exhausted, pending, results, next, output, awaited, consumer,
                   taskVars>>

Cancelled(p) == [i \in Items |-> IF i \in p THEN "cancelled" ELSE task[i]]

\* The abandoned generator is closed at its yield: _cancel_pending_tasks.
Close ==
    /\ gen = "suspended"
    /\ consumer = "gone"
    /\ task' = Cancelled(pending)
    /\ pending' = {}
    /\ gen' = "closed"
    /\ UNCHANGED <<taken, exhausted, results, next, output, awaited, consumer, outcome,
                   attempts>>

Generator == Start \/ Yield \/ Resume \/ Wait \/ Wake \/ Finish \/ Close

----------------------------------------------------------------------------
(***************************************************************************)
(* The calling thread: call, driven by the series it fills                 *)
(***************************************************************************)
Ask ==
    /\ consumer = "holding"
    /\ consumer' = "asking"
    /\ UNCHANGED <<genVars, taskVars>>

\* A result of the wrong type raises in the calling thread, which drops the generator.
Leave ==
    /\ consumer = "holding"
    /\ output[Len(output)] = "ok"
    /\ consumer' = "gone"
    /\ UNCHANGED <<genVars, taskVars>>

----------------------------------------------------------------------------
(***************************************************************************)
(* The tasks: call_with_index and _call                                    *)
(***************************************************************************)
\* Mutant: a task that gives up keeps its permit.
Inside_KeptOnError(i) == task[i] \in {"calling", "sleeping"} \/ outcome[i] = "error"

\* The task of i is inside the semaphore.
Inside(i) == task[i] \in {"calling", "sleeping"}

HasPermit == Cardinality({i \in Items : Inside(i)}) < MaxConcurrency

\* The semaphore serves the tasks in the order they came.
Acquire(i) ==
    /\ task[i] = "queued"
    /\ \A j \in Items : task[j] = "queued" => i <= j
    /\ HasPermit
    /\ task' = [task EXCEPT ![i] = "calling"]
    /\ attempts' = [attempts EXCEPT ![i] = @ + 1]
    /\ UNCHANGED <<genVars, consumer, outcome>>

Succeed(i) ==
    /\ task[i] = "calling"
    /\ task' = [task EXCEPT ![i] = "done"]
    /\ outcome' = [outcome EXCEPT ![i] = "ok"]
    /\ UNCHANGED <<genVars, consumer, attempts>>

\* Mutant: the last attempt is followed by a sleep too.
TriesLeft_OneMore(i) == attempts[i] <= NumRetries + 1

TriesLeft(i) == attempts[i] < NumRetries + 1

\* An error or a timeout: sleep, with the permit, and try again, or give the last error up.
Fail(i) ==
    /\ task[i] = "calling"
    /\ IF TriesLeft(i)
       THEN task' = [task EXCEPT ![i] = "sleeping"] /\ UNCHANGED outcome
       ELSE /\ task' = [task EXCEPT ![i] = "done"]
            /\ outcome' = [outcome EXCEPT ![i] = "error"]
    /\ UNCHANGED <<genVars, consumer, attempts>>

Retry(i) ==
    /\ task[i] = "sleeping"
    /\ task' = [task EXCEPT ![i] = "calling"]
    /\ attempts' = [attempts EXCEPT ![i] = @ + 1]
    /\ UNCHANGED <<genVars, consumer, outcome>>

Task(i) == Acquire(i) \/ Succeed(i) \/ Fail(i) \/ Retry(i)

----------------------------------------------------------------------------
Next ==
    \/ Generator
    \/ Ask
    \/ Leave
    \/ \E i \in Items : Task(i)

Spec == Init /\ [][Next]_vars

\* Calls time out and sleeps end, the loop runs what is ready, and the consumer, a
\* series that is filled, asks on or leaves.
Fairness ==
    /\ WF_vars(Generator)
    /\ WF_vars(Ask)
    /\ \A i \in Items : WF_vars(Task(i))

FairSpec == Spec /\ Fairness

----------------------------------------------------------------------------
(***************************************************************************)
(* Properties                                                              *)
(***************************************************************************)
\* The variables stay in their types, a call is made NumRetries + 1 times at most and no
\* more than MaxPending tasks are pending.
TypeOK ==
    /\ taken \in 0..NumItems
    /\ exhausted \in BOOLEAN
    /\ pending \subseteq Items /\ Cardinality(pending) <= MaxPending
    /\ results \subseteq Items
    /\ next \in 1..(NumItems + 1)
    /\ output \in Seq({"ok", "error"}) /\ Len(output) <= NumItems
    /\ gen \in {"start", "loop", "suspended", "waiting", "ended", "closed", "failed"}
    /\ awaited \subseteq Items
    /\ consumer \in {"asking", "holding", "gone"}
    /\ task \in [Items -> {"none", "queued", "calling", "sleeping", "done", "cancelled"}]
    /\ outcome \in [Items -> {"none", "ok", "error"}]
    /\ attempts \in [Items -> 0..(NumRetries + 1)]

\* The index the consumer waits for: at a yield it has not been advanced yet.
Front == IF gen \in {"suspended", "closed"} THEN next + 1 ELSE next

\* The items taken are those already yielded, those buffered and those pending, each in
\* one of them, with the yielded ones first: nothing is lost between the two dicts, so
\* the index the generator waits for with a full buffer is always pending.  And a stream
\* that has ended, or was abandoned and closed, leaves no task that may call fn.
Accounted ==
    /\ gen # "failed"
    /\ pending \cap results = {}
    /\ gen # "closed" => pending \cup results = Front..taken
    /\ gen = "closed" => results \subseteq Front..taken
    /\ \A i \in results : task[i] = "done"
    /\ gen \in {"ended", "closed"} => \A i \in Items : task[i] \notin {"queued", "calling", "sleeping"}

\* What the stream holds, buffered or pending, exceeds max_buffer_size by less than
\* max_pending, however many tasks finish together and however slow the next one is.
BufferBound == Cardinality(results) + Cardinality(pending) < MaxBuffer + MaxPending

\* The stream is an OrderedStream: outcomes in the order of the items, each its own
\* item's, and no end before the last item while fewer than MaxBuffer were yielded.
Ordered == INSTANCE OrderedStream WITH over <- gen \in {"ended", "closed"}
ImplementsOrderedStream == Ordered!Spec

\* Whatever the calls do, the stream ends or is left: the generator never waits for a
\* task that is not there and the permits are always given back.
StreamEnds == <>(gen \in {"ended", "closed"})

----------------------------------------------------------------------------
\* "Repeat until all items are processed" (async_udf_stream.py:36): a stream that ends
\* has answered every item.  With the buffer full nothing is scheduled, and when the one
\* task left answers, the buffer empties with nothing pending, and the generator returns.
AllItemsAnswered == gen = "ended" => Len(output) = NumItems
=============================================================================
