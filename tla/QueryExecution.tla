----------------------------- MODULE QueryExecution -----------------------------
(***************************************************************************)
(* Queries of one local session: LocalExecution (execution.py), the         *)
(* execution of physical plans (physical_plan/base.py), the frames they      *)
(* persist (temp_df_db_client.py), the sink that saves a table               *)
(* (physical_plan/sink.py) and the usage counters of the model clients,      *)
(* which all threads share.  The catalog is LocalCatalog's.                  *)
(*                                                                         *)
(* A job is a plan and, if it is saved, the table, the schema of the plan    *)
(* and the mode.  A plan runs operator by operator, children first; each     *)
(* operator executes, reads the usage, resets it, and persists its frame.    *)
(*                                                                         *)
(* Plans, predicates and the rules that rewrite them are constants here:     *)
(* LogicalOptimizer defines them, and TLC's instance takes them from there.  *)
(***************************************************************************)
EXTENDS Integers, SequencesExt, LocalCatalog

CONSTANTS
    Jobs,               \* [plan, table, schema, mode]; table is None for a query that is collected
    MaxCalls,           \* bound on the calls of all threads; a query that is collected counts twice
    NoKey,              \* the key of what is not persisted
    Rows,               \* the rows of a source
    CompileRaises(_),   \* do the rules raise on a plan?
    Compiled(_, _),     \* the operators of a plan, when frames are persisted under some keys
    MeaningOf(_),       \* the frame a plan means
    PersistedBy(_),     \* the frames it persists: [key, rows, within], with the keys of those inside
    Kept(_, _),         \* the rows of a frame that a predicate keeps
    CallsOf(_),         \* the model calls a predicate makes for a row
    ConjunctsOf(_)

ASSUME JobsAssumption ==
    /\ MaxCalls \in Nat
    /\ IsFiniteSet(Rows)
    /\ None \notin Jobs
    /\ \A j \in Jobs :
          /\ j.table \in Names \cup {None}
          /\ j.schema \in Schemas
          /\ j.mode \in {"error", "ignore", "append", "overwrite"}

----------------------------------------------------------------------------
(* Operators and the frames they leave. *)

\* The frames after an operator: a union takes two, a source and a persisted frame none.
After(frames, o, rows) ==
    LET n == Len(frames)
    IN  CASE o.op = "source" -> Append(frames, Rows)
          [] o.op = "read" -> Append(frames, rows)
          [] o.op = "filter" -> [frames EXCEPT ![n] = Kept(o.pred, @)]
          [] o.op = "union" -> Append(SubSeq(frames, 1, n - 2), frames[n - 1] \cup frames[n])

\* Has it a frame to persist?  CacheReadExec and the sources have no cache_info.
Writes(o) == o.key # NoKey /\ o.op \notin {"source", "read"}

\* The keys that the first n operators write.
Written(ops, n) == {ops[m].key : m \in {k \in 1 .. n : Writes(ops[k])}}

\* All the frames the jobs persist, and the rows under a key.
Frames == UNION {PersistedBy(j.plan) : j \in Jobs}
Keys == {f.key : f \in Frames}
RowsOf(key) == UNION {f.rows : f \in {g \in Frames : g.key = key}}

\* A frame is persisted after those inside it.
Closed(keys) == \A f \in Frames : f.key \in keys => f.within \subseteq keys

\* The frames after each operator, if what is read holds what was to be persisted.
Stacks(ops) ==
    LET after[n \in 0 .. Len(ops)] ==
            IF n = 0 THEN <<>> ELSE After(after[n - 1], ops[n], RowsOf(ops[n].key))
    IN  after

\* An operator that can run on these frames.
Runs(o, frames) ==
    \/ o.op \in {"source", "read"}
    \/ /\ o.op = "filter" /\ Len(frames) >= 1
       /\ CallsOf(o.pred) \in Nat /\ \A frame \in SUBSET Rows : Kept(o.pred, frame) \subseteq frame
    \/ o.op = "union" /\ Len(frames) >= 2

\* No read of a key nothing is persisted under: _convert_to_physical_plan plans one for a
\* source that is marked and occurs twice.
Readable(ops, n) == \A m \in 1 .. n : ops[m].op = "read" => ops[m].key \in Keys

\* What a query relies on when it runs the operators of a plan: alone, they end with the
\* frame the plan means; each frame written is one the plan persists, after those inside
\* it; and each frame the plan persists was there or is written, before it is read.
Sound(plan, keys) ==
    LET ops == Compiled(plan, keys)
        stacks == Stacks(ops)
        There(n) == keys \cup Written(ops, n)
    IN  /\ ops \in Seq(Range(ops)) /\ ops # <<>>
        /\ \A n \in DOMAIN ops : Readable(ops, n - 1) =>
              /\ Runs(ops[n], stacks[n - 1])
              /\ Writes(ops[n]) => \E f \in PersistedBy(plan) :
                    f.key = ops[n].key /\ f.rows = Last(stacks[n]) /\ f.within \subseteq There(n - 1)
              /\ \A f \in PersistedBy(plan) :
                    ops[n].op = "read" /\ ops[n].key = f.key => f.key \in There(n - 1)
        /\ Readable(ops, Len(ops)) => stacks[Len(ops)] = <<MeaningOf(plan)>>
        /\ \A f \in PersistedBy(plan) : f.key \in There(Len(ops))

\* A key stands for one frame, and every plan is sound whatever was persisted before.
ASSUME PlansAssumption ==
    /\ \A f, g \in Frames : f.key = g.key => f = g
    /\ \A j \in Jobs, keys \in SUBSET Keys :
          ~ CompileRaises(j.plan) /\ Closed(keys) => Sound(j.plan, keys)

----------------------------------------------------------------------------
VARIABLES
    pc,         \* where each thread is
    job,        \* the job it executes
    steps,      \* the operators it has still to execute
    stack,      \* the frames its next operators take
    target,     \* the table its insert or replace resolved
    read,       \* the usage it read and has not reset
    taken,      \* the usage its operators reported
    cache,      \* the persisted frames: key to rows
    asked,      \* the calls of its operator that its clients have not counted yet
    late,       \* those of operators that failed, whose responses are still to come
    usage,      \* the counters of the session's clients
    owed,       \* history: the usage of model calls that is not in the metrics table yet, nor
                \* was reported by operators of a query that failed
    mixed,      \* history: the counters were used or read between a thread's read and reset
    left        \* the calls still allowed

queryVars == <<pc, job, steps, stack, target>>
usageVars == <<read, taken, asked, late, usage, owed, mixed>>
vars == <<catalogVars, queryVars, usageVars, cache, left>>

NoJob == None

Init ==
    /\ CatalogInit
    /\ pc = [t \in Threads |-> "idle"]
    /\ job = [t \in Threads |-> NoJob]
    /\ steps = [t \in Threads |-> <<>>]
    /\ stack = [t \in Threads |-> <<>>]
    /\ target = [t \in Threads |-> None]
    /\ read = [t \in Threads |-> 0]
    /\ taken = [t \in Threads |-> 0]
    /\ asked = [t \in Threads |-> 0]
    /\ late = 0
    /\ cache = <<>>
    /\ usage = 0
    /\ owed = 0
    /\ mixed = FALSE
    /\ left = MaxCalls

Goto(t, place) == pc' = [pc EXCEPT ![t] = place]

\* A call that is over, whatever its outcome.
End(t) ==
    /\ Goto(t, "idle")
    /\ job' = [job EXCEPT ![t] = NoJob]
    /\ steps' = [steps EXCEPT ![t] = <<>>]
    /\ stack' = [stack EXCEPT ![t] = <<>>]
    /\ target' = [target EXCEPT ![t] = None]
    /\ read' = [read EXCEPT ![t] = 0]
    /\ taken' = [taken EXCEPT ![t] = 0]
    /\ asked' = [asked EXCEPT ![t] = 0]

----------------------------------------------------------------------------
(* save_as_table: _should_write_table, and in mode append the schemas. *)

Ready(t) == pc[t] = "idle" /\ creating[t] = None /\ saving[t] = None

Weight(j) == IF j.table = None THEN 2 ELSE 1

Begin(t, j) ==
    /\ Ready(t)
    /\ left >= Weight(j)
    /\ left' = left - Weight(j)
    /\ job' = [job EXCEPT ![t] = j]
    /\ Goto(t, IF j.table = None THEN "plan" ELSE "should_write")
    /\ UNCHANGED <<catalogVars, steps, stack, target, usageVars, cache>>

ShouldWrite(t) ==
    /\ pc[t] = "should_write"
    /\ Free(t)
    /\ IF Exists(Resolve(job[t].table)) /\ job[t].mode \in {"error", "ignore"}
       THEN End(t)                                  \* PlanError, or the empty metrics
       ELSE /\ Goto(t, IF Exists(Resolve(job[t].table)) /\ job[t].mode = "append"
                       THEN "compare" ELSE "plan")
            /\ UNCHANGED <<job, steps, stack, target, read, taken, asked>>
    /\ UNCHANGED <<catalogVars, late, usage, owed, mixed, cache, left>>

\* describe_table resolves the name once more.
HasSchema(id, schema) == id \in DOMAIN described /\ described[id] = schema

Compare(t) ==
    /\ pc[t] = "compare"
    /\ Free(t)
    /\ IF HasSchema(Resolve(job[t].table), job[t].schema)
       THEN Goto(t, "plan") /\ UNCHANGED <<job, steps, stack, target, read, taken, asked>>
       ELSE End(t)
    /\ UNCHANGED <<catalogVars, late, usage, owed, mixed, cache, left>>

----------------------------------------------------------------------------
(* _execute_query: transpile, execute, record the metrics. *)

Sink == [op |-> "sink", key |-> NoKey, pred |-> None]

\* Mutant: a frame is taken for persisted when a query plans it.
Available_Planned == Keys

\* is_df_cached, which convert asks for each key.
Available == DOMAIN cache

\* The rules run first, and an AttributeError of theirs ends the query.
Transpile(t) ==
    /\ pc[t] = "plan"
    /\ IF CompileRaises(job[t].plan)
       THEN End(t)
       ELSE /\ steps' = [steps EXCEPT ![t] =
                            Compiled(job[t].plan, Available)
                            \o (IF job[t].table = None THEN <<>> ELSE <<Sink>>)]
            /\ Goto(t, "execute")
            /\ UNCHANGED <<job, stack, target, read, taken, asked>>
    /\ UNCHANGED <<catalogVars, late, usage, owed, mixed, cache, left>>

Operation(t) == Head(steps[t])

Executed(t) == After(stack[t], Operation(t), cache[Operation(t).key])

\* A filter calls its models for each row it is given.
CallsMade(t) ==
    IF Operation(t).op = "filter"
    THEN CallsOf(Operation(t).pred) * Cardinality(Last(stack[t]))
    ELSE 0

\* execute_node submits the calls of a filter, ...
Ask(t) ==
    /\ pc[t] = "execute"
    /\ Operation(t).op # "sink"
    /\ CallsMade(t) > 0
    /\ asked' = [asked EXCEPT ![t] = CallsMade(t)]
    /\ Goto(t, "asking")
    /\ UNCHANGED <<catalogVars, job, steps, stack, target, read, taken, late, usage, owed, mixed,
                   cache, left>>

\* A thread has read the counters and has not reset them.
Reading == \E u \in Threads : pc[u] = "reset"

\* ... each response is counted, on the loop thread, when it arrives, ...
Count ==
    /\ usage' = usage + 1
    /\ owed' = owed + 1
    /\ mixed' = (mixed \/ Reading)
    /\ UNCHANGED <<catalogVars, queryVars, read, taken, cache, left>>

Responds(t) ==
    /\ asked[t] > 0
    /\ asked' = [asked EXCEPT ![t] = @ - 1]
    /\ Count
    /\ UNCHANGED late

\* ... be it after the operator has failed, for want of another response, ...
RespondsLate ==
    /\ late > 0
    /\ late' = late - 1
    /\ Count
    /\ UNCHANGED asked

\* ... and the operator returns when all have arrived.
Execute(t) ==
    /\ \/ pc[t] = "execute" /\ Operation(t).op # "sink" /\ CallsMade(t) = 0
       \/ pc[t] = "asking" /\ asked[t] = 0
    /\ Operation(t).op = "read" => Operation(t).key \in DOMAIN cache       \* see Fail
    /\ stack' = [stack EXCEPT ![t] = Executed(t)]
    /\ Goto(t, "metrics")
    /\ UNCHANGED <<catalogVars, job, steps, target, usageVars, cache, left>>

\* get_model_metrics, over clients all queries of the session share, ...
ReadMetrics(t) ==
    /\ pc[t] = "metrics"
    /\ read' = [read EXCEPT ![t] = usage]
    /\ mixed' = (mixed \/ Reading)
    /\ Goto(t, "reset")
    /\ UNCHANGED <<catalogVars, job, steps, stack, target, taken, asked, late, usage, owed, cache, left>>

\* The next operator, or the end of the plan.
Advance(t) ==
    /\ steps' = [steps EXCEPT ![t] = Tail(@)]
    /\ Goto(t, IF Len(steps[t]) = 1 THEN "record" ELSE "execute")

\* Mutant: the counters are left as they are.
Reset_Keeps(t) == UNCHANGED usage

Reset(t) == usage' = 0

\* ... and reset_model_metrics.
ResetMetrics(t) ==
    /\ pc[t] = "reset"
    /\ Reset(t)
    /\ taken' = [taken EXCEPT ![t] = @ + read[t]]
    /\ read' = [read EXCEPT ![t] = 0]
    /\ IF Writes(Operation(t)) THEN Goto(t, "persist") /\ UNCHANGED steps ELSE Advance(t)
    /\ UNCHANGED <<catalogVars, job, stack, target, asked, late, owed, mixed, cache, left>>

\* is_df_cached
Persist(t) ==
    /\ pc[t] = "persist"
    /\ IF Operation(t).key \in DOMAIN cache
       THEN Advance(t)
       ELSE Goto(t, "write") /\ UNCHANGED steps
    /\ UNCHANGED <<catalogVars, job, stack, target, usageVars, cache, left>>

\* CREATE TABLE, which fails if another query made the table meanwhile: see Fail.
WriteCached(t) ==
    /\ pc[t] = "write"
    /\ Operation(t).key \notin DOMAIN cache
    /\ cache' = With(cache, Operation(t).key, Last(stack[t]))
    /\ Advance(t)
    /\ UNCHANGED <<catalogVars, job, stack, target, usageVars, left>>

\* insert_query_metrics, and the frame is returned.
Record(t) ==
    /\ pc[t] = "record"
    /\ owed' = owed - taken[t]
    /\ End(t)
    /\ UNCHANGED <<catalogVars, late, usage, mixed, cache, left>>

----------------------------------------------------------------------------
(* DuckDBTableSinkExec.execute_node. *)

\* Mutant: the mode is not checked again.
Refuses_Never(mode) == FALSE

Refuses(mode) == mode \in {"error", "ignore"}

SinkChecks(t) ==
    /\ pc[t] = "execute"
    /\ Operation(t).op = "sink"
    /\ Free(t)
    /\ disturbed' = disturbed \ {t}
    /\ CASE ~ Exists(Resolve(job[t].table)) ->
              Goto(t, "create") /\ UNCHANGED <<owed, job, steps, stack, target, read, taken, asked>>
         [] Exists(Resolve(job[t].table)) /\ Refuses(job[t].mode) ->
              IF job[t].mode = "error"
              THEN End(t) /\ owed' = owed - taken[t]
              ELSE /\ Goto(t, "metrics")
                   /\ UNCHANGED <<owed, job, steps, stack, target, read, taken, asked>>
         [] OTHER ->
              /\ Goto(t, IF job[t].mode = "append" THEN "resolve_insert" ELSE "resolve_replace")
              /\ UNCHANGED <<owed, job, steps, stack, target, read, taken, asked>>
    /\ UNCHANGED <<dbs, current, tables, described, views, toolVars, lock, creating, raced,
                   late, usage, mixed, cache, left>>

SinkCreates(t) ==
    /\ pc[t] = "create"
    /\ WriteDfToTable(t, job[t].table, job[t].schema)
    /\ Goto(t, "metrics")
    /\ UNCHANGED <<job, steps, stack, target, usageVars, cache, left>>

\* insert_df_to_table: the name, then whether the table is there with this schema; a
\* missing table is left to the INSERT.
ResolveInsert(t) ==
    /\ pc[t] = "resolve_insert"
    /\ Free(t)
    /\ Exists(Resolve(job[t].table)) => HasSchema(Resolve(job[t].table), job[t].schema)
    /\ target' = [target EXCEPT ![t] = Resolve(job[t].table)]
    /\ Goto(t, "insert")
    /\ UNCHANGED <<catalogVars, job, steps, stack, usageVars, cache, left>>

SinkInserts(t) ==
    /\ pc[t] = "insert"
    /\ InsertDf(t, target[t])
    /\ Goto(t, "metrics")
    /\ UNCHANGED <<job, steps, stack, target, usageVars, cache, left>>

\* replace_table_with_df: the name, then the transaction.
ResolveReplace(t) ==
    /\ pc[t] = "resolve_replace"
    /\ Free(t)
    /\ target' = [target EXCEPT ![t] = Resolve(job[t].table)]
    /\ Goto(t, "replace")
    /\ UNCHANGED <<catalogVars, job, steps, stack, usageVars, cache, left>>

SinkReplaces(t) ==
    /\ pc[t] = "replace"
    /\ ReplaceTable(t, target[t], job[t].schema)
    /\ Goto(t, "metrics")
    /\ UNCHANGED <<job, steps, stack, target, usageVars, cache, left>>

\* An operator, a statement or the insert of the metrics fails, and the query with it:
\* because the frame to read was never written, that to write was written by another query
\* meanwhile, the schema is another, the table or its database is gone, or for a reason of
\* its own.  Of the calls it still waits for, some will yet be answered and counted.
Fail(t) ==
    /\ pc[t] \in {"execute", "asking", "write", "create", "resolve_insert", "insert", "replace",
                  "record"}
    /\ \E n \in 0 .. asked[t] : late' = late + n
    /\ owed' = owed - taken[t]
    /\ End(t)
    /\ UNCHANGED <<catalogVars, usage, mixed, cache, left>>

----------------------------------------------------------------------------
(* The other calls of the catalog. *)

Call(t) ==
    /\ Ready(t)
    /\ left > 0
    /\ left' = left - 1
    /\ CatalogCall(t) \/ \E n \in Names, s \in Schemas : CreateTableCheck(t, n, s)
    /\ UNCHANGED <<queryVars, usageVars, cache>>

CreateEnds(t) ==
    /\ CreateTable(t) \/ CreateTableFails(t) \/ SaveTool(t)
    /\ UNCHANGED <<queryVars, usageVars, cache, left>>

Query(t) ==
    \/ ShouldWrite(t) \/ Compare(t) \/ Transpile(t)
    \/ Ask(t) \/ Responds(t) \/ Execute(t) \/ ReadMetrics(t) \/ ResetMetrics(t) \/ Persist(t) \/ WriteCached(t) \/ Record(t)
    \/ SinkChecks(t) \/ SinkCreates(t) \/ ResolveInsert(t) \/ SinkInserts(t)
    \/ ResolveReplace(t) \/ SinkReplaces(t)

Next ==
    \/ \E t \in Threads :
        \/ \E j \in Jobs : Begin(t, j)
        \/ Query(t)
        \/ Fail(t)
        \/ Call(t)
        \/ CreateEnds(t)
    \/ RespondsLate

Spec == Init /\ [][Next]_vars

----------------------------------------------------------------------------
Places == {"idle", "should_write", "compare", "plan", "execute", "asking", "metrics", "reset", "persist",
           "write", "record", "create", "resolve_insert", "insert", "resolve_replace", "replace"}

TypeOK ==
    /\ CatalogTypeOK
    /\ pc \in [Threads -> Places]
    /\ \A t \in Threads :
          /\ job[t] \in Jobs \cup {NoJob} /\ (job[t] = NoJob <=> pc[t] = "idle")
          /\ stack[t] \in Seq(SUBSET Rows)
          /\ {read[t], taken[t], asked[t]} \subseteq Nat /\ (asked[t] # 0 => pc[t] = "asking")
    /\ {late, usage, left} \subseteq Nat /\ owed \in Int
    /\ mixed \in BOOLEAN

\* A query that ends returns the frame its plan means, whatever the rules made of the
\* plan, whichever of its frames it read and whoever persisted them; each persisted frame
\* is what its plan means, and the query has persisted all of its own.  A planned read
\* finds its table, which an operator before it, or another query, has written: convert
\* decides to read before either is executed.  Only a source that is marked to be persisted
\* and occurs twice in a plan is read and not found.
ResultsCorrect ==
    /\ \A t \in Threads : pc[t] = "record" =>
          /\ stack[t] = <<MeaningOf(job[t].plan)>>
          /\ \A frame \in PersistedBy(job[t].plan) : frame.key \in DOMAIN cache
    /\ \A frame \in Frames : frame.key \in DOMAIN cache => cache[frame.key] = frame.rows
    /\ \A t \in Threads :
          /\ pc[t] = "execute" /\ Operation(t).op = "read"
          /\ \E frame \in PersistedBy(job[t].plan) : frame.key = Operation(t).key
          => Operation(t).key \in DOMAIN cache

\* No row is sent to a model that a predicate without model calls would have removed: a
\* filter with calls has no such conjunct, nor has the filter directly above it, unless
\* its frame is persisted between them.
StandardFirst ==
    \A t \in Threads : \A k \in DOMAIN steps[t] :
        /\ steps[t][k].op = "filter"
        /\ CallsOf(steps[t][k].pred) > 0
        => /\ \A e \in ToSet(ConjunctsOf(steps[t][k].pred)) : CallsOf(e) > 0
           /\ k < Len(steps[t]) /\ steps[t][k].key = NoKey /\ steps[t][k + 1].op = "filter"
              => \A e \in ToSet(ConjunctsOf(steps[t][k + 1].pred)) : CallsOf(e) > 0

\* The usage of every model call that was counted is in the metrics table, in a query that
\* runs, on the counters or with the operators of a query that failed, once: as long as
\* nothing was counted and nobody else read between a thread's read and its reset.  What
\* another query counts there is lost, and so is a late response to a query that failed,
\* even one of the same thread.
UsageConserved ==
    LET Reported(t) == taken[t] + IF pc[t] = "reset" THEN read[t] ELSE 0
        OnCounters == IF Reading THEN 0 ELSE usage
    IN  mixed \/ owed = OnCounters + SumFunction([t \in Threads |-> Reported(t)])

\* What was saved stays until it is dropped or overwritten: no save in another mode
\* replaces a table that appeared after its checks, and create_tool replaces a tool only
\* if another thread saved it after the check.
OnlyOverwriteReplaces ==
    [][/\ \A id \in DOMAIN tables \cap DOMAIN tables' :
            ~ tables[id].rows \subseteq tables'[id].rows
            => \E t \in Threads : pc[t] = "replace" /\ job[t].mode = "overwrite"
       /\ \A tool \in DOMAIN tools \cap DOMAIN tools' :
            tools'[tool] # tools[tool] => \E t \in disturbed : saving[t] = tool]_vars
=============================================================================
