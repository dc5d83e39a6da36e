---------------------------- MODULE MCQueryExecution ----------------------------
(* Two threads over plans that exercise each rule and saves in each mode. *)
EXTENDS QueryExecution

CONSTANTS d1, d2, t1, t2, x, y, tool, Truth

Symmetry == Permutations(Threads)

Bare == [db |-> None, name |-> "n"]
Qualified == [db |-> d2, name |-> "n"]
MCNames == {Bare, Qualified}
MCRows == 1 .. 3
MCTruth ==
    [a |-> <<"T", "N", "T">>,
     s |-> <<"T", "T", "F">>,
     w |-> <<"T", "N", "F">>]

Plan == INSTANCE LogicalOptimizer
MCCompileRaises(plan) == Plan!PlanRaises(plan)
MCCompiled(plan, keys) == Plan!Convert(Plan!Optimized(plan), keys).steps
MCMeaningOf(plan) == Plan!Meaning(plan)
MCPersistedBy(plan) == Plan!Persisted(plan)
MCKept(pred, frame) == Plan!Keep(pred, frame)
MCCallsOf(pred) == Plan!Calls(pred)
MCConjunctsOf(pred) == Plan!Conjuncts(pred)

a == Plan!Leaf("a", 0)
s == Plan!Leaf("s", 1)
w == Plan!Leaf("w", 2)

Read == Plan!Source(NoKey)
Shared == Plan!Filter(s, Read, "k")

Plans ==
    {\* split, in the order of the calls; a persisted frame inside a persisted frame
     Plan!Filter(Plan!And(w, Plan!And(s, a)), Shared, "j"),
     \* pushed inward, then split, over a persisted frame
     Plan!Filter(Plan!Not(Plan!Or(w, Plan!Not(a))), Shared, NoKey),
     \* merged, then split; a frame persisted and read
     Plan!Union(Plan!Filter(a, Plan!Filter(s, Read, NoKey), NoKey), Plan!Union(Shared, Shared, NoKey), NoKey),
     \* a frame that is never written
     Plan!Union(Plan!Source("i"), Plan!Source("i"), NoKey),
     \* the rules raise
     Plan!Filter(Plan!And(Plan!Not(Plan!Not(a)), w), Read, NoKey)}

Save(n, schema, mode) == [plan |-> Read, table |-> n, schema |-> schema, mode |-> mode]
MCJobs ==
    {[plan |-> p, table |-> None, schema |-> x, mode |-> "error"] : p \in Plans}
    \cup {Save(Bare, x, mode) : mode \in {"error", "ignore", "append"}}
    \cup {Save(Bare, y, "overwrite"), Save(Qualified, x, "overwrite")}
=============================================================================
