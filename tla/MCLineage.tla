------------------------------- MODULE MCLineage -------------------------------
(* Plans in which each operator meets duplicates, nulls and rows without a counterpart. *)
EXTENDS Lineage

CONSTANTS a, b, c, u, v

Row(k, x) == [k |-> k, x |-> x]
People == [op |-> "source", data |-> <<Row(a, <<u, v>>), Row(b, <<u>>), Row(a, <<v, Null>>), Row(b, <<>>)>>]
Cities == [op |-> "source", data |-> <<Row(a, <<u>>), Row(a, <<u>>), Row(c, Null)>>]

Sort == [op |-> "sort"]
Project == [op |-> "project"]
Filter == [op |-> "filter", keys |-> {a, c}]
Limit(n) == [op |-> "limit", n |-> n]
DropDuplicates(on) == [op |-> "drop_duplicates", on |-> on]
Explode(keep) == [op |-> "explode", keep |-> keep, of |-> "column"]
Aggregate(keyed) == [op |-> "aggregate", keyed |-> keyed]
Join(how) == [op |-> "join", how |-> how, pairs |-> {<<k, k>> : k \in {a, b, c}}]
SemanticJoin == [op |-> "join", how |-> "inner", pairs |-> {<<a, c>>, <<b, a>>, <<b, c>>}]
Union == [op |-> "union"]

Binary(op, left, right) == (Root :> op) @@ (<<Left>> :> left) @@ (<<Right>> :> right)

MCPlans ==
    {Binary(Join(how), People, Cities) : how \in {"inner", "full", "left", "right", "cross"}}
    \cup
    {Binary(SemanticJoin, People, Cities),
     \* the query of the tests: filter, explode, group by
     (Root :> Aggregate(TRUE)) @@ (<<1>> :> Explode(FALSE)) @@ (<<1, 1>> :> Filter) @@ (<<1, 1, 1>> :> People),
     \* a group of all rows, over a union of what is kept of one source and of another
     (Root :> Aggregate(FALSE)) @@ (<<1>> :> Union) @@ (<<1, 1>> :> Limit(2)) @@ (<<1, 2>> :> Cities)
        @@ (<<1, 1, 1>> :> People),
     \* duplicates on one column and on all
     Binary(Union, DropDuplicates("key"), DropDuplicates("all"))
        @@ (<<1, 1>> :> People) @@ (<<2, 1>> :> Sort) @@ (<<2, 1, 1>> :> Cities),
     (Root :> Project) @@ (<<1>> :> Explode(TRUE)) @@ (<<1, 1>> :> People),
     \* an expression with the name of the list column it explodes
     (Root :> [op |-> "explode", keep |-> TRUE, of |-> "shadow"]) @@ (<<1>> :> People),
     \* two that have no lineage
     (Root :> [op |-> "explode", keep |-> TRUE, of |-> "expression"]) @@ (<<1>> :> People),
     Binary([op |-> "sql"], People, Cities)}
=============================================================================
