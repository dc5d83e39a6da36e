---------------------------- MODULE LogicalOptimizer ----------------------------
(***************************************************************************)
(* What PlanConverter.convert does to a plan before it is executed: the     *)
(* three rules over filters (core/_logical_plan/optimizer) and the          *)
(* conversion to physical operators with persisted frames                   *)
(* (transpiler/plan_converter.py).                                          *)
(*                                                                         *)
(* An expression is a leaf, a negation, a conjunction or a disjunction.  A   *)
(* leaf has the number of language model calls it makes for each row and    *)
(* its three-valued truth in each row.  A plan is a tree of sources,        *)
(* filters and unions, each with the key under which it is persisted, or    *)
(* NoKey.  Frames are sets of rows.                                          *)
(***************************************************************************)
EXTENDS Naturals, Sequences, SequencesExt

CONSTANTS
    NoKey,
    Rows,
    Truth       \* the truth of each leaf in each row: "T", "F" or "N" for null

Leaf(name, calls) == [op |-> "leaf", name |-> name, calls |-> calls]
Not(e) == [op |-> "not", arg |-> e]
And(l, r) == [op |-> "and", left |-> l, right |-> r]
Or(l, r) == [op |-> "or", left |-> l, right |-> r]

Source(key) == [op |-> "source", key |-> key]
Filter(pred, input, key) == [op |-> "filter", pred |-> pred, input |-> input, key |-> key]
Union(l, r, key) == [op |-> "union", left |-> l, right |-> r, key |-> key]

IsBoolean(e) == e.op \in {"and", "or"}

----------------------------------------------------------------------------
(* The reference: Polars evaluates with Kleene's logic and keeps the rows whose *)
(* predicate is true.                                                           *)

RECURSIVE Value(_, _)
Value(e, row) ==
    CASE e.op = "leaf" -> Truth[e.name][row]
      [] e.op = "not" -> LET v == Value(e.arg, row)
                         IN  IF v = "N" THEN "N" ELSE IF v = "T" THEN "F" ELSE "T"
      [] e.op = "and" -> LET vs == {Value(e.left, row), Value(e.right, row)}
                         IN  IF "F" \in vs THEN "F" ELSE IF "N" \in vs THEN "N" ELSE "T"
      [] e.op = "or" -> LET vs == {Value(e.left, row), Value(e.right, row)}
                        IN  IF "T" \in vs THEN "T" ELSE IF "N" \in vs THEN "N" ELSE "F"

Keep(pred, frame) == {row \in frame : Value(pred, row) = "T"}

RECURSIVE Meaning(_)
Meaning(plan) ==
    CASE plan.op = "source" -> Rows
      [] plan.op = "filter" -> Keep(plan.pred, Meaning(plan.input))
      [] plan.op = "union" -> Meaning(plan.left) \cup Meaning(plan.right)

\* count_semantic_predicate_expressions
RECURSIVE Calls(_)
Calls(e) ==
    CASE e.op = "leaf" -> e.calls
      [] e.op = "not" -> Calls(e.arg)
      [] IsBoolean(e) -> Calls(e.left) + Calls(e.right)

----------------------------------------------------------------------------
(* NotFilterPushdownRule.push_not_inward *)

RECURSIVE PushNotInward(_)
PushNotInward(e) ==
    CASE e.op = "leaf" -> e
      [] IsBoolean(e) -> [e EXCEPT !.left = PushNotInward(@), !.right = PushNotInward(@)]
      [] e.op = "not" /\ e.arg.op = "not" -> PushNotInward(e.arg.arg)
      [] e.op = "not" /\ e.arg.op = "or" ->
            And(PushNotInward(Not(e.arg.left)), PushNotInward(Not(e.arg.right)))
      [] OTHER -> Not(PushNotInward(e.arg))

\* A conjunction or a disjunction that has to be rebuilt is rebuilt with expr.operator,
\* which BooleanExpr does not have: an AttributeError.
RECURSIVE Raises(_)
Raises(e) ==
    CASE e.op = "leaf" -> FALSE
      [] IsBoolean(e) -> \E arg \in {e.left, e.right} : Raises(arg) \/ PushNotInward(arg) # arg
      [] e.op = "not" /\ e.arg.op = "not" -> Raises(e.arg.arg)
      [] e.op = "not" /\ e.arg.op = "or" ->
            \E arg \in {e.arg.left, e.arg.right} : Raises(Not(arg))
      [] OTHER -> Raises(e.arg)

RECURSIVE PushNots(_)
PushNots(plan) ==
    CASE plan.op = "source" -> plan
      [] plan.op = "filter" -> [plan EXCEPT !.input = PushNots(@), !.pred = PushNotInward(@)]
      [] plan.op = "union" -> [plan EXCEPT !.left = PushNots(@), !.right = PushNots(@)]

RECURSIVE PlanRaises(_)
PlanRaises(plan) ==
    CASE plan.op = "source" -> FALSE
      [] plan.op = "filter" -> PlanRaises(plan.input) \/ Raises(plan.pred)
      [] plan.op = "union" -> PlanRaises(plan.left) \/ PlanRaises(plan.right)

----------------------------------------------------------------------------
(* MergeFiltersRule: a filter over a filter that is not persisted. *)

Mergeable(input) == input.op = "filter" /\ input.key = NoKey

RECURSIVE MergeFilters(_)
MergeFilters(plan) ==
    CASE plan.op = "source" -> plan
      [] plan.op = "filter" ->
            LET input == MergeFilters(plan.input)
            IN  IF Mergeable(input)
                THEN Filter(And(plan.pred, input.pred), input.input, plan.key)
                ELSE [plan EXCEPT !.input = input]
      [] plan.op = "union" -> [plan EXCEPT !.left = MergeFilters(@), !.right = MergeFilters(@)]

----------------------------------------------------------------------------
(* SemanticFilterRewriteRule *)

RECURSIVE Conjuncts(_)
Conjuncts(e) == IF e.op = "and" THEN Conjuncts(e.left) \o Conjuncts(e.right) ELSE <<e>>

\* partition_predicates: those without calls, and the others by the number of calls.
Standard(e) == SelectSeq(Conjuncts(e), LAMBDA c : Calls(c) = 0)
Semantic(e) ==
    LET With(n) == SelectSeq(Conjuncts(e), LAMBDA c : Calls(c) = n)
    IN  FlattenSeq([n \in 1 .. Calls(e) |-> With(n)])

\* _make_and_expr
AndAll(preds) == FoldLeft(And, Head(preds), Tail(preds))

\* optimize_filter: a chain of filters, the last one with the key.
Rewritten(filter) ==
    LET preds == (IF Standard(filter.pred) = <<>> THEN <<>> ELSE <<AndAll(Standard(filter.pred))>>)
                 \o Semantic(filter.pred)
        Chain == FoldLeft(LAMBDA input, pred : Filter(pred, input, NoKey), filter.input, preds)
    IN  [Chain EXCEPT !.key = filter.key]

RECURSIVE RewriteSemantic(_)
RewriteSemantic(plan) ==
    CASE plan.op = "source" -> plan
      [] plan.op = "filter" ->
            LET new == [plan EXCEPT !.input = RewriteSemantic(@)]
            IN  IF new.pred.op = "and" /\ Calls(new.pred) > 0 THEN Rewritten(new) ELSE new
      [] plan.op = "union" ->
            [plan EXCEPT !.left = RewriteSemantic(@), !.right = RewriteSemantic(@)]

\* Mutant: negations are pushed inward last.
Optimized_NotsLast(plan) == PushNots(RewriteSemantic(MergeFilters(plan)))

\* PlanConverter.convert: the rules in their order.
Optimized(plan) == RewriteSemantic(MergeFilters(PushNots(plan)))

----------------------------------------------------------------------------
(* PlanConverter._convert_to_physical_plan: the operators in the order in which *)
(* PhysicalPlan.execute runs them.  A frame that is persisted already, or by an  *)
(* operator met before in this plan, is read.                                    *)

Operator(op, key, pred) == [op |-> op, key |-> key, pred |-> pred]
TrueLeaf == Leaf(NoKey, 0)

RECURSIVE Convert(_, _)
Convert(plan, seen) ==
    LET now == IF plan.key = NoKey THEN seen ELSE seen \cup {plan.key}
        self == <<Operator(plan.op, plan.key, IF plan.op = "filter" THEN plan.pred ELSE TrueLeaf)>>
    IN  CASE plan.key # NoKey /\ plan.key \in seen ->
                [steps |-> <<Operator("read", plan.key, TrueLeaf)>>, seen |-> seen]
          [] plan.op = "source" -> [steps |-> self, seen |-> now]
          [] plan.op = "filter" ->
                LET input == Convert(plan.input, now)
                IN  [steps |-> input.steps \o self, seen |-> input.seen]
          [] plan.op = "union" ->
                LET left == Convert(plan.left, now)
                    right == Convert(plan.right, left.seen)
                IN  [steps |-> left.steps \o right.steps \o self, seen |-> right.seen]

\* The frames a plan persists, with what each has to contain and the keys of those inside
\* it.  The operators of sources are built without cache_info, so a source is never persisted.
RECURSIVE Persisted(_)
Persisted(plan) ==
    LET Inside == CASE plan.op = "source" -> {}
                    [] plan.op = "filter" -> Persisted(plan.input)
                    [] plan.op = "union" -> Persisted(plan.left) \cup Persisted(plan.right)
        self == [key |-> plan.key, rows |-> Meaning(plan), within |-> {f.key : f \in Inside}]
    IN  Inside \cup (IF plan.key = NoKey \/ plan.op = "source" THEN {} ELSE {self})
=============================================================================
