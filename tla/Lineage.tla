-------------------------------- MODULE Lineage --------------------------------
(***************************************************************************)
(* The lineage of one query: build_lineage (physical_plan/base.py) executes  *)
(* the plan once more, operator by operator, with an id in each row          *)
(* (_uuid), and keeps for each operator its frame (materialize_...) and for  *)
(* each child the ids its rows came from (backwards_...).  LocalLineage      *)
(* (lineage.py) is a cursor on that tree, which a caller moves by tracing    *)
(* rows forwards and backwards.                                              *)
(*                                                                         *)
(* A plan is a function from places, the sides taken from the root, to       *)
(* operators.  A frame is a set of rows: their order is left out, so a limit *)
(* keeps any of them.  A row has a key and a value, which stand for the      *)
(* columns that operators compare and those they compute.                    *)
(***************************************************************************)
EXTENDS Naturals, FiniteSets, FiniteSetsExt, SequencesExt

CONSTANTS
    Plans,
    Null,
    None,
    MaxCalls    \* bound on the calls of the caller

Left == 1
Right == 2

VARIABLES
    plan,
    phase,      \* "building", "failed" or "ready"
    nodes,      \* the operators built: the rows, the mapping to each child, the parent
    next,       \* ids given out
    at,         \* curr_operator
    known,      \* history: where the calls that returned have left the caller
    astray,     \* history: a call backwards failed since the caller last started from a source
    last,       \* the last answer: [call, from, side, ids, rows]
    calls

vars == <<plan, phase, nodes, next, at, known, astray, last, calls>>
cursorVars == <<at, known, astray, last, calls>>

Root == <<>>
Child(p, side) == Append(p, side)
SidesIn(pl, p) == {side \in {Left, Right} : Child(p, side) \in DOMAIN pl}
Sides(p) == SidesIn(plan, p)

\* The operators with one child and with two; SQL may have any number.
OfOne == {"project", "sort", "filter", "limit", "drop_duplicates", "explode", "aggregate"}
OfTwo == {"join", "union"}
Arity(op) == IF op.op \in OfTwo THEN {Left, Right} ELSE IF op.op \in OfOne THEN {Left} ELSE {}

IsList(x) == x = Null \/ IsFiniteSet(DOMAIN x)

\* Can the column be of a list type at these places?
HoldLists(pl, places) ==
    \A p \in places :
        CASE pl[p].op = "source" -> \A n \in DOMAIN pl[p].data : IsList(pl[p].data[n].x)
          [] pl[p].op \in {"project", "aggregate", "join"} -> TRUE
          [] pl[p].op = "explode" -> FALSE
          [] OTHER -> \A side \in SidesIn(pl, p) : Child(p, side) \in places

\* A plan is a tree of operators with their children.  An explode is of a list column, of
\* an expression that takes the name of a list column ("shadow"), here a list of the
\* column's value alone, or of an expression with another name.
WellFormed(pl) ==
    /\ Root \in DOMAIN pl /\ DOMAIN pl \subseteq Seq({Left, Right})
    /\ \A p \in DOMAIN pl :
          /\ p # Root => Front(p) \in DOMAIN pl
          /\ pl[p].op \in OfOne \cup OfTwo \cup {"source", "sql"}
          /\ pl[p].op # "sql" => SidesIn(pl, p) = Arity(pl[p])
          /\ pl[p].op = "source" => IsFiniteSet(DOMAIN pl[p].data)
          /\ pl[p].op = "limit" => pl[p].n \in Nat
          /\ pl[p].op = "drop_duplicates" => pl[p].on \in {"key", "all"}
          /\ pl[p].op = "explode" => pl[p].of \in {"column", "shadow", "expression"}
    /\ \E places \in SUBSET DOMAIN pl :
          /\ HoldLists(pl, places)
          /\ \A p \in DOMAIN pl :
                pl[p].op = "explode" /\ pl[p].of # "expression" => Child(p, Left) \in places

ASSUME LineageAssumption == MaxCalls \in Nat /\ \A pl \in Plans : WellFormed(pl)

Init ==
    /\ plan \in Plans
    /\ phase = "building"
    /\ nodes = <<>>
    /\ next = 0
    /\ at = Root
    /\ known = Root
    /\ astray = FALSE
    /\ last = None
    /\ calls = 0

----------------------------------------------------------------------------
(* What the operators make of the frames of their children: rows with the   *)
(* ids they came from on each side, and a number that tells apart the rows    *)
(* of one explode.  The result is a set, of the frames they may make.         *)

Made(k, x, from, nr) == [k |-> k, x |-> x, from |-> from, nr |-> nr]

\* Types are left out: an in-memory source gives its frame to the lineage before it coerces
\* them, and to the query after.
Sourced(op) == {{Made(op.data[n].k, op.data[n].x, <<>>, n) : n \in DOMAIN op.data}}

\* _build_row_subset_lineage: execute_node on the frame of the child, ids and all.
Subsets(frame, kept) == {{Made(r.k, r.x, <<{r.uuid}>>, 0) : r \in S} : S \in kept}

Projected(frame) == {{Made(r.k, Null, <<{r.uuid}>>, 0) : r \in frame}}

Filtered(op, frame) == Subsets(frame, {{r \in frame : r.k \in op.keys}})

Limited(op, frame) ==
    LET n == Cardinality(frame)
    IN  Subsets(frame, kSubset(IF op.n < n THEN op.n ELSE n, frame))

\* Without a subset of columns all are compared, and _uuid is one of them while the
\* lineage is built.
Duplicates(op, ids, r, s) ==
    IF op.on = "key" THEN r.k = s.k
    ELSE r.k = s.k /\ r.x = s.x /\ (ids => r.uuid = s.uuid)

\* One row of each class of duplicates.
Distinct(op, frame, ids) ==
    LET classes == {{s \in frame : Duplicates(op, ids, r, s)} : r \in frame}
    IN  Subsets(frame, {S \in SUBSET frame : \A class \in classes : Cardinality(S \cap class) = 1})

\* A null or empty list explodes to a null.
Elements(x) == IF x \in {Null, <<>>} THEN <<Null>> ELSE x

\* The lineage explodes the column of the name and computes no expression.
List(op, r, ids) == IF op.of = "column" \/ ids THEN r.x ELSE <<r.x>>

Exploded(op, frame, ids) ==
    LET Of(r) == Elements(List(op, r, ids))
    IN  {UNION {{Made(r.k, Of(r)[n], <<{r.uuid}>>, n) :
                    n \in {m \in DOMAIN Of(r) : op.keep \/ Of(r)[m] # Null}} :
                r \in frame}}

\* A group, its size and its ids.  Without keys all rows are one group.
Grouped(op, frame) ==
    LET groups == {{s \in frame : op.keyed => s.k = r.k} : r \in frame}
        Key(g) == IF op.keyed THEN (CHOOSE r \in g : TRUE).k ELSE Null
    IN  {{Made(Key(g), <<Cardinality(g)>>, <<{r.uuid : r \in g}>>, 0) : g \in groups}}

\* Does the join, or the model that decides a semantic join, pair the rows?
Pairs(op, l, r) == op.how = "cross" \/ <<l.k, r.k>> \in op.pairs

\* Rows without a counterpart have nulls in its columns, _left_uuid or _right_uuid among them.
Joined(op, left, right) ==
    LET Value(r) == <<r.k, r.x>>
        both == {p \in left \X right : Pairs(op, p[1], p[2])}
        onlyLeft == IF op.how \in {"left", "full"} THEN left \ {p[1] : p \in both} ELSE {}
        onlyRight == IF op.how \in {"right", "full"} THEN right \ {p[2] : p \in both} ELSE {}
    IN  {{Made(IF op.how = "right" THEN p[2].k ELSE p[1].k, <<Value(p[1]), Value(p[2])>>,
               <<{p[1].uuid}, {p[2].uuid}>>, 0) : p \in both}
         \cup {Made(l.k, <<Value(l), Null>>, <<{l.uuid}, {}>>, 0) : l \in onlyLeft}
         \cup {Made(IF op.how = "right" THEN r.k ELSE Null, <<Null, Value(r)>>,
                    <<{}, {r.uuid}>>, 0) : r \in onlyRight}}

Unioned(left, right) ==
    {{Made(r.k, r.x, <<{r.uuid}, {}>>, 0) : r \in left}
     \cup {Made(r.k, r.x, <<{}, {r.uuid}>>, 0) : r \in right}}

\* The frames the operator may make, for the lineage, where rows have their ids among their
\* columns (ids), and for the query.
Makes(op, frames, ids) ==
    CASE op.op = "source" -> Sourced(op)
      [] op.op = "project" -> Projected(frames[1])
      [] op.op = "sort" -> Subsets(frames[1], {frames[1]})
      [] op.op = "filter" -> Filtered(op, frames[1])
      [] op.op = "limit" -> Limited(op, frames[1])
      [] op.op = "drop_duplicates" -> Distinct(op, frames[1], ids)
      [] op.op = "explode" -> Exploded(op, frames[1], ids)
      [] op.op = "aggregate" -> Grouped(op, frames[1])
      [] op.op = "join" -> Joined(op, frames[1], frames[2])
      [] op.op = "union" -> Unioned(frames[1], frames[2])

----------------------------------------------------------------------------
(* build_node_lineage, children first, from left to right. *)

Before(p, q) ==
    \/ IsStrictPrefix(q, p)
    \/ \E n \in 1 .. Len(q) :
          /\ n <= Len(p)
          /\ SubSeq(p, 1, n - 1) = SubSeq(q, 1, n - 1)
          /\ p[n] = Left /\ q[n] = Right

Turn(p) ==
    /\ phase = "building"
    /\ p \in DOMAIN plan \ DOMAIN nodes
    /\ \A q \in DOMAIN plan : Before(q, p) => q \in DOMAIN nodes

Frames(p) == [side \in Sides(p) |-> nodes[Child(p, side)].rows]

\* Mutant: an explode forgets to give its rows ids of their own.
KeepsIds_Explode(op) ==
    op.op \in {"project", "sort", "filter", "limit", "drop_duplicates", "explode"}

\* Operators whose rows keep the ids of the child's.
KeepsIds(op) == op.op \in {"project", "sort", "filter", "limit", "drop_duplicates"}

InOrder(made) == FoldSet(LAMBDA m, s : Append(s, m), <<>>, made)

\* The rows made, each with its id.
Named(op, made) ==
    IF KeepsIds(op)
    THEN {[uuid |-> CHOOSE u \in m.from[1] : TRUE, made |-> m] : m \in made}
    ELSE {[uuid |-> next + n, made |-> InOrder(made)[n]] : n \in DOMAIN InOrder(made)}

RowsOf(named) == {[uuid |-> n.uuid, k |-> n.made.k, x |-> n.made.x] : n \in named}

\* Mutant: a group is mapped to one of its rows only.
Mapping_First(named, side) ==
    {<<n.uuid, CHOOSE u \in n.made.from[side] : TRUE>> : n \in {m \in named : m.made.from[side] # {}}}

\* The table that maps the rows to those of one child; the null of a row without a
\* counterpart, which matches no id, is left out.
Mapping(named, side) == UNION {{<<n.uuid, u>> : u \in n.made.from[side]} : n \in named}

Build(p) ==
    /\ Turn(p)
    /\ plan[p].op # "sql"
    /\ plan[p].op = "explode" => plan[p].of # "expression"
    /\ \E made \in Makes(plan[p], Frames(p), TRUE) :
          LET named == Named(plan[p], made)
              node == [rows |-> RowsOf(named),
                       back |-> [side \in Sides(p) |-> Mapping(named, side)],
                       parent |-> None]
          IN  /\ nodes' = [q \in DOMAIN nodes \cup {p} |->
                              IF q = p THEN node
                              ELSE IF \E side \in Sides(p) : q = Child(p, side)
                                   THEN [nodes[q] EXCEPT !.parent = p]
                                   ELSE nodes[q]]
              /\ next' = IF KeepsIds(plan[p]) THEN next ELSE next + Cardinality(made)
    /\ phase' = IF p = Root THEN "ready" ELSE phase
    /\ UNCHANGED <<plan, cursorVars>>

\* An operator fails: SQL has no lineage, an expression that explode computes is no column
\* here, a persisted frame was never written, a read or a model call fails.
BuildFails ==
    /\ phase = "building"
    /\ phase' = "failed"
    /\ UNCHANGED <<plan, nodes, next, cursorVars>>

----------------------------------------------------------------------------
(* LocalLineage. *)

Answer(call, side, ids, rows) ==
    [call |-> call, from |-> known, side |-> side, ids |-> ids, rows |-> rows]

Calls ==
    /\ phase = "ready"
    /\ calls < MaxCalls
    /\ calls' = calls + 1
    /\ UNCHANGED <<plan, phase, nodes, next>>

\* get_leaf_nodes
Sources == {p \in DOMAIN plan : Sides(p) = {}}

StartFromSource(source) ==
    /\ Calls
    /\ at' = source
    /\ known' = source
    /\ astray' = FALSE
    /\ last' = None

Above(p) == nodes[p].parent

\* The mapping read is that of the first child, whichever the cursor is on.
MappingAbove(p) == nodes[Above(p)].back[Left]

Forwards(ids) ==
    /\ Calls
    /\ Above(at) # None                         \* else ValueError
    /\ at' = Above(at)
    /\ known' = Above(at)
    /\ last' = Answer("forwards", None, ids,
                      {r \in nodes[Above(at)].rows : \E id \in ids : <<r.uuid, id>> \in MappingAbove(at)})
    /\ UNCHANGED astray

\* Mutant: the cursor has moved when a table cannot be read.
StaysIfFails_Moved(place) == at' = place

StaysIfFails(place) == at' = at

\* A table cannot be read.
ForwardsFails ==
    /\ Calls
    /\ Above(at) # None
    /\ StaysIfFails(Above(at))
    /\ last' = None
    /\ UNCHANGED <<known, astray>>

\* _validate_backwards_trace_inputs: a side with two children, none with one.  A source,
\* which has an empty list of children, is not refused: an IndexError ends the call.
Backwards(side, ids) ==
    /\ Calls
    /\ side \in Sides(at)
    /\ at' = Child(at, side)
    /\ known' = Child(at, side)
    /\ last' = Answer("backwards", side, ids,
                      {r \in nodes[Child(at, side)].rows :
                          \E id \in ids : <<id, r.uuid>> \in nodes[at].back[side]})
    /\ UNCHANGED astray

\* The cursor has moved when a table cannot be read.
BackwardsFails(side) ==
    /\ Calls
    /\ side \in Sides(at)
    /\ at' = Child(at, side)
    /\ astray' = TRUE
    /\ last' = None
    /\ UNCHANGED known

Ids(rows) == {r.uuid : r \in rows}

\* Ids a caller has: of a row or of all rows of the operator it knows, or of the last answer.
Asked ==
    {{id} : id \in Ids(nodes[known].rows)} \cup {Ids(nodes[known].rows)}
    \cup IF last = None THEN {} ELSE {Ids(last.rows)}

Next ==
    \/ \E p \in DOMAIN plan : Build(p)
    \/ BuildFails
    \/ phase = "ready" /\
          \/ \E source \in Sources : StartFromSource(source)
          \/ \E ids \in Asked : Forwards(ids)
          \/ ForwardsFails
          \/ \E side \in {Left, Right} : (\E ids \in Asked : Backwards(side, ids)) \/ BackwardsFails(side)

Spec == Init /\ [][Next]_vars

----------------------------------------------------------------------------
\* Operators are built children first, each row has an id of its own, and the mappings
\* lead from the rows of an operator to rows of its children.
TypeOK ==
    /\ phase \in {"building", "failed", "ready"} /\ (phase = "ready" => DOMAIN nodes = DOMAIN plan)
    /\ DOMAIN nodes \subseteq DOMAIN plan
    /\ \A p \in DOMAIN nodes :
          /\ Ids(nodes[p].rows) \subseteq 1 .. next
          /\ Cardinality(Ids(nodes[p].rows)) = Cardinality(nodes[p].rows)
          /\ \A side \in Sides(p) :
                nodes[p].back[side] \subseteq Ids(nodes[p].rows) \X Ids(nodes[Child(p, side)].rows)
    /\ {at, known} \subseteq DOMAIN plan /\ astray \in BOOLEAN /\ calls \in 0 .. MaxCalls

\* A frame without ids: how often it has each key and value.
Contents(rows) ==
    LET Content(r) == <<r.k, r.x>>
    IN  [c \in {Content(r) : r \in rows} |-> Cardinality({r \in rows : Content(r) = c})]

Origins(p, side, r) == {c \in nodes[Child(p, side)].rows : <<r.uuid, c.uuid>> \in nodes[p].back[side]}

\* Where the lineage explodes another list than the query does.
IsShadow(op) == op.op = "explode" /\ op.of = "shadow"

\* Each frame of the lineage is one the query makes of the frames below it, and the rows a
\* row is traced to explain it: of them alone the operator makes exactly the rows that are
\* traced to nothing else.  An explode of an expression that takes the name of a column is
\* excepted (AnswersAsDocumented shows what becomes of it), and duplicates that the query
\* drops, comparing all columns, are still there.
TablesCorrect ==
    \A p \in {q \in DOMAIN nodes : ~ IsShadow(plan[q])} :
        LET op == plan[p]
            rows == nodes[p].rows
            Of(frames) == {Contents(made) : made \in Makes(op, frames, FALSE)}
            Explained(r) ==
                {s \in rows : \A side \in Sides(p) : Origins(p, side, s) \subseteq Origins(p, side, r)}
        IN  /\ \/ Contents(rows) \in Of(Frames(p))
               \/ op.op = "drop_duplicates" /\ op.on = "all"
            /\ Sides(p) # {} => \A r \in rows :
                  /\ \E side \in Sides(p) : Origins(p, side, r) # {}
                  /\ Contents(Explained(r)) \in Of([side \in Sides(p) |-> Origins(p, side, r)])

\* The rows of an operator, backwards from it and forwards to it.
TracedBack(p, side, ids) ==
    UNION {Origins(p, side, r) : r \in {s \in nodes[p].rows : s.uuid \in ids}}

TracedForth(p, side, ids) ==
    {r \in nodes[p].rows : \E c \in Origins(p, side, r) : c.uuid \in ids}

\* A trace answers for the operator where the calls that returned have left the caller:
\* backwards with the rows of one of its children that those asked for came from, and
\* forwards, from a first child, with the rows that came from them, until a call backwards
\* has failed.  What becomes of the rest is shown by AnswersAsDocumented.
TracesCorrect ==
    (last # None /\ ~ astray) =>
        /\ last.call = "backwards" =>
              /\ last.side \in Sides(last.from)
              /\ last.rows = TracedBack(last.from, last.side, last.ids)
        /\ last.call = "forwards" =>
              /\ last.from # Root
              /\ Last(last.from) = Left =>
                    last.rows = TracedForth(Front(last.from), Left, last.ids)
        /\ at = known

\* "Get the result of the query as a Polars DataFrame" (get_result_df): when the lineage is
\* built, its root has a frame that the query makes of the frames below.
ResultIsOfTheQuery ==
    phase = "ready" =>
        Contents(nodes[Root].rows) \in
            {Contents(made) : made \in Makes(plan[Root], Frames(Root), FALSE)}

\* Every answer is the one documented: forwards the "DataFrame containing the transformed
\* rows in the next operation", backwards the "DataFrame containing the source rows that
\* produced the specified outputs", of the operator the caller has been told of, on
\* whichever side it is and whatever has failed before.
TracesAsDocumented ==
    last # None =>
        /\ last.call = "backwards" =>
              /\ last.side \in Sides(last.from)
              /\ last.rows = TracedBack(last.from, last.side, last.ids)
        /\ last.call = "forwards" =>
              /\ last.from # Root
              /\ last.rows = TracedForth(Front(last.from), Last(last.from), last.ids)

\* What get_result_df, backwards and forwards answer is what their documentation says.
AnswersAsDocumented == ResultIsOfTheQuery /\ TracesAsDocumented
=============================================================================
