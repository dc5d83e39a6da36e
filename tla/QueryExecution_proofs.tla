------------------------- MODULE QueryExecution_proofs -------------------------
(***************************************************************************)
(* Proofs about QueryExecution and LocalCatalog: for any threads, jobs,       *)
(* rows, databases, names and tools, and whatever the rules make of a plan    *)
(* within PlansAssumption, the catalog stays consistent, only an overwrite    *)
(* replaces a table, queries return what their plans mean, and usage is       *)
(* counted once.  The catalog, the counters and the plans are proved about    *)
(* one after the other: each part of the invariant needs few of the others.   *)
(***************************************************************************)
EXTENDS QueryExecution, FiniteSetTheorems, SequenceTheorems, WellFoundedInduction, TLAPS

----------------------------------------------------------------------------
(* Sums over the threads. *)

\* A set of numbers that is not empty has a least one.
LEMMA LeastElement ==
    ASSUME NEW T, T \subseteq Nat, T # {}
    PROVE  \E x \in T : \A y \in T : x <= y
  <1> DEFINE Below == {ss \in Nat \X Nat : ss[1] < ss[2]}
  <1>1. Below = OpToRel(<, Nat)
    BY Zenon DEF OpToRel
  <1>2. IsWellFoundedOn(Below, Nat)
    BY <1>1, NatLessThanWellFounded, Zenon
  <1>3. \A x, y \in Nat : y < x => <<y, x>> \in Below
    OBVIOUS
  <1> HIDE DEF Below
  <1>4. PICK x \in T : \A y \in T : <<y, x>> \notin Below
    BY <1>2, WFMin
  <1>5. \A y \in T : ~ (y < x)
    BY <1>3, <1>4
  <1>6. \A y \in T : x <= y
    BY <1>5
  <1> QED
    BY <1>6

\* The fold behind SumFunction: what it makes of each part of the domain.
Some(s) == CHOOSE x \in s : TRUE
SumOf(f, s, sums) == IF s = {} THEN 0 ELSE f[Some(s)] + sums[s \ {Some(s)}]
Sums(f) == CHOOSE sums : sums = [s \in SUBSET DOMAIN f |-> SumOf(f, s, sums)]

LEMMA SumIs == ASSUME NEW f PROVE SumFunction(f) = Sums(f)[DOMAIN f]
  BY Zenon DEF SumFunction, SumFunctionOnSet, FoldFunctionOnSet, MapThenFoldSet, Sums, SumOf, Some

\* Taking an element of a finite set.
LEMMA SmallerPart ==
    ASSUME NEW s, IsFiniteSet(s), s # {}
    PROVE  /\ Some(s) \in s /\ s \ {Some(s)} \subseteq s /\ IsFiniteSet(s \ {Some(s)})
           /\ Cardinality(s) \in Nat /\ Cardinality(s) > 0
           /\ Cardinality(s \ {Some(s)}) = Cardinality(s) - 1
  <1>1. Some(s) \in s
    BY DEF Some
  <1>2. IsFiniteSet(s \ {Some(s)}) /\ Cardinality(s \ {Some(s)}) = Cardinality(s) - 1
    BY <1>1, FS_RemoveElement
  <1>3. Cardinality(s) \in Nat /\ Cardinality(s) # 0
    BY FS_CardinalityType, FS_EmptySet
  <1> QED
    BY <1>1, <1>2, <1>3

\* The recursion has a solution, so the fold satisfies its equation.
LEMMA SumsDefined ==
    ASSUME NEW T, IsFiniteSet(T), NEW f \in [T -> Int]
    PROVE  /\ Sums(f) \in [SUBSET T -> Int]
           /\ \A s \in SUBSET T : Sums(f)[s] = SumOf(f, s, Sums(f))
  <1> DEFINE Parts(n) == {s \in SUBSET T : Cardinality(s) <= n}
             Solves(g, n) == g \in [Parts(n) -> Int] /\ \A s \in Parts(n) : g[s] = SumOf(f, s, g)
             Open == {n \in Nat : ~ \E g : Solves(g, n)}
  <1>1. \A s \in SUBSET T : IsFiniteSet(s) /\ Cardinality(s) \in Nat /\ Cardinality(s) <= Cardinality(T)
    BY FS_Subset, FS_CardinalityType
  <1>2. Open = {}
    <2>1. SUFFICES ASSUME Open # {} PROVE FALSE
      OBVIOUS
    <2>2. PICK n \in Open : \A m \in Open : n <= m
      BY <2>1, LeastElement
    <2>3. PICK g : (n # 0 => Solves(g, n - 1)) /\ (n = 0 => g = f)
      <3>1. CASE n = 0
        BY <3>1
      <3>2. CASE n # 0
        <4>1. n \in Nat /\ n - 1 \in Nat /\ ~ (n <= n - 1)
          BY <2>2, <3>2
        <4> HIDE DEF Solves
        <4>2. \E g : Solves(g, n - 1)
          BY <2>2, <4>1
        <4> QED
          BY <3>2, <4>2
      <3> QED
        BY <3>1, <3>2
    <2> DEFINE h == [s \in Parts(n) |-> SumOf(f, s, g)]
    <2>4. ASSUME NEW s \in Parts(n), s # {}
          PROVE  n # 0 /\ s \ {Some(s)} \in Parts(n - 1) /\ s \ {Some(s)} \in Parts(n) /\ Some(s) \in T
      BY <1>1, <2>2, <2>4, SmallerPart
    <2>5. ASSUME NEW s \in Parts(n) PROVE h[s] \in Int
      <3>1. CASE s = {}
        BY <3>1 DEF SumOf
      <3>2. CASE s # {}
        BY <2>3, <2>4, <3>2 DEF SumOf
      <3> QED
        BY <3>1, <3>2
    <2>6. ASSUME NEW s \in Parts(n - 1), n # 0 PROVE s \in Parts(n) /\ h[s] = g[s]
      <3>1. s \in Parts(n)
        BY <1>1, <2>2, <2>6
      <3> QED
        BY <2>3, <2>6, <3>1
    <2>7. ASSUME NEW s \in Parts(n) PROVE h[s] = SumOf(f, s, h)
      <3>1. CASE s = {}
        BY <3>1 DEF SumOf
      <3>2. CASE s # {}
        <4>1. h[s \ {Some(s)}] = g[s \ {Some(s)}]
          BY <2>4, <2>6, <3>2
        <4> QED
          BY <3>2, <4>1 DEF SumOf
      <3> QED
        BY <3>1, <3>2
    <2>8. Solves(h, n)
      BY <2>5, <2>7
    <2> QED
      BY <2>2, <2>8
  <1>3. PICK g : Solves(g, Cardinality(T))
    BY <1>2, FS_CardinalityType
  <1>4. Parts(Cardinality(T)) = SUBSET T
    BY <1>1
  <1>5. g \in [SUBSET T -> Int] /\ \A s \in SUBSET T : g[s] = SumOf(f, s, g)
    BY <1>3, <1>4
  <1>6. g = [s \in SUBSET DOMAIN f |-> SumOf(f, s, g)]
    BY <1>5
  <1>7. Sums(f) = [s \in SUBSET DOMAIN f |-> SumOf(f, s, Sums(f))]
    BY <1>6 DEF Sums
  <1>8. \A s \in SUBSET T : Sums(f)[s] = SumOf(f, s, Sums(f))
    BY <1>7
  <1> DEFINE Bad == {n \in Nat : \E s \in SUBSET T : Cardinality(s) = n /\ Sums(f)[s] \notin Int}
  <1>9. Bad = {}
    <2>1. SUFFICES ASSUME Bad # {} PROVE FALSE
      OBVIOUS
    <2>2. PICK n \in Bad : \A m \in Bad : n <= m
      BY <2>1, LeastElement
    <2>3. PICK s \in SUBSET T : Cardinality(s) = n /\ Sums(f)[s] \notin Int
      BY <2>2
    <2>4. s # {}
      <3>1. CASE s = {}
        <4>1. Sums(f)[s] = 0
          BY <1>8, <3>1 DEF SumOf
        <4> QED
          BY <2>3, <4>1
      <3> QED
        BY <3>1
    <2>5. PICK x, r : x = Some(s) /\ r = s \ {Some(s)}
      OBVIOUS
    <2>6. r \in SUBSET T /\ Cardinality(r) = n - 1 /\ n - 1 \in Nat /\ x \in T /\ ~ (n <= n - 1)
      <3>1. IsFiniteSet(s)
        BY <1>1, <2>3
      <3>2. x \in s /\ r \subseteq s /\ Cardinality(r) = n - 1 /\ n \in Nat /\ n > 0
        BY <2>3, <2>4, <2>5, <3>1, SmallerPart
      <3> QED
        BY <2>3, <3>2
    <2>7. Sums(f)[r] \in Int
      BY <2>2, <2>6
    <2>8. Sums(f)[s] = f[x] + Sums(f)[r]
      BY <1>8, <2>3, <2>4, <2>5 DEF SumOf
    <2> QED
      BY <2>3, <2>6, <2>7, <2>8
  <1>10. \A s \in SUBSET T : Sums(f)[s] \in Int
    BY <1>1, <1>9
  <1> QED
    BY <1>7, <1>8, <1>10

\* A sum changes by what one of its terms does.
LEMMA SumChanges ==
    ASSUME NEW T, IsFiniteSet(T), NEW f \in [T -> Int], NEW t \in T, NEW v \in Int
    PROVE  /\ SumFunction(f) \in Int
           /\ SumFunction([f EXCEPT ![t] = v]) = SumFunction(f) + (v - f[t])
  <1>1. PICK g : g = [f EXCEPT ![t] = v]
    OBVIOUS
  <1>2. g \in [T -> Int] /\ g[t] = v /\ \A u \in T : u # t => g[u] = f[u]
    BY <1>1
  <1>3. PICK F, G : F = Sums(f) /\ G = Sums(g)
    OBVIOUS
  <1>4. /\ F \in [SUBSET T -> Int] /\ \A s \in SUBSET T : F[s] = SumOf(f, s, F)
        /\ G \in [SUBSET T -> Int] /\ \A s \in SUBSET T : G[s] = SumOf(g, s, G)
    BY <1>2, <1>3, SumsDefined
  <1> DEFINE Change(s) == IF t \in s THEN v - f[t] ELSE 0
             Bad == {n \in Nat : \E s \in SUBSET T : Cardinality(s) = n /\ G[s] # F[s] + Change(s)}
  <1>5. \A s \in SUBSET T : IsFiniteSet(s) /\ Cardinality(s) \in Nat
    BY FS_Subset, FS_CardinalityType
  <1>6. Bad = {}
    <2>1. SUFFICES ASSUME Bad # {} PROVE FALSE
      OBVIOUS
    <2>2. PICK n \in Bad : \A m \in Bad : n <= m
      BY <2>1, LeastElement
    <2>3. PICK s \in SUBSET T : Cardinality(s) = n /\ G[s] # F[s] + Change(s)
      BY <2>2
    <2>4. s # {}
      <3>1. CASE s = {}
        <4>1. F[s] = 0 /\ G[s] = 0
          BY <1>4, <3>1 DEF SumOf
        <4> QED
          BY <2>3, <3>1, <4>1
      <3> QED
        BY <3>1
    <2>5. PICK x, r : x = Some(s) /\ r = s \ {Some(s)}
      OBVIOUS
    <2>6. r \in SUBSET T /\ Cardinality(r) = n - 1 /\ n - 1 \in Nat /\ x \in T /\ x \in s /\ r = s \ {x} /\ ~ (n <= n - 1)
      BY <1>5, <2>2, <2>3, <2>4, <2>5, SmallerPart
    <2>7. G[r] = F[r] + Change(r)
      BY <2>2, <2>6
    <2>8. F[s] = f[x] + F[r] /\ G[s] = g[x] + G[r]
      BY <1>4, <2>3, <2>4, <2>5 DEF SumOf
    <2>9. /\ F[r] \in Int /\ f[x] \in Int /\ F[s] \in Int /\ f[t] \in Int
      BY <1>4, <2>3, <2>6
    <2>10. CASE x = t
      <3>1. Change(r) = 0 /\ Change(s) = v - f[t] /\ g[x] = v
        BY <1>2, <2>6, <2>10
      <3> HIDE DEF Change
      <3> QED
        BY <2>3, <2>7, <2>8, <2>9, <2>10, <3>1
    <2>11. CASE x # t
      <3>1. Change(r) = Change(s) /\ g[x] = f[x] /\ Change(r) \in Int
        BY <1>2, <2>6, <2>9, <2>11
      <3> HIDE DEF Change
      <3> QED
        BY <2>3, <2>7, <2>8, <2>9, <3>1
    <2> QED
      BY <2>10, <2>11
  <1>7. G[T] = F[T] + (v - f[t]) /\ F[T] \in Int
    BY <1>4, <1>5, <1>6
  <1>8. SumFunction(f) = F[T] /\ SumFunction(g) = G[T]
    BY <1>2, <1>3, SumIs
  <1> QED
    BY <1>1, <1>7, <1>8

\* Terms that are all zero.
LEMMA SumOfZeros ==
    ASSUME NEW T, IsFiniteSet(T)
    PROVE  SumFunction([t \in T |-> 0]) = 0
  <1>1. PICK f : f = [t \in T |-> 0]
    OBVIOUS
  <1>2. PICK F : F = Sums(f)
    OBVIOUS
  <1>3. F \in [SUBSET T -> Int] /\ \A s \in SUBSET T : F[s] = SumOf(f, s, F)
    BY <1>1, <1>2, SumsDefined
  <1> DEFINE Bad == {n \in Nat : \E s \in SUBSET T : Cardinality(s) = n /\ F[s] # 0}
  <1>4. \A s \in SUBSET T : IsFiniteSet(s) /\ Cardinality(s) \in Nat
    BY FS_Subset, FS_CardinalityType
  <1>5. Bad = {}
    <2>1. SUFFICES ASSUME Bad # {} PROVE FALSE
      OBVIOUS
    <2>2. PICK n \in Bad : \A m \in Bad : n <= m
      BY <2>1, LeastElement
    <2>3. PICK s \in SUBSET T : Cardinality(s) = n /\ F[s] # 0
      BY <2>2
    <2>4. s # {}
      <3>1. CASE s = {}
        <4>1. F[s] = 0
          BY <1>3, <3>1 DEF SumOf
        <4> QED
          BY <2>3, <4>1
      <3> QED
        BY <3>1
    <2>5. PICK x, r : x = Some(s) /\ r = s \ {Some(s)}
      OBVIOUS
    <2>6. r \in SUBSET T /\ Cardinality(r) = n - 1 /\ n - 1 \in Nat /\ x \in T /\ ~ (n <= n - 1)
      <3>1. IsFiniteSet(s)
        BY <1>4, <2>3
      <3>2. x \in s /\ r \subseteq s /\ Cardinality(r) = n - 1 /\ n \in Nat /\ n > 0
        BY <2>3, <2>4, <2>5, <3>1, SmallerPart
      <3> QED
        BY <2>3, <3>2
    <2>7. F[r] = 0
      BY <2>2, <2>6
    <2>8. F[s] = f[x] + F[r] /\ f[x] = 0
      BY <1>1, <1>3, <2>3, <2>4, <2>5, <2>6 DEF SumOf
    <2> QED
      BY <2>3, <2>7, <2>8
  <1>6. F[T] = 0
    BY <1>4, <1>5
  <1> QED
    BY <1>1, <1>2, <1>6, SumIs

----------------------------------------------------------------------------
(* The inductive invariant. *)

Requests == {[id |-> <<d, n.name>>, schema |-> schema] : d \in Databases, n \in Names, schema \in Schemas}
Contents == [schema : Schemas, rows : SUBSET Threads]

\* The catalog is well typed; the threads hold what create_table and create_tool found absent.
CatalogTyped ==
    /\ CatalogTypeOK
    /\ creating \in [Threads -> Requests \cup {None}]
    /\ saving \in [Threads -> Tools \cup {None}]
    /\ \A id \in DOMAIN tables : tables[id] \in Contents

\* The variables of the queries are; a thread in a query is in no other call.
QueryTyped ==
    /\ pc \in [Threads -> Places]
    /\ job \in [Threads -> Jobs \cup {NoJob}]
    /\ DOMAIN steps = Threads /\ DOMAIN target = Threads
    /\ stack \in [Threads -> Seq(SUBSET Rows)]
    /\ read \in [Threads -> Nat] /\ taken \in [Threads -> Nat]
    /\ asked \in [Threads -> Nat] /\ late \in Nat
    /\ usage \in Nat /\ left \in Nat /\ owed \in Int /\ mixed \in BOOLEAN
    /\ \A t \in Threads : asked[t] # 0 => pc[t] = "asking"
    /\ \A t \in Threads : job[t] = NoJob <=> pc[t] = "idle"
    /\ \A t \in Threads : creating[t] = None \/ saving[t] = None
    /\ \A t \in Threads : pc[t] # "idle" => creating[t] = None /\ saving[t] = None

\* What a thread found absent is absent still, unless another one changed the catalog since.
AbsentFor(t) ==
    /\ creating[t] # None => ~ Exists(creating[t].id)
    /\ pc[t] = "create" => ~ Exists(Resolve(job[t].table))
    /\ saving[t] # None => saving[t] \notin DOMAIN tools

StillAbsent == \A t \in Threads \ disturbed : AbsentFor(t)

OverwriteOnly ==
    \A t \in Threads : pc[t] \in {"resolve_replace", "replace"} => job[t].mode = "overwrite"

\* What a thread's operators reported, with what it read and has not reset.
Reports == [t \in Threads |-> taken[t] + IF pc[t] = "reset" THEN read[t] ELSE 0]
OnCounters == IF Reading THEN 0 ELSE usage

\* Before its plan is there.
Early == {"idle", "should_write", "compare", "plan"}

\* Nothing is reported before an operator ran, and while nobody stepped between them one
\* thread at most is between its read of the counters and the reset.
Counted ==
    /\ \A t \in Threads : pc[t] \in Early => taken[t] = 0
    /\ ~ mixed => \A t, u \in Threads : pc[t] = "reset" /\ pc[u] = "reset" => t = u
    /\ ~ mixed => owed = OnCounters + SumFunction(Reports)

\* The persisted frames hold what they have to, and those inside them are persisted too.
CacheCorrect ==
    /\ DOMAIN cache \subseteq Keys
    /\ Closed(DOMAIN cache)
    /\ \A key \in DOMAIN cache : cache[key] = RowsOf(key) /\ cache[key] \subseteq Rows

SinkOf(t) == IF job[t].table = None THEN <<>> ELSE <<Sink>>

\* The operators from the n-th on, and the sink.
Rest(ops, n, sink) == SubSeq(ops, n, Len(ops)) \o sink

\* The first n operators ran: their frames are on the stack, all they read is persisted by
\* some plan.
Ran(t, ops, n) == stack[t] = Stacks(ops)[n] /\ Readable(ops, n)

\* A query at operator n of its plan, ...
InPlan(t, ops, n) ==
    /\ pc[t] \in {"execute", "asking", "metrics", "reset", "persist", "write"}
    /\ steps[t] = Rest(ops, n, SinkOf(t))
    /\ Ran(t, ops, IF pc[t] \in {"execute", "asking"} THEN n - 1 ELSE n)
    /\ Written(ops, n - 1) \subseteq DOMAIN cache
    /\ pc[t] \notin {"execute", "asking"} => stack[t] # <<>>
    /\ pc[t] \in {"persist", "write"} => Writes(ops[n])

\* ... and one that is past them, at its sink or at its end.
PastPlan(t, ops) ==
    /\ \/ pc[t] \notin {"asking", "persist", "write", "record"} /\ steps[t] = <<Sink>>
       \/ pc[t] = "record" /\ steps[t] = <<>>
    /\ Ran(t, ops, Len(ops))
    /\ Written(ops, Len(ops)) \subseteq DOMAIN cache

\* A query runs what its plan was compiled to when some of the frames that are persisted
\* now were.
Follows(t, keys) ==
    LET ops == Compiled(job[t].plan, keys)
    IN  (\E n \in 1 .. Len(ops) : InPlan(t, ops, n)) \/ PastPlan(t, ops)

OnPlan(t) ==
    IF pc[t] \in Early
    THEN stack[t] = <<>>
    ELSE /\ ~ CompileRaises(job[t].plan)
         /\ \E keys \in SUBSET DOMAIN cache : Closed(keys) /\ Follows(t, keys)

PlanFollowed == \A t \in Threads : OnPlan(t)

Inv ==
    /\ CatalogTyped /\ QueryTyped
    /\ CatalogConsistent /\ StillAbsent /\ OverwriteOnly
    /\ Counted
    /\ CacheCorrect /\ PlanFollowed

----------------------------------------------------------------------------
(* The operators of a plan. *)

\* The recursion behind Stacks has a solution, so Stacks satisfies its equation.
LEMMA StacksDefined ==
    ASSUME NEW ops, Len(ops) \in Nat
    PROVE  /\ Stacks(ops)[0] = <<>>
           /\ \A n \in 1 .. Len(ops) :
                Stacks(ops)[n] = After(Stacks(ops)[n - 1], ops[n], RowsOf(ops[n].key))
  <1> DEFINE Step(s, n) == IF n = 0 THEN <<>> ELSE After(s[n - 1], ops[n], RowsOf(ops[n].key))
             Open == {n \in Nat : ~ \E s : s = [k \in 0 .. n |-> Step(s, k)]}
  <1>1. Open = {}
    <2>1. SUFFICES ASSUME Open # {} PROVE FALSE
      OBVIOUS
    <2>2. PICK n \in Open : \A m \in Open : n <= m
      BY <2>1, LeastElement
    <2>3. n \in Nat
      OBVIOUS
    <2>4. PICK s : n # 0 => s = [k \in 0 .. n - 1 |-> Step(s, k)]
      <3>1. CASE n = 0
        BY <3>1
      <3>2. CASE n # 0
        <4>1. n - 1 \in Nat /\ ~ (n <= n - 1)
          BY <2>3, <3>2
        <4> HIDE DEF Step
        <4>2. \E s : s = [k \in 0 .. n - 1 |-> Step(s, k)]
          BY <2>2, <4>1
        <4> QED
          BY <4>2
      <3> QED
        BY <3>1, <3>2
    <2> DEFINE new == [k \in 0 .. n |-> Step(s, k)]
    <2>5. ASSUME NEW k \in 0 .. n PROVE Step(s, k) = Step(new, k)
      <3>1. CASE k = 0
        BY <3>1
      <3>2. CASE k # 0
        <4>1. k - 1 \in 0 .. n /\ k - 1 \in 0 .. n - 1 /\ n # 0
          BY <2>3, <2>5, <3>2
        <4>2. s[k - 1] = Step(s, k - 1)
          <5> HIDE DEF Step
          <5> QED
            BY <2>4, <4>1
        <4>3. new[k - 1] = Step(s, k - 1)
          BY <4>1
        <4> QED
          BY <3>2, <4>2, <4>3
      <3> QED
        BY <3>1, <3>2
    <2>6. new = [k \in 0 .. n |-> Step(new, k)]
      <3> HIDE DEF Step
      <3> QED
        BY <2>5
    <2> QED
      BY <2>2, <2>6
  <1>2. \E s : s = [n \in 0 .. Len(ops) |-> Step(s, n)]
    BY <1>1
  <1>3. Stacks(ops) = [n \in 0 .. Len(ops) |-> Step(Stacks(ops), n)]
    BY <1>2, Zenon DEF Stacks
  <1> HIDE DEF Step
  <1>4. \A n \in 0 .. Len(ops) : Stacks(ops)[n] = Step(Stacks(ops), n)
    BY <1>3
  <1> QED
    BY <1>4 DEF Step

\* A sequence that starts with an element.
LEMMA FirstOf ==
    ASSUME NEW S, NEW first \in Seq(S), NEW rest \in Seq(S), Len(first) = 1
    PROVE  /\ Head(first \o rest) = first[1] /\ Tail(first \o rest) = rest
           /\ Len(first \o rest) = 1 + Len(rest)
  <1>1. /\ first \o rest \in Seq(S) /\ Len(first \o rest) = Len(first) + Len(rest)
        /\ \A i \in 1 .. Len(first) + Len(rest) :
              (first \o rest)[i] = IF i <= Len(first) THEN first[i] ELSE rest[i - Len(first)]
    BY ConcatProperties
  <1>2. PICK s : s = first \o rest
    OBVIOUS
  <1>3. /\ s \in Seq(S) /\ Len(s) = 1 + Len(rest)
        /\ \A i \in 1 .. 1 + Len(rest) : s[i] = IF i <= 1 THEN first[i] ELSE rest[i - 1]
    BY <1>1, <1>2
  <1>4. Len(rest) \in Nat
    OBVIOUS
  <1>5. s # <<>> /\ s[1] = first[1]
    <2>1. 1 \in 1 .. 1 + Len(rest)
      BY <1>4
    <2>2. Len(s) # 0
      BY <1>3, <1>4
    <2> QED
      BY <1>3, <2>1, <2>2, EmptySeq
  <1>6. /\ Tail(s) \in Seq(S) /\ Len(Tail(s)) = Len(rest)
        /\ \A i \in 1 .. Len(Tail(s)) : Tail(s)[i] = s[i + 1]
    BY <1>3, <1>4, <1>5, HeadTailProperties
  <1>7. ASSUME NEW i \in 1 .. Len(rest) PROVE Tail(s)[i] = rest[i]
    <2>1. i + 1 \in 1 .. 1 + Len(rest) /\ ~ (i + 1 <= 1) /\ (i + 1) - 1 = i
      BY <1>4
    <2> QED
      BY <1>3, <1>6, <2>1
  <1>8. Tail(s) = rest
    BY <1>6, <1>7, SeqEqual
  <1>9. Head(s) = s[1]
    BY <1>3, <1>5
  <1>10. Len(s) = 1 + Len(rest)
    BY <1>3
  <1> QED
    BY <1>2, <1>5, <1>8, <1>9, <1>10

LEMMA Associates ==
    ASSUME NEW S, NEW u \in Seq(S), NEW v \in Seq(S), NEW w \in Seq(S)
    PROVE  (u \o v) \o w = u \o (v \o w)
  BY ConcatAssociative

\* The same for three sequences.
StartsWith(first, next, z) ==
    /\ Head((first \o next) \o z) = first[1]
    /\ Tail((first \o next) \o z) = next \o z
    /\ Len((first \o next) \o z) = 1 + Len(next) + Len(z)

LEMMA FirstOfMany ==
    ASSUME NEW S, NEW first \in Seq(S), NEW next \in Seq(S), NEW z \in Seq(S)
    PROVE  Len(first) = 1 => StartsWith(first, next, z)
  <1>1. (first \o next) \o z = first \o (next \o z)
    BY ConcatAssociative
  <1>2. next \o z \in Seq(S) /\ Len(next \o z) = Len(next) + Len(z)
    BY ConcatProperties
  <1>3. PICK one, many, rest :
           one = first \o (next \o z) /\ many = (first \o next) \o z /\ rest = next \o z
    OBVIOUS
  <1>4. one = many /\ one = first \o rest
    BY <1>1, <1>3
  <1>5. rest \in Seq(S) /\ Len(rest) = Len(next) + Len(z)
    BY <1>2, <1>3
  <1>6. Len(first) = 1 => Head(one) = first[1] /\ Tail(one) = rest /\ Len(one) = 1 + Len(rest)
    <2>1. Len(first) = 1 =>
             /\ Head(first \o rest) = first[1] /\ Tail(first \o rest) = rest
             /\ Len(first \o rest) = 1 + Len(rest)
      BY <1>5, FirstOf, Zenon
    <2> QED
      BY <1>4, <2>1, Zenon
  <1>7. Len(next) \in Nat /\ Len(z) \in Nat
    OBVIOUS
  <1>8. Len(first) = 1 =>
           Head(many) = first[1] /\ Tail(many) = rest /\ Len(many) = 1 + Len(next) + Len(z)
    BY <1>4, <1>5, <1>6, <1>7
  <1> QED
    BY <1>3, <1>8 DEF StartsWith

LEMMA AppendTo ==
    ASSUME NEW S, NEW u \in Seq(S), NEW x \in S
    PROVE  Append(u, x) \in Seq(S) /\ Append(u, x) # <<>>
  BY AppendProperties

\* The first of the operators left, and the others.
LEMMA RestOf ==
    ASSUME NEW S, NEW ops \in Seq(S), NEW n \in 1 .. Len(ops), NEW z \in Seq(S)
    PROVE  /\ Head(Rest(ops, n, z)) = ops[n]
           /\ Tail(Rest(ops, n, z)) = Rest(ops, n + 1, z)
           /\ Len(Rest(ops, n, z)) = (Len(ops) - n + 1) + Len(z)
  <1>1. Len(ops) \in Nat /\ Len(z) \in Nat /\ ops[n] \in S /\ Len(ops) \in n .. Len(ops)
    BY ElementOfSeq
  <1>2. PICK next : next = SubSeq(ops, n + 1, Len(ops))
    OBVIOUS
  <1>3. SubSeq(ops, n, Len(ops)) = <<ops[n]>> \o next
    BY <1>1, <1>2, SubSeqRecursiveFirst
  <1>4. \A i \in n + 1 .. Len(ops) : ops[i] \in S
    BY ElementOfSeq
  <1>5. next \in Seq(S) /\ Len(next) = Len(ops) - n
    <2>1. next \in Seq(S) /\ Len(next) = IF n + 1 <= Len(ops) THEN Len(ops) - (n + 1) + 1 ELSE 0
      BY <1>1, <1>2, <1>4, SubSeqProperties
    <2> QED
      BY <1>1, <2>1
  <1>6. PICK first : first = <<ops[n]>>
    OBVIOUS
  <1>7. first \in Seq(S) /\ Len(first) = 1 /\ first[1] = ops[n]
    BY <1>1, <1>6
  <1>8. StartsWith(first, next, z)
    BY <1>5, <1>7, FirstOfMany, Zenon
  <1>9. (first \o next) \o z = Rest(ops, n, z) /\ next \o z = Rest(ops, n + 1, z)
    BY <1>2, <1>3, <1>6 DEF Rest
  <1>10. Len((first \o next) \o z) = (Len(ops) - n + 1) + Len(z)
    BY <1>1, <1>5, <1>8 DEF StartsWith
  <1> QED
    BY <1>7, <1>8, <1>9, <1>10 DEF StartsWith

\* None are left after the last.
LEMMA RestEnds ==
    ASSUME NEW S, NEW ops \in Seq(S), NEW z \in Seq(S)
    PROVE  Rest(ops, 1, z) = ops \o z /\ Rest(ops, Len(ops) + 1, z) = z
  <1>1. Len(ops) \in Nat
    OBVIOUS
  <1>2. SubSeq(ops, 1, Len(ops)) = ops
    BY SubSeqFull
  <1>3. SubSeq(ops, Len(ops) + 1, Len(ops)) = <<>>
    BY <1>1, SubSeqEmpty
  <1>4. <<>> \o z = z
    BY ConcatEmptySeq
  <1> QED
    BY <1>2, <1>3, <1>4 DEF Rest

\* An operator that can run leaves frames of rows, one at least.
LEMMA AfterTyped ==
    ASSUME NEW frames \in Seq(SUBSET Rows), NEW o, NEW rows, Runs(o, frames),
           o.op = "read" => rows \subseteq Rows
    PROVE  After(frames, o, rows) \in Seq(SUBSET Rows) /\ After(frames, o, rows) # <<>>
  <1>1. CASE o.op = "source"
    <2>1. After(frames, o, rows) = Append(frames, Rows) /\ Rows \in SUBSET Rows
      BY <1>1 DEF After
    <2> QED
      BY <2>1, AppendTo
  <1>2. CASE o.op = "read"
    <2>1. After(frames, o, rows) = Append(frames, rows) /\ rows \in SUBSET Rows
      BY <1>2 DEF After
    <2> QED
      BY <2>1, AppendTo
  <1>3. CASE o.op = "filter"
    <2>1. After(frames, o, rows) = [frames EXCEPT ![Len(frames)] = Kept(o.pred, @)]
      BY <1>3 DEF After
    <2>2. Len(frames) \in Nat /\ Len(frames) >= 1 /\ frames[Len(frames)] \in SUBSET Rows
      BY <1>3 DEF Runs
    <2>3. Kept(o.pred, frames[Len(frames)]) \in SUBSET Rows
      BY <1>3, <2>2 DEF Runs
    <2>4. Len(frames) \in 1 .. Len(frames)
      BY <2>2
    <2>5. After(frames, o, rows) \in Seq(SUBSET Rows) /\ Len(After(frames, o, rows)) = Len(frames)
      BY <2>1, <2>3, <2>4, ExceptSeq
    <2> QED
      BY <2>2, <2>5, EmptySeq
  <1>4. CASE o.op = "union"
    <2> DEFINE n == Len(frames)
    <2>1. After(frames, o, rows) = Append(SubSeq(frames, 1, n - 2), frames[n - 1] \cup frames[n])
      BY <1>4 DEF After
    <2>2. n \in Nat /\ n >= 2
      BY <1>4 DEF Runs
    <2>3. frames[n - 1] \cup frames[n] \in SUBSET Rows
      BY <2>2
    <2>4. SubSeq(frames, 1, n - 2) \in Seq(SUBSET Rows)
      BY <2>2
    <2>5. PICK before, frame : before = SubSeq(frames, 1, n - 2) /\ frame = frames[n - 1] \cup frames[n]
      OBVIOUS
    <2>6. Append(before, frame) \in Seq(SUBSET Rows) /\ Append(before, frame) # <<>>
      <3>1. before \in Seq(SUBSET Rows) /\ frame \in SUBSET Rows
        BY <2>3, <2>4, <2>5
      <3> QED
        BY <3>1, AppendTo, Zenon
    <2> QED
      BY <2>1, <2>5, <2>6
  <1> QED
    BY <1>1, <1>2, <1>3, <1>4 DEF Runs

\* What is read matters to a read only.
LEMMA AfterReads ==
    ASSUME NEW frames, NEW o, NEW rows, NEW other, Runs(o, frames), o.op = "read" => rows = other
    PROVE  After(frames, o, rows) = After(frames, o, other)
  BY DEF After, Runs

\* The rows under a key are those of its frame.
LEMMA OneFrame ==
    ASSUME NEW f \in Frames
    PROVE  RowsOf(f.key) = f.rows /\ f.key \in Keys
  <1>1. \A g \in Frames : g.key = f.key => g = f
    BY PlansAssumption
  <1>2. {g \in Frames : g.key = f.key} = {f}
    BY <1>1
  <1> QED
    BY <1>2 DEF RowsOf, Keys

LEMMA FramesOfJobs ==
    ASSUME NEW j \in Jobs
    PROVE  PersistedBy(j.plan) \subseteq Frames
  BY DEF Frames

\* The keys written by one more operator.
LEMMA WrittenNext ==
    ASSUME NEW ops, NEW n \in Nat \ {0}
    PROVE  /\ Written(ops, n) = Written(ops, n - 1) \cup (IF Writes(ops[n]) THEN {ops[n].key} ELSE {})
           /\ Written(ops, 0) = {}
  <1>1. 1 .. n = (1 .. n - 1) \cup {n} /\ 1 .. 0 = {}
    OBVIOUS
  <1> QED
    BY <1>1 DEF Written

LEMMA ReadableNext ==
    ASSUME NEW ops, NEW n \in Nat \ {0}
    PROVE  /\ Readable(ops, n) <=> Readable(ops, n - 1) /\ (ops[n].op = "read" => ops[n].key \in Keys)
           /\ Readable(ops, 0)
  <1>1. 1 .. n = (1 .. n - 1) \cup {n} /\ 1 .. 0 = {}
    OBVIOUS
  <1> QED
    BY <1>1 DEF Readable

----------------------------------------------------------------------------
(* The catalog's functions. *)

LEMMA WithIs ==
    ASSUME NEW f, NEW id, NEW value
    PROVE  /\ DOMAIN With(f, id, value) = DOMAIN f \cup {id}
           /\ With(f, id, value)[id] = value
           /\ \A i \in DOMAIN f : i # id => With(f, id, value)[i] = f[i]
  BY DEF With

LEMMA WithoutIs ==
    ASSUME NEW f, NEW ids
    PROVE  /\ DOMAIN Without(f, ids) = DOMAIN f \ ids
           /\ \A i \in DOMAIN f \ ids : Without(f, ids)[i] = f[i]
  BY DEF Without, Restrict

----------------------------------------------------------------------------
(* Each call of the catalog leaves it typed and consistent. *)

Catalog == CatalogTyped /\ CatalogConsistent

LEMMA CatalogStutters ==
    ASSUME Catalog, UNCHANGED catalogVars
    PROVE  Catalog'
  BY DEF Catalog, CatalogTyped, CatalogTypeOK, CatalogConsistent, catalogVars, toolVars

LEMMA CreateDatabaseKeeps ==
    ASSUME Catalog, NEW t \in Threads, NEW d \in Databases, CreateDatabase(t, d)
    PROVE  Catalog'
  BY DEF Catalog, CatalogTyped, CatalogTypeOK, CatalogConsistent, CreateDatabase, toolVars

LEMMA SetCurrentDatabaseKeeps ==
    ASSUME Catalog, NEW t \in Threads, NEW d \in Databases, SetCurrentDatabase(t, d)
    PROVE  Catalog'
  BY DEF Catalog, CatalogTyped, CatalogTypeOK, CatalogConsistent, SetCurrentDatabase, Disturbs, toolVars

\* Tables go with what is recorded for them.
LEMMA DropsKeep ==
    ASSUME Catalog, NEW t \in Threads, NEW ids,
           /\ tables' = Without(tables, ids) /\ described' = Without(described, ids)
           /\ raced' = raced \ ids
           /\ Disturbs(t)
           /\ UNCHANGED <<current, lock, creating, toolVars>>,
           dbs' \subseteq dbs, current \in dbs',
           \A id \in DOMAIN tables \ ids : id[1] \in dbs'
    PROVE  Catalog'
  <1>1. /\ DOMAIN tables' = DOMAIN tables \ ids /\ DOMAIN described' = DOMAIN described \ ids
        /\ \A id \in DOMAIN tables \ ids : tables'[id] = tables[id]
        /\ \A id \in DOMAIN described \ ids : described'[id] = described[id]
    BY WithoutIs
  <1>2. CatalogTyped'
    BY <1>1 DEF Catalog, CatalogTyped, CatalogTypeOK, Disturbs, toolVars
  <1>3. CatalogConsistent'
    BY <1>1 DEF Catalog, CatalogConsistent
  <1> QED
    BY <1>2, <1>3 DEF Catalog

LEMMA DropDatabaseKeeps ==
    ASSUME Catalog, NEW t \in Threads, NEW d \in Databases, NEW cascade \in BOOLEAN,
           DropDatabase(t, d, cascade)
    PROVE  Catalog'
  <1> DEFINE ids == InDatabase(DOMAIN tables, d)
  <1>1. DOMAIN described = DOMAIN tables /\ raced \subseteq DOMAIN tables
    BY DEF Catalog, CatalogTyped, CatalogTypeOK, CatalogConsistent
  <1>2. /\ tables' = Without(tables, ids) /\ described' = Without(described, ids)
        /\ raced' = raced \ ids
        /\ Disturbs(t)
        /\ UNCHANGED <<current, lock, creating, toolVars>>
    BY <1>1 DEF DropDatabase, InDatabase
  <1>3. dbs' \subseteq dbs /\ current \in dbs'
    BY DEF DropDatabase, MayDrop, InDatabase, Catalog, CatalogConsistent
  <1>4. \A id \in DOMAIN tables \ ids : id[1] \in dbs'
    BY DEF DropDatabase, InDatabase, Catalog, CatalogConsistent
  <1> HIDE DEF ids
  <1> QED
    BY <1>2, <1>3, <1>4, DropsKeep

LEMMA DropTableKeeps ==
    ASSUME Catalog, NEW t \in Threads, NEW n \in Names, DropTable(t, n)
    PROVE  Catalog'
  <1>1. /\ tables' = Without(tables, {Resolve(n)}) /\ described' = Without(described, {Resolve(n)})
        /\ raced' = raced \ {Resolve(n)}
        /\ Disturbs(t)
        /\ UNCHANGED <<current, lock, creating, toolVars>>
        /\ dbs' = dbs
    BY DEF DropTable
  <1>2. current \in dbs /\ \A id \in DOMAIN tables : id[1] \in dbs
    BY DEF Catalog, CatalogConsistent
  <1> QED
    BY <1>1, <1>2, DropsKeep

LEMMA ViewsKeep ==
    ASSUME Catalog, NEW t \in Threads, NEW n \in Names, CreateView(t, n) \/ DropView(t, n)
    PROVE  Catalog'
  BY DEF Catalog, CatalogTyped, CatalogTypeOK, CatalogConsistent, CreateView, DropView, Resolve, toolVars

LEMMA ToolsKeep ==
    ASSUME Catalog, NEW t \in Threads, NEW tool \in Tools, CreateToolCheck(t, tool) \/ DropTool(t, tool)
    PROVE  Catalog'
  <1>1. CASE CreateToolCheck(t, tool)
    BY <1>1 DEF Catalog, CatalogTyped, CatalogTypeOK, CatalogConsistent, CreateToolCheck
  <1>2. CASE DropTool(t, tool)
    <2>1. DOMAIN tools' \subseteq DOMAIN tools
      BY <1>2 DEF DropTool, Without, Restrict
    <2> QED
      BY <1>2, <2>1 DEF Catalog, CatalogTyped, CatalogTypeOK, CatalogConsistent, DropTool
  <1> QED
    BY <1>1, <1>2

LEMMA SaveToolKeeps ==
    ASSUME Catalog, NEW t \in Threads, SaveTool(t)
    PROVE  Catalog'
  <1>1. DOMAIN tools' = DOMAIN tools \cup {saving[t]}
    BY DEF SaveTool, With
  <1>2. saving[t] \in Tools
    BY DEF SaveTool, Catalog, CatalogTyped
  <1> QED
    BY <1>1, <1>2 DEF Catalog, CatalogTyped, CatalogTypeOK, CatalogConsistent, SaveTool, Disturbs

LEMMA CreateTableCheckKeeps ==
    ASSUME Catalog, NEW t \in Threads, NEW n \in Names, NEW schema \in Schemas,
           CreateTableCheck(t, n, schema)
    PROVE  Catalog' /\ creating'[t] # None /\ creating'[t].id = Resolve(n)
  <1> DEFINE request == [id |-> Resolve(n), schema |-> schema]
  <1>1. creating' = [creating EXCEPT ![t] = request] /\ creating'[t] = request
    BY DEF CreateTableCheck, Catalog, CatalogTyped
  <1>2. PICK d \in Databases : Resolve(n) = <<d, n.name>>
    BY CatalogAssumption DEF Resolve, Catalog, CatalogTyped, CatalogTypeOK
  <1>3. request \in Requests /\ request # None
    BY <1>2, CatalogAssumption DEF Requests
  <1>4. request.id = Resolve(n)
    OBVIOUS
  <1> HIDE DEF request
  <1>5. lock = None /\ lock' = t /\ t # None
    BY CatalogAssumption DEF CreateTableCheck, Free
  <1>6. \A u \in Threads : creating[u] = None
    BY <1>5, CatalogAssumption DEF Catalog, CatalogTyped, CatalogTypeOK
  <1>7. creating' \in [Threads -> Requests \cup {None}] /\ \A u \in Threads : lock' = u <=> creating'[u] # None
    BY <1>1, <1>3, <1>5, <1>6 DEF Catalog, CatalogTyped
  <1> QED
    BY <1>1, <1>3, <1>4, <1>5, <1>7 DEF Catalog, CatalogTyped, CatalogTypeOK, CatalogConsistent, CreateTableCheck, toolVars

LEMMA CreateTableFailsKeeps ==
    ASSUME Catalog, NEW t \in Threads, CreateTableFails(t)
    PROVE  Catalog'
  <1>1. creating' = [creating EXCEPT ![t] = None] /\ lock = t /\ lock' = None
    BY DEF CreateTableFails
  <1>2. creating' \in [Threads -> Requests \cup {None}] /\ \A u \in Threads : lock' = u <=> creating'[u] # None
    BY <1>1, CatalogAssumption DEF Catalog, CatalogTyped, CatalogTypeOK
  <1> QED
    BY <1>1, <1>2 DEF Catalog, CatalogTyped, CatalogTypeOK, CatalogConsistent, CreateTableFails, toolVars

\* A table is created with the schema recorded, unless it was there: then its creator was
\* disturbed.
LEMMA CreateIfNotExistsKeeps ==
    ASSUME Catalog, NEW t \in Threads, NEW id, NEW schema \in Schemas, NEW rows \in SUBSET Threads,
           CreateIfNotExists(t, id, schema, rows),
           t \notin disturbed => ~ Exists(id),
           /\ lock' \in Threads \cup {None} /\ creating' \in [Threads -> Requests \cup {None}]
           /\ \A u \in Threads : lock' = u <=> creating'[u] # None
    PROVE  Catalog'
  <1>1. /\ DOMAIN described' = DOMAIN described \cup {id} /\ described'[id] = schema
        /\ \A i \in DOMAIN described : i # id => described'[i] = described[i]
    BY DEF CreateIfNotExists, With
  <1>2. /\ DOMAIN tables' = DOMAIN tables \cup {id}
        /\ \A i \in DOMAIN tables : tables'[i] = tables[i]
        /\ ~ Exists(id) => tables'[id] = [schema |-> schema, rows |-> rows]
    BY DEF CreateIfNotExists, Exists, With
  <1>3. /\ raced' = IF Exists(id) THEN raced \cup {id} ELSE raced
        /\ id[1] \in dbs
        /\ UNCHANGED <<dbs, current, views, toolVars>> /\ Disturbs(t)
    BY DEF CreateIfNotExists
  <1>4. CatalogTyped'
    BY <1>1, <1>2, <1>3 DEF Catalog, CatalogTyped, CatalogTypeOK, Exists, Disturbs, toolVars, Contents
  <1>5. CatalogConsistent'
    BY <1>1, <1>2, <1>3 DEF Catalog, CatalogConsistent, Exists
  <1> QED
    BY <1>4, <1>5 DEF Catalog

LEMMA CreateTableKeeps ==
    ASSUME Catalog, NEW t \in Threads, CreateTable(t), t \notin disturbed => ~ Exists(creating[t].id)
    PROVE  Catalog'
  <1>1. creating' = [creating EXCEPT ![t] = None] /\ lock = t /\ lock' = None
    BY DEF CreateTable
  <1>2. creating' \in [Threads -> Requests \cup {None}] /\ \A u \in Threads : lock' = u <=> creating'[u] # None
    BY <1>1, CatalogAssumption DEF Catalog, CatalogTyped, CatalogTypeOK
  <1>3. creating[t] \in Requests
    BY <1>1 DEF Catalog, CatalogTyped, CatalogTypeOK
  <1>4. creating[t].schema \in Schemas
    BY <1>3 DEF Requests
  <1>5. CreateIfNotExists(t, creating[t].id, creating[t].schema, {})
    BY DEF CreateTable
  <1> QED
    BY <1>1, <1>2, <1>4, <1>5, CreateIfNotExistsKeeps

LEMMA WriteDfKeeps ==
    ASSUME Catalog, NEW t \in Threads, NEW n, NEW schema \in Schemas,
           WriteDfToTable(t, n, schema), t \notin disturbed => ~ Exists(Resolve(n))
    PROVE  Catalog'
  <1>1. UNCHANGED <<lock, creating>> /\ CreateIfNotExists(t, Resolve(n), schema, {t})
    BY DEF WriteDfToTable
  <1> QED
    BY <1>1, CreateIfNotExistsKeeps DEF Catalog, CatalogTyped, CatalogTypeOK

LEMMA InsertDfKeeps ==
    ASSUME Catalog, NEW t \in Threads, NEW id, InsertDf(t, id)
    PROVE  Catalog'
  <1>1. id \in DOMAIN tables /\ tables[id] \in Contents
    BY DEF InsertDf, Exists, Catalog, CatalogTyped
  <1>2. /\ DOMAIN tables' = DOMAIN tables
        /\ tables'[id] = [tables[id] EXCEPT !.rows = @ \cup {t}]
        /\ \A i \in DOMAIN tables : i # id => tables'[i] = tables[i]
    BY DEF InsertDf, Exists
  <1>3. tables'[id] \in Contents /\ tables'[id].schema = tables[id].schema
    BY <1>1, <1>2 DEF Contents
  <1>4. UNCHANGED <<dbs, current, described, views, lock, creating, raced, disturbed, toolVars>>
    BY DEF InsertDf
  <1>5. CatalogTyped'
    BY <1>1, <1>2, <1>3, <1>4 DEF Catalog, CatalogTyped, CatalogTypeOK, toolVars, Contents
  <1>6. CatalogConsistent'
    BY <1>1, <1>2, <1>3, <1>4 DEF Catalog, CatalogConsistent
  <1> QED
    BY <1>5, <1>6 DEF Catalog

LEMMA ReplaceTableKeeps ==
    ASSUME Catalog, NEW t \in Threads, NEW id, NEW schema \in Schemas, ReplaceTable(t, id, schema)
    PROVE  Catalog'
  <1>1. /\ DOMAIN tables' = DOMAIN tables \cup {id} /\ tables'[id] = [schema |-> schema, rows |-> {t}]
        /\ \A i \in DOMAIN tables : i # id => tables'[i] = tables[i]
    BY DEF ReplaceTable, With
  <1>2. /\ DOMAIN described' = DOMAIN described \cup {id} /\ described'[id] = schema
        /\ \A i \in DOMAIN described : i # id => described'[i] = described[i]
    BY DEF ReplaceTable, With
  <1>3. /\ raced' = raced \ {id} /\ id[1] \in dbs /\ Disturbs(t)
        /\ UNCHANGED <<dbs, current, views, lock, creating, toolVars>>
    BY DEF ReplaceTable
  <1>4. CatalogTyped'
    BY <1>1, <1>2, <1>3 DEF Catalog, CatalogTyped, CatalogTypeOK, Disturbs, toolVars, Contents
  <1>5. CatalogConsistent'
    BY <1>1, <1>2, <1>3 DEF Catalog, CatalogConsistent
  <1> QED
    BY <1>4, <1>5 DEF Catalog

----------------------------------------------------------------------------
(* The steps of a thread leave the other threads where they are. *)

ThreadStep(t) ==
    \/ \E j \in Jobs : Begin(t, j)
    \/ Query(t)
    \/ Fail(t)
    \/ Call(t)
    \/ CreateEnds(t)

OthersSame(t) ==
    \A u \in Threads \ {t} :
        /\ pc'[u] = pc[u] /\ job'[u] = job[u] /\ steps'[u] = steps[u] /\ stack'[u] = stack[u]
        /\ read'[u] = read[u] /\ taken'[u] = taken[u]
        /\ creating'[u] = creating[u] /\ saving'[u] = saving[u]

Typed == CatalogTyped /\ QueryTyped

LEMMA EndsAlone ==
    ASSUME Typed, NEW t \in Threads, End(t), UNCHANGED <<creating, saving>>
    PROVE  OthersSame(t)
  BY DEF Typed, QueryTyped, OthersSame, End, Goto

LEMMA CallsAlone ==
    ASSUME Typed, NEW t \in Threads, CatalogCall(t) \/ \E n \in Names, s \in Schemas : CreateTableCheck(t, n, s)
    PROVE  /\ \A u \in Threads \ {t} : creating'[u] = creating[u] /\ saving'[u] = saving[u]
           /\ \/ UNCHANGED creating /\ \E tool \in Tools : saving'[t] = tool
              \/ UNCHANGED <<creating, saving>>
              \/ UNCHANGED saving
  <1>1. ASSUME NEW d \in Databases, CreateDatabase(t, d) \/ SetCurrentDatabase(t, d)
        PROVE  UNCHANGED <<creating, saving>>
    BY <1>1 DEF CreateDatabase, SetCurrentDatabase, toolVars
  <1>2. ASSUME NEW d \in Databases, NEW cascade \in BOOLEAN, DropDatabase(t, d, cascade)
        PROVE  UNCHANGED <<creating, saving>>
    BY <1>2 DEF DropDatabase, toolVars
  <1>3. ASSUME NEW n \in Names, DropTable(t, n) \/ CreateView(t, n) \/ DropView(t, n)
        PROVE  UNCHANGED <<creating, saving>>
    BY <1>3 DEF DropTable, CreateView, DropView, toolVars
  <1>4. ASSUME NEW tool \in Tools, CreateToolCheck(t, tool)
        PROVE  /\ UNCHANGED creating /\ saving'[t] = tool
               /\ \A u \in Threads \ {t} : saving'[u] = saving[u]
    BY <1>4 DEF CreateToolCheck, Typed, CatalogTyped
  <1>5. ASSUME NEW tool \in Tools, DropTool(t, tool)
        PROVE  UNCHANGED <<creating, saving>>
    BY <1>5 DEF DropTool
  <1>6. ASSUME NEW n \in Names, NEW s \in Schemas, CreateTableCheck(t, n, s)
        PROVE  UNCHANGED saving /\ \A u \in Threads \ {t} : creating'[u] = creating[u]
    BY <1>6 DEF CreateTableCheck, toolVars, Typed, CatalogTyped
  <1> QED
    BY <1>1, <1>2, <1>3, <1>4, <1>5, <1>6 DEF CatalogCall

LEMMA CreateEndsAlone ==
    ASSUME Typed, NEW t \in Threads, CreateTable(t) \/ CreateTableFails(t) \/ SaveTool(t)
    PROVE  /\ \A u \in Threads \ {t} : creating'[u] = creating[u] /\ saving'[u] = saving[u]
           /\ (UNCHANGED saving /\ creating'[t] = None) \/ (UNCHANGED creating /\ saving'[t] = None)
  <1>1. CASE CreateTable(t)
    BY <1>1 DEF CreateTable, CreateIfNotExists, toolVars, Typed, CatalogTyped
  <1>2. CASE CreateTableFails(t)
    BY <1>2 DEF CreateTableFails, toolVars, Typed, CatalogTyped
  <1>3. CASE SaveTool(t)
    BY <1>3 DEF SaveTool, Typed, CatalogTyped
  <1> QED
    BY <1>1, <1>2, <1>3

LEMMA OthersAreSame ==
    ASSUME Typed, NEW t \in Threads, ThreadStep(t)
    PROVE  OthersSame(t)
  <1> USE DEF Goto, OthersSame, usageVars, catalogVars, toolVars
  <1>1. ASSUME NEW j \in Jobs, Begin(t, j) PROVE OthersSame(t)
    BY <1>1 DEF Begin, Typed, QueryTyped
  <1>2. ASSUME Query(t) PROVE OthersSame(t)
    <2>1. CASE ShouldWrite(t)
      BY <2>1, EndsAlone DEF ShouldWrite, Typed, QueryTyped
    <2>2. CASE Compare(t)
      BY <2>2, EndsAlone DEF Compare, Typed, QueryTyped
    <2>3. CASE Transpile(t)
      BY <2>3, EndsAlone DEF Transpile, Typed, QueryTyped
    <2>4. CASE Execute(t)
      BY <2>4 DEF Execute, Typed, QueryTyped
    <2>16. CASE Ask(t) \/ Responds(t)
      BY <2>16 DEF Ask, Responds, Count, queryVars, Typed, QueryTyped
    <2>5. CASE ReadMetrics(t)
      BY <2>5 DEF ReadMetrics, Typed, QueryTyped
    <2>6. CASE ResetMetrics(t)
      BY <2>6 DEF ResetMetrics, Advance, Typed, QueryTyped
    <2>7. CASE Persist(t)
      BY <2>7 DEF Persist, Advance, Typed, QueryTyped
    <2>8. CASE WriteCached(t)
      BY <2>8 DEF WriteCached, Advance, Typed, QueryTyped
    <2>9. CASE Record(t)
      BY <2>9, EndsAlone DEF Record
    <2>10. CASE SinkChecks(t)
      BY <2>10, EndsAlone DEF SinkChecks, Typed, QueryTyped
    <2>11. CASE SinkCreates(t)
      BY <2>11 DEF SinkCreates, WriteDfToTable, CreateIfNotExists, Typed, QueryTyped
    <2>12. CASE ResolveInsert(t)
      BY <2>12 DEF ResolveInsert, Typed, QueryTyped
    <2>13. CASE SinkInserts(t)
      BY <2>13 DEF SinkInserts, InsertDf, Typed, QueryTyped
    <2>14. CASE ResolveReplace(t)
      BY <2>14 DEF ResolveReplace, Typed, QueryTyped
    <2>15. CASE SinkReplaces(t)
      BY <2>15 DEF SinkReplaces, ReplaceTable, Typed, QueryTyped
    <2> QED
      BY <1>2, <2>1, <2>2, <2>3, <2>4, <2>5, <2>6, <2>7, <2>8, <2>9, <2>10, <2>11, <2>12, <2>13,
         <2>14, <2>15, <2>16 DEF Query
  <1>3. ASSUME Fail(t) PROVE OthersSame(t)
    BY <1>3, EndsAlone DEF Fail
  <1>4. ASSUME Call(t) PROVE OthersSame(t)
    BY <1>4, CallsAlone DEF Call, queryVars
  <1>5. ASSUME CreateEnds(t) PROVE OthersSame(t)
    BY <1>5, CreateEndsAlone DEF CreateEnds, queryVars
  <1> QED
    BY <1>1, <1>2, <1>3, <1>4, <1>5 DEF ThreadStep

----------------------------------------------------------------------------
(* Typed variables of the queries. *)

LEMMA EndTyped ==
    ASSUME Typed, NEW t \in Threads, End(t), UNCHANGED <<creating, saving, left>>,
           late' \in Nat, usage' \in Nat, owed' \in Int, mixed' \in BOOLEAN
    PROVE  QueryTyped'
  BY JobsAssumption DEF Typed, QueryTyped, End, Goto, Places, NoJob

\* A step inside a query.
LEMMA MoveTyped ==
    ASSUME Typed, NEW t \in Threads, NEW place \in Places, Goto(t, place),
           pc[t] # "idle", place # "idle",
           UNCHANGED <<creating, saving, left, job, asked, late>>, pc[t] = "asking" => asked[t] = 0,
           stack' \in [Threads -> Seq(SUBSET Rows)], DOMAIN steps' = Threads, DOMAIN target' = Threads,
           read' \in [Threads -> Nat], taken' \in [Threads -> Nat],
           usage' \in Nat, owed' \in Int, mixed' \in BOOLEAN
    PROVE  QueryTyped'
  BY DEF Typed, QueryTyped, Goto

\* What Ask and Execute rely on; the plans' part of the invariant gives it.
Executable(t) ==
    /\ Ask(t) => CallsMade(t) \in Nat
    /\ Execute(t) => Executed(t) \in Seq(SUBSET Rows)

LEMMA QueryStepTyped ==
    ASSUME Typed, NEW t \in Threads, Query(t), Executable(t)
    PROVE  QueryTyped'
  <1> USE DEF usageVars, catalogVars, toolVars
  <1>0. /\ stack \in [Threads -> Seq(SUBSET Rows)] /\ DOMAIN steps = Threads /\ DOMAIN target = Threads
        /\ read \in [Threads -> Nat] /\ taken \in [Threads -> Nat]
        /\ usage \in Nat /\ owed \in Int /\ mixed \in BOOLEAN /\ taken[t] \in Nat /\ read[t] \in Nat
        /\ asked \in [Threads -> Nat] /\ late \in Nat
    BY DEF Typed, QueryTyped
  <1>a. \A place \in {"plan", "compare", "execute", "metrics", "reset", "persist", "write", "record",
                      "create", "resolve_insert", "insert", "resolve_replace", "replace"} :
            place \in Places /\ place # "idle"
    BY DEF Places
  <1>1. CASE ShouldWrite(t)
    <2>1. CASE End(t)
      BY <1>1, <1>0, <2>1, EndTyped DEF ShouldWrite
    <2>2. CASE ~ End(t)
      <3>1. \E place \in {"compare", "plan"} : Goto(t, place)
        BY <1>1, <2>2 DEF ShouldWrite
      <3>2. UNCHANGED <<job, steps, stack, target, read, taken, asked>>
        BY <1>1, <2>2 DEF ShouldWrite
      <3> QED
        BY <1>1, <1>0, <1>a, <3>1, <3>2, MoveTyped DEF ShouldWrite
    <2> QED
      BY <2>1, <2>2
  <1>2. CASE Compare(t)
    BY <1>2, <1>0, <1>a, EndTyped, MoveTyped DEF Compare
  <1>3. CASE Transpile(t)
    BY <1>3, <1>0, <1>a, EndTyped, MoveTyped DEF Transpile
  <1>4. CASE Execute(t)
    <2>1. stack' \in [Threads -> Seq(SUBSET Rows)]
      BY <1>4, <1>0 DEF Execute, Executable
    <2>2. /\ pc[t] # "idle" /\ (pc[t] = "asking" => asked[t] = 0) /\ Goto(t, "metrics")
          /\ UNCHANGED <<creating, saving, left, job, steps, target, read, taken, asked, late, usage, owed, mixed>>
      BY <1>4 DEF Execute
    <2> QED
      BY <1>0, <1>a, <2>1, <2>2, MoveTyped
  <1>16. CASE Ask(t)
    <2>1. asked' \in [Threads -> Nat] /\ pc[t] = "execute" /\ pc'[t] = "asking"
      BY <1>16, <1>0 DEF Ask, Executable, Goto, Typed, QueryTyped
    <2> QED
      BY <1>16, <2>1 DEF Ask, Goto, Places, Typed, QueryTyped
  <1>17. CASE Responds(t)
    <2>1. asked' \in [Threads -> Nat] /\ usage' \in Nat /\ owed' \in Int
      BY <1>17, <1>0 DEF Responds, Count
    <2>4. mixed' \in BOOLEAN
      BY <1>17, <1>0 DEF Responds, Count
    <2>2. UNCHANGED <<pc, job, steps, stack, target, read, taken, late, left, creating, saving>>
      BY <1>17 DEF Responds, Count, queryVars
    <2>3. \A u \in Threads : asked'[u] # 0 => asked[u] # 0
      BY <1>17, <1>0 DEF Responds
    <2> QED
      BY <2>1, <2>2, <2>3, <2>4 DEF Typed, QueryTyped
  <1>5. CASE ReadMetrics(t)
    <2>1. read' \in [Threads -> Nat] /\ mixed' \in BOOLEAN
      BY <1>5, <1>0 DEF ReadMetrics
    <2> QED
      BY <1>5, <1>0, <1>a, <2>1, MoveTyped DEF ReadMetrics
  <1>6. CASE ResetMetrics(t)
    <2>1. read' \in [Threads -> Nat] /\ taken' \in [Threads -> Nat] /\ usage' \in Nat
      BY <1>6, <1>0 DEF ResetMetrics, Reset
    <2>2. DOMAIN steps' = Threads /\ \E place \in {"persist", "record", "execute"} : Goto(t, place)
      BY <1>6, <1>0 DEF ResetMetrics, Advance
    <2> QED
      BY <1>6, <1>0, <1>a, <2>1, <2>2, MoveTyped DEF ResetMetrics
  <1>7. CASE Persist(t)
    <2>1. DOMAIN steps' = Threads /\ \E place \in {"write", "record", "execute"} : Goto(t, place)
      BY <1>7, <1>0 DEF Persist, Advance
    <2> QED
      BY <1>7, <1>0, <1>a, <2>1, MoveTyped DEF Persist
  <1>8. CASE WriteCached(t)
    <2>1. DOMAIN steps' = Threads /\ \E place \in {"record", "execute"} : Goto(t, place)
      BY <1>8, <1>0 DEF WriteCached, Advance
    <2> QED
      BY <1>8, <1>0, <1>a, <2>1, MoveTyped DEF WriteCached
  <1>9. CASE Record(t)
    BY <1>9, <1>0, EndTyped DEF Record
  <1>10. CASE SinkChecks(t)
    <2>1. /\ UNCHANGED <<creating, saving, left, late, usage, mixed>>
          /\ owed' = owed \/ owed' = owed - taken[t]
      BY <1>10 DEF SinkChecks
    <2>2. owed' \in Int
      BY <1>0, <2>1
    <2>3. CASE End(t)
      BY <1>0, <2>1, <2>2, <2>3, EndTyped
    <2>4. CASE ~ End(t)
      <3>1. \E place \in {"create", "metrics", "resolve_insert", "resolve_replace"} : Goto(t, place)
        BY <1>10, <2>4 DEF SinkChecks
      <3>2. UNCHANGED <<job, steps, stack, target, read, taken, asked>>
        BY <1>10, <2>4 DEF SinkChecks
      <3>3. pc[t] = "execute"
        BY <1>10 DEF SinkChecks
      <3> QED
        BY <1>0, <1>a, <2>1, <2>2, <3>1, <3>2, <3>3, MoveTyped
    <2> QED
      BY <2>3, <2>4
  <1>11. CASE SinkCreates(t)
    BY <1>11, <1>0, <1>a, MoveTyped DEF SinkCreates, WriteDfToTable, CreateIfNotExists
  <1>12. CASE ResolveInsert(t)
    BY <1>12, <1>0, <1>a, MoveTyped DEF ResolveInsert
  <1>13. CASE SinkInserts(t)
    BY <1>13, <1>0, <1>a, MoveTyped DEF SinkInserts, InsertDf
  <1>14. CASE ResolveReplace(t)
    BY <1>14, <1>0, <1>a, MoveTyped DEF ResolveReplace
  <1>15. CASE SinkReplaces(t)
    BY <1>15, <1>0, <1>a, MoveTyped DEF SinkReplaces, ReplaceTable
  <1> QED
    BY <1>1, <1>2, <1>3, <1>4, <1>5, <1>6, <1>7, <1>8, <1>9, <1>10, <1>11, <1>12, <1>13, <1>14, <1>15,
       <1>16, <1>17
    DEF Query

LEMMA QueryTypedStep ==
    ASSUME Typed, NEW t \in Threads, ThreadStep(t), Executable(t)
    PROVE  QueryTyped'
  <1> USE DEF usageVars, catalogVars, toolVars
  <1>1. ASSUME NEW j \in Jobs, Begin(t, j) PROVE QueryTyped'
    <2>1. left' \in Nat
      BY <1>1 DEF Begin, Weight, Typed, QueryTyped
    <2>2. j # NoJob /\ creating[t] = None /\ saving[t] = None
      BY <1>1, JobsAssumption DEF Begin, Ready, NoJob
    <2>3. asked[t] = 0
      BY <1>1 DEF Begin, Ready, Typed, QueryTyped
    <2> QED
      BY <1>1, <2>1, <2>2, <2>3 DEF Begin, Typed, QueryTyped, Goto, Places
  <1>2. ASSUME Query(t) PROVE QueryTyped'
    BY <1>2, QueryStepTyped
  <1>3. ASSUME Fail(t) PROVE QueryTyped'
    <2>1. late' \in Nat /\ usage' \in Nat /\ owed' \in Int /\ mixed' \in BOOLEAN
      <3>1. /\ usage \in Nat /\ owed \in Int /\ mixed \in BOOLEAN /\ taken[t] \in Nat
            /\ asked[t] \in Nat /\ late \in Nat
        BY DEF Typed, QueryTyped
      <3>2. PICK n \in 0 .. asked[t] : late' = late + n
        BY <1>3 DEF Fail
      <3> QED
        BY <1>3, <3>1, <3>2 DEF Fail
    <2> QED
      BY <1>3, <2>1, EndTyped DEF Fail
  <1>4. ASSUME Call(t) PROVE QueryTyped'
    <2>1. pc[t] = "idle" /\ creating[t] = None /\ saving[t] = None /\ left' \in Nat
      BY <1>4 DEF Call, Ready, Typed, QueryTyped
    <2>2. creating'[t] = None \/ saving'[t] = None
      BY <1>4, <2>1, CallsAlone DEF Call
    <2>3. UNCHANGED <<queryVars, usageVars>>
      BY <1>4 DEF Call
    <2>4. \A u \in Threads \ {t} : creating'[u] = creating[u] /\ saving'[u] = saving[u]
      BY <1>4, CallsAlone DEF Call
    <2>5. \A u \in Threads : creating'[u] = None \/ saving'[u] = None
      BY <2>2, <2>4 DEF Typed, QueryTyped
    <2>6. \A u \in Threads : pc[u] # "idle" => creating'[u] = None /\ saving'[u] = None
      BY <2>1, <2>4 DEF Typed, QueryTyped
    <2> QED
      BY <2>1, <2>3, <2>5, <2>6 DEF Typed, QueryTyped, queryVars, usageVars
  <1>5. ASSUME CreateEnds(t) PROVE QueryTyped'
    <2>1. pc[t] = "idle"
      <3>1. CASE SaveTool(t)
        BY <3>1 DEF SaveTool, Typed, QueryTyped
      <3>2. CASE CreateTable(t) \/ CreateTableFails(t)
        BY <3>2 DEF CreateTable, CreateTableFails, Typed, QueryTyped, CatalogTyped, CatalogTypeOK
      <3> QED
        BY <1>5, <3>1, <3>2 DEF CreateEnds
    <2>2. UNCHANGED <<queryVars, usageVars, left>>
      BY <1>5 DEF CreateEnds
    <2> QED
      BY <1>5, <2>1, <2>2, CreateEndsAlone DEF CreateEnds, Typed, QueryTyped, queryVars
  <1> QED
    BY <1>1, <1>2, <1>3, <1>4, <1>5 DEF ThreadStep

----------------------------------------------------------------------------
(* The catalog, step by step. *)

\* Another thread's checks are void after a step that disturbs it.
LEMMA DisturbingAbsent ==
    ASSUME NEW t \in Threads, Disturbs(t), AbsentFor(t)'
    PROVE  StillAbsent'
  BY DEF Disturbs, StillAbsent

\* They hold on when nothing they looked at has appeared.
LEMMA QuietAbsent ==
    ASSUME StillAbsent, NEW t \in Threads, OthersSame(t), AbsentFor(t)',
           DOMAIN tables' = DOMAIN tables, current' = current, DOMAIN tools' \subseteq DOMAIN tools,
           disturbed \ {t} \subseteq disturbed'
    PROVE  StillAbsent'
  <1> SUFFICES ASSUME NEW u \in Threads \ {t}, u \notin disturbed' PROVE AbsentFor(u)'
    BY DEF StillAbsent
  <1>1. AbsentFor(u)
    BY DEF StillAbsent
  <1> QED
    BY <1>1 DEF AbsentFor, OthersSame, Exists, Resolve

\* A thread that found nothing absent.
LEMMA NothingAbsent ==
    ASSUME NEW t \in Threads, creating'[t] = None, saving'[t] = None, pc'[t] # "create"
    PROVE  AbsentFor(t)'
  BY DEF AbsentFor

CatalogInv == Catalog /\ StillAbsent /\ OverwriteOnly

LEMMA OverwriteStep ==
    ASSUME Typed, OverwriteOnly, NEW t \in Threads, ThreadStep(t)
    PROVE  OverwriteOnly'
  <1>1. OthersSame(t)
    BY OthersAreSame
  <1>2. pc'[t] \in {"resolve_replace", "replace"} => job'[t].mode = "overwrite"
    <2>1. ASSUME NEW place, Goto(t, place) PROVE pc'[t] = place
      BY <2>1 DEF Goto, Typed, QueryTyped
    <2>2. End(t) => pc'[t] = "idle"
      BY <2>1 DEF End
    <2>3. ASSUME NEW j \in Jobs, Begin(t, j) PROVE pc'[t] \in {"plan", "should_write"}
      BY <2>1, <2>3 DEF Begin
    <2>4. ASSUME ShouldWrite(t) \/ Compare(t) \/ Transpile(t) \/ Ask(t) \/ Execute(t) \/ ReadMetrics(t)
                 \/ ResetMetrics(t) \/ Persist(t) \/ WriteCached(t) \/ Record(t)
                 \/ SinkCreates(t) \/ ResolveInsert(t) \/ SinkInserts(t) \/ SinkReplaces(t) \/ Fail(t)
          PROVE  pc'[t] \notin {"resolve_replace", "replace"}
      BY <2>1, <2>2, <2>4 DEF ShouldWrite, Compare, Transpile, Ask, Execute, ReadMetrics, ResetMetrics,
         Persist, WriteCached, Record, SinkCreates, ResolveInsert, SinkInserts, SinkReplaces, Fail, Advance
    <2>5. CASE SinkChecks(t)
      <3>1. pc'[t] = "resolve_replace" =>
              job' = job /\ ~ Refuses(job[t].mode) /\ job[t].mode # "append" /\ pc[t] = "execute"
        BY <2>1, <2>2, <2>5 DEF SinkChecks
      <3>2. pc'[t] # "replace"
        BY <2>1, <2>2, <2>5 DEF SinkChecks
      <3>3. pc[t] = "execute" => job[t] \in Jobs
        BY DEF Typed, QueryTyped, NoJob
      <3> QED
        BY <3>1, <3>2, <3>3, JobsAssumption DEF Refuses
    <2>6. CASE ResolveReplace(t)
      <3>1. pc[t] = "resolve_replace" /\ job' = job
        BY <2>6 DEF ResolveReplace
      <3> QED
        BY <3>1 DEF OverwriteOnly
    <2>7. CASE Call(t) \/ CreateEnds(t) \/ Responds(t)
      <3>1. pc' = pc /\ job' = job
        BY <2>7 DEF Call, CreateEnds, Responds, Count, queryVars
      <3> QED
        BY <3>1 DEF OverwriteOnly
    <2> QED
      BY <2>3, <2>4, <2>5, <2>6, <2>7 DEF ThreadStep, Query
  <1> QED
    BY <1>1, <1>2 DEF OverwriteOnly, OthersSame

LEMMA CallKeepsCatalog ==
    ASSUME Typed, CatalogInv, NEW t \in Threads, Call(t)
    PROVE  Catalog' /\ StillAbsent'
  <1>1. pc[t] = "idle" /\ creating[t] = None /\ saving[t] = None /\ pc' = pc
    BY DEF Call, Ready, queryVars
  <1>2. OthersSame(t)
    BY OthersAreSame DEF ThreadStep
  <1>3. Catalog /\ StillAbsent
    BY DEF CatalogInv
  <1>4. UNCHANGED <<creating, saving>> => AbsentFor(t)'
    BY <1>1, NothingAbsent
  <1>5. ASSUME NEW d \in Databases, CreateDatabase(t, d) PROVE Catalog' /\ StillAbsent'
    BY <1>2, <1>3, <1>4, <1>5, CreateDatabaseKeeps, QuietAbsent DEF CreateDatabase, toolVars
  <1>6. ASSUME NEW d \in Databases, SetCurrentDatabase(t, d) PROVE Catalog' /\ StillAbsent'
    BY <1>3, <1>4, <1>6, SetCurrentDatabaseKeeps, DisturbingAbsent DEF SetCurrentDatabase, toolVars
  <1>7. ASSUME NEW d \in Databases, NEW cascade \in BOOLEAN, DropDatabase(t, d, cascade)
        PROVE  Catalog' /\ StillAbsent'
    BY <1>3, <1>4, <1>7, DropDatabaseKeeps, DisturbingAbsent DEF DropDatabase, toolVars
  <1>8. ASSUME NEW n \in Names, DropTable(t, n) PROVE Catalog' /\ StillAbsent'
    BY <1>3, <1>4, <1>8, DropTableKeeps, DisturbingAbsent DEF DropTable, toolVars
  <1>9. ASSUME NEW n \in Names, CreateView(t, n) \/ DropView(t, n) PROVE Catalog' /\ StillAbsent'
    BY <1>2, <1>3, <1>4, <1>9, ViewsKeep, QuietAbsent DEF CreateView, DropView, toolVars
  <1>10. ASSUME NEW tool \in Tools, CreateToolCheck(t, tool) PROVE Catalog' /\ StillAbsent'
    <2>1. AbsentFor(t)'
      BY <1>1, <1>10 DEF CreateToolCheck, Absent, AbsentFor, Typed, CatalogTyped
    <2> QED
      BY <1>2, <1>3, <1>10, <2>1, ToolsKeep, QuietAbsent DEF CreateToolCheck
  <1>11. ASSUME NEW tool \in Tools, DropTool(t, tool) PROVE Catalog' /\ StillAbsent'
    <2>1. DOMAIN tools' \subseteq DOMAIN tools
      BY <1>11 DEF DropTool, Without, Restrict
    <2> QED
      BY <1>2, <1>3, <1>4, <1>11, <2>1, ToolsKeep, QuietAbsent DEF DropTool
  <1>12. ASSUME NEW n \in Names, NEW schema \in Schemas, CreateTableCheck(t, n, schema)
         PROVE  Catalog' /\ StillAbsent'
    <2>1. Catalog' /\ creating'[t].id = Resolve(n)
      BY <1>3, <1>12, CreateTableCheckKeeps
    <2>2. AbsentFor(t)'
      BY <1>1, <1>12, <2>1 DEF CreateTableCheck, toolVars, AbsentFor, Exists
    <2> QED
      BY <1>2, <1>3, <1>12, <2>1, <2>2, QuietAbsent DEF CreateTableCheck, toolVars
  <1> QED
    BY <1>5, <1>6, <1>7, <1>8, <1>9, <1>10, <1>11, <1>12 DEF Call, CatalogCall

LEMMA CreateEndsKeepsCatalog ==
    ASSUME Typed, CatalogInv, NEW t \in Threads, CreateEnds(t)
    PROVE  Catalog' /\ StillAbsent'
  <1>1. pc' = pc
    BY DEF CreateEnds, queryVars
  <1>2. OthersSame(t)
    BY OthersAreSame DEF ThreadStep
  <1>3. Catalog /\ StillAbsent
    BY DEF CatalogInv
  <1>4. lock = t => creating[t] # None /\ saving[t] = None /\ pc[t] = "idle"
    BY DEF Typed, CatalogTyped, CatalogTypeOK, QueryTyped
  <1>5. CASE CreateTable(t)
    <2>1. t \notin disturbed => ~ Exists(creating[t].id)
      BY <1>3, <1>4, <1>5 DEF CreateTable, StillAbsent, AbsentFor
    <2>2. AbsentFor(t)' /\ Disturbs(t)
      BY <1>1, <1>4, <1>5, NothingAbsent
      DEF CreateTable, CreateIfNotExists, toolVars, Typed, CatalogTyped
    <2> QED
      BY <1>3, <1>5, <2>1, <2>2, CreateTableKeeps, DisturbingAbsent
  <1>6. CASE CreateTableFails(t)
    <2>1. AbsentFor(t)'
      BY <1>1, <1>4, <1>6, NothingAbsent DEF CreateTableFails, toolVars, Typed, CatalogTyped
    <2> QED
      BY <1>2, <1>3, <1>6, <2>1, CreateTableFailsKeeps, QuietAbsent DEF CreateTableFails, toolVars
  <1>7. CASE SaveTool(t)
    <2>1. creating[t] = None /\ pc[t] = "idle"
      BY <1>7 DEF SaveTool, Typed, QueryTyped
    <2>2. AbsentFor(t)' /\ Disturbs(t)
      BY <1>1, <1>7, <2>1, NothingAbsent DEF SaveTool, Typed, CatalogTyped
    <2> QED
      BY <1>3, <1>7, <2>2, SaveToolKeeps, DisturbingAbsent
  <1> QED
    BY <1>5, <1>6, <1>7 DEF CreateEnds

\* The steps of a query that leave the catalog alone.
LEMMA CatalogAlone ==
    ASSUME Typed, CatalogInv, NEW t \in Threads, ThreadStep(t), UNCHANGED catalogVars,
           pc'[t] # "create", creating[t] = None, saving[t] = None
    PROVE  Catalog' /\ StillAbsent'
  <1>1. Catalog'
    BY CatalogStutters DEF CatalogInv
  <1>2. AbsentFor(t)'
    BY NothingAbsent DEF catalogVars, toolVars
  <1> QED
    BY <1>1, <1>2, OthersAreSame, QuietAbsent DEF CatalogInv, catalogVars, toolVars

LEMMA QueryKeepsCatalog ==
    ASSUME Typed, CatalogInv, NEW t \in Threads, Query(t) \/ Fail(t) \/ \E j \in Jobs : Begin(t, j)
    PROVE  Catalog' /\ StillAbsent'
  <1>1. OthersSame(t) /\ ThreadStep(t)
    BY OthersAreSame DEF ThreadStep
  <1>2. Catalog /\ StillAbsent
    BY DEF CatalogInv
  <1>3. creating[t] = None /\ saving[t] = None
    <2>1. CASE \E j \in Jobs : Begin(t, j)
      BY <2>1 DEF Begin, Ready
    <2>2. CASE Query(t) \/ Fail(t)
      <3>1. pc[t] # "idle"
        BY <2>2 DEF Query, Fail, ShouldWrite, Compare, Transpile, Ask, Responds, Execute, ReadMetrics, ResetMetrics, Persist,
           Typed, QueryTyped, WriteCached, Record, SinkChecks, SinkCreates, ResolveInsert, SinkInserts, ResolveReplace, SinkReplaces
      <3> QED
        BY <3>1 DEF Typed, QueryTyped
    <2> QED
      BY <2>1, <2>2
  <1>4. ASSUME NEW place, Goto(t, place) PROVE pc'[t] = place
    BY <1>4 DEF Goto, Typed, QueryTyped
  <1>5. End(t) => pc'[t] = "idle"
    BY <1>4 DEF End
  <1>6. CASE SinkChecks(t)
    <2>1. /\ UNCHANGED <<dbs, current, tables, described, views, toolVars, lock, creating, raced>>
          /\ disturbed' = disturbed \ {t}
          /\ pc'[t] = "create" => job' = job /\ ~ Exists(Resolve(job[t].table))
      BY <1>4, <1>5, <1>6 DEF SinkChecks
    <2>2. Catalog'
      BY <1>2, <2>1 DEF Catalog, CatalogTyped, CatalogTypeOK, CatalogConsistent, toolVars
    <2>3. AbsentFor(t)'
      BY <1>3, <2>1 DEF AbsentFor, Exists, Resolve, toolVars
    <2> QED
      BY <1>1, <1>2, <2>1, <2>2, <2>3, QuietAbsent DEF toolVars
  <1>7. CASE SinkCreates(t)
    <2>1. job[t] \in Jobs /\ pc[t] = "create"
      BY <1>7 DEF SinkCreates, Typed, QueryTyped, NoJob
    <2>2. t \notin disturbed => ~ Exists(Resolve(job[t].table))
      BY <1>2, <2>1 DEF StillAbsent, AbsentFor
    <2>3. job[t].schema \in Schemas /\ WriteDfToTable(t, job[t].table, job[t].schema)
      BY <1>7, <2>1, JobsAssumption DEF SinkCreates
    <2>4. Catalog'
      BY <1>2, <2>2, <2>3, WriteDfKeeps
    <2>5. AbsentFor(t)' /\ Disturbs(t)
      BY <1>3, <1>4, <1>7, NothingAbsent DEF SinkCreates, WriteDfToTable, CreateIfNotExists, toolVars
    <2> QED
      BY <2>4, <2>5, DisturbingAbsent
  <1>8. CASE SinkInserts(t)
    <2>1. Catalog' /\ InsertDf(t, target[t])
      BY <1>2, <1>8, InsertDfKeeps DEF SinkInserts
    <2>2. AbsentFor(t)'
      BY <1>3, <1>4, <1>8, NothingAbsent DEF SinkInserts, InsertDf, toolVars
    <2> QED
      BY <1>1, <1>2, <2>1, <2>2, QuietAbsent DEF InsertDf, toolVars
  <1>9. CASE SinkReplaces(t)
    <2>1. job[t] \in Jobs
      BY <1>9 DEF SinkReplaces, Typed, QueryTyped, NoJob
    <2>2. job[t].schema \in Schemas /\ ReplaceTable(t, target[t], job[t].schema)
      BY <1>9, <2>1, JobsAssumption DEF SinkReplaces
    <2>3. Catalog'
      BY <1>2, <2>2, ReplaceTableKeeps
    <2>4. AbsentFor(t)' /\ Disturbs(t)
      BY <1>3, <1>4, <1>9, NothingAbsent DEF SinkReplaces, ReplaceTable, toolVars
    <2> QED
      BY <2>3, <2>4, DisturbingAbsent
  <1>10. ASSUME \/ \E j \in Jobs : Begin(t, j)
                \/ ShouldWrite(t) \/ Compare(t) \/ Transpile(t) \/ Ask(t) \/ Execute(t) \/ ReadMetrics(t)
                \/ ResetMetrics(t) \/ Persist(t) \/ WriteCached(t) \/ Record(t)
                \/ ResolveInsert(t) \/ ResolveReplace(t) \/ Fail(t)
         PROVE  Catalog' /\ StillAbsent'
    <2>1. UNCHANGED catalogVars /\ pc'[t] # "create"
      BY <1>4, <1>5, <1>10 DEF Begin, ShouldWrite, Compare, Transpile, Ask, Execute, ReadMetrics, ResetMetrics,
         Persist, WriteCached, Record, ResolveInsert, ResolveReplace, Fail, Advance
    <2> QED
      BY <1>1, <1>3, <2>1, CatalogAlone
  <1>11. CASE Responds(t)
    <2>1. UNCHANGED catalogVars /\ pc' = pc /\ pc[t] = "asking"
      BY <1>11 DEF Responds, Count, queryVars, Typed, QueryTyped
    <2> QED
      BY <1>1, <1>3, <2>1, CatalogAlone
  <1> QED
    BY <1>6, <1>7, <1>8, <1>9, <1>10, <1>11 DEF Query

LEMMA CatalogStep ==
    ASSUME Typed, CatalogInv, NEW t \in Threads, ThreadStep(t)
    PROVE  CatalogInv'
  BY QueryKeepsCatalog, CallKeepsCatalog, CreateEndsKeepsCatalog, OverwriteStep DEF ThreadStep, CatalogInv

----------------------------------------------------------------------------
(* The counters, step by step. *)

LEMMA ReportsTyped ==
    ASSUME Typed
    PROVE  Reports \in [Threads -> Int]
  BY DEF Typed, QueryTyped, Reports

\* The sum changes by what the thread that steps has reported more or less.
LEMMA ReportsChange ==
    ASSUME Typed, QueryTyped', NEW t \in Threads, OthersSame(t)
    PROVE  /\ Reports[t] \in Int /\ Reports'[t] \in Int
           /\ SumFunction(Reports) \in Int
           /\ SumFunction(Reports') = SumFunction(Reports) + (Reports'[t] - Reports[t])
  <1>1. PICK f, g : f = Reports /\ g = Reports'
    OBVIOUS
  <1>2. f \in [Threads -> Int]
    BY <1>1, ReportsTyped
  <1>3. g \in [Threads -> Int]
    BY <1>1 DEF QueryTyped, Reports
  <1>4. \A u \in Threads \ {t} : g[u] = f[u]
    BY <1>1 DEF OthersSame, Reports
  <1>5. g = [f EXCEPT ![t] = g[t]]
    BY <1>2, <1>3, <1>4
  <1>6. IsFiniteSet(Threads)
    BY CatalogAssumption
  <1>7. SumFunction(f) \in Int /\ SumFunction(g) = SumFunction(f) + (g[t] - f[t])
    BY <1>2, <1>3, <1>5, <1>6, SumChanges
  <1> QED
    BY <1>1, <1>2, <1>3, <1>7

\* A step by a thread that is not at its reset, and ends or not.
LEMMA UsesCounted ==
    ASSUME Typed, QueryTyped', Counted, NEW t \in Threads, OthersSame(t),
           UNCHANGED <<usage, mixed>>, owed' = owed + (taken'[t] - taken[t]),
           pc[t] # "reset", pc'[t] # "reset", pc'[t] \in Early => taken'[t] = 0
    PROVE  Counted'
  <1>1. \A u \in Threads : pc'[u] \in Early => taken'[u] = 0
    BY DEF Counted, OthersSame
  <1>2. ASSUME ~ mixed' PROVE \A u, v \in Threads : pc'[u] = "reset" /\ pc'[v] = "reset" => u = v
    <2>1. \A u, v \in Threads : pc[u] = "reset" /\ pc[v] = "reset" => u = v
      BY <1>2 DEF Counted
    <2>2. \A u \in Threads : pc'[u] = "reset" => pc[u] = "reset"
      BY DEF OthersSame
    <2> QED
      BY <2>1, <2>2
  <1>3. ASSUME ~ mixed' PROVE owed' = OnCounters' + SumFunction(Reports')
    <2>1. owed = OnCounters + SumFunction(Reports)
      BY <1>3 DEF Counted
    <2>2. SumFunction(Reports') = SumFunction(Reports) + (taken'[t] - taken[t])
      <3>1. Reports[t] = taken[t] + 0 /\ Reports'[t] = taken'[t] + 0
        BY DEF Reports
      <3>2. taken[t] \in Nat /\ taken'[t] \in Nat
        BY DEF Typed, QueryTyped
      <3>3. SumFunction(Reports') = SumFunction(Reports) + (Reports'[t] - Reports[t])
        BY ReportsChange
      <3> QED
        BY <3>1, <3>2, <3>3
    <2>3. OnCounters' = OnCounters
      <3>1. Reading' <=> Reading
        BY DEF OthersSame, Reading
      <3> QED
        BY <3>1 DEF OnCounters
    <2>4. /\ SumFunction(Reports) \in Int /\ OnCounters \in Int /\ owed \in Int
          /\ taken[t] \in Int /\ taken'[t] \in Int
      <3>1. OnCounters \in Int
        BY DEF OnCounters, Typed, QueryTyped
      <3>2. owed \in Int /\ taken[t] \in Int /\ taken'[t] \in Int
        BY DEF Typed, QueryTyped
      <3> QED
        BY <3>1, <3>2, ReportsChange
    <2> HIDE DEF OnCounters
    <2>5. PICK s, o, c : s = SumFunction(Reports) /\ o = owed /\ c = OnCounters
      OBVIOUS
    <2> QED
      BY <2>1, <2>2, <2>3, <2>4, <2>5
  <1> QED
    BY <1>1, <1>2, <1>3 DEF Counted

\* A response that is counted, in time or late.
LEMMA CountCounted ==
    ASSUME Typed, Counted, Count
    PROVE  Counted'
  <1>1. /\ UNCHANGED <<pc, taken, read>> /\ usage' = usage + 1 /\ owed' = owed + 1
        /\ mixed' = (mixed \/ Reading)
    BY DEF Count, queryVars
  <1>2. Reports' = Reports
    BY <1>1 DEF Reports
  <1>3. ASSUME ~ mixed' PROVE owed' = OnCounters' + SumFunction(Reports')
    <2>1. ~ mixed /\ ~ Reading /\ ~ Reading'
      BY <1>1, <1>3 DEF Reading
    <2>2. owed = usage + SumFunction(Reports) /\ OnCounters' = usage'
      BY <2>1 DEF Counted, OnCounters, Reading
    <2>3. SumFunction(Reports) \in Int
      <3>1. PICK f : f = Reports
        OBVIOUS
      <3>2. f \in [Threads -> Int] /\ DOMAIN f = Threads
        BY <3>1, ReportsTyped
      <3>3. Sums(f) \in [SUBSET Threads -> Int]
        BY <3>2, SumsDefined, CatalogAssumption
      <3>4. SumFunction(f) \in Int
        BY <3>2, <3>3, SumIs
      <3> QED
        BY <3>1, <3>4
    <2>4. usage \in Int
      BY DEF Typed, QueryTyped
    <2>5. PICK s : s = SumFunction(Reports)
      OBVIOUS
    <2>6. SumFunction(Reports') = s
      BY <1>2, <2>5
    <2> QED
      BY <1>1, <2>2, <2>3, <2>4, <2>5, <2>6
  <1> QED
    BY <1>1, <1>3 DEF Counted

LEMMA ReadCounted ==
    ASSUME Typed, QueryTyped', Counted, NEW t \in Threads, OthersSame(t), ReadMetrics(t)
    PROVE  Counted'
  <1>1. /\ pc[t] = "metrics" /\ pc'[t] = "reset" /\ read'[t] = usage
        /\ mixed' = (mixed \/ Reading) /\ UNCHANGED <<taken, usage, owed>>
    BY DEF ReadMetrics, Goto, Typed, QueryTyped
  <1>2. \A u \in Threads : pc'[u] \in Early => taken'[u] = 0
    BY <1>1 DEF Counted, OthersSame, Early
  <1>3. ASSUME ~ mixed'
        PROVE  \A u \in Threads : pc[u] # "reset" /\ (pc'[u] = "reset" => u = t)
    BY <1>1, <1>3 DEF Reading, OthersSame
  <1>4. ASSUME ~ mixed' PROVE owed' = OnCounters' + SumFunction(Reports')
    <2>1. owed = usage + SumFunction(Reports)
      BY <1>1, <1>3, <1>4 DEF Counted, OnCounters, Reading
    <2>2. OnCounters' = 0
      BY <1>1 DEF OnCounters, Reading
    <2>3. usage \in Int /\ owed \in Int /\ taken[t] \in Int
      BY DEF Typed, QueryTyped
    <2>4. Reports[t] = taken[t] + 0 /\ Reports'[t] = taken[t] + usage
      BY <1>1 DEF Reports
    <2>5. SumFunction(Reports) \in Int /\ SumFunction(Reports') = SumFunction(Reports) + (Reports'[t] - Reports[t])
      BY ReportsChange
    <2> QED
      BY <1>1, <2>1, <2>2, <2>3, <2>4, <2>5
  <1> QED
    BY <1>2, <1>3, <1>4 DEF Counted

LEMMA ResetCounted ==
    ASSUME Typed, QueryTyped', Counted, NEW t \in Threads, OthersSame(t), ResetMetrics(t)
    PROVE  Counted'
  <1>1. /\ pc[t] = "reset" /\ pc'[t] \in {"persist", "record", "execute"} /\ usage' = 0
        /\ taken'[t] = taken[t] + read[t] /\ UNCHANGED <<mixed, owed>>
    BY DEF ResetMetrics, Advance, Reset, Goto, Typed, QueryTyped
  <1>2. \A u \in Threads : pc'[u] \in Early => taken'[u] = 0
    BY <1>1 DEF Counted, OthersSame, Early
  <1>3. ASSUME ~ mixed' PROVE \A u \in Threads : pc'[u] # "reset"
    BY <1>1, <1>3 DEF Counted, OthersSame
  <1>4. ASSUME ~ mixed' PROVE owed' = OnCounters' + SumFunction(Reports')
    <2>1. owed = 0 + SumFunction(Reports)
      BY <1>1, <1>4 DEF Counted, OnCounters, Reading
    <2>2. OnCounters' = 0
      BY <1>1, <1>3, <1>4 DEF OnCounters, Reading
    <2>3. owed \in Int /\ taken[t] \in Int /\ read[t] \in Int
      BY DEF Typed, QueryTyped
    <2>4. Reports[t] = taken[t] + read[t] /\ Reports'[t] = taken[t] + read[t] + 0
      BY <1>1 DEF Reports
    <2>5. SumFunction(Reports) \in Int /\ SumFunction(Reports') = SumFunction(Reports) + (Reports'[t] - Reports[t])
      BY ReportsChange
    <2> QED
      BY <1>1, <2>1, <2>2, <2>3, <2>4, <2>5
  <1> QED
    BY <1>2, <1>3, <1>4 DEF Counted

LEMMA CountedStep ==
    ASSUME Typed, QueryTyped', Counted, NEW t \in Threads, ThreadStep(t)
    PROVE  Counted'
  <1> USE DEF usageVars
  <1>1. OthersSame(t)
    BY OthersAreSame
  <1>2. usage \in Nat /\ owed \in Int /\ mixed \in BOOLEAN /\ taken[t] \in Nat
    BY DEF Typed, QueryTyped
  <1>3. ASSUME NEW place, Goto(t, place) PROVE pc'[t] = place
    BY <1>3 DEF Goto, Typed, QueryTyped
  <1>4. End(t) => pc'[t] = "idle" /\ taken'[t] = 0
    BY <1>3 DEF End, Typed, QueryTyped
  <1>5. pc[t] \in Early => taken[t] = 0
    BY DEF Counted
  <1>6. ASSUME UNCHANGED <<usage, mixed>>, owed' = owed + (taken'[t] - taken[t]), taken'[t] \in Int,
               pc[t] # "reset", pc'[t] # "reset", pc'[t] \in Early => taken'[t] = 0
        PROVE  Counted'
    BY <1>1, <1>6, UsesCounted
  <1>7. ASSUME UNCHANGED <<usage, mixed, owed, taken>>, pc[t] # "reset", pc'[t] # "reset",
               pc'[t] \in Early => pc[t] \in Early
        PROVE  Counted'
    <2>1. owed' = owed + (taken'[t] - taken[t]) /\ taken'[t] \in Int
      BY <1>2, <1>7
    <2> QED
      BY <1>5, <1>6, <1>7, <2>1
  <1>8. ASSUME UNCHANGED <<usage, mixed>>, End(t), pc[t] # "reset",
               owed' = owed - taken[t] \/ (owed' = owed /\ pc[t] \in Early)
        PROVE  Counted'
    <2>1. owed' = owed + (taken'[t] - taken[t]) /\ taken'[t] \in Int
      BY <1>2, <1>4, <1>5, <1>8
    <2> QED
      BY <1>4, <1>6, <1>8, <2>1
  <1>9. ASSUME NEW j \in Jobs, Begin(t, j) PROVE Counted'
    BY <1>3, <1>7, <1>9 DEF Begin, Ready, Early
  <1>10. CASE ShouldWrite(t)
    BY <1>3, <1>7, <1>8, <1>10 DEF ShouldWrite, Early
  <1>11. CASE Compare(t)
    BY <1>3, <1>7, <1>8, <1>11 DEF Compare, Early
  <1>12. CASE Transpile(t)
    BY <1>3, <1>7, <1>8, <1>12 DEF Transpile, Early
  <1>13. CASE Execute(t)
    BY <1>3, <1>7, <1>13 DEF Execute, Early
  <1>22. CASE Ask(t)
    BY <1>3, <1>7, <1>22 DEF Ask, Early
  <1>23. CASE Responds(t)
    BY <1>23, CountCounted DEF Responds
  <1>14. CASE ReadMetrics(t)
    BY <1>1, <1>14, ReadCounted
  <1>15. CASE ResetMetrics(t)
    BY <1>1, <1>15, ResetCounted
  <1>16. CASE Persist(t) \/ WriteCached(t)
    BY <1>3, <1>7, <1>16 DEF Persist, WriteCached, Advance, Early
  <1>17. CASE Record(t)
    BY <1>8, <1>17 DEF Record
  <1>18. CASE SinkChecks(t)
    BY <1>3, <1>7, <1>8, <1>18 DEF SinkChecks, Early
  <1>19. CASE SinkCreates(t) \/ ResolveInsert(t) \/ SinkInserts(t) \/ ResolveReplace(t) \/ SinkReplaces(t)
    BY <1>3, <1>7, <1>19 DEF SinkCreates, ResolveInsert, SinkInserts, ResolveReplace, SinkReplaces, Early
  <1>20. CASE Fail(t)
    <2>1. UNCHANGED <<usage, mixed>> /\ End(t) /\ pc[t] # "reset" /\ owed' = owed - taken[t]
      BY <1>20 DEF Fail
    <2> QED
      BY <1>8, <2>1
  <1>21. CASE Call(t) \/ CreateEnds(t)
    <2>1. UNCHANGED <<pc, usage, mixed, owed, taken>>
      BY <1>21 DEF Call, CreateEnds, queryVars
    <2>2. OnCounters' = OnCounters /\ Reports' = Reports
      BY <1>21 DEF Call, CreateEnds, queryVars, OnCounters, Reading, Reports
    <2>3. SumFunction(Reports') = SumFunction(Reports)
      BY <2>2
    <2> QED
      BY <2>1, <2>2, <2>3 DEF Counted
  <1> QED
    BY <1>9, <1>10, <1>11, <1>12, <1>13, <1>14, <1>15, <1>16, <1>17, <1>18, <1>19, <1>20, <1>21,
       <1>22, <1>23
    DEF ThreadStep, Query

----------------------------------------------------------------------------
(* The plans, step by step. *)

PlanInv == CacheCorrect /\ PlanFollowed

\* What a query relies on at one of its operators.
LEMMA SoundAt ==
    ASSUME NEW j \in Jobs, NEW keys, keys \subseteq Keys, Closed(keys), ~ CompileRaises(j.plan),
           NEW ops, ops = Compiled(j.plan, keys)
    PROVE  /\ ops \in Seq(Range(ops)) /\ Len(ops) \in Nat /\ Len(ops) > 0
           /\ \A n \in 1 .. Len(ops) : Readable(ops, n - 1) =>
                /\ Runs(ops[n], Stacks(ops)[n - 1])
                /\ Writes(ops[n]) => \E f \in PersistedBy(j.plan) :
                      /\ f.key = ops[n].key /\ f.rows = Last(Stacks(ops)[n])
                      /\ f.within \subseteq keys \cup Written(ops, n - 1)
                /\ \A f \in PersistedBy(j.plan) :
                      ops[n].op = "read" /\ ops[n].key = f.key => f.key \in keys \cup Written(ops, n - 1)
           /\ Readable(ops, Len(ops)) => Stacks(ops)[Len(ops)] = <<MeaningOf(j.plan)>>
           /\ \A f \in PersistedBy(j.plan) : f.key \in keys \cup Written(ops, Len(ops))
  <1>1. Sound(j.plan, keys)
    BY PlansAssumption
  <1>2. ops \in Seq(Range(ops)) /\ ops # <<>>
    BY <1>1 DEF Sound
  <1>3. Len(ops) \in Nat /\ Len(ops) > 0 /\ DOMAIN ops = 1 .. Len(ops)
    <2>1. Len(ops) \in Nat \ {0}
      BY <1>2, EmptySeq
    <2>2. DOMAIN ops = 1 .. Len(ops)
      BY <1>2, LenProperties
    <2> QED
      BY <2>1, <2>2
  <1> QED
    BY <1>1, <1>2, <1>3 DEF Sound

LEMMA ReadableBefore ==
    ASSUME NEW ops, NEW n \in Nat \ {0}, Readable(ops, n)
    PROVE  Readable(ops, n - 1)
  BY ReadableNext

\* Where a query is that executes an operator, of its plan or the sink.
LEMMA WhereItIs ==
    ASSUME Typed, PlanInv, NEW t \in Threads, pc[t] \notin Early
    PROVE  /\ job[t] \in Jobs /\ ~ CompileRaises(job[t].plan)
           /\ \E keys \in SUBSET DOMAIN cache :
                /\ keys \subseteq Keys /\ Closed(keys)
                /\ Follows(t, keys)
  <1>1. job[t] \in Jobs
    BY DEF Typed, QueryTyped, Early, NoJob
  <1> QED
    BY <1>1 DEF PlanInv, PlanFollowed, OnPlan, CacheCorrect

\* At an operator of a plan the thread's next operator is that one; past the plan it is the
\* sink or none.
LEMMA NextInPlan ==
    ASSUME NEW t \in Threads, NEW ops, ops \in Seq(Range(ops)), NEW n \in 1 .. Len(ops),
           InPlan(t, ops, n)
    PROVE  /\ Operation(t) = ops[n]
           /\ Tail(steps[t]) = Rest(ops, n + 1, SinkOf(t))
           /\ Len(steps[t]) = (Len(ops) - n + 1) + (IF job[t].table = None THEN 0 ELSE 1)
           /\ Rest(ops, Len(ops) + 1, SinkOf(t)) = SinkOf(t)
  <1> DEFINE S == Range(ops) \cup {Sink}
  <1>1. ops \in Seq(S) /\ SinkOf(t) \in Seq(S)
    <2>1. ops \in Seq(S)
      BY SeqMonotonic
    <2>2. <<>> \in Seq(S) /\ <<Sink>> \in Seq(S)
      OBVIOUS
    <2> QED
      BY <2>1, <2>2 DEF SinkOf
  <1>2. Len(SinkOf(t)) = IF job[t].table = None THEN 0 ELSE 1
    BY DEF SinkOf
  <1> HIDE DEF S
  <1>3. steps[t] = Rest(ops, n, SinkOf(t))
    BY DEF InPlan
  <1>4. /\ Head(steps[t]) = ops[n] /\ Tail(steps[t]) = Rest(ops, n + 1, SinkOf(t))
        /\ Len(steps[t]) = (Len(ops) - n + 1) + Len(SinkOf(t))
    BY <1>1, <1>3, RestOf
  <1>5. Rest(ops, Len(ops) + 1, SinkOf(t)) = SinkOf(t)
    BY <1>1, RestEnds
  <1> QED
    BY <1>2, <1>4, <1>5 DEF Operation

LEMMA NextPastPlan ==
    ASSUME NEW t \in Threads, NEW ops, PastPlan(t, ops), pc[t] # "record"
    PROVE  /\ Operation(t) = Sink /\ Tail(steps[t]) = <<>> /\ Len(steps[t]) = 1
           /\ ~ Writes(Operation(t)) /\ Operation(t).op = "sink"
  <1>1. steps[t] = <<Sink>>
    BY DEF PastPlan
  <1> QED
    BY <1>1 DEF Operation, Sink, Writes

\* An operator of a plan can run, and is not the sink.
LEMMA RunsInPlan ==
    ASSUME Typed, PlanInv, NEW t \in Threads, pc[t] = "asking" \/ (pc[t] = "execute" /\ Operation(t).op # "sink")
    PROVE  Runs(Operation(t), stack[t]) /\ stack[t] \in Seq(SUBSET Rows)
  <1>1. PICK keys \in SUBSET DOMAIN cache : keys \subseteq Keys /\ Closed(keys) /\ Follows(t, keys)
    BY WhereItIs DEF Early
  <1>2. PICK ops : ops = Compiled(job[t].plan, keys)
    OBVIOUS
  <1>3. job[t] \in Jobs /\ ~ CompileRaises(job[t].plan)
    BY WhereItIs DEF Early
  <1>4. ops \in Seq(Range(ops)) /\ \A n \in 1 .. Len(ops) : Readable(ops, n - 1) => Runs(ops[n], Stacks(ops)[n - 1])
    BY <1>1, <1>2, <1>3, SoundAt
  <1>5. ~ PastPlan(t, ops)
    BY NextPastPlan DEF PastPlan
  <1>6. PICK n \in 1 .. Len(ops) : InPlan(t, ops, n)
    BY <1>1, <1>2, <1>5 DEF Follows
  <1>7. stack[t] = Stacks(ops)[n - 1] /\ Readable(ops, n - 1)
    BY <1>6 DEF InPlan, Ran
  <1>8. Operation(t) = ops[n]
    BY <1>4, <1>6, NextInPlan
  <1> QED
    BY <1>4, <1>7, <1>8 DEF Typed, QueryTyped

\* So a query that executes makes some number of calls, and leaves frames of rows.
LEMMA QueriesExecutable ==
    ASSUME Typed, PlanInv, NEW t \in Threads, pc[t] \in {"execute", "asking"}
    PROVE  /\ CallsMade(t) \in Nat
           /\ Execute(t) => Executed(t) \in Seq(SUBSET Rows) /\ Executed(t) # <<>>
  <1>1. CallsMade(t) \in Nat
    <2>1. CASE Operation(t).op = "filter"
      <3>1. Runs(Operation(t), stack[t]) /\ stack[t] \in Seq(SUBSET Rows)
        BY <2>1, RunsInPlan
      <3>2. Len(stack[t]) \in Nat /\ Len(stack[t]) >= 1 /\ CallsOf(Operation(t).pred) \in Nat
        BY <2>1, <3>1 DEF Runs
      <3>3. stack[t][Len(stack[t])] \in SUBSET Rows
        BY <3>1, <3>2
      <3>4. Last(stack[t]) \subseteq Rows
        BY <3>3 DEF Last
      <3>5. Cardinality(Last(stack[t])) \in Nat
        BY <3>4, JobsAssumption, FS_Subset, FS_CardinalityType
      <3> QED
        BY <2>1, <3>2, <3>5 DEF CallsMade
    <2>2. CASE Operation(t).op # "filter"
      BY <2>2 DEF CallsMade
    <2> QED
      BY <2>1, <2>2
  <1>2. ASSUME Execute(t) PROVE Executed(t) \in Seq(SUBSET Rows) /\ Executed(t) # <<>>
    <2>1. Runs(Operation(t), stack[t]) /\ stack[t] \in Seq(SUBSET Rows)
      BY <1>2, RunsInPlan DEF Execute
    <2>2. Operation(t).op = "read" => cache[Operation(t).key] \subseteq Rows
      BY <1>2 DEF Execute, PlanInv, CacheCorrect
    <2> QED
      BY <2>1, <2>2, AfterTyped DEF Executed
  <1> QED
    BY <1>1, <1>2

----------------------------------------------------------------------------
(* What persists is what was to be, and each query goes on along its plan. *)

\* Nothing a thread relies on is lost when frames are added.
LEMMA FollowsKept ==
    ASSUME NEW t \in Threads, NEW keys, Follows(t, keys),
           pc'[t] = pc[t], job'[t] = job[t], steps'[t] = steps[t], stack'[t] = stack[t],
           DOMAIN cache \subseteq DOMAIN cache'
    PROVE  Follows(t, keys)'
  <1>1. PICK ops : ops = Compiled(job[t].plan, keys)
    OBVIOUS
  <1>2. ops = Compiled(job'[t].plan, keys) /\ SinkOf(t)' = SinkOf(t)
    BY <1>1 DEF SinkOf
  <1>3. ASSUME NEW n \in 1 .. Len(ops), InPlan(t, ops, n) PROVE InPlan(t, ops, n)'
    BY <1>2, <1>3 DEF InPlan, Ran
  <1>4. ASSUME PastPlan(t, ops) PROVE PastPlan(t, ops)'
    BY <1>4 DEF PastPlan, Ran
  <1> QED
    BY <1>1, <1>2, <1>3, <1>4 DEF Follows

LEMMA OnPlanKept ==
    ASSUME NEW t \in Threads, OnPlan(t), DOMAIN cache \subseteq DOMAIN cache',
           pc'[t] = pc[t], job'[t] = job[t], steps'[t] = steps[t], stack'[t] = stack[t]
    PROVE  OnPlan(t)'
  <1>1. CASE pc[t] \in Early
    BY <1>1 DEF OnPlan, Early
  <1>2. CASE pc[t] \notin Early
    <2>1. PICK keys \in SUBSET DOMAIN cache : Closed(keys) /\ Follows(t, keys)
      BY <1>2 DEF OnPlan
    <2>2. Follows(t, keys)' /\ keys \in SUBSET DOMAIN cache' /\ ~ CompileRaises(job'[t].plan)
      BY <1>2, <2>1, FollowsKept DEF OnPlan
    <2>3. pc'[t] \notin Early
      BY <1>2
    <2> QED
      BY <2>1, <2>2, <2>3 DEF OnPlan, Early
  <1> QED
    BY <1>1, <1>2

LEMMA OthersFollow ==
    ASSUME PlanFollowed, NEW t \in Threads, OthersSame(t), DOMAIN cache \subseteq DOMAIN cache', OnPlan(t)'
    PROVE  PlanFollowed'
  <1>1. ASSUME NEW u \in Threads \ {t} PROVE OnPlan(u)'
    <2>1. /\ pc'[u] = pc[u] /\ job'[u] = job[u] /\ steps'[u] = steps[u] /\ stack'[u] = stack[u]
          /\ OnPlan(u)
      BY DEF OthersSame, PlanFollowed
    <2> QED
      BY <2>1, OnPlanKept
  <1> QED
    BY <1>1 DEF PlanFollowed

\* A thread that is past its planning when it has stepped.
LEMMA FollowsOn ==
    ASSUME NEW t \in Threads, NEW keys, keys \in SUBSET DOMAIN cache', Closed(keys), Follows(t, keys)',
           pc'[t] \notin Early, ~ CompileRaises(job'[t].plan)
    PROVE  OnPlan(t)'
  BY DEF OnPlan, Early

\* A step from one place of an operator to another, ...
LEMMA MovesOn ==
    ASSUME NEW t \in Threads, NEW ops, NEW n \in 1 .. Len(ops), InPlan(t, ops, n), pc[t] \notin {"execute", "asking"},
           pc'[t] \in {"metrics", "reset", "persist", "write"},
           pc'[t] \in {"persist", "write"} => Writes(ops[n]),
           job'[t] = job[t], steps'[t] = steps[t], stack'[t] = stack[t], DOMAIN cache \subseteq DOMAIN cache'
    PROVE  InPlan(t, ops, n)'
  <1>1. SinkOf(t)' = SinkOf(t)
    BY DEF SinkOf
  <1> QED
    BY <1>1 DEF InPlan, Ran

\* ... past the plan, ...
LEMMA MovesPast ==
    ASSUME NEW t \in Threads, NEW ops, PastPlan(t, ops), pc[t] # "record",
           pc'[t] \notin {"asking", "persist", "write", "record"},
           steps'[t] = steps[t], stack'[t] = stack[t], DOMAIN cache \subseteq DOMAIN cache'
    PROVE  PastPlan(t, ops)'
  BY DEF PastPlan, Ran

\* ... and from an operator to the next, the sink or the end.
LEMMA Advances ==
    ASSUME Typed, NEW t \in Threads, NEW ops, ops \in Seq(Range(ops)), NEW n \in 1 .. Len(ops),
           InPlan(t, ops, n), pc[t] \notin {"execute", "asking"}, Advance(t), job'[t] = job[t], stack'[t] = stack[t],
           DOMAIN cache \subseteq DOMAIN cache', Writes(ops[n]) => ops[n].key \in DOMAIN cache'
    PROVE  /\ (\E m \in 1 .. Len(ops) : InPlan(t, ops, m)') \/ PastPlan(t, ops)'
           /\ pc'[t] \in {"execute", "record"}
  <1>1. /\ Tail(steps[t]) = Rest(ops, n + 1, SinkOf(t))
        /\ Len(steps[t]) = (Len(ops) - n + 1) + (IF job[t].table = None THEN 0 ELSE 1)
        /\ Rest(ops, Len(ops) + 1, SinkOf(t)) = SinkOf(t)
    BY NextInPlan
  <1>2. /\ steps'[t] = Tail(steps[t])
        /\ pc'[t] = IF Len(steps[t]) = 1 THEN "record" ELSE "execute"
    BY DEF Advance, Goto, Typed, QueryTyped
  <1>3. Len(ops) \in Nat /\ n \in Nat /\ n <= Len(ops) /\ n >= 1
    BY LenProperties
  <1>4. Ran(t, ops, n)' /\ SinkOf(t)' = SinkOf(t)
    BY DEF InPlan, Ran, SinkOf
  <1>5. Written(ops, n) \subseteq DOMAIN cache'
    <2>1. Written(ops, n) = Written(ops, n - 1) \cup (IF Writes(ops[n]) THEN {ops[n].key} ELSE {})
      BY <1>3, WrittenNext
    <2>2. Written(ops, n - 1) \subseteq DOMAIN cache
      BY DEF InPlan
    <2> QED
      BY <2>1, <2>2
  <1>6. CASE n < Len(ops)
    <2>1. n + 1 \in 1 .. Len(ops) /\ (n + 1) - 1 = n /\ Len(steps[t]) # 1
      <3>1. PICK sink \in {0, 1} : sink = IF job[t].table = None THEN 0 ELSE 1
        OBVIOUS
      <3>2. Len(steps[t]) = (Len(ops) - n + 1) + sink
        BY <1>1, <3>1
      <3> QED
        BY <1>3, <1>6, <3>2
    <2>2. pc'[t] = "execute" /\ steps'[t] = Rest(ops, n + 1, SinkOf(t)')
      BY <1>1, <1>2, <1>4, <2>1
    <2>3. InPlan(t, ops, n + 1)'
      BY <1>4, <1>5, <2>1, <2>2 DEF InPlan
    <2> QED
      BY <2>1, <2>2, <2>3
  <1>7. CASE ~ n < Len(ops)
    <2>1. n = Len(ops)
      BY <1>3, <1>7
    <2>2. steps'[t] = SinkOf(t)
      BY <1>1, <1>2, <2>1
    <2>3. Ran(t, ops, Len(ops))' /\ Written(ops, Len(ops)) \subseteq DOMAIN cache'
      BY <1>4, <1>5, <2>1
    <2>4. CASE job[t].table = None
      <3>1. Len(steps[t]) = 1
        BY <1>1, <1>3, <2>1, <2>4
      <3>2. pc'[t] = "record" /\ steps'[t] = <<>>
        BY <1>2, <2>2, <2>4, <3>1 DEF SinkOf
      <3> QED
        BY <2>3, <3>2 DEF PastPlan
    <2>5. CASE job[t].table # None
      <3>1. Len(steps[t]) # 1
        BY <1>1, <1>3, <2>1, <2>5
      <3>2. pc'[t] = "execute" /\ steps'[t] = <<Sink>>
        BY <1>2, <2>2, <2>5, <3>1 DEF SinkOf
      <3> QED
        BY <2>3, <3>2 DEF PastPlan
    <2> QED
      BY <2>4, <2>5
  <1> QED
    BY <1>6, <1>7

\* Where a query is in its plan.
LEMMA Located ==
    ASSUME Typed, PlanInv, NEW t \in Threads, pc[t] \notin Early
    PROVE  /\ job[t] \in Jobs /\ ~ CompileRaises(job[t].plan)
           /\ \E keys \in SUBSET DOMAIN cache : \E ops :
                /\ keys \subseteq Keys /\ Closed(keys) /\ ops = Compiled(job[t].plan, keys)
                /\ (\E n \in 1 .. Len(ops) : InPlan(t, ops, n)) \/ PastPlan(t, ops)
  <1>1. /\ job[t] \in Jobs /\ ~ CompileRaises(job[t].plan)
        /\ \E keys \in SUBSET DOMAIN cache : keys \subseteq Keys /\ Closed(keys) /\ Follows(t, keys)
    BY WhereItIs
  <1>2. PICK keys \in SUBSET DOMAIN cache : keys \subseteq Keys /\ Closed(keys) /\ Follows(t, keys)
    BY <1>1
  <1>3. PICK ops : ops = Compiled(job[t].plan, keys)
    OBVIOUS
  <1>4. (\E n \in 1 .. Len(ops) : InPlan(t, ops, n)) \/ PastPlan(t, ops)
    BY <1>2, <1>3 DEF Follows
  <1> QED
    BY <1>1, <1>2, <1>3, <1>4

\* A thread that keeps its job, and is in or past the plan it was compiled to.
LEMMA GoesOn ==
    ASSUME NEW t \in Threads, NEW keys \in SUBSET DOMAIN cache, NEW ops,
           ops = Compiled(job[t].plan, keys), Closed(keys), ~ CompileRaises(job[t].plan),
           job'[t] = job[t], DOMAIN cache \subseteq DOMAIN cache', pc'[t] \notin Early,
           (\E n \in 1 .. Len(ops) : InPlan(t, ops, n)') \/ PastPlan(t, ops)'
    PROVE  OnPlan(t)'
  <1>1. ops = Compiled(job'[t].plan, keys) /\ keys \in SUBSET DOMAIN cache'
    OBVIOUS
  <1>2. Follows(t, keys)'
    BY <1>1 DEF Follows
  <1> QED
    BY <1>1, <1>2, FollowsOn

LEMMA EndFollows ==
    ASSUME Typed, NEW t \in Threads, End(t)
    PROVE  OnPlan(t)'
  BY DEF End, Goto, OnPlan, Early, Typed, QueryTyped

LEMMA TranspileFollows ==
    ASSUME Typed, PlanInv, NEW t \in Threads, Transpile(t)
    PROVE  OnPlan(t)'
  <1>1. CASE CompileRaises(job[t].plan)
    BY <1>1, EndFollows DEF Transpile
  <1>2. CASE ~ CompileRaises(job[t].plan)
    <2>1. PICK keys : keys = DOMAIN cache
      OBVIOUS
    <2>2. PICK ops : ops = Compiled(job[t].plan, keys)
      OBVIOUS
    <2>3. /\ pc[t] = "plan" /\ pc'[t] = "execute" /\ UNCHANGED <<job, stack, cache>>
          /\ steps'[t] = ops \o SinkOf(t)
      BY <1>2, <2>1, <2>2 DEF Transpile, Goto, SinkOf, Available, Typed, QueryTyped
    <2>4. job[t] \in Jobs /\ stack[t] = <<>>
      BY <2>3 DEF Typed, QueryTyped, NoJob, PlanInv, PlanFollowed, OnPlan, Early
    <2>5. keys \subseteq Keys /\ Closed(keys)
      BY <2>1 DEF PlanInv, CacheCorrect
    <2>6. ops \in Seq(Range(ops)) /\ Len(ops) \in Nat /\ Len(ops) > 0
      BY <1>2, <2>2, <2>4, <2>5, SoundAt
    <2>7. steps'[t] = Rest(ops, 1, SinkOf(t)')
      <3> DEFINE S == Range(ops) \cup {Sink}
      <3>1. ops \in Seq(S) /\ SinkOf(t) \in Seq(S)
        <4>1. ops \in Seq(S)
          BY <2>6, SeqMonotonic
        <4>2. <<>> \in Seq(S) /\ <<Sink>> \in Seq(S)
          OBVIOUS
        <4> QED
          BY <4>1, <4>2 DEF SinkOf
      <3> HIDE DEF S
      <3>2. PICK sink : sink = SinkOf(t)
        OBVIOUS
      <3>3. Rest(ops, 1, sink) = ops \o sink
        BY <3>1, <3>2, RestEnds
      <3>4. SinkOf(t)' = sink
        BY <2>3, <3>2 DEF SinkOf
      <3> QED
        BY <2>3, <3>2, <3>3, <3>4
    <2>8. Ran(t, ops, 0)' /\ Written(ops, 0) = {}
      <3>1. Stacks(ops)[0] = <<>>
        BY <2>6, StacksDefined
      <3>2. Readable(ops, 0) /\ Written(ops, 0) = {}
        BY ReadableNext, WrittenNext
      <3> QED
        BY <2>3, <2>4, <3>1, <3>2 DEF Ran
    <2>9. 1 \in 1 .. Len(ops) /\ 1 - 1 = 0
      BY <2>6
    <2>10. InPlan(t, ops, 1)'
      BY <2>3, <2>7, <2>8, <2>9 DEF InPlan
    <2> QED
      BY <1>2, <2>1, <2>2, <2>3, <2>5, <2>9, <2>10, GoesOn DEF Early
  <1> QED
    BY <1>1, <1>2

LEMMA ExecuteFollows ==
    ASSUME Typed, PlanInv, NEW t \in Threads, Execute(t)
    PROVE  OnPlan(t)'
  <1>1. PICK keys, ops :
           /\ keys \in SUBSET DOMAIN cache
           /\ keys \subseteq Keys /\ Closed(keys) /\ ops = Compiled(job[t].plan, keys)
           /\ (\E n \in 1 .. Len(ops) : InPlan(t, ops, n)) \/ PastPlan(t, ops)
    BY Located DEF Execute, Early
  <1>2. job[t] \in Jobs /\ ~ CompileRaises(job[t].plan)
    BY Located DEF Execute, Early
  <1>3. /\ pc[t] = "asking" \/ (pc[t] = "execute" /\ Operation(t).op # "sink")
        /\ pc'[t] = "metrics"
        /\ Operation(t).op = "read" => Operation(t).key \in DOMAIN cache
        /\ stack'[t] = Executed(t) /\ UNCHANGED <<job, steps, cache>>
    BY DEF Execute, Goto, usageVars, Typed, QueryTyped
  <1>4. PICK n \in 1 .. Len(ops) : InPlan(t, ops, n)
    BY <1>1, <1>3, NextPastPlan DEF PastPlan
  <1>5. /\ ops \in Seq(Range(ops)) /\ Len(ops) \in Nat
        /\ \A m \in 1 .. Len(ops) : Readable(ops, m - 1) => Runs(ops[m], Stacks(ops)[m - 1])
    BY <1>1, <1>2, SoundAt
  <1>6. Operation(t) = ops[n]
    BY <1>4, <1>5, NextInPlan
  <1>7. stack[t] = Stacks(ops)[n - 1] /\ Readable(ops, n - 1)
    BY <1>3, <1>4 DEF InPlan, Ran
  <1>8. ops[n].op = "read" => ops[n].key \in Keys /\ cache[ops[n].key] = RowsOf(ops[n].key)
    BY <1>3, <1>6 DEF PlanInv, CacheCorrect
  <1>9. Executed(t) = Stacks(ops)[n]
    <2>1. Stacks(ops)[n] = After(Stacks(ops)[n - 1], ops[n], RowsOf(ops[n].key))
      BY <1>5, StacksDefined
    <2>2. Executed(t) = After(Stacks(ops)[n - 1], ops[n], cache[ops[n].key])
      BY <1>6, <1>7 DEF Executed
    <2> QED
      BY <1>5, <1>7, <1>8, <2>1, <2>2, AfterReads
  <1>10. Readable(ops, n)
    BY <1>7, <1>8, ReadableNext
  <1>11. stack'[t] # <<>>
    BY <1>3, QueriesExecutable
  <1>12. SinkOf(t)' = SinkOf(t)
    BY <1>3 DEF SinkOf
  <1>13. InPlan(t, ops, n)'
    BY <1>3, <1>4, <1>9, <1>10, <1>11, <1>12 DEF InPlan, Ran
  <1> QED
    BY <1>1, <1>2, <1>3, <1>13, GoesOn DEF Early

LEMMA AskFollows ==
    ASSUME Typed, PlanInv, NEW t \in Threads, Ask(t)
    PROVE  OnPlan(t)'
  <1>1. PICK keys, ops :
           /\ keys \in SUBSET DOMAIN cache
           /\ keys \subseteq Keys /\ Closed(keys) /\ ops = Compiled(job[t].plan, keys)
           /\ (\E n \in 1 .. Len(ops) : InPlan(t, ops, n)) \/ PastPlan(t, ops)
    BY Located DEF Ask, Early
  <1>2. ~ CompileRaises(job[t].plan)
    BY Located DEF Ask, Early
  <1>3. /\ pc[t] = "execute" /\ Operation(t).op # "sink" /\ pc'[t] = "asking"
        /\ UNCHANGED <<job, steps, stack, cache>>
    BY DEF Ask, Goto, Typed, QueryTyped
  <1>4. PICK n \in 1 .. Len(ops) : InPlan(t, ops, n)
    BY <1>1, <1>3, NextPastPlan
  <1>5. SinkOf(t)' = SinkOf(t)
    BY <1>3 DEF SinkOf
  <1>6. InPlan(t, ops, n)'
    BY <1>3, <1>4, <1>5 DEF InPlan, Ran
  <1> QED
    BY <1>1, <1>2, <1>3, <1>6, GoesOn DEF Early

\* The usage is read and reset, and the frame is persisted, unless it was.
LEMMA MetricsFollow ==
    ASSUME Typed, PlanInv, NEW t \in Threads, ReadMetrics(t) \/ ResetMetrics(t) \/ Persist(t)
    PROVE  OnPlan(t)'
  <1>1. PICK keys, ops :
           /\ keys \in SUBSET DOMAIN cache
           /\ keys \subseteq Keys /\ Closed(keys) /\ ops = Compiled(job[t].plan, keys)
           /\ (\E n \in 1 .. Len(ops) : InPlan(t, ops, n)) \/ PastPlan(t, ops)
    BY Located DEF ReadMetrics, ResetMetrics, Persist, Early
  <1>2. job[t] \in Jobs /\ ~ CompileRaises(job[t].plan)
    BY Located DEF ReadMetrics, ResetMetrics, Persist, Early
  <1>3. ops \in Seq(Range(ops))
    BY <1>1, <1>2, SoundAt
  <1>4. UNCHANGED <<job, stack, cache>> /\ pc[t] \in {"metrics", "reset", "persist"}
    BY DEF ReadMetrics, ResetMetrics, Persist, usageVars
  <1>5. ASSUME NEW place, Goto(t, place) PROVE pc'[t] = place
    BY <1>5 DEF Goto, Typed, QueryTyped
  <1>6. (\E n \in 1 .. Len(ops) : InPlan(t, ops, n)') \/ PastPlan(t, ops)'
    <2>1. CASE PastPlan(t, ops)
      <3>1. pc[t] # "persist" /\ ~ Writes(Operation(t)) /\ Tail(steps[t]) = <<>> /\ Len(steps[t]) = 1
        BY <1>4, <2>1, NextPastPlan DEF PastPlan
      <3>2. CASE ReadMetrics(t)
        <4>1. pc'[t] = "reset" /\ steps' = steps
          BY <1>5, <3>2 DEF ReadMetrics
        <4> QED
          BY <1>4, <2>1, <4>1, MovesPast
      <3>3. CASE ResetMetrics(t)
        <4>1. pc'[t] = "record" /\ steps'[t] = <<>>
          BY <1>5, <3>1, <3>3 DEF ResetMetrics, Advance, Typed, QueryTyped
        <4> QED
          BY <1>4, <2>1, <4>1 DEF PastPlan, Ran
      <3> QED
        BY <3>1, <3>2, <3>3 DEF Persist
    <2>2. ASSUME NEW n \in 1 .. Len(ops), InPlan(t, ops, n)
          PROVE  (\E m \in 1 .. Len(ops) : InPlan(t, ops, m)') \/ PastPlan(t, ops)'
      <3>1. Operation(t) = ops[n]
        BY <1>3, <2>2, NextInPlan
      <3>2. ASSUME pc'[t] \in {"reset", "persist", "write"}, steps' = steps,
                   pc'[t] # "reset" => Writes(ops[n])
            PROVE  InPlan(t, ops, n)'
        BY <1>4, <2>2, <3>2, MovesOn
      <3>3. ASSUME Advance(t), Writes(ops[n]) => ops[n].key \in DOMAIN cache
            PROVE  (\E m \in 1 .. Len(ops) : InPlan(t, ops, m)') \/ PastPlan(t, ops)'
        BY <1>3, <1>4, <2>2, <3>3, Advances
      <3>4. CASE ReadMetrics(t)
        BY <1>5, <3>2, <3>4 DEF ReadMetrics
      <3>5. CASE ResetMetrics(t)
        BY <1>5, <3>1, <3>2, <3>3, <3>5 DEF ResetMetrics
      <3>6. CASE Persist(t)
        <4>1. pc[t] = "persist"
          BY <3>6 DEF Persist
        <4>2. Writes(ops[n])
          BY <2>2, <4>1 DEF InPlan
        <4> QED
          BY <1>5, <3>1, <3>2, <3>3, <3>6, <4>2 DEF Persist
      <3> QED
        BY <3>4, <3>5, <3>6
    <2> QED
      BY <1>1, <2>1, <2>2
  <1>7. pc'[t] \in {"reset", "persist", "write", "record", "execute"}
    BY <1>5 DEF ReadMetrics, ResetMetrics, Persist, Advance
  <1> QED
    BY <1>1, <1>2, <1>4, <1>6, <1>7, GoesOn DEF Early

\* A frame is written as the plan means it, after those inside it.
LEMMA WriteFollows ==
    ASSUME Typed, PlanInv, NEW t \in Threads, WriteCached(t)
    PROVE  OnPlan(t)' /\ CacheCorrect' /\ DOMAIN cache \subseteq DOMAIN cache'
  <1>1. PICK keys, ops :
           /\ keys \in SUBSET DOMAIN cache
           /\ keys \subseteq Keys /\ Closed(keys) /\ ops = Compiled(job[t].plan, keys)
           /\ (\E n \in 1 .. Len(ops) : InPlan(t, ops, n)) \/ PastPlan(t, ops)
    BY Located DEF WriteCached, Early
  <1>2. job[t] \in Jobs /\ ~ CompileRaises(job[t].plan)
    BY Located DEF WriteCached, Early
  <1>3. /\ pc[t] = "write" /\ UNCHANGED <<job, stack>> /\ Advance(t)
        /\ cache' = With(cache, Operation(t).key, Last(stack[t]))
    BY DEF WriteCached
  <1>4. PICK n \in 1 .. Len(ops) : InPlan(t, ops, n)
    BY <1>1, <1>3 DEF PastPlan
  <1>5. /\ ops \in Seq(Range(ops)) /\ Len(ops) \in Nat
        /\ \A m \in 1 .. Len(ops) : Readable(ops, m - 1) /\ Writes(ops[m]) =>
              \E f \in PersistedBy(job[t].plan) :
                  /\ f.key = ops[m].key /\ f.rows = Last(Stacks(ops)[m])
                  /\ f.within \subseteq keys \cup Written(ops, m - 1)
    BY <1>1, <1>2, SoundAt
  <1>6. /\ Operation(t) = ops[n] /\ Writes(ops[n]) /\ stack[t] = Stacks(ops)[n] /\ stack[t] # <<>>
        /\ Readable(ops, n) /\ Written(ops, n - 1) \subseteq DOMAIN cache
    BY <1>3, <1>4, <1>5, NextInPlan DEF InPlan, Ran
  <1>7. PICK f \in PersistedBy(job[t].plan) :
           /\ f.key = ops[n].key /\ f.rows = Last(stack[t])
           /\ f.within \subseteq keys \cup Written(ops, n - 1)
    BY <1>5, <1>6, ReadableBefore
  <1>8. f \in Frames /\ RowsOf(f.key) = f.rows /\ f.key \in Keys
    BY <1>2, FramesOfJobs, OneFrame
  <1>9. cache' = [x \in DOMAIN cache \cup {f.key} |-> IF x = f.key THEN f.rows ELSE cache[x]]
    BY <1>3, <1>6, <1>7 DEF With
  <1>10. DOMAIN cache' = DOMAIN cache \cup {f.key}
    BY <1>9
  <1>11. CacheCorrect'
    <2>1. DOMAIN cache' \subseteq Keys
      BY <1>8, <1>10 DEF PlanInv, CacheCorrect
    <2>2. Closed(DOMAIN cache')
      <3> SUFFICES ASSUME NEW g \in Frames, g.key \in DOMAIN cache' PROVE g.within \subseteq DOMAIN cache'
        BY DEF Closed
      <3>1. CASE g.key \in DOMAIN cache
        BY <1>10, <3>1 DEF PlanInv, CacheCorrect, Closed
      <3>2. CASE g.key = f.key
        <4>1. g = f
          BY <1>8, <3>2, PlansAssumption
        <4> QED
          BY <1>1, <1>6, <1>7, <1>10, <4>1
      <3> QED
        BY <1>10, <3>1, <3>2
    <2>3. f.rows \subseteq Rows
      <3>1. stack[t] \in Seq(SUBSET Rows)
        BY DEF Typed, QueryTyped
      <3>2. Len(stack[t]) \in Nat /\ Len(stack[t]) # 0
        BY <1>6, <3>1, EmptySeq
      <3>3. stack[t][Len(stack[t])] \in SUBSET Rows
        BY <3>1, <3>2
      <3> QED
        BY <1>7, <3>3 DEF Last
    <2>4. \A key \in DOMAIN cache' : cache'[key] = RowsOf(key) /\ cache'[key] \subseteq Rows
      BY <1>8, <1>9, <2>3 DEF PlanInv, CacheCorrect
    <2> QED
      BY <2>1, <2>2, <2>4 DEF CacheCorrect
  <1>12. /\ (\E m \in 1 .. Len(ops) : InPlan(t, ops, m)') \/ PastPlan(t, ops)'
         /\ pc'[t] \in {"execute", "record"}
    <2>1. ops[n].key \in DOMAIN cache' /\ DOMAIN cache \subseteq DOMAIN cache'
      BY <1>7, <1>10
    <2> QED
      BY <1>3, <1>4, <1>5, <2>1, Advances
  <1>13. OnPlan(t)'
    BY <1>1, <1>2, <1>3, <1>10, <1>12, GoesOn DEF Early
  <1> QED
    BY <1>10, <1>11, <1>13

\* At the sink the plan is over.
LEMMA SinkFollows ==
    ASSUME Typed, PlanInv, NEW t \in Threads,
           SinkChecks(t) \/ SinkCreates(t) \/ ResolveInsert(t) \/ SinkInserts(t) \/ ResolveReplace(t)
           \/ SinkReplaces(t)
    PROVE  OnPlan(t)'
  <1>1. CASE End(t)
    BY <1>1, EndFollows
  <1>2. CASE ~ End(t)
    <2>1. PICK keys, ops :
             /\ keys \in SUBSET DOMAIN cache
             /\ keys \subseteq Keys /\ Closed(keys) /\ ops = Compiled(job[t].plan, keys)
             /\ (\E n \in 1 .. Len(ops) : InPlan(t, ops, n)) \/ PastPlan(t, ops)
      BY Located DEF SinkChecks, SinkCreates, ResolveInsert, SinkInserts, ResolveReplace, SinkReplaces, Early
    <2>2. job[t] \in Jobs /\ ~ CompileRaises(job[t].plan)
      BY Located DEF SinkChecks, SinkCreates, ResolveInsert, SinkInserts, ResolveReplace, SinkReplaces, Early
    <2>3. /\ pc[t] \in {"create", "resolve_insert", "insert", "resolve_replace", "replace"}
             \/ (pc[t] = "execute" /\ Operation(t).op = "sink")
          /\ UNCHANGED <<job, steps, stack, cache>>
      BY <1>2 DEF SinkChecks, SinkCreates, ResolveInsert, SinkInserts, ResolveReplace, SinkReplaces
    <2>4. ASSUME NEW place, Goto(t, place) PROVE pc'[t] = place
      BY <2>4 DEF Goto, Typed, QueryTyped
    <2>5. pc'[t] \in {"create", "metrics", "insert", "replace", "resolve_insert", "resolve_replace"}
      BY <1>2, <2>4 DEF SinkChecks, SinkCreates, ResolveInsert, SinkInserts, ResolveReplace, SinkReplaces
    <2>6. ASSUME NEW n \in 1 .. Len(ops), InPlan(t, ops, n) PROVE FALSE
      <3>1. /\ ops \in Seq(Range(ops))
            /\ \A m \in 1 .. Len(ops) : Readable(ops, m - 1) => Runs(ops[m], Stacks(ops)[m - 1])
        BY <2>1, <2>2, SoundAt
      <3>2. pc[t] = "execute" /\ Operation(t).op = "sink"
        BY <2>3, <2>6 DEF InPlan
      <3>3. Runs(ops[n], Stacks(ops)[n - 1])
        BY <2>6, <3>1, <3>2 DEF InPlan, Ran
      <3>4. Operation(t) = ops[n]
        BY <2>6, <3>1, NextInPlan
      <3> QED
        BY <3>2, <3>3, <3>4 DEF Runs
    <2>7. PastPlan(t, ops)'
      <3>1. PastPlan(t, ops) /\ pc[t] # "record"
        BY <2>1, <2>3, <2>6
      <3> QED
        BY <2>3, <2>5, <3>1, MovesPast
    <2> QED
      BY <2>1, <2>2, <2>3, <2>5, <2>7, GoesOn DEF Early
  <1> QED
    BY <1>1, <1>2

\* Before the planning there is no plan to follow.
LEMMA EarlyFollows ==
    ASSUME Typed, PlanInv, NEW t \in Threads,
           (\E j \in Jobs : Begin(t, j)) \/ ShouldWrite(t) \/ Compare(t)
    PROVE  OnPlan(t)'
  <1>1. CASE End(t)
    BY <1>1, EndFollows
  <1>2. CASE ~ End(t)
    <2>1. pc[t] \in Early /\ stack' = stack
      BY <1>2 DEF Begin, Ready, ShouldWrite, Compare, Early
    <2>2. ASSUME NEW place, Goto(t, place) PROVE pc'[t] = place
      BY <2>2 DEF Goto, Typed, QueryTyped
    <2>3. pc'[t] \in Early
      BY <1>2, <2>2 DEF Begin, ShouldWrite, Compare, Early
    <2>4. stack[t] = <<>>
      BY <2>1 DEF PlanInv, PlanFollowed, OnPlan
    <2> QED
      BY <2>1, <2>3, <2>4 DEF OnPlan
  <1> QED
    BY <1>1, <1>2

LEMMA PlanStep ==
    ASSUME Typed, PlanInv, NEW t \in Threads, ThreadStep(t)
    PROVE  PlanInv'
  <1>1. CASE WriteCached(t)
    BY <1>1, WriteFollows, OthersFollow, OthersAreSame DEF PlanInv
  <1>2. CASE ~ WriteCached(t)
    <2>1. cache' = cache
      BY <1>2 DEF ThreadStep, Query, Begin, Fail, Call, CreateEnds, ShouldWrite, Compare, Transpile, Ask,
         Responds, Count, Execute, ReadMetrics, ResetMetrics, Persist, Record, SinkChecks, SinkCreates, ResolveInsert, SinkInserts,
         ResolveReplace, SinkReplaces
    <2>2. CacheCorrect'
      BY <2>1 DEF PlanInv, CacheCorrect
    <2>3. OnPlan(t)'
      <3>1. CASE (\E j \in Jobs : Begin(t, j)) \/ ShouldWrite(t) \/ Compare(t)
        BY <3>1, EarlyFollows
      <3>2. CASE Transpile(t)
        BY <3>2, TranspileFollows
      <3>3. CASE Execute(t)
        BY <3>3, ExecuteFollows
      <3>4. CASE ReadMetrics(t) \/ ResetMetrics(t) \/ Persist(t)
        BY <3>4, MetricsFollow
      <3>5. CASE Record(t) \/ Fail(t)
        BY <3>5, EndFollows DEF Record, Fail
      <3>6. CASE SinkChecks(t) \/ SinkCreates(t) \/ ResolveInsert(t) \/ SinkInserts(t) \/ ResolveReplace(t)
                 \/ SinkReplaces(t)
        BY <3>6, SinkFollows
      <3>7. CASE Call(t) \/ CreateEnds(t)
        <4>1. UNCHANGED <<pc, job, steps, stack>> /\ OnPlan(t)
          BY <3>7 DEF Call, CreateEnds, queryVars, PlanInv, PlanFollowed
        <4> QED
          BY <2>1, <4>1, OnPlanKept
      <3>8. CASE Ask(t)
        BY <3>8, AskFollows
      <3>9. CASE Responds(t)
        <4>1. UNCHANGED <<pc, job, steps, stack>> /\ OnPlan(t)
          BY <3>9 DEF Responds, Count, queryVars, PlanInv, PlanFollowed
        <4> QED
          BY <2>1, <4>1, OnPlanKept
      <3> QED
        BY <1>2, <3>1, <3>2, <3>3, <3>4, <3>5, <3>6, <3>7, <3>8, <3>9 DEF ThreadStep, Query
    <2> QED
      BY <2>1, <2>2, <2>3, OthersFollow, OthersAreSame DEF PlanInv
  <1> QED
    BY <1>1, <1>2

----------------------------------------------------------------------------
(* The invariant, and the theorems. *)

LEMMA InitInv == Init => Inv
  <1> SUFFICES ASSUME Init PROVE Inv
    OBVIOUS
  <1> USE DEF Init, CatalogInit
  <1>1. CatalogTyped
    BY CatalogAssumption DEF CatalogTyped, CatalogTypeOK
  <1>2. QueryTyped
    <2>1. <<>> \in Seq(SUBSET Rows)
      OBVIOUS
    <2>2. stack \in [Threads -> Seq(SUBSET Rows)]
      BY <2>1
    <2>3. pc \in [Threads -> Places] /\ job \in [Threads -> Jobs \cup {NoJob}]
      BY DEF Places
    <2>4. /\ read \in [Threads -> Nat] /\ taken \in [Threads -> Nat]
          /\ usage \in Nat /\ owed \in Int /\ asked \in [Threads -> Nat] /\ late \in Nat
          /\ \A t \in Threads : asked[t] = 0
      OBVIOUS
    <2>8. mixed \in BOOLEAN
      BY Zenon
    <2>5. left \in Nat
      BY JobsAssumption
    <2>6. DOMAIN steps = Threads /\ DOMAIN target = Threads
      OBVIOUS
    <2>7. \A t \in Threads : job[t] = NoJob /\ pc[t] = "idle" /\ creating[t] = None /\ saving[t] = None
      OBVIOUS
    <2> QED
      BY <2>2, <2>3, <2>4, <2>5, <2>6, <2>7, <2>8 DEF QueryTyped
  <1>3. CatalogConsistent /\ StillAbsent /\ OverwriteOnly
    BY DEF CatalogConsistent, StillAbsent, AbsentFor, OverwriteOnly
  <1>4. Counted
    <2>1. Reports = [t \in Threads |-> 0]
      BY DEF Reports
    <2>2. SumFunction(Reports) = 0
      BY <2>1, SumOfZeros, CatalogAssumption
    <2>3. OnCounters = 0
      BY DEF OnCounters, Reading
    <2>4. owed = OnCounters + SumFunction(Reports)
      BY <2>2, <2>3
    <2> QED
      BY <2>4 DEF Counted
  <1>5. CacheCorrect
    BY DEF CacheCorrect, Closed
  <1>6. PlanFollowed
    BY DEF PlanFollowed, OnPlan, Early
  <1> QED
    BY <1>1, <1>2, <1>3, <1>4, <1>5, <1>6 DEF Inv

LEMMA StutterInv ==
    ASSUME Inv, UNCHANGED vars
    PROVE  Inv'
  <1> USE DEF vars, catalogVars, toolVars, queryVars, usageVars
  <1>1. CatalogTyped' /\ CatalogConsistent'
    BY CatalogStutters DEF Inv, Catalog
  <1>2. QueryTyped'
    BY DEF Inv, QueryTyped
  <1>3. StillAbsent' /\ OverwriteOnly'
    BY DEF Inv, StillAbsent, AbsentFor, Exists, Resolve, OverwriteOnly
  <1>4. Counted'
    <2>1. OnCounters' = OnCounters /\ Reports' = Reports
      BY DEF OnCounters, Reading, Reports
    <2>2. SumFunction(Reports') = SumFunction(Reports)
      BY <2>1
    <2> QED
      BY <2>1, <2>2 DEF Inv, Counted
  <1>5. CacheCorrect'
    BY DEF Inv, CacheCorrect
  <1>6. PlanFollowed'
    BY OnPlanKept DEF Inv, PlanFollowed
  <1> QED
    BY <1>1, <1>2, <1>3, <1>4, <1>5, <1>6 DEF Inv

\* The parts of the invariant that each step needs.
LEMMA StepInv ==
    ASSUME Inv, NEW t \in Threads, ThreadStep(t)
    PROVE  Inv'
  <1>1. Typed /\ CatalogInv /\ PlanInv /\ Counted
    BY DEF Inv, Typed, CatalogInv, Catalog, PlanInv
  <1>2. CatalogInv'
    BY <1>1, CatalogStep
  <1>3. PlanInv'
    BY <1>1, PlanStep
  <1>4. Ask(t) \/ Execute(t) => pc[t] \in {"execute", "asking"}
    BY DEF Ask, Execute
  <1>5. Executable(t)
    BY <1>1, <1>4, QueriesExecutable DEF Executable
  <1>6. QueryTyped'
    BY <1>1, <1>5, QueryTypedStep
  <1>7. Counted'
    BY <1>1, <1>6, CountedStep
  <1> QED
    BY <1>2, <1>3, <1>6, <1>7 DEF Inv, CatalogInv, Catalog, PlanInv

\* A late response only adds to the counters.
LEMMA LateInv ==
    ASSUME Inv, RespondsLate
    PROVE  Inv'
  <1>1. UNCHANGED <<catalogVars, queryVars, read, taken, asked, cache, left>> /\ Count
    BY DEF RespondsLate, Count
  <1> USE DEF catalogVars, toolVars, queryVars
  <1>2. CatalogTyped' /\ CatalogConsistent'
    BY <1>1, CatalogStutters DEF Inv, Catalog
  <1>3. QueryTyped'
    <2>1. late' \in Nat /\ usage' \in Nat /\ owed' \in Int /\ mixed' \in BOOLEAN
      BY DEF RespondsLate, Count, Reading, Inv, QueryTyped
    <2> QED
      BY <1>1, <2>1 DEF Inv, QueryTyped
  <1>4. StillAbsent' /\ OverwriteOnly'
    BY <1>1 DEF Inv, StillAbsent, AbsentFor, Exists, Resolve, OverwriteOnly
  <1>5. Counted'
    BY <1>1, CountCounted DEF Inv, Typed
  <1>6. CacheCorrect'
    BY <1>1 DEF Inv, CacheCorrect
  <1>7. PlanFollowed'
    BY <1>1, OnPlanKept DEF Inv, PlanFollowed
  <1> QED
    BY <1>2, <1>3, <1>4, <1>5, <1>6, <1>7 DEF Inv

\* Each part of the invariant holds in every reachable state: what the threads hold is what
\* they are at, whoever steps between.
THEOREM Invariance == Spec => []Inv
  <1>1. Inv /\ [Next]_vars => Inv'
    <2> SUFFICES ASSUME Inv, [Next]_vars PROVE Inv'
      OBVIOUS
    <2>1. CASE Next
      <3>1. RespondsLate \/ \E t \in Threads : ThreadStep(t)
        BY <2>1 DEF Next, ThreadStep
      <3> QED
        BY <3>1, StepInv, LateInv
    <2>2. CASE UNCHANGED vars
      BY <2>2, StutterInv
    <2> QED
      BY <2>1, <2>2
  <1> QED
    BY <1>1, InitInv, PTL DEF Spec

\* The variables of the queries and of the catalog keep their types: an operator that runs
\* finds the frames it takes, and its model calls are counted by a number.
THEOREM TypeCorrect == Spec => []TypeOK
  <1>1. Inv => TypeOK
    BY DEF Inv, CatalogTyped, QueryTyped, TypeOK
  <1> QED
    BY <1>1, Invariance, PTL

\* LocalCatalog: whatever is dropped, made or replaced while saves are under way, databases,
\* tables and the system table fit together, and the schema recorded for a table is its own
\* unless a CREATE TABLE IF NOT EXISTS found a table its caller saw none of.
THEOREM CatalogStaysConsistent == Spec => []CatalogConsistent
  <1>1. Inv => CatalogConsistent
    BY DEF Inv
  <1> QED
    BY <1>1, Invariance, PTL

\* The usage of each model call is accounted for once, whenever its response is counted, as
\* long as nothing is counted and nobody else reads between a thread's get_model_metrics and
\* its reset_model_metrics.
THEOREM UsageIsConserved == Spec => []UsageConserved
  <1>1. ASSUME Inv PROVE UsageConserved
    <2>1. mixed \/ owed = OnCounters + SumFunction(Reports)
      BY <1>1 DEF Inv, Counted
    <2> QED
      BY <2>1 DEF UsageConserved, OnCounters, Reading, Reports
  <1> QED
    BY <1>1, Invariance, PTL

\* A query that ends returns the frame its plan means, and what it persisted is there: whichever
\* frames other queries persisted between its transpilation and each of its reads and writes,
\* LocalExecution finds what the compiled plan reads, as far as the plan itself persists it.
THEOREM ResultsAreCorrect == Spec => []ResultsCorrect
  <1>1. ASSUME Inv PROVE ResultsCorrect
    <2>1. Typed /\ PlanInv
      BY <1>1 DEF Inv, Typed, PlanInv
    <2>2. ASSUME NEW t \in Threads, pc[t] = "record"
          PROVE  /\ stack[t] = <<MeaningOf(job[t].plan)>>
                 /\ \A frame \in PersistedBy(job[t].plan) : frame.key \in DOMAIN cache
      <3>1. PICK keys, ops :
               /\ keys \in SUBSET DOMAIN cache
               /\ keys \subseteq Keys /\ Closed(keys) /\ ops = Compiled(job[t].plan, keys)
               /\ (\E n \in 1 .. Len(ops) : InPlan(t, ops, n)) \/ PastPlan(t, ops)
        BY <2>1, <2>2, Located DEF Early
      <3>2. job[t] \in Jobs /\ ~ CompileRaises(job[t].plan)
        BY <2>1, <2>2, Located DEF Early
      <3>3. /\ Readable(ops, Len(ops)) => Stacks(ops)[Len(ops)] = <<MeaningOf(job[t].plan)>>
            /\ \A f \in PersistedBy(job[t].plan) : f.key \in keys \cup Written(ops, Len(ops))
        BY <3>1, <3>2, SoundAt
      <3>4. PastPlan(t, ops)
        BY <2>2, <3>1 DEF InPlan
      <3> QED
        BY <3>1, <3>3, <3>4 DEF PastPlan, Ran
    <2>3. ASSUME NEW frame \in Frames, frame.key \in DOMAIN cache
          PROVE  cache[frame.key] = frame.rows
      BY <2>1, <2>3, OneFrame DEF PlanInv, CacheCorrect
    <2>4. ASSUME NEW t \in Threads, pc[t] = "execute", Operation(t).op = "read",
                 NEW frame \in PersistedBy(job[t].plan), frame.key = Operation(t).key
          PROVE  Operation(t).key \in DOMAIN cache
      <3>1. PICK keys, ops :
               /\ keys \in SUBSET DOMAIN cache
               /\ keys \subseteq Keys /\ Closed(keys) /\ ops = Compiled(job[t].plan, keys)
               /\ (\E n \in 1 .. Len(ops) : InPlan(t, ops, n)) \/ PastPlan(t, ops)
        BY <2>1, <2>4, Located DEF Early
      <3>2. job[t] \in Jobs /\ ~ CompileRaises(job[t].plan)
        BY <2>1, <2>4, Located DEF Early
      <3>3. /\ ops \in Seq(Range(ops))
            /\ \A n \in 1 .. Len(ops) : Readable(ops, n - 1) =>
                 \A f \in PersistedBy(job[t].plan) :
                    ops[n].op = "read" /\ ops[n].key = f.key => f.key \in keys \cup Written(ops, n - 1)
        BY <3>1, <3>2, SoundAt
      <3>4. PICK n \in 1 .. Len(ops) : InPlan(t, ops, n)
        BY <2>4, <3>1, NextPastPlan
      <3>5. Operation(t) = ops[n]
        BY <3>3, <3>4, NextInPlan
      <3>6. Readable(ops, n - 1) /\ Written(ops, n - 1) \subseteq DOMAIN cache
        BY <2>4, <3>4 DEF InPlan, Ran
      <3> QED
        BY <2>4, <3>1, <3>3, <3>5, <3>6
    <2> QED
      BY <2>2, <2>3, <2>4 DEF ResultsCorrect
  <1> QED
    BY <1>1, Invariance, PTL

\* The steps that take rows from a table or give a tool to another thread.
LEMMA ReplacingStep ==
    ASSUME Inv, NEW t \in Threads, ThreadStep(t)
    PROVE  /\ \A id \in DOMAIN tables \cap DOMAIN tables' :
                ~ tables[id].rows \subseteq tables'[id].rows => SinkReplaces(t)
           /\ \A tool \in DOMAIN tools \cap DOMAIN tools' :
                tools'[tool] # tools[tool] => SaveTool(t) /\ saving[t] = tool
  <1> USE DEF catalogVars, toolVars
  <1>1. CASE SinkReplaces(t)
    BY <1>1 DEF SinkReplaces, ReplaceTable
  <1>2. CASE SaveTool(t)
    BY <1>2 DEF SaveTool, With
  <1>3. CASE SinkInserts(t)
    <2>1. target[t] \in DOMAIN tables /\ tables' = [tables EXCEPT ![target[t]].rows = @ \cup {t}]
      BY <1>3 DEF SinkInserts, InsertDf, Exists
    <2>2. \A id \in DOMAIN tables : tables[id].rows \subseteq tables'[id].rows
      <3>1. \A id \in DOMAIN tables : tables[id] \in Contents
        BY DEF Inv, CatalogTyped
      <3> QED
        BY <2>1, <3>1 DEF Contents
    <2>3. tools' = tools
      BY <1>3 DEF SinkInserts, InsertDf
    <2> QED
      BY <2>2, <2>3
  <1>4. ASSUME NEW id, NEW schema, NEW rows, CreateIfNotExists(t, id, schema, rows)
        PROVE  (\A i \in DOMAIN tables : tables'[i] = tables[i]) /\ tools' = tools
    BY <1>4 DEF CreateIfNotExists, Exists, With
  <1>5. CASE SinkCreates(t)
    BY <1>4, <1>5 DEF SinkCreates, WriteDfToTable
  <1>6. CASE CreateTable(t)
    BY <1>4, <1>6 DEF CreateTable
  <1>7. CASE CreateTableFails(t)
    BY <1>7 DEF CreateTableFails
  <1>8. CASE Call(t)
    <2>1. ASSUME NEW d \in Databases, NEW cascade \in BOOLEAN, DropDatabase(t, d, cascade)
          PROVE  tools' = tools /\ \E ids : tables' = Without(tables, ids)
      BY <2>1 DEF DropDatabase
    <2>2. ASSUME NEW n \in Names, DropTable(t, n)
          PROVE  tools' = tools /\ \E ids : tables' = Without(tables, ids)
      BY <2>2 DEF DropTable
    <2>3. ASSUME NEW tool \in Tools, DropTool(t, tool)
          PROVE  tables' = tables /\ \E ids : tools' = Without(tools, ids)
      BY <2>3 DEF DropTool
    <2>4. ASSUME \/ \E d \in Databases : CreateDatabase(t, d) \/ SetCurrentDatabase(t, d)
                 \/ \E n \in Names : CreateView(t, n) \/ DropView(t, n)
                 \/ \E tool \in Tools : CreateToolCheck(t, tool)
                 \/ \E n \in Names, s \in Schemas : CreateTableCheck(t, n, s)
          PROVE  UNCHANGED <<tables, tools>>
      BY <2>4 DEF CreateDatabase, SetCurrentDatabase, CreateView, DropView, CreateToolCheck, CreateTableCheck
    <2>5. /\ tables' = tables \/ \E ids : tables' = Without(tables, ids)
          /\ tools' = tools \/ \E ids : tools' = Without(tools, ids)
      BY <1>8, <2>1, <2>2, <2>3, <2>4 DEF Call, CatalogCall
    <2>6. ASSUME NEW f, NEW g, g = f \/ \E ids : g = Without(f, ids)
          PROVE  \A i \in DOMAIN f \cap DOMAIN g : g[i] = f[i]
      <3>1. CASE g = f
        BY <3>1
      <3>2. ASSUME NEW ids, g = Without(f, ids) PROVE \A i \in DOMAIN f \cap DOMAIN g : g[i] = f[i]
        <4>1. DOMAIN g = DOMAIN f \ ids /\ \A i \in DOMAIN f \ ids : g[i] = f[i]
          BY <3>2, WithoutIs
        <4> QED
          BY <4>1
      <3> QED
        BY <2>6, <3>1, <3>2
    <2>7. /\ \A i \in DOMAIN tables \cap DOMAIN tables' : tables'[i] = tables[i]
          /\ \A i \in DOMAIN tools \cap DOMAIN tools' : tools'[i] = tools[i]
      BY <2>5, <2>6
    <2> QED
      BY <2>7
  <1>9. ASSUME \/ \E j \in Jobs : Begin(t, j)
               \/ ShouldWrite(t) \/ Compare(t) \/ Transpile(t) \/ Ask(t) \/ Responds(t) \/ Execute(t)
               \/ ReadMetrics(t) \/ ResetMetrics(t) \/ Persist(t) \/ WriteCached(t) \/ Record(t) \/ SinkChecks(t)
               \/ ResolveInsert(t) \/ ResolveReplace(t) \/ Fail(t)
        PROVE  UNCHANGED <<tables, tools>>
    BY <1>9 DEF Begin, ShouldWrite, Compare, Transpile, Ask, Responds, Count, Execute, ReadMetrics, ResetMetrics, Persist,
       WriteCached, Record, SinkChecks, ResolveInsert, ResolveReplace, Fail
  <1> QED
    BY <1>1, <1>2, <1>3, <1>5, <1>6, <1>7, <1>8, <1>9 DEF ThreadStep, Query, CreateEnds

\* A save in another mode than overwrite takes no rows from a table that appeared after its
\* checks, and create_tool replaces only a tool that another thread saved after the check.
THEOREM OnlyOverwritesReplace == Spec => OnlyOverwriteReplaces
  <1> DEFINE RowsKept == \A id \in DOMAIN tables \cap DOMAIN tables' :
                         ~ tables[id].rows \subseteq tables'[id].rows
                         => \E t \in Threads : pc[t] = "replace" /\ job[t].mode = "overwrite"
             ToolsKept == \A tool \in DOMAIN tools \cap DOMAIN tools' :
                         tools'[tool] # tools[tool] => \E t \in disturbed : saving[t] = tool
  <1>1. Inv /\ [Next]_vars => [RowsKept /\ ToolsKept]_vars
    <2> SUFFICES ASSUME Inv, Next, ~ RespondsLate PROVE RowsKept /\ ToolsKept
      BY DEF RespondsLate, Count, catalogVars, toolVars
    <2>1. PICK t \in Threads : ThreadStep(t)
      BY DEF Next, ThreadStep
    <2>2. RowsKept
      <3>1. SinkReplaces(t) => pc[t] = "replace"
        BY DEF SinkReplaces
      <3>2. pc[t] = "replace" => job[t].mode = "overwrite"
        BY DEF Inv, OverwriteOnly
      <3> QED
        BY <2>1, <3>1, <3>2, ReplacingStep
    <2>3. ToolsKept
      <3> SUFFICES ASSUME NEW tool \in DOMAIN tools \cap DOMAIN tools', tools'[tool] # tools[tool]
                   PROVE  \E u \in disturbed : saving[u] = tool
        OBVIOUS
      <3>1. SaveTool(t) /\ saving[t] = tool
        BY <2>1, ReplacingStep
      <3>2. saving[t] # None
        BY <3>1 DEF SaveTool
      <3>3. t \in disturbed
        BY <3>1, <3>2 DEF Inv, StillAbsent, AbsentFor
      <3> QED
        BY <3>1, <3>3
    <2> QED
      BY <2>2, <2>3
  <1> QED
    BY <1>1, Invariance, PTL DEF Spec, OnlyOverwriteReplaces
===============================================================================
