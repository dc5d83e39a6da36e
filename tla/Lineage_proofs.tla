------------------------------ MODULE Lineage_proofs ------------------------------
(***************************************************************************)
(* Proofs about Lineage: for any well-formed plans and any number of calls,  *)
(* the rows of each operator have ids of their own, each mapping leads to    *)
(* rows of the child, the rows a row is traced to explain it, and a trace    *)
(* answers for the operator where the caller is.                            *)
(***************************************************************************)
EXTENDS Lineage, FiniteSetTheorems, SequenceTheorems, WellFoundedInduction, TLAPS

----------------------------------------------------------------------------
(* The order in which rows get their ids. *)

\* A set of numbers that is not empty has a least one.
LEMMA LeastElement ==
    ASSUME NEW T, T \subseteq Nat, T # {}
    PROVE  \E x \in T : \A y \in T : x <= y
  <1> DEFINE Below == {ss \in Nat \X Nat : ss[1] < ss[2]}
  <1>1. Below = OpToRel(<, Nat)
    BY Zenon DEF OpToRel
  <1>2. IsWellFoundedOn(Below, Nat)
    BY <1>1, NatLessThanWellFounded, Zenon
  <1>3. \A x, y \in Nat : y < x => <<y, x>> \in Below
    OBVIOUS
  <1> HIDE DEF Below
  <1>4. PICK x \in T : \A y \in T : <<y, x>> \notin Below
    BY <1>2, WFMin
  <1>5. \A y \in T : ~ (y < x)
    BY <1>3, <1>4
  <1>6. \A y \in T : x <= y
    BY <1>5
  <1> QED
    BY <1>6

\* The fold behind InOrder: what it makes of each part of a set.
Some(s) == CHOOSE x \in s : TRUE
OrderOf(s, orders) == IF s = {} THEN <<>> ELSE Append(orders[s \ {Some(s)}], Some(s))
Orders(T) == CHOOSE orders : orders = [s \in SUBSET T |-> OrderOf(s, orders)]

LEMMA OrderIs == ASSUME NEW T PROVE InOrder(T) = Orders(T)[T]
  BY Zenon DEF InOrder, FoldSet, MapThenFoldSet, Orders, OrderOf, Some

\* Taking an element of a finite set.
LEMMA SmallerPart ==
    ASSUME NEW s, IsFiniteSet(s), s # {}
    PROVE  /\ Some(s) \in s /\ s \ {Some(s)} \subseteq s /\ IsFiniteSet(s \ {Some(s)})
           /\ Cardinality(s) \in Nat /\ Cardinality(s) > 0
           /\ Cardinality(s \ {Some(s)}) = Cardinality(s) - 1
  <1>1. Some(s) \in s
    BY DEF Some
  <1>2. IsFiniteSet(s \ {Some(s)}) /\ Cardinality(s \ {Some(s)}) = Cardinality(s) - 1
    BY <1>1, FS_RemoveElement
  <1>3. Cardinality(s) \in Nat /\ Cardinality(s) # 0
    BY FS_CardinalityType, FS_EmptySet
  <1> QED
    BY <1>1, <1>2, <1>3

\* The recursion has a solution, so the fold satisfies its equation.
LEMMA OrdersDefined ==
    ASSUME NEW T, IsFiniteSet(T)
    PROVE  \A s \in SUBSET T : Orders(T)[s] = OrderOf(s, Orders(T))
  <1> DEFINE Parts(n) == {s \in SUBSET T : Cardinality(s) <= n}
             Solves(g, n) == DOMAIN g = Parts(n) /\ \A s \in Parts(n) : g[s] = OrderOf(s, g)
             Open == {n \in Nat : ~ \E g : Solves(g, n)}
  <1>1. \A s \in SUBSET T : IsFiniteSet(s) /\ Cardinality(s) \in Nat /\ Cardinality(s) <= Cardinality(T)
    BY FS_Subset, FS_CardinalityType
  <1>2. Open = {}
    <2>1. SUFFICES ASSUME Open # {} PROVE FALSE
      OBVIOUS
    <2>2. PICK n \in Open : \A m \in Open : n <= m
      BY <2>1, LeastElement
    <2>3. PICK g : n # 0 => Solves(g, n - 1)
      <3>1. CASE n = 0
        BY <3>1
      <3>2. CASE n # 0
        <4>1. n \in Nat /\ n - 1 \in Nat /\ ~ (n <= n - 1)
          BY <2>2, <3>2
        <4> HIDE DEF Solves
        <4>2. \E g : Solves(g, n - 1)
          BY <2>2, <4>1
        <4> QED
          BY <4>2
      <3> QED
        BY <3>1, <3>2
    <2> DEFINE h == [s \in Parts(n) |-> OrderOf(s, g)]
    <2>4. ASSUME NEW s \in Parts(n), s # {}
          PROVE  n # 0 /\ s \ {Some(s)} \in Parts(n - 1) /\ s \ {Some(s)} \in Parts(n)
      BY <1>1, <2>2, <2>4, SmallerPart
    <2>5. ASSUME NEW s \in Parts(n - 1), n # 0 PROVE s \in Parts(n) /\ h[s] = g[s]
      <3>1. s \in Parts(n)
        BY <1>1, <2>2, <2>5
      <3> QED
        BY <2>3, <2>5, <3>1
    <2>6. ASSUME NEW s \in Parts(n) PROVE h[s] = OrderOf(s, h)
      <3>1. CASE s = {}
        BY <3>1 DEF OrderOf
      <3>2. CASE s # {}
        <4>1. h[s \ {Some(s)}] = g[s \ {Some(s)}]
          BY <2>4, <2>5, <3>2
        <4> QED
          BY <3>2, <4>1 DEF OrderOf
      <3> QED
        BY <3>1, <3>2
    <2>7. Solves(h, n)
      BY <2>6
    <2> QED
      BY <2>2, <2>7
  <1>3. \E g : Solves(g, Cardinality(T))
    BY <1>2, FS_CardinalityType
  <1>4. Parts(Cardinality(T)) = SUBSET T
    BY <1>1
  <1>5. \E g : DOMAIN g = SUBSET T /\ \A s \in SUBSET T : g[s] = OrderOf(s, g)
    BY <1>3, <1>4
  <1>6. PICK g : g = [s \in SUBSET T |-> OrderOf(s, g)]
    <2>1. PICK g : DOMAIN g = SUBSET T /\ \A s \in SUBSET T : g[s] = OrderOf(s, g)
      BY <1>5
    <2>2. PICK h : h = [s \in SUBSET T |-> g[s]]
      OBVIOUS
    <2>3. ASSUME NEW s \in SUBSET T PROVE h[s] = OrderOf(s, h)
      <3>1. CASE s = {}
        BY <2>1, <2>2, <3>1 DEF OrderOf
      <3>2. CASE s # {}
        <4>1. h[s \ {Some(s)}] = g[s \ {Some(s)}] /\ h[s] = g[s]
          BY <2>2
        <4> QED
          BY <2>1, <3>2, <4>1 DEF OrderOf
      <3> QED
        BY <3>1, <3>2
    <2>4. h = [s \in SUBSET T |-> OrderOf(s, h)]
      BY <2>2, <2>3
    <2> QED
      BY <2>4
  <1>7. Orders(T) = [s \in SUBSET T |-> OrderOf(s, Orders(T))]
    BY <1>6 DEF Orders
  <1> QED
    BY <1>7

\* A sequence with each element of a set once.
Enumerates(o, s) ==
    /\ o \in Seq(s) /\ Len(o) = Cardinality(s)
    /\ \A x \in s : \E n \in 1 .. Len(o) : o[n] = x
    /\ \A m, n \in 1 .. Len(o) : o[m] = o[n] => m = n

LEMMA EnumeratesMore ==
    ASSUME NEW s, NEW x, NEW r, NEW o, x \in s, r = s \ {x}, Enumerates(o, r),
           Cardinality(r) = Cardinality(s) - 1, Cardinality(s) \in Nat
    PROVE  Enumerates(Append(o, x), s)
  <1>1. o \in Seq(s) /\ Len(o) \in Nat
    <2>1. o \in Seq(r) /\ r \subseteq s
      BY DEF Enumerates
    <2>2. Len(o) \in Nat /\ o \in [1 .. Len(o) -> r]
      BY <2>1
    <2> QED
      BY <2>1, <2>2
  <1>2. PICK a : a = Append(o, x)
    OBVIOUS
  <1>3. /\ a \in Seq(s) /\ Len(a) = Len(o) + 1
        /\ a[Len(o) + 1] = x /\ \A n \in 1 .. Len(o) : a[n] = o[n] /\ n \in 1 .. Len(a) /\ o[n] \in r
    <2>1. \A n \in 1 .. Len(o) : o[n] \in r
      BY DEF Enumerates
    <2>2. a \in Seq(s) /\ Len(a) = Len(o) + 1 /\ a[Len(o) + 1] = x
      BY <1>1, <1>2
    <2>3. \A n \in 1 .. Len(o) : a[n] = o[n] /\ n \in 1 .. Len(a)
      BY <1>1, <1>2
    <2> QED
      BY <2>1, <2>2, <2>3
  <1>4. ASSUME NEW n \in 1 .. Len(a) PROVE n \in 1 .. Len(o) \/ n = Len(o) + 1
    BY <1>1, <1>3
  <1>5. ASSUME NEW m \in 1 .. Len(a), NEW n \in 1 .. Len(a), a[m] = a[n] PROVE m = n
    BY <1>3, <1>4, <1>5 DEF Enumerates
  <1>6. ASSUME NEW y \in s PROVE \E n \in 1 .. Len(a) : a[n] = y
    <2>1. CASE y = x
      <3>1. Len(o) + 1 \in 1 .. Len(a)
        BY <1>1, <1>3
      <3> QED
        BY <1>3, <2>1, <3>1
    <2>2. CASE y \in r
      BY <1>3, <2>2 DEF Enumerates
    <2> QED
      BY <2>1, <2>2
  <1>7. Len(a) = Cardinality(s)
    BY <1>3 DEF Enumerates
  <1> QED
    BY <1>2, <1>3, <1>5, <1>6, <1>7 DEF Enumerates

\* Each row made has one place in the order.
LEMMA OrderFacts ==
    ASSUME NEW T, IsFiniteSet(T)
    PROVE  Enumerates(InOrder(T), T)
  <1> DEFINE Bad == {n \in Nat : \E s \in SUBSET T : Cardinality(s) = n /\ ~ Enumerates(Orders(T)[s], s)}
  <1>1. \A s \in SUBSET T : IsFiniteSet(s) /\ Cardinality(s) \in Nat
    BY FS_Subset, FS_CardinalityType
  <1>2. Bad = {}
    <2>1. SUFFICES ASSUME Bad # {} PROVE FALSE
      OBVIOUS
    <2>2. PICK n \in Bad : \A m \in Bad : n <= m
      BY <2>1, LeastElement
    <2>3. PICK s \in SUBSET T : Cardinality(s) = n /\ ~ Enumerates(Orders(T)[s], s)
      BY <2>2
    <2>4. Orders(T)[s] = OrderOf(s, Orders(T))
      BY OrdersDefined
    <2>5. CASE s = {}
      <3>1. Orders(T)[s] = <<>> /\ Cardinality(s) = 0
        BY <2>4, <2>5, FS_EmptySet DEF OrderOf
      <3> QED
        BY <2>3, <2>5, <3>1 DEF Enumerates
    <2>6. CASE s # {}
      <3>1. PICK x, r : x = Some(s) /\ r = s \ {Some(s)}
        OBVIOUS
      <3>2. x \in s /\ r \in SUBSET T /\ Cardinality(r) = n - 1 /\ n - 1 \in Nat /\ ~ (n <= n - 1)
        BY <1>1, <2>3, <2>6, <3>1, SmallerPart
      <3>3. Enumerates(Orders(T)[r], r)
        BY <2>2, <3>2
      <3>4. Orders(T)[s] = Append(Orders(T)[r], x)
        BY <2>4, <2>6, <3>1 DEF OrderOf
      <3> QED
        BY <1>1, <2>3, <3>1, <3>2, <3>3, <3>4, EnumeratesMore
    <2> QED
      BY <2>5, <2>6
  <1>3. Enumerates(Orders(T)[T], T)
    BY <1>1, <1>2
  <1> QED
    BY <1>3, OrderIs

----------------------------------------------------------------------------
(* What the operators make. *)

\* The rows of a frame are told apart by their ids.
Identified(F) == IsFiniteSet(F) /\ \A r, s \in F : r.uuid = s.uuid => r = s

\* The rows of a child that ids lead to, on one side and on each.
Traced(F, ids) == {c \in F : c.uuid \in ids}
TracedFrames(op, frames, m) == [side \in Arity(op) |-> Traced(frames[side], m.from[side])]

\* The rows traced to nothing but what one is traced to.
Alike(op, made, m) == {s \in made : \A side \in Arity(op) : s.from[side] \subseteq m.from[side]}

\* The value of a row comes from a child, from the data of a source, or is a list.
Carried(op, frames, m) ==
    CASE op.op = "source" -> \E n \in DOMAIN op.data : m.x = op.data[n].x
      [] op.op \in {"project", "aggregate", "join"} -> IsList(m.x)
      [] op.op = "explode" -> TRUE
      [] OTHER -> \E side \in Arity(op) : \E r \in frames[side] : m.x = r.x

\* What the lineage needs of the rows an operator makes of the frames below it.
TracedWell(op, frames, made, m) ==
    /\ \A side \in Arity(op) : m.from[side] \subseteq Ids(frames[side])
    /\ Arity(op) # {} =>
          /\ \E side \in Arity(op) : m.from[side] # {}
          /\ IsShadow(op) \/ Alike(op, made, m) \in Makes(op, TracedFrames(op, frames, m), FALSE)
    /\ KeepsIds(op) => \E id : m.from[1] = {id} /\ \A s \in made : s.from[1] = {id} => s = m
    /\ Carried(op, frames, m)

MadeByQuery(op, frames, made) ==
    IsShadow(op) \/ made \in Makes(op, frames, FALSE) \/ (op.op = "drop_duplicates" /\ op.on = "all")

MadeWell(op, frames, made) ==
    /\ IsFiniteSet(made)
    /\ \A m \in made : TracedWell(op, frames, made, m)
    /\ MadeByQuery(op, frames, made)

\* The values of a function on a set.
On(f, S) == {f[x] : x \in S}

LEMMA OnFinite ==
    ASSUME NEW S, IsFiniteSet(S), NEW f
    PROVE  IsFiniteSet(On(f, S))
  <1> DEFINE g == [x \in S |-> f[x]]
  <1>1. g \in Surjection(S, On(f, S))
    BY DEF Surjection, On
  <1> QED
    BY <1>1, FS_Surjection

\* Operators that make at most one row of each row of the child.
TracedToOne(F, made, m, r) ==
    /\ m.from[1] = {r.uuid} /\ r.uuid \in Ids(F)
    /\ Traced(F, m.from[1]) = {r}
    /\ {s \in made : s.from[1] \subseteq m.from[1]} = {m}
    /\ \A s \in made : s.from[1] = {r.uuid} => s = m

LEMMA OneOfEach ==
    ASSUME NEW F, NEW S, NEW f, NEW made, Identified(F), S \subseteq F, made = On(f, S),
           \A r \in S : f[r].from = <<{r.uuid}>>
    PROVE  IsFiniteSet(made) /\ \A r \in S : TracedToOne(F, made, f[r], r)
  <1>1. IsFiniteSet(made)
    <2>1. IsFiniteSet(S)
      BY FS_Subset DEF Identified
    <2> QED
      BY <2>1, OnFinite
  <1>2. \A r \in S : f[r].from[1] = {r.uuid} /\ r \in F
    OBVIOUS
  <1>3. ASSUME NEW r \in S PROVE Traced(F, f[r].from[1]) = {r} /\ r.uuid \in Ids(F)
    BY <1>2 DEF Traced, Identified, Ids
  <1>4. ASSUME NEW r \in S, NEW s \in made, s.from[1] \subseteq f[r].from[1] PROVE s = f[r]
    <2>1. PICK t \in S : s = f[t]
      BY DEF On
    <2>2. t.uuid = r.uuid
      BY <1>2, <1>4, <2>1
    <2> QED
      BY <1>2, <2>1, <2>2 DEF Identified
  <1>5. ASSUME NEW r \in S PROVE {s \in made : s.from[1] \subseteq f[r].from[1]} = {f[r]}
    <2>1. f[r] \in made
      BY DEF On
    <2> QED
      BY <1>4, <2>1
  <1>6. ASSUME NEW r \in S PROVE TracedToOne(F, made, f[r], r)
    BY <1>2, <1>3, <1>4, <1>5 DEF TracedToOne
  <1> QED
    BY <1>1, <1>6

\* One child, on the left.
LEMMA OneChild ==
    ASSUME NEW op, op.op \in OfOne
    PROVE  /\ Arity(op) = {1}
           /\ \A made, m : Alike(op, made, m) = {s \in made : s.from[1] \subseteq m.from[1]}
           /\ \A frames, m : TracedFrames(op, frames, m)[1] = Traced(frames[1], m.from[1])
  <1>1. Arity(op) = {1}
    BY DEF Arity, OfOne, OfTwo, Left
  <1> QED
    BY <1>1 DEF Alike, TracedFrames

\* Rows kept as they are.
AsIs(r) == Made(r.k, r.x, <<{r.uuid}>>, 0)
AllAsIs(S) == {AsIs(r) : r \in S}

LEMMA SubsetsAre == \A frame, kept : Subsets(frame, kept) = {AllAsIs(S) : S \in kept}
  BY DEF Subsets, AllAsIs, AsIs

LEMMA OneAsIs == \A r : AllAsIs({r}) = {AsIs(r)}
  BY DEF AllAsIs

\* Of a row alone the operator makes that row.
KeepsEach(op, S) == \A r \in S : \A one : one[1] = {r} => AllAsIs({r}) \in Makes(op, one, FALSE)

Picking == {"sort", "filter", "limit", "drop_duplicates"}

LEMMA SubsetMade ==
    ASSUME NEW op, op.op \in Picking, NEW frames, NEW made,
           NEW S, Identified(frames[1]), S \subseteq frames[1], made = AllAsIs(S),
           MadeByQuery(op, frames, made),
           KeepsEach(op, S)
    PROVE  MadeWell(op, frames, made)
  <1>0. op.op \in OfOne /\ op.op \notin {"source", "project", "aggregate", "join", "explode"}
    BY DEF OfOne, Picking
  <1>1. PICK f : f = [r \in S |-> AsIs(r)]
    OBVIOUS
  <1>2. made = On(f, S)
    BY <1>1 DEF AllAsIs, On
  <1>3. \A r \in S : f[r] = AsIs(r) /\ f[r].from = <<{r.uuid}>> /\ f[r].x = r.x
    BY <1>1 DEF AsIs, Made
  <1>4. IsFiniteSet(made) /\ \A r \in S : TracedToOne(frames[1], made, f[r], r)
    BY <1>2, <1>3, OneOfEach
  <1>5. ASSUME NEW m \in made PROVE TracedWell(op, frames, made, m)
    <2>1. PICK r \in S : m = f[r]
      BY <1>2 DEF On
    <2>2. TracedToOne(frames[1], made, m, r)
      BY <1>4, <2>1
    <2>3. Alike(op, made, m) \in Makes(op, TracedFrames(op, frames, m), FALSE)
      <3>1. Alike(op, made, m) = {m}
        BY <1>0, <2>2, OneChild DEF TracedToOne
      <3>2. TracedFrames(op, frames, m)[1] = {r}
        <4>1. Arity(op) = {1}
          BY <1>0, OneChild
        <4>2. TracedFrames(op, frames, m)[1] = Traced(frames[1], m.from[1])
          BY <4>1 DEF TracedFrames
        <4> QED
          BY <2>2, <4>2 DEF TracedToOne
      <3>3. AllAsIs({r}) \in Makes(op, TracedFrames(op, frames, m), FALSE)
        BY <2>1, <3>2 DEF KeepsEach
      <3> QED
        BY <1>3, <2>1, <3>1, <3>3, OneAsIs
    <2>4. Carried(op, frames, m)
      <3>1. 1 \in Arity(op) /\ r \in frames[1] /\ m.x = r.x
        BY <1>0, <1>3, <2>1, OneChild
      <3> QED
        BY <1>0, <3>1 DEF Carried
    <2>5. Arity(op) = {1} /\ m.from[1] = {r.uuid} /\ r.uuid \in Ids(frames[1])
          /\ \A s \in made : s.from[1] = {r.uuid} => s = m
      BY <1>0, <2>2, OneChild DEF TracedToOne
    <2> QED
      BY <2>3, <2>4, <2>5 DEF TracedWell
  <1> QED
    BY <1>4, <1>5 DEF MadeWell

LEMMA SortMade ==
    ASSUME NEW op, op.op = "sort", NEW frames, Identified(frames[1]), NEW made, made \in Makes(op, frames, TRUE)
    PROVE  MadeWell(op, frames, made)
  <1>1. \A fs, ids : Makes(op, fs, ids) = {AllAsIs(fs[1])}
    <2>1. \A fs, ids : Makes(op, fs, ids) = Subsets(fs[1], {fs[1]})
      BY DEF Makes
    <2> QED
      BY <2>1, SubsetsAre
  <1>2. made = AllAsIs(frames[1]) /\ made \in Makes(op, frames, FALSE)
    BY <1>1
  <1>3. ASSUME NEW r \in frames[1], NEW one, one[1] = {r} PROVE AllAsIs({r}) \in Makes(op, one, FALSE)
    BY <1>1, <1>3
  <1>4. KeepsEach(op, frames[1])
    BY <1>3 DEF KeepsEach
  <1>9. op.op \in Picking /\ MadeByQuery(op, frames, made)
    BY <1>2, <1>4 DEF Picking, MadeByQuery
  <1> QED
    BY <1>2, <1>4, <1>9, SubsetMade, Zenon

LEMMA FilterMade ==
    ASSUME NEW op, op.op = "filter", NEW frames, Identified(frames[1]), NEW made, made \in Makes(op, frames, TRUE)
    PROVE  MadeWell(op, frames, made)
  <1> DEFINE Passing(fs) == {s \in fs[1] : s.k \in op.keys}
  <1>1. \A fs, ids : Makes(op, fs, ids) = {AllAsIs(Passing(fs))}
    <2>1. \A fs, ids : Makes(op, fs, ids) = Subsets(fs[1], {Passing(fs)})
      BY DEF Makes, Filtered
    <2> QED
      BY <2>1, SubsetsAre
  <1>2. made = AllAsIs(Passing(frames)) /\ made \in Makes(op, frames, FALSE) /\ Passing(frames) \subseteq frames[1]
    BY <1>1
  <1>3. ASSUME NEW r \in Passing(frames), NEW one, one[1] = {r} PROVE AllAsIs({r}) \in Makes(op, one, FALSE)
    <2>1. Passing(one) = {r}
      BY <1>3
    <2> QED
      BY <1>1, <2>1
  <1> HIDE DEF Passing
  <1>4. KeepsEach(op, Passing(frames))
    BY <1>3 DEF KeepsEach
  <1>9. op.op \in Picking /\ MadeByQuery(op, frames, made)
    BY <1>2, <1>4 DEF Picking, MadeByQuery
  <1> QED
    BY <1>2, <1>4, <1>9, SubsetMade, Zenon

LEMMA LimitMade ==
    ASSUME NEW op, op.op = "limit", op.n \in Nat, NEW frames, Identified(frames[1]), NEW made,
           made \in Makes(op, frames, TRUE)
    PROVE  MadeWell(op, frames, made)
  <1> DEFINE Size(fs) == IF op.n < Cardinality(fs[1]) THEN op.n ELSE Cardinality(fs[1])
             Kept(fs) == kSubset(Size(fs), fs[1])
  <1>1. \A fs, ids : Makes(op, fs, ids) = {AllAsIs(S) : S \in Kept(fs)}
    <2>1. \A fs, ids : Makes(op, fs, ids) = Subsets(fs[1], Kept(fs))
      BY DEF Makes, Limited
    <2> QED
      BY <2>1, SubsetsAre
  <1> HIDE DEF Kept
  <1>2. PICK S \in Kept(frames) : made = AllAsIs(S)
    BY <1>1
  <1>3. made \in Makes(op, frames, FALSE)
    BY <1>1
  <1>4. S \subseteq frames[1] /\ Cardinality(S) = Size(frames)
    BY <1>2 DEF Kept, kSubset
  <1>5. ASSUME NEW r \in S, NEW one, one[1] = {r} PROVE AllAsIs({r}) \in Makes(op, one, FALSE)
    <2>1. IsFiniteSet(S) /\ Cardinality(S) \in Nat /\ Cardinality(S) # 0
      <3>1. IsFiniteSet(S)
        BY <1>4, FS_Subset DEF Identified
      <3> QED
        BY <3>1, FS_CardinalityType, FS_EmptySet
    <2>2. Cardinality(frames[1]) \in Nat
      BY FS_CardinalityType DEF Identified
    <2>3. op.n >= 1
      BY <1>4, <2>1, <2>2
    <2>4. Cardinality({r}) = 1
      BY FS_Singleton
    <2>5. Size(one) = 1
      BY <1>5, <2>3, <2>4
    <2>6. {r} \in Kept(one)
      BY <1>5, <2>4, <2>5 DEF Kept, kSubset
    <2> QED
      BY <1>1, <2>6
  <1>6. KeepsEach(op, S)
    BY <1>5 DEF KeepsEach
  <1>9. op.op \in Picking /\ MadeByQuery(op, frames, made)
    BY <1>2, <1>3, <1>4, <1>6 DEF Picking, MadeByQuery
  <1> QED
    BY <1>2, <1>3, <1>4, <1>6, <1>9, SubsetMade, Zenon

LEMMA DistinctMade ==
    ASSUME NEW op, op.op = "drop_duplicates", op.on \in {"key", "all"}, NEW frames, Identified(frames[1]),
           NEW made, made \in Makes(op, frames, TRUE)
    PROVE  MadeWell(op, frames, made)
  <1> DEFINE Classes(fs, ids) == {{s \in fs[1] : Duplicates(op, ids, r, s)} : r \in fs[1]}
             Chosen(fs, ids) == {S \in SUBSET fs[1] : \A class \in Classes(fs, ids) : Cardinality(S \cap class) = 1}
  <1>1. \A fs, ids : Makes(op, fs, ids) = {AllAsIs(S) : S \in Chosen(fs, ids)}
    <2>1. ASSUME NEW fs, NEW ids PROVE Makes(op, fs, ids) = Subsets(fs[1], Chosen(fs, ids))
      <3>1. Makes(op, fs, ids) = Distinct(op, fs[1], ids)
        BY DEF Makes
      <3> QED
        BY <3>1, Zenon DEF Distinct
    <2> HIDE DEF Chosen
    <2> QED
      BY <2>1, SubsetsAre
  <1>2. \A fs, ids : \A S \in Chosen(fs, ids) : S \subseteq fs[1]
    OBVIOUS
  <1>3. op.on = "key" => Chosen(frames, TRUE) = Chosen(frames, FALSE)
    BY DEF Duplicates
  <1>4. \A one, r : one[1] = {r} => {r} \in Chosen(one, FALSE)
    <2>1. SUFFICES ASSUME NEW one, NEW r, one[1] = {r} PROVE {r} \in Chosen(one, FALSE)
      OBVIOUS
    <2>2. Duplicates(op, FALSE, r, r)
      BY DEF Duplicates
    <2>3. \A class \in Classes(one, FALSE) : class = {r}
      BY <2>1, <2>2
    <2>4. Cardinality({r} \cap {r}) = 1
      <3>1. {r} \cap {r} = {r}
        OBVIOUS
      <3> QED
        BY <3>1, FS_Singleton
    <2> HIDE DEF Classes
    <2> QED
      BY <2>1, <2>3, <2>4
  <1> HIDE DEF Chosen
  <1>5. PICK S \in Chosen(frames, TRUE) : made = AllAsIs(S)
    <2>1. Makes(op, frames, TRUE) = {AllAsIs(S) : S \in Chosen(frames, TRUE)}
      BY <1>1, Zenon
    <2> QED
      BY <2>1
  <1>6. made \in Makes(op, frames, FALSE) \/ (op.op = "drop_duplicates" /\ op.on = "all")
    BY <1>1, <1>3
  <1>7. ASSUME NEW r \in S, NEW one, one[1] = {r} PROVE AllAsIs({r}) \in Makes(op, one, FALSE)
    <2>1. Makes(op, one, FALSE) = {AllAsIs(T) : T \in Chosen(one, FALSE)}
      BY <1>1, Zenon
    <2>2. {r} \in Chosen(one, FALSE)
      BY <1>4, <1>7
    <2> QED
      BY <2>1, <2>2
  <1>8. KeepsEach(op, S)
    BY <1>7 DEF KeepsEach
  <1>9. op.op \in Picking /\ MadeByQuery(op, frames, made)
    BY <1>2, <1>5, <1>6, <1>8 DEF Picking, MadeByQuery
  <1> QED
    BY <1>2, <1>5, <1>6, <1>8, <1>9, SubsetMade, Zenon

LEMMA SourceMade ==
    ASSUME NEW op, op.op = "source", IsFiniteSet(DOMAIN op.data), NEW frames, NEW made,
           made \in Makes(op, frames, TRUE)
    PROVE  MadeWell(op, frames, made)
  <1> DEFINE f == [n \in DOMAIN op.data |-> Made(op.data[n].k, op.data[n].x, <<>>, n)]
  <1>1. \A ids : Makes(op, frames, ids) = {On(f, DOMAIN op.data)}
    BY DEF Makes, Sourced, On
  <1>2. \A n \in DOMAIN op.data : f[n].x = op.data[n].x
    BY DEF Made
  <1> HIDE DEF f
  <1>3. made = On(f, DOMAIN op.data) /\ MadeByQuery(op, frames, made)
    BY <1>1 DEF MadeByQuery
  <1>4. IsFiniteSet(made)
    BY <1>3, OnFinite
  <1>5. Arity(op) = {} /\ ~ KeepsIds(op)
    BY DEF Arity, OfOne, OfTwo, KeepsIds
  <1>6. ASSUME NEW m \in made PROVE TracedWell(op, frames, made, m)
    <2>1. PICK n \in DOMAIN op.data : m.x = op.data[n].x
      BY <1>2, <1>3 DEF On
    <2>2. Carried(op, frames, m)
      BY <2>1 DEF Carried
    <2> QED
      BY <1>5, <2>2 DEF TracedWell
  <1> QED
    BY <1>3, <1>4, <1>6 DEF MadeWell

LEMMA ProjectMade ==
    ASSUME NEW op, op.op = "project", NEW frames, Identified(frames[1]), NEW made, made \in Makes(op, frames, TRUE)
    PROVE  MadeWell(op, frames, made)
  <1> DEFINE Value(r) == Made(r.k, Null, <<{r.uuid}>>, 0)
             f == [r \in frames[1] |-> Value(r)]
  <1>1. \A fs, ids : Makes(op, fs, ids) = {{Value(r) : r \in fs[1]}}
    BY DEF Makes, Projected
  <1>2. On(f, frames[1]) = {Value(r) : r \in frames[1]}
    BY DEF On
  <1>3. \A r \in frames[1] : f[r].from = <<{r.uuid}>> /\ f[r].x = Null /\ f[r] = Value(r)
    BY DEF Made
  <1>4. \A one, r : one[1] = {r} => {Value(r)} \in Makes(op, one, FALSE)
    <2>1. SUFFICES ASSUME NEW one, NEW r, one[1] = {r} PROVE {Value(r)} \in Makes(op, one, FALSE)
      OBVIOUS
    <2>2. Makes(op, one, FALSE) = {{Value(t) : t \in one[1]}}
      BY <1>1, Zenon
    <2>3. {Value(t) : t \in {r}} = {Value(r)}
      OBVIOUS
    <2> QED
      BY <2>1, <2>2, <2>3
  <1>5. made = On(f, frames[1]) /\ MadeByQuery(op, frames, made)
    BY <1>1, <1>2 DEF MadeByQuery
  <1> HIDE DEF f, Value
  <1>6. IsFiniteSet(made) /\ \A r \in frames[1] : TracedToOne(frames[1], made, f[r], r)
    BY <1>3, <1>5, OneOfEach
  <1>7. op.op \in OfOne /\ Arity(op) = {1}
    BY OneChild DEF OfOne
  <1>8. ASSUME NEW m \in made PROVE TracedWell(op, frames, made, m)
    <2>1. PICK r \in frames[1] : m = f[r]
      BY <1>5 DEF On
    <2>2. TracedToOne(frames[1], made, m, r)
      BY <1>6, <2>1
    <2>3. Alike(op, made, m) = {m}
      BY <1>7, <2>2, OneChild DEF TracedToOne
    <2>4. TracedFrames(op, frames, m)[1] = {r}
      <3>1. TracedFrames(op, frames, m)[1] = Traced(frames[1], m.from[1])
        BY <1>7 DEF TracedFrames
      <3> QED
        BY <2>2, <3>1 DEF TracedToOne
    <2>5. Alike(op, made, m) \in Makes(op, TracedFrames(op, frames, m), FALSE)
      <3>1. {Value(r)} \in Makes(op, TracedFrames(op, frames, m), FALSE)
        BY <1>4, <2>4, Zenon
      <3>2. m = Value(r)
        BY <1>3, <2>1
      <3> QED
        BY <2>3, <3>1, <3>2
    <2>6. Carried(op, frames, m)
      BY <1>3, <2>1 DEF Carried, IsList
    <2>7. m.from[1] = {r.uuid} /\ r.uuid \in Ids(frames[1]) /\ \A s \in made : s.from[1] = {r.uuid} => s = m
      BY <2>2 DEF TracedToOne
    <2> QED
      BY <1>7, <2>5, <2>6, <2>7 DEF TracedWell
  <1> QED
    BY <1>5, <1>6, <1>8 DEF MadeWell

LEMMA ElementsFinite == ASSUME NEW x, IsList(x) PROVE IsFiniteSet(DOMAIN Elements(x))
  <1>1. PICK list : list = Elements(x)
    OBVIOUS
  <1>2. CASE x \in {Null, <<>>}
    <2>1. DOMAIN list = {1}
      BY <1>1, <1>2 DEF Elements
    <2>2. IsFiniteSet({1})
      BY FS_Singleton
    <2> QED
      BY <1>1, <2>1, <2>2
  <1>3. CASE x \notin {Null, <<>>}
    <2>1. list = x /\ x # Null
      BY <1>1, <1>3 DEF Elements
    <2>2. IsFiniteSet(DOMAIN x)
      BY <2>1 DEF IsList
    <2> QED
      BY <1>1, <2>1, <2>2
  <1> QED
    BY <1>2, <1>3

\* The elements of a list, for one row, and of the list that is exploded.
ElementRows(op, r, list) ==
    {Made(r.k, Elements(list)[n], <<{r.uuid}>>, n) :
        n \in {m \in DOMAIN Elements(list) : op.keep \/ Elements(list)[m] # Null}}

ElementsOf(op, r) == ElementRows(op, r, r.x)

Opened(op, fs) == {UNION {ElementsOf(op, r) : r \in fs[1]}}

\* An explode of the column.
LEMMA ExplodeMakes ==
    ASSUME NEW op, op.op = "explode", NEW ids, \A r : List(op, r, ids) = r.x
    PROVE  \A fs : Makes(op, fs, ids) = Opened(op, fs)
  <1>1. \A fs : Makes(op, fs, ids) = Exploded(op, fs[1], ids)
    BY DEF Makes
  <1>2. \A frame : Exploded(op, frame, ids) = {UNION {ElementsOf(op, r) : r \in frame}}
    <2>1. \A frame : Exploded(op, frame, ids) = {UNION {ElementRows(op, r, List(op, r, ids)) : r \in frame}}
      BY DEF Exploded, ElementRows
    <2>2. \A r : ElementRows(op, r, List(op, r, ids)) = ElementsOf(op, r)
      BY DEF ElementsOf
    <2> QED
      BY <2>1, <2>2
  <1> QED
    BY <1>1, <1>2 DEF Opened

LEMMA ExplodeMade ==
    ASSUME NEW op, op.op = "explode", op.of \in {"column", "shadow"}, NEW frames, Identified(frames[1]), \A r \in frames[1] : IsList(r.x),
           NEW made, made \in Makes(op, frames, TRUE)
    PROVE  MadeWell(op, frames, made)
  <1> DEFINE f == [r \in frames[1] |-> ElementsOf(op, r)]
  <1>1. /\ \A fs : Makes(op, fs, TRUE) = Opened(op, fs)
        /\ IsShadow(op) \/ \A fs : Makes(op, fs, FALSE) = Opened(op, fs)
    <2>1. \A r : List(op, r, TRUE) = r.x /\ (IsShadow(op) \/ List(op, r, FALSE) = r.x)
      BY DEF List, IsShadow
    <2>2. \A fs : Makes(op, fs, TRUE) = Opened(op, fs)
      BY <2>1, ExplodeMakes
    <2>3. ASSUME ~ IsShadow(op) PROVE \A fs : Makes(op, fs, FALSE) = Opened(op, fs)
      <3>1. \A r : List(op, r, FALSE) = r.x
        BY <2>1, <2>3
      <3> QED
        BY <3>1, ExplodeMakes
    <2> QED
      BY <2>2, <2>3
  <1>2. made = UNION {ElementsOf(op, r) : r \in frames[1]} /\ MadeByQuery(op, frames, made)
    <2>1. made \in {UNION {ElementsOf(op, r) : r \in frames[1]}}
      BY <1>1 DEF Opened
    <2>2. IsShadow(op) \/ made \in Makes(op, frames, FALSE)
      BY <1>1
    <2> QED
      BY <2>1, <2>2 DEF MadeByQuery
  <1>3. On(f, frames[1]) = {ElementsOf(op, r) : r \in frames[1]}
    BY DEF On
  <1>4. ASSUME NEW r \in frames[1] PROVE IsFiniteSet(ElementsOf(op, r))
    <2> DEFINE list == Elements(r.x)
               N == {m \in DOMAIN list : op.keep \/ list[m] # Null}
               g == [n \in N |-> Made(r.k, list[n], <<{r.uuid}>>, n)]
    <2>1. IsFiniteSet(DOMAIN list)
      BY ElementsFinite
    <2>2. IsFiniteSet(N)
      BY <2>1, FS_Subset
    <2>3. ElementsOf(op, r) = On(g, N)
      BY DEF ElementsOf, ElementRows, On
    <2> HIDE DEF N, g
    <2> QED
      BY <2>2, <2>3, OnFinite
  <1>5. IsFiniteSet(made)
    <2>1. IsFiniteSet(On(f, frames[1]))
      BY OnFinite DEF Identified
    <2>2. \A T \in On(f, frames[1]) : IsFiniteSet(T)
      BY <1>4 DEF On
    <2> QED
      BY <1>2, <1>3, <2>1, <2>2, FS_UNION
  <1>6. op.op \in OfOne /\ Arity(op) = {1} /\ ~ KeepsIds(op)
    BY OneChild DEF OfOne, KeepsIds
  <1>7. ASSUME NEW r, NEW m \in ElementsOf(op, r) PROVE m.from[1] = {r.uuid}
    BY DEF ElementsOf, ElementRows, Made
  <1>8. ASSUME NEW m \in made PROVE TracedWell(op, frames, made, m)
    <2>1. PICK r \in frames[1] : m \in ElementsOf(op, r)
      BY <1>2
    <2>2. m.from[1] = {r.uuid} /\ r.uuid \in Ids(frames[1])
      BY <1>7, <2>1 DEF Ids
    <2>3. Alike(op, made, m) = ElementsOf(op, r)
      <3>1. Alike(op, made, m) = {s \in made : s.from[1] \subseteq {r.uuid}}
        BY <1>6, <2>2 DEF Alike
      <3>2. ASSUME NEW s \in made, s.from[1] \subseteq {r.uuid} PROVE s \in ElementsOf(op, r)
        <4>1. PICK t \in frames[1] : s \in ElementsOf(op, t)
          BY <1>2
        <4>2. t = r
          BY <1>7, <3>2, <4>1 DEF Identified
        <4> QED
          BY <4>1, <4>2
      <3>3. \A s \in ElementsOf(op, r) : s \in made /\ s.from[1] \subseteq {r.uuid}
        BY <1>2, <1>7
      <3> QED
        BY <3>1, <3>2, <3>3
    <2>4. TracedFrames(op, frames, m)[1] = {r}
      <3>1. TracedFrames(op, frames, m)[1] = Traced(frames[1], m.from[1])
        BY <1>6 DEF TracedFrames
      <3> QED
        BY <2>2, <3>1 DEF Traced, Identified
    <2>5. IsShadow(op) \/ Alike(op, made, m) \in Makes(op, TracedFrames(op, frames, m), FALSE)
      <3>0. SUFFICES ASSUME ~ IsShadow(op) PROVE Alike(op, made, m) \in Makes(op, TracedFrames(op, frames, m), FALSE)
        OBVIOUS
      <3>1. PICK one : one = TracedFrames(op, frames, m)
        OBVIOUS
      <3>2. Makes(op, one, FALSE) = {UNION {ElementsOf(op, t) : t \in one[1]}}
        BY <1>1, <3>0 DEF Opened
      <3>3. UNION {ElementsOf(op, t) : t \in {r}} = ElementsOf(op, r)
        OBVIOUS
      <3> QED
        BY <2>3, <2>4, <3>1, <3>2, <3>3
    <2>6. Carried(op, frames, m)
      BY DEF Carried
    <2> QED
      BY <1>6, <2>2, <2>5, <2>6 DEF TracedWell
  <1> QED
    BY <1>2, <1>5, <1>8 DEF MadeWell

\* The group of a row, its key and what is made of it.
GroupOf(op, F, r) == {s \in F : op.keyed => s.k = r.k}
KeyOf(op, g) == IF op.keyed THEN (CHOOSE r \in g : TRUE).k ELSE Null
GroupRow(op, g) == Made(KeyOf(op, g), <<Cardinality(g)>>, <<{r.uuid : r \in g}>>, 0)

GroupRows(op, F) == {GroupRow(op, g) : g \in {GroupOf(op, F, r) : r \in F}}

\* Two groups are the same or share no row.
LEMMA GroupsApart ==
    ASSUME NEW op, NEW F, NEW q, NEW r, q \in F, r \in F, GroupOf(op, F, q) \cap GroupOf(op, F, r) # {}
    PROVE  GroupOf(op, F, q) = GroupOf(op, F, r)
  BY DEF GroupOf

LEMMA AggregateMade ==
    ASSUME NEW op, op.op = "aggregate", NEW frames, Identified(frames[1]), NEW made,
           made \in Makes(op, frames, TRUE)
    PROVE  MadeWell(op, frames, made)
  <1> DEFINE F == frames[1]
             f == [r \in F |-> GroupRow(op, GroupOf(op, F, r))]
  <1>1. ASSUME NEW fs, NEW ids
        PROVE  Makes(op, fs, ids) = {GroupRows(op, fs[1])}
    <2>1. Makes(op, fs, ids) = Grouped(op, fs[1])
      BY DEF Makes
    <2> QED
      BY <2>1, Zenon DEF Grouped, GroupRows, GroupRow, GroupOf, KeyOf
  <1>2. On(f, F) = GroupRows(op, F)
    BY DEF On, GroupRows
  <1>3. made = On(f, F) /\ MadeByQuery(op, frames, made)
    BY <1>1, <1>2 DEF MadeByQuery
  <1>4. ASSUME NEW r \in F
        PROVE  /\ f[r] = GroupRow(op, GroupOf(op, F, r)) /\ r \in GroupOf(op, F, r)
               /\ f[r].from[1] = {s.uuid : s \in GroupOf(op, F, r)}
               /\ f[r].x = <<Cardinality(GroupOf(op, F, r))>>
    BY DEF GroupRow, Made, GroupOf
  <1>5. \A r \in F : GroupOf(op, F, r) \subseteq F
    BY DEF GroupOf
  <1> HIDE DEF f
  <1>6. IsFiniteSet(made)
    BY <1>3, OnFinite DEF Identified
  <1>7. op.op \in OfOne /\ Arity(op) = {1} /\ ~ KeepsIds(op)
    BY OneChild DEF OfOne, KeepsIds
  <1>8. ASSUME NEW m \in made PROVE TracedWell(op, frames, made, m)
    <2>1. PICK r \in F : m = f[r]
      BY <1>3 DEF On
    <2>2. PICK g : g = GroupOf(op, F, r)
      OBVIOUS
    <2>3. m = GroupRow(op, g) /\ r \in g /\ m.from[1] = {s.uuid : s \in g} /\ m.x = <<Cardinality(g)>> /\ g \subseteq F
      BY <1>4, <1>5, <2>1, <2>2
    <2>4. m.from[1] \subseteq Ids(F) /\ m.from[1] # {}
      BY <2>3 DEF Ids
    <2>5. Traced(F, m.from[1]) = g
      <3>1. ASSUME NEW c \in F, c.uuid \in m.from[1] PROVE c \in g
        <4>1. PICK s \in g : s.uuid = c.uuid
          BY <2>3, <3>1
        <4> QED
          BY <2>3, <4>1 DEF Identified
      <3> QED
        BY <2>3, <3>1 DEF Traced
    <2>6. Alike(op, made, m) = {m}
      <3>1. ASSUME NEW s \in made, s.from[1] \subseteq m.from[1] PROVE s = m
        <4>1. PICK q \in F : s = f[q]
          BY <1>3 DEF On
        <4>2. q \in GroupOf(op, F, q) /\ q.uuid \in s.from[1] /\ s = GroupRow(op, GroupOf(op, F, q))
          BY <1>4, <4>1
        <4>3. q \in g
          BY <2>5, <3>1, <4>2 DEF Traced
        <4>4. GroupOf(op, F, q) = g
          BY <2>2, <4>2, <4>3, GroupsApart
        <4> QED
          BY <2>3, <4>2, <4>4
      <3> QED
        BY <1>7, <3>1 DEF Alike
    <2>7. PICK one : one = TracedFrames(op, frames, m)
      OBVIOUS
    <2>8. one[1] = g
      <3>1. one[1] = Traced(F, m.from[1])
        BY <1>7, <2>7 DEF TracedFrames
      <3> QED
        BY <2>5, <3>1
    <2>9. Makes(op, one, FALSE) = {{m}}
      <3>1. \A t \in g : GroupOf(op, g, t) = g
        BY <2>2 DEF GroupOf
      <3>2. {GroupOf(op, g, t) : t \in g} = {g}
        BY <2>3, <3>1
      <3>3. {GroupRow(op, h) : h \in {g}} = {m}
        BY <2>3
      <3>4. GroupRows(op, g) = {m}
        BY <3>2, <3>3, Zenon DEF GroupRows
      <3> QED
        BY <1>1, <2>8, <3>4
    <2>10. Carried(op, frames, m)
      <3>1. DOMAIN m.x = {1} /\ IsFiniteSet({1})
        BY <2>3, FS_Singleton
      <3>2. IsList(m.x)
        BY <3>1, Zenon DEF IsList
      <3> QED
        BY <3>2 DEF Carried
    <2> QED
      BY <1>7, <2>4, <2>6, <2>7, <2>9, <2>10 DEF TracedWell
  <1> QED
    BY <1>3, <1>6, <1>8 DEF MadeWell

\* Two children.
LEMMA TwoChildren ==
    ASSUME NEW op, op.op \in OfTwo
    PROVE  /\ Arity(op) = {1, 2} /\ ~ KeepsIds(op)
           /\ \A frames, m : LET one == TracedFrames(op, frames, m)
                             IN  one[1] = Traced(frames[1], m.from[1]) /\ one[2] = Traced(frames[2], m.from[2])
  <1>1. Arity(op) = {1, 2}
    BY DEF Arity, OfTwo, Left, Right
  <1>2. ~ KeepsIds(op)
    BY DEF KeepsIds, OfTwo
  <1> QED
    BY <1>1, <1>2 DEF TracedFrames

\* A row of one child on a side, or none.
OnSide(F, ids, c) == ids \subseteq Ids(F) /\ Traced(F, ids) = c

LEMMA OneOnSide ==
    ASSUME NEW F, Identified(F)
    PROVE  /\ \A r \in F : OnSide(F, {r.uuid}, {r})
           /\ OnSide(F, {}, {})
           /\ \A q, r \in F : q.uuid \in {r.uuid} => q = r
  <1>1. \A r \in F : {c \in F : c.uuid \in {r.uuid}} = {r}
    BY DEF Identified
  <1>2. {c \in F : c.uuid \in {}} = {}
    OBVIOUS
  <1>3. \A r \in F : {r.uuid} \subseteq Ids(F)
    BY DEF Ids
  <1>4. \A q, r \in F : q.uuid \in {r.uuid} => q = r
    BY DEF Identified
  <1> QED
    BY <1>1, <1>2, <1>3, <1>4 DEF OnSide, Traced

LEMMA UnionMade ==
    ASSUME NEW op, op.op = "union", NEW frames, Identified(frames[1]), Identified(frames[2]), NEW made,
           made \in Makes(op, frames, TRUE)
    PROVE  MadeWell(op, frames, made)
  <1> DEFINE OfLeft(r) == Made(r.k, r.x, <<{r.uuid}, {}>>, 0)
             OfRight(r) == Made(r.k, r.x, <<{}, {r.uuid}>>, 0)
             f == [r \in frames[1] |-> OfLeft(r)]
             g == [r \in frames[2] |-> OfRight(r)]
             Both(fs) == {OfLeft(r) : r \in fs[1]} \cup {OfRight(r) : r \in fs[2]}
  <1>1. \A fs, ids : Makes(op, fs, ids) = {Both(fs)}
    BY DEF Makes, Unioned
  <1>2. On(f, frames[1]) = {OfLeft(r) : r \in frames[1]} /\ On(g, frames[2]) = {OfRight(r) : r \in frames[2]}
    BY DEF On
  <1>3. \A r : OfLeft(r).from[1] = {r.uuid} /\ OfLeft(r).from[2] = {} /\ OfLeft(r).x = r.x
    BY DEF Made
  <1>4. \A r : OfRight(r).from[1] = {} /\ OfRight(r).from[2] = {r.uuid} /\ OfRight(r).x = r.x
    BY DEF Made
  <1>5. \A r, one : one[1] = {r} /\ one[2] = {} => Both(one) = {OfLeft(r)}
    OBVIOUS
  <1>6. \A r, one : one[1] = {} /\ one[2] = {r} => Both(one) = {OfRight(r)}
    OBVIOUS
  <1>7. \A m \in Both(frames) : (\E r \in frames[1] : m = OfLeft(r)) \/ (\E r \in frames[2] : m = OfRight(r))
    OBVIOUS
  <1>8. Both(frames) = On(f, frames[1]) \cup On(g, frames[2])
    BY <1>2
  <1> HIDE DEF f, g, Both, OfLeft, OfRight
  <1>9. made = Both(frames) /\ MadeByQuery(op, frames, made)
    BY <1>1 DEF MadeByQuery
  <1>10. IsFiniteSet(made)
    <2>1. IsFiniteSet(On(f, frames[1])) /\ IsFiniteSet(On(g, frames[2]))
      BY OnFinite DEF Identified
    <2> QED
      BY <1>8, <1>9, <2>1, FS_Union
  <1>11. op.op \in OfTwo /\ Arity(op) = {1, 2} /\ ~ KeepsIds(op)
    BY TwoChildren DEF OfTwo
  <1>12. ASSUME NEW m \in made PROVE TracedWell(op, frames, made, m)
    <2>1. PICK one : one = TracedFrames(op, frames, m)
      OBVIOUS
    <2>2. one[1] = Traced(frames[1], m.from[1]) /\ one[2] = Traced(frames[2], m.from[2])
      BY <1>11, <2>1 DEF TracedFrames
    <2>3. CASE \E r \in frames[1] : m = OfLeft(r)
      <3>1. PICK r \in frames[1] : m = OfLeft(r)
        BY <2>3
      <3>2. m.from[1] = {r.uuid} /\ m.from[2] = {} /\ m.x = r.x
        BY <1>3, <3>1
      <3>3. OnSide(frames[1], m.from[1], {r}) /\ OnSide(frames[2], m.from[2], {})
        BY <3>2, OneOnSide
      <3>4. ASSUME NEW s \in made, s.from[1] \subseteq {r.uuid}, s.from[2] \subseteq {} PROVE s = m
        <4>1. ~ \E t \in frames[2] : s = OfRight(t)
          BY <1>4, <3>4
        <4>2. PICK t \in frames[1] : s = OfLeft(t)
          BY <1>7, <1>9, <4>1
        <4>3. t = r
          BY <1>3, <3>4, <4>2, OneOnSide
        <4> QED
          BY <3>1, <4>2, <4>3
      <3>5. Alike(op, made, m) = {m}
        BY <1>11, <3>2, <3>4 DEF Alike
      <3>6. {m} \in Makes(op, one, FALSE)
        <4>1. one[1] = {r} /\ one[2] = {}
          BY <2>2, <3>3 DEF OnSide
        <4>2. Both(one) = {m}
          BY <1>5, <3>1, <4>1
        <4> QED
          BY <1>1, <4>2
      <3>7. Carried(op, frames, m)
        BY <1>11, <3>2 DEF Carried
      <3>8. m.from[1] \subseteq Ids(frames[1]) /\ m.from[2] \subseteq Ids(frames[2]) /\ m.from[1] # {}
        BY <3>2, <3>3 DEF OnSide
      <3> QED
        BY <1>11, <2>1, <3>5, <3>6, <3>7, <3>8 DEF TracedWell
    <2>4. CASE \E r \in frames[2] : m = OfRight(r)
      <3>1. PICK r \in frames[2] : m = OfRight(r)
        BY <2>4
      <3>2. m.from[1] = {} /\ m.from[2] = {r.uuid} /\ m.x = r.x
        BY <1>4, <3>1
      <3>3. OnSide(frames[1], m.from[1], {}) /\ OnSide(frames[2], m.from[2], {r})
        BY <3>2, OneOnSide
      <3>4. ASSUME NEW s \in made, s.from[1] \subseteq {}, s.from[2] \subseteq {r.uuid} PROVE s = m
        <4>1. ~ \E t \in frames[1] : s = OfLeft(t)
          BY <1>3, <3>4
        <4>2. PICK t \in frames[2] : s = OfRight(t)
          BY <1>7, <1>9, <4>1
        <4>3. t = r
          BY <1>4, <3>4, <4>2, OneOnSide
        <4> QED
          BY <3>1, <4>2, <4>3
      <3>5. Alike(op, made, m) = {m}
        BY <1>11, <3>2, <3>4 DEF Alike
      <3>6. {m} \in Makes(op, one, FALSE)
        <4>1. one[1] = {} /\ one[2] = {r}
          BY <2>2, <3>3 DEF OnSide
        <4>2. Both(one) = {m}
          BY <1>6, <3>1, <4>1
        <4> QED
          BY <1>1, <4>2
      <3>7. Carried(op, frames, m)
        BY <1>11, <3>2 DEF Carried
      <3>8. m.from[1] \subseteq Ids(frames[1]) /\ m.from[2] \subseteq Ids(frames[2]) /\ m.from[2] # {}
        BY <3>2, <3>3 DEF OnSide
      <3> QED
        BY <1>11, <2>1, <3>5, <3>6, <3>7, <3>8 DEF TracedWell
    <2> QED
      BY <1>7, <1>9, <2>3, <2>4
  <1> QED
    BY <1>9, <1>10, <1>12 DEF MadeWell

\* The pairs of a join, the rows without a counterpart, and what is made of them.
PairsOf(op, L, R) == {p \in L \X R : Pairs(op, p[1], p[2])}
AloneLeft(op, L, R) == IF op.how \in {"left", "full"} THEN L \ {p[1] : p \in PairsOf(op, L, R)} ELSE {}
AloneRight(op, L, R) == IF op.how \in {"right", "full"} THEN R \ {p[2] : p \in PairsOf(op, L, R)} ELSE {}
PairRow(op, p) ==
    Made(IF op.how = "right" THEN p[2].k ELSE p[1].k, <<<<p[1].k, p[1].x>>, <<p[2].k, p[2].x>>>>,
         <<{p[1].uuid}, {p[2].uuid}>>, 0)
LeftRow(l) == Made(l.k, <<<<l.k, l.x>>, Null>>, <<{l.uuid}, {}>>, 0)
RightRow(op, r) ==
    Made(IF op.how = "right" THEN r.k ELSE Null, <<Null, <<r.k, r.x>>>>, <<{}, {r.uuid}>>, 0)
JoinRows(op, L, R) ==
    {PairRow(op, p) : p \in PairsOf(op, L, R)}
    \cup {LeftRow(l) : l \in AloneLeft(op, L, R)}
    \cup {RightRow(op, r) : r \in AloneRight(op, L, R)}

LEMMA JoinedAre == \A op, L, R : Joined(op, L, R) = {JoinRows(op, L, R)}
  BY Zenon DEF Joined, JoinRows, PairsOf, AloneLeft, AloneRight, PairRow, LeftRow, RightRow

\* Where a row comes from.
From(m, a, b) == m.from[1] = a /\ m.from[2] = b /\ DOMAIN m.x = {1, 2}

LEMMA JoinRowFacts ==
    /\ \A op, p : From(PairRow(op, p), {p[1].uuid}, {p[2].uuid})
    /\ \A l : From(LeftRow(l), {l.uuid}, {})
    /\ \A op, r : From(RightRow(op, r), {}, {r.uuid})
  BY DEF PairRow, LeftRow, RightRow, Made, From

\* Of a pair, or of one row without a counterpart, the join makes one row.
LEMMA JoinOfPair ==
    ASSUME NEW op, NEW p, NEW l, NEW r, p = <<l, r>>, Pairs(op, l, r)
    PROVE  JoinRows(op, {l}, {r}) = {PairRow(op, p)}
  <1>1. PairsOf(op, {l}, {r}) = {p}
    BY DEF PairsOf
  <1>2. AloneLeft(op, {l}, {r}) = {} /\ AloneRight(op, {l}, {r}) = {}
    BY <1>1 DEF AloneLeft, AloneRight
  <1> QED
    BY <1>1, <1>2 DEF JoinRows

LEMMA JoinOfLeft ==
    ASSUME NEW op, NEW l, op.how \in {"left", "full"}
    PROVE  JoinRows(op, {l}, {}) = {LeftRow(l)}
  <1>1. PairsOf(op, {l}, {}) = {}
    BY DEF PairsOf
  <1>2. AloneLeft(op, {l}, {}) = {l} /\ AloneRight(op, {l}, {}) = {}
    BY <1>1 DEF AloneLeft, AloneRight
  <1> QED
    BY <1>1, <1>2 DEF JoinRows

LEMMA JoinOfRight ==
    ASSUME NEW op, NEW r, op.how \in {"right", "full"}
    PROVE  JoinRows(op, {}, {r}) = {RightRow(op, r)}
  <1>1. PairsOf(op, {}, {r}) = {}
    BY DEF PairsOf
  <1>2. AloneLeft(op, {}, {r}) = {} /\ AloneRight(op, {}, {r}) = {r}
    BY <1>1 DEF AloneLeft, AloneRight
  <1> QED
    BY <1>1, <1>2 DEF JoinRows

LEMMA JoinFinite ==
    ASSUME NEW op, NEW L, NEW R, IsFiniteSet(L), IsFiniteSet(R)
    PROVE  IsFiniteSet(JoinRows(op, L, R))
  <1> DEFINE f == [p \in PairsOf(op, L, R) |-> PairRow(op, p)]
             g == [l \in AloneLeft(op, L, R) |-> LeftRow(l)]
             h == [r \in AloneRight(op, L, R) |-> RightRow(op, r)]
  <1>1. IsFiniteSet(PairsOf(op, L, R))
    <2>1. IsFiniteSet(L \X R)
      BY FS_Product
    <2>2. PairsOf(op, L, R) \in SUBSET (L \X R)
      BY DEF PairsOf
    <2> QED
      BY <2>1, <2>2, FS_Subset
  <1>2. IsFiniteSet(AloneLeft(op, L, R)) /\ IsFiniteSet(AloneRight(op, L, R))
    <2>1. AloneLeft(op, L, R) \in SUBSET L /\ AloneRight(op, L, R) \in SUBSET R
      BY DEF AloneLeft, AloneRight
    <2> QED
      BY <2>1, FS_Subset
  <1>3. JoinRows(op, L, R) =
          On(f, PairsOf(op, L, R)) \cup On(g, AloneLeft(op, L, R)) \cup On(h, AloneRight(op, L, R))
    BY DEF JoinRows, On
  <1> HIDE DEF f, g, h
  <1>4. /\ IsFiniteSet(On(f, PairsOf(op, L, R))) /\ IsFiniteSet(On(g, AloneLeft(op, L, R)))
        /\ IsFiniteSet(On(h, AloneRight(op, L, R)))
    BY <1>1, <1>2, OnFinite
  <1>5. IsFiniteSet(On(f, PairsOf(op, L, R)) \cup On(g, AloneLeft(op, L, R)))
    BY <1>4, FS_Union
  <1>6. IsFiniteSet(On(f, PairsOf(op, L, R)) \cup On(g, AloneLeft(op, L, R)) \cup On(h, AloneRight(op, L, R)))
    BY <1>4, <1>5, FS_Union
  <1> QED
    BY <1>3, <1>6

\* Is the row alone in being traced to nothing but its rows?
OnlyOne(made, m) == \A s \in made : s.from[1] \subseteq m.from[1] /\ s.from[2] \subseteq m.from[2] => s = m

\* A row made of at most one row of each side, if it is alone in that.
LEMMA OfTwoTraced ==
    ASSUME NEW op, op.op = "join", NEW frames, NEW made, NEW m, m \in made,
           NEW c, NEW d, OnSide(frames[1], m.from[1], c), OnSide(frames[2], m.from[2], d),
           m.from[1] # {} \/ m.from[2] # {}, DOMAIN m.x = {1, 2},
           OnlyOne(made, m),
           JoinRows(op, c, d) = {m}
    PROVE  TracedWell(op, frames, made, m)
  <1>1. op.op \in OfTwo /\ Arity(op) = {1, 2} /\ ~ KeepsIds(op)
    BY TwoChildren DEF OfTwo
  <1>2. PICK one : one = TracedFrames(op, frames, m)
    OBVIOUS
  <1>3. one[1] = c /\ one[2] = d
    BY <1>1, <1>2 DEF TracedFrames, OnSide
  <1>4. {m} \in Makes(op, one, FALSE)
    <2>1. Makes(op, one, FALSE) = Joined(op, c, d)
      BY <1>3 DEF Makes
    <2> QED
      BY <2>1, JoinedAre
  <1>5. Alike(op, made, m) = {m}
    BY <1>1 DEF Alike, OnlyOne
  <1>6. Carried(op, frames, m)
    <2>1. IsFiniteSet({1, 2})
      <3>1. IsFiniteSet({1}) /\ {1, 2} = {1} \cup {2}
        BY FS_Singleton
      <3> QED
        BY <3>1, FS_AddElement
    <2>2. IsList(m.x)
      BY <2>1, Zenon DEF IsList
    <2> QED
      BY <2>2 DEF Carried
  <1>7. m.from[1] \subseteq Ids(frames[1]) /\ m.from[2] \subseteq Ids(frames[2])
    BY DEF OnSide
  <1> QED
    BY <1>1, <1>2, <1>4, <1>5, <1>6, <1>7 DEF TracedWell

LEMMA JoinMade ==
    ASSUME NEW op, op.op = "join", NEW frames, Identified(frames[1]), Identified(frames[2]), NEW made,
           made \in Makes(op, frames, TRUE)
    PROVE  MadeWell(op, frames, made)
  <1>1. PICK L, R : L = frames[1] /\ R = frames[2]
    OBVIOUS
  <1>2. made = JoinRows(op, L, R) /\ MadeByQuery(op, frames, made)
    <2>1. \A ids : Makes(op, frames, ids) = Joined(op, L, R)
      BY <1>1 DEF Makes
    <2>2. \A ids : Makes(op, frames, ids) = {JoinRows(op, L, R)}
      BY <2>1, JoinedAre
    <2> QED
      BY <2>2 DEF MadeByQuery
  <1>3. IsFiniteSet(made)
    BY <1>1, <1>2, JoinFinite DEF Identified
  <1>4. \A m \in made : \/ \E p \in PairsOf(op, L, R) : m = PairRow(op, p)
                        \/ \E l \in AloneLeft(op, L, R) : m = LeftRow(l)
                        \/ \E r \in AloneRight(op, L, R) : m = RightRow(op, r)
    BY <1>2 DEF JoinRows
  <1>5. \A p \in PairsOf(op, L, R) :
           p[1] \in L /\ p[2] \in R /\ p = <<p[1], p[2]>> /\ Pairs(op, p[1], p[2])
    BY DEF PairsOf
  <1>6. \A l \in AloneLeft(op, L, R) : l \in L /\ op.how \in {"left", "full"} /\ \A p \in PairsOf(op, L, R) : p[1] # l
    BY DEF AloneLeft
  <1>7. \A r \in AloneRight(op, L, R) : r \in R /\ op.how \in {"right", "full"} /\ \A p \in PairsOf(op, L, R) : p[2] # r
    BY DEF AloneRight
  <1>12. /\ \A q \in PairsOf(op, L, R) : From(PairRow(op, q), {q[1].uuid}, {q[2].uuid})
         /\ \A l \in AloneLeft(op, L, R) : From(LeftRow(l), {l.uuid}, {})
         /\ \A r \in AloneRight(op, L, R) : From(RightRow(op, r), {}, {r.uuid})
    BY JoinRowFacts, Zenon
  <1>8. ASSUME NEW m \in made, NEW p \in PairsOf(op, L, R), m = PairRow(op, p)
        PROVE  TracedWell(op, frames, made, m)
    <2>1. m.from[1] = {p[1].uuid} /\ m.from[2] = {p[2].uuid} /\ DOMAIN m.x = {1, 2}
      BY <1>8, JoinRowFacts DEF From
    <2>2. OnSide(L, m.from[1], {p[1]}) /\ OnSide(R, m.from[2], {p[2]})
      BY <1>1, <1>5, <2>1, OneOnSide
    <2>3. ASSUME NEW s \in made, s.from[1] \subseteq m.from[1], s.from[2] \subseteq m.from[2] PROVE s = m
      <3>1. ASSUME NEW q \in PairsOf(op, L, R), s = PairRow(op, q) PROVE s = m
        <4>1. q[1].uuid \in {p[1].uuid} /\ q[2].uuid \in {p[2].uuid}
          <5>1. From(s, {q[1].uuid}, {q[2].uuid})
            BY <1>12, <3>1
          <5> QED
            BY <2>1, <2>3, <5>1 DEF From
        <4>2. q[1] = p[1] /\ q[2] = p[2]
          BY <1>1, <1>5, <4>1, OneOnSide
        <4>3. q = p
          BY <1>5, <4>2
        <4> QED
          BY <1>8, <3>1, <4>3
      <3>2. ASSUME NEW l \in AloneLeft(op, L, R), s = LeftRow(l) PROVE FALSE
        <4>1. l.uuid \in {p[1].uuid}
          <5>1. From(s, {l.uuid}, {})
            BY <1>12, <3>2
          <5> QED
            BY <2>1, <2>3, <5>1 DEF From
        <4>2. l = p[1]
          BY <1>1, <1>5, <1>6, <4>1, OneOnSide
        <4> QED
          BY <1>6, <4>2
      <3>3. ASSUME NEW r \in AloneRight(op, L, R), s = RightRow(op, r) PROVE FALSE
        <4>1. r.uuid \in {p[2].uuid}
          <5>1. From(s, {}, {r.uuid})
            BY <1>12, <3>3
          <5> QED
            BY <2>1, <2>3, <5>1 DEF From
        <4>2. r = p[2]
          BY <1>1, <1>5, <1>7, <4>1, OneOnSide
        <4> QED
          BY <1>7, <4>2
      <3> QED
        BY <1>4, <3>1, <3>2, <3>3
    <2>4. JoinRows(op, {p[1]}, {p[2]}) = {m}
      BY <1>5, <1>8, JoinOfPair
    <2>5. /\ OnSide(frames[1], m.from[1], {p[1]}) /\ OnSide(frames[2], m.from[2], {p[2]})
          /\ m.from[1] # {} \/ m.from[2] # {}
      BY <1>1, <2>1, <2>2
    <2>6. OnlyOne(made, m)
      BY <2>3 DEF OnlyOne
    <2> QED
      BY <2>1, <2>4, <2>5, <2>6, OfTwoTraced, Zenon
  <1>9. ASSUME NEW m \in made, NEW l \in AloneLeft(op, L, R), m = LeftRow(l)
        PROVE  TracedWell(op, frames, made, m)
    <2>1. m.from[1] = {l.uuid} /\ m.from[2] = {} /\ DOMAIN m.x = {1, 2}
      BY <1>9, JoinRowFacts DEF From
    <2>2. OnSide(L, m.from[1], {l}) /\ OnSide(R, m.from[2], {})
      BY <1>1, <1>6, <2>1, OneOnSide
    <2>3. ASSUME NEW s \in made, s.from[1] \subseteq m.from[1], s.from[2] \subseteq m.from[2] PROVE s = m
      <3>1. ASSUME NEW q \in PairsOf(op, L, R), s = PairRow(op, q) PROVE FALSE
        <4>1. From(s, {q[1].uuid}, {q[2].uuid})
          BY <1>12, <3>1
        <4> QED
          BY <2>1, <2>3, <4>1 DEF From
      <3>2. ASSUME NEW k \in AloneLeft(op, L, R), s = LeftRow(k) PROVE s = m
        <4>1. k.uuid \in {l.uuid}
          <5>1. From(s, {k.uuid}, {})
            BY <1>12, <3>2
          <5> QED
            BY <2>1, <2>3, <5>1 DEF From
        <4>2. k = l
          BY <1>1, <1>6, <4>1, OneOnSide
        <4> QED
          BY <1>9, <3>2, <4>2
      <3>3. ASSUME NEW r \in AloneRight(op, L, R), s = RightRow(op, r) PROVE FALSE
        <4>1. From(s, {}, {r.uuid})
          BY <1>12, <3>3
        <4> QED
          BY <2>1, <2>3, <4>1 DEF From
      <3> QED
        BY <1>4, <3>1, <3>2, <3>3
    <2>4. JoinRows(op, {l}, {}) = {m}
      BY <1>6, <1>9, JoinOfLeft
    <2>5. /\ OnSide(frames[1], m.from[1], {l}) /\ OnSide(frames[2], m.from[2], {})
          /\ m.from[1] # {} \/ m.from[2] # {}
      BY <1>1, <2>1, <2>2
    <2>6. OnlyOne(made, m)
      BY <2>3 DEF OnlyOne
    <2> QED
      BY <2>1, <2>4, <2>5, <2>6, OfTwoTraced, Zenon
  <1>10. ASSUME NEW m \in made, NEW r \in AloneRight(op, L, R), m = RightRow(op, r)
         PROVE  TracedWell(op, frames, made, m)
    <2>1. m.from[1] = {} /\ m.from[2] = {r.uuid} /\ DOMAIN m.x = {1, 2}
      BY <1>10, JoinRowFacts DEF From
    <2>2. OnSide(L, m.from[1], {}) /\ OnSide(R, m.from[2], {r})
      BY <1>1, <1>7, <2>1, OneOnSide
    <2>3. ASSUME NEW s \in made, s.from[1] \subseteq m.from[1], s.from[2] \subseteq m.from[2] PROVE s = m
      <3>1. ASSUME NEW q \in PairsOf(op, L, R), s = PairRow(op, q) PROVE FALSE
        <4>1. From(s, {q[1].uuid}, {q[2].uuid})
          BY <1>12, <3>1
        <4> QED
          BY <2>1, <2>3, <4>1 DEF From
      <3>2. ASSUME NEW l \in AloneLeft(op, L, R), s = LeftRow(l) PROVE FALSE
        <4>1. From(s, {l.uuid}, {})
          BY <1>12, <3>2
        <4> QED
          BY <2>1, <2>3, <4>1 DEF From
      <3>3. ASSUME NEW k \in AloneRight(op, L, R), s = RightRow(op, k) PROVE s = m
        <4>1. k.uuid \in {r.uuid}
          <5>1. From(s, {}, {k.uuid})
            BY <1>12, <3>3
          <5> QED
            BY <2>1, <2>3, <5>1 DEF From
        <4>2. k = r
          BY <1>1, <1>7, <4>1, OneOnSide
        <4> QED
          BY <1>10, <3>3, <4>2
      <3> QED
        BY <1>4, <3>1, <3>2, <3>3
    <2>4. JoinRows(op, {}, {r}) = {m}
      BY <1>7, <1>10, JoinOfRight
    <2>5. /\ OnSide(frames[1], m.from[1], {}) /\ OnSide(frames[2], m.from[2], {r})
          /\ m.from[1] # {} \/ m.from[2] # {}
      BY <1>1, <2>1, <2>2
    <2>6. OnlyOne(made, m)
      BY <2>3 DEF OnlyOne
    <2> QED
      BY <2>1, <2>4, <2>5, <2>6, OfTwoTraced, Zenon
  <1>11. \A m \in made : TracedWell(op, frames, made, m)
    BY <1>4, <1>8, <1>9, <1>10
  <1> QED
    BY <1>2, <1>3, <1>11 DEF MadeWell

\* Whatever the operator.
LEMMA AllMade ==
    ASSUME NEW op, op.op \in OfOne \cup OfTwo \cup {"source"},
           op.op = "source" => IsFiniteSet(DOMAIN op.data),
           op.op = "limit" => op.n \in Nat,
           op.op = "drop_duplicates" => op.on \in {"key", "all"},
           NEW frames, \A side \in Arity(op) : Identified(frames[side]),
           op.op = "explode" => op.of \in {"column", "shadow"} /\ \A r \in frames[1] : IsList(r.x),
           NEW made, made \in Makes(op, frames, TRUE)
    PROVE  MadeWell(op, frames, made)
  <1>1. CASE op.op = "source"
    BY <1>1, SourceMade
  <1>2. CASE op.op \in OfOne
    <2>1. Identified(frames[1])
      BY <1>2, OneChild
    <2> QED
      BY <1>2, <2>1, ProjectMade, SortMade, FilterMade, LimitMade, DistinctMade, ExplodeMade, AggregateMade
      DEF OfOne
  <1>3. CASE op.op \in OfTwo
    <2>1. Identified(frames[1]) /\ Identified(frames[2])
      BY <1>3, TwoChildren
    <2> QED
      BY <1>3, <2>1, JoinMade, UnionMade DEF OfTwo
  <1> QED
    BY <1>1, <1>2, <1>3

----------------------------------------------------------------------------
(* The rows with their ids. *)

\* A frame without ids, and the same with ids, have the same contents.
Like(T, c) == {r \in T : <<r.k, r.x>> = c}
Likes(T) == {<<r.k, r.x>> : r \in T}

LEMMA ContentsAre == \A T : Contents(T) = [c \in Likes(T) |-> Cardinality(Like(T, c))]
  BY Zenon DEF Contents, Like, Likes

LEMMA ContentsSame ==
    ASSUME NEW S, IsFiniteSet(S), NEW g, \A r \in S : g[r].k = r.k /\ g[r].x = r.x,
           \A r, s \in S : g[r] = g[s] => r = s
    PROVE  Contents(On(g, S)) = Contents(S)
  <1>1. Likes(On(g, S)) = Likes(S)
    <2>1. \A c \in Likes(S) : c \in Likes(On(g, S))
      BY DEF Likes, On
    <2>2. \A c \in Likes(On(g, S)) : c \in Likes(S)
      BY DEF Likes, On
    <2> QED
      BY <2>1, <2>2
  <1>2. ASSUME NEW c PROVE Cardinality(Like(On(g, S), c)) = Cardinality(Like(S, c))
    <2> DEFINE h == [r \in Like(S, c) |-> g[r]]
    <2>1. \A r \in Like(S, c) : r \in S /\ g[r] \in Like(On(g, S), c)
      BY DEF Like, On
    <2>2. ASSUME NEW t \in Like(On(g, S), c) PROVE \E r \in Like(S, c) : g[r] = t
      <3>1. PICK r \in S : t = g[r]
        BY DEF Like, On
      <3>2. r \in Like(S, c)
        BY <3>1 DEF Like
      <3> QED
        BY <3>1, <3>2
    <2>3. h \in Bijection(Like(S, c), Like(On(g, S), c))
      <3>1. h \in [Like(S, c) -> Like(On(g, S), c)]
        BY <2>1
      <3>2. \A r, s \in Like(S, c) : h[r] = h[s] => r = s
        BY <2>1
      <3>3. \A t \in Like(On(g, S), c) : \E r \in Like(S, c) : h[r] = t
        BY <2>2
      <3> HIDE DEF h
      <3> QED
        BY <3>1, <3>2, <3>3 DEF Bijection, Injection, Surjection, IsInjective
    <2>4. IsFiniteSet(Like(S, c))
      <3>1. Like(S, c) \in SUBSET S
        BY DEF Like
      <3> QED
        BY <3>1, FS_Subset
    <2> HIDE DEF h
    <2>5. ExistsBijection(Like(S, c), Like(On(g, S), c))
      BY <2>3 DEF ExistsBijection
    <2> QED
      BY <2>4, <2>5, FS_Bijection
  <1>3. Contents(On(g, S)) = [c \in Likes(On(g, S)) |-> Cardinality(Like(On(g, S), c))]
    BY ContentsAre
  <1>4. Contents(S) = [c \in Likes(S) |-> Cardinality(Like(S, c))]
    BY ContentsAre
  <1> QED
    BY <1>1, <1>2, <1>3, <1>4

\* Each row made has an id, and no two have the same.
NamedWell(named, made) ==
    /\ \A n \in named : n.made \in made
    /\ \A m \in made : \E n \in named : n.made = m
    /\ \A n, o \in named : n.uuid = o.uuid <=> n.made = o.made

\* The row with an id of a row made.
Tagged(named, m) == [uuid |-> (CHOOSE n \in named : n.made = m).uuid, k |-> m.k, x |-> m.x]

LEMMA TaggedRows ==
    ASSUME NEW named, NEW made, NamedWell(named, made), NEW g, g = [m \in made |-> Tagged(named, m)]
    PROVE  /\ RowsOf(named) = On(g, made)
           /\ \A m \in made : g[m].k = m.k /\ g[m].x = m.x
           /\ \A m \in made : \E n \in named : n.made = m /\ n.uuid = g[m].uuid
           /\ \A m, s \in made : g[m].uuid = g[s].uuid => m = s
           /\ \A n \in named : g[n.made].uuid = n.uuid
  <1>1. \A m \in made : g[m].k = m.k /\ g[m].x = m.x /\ g[m].uuid = (CHOOSE n \in named : n.made = m).uuid
    BY DEF Tagged
  <1>2. ASSUME NEW m \in made PROVE \E n \in named : n.made = m /\ n.uuid = g[m].uuid
    <2>1. PICK n : n = CHOOSE o \in named : o.made = m
      OBVIOUS
    <2>2. n \in named /\ n.made = m
      BY <2>1 DEF NamedWell
    <2> QED
      BY <1>1, <2>1, <2>2
  <1>3. ASSUME NEW n \in named PROVE g[n.made].uuid = n.uuid
    <2>1. n.made \in made
      BY DEF NamedWell
    <2>2. PICK o \in named : o.made = n.made /\ o.uuid = g[n.made].uuid
      BY <1>2, <2>1
    <2> QED
      BY <2>2 DEF NamedWell
  <1>4. ASSUME NEW m \in made, NEW s \in made, g[m].uuid = g[s].uuid PROVE m = s
    <2>1. PICK n \in named : n.made = m /\ n.uuid = g[m].uuid
      BY <1>2
    <2>2. PICK o \in named : o.made = s /\ o.uuid = g[s].uuid
      BY <1>2
    <2> QED
      BY <1>4, <2>1, <2>2 DEF NamedWell
  <1>5. \A n \in named : n.made \in made /\ g[n.made] = [uuid |-> n.uuid, k |-> n.made.k, x |-> n.made.x]
    <2>1. ASSUME NEW n \in named
          PROVE  n.made \in made /\ g[n.made] = [uuid |-> n.uuid, k |-> n.made.k, x |-> n.made.x]
      <3>1. n.made \in made
        BY DEF NamedWell
      <3>2. g[n.made] = Tagged(named, n.made)
        BY <3>1
      <3>3. g[n.made].uuid = n.uuid
        BY <1>3
      <3> QED
        BY <3>1, <3>2, <3>3 DEF Tagged
    <2> QED
      BY <2>1
  <1>6. RowsOf(named) = On(g, made)
    <2>1. ASSUME NEW r \in RowsOf(named) PROVE r \in On(g, made)
      BY <1>5 DEF RowsOf, On
    <2>2. ASSUME NEW r \in On(g, made) PROVE r \in RowsOf(named)
      <3>1. PICK m \in made : r = g[m]
        BY DEF On
      <3>2. PICK n \in named : n.made = m
        BY <1>2
      <3> QED
        BY <1>5, <3>1, <3>2 DEF RowsOf
    <2> QED
      BY <2>1, <2>2
  <1> QED
    BY <1>1, <1>2, <1>3, <1>4, <1>6

\* The table of an operator over the frames of its children: TablesCorrect of one place.
OriginsOf(frames, back, side, r) == {c \in frames[side] : <<r.uuid, c.uuid>> \in back[side]}
OriginFrames(op, frames, back, r) == [side \in Arity(op) |-> OriginsOf(frames, back, side, r)]
ExplainedBy(op, frames, back, rows, r) ==
    {s \in rows : \A side \in Arity(op) : OriginsOf(frames, back, side, s) \subseteq OriginsOf(frames, back, side, r)}
ContentsMade(op, frames) == {Contents(made) : made \in Makes(op, frames, FALSE)}

TableWell(op, frames, rows, back) == IsShadow(op) \/
    /\ Contents(rows) \in ContentsMade(op, frames) \/ (op.op = "drop_duplicates" /\ op.on = "all")
    /\ Arity(op) # {} => \A r \in rows :
          /\ \E side \in Arity(op) : OriginsOf(frames, back, side, r) # {}
          /\ Contents(ExplainedBy(op, frames, back, rows, r)) \in ContentsMade(op, OriginFrames(op, frames, back, r))

LEMMA TableIsWell ==
    ASSUME NEW op, NEW frames, NEW made, MadeWell(op, frames, made),
           NEW named, NamedWell(named, made), NEW rows, rows = RowsOf(named),
           NEW back, \A side \in Arity(op) : back[side] = Mapping(named, side)
    PROVE  /\ Identified(rows)
           /\ \A side \in Arity(op) : back[side] \subseteq Ids(rows) \X Ids(frames[side])
           /\ TableWell(op, frames, rows, back)
  <1>1. PICK g : g = [m \in made |-> Tagged(named, m)]
    OBVIOUS
  <1>2. /\ rows = On(g, made)
        /\ \A m \in made : g[m].k = m.k /\ g[m].x = m.x
        /\ \A m \in made : \E n \in named : n.made = m /\ n.uuid = g[m].uuid
        /\ \A m, s \in made : g[m].uuid = g[s].uuid => m = s
        /\ \A n \in named : g[n.made].uuid = n.uuid
    BY <1>1, TaggedRows
  <1>3. IsFiniteSet(made) /\ \A m \in made : TracedWell(op, frames, made, m)
    BY DEF MadeWell
  <1>4. Identified(rows)
    <2>1. IsFiniteSet(rows)
      BY <1>2, <1>3, OnFinite
    <2> QED
      BY <1>2, <2>1 DEF Identified, On
  <1>5. \A m \in made : g[m] \in rows
    BY <1>2 DEF On
  <1>6. ASSUME NEW side \in Arity(op) PROVE back[side] \subseteq Ids(rows) \X Ids(frames[side])
    <2>1. ASSUME NEW n \in named PROVE n.uuid \in Ids(rows) /\ n.made.from[side] \subseteq Ids(frames[side])
      <3>1. n.made \in made
        BY DEF NamedWell
      <3>2. g[n.made] \in rows /\ g[n.made].uuid = n.uuid
        BY <1>2, <1>5, <3>1
      <3> QED
        BY <1>3, <3>1, <3>2 DEF Ids, TracedWell
    <2>2. back[side] = Mapping(named, side)
      OBVIOUS
    <2> QED
      BY <2>1, <2>2 DEF Mapping
  <1>7. ASSUME NEW side \in Arity(op), NEW m \in made
        PROVE  OriginsOf(frames, back, side, g[m]) = Traced(frames[side], m.from[side])
    <2>1. PICK n \in named : n.made = m /\ n.uuid = g[m].uuid
      BY <1>2
    <2>2. ASSUME NEW u PROVE <<g[m].uuid, u>> \in back[side] <=> u \in m.from[side]
      <3>1. <<g[m].uuid, u>> \in back[side] <=> \E o \in named : \E v \in o.made.from[side] : <<g[m].uuid, u>> = <<o.uuid, v>>
        BY DEF Mapping
      <3>2. u \in m.from[side] => \E o \in named : \E v \in o.made.from[side] : <<g[m].uuid, u>> = <<o.uuid, v>>
        BY <2>1
      <3>3. ASSUME NEW o \in named, NEW v \in o.made.from[side], <<g[m].uuid, u>> = <<o.uuid, v>>
            PROVE  u \in m.from[side]
        <4>1. o.uuid = n.uuid /\ u = v
          BY <2>1, <3>3
        <4>2. o.made = m
          BY <2>1, <4>1 DEF NamedWell
        <4> QED
          BY <4>1, <4>2
      <3> QED
        BY <3>1, <3>2, <3>3
    <2> QED
      BY <2>2 DEF OriginsOf, Traced
  <1>8. ASSUME NEW side \in Arity(op), NEW m \in made, NEW s \in made
        PROVE  /\ m.from[side] # {} => Traced(frames[side], m.from[side]) # {}
               /\ Traced(frames[side], s.from[side]) \subseteq Traced(frames[side], m.from[side])
                     <=> s.from[side] \subseteq m.from[side]
    <2>1. ASSUME NEW q \in made, NEW u \in q.from[side] PROVE \E c \in frames[side] : c.uuid = u
      <3>1. u \in Ids(frames[side])
        BY <1>3 DEF TracedWell
      <3> QED
        BY <3>1 DEF Ids
    <2>2. m.from[side] # {} => Traced(frames[side], m.from[side]) # {}
      BY <2>1 DEF Traced
    <2>3. ASSUME Traced(frames[side], s.from[side]) \subseteq Traced(frames[side], m.from[side]), NEW u \in s.from[side]
          PROVE  u \in m.from[side]
      <3>1. PICK c \in frames[side] : c.uuid = u
        BY <2>1
      <3>2. c \in Traced(frames[side], s.from[side])
        BY <3>1 DEF Traced
      <3> QED
        BY <2>3, <3>1, <3>2 DEF Traced
    <2>4. s.from[side] \subseteq m.from[side] =>
              Traced(frames[side], s.from[side]) \subseteq Traced(frames[side], m.from[side])
      BY DEF Traced
    <2> QED
      BY <2>2, <2>3, <2>4
  <1>9. ASSUME NEW A, A \subseteq made PROVE Contents(On(g, A)) = Contents(A)
    <2>1. IsFiniteSet(A)
      BY <1>3, <1>9, FS_Subset
    <2>2. \A m \in A : g[m].k = m.k /\ g[m].x = m.x
      BY <1>2, <1>9
    <2>3. \A m, s \in A : g[m] = g[s] => m = s
      BY <1>2, <1>9
    <2> QED
      BY <2>1, <2>2, <2>3, ContentsSame
  <1>10. IsShadow(op) \/ Contents(rows) \in ContentsMade(op, frames) \/ (op.op = "drop_duplicates" /\ op.on = "all")
    <2>1. Contents(rows) = Contents(made)
      BY <1>2, <1>9
    <2> QED
      BY <2>1 DEF MadeWell, MadeByQuery, ContentsMade
  <1>11. ASSUME ~ IsShadow(op), Arity(op) # {}, NEW r \in rows
         PROVE  /\ \E side \in Arity(op) : OriginsOf(frames, back, side, r) # {}
                /\ Contents(ExplainedBy(op, frames, back, rows, r)) \in ContentsMade(op, OriginFrames(op, frames, back, r))
    <2>1. PICK m \in made : r = g[m]
      BY <1>2 DEF On
    <2>2. (\E side \in Arity(op) : m.from[side] # {}) /\ Alike(op, made, m) \in Makes(op, TracedFrames(op, frames, m), FALSE)
      BY <1>3, <1>11 DEF TracedWell
    <2>3. \E side \in Arity(op) : OriginsOf(frames, back, side, r) # {}
      BY <1>7, <1>8, <2>1, <2>2
    <2>4. OriginFrames(op, frames, back, r) = TracedFrames(op, frames, m)
      BY <1>7, <2>1 DEF OriginFrames, TracedFrames
    <2>5. ExplainedBy(op, frames, back, rows, r) = On(g, Alike(op, made, m))
      <3>1. ASSUME NEW s \in made
            PROVE  g[s] \in ExplainedBy(op, frames, back, rows, r) <=> s \in Alike(op, made, m)
        <4>1. \A side \in Arity(op) : OriginsOf(frames, back, side, g[s]) \subseteq OriginsOf(frames, back, side, r)
                                        <=> s.from[side] \subseteq m.from[side]
          BY <1>7, <1>8, <2>1
        <4> QED
          BY <1>5, <4>1 DEF ExplainedBy, Alike
      <3>2. \A q \in ExplainedBy(op, frames, back, rows, r) : \E s \in made : q = g[s]
        BY <1>2 DEF ExplainedBy, On
      <3>3. Alike(op, made, m) \subseteq made
        BY DEF Alike
      <3> QED
        BY <3>1, <3>2, <3>3 DEF On
    <2>6. Contents(ExplainedBy(op, frames, back, rows, r)) = Contents(Alike(op, made, m))
      <3>1. Alike(op, made, m) \subseteq made
        BY DEF Alike
      <3> QED
        BY <1>9, <2>5, <3>1
    <2> QED
      BY <2>2, <2>3, <2>4, <2>6 DEF ContentsMade
  <1> QED
    BY <1>4, <1>6, <1>10, <1>11 DEF TableWell

\* The ids: kept from the child, or the next numbers.
LEMMA NamedIsWell ==
    ASSUME NEW op, NEW frames, NEW made, MadeWell(op, frames, made), next \in Nat,
           KeepsIds(op) => Ids(frames[1]) \subseteq 1 .. next
    PROVE  /\ NamedWell(Named(op, made), made)
           /\ KeepsIds(op) => \A n \in Named(op, made) : n.uuid \in Ids(frames[1])
           /\ ~ KeepsIds(op) => /\ Cardinality(made) \in Nat
                                /\ \A n \in Named(op, made) : n.uuid \in next + 1 .. next + Cardinality(made)
  <1>1. PICK named : named = Named(op, made)
    OBVIOUS
  <1>2. IsFiniteSet(made) /\ Cardinality(made) \in Nat
    BY FS_CardinalityType DEF MadeWell
  <1>3. CASE KeepsIds(op)
    <2> DEFINE Id(m) == CHOOSE u \in m.from[1] : TRUE
    <2>1. named = {[uuid |-> Id(m), made |-> m] : m \in made}
      BY <1>1, <1>3, Zenon DEF Named
    <2>2. ASSUME NEW m \in made
          PROVE  Id(m) \in Ids(frames[1]) /\ m.from[1] = {Id(m)} /\ \A s \in made : s.from[1] = {Id(m)} => s = m
      <3>1. 1 \in Arity(op)
        <4>1. op.op \in OfOne
          BY <1>3 DEF KeepsIds, OfOne
        <4> QED
          BY <4>1, OneChild
      <3>2. m.from[1] \subseteq Ids(frames[1])
        BY <3>1 DEF MadeWell, TracedWell
      <3>3. PICK u : m.from[1] = {u} /\ \A s \in made : s.from[1] = {u} => s = m
        BY <1>3 DEF MadeWell, TracedWell
      <3>4. Id(m) = u
        BY <3>3
      <3> QED
        BY <3>2, <3>3, <3>4
    <2>3. \A n \in named : n.made \in made /\ n.uuid = Id(n.made)
      BY <2>1
    <2> HIDE DEF Id
    <2>4. ASSUME NEW m \in made PROVE \E n \in named : n.made = m
      <3>1. [uuid |-> Id(m), made |-> m] \in named
        BY <2>1
      <3> QED
        BY <3>1
    <2>5. ASSUME NEW n \in named, NEW o \in named PROVE n.uuid = o.uuid <=> n.made = o.made
      BY <2>2, <2>3
    <2>6. NamedWell(named, made)
      BY <2>3, <2>4, <2>5 DEF NamedWell
    <2>7. \A n \in named : n.uuid \in Ids(frames[1])
      BY <2>2, <2>3
    <2> QED
      BY <1>1, <1>3, <2>6, <2>7
  <1>4. CASE ~ KeepsIds(op)
    <2>1. PICK order : order = InOrder(made)
      OBVIOUS
    <2>2. Enumerates(order, made)
      BY <1>2, <2>1, OrderFacts
    <2>3. named = {[uuid |-> next + n, made |-> order[n]] : n \in DOMAIN order}
      BY <1>1, <1>4, <2>1, Zenon DEF Named
    <2>4. DOMAIN order = 1 .. Cardinality(made) /\ \A n \in 1 .. Cardinality(made) : order[n] \in made
      <3>1. order \in Seq(made) /\ Len(order) = Cardinality(made)
        BY <2>2 DEF Enumerates
      <3> QED
        BY <3>1
    <2>5. \A m \in made : \E n \in 1 .. Cardinality(made) : order[n] = m
      BY <2>2 DEF Enumerates
    <2>6. \A m, n \in 1 .. Cardinality(made) : order[m] = order[n] => m = n
      BY <2>2 DEF Enumerates
    <2>7. \A n \in named : \E i \in 1 .. Cardinality(made) : n.uuid = next + i /\ n.made = order[i]
      BY <2>3, <2>4
    <2>8. ASSUME NEW m \in made PROVE \E n \in named : n.made = m
      <3>1. PICK i \in 1 .. Cardinality(made) : order[i] = m
        BY <2>5
      <3>2. [uuid |-> next + i, made |-> order[i]] \in named
        BY <2>3, <2>4
      <3> QED
        BY <3>1, <3>2
    <2>9. ASSUME NEW n \in named, NEW o \in named PROVE n.uuid = o.uuid <=> n.made = o.made
      <3>1. PICK i \in 1 .. Cardinality(made) : n.uuid = next + i /\ n.made = order[i]
        BY <2>7
      <3>2. PICK j \in 1 .. Cardinality(made) : o.uuid = next + j /\ o.made = order[j]
        BY <2>7
      <3>3. next + i = next + j <=> i = j
        BY <1>2
      <3>4. order[i] = order[j] <=> i = j
        BY <2>6
      <3> QED
        BY <3>1, <3>2, <3>3, <3>4
    <2>10. \A n \in named : n.made \in made
      BY <2>4, <2>7
    <2>11. NamedWell(named, made)
      BY <2>8, <2>9, <2>10 DEF NamedWell
    <2>12. ASSUME NEW n \in named PROVE n.uuid \in next + 1 .. next + Cardinality(made)
      <3>1. PICK i \in 1 .. Cardinality(made) : n.uuid = next + i
        BY <2>7
      <3> QED
        BY <1>2, <3>1
    <2> QED
      BY <1>1, <1>2, <1>4, <2>11, <2>12
  <1> QED
    BY <1>3, <1>4

----------------------------------------------------------------------------
(* Places in the plan. *)

\* Is p at or below q?  Are neither?
Under(p, q) == Len(q) <= Len(p) /\ \A n \in 1 .. Len(q) : p[n] = q[n]
Apart(p, q) == ~ Under(p, q) /\ ~ Under(q, p)

Places == Seq({1, 2})

LEMMA ChildFacts ==
    ASSUME NEW p, p \in Places, NEW side, side \in {1, 2}, NEW q, q = Child(p, side)
    PROVE  /\ q \in Places /\ Len(p) \in Nat /\ Len(q) = Len(p) + 1
           /\ q[Len(p) + 1] = side /\ \A n \in 1 .. Len(p) : q[n] = p[n]
           /\ Front(q) = p /\ Last(q) = side /\ q # Root /\ IsStrictPrefix(p, q)
  <1>1. q = Append(p, side) /\ p \in Seq({1, 2}) /\ Len(p) \in Nat
    BY DEF Child, Places
  <1>2. q \in Seq({1, 2}) /\ Len(q) = Len(p) + 1 /\ q[Len(p) + 1] = side
    BY <1>1
  <1>3. \A n \in 1 .. Len(p) : q[n] = p[n]
    BY <1>1
  <1>4. Front(q) = p /\ SubSeq(q, 1, Len(p)) = p
    <2>1. SubSeq(q, 1, Len(p)) = p
      BY <1>1, <1>2, <1>3
    <2> QED
      BY <1>1, <1>2, <2>1 DEF Front
  <1>5. Last(q) = side /\ q # Root
    BY <1>1, <1>2 DEF Last, Root
  <1>6. IsStrictPrefix(p, q)
    <2>1. SubSeq(p, 1, Len(p)) = p /\ Len(p) <= Len(q)
      BY <1>1, <1>2
    <2>2. p # q
      BY <1>1, <1>2
    <2> QED
      BY <1>4, <2>1, <2>2, Zenon DEF IsStrictPrefix, IsPrefix
  <1> QED
    BY <1>1, <1>2, <1>3, <1>4, <1>5, <1>6 DEF Places

LEMMA ParentFacts ==
    ASSUME NEW q, q \in Places, q # Root
    PROVE  /\ Front(q) \in Places /\ Last(q) \in {1, 2} /\ q = Child(Front(q), Last(q))
           /\ IsStrictPrefix(Root, q)
  <1>1. q \in Seq({1, 2}) /\ Len(q) \in Nat /\ Len(q) # 0
    BY DEF Places, Root
  <1>2. PICK f : f = Front(q)
    OBVIOUS
  <1>3. f \in Seq({1, 2}) /\ Len(f) = Len(q) - 1 /\ \A n \in 1 .. Len(q) - 1 : f[n] = q[n]
    <2>1. PICK k : k = Len(q) - 1
      OBVIOUS
    <2>2. k \in Nat /\ f = SubSeq(q, 1, k) /\ \A n \in 1 .. k : q[n] \in {1, 2}
      BY <1>1, <1>2, <2>1 DEF Front
    <2>3. /\ f \in Seq({1, 2}) /\ Len(f) = (IF 1 <= k THEN k - 1 + 1 ELSE 0)
          /\ \A n \in 1 .. k - 1 + 1 : f[n] = q[1 + n - 1]
      BY <2>2, SubSeqProperties
    <2>4. Len(f) = k
      BY <2>2, <2>3
    <2>5. ASSUME NEW n \in 1 .. k PROVE f[n] = q[n]
      <3>1. n \in 1 .. k - 1 + 1 /\ 1 + n - 1 = n
        BY <2>2
      <3> QED
        BY <2>3, <3>1
    <2> QED
      BY <2>1, <2>3, <2>4, <2>5
  <1>4. Last(q) \in {1, 2} /\ Last(q) = q[Len(q)]
    BY <1>1 DEF Last
  <1>5. q = Append(f, Last(q))
    <2>1. PICK c : c = Append(f, Last(q))
      OBVIOUS
    <2>2. c \in Seq({1, 2}) /\ Len(c) = Len(q) /\ c[Len(q)] = Last(q)
      BY <1>1, <1>3, <1>4, <2>1
    <2>3. \A n \in 1 .. Len(q) - 1 : c[n] = f[n]
      BY <1>1, <1>3, <1>4, <2>1
    <2>4. \A n \in 1 .. Len(q) : c[n] = q[n]
      BY <1>1, <1>3, <1>4, <2>2, <2>3
    <2> QED
      BY <1>1, <2>1, <2>2, <2>4
  <1>6. IsStrictPrefix(Root, q)
    <2>1. Len(Root) = 0 /\ SubSeq(Root, 1, 0) = <<>> /\ SubSeq(q, 1, 0) = <<>>
      BY <1>1 DEF Root
    <2> QED
      BY <1>1, <2>1 DEF IsStrictPrefix, IsPrefix
  <1> QED
    BY <1>2, <1>3, <1>4, <1>5, <1>6 DEF Places, Child

LEMMA SiblingsApart ==
    ASSUME NEW p, p \in Places
    PROVE  Apart(Child(p, 1), Child(p, 2))
  <1>1. PICK l, r : l = Child(p, 1) /\ r = Child(p, 2)
    OBVIOUS
  <1>2. Len(p) \in Nat /\ Len(l) = Len(p) + 1 /\ l[Len(p) + 1] = 1
    BY <1>1, ChildFacts
  <1>3. Len(r) = Len(p) + 1 /\ r[Len(p) + 1] = 2
    BY <1>1, ChildFacts
  <1>4. Len(p) + 1 \in 1 .. Len(p) + 1
    BY <1>2
  <1> QED
    BY <1>1, <1>2, <1>3, <1>4 DEF Apart, Under

LEMMA ChildApart ==
    ASSUME NEW p, p \in Places, NEW q, q \in Places, NEW side, side \in {1, 2}, Apart(p, q)
    PROVE  Apart(Child(p, side), q)
  <1>1. PICK c : c = Child(p, side)
    OBVIOUS
  <1>2. Len(p) \in Nat /\ Len(q) \in Nat /\ Len(c) = Len(p) + 1 /\ \A n \in 1 .. Len(p) : c[n] = p[n]
    BY <1>1, ChildFacts DEF Places
  <1>3. ASSUME Under(c, q) PROVE FALSE
    <2>1. CASE Len(q) = Len(p) + 1
      <3>1. Under(q, p)
        <4>1. \A n \in 1 .. Len(p) : n \in 1 .. Len(q)
          BY <1>2, <2>1
        <4> QED
          BY <1>2, <1>3, <2>1, <4>1 DEF Under
      <3> QED
        BY <3>1 DEF Apart
    <2>2. CASE Len(q) # Len(p) + 1
      <3>1. Len(q) <= Len(p)
        BY <1>2, <1>3, <2>2 DEF Under
      <3>2. \A n \in 1 .. Len(q) : n \in 1 .. Len(p)
        BY <1>2, <3>1
      <3>3. Under(p, q)
        BY <1>2, <1>3, <3>1, <3>2 DEF Under
      <3> QED
        BY <3>3 DEF Apart
    <2> QED
      BY <2>1, <2>2
  <1>4. ASSUME Under(q, c) PROVE FALSE
    <2>1. Len(p) <= Len(q) /\ \A n \in 1 .. Len(p) : n \in 1 .. Len(c)
      BY <1>2, <1>4 DEF Under
    <2>2. Under(q, p)
      BY <1>2, <1>4, <2>1 DEF Under
    <2> QED
      BY <2>2 DEF Apart
  <1> QED
    BY <1>1, <1>3, <1>4 DEF Apart

LEMMA ApartBothWays == \A p, q : Apart(p, q) => Apart(q, p)
  BY DEF Apart

\* Nothing is apart from itself.
LEMMA NotApartFromItself == ASSUME NEW p, p \in Places PROVE ~ Apart(p, p)
  BY DEF Apart, Under, Places

----------------------------------------------------------------------------
(* The inductive invariant. *)

FramesIn(pl, nd, p) == [side \in SidesIn(pl, p) |-> nd[Child(p, side)].rows]

\* An operator that is built: its children are, its rows have ids given out and are told
\* apart by them, each mapping leads to rows of the child, its table is well, and its
\* parent is set once that is built.
NodeWell(pl, nd, nx, p) ==
    /\ DOMAIN nd[p] = {"rows", "back", "parent"}
    /\ pl[p].op # "sql"
    /\ \A side \in SidesIn(pl, p) : Child(p, side) \in DOMAIN nd
    /\ Identified(nd[p].rows) /\ Ids(nd[p].rows) \subseteq 1 .. nx
    /\ \A side \in SidesIn(pl, p) :
          nd[p].back[side] \subseteq Ids(nd[p].rows) \X Ids(nd[Child(p, side)].rows)
    /\ TableWell(pl[p], FramesIn(pl, nd, p), nd[p].rows, nd[p].back)
    /\ nd[p].parent = IF p # Root /\ Front(p) \in DOMAIN nd THEN Front(p) ELSE None

\* Lists stay lists on the way from where they are made to where they are exploded.
ListsHeld(pl, nd) ==
    \A places \in SUBSET DOMAIN pl :
        HoldLists(pl, places) => \A p \in places \cap DOMAIN nd : \A r \in nd[p].rows : IsList(r.x)

\* Rows share an id only if one is made of the other.
IdsApart(nd) == \A p, q \in DOMAIN nd : Apart(p, q) => Ids(nd[p].rows) \cap Ids(nd[q].rows) = {}

TreeWell(pl, nd, nx) ==
    /\ DOMAIN nd \subseteq DOMAIN pl /\ nx \in Nat
    /\ \A p \in DOMAIN nd : NodeWell(pl, nd, nx, p)
    /\ ListsHeld(pl, nd)
    /\ IdsApart(nd)

\* The caller knows where it is unless a call backwards has failed, and the last answer
\* was of rows of that operator.
CursorWell ==
    /\ at \in DOMAIN plan /\ known \in DOMAIN plan
    /\ astray \in BOOLEAN /\ calls \in 0 .. MaxCalls
    /\ ~ astray => at = known
    /\ last # None => phase = "ready" /\ last.rows \subseteq nodes[known].rows

Inv ==
    /\ plan \in Plans
    /\ phase \in {"building", "failed", "ready"} /\ (phase = "ready" => DOMAIN nodes = DOMAIN plan)
    /\ TreeWell(plan, nodes, next)
    /\ CursorWell
    /\ TracesCorrect

LEMMA PlansFacts ==
    ASSUME NEW pl \in Plans
    PROVE  /\ MaxCalls \in Nat /\ Root \in DOMAIN pl /\ DOMAIN pl \subseteq Places
           /\ \A p \in DOMAIN pl :
                 /\ p # Root => Front(p) \in DOMAIN pl
                 /\ SidesIn(pl, p) \subseteq {1, 2}
                 /\ \A side \in {1, 2} : side \in SidesIn(pl, p) <=> Child(p, side) \in DOMAIN pl
                 /\ pl[p].op # "sql" => SidesIn(pl, p) = Arity(pl[p])
  <1>1. WellFormed(pl)
    BY LineageAssumption
  <1>2. DOMAIN pl \subseteq Places /\ Root \in DOMAIN pl /\ MaxCalls \in Nat
    BY <1>1, LineageAssumption DEF WellFormed, Places, Left, Right
  <1>3. \A p \in DOMAIN pl : p # Root => Front(p) \in DOMAIN pl
    BY <1>1 DEF WellFormed
  <1>4. \A p \in DOMAIN pl : pl[p].op # "sql" => SidesIn(pl, p) = Arity(pl[p])
    BY <1>1 DEF WellFormed
  <1>5. \A p : SidesIn(pl, p) \subseteq {1, 2}
    BY DEF SidesIn, Left, Right
  <1>6. \A p : \A side \in {1, 2} : side \in SidesIn(pl, p) <=> Child(p, side) \in DOMAIN pl
    BY DEF SidesIn, Left, Right
  <1> QED
    BY <1>2, <1>3, <1>4, <1>5, <1>6

\* What the operator that is built next makes of the rows of its children.
LEMMA BuiltWell ==
    ASSUME NEW pl \in Plans, NEW nd, next \in Nat, TreeWell(pl, nd, next), NEW p \in DOMAIN pl,
           pl[p].op # "sql", pl[p].op = "explode" => pl[p].of # "expression",
           \A side \in SidesIn(pl, p) : Child(p, side) \in DOMAIN nd,
           NEW made, made \in Makes(pl[p], FramesIn(pl, nd, p), TRUE)
    PROVE  MadeWell(pl[p], FramesIn(pl, nd, p), made)
  <1>1. PICK op, frames : op = pl[p] /\ frames = FramesIn(pl, nd, p)
    OBVIOUS
  <1>2. WellFormed(pl)
    BY LineageAssumption
  <1>3. /\ op.op \in OfOne \cup OfTwo \cup {"source"}
        /\ op.op = "source" => IsFiniteSet(DOMAIN op.data)
        /\ op.op = "limit" => op.n \in Nat
        /\ op.op = "drop_duplicates" => op.on \in {"key", "all"}
        /\ op.op = "explode" => op.of \in {"column", "shadow"}
        /\ SidesIn(pl, p) = Arity(op)
    BY <1>1, <1>2 DEF WellFormed
  <1>4. \A side \in Arity(op) : frames[side] = nd[Child(p, side)].rows /\ Child(p, side) \in DOMAIN nd
    BY <1>1, <1>3 DEF FramesIn
  <1>5. \A side \in Arity(op) : Identified(frames[side])
    BY <1>4 DEF TreeWell, NodeWell
  <1>6. ASSUME op.op = "explode" PROVE \A r \in frames[1] : IsList(r.x)
    <2>1. PICK places \in SUBSET DOMAIN pl :
             /\ HoldLists(pl, places)
             /\ \A q \in DOMAIN pl :
                   pl[q].op = "explode" /\ pl[q].of # "expression" => Child(q, Left) \in places
      BY <1>2 DEF WellFormed
    <2>2. 1 \in Arity(op) /\ Child(p, 1) \in places
      BY <1>1, <1>6, <2>1, OneChild DEF OfOne, Left
    <2>3. Child(p, 1) \in places \cap DOMAIN nd /\ frames[1] = nd[Child(p, 1)].rows
      BY <1>4, <2>2
    <2> QED
      BY <2>1, <2>3 DEF TreeWell, ListsHeld
  <1>7. MadeWell(op, frames, made)
    BY <1>1, <1>3, <1>5, <1>6, AllMade
  <1> QED
    BY <1>1, <1>7

\* The tree with one operator more.
Grown(pl, nd, p, named, nd1) ==
    /\ DOMAIN nd1 = DOMAIN nd \cup {p}
    /\ nd1[p] = [rows |-> RowsOf(named), back |-> [side \in SidesIn(pl, p) |-> Mapping(named, side)],
                 parent |-> None]
    /\ \A q \in DOMAIN nd : nd1[q] = IF \E side \in SidesIn(pl, p) : q = Child(p, side)
                                      THEN [nd[q] EXCEPT !.parent = p] ELSE nd[q]

LEMMA TreeGrows ==
    ASSUME NEW pl \in Plans, NEW nd, next \in Nat, TreeWell(pl, nd, next), NEW p \in DOMAIN pl, p \notin DOMAIN nd,
           pl[p].op # "sql", pl[p].op = "explode" => pl[p].of # "expression",
           \A side \in SidesIn(pl, p) : Child(p, side) \in DOMAIN nd,
           NEW made, made \in Makes(pl[p], FramesIn(pl, nd, p), TRUE),
           NEW named, named = Named(pl[p], made),
           NEW nd1, Grown(pl, nd, p, named, nd1),
           NEW nx1, nx1 = IF KeepsIds(pl[p]) THEN next ELSE next + Cardinality(made)
    PROVE  TreeWell(pl, nd1, nx1)
  <1>0. DOMAIN nd1 = DOMAIN nd \cup {p}
    BY DEF Grown
  <1>1. PICK op, frames, rows, back :
           /\ op = pl[p] /\ frames = FramesIn(pl, nd, p)
           /\ rows = RowsOf(named) /\ back = [side \in SidesIn(pl, p) |-> Mapping(named, side)]
    OBVIOUS
  <1>2. MadeWell(op, frames, made)
    BY <1>1, BuiltWell
  <1>3. SidesIn(pl, p) = Arity(op)
    BY <1>1, PlansFacts
  <1>4. \A side \in Arity(op) : frames[side] = nd[Child(p, side)].rows /\ Child(p, side) \in DOMAIN nd
    BY <1>1, <1>3 DEF FramesIn
  <1>5. KeepsIds(op) => /\ 1 \in Arity(op) /\ Child(p, 1) \in DOMAIN nd
                        /\ Ids(frames[1]) \subseteq 1 .. next
    <2>1. KeepsIds(op) => op.op \in OfOne
      BY DEF KeepsIds, OfOne
    <2>2. KeepsIds(op) => 1 \in Arity(op)
      BY <2>1, OneChild
    <2>3. \A q \in DOMAIN nd : Ids(nd[q].rows) \subseteq 1 .. next
      BY DEF TreeWell, NodeWell
    <2> QED
      BY <1>4, <2>2, <2>3
  <1>6. /\ NamedWell(named, made)
        /\ KeepsIds(op) => \A n \in named : n.uuid \in Ids(frames[1])
        /\ ~ KeepsIds(op) => /\ Cardinality(made) \in Nat
                             /\ \A n \in named : n.uuid \in next + 1 .. next + Cardinality(made)
    BY <1>1, <1>2, <1>5, NamedIsWell
  <1>7. /\ Identified(rows)
        /\ \A side \in Arity(op) : back[side] \subseteq Ids(rows) \X Ids(frames[side])
        /\ TableWell(op, frames, rows, back)
    <2>1. \A side \in Arity(op) : back[side] = Mapping(named, side)
      BY <1>1, <1>3
    <2> QED
      BY <1>1, <1>2, <1>6, <2>1, TableIsWell
  <1>8. \A id \in Ids(rows) : \E n \in named : id = n.uuid
    BY <1>1 DEF Ids, RowsOf
  <1>9. nx1 \in Nat /\ next <= nx1
    BY <1>1, <1>6
  <1>10. Ids(rows) \subseteq 1 .. nx1
    <2>1. CASE KeepsIds(op)
      BY <1>1, <1>5, <1>6, <1>8, <2>1
    <2>2. CASE ~ KeepsIds(op)
      <3>1. \A id \in next + 1 .. next + Cardinality(made) : id \in 1 .. nx1
        BY <1>1, <1>6, <2>2
      <3> QED
        BY <1>6, <1>8, <2>2, <3>1
    <2> QED
      BY <2>1, <2>2
  <1>11. nd1[p].rows = rows /\ nd1[p].back = back /\ nd1[p].parent = None /\ DOMAIN nd1[p] = {"rows", "back", "parent"}
    BY <1>1 DEF Grown
  <1>12. ASSUME NEW q \in DOMAIN nd
         PROVE  /\ NodeWell(pl, nd, next, q) /\ q # p
                /\ DOMAIN nd1[q] = {"rows", "back", "parent"} /\ nd1[q].rows = nd[q].rows /\ nd1[q].back = nd[q].back
                /\ nd1[q].parent = IF \E side \in SidesIn(pl, p) : q = Child(p, side) THEN p ELSE nd[q].parent
    <2>1. NodeWell(pl, nd, next, q) /\ q # p
      BY DEF TreeWell
    <2>2. DOMAIN nd[q] = {"rows", "back", "parent"}
      BY <2>1 DEF NodeWell
    <2> QED
      BY <2>1, <2>2 DEF Grown
  <1>13. DOMAIN pl \subseteq Places /\ DOMAIN nd \subseteq DOMAIN pl
    BY PlansFacts DEF TreeWell
  <1>14. ASSUME NEW q \in DOMAIN nd1 PROVE q \in DOMAIN pl /\ (q = p \/ q \in DOMAIN nd)
    BY <1>0, <1>13
  <1>15. \A q \in DOMAIN nd : \A side \in SidesIn(pl, q) : Child(q, side) \in DOMAIN nd
    BY <1>12 DEF NodeWell
  \* p is not below anything built, nor is its parent built.
  <1>16. p # Root => Front(p) \notin DOMAIN nd
    <2>1. SUFFICES ASSUME p # Root, Front(p) \in DOMAIN nd PROVE FALSE
      OBVIOUS
    <2>2. Last(p) \in {1, 2} /\ p = Child(Front(p), Last(p))
      BY <1>13, <2>1, ParentFacts
    <2>3. Last(p) \in SidesIn(pl, Front(p))
      BY <1>13, <2>1, <2>2, PlansFacts
    <2> QED
      BY <1>15, <2>1, <2>2, <2>3
  <1>17. ASSUME NEW q \in DOMAIN nd, q # Root
         PROVE  Front(q) = p <=> \E side \in SidesIn(pl, p) : q = Child(p, side)
    <2>1. q \in Places /\ q \in DOMAIN pl
      BY <1>13
    <2>2. Last(q) \in {1, 2} /\ q = Child(Front(q), Last(q))
      BY <1>17, <2>1, ParentFacts
    <2>3. Front(q) = p => Last(q) \in SidesIn(pl, p)
      BY <2>1, <2>2, PlansFacts
    <2>4. ASSUME NEW side \in SidesIn(pl, p), q = Child(p, side) PROVE Front(q) = p
      <3>1. side \in {1, 2} /\ p \in Places
        BY <1>13, PlansFacts
      <3> QED
        BY <2>4, <3>1, ChildFacts
    <2> QED
      BY <2>2, <2>3, <2>4
  <1>18. \A side \in SidesIn(pl, p) : Child(p, side) # Root
    <2>1. \A side \in SidesIn(pl, p) : side \in {1, 2} /\ p \in Places
      BY <1>13, PlansFacts
    <2> QED
      BY <2>1, ChildFacts
  <1>19. NodeWell(pl, nd1, nx1, p)
    <2>1. \A side \in SidesIn(pl, p) : Child(p, side) \in DOMAIN nd1 /\ nd1[Child(p, side)].rows = nd[Child(p, side)].rows
      BY <1>0, <1>12
    <2>2. FramesIn(pl, nd1, p) = frames
      BY <1>1, <2>1 DEF FramesIn
    <2>3. p # Root => Front(p) \notin DOMAIN nd1
      <3>1. p # Root => Front(p) # p
        <4>1. p # Root => p = Child(Front(p), Last(p)) /\ Front(p) \in Places /\ Last(p) \in {1, 2}
          BY <1>13, ParentFacts
        <4>2. ASSUME p # Root PROVE Len(Front(p)) \in Nat /\ Len(p) = Len(Front(p)) + 1
          BY <4>1, <4>2, ChildFacts
        <4> QED
          BY <4>2
      <3> QED
        BY <1>0, <1>16, <3>1
    <2>4. \A side \in SidesIn(pl, p) : nd1[p].back[side] \subseteq Ids(nd1[p].rows) \X Ids(nd1[Child(p, side)].rows)
      BY <1>3, <1>4, <1>7, <1>11, <2>1
    <2> QED
      BY <1>1, <1>7, <1>10, <1>11, <2>1, <2>2, <2>3, <2>4 DEF NodeWell
  <1>20. ASSUME NEW q \in DOMAIN nd PROVE NodeWell(pl, nd1, nx1, q)
    <2>1. /\ DOMAIN nd1[q] = {"rows", "back", "parent"} /\ pl[q].op # "sql"
          /\ \A side \in SidesIn(pl, q) : Child(q, side) \in DOMAIN nd1
      BY <1>0, <1>12, <1>15 DEF NodeWell
    <2>2. \A side \in SidesIn(pl, q) : nd1[Child(q, side)].rows = nd[Child(q, side)].rows
      BY <1>12, <1>15
    <2>3. nd1[q].rows = nd[q].rows /\ nd1[q].back = nd[q].back
      BY <1>12
    <2>4. Identified(nd1[q].rows) /\ Ids(nd1[q].rows) \subseteq 1 .. nx1
      <3>1. Identified(nd[q].rows) /\ Ids(nd[q].rows) \subseteq 1 .. next
        BY <1>12 DEF NodeWell
      <3>2. \A id \in 1 .. next : id \in 1 .. nx1
        BY <1>9
      <3> QED
        BY <2>3, <3>1, <3>2
    <2>5. \A side \in SidesIn(pl, q) : nd1[q].back[side] \subseteq Ids(nd1[q].rows) \X Ids(nd1[Child(q, side)].rows)
      <3>1. \A side \in SidesIn(pl, q) : nd[q].back[side] \subseteq Ids(nd[q].rows) \X Ids(nd[Child(q, side)].rows)
        BY <1>12 DEF NodeWell
      <3> QED
        BY <2>2, <2>3, <3>1
    <2>6. TableWell(pl[q], FramesIn(pl, nd1, q), nd1[q].rows, nd1[q].back)
      <3>1. FramesIn(pl, nd1, q) = FramesIn(pl, nd, q)
        BY <2>2 DEF FramesIn
      <3>2. TableWell(pl[q], FramesIn(pl, nd, q), nd[q].rows, nd[q].back)
        BY <1>12 DEF NodeWell
      <3> QED
        BY <2>3, <3>1, <3>2
    <2>7. nd1[q].parent = IF q # Root /\ Front(q) \in DOMAIN nd1 THEN Front(q) ELSE None
      <3>1. nd[q].parent = IF q # Root /\ Front(q) \in DOMAIN nd THEN Front(q) ELSE None
        BY <1>12 DEF NodeWell
      <3>2. CASE \E side \in SidesIn(pl, p) : q = Child(p, side)
        <4>1. q # Root /\ Front(q) = p
          BY <1>17, <1>18, <3>2
        <4> QED
          BY <1>0, <1>12, <3>2, <4>1
      <3>3. CASE ~ \E side \in SidesIn(pl, p) : q = Child(p, side)
        <4>1. q # Root => Front(q) # p
          BY <1>17, <3>3
        <4> QED
          BY <1>0, <1>12, <3>1, <3>3, <4>1
      <3> QED
        BY <3>2, <3>3
    <2> QED
      BY <2>1, <2>4, <2>5, <2>6, <2>7 DEF NodeWell
  <1>21. ListsHeld(pl, nd1)
    <2>1. SUFFICES ASSUME NEW places \in SUBSET DOMAIN pl, HoldLists(pl, places), NEW q \in places \cap DOMAIN nd1,
                          NEW r \in nd1[q].rows
                   PROVE  IsList(r.x)
      BY DEF ListsHeld
    <2>2. CASE q \in DOMAIN nd
      BY <1>12, <2>1, <2>2 DEF TreeWell, ListsHeld
    <2>3. CASE q = p
      <3>1. PICK m \in made : r.x = m.x
        <4>1. PICK n \in named : r.x = n.made.x
          BY <1>1, <1>11, <2>3 DEF RowsOf
        <4> QED
          BY <1>6, <4>1 DEF NamedWell
      <3>2. Carried(op, frames, m)
        BY <1>2 DEF MadeWell, TracedWell
      <3>3. \A side \in Arity(op) : Child(p, side) \in places => \A s \in frames[side] : IsList(s.x)
        BY <1>4, <2>1 DEF TreeWell, ListsHeld
      <3>4. CASE op.op = "source"
        <4>1. \A n \in DOMAIN op.data : IsList(op.data[n].x)
          BY <1>1, <2>1, <2>3, <3>4 DEF HoldLists
        <4> QED
          BY <3>1, <3>2, <3>4, <4>1 DEF Carried
      <3>5. CASE op.op \in {"project", "aggregate", "join"}
        BY <3>1, <3>2, <3>5 DEF Carried
      <3>6. CASE op.op = "explode"
        BY <1>1, <2>1, <2>3, <3>6 DEF HoldLists
      <3>7. CASE op.op \notin {"source", "project", "aggregate", "join", "explode"}
        <4>1. \A side \in SidesIn(pl, p) : Child(p, side) \in places
          BY <1>1, <2>1, <2>3, <3>7 DEF HoldLists
        <4>2. PICK side \in Arity(op) : \E s \in frames[side] : m.x = s.x
          BY <3>2, <3>7 DEF Carried
        <4> QED
          BY <1>3, <3>1, <3>3, <4>1, <4>2
      <3> QED
        BY <3>4, <3>5, <3>6, <3>7
    <2> QED
      BY <1>0, <2>1, <2>2, <2>3
  <1>22. ASSUME NEW q \in DOMAIN nd, Apart(p, q) PROVE Ids(rows) \cap Ids(nd[q].rows) = {}
    <2>1. Ids(nd[q].rows) \subseteq 1 .. next
      BY <1>12 DEF NodeWell
    <2>2. CASE KeepsIds(op)
      <3>1. Child(p, 1) \in DOMAIN nd /\ Ids(rows) \subseteq Ids(nd[Child(p, 1)].rows)
        BY <1>4, <1>5, <1>6, <1>8, <2>2
      <3>2. Apart(Child(p, 1), q)
        BY <1>13, <1>22, ChildApart
      <3>3. Ids(nd[Child(p, 1)].rows) \cap Ids(nd[q].rows) = {}
        BY <3>1, <3>2 DEF TreeWell, IdsApart
      <3> QED
        BY <3>1, <3>3
    <2>3. CASE ~ KeepsIds(op)
      <3>1. \A id \in next + 1 .. next + Cardinality(made) : id \notin 1 .. next
        BY <1>6, <2>3
      <3> QED
        BY <1>6, <1>8, <2>1, <2>3, <3>1
    <2> QED
      BY <2>2, <2>3
  <1>23. IdsApart(nd1)
    <2>1. SUFFICES ASSUME NEW q \in DOMAIN nd1, NEW r \in DOMAIN nd1, Apart(q, r)
                   PROVE  Ids(nd1[q].rows) \cap Ids(nd1[r].rows) = {}
      BY DEF IdsApart
    <2>2. CASE q \in DOMAIN nd /\ r \in DOMAIN nd
      BY <1>12, <2>1, <2>2 DEF TreeWell, IdsApart
    <2>3. CASE q = p /\ r \in DOMAIN nd
      BY <1>11, <1>12, <1>22, <2>1, <2>3
    <2>4. CASE q \in DOMAIN nd /\ r = p
      BY <1>11, <1>12, <1>22, <2>1, <2>4, ApartBothWays
    <2>5. CASE q = p /\ r = p
      BY <1>13, <2>1, <2>5, NotApartFromItself
    <2> QED
      BY <1>0, <2>1, <2>2, <2>3, <2>4, <2>5
  <1>24. \A q \in DOMAIN nd1 : NodeWell(pl, nd1, nx1, q)
    BY <1>14, <1>19, <1>20
  <1> QED
    BY <1>9, <1>14, <1>21, <1>23, <1>24 DEF TreeWell

----------------------------------------------------------------------------
(* Every step keeps the invariant. *)

LEMMA InitInv == Init => Inv
  <1>1. SUFFICES ASSUME Init PROVE Inv
    OBVIOUS
  <1>2. DOMAIN nodes = {}
    BY <1>1 DEF Init
  <1>3. TreeWell(plan, nodes, next)
    BY <1>1, <1>2 DEF Init, TreeWell, ListsHeld, IdsApart
  <1>4. CursorWell
    <2>1. MaxCalls \in Nat /\ Root \in DOMAIN plan
      BY <1>1, PlansFacts DEF Init
    <2>2. at = Root /\ known = Root /\ last = None /\ calls = 0 /\ astray = FALSE
      BY <1>1 DEF Init
    <2>3. calls \in 0 .. MaxCalls
      BY <2>1, <2>2
    <2> QED
      BY <2>1, <2>2, <2>3 DEF CursorWell
  <1>5. TracesCorrect
    BY <1>1 DEF Init, TracesCorrect
  <1> QED
    BY <1>1, <1>2, <1>3, <1>4, <1>5 DEF Init, Inv

\* While the lineage is built there is no answer.
LEMMA NoAnswerYet ==
    ASSUME Inv, phase # "ready"
    PROVE  last = None
  BY DEF Inv, CursorWell

LEMMA BuildInv ==
    ASSUME Inv, NEW p \in DOMAIN plan, Build(p)
    PROVE  Inv'
  <1>1. /\ plan \in Plans /\ TreeWell(plan, nodes, next) /\ CursorWell /\ DOMAIN nodes \subseteq DOMAIN plan
        /\ next \in Nat /\ DOMAIN plan \subseteq Places
    BY PlansFacts DEF Inv, TreeWell
  <1>2. /\ phase = "building" /\ p \in DOMAIN plan \ DOMAIN nodes
        /\ plan[p].op # "sql" /\ (plan[p].op = "explode" => plan[p].of # "expression")
        /\ \A q \in DOMAIN plan : Before(q, p) => q \in DOMAIN nodes
    BY DEF Build, Turn
  <1>3. \A side \in SidesIn(plan, p) : Child(p, side) \in DOMAIN nodes
    <2>1. ASSUME NEW side \in SidesIn(plan, p) PROVE Child(p, side) \in DOMAIN nodes
      <3>1. side \in {1, 2} /\ Child(p, side) \in DOMAIN plan
        BY <1>1, PlansFacts
      <3>2. IsStrictPrefix(p, Child(p, side))
        BY <1>1, <3>1, ChildFacts
      <3>3. Before(Child(p, side), p)
        BY <3>2, Zenon DEF Before
      <3> QED
        BY <1>2, <3>1, <3>3
    <2> QED
      BY <2>1
  <1>4. Frames(p) = FramesIn(plan, nodes, p)
    BY DEF Frames, FramesIn, Sides
  <1>5. PICK made \in Makes(plan[p], Frames(p), TRUE) :
          LET named == Named(plan[p], made)
              node == [rows |-> RowsOf(named),
                       back |-> [side \in Sides(p) |-> Mapping(named, side)],
                       parent |-> None]
          IN  /\ nodes' = [q \in DOMAIN nodes \cup {p} |->
                              IF q = p THEN node
                              ELSE IF \E side \in Sides(p) : q = Child(p, side)
                                   THEN [nodes[q] EXCEPT !.parent = p]
                                   ELSE nodes[q]]
              /\ next' = IF KeepsIds(plan[p]) THEN next ELSE next + Cardinality(made)
    BY Zenon DEF Build
  <1>6. PICK named : named = Named(plan[p], made)
    OBVIOUS
  <1>7. PICK nd1, nx1 : nd1 = nodes' /\ nx1 = next'
    OBVIOUS
  <1>8. TreeWell(plan, nd1, nx1)
    <2>1. /\ DOMAIN nd1 = DOMAIN nodes \cup {p}
          /\ nd1[p] = [rows |-> RowsOf(named), back |-> [side \in SidesIn(plan, p) |-> Mapping(named, side)],
                       parent |-> None]
      BY <1>5, <1>6, <1>7 DEF Sides
    <2>2. \A q \in DOMAIN nodes : nd1[q] = IF \E side \in SidesIn(plan, p) : q = Child(p, side)
                                           THEN [nodes[q] EXCEPT !.parent = p] ELSE nodes[q]
      <3>1. \A q \in DOMAIN nodes : q # p
        BY <1>2
      <3>2. nd1 = [q \in DOMAIN nodes \cup {p} |->
                      IF q = p
                      THEN [rows |-> RowsOf(named), back |-> [side \in SidesIn(plan, p) |-> Mapping(named, side)],
                            parent |-> None]
                      ELSE IF \E side \in SidesIn(plan, p) : q = Child(p, side)
                           THEN [nodes[q] EXCEPT !.parent = p]
                           ELSE nodes[q]]
        BY <1>5, <1>6, <1>7, Zenon DEF Sides
      <3> QED
        BY <3>1, <3>2
    <2>3. nx1 = IF KeepsIds(plan[p]) THEN next ELSE next + Cardinality(made)
      BY <1>5, <1>7
    <2>4. Grown(plan, nodes, p, named, nd1)
      BY <2>1, <2>2 DEF Grown
    <2>5. made \in Makes(plan[p], FramesIn(plan, nodes, p), TRUE) /\ p \notin DOMAIN nodes
      BY <1>2, <1>4
    <2>6. /\ next \in Nat /\ TreeWell(plan, nodes, next)
          /\ plan[p].op # "sql" /\ (plan[p].op = "explode" => plan[p].of # "expression")
      BY <1>1, <1>2
    <2> QED
      BY <1>1, <1>3, <1>6, <2>3, <2>4, <2>5, <2>6, TreeGrows
  <1>9. plan' = plan /\ UNCHANGED cursorVars /\ phase' = IF p = Root THEN "ready" ELSE phase
    BY Zenon DEF Build
  <1>10. last = None
    BY <1>2, NoAnswerYet
  <1>11. phase' = "ready" => DOMAIN nodes' = DOMAIN plan'
    <2>1. SUFFICES ASSUME phase' = "ready", NEW q \in DOMAIN plan, q # p PROVE q \in DOMAIN nodes
      BY <1>1, <1>5, <1>9
    <2>2. p = Root
      BY <1>2, <1>9, <2>1
    <2>3. Before(q, p)
      <3>1. IsStrictPrefix(p, q)
        BY <1>1, <2>1, <2>2, ParentFacts
      <3> QED
        BY <3>1, Zenon DEF Before
    <2> QED
      BY <1>2, <2>3
  <1>12. CursorWell'
    BY <1>1, <1>9, <1>10 DEF CursorWell, cursorVars
  <1>13. TracesCorrect'
    BY <1>9, <1>10 DEF TracesCorrect, cursorVars
  <1>14. TreeWell(plan, nodes, next)'
    BY <1>7, <1>8, <1>9
  <1>15. plan' \in Plans /\ phase' \in {"building", "failed", "ready"}
    BY <1>1, <1>2, <1>9
  <1> QED
    BY <1>11, <1>12, <1>13, <1>14, <1>15 DEF Inv

LEMMA BuildFailsInv ==
    ASSUME Inv, BuildFails
    PROVE  Inv'
  <1>1. /\ phase = "building" /\ phase' = "failed"
        /\ plan' = plan /\ nodes' = nodes /\ next' = next /\ UNCHANGED cursorVars
    BY DEF BuildFails
  <1>2. last = None
    BY <1>1, NoAnswerYet
  <1>3. CursorWell'
    BY <1>1, <1>2 DEF Inv, CursorWell, cursorVars
  <1>4. TracesCorrect'
    BY <1>1, <1>2 DEF TracesCorrect, cursorVars
  <1>5. TreeWell(plan, nodes, next)'
    BY <1>1 DEF Inv
  <1> QED
    BY <1>1, <1>3, <1>4, <1>5 DEF Inv

\* Where the calls start: all is built, and the caller has ids of rows of the operator it knows.
LEMMA ReadyFacts ==
    ASSUME Inv, phase = "ready"
    PROVE  /\ plan \in Plans /\ DOMAIN nodes = DOMAIN plan /\ DOMAIN plan \subseteq Places
           /\ at \in DOMAIN plan /\ known \in DOMAIN plan /\ calls \in 0 .. MaxCalls /\ MaxCalls \in Nat
           /\ astray \in BOOLEAN /\ (~ astray => at = known)
           /\ \A ids \in Asked : ids \subseteq Ids(nodes[known].rows)
           /\ \A p \in DOMAIN plan : NodeWell(plan, nodes, next, p)
           /\ IdsApart(nodes)
  <1>1. last # None => last.rows \subseteq nodes[known].rows
    BY DEF Inv, CursorWell
  <1>2. \A ids \in Asked : ids \subseteq Ids(nodes[known].rows)
    BY <1>1 DEF Asked, Ids
  <1> QED
    BY <1>2, PlansFacts DEF Inv, CursorWell, TreeWell

\* What a call leaves alone.
LEMMA CallsKeep ==
    ASSUME Inv, Calls
    PROVE  /\ phase = "ready" /\ plan' = plan /\ phase' = phase /\ nodes' = nodes /\ next' = next
           /\ calls' \in 0 .. MaxCalls
           /\ CursorWell' /\ TracesCorrect' => Inv'
  <1>1. phase = "ready" /\ plan' = plan /\ phase' = phase /\ nodes' = nodes /\ next' = next
    BY DEF Calls
  <1>2. calls' \in 0 .. MaxCalls
    <2>1. calls \in 0 .. MaxCalls /\ MaxCalls \in Nat
      BY <1>1, ReadyFacts
    <2> QED
      BY <2>1 DEF Calls
  <1>3. TreeWell(plan, nodes, next)'
    BY <1>1 DEF Inv
  <1>4. CursorWell' /\ TracesCorrect' => Inv'
    BY <1>1, <1>3 DEF Inv
  <1> QED
    BY <1>1, <1>2, <1>4

LEMMA NoAnswer ==
    ASSUME Inv, Calls, last' = None, at' \in DOMAIN plan, known' \in DOMAIN plan,
           astray' \in BOOLEAN, ~ astray' => at' = known'
    PROVE  Inv'
  <1>1. CursorWell'
    BY CallsKeep DEF CursorWell
  <1>2. TracesCorrect'
    BY DEF TracesCorrect
  <1> QED
    BY <1>1, <1>2, CallsKeep

LEMMA StartFromSourceInv ==
    ASSUME Inv, NEW source \in Sources, StartFromSource(source)
    PROVE  Inv'
  <1>1. Calls /\ at' = source /\ known' = source /\ astray' = FALSE /\ last' = None
    BY DEF StartFromSource
  <1>2. source \in DOMAIN plan
    BY DEF Sources
  <1> QED
    BY <1>1, <1>2, NoAnswer

LEMMA ForwardsFailsInv ==
    ASSUME Inv, ForwardsFails
    PROVE  Inv'
  <1>1. Calls /\ at' = at /\ last' = None /\ known' = known /\ astray' = astray
    BY DEF ForwardsFails, StaysIfFails
  <1>2. phase = "ready"
    BY <1>1 DEF Calls
  <1> QED
    BY <1>1, <1>2, NoAnswer, ReadyFacts

LEMMA BackwardsFailsInv ==
    ASSUME Inv, NEW side, BackwardsFails(side)
    PROVE  Inv'
  <1>1. Calls /\ side \in Sides(at) /\ at' = Child(at, side) /\ astray' = TRUE /\ last' = None /\ known' = known
    BY DEF BackwardsFails
  <1>2. phase = "ready"
    BY <1>1 DEF Calls
  <1>3. Child(at, side) \in DOMAIN plan
    BY <1>1 DEF Sides, SidesIn
  <1> QED
    BY <1>1, <1>2, <1>3, NoAnswer, ReadyFacts

\* The operator above the cursor.
LEMMA AboveFacts ==
    ASSUME Inv, phase = "ready", Above(at) # None
    PROVE  at # Root /\ Above(at) = Front(at) /\ Front(at) \in DOMAIN plan
  <1>1. NodeWell(plan, nodes, next, at) /\ DOMAIN nodes = DOMAIN plan
    BY ReadyFacts
  <1>2. nodes[at].parent = IF at # Root /\ Front(at) \in DOMAIN nodes THEN Front(at) ELSE None
    BY <1>1 DEF NodeWell
  <1> QED
    BY <1>1, <1>2 DEF Above

LEMMA ForwardsInv ==
    ASSUME Inv, NEW ids \in Asked, Forwards(ids)
    PROVE  Inv'
  <1>1. /\ Calls /\ Above(at) # None /\ at' = Above(at) /\ known' = Above(at) /\ astray' = astray
        /\ last' = Answer("forwards", None, ids,
                      {r \in nodes[Above(at)].rows : \E id \in ids : <<r.uuid, id>> \in MappingAbove(at)})
    BY Zenon DEF Forwards
  <1>2. /\ phase = "ready" /\ plan' = plan /\ phase' = phase /\ nodes' = nodes /\ next' = next /\ calls' \in 0 .. MaxCalls
    BY <1>1, CallsKeep
  <1>3. at # Root /\ Above(at) = Front(at) /\ Front(at) \in DOMAIN plan
    BY <1>1, <1>2, AboveFacts
  <1>4. /\ at \in DOMAIN plan /\ astray \in BOOLEAN /\ (~ astray => at = known)
        /\ ids \subseteq Ids(nodes[known].rows) /\ DOMAIN plan \subseteq Places /\ plan \in Plans
        /\ \A p \in DOMAIN plan : NodeWell(plan, nodes, next, p)
        /\ IdsApart(nodes) /\ DOMAIN nodes = DOMAIN plan
    BY <1>2, ReadyFacts
  <1>5. PICK p : p = Front(at)
    OBVIOUS
  <1>6. /\ last'.call = "forwards" /\ last'.from = known
        /\ last'.ids = ids
        /\ last'.rows = {r \in nodes[p].rows : \E id \in ids : <<r.uuid, id>> \in nodes[p].back[1]}
    BY <1>1, <1>3, <1>5 DEF Answer, MappingAbove, Left
  <1>7. CursorWell'
    <2>1. last'.rows \subseteq nodes'[known'].rows
      BY <1>1, <1>2, <1>3, <1>5, <1>6
    <2> QED
      BY <1>1, <1>2, <1>3, <1>4, <2>1 DEF CursorWell
  <1>8. ASSUME ~ astray, Last(at) = 1
        PROVE  last'.rows = {r \in nodes[p].rows : \E c \in Origins(p, 1, r) : c.uuid \in ids}
    <2>1. /\ at \in Places /\ p \in DOMAIN plan /\ p \in Places
          /\ at = Child(p, Last(at)) /\ ids \subseteq Ids(nodes[at].rows)
      BY <1>3, <1>4, <1>5, <1>8, ParentFacts
    <2>2. \A id \in ids : \E c \in nodes[at].rows : c.uuid = id
      BY <2>1 DEF Ids
    <2>3. \A r : Origins(p, 1, r) = {c \in nodes[at].rows : <<r.uuid, c.uuid>> \in nodes[p].back[1]}
      <3>1. Child(p, 1) = at
        BY <1>8, <2>1
      <3> QED
        BY <3>1 DEF Origins
    <2>4. ASSUME NEW r PROVE (\E id \in ids : <<r.uuid, id>> \in nodes[p].back[1])
                               <=> (\E c \in Origins(p, 1, r) : c.uuid \in ids)
      BY <2>2, <2>3
    <2>5. {r \in nodes[p].rows : \E id \in ids : <<r.uuid, id>> \in nodes[p].back[1]}
             = {r \in nodes[p].rows : \E c \in Origins(p, 1, r) : c.uuid \in ids}
      BY <2>4
    <2> QED
      BY <1>6, <2>5, Zenon
  <1>9. TracesCorrect'
    <2>1. SUFFICES ASSUME ~ astray PROVE TracesCorrect'
      BY <1>1 DEF TracesCorrect
    <2>2. \A q, side, r : Origins(q, side, r)' = Origins(q, side, r)
      BY <1>2 DEF Origins
    <2>3. known = at
      BY <1>4, <2>1
    <2>4. at' = known'
      BY <1>1
    <2>5. last'.from # Root
      BY <1>3, <1>6, <2>3
    <2>6. Last(last'.from) = Left =>
             last'.rows = {r \in nodes'[Front(last'.from)].rows :
                              \E c \in Origins(Front(last'.from), Left, r) : c.uuid \in last'.ids}
      BY <1>2, <1>5, <1>6, <1>8, <2>1, <2>3 DEF Left
    <2> QED
      BY <1>2, <1>6, <2>4, <2>5, <2>6 DEF TracesCorrect, TracedForth, Origins
  <1> QED
    BY <1>1, <1>7, <1>9, CallsKeep

LEMMA BackwardsInv ==
    ASSUME Inv, NEW side \in {Left, Right}, NEW ids \in Asked, Backwards(side, ids)
    PROVE  Inv'
  <1>1. /\ Calls /\ side \in Sides(at) /\ at' = Child(at, side) /\ known' = Child(at, side) /\ astray' = astray
        /\ last' = Answer("backwards", side, ids,
                      {r \in nodes[Child(at, side)].rows :
                          \E id \in ids : <<id, r.uuid>> \in nodes[at].back[side]})
    BY Zenon DEF Backwards
  <1>2. /\ phase = "ready" /\ plan' = plan /\ phase' = phase /\ nodes' = nodes /\ next' = next /\ calls' \in 0 .. MaxCalls
    BY <1>1, CallsKeep
  <1>3. /\ at \in DOMAIN plan /\ astray \in BOOLEAN /\ (~ astray => at = known)
        /\ ids \subseteq Ids(nodes[known].rows)
        /\ \A p \in DOMAIN plan : NodeWell(plan, nodes, next, p)
    BY <1>2, ReadyFacts
  <1>4. Child(at, side) \in DOMAIN plan
    BY <1>1 DEF Sides, SidesIn
  <1>5. /\ last'.call = "backwards" /\ last'.from = known /\ last'.side = side /\ last'.ids = ids
        /\ last'.rows = {r \in nodes[Child(at, side)].rows : \E id \in ids : <<id, r.uuid>> \in nodes[at].back[side]}
    BY <1>1 DEF Answer
  <1>6. CursorWell'
    <2>1. last'.rows \subseteq nodes'[known'].rows
      BY <1>1, <1>2, <1>5
    <2> QED
      BY <1>1, <1>2, <1>3, <1>4, <2>1 DEF CursorWell
  <1>7. ASSUME ~ astray
        PROVE  last'.rows = UNION {Origins(known, side, r) : r \in {s \in nodes[known].rows : s.uuid \in ids}}
    <2>1. known = at
      BY <1>3, <1>7
    <2>2. \A id \in ids : \E r \in nodes[at].rows : r.uuid = id
      BY <1>3, <2>1 DEF Ids
    <2>3. \A r : Origins(at, side, r) = {c \in nodes[Child(at, side)].rows : <<r.uuid, c.uuid>> \in nodes[at].back[side]}
      BY DEF Origins
    <2>4. ASSUME NEW c \in last'.rows
          PROVE  \E r \in {s \in nodes[at].rows : s.uuid \in ids} : c \in Origins(at, side, r)
      <3>1. c \in nodes[Child(at, side)].rows
        BY <1>5
      <3>2. PICK id \in ids : <<id, c.uuid>> \in nodes[at].back[side]
        BY <1>5
      <3>3. PICK r \in nodes[at].rows : r.uuid = id
        BY <2>2
      <3> QED
        BY <2>3, <3>1, <3>2, <3>3
    <2>5. ASSUME NEW r \in {s \in nodes[at].rows : s.uuid \in ids}, NEW c \in Origins(at, side, r)
          PROVE  c \in last'.rows
      <3>1. r.uuid \in ids
        OBVIOUS
      <3>2. c \in nodes[Child(at, side)].rows /\ <<r.uuid, c.uuid>> \in nodes[at].back[side]
        BY <2>3
      <3> QED
        BY <1>5, <3>1, <3>2
    <2> QED
      BY <2>1, <2>4, <2>5
  <1>8. TracesCorrect'
    <2>1. SUFFICES ASSUME ~ astray PROVE TracesCorrect'
      BY <1>1 DEF TracesCorrect
    <2>2. at' = known'
      BY <1>1
    <2>3. last'.rows = UNION {Origins(last'.from, last'.side, r) :
                                 r \in {s \in nodes[last'.from].rows : s.uuid \in last'.ids}}
      BY <1>5, <1>7, <2>1
    <2>4. last'.call # "forwards"
      BY <1>5
    <2>5. last'.rows = UNION {{c \in nodes'[Child(last'.from, last'.side)].rows :
                                  <<r.uuid, c.uuid>> \in nodes'[last'.from].back[last'.side]} :
                                 r \in {s \in nodes'[last'.from].rows : s.uuid \in last'.ids}}
      BY <1>2, <2>3 DEF Origins
    <2>6. last'.side \in {k \in {Left, Right} : Child(last'.from, k) \in DOMAIN plan'}
      <3>1. last'.from = at /\ last'.side = side
        BY <1>3, <1>5, <2>1
      <3> QED
        BY <1>1, <1>2, <3>1 DEF Sides, SidesIn
    <2> QED
      BY <2>2, <2>4, <2>5, <2>6, Zenon DEF TracesCorrect, TracedBack, Origins, Sides, SidesIn
  <1> QED
    BY <1>1, <1>6, <1>8, CallsKeep

LEMMA StutterInv ==
    ASSUME Inv, UNCHANGED vars
    PROVE  Inv'
  <1>1. /\ plan' = plan /\ phase' = phase /\ nodes' = nodes /\ next' = next /\ at' = at /\ known' = known
        /\ astray' = astray /\ last' = last /\ calls' = calls
    BY DEF vars
  <1>2. CursorWell' /\ TreeWell(plan, nodes, next)'
    BY <1>1 DEF Inv, CursorWell
  <1>3. TracesCorrect'
    <2>1. TracesCorrect
      BY DEF Inv
    <2>2. ASSUME last # None, ~ astray, last.call = "backwards"
          PROVE  last'.side \in {k \in {Left, Right} : Child(last'.from, k) \in DOMAIN plan'}
      BY <1>1, <2>1, <2>2 DEF TracesCorrect, Sides, SidesIn
    <2>3. ASSUME last # None, ~ astray, last.call = "backwards"
          PROVE  last.rows = UNION {Origins(last.from, last.side, r) :
                                       r \in {s \in nodes[last.from].rows : s.uuid \in last.ids}}
      BY <2>1, <2>3 DEF TracesCorrect, TracedBack
    <2>4. ASSUME last # None, ~ astray, last.call = "backwards"
          PROVE  last'.rows = UNION {{c \in nodes'[Child(last'.from, last'.side)].rows :
                                         <<r.uuid, c.uuid>> \in nodes'[last'.from].back[last'.side]} :
                                        r \in {s \in nodes'[last'.from].rows : s.uuid \in last'.ids}}
      <3>1. last.rows = UNION {{c \in nodes[Child(last.from, last.side)].rows :
                                   <<r.uuid, c.uuid>> \in nodes[last.from].back[last.side]} :
                                  r \in {s \in nodes[last.from].rows : s.uuid \in last.ids}}
        BY <2>3, <2>4 DEF Origins
      <3>2. last' = last /\ nodes' = nodes
        BY <1>1
      <3> QED
        BY <3>1, <3>2
    <2>5. ASSUME last # None, ~ astray, last.call = "forwards"
          PROVE  /\ last'.from # Root
                 /\ Last(last'.from) = Left =>
                       last'.rows = {r \in nodes'[Front(last'.from)].rows :
                                        \E c \in {d \in nodes'[Child(Front(last'.from), Left)].rows :
                                                   <<r.uuid, d.uuid>> \in nodes'[Front(last'.from)].back[Left]} :
                                           c.uuid \in last'.ids}
      BY <1>1, <2>1, <2>5 DEF TracesCorrect, TracedForth, Origins
    <2>6. last # None /\ ~ astray => at' = known'
      BY <1>1, <2>1 DEF TracesCorrect
    <2>7. last' = last /\ astray' = astray
      BY <1>1
    <2> QED
      BY <2>2, <2>4, <2>5, <2>6, <2>7, Zenon DEF TracesCorrect, TracedBack, TracedForth, Origins, Sides, SidesIn
  <1> QED
    BY <1>1, <1>2, <1>3 DEF Inv

LEMMA NextInv == Inv /\ [Next]_vars => Inv'
  <1>1. SUFFICES ASSUME Inv, [Next]_vars PROVE Inv'
    OBVIOUS
  <1>2. ASSUME NEW p \in DOMAIN plan, Build(p) PROVE Inv'
    BY <1>1, <1>2, BuildInv
  <1>3. ASSUME BuildFails PROVE Inv'
    BY <1>1, <1>3, BuildFailsInv
  <1>4. ASSUME NEW source \in Sources, StartFromSource(source) PROVE Inv'
    BY <1>1, <1>4, StartFromSourceInv
  <1>5. ASSUME NEW ids \in Asked, Forwards(ids) PROVE Inv'
    BY <1>1, <1>5, ForwardsInv
  <1>6. ASSUME ForwardsFails PROVE Inv'
    BY <1>1, <1>6, ForwardsFailsInv
  <1>7. ASSUME NEW side \in {Left, Right}, NEW ids \in Asked, Backwards(side, ids) PROVE Inv'
    BY <1>1, <1>7, BackwardsInv
  <1>8. ASSUME NEW side \in {Left, Right}, BackwardsFails(side) PROVE Inv'
    BY <1>1, <1>8, BackwardsFailsInv
  <1>9. ASSUME UNCHANGED vars PROVE Inv'
    BY <1>1, <1>9, StutterInv
  <1> QED
    BY <1>1, <1>2, <1>3, <1>4, <1>5, <1>6, <1>7, <1>8, <1>9, Zenon DEF Next

----------------------------------------------------------------------------
(* The theorems. *)

\* The inductive invariant holds in every behaviour of the lineage and its cursor.
THEOREM Invariance == Spec => []Inv
  <1>1. Init => Inv
    BY InitInv
  <1>2. Inv /\ [Next]_vars => Inv'
    BY NextInv
  <1> QED
    BY <1>1, <1>2, PTL DEF Spec

\* Rows with the same ids are the same, so there are as many ids as rows.
LEMMA AsManyIds ==
    ASSUME NEW F, Identified(F)
    PROVE  Cardinality(Ids(F)) = Cardinality(F)
  <1> DEFINE h == [r \in F |-> r.uuid]
  <1>1. h \in [F -> Ids(F)]
    BY DEF Ids
  <1>2. \A r, s \in F : h[r] = h[s] => r = s
    BY DEF Identified
  <1>3. \A id \in Ids(F) : \E r \in F : h[r] = id
    BY DEF Ids
  <1> HIDE DEF h
  <1>4. ExistsBijection(F, Ids(F))
    BY <1>1, <1>2, <1>3 DEF ExistsBijection, Bijection, Injection, Surjection, IsInjective
  <1> QED
    BY <1>4, FS_Bijection DEF Identified

\* build_node_lineage builds operators children first, materialises each with ids of its
\* own rows, and maps them only to rows of its children, whatever the plan.
THEOREM TypeCorrect == Spec => []TypeOK
  <1>1. Inv => TypeOK
    <2>1. SUFFICES ASSUME Inv PROVE TypeOK
      OBVIOUS
    <2>2. \A p \in DOMAIN nodes : NodeWell(plan, nodes, next, p)
      BY <2>1 DEF Inv, TreeWell
    <2>3. ASSUME NEW p \in DOMAIN nodes
          PROVE  /\ Ids(nodes[p].rows) \subseteq 1 .. next
                 /\ Cardinality(Ids(nodes[p].rows)) = Cardinality(nodes[p].rows)
                 /\ \A side \in Sides(p) :
                       nodes[p].back[side] \subseteq Ids(nodes[p].rows) \X Ids(nodes[Child(p, side)].rows)
      <3>1. Identified(nodes[p].rows)
        BY <2>2 DEF NodeWell
      <3> QED
        BY <2>2, <3>1, AsManyIds DEF NodeWell, Sides
    <2> QED
      BY <2>1, <2>3 DEF TypeOK, Inv, TreeWell, CursorWell
  <1> QED
    BY <1>1, Invariance, PTL

\* Until a call backwards fails, LocalLineage.backwards and, from a first child, forwards
\* answer for the operator where the caller is, with exactly the rows that the rows asked
\* for came from or went into, whatever the plan and the calls.
THEOREM TracesAreCorrect == Spec => []TracesCorrect
  <1>1. Inv => TracesCorrect
    BY DEF Inv
  <1> QED
    BY <1>1, Invariance, PTL

\* Each materialised frame is one the query makes of the frames below it, and the rows a
\* row is mapped to are all the operator needs to make it again.  Two cases are excepted,
\* as in TablesCorrect: an explode of an expression that takes the name of a column, and
\* the frame of duplicates dropped on all columns.
THEOREM TablesAreCorrect == Spec => []TablesCorrect
  <1>1. Inv => TablesCorrect
    <2>1. SUFFICES ASSUME Inv, NEW p \in {q \in DOMAIN nodes : ~ IsShadow(plan[q])}
                   PROVE  LET op == plan[p]
                              rows == nodes[p].rows
                              Of(frames) == {Contents(made) : made \in Makes(op, frames, FALSE)}
                              Explained(r) ==
                                  {s \in rows : \A side \in Sides(p) : Origins(p, side, s) \subseteq Origins(p, side, r)}
                          IN  /\ \/ Contents(rows) \in Of(Frames(p))
                                 \/ op.op = "drop_duplicates" /\ op.on = "all"
                              /\ Sides(p) # {} => \A r \in rows :
                                    /\ \E side \in Sides(p) : Origins(p, side, r) # {}
                                    /\ Contents(Explained(r)) \in Of([side \in Sides(p) |-> Origins(p, side, r)])
      BY Zenon DEF TablesCorrect
    <2>2. NodeWell(plan, nodes, next, p) /\ plan \in Plans /\ p \in DOMAIN plan /\ ~ IsShadow(plan[p])
      BY <2>1 DEF Inv, TreeWell
    <2>3. PICK frames, rows, back :
             frames = FramesIn(plan, nodes, p) /\ rows = nodes[p].rows /\ back = nodes[p].back
      OBVIOUS
    <2>4. TableWell(plan[p], frames, rows, back) /\ Sides(p) = Arity(plan[p]) /\ Frames(p) = frames
      BY <2>2, <2>3, PlansFacts DEF NodeWell, Sides, Frames, FramesIn
    <2>5. \A r : \A side \in Sides(p) : Origins(p, side, r) = OriginsOf(frames, back, side, r)
      <3>1. \A side \in Sides(p) : frames[side] = nodes[Child(p, side)].rows
        BY <2>4 DEF Frames
      <3> QED
        BY <2>3, <3>1 DEF Origins, OriginsOf
    <2>6. \A r : [side \in Sides(p) |-> Origins(p, side, r)] = OriginFrames(plan[p], frames, back, r)
      BY <2>4, <2>5 DEF OriginFrames
    <2>7. \A r : {s \in rows : \A side \in Sides(p) : Origins(p, side, s) \subseteq Origins(p, side, r)}
                   = ExplainedBy(plan[p], frames, back, rows, r)
      BY <2>4, <2>5 DEF ExplainedBy
    <2>8. Contents(rows) \in ContentsMade(plan[p], frames) \/ (plan[p].op = "drop_duplicates" /\ plan[p].on = "all")
      BY <2>2, <2>4 DEF TableWell
    <2>9. ASSUME Sides(p) # {}, NEW r \in rows
          PROVE  /\ \E side \in Sides(p) : Origins(p, side, r) # {}
                 /\ Contents({s \in rows : \A side \in Sides(p) : Origins(p, side, s) \subseteq Origins(p, side, r)})
                       \in ContentsMade(plan[p], [side \in Sides(p) |-> Origins(p, side, r)])
      <3>1. /\ \E side \in Arity(plan[p]) : OriginsOf(frames, back, side, r) # {}
            /\ Contents(ExplainedBy(plan[p], frames, back, rows, r))
                  \in ContentsMade(plan[p], OriginFrames(plan[p], frames, back, r))
        BY <2>2, <2>4, <2>9 DEF TableWell
      <3>2. \E side \in Sides(p) : Origins(p, side, r) # {}
        BY <2>4, <2>5, <3>1
      <3> QED
        BY <2>6, <2>7, <3>1, <3>2
    <2> QED
      BY <2>3, <2>4, <2>8, <2>9, Zenon DEF ContentsMade
  <1> QED
    BY <1>1, Invariance, PTL

=============================================================================
