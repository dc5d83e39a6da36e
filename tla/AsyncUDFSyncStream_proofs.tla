---------------------- MODULE AsyncUDFSyncStream_proofs ----------------------
(***************************************************************************)
(* The stream for any number of items, permits, pending tasks, buffered    *)
(* results and retries: nothing is lost between the two dicts, what the    *)
(* stream holds is bounded, and it is an ordered stream.                    *)
(***************************************************************************)
EXTENDS AsyncUDFSyncStream, FiniteSetTheorems, TLAPS

\* The task may still call fn.
Active == {"queued", "calling", "sleeping"}

\* Where the generator is in the sequence of the items.
Positions ==
    /\ Len(output) = Front - 1
    /\ Front - 1 <= taken
    /\ gen = "start" => taken = 0 /\ next = 1
    /\ gen = "waiting" => awaited \subseteq pending

\* What a task has done, and that one that is not over is pending.
TaskOK(i) ==
    /\ i > taken => task[i] = "none"
    /\ task[i] \in Active => i \in pending
    /\ task[i] = "done" => outcome[i] # "none"
    /\ task[i] \in Active \cup {"none"} => outcome[i] = "none"
    /\ task[i] \in {"none", "queued"} => attempts[i] = 0
    /\ task[i] = "sleeping" => attempts[i] < NumRetries + 1

TasksInv == \A i \in Items : TaskOK(i)

\* A generator without a pending task has taken every item or a full buffer of them.
RoomInv ==
    /\ exhausted => taken = NumItems
    /\ gen \notin {"start", "closed"} =>
           pending # {} \/ taken = NumItems \/ taken >= MaxBuffer

\* The inductive invariant of the stream.
IInv == TypeOK /\ Accounted /\ BufferBound /\ Positions /\ TasksInv /\ RoomInv

TaskStates == {"none", "queued", "calling", "sleeping", "done", "cancelled"}

----------------------------------------------------------------------------
\* The items are finitely many, and so is every set of them.
LEMMA ItemSets ==
    ASSUME NEW S \in SUBSET Items
    PROVE  /\ IsFiniteSet(S) /\ Cardinality(S) \in Nat
           /\ \A T \in SUBSET S : Cardinality(T) <= Cardinality(S)
  <1>1. IsFiniteSet(Items)
    BY FS_Interval, StreamAssumption DEF Items
  <1>2. IsFiniteSet(S)
    BY <1>1, FS_Subset
  <1> QED
    BY <1>2, FS_CardinalityType, FS_Subset

\* A set of the first n items has at most n of them.
LEMMA AtMost ==
    ASSUME NEW n \in Nat, NEW S \in SUBSET (1..n)
    PROVE  Cardinality(S) <= n
  <1>1. IsFiniteSet(1..n) /\ Cardinality(1..n) = n
    BY FS_Interval
  <1> QED
    BY <1>1, FS_Subset

\* The length of an interval.
LEMMA IntervalSize ==
    ASSUME NEW b \in Int, NEW c \in Int, b <= c
    PROVE  IsFiniteSet((b + 1)..c) /\ Cardinality((b + 1)..c) = c - b
  <1>1. b + 1 \in Int
    OBVIOUS
  <1>2. /\ IsFiniteSet((b + 1)..c)
        /\ Cardinality((b + 1)..c) = IF b + 1 > c THEN 0 ELSE c - (b + 1) + 1
    BY <1>1, FS_Interval
  <1> QED
    BY <1>2

\* What creating tasks does: the new ones continue the items taken, within the room that
\* the pending tasks and the buffered results leave, and if none is pending then, every
\* item was taken or the buffer is full.
LEMMA ScheduleFacts ==
    ASSUME NEW p \in SUBSET Items, NEW r \in SUBSET Items, NEW f \in 1..(NumItems + 1),
           TypeOK, exhausted => taken = NumItems,
           p \cup r = f..taken, p \cap r = {}, f <= taken + 1,
           Cardinality(p) <= MaxPending,
           Cardinality(r) + Cardinality(p) < MaxBuffer + MaxPending,
           Schedule(p, r)
    PROVE  /\ taken' \in taken..NumItems
           /\ exhausted' \in BOOLEAN /\ (exhausted' => taken' = NumItems)
           /\ pending' = p \cup ((taken + 1)..taken')
           /\ pending' \subseteq Items /\ pending' \cup r = f..taken' /\ pending' \cap r = {}
           /\ Cardinality(pending') <= MaxPending
           /\ Cardinality(r) + Cardinality(pending') < MaxBuffer + MaxPending
           /\ pending' # {} \/ taken' = NumItems \/ taken' >= MaxBuffer
           /\ task' = [i \in Items |-> IF i \in (taken + 1)..taken' THEN "queued" ELSE task[i]]
  <1> DEFINE n == Least(Room(p, r), NumItems - taken)
             new == (taken + 1)..(taken + n)
  <1>1. /\ taken \in 0..NumItems /\ NumItems \in Nat /\ MaxPending \in Nat \ {0}
        /\ MaxBuffer \in Nat \ {0} /\ exhausted \in BOOLEAN
    BY StreamAssumption DEF TypeOK
  <1>2. Cardinality(p) \in Nat /\ Cardinality(r) \in Nat /\ IsFiniteSet(p)
    BY ItemSets
  <1>3. /\ Room(p, r) \in 0..MaxPending
        /\ Room(p, r) = 0 \/ Room(p, r) = MaxPending - Cardinality(p)
        /\ Room(p, r) > 0 => Cardinality(r) < MaxBuffer
    BY <1>1, <1>2 DEF Room
  <1>4. n \in 0..(NumItems - taken) /\ n <= Room(p, r) /\ (n = Room(p, r) \/ n = NumItems - taken)
    BY <1>1, <1>3 DEF Least
  <1>5. /\ taken' = taken + n /\ exhausted' = (exhausted \/ n < Room(p, r))
        /\ pending' = p \cup new
        /\ task' = [i \in Items |-> IF i \in new THEN "queued" ELSE task[i]]
    BY DEF Schedule
  <1> HIDE DEF n
  <1>6. taken' \in taken..NumItems /\ taken' \in Nat /\ new = (taken + 1)..taken'
    BY <1>1, <1>4, <1>5
  <1>7. exhausted' \in BOOLEAN /\ (exhausted' => taken' = NumItems)
    BY <1>1, <1>3, <1>4, <1>5
  <1>8. new \subseteq Items /\ IsFiniteSet(new) /\ Cardinality(new) = n
    <2>1. new \subseteq Items
      BY <1>1, <1>4, <1>6 DEF Items
    <2>2. IsFiniteSet((taken + 1)..taken') /\ Cardinality((taken + 1)..taken') = taken' - taken
      BY <1>1, <1>6, IntervalSize
    <2> QED
      BY <1>1, <1>4, <1>5, <1>6, <2>1, <2>2
  <1>9. p \cap new = {} /\ r \cap new = {}
    BY <1>1, <1>4
  <1>10. pending' \cup r = f..taken' /\ pending' \cap r = {}
    <2>1. f..taken' = (f..taken) \cup new
      <3>1. f \in Int /\ taken \in Int /\ taken' \in Int /\ f <= taken + 1 /\ taken <= taken'
        BY <1>1, <1>6
      <3>2. f..taken' = (f..taken) \cup ((taken + 1)..taken')
        BY ONLY <3>1
      <3> QED
        BY <1>6, <3>2
    <2> QED
      BY <1>5, <1>9, <2>1
  <1>11. Cardinality(pending') = Cardinality(p) + n
    <2>1. Cardinality(p \cup new) = Cardinality(p) + Cardinality(new) - Cardinality(p \cap new)
      BY <1>2, <1>8, FS_Union
    <2>2. Cardinality(p \cap new) = 0
      BY <1>9, FS_EmptySet
    <2> QED
      BY <1>1, <1>2, <1>4, <1>5, <1>8, <2>1, <2>2
  <1>12. /\ Cardinality(pending') <= MaxPending
         /\ Cardinality(r) + Cardinality(pending') < MaxBuffer + MaxPending
    <2>1. CASE Room(p, r) = 0
      BY <1>1, <1>2, <1>4, <1>11, <2>1
    <2>2. CASE Room(p, r) > 0
      BY <1>1, <1>2, <1>3, <1>4, <1>11, <2>2
    <2> QED
      BY <1>3, <2>1, <2>2
  <1>13. ASSUME pending' = {}, taken' # NumItems PROVE taken' >= MaxBuffer
    <2>1. n = 0 /\ Cardinality(p) = 0
      BY <1>1, <1>2, <1>4, <1>11, <1>13, FS_EmptySet
    <2>2. Room(p, r) = 0 /\ ~exhausted
      BY <1>1, <1>3, <1>4, <1>5, <1>13, <2>1
    <2>3. Cardinality(r) >= MaxBuffer
      BY <1>1, <1>2, <2>1, <2>2 DEF Room
    <2>4. r \subseteq 1..taken
      BY <1>1
    <2>5. Cardinality(r) <= taken
      BY <1>1, <2>4, AtMost
    <2> QED
      BY <1>1, <1>2, <1>6, <2>3, <2>5
  <1> QED
    BY <1>5, <1>6, <1>7, <1>8, <1>10, <1>12, <1>13

\* The step of the generator that creates tasks, at its start or after a wait, keeps the
\* invariant: p and r are what is pending and buffered before the tasks are created.
LEMMA ScheduleStep ==
    ASSUME IInv, gen \in {"start", "waiting"},
           NEW p \in SUBSET Items, NEW r \in SUBSET Items,
           p \cup r = next..taken, p \cap r = {},
           Cardinality(p) <= MaxPending,
           Cardinality(r) + Cardinality(p) < MaxBuffer + MaxPending,
           \A i \in Items : task[i] \in Active => i \in p,
           \A i \in r : task[i] = "done",
           Schedule(p, r), results' = r, gen' = "loop", awaited' \subseteq Items,
           UNCHANGED <<next, output, consumer, outcome, attempts>>
    PROVE  IInv'
  <1>1. TypeOK /\ Accounted /\ BufferBound /\ Positions /\ TasksInv /\ RoomInv
    BY DEF IInv
  <1>2. NumItems \in Nat /\ taken \in 0..NumItems /\ next \in 1..(NumItems + 1)
    BY <1>1, StreamAssumption DEF TypeOK
  <1>3. Front = next /\ Front' = next /\ next <= taken + 1
    BY <1>1, <1>2 DEF Front, Positions
  <1>4. /\ taken' \in taken..NumItems
        /\ exhausted' \in BOOLEAN /\ (exhausted' => taken' = NumItems)
        /\ pending' = p \cup ((taken + 1)..taken')
        /\ pending' \subseteq Items /\ pending' \cup r = next..taken' /\ pending' \cap r = {}
        /\ Cardinality(pending') <= MaxPending
        /\ Cardinality(r) + Cardinality(pending') < MaxBuffer + MaxPending
        /\ pending' # {} \/ taken' = NumItems \/ taken' >= MaxBuffer
        /\ task' = [i \in Items |-> IF i \in (taken + 1)..taken' THEN "queued" ELSE task[i]]
    <2>1. exhausted => taken = NumItems
      BY <1>1 DEF RoomInv
    <2> QED
      BY <1>1, <1>2, <1>3, <2>1, ScheduleFacts
  <1>5. TypeOK'
    <2>1. taken' \in 0..NumItems
      BY <1>2, <1>4
    <2>2. task' \in [Items -> TaskStates]
      BY <1>1, <1>4 DEF TypeOK, TaskStates
    <2> QED
      BY <1>1, <1>4, <2>1, <2>2 DEF TypeOK, TaskStates
  <1>6. Accounted'
    <2>1. \A i \in r : i \notin (taken + 1)..taken'
      BY <1>2
    <2>2. \A i \in r : task'[i] = "done"
      BY <1>4, <2>1
    <2> QED
      BY <1>3, <1>4, <2>2 DEF Accounted
  <1>7. BufferBound'
    BY <1>4 DEF BufferBound
  <1>8. Positions'
    <2>1. Len(output) = next - 1
      BY <1>1, <1>3 DEF Positions
    <2>2. taken' \in taken..NumItems
      BY <1>4
    <2>3. next - 1 <= taken'
      BY <1>1, <1>2, <1>3, <2>2 DEF Positions
    <2> QED
      BY <1>3, <2>1, <2>3 DEF Positions
  <1>9. TasksInv'
    <2> SUFFICES ASSUME NEW i \in Items PROVE TaskOK(i)'
      BY DEF TasksInv
    <2>1. TaskOK(i) /\ i \in Nat /\ taken \in Nat /\ taken' \in Nat /\ taken <= taken'
      BY <1>1, <1>2, <1>4 DEF TasksInv, Items
    <2>2. CASE i \in (taken + 1)..taken'
      BY <1>4, <2>1, <2>2 DEF TaskOK, Active
    <2>3. CASE i \notin (taken + 1)..taken'
      <3>1. task'[i] = task[i] /\ (i > taken' => i > taken)
        BY <1>4, <2>1, <2>3
      <3> QED
        BY <1>4, <2>1, <3>1 DEF TaskOK
    <2> QED
      BY <2>2, <2>3
  <1>10. RoomInv'
    BY <1>4 DEF RoomInv
  <1> QED
    BY <1>5, <1>6, <1>7, <1>8, <1>9, <1>10 DEF IInv

\* The invariant holds before the first item is asked for.
LEMMA InitInv == Init => IInv
  <1> SUFFICES ASSUME Init PROVE IInv
    OBVIOUS
  <1>1. NumItems \in Nat /\ MaxPending \in Nat \ {0} /\ MaxBuffer \in Nat \ {0}
        /\ NumRetries \in Nat
    BY StreamAssumption
  <1>2. Cardinality({}) = 0
    BY FS_EmptySet
  <1>3. Front = 1
    BY DEF Init, Front
  <1>4. TypeOK
    <2>1. task \in [Items -> TaskStates] /\ outcome \in [Items -> {"none", "ok", "error"}]
      BY DEF Init, TaskStates
    <2>2. attempts \in [Items -> 0..(NumRetries + 1)]
      BY <1>1 DEF Init
    <2>3. /\ taken \in 0..NumItems /\ next \in 1..(NumItems + 1)
          /\ output \in Seq({"ok", "error"}) /\ Len(output) <= NumItems
      BY <1>1 DEF Init
    <2>4. /\ exhausted \in BOOLEAN /\ pending = {} /\ results = {} /\ awaited = {}
          /\ gen = "start" /\ consumer = "asking"
      BY DEF Init
    <2> QED
      BY ONLY <1>1, <1>2, <2>1, <2>2, <2>3, <2>4 DEF TypeOK, TaskStates
  <1>5. Accounted /\ BufferBound
    BY <1>1, <1>2, <1>3 DEF Init, Accounted, BufferBound
  <1>6. Positions /\ TasksInv /\ RoomInv
    BY <1>1, <1>3 DEF Init, Positions, TasksInv, TaskOK, Active, RoomInv
  <1> QED
    BY <1>4, <1>5, <1>6 DEF IInv

\* Moving finished tasks from one dict to the other changes how many there are in neither.
LEMMA MoveSize ==
    ASSUME NEW P \in SUBSET Items, NEW R \in SUBSET Items, NEW D \in SUBSET P, P \cap R = {}
    PROVE  /\ Cardinality(R \cup D) + Cardinality(P \ D) = Cardinality(R) + Cardinality(P)
           /\ Cardinality(P \ D) <= Cardinality(P)
  <1>1. /\ IsFiniteSet(R) /\ Cardinality(R) \in Nat
        /\ IsFiniteSet(D) /\ Cardinality(D) \in Nat
        /\ IsFiniteSet(P \ D) /\ Cardinality(P \ D) \in Nat
    BY ItemSets
  <1>2. Cardinality(R \cup D) = Cardinality(R) + Cardinality(D)
    <2>1. R \cap D = {}
      OBVIOUS
    <2>2. Cardinality(R \cup D) = Cardinality(R) + Cardinality(D) - Cardinality(R \cap D)
      BY <1>1, FS_Union
    <2> QED
      BY <1>1, <2>1, <2>2, FS_EmptySet
  <1>3. Cardinality(P) = Cardinality(P \ D) + Cardinality(D)
    <2>1. (P \ D) \cap D = {} /\ (P \ D) \cup D = P
      OBVIOUS
    <2>2. Cardinality((P \ D) \cup D)
              = Cardinality(P \ D) + Cardinality(D) - Cardinality((P \ D) \cap D)
      BY <1>1, FS_Union
    <2>3. Cardinality((P \ D) \cup D) = Cardinality(P) /\ Cardinality((P \ D) \cap D) = 0
      BY <2>1, FS_EmptySet, Zenon
    <2> QED
      BY <1>1, <2>2, <2>3
  <1> QED
    BY <1>1, <1>2, <1>3

\* A step of a task changes that task alone, and only a task that is not over makes one.
LEMMA TaskStep ==
    ASSUME IInv, NEW i \in Items, Task(i)
    PROVE  IInv'
  <1>1. TypeOK /\ Accounted /\ BufferBound /\ Positions /\ TasksInv /\ RoomInv
    BY DEF IInv
  <1>2. UNCHANGED <<genVars, consumer>> /\ task[i] \in Active
    BY DEF Task, Acquire, Succeed, Fail, Retry, Active
  <1>3. BufferBound' /\ Positions' /\ RoomInv'
    BY <1>1, <1>2 DEF genVars, BufferBound, Positions, RoomInv, Front
  <1>4. attempts[i] \in 0..(NumRetries + 1) /\ NumRetries \in Nat
    BY <1>1, StreamAssumption DEF TypeOK
  <1>5. /\ task' \in [Items -> TaskStates] /\ outcome' \in [Items -> {"none", "ok", "error"}]
        /\ attempts' \in [Items -> 0..(NumRetries + 1)]
    <2>1. CASE Acquire(i) \/ Retry(i)
      <3>1. attempts[i] + 1 \in 0..(NumRetries + 1)
        BY <1>1, <1>4, <2>1 DEF Acquire, Retry, TasksInv, TaskOK
      <3>2. attempts' \in [Items -> 0..(NumRetries + 1)]
        BY <1>1, <2>1, <3>1 DEF Acquire, Retry, TypeOK
      <3> QED
        BY <1>1, <2>1, <3>2 DEF Acquire, Retry, TypeOK, TaskStates
    <2>2. CASE Succeed(i)
      BY <1>1, <2>2 DEF Succeed, TypeOK, TaskStates
    <2>3. CASE Fail(i)
      BY <1>1, <2>3 DEF Fail, TypeOK, TaskStates
    <2> QED
      BY <2>1, <2>2, <2>3 DEF Task
  <1>6. TypeOK'
    BY <1>1, <1>2, <1>5 DEF TypeOK, TaskStates, genVars
  <1>7. \A j \in Items : j # i => /\ task'[j] = task[j] /\ outcome'[j] = outcome[j]
                                  /\ attempts'[j] = attempts[j]
    BY <1>1 DEF Task, Acquire, Succeed, Fail, Retry, TypeOK
  <1>8. TaskOK(i)'
    <2>1. TaskOK(i) /\ taken \in Nat /\ i \in Nat
      BY <1>1, StreamAssumption DEF TasksInv, TypeOK, Items
    <2>2. ~(i > taken) /\ i \in pending
      BY <1>2, <2>1 DEF TaskOK, Active
    <2>3. CASE Acquire(i) \/ Retry(i)
      BY <1>1, <1>2, <2>1, <2>2, <2>3
      DEF Acquire, Retry, TypeOK, TaskOK, Active, genVars
    <2>4. CASE Succeed(i)
      BY <1>1, <1>2, <2>1, <2>2, <2>4 DEF Succeed, TypeOK, TaskOK, Active, genVars
    <2>5. CASE Fail(i)
      <3>1. CASE TriesLeft(i)
        BY <1>1, <1>2, <2>1, <2>2, <2>5, <3>1
        DEF Fail, TriesLeft, TypeOK, TaskOK, Active, genVars
      <3>2. CASE ~TriesLeft(i)
        BY <1>1, <1>2, <2>1, <2>2, <2>5, <3>2 DEF Fail, TypeOK, TaskOK, Active, genVars
      <3> QED
        BY <3>1, <3>2
    <2> QED
      BY <2>3, <2>4, <2>5 DEF Task
  <1>9. TasksInv'
    <2> SUFFICES ASSUME NEW j \in Items, j # i PROVE TaskOK(j)'
      BY <1>8 DEF TasksInv
    <2>1. TaskOK(j)
      BY <1>1 DEF TasksInv
    <2> QED
      BY <1>2, <1>7, <2>1 DEF TaskOK, genVars
  <1>10. Accounted'
    <2>1. i \notin results
      BY <1>1, <1>2 DEF Accounted, Active
    <2>2. gen \notin {"ended", "closed"}
      BY <1>1, <1>2 DEF Accounted, Active
    <2>3. \A j \in results : task'[j] = "done"
      BY <1>1, <1>7, <2>1 DEF Accounted, TypeOK
    <2> QED
      BY <1>1, <1>2, <2>2, <2>3 DEF Accounted, genVars, Front
  <1> QED
    BY <1>3, <1>6, <1>9, <1>10 DEF IInv

\* Handing the next result over takes it out of the buffer and leaves the rest in place.
LEMMA YieldStep == IInv /\ Yield => IInv'
  <1> SUFFICES ASSUME IInv, Yield PROVE IInv'
    OBVIOUS
  <1>1. TypeOK /\ Accounted /\ BufferBound /\ Positions /\ TasksInv /\ RoomInv
    BY DEF IInv
  <1>2. /\ gen = "loop" /\ next \in results
        /\ output' = Append(output, outcome[next]) /\ results' = results \ {next}
        /\ gen' = "suspended" /\ consumer' = "holding"
        /\ UNCHANGED <<taken, exhausted, pending, next, awaited, taskVars>>
    BY DEF Yield, Candidates
  <1>3. Front = next /\ Front' = next + 1
    BY <1>2 DEF Front
  <1>4. /\ taken \in 0..NumItems /\ NumItems \in Nat /\ next \in Nat /\ next \in Items
        /\ next <= taken
    <2>1. next \in next..taken
      BY <1>1, <1>2, <1>3 DEF Accounted
    <2> QED
      BY <1>1, <1>2, <2>1, StreamAssumption DEF TypeOK, Items
  <1>5. outcome[next] \in {"ok", "error"}
    BY <1>1, <1>2, <1>4 DEF TypeOK, Accounted, TasksInv, TaskOK
  <1>6. output' \in Seq({"ok", "error"}) /\ Len(output') = next
    <2>1. output \in Seq({"ok", "error"}) /\ Len(output) = next - 1
      BY <1>1, <1>3 DEF TypeOK, Positions
    <2> QED
      BY <1>2, <1>4, <1>5, <2>1
  <1>7. TypeOK'
    <2>1. results' \subseteq Items /\ Len(output') <= NumItems
      BY <1>1, <1>2, <1>4, <1>6 DEF TypeOK
    <2> QED
      BY <1>1, <1>2, <1>6, <2>1 DEF TypeOK, taskVars
  <1>8. Accounted'
    <2>1. pending \cap results = {} /\ pending \cup results = next..taken
      BY <1>1, <1>2, <1>3 DEF Accounted
    <2>2. next..taken = {next} \cup ((next + 1)..taken)
      BY <1>4
    <2>3. pending \cup (results \ {next}) = (next + 1)..taken
      BY <1>2, <1>4, <2>1, <2>2
    <2>4. \A i \in results : task[i] = "done"
      BY <1>1 DEF Accounted
    <2> QED
      BY <1>2, <1>3, <2>1, <2>3, <2>4 DEF Accounted, taskVars
  <1>9. BufferBound'
    <2>1. /\ Cardinality(results \ {next}) <= Cardinality(results)
          /\ Cardinality(results \ {next}) \in Nat /\ Cardinality(results) \in Nat
          /\ Cardinality(pending) \in Nat
      BY <1>1, ItemSets DEF TypeOK
    <2>2. MaxBuffer \in Nat /\ MaxPending \in Nat
      BY StreamAssumption
    <2> QED
      BY <1>1, <1>2, <2>1, <2>2 DEF BufferBound
  <1>10. Positions'
    BY <1>2, <1>3, <1>4, <1>6 DEF Positions
  <1>11. TasksInv'
    BY <1>1, <1>2 DEF TasksInv, TaskOK, taskVars
  <1>12. RoomInv'
    BY <1>1, <1>2 DEF RoomInv
  <1> QED
    BY <1>7, <1>8, <1>9, <1>10, <1>11, <1>12 DEF IInv

\* After a wait: what is done moves to the results and tasks are created in its place.
LEMMA WakeStep == IInv /\ Wake => IInv'
  <1> SUFFICES ASSUME IInv, Wake PROVE IInv'
    OBVIOUS
  <1> DEFINE done == {i \in awaited : task[i] = "done"}
             p == pending \ done
             r == results \cup done
  <1>1. TypeOK /\ Accounted /\ BufferBound /\ Positions /\ TasksInv /\ RoomInv
    BY DEF IInv
  <1>2. /\ gen = "waiting" /\ Schedule(p, r) /\ results' = r /\ gen' = "loop" /\ awaited' = {}
        /\ UNCHANGED <<next, output, consumer, outcome, attempts>>
    BY DEF Wake, Moved
  <1>3. /\ pending \in SUBSET Items /\ results \in SUBSET Items /\ done \in SUBSET pending
        /\ pending \cap results = {} /\ pending \cup results = next..taken
        /\ Cardinality(pending) <= MaxPending
    BY <1>1, <1>2 DEF TypeOK, Accounted, Positions, Front
  <1>4. /\ p \in SUBSET Items /\ r \in SUBSET Items /\ p \cap r = {} /\ p \cup r = next..taken
        /\ \A i \in Items : task[i] \in Active => i \in p
        /\ \A i \in r : task[i] = "done"
    BY <1>1, <1>3 DEF TasksInv, TaskOK, Active, Accounted
  <1>5. /\ Cardinality(p) <= MaxPending
        /\ Cardinality(r) + Cardinality(p) < MaxBuffer + MaxPending
    <2>1. /\ Cardinality(r) + Cardinality(p) = Cardinality(results) + Cardinality(pending)
          /\ Cardinality(p) <= Cardinality(pending)
      BY <1>3, MoveSize
    <2>2. Cardinality(p) \in Nat /\ Cardinality(pending) \in Nat /\ MaxPending \in Nat
      BY <1>3, <1>4, ItemSets, StreamAssumption
    <2> QED
      BY <1>1, <1>3, <2>1, <2>2 DEF BufferBound
  <1> HIDE DEF p, r, done
  <1> QED
    BY <1>2, <1>4, <1>5, ScheduleStep

\* Every step of the stream keeps the invariant.
LEMMA NextInv == IInv /\ [Next]_vars => IInv'
  <1> SUFFICES ASSUME IInv, [Next]_vars PROVE IInv'
    OBVIOUS
  <1>1. TypeOK /\ Accounted /\ BufferBound /\ Positions /\ TasksInv /\ RoomInv
    BY DEF IInv
  <1>2. /\ NumItems \in Nat /\ MaxPending \in Nat \ {0} /\ MaxBuffer \in Nat \ {0}
        /\ taken \in 0..NumItems /\ next \in 1..(NumItems + 1)
    BY <1>1, StreamAssumption DEF TypeOK
  <1>3. CASE Start
    <2>1. pending = {} /\ results = {} /\ next..taken = {} /\ next = 1 /\ taken = 0
      <3>1. next..taken = {}
        BY <1>1, <1>3 DEF Start, Positions
      <3> QED
        BY <1>1, <1>3, <3>1 DEF Start, Positions, Accounted, Front
    <2>2. \A i \in Items : task[i] \notin Active
      BY <1>1, <2>1 DEF TasksInv, TaskOK
    <2>3. Cardinality({}) <= MaxPending /\ Cardinality({}) + Cardinality({}) < MaxBuffer + MaxPending
      BY <1>2, FS_EmptySet
    <2>4. /\ gen = "start" /\ Schedule({}, {}) /\ results' = {} /\ gen' = "loop"
          /\ awaited' \subseteq Items
          /\ UNCHANGED <<next, output, consumer, outcome, attempts>>
      BY <1>1, <1>3, <2>1 DEF Start, TypeOK
    <2> QED
      BY <2>1, <2>2, <2>3, <2>4, ScheduleStep
  <1>4. CASE Yield
    BY <1>4, YieldStep
  <1>5. CASE Resume
    <2>1. /\ gen = "suspended" /\ next' = next + 1 /\ gen' = "loop"
          /\ UNCHANGED <<taken, exhausted, pending, results, output, awaited, consumer, taskVars>>
      BY <1>5 DEF Resume
    <2>2. Front = next + 1 /\ Front' = next + 1
      BY <2>1 DEF Front
    <2>3. next + 1 \in 1..(NumItems + 1)
      BY <1>1, <1>2, <2>2 DEF Positions
    <2>4. TypeOK'
      BY <1>1, <2>1, <2>3 DEF TypeOK, taskVars
    <2>5. Accounted' /\ BufferBound' /\ Positions'
      BY <1>1, <2>1, <2>2 DEF Accounted, BufferBound, Positions, taskVars
    <2>6. TasksInv' /\ RoomInv'
      BY <1>1, <2>1 DEF TasksInv, TaskOK, RoomInv, taskVars
    <2> QED
      BY <2>4, <2>5, <2>6 DEF IInv
  <1>6. CASE Wait
    <2>1. /\ gen = "loop" /\ next \notin results
          /\ UNCHANGED <<taken, exhausted, pending, results, next, output, consumer, taskVars>>
      BY <1>6 DEF Wait, Candidates
    <2>2. pending \cup results = next..taken
      BY <1>1, <2>1 DEF Accounted, Front
    <2>3. AwaitNext => next \in pending
      <3>1. SUFFICES ASSUME AwaitNext PROVE next \in pending
        OBVIOUS
      <3>2. results # {}
        BY <1>2, <3>1, FS_EmptySet DEF AwaitNext
      <3>3. next \in next..taken
        BY <1>2, <2>2, <3>2
      <3> QED
        BY <2>1, <2>2, <3>3
    <2>4. gen' = "waiting" /\ awaited' \subseteq pending
      BY <1>6, <2>3 DEF Wait
    <2>5. Front = next /\ Front' = next
      BY <2>1, <2>4 DEF Front
    <2>6. TypeOK'
      BY <1>1, <2>1, <2>4 DEF TypeOK, taskVars
    <2>7. Accounted' /\ BufferBound' /\ Positions'
      BY <1>1, <2>1, <2>4, <2>5 DEF Accounted, BufferBound, Positions, taskVars
    <2>8. TasksInv' /\ RoomInv'
      BY <1>1, <2>1, <2>4 DEF TasksInv, TaskOK, RoomInv, taskVars
    <2> QED
      BY <2>6, <2>7, <2>8 DEF IInv
  <1>7. CASE Wake
    BY <1>7, WakeStep
  <1>8. CASE Finish
    <2>1. /\ gen = "loop" /\ pending = {} /\ gen' = "ended"
          /\ UNCHANGED <<taken, exhausted, pending, results, next, output, awaited, consumer,
                         taskVars>>
      BY <1>8 DEF Finish
    <2>2. Front = next /\ Front' = next
      BY <2>1 DEF Front
    <2>3. \A i \in Items : task[i] \notin Active
      BY <1>1, <2>1 DEF TasksInv, TaskOK
    <2>4. TypeOK' /\ BufferBound' /\ Positions'
      BY <1>1, <2>1, <2>2 DEF TypeOK, BufferBound, Positions, taskVars
    <2>5. Accounted'
      BY <1>1, <2>1, <2>2, <2>3 DEF Accounted, Active, taskVars
    <2>6. TasksInv' /\ RoomInv'
      BY <1>1, <2>1 DEF TasksInv, TaskOK, RoomInv, taskVars
    <2> QED
      BY <2>4, <2>5, <2>6 DEF IInv
  <1>9. CASE Close
    <2>1. /\ gen = "suspended" /\ task' = Cancelled(pending) /\ pending' = {} /\ gen' = "closed"
          /\ UNCHANGED <<taken, exhausted, results, next, output, awaited, consumer, outcome,
                         attempts>>
      BY <1>9 DEF Close
    <2>2. Front = next + 1 /\ Front' = next + 1
      BY <2>1 DEF Front
    <2>3. task' = [i \in Items |-> IF i \in pending THEN "cancelled" ELSE task[i]]
      BY <2>1 DEF Cancelled
    <2>4. Cardinality({}) = 0
      BY FS_EmptySet
    <2>5. TypeOK'
      <3>1. task' \in [Items -> TaskStates]
        BY <1>1, <2>3 DEF TypeOK, TaskStates
      <3> QED
        BY <1>1, <1>2, <2>1, <2>4, <3>1 DEF TypeOK, TaskStates
    <2>6. \A i \in Items : task'[i] \notin Active
      BY <1>1, <2>3 DEF TasksInv, TaskOK, Active
    <2>7. Accounted'
      <3>1. /\ pending \cap results = {} /\ results \subseteq Front..taken
            /\ \A i \in results : i \in Items /\ task[i] = "done"
        BY <1>1, <2>1 DEF Accounted, TypeOK
      <3>2. \A i \in results : task'[i] = "done"
        BY <2>3, <3>1
      <3> QED
        BY <2>1, <2>2, <2>6, <3>1, <3>2 DEF Accounted, Active
    <2>8. BufferBound'
      <3>1. Cardinality(results) \in Nat /\ Cardinality(pending) \in Nat
        BY <1>1, ItemSets DEF TypeOK
      <3> QED
        BY <1>1, <1>2, <2>1, <2>4, <3>1 DEF BufferBound
    <2>9. Positions'
      BY <1>1, <2>1, <2>2 DEF Positions
    <2>10. TasksInv'
      <3> SUFFICES ASSUME NEW i \in Items PROVE TaskOK(i)'
        BY DEF TasksInv
      <3>1. TaskOK(i) /\ (i \in pending => ~(i > taken))
        <4>1. i \in pending => i \in (next + 1)..taken
          BY <1>1, <2>1, <2>2 DEF Accounted
        <4>2. i \in Nat
          BY <1>2 DEF Items
        <4> QED
          BY <1>1, <1>2, <4>1, <4>2 DEF TasksInv
      <3>2. CASE i \in pending
        BY <2>1, <2>3, <2>6, <3>1, <3>2 DEF TaskOK, Active
      <3>3. CASE i \notin pending
        BY <2>1, <2>3, <2>6, <3>1, <3>3 DEF TaskOK, Active
      <3> QED
        BY <3>2, <3>3
    <2>11. RoomInv'
      BY <1>1, <2>1 DEF RoomInv
    <2> QED
      BY <2>5, <2>7, <2>8, <2>9, <2>10, <2>11 DEF IInv
  <1>10. CASE Ask \/ Leave \/ UNCHANGED vars
    <2>1. UNCHANGED <<genVars, taskVars>> /\ consumer' \in {"asking", "holding", "gone"}
      BY <1>1, <1>10 DEF Ask, Leave, vars, TypeOK
    <2>2. TypeOK' /\ Accounted' /\ BufferBound'
      BY <1>1, <2>1 DEF TypeOK, Accounted, BufferBound, Front, genVars, taskVars
    <2>3. Positions' /\ TasksInv' /\ RoomInv'
      BY <1>1, <2>1 DEF Positions, Front, TasksInv, TaskOK, RoomInv, genVars, taskVars
    <2> QED
      BY <2>2, <2>3 DEF IInv
  <1>11. CASE \E i \in Items : Task(i)
    BY <1>11, TaskStep
  <1> QED
    BY <1>3, <1>4, <1>5, <1>6, <1>7, <1>8, <1>9, <1>10, <1>11 DEF Next, Generator

\* The inductive invariant holds in every state of the stream.
LEMMA Invariance == Spec => []IInv
  BY InitInv, NextInv, PTL DEF Spec

----------------------------------------------------------------------------
(***************************************************************************)
(* The theorems                                                            *)
(***************************************************************************)
\* The variables of the generator and of the tasks keep their types; fn is called for an
\* item once and NumRetries times more at most, and no more than MaxPending are pending.
THEOREM TypeCorrect == Spec => []TypeOK
  <1>1. IInv => TypeOK
    BY DEF IInv
  <1> QED
    BY <1>1, Invariance, PTL

\* No item is lost or held twice between _pending and _results, so the index that the
\* generator waits for with a full buffer is pending; and no task outlives the stream.
THEOREM EveryItemAccounted == Spec => []Accounted
  <1>1. IInv => Accounted
    BY DEF IInv
  <1> QED
    BY <1>1, Invariance, PTL

\* What the stream holds exceeds max_buffer_size by less than max_pending.
THEOREM BufferBounded == Spec => []BufferBound
  <1>1. IInv => BufferBound
    BY DEF IInv
  <1> QED
    BY <1>1, Invariance, PTL

\* A step of a task answers its own item, once, or nothing an ordered stream shows.
LEMMA TaskImplements ==
    ASSUME IInv, NEW i \in Items, Task(i)
    PROVE  Ordered!Next \/ UNCHANGED Ordered!svars
  <1>1. outcome[i] = "none" /\ i \in 1..NumItems
    BY DEF IInv, TasksInv, TaskOK, Active, Task, Acquire, Succeed, Fail, Retry, Items
  <1>2. gen' = gen /\ output' = output
    BY DEF Task, Acquire, Succeed, Fail, Retry, genVars
  <1>3. \/ outcome' = outcome
        \/ \E how \in {"ok", "error"} : outcome' = [outcome EXCEPT ![i] = how]
    BY DEF Task, Acquire, Succeed, Fail, Retry
  <1>4. CASE outcome' = outcome
    BY <1>2, <1>4 DEF Ordered!svars
  <1>5. ASSUME NEW how \in {"ok", "error"}, outcome' = [outcome EXCEPT ![i] = how]
        PROVE  Ordered!Next
    <2>1. Ordered!Complete(i, how)
      BY <1>1, <1>2, <1>5 DEF Ordered!Complete
    <2> QED
      BY <1>1, <2>1 DEF Ordered!Next
  <1> QED
    BY <1>3, <1>4, <1>5

\* The next result, handed over, is the outcome of the item behind those already yielded.
LEMMA YieldImplements == IInv /\ Yield => Ordered!Yield
  <1> SUFFICES ASSUME IInv, Yield PROVE Ordered!Yield
    OBVIOUS
  <1>1. /\ gen = "loop" /\ gen' = "suspended" /\ next \in results
        /\ output' = Append(output, outcome[next]) /\ outcome' = outcome
    BY DEF Yield, Candidates, taskVars
  <1>2. next \in Items /\ next <= NumItems /\ NumItems \in Nat
    BY <1>1, StreamAssumption DEF IInv, TypeOK, Items
  <1>3. Len(output) = next - 1
    BY <1>1 DEF IInv, Positions, Front
  <1>4. outcome[next] # "none"
    BY <1>1, <1>2 DEF IInv, Accounted, TasksInv, TaskOK
  <1>5. Len(output) + 1 = next /\ Len(output) < NumItems
    BY <1>2, <1>3 DEF Items
  <1> QED
    BY <1>1, <1>4, <1>5 DEF Ordered!Yield

\* A generator that returns has yielded every item, or a full buffer of them.
LEMMA FinishImplements == IInv /\ Finish => Ordered!Finish
  <1> SUFFICES ASSUME IInv, Finish PROVE Ordered!Finish
    OBVIOUS
  <1>1. /\ gen = "loop" /\ gen' = "ended" /\ next \notin results /\ pending = {}
        /\ output' = output /\ outcome' = outcome
    BY DEF Finish, Candidates, taskVars
  <1>2. Front = next
    BY <1>1 DEF Front
  <1>3. taken \in Nat /\ next \in Nat /\ NumItems \in Nat /\ MaxBuffer \in Nat
    BY StreamAssumption DEF IInv, TypeOK
  <1>4. next \notin next..taken
    BY <1>1, <1>2 DEF IInv, Accounted
  <1>5. Len(output) = taken
    BY <1>2, <1>3, <1>4 DEF IInv, Positions
  <1>6. taken = NumItems \/ taken >= MaxBuffer
    BY <1>1 DEF IInv, RoomInv
  <1> QED
    BY <1>1, <1>5, <1>6 DEF Ordered!Finish

\* A generator that is closed had yielded something before it was abandoned.
LEMMA CloseImplements == IInv /\ Close => Ordered!Abandon
  <1> SUFFICES ASSUME IInv, Close PROVE Ordered!Abandon
    OBVIOUS
  <1>1. gen = "suspended" /\ gen' = "closed" /\ output' = output /\ outcome' = outcome
    BY DEF Close
  <1>2. Len(output) = next /\ next \in Nat \ {0}
    BY <1>1, StreamAssumption DEF IInv, TypeOK, Positions, Front
  <1>3. output # <<>>
    BY <1>2
  <1> QED
    BY <1>1, <1>3 DEF Ordered!Abandon

\* Every step of the stream is a step of an ordered stream, or one that it does not see.
LEMMA NextImplements == IInv /\ [Next]_vars => [Ordered!Next]_(Ordered!svars)
  <1> SUFFICES ASSUME IInv, [Next]_vars PROVE Ordered!Next \/ UNCHANGED Ordered!svars
    BY Zenon
  <1>1. CASE Yield
    BY <1>1, YieldImplements DEF Ordered!Next
  <1>2. CASE Finish
    BY <1>2, FinishImplements DEF Ordered!Next
  <1>3. CASE Close
    BY <1>3, CloseImplements DEF Ordered!Next
  <1>4. CASE Start \/ Resume \/ Wake
    BY <1>4 DEF Start, Resume, Wake, taskVars, Ordered!svars
  <1>5. CASE Wait
    <2>1. /\ gen = "loop" /\ gen' \in {"waiting", "failed"}
          /\ output' = output /\ outcome' = outcome
      BY <1>5 DEF Wait, taskVars
    <2> QED
      BY <2>1 DEF Ordered!svars
  <1>6. CASE Ask \/ Leave \/ UNCHANGED vars
    BY <1>6 DEF Ask, Leave, vars, genVars, taskVars, Ordered!svars
  <1>7. CASE \E i \in Items : Task(i)
    BY <1>7, TaskImplements
  <1> QED
    BY <1>1, <1>2, <1>3, <1>4, <1>5, <1>6, <1>7 DEF Next, Generator

\* The stream is an ordered stream: each outcome is the one of its own item, in the order
\* of the items, and before a full buffer of them the stream ends with the last item only.
THEOREM StreamIsOrdered == Spec => ImplementsOrderedStream
  <1>1. Init => Ordered!Init
    BY DEF Init, Items, Ordered!Init
  <1> QED
    BY <1>1, NextImplements, Invariance, PTL DEF Spec, ImplementsOrderedStream, Ordered!Spec

=============================================================================
