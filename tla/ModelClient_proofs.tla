------------------------- MODULE ModelClient_proofs -------------------------
(***************************************************************************)
(* What the client promises the threads that call make_batch_requests, for  *)
(* any number of threads, any batches and any size of the queue, whatever   *)
(* the threads, the worker, the request tasks and shutdown do:              *)
(*   - a duplicate's answer is that of the request it copies (CopiesAgree); *)
(*   - a call returns what it was asked (ReturnsRight);                     *)
(*   - until shutdown each unanswered request is in exactly one place       *)
(*     (HeldOnceAlways);                                                    *)
(*   - the client implements the service (IsService).                       *)
(***************************************************************************)
EXTENDS ModelClient, FiniteSetTheorems, WellFoundedInduction, TLAPS

TaskStates == {"none", "created", "calling", "answering", "failing"}
WorkerStates == {"fetch", "waiting", "scan", "nap", "backoff", "refusing", "stopped", "dead"}
ShutStates == {"no", "pending", "sweep", "strike", "clear", "requests", "retries", "cancel",
               "release", "done", "aborted"}

\* The thread of request i has submitted it.
Reached(i) ==
    /\ i.call \in DOMAIN asked[i.thread]
    /\ i.pos \in DOMAIN asked[i.thread][i.call]
    /\ i.call = Len(asked[i.thread]) /\ phase[i.thread] \in {"submit", "enqueue"}
        => i.pos < pos[i.thread]

\* Everything the client holds, wherever it is.
Held ==
    SeqItems(requestQ) \cup SeqItems(retryQ)
    \cup SeqItems(fetched.request) \cup SeqItems(fetched.retry)
    \cup SeqItems(pending) \cup SeqItems(work) \cup processed
    \cup {i \in Item : task[i] # "none"}
    \cup (IF shut = "strike" THEN {victim} ELSE {})

\* Where a thread is in its batch.
ThreadOK(t) ==
    /\ Len(asked[t]) <= MaxCalls
    /\ phase[t] # "idle" => Len(asked[t]) > 0 /\ pos[t] <= Len(Batch(t)) + 1
    /\ phase[t] = "enqueue" => pos[t] <= Len(Batch(t))

ThreadInv == \A t \in Threads : ThreadOK(t)

\* Where the worker is in its list, and what it has yet to back off for.
WorkerInv ==
    /\ worker \in {"scan", "nap", "backoff", "refusing"} => scan \in DOMAIN work
    /\ Len(fetched.request) <= 1 /\ Len(fetched.retry) <= 1
    /\ worker = "backoff" => lastTransient
    /\ lastTransient => numBackoffs < MaxBackoffs

\* A request that goes to the model: it has a prompt and copies no other.
Genuine(i) == KeyOf(i) # None /\ Primary(i) = i

HeldInv == Held \subseteq {i \in Item : Reached(i) /\ Genuine(i)}

EnqueueInv == \A t \in Threads : phase[t] = "enqueue" => Genuine(Current(t))

\* A request not submitted yet is open.
FreshInv == \A i \in Item : ~Reached(i) => answer[i] = Open

\* A copy agrees with the request it copies.
CopiesInv ==
    \A j \in copies :
        /\ Reached(j)
        /\ Primary(j) # j
        /\ answer[j] = answer[Primary(j)]

IInv == TypeOK /\ ThreadInv /\ WorkerInv /\ HeldInv /\ EnqueueInv /\ FreshInv /\ CopiesInv

\* What a step does to answers: it takes none back.
Final == \A i \in Item : answer[i] # Open => answer'[i] = answer[i]

----------------------------------------------------------------------------
(***************************************************************************)
(* Lists and requests                                                      *)
(***************************************************************************)
\* Queue operations add and remove the items they say.
LEMMA ListItems ==
    ASSUME NEW S, NEW s \in Seq(S)
    PROVE  /\ SeqItems(s) \subseteq S
           /\ SeqItems(<<>>) = {}
           /\ \A x \in S : Append(s, x) \in Seq(S) /\ SeqItems(Append(s, x)) = SeqItems(s) \cup {x}
           /\ \A x \in S : <<x>> \in Seq(S) /\ SeqItems(<<x>>) = {x}
           /\ s # <<>> => /\ Head(s) \in SeqItems(s)
                         /\ Tail(s) \in Seq(S)
                         /\ SeqItems(Tail(s)) \subseteq SeqItems(s)
  BY DEF SeqItems

\* The items of two lists one after the other.
LEMMA ConcatItems ==
    ASSUME NEW S, NEW s \in Seq(S), NEW u \in Seq(S)
    PROVE  s \o u \in Seq(S) /\ SeqItems(s \o u) \subseteq SeqItems(s) \cup SeqItems(u)
  BY DEF SeqItems

\* Two lists of at most one item make one of at most two.
LEMMA TwoItems ==
    ASSUME NEW S, NEW s \in Seq(S), NEW u \in Seq(S), Len(s) <= 1, Len(u) <= 1
    PROVE  Len(s \o u) <= 2
  OBVIOUS

\* What a get task obtains is set beside what the other one has.
LEMMA FetchedFacts ==
    ASSUME NEW S, NEW f \in [request : Seq(S), retry : Seq(S)], NEW x \in S
    PROVE  /\ <<x>> \in Seq(S) /\ Len(<<x>>) = 1
           /\ [f EXCEPT !.retry = <<x>>] \in [request : Seq(S), retry : Seq(S)]
           /\ [f EXCEPT !.retry = <<x>>].retry = <<x>>
           /\ [f EXCEPT !.retry = <<x>>].request = f.request
           /\ [f EXCEPT !.request = <<x>>] \in [request : Seq(S), retry : Seq(S)]
           /\ [f EXCEPT !.request = <<x>>].request = <<x>>
           /\ [f EXCEPT !.request = <<x>>].retry = f.retry
  <1>1. <<x>> \in Seq(S) /\ Len(<<x>>) = 1
    OBVIOUS
  <1> DEFINE u == <<x>>
  <1> HIDE DEF u
  <1>2. u \in Seq(S)
    BY <1>1 DEF u
  <1>3. /\ [f EXCEPT !.retry = u] \in [request : Seq(S), retry : Seq(S)]
        /\ [f EXCEPT !.retry = u].retry = u
        /\ [f EXCEPT !.retry = u].request = f.request
        /\ [f EXCEPT !.request = u] \in [request : Seq(S), retry : Seq(S)]
        /\ [f EXCEPT !.request = u].request = u
        /\ [f EXCEPT !.request = u].retry = f.retry
    BY <1>2
  <1> QED
    BY <1>1, <1>3 DEF u

\* A set of numbers that is not empty has a least one.
LEMMA LeastElement ==
    ASSUME NEW T, T \subseteq Nat, T # {}
    PROVE  \E x \in T : \A y \in T : x <= y
  <1> DEFINE Below == {ss \in Nat \X Nat : ss[1] < ss[2]}
  <1>1. Below = OpToRel(<, Nat)
    BY Zenon DEF OpToRel
  <1>2. IsWellFoundedOn(Below, Nat)
    BY <1>1, NatLessThanWellFounded, Zenon
  <1>3. \A x, y \in Nat : y < x => <<y, x>> \in Below
    OBVIOUS
  <1> HIDE DEF Below
  <1>4. PICK x \in T : \A y \in T : <<y, x>> \notin Below
    BY <1>2, WFMin
  <1>5. \A y \in T : ~(y < x)
    BY <1>3, <1>4
  <1>6. \A y \in T : x <= y
    BY <1>5
  <1> QED
    BY <1>6

\* Nothing but the batch itself decides which request answers its duplicates.
LEMMA PrimaryFacts ==
    ASSUME TypeOK, NEW i \in Item,
           i.call \in DOMAIN asked[i.thread], i.pos \in DOMAIN asked[i.thread][i.call]
    PROVE  /\ Primary(i) \in Item
           /\ Primary(i).thread = i.thread /\ Primary(i).call = i.call
           /\ Primary(i).pos \in 1..i.pos
           /\ Primary(Primary(i)) = Primary(i)
           /\ KeyOf(Primary(i)) = KeyOf(i)
           /\ \A q \in 1..(Primary(i).pos - 1) : asked[i.thread][i.call][q] # KeyOf(i)
  <1> DEFINE b == asked[i.thread][i.call]
             Same == {p \in 1..i.pos : b[p] = b[i.pos]}
             IsFirst(p, n) == b[p] = b[n] /\ \A q \in 1..(p - 1) : b[q] # b[n]
  <1>1. i.thread \in Threads /\ i.call \in 1..MaxCalls /\ i.pos \in 1..MaxLen
    BY DEF Item
  <1>2. asked[i.thread] \in Seq(Batches)
    BY <1>1 DEF TypeOK
  <1>3. b \in Seq(Keys \cup {None})
    BY <1>2, ModelClientAssumption
  <1>4. MaxLen \in Nat /\ i.pos \in Nat
    BY <1>1, ModelClientAssumption
  <1>5. i.pos \in Same /\ Same \subseteq Nat
    BY <1>1, <1>4
  <1>6. PICK p \in Same : \A y \in Same : p <= y
    <2> HIDE DEF Same
    <2> QED BY <1>5, LeastElement
  <1>7. p \in 1..i.pos /\ IsFirst(p, i.pos)
    BY <1>4, <1>6
  <1> DEFINE first == CHOOSE x \in 1..i.pos : IsFirst(x, i.pos)
  <1>8. first \in 1..i.pos /\ IsFirst(first, i.pos)
    <2> HIDE DEF IsFirst
    <2> QED BY <1>7
  <1>9. Primary(i) = [i EXCEPT !.pos = first]
    BY DEF Primary
  <1> HIDE DEF first
  <1>10. /\ Primary(i) \in Item
         /\ Primary(i).thread = i.thread /\ Primary(i).call = i.call
         /\ Primary(i).pos = first
    BY <1>1, <1>4, <1>8, <1>9 DEF Item
  <1> DEFINE again == CHOOSE x \in 1..first : IsFirst(x, first)
  <1>11. Primary(Primary(i)) = [Primary(i) EXCEPT !.pos = again]
    <2> DEFINE j == Primary(i)
    <2>1. j.thread = i.thread /\ j.call = i.call /\ j.pos = first
      BY <1>10
    <2> HIDE DEF j
    <2>2. Primary(j) = [j EXCEPT !.pos = again]
      BY <2>1 DEF Primary
    <2> QED BY <2>2 DEF j
  <1>12. first \in 1..first /\ IsFirst(first, first)
    BY <1>4, <1>8
  <1>13. \A x \in 1..first : IsFirst(x, first) => x = first
    BY <1>4, <1>8, SMTT(20)
  <1>14. again = first
    <2> HIDE DEF IsFirst
    <2> QED BY <1>12, <1>13
  <1>15. Primary(Primary(i)) = Primary(i)
    <2> HIDE DEF again
    <2> QED BY <1>10, <1>11, <1>14 DEF Item
  <1>16. /\ KeyOf(Primary(i)) = b[first] /\ KeyOf(i) = b[i.pos]
         /\ b[first] = b[i.pos] /\ \A q \in 1..(first - 1) : b[q] # b[i.pos]
    <2>1. \A x, n : IsFirst(x, n) => b[x] = b[n] /\ \A q \in 1..(x - 1) : b[q] # b[n]
      OBVIOUS
    <2> HIDE DEF IsFirst
    <2> QED BY <1>8, <1>10, <2>1 DEF KeyOf
  <1> QED
    BY <1>8, <1>10, <1>15, <1>16

\* What a request is depends on its batch alone.
LEMMA SameRequest ==
    ASSUME NEW i, asked'[i.thread][i.call] = asked[i.thread][i.call]
    PROVE  KeyOf(i)' = KeyOf(i) /\ Primary(i)' = Primary(i) /\ Genuine(i)' = Genuine(i)
  <1>1. KeyOf(i)' = KeyOf(i) /\ Primary(i)' = Primary(i)
    BY DEF KeyOf, Primary
  <1> QED
    BY <1>1 DEF Genuine

\* The part of the type that a thread's step on its own does not touch.
LoopTypes ==
    /\ retryQ \in Seq(Item)
    /\ worker \in WorkerStates
    /\ fetched \in [request : Seq(Item), retry : Seq(Item)]
    /\ pending \in Seq(Item) /\ work \in Seq(Item) /\ Len(pending) <= 2
    /\ scan \in Nat \ {0}
    /\ processed \subseteq Item
    /\ numBackoffs \in 0..MaxBackoffs
    /\ lastTransient \in BOOLEAN
    /\ task \in [Item -> TaskStates]
    /\ shut \in ShutStates
    /\ shutAt \in Nat \ {0} /\ victim \in Item \cup {None} /\ (shut = "strike" => victim \in Item)
    /\ event \in {"unset", "scheduled", "set"}
    /\ loopRunning \in BOOLEAN

\* It stays as it is when nothing of it changes.
LEMMA LoopTypesStay ==
    ASSUME TypeOK, UNCHANGED <<retryQ, workerVars, backoffVars, task, shutVars>>
    PROVE  LoopTypes'
  <1>1. LoopTypes
    BY DEF TypeOK, LoopTypes, TaskStates, WorkerStates, ShutStates
  <1> QED
    BY <1>1 DEF LoopTypes, workerVars, backoffVars, sweepVars, shutVars

\* A thread that stays where it is stays at the same request.
LEMMA SameCurrent ==
    ASSUME NEW u, asked' = asked, pos'[u] = pos[u]
    PROVE  Current(u)' = Current(u) /\ Genuine(Current(u))' = Genuine(Current(u))
  <1>1. Current(u)' = Current(u)
    BY DEF Current
  <1>2. PICK i : i = Current(u)
    OBVIOUS
  <1>3. Genuine(i)' = Genuine(i)
    BY SameRequest
  <1> QED
    BY <1>1, <1>2, <1>3

----------------------------------------------------------------------------
(***************************************************************************)
(* Answers                                                                 *)
(***************************************************************************)
\* Resolving writes answers.
LEMMA ResolveType ==
    ASSUME TypeOK, NEW S \in SUBSET Item, NEW a, \A i \in S : a[i] \in Answer, Resolve(S, a)
    PROVE  answer' \in [Item -> Answer]
  BY DEF TypeOK, Resolve, Settles

\* Registering exceptions writes answers and exceptions.
LEMMA RegisterType ==
    ASSUME TypeOK, NEW S \in SUBSET Item, RegisterExceptions(S)
    PROVE  answer' \in [Item -> Answer] /\ threadExc' \in [Threads -> Exceptions]
  <1>1. \A i \in S : [j \in S |-> Error(j)][i] \in Answer
    BY DEF Answer
  <1>2. answer' \in [Item -> Answer]
    BY <1>1, ResolveType DEF RegisterExceptions
  <1>3. ASSUME NEW t \in Threads, \E i \in S : i.thread = t
        PROVE  Error(CHOOSE i \in S : i.thread = t) \in Exceptions
    BY <1>3 DEF Exceptions
  <1> QED
    BY <1>2, <1>3 DEF TypeOK, RegisterExceptions

\* So does recording one that found its future done.
LEMMA RecordedType ==
    ASSUME TypeOK, NEW i \in Item
    PROVE  Recorded(i) \in [Threads -> Exceptions]
  BY DEF TypeOK, Recorded, Exceptions, Item

\* A step that answers only requests already submitted takes nothing back, and
\* answers a request and its duplicates alike.
LEMMA ResolveStep ==
    ASSUME IInv, NEW S \in SUBSET {i \in Item : Reached(i)}, NEW a, Resolve(S, a),
           UNCHANGED <<asked, copies>>, \A i \in Item : Reached(i) => Reached(i)'
    PROVE  FreshInv' /\ CopiesInv' /\ Final
  <1> USE DEF IInv
  <1>1. copies \subseteq Item /\ answer \in [Item -> Answer]
    BY DEF TypeOK
  <1>2. \A j \in copies : /\ Reached(j) /\ Primary(j) \in Item
                          /\ Primary(j) \notin copies
                          /\ answer[j] = answer[Primary(j)]
    <2> SUFFICES ASSUME NEW j \in copies
                 PROVE  /\ Reached(j) /\ Primary(j) \in Item
                        /\ Primary(j) \notin copies
                        /\ answer[j] = answer[Primary(j)]
      OBVIOUS
    <2>1. Reached(j) /\ Primary(j) # j /\ answer[j] = answer[Primary(j)]
      BY DEF CopiesInv
    <2>2. Primary(j) \in Item /\ Primary(Primary(j)) = Primary(j)
      BY <1>1, <2>1, PrimaryFacts DEF Reached
    <2>3. Primary(j) \notin copies
      BY <2>2 DEF CopiesInv
    <2> QED
      BY <2>1, <2>2, <2>3
  <1>3. \A j \in Item : Primary(j)' = Primary(j)
    BY DEF Primary
  <1>4. \A j \in copies : answer'[j] = IF Settles(Primary(j), S) THEN a[Primary(j)] ELSE answer[j]
    BY <1>1 DEF Resolve
  <1>5. \A j \in Item \ copies : answer'[j] = IF Settles(j, S) THEN a[j] ELSE answer[j]
    BY DEF Resolve
  <1>6. FreshInv'
    BY <1>2, <1>5 DEF FreshInv, Settles
  <1>7. CopiesInv'
    BY <1>1, <1>2, <1>3, <1>4, <1>5 DEF CopiesInv
  <1>8. Final
    BY <1>1, <1>2, <1>4, <1>5 DEF Final, Settles
  <1> QED
    BY <1>6, <1>7, <1>8

\* So does a step that answers nothing.
LEMMA SilentStep ==
    ASSUME IInv, UNCHANGED <<asked, copies, answer>>,
           \A i \in Item : Reached(i) => Reached(i)'
    PROVE  FreshInv' /\ CopiesInv' /\ Final
  <1>1. copies \subseteq Item
    BY DEF IInv, TypeOK
  <1>2. \A j \in Item : Primary(j)' = Primary(j)
    BY DEF Primary
  <1> QED
    BY <1>1, <1>2 DEF IInv, FreshInv, CopiesInv, Final

\* While no thread moves, what is submitted stays submitted.
LEMMA ThreadsStill ==
    ASSUME IInv, UNCHANGED <<phase, asked, pos>>
    PROVE  /\ ThreadInv' /\ EnqueueInv'
           /\ \A i \in Item : Reached(i) => Reached(i)'
           /\ \A i \in Item : Genuine(i) => Genuine(i)'
  <1>1. \A i \in Item : Genuine(i) => Genuine(i)'
    BY SameRequest
  <1>2. EnqueueInv'
    <2>1. \A u \in Threads : Genuine(Current(u))' = Genuine(Current(u))
      BY SameCurrent
    <2> QED
      BY <2>1 DEF IInv, EnqueueInv
  <1> QED
    BY <1>1, <1>2 DEF IInv, ThreadInv, ThreadOK, Reached, Batch

\* A step of the event loop or of shutdown that leaves the threads alone preserves
\* the invariant if it adds nothing to what the client holds.
LEMMA ClientStep ==
    ASSUME IInv, UNCHANGED <<phase, asked, pos, copies>>, TypeOK', WorkerInv', Held' \subseteq Held,
           \/ UNCHANGED answer
           \/ \E S \in SUBSET Held : \E a \in [S -> Answer] : Resolve(S, a)
           \/ \E S \in SUBSET Held : RegisterExceptions(S)
    PROVE  IInv' /\ Final
  <1>1. /\ ThreadInv' /\ EnqueueInv'
        /\ \A i \in Item : Reached(i) => Reached(i)'
        /\ \A i \in Item : Genuine(i) => Genuine(i)'
    BY ThreadsStill
  <1>2. Held \subseteq {i \in Item : Reached(i) /\ Genuine(i)}
    BY DEF IInv, HeldInv
  <1>3. HeldInv'
    BY <1>1, <1>2 DEF HeldInv
  <1>4. FreshInv' /\ CopiesInv' /\ Final
    <2>1. CASE UNCHANGED answer
      BY <1>1, <2>1, SilentStep
    <2>2. CASE \E S \in SUBSET Held : \E a \in [S -> Answer] : Resolve(S, a)
      BY <1>1, <1>2, <2>2, ResolveStep
    <2>3. CASE \E S \in SUBSET Held : RegisterExceptions(S)
      BY <1>1, <1>2, <2>3, ResolveStep DEF RegisterExceptions
    <2> QED
      BY <2>1, <2>2, <2>3
  <1> QED
    BY <1>1, <1>3, <1>4 DEF IInv

----------------------------------------------------------------------------
(***************************************************************************)
(* The worker                                                              *)
(***************************************************************************)
\* Removing what was processed leaves some of what was pending.
LEMMA KeptFacts ==
    ASSUME TypeOK, NEW done
    PROVE  /\ Kept(done) \in Seq(Item) /\ Len(Kept(done)) <= 2
           /\ SeqItems(Kept(done)) \subseteq SeqItems(pending)
  <1>1. pending \in Seq(Item)
    BY DEF TypeOK
  <1>2. \A n \in {1, 2} : /\ KeptAt(n, done) \in Seq(Item) /\ Len(KeptAt(n, done)) <= 1
                          /\ SeqItems(KeptAt(n, done)) \subseteq SeqItems(pending)
    BY <1>1 DEF KeptAt, SeqItems
  <1>3. /\ Kept(done) \in Seq(Item)
        /\ SeqItems(Kept(done)) \subseteq SeqItems(KeptAt(1, done)) \cup SeqItems(KeptAt(2, done))
    BY <1>2, ConcatItems DEF Kept
  <1>4. Len(Kept(done)) = Len(KeptAt(1, done)) + Len(KeptAt(2, done))
    BY <1>2 DEF Kept
  <1>5. \A n \in {1, 2} : Len(KeptAt(n, done)) \in Nat
    BY <1>2
  <1> QED
    BY <1>2, <1>3, <1>4, <1>5

\* What a step of the for loop leaves of the worker's list.
ListStep(done) ==
    /\ pending' \in Seq(Item) /\ Len(pending') <= 2 /\ work' \in Seq(Item)
    /\ scan' \in Nat \ {0} /\ processed' \subseteq done
    /\ worker' \in {"fetch", "scan", "backoff", "dead"}
    /\ worker' \in {"scan", "backoff"} => scan' \in DOMAIN work'
    /\ SeqItems(pending') \subseteq SeqItems(pending)
    /\ SeqItems(work') \subseteq SeqItems(work) \cup SeqItems(pending)

\* Going on in the list keeps the worker inside it.
LEMMA AdvanceFacts ==
    ASSUME TypeOK, WorkerInv, NEW done \in SUBSET Item, Advance(done),
           worker \in {"scan", "nap", "backoff", "refusing"}
    PROVE  ListStep(done) /\ worker' # "backoff"
  <1>1. scan \in Nat \ {0} /\ work \in Seq(Item) /\ pending \in Seq(Item) /\ Len(pending) <= 2
    BY DEF TypeOK
  <1>2. CASE scan < Len(work)
    BY <1>1, <1>2 DEF Advance, ListStep
  <1>3. CASE ~(scan < Len(work))
    <2> DEFINE kept == Kept(done)
    <2>1. /\ kept \in Seq(Item) /\ Len(kept) <= 2
          /\ SeqItems(kept) \subseteq SeqItems(pending)
      BY KeptFacts
    <2>2. /\ scan' = 1 /\ processed' = {} /\ pending' = kept /\ work' = kept
          /\ worker' = IF ~(done \subseteq SeqItems(pending)) THEN "dead"
                       ELSE IF kept = <<>> THEN "fetch" ELSE "scan"
      BY <1>3 DEF Advance
    <2> HIDE DEF kept
    <2>3. kept # <<>> => 1 \in DOMAIN kept
      BY <2>1
    <2> QED
      BY <2>1, <2>2, <2>3 DEF ListStep
  <1> QED
    BY <1>2, <1>3

\* Backing off, the worker stays where it is in the list.
LEMMA MaybeBackoffFacts ==
    ASSUME TypeOK, WorkerInv, NEW done \in SUBSET Item, MaybeBackoff(done),
           worker \in {"scan", "nap"}
    PROVE  ListStep(done) /\ (worker' = "backoff" => lastTransient)
  <1>1. CASE Advance(done)
    BY <1>1, AdvanceFacts
  <1>2. CASE ~Advance(done)
    BY <1>2 DEF MaybeBackoff, TypeOK, WorkerInv, ListStep
  <1> QED
    BY <1>1, <1>2

\* Every step of the worker preserves the invariant.
LEMMA WorkerStep == IInv /\ Worker => IInv' /\ Final
  <1> SUFFICES ASSUME IInv, Worker PROVE IInv' /\ Final
    OBVIOUS
  <1> USE DEF threadVars, workerVars, backoffVars, sweepVars, shutVars, TaskStates, WorkerStates,
          ShutStates
  <1>1. TypeOK /\ WorkerInv
    BY DEF IInv
  <1>2. /\ requestQ \in Seq(Item) /\ retryQ \in Seq(Item)
        /\ fetched.request \in Seq(Item) /\ fetched.retry \in Seq(Item)
        /\ pending \in Seq(Item) /\ work \in Seq(Item)
        /\ processed \subseteq Item /\ task \in [Item -> TaskStates]
    BY <1>1 DEF TypeOK
  <1>3. worker \in {"scan", "nap", "backoff", "refusing"} => work[scan] \in Item /\ work[scan] \in SeqItems(work)
    BY <1>1, <1>2 DEF WorkerInv, SeqItems
  <1>4. CASE Fetch
    <2>1. TypeOK' /\ WorkerInv' /\ Held' \subseteq Held
      BY <1>1, <1>4 DEF Fetch, TypeOK, WorkerInv, Held
    <2> QED
      BY <1>4, <2>1, ClientStep DEF Fetch
  <1>5. CASE GetRetry
    <2>1. /\ Head(retryQ) \in Item /\ Tail(retryQ) \in Seq(Item)
          /\ <<Head(retryQ)>> \in Seq(Item) /\ Len(<<Head(retryQ)>>) = 1
          /\ fetched'.request = fetched.request /\ fetched'.retry = <<Head(retryQ)>>
          /\ fetched' \in [request : Seq(Item), retry : Seq(Item)]
      <3>1. fetched \in [request : Seq(Item), retry : Seq(Item)]
        BY <1>1 DEF TypeOK
      <3>2. Head(retryQ) \in Item /\ Tail(retryQ) \in Seq(Item)
        BY <1>2, <1>5 DEF GetRetry
      <3>3. fetched' = [fetched EXCEPT !.retry = <<Head(retryQ)>>]
        BY <1>5 DEF GetRetry
      <3> QED
        BY <3>1, <3>2, <3>3, FetchedFacts, Zenon
    <2>2. TypeOK' /\ WorkerInv'
      <3>1. /\ retryQ' = Tail(retryQ) /\ worker = "waiting"
            /\ UNCHANGED <<threadVars, answer, copies, cache, threadExc, requestQ, worker, pending,
                           work, scan, processed, backoffVars, task, shutVars>>
        BY <1>5 DEF GetRetry
      <3>2. TypeOK'
        BY <1>1, <2>1, <3>1 DEF TypeOK
      <3>3. WorkerInv'
        BY <1>1, <2>1, <3>1 DEF WorkerInv
      <3> QED
        BY <3>2, <3>3
    <2>3. Held' \subseteq Held
      BY <1>2, <1>5, <2>1, ListItems DEF GetRetry, Held
    <2> QED
      BY <1>5, <2>2, <2>3, ClientStep DEF GetRetry
  <1>6. CASE GetRequest
    <2>1. /\ Head(requestQ) \in Item /\ Tail(requestQ) \in Seq(Item)
          /\ Len(Tail(requestQ)) <= QueueSize
          /\ <<Head(requestQ)>> \in Seq(Item) /\ Len(<<Head(requestQ)>>) = 1
          /\ fetched'.request = <<Head(requestQ)>> /\ fetched'.retry = fetched.retry
          /\ fetched' \in [request : Seq(Item), retry : Seq(Item)]
      <3>1. fetched \in [request : Seq(Item), retry : Seq(Item)]
        BY <1>1 DEF TypeOK
      <3>2. Head(requestQ) \in Item /\ Tail(requestQ) \in Seq(Item)
        BY <1>2, <1>6 DEF GetRequest
      <3>3. Len(requestQ) <= QueueSize /\ Len(Tail(requestQ)) <= Len(requestQ)
        BY <1>1, <1>2, <1>6 DEF GetRequest, TypeOK
      <3>4. fetched' = [fetched EXCEPT !.request = <<Head(requestQ)>>]
        BY <1>6 DEF GetRequest
      <3>6. Len(Tail(requestQ)) <= QueueSize
        BY <1>2, <3>2, <3>3, ModelClientAssumption
      <3> QED
        BY <3>1, <3>2, <3>4, <3>6, FetchedFacts, Zenon
    <2>2. TypeOK' /\ WorkerInv'
      <3>1. /\ requestQ' = Tail(requestQ) /\ worker = "waiting"
            /\ UNCHANGED <<threadVars, answer, copies, cache, threadExc, retryQ, worker, pending,
                           work, scan, processed, backoffVars, task, shutVars>>
        BY <1>6 DEF GetRequest
      <3>2. TypeOK'
        BY <1>1, <2>1, <3>1 DEF TypeOK
      <3>3. WorkerInv'
        BY <1>1, <2>1, <3>1 DEF WorkerInv
      <3> QED
        BY <3>2, <3>3
    <2>3. Held' \subseteq Held
      BY <1>2, <1>6, <2>1, ListItems DEF GetRequest, Held
    <2> QED
      BY <1>6, <2>2, <2>3, ClientStep DEF GetRequest
  <1>7. CASE Resume
    <2>1. /\ Obtained \in Seq(Item) /\ Len(Obtained) <= 2
          /\ Obtained # <<>> => 1 \in DOMAIN Obtained
          /\ SeqItems(Obtained) \subseteq SeqItems(fetched.request) \cup SeqItems(fetched.retry)
          /\ SeqItems(<<>>) = {}
      <3>1. /\ Obtained \in Seq(Item)
            /\ SeqItems(Obtained) \subseteq SeqItems(fetched.retry) \cup SeqItems(fetched.request)
        BY <1>2, ConcatItems DEF Obtained
      <3>3. Len(Obtained) <= 2
        BY <1>1, <1>2, TwoItems DEF WorkerInv, Obtained
      <3> HIDE DEF Obtained
      <3>4. Obtained # <<>> => 1 \in DOMAIN Obtained
        BY <3>1
      <3> QED
        BY <3>1, <3>3, <3>4, ListItems
    <2>2. TypeOK' /\ WorkerInv'
      <3>1. /\ pending' = Obtained /\ work' = Obtained /\ scan' = 1 /\ processed' = {}
            /\ fetched' = [request |-> <<>>, retry |-> <<>>] /\ worker' = "scan"
            /\ Obtained # <<>>
            /\ shutAt' \in Nat \ {0}
            /\ UNCHANGED <<threadVars, answer, copies, cache, threadExc, requestQ, retryQ,
                           backoffVars, task, shut, victim, event, loopRunning>>
        BY <1>1, <1>7 DEF Resume, PastTheEnd, TypeOK
      <3>2. fetched' \in [request : Seq(Item), retry : Seq(Item)]
        BY <3>1
      <3> HIDE DEF Obtained
      <3>3. TypeOK'
        BY <1>1, <2>1, <3>1, <3>2 DEF TypeOK
      <3>4. WorkerInv'
        BY <1>1, <2>1, <3>1 DEF WorkerInv
      <3> QED
        BY <3>3, <3>4
    <2>3. Held' \subseteq Held
      BY <1>7, <2>1 DEF Resume, Held
    <2> QED
      BY <1>7, <2>2, <2>3, ClientStep DEF Resume
  <1>8. CASE Stop
    <2>1. TypeOK' /\ WorkerInv' /\ Held' \subseteq Held
      BY <1>1, <1>2, <1>8, ListItems DEF Stop, TypeOK, WorkerInv, Held
    <2> QED
      BY <1>8, <2>1, ClientStep DEF Stop
  <1>9. CASE Dispatch
    <2> DEFINE done == processed \cup {work[scan]}
    <2>1. ListStep(done) /\ (worker' = "backoff" => lastTransient)
      BY <1>1, <1>2, <1>3, <1>9, MaybeBackoffFacts DEF Dispatch
    <2>2. TypeOK' /\ WorkerInv'
      <3>3. task' \in [Item -> TaskStates]
        BY <1>1, <1>3, <1>9 DEF Dispatch, TypeOK
      <3>6. worker = "scan"
        BY <1>9 DEF Dispatch
      <3>5. done \subseteq Item
        BY <1>2, <1>3, <3>6
      <3>4. /\ worker' \in WorkerStates
            /\ pending' \in Seq(Item) /\ work' \in Seq(Item) /\ Len(pending') <= 2
            /\ scan' \in Nat \ {0} /\ processed' \subseteq Item
        BY <2>1, <3>5 DEF ListStep
      <3>1. TypeOK'
        BY <1>1, <1>9, <3>3, <3>4 DEF Dispatch, TypeOK
      <3>2. WorkerInv'
        BY <1>1, <1>2, <1>3, <1>9, <2>1 DEF Dispatch, TypeOK, WorkerInv, ListStep
      <3> QED
        BY <3>1, <3>2
    <2>3. Held' \subseteq Held
      BY <1>2, <1>3, <1>9, <2>1 DEF Dispatch, Held, ListStep
    <2> QED
      BY <1>9, <2>2, <2>3, ClientStep DEF Dispatch
  <1>10. CASE Deny
    <2>1. TypeOK' /\ WorkerInv' /\ Held' \subseteq Held
      BY <1>1, <1>10 DEF Deny, TypeOK, WorkerInv, Held
    <2> QED
      BY <1>10, <2>1, ClientStep DEF Deny
  <1>11. CASE Wake
    <2>1. ListStep(processed) /\ (worker' = "backoff" => lastTransient)
      BY <1>1, <1>2, <1>11, MaybeBackoffFacts DEF Wake
    <2>2. TypeOK' /\ WorkerInv'
      <3>1. TypeOK'
        BY <1>1, <1>2, <1>11, <2>1, SMTT(30) DEF Wake, TypeOK, ListStep
      <3>2. WorkerInv'
        BY <1>1, <1>2, <1>11, <2>1 DEF Wake, TypeOK, WorkerInv, ListStep
      <3> QED
        BY <3>1, <3>2
    <2>3. Held' \subseteq Held
      BY <1>11, <2>1 DEF Wake, Held, ListStep
    <2> QED
      BY <1>11, <2>2, <2>3, ClientStep DEF Wake
  <1>12. CASE RefuseTooLarge
    <2> DEFINE done == processed \cup {work[scan]}
    <2>1. CASE answer[work[scan]] = Open
      <3>1. TypeOK' /\ WorkerInv' /\ Held' \subseteq Held
        BY <1>1, <1>12, <2>1 DEF RefuseTooLarge, TypeOK, WorkerInv, Held
      <3> QED
        BY <1>12, <3>1, ClientStep DEF RefuseTooLarge
    <2>2. CASE answer[work[scan]] # Open
      <3>1. ListStep(done) /\ worker' # "backoff"
        BY <1>1, <1>2, <1>3, <1>12, <2>2, AdvanceFacts DEF RefuseTooLarge
      <3>2. threadExc' \in [Threads -> Exceptions]
        BY <1>1, <1>3, <1>12, <2>2, RecordedType DEF RefuseTooLarge
      <3>3. TypeOK'
        <4>1. /\ worker' \in WorkerStates /\ pending' \in Seq(Item) /\ work' \in Seq(Item)
              /\ Len(pending') <= 2 /\ scan' \in Nat \ {0} /\ processed' \subseteq Item
          BY <1>2, <1>3, <1>12, <3>1 DEF RefuseTooLarge, ListStep
        <4> QED
          BY <1>1, <1>12, <3>2, <4>1 DEF RefuseTooLarge, TypeOK
      <3>4. WorkerInv'
        BY <1>1, <1>12, <3>1 DEF RefuseTooLarge, WorkerInv, ListStep
      <3>5. Held' \subseteq Held
        BY <1>3, <1>12, <3>1 DEF RefuseTooLarge, Held, ListStep
      <3> QED
        BY <1>12, <3>3, <3>4, <3>5, ClientStep DEF RefuseTooLarge
    <2> QED
      BY <2>1, <2>2
  <1>14. CASE Refuse
    <2> DEFINE done == processed \cup {work[scan]}
    <2>1. CASE answer[work[scan]] = Open
      <3>1. ListStep(done) /\ worker' # "backoff"
        BY <1>1, <1>2, <1>3, <1>14, <2>1, AdvanceFacts DEF Refuse
      <3>2. answer' \in [Item -> Answer] /\ threadExc' \in [Threads -> Exceptions]
        BY <1>1, <1>3, <1>14, <2>1, RegisterType DEF Refuse
      <3>3. TypeOK'
        BY <1>1, <1>2, <1>3, <1>14, <3>1, <3>2, SMTT(30) DEF Refuse, TypeOK, ListStep
      <3>4. WorkerInv'
        BY <1>1, <1>14, <3>1 DEF Refuse, WorkerInv, ListStep
      <3>5. Held' \subseteq Held
        BY <1>3, <1>14, <3>1 DEF Refuse, Held, ListStep
      <3>6. {work[scan]} \in SUBSET Held
        BY <1>3, <1>14 DEF Refuse, Held
      <3>7. \E S \in SUBSET Held : RegisterExceptions(S)
        BY <1>14, <2>1, <3>6 DEF Refuse
      <3> QED
        BY <1>14, <3>3, <3>4, <3>5, <3>7, ClientStep DEF Refuse
    <2>2. CASE answer[work[scan]] # Open
      <3>1. TypeOK' /\ WorkerInv' /\ Held' \subseteq Held
        BY <1>1, <1>14, <2>2 DEF Refuse, TypeOK, WorkerInv, Held
      <3> QED
        BY <1>14, <2>2, <3>1, ClientStep DEF Refuse
    <2> QED
      BY <2>1, <2>2
  <1>13. CASE EndBackoff
    <2>1. ListStep(processed) /\ worker' # "backoff"
      BY <1>1, <1>2, <1>13, AdvanceFacts DEF EndBackoff
    <2>2. numBackoffs' \in 0..MaxBackoffs /\ lastTransient' = FALSE
      BY <1>1, <1>13, ModelClientAssumption DEF EndBackoff, TypeOK, WorkerInv
    <2>3. TypeOK' /\ WorkerInv'
      <3>1. UNCHANGED <<threadVars, answer, copies, cache, threadExc, requestQ, retryQ, fetched,
                        task, shutVars>>
        BY <1>13 DEF EndBackoff
      <3>2. TypeOK'
        <4>1. /\ worker' \in WorkerStates /\ pending' \in Seq(Item) /\ work' \in Seq(Item)
              /\ Len(pending') <= 2 /\ scan' \in Nat \ {0} /\ processed' \subseteq Item
          BY <1>2, <2>1 DEF ListStep
        <4> QED
          BY <1>1, <2>2, <3>1, <4>1 DEF TypeOK
      <3>3. WorkerInv'
        BY <1>1, <2>1, <2>2, <3>1 DEF WorkerInv, ListStep
      <3> QED
        BY <3>2, <3>3
    <2>4. Held' \subseteq Held
      BY <1>13, <2>1 DEF EndBackoff, Held, ListStep
    <2> QED
      BY <1>13, <2>3, <2>4, ClientStep DEF EndBackoff
  <1> QED
    BY <1>4, <1>5, <1>6, <1>7, <1>8, <1>9, <1>10, <1>11, <1>12, <1>13, <1>14 DEF Worker

----------------------------------------------------------------------------
(***************************************************************************)
(* The request tasks                                                       *)
(***************************************************************************)
\* Every step of a request's task preserves the invariant.
LEMMA TaskStep == ASSUME IInv, NEW i \in Item, Request(i) PROVE IInv' /\ Final
  <1> USE DEF threadVars, workerVars, backoffVars, sweepVars, shutVars, TaskStates, WorkerStates,
          ShutStates
  <1>1. TypeOK /\ WorkerInv
    BY DEF IInv
  <1>2. /\ retryQ \in Seq(Item) /\ task \in [Item -> TaskStates] /\ cache \in [Keys -> Answer]
        /\ Recorded(i) \in [Threads -> Exceptions]
    BY <1>1, RecordedType DEF TypeOK
  <1>3. ASSUME NEW to \in TaskStates, task[i] # "none", task' = [task EXCEPT ![i] = to]
        PROVE  /\ {i} \in SUBSET Held
               /\ task' \in [Item -> TaskStates]
               /\ {j \in Item : task'[j] # "none"} \subseteq {j \in Item : task[j] # "none"}
    BY <1>2, <1>3 DEF Held
  <1>4. /\ {i} \in SUBSET Held
        /\ task' \in [Item -> TaskStates]
        /\ {j \in Item : task'[j] # "none"} \subseteq {j \in Item : task[j] # "none"}
    <2>1. task[i] # "none" /\ \E to \in TaskStates : task' = [task EXCEPT ![i] = to]
      BY DEF Request, StartRequest, EndRequest, Timeout, Transient, Answers, Fatal, Succeed, Fails,
             Ends, SetFuture, SetException, SetResult
    <2> QED
      BY <1>3, <2>1
  <1>5. CASE StartRequest(i)
    <2>1. TypeOK' /\ WorkerInv' /\ Held' \subseteq Held
      BY <1>1, <1>4, <1>5 DEF StartRequest, TypeOK, WorkerInv, Held
    <2> QED
      BY <1>5, <2>1, ClientStep DEF StartRequest
  <1>6. CASE Timeout(i)
    <2>1. TypeOK' /\ WorkerInv'
      BY <1>1, <1>2, <1>4, <1>6 DEF Timeout, TypeOK, WorkerInv
    <2>2. Held' \subseteq Held
      BY <1>2, <1>4, <1>6, ListItems DEF Timeout, Held
    <2> QED
      BY <1>6, <2>1, <2>2, ClientStep DEF Timeout
  <1>7. CASE Transient(i) /\ ~(numBackoffs >= MaxBackoffs)
    <2>1. numBackoffs < MaxBackoffs
      BY <1>1, <1>7, ModelClientAssumption DEF TypeOK
    <2>2. /\ retryQ' = Append(retryQ, i) /\ lastTransient' = TRUE
          /\ UNCHANGED <<answer, threadExc, threadVars, copies, cache, requestQ, workerVars,
                         numBackoffs, shutVars>>
      BY <1>7 DEF Transient
    <2>3. Append(retryQ, i) \in Seq(Item) /\ SeqItems(Append(retryQ, i)) = SeqItems(retryQ) \cup {i}
      BY <1>2, ListItems
    <2>4. TypeOK' /\ WorkerInv'
      <3>1. TypeOK'
        BY <1>1, <1>4, <2>2, <2>3 DEF TypeOK
      <3>2. WorkerInv'
        BY <1>1, <2>1, <2>2 DEF WorkerInv
      <3> QED
        BY <3>1, <3>2
    <2>5. Held' \subseteq Held
      BY <1>4, <2>2, <2>3 DEF Held
    <2> QED
      BY <2>2, <2>4, <2>5, ClientStep
  <1>8. CASE Fatal(i) \/ (Transient(i) /\ numBackoffs >= MaxBackoffs)
    <2>1. /\ threadExc' \in [Threads -> Exceptions]
          /\ UNCHANGED <<threadVars, answer, copies, cache, requestQ, retryQ, workerVars, backoffVars,
                         shutVars>>
      BY <1>1, <1>2, <1>8 DEF Fatal, Transient, Fails, TypeOK
    <2>2. TypeOK' /\ WorkerInv' /\ Held' \subseteq Held
      BY <1>1, <1>4, <2>1 DEF TypeOK, WorkerInv, Held
    <2> QED
      BY <2>1, <2>2, ClientStep
  <1>9. CASE Succeed(i)
    <2>1. cache' \in [Keys -> Answer]
      BY <1>2, <1>9 DEF Succeed, Answer
    <2>2. TypeOK' /\ WorkerInv' /\ Held' \subseteq Held
      BY <1>1, <1>4, <1>9, <2>1 DEF Succeed, TypeOK, WorkerInv, Held
    <2> QED
      BY <1>9, <2>2, ClientStep DEF Succeed
  <1>10. CASE SetException(i)
    <2>1. \/ UNCHANGED answer
          \/ \E S \in SUBSET Held : RegisterExceptions(S)
      BY <1>4, <1>10 DEF SetException
    <2>2. answer' \in [Item -> Answer] /\ threadExc' \in [Threads -> Exceptions]
      BY <1>1, <1>2, <1>10, RegisterType DEF SetException, TypeOK
    <2>3. TypeOK' /\ WorkerInv' /\ Held' \subseteq Held
      <3>1. UNCHANGED <<threadVars, copies, cache, requestQ, retryQ, workerVars, backoffVars, shutVars>>
        BY <1>10 DEF SetException
      <3> QED
        BY <1>1, <1>4, <2>2, <3>1 DEF TypeOK, WorkerInv, Held
    <2> QED
      BY <1>10, <2>1, <2>3, ClientStep DEF SetException
  <1>11. CASE SetResult(i)
    <2> DEFINE a == [j \in {i} |-> Response(j)]
    <2>1. a \in [{i} -> Answer]
      BY DEF Answer
    <2>2. Resolve({i}, a)
      BY <1>11 DEF SetResult
    <2> HIDE DEF a
    <2>3. answer' \in [Item -> Answer]
      BY <1>1, <2>1, <2>2, ResolveType
    <2>4. threadExc' \in [Threads -> Exceptions]
      BY <1>1, <1>2, <1>11 DEF SetResult, TypeOK
    <2>5. TypeOK' /\ WorkerInv' /\ Held' \subseteq Held
      <3>1. UNCHANGED <<threadVars, copies, cache, requestQ, retryQ, workerVars, backoffVars, shutVars>>
        BY <1>11 DEF SetResult
      <3> QED
        BY <1>1, <1>4, <2>3, <2>4, <3>1 DEF TypeOK, WorkerInv, Held
    <2>6. \E S \in SUBSET Held : \E f \in [S -> Answer] : Resolve(S, f)
      BY <1>4, <2>1, <2>2
    <2> QED
      BY <1>11, <2>5, <2>6, ClientStep DEF SetResult
  <1> QED
    BY <1>5, <1>6, <1>7, <1>8, <1>9, <1>10, <1>11 DEF Request, EndRequest, Answers, SetFuture

----------------------------------------------------------------------------
(***************************************************************************)
(* Shutdown                                                                *)
(***************************************************************************)
\* The tasks shutdown cancels are held, and none is left.
LEMMA CancelFacts ==
    ASSUME IInv, CancelTasks
    PROVE  /\ task' \in [Item -> TaskStates]
           /\ {j \in Item : task'[j] # "none"} = {}
           /\ answer' \in [Item -> Answer] /\ threadExc' \in [Threads -> Exceptions]
           /\ \E S \in SUBSET Held : RegisterExceptions(S)
  <1> DEFINE S == {i \in Item : task[i] = "calling"}
  <1>1. S \in SUBSET Item /\ S \in SUBSET Held /\ RegisterExceptions(S)
    BY DEF CancelTasks, Held
  <1>2. task' = [i \in Item |-> "none"]
    BY DEF CancelTasks
  <1> HIDE DEF S
  <1> QED
    BY <1>1, <1>2, RegisterType DEF IInv, TaskStates

\* Every step of shutdown but the last preserves the invariant.
LEMMA ShutdownStep ==
    ASSUME IInv,
           \/ ShutdownBegin \/ SetEvent \/ ShutdownPending \/ ShutdownSweep \/ ShutdownStrike
           \/ ShutdownClear
           \/ ShutdownRequests \/ ShutdownRetries \/ ShutdownCancel \/ ShutdownKeepLoop
    PROVE  IInv' /\ Final
  <1> USE DEF threadVars, workerVars, backoffVars, sweepVars, shutVars, TaskStates, WorkerStates,
          ShutStates
  <1>1. TypeOK /\ WorkerInv
    BY DEF IInv
  <1>2. requestQ \in Seq(Item) /\ retryQ \in Seq(Item) /\ pending \in Seq(Item)
    BY <1>1 DEF TypeOK
  <1>3. CASE ShutdownBegin \/ SetEvent \/ ShutdownPending \/ ShutdownKeepLoop
    <2>1. /\ UNCHANGED <<threadVars, answer, copies, cache, threadExc, requestQ, retryQ,
                         workerVars, backoffVars, task, sweepVars, loopRunning>>
          /\ event' \in {"unset", "scheduled", "set"}
          /\ shut' \in ShutStates /\ (shut' = "strike" => shut = "strike")
      BY <1>1, <1>3 DEF ShutdownBegin, SetEvent, ShutdownPending, ShutdownKeepLoop, TypeOK
    <2>2. TypeOK' /\ WorkerInv' /\ Held' \subseteq Held
      BY <1>1, <2>1 DEF TypeOK, WorkerInv, Held
    <2> QED
      BY <2>1, <2>2, ClientStep
  <1>4. CASE ShutdownSweep
    <2>1. CASE shutAt > Len(pending)
      <3>1. TypeOK' /\ WorkerInv' /\ Held' \subseteq Held
        BY <1>1, <1>4, <2>1 DEF ShutdownSweep, TypeOK, WorkerInv, Held
      <3> QED
        BY <1>4, <3>1, ClientStep DEF ShutdownSweep
    <2>2. CASE ~(shutAt > Len(pending))
      <3> DEFINE i == pending[shutAt]
      <3>1. shutAt \in Nat \ {0} /\ i \in Item /\ i \in SeqItems(pending)
        BY <1>1, <1>2, <2>2 DEF TypeOK, SeqItems
      <3>2. /\ shutAt' = shutAt + 1 /\ shutAt' \in Nat \ {0}
            /\ \/ shut' = "strike" /\ victim' = i /\ UNCHANGED threadExc
               \/ threadExc' = Recorded(i) /\ UNCHANGED <<shut, victim>>
        BY <1>4, <2>2, <3>1 DEF ShutdownSweep
      <3>3. threadExc' \in [Threads -> Exceptions]
        BY <1>1, <3>1, <3>2, RecordedType DEF TypeOK
      <3>4. TypeOK' /\ WorkerInv'
        BY <1>1, <1>4, <3>1, <3>2, <3>3, SMTT(30) DEF ShutdownSweep, TypeOK, WorkerInv
      <3>5. Held' \subseteq Held
        BY <1>4, <3>1, <3>2 DEF ShutdownSweep, Held
      <3> QED
        BY <1>4, <3>4, <3>5, ClientStep DEF ShutdownSweep
    <2> QED
      BY <2>1, <2>2
  <1>5. CASE ShutdownStrike
    <2>1. victim \in Item /\ {victim} \in SUBSET Held
      BY <1>1, <1>5 DEF ShutdownStrike, TypeOK, Held
    <2>2. \/ UNCHANGED answer
          \/ \E S \in SUBSET Held : RegisterExceptions(S)
      BY <1>5, <2>1 DEF ShutdownStrike
    <2>3. answer' \in [Item -> Answer] /\ threadExc' \in [Threads -> Exceptions]
      BY <1>1, <1>5, <2>1, RegisterType DEF ShutdownStrike, TypeOK
    <2>4. TypeOK' /\ WorkerInv' /\ Held' \subseteq Held
      BY <1>1, <1>5, <2>3 DEF ShutdownStrike, TypeOK, WorkerInv, Held
    <2> QED
      BY <1>5, <2>2, <2>4, ClientStep DEF ShutdownStrike
  <1>6. CASE ShutdownClear
    <2>1. TypeOK' /\ WorkerInv' /\ Held' \subseteq Held
      BY <1>1, <1>2, <1>6, ListItems DEF ShutdownClear, TypeOK, WorkerInv, Held
    <2> QED
      BY <1>6, <2>1, ClientStep DEF ShutdownClear
  <1>7. CASE ShutdownRequests /\ requestQ = <<>>
    <2>1. TypeOK' /\ WorkerInv' /\ Held' \subseteq Held
      BY <1>1, <1>7 DEF ShutdownRequests, TypeOK, WorkerInv, Held
    <2> QED
      BY <1>7, <2>1, ClientStep DEF ShutdownRequests
  <1>8. CASE ShutdownRequests /\ requestQ # <<>>
    <2>1. /\ Head(requestQ) \in Item /\ Tail(requestQ) \in Seq(Item)
          /\ Len(Tail(requestQ)) <= QueueSize
      BY <1>1, <1>2, <1>8, ModelClientAssumption DEF TypeOK
    <2>2. {Head(requestQ)} \in SUBSET Item /\ {Head(requestQ)} \in SUBSET Held
      BY <1>2, <1>8, <2>1, ListItems DEF Held
    <2>3. RegisterExceptions({Head(requestQ)}) /\ requestQ' = Tail(requestQ)
      BY <1>8 DEF ShutdownRequests, Drained
    <2>4. answer' \in [Item -> Answer] /\ threadExc' \in [Threads -> Exceptions]
      BY <1>1, <2>2, <2>3, RegisterType
    <2>5. TypeOK' /\ WorkerInv'
      BY <1>1, <1>8, <2>1, <2>3, <2>4 DEF ShutdownRequests, TypeOK, WorkerInv
    <2>6. Held' \subseteq Held
      BY <1>2, <1>8, <2>3, ListItems DEF ShutdownRequests, Held
    <2> QED
      BY <1>8, <2>2, <2>3, <2>5, <2>6, ClientStep DEF ShutdownRequests
  <1>9. CASE ShutdownRetries /\ retryQ = <<>>
    <2>1. TypeOK' /\ WorkerInv' /\ Held' \subseteq Held
      BY <1>1, <1>9 DEF ShutdownRetries, TypeOK, WorkerInv, Held
    <2> QED
      BY <1>9, <2>1, ClientStep DEF ShutdownRetries
  <1>10. CASE ShutdownRetries /\ retryQ # <<>>
    <2>1. Head(retryQ) \in Item /\ Tail(retryQ) \in Seq(Item)
      BY <1>2, <1>10
    <2>2. {Head(retryQ)} \in SUBSET Item /\ {Head(retryQ)} \in SUBSET Held
      BY <1>2, <1>10, <2>1, ListItems DEF Held
    <2>3. RegisterExceptions({Head(retryQ)}) /\ retryQ' = Tail(retryQ)
      BY <1>10 DEF ShutdownRetries, Drained
    <2>4. answer' \in [Item -> Answer] /\ threadExc' \in [Threads -> Exceptions]
      BY <1>1, <2>2, <2>3, RegisterType
    <2>5. TypeOK' /\ WorkerInv'
      BY <1>1, <1>10, <2>1, <2>3, <2>4 DEF ShutdownRetries, TypeOK, WorkerInv
    <2>6. Held' \subseteq Held
      BY <1>2, <1>10, <2>3, ListItems DEF ShutdownRetries, Held
    <2> QED
      BY <1>10, <2>2, <2>3, <2>5, <2>6, ClientStep DEF ShutdownRetries
  <1>11. CASE ShutdownCancel
    <2>1. CancelTasks
      BY <1>11 DEF ShutdownCancel
    <2>2. TypeOK' /\ WorkerInv' /\ Held' \subseteq Held
      BY <1>1, <1>11, <2>1, CancelFacts DEF ShutdownCancel, TypeOK, WorkerInv, Held
    <2> QED
      BY <1>11, <2>1, <2>2, CancelFacts, ClientStep DEF ShutdownCancel
  <1> QED
    BY <1>3, <1>4, <1>5, <1>6, <1>7, <1>8, <1>9, <1>10, <1>11
       DEF ShutdownRequests, ShutdownRetries

\* The step that stops the loop: threads waiting to enqueue are sent away.
LEMMA StopLoopStep == IInv /\ ShutdownStopLoop => IInv' /\ Final
  <1> SUFFICES ASSUME IInv, ShutdownStopLoop PROVE IInv' /\ Final
    OBVIOUS
  <1> USE DEF threadVars, workerVars, backoffVars, sweepVars, shutVars, TaskStates, WorkerStates,
          ShutStates
  <1>1. TypeOK /\ ThreadInv /\ WorkerInv
    BY DEF IInv
  <1>2. CancelTasks /\ UNCHANGED <<asked, pos, copies>>
    BY DEF ShutdownStopLoop
  <1>3. /\ phase' = [t \in Threads |-> IF phase[t] = "enqueue" THEN "idle" ELSE phase[t]]
        /\ phase \in [Threads -> {"idle", "submit", "enqueue", "collect"}]
    BY <1>1 DEF ShutdownStopLoop, TypeOK
  <1>4. verdict' \in [Threads -> Seq({"returned", "raised"})]
    BY <1>1 DEF ShutdownStopLoop, TypeOK
  <1>5. TypeOK' /\ WorkerInv' /\ Held' \subseteq Held
    <2>1. /\ UNCHANGED <<asked, pos, snapshot, copies, cache, requestQ, retryQ, fetched, pending,
                         work, scan, processed, backoffVars, sweepVars, event>>
          /\ shut' = "done" /\ loopRunning' = FALSE
          /\ worker' = IF worker = "dead" THEN "dead" ELSE "stopped"
      BY DEF ShutdownStopLoop
    <2>2. /\ task' \in [Item -> TaskStates] /\ {j \in Item : task'[j] # "none"} = {}
          /\ answer' \in [Item -> Answer] /\ threadExc' \in [Threads -> Exceptions]
      BY <1>1, <1>2, CancelFacts
    <2>3. phase' \in [Threads -> {"idle", "submit", "enqueue", "collect"}]
      BY <1>3
    <2>4. TypeOK'
      BY <1>1, <1>4, <2>1, <2>2, <2>3 DEF TypeOK
    <2>5. WorkerInv'
      BY <1>1, <2>1 DEF WorkerInv
    <2>6. Held' \subseteq Held
      BY <2>1, <2>2 DEF Held
    <2> QED
      BY <2>4, <2>5, <2>6
  <1>6. ThreadInv'
    BY <1>1, <1>2, <1>3 DEF ThreadInv, ThreadOK, Batch
  <1>7. \A i \in Item : Reached(i) => Reached(i)'
    BY <1>2, <1>3 DEF Reached, Item
  <1>8. HeldInv' /\ EnqueueInv'
    <2>1. \A i \in Item : Genuine(i) => Genuine(i)'
      BY <1>2, SameRequest
    <2>2. \A t \in Threads : phase'[t] # "enqueue"
      BY <1>3
    <2> QED
      BY <1>5, <1>7, <2>1, <2>2 DEF IInv, HeldInv, EnqueueInv
  <1>9. FreshInv' /\ CopiesInv' /\ Final
    <2>1. Held \subseteq {i \in Item : Reached(i)}
      BY DEF IInv, HeldInv
    <2> QED
      BY <1>2, <1>7, <2>1, CancelFacts, ResolveStep DEF RegisterExceptions
  <1> QED
    BY <1>5, <1>6, <1>8, <1>9 DEF IInv

----------------------------------------------------------------------------
(***************************************************************************)
(* The user threads                                                        *)
(***************************************************************************)
\* Where a running thread is.
LEMMA RunningFacts ==
    ASSUME IInv, NEW t \in Threads, phase[t] # "idle"
    PROVE  /\ Batch(t) \in Seq(Keys \cup {None}) /\ Len(Batch(t)) \in 0..MaxLen
           /\ asked[t] \in Seq(Batches) /\ Len(asked[t]) \in 1..MaxCalls
           /\ pos[t] \in 1..(Len(Batch(t)) + 1)
           /\ Batch(t) = asked[t][Len(asked[t])]
           /\ MaxLen \in Nat /\ MaxCalls \in Nat
  <1>1. /\ asked[t] \in Seq(Batches) /\ pos[t] \in 1..(MaxLen + 1)
        /\ MaxLen \in Nat /\ MaxCalls \in Nat
    BY ModelClientAssumption DEF IInv, TypeOK
  <1>2. /\ Len(asked[t]) <= MaxCalls /\ Len(asked[t]) > 0 /\ pos[t] <= Len(Batch(t)) + 1
    BY DEF IInv, ThreadInv, ThreadOK
  <1>3. Len(asked[t]) \in 1..MaxCalls
    BY <1>1, <1>2
  <1>4. Batch(t) \in Batches
    BY <1>1, <1>3 DEF Batch
  <1>5. Batch(t) \in Seq(Keys \cup {None}) /\ Len(Batch(t)) <= MaxLen
    BY <1>4, ModelClientAssumption
  <1>6. Len(Batch(t)) \in Nat
    BY <1>5
  <1> QED
    BY <1>1, <1>2, <1>3, <1>5, <1>6 DEF Batch

\* The request a submitting thread is at is not submitted, open, and copied by none.
LEMMA CurrentFacts ==
    ASSUME IInv, NEW t \in Threads, phase[t] \in {"submit", "enqueue"}, pos[t] <= Len(Batch(t))
    PROVE  /\ Current(t) \in Item /\ ~Reached(Current(t)) /\ answer[Current(t)] = Open
           /\ Current(t) \notin copies
           /\ \A j \in copies : Primary(j) # Current(t)
           /\ Current(t).call \in DOMAIN asked[t] /\ Current(t).pos \in DOMAIN asked[t][Current(t).call]
           /\ Primary(Current(t)) \in Item
  <1> DEFINE c == Current(t)
  <1>1. c.thread = t /\ c.call = Len(asked[t]) /\ c.pos = pos[t]
    BY DEF Current
  <1>2. c \in Item
    BY RunningFacts DEF Current, Item
  <1>3. c.call \in DOMAIN asked[t] /\ c.pos \in DOMAIN asked[t][c.call]
    BY <1>1, RunningFacts
  <1>4. pos[t] \in Nat
    BY RunningFacts
  <1> HIDE DEF c
  <1>5. ~Reached(c)
    BY <1>1, <1>4 DEF Reached
  <1>6. answer[c] = Open /\ c \notin copies
    BY <1>2, <1>5 DEF IInv, FreshInv, CopiesInv
  <1>7. TypeOK
    BY DEF IInv
  <1>8. ASSUME NEW j \in copies, Primary(j) = c PROVE FALSE
    <2>1. j \in Item /\ Reached(j)
      BY <1>7 DEF IInv, TypeOK, CopiesInv
    <2>2. j.thread = t /\ j.call = Len(asked[t]) /\ pos[t] \in 1..j.pos
      BY <1>1, <1>7, <1>8, <2>1, PrimaryFacts DEF Reached
    <2>3. j.pos < pos[t]
      BY <2>1, <2>2 DEF Reached
    <2>4. j.pos \in Nat
      BY <2>1, ModelClientAssumption DEF Item
    <2> QED
      BY <1>4, <2>2, <2>3, <2>4
  <1>9. Primary(c) \in Item
    BY <1>1, <1>2, <1>3, <1>7, PrimaryFacts
  <1> QED
    BY <1>2, <1>3, <1>5, <1>6, <1>8, <1>9 DEF c

\* Going on to the next request submits the one the thread was at, and only that one.
LEMMA SubmitFacts ==
    ASSUME IInv, NEW t \in Threads, phase[t] \in {"submit", "enqueue"}, pos[t] <= Len(Batch(t)),
           UNCHANGED asked, phase' = [phase EXCEPT ![t] = "submit"],
           pos' = [pos EXCEPT ![t] = @ + 1]
    PROVE  /\ phase' \in [Threads -> {"idle", "submit", "enqueue", "collect"}]
           /\ pos' \in [Threads -> 1..(MaxLen + 1)]
           /\ ThreadInv'
           /\ \A i \in Item : Reached(i)' <=> Reached(i) \/ i = Current(t)
  <1>1. /\ phase \in [Threads -> {"idle", "submit", "enqueue", "collect"}]
        /\ pos \in [Threads -> 1..(MaxLen + 1)]
    BY DEF IInv, TypeOK
  <1>2. /\ pos[t] \in Nat /\ Len(Batch(t)) \in Nat /\ MaxLen \in Nat /\ Len(Batch(t)) <= MaxLen
        /\ pos[t] >= 1
    BY RunningFacts
  <1>3. /\ phase'[t] = "submit" /\ pos'[t] = pos[t] + 1 /\ Batch(t)' = Batch(t)
        /\ \A u \in Threads \ {t} : phase'[u] = phase[u] /\ pos'[u] = pos[u]
    BY <1>1 DEF Batch
  <1>4. pos' \in [Threads -> 1..(MaxLen + 1)]
    BY <1>1, <1>2
  <1>5. ThreadOK(t)'
    BY <1>2, <1>3, RunningFacts DEF ThreadOK
  <1>6. ASSUME NEW u \in Threads \ {t} PROVE ThreadOK(u)'
    BY <1>3 DEF IInv, ThreadInv, ThreadOK, Batch
  <1>7. ASSUME NEW i \in Item PROVE Reached(i)' <=> Reached(i) \/ i = Current(t)
    <2>1. i.thread \in Threads /\ i.pos \in Nat
      BY ModelClientAssumption DEF Item
    <2>2. CASE i.thread # t
      BY <1>3, <2>1, <2>2 DEF Reached, Current
    <2>3. CASE i.thread = t /\ i.call # Len(asked[t])
      BY <2>3 DEF Reached, Current
    <2>4. CASE i.thread = t /\ i.call = Len(asked[t])
      <3>1. i = Current(t) <=> i.pos = pos[t]
        BY <2>4 DEF Item, Current
      <3>2. i.pos = pos[t] => i.call \in DOMAIN asked[t] /\ i.pos \in DOMAIN asked[t][i.call]
        BY <2>4, CurrentFacts DEF Current
      <3>3. i.pos < pos[t] + 1 <=> i.pos < pos[t] \/ i.pos = pos[t]
        BY <1>2, <2>1
      <3> QED
        BY <1>3, <2>4, <3>1, <3>2, <3>3 DEF Reached
    <2> QED
      BY <2>2, <2>3, <2>4
  <1> QED
    BY <1>1, <1>4, <1>5, <1>6, <1>7 DEF ThreadInv

\* A thread that stops submitting, or collects, has nothing less submitted.
LEMMA MovedFacts ==
    ASSUME IInv, NEW t \in Threads, phase[t] # "idle", UNCHANGED <<asked, copies, answer>>,
           \A u \in Threads \ {t} : phase'[u] = phase[u] /\ pos'[u] = pos[u],
           \/ phase'[t] = "idle"
           \/ phase'[t] = "collect" /\ pos'[t] <= Len(Batch(t)) + 1
           \/ /\ phase[t] = "submit" /\ phase'[t] = "enqueue" /\ pos'[t] = pos[t]
              /\ pos[t] <= Len(Batch(t)) /\ Genuine(Current(t))
    PROVE  /\ ThreadInv' /\ EnqueueInv' /\ FreshInv' /\ CopiesInv' /\ Final
           /\ \A i \in Item : Genuine(i)' = Genuine(i)
           /\ \A i \in Item : Reached(i) => Reached(i)'
  <1>1. ThreadOK(t)'
    BY DEF IInv, ThreadInv, ThreadOK, Batch
  <1>2. ASSUME NEW u \in Threads \ {t} PROVE ThreadOK(u)'
    BY DEF IInv, ThreadInv, ThreadOK, Batch
  <1>3. \A i \in Item : Reached(i) => Reached(i)'
    BY DEF Reached, Item
  <1>4. EnqueueInv'
    <2> SUFFICES ASSUME NEW u \in Threads, phase'[u] = "enqueue" PROVE Genuine(Current(u))'
      BY DEF EnqueueInv
    <2>1. pos'[u] = pos[u]
      OBVIOUS
    <2>2. Genuine(Current(u))
      BY DEF IInv, EnqueueInv
    <2> QED
      BY <2>1, <2>2, SameCurrent
  <1>5. FreshInv' /\ CopiesInv' /\ Final
    BY <1>3, SilentStep
  <1>6. \A i \in Item : Genuine(i)' = Genuine(i)
    BY SameRequest
  <1>7. ThreadInv'
    BY <1>1, <1>2 DEF ThreadInv
  <1> QED
    BY <1>3, <1>4, <1>5, <1>6, <1>7

\* A thread's new batch is not submitted yet.
LEMMA CallStep ==
    ASSUME IInv, NEW t \in Threads, NEW b \in Batches, Call(t, b)
    PROVE  IInv' /\ Final
  <1> USE DEF threadVars, workerVars, backoffVars, sweepVars, shutVars, TaskStates, WorkerStates,
          ShutStates
  <1>1. TypeOK /\ WorkerInv /\ ThreadInv
    BY DEF IInv
  <1>2. /\ asked \in [Threads -> Seq(Batches)] /\ pos \in [Threads -> 1..(MaxLen + 1)]
        /\ phase \in [Threads -> {"idle", "submit", "enqueue", "collect"}]
        /\ MaxLen \in Nat /\ MaxCalls \in Nat /\ copies \subseteq Item
    BY <1>1, ModelClientAssumption DEF TypeOK
  <1>3. /\ phase[t] = "idle" /\ Len(asked[t]) < MaxCalls
        /\ asked' = [asked EXCEPT ![t] = Append(@, b)]
        /\ pos' = [pos EXCEPT ![t] = 1] /\ phase' = [phase EXCEPT ![t] = "submit"]
        /\ UNCHANGED <<answer, copies, task, requestQ, retryQ, fetched, pending, work, processed,
                       shut, victim>>
    BY DEF Call
  <1>4. /\ asked'[t] = Append(asked[t], b) /\ pos'[t] = 1 /\ phase'[t] = "submit"
        /\ \A u \in Threads \ {t} : asked'[u] = asked[u] /\ phase'[u] = phase[u] /\ pos'[u] = pos[u]
    BY <1>2, <1>3
  <1>5. /\ asked[t] \in Seq(Batches) /\ Append(asked[t], b) \in Seq(Batches)
        /\ Len(asked[t]) \in Nat /\ Len(Append(asked[t], b)) = Len(asked[t]) + 1
        /\ \A n \in 1..Len(asked[t]) : Append(asked[t], b)[n] = asked[t][n]
        /\ Append(asked[t], b)[Len(asked[t]) + 1] = b
    BY <1>2
  <1>6. b \in Seq(Keys \cup {None}) /\ Len(b) \in Nat
    BY ModelClientAssumption
  <1>7. TypeOK'
    <2>1. snapshot' \in [Threads -> [Keys -> Answer]]
      BY <1>1 DEF Call, TypeOK, Answer
    <2>2. asked' \in [Threads -> Seq(Batches)]
      BY <1>2, <1>3, <1>5
    <2>3. pos' \in [Threads -> 1..(MaxLen + 1)] /\ 1 \in 1..(MaxLen + 1)
      BY <1>2, <1>3
    <2>4. phase' \in [Threads -> {"idle", "submit", "enqueue", "collect"}]
      BY <1>2, <1>3
    <2> QED
      BY <1>1, <2>1, <2>2, <2>3, <2>4 DEF Call, TypeOK
  <1>8. WorkerInv'
    BY <1>1 DEF Call, WorkerInv
  <1>9. ThreadInv'
    <2>1. ThreadOK(t)'
      BY <1>2, <1>3, <1>4, <1>5, <1>6 DEF ThreadOK, Batch
    <2>2. ASSUME NEW u \in Threads \ {t} PROVE ThreadOK(u)'
      BY <1>1, <1>4 DEF ThreadInv, ThreadOK, Batch
    <2> QED
      BY <2>1, <2>2 DEF ThreadInv
  <1>10. ASSUME NEW i \in Item
         PROVE  /\ Reached(i)' <=> Reached(i)
                /\ Reached(i) => asked'[i.thread][i.call] = asked[i.thread][i.call]
    <2>1. i.thread \in Threads /\ i.call \in Nat /\ i.call >= 1 /\ i.pos \in Nat /\ i.pos >= 1
      BY <1>2 DEF Item
    <2>2. CASE i.thread # t
      BY <1>4, <2>1, <2>2 DEF Reached
    <2>3. CASE i.thread = t /\ i.call = Len(asked[t]) + 1
      BY <1>4, <1>5, <2>1, <2>3 DEF Reached
    <2>4. CASE i.thread = t /\ i.call # Len(asked[t]) + 1
      <3>1. i.call \in DOMAIN asked'[t] <=> i.call \in DOMAIN asked[t]
        BY <1>4, <1>5, <2>1, <2>4
      <3>2. i.call \in DOMAIN asked[t] => asked'[t][i.call] = asked[t][i.call]
        BY <1>4, <1>5, <2>1
      <3> QED
        BY <1>3, <1>4, <1>5, <2>4, <3>1, <3>2 DEF Reached
    <2> QED
      BY <2>2, <2>3, <2>4
  <1>11. HeldInv' /\ FreshInv'
    <2>1. \A i \in Item : Reached(i) /\ Genuine(i) => Reached(i)' /\ Genuine(i)'
      BY <1>10, SameRequest
    <2>2. Held' = Held
      BY <1>3 DEF Held
    <2> QED
      BY <1>3, <1>10, <2>1, <2>2 DEF IInv, HeldInv, FreshInv
  <1>12. \A j \in copies : j \in Item /\ Reached(j) /\ Primary(j)' = Primary(j)
    <2> SUFFICES ASSUME NEW j \in copies
                 PROVE  j \in Item /\ Reached(j) /\ Primary(j)' = Primary(j)
      OBVIOUS
    <2>1. j \in Item /\ Reached(j)
      BY <1>2 DEF IInv, CopiesInv
    <2>2. asked'[j.thread][j.call] = asked[j.thread][j.call]
      BY <1>10, <2>1
    <2> QED
      BY <2>1, <2>2, SameRequest
  <1>13. CopiesInv'
    BY <1>3, <1>10, <1>12 DEF IInv, CopiesInv
  <1>14. Final
    BY <1>3 DEF Final
  <1>15. EnqueueInv'
    <2> SUFFICES ASSUME NEW u \in Threads, phase'[u] = "enqueue" PROVE Genuine(Current(u))'
      BY DEF EnqueueInv
    <2>1. u # t /\ phase[u] = "enqueue" /\ asked'[u] = asked[u] /\ Current(u)' = Current(u)
      BY <1>4 DEF Current
    <2>2. Current(u).thread = u
      BY DEF Current
    <2>3. Genuine(Current(u))
      BY <2>1 DEF IInv, EnqueueInv
    <2>4. PICK i : i = Current(u)
      OBVIOUS
    <2>5. i.thread = u /\ i = Current(u)'
      BY <2>1, <2>2, <2>4
    <2>6. Genuine(i)' <=> Genuine(i)
      BY <2>1, <2>5, SameRequest
    <2> QED
      BY <2>3, <2>4, <2>5, <2>6
  <1> QED
    BY <1>7, <1>8, <1>9, <1>11, <1>13, <1>14, <1>15 DEF IInv

\* A request submitted with its answer: the empty one, a cached one or a duplicate.
LEMMA AnsweredStep ==
    ASSUME IInv, NEW t \in Threads, SubmitAnswered(t) \/ SubmitDuplicate(t)
    PROVE  IInv' /\ Final
  <1> USE DEF threadVars, workerVars, backoffVars, sweepVars, shutVars, TaskStates, WorkerStates,
          ShutStates
  <1> DEFINE c == Current(t)
             a == answer'[c]
  <1>1. TypeOK /\ WorkerInv /\ ThreadInv /\ HeldInv /\ EnqueueInv /\ FreshInv /\ CopiesInv
    BY DEF IInv
  <1>2. /\ answer \in [Item -> Answer] /\ copies \subseteq Item
        /\ snapshot \in [Threads -> [Keys -> Answer]]
        /\ phase \in [Threads -> {"idle", "submit", "enqueue", "collect"}]
    BY <1>1 DEF TypeOK
  <1>3. phase[t] = "submit" /\ pos[t] <= Len(Batch(t))
    BY DEF SubmitAnswered, SubmitDuplicate, Uncached, Submitting
  <1>4. /\ c \in Item /\ ~Reached(c) /\ answer[c] = Open /\ c \notin copies
        /\ \A j \in copies : Primary(j) # c
        /\ Primary(c) \in Item
    BY <1>3, CurrentFacts
  <1>5. /\ pos' = [pos EXCEPT ![t] = @ + 1]
        /\ UNCHANGED <<asked, phase, snapshot, verdict, cache, threadExc, requestQ, retryQ,
                       workerVars, backoffVars, task, shutVars>>
    BY DEF SubmitAnswered, SubmitDuplicate
  <1>6. phase' = [phase EXCEPT ![t] = "submit"]
    BY <1>2, <1>3, <1>5
  <1>7. /\ pos' \in [Threads -> 1..(MaxLen + 1)] /\ ThreadInv'
        /\ \A i \in Item : Reached(i)' <=> Reached(i) \/ i = c
    BY <1>3, <1>5, <1>6, SubmitFacts
  <1>8. \A i \in Item : Primary(i)' = Primary(i) /\ Genuine(i)' = Genuine(i)
    BY <1>5, SameRequest
  <1>9. /\ answer' \in [Item -> Answer] /\ \A i \in Item \ {c} : answer'[i] = answer[i]
        /\ \/ copies' = copies
           \/ copies' = copies \cup {c} /\ Primary(c) # c /\ a = answer[Primary(c)]
    <2>1. CASE SubmitAnswered(t)
      <3> DEFINE k == Batch(t)[pos[t]]
      <3>1. k \in Keys \cup {None}
        BY <1>3, RunningFacts
      <3>2. Null \in Answer /\ (k # None => snapshot[t][k] \in Answer)
        BY <1>2, <3>1 DEF Answer
      <3> QED
        BY <1>2, <1>4, <2>1, <3>2 DEF SubmitAnswered
    <2>2. CASE SubmitDuplicate(t)
      BY <1>2, <1>4, <2>2 DEF SubmitDuplicate, Copied
    <2> QED
      BY <2>1, <2>2
  <1> HIDE DEF c, a
  <1>10. TypeOK'
    <2>1. LoopTypes'
      BY <1>1, <1>5, LoopTypesStay
    <2>2. copies' \subseteq Item
      BY <1>2, <1>4, <1>9
    <2>3. /\ asked' \in [Threads -> Seq(Batches)] /\ snapshot' \in [Threads -> [Keys -> Answer]]
          /\ verdict' \in [Threads -> Seq({"returned", "raised"})]
          /\ phase' \in [Threads -> {"idle", "submit", "enqueue", "collect"}]
          /\ cache' \in [Keys -> Answer] /\ threadExc' \in [Threads -> Exceptions]
          /\ requestQ' \in Seq(Item) /\ Len(requestQ') <= QueueSize
      BY <1>1, <1>5 DEF TypeOK
    <2> QED
      BY <1>7, <1>9, <2>1, <2>2, <2>3 DEF TypeOK, LoopTypes
  <1>11. WorkerInv' /\ HeldInv' /\ EnqueueInv'
    <2>1. \A u \in Threads : phase'[u] = "enqueue" => u # t /\ Current(u)' = Current(u)
      BY <1>3, <1>5 DEF Current
    <2>2. \A u \in Threads : Genuine(Current(u))' <=> KeyOf(Current(u)') # None /\ Primary(Current(u)') = Current(u)'
      BY <1>5 DEF Genuine, KeyOf, Primary
    <2>3. EnqueueInv'
      BY <1>1, <1>5, <2>1, <2>2 DEF EnqueueInv, Genuine
    <2> QED
      BY <1>1, <1>5, <1>7, <1>8, <2>3 DEF WorkerInv, HeldInv, Held
  <1>12. FreshInv'
    BY <1>1, <1>7, <1>9 DEF FreshInv
  <1>13. CopiesInv'
    <2>1. ASSUME NEW j \in copies
          PROVE  /\ Reached(j)' /\ Primary(j)' # j
                 /\ answer'[j] = answer'[Primary(j)']
      <3>1. j \in Item /\ Reached(j) /\ Primary(j) # j /\ answer[j] = answer[Primary(j)]
        BY <1>1, <1>2 DEF CopiesInv
      <3>2. Primary(j) \in Item
        BY <1>1, <3>1, PrimaryFacts DEF Reached
      <3> QED
        BY <1>4, <1>7, <1>8, <1>9, <3>1, <3>2
    <2>2. ASSUME NEW j \in Item, j = c, copies' = copies \cup {c}, Primary(j) # j,
                 answer'[j] = answer[Primary(j)]
          PROVE  Reached(j)' /\ Primary(j)' # j /\ answer'[j] = answer'[Primary(j)']
      BY <1>4, <1>7, <1>8, <1>9, <2>2
    <2>3. CASE copies' = copies
      BY <2>1, <2>3 DEF CopiesInv
    <2>4. CASE copies' = copies \cup {c} /\ Primary(c) # c /\ a = answer[Primary(c)]
      BY <1>4, <2>1, <2>2, <2>4 DEF CopiesInv, a
    <2> QED
      BY <1>9, <2>3, <2>4
  <1>14. Final
    BY <1>4, <1>9 DEF Final
  <1> QED
    BY <1>7, <1>10, <1>11, <1>12, <1>13, <1>14 DEF IInv

\* Every other step of a user thread preserves the invariant.
LEMMA ThreadStep ==
    ASSUME IInv, NEW t \in Threads,
           RaiseThreadException(t) \/ SubmitNew(t) \/ StartCollecting(t) \/ Collect(t)
    PROVE  IInv' /\ Final
  <1> USE DEF threadVars, workerVars, backoffVars, sweepVars, shutVars, TaskStates, WorkerStates,
          ShutStates
  <1>1. TypeOK /\ WorkerInv /\ HeldInv
    BY DEF IInv
  <1>2. /\ phase \in [Threads -> {"idle", "submit", "enqueue", "collect"}]
        /\ pos \in [Threads -> 1..(MaxLen + 1)]
        /\ verdict \in [Threads -> Seq({"returned", "raised"})]
        /\ MaxLen \in Nat
    BY <1>1, ModelClientAssumption DEF TypeOK
  <1>3. UNCHANGED <<asked, snapshot, answer, copies, cache, threadExc, requestQ, retryQ,
                    workerVars, backoffVars, task, shutVars>>
    BY DEF RaiseThreadException, SubmitNew, StartCollecting, Collect
  <1>4. phase[t] \in {"submit", "collect"}
    BY DEF RaiseThreadException, SubmitNew, StartCollecting, Collect, Uncached, Submitting
  <1>5. pos[t] \in 1..(Len(Batch(t)) + 1) /\ Len(Batch(t)) \in 0..MaxLen
    BY <1>4, RunningFacts
  <1>6. verdict' \in [Threads -> Seq({"returned", "raised"})]
    <2>1. \A how \in {"returned", "raised"} :
             EndCall(t, how) => verdict' \in [Threads -> Seq({"returned", "raised"})]
      BY <1>2 DEF EndCall
    <2> QED
      BY <1>2, <2>1 DEF RaiseThreadException, SubmitNew, StartCollecting, Collect
  <1>7. /\ phase' \in [Threads -> {"idle", "submit", "enqueue", "collect"}]
        /\ pos' \in [Threads -> 1..(MaxLen + 1)]
        /\ \A u \in Threads \ {t} : phase'[u] = phase[u] /\ pos'[u] = pos[u]
        /\ \/ phase'[t] = "idle"
           \/ phase'[t] = "collect" /\ pos'[t] <= Len(Batch(t)) + 1
           \/ /\ phase[t] = "submit" /\ phase'[t] = "enqueue" /\ pos'[t] = pos[t]
              /\ pos[t] <= Len(Batch(t)) /\ Genuine(Current(t))
    <2>1. CASE RaiseThreadException(t)
      BY <1>2, <2>1 DEF RaiseThreadException, EndCall
    <2>2. CASE SubmitNew(t)
      <3>1. KeyOf(Current(t)) = Batch(t)[pos[t]]
        BY DEF KeyOf, Current, Batch
      <3>2. Genuine(Current(t)) /\ phase[t] = "submit" /\ pos[t] <= Len(Batch(t))
        BY <2>2, <3>1 DEF SubmitNew, Uncached, Submitting, Genuine
      <3> QED
        BY <1>2, <2>2, <3>2 DEF SubmitNew, EndCall
    <2>3. CASE StartCollecting(t)
      BY <1>2, <1>5, <2>3 DEF StartCollecting
    <2>4. CASE Collect(t)
      <3>1. phase[t] = "collect"
        BY <2>4 DEF Collect
      <3>2. CASE EndCall(t, "returned") \/ EndCall(t, "raised")
        BY <1>2, <2>4, <3>1, <3>2 DEF Collect, EndCall
      <3>3. CASE ~(EndCall(t, "returned") \/ EndCall(t, "raised"))
        <4>1. pos' = [pos EXCEPT ![t] = @ + 1] /\ UNCHANGED phase /\ ~(pos[t] > Len(Batch(t)))
          BY <2>4, <3>3 DEF Collect
        <4>2. pos[t] + 1 \in 1..(MaxLen + 1) /\ pos[t] + 1 <= Len(Batch(t)) + 1
          BY <1>2, <1>5, <4>1
        <4> QED
          BY <1>2, <3>1, <4>1, <4>2
      <3> QED
        BY <3>2, <3>3
    <2> QED
      BY <2>1, <2>2, <2>3, <2>4
  <1>8. /\ ThreadInv' /\ EnqueueInv' /\ FreshInv' /\ CopiesInv' /\ Final
        /\ \A i \in Item : Reached(i) => Reached(i)'
        /\ \A i \in Item : Genuine(i)' = Genuine(i)
    BY <1>3, <1>4, <1>7, MovedFacts
  <1>9. TypeOK' /\ WorkerInv' /\ HeldInv'
    <2>4. LoopTypes'
      BY <1>1, <1>3, LoopTypesStay
    <2>5. /\ asked' \in [Threads -> Seq(Batches)] /\ snapshot' \in [Threads -> [Keys -> Answer]]
          /\ answer' \in [Item -> Answer] /\ copies' \subseteq Item
          /\ cache' \in [Keys -> Answer] /\ threadExc' \in [Threads -> Exceptions]
          /\ requestQ' \in Seq(Item) /\ Len(requestQ') <= QueueSize
      BY <1>1, <1>3 DEF TypeOK
    <2>1. TypeOK'
      BY <1>6, <1>7, <2>4, <2>5 DEF TypeOK, LoopTypes
    <2>2. WorkerInv'
      BY <1>1, <1>3 DEF WorkerInv
    <2>3. HeldInv'
      BY <1>1, <1>3, <1>8 DEF HeldInv, Held
    <2> QED
      BY <2>1, <2>2, <2>3
  <1> QED
    BY <1>8, <1>9 DEF IInv

\* A request put in the queue is submitted.
LEMMA EnqueueStep ==
    ASSUME IInv, NEW t \in Threads, Enqueue(t)
    PROVE  IInv' /\ Final
  <1> USE DEF threadVars, workerVars, backoffVars, sweepVars, shutVars, TaskStates, WorkerStates,
          ShutStates
  <1> DEFINE c == Current(t)
  <1>1. TypeOK /\ WorkerInv /\ ThreadInv /\ HeldInv
    BY DEF IInv
  <1>2. phase[t] = "enqueue" /\ pos[t] <= Len(Batch(t)) /\ Len(requestQ) < QueueSize
    BY <1>1 DEF Enqueue, HasRoom, ThreadInv, ThreadOK
  <1>3. c \in Item /\ Genuine(c)
    BY <1>2, CurrentFacts DEF IInv, EnqueueInv
  <1>4. /\ requestQ' = Append(requestQ, c)
        /\ phase' = [phase EXCEPT ![t] = "submit"] /\ pos' = [pos EXCEPT ![t] = @ + 1]
        /\ UNCHANGED <<asked, snapshot, verdict, answer, copies, cache, threadExc, retryQ,
                       workerVars, backoffVars, task, shutVars>>
    BY DEF Enqueue
  <1>5. /\ phase' \in [Threads -> {"idle", "submit", "enqueue", "collect"}]
        /\ pos' \in [Threads -> 1..(MaxLen + 1)] /\ ThreadInv'
        /\ \A i \in Item : Reached(i)' <=> Reached(i) \/ i = c
    BY <1>2, <1>4, SubmitFacts
  <1> HIDE DEF c
  <1>6. /\ requestQ' \in Seq(Item) /\ Len(requestQ') <= QueueSize
        /\ SeqItems(requestQ') = SeqItems(requestQ) \cup {c}
    <2>1. requestQ \in Seq(Item) /\ Len(requestQ) \in Nat /\ QueueSize \in Nat
      BY <1>1, ModelClientAssumption DEF TypeOK
    <2> QED
      BY <1>2, <1>3, <1>4, <2>1, ListItems
  <1>7. TypeOK' /\ WorkerInv'
    <2>3. LoopTypes'
      BY <1>1, <1>4, LoopTypesStay
    <2>4. /\ asked' \in [Threads -> Seq(Batches)] /\ snapshot' \in [Threads -> [Keys -> Answer]]
          /\ verdict' \in [Threads -> Seq({"returned", "raised"})]
          /\ answer' \in [Item -> Answer] /\ copies' \subseteq Item
          /\ cache' \in [Keys -> Answer] /\ threadExc' \in [Threads -> Exceptions]
      BY <1>1, <1>4 DEF TypeOK
    <2>1. TypeOK'
      BY <1>5, <1>6, <2>3, <2>4 DEF TypeOK, LoopTypes
    <2>2. WorkerInv'
      BY <1>1, <1>4, <1>5 DEF WorkerInv
    <2> QED
      BY <2>1, <2>2
  <1>8. HeldInv' /\ EnqueueInv'
    <2>1. \A i \in Item : Genuine(i)' = Genuine(i)
      BY <1>4, SameRequest
    <2>2. \A u \in Threads : phase'[u] = "enqueue" => phase[u] = "enqueue" /\ Current(u)' = Current(u)
      BY <1>2, <1>4 DEF IInv, TypeOK, Current
    <2>3. \A u \in Threads : Genuine(Current(u))' <=> KeyOf(Current(u)') # None /\ Primary(Current(u)') = Current(u)'
      BY <1>4 DEF Genuine, KeyOf, Primary
    <2>4. EnqueueInv'
      BY <2>2, <2>3 DEF IInv, EnqueueInv, Genuine
    <2> QED
      BY <1>1, <1>3, <1>4, <1>5, <1>6, <2>1, <2>4 DEF HeldInv, Held
  <1>9. FreshInv' /\ CopiesInv' /\ Final
    BY <1>4, <1>5, SilentStep
  <1> QED
    BY <1>5, <1>7, <1>8, <1>9 DEF IInv

----------------------------------------------------------------------------
(***************************************************************************)
(* The theorems                                                            *)
(***************************************************************************)
\* Initially nothing is submitted and nothing answered.
LEMMA InitInv == Init => IInv
  <1> SUFFICES ASSUME Init PROVE IInv
    OBVIOUS
  <1> USE ModelClientAssumption
  <1>1. TypeOK
    <2>1. Open \in Answer /\ NoException \in Exceptions
      BY DEF Answer, Exceptions
    <2>2. /\ pos \in [Threads -> 1..(MaxLen + 1)]
          /\ numBackoffs \in 0..MaxBackoffs /\ Len(requestQ) <= QueueSize
      BY DEF Init
    <2>3. /\ asked \in [Threads -> Seq(Batches)]
          /\ verdict \in [Threads -> Seq({"returned", "raised"})]
          /\ requestQ \in Seq(Item) /\ retryQ \in Seq(Item)
          /\ fetched \in [request : Seq(Item), retry : Seq(Item)]
          /\ pending \in Seq(Item) /\ work \in Seq(Item) /\ Len(pending) <= 2
      BY DEF Init
    <2>4. /\ answer \in [Item -> Answer] /\ cache \in [Keys -> Answer]
          /\ snapshot \in [Threads -> [Keys -> Answer]]
          /\ threadExc \in [Threads -> Exceptions]
      BY <2>1 DEF Init
    <2>5. /\ phase \in [Threads -> {"idle", "submit", "enqueue", "collect"}]
          /\ copies \subseteq Item /\ processed \subseteq Item
          /\ task \in [Item -> TaskStates]
      BY DEF Init, TaskStates
    <2>6. scan \in Nat \ {0} /\ shutAt \in Nat \ {0} /\ victim \in Item \cup {None}
      BY DEF Init
    <2>7. /\ worker \in WorkerStates
          /\ lastTransient \in BOOLEAN
          /\ shut \in ShutStates /\ shut # "strike"
          /\ event \in {"unset", "scheduled", "set"} /\ loopRunning \in BOOLEAN
      BY Zenon DEF Init, WorkerStates, ShutStates
    <2> QED
      BY <2>2, <2>3, <2>4, <2>5, <2>6, <2>7 DEF TypeOK, TaskStates, WorkerStates, ShutStates
  <1>2. ThreadInv /\ WorkerInv
    BY DEF Init, ThreadInv, ThreadOK, WorkerInv
  <1>3. HeldInv /\ EnqueueInv
    BY DEF Init, HeldInv, Held, SeqItems, EnqueueInv
  <1>4. FreshInv /\ CopiesInv
    BY DEF Init, FreshInv, CopiesInv
  <1> QED
    BY <1>1, <1>2, <1>3, <1>4 DEF IInv

\* Every step preserves the invariant and takes no answer back.
LEMMA NextInv == IInv /\ [Next]_vars => IInv' /\ Final
  <1> SUFFICES ASSUME IInv, [Next]_vars PROVE IInv' /\ Final
    OBVIOUS
  <1>1. ASSUME NEW t \in Threads, Thread(t) PROVE IInv' /\ Final
    BY <1>1, AnsweredStep, ThreadStep DEF Thread
  <1>2. ASSUME NEW t \in Threads, Enqueue(t) PROVE IInv' /\ Final
    BY <1>2, EnqueueStep
  <1>3. ASSUME NEW t \in Threads, NEW b \in Batches, Call(t, b) PROVE IInv' /\ Final
    BY <1>3, CallStep
  <1>4. CASE Worker
    BY <1>4, WorkerStep
  <1>5. ASSUME NEW i \in Item, Request(i) PROVE IInv' /\ Final
    BY <1>5, TaskStep
  <1>6. CASE ShutdownBegin \/ SetEvent \/ Shutdown
    BY <1>6, ShutdownStep, StopLoopStep DEF Shutdown
  <1>7. CASE UNCHANGED vars
    <2>1. UNCHANGED <<phase, asked, pos, answer, copies>>
      BY <1>7 DEF vars, threadVars
    <2>2. TypeOK' /\ WorkerInv' /\ Held' \subseteq Held
      BY <1>7 DEF IInv, TypeOK, WorkerInv, Held, vars, threadVars, workerVars, backoffVars,
                  sweepVars, shutVars
    <2> QED
      BY <2>1, <2>2, ClientStep
  <1> QED
    BY <1>1, <1>2, <1>3, <1>4, <1>5, <1>6, <1>7 DEF Next, Terminated

\* The invariant holds always.
THEOREM Invariance == Spec => []IInv
  <1> QED
    BY InitInv, NextInv, PTL DEF Spec

\* The client's state is well typed: the request queue never exceeds its size, what is
\* pending is at most a retry and a request, and the backoffs counted never exceed
\* max_backoffs.
THEOREM TypeCorrect == Spec => []TypeOK
  <1>1. IInv => TypeOK
    BY DEF IInv
  <1> QED
    BY <1>1, Invariance, PTL

\* What a duplicate is answered is what the request it copies is answered.
THEOREM CopiesAgree == Spec => [](\A j \in copies : answer[j] = answer[Primary(j)])
  <1>1. IInv => \A j \in copies : answer[j] = answer[Primary(j)]
    BY DEF IInv, CopiesInv
  <1> QED
    BY <1>1, Invariance, PTL

----------------------------------------------------------------------------
(***************************************************************************)
(* What requests are answered                                              *)
(***************************************************************************)
\* The request's batch was asked for.
Posed(i) ==
    /\ i.call \in DOMAIN asked[i.thread]
    /\ i.pos \in DOMAIN asked[i.thread][i.call]

\* Answer a was made for a request with key k.
MadeFor(a, k) == \E r \in Item : a = Response(r) /\ Posed(r) /\ KeyOf(r) = k

\* Answer a is one that request i may be given.
Fitting(a, i) ==
    IF KeyOf(i) = None THEN a = Null
    ELSE \/ MadeFor(a, KeyOf(i))
         \/ \E r \in Item : a = Error(r) /\ Posed(r) /\ r.thread = i.thread /\ KeyOf(r) = KeyOf(i)

\* The cache, and what a thread read of it, holds responses under their own keys.
SourceInv ==
    /\ \A k \in Keys : cache[k] = Open \/ MadeFor(cache[k], k)
    /\ \A t \in Threads, k \in Keys : snapshot[t][k] = Open \/ MadeFor(snapshot[t][k], k)

\* An answer fits its request, and the first of equal requests has the same.
FutureInv ==
    \A i \in Item : answer[i] # Open => Fitting(answer[i], i) /\ answer[Primary(i)] = answer[i]

\* A running call has submitted the request.
Submitted(i) == Reached(i) /\ i.call = Len(asked[i.thread]) /\ phase[i.thread] # "idle"

\* A submitted request was answered at once, or is on its way, or copies one that is.
SubmittedInv ==
    \A i \in Item : Submitted(i) =>
        /\ KeyOf(i) = None => answer[i] = Null
        /\ KeyOf(i) # None /\ snapshot[i.thread][KeyOf(i)] # Open
              => answer[i] = snapshot[i.thread][KeyOf(i)]
        /\ Primary(i) = i \/ i \in copies \/ answer[i] # Open

\* A thread enqueues only what it did not find in the cache.
UncachedInv == \A t \in Threads : phase[t] = "enqueue" => snapshot[t][KeyOf(Current(t))] = Open

RightInv == SourceInv /\ FutureInv /\ SubmittedInv /\ UncachedInv

\* Requests of a batch that ask for the same have one primary.
LEMMA PrimaryOfDuplicates ==
    ASSUME TypeOK, NEW i \in Item, NEW j \in Item, Posed(i), Posed(j),
           i.thread = j.thread, i.call = j.call, KeyOf(i) = KeyOf(j)
    PROVE  Primary(i) = Primary(j)
  <1> DEFINE p == Primary(i)
             q == Primary(j)
             b == asked[i.thread][i.call]
  <1>1. /\ p \in Item /\ p.thread = i.thread /\ p.call = i.call /\ KeyOf(p) = KeyOf(i)
        /\ \A n \in 1..(p.pos - 1) : b[n] # KeyOf(i)
    BY PrimaryFacts DEF Posed
  <1>2. /\ q \in Item /\ q.thread = i.thread /\ q.call = i.call /\ KeyOf(q) = KeyOf(i)
        /\ \A n \in 1..(q.pos - 1) : b[n] # KeyOf(i)
    BY PrimaryFacts DEF Posed
  <1>3. b[p.pos] = KeyOf(i) /\ b[q.pos] = KeyOf(i)
    BY <1>1, <1>2 DEF KeyOf
  <1>4. /\ p.pos \in Nat /\ p.pos >= 1 /\ q.pos \in Nat /\ q.pos >= 1
        /\ p = [thread |-> p.thread, call |-> p.call, pos |-> p.pos]
        /\ q = [thread |-> q.thread, call |-> q.call, pos |-> q.pos]
    BY <1>1, <1>2, ModelClientAssumption DEF Item
  <1> HIDE DEF p, q, b
  <1>5. p.pos = q.pos
    BY <1>1, <1>2, <1>3, <1>4
  <1>6. p = q
    BY <1>1, <1>2, <1>4, <1>5
  <1> QED
    BY <1>6 DEF p, q

\* The primary of a request that was asked for is one, too.
LEMMA PrimaryPosed ==
    ASSUME TypeOK, NEW i \in Item, Posed(i)
    PROVE  /\ Posed(Primary(i)) /\ Primary(i) \in Item /\ KeyOf(Primary(i)) = KeyOf(i)
           /\ Primary(Primary(i)) = Primary(i)
           /\ Reached(i) => Reached(Primary(i))
           /\ Submitted(i) => Submitted(Primary(i))
  <1> DEFINE p == Primary(i)
  <1>1. /\ p \in Item /\ p.thread = i.thread /\ p.call = i.call /\ KeyOf(p) = KeyOf(i)
        /\ p.pos \in 1..i.pos /\ Primary(p) = p
    BY PrimaryFacts DEF Posed
  <1>2. i.pos \in Nat /\ i.thread \in Threads /\ i.call \in 1..MaxCalls
    BY ModelClientAssumption DEF Item
  <1>3. asked[i.thread] \in Seq(Batches)
    BY <1>2 DEF TypeOK
  <1>4. asked[i.thread][i.call] \in Seq(Keys \cup {None})
    BY <1>3, ModelClientAssumption DEF Posed
  <1>5. pos[i.thread] \in Nat
    <2>1. pos \in [Threads -> 1..(MaxLen + 1)] /\ MaxLen \in Nat
      BY ModelClientAssumption DEF TypeOK
    <2> QED
      BY <1>2, <2>1
  <1> HIDE DEF p
  <1>6. p.pos \in DOMAIN asked[i.thread][i.call]
    BY <1>1, <1>2, <1>4 DEF Posed
  <1>7. Posed(p)
    BY <1>1, <1>6 DEF Posed
  <1>8. Reached(i) => Reached(p)
    BY <1>1, <1>2, <1>5, <1>7 DEF Reached, Posed
  <1>9. Submitted(i) => Submitted(p)
    BY <1>1, <1>8 DEF Submitted
  <1> QED
    BY <1>1, <1>7, <1>8, <1>9 DEF p

\* What was asked for stays asked for.
LEMMA PosedStays ==
    ASSUME TypeOK, [Next]_vars, NEW i \in Item, Posed(i)
    PROVE  Posed(i)' /\ asked'[i.thread][i.call] = asked[i.thread][i.call]
  <1>1. CASE UNCHANGED asked
    BY <1>1 DEF Posed
  <1>2. CASE \E t \in Threads, b \in Batches : Call(t, b)
    <2>1. PICK t \in Threads, b \in Batches : asked' = [asked EXCEPT ![t] = Append(@, b)]
      BY <1>2 DEF Call
    <2>2. asked \in [Threads -> Seq(Batches)] /\ i.thread \in Threads
      BY DEF TypeOK, Item
    <2>3. CASE i.thread = t
      <3>1. asked'[t] = Append(asked[t], b) /\ asked[t] \in Seq(Batches)
        BY <2>1, <2>2
      <3>2. i.call \in 1..Len(asked[t])
        BY <2>3, <3>1 DEF Posed
      <3>3. i.call \in DOMAIN asked'[t] /\ asked'[t][i.call] = asked[t][i.call]
        BY <3>1, <3>2
      <3> QED
        BY <2>3, <3>3 DEF Posed
    <2>4. CASE i.thread # t
      BY <2>1, <2>2, <2>4 DEF Posed
    <2> QED
      BY <2>3, <2>4
  <1>3. UNCHANGED asked \/ \E t \in Threads, b \in Batches : Call(t, b)
    <2>1. ASSUME NEW t \in Threads, Thread(t) \/ Enqueue(t) PROVE UNCHANGED asked
      BY <2>1 DEF Thread, Enqueue, RaiseThreadException, SubmitAnswered, SubmitDuplicate,
                  SubmitNew, StartCollecting, Collect
    <2>2. Worker => UNCHANGED asked
      BY DEF Worker, Fetch, GetRetry, GetRequest, Resume, Stop, Dispatch, Deny, Wake,
             RefuseTooLarge, Refuse, EndBackoff, threadVars
    <2>3. \A r \in Item : Request(r) => UNCHANGED asked
      BY DEF Request, StartRequest, EndRequest, Timeout, Transient, Answers, Fatal, Succeed, Fails, SetFuture,
             SetException, SetResult, Ends, threadVars
    <2>4. ShutdownBegin \/ SetEvent \/ Shutdown => UNCHANGED asked
      BY DEF ShutdownBegin, SetEvent, Shutdown, ShutdownPending, ShutdownSweep, ShutdownStrike,
             ShutdownClear, ShutdownRequests, ShutdownRetries, ShutdownCancel, ShutdownKeepLoop,
             ShutdownStopLoop, threadVars
    <2>5. UNCHANGED vars => UNCHANGED asked
      BY DEF vars, threadVars
    <2> QED
      BY <2>1, <2>2, <2>3, <2>4, <2>5 DEF Next, Terminated
  <1> QED
    BY <1>1, <1>2, <1>3

\* So are the key and the primary of a request, and what fits it.
LEMMA FittingStays ==
    ASSUME TypeOK, [Next]_vars
    PROVE  /\ \A i \in Item : Posed(i) => /\ Posed(i)' /\ KeyOf(i)' = KeyOf(i)
                                          /\ Primary(i)' = Primary(i)
           /\ \A a, k : MadeFor(a, k) => MadeFor(a, k)'
           /\ \A a : \A i \in Item : Posed(i) /\ Fitting(a, i) => Fitting(a, i)'
  <1>1. \A i \in Item : Posed(i) => Posed(i)' /\ KeyOf(i)' = KeyOf(i) /\ Primary(i)' = Primary(i)
    BY PosedStays, SameRequest
  <1>2. \A a, k : MadeFor(a, k) => MadeFor(a, k)'
    BY <1>1 DEF MadeFor
  <1>3. ASSUME NEW a, NEW i \in Item, Posed(i), Fitting(a, i) PROVE Fitting(a, i)'
    BY <1>1, <1>2, <1>3 DEF Fitting
  <1> QED
    BY <1>1, <1>2, <1>3

\* The answers of a step of the loop or of shutdown: to requests the client holds.
Served ==
    \E S \in SUBSET Held : \E a \in [S -> Answer] :
        Resolve(S, a) /\ \A i \in S : a[i] = Response(i) \/ a[i] = Error(i)

\* A step of the worker, of a request's task or of shutdown.
ClientAction ==
    \/ Worker \/ ShutdownBegin \/ SetEvent \/ Shutdown
    \/ \E i \in Item : Request(i)

\* Registered exceptions are answers to requests the client holds.
LEMMA RegisterServes ==
    ASSUME NEW S \in SUBSET Item, S \subseteq Held, RegisterExceptions(S)
    PROVE  Served
  <1> DEFINE a == [i \in S |-> Error(i)]
  <1>1. a \in [S -> Answer] /\ \A i \in S : a[i] = Error(i)
    BY DEF Answer
  <1>2. Resolve(S, a)
    BY DEF RegisterExceptions
  <1> HIDE DEF a
  <1> QED
    BY <1>1, <1>2 DEF Served

\* What the worker, the tasks and shutdown may do to the threads and their answers.
LEMMA ClientFacts ==
    ASSUME IInv, ClientAction
    PROVE  /\ UNCHANGED <<asked, pos, snapshot, copies>>
           /\ \A t \in Threads : phase'[t] = phase[t] \/ phase'[t] = "idle"
           /\ UNCHANGED answer \/ Served
           /\ \A k \in Keys : cache'[k] = cache[k] \/ MadeFor(cache'[k], k)
  <1> USE DEF threadVars, workerVars, backoffVars, sweepVars, shutVars, TaskStates, WorkerStates,
          ShutStates
  <1>1. TypeOK /\ Held \subseteq {i \in Item : Reached(i) /\ Genuine(i)}
    BY DEF IInv, HeldInv
  <1>2. /\ requestQ \in Seq(Item) /\ retryQ \in Seq(Item) /\ pending \in Seq(Item)
        /\ cache \in [Keys -> Answer]
    BY <1>1 DEF TypeOK
  <1>3. CASE Worker /\ ~Refuse
    BY <1>3 DEF Worker, Fetch, GetRetry, GetRequest, Resume, Stop, Dispatch, Deny, Wake,
                RefuseTooLarge, EndBackoff
  <1>4. CASE Refuse
    <2>1. work[scan] \in Held
      <3>1. work \in Seq(Item) /\ scan \in DOMAIN work
        BY <1>1, <1>4 DEF Refuse, IInv, TypeOK, WorkerInv
      <3> QED
        BY <3>1 DEF Held, SeqItems
    <2>2. UNCHANGED answer \/ Served
      BY <1>1, <1>4, <2>1, RegisterServes DEF Refuse
    <2> QED
      BY <1>4, <2>2 DEF Refuse
  <1>5. CASE ShutdownBegin \/ SetEvent \/ ShutdownPending \/ ShutdownSweep \/ ShutdownClear
             \/ ShutdownKeepLoop
    BY <1>5 DEF ShutdownBegin, SetEvent, ShutdownPending, ShutdownSweep, ShutdownClear,
                ShutdownKeepLoop
  <1>6. CASE ShutdownStrike
    <2>1. victim \in Held
      BY <1>6 DEF ShutdownStrike, Held
    <2>2. UNCHANGED answer \/ Served
      BY <1>1, <1>6, <2>1, RegisterServes DEF ShutdownStrike
    <2> QED
      BY <1>6, <2>2 DEF ShutdownStrike
  <1>7. CASE ShutdownRequests
    <2>1. requestQ # <<>> => Head(requestQ) \in Held
      BY <1>2, ListItems DEF Held
    <2>2. UNCHANGED answer \/ Served
      BY <1>1, <1>7, <2>1, RegisterServes DEF ShutdownRequests
    <2> QED
      BY <1>7, <2>2 DEF ShutdownRequests
  <1>8. CASE ShutdownRetries
    <2>1. retryQ # <<>> => Head(retryQ) \in Held
      BY <1>2, ListItems DEF Held
    <2>2. UNCHANGED answer \/ Served
      BY <1>1, <1>8, <2>1, RegisterServes DEF ShutdownRetries
    <2> QED
      BY <1>8, <2>2 DEF ShutdownRetries
  <1>9. CASE ShutdownCancel \/ ShutdownStopLoop
    <2>1. {i \in Item : task[i] = "calling"} \subseteq Held
      BY DEF Held
    <2>2. Served
      BY <1>9, <2>1, RegisterServes DEF ShutdownCancel, ShutdownStopLoop, CancelTasks
    <2> QED
      BY <1>1, <1>9, <2>2 DEF ShutdownCancel, ShutdownStopLoop, TypeOK
  <1>10. ASSUME NEW i \in Item, Request(i)
         PROVE  /\ UNCHANGED <<asked, pos, snapshot, copies>> /\ UNCHANGED phase
                /\ UNCHANGED answer \/ Served
                /\ \A k \in Keys : cache'[k] = cache[k] \/ MadeFor(cache'[k], k)
    <2>1. task[i] # "none"
      BY <1>10 DEF Request, StartRequest, EndRequest, Timeout, Transient, Answers, Fatal, Succeed, Fails, SetFuture,
             SetException, SetResult, Ends
    <2>2. i \in Held /\ Reached(i)
      BY <1>1, <2>1 DEF Held
    <2>3. CASE StartRequest(i) \/ Timeout(i) \/ Transient(i) \/ Fatal(i)
      BY <2>3 DEF StartRequest, Timeout, Transient, Fatal
    <2>4. CASE Succeed(i)
      <3>1. \A k \in Keys : cache'[k] = cache[k] \/ (cache'[k] = Response(i) /\ k = KeyOf(i))
        BY <1>2, <2>4 DEF Succeed
      <3>2. \A k \in Keys : cache'[k] = cache[k] \/ MadeFor(cache'[k], k)
        BY <2>2, <3>1 DEF MadeFor, Reached, Posed
      <3> QED
        BY <2>4, <3>2 DEF Succeed
    <2>5. CASE SetException(i)
      <3>1. UNCHANGED answer \/ Served
        BY <1>1, <2>2, <2>5, RegisterServes DEF SetException
      <3> QED
        BY <2>5, <3>1 DEF SetException
    <2>6. CASE SetResult(i)
      <3> DEFINE a == [j \in {i} |-> Response(j)]
      <3>1. a \in [{i} -> Answer] /\ a[i] = Response(i)
        BY DEF Answer
      <3>2. Resolve({i}, a)
        BY <2>6 DEF SetResult
      <3> HIDE DEF a
      <3>3. Served
        BY <2>2, <3>1, <3>2 DEF Served
      <3> QED
        BY <2>6, <3>3 DEF SetResult
    <2> QED
      BY <1>10, <2>3, <2>4, <2>5, <2>6 DEF Request, EndRequest, Answers, SetFuture
  <1> QED
    BY <1>3, <1>4, <1>5, <1>6, <1>7, <1>8, <1>9, <1>10 DEF ClientAction, Shutdown, Worker

\* Answers given in a step fit their requests, if the step says so of each it gives.
LEMMA FuturesStep ==
    ASSUME IInv, IInv', Final, FutureInv, [Next]_vars,
           \A i \in Item : answer'[i] # answer[i] =>
               Fitting(answer[i], i)' /\ answer'[Primary(i)'] = answer'[i]
    PROVE  FutureInv'
  <1> SUFFICES ASSUME NEW i \in Item, answer'[i] # Open
               PROVE  Fitting(answer[i], i)' /\ answer'[Primary(i)'] = answer'[i]
    BY DEF FutureInv
  <1>1. CASE answer'[i] # answer[i]
    BY <1>1
  <1>2. CASE answer'[i] = answer[i]
    <2>1. Fitting(answer[i], i) /\ answer[Primary(i)] = answer[i] /\ Posed(i) /\ TypeOK
      BY <1>2 DEF FutureInv, IInv, FreshInv, Reached, Posed
    <2>2. Primary(i)' = Primary(i) /\ Primary(i) \in Item
      BY <2>1, FittingStays, PrimaryPosed
    <2>3. answer'[Primary(i)] = answer[Primary(i)]
      BY <1>2, <2>1, <2>2 DEF Final
    <2>4. \A a : Fitting(a, i) => Fitting(a, i)'
      BY <2>1, FittingStays
    <2> QED
      BY <1>2, <2>1, <2>2, <2>3, <2>4 DEF Fitting, MadeFor
  <1> QED
    BY <1>1, <1>2

\* An answer given to a held request fits it and the requests that copy it.
LEMMA ServedFits ==
    ASSUME IInv, [Next]_vars, Served, UNCHANGED <<asked, copies>>, NEW i \in Item,
           answer'[i] # answer[i]
    PROVE  Fitting(answer[i], i)' /\ answer'[Primary(i)'] = answer'[i]
  <1>0. PICK S \in SUBSET Held : \E a \in [S -> Answer] :
            Resolve(S, a) /\ \A n \in S : a[n] = Response(n) \/ a[n] = Error(n)
    BY DEF Served
  <1>1. PICK a \in [S -> Answer] :
            Resolve(S, a) /\ \A n \in S : a[n] = Response(n) \/ a[n] = Error(n)
    BY <1>0
  <1>2. /\ TypeOK /\ copies \subseteq Item
        /\ \A n \in S : n \in Item /\ Reached(n) /\ KeyOf(n) # None /\ Primary(n) = n
    BY DEF IInv, HeldInv, TypeOK, Genuine
  <1> DEFINE j == IF i \in copies THEN Primary(i) ELSE i
  <1>3. /\ answer' = [n \in Item |->
               LET m == IF n \in copies THEN Primary(n) ELSE n
               IN  IF Settles(m, S) THEN a[m] ELSE answer[n]]
    BY <1>1 DEF Resolve
  <1>4. j \in S /\ answer'[i] = a[j]
    BY <1>3 DEF Settles
  <1>5. j \in Item /\ Reached(j) /\ KeyOf(j) # None /\ Primary(j) = j
    BY <1>2, <1>4
  <1>6. Posed(i) /\ Primary(i) = j /\ i.thread = j.thread /\ KeyOf(i) = KeyOf(j)
    <2>1. CASE i \in copies
      <3>1. Reached(i) /\ j = Primary(i)
        BY <2>1 DEF IInv, CopiesInv
      <3>2. Posed(i)
        BY <3>1 DEF Reached, Posed
      <3> QED
        BY <1>2, <3>1, <3>2, PrimaryFacts DEF Posed
    <2>2. CASE i \notin copies
      BY <1>5, <2>2 DEF Reached, Posed
    <2> QED
      BY <2>1, <2>2
  <1> HIDE DEF j
  <1>7. j \notin copies
    BY <1>5 DEF IInv, CopiesInv
  <1>8. Settles(j, S)
    <2>1. Settles(j, S) \/ answer'[i] = answer[i]
      BY <1>3 DEF j
    <2> QED
      BY <2>1
  <1>9. answer'[j] = a[j]
    BY <1>3, <1>5, <1>7, <1>8
  <1>10. Primary(i)' = Primary(i)
    BY SameRequest
  <1>11. Fitting(a[j], i)
    <2>1. a[j] = Response(j) \/ a[j] = Error(j)
      BY <1>1, <1>4
    <2>2. Posed(j) /\ KeyOf(i) # None
      BY <1>5, <1>6 DEF Reached, Posed
    <2> QED
      BY <1>5, <1>6, <2>1, <2>2 DEF Fitting, MadeFor
  <1>12. Fitting(answer[i], i)'
    <2>1. \A x : Fitting(x, i) => Fitting(x, i)'
      BY <1>2, <1>6, FittingStays
    <2> QED
      BY <1>4, <1>11, <2>1 DEF Fitting, MadeFor
  <1> QED
    BY <1>4, <1>6, <1>9, <1>10, <1>12

\* Only responses under their own key are cached and read.
LEMMA SourceStep ==
    ASSUME TypeOK, SourceInv, [Next]_vars,
           \A k \in Keys : cache'[k] = cache[k] \/ MadeFor(cache'[k], k),
           \A t \in Threads, k \in Keys : snapshot'[t][k] \in {snapshot[t][k], cache[k], Open}
    PROVE  SourceInv'
  <1>1. \A a, k : MadeFor(a, k) => \E r \in Item : a = Response(r) /\ Posed(r)' /\ KeyOf(r)' = k
    BY FittingStays DEF MadeFor
  <1>2. \A k \in Keys : cache'[k] = Open \/ MadeFor(cache'[k], k)
    BY DEF SourceInv
  <1>3. \A t \in Threads, k \in Keys : snapshot'[t][k] = Open \/ MadeFor(snapshot'[t][k], k)
    BY DEF SourceInv
  <1>4. \A k \in Keys : cache'[k] = Open \/ MadeFor(cache[k], k)'
    BY <1>1, <1>2 DEF MadeFor
  <1>5. \A t \in Threads, k \in Keys : snapshot'[t][k] = Open \/ MadeFor(snapshot[t][k], k)'
    BY <1>1, <1>3 DEF MadeFor
  <1> QED
    BY <1>4, <1>5 DEF SourceInv

\* What was true of a submitted request stays true of it.
LEMMA SubmittedStays ==
    ASSUME IInv, Final, RightInv, UNCHANGED asked, copies \subseteq copies',
           NEW i \in Item, Submitted(i), UNCHANGED snapshot[i.thread]
    PROVE  /\ KeyOf(i)' = None => answer'[i] = Null
           /\ KeyOf(i)' # None /\ snapshot'[i.thread][KeyOf(i)'] # Open
                 => answer'[i] = snapshot'[i.thread][KeyOf(i)']
           /\ Primary(i)' = i \/ i \in copies' \/ answer'[i] # Open
  <1>1. KeyOf(i)' = KeyOf(i) /\ Primary(i)' = Primary(i)
    BY SameRequest
  <1>2. /\ KeyOf(i) = None => answer[i] = Null
        /\ KeyOf(i) # None /\ snapshot[i.thread][KeyOf(i)] # Open
              => answer[i] = snapshot[i.thread][KeyOf(i)]
        /\ Primary(i) = i \/ i \in copies \/ answer[i] # Open
    BY DEF RightInv, SubmittedInv
  <1>3. answer[i] # Open => answer'[i] = answer[i]
    BY DEF Final
  <1>4. Null # Open
    BY DEF Null, Open
  <1> QED
    BY <1>1, <1>2, <1>3, <1>4

\* Steps of the client give answers that fit.
LEMMA ClientRight ==
    ASSUME IInv, IInv', Final, RightInv, [Next]_vars, ClientAction
    PROVE  RightInv'
  <1>1. /\ UNCHANGED <<asked, pos, snapshot, copies>>
        /\ \A t \in Threads : phase'[t] = phase[t] \/ phase'[t] = "idle"
        /\ UNCHANGED answer \/ Served
        /\ \A k \in Keys : cache'[k] = cache[k] \/ MadeFor(cache'[k], k)
    BY ClientFacts
  <1>2. TypeOK
    BY DEF IInv
  <1>3. SourceInv'
    BY <1>1, <1>2, SourceStep DEF RightInv
  <1>4. FutureInv'
    <2>1. \A i \in Item : answer'[i] # answer[i] =>
              Fitting(answer[i], i)' /\ answer'[Primary(i)'] = answer'[i]
      BY <1>1, ServedFits
    <2> QED
      BY <2>1, FuturesStep DEF RightInv
  <1>5. SubmittedInv'
    <2> SUFFICES ASSUME NEW i \in Item, Submitted(i)'
                 PROVE  /\ KeyOf(i)' = None => answer'[i] = Null
                        /\ KeyOf(i)' # None /\ snapshot'[i.thread][KeyOf(i)'] # Open
                              => answer'[i] = snapshot'[i.thread][KeyOf(i)']
                        /\ Primary(i)' = i \/ i \in copies' \/ answer'[i] # Open
      BY DEF SubmittedInv
    <2>1. Submitted(i)
      BY <1>1 DEF Submitted, Reached, Item
    <2> QED
      BY <1>1, <2>1, SubmittedStays
  <1>6. UncachedInv'
    <2> SUFFICES ASSUME NEW t \in Threads, phase'[t] = "enqueue"
                 PROVE  snapshot'[t][KeyOf(Current(t))'] = Open
      BY DEF UncachedInv
    <2>1. phase[t] = "enqueue" /\ KeyOf(Current(t))' = KeyOf(Current(t))
      BY <1>1 DEF KeyOf, Current
    <2> QED
      BY <1>1, <2>1 DEF RightInv, UncachedInv
  <1> QED
    BY <1>3, <1>4, <1>5, <1>6 DEF RightInv

\* A new batch has nothing submitted.
LEMMA CallRight ==
    ASSUME IInv, IInv', Final, RightInv, [Next]_vars,
           NEW t \in Threads, NEW b \in Batches, Call(t, b)
    PROVE  RightInv'
  <1> USE DEF threadVars, workerVars, backoffVars, sweepVars, shutVars, TaskStates, WorkerStates,
          ShutStates
  <1>1. /\ TypeOK /\ asked[t] \in Seq(Batches) /\ asked \in [Threads -> Seq(Batches)]
        /\ phase \in [Threads -> {"idle", "submit", "enqueue", "collect"}]
        /\ pos \in [Threads -> 1..(MaxLen + 1)] /\ snapshot \in [Threads -> [Keys -> Answer]]
    BY DEF IInv, TypeOK
  <1>2. /\ UNCHANGED <<answer, copies, cache>>
        /\ asked'[t] = Append(asked[t], b) /\ pos'[t] = 1 /\ phase'[t] = "submit"
        /\ snapshot'[t] = [k \in Keys |-> IF \E p \in DOMAIN b : b[p] = k THEN cache[k] ELSE Open]
        /\ \A u \in Threads \ {t} : /\ asked'[u] = asked[u] /\ phase'[u] = phase[u]
                                    /\ pos'[u] = pos[u] /\ snapshot'[u] = snapshot[u]
    BY <1>1 DEF Call
  <1>3. SourceInv'
    <2>1. \A u \in Threads, k \in Keys :
              snapshot'[u][k] \in {snapshot[u][k], cache[k], Open}
      BY <1>2
    <2> QED
      BY <1>1, <1>2, <2>1, SourceStep DEF RightInv
  <1>4. FutureInv'
    BY <1>2, FuturesStep DEF RightInv
  <1>5. SubmittedInv'
    <2> SUFFICES ASSUME NEW i \in Item, Submitted(i)'
                 PROVE  /\ KeyOf(i)' = None => answer'[i] = Null
                        /\ KeyOf(i)' # None /\ snapshot'[i.thread][KeyOf(i)'] # Open
                              => answer'[i] = snapshot'[i.thread][KeyOf(i)']
                        /\ Primary(i)' = i \/ i \in copies' \/ answer'[i] # Open
      BY DEF SubmittedInv
    <2>1. i.thread \in Threads /\ i.pos \in Nat /\ i.pos >= 1
      BY ModelClientAssumption DEF Item
    <2>2. i.thread # t
      BY <1>2, <2>1 DEF Submitted, Reached
    <2>3. Submitted(i) /\ asked'[i.thread] = asked[i.thread] /\ snapshot'[i.thread] = snapshot[i.thread]
      BY <1>2, <2>1, <2>2 DEF Submitted, Reached
    <2>4. KeyOf(i)' = KeyOf(i) /\ Primary(i)' = Primary(i)
      BY <2>3, SameRequest
    <2> QED
      BY <1>2, <2>3, <2>4 DEF RightInv, SubmittedInv
  <1>6. UncachedInv'
    <2> SUFFICES ASSUME NEW u \in Threads, phase'[u] = "enqueue"
                 PROVE  snapshot'[u][KeyOf(Current(u))'] = Open
      BY DEF UncachedInv
    <2>1. u # t /\ phase[u] = "enqueue" /\ KeyOf(Current(u))' = KeyOf(Current(u))
      BY <1>2 DEF KeyOf, Current
    <2> QED
      BY <1>2, <2>1 DEF RightInv, UncachedInv
  <1> QED
    BY <1>3, <1>4, <1>5, <1>6 DEF RightInv

\* The primary of the request a thread is at is submitted, unless it is that request.
LEMMA PrimarySubmitted ==
    ASSUME IInv, NEW t \in Threads, phase[t] = "submit", pos[t] <= Len(Batch(t))
    PROVE  /\ Primary(Current(t)) \in Item /\ KeyOf(Primary(Current(t))) = KeyOf(Current(t))
           /\ Primary(Primary(Current(t))) = Primary(Current(t))
           /\ Primary(Current(t)) # Current(t) => Submitted(Primary(Current(t)))
  <1> DEFINE c == Current(t)
             p == Primary(c)
  <1>1. TypeOK
    BY DEF IInv
  <1>2. c \in Item /\ c.thread = t /\ Posed(c) /\ c.pos = pos[t]
    BY CurrentFacts DEF Posed, Current
  <1>3. p \in Item /\ KeyOf(p) = KeyOf(c) /\ Primary(p) = p /\ p.thread = c.thread /\ p.call = c.call
    BY <1>1, <1>2, PrimaryPosed, PrimaryFacts DEF Posed
  <1>4. Posed(p) /\ p.pos \in 1..c.pos
    BY <1>1, <1>2, PrimaryPosed, PrimaryFacts DEF Posed
  <1>5. p # c => p.pos # c.pos
    BY <1>2, <1>3 DEF Item
  <1>6. c.pos \in Nat /\ c.call = Len(asked[t])
    BY <1>2, ModelClientAssumption DEF Item, Current
  <1> HIDE DEF c, p
  <1>7. p # c => p.pos < pos[t]
    BY <1>2, <1>4, <1>5, <1>6
  <1>8. p # c => Submitted(p)
    BY <1>2, <1>3, <1>4, <1>6, <1>7 DEF Submitted, Reached, Posed
  <1> QED
    BY <1>3, <1>8 DEF c, p

\* The request a thread submits is answered at once as it may be, or copies its primary.
LEMMA AnsweredRight ==
    ASSUME IInv, IInv', Final, RightInv, [Next]_vars,
           NEW t \in Threads, SubmitAnswered(t) \/ SubmitDuplicate(t)
    PROVE  RightInv'
  <1> USE DEF threadVars, workerVars, backoffVars, sweepVars, shutVars, TaskStates, WorkerStates,
          ShutStates
  <1> DEFINE c == Current(t)
             k == KeyOf(c)
             p == Primary(c)
  <1>1. /\ TypeOK /\ answer \in [Item -> Answer] /\ copies \subseteq Item
        /\ phase \in [Threads -> {"idle", "submit", "enqueue", "collect"}]
    BY DEF IInv, TypeOK
  <1>2. phase[t] = "submit" /\ pos[t] <= Len(Batch(t)) /\ k = Batch(t)[pos[t]]
    BY DEF SubmitAnswered, SubmitDuplicate, Uncached, Submitting, KeyOf, Current, Batch
  <1>3. /\ c \in Item /\ c.thread = t /\ ~Reached(c) /\ answer[c] = Open /\ c \notin copies
        /\ Posed(c) /\ c.pos = pos[t]
    BY <1>2, CurrentFacts DEF Posed, Current
  <1>4. /\ UNCHANGED <<asked, phase, snapshot, cache>>
        /\ pos' = [pos EXCEPT ![t] = @ + 1] /\ phase' = [phase EXCEPT ![t] = "submit"]
        /\ copies \subseteq copies'
    BY <1>1, <1>2 DEF SubmitAnswered, SubmitDuplicate
  <1>5. \A i \in Item : Reached(i)' <=> Reached(i) \/ i = c
    BY <1>2, <1>4, SubmitFacts
  <1>6. \A i \in Item : KeyOf(i)' = KeyOf(i) /\ Primary(i)' = Primary(i)
    BY <1>4, SameRequest
  <1>7. /\ p \in Item /\ KeyOf(p) = k /\ Primary(p) = p
        /\ p # c => Submitted(p)
    BY <1>2, PrimarySubmitted
  <1> HIDE DEF p, k, c
  <1>8. \A i \in Item \ {c} : answer'[i] = answer[i]
    BY <1>1 DEF SubmitAnswered, SubmitDuplicate, c
  <1>9. /\ k = None => answer'[c] = Null
        /\ k # None /\ snapshot[t][k] # Open => answer'[c] = snapshot[t][k]
        /\ p = c \/ c \in copies' \/ answer'[c] # Open
        /\ answer'[c] = IF k = None THEN Null
                        ELSE IF snapshot[t][k] # Open THEN snapshot[t][k] ELSE answer[p]
        /\ k # None /\ snapshot[t][k] = Open => p # c
    <2>1. CASE SubmitAnswered(t)
      <3>1. \/ k = None /\ answer' = [answer EXCEPT ![c] = Null]
            \/ k # None /\ snapshot[t][k] # Open /\ answer' = [answer EXCEPT ![c] = snapshot[t][k]]
        BY <1>2, <2>1 DEF SubmitAnswered, c
      <3> QED
        BY <1>1, <1>3, <3>1 DEF Null, Open
    <2>2. CASE SubmitDuplicate(t)
      <3>1. k # None /\ snapshot[t][k] = Open /\ p # c
        BY <1>2, <2>2 DEF SubmitDuplicate, Uncached, p, c
      <3>2. answer' = [answer EXCEPT ![c] = answer[p]] /\ c \in copies'
        BY <2>2 DEF SubmitDuplicate, Copied, p, c
      <3> QED
        BY <1>1, <1>3, <3>1, <3>2
    <2> QED
      BY <2>1, <2>2
  <1>11. SourceInv'
    BY <1>1, <1>4, SourceStep DEF RightInv
  <1>12. k \in Keys \cup {None} /\ t \in Threads
    BY <1>2, RunningFacts
  <1>13. answer'[c] # Open => Fitting(answer'[c], c) /\ answer'[p] = answer'[c]
    <2>1. CASE k = None
      <3>1. answer'[c] = Null /\ Fitting(Null, c)
        BY <1>9, <2>1 DEF Fitting, k
      <3>2. p # c => answer'[p] = Null
        BY <1>7, <1>8, <2>1 DEF RightInv, SubmittedInv
      <3> QED
        BY <1>9, <2>1, <3>1, <3>2
    <2>2. CASE k # None /\ snapshot[t][k] # Open
      <3>1. answer'[c] = snapshot[t][k] /\ MadeFor(snapshot[t][k], k)
        BY <1>9, <1>12, <2>2 DEF RightInv, SourceInv
      <3>2. p # c => answer'[p] = snapshot[t][k]
        <4>1. p.thread = t
          BY <1>1, <1>3, PrimaryFacts DEF Posed, p
        <4> QED
          BY <1>7, <1>8, <2>2, <4>1 DEF RightInv, SubmittedInv
      <3> QED
        BY <1>9, <2>2, <3>1, <3>2 DEF Fitting, k
    <2>3. CASE k # None /\ snapshot[t][k] = Open
      <3>1. answer'[c] = answer[p] /\ p # c /\ answer'[p] = answer[p]
        BY <1>7, <1>8, <1>9, <2>3
      <3>2. answer[p] # Open => Fitting(answer[p], p)
        BY <1>7 DEF RightInv, FutureInv
      <3>3. p.thread = c.thread
        BY <1>1, <1>3, PrimaryFacts DEF Posed, p
      <3>4. Fitting(answer[p], p) => Fitting(answer[p], c)
        BY <1>7, <3>3 DEF Fitting, k
      <3> QED
        BY <3>1, <3>2, <3>4
    <2> QED
      BY <2>1, <2>2, <2>3
  <1>14. FutureInv'
    <2> SUFFICES ASSUME NEW i \in Item, answer'[i] # answer[i]
                 PROVE  Fitting(answer[i], i)' /\ answer'[Primary(i)'] = answer'[i]
      BY FuturesStep DEF RightInv
    <2>1. i = c /\ answer'[c] # Open
      BY <1>3, <1>8
    <2>2. Posed(i) /\ Fitting(answer'[i], i)
      BY <1>3, <1>13, <2>1
    <2>3. \A x : Fitting(x, i) => Fitting(x, i)'
      BY <1>1, <2>2, FittingStays
    <2>4. answer'[Primary(i)] = answer'[i] /\ Primary(i)' = Primary(i)
      BY <1>6, <1>13, <2>1 DEF p
    <2> QED
      BY <2>2, <2>3, <2>4 DEF Fitting, MadeFor
  <1>15. SubmittedInv'
    <2> SUFFICES ASSUME NEW i \in Item, Submitted(i)'
                 PROVE  /\ KeyOf(i)' = None => answer'[i] = Null
                        /\ KeyOf(i)' # None /\ snapshot'[i.thread][KeyOf(i)'] # Open
                              => answer'[i] = snapshot'[i.thread][KeyOf(i)']
                        /\ Primary(i)' = i \/ i \in copies' \/ answer'[i] # Open
      BY DEF SubmittedInv
    <2>1. CASE i = c
      BY <1>3, <1>4, <1>6, <1>9, <2>1 DEF k, p
    <2>2. CASE i # c
      <3>1. Submitted(i)
        BY <1>4, <1>5, <2>2 DEF Submitted
      <3> QED
        BY <1>4, <3>1, SubmittedStays
    <2> QED
      BY <2>1, <2>2
  <1>16. UncachedInv'
    <2> SUFFICES ASSUME NEW u \in Threads, phase'[u] = "enqueue"
                 PROVE  snapshot'[u][KeyOf(Current(u))'] = Open
      BY DEF UncachedInv
    <2>1. u # t /\ phase[u] = "enqueue" /\ KeyOf(Current(u))' = KeyOf(Current(u))
      BY <1>2, <1>4 DEF KeyOf, Current
    <2> QED
      BY <1>4, <2>1 DEF RightInv, UncachedInv
  <1> QED
    BY <1>11, <1>14, <1>15, <1>16 DEF RightInv

\* Of the requests a thread has submitted, only one it enqueues is new.
LEMMA SubmittedOnly ==
    ASSUME IInv, NEW t \in Threads,
           \/ RaiseThreadException(t) \/ SubmitNew(t) \/ StartCollecting(t) \/ Collect(t)
           \/ Enqueue(t)
    PROVE  \A i \in Item : Submitted(i)' => Submitted(i) \/ (Enqueue(t) /\ i = Current(t))
  <1> USE DEF threadVars, workerVars, backoffVars, sweepVars, shutVars, TaskStates, WorkerStates,
          ShutStates
  <1> DEFINE c == Current(t)
  <1>1. /\ TypeOK /\ pos \in [Threads -> 1..(MaxLen + 1)]
        /\ phase \in [Threads -> {"idle", "submit", "enqueue", "collect"}]
    BY DEF IInv, TypeOK
  <1>2. /\ UNCHANGED <<asked, snapshot, answer, copies, cache>> /\ phase[t] # "idle"
        /\ \A u \in Threads \ {t} : phase'[u] = phase[u] /\ pos'[u] = pos[u]
    BY <1>1 DEF RaiseThreadException, SubmitNew, StartCollecting, Collect, Enqueue,
                EndCall, Submitting, Uncached
  <1>3. CASE Enqueue(t)
    <2>1. phase[t] = "enqueue" /\ pos[t] <= Len(Batch(t))
      BY <1>3 DEF Enqueue, IInv, ThreadInv, ThreadOK
    <2>2. \A i \in Item : Reached(i)' <=> Reached(i) \/ i = c
      BY <1>3, <2>1, SubmitFacts DEF Enqueue
    <2> QED
      BY <1>1, <1>2, <1>3, <2>1, <2>2 DEF Submitted, Enqueue, Item
  <1>4. CASE StartCollecting(t)
    <2> SUFFICES ASSUME NEW i \in Item, Submitted(i)' PROVE Submitted(i)
      OBVIOUS
    <2>1. phase[t] = "submit" /\ pos[t] > Len(Batch(t)) /\ pos[t] \in Nat
      BY <1>4, <1>1, ModelClientAssumption DEF StartCollecting
    <2>2. i.thread \in Threads /\ i.pos \in Nat
      BY ModelClientAssumption DEF Item
    <2>3. CASE i.thread = t
      <3>1. i.call = Len(asked[t]) /\ i.call \in DOMAIN asked[t] /\ i.pos \in DOMAIN Batch(t)
        BY <1>2, <2>3 DEF Submitted, Reached, Batch
      <3>2. i.pos <= Len(Batch(t)) /\ Len(Batch(t)) \in Nat
        BY <1>2, <3>1, RunningFacts
      <3>3. i.pos < pos[t]
        BY <2>1, <2>2, <3>2
      <3> QED
        BY <1>2, <2>1, <2>3, <3>1, <3>3 DEF Submitted, Reached, Batch
    <2>4. CASE i.thread # t
      BY <1>2, <2>2, <2>4 DEF Submitted, Reached
    <2> QED
      BY <2>3, <2>4
  <1>5. CASE Collect(t)
    BY <1>1, <1>2, <1>5 DEF Submitted, Reached, Item, Collect, EndCall
  <1>6. CASE RaiseThreadException(t) \/ SubmitNew(t)
    BY <1>1, <1>2, <1>6 DEF Submitted, Reached, Item, RaiseThreadException, SubmitNew, EndCall,
                        Submitting, Uncached
  <1> QED
    BY <1>3, <1>4, <1>5, <1>6

\* A request that enters the queue will be answered; other steps of a thread answer nothing.
LEMMA ThreadRight ==
    ASSUME IInv, IInv', Final, RightInv, [Next]_vars, NEW t \in Threads,
           \/ RaiseThreadException(t) \/ SubmitNew(t) \/ StartCollecting(t) \/ Collect(t)
           \/ Enqueue(t)
    PROVE  RightInv'
  <1> USE DEF threadVars, workerVars, backoffVars, sweepVars, shutVars, TaskStates, WorkerStates,
          ShutStates
  <1> DEFINE c == Current(t)
  <1>1. /\ TypeOK /\ pos \in [Threads -> 1..(MaxLen + 1)]
        /\ phase \in [Threads -> {"idle", "submit", "enqueue", "collect"}]
    BY DEF IInv, TypeOK
  <1>2. /\ UNCHANGED <<asked, snapshot, answer, copies, cache>> /\ phase[t] # "idle"
        /\ \A u \in Threads \ {t} : phase'[u] = phase[u] /\ pos'[u] = pos[u]
    BY <1>1 DEF RaiseThreadException, SubmitNew, StartCollecting, Collect, Enqueue,
                EndCall, Submitting, Uncached
  <1>3. SourceInv'
    BY <1>1, <1>2, SourceStep DEF RightInv
  <1>4. FutureInv'
    BY <1>2, FuturesStep DEF RightInv
  <1>5. \A i \in Item : Submitted(i)' => Submitted(i) \/ (Enqueue(t) /\ i = c)
    BY SubmittedOnly
  <1>6. SubmittedInv'
    <2> SUFFICES ASSUME NEW i \in Item, Submitted(i)'
                 PROVE  /\ KeyOf(i)' = None => answer'[i] = Null
                        /\ KeyOf(i)' # None /\ snapshot'[i.thread][KeyOf(i)'] # Open
                              => answer'[i] = snapshot'[i.thread][KeyOf(i)']
                        /\ Primary(i)' = i \/ i \in copies' \/ answer'[i] # Open
      BY DEF SubmittedInv
    <2>1. CASE Submitted(i)
      BY <1>2, <2>1, SubmittedStays
    <2>2. CASE Enqueue(t) /\ i = c
      <3>1. phase[t] = "enqueue" /\ c.thread = t
        BY <2>2 DEF Enqueue, Current
      <3>2. Genuine(c) /\ snapshot[t][KeyOf(c)] = Open
        BY <3>1 DEF IInv, EnqueueInv, RightInv, UncachedInv
      <3>3. Primary(i)' = Primary(i) /\ KeyOf(i)' = KeyOf(i)
        BY <1>2, SameRequest
      <3> HIDE DEF c
      <3> QED
        BY <1>2, <2>2, <3>1, <3>2, <3>3 DEF Genuine
    <2> QED
      BY <1>5, <2>1, <2>2
  <1>7. UncachedInv'
    <2> SUFFICES ASSUME NEW u \in Threads, phase'[u] = "enqueue"
                 PROVE  snapshot'[u][KeyOf(Current(u))'] = Open
      BY DEF UncachedInv
    <2>1. CASE u # t
      <3>1. phase[u] = "enqueue" /\ KeyOf(Current(u))' = KeyOf(Current(u))
        BY <1>2, <2>1 DEF KeyOf, Current
      <3> QED
        BY <1>2, <3>1 DEF RightInv, UncachedInv
    <2>2. CASE u = t
      <3>1. SubmitNew(t)
        BY <1>1, <2>2 DEF RaiseThreadException, StartCollecting, Collect, Enqueue, EndCall
      <3>2. pos'[t] = pos[t] /\ snapshot[t][KeyOf(Current(t))] = Open
        BY <3>1 DEF SubmitNew, Uncached, KeyOf, Current, Batch
      <3>3. KeyOf(Current(t))' = KeyOf(Current(t))
        BY <1>2, <3>2 DEF KeyOf, Current
      <3> QED
        BY <1>2, <2>2, <3>2, <3>3
    <2> QED
      BY <2>1, <2>2
  <1> QED
    BY <1>3, <1>4, <1>6, <1>7 DEF RightInv

----------------------------------------------------------------------------
(***************************************************************************)
(* How calls end                                                           *)
(***************************************************************************)
RequestAt(t, c, p) == [thread |-> t, call |-> c, pos |-> p]

Collected(i) == answer[i].kind \in {"null", "response"}

\* The calls that ended are all of them, or all but the running one.
EndedInv ==
    \A t \in Threads :
        IF phase[t] = "idle" THEN Len(verdict[t]) = Len(asked[t])
        ELSE Len(verdict[t]) + 1 = Len(asked[t])

\* A call collects the answers in order, and returns with all of them.
ReturnInv ==
    \A t \in Threads :
        /\ \A c \in DOMAIN verdict[t] : verdict[t][c] = "returned" =>
              \A p \in DOMAIN asked[t][c] : Collected(RequestAt(t, c, p))
        /\ phase[t] = "collect" =>
              \A p \in 1..(pos[t] - 1) : Collected(RequestAt(t, Len(asked[t]), p))

CallInv == EndedInv /\ ReturnInv

\* What a step may do to the call of thread t.
Stays(t) ==
    /\ asked'[t] = asked[t] /\ verdict'[t] = verdict[t]
    /\ \/ phase'[t] = phase[t] /\ (phase[t] = "collect" => pos'[t] = pos[t])
       \/ phase[t] \in {"submit", "enqueue"} /\ phase'[t] \in {"submit", "enqueue"}
Begins(t) ==
    /\ phase[t] = "idle" /\ phase'[t] = "submit" /\ verdict'[t] = verdict[t]
    /\ \E b \in Batches : asked'[t] = Append(asked[t], b)
Collects(t) ==
    /\ asked'[t] = asked[t] /\ verdict'[t] = verdict[t] /\ phase'[t] = "collect"
    /\ \/ phase[t] = "submit" /\ pos'[t] = 1
       \/ /\ phase[t] = "collect" /\ pos'[t] = pos[t] + 1 /\ pos[t] <= Len(Batch(t))
          /\ answer[Current(t)] # Open /\ answer[Current(t)].kind # "error"
Raises(t) ==
    /\ asked'[t] = asked[t] /\ verdict'[t] = Append(verdict[t], "raised")
    /\ phase[t] # "idle" /\ phase'[t] = "idle"
Returns(t) ==
    /\ asked'[t] = asked[t] /\ verdict'[t] = Append(verdict[t], "returned")
    /\ phase[t] = "collect" /\ pos[t] > Len(Batch(t)) /\ phase'[t] = "idle"

\* Only shutdown changes how the call of a thread stands, of the steps of the client.
LEMMA ClientCalls ==
    ASSUME IInv, ClientAction, NEW t \in Threads
    PROVE  Stays(t) \/ (ShutdownStopLoop /\ Raises(t))
  <1> USE DEF threadVars, workerVars, backoffVars, sweepVars, shutVars, TaskStates, WorkerStates,
          ShutStates
  <1>1. CASE ShutdownStopLoop
    BY <1>1 DEF ShutdownStopLoop, Stays, Raises, IInv, TypeOK
  <1>2. CASE ~ShutdownStopLoop
    <2>1. Worker => UNCHANGED threadVars
      BY DEF Worker, Fetch, GetRetry, GetRequest, Resume, Stop, Dispatch, Deny, Wake,
             RefuseTooLarge, Refuse, EndBackoff
    <2>2. ASSUME NEW i \in Item, Request(i) PROVE UNCHANGED threadVars
      BY <2>2 DEF Request, StartRequest, EndRequest, Timeout, Transient, Answers, Fatal, Succeed,
                  SetFuture, SetException, SetResult
    <2>3. ShutdownBegin \/ SetEvent \/ Shutdown => UNCHANGED threadVars
      BY <1>2 DEF ShutdownBegin, SetEvent, Shutdown, ShutdownPending, ShutdownSweep,
             ShutdownStrike, ShutdownClear, ShutdownRequests, ShutdownRetries, ShutdownCancel, ShutdownKeepLoop
    <2>4. UNCHANGED <<phase, asked, pos, verdict>>
      BY <2>1, <2>2, <2>3 DEF ClientAction
    <2> QED
      BY <2>4 DEF Stays
  <1> QED
    BY <1>1, <1>2

\* The steps of thread u do one of the five to its call, and leave the others alone.
LEMMA ThreadCalls ==
    ASSUME IInv, NEW u \in Threads, NEW t \in Threads,
           Thread(u) \/ Enqueue(u) \/ \E b \in Batches : Call(u, b)
    PROVE  IF t = u THEN Stays(t) \/ Begins(t) \/ Collects(t) \/ Raises(t) \/ Returns(t)
           ELSE Stays(t)
  <1> USE DEF threadVars, workerVars, backoffVars, sweepVars, shutVars, TaskStates, WorkerStates,
          ShutStates
  <1>1. /\ phase \in [Threads -> {"idle", "submit", "enqueue", "collect"}]
        /\ pos \in [Threads -> 1..(MaxLen + 1)]
        /\ verdict \in [Threads -> Seq({"returned", "raised"})]
        /\ asked \in [Threads -> Seq(Batches)]
    BY DEF IInv, TypeOK
  <1>2. CASE RaiseThreadException(u)
    BY <1>1, <1>2 DEF RaiseThreadException, Submitting, EndCall, Raises, Stays
  <1>3. CASE SubmitAnswered(u) \/ SubmitDuplicate(u)
    BY <1>1, <1>3 DEF SubmitAnswered, SubmitDuplicate, Uncached, Submitting, Stays
  <1>4. CASE SubmitNew(u)
    BY <1>1, <1>4 DEF SubmitNew, Uncached, Submitting, EndCall, Raises, Stays
  <1>5. CASE StartCollecting(u)
    BY <1>1, <1>5 DEF StartCollecting, Collects, Stays
  <1>6. CASE Collect(u)
    <2>1. pos[u] \in Nat /\ Len(Batch(u)) \in Nat
      BY <1>6, RunningFacts DEF Collect
    <2> QED
      BY <1>1, <1>6, <2>1 DEF Collect, Failed, EndCall, Collects, Raises, Returns, Stays
  <1>7. CASE Enqueue(u)
    BY <1>1, <1>7 DEF Enqueue, Stays
  <1>8. ASSUME NEW b \in Batches, Call(u, b)
        PROVE  IF t = u THEN Begins(t) ELSE Stays(t)
    BY <1>1, <1>8 DEF Call, Begins, Stays
  <1> QED
    BY <1>2, <1>3, <1>4, <1>5, <1>6, <1>7, <1>8 DEF Thread

\* So does every step.
LEMMA NextCalls ==
    ASSUME IInv, [Next]_vars, NEW t \in Threads
    PROVE  Stays(t) \/ Begins(t) \/ Collects(t) \/ Raises(t) \/ Returns(t)
  <1>1. CASE ClientAction
    BY <1>1, ClientCalls
  <1>2. CASE \E u \in Threads : Thread(u) \/ Enqueue(u) \/ \E b \in Batches : Call(u, b)
    BY <1>2, ThreadCalls
  <1>3. CASE UNCHANGED vars
    BY <1>3 DEF vars, threadVars, Stays
  <1> QED
    BY <1>1, <1>2, <1>3 DEF Next, Terminated, ClientAction

\* A call that ended stays so, with the answers it returned.
LEMMA CallNext ==
    ASSUME IInv, IInv', Final, CallInv, [Next]_vars
    PROVE  CallInv'
  <1>1. /\ TypeOK /\ verdict \in [Threads -> Seq({"returned", "raised"})]
        /\ asked \in [Threads -> Seq(Batches)] /\ MaxCalls \in Nat /\ MaxLen \in Nat
        /\ answer \in [Item -> Answer]
    BY ModelClientAssumption DEF IInv, TypeOK
  <1> SUFFICES ASSUME NEW t \in Threads
               PROVE  /\ IF phase'[t] = "idle" THEN Len(verdict'[t]) = Len(asked'[t])
                         ELSE Len(verdict'[t]) + 1 = Len(asked'[t])
                      /\ \A c \in DOMAIN verdict'[t] : verdict'[t][c] = "returned" =>
                            \A p \in DOMAIN asked'[t][c] : Collected(RequestAt(t, c, p))'
                      /\ phase'[t] = "collect" =>
                            \A p \in 1..(pos'[t] - 1) : Collected(RequestAt(t, Len(asked[t]), p))'
    BY DEF CallInv, EndedInv, ReturnInv, RequestAt, Collected
  <1>2. /\ verdict[t] \in Seq({"returned", "raised"}) /\ asked[t] \in Seq(Batches)
        /\ Len(verdict[t]) \in Nat /\ Len(asked[t]) \in Nat /\ Len(asked[t]) <= MaxCalls
        /\ DOMAIN verdict[t] = 1..Len(verdict[t]) /\ DOMAIN asked[t] = 1..Len(asked[t])
    BY <1>1 DEF IInv, ThreadInv, ThreadOK
  <1>3. /\ IF phase[t] = "idle" THEN Len(verdict[t]) = Len(asked[t])
           ELSE Len(verdict[t]) + 1 = Len(asked[t])
        /\ \A c \in DOMAIN verdict[t] : verdict[t][c] = "returned" =>
              \A p \in DOMAIN asked[t][c] : Collected(RequestAt(t, c, p))
        /\ phase[t] = "collect" =>
              \A p \in 1..(pos[t] - 1) : Collected(RequestAt(t, Len(asked[t]), p))
    BY DEF CallInv, EndedInv, ReturnInv
  <1>4. \A c \in DOMAIN verdict[t] : c \in DOMAIN asked[t] /\ c \in 1..MaxCalls
    <2> DEFINE m == Len(verdict[t])
               n == Len(asked[t])
    <2>1. m \in Nat /\ n \in Nat /\ n <= MaxCalls /\ (m = n \/ m + 1 = n)
      BY <1>2, <1>3
    <2>2. DOMAIN verdict[t] = 1..m /\ DOMAIN asked[t] = 1..n /\ MaxCalls \in Nat
      BY <1>1, <1>2
    <2> HIDE DEF m, n
    <2>3. \A c \in 1..m : c \in 1..n /\ c \in 1..MaxCalls
      BY <2>1, <2>2
    <2> QED
      BY <2>2, <2>3
  <1>5. \A c \in DOMAIN asked[t] : asked[t][c] \in Seq(Keys \cup {None}) /\ Len(asked[t][c]) \in 0..MaxLen
    BY <1>1, <1>2, ModelClientAssumption
  <1>6. \A c \in DOMAIN asked[t] : \A p \in DOMAIN asked[t][c] : RequestAt(t, c, p) \in Item
    BY <1>1, <1>2, <1>5 DEF RequestAt, Item
  <1>7. \A i \in Item : Collected(i) => Collected(i)'
    BY DEF Collected, Final, Open
  <1>8. \A c \in DOMAIN verdict[t] : verdict[t][c] = "returned" =>
            \A p \in DOMAIN asked[t][c] : Collected(RequestAt(t, c, p))'
    BY <1>3, <1>4, <1>6, <1>7 DEF RequestAt, Collected
  <1>9. CASE Stays(t)
    <2>1. phase[t] = "collect" => \A p \in 1..(pos[t] - 1) : Collected(RequestAt(t, Len(asked[t]), p))'
      <3> SUFFICES ASSUME phase[t] = "collect", NEW p \in 1..(pos[t] - 1)
                   PROVE  Collected(RequestAt(t, Len(asked[t]), p))'
        OBVIOUS
      <3>1. Len(asked[t]) \in DOMAIN asked[t] /\ p \in DOMAIN asked[t][Len(asked[t])]
        BY <1>2, RunningFacts
      <3> QED
        BY <1>3, <1>6, <1>7, <1>9, <3>1 DEF RequestAt, Collected, Stays
    <2> QED
      BY <1>3, <1>8, <1>9, <2>1 DEF Stays
  <1>10. CASE Begins(t)
    <2>1. PICK b \in Batches : asked'[t] = Append(asked[t], b)
      BY <1>10 DEF Begins
    <2>2. Len(asked'[t]) = Len(asked[t]) + 1 /\ \A c \in DOMAIN asked[t] : asked'[t][c] = asked[t][c]
      BY <1>2, <2>1
    <2> QED
      BY <1>3, <1>4, <1>8, <1>10, <2>2 DEF Begins
  <1>11. CASE Collects(t)
    <2>1. phase[t] # "idle"
      BY <1>11 DEF Collects
    <2>2. /\ pos[t] \in Nat /\ Len(asked[t]) \in DOMAIN asked[t] /\ pos[t] >= 1
          /\ DOMAIN asked[t][Len(asked[t])] = 1..Len(Batch(t)) /\ Len(Batch(t)) \in Nat
          /\ pos[t] <= Len(Batch(t)) + 1
      BY <1>2, <2>1, RunningFacts
    <2>3. CASE phase[t] = "submit"
      BY <1>3, <1>8, <1>11, <2>3 DEF Collects
    <2>4. CASE phase[t] = "collect"
      <3>1. /\ pos'[t] = pos[t] + 1 /\ pos[t] <= Len(Batch(t)) /\ asked'[t] = asked[t]
            /\ answer[Current(t)] # Open /\ answer[Current(t)].kind # "error"
        BY <1>11, <2>4 DEF Collects
      <3>2. Current(t) = RequestAt(t, Len(asked[t]), pos[t]) /\ Current(t) \in Item
        BY <1>6, <2>2, <3>1 DEF Current, RequestAt
      <3>3. Collected(Current(t))
        BY <1>1, <3>1, <3>2 DEF Answer, Collected, Open, Null, Response, Error
      <3>4. \A p \in 1..pos[t] : Collected(RequestAt(t, Len(asked[t]), p))
        <4>1. \A p \in 1..pos[t] : p = pos[t] \/ p \in 1..(pos[t] - 1)
          BY <2>2
        <4> QED
          BY <1>3, <2>4, <3>2, <3>3, <4>1
      <3>5. \A p \in 1..pos[t] : RequestAt(t, Len(asked[t]), p) \in Item
        BY <1>6, <2>2, <3>1
      <3>6. \A p \in 1..(pos'[t] - 1) : Collected(RequestAt(t, Len(asked[t]), p))'
        BY <1>7, <2>2, <3>1, <3>4, <3>5 DEF RequestAt, Collected
      <3> QED
        BY <1>3, <1>8, <1>11, <3>1, <3>6 DEF Collects
    <2> QED
      BY <1>11, <2>3, <2>4 DEF Collects
  <1>12. CASE Raises(t) \/ Returns(t)
    <2>1. PICK how \in {"raised", "returned"} :
              /\ verdict'[t] = Append(verdict[t], how) /\ (how = "returned" => Returns(t))
      BY <1>12 DEF Raises, Returns
    <2>2. /\ asked'[t] = asked[t] /\ phase[t] # "idle" /\ phase'[t] = "idle"
      BY <1>12 DEF Raises, Returns
    <2>3. /\ DOMAIN verdict'[t] = (DOMAIN verdict[t]) \cup {Len(asked[t])}
          /\ Len(verdict'[t]) = Len(asked[t])
          /\ \A c \in DOMAIN verdict[t] : verdict'[t][c] = verdict[t][c]
          /\ verdict'[t][Len(asked[t])] = how
      BY <1>2, <1>3, <2>1, <2>2
    <2>4. how = "returned" =>
              \A p \in DOMAIN asked[t][Len(asked[t])] : Collected(RequestAt(t, Len(asked[t]), p))'
      <3> SUFFICES ASSUME how = "returned", NEW p \in DOMAIN asked[t][Len(asked[t])]
                   PROVE  Collected(RequestAt(t, Len(asked[t]), p))'
        OBVIOUS
      <3>1. phase[t] = "collect" /\ pos[t] > Len(Batch(t))
        BY <2>1 DEF Returns
      <3>2. p \in 1..(pos[t] - 1) /\ Len(asked[t]) \in DOMAIN asked[t]
        BY <1>2, <3>1, RunningFacts
      <3> QED
        BY <1>3, <1>6, <1>7, <2>2, <3>1, <3>2 DEF RequestAt, Collected
    <2> QED
      BY <1>8, <2>2, <2>3, <2>4
  <1> QED
    BY <1>9, <1>10, <1>11, <1>12, NextCalls

----------------------------------------------------------------------------
\* Initially nothing is answered, cached or returned.
LEMMA InitRight == Init => RightInv /\ CallInv
  <1> SUFFICES ASSUME Init PROVE RightInv /\ CallInv
    OBVIOUS
  <1>1. SourceInv
    BY DEF Init, SourceInv
  <1>2. FutureInv
    BY DEF Init, FutureInv
  <1>3. SubmittedInv /\ UncachedInv
    BY DEF Init, SubmittedInv, Submitted, Reached, UncachedInv, Item
  <1>4. CallInv
    BY DEF Init, CallInv, EndedInv, ReturnInv
  <1> QED
    BY <1>1, <1>2, <1>3, <1>4 DEF RightInv

\* Every step preserves them.
LEMMA NextRight ==
    ASSUME IInv, RightInv, CallInv, [Next]_vars
    PROVE  RightInv' /\ CallInv'
  <1>1. IInv' /\ Final
    BY NextInv
  <1>2. CallInv'
    BY <1>1, CallNext
  <1>3. ASSUME NEW t \in Threads, Thread(t) \/ Enqueue(t) PROVE RightInv'
    BY <1>1, <1>3, AnsweredRight, ThreadRight DEF Thread
  <1>4. ASSUME NEW t \in Threads, NEW b \in Batches, Call(t, b) PROVE RightInv'
    BY <1>1, <1>4, CallRight
  <1>5. CASE ClientAction
    BY <1>1, <1>2, <1>5, ClientRight
  <1>6. CASE UNCHANGED vars
    <2>1. /\ UNCHANGED <<asked, pos, snapshot, copies, phase, answer, cache>>
      BY <1>6 DEF vars, threadVars
    <2>2. \A i : KeyOf(i)' = KeyOf(i) /\ Primary(i)' = Primary(i)
      BY <2>1, SameRequest
    <2>3. \A i : Posed(i)' = Posed(i) /\ Submitted(i)' = Submitted(i)
      BY <2>1 DEF Posed, Submitted, Reached
    <2>4. SourceInv' /\ FutureInv'
      BY <2>1, <2>2, <2>3 DEF RightInv, SourceInv, FutureInv, Fitting, MadeFor
    <2>5. SubmittedInv' /\ UncachedInv'
      BY <2>1, <2>2, <2>3 DEF RightInv, SubmittedInv, UncachedInv, Current
    <2> QED
      BY <1>2, <2>4, <2>5 DEF RightInv
  <1> QED
    BY <1>2, <1>3, <1>4, <1>5, <1>6 DEF Next, Terminated, ClientAction

\* In every state answers fit their requests, and calls have ended as they should.
LEMMA RightAlways == Spec => [](RightInv /\ CallInv)
  <1>1. IInv /\ (RightInv /\ CallInv) /\ [Next]_vars => (RightInv /\ CallInv)'
    BY NextRight
  <1> QED
    BY <1>1, InitRight, Invariance, PTL DEF Spec

\* Calls that returned got what they asked for.
LEMMA ReturnedRight ==
    ASSUME IInv, RightInv, CallInv
    PROVE  ReturnsWhatWasAsked
  <1>1. /\ TypeOK /\ verdict \in [Threads -> Seq({"returned", "raised"})]
        /\ asked \in [Threads -> Seq(Batches)] /\ MaxCalls \in Nat /\ MaxLen \in Nat
        /\ answer \in [Item -> Answer]
    BY ModelClientAssumption DEF IInv, TypeOK
  <1> SUFFICES ASSUME NEW t \in Threads, NEW c \in DOMAIN verdict[t], verdict[t][c] = "returned",
                      NEW p \in DOMAIN asked[t][c]
               PROVE  LET b == asked[t][c]
                          a == [x \in DOMAIN b |-> answer[[thread |-> t, call |-> c, pos |-> x]]]
                      IN  /\ b[p] = None => a[p] = Null
                          /\ b[p] # None => a[p].kind = "response" /\ KeyOf(a[p].item) = b[p]
                          /\ \A q \in DOMAIN b : b[q] = b[p] => a[q] = a[p]
    BY DEF ReturnsWhatWasAsked
  <1>2. c \in DOMAIN asked[t] /\ c \in 1..MaxCalls
    <2> DEFINE m == Len(verdict[t])
               n == Len(asked[t])
    <2>1. m \in Nat /\ n \in Nat /\ n <= MaxCalls /\ (m = n \/ m + 1 = n)
      BY <1>1 DEF IInv, ThreadInv, ThreadOK, CallInv, EndedInv
    <2>2. DOMAIN verdict[t] = 1..m /\ DOMAIN asked[t] = 1..n
      BY <1>1
    <2> HIDE DEF m, n
    <2>3. c \in 1..n /\ c \in 1..MaxCalls
      BY <1>1, <2>1, <2>2
    <2> QED
      BY <2>2, <2>3
  <1>3. asked[t][c] \in Seq(Keys \cup {None}) /\ DOMAIN asked[t][c] \subseteq 1..MaxLen
    BY <1>1, <1>2, ModelClientAssumption
  <1>4. \A q \in DOMAIN asked[t][c] :
            /\ RequestAt(t, c, q) \in Item /\ Posed(RequestAt(t, c, q))
            /\ KeyOf(RequestAt(t, c, q)) = asked[t][c][q] /\ Collected(RequestAt(t, c, q))
    BY <1>2, <1>3 DEF RequestAt, Item, Posed, KeyOf, CallInv, ReturnInv
  <1>5. \A q \in DOMAIN asked[t][c] :
            /\ answer[RequestAt(t, c, q)] # Open /\ answer[RequestAt(t, c, q)].kind # "error"
            /\ Fitting(answer[RequestAt(t, c, q)], RequestAt(t, c, q))
            /\ answer[Primary(RequestAt(t, c, q))] = answer[RequestAt(t, c, q)]
    BY <1>4 DEF Collected, Open, RightInv, FutureInv
  <1>6. asked[t][c][p] = None => answer[RequestAt(t, c, p)] = Null
    BY <1>4, <1>5 DEF Fitting
  <1>7. asked[t][c][p] # None => /\ answer[RequestAt(t, c, p)].kind = "response"
                                 /\ KeyOf(answer[RequestAt(t, c, p)].item) = asked[t][c][p]
    <2>1. \A r : Error(r).kind = "error" /\ Response(r).kind = "response" /\ Response(r).item = r
      BY DEF Error, Response
    <2>2. asked[t][c][p] # None => MadeFor(answer[RequestAt(t, c, p)], asked[t][c][p])
      BY <1>4, <1>5, <2>1, Zenon DEF Fitting
    <2> QED
      BY <2>1, <2>2, Zenon DEF MadeFor
  <1>8. ASSUME NEW q \in DOMAIN asked[t][c], asked[t][c][q] = asked[t][c][p]
        PROVE  answer[RequestAt(t, c, q)] = answer[RequestAt(t, c, p)]
    <2> DEFINE i == RequestAt(t, c, p)
               j == RequestAt(t, c, q)
    <2>1. i.thread = j.thread /\ i.call = j.call
      BY DEF RequestAt
    <2>2. i \in Item /\ j \in Item /\ Posed(i) /\ Posed(j) /\ KeyOf(i) = KeyOf(j)
      BY <1>4, <1>8
    <2>3. answer[Primary(i)] = answer[i] /\ answer[Primary(j)] = answer[j]
      BY <1>5
    <2> HIDE DEF i, j
    <2>4. Primary(i) = Primary(j)
      BY <1>1, <2>1, <2>2, PrimaryOfDuplicates
    <2>5. answer[i] = answer[j]
      BY <2>3, <2>4
    <2> QED
      BY <2>5 DEF i, j
  <1> QED
    BY <1>6, <1>7, <1>8 DEF RequestAt

\* A batch that returns got an answer to every request it asked for, made for that request
\* or for one with its key, and its duplicates the same one: for any number of threads and
\* batches, whatever was retried, cached, copied, denied or shut down meanwhile.
THEOREM ReturnsRight == Spec => []ReturnsWhatWasAsked
  <1>1. IInv /\ RightInv /\ CallInv => ReturnsWhatWasAsked
    BY ReturnedRight
  <1> QED
    BY <1>1, Invariance, RightAlways, PTL

----------------------------------------------------------------------------
(***************************************************************************)
(* In how many places a request is                                         *)
(***************************************************************************)
At(s, i) == {n \in DOMAIN s : s[n] = i}

\* How often an item is in a list.
LEMMA CountType ==
    ASSUME NEW S, NEW s \in Seq(S), NEW i
    PROVE  /\ IsFiniteSet(At(s, i)) /\ Count(s, i) \in Nat
           /\ Count(s, i) = 0 <=> i \notin SeqItems(s)
           /\ IsInjective(s) => Count(s, i) = IF i \in SeqItems(s) THEN 1 ELSE 0
  <1>1. DOMAIN s = 1..Len(s) /\ Len(s) \in Nat
    OBVIOUS
  <1>2. IsFiniteSet(DOMAIN s) /\ At(s, i) \in SUBSET (DOMAIN s)
    BY <1>1, FS_Interval DEF At
  <1>3. IsFiniteSet(At(s, i)) /\ Count(s, i) = Cardinality(At(s, i))
    BY <1>2, FS_Subset DEF Count, At
  <1>4. Count(s, i) \in Nat /\ (Count(s, i) = 0 <=> At(s, i) = {})
    BY <1>3, FS_CardinalityType, FS_EmptySet
  <1>5. At(s, i) = {} <=> i \notin SeqItems(s)
    BY DEF At, SeqItems
  <1>6. ASSUME IsInjective(s), i \in SeqItems(s) PROVE Count(s, i) = 1
    <2>1. PICK n \in DOMAIN s : s[n] = i
      BY <1>6 DEF SeqItems
    <2>2. At(s, i) = {n}
      BY <1>6, <2>1 DEF At, IsInjective
    <2> QED
      BY <1>3, <2>2, FS_Singleton
  <1> QED
    BY <1>3, <1>4, <1>5, <1>6

\* What the operations of a queue do to that.
LEMMA CountFacts ==
    ASSUME NEW S, NEW s \in Seq(S), NEW i
    PROVE  /\ Count(<<>>, i) = 0
           /\ \A x \in S : Count(<<x>>, i) = IF x = i THEN 1 ELSE 0
           /\ \A x \in S : Count(Append(s, x), i) = Count(s, i) + (IF x = i THEN 1 ELSE 0)
           /\ s # <<>> => Count(s, i) = Count(Tail(s), i) + (IF Head(s) = i THEN 1 ELSE 0)
  <1>1. Count(<<>>, i) = 0
    <2>1. <<>> \in Seq(S) /\ SeqItems(<<>>) = {}
      BY DEF SeqItems
    <2> QED
      BY <2>1, CountType
  <1>2. ASSUME NEW x \in S PROVE Count(<<x>>, i) = IF x = i THEN 1 ELSE 0
    <2>1. <<x>> \in Seq(S) /\ SeqItems(<<x>>) = {x} /\ IsInjective(<<x>>)
      BY DEF SeqItems, IsInjective
    <2>2. Count(<<x>>, i) = IF i \in SeqItems(<<x>>) THEN 1 ELSE 0
      BY <2>1, CountType
    <2> QED
      BY <2>1, <2>2
  <1>3. ASSUME NEW x \in S
        PROVE  Count(Append(s, x), i) = Count(s, i) + (IF x = i THEN 1 ELSE 0)
    <2> DEFINE k == Len(s) + 1
    <2>1. IsFiniteSet(At(s, i)) /\ Count(s, i) \in Nat
      BY CountType
    <2>5. k \notin At(s, i)
      BY DEF At
    <2>2. At(Append(s, x), i) = IF x = i THEN At(s, i) \cup {k} ELSE At(s, i)
      BY DEF At
    <2>3. Count(s, i) = Cardinality(At(s, i)) /\ Count(Append(s, x), i) = Cardinality(At(Append(s, x), i))
      BY DEF Count, At
    <2>4. Cardinality(At(s, i) \cup {k}) = Cardinality(At(s, i)) + 1
      BY <2>1, <2>5, FS_AddElement
    <2> QED
      BY <2>1, <2>2, <2>3, <2>4
  <1>4. ASSUME s # <<>>
        PROVE  Count(s, i) = Count(Tail(s), i) + (IF Head(s) = i THEN 1 ELSE 0)
    <2> DEFINE u == Tail(s)
               Rest == At(s, i) \ {1}
               f == [n \in Rest |-> n - 1]
    <2>1. /\ u \in Seq(S) /\ DOMAIN s = 1..Len(s) /\ Len(s) \in Nat
          /\ DOMAIN u = 1..(Len(s) - 1) /\ \A n \in DOMAIN u : u[n] = s[n + 1]
          /\ Head(s) = s[1] /\ 1 \in DOMAIN s
      BY <1>4
    <2>2. f \in Bijection(Rest, At(u, i))
      <3>1. \A n \in Rest : n \in Nat /\ n - 1 \in At(u, i) /\ n - 1 + 1 = n
        BY <2>1 DEF At
      <3>2. \A n \in At(u, i) : n \in Nat /\ n + 1 \in Rest /\ f[n + 1] = n
        BY <2>1 DEF At
      <3>3. f \in [Rest -> At(u, i)]
        BY <3>1
      <3>4. \A m, n \in Rest : f[m] = f[n] => m = n
        BY <3>1
      <3>5. \A n \in At(u, i) : \E m \in Rest : f[m] = n
        BY <3>2
      <3> HIDE DEF f
      <3> QED
        BY <3>3, <3>4, <3>5 DEF Bijection, Injection, IsInjective, Surjection
    <2>3. IsFiniteSet(At(s, i)) /\ Count(s, i) = Cardinality(At(s, i)) /\ Count(s, i) \in Nat
      BY CountType DEF Count, At
    <2>4. /\ IsFiniteSet(Rest)
          /\ Cardinality(Rest) = IF 1 \in At(s, i) THEN Cardinality(At(s, i)) - 1
                                 ELSE Cardinality(At(s, i))
      BY <2>3, FS_RemoveElement
    <2>5. 1 \in At(s, i) <=> Head(s) = i
      BY <2>1 DEF At
    <2>6. Cardinality(At(u, i)) = Cardinality(Rest)
      BY <2>2, <2>4, FS_Bijection DEF ExistsBijection
    <2>7. Count(u, i) = Cardinality(At(u, i))
      BY DEF Count, At
    <2> HIDE DEF u, Rest
    <2> QED
      BY <2>3, <2>4, <2>5, <2>6, <2>7 DEF u
  <1> QED
    BY <1>1, <1>2, <1>3, <1>4

\* Removing what was processed leaves each of the others once.
LEMMA KeptItems ==
    ASSUME TypeOK, NEW done, IsInjective(pending)
    PROVE  /\ SeqItems(Kept(done)) = SeqItems(pending) \ done /\ IsInjective(Kept(done))
           /\ Kept(done) \in Seq(Item)
  <1>1. pending \in Seq(Item) /\ Len(pending) <= 2
    BY DEF TypeOK
  <1>2. Len(pending) \in {0, 1, 2} /\ DOMAIN pending = 1..Len(pending)
    <2>1. Len(pending) \in Nat /\ DOMAIN pending = 1..Len(pending)
      BY <1>1
    <2> DEFINE n == Len(pending)
    <2> HIDE DEF n
    <2>2. n \in Nat /\ n <= 2 => n \in {0, 1, 2}
      OBVIOUS
    <2> QED
      BY <1>1, <2>1, <2>2 DEF n
  <1>3. CASE Len(pending) = 0
    <2>1. Kept(done) = <<>> /\ SeqItems(pending) = {}
      BY <1>2, <1>3 DEF Kept, KeptAt, SeqItems
    <2> QED
      BY <2>1 DEF SeqItems, IsInjective
  <1>4. CASE Len(pending) = 1
    <2>1. SeqItems(pending) = {pending[1]} /\ pending[1] \in Item /\ 1 \in DOMAIN pending /\ 2 \notin DOMAIN pending
      BY <1>1, <1>2, <1>4 DEF SeqItems
    <2>2. Kept(done) = IF pending[1] \in done THEN <<>> ELSE <<pending[1]>>
      BY <1>1, <2>1 DEF Kept, KeptAt
    <2>3. /\ SeqItems(Kept(done)) = IF pending[1] \in done THEN {} ELSE {pending[1]}
          /\ IsInjective(Kept(done)) /\ Kept(done) \in Seq(Item)
      BY <2>1, <2>2 DEF SeqItems, IsInjective
    <2> QED
      BY <2>1, <2>3
  <1>5. CASE Len(pending) = 2
    <2> DEFINE a == pending[1]
               b == pending[2]
    <2>1. /\ SeqItems(pending) = {a, b} /\ a \in Item /\ b \in Item /\ a # b
          /\ 1 \in DOMAIN pending /\ 2 \in DOMAIN pending
      BY <1>1, <1>2, <1>5 DEF SeqItems, IsInjective
    <2>2. Kept(done) = IF a \in done THEN (IF b \in done THEN <<>> ELSE <<b>>)
                       ELSE (IF b \in done THEN <<a>> ELSE <<a, b>>)
      BY <1>1, <2>1 DEF Kept, KeptAt
    <2> HIDE DEF a, b
    <2>3. /\ SeqItems(Kept(done)) = IF a \in done THEN (IF b \in done THEN {} ELSE {b})
                                    ELSE (IF b \in done THEN {a} ELSE {a, b})
          /\ IsInjective(Kept(done)) /\ Kept(done) \in Seq(Item)
      BY <2>1, <2>2 DEF SeqItems, IsInjective
    <2> QED
      BY <2>1, <2>3
  <1> QED
    BY <1>2, <1>3, <1>4, <1>5

\* Two lists one after the other have the items of both.
LEMMA ConcatIs ==
    ASSUME NEW S, NEW s \in Seq(S), NEW u \in Seq(S)
    PROVE  SeqItems(s \o u) = SeqItems(s) \cup SeqItems(u)
  <1>1. SeqItems(s \o u) \subseteq SeqItems(s) \cup SeqItems(u)
    BY ConcatItems
  <1>2. \A n \in DOMAIN s : n \in DOMAIN (s \o u) /\ (s \o u)[n] = s[n]
    OBVIOUS
  <1>3. \A n \in DOMAIN u : Len(s) + n \in DOMAIN (s \o u) /\ (s \o u)[Len(s) + n] = u[n]
    OBVIOUS
  <1>4. ASSUME NEW x \in SeqItems(s) \cup SeqItems(u) PROVE x \in SeqItems(s \o u)
    <2>1. CASE x \in SeqItems(s)
      BY <1>2, <2>1 DEF SeqItems
    <2>2. CASE x \in SeqItems(u)
      BY <1>3, <2>2 DEF SeqItems
    <2> QED
      BY <1>4, <2>1, <2>2
  <1> QED
    BY <1>1, <1>4

\* A list of one item.
LEMMA CountOne ==
    ASSUME NEW S, NEW x \in S, NEW i, NEW s, s = <<x>>
    PROVE  Count(s, i) = IF x = i THEN 1 ELSE 0
  <1>1. <<x>> \in Seq(S)
    OBVIOUS
  <1>3. \A y \in S : Count(<<y>>, i) = IF y = i THEN 1 ELSE 0
    BY <1>1, CountFacts
  <1>2. Count(<<x>>, i) = IF x = i THEN 1 ELSE 0
    BY <1>3
  <1> QED
    BY <1>2, Zenon

\* Nothing is in an empty list.
LEMMA CountNone ==
    ASSUME NEW i, NEW s, s = <<>>
    PROVE  Count(s, i) = 0
  <1>1. <<>> \in Seq({})
    OBVIOUS
  <1>2. Count(<<>>, i) = 0
    BY <1>1, CountFacts
  <1> QED
    BY <1>2, Zenon

\* The worker's list, until shutdown: each item once, and those before scan processed.
ListInv ==
    /\ worker \in {"fetch", "waiting", "scan", "nap", "backoff", "refusing"}
    /\ work = pending /\ IsInjective(pending)
    /\ worker \in {"fetch", "waiting"} => pending = <<>>
    /\ \A x \in processed : \E n \in DOMAIN pending :
          pending[n] = x /\ (n < scan \/ (n = scan /\ worker = "backoff"))

QuietInv == shut = "no" => event = "unset" /\ loopRunning /\ ListInv

InPending(i) == IF i \in SeqItems(pending) \ processed THEN 1 ELSE 0
InTask(i) == IF task[i] = "none" THEN 0 ELSE 1
InEnqueue(i) == IF phase[i.thread] = "enqueue" /\ Current(i.thread) = i THEN 1 ELSE 0

\* A request the client holds is in one place and open; a request a thread waits for,
\* or the one it copies, is held while it is open.
PlacesInv ==
    shut = "no" =>
        /\ \A i \in Item : Places(i) \in {0, 1}
        /\ \A i \in Item : Places(i) = 1 => answer[i] = Open /\ Primary(i) = i /\ Posed(i)
        /\ \A i, q \in Item : Submitted(i) /\ answer[i] = Open /\ q = Primary(i) => Places(q) = 1

\* Places are a sum: before and after a step.
LEMMA PlacesSum ==
    ASSUME TypeOK, TypeOK', IsInjective(pending), IsInjective(pending'), NEW i \in Item
    PROVE  /\ Count(requestQ, i) \in Nat /\ Count(retryQ, i) \in Nat
           /\ Count(fetched.request, i) \in Nat /\ Count(fetched.retry, i) \in Nat
           /\ Count(requestQ', i) \in Nat /\ Count(retryQ', i) \in Nat
           /\ Count(fetched.request', i) \in Nat /\ Count(fetched.retry', i) \in Nat
           /\ InPending(i) \in {0, 1} /\ InTask(i) \in {0, 1} /\ InEnqueue(i) \in {0, 1}
           /\ InPending(i)' \in {0, 1} /\ InTask(i)' \in {0, 1} /\ InEnqueue(i)' \in {0, 1}
           /\ Places(i) = Count(requestQ, i) + Count(retryQ, i) + Count(fetched.request, i)
                          + Count(fetched.retry, i) + InPending(i) + InTask(i) + InEnqueue(i)
           /\ Places(i)' = Count(requestQ', i) + Count(retryQ', i) + Count(fetched.request', i)
                          + Count(fetched.retry', i) + InPending(i)' + InTask(i)' + InEnqueue(i)'
  <1>1. /\ requestQ \in Seq(Item) /\ retryQ \in Seq(Item)
        /\ fetched.request \in Seq(Item) /\ fetched.retry \in Seq(Item)
        /\ requestQ' \in Seq(Item) /\ retryQ' \in Seq(Item)
        /\ fetched.request' \in Seq(Item) /\ fetched.retry' \in Seq(Item)
        /\ pending \in Seq(Item) /\ pending' \in Seq(Item)
    BY DEF TypeOK
  <1>2. /\ Count(requestQ, i) \in Nat /\ Count(retryQ, i) \in Nat
        /\ Count(fetched.request, i) \in Nat /\ Count(fetched.retry, i) \in Nat
        /\ Count(requestQ', i) \in Nat /\ Count(retryQ', i) \in Nat
        /\ Count(fetched.request', i) \in Nat /\ Count(fetched.retry', i) \in Nat
    BY <1>1, CountType
  <1>3. /\ Count(pending, i) = IF i \in SeqItems(pending) THEN 1 ELSE 0
        /\ Count(pending', i) = IF i \in SeqItems(pending') THEN 1 ELSE 0
    BY <1>1, CountType
  <1>4. (IF i \in processed THEN 0 ELSE Count(pending, i)) = InPending(i)
    BY <1>3 DEF InPending
  <1>5. (IF i \in processed' THEN 0 ELSE Count(pending', i)) = InPending(i)'
    BY <1>3 DEF InPending, SeqItems
  <1>6. InPending(i) \in {0, 1} /\ InTask(i) \in {0, 1} /\ InEnqueue(i) \in {0, 1}
    BY DEF InPending, InTask, InEnqueue
  <1>9. InPending(i)' \in {0, 1} /\ InTask(i)' \in {0, 1} /\ InEnqueue(i)' \in {0, 1}
    BY <1>6 DEF InPending, InTask, InEnqueue
  <1>7. Places(i) = Count(requestQ, i) + Count(retryQ, i) + Count(fetched.request, i)
                    + Count(fetched.retry, i) + InPending(i) + InTask(i) + InEnqueue(i)
    BY <1>4 DEF Places, InTask, InEnqueue
  <1>8. Places(i)' = Count(requestQ', i) + Count(retryQ', i) + Count(fetched.request', i)
                    + Count(fetched.retry', i) + InPending(i)' + InTask(i)' + InEnqueue(i)'
    BY <1>5 DEF Places, InTask, InEnqueue, Count
  <1> QED
    BY <1>2, <1>6, <1>7, <1>8, <1>9

\* With the queues and the get tasks left alone, the rest decides.
LEMMA QueuesStill ==
    ASSUME TypeOK, TypeOK', IsInjective(pending), IsInjective(pending'), NEW i \in Item,
           UNCHANGED <<requestQ, retryQ, fetched>>
    PROVE  /\ Places(i)' + InPending(i) + InTask(i) + InEnqueue(i)
              = Places(i) + InPending(i)' + InTask(i)' + InEnqueue(i)'
           /\ Places(i) \in Nat /\ Places(i)' \in Nat
           /\ Places(i) >= InPending(i) + InTask(i) + InEnqueue(i)
           /\ Places(i)' >= InPending(i)' + InTask(i)' + InEnqueue(i)'
  <1>1. /\ Count(requestQ', i) = Count(requestQ, i) /\ Count(retryQ', i) = Count(retryQ, i)
        /\ Count(fetched.request', i) = Count(fetched.request, i)
        /\ Count(fetched.retry', i) = Count(fetched.retry, i)
    OBVIOUS
  <1> QED
    BY <1>1, PlacesSum

\* A request in some place is held, or about to be.
LEMMA PlacedIsHeld ==
    ASSUME TypeOK, TypeOK', IsInjective(pending), IsInjective(pending'), NEW i \in Item, Places(i) # 0
    PROVE  i \in Held \/ InEnqueue(i) = 1
  <1>1. /\ requestQ \in Seq(Item) /\ retryQ \in Seq(Item)
        /\ fetched.request \in Seq(Item) /\ fetched.retry \in Seq(Item)
    BY DEF TypeOK
  <1>2. \/ Count(requestQ, i) # 0 \/ Count(retryQ, i) # 0
        \/ Count(fetched.request, i) # 0 \/ Count(fetched.retry, i) # 0
        \/ InPending(i) # 0 \/ InTask(i) # 0 \/ InEnqueue(i) = 1
    BY PlacesSum
  <1>3. \/ i \in SeqItems(requestQ) \/ i \in SeqItems(retryQ)
        \/ i \in SeqItems(fetched.request) \/ i \in SeqItems(fetched.retry)
        \/ i \in SeqItems(pending) \/ task[i] # "none" \/ InEnqueue(i) = 1
    BY <1>1, <1>2, CountType DEF InPending, InTask
  <1> QED
    BY <1>3 DEF Held

\* A step of the for loop removes what it processed.
LEMMA AdvanceList ==
    ASSUME TypeOK, ListInv, NEW done, worker \in {"scan", "nap", "backoff", "refusing"},
           \A x \in done : \E n \in DOMAIN pending : pending[n] = x /\ n <= scan,
           \/ Advance(done)
           \/ worker' = "backoff" /\ processed' = done /\ UNCHANGED <<pending, work, scan>>
    PROVE  ListInv' /\ SeqItems(pending') \ processed' = SeqItems(pending) \ done
  <1>1. /\ scan \in Nat /\ pending \in Seq(Item) /\ DOMAIN pending \subseteq Nat
        /\ work = pending /\ IsInjective(pending)
    BY DEF TypeOK, ListInv
  <1>2. CASE worker' = "backoff" /\ processed' = done /\ UNCHANGED <<pending, work, scan>>
    <2>1. \A x \in processed' : \E n \in DOMAIN pending' :
              pending'[n] = x /\ (n < scan' \/ (n = scan' /\ worker' = "backoff"))
      BY <1>1, <1>2
    <2> QED
      BY <1>1, <1>2, <2>1 DEF ListInv, IsInjective
  <1>3. CASE Advance(done) /\ scan < Len(work)
    <2>1. /\ scan' = scan + 1 /\ processed' = done /\ worker' = "scan"
          /\ UNCHANGED <<pending, work>>
      BY <1>3 DEF Advance
    <2>2. \A x \in processed' : \E n \in DOMAIN pending' :
              pending'[n] = x /\ (n < scan' \/ (n = scan' /\ worker' = "backoff"))
      BY <1>1, <2>1
    <2> QED
      BY <1>1, <2>1, <2>2 DEF ListInv, IsInjective
  <1>4. CASE Advance(done) /\ ~(scan < Len(work))
    <2>1. /\ processed' = {} /\ pending' = Kept(done) /\ work' = Kept(done)
          /\ worker' = IF ~(done \subseteq SeqItems(pending)) THEN "dead"
                       ELSE IF Kept(done) = <<>> THEN "fetch" ELSE "scan"
      BY <1>4 DEF Advance
    <2>2. SeqItems(Kept(done)) = SeqItems(pending) \ done /\ IsInjective(Kept(done))
      BY <1>1, KeptItems
    <2>3. done \subseteq SeqItems(pending)
      BY DEF SeqItems
    <2> QED
      BY <2>1, <2>2, <2>3 DEF ListInv, SeqItems, IsInjective
  <1> QED
    BY <1>2, <1>3, <1>4

\* What a step may do with a request: leave or hand it on, answer it, or take it up.
Handed(i) ==
    \/ Places(i)' = Places(i) /\ (Places(i) = 1 => answer'[i] = answer[i])
    \/ Places(i)' = 0 /\ answer'[i] # Open
    \/ Places(i)' = 1 /\ answer'[i] = Open /\ Primary(i)' = i /\ Posed(i)'

\* Steps that do only that keep every request in its one place.
LEMMA PlacesStep ==
    ASSUME IInv, IInv', Final, RightInv', PlacesInv, shut = "no", [Next]_vars,
           \A i \in Item : Handed(i),
           \A i, q \in Item : Submitted(i)' /\ answer'[i] = Open /\ q = Primary(i)'
                                => Submitted(i) \/ Places(q)' = 1
    PROVE  PlacesInv'
  <1>1. TypeOK /\ TypeOK'
    BY DEF IInv
  <1>2. /\ \A i \in Item : Places(i) \in {0, 1}
        /\ \A i \in Item : Places(i) = 1 => answer[i] = Open /\ Primary(i) = i /\ Posed(i)
        /\ \A i, q \in Item : Submitted(i) /\ answer[i] = Open /\ q = Primary(i) => Places(q) = 1
    BY DEF PlacesInv
  <1>3. \A i \in Item : Posed(i) => Posed(i)' /\ Primary(i)' = Primary(i)
    BY <1>1, FittingStays
  <1>4. \A i \in Item : Places(i)' \in {0, 1}
    BY <1>2 DEF Handed
  <1>5. \A i \in Item : Places(i)' = 1 => answer'[i] = Open /\ Primary(i)' = i /\ Posed(i)'
    BY <1>2, <1>3 DEF Handed
  <1>6. ASSUME NEW i \in Item, NEW q \in Item, Submitted(i)', answer'[i] = Open, q = Primary(i)'
        PROVE  Places(q)' = 1
    <2>1. CASE Submitted(i)
      <3>1. answer[i] = Open
        BY <1>6 DEF Final
      <3>2. q = Primary(i)
        BY <1>3, <1>6, <2>1 DEF Submitted, Reached, Posed
      <3>3. Places(q) = 1
        BY <1>2, <2>1, <3>1, <3>2
      <3>4. answer'[q] = Open
        <4>1. Primary(i)' = i \/ i \in copies' \/ answer'[i] # Open
          BY <1>6 DEF RightInv, SubmittedInv
        <4>2. i \in copies' => answer'[i] = answer'[Primary(i)']
          BY DEF IInv, CopiesInv
        <4> QED
          BY <1>6, <4>1, <4>2
      <3> QED
        BY <3>3, <3>4 DEF Handed
    <2>2. CASE ~Submitted(i)
      BY <1>6, <2>2
    <2> QED
      BY <2>1, <2>2
  <1> QED
    BY <1>4, <1>5, <1>6 DEF PlacesInv

\* The terms of the sum, for a request in the worker's list or with a task.
LEMMA HeldOpen ==
    ASSUME IInv, PlacesInv, shut = "no", IsInjective(pending), NEW i \in Item,
           (i \in SeqItems(pending) /\ i \notin processed) \/ task[i] # "none"
    PROVE  Places(i) = 1 /\ answer[i] = Open /\ i \notin copies
  <1>1. /\ requestQ \in Seq(Item) /\ retryQ \in Seq(Item) /\ pending \in Seq(Item)
        /\ fetched.request \in Seq(Item) /\ fetched.retry \in Seq(Item)
    BY DEF IInv, TypeOK
  <1>2. /\ Count(requestQ, i) \in Nat /\ Count(retryQ, i) \in Nat
        /\ Count(fetched.request, i) \in Nat /\ Count(fetched.retry, i) \in Nat
        /\ Count(pending, i) \in Nat /\ (i \in SeqItems(pending) => Count(pending, i) = 1)
        /\ InTask(i) \in {0, 1} /\ InEnqueue(i) \in {0, 1}
    BY <1>1, CountType DEF InTask, InEnqueue
  <1>3. Places(i) = Count(requestQ, i) + Count(retryQ, i) + Count(fetched.request, i)
                    + Count(fetched.retry, i) + (IF i \in processed THEN 0 ELSE Count(pending, i))
                    + InTask(i) + InEnqueue(i)
    BY DEF Places, InTask, InEnqueue
  <1>4. Places(i) # 0
    BY <1>2, <1>3 DEF InTask
  <1> QED
    BY <1>4 DEF PlacesInv, IInv, CopiesInv

\* The item the for loop is at waits for its answer.
LEMMA ScannedOpen ==
    ASSUME IInv, QuietInv, PlacesInv, shut = "no", worker \in {"scan", "refusing"},
           NEW x \in Item, x = work[scan]
    PROVE  /\ scan \in DOMAIN pending /\ x = pending[scan] /\ x \in SeqItems(pending)
           /\ x \notin processed /\ answer[x] = Open /\ x \notin copies
  <1>1. ListInv /\ IsInjective(pending) /\ pending \in Seq(Item) /\ scan \in Nat
    BY DEF QuietInv, ListInv, IInv, TypeOK
  <1>2. scan \in DOMAIN pending /\ x = pending[scan] /\ x \in SeqItems(pending)
    BY <1>1 DEF IInv, WorkerInv, ListInv, SeqItems
  <1>3. \A y \in processed : \E n \in DOMAIN pending : pending[n] = y /\ n < scan
    BY <1>1 DEF ListInv
  <1>4. x \notin processed
    <2>1. \A n \in DOMAIN pending : pending[n] = pending[scan] => n = scan
      BY <1>1, <1>2 DEF IsInjective
    <2>2. \A n \in DOMAIN pending : n < scan => pending[n] # pending[scan]
      BY <1>1, <2>1
    <2> QED
      BY <1>2, <1>3, <2>2
  <1> QED
    BY <1>1, <1>2, <1>4, HeldOpen

\* So does a request with a task.
LEMMA TaskOpen ==
    ASSUME IInv, QuietInv, PlacesInv, shut = "no", NEW i \in Item, task[i] # "none"
    PROVE  Places(i) = 1 /\ answer[i] = Open /\ i \notin copies
  <1>1. IsInjective(pending)
    BY DEF QuietInv, ListInv
  <1> QED
    BY <1>1, HeldOpen

\* The worker until shutdown: it hands requests on, or refuses one it holds.
LEMMA WorkerPlaces ==
    ASSUME IInv, IInv', QuietInv, PlacesInv, shut = "no", Worker
    PROVE  QuietInv' /\ \A i \in Item : Handed(i)
  <1> USE DEF threadVars, workerVars, backoffVars, sweepVars, shutVars, TaskStates, WorkerStates,
          ShutStates
  <1>1. TypeOK /\ TypeOK' /\ ListInv /\ event = "unset" /\ loopRunning /\ IsInjective(pending)
    BY DEF IInv, QuietInv, ListInv
  <1>2. /\ requestQ \in Seq(Item) /\ retryQ \in Seq(Item) /\ pending \in Seq(Item)
        /\ fetched \in [request : Seq(Item), retry : Seq(Item)]
        /\ fetched.request \in Seq(Item) /\ fetched.retry \in Seq(Item)
        /\ task \in [Item -> TaskStates] /\ scan \in Nat
    BY <1>1 DEF TypeOK
  <1>3. /\ \A i \in Item : Places(i) \in {0, 1}
        /\ \A i \in Item : Places(i) = 1 => answer[i] = Open
    BY DEF PlacesInv
  <1>4. /\ UNCHANGED <<shut, event, loopRunning, phase, asked, pos>>
        /\ \A i : InEnqueue(i)' = InEnqueue(i)
    BY DEF Worker, Fetch, GetRetry, GetRequest, Resume, Stop, Dispatch, Deny, Wake,
           RefuseTooLarge, Refuse, EndBackoff, InEnqueue, Current
  <1>5. ListInv' => QuietInv'
    BY <1>1, <1>4 DEF QuietInv
  <1>6. CASE Fetch \/ Deny \/ RefuseTooLarge
    <2>1. /\ UNCHANGED <<pending, work, scan, processed, requestQ, retryQ, fetched, answer, task>>
          /\ \/ worker' = "waiting" /\ pending = <<>>
             \/ worker' \in {"nap", "refusing"} /\ worker = "scan"
      <3>1. CASE Fetch \/ Deny
        BY <1>1, <3>1 DEF Fetch, Deny, ListInv
      <3>2. CASE RefuseTooLarge
        <4>1. worker = "scan"
          BY <3>2 DEF RefuseTooLarge
        <4>2. work[scan] \in Item
          BY <1>1, <1>2, <4>1 DEF IInv, WorkerInv, ListInv
        <4>3. answer[work[scan]] = Open
          BY <4>1, <4>2, ScannedOpen
        <4> QED
          BY <3>2, <4>1, <4>3 DEF RefuseTooLarge
      <3> QED
        BY <1>6, <3>1, <3>2
    <2>2. \A x \in processed : \E n \in DOMAIN pending : pending[n] = x /\ n < scan
      BY <1>1, <2>1 DEF ListInv
    <2>3. ListInv'
      BY <1>1, <2>1, <2>2 DEF ListInv, IsInjective
    <2>4. \A i \in Item : Places(i)' = Places(i)
      BY <1>4, <2>1 DEF Places, Count, Current
    <2> QED
      BY <1>5, <2>1, <2>3, <2>4 DEF Handed
  <1>7. CASE GetRetry \/ GetRequest
    <2>1. /\ UNCHANGED <<pending, work, scan, processed, worker, answer, task>>
      BY <1>7 DEF GetRetry, GetRequest
    <2>2. ListInv'
      BY <1>1, <2>1 DEF ListInv, IsInjective
    <2> SUFFICES ASSUME NEW i \in Item PROVE Places(i)' = Places(i)
      BY <1>5, <2>1, <2>2 DEF Handed
    <2>4. InPending(i)' = InPending(i) /\ InTask(i)' = InTask(i)
      BY <2>1 DEF InPending, InTask
    <2>5. CASE GetRetry
      <3>1. Head(retryQ) \in Item /\ retryQ # <<>> /\ fetched.retry = <<>>
        BY <1>2, <2>5 DEF GetRetry
      <3>0. Count(fetched.retry, i) = 0
        BY <3>1, CountNone
      <3>2. fetched'.retry = <<Head(retryQ)>> /\ fetched'.request = fetched.request
        BY <1>2, <2>5, <3>1, FetchedFacts DEF GetRetry
      <3>3. retryQ' = Tail(retryQ) /\ requestQ' = requestQ
        BY <2>5 DEF GetRetry
      <3>4. Count(retryQ, i) = Count(retryQ', i) + Count(fetched'.retry, i)
        <4>1. Count(fetched'.retry, i) = IF Head(retryQ) = i THEN 1 ELSE 0
          BY <3>1, <3>2, CountOne
        <4>2. Count(retryQ, i) = Count(Tail(retryQ), i) + (IF Head(retryQ) = i THEN 1 ELSE 0)
          BY <1>2, <3>1, CountFacts
        <4> QED
          BY <3>3, <4>1, <4>2
      <3>5. IsInjective(pending')
        BY <1>1, <2>1
      <3>6. /\ Count(requestQ', i) = Count(requestQ, i)
            /\ Count(fetched.request', i) = Count(fetched.request, i)
            /\ Count(retryQ', i) + Count(fetched.retry', i)
               + Count(requestQ', i) + Count(fetched.request', i)
               = Count(retryQ, i) + Count(requestQ, i) + Count(fetched.request, i)
        <4>1. Count(requestQ', i) = Count(requestQ, i) /\ Count(fetched.request', i) = Count(fetched.request, i)
          BY <3>2, <3>3
        <4> QED
          BY <1>1, <3>4, <3>5, <4>1, PlacesSum
      <3> QED
        BY <1>1, <1>4, <2>4, <3>0, <3>5, <3>6, PlacesSum
    <2>6. CASE GetRequest
      <3>1. Head(requestQ) \in Item /\ requestQ # <<>> /\ fetched.request = <<>>
        BY <1>2, <2>6 DEF GetRequest
      <3>0. Count(fetched.request, i) = 0
        BY <3>1, CountNone
      <3>2. fetched'.request = <<Head(requestQ)>> /\ fetched'.retry = fetched.retry
        BY <1>2, <2>6, <3>1, FetchedFacts DEF GetRequest
      <3>3. requestQ' = Tail(requestQ) /\ retryQ' = retryQ
        BY <2>6 DEF GetRequest
      <3>4. Count(requestQ, i) = Count(requestQ', i) + Count(fetched'.request, i)
        <4>1. Count(fetched'.request, i) = IF Head(requestQ) = i THEN 1 ELSE 0
          BY <3>1, <3>2, CountOne
        <4>2. Count(requestQ, i) = Count(Tail(requestQ), i) + (IF Head(requestQ) = i THEN 1 ELSE 0)
          BY <1>2, <3>1, CountFacts
        <4> QED
          BY <3>3, <4>1, <4>2
      <3>5. IsInjective(pending')
        BY <1>1, <2>1
      <3>6. /\ Count(retryQ', i) = Count(retryQ, i)
            /\ Count(fetched.retry', i) = Count(fetched.retry, i)
            /\ Count(retryQ', i) + Count(fetched.retry', i)
               + Count(requestQ', i) + Count(fetched.request', i)
               = Count(retryQ, i) + Count(requestQ, i) + Count(fetched.retry, i)
        <4>1. Count(retryQ', i) = Count(retryQ, i) /\ Count(fetched.retry', i) = Count(fetched.retry, i)
          BY <3>2, <3>3
        <4> QED
          BY <1>1, <3>4, <3>5, <4>1, PlacesSum
      <3> QED
        BY <1>1, <1>4, <2>4, <3>0, <3>5, <3>6, PlacesSum
    <2> QED
      BY <1>7, <2>5, <2>6
  <1>8. CASE Resume
    <2>1. /\ pending' = fetched.retry \o fetched.request /\ work' = pending' /\ scan' = 1
          /\ processed' = {} /\ fetched' = [request |-> <<>>, retry |-> <<>>] /\ worker' = "scan"
          /\ UNCHANGED <<requestQ, retryQ, answer, task>> /\ pending = <<>>
      BY <1>1, <1>8 DEF Resume, Obtained, ListInv
    <2>2. Len(fetched.request) <= 1 /\ Len(fetched.retry) <= 1
      BY DEF IInv, WorkerInv
    <2>3. ASSUME NEW m \in DOMAIN fetched.retry, NEW n \in DOMAIN fetched.request
          PROVE  fetched.retry[m] # fetched.request[n]
      <3> DEFINE x == fetched.retry[m]
      <3>1. x \in Item /\ x \in SeqItems(fetched.retry)
        BY <1>2 DEF SeqItems
      <3> HIDE DEF x
      <3>2. Count(fetched.retry, x) + Count(fetched.request, x) <= 1
        <4>1. /\ Count(requestQ, x) \in Nat /\ Count(retryQ, x) \in Nat
              /\ Count(fetched.request, x) \in Nat /\ Count(fetched.retry, x) \in Nat
              /\ InPending(x) \in {0, 1} /\ InTask(x) \in {0, 1} /\ InEnqueue(x) \in {0, 1}
          BY <1>2, <3>1, CountType DEF InPending, InTask, InEnqueue
        <4>2. Count(pending, x) = 0 /\ InPending(x) = 0
          BY <1>2, <2>1, CountFacts DEF InPending, SeqItems
        <4>3. Places(x) = Count(requestQ, x) + Count(retryQ, x) + Count(fetched.request, x)
                          + Count(fetched.retry, x) + InTask(x) + InEnqueue(x)
          BY <4>1, <4>2 DEF Places, InTask, InEnqueue
        <4> QED
          BY <1>3, <3>1, <4>1, <4>3
      <3>3. Count(fetched.retry, x) # 0
        BY <1>2, <3>1, CountType
      <3>4. Count(fetched.request, x) = 0
        BY <1>2, <3>2, <3>3, CountType
      <3>5. x \notin SeqItems(fetched.request)
        BY <1>2, <3>4, CountType
      <3> QED
        BY <3>5 DEF SeqItems, x
    <2>4. IsInjective(pending')
      BY <1>2, <2>1, <2>2, <2>3 DEF IsInjective
    <2>5. ListInv'
      BY <2>1, <2>4 DEF ListInv
    <2> SUFFICES ASSUME NEW i \in Item PROVE Places(i)' = Places(i)
      BY <1>5, <2>1, <2>5 DEF Handed
    <2>6. Count(<<>>, i) = 0 /\ InTask(i)' = InTask(i) /\ InPending(i) = 0
      BY <1>2, <2>1, CountFacts DEF InTask, InPending, SeqItems
    <2>7. SeqItems(pending') = SeqItems(fetched.retry) \cup SeqItems(fetched.request)
      BY <1>2, <2>1, ConcatIs
    <2>8. InPending(i)' = Count(fetched.retry, i) + Count(fetched.request, i)
      <3>1. IsInjective(fetched.retry) /\ IsInjective(fetched.request)
        BY <1>2, <2>2 DEF IsInjective
      <3>2. /\ Count(fetched.retry, i) = IF i \in SeqItems(fetched.retry) THEN 1 ELSE 0
            /\ Count(fetched.request, i) = IF i \in SeqItems(fetched.request) THEN 1 ELSE 0
        BY <1>2, <3>1, CountType
      <3>3. ~(i \in SeqItems(fetched.retry) /\ i \in SeqItems(fetched.request))
        BY <2>3 DEF SeqItems
      <3>4. InPending(i)' = IF i \in SeqItems(pending') THEN 1 ELSE 0
        BY <2>1 DEF InPending, SeqItems
      <3> QED
        BY <2>7, <3>2, <3>3, <3>4
    <2> QED
      BY <1>1, <1>4, <2>1, <2>4, <2>6, <2>8, PlacesSum
  <1>9. CASE Dispatch \/ Refuse
    <2>0. worker \in {"scan", "refusing"} /\ UNCHANGED <<requestQ, retryQ, fetched>>
      BY <1>9 DEF Dispatch, Refuse
    <2>16. scan \in DOMAIN pending /\ work[scan] = pending[scan] /\ work[scan] \in Item
      BY <1>1, <1>2, <2>0 DEF IInv, WorkerInv, ListInv
    <2>17. PICK x \in Item : x = work[scan]
      BY <2>16
    <2> DEFINE done == processed \cup {x}
    <2>1. scan \in DOMAIN pending /\ x = pending[scan] /\ x \in Item
      BY <2>16, <2>17
    <2>2. /\ \A y \in processed : \E n \in DOMAIN pending : pending[n] = y /\ n < scan
          /\ x \in SeqItems(pending)
      BY <1>1, <2>0, <2>1 DEF ListInv, SeqItems
    <2>3. x \notin processed /\ answer[x] = Open
      BY <2>0, <2>17, ScannedOpen
    <2>4. \A y \in done : \E n \in DOMAIN pending : pending[n] = y /\ n <= scan
      BY <1>2, <2>1, <2>2
    <2>5. \/ Advance(done)
          \/ worker' = "backoff" /\ processed' = done /\ UNCHANGED <<pending, work, scan>>
      BY <1>9, <2>3, <2>17 DEF Dispatch, Refuse, MaybeBackoff
    <2>6. ListInv' /\ SeqItems(pending') \ processed' = SeqItems(pending) \ done
      BY <1>1, <2>0, <2>4, <2>5, AdvanceList
    <2>7. IsInjective(pending')
      BY <2>6 DEF ListInv
    <2>8. \A i : InPending(i) = (IF i \in SeqItems(pending) \ processed THEN 1 ELSE 0)
      BY DEF InPending
    <2>9. \A i : InPending(i)' = IF i = x THEN 0 ELSE InPending(i)
      <3>1. \A i : i \in SeqItems(pending') \ processed' <=> i \in SeqItems(pending) \ processed /\ i # x
        BY <2>6
      <3>2. \A i : InPending(i)' = IF i \in SeqItems(pending') \ processed' THEN 1 ELSE 0
        BY DEF InPending, SeqItems
      <3> QED
        BY <2>8, <3>1, <3>2
    <2>10. InPending(x) = 1
      BY <2>2, <2>3, <2>8
    <2>12. InPending(x)' = 0 /\ InEnqueue(x)' = InEnqueue(x) /\ InTask(x) \in {0, 1}
           /\ InEnqueue(x) \in {0, 1} /\ InTask(x)' \in {0, 1} /\ Places(x) \in {0, 1} /\ InPending(x) = 1
      BY <1>1, <1>3, <1>4, <2>1, <2>9, <2>10, <2>7, PlacesSum
    <2>11. /\ Places(x) = 1 /\ InTask(x) = 0
           /\ InTask(x)' = 0 => Places(x)' = 0
           /\ InTask(x)' = 1 => Places(x)' = Places(x)
      BY <1>1, <1>3, <1>4, <2>0, <2>1, <2>7, <2>12, QueuesStill
    <2>15. ASSUME NEW i \in Item, i # x, InTask(i)' = InTask(i) PROVE Places(i)' = Places(i)
      <3>1. InPending(i)' = InPending(i) /\ InEnqueue(i)' = InEnqueue(i)
        BY <1>4, <2>9, <2>15
      <3>2. /\ InPending(i) \in {0, 1} /\ InEnqueue(i) \in {0, 1} /\ InTask(i) \in {0, 1}
            /\ Places(i) \in {0, 1}
        BY <1>1, <1>3, <2>7, PlacesSum
      <3> QED
        BY <1>1, <2>0, <2>7, <2>15, <3>1, <3>2, QueuesStill
    <2>13. CASE Dispatch
      <3>1. task' = [task EXCEPT ![x] = "created"] /\ UNCHANGED answer
        BY <2>13, <2>17 DEF Dispatch
      <3>2. InTask(x)' = 1 /\ \A i \in Item : i # x => InTask(i)' = InTask(i)
        BY <1>2, <2>1, <3>1 DEF InTask
      <3>3. \A i \in Item : Places(i)' = Places(i)
        BY <2>11, <2>15, <3>2
      <3> QED
        BY <1>5, <2>6, <3>1, <3>3 DEF Handed
    <2>14. CASE Refuse
      <3>1. UNCHANGED task /\ RegisterExceptions({x})
        BY <2>3, <2>14, <2>17 DEF Refuse
      <3>2. \A i \in Item : InTask(i)' = InTask(i)
        BY <3>1 DEF InTask
      <3>3. Places(x)' = 0
        BY <2>11, <3>2, <2>1
      <3>4. x \notin copies
        BY <2>1, <2>11 DEF PlacesInv, IInv, CopiesInv
      <3>5. answer'[x] # Open
        <4>1. answer[x] = Open
          BY <1>3, <2>1, <2>11
        <4> QED
          BY <2>1, <3>1, <3>4, <4>1 DEF RegisterExceptions, Resolve, Settles, Error, Open
      <3>6. \A i \in Item : i # x => Places(i)' = Places(i)
        BY <2>15, <3>2
      <3>7. \A i \in Item : i # x /\ Places(i) = 1 => answer'[i] = answer[i]
        <4>1. \A i \in Item : Places(i) = 1 => i \notin copies
          BY DEF PlacesInv, IInv, CopiesInv
        <4> QED
          BY <3>1, <4>1 DEF RegisterExceptions, Resolve, Settles
      <3> QED
        BY <1>5, <2>6, <3>3, <3>5, <3>6, <3>7 DEF Handed
    <2> QED
      BY <1>9, <2>13, <2>14
  <1>10. CASE Wake \/ EndBackoff
    <2>1. /\ worker \in {"nap", "backoff"} /\ UNCHANGED <<requestQ, retryQ, fetched, answer, task>>
          /\ \/ Advance(processed)
             \/ worker' = "backoff" /\ processed' = processed /\ UNCHANGED <<pending, work, scan>>
      BY <1>10 DEF Wake, EndBackoff, MaybeBackoff
    <2>2. \A y \in processed : \E n \in DOMAIN pending : pending[n] = y /\ n <= scan
      BY <1>1, <1>2, SMTT(30) DEF ListInv
    <2>3. ListInv' /\ SeqItems(pending') \ processed' = SeqItems(pending) \ processed
      BY <1>1, <2>1, <2>2, AdvanceList
    <2>4. IsInjective(pending')
      BY <2>3 DEF ListInv
    <2>5. \A i : InPending(i)' = InPending(i) /\ InTask(i)' = InTask(i)
      BY <2>1, <2>3 DEF InPending, InTask, SeqItems
    <2>6. \A i \in Item : Places(i)' = Places(i)
      BY <1>1, <1>4, <2>1, <2>4, <2>5, PlacesSum
    <2> QED
      BY <1>5, <2>1, <2>3, <2>6 DEF Handed
  <1>11. ~Stop
    BY <1>1 DEF Stop, Signalled
  <1> QED
    BY <1>6, <1>7, <1>8, <1>9, <1>10, <1>11 DEF Worker

\* A request's task until shutdown: it puts the request back or answers it.
LEMMA TaskPlaces ==
    ASSUME IInv, IInv', QuietInv, PlacesInv, shut = "no", NEW i \in Item,
           Request(i)
    PROVE  QuietInv' /\ \A j \in Item : Handed(j)
  <1> USE DEF threadVars, workerVars, backoffVars, sweepVars, shutVars, TaskStates, WorkerStates,
          ShutStates
  <1>1. TypeOK /\ TypeOK' /\ ListInv /\ event = "unset" /\ loopRunning /\ IsInjective(pending)
    BY DEF IInv, QuietInv, ListInv
  <1>2. /\ retryQ \in Seq(Item) /\ task \in [Item -> TaskStates]
    BY <1>1 DEF TypeOK
  <1>3. /\ \A j \in Item : Places(j) \in {0, 1}
        /\ \A j \in Item : Places(j) = 1 => answer[j] = Open /\ j \notin copies
    BY DEF PlacesInv, IInv, CopiesInv
  <1>4. UNCHANGED <<shut, event, loopRunning, phase, asked, pos, workerVars, requestQ>>
    BY DEF Request, StartRequest, EndRequest, Timeout, Transient, Answers, Fatal, Succeed, Fails, SetFuture,
             SetException, SetResult, Ends
  <1>5. QuietInv' /\ IsInjective(pending')
    BY <1>1, <1>4 DEF QuietInv, ListInv, IsInjective
  <1>6. \A j : InEnqueue(j)' = InEnqueue(j) /\ InPending(j)' = InPending(j)
    BY <1>4 DEF InEnqueue, Current, InPending, SeqItems
  <1>7. \A j \in Item : /\ InEnqueue(j) \in {0, 1} /\ InPending(j) \in {0, 1} /\ InTask(j) \in {0, 1}
                        /\ InTask(j)' \in {0, 1}
    BY DEF InEnqueue, InPending, InTask
  <1>8. ASSUME UNCHANGED <<retryQ, answer>>, \A j \in Item : InTask(j)' = InTask(j)
        PROVE  \A j \in Item : Handed(j)
    <2>1. ASSUME NEW j \in Item PROVE Places(j)' = Places(j)
      BY <1>1, <1>3, <1>4, <1>5, <1>6, <1>7, <1>8, QueuesStill
    <2> QED
      BY <1>8, <2>1 DEF Handed
  <1>9. task[i] # "none" => Places(i) = 1 /\ answer[i] = Open /\ i \notin copies
    BY TaskOpen
  <1>10. CASE task' = [task EXCEPT ![i] = "none"]
    <2>1. task[i] # "none"
      BY <1>2 DEF Request, StartRequest, EndRequest, Timeout, Transient, Answers, Fatal, Succeed,
                  Fails, SetFuture, SetException, SetResult, Ends
    <2>2. /\ InTask(i) = 1 /\ InTask(i)' = 0
          /\ \A j \in Item : j # i => InTask(j)' = InTask(j)
      BY <1>2, <1>10, <2>1 DEF InTask
    <2>3. Places(i) = 1 /\ answer[i] = Open /\ i \notin copies
      BY <1>9, <2>1
    <2>4. fetched' = fetched
      BY <1>4
    <2>5. CASE retryQ' = Append(retryQ, i) /\ answer' = answer
      <3>1. \A j \in Item : Count(retryQ', j) = Count(retryQ, j) + (IF i = j THEN 1 ELSE 0)
        BY <1>2, <2>5, CountFacts
      <3>2. ASSUME NEW j \in Item PROVE Places(j)' = Places(j)
        <4>1. /\ Count(requestQ', j) = Count(requestQ, j)
              /\ Count(fetched.request', j) = Count(fetched.request, j)
              /\ Count(fetched.retry', j) = Count(fetched.retry, j)
          BY <1>4, <2>4
        <4>2. Count(retryQ', j) + InTask(j)' = Count(retryQ, j) + InTask(j)
          BY <1>1, <1>5, <2>2, <3>1, PlacesSum
        <4> QED
          BY <1>1, <1>5, <1>6, <4>1, <4>2, PlacesSum
      <3> QED
        BY <1>5, <2>5, <3>2 DEF Handed
    <2>6. CASE retryQ' = retryQ /\ \E a : a[i] # Open /\ Resolve({i}, a)
      <3>1. \A j \in Item : j # i /\ j \notin copies => answer'[j] = answer[j]
        BY <2>6 DEF Resolve, Settles
      <3>2. answer'[i] # Open
        BY <2>3, <2>6 DEF Resolve, Settles
      <3>3. Places(i)' = 0
        BY <1>1, <1>4, <1>5, <1>6, <1>7, <2>2, <2>3, <2>4, <2>6, QueuesStill
      <3>4. ASSUME NEW j \in Item, j # i PROVE Places(j)' = Places(j)
        BY <1>1, <1>4, <1>5, <1>6, <1>7, <2>2, <2>4, <2>6, <3>4, QueuesStill
      <3> QED
        BY <1>3, <1>5, <3>1, <3>2, <3>3, <3>4 DEF Handed
    <2>7. CASE Timeout(i) \/ Transient(i)
      <3>1. retryQ' = Append(retryQ, i) /\ answer' = answer
        <4>1. CASE Timeout(i)
          BY <4>1 DEF Timeout
        <4>2. CASE Transient(i)
          <5>1. ~Ends(i, "failing")
            BY <1>2, <1>10 DEF Ends
          <5> QED
            BY <2>3, <4>2, <5>1 DEF Transient, Fails
        <4> QED
          BY <2>7, <4>1, <4>2
      <3> QED
        BY <2>5, <3>1
    <2>8. CASE SetException(i)
      <3>1. [j \in {i} |-> Error(j)][i] # Open
        BY DEF Error, Open
      <3>2. RegisterExceptions({i}) /\ retryQ' = retryQ
        BY <2>3, <2>8 DEF SetException
      <3> QED
        BY <2>6, <3>1, <3>2 DEF RegisterExceptions
    <2>9. CASE SetResult(i)
      <3>1. [j \in {i} |-> Response(j)][i] # Open
        BY DEF Response, Open
      <3>2. Resolve({i}, [j \in {i} |-> Response(j)]) /\ retryQ' = retryQ
        BY <2>9 DEF SetResult
      <3> QED
        BY <2>6, <3>1, <3>2
    <2>10. ~StartRequest(i)
      BY <1>2, <1>10 DEF StartRequest
    <2>11. ~Succeed(i) /\ ~Fatal(i)
      <3>1. ~Ends(i, "answering") /\ ~Ends(i, "failing")
        BY <1>2, <1>10 DEF Ends
      <3> QED
        BY <2>3, <3>1 DEF Succeed, Fatal, Fails
    <2> QED
      BY <1>5, <2>7, <2>8, <2>9, <2>10, <2>11 DEF Request, EndRequest, Answers, SetFuture
  <1>11. CASE task' # [task EXCEPT ![i] = "none"]
    <2>1. /\ UNCHANGED <<retryQ, answer>> /\ task[i] # "none"
          /\ \E to \in TaskStates : to # "none" /\ task' = [task EXCEPT ![i] = to]
      <3>1. CASE StartRequest(i)
        BY <3>1 DEF StartRequest
      <3>2. CASE EndRequest(i)
        BY <1>11, <3>2 DEF EndRequest, Timeout, Transient, Answers, Fatal, Succeed, Fails, Ends
      <3>3. ~SetFuture(i)
        BY <1>11 DEF SetFuture, SetException, SetResult
      <3> QED
        BY <3>1, <3>2, <3>3 DEF Request
    <2>2. \A j \in Item : InTask(j)' = InTask(j)
      BY <1>2, <2>1 DEF InTask
    <2> QED
      BY <1>5, <1>8, <2>1, <2>2
  <1> QED
    BY <1>10, <1>11

\* What a step leaves its thread to wait for, new or not, is held.
Awaits(i, q) == Submitted(i)' /\ answer'[i] = Open /\ q = Primary(i)' => Submitted(i) \/ Places(q)' = 1

\* A request that is not submitted and not on its way is in no place.
LEMMA FreshNowhere ==
    ASSUME IInv, IInv', ListInv, ListInv', NEW i \in Item, ~Reached(i), InEnqueue(i) = 0
    PROVE  Places(i) = 0
  <1>1. TypeOK /\ TypeOK' /\ IsInjective(pending) /\ IsInjective(pending')
    BY DEF IInv, ListInv
  <1>2. i \notin Held
    BY DEF IInv, HeldInv
  <1> QED
    BY <1>1, <1>2, PlacedIsHeld

\* The user threads until shutdown: a request is taken up once, when it is submitted.
LEMMA ThreadPlaces ==
    ASSUME IInv, IInv', QuietInv, PlacesInv, shut = "no", [Next]_vars, NEW t \in Threads,
           Thread(t) \/ Enqueue(t) \/ \E b \in Batches : Call(t, b)
    PROVE  /\ QuietInv' /\ \A i \in Item : Handed(i)
           /\ \A i, q \in Item : Awaits(i, q)
  <1> USE DEF threadVars, workerVars, backoffVars, sweepVars, shutVars, TaskStates, WorkerStates,
          ShutStates
  <1>1. TypeOK /\ TypeOK' /\ ListInv /\ event = "unset" /\ loopRunning /\ IsInjective(pending)
    BY DEF IInv, QuietInv, ListInv
  <1>2. /\ requestQ \in Seq(Item) /\ answer \in [Item -> Answer]
        /\ phase \in [Threads -> {"idle", "submit", "enqueue", "collect"}]
        /\ pos \in [Threads -> 1..(MaxLen + 1)] /\ asked \in [Threads -> Seq(Batches)]
    BY <1>1 DEF TypeOK
  <1>3. /\ \A i \in Item : Places(i) \in {0, 1}
        /\ \A i, q \in Item : Submitted(i) /\ answer[i] = Open /\ q = Primary(i) => Places(q) = 1
    BY DEF PlacesInv
  <1>4. UNCHANGED <<shut, event, loopRunning, workerVars, retryQ, task>>
    BY DEF Thread, Enqueue, Call, RaiseThreadException, SubmitAnswered, SubmitDuplicate, SubmitNew,
           StartCollecting, Collect
  <1>5. QuietInv' /\ ListInv' /\ IsInjective(pending')
    BY <1>1, <1>4 DEF QuietInv, ListInv, IsInjective
  <1>6. \A i : InTask(i)' = InTask(i) /\ InPending(i)' = InPending(i)
    BY <1>4 DEF InTask, InPending, SeqItems
  <1>7. \A i \in Item : /\ InEnqueue(i) \in {0, 1} /\ InPending(i) \in {0, 1} /\ InTask(i) \in {0, 1}
                        /\ InEnqueue(i)' \in {0, 1}
    BY DEF InEnqueue, InPending, InTask
  <1>8. fetched' = fetched
    BY <1>4
  <1>9. \A i \in Item : i.thread # t => InEnqueue(i)' = InEnqueue(i)
    <2>1. \A u \in Threads : u # t => phase'[u] = phase[u] /\ pos'[u] = pos[u] /\ asked'[u] = asked[u]
      BY <1>2 DEF Thread, Enqueue, Call, RaiseThreadException, SubmitAnswered, SubmitDuplicate,
                  SubmitNew, StartCollecting, Collect, EndCall
    <2> QED
      BY <2>1 DEF InEnqueue, Current, Item
  <1>10. CASE \/ RaiseThreadException(t) \/ StartCollecting(t) \/ Collect(t)
              \/ SubmitNew(t) /\ ~loopRunning
              \/ \E b \in Batches : Call(t, b)
    <2>1. UNCHANGED <<requestQ, answer>> /\ phase[t] # "enqueue" /\ phase'[t] # "enqueue"
      BY <1>2, <1>10 DEF RaiseThreadException, StartCollecting, Collect, SubmitNew, Call, EndCall,
                         Uncached, Submitting
    <2>2. \A i \in Item : InEnqueue(i)' = InEnqueue(i)
      BY <1>9, <2>1 DEF InEnqueue
    <2>3. ASSUME NEW i \in Item PROVE Places(i)' = Places(i)
      BY <1>1, <1>3, <1>4, <1>5, <1>6, <1>7, <1>8, <2>1, <2>2, QueuesStill
    <2>4. \A i \in Item : Submitted(i)' => Submitted(i)
      <3>1. CASE \E b \in Batches : Call(t, b)
        <4> SUFFICES ASSUME NEW i \in Item, Submitted(i)' PROVE Submitted(i)
          OBVIOUS
        <4>1. i.thread \in Threads /\ i.pos \in Nat /\ i.pos >= 1
          BY ModelClientAssumption DEF Item
        <4>2. i.thread # t
          BY <1>2, <3>1, <4>1 DEF Call, Submitted, Reached
        <4> QED
          BY <1>2, <3>1, <4>1, <4>2 DEF Call, Submitted, Reached
      <3>2. CASE ~\E b \in Batches : Call(t, b)
        <4>1. ~Enqueue(t)
          BY <2>1 DEF Enqueue
        <4> QED
          BY <1>10, <3>2, <4>1, SubmittedOnly
      <3> QED
        BY <3>1, <3>2
    <2> QED
      BY <1>5, <2>1, <2>3, <2>4 DEF Handed, Awaits
  <1>11. CASE SubmitAnswered(t) \/ SubmitDuplicate(t)
    <2>1. /\ UNCHANGED <<requestQ, phase, asked>> /\ phase[t] = "submit" /\ pos[t] <= Len(Batch(t))
          /\ phase' = [phase EXCEPT ![t] = "submit"] /\ pos' = [pos EXCEPT ![t] = @ + 1]
      BY <1>2, <1>11 DEF SubmitAnswered, SubmitDuplicate, Uncached, Submitting
    <2>2. PICK c \in Item : c = Current(t)
      BY <2>1, CurrentFacts
    <2>3. ~Reached(c) /\ c.thread = t
      BY <2>1, <2>2, CurrentFacts DEF Current
    <2>4. \A i \in Item : InEnqueue(i)' = InEnqueue(i)
      BY <1>9, <2>1 DEF InEnqueue
    <2>5. ASSUME NEW i \in Item PROVE Places(i)' = Places(i)
      BY <1>1, <1>3, <1>4, <1>5, <1>6, <1>7, <1>8, <2>1, <2>4, QueuesStill
    <2>6. Places(c) = 0
      <3>1. InEnqueue(c) = 0
        BY <2>1, <2>3 DEF InEnqueue
      <3> QED
        BY <1>1, <1>5, <2>3, <3>1, FreshNowhere
    <2>7. \A i \in Item : i # c => answer'[i] = answer[i]
      BY <1>2, <1>11, <2>2 DEF SubmitAnswered, SubmitDuplicate
    <2>8. ASSUME NEW i \in Item, NEW q \in Item PROVE Awaits(i, q)
      <3>1. CASE i # c
        <4>1. \A j \in Item : Reached(j)' <=> Reached(j) \/ j = c
          BY <2>1, <2>2, SubmitFacts
        <4> QED
          BY <2>1, <3>1, <4>1 DEF Awaits, Submitted
      <3>2. CASE i = c /\ answer'[c] = Open /\ q = Primary(c)'
        <4>1. Primary(c)' = Primary(c)
          BY <2>1, SameRequest
        <4>2. q = Primary(c) /\ Primary(q) = q /\ (q # c => Submitted(q))
          BY <2>1, <2>2, <3>2, <4>1, PrimarySubmitted
        <4>3. SubmitDuplicate(t)
          <5>1. CASE SubmitAnswered(t)
            <6>1. answer'[c] = Null \/ (\E k : answer'[c] = k /\ k # Open)
              BY <1>2, <2>2, <5>1 DEF SubmitAnswered
            <6> QED
              BY <3>2, <6>1 DEF Null, Open
          <5> QED
            BY <1>11, <5>1
        <4>4. q # c /\ answer[q] = Open
          <5>1. q # c /\ answer'[c] = answer[q]
            BY <1>2, <2>2, <4>2, <4>3 DEF SubmitDuplicate, Copied
          <5> QED
            BY <3>2, <5>1
        <4>5. Places(q) = 1
          BY <1>3, <4>2, <4>4
        <4> QED
          BY <2>5, <4>5 DEF Awaits
      <3> QED
        BY <3>1, <3>2 DEF Awaits
    <2> QED
      BY <1>5, <2>5, <2>6, <2>7, <2>8 DEF Handed
  <1>12. CASE SubmitNew(t) /\ loopRunning
    <2>1. /\ UNCHANGED <<requestQ, asked, answer, pos>> /\ phase[t] = "submit" /\ pos[t] <= Len(Batch(t))
          /\ phase' = [phase EXCEPT ![t] = "enqueue"] /\ Primary(Current(t)) = Current(t)
      BY <1>2, <1>12 DEF SubmitNew, Uncached, Submitting
    <2>2. PICK c \in Item : c = Current(t)
      BY <2>1, CurrentFacts
    <2>3. ~Reached(c) /\ c.thread = t /\ answer[c] = Open /\ Posed(c) /\ Primary(c) = c
      BY <2>1, <2>2, CurrentFacts DEF Current, Posed
    <2>4. Current(t)' = c
      BY <2>1, <2>2 DEF Current
    <2>5. \A i \in Item : i # c => InEnqueue(i)' = InEnqueue(i)
      BY <1>9, <2>1, <2>4 DEF InEnqueue
    <2>6. InEnqueue(c) = 0 /\ InEnqueue(c)' = 1
      <3>1. phase'[t] = "enqueue" /\ Current(c.thread)' = c
        BY <1>2, <2>1, <2>3, <2>4
      <3> QED
        BY <2>1, <2>3, <3>1 DEF InEnqueue
    <2>7. Places(c) = 0
      BY <1>1, <1>5, <2>3, <2>6, FreshNowhere
    <2>8. Places(c)' = 1
      BY <1>1, <1>4, <1>5, <1>6, <1>7, <1>8, <2>1, <2>6, <2>7, QueuesStill
    <2>9. ASSUME NEW i \in Item, i # c PROVE Places(i)' = Places(i)
      BY <1>1, <1>3, <1>4, <1>5, <1>6, <1>7, <1>8, <2>1, <2>5, <2>9, QueuesStill
    <2>10. Posed(c)' /\ Primary(c)' = Primary(c)
      BY <1>1, <2>3, FittingStays
    <2>11. \A i \in Item : Submitted(i)' => Submitted(i)
      <3>1. ~Enqueue(t)
        BY <2>1 DEF Enqueue
      <3> QED
        BY <1>12, <3>1, SubmittedOnly
    <2> QED
      BY <1>5, <2>1, <2>3, <2>8, <2>9, <2>10, <2>11 DEF Handed, Awaits
  <1>13. CASE Enqueue(t)
    <2>1. /\ UNCHANGED <<asked, answer>> /\ phase[t] = "enqueue"
          /\ phase' = [phase EXCEPT ![t] = "submit"] /\ requestQ' = Append(requestQ, Current(t))
      BY <1>13 DEF Enqueue
    <2>2. pos[t] <= Len(Batch(t)) /\ Primary(Current(t)) = Current(t)
      BY <2>1 DEF IInv, ThreadInv, ThreadOK, EnqueueInv, Genuine
    <2>3. PICK c \in Item : c = Current(t)
      BY <2>1, <2>2, CurrentFacts
    <2>4. c.thread = t /\ Primary(c) = c
      BY <2>2, <2>3 DEF Current
    <2>5. /\ InEnqueue(c) = 1 /\ InEnqueue(c)' = 0
          /\ \A i \in Item : i # c => InEnqueue(i)' = InEnqueue(i)
      <3>1. phase'[t] # "enqueue"
        BY <1>2, <2>1
      <3> QED
        BY <1>9, <2>1, <2>3, <2>4, <3>1 DEF InEnqueue
    <2>6. ASSUME NEW i \in Item PROVE Places(i)' = Places(i)
      <3>1. Count(requestQ', i) = Count(requestQ, i) + (IF c = i THEN 1 ELSE 0)
        BY <1>2, <2>1, <2>3, CountFacts
      <3>2. /\ Count(retryQ', i) = Count(retryQ, i)
            /\ Count(fetched.request', i) = Count(fetched.request, i)
            /\ Count(fetched.retry', i) = Count(fetched.retry, i)
        BY <1>4, <1>8
      <3>3. Count(requestQ', i) + InEnqueue(i)' = Count(requestQ, i) + InEnqueue(i)
        BY <1>1, <1>5, <2>5, <3>1, PlacesSum
      <3> QED
        BY <1>1, <1>5, <1>6, <3>2, <3>3, PlacesSum
    <2>7. Places(c) = 1
      <3>1. Places(c) >= InEnqueue(c)
        BY <1>1, <1>5, PlacesSum
      <3> QED
        BY <1>3, <2>5, <3>1
    <2>8. Primary(c)' = c
      BY <2>1, <2>4, SameRequest
    <2>9. \A i \in Item : Submitted(i)' => Submitted(i) \/ i = c
      BY <1>13, <2>3, SubmittedOnly
    <2> QED
      BY <1>5, <2>1, <2>6, <2>7, <2>8, <2>9 DEF Handed, Awaits
  <1> QED
    BY <1>10, <1>11, <1>12, <1>13 DEF Thread

\* Initially the client holds nothing; every step until shutdown hands requests on, once.
LEMMA InitPlaces == Init => QuietInv /\ PlacesInv
  <1> SUFFICES ASSUME Init PROVE QuietInv /\ PlacesInv
    OBVIOUS
  <1>1. QuietInv
    BY DEF Init, QuietInv, ListInv, IsInjective
  <1>2. ASSUME NEW i \in Item PROVE Places(i) = 0
    <2>1. Count(<<>>, i) = 0
      BY CountNone
    <2> QED
      BY <2>1 DEF Init, Places, Item
  <1>3. \A i \in Item : ~Submitted(i)
    BY DEF Init, Submitted, Item
  <1> QED
    BY <1>1, <1>2, <1>3 DEF PlacesInv

\* Every step keeps each unanswered request in one place.
LEMMA NextPlaces ==
    ASSUME IInv, RightInv, CallInv, QuietInv, PlacesInv, [Next]_vars
    PROVE  QuietInv' /\ PlacesInv'
  <1>1. IInv' /\ Final /\ RightInv'
    BY NextInv, NextRight
  <1>2. CASE shut' # "no"
    BY <1>2 DEF QuietInv, PlacesInv
  <1> SUFFICES ASSUME shut' = "no"
               PROVE  QuietInv' /\ (\A i \in Item : Handed(i)) /\ (\A i, q \in Item : Awaits(i, q)) /\ shut = "no"
    BY <1>1, <1>2, PlacesStep DEF Awaits
  <1>3. CASE \E t \in Threads : Thread(t) \/ Enqueue(t) \/ \E b \in Batches : Call(t, b)
    <2>1. shut = "no"
      BY <1>3 DEF Thread, Enqueue, Call, RaiseThreadException, SubmitAnswered, SubmitDuplicate,
                  SubmitNew, StartCollecting, Collect, shutVars
    <2> QED
      BY <1>1, <1>3, <2>1, ThreadPlaces
  <1>4. CASE ClientAction
    <2>1. ~(ShutdownBegin \/ Shutdown)
      BY DEF ShutdownBegin, Shutdown, ShutdownPending, ShutdownSweep, ShutdownStrike,
             ShutdownClear, ShutdownRequests, ShutdownRetries, ShutdownCancel, ShutdownKeepLoop,
             ShutdownStopLoop
    <2>2. shut = "no"
      BY <1>4, <2>1 DEF ClientAction, Worker, Fetch, GetRetry, GetRequest, Resume, Stop, Dispatch,
                        Deny, Wake, RefuseTooLarge, Refuse, EndBackoff, SetEvent, Request,
                        StartRequest, EndRequest, Timeout, Transient, Answers, Fatal, Succeed,
                        SetFuture, SetException, SetResult, shutVars
    <2>3. ~SetEvent
      BY <2>2 DEF SetEvent, QuietInv
    <2>4. \A i \in Item : Submitted(i)' => Submitted(i)
      BY <1>4, ClientFacts DEF Submitted, Reached, Item
    <2>5. QuietInv' /\ \A i \in Item : Handed(i)
      BY <1>1, <1>4, <2>1, <2>2, <2>3, WorkerPlaces, TaskPlaces DEF ClientAction
    <2> QED
      BY <2>2, <2>4, <2>5 DEF Awaits
  <1>5. CASE UNCHANGED vars
    <2>1. UNCHANGED <<asked, phase, pos, answer, shut, requestQ, retryQ, fetched, pending, processed,
                      task, worker, work, scan, event, loopRunning>>
      BY <1>5 DEF vars, threadVars, workerVars, shutVars
    <2>2. QuietInv'
      BY <2>1 DEF QuietInv, ListInv, IsInjective
    <2>3. \A i \in Item : Places(i)' = Places(i) /\ (Submitted(i)' <=> Submitted(i))
      BY <2>1 DEF Places, Count, Current, Submitted, Reached
    <2> QED
      BY <2>1, <2>2, <2>3 DEF Handed, Awaits
  <1> QED
    BY <1>3, <1>4, <1>5 DEF Next, Terminated, ClientAction

\* In every state each unanswered request is in one place.
LEMMA PlacesAlways == Spec => [](QuietInv /\ PlacesInv)
  <1>1. IInv /\ (RightInv /\ CallInv) /\ (QuietInv /\ PlacesInv) /\ [Next]_vars
            => (QuietInv /\ PlacesInv)'
    BY NextPlaces
  <1> QED
    BY <1>1, InitPlaces, Invariance, RightAlways, PTL DEF Spec

\* Requests awaited are submitted.
LEMMA AwaitedSubmitted ==
    ASSUME IInv, NEW t \in Threads, NEW i \in Awaited(t)
    PROVE  i \in Item /\ Submitted(i)
  <1>1. phase[t] # "idle" /\ phase[t] \in {"submit", "enqueue", "collect"}
    BY DEF Awaited, IInv, TypeOK
  <1>2. /\ Len(Batch(t)) \in 0..MaxLen /\ Len(asked[t]) \in 1..MaxCalls /\ asked[t] \in Seq(Batches)
        /\ pos[t] \in 1..(Len(Batch(t)) + 1) /\ Batch(t) = asked[t][Len(asked[t])]
        /\ MaxLen \in Nat /\ Batch(t) \in Seq(Keys \cup {None}) /\ MaxCalls \in Nat
    BY <1>1, RunningFacts
  <1>3. PICK p \in 1..Len(Batch(t)) :
            /\ i = [Current(t) EXCEPT !.pos = p]
            /\ phase[t] # "collect" => p < pos[t]
    <2>1. CASE phase[t] = "collect"
      BY <2>1 DEF Awaited
    <2>2. CASE phase[t] # "collect"
      <3>1. PICK p \in 1..(pos[t] - 1) : i = [Current(t) EXCEPT !.pos = p]
        BY <1>1, <2>2 DEF Awaited
      <3>2. p \in 1..Len(Batch(t)) /\ p < pos[t]
        BY <1>2, <3>1
      <3> QED
        BY <3>1, <3>2
    <2> QED
      BY <2>1, <2>2
  <1>4. i = [thread |-> t, call |-> Len(asked[t]), pos |-> p]
    BY <1>3 DEF Current
  <1>5. p \in 1..MaxLen /\ p \in DOMAIN Batch(t) /\ Len(asked[t]) \in DOMAIN asked[t]
    BY <1>2
  <1>6. i \in Item /\ i.thread = t /\ i.call = Len(asked[t]) /\ i.pos = p
    BY <1>2, <1>4, <1>5 DEF Item
  <1> QED
    BY <1>1, <1>2, <1>3, <1>5, <1>6 DEF Submitted, Reached

\* Until shutdown, no request a thread waits for is lost between the queues, the worker's
\* lists and the tasks, and none is in two places or called again once it is answered, for
\* any number of threads, batches and retries.
THEOREM HeldOnceAlways == Spec => []HeldOnce
  <1>1. IInv /\ RightInv /\ QuietInv /\ PlacesInv => HeldOnce
    <2> SUFFICES ASSUME IInv, RightInv, QuietInv, PlacesInv, shut = "no"
                 PROVE  NothingLost /\ NothingTwice
      BY DEF HeldOnce
    <2>1. /\ \A i \in Item : Places(i) \in {0, 1}
          /\ \A i \in Item : Places(i) = 1 => answer[i] = Open
          /\ \A i, q \in Item : Submitted(i) /\ answer[i] = Open /\ q = Primary(i) => Places(q) = 1
      BY DEF PlacesInv
    <2>2. NothingTwice
      BY <2>1 DEF NothingTwice
    <2>3. ASSUME NEW t \in Threads, NEW i \in Awaited(t), answer[i] = Open
          PROVE  Places(IF i \in copies THEN Primary(i) ELSE i) = 1
      <3>1. i \in Item /\ Submitted(i)
        BY AwaitedSubmitted
      <3>2. Primary(i) \in Item
        BY <3>1, PrimaryFacts DEF IInv, Submitted, Reached
      <3>3. Primary(i) = i \/ i \in copies
        BY <2>3, <3>1 DEF RightInv, SubmittedInv
      <3>4. PICK q \in Item : q = IF i \in copies THEN Primary(i) ELSE i
        BY <3>1, <3>2
      <3>5. q = Primary(i)
        BY <3>3, <3>4
      <3>6. Places(q) = 1
        BY <2>1, <2>3, <3>1, <3>5
      <3> QED
        BY <3>4, <3>6
    <2> QED
      BY <2>2, <2>3 DEF NothingLost
  <1> QED
    BY <1>1, Invariance, RightAlways, PlacesAlways, PTL

----------------------------------------------------------------------------
(***************************************************************************)
(* The client implements the service                                       *)
(***************************************************************************)
\* An exception registered for a thread is the answer of one of its requests.
ExceptionInv ==
    shut = "no" => \A t \in Threads : threadExc[t] # NoException =>
                      \E i \in Item : i.thread = t /\ answer[i].kind = "error"

\* Registering the exception of a request in its one place answers it.
LEMMA RegisterAnswers ==
    ASSUME IInv, ExceptionInv, shut = "no", NEW x \in Item, x \notin copies, answer[x] = Open,
           RegisterExceptions({x}), Final
    PROVE  \A t \in Threads : threadExc'[t] # NoException =>
               \E i \in Item : i.thread = t /\ answer'[i].kind = "error"
  <1> SUFFICES ASSUME NEW t \in Threads, threadExc'[t] # NoException
               PROVE  \E i \in Item : i.thread = t /\ answer'[i].kind = "error"
    OBVIOUS
  <1>1. answer'[x] = Error(x)
    BY DEF RegisterExceptions, Resolve, Settles
  <1>2. CASE x.thread = t
    BY <1>1, <1>2 DEF Error
  <1>3. CASE x.thread # t
    <2>1. threadExc'[t] = threadExc[t]
      BY <1>3 DEF RegisterExceptions
    <2>2. PICK i \in Item : i.thread = t /\ answer[i].kind = "error"
      BY <2>1 DEF ExceptionInv
    <2>3. answer'[i] = answer[i]
      BY <2>2 DEF Final, Open
    <2> QED
      BY <2>2, <2>3
  <1> QED
    BY <1>2, <1>3

\* Every step keeps that so until shutdown.
LEMMA NextExceptions ==
    ASSUME IInv, QuietInv, PlacesInv, ExceptionInv, [Next]_vars
    PROVE  ExceptionInv'
  <1> USE DEF threadVars, workerVars, backoffVars, sweepVars, shutVars, TaskStates, WorkerStates,
          ShutStates
  <1> SUFFICES ASSUME shut' = "no"
               PROVE  \A t \in Threads : threadExc'[t] # NoException =>
                          \E i \in Item : i.thread = t /\ answer'[i].kind = "error"
    BY DEF ExceptionInv
  <1>1. IInv' /\ Final
    BY NextInv
  <1>2. ASSUME UNCHANGED threadExc, shut = "no"
        PROVE  \A t \in Threads : threadExc'[t] # NoException =>
                   \E i \in Item : i.thread = t /\ answer'[i].kind = "error"
    <2>1. \A i \in Item : answer[i].kind = "error" => answer'[i] = answer[i]
      BY <1>1 DEF Final, Open
    <2> QED
      BY <1>2, <2>1 DEF ExceptionInv
  <1>3. CASE \E t \in Threads : Thread(t) \/ Enqueue(t) \/ \E b \in Batches : Call(t, b)
    <2>1. UNCHANGED threadExc /\ shut = "no"
      BY <1>3 DEF Thread, Enqueue, Call, RaiseThreadException, SubmitAnswered, SubmitDuplicate,
                  SubmitNew, StartCollecting, Collect
    <2> QED
      BY <1>2, <2>1
  <1>4. CASE Worker
    <2>1. shut = "no"
      BY <1>4 DEF Worker, Fetch, GetRetry, GetRequest, Resume, Stop, Dispatch, Deny, Wake,
                  RefuseTooLarge, Refuse, EndBackoff
    <2>2. worker \in {"scan", "refusing"} => work[scan] \in Item
      BY DEF IInv, TypeOK, WorkerInv
    <2>3. worker \in {"scan", "refusing"} => answer[work[scan]] = Open /\ work[scan] \notin copies
      BY <2>1, <2>2, ScannedOpen
    <2>4. CASE Refuse
      <3>1. RegisterExceptions({work[scan]})
        BY <2>3, <2>4 DEF Refuse
      <3>2. work[scan] \in Item /\ answer[work[scan]] = Open /\ work[scan] \notin copies
        BY <2>2, <2>3, <2>4 DEF Refuse
      <3> QED
        BY <1>1, <2>1, <3>1, <3>2, RegisterAnswers
    <2>5. CASE ~Refuse
      <3>1. RefuseTooLarge => UNCHANGED threadExc
        BY <2>3 DEF RefuseTooLarge
      <3>2. UNCHANGED threadExc
        BY <1>4, <2>5, <3>1 DEF Worker, Fetch, GetRetry, GetRequest, Resume, Stop, Dispatch, Deny,
                                Wake, EndBackoff
      <3> QED
        BY <1>2, <2>1, <3>2
    <2> QED
      BY <2>4, <2>5
  <1>5. ASSUME NEW i \in Item, Request(i)
        PROVE  \A t \in Threads : threadExc'[t] # NoException =>
                   \E j \in Item : j.thread = t /\ answer'[j].kind = "error"
    <2>1. shut = "no" /\ task[i] # "none"
      BY <1>5 DEF Request, StartRequest, EndRequest, Timeout, Transient, Answers, Fatal, Succeed,
                  Fails, SetFuture, SetException, SetResult, Ends
    <2>2. answer[i] = Open /\ i \notin copies
      BY <2>1, TaskOpen
    <2>3. CASE SetException(i)
      <3>1. RegisterExceptions({i})
        BY <2>2, <2>3 DEF SetException
      <3> QED
        BY <1>1, <2>1, <2>2, <3>1, RegisterAnswers
    <2>4. CASE ~SetException(i)
      <3>1. UNCHANGED threadExc
        BY <1>5, <2>2, <2>4 DEF Request, StartRequest, EndRequest, Timeout, Transient, Answers,
                                Fatal, Succeed, Fails, SetFuture, SetResult
      <3> QED
        BY <1>2, <2>1, <3>1
    <2> QED
      BY <2>3, <2>4
  <1>6. CASE ShutdownBegin \/ SetEvent \/ Shutdown
    <2>1. SetEvent
      BY <1>6 DEF ShutdownBegin, Shutdown, ShutdownPending, ShutdownSweep, ShutdownStrike,
                  ShutdownClear, ShutdownRequests, ShutdownRetries, ShutdownCancel,
                  ShutdownKeepLoop, ShutdownStopLoop
    <2> QED
      BY <1>2, <2>1 DEF SetEvent
  <1>7. CASE UNCHANGED vars
    BY <1>2, <1>7 DEF vars
  <1> QED
    BY <1>3, <1>4, <1>5, <1>6, <1>7 DEF Next, Terminated

\* In every state a registered exception is that of a failed request of its thread.
LEMMA ExceptionsAlways == Spec => []ExceptionInv
  <1>1. Init => ExceptionInv
    BY DEF Init, ExceptionInv
  <1>2. IInv /\ (QuietInv /\ PlacesInv) /\ ExceptionInv /\ [Next]_vars => ExceptionInv'
    BY NextExceptions
  <1> QED
    BY <1>1, <1>2, Invariance, PlacesAlways, PTL DEF Spec

\* What the service says a request asked for is what the client looks up.
LEMMA AskedIs ==
    ASSUME NEW i \in Item
    PROVE  Service!Asked(i) = IF Posed(i) THEN <<KeyOf(i)>> ELSE <<>>
  BY DEF Service!Asked, Posed, KeyOf

\* And what fits a request fits it there.
LEMMA FitsThere ==
    ASSUME NEW i \in Item, NEW a, Posed(i), Fitting(a, i)
    PROVE  Service!Fits(a, i)
  <1>1. Service!Null = Null
    BY DEF Service!Null, Null
  <1>2. \A r \in Item : Posed(r) => Service!Asked(r) = <<KeyOf(r)>>
    BY AskedIs
  <1>3. CASE KeyOf(i) = None
    BY <1>1, <1>2, <1>3 DEF Fitting, Service!Fits
  <1>4. ASSUME KeyOf(i) # None, NEW r \in Item, a = Response(r), Posed(r), KeyOf(r) = KeyOf(i)
        PROVE  Service!Fits(a, i)
    <2>1. a.kind = "response" /\ a.item = r
      BY <1>4 DEF Response
    <2>2. Service!Asked(r) = Service!Asked(i)
      BY <1>2, <1>4
    <2>3. Service!Asked(i) # <<None>>
      <3>1. <<KeyOf(i)>> # <<None>>
        BY <1>4
      <3> QED
        BY <1>2, <3>1
    <2> QED
      BY <2>1, <2>2, <2>3 DEF Service!Fits
  <1>5. ASSUME NEW r \in Item, a = Error(r), Posed(r), r.thread = i.thread, KeyOf(r) = KeyOf(i)
        PROVE  Service!Fits(a, i)
    <2>1. a.kind = "error" /\ a.item = r
      BY <1>5 DEF Error
    <2>2. Service!Asked(r) = Service!Asked(i)
      BY <1>2, <1>5
    <2> QED
      BY <1>5, <2>1, <2>2 DEF Service!Fits
  <1> QED
    BY <1>3, <1>4, <1>5 DEF Fitting, MadeFor

\* Every step that begins no call answers as the service may.
LEMMA AnsweredService ==
    ASSUME IInv, IInv', Final, RightInv', UNCHANGED asked
    PROVE  Service!Answered
  <1>1. /\ TypeOK' /\ answer' \in [Item -> Answer]
    BY DEF IInv, TypeOK
  <1>2. Service!Item = Item /\ Service!Open = Open /\ Service!Null = Null
    BY DEF Service!Item, Item, Service!Open, Open, Service!Null, Null
  <1>3. \A i \in Item : Posed(i)' = Posed(i) /\ KeyOf(i)' = KeyOf(i) /\ Primary(i)' = Primary(i)
    BY SameRequest DEF Posed
  <1>4. ASSUME NEW i \in Item, answer'[i] # answer[i]
        PROVE  /\ answer[i] = Open /\ answer'[i] # Open /\ Posed(i)
               /\ Fitting(answer[i], i)' /\ answer'[Primary(i)] = answer'[i]
    <2>1. answer[i] = Open /\ answer'[i] # Open
      BY <1>4 DEF Final
    <2>2. Posed(i)'
      BY <2>1 DEF IInv, FreshInv, Reached, Posed
    <2> QED
      BY <1>3, <2>1, <2>2 DEF RightInv, FutureInv
  <1>5. ASSUME NEW i \in Item, answer'[i] # answer[i]
        PROVE  /\ Service!Asked(i) = <<KeyOf(i)>>
               /\ Service!Fits(answer'[i], i)
    <2>1. Posed(i) /\ Service!Asked(i) = <<KeyOf(i)>>
      BY <1>4, <1>5, AskedIs
    <2>2. Fitting(answer'[i], i)
      BY <1>3, <1>4, <1>5 DEF Fitting, MadeFor
    <2> QED
      BY <2>1, <2>2, FitsThere
  <1>6. ASSUME NEW i \in Item, answer'[i] # answer[i], NEW j \in Service!Duplicates(i)
        PROVE  answer'[j] \in {Open, answer'[i]}
    <2>1. j \in Item /\ j.thread = i.thread /\ j.call = i.call /\ Service!Asked(j) = Service!Asked(i)
      BY <1>2, <1>6 DEF Service!Duplicates
    <2>2. Posed(i) /\ Service!Asked(i) = <<KeyOf(i)>>
      BY <1>4, <1>5, <1>6
    <2>3. Posed(j) /\ KeyOf(j) = KeyOf(i)
      <3>1. \A x, y : <<x>> # <<>> /\ (<<x>> = <<y>> => x = y)
        OBVIOUS
      <3> QED
        BY <2>1, <2>2, <3>1, AskedIs, Zenon
    <2>4. Primary(j) = Primary(i)
      <3>1. TypeOK
        BY DEF IInv
      <3> QED
        BY <2>1, <2>2, <2>3, <3>1, PrimaryOfDuplicates
    <2>5. answer'[j] # Open => answer'[Primary(j)] = answer'[j]
      BY <1>3, <2>1 DEF RightInv, FutureInv
    <2>6. answer'[Primary(i)] = answer'[i]
      BY <1>4, <1>6
    <2> QED
      BY <2>4, <2>5, <2>6
  <1>7. DOMAIN answer' = Item
    BY <1>1
  <1>8. ASSUME NEW i \in Item, answer'[i] # answer[i]
        PROVE  /\ answer[i] = Service!Open /\ Service!Asked(i) # <<>> /\ Service!Fits(answer'[i], i)
               /\ \A j \in Service!Duplicates(i) : answer'[j] \in {Service!Open, answer'[i]}
    <2>1. <<KeyOf(i)>> # <<>>
      OBVIOUS
    <2>2. Service!Asked(i) # <<>>
      BY <1>5, <1>8, <2>1, Zenon
    <2> QED
      BY <1>2, <1>4, <1>5, <1>6, <1>8, <2>2
  <1> QED
    BY <1>2, <1>7, <1>8 DEF Service!Answered

\* How the calls that run look to the service.
LEMMA RunningThere ==
    ASSUME IInv, IInv', NEW T \in SUBSET Threads, \A t \in T : phase'[t] = "idle",
           \A t \in Threads \ T : phase'[t] = "idle" <=> phase[t] = "idle"
    PROVE  /\ [t \in Threads |-> phase[t] # "idle"]'
              = [t \in Threads |-> [u \in Threads |-> phase[u] # "idle"][t] /\ t \notin T]
           /\ T = {} => UNCHANGED [t \in Threads |-> phase[t] # "idle"]
  <1>1. \A t \in Threads : (phase'[t] # "idle") = ((phase[t] # "idle") /\ t \notin T)
    OBVIOUS
  <1>2. T = {} => \A t \in Threads : (phase'[t] # "idle") = (phase[t] # "idle")
    OBVIOUS
  <1>3. \A t \in Threads : [u \in Threads |-> phase[u] # "idle"][t] = (phase[t] # "idle")
    OBVIOUS
  <1> QED
    BY <1>1, <1>2, <1>3, Zenon

\* A step that ends or begins no call settles what it answers.
LEMMA SettleStep ==
    ASSUME IInv, IInv', Final, RightInv', UNCHANGED <<asked, verdict>>, (shut' # "no") = (shut # "no"),
           \A t \in Threads : phase'[t] = "idle" <=> phase[t] = "idle"
    PROVE  Service!Settle
  <1>1. UNCHANGED [t \in Threads |-> phase[t] # "idle"]
    BY RunningThere
  <1>2. Service!Answered
    BY AnsweredService
  <1> QED
    BY <1>1, <1>2 DEF Service!Settle

\* Calls raise for a request of their thread that failed, or because of the shutdown.
LEMMA RaiseStep ==
    ASSUME IInv, IInv', Final, RightInv', QuietInv, ExceptionInv, NEW t \in Threads, Raises(t),
           Thread(t), \A u \in Threads \ {t} : Stays(u)
    PROVE  Service!Raise(t) \/ \E T \in SUBSET Threads : Service!GiveUp(T)
  <1> USE DEF threadVars, workerVars, backoffVars, sweepVars, shutVars, TaskStates, WorkerStates,
          ShutStates
  <1>1. /\ phase \in [Threads -> {"idle", "submit", "enqueue", "collect"}]
        /\ verdict \in [Threads -> Seq({"returned", "raised"})]
        /\ verdict' \in [Threads -> Seq({"returned", "raised"})]
        /\ asked \in [Threads -> Seq(Batches)] /\ asked' \in [Threads -> Seq(Batches)]
        /\ answer \in [Item -> Answer]
    BY DEF IInv, TypeOK
  <1>2. /\ UNCHANGED shut /\ asked' = asked
        /\ phase[t] # "idle" /\ phase'[t] = "idle" /\ verdict'[t] = Append(verdict[t], "raised")
    BY <1>1 DEF Thread, RaiseThreadException, SubmitAnswered, SubmitDuplicate, SubmitNew,
                StartCollecting, Collect, Raises
  <1>3. /\ \A u \in Threads \ {t} : phase'[u] = "idle" <=> phase[u] = "idle"
        /\ \A u \in Threads \ {t} : verdict'[u] = verdict[u]
    BY DEF Stays
  <1>4. CASE shut # "no"
    <2>1. Service!Answered
      BY <1>2, AnsweredService
    <2>2. [u \in Threads |-> phase[u] # "idle"]'
          = [u \in Threads |-> [v \in Threads |-> phase[v] # "idle"][u] /\ u \notin {t}]
      BY <1>2, <1>3, RunningThere
    <2>3. verdict' = [u \in Threads |-> IF u \in {t} THEN Append(verdict[u], "raised") ELSE verdict[u]]
      BY <1>1, <1>2, <1>3
    <2>4. \A u \in {t} : [v \in Threads |-> phase[v] # "idle"][u]
      BY <1>2
    <2>5. Service!GiveUp({t})
      BY <1>2, <1>4, <2>1, <2>2, <2>3, <2>4 DEF Service!GiveUp
    <2> QED
      BY <2>5
  <1>5. CASE shut = "no"
    <2>1. UNCHANGED answer /\ \E i \in Item : i.thread = t /\ answer[i].kind = "error"
      <3>1. CASE RaiseThreadException(t)
        BY <1>5, <3>1 DEF RaiseThreadException, ExceptionInv
      <3>2. CASE Collect(t)
        <4>1. pos[t] <= Len(Batch(t)) /\ Failed(t) /\ phase[t] = "collect"
          <5>1. pos[t] \in Nat /\ Len(Batch(t)) \in Nat
            BY <1>2, RunningFacts
          <5>2. verdict'[t] = Append(verdict[t], "raised") /\ Append(verdict[t], "raised") # Append(verdict[t], "returned")
            <6>1. verdict[t] \in Seq({"returned", "raised"})
              BY <1>1
            <6>2. Append(verdict[t], "raised")[Len(verdict[t]) + 1] = "raised"
              BY <6>1
            <6>3. Append(verdict[t], "returned")[Len(verdict[t]) + 1] = "returned"
              BY <6>1
            <6>4. "raised" # "returned"
              OBVIOUS
            <6> QED
              BY <1>2, <6>2, <6>3, <6>4
          <5>3. ~EndCall(t, "returned")
            BY <1>1, <5>2 DEF EndCall
          <5> QED
            BY <1>1, <1>2, <3>2, <5>1, <5>3 DEF Collect
        <4>2. Current(t) \in Item /\ Current(t).thread = t
          <5>1. /\ pos[t] \in 1..MaxLen /\ Len(asked[t]) \in 1..MaxCalls
            <6>1. /\ Len(Batch(t)) \in 0..MaxLen /\ pos[t] \in 1..(Len(Batch(t)) + 1) /\ MaxLen \in Nat
                  /\ Len(asked[t]) \in 1..MaxCalls
              BY <1>2, RunningFacts
            <6> QED
              BY <4>1, <6>1
          <5> QED
            BY <5>1 DEF Current, Item
        <4> QED
          BY <3>2, <4>1, <4>2 DEF Collect, Failed
      <3>3. ~SubmitNew(t)
        BY <1>1, <1>2, <1>5 DEF QuietInv, SubmitNew
      <3>4. ~(SubmitAnswered(t) \/ SubmitDuplicate(t) \/ StartCollecting(t))
        BY <1>1, <1>2 DEF SubmitAnswered, SubmitDuplicate, StartCollecting
      <3> QED
        BY <3>1, <3>2, <3>3, <3>4 DEF Thread
    <2>2. [u \in Threads |-> phase[u] # "idle"][t]
      BY <1>2
    <2>3. [u \in Threads |-> phase[u] # "idle"]'
          = [[u \in Threads |-> phase[u] # "idle"] EXCEPT ![t] = FALSE]
      <3>1. [u \in Threads |-> phase[u] # "idle"]'
            = [u \in Threads |-> [v \in Threads |-> phase[v] # "idle"][u] /\ u \notin {t}]
        BY <1>2, <1>3, RunningThere
      <3>2. \A f : f \in [Threads -> BOOLEAN] =>
                [u \in Threads |-> f[u] /\ u \notin {t}] = [f EXCEPT ![t] = FALSE]
        OBVIOUS
      <3>3. [u \in Threads |-> phase[u] # "idle"] \in [Threads -> BOOLEAN]
        OBVIOUS
      <3> QED
        BY <3>1, <3>2, <3>3, Zenon
    <2>4. verdict' = [verdict EXCEPT ![t] = Append(@, "raised")]
      BY <1>1, <1>2, <1>3
    <2>5. Service!Item = Item
      BY DEF Service!Item, Item
    <2> QED
      BY <1>2, <2>1, <2>2, <2>3, <2>4, <2>5 DEF Service!Raise
  <1> QED
    BY <1>4, <1>5

\* A call returns with an answer to each of its requests.
LEMMA ReturnStep ==
    ASSUME IInv, IInv', CallInv, NEW t \in Threads, Returns(t), Thread(t),
           \A u \in Threads \ {t} : Stays(u)
    PROVE  Service!Return(t)
  <1> USE DEF threadVars, workerVars, backoffVars, sweepVars, shutVars, TaskStates, WorkerStates,
          ShutStates
  <1>1. /\ phase \in [Threads -> {"idle", "submit", "enqueue", "collect"}]
        /\ verdict \in [Threads -> Seq({"returned", "raised"})]
        /\ verdict' \in [Threads -> Seq({"returned", "raised"})]
    BY DEF IInv, TypeOK
  <1>2. /\ phase[t] = "collect" /\ phase'[t] = "idle" /\ pos[t] > Len(Batch(t))
        /\ verdict'[t] = Append(verdict[t], "returned")
    BY DEF Returns
  <1>3. UNCHANGED <<asked, answer, shut>>
    BY <1>2 DEF Thread, RaiseThreadException, SubmitAnswered, SubmitDuplicate, SubmitNew,
                StartCollecting, Collect, Uncached, Submitting
  <1>4. \A p \in DOMAIN asked[t][Len(asked[t])] :
            answer[[thread |-> t, call |-> Len(asked[t]), pos |-> p]].kind \in {"null", "response"}
    <2>1. /\ Len(Batch(t)) \in Nat /\ pos[t] \in Nat /\ Batch(t) = asked[t][Len(asked[t])]
          /\ Batch(t) \in Seq(Keys \cup {None})
      BY <1>2, RunningFacts
    <2>2. \A p \in DOMAIN asked[t][Len(asked[t])] : p \in 1..(pos[t] - 1)
      BY <1>2, <2>1, SMTT(30)
    <2> QED
      BY <1>2, <2>2 DEF CallInv, ReturnInv, Collected, RequestAt
  <1>5. [u \in Threads |-> phase[u] # "idle"][t]
    BY <1>2
  <1>6. [u \in Threads |-> phase[u] # "idle"]'
        = [[u \in Threads |-> phase[u] # "idle"] EXCEPT ![t] = FALSE]
    <2>1. [u \in Threads |-> phase[u] # "idle"]'
          = [u \in Threads |-> [v \in Threads |-> phase[v] # "idle"][u] /\ u \notin {t}]
      BY <1>2, RunningThere DEF Stays
    <2>2. \A f : f \in [Threads -> BOOLEAN] =>
              [u \in Threads |-> f[u] /\ u \notin {t}] = [f EXCEPT ![t] = FALSE]
      OBVIOUS
    <2>3. [u \in Threads |-> phase[u] # "idle"] \in [Threads -> BOOLEAN]
      OBVIOUS
    <2> QED
      BY <2>1, <2>2, <2>3, Zenon
  <1>7. verdict' = [verdict EXCEPT ![t] = Append(@, "returned")]
    BY <1>1, <1>2 DEF Stays
  <1> QED
    BY <1>3, <1>4, <1>5, <1>6, <1>7 DEF Service!Return

\* A thread begins a call.
LEMMA BeginStep ==
    ASSUME IInv, NEW t \in Threads, NEW b \in Batches, Call(t, b)
    PROVE  Service!Call(t, b)
  <1> USE DEF threadVars, workerVars, backoffVars, sweepVars, shutVars, TaskStates, WorkerStates,
          ShutStates
  <1>1. phase \in [Threads -> {"idle", "submit", "enqueue", "collect"}]
    BY DEF IInv, TypeOK
  <1>2. /\ phase[t] = "idle" /\ phase' = [phase EXCEPT ![t] = "submit"]
        /\ asked' = [asked EXCEPT ![t] = Append(@, b)] /\ UNCHANGED <<verdict, answer, shut>>
    BY DEF Call
  <1>3. ~[u \in Threads |-> phase[u] # "idle"][t]
    BY <1>2
  <1>4. [u \in Threads |-> phase[u] # "idle"]'
        = [[u \in Threads |-> phase[u] # "idle"] EXCEPT ![t] = TRUE]
    <2>1. \A u \in Threads : (phase'[u] # "idle") = (u = t \/ [v \in Threads |-> phase[v] # "idle"][u])
      BY <1>1, <1>2
    <2>2. \A f : f \in [Threads -> BOOLEAN] =>
              [u \in Threads |-> u = t \/ f[u]] = [f EXCEPT ![t] = TRUE]
      OBVIOUS
    <2>3. [u \in Threads |-> phase[u] # "idle"] \in [Threads -> BOOLEAN]
      OBVIOUS
    <2> QED
      BY <2>1, <2>2, <2>3, Zenon
  <1> QED
    BY <1>2, <1>3, <1>4 DEF Service!Call

\* Every step of the client is a step of the service, or none.
LEMMA ServiceStep ==
    ASSUME IInv, RightInv, CallInv, QuietInv, ExceptionInv, [Next]_vars
    PROVE  [Service!Next]_(Service!vars)
  <1> USE DEF threadVars, workerVars, backoffVars, sweepVars, shutVars, TaskStates, WorkerStates,
          ShutStates
  <1>1. IInv' /\ Final /\ RightInv'
    BY NextInv, NextRight
  <1>2. /\ phase \in [Threads -> {"idle", "submit", "enqueue", "collect"}]
        /\ phase' \in [Threads -> {"idle", "submit", "enqueue", "collect"}]
        /\ verdict \in [Threads -> Seq({"returned", "raised"})]
        /\ verdict' \in [Threads -> Seq({"returned", "raised"})]
        /\ asked \in [Threads -> Seq(Batches)] /\ asked' \in [Threads -> Seq(Batches)]
    BY <1>1 DEF IInv, TypeOK
  <1>3. ASSUME NEW t \in Threads, NEW b \in Batches, Call(t, b) PROVE Service!Next
    BY <1>3, BeginStep DEF Service!Next
  <1>4. ASSUME NEW t \in Threads, Thread(t) \/ Enqueue(t) PROVE Service!Next
    <2>1. /\ Stays(t) \/ Begins(t) \/ Collects(t) \/ Raises(t) \/ Returns(t)
          /\ \A u \in Threads \ {t} : Stays(u)
      BY <1>4, ThreadCalls
    <2>2. UNCHANGED <<asked, shut>>
      BY <1>4 DEF Thread, Enqueue, RaiseThreadException, SubmitAnswered, SubmitDuplicate, SubmitNew,
                  StartCollecting, Collect
    <2>3. ~Begins(t)
      BY <1>2, <1>4 DEF Begins, Thread, Enqueue, RaiseThreadException, SubmitAnswered,
                        SubmitDuplicate, SubmitNew, StartCollecting, Collect, Uncached, Submitting
    <2>4. CASE Stays(t) \/ Collects(t)
      <3>1. \A u \in Threads : phase'[u] = "idle" <=> phase[u] = "idle"
        BY <2>1, <2>4 DEF Stays, Collects
      <3>2. verdict' = verdict
        BY <1>2, <2>1, <2>4 DEF Stays, Collects
      <3> QED
        BY <1>1, <2>2, <3>1, <3>2, SettleStep DEF Service!Next
    <2>5. CASE Raises(t) \/ Returns(t)
      <3>1. Thread(t)
        BY <1>2, <1>4, <2>5 DEF Enqueue, Raises, Returns
      <3> QED
        BY <1>1, <2>1, <2>5, <3>1, RaiseStep, ReturnStep DEF Service!Next
    <2> QED
      BY <2>1, <2>3, <2>4, <2>5
  <1>5. CASE ClientAction /\ ~ShutdownBegin /\ ~ShutdownStopLoop
    <2>1. \A t \in Threads : Stays(t)
      BY <1>5, ClientCalls
    <2>2. asked' = asked /\ verdict' = verdict
      BY <1>2, <2>1 DEF Stays
    <2>3. \A t \in Threads : phase'[t] = "idle" <=> phase[t] = "idle"
      BY <2>1 DEF Stays
    <2>4. (shut' # "no") = (shut # "no")
      <3>1. CASE Shutdown
        BY <1>5, <3>1 DEF Shutdown, ShutdownPending, ShutdownSweep, ShutdownStrike, ShutdownClear,
                          ShutdownRequests, ShutdownRetries, ShutdownCancel, ShutdownKeepLoop
      <3>2. CASE ~Shutdown
        <4>1. UNCHANGED shut
          BY <1>5, <3>2 DEF ClientAction, Worker, Fetch, GetRetry, GetRequest, Resume, Stop, Dispatch,
                 Deny, Wake, RefuseTooLarge, Refuse, EndBackoff, SetEvent, Request, StartRequest,
                 EndRequest, Timeout, Transient, Answers, Fatal, Succeed, SetFuture, SetException,
                 SetResult
        <4> QED
          BY <4>1
      <3> QED
        BY <3>1, <3>2
    <2> QED
      BY <1>1, <2>2, <2>3, <2>4, SettleStep DEF Service!Next
  <1>6. CASE ShutdownBegin
    <2>1. /\ shut' # "no" /\ UNCHANGED <<phase, asked, verdict, answer>>
      BY <1>6 DEF ShutdownBegin
    <2>2. UNCHANGED [t \in Threads |-> phase[t] # "idle"]
      BY <2>1
    <2>3. (shut' # "no") = TRUE
      BY <2>1
    <2> QED
      BY <2>1, <2>2, <2>3 DEF Service!Stop, Service!Next
  <1>7. CASE ShutdownStopLoop
    <2> DEFINE T == {t \in Threads : phase[t] = "enqueue"}
    <2>1. PICK S \in SUBSET Threads : S = T
      OBVIOUS
    <2>2. /\ shut # "no" /\ shut' # "no" /\ asked' = asked
          /\ phase' = [t \in Threads |-> IF phase[t] = "enqueue" THEN "idle" ELSE phase[t]]
          /\ verdict' = [t \in Threads |-> IF phase[t] = "enqueue" THEN Append(verdict[t], "raised")
                                           ELSE verdict[t]]
      BY <1>7 DEF ShutdownStopLoop
    <2>3. \A t \in Threads : t \in S <=> phase[t] = "enqueue"
      BY <2>1
    <2> HIDE DEF T
    <2>4. [t \in Threads |-> phase[t] # "idle"]'
          = [t \in Threads |-> [u \in Threads |-> phase[u] # "idle"][t] /\ t \notin S]
      BY <1>1, <2>2, <2>3, RunningThere
    <2>5. verdict' = [t \in Threads |-> IF t \in S THEN Append(verdict[t], "raised") ELSE verdict[t]]
      BY <2>2, <2>3
    <2>6. \A t \in S : [u \in Threads |-> phase[u] # "idle"][t]
      BY <2>3
    <2>7. Service!Answered
      BY <1>1, <2>2, AnsweredService
    <2>8. (shut' # "no") = (shut # "no")
      BY <2>2
    <2>9. Service!GiveUp(S)
      BY <2>2, <2>4, <2>5, <2>6, <2>7, <2>8 DEF Service!GiveUp
    <2> QED
      BY <2>9 DEF Service!Next
  <1>8. CASE UNCHANGED vars
    <2>1. UNCHANGED <<phase, asked, verdict, answer, shut>>
      BY <1>8 DEF vars
    <2> QED
      BY <2>1 DEF Service!vars
  <1> QED
    BY <1>3, <1>4, <1>5, <1>6, <1>7, <1>8 DEF Next, Terminated, ClientAction

\* Seen by its callers the client is the service: for any number of threads, batches,
\* retries and any size of the queue, every answer is settled once, to a request that asked
\* for it and to its duplicates alike; a call that returns has all its answers; and one that
\* raises does so for a request of its thread that failed, or because of the shutdown.
THEOREM IsService == Spec => ImplementsService
  <1>1. Init => Service!Init
    <2> SUFFICES ASSUME Init PROVE Service!Init
      OBVIOUS
    <2>1. /\ Service!Item = Item /\ Service!Open = Open
      BY DEF Service!Item, Item, Service!Open, Open
    <2>2. [t \in Threads |-> phase[t] # "idle"] = [t \in Threads |-> FALSE]
      BY DEF Init
    <2>3. (shut # "no") = FALSE
      BY DEF Init
    <2> QED
      BY <2>1, <2>2, <2>3 DEF Init, Service!Init
  <1>2. IInv /\ (RightInv /\ CallInv) /\ (QuietInv /\ PlacesInv) /\ ExceptionInv /\ [Next]_vars
            => [Service!Next]_(Service!vars)
    BY ServiceStep
  <1> QED
    BY <1>1, <1>2, Invariance, RightAlways, PlacesAlways, ExceptionsAlways, PTL
    DEF Spec, ImplementsService, Service!Spec
=============================================================================
