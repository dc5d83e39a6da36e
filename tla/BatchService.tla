---------------------------- MODULE BatchService ----------------------------
(***************************************************************************)
(* What make_batch_requests promises its callers, without queues, workers, *)
(* retries or rate limits: a thread asks for a batch, the answer of each    *)
(* request is settled once, and the call either returns an answer to every  *)
(* request it was asked or raises because a request of the thread failed or *)
(* because the service was stopped.                                         *)
(***************************************************************************)
EXTENDS Integers, Sequences

CONSTANTS Threads, Keys, None, Batches, MaxCalls, MaxLen

Item == [thread : Threads, call : 1..MaxCalls, pos : 1..MaxLen]

Open        == [kind |-> "open"]
Null        == [kind |-> "null"]
Response(i) == [kind |-> "response", item |-> i]
Error(i)    == [kind |-> "error", item |-> i]

VARIABLES
    running,    \* is the thread inside make_batch_requests
    asked,      \* the batches each thread asked for
    verdict,    \* how each of its calls ended
    answer,     \* the answer to each request
    stopped     \* was the service told to stop

vars == <<running, asked, verdict, answer, stopped>>

Init ==
    /\ running = [t \in Threads |-> FALSE]
    /\ asked = [t \in Threads |-> <<>>]
    /\ verdict = [t \in Threads |-> <<>>]
    /\ answer = [i \in Item |-> Open]
    /\ stopped = FALSE

\* What request i asked for.
Asked(i) ==
    IF i.call \in DOMAIN asked[i.thread] /\ i.pos \in DOMAIN asked[i.thread][i.call]
    THEN <<asked[i.thread][i.call][i.pos]>> ELSE <<>>

Call(t, b) ==
    /\ ~running[t]
    /\ running' = [running EXCEPT ![t] = TRUE]
    /\ asked' = [asked EXCEPT ![t] = Append(@, b)]
    /\ UNCHANGED <<verdict, answer, stopped>>

\* A duplicate is the same request asked for again in the same batch.
Duplicates(i) ==
    {j \in Item : j.thread = i.thread /\ j.call = i.call /\ Asked(j) = Asked(i)}

\* Request i may be given answer a: it was made for a request that asked for the same.
Fits(a, i) ==
    \/ a = Null /\ Asked(i) = <<None>>
    \/ a.kind = "response" /\ Asked(a.item) = Asked(i) /\ Asked(i) # <<None>>
    \/ a.kind = "error" /\ a.item.thread = i.thread /\ Asked(a.item) = Asked(i)

\* Requests asked for are answered, each once and as its duplicates are.
Answered ==
    /\ DOMAIN answer' = Item
    /\ \A i \in Item : answer'[i] # answer[i] =>
        /\ answer[i] = Open
        /\ Asked(i) # <<>>
        /\ Fits(answer'[i], i)
        /\ \A j \in Duplicates(i) : answer'[j] \in {Open, answer'[i]}

Settle ==
    /\ Answered
    /\ UNCHANGED <<running, asked, verdict, stopped>>

Return(t) ==
    /\ running[t]
    /\ \A p \in DOMAIN asked[t][Len(asked[t])] :
        answer[[thread |-> t, call |-> Len(asked[t]), pos |-> p]].kind \in {"null", "response"}
    /\ running' = [running EXCEPT ![t] = FALSE]
    /\ verdict' = [verdict EXCEPT ![t] = Append(@, "returned")]
    /\ UNCHANGED <<asked, answer, stopped>>

\* A call raises because a request of its thread failed.
Raise(t) ==
    /\ running[t]
    /\ \E i \in Item : i.thread = t /\ answer[i].kind = "error"
    /\ running' = [running EXCEPT ![t] = FALSE]
    /\ verdict' = [verdict EXCEPT ![t] = Append(@, "raised")]
    /\ UNCHANGED <<asked, answer, stopped>>

Stop ==
    /\ stopped' = TRUE
    /\ UNCHANGED <<running, asked, verdict, answer>>

\* Once the service is stopped calls may raise for that, several at once, and requests
\* that are given up fail with them.
GiveUp(T) ==
    /\ stopped
    /\ \A t \in T : running[t]
    /\ running' = [t \in Threads |-> running[t] /\ t \notin T]
    /\ verdict' = [t \in Threads |-> IF t \in T THEN Append(verdict[t], "raised") ELSE verdict[t]]
    /\ Answered
    /\ UNCHANGED <<asked, stopped>>

Next ==
    \/ \E t \in Threads : Return(t) \/ Raise(t) \/ \E b \in Batches : Call(t, b)
    \/ Settle
    \/ Stop
    \/ \E T \in SUBSET Threads : GiveUp(T)

Spec == Init /\ [][Next]_vars
=============================================================================
