---------------------------- MODULE OrderedStream ----------------------------
(***************************************************************************)
(* What a user of AsyncUDFSyncStream relies on: the outcomes of the items   *)
(* come one by one in the order of the items, each outcome is the one its   *)
(* own call had, and a stream ends only when every item has been answered or *)
(* after a full buffer of outcomes.                                         *)
(***************************************************************************)
EXTENDS Naturals, Sequences

CONSTANTS NumItems, MaxBuffer

VARIABLES
    outcome,    \* how the call of each item ended, "none" before it did
    output,     \* the outcomes yielded so far
    over        \* has the stream ended, or was it abandoned

svars == <<outcome, output, over>>

Init ==
    /\ outcome = [i \in 1..NumItems |-> "none"]
    /\ output = <<>>
    /\ over = FALSE

Complete(i, how) ==
    /\ outcome[i] = "none"
    /\ outcome' = [outcome EXCEPT ![i] = how]
    /\ UNCHANGED <<output, over>>

Yield ==
    /\ ~over
    /\ Len(output) < NumItems
    /\ outcome[Len(output) + 1] # "none"
    /\ output' = Append(output, outcome[Len(output) + 1])
    /\ UNCHANGED <<outcome, over>>

Finish ==
    /\ Len(output) = NumItems \/ Len(output) >= MaxBuffer
    /\ over' = TRUE
    /\ UNCHANGED <<outcome, output>>

\* The consumer may leave after an outcome it does not accept.
Abandon ==
    /\ output # <<>>
    /\ over' = TRUE
    /\ UNCHANGED <<outcome, output>>

Next ==
    \/ \E i \in 1..NumItems, how \in {"ok", "error"} : Complete(i, how)
    \/ Yield
    \/ Finish
    \/ Abandon

Spec == Init /\ [][Next]_svars
=============================================================================
