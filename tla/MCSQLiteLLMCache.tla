--------------------------- MODULE MCSQLiteLLMCache ---------------------------
(* Three threads over a pool of two connections, one of which may fail anywhere. *)
EXTENDS SQLiteLLMCache, TLC

CONSTANTS t1, t2, t3, c1, k1, k2

MCCacheOf == (t1 :> c1) @@ (t2 :> c1) @@ (t3 :> c1)

Get(S)        == [kind |-> "get", keys |-> S, value |-> None]
GetBatch(S)   == [kind |-> "get_batch", keys |-> S, value |-> None]
SetOne(S)     == [kind |-> "set", keys |-> S, value |-> 1]
SetBatch(S)   == [kind |-> "set_batch", keys |-> S, value |-> 2]
ClearAll      == [kind |-> "clear", keys |-> {}, value |-> None]

MCOps == (t1 :> {Get({k1}), GetBatch({k1, k2})})
      @@ (t2 :> {ClearAll})
      @@ (t3 :> {SetOne({k1}), SetBatch({k1, k2})})

MCMaxOps == [t \in Threads |-> 1]
=============================================================================
