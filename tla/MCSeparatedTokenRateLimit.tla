--------------------- MODULE MCSeparatedTokenRateLimit ---------------------
(* SeparatedTokenRateLimitStrategy, on a small instance: estimates heavy in   *)
(* input, in output, and one beyond the output limit; a response that uses    *)
(* less of what it reserved and one that uses more.                          *)
EXTENDS TokenRateLimit

MCKinds     == {"input", "output"}
MCTPM       == [input |-> 3, output |-> 2]
MCEstimates == {[input |-> 2, output |-> 1], [input |-> 1, output |-> 2],
                [input |-> 1, output |-> 3]}
MCActuals   == {[input |-> 1, output |-> 0], [input |-> 2, output |-> 3]}
=============================================================================
