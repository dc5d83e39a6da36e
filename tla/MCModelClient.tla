---------------------------- MODULE MCModelClient ----------------------------
(* Small instances of ModelClient: batches with a duplicate, an empty request *)
(* and a request no rate limit admits.                                        *)
EXTENDS ModelClient, TLC

CONSTANTS t1, t2, k1, k2, big

MCTooLarge == {big}

MCBatches     == {<<k1, None, k1>>, <<k2, big>>}
LiveBatches   == {<<k1, k1>>, <<k1, big>>}
SingleBatches == {<<k1>>}

Symmetry == Permutations(Threads)
=============================================================================
