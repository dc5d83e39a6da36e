--------------------- MODULE MCAdaptiveBackoffRateLimit ---------------------
(* A small instance of AdaptiveBackoffRateLimit: the rate starts between its  *)
(* bounds, a hint may be below or above it, and backing off halves it.        *)
EXTENDS AdaptiveBackoffRateLimit

MCHints  == {1, 3}
MCDelays == {1, 3}
=============================================================================
