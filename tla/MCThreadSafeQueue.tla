------------------------- MODULE MCThreadSafeQueue -------------------------
(* ThreadSafeQueue for TLC: with two producers and three consumers one      *)
(* notification has to choose among waiters, and several notifications can  *)
(* be outstanding at once.                                                  *)
EXTENDS ThreadSafeQueue
=============================================================================
