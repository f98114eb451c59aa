---------------------------- MODULE MCEvalBatch -----------------------------
(* Three calls: one thread can hold a batch of two while another holds one. *)
EXTENDS EvalBatch

CONSTANTS c1, c2, c3

Calls3 == {c1, c2, c3}
SizesMixed == {0, 2}
=============================================================================
