------------------------- MODULE MCIterablePacking --------------------------
(* Datasets of up to five samples in rounds of two: none, exactly full and   *)
(* partly full last rounds; the third sample is longer than a pack.          *)
EXTENDS IterablePacking

CONSTANTS w1, w2

TwoWorkers == {w1, w2}
Lengths == [s \in 1..MaxSamples |-> IF s = 3 THEN 3 ELSE 1]
=============================================================================
