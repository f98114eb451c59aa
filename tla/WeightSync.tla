----------------------------- MODULE WeightSync -----------------------------
(***************************************************************************)
(* What a weight synchronisation between the trainer and the rollout       *)
(* replicas promises, whatever carries the weights: while it is on, every  *)
(* worker of every replica loads the trainer's weights, in the trainer's   *)
(* order and each once, and it is over only when all have loaded them all. *)
(* Nothing is loaded between two synchronisations.  WeightTransfer is      *)
(* shown to implement this.                                                *)
(***************************************************************************)
EXTENDS Naturals, Sequences

VARIABLES workers,      \* the vLLM workers of all replicas, fixed
          count,        \* the number of weights of the model, fixed
          on,           \* a synchronisation is under way
          version,      \* the version of the trainer's weights it carries
          loaded        \* the weights each worker has loaded during it

vars == <<workers, count, on, version, loaded>>

Order(n) == [i \in 1..n |-> i]

Init == /\ on = FALSE
        /\ version = 0
        /\ loaded = [w \in workers |-> <<>>]

Start == /\ ~on
         /\ on' = TRUE
         /\ version' >= version
         /\ loaded' = [w \in workers |-> <<>>]
         /\ UNCHANGED <<workers, count>>

Load(w) == /\ on
           /\ \E n \in Len(loaded[w])..count :
                 loaded' = [loaded EXCEPT ![w] = Order(n)]
           /\ UNCHANGED <<workers, count, on, version>>

Finish == /\ on
          /\ \A w \in workers : loaded[w] = Order(count)
          /\ on' = FALSE
          /\ UNCHANGED <<workers, count, version, loaded>>

Next == Start \/ (\E w \in workers : Load(w)) \/ Finish

Spec == Init /\ [][Next]_vars
=============================================================================
