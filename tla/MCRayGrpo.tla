------------------------------ MODULE MCRayGrpo ------------------------------
(***************************************************************************)
(* Up to five weights through NCCL buckets of three bytes and IPC          *)
(* buffers of two, so that both senders flush in the middle and a bucket   *)
(* of one does not end with one of the other; one or two replicas, one or  *)
(* two workers each.                                                       *)
(***************************************************************************)
EXTENDS RayGrpo

Plan(colocated, sizes, tp, late, tuner, adapter, fails) ==
  [colocated |-> colocated, sizes |-> sizes, tp |-> tp, late |-> late,
   tuner |-> tuner, adapter |-> adapter, fails |-> fails]

FiveWeights == <<1, 1, 2, 2, 1>>
Deployments == {
  Plan(TRUE, <<1, 2>>, 2, FALSE, "lora", FALSE, TRUE),
  Plan(TRUE, <<2, 1>>, 1, FALSE, "lora", TRUE, FALSE),
  Plan(TRUE, <<1, 3>>, 1, FALSE, "lora", FALSE, FALSE),    \* a weight larger than the buffer
  Plan(FALSE, FiveWeights, 1, FALSE, "lora", FALSE, TRUE),
  Plan(FALSE, <<2, 2>>, 1, FALSE, "lora", TRUE, FALSE),
  Plan(FALSE, <<2, 2>>, 2, FALSE, "full", FALSE, FALSE),
  Plan(FALSE, <<3, 2>>, 1, FALSE, "lora", FALSE, FALSE),   \* the same
  Plan(FALSE, <<1, 4>>, 1, FALSE, "lora", FALSE, FALSE),   \* larger than an NCCL bucket
  Plan(FALSE, <<2, 2>>, 1, TRUE, "full", FALSE, FALSE)}
TwoReplicas == <<"r1", "r2">>
=============================================================================
