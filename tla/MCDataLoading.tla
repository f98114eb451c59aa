---------------------------- MODULE MCDataLoading ----------------------------
(***************************************************************************)
(* Two processes, or three; data sets that fill their rounds of batches    *)
(* and ones that do not, trained on for two epochs or three.               *)
(***************************************************************************)
EXTENDS DataLoading

\* A different permutation for each seed: a rotation, then reversed or not.
Rotated(seed, n) == [i \in 1..n |-> IF seed % 2 = 0 THEN ((i + seed) % n) + 1
                                    ELSE n - ((i + seed) % n)]

Plan(kind, total, world, batch, epochs) ==
  [kind |-> kind, total |-> total, world |-> world, batch |-> batch, shuffle |-> TRUE,
   drop_last |-> FALSE, sharding |-> FALSE, epochs |-> epochs, steps |-> 5, save |-> 1]

Jobs == {
  Plan("shard", 7, 2, 1, 2),
  [Plan("shard", 7, 2, 2, 2) EXCEPT !.shuffle = FALSE],
  [Plan("shard", 7, 2, 2, 3) EXCEPT !.drop_last = TRUE],
  Plan("sequence", 5, 2, 1, 2),
  [Plan("sequence", 5, 3, 1, 2) EXCEPT !.save = 2],
  Plan("stream", 7, 2, 1, 1),
  [Plan("stream", 9, 2, 2, 1) EXCEPT !.save = 2],
  [Plan("stream", 9, 2, 1, 1) EXCEPT !.steps = 3],
  Plan("megatron", 5, 2, 2, 2),
  Plan("megatron", 3, 2, 1, 3),
  Plan("megatron", 6, 3, 1, 2),
  [Plan("megatron", 7, 2, 1, 2) EXCEPT !.sharding = TRUE],
  [Plan("megatron", 9, 2, 2, 2) EXCEPT !.shuffle = FALSE, !.save = 2]}
ShardJobs == {p \in Jobs : p.kind = "shard"}
=============================================================================
