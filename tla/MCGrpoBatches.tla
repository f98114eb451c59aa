---------------------------- MODULE MCGrpoBatches ----------------------------
(***************************************************************************)
(* Two to four ranks, two completions of each prompt or four; two of the   *)
(* four prompts do not encode.                                             *)
(***************************************************************************)
EXTENDS GrpoBatches

Base == [megatron |-> FALSE, tp |-> 1, dp |-> 2, pp |-> 1, sp |-> 1, per |-> 2, g |-> 2,
         spg |-> 2, iters |-> 1, gas |-> 1, delete |-> FALSE, dynamic |-> FALSE,
         retries |-> 0, total |-> 4]
Megatron == [Base EXCEPT !.megatron = TRUE]

DeleteJobs == {[Base EXCEPT !.delete = TRUE], [Base EXCEPT !.delete = TRUE, !.spg = 1]}
MCJobs == DeleteJobs \cup {
  \* HF: iterations over a buffer, a group across the ranks, sequence parallelism
  [Base EXCEPT !.iters = 2, !.total = 9],
  [Base EXCEPT !.g = 4, !.spg = 1, !.gas = 2],
  [Base EXCEPT !.sp = 2, !.spg = 1, !.iters = 2, !.total = 9],
  [Base EXCEPT !.dp = 4, !.per = 1, !.sp = 2, !.spg = 1],
  [Base EXCEPT !.dynamic = TRUE, !.retries = 2, !.total = 2],
  [Base EXCEPT !.dynamic = TRUE, !.retries = 1, !.g = 4, !.sp = 2, !.total = 5],
  \* Megatron: prompts replaced, ranks of a data index next to each other or not
  [Megatron EXCEPT !.delete = TRUE, !.total = 4],
  [Megatron EXCEPT !.dp = 1, !.tp = 2, !.g = 4, !.total = 4],
  [Megatron EXCEPT !.dp = 2, !.pp = 2, !.per = 2, !.total = 4],
  [Megatron EXCEPT !.dp = 2, !.pp = 2, !.per = 1, !.spg = 1, !.total = 2],
  [Megatron EXCEPT !.dp = 1, !.pp = 2, !.per = 2, !.delete = TRUE, !.dynamic = TRUE,
                   !.retries = 1, !.total = 2],
  [Megatron EXCEPT !.dp = 2, !.tp = 2, !.per = 1, !.dynamic = TRUE, !.retries = 2,
                   !.spg = 1, !.total = 1]}
=============================================================================
