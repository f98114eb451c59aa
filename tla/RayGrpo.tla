------------------------------- MODULE RayGrpo -------------------------------
(***************************************************************************)
(* GRPO under Ray: the driver's loop (ray/megatron/grpo_trainer.py) and    *)
(* the CheckpointEngineManager, around the weight transfer.  The driver    *)
(* waits for every remote call it makes, so its own steps are sequential;  *)
(* what runs side by side is the transfer and the replicas' generation.    *)
(*                                                                         *)
(* Colocated replicas share the trainer's GPUs and are put to sleep while  *)
(* it trains; separate ones stay awake.  The tuner is "full" or "lora";    *)
(* with plan.adapter (vllm_enable_lora) the adapter is sent by itself      *)
(* after the first synchronisation instead of being merged.                *)
(***************************************************************************)
EXTENDS WeightTransfer

CONSTANTS
  TrainIters,  \* train_iters
  Spg,         \* steps_per_generation
  Prompts,     \* prompts of a generation batch
  ReplicaOrder, \* the replicas as the driver lists them
  None         \* no cached block

ASSUME GrpoAssumption ==
  /\ TrainIters \in Nat /\ Spg \in Nat \ {0} /\ Prompts \in Nat \ {0}
  /\ ReplicaOrder \in Seq(Replicas) /\ ToSet(ReplicaOrder) = Replicas
  /\ Len(ReplicaOrder) = Cardinality(Replicas) /\ ReplicaOrder # <<>>
  /\ \A p \in Plans : /\ p.tuner \in {"full", "lora"}
                      /\ {p.adapter, p.fails} \subseteq BOOLEAN
                      /\ p.adapter => p.tuner = "lora"

VARIABLES
  driver,      \* where the driver is in its loop
  iteration,   \* training steps done: the version of the policy
  base_sync_done,
  sleeping,    \* _sleeping_tags
  place,       \* where the training model is: "gpu" or "cpu"
  merged,      \* the adapters are merged into the training model
  held,        \* what the replicas hold: base weights, whether with the
               \* adapters merged, and an adapter
  cached,      \* per replica, the version whose key/value blocks of the
               \* common prompt prefix are cached
  parts,       \* per replica, the completions of its shard
  rollout,     \* the completions of the generation batch
  step         \* training steps done with them

grpo == <<driver, iteration, base_sync_done, sleeping, place, merged, held, cached,
          parts, rollout, step>>
vars == <<transfer, grpo>>

Tags == {"weights", "kv_cache"}
merge_and_sync == ~plan.adapter
adapter_only == base_sync_done /\ ~merge_and_sync
Lora == plan.tuner = "lora"

Init ==
  /\ TransferInit
  /\ driver = "top" /\ iteration = 0 /\ base_sync_done = FALSE
  /\ sleeping = {} /\ place = "gpu" /\ merged = FALSE
  /\ held = [base |-> 0, merged |-> FALSE, adapter |-> None]
  /\ cached = [r \in Replicas |-> None]
  /\ parts = [r \in Replicas |-> <<>>] /\ rollout = <<>> /\ step = 0

-----------------------------------------------------------------------------
(* CheckpointEngineManager.                                                *)

Slept == IF sleeping = {} THEN Tags ELSE sleeping     \* sleep_rollout
Woken(tags, by) == by \ tags                          \* wake_up_rollout
\* Mutant of PrefixReset: no reset.
PrefixKept == cached
\* reset_prefix_cache of the replica's engine, through the training worker's
\* adapter: only colocated workers have one.
PrefixReset == IF plan.colocated THEN [r \in Replicas |-> None] ELSE cached

\* sync_weights: colocated replicas sleep but for their weights; the adapters
\* are merged unless they are sent by themselves.
SyncWeights ==
  /\ driver = "top" /\ iteration < TrainIters
  /\ driver' = "sync"
  /\ sleeping' = IF plan.colocated THEN Woken({"weights"}, Slept) ELSE sleeping
  /\ merged' = (merge_and_sync /\ Lora)
  /\ UNCHANGED <<transfer, iteration, base_sync_done, place, held, cached, parts,
                 rollout, step>>

\* update_weights, or send_checkpoint_weights with receive_checkpoint_weights.
SendWeights ==
  /\ driver = "sync"
  /\ driver' = "transfer"
  /\ place' = IF plan.colocated THEN "cpu" ELSE place    \* offload_to_cpu
  /\ StartTransfer(iteration)
  /\ UNCHANGED <<iteration, base_sync_done, sleeping, merged, held, cached, parts,
                 rollout, step>>

WeightsArrived ==
  /\ driver = "transfer"
  /\ EndTransfer
  /\ driver' = "synced"
  /\ held' = IF adapter_only THEN [held EXCEPT !.adapter = version]
             ELSE [held EXCEPT !.base = version, !.merged = merged]
  /\ cached' = PrefixReset
  /\ UNCHANGED <<iteration, base_sync_done, sleeping, place, merged, parts, rollout, step>>

\* reload_to_gpu and unmerge_lora.
Restore ==
  /\ driver = "synced"
  /\ driver' = "generation"
  /\ place' = "gpu"
  /\ merged' = FALSE
  /\ base_sync_done' = TRUE
  /\ UNCHANGED <<transfer, iteration, sleeping, held, cached, parts, rollout, step>>

\* Mutant of SyncRaises: no finally.
SyncRaisesMerged ==
  /\ driver = "transfer" /\ TransferFailed
  /\ driver' = "raised"
  /\ place' = "gpu"
  /\ merged' = merged
  /\ UNCHANGED <<transfer, iteration, base_sync_done, sleeping, held, cached, parts,
                 rollout, step>>

\* A call of the transfer raised: the naive path restores in a finally, the
\* other does not; train() ends.
SyncRaises ==
  /\ driver = "transfer" /\ TransferFailed
  /\ driver' = "raised"
  /\ place' = "gpu"
  /\ merged' = (merged /\ ~plan.colocated)
  /\ UNCHANGED <<transfer, iteration, base_sync_done, sleeping, held, cached, parts,
                 rollout, step>>

-----------------------------------------------------------------------------
(* Generation: _generation_context, _distribute_to_replicas.               *)

EnterGeneration ==
  /\ driver = "generation"
  /\ driver' = "generate"
  /\ place' = IF plan.colocated THEN "cpu" ELSE place
  /\ sleeping' = IF plan.colocated THEN Woken({"kv_cache"}, sleeping) ELSE sleeping
  /\ parts' = [r \in Replicas |-> <<>>]
  /\ UNCHANGED <<transfer, iteration, base_sync_done, merged, held, cached, rollout, step>>

Chunk == (Prompts + Len(ReplicaOrder) - 1) \div Len(ReplicaOrder)
Place(r) == CHOOSE i \in DOMAIN ReplicaOrder : ReplicaOrder[i] = r
ShardStart(r) == (Place(r) - 1) * Chunk
\* batch[i * chunk_size : (i + 1) * chunk_size], which ends with the batch.
Shard(r) ==
  [n \in 1..(IF ShardStart(r) + Chunk <= Prompts THEN Chunk ELSE Prompts - ShardStart(r))
     |-> ShardStart(r) + n]

\* The policy a replica samples from: no request names the adapter, so it is
\* its base weights that count, the initial ones where nothing was merged in.
Policy == IF Lora /\ ~held.merged THEN 0 ELSE held.base
Prefix(r) == IF cached[r] = None THEN Policy ELSE cached[r]

Generate(r) ==
  /\ driver = "generate"
  /\ Shard(r) # <<>> /\ parts[r] = <<>>
  /\ parts' = [parts EXCEPT ![r] =
       [i \in DOMAIN Shard(r) |->
          [prompt |-> Shard(r)[i], policy |-> Policy, prefix |-> Prefix(r)]]]
  /\ cached' = [cached EXCEPT ![r] = Prefix(r)]
  /\ UNCHANGED <<transfer, driver, iteration, base_sync_done, sleeping, place, merged,
                 held, rollout, step>>

\* The finally of _generation_context: finalize_generation, sleep, reload.
LeaveGeneration ==
  /\ cached' = PrefixReset
  /\ sleeping' = IF plan.colocated THEN Slept ELSE sleeping
  /\ place' = "gpu"
  /\ UNCHANGED <<transfer, iteration, base_sync_done, merged, held, parts>>

Collected == FlattenSeq([i \in DOMAIN ReplicaOrder |-> parts[ReplicaOrder[i]]])
Collect ==
  /\ driver = "generate"
  /\ \A r \in Replicas : Shard(r) # <<>> => parts[r] # <<>>
  /\ LeaveGeneration
  /\ driver' = "train" /\ rollout' = Collected /\ step' = 0

GenerateRaises ==
  /\ driver = "generate" /\ plan.fails
  /\ LeaveGeneration
  /\ driver' = "raised"
  /\ UNCHANGED <<rollout, step>>

-----------------------------------------------------------------------------
(* Training on the chunks of the generation batch.                         *)

\* Mutant of TrainStep: the chunks are trained on past train_iters.
TrainStepAll ==
  /\ driver = "train" /\ step < Spg
  /\ iteration' = iteration + 1
  /\ step' = step + 1
  /\ UNCHANGED <<transfer, driver, base_sync_done, sleeping, place, merged, held,
                 cached, parts, rollout>>

TrainStep ==
  /\ driver = "train" /\ step < Spg /\ iteration < TrainIters
  /\ iteration' = iteration + 1
  /\ step' = step + 1
  /\ UNCHANGED <<transfer, driver, base_sync_done, sleeping, place, merged, held,
                 cached, parts, rollout>>

NextBatch ==
  /\ driver = "train" /\ (step = Spg \/ iteration >= TrainIters)
  /\ driver' = "top" /\ rollout' = <<>>
  /\ UNCHANGED <<transfer, iteration, base_sync_done, sleeping, place, merged, held,
                 cached, parts, step>>

\* tg.finalize() queues behind what the training workers are still doing.
TrainersFree == plan.colocated \/ (trainer.pc # "send" /\ trainer.op.st = "idle")
Finish ==
  /\ \/ driver = "top" /\ iteration >= TrainIters
     \/ driver = "raised" /\ TrainersFree
  /\ driver' = "ended"
  /\ UNCHANGED <<transfer, iteration, base_sync_done, sleeping, place, merged, held,
                 cached, parts, rollout, step>>

DriverNext ==
  \/ SyncWeights \/ SendWeights \/ WeightsArrived \/ Restore \/ SyncRaises
  \/ EnterGeneration \/ Collect \/ GenerateRaises
  \/ TrainStep \/ NextBatch \/ Finish
Transfers == TransferNext /\ UNCHANGED grpo
Next == DriverNext \/ Transfers \/ \E r \in Replicas : Generate(r)

Spec == Init /\ [][Next]_vars
\* Processes and threads that can go on do; messages and collectives arrive.
FairSpec ==
  /\ Spec
  /\ WF_vars(DriverNext)
  /\ WF_vars((TrainerNext \/ Broadcast) /\ UNCHANGED grpo)
  /\ \A r \in Replicas : /\ WF_vars((ServerNext(r) \/ WorkerNext(r)) /\ UNCHANGED grpo)
                         /\ WF_vars(Generate(r))

-----------------------------------------------------------------------------
(* Properties.                                                             *)

Versions == 0..TrainIters
Completions == [prompt : 1..Prompts, policy : Versions, prefix : Versions]
TypeOK ==
  /\ TransferTypeOK
  /\ driver \in {"top", "sync", "transfer", "synced", "generation", "generate",
                 "train", "raised", "ended"}
  /\ iteration \in Versions /\ step \in 0..Spg
  /\ {base_sync_done, merged} \subseteq BOOLEAN
  /\ sleeping \subseteq Tags /\ place \in {"gpu", "cpu"}
  /\ held \in [base : Versions, merged : BOOLEAN, adapter : Versions \cup {None}]
  /\ cached \in [Replicas -> Versions \cup {None}]
  /\ rollout \in Seq(Completions)
  /\ \A r \in Replicas : parts[r] \in Seq(Completions)

GpuShared ==
  plan.colocated =>
    /\ (TrainIters > 0 /\ (driver # "top" \/ iteration > 0)) =>
         ("kv_cache" \notin sleeping => place = "cpu")
    /\ driver = "generate" => sleeping = {}
    /\ driver \in {"train", "ended"} => (place = "gpu" /\ (iteration > 0 => sleeping = Tags))

TrainsUnmerged ==
  /\ driver \in {"top", "generate", "train"} => ~merged
  /\ driver = "ended" /\ (plan.colocated \/ ~TransferFailed) => ~merged

\* Once the colocated replicas have been put to sleep, their key/value cache
\* and the training model are never on the GPUs together, and they generate
\* with weights and cache awake; nor does a training step find them awake
\* or the model away.  The policy that is trained is never the merged model,
\* whatever was raised on the way; only a transfer over NCCL that fails leaves
\* the adapters merged, and training then ends.
ModelsInPlace == GpuShared /\ TrainsUnmerged

\* Every prompt of the batch has its completion in its place, sampled by the
\* policy the batch began with (so at most steps_per_generation - 1 steps ago),
\* and colocated replicas have not mixed in cached blocks of an older one.  (With
\* vllm_enable_lora the replicas keep sampling from the initial weights, and
\* separate ones keep the blocks of the first policy.)
OnPolicy ==
  driver = "train" =>
    /\ [i \in DOMAIN rollout |-> rollout[i].prompt] = [p \in 1..Prompts |-> p]
    /\ \A i \in DOMAIN rollout :
         /\ ~plan.adapter => rollout[i].policy = iteration - step
         /\ plan.colocated => rollout[i].prefix = rollout[i].policy

\* A fitting model and subscriptions in time: the driver trains to the end or
\* until generation raises.  A weight that does not fit ends colocated
\* training with an error; over NCCL the training workers may be left in a
\* broadcast nobody joins.
Fits == \A w \in Weights : Size(w) <= IpcCap /\ Size(w) <= NcclCap
GrpoEnds ==
  (plan.colocated \/ (Fits /\ ~plan.late)) ~> driver = "ended"
=============================================================================
