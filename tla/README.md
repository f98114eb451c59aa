# Formal models of ms-swift's concurrent core

TLA+ models, TLC checks and TLAPS proofs for this repository (ms-swift with a
latent-reasoning plugin). Most of the repository is tensor code, text templates and
configuration; what is modelled here is the part whose correctness depends on *order*:
threads, processes, queues, futures, pipes and collectives. Paths below are relative to
the repository's root.

To repeat everything: `tlc -config X.cfg M` for each row of the table of runs, and
`tlapm M.tla` for each of the modules of section 4 for the proofs. `PROJECT.json` holds the same
information for tools: components, runs, which lines of the source every definition
stands for, a mutation of the code for each property, hazards, findings and theorems.

## 1. The system

### Components with state that several actors share

| Component | State | Operations | Actors | Hard behaviour | Correct means |
|---|---|---|---|---|---|
| **TransformersEngine**, asynchronous half (`swift/infer_engine/transformers_engine.py`) | `_queue`, `_task_pool` (ordered dict keyed by a hash of the request config), `_task_thread`, one reply queue per call | `infer_async`, `_add_request`, `_fetch_infer_requests`, `_infer_worker`, `_infer_full`, `_infer_stream` | coroutines of the server's event loop; one daemon thread; a generation thread per streaming batch | calls arrive while a batch runs; half-served lists return to the dict; exceptions end the thread; `None` means two things in a stream | no call lost or answered twice, config kept, FIFO per config, batches within the limit, calls end |
| **EvalModel batching** (`swift/pipelines/eval/utils.py`) | global `batch_thread`, `batch_queue`; a future per call | `generate`, `_process_batches` | the harness's threads; the batch threads they start | unsynchronised test, assignment and start of the thread; an error after half of a batch was delivered | a request is run once and answered or refused, a race costs no more threads than calls, errors reach every waiter |
| **IterablePackingDataset** (`swift/dataset/packing.py`) | `_in_queue`, `_out_queue`, samples held back | `__iter__`, `_put_data_in_queue`, `_fetch_data_out_queue`, `_processor`, `calculate_matched_group` | the training process; `num_proc` encoder processes | results out of order; queues that outlive a generator; the last pack of a round is held back; an encoder that dies | every encodable sample in exactly one pack, per iteration and in dataset order |
| **Rollout server and client** (`swift/pipelines/infer/rollout.py`, `swift/rlhf_trainers/vllm_client.py`) | pipes, the workers' communicator, weights and prefix cache | `/infer/`, `/init_communicator/`, `/update_*/`, `/reset_prefix_cache/`, `/close_communicator/` | trainer, FastAPI process, one process per data-parallel rank | an update is acknowledged before it is done; broadcasts go past the server; processes die, methods raise | outputs belong to the prompts of this call; inference uses the last synchronised weights and no older cache; collectives pair up |
| **Asynchronous generation** (`swift/rlhf_trainers/rollout_mixin.py`, `grpo_trainer.py`) | `train_queue`, `eval_queue`, `_last_loaded_step`, `eval_flag`, a one-thread executor | `_prefetch`, `_fast_infer`, `async_generate_rollout`, `training_step`, `evaluation_loop` | trainer thread, executor thread | waits on two queues that only an earlier round fills; the queue is chosen by a flag that changes between submit and get | each round consumes what the round before asked for, sampled from the previous update step's weights; nobody waits for nothing |
| **Multi-turn driver** (`swift/rollout/agent_loop.py`, `multi_turn.py`, `rlhf_trainers/utils.py`) | per trajectory: messages, token ids, loss mask, log-probabilities; per rank: the requests that go on | `run_multi_turn`, `MultiTurnScheduler.run`, `step`, `check_finished`, `_colocate_rollout`, `replace_assistant_response_with_ids` | all ranks in lock step; one coroutine per trajectory on the server | ranks with nothing left still take part in collectives; three sequences grow on different branches | ranks leave the loop together with their own responses; ids, masks and log-probabilities end up on their tokens |
| Offline packing, indexed dataset (`packing.py`, `indexed_dataset.py`) | shard files, offsets, a result queue | `PackingDataset`, `IndexedDatasetBuilder`, `IndexedDataset` | packing processes, ranks | shard boundary arithmetic; partial files | reading back item *i* gives item *i* |
| **Weight transfer under Ray** (`swift/ray/megatron/checkpoint_engine/nccl.py`, `rollout/weight_transfer.py`, `update_weights_from_ipc` in `swift/pipelines/infer/rollout.py`) | two buckets at the trainer and at each receiver, PUB/SUB metadata, one buffer shared with a replica's workers, a REQ/REP socket | `send_weights`, `receive_weights`, `BroadcastOperation`, `handshake`, `_process`, `_flush`, `update_weights_from_ipc` | trainer rank 0 and its broadcast thread, a server process per replica, its vLLM workers, device streams | buffers are filled while they are broadcast or copied; copies land late; two bucket sizes; a subscription that is late; a weight that is too large | every worker loads every weight once, in order, whole and of this version; the synchronisation is over only then |
| **GRPO driver under Ray** (`swift/ray/megatron/grpo_trainer.py`, `checkpoint_engine/manager.py`, `megatron_worker.py`) | iteration, `base_sync_done`, `_sleeping_tags`, where the training model is, merged adapters, the replicas' caches | `sync_weights`, `_generation_context`, `_distribute_to_replicas`, `_train_loop` | driver, training workers, replicas | replica and trainer share GPUs; merge, offload and sleep must be undone on each failure path; stale caches | models never on the GPU together, no step on merged weights, completions from the current policy and in order, training ends |
| **Data loading** (`swift/dataloader/`, `trainers/mixin.py`, `sequence_parallel/utils.py`, `megatron/trainers/batch_sampler.py`) | sampler state and seed per process, an iterator on rank 0, checkpoints | `BatchSamplerShard`, `DataLoaderDispatcher`, `SequenceParallelSampler`, `MegatronPretrainingRandomSampler`, `cyclic_iter`, `skip_first_batches` | data-parallel processes in collective steps | sizes that do not divide; the end of a stream within a round; crash and resumption in the middle of an epoch | no sample twice in an epoch, less than a round left out, all steps taken, all processes stop |
| **GRPO generation batches** (`rlhf_trainers/grpo_trainer.py`, `rollout_mixin.py`, `megatron/trainers/grpo_trainer.py`) | `_step`, `_buffered_inputs`, valid samples and `origin_data` of dynamic sampling, the sampler's position | `_prepare_inputs`, `resample_encode_failed_inputs`, `_dynamic_sampling`, `_compute_advantages`, `split_by_mini_batches`, `get_local_rollout_batch`, `_replace_data_iterator` | all ranks, in collectives | a group is only a position in a gather over ranks; prompts are replaced, filtered, gathered and split on the way; three counters | an advantage is relative to the sample's own prompt; each sample is buffered once; slices are used in turn |
| Colocated vLLM (`rollout_mixin.py`) | engine asleep or awake, model on or off the device | `_fast_infer` and its context managers | one process per rank | an exception between wake and sleep | generation only while awake with current weights |

### How they interact

* `swift deploy` (`swift/pipelines/infer/deploy.py`) calls the engine's `infer_async`
  once per HTTP request, on one event loop, with a config and an `adapter_request` each.
* `swift eval` (`swift/pipelines/eval/utils.py`) puts `EvalModel` in front of the
  *synchronous* interface of an engine.
* GRPO training calls `VLLMClient.infer` from the executor thread (asynchronous
  generation) or from the trainer thread, and moves weights with `update_*` and
  `reset_prefix_cache`. AsyncRollout models the trainer down to "the server has
  version v" and "a rollout finishes"; RolloutServer models what is behind these two.
* In multi-turn rollouts `run_multi_turn` calls the trainer's `_rollout` once per turn
  (colocated, or a server without a scheduler); with a scheduler on the server, the
  server's workers run `MultiTurnScheduler.run` and the trainer sees its result only.
* Training reads its samples through the packing and dispatching layers. DataLoading is
  about which samples each process gets; IterablePacking about what is in a sample;
  GrpoBatches about what becomes of a GRPO batch after it was drawn.
* Under Ray the driver calls the CheckpointEngineManager, which starts both ends of a
  WeightTransfer and waits for them; RayGrpo composes the two.

### Components that are not modelled

Other inference engines (their scheduling is in third-party libraries); HTTP parsing and
formatting; Ray placement; the trainers' losses; the latent-reasoning plugin in
`colar_plugin/`; tensor code of sequence parallelism and Megatron; dataset preprocessing;
templates; models, tuners, losses, metrics; command line and web UI. They are numeric,
formatting or configuration code, or wrappers whose control flow is that of an external
library. `PROJECT.json` lists each with its reason. Most of the repository's lines are of
these kinds, which is why the share of lines with a model is small.

## 2. The modules

`Mutant of X` operators stand before the definition `X` they distort. They are used by no
action; substituting one for `X` makes a property fail (section 5).

### BatchQueue and TransformersEngine

`TransformersEngine` has one action per atomic piece of the code:

| Action | Code |
|---|---|
| `Call`, `Resume` | `infer_async` before and after its `await asyncio.sleep(0)`; the first to resume starts the thread |
| `Receive` | `await queue.get()`, or one turn of the stream's `_gen_wrapper` |
| `Drain`, `Take` | the loop and the rest of `_fetch_infer_requests` |
| `EncodeRaises`, `GenerateRaises` | exceptions out of `_infer`, in the thread itself or in the streamer's generation thread |
| `AnswerFull` | `_infer_full`, the errors put back, every member answered |
| `StartStream`, `StreamChunk`, `StreamLast`, `StreamStop` | `_infer_stream`, its last chunk, and `StopIteration` |

A request is whether it encodes, its config and its adapter; text is the kind of the item
(`full`, `delta`, `last`, `error`, `none`) and the kwargs it was generated with. The pool is
a sequence of entries, since Python dicts keep insertion order. The single-threaded event
loop makes code between two awaits atomic with respect to other coroutines, not to the
daemon thread; the only state they share is the thread-safe `_queue` and the reply queues.

`BatchQueue` is what the engine promises: per config one FIFO line, a batch is a prefix of
one line, one batch at a time. `PerConfigFifo` is `BatchQueue!Spec` under the mapping that
lays a config's pool entry in front of its calls in the queue (`Line`, of `ListOf` and
`OfConfig`): the engine implements it.

### EvalBatch

`generate` is cut where another caller can come between: `ReadThread` (test of the global),
`AssignThread` (a thread is constructed and the global set to it, whatever it held),
`StartThread` (the global is read again and `.start()` called on what it names now), `Put` and
`Return`. So two callers can both see `None`, and the second to assign overwrites the first:
then the first to start starts the other's thread, the other's `.start()` raises RuntimeError
out of `generate` (`pc` is `failed`, nothing was queued), and a thread stays `new` for ever.
`Thread` is external and modelled by its contract, a thread starts once and a second `.start()` raises;
that older interpreters check this without a lock is left out.
A batch thread has `Collect`, `Timeout` (2 s without an item), `Infer`, `Deliver` (one `set_result`
each), `Raise` (the engine or the conversion of one completion), `SetException` and
`InvalidState` (`set_exception` on a future that is done). `batch_size` None is 0, which a length
never equals. Time is abstracted: a timeout may happen whenever the queue is empty.

### IterablePacking

The generator (`PutSample`, `FetchResult`, `Pack`, `Yield`, `NextRound`), the encoder
processes (`WorkerGet`, `WorkerPut`, `WorkerDies`), and `Iterate`, by which the consumer
starts a generator, perhaps dropping one suspended at a yield. `binpacking` is external:
any partition into bins that fit. A sample is its number, a length and what `encode` does
with it; a sample that does not encode is `{}` in the queue (`Empty`) or, with `strict`, ends
its process. `cyclic=True` is left out.

### RolloutServer

The server's handlers block its event loop, so it handles one request at a time: `Handle`
writes to the pipes, `Collect` reads one reply from each and answers. `llm_worker` takes
one command at a time (`TakeInit`, `TakeUpdate`, `TakeClose`, `TakeReset`, `TakeInfer`,
`Load`). `Join` and `Broadcast` are collectives: they happen when every participant has
reached them. The trainer makes one blocking call at a time (`Ask*`, `Receive`, `Exit`,
and the `atexit` closing in `Leave`). `Crash` and `WorkerDies` kill a process without
`atexit`; `Outcomes` lets a worker's method raise, which the worker logs and answers with
`None`. A parameter's value is the number of the synchronisation that produced it; a cached
prefix is the weights it was computed with; a prompt is (call, position).

### AsyncRollout

The trainer thread follows `transformers.Trainer`'s loop (which is outside the repository
and modelled from how the trainer classes hook into it): `TrainBegin` with its prefetch,
`TrainingStep`, `Generate`, `Get`, `Backward`, `StepEnd`, and the evaluation
(`BeginEvaluation`, `EvalGenerate`, `EvalGet`, `EndEvaluation`). `RolloutDone` is the executor
thread with its done-callback. Each rollout carries its mode, its round and the version of
the weights. `eval_on_start` is chosen in `Init`. Losses, rewards and the data are left out.

### MultiTurn

`run_multi_turn` on each rank: `Gather` (is anybody left), `Turn` (the body of the loop for
all of the rank's trajectories, each of which stops or is given a next turn by `step`) and
`Rollout` (the common generation of a tensor-parallel group, from which a rank takes its
slice). `Run` is one turn of `MultiTurnScheduler.run` for one trajectory on the server; its
coroutines share nothing. `Finish` and `Step` are the two halves of the loop's body, the
same in both drivers but for the case in `HasOwnTurn`. A message is the sequence of its
tokens and a token is named by trajectory, turn and position, so that "the ids of another
turn" can be told; its log-probability has the token's name. A scheduler is what its `step`
returns (ids with their mask, ids alone or neither; log-probabilities of its own or not), the
edits it may make to a response and whether it may leave the message open; when it stops is its
free choice up to `max_turns`. `Edited` is what a step returns of a response: it may cut the end
off (`Cuts`), append text (`Additions`), or both in one step as `MathTipsScheduler` does; the
log-probabilities it returns, those of the tokens it keeps, are preferred to the response's, as in
`agent_loop.py:233-236`. `TrainedOn` is how `replace_assistant_response_with_ids` puts the ids
into the messages, `MaskAccepted` its assertion about their masks.

### WeightSync, WeightTransfer and RayGrpo

`WeightSync` is the promise: while a synchronisation is on every worker loads the weights in
their order, each once, and it ends when all have them. `WeightTransfer` is the machinery:

| Action | Code |
|---|---|
| `TrainerFill`, `TrainerFlush`, `TrainerLast` | `send_weights`: a weight goes to the bucket; the bucket is handed to a broadcast and the other one is filled; the last bucket |
| `Publish`, `Broadcast`, `Join` | `BroadcastOperation._run` in its thread: metadata over PUB/SUB, then the collective; a subscription that is established |
| `NextBucket` | the receiver awaits its broadcast, synchronises, swaps and starts the next |
| `Handshake`, `Process`, `Flush`, `TooLarge`, `Answered` | `BucketedWeightSender` |
| `DriverReceives`, `RankReceives`, `Clone`, `Taken`, `Barrier`, `Load` | `update_weights_from_ipc` on the driver worker and on the others |
| `TrainerLand`, `Land` | a copy queued on a device's stream lands by itself, at any time before `synchronize` |

A buffer is a function from bytes to words, and a word says of which weight and version it
is a byte, so a buffer written too early shows in what a worker clones. A tensor is the set
of the words it was cloned from. In colocated mode the sender draws from the trainer's own
iterator, and NCCL plays no part.

`RayGrpo` EXTENDS it with the driver: `SyncWeights`, `SendWeights`, `WeightsArrived`,
`Restore` and `SyncRaises` are the manager, `EnterGeneration`, `Generate`, `Collect` and
`GenerateRaises` the generation context around `_distribute_to_replicas`, `TrainStep`
and `NextBatch` the loop. `ray.get` on several calls raises at the first failure
(`TransferFailed`), whatever the others are doing. `plan` is the deployment: colocated or
not, sizes, tensor parallelism, tuner, `vllm_enable_lora`, what may fail.

### DataLoading

The samplers are pure operators (`ShardBatches`, `SequenceBatches`, `MegatronBatches`);
`Open`, `OpenStream`, `Draw`, `Scatter`, `EndPass` and `Stop` are the loader and the loop of one
process; `Train` is a collective that takes one batch of every process and may save; `Crash`
starts the job again from its last checkpoint. `Permutation` stands for `torch.randperm`: the
properties hold for whatever injection it is; the instance's differ from seed to seed. (`LoadInit`, `LoadNext`,
`LoadTypeOK` and the like are so named because one module proves theorems about packing and loading.)

### GrpoBatches

`Fetch` asks whether it is time to generate, `GenerateBatch` draws, repeats, replaces and generates
(`Loaded`, `Refill`, `Placed`), `Examine` and `FallBack` are `_dynamic_sampling`, `Score` computes
advantages by rows and splits the batch (`Row`, `Buffered`), `Train` uses a slice; `Save` and
`Crash` restart the transformers trainer. All ranks act together, for each of these steps
contains a collective; a batch is what `gather` returns. `DataIndex` says which ranks share data, `Member`
and `Place` in which order, `SlotsOf` which slots of the batch are theirs. (The names `BatchInit`,
`BatchNext`, `BatchTypeOK` and the like leave those of AsyncRollout free: one module proves theorems
about both halves of the trainer.) A reward is 0 or 1, since only its variance is looked at; an
advantage is represented by the row it was computed from.

## 3. What TLC checks

All runs that pass check a type invariant named `TypeOK` (`BatchTypeOK` in GrpoBatches, `LoadTypeOK` in
DataLoading) besides those below.

| Run (cfg) | Instance | Distinct states | Shows |
|---|---|---|---|
| `MCTransformersEngine` | 3 calls, one full and one streaming config, 1 adapter, batches of 2, 1 intermediate chunk, encode and model may fail, `strict` or not | 373 423 | `NoCallLost`, `AnsweredOnce`, `OwnConfig`, `BatchFits`, `LoneStreamNotCut`, `PerConfigFifo` (refinement), `CallsEnd` |
| `MCEvalBatch` | 3 calls, `batch_size` None or 2, errors anywhere | 481 720 | `OwedOnce` (a waiting call is in the queue or one batch, once, which can still deliver to it; a batch ends at the first request whose size it reaches, sizes mixed), `ThreadServes` (a failed `.start()` costs one thread; the thread the global names is started or about to be), `CallsReturn` |
| `MCIterablePacking` | up to 5 samples of every kind, interval 2, 2 encoders, 2 iterations | 86 559 | `RoundsKept` (queues quiescent at a yield, results in dataset order, what is held back is kept), `EachSampleOnce`, `GeneratorEnds` |
| `MCRolloutServer` | 2 workers, 2 tensors in one or two requests, 2 trainers in turn, 2 synchronisations, 2 inferences of 1 or 3 prompts, one kill, one raising method | 351 448 | `AnswersTheAsk` (an answered call has an output for each prompt it asked, in their order), `SyncedInference` (broadcasts pair up; inference on the weights synchronised last, with no older cache), `CallsEnd` |
| `MCAsyncRollout` | 4 steps, 2 evaluation batches, all combinations of the two intervals up to 3, an evaluation after any step, `eval_on_start` or not | 3 768 | `RoundsInStep` (one rollout per queue, one round behind, weights still while one runs, lag of training bounded), `TrainingEnds` |
| `MCMultiTurn` | 2 ranks with 2 requests and 1, up to 3 turns, 7 kinds of scheduler colocated and 2 on the server, with and without log-probabilities | 341 094 | `LockStep` (ranks leave together with their own responses), `TrainedAsSaid` (ids, masks and log-probabilities on their tokens), `RolloutEnds` |
| `MCRayGrpo` | 9 deployments: 2 replicas with 1 or 2 workers, up to 5 weights of 1 to 4 bytes, buckets of 3 and of 2 bytes, 3 training steps, 2 per generation | 97 856 | `DriverIntact`, `ModelsInPlace`, `OnPolicy`, `TransferIsSync` (refinement), `GrpoEnds` |
| `RayTp` | a deployment with two workers per replica | - | **violated** `TensorsIntact` |
| `MCDataLoading` | 13 jobs over the 4 loaders, 2 or 3 processes, up to 9 samples, up to 3 epochs, 2 crashes | 3 015 | `EpochTrainedOnce`, `TrainingCompletes` |
| `DataResume` | the jobs on `BatchSamplerShard` | - | **violated** `ResumedEpochOnce` |
| `MCGrpoBatches` | 14 jobs of both trainers on 2 to 4 ranks, 4 prompts of which two do not encode, groups of 2 or 4, up to 2 rounds of resampling, 1 crash | 38 031 | `GroupsWhole`, `BufferedBatch`, `SlicesInTurn` |
| `GrpoGroups` | the transformers trainer with `truncation_strategy delete` | - | **violated** `GroupsOfOnePrompt` |

Deadlock is not checked: every one of these systems may really stop (all calls answered,
training over, the consumer or the trainer gone, a thread dead), and "does not hang" is stated
by the liveness properties instead, which say exactly when a wait may be endless.

### The bounds and why they are enough

For the properties section 4 proves, the bounds only limit what TLC looks at.

* Engine: three calls are the fewest with which a batch of two leaves a remainder while
  another config waits, or a call arrives between a `Take` and the next `Drain`. One
  intermediate chunk shows every order of chunk, last chunk and stop; the second of two
  batches shows that nothing is left over from the first.
* EvalBatch: with three callers a thread can be overwritten while two others race to start its
  successor, and two batch threads can run, one of them holding two requests
  while the other takes one; sizes 0 and 2 mix the unlimited and the limited case, so that a
  batch of three may outgrow the size its first request asks for.
* Packing: five samples in rounds of two give two full rounds and a short one, four give the
  multiple of the interval, zero the empty dataset; two iterations allow a dropped generator.
* Rollout server: with two workers, one prompt leaves one of them with a placeholder and three
  cut unevenly; two trainers show what one leaves to the next; one kill and one fault are
  enough for every single failure. Combinations of more failures are covered by the proofs only.
* AsyncRollout: intervals up to three cover generating more often than, as often as and less
  often than updating; four steps allow evaluations next to each other and apart.
* MultiTurn: three turns are the fewest with a message that is continued and then followed
  by another, and the other way round; ranks with two requests and one reach every pair of
  remaining numbers, zero included. Two tokens per response let one be cut. The schedulers on
  the ranks are `MathTips` (ids, mask, own log-probabilities, cuts and adds); ids and mask with
  text added, or cut; ids alone with text added, cut, or both with own log-probabilities; and
  none of these, with a user message. On the server: ids with and without mask. All ranks form
  one tensor-parallel group, and `max_turns` is given: without it the program may go on for
  ever, as the scheduler says.
* RayGrpo: five weights of sizes 1, 1, 2, 2, 1 through buckets of three bytes and buffers of two
  make both senders flush in the middle, and a bucket of one end inside a bucket of the other;
  three buckets are the fewest with which a buffer is used again while the one between is
  being broadcast. Two replicas show that one does not wait for the other. Three steps
  with two per generation give two synchronisations, hence a stale cache, and end inside a
  generation batch. `TrainIters`, `Spg` and `Prompts` are arguments of the program.
* DataLoading: the sizes cover a total that fills its rounds, one that leaves a partial
  micro batch, and one that leaves a whole micro batch to some processes only; two crashes
  let a resumed job be resumed again.
* GrpoBatches: two ranks are the fewest a group can lie across, four the fewest with both
  data and pipeline (or tensor, or sequence) parallelism; of the four prompts the second and the third do
  not encode, so that each batch of two has one that is replaced, before or behind one that is kept, and a
  batch after a replacement that failed needs one as well.
* `MaxSamples`, `MaxIters`, `MaxChunks`, `MaxVersion`, `MaxAsks`, `MaxSessions`, `MaxKills`,
  `MaxFaults`, `MaxSteps`, `EvalBatches` and `MaxCrashes` bound counters that the program does not bound
  (`MaxSteps` and `EvalBatches` are also arguments of the program). No symmetry is used,
  because liveness is checked in the same runs.

### Fairness

* Engine: weak fairness of the worker's own steps and of a coroutine whose await is over:
  the operating system schedules the daemon thread, asyncio resumes ready coroutines.
  Making a call and failing are never owed.
* EvalBatch: weak fairness of every thread, `Raise` excepted. The 2 s timeout is a step of
  the batch thread; it is disabled while an item is there, and is taken in the end.
* Packing: every process is scheduled and the consumer keeps asking for packs; it need not
  start another iteration.
* RolloutServer: server, workers and the trainer's pending call are scheduled. What the
  trainer asks for next, exits, kills and faults are not owed.
* AsyncRollout: both threads run and the rollout server answers.
* MultiTurn: weak fairness of the next step as a whole: processes run, collectives that all
  ranks have reached complete, the engine answers. That trajectories stop is not assumed;
  `max_turns` makes them.
* RayGrpo: the driver, the trainer with its broadcast, the processes of each replica and each
  replica's generation are scheduled; stream copies land as a part of these. Failures
  and late subscriptions (beyond `Join` as a step of the replica) are not owed.
* DataLoading: every process and the collectives go on; crashes are not owed.
* GrpoBatches has no liveness property and no fairness.

## 4. What TLAPS proves

Every theorem holds for every value of the constants that the modules' named assumptions
allow: any number of calls, threads, workers, replicas, weights and steps. The assumptions
say what the constants are (`EngineAssumption`, `EvalAssumption`, `PackingAssumption`,
`AsyncAssumption`, `JobAssumption`, `DataAssumption`, `RolloutAssumption`, `MultiTurnAssumption`,
`TransferAssumption`, `GrpoAssumption`): sizes and intervals are positive, counters are numbers, batches divide as the code's own
checks demand, every process gets a batch in an epoch (or there is no step to train, and Megatron's sampler divides
by zero), a permutation is one, a plan moves every parameter and has no empty
request (`_load_state_dict_to_vllm` sends all parameters), and `Nobody`, `Empty` and `Nothing` are no
data. TLC evaluates them in the runs.

Each module proves the same three facts: `Init => IInv`, `IInv /\ [Next]_vars => IInv'` with a
lemma for each action, and `IInv => ` the property. None of the properties is inductive by
itself; what follows is what had to be added to it, and why.

### `TransformersEngineProofs`

| Theorem | States | Argument |
|---|---|---|
| `TypeCorrect` | `Spec => []TypeOK` | `TypeOK` is inductive; it includes that the worker has kwargs exactly while it runs a batch |
| `AnswersKeepConfig` | `[]OwnConfig` | an item is right because the batch was. `ConfigInv` adds that every pool entry's list and every batch member has the config of the entry's, or the worker's, kwargs, and that the items already posted are right |
| `BatchesFit` | `[]BatchFits` | inductive with `TypeOK`: `AddTask` never makes a second entry for a key, `Remaining` never leaves an empty one, `BatchLen` is within the limit |
| `NoneLost` | `[]NoCallLost` | `Drain` and `Take` move calls and lose none (`DrainMoves`, `TakeMoves`); a batch ends only in a step that posts to all its members. `NoBatch` adds that a worker that fetches holds none |
| `NoneTwice` | `[]AnsweredOnce` | `OnceInv`: a call is in at most one of queue, pool and batch, there at most once (`Apart`, `DistinctSplit`, ...), calls not made are nowhere, a full call that has been sent something is nowhere, and the worker streams only streaming batches |
| `LoneStreams` | `[]LoneStreamNotCut` | `Unsent`: nothing was posted to a call before its batch runs, so a stream starts with an empty reply queue and a waiting reader. Then a step of the generator that is yielded has text for the only member of a batch of one (`ChunkLone`), and what its reader takes off the queue leaves it waiting (`ReceiveLone`, which needs that a streamed batch has streaming calls only, `StreamWorker` and `BatchOwn`) |
| `ImplementsBatchQueue` | `PerConfigFifo` | the refinement, one lemma per abstract action (below) |

Every step of the engine is a step of `BatchQueue` or leaves its variables alone (`StepMaps`).
`Call` is `Submit`: the call is new to the engine (`IdleUnknown`, from `Fresh`) and joins the end of its
config's line (`CallJoinsLine`). `Drain` takes a call off the front of the queue and puts it at the
end of its config's list, or in a new entry, which no line sees (`DrainKeepsLines`). `Take` is
`Serve` of the first entry's config: as keys are unique (`BatchFits`), that entry is the front of the line,
the batch a prefix of it and the rest the line that remains, also if the entry is gone
(`TakeCutsLine`). The end of a batch is `Finish`, since the batch was not empty (`SomeBatch`) and its
members are nowhere else (`Apart`). All other steps stutter. That the calls of one config
in a queue keep their order under `Append` and `Tail` (`OfConfigAppend`, `OfConfigFirst`) rests on
`FlattenAppend` and `FlattenFirst`.

### `EvalBatchProofs`

| Theorem | States |
|---|---|
| `TypesHold` | `[]TypeOK` |
| `RequestsOwedOnce` | `[]OwedOnce`: whatever threads the race makes, overwrites and starts |
| `FailedStartsCostOneThread` | `[]ThreadServes` |

A call is queued once, so `IInv` can say where each one is: waiting in the queue without an
answer (`QueuedWaits`), in one batch at one place (`BatchedOnce`, `BatchedLeft`), or not asked yet
(`Unasked`). A thread's position separates the answered members of its batch from the others
(`AnsweredBelow`); while an exception is handled there may be answers on its right, where the
thread ends instead of resolving a future twice. `RoomLeft` says that a batch that is still collected has
not reached the size of any of its requests. `ThreadServes` is inductive with `Positions`: a thread is
constructed by a call that is then to start one, and a start takes one from each count or,
when it fails, leaves both (the calls are finitely many, so that they can be counted).

### `DataPipelineProofs`: packing

| Theorem | States |
|---|---|
| `TypesHold` | `[]TypeOK` |
| `RoundsAreKept` | `[]RoundsKept` |
| `SamplesYieldedOnce` | `[]EachSampleOnce` |

The generator knows a round by its size alone. `IInv` counts: the numbers on their way
(`Outstanding`: in the input queue, with an encoder, in the output queue) are in one place each
(`OnePlaceEach`), and with those taken there are no more than were put (`Counted`). A result that
is missing for a good sample is on its way (`ResultsNumbered`), so when as many were taken as
were put nothing is on its way and the round is whole (`RoundComplete`), and nothing of it is left for
the generator that comes after one that was dropped (`Quiescent`). `SamplesKept` says where
every sample read so far is: in a pack yielded, or held back.

### `DataPipelineProofs`: loading

| Theorem | States |
|---|---|
| `LoadTypesHold` | `[]LoadTypeOK` |
| `EpochsTrainedOnce` | `[]EpochTrainedOnce` |

No process knows what another one draws, nor what was trained before a crash: each works out its share of an
epoch from its rank, a seed and the steps of the checkpoint. The proof has three layers.

* *What a share is.* `Share(k, e)` is the list of batches of process `k` in epoch `e`, stated for a whole
  epoch and without counters. `BatchesAre`, `StreamShare` and `MegatronShare` show that each sampler yields it, the last one from
  any number of consumed samples on: a strided slice of a suffix is a suffix of the strided slice
  (`StridedFrom`), and so are batches of it if whole batches were left out (`BatchedFrom`). This is what makes
  a resumed process go on where the checkpoint was.
* *Where a process is.* `RunInv` has the types and the schedule (`Going`): a process that goes on has steps to
  take, skips less than an epoch, and under Megatron has consumed what all processes have drawn.
  `PlaceInv` then says that what a process has left (`InShare`), holds (`Current`) and has trained on
  (`Past`) are the batches of its share at the place that the steps trained bring it to, and that a stream's
  processes are in one pass (`Rounds`). It says so only while the job is not `Uneven`, and of epochs that are
  not `Reshuffled`: there it is false, as `EpochTrainedOnce` is.
* *That shares are dealt once.* Sample `t` of batch `c` of process `k` has a place in the order of its epoch
  (`Slot`, `SlotIs`); different samples of a pass have different places (`SlotUnique`), and different places
  up to `total` hold different samples (`ItemUnique`, from the injectivity of the permutation). With
  `FewRepeated`, which counts elements of a list that repeats only a few, this is `OnceIn`. An
  epoch that is over took all places but less than a round of them (`SlotsTaken`). `TrainedIn` is flattened
  twice, over the steps and over the processes; `FlattenHas` finds a sample of it by both.

The assumption was too weak at first: a dataset with fewer samples than processes makes an epoch without a step,
and `StartedAt` would divide by it. `DataAssumption` now says that each process gets a batch.

### `GrpoTrainerProofs`: asynchronous generation

| Theorem | States |
|---|---|
| `Invariance` | the inductive invariant below |
| `TypesHold` | `[]TypeOK` |
| `RoundsStayInStep` | `[]RoundsInStep` |

`Phases` says for each place in the trainer's loop how many rollouts each mode is owed, which
rounds they are of, and that the executor works for one mode only (`Owes`, `Has`): a rollout that
has arrived therefore shows an idle executor, and the weights may move. An evaluation leaves
one rollout behind (`LeftBehind`), as does the training that it interrupts. The lag of at most
one step counts passes since the last submission (`Passes`, `LeastVersion`) in `Fresh`, which needs
a little arithmetic on remainders (`NextRemainder`, `RemainderUnique`).

### `GrpoTrainerProofs`: generation batches

| Theorem | States |
|---|---|
| `StaysInStep` | `[]InStep`, the inductive invariant of the counters |
| `SlicesTakeTurns` | `SlicesInTurn`, an action property |
| `StaysWhole` | `[](InStep /\ Contents)`, the inductive invariant of the batches |
| `GroupsStayWhole` | `[]GroupsWhole` |
| `BufferHoldsBatch` | `[]BufferedBatch` |
| `BatchTypesHold` | `[]BatchTypeOK` |

Three counters have to agree: `_step`, which a resumed trainer starts at 0 again, the position of the
dataloader, and how often each slice was used. `Turns` ties them together by `Passed`, the steps since the buffer was
filled: the buffer is of the sampler's batch at that many steps ago, and slice *s* was used `Used(s, Passed)`
times. A generation begins after `GenerationSteps` of them, when every slice has been used `num_iterations` times and the
sampler, which repeats a batch as often (`Schedule`), has moved on by one batch (`TurnComplete`). A trainer resumed
in the middle of a generation is out of phase with the sampler from then on, always by the same number of steps,
which is why the invariant speaks of `taken - Passed` and not of multiples of `GenerationSteps`.

`Contents` says for each phase what the batches are made of: groups of `num_generations` that were
generated together (`Proper`), for one prompt (`Grouped`, but for the jobs in `Mixed`), no sample twice
(`Once`), with variance (`Clean`). `Generated`, `Collected` and `Settled` put these together for the batch just
generated, for what earlier rounds left, and for the batch that is scored. Each operation keeps them:

* Replacing and repeating (`LoadedIs`): a refilled part has its size and only prompts that encode (`Refilled`,
  from `SelectionPicks`: what a selection picks, and where from); a repeated list has equal prompts in each
  block of `num_generations` (`RepeatedIs`).
* Placing under Megatron (`SourceIs`, `SourceBlocks`): the samples of a data index lie in the gather in stretches of
  `tp * per`, one for each pipeline stage. Slots of one block come from one block if the stretches
  are made of whole blocks, or if there is only one stage or one data index; this is the condition in
  `GroupsWhole`.
* Filtering, joining and cutting (`VariedRows`, `RowsKept`, `Joined`, `FirstGroups`): the rows kept are rows of
  the batch, each at most once, so rows of different rounds stay apart and the first `BatchSize` samples are
  whole rows.
* Splitting: each slot belongs to one place of one data index (`MemberIs`, `PlaceIs`, by digits in base
  `tp` and `dp`), and the slices of a data index are its samples again (`CutFlattens`); the buffer's entries are
  therefore the batch's slots, each once, with its own row (`EntriesAre`).

The proofs changed the model in two places. `JobAssumption` now says that under Megatron the samples of
a data index are a multiple of `steps_per_generation`, which `_replace_data_iterator` asserts
(`megatron/trainers/grpo_trainer.py:286`) and without which the slices would not be equal. And `GroupsWhole`
was false in one place the instances did not reach: when no replacement is found in time
(`EncodeRaises`), the buffer still holds the previous, refilled batch, while `refilled` is already about the next. That
phase ends training and is left out of the property; the instances now have two prompts that do not encode, which is what
it takes.

### `CommonLemmas`

Quotients and remainders come first: the provers multiply and divide by numbers they know, not by a constant, so that a
quotient is unique (`RemainderUnique`), grows with its dividend (`QuotientGrows`) and the like are lemmas.

`FlattenSeq` of the community modules is a recursive function; what it does for every sequence of
sequences takes an induction on its length. The induction theorems of the library take an operator
as a parameter and cannot be instantiated here; `InductionOnNat` states induction for a
*set* of numbers instead, and follows from the well-foundedness of `<`. From it come the type
and the elements of a flattened sequence, what appending or removing one sequence does to it
(for the engine's lines), where its elements are (`FlattenHas`, for data loading), and that the parts a list was cut into are the list again (for the
rollout server's chunks and the shards of a batch under Ray).

### `RolloutServerProofs`

| Theorem | States |
|---|---|
| `Invariance` | the inductive invariant below |
| `TypesHold` | `[]TypeOK` |
| `AnswersBelong` | `[]AnswersTheAsk` |
| `InferencesSynced` | `[]SyncedInference` |

An update is acknowledged when it is in the pipes, so the workers may be behind the trainer by
a load, an update, and the joining of a group. `IInv` is made of:

* `AskInv`, `PlaceInv`: the trainer's one request is last in the queue of requests, or is being
  handled, or has been answered, and fits what the trainer is doing; whatever else is left is
  of trainers that have gone. `StartInv`: nothing is asked of a server that is not up.
* `ReplyInv`: while a call is handled, each worker has it as the only call in its pipe, or has
  put one reply that matches it, or is dead; when none is handled no reply is left over.
* `QuietInv`, `PhaseInv`: how far each worker is in an update that is not sent, sent, or
  being broadcast (`Unsent`, `Queued`, `Receiving`, `Done`). Hence the tensors of a collective match
  on all sides (`TensorsMatch`, a part of `SyncedInference`).
* `CloseInv`, `DoomInv`: a trainer that was killed, or left after a worker died, may leave updates in the
  pipes. Then some worker is dead or holds a communicator that no one will close (`Doomed`), and no
  group ever forms again; otherwise everything left has been worked off (`Clean`). This is
  what keeps the next trainer's broadcasts from reaching a worker that still waits for those of the last.
* `SyncInv`, `InferInv`: as long as nothing raised, every tensor of an update that is through is loaded or
  about to be loaded before anything else is taken from the pipe (`Past`, `Loaded`); once all
  workers have answered the reset all parameters are new and the caches are empty (`Fresh`), and
  outputs that are on their way come from such workers (`Good`).
* `AnswerInv`: what has been put together, on its way or with the trainer, has an output for each
  prompt asked, in their order.

The last needs that the chunks of `chunk_list`, one per worker, are the list again when
they are flattened, for any list and any number of workers (`FlattenParts`, `FlattenMembers`).

### `MultiTurnProofs`

| Theorem | States |
|---|---|
| `Invariance` | the inductive invariant below |
| `TypesHold` | `[]TypeOK` |
| `RanksInLockStep` | `[]LockStep` |
| `TokensTrainedAsSaid` | `[]TrainedAsSaid`, if `Supported` |

The ranks tell each other only whether anybody has work left; each finds its responses by counting. `IInv`
says that they are in the same part of the loop (`Together`), that what a rank has left is its own, in one
turn and exactly what has no output (`OwnIndices`, `SameTurn`, `Unfinished`), and that the responses it goes
on with name those trajectories in their order (`Answered`) and were generated for them (`OwnOutputs`,
`OwnSaid`). `SameTurn` is needed because `step`'s choice depends on the turn: without it a move for one
trajectory of a rank need not be one for another. The common generation is a flattened sequence of sequences; that
the r-th is found behind the lengths of those before it is `FlattenSlice`, from `FlattenConcat`.

`DataInv` is about one trajectory. Until it ends its ids are its messages (or there are none and no message
is open), and its mask has their shape and masks what `step` added (`MaskFits`), or is empty if `step` returns none.
The log-probabilities are those of the tokens trained on, or there are *more* or *fewer* of them for good (`LogsFit`):
a step that cuts a response and leaves its log-probabilities makes them too many, a step that adds text without
a mask makes the tokens too many, and no later turn makes up for either (`LogsFitMore`). This is why
comparing numbers is enough to find log-probabilities that do not fit. `CollectedFits` has a case for each
branch of the last turn, `StepFits` one for `step`'s; both rest on how `Join` acts on the flattened
sequence (`JoinType`, `JoinMask`, `JoinLogs`) and on the sum of a mask (`CountOnes`). `Opened` and `Current` tie
the last message to the turn: a turn that continues nothing opens a message of its own, which is the condition in
`AsSaid`.

Two things a scheduler with ids and without a mask may do are in the statement, because the code does not do
better. The own last turn of `run_multi_turn` puts its mask first in an empty list (`agent_loop.py:172-173`): one entry
for as many ids as there are turns, which fails the length assertion (`rlhf_trainers/utils.py:789`). `AsSaid` says so as an
equivalence: `MaskAccepted` is false exactly then. And where steps may both cut and add without a mask or
log-probabilities of their own (`Cancelling`), the two errors above may be as large as each other and the numbers agree
by accident; `LogprobsAligned` is claimed of all other schedulers.

`Supported` asks that a scheduler that leaves a message open for the next response returns ids: without them, the ids
of the last response alone would replace the message that was continued.

`SelectSeq` has no definition that the provers can use (it is recursive inside), so `Selected` states it as a flattening.

### `RayGrpoProofs`

| Theorem | States |
|---|---|
| `Invariance` | the inductive invariant below |
| `ModelsStayInPlace` | `[]ModelsInPlace` |
| `BatchesOnPolicy` | `[]OnPolicy` |
| `DriversTakeWhole` | `[]DriverIntact` |
| `TypesHold` | `[]TypeOK`, of the driver and of the transfer |
| `TransferImplements` | `TransferIsSync`: every step of the driver and the transfer is a step of `WeightSync` or leaves it alone |

Weights are numbered in the trainer's order, so what lies at a station (the trainer's bucket, the
broadcast, a subscriber's metadata, a server's views and bucket, a message, what a worker
copies) is a run of consecutive numbers. `TransferInv` says that each run begins where the
station behind it ends (`Sending`, `Feed`, `Drawing`, `Talk`, `Group`), which stations are empty at which
point of the conversation between a server and its driver worker, and, for a transfer that ends, that
the last bucket reached the last weight; a worker that has ended has therefore loaded 1..n in
order. The first part of the module has its preservation by each step of the transfer; the second adds what
the driver knows (`Driven`, `Awake`), so that the refinement's `Finish` is enabled only when
all workers have everything.

`BytesInv` is what `DriverIntact` and the types of the buffers need, beside `TransferInv`, which says who
is at which point of the conversation. `Copying` relates the metadata of a bucket to what is in its
buffer: each entry is there, or its copy is still queued on the stream. Entries are laid without overlap and
within the buffer (`Laid`), so a copy that lands completes its own entry and damages no other, and after
`synchronize` all are there (`CopiesLand`, from `Landed`, the content of a buffer after copies in order).
On the way:

* `SendBytes`: the bucket a broadcast reads is not the one that is filled, and it is whole.
* `Viewed`: the bucket a server draws from is whole, and so is the one received meanwhile into the other; a
  copy that is queued reads from the first, so neither the broadcast nor the swap, which is after a
  `synchronize`, changes its source.
* `Shared`: the server queues copies to the shared buffer only while it draws; once a bucket has been
  announced nothing is queued, until it is answered.
* `DriverBytes`: the driver worker copies the bucket of the server's metadata, and what it took is clean.

For the other workers only types are claimed (`Copies`): the driver's answer may come before they have
copied, which is the finding of run RayTp.

`ModelsInPlace` has to leave out a driver with `TrainIters` = 0, which ends without putting
anything to sleep; the proof found this, as every run has steps to do.

`SampleInv` is what `OnPolicy` needs: the types of the driver's data (`GrpoTypes`), that a transfer carries
the trainer's policy and replicas that may sample hold it, colocated ones with no cached block of
another (`Sampling`), and that each replica has sampled nothing or its shard from that policy (`Sampled`).
That the shards of `_distribute_to_replicas`, a slice of `ceil(prompts / replicas)` for each replica, are together the
batch, the last ones perhaps short or empty, is arithmetic (`ChunksCover`, `ShardsFollow`, `ShardsCover`);
`FlattenParts` then puts the completions back in the order of the prompts. It is assumed that there is a replica:
`create_replicas` makes at least one for a rollout group (`ray/megatron/rollout/replica.py:116-122`).

### What is only model-checked, and why

* All liveness properties (`CallsEnd`, `CallsReturn`, `GeneratorEnds`, `TrainingEnds`, `RolloutEnds`, `GrpoEnds`,
  `TrainingCompletes`): they need fairness and ENABLED, which these provers do not reason about.
* `TrainedAsSaid` of schedulers that are not `Supported`, and the log-probabilities of those that are
  `Cancelling`, are neither checked nor proved: they do not hold.

## 5. Mutations

For each property of a passing run `PROJECT.json` names a mutation of the code that breaks
it, among them: a pool keyed by the first entry, a slice one too long, an entry popped with
its remainder, a queue re-created with the thread, a `.start()`
that an overtaken caller skips, results kept in order of arrival, one
result of a round not awaited, a held-back pack overwritten, placeholders' answers kept, a
communicator not closed, a cache not reset, weights moved without the wait, the queue looked
up when the callback runs, a rank that leaves when it has nothing left itself, a slice from
the start of the common responses, a last turn not collected, a bucket filled again while it is
broadcast, metadata not cleared with its bucket, adapters left merged by a failure, a cache kept
after a synchronisation, a resumed loader that does not skip, copies of a prompt replaced after
they were repeated, the last round of resampling used for the fallback. TLC finds each property violated in the mutated module.

## 6. Findings

Three places where the code does something else than a doc or comment says; each has a
run whose counterexample shows it.

1. **A shared buffer is reused too early** (`pipelines/infer/rollout.py:505`, run `ray_tp`). The
   driver worker answers a bucket before the barrier with the other tensor-parallel workers;
   the sender may fill the buffer while they still copy. The driver's own tensors are always
   whole (`DriverIntact`); exchanging the answer and the barrier would make it so for all.
2. **A resumed epoch is another one** (`trainers/mixin.py:1164`, run `data_resume`). The loader
   made to skip the batches that were trained on has the first epoch's permutation. Resumed
   in the first epoch, or without shuffling, training does go on where it was
   (`EpochTrainedOnce`).
3. **Groups of several prompts** (`rlhf_trainers/grpo_trainer.py:236`, run `grpo_groups`). Prompts
   that do not encode are replaced after they were repeated. The Megatron trainer replaces
   them before (`GroupsWhole`).

### Where a property stops

The properties of the passing runs have conditions; each says where the code's word ends.

* `OwnConfig` is about the request config. The pool is keyed by it alone, so a call is run with
  the LoRA adapter of the first call of its config (`transformers_engine.py:139`).
* `LoneStreamNotCut`: a stream in a batch with others ends at the first step that has no text
  for it, since `None` means both (`transformers_engine.py:175`, `492`).
* `CallsReturn`: an error after part of a batch was delivered ends the batch thread in
  `set_exception` (`eval/utils.py:211`), and the callers left wait for ever; so do later ones when no
  other batch thread is there. A call whose `.start()` raised (`eval/utils.py:130`) counts as ended.
* `GeneratorEnds`, unless an encoder process has ended: with `strict` a malformed row ends it
  and the training process waits for its result (`packing.py:153`).
* `RoundsInStep` and `TrainingEnds` without `eval_on_start`: with `async_generate` that
  evaluation takes the training queue's rollout, sets `eval_flag`, and the first training step
  waits for an item of `eval_queue` that nobody asked for (`grpo_trainer.py:1938`).
* `TrainedAsSaid` for the colocated driver and, on the server, unless the last turn opens a
  message of its own after turns with ids: it is not collected (`rollout/multi_turn.py:312`), and
  the earlier ids then replace the wrong messages.
* Also of `TrainedAsSaid`: a scheduler that returns ids without a mask, which `step`'s documentation allows
  (`rollout/multi_turn.py:404-407`), fails the trainer's assertion when the last turn opens a message
  (`agent_loop.py:172-173`, `rlhf_trainers/utils.py:789-793`). And if its steps cut responses and add text
  without returning log-probabilities, the check by number (`agent_loop.py:182-194`) may pass with
  log-probabilities that belong to other tokens.
* `OnPolicy`: separate replicas keep their prefix cache over a synchronisation (only a training
  worker with a colocated adapter resets it, `megatron_worker.py:459`); with
  `vllm_enable_lora` no request names the adapter that was sent (`ray_vllm_engine.py:157-170`),
  so replicas sample from the base weights.
* `ModelsInPlace`: a transfer over NCCL that fails leaves the adapters merged (the other path
  has a `finally`); training then ends.
* `GrpoEnds`: a replica that cannot take a weight leaves the trainer in a broadcast nobody joins;
  a subscription later than the 0.1 s after the barrier loses the first bucket's metadata.
* `EpochTrainedOnce`: not for a Megatron sampler without data sharding whose last, incomplete
  round gives the first processes a whole micro batch (`Uneven`; `batch_sampler.py:136-146`).
  They draw it while the others begin the next epoch, and stay an epoch behind.
* `TrainingCompletes`: not for a stream resumed after its first pass (`Beyond`): there are fewer
  rounds to skip than asked for, which ends training early or with an error
  (`dispatcher.py:38`).
* `GroupsWhole`: under Megatron with pipeline and data parallelism the copies of a prompt lie on
  ranks that are not next to each other in the gather; unless tensor ranks times samples per
  rank are a multiple of `num_generations`, rows mix prompts. `validate_batch_dp_alignment` does
  not ask for it.
* `BufferedBatch`: the batch resampled last is generated and never examined, so that
  `max_resample_times` rounds of generation give one examination fewer.
* `SlicesInTurn`: after a resumption in the middle of a generation the chunk is generated for
  again with a new step counter, and the last one of the sampler is cut short; within one life
  of the trainer the property has no exception.

## 7. Abstractions a reader should know

* `NoCallLost` counts an item posted as an answer even if it is a `None` that ends a stream early.
* The engine's adapters pool, its synchronous `infer`, `_infer_forward` and its use from two
  event loops (two threads racing on `_task_thread is None`) are not modelled.
* `SyncedInference` is stated for histories in which no worker's method raised: a failed load
  is logged by its worker, and the trainer is told that all went well.
* RolloutServer has one server per client; `get_model_state_keys` and the two other cache
  resets are left out (the resets have the shape of `reset_prefix_cache`).
* AsyncRollout does not tell batches of data apart, so it does not show that an evaluation
  generates twice for its first batch. A rollout that
  fails is not modelled: it would leave its queue empty and the trainer waiting.
  `TrainingLag` is about training; an evaluation starts with the rollout that the evaluation
  before it left behind, sampled from a model that many updates older.
* MultiTurn's schedulers keep their side: the ids `step` returns are those of the text it
  leaves in the message, a mask comes with ids only (both drivers assert it), every step returns the same kinds of
  data, and log-probabilities of its own are those of the tokens it keeps. Hooks, `rollout_infos`,
  environments and multi-modal data are left out, and so is `ThinkingModelTipsScheduler`,
  which overrides `run`.

* WeightTransfer leaves out the sockets' timeouts (600 s and `timeout_ms`), shared memory instead
  of CUDA IPC (the same protocol), the reuse of an IPC mapping, and names: a weight is its
  position. A stream's copies land in order; streams of different processes are independent.
* RayGrpo has one trainer process that sends (the other training ranks only take part in the
  export), no crash of an actor (Ray would fail the call, which is `TransferFailed` or
  `GenerateRaises`), and no reference model, scoring or GKD driver.
* DataLoading has gradient accumulation 1, no `group_by_length`, and no worker prefetching (which
  does not change the order). Megatron's streaming loader is left out: it does not skip
  anything on resumption (`megatron/trainers/utils.py:334`).
* GrpoBatches lets the resampling loaders give any prompts; in the code their sampler repeats
  prompts as that of the training loader does. Multi-turn batches
  whose size is dynamic are grouped by ids and left out.

## 8. Plan

Done, in this order: BatchQueue + TransformersEngine, EvalBatch, IterablePacking,
RolloutServer, AsyncRollout, MultiTurn, WeightSync + WeightTransfer +
RayGrpo, DataLoading, GrpoBatches.

Next, most important first:

1. **IndexedDataset** (`indexed_dataset.py`): shard arithmetic and bisect against an array;
   `chunk_list` and `_add_error_list` as pure operators against their reference definitions.
2. **Colocated rollout** of the transformers trainers: sleep, wake and load around generation.
3. A two-event-loop variant of the engine, and identity of the data in AsyncRollout.
4. MultiTurn with environments (`on_trajectory_start` and `on_turn_end` have state there); its
   dynamic batches in GrpoBatches.

Proved: every safety property that a passing run states, invariants and action properties, of every module, and
both refinements. What TLC alone checks is liveness (section 4).
