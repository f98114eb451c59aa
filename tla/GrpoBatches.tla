----------------------------- MODULE GrpoBatches -----------------------------
(***************************************************************************)
(* How a GRPO trainer turns a generation batch into training batches: the  *)
(* prompts drawn and repeated num_generations times, the ones that do not  *)
(* encode replaced, the completions scored, the groups without variance    *)
(* sampled again (DAPO), the advantages computed per group, the batch cut  *)
(* into the slices the following steps train on.  Two trainers:            *)
(*   GRPOTrainer on transformers and TRL, with or without sequence         *)
(*   parallelism, which may crash and resume;                              *)
(*   MegatronGRPOTrainer, whose ranks of one data-parallel index share     *)
(*   their prompts.                                                        *)
(* Every step is a collective of all ranks, so the state is global: a      *)
(* batch is the sequence gather() returns, rank after rank, `per` samples  *)
(* of each.  A slot is a position of it.                                   *)
(***************************************************************************)
EXTENDS Integers, Sequences, FiniteSets, SequencesExt

CONSTANTS
  Prompts,     \* the size of the data set
  Long,        \* the prompts that do not encode under truncation_strategy delete
  Jobs,        \* megatron, tp (with cp), dp, pp, sp, per, g, spg, iters, gas, delete,
               \* dynamic, retries, total: the parallelism, the samples a rank generates,
               \* num_generations, steps_per_generation, num_iterations, gradient
               \* accumulation, the two options, max_resample_times, the steps
  MaxCrashes

World(j) == IF j.megatron THEN j.tp * j.dp * j.pp ELSE j.dp
BatchSize(j) == World(j) * j.per
PromptCount(j) == BatchSize(j) \div j.g

\* _init_generation_batch_params and validate_batch_dp_alignment
ASSUME JobAssumption ==
  /\ Prompts \in Nat \ {0} /\ Long \subseteq 0..(Prompts - 1) /\ MaxCrashes \in Nat
  /\ Long # 0..(Prompts - 1)
  /\ \A j \in Jobs :
       /\ {j.tp, j.dp, j.pp, j.sp, j.per, j.g, j.spg, j.iters, j.gas, j.total} \subseteq Nat \ {0}
       /\ {j.megatron, j.delete, j.dynamic} \subseteq BOOLEAN /\ j.retries \in Nat
       /\ BatchSize(j) % j.g = 0 /\ BatchSize(j) % j.spg = 0
       /\ Prompts % PromptCount(j) = 0
       /\ IF j.megatron
          THEN /\ j.sp = 1 /\ j.iters = 1 /\ PromptCount(j) % j.dp = 0
               /\ (j.tp * j.pp * j.per) % j.spg = 0   \* asserted by _replace_data_iterator
          ELSE j.tp = 1 /\ j.pp = 1 /\ j.dp % j.sp = 0 /\ j.per % j.spg = 0

VARIABLES
  job, phase,
  taken,      \* steps taken: the position of the dataloader
  counter,    \* _step
  saved,      \* the position of the last checkpoint
  crashes,
  chunk,      \* which generation batch of the sampler was generated for last
  drawn,      \* the prompts to generate for
  batch,      \* the generation batch
  origin,     \* origin_data of _dynamic_sampling
  valid,      \* valid_samples
  retries,    \* resample_count
  buffered,   \* _buffered_inputs, per data index: slices of samples with the group each
              \* one's advantage is computed from
  uses,       \* how often each slice was trained on
  refilled    \* a prompt of this batch was replaced because it did not encode

batchVars == <<job, phase, taken, counter, saved, crashes, chunk, drawn, batch, origin,
               valid, retries, buffered, uses, refilled>>

-----------------------------------------------------------------------------
(* Which ranks share data.                                                 *)

\* SelectSeq, as a flattening.
Selected(s, Test(_)) == FlattenSeq([i \in 1..Len(s) |-> IF Test(s[i]) THEN <<s[i]>> ELSE <<>>])

Parts(s, size) == [x \in 1..(Len(s) \div size) |-> SubSeq(s, (x - 1) * size + 1, x * size)]
Groups == IF job.megatron THEN job.dp ELSE job.dp \div job.sp
\* Rank order tp, cp, ep, dp, pp; a sequence-parallel group is sp ranks in a row.
DataIndex(r) == IF job.megatron THEN (r \div job.tp) % job.dp ELSE r \div job.sp
\* create_rollout_group, sequence_parallel.sp_group: the ranks of a data index in
\* ascending order, and the place of a rank among those of its own.
Member(x, q) ==
  IF job.megatron THEN (q \div job.tp) * (job.tp * job.dp) + x * job.tp + (q % job.tp)
  ELSE x * job.sp + q
Place(r) ==
  IF job.megatron THEN (r \div (job.tp * job.dp)) * job.tp + (r % job.tp) ELSE r % job.sp
Share == BatchSize(job) \div Groups

\* The samples of data index x are consecutive in s; its k-th rank takes the
\* k-th part of them (get_local_rollout_batch).
Placed(s) ==
  [i \in 1..Len(s) |->
     LET r == (i - 1) \div job.per IN
     s[DataIndex(r) * Share + Place(r) * job.per + ((i - 1) % job.per) + 1]]
\* gather_object(group = rollout_group), all_gather_object(group = sp_group): the slots
\* of data index x.
SlotsOf(x) ==
  [k \in 1..Share |-> Member(x, (k - 1) \div job.per) * job.per + ((k - 1) % job.per) + 1]

-----------------------------------------------------------------------------
(* Drawing, encoding, generating.                                          *)

\* _get_train_sampler: every generation batch is drawn that often.
RepeatCount == IF job.megatron THEN job.spg ELSE job.iters * job.spg * job.sp
\* The batch the dataloader yields after so many steps.
Chunk(steps) == steps \div RepeatCount
PromptsOf(c) == [i \in 1..PromptCount(job) |-> (c * PromptCount(job) + i - 1) % Prompts]
\* The slices of a generation: num_rollout_samples
Slices == job.spg * job.sp
\* Mutant of GenerationSteps: sequence parallelism does not count.
GenerationStepsPlain == job.spg * job.iters
GenerationSteps == Slices * job.iters

Encodes(p) == job.delete => p \notin Long
AllEncode(ps) == \A i \in 1..Len(ps) : Encodes(ps[i])
Repeated(ps) == [i \in 1..(Len(ps) * job.g) |-> ps[(i - 1) \div job.g + 1]]

\* resample_encode_failed_inputs on each part by itself: those that encode, in their
\* order, then fresh ones.
Refill(ps, size, fresh) ==
  FlattenSeq([x \in 1..(Len(ps) \div size) |->
    LET kept == Selected(Parts(ps, size)[x], Encodes) IN
    [i \in 1..size |-> IF i <= Len(kept) THEN kept[i] ELSE Parts(fresh, size)[x][i]]])

\* The prompt of each slot.  GRPOTrainer replaces samples on each rank, after the
\* sampler repeated the prompts; MegatronGRPOTrainer prompts, before it repeats them.
\* Mutant of Loaded: both replace samples.
LoadedLate(ps, fresh) ==
  Refill(Placed(Repeated(ps)), job.per,
         [i \in 1..BatchSize(job) |-> fresh[((i - 1) % Len(fresh)) + 1]])
Loaded(ps, fresh) ==
  IF job.megatron
  THEN Placed(Repeated(Refill(ps, Len(ps) \div job.dp, fresh)))
  ELSE Refill(Repeated(ps), job.per, fresh)

\* What the resampling loader may give: any prompts that encode.
FreshPrompts(ps) ==
  IF AllEncode(ps) THEN {Repeated(ps)}
  ELSE [1..(IF job.megatron THEN Len(ps) ELSE BatchSize(job)) ->
          {p \in 0..(Prompts - 1) : Encodes(p)}]
\* Only dynamic sampling looks at the rewards: elsewhere one stands for all.
Rewards == [1..BatchSize(job) -> IF job.dynamic THEN {0, 1} ELSE {0}]

-----------------------------------------------------------------------------
(* Groups.                                                                 *)

\* view(-1, num_generations): the row of slot i.
Row(b, i) == Parts(b, job.g)[(i - 1) \div job.g + 1]
\* compute_std > 0
Varied(row) == job.g > 1 /\ \E a, c \in 1..Len(row) : row[a].reward # row[c].reward
VariedOf(b) == FlattenSeq(Selected(Parts(b, job.g), Varied))

\* split_by_mini_batches, with the advantages attached; micro_batch_data by num_mini_batch.
Buffered(b) ==
  [x \in 0..(Groups - 1) |->
     LET mine == SlotsOf(x) IN
     Parts([k \in 1..Len(mine) |-> [sample |-> b[mine[k]], base |-> Row(b, mine[k])]],
           Len(mine) \div Slices)]

-----------------------------------------------------------------------------
(* The trainer.                                                            *)

BatchInit ==
  /\ job \in Jobs /\ phase = "fetch"
  /\ taken = 0 /\ counter = 0 /\ saved = 0 /\ crashes = 0 /\ chunk = 0
  /\ drawn = <<>> /\ batch = <<>> /\ origin = <<>> /\ valid = <<>> /\ retries = 0
  /\ buffered = <<>> /\ uses = <<>> /\ refilled = FALSE

\* _prepare_inputs, _replace_data_iterator: is it time to generate?
Fetch ==
  /\ phase = "fetch" /\ taken < job.total
  /\ IF counter % GenerationSteps = 0 \/ buffered = <<>>
     THEN /\ phase' = "generate"
          /\ chunk' = Chunk(taken) /\ drawn' = PromptsOf(Chunk(taken))
          /\ valid' = <<>> /\ retries' = 0 /\ refilled' = FALSE
     ELSE phase' = "train" /\ UNCHANGED <<chunk, drawn, valid, retries, refilled>>
  /\ UNCHANGED <<job, taken, counter, saved, crashes, batch, origin, buffered, uses>>

\* resample_encode_failed_inputs, _generate_completions, _score_completions
GenerateBatch ==
  /\ phase = "generate"
  /\ \E fresh \in FreshPrompts(drawn), reward \in Rewards :
       LET prompt == Loaded(drawn, fresh) IN
       batch' = [i \in 1..BatchSize(job) |->
                   [prompt |-> prompt[i], round |-> retries, slot |-> i, reward |-> reward[i]]]
  /\ origin' = IF retries = 0 THEN batch' ELSE origin
  /\ refilled' = (refilled \/ ~AllEncode(drawn))
  /\ phase' = IF job.dynamic THEN "examine" ELSE "score"
  /\ UNCHANGED <<job, taken, counter, saved, crashes, chunk, drawn, valid, retries, buffered, uses>>

\* max_resample_rounds rounds and not enough prompts that encode.
EncodeRaises ==
  /\ phase = "generate" /\ ~AllEncode(drawn)
  /\ phase' = "raised"
  /\ UNCHANGED <<job, taken, counter, saved, crashes, chunk, drawn, batch, origin, valid,
                 retries, buffered, uses, refilled>>

\* A turn of the loop of _dynamic_sampling: keep the groups with variance; enough of
\* them make the batch, else the next batch of the resampling loader is generated for.
\* Mutant of MayExamine: one turn more.
MayExamineMore == retries <= job.retries
MayExamine == retries < job.retries
Examine ==
  /\ phase = "examine" /\ MayExamine
  /\ valid' = valid \o VariedOf(batch)
  /\ IF Len(valid') >= BatchSize(job)
     THEN /\ phase' = "score" /\ batch' = SubSeq(valid', 1, BatchSize(job))
          /\ UNCHANGED <<drawn, retries>>
     ELSE /\ \E c \in 0..(Prompts \div PromptCount(job) - 1) : drawn' = PromptsOf(c)
          /\ retries' = retries + 1 /\ phase' = "generate" /\ UNCHANGED batch
  /\ UNCHANGED <<job, taken, counter, saved, crashes, chunk, origin, buffered, uses, refilled>>

\* Mutant of Fallback: the batch generated last.
FallbackLast == batch
Fallback == origin
\* The loop ended: the batch resampled last is not examined.
FallBack ==
  /\ phase = "examine" /\ ~MayExamine
  /\ phase' = "score" /\ batch' = Fallback
  /\ UNCHANGED <<job, taken, counter, saved, crashes, chunk, drawn, origin, valid, retries,
                 buffered, uses, refilled>>

\* _compute_advantages and what follows it in _generate_and_score_completions
Score ==
  /\ phase = "score"
  /\ buffered' = Buffered(batch)
  /\ uses' = [s \in 1..Slices |-> 0]
  /\ phase' = "train"
  /\ UNCHANGED <<job, taken, counter, saved, crashes, chunk, drawn, batch, origin, valid,
                 retries, refilled>>

\* A training step on _buffered_inputs[_step % slices]
Train ==
  /\ phase = "train"
  /\ uses' = [uses EXCEPT ![(counter % Slices) + 1] = @ + 1]
  /\ counter' = counter + 1 /\ taken' = taken + 1
  /\ phase' = "fetch"
  /\ UNCHANGED <<job, saved, crashes, chunk, drawn, batch, origin, valid, retries, buffered,
                 refilled>>

\* A checkpoint, between two optimizer steps.
Save ==
  /\ phase = "fetch" /\ saved < taken /\ taken % (job.gas * job.sp) = 0 /\ ~job.megatron
  /\ saved' = taken
  /\ UNCHANGED <<job, phase, taken, counter, crashes, chunk, drawn, batch, origin, valid,
                 retries, buffered, uses, refilled>>

\* The job dies and starts again from the checkpoint: the loop skips the batches
\* trained on, and _step and _buffered_inputs are those of a new trainer.
Crash ==
  /\ ~job.megatron /\ crashes < MaxCrashes /\ phase # "raised"
  /\ crashes' = crashes + 1 /\ taken' = saved /\ counter' = 0 /\ phase' = "fetch"
  /\ drawn' = <<>> /\ batch' = <<>> /\ origin' = <<>> /\ valid' = <<>> /\ retries' = 0
  /\ buffered' = <<>> /\ uses' = <<>> /\ refilled' = FALSE
  /\ UNCHANGED <<job, saved, chunk>>

BatchNext == Fetch \/ GenerateBatch \/ EncodeRaises \/ Examine \/ FallBack \/ Score \/ Train
        \/ Save \/ Crash
BatchSpec == BatchInit /\ [][BatchNext]_batchVars

-----------------------------------------------------------------------------
(* Properties.                                                             *)

Samples == [prompt : 0..(Prompts - 1), round : 0..(job.retries), slot : 1..BatchSize(job),
            reward : {0, 1}]

\* Every variable stays in its type: a prompt that was long is not in a batch, dynamic
\* sampling keeps to max_resample_times, a slice is used num_iterations times at most.
BatchTypeOK ==
  /\ job \in Jobs
  /\ phase \in {"fetch", "generate", "examine", "score", "train", "raised"}
  /\ taken \in 0..(job.total) /\ counter \in 0..taken /\ saved \in 0..taken
  /\ crashes \in 0..MaxCrashes /\ chunk \in 0..Chunk(job.total)
  /\ Len(batch) \in {0, BatchSize(job)}
  /\ \A b \in {batch, origin, valid} : \A i \in DOMAIN b : b[i] \in Samples /\ Encodes(b[i].prompt)
  /\ retries \in 0..(job.retries)
  /\ Len(valid) < 2 * BatchSize(job) /\ Len(valid) % job.g = 0
  /\ \A s \in DOMAIN uses : uses[s] \in 0..(job.iters)
  /\ refilled \in BOOLEAN

Entries == FlattenSeq([x \in 1..Groups |-> FlattenSeq(buffered[x - 1])])

\* An advantage is relative to num_generations completions of the sample's own prompt,
\* generated together, the sample among them.
OwnGroup ==
  buffered # <<>> =>
    \A i \in DOMAIN Entries :
      LET e == Entries[i] IN
      /\ e.sample \in Range(e.base) /\ Len(e.base) = job.g
      /\ \A k \in 1..(job.g) : /\ e.base[k].prompt = e.sample.prompt
                               /\ e.base[k].round = e.sample.round

\* The group of an advantage is the group of its prompt, across the gather over ranks,
\* the filtering of dynamic sampling and the split into slices: unless GRPOTrainer had to
\* replace a prompt that did not encode, or the completions of a prompt are spread over
\* pipeline stages whose ranks are not next to each other.
GroupsWhole ==
  \/ ~job.megatron /\ refilled
  \/ job.megatron /\ job.pp > 1 /\ job.dp > 1 /\ (job.tp * job.per) % job.g # 0
  \/ phase \in {"generate", "examine", "score", "raised"}   \* the buffer is an earlier batch's
  \/ OwnGroup

\* The buffer holds each sample of the generation batch once, over all ranks and slices.
\* With dynamic sampling every group in it has variance, or it is the batch generated
\* first and the batches examined have too few such groups.
BufferedBatch ==
  (phase = "train" \/ phase = "fetch") /\ buffered # <<>> =>
    /\ Len(Entries) = BatchSize(job)
    /\ Range([i \in DOMAIN Entries |-> Entries[i].sample]) = Range(batch)
    /\ Cardinality(Range(batch)) = BatchSize(job)
    /\ job.dynamic =>
         \/ \A i \in DOMAIN Entries : Varied(Entries[i].base)
         \/ /\ \A i \in DOMAIN batch : batch[i].round = 0
            /\ Len(valid) < BatchSize(job)

\* A new generation starts when every slice of the last was trained on num_iterations
\* times, and takes the batch of the sampler after the one taken last: the step counter,
\* the sampler and the slices keep in step, also when training resumed in the middle of a
\* generation.
SlicesInTurn ==
  [][phase = "fetch" /\ phase' = "generate" /\ buffered # <<>> =>
       /\ \A s \in DOMAIN uses : uses[s] = job.iters
       /\ chunk' = chunk + 1]_batchVars

\* docs/source_en/Instruction/Command-line-parameters.md:588: samples that do not encode
\* are replaced "to maintain the intended batch size"; grpo_trainer.py:418: each prompt
\* has exactly num_generations completions.
GroupsOfOnePrompt == phase \in {"fetch", "train"} => OwnGroup
=============================================================================
