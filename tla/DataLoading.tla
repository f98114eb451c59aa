---------------------------- MODULE DataLoading ----------------------------
(***************************************************************************)
(* What the data-parallel processes train on, and what a job that crashes  *)
(* and resumes from its checkpoint trains on.  Four loaders:               *)
(*   "shard"     BatchSamplerShard under DataLoaderShard: each process     *)
(*               takes its share of the epoch's permutation;               *)
(*   "sequence"  SequenceParallelSampler: the same by groups of processes, *)
(*               the last round filled up with samples from the beginning; *)
(*   "stream"    DataLoaderDispatcher: process 0 reads an iterable dataset *)
(*               and scatters a round of batches;                          *)
(*   "megatron"  MegatronPretrainingRandomSampler under cyclic_iter.       *)
(* The training loop of the first three is transformers' Trainer           *)
(* (external), whose skip_first_batches the trainer replaces.  A training  *)
(* step is a collective: it takes a batch of every process.  Gradient      *)
(* accumulation is 1.                                                      *)
(***************************************************************************)
EXTENDS Integers, Sequences, FiniteSets, SequencesExt, FiniteSetsExt

CONSTANTS
  Plans,              \* kind, total, world, batch, shuffle, drop_last, sharding, epochs,
                      \* steps, save: the loader, the dataset, the schedule
  Permutation(_, _),  \* torch.randperm: of a seed and a length
  MaxCrashes          \* bound on the crashes of the job

ASSUME DataAssumption ==
  /\ MaxCrashes \in Nat
  /\ \A p \in Plans :
       /\ p.kind \in {"shard", "sequence", "stream", "megatron"}
       /\ {p.total, p.world, p.batch, p.epochs, p.steps, p.save} \subseteq Nat \ {0}
       /\ {p.shuffle, p.drop_last, p.sharding} \subseteq BOOLEAN
       \* Each process gets a batch in an epoch: otherwise there is no step to train, and
       \* MegatronPretrainingRandomSampler.__iter__ would divide by zero.
       /\ p.kind = "shard" => p.total >= p.world * (IF p.drop_last THEN p.batch ELSE 1)
       /\ p.kind = "sequence" /\ p.drop_last => p.total > p.world * (p.batch - 1)
       /\ p.kind = "megatron" => p.total >= p.world * p.batch
       /\ \A seed \in 0..p.epochs : \A n \in 1..(p.total) :
            /\ Permutation(seed, n) \in [1..n -> 1..n]
            /\ IsInjective(Permutation(seed, n))

VARIABLES
  plan,         \* the job, fixed
  rank,         \* per process: where it is, its epoch, the batches it has left
  base,         \* process 0's iterator over an iterable dataset, in batches
  global_step,
  saved,        \* global_step of the last checkpoint
  trained,      \* per step, what each process trained on, in its epoch
  crashes,
  resumed       \* the epochs in the middle of which the job was resumed

loadVars == <<plan, rank, base, global_step, saved, trained, crashes, resumed>>

Ranks == 0..(plan.world - 1)

-----------------------------------------------------------------------------
(* Samplers: pure functions of the rank and the epoch's seed.              *)

Ceil(a, b) == (a + b - 1) \div b
Seeded(seed, n) == IF plan.shuffle THEN Permutation(seed, n) ELSE [i \in 1..n |-> i]
From(s, offset) == SubSeq(s, offset + 1, Len(s))
\* s[k::world]
Strided(s, k) == [i \in 1..Ceil(Max({0, Len(s) - k}), plan.world) |-> s[(i - 1) * plan.world + k + 1]]
Batched(s, drop_last) ==
  [i \in 1..(IF drop_last THEN Len(s) \div plan.batch ELSE Ceil(Len(s), plan.batch)) |->
     SubSeq(s, (i - 1) * plan.batch + 1, Min({i * plan.batch, Len(s)}))]

\* BatchSamplerShard.__iter__
ShardBatches(k, seed) ==
  Batched(Strided(Seeded(seed, (plan.total \div plan.world) * plan.world), k), plan.drop_last)

\* SequenceParallelSampler.__iter__, which always shuffles and rounds up.
RoundedUp == Ceil(plan.total, plan.world) * plan.world
SequenceBatches(k, seed) ==
  LET once == Permutation(seed, plan.total)
      filled == [i \in 1..RoundedUp |-> once[((i - 1) % plan.total) + 1]] IN
  Batched(Strided(filled, k), plan.drop_last)

\* MegatronPretrainingRandomSampler.__iter__
Global == plan.batch * plan.world
Active == plan.total - (plan.total % Global)
MegatronBatches(k, consumed) ==
  LET seed == consumed \div Active
      current == consumed % Active
      bucket == (plan.total \div Global) * plan.batch
      full == (plan.total \div plan.batch) * plan.batch
      mine == IF plan.shuffle /\ plan.sharding
              THEN [i \in 1..(bucket - current \div plan.world) |->
                      k * bucket + Permutation(seed, bucket)[i + current \div plan.world]]
              ELSE Strided(From(Seeded(seed, full), current), k) IN
  Batched(mine, TRUE)

\* The batches of the DataLoader over an iterable dataset.
StreamBatches == Batched([i \in 1..plan.total |-> i], FALSE)

Batches(k, seed) ==
  IF plan.kind = "shard" THEN ShardBatches(k, seed) ELSE SequenceBatches(k, seed)

-----------------------------------------------------------------------------
(* The schedule.                                                           *)

Mapped == plan.kind \in {"shard", "sequence"}
\* len(train_dataloader); of a stream it is unknown and max_steps stands in.
EpochSteps ==
  CASE Mapped -> Len(Batches(0, 0))
    [] plan.kind = "stream" -> plan.steps
    [] plan.kind = "megatron" -> Active \div Global
MaxSteps == IF plan.kind = "stream" THEN plan.steps ELSE plan.epochs * EpochSteps

\* A process that starts after so many steps.  The trainer's loop derives the
\* epoch and the batches to skip from them; the Megatron sampler is given the
\* samples consumed.
StartedAt(steps) ==
  [pc |-> "open", todo |-> <<>>, batch |-> <<>>, drawn |-> 0,
   epoch |-> IF plan.kind = "megatron" THEN 0 ELSE steps \div EpochSteps,
   skip |-> IF plan.kind = "megatron" THEN 0 ELSE steps % EpochSteps,
   consumed |-> steps * Global]

LoadInit ==
  /\ plan \in Plans
  /\ rank = [k \in Ranks |-> StartedAt(0)]
  /\ base = <<>>
  /\ global_step = 0 /\ saved = 0 /\ trained = <<>>
  /\ crashes = 0 /\ resumed = {}

-----------------------------------------------------------------------------
(* The processes.                                                          *)

\* Mutant of Todo: a resumed loader starts from the beginning.
TodoUnskipped(r, k) ==
  CASE plan.kind = "megatron" -> MegatronBatches(k, r.consumed)
    [] Mapped -> Batches(k, r.epoch)
    [] plan.kind = "stream" -> <<>>

\* set_epoch seeds the loader with the epoch; skip_first_batches, replaced by
\* the trainer's, makes a new one, which has the first seed.
Todo(r, k) ==
  CASE plan.kind = "megatron" -> MegatronBatches(k, r.consumed)
    [] Mapped /\ r.skip > 0 -> From(Batches(k, 0), r.skip)
    [] Mapped /\ r.skip = 0 -> Batches(k, r.epoch)
    [] plan.kind = "stream" -> <<>>

Over(r) == global_step >= MaxSteps \/ (Mapped /\ r.epoch >= plan.epochs)

Open(k) ==
  LET r == rank[k] IN
  /\ r.pc = "open" /\ ~Over(r)
  /\ ~(plan.kind = "stream" /\ k = 0)
  /\ rank' = [rank EXCEPT ![k] = [r EXCEPT !.pc = "draw", !.todo = Todo(r, k),
                                           !.drawn = 0, !.skip = 0]]
  /\ UNCHANGED <<plan, base, global_step, saved, trained, crashes, resumed>>

\* Process 0 of a dispatcher skips rounds of batches; if the dataset ends
\* before, StopIteration leaves the generator as a RuntimeError.
OpenStream ==
  LET r == rank[0]
      short == r.skip * plan.world > Len(StreamBatches) IN
  /\ plan.kind = "stream" /\ r.pc = "open" /\ ~Over(r)
  /\ base' = IF short THEN <<>> ELSE From(StreamBatches, r.skip * plan.world)
  /\ rank' = [rank EXCEPT ![0] = [r EXCEPT !.pc = IF short THEN "error" ELSE "draw",
                                           !.drawn = 0, !.skip = 0]]
  /\ UNCHANGED <<plan, global_step, saved, trained, crashes, resumed>>

Stop(k) ==
  /\ rank[k].pc = "open" /\ Over(rank[k])
  /\ rank' = [rank EXCEPT ![k].pc = "stopped"]
  /\ UNCHANGED <<plan, base, global_step, saved, trained, crashes, resumed>>

Holding(r, batch) == [r EXCEPT !.pc = "hold", !.batch = batch, !.drawn = r.drawn + 1]

\* A Megatron sampler counts what all processes consume.
Draw(k) ==
  LET r == rank[k] IN
  /\ r.pc = "draw" /\ r.todo # <<>>
  /\ rank' = [rank EXCEPT ![k] = [Holding(r, Head(r.todo)) EXCEPT
                !.todo = Tail(r.todo), !.consumed = r.consumed + Global]]
  /\ UNCHANGED <<plan, base, global_step, saved, trained, crashes, resumed>>

\* Mutant of Exhausted: one pass over the loader is all.
ExhaustedAtOnce(r) == [r EXCEPT !.pc = "stopped"]

\* The loader is exhausted.  transformers' loop stops for good after an epoch
\* without a single batch; cyclic_iter goes round.
Exhausted(r) ==
  IF plan.kind = "megatron" THEN [r EXCEPT !.pc = "open"]
  ELSE IF r.drawn = 0 THEN [r EXCEPT !.pc = "stopped"]
  ELSE [r EXCEPT !.pc = "open", !.epoch = r.epoch + 1]

EndPass(k) ==
  LET r == rank[k] IN
  /\ plan.kind # "stream"
  /\ r.pc = "draw" /\ r.todo = <<>>
  /\ rank' = [rank EXCEPT ![k] = Exhausted(r)]
  /\ UNCHANGED <<plan, base, global_step, saved, trained, crashes, resumed>>

\* scatter_object_list: a batch for each process, or None for all of them
\* when the dataset ends within the round.
Scatter ==
  /\ plan.kind = "stream"
  /\ \A k \in Ranks : rank[k].pc = "draw"
  /\ IF Len(base) >= plan.world
     THEN /\ rank' = [k \in Ranks |-> Holding(rank[k], base[k + 1])]
          /\ base' = From(base, plan.world)
     ELSE /\ rank' = [k \in Ranks |-> Exhausted(rank[k])]
          /\ base' = <<>>
  /\ UNCHANGED <<plan, global_step, saved, trained, crashes, resumed>>

\* Mutant of Train: max_steps is not looked at after a step.
TrainOn ==
  /\ \A k \in Ranks : rank[k].pc = "hold"
  /\ global_step' = global_step + 1
  /\ trained' = Append(trained, [k \in Ranks |-> [epoch |-> rank[k].epoch, batch |-> rank[k].batch]])
  /\ saved' = IF (global_step + 1) % plan.save = 0 THEN global_step + 1 ELSE saved
  /\ rank' = [k \in Ranks |-> [rank[k] EXCEPT !.batch = <<>>, !.pc = "draw"]]
  /\ UNCHANGED <<plan, base, crashes, resumed>>

\* A training step and, every save_steps, a checkpoint.
Train ==
  /\ \A k \in Ranks : rank[k].pc = "hold"
  /\ global_step' = global_step + 1
  /\ trained' = Append(trained, [k \in Ranks |-> [epoch |-> rank[k].epoch, batch |-> rank[k].batch]])
  /\ saved' = IF (global_step + 1) % plan.save = 0 THEN global_step + 1 ELSE saved
  /\ rank' = [k \in Ranks |->
       [rank[k] EXCEPT !.batch = <<>>,
                       !.pc = IF global_step + 1 >= MaxSteps THEN "stopped" ELSE "draw"]]
  /\ UNCHANGED <<plan, base, crashes, resumed>>

\* The job dies and is started again from the last checkpoint: what was
\* trained after it is undone.
Crash ==
  /\ crashes < MaxCrashes
  /\ \E k \in Ranks : rank[k].pc # "stopped"
  /\ crashes' = crashes + 1
  /\ global_step' = saved
  /\ trained' = SubSeq(trained, 1, saved)
  /\ rank' = [k \in Ranks |-> StartedAt(saved)]
  /\ base' = <<>>
  /\ resumed' = IF saved % EpochSteps = 0 THEN resumed
                ELSE resumed \cup {saved \div EpochSteps}
  /\ UNCHANGED <<plan, saved>>

LoadNext ==
  \/ OpenStream \/ Scatter \/ Train \/ Crash
  \/ \E k \in Ranks : Open(k) \/ Stop(k) \/ Draw(k) \/ EndPass(k)

LoadSpec == LoadInit /\ [][LoadNext]_loadVars
\* The processes go on; nothing makes the job crash.
FairLoadSpec ==
  /\ LoadSpec
  /\ WF_loadVars(OpenStream \/ Scatter \/ Train)
  /\ \A k \in 0..Max({p.world : p \in Plans}) :
       WF_loadVars(k \in Ranks /\ (Open(k) \/ Stop(k) \/ Draw(k) \/ EndPass(k)))

-----------------------------------------------------------------------------
(* Properties.                                                             *)

Indices == 1..plan.total
LoadTypeOK ==
  /\ plan \in Plans
  /\ global_step \in 0..MaxSteps /\ saved \in 0..global_step
  /\ Len(trained) = global_step
  /\ base \in Seq(Seq(Indices))
  /\ \A k \in Ranks :
       /\ rank[k].pc \in {"open", "draw", "hold", "stopped", "error"}
       /\ {rank[k].epoch, rank[k].skip, rank[k].drawn, rank[k].consumed} \subseteq Nat
       /\ rank[k].todo \in Seq(Seq(Indices)) /\ rank[k].batch \in Seq(Indices)
  /\ crashes \in 0..MaxCrashes /\ resumed \subseteq Nat

\* The epoch a step belongs to: the trainer's, or for Megatron the pass over
\* the samples that fill global batches.
EpochOf(i, k) ==
  IF plan.kind = "megatron" THEN (i - 1) \div EpochSteps ELSE trained[i][k].epoch
Epochs == {EpochOf(i, k) : i \in DOMAIN trained, k \in Ranks}
TrainedIn(e) ==
  FlattenSeq([i \in DOMAIN trained |->
    FlattenSeq([j \in 1..plan.world |->
      IF EpochOf(i, j - 1) = e THEN trained[i][j - 1].batch ELSE <<>>])])
Distinct(e) == Cardinality(ToSet(TrainedIn(e)))

\* Indices an epoch repeats by design.
Repeats == IF plan.kind = "sequence" THEN RoundedUp - plan.total ELSE 0
OnceIn(e) == Len(TrainedIn(e)) <= Distinct(e) + Repeats

\* A Megatron run without data sharding whose incomplete last round gives
\* the first processes a whole micro batch: they draw it while the others
\* begin the next epoch, and are an epoch behind from then on.
Uneven ==
  /\ plan.kind = "megatron" /\ ~(plan.shuffle /\ plan.sharding)
  /\ Ceil((plan.total \div plan.batch) * plan.batch - Active, plan.world) >= plan.batch
\* A mapped loader resumed in the middle of a later epoch starts it again
\* with the first epoch's permutation.
Reshuffled(e) == Mapped /\ e \in resumed /\ e > 0 /\ (plan.shuffle \/ plan.kind = "sequence")

Round == plan.batch * plan.world
\* No process trains on a sample that it or another has trained on in the same
\* epoch: the shares of the processes are disjoint, and after a crash the resumed
\* epoch goes on where the checkpoint was.  What an epoch leaves out when it is
\* over is less than a round of batches.  Two cases are left out: a job whose
\* last shares are Uneven, and an epoch that was Reshuffled by its resumption.
EpochTrainedOnce ==
  \A e \in Epochs : (~Uneven /\ ~Reshuffled(e)) =>
    /\ OnceIn(e)
    /\ e + 1 \in Epochs => Distinct(e) > plan.total - Round

\* The same without exceptions, which "resumes training from the last step"
\* and "skips already-trained data" promise: false.
ResumedEpochOnce == \A e \in Epochs : OnceIn(e)

\* Training takes all its steps and all processes stop, unless the job is
\* resumed at or after the end of the first pass over a stream: then the
\* loader has nothing left and training stops early, or fails.
PassSteps == Len(StreamBatches) \div plan.world
Beyond == plan.kind = "stream" /\ saved >= PassSteps /\ saved < MaxSteps
TrainingCompletes ==
  <>[](\/ global_step = MaxSteps /\ \A k \in Ranks : rank[k].pc = "stopped"
       \/ Beyond /\ crashes > 0)
=============================================================================
