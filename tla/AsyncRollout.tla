---------------------------- MODULE AsyncRollout ----------------------------
(***************************************************************************)
(* Asynchronous generation in GRPO training (async_generate = true):       *)
(* RolloutTrainerMixin in swift/rlhf_trainers/rollout_mixin.py and         *)
(* GRPOTrainer in grpo_trainer.py, driven by the loop of                   *)
(* transformers.Trainer.  In every round the trainer thread submits a      *)
(* rollout to a one-thread executor and consumes the result of an earlier  *)
(* one from one of two queues; the executor's done-callback fills them.    *)
(* The model's version is the global step; the rollout server has the      *)
(* version it was last sent.                                               *)
(***************************************************************************)
EXTENDS Integers, Sequences, FiniteSets

CONSTANTS
  MaxSteps,        \* args.max_steps
  EvalBatches,     \* batches of the evaluation dataloader
  GenerateEvery,   \* values of steps_per_generation * num_iterations
  Accumulations,   \* values of gradient_accumulation_steps
  Nothing          \* no rollout consumed yet

ASSUME AsyncAssumption ==
  {MaxSteps, EvalBatches} \cup GenerateEvery \cup Accumulations \subseteq Nat \ {0}

Modes == {"train", "eval"}

VARIABLES
  trainer,         \* where the trainer thread is
  eval_on_start,   \* args.eval_on_start
  every,           \* generate_every
  accumulate,      \* gradient_accumulation_steps
  micro,           \* self._step, the forward-backward passes so far
  step,            \* state.global_step, the version of the model
  loaded,          \* _last_loaded_step, the version the rollout server has
  should_evaluate, \* control.should_evaluate
  eval_flag,       \* self.eval_flag
  left,            \* batches the running evaluation has still to see
  round,           \* per mode, the rollouts asked for
  tasks,           \* the executor: the running task and those behind it
  results,         \* train_queue and eval_queue
  used             \* the last rollout consumed, by which mode and when

vars == <<trainer, eval_on_start, every, accumulate, micro, step, loaded, should_evaluate,
          eval_flag, left, round, tasks, results, used>>

loop     == <<eval_on_start, every, accumulate, micro, step, should_evaluate, eval_flag, left>>
rollouts == <<loaded, round, tasks, results, used>>

\* self._queue: the queue of the current mode.
CurrentQueue == IF should_evaluate THEN "eval" ELSE "train"

Init ==
  /\ trainer = "begin"
  /\ eval_on_start \in BOOLEAN
  /\ every \in GenerateEvery
  /\ accumulate \in Accumulations
  /\ micro = 0
  /\ step = 0
  /\ loaded = -1
  /\ should_evaluate = FALSE
  /\ eval_flag = FALSE
  /\ left = 0
  /\ round = [mode \in Modes |-> 0]
  /\ tasks = <<>>
  /\ results = [queue \in Modes |-> <<>>]
  /\ used = Nothing

-----------------------------------------------------------------------------
(* Rollouts.                                                               *)

Rollout(mode, version) == [data |-> mode, round |-> round[mode], version |-> version]
Count(mode) == round' = [round EXCEPT ![mode] = @ + 1]

\* _prefetch: weights move without a look at the queue, and the trainer waits.
Prefetch(mode) ==
  /\ loaded' = step
  /\ results' = [results EXCEPT ![CurrentQueue] = Append(@, Rollout(mode, step))]
  /\ Count(mode)

\* Mutant of Submit: weights move without waiting for the rollout that is due.
SubmitAtOnce(mode) ==
  /\ loaded' = step
  /\ tasks' = Append(tasks, [rollout |-> Rollout(mode, step), queue |-> CurrentQueue])
  /\ Count(mode)
  /\ UNCHANGED <<results, used>>

\* _fast_infer up to async_generate_rollout: weights move if the step has
\* changed, once the rollout the current queue owes has arrived.
Submit(mode) ==
  /\ step # loaded => results[CurrentQueue] # <<>>
  /\ loaded' = step
  /\ tasks' = Append(tasks, [rollout |-> Rollout(mode, step), queue |-> CurrentQueue])
  /\ Count(mode)
  /\ UNCHANGED <<results, used>>

\* self._queue.get()
Consume(mode) ==
  /\ results[CurrentQueue] # <<>>
  /\ used' = [by |-> mode, round |-> round[mode], step |-> step, rollout |-> Head(results[CurrentQueue])]
  /\ results' = [results EXCEPT ![CurrentQueue] = Tail(@)]
  /\ UNCHANGED <<loaded, round, tasks>>

\* Mutant of RolloutDone: the callback looks up the queue when it runs.
RolloutDoneLate ==
  /\ tasks # <<>>
  /\ results' = [results EXCEPT ![CurrentQueue] =
                   Append(@, [tasks[1].rollout EXCEPT !.version = loaded])]
  /\ tasks' = Tail(tasks)
  /\ UNCHANGED <<trainer, loop, loaded, round, used>>

(* The executor thread ends a task and its done-callback puts the result   *)
(* on the queue that was current when it was submitted.                    *)
RolloutDone ==
  /\ tasks # <<>>
  /\ results' = [results EXCEPT ![tasks[1].queue] =
                   Append(@, [tasks[1].rollout EXCEPT !.version = loaded])]
  /\ tasks' = Tail(tasks)
  /\ UNCHANGED <<trainer, loop, loaded, round, used>>

-----------------------------------------------------------------------------
(* Training.                                                               *)

(* AsyncGenerateCallback.on_train_begin; then eval_on_start.               *)
TrainBegin ==
  /\ trainer = "begin"
  /\ Prefetch("train")
  /\ trainer' = IF eval_on_start THEN "evaluate" ELSE "train"
  /\ UNCHANGED <<loop, tasks, used>>

(* training_step waits for the rollout an evaluation has left behind;      *)
(* _prepare_inputs generates when the buffered rollout is used up.         *)
TrainingStep ==
  /\ trainer = "train"
  /\ step < MaxSteps
  /\ eval_flag => results["eval"] # <<>>
  /\ trainer' = IF micro % every = 0 THEN "generate" ELSE "backward"
  /\ UNCHANGED <<loop, rollouts>>

Generate ==
  /\ trainer = "generate"
  /\ Submit("train")
  /\ trainer' = "get"
  /\ UNCHANGED loop

Get ==
  /\ trainer = "get"
  /\ Consume("train")
  /\ trainer' = "backward"
  /\ UNCHANGED loop

(* The pass, and the optimizer after each accumulate of them.              *)
Backward ==
  /\ trainer = "backward"
  /\ micro' = micro + 1
  /\ IF micro' % accumulate = 0
       THEN step' = step + 1 /\ trainer' = "step end"
       ELSE UNCHANGED step /\ trainer' = "train"
  /\ UNCHANGED <<eval_on_start, every, accumulate, should_evaluate, eval_flag, left, rollouts>>

(* on_step_end: an evaluation is due or not.                               *)
StepEnd ==
  /\ trainer = "step end"
  /\ should_evaluate' \in BOOLEAN
  /\ trainer' = IF should_evaluate' THEN "evaluate" ELSE "train"
  /\ UNCHANGED <<eval_on_start, every, accumulate, micro, step, eval_flag, left, rollouts>>

TrainEnd ==
  /\ trainer = "train"
  /\ step = MaxSteps
  /\ trainer' = "end"
  /\ UNCHANGED <<loop, rollouts>>

-----------------------------------------------------------------------------
(* evaluation_loop.                                                        *)

(* Wait for the training rollout; prefetch if nothing is in the queue.     *)
BeginEvaluation ==
  /\ trainer = "evaluate"
  /\ results["train"] # <<>>
  /\ IF results[CurrentQueue] = <<>>
       THEN Prefetch("eval") ELSE UNCHANGED <<loaded, round, results>>
  /\ left' = EvalBatches
  /\ trainer' = "eval batch"
  /\ UNCHANGED <<eval_on_start, every, accumulate, micro, step, should_evaluate, eval_flag, tasks, used>>

\* Mutant of EvalGenerate: it goes on when the batches are used up.
EvalGenerateOnceMore ==
  /\ trainer = "eval batch"
  /\ Submit("eval")
  /\ trainer' = "eval get"
  /\ UNCHANGED loop

EvalGenerate ==
  /\ trainer = "eval batch"
  /\ left > 0
  /\ Submit("eval")
  /\ trainer' = "eval get"
  /\ UNCHANGED loop

EvalGet ==
  /\ trainer = "eval get"
  /\ Consume("eval")
  /\ left' = left - 1
  /\ trainer' = "eval batch"
  /\ UNCHANGED <<eval_on_start, every, accumulate, micro, step, should_evaluate, eval_flag>>

(* The loop is over; on_evaluate resets control.should_evaluate.           *)
EndEvaluation ==
  /\ trainer = "eval batch"
  /\ left = 0
  /\ eval_flag' = TRUE
  /\ should_evaluate' = FALSE
  /\ trainer' = "train"
  /\ UNCHANGED <<eval_on_start, every, accumulate, micro, step, left, rollouts>>

-----------------------------------------------------------------------------
TrainerStep ==
  \/ TrainBegin
  \/ TrainingStep
  \/ Generate
  \/ Get
  \/ Backward
  \/ StepEnd
  \/ TrainEnd
  \/ BeginEvaluation
  \/ EvalGenerate
  \/ EvalGet
  \/ EndEvaluation

Next == TrainerStep \/ RolloutDone

\* Both threads run, and the rollout server answers.
Fairness == WF_vars(TrainerStep) /\ WF_vars(RolloutDone)

Spec == Init /\ [][Next]_vars
FairSpec == Spec /\ Fairness
-----------------------------------------------------------------------------
(* Properties.                                                             *)

Rollouts == [data : Modes, round : Nat, version : 0..MaxSteps]

\* Every variable has its type.
TypeOK ==
  /\ trainer \in {"begin", "train", "generate", "get", "backward", "step end", "evaluate",
                  "eval batch", "eval get", "end"}
  /\ eval_on_start \in BOOLEAN /\ every \in GenerateEvery /\ accumulate \in Accumulations
  /\ micro \in Nat
  /\ step \in 0..MaxSteps
  /\ loaded \in -1..MaxSteps
  /\ should_evaluate \in BOOLEAN /\ eval_flag \in BOOLEAN
  /\ left \in 0..EvalBatches
  /\ round \in [Modes -> Nat]
  /\ tasks \in Seq([rollout : Rollouts, queue : Modes])
  /\ results \in [Modes -> Seq(Rollouts)]
  /\ used # Nothing => used \in [by : Modes, round : Nat, step : 0..MaxSteps, rollout : Rollouts]

WeightsStill ==
  \A i \in DOMAIN tasks : tasks[i].rollout.version = loaded

\* Rollouts owed to a queue: in it, running or behind the running one.
Outstanding(queue) ==
  Len(results[queue]) + Cardinality({i \in DOMAIN tasks : tasks[i].queue = queue})

OneOutstanding ==
  trainer \in {"train", "evaluate"} =>
    /\ Outstanding("train") = 1
    /\ Outstanding("eval") = IF eval_flag THEN 1 ELSE 0

OneRoundBehind ==
  used # Nothing =>
    /\ used.rollout.data = used.by
    /\ used.rollout.round = used.round - 2

TrainingLag ==
  (used # Nothing /\ used.by = "train" /\ every <= accumulate) =>
    used.rollout.version >= used.step - 1

\* The weights of the rollout server do not move while a rollout runs on them or
\* is due to.  Between two steps exactly one training rollout is on its way or ready,
\* and one evaluation rollout once there was an evaluation: no get() waits for
\* nothing.  A round consumes what the round before it asked for, in its own mode: no
\* training on evaluation data, no rollout skipped, none consumed twice.  Training is
\* at most one update step off-policy when every update step has a rollout of its own.
\* (An evaluation before training takes the training rollout: should_evaluate is not
\* set, so the current queue is the training queue.)
RoundsInStep ==
  ~eval_on_start => WeightsStill /\ OneOutstanding /\ OneRoundBehind /\ TrainingLag

\* Training ends: the waits of training_step, _wait_queue and evaluation_loop and
\* the two get() calls never wait for each other; unless there is an evaluation before
\* training, after which it waits for a rollout nobody has asked for.
TrainingEnds == ~eval_on_start ~> trainer = "end"
=============================================================================
