------------------------ MODULE GrpoTrainerProofs --------------------------
(***************************************************************************)
(* Proofs about the two halves of the GRPO trainer, for every value of     *)
(* their constants: AsyncRollout, when it generates ahead of the training  *)
(* steps, and GrpoBatches, what it makes of a generation.                  *)
(*                                                                         *)
(* AsyncRollout: the trainer and the executor share no lock, only the      *)
(* queues.  The inductive invariant IInv says at every point of the        *)
(* trainer's loop how many rollouts each queue is owed and which, and that *)
(* the executor works for at most one of the queues; so a rollout that has *)
(* arrived shows that the executor is idle, and the weights may move.  The *)
(* proof that training is at most a step off-policy counts the passes      *)
(* since the last submission.                                              *)
(*                                                                         *)
(* GrpoBatches: InStep says how far the counters, the sampler and the uses *)
(* of the slices have got since the buffer was filled; it is inductive by  *)
(* itself, from the arithmetic of steps and slices.  Contents says what    *)
(* the batches hold in every phase: whole groups, each generated together  *)
(* for one prompt, no sample twice.  Every operation on a batch is shown   *)
(* to keep that (refilling, placing, keeping the groups with variance,     *)
(* joining and cutting), and the buffer to hold the batch slot by slot:    *)
(* each slot belongs to one place of one data index.                       *)
(***************************************************************************)
EXTENDS AsyncRollout, GrpoBatches, CommonLemmas, FiniteSetTheorems, TLAPS

-----------------------------------------------------------------------------
(* Asynchronous generation: the inductive invariant.                       *)

\* The executor holds the youngest of the n rollouts a mode is owed, and only those;
\* the others are in the mode's queue.  Rollouts are numbered as they are asked for.
Has(mode, n) ==
  /\ Len(results[mode]) = n
  /\ \A i \in DOMAIN results[mode] :
       results[mode][i].data = mode /\ results[mode][i].round = round[mode] - n + i - 1

Owes(mode, n) ==
  /\ Len(results[mode]) + Len(tasks) = n
  /\ \A i \in DOMAIN results[mode] :
       results[mode][i].data = mode /\ results[mode][i].round = round[mode] - n + i - 1
  /\ \A i \in DOMAIN tasks :
       /\ tasks[i].queue = mode /\ tasks[i].rollout.data = mode
       /\ tasks[i].rollout.round = round[mode] - Len(tasks) + i - 1

\* An evaluation leaves a rollout behind for the next one.
LeftBehind == IF eval_flag THEN 1 ELSE 0

\* What is owed while the training loop runs on.
Training == Owes("train", 1) /\ Has("eval", LeftBehind)

Phases ==
  /\ trainer = "begin" =>
       /\ tasks = <<>> /\ results = [queue \in Modes |-> <<>>]
       /\ ~eval_flag /\ round = [mode \in Modes |-> 0]
  /\ trainer \in {"train", "end"} =>
       Training \/ (eval_flag /\ Has("train", 1) /\ Owes("eval", 1))
  /\ trainer \in {"generate", "backward", "step end", "evaluate"} => Training
  /\ trainer = "get" => Owes("train", 2) /\ Has("eval", LeftBehind)
  /\ trainer = "eval batch" => Has("train", 1) /\ Owes("eval", 1)
  /\ trainer = "eval get" => Has("train", 1) /\ Owes("eval", 2)
  /\ should_evaluate <=> trainer \in {"evaluate", "eval batch", "eval get"}

\* Forward-backward passes since the last training rollout was asked for.
Passes ==
  IF trainer = "backward" THEN micro % every
  ELSE IF micro = 0 THEN 0
  ELSE IF micro % every = 0 THEN every ELSE micro % every

\* The step at which it was asked for, when at most one step fits between.
LeastVersion == IF micro % accumulate < Passes THEN step - 1 ELSE step

Fresh ==
  every <= accumulate =>
    /\ \A i \in DOMAIN results["train"] : results["train"][i].version >= LeastVersion
    /\ \A i \in DOMAIN tasks : tasks[i].queue = "train" => loaded >= LeastVersion
    /\ trainer = "get" =>
         loaded = step /\ (Len(results["train"]) = 2 => results["train"][2].version = step)

\* What the guards of the trainer's loop leave behind.
Guarded ==
  /\ trainer \in {"generate", "get", "backward"} => step < MaxSteps
  /\ trainer \in {"generate", "get"} => micro % every = 0
  /\ trainer = "eval get" => left > 0
  /\ trainer = "begin" => micro = 0 /\ step = 0 /\ tasks = <<>>
  /\ trainer # "begin" => loaded >= 0

Sound == Phases /\ WeightsStill /\ Fresh /\ OneRoundBehind /\ TrainingLag

IInv ==
  /\ TypeOK
  /\ Guarded
  /\ ~eval_on_start => Sound

-----------------------------------------------------------------------------
(* Queues.                                                                 *)

Task == [rollout : Rollouts, queue : Modes]

\* The rollouts that are left after the oldest was taken keep their rounds.
LEMMA Renumbered ==
  ASSUME NEW r \in Int, NEW l \in Int, NEW i \in Int
  PROVE  r - l + (i + 1) - 1 = r - (l - 1) + i - 1
OBVIOUS

\* Putting an item behind a queue.
LEMMA PutLast ==
  ASSUME NEW S, NEW s \in Seq(S), NEW x \in S
  PROVE  /\ Append(s, x) \in Seq(S) /\ Len(Append(s, x)) = Len(s) + 1 /\ Len(s) \in Nat
         /\ DOMAIN Append(s, x) = DOMAIN s \cup {Len(s) + 1} /\ DOMAIN s \subseteq Nat
         /\ Len(s) + 1 \notin DOMAIN s
         /\ \A i \in DOMAIN s : Append(s, x)[i] = s[i] /\ s[i] \in S
         /\ Append(s, x)[Len(s) + 1] = x
<1>1. Append(s, x) \in Seq(S) /\ Len(Append(s, x)) = Len(s) + 1 /\ Len(s) \in Nat
  OBVIOUS
<1>2. DOMAIN s = 1..Len(s) /\ DOMAIN Append(s, x) = 1..(Len(s) + 1)
  OBVIOUS
<1>3. \A i \in DOMAIN s : Append(s, x)[i] = s[i] /\ s[i] \in S
  OBVIOUS
<1>4. Append(s, x)[Len(s) + 1] = x
  OBVIOUS
<1>5. DOMAIN Append(s, x) = DOMAIN s \cup {Len(s) + 1} /\ Len(s) + 1 \notin DOMAIN s /\ DOMAIN s \subseteq Nat
  BY <1>1, <1>2
<1>6. QED
  BY <1>1, <1>3, <1>4, <1>5

\* Taking the item at the front of a queue.
LEMMA TakeFirst ==
  ASSUME NEW S, NEW s \in Seq(S), s # <<>>
  PROVE  /\ Head(s) \in S /\ Tail(s) \in Seq(S)
         /\ Len(s) \in Nat /\ Len(s) > 0 /\ Len(Tail(s)) = Len(s) - 1
         /\ 1 \in DOMAIN s /\ Head(s) = s[1]
         /\ \A i \in DOMAIN Tail(s) : /\ i \in Nat /\ i + 1 \in DOMAIN s
                                      /\ Tail(s)[i] = s[i + 1]
OBVIOUS

\* A queue is empty or not.
LEMMA Lengths ==
  ASSUME NEW S, NEW s \in Seq(S)
  PROVE  /\ Len(s) \in Nat /\ DOMAIN s = 1..Len(s)
         /\ (Len(s) = 0 <=> s = <<>>)
OBVIOUS

-----------------------------------------------------------------------------
(* What the operations on rollouts do to what is owed.                     *)

Other(mode) == IF mode = "train" THEN "eval" ELSE "train"

\* The bounds of a run.
LEMMA Limits == MaxSteps \in Nat /\ MaxSteps > 0 /\ EvalBatches \in Nat /\ EvalBatches > 0
BY AsyncAssumption DEF AsyncAssumption

\* The generation and accumulation intervals.
LEMMA Intervals ==
  ASSUME TypeOK
  PROVE  every \in Nat \ {0} /\ accumulate \in Nat \ {0}
BY AsyncAssumption DEF AsyncAssumption, TypeOK

\* The parts of Owes.
LEMMA Owed ==
  ASSUME NEW mode, NEW n, Owes(mode, n)
  PROVE  /\ Len(results[mode]) + Len(tasks) = n
         /\ \A i \in DOMAIN results[mode] :
              results[mode][i].data = mode /\ results[mode][i].round = round[mode] - n + i - 1
         /\ \A i \in DOMAIN tasks :
              /\ tasks[i].queue = mode /\ tasks[i].rollout.data = mode
              /\ tasks[i].rollout.round = round[mode] - Len(tasks) + i - 1
BY DEF Owes

\* A submission adds one to what is owed; if the weights moved for it, no rollout
\* was running.
LEMMA SubmitOwes ==
  ASSUME TypeOK, NEW mode \in Modes, CurrentQueue = mode, Submit(mode), Owes(mode, 1), WeightsStill,
         UNCHANGED <<step>>
  PROVE  /\ Owes(mode, 2)' /\ WeightsStill' /\ loaded' = step
         /\ \A n : Has(Other(mode), n) => Has(Other(mode), n)'
         /\ UNCHANGED <<results, used>>
         /\ \A i \in DOMAIN tasks' : tasks'[i].queue = mode
<1> DEFINE x == [rollout |-> Rollout(mode, step), queue |-> mode]
           r == round[mode]
           l == Len(tasks)
<1>1. /\ tasks' = Append(tasks, x) /\ loaded' = step /\ UNCHANGED <<results, used>>
      /\ round' = [round EXCEPT ![mode] = round[mode] + 1]
      /\ (step # loaded => results[mode] # <<>>)
  BY DEF Submit, Count
<1>2. x \in Task /\ x.queue = mode /\ x.rollout.data = mode /\ x.rollout.round = round[mode]
      /\ x.rollout.version = step
  BY DEF TypeOK, Rollout, Rollouts, Task
<1>3. tasks \in Seq(Task) /\ results[mode] \in Seq(Rollouts)
  BY DEF TypeOK, Task
<1>r. r \in Nat
  BY DEF TypeOK
<1> HIDE DEF x
<1>4. Len(tasks') = l + 1 /\ l \in Nat
  BY <1>1, <1>2, <1>3, PutLast
<1>5. /\ DOMAIN tasks' = DOMAIN tasks \cup {l + 1}
      /\ \A i \in DOMAIN tasks : tasks'[i] = tasks[i]
      /\ tasks'[l + 1] = x
  BY <1>1, <1>2, <1>3, PutLast
<1>6. DOMAIN tasks \subseteq Nat /\ DOMAIN results[mode] \subseteq Nat
  BY <1>3, Lengths
<1>7. round'[mode] = r + 1
  BY <1>1 DEF TypeOK
<1>8. (Len(results[mode]) = 0 => results[mode] = <<>>) /\ DOMAIN tasks = 1..l
  BY <1>3, Lengths
<1>n. Len(results[mode]) \in Nat
  BY <1>3, Lengths
<1>9. Len(results[mode]) + l = 1
  BY Owed
<1>10. Owes(mode, 2)'
  <2>1. Len(results'[mode]) + Len(tasks') = 2
    <3>1. Len(results'[mode]) = Len(results[mode])
      BY <1>1
    <3>2. PICK k \in Nat : k = Len(results[mode]) /\ k = Len(results'[mode])
      BY <3>1, <1>n
    <3>3. k = 1 - l
      BY <3>2, <1>4, <1>9
    <3>4. QED
      BY <3>2, <3>3, <1>4
  <2>2. ASSUME NEW i \in DOMAIN results'[mode]
        PROVE  results'[mode][i].data = mode /\ results'[mode][i].round = round'[mode] - 2 + i - 1
    <3>1. i \in DOMAIN results[mode] /\ i \in Nat /\ results'[mode] = results[mode]
      BY <1>1, <1>6
    <3>2. results[mode][i].data = mode /\ results[mode][i].round = r - 1 + i - 1
      BY <3>1, Owed
    <3>3. r - 1 + i - 1 = round'[mode] - 2 + i - 1
      BY <1>r, <1>7, <3>1
    <3>4. QED
      BY <3>1, <3>2, <3>3
  <2>3. ASSUME NEW i \in DOMAIN tasks'
        PROVE  /\ tasks'[i].queue = mode /\ tasks'[i].rollout.data = mode
               /\ tasks'[i].rollout.round = round'[mode] - Len(tasks') + i - 1
    <3>1. CASE i \in DOMAIN tasks
      <4>1. tasks'[i] = tasks[i]
        BY <3>1, <1>5
      <4>i. i \in Nat
        BY <3>1, <1>6
      <4>2. tasks[i].queue = mode /\ tasks[i].rollout.data = mode /\ tasks[i].rollout.round = r - l + i - 1
        BY <3>1, Owed
      <4>3. r - l + i - 1 = round'[mode] - Len(tasks') + i - 1
        BY <1>r, <1>4, <1>7, <4>i
      <4>4. QED
        BY <4>1, <4>2, <4>3
    <3>2. CASE i = l + 1
      <4>1. r = round'[mode] - Len(tasks') + i - 1
        BY <1>r, <1>4, <1>7, <3>2
      <4>2. QED
        BY <1>2, <1>5, <3>2, <4>1
    <3>3. QED
      BY <1>5, <3>1, <3>2
  <2>4. QED
    BY <2>1, <2>2, <2>3 DEF Owes
<1>11. WeightsStill'
  <2>1. CASE step = loaded
    BY <1>1, <1>2, <1>5, <2>1 DEF WeightsStill
  <2>2. CASE step # loaded
    <3>1. l = 0
      BY <1>1, <1>4, <1>8, <1>n, <1>9, <2>2
    <3>2. DOMAIN tasks = {}
      BY <1>8, <3>1
    <3>3. QED
      BY <1>1, <1>2, <1>5, <3>2 DEF WeightsStill
  <2>3. QED
    BY <2>1, <2>2
<1>12. \A n : Has(Other(mode), n) => Has(Other(mode), n)'
  <2>1. Other(mode) \in Modes /\ Other(mode) # mode
    BY DEF Other, Modes
  <2>2. round'[Other(mode)] = round[Other(mode)]
    BY <1>1, <2>1 DEF TypeOK
  <2>3. QED
    BY <1>1, <2>2 DEF Has
<1>13. \A i \in DOMAIN tasks' : tasks'[i].queue = mode
  BY <1>10 DEF Owes
<1>14. QED
  BY <1>1, <1>10, <1>11, <1>12, <1>13

\* Taking the oldest of two rollouts leaves one owed.
LEMMA ConsumeOwes ==
  ASSUME TypeOK, NEW mode \in Modes, CurrentQueue = mode, Consume(mode), Owes(mode, 2)
  PROVE  /\ Owes(mode, 1)'
         /\ \A n : Has(Other(mode), n) => Has(Other(mode), n)'
         /\ results[mode] \in Seq(Rollouts) /\ results[mode] # <<>>
         /\ results' = [results EXCEPT ![mode] = Tail(results[mode])]
         /\ UNCHANGED <<loaded, round, tasks>>
         /\ used' = [by |-> mode, round |-> round[mode], step |-> step, rollout |-> results[mode][1]]
         /\ used'.rollout.data = mode /\ used'.rollout.round = round[mode] - 2
<1> DEFINE s == results[mode]
           r == round[mode]
<1>1. /\ s # <<>>
      /\ used' = [by |-> mode, round |-> r, step |-> step, rollout |-> Head(s)]
      /\ results' = [results EXCEPT ![mode] = Tail(s)]
      /\ UNCHANGED <<loaded, round, tasks>>
  BY DEF Consume
<1>2. s \in Seq(Rollouts) /\ r \in Nat /\ tasks \in Seq(Task)
  BY DEF TypeOK, Task
<1>3. /\ Len(s) \in Nat /\ Len(Tail(s)) = Len(s) - 1
      /\ 1 \in DOMAIN s /\ Head(s) = s[1]
  BY <1>1, <1>2, TakeFirst
<1>4. Len(tasks) \in Nat /\ Len(s) + Len(tasks) = 2
  BY <1>2, Lengths, Owed
<1>5. results'[mode] = Tail(s) /\ \A m \in Modes : m # mode => results'[m] = results[m]
  BY <1>1 DEF TypeOK
<1>6. Owes(mode, 1)'
  <2>1. Len(results'[mode]) + Len(tasks') = 1
    <3>1. Len(results'[mode]) = Len(Tail(s)) /\ Len(tasks') = Len(tasks)
      BY <1>1, <1>5
    <3>2. QED
      BY <1>3, <1>4, <3>1
  <2>2. ASSUME NEW i \in DOMAIN results'[mode]
        PROVE  results'[mode][i].data = mode /\ results'[mode][i].round = r - 1 + i - 1
    <3>0. i \in DOMAIN Tail(s) /\ results'[mode][i] = Tail(s)[i]
      BY <1>5
    <3>1. /\ i \in Nat /\ i + 1 \in DOMAIN s /\ results'[mode][i] = s[i + 1]
      BY <1>1, <1>2, <3>0, TakeFirst
    <3>2. s[i + 1].data = mode /\ s[i + 1].round = r - 2 + (i + 1) - 1
      BY <3>1, Owed
    <3>3. i \in Nat /\ r \in Nat
      BY <1>2, <3>1
    <3>4. r - 2 + (i + 1) - 1 = r - 1 + i - 1
      BY <3>3
    <3>5. QED
      BY <3>1, <3>2, <3>4
  <2>3. \A i \in DOMAIN tasks :
              /\ tasks[i].queue = mode /\ tasks[i].rollout.data = mode
              /\ tasks[i].rollout.round = r - Len(tasks) + i - 1
    BY Owed
  <2>4. QED
    BY <1>1, <2>1, <2>2, <2>3 DEF Owes
<1>7. \A n : Has(Other(mode), n) => Has(Other(mode), n)'
  <2>1. Other(mode) \in Modes /\ Other(mode) # mode
    BY DEF Other, Modes
  <2>2. QED
    BY <1>1, <1>5, <2>1 DEF Has
<1>8. used'.rollout.data = mode /\ used'.rollout.round = r - 2
  <2>1. s[1].data = mode /\ s[1].round = r - 2 + 1 - 1
    BY <1>3, Owed
  <2>2. QED
    BY <1>1, <1>2, <1>3, <2>1
<1>9. QED
  BY <1>1, <1>2, <1>3, <1>6, <1>7, <1>8

\* A prefetch with an idle executor and nothing owed.
LEMMA PrefetchOwes ==
  ASSUME TypeOK, NEW mode \in Modes, CurrentQueue = mode, Prefetch(mode), Has(mode, 0),
         tasks = <<>>, UNCHANGED tasks
  PROVE  /\ Owes(mode, 1)' /\ loaded' = step
         /\ \A n : Has(Other(mode), n) => Has(Other(mode), n)'
         /\ results' = [results EXCEPT ![mode] = <<Rollout(mode, step)>>]
<1>1. /\ loaded' = step
      /\ results' = [results EXCEPT ![mode] = Append(results[mode], Rollout(mode, step))]
      /\ round' = [round EXCEPT ![mode] = round[mode] + 1]
  BY DEF Prefetch, Count
<1>2. results[mode] = <<>>
  <2>1. results[mode] \in Seq(Rollouts)
    BY DEF TypeOK
  <2>2. QED
    BY <2>1, Lengths DEF Has
<1> DEFINE x == Rollout(mode, step)
<1>3. x.data = mode /\ x.round = round[mode] /\ round[mode] \in Nat
  BY DEF TypeOK, Rollout
<1> HIDE DEF x
<1>4. Append(<<>>, x) = <<x>> /\ Len(<<x>>) = 1 /\ DOMAIN <<x>> = {1} /\ <<x>>[1] = x /\ Len(<<>>) = 0 /\ DOMAIN <<>> = {}
  OBVIOUS
<1>5. /\ results'[mode] = <<x>> /\ results' = [results EXCEPT ![mode] = <<x>>]
      /\ \A m \in Modes : m # mode => results'[m] = results[m]
      /\ round'[mode] = round[mode] + 1 /\ \A m \in Modes : m # mode => round'[m] = round[m]
  BY <1>1, <1>2, <1>4 DEF TypeOK, x
<1>6. Owes(mode, 1)'
  BY <1>3, <1>4, <1>5 DEF Owes
<1>7. \A n : Has(Other(mode), n) => Has(Other(mode), n)'
  BY <1>5 DEF Has, Other, Modes
<1>8. QED
  BY <1>1, <1>5, <1>6, <1>7 DEF x

\* The end of a task moves a rollout from the executor to its queue.
LEMMA DoneOwes ==
  ASSUME TypeOK, loaded >= 0, NEW mode \in Modes, NEW n \in Nat, RolloutDone, Owes(mode, n)
  PROVE  /\ Owes(mode, n)'
         /\ \A k : Has(Other(mode), k) => Has(Other(mode), k)'
         /\ \E x \in Rollouts : /\ results' = [results EXCEPT ![mode] = Append(results[mode], x)]
                                /\ x.version = loaded
<1> DEFINE s == results[mode]
           r == round[mode]
           l == Len(tasks)
<1>1. PICK q \in Modes, x \in Rollouts :
        /\ q = tasks[1].queue /\ x = [tasks[1].rollout EXCEPT !.version = loaded]
  <2>1. tasks \in Seq(Task) /\ tasks # <<>>
    BY DEF RolloutDone, TypeOK, Task
  <2>2. tasks[1] \in Task
    BY <2>1, TakeFirst
  <2>3. loaded \in 0..MaxSteps
    <3>1. loaded \in -1..MaxSteps
      BY DEF TypeOK
    <3>2. QED
      BY <3>1, Limits
  <2>4. tasks[1].queue \in Modes /\ tasks[1].rollout \in Rollouts
    BY <2>2 DEF Task
  <2>5. [tasks[1].rollout EXCEPT !.version = loaded] \in Rollouts
    BY <2>3, <2>4 DEF Rollouts
  <2>6. QED
    BY <2>4, <2>5
<1>2. /\ tasks # <<>> /\ tasks' = Tail(tasks)
      /\ results' = [results EXCEPT ![q] = Append(results[q], x)]
      /\ UNCHANGED <<loaded, round>>
  BY <1>1 DEF RolloutDone
<1>3. tasks \in Seq(Task) /\ s \in Seq(Rollouts)
  BY DEF TypeOK, Task
<1>r. r \in Nat
  BY DEF TypeOK
<1>4. 1 \in DOMAIN tasks
  BY <1>2, <1>3, TakeFirst
<1>l. l \in Nat /\ Len(tasks') = l - 1
  BY <1>2, <1>3, TakeFirst
<1>5. tasks[1].queue = mode /\ tasks[1].rollout.data = mode /\ tasks[1].rollout.round = r - l + 1 - 1
  BY <1>4, Owed
<1>6. tasks[1].rollout \in Rollouts
  <2>1. tasks[1] \in Task
    BY <1>2, <1>3, TakeFirst
  <2>2. QED
    BY <2>1 DEF Task
<1>7. x.version = loaded /\ x.data = mode /\ x.round = r - l + 1 - 1
  BY <1>1, <1>5, <1>6 DEF Rollouts
<1>8. /\ results'[mode] = Append(s, x)
      /\ \A m \in Modes : m # mode => results'[m] = results[m]
  BY <1>1, <1>2, <1>5 DEF TypeOK
<1>9. Len(results'[mode]) = Len(s) + 1 /\ Len(s) \in Nat
  BY <1>3, <1>8, PutLast
<1>10. /\ DOMAIN results'[mode] = DOMAIN s \cup {Len(s) + 1}
       /\ \A i \in DOMAIN s : results'[mode][i] = s[i]
       /\ results'[mode][Len(s) + 1] = x
  BY <1>3, <1>8, PutLast
<1>11. Len(s) + l = n
  BY Owed
<1>12. Owes(mode, n)'
  <2>1. Len(results'[mode]) + Len(tasks') = n
    BY <1>l, <1>9, <1>11
  <2>2. ASSUME NEW i \in DOMAIN results'[mode]
        PROVE  results'[mode][i].data = mode /\ results'[mode][i].round = r - n + i - 1
    <3>1. CASE i \in DOMAIN s
      BY <1>10, <3>1, Owed
    <3>2. CASE i = Len(s) + 1
      <4>1. r - l + 1 - 1 = r - n + i - 1
        BY SMTT(30), <1>r, <1>l, <1>9, <1>11, <3>2
      <4>2. QED
        BY <1>7, <1>10, <3>2, <4>1
    <3>3. QED
      BY <1>10, <3>1, <3>2
  <2>3. ASSUME NEW i \in DOMAIN tasks'
        PROVE  /\ tasks'[i].queue = mode /\ tasks'[i].rollout.data = mode
               /\ tasks'[i].rollout.round = r - Len(tasks') + i - 1
    <3>1. i \in Nat /\ i + 1 \in DOMAIN tasks /\ tasks'[i] = tasks[i + 1]
      BY <1>2, <1>3, TakeFirst
    <3>2. /\ tasks[i + 1].queue = mode /\ tasks[i + 1].rollout.data = mode
          /\ tasks[i + 1].rollout.round = r - l + (i + 1) - 1
      BY <3>1, Owed
    <3>i. i \in Nat
      BY <3>1
    <3>3. r - l + (i + 1) - 1 = r - Len(tasks') + i - 1
      <4> HIDE DEF r, l, s
      <4>1. r - l + (i + 1) - 1 = r - (l - 1) + i - 1
        BY <1>r, <1>l, <3>i, Renumbered
      <4>2. QED
        BY <1>l, <4>1
    <3>4. QED
      BY <3>1, <3>2, <3>3
  <2>4. QED
    BY <1>2, <2>1, <2>2, <2>3 DEF Owes
<1>13. \A k : Has(Other(mode), k) => Has(Other(mode), k)'
  <2>1. Other(mode) \in Modes /\ Other(mode) # mode
    BY DEF Other, Modes
  <2>2. QED
    BY <1>2, <1>8, <2>1 DEF Has
<1>14. QED
  BY <1>1, <1>2, <1>5, <1>7, <1>12, <1>13

\* A rollout that has arrived was the only one owed, so the executor is idle.
LEMMA OwesArrived ==
  ASSUME TypeOK, NEW mode \in Modes, Owes(mode, 1), results[mode] # <<>>
  PROVE  tasks = <<>> /\ Has(mode, 1)
<1>1. results[mode] \in Seq(Rollouts) /\ tasks \in Seq(Task)
  BY DEF TypeOK, Task
<1>2. PICK k \in Nat : k = Len(results[mode])
  BY <1>1, Lengths
<1>3. PICK l \in Nat : l = Len(tasks)
  BY <1>1, Lengths
<1>4. k # 0
  BY <1>1, <1>2, Lengths
<1>5. k + l = 1
  BY <1>2, <1>3, Owed
<1>6. k = 1 /\ l = 0
  BY <1>4, <1>5
<1>7. tasks = <<>>
  BY <1>1, <1>3, <1>6, Lengths
<1>8. Has(mode, 1)
  BY <1>2, <1>6, Owed DEF Has
<1>9. QED
  BY <1>7, <1>8

\* With an idle executor a mode has what it is owed.
LEMMA HasOwes ==
  ASSUME TypeOK, NEW mode \in Modes, NEW n \in Nat, Has(mode, n), tasks = <<>>
  PROVE  Owes(mode, n)
<1>1. Len(tasks) = 0 /\ DOMAIN tasks = {}
  OBVIOUS
<1>2. Len(results[mode]) = n
  BY DEF Has
<1>3. QED
  BY <1>1, <1>2 DEF Has, Owes

-----------------------------------------------------------------------------
(* Types and guards.                                                       *)

\* The types of what the operations on rollouts change.
RolloutTypes ==
  /\ loaded \in -1..MaxSteps
  /\ round \in [Modes -> Nat]
  /\ tasks \in Seq(Task)
  /\ results \in [Modes -> Seq(Rollouts)]
  /\ used # Nothing => used \in [by : Modes, round : Nat, step : 0..MaxSteps, rollout : Rollouts]

\* A rollout that is asked for, or delivered, is a rollout.
LEMMA NewRollout ==
  ASSUME TypeOK, NEW mode \in Modes
  PROVE  /\ Rollout(mode, step) \in Rollouts /\ CurrentQueue \in Modes
         /\ step \in -1..MaxSteps /\ step >= 0
         /\ [round EXCEPT ![mode] = @ + 1] \in [Modes -> Nat]
<1>1. step \in -1..MaxSteps /\ step >= 0
  <2>1. step \in 0..MaxSteps
    BY DEF TypeOK
  <2>2. QED
    BY <2>1, Limits
<1>2. Rollout(mode, step) \in Rollouts
  BY DEF TypeOK, Rollout, Rollouts
<1>3. CurrentQueue \in Modes
  BY DEF CurrentQueue, Modes
<1>4. [round EXCEPT ![mode] = @ + 1] \in [Modes -> Nat]
  <2>1. round \in [Modes -> Nat]
    BY DEF TypeOK
  <2>2. round[mode] + 1 \in Nat
    BY <2>1
  <2>3. QED
    BY <2>1, <2>2
<1>5. QED
  BY <1>1, <1>2, <1>3, <1>4

\* Submit keeps the types.
LEMMA SubmitTypes ==
  ASSUME TypeOK, NEW mode \in Modes, Submit(mode)
  PROVE  RolloutTypes' /\ loaded' >= 0
<1> DEFINE x == [rollout |-> Rollout(mode, step), queue |-> CurrentQueue]
<1>1. x \in Task /\ tasks \in Seq(Task)
  BY NewRollout DEF Task, TypeOK
<1>2. tasks' \in Seq(Task)
  BY <1>1 DEF Submit
<1>3. QED
  BY <1>2, NewRollout DEF Submit, Count, RolloutTypes, TypeOK

\* Taking a result keeps the types.
LEMMA ConsumeTypes ==
  ASSUME TypeOK, NEW mode \in Modes, Consume(mode)
  PROVE  RolloutTypes' /\ UNCHANGED loaded
<1> DEFINE s == results[CurrentQueue]
<1>1. s \in Seq(Rollouts) /\ s # <<>>
  BY NewRollout DEF TypeOK, Consume
<1>2. Head(s) \in Rollouts /\ Tail(s) \in Seq(Rollouts)
  BY <1>1, TakeFirst
<1>3. used' \in [by : Modes, round : Nat, step : 0..MaxSteps, rollout : Rollouts]
  BY <1>2 DEF Consume, TypeOK
<1>4. results' \in [Modes -> Seq(Rollouts)]
  BY <1>2 DEF Consume, TypeOK
<1>5. QED
  BY <1>3, <1>4 DEF Consume, TypeOK, RolloutTypes, Task

\* Prefetch keeps the types.
LEMMA PrefetchTypes ==
  ASSUME TypeOK, NEW mode \in Modes, Prefetch(mode), UNCHANGED <<tasks, used>>
  PROVE  RolloutTypes' /\ loaded' >= 0
<1>1. results[CurrentQueue] \in Seq(Rollouts)
  BY NewRollout DEF TypeOK
<1>2. Append(results[CurrentQueue], Rollout(mode, step)) \in Seq(Rollouts)
  BY <1>1, NewRollout, PutLast
<1>3. results' \in [Modes -> Seq(Rollouts)]
  BY <1>2 DEF Prefetch, TypeOK
<1>4. QED
  BY <1>3, NewRollout DEF Prefetch, Count, TypeOK, RolloutTypes, Task

\* Delivering a rollout keeps the types.
LEMMA DoneTypes ==
  ASSUME TypeOK, Guarded, RolloutDone
  PROVE  RolloutTypes' /\ UNCHANGED loaded
<1>1. tasks \in Seq(Task) /\ tasks # <<>>
  BY DEF RolloutDone, TypeOK, Task
<1>2. tasks[1] \in Task /\ Tail(tasks) \in Seq(Task)
  BY <1>1, TakeFirst
<1>3. loaded \in 0..MaxSteps
  <2>1. loaded \in -1..MaxSteps /\ loaded >= 0
    BY DEF TypeOK, Guarded, RolloutDone
  <2>2. QED
    BY <2>1, Limits
<1>4. tasks[1].queue \in Modes /\ [tasks[1].rollout EXCEPT !.version = loaded] \in Rollouts
  BY <1>2, <1>3 DEF Rollouts, Task
<1>5. Append(results[tasks[1].queue], [tasks[1].rollout EXCEPT !.version = loaded]) \in Seq(Rollouts)
  <2>1. results[tasks[1].queue] \in Seq(Rollouts)
    BY <1>4 DEF TypeOK
  <2>2. QED
    BY <1>4, <2>1, PutLast
<1>6. results' \in [Modes -> Seq(Rollouts)]
  BY <1>4, <1>5 DEF RolloutDone, TypeOK
<1>7. QED
  BY <1>2, <1>6 DEF RolloutDone, TypeOK, RolloutTypes, Task

\* Types and guards are kept by every step.
LEMMA TypesStep ==
  ASSUME TypeOK, Guarded, [Next]_vars
  PROVE  TypeOK' /\ Guarded'
<1>0. TypeOK' /\ Guarded' <=>
        /\ RolloutTypes'
        /\ Guarded'
        /\ trainer' \in {"begin", "train", "generate", "get", "backward", "step end", "evaluate",
                         "eval batch", "eval get", "end"}
        /\ eval_on_start' \in BOOLEAN /\ every' \in GenerateEvery /\ accumulate' \in Accumulations
        /\ micro' \in Nat
        /\ step' \in 0..MaxSteps
        /\ should_evaluate' \in BOOLEAN /\ eval_flag' \in BOOLEAN
        /\ left' \in 0..EvalBatches
  BY DEF TypeOK, RolloutTypes, Task
<1>1. RolloutTypes
  BY DEF TypeOK, RolloutTypes, Task
<1>2. UNCHANGED <<loaded, round, tasks, results, used>> => RolloutTypes'
  BY <1>1 DEF RolloutTypes
<1>3. CASE TrainBegin
  BY <1>0, <1>3, PrefetchTypes DEF TrainBegin, loop, Guarded, TypeOK, Modes
<1>4. CASE TrainingStep
  BY <1>0, <1>2, <1>4 DEF TrainingStep, loop, rollouts, Guarded, TypeOK
<1>5. CASE Generate
  BY <1>0, <1>5, SubmitTypes DEF Generate, loop, Guarded, TypeOK, Modes
<1>6. CASE Get
  BY <1>0, <1>6, ConsumeTypes DEF Get, loop, Guarded, TypeOK, Modes
<1>7. CASE Backward
  <2>1. step' \in 0..MaxSteps /\ micro' \in Nat
    <3>1. step \in 0..MaxSteps /\ step < MaxSteps /\ micro \in Nat
      BY <1>7 DEF Backward, Guarded, TypeOK
    <3>2. (step' = step \/ step' = step + 1) /\ micro' = micro + 1
      BY <1>7 DEF Backward
    <3>3. QED
      BY <3>1, <3>2, Limits
  <2>2. QED
    BY <1>0, <1>2, <1>7, <2>1 DEF Backward, rollouts, Guarded, TypeOK
<1>8. CASE StepEnd
  BY <1>0, <1>2, <1>8 DEF StepEnd, rollouts, Guarded, TypeOK
<1>9. CASE TrainEnd
  BY <1>0, <1>2, <1>9 DEF TrainEnd, loop, rollouts, Guarded, TypeOK
<1>10. CASE BeginEvaluation
  <2>1. RolloutTypes' /\ loaded' >= 0
    <3>1. CASE results[CurrentQueue] = <<>>
      BY <1>10, <3>1, PrefetchTypes DEF BeginEvaluation, Modes
    <3>2. CASE results[CurrentQueue] # <<>>
      BY <1>2, <1>10, <3>2 DEF BeginEvaluation, Guarded
    <3>3. QED
      BY <3>1, <3>2
  <2>2. left' \in 0..EvalBatches
    <3>1. left' = EvalBatches
      BY <1>10 DEF BeginEvaluation
    <3>2. QED
      BY <3>1, Limits
  <2>3. QED
    BY <1>0, <1>10, <2>1, <2>2 DEF BeginEvaluation, Guarded, TypeOK
<1>11. CASE EvalGenerate
  BY <1>0, <1>11, SubmitTypes DEF EvalGenerate, loop, Guarded, TypeOK, Modes
<1>12. CASE EvalGet
  <2>1. left' \in 0..EvalBatches
    <3>1. left \in 0..EvalBatches /\ left > 0 /\ left' = left - 1
      BY <1>12 DEF EvalGet, Guarded, TypeOK
    <3>2. QED
      BY <3>1, Limits
  <2>2. QED
    BY <1>0, <1>12, <2>1, ConsumeTypes DEF EvalGet, Guarded, TypeOK, Modes
<1>13. CASE EndEvaluation
  BY <1>0, <1>2, <1>13 DEF EndEvaluation, rollouts, Guarded, TypeOK
<1>14. CASE RolloutDone
  <2>1. trainer # "begin"
    BY <1>14 DEF RolloutDone, Guarded
  <2>2. QED
    BY <1>0, <1>14, <2>1, DoneTypes DEF RolloutDone, loop, Guarded, TypeOK
<1>15. CASE UNCHANGED vars
  BY <1>0, <1>2, <1>15 DEF vars, Guarded, TypeOK
<1>16. QED
  BY <1>3, <1>4, <1>5, <1>6, <1>7, <1>8, <1>9, <1>10, <1>11, <1>12, <1>13, <1>14, <1>15
     DEF Next, TrainerStep

-----------------------------------------------------------------------------
(* How far behind the trainer a rollout may be.                            *)

\* The least version is this step or the one before.
LEMMA LeastVersionRange ==
  ASSUME TypeOK
  PROVE  /\ step \in Nat
         /\ LeastVersion \in Int /\ LeastVersion >= step - 1 /\ LeastVersion <= step
<1>1. step \in Nat
  <2>1. step \in 0..MaxSteps
    BY DEF TypeOK
  <2>2. QED
    BY <2>1, Limits
<1>2. QED
  BY <1>1 DEF LeastVersion

\* It changes only with the passes.
LEMMA SameLeastVersion ==
  ASSUME UNCHANGED <<every, accumulate, micro, step>>,
         (trainer = "backward" /\ trainer' = "backward") \/ (trainer # "backward" /\ trainer' # "backward")
  PROVE  LeastVersion' = LeastVersion
<1>1. Passes' = Passes
  BY DEF Passes
<1>2. QED
  BY <1>1 DEF LeastVersion

\* From the buffered rollouts the passes are counted on.
LEMMA BufferedLeastVersion ==
  ASSUME TypeOK, trainer = "train", TrainingStep
  PROVE  LeastVersion' = LeastVersion
<1>1. 0 % every = 0
  BY Intervals
<1>2. Passes' = Passes
  <2>1. CASE micro % every = 0
    BY <2>1 DEF TrainingStep, Passes, loop
  <2>2. CASE micro % every # 0
    BY <1>1, <2>2 DEF TrainingStep, Passes, loop
  <2>3. QED
    BY <2>1, <2>2
<1>3. QED
  BY <1>2 DEF LeastVersion, TrainingStep, loop

\* A round that has just been asked for has the version of this step.
LEMMA NewLeastVersion ==
  ASSUME TypeOK, trainer' = "backward", UNCHANGED <<every, accumulate, micro, step>>, micro % every = 0
  PROVE  LeastVersion' = step
<1>1. Passes' = 0
  BY DEF Passes
<1>2. ~(micro % accumulate < 0)
  <2>1. micro \in Nat /\ accumulate \in Nat \ {0}
    BY Intervals DEF TypeOK
  <2>2. micro % accumulate \in 0..accumulate - 1
    BY <2>1, NextRemainder
  <2>3. QED
    BY <2>1, <2>2
<1>3. QED
  BY <1>1, <1>2 DEF LeastVersion

\* A pass leaves the least version where it is: when the step counts up, the passes
\* before it were all made since the rollout was asked for.
LEMMA PassLeastVersion ==
  ASSUME TypeOK, Backward, every <= accumulate
  PROVE  LeastVersion' = LeastVersion
<1> DEFINE m == micro % every
           a == micro % accumulate
<1>1. micro \in Nat /\ every \in Nat \ {0} /\ accumulate \in Nat \ {0} /\ step \in Nat
  BY Intervals, LeastVersionRange DEF TypeOK
<1>2. /\ m \in 0..every - 1
      /\ (micro + 1) % every = IF m + 1 = every THEN 0 ELSE m + 1
  BY <1>1, NextRemainder
<1>3. /\ a \in 0..accumulate - 1
      /\ (micro + 1) % accumulate = IF a + 1 = accumulate THEN 0 ELSE a + 1
  BY <1>1, NextRemainder
<1>4. /\ trainer = "backward" /\ trainer' # "backward" /\ micro' = micro + 1
      /\ UNCHANGED <<every, accumulate>>
      /\ IF (micro + 1) % accumulate = 0 THEN step' = step + 1 ELSE step' = step
  BY DEF Backward
<1>5. micro + 1 # 0
  BY <1>1
<1>6. Passes' = m + 1
  BY <1>1, <1>2, <1>4, <1>5 DEF Passes
<1>7. LeastVersion = IF a < m THEN step - 1 ELSE step
  BY <1>4 DEF LeastVersion, Passes
<1>8. LeastVersion' = IF (micro + 1) % accumulate < m + 1 THEN step' - 1 ELSE step'
  BY <1>4, <1>6 DEF LeastVersion
<1> HIDE DEF m, a
<1>9. CASE a + 1 = accumulate
  <2>1. (micro + 1) % accumulate = 0
    BY <1>3, <1>9
  <2>2. LeastVersion' = step
    BY <1>1, <1>2, <1>4, <1>8, <2>1
  <2>3. ~(a < m)
    BY <1>1, <1>2, <1>3, <1>9
  <2>4. QED
    BY <1>7, <2>2, <2>3
<1>10. CASE a + 1 # accumulate
  <2>1. (micro + 1) % accumulate = a + 1 /\ a + 1 # 0
    BY <1>3, <1>10
  <2>2. step' = step
    BY <1>4, <2>1
  <2>3. a + 1 < m + 1 <=> a < m
    BY <1>2, <1>3
  <2>4. QED
    BY <1>7, <1>8, <2>1, <2>2, <2>3
<1>11. QED
  BY <1>9, <1>10

-----------------------------------------------------------------------------
(* Every step keeps the rounds in step.                                    *)

\* on_train_begin, without evaluation first.
LEMMA TrainBeginStep ==
  ASSUME IInv, ~eval_on_start, TrainBegin
  PROVE  Sound'
<1>1. /\ TypeOK /\ trainer = "begin" /\ tasks = <<>> /\ results = [queue \in Modes |-> <<>>]
      /\ ~eval_flag /\ ~should_evaluate /\ micro = 0 /\ step = 0
  BY DEF IInv, Sound, Phases, Guarded, TrainBegin, TypeOK
<1>2. /\ Prefetch("train") /\ trainer' = "train" /\ tasks' = tasks
      /\ UNCHANGED <<every, accumulate, micro, step, should_evaluate, eval_flag, used>>
  BY DEF TrainBegin, loop
<1>3. CurrentQueue = "train" /\ "train" \in Modes /\ "eval" \in Modes /\ Other("train") = "eval"
  BY <1>1 DEF CurrentQueue, Modes, Other
<1>4. Has("train", 0) /\ Has("eval", 0)
  BY <1>1, <1>3 DEF Has
<1>5. /\ Owes("train", 1)' /\ loaded' = step /\ Has("eval", 0)'
      /\ results' = [results EXCEPT !["train"] = <<Rollout("train", step)>>]
  BY <1>1, <1>2, <1>3, <1>4, PrefetchOwes
<1>6. Phases'
  BY <1>1, <1>2, <1>5 DEF Phases, Training, LeftBehind
<1>7. DOMAIN tasks' = {} /\ WeightsStill'
  BY <1>1, <1>2 DEF WeightsStill
<1>8. Fresh'
  <2>1. results'["train"] = <<Rollout("train", step)>>
    BY <1>1, <1>3, <1>5
  <2>2. DOMAIN <<Rollout("train", step)>> = {1} /\ <<Rollout("train", step)>>[1] = Rollout("train", step)
    OBVIOUS
  <2>3. LeastVersion' = step
    <3>1. Passes' = 0 /\ ~(0 % accumulate < 0)
      BY <1>1, <1>2, Intervals DEF Passes
    <3>2. QED
      BY <1>1, <1>2, <3>1 DEF LeastVersion
  <2>4. QED
    BY <1>1, <1>2, <1>7, <2>1, <2>2, <2>3 DEF Fresh, Rollout
<1>9. OneRoundBehind' /\ TrainingLag'
  BY <1>2 DEF IInv, Sound, OneRoundBehind, TrainingLag
<1>10. QED
  BY <1>6, <1>7, <1>8, <1>9 DEF Sound

\* A training step begins.
LEMMA TrainingStepStep ==
  ASSUME IInv, ~eval_on_start, TrainingStep
  PROVE  Sound'
<1>1. /\ TypeOK /\ Phases /\ WeightsStill /\ Fresh /\ OneRoundBehind /\ TrainingLag
      /\ trainer = "train" /\ UNCHANGED <<every, accumulate, micro, step, should_evaluate, eval_flag>>
      /\ trainer' \in {"generate", "backward"} /\ UNCHANGED <<loaded, round, tasks, results, used>>
      /\ (eval_flag => results["eval"] # <<>>)
  BY DEF IInv, Sound, TrainingStep, loop, rollouts
<1>2. Training
  <2>1. CASE eval_flag /\ Has("train", 1) /\ Owes("eval", 1)
    <3>1. tasks = <<>> /\ Has("eval", 1)
      BY <1>1, <2>1, OwesArrived DEF Modes
    <3>2. Owes("train", 1)
      BY <1>1, <2>1, <3>1, HasOwes DEF Modes
    <3>3. QED
      BY <2>1, <3>1, <3>2 DEF Training, LeftBehind
  <2>2. QED
    BY <1>1, <2>1 DEF Phases
<1>3. Training'
  BY <1>1, <1>2 DEF Training, LeftBehind, Owes, Has
<1>4. Phases'
  BY <1>1, <1>3 DEF Phases
<1>5. LeastVersion' = LeastVersion
  BY <1>1, BufferedLeastVersion
<1>6. Fresh'
  BY <1>1, <1>5 DEF Fresh
<1>7. WeightsStill' /\ OneRoundBehind' /\ TrainingLag'
  BY <1>1 DEF WeightsStill, OneRoundBehind, TrainingLag
<1>8. QED
  BY <1>4, <1>6, <1>7 DEF Sound

\* The trainer asks for the next rollout.
LEMMA GenerateStep ==
  ASSUME IInv, ~eval_on_start, Generate
  PROVE  Sound'
<1>1. /\ TypeOK /\ Phases /\ WeightsStill /\ Fresh /\ OneRoundBehind /\ TrainingLag
      /\ trainer = "generate" /\ trainer' = "get" /\ Submit("train")
      /\ UNCHANGED <<every, accumulate, micro, step, should_evaluate, eval_flag>>
  BY DEF IInv, Sound, Generate, loop
<1>2. CurrentQueue = "train" /\ "train" \in Modes /\ Other("train") = "eval"
  BY <1>1 DEF Phases, CurrentQueue, Modes, Other
<1>3. Owes("train", 1) /\ Has("eval", LeftBehind)
  BY <1>1 DEF Phases, Training
<1>4. /\ Owes("train", 2)' /\ WeightsStill' /\ loaded' = step
      /\ Has("eval", LeftBehind)' /\ UNCHANGED <<results, used>>
  <2>1. \A n : Has("eval", n) => Has("eval", n)'
    BY <1>1, <1>2, <1>3, SubmitOwes
  <2>2. Has("eval", LeftBehind)'
    BY <1>1, <1>3, <2>1 DEF LeftBehind, Has
  <2>3. QED
    BY <1>1, <1>2, <1>3, <2>2, SubmitOwes
<1>5. Phases'
  BY <1>1, <1>4 DEF Phases
<1>6. Fresh'
  <2>1. LeastVersion' = LeastVersion /\ step >= LeastVersion
    BY <1>1, SameLeastVersion, LeastVersionRange DEF TypeOK
  <2>2. Len(results'["train"]) # 2
    <3>1. results["train"] \in Seq(Rollouts) /\ tasks \in Seq(Task)
      BY <1>1, <1>2 DEF TypeOK, Task
    <3>2. PICK k \in Nat : k = Len(results["train"])
      BY <3>1, Lengths
    <3>3. PICK l \in Nat : l = Len(tasks)
      BY <3>1, Lengths
    <3>4. k + l = 1
      BY <1>3, <3>2, <3>3, Owed
    <3>5. k # 2
      BY <3>4
    <3>6. QED
      BY <1>4, <3>2, <3>5
  <2>3. QED
    BY <1>1, <1>4, <2>1, <2>2 DEF Fresh
<1>7. OneRoundBehind' /\ TrainingLag'
  BY <1>1, <1>4 DEF OneRoundBehind, TrainingLag
<1>8. QED
  BY <1>4, <1>5, <1>6, <1>7 DEF Sound

\* The trainer takes the rollout asked for before.
LEMMA GetStep ==
  ASSUME IInv, ~eval_on_start, Get
  PROVE  Sound'
<1> DEFINE s == results["train"]
<1>1. /\ TypeOK /\ Phases /\ WeightsStill /\ Fresh /\ OneRoundBehind /\ TrainingLag
      /\ trainer = "get" /\ trainer' = "backward" /\ Consume("train") /\ micro % every = 0
      /\ UNCHANGED <<every, accumulate, micro, step, should_evaluate, eval_flag>>
  BY DEF IInv, Sound, Get, loop, Guarded
<1>2. CurrentQueue = "train" /\ "train" \in Modes /\ Other("train") = "eval"
  BY <1>1 DEF Phases, CurrentQueue, Modes, Other
<1>3. Owes("train", 2) /\ Has("eval", LeftBehind)
  BY <1>1 DEF Phases
<1>4. /\ Owes("train", 1)'
      /\ (\A n : Has("eval", n) => Has("eval", n)')
      /\ s \in Seq(Rollouts) /\ s # <<>>
      /\ results' = [results EXCEPT !["train"] = Tail(s)]
      /\ UNCHANGED <<loaded, round, tasks>>
      /\ used' = [by |-> "train", round |-> round["train"], step |-> step, rollout |-> s[1]]
      /\ used'.rollout.data = "train" /\ used'.rollout.round = round["train"] - 2
  BY <1>1, <1>2, <1>3, ConsumeOwes
<1>5. Phases'
  <2>1. Has("eval", LeftBehind)'
    BY <1>1, <1>3, <1>4 DEF LeftBehind, Has
  <2>2. QED
    BY <1>1, <1>4, <2>1 DEF Phases, Training
<1>6. WeightsStill'
  BY <1>1, <1>4 DEF WeightsStill
<1>7. /\ 1 \in DOMAIN s /\ Tail(s) \in Seq(Rollouts)
      /\ (\A i \in DOMAIN Tail(s) : i \in Nat /\ i + 1 \in DOMAIN s /\ Tail(s)[i] = s[i + 1])
  BY <1>4, TakeFirst
<1>8. OneRoundBehind'
  BY <1>4 DEF OneRoundBehind
<1>9. TrainingLag'
  <2>1. used'.step = step /\ used'.rollout = s[1]
    BY <1>4
  <2>2. SUFFICES ASSUME every <= accumulate PROVE s[1].version >= step - 1
    BY <1>1, <2>1 DEF TrainingLag
  <2>3. s[1].version >= LeastVersion
    BY <1>1, <1>7, <2>2 DEF Fresh
  <2>4. s[1].version \in Int /\ step \in Int
    <3>1. s[1] \in Rollouts
      BY <1>4, TakeFirst
    <3>2. QED
      BY <1>1, <3>1 DEF Rollouts, TypeOK
  <2>5. LeastVersion \in Int /\ LeastVersion >= step - 1
    BY <1>1, LeastVersionRange
  <2>6. QED
    BY <2>3, <2>4, <2>5
<1>10. Fresh'
  <2>1. LeastVersion' = step
    BY <1>1, NewLeastVersion
  <2>2. SUFFICES ASSUME every <= accumulate
                 PROVE  /\ \A i \in DOMAIN Tail(s) : Tail(s)[i].version >= step
                        /\ loaded >= step
    <3>1. results'["train"] = Tail(s)
      BY <1>1, <1>2, <1>4 DEF TypeOK
    <3>2. QED
      BY <1>1, <1>4, <2>1, <2>2, <3>1 DEF Fresh
  <2>3. loaded = step /\ (Len(s) = 2 => s[2].version = step) /\ step \in Nat
    BY <1>1, <2>2, LeastVersionRange DEF Fresh
  <2>4. ASSUME NEW i \in DOMAIN Tail(s)
        PROVE  i = 1 /\ Len(s) = 2
    <3>1. tasks \in Seq(Task)
      BY <1>1 DEF TypeOK, Task
    <3>2. PICK k \in Nat : k = Len(s) /\ DOMAIN s = 1..k
      BY <1>4, Lengths
    <3>3. PICK l \in Nat : l = Len(tasks)
      BY <3>1, Lengths
    <3>4. k + l = 2
      BY <1>3, <3>2, <3>3, Owed
    <3>5. i \in Nat /\ i + 1 \in 1..k
      BY <1>7, <3>2
    <3>6. i >= 1
      <4>1. DOMAIN Tail(s) = 1..Len(Tail(s)) /\ Len(Tail(s)) \in Nat
        BY <1>7, Lengths
      <4>2. QED
        BY <4>1
    <3>7. i = 1 /\ k = 2
      BY <3>4, <3>5, <3>6
    <3>8. QED
      BY <3>2, <3>7
  <2>5. ASSUME NEW i \in DOMAIN Tail(s)
        PROVE  Tail(s)[i].version >= step
    <3>1. Tail(s)[i] = s[2]
      BY <1>7, <2>4
    <3>2. s[2].version = step
      BY <2>3, <2>4
    <3>3. step >= step
      BY <2>3
    <3>4. QED
      BY <3>1, <3>2, <3>3
  <2>6. loaded >= step
    BY <2>3
  <2>7. QED
    BY <2>5, <2>6
<1>11. QED
  BY <1>5, <1>6, <1>8, <1>9, <1>10 DEF Sound

\* Forward and backward.
LEMMA BackwardStep ==
  ASSUME IInv, ~eval_on_start, Backward
  PROVE  Sound'
<1>1. /\ TypeOK /\ Phases /\ WeightsStill /\ Fresh /\ OneRoundBehind /\ TrainingLag
      /\ trainer = "backward" /\ trainer' \in {"step end", "train"}
      /\ UNCHANGED <<every, accumulate, should_evaluate, eval_flag, loaded, round, tasks, results, used>>
  BY DEF IInv, Sound, Backward, rollouts
<1>2. Training'
  BY <1>1 DEF Phases, Training, Owes, Has, LeftBehind
<1>3. Phases'
  BY <1>1, <1>2 DEF Phases
<1>4. Fresh'
  <2>1. every <= accumulate => LeastVersion' = LeastVersion
    BY <1>1, PassLeastVersion
  <2>2. QED
    BY <1>1, <2>1 DEF Fresh
<1>5. WeightsStill' /\ OneRoundBehind' /\ TrainingLag'
  BY <1>1 DEF WeightsStill, OneRoundBehind, TrainingLag
<1>6. QED
  BY <1>3, <1>4, <1>5 DEF Sound

\* An optimizer step.
LEMMA StepEndStep ==
  ASSUME IInv, ~eval_on_start, StepEnd \/ TrainEnd
  PROVE  Sound'
<1>1. /\ TypeOK /\ Phases /\ WeightsStill /\ Fresh /\ OneRoundBehind /\ TrainingLag
      /\ UNCHANGED <<every, accumulate, micro, step, eval_flag, loaded, round, tasks, results, used>>
      /\ \/ trainer = "step end" /\ trainer' = IF should_evaluate' THEN "evaluate" ELSE "train"
         \/ trainer = "train" /\ trainer' = "end" /\ UNCHANGED should_evaluate
  BY DEF IInv, Sound, StepEnd, TrainEnd, loop, rollouts
<1>2. /\ (Training => Training')
      /\ (eval_flag /\ Has("train", 1) /\ Owes("eval", 1) => (eval_flag /\ Has("train", 1) /\ Owes("eval", 1))')
  BY <1>1 DEF Training, Owes, Has, LeftBehind
<1>3. Phases'
  <2>1. should_evaluate' <=> trainer' = "evaluate"
    <3>1. CASE trainer = "step end"
      BY <1>1, <3>1
    <3>2. CASE trainer = "train"
      BY <1>1, <3>2 DEF Phases
    <3>3. QED
      BY <1>1, <3>1, <3>2
  <2>2. QED
    BY <1>1, <1>2, <2>1 DEF Phases
<1>4. LeastVersion' = LeastVersion
  BY <1>1, SameLeastVersion
<1>5. Fresh'
  BY <1>1, <1>4 DEF Fresh
<1>6. WeightsStill' /\ OneRoundBehind' /\ TrainingLag'
  BY <1>1 DEF WeightsStill, OneRoundBehind, TrainingLag
<1>7. QED
  BY <1>3, <1>5, <1>6 DEF Sound

\* An evaluation begins.
LEMMA BeginEvaluationStep ==
  ASSUME IInv, ~eval_on_start, BeginEvaluation
  PROVE  Sound'
<1>1. /\ TypeOK /\ Phases /\ WeightsStill /\ Fresh /\ OneRoundBehind /\ TrainingLag
      /\ trainer = "evaluate" /\ trainer' = "eval batch" /\ results["train"] # <<>>
      /\ UNCHANGED <<every, accumulate, micro, step, should_evaluate, eval_flag, tasks, used>>
  BY DEF IInv, Sound, BeginEvaluation
<1>2. /\ CurrentQueue = "eval" /\ "eval" \in Modes /\ "train" \in Modes /\ Other("eval") = "train"
      /\ should_evaluate
  BY <1>1 DEF Phases, CurrentQueue, Modes, Other
<1>3. Owes("train", 1) /\ Has("eval", LeftBehind)
  BY <1>1 DEF Phases, Training
<1>4. tasks = <<>> /\ Has("train", 1)
  BY <1>1, <1>2, <1>3, OwesArrived
<1>5. Owes("eval", 1)' /\ Has("train", 1)' /\ results'["train"] = results["train"]
  <2>1. CASE results["eval"] = <<>>
    <3>1. Len(<<>>) = 0 /\ DOMAIN <<>> = {}
      OBVIOUS
    <3>2. Has("eval", 0)
      BY <2>1, <3>1 DEF Has
    <3>3. Prefetch("eval")
      BY <1>2, <2>1 DEF BeginEvaluation
    <3>4. /\ Owes("eval", 1)'
          /\ (\A n : Has("train", n) => Has("train", n)')
          /\ results' = [results EXCEPT !["eval"] = <<Rollout("eval", step)>>]
      BY <1>1, <1>2, <1>4, <3>2, <3>3, PrefetchOwes
    <3>5. QED
      BY <1>1, <1>2, <1>4, <3>4 DEF TypeOK
  <2>2. CASE results["eval"] # <<>>
    <3>1. UNCHANGED <<loaded, round, results>>
      BY <1>2, <2>2 DEF BeginEvaluation
    <3>2. Has("eval", 1)
      <4>1. results["eval"] \in Seq(Rollouts)
        BY <1>1, <1>2 DEF TypeOK
      <4>2. Len(results["eval"]) # 0
        BY <2>2, <4>1, Lengths
      <4>3. QED
        BY <1>3, <4>2 DEF Has, LeftBehind
    <3>3. Owes("eval", 1)
      BY <1>1, <1>2, <1>4, <3>2, HasOwes
    <3>4. QED
      BY <1>1, <1>4, <3>1, <3>3 DEF Owes, Has
  <2>3. QED
    BY <2>1, <2>2
<1>6. Phases'
  BY <1>1, <1>2, <1>5 DEF Phases
<1>7. DOMAIN tasks' = {}
  <2>1. tasks' = <<>>
    BY <1>1, <1>4
  <2>2. DOMAIN <<>> = {}
    OBVIOUS
  <2>3. QED
    BY <2>1, <2>2
<1>8. Fresh'
  <2>1. LeastVersion' = LeastVersion
    BY <1>1, SameLeastVersion
  <2>2. QED
    BY <1>1, <1>5, <1>7, <2>1 DEF Fresh
<1>9. WeightsStill' /\ OneRoundBehind' /\ TrainingLag'
  BY <1>1, <1>7 DEF WeightsStill, OneRoundBehind, TrainingLag
<1>10. QED
  BY <1>6, <1>8, <1>9 DEF Sound

\* An evaluation batch is asked for.
LEMMA EvalGenerateStep ==
  ASSUME IInv, ~eval_on_start, EvalGenerate
  PROVE  Sound'
<1>1. /\ TypeOK /\ Phases /\ WeightsStill /\ Fresh /\ OneRoundBehind /\ TrainingLag
      /\ trainer = "eval batch" /\ trainer' = "eval get" /\ Submit("eval")
      /\ UNCHANGED <<every, accumulate, micro, step, should_evaluate, eval_flag>>
  BY DEF IInv, Sound, EvalGenerate, loop
<1>2. /\ CurrentQueue = "eval" /\ "eval" \in Modes /\ "train" \in Modes /\ Other("eval") = "train"
      /\ should_evaluate
  BY <1>1 DEF Phases, CurrentQueue, Modes, Other
<1>3. Owes("eval", 1) /\ Has("train", 1)
  BY <1>1 DEF Phases
<1>4. /\ Owes("eval", 2)' /\ WeightsStill' /\ Has("train", 1)' /\ UNCHANGED <<results, used>>
      /\ \A i \in DOMAIN tasks' : tasks'[i].queue = "eval"
  BY <1>1, <1>2, <1>3, SubmitOwes
<1>5. Phases'
  BY <1>1, <1>2, <1>4 DEF Phases
<1>6. Fresh'
  <2>1. LeastVersion' = LeastVersion
    BY <1>1, SameLeastVersion
  <2>2. QED
    BY <1>1, <1>4, <2>1 DEF Fresh
<1>7. OneRoundBehind' /\ TrainingLag'
  BY <1>1, <1>4 DEF OneRoundBehind, TrainingLag
<1>8. QED
  BY <1>4, <1>5, <1>6, <1>7 DEF Sound

\* An evaluation batch is taken.
LEMMA EvalGetStep ==
  ASSUME IInv, ~eval_on_start, EvalGet
  PROVE  Sound'
<1>1. /\ TypeOK /\ Phases /\ WeightsStill /\ Fresh /\ OneRoundBehind /\ TrainingLag
      /\ trainer = "eval get" /\ trainer' = "eval batch" /\ Consume("eval")
      /\ UNCHANGED <<every, accumulate, micro, step, should_evaluate, eval_flag>>
  BY DEF IInv, Sound, EvalGet
<1>2. /\ CurrentQueue = "eval" /\ "eval" \in Modes /\ "train" \in Modes /\ Other("eval") = "train"
      /\ should_evaluate
  BY <1>1 DEF Phases, CurrentQueue, Modes, Other
<1>3. Owes("eval", 2) /\ Has("train", 1)
  BY <1>1 DEF Phases
<1>4. /\ Owes("eval", 1)'
      /\ (\A n : Has("train", n) => Has("train", n)')
      /\ results' = [results EXCEPT !["eval"] = Tail(results["eval"])]
      /\ UNCHANGED <<loaded, round, tasks>>
      /\ used' = [by |-> "eval", round |-> round["eval"], step |-> step, rollout |-> results["eval"][1]]
      /\ used'.rollout.data = "eval" /\ used'.rollout.round = round["eval"] - 2
  BY <1>1, <1>2, <1>3, ConsumeOwes
<1>5. Phases'
  BY <1>1, <1>2, <1>3, <1>4 DEF Phases
<1>6. Fresh'
  <2>1. LeastVersion' = LeastVersion
    BY <1>1, SameLeastVersion
  <2>2. results'["train"] = results["train"]
    BY <1>1, <1>2, <1>4 DEF TypeOK
  <2>3. QED
    BY <1>1, <1>4, <2>1, <2>2 DEF Fresh
<1>7. WeightsStill'
  BY <1>1, <1>4 DEF WeightsStill
<1>8. OneRoundBehind' /\ TrainingLag'
  BY <1>4 DEF OneRoundBehind, TrainingLag
<1>9. QED
  BY <1>5, <1>6, <1>7, <1>8 DEF Sound

\* An evaluation ends.
LEMMA EndEvaluationStep ==
  ASSUME IInv, ~eval_on_start, EndEvaluation
  PROVE  Sound'
<1>1. /\ TypeOK /\ Phases /\ WeightsStill /\ Fresh /\ OneRoundBehind /\ TrainingLag
      /\ trainer = "eval batch" /\ trainer' = "train" /\ eval_flag' = TRUE /\ should_evaluate' = FALSE
      /\ UNCHANGED <<every, accumulate, micro, step, loaded, round, tasks, results, used>>
  BY DEF IInv, Sound, EndEvaluation, rollouts
<1>2. Has("train", 1)' /\ Owes("eval", 1)'
  BY <1>1 DEF Phases, Has, Owes
<1>3. Phases'
  BY <1>1, <1>2 DEF Phases
<1>4. LeastVersion' = LeastVersion
  BY <1>1, SameLeastVersion
<1>5. Fresh'
  BY <1>1, <1>4 DEF Fresh
<1>6. WeightsStill' /\ OneRoundBehind' /\ TrainingLag'
  BY <1>1 DEF WeightsStill, OneRoundBehind, TrainingLag
<1>7. QED
  BY <1>3, <1>5, <1>6 DEF Sound

\* The executor delivers a rollout.
LEMMA RolloutDoneStep ==
  ASSUME IInv, ~eval_on_start, RolloutDone
  PROVE  Sound'
<1>1. /\ TypeOK /\ Guarded /\ Phases /\ WeightsStill /\ Fresh /\ OneRoundBehind /\ TrainingLag
      /\ tasks # <<>> /\ tasks' = Tail(tasks)
      /\ UNCHANGED <<trainer, every, accumulate, micro, step, should_evaluate, eval_flag, loaded, round, used>>
  BY DEF IInv, Sound, RolloutDone, loop
<1>2. trainer # "begin" /\ loaded >= 0
  BY <1>1 DEF Guarded
<1>3. /\ "train" \in Modes /\ "eval" \in Modes /\ Other("train") = "eval" /\ Other("eval") = "train"
      /\ 1 \in Nat /\ 2 \in Nat
  BY DEF Modes, Other
<1>4. ASSUME NEW mode \in Modes, NEW n \in Nat, Owes(mode, n)
      PROVE  Owes(mode, n)' /\ \A k : Has(Other(mode), k) => Has(Other(mode), k)'
  BY <1>1, <1>2, <1>4, DoneOwes
<1>5. Has("eval", LeftBehind) => (Has("eval", LeftBehind)' <=> \E k : k = LeftBehind /\ Has("eval", k)')
  BY <1>1 DEF LeftBehind, Has
<1>6. ASSUME NEW n \in Nat, Owes("train", n), Has("eval", LeftBehind)
      PROVE  Owes("train", n)' /\ Has("eval", LeftBehind)'
  BY <1>3, <1>4, <1>5, <1>6
<1>7. ASSUME NEW n \in Nat, Owes("eval", n), Has("train", 1)
      PROVE  Owes("eval", n)' /\ Has("train", 1)'
  BY <1>3, <1>4, <1>7
<1>8. Training => Training'
  BY <1>3, <1>6 DEF Training
<1>9. Phases'
  BY <1>1, <1>2, <1>3, <1>6, <1>7, <1>8 DEF Phases
<1>10. tasks \in Seq(Task) /\ tasks # <<>>
  BY <1>1 DEF TypeOK, Task
<1>11. \A i \in DOMAIN tasks' : i \in Nat /\ i + 1 \in DOMAIN tasks /\ tasks'[i] = tasks[i + 1]
  BY <1>1, <1>10, TakeFirst
<1>12. WeightsStill'
  BY <1>1, <1>11 DEF WeightsStill
<1>13. 1 \in DOMAIN tasks /\ tasks[1] \in Task
  BY <1>10, TakeFirst
<1>14. Fresh'
  <2>1. LeastVersion' = LeastVersion
    BY <1>1, SameLeastVersion
  <2>2. SUFFICES ASSUME every <= accumulate PROVE Fresh'
    BY <1>1 DEF Fresh
  <2>3. /\ \A i \in DOMAIN results["train"] : results["train"][i].version >= LeastVersion
        /\ \A i \in DOMAIN tasks : tasks[i].queue = "train" => loaded >= LeastVersion
        /\ trainer = "get" =>
             loaded = step /\ (Len(results["train"]) = 2 => results["train"][2].version = step)
    BY <1>1, <2>2 DEF Fresh
  <2>4. \A i \in DOMAIN tasks' : tasks'[i].queue = "train" => loaded >= LeastVersion
    BY <1>11, <2>3
  <2>5. CASE tasks[1].queue = "eval"
    <3>1. results'["train"] = results["train"]
      BY <1>1, <1>3, <2>5 DEF RolloutDone, TypeOK
    <3>2. QED
      BY <1>1, <2>1, <2>3, <2>4, <3>1 DEF Fresh
  <2>6. CASE tasks[1].queue = "train"
    <3> DEFINE s == results["train"]
               x == [tasks[1].rollout EXCEPT !.version = loaded]
    <3>1. results'["train"] = Append(s, x) /\ s \in Seq(Rollouts)
      BY <1>1, <1>3, <2>6 DEF RolloutDone, TypeOK
    <3>2. x.version = loaded /\ x \in Rollouts
      <4>1. tasks[1].rollout \in Rollouts
        BY <1>13 DEF Task
      <4>2. loaded \in 0..MaxSteps
        <5>1. loaded \in -1..MaxSteps
          BY <1>1 DEF TypeOK
        <5>2. QED
          BY <1>2, <5>1, Limits
      <4>3. QED
        BY <4>1, <4>2 DEF Rollouts
    <3> HIDE DEF x
    <3>3. /\ DOMAIN results'["train"] = DOMAIN s \cup {Len(s) + 1}
          /\ (\A i \in DOMAIN s : results'["train"][i] = s[i])
          /\ results'["train"][Len(s) + 1] = x
      BY <3>1, <3>2, PutLast
    <3>4. loaded >= LeastVersion
      BY <1>13, <2>3, <2>6
    <3>5. \A i \in DOMAIN results'["train"] : results'["train"][i].version >= LeastVersion
      BY <2>3, <3>2, <3>3, <3>4
    <3>6. Len(results'["train"]) = Len(s) + 1 /\ Len(s) \in Nat
      BY <3>1, <3>2, PutLast
    <3>7. trainer = "get" => loaded = step /\ (Len(results'["train"]) = 2 => results'["train"][2].version = step)
      <4>1. SUFFICES ASSUME trainer = "get", Len(results'["train"]) = 2
                     PROVE  results'["train"][2].version = step
        BY <2>3
      <4>2. Len(s) + 1 = 2
        BY <3>6, <4>1
      <4>3. QED
        BY <2>3, <3>2, <3>3, <4>1, <4>2
    <3>8. QED
      BY <1>1, <2>1, <2>4, <3>5, <3>7 DEF Fresh
  <2>7. QED
    BY <1>13, <2>5, <2>6 DEF Task, Modes
<1>15. OneRoundBehind' /\ TrainingLag'
  BY <1>1 DEF OneRoundBehind, TrainingLag
<1>16. QED
  BY <1>9, <1>12, <1>14, <1>15 DEF Sound

-----------------------------------------------------------------------------
(* The invariant, and what follows from it.                                *)

\* The invariant holds at first.
LEMMA InitInv == Init => IInv
<1> SUFFICES ASSUME Init PROVE IInv
  OBVIOUS
<1>1. TypeOK
  <2>1. -1 \in -1..MaxSteps /\ 0 \in 0..MaxSteps /\ 0 \in 0..EvalBatches
    BY Limits
  <2>2. <<>> \in Seq([rollout : Rollouts, queue : Modes]) /\ <<>> \in Seq(Rollouts)
    OBVIOUS
  <2>3. QED
    BY <2>1, <2>2 DEF Init, TypeOK
<1>2. Guarded
  BY DEF Init, Guarded
<1>3. Phases /\ OneRoundBehind /\ TrainingLag
  BY DEF Init, Phases, OneRoundBehind, TrainingLag
<1>4. DOMAIN tasks = {} /\ DOMAIN results["train"] = {}
  BY DEF Init, Modes
<1>5. WeightsStill /\ Fresh
  BY <1>4 DEF Init, WeightsStill, Fresh
<1>6. QED
  BY <1>1, <1>2, <1>3, <1>5 DEF IInv, Sound

\* Every step keeps it.
LEMMA StepInv == IInv /\ [Next]_vars => IInv'
<1> SUFFICES ASSUME IInv, [Next]_vars PROVE IInv'
  OBVIOUS
<1>1. TypeOK' /\ Guarded'
  BY TypesStep DEF IInv
<1>2. UNCHANGED eval_on_start
  BY DEF Next, TrainerStep, TrainBegin, TrainingStep, Generate, Get, Backward, StepEnd, TrainEnd,
     BeginEvaluation, EvalGenerate, EvalGet, EndEvaluation, RolloutDone, loop, vars
<1>3. ASSUME ~eval_on_start
      PROVE  Sound'
  <2>1. CASE UNCHANGED vars
    <3>1. Sound
      BY <1>3 DEF IInv
    <3>2. Phases'
      BY <2>1, <3>1 DEF vars, Sound, Phases, Training, Owes, Has, LeftBehind
    <3>3. Fresh'
      BY <2>1, <3>1 DEF vars, Sound, Fresh, LeastVersion, Passes
    <3>4. WeightsStill' /\ OneRoundBehind' /\ TrainingLag'
      BY <2>1, <3>1 DEF vars, Sound, WeightsStill, OneRoundBehind, TrainingLag
    <3>5. QED
      BY <3>2, <3>3, <3>4 DEF Sound
  <2>2. QED
    BY <1>3, <2>1, TrainBeginStep, TrainingStepStep, GenerateStep, GetStep, BackwardStep, StepEndStep,
       BeginEvaluationStep, EvalGenerateStep, EvalGetStep, EndEvaluationStep, RolloutDoneStep
       DEF Next, TrainerStep
<1>4. QED
  BY <1>1, <1>2, <1>3 DEF IInv

\* What holds at each place of the trainer's loop holds always: which queues owe it a
\* rollout, and of which step, round and version of the weights.
THEOREM Invariance == Spec => []IInv
BY InitInv, StepInv, PTL DEF Spec

\* Every variable has its type.
THEOREM TypesHold == Spec => []TypeOK
<1>1. IInv => TypeOK
  BY DEF IInv
<1>2. QED
  BY <1>1, Invariance, PTL

\* The executor's tasks for a mode it works for, or does not.
LEMMA OwesOutstanding ==
  ASSUME TypeOK, NEW mode \in Modes, Owes(mode, 1), NEW n \in Nat, Has(Other(mode), n)
  PROVE  Outstanding(mode) = 1 /\ Outstanding(Other(mode)) = n
<1>1. tasks \in Seq(Task) /\ results[mode] \in Seq(Rollouts)
  BY DEF TypeOK, Task
<1>2. PICK k \in Nat : k = Len(results[mode])
  BY <1>1, Lengths
<1>3. PICK l \in Nat : l = Len(tasks) /\ DOMAIN tasks = 1..l
  BY <1>1, Lengths
<1>4. k + l = 1
  BY <1>2, <1>3, Owed
<1>5. \A i \in DOMAIN tasks : tasks[i].queue = mode
  BY Owed
<1>6. mode # Other(mode)
  BY DEF Other
<1>7. {i \in DOMAIN tasks : tasks[i].queue = mode} = 1..l
  BY <1>3, <1>5
<1>8. {i \in DOMAIN tasks : tasks[i].queue = Other(mode)} = {}
  BY <1>5, <1>6
<1>9. Cardinality({}) = 0 /\ Cardinality(1..l) = l
  <2>1. Cardinality(1..l) = IF 1 > l THEN 0 ELSE l - 1 + 1
    BY FS_Interval
  <2>2. Cardinality(1..l) = l
    BY <2>1
  <2>3. QED
    BY <2>2, FS_EmptySet
<1>10. Outstanding(mode) = 1
  <2>1. Outstanding(mode) = k + l
    BY <1>2, <1>7, <1>9 DEF Outstanding
  <2>2. QED
    BY <1>4, <2>1
<1>11. Outstanding(Other(mode)) = n
  <2>1. Outstanding(Other(mode)) = n + 0
    BY <1>8, <1>9 DEF Outstanding, Has
  <2>2. QED
    BY <2>1
<1>12. QED
  BY <1>10, <1>11

\* Whatever the pace of the executor, the weights under a rollout stand still, one
\* rollout per queue is outstanding between two steps, and a round trains on what the
\* round before it asked for.
THEOREM RoundsStayInStep == Spec => []RoundsInStep
<1>1. IInv => RoundsInStep
  <2> SUFFICES ASSUME IInv, ~eval_on_start
               PROVE  WeightsStill /\ OneOutstanding /\ OneRoundBehind /\ TrainingLag
    BY DEF RoundsInStep
  <2>1. TypeOK /\ Phases /\ WeightsStill /\ OneRoundBehind /\ TrainingLag
    BY DEF IInv, Sound
  <2>2. /\ "train" \in Modes /\ "eval" \in Modes /\ Other("train") = "eval" /\ Other("eval") = "train"
        /\ LeftBehind \in Nat /\ 1 \in Nat
    BY DEF Modes, Other, LeftBehind
  <2>3. Training => Outstanding("train") = 1 /\ Outstanding("eval") = LeftBehind
    BY <2>1, <2>2, OwesOutstanding DEF Training
  <2>4. Has("train", 1) /\ Owes("eval", 1) => Outstanding("train") = 1 /\ Outstanding("eval") = 1
    BY <2>1, <2>2, OwesOutstanding
  <2>5. OneOutstanding
    BY <2>1, <2>3, <2>4 DEF Phases, OneOutstanding, LeftBehind
  <2>6. QED
    BY <2>1, <2>5
<1>2. QED
  BY <1>1, Invariance, PTL

-----------------------------------------------------------------------------
(* Generation batches: the inductive invariant.                            *)

\* What does not vary with the batch: where the trainer is, its counters, its options.
Scalars ==
  /\ job \in Jobs
  /\ phase \in {"fetch", "generate", "examine", "score", "train", "raised"}
  /\ taken \in 0..(job.total) /\ counter \in 0..taken /\ saved \in 0..taken
  /\ crashes \in 0..MaxCrashes /\ chunk \in 0..Chunk(job.total)
  /\ retries \in 0..(job.retries) /\ refilled \in BOOLEAN
  /\ phase \notin {"fetch", "raised"} => taken < job.total

\* The training steps since the batch in the buffer was generated.
Passed ==
  IF phase # "train" /\ counter % GenerationSteps = 0 THEN GenerationSteps
  ELSE counter % GenerationSteps
\* How often slice s was trained on in the first n of them.
Used(s, n) == (n + Slices - s) \div Slices

Turns ==
  /\ buffered = <<>> => counter = 0 /\ uses = <<>> /\ phase # "train"
  /\ phase \in {"generate", "examine", "score"} =>
       chunk = Chunk(taken) /\ counter % GenerationSteps = 0
  /\ buffered # <<>> =>
       /\ phase # "train" => counter > 0
       /\ uses = [s \in 1..Slices |-> Used(s, Passed)]
       /\ phase \in {"fetch", "train"} => chunk = Chunk(taken - Passed)

\* The jobs in which the samples of a prompt may lie in several groups, and the batches.
Spread == job.megatron /\ job.pp > 1 /\ job.dp > 1 /\ (job.tp * job.per) % job.g # 0
Mixed == Spread \/ (~job.megatron /\ refilled)

Block(i) == (i - 1) \div job.g
Whole(b) == Len(b) % job.g = 0
\* Samples in whole groups: a group was generated together, for one prompt.
Proper(b) ==
  /\ b \in Seq(Samples) /\ Whole(b)
  /\ \A i \in DOMAIN b : Encodes(b[i].prompt)
  /\ \A i, k \in DOMAIN b : Block(i) = Block(k) => b[i].round = b[k].round
Grouped(b) ==
  ~Mixed => \A i, k \in DOMAIN b : Block(i) = Block(k) => b[i].prompt = b[k].prompt
\* A sample is what was generated in a slot in a round: none is there twice.
Once(b) ==
  \A i, k \in DOMAIN b : b[i].round = b[k].round /\ b[i].slot = b[k].slot => i = k
\* Every group has variance.
Clean(b) ==
  \A i \in DOMAIN b : \E a, c \in DOMAIN b :
    Block(a) = Block(i) /\ Block(c) = Block(i) /\ b[a].reward # b[c].reward

\* What a round generated.
Generated(b, n) ==
  /\ Proper(b) /\ Grouped(b) /\ Len(b) = BatchSize(job)
  /\ \A i \in DOMAIN b : b[i].round = n /\ b[i].slot = i
\* What the rounds before n left.
Collected(b, n) ==
  /\ Proper(b) /\ Grouped(b) /\ Once(b) /\ Clean(b)
  /\ \A i \in DOMAIN b : b[i].round < n
\* What the dynamic sampling ends with.
Settled(b) ==
  /\ Proper(b) /\ Grouped(b) /\ Once(b) /\ Len(b) = BatchSize(job)
  /\ job.dynamic => Clean(b) \/ ((\A i \in DOMAIN b : b[i].round = 0) /\ Len(valid) < BatchSize(job))

Contents ==
  /\ Proper(batch) /\ Proper(origin) /\ Proper(valid)
  /\ Len(batch) \in {0, BatchSize(job)} /\ Len(valid) < 2 * BatchSize(job)
  /\ phase = "generate" => drawn \in [1..PromptCount(job) -> 0..(Prompts - 1)]
  /\ phase = "generate" => Len(valid) < BatchSize(job) /\ Collected(valid, retries)
  /\ phase = "generate" /\ retries > 0 => Generated(origin, 0)
  /\ phase = "examine" =>
       /\ Len(valid) < BatchSize(job) /\ Collected(valid, retries)
       /\ Generated(batch, retries) /\ Generated(origin, 0)
  /\ phase = "score" => Settled(batch)
  /\ phase \in {"fetch", "train"} /\ buffered # <<>> =>
       Settled(batch) /\ buffered = Buffered(batch)

-----------------------------------------------------------------------------
(* The sizes of a job.                                                     *)

\* The ranks of one data index.
GroupSize == IF job.megatron THEN job.tp * job.pp ELSE job.sp

\* What JobAssumption says of the job that runs.
LEMMA JobOptions ==
  ASSUME job \in Jobs
  PROVE  /\ job.tp \in Nat \ {0} /\ job.dp \in Nat \ {0} /\ job.pp \in Nat \ {0}
         /\ job.sp \in Nat \ {0} /\ job.per \in Nat \ {0} /\ job.g \in Nat \ {0}
         /\ job.spg \in Nat \ {0} /\ job.iters \in Nat \ {0} /\ job.gas \in Nat \ {0}
         /\ job.total \in Nat \ {0} /\ job.retries \in Nat
         /\ job.megatron \in BOOLEAN /\ job.delete \in BOOLEAN /\ job.dynamic \in BOOLEAN
         /\ Prompts \in Nat \ {0} /\ MaxCrashes \in Nat
         /\ BatchSize(job) % job.g = 0
         /\ job.megatron => /\ job.sp = 1 /\ job.iters = 1
                            /\ (job.tp * job.pp * job.per) % job.spg = 0
                            /\ PromptCount(job) % job.dp = 0
         /\ ~job.megatron => /\ job.tp = 1 /\ job.pp = 1
                             /\ job.dp % job.sp = 0 /\ job.per % job.spg = 0
<1>1. /\ {job.tp, job.dp, job.pp, job.sp, job.per, job.g, job.spg, job.iters, job.gas, job.total}
            \subseteq Nat \ {0}
      /\ {job.megatron, job.delete, job.dynamic} \subseteq BOOLEAN /\ job.retries \in Nat
      /\ Prompts \in Nat \ {0} /\ MaxCrashes \in Nat
      /\ BatchSize(job) % job.g = 0
      /\ IF job.megatron
         THEN /\ job.sp = 1 /\ job.iters = 1 /\ PromptCount(job) % job.dp = 0
              /\ (job.tp * job.pp * job.per) % job.spg = 0
         ELSE job.tp = 1 /\ job.pp = 1 /\ job.dp % job.sp = 0 /\ job.per % job.spg = 0
  BY JobAssumption
<1>2. QED
  BY <1>1

\* A generation lasts num_iterations uses of every slice, and the sampler repeats it as often.
LEMMA Schedule ==
  ASSUME job \in Jobs
  PROVE  /\ Slices \in Nat \ {0} /\ GenerationSteps \in Nat \ {0}
         /\ GenerationSteps = Slices * job.iters /\ RepeatCount = GenerationSteps
<1>1. /\ job.sp \in Nat \ {0} /\ job.spg \in Nat \ {0} /\ job.iters \in Nat \ {0}
      /\ job.megatron \in BOOLEAN /\ (job.megatron => job.sp = 1 /\ job.iters = 1)
  BY JobOptions
<1>2. Slices \in Nat \ {0} /\ GenerationSteps = Slices * job.iters
  BY <1>1 DEF Slices, GenerationSteps
<1>3. GenerationSteps \in Nat \ {0}
  BY <1>1, <1>2
<1>4. RepeatCount = GenerationSteps
  <2>1. CASE job.megatron
    BY <1>1, <2>1 DEF RepeatCount, GenerationSteps, Slices
  <2>2. CASE ~job.megatron
    BY <1>1, <2>2 DEF RepeatCount, GenerationSteps, Slices
  <2>3. QED
    BY <2>1, <2>2
<1>5. QED
  BY <1>2, <1>3, <1>4

\* The ranks are those of the data indices, as many of each.
LEMMA GroupsPositive ==
  ASSUME job \in Jobs
  PROVE  /\ Groups \in Nat \ {0} /\ GroupSize \in Nat \ {0}
         /\ World(job) \in Nat \ {0} /\ World(job) = Groups * GroupSize
<1>1. /\ job.tp \in Nat \ {0} /\ job.dp \in Nat \ {0} /\ job.pp \in Nat \ {0}
      /\ job.sp \in Nat \ {0} /\ job.megatron \in BOOLEAN
      /\ (~job.megatron => job.dp % job.sp = 0)
  BY JobOptions
<1>2. CASE job.megatron
  <2>1. Groups = job.dp /\ GroupSize = job.tp * job.pp /\ World(job) = job.tp * job.dp * job.pp
    BY <1>2 DEF Groups, GroupSize, World
  <2>2. job.tp * job.pp \in Nat \ {0} /\ job.tp * job.dp \in Nat \ {0}
    BY <1>1
  <2>3. job.tp * job.dp * job.pp = job.dp * (job.tp * job.pp)
    BY <1>1
  <2>4. job.dp * (job.tp * job.pp) \in Nat \ {0}
    BY <1>1, <2>2
  <2>5. QED
    BY <1>1, <2>1, <2>2, <2>3, <2>4
<1>3. CASE ~job.megatron
  <2>1. Groups = job.dp \div job.sp /\ GroupSize = job.sp /\ World(job) = job.dp
    BY <1>3 DEF Groups, GroupSize, World
  <2> DEFINE q == job.dp \div job.sp
  <2>2. q \in Nat /\ job.dp = job.sp * q
    <3>1. q \in Nat /\ job.dp = job.sp * q + (job.dp % job.sp)
      BY <1>1, Divided
    <3>2. job.dp % job.sp = 0
      BY <1>1, <1>3
    <3> HIDE DEF q
    <3>3. QED
      BY <1>1, <3>1, <3>2
  <2> HIDE DEF q
  <2>3. q # 0
    BY <1>1, <2>2
  <2>4. QED
    BY <1>1, <2>1, <2>2, <2>3 DEF q
<1>4. QED
  BY <1>1, <1>2, <1>3

\* The sampler's batches are numbered by generations.
LEMMA ChunkNumbers ==
  ASSUME job \in Jobs, NEW n \in Nat
  PROVE  Chunk(n) \in Nat /\ Chunk(n + GenerationSteps) = Chunk(n) + 1
<1>1. RepeatCount \in Nat \ {0} /\ RepeatCount = GenerationSteps
  BY Schedule
<1>2. QED
  BY <1>1, Divided, QuotientNext DEF Chunk

-----------------------------------------------------------------------------
(* The uses of the slices.                                                 *)

\* How often a slice was trained on, from the turns completed and the turn under way.
LEMMA UsedIs ==
  ASSUME job \in Jobs, NEW q \in Nat, NEW r \in 0..Slices, NEW s \in 1..Slices,
         NEW n, n = Slices * q + r
  PROVE  Used(s, n) = IF s <= r THEN q + 1 ELSE q
<1> DEFINE d == Slices
<1>1. d \in Nat \ {0}
  BY Schedule
<1>2. r \in 0..d /\ s \in 1..d /\ n = d * q + r
  OBVIOUS
<1> DEFINE x == n + d - s
<1>3. Used(s, n) = x \div d
  BY DEF Used
<1> HIDE DEF d
<1>4. CASE s <= r
  <2> DEFINE p == q + 1
             t == r - s
  <2>1. p \in Nat /\ t \in 0..(d - 1) /\ x = d * p + t
    BY <1>1, <1>2, <1>4
  <2> HIDE DEF p, t, x
  <2>2. x \div d = p
    BY <1>1, <2>1, Quotient
  <2>3. QED
    BY <1>3, <1>4, <2>2 DEF p
<1>5. CASE ~(s <= r)
  <2> DEFINE t == r + d - s
  <2>1. t \in 0..(d - 1) /\ x = d * q + t
    BY <1>1, <1>2, <1>5
  <2> HIDE DEF t, x
  <2>2. x \div d = q
    BY <1>1, <2>1, Quotient
  <2>3. QED
    BY <1>3, <1>5, <2>2
<1>6. QED
  BY <1>4, <1>5

\* A step trains on the slice whose turn it is.
LEMMA UsedNext ==
  ASSUME job \in Jobs, NEW n \in Nat, NEW s \in 1..Slices
  PROVE  Used(s, n + 1) = IF s = (n % Slices) + 1 THEN Used(s, n) + 1 ELSE Used(s, n)
<1>1. Slices \in Nat \ {0}
  BY Schedule
<1> DEFINE q == n \div Slices
           r == n % Slices
           u == r + 1
           m == n + 1
<1>2. q \in Nat /\ r \in 0..(Slices - 1) /\ n = Slices * q + r
  BY <1>1, Divided
<1> HIDE DEF q, r
<1>3. r \in 0..Slices /\ u \in 0..Slices /\ m = Slices * q + u
  BY <1>1, <1>2
<1> HIDE DEF u, m
<1>4. Used(s, n) = IF s <= r THEN q + 1 ELSE q
  BY <1>2, <1>3, UsedIs
<1>5. Used(s, m) = IF s <= u THEN q + 1 ELSE q
  BY <1>2, <1>3, UsedIs
<1>6. Used(s, m) = IF s = u THEN Used(s, n) + 1 ELSE Used(s, n)
  BY <1>1, <1>2, <1>4, <1>5 DEF u
<1>7. QED
  BY <1>6 DEF m, u, r

\* A new buffer was not used; one that is to be replaced num_iterations times.
LEMMA UsedEnds ==
  ASSUME job \in Jobs, NEW s \in 1..Slices
  PROVE  Used(s, 0) = 0 /\ Used(s, GenerationSteps) = job.iters
<1>1. Slices \in Nat \ {0} /\ GenerationSteps = Slices * job.iters /\ job.iters \in Nat
  BY Schedule, JobOptions
<1> DEFINE zero == 0
           n == GenerationSteps
           i == job.iters
<1>2. zero \in Nat /\ zero \in 0..Slices /\ zero = Slices * zero + zero
  BY <1>1
<1>3. n = Slices * i + zero /\ i \in Nat /\ ~(s <= zero)
  BY <1>1
<1> HIDE DEF zero, n, i
<1>4. Used(s, zero) = zero /\ Used(s, n) = i
  BY <1>2, <1>3, UsedIs
<1>5. QED
  BY <1>4 DEF zero, n, i

\* A slice is used num_iterations times at most.
LEMMA UsedBounded ==
  ASSUME job \in Jobs, NEW n \in 0..GenerationSteps, NEW s \in 1..Slices
  PROVE  Used(s, n) \in 0..(job.iters)
<1>1. Slices \in Nat \ {0} /\ GenerationSteps = Slices * job.iters /\ job.iters \in Nat \ {0}
  BY Schedule, JobOptions
<1>2. n \in Nat /\ n <= GenerationSteps
  BY <1>1
<1> DEFINE x == n + Slices - s
           y == GenerationSteps + Slices - s
<1>3. x \in Nat /\ y \in Nat /\ x <= y
  BY <1>1, <1>2
<1> HIDE DEF x, y
<1>4. x \div Slices \in Nat /\ x \div Slices <= y \div Slices
  BY <1>1, <1>3, Divided, QuotientGrows
<1>5. y \div Slices = job.iters
  BY UsedEnds DEF Used, y
<1>6. QED
  BY <1>1, <1>4, <1>5 DEF Used, x

-----------------------------------------------------------------------------
(* The counters, the slices and the sampler keep in step.                  *)

InStep == Scalars /\ Turns

\* The sizes are those of the job, which stays the same.
LEMMA SizesStay ==
  ASSUME job' = job
  PROVE  /\ Slices' = Slices /\ GenerationSteps' = GenerationSteps /\ RepeatCount' = RepeatCount
         /\ Groups' = Groups
BY DEF Slices, GenerationSteps, RepeatCount, Groups

\* Within a generation, and no more steps than were taken.
LEMMA PassedType ==
  ASSUME Scalars
  PROVE  /\ Passed \in 0..GenerationSteps /\ counter % GenerationSteps \in 0..(GenerationSteps - 1)
         /\ counter > 0 \/ phase = "train" => Passed <= counter
<1>1. GenerationSteps \in Nat \ {0} /\ counter \in Nat
  BY Schedule, JobOptions DEF Scalars
<1> DEFINE q == counter \div GenerationSteps
           r == counter % GenerationSteps
<1>2. q \in Nat /\ r \in 0..(GenerationSteps - 1) /\ counter = GenerationSteps * q + r
  BY <1>1, Divided
<1> HIDE DEF q, r
<1>3. r <= counter
  BY <1>1, <1>2
<1>4. counter > 0 /\ r = 0 => GenerationSteps <= counter
  <2>1. SUFFICES ASSUME counter > 0, r = 0 PROVE GenerationSteps <= counter
    OBVIOUS
  <2>2. q >= 1
    BY <1>1, <1>2, <2>1
  <2>3. GenerationSteps * q >= GenerationSteps * 1
    BY <1>1, <1>2, <2>2
  <2>4. QED
    BY <1>1, <1>2, <2>1, <2>3
<1>5. Passed = IF phase # "train" /\ r = 0 THEN GenerationSteps ELSE r
  BY DEF Passed, r
<1>6. QED
  BY <1>1, <1>2, <1>3, <1>4, <1>5 DEF r

\* _prepare_inputs: a generation begins when the last is used up.
LEMMA FetchInStep ==
  ASSUME InStep, Fetch
  PROVE  InStep'
<1> USE DEF InStep
<1>1. job \in Jobs /\ job' = job /\ phase = "fetch" /\ taken < job.total
  BY DEF Scalars, Fetch
<1>2. job.total \in Nat /\ taken \in Nat /\ RepeatCount \in Nat \ {0} /\ job.retries \in Nat
  BY <1>1, JobOptions, Schedule DEF Scalars
<1>3. Chunk(taken) \in 0..Chunk(job.total)
  <2>1. Chunk(taken) \in Nat /\ Chunk(job.total) \in Nat
    BY <1>1, <1>2, ChunkNumbers
  <2>2. Chunk(taken) <= Chunk(job.total)
    BY <1>1, <1>2, QuotientGrows DEF Chunk
  <2>3. QED
    BY <2>1, <2>2
<1>4. Slices' = Slices /\ GenerationSteps' = GenerationSteps /\ RepeatCount' = RepeatCount
  BY <1>1, SizesStay
<1>5. UNCHANGED <<job, taken, counter, saved, crashes, buffered, uses>>
  BY DEF Fetch
<1>6. CASE counter % GenerationSteps = 0 \/ buffered = <<>>
  <2>1. /\ phase' = "generate" /\ chunk' = Chunk(taken) /\ retries' = 0 /\ refilled' = FALSE
    BY <1>6 DEF Fetch
  <2>2. Scalars'
    <3>1. Chunk(job.total)' = Chunk(job.total)
      BY <1>1, <1>4 DEF Chunk
    <3>2. chunk' \in 0..Chunk(job.total)' /\ retries' \in 0..(job'.retries)
      BY <1>1, <1>2, <1>3, <2>1, <3>1
    <3>3. QED
      BY <1>1, <1>5, <2>1, <3>2 DEF Scalars
  <2>3. counter % GenerationSteps = 0
    <3>1. CASE buffered = <<>>
      <4>1. counter = GenerationSteps * 0 + 0 /\ GenerationSteps \in Nat \ {0}
        BY <1>1, <3>1, Schedule DEF Turns
      <4>2. 0 % GenerationSteps = 0
        BY <4>1
      <4>3. QED
        BY <3>1, <4>2 DEF Turns
    <3>2. QED
      BY <1>6, <3>1
  <2>4. buffered # <<>> => Passed' = Passed
    BY <1>1, <1>4, <1>5, <2>1, <2>3 DEF Passed
  <2>5. QED
    BY <1>1, <1>4, <1>5, <2>1, <2>2, <2>3, <2>4 DEF Turns, Chunk, Used
<1>7. CASE ~(counter % GenerationSteps = 0 \/ buffered = <<>>)
  <2>1. phase' = "train" /\ UNCHANGED <<chunk, retries, refilled>>
    BY <1>7 DEF Fetch
  <2>2. Scalars'
    <3>1. Chunk(job.total)' = Chunk(job.total)
      BY <1>1, <1>4 DEF Chunk
    <3>2. QED
      BY <1>1, <1>5, <2>1, <3>1 DEF Scalars
  <2>3. Passed' = Passed
    BY <1>1, <1>4, <1>5, <1>7, <2>1 DEF Passed
  <2>4. QED
    BY <1>1, <1>4, <1>5, <1>7, <2>1, <2>2, <2>3 DEF Turns, Chunk, Used
<1>8. QED
  BY <1>6, <1>7

\* The phases in which a batch is made leave the counters and the buffer alone.
LEMMA BatchInStep ==
  ASSUME InStep, phase \in {"generate", "examine", "score"},
         phase' \in {"generate", "examine", "score", "raised"},
         UNCHANGED <<job, taken, counter, saved, crashes, chunk, buffered, uses>>,
         retries' \in 0..(job.retries), refilled' \in BOOLEAN
  PROVE  InStep'
<1> USE DEF InStep
<1>1. job \in Jobs /\ job' = job
  BY DEF Scalars
<1>2. Slices' = Slices /\ GenerationSteps' = GenerationSteps /\ RepeatCount' = RepeatCount
  BY <1>1, SizesStay
<1>3. Scalars'
  <2>1. Chunk(job.total)' = Chunk(job.total)
    BY <1>1, <1>2 DEF Chunk
  <2>2. QED
    BY <1>1, <2>1 DEF Scalars
<1>4. Passed' = Passed
  BY <1>1, <1>2 DEF Passed
<1>5. QED
  BY <1>1, <1>2, <1>3, <1>4 DEF Turns, Chunk, Used

\* A new buffer: no slice was used.
LEMMA ScoreInStep ==
  ASSUME InStep, Score
  PROVE  InStep'
<1> USE DEF InStep
<1>1. /\ job \in Jobs /\ job' = job /\ phase = "score" /\ phase' = "train"
      /\ buffered' = Buffered(batch) /\ uses' = [s \in 1..Slices |-> 0]
      /\ UNCHANGED <<taken, counter, saved, crashes, chunk, retries, refilled>>
  BY DEF Scalars, Score
<1>2. Slices' = Slices /\ GenerationSteps' = GenerationSteps /\ RepeatCount' = RepeatCount
  BY <1>1, SizesStay
<1>3. Scalars'
  <2>1. Chunk(job.total)' = Chunk(job.total)
    BY <1>1, <1>2 DEF Chunk
  <2>2. QED
    BY <1>1, <2>1 DEF Scalars
<1>4. buffered' # <<>>
  <2>1. Groups \in Nat \ {0}
    BY <1>1, GroupsPositive
  <2>2. DOMAIN Buffered(batch) = 0..(Groups - 1)
    BY DEF Buffered
  <2>3. 0 \in DOMAIN Buffered(batch)
    BY <2>1, <2>2
  <2>4. DOMAIN <<>> = {}
    OBVIOUS
  <2>5. QED
    BY <1>1, <2>3, <2>4
<1>5. Passed' = 0 /\ taken \in Nat
  BY <1>1, <1>2, JobOptions DEF Passed, Turns, Scalars
<1>6. chunk' = Chunk(taken - Passed)'
  BY <1>1, <1>2, <1>5 DEF Turns, Chunk
<1>7. uses' = [s \in 1..Slices |-> Used(s, Passed)]'
  <2>1. \A s \in 1..Slices : Used(s, Passed)' = 0
    BY <1>1, <1>2, <1>5, UsedEnds DEF Used
  <2>2. QED
    BY <1>1, <1>2, <2>1
<1>8. QED
  BY <1>1, <1>3, <1>4, <1>6, <1>7 DEF Turns

\* A training step uses the slice whose turn it is.
LEMMA TrainInStep ==
  ASSUME InStep, Train
  PROVE  InStep'
<1> USE DEF InStep
<1>1. /\ job \in Jobs /\ job' = job /\ phase = "train" /\ phase' = "fetch"
      /\ taken < job.total /\ buffered # <<>>
      /\ uses' = [uses EXCEPT ![(counter % Slices) + 1] = @ + 1]
      /\ counter' = counter + 1 /\ taken' = taken + 1
      /\ UNCHANGED <<saved, crashes, chunk, retries, refilled, buffered>>
  BY DEF Scalars, Turns, Train
<1>2. Slices' = Slices /\ GenerationSteps' = GenerationSteps /\ RepeatCount' = RepeatCount
  BY <1>1, SizesStay
<1>3. /\ taken \in Nat /\ counter \in Nat /\ counter <= taken /\ job.total \in Nat
      /\ Slices \in Nat \ {0} /\ GenerationSteps \in Nat \ {0} /\ job.iters \in Nat \ {0}
      /\ GenerationSteps = Slices * job.iters
  BY <1>1, JobOptions, Schedule DEF Scalars
<1>4. Scalars'
  <2>1. Chunk(job.total)' = Chunk(job.total)
    BY <1>1, <1>2 DEF Chunk
  <2>2. taken' \in 0..(job'.total) /\ counter' \in 0..taken' /\ saved' \in 0..taken'
    BY <1>1, <1>3 DEF Scalars
  <2>3. QED
    BY <1>1, <2>1, <2>2 DEF Scalars
<1>5. Passed = counter % GenerationSteps
  BY <1>1 DEF Passed
<1>6. Passed \in Nat /\ Passed' = Passed + 1
  <2>1. /\ Passed \in 0..(GenerationSteps - 1)
        /\ (counter + 1) % GenerationSteps = IF Passed + 1 = GenerationSteps THEN 0 ELSE Passed + 1
    BY <1>3, <1>5, NextRemainder
  <2>2. Passed' = IF (counter + 1) % GenerationSteps = 0 THEN GenerationSteps
                  ELSE (counter + 1) % GenerationSteps
    BY <1>1, <1>2 DEF Passed
  <2>3. QED
    BY <1>3, <2>1, <2>2
<1>7. Passed % Slices = counter % Slices
  BY <1>3, <1>5, RemainderOfRemainder
<1>8. uses' = [s \in 1..Slices |-> Used(s, Passed)]'
  <2>1. uses = [s \in 1..Slices |-> Used(s, Passed)]
    BY <1>1 DEF Turns
  <2>2. \A s \in 1..Slices : Used(s, Passed)' =
          IF s = (Passed % Slices) + 1 THEN Used(s, Passed) + 1 ELSE Used(s, Passed)
    <3>1. \A s \in 1..Slices : Used(s, Passed)' = Used(s, Passed + 1)
      BY <1>2, <1>6 DEF Used
    <3>2. QED
      BY <1>1, <1>6, <3>1, UsedNext
  <2>3. \A s \in 1..Slices : uses'[s] = Used(s, Passed)'
    BY <1>1, <1>7, <2>1, <2>2
  <2>4. uses' = [s \in 1..Slices |-> uses'[s]]
    BY <1>1, <2>1
  <2>5. QED
    BY <1>2, <2>3, <2>4
<1>9. chunk' = Chunk(taken - Passed)'
  <2>1. taken' - Passed' = taken - Passed
    BY <1>1, <1>3, <1>6
  <2>2. QED
    BY <1>1, <1>2, <2>1 DEF Turns, Chunk
<1>10. counter' > 0 /\ phase' = "fetch" /\ buffered' # <<>>
  BY <1>1, <1>3
<1>11. Turns'
  BY <1>8, <1>9, <1>10 DEF Turns
<1>12. QED
  BY <1>4, <1>11

\* A checkpoint.
LEMMA SaveInStep ==
  ASSUME InStep, Save
  PROVE  InStep'
<1> USE DEF InStep
<1>1. /\ job \in Jobs /\ job' = job /\ phase' = phase /\ saved' = taken
      /\ UNCHANGED <<taken, counter, crashes, chunk, retries, refilled, buffered, uses>>
  BY DEF Scalars, Save
<1>2. Slices' = Slices /\ GenerationSteps' = GenerationSteps /\ RepeatCount' = RepeatCount
  BY <1>1, SizesStay
<1>3. Scalars'
  <2>1. Chunk(job.total)' = Chunk(job.total)
    BY <1>1, <1>2 DEF Chunk
  <2>2. saved' \in 0..taken'
    BY <1>1, JobOptions DEF Scalars
  <2>3. QED
    BY <1>1, <2>1, <2>2 DEF Scalars
<1>4. Passed' = Passed
  BY <1>1, <1>2 DEF Passed
<1>5. QED
  BY <1>1, <1>2, <1>3, <1>4 DEF Turns, Chunk, Used

\* A new trainer, at the last checkpoint.
LEMMA CrashInStep ==
  ASSUME InStep, Crash
  PROVE  InStep'
<1> USE DEF InStep
<1>1. /\ job \in Jobs /\ job' = job /\ crashes < MaxCrashes /\ crashes' = crashes + 1
      /\ taken' = saved /\ counter' = 0 /\ phase' = "fetch" /\ retries' = 0 /\ refilled' = FALSE
      /\ buffered' = <<>> /\ uses' = <<>> /\ UNCHANGED <<saved, chunk>>
  BY DEF Scalars, Crash
<1>2. RepeatCount' = RepeatCount
  BY <1>1, SizesStay
<1>3. Scalars'
  <2>1. Chunk(job.total)' = Chunk(job.total)
    BY <1>1, <1>2 DEF Chunk
  <2>2. taken' \in 0..(job'.total) /\ counter' \in 0..taken' /\ saved' \in 0..taken'
    BY <1>1, JobOptions DEF Scalars
  <2>3. crashes' \in 0..MaxCrashes /\ retries' \in 0..(job'.retries)
    BY <1>1, JobOptions DEF Scalars
  <2>4. QED
    BY <1>1, <2>1, <2>2, <2>3 DEF Scalars
<1>4. QED
  BY <1>1, <1>3 DEF Turns

\* Every step keeps them in step.
LEMMA InStepNext ==
  ASSUME InStep, [BatchNext]_batchVars
  PROVE  InStep'
<1>1. CASE Fetch
  BY <1>1, FetchInStep
<1>2. CASE GenerateBatch
  <2>1. refilled' \in BOOLEAN
    BY <1>2 DEF GenerateBatch
  <2>2. /\ phase = "generate" /\ phase' \in {"examine", "score"}
        /\ UNCHANGED <<job, taken, counter, saved, crashes, chunk, buffered, uses, retries>>
    BY <1>2 DEF GenerateBatch
  <2>3. QED
    BY <2>1, <2>2, BatchInStep DEF InStep, Scalars
<1>3. CASE EncodeRaises
  BY <1>3, BatchInStep DEF EncodeRaises, InStep, Scalars
<1>4. CASE Examine
  <2>1. /\ phase = "examine" /\ retries < job.retries
        /\ phase' \in {"score", "generate"} /\ retries' \in {retries, retries + 1}
        /\ UNCHANGED <<job, taken, counter, saved, crashes, chunk, buffered, uses, refilled>>
    BY <1>4 DEF Examine, MayExamine
  <2>2. retries' \in 0..(job.retries)
    BY <2>1, JobOptions DEF InStep, Scalars
  <2>3. QED
    BY <2>1, <2>2, BatchInStep DEF InStep, Scalars
<1>5. CASE FallBack
  BY <1>5, BatchInStep DEF FallBack, InStep, Scalars
<1>6. CASE Score
  BY <1>6, ScoreInStep
<1>7. CASE Train
  BY <1>7, TrainInStep
<1>8. CASE Save
  BY <1>8, SaveInStep
<1>9. CASE Crash
  BY <1>9, CrashInStep
<1>10. CASE UNCHANGED batchVars
  <2>1. Slices' = Slices /\ GenerationSteps' = GenerationSteps /\ RepeatCount' = RepeatCount
    BY <1>10, SizesStay DEF batchVars
  <2>2. QED
    BY <1>10, <2>1 DEF batchVars, InStep, Scalars, Turns, Chunk, Used, Passed
<1>11. QED
  BY <1>1, <1>2, <1>3, <1>4, <1>5, <1>6, <1>7, <1>8, <1>9, <1>10 DEF BatchNext

\* They begin in step.
LEMMA InStepInit ==
  ASSUME BatchInit
  PROVE  InStep
<1>1. job \in Jobs /\ job.total \in Nat \ {0} /\ job.retries \in Nat /\ MaxCrashes \in Nat
  BY JobOptions DEF BatchInit
<1>2. Chunk(job.total) \in Nat
  BY <1>1, ChunkNumbers
<1>3. 0 \in 0..(job.total) /\ 0 \in 0..MaxCrashes /\ 0 \in 0..(job.retries)
      /\ 0 \in 0..Chunk(job.total) /\ 0 \in 0..0
  BY <1>1, <1>2
<1>4. Scalars
  BY <1>1, <1>3 DEF BatchInit, Scalars
<1>5. Turns
  BY DEF BatchInit, Turns
<1>6. QED
  BY <1>4, <1>5 DEF InStep

\* The counters of the trainer, the position of the sampler and the uses of the slices
\* agree in every reachable state, after any number of resumptions.
THEOREM StaysInStep == BatchSpec => []InStep
<1>1. BatchInit => InStep
  BY InStepInit
<1>2. InStep /\ [BatchNext]_batchVars => InStep'
  BY InStepNext
<1>3. QED
  BY <1>1, <1>2, PTL DEF BatchSpec

\* When a generation begins, the last one was used up and is the one before it.
LEMMA TurnComplete ==
  ASSUME InStep, [BatchNext]_batchVars, phase = "fetch", phase' = "generate", buffered # <<>>
  PROVE  (\A s \in DOMAIN uses : uses[s] = job.iters) /\ chunk' = chunk + 1
<1>1. Fetch
  BY DEF BatchNext, batchVars, GenerateBatch, EncodeRaises, Examine, FallBack, Score, Train,
         Save, Crash
<1>2. counter % GenerationSteps = 0 /\ chunk' = Chunk(taken)
  BY <1>1 DEF Fetch
<1>3. /\ job \in Jobs /\ counter > 0 /\ counter <= taken /\ taken \in Nat /\ counter \in Nat
      /\ GenerationSteps \in Nat \ {0}
  BY JobOptions, Schedule DEF InStep, Scalars, Turns
<1>4. Passed = GenerationSteps
  BY <1>2 DEF Passed
<1>5. \A s \in DOMAIN uses : uses[s] = job.iters
  BY <1>3, <1>4, UsedEnds DEF InStep, Turns
<1>6. chunk' = chunk + 1
  <2> DEFINE n == taken - GenerationSteps
  <2>1. chunk = Chunk(n)
    BY <1>4 DEF InStep, Turns
  <2>2. n \in Nat /\ taken = n + GenerationSteps
    BY <1>3, <1>4, PassedType DEF InStep
  <2> HIDE DEF n
  <2>3. Chunk(n + GenerationSteps) = Chunk(n) + 1
    BY <1>3, <2>2, ChunkNumbers
  <2>4. QED
    BY <1>2, <2>1, <2>2, <2>3
<1>7. QED
  BY <1>5, <1>6

\* A generation starts when every slice of the last was trained on num_iterations times, and
\* takes the batch of the sampler after the last, also in a job that was resumed in the
\* middle of a generation.
THEOREM SlicesTakeTurns == BatchSpec => SlicesInTurn
<1>1. InStep /\ [BatchNext]_batchVars =>
        [phase = "fetch" /\ phase' = "generate" /\ buffered # <<>> =>
          /\ \A s \in DOMAIN uses : uses[s] = job.iters
          /\ chunk' = chunk + 1]_batchVars
  BY TurnComplete
<1>2. QED
  BY <1>1, StaysInStep, PTL DEF BatchSpec, SlicesInTurn

-----------------------------------------------------------------------------
(* Flattening parts of one length, and selecting.                          *)

\* t has the n sequences of s, of length m, one after the other.
Evenly(s, n, m, t) ==
  /\ Len(t) = n * m
  /\ \A x \in 1..n : \A k \in 1..m :
       (x - 1) * m + k \in 1..(n * m) /\ t[(x - 1) * m + k] = s[x][k]
AllOf(s, n, m) == \A x \in 1..n : Len(s[x]) = m

\* Parts of one length lie at its multiples.
LEMMA FlattenEqual ==
  ASSUME NEW T, NEW n \in Nat, NEW m \in Nat \ {0}, NEW s \in [1..n -> Seq(T)], AllOf(s, n, m)
  PROVE  FlattenSeq(s) \in Seq(T) /\ Evenly(s, n, m, FlattenSeq(s))
<1> USE DEF AllOf
<1> DEFINE start == [w \in 0..n |-> w * m]
           t == FlattenSeq(s)
<1>1. Counts(s, n, start)
  <2>1. start \in [0..n -> Nat] /\ start[0] = 0
    OBVIOUS
  <2>2. \A w \in 1..n : start[w] = start[w - 1] + Len(s[w])
    <3>1. SUFFICES ASSUME NEW w \in 1..n PROVE start[w] = start[w - 1] + m
      OBVIOUS
    <3>2. w \in 0..n /\ w - 1 \in 0..n /\ w * m = (w - 1) * m + m
      OBVIOUS
    <3>3. QED
      BY <3>2
  <2>3. QED
    BY <2>1, <2>2 DEF Counts
<1>2. start[n] = n * m
  OBVIOUS
<1>3. /\ t \in Seq(T) /\ Len(t) = n * m /\ InParts(s, n, start, t)
  BY <1>1, <1>2, FlattenParts
<1>4. ASSUME NEW x \in 1..n, NEW k \in 1..m
      PROVE  (x - 1) * m + k \in 1..(n * m) /\ t[(x - 1) * m + k] = s[x][k]
  <2> DEFINE i == (x - 1) * m + k
  <2>1. (x - 1) * m \in Nat
    OBVIOUS
  <2>2. (x - 1) * m + m = x * m /\ x * m <= n * m /\ n * m \in Nat /\ x * m \in Nat
    OBVIOUS
  <2>3. i \in 1..(n * m)
    <3> DEFINE y == (x - 1) * m
               z == x * m
               all == n * m
    <3>1. y \in Nat /\ z \in Nat /\ all \in Nat /\ y + m = z /\ z <= all
      BY <2>1, <2>2
    <3>2. i = y + k
      OBVIOUS
    <3> HIDE DEF y, z, all, i
    <3>3. i \in 1..all
      BY <3>1, <3>2
    <3>4. QED
      BY <3>3 DEF all
  <2>4. PICK w \in 1..n : \E j \in 1..Len(s[w]) : i = start[w - 1] + j /\ t[i] = s[w][j]
    BY <1>2, <1>3, <2>3 DEF InParts
  <2>5. PICK j \in 1..m : i = start[w - 1] + j /\ t[i] = s[w][j]
    BY <2>4
  <2>6. start[w - 1] = (w - 1) * m
    OBVIOUS
  <2>7. m * (x - 1) + (k - 1) = m * (w - 1) + (j - 1)
    BY <2>5, <2>6
  <2> DEFINE a == x - 1
             b == w - 1
             c == k - 1
             d == j - 1
  <2>8. a \in Int /\ b \in Int /\ c \in 0..m - 1 /\ d \in 0..m - 1 /\ m * a + c = m * b + d
    BY <2>7
  <2> HIDE DEF a, b, c, d
  <2>9. a = b /\ c = d
    BY <2>8, RemainderUnique
  <2>10. x = w /\ k = j
    BY <2>9 DEF a, b, c, d
  <2>11. QED
    BY <2>3, <2>5, <2>10
<1>5. QED
  BY <1>3, <1>4 DEF Evenly

\* What is selected comes from places that differ.
Picked(s, n, P, t, h) ==
  /\ h \in [1..Len(t) -> 1..n]
  /\ \A k \in 1..Len(t) : t[k] = s[h[k]] /\ s[h[k]] \in P
  /\ \A k, l \in 1..Len(t) : h[k] = h[l] => k = l

Selection(s, n, P) == [i \in 1..n |-> IF s[i] \in P THEN <<s[i]>> ELSE <<>>]

\* A selection has nothing else, and nothing twice.
LEMMA SelectionPicks ==
  ASSUME NEW T, NEW n \in Nat, NEW s \in [1..n -> T], NEW P
  PROVE  /\ FlattenSeq(Selection(s, n, P)) \in Seq(T)
         /\ Len(FlattenSeq(Selection(s, n, P))) <= n
         /\ \E h : Picked(s, n, P, FlattenSeq(Selection(s, n, P)), h)
<1> DEFINE u == Selection(s, n, P)
           t == FlattenSeq(u)
<1>1. u \in [1..n -> Seq(T)] /\ \A i \in 1..n : Len(u[i]) = IF s[i] \in P THEN 1 ELSE 0
  <2>1. \A i \in 1..n : IF s[i] \in P THEN u[i] = <<s[i]>> ELSE u[i] = <<>>
    BY DEF Selection
  <2>2. \A i \in 1..n : u[i] \in Seq(T) /\ Len(u[i]) = IF s[i] \in P THEN 1 ELSE 0
    <3>1. SUFFICES ASSUME NEW i \in 1..n
                   PROVE  u[i] \in Seq(T) /\ Len(u[i]) = IF s[i] \in P THEN 1 ELSE 0
      OBVIOUS
    <3>2. s[i] \in T
      OBVIOUS
    <3>3. <<s[i]>> \in Seq(T) /\ Len(<<s[i]>>) = 1
      BY <3>2
    <3>4. <<>> \in Seq(T) /\ Len(<<>>) = 0
      OBVIOUS
    <3> HIDE DEF u
    <3>5. QED
      BY <2>1, <3>3, <3>4
  <2>3. u = [i \in 1..n |-> u[i]]
    BY DEF Selection
  <2> HIDE DEF u
  <2>4. QED
    BY <2>2, <2>3
<1>2. \A i \in 1..n : s[i] \in P => u[i][1] = s[i]
  BY DEF Selection
<1> HIDE DEF u
<1>3. PICK start : Counts(u, n, start)
  BY <1>1, CountsExist
<1>4. /\ t \in Seq(T) /\ Len(t) = start[n] /\ InParts(u, n, start, t)
  BY <1>1, <1>3, FlattenParts
<1>5. start \in [0..n -> Nat] /\ start[0] = 0 /\ \A w \in 1..n : start[w] = start[w - 1] + Len(u[w])
  BY <1>3 DEF Counts
<1>6. start[n] <= n
  <2> DEFINE S == {k \in Nat : k <= n => start[k] <= k}
  <2>1. 0 \in S
    BY <1>5
  <2>2. ASSUME NEW k \in Nat, k \in S PROVE k + 1 \in S
    <3>1. SUFFICES ASSUME k + 1 <= n PROVE start[k + 1] <= k + 1
      OBVIOUS
    <3>2. k + 1 \in 1..n /\ k \in 0..n /\ (k + 1) - 1 = k
      BY <3>1
    <3>3. start[k] <= k /\ start[k] \in Nat
      BY <1>5, <2>2, <3>2
    <3>4. start[k + 1] = start[k] + Len(u[k + 1]) /\ Len(u[k + 1]) \in {0, 1}
      BY <1>1, <1>5, <3>2
    <3> DEFINE a == start[k]
               b == start[k + 1]
               l == Len(u[k + 1])
    <3>5. a \in Nat /\ a <= k /\ b = a + l /\ l \in {0, 1}
      BY <3>3, <3>4
    <3> HIDE DEF a, b, l
    <3>6. b <= k + 1
      BY <3>5
    <3>7. QED
      BY <3>6 DEF b
  <2> HIDE DEF S
  <2>3. Nat \subseteq S
    BY <2>1, <2>2, InductionOnNat
  <2>4. QED
    BY <2>3 DEF S
<1> HIDE DEF t
<1>7. \A k \in 1..Len(t) : \E w \in 1..n : k = start[w] /\ t[k] = s[w] /\ s[w] \in P
  <2>1. SUFFICES ASSUME NEW k \in 1..start[n]
                 PROVE  \E w \in 1..n : k = start[w] /\ t[k] = s[w] /\ s[w] \in P
    BY <1>4
  <2>2. PICK w \in 1..n : \E j \in 1..Len(u[w]) : k = start[w - 1] + j /\ t[k] = u[w][j]
    BY <1>4 DEF InParts
  <2>3. PICK j \in 1..Len(u[w]) : k = start[w - 1] + j /\ t[k] = u[w][j]
    BY <2>2
  <2>4. s[w] \in P /\ Len(u[w]) = 1
    BY <1>1, <2>3
  <2>5. j = 1
    BY <2>4
  <2>6. k = start[w] /\ t[k] = s[w]
    BY <1>2, <1>5, <2>3, <2>4, <2>5
  <2>7. QED
    BY <2>4, <2>6
<1> DEFINE h == [k \in 1..Len(t) |->
                   CHOOSE w \in 1..n : k = start[w] /\ t[k] = s[w] /\ s[w] \in P]
<1>8. \A k \in 1..Len(t) : h[k] \in 1..n /\ k = start[h[k]] /\ t[k] = s[h[k]] /\ s[h[k]] \in P
  BY <1>7
<1>9. h = [k \in 1..Len(t) |-> h[k]]
  OBVIOUS
<1> HIDE DEF h
<1>10. Picked(s, n, P, t, h)
  <2>1. h \in [1..Len(t) -> 1..n]
    BY <1>8, <1>9
  <2>2. \A k, l \in 1..Len(t) : h[k] = h[l] => k = l
    BY <1>8
  <2>3. QED
    BY <1>8, <2>1, <2>2 DEF Picked
<1>11. QED
  BY <1>4, <1>6, <1>10 DEF t, u

\* If all pass, the selection is all.
LEMMA SelectionOfAll ==
  ASSUME NEW T, NEW n \in Nat, NEW s \in [1..n -> T], NEW P, \A i \in 1..n : s[i] \in P
  PROVE  /\ Len(FlattenSeq(Selection(s, n, P))) = n
         /\ \A i \in 1..n : FlattenSeq(Selection(s, n, P))[i] = s[i]
<1> DEFINE u == Selection(s, n, P)
           one == 1
<1>1. \A i \in 1..n : u[i] = <<s[i]>>
  BY DEF Selection
<1>2. u = [i \in 1..n |-> u[i]]
  BY DEF Selection
<1> HIDE DEF u
<1>3. \A i \in 1..n : u[i] \in Seq(T) /\ Len(u[i]) = 1 /\ u[i][1] = s[i]
  <2>1. SUFFICES ASSUME NEW i \in 1..n
                 PROVE  u[i] \in Seq(T) /\ Len(u[i]) = 1 /\ u[i][1] = s[i]
    OBVIOUS
  <2>2. s[i] \in T
    OBVIOUS
  <2>3. <<s[i]>> \in Seq(T) /\ Len(<<s[i]>>) = 1 /\ <<s[i]>>[1] = s[i]
    BY <2>2
  <2>4. QED
    BY <1>1, <2>3
<1>4. u \in [1..n -> Seq(T)]
  BY <1>2, <1>3
<1>5. one \in Nat \ {0} /\ AllOf(u, n, one)
  BY <1>3 DEF AllOf
<1> HIDE DEF one
<1>6. Evenly(u, n, one, FlattenSeq(u))
  BY <1>4, <1>5, FlattenEqual
<1>7. \A x \in 1..n : FlattenSeq(u)[x] = s[x]
  <2>1. SUFFICES ASSUME NEW x \in 1..n PROVE FlattenSeq(u)[x] = s[x]
    OBVIOUS
  <2>2. 1 \in 1..one /\ (x - 1) * one + 1 = x
    BY DEF one
  <2>3. QED
    BY <1>3, <1>6, <2>2 DEF Evenly
<1>8. QED
  BY <1>6, <1>7 DEF u, one, Evenly

-----------------------------------------------------------------------------
(* Groups.                                                                 *)

\* Slots in a row of num_generations.
LEMMA BlockOf ==
  ASSUME job \in Jobs, NEW x \in Nat, NEW j \in 1..(job.g)
  PROVE  /\ x * job.g + j \in Nat \ {0} /\ Block(x * job.g + j) = x
         /\ ((x * job.g + j) - 1) % job.g = j - 1
<1>1. job.g \in Nat \ {0}
  BY JobOptions
<1> DEFINE g == job.g
           r == j - 1
           i == x * g + j
           z == i - 1
<1>2. x * g \in Nat
  BY <1>1
<1>3. r \in 0..(g - 1) /\ z = g * x + r /\ i \in Nat \ {0}
  BY <1>1, <1>2
<1> HIDE DEF r, z, g
<1>4. z \div g = x /\ z % g = r
  BY <1>1, <1>3, Quotient DEF g
<1>5. QED
  BY <1>3, <1>4 DEF Block, g, r, z

Offset(i) == ((i - 1) % job.g) + 1

\* A slot is made up of its group and its place in it.
LEMMA BlockParts ==
  ASSUME job \in Jobs, NEW i \in Nat \ {0}
  PROVE  Block(i) \in Nat /\ Offset(i) \in 1..(job.g) /\ i = Block(i) * job.g + Offset(i)
<1>1. job.g \in Nat \ {0} /\ i - 1 \in Nat
  BY JobOptions
<1> DEFINE z == i - 1
           q == z \div job.g
           r == z % job.g
<1>2. q \in Nat /\ r \in 0..(job.g - 1) /\ z = job.g * q + r
  BY <1>1, Divided
<1>3. Block(i) = q /\ Offset(i) = r + 1
  BY DEF Block, Offset
<1> HIDE DEF q, r
<1>4. i = q * job.g + (r + 1)
  BY <1>1, <1>2
<1>5. QED
  BY <1>1, <1>2, <1>3, <1>4

\* Whole groups: the slots of a group are all there.
LEMMA BlockRange ==
  ASSUME job \in Jobs, NEW n \in Nat, n % job.g = 0
  PROVE  /\ n \div job.g \in Nat /\ n = (n \div job.g) * job.g
         /\ \A i \in 1..n : Block(i) + 1 \in 1..(n \div job.g)
         /\ \A x \in 1..(n \div job.g) : \A j \in 1..(job.g) : (x - 1) * job.g + j \in 1..n
<1>1. job.g \in Nat \ {0}
  BY JobOptions
<1> DEFINE g == job.g
           q == n \div g
<1>2. q \in Nat /\ n = g * q + (n % g)
  BY <1>1, Divided
<1>3. g \in Nat \ {0} /\ g * q = q * g /\ q * g \in Nat /\ n = q * g
  BY <1>1, <1>2
<1> HIDE DEF q
<1>4. ASSUME NEW i \in 1..n
      PROVE  Block(i) + 1 \in 1..q
  <2> DEFINE b == Block(i)
             o == Offset(i)
  <2>1. b \in Nat /\ o \in 1..g /\ i = b * g + o
    BY BlockParts
  <2> HIDE DEF b, o
  <2>2. SUFFICES ASSUME b >= q PROVE FALSE
    BY <1>2, <2>1 DEF b
  <2>3. q <= b /\ g \in Nat
    BY <1>2, <1>3, <2>1, <2>2
  <2>4. b * g \in Nat /\ q * g <= b * g
    BY <1>2, <2>1, <2>3, ProductGrows
  <2>5. QED
    BY <1>3, <2>1, <2>3, <2>4
<1>5. ASSUME NEW x \in 1..q, NEW j \in 1..g
      PROVE  (x - 1) * g + j \in 1..n
  <2> DEFINE a == (x - 1) * g
             b == x * g
             c == q * g
  <2>1. a \in Nat /\ a + g = b /\ b <= c /\ b \in Nat
    <3>1. x - 1 \in Nat /\ x \in Nat /\ x <= q /\ g \in Nat
      BY <1>2, <1>3
    <3>2. x * g <= q * g /\ x * g \in Nat
      BY <1>2, <3>1, ProductGrows
    <3>3. (x - 1) * g \in Nat /\ (x - 1) * g + g = x * g
      BY <3>1
    <3>4. QED
      BY <3>2, <3>3
  <2>2. n = c
    BY <1>3
  <2> HIDE DEF a, b, c
  <2>3. a + j \in 1..n
    BY <1>3, <2>1, <2>2
  <2>4. QED
    BY <2>3 DEF a
<1>6. QED
  BY <1>2, <1>3, <1>4, <1>5 DEF q

\* p has the parts of s.
Cut(s, size, p) ==
  \A x \in 1..(Len(s) \div size) :
    /\ Len(p[x]) = size
    /\ \A j \in 1..size : (x - 1) * size + j \in 1..Len(s) /\ p[x][j] = s[(x - 1) * size + j]

\* A batch cut into parts of one size.
LEMMA PartsAre ==
  ASSUME NEW T, NEW s \in Seq(T), NEW size \in Nat \ {0}
  PROVE  /\ Len(s) \div size \in Nat
         /\ Parts(s, size) \in [1..(Len(s) \div size) -> Seq(T)]
         /\ Cut(s, size, Parts(s, size))
<1> DEFINE q == Len(s) \div size
           r == Len(s) % size
<1>1. Len(s) \in Nat /\ q \in Nat /\ r \in 0..(size - 1) /\ Len(s) = size * q + r
  <2>1. Len(s) \in Nat
    OBVIOUS
  <2>2. QED
    BY <2>1, Divided
<1>2. Parts(s, size) = [x \in 1..q |-> SubSeq(s, (x - 1) * size + 1, x * size)]
  BY DEF Parts
<1> HIDE DEF q, r
<1>3. ASSUME NEW x \in 1..q
      PROVE  /\ SubSeq(s, (x - 1) * size + 1, x * size) \in Seq(T)
             /\ Len(SubSeq(s, (x - 1) * size + 1, x * size)) = size
             /\ \A j \in 1..size :
                  /\ (x - 1) * size + j \in 1..Len(s)
                  /\ SubSeq(s, (x - 1) * size + 1, x * size)[j] = s[(x - 1) * size + j]
  <2> DEFINE a == (x - 1) * size
             b == x * size
             c == size * q
             u == SubSeq(s, a + 1, b)
  <2>1. a \in Nat /\ b \in Nat /\ c \in Nat /\ a + size = b /\ b <= c
    BY <1>1
  <2>2. c <= Len(s)
    BY <1>1, <2>1
  <2> HIDE DEF a, b, c
  <2>3. a + 1 \in 1..(Len(s) + 1) /\ b \in (a + 1) - 1..Len(s)
    BY <1>1, <2>1, <2>2
  <2>4. /\ u \in Seq(T) /\ Len(u) = b - (a + 1) + 1
        /\ \A j \in 1..(b - (a + 1) + 1) : u[j] = s[(a + 1) + j - 1]
    BY <2>3, SubSeqProperties
  <2>5. Len(u) = size /\ \A j \in 1..size : a + j \in 1..Len(s) /\ u[j] = s[a + j]
    <3>1. b - (a + 1) + 1 = size
      BY <2>1
    <3>2. \A j \in 1..size : (a + 1) + j - 1 = a + j /\ a + j \in 1..Len(s)
      BY <1>1, <2>1, <2>2
    <3> HIDE DEF u
    <3>3. QED
      BY <2>4, <3>1, <3>2
  <2>6. QED
    BY <2>4, <2>5 DEF a, b
<1>4. QED
  BY <1>1, <1>2, <1>3 DEF q, Cut

\* v has whole groups of b: its k-th is b's h[k]-th, and all of them have variance.
Rows(v, b, h) ==
  /\ h \in [1..(Len(v) \div job.g) -> 1..(Len(b) \div job.g)]
  /\ \A k, l \in 1..(Len(v) \div job.g) : h[k] = h[l] => k = l
  /\ \A k \in 1..(Len(v) \div job.g) :
       /\ Varied(Parts(b, job.g)[h[k]])
       /\ \A j \in 1..(job.g) : v[(k - 1) * job.g + j] = b[(h[k] - 1) * job.g + j]

\* What dynamic sampling keeps of a batch are groups of it.
LEMMA VariedRows ==
  ASSUME job \in Jobs, NEW b \in Seq(Samples), Whole(b)
  PROVE  /\ VariedOf(b) \in Seq(Samples) /\ Whole(VariedOf(b))
         /\ Len(VariedOf(b)) <= Len(b)
         /\ \E h : Rows(VariedOf(b), b, h)
<1> DEFINE g == job.g
           n == Len(b) \div g
           s == Parts(b, g)
           P == {row \in Seq(Samples) : Varied(row)}
           t == FlattenSeq(Selection(s, n, P))
           m == Len(t)
           v == VariedOf(b)
<1>1. g \in Nat \ {0} /\ Len(b) \in Nat
  BY JobOptions
<1>2. n \in Nat /\ n * g = Len(b)
  BY <1>1, BlockRange DEF Whole
<1>3. /\ s \in [1..n -> Seq(Samples)]
      /\ \A x \in 1..n : Len(s[x]) = g /\ \A j \in 1..g : s[x][j] = b[(x - 1) * g + j]
  <2> HIDE DEF g
  <2>1. s \in [1..n -> Seq(Samples)] /\ Cut(b, g, s)
    BY <1>1, PartsAre
  <2> HIDE DEF s
  <2>2. QED
    BY <2>1 DEF Cut
<1>4. v = FlattenSeq(t)
  <2>1. Len(s) = n
    BY <1>2, <1>3
  <2>2. \A x \in 1..n : s[x] \in P <=> Varied(s[x])
    BY <1>3
  <2>3. Selection(s, n, P) = [x \in 1..n |-> IF Varied(s[x]) THEN <<s[x]>> ELSE <<>>]
    BY <2>2 DEF Selection
  <2> HIDE DEF s, n, P
  <2>4. Selected(s, Varied) = FlattenSeq(Selection(s, n, P))
    BY <2>1, <2>3 DEF Selected
  <2>5. QED
    BY <2>4 DEF VariedOf, s
<1> HIDE DEF s, n, P
<1>5. /\ t \in Seq(Seq(Samples)) /\ m <= n /\ \E h : Picked(s, n, P, t, h)
  BY <1>2, <1>3, SelectionPicks
<1> HIDE DEF t
<1>6. PICK h : Picked(s, n, P, t, h)
  BY <1>5
<1>7. /\ h \in [1..m -> 1..n] /\ \A k, l \in 1..m : h[k] = h[l] => k = l
      /\ \A k \in 1..m : t[k] = s[h[k]] /\ Varied(s[h[k]])
  BY <1>6 DEF Picked, P
<1>8. m \in Nat /\ t \in [1..m -> Seq(Samples)] /\ \A k \in 1..m : Len(t[k]) = g
  <2>1. m \in Nat /\ t \in [1..m -> Seq(Samples)]
    BY <1>5
  <2>2. \A k \in 1..m : Len(t[k]) = g
    BY <1>3, <1>7
  <2>3. QED
    BY <2>1, <2>2
<1> HIDE DEF m, v
<1>9. /\ v \in Seq(Samples) /\ Len(v) = m * g
      /\ \A k \in 1..m : \A j \in 1..g : v[(k - 1) * g + j] = t[k][j]
  <2> HIDE DEF g
  <2>1. AllOf(t, m, g) /\ m \in Nat /\ g \in Nat \ {0} /\ t \in [1..m -> Seq(Samples)]
    BY <1>1, <1>8 DEF AllOf
  <2>2. FlattenSeq(t) \in Seq(Samples) /\ Evenly(t, m, g, FlattenSeq(t))
    BY <2>1, FlattenEqual
  <2>3. QED
    BY <1>4, <2>2 DEF Evenly
<1>10. Len(v) \div g = m /\ Len(v) % g = 0
  <2> DEFINE zero == 0
             l == Len(v)
  <2>1. zero \in 0..(g - 1) /\ l = g * m + zero
    BY <1>1, <1>8, <1>9
  <2>2. m \in Nat /\ g \in Nat \ {0}
    BY <1>1, <1>8
  <2> HIDE DEF zero, l, g
  <2>3. l \div g = m /\ l % g = zero
    BY <2>1, <2>2, Quotient
  <2>4. QED
    BY <2>3 DEF zero, l
<1>11. Len(v) <= Len(b)
  <2>1. m * g <= n * g
    BY <1>1, <1>2, <1>5, <1>8, ProductGrows
  <2>2. QED
    BY <1>2, <1>9, <2>1
<1>12. Rows(v, b, h)
  <2>1. \A k \in 1..m : \A j \in 1..g : v[(k - 1) * g + j] = b[(h[k] - 1) * g + j]
    <3> HIDE DEF g
    <3>1. SUFFICES ASSUME NEW k \in 1..m, NEW j \in 1..g
                   PROVE  v[(k - 1) * g + j] = b[(h[k] - 1) * g + j]
      OBVIOUS
    <3>2. h[k] \in 1..n /\ t[k] = s[h[k]]
      BY <1>7
    <3>3. v[(k - 1) * g + j] = t[k][j] /\ s[h[k]][j] = b[(h[k] - 1) * g + j]
      BY <1>3, <1>9, <3>2
    <3>4. QED
      BY <3>2, <3>3
  <2>2. QED
    BY <1>7, <1>10, <2>1 DEF Rows, n, s, g
<1>13. QED
  BY <1>9, <1>10, <1>11, <1>12 DEF v, g, Whole

\* The slot of b that slot i of v has the sample of.
At(h, i) == (h[Block(i) + 1] - 1) * job.g + Offset(i)

\* Where the samples of kept groups come from.
LEMMA RowPlace ==
  ASSUME job \in Jobs, NEW b \in Seq(Samples), Whole(b), NEW v \in Seq(Samples), Whole(v),
         NEW h, Rows(v, b, h), NEW i \in 1..Len(v)
  PROVE  /\ At(h, i) \in 1..Len(b) /\ v[i] = b[At(h, i)]
         /\ Block(i) + 1 \in 1..(Len(v) \div job.g) /\ h[Block(i) + 1] \in Nat \ {0}
         /\ Block(At(h, i)) = h[Block(i) + 1] - 1 /\ Offset(At(h, i)) = Offset(i)
<1> DEFINE k == Block(i) + 1
           j == Offset(i)
           n == Len(v) \div job.g
           m == Len(b) \div job.g
<1>1. k - 1 \in Nat /\ k - 1 = Block(i) /\ j \in 1..(job.g) /\ i = (k - 1) * job.g + j
  BY BlockParts
<1>2. k \in 1..n /\ m \in Nat /\ \A x \in 1..m : (x - 1) * job.g + j \in 1..Len(b)
  BY <1>1, BlockRange DEF Whole
<1> HIDE DEF k, j, n, m
<1>3. h[k] \in 1..m /\ v[(k - 1) * job.g + j] = b[(h[k] - 1) * job.g + j]
  BY <1>1, <1>2 DEF Rows, n, m
<1>4. At(h, i) = (h[k] - 1) * job.g + j
  BY DEF At, k, j
<1> DEFINE x == h[k] - 1
<1>5. x \in Nat /\ h[k] \in Nat \ {0}
  BY <1>2, <1>3
<1>6. Block(x * job.g + j) = x /\ ((x * job.g + j) - 1) % job.g = j - 1
  <2> HIDE DEF x
  <2>1. QED
    BY <1>1, <1>5, BlockOf
<1>7. At(h, i) \in 1..Len(b)
  BY <1>2, <1>3, <1>4
<1>8. Offset(At(h, i)) = j
  <2>1. j \in Int
    BY <1>1, JobOptions
  <2>2. QED
    BY <1>4, <1>6, <2>1 DEF Offset
<1>9. QED
  BY <1>1, <1>2, <1>3, <1>4, <1>5, <1>6, <1>7, <1>8 DEF k, j, n

\* Groups of a generated batch that have variance are groups of one generation.
LEMMA RowsKept ==
  ASSUME job \in Jobs, NEW b, NEW r, Generated(b, r), NEW v \in Seq(Samples), Whole(v),
         NEW h, Rows(v, b, h)
  PROVE  /\ Proper(v) /\ Grouped(v) /\ Once(v) /\ Clean(v)
         /\ \A i \in DOMAIN v : v[i].round = r
<1>1. /\ b \in Seq(Samples) /\ Whole(b)
      /\ \A i \in DOMAIN b : Encodes(b[i].prompt) /\ b[i].round = r /\ b[i].slot = i
  BY DEF Generated, Proper
<1>2. DOMAIN b = 1..Len(b) /\ DOMAIN v = 1..Len(v)
  BY <1>1
<1>3. \A i \in DOMAIN v :
        /\ At(h, i) \in DOMAIN b /\ v[i] = b[At(h, i)]
        /\ Block(i) + 1 \in 1..(Len(v) \div job.g) /\ h[Block(i) + 1] \in Nat \ {0}
        /\ Block(At(h, i)) = h[Block(i) + 1] - 1 /\ Offset(At(h, i)) = Offset(i)
  BY <1>1, <1>2, RowPlace
<1>4. \A i \in DOMAIN v : Encodes(v[i].prompt) /\ v[i].round = r /\ v[i].slot = At(h, i)
  BY <1>1, <1>3
<1>5. \A i, k \in DOMAIN v : Block(i) = Block(k) => Block(At(h, i)) = Block(At(h, k))
  BY <1>3
<1>6. Proper(v)
  BY <1>4 DEF Proper
<1>7. Grouped(v)
  BY <1>3, <1>5 DEF Grouped, Generated
<1>8. Once(v)
  <2>1. SUFFICES ASSUME NEW i \in DOMAIN v, NEW k \in DOMAIN v, At(h, i) = At(h, k)
                 PROVE  i = k
    BY <1>4 DEF Once
  <2>2. h[Block(i) + 1] = h[Block(k) + 1] /\ Offset(i) = Offset(k)
    BY <1>3, <2>1
  <2>3. Block(i) + 1 = Block(k) + 1
    BY <1>3, <2>2 DEF Rows
  <2>4. i \in Nat \ {0} /\ k \in Nat \ {0}
    BY <1>2
  <2>5. /\ Block(i) \in Nat /\ i = Block(i) * job.g + Offset(i)
        /\ Block(k) \in Nat /\ k = Block(k) * job.g + Offset(k)
    BY <2>4, BlockParts
  <2>6. Block(i) = Block(k)
    BY <2>3, <2>5
  <2>7. QED
    BY <2>2, <2>5, <2>6
<1>9. Clean(v)
  <2>1. SUFFICES ASSUME NEW i \in DOMAIN v
                 PROVE  \E a, c \in DOMAIN v :
                          Block(a) = Block(i) /\ Block(c) = Block(i) /\ v[a].reward # v[c].reward
    BY DEF Clean
  <2> DEFINE k == Block(i) + 1
             row == Parts(b, job.g)[h[k]]
  <2>2. k \in 1..(Len(v) \div job.g) /\ k - 1 \in Nat /\ k - 1 = Block(i)
    <3>1. i \in Nat \ {0}
      BY <1>2
    <3>2. Block(i) \in Nat
      BY <3>1, BlockParts
    <3>3. QED
      BY <1>3, <3>2
  <2>3. h[k] \in 1..(Len(b) \div job.g) /\ Varied(row)
    BY <2>2 DEF Rows
  <2>4. job.g \in Nat \ {0}
    BY JobOptions
  <2>5. /\ Len(row) = job.g
        /\ \A j \in 1..(job.g) : row[j] = b[(h[k] - 1) * job.g + j]
    <3>1. Cut(b, job.g, Parts(b, job.g))
      BY <1>1, <2>4, PartsAre
    <3> DEFINE y == h[k]
    <3>2. y \in 1..(Len(b) \div job.g) /\ row = Parts(b, job.g)[y]
      BY <2>3
    <3> HIDE DEF y, row
    <3>3. Len(row) = job.g /\ \A j \in 1..(job.g) : row[j] = b[(y - 1) * job.g + j]
      BY <3>1, <3>2 DEF Cut
    <3>4. QED
      BY <3>3 DEF y
  <2> HIDE DEF k
  <2>6. \A j \in 1..(job.g) :
          /\ (k - 1) * job.g + j \in DOMAIN v /\ Block((k - 1) * job.g + j) = Block(i)
          /\ v[(k - 1) * job.g + j] = row[j]
    <3>1. SUFFICES ASSUME NEW j \in 1..(job.g)
                   PROVE  /\ (k - 1) * job.g + j \in DOMAIN v
                          /\ Block((k - 1) * job.g + j) = Block(i)
                          /\ v[(k - 1) * job.g + j] = row[j]
      OBVIOUS
    <3>2. (k - 1) * job.g + j \in DOMAIN v
      BY <1>2, <2>2, BlockRange DEF Whole
    <3>3. Block((k - 1) * job.g + j) = Block(i)
      BY <2>2, BlockOf
    <3>4. v[(k - 1) * job.g + j] = row[j]
      BY <2>2, <2>5 DEF Rows
    <3>5. QED
      BY <3>2, <3>3, <3>4
  <2>7. PICK a \in 1..(job.g), c \in 1..(job.g) : row[a].reward # row[c].reward
    BY <2>3, <2>5 DEF Varied
  <2>8. QED
    BY <2>6, <2>7
<1>10. QED
  BY <1>4, <1>6, <1>7, <1>8, <1>9

\* Slots behind whole groups begin groups of their own.
LEMMA BlockBehind ==
  ASSUME job \in Jobs, NEW l \in Nat, l % job.g = 0, NEW i \in Nat \ {0}
  PROVE  /\ Block(l + i) = (l \div job.g) + Block(i)
         /\ Block(i) \in Nat /\ l \div job.g \in Nat
         /\ Block(i) < l \div job.g <=> i <= l
<1> DEFINE q == l \div job.g
           b == Block(i)
           o == Offset(i)
           g == job.g
<1>1. g \in Nat \ {0} /\ q \in Nat /\ l = q * g
  BY JobOptions, BlockRange
<1>2. b \in Nat /\ o \in 1..g /\ i = b * g + o
  BY BlockParts
<1> HIDE DEF q, b, o
<1>3. Block(l + i) = q + b
  <2> DEFINE x == q + b
  <2>1. x \in Nat /\ l + i = x * g + o
    BY <1>1, <1>2
  <2> HIDE DEF x
  <2>2. Block(x * g + o) = x
    BY <1>2, <2>1, BlockOf
  <2>3. QED
    BY <2>1, <2>2 DEF x
<1>4. b < q => i <= l
  <2>1. SUFFICES ASSUME b < q PROVE i <= l
    OBVIOUS
  <2>2. b + 1 \in Nat /\ b + 1 <= q /\ g \in Nat
    BY <1>1, <1>2, <2>1
  <2> DEFINE c == b + 1
  <2>3. c * g = b * g + g /\ b * g \in Nat
    BY <1>1, <1>2
  <2> HIDE DEF c
  <2>4. c \in Nat /\ c <= q /\ g \in Nat
    BY <2>2 DEF c
  <2> HIDE DEF g
  <2>5. c * g <= q * g
    BY <1>1, <2>4, ProductGrows
  <2>6. QED
    BY <1>1, <1>2, <2>3, <2>5
<1>5. i <= l => b < q
  <2>1. SUFFICES ASSUME q <= b PROVE ~(i <= l)
    BY <1>1, <1>2
  <2>2. q * g <= b * g /\ b * g \in Nat /\ q * g \in Nat
    BY <1>1, <1>2, <2>1, ProductGrows
  <2>3. QED
    BY <1>1, <1>2, <2>2
<1>6. QED
  BY <1>1, <1>2, <1>3, <1>4, <1>5 DEF q, b

\* The groups kept of one more round.
LEMMA Joined ==
  ASSUME job \in Jobs, NEW r \in Nat, NEW u, Collected(u, r),
         NEW v, Proper(v), Grouped(v), Once(v), Clean(v), \A i \in DOMAIN v : v[i].round = r
  PROVE  Collected(u \o v, r + 1)
<1> DEFINE w == u \o v
           l == Len(u)
           q == l \div job.g
<1>1. u \in Seq(Samples) /\ v \in Seq(Samples) /\ l \in Nat /\ Len(v) \in Nat
  BY DEF Collected, Proper
<1>2. /\ w \in Seq(Samples) /\ Len(w) = l + Len(v)
      /\ \A i \in 1..l : w[i] = u[i]
      /\ \A i \in 1..Len(v) : w[l + i] = v[i]
  BY <1>1
<1>3. DOMAIN u = 1..l /\ DOMAIN v = 1..Len(v) /\ DOMAIN w = 1..(l + Len(v))
  BY <1>1, <1>2
<1>4. l % job.g = 0 /\ Len(v) % job.g = 0
  BY DEF Collected, Proper, Whole
<1> HIDE DEF w, l, q
<1>5. \A i \in DOMAIN w :
        \/ i \in DOMAIN u /\ w[i] = u[i] /\ Block(i) < q /\ Block(i) \in Nat
        \/ /\ i - l \in DOMAIN v /\ w[i] = v[i - l] /\ Block(i) >= q
           /\ Block(i) = q + Block(i - l) /\ Block(i - l) \in Nat
  <2>1. SUFFICES ASSUME NEW i \in DOMAIN w
                 PROVE  \/ i \in DOMAIN u /\ w[i] = u[i] /\ Block(i) < q /\ Block(i) \in Nat
                        \/ /\ i - l \in DOMAIN v /\ w[i] = v[i - l] /\ Block(i) >= q
                           /\ Block(i) = q + Block(i - l) /\ Block(i - l) \in Nat
    OBVIOUS
  <2>2. CASE i <= l
    <3>1. i \in DOMAIN u /\ i \in Nat \ {0} /\ w[i] = u[i]
      BY <1>1, <1>2, <1>3, <2>2
    <3>2. Block(i) < q /\ Block(i) \in Nat
      BY <1>1, <1>4, <2>2, <3>1, BlockBehind DEF q
    <3>3. QED
      BY <3>1, <3>2
  <2>3. CASE ~(i <= l)
    <3> DEFINE k == i - l
    <3>1. k \in DOMAIN v /\ k \in Nat \ {0} /\ i = l + k /\ k \in 1..Len(v)
      BY <1>1, <1>3, <2>3
    <3> HIDE DEF k
    <3>2. w[i] = v[k]
      BY <1>2, <3>1
    <3>3. Block(i) = q + Block(k) /\ Block(k) \in Nat /\ q \in Nat
      BY <1>1, <1>4, <3>1, BlockBehind DEF q
    <3>4. Block(i) >= q
      BY <3>3
    <3>5. QED
      BY <3>1, <3>2, <3>3, <3>4 DEF k
  <2>4. QED
    BY <2>2, <2>3
<1>6. q \in Nat
  BY <1>1, <1>4, BlockRange DEF q
<1>7. \A i \in DOMAIN u : u[i].round < r /\ u[i].round \in Nat
  <2>1. \A i \in DOMAIN u : u[i] \in Samples
    BY <1>1
  <2>2. \A i \in DOMAIN u : u[i].round \in Nat
    <3>1. job.retries \in Nat
      BY JobOptions
    <3>2. QED
      BY <2>1, <3>1 DEF Samples
  <2>3. QED
    BY <2>2 DEF Collected
<1>8. Proper(w)
  <2>1. Whole(w)
    <3> DEFINE m == Len(v) \div job.g
               g == job.g
               zero == 0
               s == q + m
               n == Len(w)
    <3>1. g \in Nat \ {0} /\ m \in Nat /\ Len(v) = m * g /\ l = q * g
      BY <1>1, <1>4, BlockRange, JobOptions DEF q
    <3>2. n = g * s + zero /\ s \in Nat /\ zero \in 0..(g - 1)
      <4> DEFINE x == q * g
                 y == m * g
      <4>1. s \in Nat /\ zero \in 0..(g - 1)
        BY <1>6, <3>1
      <4> HIDE DEF m, g
      <4>2. g * s = x + y /\ x \in Nat /\ y \in Nat
        BY <1>6, <3>1
      <4>3. n = x + y
        BY <1>2, <3>1
      <4> HIDE DEF x, y, s, n
      <4>4. QED
        BY <4>1, <4>2, <4>3
    <3> HIDE DEF g, zero, s, n
    <3>3. n % g = zero
      BY <3>1, <3>2, Quotient
    <3>4. QED
      BY <3>3 DEF n, g, zero, Whole
  <2>2. \A i \in DOMAIN w : Encodes(w[i].prompt)
    BY <1>5 DEF Collected, Proper
  <2>3. \A i, k \in DOMAIN w : Block(i) = Block(k) => w[i].round = w[k].round
    <3>1. SUFFICES ASSUME NEW i \in DOMAIN w, NEW k \in DOMAIN w, Block(i) = Block(k)
                   PROVE  w[i].round = w[k].round
      OBVIOUS
    <3>2. CASE Block(i) < q
      <4>1. i \in DOMAIN u /\ w[i] = u[i] /\ k \in DOMAIN u /\ w[k] = u[k]
        BY <1>5, <1>6, <3>1, <3>2
      <4>2. QED
        BY <3>1, <4>1 DEF Collected, Proper
    <3>3. CASE ~(Block(i) < q)
      BY <1>5, <1>6, <3>1, <3>3
    <3>4. QED
      BY <3>2, <3>3
  <2>4. QED
    BY <1>2, <2>1, <2>2, <2>3 DEF Proper
<1>9. Grouped(w)
  <2>1. SUFFICES ASSUME ~Mixed, NEW i \in DOMAIN w, NEW k \in DOMAIN w, Block(i) = Block(k)
                 PROVE  w[i].prompt = w[k].prompt
    BY DEF Grouped
  <2>2. CASE Block(i) < q
    <3>1. i \in DOMAIN u /\ w[i] = u[i] /\ k \in DOMAIN u /\ w[k] = u[k]
      BY <1>5, <1>6, <2>1, <2>2
    <3>2. QED
      BY <2>1, <3>1 DEF Collected, Grouped
  <2>3. CASE ~(Block(i) < q)
    <3>1. /\ i - l \in DOMAIN v /\ w[i] = v[i - l] /\ k - l \in DOMAIN v /\ w[k] = v[k - l]
          /\ Block(i - l) = Block(k - l)
      BY <1>5, <1>6, <2>1, <2>3
    <3>2. QED
      BY <2>1, <3>1 DEF Grouped
  <2>4. QED
    BY <2>2, <2>3
<1>10. Once(w)
  <2>1. SUFFICES ASSUME NEW i \in DOMAIN w, NEW k \in DOMAIN w,
                        w[i].round = w[k].round, w[i].slot = w[k].slot
                 PROVE  i = k
    BY DEF Once
  <2>2. CASE i \in DOMAIN u /\ w[i] = u[i]
    <3>1. w[k].round < r
      BY <1>7, <2>1, <2>2
    <3>2. k \in DOMAIN u /\ w[k] = u[k]
      BY <1>5, <3>1
    <3>3. QED
      BY <2>1, <2>2, <3>2 DEF Collected, Once
  <2>3. CASE i - l \in DOMAIN v /\ w[i] = v[i - l]
    <3>1. w[k].round = r
      BY <2>1, <2>3
    <3>2. k - l \in DOMAIN v /\ w[k] = v[k - l]
      BY <1>5, <1>7, <3>1
    <3>3. i - l = k - l
      BY <2>1, <2>3, <3>2 DEF Once
    <3>4. QED
      BY <1>1, <1>3, <3>3
  <2>4. QED
    BY <1>5, <2>2, <2>3
<1>11. Clean(w)
  <2>1. SUFFICES ASSUME NEW i \in DOMAIN w
                 PROVE  \E a, c \in DOMAIN w :
                          Block(a) = Block(i) /\ Block(c) = Block(i) /\ w[a].reward # w[c].reward
    BY DEF Clean
  <2>2. CASE i \in DOMAIN u
    <3>1. PICK a \in DOMAIN u, c \in DOMAIN u :
            Block(a) = Block(i) /\ Block(c) = Block(i) /\ u[a].reward # u[c].reward
      BY <2>2 DEF Collected, Clean
    <3>2. a \in DOMAIN w /\ c \in DOMAIN w /\ w[a] = u[a] /\ w[c] = u[c]
      BY <1>1, <1>2, <1>3
    <3>3. QED
      BY <3>1, <3>2
  <2>3. CASE i - l \in DOMAIN v /\ Block(i) = q + Block(i - l)
    <3>1. PICK a \in DOMAIN v, c \in DOMAIN v :
            /\ Block(a) = Block(i - l) /\ Block(c) = Block(i - l)
            /\ v[a].reward # v[c].reward
      BY <2>3 DEF Clean
    <3>2. /\ l + a \in DOMAIN w /\ l + c \in DOMAIN w /\ w[l + a] = v[a] /\ w[l + c] = v[c]
          /\ a \in Nat \ {0} /\ c \in Nat \ {0}
      BY <1>1, <1>2, <1>3
    <3>3. Block(l + a) = q + Block(a) /\ Block(l + c) = q + Block(c)
      BY <1>1, <1>4, <3>2, BlockBehind DEF q
    <3>4. QED
      BY <2>3, <3>1, <3>2, <3>3
  <2>4. QED
    BY <1>5, <2>2, <2>3
<1>12. \A i \in DOMAIN w : w[i].round < r + 1
  <2>1. SUFFICES ASSUME NEW i \in DOMAIN w PROVE w[i].round < r + 1
    OBVIOUS
  <2>2. CASE i \in DOMAIN u /\ w[i] = u[i]
    BY <1>7, <2>2
  <2>3. CASE i - l \in DOMAIN v /\ w[i] = v[i - l]
    BY <2>3
  <2>4. QED
    BY <1>5, <2>2, <2>3
<1>13. QED
  BY <1>8, <1>9, <1>10, <1>11, <1>12 DEF Collected, w

\* A batch holds the samples of every rank, and num_generations for each prompt.
LEMMA BatchSizes ==
  ASSUME job \in Jobs
  PROVE  /\ BatchSize(job) \in Nat \ {0} /\ BatchSize(job) % job.g = 0
         /\ World(job) \in Nat \ {0} /\ BatchSize(job) = World(job) * job.per
         /\ PromptCount(job) \in Nat \ {0} /\ BatchSize(job) = PromptCount(job) * job.g
<1>1. /\ World(job) = Groups * GroupSize /\ Groups \in Nat \ {0} /\ GroupSize \in Nat \ {0}
      /\ job.per \in Nat \ {0} /\ BatchSize(job) % job.g = 0 /\ job.g \in Nat \ {0}
  BY GroupsPositive, JobOptions
<1>2. World(job) \in Nat \ {0}
  BY <1>1
<1>3. BatchSize(job) = World(job) * job.per
  BY DEF BatchSize
<1>4. BatchSize(job) \in Nat \ {0}
  BY <1>1, <1>2, <1>3
<1> DEFINE n == BatchSize(job)
           q == n \div job.g
<1>5. q \in Nat /\ n = q * job.g
  BY <1>1, <1>4, BlockRange
<1>6. q # 0
  <2> HIDE DEF q, n
  <2>1. CASE q = 0
    BY <1>1, <1>4, <1>5, <2>1 DEF n
  <2>2. QED
    BY <2>1
<1>7. PromptCount(job) = q
  BY DEF PromptCount
<1>8. QED
  BY <1>1, <1>2, <1>3, <1>4, <1>5, <1>6, <1>7

\* The first groups of what dynamic sampling has kept.
LEMMA FirstGroups ==
  ASSUME job \in Jobs, NEW n, NEW w, Collected(w, n), NEW l \in Nat, l <= Len(w), l % job.g = 0
  PROVE  /\ Proper(SubSeq(w, 1, l)) /\ Grouped(SubSeq(w, 1, l)) /\ Once(SubSeq(w, 1, l))
         /\ Clean(SubSeq(w, 1, l)) /\ Len(SubSeq(w, 1, l)) = l
<1> DEFINE u == SubSeq(w, 1, l)
<1>1. w \in Seq(Samples) /\ Len(w) \in Nat
  BY DEF Collected, Proper
<1>2. u \in Seq(Samples) /\ Len(u) = l /\ \A i \in 1..l : u[i] = w[i]
  <2>1. 1 \in 1..(Len(w) + 1) /\ l \in (1 - 1)..Len(w) /\ l - 1 + 1 = l
    BY <1>1
  <2>2. /\ u \in Seq(Samples) /\ Len(u) = l - 1 + 1
        /\ \A i \in 1..(l - 1 + 1) : u[i] = w[1 + i - 1]
    BY <1>1, <2>1, SubSeqProperties
  <2> HIDE DEF u
  <2>3. QED
    BY <2>1, <2>2
<1> HIDE DEF u
<1>3. DOMAIN u = 1..l /\ DOMAIN u \subseteq DOMAIN w /\ \A i \in DOMAIN u : u[i] = w[i]
  BY <1>1, <1>2
<1>4. Whole(u)
  BY <1>2 DEF Whole
<1>5. Proper(u)
  BY <1>2, <1>3, <1>4 DEF Proper, Collected
<1>6. Grouped(u) /\ Once(u)
  BY <1>3 DEF Grouped, Once, Collected
<1>7. Clean(u)
  <2>1. SUFFICES ASSUME NEW i \in DOMAIN u
                 PROVE  \E a, c \in DOMAIN u :
                          Block(a) = Block(i) /\ Block(c) = Block(i) /\ u[a].reward # u[c].reward
    BY DEF Clean
  <2>2. PICK a \in DOMAIN w, c \in DOMAIN w :
          Block(a) = Block(i) /\ Block(c) = Block(i) /\ w[a].reward # w[c].reward
    BY <1>3, <2>1 DEF Collected, Clean
  <2>3. i \in Nat \ {0} /\ a \in Nat \ {0} /\ c \in Nat \ {0} /\ i <= l
    BY <1>1, <1>3, <2>1
  <2>4. Block(i) < l \div job.g
    BY <2>3, BlockBehind
  <2>5. a <= l /\ c <= l
    BY <2>2, <2>3, <2>4, BlockBehind
  <2>6. a \in DOMAIN u /\ c \in DOMAIN u
    BY <1>3, <2>3, <2>5
  <2>7. QED
    BY <1>3, <2>2, <2>6
<1>8. QED
  BY <1>2, <1>5, <1>6, <1>7 DEF u

-----------------------------------------------------------------------------
(* The prompts of a generation.                                            *)

Fitting == {p \in 0..(Prompts - 1) : Encodes(p)}

\* Where a position lies when parts of m follow one another.
LEMMA PlaceInPart ==
  ASSUME NEW n \in Nat, NEW m \in Nat \ {0}, NEW i \in 1..(n * m)
  PROVE  /\ (i - 1) \div m \in 0..(n - 1) /\ (i - 1) % m \in 0..(m - 1)
         /\ i = ((i - 1) \div m) * m + ((i - 1) % m) + 1
<1> DEFINE z == i - 1
           q == z \div m
           r == z % m
           c == n * m
<1>1. c \in Nat /\ i \in 1..c
  OBVIOUS
<1>2. z \in Nat /\ z < c /\ i = z + 1
  <2> HIDE DEF c
  <2>1. QED
    BY <1>1
<1> HIDE DEF z
<1>3. q \in Nat /\ r \in 0..(m - 1) /\ z = m * q + r
  BY <1>2, Divided
<1> HIDE DEF q, r
<1>4. q < n
  <2>1. SUFFICES ASSUME n <= q PROVE FALSE
    BY <1>3
  <2>2. n * m <= q * m /\ q * m \in Nat
    BY <1>3, <2>1, ProductGrows
  <2>3. m * q = q * m
    BY <1>3
  <2>4. QED
    BY <1>1, <1>2, <1>3, <2>2, <2>3 DEF c
<1>5. m * q = q * m /\ q * m \in Nat
  BY <1>3
<1>6. i = q * m + r + 1
  BY <1>2, <1>3, <1>5
<1>7. QED
  BY <1>3, <1>4, <1>6 DEF q, r, z

\* num_generations slots for each prompt.
Repeats(u, ps, n) ==
  \A i \in 1..(n * job.g) : Block(i) + 1 \in 1..n /\ u[i] = ps[Block(i) + 1]

\* Repeated repeats.
LEMMA RepeatedIs ==
  ASSUME job \in Jobs, NEW T, NEW n \in Nat, NEW ps \in [1..n -> T]
  PROVE  /\ Repeated(ps) \in [1..(n * job.g) -> T] /\ Len(ps) = n
         /\ Repeats(Repeated(ps), ps, n)
<1>1. job.g \in Nat \ {0}
  BY JobOptions
<1>2. Len(ps) = n
  OBVIOUS
<1>3. \A i \in 1..(n * job.g) : Block(i) + 1 \in 1..n
  <2>1. SUFFICES ASSUME NEW i \in 1..(n * job.g) PROVE Block(i) + 1 \in 1..n
    OBVIOUS
  <2>2. Block(i) \in 0..(n - 1)
    BY <1>1, PlaceInPart DEF Block
  <2>3. QED
    BY <2>2
<1>4. Repeated(ps) = [i \in 1..(n * job.g) |-> ps[Block(i) + 1]]
  BY <1>2 DEF Repeated, Block
<1>5. QED
  BY <1>2, <1>3, <1>4 DEF Repeats

\* What encodes of a part, in its order.
Kept(p) == FlattenSeq([i \in 1..Len(p) |-> IF Encodes(p[i]) THEN <<p[i]>> ELSE <<>>])

\* What is kept of a part encodes, and is all of it if all of it does.
LEMMA KeptIs ==
  ASSUME NEW m \in Nat, NEW p \in [1..m -> 0..(Prompts - 1)]
  PROVE  /\ Kept(p) \in Seq(0..(Prompts - 1)) /\ Len(Kept(p)) <= m
         /\ \A i \in 1..Len(Kept(p)) : Kept(p)[i] \in Fitting
         /\ (\A i \in 1..m : Encodes(p[i])) => Len(Kept(p)) = m /\ \A i \in 1..m : Kept(p)[i] = p[i]
<1> DEFINE T == 0..(Prompts - 1)
           t == Kept(p)
<1>1. \A i \in 1..m : p[i] \in T /\ (p[i] \in Fitting <=> Encodes(p[i]))
  BY DEF Fitting
<1>2. t = FlattenSeq(Selection(p, m, Fitting))
  <2>1. Len(p) = m
    OBVIOUS
  <2>2. Selection(p, m, Fitting) = [i \in 1..m |-> IF Encodes(p[i]) THEN <<p[i]>> ELSE <<>>]
    BY <1>1 DEF Selection
  <2>3. QED
    BY <2>1, <2>2 DEF Kept
<1> HIDE DEF t, T
<1>3. p \in [1..m -> T]
  BY DEF T
<1>4. /\ t \in Seq(T) /\ Len(t) <= m
      /\ \E h : Picked(p, m, Fitting, t, h)
  BY <1>2, <1>3, SelectionPicks
<1>5. \A i \in 1..Len(t) : t[i] \in Fitting
  BY <1>4 DEF Picked
<1>6. ASSUME \A i \in 1..m : Encodes(p[i])
      PROVE  Len(t) = m /\ \A i \in 1..m : t[i] = p[i]
  <2>1. \A i \in 1..m : p[i] \in Fitting
    BY <1>1, <1>6
  <2>2. QED
    BY <1>2, <1>3, <2>1, SelectionOfAll
<1>7. QED
  BY <1>4, <1>5, <1>6 DEF t, T

\* Replacing what does not encode, part by part.
LEMMA Refilled ==
  ASSUME NEW s \in Seq(0..(Prompts - 1)), NEW size \in Nat \ {0}, NEW n \in Nat, Len(s) = n * size,
         NEW fresh \in Seq(Fitting), Len(s) <= Len(fresh)
  PROVE  /\ Refill(s, size, fresh) \in Seq(Fitting) /\ Len(Refill(s, size, fresh)) = Len(s)
         /\ AllEncode(s) => \A i \in 1..Len(s) : Refill(s, size, fresh)[i] = s[i]
<1> DEFINE T == 0..(Prompts - 1)
           p == Parts(s, size)
           f == Parts(fresh, size)
           u == [x \in 1..n |-> [i \in 1..size |-> IF i <= Len(Kept(p[x])) THEN Kept(p[x])[i]
                                                   ELSE f[x][i]]]
           t == FlattenSeq(u)
<1>1. Len(s) \in Nat /\ Len(fresh) \in Nat /\ Len(s) \div size = n /\ n <= Len(fresh) \div size
  <2> DEFINE l == Len(s)
             zero == 0
  <2>1. l \in Nat /\ Len(fresh) \in Nat /\ l = size * n + zero /\ zero \in 0..(size - 1)
    OBVIOUS
  <2>2. l <= Len(fresh)
    OBVIOUS
  <2> HIDE DEF zero, l
  <2>3. l \div size = n
    BY <2>1, Quotient
  <2>4. l \div size <= Len(fresh) \div size
    BY <2>1, <2>2, QuotientGrows
  <2>5. QED
    BY <2>1, <2>3, <2>4 DEF l
<1>2. /\ p \in [1..n -> Seq(T)] /\ \A x \in 1..n : Len(p[x]) = size
      /\ \A x \in 1..n : \A j \in 1..size : p[x][j] = s[(x - 1) * size + j]
  <2> HIDE DEF p
  <2>1. p \in [1..n -> Seq(T)] /\ Cut(s, size, p)
    BY <1>1, PartsAre DEF p
  <2>2. QED
    BY <1>1, <2>1 DEF Cut
<1>3. \A x \in 1..n : \A j \in 1..size : f[x][j] \in Fitting
  <2> HIDE DEF f
  <2>1. Len(fresh) \div size \in Nat /\ Cut(fresh, size, f)
    BY PartsAre DEF f
  <2>2. SUFFICES ASSUME NEW x \in 1..n, NEW j \in 1..size PROVE f[x][j] \in Fitting
    OBVIOUS
  <2>3. x \in 1..(Len(fresh) \div size)
    BY <1>1, <2>1
  <2>4. (x - 1) * size + j \in 1..Len(fresh) /\ f[x][j] = fresh[(x - 1) * size + j]
    BY <2>1, <2>3 DEF Cut
  <2>5. QED
    BY <2>4
<1>4. Refill(s, size, fresh) = t
  BY <1>1 DEF Refill, Kept, Selected
<1> HIDE DEF p, f
<1>5. ASSUME NEW x \in 1..n
      PROVE  /\ \A i \in 1..Len(Kept(p[x])) : Kept(p[x])[i] \in Fitting
             /\ Len(Kept(p[x])) \in Nat
             /\ (\A i \in 1..size : Encodes(p[x][i])) =>
                  Len(Kept(p[x])) = size /\ \A i \in 1..size : Kept(p[x])[i] = p[x][i]
  <2> DEFINE c == p[x]
  <2>1. c \in Seq(T) /\ Len(c) = size
    BY <1>2
  <2> HIDE DEF c
  <2>2. size \in Nat /\ c \in [1..size -> 0..(Prompts - 1)]
    <3> HIDE DEF T
    <3>1. c \in [1..size -> T]
      BY <2>1
    <3>2. QED
      BY <3>1 DEF T
  <2>3. /\ Kept(c) \in Seq(0..(Prompts - 1)) /\ \A i \in 1..Len(Kept(c)) : Kept(c)[i] \in Fitting
        /\ (\A i \in 1..size : Encodes(c[i])) =>
             Len(Kept(c)) = size /\ \A i \in 1..size : Kept(c)[i] = c[i]
    BY <2>2, KeptIs
  <2>4. Len(Kept(c)) \in Nat
    BY <2>3
  <2>5. QED
    BY <2>3, <2>4 DEF c
<1>6. \A x \in 1..n : \A i \in 1..size : u[x][i] \in Fitting
  <2>1. SUFFICES ASSUME NEW x \in 1..n, NEW i \in 1..size PROVE u[x][i] \in Fitting
    OBVIOUS
  <2>2. u[x][i] = IF i <= Len(Kept(p[x])) THEN Kept(p[x])[i] ELSE f[x][i]
    OBVIOUS
  <2> HIDE DEF u
  <2>3. QED
    BY <1>3, <1>5, <2>2
<1>7. u \in [1..n -> Seq(Fitting)] /\ AllOf(u, n, size)
  <2>1. \A x \in 1..n : u[x] = [i \in 1..size |-> u[x][i]]
    OBVIOUS
  <2>2. u = [x \in 1..n |-> u[x]]
    OBVIOUS
  <2> HIDE DEF u
  <2>3. \A x \in 1..n : u[x] \in [1..size -> Fitting]
    BY <1>6, <2>1
  <2>4. \A x \in 1..n : u[x] \in Seq(Fitting) /\ Len(u[x]) = size
    <3>1. SUFFICES ASSUME NEW c \in [1..size -> Fitting] PROVE c \in Seq(Fitting) /\ Len(c) = size
      BY <2>3
    <3>2. QED
      OBVIOUS
  <2>5. QED
    BY <2>2, <2>4 DEF AllOf
<1>8. ASSUME \A i \in 1..Len(s) : Encodes(s[i]), NEW x \in 1..n, NEW j \in 1..size
      PROVE  u[x][j] = s[(x - 1) * size + j]
  <2>1. \A i \in 1..size : Encodes(p[x][i])
    <3>1. Cut(s, size, p)
      BY PartsAre DEF p
    <3>2. \A i \in 1..size : (x - 1) * size + i \in 1..Len(s) /\ p[x][i] = s[(x - 1) * size + i]
      BY <1>1, <3>1 DEF Cut
    <3>3. QED
      BY <1>8, <3>2
  <2>2. Len(Kept(p[x])) = size /\ Kept(p[x])[j] = p[x][j]
    BY <1>5, <2>1
  <2>3. u[x][j] = p[x][j]
    BY <2>2
  <2> HIDE DEF u
  <2>4. QED
    BY <1>2, <2>3
<1> HIDE DEF u
<1>9. t \in Seq(Fitting) /\ Evenly(u, n, size, t)
  BY <1>7, FlattenEqual
<1>10. ASSUME AllEncode(s), NEW i \in 1..Len(s) PROVE t[i] = s[i]
  <2>1. \A k \in 1..Len(s) : Encodes(s[k])
    BY <1>10 DEF AllEncode
  <2> DEFINE q == (i - 1) \div size
             x == q + 1
             j == ((i - 1) % size) + 1
  <2>2. i \in 1..(n * size)
    BY <1>10
  <2>3. q \in 0..(n - 1) /\ (i - 1) % size \in 0..(size - 1) /\ i = q * size + ((i - 1) % size) + 1
    BY <2>2, PlaceInPart
  <2>4. j \in 1..size /\ i = q * size + j
    <3> DEFINE r == (i - 1) % size
    <3>1. r \in 0..(size - 1) /\ i = q * size + r + 1 /\ j = r + 1 /\ q * size \in Int
      BY <2>3
    <3> HIDE DEF r, j, q
    <3>2. QED
      BY <3>1
  <2> HIDE DEF q, j
  <2>5. x \in 1..n /\ (x - 1) * size + j = i
    BY <2>3, <2>4
  <2>6. u[x][j] = s[i]
    BY <1>8, <2>1, <2>4, <2>5
  <2>7. t[i] = u[x][j]
    BY <1>9, <2>4, <2>5 DEF Evenly
  <2>8. QED
    BY <2>6, <2>7
<1>11. Len(t) = Len(s)
  BY <1>9 DEF Evenly
<1>12. QED
  BY <1>4, <1>9, <1>10, <1>11

-----------------------------------------------------------------------------
(* The slots of a Megatron rank.                                           *)

\* The slot of the sampler's order that slot i has the prompt of.
Source(i) ==
  DataIndex((i - 1) \div job.per) * Share + Place((i - 1) \div job.per) * job.per
    + ((i - 1) % job.per) + 1
\* tp ranks of one data index and one pipeline stage have consecutive slots.
Stretch == job.tp * job.per
\* The stretches are ordered by stage, then by data index; the sampler's by data index.
Moved(a) == (a % job.dp) * job.pp + (a \div job.dp)

\* A batch is made up of stretches.
LEMMA MegatronSizes ==
  ASSUME job \in Jobs, job.megatron
  PROVE  /\ Stretch \in Nat \ {0} /\ job.dp * job.pp \in Nat \ {0}
         /\ BatchSize(job) = (job.dp * job.pp) * Stretch
         /\ Groups = job.dp /\ Share = job.pp * Stretch
<1>1. /\ job.tp \in Nat \ {0} /\ job.dp \in Nat \ {0} /\ job.pp \in Nat \ {0}
      /\ job.per \in Nat \ {0}
  BY JobOptions
<1>2. Stretch \in Nat \ {0} /\ job.dp * job.pp \in Nat \ {0}
  BY <1>1 DEF Stretch
<1>3. BatchSize(job) = (job.tp * job.dp * job.pp) * job.per
  BY DEF BatchSize, World
<1> DEFINE a == job.tp
           b == job.dp
           c == job.pp
           d == job.per
<1>4. a \in Nat /\ b \in Nat /\ c \in Nat /\ d \in Nat
  BY <1>1
<1>5. (a * b * c) * d = (b * c) * (a * d) /\ (b * c) * (a * d) = b * (c * (a * d))
  <2> HIDE DEF a, b, c, d
  <2>1. QED
    BY <1>4
<1>6. Groups = job.dp
  BY DEF Groups
<1>7. Share = job.pp * Stretch
  <2> DEFINE n == BatchSize(job)
             m == job.pp * Stretch
             zero == 0
  <2>1. n = b * m + zero /\ m \in Nat /\ zero \in 0..(b - 1) /\ b \in Nat \ {0}
    <3>1. m \in Nat /\ zero \in 0..(b - 1) /\ b \in Nat \ {0}
      BY <1>1, <1>2
    <3>2. n = b * m
      BY <1>3, <1>5 DEF Stretch
    <3> HIDE DEF n, m
    <3>3. QED
      BY <3>1, <3>2
  <2> HIDE DEF n, m, zero, b
  <2>2. n \div b = m
    BY <2>1, Quotient
  <2>3. QED
    BY <1>6, <2>2 DEF n, m, b, Share
<1>8. QED
  BY <1>2, <1>3, <1>5, <1>6, <1>7 DEF Stretch

\* Where slot i has its prompt from: the stretches move, their slots stay in order.
LEMMA SourceIs ==
  ASSUME job \in Jobs, job.megatron, NEW i \in 1..BatchSize(job)
  PROVE  /\ (i - 1) \div Stretch \in 0..(job.dp * job.pp - 1)
         /\ (i - 1) % Stretch \in 0..(Stretch - 1)
         /\ Moved((i - 1) \div Stretch) \in 0..(job.dp * job.pp - 1)
         /\ Source(i) = Moved((i - 1) \div Stretch) * Stretch + ((i - 1) % Stretch) + 1
         /\ Source(i) \in 1..BatchSize(job)
         /\ job.pp = 1 \/ job.dp = 1 => Source(i) = i
<1> DEFINE t == job.tp
           p == job.per
           d == job.dp
           s == job.pp
           c == Stretch
           k == i - 1
           r == k \div p
           w == k % p
           a == r \div t
           e == r % t
           y == a % d
           z == a \div d
           h == y * s + z
           b == e * p + w
           all == d * s
<1>1. t \in Nat \ {0} /\ p \in Nat \ {0} /\ d \in Nat \ {0} /\ s \in Nat \ {0}
  BY JobOptions
<1>2. c \in Nat \ {0} /\ all \in Nat \ {0} /\ BatchSize(job) = all * c /\ Share = s * c /\ c = t * p
  BY MegatronSizes DEF Stretch
<1>3. k \in Nat
  OBVIOUS
<1>4. r \in Nat /\ w \in 0..(p - 1) /\ k = p * r + w
  BY <1>1, <1>3, Divided
<1>5. a \in Nat /\ e \in 0..(t - 1) /\ r = t * a + e
  BY <1>1, <1>4, Divided
<1>6. y \in 0..(d - 1) /\ z \in Nat /\ a = d * z + y
  BY <1>1, <1>5, Divided
<1>7. DataIndex(r) = y /\ Place(r) = (r \div (t * d)) * t + e
  BY DEF DataIndex, Place
<1>8. Source(i) = DataIndex(r) * Share + Place(r) * p + w + 1 /\ Moved(a) = h
  BY DEF Source, Moved
<1>9. c = Stretch /\ all = job.dp * job.pp
  OBVIOUS
<1> HIDE DEF t, p, d, s, c, all, k, r, w, a, e, y, z, h, b
<1>10. b \in 0..(c - 1)
  <2>1. e \in Nat /\ w \in Nat /\ e + 1 <= t /\ w + 1 <= p /\ e + 1 \in Nat
    BY <1>1, <1>4, <1>5
  <2> DEFINE f == e + 1
  <2>2. f * p <= t * p /\ f * p \in Nat /\ t * p \in Nat
    <3> HIDE DEF f
    <3>1. f \in Nat /\ f <= t /\ p \in Nat /\ t \in Nat
      BY <1>1, <2>1 DEF f
    <3>2. QED
      BY <3>1, ProductGrows
  <2>3. f * p = e * p + p /\ e * p \in Nat
    BY <1>1, <2>1
  <2> DEFINE x == e * p
             v == f * p
  <2>4. v <= c /\ v = x + p /\ x \in Nat /\ b = x + w
    BY <1>2, <2>2, <2>3 DEF b
  <2> HIDE DEF x, v, f
  <2>5. QED
    BY <1>1, <1>2, <1>4, <2>4
<1>11. k = c * a + b
  <2>1. k = p * (t * a + e) + w /\ e \in Nat /\ w \in Nat
    BY <1>1, <1>4, <1>5
  <2>2. p * (t * a + e) = (t * p) * a + e * p
    BY <1>1, <1>5, <2>1
  <2> DEFINE x == (t * p) * a
             v == e * p
  <2>3. x \in Nat /\ v \in Nat /\ x = c * a
    BY <1>1, <1>2, <1>5, <2>1
  <2> HIDE DEF x, v
  <2>4. k = x + v + w /\ b = v + w
    BY <2>1, <2>2 DEF x, v, b
  <2>5. QED
    BY <2>1, <2>3, <2>4
<1>12. k \div c = a /\ k % c = b
  <2>1. c \in Nat \ {0} /\ a \in Nat
    BY <1>2, <1>5
  <2>2. QED
    BY <1>10, <1>11, <2>1, Quotient
<1>13. a \in 0..(all - 1)
  <2>1. i \in 1..(all * c)
    BY <1>2
  <2>2. (i - 1) \div c \in 0..(all - 1)
    BY <1>2, <2>1, PlaceInPart
  <2>3. QED
    BY <1>12, <2>2 DEF k
<1>14. z \in 0..(s - 1)
  <2> DEFINE j == a + 1
  <2>1. j \in 1..(s * d) /\ j - 1 = a
    <3>1. all = s * d
      BY <1>1 DEF all, d, s
    <3>2. QED
      BY <1>2, <1>13, <3>1
  <2> HIDE DEF j
  <2>2. (j - 1) \div d \in 0..(s - 1)
    BY <1>1, <2>1, PlaceInPart
  <2>3. QED
    BY <2>1, <2>2 DEF z
<1>15. r \div (t * d) = z
  <2> DEFINE m == t * d
             v == y * t + e
  <2>1. m \in Nat \ {0} /\ y \in Nat /\ e \in Nat
    BY <1>1, <1>5, <1>6
  <2>2. v \in 0..(m - 1)
    <3> DEFINE f == y + 1
               x == y * t
               n == f * t
    <3>1. f \in Nat /\ f <= d /\ t \in Nat /\ d \in Nat
      BY <1>1, <1>6, <2>1
    <3>2. n = x + t /\ x \in Nat
      BY <1>1, <2>1
    <3>3. f * t <= d * t /\ d * t = m
      <4> HIDE DEF f
      <4>1. f * t <= d * t
        BY <3>1, ProductGrows
      <4>2. QED
        BY <3>1, <4>1
    <3>4. n <= m
      BY <3>3
    <3>5. v = x + e
      OBVIOUS
    <3> HIDE DEF f, x, n, m, v
    <3>6. QED
      BY <1>1, <1>5, <2>1, <3>2, <3>4, <3>5
  <2>3. r = m * z + v
    <3>1. r = t * (d * z + y) + e
      BY <1>5, <1>6
    <3>2. t * (d * z + y) = (t * d) * z + y * t
      BY <1>1, <1>6, <2>1
    <3> DEFINE x == (t * d) * z
               n == y * t
    <3>3. x \in Nat /\ n \in Nat
      BY <1>1, <1>6, <2>1
    <3>4. r = x + n + e /\ v = n + e /\ x = m * z
      BY <3>1, <3>2
    <3> HIDE DEF x, n, m, v
    <3>5. QED
      BY <2>1, <3>3, <3>4
  <2> HIDE DEF m, v
  <2>4. r \div m = z
    BY <1>6, <2>1, <2>2, <2>3, Quotient
  <2>5. QED
    BY <2>4 DEF m
<1>16. Source(i) = h * c + b + 1
  <2>1. Source(i) = y * (s * c) + (z * t + e) * p + w + 1
    BY <1>2, <1>7, <1>8, <1>15
  <2>2. (z * t + e) * p = z * (t * p) + e * p /\ e \in Nat /\ y \in Nat /\ w \in Nat
    BY <1>1, <1>4, <1>5, <1>6
  <2>3. (y * s + z) * c = y * (s * c) + z * c
    BY <1>1, <1>2, <1>6
  <2> DEFINE A == y * (s * c)
             B == z * c
             C == e * p
  <2>4. A \in Nat /\ B \in Nat /\ C \in Nat
    BY <1>1, <1>2, <1>6, <2>2
  <2>5. Source(i) = A + (B + C) + w + 1 /\ h * c = A + B /\ b = C + w
    BY <1>2, <2>1, <2>2, <2>3 DEF h, b
  <2> HIDE DEF A, B, C
  <2>6. QED
    BY <2>2, <2>4, <2>5
<1>17. h \in 0..(all - 1)
  <2> DEFINE f == y + 1
             A == y * s
             B == f * s
  <2>1. f \in Nat /\ f <= d /\ y \in Nat /\ s \in Nat /\ d \in Nat
    BY <1>1, <1>6
  <2>2. B = A + s /\ A \in Nat
    BY <2>1
  <2>3. f * s <= d * s
    <3> HIDE DEF f
    <3>1. QED
      BY <2>1, ProductGrows
  <2>4. B <= all
    BY <2>3 DEF all, d, s
  <2>5. h = A + z
    BY DEF h
  <2> HIDE DEF f, A, B
  <2>6. QED
    BY <1>2, <1>14, <2>1, <2>2, <2>4, <2>5
<1>18. Source(i) \in 1..BatchSize(job)
  <2> DEFINE f == h + 1
             A == h * c
             B == f * c
             C == all * c
  <2>1. f \in Nat /\ f <= all /\ h \in Nat /\ c \in Nat /\ all \in Nat
    BY <1>2, <1>17
  <2>2. B = A + c /\ A \in Nat /\ C \in Nat
    BY <2>1
  <2>3. f * c <= all * c
    <3> HIDE DEF f
    <3>1. QED
      BY <2>1, ProductGrows
  <2>4. B <= C /\ BatchSize(job) = C /\ Source(i) = A + b + 1
    BY <1>2, <1>16, <2>3
  <2> HIDE DEF f, A, B, C
  <2>5. QED
    BY <1>2, <1>10, <2>2, <2>4
<1>19. ASSUME s = 1 \/ d = 1 PROVE Source(i) = i
  <2>1. h = a
    <3>1. CASE s = 1
      <4>1. z = 0
        BY <1>14, <3>1
      <4>2. h = y /\ a = y
        BY <1>1, <1>6, <3>1, <4>1 DEF h
      <4>3. QED
        BY <4>2
    <3>2. CASE d = 1
      <4>1. y = 0
        BY <1>6, <3>2
      <4>2. h = z /\ a = z
        BY <1>1, <1>6, <3>2, <4>1 DEF h
      <4>3. QED
        BY <4>2
    <3>3. QED
      BY <1>19, <3>1, <3>2
  <2>2. Source(i) = k + 1
    <3> DEFINE A == c * a
    <3>1. A \in Nat /\ h * c = A
      BY <1>2, <1>5, <2>1
    <3>2. Source(i) = A + b + 1 /\ k = A + b
      BY <1>11, <1>16, <3>1
    <3> HIDE DEF A
    <3>3. QED
      BY <1>2, <1>10, <3>1, <3>2
  <2>3. QED
    BY <2>2 DEF k
<1>20. QED
  BY <1>2, <1>8, <1>10, <1>12, <1>13, <1>16, <1>17, <1>18, <1>19 DEF c, all, k, d, s

\* The groups of a stretch that holds whole groups.
LEMMA StretchBlocks ==
  ASSUME job \in Jobs, NEW c \in Nat \ {0}, c % job.g = 0, NEW x \in Nat, NEW b \in 0..(c - 1)
  PROVE  /\ c \div job.g \in Nat \ {0} /\ b \div job.g \in 0..(c \div job.g - 1)
         /\ Block(x * c + b + 1) = x * (c \div job.g) + (b \div job.g)
<1> DEFINE g == job.g
           e == c \div g
           j == b + 1
           q == Block(j)
           o == Offset(j)
<1>1. g \in Nat \ {0} /\ e \in Nat /\ c = e * g
  BY JobOptions, BlockRange
<1>2. e \in Nat \ {0}
  <2> HIDE DEF e
  <2>1. e # 0
    BY <1>1
  <2>2. QED
    BY <1>1, <2>1
<1>3. j \in 1..c /\ j \in Nat \ {0} /\ b \in Nat
  OBVIOUS
<1>4. q \in Nat /\ o \in 1..g /\ j = q * g + o
  BY <1>3, BlockParts
<1>5. q + 1 \in 1..e
  BY <1>3, BlockRange
<1>6. q = b \div g
  BY <1>3 DEF Block
<1> HIDE DEF e, j, q, o
<1>7. Block(x * c + b + 1) = x * e + q
  <2> DEFINE y == x * e + q
             i == x * c + b + 1
             A == x * (e * g)
             B == q * g
  <2>1. y \in Nat /\ A \in Nat /\ B \in Nat
    BY <1>1, <1>4
  <2>2. y * g = A + B
    BY <1>1, <1>4
  <2>3. i = A + B + o
    <3>1. i = A + j
      BY <1>1, <1>3 DEF j
    <3> HIDE DEF A, B, i
    <3>2. j = B + o
      BY <1>4 DEF B
    <3>3. QED
      BY <1>4, <2>1, <3>1, <3>2
  <2>4. i = y * g + o
    <3> HIDE DEF A, B, i, y
    <3>1. QED
      BY <2>2, <2>3
  <2> HIDE DEF i, y
  <2>5. Block(y * g + o) = y
    BY <1>4, <2>1, BlockOf
  <2>6. QED
    BY <2>4, <2>5 DEF i, y
<1>8. QED
  BY <1>2, <1>4, <1>5, <1>6, <1>7 DEF e

\* Moving stretches keeps groups together, unless the trainer spreads them.
LEMMA SourceBlocks ==
  ASSUME job \in Jobs, job.megatron, ~Spread,
         NEW i \in 1..BatchSize(job), NEW k \in 1..BatchSize(job), Block(i) = Block(k)
  PROVE  Block(Source(i)) = Block(Source(k))
<1>1. CASE job.pp = 1 \/ job.dp = 1
  BY <1>1, SourceIs
<1>2. CASE ~(job.pp = 1 \/ job.dp = 1)
  <2> DEFINE c == Stretch
             g == job.g
             e == c \div g
             a == (i - 1) \div c
             b == (i - 1) % c
             x == (k - 1) \div c
             y == (k - 1) % c
             p == b \div g
             q == y \div g
  <2>1. job.pp \in Nat \ {0} /\ job.dp \in Nat \ {0} /\ g \in Nat \ {0} /\ c \in Nat \ {0}
        /\ job.dp * job.pp \in Nat
    BY JobOptions, MegatronSizes
  <2>2. c % g = 0
    <3>1. job.pp > 1 /\ job.dp > 1
      BY <1>2, <2>1
    <3>2. QED
      BY <3>1 DEF Spread, Stretch
  <2>3. /\ a \in Nat /\ b \in 0..(c - 1) /\ Moved(a) \in Nat
        /\ Source(i) = Moved(a) * c + b + 1 /\ i = a * c + b + 1
    <3>1. a \in 0..(job.dp * job.pp - 1) /\ b \in 0..(c - 1) /\ Source(i) = Moved(a) * c + b + 1
          /\ Moved(a) \in 0..(job.dp * job.pp - 1)
      BY SourceIs
    <3>2. i - 1 \in Nat /\ i - 1 = c * a + b
      BY <2>1, Divided
    <3> HIDE DEF a, b, c
    <3>3. i = a * c + b + 1
      BY <2>1, <3>1, <3>2
    <3>4. a \in Nat /\ Moved(a) \in Nat
      BY <2>1, <3>1
    <3>5. QED
      BY <3>1, <3>3, <3>4
  <2>4. /\ x \in Nat /\ y \in 0..(c - 1) /\ Moved(x) \in Nat
        /\ Source(k) = Moved(x) * c + y + 1 /\ k = x * c + y + 1
    <3>1. x \in 0..(job.dp * job.pp - 1) /\ y \in 0..(c - 1) /\ Source(k) = Moved(x) * c + y + 1
          /\ Moved(x) \in 0..(job.dp * job.pp - 1)
      BY SourceIs
    <3>2. k - 1 \in Nat /\ k - 1 = c * x + y
      BY <2>1, Divided
    <3> HIDE DEF x, y, c
    <3>3. k = x * c + y + 1
      BY <2>1, <3>1, <3>2
    <3>4. x \in Nat /\ Moved(x) \in Nat
      BY <2>1, <3>1
    <3>5. QED
      BY <3>1, <3>3, <3>4
  <2> HIDE DEF a, b, c, x, y
  <2>5. /\ e \in Nat \ {0} /\ p \in 0..(e - 1)
        /\ Block(a * c + b + 1) = a * e + p /\ Block(Moved(a) * c + b + 1) = Moved(a) * e + p
    BY <2>1, <2>2, <2>3, StretchBlocks
  <2>6. /\ q \in 0..(e - 1)
        /\ Block(x * c + y + 1) = x * e + q /\ Block(Moved(x) * c + y + 1) = Moved(x) * e + q
    BY <2>1, <2>2, <2>4, StretchBlocks
  <2> HIDE DEF e, p, q
  <2>7. e * a + p = e * x + q
    BY <2>3, <2>4, <2>5, <2>6
  <2>8. a = x /\ p = q
    <3>1. a \in Int /\ x \in Int
      BY <2>3, <2>4
    <3>2. QED
      BY <2>5, <2>6, <2>7, <3>1, RemainderUnique
  <2>9. QED
    BY <2>3, <2>4, <2>5, <2>6, <2>8
<1>3. QED
  BY <1>1, <1>2

\* The prompts of the slots encode, and are one prompt for each group unless the groups mix.
LEMMA LoadedIs ==
  ASSUME job \in Jobs, NEW ps \in [1..PromptCount(job) -> 0..(Prompts - 1)],
         NEW fresh \in FreshPrompts(ps)
  PROVE  /\ Loaded(ps, fresh) \in [1..BatchSize(job) -> Fitting]
         /\ ~Spread /\ (job.megatron \/ AllEncode(ps)) =>
              \A i, k \in 1..BatchSize(job) :
                Block(i) = Block(k) => Loaded(ps, fresh)[i] = Loaded(ps, fresh)[k]
<1> DEFINE n == PromptCount(job)
           all == BatchSize(job)
           T == 0..(Prompts - 1)
<1>1. n \in Nat \ {0} /\ all \in Nat \ {0} /\ all = n * job.g /\ all = World(job) * job.per
      /\ World(job) \in Nat \ {0}
  BY BatchSizes
<1>2. job.g \in Nat \ {0} /\ job.per \in Nat \ {0} /\ job.megatron \in BOOLEAN
      /\ job.dp \in Nat \ {0} /\ (job.megatron => n % job.dp = 0)
  BY JobOptions
<1> HIDE DEF n, all
<1>3. ps \in [1..n -> T] /\ Len(ps) = n /\ ps \in Seq(T)
  <2>1. ps \in [1..n -> T]
    BY DEF n
  <2> HIDE DEF T
  <2>2. QED
    BY <1>1, <2>1
<1>4. /\ Repeated(ps) \in [1..all -> T]
      /\ \A i \in 1..all : Block(i) + 1 \in 1..n /\ Repeated(ps)[i] = ps[Block(i) + 1]
  <2> HIDE DEF T
  <2>1. n \in Nat /\ ps \in [1..n -> T]
    BY <1>1, <1>3
  <2>2. /\ Repeated(ps) \in [1..(n * job.g) -> T]
        /\ Repeats(Repeated(ps), ps, n)
    BY <2>1, RepeatedIs
  <2>3. QED
    BY <1>1, <2>2 DEF Repeats
<1>5. AllEncode(ps) => \A i \in 1..n : ps[i] \in Fitting
  BY <1>3 DEF AllEncode, Fitting
<1>6. \A m \in Nat : (job.megatron => m = n) /\ (~job.megatron => m = all) =>
        fresh \in Seq(Fitting) /\ Len(fresh) >= m
  <2>1. SUFFICES ASSUME NEW m \in Nat, job.megatron => m = n, ~job.megatron => m = all
                 PROVE  fresh \in Seq(Fitting) /\ Len(fresh) >= m
    OBVIOUS
  <2>2. n <= all
    <3> DEFINE one == 1
    <3>1. one \in Nat /\ job.g \in Nat /\ one <= job.g /\ n \in Nat /\ one * n = n
      BY <1>1, <1>2
    <3> HIDE DEF one
    <3>2. one * n <= job.g * n
      BY <3>1, ProductGrows
    <3>3. job.g * n = n * job.g
      BY <3>1
    <3>4. QED
      BY <1>1, <3>1, <3>2, <3>3
  <2>3. CASE AllEncode(ps)
    <3>1. fresh = Repeated(ps)
      BY <2>3 DEF FreshPrompts
    <3>2. \A i \in 1..all : Repeated(ps)[i] \in Fitting
      BY <1>4, <1>5, <2>3
    <3>3. fresh \in [1..all -> Fitting]
      BY <1>4, <3>1, <3>2
    <3>4. fresh \in Seq(Fitting) /\ Len(fresh) = all
      BY <1>1, <3>3
    <3>5. QED
      BY <1>1, <1>2, <2>1, <2>2, <3>4
  <2>4. CASE ~AllEncode(ps)
    <3>1. fresh \in [1..(IF job.megatron THEN n ELSE all) -> Fitting]
      BY <1>3, <2>4 DEF FreshPrompts, Fitting, all
    <3>2. fresh \in [1..m -> Fitting]
      BY <1>2, <2>1, <3>1
    <3>3. QED
      BY <3>2
  <2>5. QED
    BY <2>3, <2>4
<1>7. CASE job.megatron
  <2> DEFINE size == n \div job.dp
             R == Refill(ps, size, fresh)
             S == Repeated(R)
  <2>1. size \in Nat \ {0} /\ n = job.dp * size
    <3>1. n % job.dp = 0
      BY <1>2, <1>7
    <3>2. size \in Nat /\ n = job.dp * size + (n % job.dp)
      BY <1>1, <1>2, Divided
    <3> HIDE DEF size
    <3>3. n = job.dp * size
      BY <1>1, <1>2, <3>1, <3>2
    <3>4. size # 0
      BY <1>1, <1>2, <3>3
    <3>5. QED
      BY <3>2, <3>3, <3>4
  <2> HIDE DEF size
  <2>2. fresh \in Seq(Fitting) /\ Len(ps) <= Len(fresh) /\ job.dp \in Nat /\ Len(ps) = job.dp * size
        /\ ps \in Seq(0..(Prompts - 1))
    BY <1>1, <1>2, <1>3, <1>6, <1>7, <2>1
  <2>3. R \in Seq(Fitting) /\ Len(R) = n
    BY <1>3, <2>1, <2>2, Refilled
  <2>4. R \in [1..n -> Fitting]
    BY <2>3
  <2> HIDE DEF R
  <2>5. /\ S \in [1..all -> Fitting]
        /\ \A i \in 1..all : S[i] = R[Block(i) + 1]
    <3>1. n \in Nat
      BY <1>1
    <3>2. /\ Repeated(R) \in [1..(n * job.g) -> Fitting]
          /\ Repeats(Repeated(R), R, n)
      BY <2>4, <3>1, RepeatedIs
    <3>3. QED
      BY <1>1, <3>2 DEF Repeats
  <2> HIDE DEF S
  <2>6. Loaded(ps, fresh) = [i \in 1..all |-> S[Source(i)]]
    <3>1. Loaded(ps, fresh) = Placed(S)
      BY <1>3, <1>7 DEF Loaded, S, R, size
    <3>2. Len(S) = all
      BY <1>1, <2>5
    <3>3. QED
      BY <3>1, <3>2 DEF Placed, Source
  <2>7. \A i \in 1..all : Source(i) \in 1..all
    BY <1>7, SourceIs DEF all
  <2>8. ASSUME ~Spread, NEW i \in 1..all, NEW k \in 1..all, Block(i) = Block(k)
        PROVE  S[Source(i)] = S[Source(k)]
    <3>1. Block(Source(i)) = Block(Source(k))
      BY <1>7, <2>8, SourceBlocks DEF all
    <3>2. QED
      BY <2>5, <2>7, <3>1
  <2>9. QED
    BY <2>5, <2>6, <2>7, <2>8 DEF all
<1>8. CASE ~job.megatron
  <2> DEFINE S == Repeated(ps)
  <2>1. S \in Seq(0..(Prompts - 1)) /\ Len(S) = all
    <3> HIDE DEF T, S
    <3>1. S \in [1..all -> T] /\ all \in Nat
      BY <1>1, <1>4 DEF S
    <3>2. S \in Seq(T) /\ Len(S) = all
      BY <3>1
    <3>3. QED
      BY <3>2 DEF T
  <2>2. fresh \in Seq(Fitting) /\ Len(S) <= Len(fresh)
    BY <1>1, <1>6, <1>8, <2>1
  <2>3. Loaded(ps, fresh) = Refill(S, job.per, fresh)
    BY <1>8 DEF Loaded
  <2> HIDE DEF S
  <2>4. Len(S) = World(job) * job.per /\ World(job) \in Nat /\ job.per \in Nat \ {0}
    BY <1>1, <1>2, <2>1
  <2>5. /\ Refill(S, job.per, fresh) \in Seq(Fitting) /\ Len(Refill(S, job.per, fresh)) = all
        /\ AllEncode(S) => \A i \in 1..Len(S) : Refill(S, job.per, fresh)[i] = S[i]
    BY <2>1, <2>2, <2>4, Refilled
  <2>6. AllEncode(ps) => AllEncode(S)
    BY <1>3, <1>4, <2>1 DEF AllEncode, S
  <2>7. \A i, k \in 1..all : Block(i) = Block(k) => S[i] = S[k]
    BY <1>4 DEF S
  <2>8. QED
    BY <1>8, <2>1, <2>3, <2>5, <2>6, <2>7 DEF all
<1>9. QED
  BY <1>2, <1>7, <1>8

-----------------------------------------------------------------------------
(* The contents of the batches.                                            *)

\* What the next state says of its batches is what this one says of them: the job stays,
\* and a batch that mixes prompts goes on mixing them.
LEMMA SameJob ==
  ASSUME job' = job, Mixed => Mixed'
  PROVE  /\ Proper(batch') => Proper(batch)'
         /\ Proper(origin') => Proper(origin)'
         /\ Proper(valid') => Proper(valid)'
         /\ Grouped(batch') => Grouped(batch)'
         /\ Grouped(origin') => Grouped(origin)'
         /\ Grouped(valid') => Grouped(valid)'
         /\ Clean(batch') => Clean(batch)'
         /\ Clean(valid') => Clean(valid)'
<1>1. \A i : Block(i)' = Block(i)
  BY DEF Block
<1>2. Samples' = Samples /\ \A p : Encodes(p)' = Encodes(p)
  BY DEF Samples, Encodes, BatchSize, World
<1>3. QED
  BY <1>1, <1>2 DEF Proper, Grouped, Clean, Whole, Block, Encodes
\* The batch of a round and the groups kept stay what they are.
LEMMA SameRound ==
  ASSUME job' = job, Mixed => Mixed', retries' = retries
  PROVE  /\ valid' = valid /\ Collected(valid, retries) => Collected(valid, retries)'
         /\ batch' = batch /\ Generated(batch, retries) => Generated(batch, retries)'
         /\ origin' = origin /\ Generated(origin, 0) => Generated(origin, 0)'
         /\ batch' = batch /\ valid' = valid /\ Settled(batch) => Settled(batch)'
<1>1. BatchSize(job)' = BatchSize(job)
  BY DEF BatchSize, World
<1>2. QED
  BY <1>1, SameJob DEF Collected, Generated, Settled, Once

\* No samples are whole groups.
LEMMA EmptyBatch ==
  ASSUME job \in Jobs
  PROVE  /\ Proper(<<>>) /\ Grouped(<<>>) /\ Once(<<>>) /\ Clean(<<>>) /\ Collected(<<>>, 0)
         /\ Len(<<>>) = 0 /\ BatchSize(job) \in Nat \ {0}
<1> DEFINE e == <<>>
<1>1. e \in Seq(Samples) /\ Len(e) = 0 /\ DOMAIN e = {}
  OBVIOUS
<1>2. Whole(e)
  <2> DEFINE zero == 0
             g == job.g
  <2>1. g \in Nat \ {0} /\ zero \in Nat /\ zero \in 0..(g - 1) /\ zero = g * zero + zero
    BY JobOptions
  <2> HIDE DEF zero, g
  <2>2. zero % g = zero
    BY <2>1, Quotient
  <2>3. QED
    BY <1>1, <2>2 DEF Whole, zero, g
<1> HIDE DEF e
<1>3. Proper(e) /\ Grouped(e) /\ Once(e) /\ Clean(e)
  BY <1>1, <1>2 DEF Proper, Grouped, Once, Clean
<1>4. Collected(e, 0)
  BY <1>1, <1>3 DEF Collected
<1>5. QED
  BY <1>1, <1>3, <1>4, BatchSizes DEF e

\* The batches there are, whatever the phase.
Kinds ==
  /\ Proper(batch) /\ Proper(origin) /\ Proper(valid)
  /\ Len(batch) \in {0, BatchSize(job)} /\ Len(valid) < 2 * BatchSize(job)

\* They stay when the batches do.
LEMMA SameKinds ==
  ASSUME Kinds, job' = job, batch' = batch, origin' = origin,
         valid' = valid \/ (valid' = <<>> /\ job \in Jobs)
  PROVE  Kinds'
<1>1. BatchSize(job)' = BatchSize(job)
  BY DEF BatchSize, World
<1>2. Samples' = Samples /\ (\A p : Encodes(p)' = Encodes(p)) /\ (\A i : Block(i)' = Block(i))
  BY DEF Samples, Encodes, BatchSize, World, Block
<1>3. Proper(batch)' /\ Proper(origin)'
  BY <1>2 DEF Kinds, Proper, Whole, Block, Encodes
<1>4. Proper(valid)' /\ Len(valid') < 2 * BatchSize(job)
  <2>1. CASE valid' = valid
    BY <1>2, <2>1 DEF Kinds, Proper, Whole, Block, Encodes
  <2>2. CASE valid' = <<>> /\ job \in Jobs
    <3>1. Proper(<<>>) /\ Len(<<>>) = 0 /\ BatchSize(job) \in Nat \ {0}
      BY <2>2, EmptyBatch
    <3>2. Proper(valid')
      BY <2>2, <3>1
    <3>3. Proper(valid)'
      BY <1>2, <3>2 DEF Proper, Whole, Block, Encodes
    <3>4. QED
      BY <2>2, <3>1, <3>3
  <2>3. QED
    BY <2>1, <2>2
<1>5. QED
  BY <1>1, <1>3, <1>4 DEF Kinds

\* The samples of a data index, each with the group its advantage is computed from.
Mine(b, x) ==
  [k \in 1..Len(SlotsOf(x)) |-> [sample |-> b[SlotsOf(x)[k]], base |-> Row(b, SlotsOf(x)[k])]]

\* The buffer of a batch that stays.
LEMMA SameBuffer ==
  ASSUME job' = job, batch' = batch
  PROVE  Buffered(batch)' = Buffered(batch)
<1>1. Groups' = Groups /\ Share' = Share /\ Slices' = Slices /\ job.per' = job.per /\ job.g' = job.g
  BY DEF Groups, Share, BatchSize, World, Slices
<1>2. \A x, q : Member(x, q)' = Member(x, q)
  BY DEF Member
<1>3. \A x : SlotsOf(x)' = SlotsOf(x)
  <2>1. SUFFICES ASSUME NEW x PROVE SlotsOf(x)' = SlotsOf(x)
    OBVIOUS
  <2>2. QED
    BY <1>1, <1>2 DEF SlotsOf
<1>4. \A i : Row(batch, i)' = Row(batch, i)
  BY <1>1 DEF Row, Parts
<1>5. \A x : Mine(batch, x)' = Mine(batch, x)
  <2>1. SUFFICES ASSUME NEW x PROVE Mine(batch, x)' = Mine(batch, x)
    OBVIOUS
  <2>2. QED
    BY <1>3, <1>4 DEF Mine
<1>6. Buffered(batch) = [x \in 0..(Groups - 1) |-> Parts(Mine(batch, x), Len(SlotsOf(x)) \div Slices)]
  BY DEF Buffered, Mine
<1>7. Buffered(batch)' = [x \in 0..(Groups - 1) |-> Parts(Mine(batch, x), Len(SlotsOf(x)) \div Slices)]'
  BY DEF Buffered, Mine
<1>8. QED
  BY <1>1, <1>3, <1>5, <1>6, <1>7

\* What the sampler draws are prompts of the data set.
LEMMA PromptsAre ==
  ASSUME job \in Jobs, NEW c \in Nat
  PROVE  PromptsOf(c) \in [1..PromptCount(job) -> 0..(Prompts - 1)]
<1>1. Prompts \in Nat \ {0} /\ PromptCount(job) \in Nat \ {0}
  BY JobOptions, BatchSizes
<1> DEFINE n == PromptCount(job)
<1>2. PromptsOf(c) = [i \in 1..n |-> (c * n + i - 1) % Prompts]
  BY DEF PromptsOf
<1> HIDE DEF n
<1>3. ASSUME NEW i \in 1..n PROVE (c * n + i - 1) % Prompts \in 0..(Prompts - 1)
  <2> DEFINE x == c * n + i - 1
  <2>1. c * n \in Nat
    BY <1>1 DEF n
  <2>2. x \in Nat
    BY <2>1
  <2> HIDE DEF x
  <2>3. x % Prompts \in 0..(Prompts - 1)
    BY <1>1, <2>2, Divided
  <2>4. QED
    BY <2>3 DEF x
<1>4. QED
  BY <1>2, <1>3 DEF n

\* A generation begins with prompts of the sampler; or the buffer is still that of the batch.
LEMMA FetchContents ==
  ASSUME InStep, Contents, Fetch
  PROVE  Contents'
<1>1. job \in Jobs /\ job' = job /\ phase = "fetch" /\ batch' = batch /\ origin' = origin
      /\ buffered' = buffered /\ taken \in Nat
  <2>1. job \in Jobs /\ taken \in 0..(job.total)
    BY DEF InStep, Scalars
  <2>2. QED
    BY <2>1, JobOptions DEF Fetch
<1>2. Kinds
  BY DEF Contents, Kinds
<1>3. CASE phase' = "generate"
  <2>1. drawn' = PromptsOf(Chunk(taken)) /\ valid' = <<>> /\ retries' = 0
    BY <1>3 DEF Fetch
  <2>2. Kinds'
    BY <1>1, <1>2, <2>1, SameKinds
  <2>3. drawn' \in [1..PromptCount(job) -> 0..(Prompts - 1)]
    <3>1. Chunk(taken) \in Nat
      BY <1>1, ChunkNumbers
    <3>2. QED
      BY <1>1, <2>1, <3>1, PromptsAre
  <2>4. PromptCount(job)' = PromptCount(job) /\ BatchSize(job)' = BatchSize(job)
    BY <1>1 DEF PromptCount, BatchSize, World
  <2>5. Collected(valid, retries)' /\ Len(valid') < BatchSize(job)
    <3>1. Proper(valid)'
      BY <2>2 DEF Kinds
    <3>2. DOMAIN valid' = {} /\ Len(valid') = 0
      BY <2>1
    <3>3. QED
      BY <1>1, <3>1, <3>2, BatchSizes DEF Collected, Grouped, Once, Clean
  <2>6. QED
    BY <1>3, <2>1, <2>2, <2>3, <2>4, <2>5 DEF Contents, Kinds
<1>4. CASE phase' # "generate"
  <2>1. phase' = "train" /\ buffered # <<>> /\ valid' = valid /\ refilled' = refilled
        /\ retries' = retries
    BY <1>4 DEF Fetch
  <2>2. Kinds'
    BY <1>1, <1>2, <2>1, SameKinds
  <2>3. Settled(batch)'
    <3>1. Settled(batch) /\ (Mixed => Mixed')
      BY <1>1, <2>1 DEF Contents, Mixed, Spread
    <3>2. QED
      BY <1>1, <2>1, <3>1, SameRound
  <2>4. (buffered = Buffered(batch))'
    BY <1>1, <2>1, SameBuffer DEF Contents
  <2>5. QED
    BY <2>1, <2>2, <2>3, <2>4 DEF Contents, Kinds
<1>5. QED
  BY <1>3, <1>4

\* The batch a round generates.
LEMMA GeneratedBatch ==
  ASSUME InStep, Contents, GenerateBatch
  PROVE  /\ Generated(batch, retries)' /\ Proper(batch') /\ Len(batch') = BatchSize(job)
         /\ (Mixed => Mixed')
<1>1. job \in Jobs /\ job' = job /\ phase = "generate" /\ retries' = retries
      /\ refilled' = (refilled \/ ~AllEncode(drawn)) /\ refilled \in BOOLEAN
      /\ drawn \in [1..PromptCount(job) -> 0..(Prompts - 1)] /\ retries \in 0..(job.retries)
  BY DEF InStep, Scalars, Contents, GenerateBatch
<1>2. PICK fresh \in FreshPrompts(drawn), reward \in Rewards :
        batch' = [i \in 1..BatchSize(job) |->
                   [prompt |-> Loaded(drawn, fresh)[i], round |-> retries, slot |-> i,
                    reward |-> reward[i]]]
  BY DEF GenerateBatch
<1> DEFINE all == BatchSize(job)
           P == Loaded(drawn, fresh)
           grouped == \A i, k \in 1..all : Block(i) = Block(k) => P[i] = P[k]
<1>3. all \in Nat \ {0} /\ all % job.g = 0 /\ job.megatron \in BOOLEAN
  BY <1>1, BatchSizes, JobOptions
<1>4. /\ P \in [1..all -> Fitting]
      /\ ~Spread /\ (job.megatron \/ AllEncode(drawn)) => grouped
  BY <1>1, LoadedIs
<1>5. \A i \in 1..all : reward[i] \in {0, 1}
  BY DEF Rewards
<1>6. Mixed => Mixed'
  BY <1>1 DEF Mixed, Spread
<1>7. ~Mixed' => grouped
  BY <1>1, <1>3, <1>4 DEF Mixed, Spread
<1>8. \A i \in 1..all : P[i] \in 0..(Prompts - 1) /\ Encodes(P[i])
  BY <1>4 DEF Fitting
<1> HIDE DEF P, grouped
<1>9. batch' = [i \in 1..all |-> [prompt |-> P[i], round |-> retries, slot |-> i,
                                  reward |-> reward[i]]]
  BY <1>2 DEF P
<1> DEFINE b == batch'
<1>10. DOMAIN b = 1..all /\ \A i \in 1..all : /\ b[i].prompt = P[i] /\ b[i].round = retries
                                               /\ b[i].slot = i
  BY <1>9
<1>11. b \in Seq(Samples) /\ Len(b) = all
  <2>1. \A i \in 1..all : b[i] \in Samples
    BY <1>1, <1>5, <1>8, <1>9 DEF Samples
  <2>2. b = [i \in 1..all |-> b[i]]
    BY <1>9
  <2> HIDE DEF b, all
  <2>3. b \in [1..all -> Samples]
    BY <2>1, <2>2
  <2>4. QED
    BY <1>3, <2>3
<1>12. Proper(b)
  <2>1. Whole(b)
    BY <1>3, <1>11 DEF Whole
  <2>2. QED
    BY <1>8, <1>10, <1>11, <2>1 DEF Proper
<1>13. Proper(batch)'
  BY <1>1, <1>6, <1>12, SameJob
<1>14. Grouped(batch)'
  <2>1. \A i : Block(i)' = Block(i)
    BY <1>1 DEF Block
  <2>2. QED
    BY <1>7, <1>10, <2>1 DEF Grouped, grouped
<1>15. BatchSize(job)' = BatchSize(job)
  BY <1>1 DEF BatchSize, World
<1>16. Generated(batch, retries)'
  BY <1>1, <1>10, <1>11, <1>13, <1>14, <1>15 DEF Generated
<1>17. QED
  BY <1>6, <1>11, <1>12, <1>16

\* A round is generated: it is scored, or examined first.
LEMMA BatchContents ==
  ASSUME InStep, Contents, GenerateBatch
  PROVE  Contents'
<1>1. job \in Jobs /\ job' = job /\ phase = "generate" /\ retries' = retries /\ valid' = valid
      /\ origin' = (IF retries = 0 THEN batch' ELSE origin) /\ retries \in Nat
      /\ phase' = (IF job.dynamic THEN "examine" ELSE "score")
  <2>1. job \in Jobs /\ retries \in 0..(job.retries)
    BY DEF InStep, Scalars
  <2>2. QED
    BY <2>1, JobOptions DEF GenerateBatch
<1>2. /\ Generated(batch, retries)' /\ Proper(batch') /\ Len(batch') = BatchSize(job)
      /\ (Mixed => Mixed')
  BY GeneratedBatch
<1>3. /\ Proper(origin) /\ Proper(valid) /\ Len(valid) < BatchSize(job)
      /\ Collected(valid, retries) /\ (retries > 0 => Generated(origin, 0))
  BY <1>1 DEF Contents
<1>4. BatchSize(job)' = BatchSize(job) /\ BatchSize(job) \in Nat \ {0}
  BY <1>1, BatchSizes DEF BatchSize, World
<1>5. Proper(batch)' /\ Proper(origin)' /\ Proper(valid)'
  BY <1>1, <1>2, <1>3, SameJob
<1>6. Kinds'
  <2>1. Len(valid) \in Nat
    BY <1>3 DEF Proper
  <2>2. QED
    BY <1>1, <1>2, <1>3, <1>4, <1>5, <2>1 DEF Kinds
<1>7. Collected(valid, retries)'
  BY <1>1, <1>2, <1>3, SameRound
<1>8. CASE job.dynamic
  <2>1. Generated(origin, 0)'
    <3>1. CASE retries = 0
      BY <1>1, <1>2, <3>1 DEF Generated, Proper, Grouped, Whole
    <3>2. CASE retries # 0
      <4>1. origin' = origin /\ Generated(origin, 0)
        BY <1>1, <1>3, <3>2
      <4>2. QED
        BY <1>1, <1>2, <4>1, SameRound
    <3>3. QED
      BY <3>1, <3>2
  <2>2. phase' = "examine" /\ Len(valid') < BatchSize(job)'
    BY <1>1, <1>3, <1>4, <1>8
  <2>3. QED
    BY <1>2, <1>6, <1>7, <2>1, <2>2 DEF Contents, Kinds
<1>9. CASE ~job.dynamic
  <2>1. Settled(batch)'
    <3>1. ~job.dynamic'
      BY <1>1, <1>9
    <3>2. Once(batch)'
      BY <1>2 DEF Generated, Once
    <3>3. QED
      BY <1>2, <3>1, <3>2 DEF Settled, Generated
  <2>2. phase' = "score"
    BY <1>1, <1>9
  <2>3. QED
    BY <1>6, <2>1, <2>2 DEF Contents, Kinds
<1>10. QED
  BY <1>8, <1>9

\* A turn of _dynamic_sampling: the groups kept make the batch, or wait for the next round.
LEMMA ExamineContents ==
  ASSUME InStep, Contents, Examine
  PROVE  Contents'
<1>1. job \in Jobs /\ job' = job /\ phase = "examine" /\ valid' = valid \o VariedOf(batch)
      /\ origin' = origin /\ retries \in Nat /\ refilled' = refilled
  <2>1. job \in Jobs /\ retries \in 0..(job.retries)
    BY DEF InStep, Scalars
  <2>2. QED
    BY <2>1, JobOptions DEF Examine
<1>2. /\ Len(valid) < BatchSize(job) /\ Collected(valid, retries)
      /\ Generated(batch, retries) /\ Generated(origin, 0)
      /\ Proper(origin) /\ Proper(batch) /\ Proper(valid) /\ Len(batch) \in {0, BatchSize(job)}
  BY <1>1 DEF Contents
<1>3. BatchSize(job)' = BatchSize(job) /\ BatchSize(job) \in Nat \ {0} /\ BatchSize(job) % job.g = 0
      /\ PromptCount(job)' = PromptCount(job) /\ PromptCount(job) \in Nat \ {0}
  BY <1>1, BatchSizes DEF BatchSize, World, PromptCount
<1>4. Mixed' = Mixed
  BY <1>1 DEF Mixed, Spread
<1> DEFINE v == VariedOf(batch)
           w == valid'
<1>5. v \in Seq(Samples) /\ Whole(v) /\ Len(v) <= BatchSize(job) /\ \E h : Rows(v, batch, h)
  <2>1. batch \in Seq(Samples) /\ Whole(batch) /\ Len(batch) = BatchSize(job)
    BY <1>2 DEF Generated, Proper
  <2>2. QED
    BY <1>1, <2>1, VariedRows
<1>6. Proper(v) /\ Grouped(v) /\ Once(v) /\ Clean(v) /\ \A i \in DOMAIN v : v[i].round = retries
  <2>1. PICK h : Rows(v, batch, h)
    BY <1>5
  <2> HIDE DEF v
  <2>2. QED
    BY <1>1, <1>2, <1>5, <2>1, RowsKept
<1>7. w = valid \o v
  BY <1>1
<1> HIDE DEF v
<1>8. Collected(w, retries + 1)
  <2>1. Collected(valid \o v, retries + 1)
    BY <1>1, <1>2, <1>6, Joined
  <2>2. QED
    BY <1>7, <2>1
<1>9. Len(w) < 2 * BatchSize(job) /\ Len(w) \in Nat
  <2>1. valid \in Seq(Samples)
    BY <1>2 DEF Proper
  <2>2. Len(w) = Len(valid) + Len(v) /\ Len(valid) \in Nat /\ Len(v) \in Nat
    BY <1>5, <1>7, <2>1
  <2>3. QED
    BY <1>2, <1>3, <1>5, <2>2
<1>10. Proper(origin)' /\ Proper(valid)'
  <2>1. Proper(origin') /\ Proper(w)
    BY <1>1, <1>2, <1>8 DEF Collected
  <2>2. QED
    BY <1>1, <1>4, <2>1, SameJob
<1>11. CASE Len(w) >= BatchSize(job)
  <2>1. phase' = "score" /\ batch' = SubSeq(w, 1, BatchSize(job))
    BY <1>11 DEF Examine
  <2>2. /\ Proper(batch') /\ Grouped(batch') /\ Once(batch') /\ Clean(batch')
        /\ Len(batch') = BatchSize(job)
    <3> HIDE DEF w
    <3>1. BatchSize(job) \in Nat /\ BatchSize(job) <= Len(w)
      BY <1>3, <1>9, <1>11
    <3>2. QED
      BY <1>1, <1>3, <1>8, <2>1, <3>1, FirstGroups
  <2>3. Proper(batch)' /\ Grouped(batch)' /\ Clean(batch)'
    BY <1>1, <1>4, <2>2, SameJob
  <2>4. Settled(batch)'
    BY <1>3, <2>2, <2>3 DEF Settled, Once
  <2>5. QED
    BY <1>3, <1>9, <1>10, <2>1, <2>2, <2>3, <2>4 DEF Contents
<1>12. CASE ~(Len(w) >= BatchSize(job))
  <2>1. phase' = "generate" /\ batch' = batch /\ retries' = retries + 1
    BY <1>12 DEF Examine
  <2>2. drawn' \in [1..PromptCount(job) -> 0..(Prompts - 1)]
    <3>1. PICK c \in 0..(Prompts \div PromptCount(job) - 1) : drawn' = PromptsOf(c)
      BY <1>12 DEF Examine
    <3>2. c \in Nat
      <4>1. Prompts \div PromptCount(job) \in Nat
        BY <1>1, <1>3, JobOptions, Divided
      <4>2. QED
        BY <4>1
    <3>3. QED
      BY <1>1, <3>1, <3>2, PromptsAre
  <2>3. Proper(batch)'
    BY <1>1, <1>2, <1>4, <2>1, SameJob
  <2>4. Collected(valid, retries)'
    <3>1. Grouped(valid)' /\ Clean(valid)'
      BY <1>1, <1>4, <1>8, SameJob DEF Collected
    <3>2. QED
      BY <1>8, <1>10, <2>1, <3>1 DEF Collected, Once
  <2>5. Generated(origin, 0)'
    <3>1. Grouped(origin)'
      BY <1>1, <1>2, <1>4, SameJob DEF Generated
    <3>2. QED
      BY <1>1, <1>2, <1>3, <1>10, <3>1 DEF Generated
  <2>6. QED
    BY <1>2, <1>3, <1>9, <1>10, <1>12, <2>1, <2>2, <2>3, <2>4, <2>5 DEF Contents
<1>13. QED
  BY <1>11, <1>12

\* The batch generated first is scored.
LEMMA FallBackContents ==
  ASSUME InStep, Contents, FallBack
  PROVE  Contents'
<1>1. job \in Jobs /\ job' = job /\ phase = "examine" /\ phase' = "score" /\ valid' = valid
      /\ origin' = origin /\ batch' = origin /\ refilled' = refilled
  BY DEF InStep, Scalars, FallBack, Fallback
<1>2. /\ Len(valid) < BatchSize(job) /\ Generated(origin, 0)
      /\ Proper(origin) /\ Proper(valid) /\ Len(valid) < 2 * BatchSize(job)
  BY <1>1 DEF Contents
<1>3. BatchSize(job)' = BatchSize(job) /\ Mixed' = Mixed
  BY <1>1 DEF BatchSize, World, Mixed, Spread
<1>4. Proper(batch)' /\ Proper(origin)' /\ Proper(valid)' /\ Grouped(batch)'
  BY <1>1, <1>2, <1>3, SameJob DEF Generated
<1>5. Settled(batch)'
  BY <1>1, <1>2, <1>3, <1>4 DEF Settled, Generated, Once
<1>6. QED
  BY <1>1, <1>2, <1>3, <1>4, <1>5 DEF Contents, Generated

\* Steps that leave the batches alone.
LEMMA OtherContents ==
  ASSUME InStep, Contents, EncodeRaises \/ Score \/ Train \/ Save \/ UNCHANGED batchVars
  PROVE  Contents'
<1>1. job \in Jobs /\ job' = job /\ batch' = batch /\ origin' = origin /\ valid' = valid
      /\ drawn' = drawn /\ retries' = retries /\ refilled' = refilled
  BY DEF InStep, Scalars, EncodeRaises, Score, Train, Save, batchVars
<1>2. Kinds'
  BY <1>1, SameKinds DEF Contents, Kinds
<1>3. Mixed' = Mixed /\ BatchSize(job)' = BatchSize(job) /\ PromptCount(job)' = PromptCount(job)
  BY <1>1 DEF Mixed, Spread, BatchSize, World, PromptCount
<1>4. /\ Collected(valid, retries) => Collected(valid, retries)'
      /\ Generated(batch, retries) => Generated(batch, retries)'
      /\ Generated(origin, 0) => Generated(origin, 0)'
      /\ Settled(batch) => Settled(batch)'
  BY <1>1, <1>3, SameRound
<1>5. Buffered(batch)' = Buffered(batch)
  BY <1>1, SameBuffer
<1>6. CASE EncodeRaises
  BY <1>2, <1>6 DEF EncodeRaises, Contents, Kinds
<1>7. CASE Score
  <2>1. phase = "score" /\ phase' = "train" /\ buffered' = Buffered(batch)
    BY <1>7 DEF Score
  <2>2. Settled(batch)' /\ (buffered = Buffered(batch))'
    BY <1>4, <1>5, <2>1 DEF Contents
  <2>3. QED
    BY <1>2, <2>1, <2>2 DEF Contents, Kinds
<1>8. CASE Train \/ Save
  <2>1. phase \in {"fetch", "train"} /\ phase' \in {"fetch", "train"} /\ buffered' = buffered
    BY <1>8 DEF Train, Save
  <2>2. buffered' # <<>> => Settled(batch)' /\ (buffered = Buffered(batch))'
    BY <1>4, <1>5, <2>1 DEF Contents
  <2>3. QED
    BY <1>2, <2>1, <2>2 DEF Contents, Kinds
<1>9. CASE UNCHANGED batchVars
  <2>1. phase' = phase /\ buffered' = buffered
    BY <1>9 DEF batchVars
  <2>2. (phase \in {"fetch", "train"} /\ buffered # <<>> => Settled(batch) /\ buffered = Buffered(batch))'
    BY <1>4, <1>5, <2>1 DEF Contents
  <2>3. (phase = "score" => Settled(batch))'
    BY <1>4, <2>1 DEF Contents
  <2>4. (phase = "examine" =>
           /\ Len(valid) < BatchSize(job) /\ Collected(valid, retries)
           /\ Generated(batch, retries) /\ Generated(origin, 0))'
    BY <1>1, <1>3, <1>4, <2>1 DEF Contents
  <2>5. (phase = "generate" =>
           /\ drawn \in [1..PromptCount(job) -> 0..(Prompts - 1)]
           /\ Len(valid) < BatchSize(job) /\ Collected(valid, retries)
           /\ (retries > 0 => Generated(origin, 0)))'
    BY <1>1, <1>3, <1>4, <2>1 DEF Contents
  <2>6. QED
    BY <1>2, <2>2, <2>3, <2>4, <2>5 DEF Contents, Kinds
<1>10. QED
  BY <1>6, <1>7, <1>8, <1>9

\* A new trainer has no batches.
LEMMA CrashContents ==
  ASSUME InStep, Contents, Crash
  PROVE  Contents'
<1>1. job \in Jobs /\ job' = job /\ batch' = <<>> /\ origin' = <<>> /\ valid' = <<>>
      /\ buffered' = <<>> /\ phase' = "fetch"
  BY DEF InStep, Scalars, Crash
<1>2. Proper(<<>>) /\ Len(<<>>) = 0 /\ BatchSize(job) \in Nat \ {0}
  BY <1>1, EmptyBatch
<1>3. BatchSize(job)' = BatchSize(job)
  BY <1>1 DEF BatchSize, World
<1>4. Proper(batch)' /\ Proper(origin)' /\ Proper(valid)'
  <2>1. Samples' = Samples
    BY <1>1 DEF Samples, BatchSize, World
  <2>2. QED
    BY <1>1, <1>2, <2>1 DEF Proper, Whole
<1>5. QED
  BY <1>1, <1>2, <1>3, <1>4 DEF Contents

\* Every step keeps what the batches hold.
LEMMA ContentsNext ==
  ASSUME InStep, Contents, [BatchNext]_batchVars
  PROVE  Contents'
BY FetchContents, BatchContents, ExamineContents, FallBackContents, OtherContents, CrashContents
   DEF BatchNext

\* There are no batches at first.
LEMMA ContentsInit ==
  ASSUME BatchInit
  PROVE  Contents
<1>1. job \in Jobs /\ batch = <<>> /\ origin = <<>> /\ valid = <<>> /\ buffered = <<>>
      /\ phase = "fetch"
  BY DEF BatchInit
<1>2. QED
  BY <1>1, EmptyBatch DEF Contents

\* What is generated, kept, scored and buffered, in every phase of every job.
THEOREM StaysWhole == BatchSpec => [](InStep /\ Contents)
<1>1. BatchInit => InStep /\ Contents
  BY InStepInit, ContentsInit
<1>2. InStep /\ Contents /\ [BatchNext]_batchVars => (InStep /\ Contents)'
  BY InStepNext, ContentsNext
<1>3. QED
  BY <1>1, <1>2, PTL DEF BatchSpec

-----------------------------------------------------------------------------
(* The ranks of a data index.                                              *)

\* The samples of a data index are those of its ranks.
LEMMA ShareIs ==
  ASSUME job \in Jobs
  PROVE  /\ Share \in Nat \ {0} /\ Share = GroupSize * job.per
         /\ BatchSize(job) = Groups * Share
<1>1. /\ Groups \in Nat \ {0} /\ GroupSize \in Nat \ {0} /\ World(job) = Groups * GroupSize
      /\ job.per \in Nat \ {0}
  BY GroupsPositive, JobOptions
<1> DEFINE a == Groups
           b == GroupSize
           c == job.per
           n == BatchSize(job)
           m == b * c
           zero == 0
<1>2. n = (a * b) * c
  BY <1>1 DEF BatchSize
<1>3. m \in Nat \ {0}
  BY <1>1
<1>4. n = a * m
  <2> HIDE DEF a, b, c, n
  <2>1. a \in Nat /\ b \in Nat /\ c \in Nat
    BY <1>1 DEF a, b, c
  <2>2. QED
    BY <1>2, <2>1
<1>5. zero \in 0..(a - 1) /\ a \in Nat \ {0}
  BY <1>1
<1> HIDE DEF a, b, c, n, m
<1>6. n = a * m + zero
  BY <1>3, <1>4, <1>5
<1> HIDE DEF zero
<1>7. n \div a = m
  <2>1. m \in Nat
    BY <1>3
  <2>2. QED
    BY <1>5, <1>6, <2>1, Quotient
<1>8. QED
  BY <1>3, <1>4, <1>7 DEF Share, a, b, c, n, m

\* Positions made of three digits.
LEMMA Digits ==
  ASSUME NEW t \in Nat \ {0}, NEW d \in Nat \ {0}, NEW s \in Nat \ {0},
         NEW z \in 0..(s - 1), NEW y \in 0..(d - 1), NEW e \in 0..(t - 1)
  PROVE  /\ z * (t * d) + y * t + e = (z * d + y) * t + e
         /\ (z * d + y) * t + e \in 0..((s * d) * t - 1)
<1> DEFINE h == z * d + y
           n == s * d
<1>1. h \in 0..(n - 1) /\ n \in Nat
  <2> DEFINE f == z + 1
             A == z * d
             B == f * d
  <2>1. f \in Nat /\ f <= s /\ s \in Nat /\ d \in Nat
    OBVIOUS
  <2>2. B = A + d /\ A \in Nat
    OBVIOUS
  <2>3. f * d <= s * d /\ s * d \in Nat
    <3> HIDE DEF f
    <3>1. QED
      BY <2>1, ProductGrows
  <2>4. B <= n /\ h = A + y
    BY <2>3
  <2>5. n \in Nat
    BY <2>3
  <2> HIDE DEF f, A, B, h, n
  <2>6. QED
    BY <2>2, <2>4, <2>5
<1>2. z * (t * d) + y * t + e = h * t + e
  OBVIOUS
<1> HIDE DEF h, n
<1>3. h * t + e \in 0..(n * t - 1)
  <2> DEFINE f == h + 1
             A == h * t
             B == f * t
             C == n * t
  <2>1. f \in Nat /\ f <= n /\ h \in Nat /\ t \in Nat
    BY <1>1
  <2>2. B = A + t /\ A \in Nat /\ C \in Nat
    BY <1>1, <2>1
  <2>3. f * t <= n * t
    <3> HIDE DEF f
    <3>1. QED
      BY <1>1, <2>1, ProductGrows
  <2>4. B <= C
    BY <2>3
  <2> HIDE DEF f, A, B, C
  <2>5. A + e \in 0..(C - 1)
    BY <2>2, <2>4
  <2>6. QED
    BY <2>5 DEF A, C
<1>4. QED
  BY <1>2, <1>3 DEF h, n

\* The place-th rank of a data index is a rank.
LEMMA MemberIs ==
  ASSUME job \in Jobs, NEW x \in 0..(Groups - 1), NEW q \in 0..(GroupSize - 1)
  PROVE  Member(x, q) \in 0..(World(job) - 1)
<1>1. /\ job.tp \in Nat \ {0} /\ job.dp \in Nat \ {0} /\ job.pp \in Nat \ {0}
      /\ job.sp \in Nat \ {0} /\ job.megatron \in BOOLEAN
      /\ World(job) = Groups * GroupSize /\ World(job) \in Nat /\ Groups \in Nat \ {0}
      /\ GroupSize \in Nat \ {0}
  BY JobOptions, GroupsPositive
<1>2. CASE job.megatron
  <2> DEFINE t == job.tp
             d == job.dp
             s == job.pp
             z == q \div t
             e == q % t
  <2>1. Groups = d /\ GroupSize = t * s /\ q \in Nat /\ Member(x, q) = z * (t * d) + x * t + e
    BY <1>1, <1>2 DEF Groups, GroupSize, Member
  <2>2. t \in Nat \ {0} /\ d \in Nat \ {0} /\ s \in Nat \ {0}
    BY <1>1
  <2> HIDE DEF t, d, s
  <2>3. z \in 0..(s - 1) /\ e \in 0..(t - 1)
    <3> DEFINE j == q + 1
    <3>1. j \in 1..(s * t) /\ j - 1 = q
      <4>1. t * s = s * t /\ s * t \in Nat
        BY <2>2
      <4>2. q \in 0..(s * t - 1)
        BY <2>1, <4>1
      <4>3. QED
        BY <4>1, <4>2
    <3> HIDE DEF j
    <3>2. (j - 1) \div t \in 0..(s - 1) /\ (j - 1) % t \in 0..(t - 1)
      BY <2>2, <3>1, PlaceInPart
    <3>3. QED
      BY <3>1, <3>2
  <2> HIDE DEF z, e
  <2>4. x \in 0..(d - 1)
    BY <2>1
  <2>5. /\ z * (t * d) + x * t + e = (z * d + x) * t + e
        /\ (z * d + x) * t + e \in 0..((s * d) * t - 1)
    BY <2>2, <2>3, <2>4, Digits
  <2>6. (s * d) * t = World(job)
    <3>1. World(job) = d * (t * s)
      BY <1>1, <2>1
    <3>2. d * (t * s) = (s * d) * t
      BY <2>2
    <3>3. QED
      BY <3>1, <3>2
  <2>7. QED
    BY <2>1, <2>5, <2>6
<1>3. CASE ~job.megatron
  <2> DEFINE n == Groups
             s == job.sp
  <2>1. GroupSize = s /\ Member(x, q) = x * s + q
    BY <1>3 DEF GroupSize, Member
  <2> DEFINE A == x * s
             f == x + 1
             B == f * s
             C == n * s
  <2>2. n \in Nat /\ s \in Nat /\ f \in Nat /\ f <= n /\ x \in Nat
    BY <1>1
  <2>3. B = A + s /\ A \in Nat /\ C \in Nat
    BY <2>2
  <2>4. f * s <= n * s
    <3> HIDE DEF f, n, s
    <3>1. QED
      BY <2>2, ProductGrows
  <2>5. B <= C /\ World(job) = C /\ Member(x, q) = A + q /\ q \in 0..(s - 1)
    BY <1>1, <2>1, <2>4
  <2> HIDE DEF A, B, C, s, n, f
  <2>6. QED
    BY <2>2, <2>3, <2>5
<1>4. QED
  BY <1>1, <1>2, <1>3

\* Every rank has its place in its data index.
LEMMA PlaceIs ==
  ASSUME job \in Jobs, NEW r \in 0..(World(job) - 1)
  PROVE  /\ DataIndex(r) \in 0..(Groups - 1) /\ Place(r) \in 0..(GroupSize - 1)
         /\ Member(DataIndex(r), Place(r)) = r
<1>1. /\ job.tp \in Nat \ {0} /\ job.dp \in Nat \ {0} /\ job.pp \in Nat \ {0}
      /\ job.sp \in Nat \ {0} /\ job.megatron \in BOOLEAN
      /\ World(job) = Groups * GroupSize /\ World(job) \in Nat /\ Groups \in Nat \ {0}
      /\ GroupSize \in Nat \ {0}
  BY JobOptions, GroupsPositive
<1>2. CASE job.megatron
  <2> DEFINE t == job.tp
             d == job.dp
             s == job.pp
             a == r \div t
             e == r % t
             y == a % d
             z == a \div d
             p == z * t + e
  <2>1. Groups = d /\ GroupSize = t * s /\ r \in Nat
    BY <1>1, <1>2 DEF Groups, GroupSize
  <2>2. t \in Nat \ {0} /\ d \in Nat \ {0} /\ s \in Nat \ {0}
    BY <1>1
  <2>3. DataIndex(r) = y /\ Place(r) = (r \div (t * d)) * t + e
    BY <1>2 DEF DataIndex, Place
  <2>4. \A q : Member(y, q) = (q \div t) * (t * d) + y * t + (q % t)
    BY <1>2 DEF Member
  <2> HIDE DEF t, d, s
  <2>5. a \in Nat /\ e \in 0..(t - 1) /\ r = t * a + e
    BY <2>1, <2>2, Divided
  <2> HIDE DEF a, e
  <2>6. y \in 0..(d - 1) /\ z \in Nat /\ a = d * z + y
    BY <2>2, <2>5, Divided
  <2>7. a \in 0..(s * d - 1)
    <3> DEFINE j == r + 1
               n == s * d
    <3>1. d * (t * s) = n * t /\ n * t \in Nat /\ n \in Nat
      BY <2>2
    <3>2. r \in 0..(n * t - 1)
      BY <1>1, <2>1, <3>1
    <3>3. j \in 1..(n * t) /\ j - 1 = r
      BY <3>1, <3>2
    <3> HIDE DEF j, n
    <3>4. (j - 1) \div t \in 0..(n - 1)
      BY <2>2, <3>1, <3>3, PlaceInPart
    <3>5. QED
      BY <3>3, <3>4 DEF a, n
  <2>8. z \in 0..(s - 1)
    <3> DEFINE j == a + 1
    <3>1. s * d \in Nat
      BY <2>2
    <3>2. j \in 1..(s * d) /\ j - 1 = a
      BY <2>7, <3>1
    <3> HIDE DEF j
    <3>3. (j - 1) \div d \in 0..(s - 1)
      BY <2>2, <3>2, PlaceInPart
    <3>4. QED
      BY <3>2, <3>3
  <2> HIDE DEF y, z
  <2>9. r \div (t * d) = z
    <3> DEFINE m == t * d
               v == y * t + e
    <3>1. m \in Nat \ {0}
      BY <2>2
    <3>2. v \in 0..(m - 1)
      <4> DEFINE one == 1
                 zero == 0
      <4>1. one \in Nat \ {0} /\ zero \in 0..(one - 1)
        OBVIOUS
      <4> HIDE DEF one, zero
      <4>2. (zero * d + y) * t + e \in 0..((one * d) * t - 1)
        BY <2>2, <2>5, <2>6, <4>1, Digits
      <4>3. (zero * d + y) * t + e = v /\ (one * d) * t = m
        <5>1. y \in Nat /\ d \in Nat /\ t \in Nat
          BY <2>2, <2>6
        <5>2. QED
          BY <5>1 DEF one, zero
      <4>4. QED
        BY <4>2, <4>3
    <3>3. r = m * z + v
      <4> DEFINE A == (t * d) * z
                 B == y * t
      <4>1. y \in Nat /\ e \in Nat
        BY <2>2, <2>5, <2>6
      <4>2. t * a = A + B /\ A \in Nat /\ B \in Nat
        <5>1. t * a = t * (d * z + y)
          BY <2>6
        <5>2. QED
          BY <2>2, <2>6, <4>1, <5>1
      <4>3. r = A + B + e /\ v = B + e /\ m * z = A
        BY <2>5, <4>2
      <4> HIDE DEF A, B, m, v
      <4>4. QED
        BY <4>1, <4>2, <4>3
    <3> HIDE DEF m, v
    <3>4. r \div m = z
      <4>1. z \in Nat
        BY <2>2, <2>8
      <4>2. QED
        BY <3>1, <3>2, <3>3, <4>1, Quotient
    <3>5. QED
      BY <3>4 DEF m
  <2>10. Place(r) = p
    BY <2>3, <2>9
  <2>11. p \in 0..(t * s - 1)
    <3> DEFINE one == 1
               zero == 0
    <3>1. one \in Nat \ {0} /\ zero \in 0..(one - 1)
      OBVIOUS
    <3> HIDE DEF one, zero
    <3>2. (z * one + zero) * t + e \in 0..((s * one) * t - 1)
      BY <2>2, <2>5, <2>8, <3>1, Digits
    <3>3. (z * one + zero) * t + e = p /\ (s * one) * t = t * s
      BY <2>2, <2>8 DEF one, zero
    <3>4. QED
      BY <3>2, <3>3
  <2>12. p \div t = z /\ p % t = e
    <3>1. p = t * z + e /\ z \in Nat
      BY <2>2, <2>5, <2>8
    <3> HIDE DEF p
    <3>2. QED
      BY <2>2, <2>5, <3>1, Quotient
  <2>13. Member(y, p) = r
    <3>1. Member(y, p) = z * (t * d) + y * t + e
      BY <2>4, <2>12
    <3>2. z * (t * d) + y * t + e = (z * d + y) * t + e
      BY <2>2, <2>5, <2>6, <2>8, Digits
    <3>3. (z * d + y) * t = t * a
      BY <2>2, <2>6
    <3>4. QED
      BY <2>5, <3>1, <3>2, <3>3
  <2> HIDE DEF p
  <2>14. QED
    BY <2>1, <2>3, <2>6, <2>10, <2>11, <2>13
<1>3. CASE ~job.megatron
  <2> DEFINE n == Groups
             s == job.sp
             a == r \div s
             e == r % s
  <2>1. GroupSize = s /\ DataIndex(r) = a /\ Place(r) = e /\ Member(a, e) = a * s + e
    BY <1>3 DEF GroupSize, Member, DataIndex, Place
  <2>2. n \in Nat \ {0} /\ s \in Nat \ {0} /\ World(job) = n * s
    BY <1>1, <2>1
  <2> DEFINE j == r + 1
  <2>3. j \in 1..(n * s) /\ j - 1 = r /\ r \in Nat
    BY <1>1, <2>2
  <2> HIDE DEF j, n, s
  <2>4. (j - 1) \div s \in 0..(n - 1) /\ (j - 1) % s \in 0..(s - 1)
    BY <2>2, <2>3, PlaceInPart
  <2>5. a \in 0..(n - 1) /\ e \in 0..(s - 1)
    BY <2>3, <2>4
  <2>6. r = s * a + e
    BY <2>2, <2>3, Divided
  <2> HIDE DEF a, e
  <2>7. s * a = a * s
    BY <2>2, <2>5
  <2>8. QED
    BY <2>1, <2>5, <2>6, <2>7 DEF n
<1>4. QED
  BY <1>1, <1>2, <1>3

-----------------------------------------------------------------------------
(* The buffer.                                                             *)

\* The slices of a data index have one size.
LEMMA SlicesAreEqual ==
  ASSUME job \in Jobs
  PROVE  /\ Share \div Slices \in Nat \ {0} /\ Slices \in Nat \ {0}
         /\ Share = Slices * (Share \div Slices)
<1>1. /\ job.tp \in Nat \ {0} /\ job.pp \in Nat \ {0} /\ job.sp \in Nat \ {0}
      /\ job.per \in Nat \ {0} /\ job.spg \in Nat \ {0} /\ job.megatron \in BOOLEAN
      /\ (job.megatron => job.sp = 1 /\ (job.tp * job.pp * job.per) % job.spg = 0)
      /\ (~job.megatron => job.per % job.spg = 0)
  BY JobOptions
<1>2. Share \in Nat \ {0} /\ Share = GroupSize * job.per
  BY ShareIs
<1>3. \E m \in Nat : Share = Slices * m
  <2>1. CASE job.megatron
    <3> DEFINE n == Share
               d == job.spg
               m == n \div d
    <3>1. Share = job.tp * job.pp * job.per /\ Slices = d
      BY <1>1, <1>2, <2>1 DEF GroupSize, Slices
    <3>2. n % d = 0
      BY <1>1, <2>1, <3>1
    <3>3. n \in Nat /\ d \in Nat \ {0}
      BY <1>1, <1>2
    <3> HIDE DEF n, d
    <3>4. m \in Nat /\ n = d * m + (n % d)
      BY <3>3, Divided
    <3> HIDE DEF m
    <3>5. n = d * m
      BY <3>2, <3>3, <3>4
    <3>6. QED
      BY <3>1, <3>4, <3>5 DEF n
  <2>2. CASE ~job.megatron
    <3> DEFINE p == job.per
               d == job.spg
               s == job.sp
               m == p \div d
    <3>1. Share = s * p /\ Slices = d * s
      BY <1>2, <2>2 DEF GroupSize, Slices
    <3>2. p % d = 0 /\ p \in Nat /\ d \in Nat \ {0} /\ s \in Nat
      BY <1>1, <2>2
    <3> HIDE DEF p, d, s
    <3>3. m \in Nat /\ p = d * m + (p % d)
      BY <3>2, Divided
    <3> HIDE DEF m
    <3>4. p = d * m
      BY <3>2, <3>3
    <3>5. s * (d * m) = (d * s) * m
      BY <3>2, <3>3
    <3>6. QED
      BY <3>1, <3>3, <3>4, <3>5
  <2>3. QED
    BY <1>1, <2>1, <2>2
<1>4. PICK m \in Nat : Share = Slices * m
  BY <1>3
<1>5. Slices \in Nat \ {0}
  BY Schedule
<1> DEFINE n == Share
           d == Slices
           zero == 0
<1>6. n = d * m + zero /\ zero \in 0..(d - 1) /\ d \in Nat \ {0} /\ m # 0
  <2>1. n = d * m /\ d \in Nat \ {0} /\ n \in Nat \ {0}
    BY <1>2, <1>4, <1>5
  <2> HIDE DEF n, d
  <2>2. QED
    BY <2>1
<1> HIDE DEF n, d, zero
<1>7. n \div d = m
  BY <1>6, Quotient
<1>8. QED
  BY <1>4, <1>5, <1>6, <1>7 DEF n, d

\* Cutting and flattening again gives what was cut.
LEMMA CutFlattens ==
  ASSUME NEW T, NEW s \in Seq(T), NEW m \in Nat \ {0}, NEW n \in Nat, Len(s) = n * m
  PROVE  FlattenSeq(Parts(s, m)) = s
<1> DEFINE p == Parts(s, m)
           t == FlattenSeq(p)
<1>1. Len(s) \div m = n
  <2> DEFINE l == Len(s)
             zero == 0
  <2>1. l = m * n + zero /\ zero \in 0..(m - 1)
    OBVIOUS
  <2> HIDE DEF zero, l
  <2>2. l \div m = n
    BY <2>1, Quotient
  <2>3. QED
    BY <2>2 DEF l
<1>2. p \in [1..n -> Seq(T)] /\ Cut(s, m, p)
  <2> HIDE DEF p
  <2>1. Len(s) \div m \in Nat /\ p \in [1..(Len(s) \div m) -> Seq(T)] /\ Cut(s, m, p)
    BY PartsAre DEF p
  <2>2. QED
    BY <1>1, <2>1
<1> HIDE DEF p
<1>3. AllOf(p, n, m)
  BY <1>1, <1>2 DEF Cut, AllOf
<1>4. t \in Seq(T) /\ Evenly(p, n, m, t)
  BY <1>2, <1>3, FlattenEqual
<1> HIDE DEF t
<1>5. Len(t) = Len(s)
  BY <1>4 DEF Evenly
<1>6. ASSUME NEW i \in 1..Len(s) PROVE t[i] = s[i]
  <2> DEFINE q == (i - 1) \div m
             r == (i - 1) % m
             x == q + 1
             j == r + 1
  <2>1. i \in 1..(n * m)
    BY <1>6
  <2>2. q \in 0..(n - 1) /\ r \in 0..(m - 1) /\ i = q * m + r + 1
    BY <2>1, PlaceInPart
  <2> HIDE DEF q, r
  <2>3. x \in 1..n /\ j \in 1..m /\ x - 1 = q
    BY <2>2
  <2>4. i = (x - 1) * m + j
    <3> DEFINE A == q * m
    <3>1. A \in Nat /\ i = A + r + 1
      BY <2>2
    <3>2. (x - 1) * m = A
      BY <2>3
    <3> HIDE DEF A, x
    <3>3. QED
      BY <2>2, <3>1, <3>2
  <2> HIDE DEF x, j
  <2>5. t[(x - 1) * m + j] = p[x][j]
    BY <1>4, <2>3 DEF Evenly
  <2>6. p[x][j] = s[(x - 1) * m + j]
    BY <1>1, <1>2, <2>3 DEF Cut
  <2>7. QED
    BY <2>4, <2>5, <2>6
<1>7. t = s
  BY <1>4, <1>5, <1>6
<1>8. QED
  BY <1>7 DEF t, p

\* The slot the k-th sample of data index x is generated in.
SlotOf(x, k) == Member(x, (k - 1) \div job.per) * job.per + ((k - 1) % job.per) + 1

\* The slots of a data index are slots.
LEMMA SlotsAre ==
  ASSUME job \in Jobs, NEW x \in 0..(Groups - 1)
  PROVE  /\ SlotsOf(x) = [k \in 1..Share |-> SlotOf(x, k)] /\ Len(SlotsOf(x)) = Share
         /\ \A k \in 1..Share : SlotOf(x, k) \in 1..BatchSize(job)
<1>1. /\ Share \in Nat \ {0} /\ Share = GroupSize * job.per /\ GroupSize \in Nat \ {0}
      /\ job.per \in Nat \ {0} /\ World(job) \in Nat \ {0} /\ BatchSize(job) = World(job) * job.per
  BY ShareIs, GroupsPositive, JobOptions, BatchSizes
<1>2. SlotsOf(x) = [k \in 1..Share |-> SlotOf(x, k)]
  BY DEF SlotsOf, SlotOf
<1>3. Len(SlotsOf(x)) = Share
  BY <1>1, <1>2
<1>4. ASSUME NEW k \in 1..Share PROVE SlotOf(x, k) \in 1..BatchSize(job)
  <2> DEFINE q == (k - 1) \div job.per
             w == (k - 1) % job.per
             c == job.per
             n == World(job)
             h == Member(x, q)
  <2>1. k \in 1..(GroupSize * c)
    BY <1>1
  <2>2. q \in 0..(GroupSize - 1) /\ w \in 0..(c - 1)
    BY <1>1, <2>1, PlaceInPart
  <2> HIDE DEF q, w
  <2>3. h \in 0..(n - 1)
    BY <2>2, MemberIs
  <2>4. SlotOf(x, k) = h * c + w + 1
    BY DEF SlotOf, q, w
  <2> HIDE DEF h
  <2>5. BatchSize(job) = n * c /\ n \in Nat \ {0} /\ c \in Nat \ {0}
    BY <1>1
  <2> HIDE DEF n, c
  <2> DEFINE f == h + 1
             A == h * c
             B == f * c
             C == n * c
  <2>6. f \in Nat /\ f <= n /\ h \in Nat /\ c \in Nat /\ n \in Nat
    BY <2>3, <2>5
  <2>7. B = A + c /\ A \in Nat /\ C \in Nat
    BY <2>6
  <2>8. f * c <= n * c
    <3> HIDE DEF f
    <3>1. QED
      BY <2>6, ProductGrows
  <2>9. B <= C /\ BatchSize(job) = C /\ SlotOf(x, k) = A + w + 1
    BY <2>4, <2>5, <2>8
  <2> HIDE DEF f, A, B, C
  <2>10. QED
    BY <2>2, <2>5, <2>7, <2>9
<1>5. QED
  BY <1>2, <1>3, <1>4

\* Every slot is one of a data index.
LEMMA SlotFound ==
  ASSUME job \in Jobs, NEW i \in 1..BatchSize(job)
  PROVE  \E x \in 0..(Groups - 1) : \E k \in 1..Share : SlotOf(x, k) = i
<1> DEFINE c == job.per
           n == World(job)
           r == (i - 1) \div c
           w == (i - 1) % c
           x == DataIndex(r)
           q == Place(r)
           k == q * c + w + 1
<1>1. /\ Share = GroupSize * c /\ GroupSize \in Nat \ {0} /\ c \in Nat \ {0}
      /\ n \in Nat \ {0} /\ BatchSize(job) = n * c
  BY ShareIs, GroupsPositive, JobOptions, BatchSizes
<1>2. r \in 0..(n - 1) /\ w \in 0..(c - 1) /\ i = r * c + w + 1
  <2>1. i \in 1..(n * c)
    BY <1>1
  <2> HIDE DEF n, c
  <2>2. QED
    BY <1>1, <2>1, PlaceInPart
<1> HIDE DEF r, w
<1>3. x \in 0..(Groups - 1) /\ q \in 0..(GroupSize - 1) /\ Member(x, q) = r
  BY <1>2, PlaceIs
<1>4. \A j : SlotOf(x, j) = Member(x, (j - 1) \div c) * c + ((j - 1) % c) + 1
  BY DEF SlotOf
<1> HIDE DEF c, n, x, q
<1>5. k \in 1..Share
  <2> DEFINE one == 1
             zero == 0
             s == GroupSize
  <2>1. one \in Nat \ {0} /\ zero \in 0..(one - 1) /\ s \in Nat \ {0} /\ q \in 0..(s - 1)
    BY <1>1, <1>3
  <2> HIDE DEF one, zero, s
  <2>2. (q * one + zero) * c + w \in 0..((s * one) * c - 1)
    BY <1>1, <1>2, <2>1, Digits
  <2>3. q \in Nat /\ s \in Nat
    BY <2>1
  <2>4. (q * one + zero) * c = q * c /\ (s * one) * c = Share
    BY <1>1, <2>3 DEF one, zero, s
  <2> DEFINE A == q * c
  <2>5. A \in Nat /\ A + w \in 0..(Share - 1) /\ k = A + w + 1 /\ Share \in Nat
    BY <1>1, <2>2, <2>3, <2>4
  <2> HIDE DEF A, k
  <2>6. QED
    BY <1>1, <1>2, <2>5
<1>6. (k - 1) \div c = q /\ (k - 1) % c = w
  <2> DEFINE z == k - 1
  <2>1. z = c * q + w /\ q \in Nat
    <3>1. q \in Nat /\ w \in Nat
      BY <1>1, <1>2, <1>3
    <3>2. c * q = q * c /\ q * c \in Nat
      BY <1>1, <3>1
    <3>3. QED
      BY <3>1, <3>2
  <2> HIDE DEF z
  <2>2. z \div c = q /\ z % c = w
    BY <1>1, <1>2, <2>1, Quotient
  <2>3. QED
    BY <2>2 DEF z
<1> HIDE DEF k
<1>7. SlotOf(x, k) = i
  BY <1>2, <1>3, <1>4, <1>6
<1>8. QED
  BY <1>3, <1>5, <1>7

\* A sample and the group its advantage is computed from.
Entry(b, i) == [sample |-> b[i], base |-> Row(b, i)]

\* What lies in the buffer, over all data indices and slices: each slot's entry.
Spans(t, b) ==
  /\ Len(t) = BatchSize(job) /\ DOMAIN t = 1..BatchSize(job)
  /\ \A n \in 1..BatchSize(job) : \E i \in 1..BatchSize(job) : t[n] = Entry(b, i)
  /\ \A i \in 1..BatchSize(job) : \E n \in 1..BatchSize(job) : t[n] = Entry(b, i)

\* The buffer, flattened, has the entry of every slot and no other.
LEMMA EntriesAre ==
  ASSUME job \in Jobs, NEW b, buffered = Buffered(b)
  PROVE  Spans(Entries, b)
<1> DEFINE all == BatchSize(job)
           T == {Entry(b, i) : i \in 1..all}
           u == [x \in 1..Groups |-> Mine(b, x - 1)]
           t == FlattenSeq(u)
           G == Groups
           S == Share
<1>1. /\ G \in Nat \ {0} /\ S \in Nat \ {0} /\ all = G * S /\ all \in Nat \ {0}
      /\ Slices \in Nat \ {0} /\ S \div Slices \in Nat \ {0} /\ S = Slices * (S \div Slices)
  BY GroupsPositive, ShareIs, BatchSizes, SlicesAreEqual
<1>2. ASSUME NEW x \in 0..(G - 1)
      PROVE  /\ Mine(b, x) \in Seq(T) /\ Len(Mine(b, x)) = S
             /\ \A k \in 1..S : SlotOf(x, k) \in 1..all /\ Mine(b, x)[k] = Entry(b, SlotOf(x, k))
  <2>1. /\ SlotsOf(x) = [k \in 1..S |-> SlotOf(x, k)] /\ Len(SlotsOf(x)) = S
        /\ \A k \in 1..S : SlotOf(x, k) \in 1..all
    BY SlotsAre
  <2>2. Mine(b, x) = [k \in 1..S |-> Entry(b, SlotOf(x, k))]
    BY <2>1 DEF Mine, Entry
  <2> HIDE DEF S, all
  <2>3. \A k \in 1..S : Entry(b, SlotOf(x, k)) \in T
    BY <2>1
  <2> HIDE DEF T
  <2>4. Mine(b, x) \in [1..S -> T]
    BY <2>2, <2>3
  <2>5. QED
    BY <1>1, <2>1, <2>2, <2>4
<1>3. ASSUME NEW x \in 0..(G - 1)
      PROVE  FlattenSeq(buffered[x]) = Mine(b, x)
  <2> DEFINE m == S \div Slices
             c == Mine(b, x)
             l == Slices
  <2>1. buffered[x] = Parts(c, m)
    <3>1. buffered[x] = Parts(c, Len(SlotsOf(x)) \div Slices)
      BY DEF Buffered, Mine
    <3>2. Len(SlotsOf(x)) = S
      BY SlotsAre
    <3>3. QED
      BY <3>1, <3>2
  <2>2. c \in Seq(T) /\ Len(c) = l * m /\ m \in Nat \ {0} /\ l \in Nat
    BY <1>1, <1>2
  <2> HIDE DEF m, c, l, T
  <2>3. FlattenSeq(Parts(c, m)) = c
    BY <2>2, CutFlattens
  <2>4. QED
    BY <2>1, <2>3 DEF c
<1>4. Entries = t
  <2>1. \A x \in 1..G : x - 1 \in 0..(G - 1)
    BY <1>1
  <2>2. \A x \in 1..G : FlattenSeq(buffered[x - 1]) = Mine(b, x - 1)
    BY <1>3, <2>1
  <2>3. [x \in 1..G |-> FlattenSeq(buffered[x - 1])] = u
    BY <2>2
  <2>4. QED
    BY <2>3 DEF Entries
<1>5. u \in [1..G -> Seq(T)] /\ AllOf(u, G, S)
  <2>1. \A x \in 1..G : x - 1 \in 0..(G - 1)
    BY <1>1
  <2> HIDE DEF T, G, S
  <2>2. \A x \in 1..G : Mine(b, x - 1) \in Seq(T) /\ Len(Mine(b, x - 1)) = S
    BY <1>2, <2>1
  <2>3. QED
    BY <2>2 DEF AllOf, G
<1>6. \A x \in 1..G : u[x] = Mine(b, x - 1)
  OBVIOUS
<1> HIDE DEF T, u, G, S
<1>7. t \in Seq(T) /\ Evenly(u, G, S, t)
  BY <1>1, <1>5, FlattenEqual
<1> HIDE DEF t
<1>8. Len(t) = all /\ DOMAIN t = 1..all
  BY <1>1, <1>7 DEF Evenly
<1>9. ASSUME NEW n \in 1..all PROVE \E i \in 1..all : t[n] = Entry(b, i)
  <2>1. t[n] \in T
    BY <1>7, <1>8
  <2>2. QED
    BY <2>1 DEF T
<1>10. ASSUME NEW i \in 1..all PROVE \E n \in 1..all : t[n] = Entry(b, i)
  <2>1. PICK x \in 0..(G - 1) : \E k \in 1..S : SlotOf(x, k) = i
    BY SlotFound DEF G, S
  <2>2. PICK k \in 1..S : SlotOf(x, k) = i
    BY <2>1
  <2> DEFINE y == x + 1
  <2>3. y \in 1..G /\ y - 1 = x
    BY <1>1
  <2> HIDE DEF y
  <2>4. (y - 1) * S + k \in 1..(G * S) /\ t[(y - 1) * S + k] = u[y][k]
    BY <1>7, <2>3 DEF Evenly
  <2>5. u[y][k] = Entry(b, i)
    BY <1>2, <1>6, <2>2, <2>3
  <2>6. QED
    BY <1>1, <2>4, <2>5
<1>11. QED
  BY <1>4, <1>8, <1>9, <1>10 DEF Spans

\* The group of a slot: the slots of its row.
LEMMA RowIs ==
  ASSUME job \in Jobs, NEW b \in Seq(Samples), Whole(b), NEW i \in 1..Len(b)
  PROVE  /\ Len(Row(b, i)) = job.g /\ DOMAIN Row(b, i) = 1..(job.g)
         /\ \A j \in 1..(job.g) : /\ Block(i) * job.g + j \in 1..Len(b)
                                  /\ Block(Block(i) * job.g + j) = Block(i)
                                  /\ Row(b, i)[j] = b[Block(i) * job.g + j]
         /\ \A k \in 1..Len(b) : Block(k) = Block(i) =>
              Offset(k) \in 1..(job.g) /\ Row(b, i)[Offset(k)] = b[k]
<1> DEFINE g == job.g
           x == Block(i) + 1
           p == Parts(b, g)
           n == Len(b) \div g
           row == Row(b, i)
<1>1. g \in Nat \ {0} /\ Len(b) \in Nat /\ Len(b) % g = 0 /\ i \in Nat \ {0}
  BY JobOptions DEF Whole
<1>2. Block(i) \in Nat /\ x - 1 = Block(i) /\ x \in 1..n
  <2>1. Block(i) \in Nat
    BY <1>1, BlockParts
  <2>2. x \in 1..n
    BY <1>1, BlockRange
  <2>3. QED
    BY <2>1, <2>2
<1>3. p \in [1..n -> Seq(Samples)] /\ Cut(b, g, p)
  <2> HIDE DEF g
  <2>1. QED
    BY <1>1, PartsAre
<1>4. row = p[x]
  BY DEF Row, Block
<1> HIDE DEF x, p, row
<1>5. row \in Seq(Samples) /\ Len(row) = g
      /\ \A j \in 1..g : (x - 1) * g + j \in 1..Len(b) /\ row[j] = b[(x - 1) * g + j]
  BY <1>2, <1>3, <1>4 DEF Cut
<1>6. \A j \in 1..g : Block(Block(i) * g + j) = Block(i)
  BY <1>2, BlockOf
<1>7. ASSUME NEW k \in 1..Len(b), Block(k) = Block(i)
      PROVE  Offset(k) \in 1..g /\ row[Offset(k)] = b[k]
  <2>1. k \in Nat \ {0}
    BY <1>1
  <2>2. Offset(k) \in 1..g /\ k = Block(k) * g + Offset(k)
    BY <2>1, BlockParts
  <2>3. QED
    BY <1>2, <1>5, <1>7, <2>2
<1>8. \A j \in 1..g : /\ Block(i) * g + j \in 1..Len(b) /\ Block(Block(i) * g + j) = Block(i)
                      /\ row[j] = b[Block(i) * g + j]
  BY <1>2, <1>5, <1>6
<1>9. DOMAIN row = 1..g
  BY <1>5
<1>10. QED
  BY <1>5, <1>7, <1>8, <1>9 DEF row

\* Of a buffer filled from whole groups of one prompt, each advantage is its own group's.
LEMMA GroupsOwn ==
  ASSUME job \in Jobs, NEW b, Proper(b), Grouped(b), ~Mixed, Len(b) = BatchSize(job),
         buffered = Buffered(b)
  PROVE  OwnGroup
<1>1. Spans(Entries, b)
  BY EntriesAre
<1>2. b \in Seq(Samples) /\ Whole(b) /\ DOMAIN b = 1..BatchSize(job)
  BY DEF Proper
<1>3. SUFFICES ASSUME NEW n \in DOMAIN Entries
               PROVE  LET e == Entries[n] IN
                      /\ e.sample \in Range(e.base) /\ Len(e.base) = job.g
                      /\ \A k \in 1..(job.g) : /\ e.base[k].prompt = e.sample.prompt
                                               /\ e.base[k].round = e.sample.round
  BY DEF OwnGroup
<1>4. PICK i \in 1..BatchSize(job) : Entries[n] = Entry(b, i)
  BY <1>1, <1>3 DEF Spans
<1> DEFINE row == Row(b, i)
<1>5. /\ Len(row) = job.g /\ DOMAIN row = 1..(job.g)
      /\ \A j \in 1..(job.g) : /\ Block(i) * job.g + j \in DOMAIN b
                               /\ Block(Block(i) * job.g + j) = Block(i)
                               /\ row[j] = b[Block(i) * job.g + j]
      /\ Offset(i) \in 1..(job.g) /\ row[Offset(i)] = b[i]
  <2>1. i \in 1..Len(b)
    OBVIOUS
  <2>2. QED
    BY <1>2, <2>1, RowIs
<1>6. Entries[n].sample = b[i] /\ Entries[n].base = row
  BY <1>4 DEF Entry
<1> HIDE DEF row
<1>7. b[i] \in Range(row)
  BY <1>5 DEF Range
<1>8. \A k \in 1..(job.g) : row[k].prompt = b[i].prompt /\ row[k].round = b[i].round
  BY <1>2, <1>5 DEF Proper, Grouped
<1>9. QED
  BY <1>5, <1>6, <1>7, <1>8

\* A batch in which no sample is there twice has as many samples as slots.
LEMMA OnceCounts ==
  ASSUME NEW n \in Nat, NEW b, DOMAIN b = 1..n, Once(b)
  PROVE  Cardinality(Range(b)) = n
<1> DEFINE S == 1..n
           f == [i \in S |-> b[i]]
<1>1. IsFiniteSet(S) /\ Cardinality(S) = n
  <2>1. Cardinality(S) = IF 1 > n THEN 0 ELSE n - 1 + 1
    BY FS_Interval
  <2>2. IsFiniteSet(S)
    BY FS_Interval
  <2>3. QED
    BY <2>1, <2>2
<1>2. Range(b) = {b[i] : i \in S}
  BY DEF Range
<1>3. f \in Bijection(S, Range(b))
  <2>1. \A i, k \in S : b[i] = b[k] => i = k
    BY DEF Once
  <2>2. f \in [S -> Range(b)] /\ (\A i, k \in S : f[i] = f[k] => i = k)
    BY <1>2, <2>1
  <2>3. \A y \in Range(b) : \E i \in S : f[i] = y
    BY <1>2
  <2> HIDE DEF f, S
  <2>4. f \in Injection(S, Range(b)) /\ f \in Surjection(S, Range(b))
    BY <2>2, <2>3 DEF Injection, Surjection, IsInjective
  <2>5. QED
    BY <2>4 DEF Bijection
<1>4. IsFiniteSet(Range(b)) /\ Cardinality(Range(b)) = Cardinality(S)
  BY <1>1, <1>3, FS_Bijection DEF ExistsBijection
<1>5. QED
  BY <1>1, <1>4

\* The buffer of a settled batch holds it, each sample once.
LEMMA BufferHolds ==
  ASSUME job \in Jobs, Settled(batch), buffered = Buffered(batch)
  PROVE  BufferedBatch
<1> DEFINE all == BatchSize(job)
           t == Entries
           samples == [i \in DOMAIN t |-> t[i].sample]
<1>1. Spans(t, batch)
  BY EntriesAre
<1>2. /\ batch \in Seq(Samples) /\ Whole(batch) /\ Once(batch) /\ Len(batch) = all
      /\ DOMAIN batch = 1..all /\ all \in Nat
  BY BatchSizes DEF Settled, Proper
<1>3. Len(t) = all /\ DOMAIN t = 1..all
  BY <1>1 DEF Spans
<1>4. Range(samples) = Range(batch)
  <2>1. Range(samples) = {t[i].sample : i \in 1..all}
    BY <1>3 DEF Range
  <2>2. Range(batch) = {batch[i] : i \in 1..all}
    BY <1>2 DEF Range
  <2>3. \A i \in 1..all : Entry(batch, i).sample = batch[i]
    BY DEF Entry
  <2> HIDE DEF samples, t, all
  <2>4. \A n \in 1..all : \E i \in 1..all : t[n].sample = batch[i]
    BY <1>1, <2>3 DEF Spans, all
  <2>5. \A i \in 1..all : \E n \in 1..all : t[n].sample = batch[i]
    BY <1>1, <2>3 DEF Spans, all
  <2>6. ASSUME NEW y \in Range(samples) PROVE y \in Range(batch)
    <3>1. PICK n \in 1..all : y = t[n].sample
      BY <2>1, <2>6
    <3>2. PICK i \in 1..all : t[n].sample = batch[i]
      BY <2>4
    <3>3. QED
      BY <2>2, <3>1, <3>2
  <2>7. ASSUME NEW y \in Range(batch) PROVE y \in Range(samples)
    <3>1. PICK i \in 1..all : y = batch[i]
      BY <2>2, <2>7
    <3>2. PICK n \in 1..all : t[n].sample = batch[i]
      BY <2>5
    <3>3. QED
      BY <2>1, <3>1, <3>2
  <2>8. QED
    BY <2>6, <2>7
<1>5. Cardinality(Range(batch)) = all
  BY <1>2, OnceCounts
<1>6. ASSUME Clean(batch), NEW n \in DOMAIN t PROVE Varied(t[n].base)
  <2>1. PICK i \in 1..all : t[n] = Entry(batch, i)
    BY <1>1, <1>3, <1>6 DEF Spans
  <2> DEFINE row == Row(batch, i)
  <2>2. t[n].base = row
    BY <2>1 DEF Entry
  <2>3. PICK a \in 1..all, c \in 1..all :
          Block(a) = Block(i) /\ Block(c) = Block(i) /\ batch[a].reward # batch[c].reward
    BY <1>2, <1>6 DEF Clean
  <2>4. /\ Len(row) = job.g
        /\ Offset(a) \in 1..(job.g) /\ row[Offset(a)] = batch[a]
        /\ Offset(c) \in 1..(job.g) /\ row[Offset(c)] = batch[c]
    <3>1. i \in 1..Len(batch) /\ a \in 1..Len(batch) /\ c \in 1..Len(batch)
      BY <1>2
    <3>2. QED
      BY <1>2, <2>3, <3>1, RowIs
  <2> HIDE DEF row
  <2>5. job.g > 1
    <3>1. job.g \in Nat
      BY JobOptions
    <3>2. Offset(a) # Offset(c)
      BY <2>3, <2>4
    <3>3. QED
      BY <2>4, <3>1, <3>2
  <2>6. QED
    BY <2>2, <2>3, <2>4, <2>5 DEF Varied
<1>7. job.dynamic =>
        \/ \A i \in DOMAIN t : Varied(t[i].base)
        \/ (\A i \in DOMAIN batch : batch[i].round = 0) /\ Len(valid) < all
  BY <1>6 DEF Settled
<1>8. QED
  BY <1>3, <1>4, <1>5, <1>7 DEF BufferedBatch

-----------------------------------------------------------------------------
(* The properties.                                                         *)

\* An advantage is computed from the group of the sample's own prompt, in every job of the
\* trainers and through every gather, refill, round and slice, but for the jobs GroupsWhole
\* names.
THEOREM GroupsStayWhole == BatchSpec => []GroupsWhole
<1>1. InStep /\ Contents => GroupsWhole
  <2>1. SUFFICES ASSUME InStep, Contents, ~Mixed, phase \in {"fetch", "train"} PROVE OwnGroup
    BY DEF GroupsWhole, Mixed, Spread, InStep, Scalars
  <2>2. CASE buffered = <<>>
    BY <2>2 DEF OwnGroup
  <2>3. CASE buffered # <<>>
    <3>1. Settled(batch) /\ buffered = Buffered(batch) /\ job \in Jobs
      BY <2>1, <2>3 DEF Contents, InStep, Scalars
    <3>2. Proper(batch) /\ Grouped(batch) /\ Len(batch) = BatchSize(job)
      BY <3>1 DEF Settled
    <3>3. QED
      BY <2>1, <3>1, <3>2, GroupsOwn
  <2>4. QED
    BY <2>2, <2>3
<1>2. QED
  BY <1>1, StaysWhole, PTL

\* The buffer holds each sample of the generation batch once, over all ranks and slices;
\* under dynamic sampling only groups with variance, or the batch generated first.
THEOREM BufferHoldsBatch == BatchSpec => []BufferedBatch
<1>1. InStep /\ Contents => BufferedBatch
  <2>1. SUFFICES ASSUME InStep, Contents, phase \in {"fetch", "train"}, buffered # <<>>
                 PROVE  BufferedBatch
    BY DEF BufferedBatch
  <2>2. Settled(batch) /\ buffered = Buffered(batch) /\ job \in Jobs
    BY <2>1 DEF Contents, InStep, Scalars
  <2>3. QED
    BY <2>2, BufferHolds
<1>2. QED
  BY <1>1, StaysWhole, PTL

\* Every variable of GrpoBatches stays in its type: no prompt that is too long is in a
\* batch, max_resample_times holds, no slice is used more than num_iterations times.
THEOREM BatchTypesHold == BatchSpec => []BatchTypeOK
<1>1. InStep /\ Contents => BatchTypeOK
  <2>1. SUFFICES ASSUME InStep, Contents PROVE BatchTypeOK
    OBVIOUS
  <2>2. Scalars /\ job \in Jobs
    BY <2>1 DEF InStep, Scalars
  <2>3. \A b \in {batch, origin, valid} : \A i \in DOMAIN b : b[i] \in Samples /\ Encodes(b[i].prompt)
    <3>1. SUFFICES ASSUME NEW b, Proper(b), NEW i \in DOMAIN b
                   PROVE  b[i] \in Samples /\ Encodes(b[i].prompt)
      BY <2>1 DEF Contents
    <3>2. QED
      BY <3>1 DEF Proper
  <2>4. Len(valid) % job.g = 0
    BY <2>1 DEF Contents, Proper, Whole
  <2>5. \A s \in DOMAIN uses : uses[s] \in 0..(job.iters)
    <3>1. CASE buffered = <<>>
      BY <2>1, <3>1 DEF InStep, Turns
    <3>2. CASE buffered # <<>>
      <4>1. uses = [s \in 1..Slices |-> Used(s, Passed)]
        BY <2>1, <3>2 DEF InStep, Turns
      <4>2. \A s \in 1..Slices : Used(s, Passed) \in 0..(job.iters)
        BY <2>1, <2>2, PassedType, UsedBounded DEF InStep
      <4>3. QED
        BY <4>1, <4>2
    <3>3. QED
      BY <3>1, <3>2
  <2>6. QED
    BY <2>1, <2>2, <2>3, <2>4, <2>5 DEF BatchTypeOK, Scalars, Contents
<1>2. QED
  BY <1>1, StaysWhole, PTL
=============================================================================
