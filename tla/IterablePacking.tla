--------------------------- MODULE IterablePacking --------------------------
(***************************************************************************)
(* IterablePackingDataset of swift/dataset/packing.py.  The training       *)
(* process reads packing_interval samples from the dataset, numbers them   *)
(* and puts them on a queue; num_proc daemon processes encode them and put *)
(* the numbered results on another; the training process waits for as many *)
(* results as it put, restores the dataset's order from the numbers, packs *)
(* them and yields the packs.  The last pack of a round is held back and   *)
(* packed again with the next round, unless the dataset is exhausted.      *)
(*                                                                         *)
(* The same object is iterated once per epoch, and a consumer may drop a   *)
(* suspended generator and start another one over the same two queues.     *)
(*                                                                         *)
(* binpacking.to_constant_volume is external: any partition of the samples *)
(* into bins that fit, a sample longer than packing_length in a bin of its *)
(* own.  The order of the bins and inside them carries nothing.            *)
(***************************************************************************)
EXTENDS Integers, Sequences, FiniteSets, FiniteSetsExt

CONSTANTS
  MaxSamples,      \* bound: samples in the dataset
  Interval,        \* self.packing_interval
  Workers,         \* the num_proc encoder processes
  Length,          \* len(input_ids) of each sample
  PackingLength,   \* self.packing_length
  MaxIters,        \* bound: times __iter__ is called
  Empty            \* the {} a worker puts for a sample it could not encode

ASSUME PackingAssumption ==
  /\ MaxSamples \in Nat
  /\ Interval \in Nat \ {0}
  /\ Length \in [1..MaxSamples -> Nat]
  /\ MaxIters \in Nat
  /\ Empty \notin 1..MaxSamples

VARIABLES
  strict,     \* self.strict
  dataset,    \* what encode does with each sample: "ok", "long" or "bad"
  phase,      \* where the generator is
  iters,      \* generators started so far
  position,   \* samples read from the iterator
  in_queue,   \* self._in_queue: (i, sample)
  out_queue,  \* self._out_queue: (i, encoded)
  holding,    \* what each worker is encoding
  num,        \* samples put in this round: i, then num_samples
  taken,      \* results fetched in this round
  res,        \* the round's results by number, None until fetched
  data,       \* samples held back for the next packing
  packs,      \* packs of this round still to be yielded
  emitted     \* packs yielded by this generator

vars == <<strict, dataset, phase, iters, position, in_queue, out_queue, holding,
          num, taken, res, data, packs, emitted>>

inputVars  == <<strict, dataset>>
workVars   == <<in_queue, out_queue, holding>>
outputVars == <<data, packs, emitted>>

Samples == DOMAIN dataset
Good == {s \in Samples : dataset[s] = "ok"}
NoTask == [slot |-> -1, sample |-> Empty]   \* a worker blocked in _in_queue.get()
Gone   == [slot |-> -2, sample |-> Empty]   \* a worker process that has ended
NoResults == [i \in 0..Interval - 1 |-> Empty]

Volume(bin) == MapThenSumSet(LAMBDA s : Length[s], bin)

\* The results binpacking.to_constant_volume may return.
Packings(items) ==
  LET Bins(f) == {{s \in items : f[s] = b} : b \in {f[s] : s \in items}}
  IN  {P \in {Bins(f) : f \in [items -> 1..Cardinality(items)]} :
         \A bin \in P : Cardinality(bin) = 1 \/ Volume(bin) <= PackingLength}

\* Mutant of MatchedGroups: the last pack is held back when the dataset is done too.
MatchedGroupsHoldBack(items, is_finished) ==
  IF items = {} THEN {[packs |-> {}, rest |-> {}]}
  ELSE UNION {{[packs |-> P \ {last}, rest |-> last] : last \in P} : P \in Packings(items)}

\* calculate_matched_group: the packs to yield and the samples held back.
MatchedGroups(items, is_finished) ==
  IF items = {} THEN {[packs |-> {}, rest |-> {}]}
  ELSE IF is_finished THEN {[packs |-> P, rest |-> {}] : P \in Packings(items)}
  ELSE UNION {{[packs |-> P \ {last}, rest |-> last] : last \in P} : P \in Packings(items)}

Finished == num # Interval

-----------------------------------------------------------------------------
Init ==
  /\ strict \in BOOLEAN
  /\ \E n \in 0..MaxSamples : dataset \in [1..n -> {"ok", "long", "bad"}]
  /\ phase = "new"
  /\ iters = 0
  /\ position = 0
  /\ in_queue = <<>>
  /\ out_queue = <<>>
  /\ holding = [w \in Workers |-> NoTask]
  /\ num = 0
  /\ taken = 0
  /\ res = NoResults
  /\ data = {}
  /\ packs = {}
  /\ emitted = {}

(* __iter__: the consumer starts a generator, dropping one that is          *)
(* suspended at a yield; an empty dataset ends it at once.                  *)
Iterate ==
  /\ phase \in {"new", "suspended", "done"}
  /\ iters < MaxIters
  /\ iters' = iters + 1
  /\ phase' = IF Samples = {} THEN "done" ELSE "put"
  /\ position' = 0
  /\ num' = 0
  /\ taken' = 0
  /\ res' = NoResults
  /\ data' = {}
  /\ packs' = {}
  /\ emitted' = {}
  /\ UNCHANGED <<inputVars, workVars>>

\* Mutant of PutSample: one sample more than the interval.
PutSampleTooMany ==
  /\ phase = "put"
  /\ IF position < Cardinality(Samples)
       THEN /\ in_queue' = Append(in_queue, [slot |-> num, sample |-> position + 1])
            /\ position' = position + 1
            /\ num' = num + 1
            /\ phase' = IF num = Interval THEN "fetch" ELSE "put"
       ELSE /\ phase' = "fetch"
            /\ UNCHANGED <<in_queue, position, num>>
  /\ UNCHANGED <<inputVars, iters, out_queue, holding, taken, res, outputVars>>

(* _put_data_in_queue: one sample, or the iterator's StopIteration. *)
PutSample ==
  /\ phase = "put"
  /\ IF position < Cardinality(Samples)
       THEN /\ in_queue' = Append(in_queue, [slot |-> num, sample |-> position + 1])
            /\ position' = position + 1
            /\ num' = num + 1
            /\ phase' = IF num + 1 = Interval THEN "fetch" ELSE "put"
       ELSE /\ phase' = "fetch"
            /\ UNCHANGED <<in_queue, position, num>>
  /\ UNCHANGED <<inputVars, iters, out_queue, holding, taken, res, outputVars>>

\* Mutant of FetchResult: results are kept in the order of their arrival.
FetchResultAsItComes ==
  /\ phase = "fetch"
  /\ taken < num
  /\ out_queue # <<>>
  /\ res' = [res EXCEPT ![taken] = Head(out_queue).sample]
  /\ out_queue' = Tail(out_queue)
  /\ taken' = taken + 1
  /\ UNCHANGED <<inputVars, phase, iters, position, in_queue, holding, num, outputVars>>

(* One turn of the loop of _fetch_data_out_queue. *)
FetchResult ==
  /\ phase = "fetch"
  /\ taken < num
  /\ out_queue # <<>>
  /\ LET result == Head(out_queue)
     IN  res' = IF result.sample = Empty THEN res
                ELSE [res EXCEPT ![result.slot] = result.sample]
  /\ out_queue' = Tail(out_queue)
  /\ taken' = taken + 1
  /\ UNCHANGED <<inputVars, phase, iters, position, in_queue, holding, num, outputVars>>

\* res without its None entries.
Kept == {res[i] : i \in 0..Interval - 1} \ {Empty}

(* The rest of _fetch_data_out_queue, and calculate_matched_group. *)
Pack ==
  /\ phase = "fetch"
  /\ taken = num
  /\ \E m \in MatchedGroups(data \cup Kept, Finished) :
       /\ packs' = m.packs
       /\ data' = m.rest
  /\ phase' = "yield"
  /\ UNCHANGED <<inputVars, iters, position, workVars, num, taken, res, emitted>>

(* yield from res: the generator is suspended until its next(). *)
Yield ==
  /\ phase \in {"yield", "suspended"}
  /\ \E p \in packs :
       /\ packs' = packs \ {p}
       /\ emitted' = emitted \cup {p}
  /\ phase' = "suspended"
  /\ UNCHANGED <<inputVars, iters, position, workVars, num, taken, res, data>>

NextRound ==
  /\ phase \in {"yield", "suspended"}
  /\ packs = {}
  /\ phase' = IF Finished THEN "done" ELSE "put"
  /\ num' = 0
  /\ taken' = 0
  /\ res' = NoResults
  /\ UNCHANGED <<inputVars, iters, position, workVars, outputVars>>

-----------------------------------------------------------------------------
(* _processor, in each of the encoder processes. *)

Idle(w) == holding[w] = NoTask
Alive(w) == holding[w] # Gone

WorkerGet(w) ==
  /\ Idle(w)
  /\ in_queue # <<>>
  /\ holding' = [holding EXCEPT ![w] = Head(in_queue)]
  /\ in_queue' = Tail(in_queue)
  /\ UNCHANGED <<inputVars, phase, iters, position, out_queue, num, taken, res, outputVars>>

Raises(sample) == strict /\ dataset[sample] = "bad"

\* Mutant of WorkerPut: nothing is put for a sample that does not encode.
WorkerPutGood(w) ==
  /\ Alive(w) /\ ~Idle(w)
  /\ ~Raises(holding[w].sample)
  /\ out_queue' = IF dataset[holding[w].sample] = "ok" THEN Append(out_queue, holding[w]) ELSE out_queue
  /\ holding' = [holding EXCEPT ![w] = NoTask]
  /\ UNCHANGED <<inputVars, phase, iters, position, in_queue, num, taken, res, outputVars>>

WorkerPut(w) ==
  /\ Alive(w) /\ ~Idle(w)
  /\ LET task == holding[w]
     IN  /\ ~Raises(task.sample)
         /\ out_queue' = Append(out_queue,
              IF dataset[task.sample] = "ok" THEN task ELSE [task EXCEPT !.sample = Empty])
  /\ holding' = [holding EXCEPT ![w] = NoTask]
  /\ UNCHANGED <<inputVars, phase, iters, position, in_queue, num, taken, res, outputVars>>

(* The exception ends the process; nobody watches it. *)
WorkerDies(w) ==
  /\ Alive(w) /\ ~Idle(w)
  /\ Raises(holding[w].sample)
  /\ holding' = [holding EXCEPT ![w] = Gone]
  /\ UNCHANGED <<inputVars, phase, iters, position, in_queue, out_queue, num, taken, res,
                 outputVars>>

-----------------------------------------------------------------------------
GeneratorStep == PutSample \/ FetchResult \/ Pack \/ Yield \/ NextRound
WorkerStep(w) == WorkerGet(w) \/ WorkerPut(w) \/ WorkerDies(w)

Next == Iterate \/ GeneratorStep \/ \E w \in Workers : WorkerStep(w)

\* The consumer keeps asking for packs and every process is scheduled.
Fairness == WF_vars(GeneratorStep) /\ \A w \in Workers : WF_vars(WorkerStep(w))

Spec == Init /\ [][Next]_vars
FairSpec == Spec /\ Fairness

-----------------------------------------------------------------------------
(* Properties. *)

Tasks == [slot : 0..Interval - 1, sample : 1..MaxSamples \cup {Empty}]

\* Types; the number of a round never exceeds the interval.
TypeOK ==
  /\ strict \in BOOLEAN
  /\ phase \in {"new", "put", "fetch", "yield", "suspended", "done"}
  /\ iters \in 0..MaxIters
  /\ position \in 0..Cardinality(Samples)
  /\ in_queue \in Seq(Tasks)
  /\ out_queue \in Seq(Tasks)
  /\ num \in 0..Interval
  /\ taken \in 0..num
  /\ res \in [0..Interval - 1 -> Samples \cup {Empty}]
  /\ data \subseteq Samples
  /\ packs \subseteq SUBSET Samples
  /\ emitted \subseteq SUBSET Samples

QuiescentAtYield ==
  phase \in {"yield", "suspended", "done"} =>
    /\ in_queue = <<>>
    /\ out_queue = <<>>
    /\ \A w \in Workers : Idle(w) \/ ~Alive(w)

RoundInOrder ==
  phase = "fetch" /\ taken = num =>
    \A i \in 0..Interval - 1 :
      LET s == position - num + 1 + i
      IN  res[i] = IF i < num /\ dataset[s] = "ok" THEN s ELSE Empty

HeldBackNotLost ==
  phase \in {"yield", "suspended"} =>
    LET ready == UNION packs
        out   == UNION emitted
    IN  /\ ready \cup out \cup data = {s \in Good : s <= position}
        /\ ready \cap out = {} /\ data \cap (ready \cup out) = {}

\* Whenever the consumer has the control, and so may drop the generator, both
\* queues are empty and no worker is encoding: the next generator over the same
\* queues can meet no result of this one.  However the workers are scheduled, a
\* round is packed in dataset order: its encodable samples, each at the place its
\* number gives.  Between rounds the samples read so far are yielded, ready or held
\* back, never in two of these: holding a pack back neither drops nor repeats one.
RoundsKept == QuiescentAtYield /\ RoundInOrder /\ HeldBackNotLost

\* When a generator is exhausted every sample that encodes has been yielded in
\* exactly one pack, and no other sample in any.
EachSampleOnce ==
  phase = "done" /\ iters > 0 =>
    /\ UNION emitted = Good
    /\ \A p, q \in emitted : p # q => p \cap q = {}

\* A generator that was started is exhausted in the end, or dropped for one that
\* is, unless strict made a worker raise: the sample it took is then waited for
\* forever.
GeneratorEnds ==
  phase = "put" ~> (phase = "done" \/ \E w \in Workers : ~Alive(w))
=============================================================================
