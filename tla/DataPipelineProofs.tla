------------------------- MODULE DataPipelineProofs --------------------------
(***************************************************************************)
(* Proofs about the two components that feed training.                     *)
(*                                                                         *)
(* IterablePacking, for any dataset, interval, pack length and number of   *)
(* encoder processes.  The generator knows a round by its size alone: it   *)
(* waits for as many results as it put.  The inductive invariant therefore *)
(* counts the numbers that are still on their way and says that each of    *)
(* them is in one place, so that a full count leaves none behind; and that *)
(* a sample which encodes cannot be lost on that way.                      *)
(*                                                                         *)
(* DataLoading, for any job: loader, dataset, number of processes, batch,  *)
(* epochs, checkpoints and crashes.  Every process works through its share *)
(* of an epoch, and the invariant says how far it is: what it has left,    *)
(* what it holds and what it has trained on are the batches of its share   *)
(* at the places that the steps trained have brought it to.  So a resumed  *)
(* process is where the checkpoint was.  What remains is arithmetic: the   *)
(* shares deal every place in the order of the epoch to one process once.  *)
(***************************************************************************)
EXTENDS IterablePacking, DataLoading, CommonLemmas, FiniteSetTheorems, TLAPS

-----------------------------------------------------------------------------
(* The inductive invariant.                                                *)

\* The sample that has number i in this round.
Numbered(i) == position - num + 1 + i

\* What a worker answers for number i.
Encoded(i) == IF dataset[Numbered(i)] = "ok" THEN Numbered(i) ELSE Empty

Slots(s) == {s[k].slot : k \in DOMAIN s}
Busy == {w \in Workers : holding[w] \notin {NoTask, Gone}}
HeldSlots == {holding[w].slot : w \in Busy}

\* The tasks of a sequence have different numbers.
Apart(s) == \A j, k \in DOMAIN s : s[j].slot = s[k].slot => j = k

\* The numbers that are on their way.
Outstanding == Slots(in_queue) \cup HeldSlots \cup Slots(out_queue)

\* The types of the variables TypeOK leaves to their definitions.
Inputs ==
  /\ \E n \in 0..MaxSamples : dataset \in [1..n -> {"ok", "long", "bad"}]
  /\ holding \in [Workers -> Tasks \cup {NoTask, Gone}]
  /\ num <= position

\* A task on its way carries the sample of its number, a result what encoding it gave.
TasksNumbered ==
  /\ \A k \in DOMAIN in_queue :
       in_queue[k].slot < num /\ in_queue[k].sample = Numbered(in_queue[k].slot)
  /\ \A w \in Busy :
       holding[w].slot < num /\ holding[w].sample = Numbered(holding[w].slot)
  /\ \A k \in DOMAIN out_queue :
       out_queue[k].slot < num /\ out_queue[k].sample = Encoded(out_queue[k].slot)

\* A number is in one place only, once.
OnePlaceEach ==
  /\ Apart(in_queue) /\ Apart(out_queue)
  /\ \A v, w \in Busy : holding[v].slot = holding[w].slot => v = w
  /\ Slots(in_queue) \cap Slots(out_queue) = {}
  /\ HeldSlots \cap (Slots(in_queue) \cup Slots(out_queue)) = {}

\* No more numbers are on their way than the generator still waits for.
Counted == Cardinality(Outstanding) + taken <= num

\* A number's result is its own, and missing only as long as it is on its way.
ResultsNumbered ==
  \A i \in 0..Interval - 1 :
    /\ res[i] # Empty => i < num /\ res[i] = Encoded(i)
    /\ i < num /\ dataset[Numbered(i)] = "ok" => res[i] = Numbered(i) \/ i \in Outstanding

\* Nothing is on its way while the consumer has the control.
Quiescent == phase \in {"new", "yield", "suspended", "done"} => Outstanding = {}

\* A round is cut short only by the end of the dataset.
RoundEnds ==
  /\ phase = "put" => taken = 0 /\ num < Interval
  /\ phase \in {"fetch", "yield", "suspended"} /\ Finished => position = Cardinality(Samples)

UpTo(n) == {s \in Good : s <= n}

\* Where every sample is that was read in the rounds before this one, or in this one
\* as soon as it is packed; the packs never overlap.
SamplesKept ==
  /\ phase \in {"new", "put", "fetch"} =>
       /\ packs = {}
       /\ (UNION emitted) \cup data = UpTo(position - num)
       /\ (UNION emitted) \cap data = {}
  /\ HeldBackNotLost
  /\ phase \in {"yield", "suspended"} /\ Finished => data = {}
  /\ phase = "done" => UNION emitted = Good
  /\ \A p, q \in packs \cup emitted : p # q => p \cap q = {}

IInv ==
  /\ TypeOK
  /\ Inputs
  /\ TasksNumbered
  /\ OnePlaceEach
  /\ Counted
  /\ ResultsNumbered
  /\ Quiescent
  /\ RoundEnds
  /\ SamplesKept

-----------------------------------------------------------------------------
(* What the operations do to the numbers on their way.                     *)

\* Putting a task with a new number on a queue.
LEMMA PutTask ==
  ASSUME NEW s \in Seq(Tasks), NEW x \in Tasks, x.slot \notin Slots(s), Apart(s)
  PROVE  /\ Append(s, x) \in Seq(Tasks)
         /\ Slots(Append(s, x)) = Slots(s) \cup {x.slot}
         /\ Apart(Append(s, x))
         /\ \A k \in DOMAIN Append(s, x) :
              Append(s, x)[k] = x \/ \E j \in DOMAIN s : Append(s, x)[k] = s[j]
<1> DEFINE a == Append(s, x)
           n == Len(s) + 1
<1>1. a \in Seq(Tasks) /\ DOMAIN s = 1..Len(s) /\ DOMAIN a = 1..n /\ Len(s) \in Nat
  OBVIOUS
<1>2. (\A k \in DOMAIN s : a[k] = s[k]) /\ a[n] = x
  OBVIOUS
<1>3. DOMAIN a = DOMAIN s \cup {n} /\ n \notin DOMAIN s
  BY <1>1
<1> HIDE DEF a, n
<1>4. Slots(a) = Slots(s) \cup {x.slot}
  BY <1>2, <1>3 DEF Slots
<1>5. \A k \in DOMAIN s : s[k].slot # x.slot
  BY DEF Slots
<1>6. Apart(a)
  BY <1>2, <1>3, <1>5 DEF Apart
<1>7. \A k \in DOMAIN a : a[k] = x \/ \E j \in DOMAIN s : a[k] = s[j]
  BY <1>2, <1>3
<1>8. QED
  BY <1>1, <1>4, <1>6, <1>7 DEF a

\* Taking the task at the head of a queue.
LEMMA TakeTask ==
  ASSUME NEW s \in Seq(Tasks), s # <<>>, Apart(s)
  PROVE  /\ Head(s) \in Tasks /\ Tail(s) \in Seq(Tasks)
         /\ Slots(s) = Slots(Tail(s)) \cup {Head(s).slot}
         /\ Head(s).slot \notin Slots(Tail(s))
         /\ Apart(Tail(s))
         /\ \E j \in DOMAIN s : Head(s) = s[j]
         /\ \A k \in DOMAIN Tail(s) : \E j \in DOMAIN s : Tail(s)[k] = s[j]
<1> DEFINE t == Tail(s)
           h == Head(s)
<1>1. h \in Tasks /\ t \in Seq(Tasks) /\ 1 \in DOMAIN s /\ h = s[1]
  OBVIOUS
<1>2. \A k \in DOMAIN t : k \in Int /\ k + 1 \in DOMAIN s /\ k + 1 # 1 /\ t[k] = s[k + 1]
  OBVIOUS
<1>3. \A k \in DOMAIN s : k = 1 \/ (k - 1 \in DOMAIN t /\ s[k] = t[k - 1])
  OBVIOUS
<1> HIDE DEF t, h
<1>4. Slots(s) = Slots(t) \cup {h.slot}
  <2>1. Slots(t) \cup {h.slot} \subseteq Slots(s)
    BY <1>1, <1>2 DEF Slots
  <2>2. ASSUME NEW i \in Slots(s) PROVE i \in Slots(t) \cup {h.slot}
    <3>1. PICK k \in DOMAIN s : i = s[k].slot
      BY DEF Slots
    <3>2. QED
      BY <1>1, <1>3, <3>1 DEF Slots
  <2>3. QED
    BY <2>1, <2>2
<1>5. h.slot \notin Slots(t)
  BY <1>1, <1>2 DEF Apart, Slots
<1>6. Apart(t)
  BY <1>2 DEF Apart
<1>7. QED
  BY <1>1, <1>2, <1>4, <1>5, <1>6 DEF t, h

\* A task is neither of the two marks of a worker without one.
LEMMA TaskIsNoMark ==
  ASSUME NEW x \in Tasks
  PROVE  x # NoTask /\ x # Gone /\ x.slot \in 0..Interval - 1
BY PackingAssumption DEF PackingAssumption, Tasks, NoTask, Gone

\* An idle worker takes a task.
LEMMA HoldTask ==
  ASSUME Inputs, NEW w \in Workers, holding[w] = NoTask, NEW x \in Tasks,
         holding' = [holding EXCEPT ![w] = x]
  PROVE  /\ holding' \in [Workers -> Tasks \cup {NoTask, Gone}]
         /\ w \notin Busy /\ Busy' = Busy \cup {w}
         /\ holding'[w] = x /\ \A v \in Busy : holding'[v] = holding[v]
         /\ HeldSlots' = HeldSlots \cup {x.slot}
<1>1. holding' \in [Workers -> Tasks \cup {NoTask, Gone}]
  BY DEF Inputs
<1>2. \A v \in Workers : holding'[v] = IF v = w THEN x ELSE holding[v]
  BY DEF Inputs
<1>3. w \notin Busy /\ Busy' = Busy \cup {w} /\ Busy \subseteq Workers
  BY <1>2, TaskIsNoMark DEF Busy
<1>4. HeldSlots' = HeldSlots \cup {x.slot}
  BY <1>2, <1>3 DEF HeldSlots
<1>5. QED
  BY <1>1, <1>2, <1>3, <1>4

\* A busy worker lets its task go, to wait for another one or to end.
LEMMA DropTask ==
  ASSUME Inputs, OnePlaceEach, NEW w \in Busy, NEW g \in {NoTask, Gone},
         holding' = [holding EXCEPT ![w] = g]
  PROVE  /\ holding' \in [Workers -> Tasks \cup {NoTask, Gone}]
         /\ w \in Workers /\ holding[w] \in Tasks
         /\ Busy' = Busy \ {w}
         /\ \A v \in Busy' : holding'[v] = holding[v]
         /\ HeldSlots' = HeldSlots \ {holding[w].slot}
         /\ holding[w].slot \in HeldSlots
<1>1. w \in Workers /\ holding[w] \in Tasks
  BY DEF Busy, Inputs
<1>2. holding' \in [Workers -> Tasks \cup {NoTask, Gone}]
  BY <1>1 DEF Inputs
<1>3. \A v \in Workers : holding'[v] = IF v = w THEN g ELSE holding[v]
  BY <1>1 DEF Inputs
<1>4. Busy' = Busy \ {w} /\ \A v \in Busy' : holding'[v] = holding[v]
  BY <1>3 DEF Busy
<1>5. HeldSlots' = HeldSlots \ {holding[w].slot} /\ holding[w].slot \in HeldSlots
  <2>1. HeldSlots' = {holding[v].slot : v \in Busy \ {w}}
    BY <1>4 DEF HeldSlots
  <2>2. \A v \in Busy : holding[v].slot = holding[w].slot => v = w
    BY DEF OnePlaceEach
  <2>3. QED
    BY <2>1, <2>2 DEF HeldSlots
<1>6. QED
  BY <1>1, <1>2, <1>4, <1>5

\* The numbers on their way are numbers of this round, so that they can be counted.
LEMMA OutstandingFinite ==
  ASSUME IInv
  PROVE  /\ Outstanding \subseteq 0..num - 1
         /\ IsFiniteSet(Outstanding) /\ Cardinality(Outstanding) \in Nat
         /\ num \in 0..Interval /\ Interval \in Nat /\ num \in Int /\ taken \in Int
<1>1. num \in 0..Interval /\ Interval \in Nat /\ num \in Int /\ taken \in 0..num /\ taken \in Int
  BY PackingAssumption DEF PackingAssumption, IInv, TypeOK
<1>2. \A k \in DOMAIN in_queue : in_queue[k] \in Tasks
  BY DEF IInv, TypeOK
<1>3. \A k \in DOMAIN out_queue : out_queue[k] \in Tasks
  BY DEF IInv, TypeOK
<1>4. \A w \in Busy : holding[w] \in Tasks
  BY DEF IInv, Inputs, Busy
<1>5. \A x \in Tasks : x.slot \in 0..Interval - 1
  BY TaskIsNoMark
<1>6. Slots(in_queue) \subseteq 0..num - 1
  BY <1>1, <1>2, <1>5 DEF IInv, TasksNumbered, Slots
<1>7. Slots(out_queue) \subseteq 0..num - 1
  BY <1>1, <1>3, <1>5 DEF IInv, TasksNumbered, Slots
<1>8. HeldSlots \subseteq 0..num - 1
  BY <1>1, <1>4, <1>5 DEF IInv, TasksNumbered, HeldSlots
<1>9. Outstanding \subseteq 0..num - 1
  BY <1>6, <1>7, <1>8 DEF Outstanding
<1>10. IsFiniteSet(0..num - 1)
  BY <1>1, FS_Interval
<1>11. IsFiniteSet(Outstanding) /\ Cardinality(Outstanding) \in Nat
  BY <1>9, <1>10, FS_Subset, FS_CardinalityType
<1>12. QED
  BY <1>1, <1>9, <1>11

\* The dataset's samples are numbered from 1.
LEMMA SampleNumbers ==
  ASSUME IInv
  PROVE  /\ Cardinality(Samples) \in 0..MaxSamples
         /\ MaxSamples \in Nat
         /\ Samples = 1..Cardinality(Samples)
         /\ \A i \in Samples : i \in Int /\ i # Empty /\ i \in 1..MaxSamples
         /\ position \in 0..Cardinality(Samples) /\ num <= position
<1>1. PICK n \in 0..MaxSamples : dataset \in [1..n -> {"ok", "long", "bad"}]
  BY DEF IInv, Inputs
<1>2. Samples = 1..n /\ MaxSamples \in Nat /\ n \in Nat
  BY <1>1, PackingAssumption DEF Samples, PackingAssumption
<1>3. Cardinality(Samples) = n
  BY <1>2, FS_Interval
<1>4. \A i \in Samples : i \in Int /\ i \in 1..MaxSamples
  BY <1>1, <1>2
<1>5. QED
  BY <1>1, <1>2, <1>3, <1>4, PackingAssumption DEF PackingAssumption, IInv, TypeOK, Inputs

-----------------------------------------------------------------------------
(* The steps on the queues keep the invariant.                             *)

\* Nothing is on its way at the start.
LEMMA InitInv == Init => IInv
<1> SUFFICES ASSUME Init PROVE IInv
  OBVIOUS
<1>1. PICK n \in 0..MaxSamples : dataset \in [1..n -> {"ok", "long", "bad"}]
  BY DEF Init
<1>2. Samples = 1..n /\ Cardinality(Samples) = n /\ n \in Nat /\ IsFiniteSet({}) /\ Cardinality({}) = 0
  BY <1>1, PackingAssumption, FS_Interval, FS_EmptySet DEF Samples, PackingAssumption
<1>3. <<>> \in Seq(Tasks) /\ DOMAIN <<>> = {}
  OBVIOUS
<1>4. Slots(in_queue) = {} /\ Slots(out_queue) = {} /\ Busy = {} /\ HeldSlots = {} /\ Outstanding = {}
  BY <1>3 DEF Init, Slots, Busy, HeldSlots, Outstanding
<1>5. Interval \in Nat \ {0} /\ MaxIters \in Nat /\ NoResults \in [0..Interval - 1 -> Samples \cup {Empty}]
  BY PackingAssumption DEF PackingAssumption, NoResults
<1>6. TypeOK
  BY <1>2, <1>3, <1>5 DEF Init, TypeOK
<1>7. Inputs
  BY <1>1 DEF Init, Inputs
<1>8. TasksNumbered /\ OnePlaceEach /\ Counted /\ Quiescent
  BY <1>2, <1>3, <1>4 DEF Init, TasksNumbered, OnePlaceEach, Apart, Counted, Quiescent
<1>9. ResultsNumbered /\ RoundEnds
  BY <1>5 DEF Init, ResultsNumbered, RoundEnds, NoResults
<1>10. SamplesKept
  <2>1. UpTo(position - num) = {}
    BY <1>2 DEF Init, UpTo, Good
  <2>2. QED
    BY <2>1 DEF Init, SamplesKept, HeldBackNotLost
<1>11. QED
  BY <1>6, <1>7, <1>8, <1>9, <1>10 DEF IInv

\* A worker takes the next task.
LEMMA WorkerGetStep ==
  ASSUME IInv, NEW w \in Workers, WorkerGet(w)
  PROVE  IInv'
<1> USE DEF IInv
<1> DEFINE h == Head(in_queue)
<1>1. /\ holding[w] = NoTask /\ in_queue # <<>>
      /\ holding' = [holding EXCEPT ![w] = h] /\ in_queue' = Tail(in_queue)
      /\ UNCHANGED <<strict, dataset, phase, iters, position, out_queue, num, taken, res,
                     data, packs, emitted>>
  BY DEF WorkerGet, Idle, inputVars, outputVars
<1>2. in_queue \in Seq(Tasks) /\ Apart(in_queue)
  BY DEF TypeOK, OnePlaceEach
<1>3. /\ h \in Tasks /\ in_queue' \in Seq(Tasks)
      /\ Slots(in_queue) = Slots(in_queue') \cup {h.slot}
      /\ h.slot \notin Slots(in_queue')
      /\ Apart(in_queue')
      /\ \E j \in DOMAIN in_queue : h = in_queue[j]
      /\ \A k \in DOMAIN in_queue' : \E j \in DOMAIN in_queue : in_queue'[k] = in_queue[j]
  BY <1>1, <1>2, TakeTask
<1> HIDE DEF h
<1>4. /\ holding' \in [Workers -> Tasks \cup {NoTask, Gone}]
      /\ w \notin Busy /\ Busy' = Busy \cup {w}
      /\ holding'[w] = h /\ \A v \in Busy : holding'[v] = holding[v]
      /\ HeldSlots' = HeldSlots \cup {h.slot}
  BY <1>1, <1>3, HoldTask
<1>5. Outstanding' = Outstanding
  <2>1. Slots(in_queue)' = Slots(in_queue') /\ Slots(out_queue)' = Slots(out_queue)
    BY <1>1 DEF Slots
  <2>2. Outstanding' = Slots(in_queue') \cup HeldSlots' \cup Slots(out_queue)
    BY <2>1 DEF Outstanding
  <2>3. QED
    BY <1>3, <1>4, <2>2 DEF Outstanding
<1>6. TypeOK' /\ Inputs'
  BY <1>1, <1>3, <1>4 DEF TypeOK, Inputs, Samples
<1>7. TasksNumbered'
  BY <1>1, <1>3, <1>4 DEF TasksNumbered, Numbered, Encoded
<1>8. OnePlaceEach'
  <2>1. \A v \in Busy : holding[v].slot # h.slot
    BY <1>3 DEF OnePlaceEach, HeldSlots
  <2>2. \A u, v \in Busy' : holding'[u].slot = holding'[v].slot => u = v
    BY <1>4, <2>1 DEF OnePlaceEach
  <2>3. Slots(out_queue') = Slots(out_queue)
    BY <1>1
  <2>4. QED
    BY <1>1, <1>3, <1>4, <2>2, <2>3 DEF OnePlaceEach
<1>9. Counted' /\ ResultsNumbered' /\ Quiescent' /\ RoundEnds' /\ SamplesKept'
  BY <1>1, <1>5 DEF Counted, ResultsNumbered, Quiescent, RoundEnds, SamplesKept, HeldBackNotLost,
                    Numbered, Encoded, Finished, UpTo, Good, Samples
<1>10. QED
  BY <1>6, <1>7, <1>8, <1>9

\* A worker answers with what encoding its sample gave.
LEMMA WorkerPutStep ==
  ASSUME IInv, NEW w \in Workers, WorkerPut(w)
  PROVE  IInv'
<1> USE DEF IInv
<1> DEFINE task == holding[w]
           x == IF dataset[task.sample] = "ok" THEN task ELSE [task EXCEPT !.sample = Empty]
<1>1. /\ w \in Busy
      /\ holding' = [holding EXCEPT ![w] = NoTask] /\ out_queue' = Append(out_queue, x)
      /\ UNCHANGED <<strict, dataset, phase, iters, position, in_queue, num, taken, res,
                     data, packs, emitted>>
  BY DEF WorkerPut, Idle, Alive, Busy, inputVars, outputVars
<1>2. /\ holding' \in [Workers -> Tasks \cup {NoTask, Gone}]
      /\ task \in Tasks
      /\ Busy' = Busy \ {w}
      /\ \A v \in Busy' : holding'[v] = holding[v]
      /\ HeldSlots' = HeldSlots \ {task.slot}
      /\ task.slot \in HeldSlots
  BY <1>1, DropTask
<1>3. x \in Tasks /\ x.slot = task.slot /\ x.sample = IF dataset[task.sample] = "ok" THEN task.sample ELSE Empty
  BY <1>2 DEF Tasks
<1>4. x.slot < num /\ x.sample = Encoded(x.slot)
  BY <1>1, <1>3 DEF TasksNumbered, Encoded
<1> HIDE DEF task, x
<1>5. out_queue \in Seq(Tasks) /\ Apart(out_queue) /\ x.slot \notin Slots(out_queue)
  BY <1>2, <1>3 DEF TypeOK, OnePlaceEach
<1>6. /\ out_queue' \in Seq(Tasks)
      /\ Slots(out_queue') = Slots(out_queue) \cup {x.slot}
      /\ Apart(out_queue')
      /\ \A k \in DOMAIN out_queue' : out_queue'[k] = x \/ \E j \in DOMAIN out_queue : out_queue'[k] = out_queue[j]
  BY <1>1, <1>3, <1>5, PutTask
<1>7. Outstanding' = Outstanding
  BY <1>1, <1>2, <1>3, <1>6 DEF Outstanding, Slots
<1>8. TypeOK' /\ Inputs'
  BY <1>1, <1>2, <1>6 DEF TypeOK, Inputs, Samples
<1>9. TasksNumbered'
  BY <1>1, <1>2, <1>4, <1>6 DEF TasksNumbered, Numbered, Encoded
<1>10. OnePlaceEach'
  <2>1. Slots(in_queue') = Slots(in_queue) /\ Apart(in_queue')
    BY <1>1 DEF OnePlaceEach
  <2>2. \A u, v \in Busy' : holding'[u].slot = holding'[v].slot => u = v
    BY <1>2 DEF OnePlaceEach
  <2>3. QED
    BY <1>2, <1>3, <1>6, <2>1, <2>2 DEF OnePlaceEach
<1>11. Counted' /\ ResultsNumbered' /\ Quiescent' /\ RoundEnds' /\ SamplesKept'
  BY <1>1, <1>7 DEF Counted, ResultsNumbered, Quiescent, RoundEnds, SamplesKept, HeldBackNotLost,
                    Numbered, Encoded, Finished, UpTo, Good, Samples
<1>12. QED
  BY <1>8, <1>9, <1>10, <1>11

\* A worker raises and ends; the sample it took does not encode, so that none that
\* does is lost.
LEMMA WorkerDiesStep ==
  ASSUME IInv, NEW w \in Workers, WorkerDies(w)
  PROVE  IInv'
<1> USE DEF IInv
<1> DEFINE task == holding[w]
<1>1. /\ w \in Busy /\ dataset[task.sample] = "bad"
      /\ holding' = [holding EXCEPT ![w] = Gone]
      /\ UNCHANGED <<strict, dataset, phase, iters, position, in_queue, out_queue, num, taken, res,
                     data, packs, emitted>>
  BY DEF WorkerDies, Raises, Idle, Alive, Busy, inputVars, outputVars
<1>2. /\ holding' \in [Workers -> Tasks \cup {NoTask, Gone}]
      /\ task \in Tasks
      /\ Busy' = Busy \ {w}
      /\ \A v \in Busy' : holding'[v] = holding[v]
      /\ HeldSlots' = HeldSlots \ {task.slot}
      /\ task.slot \in HeldSlots
  BY <1>1, DropTask
<1>3. task.sample = Numbered(task.slot)
  BY <1>1 DEF TasksNumbered
<1> HIDE DEF task
<1>4. Slots(in_queue') = Slots(in_queue) /\ Slots(out_queue') = Slots(out_queue)
  BY <1>1
<1>5. Outstanding' = Outstanding \ {task.slot} /\ task.slot \in Outstanding
  BY <1>2, <1>4 DEF Outstanding, OnePlaceEach
<1>6. TypeOK' /\ Inputs'
  BY <1>1, <1>2 DEF TypeOK, Inputs, Samples
<1>7. TasksNumbered'
  BY <1>1, <1>2 DEF TasksNumbered, Numbered, Encoded
<1>8. OnePlaceEach'
  BY <1>1, <1>2, <1>4 DEF OnePlaceEach
<1>9. Counted'
  <2>1. Cardinality(Outstanding') = Cardinality(Outstanding) - 1
    BY <1>5, OutstandingFinite, FS_RemoveElement
  <2>2. QED
    BY <1>1, <2>1, OutstandingFinite DEF Counted
<1>10. ResultsNumbered'
  <2>1. \A i \in 0..Interval - 1 : dataset[Numbered(i)] = "ok" => (i \in Outstanding' <=> i \in Outstanding)
    BY <1>1, <1>3, <1>5
  <2>2. QED
    BY <1>1, <2>1 DEF ResultsNumbered, Numbered, Encoded
<1>11. Quiescent' /\ RoundEnds' /\ SamplesKept'
  BY <1>1, <1>5 DEF Quiescent, RoundEnds, SamplesKept, HeldBackNotLost, Finished, UpTo, Good, Samples
<1>12. QED
  BY <1>6, <1>7, <1>8, <1>9, <1>10, <1>11

\* The generator puts the next sample under the next number, or finds the dataset
\* exhausted.
LEMMA PutSampleStep ==
  ASSUME IInv, PutSample
  PROVE  IInv'
<1> USE DEF IInv
<1>1. /\ phase = "put" /\ taken = 0 /\ num < Interval
      /\ UNCHANGED <<strict, dataset, iters, out_queue, holding, taken, res, data, packs, emitted>>
  BY DEF PutSample, RoundEnds, inputVars, outputVars
<1>2. /\ Cardinality(Samples) \in 0..MaxSamples /\ MaxSamples \in Nat
      /\ Samples = 1..Cardinality(Samples)
      /\ position \in 0..Cardinality(Samples) /\ num <= position
      /\ Interval \in Nat /\ num \in 0..Interval
  BY SampleNumbers, OutstandingFinite
<1>3. CASE position < Cardinality(Samples)
  <2> DEFINE x == [slot |-> num, sample |-> position + 1]
  <2>1. /\ in_queue' = Append(in_queue, x) /\ position' = position + 1 /\ num' = num + 1
        /\ phase' = IF num + 1 = Interval THEN "fetch" ELSE "put"
    BY <1>3 DEF PutSample
  <2>2. x \in Tasks /\ x.slot = num /\ x.sample = position + 1
    BY <1>1, <1>2, <1>3 DEF Tasks
  <2> HIDE DEF x
  <2>3. num \notin Outstanding
    BY <1>2, OutstandingFinite
  <2>4. in_queue \in Seq(Tasks) /\ Apart(in_queue) /\ x.slot \notin Slots(in_queue)
    BY <2>2, <2>3 DEF TypeOK, OnePlaceEach, Outstanding
  <2>5. /\ in_queue' \in Seq(Tasks)
        /\ Slots(in_queue') = Slots(in_queue) \cup {num}
        /\ Apart(in_queue')
        /\ \A k \in DOMAIN in_queue' : in_queue'[k] = x \/ \E j \in DOMAIN in_queue : in_queue'[k] = in_queue[j]
    BY <2>1, <2>2, <2>4, PutTask
  <2>6. Slots(out_queue') = Slots(out_queue) /\ Busy' = Busy /\ HeldSlots' = HeldSlots
    BY <1>1 DEF Busy, HeldSlots
  <2>7. Outstanding' = Outstanding \cup {num}
    BY <2>5, <2>6 DEF Outstanding
  <2>8. /\ \A i : Numbered(i)' = Numbered(i) /\ Encoded(i)' = Encoded(i)
        /\ Numbered(num) = position + 1
    BY <1>1, <1>2, <2>1 DEF Numbered, Encoded
  <2>9. TypeOK' /\ Inputs'
    <3>1. Samples' = Samples /\ position' \in 0..Cardinality(Samples) /\ num' \in 0..Interval
      BY <1>1, <1>2, <1>3, <2>1 DEF Samples
    <3>2. taken' \in 0..num' /\ num' <= position'
      BY <1>1, <1>2, <2>1
    <3>3. phase' \in {"put", "fetch"}
      BY <2>1
    <3>4. QED
      BY <1>1, <2>5, <3>1, <3>2, <3>3 DEF TypeOK, Inputs
  <2>10. TasksNumbered'
    <3>1. \A y \in Tasks : y.slot < num => y.slot < num'
      BY <1>2, <2>1, TaskIsNoMark
    <3>2. \A k \in DOMAIN in_queue : in_queue[k] \in Tasks
      BY DEF TypeOK
    <3>3. \A k \in DOMAIN out_queue : out_queue[k] \in Tasks
      BY DEF TypeOK
    <3>4. \A w \in Busy : holding[w] \in Tasks
      BY DEF Inputs, Busy
    <3>5. x.slot < num' /\ x.sample = Numbered(x.slot)
      BY <1>2, <2>1, <2>2, <2>8
    <3>6. \A k \in DOMAIN in_queue' : in_queue'[k].slot < num' /\ in_queue'[k].sample = Numbered(in_queue'[k].slot)
      BY <2>5, <3>1, <3>2, <3>5 DEF TasksNumbered
    <3>7. \A w \in Busy : holding[w].slot < num' /\ holding[w].sample = Numbered(holding[w].slot)
      BY <3>1, <3>4 DEF TasksNumbered
    <3>8. \A k \in DOMAIN out_queue : out_queue[k].slot < num' /\ out_queue[k].sample = Encoded(out_queue[k].slot)
      BY <3>1, <3>3 DEF TasksNumbered
    <3>9. QED
      BY <1>1, <2>6, <2>8, <3>6, <3>7, <3>8 DEF TasksNumbered
  <2>11. OnePlaceEach'
    BY <1>1, <2>3, <2>5, <2>6 DEF OnePlaceEach, Outstanding
  <2>12. Counted'
    <3>1. Cardinality(Outstanding') = Cardinality(Outstanding) + 1
      BY <2>3, <2>7, OutstandingFinite, FS_AddElement
    <3>2. QED
      BY <1>1, <2>1, <3>1, OutstandingFinite DEF Counted
  <2>13. ResultsNumbered'
    <3> SUFFICES ASSUME NEW i \in 0..Interval - 1
                 PROVE  /\ res[i] # Empty => i < num + 1 /\ res[i] = Encoded(i)
                        /\ i < num + 1 /\ dataset[Numbered(i)] = "ok" =>
                             res[i] = Numbered(i) \/ i \in Outstanding'
      BY <1>1, <2>1, <2>8 DEF ResultsNumbered
    <3>1. i < num + 1 <=> i < num \/ i = num
      BY <1>2
    <3>2. QED
      BY <2>7, <3>1 DEF ResultsNumbered
  <2>14. Quiescent' /\ RoundEnds'
    BY <1>1, <1>2, <2>1 DEF Quiescent, RoundEnds, Finished
  <2>15. SamplesKept'
    <3>1. position' - num' = position - num
      BY <1>2, <2>1
    <3>2. phase' \in {"put", "fetch"}
      BY <2>1
    <3>3. QED
      BY <1>1, <3>1, <3>2 DEF SamplesKept, HeldBackNotLost, UpTo, Good, Samples
  <2>16. QED
    BY <2>9, <2>10, <2>11, <2>12, <2>13, <2>14, <2>15
<1>4. CASE ~(position < Cardinality(Samples))
  <2>1. phase' = "fetch" /\ UNCHANGED <<in_queue, position, num>>
    BY <1>4 DEF PutSample
  <2>2. /\ Slots(in_queue') = Slots(in_queue) /\ Slots(out_queue') = Slots(out_queue)
        /\ Busy' = Busy /\ HeldSlots' = HeldSlots /\ Outstanding' = Outstanding
    BY <1>1, <2>1 DEF Busy, HeldSlots, Outstanding, Slots
  <2>3. TypeOK' /\ Inputs'
    BY <1>1, <2>1 DEF TypeOK, Inputs, Samples
  <2>4. TasksNumbered' /\ OnePlaceEach' /\ Counted' /\ ResultsNumbered' /\ Quiescent'
    BY <1>1, <2>1, <2>2 DEF TasksNumbered, OnePlaceEach, Counted, ResultsNumbered, Quiescent,
                            Numbered, Encoded
  <2>5. RoundEnds'
    BY <1>1, <1>2, <1>4, <2>1 DEF RoundEnds, Samples
  <2>6. SamplesKept'
    BY <1>1, <2>1 DEF SamplesKept, HeldBackNotLost, UpTo, Good, Samples
  <2>7. QED
    BY <2>3, <2>4, <2>5, <2>6
<1>5. QED
  BY <1>3, <1>4

\* The generator files a result under its number.
LEMMA FetchResultStep ==
  ASSUME IInv, FetchResult
  PROVE  IInv'
<1> USE DEF IInv
<1> DEFINE result == Head(out_queue)
<1>1. /\ phase = "fetch" /\ taken < num /\ out_queue # <<>>
      /\ res' = IF result.sample = Empty THEN res ELSE [res EXCEPT ![result.slot] = result.sample]
      /\ out_queue' = Tail(out_queue) /\ taken' = taken + 1
      /\ UNCHANGED <<strict, dataset, phase, iters, position, in_queue, holding, num,
                     data, packs, emitted>>
  BY DEF FetchResult, inputVars, outputVars
<1>2. out_queue \in Seq(Tasks) /\ Apart(out_queue)
  BY DEF TypeOK, OnePlaceEach
<1>3. /\ result \in Tasks /\ out_queue' \in Seq(Tasks)
      /\ Slots(out_queue) = Slots(out_queue') \cup {result.slot}
      /\ result.slot \notin Slots(out_queue')
      /\ Apart(out_queue')
      /\ \E j \in DOMAIN out_queue : result = out_queue[j]
      /\ \A k \in DOMAIN out_queue' : \E j \in DOMAIN out_queue : out_queue'[k] = out_queue[j]
  BY <1>1, <1>2, TakeTask
<1>4. /\ result.slot \in 0..Interval - 1 /\ result.slot < num /\ result.sample = Encoded(result.slot)
      /\ result.sample \in 1..MaxSamples \cup {Empty}
  BY <1>3, TaskIsNoMark DEF TasksNumbered, Tasks
<1> HIDE DEF result
<1>5. Slots(in_queue') = Slots(in_queue) /\ Busy' = Busy /\ HeldSlots' = HeldSlots
  BY <1>1 DEF Busy, HeldSlots
<1>6. Outstanding' = Outstanding \ {result.slot} /\ result.slot \in Outstanding
  BY <1>3, <1>5 DEF Outstanding, OnePlaceEach
<1>7. \A i : Numbered(i)' = Numbered(i) /\ Encoded(i)' = Encoded(i)
  BY <1>1 DEF Numbered, Encoded
<1>8. /\ Samples = 1..Cardinality(Samples) /\ Cardinality(Samples) \in Nat
      /\ position \in 0..Cardinality(Samples) /\ num <= position /\ num \in Nat /\ Interval \in Nat
      /\ \A i \in Samples : i # Empty
  BY SampleNumbers, OutstandingFinite
<1>9. \A i \in 0..Interval - 1 : i < num => Numbered(i) \in Samples
  BY <1>8 DEF Numbered
<1>10. result.sample \in Samples \cup {Empty}
  BY <1>4, <1>9 DEF Encoded
<1>11. /\ res' \in [0..Interval - 1 -> Samples \cup {Empty}]
       /\ \A i \in 0..Interval - 1 :
            res'[i] = IF i = result.slot /\ result.sample # Empty THEN result.sample ELSE res[i]
  BY <1>1, <1>4, <1>10 DEF TypeOK
<1>12. TypeOK' /\ Inputs'
  BY <1>1, <1>3, <1>11, OutstandingFinite DEF TypeOK, Inputs, Samples
<1>13. TasksNumbered'
  BY <1>1, <1>3, <1>5, <1>7 DEF TasksNumbered
<1>14. OnePlaceEach'
  BY <1>1, <1>3, <1>5 DEF OnePlaceEach
<1>15. Counted'
  <2>1. Cardinality(Outstanding') = Cardinality(Outstanding) - 1
    BY <1>6, OutstandingFinite, FS_RemoveElement
  <2>2. QED
    BY <1>1, <2>1, OutstandingFinite DEF Counted
<1>16. ResultsNumbered'
  <2> SUFFICES ASSUME NEW i \in 0..Interval - 1
               PROVE  /\ res'[i] # Empty => i < num /\ res'[i] = Encoded(i)
                      /\ i < num /\ dataset[Numbered(i)] = "ok" => res'[i] = Numbered(i) \/ i \in Outstanding'
    BY <1>1, <1>7 DEF ResultsNumbered
  <2>1. CASE i = result.slot
    <3>1. res'[i] = result.sample \/ (result.sample = Empty /\ res'[i] = res[i])
      BY <1>11, <2>1
    <3>2. result.sample = Encoded(i) /\ i < num
      BY <1>4, <2>1
    <3>3. dataset[Numbered(i)] = "ok" => Encoded(i) = Numbered(i) /\ Encoded(i) # Empty
      BY <1>8, <1>9, <3>2 DEF Encoded
    <3>4. QED
      BY <3>1, <3>2, <3>3 DEF ResultsNumbered
  <2>2. CASE i # result.slot
    BY <1>6, <1>11, <2>2 DEF ResultsNumbered
  <2>3. QED
    BY <2>1, <2>2
<1>17. Quiescent' /\ RoundEnds' /\ SamplesKept'
  BY <1>1 DEF Quiescent, RoundEnds, SamplesKept, HeldBackNotLost, Finished, UpTo, Good, Samples
<1>18. QED
  BY <1>12, <1>13, <1>14, <1>15, <1>16, <1>17

-----------------------------------------------------------------------------
(* Packing and yielding keep it.                                           *)

\* A packing has every sample in exactly one of its packs.
LEMMA PackingPartitions ==
  ASSUME NEW items, NEW P \in Packings(items)
  PROVE  /\ UNION P = items
         /\ \A p, q \in P : p # q => p \cap q = {}
<1>1. PICK f \in [items -> 1..Cardinality(items)] :
        P = {{s \in items : f[s] = b} : b \in {f[s] : s \in items}}
  BY DEF Packings
<1>2. \A p \in P : \E b : p = {s \in items : f[s] = b}
  BY <1>1
<1>3. \A p, q \in P : p # q => p \cap q = {}
  BY <1>2
<1>4. \A s \in items : s \in {r \in items : f[r] = f[s]} /\ {r \in items : f[r] = f[s]} \in P
  BY <1>1
<1>5. \A s : s \in UNION P <=> s \in items
  BY <1>2, <1>4
<1>6. QED
  BY <1>3, <1>5

\* The packs to yield and the samples held back make up the samples that were packed,
\* without overlap, and nothing is held back from the last round.
LEMMA GroupsPartition ==
  ASSUME NEW items, NEW is_finished \in BOOLEAN, NEW m \in MatchedGroups(items, is_finished)
  PROVE  /\ (UNION m.packs) \cup m.rest = items
         /\ m.rest \cap (UNION m.packs) = {}
         /\ \A p, q \in m.packs : p # q => p \cap q = {}
         /\ is_finished => m.rest = {}
<1>1. CASE items = {}
  <2>1. m = [packs |-> {}, rest |-> {}]
    BY <1>1 DEF MatchedGroups
  <2>2. QED
    BY <1>1, <2>1
<1>2. CASE items # {} /\ is_finished
  <2>1. PICK P \in Packings(items) : m = [packs |-> P, rest |-> {}]
    BY <1>2 DEF MatchedGroups
  <2>2. QED
    BY <2>1, PackingPartitions
<1>3. CASE items # {} /\ ~is_finished
  <2>1. PICK P \in Packings(items) : \E last \in P : m = [packs |-> P \ {last}, rest |-> last]
    BY <1>3 DEF MatchedGroups
  <2>2. UNION P = items /\ \A p, q \in P : p # q => p \cap q = {}
    BY PackingPartitions
  <2>3. PICK last \in P : m.packs = P \ {last} /\ m.rest = last
    BY <2>1
  <2>4. QED
    BY <1>3, <2>2, <2>3
<1>4. QED
  BY <1>1, <1>2, <1>3

\* When as many results have come as were put, none is on its way: the round holds
\* its encodable samples, each at the place its number gives.
LEMMA RoundComplete ==
  ASSUME IInv, phase = "fetch", taken = num
  PROVE  /\ Outstanding = {}
         /\ RoundInOrder
         /\ Kept = UpTo(position) \ UpTo(position - num)
<1> USE DEF IInv
<1>1. Outstanding = {}
  <2>1. Cardinality(Outstanding) = 0
    BY OutstandingFinite DEF Counted
  <2>2. QED
    BY <2>1, OutstandingFinite, FS_EmptySet
<1>2. /\ Samples = 1..Cardinality(Samples) /\ Cardinality(Samples) \in Nat
      /\ position \in 0..Cardinality(Samples) /\ num <= position /\ num \in 0..Interval /\ Interval \in Nat
      /\ \A i \in Samples : i \in Int /\ i # Empty
  BY SampleNumbers, OutstandingFinite
<1>3. \A i \in 0..Interval - 1 :
        res[i] = IF i < num /\ dataset[Numbered(i)] = "ok" THEN Numbered(i) ELSE Empty
  BY <1>1 DEF ResultsNumbered, Encoded
<1>4. RoundInOrder
  BY <1>3 DEF RoundInOrder, Numbered
<1>5. ASSUME NEW s \in Kept PROVE s \in UpTo(position) \ UpTo(position - num)
  <2>1. PICK i \in 0..Interval - 1 : s = res[i] /\ s # Empty
    BY DEF Kept
  <2>2. s = position - num + 1 + i /\ i < num /\ dataset[s] = "ok"
    BY <1>3, <2>1 DEF Numbered
  <2>3. QED
    BY <1>2, <2>2 DEF UpTo, Good
<1>6. ASSUME NEW s \in UpTo(position) \ UpTo(position - num) PROVE s \in Kept
  <2>1. s \in Samples /\ dataset[s] = "ok" /\ s <= position /\ ~(s <= position - num)
    BY DEF UpTo, Good
  <2> DEFINE i == s - (position - num) - 1
  <2>2. i \in 0..Interval - 1 /\ i < num /\ Numbered(i) = s
    BY <1>2, <2>1 DEF Numbered
  <2>3. res[i] = s /\ s # Empty
    BY <1>2, <1>3, <2>1, <2>2
  <2>4. QED
    BY <2>2, <2>3 DEF Kept
<1>7. QED
  BY <1>1, <1>4, <1>5, <1>6

\* The round is packed together with the samples held back from the one before.
LEMMA PackStep ==
  ASSUME IInv, Pack
  PROVE  IInv'
<1> USE DEF IInv
<1>1. /\ phase = "fetch" /\ taken = num /\ phase' = "yield"
      /\ UNCHANGED <<strict, dataset, iters, position, in_queue, out_queue, holding, num, taken, res, emitted>>
  BY DEF Pack, inputVars, workVars
<1> DEFINE items == data \cup Kept
<1>2. PICK m \in MatchedGroups(items, Finished) : packs' = m.packs /\ data' = m.rest
  BY DEF Pack
<1>3. /\ Outstanding = {}
      /\ Kept = UpTo(position) \ UpTo(position - num)
  BY <1>1, RoundComplete
<1>4. /\ (UNION emitted) \cup data = UpTo(position - num) /\ (UNION emitted) \cap data = {}
      /\ packs = {} /\ \A p, q \in emitted : p # q => p \cap q = {}
  BY <1>1 DEF SamplesKept
<1>5. UpTo(position - num) \subseteq UpTo(position)
  <2>1. \A s \in Samples : s \in Int
    BY SampleNumbers
  <2>2. position \in Int /\ num \in Int /\ num >= 0
    BY SampleNumbers, OutstandingFinite
  <2>3. QED
    BY <2>1, <2>2 DEF UpTo, Good
<1>6. (UNION emitted) \cup items = UpTo(position) /\ (UNION emitted) \cap items = {}
  BY <1>3, <1>4, <1>5
<1> HIDE DEF items
<1>7. /\ (UNION packs') \cup data' = items /\ data' \cap (UNION packs') = {}
      /\ \A p, q \in packs' : p # q => p \cap q = {}
      /\ Finished => data' = {}
  <2>1. Finished \in BOOLEAN
    BY DEF Finished
  <2>2. QED
    BY <1>2, <2>1, GroupsPartition
<1>8. packs' \subseteq SUBSET Samples /\ data' \subseteq Samples
  BY <1>6, <1>7 DEF UpTo, Good
<1>9. TypeOK' /\ Inputs'
  BY <1>1, <1>8 DEF TypeOK, Inputs, Samples
<1>10. Slots(in_queue') = Slots(in_queue) /\ Slots(out_queue') = Slots(out_queue)
       /\ Busy' = Busy /\ HeldSlots' = HeldSlots /\ Outstanding' = Outstanding
  BY <1>1 DEF Busy, HeldSlots, Outstanding, Slots
<1>11. TasksNumbered' /\ OnePlaceEach' /\ Counted' /\ ResultsNumbered' /\ Quiescent'
  BY <1>1, <1>3, <1>10 DEF TasksNumbered, OnePlaceEach, Counted, ResultsNumbered, Quiescent,
                           Numbered, Encoded
<1>12. RoundEnds'
  BY <1>1 DEF RoundEnds, Finished, Samples
<1>13. SamplesKept'
  <2>1. UpTo(position)' = UpTo(position) /\ Finished' = Finished
    BY <1>1 DEF UpTo, Good, Samples, Finished
  <2>2. HeldBackNotLost'
    BY <1>1, <1>6, <1>7, <2>1 DEF HeldBackNotLost, UpTo
  <2>3. \A p, q \in packs' \cup emitted : p # q => p \cap q = {}
    BY <1>4, <1>6, <1>7
  <2>4. QED
    BY <1>1, <1>7, <2>1, <2>2, <2>3 DEF SamplesKept
<1>14. QED
  BY <1>9, <1>11, <1>12, <1>13

\* The consumer takes a pack.
LEMMA YieldStep ==
  ASSUME IInv, Yield
  PROVE  IInv'
<1> USE DEF IInv
<1>1. /\ phase \in {"yield", "suspended"} /\ phase' = "suspended"
      /\ UNCHANGED <<strict, dataset, iters, position, in_queue, out_queue, holding, num, taken, res, data>>
  BY DEF Yield, inputVars, workVars
<1>2. PICK p \in packs : packs' = packs \ {p} /\ emitted' = emitted \cup {p}
  BY DEF Yield
<1>3. /\ (UNION packs) \cup (UNION emitted) \cup data = UpTo(position)
      /\ (UNION packs) \cap (UNION emitted) = {} /\ data \cap ((UNION packs) \cup (UNION emitted)) = {}
      /\ Finished => data = {}
      /\ \A q, r \in packs \cup emitted : q # r => q \cap r = {}
  BY <1>1 DEF SamplesKept, HeldBackNotLost, UpTo
<1>4. UNION packs = (UNION packs') \cup p /\ UNION emitted' = (UNION emitted) \cup p
  BY <1>2
<1>5. p \cap (UNION packs') = {}
  BY <1>2, <1>3
<1>6. TypeOK' /\ Inputs'
  BY <1>1, <1>2 DEF TypeOK, Inputs, Samples
<1>7. Slots(in_queue') = Slots(in_queue) /\ Slots(out_queue') = Slots(out_queue)
       /\ Busy' = Busy /\ HeldSlots' = HeldSlots /\ Outstanding' = Outstanding
  BY <1>1 DEF Busy, HeldSlots, Outstanding, Slots
<1>8. TasksNumbered' /\ OnePlaceEach' /\ Counted' /\ ResultsNumbered' /\ Quiescent' /\ RoundEnds'
  BY <1>1, <1>7 DEF TasksNumbered, OnePlaceEach, Counted, ResultsNumbered, Quiescent, RoundEnds,
                    Numbered, Encoded, Finished, Samples
<1>9. SamplesKept'
  <2>1. UpTo(position)' = UpTo(position) /\ Finished' = Finished
    BY <1>1 DEF UpTo, Good, Samples, Finished
  <2>2. HeldBackNotLost'
    BY <1>1, <1>3, <1>4, <1>5, <2>1 DEF HeldBackNotLost, UpTo
  <2>3. \A q, r \in packs' \cup emitted' : q # r => q \cap r = {}
    BY <1>2, <1>3
  <2>4. QED
    BY <1>1, <1>3, <2>1, <2>2, <2>3 DEF SamplesKept
<1>10. QED
  BY <1>6, <1>8, <1>9

\* After the last pack of a round comes the next round, or the end.
LEMMA NextRoundStep ==
  ASSUME IInv, NextRound
  PROVE  IInv'
<1> USE DEF IInv
<1>1. /\ phase \in {"yield", "suspended"} /\ packs = {}
      /\ phase' = IF Finished THEN "done" ELSE "put"
      /\ num' = 0 /\ taken' = 0 /\ res' = NoResults
      /\ UNCHANGED <<strict, dataset, iters, position, in_queue, out_queue, holding, data, packs, emitted>>
  BY DEF NextRound, inputVars, workVars, outputVars
<1>2. Outstanding = {}
  BY <1>1 DEF Quiescent
<1>3. /\ Interval \in Nat \ {0} /\ position \in Nat /\ position \in 0..Cardinality(Samples)
      /\ Samples = 1..Cardinality(Samples)
  BY SampleNumbers, PackingAssumption DEF PackingAssumption
<1>4. TypeOK' /\ Inputs'
  <2>1. NoResults \in [0..Interval - 1 -> Samples \cup {Empty}]
    BY DEF NoResults
  <2>2. phase' \in {"put", "done"} /\ 0 \in 0..Interval /\ 0 \in 0..0
    BY <1>1, <1>3
  <2>3. QED
    BY <1>1, <1>3, <2>1, <2>2 DEF TypeOK, Inputs, Samples
<1>5. Slots(in_queue') = Slots(in_queue) /\ Slots(out_queue') = Slots(out_queue)
       /\ Busy' = Busy /\ HeldSlots' = HeldSlots /\ Outstanding' = Outstanding
  BY <1>1 DEF Busy, HeldSlots, Outstanding, Slots
<1>6. TasksNumbered'
  <2>1. DOMAIN in_queue = {} /\ DOMAIN out_queue = {} /\ Busy = {}
    BY <1>2 DEF Outstanding, Slots, HeldSlots
  <2>2. QED
    BY <1>1, <1>5, <2>1 DEF TasksNumbered
<1>7. OnePlaceEach' /\ Counted' /\ Quiescent'
  BY <1>1, <1>2, <1>5, FS_EmptySet DEF OnePlaceEach, Counted, Quiescent
<1>8. ResultsNumbered' /\ RoundEnds'
  BY <1>1, <1>3 DEF ResultsNumbered, RoundEnds, NoResults
<1>9. SamplesKept'
  <2>1. \A n : UpTo(n)' = UpTo(n) /\ Good' = Good
    BY <1>1 DEF UpTo, Good, Samples
  <2>2. (UNION emitted) \cup data = UpTo(position) /\ (UNION emitted) \cap data = {}
    BY <1>1 DEF SamplesKept, HeldBackNotLost, UpTo
  <2>3. position' - num' = position
    BY <1>1, <1>3
  <2>4. CASE Finished
    <3>1. data = {} /\ position = Cardinality(Samples)
      BY <1>1, <2>4 DEF SamplesKept, RoundEnds
    <3>2. UpTo(position) = Good
      BY <1>3, <3>1 DEF UpTo, Good
    <3>3. QED
      BY <1>1, <2>1, <2>2, <2>4, <3>1, <3>2 DEF SamplesKept, HeldBackNotLost
  <2>5. CASE ~Finished
    BY <1>1, <2>1, <2>2, <2>3, <2>5 DEF SamplesKept, HeldBackNotLost
  <2>6. QED
    BY <2>4, <2>5
<1>10. QED
  BY <1>4, <1>6, <1>7, <1>8, <1>9

\* A new generator over the same queues finds nothing in them.
LEMMA IterateStep ==
  ASSUME IInv, Iterate
  PROVE  IInv'
<1> USE DEF IInv
<1>1. /\ phase \in {"new", "suspended", "done"} /\ iters < MaxIters /\ iters' = iters + 1
      /\ phase' = IF Samples = {} THEN "done" ELSE "put"
      /\ position' = 0 /\ num' = 0 /\ taken' = 0 /\ res' = NoResults
      /\ data' = {} /\ packs' = {} /\ emitted' = {}
      /\ UNCHANGED <<strict, dataset, in_queue, out_queue, holding>>
  BY DEF Iterate, inputVars, workVars
<1>2. Outstanding = {}
  BY <1>1 DEF Quiescent
<1>3. /\ Interval \in Nat \ {0} /\ MaxIters \in Nat /\ Cardinality(Samples) \in Nat
      /\ Samples = 1..Cardinality(Samples)
  BY SampleNumbers, PackingAssumption DEF PackingAssumption
<1>4. TypeOK' /\ Inputs'
  <2>1. NoResults \in [0..Interval - 1 -> Samples \cup {Empty}]
    BY DEF NoResults
  <2>2. phase' \in {"put", "done"} /\ 0 \in 0..Interval /\ 0 \in 0..0 /\ 0 \in 0..Cardinality(Samples)
    BY <1>1, <1>3
  <2>3. iters' \in 0..MaxIters
    BY <1>1, <1>3 DEF TypeOK
  <2>4. QED
    BY <1>1, <2>1, <2>2, <2>3 DEF TypeOK, Inputs, Samples
<1>5. Slots(in_queue') = Slots(in_queue) /\ Slots(out_queue') = Slots(out_queue)
       /\ Busy' = Busy /\ HeldSlots' = HeldSlots /\ Outstanding' = Outstanding
  BY <1>1 DEF Busy, HeldSlots, Outstanding, Slots
<1>6. TasksNumbered'
  <2>1. DOMAIN in_queue = {} /\ DOMAIN out_queue = {} /\ Busy = {}
    BY <1>2 DEF Outstanding, Slots, HeldSlots
  <2>2. QED
    BY <1>1, <1>5, <2>1 DEF TasksNumbered
<1>7. OnePlaceEach' /\ Counted' /\ Quiescent'
  BY <1>1, <1>2, <1>5, FS_EmptySet DEF OnePlaceEach, Counted, Quiescent
<1>8. ResultsNumbered' /\ RoundEnds'
  BY <1>1, <1>3 DEF ResultsNumbered, RoundEnds, NoResults
<1>9. SamplesKept'
  <2>1. \A n : UpTo(n)' = UpTo(n) /\ Good' = Good
    BY <1>1 DEF UpTo, Good, Samples
  <2>2. UpTo(0) = {} /\ position' - num' = 0
    BY <1>1, <1>3 DEF UpTo, Good
  <2>3. Samples = {} => Good = {}
    BY DEF Good
  <2>4. QED
    BY <1>1, <2>1, <2>2, <2>3 DEF SamplesKept, HeldBackNotLost
<1>10. QED
  BY <1>4, <1>6, <1>7, <1>8, <1>9

-----------------------------------------------------------------------------
(* The theorems.                                                           *)

\* Every step keeps the invariant, and so does a step of something else.
LEMMA NextInv == IInv /\ [Next]_vars => IInv'
<1> SUFFICES ASSUME IInv, [Next]_vars PROVE IInv'
  OBVIOUS
<1>1. CASE Iterate
  BY <1>1, IterateStep
<1>2. CASE GeneratorStep
  BY <1>2, PutSampleStep, FetchResultStep, PackStep, YieldStep, NextRoundStep DEF GeneratorStep
<1>3. ASSUME NEW w \in Workers, WorkerStep(w) PROVE IInv'
  BY <1>3, WorkerGetStep, WorkerPutStep, WorkerDiesStep DEF WorkerStep
<1>4. CASE UNCHANGED vars
  <2>1. Slots(in_queue)' = Slots(in_queue) /\ Slots(out_queue)' = Slots(out_queue)
        /\ Busy' = Busy /\ HeldSlots' = HeldSlots /\ Outstanding' = Outstanding
    BY <1>4 DEF vars, Busy, HeldSlots, Outstanding, Slots
  <2>2. \A n : /\ UpTo(n)' = UpTo(n) /\ Good' = Good /\ Finished' = Finished
               /\ Numbered(n)' = Numbered(n) /\ Encoded(n)' = Encoded(n)
    BY <1>4 DEF vars, UpTo, Good, Samples, Finished, Numbered, Encoded
  <2>3. TypeOK' /\ Inputs'
    BY <1>4 DEF vars, IInv, TypeOK, Inputs, Samples
  <2>4. QED
    BY <1>4, <2>1, <2>2, <2>3
    DEF vars, IInv, TasksNumbered, OnePlaceEach, Counted, ResultsNumbered, Quiescent, RoundEnds,
        SamplesKept, HeldBackNotLost, Samples
<1>5. QED
  BY <1>1, <1>2, <1>3, <1>4 DEF Next

\* Every reachable state satisfies the inductive invariant.
LEMMA SpecInv == Spec => []IInv
<1>1. QED
  BY InitInv, NextInv, PTL DEF Spec

\* What the invariant says of the rounds and of a generator that is exhausted.
LEMMA InvImplies == IInv => TypeOK /\ RoundsKept /\ EachSampleOnce
<1> SUFFICES ASSUME IInv PROVE TypeOK /\ RoundsKept /\ EachSampleOnce
  OBVIOUS
<1> USE DEF IInv
<1>1. QuiescentAtYield
  <2> SUFFICES ASSUME phase \in {"yield", "suspended", "done"}
               PROVE  in_queue = <<>> /\ out_queue = <<>> /\ \A w \in Workers : Idle(w) \/ ~Alive(w)
    BY DEF QuiescentAtYield
  <2>1. Outstanding = {}
    BY DEF Quiescent
  <2>2. DOMAIN in_queue = {} /\ DOMAIN out_queue = {} /\ Busy = {}
    BY <2>1 DEF Outstanding, Slots, HeldSlots
  <2>3. in_queue \in Seq(Tasks) /\ out_queue \in Seq(Tasks)
    BY DEF TypeOK
  <2>4. \A s \in Seq(Tasks) : DOMAIN s = {} => s = <<>>
    OBVIOUS
  <2>5. QED
    BY <2>2, <2>3, <2>4 DEF Busy, Idle, Alive
<1>2. RoundInOrder
  <2>1. CASE phase = "fetch" /\ taken = num
    BY <2>1, RoundComplete
  <2>2. CASE ~(phase = "fetch" /\ taken = num)
    BY <2>2 DEF RoundInOrder
  <2>3. QED
    BY <2>1, <2>2
<1>3. HeldBackNotLost /\ EachSampleOnce
  BY DEF SamplesKept, EachSampleOnce
<1>4. QED
  BY <1>1, <1>2, <1>3 DEF RoundsKept

\* Types hold; no more samples are put in a round than its interval.
THEOREM TypesHold == Spec => []TypeOK
<1>1. QED
  BY SpecInv, InvImplies, PTL

\* The queues are empty whenever the consumer has the control, a round is packed in
\* dataset order, and packing back what was held loses and repeats no sample.
THEOREM RoundsAreKept == Spec => []RoundsKept
<1>1. QED
  BY SpecInv, InvImplies, PTL

\* An exhausted generator has yielded every sample that encodes in exactly one pack.
THEOREM SamplesYieldedOnce == Spec => []EachSampleOnce
<1>1. QED
  BY SpecInv, InvImplies, PTL

-----------------------------------------------------------------------------
(* Loading: the samplers.                                                  *)

\* What DataAssumption says of the job.
LEMMA PlanOptions ==
  ASSUME plan \in Plans
  PROVE  /\ plan.kind \in {"shard", "sequence", "stream", "megatron"}
         /\ plan.total \in Nat \ {0} /\ plan.world \in Nat \ {0} /\ plan.batch \in Nat \ {0}
         /\ plan.epochs \in Nat \ {0} /\ plan.steps \in Nat \ {0} /\ plan.save \in Nat \ {0}
         /\ plan.shuffle \in BOOLEAN /\ plan.drop_last \in BOOLEAN /\ plan.sharding \in BOOLEAN
         /\ MaxCrashes \in Nat
         /\ plan.kind = "shard" =>
              plan.total >= plan.world * (IF plan.drop_last THEN plan.batch ELSE 1)
         /\ plan.kind = "sequence" /\ plan.drop_last => plan.total > plan.world * (plan.batch - 1)
         /\ plan.kind = "megatron" => plan.total >= plan.world * plan.batch
<1>1. /\ {plan.total, plan.world, plan.batch, plan.epochs, plan.steps, plan.save}
            \subseteq Nat \ {0}
      /\ {plan.shuffle, plan.drop_last, plan.sharding} \subseteq BOOLEAN
  BY DataAssumption
<1>2. QED
  BY <1>1, DataAssumption

\* A permutation the loaders use is one.
LEMMA Permuted ==
  ASSUME plan \in Plans, NEW seed \in 0..plan.epochs, NEW n \in 1..plan.total
  PROVE  /\ Permutation(seed, n) \in [1..n -> 1..n]
         /\ \A i, j \in 1..n : Permutation(seed, n)[i] = Permutation(seed, n)[j] => i = j
<1>1. Permutation(seed, n) \in [1..n -> 1..n] /\ IsInjective(Permutation(seed, n))
  BY DataAssumption
<1>2. QED
  BY <1>1 DEF IsInjective

\* Max and Min of two.
LEMMA MaxOfTwo ==
  ASSUME NEW a \in Int, NEW b \in Int
  PROVE  Max({a, b}) = IF a >= b THEN a ELSE b
  BY DEF Max

\* Likewise the smaller.
LEMMA MinOfTwo ==
  ASSUME NEW a \in Int, NEW b \in Int
  PROVE  Min({a, b}) = IF a <= b THEN a ELSE b
  BY DEF Min

\* Rounding up.
LEMMA CeilIs ==
  ASSUME NEW a \in Nat, NEW b \in Nat \ {0}
  PROVE  /\ Ceil(a, b) \in Nat /\ a <= b * Ceil(a, b) /\ b * Ceil(a, b) < a + b
         /\ \A i \in Nat : i < Ceil(a, b) <=> b * i < a
<1> DEFINE x == a + b - 1
           q == x \div b
           r == x % b
<1>1. x \in Nat
  OBVIOUS
<1> HIDE DEF x
<1>2. q \in Nat /\ r \in 0..(b - 1) /\ x = b * q + r
  BY <1>1, Divided
<1>3. Ceil(a, b) = q
  BY DEF Ceil, x
<1> HIDE DEF q, r
<1>4. a <= b * q /\ b * q < a + b
  <2>1. b * q \in Nat
    BY <1>2
  <2>2. QED
    BY <1>2, <2>1 DEF x
<1>5. ASSUME NEW i \in Nat PROVE i < q <=> b * i < a
  <2>1. CASE i < q
    <3>1. b * (i + 1) <= b * q /\ b * (i + 1) = b * i + b
      BY <1>2, <2>1
    <3>2. b * i \in Nat /\ b * q \in Nat
      BY <1>2
    <3>3. QED
      BY <1>4, <2>1, <3>1, <3>2
  <2>2. CASE i >= q
    <3>1. b * q <= b * i /\ b * i \in Nat /\ b * q \in Nat
      BY <1>2, <2>2
    <3>2. QED
      BY <1>2, <1>4, <2>2, <3>1
  <2>3. QED
    BY <1>2, <2>1, <2>2
<1>6. QED
  BY <1>2, <1>3, <1>4, <1>5

\* s[k::world]: the elements behind each other's distance of world, from the k-th on.
LEMMA StridedIs ==
  ASSUME plan \in Plans, NEW T, NEW s \in Seq(T), NEW k \in Ranks
  PROVE  /\ Strided(s, k) \in Seq(T)
         /\ \A i \in Nat \ {0} : i \in DOMAIN Strided(s, k) <=> (i - 1) * plan.world + k + 1 <= Len(s)
         /\ \A i \in DOMAIN Strided(s, k) : Strided(s, k)[i] = s[(i - 1) * plan.world + k + 1]
<1> DEFINE w == plan.world
           a == Max({0, Len(s) - k})
           n == Ceil(a, w)
           At(i) == (i - 1) * w + k + 1
<1>1. w \in Nat \ {0} /\ k \in Nat /\ Len(s) \in Nat
  BY PlanOptions DEF Ranks
<1>2. a \in Nat /\ a = IF Len(s) >= k THEN Len(s) - k ELSE 0
  BY <1>1, MaxOfTwo
<1> HIDE DEF a, w
<1>3. n \in Nat /\ \A i \in Nat : i < n <=> w * i < a
  BY <1>1, <1>2, CeilIs
<1> HIDE DEF n
<1>4. Strided(s, k) = [i \in 1..n |-> s[At(i)]]
  BY DEF Strided, w, a, n
<1>5. ASSUME NEW i \in Nat \ {0}
      PROVE  At(i) \in Nat \ {0} /\ (i \in 1..n <=> At(i) <= Len(s))
  <2> DEFINE j == i - 1
             m == w * j
  <2>1. j \in Nat /\ (i \in 1..n <=> j < n)
    BY <1>3
  <2>2. m \in Nat /\ j * w = m
    BY <1>1, <2>1
  <2>3. i \in 1..n <=> m < a
    BY <1>3, <2>1
  <2> HIDE DEF m
  <2>4. At(i) = m + k + 1
    BY <2>2
  <2>5. QED
    BY <1>1, <1>2, <2>2, <2>3, <2>4
<1> HIDE DEF At
<1>6. \A i \in 1..n : s[At(i)] \in T
  BY <1>3, <1>5
<1>7. Strided(s, k) \in Seq(T) /\ DOMAIN Strided(s, k) = 1..n
  BY <1>3, <1>4, <1>6
<1>8. QED
  BY <1>3, <1>4, <1>5, <1>7 DEF At, w

\* All processes have the same number of them, if the rounds are full.
LEMMA StridedEven ==
  ASSUME plan \in Plans, NEW T, NEW s \in Seq(T), NEW n \in Nat, Len(s) = plan.world * n, NEW k \in Ranks
  PROVE  Len(Strided(s, k)) = n
<1> DEFINE w == plan.world
<1>1. w \in Nat \ {0} /\ k \in 0..(w - 1)
  BY PlanOptions DEF Ranks
<1>2. Strided(s, k) \in Seq(T)
  BY StridedIs
<1> HIDE DEF w
<1>3. ASSUME NEW i \in Nat \ {0}
      PROVE  i \in DOMAIN Strided(s, k) <=> i <= n
  <2>1. i \in DOMAIN Strided(s, k) <=> (i - 1) * w + k + 1 <= w * n
    BY StridedIs DEF w
  <2> DEFINE j == i - 1
             m == w * j
             l == w * n
  <2>2. j \in Nat /\ m \in Nat /\ j * w = m /\ l \in Nat
    BY <1>1
  <2>3. CASE i <= n
    <3>1. w * i <= w * n /\ w * i = m + w
      BY <1>1, <2>3
    <3> HIDE DEF m, j, l
    <3>2. m + w <= l
      BY <3>1 DEF l
    <3>3. m + k + 1 <= l
      BY <1>1, <2>2, <3>2
    <3>4. QED
      BY <2>1, <2>2, <2>3, <3>3 DEF j, l
  <2>4. CASE i > n
    <3>1. w * n <= w * j
      BY <1>1, <2>4
    <3> HIDE DEF m, l
    <3>2. l <= m
      BY <3>1 DEF l, m
    <3>3. ~(m + k + 1 <= l)
      BY <1>1, <2>2, <3>2
    <3>4. (i - 1) * w = m
      BY <2>2
    <3>5. QED
      BY <2>1, <2>4, <3>3, <3>4 DEF l
  <2>5. QED
    BY <2>3, <2>4
<1>4. Len(Strided(s, k)) \in Nat /\ DOMAIN Strided(s, k) = 1..Len(Strided(s, k))
  BY <1>2
<1> DEFINE t == Strided(s, k)
<1> HIDE DEF t
<1>5. Len(t) \in Nat /\ \A i \in Nat \ {0} : i <= Len(t) <=> i <= n
  BY <1>3, <1>4 DEF t
<1>6. Len(t) <= n
  BY <1>5
<1>7. n <= Len(t)
  BY <1>5
<1>8. QED
  BY <1>5, <1>6, <1>7 DEF t

\* Batches of one length, the last one shorter unless it is dropped.
AreBatches(u, s, drop_last, T) ==
  /\ u \in Seq(Seq(T))
  /\ Len(u) = IF drop_last THEN Len(s) \div plan.batch ELSE Ceil(Len(s), plan.batch)
  /\ \A i \in DOMAIN u :
       /\ \A j \in Nat \ {0} : j \in DOMAIN u[i] <=> j <= plan.batch /\ (i - 1) * plan.batch + j <= Len(s)
       /\ \A j \in DOMAIN u[i] : u[i][j] = s[(i - 1) * plan.batch + j]

\* A BatchSampler's are.
LEMMA BatchedIs ==
  ASSUME plan \in Plans, NEW T, NEW s \in Seq(T), NEW drop_last \in BOOLEAN
  PROVE  AreBatches(Batched(s, drop_last), s, drop_last, T)
<1> DEFINE b == plan.batch
           n == IF drop_last THEN Len(s) \div b ELSE Ceil(Len(s), b)
           Part(i) == SubSeq(s, (i - 1) * b + 1, Min({i * b, Len(s)}))
<1>1. b \in Nat \ {0} /\ Len(s) \in Nat
  BY PlanOptions
<1>2. n \in Nat
  BY <1>1, CeilIs, Divided
<1>0. ASSUME NEW i \in 1..n PROVE (i - 1) * b < Len(s)
  <2> DEFINE j == i - 1
             q == Len(s) \div b
             r == Len(s) % b
  <2>1. j \in Nat /\ b * j \in Nat /\ j * b = b * j
    BY <1>1, <1>2
  <2>2. CASE drop_last
    <3>1. q \in Nat /\ r \in 0..(b - 1) /\ Len(s) = b * q + r
      BY <1>1, Divided
    <3>0. n = q
      BY <2>2
    <3> HIDE DEF q, r, n
    <3>4. i <= q
      BY <3>0, <3>1
    <3>2. b * i <= b * q /\ b * i = b * j + b /\ b * q \in Nat
      BY <1>1, <3>0, <3>1, <3>4
    <3>3. QED
      BY <1>1, <2>1, <3>1, <3>2, <3>4
  <2>3. CASE ~drop_last
    <3>1. j < Ceil(Len(s), b)
      BY <1>2, <2>3
    <3>2. b * j < Len(s)
      BY <1>1, <2>1, <3>1, CeilIs
    <3>3. QED
      BY <2>1, <3>2
  <2>4. QED
    BY <2>2, <2>3
<1> HIDE DEF n, b
<1>3. Batched(s, drop_last) = [i \in 1..n |-> Part(i)]
  BY DEF Batched, n, b
<1>4. ASSUME NEW i \in 1..n
      PROVE  /\ Part(i) \in Seq(T)
             /\ \A j \in Nat \ {0} : j \in DOMAIN Part(i) <=> j <= b /\ (i - 1) * b + j <= Len(s)
             /\ \A j \in DOMAIN Part(i) : Part(i)[j] = s[(i - 1) * b + j]
  <2> DEFINE x == (i - 1) * b
             e == Min({i * b, Len(s)})
  <2>1. x \in Nat /\ i * b = x + b /\ x < Len(s)
    BY <1>0, <1>1, <1>2
  <2> HIDE DEF x
  <2>2. e = IF x + b <= Len(s) THEN x + b ELSE Len(s)
    <3>1. e = Min({x + b, Len(s)})
      BY <2>1
    <3>2. x + b \in Int /\ Len(s) \in Int
      BY <1>1, <2>1
    <3>3. QED
      BY <3>1, <3>2, MinOfTwo
  <2> HIDE DEF e
  <2>3. Part(i) = SubSeq(s, x + 1, e)
    BY DEF x, e
  <2>4. e \in Nat /\ e <= Len(s) /\ x < e
    BY <1>1, <2>1, <2>2
  <2>5. /\ Part(i) \in Seq(T)
        /\ Len(Part(i)) = e - x
        /\ \A j \in 1..Len(Part(i)) : Part(i)[j] = s[x + j]
    <3>1. x + 1 \in 1..Len(s) /\ e \in (x + 1)..Len(s)
      BY <1>1, <2>1, <2>4
    <3>2. /\ SubSeq(s, x + 1, e) \in Seq(T) /\ Len(SubSeq(s, x + 1, e)) = e - (x + 1) + 1
          /\ \A j \in 1..(e - (x + 1) + 1) : SubSeq(s, x + 1, e)[j] = s[x + 1 + j - 1]
      BY <3>1, SubSeqProperties
    <3> DEFINE u == SubSeq(s, x + 1, e)
    <3> HIDE DEF u
    <3>3. u \in Seq(T) /\ Len(u) = e - x
      BY <2>1, <2>4, <3>2 DEF u
    <3>4. ASSUME NEW j \in 1..Len(u) PROVE u[j] = s[x + j]
      <4>1. j \in Int /\ x + 1 + j - 1 = x + j /\ j \in 1..(e - (x + 1) + 1)
        BY <2>1, <2>4, <3>3
      <4>2. u[j] = s[x + 1 + j - 1]
        BY <3>2, <4>1 DEF u
      <4>3. QED
        BY <4>1, <4>2
    <3>5. Part(i) = u
      BY <2>3 DEF u
    <3> HIDE DEF Part
    <3>6. QED
      BY <3>3, <3>4, <3>5
  <2> HIDE DEF Part
  <2>6. ASSUME NEW j \in Nat \ {0} PROVE j <= Len(Part(i)) <=> j <= b /\ x + j <= Len(s)
    BY <1>1, <2>1, <2>2, <2>4, <2>5
  <2>7. DOMAIN Part(i) = 1..Len(Part(i)) /\ Len(Part(i)) \in Nat
    BY <2>5
  <2>8. QED
    BY <2>5, <2>6, <2>7 DEF x
<1> HIDE DEF Part
<1>5. Batched(s, drop_last) \in Seq(Seq(T)) /\ Len(Batched(s, drop_last)) = n
      /\ DOMAIN Batched(s, drop_last) = 1..n
  BY <1>2, <1>3, <1>4
<1>6. \A i \in 1..n : Batched(s, drop_last)[i] = Part(i)
  BY <1>3
<1>7. Len(Batched(s, drop_last)) = IF drop_last THEN Len(s) \div b ELSE Ceil(Len(s), b)
  BY <1>5 DEF n
<1>8. \A i \in DOMAIN Batched(s, drop_last) :
              /\ \A j \in Nat \ {0} : j \in DOMAIN Batched(s, drop_last)[i] <=>
                     j <= b /\ (i - 1) * b + j <= Len(s)
              /\ \A j \in DOMAIN Batched(s, drop_last)[i] :
                     Batched(s, drop_last)[i][j] = s[(i - 1) * b + j]
  BY <1>4, <1>5, <1>6
<1>9. QED
  BY <1>5, <1>7, <1>8 DEF b, AreBatches

\* What follows the first elements.
LEMMA FromIs ==
  ASSUME NEW T, NEW s \in Seq(T), NEW n \in 0..Len(s)
  PROVE  /\ From(s, n) \in Seq(T) /\ Len(From(s, n)) = Len(s) - n
         /\ \A i \in 1..(Len(s) - n) : From(s, n)[i] = s[n + i]
  BY DEF From

\* The order of an epoch.
LEMMA SeededIs ==
  ASSUME plan \in Plans, NEW seed \in 0..plan.epochs, NEW n \in 1..plan.total
  PROVE  /\ Seeded(seed, n) \in Seq(Indices) /\ Len(Seeded(seed, n)) = n
         /\ Seeded(seed, n) \in [1..n -> 1..n]
         /\ \A i, j \in 1..n : Seeded(seed, n)[i] = Seeded(seed, n)[j] => i = j
<1>1. plan.total \in Nat \ {0} /\ plan.shuffle \in BOOLEAN
  BY PlanOptions
<1> DEFINE s == Seeded(seed, n)
<1>2. s \in [1..n -> 1..n] /\ \A i, j \in 1..n : s[i] = s[j] => i = j
  <2>1. CASE plan.shuffle
    BY <2>1, Permuted DEF Seeded
  <2>2. CASE ~plan.shuffle
    <3>1. s = [i \in 1..n |-> i]
      BY <2>2 DEF Seeded
    <3>2. QED
      BY <3>1
  <2>3. QED
    BY <2>1, <2>2
<1> HIDE DEF s
<1>3. s \in Seq(1..plan.total) /\ Len(s) = n
  BY <1>1, <1>2
<1>4. QED
  BY <1>2, <1>3 DEF Indices, s

\* The samples that fill the rounds of a BatchSamplerShard.
ShardTotal == (plan.total \div plan.world) * plan.world

\* What BatchSamplerShard deals out, which is a sample for each process at least.
LEMMA ShardSizes ==
  ASSUME plan \in Plans, plan.kind = "shard"
  PROVE  /\ plan.total \div plan.world \in Nat \ {0}
         /\ ShardTotal \in 1..plan.total
         /\ ShardTotal = plan.world * (plan.total \div plan.world)
         /\ plan.total < ShardTotal + plan.world
         /\ plan.drop_last => plan.batch <= plan.total \div plan.world
<1> DEFINE w == plan.world
           t == plan.total
           q == t \div w
           r == t % w
           b == plan.batch
           m == IF plan.drop_last THEN b ELSE 1
<1>1. /\ w \in Nat \ {0} /\ t \in Nat \ {0} /\ b \in Nat \ {0} /\ plan.drop_last \in BOOLEAN
      /\ t >= w * m
  BY PlanOptions
<1> HIDE DEF w, t, b
<1>2. q \in Nat /\ r \in 0..(w - 1) /\ t = w * q + r
  BY <1>1, Divided
<1> HIDE DEF q, r
<1>3. m \in Nat \ {0}
  BY <1>1
<1> HIDE DEF m
<1>4. m <= q
  <2>1. SUFFICES ASSUME q < m PROVE FALSE
    BY <1>2, <1>3
  <2>2. w * (q + 1) <= w * m /\ w * (q + 1) = w * q + w
    BY <1>1, <1>2, <1>3, <2>1
  <2>3. w * q \in Nat /\ w * m \in Nat
    BY <1>1, <1>2, <1>3
  <2>4. QED
    BY <1>1, <1>2, <2>2, <2>3
<1>5. ShardTotal = w * q /\ w * q \in Nat \ {0}
  <2>1. ShardTotal = q * w
    BY DEF ShardTotal, q, w, t
  <2>2. q \in Nat \ {0}
    BY <1>2, <1>3, <1>4
  <2>3. QED
    BY <1>1, <2>1, <2>2
<1>6. QED
  BY <1>1, <1>2, <1>3, <1>4, <1>5 DEF m, q, w, t, b

\* The samples of an epoch of a SequenceParallelSampler, filled up from the beginning.
Filled(e) == [i \in 1..RoundedUp |-> Permutation(e, plan.total)[((i - 1) % plan.total) + 1]]

\* What SequenceParallelSampler deals out: all samples, and less than a round more.
LEMMA SequenceSizes ==
  ASSUME plan \in Plans, plan.kind = "sequence"
  PROVE  /\ Ceil(plan.total, plan.world) \in Nat \ {0}
         /\ RoundedUp = plan.world * Ceil(plan.total, plan.world)
         /\ RoundedUp \in Nat /\ plan.total <= RoundedUp /\ RoundedUp < plan.total + plan.world
         /\ plan.drop_last => plan.batch <= Ceil(plan.total, plan.world)
<1> DEFINE w == plan.world
           t == plan.total
           b == plan.batch
           q == Ceil(t, w)
<1>1. /\ w \in Nat \ {0} /\ t \in Nat \ {0} /\ b \in Nat \ {0} /\ plan.drop_last \in BOOLEAN
      /\ plan.drop_last => t > w * (b - 1)
  BY PlanOptions
<1> HIDE DEF w, t, b
<1>2. q \in Nat /\ t <= w * q /\ w * q < t + w /\ \A i \in Nat : i < q <=> w * i < t
  BY <1>1, CeilIs
<1> HIDE DEF q
<1>3. q # 0
  BY <1>1, <1>2
<1>4. RoundedUp = w * q /\ w * q \in Nat
  <2>1. RoundedUp = q * w
    BY DEF RoundedUp, q, w, t
  <2>2. QED
    BY <1>1, <1>2, <2>1
<1>5. plan.drop_last => b <= q
  <2>1. b - 1 \in Nat
    BY <1>1
  <2>2. plan.drop_last => b - 1 < q
    BY <1>1, <1>2, <2>1
  <2>3. QED
    BY <1>1, <1>2, <2>2
<1>6. QED
  BY <1>1, <1>2, <1>3, <1>4, <1>5 DEF q, w, t, b

\* It has samples only.
LEMMA FilledIs ==
  ASSUME plan \in Plans, plan.kind = "sequence", NEW seed \in 0..plan.epochs
  PROVE  Filled(seed) \in Seq(Indices) /\ Len(Filled(seed)) = RoundedUp
<1> DEFINE t == plan.total
<1>1. t \in Nat \ {0} /\ RoundedUp \in Nat
  BY PlanOptions, SequenceSizes
<1>2. Permutation(seed, t) \in [1..t -> 1..t]
  <2>1. t \in 1..plan.total
    BY <1>1
  <2>2. QED
    BY <2>1, Permuted
<1> HIDE DEF t
<1>3. ASSUME NEW i \in 1..RoundedUp PROVE ((i - 1) % t) + 1 \in 1..t
  BY <1>1
<1>4. Filled(seed) = [i \in 1..RoundedUp |-> Permutation(seed, t)[((i - 1) % t) + 1]]
  BY DEF Filled, t
<1>5. \A i \in 1..RoundedUp : Permutation(seed, t)[((i - 1) % t) + 1] \in 1..t
  BY <1>2, <1>3
<1>6. Filled(seed) \in Seq(1..t) /\ Len(Filled(seed)) = RoundedUp
  BY <1>1, <1>4, <1>5
<1>7. QED
  BY <1>6 DEF Indices, t

\* The samples of a bucket of MegatronPretrainingRandomSampler, and those of all its batches.
Bucket == (plan.total \div Global) * plan.batch
Full == (plan.total \div plan.batch) * plan.batch

\* What fills global batches, and how it is divided among the processes.
LEMMA MegatronSizes ==
  ASSUME plan \in Plans, plan.kind = "megatron"
  PROVE  /\ Global \in Nat \ {0} /\ Global = plan.world * plan.batch
         /\ plan.total \div Global \in Nat \ {0}
         /\ Active \in Nat \ {0} /\ Active = Global * (plan.total \div Global)
         /\ Active <= Full /\ Full \in 1..plan.total
         /\ Bucket \in 1..plan.total /\ Bucket = plan.batch * (plan.total \div Global)
         /\ Active = plan.world * Bucket /\ plan.total < Active + Global
         /\ EpochSteps = plan.total \div Global
<1> DEFINE w == plan.world
           b == plan.batch
           t == plan.total
           g == b * w
           n == t \div g
           r == t % g
           m == t \div b
           l == t % b
<1>1. w \in Nat \ {0} /\ b \in Nat \ {0} /\ t \in Nat \ {0} /\ t >= w * b
  BY PlanOptions
<1>0. Global = g /\ Bucket = n * b /\ Full = m * b /\ Active = t - r
  BY DEF Global, Bucket, Full, Active
<1>z. EpochSteps = Active \div g
  BY DEF EpochSteps, Mapped, Global
<1>d. plan.total \div Global = n
  BY <1>0
<1>w. plan.world = w /\ plan.batch = b /\ plan.total = t
  OBVIOUS
<1> HIDE DEF w, t, b
<1>2. g \in Nat \ {0} /\ g = w * b /\ g <= t
  BY <1>1
<1> HIDE DEF g
<1>3. n \in Nat /\ r \in 0..(g - 1) /\ t = g * n + r
  BY <1>1, <1>2, Divided
<1>4. m \in Nat /\ l \in 0..(b - 1) /\ t = b * m + l
  BY <1>1, Divided
<1> HIDE DEF n, r, m, l
<1>5. n # 0
  BY <1>2, <1>3
<1>6. g * n \in Nat \ {0} /\ Active = g * n
  BY <1>0, <1>2, <1>3, <1>5
<1>7. b * (w * n) <= b * m
  <2>1. SUFFICES ASSUME m < w * n PROVE FALSE
    BY <1>1, <1>3, <1>4
  <2>2. w * n \in Nat
    BY <1>1, <1>3
  <2>3. b * (m + 1) <= b * (w * n) /\ b * (m + 1) = b * m + b
    BY <1>1, <1>4, <2>1, <2>2
  <2>4. b * (w * n) = g * n
    BY <1>1, <1>2, <1>3
  <2>5. b * m \in Nat /\ b * (w * n) \in Nat
    BY <1>1, <1>4, <2>2
  <2>6. QED
    BY <1>1, <1>3, <1>4, <2>3, <2>4, <2>5
<1>8. b * (w * n) = g * n /\ w * (n * b) = g * n /\ m * b = b * m /\ n * b = b * n
  BY <1>1, <1>2, <1>3, <1>4
<1>9. b * n \in Nat \ {0} /\ b * n <= g * n
  <2>1. b * n \in Nat \ {0}
    BY <1>1, <1>3, <1>5
  <2>2. g * n = w * (b * n)
    BY <1>8
  <2> DEFINE x == b * n
  <2> HIDE DEF x
  <2>3. x <= w * x
    BY <1>1, <2>1 DEF x
  <2>4. QED
    BY <2>1, <2>2, <2>3 DEF x
<1>10. b * m \in Nat
  BY <1>1, <1>4
<1>11. Full \in 1..t /\ Active <= Full
  BY <1>0, <1>1, <1>4, <1>6, <1>7, <1>8, <1>10
<1>12. Bucket \in 1..t /\ Bucket = b * n /\ Active = w * Bucket
  BY <1>0, <1>1, <1>3, <1>6, <1>8, <1>9
<1>13. EpochSteps = n
  <2>1. n \in Nat /\ 0 \in 0..(g - 1) /\ Active = g * n + 0
    BY <1>2, <1>3, <1>6
  <2>2. QED
    BY <1>2, <1>z, <2>1, Quotient
<1>14. t < Active + g
  BY <1>1, <1>2, <1>3, <1>6
<1>15. QED
  BY <1>0, <1>d, <1>w, <1>2, <1>3, <1>5, <1>6, <1>11, <1>12, <1>13, <1>14

-----------------------------------------------------------------------------
(* What a process is dealt in an epoch.                                    *)

Sharded == plan.kind = "megatron" /\ plan.shuffle /\ plan.sharding

\* The order of the epoch, which the processes are dealt in turn.
Order(e) ==
  CASE plan.kind = "shard" -> Seeded(e, ShardTotal)
    [] plan.kind = "sequence" -> Filled(e)
    [] plan.kind = "megatron" -> Seeded(e, Full)
Mine(k, e) ==
  IF Sharded THEN [i \in 1..Bucket |-> k * Bucket + Permutation(e, Bucket)[i]]
  ELSE Strided(Order(e), k)
Dropping == IF plan.kind = "megatron" THEN TRUE ELSE plan.drop_last

\* Its batches.
Share(k, e) ==
  IF plan.kind = "stream"
  THEN [i \in 1..PassSteps |-> StreamBatches[(i - 1) * plan.world + k + 1]]
  ELSE Batched(Mine(k, e), Dropping)

\* The order has what is dealt out.
LEMMA OrderIs ==
  ASSUME plan \in Plans, plan.kind # "stream", NEW e \in 0..plan.epochs
  PROVE  /\ Order(e) \in Seq(Indices)
         /\ plan.kind = "shard" => Len(Order(e)) = ShardTotal
         /\ plan.kind = "sequence" => Len(Order(e)) = RoundedUp
         /\ plan.kind = "megatron" => Len(Order(e)) = Full
<1>1. plan.kind \in {"shard", "sequence", "megatron"}
  BY PlanOptions
<1>2. CASE plan.kind = "shard"
  BY <1>2, ShardSizes, SeededIs DEF Order
<1>3. CASE plan.kind = "sequence"
  BY <1>3, FilledIs DEF Order
<1>4. CASE plan.kind = "megatron"
  BY <1>4, MegatronSizes, SeededIs DEF Order
<1>5. QED
  BY <1>1, <1>2, <1>3, <1>4

\* A process is dealt samples.
LEMMA MineIs ==
  ASSUME plan \in Plans, plan.kind # "stream", NEW e \in 0..plan.epochs, NEW k \in Ranks
  PROVE  Mine(k, e) \in Seq(Indices)
<1>1. CASE Sharded
  <2> DEFINE u == Bucket
             w == plan.world
             t == plan.total
             p == Permutation(e, u)
  <2>1. u \in 1..t /\ u \in Nat \ {0} /\ w * u <= t /\ t \in Nat \ {0} /\ w \in Nat \ {0} /\ k \in 0..(w - 1)
    BY <1>1, MegatronSizes, PlanOptions DEF Sharded, Ranks
  <2>2. p \in [1..u -> 1..u]
    BY <2>1, Permuted
  <2>3. Mine(k, e) = [i \in 1..u |-> k * u + p[i]]
    BY <1>1 DEF Mine
  <2> HIDE DEF u, w, t, p
  <2>4. ASSUME NEW i \in 1..u PROVE k * u + p[i] \in 1..t
    <3> DEFINE x == k * u
               y == w * u
    <3>1. (k + 1) * u <= y /\ (k + 1) * u = x + u /\ x \in Nat /\ y \in Nat
      BY <2>1
    <3> HIDE DEF x, y
    <3>2. y <= t
      BY <2>1 DEF y
    <3>3. p[i] \in 1..u
      BY <2>2
    <3>4. x + p[i] \in 1..t
      BY <2>1, <3>1, <3>2, <3>3
    <3>5. QED
      BY <3>4 DEF x
  <2>5. Mine(k, e) \in Seq(1..t)
    BY <2>1, <2>3, <2>4
  <2>6. QED
    BY <2>5 DEF Indices, t
<1>2. CASE ~Sharded
  BY <1>2, OrderIs, StridedIs DEF Mine
<1>3. QED
  BY <1>1, <1>2

\* The batches of a mapped loader are those of its share.
LEMMA BatchesAre ==
  ASSUME plan \in Plans, Mapped, NEW e \in 0..plan.epochs, NEW k \in Ranks
  PROVE  /\ Batches(k, e) = Share(k, e) /\ Share(k, e) \in Seq(Seq(Indices))
         /\ Len(Share(k, e)) = EpochSteps /\ EpochSteps \in Nat \ {0}
<1> DEFINE n(x) == Len(Mine(x, e))
           p == IF plan.kind = "shard" THEN plan.total \div plan.world
                ELSE Ceil(plan.total, plan.world)
           c == IF plan.drop_last THEN p \div plan.batch ELSE Ceil(p, plan.batch)
<1>1. plan.kind \in {"shard", "sequence"} /\ plan.drop_last \in BOOLEAN /\ plan.batch \in Nat \ {0}
      /\ plan.epochs \in Nat
  BY PlanOptions DEF Mapped
<1>2. ASSUME NEW s \in 0..plan.epochs, NEW x \in Ranks PROVE Batches(x, s) = Batched(Mine(x, s), plan.drop_last)
  <2>1. CASE plan.kind = "shard"
    BY <2>1 DEF Batches, ShardBatches, Mine, Order, Sharded, ShardTotal
  <2>2. CASE plan.kind = "sequence"
    BY <2>2 DEF Batches, SequenceBatches, Mine, Order, Sharded, Filled
  <2>3. QED
    BY <1>1, <2>1, <2>2
<1>3. ASSUME NEW s \in 0..plan.epochs, NEW x \in Ranks PROVE Len(Mine(x, s)) = p
  <2>1. Mine(x, s) = Strided(Order(s), x) /\ Order(s) \in Seq(Indices) /\ Len(Order(s)) = plan.world * p
        /\ p \in Nat
    BY <1>1, OrderIs, ShardSizes, SequenceSizes DEF Mine, Sharded
  <2>2. QED
    BY <2>1, StridedEven
<1>4. p \in Nat \ {0} /\ (plan.drop_last => plan.batch <= p)
  BY <1>1, ShardSizes, SequenceSizes
<1>5. ASSUME NEW s \in 0..plan.epochs, NEW x \in Ranks
      PROVE  Batches(x, s) \in Seq(Seq(Indices)) /\ Len(Batches(x, s)) = c
  <2>1. Mine(x, s) \in Seq(Indices)
    BY <1>1, MineIs
  <2>2. AreBatches(Batched(Mine(x, s), plan.drop_last), Mine(x, s), plan.drop_last, Indices)
    BY <1>1, <2>1, BatchedIs
  <2>3. QED
    BY <1>2, <1>3, <2>2 DEF AreBatches
<1>6. c \in Nat \ {0}
  <2> HIDE DEF p
  <2>1. CASE plan.drop_last
    <3>1. c = p \div plan.batch
      BY <2>1
    <3>2. plan.batch \div plan.batch <= p \div plan.batch /\ p \div plan.batch \in Nat
      BY <1>1, <1>4, <2>1, QuotientGrows, Divided
    <3>3. plan.batch \div plan.batch = 1
      <4>1. plan.batch = plan.batch * 1 + 0 /\ 0 \in 0..(plan.batch - 1)
        BY <1>1
      <4>2. QED
        BY <1>1, <4>1, Quotient
    <3>4. QED
      BY <3>1, <3>2, <3>3
  <2>2. CASE ~plan.drop_last
    <3>1. c = Ceil(p, plan.batch) /\ c \in Nat /\ p <= plan.batch * c
      BY <1>1, <1>4, <2>2, CeilIs
    <3>2. c # 0
      BY <1>1, <1>4, <3>1
    <3>3. QED
      BY <3>1, <3>2
  <2>3. QED
    BY <2>1, <2>2
<1>7. EpochSteps = c
  <2>1. 0 \in 0..plan.epochs /\ 0 \in Ranks
    BY <1>1, PlanOptions DEF Ranks
  <2>2. EpochSteps = Len(Batches(0, 0))
    BY <1>1 DEF EpochSteps, Mapped
  <2>3. QED
    BY <1>5, <2>1, <2>2
<1>8. Batches(k, e) = Share(k, e)
  BY <1>1, <1>2 DEF Share, Dropping
<1>9. QED
  BY <1>5, <1>6, <1>7, <1>8

\* A pass over a stream: the rounds that are full.
LEMMA StreamIs ==
  ASSUME plan \in Plans
  PROVE  /\ StreamBatches \in Seq(Seq(Indices)) /\ PassSteps \in Nat
         /\ plan.world * PassSteps <= Len(StreamBatches)
         /\ Len(StreamBatches) < plan.world * PassSteps + plan.world
         /\ Len(StreamBatches) = Ceil(plan.total, plan.batch)
         /\ \A i \in DOMAIN StreamBatches :
              /\ \A j \in Nat \ {0} : j \in DOMAIN StreamBatches[i] <=>
                     j <= plan.batch /\ (i - 1) * plan.batch + j <= plan.total
              /\ \A j \in DOMAIN StreamBatches[i] : StreamBatches[i][j] = (i - 1) * plan.batch + j
<1> DEFINE s == [i \in 1..plan.total |-> i]
           n == Len(StreamBatches)
<1>1. plan.total \in Nat \ {0} /\ plan.world \in Nat \ {0} /\ plan.batch \in Nat \ {0}
  BY PlanOptions
<1>2. s \in Seq(Indices) /\ Len(s) = plan.total /\ DOMAIN s = 1..plan.total /\ \A i \in 1..plan.total : s[i] = i
  BY <1>1 DEF Indices
<1> HIDE DEF s
<1>3. StreamBatches = Batched(s, FALSE)
  BY DEF StreamBatches, s
<1>4. /\ StreamBatches \in Seq(Seq(Indices)) /\ Len(StreamBatches) = Ceil(Len(s), plan.batch)
      /\ \A i \in DOMAIN StreamBatches :
              /\ \A j \in Nat \ {0} : j \in DOMAIN StreamBatches[i] <=>
                     j <= plan.batch /\ (i - 1) * plan.batch + j <= Len(s)
              /\ \A j \in DOMAIN StreamBatches[i] : StreamBatches[i][j] = s[(i - 1) * plan.batch + j]
  <2> DEFINE no == FALSE
             u == Batched(s, no)
  <2>1. no \in BOOLEAN
    OBVIOUS
  <2> HIDE DEF no
  <2>2. /\ u \in Seq(Seq(Indices))
        /\ Len(u) = IF no THEN Len(s) \div plan.batch ELSE Ceil(Len(s), plan.batch)
        /\ \A i \in DOMAIN u :
              /\ \A j \in Nat \ {0} : j \in DOMAIN u[i] <=>
                     j <= plan.batch /\ (i - 1) * plan.batch + j <= Len(s)
              /\ \A j \in DOMAIN u[i] : u[i][j] = s[(i - 1) * plan.batch + j]
    <3>1. s \in Seq(Indices)
      BY <1>2
    <3>2. AreBatches(u, s, no, Indices)
      BY <2>1, <3>1, BatchedIs
    <3> HIDE DEF u
    <3>3. QED
      BY <3>2 DEF AreBatches
  <2>3. StreamBatches = u
    BY <1>3 DEF no
  <2> HIDE DEF u
  <2>4. QED
    BY <2>2, <2>3 DEF no
<1>5. n \in Nat
  BY <1>4
<1>6. PassSteps = n \div plan.world
  BY DEF PassSteps
<1>7. PassSteps \in Nat /\ n = plan.world * PassSteps + (n % plan.world) /\ n % plan.world \in 0..(plan.world - 1)
  BY <1>1, <1>5, <1>6, Divided
<1>8. plan.world * PassSteps <= n /\ n < plan.world * PassSteps + plan.world
  <2> DEFINE m == plan.world * PassSteps
             r == n % plan.world
  <2>1. m \in Nat
    <3>1. plan.world \in Nat /\ PassSteps \in Nat
      BY <1>1, <1>7
    <3>2. QED
      BY <3>1
  <2> HIDE DEF m, r, n
  <2>2. n = m + r /\ r \in 0..(plan.world - 1)
    BY <1>7 DEF m, r
  <2>3. QED
    BY <1>1, <2>1, <2>2 DEF m
<1>9. ASSUME NEW i \in DOMAIN StreamBatches, NEW j \in DOMAIN StreamBatches[i]
      PROVE  StreamBatches[i][j] = (i - 1) * plan.batch + j
  <2> DEFINE x == (i - 1) * plan.batch
  <2>1. j \in Nat \ {0} /\ i \in Nat \ {0}
    <3>1. StreamBatches[i] \in Seq(Indices)
      BY <1>4
    <3>2. QED
      BY <1>4, <3>1
  <2>2. x \in Nat /\ x + j <= plan.total
    <3>1. x + j <= Len(s)
      BY <1>4, <2>1
    <3>2. QED
      BY <1>1, <1>2, <2>1, <3>1
  <2> HIDE DEF x
  <2>3. x + j \in 1..plan.total
    BY <1>1, <2>1, <2>2
  <2>4. QED
    BY <1>2, <1>4, <2>3 DEF x
<1>10. QED
  BY <1>2, <1>4, <1>7, <1>8, <1>9 DEF n

\* The steps of an epoch, or of a pass over a stream.
Pass == IF plan.kind = "stream" THEN PassSteps ELSE EpochSteps

\* The batches of a stream that process k gets, one of each round.
LEMMA StreamShare ==
  ASSUME plan \in Plans, plan.kind = "stream", NEW k \in Ranks, NEW e
  PROVE  /\ Share(k, e) \in Seq(Seq(Indices)) /\ Len(Share(k, e)) = PassSteps
         /\ \A i \in 1..PassSteps : /\ (i - 1) * plan.world + k + 1 \in DOMAIN StreamBatches
                                    /\ Share(k, e)[i] = StreamBatches[(i - 1) * plan.world + k + 1]
<1> DEFINE w == plan.world
           b == StreamBatches
<1>1. w \in Nat \ {0} /\ k \in 0..(w - 1)
  BY PlanOptions DEF Ranks
<1>2. b \in Seq(Seq(Indices)) /\ PassSteps \in Nat /\ w * PassSteps <= Len(b)
  BY StreamIs
<1>3. Share(k, e) = [i \in 1..PassSteps |-> b[(i - 1) * w + k + 1]]
  BY DEF Share
<1> HIDE DEF w, b
<1>4. ASSUME NEW i \in 1..PassSteps PROVE (i - 1) * w + k + 1 \in 1..Len(b)
  <2> DEFINE x == (i - 1) * w
             y == w * PassSteps
  <2>1. i * w <= y /\ i * w = x + w /\ x \in Nat /\ y \in Nat
    BY <1>1, <1>2
  <2> HIDE DEF x, y
  <2>2. y <= Len(b) /\ Len(b) \in Nat
    BY <1>2 DEF y
  <2>3. x + k + 1 \in 1..Len(b)
    BY <1>1, <2>1, <2>2
  <2>4. QED
    BY <2>3 DEF x
<1>5. DOMAIN b = 1..Len(b)
  BY <1>2
<1>6. Share(k, e) \in Seq(Seq(Indices)) /\ Len(Share(k, e)) = PassSteps
  BY <1>2, <1>3, <1>4
<1>7. \A i \in 1..PassSteps : Share(k, e)[i] = b[(i - 1) * w + k + 1]
  BY <1>3
<1>8. QED
  BY <1>4, <1>5, <1>6, <1>7 DEF w, b

\* Sequences with the same elements in the same places.
LEMMA SameSequence ==
  ASSUME NEW T, NEW s \in Seq(T), NEW t \in Seq(T),
         \A i \in Nat \ {0} : i \in DOMAIN s <=> i \in DOMAIN t,
         \A i \in DOMAIN s : s[i] = t[i]
  PROVE  s = t
<1>1. Len(s) \in Nat /\ Len(t) \in Nat /\ DOMAIN s = 1..Len(s) /\ DOMAIN t = 1..Len(t)
  OBVIOUS
<1>2. Len(s) = Len(t)
  <2> DEFINE m == Len(s)
             n == Len(t)
  <2>1. m \in Nat /\ n \in Nat /\ \A i \in Nat \ {0} : i \in 1..m <=> i \in 1..n
    BY <1>1
  <2> HIDE DEF m, n
  <2>2. m <= n
    BY <2>1
  <2>3. n <= m
    BY <2>1
  <2>4. QED
    BY <2>1, <2>2, <2>3 DEF m, n
<1>3. QED
  BY <1>1, <1>2

\* Taking every world-th element after whole rounds, or before.
LEMMA StridedFrom ==
  ASSUME plan \in Plans, NEW T, NEW s \in Seq(T), NEW k \in Ranks,
         NEW c \in Nat, c * plan.world <= Len(s)
  PROVE  /\ c <= Len(Strided(s, k))
         /\ Strided(From(s, c * plan.world), k) = From(Strided(s, k), c)
<1> DEFINE w == plan.world
           x == c * w
           a == Strided(s, k)
           f == From(s, x)
           l == Strided(f, k)
           r == From(a, c)
<1>1. w \in Nat \ {0} /\ k \in 0..(w - 1) /\ Len(s) \in Nat
  BY PlanOptions DEF Ranks
<1>2. x \in Nat /\ x <= Len(s)
  BY <1>1
<1>3. f \in Seq(T) /\ Len(f) = Len(s) - x /\ \A i \in 1..(Len(s) - x) : f[i] = s[x + i]
  <2>1. x \in 0..Len(s)
    BY <1>1, <1>2
  <2> HIDE DEF x
  <2>2. QED
    BY <2>1, FromIs
<1>4. /\ a \in Seq(T) /\ \A i \in Nat \ {0} : i \in DOMAIN a <=> (i - 1) * w + k + 1 <= Len(s)
      /\ \A i \in DOMAIN a : a[i] = s[(i - 1) * w + k + 1]
  BY StridedIs
<1>5. /\ l \in Seq(T) /\ \A i \in Nat \ {0} : i \in DOMAIN l <=> (i - 1) * w + k + 1 <= Len(f)
      /\ \A i \in DOMAIN l : l[i] = f[(i - 1) * w + k + 1]
  <2> HIDE DEF f
  <2>1. QED
    BY <1>3, StridedIs
<1>6. c <= Len(a)
  <2>1. CASE c = 0
    BY <1>4, <2>1
  <2>2. CASE c # 0
    <3> DEFINE y == (c - 1) * w
    <3>1. y \in Nat /\ x = y + w
      BY <1>1, <2>2
    <3> HIDE DEF x, y
    <3>2. y + k + 1 <= Len(s)
      BY <1>1, <1>2, <3>1
    <3>3. c \in DOMAIN a
      BY <1>4, <2>2, <3>2 DEF y
    <3>4. QED
      BY <1>4, <3>3
  <2>3. QED
    BY <2>1, <2>2
<1>7. r \in Seq(T) /\ Len(r) = Len(a) - c /\ \A i \in 1..(Len(a) - c) : r[i] = a[c + i]
  <2> HIDE DEF a
  <2>1. c \in 0..Len(a)
    BY <1>4, <1>6
  <2>2. QED
    BY <1>4, <2>1, FromIs
<1> HIDE DEF a, f, l, r
<1>8. ASSUME NEW i \in Nat \ {0}
      PROVE  /\ i \in DOMAIN l <=> i \in DOMAIN r
             /\ i \in DOMAIN l => l[i] = r[i]
  <2> DEFINE y == (i - 1) * w
             z == (c + i - 1) * w
  <2>1. y \in Nat /\ z \in Nat /\ z = x + y
    BY <1>1
  <2>2. i \in DOMAIN l <=> y + k + 1 <= Len(f)
    BY <1>5
  <2>3. c + i \in Nat \ {0}
    OBVIOUS
  <2>4. c + i \in DOMAIN a <=> z + k + 1 <= Len(s)
    BY <1>4, <2>3
  <2>5. i \in DOMAIN r <=> c + i \in DOMAIN a
    <3>1. DOMAIN r = 1..Len(r) /\ DOMAIN a = 1..Len(a) /\ Len(a) \in Nat
      BY <1>4, <1>7
    <3>2. QED
      BY <1>6, <1>7, <3>1
  <2>6. i \in DOMAIN l => l[i] = f[y + k + 1]
    BY <1>5
  <2>7. c + i \in DOMAIN a => a[c + i] = s[z + k + 1]
    BY <1>4
  <2> HIDE DEF x, y, z
  <2>8. i \in DOMAIN l <=> i \in DOMAIN r
    BY <1>1, <1>2, <1>3, <2>1, <2>2, <2>4, <2>5
  <2>9. ASSUME i \in DOMAIN l PROVE l[i] = r[i]
    <3>1. y + k + 1 \in 1..(Len(s) - x)
      BY <1>1, <1>2, <1>3, <2>1, <2>2, <2>9
    <3>2. f[y + k + 1] = s[x + (y + k + 1)] /\ x + (y + k + 1) = z + k + 1
      BY <1>1, <1>2, <1>3, <2>1, <3>1
    <3>3. i \in 1..(Len(a) - c)
      BY <1>7, <2>8, <2>9
    <3>4. QED
      BY <1>7, <2>5, <2>6, <2>7, <2>8, <2>9, <3>2, <3>3
  <2>10. QED
    BY <2>8, <2>9
<1>9. DOMAIN l \subseteq Nat \ {0}
  BY <1>5
<1>10. l = r
  <2>1. (\A i \in Nat \ {0} : i \in DOMAIN l <=> i \in DOMAIN r) /\ \A i \in DOMAIN l : l[i] = r[i]
    BY <1>8, <1>9
  <2>2. l \in Seq(T) /\ r \in Seq(T)
    BY <1>5, <1>7
  <2>3. QED
    BY <2>1, <2>2, SameSequence
<1>11. QED
  BY <1>6, <1>10 DEF l, r, f, a, x, w

\* Batches of one length.
LEMMA WholeBatches ==
  ASSUME plan \in Plans, NEW T, NEW s \in Seq(T)
  PROVE  /\ Batched(s, TRUE) \in Seq(Seq(T)) /\ Len(Batched(s, TRUE)) = Len(s) \div plan.batch
         /\ \A i \in DOMAIN Batched(s, TRUE) :
              /\ \A j \in Nat \ {0} : j \in DOMAIN Batched(s, TRUE)[i] <=>
                     j <= plan.batch /\ (i - 1) * plan.batch + j <= Len(s)
              /\ \A j \in DOMAIN Batched(s, TRUE)[i] :
                     Batched(s, TRUE)[i][j] = s[(i - 1) * plan.batch + j]
<1> DEFINE yes == TRUE
           a == Batched(s, yes)
<1>1. yes \in BOOLEAN
  OBVIOUS
<1> HIDE DEF yes
<1>2. /\ a \in Seq(Seq(T)) /\ Len(a) = IF yes THEN Len(s) \div plan.batch ELSE Ceil(Len(s), plan.batch)
      /\ \A i \in DOMAIN a :
           /\ \A j \in Nat \ {0} : j \in DOMAIN a[i] <=> j <= plan.batch /\ (i - 1) * plan.batch + j <= Len(s)
           /\ \A j \in DOMAIN a[i] : a[i][j] = s[(i - 1) * plan.batch + j]
  <2>1. AreBatches(a, s, yes, T)
    BY <1>1, BatchedIs
  <2> HIDE DEF a
  <2>2. QED
    BY <2>1 DEF AreBatches
<1>3. Batched(s, TRUE) = a
  BY DEF yes
<1> HIDE DEF a
<1>4. QED
  BY <1>2, <1>3 DEF yes

\* Whole batches after whole batches.
LEMMA BatchedFrom ==
  ASSUME plan \in Plans, NEW T, NEW s \in Seq(T), NEW c \in Nat, c * plan.batch <= Len(s)
  PROVE  /\ c <= Len(Batched(s, TRUE))
         /\ Batched(From(s, c * plan.batch), TRUE) = From(Batched(s, TRUE), c)
<1> DEFINE b == plan.batch
           x == c * b
           a == Batched(s, TRUE)
           f == From(s, x)
           l == Batched(f, TRUE)
           r == From(a, c)
           q == Len(s) \div b
           m == Len(s) % b
<1>1. b \in Nat \ {0} /\ Len(s) \in Nat
  BY PlanOptions
<1>2. x \in Nat /\ x <= Len(s)
  BY <1>1
<1>3. f \in Seq(T) /\ Len(f) = Len(s) - x /\ \A i \in 1..(Len(s) - x) : f[i] = s[x + i]
  <2>1. x \in 0..Len(s)
    BY <1>1, <1>2
  <2> HIDE DEF x
  <2>2. QED
    BY <2>1, FromIs
<1>4. /\ a \in Seq(Seq(T)) /\ Len(a) = q
      /\ \A i \in DOMAIN a :
           /\ \A j \in Nat \ {0} : j \in DOMAIN a[i] <=> j <= b /\ (i - 1) * b + j <= Len(s)
           /\ \A j \in DOMAIN a[i] : a[i][j] = s[(i - 1) * b + j]
  BY WholeBatches
<1> HIDE DEF f
<1>5. /\ l \in Seq(Seq(T)) /\ Len(l) = Len(f) \div b
      /\ \A i \in DOMAIN l :
           /\ \A j \in Nat \ {0} : j \in DOMAIN l[i] <=> j <= b /\ (i - 1) * b + j <= Len(f)
           /\ \A j \in DOMAIN l[i] : l[i][j] = f[(i - 1) * b + j]
  BY <1>3, WholeBatches
<1>6. q \in Nat /\ m \in 0..(b - 1) /\ Len(s) = b * q + m
  BY <1>1, Divided
<1>d. q = Len(s) \div b
  OBVIOUS
<1> HIDE DEF q, m
<1>7. c <= q
  <2>1. SUFFICES ASSUME q + 1 <= c PROVE FALSE
    BY <1>6
  <2>2. b * (q + 1) <= x /\ b * (q + 1) = b * q + b
    <3>1. q + 1 \in Nat /\ b \in Nat
      BY <1>1, <1>6
    <3>2. (q + 1) * b <= c * b
      BY <2>1, <3>1, ProductGrows
    <3>3. (q + 1) * b = b * (q + 1) /\ b * (q + 1) = b * q + b
      BY <1>1, <1>6
    <3>4. QED
      BY <3>2, <3>3
  <2>3. b * q \in Nat
    BY <1>1, <1>6
  <2> HIDE DEF x
  <2>4. QED
    BY <1>1, <1>2, <1>6, <2>2, <2>3
<1>8. Len(f) \div b = q - c
  <2> DEFINE d == q - c
             y == Len(f)
  <2>1. d \in Nat
    BY <1>6, <1>7
  <2>2. b * q = b * d + x
    BY <1>1, <1>6
  <2>3. b * d \in Nat /\ b * q \in Nat
    BY <1>1, <1>6, <2>1
  <2> HIDE DEF x, y
  <2>4. y = b * d + m
    BY <1>2, <1>3, <1>6, <2>2, <2>3 DEF y
  <2> HIDE DEF d
  <2>5. y \div b = d
    BY <1>1, <1>6, <2>1, <2>4, Quotient
  <2>6. QED
    BY <2>5 DEF d, y
<1>9. r \in Seq(Seq(T)) /\ Len(r) = Len(a) - c /\ \A i \in 1..(Len(a) - c) : r[i] = a[c + i]
  <2> HIDE DEF a
  <2>1. c \in 0..Len(a)
    BY <1>4, <1>6, <1>7
  <2>2. QED
    BY <1>4, <2>1, FromIs
<1> HIDE DEF a, l, r
<1>10. DOMAIN l = 1..(q - c) /\ DOMAIN r = 1..(q - c) /\ DOMAIN a = 1..q
  BY <1>4, <1>5, <1>6, <1>7, <1>8, <1>9
<1>11. ASSUME NEW i \in 1..(q - c) PROVE l[i] = r[i]
  <2> DEFINE u == l[i]
             v == a[c + i]
             y == (i - 1) * b
             z == (c + i - 1) * b
  <2>1. c + i \in DOMAIN a /\ i \in DOMAIN l /\ r[i] = v
    BY <1>4, <1>6, <1>7, <1>9, <1>10
  <2>2. y \in Nat /\ z \in Nat /\ z = x + y
    <3>1. i - 1 \in Nat /\ b \in Nat /\ c + i - 1 = c + (i - 1)
      BY <1>1, <1>6, <1>7
    <3>2. \A d \in Nat : d * b \in Nat /\ (c + d) * b = c * b + d * b /\ (c + d) * b \in Nat
      BY <3>1
    <3>3. QED
      BY <3>1, <3>2
  <2>3. u \in Seq(T) /\ v \in Seq(T)
    BY <1>4, <1>5, <2>1
  <2>4. /\ \A j \in Nat \ {0} : j \in DOMAIN u <=> j <= b /\ y + j <= Len(f)
        /\ \A j \in DOMAIN u : u[j] = f[y + j]
    BY <1>5, <2>1
  <2>5. /\ \A j \in Nat \ {0} : j \in DOMAIN v <=> j <= b /\ z + j <= Len(s)
        /\ \A j \in DOMAIN v : v[j] = s[z + j]
    BY <1>4, <2>1
  <2> HIDE DEF u, v, x, y, z
  <2>6. \A j \in Nat \ {0} : j \in DOMAIN u <=> j \in DOMAIN v
    BY <1>1, <1>2, <1>3, <2>2, <2>4, <2>5
  <2>7. ASSUME NEW j \in DOMAIN u PROVE u[j] = v[j]
    <3>1. j \in Nat \ {0}
      BY <2>3
    <3>2. y + j \in 1..(Len(s) - x)
      BY <1>1, <1>2, <1>3, <2>2, <2>4, <3>1
    <3>3. f[y + j] = s[x + (y + j)] /\ x + (y + j) = z + j
      <4>1. f[y + j] = s[x + (y + j)]
        BY <1>3, <3>2
      <4>2. QED
        BY <1>2, <2>2, <3>1, <4>1
    <3>4. QED
      BY <2>4, <2>5, <2>6, <3>1, <3>3
  <2>8. u = v
    BY <2>3, <2>6, <2>7, SameSequence
  <2>9. QED
    BY <2>1, <2>8 DEF u, v
<1>12. l = r
  <2>1. (\A i \in Nat \ {0} : i \in DOMAIN l <=> i \in DOMAIN r) /\ \A i \in DOMAIN l : l[i] = r[i]
    BY <1>10, <1>11
  <2>2. QED
    BY <1>5, <1>9, <2>1, SameSequence
<1>13. c <= Len(a)
  BY <1>4, <1>7
<1>14. QED
  BY <1>12, <1>13 DEF l, r, a, f, x, b

\* A process has the batches of an epoch: Megatron's processes too, if its last round
\* gives none of them a batch of its own.
LEMMA MegatronShare ==
  ASSUME plan \in Plans, plan.kind = "megatron", NEW e \in 0..plan.epochs, NEW k \in Ranks
  PROVE  /\ Mine(k, e) \in Seq(Indices) /\ Bucket <= Len(Mine(k, e))
         /\ Share(k, e) = Batched(Mine(k, e), TRUE) /\ Share(k, e) \in Seq(Seq(Indices))
         /\ ~Uneven => Len(Share(k, e)) = EpochSteps
<1> DEFINE m == Mine(k, e)
           w == plan.world
           b == plan.batch
           n == EpochSteps
           u == b * n
<1>1. /\ w \in Nat \ {0} /\ b \in Nat \ {0} /\ n \in Nat \ {0} /\ u \in Nat /\ Bucket = u /\ k \in 0..(w - 1)
      /\ Active = w * u /\ Active <= Full /\ Full \in Nat
  BY MegatronSizes, PlanOptions DEF Ranks
<1>2. m \in Seq(Indices)
  BY MineIs
<1>3. Share(k, e) = Batched(m, TRUE)
  BY DEF Share, Dropping
<1> HIDE DEF n, u, w, b
<1>4. u <= Len(m) /\ (~Uneven => Len(m) < u + b)
  <2>1. CASE Sharded
    <3>1. m = [i \in 1..u |-> k * u + Permutation(e, u)[i]]
      BY <1>1, <2>1 DEF Mine
    <3>2. Len(m) = u
      BY <1>1, <3>1
    <3>3. QED
      BY <1>1, <3>2
  <2>2. CASE ~Sharded
    <3> DEFINE s == Order(e)
               d == Full - Active
               c == Ceil(d, w)
    <3>1. m = Strided(s, k)
      BY <2>2 DEF Mine
    <3>2. s \in Seq(Indices) /\ Len(s) = Full
      BY OrderIs
    <3> HIDE DEF s
    <3>3. \A i \in Nat \ {0} : i \in DOMAIN m <=> (i - 1) * w + k + 1 <= Full
      BY <3>1, <3>2, StridedIs DEF w
    <3>4. u <= Len(m)
      <4>1. u * plan.world <= Len(s)
        <5>1. u * plan.world = w * u
          BY <1>1 DEF w
        <5>2. QED
          BY <1>1, <3>2, <5>1
      <4>2. QED
        BY <1>1, <3>1, <3>2, <4>1, StridedFrom
    <3>5. d \in Nat /\ Full = w * u + d
      <4>1. w * u \in Nat
        BY <1>1
      <4>2. QED
        BY <1>1, <4>1
    <3> HIDE DEF d
    <3>6. c \in Nat /\ d <= w * c
      BY <1>1, <3>5, CeilIs
    <3>7. ~Uneven => c < b
      <4>1. ~(plan.shuffle /\ plan.sharding)
        BY <2>2 DEF Sharded
      <4>2. Ceil((plan.total \div plan.batch) * plan.batch - Active, plan.world) = c
        BY DEF c, d, w, Full
      <4> HIDE DEF c
      <4>3. ~Uneven => ~(c >= b)
        BY <4>1, <4>2 DEF Uneven, b
      <4>4. QED
        BY <1>1, <3>6, <4>3
    <3> HIDE DEF c
    <3>8. ASSUME ~Uneven PROVE Len(m) < u + b
      <4>1. SUFFICES ASSUME u + b <= Len(m) PROVE FALSE
        BY <1>1, <1>2
      <4>2. u + b \in Nat \ {0} /\ u + b \in DOMAIN m
        BY <1>1, <1>2, <4>1
      <4> DEFINE x == (u + b - 1) * w
                 y == w * u
                 z == w * c
      <4>3. x + k + 1 <= Full
        <5> DEFINE j == u + b - 1
        <5>1. j \in Nat /\ u + b = j + 1
          BY <1>1
        <5>2. ASSUME NEW a \in Nat, a + 1 \in DOMAIN m PROVE a * w + k + 1 <= Full
          <6>1. (a + 1) - 1 = a /\ a + 1 \in Nat \ {0}
            OBVIOUS
          <6>2. ((a + 1) - 1) * w + k + 1 <= Full
            BY <3>3, <5>2, <6>1
          <6>3. QED
            BY <6>1, <6>2
        <5> HIDE DEF j
        <5>3. j * w + k + 1 <= Full
          BY <4>2, <5>1, <5>2
        <5>4. QED
          BY <5>3 DEF j
      <4>4. u + c <= u + b - 1 /\ u + c \in Nat /\ u + b - 1 \in Nat
        BY <1>1, <3>6, <3>7, <3>8
      <4>5. (u + c) * w <= x /\ x \in Nat
        BY <1>1, <4>4, ProductGrows
      <4>6. (u + c) * w = y + z /\ y \in Nat /\ z \in Nat
        BY <1>1, <3>6
      <4>7. Full = y + d /\ d <= z /\ d \in Nat
        BY <3>5, <3>6
      <4> HIDE DEF x, y, z
      <4>8. QED
        BY <1>1, <4>3, <4>5, <4>6, <4>7
    <3>9. QED
      BY <3>4, <3>8
  <2>3. QED
    BY <2>1, <2>2
<1>5. Batched(m, TRUE) \in Seq(Seq(Indices)) /\ Len(Batched(m, TRUE)) = Len(m) \div b
  <2> HIDE DEF m
  <2>1. QED
    BY <1>2, WholeBatches DEF b
<1>6. ~Uneven => Len(m) \div b = n
  <2> DEFINE r == Len(m) - u
             x == Len(m)
  <2>1. x \in Nat
    BY <1>2
  <2> HIDE DEF x
  <2>2. ~Uneven => x - u \in 0..(b - 1) /\ x = b * n + (x - u)
    BY <1>1, <1>4, <2>1 DEF x, u
  <2> DEFINE l == x - u
  <2> HIDE DEF l
  <2>3. ~Uneven => l \in 0..(b - 1) /\ x = b * n + l
    BY <2>2 DEF l
  <2>4. ~Uneven => x \div b = n
    BY <1>1, <2>3, Quotient
  <2>5. QED
    BY <2>4 DEF x
<1>7. QED
  BY <1>1, <1>2, <1>3, <1>4, <1>5, <1>6 DEF n

\* A Megatron sampler that is given the samples consumed goes on in the middle of its share.
LEMMA MegatronIs ==
  ASSUME plan \in Plans, plan.kind = "megatron", NEW k \in Ranks,
         NEW n \in Nat, n < plan.epochs * EpochSteps
  PROVE  /\ MegatronBatches(k, n * Global) = From(Share(k, n \div EpochSteps), n % EpochSteps)
         /\ n \div EpochSteps \in 0..plan.epochs
         /\ n % EpochSteps <= Len(Share(k, n \div EpochSteps))
<1> DEFINE w == plan.world
           b == plan.batch
           N == EpochSteps
           G == Global
           A == Active
           q == n \div N
           r == n % N
           c == r * G
           x == n * G
           p == plan.epochs
<1>1. /\ w \in Nat \ {0} /\ b \in Nat \ {0} /\ N \in Nat \ {0} /\ G \in Nat \ {0} /\ G = w * b /\ A = G * N
      /\ A \in Nat \ {0} /\ Bucket \in Nat /\ Bucket = b * N /\ p \in Nat /\ A <= Full /\ Full \in Nat
      /\ Full \in 1..plan.total /\ k \in 0..(w - 1)
  BY MegatronSizes, PlanOptions DEF Ranks
<1>2. q \in Nat /\ r \in 0..(N - 1) /\ n = N * q + r
  BY <1>1, Divided
<1>w. plan.world = w /\ plan.batch = b /\ EpochSteps = N /\ plan.epochs = p /\ Global = G /\ Active = A
  OBVIOUS
<1>q. n \div N = q /\ n % N = r
  OBVIOUS
<1> HIDE DEF w, b, N, G, A, q, r, p
<1>3. q < p
  <2>1. SUFFICES ASSUME p <= q PROVE FALSE
    BY <1>1, <1>2
  <2>2. p * N <= q * N /\ q * N = N * q /\ p * N \in Nat /\ N * q \in Nat
    BY <1>1, <1>2, <2>1, ProductGrows
  <2>3. n < p * N
    BY <1>w
  <2>4. QED
    BY <1>1, <1>2, <2>2, <2>3
<1>4. r + 1 <= N /\ (r + 1) * G <= N * G /\ (r + 1) * G = c + G /\ c \in Nat /\ N * G = A
  <2>1. r + 1 \in Nat /\ r + 1 <= N
    BY <1>1, <1>2
  <2>2. (r + 1) * G <= N * G
    BY <1>1, <2>1, ProductGrows
  <2>3. QED
    BY <1>1, <1>2, <2>1, <2>2
<1>5. x = A * q + c
  <2>1. (N * q + r) * G = (G * N) * q + r * G
    BY <1>1, <1>2
  <2>2. QED
    BY <1>1, <1>2, <2>1
<1> HIDE DEF x, c
<1>6. c \in 0..(A - 1) /\ c + G <= A
  BY <1>1, <1>4
<1>7. x \div A = q /\ x % A = c
  <2>1. A \in Nat \ {0} /\ q \in Nat /\ c \in 0..(A - 1) /\ x = A * q + c
    BY <1>1, <1>2, <1>5, <1>6
  <2>2. QED
    BY <2>1, Quotient
<1>8. c = (r * b) * w /\ r * b \in Nat /\ c = w * (r * b) + 0
  BY <1>1, <1>2 DEF c
<1>9. c \div w = r * b
  <2> DEFINE y == r * b
  <2> HIDE DEF y
  <2>1. c = w * y + 0 /\ y \in Nat /\ 0 \in 0..(w - 1)
    BY <1>1, <1>8 DEF y
  <2>2. c \div w = y
    BY <1>1, <2>1, Quotient
  <2>3. QED
    BY <2>2 DEF y
<1>10. q \in 0..p
  BY <1>1, <1>2, <1>3
<1>11. /\ Mine(k, q) \in Seq(Indices) /\ Bucket <= Len(Mine(k, q))
       /\ Share(k, q) = Batched(Mine(k, q), TRUE)
  BY <1>10, <1>w, MegatronShare
<1>12. r * b <= Bucket
  <2>1. r \in Nat /\ r <= N
    BY <1>1, <1>2
  <2>2. r * b <= N * b /\ N * b = b * N
    BY <1>1, <2>1, ProductGrows
  <2>3. QED
    BY <1>1, <2>2
<1> DEFINE mine == IF plan.shuffle /\ plan.sharding
                   THEN [i \in 1..(Bucket - c \div w) |-> k * Bucket + Permutation(q, Bucket)[i + c \div w]]
                   ELSE Strided(From(Seeded(q, Full), c), k)
<1>13. MegatronBatches(k, x) = Batched(mine, TRUE)
  BY <1>7, <1>w DEF MegatronBatches, Bucket, Full
<1>14. mine = From(Mine(k, q), r * b)
  <2> DEFINE y == r * b
             B == Bucket
             m == Mine(k, q)
  <2> HIDE DEF y
  <2>1. y \in Nat /\ y <= B /\ c \div w = y /\ B \in Nat /\ c = y * w
    BY <1>1, <1>8, <1>9, <1>12 DEF y
  <2>2. CASE Sharded
    <3> HIDE DEF B
    <3>1. m = [i \in 1..B |-> k * B + Permutation(q, B)[i]]
      BY <2>2 DEF Mine, B
    <3>2. mine = [i \in 1..(B - y) |-> k * B + Permutation(q, B)[i + y]]
      BY <2>1, <2>2 DEF Sharded, B
    <3>3. m \in Seq(Indices) /\ Len(m) = B
      BY <1>11, <2>1, <3>1
    <3> HIDE DEF m
    <3> DEFINE f == From(m, y)
    <3>4. f \in Seq(Indices) /\ Len(f) = B - y /\ \A i \in 1..(B - y) : f[i] = m[y + i]
      <4>1. y \in 0..Len(m)
        BY <2>1, <3>3
      <4>2. QED
        BY <3>3, <4>1, FromIs
    <3>5. \A i \in 1..(B - y) : y + i = i + y /\ i + y \in 1..B
      BY <2>1
    <3> HIDE DEF mine, f
    <3>6. \A i \in 1..(B - y) : mine[i] = m[y + i]
      BY <3>1, <3>2, <3>5
    <3>7. DOMAIN mine = 1..(B - y) /\ mine = [i \in 1..(B - y) |-> f[i]]
      BY <3>2, <3>4, <3>6
    <3>8. mine = f
      BY <2>1, <3>4, <3>7
    <3>9. QED
      BY <3>8 DEF m, y, f
  <2>3. CASE ~Sharded
    <3> DEFINE s == Seeded(q, Full)
    <3>1. m = Strided(s, k)
      BY <2>3 DEF Mine, Order
    <3>2. s \in Seq(Indices) /\ Len(s) = Full
      BY <1>1, <1>10, <1>w, SeededIs
    <3>3. mine = Strided(From(s, y * plan.world), k)
      BY <1>w, <2>1, <2>3 DEF Sharded
    <3> HIDE DEF s, m, mine
    <3>4. y * plan.world <= Len(s)
      BY <1>1, <1>6, <1>w, <2>1, <3>2
    <3>5. Strided(From(s, y * plan.world), k) = From(Strided(s, k), y)
      BY <2>1, <3>2, <3>4, StridedFrom
    <3>6. QED
      BY <3>1, <3>3, <3>5 DEF y, m
  <2>4. QED
    BY <2>2, <2>3
<1> HIDE DEF mine
<1>15. /\ r <= Len(Batched(Mine(k, q), TRUE))
       /\ Batched(From(Mine(k, q), r * b), TRUE) = From(Batched(Mine(k, q), TRUE), r)
  <2> DEFINE m == Mine(k, q)
  <2>1. m \in Seq(Indices) /\ r * b <= Len(m) /\ r \in Nat
    BY <1>1, <1>2, <1>8, <1>11, <1>12
  <2> HIDE DEF m
  <2>2. r <= Len(Batched(m, TRUE)) /\ Batched(From(m, r * b), TRUE) = From(Batched(m, TRUE), r)
    BY <1>w, <2>1, BatchedFrom
  <2>3. QED
    BY <2>2 DEF m
<1>16. n * Global = x
  BY <1>w DEF x
<1>17. QED
  BY <1>10, <1>11, <1>13, <1>14, <1>15, <1>16, <1>q, <1>w

-----------------------------------------------------------------------------
(* The job is fixed: what depends on it alone is the same after a step.    *)

\* The samplers.
LEMMA SamplersStay ==
  ASSUME plan' = plan
  PROVE  /\ Ranks' = Ranks /\ Indices' = Indices /\ Mapped' = Mapped /\ Global' = Global /\ Active' = Active
         /\ \A seed, n : Seeded(seed, n)' = Seeded(seed, n)
         /\ \A s, k : Strided(s, k)' = Strided(s, k)
         /\ \A s, d : Batched(s, d)' = Batched(s, d)
<1>1. /\ Ranks' = Ranks /\ Indices' = Indices /\ Mapped' = Mapped /\ Global' = Global /\ Active' = Active
  BY DEF Ranks, Indices, Mapped, Global, Active
<1>2. \A seed, n : Seeded(seed, n)' = Seeded(seed, n)
  BY DEF Seeded
<1>3. \A s, k : Strided(s, k)' = Strided(s, k)
  BY DEF Strided
<1>4. \A s, d : Batched(s, d)' = Batched(s, d)
  BY DEF Batched
<1>5. QED
  BY <1>1, <1>2, <1>3, <1>4

\* The schedule.
LEMMA ScheduleStays ==
  ASSUME plan' = plan
  PROVE  /\ StreamBatches' = StreamBatches /\ PassSteps' = PassSteps /\ EpochSteps' = EpochSteps
         /\ MaxSteps' = MaxSteps /\ Pass' = Pass /\ Uneven' = Uneven
<1> USE SamplersStay
<1>1. StreamBatches' = StreamBatches
  BY DEF StreamBatches
<1>2. PassSteps' = PassSteps
  BY <1>1 DEF PassSteps
<1>3. \A k, seed : ShardBatches(k, seed)' = ShardBatches(k, seed)
  BY DEF ShardBatches
<1>4. \A k, seed : SequenceBatches(k, seed)' = SequenceBatches(k, seed)
  BY DEF SequenceBatches, RoundedUp
<1>5. \A k, seed : Batches(k, seed)' = Batches(k, seed)
  BY <1>3, <1>4 DEF Batches
<1>6. EpochSteps' = EpochSteps
  BY <1>5 DEF EpochSteps
<1>7. MaxSteps' = MaxSteps /\ Pass' = Pass
  BY <1>2, <1>6 DEF MaxSteps, Pass
<1>8. Uneven' = Uneven
  BY DEF Uneven
<1>9. QED
  BY <1>1, <1>2, <1>6, <1>7, <1>8

\* The shares.
LEMMA SharesStay ==
  ASSUME plan' = plan
  PROVE  \A k, e : Share(k, e)' = Share(k, e)
<1> USE SamplersStay, ScheduleStays
<1>1. \A e : Filled(e)' = Filled(e)
  BY DEF Filled, RoundedUp
<1>2. \A e : Order(e)' = Order(e)
  BY <1>1 DEF Order, ShardTotal, Full
<1>3. \A k, e : Mine(k, e)' = Mine(k, e)
  BY <1>2 DEF Mine, Sharded, Bucket
<1>4. Dropping' = Dropping
  BY DEF Dropping
<1>5. QED
  BY <1>3, <1>4 DEF Share

-----------------------------------------------------------------------------
(* The types.                                                              *)

States == {"open", "draw", "hold", "stopped", "error"}
Processes == [pc : States, todo : Seq(Seq(Indices)), batch : Seq(Indices), drawn : Nat,
              epoch : Nat, skip : Nat, consumed : Nat]
Steps == [epoch : Nat, batch : Seq(Indices)]

\* The batches a process has drawn.
Drawn(k) == global_step + (IF rank[k].pc = "hold" THEN 1 ELSE 0)

RunTyped ==
  /\ plan \in Plans /\ rank \in [Ranks -> Processes] /\ base \in Seq(Seq(Indices))
  /\ global_step \in Nat /\ global_step <= MaxSteps
  /\ saved \in Nat /\ saved <= global_step
  /\ trained \in Seq([Ranks -> Steps]) /\ Len(trained) = global_step
  /\ crashes \in 0..MaxCrashes /\ resumed \subseteq Nat

\* A process that goes on has steps to take, skips less than an epoch, and before its
\* first batch only; Megatron's has consumed what all have drawn.
Going(k) ==
  /\ rank[k].pc # "stopped" => global_step < MaxSteps
  /\ rank[k].skip < EpochSteps
  /\ rank[k].pc \in {"draw", "hold"} => rank[k].skip = 0
  /\ plan.kind = "megatron" => rank[k].consumed = Drawn(k) * Global

RunInv == RunTyped /\ \A k \in Ranks : Going(k)

\* A job has steps to take.
LEMMA StepsToTake ==
  ASSUME plan \in Plans
  PROVE  /\ EpochSteps \in Nat \ {0} /\ MaxSteps \in Nat \ {0} /\ Global \in Nat \ {0}
         /\ 0 \in Ranks
         /\ plan.kind = "stream" => EpochSteps = MaxSteps
         /\ plan.kind # "stream" => MaxSteps = plan.epochs * EpochSteps
<1>1. /\ plan.kind \in {"shard", "sequence", "stream", "megatron"}
      /\ plan.world \in Nat \ {0} /\ plan.batch \in Nat \ {0}
      /\ plan.epochs \in Nat \ {0} /\ plan.steps \in Nat \ {0}
  BY PlanOptions
<1>2. 0 \in Ranks /\ 0 \in 0..plan.epochs
  BY <1>1 DEF Ranks
<1>3. EpochSteps \in Nat \ {0} /\ (plan.kind = "stream" => EpochSteps = plan.steps)
  <2>1. CASE Mapped
    BY <1>2, <2>1, BatchesAre DEF Mapped
  <2>2. CASE plan.kind = "megatron"
    BY <2>2, MegatronSizes
  <2>3. CASE plan.kind = "stream"
    BY <1>1, <2>3 DEF EpochSteps, Mapped
  <2>4. QED
    BY <1>1, <2>1, <2>2, <2>3 DEF Mapped
<1>4. Global \in Nat \ {0}
  BY <1>1 DEF Global
<1>5. plan.kind # "stream" => MaxSteps = plan.epochs * EpochSteps
  BY DEF MaxSteps
<1>6. plan.epochs * EpochSteps \in Nat \ {0}
  <2> DEFINE n == EpochSteps
  <2> HIDE DEF n
  <2>1. n \in Nat \ {0}
    BY <1>3 DEF n
  <2>2. QED
    BY <1>1, <2>1 DEF n
<1>7. QED
  BY <1>1, <1>2, <1>3, <1>4, <1>5, <1>6 DEF MaxSteps

\* A process that starts.
LEMMA StartsTyped ==
  ASSUME plan \in Plans, NEW n \in Nat, n < MaxSteps
  PROVE  /\ StartedAt(n) \in Processes /\ StartedAt(n).pc = "open" /\ StartedAt(n).skip < EpochSteps
         /\ plan.kind = "megatron" => StartedAt(n).consumed = n * Global
         /\ plan.kind # "megatron" =>
              StartedAt(n).epoch = n \div EpochSteps /\ StartedAt(n).skip = n % EpochSteps
         /\ n \div EpochSteps \in Nat /\ n % EpochSteps \in 0..(EpochSteps - 1)
         /\ n = EpochSteps * (n \div EpochSteps) + (n % EpochSteps)
<1> DEFINE q == n \div EpochSteps
           r == n % EpochSteps
           x == n * Global
<1>1. EpochSteps \in Nat \ {0} /\ Global \in Nat \ {0}
  BY StepsToTake
<1>2. q \in Nat /\ r \in 0..(EpochSteps - 1) /\ n = EpochSteps * q + r
  BY <1>1, Divided
<1>3. x \in Nat
  BY <1>1
<1>4. StartedAt(n) = [pc |-> "open", todo |-> <<>>, batch |-> <<>>, drawn |-> 0,
                      epoch |-> IF plan.kind = "megatron" THEN 0 ELSE q,
                      skip |-> IF plan.kind = "megatron" THEN 0 ELSE r,
                      consumed |-> x]
  BY DEF StartedAt
<1>5. <<>> \in Seq(Seq(Indices)) /\ <<>> \in Seq(Indices)
  OBVIOUS
<1> HIDE DEF q, r, x
<1>6. StartedAt(n) \in Processes
  <2> DEFINE e == IF plan.kind = "megatron" THEN 0 ELSE q
             u == IF plan.kind = "megatron" THEN 0 ELSE r
  <2>1. e \in Nat /\ u \in Nat
    BY <1>1, <1>2
  <2> HIDE DEF e, u
  <2>2. "open" \in States /\ 0 \in Nat
    BY DEF States
  <2>3. StartedAt(n) = [pc |-> "open", todo |-> <<>>, batch |-> <<>>, drawn |-> 0,
                        epoch |-> e, skip |-> u, consumed |-> x]
    BY <1>4 DEF e, u
  <2>4. QED
    BY <1>3, <1>5, <2>1, <2>2, <2>3 DEF Processes
<1>7. QED
  BY <1>1, <1>2, <1>4, <1>6 DEF q, r, x

\* The invariant holds at first.
LEMMA InitRun ==
  LoadInit => RunInv
<1> SUFFICES ASSUME LoadInit PROVE RunInv
  OBVIOUS
<1>1. /\ plan \in Plans /\ rank = [k \in Ranks |-> StartedAt(0)] /\ base = <<>>
      /\ global_step = 0 /\ saved = 0 /\ trained = <<>> /\ crashes = 0 /\ resumed = {}
  BY DEF LoadInit
<1>2. 0 \in Nat /\ 0 < MaxSteps /\ MaxCrashes \in Nat /\ MaxSteps \in Nat
  BY <1>1, StepsToTake, PlanOptions
<1>3. /\ StartedAt(0) \in Processes /\ StartedAt(0).pc = "open" /\ StartedAt(0).skip < EpochSteps
      /\ plan.kind = "megatron" => StartedAt(0).consumed = 0 * Global
  BY <1>1, <1>2, StartsTyped
<1>4. RunTyped
  BY <1>1, <1>2, <1>3 DEF RunTyped
<1>5. ASSUME NEW k \in Ranks PROVE Going(k)
  BY <1>1, <1>2, <1>3 DEF Going, Drawn
<1>6. QED
  BY <1>4, <1>5 DEF RunInv

\* Nothing skipped.
LEMMA FromStart ==
  ASSUME NEW T, NEW s \in Seq(T)
  PROVE  From(s, 0) = s
<1> DEFINE f == From(s, 0)
<1>1. 0 \in 0..Len(s)
  OBVIOUS
<1>2. f \in Seq(T) /\ Len(f) = Len(s) - 0 /\ \A i \in 1..(Len(s) - 0) : f[i] = s[0 + i]
  BY <1>1, FromIs
<1> HIDE DEF f
<1>3. Len(s) - 0 = Len(s) /\ \A i \in 1..Len(s) : 0 + i = i
  OBVIOUS
<1>4. f \in Seq(T) /\ Len(f) = Len(s) /\ \A i \in 1..Len(s) : f[i] = s[i]
  BY <1>2, <1>3
<1>5. f = s
  BY <1>4
<1>6. QED
  BY <1>5 DEF f

\* The unskipped part of a share, as a process finds it when it opens its loader: in the
\* order of its epoch, but for a loader resumed in the middle of a shuffled epoch.
LEMMA OpensAt ==
  ASSUME plan \in Plans, plan.kind # "stream", NEW k \in Ranks, NEW r \in Processes,
         r.skip < EpochSteps, ~Over(r), global_step \in Nat,
         plan.kind = "megatron" => r.consumed = global_step * Global
  PROVE  /\ Todo(r, k) \in Seq(Seq(Indices))
         /\ \E e \in Nat, c \in 0..Pass :
              /\ Mapped => e = r.epoch /\ c = r.skip
              /\ ~Mapped => global_step = e * Pass + c
              /\ ~Uneven => Len(Todo(r, k)) = Pass - c
              /\ (~Mapped \/ c = 0 \/ e = 0 \/ ~(plan.shuffle \/ plan.kind = "sequence"))
                   => Todo(r, k) = From(Share(k, e), c)
<1> DEFINE n == EpochSteps
           t == Todo(r, k)
<1>1. n \in Nat \ {0} /\ Pass = n /\ global_step < MaxSteps /\ MaxSteps = plan.epochs * n
  BY StepsToTake DEF Over, Pass
<1>2. r.epoch \in Nat /\ r.skip \in Nat /\ plan.epochs \in Nat
  BY PlanOptions DEF Processes
<1>3. CASE Mapped
  <2> DEFINE e == r.epoch
             c == r.skip
  <2>1. e \in 0..plan.epochs /\ 0 \in 0..plan.epochs /\ c \in 0..n
    BY <1>1, <1>2, <1>3 DEF Over
  <2>2. /\ Batches(k, e) = Share(k, e) /\ Share(k, e) \in Seq(Seq(Indices)) /\ Len(Share(k, e)) = n
        /\ Batches(k, 0) = Share(k, 0) /\ Share(k, 0) \in Seq(Seq(Indices)) /\ Len(Share(k, 0)) = n
    BY <1>3, <2>1, BatchesAre
  <2>3. t = IF c > 0 THEN From(Share(k, 0), c) ELSE Share(k, e)
    BY <1>2, <1>3, <2>2 DEF Todo, Mapped
  <2>4. CASE c = 0
    <3>1. t = Share(k, e) /\ From(Share(k, e), 0) = Share(k, e)
      BY <2>2, <2>3, <2>4, FromStart
    <3>2. t \in Seq(Seq(Indices)) /\ Len(t) = n - 0 /\ t = From(Share(k, e), 0)
      BY <1>1, <2>2, <3>1
    <3> HIDE DEF t
    <3>3. QED
      BY <1>1, <1>2, <1>3, <2>1, <2>4, <3>2 DEF t
  <2>5. CASE c # 0
    <3>1. t = From(Share(k, 0), c)
      BY <1>2, <2>3, <2>5
    <3>2. t \in Seq(Seq(Indices)) /\ Len(t) = n - c
      <4> DEFINE s == Share(k, 0)
      <4>1. s \in Seq(Seq(Indices)) /\ c \in 0..Len(s) /\ Len(s) = n
        BY <2>1, <2>2
      <4>2. t = From(s, c)
        BY <3>1
      <4> HIDE DEF s, c, t
      <4>3. QED
        BY <4>1, <4>2, FromIs
    <3>3. e = 0 \/ ~(plan.shuffle \/ plan.kind = "sequence") => Share(k, e) = Share(k, 0)
      <4>1. ASSUME ~(plan.shuffle \/ plan.kind = "sequence") PROVE Share(k, e) = Share(k, 0)
        <5>1. plan.kind = "shard" /\ ~plan.shuffle
          BY <1>3, <4>1 DEF Mapped
        <5>2. Seeded(e, ShardTotal) = Seeded(0, ShardTotal)
          BY <5>1 DEF Seeded
        <5>3. Mine(k, e) = Mine(k, 0)
          BY <5>1, <5>2 DEF Mine, Order, Sharded
        <5>4. QED
          BY <5>1, <5>3 DEF Share
      <4>2. QED
        BY <4>1
    <3> HIDE DEF t
    <3>4. /\ ~Uneven => Len(t) = Pass - c
          /\ (~Mapped \/ c = 0 \/ e = 0 \/ ~(plan.shuffle \/ plan.kind = "sequence"))
                   => t = From(Share(k, e), c)
      BY <1>1, <1>3, <2>5, <3>1, <3>2, <3>3
    <3>5. c \in 0..Pass /\ e \in Nat
      BY <1>1, <1>2, <2>1
    <3> HIDE DEF e, c
    <3>6. \E d \in Nat, f \in 0..Pass :
              /\ Mapped => d = e /\ f = c
              /\ ~Mapped => global_step = d * Pass + f
              /\ ~Uneven => Len(t) = Pass - f
              /\ (~Mapped \/ f = 0 \/ d = 0 \/ ~(plan.shuffle \/ plan.kind = "sequence"))
                   => t = From(Share(k, d), f)
      BY <1>3, <3>4, <3>5
    <3>7. QED
      BY <3>2, <3>6 DEF t, e, c
  <2>6. QED
    BY <2>4, <2>5
<1>4. CASE plan.kind = "megatron"
  <2> DEFINE e == global_step \div n
             c == global_step % n
             s == Share(k, e)
  <2>1. e \in Nat /\ c \in 0..(n - 1) /\ global_step = n * e + c
    BY <1>1, Divided
  <2>2. t = MegatronBatches(k, global_step * Global)
    <3>1. t = MegatronBatches(k, r.consumed)
      BY <1>4 DEF Todo, Mapped
    <3>2. r.consumed = global_step * Global
      BY <1>4
    <3>3. QED
      BY <3>1, <3>2
  <2>3. t = From(s, c) /\ e \in 0..plan.epochs /\ c <= Len(s)
    BY <1>1, <1>4, <2>2, MegatronIs
  <2>4. s \in Seq(Seq(Indices)) /\ (~Uneven => Len(s) = n)
    BY <1>4, <2>3, MegatronShare
  <2> HIDE DEF s
  <2>5. t \in Seq(Seq(Indices)) /\ Len(t) = Len(s) - c
    <3>1. c \in 0..Len(s)
      BY <1>1, <2>1, <2>3, <2>4
    <3> HIDE DEF c, t
    <3>2. QED
      BY <2>3, <2>4, <3>1, FromIs
  <2> HIDE DEF e, c, t, n
  <2>6. e * Pass = n * e /\ c \in 0..Pass
    BY <1>1, <2>1
  <2>7. ~Mapped
    BY <1>4 DEF Mapped
  <2>8. \E d \in Nat, f \in 0..Pass :
              /\ global_step = d * Pass + f
              /\ ~Uneven => Len(t) = Pass - f
              /\ t = From(Share(k, d), f)
    BY <1>1, <2>1, <2>3, <2>4, <2>5, <2>6 DEF s
  <2>9. QED
    BY <2>5, <2>7, <2>8 DEF t
<1>5. plan.kind \in {"shard", "sequence", "megatron"}
  BY PlanOptions
<1>6. QED
  BY <1>3, <1>4, <1>5 DEF Mapped

\* What a step does to one process, leaving the others and the training alone.
OneMoves(k, r) ==
  /\ rank' = [rank EXCEPT ![k] = r]
  /\ UNCHANGED <<plan, global_step, saved, trained, crashes, resumed>>

\* A process that goes on, at a number of batches drawn.
GoesOn(r) ==
  /\ r.pc # "stopped" => global_step < MaxSteps
  /\ r.skip < EpochSteps
  /\ r.pc \in {"draw", "hold"} => r.skip = 0
  /\ plan.kind = "megatron" =>
       r.consumed = (global_step + (IF r.pc = "hold" THEN 1 ELSE 0)) * Global

\* A process goes on when its record says so.
LEMMA GoingIs ==
  \A k : Going(k) <=> GoesOn(rank[k])
BY DEF Going, GoesOn, Drawn

\* The job is fixed, and the types with it.
LEMMA TypesStay ==
  ASSUME plan' = plan
  PROVE  Processes' = Processes /\ Steps' = Steps
BY SamplersStay DEF Processes, Steps

\* A step of one process that leaves it going keeps the invariant.
LEMMA OneMovesKeeps ==
  ASSUME RunInv, NEW k \in Ranks, NEW r \in Processes, OneMoves(k, r), GoesOn(r),
         base' \in Seq(Seq(Indices))
  PROVE  RunInv'
<1>1. /\ plan' = plan /\ global_step' = global_step /\ saved' = saved /\ trained' = trained
      /\ crashes' = crashes /\ resumed' = resumed /\ rank' = [rank EXCEPT ![k] = r]
  BY DEF OneMoves
<1>2. /\ Ranks' = Ranks /\ Indices' = Indices /\ MaxSteps' = MaxSteps /\ EpochSteps' = EpochSteps
      /\ Global' = Global /\ Processes' = Processes /\ Steps' = Steps
  BY <1>1, SamplersStay, ScheduleStays, TypesStay
<1>3. RunTyped /\ \A j \in Ranks : GoesOn(rank[j])
  BY GoingIs DEF RunInv
<1>4. rank' \in [Ranks -> Processes] /\ \A j \in Ranks : rank'[j] = IF j = k THEN r ELSE rank[j]
  BY <1>1, <1>3 DEF RunTyped
<1>5. RunTyped'
  BY <1>1, <1>2, <1>3, <1>4 DEF RunTyped
<1>6. ASSUME NEW j \in Ranks PROVE Going(j)'
  <2>1. GoesOn(rank'[j])
    BY <1>3, <1>4
  <2>2. QED
    BY <1>1, <1>2, <2>1 DEF Going, Drawn, GoesOn
<1>7. QED
  BY <1>2, <1>5, <1>6 DEF RunInv

\* A process that opens its loader finds batches of samples there.
LEMMA OpenRun ==
  ASSUME RunInv, NEW k \in Ranks, Open(k)
  PROVE  RunInv'
<1> DEFINE r == rank[k]
           t == Todo(r, k)
           n == [r EXCEPT !.pc = "draw", !.todo = t, !.drawn = 0, !.skip = 0]
<1>1. /\ r.pc = "open" /\ ~Over(r) /\ ~(plan.kind = "stream" /\ k = 0)
      /\ rank' = [rank EXCEPT ![k] = n]
      /\ UNCHANGED <<plan, base, global_step, saved, trained, crashes, resumed>>
  BY DEF Open
<1>2. r \in Processes /\ GoesOn(r) /\ RunTyped /\ plan \in Plans
  BY GoingIs DEF RunInv, RunTyped
<1> HIDE DEF r
<1>3. t \in Seq(Seq(Indices))
  <2>1. CASE plan.kind = "stream"
    <3>1. t = <<>>
      BY <2>1 DEF Todo, Mapped
    <3>2. QED
      BY <3>1
  <2>2. CASE plan.kind # "stream"
    <3>1. plan.kind = "megatron" => r.consumed = global_step * Global
      <4>1. global_step + 0 = global_step
        BY <1>2 DEF RunTyped
      <4>2. plan.kind = "megatron" => r.consumed = (global_step + 0) * Global
        BY <1>1, <1>2 DEF GoesOn
      <4>3. QED
        BY <4>1, <4>2
    <3>2. r.skip < EpochSteps /\ global_step \in Nat
      BY <1>2 DEF GoesOn, RunTyped
    <3>3. QED
      BY <1>1, <1>2, <2>2, <3>1, <3>2, OpensAt
  <2>3. QED
    BY <2>1, <2>2
<1> HIDE DEF t
<1>4. n \in Processes
  BY <1>2, <1>3 DEF Processes, States
<1>5. GoesOn(n)
  <2>1. n.pc = "draw" /\ n.skip = 0 /\ n.consumed = r.consumed
    BY <1>2 DEF Processes
  <2>2. 0 < EpochSteps
    BY <1>2, StepsToTake
  <2>3. QED
    BY <1>1, <1>2, <2>1, <2>2 DEF GoesOn
<1>6. OneMoves(k, n) /\ base' \in Seq(Seq(Indices))
  BY <1>1, <1>2 DEF OneMoves, RunTyped
<1>7. QED
  BY <1>4, <1>5, <1>6, OneMovesKeeps

\* Process 0 goes on in the stream, or fails.
LEMMA OpenStreamRun ==
  ASSUME RunInv, OpenStream
  PROVE  RunInv'
<1> DEFINE r == rank[0]
           short == r.skip * plan.world > Len(StreamBatches)
           p == IF short THEN "error" ELSE "draw"
           n == [r EXCEPT !.pc = p, !.drawn = 0, !.skip = 0]
<1>1. /\ plan.kind = "stream" /\ r.pc = "open" /\ ~Over(r)
      /\ base' = IF short THEN <<>> ELSE From(StreamBatches, r.skip * plan.world)
      /\ rank' = [rank EXCEPT ![0] = n]
      /\ UNCHANGED <<plan, global_step, saved, trained, crashes, resumed>>
  BY DEF OpenStream
<1>2. plan \in Plans /\ RunTyped
  BY DEF RunInv, RunTyped
<1>3. 0 \in Ranks /\ 0 < EpochSteps
  BY <1>2, StepsToTake
<1>4. r \in Processes /\ GoesOn(r)
  BY <1>2, <1>3, GoingIs DEF RunInv, RunTyped
<1> HIDE DEF r
<1>5. base' \in Seq(Seq(Indices))
  <2> DEFINE s == StreamBatches
             x == r.skip * plan.world
  <2>1. s \in Seq(Seq(Indices)) /\ x \in Nat
    <3>1. r.skip \in Nat /\ plan.world \in Nat
      BY <1>2, <1>4, PlanOptions DEF Processes
    <3>2. QED
      BY <1>2, <3>1, StreamIs
  <2>2. base' = IF x > Len(s) THEN <<>> ELSE From(s, x)
    BY <1>1
  <2> HIDE DEF s, x
  <2>3. CASE x > Len(s)
    BY <2>2, <2>3
  <2>4. CASE ~(x > Len(s))
    <3>1. x \in 0..Len(s)
      BY <2>1, <2>4
    <3>2. QED
      BY <2>1, <2>2, <2>4, <3>1, FromIs
  <2>5. QED
    BY <2>3, <2>4
<1>6. p \in States /\ p # "stopped" /\ p # "hold"
  BY DEF States
<1> HIDE DEF p
<1>7. n \in Processes
  BY <1>4, <1>6 DEF Processes
<1>8. GoesOn(n)
  <2>1. n.pc = p /\ n.skip = 0
    BY <1>4 DEF Processes
  <2>2. QED
    BY <1>1, <1>3, <1>4, <1>6, <2>1 DEF GoesOn
<1>9. OneMoves(0, n)
  BY <1>1 DEF OneMoves
<1>10. QED
  BY <1>3, <1>5, <1>7, <1>8, <1>9, OneMovesKeeps

\* A process that stops has nothing left to do.
LEMMA StopRun ==
  ASSUME RunInv, NEW k \in Ranks, Stop(k)
  PROVE  RunInv'
<1> DEFINE r == rank[k]
           n == [r EXCEPT !.pc = "stopped"]
<1>1. /\ r.pc = "open" /\ rank' = [rank EXCEPT ![k].pc = "stopped"]
      /\ UNCHANGED <<plan, base, global_step, saved, trained, crashes, resumed>>
  BY DEF Stop
<1>2. r \in Processes /\ GoesOn(r) /\ RunTyped
  BY GoingIs DEF RunInv, RunTyped
<1>3. n \in Processes /\ n.pc = "stopped" /\ n.skip = r.skip /\ n.consumed = r.consumed
  BY <1>2 DEF Processes, States
<1>4. GoesOn(n)
  BY <1>1, <1>2, <1>3 DEF GoesOn
<1>5. OneMoves(k, n) /\ base' \in Seq(Seq(Indices))
  BY <1>1, <1>2 DEF OneMoves, RunTyped
<1>6. QED
  BY <1>3, <1>4, <1>5, OneMovesKeeps

\* One more batch consumed.
LEMMA OneMore ==
  ASSUME NEW n \in Nat, NEW g \in Nat, NEW x, x = (n + 0) * g
  PROVE  x \in Nat /\ x + g = (n + 1) * g
<1>1. n + 0 = n
  OBVIOUS
<1>2. (n + 1) * g = n * g + g /\ n * g \in Nat
  OBVIOUS
<1>3. x = n * g
  BY <1>1
<1>4. QED
  BY <1>2, <1>3

\* A process that draws a batch has consumed a global batch more.
LEMMA DrawRun ==
  ASSUME RunInv, NEW k \in Ranks, Draw(k)
  PROVE  RunInv'
<1> DEFINE r == rank[k]
           h == Head(r.todo)
           t == Tail(r.todo)
           c == r.consumed + Global
           d == r.drawn + 1
           n == [[r EXCEPT !.pc = "hold", !.batch = h, !.drawn = d] EXCEPT !.todo = t, !.consumed = c]
<1>1. /\ r.pc = "draw" /\ r.todo # <<>>
      /\ rank' = [rank EXCEPT ![k] = n]
      /\ UNCHANGED <<plan, base, global_step, saved, trained, crashes, resumed>>
  BY DEF Draw, Holding
<1>2. r \in Processes /\ GoesOn(r) /\ RunTyped /\ plan \in Plans
  BY GoingIs DEF RunInv, RunTyped
<1>3. Global \in Nat \ {0} /\ global_step \in Nat
  BY <1>2, StepsToTake DEF RunTyped
<1> HIDE DEF r
<1>4. h \in Seq(Indices) /\ t \in Seq(Seq(Indices)) /\ c \in Nat /\ d \in Nat
  <2>1. r.todo \in Seq(Seq(Indices)) /\ r.consumed \in Nat /\ r.drawn \in Nat
    BY <1>2 DEF Processes
  <2>2. QED
    BY <1>1, <1>3, <2>1, HeadTailProperties
<1>5. plan.kind = "megatron" => c = (global_step + 1) * Global
  <2>1. plan.kind = "megatron" => r.consumed = (global_step + 0) * Global
    BY <1>1, <1>2 DEF GoesOn
  <2>2. QED
    BY <1>3, <2>1, OneMore
<1> HIDE DEF h, t, c, d
<1>6. n \in Processes /\ n.pc = "hold" /\ n.skip = r.skip /\ n.consumed = c
  BY <1>2, <1>4 DEF Processes, States
<1>7. GoesOn(n)
  BY <1>1, <1>2, <1>5, <1>6 DEF GoesOn
<1>8. OneMoves(k, n) /\ base' \in Seq(Seq(Indices))
  BY <1>1, <1>2 DEF OneMoves, RunTyped
<1>9. QED
  BY <1>6, <1>7, <1>8, OneMovesKeeps

\* A process whose loader is exhausted.
LEMMA ExhaustedIs ==
  ASSUME NEW r \in Processes, r.pc = "draw", GoesOn(r)
  PROVE  Exhausted(r) \in Processes /\ GoesOn(Exhausted(r))
<1> DEFINE d == r.epoch + 1
           e == Exhausted(r)
<1>1. d \in Nat
  BY DEF Processes
<1>2. e = IF plan.kind = "megatron" THEN [r EXCEPT !.pc = "open"]
          ELSE IF r.drawn = 0 THEN [r EXCEPT !.pc = "stopped"]
          ELSE [r EXCEPT !.pc = "open", !.epoch = d]
  BY DEF Exhausted
<1> HIDE DEF d, e
<1>3. e \in Processes /\ e.pc \in {"open", "stopped"} /\ e.skip = r.skip /\ e.consumed = r.consumed
  BY <1>1, <1>2 DEF Processes, States
<1>4. GoesOn(e)
  BY <1>3 DEF GoesOn
<1>5. QED
  BY <1>3, <1>4 DEF e

\* A process at the end of its loader keeps the invariant.
LEMMA EndPassRun ==
  ASSUME RunInv, NEW k \in Ranks, EndPass(k)
  PROVE  RunInv'
<1> DEFINE n == Exhausted(rank[k])
<1>1. /\ rank[k].pc = "draw" /\ rank' = [rank EXCEPT ![k] = n]
      /\ UNCHANGED <<plan, base, global_step, saved, trained, crashes, resumed>>
  BY DEF EndPass
<1>2. rank[k] \in Processes /\ GoesOn(rank[k]) /\ RunTyped
  BY GoingIs DEF RunInv, RunTyped
<1>3. n \in Processes /\ GoesOn(n)
  BY <1>1, <1>2, ExhaustedIs
<1> HIDE DEF n
<1>4. OneMoves(k, n) /\ base' \in Seq(Seq(Indices))
  BY <1>1, <1>2 DEF OneMoves, RunTyped
<1>5. QED
  BY <1>3, <1>4, OneMovesKeeps

\* All processes get their batch, or come to the end together.
LEMMA ScatterRun ==
  ASSUME RunInv, Scatter
  PROVE  RunInv'
<1>1. /\ plan.kind = "stream" /\ \A k \in Ranks : rank[k].pc = "draw"
      /\ plan' = plan /\ global_step' = global_step /\ saved' = saved /\ trained' = trained
      /\ crashes' = crashes /\ resumed' = resumed
  BY DEF Scatter
<1>2. /\ Ranks' = Ranks /\ Indices' = Indices /\ MaxSteps' = MaxSteps /\ EpochSteps' = EpochSteps
      /\ Global' = Global /\ Processes' = Processes /\ Steps' = Steps
  BY <1>1, SamplersStay, ScheduleStays, TypesStay
<1>3. RunTyped /\ plan \in Plans /\ \A j \in Ranks : rank[j] \in Processes /\ GoesOn(rank[j])
  BY GoingIs DEF RunInv, RunTyped
<1>4. /\ base' \in Seq(Seq(Indices)) /\ rank' = [j \in Ranks |-> rank'[j]]
      /\ \A j \in Ranks : rank'[j] \in Processes /\ GoesOn(rank'[j])
  <2>1. CASE Len(base) >= plan.world
    <3>1. rank' = [j \in Ranks |-> Holding(rank[j], base[j + 1])] /\ base' = From(base, plan.world)
      BY <2>1 DEF Scatter
    <3>2. base \in Seq(Seq(Indices)) /\ plan.world \in 0..Len(base) /\ plan.world \in Nat \ {0}
      BY <1>3, <2>1, PlanOptions DEF RunTyped
    <3>3. base' \in Seq(Seq(Indices))
      BY <3>1, <3>2, FromIs
    <3>4. ASSUME NEW j \in Ranks PROVE rank'[j] \in Processes /\ GoesOn(rank'[j])
      <4> DEFINE b == base[j + 1]
                 r == rank[j]
                 d == r.drawn + 1
      <4>1. j + 1 \in 1..Len(base)
        BY <3>2 DEF Ranks
      <4>2. b \in Seq(Indices)
        BY <3>2, <4>1
      <4>3. rank'[j] = [r EXCEPT !.pc = "hold", !.batch = b, !.drawn = d]
        BY <3>1 DEF Holding
      <4> HIDE DEF b, r
      <4>4. r \in Processes /\ GoesOn(r) /\ r.pc = "draw"
        BY <1>1, <1>3 DEF r
      <4>5. d \in Nat
        BY <4>4 DEF Processes
      <4> HIDE DEF d
      <4>6. rank'[j] \in Processes /\ rank'[j].pc = "hold" /\ rank'[j].skip = r.skip
        BY <4>2, <4>3, <4>4, <4>5 DEF Processes, States
      <4>7. GoesOn(rank'[j])
        BY <1>1, <4>4, <4>6 DEF GoesOn
      <4>8. QED
        BY <4>6, <4>7
    <3>5. QED
      BY <3>1, <3>3, <3>4
  <2>2. CASE ~(Len(base) >= plan.world)
    <3>1. rank' = [j \in Ranks |-> Exhausted(rank[j])] /\ base' = <<>>
      BY <2>2 DEF Scatter
    <3>2. \A j \in Ranks : rank'[j] = Exhausted(rank[j])
      BY <3>1
    <3>3. \A j \in Ranks : Exhausted(rank[j]) \in Processes /\ GoesOn(Exhausted(rank[j]))
      BY <1>1, <1>3, ExhaustedIs
    <3>4. QED
      BY <3>1, <3>2, <3>3
  <2>3. QED
    BY <2>1, <2>2
<1>5. rank' \in [Ranks -> Processes]
  BY <1>4
<1>6. RunTyped'
  BY <1>1, <1>2, <1>3, <1>4, <1>5 DEF RunTyped
<1>7. ASSUME NEW j \in Ranks PROVE Going(j)'
  BY <1>1, <1>2, <1>4 DEF Going, Drawn, GoesOn
<1>8. QED
  BY <1>2, <1>6, <1>7 DEF RunInv

\* A step counts, and stops the job at the last one.
LEMMA TrainRun ==
  ASSUME RunInv, Train
  PROVE  RunInv'
<1> DEFINE g == global_step + 1
           step == [k \in Ranks |-> [epoch |-> rank[k].epoch, batch |-> rank[k].batch]]
           p == IF g >= MaxSteps THEN "stopped" ELSE "draw"
<1>1. /\ \A k \in Ranks : rank[k].pc = "hold"
      /\ global_step' = g /\ trained' = Append(trained, step)
      /\ saved' = IF g % plan.save = 0 THEN g ELSE saved
      /\ rank' = [k \in Ranks |-> [rank[k] EXCEPT !.batch = <<>>, !.pc = p]]
      /\ plan' = plan /\ base' = base /\ crashes' = crashes /\ resumed' = resumed
  BY DEF Train
<1>2. /\ Ranks' = Ranks /\ Indices' = Indices /\ MaxSteps' = MaxSteps /\ EpochSteps' = EpochSteps
      /\ Global' = Global /\ Processes' = Processes /\ Steps' = Steps
  BY <1>1, SamplersStay, ScheduleStays, TypesStay
<1>3. RunTyped /\ plan \in Plans /\ \A j \in Ranks : rank[j] \in Processes /\ GoesOn(rank[j])
  BY GoingIs DEF RunInv, RunTyped
<1>4. 0 \in Ranks /\ MaxSteps \in Nat
  BY <1>3, StepsToTake
<1>t. global_step \in Nat /\ saved \in Nat /\ saved <= global_step
      /\ trained \in Seq([Ranks -> Steps]) /\ Len(trained) = global_step
  BY <1>3 DEF RunTyped
<1>5. g \in Nat /\ g <= MaxSteps
  <2>1. global_step < MaxSteps
    <3>1. rank[0].pc # "stopped"
      BY <1>1, <1>4
    <3>2. QED
      BY <1>3, <1>4, <3>1 DEF GoesOn
  <2>2. QED
    BY <1>4, <1>t, <2>1
<1>6. step \in [Ranks -> Steps]
  BY <1>3 DEF Steps, Processes
<1> HIDE DEF step
<1>7. trained' \in Seq([Ranks -> Steps]) /\ Len(trained') = g
  <2> DEFINE S == [Ranks -> Steps]
  <2>1. step \in S /\ trained \in Seq(S)
    BY <1>6, <1>t
  <2> HIDE DEF S
  <2>2. Append(trained, step) \in Seq(S) /\ Len(Append(trained, step)) = Len(trained) + 1
    BY <2>1, AppendProperties
  <2>3. QED
    BY <1>1, <1>t, <2>2 DEF S
<1>g. g = global_step + 1
  OBVIOUS
<1> HIDE DEF g
<1>8. saved' \in Nat /\ saved' <= g
  <2>1. saved' = g \/ saved' = saved
    BY <1>1
  <2>2. QED
    BY <1>5, <1>g, <1>t, <2>1
<1>9. p \in States /\ p \in {"stopped", "draw"} /\ (p # "stopped" => g < MaxSteps)
  BY <1>4, <1>5 DEF States
<1> HIDE DEF p
<1>10. ASSUME NEW j \in Ranks
       PROVE  /\ rank'[j] \in Processes /\ rank'[j].pc = p
              /\ rank'[j].skip = rank[j].skip /\ rank'[j].consumed = rank[j].consumed
  <2> DEFINE r == rank[j]
  <2>1. rank'[j] = [r EXCEPT !.batch = <<>>, !.pc = p]
    BY <1>1
  <2>2. r \in Processes
    BY <1>3
  <2> HIDE DEF r
  <2>3. <<>> \in Seq(Indices)
    OBVIOUS
  <2>4. rank'[j] \in Processes /\ rank'[j].pc = p /\ rank'[j].skip = r.skip /\ rank'[j].consumed = r.consumed
    BY <1>9, <2>1, <2>2, <2>3 DEF Processes
  <2>5. QED
    BY <2>4 DEF r
<1>11. rank' \in [Ranks -> Processes]
  BY <1>1, <1>10
<1>12. RunTyped'
  BY <1>1, <1>2, <1>3, <1>5, <1>7, <1>8, <1>11 DEF RunTyped
<1>13. ASSUME NEW j \in Ranks PROVE Going(j)'
  <2>1. /\ rank[j].skip < EpochSteps /\ rank[j].skip = 0
        /\ plan.kind = "megatron" => rank[j].consumed = g * Global
    BY <1>1, <1>3, <1>g DEF GoesOn
  <2>2. g + 0 = g
    BY <1>5
  <2>3. /\ rank'[j].pc # "stopped" => global_step' < MaxSteps'
        /\ rank'[j].skip < EpochSteps' /\ rank'[j].skip = 0
    BY <1>1, <1>2, <1>9, <1>10, <2>1
  <2>4. Drawn(j)' = g
    BY <1>1, <1>9, <1>10, <2>2 DEF Drawn
  <2>5. plan'.kind = "megatron" => rank'[j].consumed = Drawn(j)' * Global'
    BY <1>1, <1>2, <1>10, <2>1, <2>4
  <2>6. QED
    BY <2>3, <2>5 DEF Going
<1>14. QED
  BY <1>2, <1>12, <1>13 DEF RunInv

\* A checkpoint is of a step before the last: a job that goes on has steps to take.
LEMMA CrashRun ==
  ASSUME RunInv, Crash
  PROVE  RunInv' /\ saved < MaxSteps
<1> DEFINE start == StartedAt(saved)
           e == saved \div EpochSteps
<1>1. /\ crashes < MaxCrashes /\ (\E k \in Ranks : rank[k].pc # "stopped")
      /\ crashes' = crashes + 1 /\ global_step' = saved
      /\ trained' = SubSeq(trained, 1, saved)
      /\ rank' = [k \in Ranks |-> start] /\ base' = <<>>
      /\ resumed' = IF saved % EpochSteps = 0 THEN resumed ELSE resumed \cup {e}
      /\ plan' = plan /\ saved' = saved
  BY DEF Crash
<1>2. /\ Ranks' = Ranks /\ Indices' = Indices /\ MaxSteps' = MaxSteps /\ EpochSteps' = EpochSteps
      /\ Global' = Global /\ Processes' = Processes /\ Steps' = Steps
  BY <1>1, SamplersStay, ScheduleStays, TypesStay
<1>3. RunTyped /\ plan \in Plans /\ \A j \in Ranks : rank[j] \in Processes /\ GoesOn(rank[j])
  BY GoingIs DEF RunInv, RunTyped
<1>4. saved \in Nat /\ saved <= global_step /\ global_step \in Nat /\ MaxSteps \in Nat
  BY <1>3, StepsToTake DEF RunTyped
<1>5. saved < MaxSteps
  <2>1. global_step < MaxSteps
    BY <1>1, <1>3 DEF GoesOn
  <2>2. QED
    BY <1>4, <2>1
<1>6. /\ start \in Processes /\ start.pc = "open" /\ start.skip < EpochSteps
      /\ plan.kind = "megatron" => start.consumed = saved * Global
      /\ e \in Nat
  BY <1>3, <1>4, <1>5, StartsTyped
<1> HIDE DEF start, e
<1>7. trained' \in Seq([Ranks -> Steps]) /\ Len(trained') = saved
  BY <1>1, <1>3, <1>4 DEF RunTyped
<1>8. rank' \in [Ranks -> Processes] /\ \A j \in Ranks : rank'[j] = start
  BY <1>1, <1>6
<1>9. RunTyped'
  <2>1. crashes' \in 0..MaxCrashes /\ resumed' \subseteq Nat
    <3>1. MaxCrashes \in Nat /\ crashes \in 0..MaxCrashes /\ resumed \subseteq Nat
      BY <1>3, PlanOptions DEF RunTyped
    <3>2. QED
      BY <1>1, <1>6, <3>1
  <2>2. QED
    BY <1>1, <1>2, <1>3, <1>4, <1>5, <1>7, <1>8, <2>1 DEF RunTyped
<1>10. ASSUME NEW j \in Ranks PROVE Going(j)'
  <2>1. saved + 0 = saved
    BY <1>4
  <2>2. Drawn(j)' = saved
    BY <1>1, <1>6, <1>8, <2>1 DEF Drawn
  <2>3. QED
    BY <1>1, <1>2, <1>5, <1>6, <1>8, <2>2 DEF Going
<1>11. QED
  BY <1>2, <1>5, <1>9, <1>10 DEF RunInv

\* Every step keeps the invariant.
LEMMA RunNext ==
  ASSUME RunInv, [LoadNext]_loadVars
  PROVE  RunInv'
<1>1. CASE UNCHANGED loadVars
  <2>1. /\ plan' = plan /\ rank' = rank /\ base' = base /\ global_step' = global_step /\ saved' = saved
        /\ trained' = trained /\ crashes' = crashes /\ resumed' = resumed
    BY <1>1 DEF loadVars
  <2>2. /\ Ranks' = Ranks /\ Indices' = Indices /\ MaxSteps' = MaxSteps /\ EpochSteps' = EpochSteps
        /\ Global' = Global /\ Processes' = Processes /\ Steps' = Steps
    BY <2>1, SamplersStay, ScheduleStays, TypesStay
  <2>3. RunTyped'
    BY <2>1, <2>2 DEF RunInv, RunTyped
  <2>4. ASSUME NEW j \in Ranks PROVE Going(j)'
    BY <2>1, <2>2 DEF RunInv, Going, Drawn
  <2>5. QED
    BY <2>2, <2>3, <2>4 DEF RunInv
<1>2. CASE OpenStream
  BY <1>2, OpenStreamRun
<1>3. CASE Scatter
  BY <1>3, ScatterRun
<1>4. CASE Train
  BY <1>4, TrainRun
<1>5. CASE Crash
  BY <1>5, CrashRun
<1>6. ASSUME NEW k \in Ranks, Open(k) \/ Stop(k) \/ Draw(k) \/ EndPass(k) PROVE RunInv'
  BY <1>6, OpenRun, StopRun, DrawRun, EndPassRun
<1>7. QED
  BY <1>1, <1>2, <1>3, <1>4, <1>5, <1>6 DEF LoadNext

\* Types hold: steps do not exceed the schedule, nor the checkpoint the steps.
THEOREM LoadTypesHold == LoadSpec => []LoadTypeOK
<1>1. RunInv => LoadTypeOK
  <2> SUFFICES ASSUME RunInv PROVE LoadTypeOK
    OBVIOUS
  <2>1. RunTyped
    BY DEF RunInv
  <2>2. ASSUME NEW k \in Ranks
        PROVE  /\ rank[k].pc \in {"open", "draw", "hold", "stopped", "error"}
               /\ {rank[k].epoch, rank[k].skip, rank[k].drawn, rank[k].consumed} \subseteq Nat
               /\ rank[k].todo \in Seq(Seq(Indices)) /\ rank[k].batch \in Seq(Indices)
    BY <2>1 DEF RunTyped, Processes, States
  <2>3. global_step \in 0..MaxSteps /\ saved \in 0..global_step
    BY <2>1, StepsToTake DEF RunTyped
  <2>4. QED
    BY <2>1, <2>2, <2>3 DEF RunTyped, LoadTypeOK
<1>2. LoadSpec => []RunInv
  BY InitRun, RunNext, PTL DEF LoadSpec
<1>3. QED
  BY <1>1, <1>2, PTL

-----------------------------------------------------------------------------
(* Where a process is in its shares.                                       *)

Taken(r) == global_step + (IF r.pc = "hold" THEN 1 ELSE 0)

\* What it has left of its share, it has not drawn; a stream is not dealt in shares.
InShare(r, k) ==
  IF plan.kind = "stream" THEN r.todo = <<>>
  ELSE r.pc \in {"draw", "hold"} =>
         \E e \in Nat, c \in 0..Pass :
           /\ Taken(r) = e * Pass + c
           /\ Mapped => e = r.epoch
           /\ Len(r.todo) = Pass - c
           /\ ~Reshuffled(e) => r.todo = From(Share(k, e), c)

\* It opens its loader where it was left; in the middle of an epoch the job was resumed there.
ToOpen(r) ==
  Mapped /\ r.pc = "open" =>
    /\ global_step = r.epoch * Pass + r.skip
    /\ r.skip > 0 => r.epoch \in resumed

\* The batch it holds is the next one of its share.
Current(r, k) ==
  r.pc = "hold" =>
    \E e \in Nat, c \in 0..(Pass - 1) :
      /\ global_step = e * Pass + c
      /\ plan.kind # "megatron" => r.epoch = e
      /\ ~Reshuffled(e) => r.batch = Share(k, e)[c + 1]

Placed(r, k) == InShare(r, k) /\ ToOpen(r) /\ Current(r, k)

\* And so was what it has trained on.
Past(i, k) ==
  \E e \in Nat, c \in 0..(Pass - 1) :
    /\ i - 1 = e * Pass + c
    /\ plan.kind # "megatron" => trained[i][k].epoch = e
    /\ ~Reshuffled(e) => trained[i][k].batch = Share(k, e)[c + 1]

\* Process 0's iterator is behind the rounds it has scattered; the processes that go on
\* are in the same pass.
InPass == {"open", "draw", "hold"}
Rounds ==
  plan.kind = "stream" =>
    /\ rank[0].pc = "open" => global_step = rank[0].epoch * Pass + rank[0].skip
    /\ rank[0].pc \in {"draw", "hold"} =>
         \E c \in 0..Pass : /\ Taken(rank[0]) = rank[0].epoch * Pass + c
                            /\ base = From(StreamBatches, c * plan.world)
    /\ \A k \in Ranks : rank[0].pc \in InPass /\ rank[k].pc \in InPass =>
         rank[k].epoch = rank[0].epoch

PlaceInv ==
  ~Uneven =>
    /\ Rounds
    /\ \A k \in Ranks : Placed(rank[k], k)
    /\ \A i \in DOMAIN trained, k \in Ranks : Past(i, k)

\* A pass has a step, but that over a stream which may be short of a round.
LEMMA PassIs ==
  ASSUME plan \in Plans
  PROVE  Pass \in Nat /\ (plan.kind # "stream" => Pass = EpochSteps /\ Pass # 0)
BY StepsToTake, StreamIs DEF Pass

\* All processes start at the beginning of their shares.
LEMMA InitPlaces ==
  LoadInit => PlaceInv
<1> SUFFICES ASSUME LoadInit PROVE PlaceInv
  OBVIOUS
<1>1. /\ plan \in Plans /\ rank = [k \in Ranks |-> StartedAt(0)] /\ global_step = 0 /\ trained = <<>>
  BY DEF LoadInit
<1>2. 0 \in Nat /\ 0 < MaxSteps /\ EpochSteps \in Nat \ {0} /\ 0 \in Ranks
  BY <1>1, StepsToTake
<1>3. /\ StartedAt(0).pc = "open"
      /\ plan.kind # "megatron" =>
           StartedAt(0).epoch = 0 \div EpochSteps /\ StartedAt(0).skip = 0 % EpochSteps
  BY <1>1, <1>2, StartsTyped
<1>4. StartedAt(0).todo = <<>>
  BY DEF StartedAt
<1>5. 0 \div EpochSteps = 0 /\ 0 % EpochSteps = 0
  <2> DEFINE n == EpochSteps
  <2> HIDE DEF n
  <2>1. 0 = n * 0 + 0 /\ 0 \in 0..(n - 1) /\ n \in Nat \ {0} /\ 0 \in Nat
    BY <1>2 DEF n
  <2>2. 0 \div n = 0 /\ 0 % n = 0
    BY <2>1, Quotient
  <2>3. QED
    BY <2>2 DEF n
<1>6. Pass \in Nat
  BY <1>1, PassIs
<1>7. 0 * Pass + 0 = 0
  BY <1>6
<1> DEFINE s == StartedAt(0)
<1>8. \A k \in Ranks : rank[k] = s
  BY <1>1
<1>9. s.pc = "open" /\ s.todo = <<>> /\ (plan.kind # "megatron" => s.epoch = 0 /\ s.skip = 0)
  BY <1>3, <1>4, <1>5
<1> HIDE DEF s
<1>10. Rounds
  BY <1>1, <1>2, <1>7, <1>8, <1>9 DEF Rounds
<1>11. ASSUME NEW k \in Ranks PROVE Placed(rank[k], k)
  <2>1. InShare(s, k) /\ Current(s, k)
    BY <1>9 DEF InShare, Current
  <2>2. ToOpen(s)
    BY <1>1, <1>7, <1>9 DEF ToOpen, Mapped
  <2>3. QED
    BY <1>8, <2>1, <2>2 DEF Placed
<1>12. DOMAIN trained = {}
  BY <1>1
<1>13. QED
  BY <1>10, <1>11, <1>12 DEF PlaceInv

\* What the places depend on stays.
LEMMA PlacesStay ==
  ASSUME plan' = plan
  PROVE  /\ Pass' = Pass /\ Ranks' = Ranks /\ Mapped' = Mapped /\ Uneven' = Uneven
         /\ StreamBatches' = StreamBatches
         /\ \A k, e : Share(k, e)' = Share(k, e)
         /\ resumed \subseteq resumed' => \A e : Reshuffled(e) => Reshuffled(e)'
         /\ resumed' = resumed => \A e : Reshuffled(e)' = Reshuffled(e)
<1>1. /\ Pass' = Pass /\ Ranks' = Ranks /\ Mapped' = Mapped /\ Uneven' = Uneven
      /\ StreamBatches' = StreamBatches
  BY SamplersStay, ScheduleStays
<1>2. \A k, e : Share(k, e)' = Share(k, e)
  BY SharesStay
<1>3. /\ resumed \subseteq resumed' => \A e : Reshuffled(e) => Reshuffled(e)'
      /\ resumed' = resumed => \A e : Reshuffled(e)' = Reshuffled(e)
  BY <1>1 DEF Reshuffled
<1>4. QED
  BY <1>1, <1>2, <1>3

\* A process moves, the others and the training stay.
LEMMA OneMovesPlaces ==
  ASSUME RunInv, PlaceInv, NEW k \in Ranks, NEW r \in Processes, OneMoves(k, r),
         ~Uneven => Placed(r, k) /\ Rounds'
  PROVE  PlaceInv'
<1>1. /\ plan' = plan /\ global_step' = global_step /\ trained' = trained
      /\ resumed' = resumed /\ rank' = [rank EXCEPT ![k] = r]
  BY DEF OneMoves
<1>2. /\ Pass' = Pass /\ Ranks' = Ranks /\ Mapped' = Mapped /\ Uneven' = Uneven
      /\ \A j, e : Share(j, e)' = Share(j, e)
      /\ \A e : Reshuffled(e)' = Reshuffled(e)
  BY <1>1, PlacesStay
<1>3. \A j \in Ranks : rank'[j] = IF j = k THEN r ELSE rank[j]
  BY <1>1 DEF RunInv, RunTyped
<1>4. SUFFICES ASSUME ~Uneven PROVE PlaceInv'
  BY <1>2 DEF PlaceInv
<1>5. ASSUME NEW j \in Ranks PROVE Placed(rank[j], j)'
  <2>1. Placed(rank'[j], j)
    BY <1>3, <1>4 DEF PlaceInv
  <2>2. InShare(rank[j], j)'
    BY <1>1, <1>2, <2>1 DEF Placed, InShare, Taken
  <2>3. ToOpen(rank[j])'
    BY <1>1, <1>2, <2>1 DEF Placed, ToOpen
  <2>4. Current(rank[j], j)'
    BY <1>1, <1>2, <2>1 DEF Placed, Current
  <2>5. QED
    BY <2>2, <2>3, <2>4 DEF Placed
<1>6. ASSUME NEW i \in DOMAIN trained, NEW j \in Ranks PROVE Past(i, j)'
  <2>1. Past(i, j)
    BY <1>4 DEF PlaceInv
  <2>2. QED
    BY <1>1, <1>2, <2>1 DEF Past
<1>7. QED
  BY <1>1, <1>2, <1>4, <1>5, <1>6 DEF PlaceInv

\* A process of a stream moves, but not process 0, and within its pass.
LEMMA OtherMoves ==
  ASSUME RunInv, Rounds, NEW k \in Ranks, k # 0, NEW r \in Processes, OneMoves(k, r), base' = base,
         r.epoch = rank[k].epoch, rank[k].pc \in InPass
  PROVE  Rounds'
<1>1. /\ plan' = plan /\ global_step' = global_step /\ rank' = [rank EXCEPT ![k] = r]
  BY DEF OneMoves
<1>2. Pass' = Pass /\ Ranks' = Ranks /\ StreamBatches' = StreamBatches
  BY <1>1, PlacesStay
<1>3. \A j \in Ranks : rank'[j] = IF j = k THEN r ELSE rank[j]
  BY <1>1 DEF RunInv, RunTyped
<1>4. rank'[0] = rank[0]
  BY <1>3, StepsToTake DEF RunInv, RunTyped
<1>5. QED
  BY <1>1, <1>2, <1>3, <1>4 DEF Rounds, Taken

\* A process opens its loader where the steps trained have left its share.
LEMMA OpenPlaces ==
  ASSUME RunInv, PlaceInv, NEW k \in Ranks, Open(k)
  PROVE  PlaceInv'
<1> DEFINE r == rank[k]
           t == Todo(r, k)
           n == [r EXCEPT !.pc = "draw", !.todo = t, !.drawn = 0, !.skip = 0]
<1>1. /\ r.pc = "open" /\ ~Over(r) /\ ~(plan.kind = "stream" /\ k = 0)
      /\ rank' = [rank EXCEPT ![k] = n]
      /\ UNCHANGED <<plan, base, global_step, saved, trained, crashes, resumed>>
  BY DEF Open
<1>2. r \in Processes /\ GoesOn(r) /\ plan \in Plans /\ global_step \in Nat
  BY GoingIs DEF RunInv, RunTyped
<1>p. ~Uneven => Placed(r, k) /\ Rounds
  BY DEF PlaceInv
<1>q. rank[k] = r
  OBVIOUS
<1> HIDE DEF r
<1>3. CASE plan.kind = "stream"
  <2>1. t = <<>>
    BY <1>3 DEF Todo, Mapped
  <2>2. n \in Processes /\ n.pc = "draw" /\ n.todo = <<>> /\ n.epoch = r.epoch
    <3>1. t \in Seq(Seq(Indices))
      BY <2>1
    <3> HIDE DEF t
    <3>2. QED
      BY <1>2, <2>1, <3>1 DEF Processes, States
  <2> HIDE DEF n, t
  <2>3. Placed(n, k)
    BY <1>3, <2>2 DEF Placed, InShare, ToOpen, Current, Mapped
  <2>4. OneMoves(k, n)
    BY <1>1 DEF OneMoves
  <2>5. ~Uneven => Rounds'
    BY <1>1, <1>3, <1>p, <1>q, <2>2, <2>4, OtherMoves DEF InPass
  <2>6. QED
    BY <2>2, <2>3, <2>4, <2>5, OneMovesPlaces
<1>4. CASE plan.kind # "stream"
  <2>1. plan.kind = "megatron" => r.consumed = global_step * Global
    <3>1. global_step + 0 = global_step
      BY <1>2
    <3>2. plan.kind = "megatron" => r.consumed = (global_step + 0) * Global
      BY <1>1, <1>2 DEF GoesOn
    <3>3. QED
      BY <3>1, <3>2
  <2>2. r.skip < EpochSteps
    BY <1>2 DEF GoesOn
  <2>3. /\ t \in Seq(Seq(Indices))
        /\ \E e \in Nat, c \in 0..Pass :
             /\ Mapped => e = r.epoch /\ c = r.skip
             /\ ~Mapped => global_step = e * Pass + c
             /\ ~Uneven => Len(t) = Pass - c
             /\ (~Mapped \/ c = 0 \/ e = 0 \/ ~(plan.shuffle \/ plan.kind = "sequence"))
                  => t = From(Share(k, e), c)
    BY <1>1, <1>2, <1>4, <2>1, <2>2, OpensAt
  <2> HIDE DEF t
  <2>4. n \in Processes /\ n.pc = "draw" /\ n.todo = t /\ n.epoch = r.epoch
    BY <1>2, <2>3 DEF Processes, States
  <2>5. OneMoves(k, n)
    BY <1>1 DEF OneMoves
  <2> HIDE DEF n
  <2>6. PICK e \in Nat, c \in 0..Pass :
             /\ Mapped => e = r.epoch /\ c = r.skip
             /\ ~Mapped => global_step = e * Pass + c
             /\ ~Uneven => Len(t) = Pass - c
             /\ (~Mapped \/ c = 0 \/ e = 0 \/ ~(plan.shuffle \/ plan.kind = "sequence"))
                  => t = From(Share(k, e), c)
    BY <2>3
  <2>7. ASSUME ~Uneven PROVE Placed(n, k) /\ Rounds'
    <3>1. Mapped => global_step = e * Pass + c /\ (c > 0 => e \in resumed)
      BY <1>1, <1>p, <2>6, <2>7 DEF Placed, ToOpen
    <3>2. global_step = e * Pass + c
      BY <2>6, <3>1
    <3>3. Taken(n) = global_step
      BY <1>2, <2>4 DEF Taken
    <3>4. ~Reshuffled(e) => t = From(Share(k, e), c)
      BY <2>6, <3>1 DEF Reshuffled
    <3>5. InShare(n, k)
      BY <1>4, <2>4, <2>6, <2>7, <3>2, <3>3, <3>4 DEF InShare
    <3>6. ToOpen(n) /\ Current(n, k)
      BY <2>4 DEF ToOpen, Current
    <3>7. Rounds'
      BY <1>1, <1>4 DEF Rounds
    <3>8. QED
      BY <3>5, <3>6, <3>7 DEF Placed
  <2>8. QED
    BY <2>4, <2>5, <2>7, OneMovesPlaces
<1>5. QED
  BY <1>3, <1>4

\* Process 0 skips the rounds that have been scattered.
LEMMA OpenStreamPlaces ==
  ASSUME RunInv, PlaceInv, OpenStream
  PROVE  PlaceInv'
<1> DEFINE r == rank[0]
           s == StreamBatches
           x == r.skip * plan.world
           p == IF x > Len(s) THEN "error" ELSE "draw"
           n == [r EXCEPT !.pc = p, !.drawn = 0, !.skip = 0]
<1>1. /\ plan.kind = "stream" /\ r.pc = "open"
      /\ base' = IF x > Len(s) THEN <<>> ELSE From(s, x)
      /\ rank' = [rank EXCEPT ![0] = n]
      /\ UNCHANGED <<plan, global_step, saved, trained, crashes, resumed>>
  BY DEF OpenStream
<1>2. plan \in Plans /\ 0 \in Ranks /\ r \in Processes /\ global_step \in Nat
  BY StepsToTake DEF RunInv, RunTyped
<1>3. ~Uneven => Placed(r, 0) /\ Rounds
  BY <1>2 DEF PlaceInv
<1>4. p \in States /\ p \in {"error", "draw"}
  BY DEF States
<1> HIDE DEF p
<1>5. n \in Processes /\ n.pc = p /\ n.todo = r.todo /\ n.epoch = r.epoch /\ n.skip = 0
  BY <1>2, <1>4 DEF Processes
<1>6. OneMoves(0, n)
  BY <1>1 DEF OneMoves
<1>7. ASSUME ~Uneven PROVE Placed(n, 0) /\ Rounds'
  <2> HIDE DEF n
  <2>1. Placed(n, 0)
    BY <1>1, <1>3, <1>4, <1>5, <1>7 DEF Placed, InShare, ToOpen, Current, Mapped
  <2>2. \A j \in Ranks : rank'[j] = IF j = 0 THEN n ELSE rank[j]
    BY <1>1 DEF RunInv, RunTyped
  <2>3. rank'[0] = n
    BY <1>2, <2>2
  <2>4. Pass' = Pass /\ Ranks' = Ranks /\ StreamBatches' = s
    BY <1>1, PlacesStay
  <2>5. CASE p = "error"
    BY <1>5, <2>1, <2>3, <2>5 DEF Rounds, InPass
  <2>6. CASE p = "draw"
    <3> DEFINE c == r.skip
    <3>1. ~(x > Len(s)) /\ base' = From(s, c * plan.world)
      BY <1>1, <2>6 DEF p
    <3>2. global_step = r.epoch * Pass + c
      BY <1>1, <1>3, <1>7 DEF Rounds
    <3>3. c \in 0..Pass
      <4> DEFINE w == plan.world
                 y == w * c
                 z == w * Pass
      <4>1. w \in Nat \ {0} /\ c \in Nat /\ Pass \in Nat /\ Len(s) \in Nat /\ Len(s) < z + w /\ Pass = PassSteps
        BY <1>1, <1>2, PlanOptions, StreamIs DEF Pass, Processes
      <4>2. x = y /\ y \in Nat /\ z \in Nat
        BY <4>1
      <4>3. y < z + w
        BY <3>1, <4>1, <4>2
      <4>4. SUFFICES ASSUME c >= Pass + 1 PROVE FALSE
        BY <4>1
      <4>5. w * (Pass + 1) <= w * c /\ w * (Pass + 1) = z + w
        BY <4>1, <4>4
      <4> HIDE DEF x, y, z
      <4>6. z + w <= y
        BY <4>5 DEF y, z
      <4>7. QED
        BY <4>1, <4>2, <4>3, <4>6
    <3>4. Taken(n) = global_step
      BY <1>2, <1>5, <2>6 DEF Taken
    <3>5. \A j \in Ranks : rank'[0].pc \in InPass /\ rank'[j].pc \in InPass => rank'[j].epoch = rank'[0].epoch
      <4>1. \A j \in Ranks : rank[j].pc \in InPass => rank[j].epoch = r.epoch
        BY <1>1, <1>3, <1>7 DEF Rounds, InPass
      <4>2. QED
        BY <1>5, <2>2, <2>3, <4>1
    <3> HIDE DEF c, s
    <3>6. \E d \in 0..Pass' : /\ Taken(rank[0])' = rank'[0].epoch * Pass' + d
                              /\ base' = From(StreamBatches', d * plan'.world)
      <4>1. Taken(rank[0])' = Taken(n)
        BY <1>1, <2>3 DEF Taken
      <4>2. QED
        BY <1>1, <1>5, <2>3, <2>4, <3>1, <3>2, <3>3, <3>4, <4>1
    <3>7. rank'[0].pc # "open"
      BY <1>5, <2>3, <2>6
    <3>8. QED
      BY <2>1, <2>4, <3>5, <3>6, <3>7 DEF Rounds, From
  <2>7. QED
    BY <1>4, <2>1, <2>5, <2>6
<1>8. QED
  BY <1>2, <1>5, <1>6, <1>7, OneMovesPlaces

\* A process that stops holds nothing.
LEMMA StopPlaces ==
  ASSUME RunInv, PlaceInv, NEW k \in Ranks, Stop(k)
  PROVE  PlaceInv'
<1> DEFINE r == rank[k]
           n == [r EXCEPT !.pc = "stopped"]
<1>1. /\ r.pc = "open" /\ rank' = [rank EXCEPT ![k].pc = "stopped"]
      /\ UNCHANGED <<plan, base, global_step, saved, trained, crashes, resumed>>
  BY DEF Stop
<1>2. r \in Processes /\ plan \in Plans
  BY DEF RunInv, RunTyped
<1>3. n \in Processes /\ n.pc = "stopped" /\ n.todo = r.todo /\ n.epoch = r.epoch
  BY <1>2 DEF Processes, States
<1>4. OneMoves(k, n)
  BY <1>1 DEF OneMoves
<1> HIDE DEF n
<1>5. ASSUME ~Uneven PROVE Placed(n, k) /\ Rounds'
  <2>1. Placed(r, k) /\ Rounds
    BY <1>5 DEF PlaceInv
  <2>2. Placed(n, k)
    BY <1>3, <2>1 DEF Placed, InShare, ToOpen, Current
  <2>3. CASE k = 0
    <3>1. rank'[0].pc = "stopped"
      BY <1>1, <1>2, <2>3 DEF RunInv, RunTyped
    <3>2. Rounds'
      BY <3>1 DEF Rounds, InPass
    <3>3. QED
      BY <2>2, <3>2
  <2>4. CASE k # 0
    <3>1. rank[k].pc \in InPass /\ n.epoch = rank[k].epoch
      BY <1>1, <1>3 DEF InPass
    <3>2. Rounds'
      BY <1>1, <1>3, <1>4, <2>1, <2>4, <3>1, OtherMoves
    <3>3. QED
      BY <2>2, <3>2
  <2>5. QED
    BY <2>3, <2>4
<1>6. QED
  BY <1>3, <1>4, <1>5, OneMovesPlaces

\* The batch drawn is the next one of the share.
LEMMA DrawPlaces ==
  ASSUME RunInv, PlaceInv, NEW k \in Ranks, Draw(k)
  PROVE  PlaceInv'
<1> DEFINE r == rank[k]
           h == Head(r.todo)
           t == Tail(r.todo)
           v == r.consumed + Global
           d == r.drawn + 1
           n == [[r EXCEPT !.pc = "hold", !.batch = h, !.drawn = d] EXCEPT !.todo = t, !.consumed = v]
<1>1. /\ r.pc = "draw" /\ r.todo # <<>>
      /\ rank' = [rank EXCEPT ![k] = n]
      /\ UNCHANGED <<plan, base, global_step, saved, trained, crashes, resumed>>
  BY DEF Draw, Holding
<1>2. r \in Processes /\ plan \in Plans /\ global_step \in Nat
  BY DEF RunInv, RunTyped
<1>p. ~Uneven => Placed(r, k)
  BY DEF PlaceInv
<1> HIDE DEF r
<1>3. r.todo \in Seq(Seq(Indices)) /\ r.consumed \in Nat /\ r.drawn \in Nat
  BY <1>2 DEF Processes
<1>4. h \in Seq(Indices) /\ t \in Seq(Seq(Indices)) /\ d \in Nat /\ Len(t) = Len(r.todo) - 1
      /\ h = r.todo[1] /\ \A i \in 1..Len(t) : t[i] = r.todo[i + 1]
  BY <1>1, <1>3, HeadTailProperties
<1>5. v \in Nat
  BY <1>2, <1>3, StepsToTake
<1> HIDE DEF h, t, v, d
<1>6. n \in Processes /\ n.pc = "hold" /\ n.todo = t /\ n.batch = h /\ n.epoch = r.epoch
  BY <1>2, <1>4, <1>5 DEF Processes, States
<1>7. OneMoves(k, n)
  BY <1>1 DEF OneMoves
<1> HIDE DEF n
<1>8. ASSUME ~Uneven PROVE Placed(n, k) /\ Rounds'
  <2>1. plan.kind # "stream" /\ InShare(r, k)
    BY <1>1, <1>8, <1>p DEF Placed, InShare
  <2>2. PICK e \in Nat, c \in 0..Pass :
           /\ Taken(r) = e * Pass + c
           /\ Mapped => e = r.epoch
           /\ Len(r.todo) = Pass - c
           /\ ~Reshuffled(e) => r.todo = From(Share(k, e), c)
    BY <1>1, <2>1 DEF InShare
  <2>3. Pass \in Nat /\ Len(r.todo) \in Nat \ {0}
    BY <1>1, <1>2, <1>3, PassIs
  <2>4. c \in 0..(Pass - 1) /\ c + 1 \in 0..Pass /\ Len(t) = Pass - (c + 1)
    BY <1>4, <2>2, <2>3
  <2>5. Taken(r) = global_step /\ Taken(n) = global_step + 1
    BY <1>1, <1>2, <1>6 DEF Taken
  <2>6. global_step = e * Pass + c /\ Taken(n) = e * Pass + (c + 1)
    <3>1. e * Pass \in Nat
      BY <2>3
    <3>2. QED
      BY <2>2, <2>4, <2>5, <3>1
  <2>7. ~Reshuffled(e) => h = Share(k, e)[c + 1] /\ t = From(Share(k, e), c + 1)
    <3> DEFINE s == Share(k, e)
    <3> SUFFICES ASSUME ~Reshuffled(e) PROVE h = s[c + 1] /\ t = From(s, c + 1)
      OBVIOUS
    <3>1. r.todo = From(s, c)
      BY <2>2
    <3>2. s \in Seq(Seq(Indices)) /\ Len(s) = Pass
      <4>1. e \in 0..plan.epochs
        <5> DEFINE m == plan.epochs
        <5>1. global_step < m * Pass /\ m \in Nat
          BY <1>1, <1>2, <2>1, StepsToTake, PlanOptions, PassIs DEF RunInv, Going, r
        <5> HIDE DEF m
        <5>2. SUFFICES ASSUME m <= e PROVE FALSE
          BY <5>1 DEF m
        <5>3. m * Pass <= e * Pass /\ m * Pass \in Nat /\ e * Pass \in Nat
          BY <2>3, <5>1, <5>2, ProductGrows
        <5>4. QED
          BY <1>2, <2>4, <2>6, <5>1, <5>3
      <4>2. CASE Mapped
        BY <1>2, <2>1, <4>1, <4>2, BatchesAre, PassIs
      <4>3. CASE plan.kind = "megatron"
        BY <1>2, <1>8, <2>1, <4>1, <4>3, MegatronShare, PassIs
      <4>4. QED
        BY <1>2, <2>1, <4>2, <4>3, PlanOptions DEF Mapped
    <3> HIDE DEF s
    <3>3. \A i \in 1..(Pass - c) : r.todo[i] = s[c + i]
      BY <2>3, <2>4, <3>1, <3>2, FromIs
    <3>4. h = s[c + 1]
      <4>1. 1 \in 1..(Pass - c)
        BY <2>3, <2>4
      <4>2. r.todo[1] = s[c + 1]
        BY <3>3, <4>1
      <4>3. QED
        BY <1>4, <4>2
    <3> DEFINE f == From(s, c + 1)
    <3>5. f \in Seq(Seq(Indices)) /\ Len(f) = Pass - (c + 1) /\ \A i \in 1..(Pass - (c + 1)) : f[i] = s[c + 1 + i]
      BY <2>4, <3>2, FromIs
    <3> HIDE DEF f
    <3>6. ASSUME NEW i \in 1..(Pass - (c + 1)) PROVE t[i] = f[i]
      <4>1. i + 1 \in 1..(Pass - c) /\ c + (i + 1) = c + 1 + i /\ i \in 1..Len(t)
        BY <2>3, <2>4
      <4>2. t[i] = r.todo[i + 1] /\ r.todo[i + 1] = s[c + (i + 1)]
        BY <1>4, <3>3, <4>1
      <4>3. QED
        BY <3>5, <4>1, <4>2
    <3>7. t = f
      BY <1>4, <2>4, <3>5, <3>6
    <3>8. QED
      BY <3>4, <3>7 DEF f
  <2>8. InShare(n, k)
    BY <1>6, <2>1, <2>2, <2>4, <2>6, <2>7 DEF InShare
  <2>9. Current(n, k)
    <3>1. plan.kind # "megatron" => n.epoch = e
      BY <1>2, <1>6, <2>1, <2>2, PlanOptions DEF Mapped
    <3>2. ~Reshuffled(e) => n.batch = Share(k, e)[c + 1]
      BY <1>6, <2>7
    <3>3. QED
      BY <2>4, <2>6, <3>1, <3>2 DEF Current
  <2>10. ToOpen(n)
    BY <1>6 DEF ToOpen
  <2>11. Rounds'
    BY <1>1, <2>1 DEF Rounds
  <2>12. QED
    BY <2>8, <2>9, <2>10, <2>11 DEF Placed
<1>9. QED
  BY <1>6, <1>7, <1>8, OneMovesPlaces

\* At the end of a share the next epoch begins.
LEMMA EndPassPlaces ==
  ASSUME RunInv, PlaceInv, NEW k \in Ranks, EndPass(k)
  PROVE  PlaceInv'
<1> DEFINE r == rank[k]
           n == Exhausted(r)
<1>1. /\ plan.kind # "stream" /\ r.pc = "draw" /\ r.todo = <<>> /\ rank' = [rank EXCEPT ![k] = n]
      /\ UNCHANGED <<plan, base, global_step, saved, trained, crashes, resumed>>
  BY DEF EndPass
<1>2. r \in Processes /\ GoesOn(r) /\ plan \in Plans /\ global_step \in Nat
  BY GoingIs DEF RunInv, RunTyped
<1>p. ~Uneven => Placed(r, k)
  BY DEF PlaceInv
<1> HIDE DEF r
<1>3. n \in Processes
  BY <1>1, <1>2, ExhaustedIs
<1>4. OneMoves(k, n)
  BY <1>1 DEF OneMoves
<1>5. /\ n.pc \in {"open", "stopped"} /\ n.skip = 0
      /\ n.pc = "open" /\ plan.kind # "megatron" => n.epoch = r.epoch + 1
  <2> DEFINE d == r.epoch + 1
  <2>1. n = IF plan.kind = "megatron" THEN [r EXCEPT !.pc = "open"]
            ELSE IF r.drawn = 0 THEN [r EXCEPT !.pc = "stopped"]
            ELSE [r EXCEPT !.pc = "open", !.epoch = d]
    BY DEF Exhausted
  <2>2. r.skip = 0
    BY <1>1, <1>2 DEF GoesOn
  <2> HIDE DEF n, d
  <2>3. /\ n.pc \in {"open", "stopped"} /\ n.skip = 0
        /\ n.pc = "open" /\ plan.kind # "megatron" => n.epoch = d
    BY <1>2, <2>1, <2>2 DEF Processes
  <2>4. QED
    BY <2>3 DEF d
<1> HIDE DEF n
<1>6. ASSUME ~Uneven PROVE Placed(n, k) /\ Rounds'
  <2>1. PICK e \in Nat, c \in 0..Pass :
           /\ Taken(r) = e * Pass + c
           /\ Mapped => e = r.epoch
           /\ Len(r.todo) = Pass - c
    BY <1>1, <1>6, <1>p DEF Placed, InShare
  <2>2. Pass \in Nat /\ Len(r.todo) = 0
    BY <1>1, <1>2, PassIs
  <2>3. c = Pass
    BY <2>1, <2>2
  <2>4. Taken(r) = global_step
    BY <1>1, <1>2 DEF Taken
  <2>5. global_step = (e + 1) * Pass + 0
    BY <2>1, <2>2, <2>3, <2>4
  <2>6. ToOpen(n)
    BY <1>5, <2>1, <2>5 DEF ToOpen, Mapped
  <2>7. InShare(n, k) /\ Current(n, k)
    BY <1>1, <1>5 DEF InShare, Current
  <2>8. Rounds'
    BY <1>1 DEF Rounds
  <2>9. QED
    BY <2>6, <2>7, <2>8 DEF Placed
<1>7. QED
  BY <1>3, <1>4, <1>6, OneMovesPlaces

\* Following on twice.
LEMMA FromFrom ==
  ASSUME NEW T, NEW s \in Seq(T), NEW a \in Nat, NEW b \in Nat, a + b <= Len(s)
  PROVE  /\ From(From(s, a), b) = From(s, a + b)
         /\ Len(From(s, a)) = Len(s) - a /\ \A i \in 1..b : From(s, a)[i] = s[a + i]
<1> DEFINE f == From(s, a)
           g == From(f, b)
           h == From(s, a + b)
<1>1. f \in Seq(T) /\ Len(f) = Len(s) - a /\ \A i \in 1..(Len(s) - a) : f[i] = s[a + i]
  <2>1. a \in 0..Len(s)
    OBVIOUS
  <2>2. QED
    BY <2>1, FromIs
<1>2. h \in Seq(T) /\ Len(h) = Len(s) - (a + b) /\ \A i \in 1..(Len(s) - (a + b)) : h[i] = s[(a + b) + i]
  <2>1. a + b \in 0..Len(s)
    OBVIOUS
  <2> DEFINE c == a + b
  <2> HIDE DEF c
  <2>2. From(s, c) \in Seq(T) /\ Len(From(s, c)) = Len(s) - c /\ \A i \in 1..(Len(s) - c) : From(s, c)[i] = s[c + i]
    BY <2>1, FromIs DEF c
  <2>3. QED
    BY <2>2 DEF c
<1> HIDE DEF f, h
<1>3. g \in Seq(T) /\ Len(g) = Len(f) - b /\ \A i \in 1..(Len(f) - b) : g[i] = f[b + i]
  <2>1. b \in 0..Len(f)
    BY <1>1
  <2>2. QED
    BY <1>1, <2>1, FromIs
<1> HIDE DEF g
<1>4. Len(g) = Len(h)
  BY <1>1, <1>2, <1>3
<1>5. ASSUME NEW i \in 1..Len(g) PROVE g[i] = h[i]
  <2>1. b + i \in 1..(Len(s) - a) /\ i \in 1..(Len(f) - b) /\ i \in 1..(Len(s) - (a + b)) /\ a + (b + i) = (a + b) + i
    BY <1>1, <1>3
  <2>2. g[i] = f[b + i] /\ f[b + i] = s[a + (b + i)]
    BY <1>1, <1>3, <2>1
  <2>3. QED
    BY <1>2, <2>1, <2>2
<1>6. g = h
  <2>1. g \in Seq(T) /\ h \in Seq(T)
    BY <1>2, <1>3
  <2>2. QED
    BY <1>4, <1>5, <2>1
<1>7. \A i \in 1..b : f[i] = s[a + i]
  BY <1>1
<1>8. QED
  BY <1>1, <1>6, <1>7 DEF f, g, h

\* A round scattered, or the pass over.
LEMMA RoundOf ==
  ASSUME plan \in Plans, NEW c \in 0..PassSteps
  PROVE  LET f == From(StreamBatches, c * plan.world) IN
         /\ Len(f) \in Nat
         /\ Len(f) >= plan.world =>
              /\ c + 1 <= PassSteps
              /\ From(f, plan.world) = From(StreamBatches, (c + 1) * plan.world)
              /\ \A k \in Ranks : f[k + 1] = StreamBatches[c * plan.world + k + 1]
         /\ Len(f) < plan.world => c = PassSteps
<1> DEFINE s == StreamBatches
           w == plan.world
           p == PassSteps
           x == c * w
           y == w * p
           f == From(s, x)
<1>1. /\ w \in Nat \ {0} /\ p \in Nat /\ s \in Seq(Seq(Indices)) /\ Len(s) \in Nat
      /\ y <= Len(s) /\ Len(s) < y + w /\ y \in Nat /\ x \in Nat /\ c \in Nat /\ c <= p
  BY PlanOptions, StreamIs
<1>2. x <= y
  <2>1. c * w <= p * w /\ p * w = w * p
    BY <1>1, ProductGrows
  <2>2. QED
    BY <2>1
<1>r. Ranks = 0..(w - 1)
  BY DEF Ranks
<1>3. c = p => x = y
  BY <1>1
<1>4. c < p => x + w <= y
  <2>1. SUFFICES ASSUME c < p PROVE x + w <= y
    OBVIOUS
  <2>2. c + 1 \in Nat /\ c + 1 <= p /\ p \in Nat /\ w \in Nat /\ c \in Nat
    BY <1>1, <2>1
  <2>3. (c + 1) * w <= p * w
    BY <2>2, ProductGrows
  <2>4. p * w = w * p /\ (c + 1) * w = c * w + w
    BY <2>2
  <2>5. QED
    BY <2>3, <2>4
<1>5. (c + 1) * w = x + w
  <2>1. c \in Nat /\ w \in Nat
    BY <1>1
  <2> HIDE DEF w
  <2>2. (c + 1) * w = c * w + w
    BY <2>1
  <2>3. QED
    BY <2>2
<1>w. plan.world = w
  OBVIOUS
<1> HIDE DEF s, w, p, x, y
<1>6. f \in Seq(Seq(Indices)) /\ Len(f) = Len(s) - x
  <2>1. x \in 0..Len(s)
    BY <1>1, <1>2
  <2>2. QED
    BY <1>1, <2>1, FromIs
<1>7. ASSUME Len(f) >= w
      PROVE  c + 1 <= p /\ From(f, w) = From(s, x + w) /\ \A k \in Ranks : f[k + 1] = s[x + k + 1]
  <2>1. x + w <= Len(s)
    BY <1>1, <1>6, <1>7
  <2>2. From(f, w) = From(s, x + w) /\ \A i \in 1..w : f[i] = s[x + i]
    BY <1>1, <2>1, FromFrom
  <2>3. c # p
    BY <1>1, <1>3, <2>1
  <2>4. \A k \in Ranks : k + 1 \in 1..w /\ x + (k + 1) = x + k + 1
    BY <1>1, <1>r
  <2>5. \A k \in Ranks : f[k + 1] = s[x + k + 1]
    BY <2>2, <2>4
  <2>6. QED
    BY <1>1, <2>2, <2>3, <2>5
<1>8. ASSUME Len(f) < w PROVE c = p
  BY <1>1, <1>4, <1>6, <1>8
<1>9. Len(f) \in Nat
  BY <1>6
<1> HIDE DEF f
<1>10. QED
  BY <1>5, <1>7, <1>8, <1>9 DEF f, s, w, p, x

\* A round that is scattered is the next one of the stream.
LEMMA ScatterPlaces ==
  ASSUME RunInv, PlaceInv, Scatter
  PROVE  PlaceInv'
<1> DEFINE s == StreamBatches
           w == plan.world
           e == rank[0].epoch
<1>1. /\ plan.kind = "stream" /\ \A k \in Ranks : rank[k].pc = "draw"
      /\ plan' = plan /\ global_step' = global_step /\ trained' = trained /\ resumed' = resumed
  BY DEF Scatter
<1>2. /\ plan \in Plans /\ 0 \in Ranks /\ global_step \in Nat
      /\ \A j \in Ranks : rank[j] \in Processes /\ GoesOn(rank[j])
  BY StepsToTake, GoingIs DEF RunInv, RunTyped
<1>3. /\ Pass' = Pass /\ Ranks' = Ranks /\ Mapped' = Mapped /\ Uneven' = Uneven /\ StreamBatches' = s
      /\ \A j, x : Share(j, x)' = Share(j, x)
      /\ \A x : Reshuffled(x)' = Reshuffled(x)
  BY <1>1, PlacesStay
<1>4. SUFFICES ASSUME ~Uneven
               PROVE  Rounds' /\ \A j \in Ranks : Placed(rank[j], j)'
  <2>1. ~Uneven => \A i \in DOMAIN trained, j \in Ranks : Past(i, j)'
    BY <1>1, <1>3 DEF PlaceInv, Past
  <2>2. QED
    BY <1>1, <1>3, <1>4, <2>1 DEF PlaceInv
<1>5. Rounds /\ \A j \in Ranks : Placed(rank[j], j)
  BY <1>4 DEF PlaceInv
<1>6. Pass = PassSteps /\ Pass \in Nat /\ e \in Nat
  BY <1>1, <1>2, PassIs DEF Pass, Processes
<1>7. PICK c \in 0..Pass : Taken(rank[0]) = e * Pass + c /\ base = From(s, c * w)
  BY <1>1, <1>2, <1>5 DEF Rounds
<1>8. global_step = e * Pass + c
  BY <1>1, <1>2, <1>7 DEF Taken
<1>9. \A j \in Ranks : rank[j].epoch = e /\ rank[j].todo = <<>> /\ rank[j].skip = 0
  BY <1>1, <1>2, <1>5 DEF Rounds, InPass, Placed, InShare, GoesOn
<1>10. /\ Len(base) \in Nat
       /\ Len(base) >= w => /\ c + 1 <= Pass /\ From(base, w) = From(s, (c + 1) * w)
                            /\ \A k \in Ranks : base[k + 1] = s[c * w + k + 1]
       /\ Len(base) < w => c = Pass
  BY <1>2, <1>6, <1>7, RoundOf
<1> HIDE DEF s, w, e
<1>11. CASE Len(base) >= w
  <2>1. rank' = [j \in Ranks |-> Holding(rank[j], base[j + 1])] /\ base' = From(base, w)
    BY <1>11 DEF Scatter, w
  <2>2. ASSUME NEW j \in Ranks
        PROVE  rank'[j].pc = "hold" /\ rank'[j].epoch = e /\ rank'[j].todo = <<>> /\ rank'[j].batch = s[c * w + j + 1]
    <3> DEFINE r == rank[j]
               b == base[j + 1]
               d == r.drawn + 1
    <3>1. rank'[j] = [r EXCEPT !.pc = "hold", !.batch = b, !.drawn = d]
      BY <2>1 DEF Holding
    <3>2. r \in Processes /\ r.epoch = e /\ r.todo = <<>>
      BY <1>2, <1>9
    <3>3. b = s[c * w + j + 1]
      BY <1>10, <1>11
    <3> HIDE DEF r, b, d
    <3>4. rank'[j].pc = "hold" /\ rank'[j].epoch = r.epoch /\ rank'[j].todo = r.todo /\ rank'[j].batch = b
      BY <3>1, <3>2 DEF Processes
    <3>5. QED
      BY <3>2, <3>3, <3>4
  <2>3. c + 1 \in 0..Pass /\ c \in 0..(Pass - 1) /\ base' = From(s, (c + 1) * w)
    BY <1>6, <1>10, <1>11, <2>1
  <2>4. global_step + 1 = e * Pass + (c + 1)
    <3>1. e * Pass \in Nat
      BY <1>6
    <3>2. QED
      BY <1>6, <1>8, <3>1
  <2>5. Rounds'
    <3>1. Taken(rank[0])' = global_step + 1
      BY <1>1, <1>2, <2>2 DEF Taken
    <3>2. rank'[0].pc = "hold" /\ rank'[0].epoch = e
      BY <1>2, <2>2
    <3>3. \E d \in 0..Pass : /\ Taken(rank[0])' = e * Pass + d
                             /\ base' = From(s, d * w)
      BY <2>3, <2>4, <3>1
    <3>4. plan'.world = w
      BY <1>1 DEF w
    <3>5. QED
      BY <1>3, <2>2, <3>2, <3>3, <3>4 DEF Rounds, From
  <2>6. ASSUME NEW j \in Ranks PROVE Placed(rank[j], j)'
    <3>1. Share(j, e)[c + 1] = s[c * w + j + 1]
      <4>1. c + 1 \in 1..PassSteps /\ (c + 1) - 1 = c
        BY <1>6, <2>3
      <4>2. Share(j, e)[c + 1] = StreamBatches[((c + 1) - 1) * plan.world + j + 1]
        BY <1>1, <1>2, <4>1, StreamShare
      <4>3. QED
        BY <4>1, <4>2 DEF s, w
    <3>2. Current(rank[j], j)'
      <4>1. global_step' = e * Pass' + c /\ rank'[j].epoch = e
        BY <1>1, <1>3, <1>8, <2>2
      <4>2. c \in 0..(Pass' - 1) /\ e \in Nat
        BY <1>3, <1>6, <2>3
      <4>3. \E a \in Nat, d \in 0..(Pass' - 1) :
              /\ global_step' = a * Pass' + d
              /\ rank'[j].epoch = a
              /\ rank'[j].batch = Share(j, a)'[d + 1]
        <5>1. rank'[j].batch = Share(j, e)[c + 1]
          BY <2>2, <3>1
        <5>2. \E a \in Nat, d \in 0..(Pass' - 1) :
              /\ global_step' = a * Pass' + d
              /\ rank'[j].epoch = a
              /\ rank'[j].batch = Share(j, a)[d + 1]
          BY <4>1, <4>2, <5>1
        <5>3. QED
          BY <1>3, <5>2
      <4>4. QED
        BY <1>3, <4>3 DEF Current
    <3>3. InShare(rank[j], j)' /\ ToOpen(rank[j])'
      BY <1>1, <2>2 DEF InShare, ToOpen
    <3>4. QED
      BY <3>2, <3>3 DEF Placed
  <2>7. QED
    BY <2>5, <2>6
<1>12. CASE ~(Len(base) >= w)
  <2>1. rank' = [j \in Ranks |-> Exhausted(rank[j])]
    BY <1>12 DEF Scatter, w
  <2>2. ASSUME NEW j \in Ranks
        PROVE  /\ rank'[j].pc \in {"open", "stopped"} /\ rank'[j].todo = <<>> /\ rank'[j].skip = 0
               /\ rank'[j].pc = "open" => rank'[j].epoch = e + 1
    <3> DEFINE r == rank[j]
               d == r.epoch + 1
    <3>1. rank'[j] = IF r.drawn = 0 THEN [r EXCEPT !.pc = "stopped"]
                     ELSE [r EXCEPT !.pc = "open", !.epoch = d]
      BY <1>1, <2>1 DEF Exhausted
    <3>2. r \in Processes /\ d = e + 1 /\ r.todo = <<>> /\ r.skip = 0
      BY <1>2, <1>9
    <3> HIDE DEF r, d
    <3>3. /\ rank'[j].pc \in {"open", "stopped"} /\ rank'[j].todo = r.todo /\ rank'[j].skip = r.skip
          /\ rank'[j].pc = "open" => rank'[j].epoch = d
      BY <3>1, <3>2 DEF Processes
    <3>4. QED
      BY <3>2, <3>3
  <2>3. global_step = (e + 1) * Pass + 0
    <3>1. c = Pass
      BY <1>1, <1>2, <1>10, <1>12, PlanOptions DEF w
    <3>2. QED
      BY <1>6, <1>8, <3>1
  <2>4. Rounds'
    <3>1. rank'[0].pc = "open" => global_step' = rank'[0].epoch * Pass' + rank'[0].skip
      BY <1>1, <1>2, <1>3, <2>2, <2>3
    <3>2. \A j \in Ranks : rank'[0].pc \in InPass /\ rank'[j].pc \in InPass => rank'[j].epoch = rank'[0].epoch
      BY <1>2, <2>2 DEF InPass
    <3>3. rank'[0].pc \notin {"draw", "hold"}
      BY <1>2, <2>2
    <3>4. QED
      BY <1>3, <3>1, <3>2, <3>3 DEF Rounds, InPass
  <2>5. ASSUME NEW j \in Ranks PROVE Placed(rank[j], j)'
    BY <1>1, <1>3, <2>2 DEF Placed, InShare, ToOpen, Current, Mapped
  <2>6. QED
    BY <2>4, <2>5
<1>13. QED
  BY <1>11, <1>12

\* What is trained on is what was drawn.
LEMMA TrainPlaces ==
  ASSUME RunInv, PlaceInv, Train
  PROVE  PlaceInv'
<1> DEFINE g == global_step + 1
           step == [k \in Ranks |-> [epoch |-> rank[k].epoch, batch |-> rank[k].batch]]
           p == IF g >= MaxSteps THEN "stopped" ELSE "draw"
<1>1. /\ \A k \in Ranks : rank[k].pc = "hold"
      /\ global_step' = g /\ trained' = Append(trained, step)
      /\ rank' = [k \in Ranks |-> [rank[k] EXCEPT !.batch = <<>>, !.pc = p]]
      /\ plan' = plan /\ base' = base /\ resumed' = resumed
  BY DEF Train
<1>2. /\ plan \in Plans /\ 0 \in Ranks /\ global_step \in Nat
      /\ trained \in Seq([Ranks -> Steps]) /\ Len(trained) = global_step
      /\ \A j \in Ranks : rank[j] \in Processes
  BY StepsToTake DEF RunInv, RunTyped
<1>3. /\ Pass' = Pass /\ Ranks' = Ranks /\ Mapped' = Mapped /\ Uneven' = Uneven
      /\ StreamBatches' = StreamBatches
      /\ \A j, x : Share(j, x)' = Share(j, x)
      /\ \A x : Reshuffled(x)' = Reshuffled(x)
  BY <1>1, PlacesStay
<1>4. SUFFICES ASSUME ~Uneven PROVE PlaceInv'
  BY <1>3 DEF PlaceInv
<1>5. /\ Rounds /\ \A j \in Ranks : Placed(rank[j], j)
      /\ \A i \in DOMAIN trained, j \in Ranks : Past(i, j)
  BY <1>4 DEF PlaceInv
<1>6. p \in {"stopped", "draw"}
  OBVIOUS
<1> HIDE DEF p
<1>7. ASSUME NEW j \in Ranks
      PROVE  /\ rank'[j].pc = p /\ rank'[j].todo = rank[j].todo
             /\ rank'[j].epoch = rank[j].epoch
             /\ step[j].epoch = rank[j].epoch /\ step[j].batch = rank[j].batch
  <2> DEFINE r == rank[j]
  <2>1. rank'[j] = [r EXCEPT !.batch = <<>>, !.pc = p]
    BY <1>1
  <2>2. r \in Processes
    BY <1>2
  <2>3. step[j] = [epoch |-> r.epoch, batch |-> r.batch]
    OBVIOUS
  <2> HIDE DEF r, step
  <2>4. rank'[j].pc = p /\ rank'[j].todo = r.todo /\ rank'[j].epoch = r.epoch
    BY <2>1, <2>2 DEF Processes
  <2>5. QED
    BY <2>3, <2>4 DEF r
<1>8. ASSUME NEW j \in Ranks
      PROVE  /\ Taken(rank[j]) = g
             /\ p = "draw" => Taken(rank[j])' = g
  <2>1. global_step' = g /\ g + 0 = g
    <3>1. global_step \in Nat
      BY <1>2
    <3>2. g + 0 = g
      BY <3>1
    <3>3. global_step' = g
      BY <1>1
    <3>4. QED
      BY <3>2, <3>3
  <2>2. Taken(rank[j]) = g
    BY <1>1 DEF Taken
  <2> HIDE DEF g
  <2>3. p = "draw" => Taken(rank[j])' = g + 0
    BY <1>7, <2>1 DEF Taken
  <2>4. QED
    BY <2>1, <2>2, <2>3
<1>s. step \in [Ranks -> Steps]
  BY <1>2 DEF Steps, Processes
<1> HIDE DEF step
<1>9. Rounds'
  <2>1. rank'[0].pc = p /\ rank'[0].epoch = rank[0].epoch
    BY <1>2, <1>7
  <2>2. \A j \in Ranks : rank'[0].pc \in InPass /\ rank'[j].pc \in InPass =>
          (plan.kind = "stream" => rank'[j].epoch = rank'[0].epoch)
    BY <1>1, <1>2, <1>5, <1>7 DEF Rounds, InPass
  <2>3. plan.kind = "stream" => \E c \in 0..Pass : g = rank[0].epoch * Pass + c /\ base = From(StreamBatches, c * plan.world)
    BY <1>1, <1>2, <1>5, <1>8 DEF Rounds
  <2>4. p = "draw" /\ plan.kind = "stream" =>
          \E c \in 0..Pass : Taken(rank[0])' = rank'[0].epoch * Pass + c /\ base' = From(StreamBatches, c * plan.world)
    BY <1>1, <1>2, <1>8, <2>1, <2>3
  <2>5. QED
    BY <1>1, <1>3, <1>6, <2>1, <2>2, <2>4 DEF Rounds, From
<1>10. ASSUME NEW j \in Ranks PROVE Placed(rank[j], j)'
  <2>1. ToOpen(rank[j])' /\ Current(rank[j], j)'
    BY <1>6, <1>7 DEF ToOpen, Current
  <2>2. InShare(rank[j], j)'
    <3>1. InShare(rank[j], j)
      BY <1>5 DEF Placed
    <3>2. CASE plan.kind = "stream"
      BY <1>1, <1>7, <3>1, <3>2 DEF InShare
    <3>3. CASE plan.kind # "stream" /\ p = "draw"
      <4>1. PICK e \in Nat, c \in 0..Pass :
              /\ Taken(rank[j]) = e * Pass + c
              /\ Mapped => e = rank[j].epoch
              /\ Len(rank[j].todo) = Pass - c
              /\ ~Reshuffled(e) => rank[j].todo = From(Share(j, e), c)
        BY <1>1, <3>1, <3>3 DEF InShare
      <4>2. /\ Taken(rank[j])' = e * Pass + c
            /\ Mapped => e = rank'[j].epoch
            /\ Len(rank'[j].todo) = Pass - c
            /\ ~Reshuffled(e) => rank'[j].todo = From(Share(j, e), c)
        BY <1>7, <1>8, <3>3, <4>1
      <4>3. QED
        BY <1>1, <1>3, <3>3, <4>2 DEF InShare, From
    <3>4. CASE plan.kind # "stream" /\ p = "stopped"
      BY <1>1, <1>7, <3>4 DEF InShare
    <3>5. QED
      BY <1>6, <3>2, <3>3, <3>4
  <2>3. QED
    BY <2>1, <2>2 DEF Placed
<1>11. ASSUME NEW i \in DOMAIN trained', NEW j \in Ranks PROVE Past(i, j)'
  <2> DEFINE n == Len(trained)
             S == [Ranks -> Steps]
  <2>0. trained \in Seq(S) /\ step \in S
    BY <1>2, <1>s
  <2> HIDE DEF S
  <2>a. /\ Append(trained, step) \in Seq(S) /\ Len(Append(trained, step)) = n + 1
        /\ \A x \in 1..n : Append(trained, step)[x] = trained[x]
        /\ Append(trained, step)[n + 1] = step
    BY <2>0, AppendProperties
  <2>b. trained' = Append(trained, step)
    BY <1>1
  <2>c. trained' \in Seq(S) /\ Len(trained') = n + 1
        /\ (\A x \in 1..n : trained'[x] = trained[x]) /\ trained'[n + 1] = step
    BY <2>a, <2>b
  <2>1. n \in Nat /\ i \in 1..(n + 1) /\ DOMAIN trained = 1..n
    BY <2>0, <2>c
  <2>2. trained'[i] = IF i = n + 1 THEN step ELSE trained[i]
    <3>1. i \in 1..n \/ i = n + 1
      BY <2>1
    <3>2. QED
      BY <2>1, <2>c, <3>1
  <2>3. CASE i = n + 1
    <3>1. i - 1 = global_step
      BY <1>2, <2>1, <2>3
    <3>2. PICK e \in Nat, c \in 0..(Pass - 1) :
            /\ global_step = e * Pass + c
            /\ plan.kind # "megatron" => rank[j].epoch = e
            /\ ~Reshuffled(e) => rank[j].batch = Share(j, e)[c + 1]
      BY <1>1, <1>5 DEF Placed, Current
    <3>3. trained'[i][j].epoch = rank[j].epoch /\ trained'[i][j].batch = rank[j].batch
      BY <1>7, <2>2, <2>3
    <3>4. QED
      BY <1>1, <1>3, <3>1, <3>2, <3>3 DEF Past
  <2>4. CASE i # n + 1
    <3>1. i \in DOMAIN trained /\ trained'[i] = trained[i]
      BY <2>1, <2>2, <2>4
    <3>2. Past(i, j)
      BY <1>5, <3>1
    <3>3. QED
      BY <1>1, <1>3, <3>1, <3>2 DEF Past
  <2>5. QED
    BY <2>3, <2>4
<1>12. QED
  BY <1>3, <1>9, <1>10, <1>11 DEF PlaceInv

\* After a crash the places are those of the checkpoint.
LEMMA CrashPlaces ==
  ASSUME RunInv, PlaceInv, Crash
  PROVE  PlaceInv'
<1> DEFINE start == StartedAt(saved)
           q == saved \div EpochSteps
           m == saved % EpochSteps
<1>1. /\ global_step' = saved /\ trained' = SubSeq(trained, 1, saved)
      /\ rank' = [k \in Ranks |-> start] /\ base' = <<>>
      /\ resumed' = IF m = 0 THEN resumed ELSE resumed \cup {q}
      /\ plan' = plan
  BY DEF Crash
<1>2. /\ plan \in Plans /\ 0 \in Ranks /\ saved \in Nat /\ saved < MaxSteps /\ saved <= global_step
      /\ trained \in Seq([Ranks -> Steps]) /\ Len(trained) = global_step /\ global_step \in Nat
      /\ EpochSteps \in Nat \ {0} /\ Pass \in Nat
  BY CrashRun, StepsToTake, PassIs DEF RunInv, RunTyped
<1>3. /\ Pass' = Pass /\ Ranks' = Ranks /\ Mapped' = Mapped /\ Uneven' = Uneven
      /\ \A j, x : Share(j, x)' = Share(j, x)
      /\ \A x : Reshuffled(x) => Reshuffled(x)'
  BY <1>1, PlacesStay
<1>4. SUFFICES ASSUME ~Uneven PROVE PlaceInv'
  BY <1>3 DEF PlaceInv
<1>5. /\ start.pc = "open"
      /\ plan.kind # "megatron" => start.epoch = q /\ start.skip = m
      /\ q \in Nat /\ m \in 0..(EpochSteps - 1) /\ saved = EpochSteps * q + m
  BY <1>2, StartsTyped
<1>6. start.todo = <<>>
  BY DEF StartedAt
<1> HIDE DEF start, q, m
<1>7. \A j \in Ranks : rank'[j] = start
  BY <1>1
<1>8. Rounds'
  <2>1. SUFFICES ASSUME plan.kind = "stream" PROVE Rounds'
    BY <1>1 DEF Rounds
  <2>2. saved < EpochSteps
    BY <1>2, <2>1, StepsToTake
  <2>3. q = 0 /\ m = saved
    <3> DEFINE n == EpochSteps
    <3> HIDE DEF n
    <3>1. n \in Nat \ {0} /\ 0 \in Nat /\ saved \in 0..(n - 1) /\ saved = n * 0 + saved
      BY <1>2, <2>2 DEF n
    <3>2. saved \div n = 0 /\ saved % n = saved
      BY <3>1, Quotient
    <3>3. QED
      BY <3>2 DEF n, q, m
  <2>4. 0 * Pass + saved = saved
    BY <1>2
  <2>5. rank'[0].pc = "open" /\ rank'[0].epoch = 0 /\ rank'[0].skip = saved
    BY <1>2, <1>5, <1>7, <2>1, <2>3
  <2>6. \A j \in Ranks : rank'[j].epoch = rank'[0].epoch
    BY <1>2, <1>7
  <2>7. QED
    BY <1>1, <1>3, <2>4, <2>5, <2>6 DEF Rounds
<1>9. ASSUME NEW j \in Ranks PROVE Placed(rank[j], j)'
  <2>1. InShare(rank[j], j)' /\ Current(rank[j], j)'
    BY <1>5, <1>6, <1>7 DEF InShare, Current
  <2>2. ToOpen(rank[j])'
    <3>1. SUFFICES ASSUME Mapped PROVE ToOpen(rank[j])'
      BY <1>3 DEF ToOpen
    <3>2. plan.kind # "megatron" /\ plan.kind # "stream" /\ Pass = EpochSteps
      BY <1>2, <3>1, PassIs DEF Mapped
    <3>3. rank'[j].epoch = q /\ rank'[j].skip = m
      BY <1>5, <1>7, <3>2
    <3>4. saved = q * Pass + m
      BY <1>2, <1>5, <3>2
    <3>5. m > 0 => q \in resumed'
      BY <1>1, <1>5
    <3>6. QED
      BY <1>1, <1>3, <3>3, <3>4, <3>5 DEF ToOpen
  <2>3. QED
    BY <2>1, <2>2 DEF Placed
<1>10. ASSUME NEW i \in DOMAIN trained', NEW j \in Ranks PROVE Past(i, j)'
  <2>1. i \in DOMAIN trained /\ trained'[i] = trained[i]
    BY <1>1, <1>2
  <2>2. PICK e \in Nat, c \in 0..(Pass - 1) :
          /\ i - 1 = e * Pass + c
          /\ plan.kind # "megatron" => trained[i][j].epoch = e
          /\ ~Reshuffled(e) => trained[i][j].batch = Share(j, e)[c + 1]
    BY <1>4, <2>1 DEF PlaceInv, Past
  <2>3. QED
    BY <1>1, <1>3, <2>1, <2>2 DEF Past
<1>11. QED
  BY <1>3, <1>8, <1>9, <1>10 DEF PlaceInv

\* Every step keeps the places.
LEMMA PlaceNext ==
  ASSUME RunInv, PlaceInv, [LoadNext]_loadVars
  PROVE  PlaceInv'
<1>1. CASE UNCHANGED loadVars
  <2>1. /\ plan' = plan /\ rank' = rank /\ base' = base /\ global_step' = global_step
        /\ trained' = trained /\ resumed' = resumed
    BY <1>1 DEF loadVars
  <2>2. /\ Pass' = Pass /\ Ranks' = Ranks /\ Mapped' = Mapped /\ Uneven' = Uneven
        /\ StreamBatches' = StreamBatches
        /\ \A j, e : Share(j, e)' = Share(j, e)
        /\ \A e : Reshuffled(e)' = Reshuffled(e)
    BY <2>1, PlacesStay
  <2>3. Rounds' = Rounds
    BY <2>1, <2>2 DEF Rounds, Taken, From
  <2>4. \A j \in Ranks : Placed(rank[j], j) => Placed(rank[j], j)'
    BY <2>1, <2>2 DEF Placed, InShare, ToOpen, Current, Taken, From
  <2>5. \A i, j : Past(i, j) => Past(i, j)'
    BY <2>1, <2>2 DEF Past
  <2>6. QED
    BY <2>1, <2>2, <2>3, <2>4, <2>5 DEF PlaceInv
<1>2. CASE OpenStream
  BY <1>2, OpenStreamPlaces
<1>3. CASE Scatter
  BY <1>3, ScatterPlaces
<1>4. CASE Train
  BY <1>4, TrainPlaces
<1>5. CASE Crash
  BY <1>5, CrashPlaces
<1>6. ASSUME NEW k \in Ranks, Open(k) \/ Stop(k) \/ Draw(k) \/ EndPass(k) PROVE PlaceInv'
  BY <1>6, OpenPlaces, StopPlaces, DrawPlaces, EndPassPlaces
<1>7. QED
  BY <1>1, <1>2, <1>3, <1>4, <1>5, <1>6 DEF LoadNext

\* Both are invariants.
LEMMA LoadSpecInv ==
  LoadSpec => [](RunInv /\ PlaceInv)
<1>1. LoadInit => RunInv /\ PlaceInv
  BY InitRun, InitPlaces
<1>2. RunInv /\ PlaceInv /\ [LoadNext]_loadVars => RunInv' /\ PlaceInv'
  BY RunNext, PlaceNext
<1>3. QED
  BY <1>1, <1>2, PTL DEF LoadSpec

-----------------------------------------------------------------------------
(* Counting.                                                               *)

\* The elements of a sequence are at most as many as its places, and a number of different
\* ones among them is at most their number.
LEMMA ElementsFinite ==
  ASSUME NEW T, NEW s \in Seq(T)
  PROVE  /\ IsFiniteSet(ToSet(s)) /\ Cardinality(ToSet(s)) \in Nat
         /\ \A n \in Nat : \A v \in [1..n -> ToSet(s)] :
              (\A i, j \in 1..n : v[i] = v[j] => i = j) => n <= Cardinality(ToSet(s))
<1> DEFINE n == Len(s)
           X == ToSet(s)
<1>1. n \in Nat /\ DOMAIN s = 1..n /\ X = {s[i] : i \in 1..n}
  BY DEF ToSet
<1>2. s \in Surjection(1..n, X)
  BY <1>1 DEF Surjection
<1>3. IsFiniteSet(1..n)
  BY <1>1, FS_Interval
<1> HIDE DEF X, n
<1>4. IsFiniteSet(X)
  BY <1>2, <1>3, FS_Surjection
<1>5. Cardinality(X) \in Nat
  BY <1>4, FS_CardinalityType
<1>6. ASSUME NEW m \in Nat, NEW v \in [1..m -> X], \A i, j \in 1..m : v[i] = v[j] => i = j
      PROVE  m <= Cardinality(X)
  <2>1. v \in Injection(1..m, X)
    BY <1>6 DEF Injection, IsInjective
  <2>2. Cardinality(1..m) <= Cardinality(X)
    BY <1>4, <2>1, FS_Injection
  <2>3. Cardinality(1..m) = m
    <3>1. 1 \in Int /\ m \in Int
      OBVIOUS
    <3>2. Cardinality(1..m) = IF 1 > m THEN 0 ELSE m - 1 + 1
      BY <3>1, FS_Interval
    <3>3. QED
      BY <3>2
  <2>4. QED
    BY <2>2, <2>3
<1>7. QED
  BY <1>4, <1>5, <1>6 DEF X

\* Elements that are different where their marks, all different, are at most n: no more of
\* them are repeated than there are marks beyond.
LEMMA FewRepeated ==
  ASSUME NEW T, NEW s \in Seq(T), NEW n \in Nat, NEW r \in Nat,
         NEW mark \in [1..Len(s) -> 1..(n + r)],
         \A i, j \in 1..Len(s) : mark[i] = mark[j] => i = j,
         \A i, j \in 1..Len(s) : mark[i] <= n /\ mark[j] <= n /\ s[i] = s[j] => mark[i] = mark[j]
  PROVE  Len(s) <= Cardinality(ToSet(s)) + r
<1> DEFINE m == Len(s)
           X == ToSet(s)
           S == 1..m
           A == {i \in S : mark[i] <= n}
           B == S \ A
           R == (n + 1)..(n + r)
<1>1. m \in Nat /\ DOMAIN s = S /\ X = {s[i] : i \in S}
  BY DEF ToSet
<1>2. IsFiniteSet(S) /\ Cardinality(S) = m
  <2>1. 1 \in Int /\ m \in Int
    BY <1>1
  <2> HIDE DEF m
  <2>2. IsFiniteSet(1..m) /\ Cardinality(1..m) = IF 1 > m THEN 0 ELSE m - 1 + 1
    BY <2>1, FS_Interval
  <2>3. QED
    BY <1>1, <2>2
<1>3. IsFiniteSet(R) /\ Cardinality(R) = r
  <2>1. n + 1 \in Int /\ n + r \in Int
    OBVIOUS
  <2>2. IsFiniteSet(R) /\ Cardinality(R) = IF n + 1 > n + r THEN 0 ELSE (n + r) - (n + 1) + 1
    BY <2>1, FS_Interval
  <2>3. QED
    BY <2>2
<1>4. IsFiniteSet(X) /\ Cardinality(X) \in Nat
  BY ElementsFinite
<1>5. Cardinality(A) <= Cardinality(X)
  <2> DEFINE f == [i \in A |-> s[i]]
  <2>1. f \in [A -> X]
    BY <1>1
  <2>2. \A i, j \in A : f[i] = f[j] => i = j
    OBVIOUS
  <2> HIDE DEF A, X, f
  <2>3. f \in Injection(A, X)
    BY <2>1, <2>2 DEF Injection, IsInjective
  <2>4. QED
    BY <1>4, <2>3, FS_Injection
<1>6. Cardinality(B) <= r
  <2> DEFINE f == [i \in B |-> mark[i]]
  <2>1. f \in [B -> R]
    OBVIOUS
  <2>2. \A i, j \in B : f[i] = f[j] => i = j
    OBVIOUS
  <2> HIDE DEF B, R, f
  <2>3. f \in Injection(B, R)
    BY <2>1, <2>2 DEF Injection, IsInjective
  <2>4. Cardinality(B) <= Cardinality(R)
    BY <1>3, <2>3, FS_Injection
  <2>5. QED
    BY <1>3, <2>4
<1>7. Cardinality(B) = Cardinality(S) - Cardinality(S \cap A)
  <2> HIDE DEF S, A
  <2>1. QED
    BY <1>2, FS_Difference
<1>8. S \cap A = A /\ Cardinality(A) \in Nat /\ Cardinality(B) \in Nat
  <2>1. A \subseteq S /\ S \cap A = A
    OBVIOUS
  <2> HIDE DEF S, A
  <2>2. IsFiniteSet(A) /\ IsFiniteSet(B)
    BY <1>2, <2>1, FS_Subset, FS_Difference
  <2>3. QED
    BY <2>1, <2>2, FS_CardinalityType
<1> HIDE DEF S, A, B, R, X, m
<1>9. m <= Cardinality(X) + r
  <2>1. Cardinality(B) = m - Cardinality(A)
    BY <1>2, <1>7, <1>8
  <2>2. m \in Nat
    BY <1>1
  <2>3. QED
    BY <1>4, <1>5, <1>6, <1>8, <2>1, <2>2
<1>10. QED
  BY <1>9 DEF m, X
-----------------------------------------------------------------------------
(* The samples of an epoch.                                                *)

\* What each process is dealt at least, and all but Megatron's exactly.
Each ==
  CASE plan.kind = "shard" -> plan.total \div plan.world
    [] plan.kind = "sequence" -> Ceil(plan.total, plan.world)
    [] plan.kind = "megatron" -> Bucket

\* Together they are dealt the samples there are, or all but less than a round of batches,
\* and no more than are repeated.
LEMMA EachIs ==
  ASSUME plan \in Plans, plan.kind # "stream"
  PROVE  /\ Each \in Nat \ {0} /\ Repeats \in Nat
         /\ plan.world * Each <= plan.total + Repeats
         /\ Mapped => plan.total < plan.world * Each + plan.world
         /\ plan.kind = "megatron" =>
              /\ plan.total < plan.world * Each + Round
              /\ Each = plan.batch * EpochSteps
<1> DEFINE w == plan.world
           t == plan.total
<1>1. w \in Nat \ {0} /\ t \in Nat \ {0} /\ plan.kind \in {"shard", "sequence", "megatron"}
  BY PlanOptions
<1>2. CASE plan.kind = "shard"
  <2>1. Each \in Nat \ {0} /\ ShardTotal = w * Each /\ ShardTotal \in 1..t /\ t < ShardTotal + w
    BY <1>2, ShardSizes DEF Each
  <2>2. Repeats = 0
    BY <1>2 DEF Repeats
  <2>3. QED
    BY <1>1, <1>2, <2>1, <2>2
<1>3. CASE plan.kind = "sequence"
  <2>1. /\ Each \in Nat \ {0} /\ RoundedUp = w * Each /\ RoundedUp \in Nat /\ t <= RoundedUp
        /\ RoundedUp < t + w
    BY <1>3, SequenceSizes DEF Each
  <2>2. Repeats = RoundedUp - t
    BY <1>3 DEF Repeats
  <2>3. QED
    BY <1>1, <1>3, <2>1, <2>2
<1>4. CASE plan.kind = "megatron"
  <2>1. /\ Each \in Nat \ {0} /\ Active = w * Each /\ Active <= t /\ Active \in Nat /\ t < Active + Round
        /\ Each = plan.batch * EpochSteps
    <3>1. /\ Active = w * Bucket /\ Active <= Full /\ Full \in 1..t /\ t < Active + Global
          /\ Bucket \in 1..t /\ Bucket = plan.batch * EpochSteps /\ Active \in Nat
      BY <1>4, MegatronSizes
    <3>2. Round = Global
      BY DEF Round, Global
    <3>3. Each = Bucket
      BY <1>4 DEF Each
    <3>4. QED
      BY <1>1, <3>1, <3>2, <3>3
  <2>2. Repeats = 0 /\ ~Mapped
    BY <1>4 DEF Repeats, Mapped
  <2>3. QED
    BY <1>1, <1>4, <2>1, <2>2
<1>5. QED
  BY <1>1, <1>2, <1>3, <1>4

\* The place of a sample in the order of the epoch.
Place(k, m) == (m - 1) * plan.world + k + 1

\* What is at a place.
Item(e, s) ==
  CASE plan.kind = "stream" -> s
    [] Sharded -> ((s - 1) % plan.world) * Bucket + Permutation(e, Bucket)[((s - 1) \div plan.world) + 1]
    [] plan.kind # "stream" /\ ~Sharded -> Order(e)[s]

\* A place is of one process, and the places a process is dealt are among those of all.
LEMMA PlaceIs ==
  ASSUME plan \in Plans, NEW k \in Ranks, NEW m \in Nat \ {0}
  PROVE  /\ Place(k, m) \in Nat \ {0}
         /\ (Place(k, m) - 1) % plan.world = k /\ (Place(k, m) - 1) \div plan.world = m - 1
         /\ \A n \in Nat : m <= n => Place(k, m) <= plan.world * n
<1> DEFINE w == plan.world
           a == m - 1
           x == a * w
<1>1. w \in Nat \ {0} /\ k \in 0..(w - 1) /\ a \in Nat
  BY PlanOptions DEF Ranks
<1> HIDE DEF w, a
<1>2. x \in Nat /\ x = w * a
  BY <1>1
<1>3. Place(k, m) = x + k + 1
  BY DEF Place, w, a
<1> HIDE DEF x
<1>4. Place(k, m) \in Nat \ {0} /\ Place(k, m) - 1 = w * a + k
  <2>1. Place(k, m) - 1 = x + k
    BY <1>1, <1>2, <1>3
  <2>2. QED
    BY <1>1, <1>2, <1>3, <2>1
<1>5. (Place(k, m) - 1) % w = k /\ (Place(k, m) - 1) \div w = a
  BY <1>1, <1>4, Quotient
<1>6. ASSUME NEW n \in Nat, m <= n PROVE Place(k, m) <= w * n
  <2> DEFINE y == w * n
             z == w * m
  <2>1. m * w <= n * w /\ m * w \in Nat /\ n * w \in Nat
    BY <1>1, <1>6, ProductGrows
  <2>2. y = n * w /\ z = m * w
    BY <1>1
  <2>3. z = x + w
    <3>1. m = a + 1
      BY DEF a
    <3>2. w * (a + 1) = w * a + w
      BY <1>1
    <3>3. QED
      BY <1>2, <3>1, <3>2
  <2> HIDE DEF y, z
  <2>4. x + w <= y /\ y \in Nat
    BY <1>1, <2>1, <2>2, <2>3
  <2>5. x + k + 1 <= y
    BY <1>1, <1>2, <2>4
  <2>6. QED
    BY <1>3, <2>5 DEF y
<1>7. QED
  BY <1>4, <1>5, <1>6 DEF w, a

\* What a process is dealt.
LEMMA MineHas ==
  ASSUME plan \in Plans, plan.kind # "stream", NEW e \in 0..plan.epochs, NEW k \in Ranks
  PROVE  /\ Mine(k, e) \in Seq(Indices) /\ Each <= Len(Mine(k, e))
         /\ Mapped => Len(Mine(k, e)) = Each
         /\ \A m \in 1..Each : Mine(k, e)[m] = Item(e, Place(k, m))
<1> DEFINE w == plan.world
           l == Mine(k, e)
<1>1. w \in Nat \ {0} /\ k \in 0..(w - 1) /\ Each \in Nat \ {0} /\ l \in Seq(Indices)
  BY PlanOptions, EachIs, MineIs DEF Ranks
<1>2. Each <= Len(l) /\ (Mapped => Len(l) = Each)
  <2>1. CASE Mapped
    <3>1. l = Strided(Order(e), k) /\ Order(e) \in Seq(Indices) /\ Len(Order(e)) = w * Each
      BY <2>1, OrderIs, ShardSizes, SequenceSizes DEF Mine, Sharded, Mapped, Each
    <3>2. Len(l) = Each
      BY <1>1, <3>1, StridedEven
    <3>3. QED
      BY <1>1, <3>2
  <2>2. CASE ~Mapped
    <3>1. plan.kind = "megatron"
      BY <2>2, PlanOptions DEF Mapped
    <3>2. QED
      BY <2>2, <3>1, MegatronShare DEF Each
  <2>3. QED
    BY <2>1, <2>2
<1>3. ASSUME NEW m \in 1..Each PROVE l[m] = Item(e, Place(k, m))
  <2>1. m \in Nat \ {0} /\ m \in DOMAIN l
    BY <1>1, <1>2
  <2>2. CASE Sharded
    <3>1. plan.kind = "megatron" /\ Each = Bucket
      BY <2>2 DEF Sharded, Each
    <3>2. l[m] = k * Bucket + Permutation(e, Bucket)[m]
      BY <2>2, <3>1 DEF Mine
    <3>3. (m - 1) + 1 = m
      OBVIOUS
    <3>4. Item(e, Place(k, m)) = k * Bucket + Permutation(e, Bucket)[(m - 1) + 1]
      BY <2>1, <2>2, PlaceIs DEF Item
    <3>5. QED
      BY <3>2, <3>3, <3>4
  <2>3. CASE ~Sharded
    <3>1. l = Strided(Order(e), k) /\ Order(e) \in Seq(Indices)
      BY <2>3, OrderIs DEF Mine
    <3>2. l[m] = Order(e)[Place(k, m)]
      BY <2>1, <3>1, StridedIs DEF Place
    <3>3. QED
      BY <2>3, <3>2 DEF Item
  <2>4. QED
    BY <2>2, <2>3
<1>4. QED
  BY <1>1, <1>2, <1>3

\* The batches of the steps of an epoch.
LEMMA ShareHas ==
  ASSUME plan \in Plans, plan.kind # "stream", ~Uneven,
         NEW e \in 0..plan.epochs, NEW k \in Ranks, NEW c \in 0..(Pass - 1)
  PROVE  /\ Share(k, e)[c + 1] \in Seq(Indices)
         /\ \A t \in Nat \ {0} : t \in DOMAIN Share(k, e)[c + 1] <=>
              t <= plan.batch /\ c * plan.batch + t <= Each
         /\ \A t \in DOMAIN Share(k, e)[c + 1] :
              Share(k, e)[c + 1][t] = Item(e, Place(k, c * plan.batch + t))
<1> DEFINE b == plan.batch
           l == Mine(k, e)
           s == Share(k, e)
           x == c * b
           i == c + 1
<1>1. b \in Nat \ {0} /\ Each \in Nat \ {0} /\ Pass = EpochSteps /\ EpochSteps \in Nat \ {0}
      /\ Dropping \in BOOLEAN
  BY PlanOptions, EachIs, PassIs, StepsToTake DEF Dropping
<1>2. /\ l \in Seq(Indices) /\ Each <= Len(l) /\ (Mapped => Len(l) = Each)
      /\ \A m \in 1..Each : l[m] = Item(e, Place(k, m))
  BY MineHas
<1>3. s = Batched(l, Dropping)
  BY DEF Share
<1>4. s \in Seq(Seq(Indices)) /\ Len(s) = Pass
  <2>1. CASE Mapped
    BY <1>1, <2>1, BatchesAre
  <2>2. CASE ~Mapped
    <3>1. plan.kind = "megatron"
      BY <2>2, PlanOptions DEF Mapped
    <3>2. QED
      BY <1>1, <3>1, MegatronShare
  <2>3. QED
    BY <2>1, <2>2
<1>5. i \in DOMAIN s /\ i - 1 = c /\ i \in Nat /\ c \in Nat
  BY <1>1, <1>4
<1> HIDE DEF l, s
<1>6. /\ \A t \in Nat \ {0} : t \in DOMAIN s[i] <=> t <= b /\ (i - 1) * b + t <= Len(l)
      /\ \A t \in DOMAIN s[i] : s[i][t] = l[(i - 1) * b + t]
  <2> DEFINE d == Dropping
             u == Batched(l, d)
  <2>1. d \in BOOLEAN /\ l \in Seq(Indices)
    BY <1>1, <1>2
  <2> HIDE DEF d
  <2>2. \A j \in DOMAIN u :
              /\ \A t \in Nat \ {0} : t \in DOMAIN u[j] <=>
                     t <= plan.batch /\ (j - 1) * plan.batch + t <= Len(l)
              /\ \A t \in DOMAIN u[j] : u[j][t] = l[(j - 1) * plan.batch + t]
    <3>1. AreBatches(u, l, d, Indices)
      BY <2>1, BatchedIs
    <3> HIDE DEF u
    <3>2. QED
      BY <3>1 DEF AreBatches
  <2>3. s = u
    BY <1>3 DEF d
  <2> HIDE DEF u
  <2>4. QED
    BY <1>5, <2>2, <2>3
<1>7. /\ \A t \in Nat \ {0} : t \in DOMAIN s[i] <=> t <= b /\ x + t <= Len(l)
      /\ \A t \in DOMAIN s[i] : s[i][t] = l[x + t]
  BY <1>5, <1>6
<1>8. s[i] \in Seq(Indices) /\ x \in Nat /\ \A t \in DOMAIN s[i] : t \in Nat \ {0}
  BY <1>1, <1>4, <1>5
<1>9. \A t \in Nat \ {0} : t <= b => (x + t <= Len(l) <=> x + t <= Each)
  <2>1. CASE Mapped
    BY <1>2, <2>1
  <2>2. CASE ~Mapped
    <3>1. plan.kind = "megatron"
      BY <2>2, PlanOptions DEF Mapped
    <3>2. Each = b * Pass
      BY <1>1, <3>1, EachIs
    <3> DEFINE y == i * b
    <3>3. y <= Each /\ y = x + b /\ y \in Nat
      <4>1. i <= Pass /\ i \in Nat /\ Pass \in Nat
        BY <1>1, <1>5
      <4>2. i * b <= Pass * b
        BY <1>1, <4>1, ProductGrows
      <4>3. Pass * b = b * Pass /\ (c + 1) * b = c * b + b
        BY <1>1, <1>5
      <4>4. QED
        BY <1>1, <1>5, <3>2, <4>2, <4>3
    <3> HIDE DEF x, y
    <3>4. Len(l) \in Nat
      BY <1>2
    <3>5. QED
      BY <1>1, <1>2, <1>8, <3>3, <3>4
  <2>3. QED
    BY <2>1, <2>2
<1> HIDE DEF x
<1>10. \A t \in Nat \ {0} : t \in DOMAIN s[i] <=> t <= b /\ x + t <= Each
  BY <1>7, <1>9
<1>11. ASSUME NEW t \in DOMAIN s[i] PROVE s[i][t] = Item(e, Place(k, x + t))
  <2>1. t \in Nat \ {0}
    BY <1>8
  <2>2. x + t \in 1..Each
    BY <1>1, <1>8, <1>10, <2>1
  <2>3. QED
    BY <1>2, <1>7, <2>2
<1>12. QED
  BY <1>8, <1>10, <1>11 DEF s, i, b, x

\* Of what each process is dealt, the steps of an epoch take all that makes up batches,
\* which leaves out less than a round of batches.
LEMMA PassTakes ==
  ASSUME plan \in Plans, plan.kind # "stream"
  PROVE  \E l \in Nat : /\ l <= Each /\ l <= plan.batch * Pass
                        /\ plan.total < plan.world * l + Round
<1> DEFINE w == plan.world
           b == plan.batch
           t == plan.total
           r == b * w
<1>1. /\ w \in Nat \ {0} /\ b \in Nat \ {0} /\ t \in Nat \ {0} /\ Each \in Nat \ {0}
      /\ Pass = EpochSteps /\ EpochSteps \in Nat \ {0} /\ Round = r /\ plan.drop_last \in BOOLEAN
      /\ plan.epochs \in Nat
  BY PlanOptions, EachIs, PassIs, StepsToTake DEF Round
<1> HIDE DEF w, b, t, r
<1>2. r \in Nat /\ w <= r
  <2>1. 1 * w <= b * w /\ b * w \in Nat
    BY <1>1, ProductGrows
  <2>2. QED
    BY <1>1, <2>1 DEF r
<1>3. CASE plan.kind = "megatron"
  <2>1. Each = b * Pass /\ t < w * Each + r
    BY <1>1, <1>3, EachIs DEF b, w, t, r
  <2>2. QED
    BY <1>1, <2>1 DEF w, b, t, r
<1>4. CASE plan.kind # "megatron"
  <2>1. Mapped /\ t < w * Each + w
    BY <1>4, PlanOptions, EachIs DEF Mapped, w, t
  <2>2. EpochSteps = IF plan.drop_last THEN Each \div b ELSE Ceil(Each, b)
    <3>1. 0 \in 0..plan.epochs /\ 0 \in Ranks
      BY <1>1, StepsToTake
    <3>2. Len(Share(0, 0)) = EpochSteps
      BY <2>1, <3>1, BatchesAre
    <3>3. Mine(0, 0) \in Seq(Indices) /\ Len(Mine(0, 0)) = Each
      BY <2>1, <3>1, MineHas
    <3>4. Share(0, 0) = Batched(Mine(0, 0), plan.drop_last)
      BY <1>4 DEF Share, Dropping
    <3>5. AreBatches(Batched(Mine(0, 0), plan.drop_last), Mine(0, 0), plan.drop_last, Indices)
      BY <1>1, <3>3, BatchedIs
    <3>6. QED
      BY <3>2, <3>3, <3>4, <3>5 DEF AreBatches, b
  <2>3. CASE ~plan.drop_last
    <3>1. Each <= b * Pass
      BY <1>1, <2>2, <2>3, CeilIs
    <3> DEFINE y == w * Each
    <3>2. y \in Nat
      BY <1>1
    <3> HIDE DEF y
    <3>3. t < y + r
      BY <1>1, <1>2, <2>1, <3>2 DEF y
    <3>4. Each <= Each
      BY <1>1
    <3>5. QED
      BY <1>1, <3>1, <3>3, <3>4 DEF y, w, b, t, r
  <2>4. CASE plan.drop_last
    <3> DEFINE l == b * Pass
               y == w * Each
               z == w * l
    <3>1. Pass = Each \div b
      BY <1>1, <2>2, <2>4
    <3>2. Pass \in Nat /\ Each % b \in 0..(b - 1) /\ Each = l + (Each % b)
      BY <1>1, <3>1, Divided
    <3>3. l \in Nat
      BY <1>1
    <3> HIDE DEF l
    <3>4. l <= Each /\ Each + 1 <= l + b
      BY <1>1, <3>2, <3>3
    <3>5. y + w <= z + r /\ y \in Nat /\ z \in Nat
      <4>1. Each + 1 \in Nat /\ l + b \in Nat
        BY <1>1, <3>3
      <4>2. (Each + 1) * w <= (l + b) * w
        BY <1>1, <3>4, <4>1, ProductGrows
      <4>3. (Each + 1) * w = w * Each + w
        BY <1>1
      <4>4. (l + b) * w = w * l + b * w
        BY <1>1, <3>3
      <4>5. w * Each \in Nat /\ w * l \in Nat
        BY <1>1, <3>3
      <4>6. QED
        BY <4>2, <4>3, <4>4, <4>5 DEF r
    <3> HIDE DEF y, z
    <3>6. t < z + r
      BY <1>1, <1>2, <2>1, <3>5 DEF y
    <3>7. l <= b * Pass
      BY <3>3 DEF l
    <3>8. QED
      BY <1>1, <3>3, <3>4, <3>6, <3>7 DEF z, w, b, t, r
  <2>5. QED
    BY <1>1, <2>3, <2>4
<1>5. QED
  BY <1>3, <1>4

\* The place of a batch's sample among those of the epoch, which a stream has in its own order.
Slot(k, c, t) ==
  IF plan.kind = "stream" THEN (c * plan.world + k) * plan.batch + t
  ELSE Place(k, c * plan.batch + t)

\* The samples of a stream's batches.
LEMMA StreamHas ==
  ASSUME plan \in Plans, plan.kind = "stream", NEW e, NEW k \in Ranks, NEW c \in 0..(Pass - 1)
  PROVE  /\ Share(k, e)[c + 1] \in Seq(Indices) /\ c * plan.world + k \in Nat
         /\ \A t \in Nat \ {0} : t \in DOMAIN Share(k, e)[c + 1] <=>
              t <= plan.batch /\ Slot(k, c, t) <= plan.total
         /\ \A t \in DOMAIN Share(k, e)[c + 1] : Share(k, e)[c + 1][t] = Item(e, Slot(k, c, t))
<1> DEFINE w == plan.world
           b == plan.batch
           s == StreamBatches
           x == c * w
           j == x + k
           i == j + 1
           u == Share(k, e)[c + 1]
<1>1. w \in Nat \ {0} /\ b \in Nat \ {0} /\ k \in 0..(w - 1) /\ Pass = PassSteps /\ PassSteps \in Nat
  BY PlanOptions, StreamIs DEF Pass, Ranks
<1>2. c + 1 \in 1..PassSteps /\ (c + 1) - 1 = c /\ c \in Nat
  BY <1>1
<1>3. /\ \A d \in 1..PassSteps : /\ (d - 1) * w + k + 1 \in DOMAIN s
                                 /\ Share(k, e)[d] = s[(d - 1) * w + k + 1]
  BY StreamShare
<1>4. c * w + k + 1 \in DOMAIN s /\ u = s[c * w + k + 1]
  BY <1>2, <1>3
<1>5. x \in Nat
  BY <1>1, <1>2
<1> HIDE DEF u, s, x
<1>6. j \in Nat /\ i \in DOMAIN s /\ u = s[i] /\ i - 1 = j
  BY <1>1, <1>4, <1>5 DEF x
<1> HIDE DEF j
<1>7. /\ s \in Seq(Seq(Indices))
      /\ \A t \in Nat \ {0} : t \in DOMAIN s[i] <=> t <= b /\ (i - 1) * b + t <= plan.total
      /\ \A t \in DOMAIN s[i] : s[i][t] = (i - 1) * b + t
  BY <1>6, StreamIs DEF s
<1>8. s[i] \in Seq(Indices)
  BY <1>6, <1>7
<1>9. \A t : Slot(k, c, t) = j * b + t
  BY DEF Slot, j, x, w, b
<1>10. \A t : Item(e, t) = t
  BY DEF Item, Sharded
<1>11. \A t : Slot(k, c, t) = (i - 1) * b + t
  BY <1>6, <1>9
<1>12. j = c * plan.world + k
  BY DEF j, x, w
<1>13. QED
  BY <1>6, <1>7, <1>8, <1>10, <1>11, <1>12 DEF u, b

\* A sample that is trained on is the one at its place.
LEMMA SlotIs ==
  ASSUME plan \in Plans, ~Uneven, NEW e \in Nat, plan.kind # "stream" => e \in 0..plan.epochs,
         NEW k \in Ranks, NEW c \in 0..(Pass - 1), NEW t \in DOMAIN Share(k, e)[c + 1]
  PROVE  /\ t \in 1..plan.batch /\ Slot(k, c, t) \in 1..(plan.total + Repeats)
         /\ plan.kind # "stream" => Slot(k, c, t) <= plan.world * Each
         /\ Share(k, e)[c + 1] \in Seq(Indices)
         /\ Share(k, e)[c + 1][t] = Item(e, Slot(k, c, t))
<1> DEFINE w == plan.world
           b == plan.batch
           u == Share(k, e)[c + 1]
           p == Slot(k, c, t)
<1>1. /\ w \in Nat \ {0} /\ b \in Nat \ {0} /\ plan.total \in Nat \ {0} /\ Pass \in Nat /\ c \in Nat
  BY PlanOptions, PassIs
<1>2. CASE plan.kind = "stream"
  <2> DEFINE j == c * plan.world + k
             z == j * b
  <2>1. /\ u \in Seq(Indices) /\ j \in Nat
        /\ \A v \in Nat \ {0} : v \in DOMAIN u <=> v <= b /\ Slot(k, c, v) <= plan.total
        /\ \A v \in DOMAIN u : u[v] = Item(e, Slot(k, c, v))
    BY <1>2, StreamHas
  <2>2. t \in Nat \ {0}
    BY <2>1
  <2>3. t <= b /\ p <= plan.total /\ u[t] = Item(e, p)
    BY <2>1, <2>2
  <2>4. z \in Nat /\ p = z + t
    <3>1. p = z + t
      BY <1>2 DEF Slot
    <3> HIDE DEF j
    <3>2. z \in Nat
      BY <1>1, <2>1
    <3>3. QED
      BY <3>1, <3>2
  <2>5. Repeats = 0
    BY <1>2 DEF Repeats
  <2> HIDE DEF z, p, u
  <2>6. p \in 1..(plan.total + Repeats) /\ t \in 1..b
    BY <1>1, <2>2, <2>3, <2>4, <2>5
  <2>7. QED
    BY <1>2, <2>1, <2>3, <2>6 DEF p, u
<1>3. CASE plan.kind # "stream"
  <2> DEFINE m == c * b + t
             y == w * Each
  <2>1. /\ u \in Seq(Indices)
        /\ \A v \in Nat \ {0} : v \in DOMAIN u <=> v <= b /\ c * b + v <= Each
        /\ \A v \in DOMAIN u : u[v] = Item(e, Place(k, c * b + v))
    BY <1>3, ShareHas
  <2>2. t \in Nat \ {0}
    BY <2>1
  <2>3. t <= b /\ m <= Each /\ u[t] = Item(e, Place(k, m))
    BY <2>1, <2>2
  <2>4. m \in Nat \ {0}
    <3>1. c * b \in Nat
      BY <1>1
    <3>2. QED
      BY <2>2, <3>1
  <2>5. p = Place(k, m)
    BY <1>3 DEF Slot
  <2>6. Each \in Nat /\ Repeats \in Nat /\ y <= plan.total + Repeats /\ y \in Nat
    BY <1>1, <1>3, EachIs
  <2> HIDE DEF m, p
  <2>7. p \in Nat \ {0} /\ p <= y
    BY <2>3, <2>4, <2>5, <2>6, PlaceIs
  <2> HIDE DEF y, u
  <2>8. p \in 1..(plan.total + Repeats) /\ t \in 1..b
    BY <1>1, <2>2, <2>3, <2>6, <2>7
  <2>9. QED
    BY <1>3, <2>1, <2>3, <2>5, <2>7, <2>8 DEF p, y, u
<1>4. QED
  BY <1>2, <1>3

\* Different samples of a pass have different places.
LEMMA SlotUnique ==
  ASSUME plan \in Plans, NEW k \in Ranks, NEW l \in Ranks, NEW c \in Nat, NEW d \in Nat,
         NEW t \in 1..plan.batch, NEW u \in 1..plan.batch, Slot(k, c, t) = Slot(l, d, u)
  PROVE  k = l /\ c = d /\ t = u
<1> DEFINE w == plan.world
           b == plan.batch
<1>1. w \in Nat \ {0} /\ b \in Nat \ {0} /\ k \in 0..(w - 1) /\ l \in 0..(w - 1)
  BY PlanOptions DEF Ranks
<1>2. t - 1 \in 0..(b - 1) /\ u - 1 \in 0..(b - 1) /\ t \in Nat \ {0} /\ u \in Nat \ {0}
  BY <1>1
<1>3. CASE plan.kind = "stream"
  <2> DEFINE x == c * w
             y == d * w
             i == x + k
             j == y + l
             z == i * b
             v == j * b
  <2>1. x \in Nat /\ y \in Nat
    BY <1>1
  <2>2. Slot(k, c, t) = z + t /\ Slot(l, d, u) = v + u
    BY <1>3 DEF Slot
  <2>3. x = w * c /\ y = w * d
    BY <1>1
  <2> HIDE DEF x, y, w, b
  <2>4. i \in Nat /\ j \in Nat
    BY <1>1, <2>1
  <2> HIDE DEF i, j
  <2>5. z \in Nat /\ v \in Nat /\ z = b * i /\ v = b * j
    BY <1>1, <2>4
  <2> HIDE DEF z, v
  <2>6. z + t = v + u
    BY <2>2
  <2>7. z + (t - 1) = v + (u - 1)
    BY <1>2, <2>5, <2>6
  <2>8. b * i + (t - 1) = b * j + (u - 1)
    BY <2>5, <2>7
  <2>9. i \in Int /\ j \in Int
    BY <2>4
  <2>10. i = j /\ t - 1 = u - 1
    BY <1>1, <1>2, <2>8, <2>9, RemainderUnique
  <2>11. w * c + k = w * d + l
    BY <2>3, <2>10 DEF i, j
  <2>12. c \in Int /\ d \in Int
    OBVIOUS
  <2>13. c = d /\ k = l
    BY <1>1, <2>11, <2>12, RemainderUnique
  <2>14. QED
    BY <1>2, <2>10, <2>13
<1>4. CASE plan.kind # "stream"
  <2> DEFINE x == c * b
             y == d * b
             m == x + t
             n == y + u
  <2>1. x \in Nat /\ y \in Nat /\ x = b * c /\ y = b * d
    BY <1>1
  <2>2. Place(k, m) = Place(l, n)
    BY <1>4 DEF Slot
  <2> HIDE DEF x, y
  <2>3. m \in Nat \ {0} /\ n \in Nat \ {0}
    BY <1>2, <2>1
  <2> HIDE DEF m, n
  <2>4. k = l /\ m - 1 = n - 1
    BY <2>2, <2>3, PlaceIs
  <2>5. b * c + (t - 1) = b * d + (u - 1)
    <3>1. x + (t - 1) = m - 1 /\ y + (u - 1) = n - 1
      BY <1>2, <2>1 DEF m, n
    <3>2. QED
      BY <2>1, <2>4, <3>1
  <2>6. c \in Int /\ d \in Int
    OBVIOUS
  <2>7. c = d /\ t - 1 = u - 1
    BY <1>1, <1>2, <2>5, <2>6, RemainderUnique
  <2>8. QED
    BY <1>2, <2>4, <2>7
<1>5. QED
  BY <1>3, <1>4

\* What is at the places of an epoch is different, except what fills up the last round.
LEMMA ItemUnique ==
  ASSUME plan \in Plans, NEW e \in Nat, plan.kind # "stream" => e \in 0..plan.epochs,
         NEW p \in 1..plan.total, NEW q \in 1..plan.total,
         plan.kind # "stream" => p <= plan.world * Each /\ q <= plan.world * Each,
         Item(e, p) = Item(e, q)
  PROVE  p = q
<1> DEFINE w == plan.world
           n == plan.total
<1>1. w \in Nat \ {0} /\ n \in Nat \ {0} /\ plan.kind \in {"shard", "sequence", "stream", "megatron"}
      /\ p \in Nat \ {0} /\ q \in Nat \ {0} /\ p \in 1..n /\ q \in 1..n
  BY PlanOptions
<1>2. CASE plan.kind = "stream"
  BY <1>2 DEF Item, Sharded
<1>3. CASE plan.kind = "shard"
  <2>1. Item(e, p) = Seeded(e, ShardTotal)[p] /\ Item(e, q) = Seeded(e, ShardTotal)[q]
    BY <1>3 DEF Item, Sharded, Order
  <2>2. ShardTotal \in 1..n /\ ShardTotal = w * Each
    BY <1>3, ShardSizes DEF Each
  <2>3. p \in 1..ShardTotal /\ q \in 1..ShardTotal
    BY <1>1, <1>3, <2>2
  <2>4. QED
    BY <1>3, <2>1, <2>2, <2>3, SeededIs
<1>4. CASE plan.kind = "sequence"
  <2> DEFINE f == Permutation(e, n)
  <2>1. \A i, j \in 1..n : f[i] = f[j] => i = j
    <3>1. n \in 1..n /\ e \in 0..plan.epochs
      BY <1>1, <1>4
    <3>2. QED
      BY <3>1, Permuted
  <2>2. ASSUME NEW s \in 1..n PROVE s \in 1..RoundedUp => Item(e, s) = f[s]
    <3>1. s \in 1..RoundedUp => Item(e, s) = f[((s - 1) % n) + 1]
      BY <1>4 DEF Item, Sharded, Order, Filled
    <3>2. (s - 1) % n = s - 1
      <4> DEFINE r == s - 1
                 o == 0
                 x == r
      <4>1. r \in 0..(n - 1) /\ x = n * o + r /\ o \in Nat /\ n \in Nat \ {0}
        BY <1>1
      <4> HIDE DEF r, n, o, x
      <4>2. x % n = r
        BY <4>1, Quotient
      <4>3. QED
        BY <4>2 DEF r, x
    <3>3. (s - 1) + 1 = s
      OBVIOUS
    <3>4. QED
      BY <3>1, <3>2, <3>3
  <2>3. p \in 1..RoundedUp /\ q \in 1..RoundedUp
    <3>1. n <= RoundedUp /\ RoundedUp \in Nat
      BY <1>4, SequenceSizes
    <3>2. QED
      BY <1>1, <3>1
  <2> HIDE DEF n, f
  <2>4. Item(e, p) = f[p] /\ Item(e, q) = f[q]
    BY <1>1, <2>2, <2>3
  <2>5. QED
    BY <1>1, <2>1, <2>4
<1>5. CASE plan.kind = "megatron" /\ ~Sharded
  <2>1. Item(e, p) = Seeded(e, Full)[p] /\ Item(e, q) = Seeded(e, Full)[q]
    BY <1>5 DEF Item, Order
  <2>2. Full \in 1..n /\ Active = w * Each /\ Active <= Full /\ Active \in Nat
    BY <1>5, MegatronSizes DEF Each
  <2>3. p \in 1..Full /\ q \in 1..Full
    BY <1>1, <1>5, <2>2
  <2>4. QED
    BY <1>5, <2>1, <2>2, <2>3, SeededIs
<1>6. CASE Sharded
  <2> DEFINE u == Bucket
             f == Permutation(e, u)
             a(s) == (s - 1) \div w
             k(s) == (s - 1) % w
  <2>1. plan.kind = "megatron"
    BY <1>6 DEF Sharded
  <2>2. u \in 1..n /\ Each = u /\ u \in Nat \ {0}
    BY <1>1, <2>1, MegatronSizes DEF Each
  <2>3. f \in [1..u -> 1..u] /\ \A i, j \in 1..u : f[i] = f[j] => i = j
    BY <2>1, <2>2, Permuted
  <2>4. Item(e, p) = k(p) * u + f[a(p) + 1] /\ Item(e, q) = k(q) * u + f[a(q) + 1]
    BY <1>6, <2>1 DEF Item
  <2>5. p <= w * u /\ q <= w * u
    BY <2>1, <2>2
  <2> HIDE DEF u, f, w
  <2>6. ASSUME NEW s \in Nat \ {0}, s <= w * u
        PROVE  a(s) \in Nat /\ k(s) \in 0..(w - 1) /\ s - 1 = w * a(s) + k(s) /\ a(s) + 1 \in 1..u
    <3> DEFINE b == a(s)
               r == k(s)
               x == w * b
               y == w * u
    <3>1. s - 1 \in Nat
      OBVIOUS
    <3>2. b \in Nat /\ r \in 0..(w - 1) /\ s - 1 = w * b + r
      BY <1>1, <3>1, Divided
    <3> HIDE DEF b, r
    <3>3. x \in Nat /\ y \in Nat
      BY <1>1, <2>2, <3>2
    <3>4. b < u
      <4>1. SUFFICES ASSUME u <= b PROVE FALSE
        BY <2>2, <3>2
      <4>2. u * w <= b * w
        BY <1>1, <2>2, <3>2, <4>1, ProductGrows
      <4>3. u * w = y /\ b * w = x
        BY <1>1, <2>2, <3>2
      <4>4. s - 1 = x + r /\ s <= y
        BY <2>6, <3>2
      <4> HIDE DEF x, y
      <4>5. QED
        BY <1>1, <3>2, <3>3, <4>2, <4>3, <4>4
    <3>5. QED
      BY <2>2, <3>2, <3>4 DEF b, r
  <2>7. /\ a(p) \in Nat /\ k(p) \in 0..(w - 1) /\ p - 1 = w * a(p) + k(p) /\ a(p) + 1 \in 1..u
        /\ a(q) \in Nat /\ k(q) \in 0..(w - 1) /\ q - 1 = w * a(q) + k(q) /\ a(q) + 1 \in 1..u
    BY <1>1, <2>5, <2>6
  <2> DEFINE ap == a(p)
             aq == a(q)
             kp == k(p)
             kq == k(q)
             fp == f[ap + 1]
             fq == f[aq + 1]
  <2>8. fp \in 1..u /\ fq \in 1..u
    BY <2>3, <2>7
  <2>9. kp * u + fp = kq * u + fq
    BY <2>4
  <2>10. /\ ap \in Nat /\ kp \in Nat /\ p - 1 = w * ap + kp /\ ap + 1 \in 1..u
         /\ aq \in Nat /\ kq \in Nat /\ q - 1 = w * aq + kq /\ aq + 1 \in 1..u
    BY <1>1, <2>7
  <2>11. fp = fq => ap + 1 = aq + 1
    BY <2>3, <2>10
  <2> HIDE DEF ap, aq, kp, kq, fp, fq
  <2>12. u * kp + (fp - 1) = u * kq + (fq - 1)
    <3> DEFINE x == kp * u
               y == kq * u
    <3>1. x \in Nat /\ y \in Nat /\ x = u * kp /\ y = u * kq
      BY <2>2, <2>10
    <3> HIDE DEF x, y
    <3>2. x + fp = y + fq
      BY <2>9 DEF x, y
    <3>3. x + (fp - 1) = y + (fq - 1)
      BY <2>8, <3>1, <3>2
    <3>4. QED
      BY <3>1, <3>3
  <2>13. fp - 1 \in 0..(u - 1) /\ fq - 1 \in 0..(u - 1) /\ kp \in Int /\ kq \in Int
    BY <2>2, <2>8, <2>10
  <2>14. kp = kq /\ fp - 1 = fq - 1
    <3> DEFINE r == fp - 1
               s == fq - 1
    <3>1. u * kp + r = u * kq + s /\ r \in 0..(u - 1) /\ s \in 0..(u - 1)
      BY <2>12, <2>13
    <3> HIDE DEF r, s
    <3>2. kp \in Int /\ kq \in Int /\ u \in Nat \ {0}
      BY <2>2, <2>13
    <3>3. kp = kq /\ r = s
      BY <3>1, <3>2, RemainderUnique
    <3>4. QED
      BY <3>3 DEF r, s
  <2>15. fp = fq
    BY <2>8, <2>14
  <2>16. ap = aq
    BY <2>10, <2>11, <2>15
  <2>17. p - 1 = q - 1
    BY <2>10, <2>14, <2>16
  <2>18. QED
    BY <1>1, <2>17
<1>7. QED
  BY <1>1, <1>2, <1>3, <1>4, <1>5, <1>6

\* All but less than a round of batches of the places are taken in an epoch.
LEMMA SlotsTaken ==
  ASSUME plan \in Plans, ~Uneven, NEW e \in Nat, plan.kind # "stream" => e \in 0..plan.epochs
  PROVE  \E n \in 0..plan.total :
           /\ plan.total < n + Round
           /\ plan.kind # "stream" => n <= plan.world * Each
           /\ \A p \in 1..n : \E k \in Ranks, c \in 0..(Pass - 1) :
                \E t \in DOMAIN Share(k, e)[c + 1] : Slot(k, c, t) = p
<1> DEFINE w == plan.world
           b == plan.batch
           m == plan.total
           g == b * w
<1>1. w \in Nat \ {0} /\ b \in Nat \ {0} /\ m \in Nat \ {0} /\ Pass \in Nat /\ Round = g
  BY PlanOptions, PassIs DEF Round
<1>2. g \in Nat \ {0}
  <2>1. g \in Nat
    BY <1>1
  <2>2. 1 * w <= b * w
    <3>1. 1 <= b /\ 1 \in Nat
      BY <1>1
    <3>2. QED
      BY <1>1, <3>1, ProductGrows
  <2> HIDE DEF w, b
  <2>3. 1 <= g
    BY <1>1, <2>1, <2>2
  <2>4. QED
    BY <2>1, <2>3
<1>3. CASE plan.kind = "stream"
  <2> DEFINE v == w * Pass
             y == b * v
             n == IF m <= y THEN m ELSE y
             l == Ceil(m, b)
             z == b * l
  <2>1. l < v + w /\ m <= z /\ l \in Nat
    <3>1. Len(StreamBatches) < w * Pass + w /\ Len(StreamBatches) = l
      BY <1>3, StreamIs DEF Pass
    <3>2. l \in Nat /\ m <= b * l
      BY <1>1, CeilIs
    <3>3. QED
      BY <3>1, <3>2
  <2> HIDE DEF w, b, l
  <2>2. v \in Nat
    BY <1>1
  <2> HIDE DEF v
  <2>3. y \in Nat /\ z \in Nat
    BY <1>1, <2>1, <2>2
  <2>4. m < y + g
    <3> DEFINE o == v + w
    <3>1. l + 1 <= o /\ l + 1 \in Nat /\ o \in Nat
      BY <1>1, <2>1, <2>2
    <3> HIDE DEF o
    <3>2. (l + 1) * b <= o * b
      BY <1>1, <3>1, ProductGrows
    <3>3. (l + 1) * b = z + b
      BY <1>1, <2>1
    <3>4. o * b = y + g
      <4>1. (v + w) * b = b * v + b * w
        BY <1>1, <2>2
      <4>2. QED
        BY <4>1 DEF o
    <3> HIDE DEF y, z, g
    <3>5. z + b <= y + g
      BY <3>2, <3>3, <3>4
    <3>6. QED
      BY <1>1, <1>2, <2>1, <2>3, <3>5
  <2>5. n \in 0..m /\ m < n + g /\ n <= y
    <3> HIDE DEF y, g, m
    <3>1. QED
      BY <1>1, <1>2, <2>3, <2>4
  <2>6. ASSUME NEW p \in 1..n
        PROVE  \E k \in Ranks, c \in 0..(Pass - 1) : \E t \in DOMAIN Share(k, e)[c + 1] : Slot(k, c, t) = p
    <3> DEFINE a == p - 1
               j == a \div b
               r == a % b
               c == j \div w
               k == j % w
               t == r + 1
    <3>1. a \in Nat /\ a < y /\ p \in Nat /\ p <= m /\ p = a + 1
      <4> HIDE DEF n, y, m
      <4>1. QED
        BY <1>1, <2>3, <2>5
    <3> HIDE DEF n, m, a
    <3>2. j \in 0..(v - 1) /\ r \in 0..(b - 1) /\ a = b * j + r
      BY <1>1, <2>2, <3>1, QuotientBelow
    <3> HIDE DEF j, r
    <3>3. j \in Nat /\ j < w * Pass
      BY <2>2, <3>2 DEF v
    <3>4. c \in 0..(Pass - 1) /\ k \in 0..(w - 1) /\ j = w * c + k
      BY <1>1, <3>3, QuotientBelow
    <3> HIDE DEF c, k
    <3>5. k \in Ranks /\ t \in Nat \ {0} /\ t <= b /\ c \in Nat
      BY <1>1, <3>2, <3>4 DEF Ranks, w
    <3>6. Slot(k, c, t) = p
      <4>1. Slot(k, c, t) = (c * w + k) * b + t
        BY <1>3 DEF Slot, w, b
      <4>2. c * w + k = j
        BY <1>1, <3>4, <3>5
      <4> DEFINE x == j * b
      <4>3. x \in Nat /\ x = b * j
        BY <1>1, <3>3
      <4>4. Slot(k, c, t) = x + t
        BY <4>1, <4>2
      <4> HIDE DEF x
      <4>5. x + t = p
        BY <1>1, <3>1, <3>2, <4>3
      <4>6. QED
        BY <4>4, <4>5
    <3> HIDE DEF t
    <3>7. t \in DOMAIN Share(k, e)[c + 1]
      BY <1>3, <3>1, <3>4, <3>5, <3>6, StreamHas DEF b, m
    <3>8. QED
      BY <3>4, <3>5, <3>6, <3>7
  <2>7. QED
    BY <1>1, <1>3, <2>5, <2>6
<1>4. CASE plan.kind # "stream"
  <2>1. PICK l \in Nat : l <= Each /\ l <= b * Pass /\ m < w * l + g
    BY <1>1, <1>4, PassTakes
  <2>2. Each \in Nat
    BY <1>4, EachIs
  <2> HIDE DEF w, b
  <2> DEFINE y == w * l
             n == IF m <= y THEN m ELSE y
             z == w * Each
  <2>3. y \in Nat /\ z \in Nat /\ y <= z
    <3>1. l * w <= Each * w
      BY <1>1, <2>1, <2>2, ProductGrows
    <3>2. l * w = y /\ Each * w = z /\ y \in Nat /\ z \in Nat
      BY <1>1, <2>1, <2>2
    <3>3. QED
      BY <3>1, <3>2
  <2>4. n \in 0..m /\ m < n + g /\ n <= y /\ n <= z
    <3>1. m < y + g
      BY <2>1
    <3> HIDE DEF y, g, m, z
    <3>2. QED
      BY <1>1, <1>2, <2>3, <3>1
  <2>5. ASSUME NEW p \in 1..n
        PROVE  \E k \in Ranks, c \in 0..(Pass - 1) : \E t \in DOMAIN Share(k, e)[c + 1] : Slot(k, c, t) = p
    <3> DEFINE a == p - 1
               j == a \div w
               k == a % w
               c == j \div b
               r == j % b
               t == r + 1
    <3>1. a \in Nat /\ a < y /\ p \in Nat /\ p = a + 1
      <4> HIDE DEF n, y, m
      <4>1. QED
        BY <1>1, <2>3, <2>4
    <3> HIDE DEF n, m, a
    <3>2. j \in 0..(l - 1) /\ k \in 0..(w - 1) /\ a = w * j + k
      BY <1>1, <2>1, <3>1, QuotientBelow
    <3> HIDE DEF j, k
    <3>3. j \in Nat /\ j < b * Pass /\ j + 1 <= Each
      <4> DEFINE x == b * Pass
      <4>1. x \in Nat
        BY <1>1
      <4>2. l <= x
        BY <2>1
      <4> HIDE DEF x
      <4>3. j \in Nat /\ j < x /\ j + 1 <= Each
        BY <2>1, <2>2, <3>2, <4>1, <4>2
      <4>4. QED
        BY <4>3 DEF x
    <3>4. c \in 0..(Pass - 1) /\ r \in 0..(b - 1) /\ j = b * c + r
      BY <1>1, <3>3, QuotientBelow
    <3> HIDE DEF c, r
    <3>5. k \in Ranks /\ t \in Nat \ {0} /\ t <= b /\ c \in Nat
      BY <1>1, <3>2, <3>4 DEF Ranks, w
    <3>6. c * b + t = j + 1
      <4> DEFINE x == c * b
      <4>1. x \in Nat /\ x = b * c
        BY <1>1, <3>5
      <4> HIDE DEF x
      <4>2. x + t = j + 1
        BY <1>1, <3>4, <4>1
      <4>3. QED
        BY <4>2 DEF x
    <3>7. Slot(k, c, t) = p
      <4>1. Slot(k, c, t) = Place(k, j + 1)
        BY <1>4, <3>6 DEF Slot, b
      <4>2. Place(k, j + 1) = j * w + k + 1
        <5>1. (j + 1) - 1 = j
          BY <3>3
        <5>2. QED
          BY <5>1 DEF Place, w
      <4> DEFINE x == j * w
      <4>3. x \in Nat /\ x = w * j
        BY <1>1, <3>3
      <4> HIDE DEF x
      <4>4. x + k + 1 = p
        BY <1>1, <3>1, <3>2, <4>3
      <4>5. QED
        BY <4>1, <4>2, <4>4 DEF x
    <3> HIDE DEF t
    <3>8. t \in DOMAIN Share(k, e)[c + 1]
      BY <1>4, <3>3, <3>4, <3>5, <3>6, ShareHas DEF b
    <3>9. QED
      BY <3>4, <3>5, <3>7, <3>8
  <2>6. QED
    BY <1>1, <1>4, <2>4, <2>5 DEF w
<1>5. QED
  BY <1>3, <1>4

-----------------------------------------------------------------------------
(* What has been trained on in an epoch.                                   *)

\* What step i trained process j - 1 on, if that was in the epoch.
Piece(e, i, j) == IF EpochOf(i, j - 1) = e THEN trained[i][j - 1].batch ELSE <<>>
Pieces(e, i) == [j \in 1..plan.world |-> Piece(e, i, j)]
Whole(e) == [i \in DOMAIN trained |-> FlattenSeq(Pieces(e, i))]

\* The step of the epoch it was.
StepOf(e, i) == i - 1 - e * Pass

\* What an epoch has trained on is made up of its pieces.
LEMMA TrainedInIs ==
  \A e : TrainedIn(e) = FlattenSeq(Whole(e))
BY DEF TrainedIn, Whole, Pieces, Piece

\* A step belongs to the epoch that the batches before it make up.
LEMMA EpochIs ==
  ASSUME RunInv, PlaceInv, ~Uneven, NEW i \in DOMAIN trained, NEW k \in Ranks
  PROVE  /\ EpochOf(i, k) \in Nat /\ (plan.kind # "stream" => EpochOf(i, k) \in 0..plan.epochs)
         /\ trained[i][k].batch \in Seq(Indices)
         /\ \E c \in 0..(Pass - 1) :
              /\ i - 1 = EpochOf(i, k) * Pass + c
              /\ ~Reshuffled(EpochOf(i, k)) =>
                   trained[i][k].batch = Share(k, EpochOf(i, k))[c + 1]
<1>1. /\ plan \in Plans /\ trained \in Seq([Ranks -> Steps]) /\ global_step \in Nat
      /\ global_step <= MaxSteps /\ Len(trained) = global_step
  BY DEF RunInv, RunTyped
<1>2. trained[i] \in [Ranks -> Steps] /\ i \in Nat \ {0} /\ i <= global_step
  BY <1>1
<1>3. trained[i][k].batch \in Seq(Indices)
  BY <1>2 DEF Steps
<1>4. PICK e \in Nat, c \in 0..(Pass - 1) :
        /\ i - 1 = e * Pass + c
        /\ plan.kind # "megatron" => trained[i][k].epoch = e
        /\ ~Reshuffled(e) => trained[i][k].batch = Share(k, e)[c + 1]
  BY DEF PlaceInv, Past
<1>5. Pass \in Nat \ {0} /\ (plan.kind # "stream" => Pass = EpochSteps)
  <2>1. Pass \in Nat /\ (plan.kind # "stream" => Pass = EpochSteps)
    BY <1>1, PassIs
  <2>2. QED
    BY <1>4, <2>1
<1>6. EpochOf(i, k) = e
  <2>1. CASE plan.kind = "megatron"
    <3> DEFINE x == i - 1
               d == Pass
    <3>1. x = d * e + c /\ d \in Nat \ {0} /\ c \in 0..(d - 1)
      <4>1. e * Pass = d * e
        BY <1>5
      <4>2. QED
        BY <1>4, <1>5, <4>1
    <3>2. EpochOf(i, k) = x \div d
      BY <1>5, <2>1 DEF EpochOf
    <3> HIDE DEF x, d
    <3>3. QED
      BY <3>1, <3>2, Quotient
  <2>2. CASE plan.kind # "megatron"
    BY <1>4, <2>2 DEF EpochOf
  <2>3. QED
    BY <2>1, <2>2
<1>7. ASSUME plan.kind # "stream" PROVE e \in 0..plan.epochs
  <2> DEFINE x == e * Pass
             y == plan.epochs * Pass
             p == plan.epochs
  <2>1. MaxSteps = y /\ p \in Nat
    BY <1>1, <1>5, <1>7, StepsToTake, PlanOptions
  <2> HIDE DEF p
  <2>2. x \in Nat /\ y \in Nat
    BY <1>5, <2>1 DEF p
  <2>3. x + c < y
    <3>1. i - 1 < y /\ i - 1 = x + c
      <4> HIDE DEF x, y
      <4>1. i - 1 < y
        BY <1>1, <1>2, <2>1, <2>2
      <4>2. i - 1 = x + c
        BY <1>4 DEF x
      <4>3. QED
        BY <4>1, <4>2
    <3>2. QED
      BY <3>1
  <2>4. SUFFICES ASSUME p <= e PROVE FALSE
    BY <2>1 DEF p
  <2>5. p * Pass <= e * Pass
    BY <1>5, <2>1, <2>4, ProductGrows
  <2>6. y <= x
    BY <2>5 DEF p
  <2> HIDE DEF x, y
  <2>7. QED
    BY <1>5, <2>2, <2>3, <2>6
<1>8. QED
  BY <1>3, <1>4, <1>6, <1>7

\* The pieces of an epoch are the batches of its steps.
LEMMA PieceIs ==
  ASSUME RunInv, PlaceInv, ~Uneven, NEW e \in Nat, ~Reshuffled(e),
         NEW i \in DOMAIN trained, NEW j \in 1..plan.world
  PROVE  /\ j - 1 \in Ranks /\ Piece(e, i, j) \in Seq(Indices)
         /\ StepOf(e, i) \in 0..(Pass - 1) => Piece(e, i, j) = Share(j - 1, e)[StepOf(e, i) + 1]
         /\ Piece(e, i, j) # <<>> =>
              /\ StepOf(e, i) \in 0..(Pass - 1)
              /\ plan.kind # "stream" => e \in 0..plan.epochs
<1> DEFINE k == j - 1
           f == EpochOf(i, k)
<1>1. plan \in Plans /\ plan.world \in Nat \ {0} /\ Pass \in Nat
  BY PlanOptions, PassIs DEF RunInv, RunTyped
<1>2. k \in Ranks
  BY <1>1 DEF Ranks
<1> HIDE DEF k, f
<1>3. /\ f \in Nat /\ (plan.kind # "stream" => f \in 0..plan.epochs)
      /\ trained[i][k].batch \in Seq(Indices)
      /\ \E c \in 0..(Pass - 1) :
           /\ i - 1 = f * Pass + c
           /\ ~Reshuffled(f) => trained[i][k].batch = Share(k, f)[c + 1]
  BY <1>2, EpochIs DEF f
<1>4. PICK c \in 0..(Pass - 1) :
           /\ i - 1 = f * Pass + c
           /\ ~Reshuffled(f) => trained[i][k].batch = Share(k, f)[c + 1]
  BY <1>3
<1>5. Piece(e, i, j) = IF f = e THEN trained[i][k].batch ELSE <<>>
  BY DEF Piece, f, k
<1>6. Pass \in Nat \ {0}
  BY <1>1, <1>4
<1>7. ASSUME f = e
      PROVE  StepOf(e, i) = c /\ Piece(e, i, j) = Share(k, e)[c + 1]
  <2> DEFINE x == e * Pass
  <2>1. x \in Nat
    BY <1>1
  <2>2. i - 1 = x + c
    BY <1>4, <1>7
  <2>3. StepOf(e, i) = (i - 1) - x
    BY DEF StepOf
  <2> HIDE DEF x
  <2>4. StepOf(e, i) = c
    BY <1>1, <2>1, <2>2, <2>3
  <2>5. QED
    BY <1>4, <1>5, <1>7, <2>4
<1>8. ASSUME StepOf(e, i) \in 0..(Pass - 1) PROVE f = e
  <2> DEFINE s == StepOf(e, i)
             x == e * Pass
             y == f * Pass
  <2>1. x \in Nat /\ y \in Nat /\ x = Pass * e /\ y = Pass * f
    BY <1>1, <1>3
  <2>2. s = i - 1 - x
    BY DEF StepOf
  <2>3. i - 1 = y + c
    BY <1>4
  <2> HIDE DEF s, x, y
  <2>4. s \in 0..(Pass - 1)
    BY <1>8 DEF s
  <2>5. i - 1 = x + s
    <3>1. i \in Int
      BY DEF RunInv, RunTyped
    <3>2. QED
      BY <1>6, <2>1, <2>2, <2>4, <3>1
  <2>6. Pass * e + s = Pass * f + c
    BY <2>1, <2>3, <2>5
  <2>7. e \in Int /\ f \in Int
    BY <1>3
  <2>8. QED
    BY <1>6, <2>4, <2>6, <2>7, RemainderUnique
<1>9. Piece(e, i, j) \in Seq(Indices)
  BY <1>3, <1>5
<1>10. QED
  BY <1>2, <1>3, <1>5, <1>7, <1>8, <1>9 DEF k

\* Where the elements of each sequence start in the flattened one.
Start(s, n) == CHOOSE start : Counts(s, n, start)

\* The place of a piece's sample in what has been trained on.
Position(e, i, j, t) == Start(Whole(e), Len(trained))[i - 1] + (Start(Pieces(e, i), plan.world)[j - 1] + t)

\* The pieces are sequences of samples, and have their places.
LEMMA WholeIs ==
  ASSUME RunInv, PlaceInv, ~Uneven, NEW e \in Nat, ~Reshuffled(e)
  PROVE  /\ DOMAIN trained = 1..Len(trained) /\ Len(trained) \in Nat /\ plan.world \in Nat
         /\ \A i \in 1..Len(trained) :
              /\ Pieces(e, i) \in [1..plan.world -> Seq(Indices)]
              /\ Counts(Pieces(e, i), plan.world, Start(Pieces(e, i), plan.world))
         /\ Whole(e) \in [1..Len(trained) -> Seq(Indices)]
         /\ Counts(Whole(e), Len(trained), Start(Whole(e), Len(trained)))
<1> DEFINE n == Len(trained)
           w == plan.world
<1>1. DOMAIN trained = 1..n /\ n \in Nat /\ w \in Nat
  BY PlanOptions DEF RunInv, RunTyped
<1> HIDE DEF n, w
<1>2. ASSUME NEW i \in 1..n
      PROVE  Pieces(e, i) \in [1..w -> Seq(Indices)] /\ Counts(Pieces(e, i), w, Start(Pieces(e, i), w))
  <2>1. Pieces(e, i) \in [1..w -> Seq(Indices)]
    <3>1. \A j \in 1..w : Piece(e, i, j) \in Seq(Indices)
      BY <1>1, PieceIs DEF w
    <3>2. QED
      BY <3>1 DEF Pieces, w
  <2>2. \E start : Counts(Pieces(e, i), w, start)
    BY <1>1, <2>1, CountsExist
  <2>3. QED
    BY <2>1, <2>2 DEF Start
<1>3. Whole(e) \in [1..n -> Seq(Indices)]
  <2>1. \A i \in 1..n : FlattenSeq(Pieces(e, i)) \in Seq(Indices)
    BY <1>1, <1>2, FlattenParts
  <2>2. QED
    BY <1>1, <2>1 DEF Whole
<1>4. \E start : Counts(Whole(e), n, start)
  BY <1>1, <1>3, CountsExist
<1>5. Counts(Whole(e), n, Start(Whole(e), n))
  BY <1>4 DEF Start
<1>6. QED
  BY <1>1, <1>2, <1>3, <1>5 DEF n, w

\* Every sample of every piece has been trained on.
LEMMA PieceTrained ==
  ASSUME RunInv, PlaceInv, ~Uneven, NEW e \in Nat, ~Reshuffled(e),
         NEW i \in DOMAIN trained, NEW j \in 1..plan.world, NEW t \in DOMAIN Piece(e, i, j)
  PROVE  Piece(e, i, j)[t] \in ToSet(TrainedIn(e))
<1> DEFINE n == Len(trained)
           w == plan.world
           ps == Pieces(e, i)
           wh == Whole(e)
           x == Start(ps, w)[j - 1] + t
<1>1. /\ i \in 1..n /\ n \in Nat /\ w \in Nat
      /\ ps \in [1..w -> Seq(Indices)] /\ Counts(ps, w, Start(ps, w))
      /\ wh \in [1..n -> Seq(Indices)] /\ Counts(wh, n, Start(wh, n))
  BY WholeIs
<1>2. ps[j] = Piece(e, i, j) /\ wh[i] = FlattenSeq(ps)
  BY DEF Pieces, Whole
<1> HIDE DEF n, w, ps, wh
<1>3. x \in DOMAIN wh[i] /\ wh[i][x] = Piece(e, i, j)[t]
  <2>1. j \in 1..w /\ t \in DOMAIN ps[j]
    BY <1>2 DEF w
  <2>2. x \in DOMAIN FlattenSeq(ps) /\ FlattenSeq(ps)[x] = ps[j][t]
    <3> DEFINE o == Start(ps, w)
    <3>1. Counts(ps, w, o) /\ ps \in [1..w -> Seq(Indices)] /\ w \in Nat
      BY <1>1
    <3> HIDE DEF o
    <3>2. HasAt(FlattenSeq(ps), o[j - 1] + t, ps[j][t])
      BY <2>1, <3>1, FlattenHas
    <3>3. QED
      BY <3>2 DEF o, HasAt
  <2>3. QED
    BY <1>2, <2>2
<1> HIDE DEF x
<1>4. /\ Start(wh, n)[i - 1] + x \in DOMAIN FlattenSeq(wh)
      /\ FlattenSeq(wh)[Start(wh, n)[i - 1] + x] = wh[i][x]
  <2> DEFINE o == Start(wh, n)
  <2>1. Counts(wh, n, o) /\ wh \in [1..n -> Seq(Indices)] /\ n \in Nat /\ i \in 1..n
    BY <1>1
  <2> HIDE DEF o
  <2>2. HasAt(FlattenSeq(wh), o[i - 1] + x, wh[i][x])
    BY <1>3, <2>1, FlattenHas
  <2>3. QED
    BY <2>2 DEF o, HasAt
<1>5. TrainedIn(e) = FlattenSeq(wh)
  BY TrainedInIs DEF wh
<1>6. QED
  BY <1>3, <1>4, <1>5 DEF ToSet

\* The sample at a position is one of a piece.
SampleAt(e, p, i, j, t) ==
  /\ t \in DOMAIN Piece(e, i, j)
  /\ p = Position(e, i, j, t) /\ TrainedIn(e)[p] = Piece(e, i, j)[t]

\* Each position has a sample of a piece.
LEMMA TrainedPieces ==
  ASSUME RunInv, PlaceInv, ~Uneven, NEW e \in Nat, ~Reshuffled(e)
  PROVE  /\ TrainedIn(e) \in Seq(Indices)
         /\ \A p \in 1..Len(TrainedIn(e)) :
              \E i \in DOMAIN trained, j \in 1..plan.world : \E t \in Nat \ {0} : SampleAt(e, p, i, j, t)
<1> DEFINE n == Len(trained)
           w == plan.world
           wh == Whole(e)
           all == TrainedIn(e)
<1>1. /\ DOMAIN trained = 1..n /\ n \in Nat /\ w \in Nat
      /\ \A i \in 1..n : Pieces(e, i) \in [1..w -> Seq(Indices)] /\ Counts(Pieces(e, i), w, Start(Pieces(e, i), w))
      /\ wh \in [1..n -> Seq(Indices)] /\ Counts(wh, n, Start(wh, n))
  BY WholeIs
<1>2. all = FlattenSeq(wh)
  BY TrainedInIs
<1>3. \A i \in 1..n : wh[i] = FlattenSeq(Pieces(e, i))
  BY <1>1 DEF Whole
<1> HIDE DEF n, w, wh, all
<1>4. all \in Seq(Indices) /\ Len(all) = Start(wh, n)[n] /\ InParts(wh, n, Start(wh, n), all)
  BY <1>1, <1>2, FlattenParts
<1>5. ASSUME NEW p \in 1..Len(all)
      PROVE  \E i \in DOMAIN trained, j \in 1..plan.world : \E t \in Nat \ {0} : SampleAt(e, p, i, j, t)
  <2>1. PICK i \in 1..n : \E x \in 1..Len(wh[i]) : p = Start(wh, n)[i - 1] + x /\ all[p] = wh[i][x]
    BY <1>4 DEF InParts
  <2>2. PICK x \in 1..Len(wh[i]) : p = Start(wh, n)[i - 1] + x /\ all[p] = wh[i][x]
    BY <2>1
  <2> DEFINE ps == Pieces(e, i)
  <2>3. ps \in [1..w -> Seq(Indices)] /\ Counts(ps, w, Start(ps, w)) /\ wh[i] = FlattenSeq(ps)
    BY <1>1, <1>3
  <2>4. \A j \in 1..w : ps[j] = Piece(e, i, j)
    BY DEF Pieces, w
  <2> HIDE DEF ps
  <2>5. Len(wh[i]) = Start(ps, w)[w] /\ InParts(ps, w, Start(ps, w), wh[i])
    BY <1>1, <2>3, FlattenParts
  <2>6. PICK j \in 1..w : \E t \in 1..Len(ps[j]) : x = Start(ps, w)[j - 1] + t /\ wh[i][x] = ps[j][t]
    BY <2>2, <2>5 DEF InParts
  <2>7. PICK t \in 1..Len(ps[j]) : x = Start(ps, w)[j - 1] + t /\ wh[i][x] = ps[j][t]
    BY <2>6
  <2>8. t \in DOMAIN Piece(e, i, j) /\ t \in Nat \ {0}
    <3>1. ps[j] \in Seq(Indices)
      BY <2>3
    <3>2. QED
      BY <2>4, <2>7, <3>1
  <2>9. p = Position(e, i, j, t)
    BY <2>2, <2>7 DEF Position, n, w, wh, ps
  <2>10. all[p] = Piece(e, i, j)[t]
    BY <2>2, <2>4, <2>7
  <2>11. SampleAt(e, p, i, j, t)
    BY <2>8, <2>9, <2>10 DEF SampleAt, all
  <2>12. QED
    BY <1>1, <2>8, <2>11 DEF w
<1>6. QED
  BY <1>4, <1>5 DEF all

\* The place in the order of the epoch of what is at a position.
MarkOf(e, p, s) ==
  \E i \in DOMAIN trained, j \in 1..plan.world : \E t \in Nat \ {0} :
    SampleAt(e, p, i, j, t) /\ s = Slot(j - 1, StepOf(e, i), t)

\* Each position has one, and has what is there.
LEMMA MarkIs ==
  ASSUME RunInv, PlaceInv, ~Uneven, NEW e \in Nat, ~Reshuffled(e), NEW p, NEW s, MarkOf(e, p, s)
  PROVE  /\ s \in 1..(plan.total + Repeats) /\ TrainedIn(e)[p] = Item(e, s)
         /\ plan.kind # "stream" => s <= plan.world * Each /\ e \in 0..plan.epochs
<1>1. PICK i \in DOMAIN trained, j \in 1..plan.world : \E t \in Nat \ {0} :
        SampleAt(e, p, i, j, t) /\ s = Slot(j - 1, StepOf(e, i), t)
  BY DEF MarkOf
<1>2. PICK t \in Nat \ {0} : SampleAt(e, p, i, j, t) /\ s = Slot(j - 1, StepOf(e, i), t)
  BY <1>1
<1> DEFINE c == StepOf(e, i)
           k == j - 1
<1>3. t \in DOMAIN Piece(e, i, j) /\ TrainedIn(e)[p] = Piece(e, i, j)[t]
  BY <1>2 DEF SampleAt
<1>4. Piece(e, i, j) # <<>>
  BY <1>3
<1>5. /\ k \in Ranks /\ c \in 0..(Pass - 1) /\ Piece(e, i, j) = Share(k, e)[c + 1]
      /\ plan.kind # "stream" => e \in 0..plan.epochs
  BY <1>4, PieceIs
<1>6. plan \in Plans
  BY DEF RunInv, RunTyped
<1> HIDE DEF c, k
<1>7. t \in DOMAIN Share(k, e)[c + 1]
  BY <1>3, <1>5
<1>8. /\ Slot(k, c, t) \in 1..(plan.total + Repeats)
      /\ plan.kind # "stream" => Slot(k, c, t) <= plan.world * Each
      /\ Share(k, e)[c + 1][t] = Item(e, Slot(k, c, t))
  BY <1>5, <1>6, <1>7, SlotIs
<1>9. s = Slot(k, c, t)
  BY <1>2 DEF c, k
<1>10. QED
  BY <1>3, <1>5, <1>8, <1>9

\* No two have the same.
LEMMA MarkUnique ==
  ASSUME RunInv, PlaceInv, ~Uneven, NEW e \in Nat, ~Reshuffled(e), NEW p, NEW q, NEW s,
         MarkOf(e, p, s), MarkOf(e, q, s)
  PROVE  p = q
<1>1. PICK i \in DOMAIN trained, j \in 1..plan.world : \E t \in Nat \ {0} :
        SampleAt(e, p, i, j, t) /\ s = Slot(j - 1, StepOf(e, i), t)
  BY DEF MarkOf
<1>2. PICK t \in Nat \ {0} : SampleAt(e, p, i, j, t) /\ s = Slot(j - 1, StepOf(e, i), t)
  BY <1>1
<1>3. PICK h \in DOMAIN trained, l \in 1..plan.world : \E u \in Nat \ {0} :
        SampleAt(e, q, h, l, u) /\ s = Slot(l - 1, StepOf(e, h), u)
  BY DEF MarkOf
<1>4. PICK u \in Nat \ {0} : SampleAt(e, q, h, l, u) /\ s = Slot(l - 1, StepOf(e, h), u)
  BY <1>3
<1>5. plan \in Plans /\ plan.kind \in {"shard", "sequence", "stream", "megatron"} /\ Pass \in Nat
      /\ trained \in Seq([Ranks -> Steps])
  BY PlanOptions, PassIs DEF RunInv, RunTyped
<1>6. ASSUME NEW r, NEW a \in DOMAIN trained, NEW b \in 1..plan.world, NEW v \in Nat \ {0}, SampleAt(e, r, a, b, v)
      PROVE  b - 1 \in Ranks /\ StepOf(e, a) \in 0..(Pass - 1) /\ v \in 1..plan.batch
             /\ r = Position(e, a, b, v)
  <2> DEFINE c == StepOf(e, a)
             k == b - 1
  <2>1. v \in DOMAIN Piece(e, a, b) /\ r = Position(e, a, b, v)
    BY <1>6 DEF SampleAt
  <2>2. Piece(e, a, b) # <<>>
    BY <2>1
  <2>3. /\ k \in Ranks /\ c \in 0..(Pass - 1) /\ Piece(e, a, b) = Share(k, e)[c + 1]
        /\ plan.kind # "stream" => e \in 0..plan.epochs
    BY <2>2, PieceIs
  <2> HIDE DEF c, k
  <2>4. v \in DOMAIN Share(k, e)[c + 1]
    BY <2>1, <2>3
  <2>5. v \in 1..plan.batch
    BY <1>5, <2>3, <2>4, SlotIs
  <2>6. QED
    BY <2>1, <2>3, <2>5 DEF c, k
<1>7. /\ j - 1 \in Ranks /\ StepOf(e, i) \in 0..(Pass - 1) /\ t \in 1..plan.batch
      /\ p = Position(e, i, j, t)
  BY <1>2, <1>6
<1>8. /\ l - 1 \in Ranks /\ StepOf(e, h) \in 0..(Pass - 1) /\ u \in 1..plan.batch
      /\ q = Position(e, h, l, u)
  BY <1>4, <1>6
<1>9. j - 1 = l - 1 /\ StepOf(e, i) = StepOf(e, h) /\ t = u
  <2> DEFINE a == StepOf(e, i)
             b == StepOf(e, h)
             m == j - 1
             n == l - 1
  <2>1. a \in Nat /\ b \in Nat /\ m \in Ranks /\ n \in Ranks /\ Slot(m, a, t) = Slot(n, b, u)
    BY <1>2, <1>4, <1>5, <1>7, <1>8
  <2> HIDE DEF a, b, m, n
  <2>2. m = n /\ a = b /\ t = u
    <3>1. t \in 1..plan.batch /\ u \in 1..plan.batch /\ plan \in Plans
      BY <1>5, <1>7, <1>8
    <3>2. QED
      BY <2>1, <3>1, SlotUnique
  <2>3. QED
    BY <2>2 DEF a, b, m, n
<1>10. i = h
  <2> DEFINE x == e * Pass
  <2>1. x \in Nat
    BY <1>5
  <2>2. StepOf(e, i) = i - 1 - x /\ StepOf(e, h) = h - 1 - x
    BY DEF StepOf
  <2> HIDE DEF x
  <2>3. i \in Nat /\ h \in Nat
    BY <1>5
  <2>4. i - 1 - x = h - 1 - x
    BY <1>9, <2>2
  <2>5. QED
    BY <2>1, <2>3, <2>4
<1>11. j = l
  BY <1>9
<1>12. QED
  BY <1>7, <1>8, <1>9, <1>10, <1>11

\* Nothing is trained on twice in an epoch, but what fills up the last round.
LEMMA TrainedOnce ==
  ASSUME RunInv, PlaceInv, ~Uneven, NEW e \in Nat, ~Reshuffled(e)
  PROVE  OnceIn(e)
<1> DEFINE s == TrainedIn(e)
           n == plan.total
           r == Repeats
           m == Len(s)
           mark == [p \in 1..m |-> CHOOSE x : MarkOf(e, p, x)]
<1>1. plan \in Plans /\ n \in Nat /\ r \in Nat
  <2>1. plan \in Plans
    BY DEF RunInv, RunTyped
  <2>2. plan.kind = "stream" => r = 0
    BY DEF Repeats
  <2>3. QED
    BY <2>1, <2>2, PlanOptions, EachIs
<1>2. s \in Seq(Indices)
  BY TrainedPieces
<1>3. ASSUME NEW p \in 1..m PROVE MarkOf(e, p, mark[p])
  <2>1. \E x : MarkOf(e, p, x)
    BY TrainedPieces DEF MarkOf
  <2>2. mark[p] = CHOOSE x : MarkOf(e, p, x)
    OBVIOUS
  <2>3. QED
    BY <2>1, <2>2, Zenon
<1>4. mark = [p \in 1..m |-> mark[p]]
  OBVIOUS
<1> HIDE DEF mark, s, m, n, r
<1>5. ASSUME NEW p \in 1..m
      PROVE  /\ mark[p] \in 1..(n + r) /\ s[p] = Item(e, mark[p])
             /\ plan.kind # "stream" => mark[p] <= plan.world * Each /\ e \in 0..plan.epochs
  BY <1>3, MarkIs DEF s, n, r
<1>6. mark \in [1..m -> 1..(n + r)]
  BY <1>4, <1>5
<1>7. \A p, q \in 1..m : mark[p] = mark[q] => p = q
  BY <1>3, MarkUnique
<1>8. ASSUME NEW p \in 1..m, NEW q \in 1..m, mark[p] <= n, mark[q] <= n, s[p] = s[q]
      PROVE  mark[p] = mark[q]
  <2> DEFINE x == mark[p]
             y == mark[q]
  <2>1. x \in 1..n /\ y \in 1..n
    BY <1>1, <1>5, <1>8
  <2>2. Item(e, x) = Item(e, y)
    BY <1>5, <1>8
  <2>3. /\ plan.kind # "stream" => e \in 0..plan.epochs
        /\ plan.kind # "stream" => x <= plan.world * Each /\ y <= plan.world * Each
    BY <1>5
  <2> HIDE DEF x, y
  <2>4. x = y
    BY <1>1, <2>1, <2>2, <2>3, ItemUnique DEF n
  <2>5. QED
    BY <2>4 DEF x, y
<1>9. Len(s) <= Cardinality(ToSet(s)) + r
  <2>1. mark \in [1..Len(s) -> 1..(n + r)] /\ n \in Nat /\ r \in Nat
    BY <1>1, <1>6 DEF m
  <2>2. \A p, q \in 1..Len(s) : mark[p] = mark[q] => p = q
    BY <1>7 DEF m
  <2>3. \A p, q \in 1..Len(s) : mark[p] <= n /\ mark[q] <= n /\ s[p] = s[q] => mark[p] = mark[q]
    BY <1>8 DEF m
  <2>4. QED
    BY <1>2, <2>1, <2>2, <2>3, FewRepeated
<1>10. QED
  BY <1>9 DEF OnceIn, Distinct, s, r

\* When the next epoch has begun, all steps of an epoch have been trained.
LEMMA EpochOver ==
  ASSUME RunInv, PlaceInv, ~Uneven, NEW e \in Nat, e + 1 \in Epochs, NEW c \in 0..(Pass - 1)
  PROVE  e * Pass + c + 1 \in DOMAIN trained /\ StepOf(e, e * Pass + c + 1) = c
<1> DEFINE x == e * Pass
           i == x + c + 1
           n == Len(trained)
<1>1. plan \in Plans /\ trained \in Seq([Ranks -> Steps])
  BY DEF RunInv, RunTyped
<1>2. Pass \in Nat /\ n \in Nat /\ DOMAIN trained = 1..n
  BY <1>1, PassIs
<1>3. PICK h \in DOMAIN trained, l \in Ranks : e + 1 = EpochOf(h, l)
  BY DEF Epochs
<1>4. PICK d \in 0..(Pass - 1) : h - 1 = EpochOf(h, l) * Pass + d
  BY EpochIs
<1>5. (e + 1) * Pass = x + Pass /\ x \in Nat
  BY <1>2
<1>6. h - 1 = x + Pass + d /\ h \in 1..n
  BY <1>2, <1>3, <1>4, <1>5
<1>7. StepOf(e, i) = i - 1 - x
  BY DEF StepOf
<1> HIDE DEF x, n
<1>8. i \in 1..n /\ i - 1 - x = c
  BY <1>2, <1>5, <1>6
<1>9. StepOf(e, i) = c
  BY <1>7, <1>8
<1>10. QED
  BY <1>2, <1>8, <1>9 DEF x

\* An epoch that is over has left out less than a round of batches.
LEMMA TrainedEnough ==
  ASSUME RunInv, PlaceInv, ~Uneven, NEW e \in Nat, ~Reshuffled(e),
         plan.kind # "stream" => e \in 0..plan.epochs, e + 1 \in Epochs
  PROVE  Distinct(e) > plan.total - Round
<1> DEFINE X == ToSet(TrainedIn(e))
<1>1. plan \in Plans /\ Pass \in Nat /\ plan.total \in Nat /\ plan.world \in Nat
  BY PassIs, PlanOptions DEF RunInv, RunTyped
<1>2. PICK n \in 0..plan.total :
           /\ plan.total < n + Round
           /\ plan.kind # "stream" => n <= plan.world * Each
           /\ \A p \in 1..n : \E k \in Ranks, c \in 0..(Pass - 1) :
                \E t \in DOMAIN Share(k, e)[c + 1] : Slot(k, c, t) = p
  BY <1>1, SlotsTaken
<1>3. ASSUME NEW p \in 1..n PROVE Item(e, p) \in X
  <2>1. PICK k \in Ranks, c \in 0..(Pass - 1) : \E t \in DOMAIN Share(k, e)[c + 1] : Slot(k, c, t) = p
    BY <1>2
  <2>2. PICK t \in DOMAIN Share(k, e)[c + 1] : Slot(k, c, t) = p
    BY <2>1
  <2>3. Share(k, e)[c + 1][t] = Item(e, p)
    BY <1>1, <2>2, SlotIs
  <2> DEFINE i == e * Pass + c + 1
             j == k + 1
  <2>4. i \in DOMAIN trained /\ StepOf(e, i) = c
    BY EpochOver
  <2>5. j \in 1..plan.world /\ j - 1 = k
    BY <1>1 DEF Ranks
  <2> HIDE DEF i, j
  <2>6. Piece(e, i, j) = Share(k, e)[c + 1]
    BY <2>4, <2>5, PieceIs
  <2>7. Piece(e, i, j)[t] \in X
    BY <2>2, <2>4, <2>5, <2>6, PieceTrained
  <2>8. QED
    BY <2>3, <2>6, <2>7
<1> DEFINE v == [p \in 1..n |-> Item(e, p)]
<1> HIDE DEF X
<1>4. v \in [1..n -> X]
  BY <1>3
<1>5. ASSUME NEW p \in 1..n, NEW q \in 1..n, v[p] = v[q] PROVE p = q
  <2>1. Item(e, p) = Item(e, q)
    BY <1>5
  <2>2. p \in 1..plan.total /\ q \in 1..plan.total
    BY <1>1, <1>2
  <2>3. plan.kind # "stream" => p <= plan.world * Each /\ q <= plan.world * Each
    <3>1. SUFFICES ASSUME plan.kind # "stream" PROVE p <= plan.world * Each /\ q <= plan.world * Each
      OBVIOUS
    <3> DEFINE y == plan.world * Each
    <3>2. y \in Nat
      <4>1. Each \in Nat
        BY <1>1, <3>1, EachIs
      <4>2. QED
        BY <1>1, <4>1
    <3>3. n <= y
      BY <1>2, <3>1
    <3> HIDE DEF y
    <3>4. p <= y /\ q <= y
      BY <3>2, <3>3
    <3>5. QED
      BY <3>4 DEF y
  <2>4. QED
    BY <1>1, <2>1, <2>2, <2>3, ItemUnique
<1>6. TrainedIn(e) \in Seq(Indices)
  BY TrainedPieces
<1> HIDE DEF v
<1>7. n <= Cardinality(X) /\ Cardinality(X) \in Nat
  <2>1. n \in Nat
    OBVIOUS
  <2>2. QED
    BY <1>4, <1>5, <1>6, <2>1, ElementsFinite DEF X
<1>8. Round \in Nat
  BY <1>1, PlanOptions DEF Round
<1>9. plan.total < n + Round
  BY <1>2
<1>10. QED
  BY <1>1, <1>7, <1>8, <1>9 DEF Distinct, X

\* No sample is trained on twice in an epoch, and an epoch that is over has left out less than
\* a round of batches: the samplers' shares are disjoint and after a crash the resumed loader
\* goes on where the checkpoint was.  Uneven jobs and Reshuffled epochs are excepted.
THEOREM EpochsTrainedOnce == LoadSpec => []EpochTrainedOnce
<1>1. ASSUME RunInv, PlaceInv, NEW e \in Epochs, ~Uneven /\ ~Reshuffled(e)
      PROVE  OnceIn(e) /\ (e + 1 \in Epochs => Distinct(e) > plan.total - Round)
  <2>1. e \in Nat /\ (plan.kind # "stream" => e \in 0..plan.epochs)
    <3>1. PICK i \in DOMAIN trained, k \in Ranks : e = EpochOf(i, k)
      BY DEF Epochs
    <3>2. QED
      BY <1>1, <3>1, EpochIs
  <2>2. QED
    BY <1>1, <2>1, TrainedOnce, TrainedEnough
<1>2. RunInv /\ PlaceInv => EpochTrainedOnce
  BY <1>1 DEF EpochTrainedOnce
<1>3. QED
  BY <1>2, LoadSpecInv, PTL
=============================================================================
