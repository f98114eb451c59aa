------------------------- MODULE TransformersEngine -------------------------
(***************************************************************************)
(* The asynchronous half of swift/infer_engine/transformers_engine.py.     *)
(* Coroutines call infer_async: each puts (request, kwargs, reply queue)   *)
(* on a thread-safe queue and waits.  One daemon thread drains that queue  *)
(* into _task_pool, an insertion-ordered dict keyed by the hash of the     *)
(* request config, takes a batch from its first entry, runs the model and  *)
(* posts one item per batch member to the members' reply queues.           *)
(*                                                                         *)
(* A caller is one infer_async call.  Prompts, generated text and the      *)
(* model are abstracted to: does the request encode (ok), and which batch  *)
(* members get new text in a streaming step.                               *)
(***************************************************************************)
EXTENDS Integers, Sequences, FiniteSets, SequencesExt

CONSTANTS
  Requests,       \* the infer_async calls
  Configs,        \* request configs (one per sha256 of the pickled config)
  StreamConfigs,  \* those with stream = True
  Adapters,       \* adapter_request values, the base model included
  MaxBatchSize,   \* self.max_batch_size
  MaxChunks,      \* bound: intermediate chunks one streaming batch yields
  CanFail,        \* whether model.generate may raise
  NoKwargs        \* kwargs of a worker that has no batch

ASSUME EngineAssumption ==
  /\ StreamConfigs \subseteq Configs
  /\ MaxBatchSize \in Int
  /\ MaxChunks \in Nat
  /\ CanFail \in BOOLEAN
  /\ NoKwargs \notin [cfg : Configs, adapter : Adapters]

VARIABLES
  strict,   \* getattr(self, 'strict', True): set by the pipeline, then fixed
  call,     \* the arguments of each call, fixed
  queue,    \* self._queue
  pool,     \* self._task_pool: its entries in insertion order
  worker,   \* self._task_thread and the place the thread has reached
  batch,    \* queue_list: the members of the batch the worker holds
  kwargs,   \* the keyword arguments the batch is run with
  chunks,   \* intermediate chunks of the streaming batch so far
  inbox,    \* the asyncio.Queue each call waits on
  caller,   \* where each call is
  got       \* what each call has received

vars == <<strict, call, queue, pool, worker, batch, kwargs, chunks, inbox, caller, got>>

callVars   == <<strict, call>>
workerVars == <<batch, kwargs, chunks>>

Kwargs == [cfg : Configs, adapter : Adapters]
Kinds  == {"full", "delta", "last", "error", "none"}
Items  == [kind : Kinds, by : Kwargs]
Entry  == [key : Configs, kwargs : Kwargs, data : Seq(Requests)]

\* Set of the elements of a sequence.
Members(s) == {s[n] : n \in DOMAIN s}

-----------------------------------------------------------------------------
(* One call's arguments, the pool and the batch it yields.                 *)

KwargsOf(r) == [cfg |-> call[r].cfg, adapter |-> call[r].adapter]
Streams(cfg) == cfg \in StreamConfigs

\* Mutant of KeyOf: a request joins the list that is first in the pool.
KeyOfFirst(r) == IF pool = <<>> THEN call[r].cfg ELSE pool[1].key

\* The pool key: a hash of kwargs['request_config'] and of nothing else.
KeyOf(r) == call[r].cfg

\* Mutant of AddTask: the list grows at its front.
AddTaskInFront(r) ==
  IF \E i \in DOMAIN pool : pool[i].key = KeyOf(r)
    THEN [i \in DOMAIN pool |->
            IF pool[i].key = KeyOf(r)
              THEN [pool[i] EXCEPT !.data = <<r>> \o @] ELSE pool[i]]
    ELSE Append(pool, [key |-> KeyOf(r), kwargs |-> KwargsOf(r), data |-> <<r>>])

\* A new key stores the kwargs of its first request; later ones join its list.
AddTask(r) ==
  IF \E i \in DOMAIN pool : pool[i].key = KeyOf(r)
    THEN [i \in DOMAIN pool |->
            IF pool[i].key = KeyOf(r)
              THEN [pool[i] EXCEPT !.data = Append(@, r)] ELSE pool[i]]
    ELSE Append(pool, [key |-> KeyOf(r), kwargs |-> KwargsOf(r), data |-> <<r>>])

\* Mutant of BatchLen: the slice is one longer than max_batch_size.
BatchLenPlusOne(data) ==
  IF MaxBatchSize <= 0 \/ Len(data) <= MaxBatchSize THEN Len(data) ELSE MaxBatchSize + 1

BatchLen(data) ==
  IF MaxBatchSize <= 0 \/ Len(data) < MaxBatchSize THEN Len(data) ELSE MaxBatchSize

\* Mutant of Remaining: the entry is popped with what the batch left of it.
RemainingPopped(n) == Tail(pool)

\* Mutant of Remaining: the entry keeps its whole list if the batch left any.
RemainingWhole(n) == IF n < Len(pool[1].data) THEN pool ELSE Tail(pool)

\* What the first entry keeps once a batch of n has been cut off its front.
Remaining(n) ==
  IF n < Len(pool[1].data)
    THEN [pool EXCEPT ![1].data = SubSeq(@, n + 1, Len(@))]
    ELSE Tail(pool)

\* The batch members whose request template.encode accepts.
Good == {r \in Members(batch) : call[r].ok}
Encoded == ~strict \/ Good = Members(batch)

\* One item of each member's kind is posted to its reply queue.
Post(kind) ==
  inbox' = [r \in Requests |->
              IF r \in Members(batch)
                THEN Append(inbox[r], [kind |-> kind[r], by |-> kwargs]) ELSE inbox[r]]

-----------------------------------------------------------------------------
Init ==
  /\ strict \in BOOLEAN
  /\ call \in [Requests -> [cfg : Configs, adapter : Adapters, ok : BOOLEAN]]
  /\ queue = <<>>
  /\ pool = <<>>
  /\ worker = "none"
  /\ batch = <<>>
  /\ kwargs = NoKwargs
  /\ chunks = 0
  /\ inbox = [r \in Requests |-> <<>>]
  /\ caller = [r \in Requests |-> "idle"]
  /\ got = [r \in Requests |-> <<>>]

(* infer_async up to its await asyncio.sleep(0). *)
Call(r) ==
  /\ caller[r] = "idle"
  /\ queue' = Append(queue, r)
  /\ caller' = [caller EXCEPT ![r] = "queued"]
  /\ UNCHANGED <<callVars, pool, worker, workerVars, inbox, got>>

(* infer_async after it: the first call to get here starts the worker. *)
Resume(r) ==
  /\ caller[r] = "queued"
  /\ worker' = IF worker = "none" THEN "fetch" ELSE worker
  /\ caller' = [caller EXCEPT ![r] = "waiting"]
  /\ UNCHANGED <<callVars, queue, pool, workerVars, inbox, got>>

(* await queue.get(), or one turn of _gen_wrapper, which None ends. *)
Receive(r) ==
  /\ caller[r] = "waiting"
  /\ inbox[r] # <<>>
  /\ LET item == Head(inbox[r])
     IN  /\ got' = [got EXCEPT ![r] =
                      IF Streams(call[r].cfg) /\ item.kind = "none" THEN @ ELSE Append(@, item)]
         /\ caller' = [caller EXCEPT ![r] =
                         IF Streams(call[r].cfg) /\ item.kind # "none" THEN @ ELSE "done"]
  /\ inbox' = [inbox EXCEPT ![r] = Tail(@)]
  /\ UNCHANGED <<callVars, queue, pool, worker, workerVars>>

-----------------------------------------------------------------------------
(* One turn of the loop at the top of _fetch_infer_requests. *)
Drain ==
  /\ worker = "fetch"
  /\ queue # <<>>
  /\ pool' = AddTask(Head(queue))
  /\ queue' = Tail(queue)
  /\ UNCHANGED <<callVars, worker, workerVars, inbox, caller, got>>

(* Its rest: the queue is empty, the first entry gives up a batch. *)
Take ==
  /\ worker = "fetch"
  /\ queue = <<>>
  /\ pool # <<>>
  /\ LET n == BatchLen(pool[1].data)
     IN  /\ batch' = SubSeq(pool[1].data, 1, n)
         /\ pool' = Remaining(n)
  /\ kwargs' = pool[1].kwargs
  /\ worker' = "infer"
  /\ UNCHANGED <<callVars, queue, chunks, inbox, caller, got>>

\* Mutant of EncodeRaises: the loop goes on, the batch is not given up.
EncodeRaisesCaught ==
  /\ worker = "infer"
  /\ ~Encoded
  /\ worker' = "fetch"
  /\ UNCHANGED <<callVars, queue, pool, workerVars, inbox, caller, got>>

(* _batch_encode raises out of _infer: the thread ends with its batch. *)
EncodeRaises ==
  /\ worker = "infer"
  /\ ~Encoded
  /\ worker' = "dead"
  /\ UNCHANGED <<callVars, queue, pool, workerVars, inbox, caller, got>>

(* The model raises: in the worker itself, or in the thread that feeds the *)
(* token streamer, whose end() then never comes.                           *)
GenerateRaises ==
  /\ CanFail
  /\ Encoded /\ Good # {}
  /\ \/ worker = "infer" /\ ~Streams(kwargs.cfg) /\ worker' = "dead"
     \/ worker = "stream" /\ worker' = "stuck"
  /\ UNCHANGED <<callVars, queue, pool, workerVars, inbox, caller, got>>

EndBatch ==
  /\ worker' = "fetch"
  /\ batch' = <<>>
  /\ kwargs' = NoKwargs
  /\ chunks' = 0

(* _infer_full, the errors put back at their places, every member answered. *)
AnswerFull ==
  /\ worker = "infer"
  /\ Encoded
  /\ ~Streams(kwargs.cfg)
  /\ Post([r \in Members(batch) |-> IF r \in Good THEN "full" ELSE "error"])
  /\ EndBatch
  /\ UNCHANGED <<callVars, queue, pool, caller, got>>

StartStream ==
  /\ worker = "infer"
  /\ Encoded
  /\ Streams(kwargs.cfg)
  /\ worker' = "stream"
  /\ UNCHANGED <<callVars, queue, pool, workerVars, inbox, caller, got>>

\* Mutant of StreamChunk: a step without text for anybody is yielded as well.
StreamChunkEmpty ==
  /\ worker = "stream"
  /\ chunks < MaxChunks
  /\ \E D \in SUBSET Good :
       Post([r \in Members(batch) |->
               IF r \in D THEN "delta" ELSE IF r \in Good THEN "none" ELSE "error"])
  /\ chunks' = chunks + 1
  /\ UNCHANGED <<callVars, queue, pool, worker, batch, kwargs, caller, got>>

(* A step in which some members have new printable text: the others get the *)
(* None that _infer_stream yields for them.                                 *)
StreamChunk ==
  /\ worker = "stream"
  /\ chunks < MaxChunks
  /\ \E D \in SUBSET Good :
       /\ D # {}
       /\ Post([r \in Members(batch) |->
                  IF r \in D THEN "delta" ELSE IF r \in Good THEN "none" ELSE "error"])
  /\ chunks' = chunks + 1
  /\ UNCHANGED <<callVars, queue, pool, worker, batch, kwargs, caller, got>>

(* The streamer ended: every member gets its last chunk. *)
StreamLast ==
  /\ worker = "stream"
  /\ Post([r \in Members(batch) |-> IF r \in Good THEN "last" ELSE "error"])
  /\ worker' = "stop"
  /\ UNCHANGED <<callVars, queue, pool, workerVars, caller, got>>

\* Mutant of StreamStop: StopIteration ends the batch without the Nones.
StreamStopSilent ==
  /\ worker = "stop"
  /\ EndBatch
  /\ UNCHANGED <<callVars, queue, pool, inbox, caller, got>>

(* StopIteration: [None] * len(queue_list). *)
StreamStop ==
  /\ worker = "stop"
  /\ Post([r \in Members(batch) |-> "none"])
  /\ EndBatch
  /\ UNCHANGED <<callVars, queue, pool, caller, got>>

-----------------------------------------------------------------------------
WorkerStep ==
  \/ Drain
  \/ Take
  \/ EncodeRaises
  \/ AnswerFull
  \/ StartStream
  \/ StreamChunk
  \/ StreamLast
  \/ StreamStop

CallerStep(r) == Call(r) \/ Resume(r) \/ Receive(r)

Next ==
  \/ \E r \in Requests : CallerStep(r)
  \/ WorkerStep
  \/ GenerateRaises

\* The event loop resumes a ready coroutine and the daemon thread is scheduled.
Fairness ==
  /\ WF_vars(WorkerStep)
  /\ \A r \in Requests : WF_vars(Resume(r)) /\ WF_vars(Receive(r))

Spec == Init /\ [][Next]_vars
FairSpec == Spec /\ Fairness
-----------------------------------------------------------------------------
(* Properties.                                                             *)

\* Every variable has its type; the worker has a batch exactly while it runs one.
TypeOK ==
  /\ strict \in BOOLEAN
  /\ call \in [Requests -> [cfg : Configs, adapter : Adapters, ok : BOOLEAN]]
  /\ queue \in Seq(Requests)
  /\ pool \in Seq(Entry)
  /\ worker \in {"none", "fetch", "infer", "stream", "stop", "dead", "stuck"}
  /\ batch \in Seq(Requests)
  /\ kwargs \in Kwargs \cup {NoKwargs}
  /\ chunks \in Nat
  /\ inbox \in [Requests -> Seq(Items)]
  /\ caller \in [Requests -> {"idle", "queued", "waiting", "done"}]
  /\ got \in [Requests -> Seq(Items)]
  /\ worker \in {"none", "fetch"} <=> kwargs = NoKwargs

Queued(r) == r \in Members(queue)
Pooled(r) == \E i \in DOMAIN pool : r \in Members(pool[i].data)
Held(r)   == r \in Members(batch)
Posted(r) == inbox[r] # <<>> \/ got[r] # <<>> \/ caller[r] = "done"

\* No call is lost on its way from the queue through the pool to a batch: as
\* long as nothing was posted to it, it is still in one of the three.
NoCallLost ==
  \A r \in Requests : caller[r] # "idle" => Queued(r) \/ Pooled(r) \/ Held(r) \/ Posted(r)

\* A call is answered once: a full answer is a single item, and a call that has
\* been answered in full is nowhere in the engine, so no later batch repeats it.
AnsweredOnce ==
  \A r \in Requests :
    ~Streams(call[r].cfg) =>
      /\ Len(inbox[r]) + Len(got[r]) <= 1
      /\ Posted(r) => ~Queued(r) /\ ~Pooled(r) /\ ~Held(r)

\* Whatever a call is sent was generated with its own request config, and an
\* exception object is sent to the calls that do not encode and to no other.
OwnConfig ==
  \A r \in Requests : \A item \in Members(inbox[r]) \cup Members(got[r]) :
    /\ item.by.cfg = call[r].cfg
    /\ item.kind = "error" => ~call[r].ok
    /\ item.kind \in {"full", "delta", "last"} => call[r].ok

\* A batch is no larger than max_batch_size, and a config has one pool entry, so
\* two lists of the same config never compete for the head of the dict.
BatchFits ==
  /\ MaxBatchSize > 0 => Len(batch) <= MaxBatchSize
  /\ \A i, j \in DOMAIN pool : pool[i].key = pool[j].key => i = j
  /\ \A i \in DOMAIN pool : pool[i].data # <<>>

\* A stream served alone is not cut short: no None reaches its reader before
\* the generator is exhausted.
LoneStreamNotCut ==
  worker = "stream" /\ Len(batch) = 1 =>
    /\ caller[batch[1]] # "done"
    /\ \A item \in Members(inbox[batch[1]]) : item.kind # "none"

\* The calls of config k in a sequence, in their order.
OfConfig(s, k) == FlattenSeq([i \in DOMAIN s |-> IF call[s[i]].cfg = k THEN <<s[i]>> ELSE <<>>])

\* The list of a pool's entry for config k.
ListOf(entries, k) ==
  LET entry == {i \in DOMAIN entries : entries[i].key = k}
  IN  IF entry = {} THEN <<>> ELSE entries[CHOOSE i \in entry : TRUE].data

\* The calls of config k that wait, oldest first, wherever they are.
Line(k) == ListOf(pool, k) \o OfConfig(queue, k)

\* The calls that have left the engine.
Away == {r \in Requests : caller[r] # "idle" /\ ~Queued(r) /\ ~Pooled(r) /\ ~Held(r)}

Promise == INSTANCE BatchQueue WITH
             config  <- [r \in Requests |-> call[r].cfg],
             waiting <- [k \in Configs |-> Line(k)],
             serving <- batch,
             served  <- Away

\* Per config the engine is a FIFO line cut into batches: the thread-safe queue
\* and the dict that keeps half-served lists reorder nothing within a config.
PerConfigFifo == Promise!Spec

\* Every call ends, unless the daemon thread is gone: nothing restarts it.
CallsEnd ==
  \A r \in Requests :
    caller[r] = "queued" ~> (caller[r] = "done" \/ worker \in {"dead", "stuck"})
=============================================================================
