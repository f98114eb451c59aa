--------------------------- MODULE RolloutServer ---------------------------
(***************************************************************************)
(* `swift rollout`: swift/pipelines/infer/rollout.py and the trainer's     *)
(* side of it, VLLMClient in swift/rlhf_trainers/vllm_client.py.           *)
(* The server process drives one vLLM process per data-parallel rank over  *)
(* a pipe.  Its HTTP handlers block the event loop, so it handles one      *)
(* request at a time: a `fire_and_forget` request is only written to the   *)
(* pipes, a `call` also reads one reply from each.  A weight update is a   *)
(* fire_and_forget request followed by a collective broadcast in which the *)
(* trainer and every worker take part, past the server.                    *)
(*                                                                         *)
(* Trainers come one after the other (a session each); a parameter's value *)
(* is the number of the synchronisation that produced it.                  *)
(***************************************************************************)
EXTENDS Integers, Sequences, FiniteSets, SequencesExt

CONSTANTS
  NumWorkers,     \* self.num_connections
  Params,         \* what one synchronisation moves: tensors or flat buckets
  Plans,          \* per synchronisation, the tensors of each update request
  Sizes,          \* bound: numbers of prompts an infer request may have
  MaxVersion,     \* bound: synchronisations
  MaxAsks,        \* bound: infer requests
  MaxSessions,    \* bound: trainers
  MaxKills,       \* bound: trainers and worker processes killed (no atexit)
  MaxFaults,      \* bound: methods of workers that raise
  Nobody          \* no request, no answer

\* A plan moves every tensor, and no request of it is empty.
ASSUME RolloutAssumption ==
  /\ NumWorkers \in Nat \ {0}
  /\ Plans \subseteq Seq(Seq(Params) \ {<<>>}) \ {<<>>}
  /\ \A p \in Plans : \A q \in Params : \E u \in DOMAIN p : \E i \in DOMAIN p[u] : p[u][i] = q
  /\ Sizes \subseteq Nat \ {0}
  /\ {MaxVersion, MaxAsks, MaxSessions, MaxKills, MaxFaults} \subseteq Nat

Kinds == {"init", "update", "reset", "infer", "close"}

\* Nobody is neither a request nor an answer.
ASSUME NobodyAssumption ==
  /\ Nobody \notin [kind : Kinds, from : Nat, data : Seq(Params) \cup Seq(Nat \X Nat)]
  /\ Nobody \notin [kind : Kinds, ok : BOOLEAN,
                    items : Seq([prompt : Nat \X Nat, weight : [Params -> Nat], stale : BOOLEAN])]

VARIABLES
  server,      \* the FastAPI application: starting, up or failed
  pending,     \* HTTP requests that wait for the event loop
  handling,    \* the request whose handler is in its connection.recv() loop
  toWorker,    \* per worker, the commands in its pipe
  fromWorker,  \* per worker, the replies in its pipe
  worker,      \* where each worker process is
  command,     \* the update a worker runs
  landed,      \* the tensors it has received of that update
  comm,        \* WeightSyncWorkerExtension.communicator: 0 or the group's number
  weight,      \* the parameters each worker's model holds
  cached,      \* the parameters each worker's prefix cache was computed with
  trainer,     \* where the trainer's call into VLLMClient is
  session,     \* number of trainers so far
  own,         \* the trainer's communicator (pynccl_comms): 0 or the group's number
  plan, update, tensor, \* update_*: the plan, the request and the tensor reached
  version,     \* the trainer's parameters
  synced,      \* the version the last synchronisation of this session moved
  asks,        \* infer requests so far
  asked,       \* how many prompts the last of them has
  answer,      \* the HTTP response on its way to the trainer
  result,      \* what VLLMClient.infer returned last
  groups, crashes, faults  \* groups formed; trainers killed; methods that raised

clientVars == <<session, own, plan, update, tensor, version, synced, asks, asked, result>>
workerVars == <<worker, command, landed, comm, weight, cached>>
ghosts     == <<groups, crashes, faults>>
vars == <<server, pending, handling, toWorker, fromWorker, workerVars, trainer, clientVars, answer, ghosts>>

Workers == 1..NumWorkers
IsCall(kind) == kind \in {"reset", "infer"}
Request(kind, data) == [kind |-> kind, from |-> session, data |-> data]

Alive(w) == worker[w] # "dead"
AllAlive == \A w \in Workers : Alive(w)
Killed == crashes + Cardinality({w \in Workers : ~Alive(w)})

\* The connections before the first dead one: those a loop that raises there has used.
Before(D) == {w \in Workers : \A d \in D : w < d}

\* A worker's reply: `ok` is FALSE for the None of a method that raised.
Reply(ok, items) == [ok |-> ok, items |-> items]
Ready == Reply(TRUE, <<>>)

\* The response goes to the trainer that asked, if it is still there.
Respond(req, ok, items) ==
  answer' = IF req.from = session /\ trainer = "ask"
              THEN [kind |-> req.kind, ok |-> ok, items |-> items] ELSE Nobody

\* A method of a worker returns or raises.
Outcomes == IF faults < MaxFaults THEN BOOLEAN ELSE {TRUE}
Count(ok) == faults' = IF ok THEN faults ELSE faults + 1

Init ==
  /\ server = "starting"
  /\ pending = <<>>
  /\ handling = Nobody
  /\ toWorker = [w \in Workers |-> <<>>]
  /\ fromWorker = [w \in Workers |-> <<>>]
  /\ worker = [w \in Workers |-> "starting"]
  /\ command = [w \in Workers |-> <<>>]
  /\ landed = [w \in Workers |-> <<>>]
  /\ comm = [w \in Workers |-> 0]
  /\ weight = [w \in Workers |-> [p \in Params |-> 0]]
  /\ cached = [w \in Workers |-> {}]
  /\ trainer = "off"
  /\ session = 0 /\ own = 0 /\ plan = <<>> /\ update = 0 /\ tensor = 0
  /\ version = 0 /\ synced = 0 /\ asks = 0 /\ asked = 0
  /\ answer = Nobody /\ result = Nobody
  /\ groups = 0 /\ crashes = 0 /\ faults = 0

-----------------------------------------------------------------------------
(* Start-up: every worker reports, the server waits for all the reports.   *)

WorkerReady(w) ==
  /\ worker[w] = "starting"
  /\ \E ok \in Outcomes :
       /\ worker' = [worker EXCEPT ![w] = IF ok THEN "idle" ELSE "dead"]
       /\ fromWorker' = [fromWorker EXCEPT ![w] = <<Reply(ok, <<>>)>>]
       /\ Count(ok)
  /\ UNCHANGED <<server, pending, handling, toWorker, command, landed, comm, weight, cached,
                 trainer, clientVars, answer, groups, crashes>>

\* lifespan: up once all are ready, failed on an error report or a dead process.
Lifespan ==
  /\ server = "starting"
  /\ \/ /\ \A w \in Workers : fromWorker[w] = <<Ready>>
        /\ server' = "up"
        /\ fromWorker' = [w \in Workers |-> <<>>]
     \/ /\ \E w \in Workers : ~Alive(w) /\ fromWorker[w] # <<Ready>>
        /\ server' = "failed"
        /\ UNCHANGED fromWorker
  /\ UNCHANGED <<pending, handling, toWorker, workerVars, trainer, clientVars, answer, ghosts>>

-----------------------------------------------------------------------------
(* The server: one request at a time, a handler never awaits.              *)

\* chunk_list(infer_requests, n): the first Len % n chunks are one longer.
ChunkStart(s, n, i) ==
  LET m == Len(s) % n IN i * (Len(s) \div n) + (IF i < m THEN i ELSE m)
ChunkList(s, n) == [w \in 1..n |-> SubSeq(s, ChunkStart(s, n, w - 1) + 1, ChunkStart(s, n, w))]

Placeholder == <<0, 0>>

\* What the handler writes to worker w's pipe; an empty chunk is one placeholder.
CommandFor(req, w) ==
  IF req.kind # "infer" THEN req
  ELSE LET chunk == ChunkList(req.data, NumWorkers)[w]
       IN  [req EXCEPT !.data = IF chunk = <<>> THEN <<Placeholder>> ELSE chunk]

(* The handler up to its recv loop.  A dead worker's pipe raises in send.  *)
Handle ==
  /\ server = "up" /\ handling = Nobody
  /\ pending # <<>>
  /\ LET req  == Head(pending)
         dead == {w \in Workers : ~Alive(w)}
     IN  /\ toWorker' = [w \in Workers |->
                           IF w \in Before(dead) THEN Append(toWorker[w], CommandFor(req, w))
                           ELSE toWorker[w]]
         /\ IF dead = {} /\ IsCall(req.kind)
              THEN handling' = req /\ UNCHANGED answer
              ELSE Respond(req, dead = {}, <<>>) /\ UNCHANGED handling
  /\ pending' = Tail(pending)
  /\ UNCHANGED <<server, fromWorker, workerVars, trainer, clientVars, ghosts>>

\* Mutant of Used: the answers to the placeholders are kept.
UsedAll(req) == {w \in Workers : req.kind = "infer"}

\* The workers whose output an infer handler keeps: those that got prompts.
Used(req) ==
  {w \in Workers : req.kind = "infer" /\ ChunkList(req.data, NumWorkers)[w] # <<>>}

(* The recv loop and the response: the outputs of the workers in use one   *)
(* after the other.  A closed pipe, or None where a list is due, raises.   *)
Collect ==
  /\ handling # Nobody
  /\ LET broken == {w \in Workers : ~Alive(w) /\ fromWorker[w] = <<>>}
         read   == Before(broken)
         output(w) == Head(fromWorker[w])
     IN  /\ \A w \in read : fromWorker[w] # <<>>
         /\ fromWorker' = [w \in Workers |-> IF w \in read THEN Tail(fromWorker[w]) ELSE fromWorker[w]]
         /\ IF broken = {} /\ \A w \in Used(handling) : output(w).ok
              THEN Respond(handling, TRUE, FlattenSeq([w \in Workers |->
                                             IF w \in Used(handling) THEN output(w).items ELSE <<>>]))
              ELSE Respond(handling, FALSE, <<>>)
  /\ handling' = Nobody
  /\ UNCHANGED <<server, pending, toWorker, workerVars, trainer, clientVars, ghosts>>

-----------------------------------------------------------------------------
(* A worker: llm_worker's loop takes one command at a time.                *)

Gets(w, kind) == worker[w] = "idle" /\ toWorker[w] # <<>> /\ Head(toWorker[w]).kind = kind

Took(w) ==
  /\ toWorker' = [toWorker EXCEPT ![w] = Tail(@)]
  /\ UNCHANGED <<server, pending, handling, trainer, clientVars, answer, groups, crashes>>

TakeInit(w) ==
  /\ Gets(w, "init")
  /\ worker' = [worker EXCEPT ![w] = IF comm[w] # 0 THEN "idle" ELSE "join"]
  /\ Took(w)
  /\ UNCHANGED <<fromWorker, command, landed, comm, weight, cached, faults>>

\* Without a communicator it raises, which the loop logs.
TakeUpdate(w) ==
  /\ Gets(w, "update")
  /\ IF comm[w] = 0 THEN UNCHANGED <<worker, command>>
     ELSE /\ worker' = [worker EXCEPT ![w] = "recv"]
          /\ command' = [command EXCEPT ![w] = Head(toWorker[w]).data]
  /\ Took(w)
  /\ UNCHANGED <<fromWorker, landed, comm, weight, cached, faults>>

\* Mutant of TakeClose: the worker keeps its communicator.
TakeCloseKeeps(w) ==
  /\ Gets(w, "close")
  /\ Took(w)
  /\ UNCHANGED <<fromWorker, worker, command, landed, comm, weight, cached, faults>>

TakeClose(w) ==
  /\ Gets(w, "close")
  /\ comm' = [comm EXCEPT ![w] = 0]
  /\ Took(w)
  /\ UNCHANGED <<fromWorker, worker, command, landed, weight, cached, faults>>

\* Mutant of TakeReset: it answers, the cached blocks stay.
TakeResetKeeps(w) ==
  /\ Gets(w, "reset")
  /\ fromWorker' = [fromWorker EXCEPT ![w] = Append(@, Ready)]
  /\ Took(w)
  /\ UNCHANGED <<worker, command, landed, comm, weight, cached, faults>>

TakeReset(w) ==
  /\ Gets(w, "reset")
  /\ \E ok \in Outcomes :
       /\ cached' = [cached EXCEPT ![w] = IF ok THEN {} ELSE @]
       /\ fromWorker' = [fromWorker EXCEPT ![w] = Append(@, Reply(ok, <<>>))]
       /\ Count(ok)
  /\ Took(w)
  /\ UNCHANGED <<worker, command, landed, comm, weight>>

\* Prompts that share a prefix with earlier ones reuse what is cached of it.
TakeInfer(w) ==
  /\ Gets(w, "infer")
  /\ LET prompts == Head(toWorker[w]).data
         stale   == \E c \in cached[w] : c # weight[w]
     IN  \E ok \in Outcomes :
           /\ fromWorker' = [fromWorker EXCEPT ![w] = Append(@, Reply(ok,
                IF ok THEN [i \in DOMAIN prompts |->
                              [prompt |-> prompts[i], weight |-> weight[w], stale |-> stale]]
                ELSE <<>>))]
           /\ cached' = [cached EXCEPT ![w] = IF ok THEN @ \cup {weight[w]} ELSE @]
           /\ Count(ok)
  /\ Took(w)
  /\ UNCHANGED <<worker, command, landed, comm, weight>>

(* After the barrier: model.load_weights, or an exception the loop logs.   *)
Load(w) ==
  /\ worker[w] = "load"
  /\ \E ok \in Outcomes :
       /\ weight' = [weight EXCEPT ![w] = [p \in Params |->
            IF ok /\ \E i \in DOMAIN command[w] : command[w][i] = p
              THEN landed[w][CHOOSE i \in DOMAIN command[w] : command[w][i] = p].value ELSE @[p]]]
       /\ Count(ok)
  /\ worker' = [worker EXCEPT ![w] = "idle"]
  /\ command' = [command EXCEPT ![w] = <<>>]
  /\ landed' = [landed EXCEPT ![w] = <<>>]
  /\ UNCHANGED <<server, pending, handling, toWorker, fromWorker, comm, cached, trainer, clientVars,
                 answer, groups, crashes>>

WorkerDies(w) ==
  /\ Alive(w)
  /\ Killed < MaxKills
  /\ worker' = [worker EXCEPT ![w] = "dead"]
  /\ toWorker' = [toWorker EXCEPT ![w] = <<>>]
  /\ UNCHANGED <<server, pending, handling, fromWorker, command, landed, comm, weight, cached,
                 trainer, clientVars, answer, ghosts>>

-----------------------------------------------------------------------------
(* The trainer: one blocking VLLMClient call at a time.                    *)

\* Mutant of Post: the request is sent from the background, the trainer goes on.
PostAndGoOn(kind, data) ==
  /\ pending' = Append(pending, Request(kind, data))
  /\ trainer' = "idle"

Post(kind, data) ==
  /\ pending' = Append(pending, Request(kind, data))
  /\ trainer' = "ask"

Unasked == UNCHANGED <<server, handling, toWorker, fromWorker, workerVars, crashes, faults>>

StartTrainer ==
  /\ trainer = "off" /\ server = "up"
  /\ session < MaxSessions
  /\ session' = session + 1
  /\ trainer' = "idle"
  /\ UNCHANGED <<pending, own, plan, update, tensor, version, synced, asks, asked, result, answer, groups>>
  /\ Unasked

AskInit ==
  /\ trainer = "idle" /\ own = 0
  /\ Post("init", <<>>)
  /\ UNCHANGED <<clientVars, answer, groups>>
  /\ Unasked

(* StatelessProcessGroup.create and PyNcclCommunicator return once every   *)
(* rank of the group is there.                                             *)
Join ==
  /\ trainer = "join"
  /\ \A w \in Workers : worker[w] = "join"
  /\ groups' = groups + 1
  /\ own' = groups + 1
  /\ comm' = [w \in Workers |-> groups + 1]
  /\ worker' = [w \in Workers |-> "idle"]
  /\ trainer' = "idle"
  /\ UNCHANGED <<server, pending, handling, toWorker, fromWorker, command, landed, weight, cached,
                 session, plan, update, tensor, version, synced, asks, asked, result, answer, crashes, faults>>

AskSync ==
  /\ trainer = "idle" /\ own # 0
  /\ version < MaxVersion
  /\ version' = version + 1
  /\ \E p \in Plans : plan' = p /\ Post("update", p[1])
  /\ update' = 1
  /\ result' = Nobody
  /\ UNCHANGED <<session, own, tensor, synced, asks, asked, answer, groups>>
  /\ Unasked

\* The tensor the trainer broadcasts next: the announced order is its own.
CurrentTensor == plan[update][tensor]

(* communicator.broadcast on the trainer and on every worker: collectives  *)
(* pair up by order.  After the last one, the barrier; then the trainer    *)
(* posts the next update, or reset_prefix_cache after the last.            *)
Broadcast ==
  /\ trainer = "send"
  /\ \A w \in Workers : worker[w] = "recv" /\ comm[w] = own
  /\ landed' = [w \in Workers |->
                  Append(landed[w], [param |-> CurrentTensor, value |-> version])]
  /\ worker' = [w \in Workers |->
                  IF Len(landed[w]) + 1 = Len(command[w]) THEN "load" ELSE "recv"]
  /\ IF tensor < Len(plan[update])
       THEN tensor' = tensor + 1 /\ UNCHANGED <<pending, trainer, update>>
     ELSE /\ tensor' = 0
          /\ IF update < Len(plan)
               THEN update' = update + 1 /\ Post("update", plan[update + 1])
               ELSE update' = 0 /\ Post("reset", <<>>)
  /\ UNCHANGED <<server, handling, toWorker, fromWorker, command, comm, weight, cached,
                 session, own, plan, version, synced, asks, asked, result, answer, ghosts>>

AskInfer ==
  /\ trainer = "idle"
  /\ asks < MaxAsks
  /\ asks' = asks + 1
  /\ \E n \in Sizes : asked' = n /\ Post("infer", [i \in 1..n |-> <<asks + 1, i>>])
  /\ result' = Nobody
  /\ UNCHANGED <<session, own, plan, update, tensor, version, synced, answer, groups>>
  /\ Unasked

\* The process ends: atexit closes the communicator if there is one.
Leave ==
  /\ IF own # 0 THEN Post("close", <<>>) ELSE trainer' = "off" /\ UNCHANGED pending
  /\ own' = 0 /\ synced' = 0 /\ plan' = <<>> /\ update' = 0 /\ tensor' = 0 /\ result' = Nobody

Exit ==
  /\ trainer = "idle"
  /\ Leave
  /\ UNCHANGED <<session, version, asks, asked, answer, groups>>
  /\ Unasked

(* The response to the request: 500 raises, except for close which warns.  *)
Receive ==
  /\ trainer = "ask" /\ answer # Nobody
  /\ answer' = Nobody
  /\ CASE answer.kind = "close" ->
             trainer' = "off" /\ UNCHANGED <<pending, own, plan, update, tensor, synced, result>>
       [] answer.kind # "close" /\ ~answer.ok -> Leave
       [] answer.kind = "init" /\ answer.ok ->
             trainer' = "join" /\ UNCHANGED <<pending, own, plan, update, tensor, synced, result>>
       [] answer.kind = "update" /\ answer.ok ->
             trainer' = "send" /\ tensor' = 1 /\ UNCHANGED <<pending, own, plan, update, synced, result>>
       [] answer.kind = "reset" /\ answer.ok ->
             /\ trainer' = "idle" /\ synced' = version /\ plan' = <<>>
             /\ UNCHANGED <<pending, own, update, tensor, result>>
       [] answer.kind = "infer" /\ answer.ok ->
             trainer' = "idle" /\ result' = answer.items /\ UNCHANGED <<pending, own, plan, update, tensor, synced>>
  /\ UNCHANGED <<session, version, asks, asked, groups>>
  /\ Unasked

\* What is left of the pending requests if the trainer's goes with its connection: it
\* is the last one.
WithoutOwn ==
  IF pending # <<>> /\ Last(pending).from = session THEN Front(pending) ELSE pending

(* Killed: no atexit.  A request not yet read may go with its connection.  *)
Crash ==
  /\ trainer # "off"
  /\ Killed < MaxKills
  /\ crashes' = crashes + 1
  /\ pending' \in {pending, WithoutOwn}
  /\ trainer' = "off"
  /\ own' = 0 /\ synced' = 0 /\ plan' = <<>> /\ update' = 0 /\ tensor' = 0 /\ result' = Nobody
  /\ answer' = Nobody
  /\ UNCHANGED <<server, handling, toWorker, fromWorker, workerVars, session, version, asks, asked, groups, faults>>

-----------------------------------------------------------------------------
WorkerStep(w) ==
  \/ WorkerReady(w)
  \/ TakeInit(w)
  \/ TakeUpdate(w)
  \/ TakeClose(w)
  \/ TakeReset(w)
  \/ TakeInfer(w)
  \/ Load(w)

ServerStep  == Lifespan \/ Handle \/ Collect
TrainerStep == Receive \/ Join \/ Broadcast
TrainerAsks == StartTrainer \/ AskInit \/ AskSync \/ AskInfer \/ Exit

Next ==
  \/ ServerStep
  \/ TrainerStep
  \/ TrainerAsks
  \/ Crash
  \/ \E w \in Workers : WorkerStep(w) \/ WorkerDies(w)

\* The processes are scheduled; what the trainer asks for is its own affair.
Fairness ==
  /\ WF_vars(ServerStep)
  /\ WF_vars(TrainerStep)
  /\ \A w \in Workers : WF_vars(WorkerStep(w))

Spec == Init /\ [][Next]_vars
FairSpec == Spec /\ Fairness
-----------------------------------------------------------------------------
(* Properties.                                                             *)

Weights == [Params -> 0..MaxVersion]
Prompts == UNION {(1..MaxAsks) \X (1..n) : n \in Sizes}
Outputs == [prompt : Prompts \cup {Placeholder}, weight : Weights, stale : BOOLEAN]

\* Every variable has its type, and only one request of the trainer is out at a time.
TypeOK ==
  /\ server \in {"starting", "up", "failed"}
  /\ \A i \in DOMAIN pending : pending[i].kind \in Kinds
  /\ handling # Nobody => IsCall(handling.kind)
  /\ worker \in [Workers -> {"starting", "idle", "join", "recv", "load", "dead"}]
  /\ \A w \in Workers : \A i \in DOMAIN fromWorker[w] :
       fromWorker[w][i].ok \in BOOLEAN /\ fromWorker[w][i].items \in Seq(Outputs)
  /\ command \in [Workers -> Seq(Params)]
  /\ comm \in [Workers -> 0..groups]
  /\ weight \in [Workers -> Weights]
  /\ cached \in [Workers -> SUBSET Weights]
  /\ trainer \in {"off", "idle", "ask", "join", "send"}
  /\ own \in 0..groups /\ version \in 0..MaxVersion /\ synced \in 0..version
  /\ result # Nobody => result \in Seq(Outputs)
  /\ Cardinality({i \in DOMAIN pending : pending[i].from = session}) <= 1

\* infer returns one output per prompt, in order, for the prompts of this call:
\* none left out, no placeholder, no reply left in a pipe by a request that failed
\* half-way.
AnswersTheAsk ==
  result # Nobody =>
    [i \in DOMAIN result |-> result[i].prompt] = [i \in 1..asked |-> <<asks, i>>]

InferredOnSynced ==
  (result # Nobody /\ synced # 0 /\ faults = 0) =>
    \A i \in DOMAIN result :
      /\ ~result[i].stale
      /\ \A p \in Params : result[i].weight[p] = synced

TensorsMatch ==
  \A w \in Workers : \A i \in DOMAIN landed[w] :
    /\ i \in DOMAIN command[w]
    /\ landed[w][i].param = command[w][i]
    /\ landed[w][i].value = version

\* What a broadcast delivers to a worker is the tensor its command announces, from
\* the trainer that is running; and an inference after a synchronisation runs on the
\* synchronised parameters, all of them, on every worker, and on no cached prefix of
\* earlier ones, although the workers load after the trainer has gone on.
SyncedInference == TensorsMatch /\ InferredOnSynced

\* A call of a trainer ends, with a result or an exception, as long as no worker
\* was killed and no trainer was killed.
CallsEnd ==
  (trainer \in {"ask", "join", "send"}) ~>
    (trainer \in {"idle", "off"} \/ ~AllAlive \/ crashes > 0)
=============================================================================
