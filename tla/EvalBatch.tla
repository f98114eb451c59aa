----------------------------- MODULE EvalBatch ------------------------------
(***************************************************************************)
(* swift/pipelines/eval/utils.py: the EvalScope model API.  The evaluation *)
(* harness calls generate from many threads.  Each call makes sure that a  *)
(* module-global batch thread exists, queues its request with a future and *)
(* blocks on the future; _process_batches collects a batch, until the size *)
(* the last request asks for or a 2 s silence, runs it, and resolves the   *)
(* futures one by one.                                                     *)
(*                                                                         *)
(* The global batch_thread is tested, assigned, and read again for its     *)
(* .start() by unsynchronised threads.  So several batch threads may come  *)
(* to run, one may be overwritten before anybody starts it, and a call may *)
(* start the thread of another one, whose own .start() then raises.  A     *)
(* batch thread is named after the call that constructed it.               *)
(***************************************************************************)
EXTENDS Integers, Sequences, FiniteSets

CONSTANTS
  Callers,     \* the calls of EvalModel.generate, each on a thread of its own
  NoThread,    \* the None that batch_thread begins with
  BatchSizes,  \* values of config.batch_size; 0 stands for None (never reached)
  MayRaise     \* whether engine.infer and chat_choices_from_openai may raise

ASSUME EvalAssumption ==
  /\ IsFiniteSet(Callers)
  /\ NoThread \notin Callers
  /\ BatchSizes \subseteq Nat
  /\ MayRaise \in BOOLEAN

VARIABLES
  size,          \* the batch_size each call asks for, fixed
  batch_thread,  \* the thread the global names
  pc,            \* where each call is
  batch_queue,   \* the global queue
  future,        \* the future each call waits on
  place,         \* where each batch thread is in _process_batches
  inputs,        \* the batch it has collected
  at             \* its position in the loop over the batch's futures

vars == <<size, batch_thread, pc, batch_queue, future, place, inputs, at>>

callerVars == <<size, batch_thread, pc>>
threadVars == <<place, inputs, at>>

Members(s) == {s[n] : n \in DOMAIN s}

Init ==
  /\ size \in [Callers -> BatchSizes]
  /\ batch_thread = NoThread
  /\ pc = [c \in Callers |-> "idle"]
  /\ batch_queue = <<>>
  /\ future = [c \in Callers |-> "pending"]
  /\ place = [t \in Callers |-> "off"]
  /\ inputs = [t \in Callers |-> <<>>]
  /\ at = [t \in Callers |-> 1]

-----------------------------------------------------------------------------
(* generate *)

(* `if batch_thread is None`. *)
ReadThread(c) ==
  /\ pc[c] = "idle"
  /\ pc' = [pc EXCEPT ![c] = IF batch_thread = NoThread THEN "create" ELSE "put"]
  /\ UNCHANGED <<size, batch_thread, batch_queue, future, threadVars>>

(* A thread is constructed and the global set to it, whatever it held. *)
AssignThread(c) ==
  /\ pc[c] = "create"
  /\ batch_thread' = c
  /\ place' = [place EXCEPT ![c] = "new"]
  /\ pc' = [pc EXCEPT ![c] = "start"]
  /\ UNCHANGED <<size, batch_queue, future, inputs, at>>

\* Mutant of StartThread: the queue is emptied when a thread begins.
StartThreadAndQueue(c) ==
  /\ pc[c] = "start"
  /\ IF place[batch_thread] = "new"
       THEN /\ place' = [place EXCEPT ![batch_thread] = "collect"]
            /\ pc' = [pc EXCEPT ![c] = "put"]
            /\ batch_queue' = <<>>
       ELSE /\ pc' = [pc EXCEPT ![c] = "failed"]
            /\ UNCHANGED <<place, batch_queue>>
  /\ UNCHANGED <<size, batch_thread, future, inputs, at>>

\* Mutant of StartThread: a call that was overtaken starts nothing and goes on.
StartOwn(c) ==
  /\ pc[c] = "start"
  /\ pc' = [pc EXCEPT ![c] = "put"]
  /\ place' = IF batch_thread = c THEN [place EXCEPT ![c] = "collect"] ELSE place
  /\ UNCHANGED <<size, batch_thread, batch_queue, future, inputs, at>>

(* .start() of the thread the global names NOW.  A thread is started once: *)
(* on one that has been started it raises RuntimeError out of generate.    *)
StartThread(c) ==
  /\ pc[c] = "start"
  /\ IF place[batch_thread] = "new"
       THEN /\ place' = [place EXCEPT ![batch_thread] = "collect"]
            /\ pc' = [pc EXCEPT ![c] = "put"]
       ELSE /\ pc' = [pc EXCEPT ![c] = "failed"]
            /\ UNCHANGED place
  /\ UNCHANGED <<size, batch_thread, batch_queue, future, inputs, at>>

Put(c) ==
  /\ pc[c] = "put"
  /\ batch_queue' = Append(batch_queue, c)
  /\ pc' = [pc EXCEPT ![c] = "wait"]
  /\ UNCHANGED <<size, batch_thread, future, threadVars>>

(* future.result() returns or raises. *)
Return(c) ==
  /\ pc[c] = "wait"
  /\ future[c] # "pending"
  /\ pc' = [pc EXCEPT ![c] = "done"]
  /\ UNCHANGED <<size, batch_thread, batch_queue, future, threadVars>>

-----------------------------------------------------------------------------
(* _process_batches *)

(* One item: the batch is full when its size is what THIS item asks for. *)
Collect(t) ==
  /\ place[t] = "collect"
  /\ batch_queue # <<>>
  /\ inputs' = [inputs EXCEPT ![t] = Append(@, Head(batch_queue))]
  /\ batch_queue' = Tail(batch_queue)
  /\ place' = [place EXCEPT ![t] =
                 IF Len(inputs[t]) + 1 = size[Head(batch_queue)] THEN "infer" ELSE @]
  /\ UNCHANGED <<callerVars, future, at>>

(* 2 s without an item; an empty batch is skipped, which changes nothing. *)
Timeout(t) ==
  /\ place[t] = "collect"
  /\ batch_queue = <<>>
  /\ inputs[t] # <<>>
  /\ place' = [place EXCEPT ![t] = "infer"]
  /\ UNCHANGED <<callerVars, batch_queue, future, inputs, at>>

Infer(t) ==
  /\ place[t] = "infer"
  /\ place' = [place EXCEPT ![t] = "deliver"]
  /\ UNCHANGED <<callerVars, batch_queue, future, inputs, at>>

\* Mutant of Advance: the position outlives the batch.
AdvanceOn(t) ==
  /\ at' = [at EXCEPT ![t] = @ + 1]
  /\ IF at[t] = Len(inputs[t])
       THEN /\ place' = [place EXCEPT ![t] = "collect"]
            /\ inputs' = [inputs EXCEPT ![t] = <<>>]
       ELSE UNCHANGED <<place, inputs>>

\* The loop over the futures moves on; after the last one a new batch begins.
Advance(t) ==
  IF at[t] = Len(inputs[t])
    THEN /\ place' = [place EXCEPT ![t] = "collect"]
         /\ inputs' = [inputs EXCEPT ![t] = <<>>]
         /\ at' = [at EXCEPT ![t] = 1]
    ELSE /\ at' = [at EXCEPT ![t] = @ + 1]
         /\ UNCHANGED <<place, inputs>>

\* The handler starts over at the first future of the batch.
Handle(t) ==
  /\ place' = [place EXCEPT ![t] = "except"]
  /\ at' = [at EXCEPT ![t] = 1]
  /\ UNCHANGED inputs

(* future.set_result(result), which raises on a future that is done. *)
Deliver(t) ==
  /\ place[t] = "deliver"
  /\ LET c == inputs[t][at[t]]
     IN  IF future[c] = "pending"
           THEN future' = [future EXCEPT ![c] = "result"] /\ Advance(t)
           ELSE UNCHANGED future /\ Handle(t)
  /\ UNCHANGED <<callerVars, batch_queue>>

\* Mutant of Raise: the exception is logged and the batch given up.
RaiseLogged(t) ==
  /\ MayRaise
  /\ place[t] \in {"infer", "deliver"}
  /\ place' = [place EXCEPT ![t] = "collect"]
  /\ inputs' = [inputs EXCEPT ![t] = <<>>]
  /\ at' = [at EXCEPT ![t] = 1]
  /\ UNCHANGED <<callerVars, batch_queue, future>>

(* engine.infer raises, or the conversion of the next completion does. *)
Raise(t) ==
  /\ MayRaise
  /\ place[t] \in {"infer", "deliver"}
  /\ Handle(t)
  /\ UNCHANGED <<callerVars, batch_queue, future>>

(* future.set_exception(ex) in the handler's loop. *)
SetException(t) ==
  /\ place[t] = "except"
  /\ LET c == inputs[t][at[t]]
     IN  /\ future[c] = "pending"
         /\ future' = [future EXCEPT ![c] = "exception"]
  /\ Advance(t)
  /\ UNCHANGED <<callerVars, batch_queue>>

(* On a future that already has its result it raises InvalidStateError,    *)
(* and nothing catches that: the thread ends.                              *)
InvalidState(t) ==
  /\ place[t] = "except"
  /\ future[inputs[t][at[t]]] # "pending"
  /\ place' = [place EXCEPT ![t] = "dead"]
  /\ UNCHANGED <<callerVars, batch_queue, future, inputs, at>>

-----------------------------------------------------------------------------
CallerStep(c) ==
  ReadThread(c) \/ AssignThread(c) \/ StartThread(c) \/ Put(c) \/ Return(c)

ThreadStep(t) ==
  \/ Collect(t)
  \/ Timeout(t)
  \/ Infer(t)
  \/ Deliver(t)
  \/ SetException(t)
  \/ InvalidState(t)

Next ==
  \/ \E c \in Callers : CallerStep(c)
  \/ \E t \in Callers : ThreadStep(t) \/ Raise(t)

\* The operating system schedules every thread; an exception is never owed.
Fairness ==
  /\ \A c \in Callers : WF_vars(CallerStep(c))
  /\ \A t \in Callers : WF_vars(ThreadStep(t))

Spec == Init /\ [][Next]_vars
FairSpec == Spec /\ Fairness

-----------------------------------------------------------------------------
(* Properties. *)

\* Types; a position is inside the batch whenever the thread is in a loop over it.
TypeOK ==
  /\ size \in [Callers -> BatchSizes]
  /\ batch_thread \in Callers \cup {NoThread}
  /\ pc \in [Callers -> {"idle", "create", "start", "put", "wait", "done", "failed"}]
  /\ batch_queue \in Seq(Callers)
  /\ future \in [Callers -> {"pending", "result", "exception"}]
  /\ place \in [Callers -> {"off", "new", "collect", "infer", "deliver", "except", "dead"}]
  /\ inputs \in [Callers -> Seq(Callers)]
  /\ at \in [Callers -> Nat \ {0}]
  /\ \A t \in Callers :
       place[t] \in {"infer", "deliver", "except", "dead"} => at[t] <= Len(inputs[t])

\* The calls a batch thread still owes an answer.
Owed(t) == {inputs[t][n] : n \in {m \in DOMAIN inputs[t] :
                                     place[t] = "deliver" => m >= at[t]}}

WaitingIsOwedOnce ==
  \A c \in Callers :
    LET owing == {t \in Callers : c \in Owed(t)}
    IN  /\ pc[c] = "wait" /\ future[c] = "pending" =>
             (c \in Members(batch_queue)) # (owing # {})
        /\ Cardinality(owing) <= 1
        /\ c \in Members(batch_queue) => future[c] = "pending"

\* set_result of a thread that is not in the handler finds its future pending.
OwedIsPending ==
  \A t \in Callers : place[t] \notin {"except", "dead"} =>
    \A c \in Owed(t) : future[c] = "pending"

\* A batch stops growing at the first request whose size is its own position: one
\* common size bounds every batch; with mixed sizes a batch may outgrow the size
\* that an earlier request of it asks for.
BatchSizeKept ==
  \A t \in Callers : \A n \in DOMAIN inputs[t] :
    size[inputs[t][n]] = n => n = Len(inputs[t]) /\ place[t] # "collect"

\* Whatever the race on batch_thread starts, a request that waits is in the queue
\* or owed by exactly one thread: none is lost, none is run twice, and delivering a
\* result never fails.  A batch ends with the request that finds its size reached.
OwedOnce == WaitingIsOwedOnce /\ OwedIsPending /\ BatchSizeKept

\* A call whose .start() raised costs exactly one thread that never runs, its own or
\* another's; and the thread that the global names, which the calls to come rely on,
\* has been started or is about to be, by the call that made it.
ThreadServes ==
  /\ Cardinality({t \in Callers : place[t] = "new"}) =
       Cardinality({c \in Callers : pc[c] \in {"start", "failed"}})
  /\ batch_thread # NoThread /\ place[batch_thread] = "new" =>
       pc[batch_thread] = "start"

\* Every call that begins returns or raises, unless a batch thread took its request
\* and ended, or every batch thread that was started has ended.
CallsReturn ==
  \A c \in Callers :
    pc[c] # "idle" ~>
      \/ pc[c] \in {"done", "failed"}
      \/ \E t \in Callers : place[t] = "dead" /\ c \in Members(inputs[t])
      \/ /\ \E t \in Callers : place[t] = "dead"
         /\ \A t \in Callers : place[t] \in {"off", "new", "dead"}
=============================================================================
