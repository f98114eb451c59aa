-------------------------- MODULE EvalBatchProofs ---------------------------
(***************************************************************************)
(* Proofs about EvalBatch, for any number of calls, any batch sizes, and   *)
(* whatever batch threads the race on batch_thread makes and starts.       *)
(*                                                                         *)
(* A call is queued once.  So the inductive invariant can say of every     *)
(* call where it is: in the queue, in the batch of exactly one thread, or  *)
(* in none, when it has not been queued yet or has been answered.          *)
(***************************************************************************)
EXTENDS EvalBatch, FiniteSetTheorems, TLAPS

-----------------------------------------------------------------------------
(* The inductive invariant.                                                *)

\* A thread is constructed by the call it is named after, and the global names one
\* from then on; the loop over a batch has not begun before the engine has run.
Positions ==
  \A t \in Callers :
    /\ pc[t] \in {"idle", "create"} => place[t] = "off"
    /\ pc[t] = "start" => batch_thread \in Callers
    /\ place[t] \in {"off", "new", "collect", "infer"} => at[t] = 1

\* A call that is in the queue is there once, waits, and has no answer.
QueuedWaits ==
  \A m, n \in DOMAIN batch_queue :
    /\ batch_queue[m] = batch_queue[n] => m = n
    /\ pc[batch_queue[n]] = "wait"
    /\ future[batch_queue[n]] = "pending"

\* A call that is in a batch has been queued and is not in the queue any more.
BatchedLeft ==
  \A t \in Callers : \A n \in DOMAIN inputs[t] :
    /\ pc[inputs[t][n]] \in {"wait", "done"}
    /\ inputs[t][n] \notin Members(batch_queue)

\* A call that has not been queued has no answer.
Unasked ==
  \A c \in Callers : pc[c] \in {"idle", "create", "start", "put", "failed"} => future[c] = "pending"

\* No call is in two batches, or twice in one.
BatchedOnce ==
  \A s, t \in Callers : \A m \in DOMAIN inputs[s], n \in DOMAIN inputs[t] :
    inputs[s][m] = inputs[t][n] => s = t /\ m = n

\* A thread's position separates the calls it has answered from the others;
\* the handler of an exception may find answers on its right as well.
AnsweredBelow ==
  \A t \in Callers : \A n \in DOMAIN inputs[t] :
    /\ place[t] \in {"off", "new", "collect", "infer"} => future[inputs[t][n]] = "pending"
    /\ place[t] = "deliver" => (future[inputs[t][n]] = "pending" <=> n >= at[t])
    /\ place[t] = "except" /\ n < at[t] => future[inputs[t][n]] # "pending"

\* A call that waits without an answer is in the queue or in a batch.
NoneLost ==
  \A c \in Callers :
    pc[c] = "wait" /\ future[c] = "pending" =>
      c \in Members(batch_queue) \/ \E t \in Callers : c \in Members(inputs[t])

\* A batch that is still collected has not reached the size of any of its requests.
RoomLeft ==
  \A t \in Callers : \A n \in DOMAIN inputs[t] :
    size[inputs[t][n]] = n => n = Len(inputs[t]) /\ place[t] \notin {"off", "new", "collect"}

IInv ==
  /\ TypeOK
  /\ Positions
  /\ Unasked
  /\ QueuedWaits
  /\ BatchedLeft
  /\ BatchedOnce
  /\ AnsweredBelow
  /\ NoneLost
  /\ RoomLeft

-----------------------------------------------------------------------------
(* What an item put or taken does to a sequence of calls.                  *)

\* Appending keeps the items in their places and adds one after them.
LEMMA AppendItem ==
  ASSUME NEW s \in Seq(Callers), NEW c \in Callers
  PROVE  /\ Append(s, c) \in Seq(Callers)
         /\ Len(Append(s, c)) = Len(s) + 1
         /\ DOMAIN Append(s, c) = DOMAIN s \cup {Len(s) + 1}
         /\ Len(s) + 1 \notin DOMAIN s
         /\ \A n \in DOMAIN s : Append(s, c)[n] = s[n]
         /\ Append(s, c)[Len(s) + 1] = c
         /\ Members(Append(s, c)) = Members(s) \cup {c}
<1> DEFINE a == Append(s, c)
<1>1. a \in Seq(Callers) /\ Len(a) = Len(s) + 1 /\ Len(s) \in Nat
  OBVIOUS
<1>2. DOMAIN s = 1..Len(s) /\ DOMAIN a = 1..(Len(s) + 1)
  OBVIOUS
<1>3. \A n \in DOMAIN s : a[n] = s[n]
  OBVIOUS
<1>4. a[Len(s) + 1] = c
  OBVIOUS
<1>5. DOMAIN a = DOMAIN s \cup {Len(s) + 1} /\ Len(s) + 1 \notin DOMAIN s
  BY <1>1, <1>2
<1> HIDE DEF a
<1>6. Members(a) = Members(s) \cup {c}
  BY <1>3, <1>4, <1>5 DEF Members
<1>7. QED
  BY <1>1, <1>3, <1>4, <1>5, <1>6 DEF a

\* Taking the head moves the other items down by one.
LEMMA TakeItem ==
  ASSUME NEW s \in Seq(Callers), s # <<>>
  PROVE  /\ Head(s) \in Callers /\ Tail(s) \in Seq(Callers)
         /\ 1 \in DOMAIN s /\ Head(s) = s[1]
         /\ \A n \in DOMAIN Tail(s) : n + 1 \in DOMAIN s /\ n + 1 # 1 /\ Tail(s)[n] = s[n + 1]
         /\ DOMAIN Tail(s) \subseteq Nat
         /\ Members(s) = Members(Tail(s)) \cup {Head(s)}
<1>1. Head(s) \in Callers /\ Tail(s) \in Seq(Callers) /\ 1 \in DOMAIN s /\ Head(s) = s[1]
  OBVIOUS
<1>2. \A n \in DOMAIN Tail(s) : n + 1 \in DOMAIN s /\ n + 1 # 1 /\ Tail(s)[n] = s[n + 1]
  OBVIOUS
<1>3. \A n \in DOMAIN s : n = 1 \/ (n - 1 \in DOMAIN Tail(s) /\ s[n] = Tail(s)[n - 1])
  OBVIOUS
<1>4. DOMAIN Tail(s) \subseteq Nat
  OBVIOUS
<1>5. Members(Tail(s)) \cup {Head(s)} \subseteq Members(s)
  BY <1>1, <1>2 DEF Members
<1>6. ASSUME NEW c \in Members(s) PROVE c \in Members(Tail(s)) \cup {Head(s)}
  <2>1. PICK n \in DOMAIN s : c = s[n]
    BY DEF Members
  <2>2. QED
    BY <1>1, <1>3, <2>1 DEF Members
<1>7. QED
  BY <1>1, <1>2, <1>4, <1>5, <1>6

-----------------------------------------------------------------------------
(* The invariant is inductive.                                             *)

\* It holds initially.
LEMMA InitInv == Init => IInv
<1> SUFFICES ASSUME Init PROVE IInv
  OBVIOUS
<1>1. <<>> \in Seq(Callers) /\ Len(<<>>) = 0 /\ DOMAIN <<>> = {}
  OBVIOUS
<1>2. TypeOK
  <2>1. /\ batch_queue \in Seq(Callers)
        /\ inputs \in [Callers -> Seq(Callers)]
        /\ at \in [Callers -> Nat \ {0}]
    BY <1>1 DEF Init
  <2>2. QED
    BY <2>1 DEF Init, TypeOK
<1>3. /\ Positions /\ Unasked /\ QueuedWaits /\ BatchedLeft
      /\ BatchedOnce /\ AnsweredBelow /\ NoneLost
  BY <1>1 DEF Init, Positions, Unasked, QueuedWaits, BatchedLeft, BatchedOnce, AnsweredBelow, NoneLost
<1>4. RoomLeft
  BY <1>1 DEF Init, RoomLeft
<1>5. QED
  BY <1>2, <1>3, <1>4 DEF IInv

\* The steps of a call before it waits, and its return, move no request.
LEMMA CallerSteps ==
  ASSUME IInv, NEW c \in Callers, ReadThread(c) \/ AssignThread(c) \/ StartThread(c) \/ Return(c)
  PROVE  IInv'
<1> USE DEF IInv
<1>1. TypeOK'
  BY EvalAssumption DEF EvalAssumption, TypeOK, Positions, ReadThread, AssignThread, StartThread, Return, threadVars
<1>2. Positions'
  BY DEF TypeOK, Positions, ReadThread, AssignThread, StartThread, Return, threadVars
<1>3. Unasked'
  BY DEF TypeOK, Unasked, ReadThread, AssignThread, StartThread, Return, threadVars
<1>4. QueuedWaits'
  BY DEF TypeOK, QueuedWaits, ReadThread, AssignThread, StartThread, Return, threadVars
<1>5. batch_queue' = batch_queue /\ inputs' = inputs /\ future' = future
  BY DEF ReadThread, AssignThread, StartThread, Return, threadVars
<1>6. \A d \in Callers : /\ pc'[d] = "wait" => pc[d] = "wait"
                         /\ pc[d] \in {"wait", "done"} => pc'[d] \in {"wait", "done"}
  BY DEF TypeOK, ReadThread, AssignThread, StartThread, Return
<1>7. \A t \in Callers : \A n \in DOMAIN inputs[t] : inputs[t][n] \in Callers
  BY DEF TypeOK
<1>8. BatchedLeft'
  <2>1. \A t \in Callers : \A n \in DOMAIN inputs[t] :
          pc'[inputs[t][n]] \in {"wait", "done"} /\ inputs[t][n] \notin Members(batch_queue)
    BY <1>6, <1>7 DEF BatchedLeft
  <2>2. QED
    BY <1>5, <2>1 DEF BatchedLeft
<1>9. BatchedOnce'
  BY DEF BatchedOnce, ReadThread, AssignThread, StartThread, Return, threadVars
<1>10. AnsweredBelow'
  BY DEF TypeOK, Positions, AnsweredBelow, ReadThread, AssignThread, StartThread, Return, threadVars
<1>11. NoneLost'
  <2> SUFFICES ASSUME NEW d \in Callers, pc'[d] = "wait", future[d] = "pending"
               PROVE  d \in Members(batch_queue) \/ \E t \in Callers : d \in Members(inputs[t])
    BY <1>5 DEF NoneLost
  <2>1. pc[d] = "wait"
    BY <1>6
  <2>2. QED
    BY <2>1 DEF NoneLost
<1>12. RoomLeft'
  BY DEF TypeOK, Positions, RoomLeft, ReadThread, AssignThread, StartThread, Return, threadVars
<1>13. QED
  BY <1>1, <1>2, <1>3, <1>4, <1>8, <1>9, <1>10, <1>11, <1>12

\* A call queues its request and waits.
LEMMA PutStep ==
  ASSUME IInv, NEW c \in Callers, Put(c)
  PROVE  IInv'
<1> USE DEF IInv
<1> DEFINE q == batch_queue
<1>1. /\ q' = Append(q, c) /\ pc' = [pc EXCEPT ![c] = "wait"] /\ pc[c] = "put"
      /\ UNCHANGED <<size, batch_thread, future, place, inputs, at>>
  BY DEF Put, threadVars
<1>2. q \in Seq(Callers) /\ pc \in [Callers -> {"idle", "create", "start", "put", "wait", "done", "failed"}]
  BY DEF TypeOK
<1>3. /\ q' \in Seq(Callers)
      /\ DOMAIN q' = DOMAIN q \cup {Len(q) + 1}
      /\ Len(q) + 1 \notin DOMAIN q
      /\ \A n \in DOMAIN q : q'[n] = q[n] /\ q[n] \in Callers
      /\ q'[Len(q) + 1] = c
      /\ Members(q') = Members(q) \cup {c}
  BY <1>1, <1>2, AppendItem
<1>4. \A n \in DOMAIN q : q[n] # c
  BY <1>1 DEF QueuedWaits
<1>5. \A t \in Callers : \A n \in DOMAIN inputs[t] : inputs[t][n] \in Callers /\ inputs[t][n] # c
  <2>1. \A t \in Callers : \A n \in DOMAIN inputs[t] : inputs[t][n] \in Callers
    BY DEF TypeOK
  <2>2. QED
    BY <1>1, <2>1 DEF BatchedLeft
<1>13. Unasked'
  BY <1>1, <1>2 DEF Unasked
<1>6. TypeOK'
  BY <1>1, <1>3 DEF TypeOK
<1>7. Positions'
  BY <1>1, <1>2 DEF Positions
<1>8. QueuedWaits'
  <2>1. pc[c] = "put" => future[c] = "pending"
    BY DEF Unasked
  <2>2. QED
    BY <1>1, <1>2, <1>3, <1>4, <2>1 DEF QueuedWaits
<1>9. BatchedLeft'
  BY <1>1, <1>2, <1>3, <1>5 DEF BatchedLeft
<1>10. BatchedOnce' /\ AnsweredBelow' /\ RoomLeft'
  BY <1>1 DEF BatchedOnce, AnsweredBelow, RoomLeft
<1>11. NoneLost'
  BY <1>1, <1>2, <1>3 DEF NoneLost
<1>12. QED
  BY <1>6, <1>7, <1>13, <1>8, <1>9, <1>10, <1>11

\* A thread takes the request at the head of the queue into its batch.
LEMMA CollectStep ==
  ASSUME IInv, NEW t \in Callers, Collect(t)
  PROVE  IInv'
<1> USE DEF IInv
<1> DEFINE q == batch_queue
           h == Head(q)
           L == Len(inputs[t]) + 1
<1>1. /\ q # <<>> /\ q' = Tail(q) /\ place[t] = "collect"
      /\ inputs' = [inputs EXCEPT ![t] = Append(inputs[t], h)]
      /\ place' = [place EXCEPT ![t] = IF L = size[h] THEN "infer" ELSE place[t]]
      /\ UNCHANGED <<size, batch_thread, pc, future, at>>
  BY DEF Collect, callerVars
<1>2. q \in Seq(Callers) /\ inputs \in [Callers -> Seq(Callers)] /\ inputs[t] \in Seq(Callers)
  BY DEF TypeOK
<1>3. /\ h \in Callers /\ q' \in Seq(Callers)
      /\ 1 \in DOMAIN q /\ h = q[1]
      /\ \A n \in DOMAIN q' : n + 1 \in DOMAIN q /\ n + 1 # 1 /\ q'[n] = q[n + 1]
      /\ DOMAIN q' \subseteq Nat
      /\ Members(q) = Members(q') \cup {h}
  BY <1>1, <1>2, TakeItem
<1>4. /\ Append(inputs[t], h) \in Seq(Callers)
      /\ Len(Append(inputs[t], h)) = L
      /\ DOMAIN Append(inputs[t], h) = DOMAIN inputs[t] \cup {L}
      /\ L \notin DOMAIN inputs[t]
      /\ \A n \in DOMAIN inputs[t] : Append(inputs[t], h)[n] = inputs[t][n]
      /\ Append(inputs[t], h)[L] = h
      /\ Members(Append(inputs[t], h)) = Members(inputs[t]) \cup {h}
  BY <1>2, <1>3, AppendItem
<1> HIDE DEF h, L
<1>5. /\ inputs' \in [Callers -> Seq(Callers)]
      /\ DOMAIN inputs'[t] = DOMAIN inputs[t] \cup {L} /\ L \notin DOMAIN inputs[t]
      /\ \A n \in DOMAIN inputs[t] : inputs'[t][n] = inputs[t][n]
      /\ inputs'[t][L] = h
      /\ Members(inputs'[t]) = Members(inputs[t]) \cup {h}
      /\ Len(inputs'[t]) = L
      /\ \A u \in Callers : u # t => inputs'[u] = inputs[u]
  BY <1>1, <1>2, <1>4
<1>6. h \notin Members(q')
  <2> SUFFICES ASSUME h \in Members(q') PROVE FALSE
    OBVIOUS
  <2>1. PICK n \in DOMAIN q' : h = q'[n]
    BY DEF Members
  <2>2. q[n + 1] = q[1] /\ n + 1 # 1 /\ n + 1 \in DOMAIN q
    BY <1>3, <2>1
  <2>3. QED
    BY <1>3, <2>2 DEF QueuedWaits
<1>7. pc[h] = "wait" /\ future[h] = "pending"
  BY <1>3 DEF QueuedWaits
<1>8. \A u \in Callers : \A n \in DOMAIN inputs[u] : inputs[u][n] # h
  BY <1>3 DEF BatchedLeft
<1>9. TypeOK'
  <2>1. L \in Nat \ {0} /\ at[t] = 1
    BY <1>1, <1>2 DEF Positions, L
  <2>2. place' \in [Callers -> {"off", "new", "collect", "infer", "deliver", "except", "dead"}]
    BY <1>1 DEF TypeOK
  <2>3. \A u \in Callers : place'[u] \in {"infer", "deliver", "except", "dead"} =>
                             at'[u] <= Len(inputs'[u])
    BY <1>1, <1>5, <2>1 DEF TypeOK
  <2>4. QED
    BY <1>1, <1>3, <1>5, <2>2, <2>3 DEF TypeOK
<1>10. Positions' /\ Unasked'
  BY <1>1 DEF TypeOK, Positions, Unasked
<1>11. QueuedWaits'
  BY <1>1, <1>3 DEF QueuedWaits
<1>12. BatchedLeft'
  <2>1. \A u \in Callers : \A n \in DOMAIN inputs[u] :
          pc[inputs[u][n]] \in {"wait", "done"} /\ inputs[u][n] \notin Members(q')
    BY <1>3 DEF BatchedLeft
  <2>2. QED
    BY <1>1, <1>5, <1>6, <1>7, <2>1 DEF BatchedLeft
<1>13. BatchedOnce'
  <2> SUFFICES ASSUME NEW u \in Callers, NEW v \in Callers,
                      NEW m \in DOMAIN inputs'[u], NEW n \in DOMAIN inputs'[v],
                      inputs'[u][m] = inputs'[v][n]
               PROVE  u = v /\ m = n
    BY DEF BatchedOnce
  <2> DEFINE new(w, k) == w = t /\ k = L
  <2>1. ASSUME NEW w \in Callers, NEW k \in DOMAIN inputs'[w]
        PROVE  IF new(w, k) THEN inputs'[w][k] = h
               ELSE k \in DOMAIN inputs[w] /\ inputs'[w][k] = inputs[w][k] /\ inputs'[w][k] # h
    <3>1. CASE w = t
      BY <1>5, <1>8, <3>1
    <3>2. CASE w # t
      BY <1>5, <1>8, <3>2
    <3>3. QED
      BY <3>1, <3>2
  <2>2. new(u, m) <=> new(v, n)
    BY <2>1
  <2>3. CASE new(u, m)
    BY <2>2, <2>3
  <2>4. CASE ~new(u, m)
    BY <2>1, <2>2, <2>4 DEF BatchedOnce
  <2>5. QED
    BY <2>3, <2>4
<1>14. AnsweredBelow'
  <2> SUFFICES ASSUME NEW u \in Callers, NEW n \in DOMAIN inputs'[u]
               PROVE  /\ place'[u] \in {"off", "new", "collect", "infer"} => future[inputs'[u][n]] = "pending"
                      /\ place'[u] = "deliver" => (future[inputs'[u][n]] = "pending" <=> n >= at[u])
                      /\ place'[u] = "except" /\ n < at[u] => future[inputs'[u][n]] # "pending"
    BY <1>1 DEF AnsweredBelow
  <2>1. CASE u = t
    <3>1. place'[t] \in {"collect", "infer"}
      BY <1>1 DEF TypeOK
    <3>2. future[inputs'[t][n]] = "pending"
      BY <1>1, <1>5, <1>7, <2>1 DEF AnsweredBelow
    <3>3. QED
      BY <2>1, <3>1, <3>2
  <2>2. CASE u # t
    <3>1. place'[u] = place[u] /\ inputs'[u] = inputs[u]
      BY <1>1, <1>5, <2>2 DEF TypeOK
    <3>2. QED
      BY <3>1 DEF AnsweredBelow
  <2>3. QED
    BY <2>1, <2>2
<1>15. NoneLost'
  BY <1>1, <1>3, <1>5 DEF NoneLost
<1>16. RoomLeft'
  <2> SUFFICES ASSUME NEW u \in Callers, NEW n \in DOMAIN inputs'[u], size[inputs'[u][n]] = n
               PROVE  n = Len(inputs'[u]) /\ place'[u] \notin {"off", "new", "collect"}
    BY <1>1 DEF RoomLeft
  <2>1. CASE u # t
    BY <1>1, <1>5, <2>1 DEF RoomLeft, TypeOK
  <2>2. CASE u = t /\ n # L
    BY <1>1, <1>5, <2>2 DEF RoomLeft
  <2>3. CASE u = t /\ n = L
    <3>1. size[h] = L
      BY <1>5, <2>3
    <3>2. place'[t] = "infer"
      BY <1>1, <3>1 DEF TypeOK
    <3>3. QED
      BY <1>5, <2>3, <3>2
  <2>4. QED
    BY <2>1, <2>2, <2>3
<1>17. QED
  BY <1>9, <1>10, <1>11, <1>12, <1>13, <1>14, <1>15, <1>16

\* The steps that leave the requests where they are and answer none.
LEMMA ThreadSteps ==
  ASSUME IInv, NEW t \in Callers,
         Timeout(t) \/ Infer(t) \/ Raise(t) \/ InvalidState(t)
  PROVE  IInv'
<1> USE DEF IInv
<1>1. UNCHANGED <<size, batch_thread, pc, batch_queue, future, inputs>>
  BY DEF Timeout, Infer, Raise, Handle, InvalidState, callerVars
<1>2. /\ place' \in [Callers -> {"off", "new", "collect", "infer", "deliver", "except", "dead"}]
      /\ at' \in [Callers -> Nat \ {0}]
      /\ \A u \in Callers : u # t => place'[u] = place[u] /\ at'[u] = at[u]
      /\ place[t] \in {"collect", "infer", "deliver", "except"}
      /\ place'[t] \in {"infer", "deliver", "except", "dead"}
      /\ place'[t] = "infer" => place[t] = "collect" /\ inputs[t] # <<>>
      /\ place'[t] = "deliver" => place[t] = "infer"
      /\ place'[t] \in {"infer", "deliver", "except"} => at'[t] = 1
      /\ place'[t] = "dead" => at'[t] = at[t] /\ place[t] = "except"
      /\ place'[t] = "except" => place[t] \in {"infer", "deliver"}
  <2> USE DEF TypeOK, Positions
  <2>1. CASE Timeout(t)
    BY <2>1 DEF Timeout
  <2>2. CASE Infer(t)
    BY <2>2 DEF Infer
  <2>3. CASE Raise(t)
    BY <2>3 DEF Raise, Handle
  <2>4. CASE InvalidState(t)
    BY <2>4 DEF InvalidState
  <2>5. QED
    BY <2>1, <2>2, <2>3, <2>4
<1>3. \A u \in Callers : Len(inputs[u]) \in Nat /\ (inputs[u] # <<>> => 1 <= Len(inputs[u]))
                         /\ DOMAIN inputs[u] \subseteq Nat \ {0}
  BY DEF TypeOK
<1>4. TypeOK'
  <2>1. place'[t] \in {"infer", "deliver", "except", "dead"} => at'[t] <= Len(inputs[t])
    BY <1>2, <1>3 DEF TypeOK
  <2>2. QED
    BY <1>1, <1>2, <2>1 DEF TypeOK
<1>5. Positions' /\ Unasked' /\ QueuedWaits' /\ BatchedLeft' /\ BatchedOnce'
  BY <1>1, <1>2 DEF Positions, Unasked, QueuedWaits, BatchedLeft, BatchedOnce
<1>6. AnsweredBelow'
  BY <1>1, <1>2, <1>3 DEF AnsweredBelow
<1>7. NoneLost' /\ RoomLeft'
  BY <1>1, <1>2 DEF NoneLost, RoomLeft
<1>8. QED
  BY <1>4, <1>5, <1>6, <1>7

\* A thread answers the call at its position and moves on, or begins a new batch.
LEMMA AnswerStep ==
  ASSUME IInv, NEW t \in Callers, Deliver(t) \/ SetException(t)
  PROVE  IInv'
<1> USE DEF IInv
<1> DEFINE c == inputs[t][at[t]]
           over == at[t] = Len(inputs[t])
<1>1. /\ inputs \in [Callers -> Seq(Callers)] /\ inputs[t] \in Seq(Callers)
      /\ DOMAIN inputs[t] = 1..Len(inputs[t]) /\ Len(inputs[t]) \in Nat
      /\ at[t] \in Nat \ {0} /\ at[t] <= Len(inputs[t])
      /\ at[t] \in DOMAIN inputs[t] /\ c \in Callers
  BY DEF Deliver, SetException, TypeOK
<1>2. place[t] \in {"deliver", "except"} /\ future[c] = "pending"
  <2>1. at[t] >= at[t]
    BY <1>1
  <2>2. CASE Deliver(t)
    BY <1>1, <2>1, <2>2 DEF Deliver, AnsweredBelow
  <2>3. CASE SetException(t)
    BY <2>3 DEF SetException
  <2>4. QED
    BY <2>2, <2>3
<1>3. PICK a \in {"result", "exception"} : future' = [future EXCEPT ![c] = a]
  BY <1>2 DEF Deliver, SetException
<1>4. /\ place[t] \in {"deliver", "except"}
      /\ future[c] = "pending"
      /\ Advance(t)
      /\ UNCHANGED <<size, batch_thread, pc, batch_queue>>
  BY <1>2 DEF Deliver, SetException, callerVars
<1>5. CASE ~over
  <2>1. at' = [at EXCEPT ![t] = at[t] + 1] /\ UNCHANGED <<place, inputs>> /\ at[t] < Len(inputs[t])
    BY <1>4, <1>1, <1>5 DEF Advance
  <2> HIDE DEF c, over
  <2>2. \A u \in Callers : \A n \in DOMAIN inputs[u] :
          inputs[u][n] \in Callers /\ (inputs[u][n] = c <=> u = t /\ n = at[t])
    BY <1>1 DEF BatchedOnce, TypeOK, c
  <2>3. \A d \in Callers : future'[d] = IF d = c THEN a ELSE future[d]
    BY <1>3 DEF TypeOK
  <2>4. TypeOK'
    BY <1>3, <1>4, <1>1, <2>1 DEF TypeOK
  <2>5. Positions'
    BY <1>4, <2>1 DEF Positions, TypeOK
  <2>6. pc[c] \in {"wait", "done"} /\ c \notin Members(batch_queue)
    BY <1>1 DEF BatchedLeft, c
  <2>7. Unasked'
    BY <1>4, <2>3, <2>6 DEF Unasked
  <2>8. QueuedWaits'
    <3>1. \A n \in DOMAIN batch_queue : batch_queue[n] \in Callers /\ batch_queue[n] # c
      BY <2>6 DEF TypeOK, Members
    <3>2. QED
      BY <1>4, <2>3, <3>1 DEF QueuedWaits
  <2>9. BatchedLeft' /\ BatchedOnce' /\ RoomLeft'
    BY <1>4, <2>1 DEF BatchedLeft, BatchedOnce, RoomLeft
  <2>10. AnsweredBelow'
    <3> SUFFICES ASSUME NEW u \in Callers, NEW n \in DOMAIN inputs[u]
                 PROVE  /\ place[u] \in {"off", "new", "collect", "infer"} => future'[inputs[u][n]] = "pending"
                        /\ place[u] = "deliver" => (future'[inputs[u][n]] = "pending" <=> n >= at'[u])
                        /\ place[u] = "except" /\ n < at'[u] => future'[inputs[u][n]] # "pending"
      BY <2>1 DEF AnsweredBelow
    <3>1. CASE u = t
      <4>1. at'[t] = at[t] + 1 /\ n \in Nat
        BY <1>1, <2>1, <3>1 DEF TypeOK
      <4>2. CASE n = at[t]
        <5>1. inputs[t][n] = c /\ future'[inputs[t][n]] # "pending"
          BY <1>1, <2>2, <2>3, <3>1, <4>2
        <5>2. ~(n >= at'[t])
          BY <1>1, <4>1, <4>2
        <5>3. QED
          BY <1>4, <3>1, <5>1, <5>2
      <4>3. CASE n # at[t]
        <5>1. future'[inputs[t][n]] = future[inputs[t][n]]
          BY <2>2, <2>3, <3>1, <4>3
        <5>2. n < at'[t] <=> n < at[t]
          BY <1>1, <4>1, <4>3
        <5>3. n >= at'[t] <=> n >= at[t]
          BY <1>1, <4>1, <4>3
        <5>4. QED
          BY <1>4, <3>1, <5>1, <5>2, <5>3 DEF AnsweredBelow
      <4>4. QED
        BY <4>2, <4>3
    <3>2. CASE u # t
      <4>1. future'[inputs[u][n]] = future[inputs[u][n]] /\ at'[u] = at[u]
        BY <2>1, <2>2, <2>3, <3>2 DEF TypeOK
      <4>2. QED
        BY <4>1 DEF AnsweredBelow
    <3>3. QED
      BY <3>1, <3>2
  <2>11. NoneLost'
    BY <1>4, <2>1, <2>3 DEF NoneLost
  <2>12. QED
    BY <2>4, <2>5, <2>7, <2>8, <2>9, <2>10, <2>11
<1>6. CASE over
  <2>1. /\ place' = [place EXCEPT ![t] = "collect"]
        /\ inputs' = [inputs EXCEPT ![t] = <<>>]
        /\ at' = [at EXCEPT ![t] = 1]
    BY <1>4, <1>6 DEF Advance
  <2>2. /\ <<>> \in Seq(Callers) /\ DOMAIN <<>> = {} /\ Len(<<>>) = 0
        /\ inputs' \in [Callers -> Seq(Callers)]
        /\ inputs'[t] = <<>> /\ place'[t] = "collect" /\ at'[t] = 1
        /\ \A u \in Callers : u # t => inputs'[u] = inputs[u] /\ place'[u] = place[u] /\ at'[u] = at[u]
    BY <2>1 DEF TypeOK
  <2>3. \A d \in Callers : future'[d] = IF d = c THEN a ELSE future[d]
    BY <1>3, <1>1 DEF TypeOK
  <2>4. \A n \in DOMAIN inputs[t] : future'[inputs[t][n]] # "pending"
    <3> TAKE n \in DOMAIN inputs[t]
    <3>1. n <= at[t] /\ inputs[t][n] \in Callers
      BY <1>1, <1>6
    <3>2. CASE n = at[t]
      BY <1>1, <2>3, <3>2
    <3>3. CASE n < at[t]
      <4>1. ~(n >= at[t]) /\ n \in DOMAIN inputs[t]
        BY <1>1, <3>3
      <4>2. future[inputs[t][n]] # "pending"
        BY <1>4, <3>3, <4>1 DEF AnsweredBelow
      <4>3. QED
        BY <2>3, <3>1, <4>2
    <3>4. QED
      BY <1>1, <3>1, <3>2, <3>3
  <2>5. \A u \in Callers : u # t => \A n \in DOMAIN inputs[u] :
          inputs[u][n] \in Callers /\ inputs[u][n] # c
    BY <1>1 DEF BatchedOnce, TypeOK
  <2>6. pc[c] \in {"wait", "done"} /\ c \notin Members(batch_queue)
    BY <1>1 DEF BatchedLeft
  <2> HIDE DEF c, over
  <2>7. TypeOK'
    <3>1. future' \in [Callers -> {"pending", "result", "exception"}]
      BY <1>3 DEF TypeOK
    <3>2. at' \in [Callers -> Nat \ {0}]
      BY <2>1 DEF TypeOK
    <3>3. place' \in [Callers -> {"off", "new", "collect", "infer", "deliver", "except", "dead"}]
      BY <2>1 DEF TypeOK
    <3>4. \A u \in Callers : place'[u] \in {"infer", "deliver", "except", "dead"} =>
                               at'[u] <= Len(inputs'[u])
      BY <2>2 DEF TypeOK
    <3>5. QED
      BY <1>4, <2>2, <3>1, <3>2, <3>3, <3>4 DEF TypeOK
  <2>8. Positions'
    BY <1>4, <2>2 DEF Positions
  <2>9. Unasked'
    BY <1>4, <2>3, <2>6 DEF Unasked
  <2>10. QueuedWaits'
    <3>1. \A n \in DOMAIN batch_queue : batch_queue[n] \in Callers /\ batch_queue[n] # c
      BY <2>6 DEF TypeOK, Members
    <3>2. QED
      BY <1>4, <2>3, <3>1 DEF QueuedWaits
  <2>11. BatchedLeft'
    BY <1>4, <2>2 DEF BatchedLeft
  <2>12. BatchedOnce'
    <3> SUFFICES ASSUME NEW u \in Callers, NEW v \in Callers,
                        NEW m \in DOMAIN inputs'[u], NEW n \in DOMAIN inputs'[v],
                        inputs'[u][m] = inputs'[v][n]
                 PROVE  u = v /\ m = n
      BY DEF BatchedOnce
    <3>1. u # t /\ v # t
      BY <2>2
    <3>2. inputs'[u] = inputs[u] /\ inputs'[v] = inputs[v]
      BY <2>2, <3>1
    <3>3. QED
      BY <3>2 DEF BatchedOnce
  <2>13. AnsweredBelow'
    <3> SUFFICES ASSUME NEW u \in Callers, NEW n \in DOMAIN inputs'[u]
                 PROVE  /\ place'[u] \in {"off", "new", "collect", "infer"} => future'[inputs'[u][n]] = "pending"
                        /\ place'[u] = "deliver" => (future'[inputs'[u][n]] = "pending" <=> n >= at'[u])
                        /\ place'[u] = "except" /\ n < at'[u] => future'[inputs'[u][n]] # "pending"
      BY DEF AnsweredBelow
    <3>1. u # t
      BY <2>2
    <3>2. n \in DOMAIN inputs[u] /\ future'[inputs'[u][n]] = future[inputs[u][n]]
      BY <2>2, <2>3, <2>5, <3>1
    <3>3. QED
      BY <2>2, <3>1, <3>2 DEF AnsweredBelow
  <2>14. NoneLost'
    <3> SUFFICES ASSUME NEW d \in Callers, pc[d] = "wait", future'[d] = "pending"
                 PROVE  d \in Members(batch_queue) \/ \E u \in Callers : d \in Members(inputs'[u])
      BY <1>4 DEF NoneLost
    <3>1. future[d] = "pending"
      BY <1>3, <2>3
    <3>2. d \notin Members(inputs[t])
      BY <2>4 DEF Members
    <3>3. QED
      BY <2>2, <3>1, <3>2 DEF NoneLost
  <2>15. RoomLeft'
    <3> SUFFICES ASSUME NEW u \in Callers, NEW n \in DOMAIN inputs'[u], size[inputs'[u][n]] = n
                 PROVE  n = Len(inputs'[u]) /\ place'[u] \notin {"off", "new", "collect"}
      BY <1>4 DEF RoomLeft
    <3>1. u # t
      BY <2>2
    <3>2. QED
      BY <2>2, <3>1 DEF RoomLeft
  <2>16. QED
    BY <2>7, <2>8, <2>9, <2>10, <2>11, <2>12, <2>13, <2>14, <2>15
<1>7. QED
  BY <1>5, <1>6

\* Every step keeps it, and so does a step of something else.
LEMMA NextInv == IInv /\ [Next]_vars => IInv'
<1> SUFFICES ASSUME IInv, [Next]_vars PROVE IInv'
  OBVIOUS
<1>1. ASSUME NEW c \in Callers, CallerStep(c) PROVE IInv'
  BY <1>1, CallerSteps, PutStep DEF CallerStep
<1>2. ASSUME NEW t \in Callers, ThreadStep(t) \/ Raise(t) PROVE IInv'
  BY <1>2, CollectStep, ThreadSteps, AnswerStep DEF ThreadStep
<1>3. CASE UNCHANGED vars
  BY <1>3 DEF vars, IInv, TypeOK, Positions, Unasked, QueuedWaits, BatchedLeft,
              BatchedOnce, AnsweredBelow, NoneLost, RoomLeft, Members
<1>4. QED
  BY <1>1, <1>2, <1>3 DEF Next

\* Every reachable state satisfies the inductive invariant.
LEMMA SpecInv == Spec => []IInv
<1>1. QED
  BY InitInv, NextInv, PTL DEF Spec

-----------------------------------------------------------------------------
(* What it implies.                                                        *)

\* A call that waits is in the queue or owed by a batch thread, and not both.
LEMMA WaitingSomewhere ==
  ASSUME IInv, NEW c \in Callers, pc[c] = "wait", future[c] = "pending"
  PROVE  (c \in Members(batch_queue)) # ({t \in Callers : c \in Owed(t)} # {})
<1> USE DEF IInv
<1>1. ASSUME c \in Members(batch_queue), NEW t \in Callers, c \in Owed(t)
      PROVE  FALSE
  <2>1. PICK n \in DOMAIN inputs[t] : c = inputs[t][n]
    BY <1>1 DEF Owed
  <2>2. QED
    BY <1>1, <2>1 DEF BatchedLeft
<1>2. ASSUME NEW t \in Callers, c \in Members(inputs[t])
      PROVE  c \in Owed(t)
  <2>1. PICK n \in DOMAIN inputs[t] : c = inputs[t][n]
    BY <1>2 DEF Members
  <2>2. place[t] = "deliver" => n >= at[t]
    BY <2>1 DEF AnsweredBelow
  <2>3. QED
    BY <2>1, <2>2 DEF Owed
<1>3. c \in Members(batch_queue) \/ \E t \in Callers : c \in Owed(t)
  BY <1>2 DEF NoneLost
<1>4. QED
  BY <1>1, <1>3

\* No two threads owe the same call.
LEMMA OwedByOne ==
  ASSUME IInv, NEW c \in Callers
  PROVE  Cardinality({t \in Callers : c \in Owed(t)}) <= 1
<1> DEFINE owing == {t \in Callers : c \in Owed(t)}
<1>1. ASSUME NEW s \in owing, NEW t \in owing PROVE s = t
  <2>1. PICK m \in DOMAIN inputs[s] : c = inputs[s][m]
    BY DEF Owed
  <2>2. PICK n \in DOMAIN inputs[t] : c = inputs[t][n]
    BY DEF Owed
  <2>3. QED
    BY <2>1, <2>2 DEF IInv, BatchedOnce
<1> HIDE DEF owing
<1>2. CASE owing = {}
  BY <1>2, FS_EmptySet DEF owing
<1>3. CASE owing # {}
  <2>1. PICK t : t \in owing
    BY <1>3
  <2>2. owing = {t}
    BY <1>1, <2>1
  <2>3. Cardinality(owing) = 1
    BY <2>2, FS_Singleton
  <2>4. QED
    BY <2>3 DEF owing
<1>4. QED
  BY <1>2, <1>3

\* The invariant contains the types and implies that every request is owed once
\* and that a batch ends where it should.
LEMMA InvImplies == IInv => TypeOK /\ OwedOnce
<1> SUFFICES ASSUME IInv PROVE TypeOK /\ OwedOnce
  OBVIOUS
<1>1. \A c \in Callers : c \in Members(batch_queue) => future[c] = "pending"
  BY DEF IInv, QueuedWaits, Members
<1>2. WaitingIsOwedOnce
  BY <1>1, WaitingSomewhere, OwedByOne DEF WaitingIsOwedOnce
<1>3. OwedIsPending
  <2> SUFFICES ASSUME NEW t \in Callers, place[t] \notin {"except", "dead"}, NEW c \in Owed(t)
               PROVE  future[c] = "pending"
    BY DEF OwedIsPending
  <2>1. PICK n \in DOMAIN inputs[t] : c = inputs[t][n] /\ (place[t] = "deliver" => n >= at[t])
    BY DEF Owed
  <2>2. QED
    BY <2>1 DEF IInv, TypeOK, AnsweredBelow
<1>4. BatchSizeKept
  BY DEF IInv, RoomLeft, BatchSizeKept
<1>5. QED
  BY <1>2, <1>3, <1>4 DEF IInv, OwedOnce

\* No thread has been constructed and no call has got that far at the beginning.
LEMMA InitServes == Init => ThreadServes
<1> SUFFICES ASSUME Init PROVE ThreadServes
  OBVIOUS
<1>1. {t \in Callers : place[t] = "new"} = {} /\ {c \in Callers : pc[c] \in {"start", "failed"}} = {}
  BY DEF Init
<1>2. QED
  BY <1>1 DEF Init, ThreadServes

\* A thread is constructed with a call that is to start one, and started with a call
\* whose .start() succeeds; the other steps change neither count.
LEMMA NextServes == IInv /\ ThreadServes /\ [Next]_vars => ThreadServes'
<1> SUFFICES ASSUME IInv, ThreadServes, [Next]_vars PROVE ThreadServes'
  OBVIOUS
<1> USE DEF IInv
<1> DEFINE fresh == {t \in Callers : place[t] = "new"}
           racing == {c \in Callers : pc[c] \in {"start", "failed"}}
<1>1. IsFiniteSet(fresh) /\ IsFiniteSet(racing) /\ Cardinality(fresh) = Cardinality(racing)
  <2>1. fresh \subseteq Callers /\ racing \subseteq Callers
    OBVIOUS
  <2>2. IsFiniteSet(fresh) /\ IsFiniteSet(racing)
    BY <2>1, FS_Subset, EvalAssumption DEF EvalAssumption
  <2>3. QED
    BY <2>2 DEF ThreadServes
<1>2. ASSUME fresh' = fresh, racing' = racing, batch_thread' = batch_thread,
             batch_thread \in Callers =>
               /\ place'[batch_thread] = "new" => place[batch_thread] = "new"
               /\ pc[batch_thread] = "start" => pc'[batch_thread] = "start"
      PROVE  ThreadServes'
  BY <1>1, <1>2 DEF ThreadServes, TypeOK
<1>3. ASSUME NEW c \in Callers, AssignThread(c) PROVE ThreadServes'
  <2>1. pc[c] = "create" /\ place[c] = "off"
    BY <1>3 DEF AssignThread, Positions
  <2>2. /\ place' = [place EXCEPT ![c] = "new"] /\ pc' = [pc EXCEPT ![c] = "start"]
        /\ batch_thread' = c
    BY <1>3 DEF AssignThread
  <2>3. fresh' = fresh \cup {c} /\ c \notin fresh /\ racing' = racing \cup {c} /\ c \notin racing
    BY <2>1, <2>2 DEF TypeOK
  <2> HIDE DEF fresh, racing
  <2>4. Cardinality(fresh') = Cardinality(racing')
    <3>1. /\ Cardinality(fresh \cup {c}) = Cardinality(fresh) + 1
          /\ Cardinality(racing \cup {c}) = Cardinality(racing) + 1
      BY <1>1, <2>3, FS_AddElement
    <3>2. QED
      BY <1>1, <2>3, <3>1
  <2>5. pc'[c] = "start"
    BY <2>2 DEF TypeOK
  <2>6. QED
    BY <2>2, <2>4, <2>5 DEF ThreadServes, fresh, racing
<1>4. ASSUME NEW c \in Callers, StartThread(c) PROVE ThreadServes'
  <2> DEFINE t == batch_thread
  <2>1. pc[c] = "start" /\ t \in Callers /\ batch_thread' = batch_thread
    BY <1>4 DEF StartThread, Positions
  <2>2. CASE place[t] = "new"
    <3>1. place' = [place EXCEPT ![t] = "collect"] /\ pc' = [pc EXCEPT ![c] = "put"]
      BY <1>4, <2>2 DEF StartThread
    <3>2. fresh' = fresh \ {t} /\ t \in fresh /\ racing' = racing \ {c} /\ c \in racing
      BY <2>1, <2>2, <3>1 DEF TypeOK
    <3> HIDE DEF fresh, racing
    <3>3. Cardinality(fresh') = Cardinality(racing')
      <4>1. /\ Cardinality(fresh \ {t}) = Cardinality(fresh) - 1
            /\ Cardinality(racing \ {c}) = Cardinality(racing) - 1
        BY <1>1, <3>2, FS_RemoveElement
      <4>2. QED
        BY <1>1, <3>2, <4>1
    <3>4. place'[batch_thread'] # "new"
      BY <2>1, <3>1 DEF TypeOK
    <3>5. QED
      BY <3>3, <3>4 DEF ThreadServes, fresh, racing
  <2>3. CASE place[t] # "new"
    <3>1. place' = place /\ pc' = [pc EXCEPT ![c] = "failed"]
      BY <1>4, <2>3 DEF StartThread
    <3>2. fresh' = fresh /\ racing' = racing
      BY <2>1, <3>1 DEF TypeOK
    <3>3. QED
      BY <1>1, <2>1, <2>3, <3>1, <3>2 DEF ThreadServes
  <2>4. QED
    BY <2>2, <2>3
<1>5. ASSUME NEW c \in Callers, ReadThread(c) \/ Put(c) \/ Return(c) PROVE ThreadServes'
  <2>1. /\ place' = place /\ batch_thread' = batch_thread
        /\ pc[c] \notin {"start", "failed"}
        /\ \E p \in {"create", "put", "wait", "done"} : pc' = [pc EXCEPT ![c] = p]
    BY <1>5 DEF ReadThread, Put, Return, threadVars
  <2>2. \A d \in Callers : pc'[d] \in {"start", "failed"} <=> pc[d] \in {"start", "failed"}
    BY <2>1 DEF TypeOK
  <2>3. \A d \in Callers : pc[d] = "start" => pc'[d] = "start"
    BY <2>1 DEF TypeOK
  <2>4. QED
    BY <1>2, <2>1, <2>2, <2>3
<1>6. ASSUME NEW t \in Callers, ThreadStep(t) \/ Raise(t) PROVE ThreadServes'
  <2>1. pc' = pc /\ batch_thread' = batch_thread
    BY <1>6 DEF ThreadStep, Collect, Timeout, Infer, Deliver, SetException, InvalidState, Raise,
                callerVars
  <2>2. /\ place[t] # "new"
        /\ place' = place \/ \E p \in {"collect", "infer", "deliver", "except", "dead"} :
                                place' = [place EXCEPT ![t] = p]
    BY <1>6 DEF ThreadStep, Collect, Timeout, Infer, Deliver, SetException, InvalidState, Raise,
                Advance, Handle, TypeOK
  <2>3. \A u \in Callers : place'[u] = "new" <=> place[u] = "new"
    BY <2>2 DEF TypeOK
  <2>4. QED
    BY <1>2, <2>1, <2>3
<1>7. CASE UNCHANGED vars
  BY <1>2, <1>7 DEF vars
<1>8. QED
  BY <1>3, <1>4, <1>5, <1>6, <1>7 DEF Next, CallerStep

-----------------------------------------------------------------------------
(* The theorems.                                                           *)

\* Types hold, and a thread in a loop over its batch is at one of its futures.
THEOREM TypesHold == Spec => []TypeOK
<1>1. QED
  BY SpecInv, InvImplies, PTL

\* However the calls race to make, overwrite and start the batch thread, a request
\* that waits is in the queue or owed by exactly one thread, which can still deliver
\* its result, and a batch ends at the first request whose size it reaches.
THEOREM RequestsOwedOnce == Spec => []OwedOnce
<1>1. QED
  BY SpecInv, InvImplies, PTL

\* The threads that nobody starts are as many as the calls whose .start() raised or
\* is still to come, and the thread that the global names will not be one of them.
THEOREM FailedStartsCostOneThread == Spec => []ThreadServes
<1>1. QED
  BY SpecInv, InitServes, NextServes, PTL DEF Spec
=============================================================================
