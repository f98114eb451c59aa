------------------------- MODULE RolloutServerProofs -------------------------
(***************************************************************************)
(* Proofs about RolloutServer, for any number of workers, tensors, update  *)
(* plans, trainers, kills and faults.                                      *)
(*                                                                         *)
(* The server writes to pipes and does not wait for an update, so the      *)
(* workers may be behind the trainer by a load, an update and the joining  *)
(* of a group.  The inductive invariant says where the one request of the  *)
(* trainer is; what each pipe can still hold; which replies belong to the  *)
(* request that is being handled; and, as long as the trainer has a        *)
(* communicator, where each worker is in the synchronisation.  A trainer   *)
(* that was killed, or left after a worker died, may leave updates behind: *)
(* then no group can be formed any more (Doomed).                          *)
(***************************************************************************)
EXTENDS RolloutServer, CommonLemmas, FiniteSetTheorems, TLAPS

-----------------------------------------------------------------------------
(* What a pipe, or the queue of requests, holds.                           *)

Has(q, kind) == \E i \in DOMAIN q : q[i].kind = kind
HasCall(q) == \E i \in DOMAIN q : IsCall(q[i].kind)
OnceAtMost(q, kind) == \A i, j \in DOMAIN q : q[i].kind = kind /\ q[j].kind = kind => i = j

\* The one call in a pipe is the last command.
CallIsLast(q, req) ==
  /\ q # <<>> /\ q[Len(q)] = req
  /\ \A i \in DOMAIN q : IsCall(q[i].kind) => i = Len(q)

\* There is one update in a pipe, of these tensors.
OneUpdate(q, data) ==
  \E i \in DOMAIN q : /\ q[i].kind = "update" /\ q[i].data = data
                      /\ \A j \in DOMAIN q : q[j].kind = "update" => j = i

\* Requests of trainers up to the n-th; of the n-th only the last one.
UpTo(q, n) == \A i \in DOMAIN q : q[i].from <= n /\ (q[i].from = n => i = Len(q))
Earlier(q, n) == \A i \in DOMAIN q : q[i].from < n

-----------------------------------------------------------------------------
(* The inductive invariant.                                                *)

Inputs == Prompts \cup {Placeholder}

Requests(P) ==
  {req \in [kind : Kinds, from : Nat, data : Seq(Params) \cup Seq(P)] :
     /\ req.kind = "update" => req.data \in Seq(Params) \ {<<>>}
     /\ req.kind = "infer" => req.data \in Seq(P)}
Replies == [ok : BOOLEAN, items : Seq(Outputs)]
Answers == [kind : Kinds, ok : BOOLEAN, items : Seq(Outputs)]
Tensors == [param : Params, value : 0..MaxVersion]
Places == {"starting", "idle", "join", "recv", "load", "dead"}

PipeTypes ==
  /\ pending \in Seq(Requests(Prompts))
  /\ handling \in Requests(Prompts) \cup {Nobody}
  /\ toWorker \in [Workers -> Seq(Requests(Inputs))]
  /\ fromWorker \in [Workers -> Seq(Replies)]
WorkerTypes ==
  /\ worker \in [Workers -> Places]
  /\ command \in [Workers -> Seq(Params)]
  /\ landed \in [Workers -> Seq(Tensors)]
  /\ comm \in [Workers -> 0..groups]
  /\ weight \in [Workers -> Weights]
  /\ cached \in [Workers -> SUBSET Weights]
TrainerTypes ==
  /\ server \in {"starting", "up", "failed"}
  /\ trainer \in {"off", "idle", "ask", "join", "send"}
  /\ session \in Nat /\ own \in 0..groups /\ groups \in Nat
  /\ plan \in Plans \cup {<<>>} /\ update \in Nat /\ tensor \in Nat
  /\ version \in 0..MaxVersion /\ synced \in 0..version /\ asks \in 0..MaxAsks
  /\ asked \in Nat
  /\ answer \in Answers \cup {Nobody}
  /\ result \in Seq(Outputs) \cup {Nobody}
  /\ crashes \in Nat /\ faults \in Nat
TypesInv == PipeTypes /\ WorkerTypes /\ TrainerTypes

\* What the trainer may be waiting for the answer to.
Fits(kind) ==
  \/ kind \in {"init", "close"} /\ own = 0
  \/ kind = "update" /\ own # 0 /\ plan # <<>> /\ update \in DOMAIN plan
  \/ kind = "reset" /\ own # 0 /\ plan # <<>> /\ update = 0
  \/ kind = "infer" /\ plan = <<>> /\ result = Nobody

Ours(req) ==
  /\ req.from = session /\ Fits(req.kind)
  /\ req.kind = "update" => req.data = plan[update]
  /\ req.kind = "infer" => req.data = [i \in 1..asked |-> <<asks, i>>]

\* The trainer's request waits for the event loop, or is being handled.
Silent == pending = <<>> /\ handling = Nobody
InPending ==
  /\ pending # <<>> /\ Ours(pending[Len(pending)])
  /\ handling # Nobody => handling.from < session
  /\ own # 0 => Len(pending) = 1 /\ handling = Nobody
InHandler == pending = <<>> /\ handling # Nobody /\ Ours(handling)

\* The trainer's request is in one place, what came before it is of earlier trainers.
AskInv ==
  /\ UpTo(pending, session)
  /\ handling # Nobody => handling.from <= session /\ IsCall(handling.kind)
  /\ answer # Nobody => trainer = "ask" /\ Silent /\ Fits(answer.kind)
  /\ trainer = "idle" => Earlier(pending, session) /\ (handling # Nobody => handling.from < session)
  /\ trainer \in {"join", "send"} => Silent
  /\ own # 0 /\ trainer # "ask" => Silent
  /\ trainer = "ask" /\ answer = Nobody => InPending \/ InHandler

\* Where the trainer's own variables stand.
PlaceInv ==
  /\ trainer \in {"join", "off"} => own = 0
  /\ trainer = "send" => /\ own # 0 /\ plan # <<>> /\ update \in DOMAIN plan
                         /\ tensor \in DOMAIN plan[update]
  /\ trainer = "idle" => plan = <<>>
  /\ own = 0 => plan = <<>> /\ synced = 0

\* A communicator that is to be closed is there, and is closed once.
CloseInv ==
  /\ own # 0 => \A w \in Workers : comm[w] = own /\ ~Has(toWorker[w], "close")
  /\ \A w \in Workers : worker[w] = "join" => comm[w] = 0
  /\ \A w \in Workers : Alive(w) =>
       /\ Has(toWorker[w], "close") \/ Has(pending, "close") => comm[w] # 0
       /\ ~(Has(toWorker[w], "close") /\ Has(pending, "close"))
       /\ OnceAtMost(toWorker[w], "close")
  /\ OnceAtMost(pending, "close")

\* Without the trainer's communicator no update is left, or no group forms any more:
\* a worker is dead, or keeps a communicator that nobody will close.
Kept(w) == comm[w] # 0 /\ ~Has(toWorker[w], "close") /\ ~Has(pending, "close")
Doomed == \E w \in Workers : ~Alive(w) \/ Kept(w)
Free(w) == landed[w] = <<>> /\ command[w] = <<>> /\ ~Has(toWorker[w], "update")
Clean == ~Has(pending, "update") /\ \A w \in Workers : Free(w)
DoomInv == own = 0 => Doomed \/ Clean

\* What a worker holds at each place.
QuietInv ==
  \A w \in Workers :
    /\ worker[w] \in {"starting", "idle", "join"} => landed[w] = <<>> /\ command[w] = <<>>
    /\ worker[w] = "load" => Len(landed[w]) = Len(command[w])
    /\ worker[w] = "recv" => Len(landed[w]) < Len(command[w])
    /\ worker[w] = "starting" => server # "up" /\ fromWorker[w] = <<>>
    /\ worker[w] = "dead" => toWorker[w] = <<>>

\* Nothing is asked before the server is up.
StartInv ==
  server # "up" =>
    /\ Silent /\ trainer = "off" /\ session = 0
    /\ \A w \in Workers : toWorker[w] = <<>>

\* While a call is handled each worker has it in its pipe, or has replied, or is dead.
Matches(reply, req, w) ==
  reply.ok /\ req.kind = "infer" =>
    /\ Len(reply.items) = Len(CommandFor(req, w).data)
    /\ \A i \in DOMAIN reply.items : reply.items[i].prompt = CommandFor(req, w).data[i]
Waiting(w) == Alive(w) /\ fromWorker[w] = <<>> /\ CallIsLast(toWorker[w], CommandFor(handling, w))
Replied(w) ==
  /\ Len(fromWorker[w]) = 1 /\ Matches(fromWorker[w][1], handling, w)
  /\ ~HasCall(toWorker[w])
Lost(w) == ~Alive(w) /\ fromWorker[w] = <<>>

ReplyInv ==
  server = "up" =>
    /\ handling = Nobody /\ AllAlive => \A w \in Workers : fromWorker[w] = <<>> /\ ~HasCall(toWorker[w])
    /\ handling # Nobody => \A w \in Workers : Waiting(w) \/ Replied(w) \/ Lost(w)
    /\ answer # Nobody /\ answer.ok => \A w \in Workers : ~HasCall(toWorker[w])

\* Where the workers are in a synchronisation: an update has not been sent, or is in a
\* worker's pipe while the worker may still load the one before, or is being received.
Unsent(w) == ~Has(toWorker[w], "update") /\ worker[w] \in {"idle", "load"}
Queued(w) ==
  /\ worker[w] \in {"idle", "load"} /\ OneUpdate(toWorker[w], plan[update])
  /\ trainer = "send" => tensor = 1
Receiving(w) ==
  /\ worker[w] = "recv" /\ ~Has(toWorker[w], "update")
  /\ command[w] = plan[update]
  /\ Len(landed[w]) = IF trainer = "send" THEN tensor - 1 ELSE 0
Done(w) == Free(w) /\ worker[w] \in {"idle", "dead"}
IsSent == update # 0 /\ (trainer = "send" \/ answer # Nobody)

PhaseInv ==
  own # 0 =>
    /\ plan = <<>> => \A w \in Workers : Done(w)
    /\ plan # <<>> /\ AllAlive =>
         \A w \in Workers : IF IsSent THEN Queued(w) \/ Receiving(w) ELSE Unsent(w)
    /\ plan # <<>> /\ handling # Nobody =>
         \A w \in Workers : (Alive(w) => Unsent(w)) /\ (fromWorker[w] # <<>> => Done(w))
    /\ plan # <<>> /\ answer # Nobody /\ ~answer.ok => ~AllAlive
    /\ plan # <<>> /\ answer # Nobody /\ answer.ok /\ answer.kind = "reset" => \A w \in Workers : Done(w)

\* What has been broadcast is in the model, or is being loaded.
Past == IF update = 0 THEN DOMAIN plan ELSE 1..(update - 1)
Loaded(w, j) ==
  \A i \in DOMAIN plan[j] :
    \/ weight[w][plan[j][i]] = version
    \/ worker[w] = "load" /\ \E k \in DOMAIN command[w] : command[w][k] = plan[j][i]
AllNew(weights) == \A p \in Params : weights[p] = version
Fresh(w) == AllNew(weight[w]) /\ cached[w] = {}
Good(items) == \A i \in DOMAIN items : ~items[i].stale /\ AllNew(items[i].weight)

SyncInv ==
  faults = 0 /\ own # 0 /\ plan # <<>> =>
    /\ \A w \in Workers : Alive(w) => \A j \in Past : Loaded(w, j)
    /\ result = Nobody
    /\ handling # Nobody => \A w \in Workers : fromWorker[w] # <<>> => Fresh(w)
    /\ answer # Nobody /\ answer.ok /\ answer.kind = "reset" => \A w \in Workers : Fresh(w)

InferInv ==
  faults = 0 /\ plan = <<>> /\ synced # 0 =>
    /\ synced = version
    /\ \A w \in Workers : AllNew(weight[w]) /\ cached[w] \subseteq {weight[w]}
    /\ handling # Nobody => \A w \in Workers : fromWorker[w] # <<>> => Good(fromWorker[w][1].items)
    /\ answer # Nobody => Good(answer.items)
    /\ result # Nobody => Good(result)

\* The outputs on their way to the trainer, and those that have arrived.
Ordered(items) == Len(items) = asked /\ \A i \in DOMAIN items : items[i].prompt = <<asks, i>>
AnswerInv ==
  /\ answer # Nobody /\ answer.kind = "infer" /\ answer.ok => Ordered(answer.items)
  /\ result # Nobody => Ordered(result)

IInv ==
  /\ TypesInv /\ AskInv /\ PlaceInv /\ CloseInv /\ DoomInv /\ QuietInv /\ StartInv /\ ReplyInv
  /\ PhaseInv /\ TensorsMatch /\ SyncInv /\ InferInv /\ AnswerInv

-----------------------------------------------------------------------------
(* Pipes.                                                                  *)

\* A command is written to a pipe, or a request to the queue of requests.
LEMMA PutLast ==
  ASSUME NEW S, NEW q \in Seq(S), NEW x \in S
  PROVE  /\ Append(q, x) \in Seq(S) /\ Append(q, x) # <<>>
         /\ Len(Append(q, x)) = Len(q) + 1 /\ Len(q) \in Nat
         /\ Append(q, x)[Len(q) + 1] = x
         /\ DOMAIN Append(q, x) = DOMAIN q \cup {Len(q) + 1}
         /\ \A i \in DOMAIN q : Append(q, x)[i] = q[i] /\ i # Len(q) + 1
OBVIOUS

LEMMA PutIn ==
  ASSUME NEW S, NEW q \in Seq(S), NEW x \in S
  PROVE  /\ Append(q, x) \in Seq(S) /\ Append(q, x) # <<>>
         /\ \A kind : Has(Append(q, x), kind) <=> Has(q, kind) \/ x.kind = kind
         /\ HasCall(Append(q, x)) <=> HasCall(q) \/ IsCall(x.kind)
         /\ \A kind : OnceAtMost(q, kind) /\ ~(Has(q, kind) /\ x.kind = kind) => OnceAtMost(Append(q, x), kind)
         /\ ~HasCall(q) => CallIsLast(Append(q, x), x)
         /\ ~Has(q, "update") /\ x.kind = "update" => OneUpdate(Append(q, x), x.data)
<1> DEFINE a == Append(q, x)
           n == Len(q) + 1
<1>1. a \in Seq(S) /\ a # <<>> /\ Len(a) = n
  BY PutLast
<1>2. a[n] = x /\ DOMAIN a = DOMAIN q \cup {n} /\ \A i \in DOMAIN q : a[i] = q[i] /\ i # n
  BY PutLast
<1> HIDE DEF a, n
<1>3. \A kind : Has(a, kind) <=> Has(q, kind) \/ x.kind = kind
  BY <1>2 DEF Has
<1>4. HasCall(a) <=> HasCall(q) \/ IsCall(x.kind)
  BY <1>2 DEF HasCall
<1>5. \A kind : OnceAtMost(q, kind) /\ ~(Has(q, kind) /\ x.kind = kind) => OnceAtMost(a, kind)
  BY <1>2 DEF OnceAtMost, Has
<1>6. ~HasCall(q) => CallIsLast(a, x)
  BY <1>1, <1>2 DEF CallIsLast, HasCall
<1>7. ~Has(q, "update") /\ x.kind = "update" => OneUpdate(a, x.data)
  BY <1>2 DEF OneUpdate, Has
<1>8. QED
  BY <1>1, <1>3, <1>4, <1>5, <1>6, <1>7 DEF a

\* The first one is taken.
LEMMA TakeFirst ==
  ASSUME NEW S, NEW q \in Seq(S), q # <<>>
  PROVE  /\ Tail(q) \in Seq(S) /\ Head(q) \in S /\ Head(q) = q[1]
         /\ 1 \in DOMAIN q /\ Len(q) \in Nat \ {0}
         /\ Len(Tail(q)) = Len(q) - 1
         /\ \A i \in DOMAIN Tail(q) : i + 1 \in DOMAIN q /\ i + 1 # 1 /\ Tail(q)[i] = q[i + 1]
         /\ \A i \in DOMAIN q : i # 1 => i - 1 \in DOMAIN Tail(q) /\ (i - 1) + 1 = i
         /\ \A i, j \in DOMAIN Tail(q) : i + 1 = j + 1 => i = j
         /\ \A i \in DOMAIN Tail(q) : i = Len(Tail(q)) <=> i + 1 = Len(q)
         /\ \A i \in DOMAIN q : 1 = Len(q) => i = 1
         /\ 1 # Len(q) => Tail(q) # <<>> /\ Len(Tail(q)) \in DOMAIN Tail(q) /\ Len(Tail(q)) + 1 = Len(q)
         /\ 1 = Len(q) => Tail(q) = <<>>
         /\ Len(q) \in DOMAIN q
<1> DEFINE t == Tail(q)
           n == Len(q)
           m == Len(t)
<1>1. t \in Seq(S) /\ Head(q) \in S /\ Head(q) = q[1]
  OBVIOUS
<1>2. n \in Nat \ {0} /\ m = n - 1 /\ DOMAIN q = 1..n /\ DOMAIN t = 1..m
  OBVIOUS
<1>3. \A i \in 1..m : t[i] = q[i + 1]
  BY HeadTailProperties
<1>4. m = 0 <=> t = <<>>
  BY <1>1, EmptySeq
<1> HIDE DEF t, n, m
<1>5. /\ \A i \in DOMAIN t : i + 1 \in DOMAIN q /\ i + 1 # 1
      /\ \A i \in DOMAIN q : i # 1 => i - 1 \in DOMAIN t /\ (i - 1) + 1 = i
      /\ \A i, j \in DOMAIN t : i + 1 = j + 1 => i = j
      /\ \A i \in DOMAIN t : i = m <=> i + 1 = n
  BY <1>2
<1>6. /\ 1 \in DOMAIN q /\ n \in DOMAIN q
      /\ \A i \in DOMAIN q : 1 = n => i = 1
      /\ 1 # n => m # 0 /\ m \in DOMAIN t /\ m + 1 = n
      /\ 1 = n => m = 0
  BY <1>2
<1>7. QED
  BY <1>1, <1>2, <1>3, <1>4, <1>5, <1>6 DEF t, n, m

LEMMA TakeOut ==
  ASSUME NEW S, NEW q \in Seq(S), q # <<>>
  PROVE  /\ Tail(q) \in Seq(S) /\ Head(q) \in S
         /\ \A kind : Has(q, kind) <=> Has(Tail(q), kind) \/ Head(q).kind = kind
         /\ HasCall(q) <=> HasCall(Tail(q)) \/ IsCall(Head(q).kind)
         /\ \A kind : OnceAtMost(q, kind) =>
              OnceAtMost(Tail(q), kind) /\ (Head(q).kind = kind => ~Has(Tail(q), kind))
         /\ \A req : CallIsLast(q, req) /\ IsCall(req.kind) =>
              IF IsCall(Head(q).kind) THEN Head(q) = req /\ ~HasCall(Tail(q)) ELSE CallIsLast(Tail(q), req)
         /\ \A data : OneUpdate(q, data) =>
              IF Head(q).kind = "update" THEN Head(q).data = data /\ ~Has(Tail(q), "update")
              ELSE OneUpdate(Tail(q), data)
<1> DEFINE t == Tail(q)
           h == Head(q)
           n == Len(q)
<1>1. t \in Seq(S) /\ h \in S
  BY TakeFirst
<1>2. h = q[1] /\ 1 \in DOMAIN q /\ n \in DOMAIN q
  BY TakeFirst
<1>3. \A i \in DOMAIN t : i + 1 \in DOMAIN q /\ i + 1 # 1 /\ t[i] = q[i + 1]
  BY TakeFirst
<1>4. \A i \in DOMAIN q : i # 1 => i - 1 \in DOMAIN t /\ (i - 1) + 1 = i
  BY TakeFirst
<1>5. \A i, j \in DOMAIN t : i + 1 = j + 1 => i = j
  BY TakeFirst
<1>6. /\ \A i \in DOMAIN t : i = Len(t) <=> i + 1 = n
      /\ \A i \in DOMAIN q : 1 = n => i = 1
      /\ 1 # n => t # <<>> /\ Len(t) \in DOMAIN t /\ Len(t) + 1 = n
  BY TakeFirst
<1>7. n = Len(q)
  OBVIOUS
<1> HIDE DEF t, h, n
<1>8. \A i \in DOMAIN q : i = 1 \/ \E j \in DOMAIN t : i = j + 1 /\ q[i] = t[j]
  BY <1>3, <1>4
<1>9. \A kind : Has(q, kind) <=> Has(t, kind) \/ h.kind = kind
  BY <1>2, <1>3, <1>8 DEF Has
<1>10. HasCall(q) <=> HasCall(t) \/ IsCall(h.kind)
  BY <1>2, <1>3, <1>8 DEF HasCall
<1>11. ASSUME NEW kind, OnceAtMost(q, kind)
       PROVE  OnceAtMost(t, kind) /\ (h.kind = kind => ~Has(t, kind))
  <2>1. \A i, j \in DOMAIN t : t[i].kind = kind /\ t[j].kind = kind => i + 1 = j + 1
    BY <1>3, <1>11 DEF OnceAtMost
  <2>2. OnceAtMost(t, kind)
    BY <1>5, <2>1 DEF OnceAtMost
  <2>3. h.kind = kind => ~Has(t, kind)
    BY <1>2, <1>3, <1>11 DEF OnceAtMost, Has
  <2>4. QED
    BY <2>2, <2>3
<1>12. ASSUME NEW req, CallIsLast(q, req), IsCall(req.kind)
       PROVE  IF IsCall(h.kind) THEN h = req /\ ~HasCall(t) ELSE CallIsLast(t, req)
  <2>1. q[n] = req /\ \A i \in DOMAIN q : IsCall(q[i].kind) => i = n
    BY <1>7, <1>12 DEF CallIsLast
  <2>2. CASE IsCall(h.kind)
    <3>1. 1 = n
      BY <1>2, <2>1, <2>2
    <3>2. \A i \in DOMAIN t : FALSE
      BY <1>3, <1>6, <3>1
    <3>3. QED
      BY <1>2, <2>1, <2>2, <3>1, <3>2 DEF HasCall
  <2>3. CASE ~IsCall(h.kind)
    <3>1. 1 # n
      BY <1>2, <1>12, <2>1, <2>3
    <3>2. t[Len(t)] = req
      BY <1>3, <1>6, <2>1, <3>1
    <3>3. \A i \in DOMAIN t : IsCall(t[i].kind) => i = Len(t)
      BY <1>3, <1>6, <2>1
    <3>4. QED
      BY <1>6, <2>3, <3>1, <3>2, <3>3 DEF CallIsLast
  <2>4. QED
    BY <2>2, <2>3
<1>13. ASSUME NEW data, OneUpdate(q, data)
       PROVE  IF h.kind = "update" THEN h.data = data /\ ~Has(t, "update") ELSE OneUpdate(t, data)
  <2>1. PICK i \in DOMAIN q : /\ q[i].kind = "update" /\ q[i].data = data
                              /\ \A j \in DOMAIN q : q[j].kind = "update" => j = i
    BY <1>13 DEF OneUpdate
  <2>2. CASE h.kind = "update"
    <3>1. i = 1
      BY <1>2, <2>1, <2>2
    <3>2. ~Has(t, "update")
      BY <1>3, <2>1, <3>1 DEF Has
    <3>3. QED
      BY <1>2, <2>1, <2>2, <3>1, <3>2
  <2>3. CASE h.kind # "update"
    <3>1. PICK j \in DOMAIN t : i = j + 1 /\ q[i] = t[j]
      BY <1>2, <1>8, <2>1, <2>3
    <3>2. \A k \in DOMAIN t : t[k].kind = "update" => k = j
      BY <1>3, <1>5, <2>1, <3>1
    <3>3. QED
      BY <2>1, <2>3, <3>1, <3>2 DEF OneUpdate
  <2>4. QED
    BY <2>2, <2>3
<1>14. QED
  BY <1>1, <1>9, <1>10, <1>11, <1>12, <1>13 DEF t, h

\* An empty pipe.
LEMMA EmptyPipe ==
  /\ \A kind : ~Has(<<>>, kind) /\ OnceAtMost(<<>>, kind)
  /\ ~HasCall(<<>>)
  /\ \A n : UpTo(<<>>, n) /\ Earlier(<<>>, n)
BY DEF Has, OnceAtMost, HasCall, UpTo, Earlier

\* An update in a pipe is one that the pipe has.
LEMMA OneIsThere ==
  ASSUME NEW q, NEW data, OneUpdate(q, data)
  PROVE  Has(q, "update")
BY DEF OneUpdate, Has

-----------------------------------------------------------------------------
(* Requests, answers and the workers' commands.                            *)

LEMMA ConstantFacts ==
  /\ NumWorkers \in Nat \ {0} /\ Workers = 1..NumWorkers
  /\ \A n \in Sizes : n \in Nat \ {0}
  /\ MaxVersion \in Nat /\ MaxAsks \in Nat
  /\ \A p \in Plans : p \in Seq(Seq(Params) \ {<<>>}) /\ p # <<>>
  /\ \A p \in Plans : \A q \in Params : \E u \in DOMAIN p : \E i \in DOMAIN p[u] : p[u][i] = q
BY RolloutAssumption DEF RolloutAssumption, Workers

LEMMA PromptPairs ==
  /\ Prompts \subseteq Nat \X Nat /\ Inputs \subseteq Nat \X Nat /\ Prompts \subseteq Inputs
  /\ Placeholder \in Inputs
<1>1. Prompts \subseteq Nat \X Nat
  BY ConstantFacts DEF Prompts
<1>2. Placeholder \in Nat \X Nat
  BY DEF Placeholder
<1>3. QED
  BY <1>1, <1>2 DEF Inputs

LEMMA RequestFacts ==
  ASSUME NEW P, NEW req \in Requests(P)
  PROVE  /\ req.kind \in Kinds /\ req.from \in Nat
         /\ req.kind = "update" => req.data \in Seq(Params) \ {<<>>}
         /\ req.kind = "infer" => req.data \in Seq(P)
BY DEF Requests

\* Nobody is neither a request nor an answer.
LEMMA SomeRequest == Nobody \notin Requests(Prompts)
<1>1. Requests(Prompts) \subseteq [kind : Kinds, from : Nat, data : Seq(Params) \cup Seq(Nat \X Nat)]
  <2> SUFFICES ASSUME NEW req \in Requests(Prompts)
               PROVE  req \in [kind : Kinds, from : Nat, data : Seq(Params) \cup Seq(Nat \X Nat)]
    OBVIOUS
  <2>1. req \in [kind : Kinds, from : Nat, data : Seq(Params) \cup Seq(Prompts)]
    BY DEF Requests
  <2>2. req.data \in Seq(Params) \cup Seq(Nat \X Nat)
    BY <2>1, PromptPairs, SeqMonotonic
  <2>3. QED
    BY <2>1, <2>2
<1>2. QED
  BY <1>1, NobodyAssumption DEF NobodyAssumption

LEMMA SomeAnswer == Nobody \notin Answers
<1>1. Outputs \subseteq [prompt : Nat \X Nat, weight : [Params -> Nat], stale : BOOLEAN]
  <2>1. Weights \subseteq [Params -> Nat]
    BY ConstantFacts DEF Weights
  <2>2. QED
    BY <2>1, PromptPairs DEF Outputs, Inputs
<1>2. Answers \subseteq [kind : Kinds, ok : BOOLEAN,
                        items : Seq([prompt : Nat \X Nat, weight : [Params -> Nat], stale : BOOLEAN])]
  <2> SUFFICES ASSUME NEW a \in Answers
               PROVE  a \in [kind : Kinds, ok : BOOLEAN,
                             items : Seq([prompt : Nat \X Nat, weight : [Params -> Nat], stale : BOOLEAN])]
    OBVIOUS
  <2>1. a.items \in Seq([prompt : Nat \X Nat, weight : [Params -> Nat], stale : BOOLEAN])
    BY <1>1, SeqMonotonic DEF Answers
  <2>2. QED
    BY <2>1 DEF Answers
<1>3. QED
  BY <1>2, NobodyAssumption DEF NobodyAssumption

\* What the trainer posts.
LEMMA MakeRequest ==
  ASSUME session \in Nat, NEW kind, NEW data,
         \/ kind \in {"init", "reset", "close"} /\ data = <<>>
         \/ kind = "update" /\ data \in Seq(Params) \ {<<>>}
         \/ kind = "infer" /\ data \in Seq(Prompts)
  PROVE  /\ Request(kind, data) \in Requests(Prompts)
         /\ Request(kind, data).kind = kind /\ Request(kind, data).from = session
         /\ Request(kind, data).data = data
<1>1. <<>> \in Seq(Params)
  OBVIOUS
<1>2. QED
  BY <1>1 DEF Request, Requests, Kinds

-----------------------------------------------------------------------------
(* The chunks of the prompts.                                              *)

\* Multiples.
LEMMA MultiplesGrow ==
  ASSUME NEW a \in Nat, NEW b \in Nat, NEW k \in Nat, a <= b
  PROVE  a * k \in Nat /\ b * k \in Nat /\ a * k <= b * k
<1>1. PICK d \in Nat : b = a + d
  <2>1. b - a \in Nat /\ b = a + (b - a)
    OBVIOUS
  <2>2. QED
    BY <2>1
<1>2. b * k = a * k + d * k
  BY <1>1
<1>3. a * k \in Nat /\ d * k \in Nat
  OBVIOUS
<1>4. QED
  BY <1>2, <1>3

\* Chunk w begins where chunk w - 1 ends, and the last one ends with the prompts.
LEMMA ChunkStarts ==
  ASSUME NEW S, NEW s \in Seq(S), NEW n \in Nat \ {0}
  PROVE  /\ \A w \in 0..n : ChunkStart(s, n, w) \in Nat /\ ChunkStart(s, n, w) <= Len(s)
         /\ ChunkStart(s, n, 0) = 0 /\ ChunkStart(s, n, n) = Len(s)
         /\ \A w \in 1..n : ChunkStart(s, n, w - 1) <= ChunkStart(s, n, w)
<1> DEFINE k == Len(s) \div n
           m == Len(s) % n
           l == Len(s)
<1>1. k \in Nat /\ m \in Nat /\ m < n /\ l = n * k + m /\ l \in Nat
  <2>1. l \in Nat /\ k \in Int /\ m \in Int
    OBVIOUS
  <2>2. l = n * k + m /\ m \in 0..n - 1 /\ k \in Nat
    BY <2>1, DivisionParts
  <2>3. QED
    BY <2>1, <2>2
<1>2. \A i : ChunkStart(s, n, i) = i * k + (IF i < m THEN i ELSE m)
  BY DEF ChunkStart
<1> HIDE DEF k, m, l
<1>3. ASSUME NEW w \in 0..n
      PROVE  ChunkStart(s, n, w) \in Nat /\ ChunkStart(s, n, w) <= l
  <2>1. w * k \in Nat /\ w * k <= n * k /\ n * k \in Nat
    BY <1>1, MultiplesGrow
  <2> DEFINE x == w * k
             y == n * k
  <2>2. ChunkStart(s, n, w) = x + (IF w < m THEN w ELSE m) /\ l = y + m
    BY <1>1, <1>2
  <2> HIDE DEF x, y
  <2>3. QED
    BY <1>1, <2>1, <2>2 DEF x, y
<1>4. ASSUME NEW w \in 1..n
      PROVE  ChunkStart(s, n, w - 1) <= ChunkStart(s, n, w)
  <2>1. (w - 1) * k \in Nat /\ (w - 1) * k <= w * k /\ w * k \in Nat
    BY <1>1, MultiplesGrow
  <2> DEFINE x == (w - 1) * k
             y == w * k
  <2>2. /\ ChunkStart(s, n, w - 1) = x + (IF w - 1 < m THEN w - 1 ELSE m)
        /\ ChunkStart(s, n, w) = y + (IF w < m THEN w ELSE m)
    BY <1>2
  <2> HIDE DEF x, y
  <2>3. QED
    BY <1>1, <2>1, <2>2 DEF x, y
<1>5. ChunkStart(s, n, 0) = 0
  <2>1. 0 * k = 0
    BY <1>1
  <2>2. QED
    BY <1>1, <1>2, <2>1
<1>6. ChunkStart(s, n, n) = l
  BY <1>1, <1>2
<1>7. QED
  BY <1>3, <1>4, <1>5, <1>6 DEF l

\* Each chunk is the part of the prompts between two starts.
PartOf(s, n, w) ==
  /\ ChunkStart(s, n, w) = ChunkStart(s, n, w - 1) + Len(ChunkList(s, n)[w])
  /\ \A j \in 1..Len(ChunkList(s, n)[w]) :
       ChunkList(s, n)[w][j] = s[ChunkStart(s, n, w - 1) + j]

LEMMA Chunks ==
  ASSUME NEW S, NEW s \in Seq(S), NEW n \in Nat \ {0}
  PROVE  /\ ChunkList(s, n) \in [1..n -> Seq(S)]
         /\ \A w \in 1..n : PartOf(s, n, w)
<1>1. ASSUME NEW w \in 1..n
      PROVE  /\ ChunkList(s, n)[w] \in Seq(S)
             /\ ChunkStart(s, n, w) = ChunkStart(s, n, w - 1) + Len(ChunkList(s, n)[w])
             /\ \A j \in 1..Len(ChunkList(s, n)[w]) :
                  ChunkList(s, n)[w][j] = s[ChunkStart(s, n, w - 1) + j]
  <2> DEFINE a == ChunkStart(s, n, w - 1)
             b == ChunkStart(s, n, w)
  <2>1. w - 1 \in 0..n /\ w \in 0..n
    OBVIOUS
  <2>2. a \in Nat /\ b \in Nat /\ a <= b /\ b <= Len(s)
    BY <2>1, ChunkStarts
  <2>3. ChunkList(s, n)[w] = SubSeq(s, a + 1, b)
    BY DEF ChunkList
  <2> HIDE DEF a, b
  <2>4. /\ SubSeq(s, a + 1, b) \in Seq(S)
        /\ Len(SubSeq(s, a + 1, b)) = b - a
        /\ \A j \in 1..(b - a) : SubSeq(s, a + 1, b)[j] = s[a + j]
    <3>1. \A i \in (a + 1)..b : s[i] \in S
      BY <2>2
    <3>2. SubSeq(s, a + 1, b) \in Seq(S)
      BY <2>2
    <3>3. Len(SubSeq(s, a + 1, b)) = b - a
      BY <2>2
    <3>4. \A j \in 1..(b - a) : SubSeq(s, a + 1, b)[j] = s[a + j]
      BY <2>2
    <3>5. QED
      BY <3>2, <3>3, <3>4
  <2>5. QED
    BY <2>2, <2>3, <2>4 DEF a, b
<1>2. ChunkList(s, n) \in [1..n -> Seq(S)]
  BY <1>1 DEF ChunkList
<1>3. \A w \in 1..n : PartOf(s, n, w)
  BY <1>1 DEF PartOf
<1>4. QED
  BY <1>2, <1>3

\* What the handler writes to a worker.
LEMMA CommandFacts ==
  ASSUME NEW req \in Requests(Prompts), NEW w \in Workers
  PROVE  /\ CommandFor(req, w) \in Requests(Inputs)
         /\ CommandFor(req, w).kind = req.kind
         /\ req.kind # "infer" => CommandFor(req, w) = req
         /\ req.kind = "infer" =>
              /\ req.data \in Seq(Prompts)
              /\ CommandFor(req, w).data = IF w \in Used(req) THEN ChunkList(req.data, NumWorkers)[w]
                                           ELSE <<Placeholder>>
<1>1. CASE req.kind # "infer"
  <2>1. req \in Requests(Inputs)
    <3>1. req \in [kind : Kinds, from : Nat, data : Seq(Params) \cup Seq(Prompts)]
      BY DEF Requests
    <3>2. req.data \in Seq(Params) \cup Seq(Inputs)
      BY <3>1, PromptPairs, SeqMonotonic
    <3>3. QED
      BY <1>1, <3>1, <3>2, RequestFacts DEF Requests
  <2>2. QED
    BY <1>1, <2>1 DEF CommandFor
<1>2. CASE req.kind = "infer"
  <2> DEFINE chunk == ChunkList(req.data, NumWorkers)[w]
             d == IF chunk = <<>> THEN <<Placeholder>> ELSE chunk
  <2>1. req.data \in Seq(Prompts)
    BY <1>2, RequestFacts
  <2>2. chunk \in Seq(Prompts)
    BY <2>1, Chunks, ConstantFacts
  <2>3. chunk \in Seq(Inputs)
    BY <2>2, PromptPairs, SeqMonotonic
  <2>4. d \in Seq(Inputs)
    BY <2>3, PromptPairs
  <2>5. CommandFor(req, w) = [req EXCEPT !.data = d]
    BY <1>2, Zenon DEF CommandFor
  <2>6. w \in Used(req) <=> chunk # <<>>
    BY <1>2 DEF Used
  <2>7. d = IF w \in Used(req) THEN chunk ELSE <<Placeholder>>
    BY <2>6
  <2> HIDE DEF d, chunk
  <2>8. CommandFor(req, w) \in Requests(Inputs)
    BY <1>2, <2>4, <2>5 DEF Requests
  <2>9. CommandFor(req, w).kind = req.kind /\ CommandFor(req, w).data = d
    BY <2>5 DEF Requests
  <2>10. QED
    BY <1>2, <2>1, <2>7, <2>8, <2>9 DEF chunk
<1>3. QED
  BY <1>1, <1>2

\* The outputs kept of the workers' replies, one sequence after the other, are those
\* of the prompts in order.
OutputsOf(out, req) ==
  \A w \in Workers :
    LET chunk == ChunkList(req.data, NumWorkers)[w]
    IN  Len(out[w]) = Len(chunk) /\ \A j \in 1..Len(chunk) : out[w][j].prompt = chunk[j]

LEMMA InOrder ==
  ASSUME NEW req \in Requests(Prompts), req.kind = "infer",
         NEW out \in [Workers -> Seq(Outputs)], OutputsOf(out, req)
  PROVE  /\ FlattenSeq(out) \in Seq(Outputs)
         /\ Len(FlattenSeq(out)) = Len(req.data)
         /\ \A i \in DOMAIN FlattenSeq(out) : i \in DOMAIN req.data /\ FlattenSeq(out)[i].prompt = req.data[i]
<1> DEFINE n == NumWorkers
           d == req.data
           start == [w \in 0..n |-> ChunkStart(d, n, w)]
<1>1. d \in Seq(Prompts) /\ n \in Nat /\ n \in Nat \ {0} /\ Workers = 1..n
  BY RequestFacts, ConstantFacts
<1>2. /\ \A w \in 0..n : ChunkStart(d, n, w) \in Nat /\ ChunkStart(d, n, w) <= Len(d)
      /\ ChunkStart(d, n, 0) = 0 /\ ChunkStart(d, n, n) = Len(d)
  BY <1>1, ChunkStarts
<1>p. \A w \in 1..n : PartOf(d, n, w)
  BY <1>1, Chunks
<1>3. \A w \in 1..n :
        /\ ChunkStart(d, n, w) = ChunkStart(d, n, w - 1) + Len(ChunkList(d, n)[w])
        /\ \A j \in 1..Len(ChunkList(d, n)[w]) : ChunkList(d, n)[w][j] = d[ChunkStart(d, n, w - 1) + j]
  BY <1>p DEF PartOf
<1>4. \A w \in 1..n : Len(out[w]) = Len(ChunkList(d, n)[w])
                   /\ \A j \in 1..Len(ChunkList(d, n)[w]) : out[w][j].prompt = ChunkList(d, n)[w][j]
  BY <1>1 DEF OutputsOf
<1> HIDE DEF d, n
<1>5. \A w \in 1..n : w - 1 \in 0..n /\ w \in 0..n
  BY <1>1
<1>6. Counts(out, n, start)
  <2>1. start \in [0..n -> Nat] /\ start[0] = 0
    BY <1>1, <1>2
  <2>2. \A w \in 1..n : start[w] = start[w - 1] + Len(out[w])
    BY <1>3, <1>4, <1>5
  <2> HIDE DEF start
  <2>3. QED
    BY <2>1, <2>2 DEF Counts
<1>7. start[n] = Len(d) /\ \A w \in 1..n : start[w - 1] = ChunkStart(d, n, w - 1)
  BY <1>1, <1>2, <1>5
<1> HIDE DEF start
<1>8. out \in [1..n -> Seq(Outputs)]
  BY <1>1
<1>9. /\ FlattenSeq(out) \in Seq(Outputs) /\ Len(FlattenSeq(out)) = start[n]
      /\ InParts(out, n, start, FlattenSeq(out))
  BY <1>1, <1>6, <1>8, FlattenParts
<1>10. ASSUME NEW i \in DOMAIN FlattenSeq(out)
       PROVE  i \in DOMAIN d /\ FlattenSeq(out)[i].prompt = d[i]
  <2>1. i \in 1..start[n] /\ i \in DOMAIN d
    BY <1>1, <1>7, <1>9
  <2>2. PICK w \in 1..n : \E j \in 1..Len(out[w]) : i = start[w - 1] + j /\ FlattenSeq(out)[i] = out[w][j]
    BY <1>9, <2>1 DEF InParts
  <2>3. PICK j \in 1..Len(out[w]) : i = start[w - 1] + j /\ FlattenSeq(out)[i] = out[w][j]
    BY <2>2
  <2>4. j \in 1..Len(ChunkList(d, n)[w])
    BY <1>4, <2>3
  <2>5. out[w][j].prompt = ChunkList(d, n)[w][j] /\ ChunkList(d, n)[w][j] = d[ChunkStart(d, n, w - 1) + j]
    BY <1>3, <1>4, <2>4
  <2>6. ChunkStart(d, n, w - 1) + j = i
    BY <1>7, <2>3
  <2>7. QED
    BY <2>1, <2>3, <2>5, <2>6
<1>11. QED
  BY <1>7, <1>9, <1>10 DEF d

-----------------------------------------------------------------------------
(* A worker takes a command.                                               *)

\* The pipe it takes it from.
TakesFrom(w, kind) ==
  /\ toWorker' \in [Workers -> Seq(Requests(Inputs))]
  /\ Head(toWorker[w]) \in Requests(Inputs) /\ Head(toWorker[w]).kind = kind
  /\ toWorker[w] # <<>> /\ toWorker'[w] = Tail(toWorker[w])
  /\ \A v \in Workers : v # w => toWorker'[v] = toWorker[v]
  /\ \A k : Has(toWorker[w], k) <=> Has(toWorker'[w], k) \/ kind = k
  /\ HasCall(toWorker[w]) <=> HasCall(toWorker'[w]) \/ IsCall(kind)
  /\ \A k : OnceAtMost(toWorker[w], k) =>
       OnceAtMost(toWorker'[w], k) /\ (kind = k => ~Has(toWorker'[w], k))
  /\ \A req : CallIsLast(toWorker[w], req) /\ IsCall(req.kind) =>
       IF IsCall(kind) THEN Head(toWorker[w]) = req /\ ~HasCall(toWorker'[w])
       ELSE CallIsLast(toWorker'[w], req)
  /\ \A data : OneUpdate(toWorker[w], data) =>
       IF kind = "update" THEN Head(toWorker[w]).data = data /\ ~Has(toWorker'[w], "update")
       ELSE OneUpdate(toWorker'[w], data)

LEMMA TookFacts ==
  ASSUME IInv, NEW w \in Workers, NEW kind, Gets(w, kind), Took(w)
  PROVE  /\ TakesFrom(w, kind) /\ worker[w] = "idle" /\ server = "up"
         /\ landed[w] = <<>> /\ command[w] = <<>>
         /\ AskInv' /\ PlaceInv' /\ StartInv' /\ AnswerInv'
         /\ server' = server /\ pending' = pending /\ handling' = handling /\ trainer' = trainer
         /\ UNCHANGED clientVars /\ answer' = answer /\ groups' = groups /\ crashes' = crashes
<1>1. toWorker \in [Workers -> Seq(Requests(Inputs))]
  BY DEF IInv, TypesInv, PipeTypes
<1>2. worker[w] = "idle" /\ toWorker[w] # <<>> /\ Head(toWorker[w]).kind = kind
  BY DEF Gets
<1>3. toWorker' = [toWorker EXCEPT ![w] = Tail(toWorker[w])]
  BY DEF Took
<1>4. /\ server' = server /\ pending' = pending /\ handling' = handling /\ trainer' = trainer
      /\ UNCHANGED clientVars /\ answer' = answer /\ groups' = groups /\ crashes' = crashes
  BY DEF Took
<1>5. TakesFrom(w, kind)
  <2> DEFINE q == toWorker[w]
  <2>1. q \in Seq(Requests(Inputs)) /\ q # <<>>
    BY <1>1, <1>2
  <2>2. Tail(q) \in Seq(Requests(Inputs)) /\ Head(q) \in Requests(Inputs)
    BY <2>1, TakeOut
  <2>3. /\ toWorker' \in [Workers -> Seq(Requests(Inputs))] /\ toWorker'[w] = Tail(toWorker[w])
        /\ \A v \in Workers : v # w => toWorker'[v] = toWorker[v]
    BY <1>1, <1>3, <2>2
  <2>4. \A k : Has(q, k) <=> Has(Tail(q), k) \/ Head(q).kind = k
    BY <2>1, TakeOut
  <2>5. HasCall(q) <=> HasCall(Tail(q)) \/ IsCall(Head(q).kind)
    BY <2>1, TakeOut
  <2>6. \A k : OnceAtMost(q, k) => OnceAtMost(Tail(q), k) /\ (Head(q).kind = k => ~Has(Tail(q), k))
    BY <2>1, TakeOut
  <2>7. \A req : CallIsLast(q, req) /\ IsCall(req.kind) =>
          IF IsCall(Head(q).kind) THEN Head(q) = req /\ ~HasCall(Tail(q)) ELSE CallIsLast(Tail(q), req)
    BY <2>1, TakeOut
  <2>8. \A data : OneUpdate(q, data) =>
          IF Head(q).kind = "update" THEN Head(q).data = data /\ ~Has(Tail(q), "update")
          ELSE OneUpdate(Tail(q), data)
    BY <2>1, TakeOut
  <2> HIDE DEF q
  <2>9. QED
    BY <1>2, <2>1, <2>2, <2>3, <2>4, <2>5, <2>6, <2>7, <2>8 DEF TakesFrom, q
<1>6. server = "up" /\ landed[w] = <<>> /\ command[w] = <<>>
  BY <1>2 DEF IInv, StartInv, QuietInv
<1>7. AskInv' /\ PlaceInv'
  BY <1>4 DEF IInv, AskInv, PlaceInv, UpTo, Earlier, Silent, Fits, Ours, InPending, InHandler, clientVars
<1>8. StartInv'
  BY <1>4, <1>6 DEF StartInv
<1>9. AnswerInv'
  BY <1>4 DEF IInv, AnswerInv, Ordered, clientVars
<1>10. QED
  BY <1>2, <1>4, <1>5, <1>6, <1>7, <1>8, <1>9

\* A communicator of the trainer is the workers'.
LEMMA OwnIsTheirs ==
  ASSUME IInv, own # 0, NEW w \in Workers
  PROVE  comm[w] = own /\ comm[w] # 0 /\ ~Has(toWorker[w], "close")
BY DEF IInv, CloseInv

LEMMA TakeInitStep ==
  ASSUME IInv, NEW w \in Workers, TakeInit(w)
  PROVE  IInv'
<1>1. Gets(w, "init") /\ Took(w)
  BY DEF TakeInit
<1>2. /\ TakesFrom(w, "init") /\ worker[w] = "idle" /\ server = "up"
      /\ landed[w] = <<>> /\ command[w] = <<>>
      /\ AskInv' /\ PlaceInv' /\ StartInv' /\ AnswerInv'
      /\ server' = server /\ pending' = pending /\ handling' = handling /\ trainer' = trainer
      /\ UNCHANGED clientVars /\ answer' = answer /\ groups' = groups /\ crashes' = crashes
  BY <1>1, TookFacts
<1>3. /\ worker' = [worker EXCEPT ![w] = IF comm[w] # 0 THEN "idle" ELSE "join"]
      /\ UNCHANGED <<fromWorker, command, landed, comm, weight, cached, faults>>
  BY DEF TakeInit
<1>4. worker \in [Workers -> Places]
  BY DEF IInv, TypesInv, WorkerTypes
<1>5. worker' \in [Workers -> Places]
  BY <1>3, <1>4 DEF Places
<1>6. \A v \in Workers : v # w => worker'[v] = worker[v]
  BY <1>3, <1>4
<1>7. worker'[w] = IF comm[w] # 0 THEN "idle" ELSE "join"
  BY <1>3, <1>4
<1>8. own # 0 => worker' = worker
  BY <1>2, <1>3, <1>4, <1>6, <1>7, OwnIsTheirs
<1>9. /\ \A v \in Workers : Has(toWorker'[v], "close") <=> Has(toWorker[v], "close")
      /\ \A v \in Workers : Has(toWorker'[v], "update") <=> Has(toWorker[v], "update")
      /\ \A v \in Workers : HasCall(toWorker'[v]) <=> HasCall(toWorker[v])
      /\ \A v \in Workers : OnceAtMost(toWorker[v], "close") => OnceAtMost(toWorker'[v], "close")
      /\ \A v \in Workers : \A data : OneUpdate(toWorker[v], data) => OneUpdate(toWorker'[v], data)
      /\ \A v \in Workers : \A req :
           CallIsLast(toWorker[v], req) /\ IsCall(req.kind) => CallIsLast(toWorker'[v], req)
  BY <1>2 DEF TakesFrom, IsCall
<1>10. \A v \in Workers : Alive(v)' <=> Alive(v)
  BY <1>2, <1>6, <1>7 DEF Alive
<1>11. TypesInv'
  BY <1>2, <1>3, <1>5 DEF IInv, TypesInv, PipeTypes, WorkerTypes, TrainerTypes, TakesFrom, clientVars
<1>12. CloseInv'
  BY <1>2, <1>3, <1>6, <1>7, <1>9, <1>10 DEF IInv, CloseInv, clientVars
<1>13. DoomInv'
  <2>1. \A v \in Workers : Kept(v)' <=> Kept(v)
    BY <1>2, <1>3, <1>9 DEF Kept
  <2>2. \A v \in Workers : Free(v)' <=> Free(v)
    BY <1>3, <1>9 DEF Free
  <2>3. QED
    BY <1>2, <1>10, <2>1, <2>2 DEF IInv, DoomInv, Doomed, Clean, clientVars
<1>14. QuietInv'
  BY <1>2, <1>3, <1>6, <1>7, EmptyPipe DEF IInv, QuietInv, TakesFrom
<1>15. ReplyInv'
  <2>1. \A v \in Workers : Replied(v)' <=> Replied(v)
    BY <1>2, <1>3, <1>9 DEF Replied
  <2>2. \A v \in Workers : Lost(v)' <=> Lost(v)
    BY <1>3, <1>10 DEF Lost
  <2>3. ASSUME handling # Nobody, NEW v \in Workers, Waiting(v)
        PROVE  Waiting(v)'
    <3>1. handling \in Requests(Prompts) /\ IsCall(handling.kind)
      BY <2>3 DEF IInv, TypesInv, PipeTypes, AskInv
    <3>2. IsCall(CommandFor(handling, v).kind)
      BY <3>1, CommandFacts
    <3>3. QED
      BY <1>2, <1>3, <1>9, <1>10, <2>3, <3>2 DEF Waiting
  <2>4. QED
    BY <1>2, <1>3, <1>9, <1>10, <2>1, <2>2, <2>3 DEF IInv, ReplyInv, AllAlive
<1>16. PhaseInv'
  <2> SUFFICES ASSUME own # 0 PROVE PhaseInv'
    BY <1>2 DEF PhaseInv, clientVars
  <2>1. worker' = worker
    BY <1>8
  <2>2. \A v \in Workers : Done(v)' <=> Done(v)
    BY <1>3, <1>9, <2>1 DEF Done, Free
  <2>3. \A v \in Workers : Unsent(v)' <=> Unsent(v)
    BY <1>9, <2>1 DEF Unsent
  <2>4. \A v \in Workers : Queued(v) => Queued(v)'
    BY <1>2, <1>9, <2>1 DEF Queued, clientVars
  <2>5. \A v \in Workers : Receiving(v) => Receiving(v)'
    BY <1>2, <1>3, <1>9, <2>1 DEF Receiving, clientVars
  <2>6. IsSent' <=> IsSent
    BY <1>2 DEF IsSent, clientVars
  <2>7. QED
    BY <1>2, <1>3, <1>10, <2>2, <2>3, <2>4, <2>5, <2>6 DEF IInv, PhaseInv, AllAlive, clientVars
<1>17. TensorsMatch'
  BY <1>2, <1>3 DEF IInv, TensorsMatch, clientVars
<1>18. SyncInv'
  BY <1>2, <1>3, <1>8 DEF IInv, SyncInv, Alive, Past, Loaded, AllNew, Fresh, clientVars
<1>19. InferInv'
  BY <1>2, <1>3 DEF IInv, InferInv, AllNew, Good, clientVars
<1>20. QED
  BY <1>2, <1>11, <1>12, <1>13, <1>14, <1>15, <1>16, <1>17, <1>18, <1>19 DEF IInv

\* A command that is no call, and what the server has to do with the workers.
LEMMA ReplyStays ==
  ASSUME IInv, NEW w \in Workers, NEW kind, Gets(w, kind), Took(w), ~IsCall(kind),
         fromWorker' = fromWorker, \A v \in Workers : Alive(v)' <=> Alive(v)
  PROVE  ReplyInv'
<1>1. /\ TakesFrom(w, kind)
      /\ server' = server /\ handling' = handling /\ answer' = answer
  BY TookFacts
<1>2. /\ \A v \in Workers : HasCall(toWorker'[v]) <=> HasCall(toWorker[v])
      /\ \A v \in Workers : \A req :
           CallIsLast(toWorker[v], req) /\ IsCall(req.kind) => CallIsLast(toWorker'[v], req)
  BY <1>1 DEF TakesFrom
<1>3. \A v \in Workers : Replied(v)' <=> Replied(v)
  BY <1>1, <1>2 DEF Replied
<1>4. \A v \in Workers : Lost(v)' <=> Lost(v)
  BY DEF Lost
<1>5. ASSUME handling # Nobody, NEW v \in Workers, Waiting(v)
      PROVE  Waiting(v)'
  <2>1. handling \in Requests(Prompts) /\ IsCall(handling.kind)
    BY <1>5 DEF IInv, TypesInv, PipeTypes, AskInv
  <2>2. IsCall(CommandFor(handling, v).kind)
    BY <2>1, CommandFacts
  <2>3. QED
    BY <1>1, <1>2, <1>5, <2>2 DEF Waiting
<1>6. QED
  BY <1>1, <1>2, <1>3, <1>4, <1>5 DEF IInv, ReplyInv, AllAlive

LEMMA TakeCloseStep ==
  ASSUME IInv, NEW w \in Workers, TakeClose(w)
  PROVE  IInv'
<1>1. Gets(w, "close") /\ Took(w)
  BY DEF TakeClose
<1>2. /\ TakesFrom(w, "close") /\ worker[w] = "idle" /\ server = "up"
      /\ landed[w] = <<>> /\ command[w] = <<>>
      /\ AskInv' /\ PlaceInv' /\ StartInv' /\ AnswerInv'
      /\ server' = server /\ pending' = pending /\ handling' = handling /\ trainer' = trainer
      /\ UNCHANGED clientVars /\ answer' = answer /\ groups' = groups /\ crashes' = crashes
  BY <1>1, TookFacts
<1>3. /\ comm' = [comm EXCEPT ![w] = 0]
      /\ UNCHANGED <<fromWorker, worker, command, landed, weight, cached, faults>>
  BY DEF TakeClose
<1>4. comm \in [Workers -> 0..groups] /\ groups \in Nat
  BY DEF IInv, TypesInv, WorkerTypes, TrainerTypes
<1>5. comm' \in [Workers -> 0..groups]
  BY <1>3, <1>4
<1>6. comm'[w] = 0 /\ \A v \in Workers : v # w => comm'[v] = comm[v]
  BY <1>3, <1>4
<1>7. own = 0
  BY <1>2, OwnIsTheirs DEF TakesFrom
<1>8. /\ Has(toWorker[w], "close") /\ ~Has(toWorker'[w], "close")
      /\ \A v \in Workers : Has(toWorker'[v], "update") <=> Has(toWorker[v], "update")
  <2>1. OnceAtMost(toWorker[w], "close")
    BY <1>2 DEF IInv, CloseInv, Alive
  <2>2. QED
    BY <1>2, <2>1 DEF TakesFrom
<1>9. \A v \in Workers : Alive(v)' <=> Alive(v)
  BY <1>3 DEF Alive
<1>10. ~Has(pending, "close")
  BY <1>2, <1>8 DEF IInv, CloseInv, Alive
<1>11. TypesInv'
  BY <1>2, <1>3, <1>5 DEF IInv, TypesInv, PipeTypes, WorkerTypes, TrainerTypes, TakesFrom, clientVars
<1>12. CloseInv'
  <2>1. \A v \in Workers : v # w => toWorker'[v] = toWorker[v] /\ comm'[v] = comm[v]
    BY <1>2, <1>6 DEF TakesFrom
  <2>2. OnceAtMost(toWorker'[w], "close")
    BY <1>8 DEF OnceAtMost, Has
  <2>3. QED
    BY <1>2, <1>3, <1>6, <1>7, <1>8, <1>9, <1>10, <2>1, <2>2 DEF IInv, CloseInv, clientVars
<1>13. DoomInv'
  <2>1. \A v \in Workers : Kept(v) => Kept(v)'
    BY <1>2, <1>6, <1>8 DEF Kept, TakesFrom
  <2>2. \A v \in Workers : Free(v)' <=> Free(v)
    BY <1>3, <1>8 DEF Free
  <2>3. QED
    BY <1>2, <1>9, <2>1, <2>2 DEF IInv, DoomInv, Doomed, Clean, clientVars
<1>14. QuietInv'
  BY <1>2, <1>3 DEF IInv, QuietInv, TakesFrom
<1>15. ReplyInv'
  BY <1>1, <1>3, <1>9, ReplyStays DEF IsCall
<1>16. PhaseInv'
  BY <1>2, <1>7 DEF PhaseInv, clientVars
<1>17. TensorsMatch'
  BY <1>2, <1>3 DEF IInv, TensorsMatch, clientVars
<1>18. SyncInv'
  BY <1>2, <1>7 DEF SyncInv, clientVars
<1>19. InferInv'
  BY <1>2, <1>3 DEF IInv, InferInv, AllNew, Good, clientVars
<1>20. QED
  BY <1>2, <1>11, <1>12, <1>13, <1>14, <1>15, <1>16, <1>17, <1>18, <1>19 DEF IInv

LEMMA TakeUpdateStep ==
  ASSUME IInv, NEW w \in Workers, TakeUpdate(w)
  PROVE  IInv'
<1>1. Gets(w, "update") /\ Took(w)
  BY DEF TakeUpdate
<1>2. /\ TakesFrom(w, "update") /\ worker[w] = "idle" /\ server = "up"
      /\ landed[w] = <<>> /\ command[w] = <<>>
      /\ AskInv' /\ PlaceInv' /\ StartInv' /\ AnswerInv'
      /\ server' = server /\ pending' = pending /\ handling' = handling /\ trainer' = trainer
      /\ UNCHANGED clientVars /\ answer' = answer /\ groups' = groups /\ crashes' = crashes
  BY <1>1, TookFacts
<1> DEFINE data == Head(toWorker[w]).data
<1>3. /\ IF comm[w] = 0 THEN UNCHANGED <<worker, command>>
         ELSE /\ worker' = [worker EXCEPT ![w] = "recv"]
              /\ command' = [command EXCEPT ![w] = data]
      /\ UNCHANGED <<fromWorker, landed, comm, weight, cached, faults>>
  BY DEF TakeUpdate
<1>4. worker \in [Workers -> Places] /\ command \in [Workers -> Seq(Params)] /\ landed \in [Workers -> Seq(Tensors)]
  BY DEF IInv, TypesInv, WorkerTypes
<1>5. data \in Seq(Params) \ {<<>>}
  BY <1>2, RequestFacts DEF TakesFrom
<1> HIDE DEF data
<1>6. worker' \in [Workers -> Places] /\ command' \in [Workers -> Seq(Params)]
  BY <1>3, <1>4, <1>5 DEF Places
<1>7. \A v \in Workers : v # w => worker'[v] = worker[v] /\ command'[v] = command[v] /\ toWorker'[v] = toWorker[v]
  BY <1>2, <1>3, <1>4 DEF TakesFrom
<1>8. IF comm[w] = 0 THEN worker'[w] = "idle" /\ command'[w] = <<>>
      ELSE worker'[w] = "recv" /\ command'[w] = data
  BY <1>2, <1>3, <1>4
<1>9. \A v \in Workers : Alive(v)' <=> Alive(v)
  BY <1>2, <1>7, <1>8 DEF Alive
<1>10. /\ Has(toWorker[w], "update")
       /\ \A v \in Workers : Has(toWorker'[v], "close") <=> Has(toWorker[v], "close")
       /\ \A v \in Workers : OnceAtMost(toWorker[v], "close") => OnceAtMost(toWorker'[v], "close")
       /\ \A d : OneUpdate(toWorker[w], d) => data = d /\ ~Has(toWorker'[w], "update")
  BY <1>2 DEF TakesFrom, data
<1>11. TypesInv'
  BY <1>2, <1>3, <1>6 DEF IInv, TypesInv, PipeTypes, WorkerTypes, TrainerTypes, TakesFrom, clientVars
<1>12. CloseInv'
  BY <1>2, <1>3, <1>7, <1>8, <1>9, <1>10 DEF IInv, CloseInv, clientVars
<1>13. DoomInv'
  <2>1. \A v \in Workers : Kept(v)' <=> Kept(v)
    BY <1>2, <1>3, <1>10 DEF Kept
  <2>2. ~Clean
    BY <1>10 DEF Clean, Free
  <2>3. QED
    BY <1>2, <1>9, <2>1, <2>2 DEF IInv, DoomInv, Doomed, clientVars
<1>14. QuietInv'
  <2>1. Len(data) \in Nat \ {0} /\ Len(<<>>) = 0
    BY <1>5, EmptySeq
  <2>2. QED
    BY <1>2, <1>3, <1>7, <1>8, <2>1 DEF IInv, QuietInv
<1>15. ReplyInv'
  BY <1>1, <1>3, <1>9, ReplyStays DEF IsCall
<1>16. PhaseInv'
  <2> SUFFICES ASSUME own # 0 PROVE PhaseInv'
    BY <1>2 DEF PhaseInv, clientVars
  <2>1. worker'[w] = "recv" /\ command'[w] = data
    BY <1>8, OwnIsTheirs
  <2>2. ~Done(w) /\ ~Unsent(w) /\ ~Receiving(w)
    BY <1>10 DEF Done, Free, Unsent, Receiving
  <2>3. plan # <<>> /\ handling = Nobody
    BY <1>2, <2>2 DEF IInv, PhaseInv, Alive
  <2>4. ~(answer # Nobody /\ answer.ok /\ answer.kind = "reset")
    BY <2>2, <2>3 DEF IInv, PhaseInv
  <2>5. IsSent' <=> IsSent
    BY <1>2 DEF IsSent, clientVars
  <2>6. AllAlive => IsSent /\ Queued(w)
    BY <2>2, <2>3 DEF IInv, PhaseInv
  <2>7. ASSUME AllAlive
        PROVE  Receiving(w)'
    <3>1. OneUpdate(toWorker[w], plan[update]) /\ (trainer = "send" => tensor = 1)
      BY <2>6, <2>7 DEF Queued
    <3>2. data = plan[update] /\ ~Has(toWorker'[w], "update")
      BY <1>10, <3>1
    <3>3. Len(landed[w]) = 0
      BY <1>2
    <3>4. QED
      BY <1>2, <1>3, <2>1, <3>1, <3>2, <3>3 DEF Receiving, clientVars
  <2>8. \A v \in Workers : v # w => (Queued(v) => Queued(v)') /\ (Receiving(v) => Receiving(v)')
    BY <1>2, <1>3, <1>7 DEF Queued, Receiving, clientVars
  <2>9. QED
    BY <1>2, <1>9, <2>3, <2>4, <2>5, <2>6, <2>7, <2>8 DEF IInv, PhaseInv, AllAlive, clientVars
<1>17. TensorsMatch'
  <2>1. \A v \in Workers : v # w => landed'[v] = landed[v] /\ command'[v] = command[v]
    BY <1>3, <1>7
  <2>2. landed'[w] = <<>> /\ version' = version
    BY <1>2, <1>3 DEF clientVars
  <2>3. \A i \in DOMAIN <<>> : FALSE
    OBVIOUS
  <2>4. QED
    BY <2>1, <2>2, <2>3 DEF IInv, TensorsMatch
<1>18. SyncInv'
  <2>1. Past' = Past
    BY <1>2 DEF Past, clientVars
  <2>2. \A v \in Workers : \A j : Loaded(v, j) => Loaded(v, j)'
    BY <1>2, <1>3, <1>7 DEF Loaded, clientVars
  <2>3. \A v \in Workers : Fresh(v)' <=> Fresh(v)
    BY <1>2, <1>3 DEF Fresh, AllNew, clientVars
  <2>4. QED
    BY <1>2, <1>3, <1>9, <2>1, <2>2, <2>3 DEF IInv, SyncInv, clientVars
<1>19. InferInv'
  BY <1>2, <1>3 DEF IInv, InferInv, AllNew, Good, clientVars
<1>20. QED
  BY <1>2, <1>11, <1>12, <1>13, <1>14, <1>15, <1>16, <1>17, <1>18, <1>19 DEF IInv

\* A worker replies to a call.
LEMMA CallTaken ==
  ASSUME IInv, NEW w \in Workers, NEW kind, IsCall(kind), Gets(w, kind), Took(w),
         NEW reply \in Replies,
         fromWorker' = [fromWorker EXCEPT ![w] = Append(fromWorker[w], reply)],
         handling # Nobody /\ Head(toWorker[w]) = CommandFor(handling, w) => Matches(reply, handling, w),
         UNCHANGED <<worker, command, landed, comm, weight>>
  PROVE  /\ PipeTypes' /\ CloseInv' /\ DoomInv' /\ QuietInv' /\ ReplyInv' /\ PhaseInv' /\ TensorsMatch'
         /\ handling # Nobody => /\ Head(toWorker[w]) = CommandFor(handling, w)
                                 /\ fromWorker'[w] = <<reply>>
         /\ \A v \in Workers : v # w => fromWorker'[v] = fromWorker[v]
         /\ ~(answer # Nobody /\ answer.ok)
         /\ handling' = handling /\ UNCHANGED clientVars /\ answer' = answer
<1>2. /\ TakesFrom(w, kind) /\ worker[w] = "idle" /\ server = "up"
      /\ landed[w] = <<>> /\ command[w] = <<>>
      /\ server' = server /\ pending' = pending /\ handling' = handling /\ trainer' = trainer
      /\ UNCHANGED clientVars /\ answer' = answer
  BY TookFacts
<1>3. kind # "close" /\ kind # "update"
  BY DEF IsCall
<1>4. fromWorker \in [Workers -> Seq(Replies)]
  BY DEF IInv, TypesInv, PipeTypes
<1>5. fromWorker' \in [Workers -> Seq(Replies)]
  BY <1>4
<1>6. /\ fromWorker'[w] = Append(fromWorker[w], reply)
      /\ \A v \in Workers : v # w => fromWorker'[v] = fromWorker[v]
  BY <1>4
<1>7. HasCall(toWorker[w])
  BY <1>2 DEF TakesFrom
<1>8. ~(answer # Nobody /\ answer.ok)
  BY <1>2, <1>7 DEF IInv, ReplyInv
<1>9. /\ \A v \in Workers : Has(toWorker'[v], "close") <=> Has(toWorker[v], "close")
      /\ \A v \in Workers : Has(toWorker'[v], "update") <=> Has(toWorker[v], "update")
      /\ \A v \in Workers : OnceAtMost(toWorker[v], "close") => OnceAtMost(toWorker'[v], "close")
      /\ \A v \in Workers : \A data : OneUpdate(toWorker[v], data) => OneUpdate(toWorker'[v], data)
  BY <1>2, <1>3 DEF TakesFrom
<1>10. \A v \in Workers : Alive(v)' <=> Alive(v)
  BY DEF Alive
<1>11. ASSUME handling # Nobody
       PROVE  /\ fromWorker[w] = <<>> /\ ~HasCall(toWorker'[w])
              /\ Head(toWorker[w]) = CommandFor(handling, w)
              /\ fromWorker'[w] = <<reply>>
  <2>1. Waiting(w) \/ Replied(w) \/ Lost(w)
    BY <1>2, <1>11 DEF IInv, ReplyInv
  <2>2. Waiting(w)
    BY <1>2, <1>7, <2>1 DEF Replied, Lost, Alive
  <2>3. handling \in Requests(Prompts) /\ IsCall(handling.kind)
    BY <1>11 DEF IInv, TypesInv, PipeTypes, AskInv
  <2>4. IsCall(CommandFor(handling, w).kind)
    BY <2>3, CommandFacts
  <2>5. fromWorker[w] = <<>> /\ CallIsLast(toWorker[w], CommandFor(handling, w))
    BY <2>2 DEF Waiting
  <2>6. Head(toWorker[w]) = CommandFor(handling, w) /\ ~HasCall(toWorker'[w])
    BY <1>2, <2>4, <2>5 DEF TakesFrom
  <2>7. fromWorker'[w] = <<reply>>
    BY <1>6, <2>5
  <2>8. QED
    BY <2>5, <2>6, <2>7
<1>12. PipeTypes'
  BY <1>2, <1>5 DEF IInv, TypesInv, PipeTypes, TakesFrom
<1>13. CloseInv'
  BY <1>2, <1>9, <1>10 DEF IInv, CloseInv, clientVars
<1>14. DoomInv'
  <2>1. \A v \in Workers : Kept(v)' <=> Kept(v)
    BY <1>2, <1>9 DEF Kept
  <2>2. \A v \in Workers : Free(v)' <=> Free(v)
    BY <1>9 DEF Free
  <2>3. QED
    BY <1>2, <1>10, <2>1, <2>2 DEF IInv, DoomInv, Doomed, Clean, clientVars
<1>15. QuietInv'
  BY <1>2, <1>6 DEF IInv, QuietInv, TakesFrom
<1>16. ReplyInv'
  <2>1. CASE handling = Nobody
    <3>1. ~AllAlive
      BY <1>2, <1>7, <2>1 DEF IInv, ReplyInv
    <3>2. QED
      BY <1>2, <1>8, <1>10, <2>1, <3>1 DEF ReplyInv, AllAlive
  <2>2. CASE handling # Nobody
    <3>1. \A v \in Workers : v # w => toWorker'[v] = toWorker[v] /\ fromWorker'[v] = fromWorker[v]
      BY <1>2, <1>6 DEF TakesFrom
    <3>2. \A v \in Workers : v # w => /\ Waiting(v) => Waiting(v)'
                                      /\ Replied(v) => Replied(v)'
                                      /\ Lost(v) => Lost(v)'
      BY <1>2, <1>10, <3>1 DEF Waiting, Replied, Lost
    <3>3. Replied(w)'
      <4>1. Len(<<reply>>) = 1 /\ <<reply>>[1] = reply
        OBVIOUS
      <4>2. fromWorker'[w] = <<reply>> /\ ~HasCall(toWorker'[w]) /\ Matches(reply, handling, w)
        BY <1>11, <2>2
      <4>3. QED
        BY <1>2, <4>1, <4>2 DEF Replied
    <3>4. QED
      BY <1>2, <1>8, <2>2, <3>2, <3>3 DEF IInv, ReplyInv
  <2>3. QED
    BY <2>1, <2>2
<1>17. PhaseInv'
  <2> SUFFICES ASSUME own # 0 PROVE PhaseInv'
    BY <1>2 DEF PhaseInv, clientVars
  <2>1. \A v \in Workers : Done(v)' <=> Done(v)
    BY <1>9 DEF Done, Free
  <2>2. \A v \in Workers : Unsent(v)' <=> Unsent(v)
    BY <1>9 DEF Unsent
  <2>3. \A v \in Workers : (Queued(v) => Queued(v)') /\ (Receiving(v) => Receiving(v)')
    BY <1>2, <1>9 DEF Queued, Receiving, clientVars
  <2>4. IsSent' <=> IsSent
    BY <1>2 DEF IsSent, clientVars
  <2>5. plan # <<>> /\ handling # Nobody => Done(w)
    <3>1. plan # <<>> /\ handling # Nobody => Unsent(w)
      BY <1>2 DEF IInv, PhaseInv, Alive
    <3>2. QED
      BY <1>2, <3>1 DEF Unsent, Done, Free
  <2>6. QED
    BY <1>2, <1>6, <1>10, <2>1, <2>2, <2>3, <2>4, <2>5 DEF IInv, PhaseInv, AllAlive, clientVars
<1>18. TensorsMatch'
  BY <1>2 DEF IInv, TensorsMatch, clientVars
<1>19. QED
  BY <1>2, <1>6, <1>8, <1>11, <1>12, <1>13, <1>14, <1>15, <1>16, <1>17, <1>18

\* A call is handled for the trainer that synchronises only if it is its reset.
LEMMA HandledInSync ==
  ASSUME IInv, own # 0, handling # Nobody
  PROVE  Ours(handling) /\ answer = Nobody
<1>1. trainer = "ask" /\ answer = Nobody
  BY DEF IInv, AskInv, Silent
<1>2. InPending \/ InHandler
  BY <1>1 DEF IInv, AskInv
<1>3. InHandler
  BY <1>2 DEF InPending
<1>4. QED
  BY <1>1, <1>3 DEF InHandler

\* The plan covers the parameters.
LEMMA AllIsNew ==
  ASSUME TypesInv, plan # <<>>, NEW w \in Workers, worker[w] # "load",
         \A j \in DOMAIN plan : Loaded(w, j)
  PROVE  AllNew(weight[w])
<1>1. plan \in Plans
  BY DEF TypesInv, TrainerTypes
<1>2. ASSUME NEW p \in Params
      PROVE  weight[w][p] = version
  <2>1. PICK u \in DOMAIN plan : \E i \in DOMAIN plan[u] : plan[u][i] = p
    BY <1>1, ConstantFacts
  <2>2. QED
    BY <2>1 DEF Loaded
<1>3. QED
  BY <1>2 DEF AllNew

LEMMA TakeResetStep ==
  ASSUME IInv, NEW w \in Workers, TakeReset(w)
  PROVE  IInv'
<1>1. Gets(w, "reset") /\ Took(w) /\ UNCHANGED <<worker, command, landed, comm, weight>>
  BY DEF TakeReset
<1>2. PICK ok \in Outcomes :
        /\ cached' = [cached EXCEPT ![w] = IF ok THEN {} ELSE cached[w]]
        /\ fromWorker' = [fromWorker EXCEPT ![w] = Append(fromWorker[w], Reply(ok, <<>>))]
        /\ Count(ok)
  BY DEF TakeReset
<1>3. ok \in BOOLEAN
  BY DEF Outcomes
<1> DEFINE reply == Reply(ok, <<>>)
<1>4. reply \in Replies /\ reply.items = <<>>
  BY <1>3 DEF Reply, Replies
<1>5. IsCall("reset")
  BY DEF IsCall
<1>6. /\ TakesFrom(w, "reset") /\ worker[w] = "idle" /\ server = "up"
      /\ AskInv' /\ PlaceInv' /\ StartInv' /\ AnswerInv'
      /\ server' = server /\ pending' = pending /\ handling' = handling /\ trainer' = trainer
      /\ UNCHANGED clientVars /\ answer' = answer /\ groups' = groups /\ crashes' = crashes
  BY <1>1, TookFacts
<1>7. ASSUME handling # Nobody, Head(toWorker[w]) = CommandFor(handling, w)
      PROVE  handling.kind = "reset" /\ Matches(reply, handling, w)
  <2>1. handling \in Requests(Prompts)
    BY <1>7 DEF IInv, TypesInv, PipeTypes
  <2>2. CommandFor(handling, w).kind = handling.kind
    BY <2>1, CommandFacts
  <2>3. handling.kind = "reset"
    BY <1>6, <1>7, <2>2 DEF TakesFrom
  <2>4. QED
    BY <2>3 DEF Matches
<1> HIDE DEF reply
<1>8. /\ PipeTypes' /\ CloseInv' /\ DoomInv' /\ QuietInv' /\ ReplyInv' /\ PhaseInv' /\ TensorsMatch'
      /\ handling # Nobody => /\ Head(toWorker[w]) = CommandFor(handling, w)
                              /\ fromWorker'[w] = <<reply>>
      /\ \A v \in Workers : v # w => fromWorker'[v] = fromWorker[v]
      /\ ~(answer # Nobody /\ answer.ok)
  BY <1>1, <1>2, <1>4, <1>5, <1>7, CallTaken DEF reply
<1>9. cached \in [Workers -> SUBSET Weights] /\ faults \in Nat
  BY DEF IInv, TypesInv, WorkerTypes, TrainerTypes
<1>10. /\ cached' \in [Workers -> SUBSET Weights]
       /\ cached'[w] = IF ok THEN {} ELSE cached[w]
       /\ \A v \in Workers : v # w => cached'[v] = cached[v]
  BY <1>2, <1>9
<1>11. faults' \in Nat /\ (faults' = 0 => faults = 0 /\ ok)
  BY <1>2, <1>3, <1>9 DEF Count
<1>12. TypesInv'
  BY <1>1, <1>6, <1>8, <1>10, <1>11 DEF IInv, TypesInv, WorkerTypes, TrainerTypes, clientVars
<1>13. \A v \in Workers : Alive(v)' <=> Alive(v)
  BY <1>1 DEF Alive
<1>14. SyncInv'
  <2> SUFFICES ASSUME faults = 0, ok, own # 0, plan # <<>> PROVE SyncInv'
    BY <1>6, <1>11 DEF SyncInv, clientVars
  <2>1. Past' = Past
    BY <1>6 DEF Past, clientVars
  <2>2. \A v \in Workers : \A j : Loaded(v, j) => Loaded(v, j)'
    BY <1>1, <1>6 DEF Loaded, clientVars
  <2>3. ASSUME handling # Nobody
        PROVE  \A v \in Workers : fromWorker'[v] # <<>> => Fresh(v)'
    <3>1. handling.kind = "reset"
      BY <1>7, <1>8, <2>3
    <3>2. Ours(handling)
      BY <2>3, HandledInSync
    <3>3. update = 0
      BY <3>1, <3>2 DEF Ours, Fits
    <3>4. AllNew(weight[w])
      <4>1. \A j \in DOMAIN plan : Loaded(w, j)
        BY <1>6, <3>3 DEF IInv, SyncInv, Past, Alive
      <4>2. QED
        BY <1>6, <4>1, AllIsNew DEF IInv
    <3>5. Fresh(w)'
      BY <1>1, <1>6, <1>10, <3>4 DEF Fresh, AllNew, clientVars
    <3>6. \A v \in Workers : v # w => (Fresh(v) => Fresh(v)')
      BY <1>1, <1>6, <1>10 DEF Fresh, AllNew, clientVars
    <3>7. QED
      BY <1>8, <2>3, <3>5, <3>6 DEF IInv, SyncInv
  <2>4. QED
    BY <1>6, <1>8, <1>13, <2>1, <2>2, <2>3 DEF IInv, SyncInv, clientVars
<1>15. InferInv'
  <2> SUFFICES ASSUME faults = 0, plan = <<>>, synced # 0 PROVE InferInv'
    BY <1>6, <1>11 DEF InferInv, clientVars
  <2>1. \A v \in Workers : AllNew(weight[v])' /\ cached'[v] \subseteq {weight'[v]}
    BY <1>1, <1>6, <1>10 DEF IInv, InferInv, AllNew, clientVars
  <2>2. handling # Nobody => Good(fromWorker[w][1].items)'
    <3>1. <<reply>>[1] = reply /\ \A i \in DOMAIN <<>> : FALSE
      OBVIOUS
    <3>2. handling # Nobody => fromWorker'[w][1].items = <<>>
      BY <1>4, <1>8, <3>1
    <3>3. QED
      BY <3>1, <3>2 DEF Good
  <2>3. \A items : Good(items) => \A i \in DOMAIN items : ~items[i].stale /\ \A p \in Params : items[i].weight[p] = version'
    BY <1>6 DEF Good, AllNew, clientVars
  <2>4. \A v \in Workers : handling # Nobody /\ fromWorker'[v] # <<>> => Good(fromWorker[v][1].items)'
    BY <1>8, <2>2, <2>3 DEF IInv, InferInv, Good, AllNew
  <2>5. /\ answer # Nobody => Good(answer.items)'
        /\ result # Nobody => Good(result)'
    BY <1>6, <2>3 DEF IInv, InferInv, Good, AllNew, clientVars
  <2>6. QED
    BY <1>6, <2>1, <2>4, <2>5 DEF IInv, InferInv, clientVars
<1>16. QED
  BY <1>6, <1>8, <1>12, <1>14, <1>15 DEF IInv

LEMMA TakeInferStep ==
  ASSUME IInv, NEW w \in Workers, TakeInfer(w)
  PROVE  IInv'
<1>1. Gets(w, "infer") /\ Took(w) /\ UNCHANGED <<worker, command, landed, comm, weight>>
  BY DEF TakeInfer
<1> DEFINE prompts == Head(toWorker[w]).data
           stale == \E c \in cached[w] : c # weight[w]
           items(ok) == IF ok THEN [i \in DOMAIN prompts |->
                                     [prompt |-> prompts[i], weight |-> weight[w], stale |-> stale]]
                        ELSE <<>>
<1>2. PICK ok \in Outcomes :
        /\ fromWorker' = [fromWorker EXCEPT ![w] = Append(fromWorker[w], Reply(ok, items(ok)))]
        /\ cached' = [cached EXCEPT ![w] = IF ok THEN cached[w] \cup {weight[w]} ELSE cached[w]]
        /\ Count(ok)
  BY Zenon DEF TakeInfer
<1> DEFINE reply == Reply(ok, items(ok))
<1>3. ok \in BOOLEAN
  BY DEF Outcomes
<1>5. IsCall("infer")
  BY DEF IsCall
<1>6. /\ TakesFrom(w, "infer") /\ worker[w] = "idle" /\ server = "up"
      /\ AskInv' /\ PlaceInv' /\ StartInv' /\ AnswerInv'
      /\ server' = server /\ pending' = pending /\ handling' = handling /\ trainer' = trainer
      /\ UNCHANGED clientVars /\ answer' = answer /\ groups' = groups /\ crashes' = crashes
  BY <1>1, TookFacts
<1>w. weight \in [Workers -> Weights] /\ cached \in [Workers -> SUBSET Weights] /\ faults \in Nat
  BY DEF IInv, TypesInv, WorkerTypes, TrainerTypes
<1>p. prompts \in Seq(Inputs)
  BY <1>6, RequestFacts DEF TakesFrom
<1>s. stale \in BOOLEAN
  OBVIOUS
<1> HIDE DEF prompts, stale
<1>i. /\ items(TRUE) \in Seq(Outputs) /\ Len(items(TRUE)) = Len(prompts)
      /\ \A i \in DOMAIN items(TRUE) :
           /\ i \in DOMAIN prompts /\ items(TRUE)[i].prompt = prompts[i]
           /\ items(TRUE)[i].weight = weight[w] /\ items(TRUE)[i].stale = stale
  <2>1. \A i \in DOMAIN prompts : [prompt |-> prompts[i], weight |-> weight[w], stale |-> stale] \in Outputs
    BY <1>p, <1>s, <1>w DEF Outputs, Inputs
  <2>2. DOMAIN items(TRUE) = DOMAIN prompts /\ DOMAIN prompts = 1..Len(prompts) /\ Len(prompts) \in Nat
    BY <1>p
  <2>3. \A i \in DOMAIN prompts :
          items(TRUE)[i] = [prompt |-> prompts[i], weight |-> weight[w], stale |-> stale]
    OBVIOUS
  <2>4. items(TRUE) \in Seq(Outputs) /\ Len(items(TRUE)) = Len(prompts)
    <3>1. items(TRUE) \in [1..Len(prompts) -> Outputs]
      BY <2>1, <2>2, <2>3
    <3>2. QED
      BY <2>2, <3>1
  <2>5. QED
    BY <2>2, <2>3, <2>4
<1>e. items(FALSE) = <<>> /\ <<>> \in Seq(Outputs)
  <2>1. items(FALSE) = <<>>
    OBVIOUS
  <2>2. <<>> \in Seq(Outputs)
    OBVIOUS
  <2>3. QED
    BY <2>1, <2>2
<1> HIDE DEF items
<1>4. reply \in Replies /\ reply.ok = ok /\ reply.items = items(ok)
  <2>1. items(ok) \in Seq(Outputs)
    <3>1. CASE ok = TRUE
      BY <1>i, <3>1
    <3>2. CASE ok = FALSE
      BY <1>e, <3>2
    <3>3. QED
      BY <1>3, <3>1, <3>2
  <2>2. QED
    BY <1>3, <2>1 DEF Reply, Replies
<1>7. ASSUME handling # Nobody, Head(toWorker[w]) = CommandFor(handling, w)
      PROVE  handling.kind = "infer" /\ Matches(reply, handling, w)
  <2>1. handling \in Requests(Prompts)
    BY <1>7 DEF IInv, TypesInv, PipeTypes
  <2>2. CommandFor(handling, w).kind = handling.kind
    BY <2>1, CommandFacts
  <2>3. handling.kind = "infer"
    BY <1>6, <1>7, <2>2 DEF TakesFrom
  <2>4. CommandFor(handling, w).data = prompts
    BY <1>7 DEF prompts
  <2>5. ok => items(ok) = items(TRUE)
    BY <1>3
  <2> HIDE DEF reply
  <2>6. QED
    BY <1>i, <1>4, <2>3, <2>4, <2>5 DEF Matches
<1> HIDE DEF reply
<1>8. /\ PipeTypes' /\ CloseInv' /\ DoomInv' /\ QuietInv' /\ ReplyInv' /\ PhaseInv' /\ TensorsMatch'
      /\ handling # Nobody => /\ Head(toWorker[w]) = CommandFor(handling, w)
                              /\ fromWorker'[w] = <<reply>>
      /\ \A v \in Workers : v # w => fromWorker'[v] = fromWorker[v]
      /\ ~(answer # Nobody /\ answer.ok)
  BY <1>1, <1>2, <1>4, <1>5, <1>7, CallTaken DEF reply
<1>10. /\ cached' \in [Workers -> SUBSET Weights]
       /\ cached'[w] = IF ok THEN cached[w] \cup {weight[w]} ELSE cached[w]
       /\ \A v \in Workers : v # w => cached'[v] = cached[v]
  BY <1>2, <1>w
<1>11. faults' \in Nat /\ (faults' = 0 => faults = 0 /\ ok)
  BY <1>2, <1>3, <1>w DEF Count
<1>12. TypesInv'
  BY <1>1, <1>6, <1>8, <1>10, <1>11 DEF IInv, TypesInv, WorkerTypes, TrainerTypes, clientVars
<1>13. \A v \in Workers : Alive(v)' <=> Alive(v)
  BY <1>1 DEF Alive
<1>14. SyncInv'
  <2> SUFFICES ASSUME faults = 0, own # 0, plan # <<>> PROVE SyncInv'
    BY <1>6, <1>11 DEF SyncInv, clientVars
  <2>1. Past' = Past
    BY <1>6 DEF Past, clientVars
  <2>2. \A v \in Workers : \A j : Loaded(v, j) => Loaded(v, j)'
    BY <1>1, <1>6 DEF Loaded, clientVars
  <2>3. handling = Nobody
    <3> SUFFICES ASSUME handling # Nobody PROVE FALSE
      OBVIOUS
    <3>1. handling.kind = "infer"
      BY <1>7, <1>8
    <3>2. Ours(handling)
      BY HandledInSync
    <3>3. QED
      BY <3>1, <3>2 DEF Ours, Fits
  <2>4. QED
    BY <1>6, <1>8, <1>13, <2>1, <2>2, <2>3 DEF IInv, SyncInv, clientVars
<1>15. InferInv'
  <2> SUFFICES ASSUME faults = 0, ok, plan = <<>>, synced # 0 PROVE InferInv'
    BY <1>6, <1>11 DEF InferInv, clientVars
  <2>1. \A v \in Workers : AllNew(weight[v]) /\ cached[v] \subseteq {weight[v]}
    BY DEF IInv, InferInv
  <2>2. \A v \in Workers : AllNew(weight[v])' /\ cached'[v] \subseteq {weight'[v]}
    BY <1>1, <1>6, <1>10, <2>1 DEF AllNew, clientVars
  <2>3. \A x : Good(x) => Good(x)'
    BY <1>6 DEF Good, AllNew, clientVars
  <2>4. handling # Nobody => Good(fromWorker[w][1].items)'
    <3>1. <<reply>>[1] = reply /\ items(ok) = items(TRUE)
      BY <1>3
    <3>2. handling # Nobody => fromWorker'[w][1].items = items(TRUE)
      BY <1>4, <1>8, <3>1
    <3>3. ~stale
      BY <2>1 DEF stale
    <3>4. Good(items(TRUE))
      BY <1>i, <2>1, <3>3 DEF Good
    <3>5. handling # Nobody => fromWorker[w][1].items' = items(TRUE)
      BY <3>2
    <3>6. QED
      BY <1>6, <3>4, <3>5 DEF Good, AllNew, clientVars
  <2>5. \A v \in Workers : handling # Nobody /\ fromWorker'[v] # <<>> => Good(fromWorker[v][1].items)'
    BY <1>8, <2>3, <2>4 DEF IInv, InferInv, Good, AllNew
  <2>6. /\ answer # Nobody => Good(answer.items)'
        /\ result # Nobody => Good(result)'
    BY <1>6, <2>3 DEF IInv, InferInv, Good, AllNew, clientVars
  <2>7. QED
    BY <1>6, <2>2, <2>5, <2>6 DEF IInv, InferInv, clientVars
<1>16. QED
  BY <1>6, <1>8, <1>12, <1>14, <1>15 DEF IInv

-----------------------------------------------------------------------------
(* A worker loads what it has received, dies, or gets ready.               *)

\* The trainer's part of the invariant, when neither it nor the requests change.
LEMMA TrainerStays ==
  ASSUME IInv,
         UNCHANGED <<pending, handling, trainer, clientVars, answer>>
  PROVE  /\ AskInv' /\ PlaceInv' /\ AnswerInv'
         /\ session' = session /\ own' = own /\ plan' = plan /\ update' = update
         /\ tensor' = tensor /\ version' = version /\ synced' = synced /\ asks' = asks /\ asked' = asked
         /\ result' = result /\ pending' = pending /\ handling' = handling
         /\ trainer' = trainer /\ answer' = answer
<1>1. /\ session' = session /\ own' = own /\ plan' = plan /\ update' = update
      /\ tensor' = tensor /\ version' = version /\ synced' = synced /\ asks' = asks /\ asked' = asked
      /\ result' = result /\ pending' = pending /\ handling' = handling
      /\ trainer' = trainer /\ answer' = answer
  BY DEF clientVars
<1>2. AskInv' /\ PlaceInv'
  BY <1>1 DEF IInv, AskInv, PlaceInv, UpTo, Earlier, Silent, Fits, Ours, InPending, InHandler
<1>3. AnswerInv'
  BY <1>1 DEF IInv, AnswerInv, Ordered
<1>4. QED
  BY <1>1, <1>2, <1>3

\* The update the trainer has reached is one of the plan.
LEMMA UpdateInPlan ==
  ASSUME IInv, own # 0, plan # <<>>
  PROVE  /\ update = 0 \/ update \in DOMAIN plan
         /\ plan \in Plans /\ plan \in Seq(Seq(Params) \ {<<>>}) /\ update \in Nat
         /\ Past \subseteq DOMAIN plan
<1>1. plan \in Plans /\ plan \in Seq(Seq(Params) \ {<<>>}) /\ update \in Nat
  BY ConstantFacts DEF IInv, TypesInv, TrainerTypes
<1>2. update = 0 \/ update \in DOMAIN plan
  <2>1. CASE trainer = "ask"
    <3>1. \E kind : Fits(kind)
      BY <2>1 DEF IInv, AskInv, InPending, InHandler, Ours
    <3>2. QED
      BY <3>1 DEF Fits
  <2>2. CASE trainer # "ask"
    BY <2>2 DEF IInv, PlaceInv, TypesInv, TrainerTypes
  <2>3. QED
    BY <2>1, <2>2
<1>3. Past \subseteq DOMAIN plan
  BY <1>1, <1>2 DEF Past
<1>4. QED
  BY <1>1, <1>2, <1>3

LEMMA LoadStep ==
  ASSUME IInv, NEW w \in Workers, Load(w)
  PROVE  IInv'
<1> DEFINE c == command[w]
           l == landed[w]
           In(p) == \E i \in DOMAIN c : c[i] = p
<1>1. PICK ok \in Outcomes :
        /\ weight' = [weight EXCEPT ![w] = [p \in Params |->
             IF ok /\ In(p) THEN l[CHOOSE i \in DOMAIN c : c[i] = p].value ELSE weight[w][p]]]
        /\ Count(ok)
  BY DEF Load
<1>2. /\ worker[w] = "load"
      /\ worker' = [worker EXCEPT ![w] = "idle"]
      /\ command' = [command EXCEPT ![w] = <<>>]
      /\ landed' = [landed EXCEPT ![w] = <<>>]
      /\ server' = server /\ toWorker' = toWorker /\ fromWorker' = fromWorker /\ comm' = comm
      /\ cached' = cached /\ groups' = groups /\ crashes' = crashes
      /\ UNCHANGED <<pending, handling, trainer, clientVars, answer>>
  BY DEF Load
<1>3. /\ AskInv' /\ PlaceInv' /\ AnswerInv'
      /\ session' = session /\ own' = own /\ plan' = plan /\ update' = update
      /\ tensor' = tensor /\ version' = version /\ synced' = synced /\ asks' = asks /\ asked' = asked
      /\ result' = result /\ pending' = pending /\ handling' = handling
      /\ trainer' = trainer /\ answer' = answer
  BY <1>2, TrainerStays
<1>4. /\ worker \in [Workers -> Places] /\ command \in [Workers -> Seq(Params)]
      /\ landed \in [Workers -> Seq(Tensors)] /\ weight \in [Workers -> Weights]
      /\ version \in 0..MaxVersion /\ faults \in Nat
  BY DEF IInv, TypesInv, WorkerTypes, TrainerTypes
<1>5. /\ worker' \in [Workers -> Places] /\ worker'[w] = "idle"
      /\ command' \in [Workers -> Seq(Params)] /\ command'[w] = <<>>
      /\ landed' \in [Workers -> Seq(Tensors)] /\ landed'[w] = <<>>
      /\ \A v \in Workers : v # w => /\ worker'[v] = worker[v] /\ command'[v] = command[v]
                                     /\ landed'[v] = landed[v] /\ weight'[v] = weight[v]
  BY <1>1, <1>2, <1>4 DEF Places
<1>6. \A p \in Params : In(p) => l[CHOOSE i \in DOMAIN c : c[i] = p].value = version
  <2> SUFFICES ASSUME NEW p \in Params, In(p)
               PROVE  l[CHOOSE i \in DOMAIN c : c[i] = p].value = version
    OBVIOUS
  <2> DEFINE k == CHOOSE i \in DOMAIN c : c[i] = p
  <2>1. k \in DOMAIN c
    OBVIOUS
  <2>2. Len(l) = Len(c)
    BY <1>2 DEF IInv, QuietInv
  <2>3. c \in Seq(Params) /\ l \in Seq(Tensors)
    BY <1>4
  <2> HIDE DEF k
  <2>4. k \in DOMAIN l
    BY <2>1, <2>2, <2>3
  <2>5. QED
    BY <2>4 DEF IInv, TensorsMatch, k
<1> HIDE DEF In, l
<1>7. weight' = [weight EXCEPT ![w] = [p \in Params |-> IF ok /\ In(p) THEN version ELSE weight[w][p]]]
  BY <1>1, <1>6
<1>8. /\ weight' \in [Workers -> Weights]
      /\ \A p \in Params : weight'[w][p] = IF ok /\ In(p) THEN version ELSE weight[w][p]
  <2> DEFINE new == [p \in Params |-> IF ok /\ In(p) THEN version ELSE weight[w][p]]
  <2>1. weight[w] \in Weights
    BY <1>4
  <2>2. new \in Weights
    BY <1>4, <2>1 DEF Weights
  <2>3. \A p \in Params : new[p] = IF ok /\ In(p) THEN version ELSE weight[w][p]
    OBVIOUS
  <2> HIDE DEF new
  <2>4. weight' = [weight EXCEPT ![w] = new]
    BY <1>7 DEF new
  <2>5. QED
    BY <1>4, <2>2, <2>3, <2>4
<1>9. faults' \in Nat /\ (faults' = 0 => faults = 0 /\ ok)
  BY <1>1, <1>4 DEF Count, Outcomes
<1>10. \A v \in Workers : Alive(v)' <=> Alive(v)
  BY <1>2, <1>5 DEF Alive
<1>11. TypesInv'
  BY <1>2, <1>3, <1>5, <1>8, <1>9 DEF IInv, TypesInv, PipeTypes, WorkerTypes, TrainerTypes
<1>12. CloseInv'
  BY <1>2, <1>3, <1>5, <1>10 DEF IInv, CloseInv
<1>13. DoomInv'
  <2>1. \A v \in Workers : Kept(v)' <=> Kept(v)
    BY <1>2, <1>3 DEF Kept
  <2>2. \A v \in Workers : Free(v) => Free(v)'
    BY <1>2, <1>5 DEF Free
  <2>3. QED
    BY <1>3, <1>10, <2>1, <2>2 DEF IInv, DoomInv, Doomed, Clean
<1>14. QuietInv'
  BY <1>2, <1>5 DEF IInv, QuietInv
<1>15. StartInv' /\ ReplyInv'
  <2>1. StartInv'
    BY <1>2, <1>3 DEF IInv, StartInv, Silent
  <2>2. \A v \in Workers : (Waiting(v)' <=> Waiting(v)) /\ (Replied(v)' <=> Replied(v)) /\ (Lost(v)' <=> Lost(v))
    BY <1>2, <1>3, <1>10 DEF Waiting, Replied, Lost
  <2>3. ReplyInv'
    BY <1>2, <1>3, <1>10, <2>2 DEF IInv, ReplyInv, AllAlive
  <2>4. QED
    BY <2>1, <2>3
<1>16. ~Done(w)
  BY <1>2 DEF Done
<1>17. PhaseInv'
  <2> SUFFICES ASSUME own # 0 PROVE PhaseInv'
    BY <1>3 DEF PhaseInv
  <2>1. plan # <<>>
    BY <1>16 DEF IInv, PhaseInv
  <2>2. \A v \in Workers : Unsent(v) => Unsent(v)'
    BY <1>2, <1>5 DEF Unsent
  <2>3. \A v \in Workers : Queued(v) => Queued(v)'
    BY <1>2, <1>3, <1>5 DEF Queued
  <2>4. \A v \in Workers : Receiving(v) => Receiving(v)'
    BY <1>2, <1>3, <1>5 DEF Receiving
  <2>5. \A v \in Workers : v # w => (Done(v) => Done(v)')
    BY <1>2, <1>5 DEF Done, Free
  <2>6. IsSent' <=> IsSent
    BY <1>3 DEF IsSent
  <2>7. QED
    BY <1>2, <1>3, <1>10, <1>16, <2>1, <2>2, <2>3, <2>4, <2>5, <2>6 DEF IInv, PhaseInv, AllAlive
<1>18. TensorsMatch'
  <2>1. \A i \in DOMAIN <<>> : FALSE
    OBVIOUS
  <2>2. \A i \in DOMAIN landed'[w] : FALSE
    BY <1>5, <2>1
  <2>3. \A v \in Workers : v # w => landed'[v] = landed[v] /\ command'[v] = command[v]
    BY <1>5
  <2>4. QED
    BY <1>3, <2>2, <2>3 DEF IInv, TensorsMatch
<1>19. SyncInv'
  <2> SUFFICES ASSUME faults = 0, ok, own # 0, plan # <<>> PROVE SyncInv'
    BY <1>3, <1>9 DEF SyncInv
  <2>1. Past' = Past
    BY <1>3 DEF Past
  <2>2. \A j : Loaded(w, j) /\ j \in DOMAIN plan => Loaded(w, j)'
    <3> SUFFICES ASSUME NEW j \in DOMAIN plan, Loaded(w, j), NEW i \in DOMAIN plan[j]
                 PROVE  weight'[w][plan[j][i]] = version
      BY <1>3 DEF Loaded
    <3>1. plan[j][i] \in Params
      <4>1. plan \in Seq(Seq(Params) \ {<<>>})
        BY ConstantFacts DEF IInv, TypesInv, TrainerTypes
      <4>2. plan[j] \in Seq(Params)
        BY <4>1
      <4>3. QED
        BY <4>2
    <3>2. weight[w][plan[j][i]] = version \/ In(plan[j][i])
      BY DEF Loaded, In
    <3>3. QED
      BY <1>8, <3>1, <3>2
  <2>3. ASSUME NEW v \in Workers, v # w, NEW j, Loaded(v, j)
        PROVE  Loaded(v, j)'
    <3>1. worker'[v] = worker[v] /\ command'[v] = command[v] /\ weight'[v] = weight[v]
      BY <1>5, <2>3
    <3>2. QED
      BY <1>3, <2>3, <3>1 DEF Loaded
  <2>4. \A v \in Workers : Fresh(v) => Fresh(v)'
    BY <1>2, <1>3, <1>5, <1>8 DEF Fresh, AllNew
  <2>5. Past \subseteq DOMAIN plan
    BY UpdateInPlan
  <2>6. QED
    BY <1>2, <1>3, <1>10, <2>1, <2>2, <2>3, <2>4, <2>5 DEF IInv, SyncInv
<1>20. InferInv'
  <2> SUFFICES ASSUME plan = <<>>, synced # 0 PROVE InferInv'
    BY <1>3 DEF InferInv
  <2>1. own # 0
    BY DEF IInv, PlaceInv
  <2>2. QED
    BY <1>16, <2>1 DEF IInv, PhaseInv
<1>21. QED
  BY <1>3, <1>11, <1>12, <1>13, <1>14, <1>15, <1>17, <1>18, <1>19, <1>20 DEF IInv

LEMMA WorkerDiesStep ==
  ASSUME IInv, NEW w \in Workers, WorkerDies(w)
  PROVE  IInv'
<1>1. /\ worker' = [worker EXCEPT ![w] = "dead"] /\ toWorker' = [toWorker EXCEPT ![w] = <<>>]
      /\ server' = server /\ fromWorker' = fromWorker /\ command' = command /\ landed' = landed
      /\ comm' = comm /\ weight' = weight /\ cached' = cached
      /\ groups' = groups /\ crashes' = crashes /\ faults' = faults
      /\ UNCHANGED <<pending, handling, trainer, clientVars, answer>>
      /\ Alive(w)
  BY DEF WorkerDies, ghosts
<1>2. /\ AskInv' /\ PlaceInv' /\ AnswerInv'
      /\ session' = session /\ own' = own /\ plan' = plan /\ update' = update
      /\ tensor' = tensor /\ version' = version /\ synced' = synced /\ asks' = asks /\ asked' = asked
      /\ result' = result /\ pending' = pending /\ handling' = handling
      /\ trainer' = trainer /\ answer' = answer
  BY <1>1, TrainerStays
<1>3. worker \in [Workers -> Places] /\ toWorker \in [Workers -> Seq(Requests(Inputs))]
  BY DEF IInv, TypesInv, PipeTypes, WorkerTypes
<1>4. /\ worker' \in [Workers -> Places] /\ worker'[w] = "dead"
      /\ toWorker'[w] = <<>>
      /\ \A v \in Workers : v # w => worker'[v] = worker[v] /\ toWorker'[v] = toWorker[v]
  BY <1>1, <1>3 DEF Places
<1>5. toWorker' \in [Workers -> Seq(Requests(Inputs))]
  <2>1. <<>> \in Seq(Requests(Inputs))
    OBVIOUS
  <2>2. QED
    BY <1>1, <1>3, <2>1
<1>6. /\ ~Alive(w)' /\ ~AllAlive'
      /\ \A v \in Workers : v # w => (Alive(v)' <=> Alive(v))
  BY <1>4 DEF Alive, AllAlive
<1>7. \A kind : ~Has(toWorker'[w], kind) /\ OnceAtMost(toWorker'[w], kind) /\ ~HasCall(toWorker'[w])
  BY <1>4, EmptyPipe
<1>8. TypesInv'
  BY <1>1, <1>2, <1>4, <1>5 DEF IInv, TypesInv, PipeTypes, WorkerTypes, TrainerTypes
<1>9. CloseInv'
  BY <1>1, <1>2, <1>4, <1>6, <1>7 DEF IInv, CloseInv
<1>10. DoomInv'
  BY <1>6 DEF DoomInv, Doomed
<1>11. QuietInv'
  BY <1>1, <1>4 DEF IInv, QuietInv
<1>12. StartInv'
  BY <1>1, <1>2, <1>4 DEF IInv, StartInv, Silent
<1>13. ReplyInv'
  <2>1. \A v \in Workers : v # w => /\ Waiting(v) => Waiting(v)'
                                    /\ Replied(v) => Replied(v)'
                                    /\ Lost(v) => Lost(v)'
    BY <1>1, <1>2, <1>4, <1>6 DEF Waiting, Replied, Lost
  <2>2. Waiting(w) => Lost(w)'
    BY <1>1, <1>6 DEF Waiting, Lost
  <2>3. Replied(w) => Replied(w)'
    BY <1>1, <1>2, <1>7 DEF Replied
  <2>4. Lost(w) => Lost(w)'
    BY <1>1, <1>6 DEF Lost
  <2>5. QED
    BY <1>1, <1>2, <1>4, <1>6, <1>7, <2>1, <2>2, <2>3, <2>4 DEF IInv, ReplyInv
<1>14. PhaseInv'
  <2>1. \A v \in Workers : Done(v) => Done(v)'
    BY <1>1, <1>4, <1>7 DEF Done, Free
  <2>2. \A v \in Workers : v # w => (Unsent(v) => Unsent(v)')
    BY <1>1, <1>4 DEF Unsent
  <2>3. QED
    BY <1>1, <1>2, <1>6, <2>1, <2>2 DEF IInv, PhaseInv
<1>15. TensorsMatch'
  BY <1>1, <1>2 DEF IInv, TensorsMatch
<1>16. SyncInv'
  <2>1. Past' = Past
    BY <1>2 DEF Past
  <2>2. ASSUME NEW v \in Workers, v # w, NEW j, Loaded(v, j)
        PROVE  Loaded(v, j)'
    BY <1>1, <1>2, <1>4, <2>2 DEF Loaded
  <2>3. \A v \in Workers : Fresh(v) => Fresh(v)'
    BY <1>1, <1>2 DEF Fresh, AllNew
  <2>4. QED
    BY <1>1, <1>2, <1>6, <2>1, <2>2, <2>3 DEF IInv, SyncInv
<1>17. InferInv'
  BY <1>1, <1>2 DEF IInv, InferInv, AllNew, Good
<1>18. QED
  BY <1>2, <1>8, <1>9, <1>10, <1>11, <1>12, <1>13, <1>14, <1>15, <1>16, <1>17 DEF IInv

\* Nothing is asked while a worker starts.
LEMMA NotUp ==
  ASSUME IInv, server # "up"
  PROVE  /\ own = 0 /\ synced = 0 /\ plan = <<>> /\ pending = <<>> /\ handling = Nobody
         /\ trainer = "off" /\ session = 0 /\ answer = Nobody /\ \A w \in Workers : toWorker[w] = <<>>
BY DEF IInv, StartInv, Silent, PlaceInv, AskInv

LEMMA WorkerReadyStep ==
  ASSUME IInv, NEW w \in Workers, WorkerReady(w)
  PROVE  IInv'
<1>1. PICK ok \in Outcomes :
        /\ worker' = [worker EXCEPT ![w] = IF ok THEN "idle" ELSE "dead"]
        /\ fromWorker' = [fromWorker EXCEPT ![w] = <<Reply(ok, <<>>)>>]
        /\ Count(ok)
  BY DEF WorkerReady
<1>2. /\ worker[w] = "starting"
      /\ server' = server /\ toWorker' = toWorker /\ command' = command /\ landed' = landed
      /\ comm' = comm /\ weight' = weight /\ cached' = cached
      /\ groups' = groups /\ crashes' = crashes
      /\ UNCHANGED <<pending, handling, trainer, clientVars, answer>>
  BY DEF WorkerReady
<1>3. /\ AskInv' /\ PlaceInv' /\ AnswerInv'
      /\ session' = session /\ own' = own /\ plan' = plan /\ update' = update
      /\ tensor' = tensor /\ version' = version /\ synced' = synced /\ asks' = asks /\ asked' = asked
      /\ result' = result /\ pending' = pending /\ handling' = handling
      /\ trainer' = trainer /\ answer' = answer
  BY <1>2, TrainerStays
<1>4. server # "up"
  BY <1>2 DEF IInv, QuietInv
<1>5. /\ own = 0 /\ synced = 0 /\ plan = <<>> /\ pending = <<>> /\ handling = Nobody
      /\ trainer = "off" /\ session = 0 /\ answer = Nobody /\ \A v \in Workers : toWorker[v] = <<>>
  BY <1>4, NotUp
<1>6. worker \in [Workers -> Places] /\ fromWorker \in [Workers -> Seq(Replies)] /\ faults \in Nat
  BY DEF IInv, TypesInv, PipeTypes, WorkerTypes, TrainerTypes
<1>7. ok \in BOOLEAN
  BY DEF Outcomes
<1>8. /\ worker' \in [Workers -> Places] /\ worker'[w] \in {"idle", "dead"}
      /\ \A v \in Workers : v # w => worker'[v] = worker[v]
  BY <1>1, <1>6, <1>7 DEF Places
<1>9. /\ fromWorker' \in [Workers -> Seq(Replies)]
      /\ \A v \in Workers : v # w => fromWorker'[v] = fromWorker[v]
  <2>1. <<>> \in Seq(Outputs)
    OBVIOUS
  <2>2. Reply(ok, <<>>) \in Replies
    BY <1>7, <2>1 DEF Reply, Replies
  <2>3. <<Reply(ok, <<>>)>> \in Seq(Replies)
    BY <2>2
  <2>4. QED
    BY <1>1, <1>6, <2>3
<1>10. faults' \in Nat
  BY <1>1, <1>6, <1>7 DEF Count
<1>11. TypesInv'
  BY <1>2, <1>3, <1>8, <1>9, <1>10 DEF IInv, TypesInv, PipeTypes, WorkerTypes, TrainerTypes
<1>12. \A v \in Workers : Alive(v)' => Alive(v)
  BY <1>2, <1>8 DEF Alive
<1>13. CloseInv'
  BY <1>2, <1>3, <1>5, <1>8, <1>12 DEF IInv, CloseInv
<1>14. DoomInv'
  <2>1. \A v \in Workers : (Kept(v)' <=> Kept(v)) /\ (Free(v)' <=> Free(v))
    BY <1>2, <1>3 DEF Kept, Free
  <2>2. QED
    BY <1>3, <1>12, <2>1 DEF IInv, DoomInv, Doomed, Clean
<1>15. QuietInv'
  BY <1>2, <1>5, <1>8, <1>9 DEF IInv, QuietInv
<1>16. StartInv' /\ ReplyInv' /\ PhaseInv'
  BY <1>2, <1>3, <1>4, <1>5 DEF StartInv, Silent, ReplyInv, PhaseInv
<1>17. TensorsMatch'
  BY <1>2, <1>3 DEF IInv, TensorsMatch
<1>18. SyncInv' /\ InferInv'
  BY <1>3, <1>5 DEF SyncInv, InferInv
<1>19. QED
  BY <1>3, <1>11, <1>13, <1>14, <1>15, <1>16, <1>17, <1>18 DEF IInv

-----------------------------------------------------------------------------
(* The server.                                                             *)

LEMMA LifespanStep ==
  ASSUME IInv, Lifespan
  PROVE  IInv'
<1>1. /\ server = "starting"
      /\ worker' = worker /\ toWorker' = toWorker /\ command' = command /\ landed' = landed
      /\ comm' = comm /\ weight' = weight /\ cached' = cached
      /\ groups' = groups /\ crashes' = crashes /\ faults' = faults
      /\ UNCHANGED <<pending, handling, trainer, clientVars, answer>>
  BY DEF Lifespan, workerVars, ghosts
<1>2. /\ AskInv' /\ PlaceInv' /\ AnswerInv'
      /\ session' = session /\ own' = own /\ plan' = plan /\ update' = update
      /\ tensor' = tensor /\ version' = version /\ synced' = synced /\ asks' = asks /\ asked' = asked
      /\ result' = result /\ pending' = pending /\ handling' = handling
      /\ trainer' = trainer /\ answer' = answer
  BY <1>1, TrainerStays
<1>3. /\ own = 0 /\ synced = 0 /\ plan = <<>> /\ pending = <<>> /\ handling = Nobody
      /\ trainer = "off" /\ session = 0 /\ answer = Nobody /\ \A v \in Workers : toWorker[v] = <<>>
  BY <1>1, NotUp
<1>4. \/ /\ \A w \in Workers : fromWorker[w] = <<Ready>>
         /\ server' = "up" /\ fromWorker' = [w \in Workers |-> <<>>]
      \/ server' = "failed" /\ fromWorker' = fromWorker
  BY DEF Lifespan
<1>5. fromWorker' \in [Workers -> Seq(Replies)]
  <2>1. <<>> \in Seq(Replies) /\ fromWorker \in [Workers -> Seq(Replies)]
    BY DEF IInv, TypesInv, PipeTypes
  <2>2. QED
    BY <1>4, <2>1
<1>6. TypesInv'
  BY <1>1, <1>2, <1>4, <1>5 DEF IInv, TypesInv, PipeTypes, WorkerTypes, TrainerTypes
<1>7. \A v \in Workers : Alive(v)' <=> Alive(v)
  BY <1>1 DEF Alive
<1>8. CloseInv'
  BY <1>1, <1>2, <1>7 DEF IInv, CloseInv
<1>9. DoomInv'
  <2>1. \A v \in Workers : (Kept(v)' <=> Kept(v)) /\ (Free(v)' <=> Free(v))
    BY <1>1, <1>2 DEF Kept, Free
  <2>2. QED
    BY <1>2, <1>7, <2>1 DEF IInv, DoomInv, Doomed, Clean
<1>10. QuietInv'
  <2>1. server' = "up" => \A w \in Workers : worker[w] # "starting"
    <3>1. <<Ready>> # <<>>
      OBVIOUS
    <3>2. QED
      BY <1>4, <3>1 DEF IInv, QuietInv
  <2>2. QED
    BY <1>1, <1>4, <2>1 DEF IInv, QuietInv
<1>11. StartInv'
  BY <1>1, <1>2, <1>3 DEF StartInv, Silent
<1>12. ReplyInv'
  BY <1>1, <1>2, <1>3, <1>4, EmptyPipe DEF ReplyInv
<1>13. PhaseInv' /\ SyncInv' /\ InferInv'
  BY <1>2, <1>3 DEF PhaseInv, SyncInv, InferInv
<1>14. TensorsMatch'
  BY <1>1, <1>2 DEF IInv, TensorsMatch
<1>15. QED
  BY <1>2, <1>6, <1>8, <1>9, <1>10, <1>11, <1>12, <1>13, <1>14 DEF IInv

\* The first request is taken from the queue of requests.
LEMMA TakeUpTo ==
  ASSUME NEW S, NEW q \in Seq(S), q # <<>>, NEW n
  PROVE  /\ UpTo(q, n) => /\ UpTo(Tail(q), n) /\ Head(q).from <= n
                          /\ Head(q).from = n => Tail(q) = <<>>
         /\ Earlier(q, n) => Earlier(Tail(q), n) /\ Head(q).from < n
         /\ Tail(q) # <<>> => Tail(q)[Len(Tail(q))] = q[Len(q)]
         /\ Tail(q) = <<>> => Head(q) = q[Len(q)]
         /\ Len(q) = 1 => Tail(q) = <<>>
<1> DEFINE t == Tail(q)
           h == Head(q)
           l == Len(q)
<1>1. h = q[1] /\ 1 \in DOMAIN q /\ l \in DOMAIN q
  BY TakeFirst
<1>2. \A i \in DOMAIN t : i + 1 \in DOMAIN q /\ i + 1 # 1 /\ t[i] = q[i + 1]
  BY TakeFirst
<1>3. /\ \A i \in DOMAIN t : i = Len(t) <=> i + 1 = l
      /\ 1 # l => t # <<>> /\ Len(t) \in DOMAIN t /\ Len(t) + 1 = l
      /\ 1 = l => t = <<>>
  BY TakeFirst
<1>4. l = Len(q)
  OBVIOUS
<1> HIDE DEF t, h, l
<1>5. UpTo(q, n) => UpTo(t, n) /\ h.from <= n /\ (h.from = n => t = <<>>)
  BY <1>1, <1>2, <1>3, <1>4 DEF UpTo
<1>6. Earlier(q, n) => Earlier(t, n) /\ h.from < n
  BY <1>1, <1>2 DEF Earlier
<1>7. /\ t # <<>> => t[Len(t)] = q[Len(q)]
      /\ t = <<>> => h = q[Len(q)]
      /\ Len(q) = 1 => t = <<>>
  BY <1>1, <1>2, <1>3, <1>4
<1>8. QED
  BY <1>5, <1>6, <1>7 DEF t, h

LEMMA HandleStep ==
  ASSUME IInv, Handle
  PROVE  IInv'
<1> DEFINE req  == Head(pending)
           rest == Tail(pending)
           dead == {w \in Workers : ~Alive(w)}
           ok == dead = {}
           mine == req.from = session /\ trainer = "ask"
<1>1. /\ server = "up" /\ handling = Nobody /\ pending # <<>> /\ pending' = rest
      /\ toWorker' = [w \in Workers |-> IF w \in Before(dead) THEN Append(toWorker[w], CommandFor(req, w))
                                        ELSE toWorker[w]]
      /\ ok /\ IsCall(req.kind) => handling' = req /\ answer' = answer
      /\ ~(ok /\ IsCall(req.kind)) =>
           /\ handling' = handling
           /\ answer' = IF mine THEN [kind |-> req.kind, ok |-> ok, items |-> <<>>] ELSE Nobody
  BY DEF Handle, Respond
<1>2. /\ server' = server /\ fromWorker' = fromWorker /\ trainer' = trainer
      /\ worker' = worker /\ command' = command /\ landed' = landed /\ comm' = comm
      /\ weight' = weight /\ cached' = cached
      /\ session' = session /\ own' = own /\ plan' = plan /\ update' = update
      /\ tensor' = tensor /\ version' = version /\ synced' = synced /\ asks' = asks /\ asked' = asked
      /\ result' = result /\ groups' = groups /\ crashes' = crashes /\ faults' = faults
  BY DEF Handle, workerVars, clientVars, ghosts
<1>3. /\ pending \in Seq(Requests(Prompts)) /\ toWorker \in [Workers -> Seq(Requests(Inputs))]
      /\ session \in Nat
  BY DEF IInv, TypesInv, PipeTypes, TrainerTypes
<1>4. /\ rest \in Seq(Requests(Prompts)) /\ req \in Requests(Prompts)
      /\ \A k : Has(pending, k) <=> Has(rest, k) \/ req.kind = k
      /\ \A k : OnceAtMost(pending, k) => OnceAtMost(rest, k) /\ (req.kind = k => ~Has(rest, k))
  BY <1>1, <1>3, TakeOut
<1>5. /\ UpTo(pending, session) => UpTo(rest, session) /\ req.from <= session
                                   /\ (req.from = session => rest = <<>>)
      /\ Earlier(pending, session) => Earlier(rest, session) /\ req.from < session
      /\ rest # <<>> => rest[Len(rest)] = pending[Len(pending)]
      /\ rest = <<>> => req = pending[Len(pending)]
      /\ Len(pending) = 1 => rest = <<>>
  BY <1>1, <1>3, TakeUpTo
<1>6. req.kind \in Kinds /\ req.from \in Nat
  BY <1>4, RequestFacts
<1>7. ok <=> AllAlive
  BY DEF AllAlive
<1>8. ok => \A w \in Workers : w \in Before(dead)
  BY DEF Before
<1>9. \A w \in Workers : ~Alive(w) => w \notin Before(dead)
  BY DEF Before, Workers
<1>10. answer = Nobody
  BY <1>1 DEF IInv, AskInv, Silent
<1>11. /\ \A w \in Workers : CommandFor(req, w) \in Requests(Inputs) /\ CommandFor(req, w).kind = req.kind
       /\ req.kind # "infer" => \A w \in Workers : CommandFor(req, w) = req
  BY <1>4, CommandFacts
<1> HIDE DEF req, rest, dead, ok
<1>12. toWorker' \in [Workers -> Seq(Requests(Inputs))]
  BY <1>1, <1>3, <1>11
<1>13. ASSUME NEW w \in Workers
       PROVE  /\ \A k : Has(toWorker'[w], k) =>  Has(toWorker[w], k) \/ (w \in Before(dead) /\ req.kind = k)
              /\ \A k : OnceAtMost(toWorker[w], k) /\ ~(Has(toWorker[w], k) /\ req.kind = k) =>
                   OnceAtMost(toWorker'[w], k)
              /\ HasCall(toWorker'[w]) => HasCall(toWorker[w]) \/ (w \in Before(dead) /\ IsCall(req.kind))
              /\ w \in Before(dead) /\ ~HasCall(toWorker[w]) => CallIsLast(toWorker'[w], CommandFor(req, w))
              /\ w \in Before(dead) /\ ~Has(toWorker[w], "update") /\ req.kind = "update" =>
                   OneUpdate(toWorker'[w], req.data)
  <2> DEFINE q == toWorker[w]
             x == CommandFor(req, w)
  <2>1. q \in Seq(Requests(Inputs)) /\ x \in Requests(Inputs) /\ x.kind = req.kind
    BY <1>3, <1>11
  <2>2. /\ \A k : Has(Append(q, x), k) <=> Has(q, k) \/ x.kind = k
        /\ HasCall(Append(q, x)) <=> HasCall(q) \/ IsCall(x.kind)
        /\ \A k : OnceAtMost(q, k) /\ ~(Has(q, k) /\ x.kind = k) => OnceAtMost(Append(q, x), k)
        /\ ~HasCall(q) => CallIsLast(Append(q, x), x)
        /\ ~Has(q, "update") /\ x.kind = "update" => OneUpdate(Append(q, x), x.data)
    BY <2>1, PutIn
  <2>3. toWorker'[w] = IF w \in Before(dead) THEN Append(q, x) ELSE q
    BY <1>1
  <2>4. req.kind = "update" => x.data = req.data
    BY <1>11
  <2> HIDE DEF q, x
  <2>5. CASE w \in Before(dead)
    <3>1. toWorker'[w] = Append(q, x)
      BY <2>3, <2>5
    <3>2. QED
      BY <2>1, <2>2, <2>4, <2>5, <3>1 DEF q, x
  <2>6. CASE w \notin Before(dead)
    <3>1. toWorker'[w] = q
      BY <2>3, <2>6
    <3>2. QED
      BY <2>6, <3>1 DEF q
  <2>7. QED
    BY <2>5, <2>6
<1>14. mine => Ours(req) /\ rest = <<>>
  <2> SUFFICES ASSUME mine PROVE Ours(req) /\ rest = <<>>
    OBVIOUS
  <2>1. InPending
    BY <1>1, <1>10 DEF IInv, AskInv, InHandler
  <2>2. rest = <<>>
    BY <1>5 DEF IInv, AskInv
  <2>3. QED
    BY <1>5, <2>1, <2>2 DEF InPending
<1>15. own # 0 => mine
  <2> SUFFICES ASSUME own # 0 PROVE mine
    OBVIOUS
  <2>1. trainer = "ask"
    BY <1>1 DEF IInv, AskInv, Silent
  <2>2. InPending
    BY <1>1, <1>10, <2>1 DEF IInv, AskInv, InHandler
  <2>3. Len(pending) = 1 /\ Ours(pending[Len(pending)])
    BY <2>2 DEF InPending
  <2>4. QED
    BY <1>5, <2>1, <2>3 DEF Ours
<1>16. /\ [kind |-> req.kind, ok |-> ok, items |-> <<>>] \in Answers
       /\ [kind |-> req.kind, ok |-> ok, items |-> <<>>] # Nobody
  <2>1. <<>> \in Seq(Outputs)
    OBVIOUS
  <2>2. ok \in BOOLEAN
    BY DEF ok
  <2>3. [kind |-> req.kind, ok |-> ok, items |-> <<>>] \in Answers
    BY <1>6, <2>1, <2>2 DEF Answers
  <2>4. QED
    BY <2>3, SomeAnswer
<1>17. req # Nobody
  BY <1>4, SomeRequest
<1>18. answer' # Nobody =>
         /\ mine /\ handling' = Nobody /\ answer'.kind = req.kind /\ answer'.ok = ok
         /\ answer'.items = <<>> /\ ~(ok /\ IsCall(req.kind))
  BY <1>1, <1>10
<1>19. \A w \in Workers : Alive(w)' <=> Alive(w)
  BY <1>2 DEF Alive
<1> HIDE DEF mine
<1>20. TypesInv'
  <2>1. PipeTypes'
    BY <1>1, <1>2, <1>4, <1>12 DEF IInv, TypesInv, PipeTypes
  <2>2. answer' \in Answers \cup {Nobody}
    BY <1>1, <1>10, <1>16
  <2>3. QED
    BY <1>2, <2>1, <2>2 DEF IInv, TypesInv, WorkerTypes, TrainerTypes
<1>21. AskInv'
  <2>2. \A kind : Fits(kind)' <=> Fits(kind)
    BY <1>2 DEF Fits
  <2>3. answer' # Nobody => trainer' = "ask" /\ Silent' /\ Fits(answer.kind)'
    BY <1>1, <1>2, <1>14, <1>18, <2>2 DEF Silent, Ours, mine
  <2>4. ASSUME trainer' = "ask", answer' = Nobody
        PROVE  InPending' \/ InHandler'
    <3>1. InPending
      BY <1>1, <1>2, <1>10, <2>4 DEF IInv, AskInv, InHandler
    <3>2. CASE mine
      <4>1. ok /\ IsCall(req.kind)
        BY <1>1, <1>16, <2>4, <3>2
      <4>2. handling' = req /\ pending' = <<>> /\ Ours(handling)'
        BY <1>1, <1>2, <1>14, <3>2, <4>1 DEF Ours, Fits
      <4>3. QED
        BY <1>17, <4>2 DEF InHandler
    <3>3. CASE ~mine
      <4>1. own = 0 /\ req.from < session
        BY <1>2, <1>3, <1>5, <1>6, <1>15, <2>4, <3>3 DEF mine, IInv, AskInv
      <4>2. rest # <<>>
        <5>1. pending[Len(pending)].from = session
          BY <3>1 DEF InPending, Ours
        <5>2. QED
          BY <1>3, <1>5, <4>1, <5>1
      <4>3. rest[Len(rest)] = pending[Len(pending)]
        BY <1>5, <4>2
      <4>4. pending'[Len(pending')] = pending[Len(pending)] /\ pending' # <<>>
        BY <1>1, <4>2, <4>3
      <4>5. Ours(pending[Len(pending)])'
        BY <1>2, <3>1, <4>4 DEF InPending, Ours, Fits
      <4>6. handling' # Nobody => handling'.from < session
        BY <1>1, <4>1
      <4>7. QED
        BY <1>2, <4>1, <4>4, <4>5, <4>6 DEF InPending
    <3>4. QED
      BY <3>2, <3>3
  <2>5. own' # 0 /\ trainer' # "ask" => Silent'
    BY <1>2, <1>15 DEF mine
  <2>6. trainer' \in {"join", "send"} => Silent'
    BY <1>1, <1>2 DEF IInv, AskInv, Silent
  <2>7. trainer' = "idle" => Earlier(pending, session)' /\ (handling' # Nobody => handling'.from < session')
    BY <1>1, <1>2, <1>5 DEF IInv, AskInv
  <2>8. UpTo(pending, session)' /\ (handling' # Nobody => handling'.from <= session' /\ IsCall(handling'.kind))
    BY <1>1, <1>2, <1>5 DEF IInv, AskInv
  <2>9. QED
    BY <2>3, <2>4, <2>5, <2>6, <2>7, <2>8 DEF AskInv
<1>22. PlaceInv'
  BY <1>2 DEF IInv, PlaceInv
<1>23. CloseInv'
  <2>1. own # 0 => req.kind # "close"
    BY <1>14, <1>15 DEF Ours, Fits
  <2>2. QED
    BY <1>1, <1>2, <1>4, <1>13, <1>19, <2>1 DEF IInv, CloseInv
<1>24. DoomInv'
  <2>1. \A w \in Workers : Kept(w) => Kept(w)'
    BY <1>1, <1>2, <1>4, <1>13 DEF Kept
  <2>2. Clean => Clean'
    BY <1>1, <1>2, <1>4, <1>13 DEF Clean, Free
  <2>3. QED
    BY <1>2, <1>19, <2>1, <2>2 DEF IInv, DoomInv, Doomed
<1>25. QuietInv'
  <2>1. \A w \in Workers : worker[w] = "dead" => toWorker'[w] = toWorker[w]
    BY <1>1, <1>9 DEF Alive
  <2>2. QED
    BY <1>2, <2>1 DEF IInv, QuietInv
<1>26. StartInv'
  BY <1>1, <1>2 DEF StartInv
<1>27. AllAlive => \A w \in Workers : fromWorker[w] = <<>> /\ ~HasCall(toWorker[w])
  BY <1>1 DEF IInv, ReplyInv
<1>28. ReplyInv'
  <2>1. ASSUME handling' # Nobody
        PROVE  \A w \in Workers : Waiting(w)'
    <3>1. ok /\ handling' = req
      BY <1>1, <2>1
    <3>2. QED
      BY <1>2, <1>7, <1>8, <1>13, <1>19, <1>27, <3>1 DEF Waiting, AllAlive
  <2>2. ASSUME handling' = Nobody, AllAlive
        PROVE  \A w \in Workers : ~HasCall(toWorker'[w])
    BY <1>1, <1>7, <1>13, <1>17, <1>27, <2>2
  <2>3. ASSUME answer' # Nobody, answer'.ok
        PROVE  \A w \in Workers : ~HasCall(toWorker'[w])
    BY <1>7, <1>13, <1>18, <1>27, <2>3
  <2>4. QED
    BY <1>2, <1>19, <1>27, <2>1, <2>2, <2>3 DEF ReplyInv, AllAlive
<1>29. PhaseInv'
  <2> SUFFICES ASSUME own # 0 PROVE PhaseInv'
    BY <1>2 DEF PhaseInv
  <2>1. mine /\ Ours(req) /\ trainer = "ask"
    BY <1>14, <1>15 DEF mine
  <2>2. plan = <<>> => \A w \in Workers : Done(w)'
    <3>1. plan = <<>> => req.kind # "update"
      BY <2>1 DEF Ours, Fits
    <3>2. QED
      BY <1>2, <1>13, <3>1 DEF IInv, PhaseInv, Done, Free
  <2>3. ASSUME plan # <<>>, AllAlive
        PROVE  /\ \A w \in Workers : IF IsSent' THEN Queued(w)' ELSE Unsent(w)'
               /\ answer' # Nobody => answer'.ok /\ answer'.kind # "reset"
    <3>1. \A w \in Workers : Unsent(w)
      BY <1>10, <2>1, <2>3 DEF IInv, PhaseInv, IsSent
    <3>2. req.kind = "update" \/ req.kind = "reset"
      BY <2>1, <2>3 DEF Ours, Fits
    <3>3. CASE req.kind = "update"
      <4>1. req.data = plan[update]
        BY <2>1, <3>3 DEF Ours
      <4>2. answer' # Nobody /\ answer'.ok /\ answer'.kind = "update"
        <5>1. ~(ok /\ IsCall(req.kind))
          BY <3>3 DEF IsCall
        <5>2. answer' # Nobody
          BY <1>1, <1>16, <2>1, <5>1
        <5>3. ok
          BY <1>7, <2>3
        <5>4. QED
          BY <1>18, <3>3, <5>2, <5>3
      <4>3. \A w \in Workers : Queued(w)'
        BY <1>2, <1>7, <1>8, <1>13, <2>1, <2>3, <3>1, <3>3, <4>1 DEF Unsent, Queued
      <4>4. IsSent'
        <5>1. update # 0
          BY <2>1, <3>3, UpdateInPlan DEF Ours, Fits
        <5>2. QED
          BY <1>2, <4>2, <5>1 DEF IsSent
      <4>5. QED
        BY <4>2, <4>3, <4>4
    <3>4. CASE req.kind = "reset"
      <4>1. answer' = Nobody
        BY <1>1, <1>7, <1>10, <2>3, <3>4 DEF IsCall
      <4>2. ~IsSent'
        BY <1>2, <2>1, <4>1 DEF IsSent
      <4>3. \A w \in Workers : Unsent(w)'
        BY <1>2, <1>13, <3>1, <3>4 DEF Unsent
      <4>4. QED
        BY <4>1, <4>2, <4>3
    <3>5. QED
      BY <3>2, <3>3, <3>4
  <2>4. ASSUME plan # <<>>, handling' # Nobody
        PROVE  \A w \in Workers : (Alive(w) => Unsent(w)') /\ fromWorker'[w] = <<>>
    <3>1. AllAlive /\ answer' = Nobody
      BY <1>1, <1>7, <1>10, <2>4
    <3>2. ~IsSent'
      BY <1>2, <2>1, <3>1 DEF IsSent
    <3>3. QED
      BY <1>2, <1>27, <2>3, <2>4, <3>1, <3>2
  <2>5. ASSUME answer' # Nobody
        PROVE  answer'.ok <=> AllAlive
    BY <1>7, <1>18, <2>5
  <2>6. QED
    BY <1>2, <1>19, <2>2, <2>3, <2>4, <2>5 DEF PhaseInv, AllAlive
<1>30. TensorsMatch'
  BY <1>2 DEF IInv, TensorsMatch
<1>31. SyncInv'
  <2>1. Past' = Past
    BY <1>2 DEF Past
  <2>2. \A w \in Workers : \A j : Loaded(w, j) => Loaded(w, j)'
    BY <1>2 DEF Loaded
  <2>3. handling' # Nobody => \A w \in Workers : fromWorker'[w] = <<>>
    BY <1>1, <1>2, <1>7, <1>27
  <2>4. ~(answer' # Nobody /\ answer'.ok /\ answer'.kind = "reset")
    BY <1>18 DEF IsCall
  <2>5. QED
    BY <1>2, <1>19, <2>1, <2>2, <2>3, <2>4 DEF IInv, SyncInv
<1>32. InferInv'
  <2>1. handling' # Nobody => \A w \in Workers : fromWorker'[w] = <<>>
    BY <1>1, <1>2, <1>7, <1>27
  <2>2. answer' # Nobody => Good(answer.items)'
    <3>1. \A i \in DOMAIN <<>> : FALSE
      OBVIOUS
    <3>2. QED
      BY <1>18, <3>1 DEF Good
  <2>3. QED
    BY <1>2, <2>1, <2>2 DEF IInv, InferInv, AllNew, Good
<1>33. AnswerInv'
  <2>1. ~(answer' # Nobody /\ answer'.kind = "infer" /\ answer'.ok)
    BY <1>18 DEF IsCall
  <2>2. result' = result /\ asks' = asks /\ asked' = asked
    BY <1>2
  <2>3. QED
    BY <2>1, <2>2 DEF IInv, AnswerInv, Ordered
<1>34. QED
  BY <1>20, <1>21, <1>22, <1>23, <1>24, <1>25, <1>26, <1>28, <1>29, <1>30, <1>31, <1>32, <1>33 DEF IInv

LEMMA CollectStep ==
  ASSUME IInv, Collect
  PROVE  IInv'
<1> DEFINE broken == {w \in Workers : ~Alive(w) /\ fromWorker[w] = <<>>}
           read == Before(broken)
           used == Used(handling)
           out == [w \in Workers |-> IF w \in used THEN Head(fromWorker[w]).items ELSE <<>>]
           good == broken = {} /\ \A w \in used : Head(fromWorker[w]).ok
           mine == handling.from = session /\ trainer = "ask"
<1>1. /\ handling # Nobody /\ handling' = Nobody
      /\ \A w \in read : fromWorker[w] # <<>>
      /\ fromWorker' = [w \in Workers |-> IF w \in read THEN Tail(fromWorker[w]) ELSE fromWorker[w]]
      /\ good => answer' = IF mine THEN [kind |-> handling.kind, ok |-> TRUE, items |-> FlattenSeq(out)]
                           ELSE Nobody
      /\ ~good => answer' = IF mine THEN [kind |-> handling.kind, ok |-> FALSE, items |-> <<>>]
                            ELSE Nobody
  BY Zenon DEF Collect, Respond
<1>2. /\ server' = server /\ pending' = pending /\ toWorker' = toWorker /\ trainer' = trainer
      /\ worker' = worker /\ command' = command /\ landed' = landed /\ comm' = comm
      /\ weight' = weight /\ cached' = cached
      /\ session' = session /\ own' = own /\ plan' = plan /\ update' = update
      /\ tensor' = tensor /\ version' = version /\ synced' = synced /\ asks' = asks /\ asked' = asked
      /\ result' = result /\ groups' = groups /\ crashes' = crashes /\ faults' = faults
  BY DEF Collect, workerVars, clientVars, ghosts
<1>3. /\ handling \in Requests(Prompts) /\ fromWorker \in [Workers -> Seq(Replies)] /\ session \in Nat
  BY <1>1 DEF IInv, TypesInv, PipeTypes, TrainerTypes
<1>4. /\ handling.kind \in Kinds /\ IsCall(handling.kind) /\ handling.from <= session /\ handling.from \in Nat
  BY <1>1, <1>3, RequestFacts DEF IInv, AskInv
<1>5. server = "up" /\ answer = Nobody
  BY <1>1 DEF IInv, StartInv, AskInv, Silent
<1>6. \A w \in Workers : Waiting(w) \/ Replied(w) \/ Lost(w)
  BY <1>1, <1>5 DEF IInv, ReplyInv
<1>7. broken = {} => \A w \in Workers : w \in read
  BY DEF Before
<1>8. broken # {} => ~AllAlive
  BY DEF AllAlive
<1>9. used \subseteq Workers /\ (handling.kind # "infer" => used = {})
      /\ \A w \in Workers : handling.kind = "infer" =>
           (w \in used <=> ChunkList(handling.data, NumWorkers)[w] # <<>>)
  BY DEF Used
<1>10. ASSUME broken = {}, NEW w \in Workers
       PROVE  /\ Replied(w) /\ fromWorker[w] # <<>> /\ Head(fromWorker[w]) = fromWorker[w][1]
              /\ fromWorker[w][1] \in Replies /\ fromWorker'[w] = <<>>
              /\ ~HasCall(toWorker[w])
  <2>1. fromWorker[w] # <<>> /\ w \in read
    BY <1>1, <1>7, <1>10
  <2>2. Replied(w)
    BY <1>6, <2>1 DEF Waiting, Lost
  <2>3. fromWorker[w] \in Seq(Replies) /\ Len(fromWorker[w]) = 1
    BY <1>3, <2>2 DEF Replied
  <2>4. Head(fromWorker[w]) = fromWorker[w][1] /\ fromWorker[w][1] \in Replies /\ Tail(fromWorker[w]) = <<>>
    BY <2>1, <2>3, TakeFirst
  <2>5. fromWorker'[w] = <<>>
    BY <1>1, <2>1, <2>4
  <2>6. QED
    BY <2>1, <2>2, <2>4, <2>5 DEF Replied
<1>11. mine => pending = <<>> /\ Ours(handling)
  <2> SUFFICES ASSUME mine PROVE pending = <<>> /\ Ours(handling)
    OBVIOUS
  <2>1. InHandler
    BY <1>1, <1>3, <1>4, <1>5 DEF IInv, AskInv, InPending
  <2>2. QED
    BY <2>1 DEF InHandler
<1>12. own # 0 => mine
  <2> SUFFICES ASSUME own # 0 PROVE mine
    OBVIOUS
  <2>1. Ours(handling)
    BY <1>1, HandledInSync
  <2>2. trainer = "ask"
    BY <1>1 DEF IInv, AskInv, Silent
  <2>3. QED
    BY <2>1, <2>2 DEF Ours
<1>13. fromWorker' \in [Workers -> Seq(Replies)]
  <2>1. \A w \in read : Tail(fromWorker[w]) \in Seq(Replies)
    <3>1. ASSUME NEW w \in read
          PROVE  Tail(fromWorker[w]) \in Seq(Replies)
      <4>1. w \in Workers /\ fromWorker[w] # <<>>
        BY <1>1 DEF Before
      <4>2. fromWorker[w] \in Seq(Replies)
        BY <1>3, <4>1
      <4>3. QED
        BY <4>1, <4>2, TakeFirst
    <3>2. QED
      BY <3>1
  <2> HIDE DEF read
  <2>2. QED
    BY <1>1, <1>3, <2>1
<1>14. good => out \in [Workers -> Seq(Outputs)]
  <2> SUFFICES ASSUME good PROVE out \in [Workers -> Seq(Outputs)]
    OBVIOUS
  <2>1. \A w \in Workers : Head(fromWorker[w]).items \in Seq(Outputs)
    BY <1>10 DEF Replies
  <2>2. <<>> \in Seq(Outputs)
    OBVIOUS
  <2> HIDE DEF used
  <2>3. QED
    BY <2>1, <2>2
<1> HIDE DEF broken, read, used
<1>15. good => /\ FlattenSeq(out) \in Seq(Outputs)
               /\ \A i \in DOMAIN FlattenSeq(out) : \E w \in Workers : \E j \in DOMAIN out[w] :
                    FlattenSeq(out)[i] = out[w][j]
  <2> SUFFICES ASSUME good
               PROVE  /\ FlattenSeq(out) \in Seq(Outputs)
                      /\ \A i \in DOMAIN FlattenSeq(out) : \E w \in Workers : \E j \in DOMAIN out[w] :
                           FlattenSeq(out)[i] = out[w][j]
    OBVIOUS
  <2>1. out \in [1..NumWorkers -> Seq(Outputs)] /\ NumWorkers \in Nat /\ Workers = 1..NumWorkers
    BY <1>14, ConstantFacts
  <2> HIDE DEF out
  <2>2. QED
    BY <2>1, FlattenMembers
<1>16. \A w \in Workers : out[w] = IF w \in used THEN Head(fromWorker[w]).items ELSE <<>>
  OBVIOUS
<1> HIDE DEF out
<1>17. <<>> \in Seq(Outputs) /\ \A i \in DOMAIN <<>> : FALSE
  <2>1. <<>> \in Seq(Outputs)
    OBVIOUS
  <2>2. QED
    BY <2>1
<1>18. /\ answer' \in Answers \cup {Nobody}
       /\ mine => answer' # Nobody
       /\ answer' # Nobody => /\ mine /\ answer'.kind = handling.kind /\ (answer'.ok <=> good)
                              /\ answer'.items = IF good THEN FlattenSeq(out) ELSE <<>>
  <2>1. CASE ~mine
    BY <1>1, <2>1
  <2>2. CASE mine
    <3> DEFINE yes == [kind |-> handling.kind, ok |-> TRUE, items |-> FlattenSeq(out)]
               no == [kind |-> handling.kind, ok |-> FALSE, items |-> <<>>]
    <3>1. /\ no \in Answers /\ no.kind = handling.kind /\ no.ok = FALSE /\ no.items = <<>>
          /\ yes.kind = handling.kind /\ yes.ok = TRUE /\ yes.items = FlattenSeq(out)
          /\ good => yes \in Answers
      BY <1>4, <1>15, <1>17 DEF Answers
    <3>2. (good => answer' = yes) /\ (~good => answer' = no)
      BY <1>1, <2>2
    <3> HIDE DEF yes, no, good, mine
    <3>3. CASE good
      BY <2>2, <3>1, <3>2, <3>3, SomeAnswer
    <3>4. CASE ~good
      BY <2>2, <3>1, <3>2, <3>4, SomeAnswer
    <3>5. QED
      BY <3>3, <3>4
  <2>3. QED
    BY <2>1, <2>2
<1>19. \A w \in Workers : Alive(w)' <=> Alive(w)
  BY <1>2 DEF Alive
<1>20. TypesInv'
  BY <1>1, <1>2, <1>13, <1>18 DEF IInv, TypesInv, PipeTypes, WorkerTypes, TrainerTypes
<1>21. AskInv'
  <2>1. answer' # Nobody => trainer' = "ask" /\ Silent' /\ Fits(answer.kind)'
    BY <1>1, <1>2, <1>11, <1>18 DEF Silent, Ours, Fits
  <2>2. ASSUME trainer' = "ask", answer' = Nobody
        PROVE  InPending'
    <3>1. handling.from # session
      BY <1>2, <1>18, <2>2
    <3>2. InPending
      BY <1>2, <1>5, <2>2, <3>1 DEF IInv, AskInv, InHandler, Ours
    <3>3. QED
      BY <1>1, <1>2, <3>2 DEF InPending, Ours, Fits
  <2>3. own' # 0 /\ trainer' # "ask" => Silent'
    BY <1>2, <1>12
  <2>4. trainer' \in {"join", "send"} => Silent'
    BY <1>1, <1>2 DEF IInv, AskInv, Silent
  <2>5. QED
    BY <1>1, <1>2, <2>1, <2>2, <2>3, <2>4 DEF IInv, AskInv, UpTo, Earlier
<1>22. PlaceInv'
  BY <1>2 DEF IInv, PlaceInv
<1>23. CloseInv'
  BY <1>2, <1>19 DEF IInv, CloseInv
<1>24. DoomInv'
  <2>1. \A w \in Workers : (Kept(w)' <=> Kept(w)) /\ (Free(w)' <=> Free(w))
    BY <1>2 DEF Kept, Free
  <2>2. QED
    BY <1>2, <1>19, <2>1 DEF IInv, DoomInv, Doomed, Clean
<1>25. QuietInv'
  BY <1>2, <1>5 DEF IInv, QuietInv
<1>26. StartInv'
  BY <1>2, <1>5 DEF StartInv
<1>27. ReplyInv'
  <2>1. AllAlive => broken = {}
    BY <1>8
  <2>2. answer' # Nobody /\ answer'.ok => broken = {}
    BY <1>18
  <2>3. QED
    BY <1>1, <1>2, <1>10, <1>19, <2>1, <2>2 DEF ReplyInv, AllAlive
<1>28. own # 0 /\ plan # <<>> => handling.kind = "reset" /\ update = 0
  BY <1>1, <1>4, HandledInSync DEF Ours, Fits, IsCall
<1>29. PhaseInv'
  <2> SUFFICES ASSUME own # 0 PROVE PhaseInv'
    BY <1>2 DEF PhaseInv
  <2>1. \A w \in Workers : (Done(w)' <=> Done(w)) /\ (Unsent(w)' <=> Unsent(w))
    BY <1>2 DEF Done, Free, Unsent
  <2>2. plan # <<>> => ~IsSent'
    BY <1>2, <1>28 DEF IsSent
  <2>3. plan # <<>> => \A w \in Workers : (Alive(w) => Unsent(w)) /\ (fromWorker[w] # <<>> => Done(w))
    BY <1>1 DEF IInv, PhaseInv
  <2>4. plan # <<>> /\ answer' # Nobody /\ ~answer'.ok => ~AllAlive
    <3>1. plan # <<>> => used = {}
      BY <1>9, <1>28
    <3>2. QED
      BY <1>8, <1>18, <3>1
  <2>5. plan # <<>> /\ answer' # Nobody /\ answer'.ok => \A w \in Workers : Done(w)
    BY <1>10, <1>18, <2>3
  <2>6. plan = <<>> => \A w \in Workers : Done(w)
    BY DEF IInv, PhaseInv
  <2>7. QED
    BY <1>1, <1>2, <1>19, <2>1, <2>2, <2>3, <2>4, <2>5, <2>6 DEF PhaseInv, AllAlive
<1>30. TensorsMatch'
  BY <1>2 DEF IInv, TensorsMatch
<1>31. SyncInv'
  <2>1. Past' = Past
    BY <1>2 DEF Past
  <2>2. \A w \in Workers : \A j : Loaded(w, j) => Loaded(w, j)'
    BY <1>2 DEF Loaded
  <2>3. \A w \in Workers : Fresh(w) => Fresh(w)'
    BY <1>2 DEF Fresh, AllNew
  <2>4. answer' # Nobody /\ answer'.ok => \A w \in Workers : fromWorker[w] # <<>>
    BY <1>10, <1>18
  <2>5. QED
    BY <1>1, <1>2, <1>19, <2>1, <2>2, <2>3, <2>4 DEF IInv, SyncInv
<1>32. InferInv'
  <2> SUFFICES ASSUME faults = 0, plan = <<>>, synced # 0 PROVE InferInv'
    BY <1>2 DEF InferInv
  <2>1. \A x : Good(x) => Good(x)'
    BY <1>2 DEF Good, AllNew
  <2>2. answer' # Nobody => Good(answer.items)'
    <3>1. ASSUME good
          PROVE  Good(FlattenSeq(out))
      <4> SUFFICES ASSUME NEW i \in DOMAIN FlattenSeq(out)
                   PROVE  ~FlattenSeq(out)[i].stale /\ AllNew(FlattenSeq(out)[i].weight)
        BY DEF Good
      <4>1. PICK w \in Workers : \E j \in DOMAIN out[w] : FlattenSeq(out)[i] = out[w][j]
        BY <1>15, <3>1
      <4>2. PICK j \in DOMAIN out[w] : FlattenSeq(out)[i] = out[w][j]
        BY <4>1
      <4>3. out[w] = Head(fromWorker[w]).items
        BY <1>16, <1>17, <4>2
      <4>4. fromWorker[w] # <<>> /\ out[w] = fromWorker[w][1].items
        BY <1>10, <3>1, <4>3
      <4>5. Good(fromWorker[w][1].items)
        BY <1>1, <4>4 DEF IInv, InferInv
      <4>6. QED
        BY <4>2, <4>4, <4>5 DEF Good
    <3>2. Good(<<>>)
      BY <1>17 DEF Good
    <3>3. answer' # Nobody => answer'.items = FlattenSeq(out) \/ answer'.items = <<>>
      BY <1>18
    <3> HIDE DEF good
    <3>4. answer' # Nobody => Good(answer'.items)
      BY <1>18, <3>1, <3>2
    <3>5. QED
      BY <1>2, <3>4 DEF Good, AllNew
  <2>3. QED
    BY <1>1, <1>2, <2>1, <2>2 DEF IInv, InferInv, AllNew, Good
<1>33. AnswerInv'
  <2>1. ASSUME answer' # Nobody, handling.kind = "infer", good
        PROVE  Ordered(FlattenSeq(out))
    <3>1. OutputsOf(out, handling)
      <4> SUFFICES ASSUME NEW w \in Workers
                   PROVE  LET chunk == ChunkList(handling.data, NumWorkers)[w]
                          IN  /\ Len(out[w]) = Len(chunk)
                              /\ \A j \in 1..Len(chunk) : out[w][j].prompt = chunk[j]
        BY DEF OutputsOf
      <4> DEFINE chunk == ChunkList(handling.data, NumWorkers)[w]
      <4>1. CASE w \in used
        <5>1. out[w] = fromWorker[w][1].items /\ fromWorker[w][1].ok /\ Replied(w)
          BY <1>10, <1>16, <2>1, <4>1
        <5>2. CommandFor(handling, w).data = chunk
          BY <1>3, <2>1, <4>1, CommandFacts DEF used
        <5>3. /\ Len(out[w]) = Len(CommandFor(handling, w).data)
              /\ \A i \in DOMAIN out[w] : out[w][i].prompt = CommandFor(handling, w).data[i]
          BY <2>1, <5>1 DEF Replied, Matches
        <5>4. DOMAIN out[w] = 1..Len(out[w])
          BY <1>14, <2>1
        <5>5. QED
          BY <5>2, <5>3, <5>4
      <4>2. CASE w \notin used
        <5>1. out[w] = <<>> /\ chunk = <<>>
          BY <1>9, <1>16, <2>1, <4>2
        <5> HIDE DEF chunk
        <5>2. Len(out[w]) = Len(chunk) /\ \A j \in 1..Len(chunk) : out[w][j].prompt = chunk[j]
          BY <5>1
        <5>3. QED
          BY <5>2 DEF chunk
      <4>3. QED
        BY <4>1, <4>2
    <3>2. out \in [Workers -> Seq(Outputs)]
      BY <1>14, <2>1
    <3>3. /\ Len(FlattenSeq(out)) = Len(handling.data)
          /\ \A i \in DOMAIN FlattenSeq(out) :
               i \in DOMAIN handling.data /\ FlattenSeq(out)[i].prompt = handling.data[i]
      BY <1>3, <2>1, <3>1, <3>2, InOrder
    <3>4. handling.data = [i \in 1..asked |-> <<asks, i>>] /\ asked \in Nat
      BY <1>11, <1>18, <2>1 DEF Ours, IInv, TypesInv, TrainerTypes
    <3>5. Len(handling.data) = asked /\ \A i \in DOMAIN handling.data : handling.data[i] = <<asks, i>>
      BY <3>4
    <3>6. QED
      BY <3>3, <3>5 DEF Ordered
  <2>2. answer' # Nobody /\ answer'.kind = "infer" /\ answer'.ok => Ordered(answer.items)'
    <3> HIDE DEF good
    <3>1. ASSUME answer' # Nobody, answer'.kind = "infer", answer'.ok
          PROVE  Ordered(answer'.items)
      BY <1>18, <2>1, <3>1
    <3>2. QED
      BY <1>2, <3>1 DEF Ordered
  <2>3. QED
    BY <1>2, <2>2 DEF IInv, AnswerInv, Ordered
<1>34. QED
  BY <1>20, <1>21, <1>22, <1>23, <1>24, <1>25, <1>26, <1>27, <1>29, <1>30, <1>31, <1>32, <1>33 DEF IInv

-----------------------------------------------------------------------------
(* The trainer.                                                            *)

\* The request goes to the end of the queue, after those of earlier trainers.
LEMMA PostUpTo ==
  ASSUME NEW S, NEW q \in Seq(S), NEW x \in S, NEW n \in Nat, x.from = n, Earlier(q, n),
         \A y \in S : y.from \in Nat
  PROVE  /\ UpTo(Append(q, x), n) /\ Append(q, x)[Len(Append(q, x))] = x
         /\ q = <<>> => Len(Append(q, x)) = 1
<1>1. /\ Append(q, x) # <<>> /\ Len(Append(q, x)) = Len(q) + 1 /\ Len(q) \in Nat
      /\ Append(q, x)[Len(q) + 1] = x
      /\ DOMAIN Append(q, x) = DOMAIN q \cup {Len(q) + 1}
      /\ \A i \in DOMAIN q : Append(q, x)[i] = q[i] /\ i # Len(q) + 1
  BY PutLast
<1>2. \A i \in DOMAIN q : q[i].from \in Nat
  OBVIOUS
<1> DEFINE a == Append(q, x)
<1> HIDE DEF a
<1>3. UpTo(a, n)
  BY <1>1, <1>2 DEF Earlier, UpTo, a
<1>4. QED
  BY <1>1, <1>3 DEF a

\* What stays when the trainer acts alone.
LEMMA UnaskedFacts ==
  ASSUME IInv, Unasked
  PROVE  /\ server' = server /\ handling' = handling /\ toWorker' = toWorker /\ fromWorker' = fromWorker
         /\ worker' = worker /\ command' = command /\ landed' = landed /\ comm' = comm
         /\ weight' = weight /\ cached' = cached /\ crashes' = crashes /\ faults' = faults
         /\ (AllAlive' <=> AllAlive)
         /\ \A w \in Workers : /\ Alive(w)' <=> Alive(w)
                               /\ Free(w)' <=> Free(w)
                               /\ Done(w)' <=> Done(w)
                               /\ Unsent(w)' <=> Unsent(w)
         /\ QuietInv'
         /\ answer' \in {answer, Nobody} => ReplyInv'
         /\ version' = version => TensorsMatch'
<1>1. /\ server' = server /\ handling' = handling /\ toWorker' = toWorker /\ fromWorker' = fromWorker
      /\ worker' = worker /\ command' = command /\ landed' = landed /\ comm' = comm
      /\ weight' = weight /\ cached' = cached /\ crashes' = crashes /\ faults' = faults
  BY DEF Unasked, workerVars
<1>2. \A w \in Workers : Alive(w)' <=> Alive(w)
  BY <1>1 DEF Alive
<1>3. \A w \in Workers : (Free(w)' <=> Free(w)) /\ (Done(w)' <=> Done(w)) /\ (Unsent(w)' <=> Unsent(w))
  BY <1>1 DEF Free, Done, Unsent
<1>4. QuietInv'
  BY <1>1 DEF IInv, QuietInv
<1>5. answer' \in {answer, Nobody} => ReplyInv'
  <2>1. \A w \in Workers : (Waiting(w)' <=> Waiting(w)) /\ (Replied(w)' <=> Replied(w)) /\ (Lost(w)' <=> Lost(w))
    BY <1>1, <1>2 DEF Waiting, Replied, Lost
  <2>2. QED
    BY <1>1, <1>2, <2>1 DEF IInv, ReplyInv, AllAlive
<1>6. version' = version => TensorsMatch'
  BY <1>1 DEF IInv, TensorsMatch
<1>7. AllAlive' <=> AllAlive
  BY <1>2 DEF AllAlive
<1>8. QED
  BY <1>1, <1>2, <1>3, <1>4, <1>5, <1>6, <1>7

\* A trainer that is there has found the server up.
LEMMA TrainerThere ==
  ASSUME IInv, trainer # "off"
  PROVE  server = "up"
BY DEF IInv, StartInv

LEMMA StartTrainerStep ==
  ASSUME IInv, StartTrainer
  PROVE  IInv'
<1>1. /\ trainer = "off" /\ server = "up" /\ session' = session + 1 /\ trainer' = "idle"
      /\ pending' = pending /\ own' = own /\ plan' = plan /\ update' = update /\ tensor' = tensor
      /\ version' = version /\ synced' = synced /\ asks' = asks /\ asked' = asked /\ result' = result
      /\ answer' = answer /\ groups' = groups
      /\ Unasked
  BY DEF StartTrainer
<1>2. /\ server' = server /\ handling' = handling /\ toWorker' = toWorker /\ fromWorker' = fromWorker
      /\ worker' = worker /\ command' = command /\ landed' = landed /\ comm' = comm
      /\ weight' = weight /\ cached' = cached /\ crashes' = crashes /\ faults' = faults
      /\ \A w \in Workers : (Alive(w)' <=> Alive(w)) /\ (Free(w)' <=> Free(w))
      /\ QuietInv' /\ ReplyInv' /\ TensorsMatch'
  BY <1>1, UnaskedFacts
<1>3. own = 0 /\ plan = <<>> /\ synced = 0 /\ answer = Nobody
  BY <1>1 DEF IInv, PlaceInv, AskInv
<1>4. session \in Nat
  BY DEF IInv, TypesInv, TrainerTypes
<1>5. TypesInv'
  BY <1>1, <1>2, <1>4 DEF IInv, TypesInv, PipeTypes, WorkerTypes, TrainerTypes
<1>6. AskInv'
  <2>1. \A i \in DOMAIN pending : pending[i].from \in Nat /\ pending[i].from <= session
    <3>1. \A i \in DOMAIN pending : pending[i] \in Requests(Prompts)
      BY DEF IInv, TypesInv, PipeTypes
    <3>2. QED
      BY <3>1, RequestFacts DEF IInv, AskInv, UpTo
  <2>2. handling # Nobody => handling.from \in Nat /\ handling.from <= session
    BY RequestFacts DEF IInv, TypesInv, PipeTypes, AskInv
  <2>3. UpTo(pending, session)' /\ Earlier(pending, session)'
    BY <1>1, <1>4, <2>1 DEF UpTo, Earlier
  <2>4. QED
    BY <1>1, <1>2, <1>3, <1>4, <2>2, <2>3 DEF IInv, AskInv
<1>7. PlaceInv' /\ StartInv'
  BY <1>1, <1>2, <1>3 DEF PlaceInv, StartInv
<1>8. CloseInv'
  BY <1>1, <1>2 DEF IInv, CloseInv
<1>9. DoomInv'
  <2>1. \A w \in Workers : Kept(w)' <=> Kept(w)
    BY <1>1, <1>2 DEF Kept
  <2>2. QED
    BY <1>1, <1>2, <2>1 DEF IInv, DoomInv, Doomed, Clean
<1>10. PhaseInv' /\ SyncInv' /\ InferInv'
  BY <1>1, <1>3 DEF PhaseInv, SyncInv, InferInv
<1>11. AnswerInv'
  BY <1>1 DEF IInv, AnswerInv, Ordered
<1>12. QED
  BY <1>2, <1>5, <1>6, <1>7, <1>8, <1>9, <1>10, <1>11 DEF IInv

\* The trainer posts a request, which no request of it is ahead of.
LEMMA Posted ==
  ASSUME IInv, NEW kind, NEW data, Post(kind, data), Unasked,
         session' = session, answer' = Nobody,
         Earlier(pending, session), handling # Nobody => handling.from < session,
         \/ kind \in {"init", "reset", "close"} /\ data = <<>>
         \/ kind = "update" /\ data \in Seq(Params) \ {<<>>}
         \/ kind = "infer" /\ data \in Seq(Prompts),
         \A req : req.from = session /\ req.kind = kind /\ req.data = data => Ours(req)',
         own' # 0 => Silent
  PROVE  /\ pending' \in Seq(Requests(Prompts)) /\ trainer' = "ask"
         /\ AskInv'
         /\ \A k : Has(pending', k) <=> Has(pending, k) \/ kind = k
         /\ \A k : OnceAtMost(pending, k) /\ ~(Has(pending, k) /\ kind = k) => OnceAtMost(pending', k)
<1> DEFINE req == Request(kind, data)
<1>1. pending' = Append(pending, req) /\ trainer' = "ask" /\ handling' = handling
  BY UnaskedFacts DEF Post
<1>2. session \in Nat /\ pending \in Seq(Requests(Prompts))
  BY DEF IInv, TypesInv, PipeTypes, TrainerTypes
<1>3. /\ req \in Requests(Prompts)
      /\ req.kind = kind /\ req.from = session /\ req.data = data
  BY <1>2, MakeRequest
<1> HIDE DEF req
<1>4. \A y \in Requests(Prompts) : y.from \in Nat
  BY RequestFacts
<1>5. /\ UpTo(pending', session) /\ pending'[Len(pending')] = req
      /\ pending = <<>> => Len(pending') = 1
  BY <1>1, <1>2, <1>3, <1>4, PostUpTo
<1>6. /\ pending' \in Seq(Requests(Prompts)) /\ pending' # <<>>
      /\ \A k : Has(pending', k) <=> Has(pending, k) \/ req.kind = k
      /\ \A k : OnceAtMost(pending, k) /\ ~(Has(pending, k) /\ req.kind = k) => OnceAtMost(pending', k)
  BY <1>1, <1>2, <1>3, PutIn
<1>7. Ours(pending[Len(pending)])'
  BY <1>3, <1>5 DEF Ours, Fits
<1>8. InPending'
  BY <1>1, <1>5, <1>6, <1>7 DEF InPending, Silent
<1>9. AskInv'
  <2>1. handling # Nobody => IsCall(handling.kind) /\ handling.from <= session
    BY DEF IInv, AskInv
  <2>2. QED
    BY <1>1, <1>5, <1>8, <2>1 DEF AskInv
<1>10. QED
  BY <1>1, <1>3, <1>6, <1>9

LEMMA AskInitStep ==
  ASSUME IInv, AskInit
  PROVE  IInv'
<1>1. /\ trainer = "idle" /\ own = 0 /\ Post("init", <<>>) /\ Unasked
      /\ session' = session /\ own' = own /\ plan' = plan /\ update' = update /\ tensor' = tensor
      /\ version' = version /\ synced' = synced /\ asks' = asks /\ asked' = asked /\ result' = result
      /\ answer' = answer /\ groups' = groups
  BY DEF AskInit, clientVars
<1>2. /\ server' = server /\ handling' = handling /\ toWorker' = toWorker /\ fromWorker' = fromWorker
      /\ worker' = worker /\ command' = command /\ landed' = landed /\ comm' = comm
      /\ weight' = weight /\ cached' = cached /\ crashes' = crashes /\ faults' = faults
      /\ \A w \in Workers : (Alive(w)' <=> Alive(w)) /\ (Free(w)' <=> Free(w))
      /\ QuietInv' /\ ReplyInv' /\ TensorsMatch'
  BY <1>1, UnaskedFacts
<1>3. /\ answer = Nobody /\ Earlier(pending, session) /\ (handling # Nobody => handling.from < session)
      /\ plan = <<>> /\ synced = 0 /\ server = "up"
  BY <1>1, TrainerThere DEF IInv, PlaceInv, AskInv
<1>4. \A req : req.from = session /\ req.kind = "init" /\ req.data = <<>> => Ours(req)'
  BY <1>1 DEF Ours, Fits
<1>5. /\ pending' \in Seq(Requests(Prompts)) /\ trainer' = "ask"
      /\ AskInv'
      /\ \A k : Has(pending', k) <=> Has(pending, k) \/ "init" = k
      /\ \A k : OnceAtMost(pending, k) /\ ~(Has(pending, k) /\ "init" = k) => OnceAtMost(pending', k)
  BY <1>1, <1>3, <1>4, Posted
<1>6. TypesInv'
  BY <1>1, <1>2, <1>5 DEF IInv, TypesInv, PipeTypes, WorkerTypes, TrainerTypes
<1>7. PlaceInv' /\ StartInv'
  BY <1>1, <1>2, <1>3, <1>5 DEF PlaceInv, StartInv
<1>8. CloseInv'
  BY <1>1, <1>2, <1>5 DEF IInv, CloseInv
<1>9. DoomInv'
  <2>1. \A w \in Workers : Kept(w)' <=> Kept(w)
    BY <1>2, <1>5 DEF Kept
  <2>2. QED
    BY <1>1, <1>2, <1>5, <2>1 DEF IInv, DoomInv, Doomed, Clean
<1>10. PhaseInv' /\ SyncInv' /\ InferInv'
  BY <1>1, <1>3 DEF PhaseInv, SyncInv, InferInv
<1>11. AnswerInv'
  BY <1>1 DEF IInv, AnswerInv, Ordered
<1>12. QED
  BY <1>2, <1>5, <1>6, <1>7, <1>8, <1>9, <1>10, <1>11 DEF IInv

LEMMA AskSyncStep ==
  ASSUME IInv, AskSync
  PROVE  IInv'
<1>1. PICK p \in Plans : plan' = p /\ Post("update", p[1])
  BY DEF AskSync
<1>2. /\ trainer = "idle" /\ own # 0 /\ version < MaxVersion /\ version' = version + 1 /\ update' = 1
      /\ result' = Nobody
      /\ session' = session /\ own' = own /\ tensor' = tensor /\ synced' = synced /\ asks' = asks /\ asked' = asked
      /\ answer' = answer /\ groups' = groups
      /\ Unasked
  BY DEF AskSync
<1>3. /\ server' = server /\ handling' = handling /\ toWorker' = toWorker /\ fromWorker' = fromWorker
      /\ worker' = worker /\ command' = command /\ landed' = landed /\ comm' = comm
      /\ weight' = weight /\ cached' = cached /\ crashes' = crashes /\ faults' = faults
      /\ \A w \in Workers : (Alive(w)' <=> Alive(w)) /\ (Unsent(w)' <=> Unsent(w))
      /\ QuietInv' /\ ReplyInv'
  BY <1>2, UnaskedFacts
<1>4. /\ answer = Nobody /\ Earlier(pending, session) /\ (handling # Nobody => handling.from < session)
      /\ plan = <<>> /\ server = "up" /\ Silent
  BY <1>2, TrainerThere DEF IInv, PlaceInv, AskInv
<1>5. p \in Seq(Seq(Params) \ {<<>>}) /\ p # <<>> /\ 1 \in DOMAIN p /\ p[1] \in Seq(Params) \ {<<>>}
  <2>1. p \in Seq(Seq(Params) \ {<<>>}) /\ p # <<>>
    BY ConstantFacts
  <2>2. QED
    BY <2>1
<1>6. \A req : req.from = session /\ req.kind = "update" /\ req.data = p[1] => Ours(req)'
  BY <1>1, <1>2, <1>5 DEF Ours, Fits
<1>7. /\ pending' \in Seq(Requests(Prompts)) /\ trainer' = "ask"
      /\ AskInv'
      /\ \A k : Has(pending', k) <=> Has(pending, k) \/ "update" = k
      /\ \A k : OnceAtMost(pending, k) /\ ~(Has(pending, k) /\ "update" = k) => OnceAtMost(pending', k)
  BY <1>1, <1>2, <1>4, <1>5, <1>6, Posted
<1>8. \A w \in Workers : Done(w)
  BY <1>2, <1>4 DEF IInv, PhaseInv
<1>9. TypesInv'
  <2>1. version' \in 0..MaxVersion /\ synced' \in 0..version'
    BY <1>2, ConstantFacts DEF IInv, TypesInv, TrainerTypes
  <2>2. QED
    BY <1>1, <1>2, <1>3, <1>7, <2>1 DEF IInv, TypesInv, PipeTypes, WorkerTypes, TrainerTypes
<1>10. PlaceInv' /\ StartInv'
  BY <1>2, <1>3, <1>4, <1>7 DEF PlaceInv, StartInv
<1>11. CloseInv'
  BY <1>2, <1>3, <1>7 DEF IInv, CloseInv
<1>12. DoomInv'
  BY <1>2 DEF DoomInv
<1>13. PhaseInv'
  <2>1. \A w \in Workers : Alive(w) => Unsent(w)
    BY <1>8 DEF Done, Free, Unsent, Alive
  <2>2. ~IsSent' /\ handling' = Nobody /\ answer' = Nobody /\ plan' # <<>>
    BY <1>1, <1>2, <1>3, <1>4, <1>5, <1>7 DEF IsSent, Silent
  <2>3. QED
    BY <1>3, <2>1, <2>2 DEF PhaseInv, AllAlive
<1>14. TensorsMatch'
  <2>1. \A i \in DOMAIN <<>> : FALSE
    OBVIOUS
  <2>2. \A w \in Workers : landed'[w] = <<>>
    BY <1>3, <1>8 DEF Done, Free
  <2>3. QED
    BY <2>1, <2>2 DEF TensorsMatch
<1>15. SyncInv'
  <2>1. \A j \in Past' : FALSE
    BY <1>2 DEF Past
  <2>2. QED
    BY <1>2, <1>3, <1>4, <2>1 DEF SyncInv, Silent
<1>16. InferInv'
  BY <1>1, <1>5 DEF InferInv
<1>17. AnswerInv'
  BY <1>2, <1>4 DEF AnswerInv
<1>18. QED
  BY <1>3, <1>7, <1>9, <1>10, <1>11, <1>12, <1>13, <1>14, <1>15, <1>16, <1>17 DEF IInv

LEMMA AskInferStep ==
  ASSUME IInv, AskInfer
  PROVE  IInv'
<1>1. PICK n \in Sizes : asked' = n /\ Post("infer", [i \in 1..n |-> <<asks + 1, i>>])
  BY DEF AskInfer
<1> DEFINE d == [i \in 1..n |-> <<asks + 1, i>>]
<1>2. /\ trainer = "idle" /\ asks < MaxAsks /\ asks' = asks + 1 /\ result' = Nobody
      /\ session' = session /\ own' = own /\ plan' = plan /\ update' = update /\ tensor' = tensor
      /\ version' = version /\ synced' = synced
      /\ answer' = answer /\ groups' = groups
      /\ Unasked
  BY DEF AskInfer
<1>3. /\ server' = server /\ handling' = handling /\ toWorker' = toWorker /\ fromWorker' = fromWorker
      /\ worker' = worker /\ command' = command /\ landed' = landed /\ comm' = comm
      /\ weight' = weight /\ cached' = cached /\ crashes' = crashes /\ faults' = faults
      /\ \A w \in Workers : (Alive(w)' <=> Alive(w)) /\ (Free(w)' <=> Free(w)) /\ (Done(w)' <=> Done(w))
      /\ QuietInv' /\ ReplyInv' /\ TensorsMatch'
  BY <1>2, UnaskedFacts
<1>4. /\ answer = Nobody /\ Earlier(pending, session) /\ (handling # Nobody => handling.from < session)
      /\ plan = <<>> /\ server = "up" /\ (own # 0 => Silent)
  BY <1>2, TrainerThere DEF IInv, PlaceInv, AskInv
<1>5. d \in Seq(Prompts)
  <2>1. n \in Nat /\ asks + 1 \in 1..MaxAsks
    BY <1>2, ConstantFacts DEF IInv, TypesInv, TrainerTypes
  <2>2. \A i \in 1..n : <<asks + 1, i>> \in Prompts
    BY <2>1 DEF Prompts
  <2>3. d \in [1..n -> Prompts]
    BY <2>2
  <2>4. QED
    BY <2>1, <2>3
<1>6. \A req : req.from = session /\ req.kind = "infer" /\ req.data = d => Ours(req)'
  BY <1>1, <1>2, <1>4 DEF Ours, Fits
<1> HIDE DEF d
<1>7. /\ pending' \in Seq(Requests(Prompts)) /\ trainer' = "ask"
      /\ AskInv'
      /\ \A k : Has(pending', k) <=> Has(pending, k) \/ "infer" = k
      /\ \A k : OnceAtMost(pending, k) /\ ~(Has(pending, k) /\ "infer" = k) => OnceAtMost(pending', k)
  <2>1. Post("infer", d)
    BY <1>1 DEF d
  <2>2. QED
    BY <1>2, <1>4, <1>5, <1>6, <2>1, Posted
<1>8. TypesInv'
  <2>1. asks' \in 0..MaxAsks /\ asked' \in Nat
    BY <1>1, <1>2, ConstantFacts DEF IInv, TypesInv, TrainerTypes
  <2>2. QED
    BY <1>2, <1>3, <1>7, <2>1 DEF IInv, TypesInv, PipeTypes, WorkerTypes, TrainerTypes
<1>9. PlaceInv' /\ StartInv'
  BY <1>2, <1>3, <1>4, <1>7 DEF IInv, PlaceInv, StartInv
<1>10. CloseInv'
  BY <1>2, <1>3, <1>7 DEF IInv, CloseInv
<1>11. DoomInv'
  <2>1. \A w \in Workers : Kept(w)' <=> Kept(w)
    BY <1>3, <1>7 DEF Kept
  <2>2. QED
    BY <1>2, <1>3, <1>7, <2>1 DEF IInv, DoomInv, Doomed, Clean
<1>12. PhaseInv'
  BY <1>2, <1>3, <1>4 DEF IInv, PhaseInv
<1>13. SyncInv'
  BY <1>2, <1>4 DEF SyncInv
<1>14. InferInv'
  BY <1>2, <1>3, <1>4 DEF IInv, InferInv, AllNew, Good
<1>15. AnswerInv'
  BY <1>2, <1>4 DEF AnswerInv
<1>16. QED
  BY <1>3, <1>7, <1>8, <1>9, <1>10, <1>11, <1>12, <1>13, <1>14, <1>15 DEF IInv

\* The trainer leaves: after an exception, or because it is done.
LEMMA LeaveStep ==
  ASSUME IInv, Leave, Unasked,
         session' = session, version' = version, asks' = asks, asked' = asked, groups' = groups, answer' = Nobody,
         trainer = "idle" \/ (trainer = "ask" /\ answer # Nobody /\ ~answer.ok)
  PROVE  IInv'
<1>1. /\ own' = 0 /\ synced' = 0 /\ plan' = <<>> /\ update' = 0 /\ tensor' = 0 /\ result' = Nobody
      /\ IF own # 0 THEN Post("close", <<>>) ELSE trainer' = "off" /\ pending' = pending
  BY DEF Leave
<1>2. /\ server' = server /\ handling' = handling /\ toWorker' = toWorker /\ fromWorker' = fromWorker
      /\ worker' = worker /\ command' = command /\ landed' = landed /\ comm' = comm
      /\ weight' = weight /\ cached' = cached /\ crashes' = crashes /\ faults' = faults
      /\ \A w \in Workers : (Alive(w)' <=> Alive(w)) /\ (Free(w)' <=> Free(w))
      /\ QuietInv' /\ ReplyInv' /\ TensorsMatch'
  BY UnaskedFacts
<1>3. /\ server = "up" /\ (own # 0 => Silent)
      /\ trainer = "idle" => Earlier(pending, session) /\ (handling # Nobody => handling.from < session)
      /\ trainer # "idle" => Silent
  BY TrainerThere DEF IInv, AskInv
<1>4. /\ Earlier(pending, session) /\ (handling # Nobody => handling.from < session)
  BY <1>3, EmptyPipe DEF Silent
<1>5. \A req : req.from = session /\ req.kind = "close" /\ req.data = <<>> => Ours(req)'
  BY <1>1 DEF Ours, Fits
<1>6. own # 0 => /\ pending' \in Seq(Requests(Prompts)) /\ trainer' = "ask" /\ AskInv'
                 /\ \A k : Has(pending', k) <=> "close" = k
                 /\ OnceAtMost(pending', "close")
  <2> SUFFICES ASSUME own # 0
               PROVE  /\ pending' \in Seq(Requests(Prompts)) /\ trainer' = "ask" /\ AskInv'
                      /\ \A k : Has(pending', k) <=> "close" = k
                      /\ OnceAtMost(pending', "close")
    OBVIOUS
  <2>1. pending = <<>>
    BY <1>3 DEF Silent
  <2>2. /\ pending' \in Seq(Requests(Prompts)) /\ trainer' = "ask"
        /\ AskInv'
        /\ \A k : Has(pending', k) <=> Has(pending, k) \/ "close" = k
        /\ \A k : OnceAtMost(pending, k) /\ ~(Has(pending, k) /\ "close" = k) => OnceAtMost(pending', k)
    BY <1>1, <1>4, <1>5, Posted
  <2>3. QED
    BY <2>1, <2>2, EmptyPipe
<1>7. AskInv'
  <2>1. CASE own = 0
    BY <1>1, <1>2, <2>1 DEF IInv, AskInv, UpTo
  <2>2. QED
    BY <1>6, <2>1
<1>8. TypesInv'
  <2>1. pending' \in Seq(Requests(Prompts)) /\ trainer' \in {"off", "ask"}
    BY <1>1, <1>6 DEF IInv, TypesInv, PipeTypes
  <2>2. 0 \in 0..groups /\ 0 \in 0..version
    BY DEF IInv, TypesInv, TrainerTypes
  <2>3. QED
    BY <1>1, <1>2, <2>1, <2>2 DEF IInv, TypesInv, PipeTypes, WorkerTypes, TrainerTypes
<1>9. PlaceInv' /\ StartInv'
  BY <1>1, <1>2, <1>3, <1>6 DEF PlaceInv, StartInv
<1>10. CloseInv'
  <2>1. CASE own = 0
    BY <1>1, <1>2, <2>1 DEF IInv, CloseInv
  <2>2. CASE own # 0
    BY <1>1, <1>2, <1>6, <2>2 DEF IInv, CloseInv
  <2>3. QED
    BY <2>1, <2>2
<1>11. DoomInv'
  <2>1. CASE own = 0
    <3>1. \A w \in Workers : Kept(w)' <=> Kept(w)
      BY <1>1, <1>2, <2>1 DEF Kept
    <3>2. QED
      BY <1>1, <1>2, <2>1, <3>1 DEF IInv, DoomInv, Doomed, Clean
  <2>2. CASE own # 0 /\ plan = <<>>
    <3>1. \A w \in Workers : Free(w)
      BY <2>2 DEF IInv, PhaseInv, Done
    <3>2. QED
      BY <1>2, <1>6, <2>2, <3>1 DEF DoomInv, Clean
  <2>3. CASE own # 0 /\ plan # <<>>
    <3>1. trainer = "ask" /\ answer # Nobody /\ ~answer.ok
      BY <2>3 DEF IInv, PlaceInv
    <3>2. ~AllAlive
      BY <2>3, <3>1 DEF IInv, PhaseInv
    <3>3. QED
      BY <1>2, <3>2 DEF DoomInv, Doomed, AllAlive
  <2>4. QED
    BY <2>1, <2>2, <2>3
<1>12. PhaseInv' /\ SyncInv' /\ InferInv' /\ AnswerInv'
  BY <1>1 DEF PhaseInv, SyncInv, InferInv, AnswerInv
<1>13. QED
  BY <1>2, <1>7, <1>8, <1>9, <1>10, <1>11, <1>12 DEF IInv

LEMMA ExitStep ==
  ASSUME IInv, Exit
  PROVE  IInv'
<1>1. /\ trainer = "idle" /\ Leave /\ Unasked
      /\ session' = session /\ version' = version /\ asks' = asks /\ asked' = asked /\ groups' = groups
      /\ answer' = answer
  BY DEF Exit
<1>2. answer' = Nobody
  BY <1>1 DEF IInv, AskInv
<1>3. QED
  BY <1>1, <1>2, LeaveStep

\* The trainer goes on with what it was answered.
LEMMA ReceiveStep ==
  ASSUME IInv, Receive
  PROVE  IInv'
<1>1. /\ trainer = "ask" /\ answer # Nobody /\ answer' = Nobody /\ Unasked
      /\ session' = session /\ version' = version /\ asks' = asks /\ asked' = asked /\ groups' = groups
  BY DEF Receive
<1>2. /\ server' = server /\ handling' = handling /\ toWorker' = toWorker /\ fromWorker' = fromWorker
      /\ worker' = worker /\ command' = command /\ landed' = landed /\ comm' = comm
      /\ weight' = weight /\ cached' = cached /\ crashes' = crashes /\ faults' = faults
      /\ (AllAlive' <=> AllAlive)
      /\ \A w \in Workers : (Alive(w)' <=> Alive(w)) /\ (Free(w)' <=> Free(w)) /\ (Done(w)' <=> Done(w))
      /\ QuietInv' /\ ReplyInv' /\ TensorsMatch'
  BY <1>1, UnaskedFacts
<1>3. Silent /\ Fits(answer.kind) /\ server = "up"
  BY <1>1, TrainerThere DEF IInv, AskInv
<1>4. answer \in Answers
  BY <1>1 DEF IInv, TypesInv, TrainerTypes
<1>5. answer.kind \in Kinds /\ answer.ok \in BOOLEAN /\ answer.items \in Seq(Outputs)
  BY <1>4 DEF Answers
<1>6. CASE answer.kind # "close" /\ ~answer.ok
  <2>1. Leave
    BY <1>6 DEF Receive
  <2>2. QED
    BY <1>1, <1>6, <2>1, LeaveStep
<1>7. CASE answer.kind = "close" \/ answer.ok
  <2>1. \/ answer.kind = "close" /\ trainer' = "off"
           /\ UNCHANGED <<pending, own, plan, update, tensor, synced, result>>
        \/ answer.kind = "init" /\ trainer' = "join"
           /\ UNCHANGED <<pending, own, plan, update, tensor, synced, result>>
        \/ answer.kind = "update" /\ answer.ok /\ trainer' = "send" /\ tensor' = 1
           /\ UNCHANGED <<pending, own, plan, update, synced, result>>
        \/ answer.kind = "reset" /\ answer.ok /\ trainer' = "idle" /\ synced' = version /\ plan' = <<>>
           /\ UNCHANGED <<pending, own, update, tensor, result>>
        \/ answer.kind = "infer" /\ answer.ok /\ trainer' = "idle" /\ result' = answer.items
           /\ UNCHANGED <<pending, own, plan, update, tensor, synced>>
    BY <1>5, <1>7 DEF Receive, Kinds
  <2>2. pending' = pending /\ own' = own /\ update' = update /\ StartInv'
    BY <1>2, <1>3, <2>1 DEF StartInv
  <2>3. CloseInv' /\ DoomInv'
    <3>1. \A w \in Workers : Kept(w)' <=> Kept(w)
      BY <1>2, <2>2 DEF Kept
    <3>2. QED
      BY <1>2, <2>2, <3>1 DEF IInv, CloseInv, DoomInv, Doomed, Clean
  <2>4. AskInv'
    <3>1. Silent'
      BY <1>2, <1>3, <2>2 DEF Silent
    <3>2. trainer' # "ask" /\ UpTo(pending, session)' /\ Earlier(pending, session)' /\ handling' = Nobody
      BY <2>1, <3>1, EmptyPipe DEF Silent
    <3>3. QED
      BY <1>1, <3>1, <3>2 DEF AskInv
  <2>5. CASE answer.kind \in {"close", "init"}
    <3>1. /\ trainer' \in {"off", "join"} /\ own = 0
          /\ plan' = plan /\ tensor' = tensor /\ synced' = synced /\ result' = result
      BY <1>3, <2>1, <2>5 DEF Fits
    <3>2. TypesInv'
      BY <1>1, <1>2, <2>2, <3>1 DEF IInv, TypesInv, PipeTypes, WorkerTypes, TrainerTypes
    <3>3. PlaceInv'
      BY <2>2, <3>1 DEF IInv, PlaceInv
    <3>4. PhaseInv' /\ SyncInv' /\ InferInv'
      BY <2>2, <3>1, <3>3 DEF PhaseInv, SyncInv, InferInv, PlaceInv
    <3>5. AnswerInv'
      BY <1>1, <3>1 DEF IInv, AnswerInv, Ordered
    <3>6. QED
      BY <1>2, <2>2, <2>3, <2>4, <3>2, <3>3, <3>4, <3>5 DEF IInv
  <2>6. CASE answer.kind = "update"
    <3>1. /\ trainer' = "send" /\ tensor' = 1 /\ plan' = plan /\ synced' = synced /\ result' = result
          /\ own # 0 /\ plan # <<>> /\ update \in DOMAIN plan
      BY <1>3, <2>1, <2>6 DEF Fits
    <3>2. TypesInv'
      BY <1>1, <1>2, <2>2, <3>1 DEF IInv, TypesInv, PipeTypes, WorkerTypes, TrainerTypes
    <3>3. 1 \in DOMAIN plan[update] /\ update # 0
      <4>1. plan \in Seq(Seq(Params) \ {<<>>})
        BY <3>1, UpdateInPlan
      <4>2. plan[update] \in Seq(Params) \ {<<>>} /\ update # 0
        BY <3>1, <4>1
      <4>3. QED
        BY <4>2
    <3>4. PlaceInv'
      BY <2>2, <3>1, <3>3 DEF PlaceInv
    <3>5. PhaseInv'
      <4>1. IsSent /\ IsSent'
        BY <1>1, <2>2, <3>1, <3>3 DEF IsSent
      <4>2. \A w \in Workers : Queued(w) => Queued(w)'
        BY <1>2, <2>2, <3>1 DEF Queued
      <4>3. \A w \in Workers : Receiving(w) => Receiving(w)'
        BY <1>1, <1>2, <2>2, <3>1 DEF Receiving
      <4>4. handling' = Nobody
        BY <1>2, <1>3 DEF Silent
      <4>5. QED
        BY <1>1, <1>2, <2>2, <3>1, <4>1, <4>2, <4>3, <4>4 DEF IInv, PhaseInv
    <3>6. SyncInv'
      <4>1. Past' = Past
        BY <2>2, <3>1 DEF Past
      <4>2. \A w \in Workers : \A j : Loaded(w, j) => Loaded(w, j)'
        BY <1>1, <1>2, <3>1 DEF Loaded
      <4>3. handling' = Nobody
        BY <1>2, <1>3 DEF Silent
      <4>4. QED
        BY <1>1, <1>2, <2>2, <3>1, <4>1, <4>2, <4>3 DEF IInv, SyncInv
    <3>7. InferInv'
      BY <3>1 DEF InferInv
    <3>8. AnswerInv'
      BY <1>1, <3>1 DEF IInv, AnswerInv, Ordered
    <3>9. QED
      BY <1>2, <2>2, <2>3, <2>4, <3>2, <3>4, <3>5, <3>6, <3>7, <3>8 DEF IInv
  <2>7. CASE answer.kind = "reset"
    <3>1. /\ answer.ok /\ trainer' = "idle" /\ synced' = version /\ plan' = <<>>
          /\ tensor' = tensor /\ result' = result
          /\ own # 0 /\ plan # <<>> /\ update = 0
      BY <1>3, <2>1, <2>7 DEF Fits
    <3>2. TypesInv'
      <4>1. version \in 0..version
        BY DEF IInv, TypesInv, TrainerTypes
      <4>2. QED
        BY <1>1, <1>2, <2>2, <3>1, <4>1 DEF IInv, TypesInv, PipeTypes, WorkerTypes, TrainerTypes
    <3>3. PlaceInv'
      BY <2>2, <3>1 DEF PlaceInv
    <3>4. PhaseInv'
      <4>1. \A w \in Workers : Done(w)
        BY <1>1, <2>7, <3>1 DEF IInv, PhaseInv
      <4>2. QED
        BY <1>2, <3>1, <4>1 DEF PhaseInv
    <3>5. SyncInv'
      BY <3>1 DEF SyncInv
    <3>6. InferInv'
      <4> SUFFICES ASSUME faults = 0 PROVE InferInv'
        BY <1>2 DEF InferInv
      <4>1. (\A w \in Workers : Fresh(w)) /\ result = Nobody
        BY <1>1, <2>7, <3>1 DEF IInv, SyncInv
      <4>2. \A w \in Workers : AllNew(weight[w])' /\ cached'[w] \subseteq {weight'[w]}
        BY <1>1, <1>2, <4>1 DEF Fresh, AllNew
      <4>3. handling' = Nobody
        BY <1>2, <1>3 DEF Silent
      <4>4. QED
        BY <1>1, <3>1, <4>1, <4>2, <4>3 DEF InferInv
    <3>7. AnswerInv'
      BY <1>1, <3>1 DEF IInv, AnswerInv, Ordered
    <3>8. QED
      BY <1>2, <2>2, <2>3, <2>4, <3>2, <3>3, <3>4, <3>5, <3>6, <3>7 DEF IInv
  <2>8. CASE answer.kind = "infer"
    <3>1. /\ trainer' = "idle" /\ result' = answer.items
          /\ plan' = plan /\ tensor' = tensor /\ synced' = synced /\ plan = <<>> /\ answer.ok
      BY <1>3, <2>1, <2>8 DEF Fits
    <3>2. TypesInv'
      BY <1>1, <1>2, <1>5, <2>2, <3>1 DEF IInv, TypesInv, PipeTypes, WorkerTypes, TrainerTypes
    <3>3. PlaceInv'
      BY <2>2, <3>1 DEF IInv, PlaceInv
    <3>4. PhaseInv'
      BY <1>2, <2>2, <3>1 DEF IInv, PhaseInv
    <3>5. SyncInv'
      BY <3>1 DEF SyncInv
    <3>6. InferInv'
      BY <1>1, <1>2, <3>1 DEF IInv, InferInv, AllNew, Good
    <3>7. AnswerInv'
      BY <1>1, <2>8, <3>1 DEF IInv, AnswerInv, Ordered
    <3>8. QED
      BY <1>2, <2>2, <2>3, <2>4, <3>2, <3>3, <3>4, <3>5, <3>6, <3>7 DEF IInv
  <2>9. QED
    BY <2>1, <2>5, <2>6, <2>7, <2>8
<1>8. QED
  BY <1>6, <1>7

\* A group is formed.
LEMMA JoinStep ==
  ASSUME IInv, Join
  PROVE  IInv'
<1>1. /\ trainer = "join" /\ \A w \in Workers : worker[w] = "join"
      /\ groups' = groups + 1 /\ own' = groups + 1
      /\ comm' = [w \in Workers |-> groups + 1]
      /\ worker' = [w \in Workers |-> "idle"]
      /\ trainer' = "idle"
  BY DEF Join
<1>2. /\ server' = server /\ pending' = pending /\ handling' = handling /\ toWorker' = toWorker
      /\ fromWorker' = fromWorker /\ command' = command /\ landed' = landed
      /\ weight' = weight /\ cached' = cached
      /\ session' = session /\ plan' = plan /\ update' = update /\ tensor' = tensor
      /\ version' = version /\ synced' = synced /\ asks' = asks /\ asked' = asked /\ result' = result
      /\ answer' = answer /\ crashes' = crashes /\ faults' = faults
  BY DEF Join
<1>3. /\ own = 0 /\ plan = <<>> /\ synced = 0 /\ Silent /\ answer = Nobody /\ server = "up"
  BY <1>1, TrainerThere DEF IInv, PlaceInv, AskInv
<1>4. groups \in Nat /\ groups + 1 # 0 /\ groups + 1 \in 0..(groups + 1)
  BY DEF IInv, TypesInv, TrainerTypes
<1>5. \A w \in Workers : Alive(w) /\ Alive(w)'
  BY <1>1 DEF Alive
<1>6. \A w \in Workers : comm[w] = 0 /\ ~Has(toWorker[w], "close")
  BY <1>1, <1>5 DEF IInv, CloseInv
<1>7. \A w \in Workers : Free(w)
  BY <1>3, <1>5, <1>6 DEF IInv, DoomInv, Doomed, Kept, Clean
<1>8. TypesInv'
  <2>1. worker' \in [Workers -> Places] /\ comm' \in [Workers -> 0..groups']
    BY <1>1, <1>4 DEF Places
  <2>2. QED
    BY <1>1, <1>2, <1>4, <2>1 DEF IInv, TypesInv, PipeTypes, WorkerTypes, TrainerTypes
<1>9. AskInv'
  <2>1. Silent' /\ UpTo(pending, session)' /\ Earlier(pending, session)'
    BY <1>2, <1>3, EmptyPipe DEF Silent
  <2>2. QED
    BY <1>1, <1>2, <1>3, <2>1 DEF AskInv, Silent
<1>10. PlaceInv' /\ StartInv'
  BY <1>1, <1>2, <1>3, <1>4 DEF PlaceInv, StartInv
<1>11. CloseInv'
  BY <1>1, <1>2, <1>4, <1>5, <1>6 DEF IInv, CloseInv
<1>12. DoomInv'
  BY <1>1, <1>4 DEF DoomInv
<1>13. QuietInv'
  BY <1>1, <1>2 DEF IInv, QuietInv
<1>14. ReplyInv'
  <2>1. handling = Nobody
    BY <1>3 DEF Silent
  <2>2. QED
    BY <1>2, <1>3, <1>5, <2>1 DEF IInv, ReplyInv, AllAlive
<1>15. PhaseInv'
  <2>1. \A w \in Workers : Done(w)'
    BY <1>1, <1>2, <1>7 DEF Done, Free
  <2>2. QED
    BY <1>2, <1>3, <2>1 DEF PhaseInv
<1>16. TensorsMatch'
  BY <1>2 DEF IInv, TensorsMatch
<1>17. SyncInv' /\ InferInv'
  BY <1>2, <1>3 DEF SyncInv, InferInv
<1>18. AnswerInv'
  BY <1>2 DEF IInv, AnswerInv, Ordered
<1>19. QED
  BY <1>8, <1>9, <1>10, <1>11, <1>12, <1>13, <1>14, <1>15, <1>16, <1>17, <1>18 DEF IInv

\* The trainer and every worker broadcast a tensor.
LEMMA BroadcastStep ==
  ASSUME IInv, Broadcast
  PROVE  IInv'
<1> DEFINE size == Len(plan[update])
           item == [param |-> CurrentTensor, value |-> version]
<1>1. /\ trainer = "send" /\ \A w \in Workers : worker[w] = "recv" /\ comm[w] = own
      /\ landed' = [w \in Workers |-> Append(landed[w], item)]
      /\ worker' = [w \in Workers |-> IF Len(landed[w]) + 1 = Len(command[w]) THEN "load" ELSE "recv"]
      /\ tensor < size => tensor' = tensor + 1 /\ pending' = pending /\ trainer' = trainer /\ update' = update
      /\ ~(tensor < size) => tensor' = 0
      /\ ~(tensor < size) /\ update < Len(plan) => update' = update + 1 /\ Post("update", plan[update + 1])
      /\ ~(tensor < size) /\ ~(update < Len(plan)) => update' = 0 /\ Post("reset", <<>>)
  BY DEF Broadcast
<1>2. /\ server' = server /\ handling' = handling /\ toWorker' = toWorker /\ fromWorker' = fromWorker
      /\ command' = command /\ comm' = comm /\ weight' = weight /\ cached' = cached
      /\ session' = session /\ own' = own /\ plan' = plan /\ version' = version
      /\ synced' = synced /\ asks' = asks /\ asked' = asked /\ result' = result /\ answer' = answer
      /\ groups' = groups /\ crashes' = crashes /\ faults' = faults
  BY DEF Broadcast, ghosts
<1>3. /\ own # 0 /\ plan # <<>> /\ update \in DOMAIN plan /\ tensor \in DOMAIN plan[update]
      /\ Silent /\ answer = Nobody /\ server = "up"
  BY <1>1, TrainerThere DEF IInv, PlaceInv, AskInv
<1>4. /\ plan \in Plans /\ plan \in Seq(Seq(Params) \ {<<>>}) /\ update \in Nat /\ update # 0
      /\ plan[update] \in Seq(Params) \ {<<>>} /\ size \in Nat /\ Len(plan) \in Nat
      /\ tensor \in 1..size /\ update \in 1..Len(plan) /\ CurrentTensor \in Params
  <2>1. plan \in Plans /\ plan \in Seq(Seq(Params) \ {<<>>}) /\ update \in Nat
    BY <1>3, UpdateInPlan
  <2>2. plan[update] \in Seq(Params) \ {<<>>} /\ update \in 1..Len(plan) /\ Len(plan) \in Nat
    BY <1>3, <2>1
  <2>3. size \in Nat /\ tensor \in 1..size /\ plan[update][tensor] \in Params
    BY <1>3, <2>2
  <2>4. QED
    BY <2>1, <2>2, <2>3 DEF CurrentTensor
<1>5. /\ landed \in [Workers -> Seq(Tensors)] /\ version \in 0..MaxVersion
      /\ session \in Nat /\ handling = Nobody /\ pending = <<>>
  BY <1>3 DEF IInv, TypesInv, WorkerTypes, TrainerTypes, Silent
<1>6. item \in Tensors /\ item.param = CurrentTensor /\ item.value = version
  BY <1>4, <1>5 DEF Tensors
<1> HIDE DEF item, size
<1>7. \A w \in Workers : Alive(w) /\ Alive(w)'
  BY <1>1 DEF Alive
<1>8. ASSUME NEW w \in Workers
      PROVE  /\ Receiving(w) /\ ~Has(toWorker[w], "update") /\ command[w] = plan[update]
             /\ Len(landed[w]) = tensor - 1
             /\ landed'[w] \in Seq(Tensors) /\ Len(landed'[w]) = tensor
             /\ DOMAIN landed'[w] = DOMAIN landed[w] \cup {tensor}
             /\ landed'[w][tensor] = item
             /\ \A i \in DOMAIN landed[w] : landed'[w][i] = landed[w][i]
             /\ worker'[w] = IF tensor = size THEN "load" ELSE "recv"
  <2>1. IsSent
    BY <1>1, <1>4 DEF IsSent
  <2>2. Receiving(w)
    BY <1>1, <1>3, <1>7, <2>1 DEF IInv, PhaseInv, AllAlive, Queued
  <2>3. ~Has(toWorker[w], "update") /\ command[w] = plan[update] /\ Len(landed[w]) = tensor - 1
    BY <1>1, <2>2 DEF Receiving
  <2>4. landed'[w] = Append(landed[w], item) /\ landed[w] \in Seq(Tensors)
    BY <1>1, <1>5
  <2>5. (tensor - 1) + 1 = tensor
    BY <1>4
  <2>6. /\ Append(landed[w], item) \in Seq(Tensors)
        /\ Len(Append(landed[w], item)) = Len(landed[w]) + 1
        /\ Append(landed[w], item)[Len(landed[w]) + 1] = item
        /\ DOMAIN Append(landed[w], item) = DOMAIN landed[w] \cup {Len(landed[w]) + 1}
        /\ \A i \in DOMAIN landed[w] : Append(landed[w], item)[i] = landed[w][i]
    BY <1>6, <2>4, PutLast
  <2>7. worker'[w] = IF Len(landed[w]) + 1 = Len(command[w]) THEN "load" ELSE "recv"
    BY <1>1
  <2>8. worker'[w] = IF tensor = size THEN "load" ELSE "recv"
    BY <2>3, <2>5, <2>7 DEF size
  <2>9. QED
    BY <2>2, <2>3, <2>4, <2>5, <2>6, <2>8
<1>9. worker' \in [Workers -> Places] /\ landed' \in [Workers -> Seq(Tensors)]
  <2>1. worker' \in [Workers -> Places]
    BY <1>1 DEF Places
  <2>2. landed' \in [Workers -> Seq(Tensors)]
    BY <1>1, <1>8
  <2>3. QED
    BY <2>1, <2>2
<1>10. /\ tensor # size => tensor' = tensor + 1 /\ pending' = pending /\ trainer' = "send" /\ update' = update
       /\ tensor = size => tensor' = 0
       /\ tensor = size /\ update # Len(plan) => update' = update + 1 /\ Post("update", plan[update + 1])
       /\ tensor = size /\ update = Len(plan) => update' = 0 /\ Post("reset", <<>>)
  BY <1>1, <1>4
<1>m. TensorsMatch'
  <2> SUFFICES ASSUME NEW w \in Workers, NEW i \in DOMAIN landed'[w]
               PROVE  /\ i \in DOMAIN command[w]
                      /\ landed'[w][i].param = command[w][i]
                      /\ landed'[w][i].value = version
    BY <1>2 DEF TensorsMatch
  <2>1. CASE i \in DOMAIN landed[w]
    BY <1>8, <2>1 DEF IInv, TensorsMatch
  <2>2. CASE i = tensor
    <3>1. command[w] = plan[update] /\ landed'[w][i] = item
      BY <1>8, <2>2
    <3>2. QED
      BY <1>3, <1>6, <2>2, <3>1 DEF CurrentTensor
  <2>3. QED
    BY <1>8, <2>1, <2>2
<1>11. CASE tensor # size
  <2>1. /\ tensor' = tensor + 1 /\ tensor' \in 1..size /\ pending' = pending /\ trainer' = "send"
        /\ update' = update /\ \A w \in Workers : worker'[w] = "recv"
    BY <1>4, <1>8, <1>10, <1>11
  <2>2. TypesInv'
    BY <1>2, <1>4, <1>9, <2>1 DEF IInv, TypesInv, PipeTypes, WorkerTypes, TrainerTypes
  <2>3. AskInv'
    BY <1>1, <1>2, <2>1 DEF IInv, AskInv, UpTo, Silent
  <2>4. PlaceInv' /\ StartInv'
    <3>1. tensor' \in DOMAIN plan[update]
      BY <1>4, <2>1 DEF size
    <3>2. QED
      BY <1>2, <1>3, <2>1, <3>1 DEF PlaceInv, StartInv
  <2>5. CloseInv' /\ DoomInv'
    BY <1>2, <1>3, <1>7, <2>1 DEF IInv, CloseInv, DoomInv
  <2>6. PhaseInv'
    <3>1. \A w \in Workers : Receiving(w)'
      <4>1. (tensor + 1) - 1 = tensor
        BY <1>4
      <4>2. QED
        BY <1>2, <1>8, <2>1, <4>1 DEF Receiving
    <3>2. IsSent'
      BY <1>4, <2>1 DEF IsSent
    <3>3. QED
      BY <1>2, <1>3, <1>5, <3>1, <3>2 DEF PhaseInv
  <2>7. SyncInv'
    <3>1. Past' = Past
      BY <1>2, <2>1 DEF Past
    <3>2. \A w \in Workers : \A j : Loaded(w, j) => Loaded(w, j)'
      BY <1>1, <1>2, <2>1 DEF Loaded
    <3>3. QED
      BY <1>2, <1>3, <1>5, <1>7, <3>1, <3>2 DEF IInv, SyncInv
  <2>8. QuietInv'
    <3>1. \A w \in Workers : Len(landed'[w]) < Len(command'[w])
      BY <1>2, <1>4, <1>8, <1>11 DEF size
    <3>2. QED
      BY <2>1, <3>1 DEF QuietInv
  <2>9. QED
    <3>1. ReplyInv'
      BY <1>2, <1>3, <1>5, <1>7 DEF IInv, ReplyInv, AllAlive
    <3>2. TensorsMatch'
      BY <1>m
    <3>3. InferInv'
      BY <1>2, <1>3 DEF InferInv
    <3>4. AnswerInv'
      BY <1>2 DEF IInv, AnswerInv, Ordered
    <3>5. QED
      BY <2>2, <2>3, <2>4, <2>5, <2>6, <2>7, <2>8, <3>1, <3>2, <3>3, <3>4 DEF IInv
<1>12. CASE tensor = size
  <2>1. tensor' = 0 /\ \A w \in Workers : worker'[w] = "load"
    BY <1>8, <1>10, <1>12
  <2> DEFINE kind == IF update # Len(plan) THEN "update" ELSE "reset"
             data == IF update # Len(plan) THEN plan[update + 1] ELSE <<>>
  <2>2. /\ Post(kind, data) /\ update' = (IF update # Len(plan) THEN update + 1 ELSE 0)
        /\ update' \in Nat
        /\ update # Len(plan) => update' \in DOMAIN plan /\ data = plan[update'] /\ data \in Seq(Params) \ {<<>>}
    <3>1. update # Len(plan) => update + 1 \in DOMAIN plan /\ plan[update + 1] \in Seq(Params) \ {<<>>}
      BY <1>4
    <3>2. QED
      BY <1>4, <1>10, <1>12, <3>1
  <2>3. /\ kind \in {"update", "reset"} /\ (kind = "update" <=> update # Len(plan))
        /\ kind = "reset" => data = <<>>
    OBVIOUS
  <2> HIDE DEF kind, data
  <2>4. /\ pending' \in Seq(Requests(Prompts)) /\ trainer' = "ask"
        /\ UpTo(pending', session) /\ pending'[Len(pending')].from = session
        /\ pending'[Len(pending')].kind = kind /\ pending'[Len(pending')].data = data
        /\ Len(pending') = 1 /\ pending' # <<>>
        /\ \A k : Has(pending', k) <=> kind = k
        /\ OnceAtMost(pending', "close")
    <3> DEFINE req == Request(kind, data)
    <3>1. pending' = Append(pending, req) /\ trainer' = "ask"
      BY <2>2 DEF Post
    <3>2. req \in Requests(Prompts) /\ req.kind = kind /\ req.from = session /\ req.data = data
      BY <1>5, <2>2, <2>3, MakeRequest
    <3> HIDE DEF req
    <3>3. \A y \in Requests(Prompts) : y.from \in Nat
      BY RequestFacts
    <3>4. pending \in Seq(Requests(Prompts)) /\ Earlier(pending, session)
      BY <1>5, EmptyPipe
    <3>5. /\ UpTo(pending', session) /\ pending'[Len(pending')] = req /\ Len(pending') = 1
      BY <1>5, <3>1, <3>2, <3>3, <3>4, PostUpTo
    <3>6. /\ pending' \in Seq(Requests(Prompts)) /\ pending' # <<>>
          /\ \A k : Has(pending', k) <=> Has(pending, k) \/ req.kind = k
          /\ \A k : OnceAtMost(pending, k) /\ ~(Has(pending, k) /\ req.kind = k) => OnceAtMost(pending', k)
      BY <3>1, <3>2, <3>4, PutIn
    <3>7. QED
      BY <1>5, <3>1, <3>2, <3>5, <3>6, EmptyPipe
  <2>5. TypesInv'
    BY <1>2, <1>9, <2>1, <2>2, <2>4 DEF IInv, TypesInv, PipeTypes, WorkerTypes, TrainerTypes
  <2>6. AskInv'
    <3>1. \A req : req.from = session /\ req.kind = kind /\ req.data = data => Ours(req)'
      BY <1>2, <1>3, <2>2, <2>3 DEF Ours, Fits
    <3>2. Ours(pending[Len(pending)])'
      BY <2>4, <3>1
    <3>3. InPending'
      BY <1>2, <1>5, <2>4, <3>2 DEF InPending
    <3>4. QED
      BY <1>2, <1>3, <1>5, <2>4, <3>3 DEF AskInv
  <2>7. PlaceInv' /\ StartInv'
    BY <1>2, <1>3, <2>4 DEF PlaceInv, StartInv
  <2>8. CloseInv' /\ DoomInv'
    BY <1>2, <1>3, <1>7, <2>1, <2>3, <2>4 DEF IInv, CloseInv, DoomInv
  <2>9. PhaseInv'
    <3>1. \A w \in Workers : Unsent(w)'
      BY <1>2, <1>8, <2>1 DEF Unsent
    <3>2. ~IsSent'
      BY <1>2, <1>3, <2>4 DEF IsSent
    <3>3. QED
      BY <1>2, <1>3, <1>5, <3>1, <3>2 DEF PhaseInv
  <2>10. SyncInv'
    <3>1. ASSUME NEW j \in Past'
          PROVE  j \in Past \/ j = update
      BY <1>2, <1>4, <2>2 DEF Past
    <3>2. \A w \in Workers : \A j : Loaded(w, j) => Loaded(w, j)'
      BY <1>1, <1>2 DEF Loaded
    <3>3. ASSUME NEW w \in Workers, NEW j, j = update
          PROVE  Loaded(w, j)'
      BY <1>2, <1>8, <2>1, <3>3 DEF Loaded
    <3>4. QED
      BY <1>2, <1>3, <1>5, <1>7, <3>1, <3>2, <3>3 DEF IInv, SyncInv
  <2>11. QuietInv'
    <3>1. \A w \in Workers : Len(landed'[w]) = Len(command'[w])
      BY <1>2, <1>4, <1>8, <1>12 DEF size
    <3>2. QED
      BY <2>1, <3>1 DEF QuietInv
  <2>12. QED
    <3>1. ReplyInv'
      BY <1>2, <1>3, <1>5, <1>7 DEF IInv, ReplyInv, AllAlive
    <3>2. TensorsMatch'
      BY <1>m
    <3>3. InferInv'
      BY <1>2, <1>3 DEF InferInv
    <3>4. AnswerInv'
      BY <1>2 DEF IInv, AnswerInv, Ordered
    <3>5. QED
      BY <2>5, <2>6, <2>7, <2>8, <2>9, <2>10, <2>11, <3>1, <3>2, <3>3, <3>4 DEF IInv
<1>13. QED
  BY <1>11, <1>12

\* The last request goes.
LEMMA DropLast ==
  ASSUME NEW S, NEW q \in Seq(S), q # <<>>, NEW n
  PROVE  /\ Front(q) \in Seq(S)
         /\ \A k : Has(Front(q), k) => Has(q, k)
         /\ \A k : OnceAtMost(q, k) => OnceAtMost(Front(q), k)
         /\ UpTo(q, n) => UpTo(Front(q), n)
<1> DEFINE f == Front(q)
<1>1. /\ f \in Seq(S) /\ Len(q) \in Nat \ {0}
      /\ DOMAIN f = 1..(Len(q) - 1) /\ DOMAIN q = 1..Len(q)
      /\ \A i \in DOMAIN f : f[i] = q[i]
  <2>1. Len(q) \in Nat \ {0} /\ DOMAIN q = 1..Len(q)
    BY EmptySeq
  <2>2. f = SubSeq(q, 1, Len(q) - 1)
    BY DEF Front
  <2>3. QED
    BY <2>1, <2>2
<1>2. \A i \in DOMAIN f : i \in DOMAIN q /\ f[i] = q[i] /\ i # Len(q)
  BY <1>1
<1> HIDE DEF f
<1>3. \A k : Has(f, k) => Has(q, k)
  BY <1>2 DEF Has
<1>4. \A k : OnceAtMost(q, k) => OnceAtMost(f, k)
  BY <1>2 DEF OnceAtMost
<1>5. UpTo(q, n) => UpTo(f, n)
  BY <1>2 DEF UpTo
<1>6. QED
  BY <1>1, <1>3, <1>4, <1>5 DEF f

LEMMA CrashStep ==
  ASSUME IInv, Crash
  PROVE  IInv'
<1>1. /\ trainer # "off" /\ crashes' = crashes + 1 /\ pending' \in {pending, WithoutOwn}
      /\ trainer' = "off" /\ own' = 0 /\ synced' = 0 /\ plan' = <<>> /\ update' = 0 /\ tensor' = 0
      /\ result' = Nobody /\ answer' = Nobody
      /\ session' = session /\ version' = version /\ asks' = asks /\ asked' = asked /\ groups' = groups
      /\ server' = server /\ handling' = handling /\ toWorker' = toWorker /\ fromWorker' = fromWorker
      /\ worker' = worker /\ command' = command /\ landed' = landed /\ comm' = comm
      /\ weight' = weight /\ cached' = cached /\ faults' = faults
  BY DEF Crash, workerVars
<1>2. /\ pending \in Seq(Requests(Prompts)) /\ UpTo(pending, session) /\ server = "up"
      /\ OnceAtMost(pending, "close")
  BY <1>1, TrainerThere DEF IInv, TypesInv, PipeTypes, AskInv, CloseInv
<1>3. /\ pending' \in Seq(Requests(Prompts)) /\ UpTo(pending', session)
      /\ \A k : Has(pending', k) => Has(pending, k)
      /\ OnceAtMost(pending', "close")
  <2>1. CASE pending' = pending
    BY <1>2, <2>1
  <2>2. CASE pending # <<>> /\ pending' = Front(pending)
    BY <1>2, <2>2, DropLast
  <2>3. QED
    BY <1>1, <2>1, <2>2 DEF WithoutOwn
<1>4. \A w \in Workers : (Alive(w)' <=> Alive(w)) /\ (Kept(w) => Kept(w)')
  BY <1>1, <1>3 DEF Alive, Kept
<1>5. TypesInv'
  <2>1. crashes' \in Nat /\ 0 \in 0..groups /\ 0 \in 0..version
    BY <1>1 DEF IInv, TypesInv, TrainerTypes
  <2>2. QED
    BY <1>1, <1>3, <2>1 DEF IInv, TypesInv, PipeTypes, WorkerTypes, TrainerTypes
<1>6. AskInv'
  BY <1>1, <1>3 DEF IInv, AskInv
<1>7. PlaceInv' /\ StartInv'
  BY <1>1, <1>2 DEF PlaceInv, StartInv
<1>8. CloseInv'
  BY <1>1, <1>3, <1>4 DEF IInv, CloseInv
<1>9. DoomInv'
  <2>1. CASE own = 0
    BY <1>1, <1>3, <1>4, <2>1 DEF IInv, DoomInv, Doomed, Clean, Free
  <2>2. CASE own # 0
    <3>1. 1 \in Workers
      BY ConstantFacts
    <3>2. comm[1] # 0 /\ ~Has(toWorker[1], "close")
      BY <2>2, <3>1, OwnIsTheirs
    <3>3. ~Has(pending, "close")
      <4>1. pending = <<>> \/ InPending
        BY <2>2 DEF IInv, AskInv, Silent, InHandler
      <4>2. CASE InPending
        <5>1. Len(pending) = 1 /\ pending[Len(pending)].kind # "close"
          BY <2>2, <4>2 DEF InPending, Ours, Fits
        <5>2. \A i \in DOMAIN pending : i = 1
          BY <1>2, <5>1
        <5>3. QED
          BY <5>1, <5>2 DEF Has
      <4>3. QED
        BY <4>1, <4>2, EmptyPipe
    <3>4. Kept(1)'
      BY <1>4, <3>1, <3>2, <3>3 DEF Kept
    <3>5. QED
      BY <3>1, <3>4 DEF DoomInv, Doomed
  <2>3. QED
    BY <2>1, <2>2
<1>10. QuietInv'
  BY <1>1 DEF IInv, QuietInv
<1>11. ReplyInv'
  <2>1. \A w \in Workers : (Waiting(w)' <=> Waiting(w)) /\ (Replied(w)' <=> Replied(w)) /\ (Lost(w)' <=> Lost(w))
    BY <1>1, <1>4 DEF Waiting, Replied, Lost
  <2>2. QED
    BY <1>1, <1>4, <2>1 DEF IInv, ReplyInv, AllAlive
<1>12. TensorsMatch'
  BY <1>1 DEF IInv, TensorsMatch
<1>13. PhaseInv' /\ SyncInv' /\ InferInv' /\ AnswerInv'
  BY <1>1 DEF PhaseInv, SyncInv, InferInv, AnswerInv
<1>14. QED
  BY <1>5, <1>6, <1>7, <1>8, <1>9, <1>10, <1>11, <1>12, <1>13 DEF IInv

-----------------------------------------------------------------------------
(* The theorems.                                                           *)

LEMMA InitHolds == Init => IInv
<1> SUFFICES ASSUME Init PROVE IInv
  OBVIOUS
<1>1. /\ server = "starting" /\ pending = <<>> /\ handling = Nobody
      /\ toWorker = [w \in Workers |-> <<>>] /\ fromWorker = [w \in Workers |-> <<>>]
      /\ worker = [w \in Workers |-> "starting"] /\ command = [w \in Workers |-> <<>>]
      /\ landed = [w \in Workers |-> <<>>] /\ comm = [w \in Workers |-> 0]
      /\ weight = [w \in Workers |-> [p \in Params |-> 0]] /\ cached = [w \in Workers |-> {}]
      /\ trainer = "off" /\ session = 0 /\ own = 0 /\ plan = <<>> /\ update = 0 /\ tensor = 0
      /\ version = 0 /\ synced = 0 /\ asks = 0 /\ asked = 0 /\ answer = Nobody /\ result = Nobody
      /\ groups = 0 /\ crashes = 0 /\ faults = 0
  BY DEF Init
<1>2. \A i \in DOMAIN <<>> : FALSE
  OBVIOUS
<1>3. TypesInv
  <2>1. PipeTypes
    BY <1>1 DEF PipeTypes
  <2>2. WorkerTypes
    <3>1. [p \in Params |-> 0] \in Weights
      BY ConstantFacts DEF Weights
    <3>2. QED
      BY <1>1, <3>1 DEF WorkerTypes, Places
  <2>3. TrainerTypes
    BY <1>1, ConstantFacts DEF TrainerTypes
  <2>4. QED
    BY <2>1, <2>2, <2>3 DEF TypesInv
<1>4. AskInv /\ PlaceInv
  BY <1>1, EmptyPipe DEF AskInv, PlaceInv
<1>5. \A w \in Workers : ~Has(toWorker[w], "update") /\ ~Has(toWorker[w], "close") /\ OnceAtMost(toWorker[w], "close")
  BY <1>1, EmptyPipe
<1>6. ~Has(pending, "update") /\ ~Has(pending, "close") /\ OnceAtMost(pending, "close")
  BY <1>1, EmptyPipe
<1>7. CloseInv
  BY <1>1, <1>5, <1>6 DEF CloseInv
<1>8. DoomInv
  BY <1>1, <1>5, <1>6 DEF DoomInv, Clean, Free
<1>9. QuietInv /\ StartInv /\ ReplyInv /\ PhaseInv /\ SyncInv /\ InferInv /\ AnswerInv
  BY <1>1 DEF QuietInv, StartInv, Silent, ReplyInv, PhaseInv, SyncInv, InferInv, AnswerInv
<1>10. TensorsMatch
  BY <1>1, <1>2 DEF TensorsMatch
<1>11. QED
  BY <1>3, <1>4, <1>7, <1>8, <1>9, <1>10 DEF IInv

LEMMA StepHolds == IInv /\ [Next]_vars => IInv'
<1> SUFFICES ASSUME IInv, [Next]_vars PROVE IInv'
  OBVIOUS
<1>1. CASE ServerStep
  BY <1>1, LifespanStep, HandleStep, CollectStep DEF ServerStep
<1>2. CASE TrainerStep
  BY <1>2, ReceiveStep, JoinStep, BroadcastStep DEF TrainerStep
<1>3. CASE TrainerAsks
  BY <1>3, StartTrainerStep, AskInitStep, AskSyncStep, AskInferStep, ExitStep DEF TrainerAsks
<1>4. CASE Crash
  BY <1>4, CrashStep
<1>5. ASSUME NEW w \in Workers, WorkerStep(w) \/ WorkerDies(w)
      PROVE  IInv'
  BY <1>5, WorkerReadyStep, TakeInitStep, TakeUpdateStep, TakeCloseStep, TakeResetStep, TakeInferStep,
     LoadStep, WorkerDiesStep DEF WorkerStep
<1>6. CASE UNCHANGED vars
  <2>1. /\ server' = server /\ pending' = pending /\ handling' = handling /\ toWorker' = toWorker
        /\ fromWorker' = fromWorker /\ worker' = worker /\ command' = command /\ landed' = landed
        /\ comm' = comm /\ weight' = weight /\ cached' = cached
        /\ trainer' = trainer /\ session' = session /\ own' = own /\ plan' = plan /\ update' = update
        /\ tensor' = tensor /\ version' = version /\ synced' = synced /\ asks' = asks /\ asked' = asked
        /\ result' = result /\ answer' = answer /\ groups' = groups /\ crashes' = crashes
        /\ faults' = faults
    BY <1>6 DEF vars, workerVars, clientVars, ghosts
  <2>2. TypesInv'
    <3>1. PipeTypes' /\ WorkerTypes'
      BY <2>1 DEF IInv, TypesInv, PipeTypes, WorkerTypes
    <3>2. TrainerTypes'
      BY <2>1 DEF IInv, TypesInv, TrainerTypes
    <3>3. QED
      BY <3>1, <3>2 DEF TypesInv
  <2>3. AskInv' /\ PlaceInv'
    <3>1. UNCHANGED <<pending, handling, trainer, clientVars, answer>>
      BY <1>6 DEF vars
    <3>2. QED
      BY <3>1, TrainerStays
  <2>4. CloseInv'
    BY <2>1 DEF IInv, CloseInv, Alive
  <2>5. DoomInv' /\ QuietInv' /\ StartInv'
    BY <2>1 DEF IInv, DoomInv, Doomed, Clean, Free, Kept, Alive, QuietInv, StartInv, Silent
  <2>6. ReplyInv' /\ TensorsMatch' /\ AnswerInv'
    BY <2>1 DEF IInv, ReplyInv, Waiting, Replied, Lost, Alive, AllAlive, TensorsMatch, AnswerInv, Ordered
  <2>7. PhaseInv'
    BY <2>1 DEF IInv, PhaseInv, Done, Free, Unsent, Queued, Receiving, IsSent, Alive, AllAlive
  <2>8. SyncInv' /\ InferInv'
    BY <2>1 DEF IInv, SyncInv, Past, Loaded, Fresh, AllNew, Alive, InferInv, Good
  <2>9. QED
    BY <2>2, <2>3, <2>4, <2>5, <2>6, <2>7, <2>8 DEF IInv
<1>7. QED
  BY <1>1, <1>2, <1>3, <1>4, <1>5, <1>6 DEF Next

\* The inductive invariant holds whatever the constants, the orders of the processes,
\* the deaths and the exceptions.
THEOREM Invariance == Spec => []IInv
BY InitHolds, StepHolds, PTL DEF Spec

\* Every variable has its type, and one request of the trainer at most is waiting.
THEOREM TypesHold == Spec => []TypeOK
<1>1. IInv => TypeOK
  <2> SUFFICES ASSUME IInv PROVE TypeOK
    OBVIOUS
  <2>1. \A i \in DOMAIN pending : pending[i].kind \in Kinds
    <3>1. \A i \in DOMAIN pending : pending[i] \in Requests(Prompts)
      BY DEF IInv, TypesInv, PipeTypes
    <3>2. QED
      BY <3>1, RequestFacts
  <2>2. \A w \in Workers : \A i \in DOMAIN fromWorker[w] :
          fromWorker[w][i].ok \in BOOLEAN /\ fromWorker[w][i].items \in Seq(Outputs)
    <3>1. \A w \in Workers : \A i \in DOMAIN fromWorker[w] : fromWorker[w][i] \in Replies
      BY DEF IInv, TypesInv, PipeTypes
    <3>2. QED
      BY <3>1 DEF Replies
  <2>3. Cardinality({i \in DOMAIN pending : pending[i].from = session}) <= 1
    <3> DEFINE mine == {i \in DOMAIN pending : pending[i].from = session}
    <3>1. mine \subseteq {Len(pending)}
      BY DEF IInv, AskInv, UpTo
    <3>2. IsFiniteSet({Len(pending)}) /\ Cardinality({Len(pending)}) = 1
      BY FS_Singleton
    <3> HIDE DEF mine
    <3>3. Cardinality(mine) <= 1
      BY <3>1, <3>2, FS_Subset
    <3>4. QED
      BY <3>3 DEF mine
  <2>4. handling # Nobody => IsCall(handling.kind)
    BY DEF IInv, AskInv
  <2>5. WorkerTypes /\ TrainerTypes
    BY DEF IInv, TypesInv
  <2>6. QED
    BY <2>1, <2>2, <2>3, <2>4, <2>5 DEF TypeOK, WorkerTypes, TrainerTypes, Places
<1>2. QED
  BY <1>1, Invariance, PTL

\* An infer call returns the outputs of its own prompts, each of them and in their order: none
\* left out, no placeholder of an idle worker, nothing of a request that failed half-way,
\* whoever has died.
THEOREM AnswersBelong == Spec => []AnswersTheAsk
<1>1. IInv => AnswersTheAsk
  <2> SUFFICES ASSUME IInv, result # Nobody
               PROVE  [i \in DOMAIN result |-> result[i].prompt] = [i \in 1..asked |-> <<asks, i>>]
    BY DEF AnswersTheAsk
  <2>1. result \in Seq(Outputs) /\ Ordered(result)
    BY DEF IInv, TypesInv, TrainerTypes, AnswerInv
  <2>2. DOMAIN result = 1..asked
    BY <2>1 DEF Ordered
  <2>3. QED
    BY <2>1, <2>2 DEF Ordered
<1>2. QED
  BY <1>1, Invariance, PTL

\* The tensors a worker receives are those its command announces; and what is inferred
\* after a synchronisation runs on the synchronised parameters, on every worker, with
\* no prefix cached from earlier ones.
THEOREM InferencesSynced == Spec => []SyncedInference
<1>1. IInv => SyncedInference
  <2> SUFFICES ASSUME IInv PROVE SyncedInference
    OBVIOUS
  <2>1. TensorsMatch
    BY DEF IInv
  <2>2. InferredOnSynced
    <3> SUFFICES ASSUME result # Nobody, synced # 0, faults = 0, NEW i \in DOMAIN result
                 PROVE  ~result[i].stale /\ \A p \in Params : result[i].weight[p] = synced
      BY DEF InferredOnSynced
    <3>1. plan = <<>>
      <4>1. own # 0
        BY DEF IInv, PlaceInv
      <4>2. QED
        BY <4>1 DEF IInv, SyncInv
    <3>2. synced = version /\ Good(result)
      BY <3>1 DEF IInv, InferInv
    <3>3. QED
      BY <3>2 DEF Good, AllNew
  <2>3. QED
    BY <2>1, <2>2 DEF SyncedInference
<1>2. QED
  BY <1>1, Invariance, PTL
=============================================================================
