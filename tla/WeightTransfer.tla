--------------------------- MODULE WeightTransfer ---------------------------
(***************************************************************************)
(* The data plane of a weight synchronisation under Ray: the trainer's     *)
(* weights travel to the vLLM workers of every rollout replica.            *)
(*                                                                         *)
(* Separate mode: the trainer packs the weights into two buckets in turn   *)
(* and broadcasts each over NCCL, its metadata over PUB/SUB                *)
(* (checkpoint_engine/nccl.py); the server process of a replica receives   *)
(* into two buckets in turn and hands views of them on.  Colocated mode:   *)
(* the trainer hands its weights on itself.  In both, a                    *)
(* BucketedWeightSender (rollout/weight_transfer.py) copies what it is     *)
(* handed into one buffer shared with the replica's workers and waits for  *)
(* their answer to every bucket (pipelines/infer/rollout.py).              *)
(*                                                                         *)
(* A buffer is a function from bytes to words; the word <<w, v>> is a byte *)
(* of weight w in version v.  A copy to a device is queued on its stream   *)
(* and lands later, at the latest in synchronize().                        *)
(***************************************************************************)
EXTENDS Integers, Sequences, FiniteSets, SequencesExt

CONSTANTS
  Replicas,    \* rollout replicas
  NcclCap,     \* bytes of a bucket of the checkpoint engine
  IpcCap,      \* bytes of the buffer of a BucketedWeightSender
  Plans        \* [colocated, sizes, tp, late, ...]: the deployment, the weights'
               \* sizes, the workers of a replica, whether subscriptions may be late

ASSUME TransferAssumption ==
  /\ IsFiniteSet(Replicas)
  /\ NcclCap \in Nat \ {0} /\ IpcCap \in Nat \ {0}
  /\ \A p \in Plans : /\ {p.colocated, p.late} \subseteq BOOLEAN
                      /\ p.sizes \in Seq(Nat \ {0})
                      /\ p.tp \in Nat \ {0}

VARIABLES
  plan,        \* the deployment, fixed
  sync,        \* "on" during a synchronisation
  version,     \* the version of the trainer's weights
  trainer,     \* NCCLCheckpointEngine.send_weights: position, bucket, broadcast
  send_bufs,   \* the trainer's two buckets
  joined,      \* the replicas whose subscription is established
  topic,       \* per replica, the metadata its SUB socket holds
  server,      \* per replica, receive_weights feeding the BucketedWeightSender
  recv_bufs,   \* per replica, its two buckets
  shared,      \* per replica, the buffer shared with its workers
  socket,      \* per replica, the REQ/REP pair: the message or the answer on it
  worker       \* per replica and rank, update_weights_from_ipc

transfer == <<plan, sync, version, trainer, send_bufs, joined, topic, server,
              recv_bufs, shared, socket, worker>>

Weights == 1..Len(plan.sizes)
Size(w) == plan.sizes[w]
Ranks == 0..(plan.tp - 1)
Driver == 0
Words == {<<0, 0>>} \cup (Weights \X (0..version))

Empty(cap) == [b \in 0..(cap - 1) |-> <<0, 0>>]
Bytes(offset, w) == offset..(offset + Size(w) - 1)

\* The bucket that gets w next: its entries in order, and their end.
NoBucket == [meta |-> <<>>, offset |-> 0]
Packed(bucket, w) ==
  [meta |-> Append(bucket.meta, [w |-> w, offset |-> bucket.offset]),
   offset |-> bucket.offset + Size(w)]

-----------------------------------------------------------------------------
(* Streams: copies are queued in order and land one by one.                *)

Own(w) == [b \in 0..(Size(w) - 1) |-> <<w, version>>]
\* What a copy reads when it lands: the trainer's weight, or the bytes of the
\* bucket that its view covers.
Source(r, c) ==
  IF plan.colocated THEN Own(c.w)
  ELSE [b \in 0..(Size(c.w) - 1) |-> recv_bufs[r][c.from][c.start + b]]

\* A buffer once copies of these words have landed in order: the last copy over
\* a byte has written it.
Landed(buf, copies, words) ==
  [b \in DOMAIN buf |->
     LET over == {i \in DOMAIN copies : b \in Bytes(copies[i].offset, copies[i].w)} IN
     IF over = {} THEN buf[b] ELSE words[Max(over)][b - copies[Max(over)].offset]]

OnTrainer(buf, copies) == Landed(buf, copies, [i \in DOMAIN copies |-> Own(copies[i].w)])
OnServer(r, copies) == Landed(shared[r], copies, [i \in DOMAIN copies |-> Source(r, copies[i])])

-----------------------------------------------------------------------------
(* The trainer: send_weights.  A BroadcastOperation is "new" until its     *)
(* thread has published the metadata, then "sent" until the collective.    *)

NoOp == [st |-> "idle", buf |-> 0, meta |-> <<>>, last |-> FALSE]
TrainerOff == [pc |-> "off", nx |-> 1, cur |-> 0, bucket |-> NoBucket, queue |-> <<>>, op |-> NoOp]

Queued(t, w) == Append(t.queue, [w |-> w, offset |-> t.bucket.offset])
Filled(t, w) ==
  [t EXCEPT !.nx = w + 1, !.bucket = Packed(t.bucket, w), !.queue = Queued(t, w)]

\* Mutant of Flushed: the bucket being broadcast is filled again.
FlushedInPlace(t, last) ==
  [t EXCEPT !.bucket = NoBucket, !.queue = <<>>,
            !.op = [st |-> "new", buf |-> t.cur, meta |-> t.bucket.meta, last |-> last]]

\* The bucket is handed to a broadcast and the other one is filled next.
Flushed(t, last) ==
  [t EXCEPT !.cur = 1 - t.cur, !.bucket = NoBucket, !.queue = <<>>,
            !.op = [st |-> "new", buf |-> t.cur, meta |-> t.bucket.meta, last |-> last]]

\* synchronize(): what is queued lands.
TrainerSynchronize(t) ==
  send_bufs' = [send_bufs EXCEPT ![t.cur] = OnTrainer(@, t.queue)]

TrainerFill ==
  LET t == trainer
      w == t.nx IN
  /\ t.pc = "send" /\ w \in Weights
  /\ t.bucket.offset + Size(w) <= NcclCap
  /\ trainer' = Filled(t, w)
  /\ UNCHANGED <<plan, sync, version, send_bufs, joined, topic, server, recv_bufs,
                 shared, socket, worker>>

\* The previous broadcast has completed; a weight larger than a bucket fails
\* the assertion.
TrainerFlush ==
  LET t == trainer
      w == t.nx IN
  /\ t.pc = "send" /\ w \in Weights
  /\ t.bucket.offset + Size(w) > NcclCap
  /\ t.op.st = "idle"
  /\ TrainerSynchronize(t)
  /\ trainer' = IF Size(w) > NcclCap THEN [Flushed(t, FALSE) EXCEPT !.pc = "failed"]
                ELSE Filled(Flushed(t, FALSE), w)
  /\ UNCHANGED <<plan, sync, version, joined, topic, server, recv_bufs, shared,
                 socket, worker>>

\* Mutant of TrainerLast: the last bucket does not say so.
TrainerLastUnmarked ==
  LET t == trainer IN
  /\ t.pc = "send" /\ t.nx \notin Weights
  /\ t.op.st = "idle"
  /\ TrainerSynchronize(t)
  /\ trainer' = [Flushed(t, FALSE) EXCEPT !.pc = "sent"]
  /\ UNCHANGED <<plan, sync, version, joined, topic, server, recv_bufs, shared,
                 socket, worker>>

TrainerLast ==
  LET t == trainer IN
  /\ t.pc = "send" /\ t.nx \notin Weights
  /\ t.op.st = "idle"
  /\ TrainerSynchronize(t)
  /\ trainer' = [Flushed(t, TRUE) EXCEPT !.pc = "sent"]
  /\ UNCHANGED <<plan, sync, version, joined, topic, server, recv_bufs, shared,
                 socket, worker>>

\* A queued copy lands in the trainer's bucket by itself.
TrainerLand ==
  /\ trainer.queue # <<>>
  /\ send_bufs' = [send_bufs EXCEPT ![trainer.cur] = OnTrainer(@, <<Head(trainer.queue)>>)]
  /\ trainer' = [trainer EXCEPT !.queue = Tail(@)]
  /\ UNCHANGED <<plan, sync, version, joined, topic, server, recv_bufs, shared,
                 socket, worker>>

\* PUB drops what is sent to a subscriber that has not joined.
Publish ==
  LET op == trainer.op IN
  /\ op.st = "new"
  /\ trainer' = [trainer EXCEPT !.op.st = "sent"]
  /\ topic' = [r \in Replicas |->
                 IF r \in joined THEN Append(topic[r], [meta |-> op.meta, last |-> op.last])
                 ELSE topic[r]]
  /\ UNCHANGED <<plan, sync, version, send_bufs, joined, server, recv_bufs, shared,
                 socket, worker>>

Join(r) ==
  /\ r \notin joined /\ ~plan.colocated
  /\ joined' = joined \cup {r}
  /\ UNCHANGED <<plan, sync, version, trainer, send_bufs, topic, server, recv_bufs,
                 shared, socket, worker>>

\* The collective: every receiver has its metadata and a bucket to fill.
Broadcast ==
  LET op == trainer.op IN
  /\ op.st = "sent"
  /\ \A r \in Replicas : server[r].op.st = "run" /\ topic[r] # <<>>
  /\ recv_bufs' = [r \in Replicas |->
                     [recv_bufs[r] EXCEPT ![1 - server[r].cur] = send_bufs[op.buf]]]
  /\ server' = [r \in Replicas |->
                  [server[r] EXCEPT !.op = [st |-> "done", got |-> Head(topic[r])]]]
  /\ topic' = [r \in Replicas |-> Tail(topic[r])]
  /\ trainer' = [trainer EXCEPT !.op.st = "idle"]
  /\ UNCHANGED <<plan, sync, version, send_bufs, joined, shared, socket, worker>>

-----------------------------------------------------------------------------
(* The server of a replica: receive_weights is a generator that the        *)
(* BucketedWeightSender draws from, one coroutine.  In colocated mode the  *)
(* sender draws from the trainer's own iterator.                           *)

Idle == [st |-> "idle", msg |-> [kind |-> "none", meta |-> <<>>, last |-> FALSE]]
Request(kind, meta, last) ==
  [st |-> "request", msg |-> [kind |-> kind, meta |-> meta, last |-> last]]
NoReceive == [st |-> "idle", got |-> [meta |-> <<>>, last |-> FALSE]]
Receive == [NoReceive EXCEPT !.st = "run"]
ServerOff == [pc |-> "off", cur |-> 0, op |-> NoReceive, views |-> <<>>, last |-> FALSE,
              pos |-> 1, bucket |-> NoBucket, queue |-> <<>>]

Synchronize(r) == shared' = [shared EXCEPT ![r] = OnServer(r, server[r].queue)]

Handshake(r) ==
  /\ server[r].pc = "shake"
  /\ server' = [server EXCEPT ![r].pc = "shaking"]
  /\ socket' = [socket EXCEPT ![r] = Request("handle", <<>>, FALSE)]
  /\ UNCHANGED <<plan, sync, version, trainer, send_bufs, joined, topic, recv_bufs,
                 shared, worker>>

Started(s) ==
  IF plan.colocated
  THEN [s EXCEPT !.pc = "pull", !.last = TRUE,
                 !.views = [w \in Weights |-> [w |-> w, offset |-> 0]]]
  ELSE [s EXCEPT !.pc = "pull", !.op = Receive]

\* Mutant of Answered: the metadata of the bucket sent is kept.
AnsweredKeepsMeta(r) ==
  LET s == server[r] IN
  /\ socket[r].st = "answer"
  /\ socket' = [socket EXCEPT ![r] = Idle]
  /\ server' = [server EXCEPT ![r] =
       CASE s.pc = "shaking" -> Started(s)
         [] s.pc = "flush" -> [s EXCEPT !.pc = "pull", !.bucket.offset = 0]
         [] s.pc = "last" -> [s EXCEPT !.pc = "done", !.bucket = NoBucket]]
  /\ UNCHANGED <<plan, sync, version, trainer, send_bufs, joined, topic, recv_bufs,
                 shared, worker>>

\* The answer to the handshake or to a bucket.
Answered(r) ==
  LET s == server[r] IN
  /\ socket[r].st = "answer"
  /\ socket' = [socket EXCEPT ![r] = Idle]
  /\ server' = [server EXCEPT ![r] =
       CASE s.pc = "shaking" -> Started(s)
         [] s.pc = "flush" -> [s EXCEPT !.pc = "pull", !.bucket = NoBucket]
         [] s.pc = "last" -> [s EXCEPT !.pc = "done", !.bucket = NoBucket]]
  /\ UNCHANGED <<plan, sync, version, trainer, send_bufs, joined, topic, recv_bufs,
                 shared, worker>>

Drawn(s) == s.views[s.pos]
HasView(r) == server[r].pc = "pull" /\ server[r].pos <= Len(server[r].views)

\* _process: the weight drawn goes to the bucket.
Process(r) ==
  LET s == server[r]
      w == Drawn(s).w IN
  /\ HasView(r)
  /\ s.bucket.offset + Size(w) <= IpcCap
  /\ server' = [server EXCEPT ![r].pos = @ + 1, ![r].bucket = Packed(@, w),
                  ![r].queue = Append(@, [w |-> w, offset |-> s.bucket.offset,
                                          from |-> s.cur, start |-> Drawn(s).offset])]
  /\ UNCHANGED <<plan, sync, version, trainer, send_bufs, joined, topic, recv_bufs,
                 shared, socket, worker>>

TooLarge(r) ==
  /\ HasView(r)
  /\ Size(Drawn(server[r]).w) > IpcCap
  /\ server' = [server EXCEPT ![r].pc = "failed"]
  /\ UNCHANGED <<plan, sync, version, trainer, send_bufs, joined, topic, recv_bufs,
                 shared, socket, worker>>

\* _flush: after the last weight, or when the one drawn no longer fits.
Flush(r, last) ==
  LET s == server[r] IN
  /\ IF last THEN s.pc = "pull" /\ s.pos > Len(s.views) /\ s.last
     ELSE /\ HasView(r)
          /\ Size(Drawn(s).w) <= IpcCap
          /\ s.bucket.offset + Size(Drawn(s).w) > IpcCap
  /\ Synchronize(r)
  /\ server' = [server EXCEPT ![r].pc = IF last THEN "last" ELSE "flush", ![r].queue = <<>>]
  /\ socket' = [socket EXCEPT ![r] = Request("bucket", s.bucket.meta, last)]
  /\ UNCHANGED <<plan, sync, version, trainer, send_bufs, joined, topic, recv_bufs, worker>>

\* receive_weights goes on once its views have been drawn: it awaits the
\* broadcast, synchronizes, swaps and receives the next bucket if there is one.
NextBucket(r) ==
  LET s == server[r] IN
  /\ s.pc = "pull" /\ s.pos > Len(s.views) /\ ~s.last
  /\ s.op.st = "done"
  /\ Synchronize(r)
  /\ server' = [server EXCEPT ![r] =
       [s EXCEPT !.cur = 1 - s.cur, !.views = s.op.got.meta, !.last = s.op.got.last,
                 !.pos = 1, !.queue = <<>>,
                 !.op = IF s.op.got.last THEN NoReceive ELSE Receive]]
  /\ UNCHANGED <<plan, sync, version, trainer, send_bufs, joined, topic, recv_bufs,
                 socket, worker>>

\* A queued copy lands in the shared buffer by itself.
Land(r) ==
  /\ server[r].queue # <<>>
  /\ shared' = [shared EXCEPT ![r] = OnServer(r, <<Head(server[r].queue)>>)]
  /\ server' = [server EXCEPT ![r].queue = Tail(@)]
  /\ UNCHANGED <<plan, sync, version, trainer, send_bufs, joined, topic, recv_bufs,
                 socket, worker>>

-----------------------------------------------------------------------------
(* The workers of a replica: update_weights_from_ipc.  The driver receives *)
(* and hands what it received to the others; each copies the weights out   *)
(* of the shared buffer.                                                   *)

WorkerOff == [pc |-> "off", inbox |-> <<>>, meta |-> <<>>, last |-> FALSE,
              taken |-> <<>>, loaded |-> <<>>]

Told(s, msg) ==
  IF msg.kind = "handle" THEN [s EXCEPT !.pc = "receive"]
  ELSE [s EXCEPT !.pc = "copy", !.meta = msg.meta, !.last = msg.last, !.taken = <<>>]

\* recv_pyobj and the broadcast of the object; the handshake is answered
\* when the driver has mapped the buffer.
DriverReceives(r) ==
  LET msg == socket[r].msg IN
  /\ worker[r][Driver].pc \in {"attach", "receive"}
  /\ socket[r].st = "request"
  /\ socket' = [socket EXCEPT ![r].st = IF msg.kind = "handle" THEN "answer" ELSE "held"]
  /\ worker' = [worker EXCEPT ![r] =
       [k \in Ranks |-> IF k = Driver THEN Told(worker[r][k], msg)
                        ELSE [worker[r][k] EXCEPT !.inbox = Append(@, msg)]]]
  /\ UNCHANGED <<plan, sync, version, trainer, send_bufs, joined, topic, server,
                 recv_bufs, shared>>

RankReceives(r, k) ==
  LET s == worker[r][k] IN
  /\ k # Driver
  /\ s.pc \in {"attach", "receive"} /\ s.inbox # <<>>
  /\ worker' = [worker EXCEPT ![r][k] = [Told(s, Head(s.inbox)) EXCEPT !.inbox = Tail(s.inbox)]]
  /\ UNCHANGED <<plan, sync, version, trainer, send_bufs, joined, topic, server,
                 recv_bufs, shared, socket>>

\* tensor.clone() of the next weight of the bucket.
Clone(r, k) ==
  LET s == worker[r][k]
      e == s.meta[Len(s.taken) + 1] IN
  /\ s.pc = "copy" /\ Len(s.taken) < Len(s.meta)
  /\ worker' = [worker EXCEPT ![r][k].taken =
                  Append(@, [w |-> e.w, words |-> {shared[r][b] : b \in Bytes(e.offset, e.w)}])]
  /\ UNCHANGED <<plan, sync, version, trainer, send_bufs, joined, topic, server,
                 recv_bufs, shared, socket>>

\* synchronize(); the driver answers, and each waits for the others.
Taken(r, k) ==
  LET s == worker[r][k] IN
  /\ s.pc = "copy" /\ Len(s.taken) = Len(s.meta)
  /\ worker' = [worker EXCEPT ![r][k].pc = "barrier"]
  /\ socket' = IF k = Driver THEN [socket EXCEPT ![r].st = "answer"] ELSE socket
  /\ UNCHANGED <<plan, sync, version, trainer, send_bufs, joined, topic, server,
                 recv_bufs, shared>>

Barrier(r) ==
  /\ \A k \in Ranks : worker[r][k].pc = "barrier"
  /\ worker' = [worker EXCEPT ![r] = [k \in Ranks |-> [@[k] EXCEPT !.pc = "load"]]]
  /\ UNCHANGED <<plan, sync, version, trainer, send_bufs, joined, topic, server,
                 recv_bufs, shared, socket>>

\* load_weights, or the collection of an adapter's tensors.
Load(r, k) ==
  LET s == worker[r][k] IN
  /\ s.pc = "load"
  /\ worker' = [worker EXCEPT ![r][k] =
       [s EXCEPT !.loaded = @ \o s.taken, !.taken = <<>>, !.meta = <<>>,
                 !.pc = IF s.last THEN "done" ELSE "receive"]]
  /\ UNCHANGED <<plan, sync, version, trainer, send_bufs, joined, topic, server,
                 recv_bufs, shared, socket>>

-----------------------------------------------------------------------------
(* A synchronisation: both ends start together, and the caller waits for   *)
(* both.                                                                   *)

TransferInit ==
  /\ plan \in Plans
  /\ sync = "off" /\ version = 0
  /\ trainer = TrainerOff
  /\ send_bufs = [i \in 0..1 |-> Empty(NcclCap)]
  /\ joined = {}
  /\ topic = [r \in Replicas |-> <<>>]
  /\ server = [r \in Replicas |-> ServerOff]
  /\ recv_bufs = [r \in Replicas |-> [i \in 0..1 |-> Empty(NcclCap)]]
  /\ shared = [r \in Replicas |-> Empty(IpcCap)]
  /\ socket = [r \in Replicas |-> Idle]
  /\ worker = [r \in Replicas |-> [k \in Ranks |-> WorkerOff]]

\* The process group and the subscriptions exist from the first one on; the
\* shared buffer is new each time.
StartTransfer(v) ==
  /\ sync = "off"
  /\ sync' = "on" /\ version' = v
  /\ trainer' = IF plan.colocated THEN TrainerOff ELSE [TrainerOff EXCEPT !.pc = "send"]
  /\ joined' = IF plan.late THEN joined ELSE Replicas
  /\ server' = [r \in Replicas |-> [ServerOff EXCEPT !.pc = "shake"]]
  /\ shared' = [r \in Replicas |-> Empty(IpcCap)]
  /\ worker' = [r \in Replicas |-> [k \in Ranks |-> [WorkerOff EXCEPT !.pc = "attach"]]]
  /\ UNCHANGED <<plan, send_bufs, topic, recv_bufs, socket>>

TransferDone ==
  /\ plan.colocated \/ (trainer.pc = "sent" /\ trainer.op.st = "idle")
  /\ \A r \in Replicas : /\ server[r].pc = "done"
                         /\ \A k \in Ranks : worker[r][k].pc = "done"
\* ray.get raises as soon as one of the calls it waits for has failed.
TransferFailed ==
  \/ trainer.pc = "failed" /\ trainer.op.st = "idle"
  \/ \E r \in Replicas : server[r].pc = "failed"

EndTransfer ==
  /\ sync = "on" /\ TransferDone
  /\ sync' = "off"
  /\ UNCHANGED <<plan, version, trainer, send_bufs, joined, topic, server, recv_bufs,
                 shared, socket, worker>>

TrainerNext == TrainerFill \/ TrainerFlush \/ TrainerLast \/ TrainerLand \/ Publish
ServerNext(r) ==
  \/ Handshake(r) \/ Answered(r) \/ Process(r) \/ TooLarge(r)
  \/ Flush(r, FALSE) \/ Flush(r, TRUE) \/ NextBucket(r) \/ Land(r) \/ Join(r)
WorkerNext(r) ==
  \/ DriverReceives(r) \/ Barrier(r)
  \/ \E k \in Ranks : RankReceives(r, k) \/ Clone(r, k) \/ Taken(r, k) \/ Load(r, k)
TransferNext ==
  TrainerNext \/ Broadcast \/ (\E r \in Replicas : ServerNext(r) \/ WorkerNext(r))

-----------------------------------------------------------------------------
(* Properties.                                                             *)

Entries == [w : Weights, offset : 0..NcclCap]
Buffers(cap) == [0..(cap - 1) -> Words]
Tensors == [w : Weights, words : SUBSET Words]
TransferTypeOK ==
  /\ plan \in Plans /\ sync \in {"on", "off"} /\ version \in Nat
  /\ trainer.pc \in {"off", "send", "sent", "failed"} /\ trainer.cur \in 0..1
  /\ trainer.op.st \in {"idle", "new", "sent"} /\ trainer.bucket.meta \in Seq(Entries)
  /\ send_bufs \in [0..1 -> Buffers(NcclCap)]
  /\ joined \subseteq Replicas
  /\ shared \in [Replicas -> Buffers(IpcCap)]
  /\ recv_bufs \in [Replicas -> [0..1 -> Buffers(NcclCap)]]
  /\ \A r \in Replicas :
       /\ server[r].pc \in {"off", "shake", "shaking", "pull", "flush", "last", "done", "failed"}
       /\ server[r].op.st \in {"idle", "run", "done"} /\ server[r].cur \in 0..1
       /\ server[r].bucket.offset \in 0..IpcCap
       /\ socket[r].st \in {"idle", "request", "held", "answer"}
       /\ \A k \in Ranks :
            /\ worker[r][k].pc \in {"off", "attach", "receive", "copy", "barrier", "load", "done"}
            /\ {worker[r][k].taken, worker[r][k].loaded} \subseteq Seq(Tensors)

\* What a worker has copied out of the shared buffer, and what it has loaded.
Copied(r, k) == worker[r][k].loaded \o worker[r][k].taken
Intact(r, k) ==
  \A i \in DOMAIN Copied(r, k) : Copied(r, k)[i].words = {<<Copied(r, k)[i].w, version>>}

\* The tensors the driver worker of a replica takes are whole and of this
\* version: neither the trainer's buckets, nor the receiver's, nor the shared
\* buffer is written while something still has to be read from it.
DriverIntact == \A r \in Replicas : Intact(r, Driver)

\* The same of every worker, which is what "with a sync recv() on our side so
\* the sender can safely reuse the shared buffer" claims: false, for the
\* driver answers before the other workers have copied.
TensorsIntact == \A r \in Replicas : \A k \in Ranks : Intact(r, k)

\* Every worker loads every weight once and in order, and a synchronisation
\* is over only then: buckets are neither lost, repeated nor reordered on
\* their way through two bucket sizes, and no worker misses one.
Transfer == INSTANCE WeightSync WITH
  workers <- Replicas \X Ranks,
  count <- Len(plan.sizes),
  on <- sync = "on",
  loaded <- [rk \in Replicas \X Ranks |->
               [i \in DOMAIN worker[rk[1]][rk[2]].loaded |-> worker[rk[1]][rk[2]].loaded[i].w]]
TransferIsSync == Transfer!Spec
=============================================================================
