---------------------------- MODULE RayGrpoProofs ----------------------------
(***************************************************************************)
(* The driver's loop and the weight transfer in it, for any deployment,    *)
(* any sizes and any numbers of replicas, workers, prompts and steps.      *)
(*                                                                         *)
(* The first part is about the transfer.  The weights are numbered in the  *)
(* trainer's order, so what lies on the way is a run of consecutive        *)
(* numbers at every station: the trainer's bucket, a broadcast, the        *)
(* metadata of a socket, the views of a server, its bucket, a message,     *)
(* what a worker copies.  TransferInv says that each run begins where the  *)
(* station behind it ends, and which stations are empty at which point of  *)
(* the conversation between two processes.  BytesInv is about what lies in *)
(* the buffers: the entries of a bucket do not overlap, each is written or *)
(* its copy is still queued, and whoever is handed a bucket is handed it   *)
(* whole.                                                                  *)
(*                                                                         *)
(* The second part is about the loop: the transfer implements WeightSync,  *)
(* and colocated models keep out of each other's way.                      *)
(***************************************************************************)
EXTENDS RayGrpo, CommonLemmas, FiniteSetTheorems, TLAPS

-----------------------------------------------------------------------------
(* Types, as far as the metadata goes.  What is copied may be anything.    *)

Entry == [w : Nat, offset : Nat]
Bucket == [meta : Seq(Entry), offset : Nat]
Metadata == [meta : Seq(Entry), last : BOOLEAN]
Message == [kind : {"none", "handle", "bucket"}, meta : Seq(Entry), last : BOOLEAN]

Trainers ==
  [pc : {"off", "send", "sent", "failed"}, nx : Nat, cur : 0..1, bucket : Bucket, queue : Seq(Entry),
   op : [st : {"idle", "new", "sent"}, buf : 0..1, meta : Seq(Entry), last : BOOLEAN]]
Servers ==
  [pc : {"off", "shake", "shaking", "pull", "flush", "last", "done", "failed"}, cur : 0..1,
   op : [st : {"idle", "run", "done"}, got : Metadata], views : Seq(Entry), last : BOOLEAN,
   pos : Nat, bucket : Bucket, queue : Seq([w : Nat, offset : Nat, from : 0..1, start : Nat])]
Sockets == [st : {"idle", "request", "held", "answer"}, msg : Message]

IsSeq(s) == s \in Seq({s[i] : i \in DOMAIN s})
Ranked(s) ==
  /\ s = [pc |-> s.pc, inbox |-> s.inbox, meta |-> s.meta, last |-> s.last,
          taken |-> s.taken, loaded |-> s.loaded]
  /\ s.pc \in {"off", "attach", "receive", "copy", "barrier", "load", "done"}
  /\ s.inbox \in Seq(Message) /\ s.meta \in Seq(Entry) /\ s.last \in BOOLEAN
  /\ IsSeq(s.taken) /\ IsSeq(s.loaded)

Shapes ==
  /\ plan \in Plans /\ sync \in {"on", "off"} /\ version \in Nat
  /\ trainer \in Trainers
  /\ topic \in [Replicas -> Seq(Metadata)]
  /\ server \in [Replicas -> Servers]
  /\ socket \in [Replicas -> Sockets]
  /\ DOMAIN worker = Replicas
  /\ \A r \in Replicas : DOMAIN worker[r] = Ranks

-----------------------------------------------------------------------------
(* The workers of a replica, of n weights.                                 *)

\* The weights of s are those after a.
From(s, a) == \A i \in DOMAIN s : s[i].w = a + i

\* The weights a worker has been told of.
Seen(s) == Len(s.loaded) + Len(s.meta)

Member(n, s) ==
  /\ Ranked(s)
  /\ From(s.loaded, 0) /\ From(s.meta, Len(s.loaded)) /\ From(s.taken, Len(s.loaded))
  /\ Len(s.taken) <= Len(s.meta)
  /\ s.pc \in {"barrier", "load"} => Len(s.taken) = Len(s.meta)
  /\ s.pc \in {"off", "attach", "receive", "done"} => s.meta = <<>>
  /\ s.pc \in {"off", "attach"} => s.loaded = <<>>
  /\ s.pc \in {"off", "attach", "receive"} => ~s.last
  /\ s.pc = "done" => s.last
  /\ Seen(s) <= n /\ (s.last => Seen(s) = n)

Handle == [kind |-> "handle", meta |-> <<>>, last |-> FALSE]
BucketOf(d) == [kind |-> "bucket", meta |-> d.meta, last |-> d.last]

\* Where two workers may be that have been told the same.
Together(p, q) ==
  \/ p = q
  \/ {p, q} \subseteq {"copy", "barrier"}
  \/ p = "load" /\ q \in {"receive", "done"}
  \/ q = "load" /\ p \in {"receive", "done"}

\* A worker s has been told what the driver d has, but for what is in its inbox.
Behind(s, d) ==
  \/ s.inbox = <<>> /\ Seen(s) = Seen(d) /\ s.last = d.last /\ Together(s.pc, d.pc)
  \/ s.inbox = <<Handle>> /\ s.pc = "attach" /\ d.pc = "receive" /\ Seen(d) = 0
  \/ /\ s.inbox = <<Handle, BucketOf(d)>> /\ s.pc = "attach"
     /\ d.pc \in {"copy", "barrier"} /\ Len(d.loaded) = 0
  \/ /\ s.inbox = <<BucketOf(d)>> /\ s.pc \in {"receive", "load"} /\ ~s.last
     /\ d.pc \in {"copy", "barrier"} /\ Len(d.loaded) = Seen(s)

Group(n, ranks, ws) ==
  /\ \A k \in ranks : Member(n, ws[k])
  /\ \A k \in ranks \ {Driver} : Behind(ws[k], ws[Driver])

-----------------------------------------------------------------------------
(* The server s of a replica, its socket x and its driver worker d.        *)

\* What the server and the driver worker are to each other.
Talk(n, s, x, d) ==
  \/ s.pc = "off" /\ x.st = "idle" /\ d.pc = "off"
  \/ s.pc = "shake" /\ x.st = "idle" /\ d.pc = "attach"
  \/ s.pc = "shaking" /\ x.st = "request" /\ x.msg = Handle /\ d.pc = "attach"
  \/ s.pc = "shaking" /\ x.st = "answer" /\ d.pc = "receive" /\ d.loaded = <<>>
  \/ s.pc \in {"pull", "failed"} /\ x.st = "idle" /\ d.pc \in {"receive", "barrier", "load"} /\ ~d.last
  \/ /\ s.pc \in {"flush", "last"} /\ x.st = "request"
     /\ x.msg.kind = "bucket" /\ (x.msg.last <=> s.pc = "last") /\ From(x.msg.meta, Seen(d))
     /\ Seen(d) + Len(x.msg.meta) <= n /\ (x.msg.last => Seen(d) + Len(x.msg.meta) = n)
     /\ d.pc \in {"receive", "barrier", "load"} /\ ~d.last
  \/ s.pc \in {"flush", "last"} /\ x.st = "held" /\ d.pc = "copy" /\ (d.last <=> s.pc = "last")
  \/ /\ s.pc \in {"flush", "last"} /\ x.st = "answer"
     /\ d.pc \in {"receive", "barrier", "load", "done"} /\ (d.last <=> s.pc = "last")
  \/ s.pc = "done" /\ x.st = "idle" /\ d.pc \in {"barrier", "load", "done"} /\ d.last

\* The weights in the message on its way, sent, put into a bucket, and received.
InFlight(x) == IF x.st = "request" THEN Len(x.msg.meta) ELSE 0
Gone(s, x, d) == Seen(d) + InFlight(x) + IF s.pc = "pull" THEN Len(s.bucket.meta) ELSE 0
Before(s, x, d) == Gone(s, x, d) - (s.pos - 1)
Got(s, x, d) == Before(s, x, d) + Len(s.views)

\* What the server draws from.
Drawing(n, s, x, d) ==
  /\ s.pc \in {"shake", "shaking"} =>
       s.pos = 1 /\ s.bucket.meta = <<>> /\ s.views = <<>> /\ ~s.last
  /\ s.pc = "pull" => From(s.bucket.meta, Seen(d))
  /\ s.pc \in {"pull", "flush"} =>
       /\ s.pos >= 1 /\ s.pos <= Len(s.views) + 1
       /\ From(s.views, Before(s, x, d))
       /\ Got(s, x, d) <= n /\ (s.last => Got(s, x, d) = n)

\* How it is fed by the trainer, who has broadcast c weights.
Feed(n, s, x, d, c) ==
  /\ s.pc \in {"off", "shake", "shaking"} => s.op.st = "idle"
  /\ s.pc \in {"shake", "shaking"} => c = 0
  /\ s.pc \in {"pull", "flush"} =>
       \/ s.last
       \/ s.op.st = "run" /\ c = Got(s, x, d)
       \/ /\ s.op.st = "done" /\ From(s.op.got.meta, Got(s, x, d))
          /\ c = Got(s, x, d) + Len(s.op.got.meta) /\ c <= n
          /\ s.op.got.last => c = n

\* No weight is larger than the buffer that has been put into it.
Fitting(s, x, d) ==
  /\ s.pc \in {"pull", "flush", "last", "done"} =>
       \A w \in Weights : w <= Gone(s, x, d) => Size(w) <= IpcCap
  /\ s.pc = "failed" => \E w \in Weights : Size(w) > IpcCap

-----------------------------------------------------------------------------
(* The trainer.                                                            *)

\* The weights it has broadcast.
Cast(t) == t.nx - 1 - Len(t.bucket.meta) - IF t.op.st = "idle" THEN 0 ELSE Len(t.op.meta)

Sending(n, t) ==
  /\ t.nx >= 1 /\ t.nx <= n + 1
  /\ From(t.bucket.meta, t.nx - 1 - Len(t.bucket.meta))
  /\ Cast(t) >= 0
  /\ t.op.st # "idle" => From(t.op.meta, Cast(t))
  /\ t.op.st # "idle" /\ t.op.last => t.nx = n + 1 /\ t.bucket.meta = <<>>
  /\ t.pc = "off" => t.op.st = "idle" /\ t.nx = 1 /\ t.bucket.meta = <<>>

\* A subscriber holds the metadata of the broadcast, or missed it.
Subscribed(t, q) ==
  IF t.op.st = "sent" THEN q = <<>> \/ q = <<[meta |-> t.op.meta, last |-> t.op.last]>>
  ELSE q = <<>>

-----------------------------------------------------------------------------
(* The invariant.                                                          *)

Count == Len(plan.sizes)

Replica(r) ==
  LET s == server[r]
      x == socket[r]
      d == worker[r][Driver] IN
  /\ Group(Count, Ranks, worker[r])
  /\ Talk(Count, s, x, d)
  /\ Drawing(Count, s, x, d)
  /\ Feed(Count, s, x, d, Cast(trainer))
  /\ Fitting(s, x, d)
  /\ Subscribed(trainer, topic[r])

\* Nothing goes on between two synchronisations.
Still ==
  /\ trainer.op.st = "idle" /\ trainer.pc \in {"off", "sent"}
  /\ \A r \in Replicas : /\ server[r].pc \in {"off", "done"}
                         /\ \A k \in Ranks : worker[r][k].pc \in {"off", "done"}

TransferInv ==
  /\ Shapes
  /\ Sending(Count, trainer)
  /\ plan.colocated => trainer.pc = "off"
  /\ \A r \in Replicas : Replica(r)
  /\ sync = "off" => Still

-----------------------------------------------------------------------------
(* Sequences.                                                              *)

LEMMA SeqIsSeq == ASSUME NEW S, NEW s \in Seq(S) PROVE IsSeq(s)
BY DEF IsSeq

LEMMA EmptyIsSeq == IsSeq(<<>>) /\ Len(<<>>) = 0 /\ (\A a : From(<<>>, a)) /\ \A S : <<>> \in Seq(S)
BY DEF IsSeq, From

\* A sequence and its indices.
LEMMA Indices ==
  ASSUME NEW s, IsSeq(s)
  PROVE  /\ Len(s) \in Nat /\ DOMAIN s = 1..Len(s)
         /\ (Len(s) = 0 <=> s = <<>>)
BY DEF IsSeq

\* An item behind a sequence.
LEMMA Appended ==
  ASSUME NEW s, IsSeq(s), NEW e
  PROVE  /\ IsSeq(Append(s, e)) /\ Len(Append(s, e)) = Len(s) + 1
         /\ Append(s, e)[Len(s) + 1] = e
         /\ \A i \in DOMAIN s : Append(s, e)[i] = s[i]
BY DEF IsSeq

\* One more weight behind a run.
LEMMA Longer ==
  ASSUME NEW s, IsSeq(s), NEW a \in Int, From(s, a), NEW e, e.w = a + Len(s) + 1
  PROVE  /\ IsSeq(Append(s, e)) /\ Len(Append(s, e)) = Len(s) + 1 /\ From(Append(s, e), a)
<1>1. /\ IsSeq(Append(s, e)) /\ Len(Append(s, e)) = Len(s) + 1
      /\ Append(s, e)[Len(s) + 1] = e
      /\ \A i \in DOMAIN s : Append(s, e)[i] = s[i]
  BY Appended
<1>2. Len(s) \in Nat /\ DOMAIN s = 1..Len(s) /\ DOMAIN Append(s, e) = 1..(Len(s) + 1)
  BY <1>1, Indices
<1>3. ASSUME NEW i \in DOMAIN Append(s, e)
      PROVE  Append(s, e)[i].w = a + i
  <2>1. CASE i \in DOMAIN s
    BY <1>1, <2>1 DEF From
  <2>2. CASE i = Len(s) + 1
    <3>1. Len(s) \in Int
      BY <1>2
    <3>2. a + Len(s) + 1 = a + (Len(s) + 1)
      BY <3>1
    <3>3. QED
      BY <1>1, <2>2, <3>2
  <2>3. i \in DOMAIN s \/ i = Len(s) + 1
    BY <1>1, <1>2
  <2>4. QED
    BY <2>1, <2>2, <2>3
<1>4. QED
  BY <1>1, <1>3 DEF From

\* A run behind a run.
LEMMA Joined ==
  ASSUME NEW s, IsSeq(s), NEW u, IsSeq(u), From(s, 0), From(u, Len(s))
  PROVE  IsSeq(s \o u) /\ Len(s \o u) = Len(s) + Len(u) /\ From(s \o u, 0)
<1> DEFINE S == {s[i] : i \in DOMAIN s} \cup {u[i] : i \in DOMAIN u}
<1>1. s \in Seq(S) /\ u \in Seq(S)
  BY DEF IsSeq
<1> HIDE DEF S
<1>2. s \o u \in Seq(S) /\ Len(s \o u) = Len(s) + Len(u)
  BY <1>1
<1>3. IsSeq(s \o u)
  BY <1>2, SeqIsSeq
<1>4. Len(s) \in Nat /\ Len(u) \in Nat /\ DOMAIN s = 1..Len(s) /\ DOMAIN u = 1..Len(u)
  BY Indices
<1>5. ASSUME NEW i \in DOMAIN (s \o u)
      PROVE  (s \o u)[i].w = 0 + i
  <2>1. i \in 1..(Len(s) + Len(u))
    BY <1>2, <1>3, <1>5, Indices
  <2>2. (s \o u)[i] = IF i <= Len(s) THEN s[i] ELSE u[i - Len(s)]
    BY <1>1, <2>1
  <2>3. CASE i <= Len(s)
    <3>1. i \in DOMAIN s
      BY <1>4, <2>1, <2>3
    <3>2. s[i].w = 0 + i
      BY <3>1 DEF From
    <3>3. QED
      BY <2>2, <2>3, <3>2
  <2>4. CASE ~(i <= Len(s))
    <3>1. i - Len(s) \in DOMAIN u
      BY <1>4, <2>1, <2>4
    <3>2. u[i - Len(s)].w = Len(s) + (i - Len(s))
      BY <3>1 DEF From
    <3>3. Len(s) + (i - Len(s)) = 0 + i
      BY <1>4, <2>1
    <3>4. QED
      BY <2>2, <2>4, <3>2, <3>3
  <2>5. QED
    BY <2>3, <2>4
<1>6. QED
  BY <1>2, <1>3, <1>5 DEF From

LEMMA Pair == ASSUME NEW S, NEW s \in Seq(S), Len(s) = 2 PROVE s = <<s[1], s[2]>>
OBVIOUS

\* Inboxes of up to two messages.
LEMMA Inbox ==
  ASSUME NEW m, NEW k
  PROVE  /\ Append(<<>>, m) = <<m>> /\ Append(<<m>>, k) = <<m, k>>
         /\ Head(<<m>>) = m /\ Tail(<<m>>) = <<>> /\ Head(<<m, k>>) = m /\ Tail(<<m, k>>) = <<k>>
         /\ <<m>> # <<>>
<1>1. Append(<<>>, m) = <<m>> /\ Append(<<m>>, k) = <<m, k>>
  <2>1. Append(<<>>, m) = <<m>>
    OBVIOUS
  <2>2. <<m>> \in Seq({m, k}) /\ <<m, k>> \in Seq({m, k}) /\ Len(<<m>>) = 1 /\ Len(<<m, k>>) = 2
    OBVIOUS
  <2>3. Append(<<m>>, k) \in Seq({m, k}) /\ Len(Append(<<m>>, k)) = 2
    BY <2>2
  <2>4. Append(<<m>>, k)[1] = m /\ Append(<<m>>, k)[2] = k
    BY <2>2
  <2>5. Append(<<m>>, k) = <<Append(<<m>>, k)[1], Append(<<m>>, k)[2]>>
    BY <2>3, Pair
  <2>6. QED
    BY <2>1, <2>4, <2>5
<1>2. Head(<<m>>) = m /\ Tail(<<m>>) = <<>>
  OBVIOUS
<1>3. Head(<<m, k>>) = m /\ Tail(<<m, k>>) = <<k>>
  OBVIOUS
<1>4. QED
  BY <1>1, <1>2, <1>3

\* The fields of a worker that loads what it took, and of one that is told of a bucket.
LEMMA LoadedFields ==
  ASSUME NEW s, NEW a, NEW b, NEW c, NEW e, NEW f, NEW g, NEW h, NEW i, NEW j, NEW k,
         s = [pc |-> a, inbox |-> b, meta |-> c, last |-> e, taken |-> f, loaded |-> g]
  PROVE  [s EXCEPT !.loaded = h, !.taken = j, !.meta = k, !.pc = i]
           = [pc |-> i, inbox |-> b, meta |-> k, last |-> e, taken |-> j, loaded |-> h]
<1> DEFINE p == [s EXCEPT !.loaded = h]
           q == [p EXCEPT !.taken = j]
           r == [q EXCEPT !.meta = k]
           u == [r EXCEPT !.pc = i]
<1>1. u = [s EXCEPT !.loaded = h, !.taken = j, !.meta = k, !.pc = i]
  OBVIOUS
<1>2. p = [pc |-> a, inbox |-> b, meta |-> c, last |-> e, taken |-> f, loaded |-> h]
  OBVIOUS
<1> HIDE DEF p
<1>3. q = [pc |-> a, inbox |-> b, meta |-> c, last |-> e, taken |-> j, loaded |-> h]
  BY <1>2
<1> HIDE DEF q
<1>4. r = [pc |-> a, inbox |-> b, meta |-> k, last |-> e, taken |-> j, loaded |-> h]
  BY <1>3
<1> HIDE DEF r
<1>5. u = [pc |-> i, inbox |-> b, meta |-> k, last |-> e, taken |-> j, loaded |-> h]
  BY <1>4
<1>6. QED
  BY <1>1, <1>5

LEMMA ToldFields ==
  ASSUME NEW s, NEW a, NEW b, NEW c, NEW e, NEW f, NEW g, NEW h, NEW i, NEW j, NEW k,
         s = [pc |-> a, inbox |-> b, meta |-> c, last |-> e, taken |-> f, loaded |-> g]
  PROVE  [s EXCEPT !.pc = h, !.meta = i, !.last = j, !.taken = k]
           = [pc |-> h, inbox |-> b, meta |-> i, last |-> j, taken |-> k, loaded |-> g]
<1> DEFINE p == [s EXCEPT !.pc = h]
           q == [p EXCEPT !.meta = i]
           r == [q EXCEPT !.last = j]
           u == [r EXCEPT !.taken = k]
<1>1. u = [s EXCEPT !.pc = h, !.meta = i, !.last = j, !.taken = k]
  OBVIOUS
<1>2. p = [pc |-> h, inbox |-> b, meta |-> c, last |-> e, taken |-> f, loaded |-> g]
  OBVIOUS
<1> HIDE DEF p
<1>3. q = [pc |-> h, inbox |-> b, meta |-> i, last |-> e, taken |-> f, loaded |-> g]
  BY <1>2
<1> HIDE DEF q
<1>4. r = [pc |-> h, inbox |-> b, meta |-> i, last |-> j, taken |-> f, loaded |-> g]
  BY <1>3
<1> HIDE DEF r
<1>5. u = [pc |-> h, inbox |-> b, meta |-> i, last |-> j, taken |-> k, loaded |-> g]
  BY <1>4
<1>6. QED
  BY <1>1, <1>5

\* The deployment.
LEMMA Deployment ==
  ASSUME plan \in Plans
  PROVE  /\ Count \in Nat /\ Weights = 1..Count
         /\ \A w \in Weights : Size(w) \in Nat /\ Size(w) > 0
         /\ Driver \in Ranks /\ plan.colocated \in BOOLEAN
         /\ IpcCap \in Nat /\ NcclCap \in Nat
<1>1. plan.sizes \in Seq(Nat \ {0}) /\ plan.tp \in Nat \ {0} /\ plan.colocated \in BOOLEAN
  BY TransferAssumption DEF TransferAssumption
<1>2. Count \in Nat /\ Weights = 1..Count /\ DOMAIN plan.sizes = 1..Count
  BY <1>1 DEF Count, Weights
<1>3. \A w \in Weights : Size(w) \in Nat /\ Size(w) > 0
  BY <1>1, <1>2 DEF Size
<1>4. Driver \in Ranks
  BY <1>1 DEF Driver, Ranks
<1>5. QED
  BY <1>1, <1>2, <1>3, <1>4, TransferAssumption DEF TransferAssumption

-----------------------------------------------------------------------------
(* The trainer's steps.                                                    *)

\* A weight put into the bucket has not been broadcast.
LEMMA FilledSends ==
  ASSUME plan \in Plans, NEW t \in Trainers, Sending(Count, t), t.nx \in Weights, t.pc # "off"
  PROVE  /\ Filled(t, t.nx) \in Trainers
         /\ Sending(Count, Filled(t, t.nx)) /\ Cast(Filled(t, t.nx)) = Cast(t)
         /\ Filled(t, t.nx).op = t.op /\ Filled(t, t.nx).pc = t.pc
<1> DEFINE w == t.nx
           e == [w |-> w, offset |-> t.bucket.offset]
           u == Filled(t, w)
           m == t.bucket.meta
<1>1. w \in Nat /\ Size(w) \in Nat /\ Count \in Nat /\ w >= 1 /\ w <= Count
  BY Deployment
<1>2. m \in Seq(Entry) /\ t.bucket.offset \in Nat /\ e \in Entry /\ t.queue \in Seq(Entry)
  BY <1>1 DEF Trainers, Bucket, Entry
<1>3. Append(m, e) \in Seq(Entry) /\ Append(t.queue, e) \in Seq(Entry) /\ t.bucket.offset + Size(w) \in Nat
  BY <1>1, <1>2
<1>4. /\ u.pc = t.pc /\ u.nx = w + 1 /\ u.op = t.op
      /\ u.bucket = [meta |-> Append(m, e), offset |-> t.bucket.offset + Size(w)]
  BY DEF Filled, Packed, Queued, Trainers
<1>5. u \in Trainers
  <2>1. [meta |-> Append(m, e), offset |-> t.bucket.offset + Size(w)] \in Bucket /\ w + 1 \in Nat
    BY <1>1, <1>3 DEF Bucket
  <2>2. Packed(t.bucket, w) = [meta |-> Append(m, e), offset |-> t.bucket.offset + Size(w)]
        /\ Queued(t, w) = Append(t.queue, e)
    BY DEF Packed, Queued
  <2> HIDE DEF e, m, w
  <2>3. QED
    BY <1>3, <2>1, <2>2 DEF u, Filled, Trainers
<1> HIDE DEF w, e, u, m
<1>6. IsSeq(m) /\ Len(m) \in Nat
  BY <1>2, SeqIsSeq, Indices
<1>7. w - 1 - Len(m) \in Int /\ w = (w - 1 - Len(m)) + Len(m) + 1 /\ e.w = w
  BY <1>1, <1>6 DEF e
<1>8. From(m, w - 1 - Len(m))
  BY DEF Sending, m, w
<1>9. IsSeq(Append(m, e)) /\ Len(Append(m, e)) = Len(m) + 1 /\ From(Append(m, e), w - 1 - Len(m))
  BY <1>6, <1>7, <1>8, Longer
<1>10. u.nx - 1 - Len(u.bucket.meta) = w - 1 - Len(m)
  <2>1. Len(u.bucket.meta) = Len(m) + 1 /\ u.nx = w + 1
    BY <1>4, <1>9
  <2>2. QED
    BY <2>1, <1>1, <1>6
<1>11. Cast(u) = Cast(t)
  BY <1>4, <1>10 DEF Cast, m, w
<1>12. ~(t.op.st # "idle" /\ t.op.last)
  BY <1>1 DEF Sending, w
<1>13. u.nx >= 1 /\ u.nx <= Count + 1
  BY <1>1, <1>4
<1>14. Sending(Count, u)
  BY <1>4, <1>9, <1>10, <1>11, <1>12, <1>13 DEF Sending
<1>15. QED
  BY <1>4, <1>5, <1>11, <1>14 DEF u, w

\* A bucket handed to a broadcast has not been broadcast.
LEMMA FlushedSends ==
  ASSUME NEW n \in Nat, NEW t \in Trainers, Sending(n, t), t.op.st = "idle", t.pc # "off",
         NEW last \in BOOLEAN, last => t.nx = n + 1
  PROVE  /\ Flushed(t, last) \in Trainers
         /\ Sending(n, Flushed(t, last)) /\ Cast(Flushed(t, last)) = Cast(t)
         /\ Flushed(t, last).op.st = "new" /\ Flushed(t, last).op.last = last
         /\ Flushed(t, last).pc = t.pc /\ Flushed(t, last).nx = t.nx
<1> DEFINE u == Flushed(t, last)
           m == t.bucket.meta
<1>1. /\ t.nx \in Nat /\ m \in Seq(Entry) /\ t.cur \in 0..1 /\ 1 - t.cur \in 0..1
      /\ <<>> \in Seq(Entry) /\ 0 \in Nat
  BY DEF Trainers, Bucket
<1>2. /\ u.pc = t.pc /\ u.nx = t.nx /\ u.bucket = [meta |-> <<>>, offset |-> 0]
      /\ u.op = [st |-> "new", buf |-> t.cur, meta |-> m, last |-> last]
  BY DEF Flushed, NoBucket, Trainers
<1>3. u \in Trainers
  BY <1>1 DEF Flushed, NoBucket, Trainers, Bucket
<1> HIDE DEF u, m
<1>4. Len(<<>>) = 0 /\ From(<<>>, u.nx - 1 - Len(<<>>)) /\ Len(m) \in Nat
  BY <1>1, EmptyIsSeq, SeqIsSeq, Indices
<1>5. Cast(t) = t.nx - 1 - Len(m) - 0 /\ Cast(u) = t.nx - 1 - 0 - Len(m)
  BY <1>2, <1>4 DEF Cast, m
<1>6. Cast(u) = Cast(t) /\ Cast(u) = t.nx - 1 - Len(m)
  <2>1. t.nx \in Int /\ Len(m) \in Int
    BY <1>1, <1>4
  <2>2. QED
    BY <1>5, <2>1
<1>7. From(m, t.nx - 1 - Len(m)) /\ t.nx >= 1 /\ t.nx <= n + 1 /\ Cast(t) >= 0
  BY DEF Sending, m
<1>8. Sending(n, u)
  BY <1>2, <1>4, <1>6, <1>7 DEF Sending
<1>9. QED
  BY <1>2, <1>3, <1>6, <1>8 DEF u

\* A replica that a step leaves alone.
LEMMA ReplicaAlone ==
  ASSUME NEW r \in Replicas, Replica(r), UNCHANGED plan, server'[r] = server[r], socket'[r] = socket[r],
         worker'[r] = worker[r], Cast(trainer') = Cast(trainer), Subscribed(trainer', topic'[r])
  PROVE  Replica(r)'
<1>1. Count' = Count /\ Ranks' = Ranks
  BY DEF Count, Ranks
<1>2. Group(Count, Ranks, worker[r])'
  BY <1>1 DEF Replica
<1>3. Talk(Count, server[r], socket[r], worker[r][Driver])'
  BY <1>1 DEF Replica
<1>4. Drawing(Count, server[r], socket[r], worker[r][Driver])'
  BY <1>1 DEF Replica
<1>5. Feed(Count, server[r], socket[r], worker[r][Driver], Cast(trainer))'
  BY <1>1 DEF Replica
<1>6. Fitting(server[r], socket[r], worker[r][Driver])'
  BY <1>1 DEF Replica, Fitting, Weights, Size
<1>7. QED
  BY <1>2, <1>3, <1>4, <1>5, <1>6 DEF Replica

\* A step of the trainer only.
LEMMA TrainerAlone ==
  ASSUME TransferInv, UNCHANGED <<plan, sync, version, server, socket, worker>>,
         trainer' \in Trainers, Sending(Count, trainer'), Cast(trainer') = Cast(trainer),
         plan.colocated => trainer'.pc = "off",
         sync = "off" => trainer'.op.st = "idle" /\ trainer'.pc \in {"off", "sent"},
         topic' \in [Replicas -> Seq(Metadata)],
         \A r \in Replicas : Subscribed(trainer', topic'[r])
  PROVE  TransferInv'
<1>1. Count' = Count /\ Ranks' = Ranks
  BY DEF Count, Ranks
<1>2. Shapes'
  BY <1>1 DEF TransferInv, Shapes
<1>3. \A r \in Replicas : Replica(r)'
  BY ReplicaAlone DEF TransferInv
<1>4. (sync = "off" => Still)'
  BY <1>1 DEF TransferInv, Still
<1>5. QED
  BY <1>1, <1>2, <1>3, <1>4 DEF TransferInv

LEMMA TrainerSteps ==
  ASSUME TransferInv, TrainerFill \/ TrainerFlush \/ TrainerLast \/ TrainerLand
  PROVE  TransferInv'
<1>1. /\ plan \in Plans /\ trainer \in Trainers /\ Sending(Count, trainer)
      /\ topic \in [Replicas -> Seq(Metadata)]
      /\ (plan.colocated => trainer.pc = "off")
      /\ (sync = "off" => trainer.op.st = "idle" /\ trainer.pc \in {"off", "sent"})
  BY DEF TransferInv, Shapes, Still
<1>2. UNCHANGED <<plan, sync, version, server, socket, worker, topic>>
  BY DEF TrainerFill, TrainerFlush, TrainerLast, TrainerLand
<1>3. \A r \in Replicas : Subscribed(trainer, topic[r])
  BY DEF TransferInv, Replica
<1>4. \A r \in Replicas :
        trainer'.op = trainer.op \/ (trainer.op.st = "idle" /\ trainer'.op.st = "new")
          => Subscribed(trainer', topic'[r])
  BY <1>2, <1>3 DEF Subscribed
<1>5. Count \in Nat /\ Weights = 1..Count
  BY <1>1, Deployment
<1>6. CASE TrainerFill
  <2>1. /\ trainer.pc = "send" /\ trainer.nx \in Weights
        /\ trainer' = Filled(trainer, trainer.nx)
    BY <1>6 DEF TrainerFill
  <2>2. /\ trainer' \in Trainers /\ Sending(Count, trainer') /\ Cast(trainer') = Cast(trainer)
        /\ trainer'.op = trainer.op /\ trainer'.pc = "send"
    BY <1>1, <2>1, FilledSends
  <2>3. QED
    BY <1>1, <1>2, <1>4, <2>1, <2>2, TrainerAlone
<1>7. CASE TrainerFlush
  <2> DEFINE u == Flushed(trainer, FALSE)
  <2>1. /\ trainer.pc = "send" /\ trainer.nx \in Weights /\ trainer.op.st = "idle"
        /\ trainer' = IF Size(trainer.nx) > NcclCap THEN [u EXCEPT !.pc = "failed"]
                      ELSE Filled(u, trainer.nx)
    BY <1>7 DEF TrainerFlush
  <2>2. /\ u \in Trainers /\ Sending(Count, u) /\ Cast(u) = Cast(trainer)
        /\ u.op.st = "new" /\ u.pc = "send" /\ u.nx = trainer.nx
    BY <1>1, <1>5, <2>1, FlushedSends
  <2> HIDE DEF u
  <2>3. CASE Size(trainer.nx) > NcclCap
    <3>1. /\ trainer'.pc = "failed" /\ trainer'.nx = u.nx /\ trainer'.bucket = u.bucket /\ trainer'.op = u.op
          /\ trainer' \in Trainers
      BY <2>1, <2>2, <2>3 DEF Trainers
    <3>2. Cast(trainer') = Cast(u)
      BY <3>1 DEF Cast
    <3>3. Sending(Count, trainer')
      BY <2>2, <3>1, <3>2 DEF Sending
    <3>4. QED
      BY <1>1, <1>2, <1>4, <2>1, <2>2, <3>1, <3>2, <3>3, TrainerAlone
  <2>4. CASE ~(Size(trainer.nx) > NcclCap)
    <3>1. trainer' = Filled(u, u.nx) /\ u.nx \in Weights
      BY <2>1, <2>2, <2>4
    <3>2. /\ trainer' \in Trainers /\ Sending(Count, trainer') /\ Cast(trainer') = Cast(u)
          /\ trainer'.op = u.op /\ trainer'.pc = "send"
      BY <1>1, <2>2, <3>1, FilledSends
    <3>3. QED
      BY <1>1, <1>2, <1>4, <2>1, <2>2, <3>2, TrainerAlone
  <2>5. QED
    BY <2>3, <2>4
<1>8. CASE TrainerLast
  <2> DEFINE u == Flushed(trainer, TRUE)
  <2>1. /\ trainer.pc = "send" /\ trainer.nx \notin Weights /\ trainer.op.st = "idle"
        /\ trainer' = [u EXCEPT !.pc = "sent"]
    BY <1>8 DEF TrainerLast
  <2>2. trainer.nx = Count + 1
    <3>1. trainer.nx \in Nat /\ trainer.nx >= 1 /\ trainer.nx <= Count + 1
      BY <1>1 DEF Trainers, Sending
    <3>2. QED
      BY <1>5, <2>1, <3>1
  <2>3. /\ u \in Trainers /\ Sending(Count, u) /\ Cast(u) = Cast(trainer)
        /\ u.op.st = "new" /\ u.pc = "send"
    BY <1>1, <1>5, <2>1, <2>2, FlushedSends
  <2> HIDE DEF u
  <2>4. /\ trainer'.pc = "sent" /\ trainer'.nx = u.nx /\ trainer'.bucket = u.bucket /\ trainer'.op = u.op
        /\ trainer' \in Trainers
    BY <2>1, <2>3 DEF Trainers
  <2>5. Cast(trainer') = Cast(u)
    BY <2>4 DEF Cast
  <2>6. Sending(Count, trainer')
    BY <2>3, <2>4, <2>5 DEF Sending
  <2>7. QED
    BY <1>1, <1>2, <1>4, <2>1, <2>3, <2>4, <2>5, <2>6, TrainerAlone
<1>9. CASE TrainerLand
  <2>1. Tail(trainer.queue) \in Seq(Entry)
    <3>1. trainer.queue \in Seq(Entry) /\ trainer.queue # <<>>
      BY <1>1, <1>9 DEF Trainers, TrainerLand
    <3>2. QED
      BY <3>1
  <2>2. /\ trainer'.pc = trainer.pc /\ trainer'.nx = trainer.nx /\ trainer'.bucket = trainer.bucket
        /\ trainer'.op = trainer.op /\ trainer' \in Trainers
    BY <1>1, <1>9, <2>1 DEF TrainerLand, Trainers
  <2>3. Cast(trainer') = Cast(trainer)
    BY <2>2 DEF Cast
  <2>4. Sending(Count, trainer')
    BY <1>1, <2>2, <2>3 DEF Sending
  <2>5. QED
    BY <1>1, <1>2, <1>4, <2>2, <2>3, <2>4, TrainerAlone
<1>10. QED
  BY <1>6, <1>7, <1>8, <1>9

\* A subscriber that has joined gets the metadata.
LEMMA PublishStep ==
  ASSUME TransferInv, Publish
  PROVE  TransferInv'
<1> DEFINE m == [meta |-> trainer.op.meta, last |-> trainer.op.last]
<1>1. /\ trainer \in Trainers /\ Sending(Count, trainer)
      /\ topic \in [Replicas -> Seq(Metadata)]
      /\ (plan.colocated => trainer.pc = "off")
      /\ (sync = "off" => trainer.op.st = "idle" /\ trainer.pc \in {"off", "sent"})
  BY DEF TransferInv, Shapes, Still
<1>2. /\ UNCHANGED <<plan, sync, version, server, socket, worker>> /\ trainer.op.st = "new"
      /\ trainer' = [trainer EXCEPT !.op.st = "sent"]
      /\ topic' = [r \in Replicas |-> IF r \in joined THEN Append(topic[r], m) ELSE topic[r]]
  BY DEF Publish
<1>3. /\ trainer'.pc = trainer.pc /\ trainer'.nx = trainer.nx /\ trainer'.bucket = trainer.bucket
      /\ trainer'.op.st = "sent" /\ trainer'.op.meta = trainer.op.meta /\ trainer'.op.last = trainer.op.last
      /\ trainer' \in Trainers
  BY <1>1, <1>2 DEF Trainers
<1>4. Cast(trainer') = Cast(trainer)
  BY <1>2, <1>3 DEF Cast
<1>5. Sending(Count, trainer')
  BY <1>1, <1>2, <1>3, <1>4 DEF Sending
<1>6. m \in Metadata
  BY <1>1 DEF Trainers, Metadata
<1> HIDE DEF m
<1>7. \A r \in Replicas : topic[r] = <<>>
  BY <1>2 DEF TransferInv, Replica, Subscribed
<1>8. \A r \in Replicas : topic'[r] = <<>> \/ topic'[r] = <<m>>
  BY <1>2, <1>7, Inbox
<1>9. topic' \in [Replicas -> Seq(Metadata)]
  <2>1. <<>> \in Seq(Metadata) /\ <<m>> \in Seq(Metadata)
    BY <1>6
  <2>2. QED
    BY <1>2, <1>8, <2>1
<1>10. \A r \in Replicas : Subscribed(trainer', topic'[r])
  BY <1>3, <1>8 DEF Subscribed, m
<1>11. QED
  BY <1>1, <1>2, <1>3, <1>4, <1>5, <1>9, <1>10, TrainerAlone

\* The collective hands a bucket to every server that awaits it.
LEMMA BroadcastStep ==
  ASSUME TransferInv, Broadcast
  PROVE  TransferInv'
<1> DEFINE m == [meta |-> trainer.op.meta, last |-> trainer.op.last]
           l == Len(trainer.op.meta)
<1>1. /\ trainer \in Trainers /\ Sending(Count, trainer) /\ plan \in Plans
      /\ topic \in [Replicas -> Seq(Metadata)] /\ server \in [Replicas -> Servers]
      /\ socket \in [Replicas -> Sockets]
      /\ (plan.colocated => trainer.pc = "off")
  BY DEF TransferInv, Shapes
<1>2. /\ UNCHANGED <<plan, sync, version, socket, worker>> /\ trainer.op.st = "sent"
      /\ trainer' = [trainer EXCEPT !.op.st = "idle"]
      /\ topic' = [r \in Replicas |-> Tail(topic[r])]
      /\ server' = [r \in Replicas |-> [server[r] EXCEPT !.op = [st |-> "done", got |-> Head(topic[r])]]]
      /\ (\A r \in Replicas : server[r].op.st = "run" /\ topic[r] # <<>>)
  BY DEF Broadcast
<1>3. /\ trainer'.pc = trainer.pc /\ trainer'.nx = trainer.nx /\ trainer'.bucket = trainer.bucket
      /\ trainer'.op.st = "idle" /\ trainer' \in Trainers
  BY <1>1, <1>2 DEF Trainers
<1>4. l \in Nat /\ Len(trainer.bucket.meta) \in Nat /\ trainer.nx \in Nat /\ Count \in Nat /\ m \in Metadata
  <2>1. trainer.op.meta \in Seq(Entry) /\ trainer.bucket.meta \in Seq(Entry) /\ m \in Metadata
    BY <1>1 DEF Trainers, Bucket, Metadata
  <2>2. QED
    BY <1>1, <2>1, Deployment, SeqIsSeq, Indices DEF Trainers
<1>5. Cast(trainer) = trainer.nx - 1 - Len(trainer.bucket.meta) - l
  BY <1>2 DEF Cast
<1>6. Cast(trainer') = trainer.nx - 1 - Len(trainer.bucket.meta) - 0
  BY <1>3 DEF Cast
<1>7. Cast(trainer') = Cast(trainer) + l /\ Cast(trainer) \in Int
  <2>1. l \in Int /\ Len(trainer.bucket.meta) \in Int /\ trainer.nx \in Int
    BY <1>4
  <2>2. QED
    BY <1>5, <1>6, <2>1
<1>8. trainer.nx >= 1 /\ trainer.nx <= Count + 1 /\ Cast(trainer) >= 0
  BY <1>1 DEF Sending
<1>9. Cast(trainer') >= 0 /\ Cast(trainer') <= Count
  <2>1. Cast(trainer') >= 0
    BY <1>4, <1>7, <1>8
  <2>2. Cast(trainer') <= Count
    BY <1>4, <1>6, <1>8
  <2>3. QED
    BY <2>1, <2>2
<1>10. trainer.op.last => Cast(trainer') = Count
  <2>1. SUFFICES ASSUME trainer.op.last PROVE Cast(trainer') = Count
    OBVIOUS
  <2>2. trainer.nx = Count + 1 /\ Len(trainer.bucket.meta) = 0
    BY <1>1, <1>2, <2>1, EmptyIsSeq DEF Sending
  <2>3. QED
    BY <1>4, <1>6, <2>2
<1>11. Sending(Count, trainer')
  BY <1>1, <1>3, <1>9 DEF Sending
<1>12. From(trainer.op.meta, Cast(trainer))
  BY <1>1, <1>2 DEF Sending
<1>13. \A r \in Replicas : topic[r] = <<m>>
  BY <1>2 DEF TransferInv, Replica, Subscribed
<1> HIDE DEF m, l
<1>14. \A r \in Replicas : Head(topic[r]) = m /\ Tail(topic[r]) = <<>>
  BY <1>13, Inbox
<1>15. topic' = [r \in Replicas |-> <<>>]
  BY <1>2, <1>14
<1>16. topic' \in [Replicas -> Seq(Metadata)] /\ \A r \in Replicas : Subscribed(trainer', topic'[r])
  BY <1>3, <1>15, EmptyIsSeq DEF Subscribed
<1>17. ASSUME NEW r \in Replicas
       PROVE  /\ server'[r] \in Servers /\ server'[r].pc = server[r].pc
              /\ server'[r].op = [st |-> "done", got |-> m]
              /\ server'[r].views = server[r].views /\ server'[r].last = server[r].last
              /\ server'[r].pos = server[r].pos /\ server'[r].bucket = server[r].bucket
  BY <1>1, <1>2, <1>4, <1>14 DEF Servers
<1>18. server' \in [Replicas -> Servers]
  BY <1>2, <1>17
<1>19. Count' = Count /\ Ranks' = Ranks
  BY <1>2 DEF Count, Ranks
<1>20. ASSUME NEW r \in Replicas
       PROVE  Replica(r)'
  <2> DEFINE s == server[r]
             u == server'[r]
             x == socket[r]
             d == worker[r][Driver]
  <2>1. Replica(r)
    BY DEF TransferInv
  <2>2. Gone(u, x, d) = Gone(s, x, d) /\ Before(u, x, d) = Before(s, x, d) /\ Got(u, x, d) = Got(s, x, d)
    BY <1>17 DEF Gone, Before, Got
  <2>3. Group(Count, Ranks, worker[r])' /\ Talk(Count, u, x, d)
    BY <1>2, <1>17, <1>19, <2>1 DEF Replica, Talk
  <2>4. Drawing(Count, u, x, d)
    BY <1>17, <2>1, <2>2 DEF Replica, Drawing
  <2>5. Fitting(u, x, d)
    BY <1>17, <2>1, <2>2 DEF Replica, Fitting
  <2>6. Feed(Count, u, x, d, Cast(trainer'))
    <3>1. s.op.st = "run" /\ Feed(Count, s, x, d, Cast(trainer))
      BY <1>2, <2>1 DEF Replica
    <3>2. u.pc \notin {"off", "shake", "shaking"}
      BY <1>17, <3>1 DEF Feed
    <3>3. ASSUME s.pc \in {"pull", "flush"}, ~s.last
          PROVE  /\ u.op.st = "done" /\ From(u.op.got.meta, Got(u, x, d))
                 /\ Cast(trainer') = Got(u, x, d) + Len(u.op.got.meta) /\ Cast(trainer') <= Count
                 /\ (u.op.got.last => Cast(trainer') = Count)
      <4>1. Cast(trainer) = Got(u, x, d)
        BY <2>2, <3>1, <3>3 DEF Feed
      <4>2. u.op.st = "done" /\ u.op.got.meta = trainer.op.meta /\ u.op.got.last = trainer.op.last
        BY <1>17 DEF m
      <4>3. QED
        BY <1>7, <1>9, <1>10, <1>12, <4>1, <4>2 DEF l
    <3>4. QED
      BY <1>17, <3>2, <3>3 DEF Feed
  <2>7. Fitting(s, x, d)' 
    BY <1>2, <2>5 DEF Fitting, Weights, Size
  <2>8. QED
    BY <1>2, <1>16, <1>19, <2>3, <2>4, <2>6, <2>7 DEF Replica
<1>21. sync # "off"
  BY <1>2 DEF TransferInv, Still
<1>22. Shapes'
  BY <1>2, <1>3, <1>16, <1>18, <1>19 DEF TransferInv, Shapes
<1>23. QED
  BY <1>1, <1>2, <1>3, <1>11, <1>19, <1>20, <1>21, <1>22 DEF TransferInv

-----------------------------------------------------------------------------
(* The server's steps.                                                     *)

\* A step of one server and its socket only.
LEMMA ServerAlone ==
  ASSUME TransferInv, NEW q \in Replicas, UNCHANGED <<plan, sync, version, trainer, topic, worker>>,
         NEW s \in Servers, NEW x \in Sockets,
         server' = [server EXCEPT ![q] = s], socket' = [socket EXCEPT ![q] = x],
         sync = "off" => s.pc \in {"off", "done"},
         Talk(Count, s, x, worker[q][Driver]), Drawing(Count, s, x, worker[q][Driver]),
         Feed(Count, s, x, worker[q][Driver], Cast(trainer)), Fitting(s, x, worker[q][Driver])
  PROVE  TransferInv'
<1>1. Count' = Count /\ Ranks' = Ranks
  BY DEF Count, Ranks
<1>2. server \in [Replicas -> Servers] /\ socket \in [Replicas -> Sockets]
  BY DEF TransferInv, Shapes
<1>3. /\ server' \in [Replicas -> Servers] /\ socket' \in [Replicas -> Sockets]
      /\ server'[q] = s /\ socket'[q] = x
      /\ \A r \in Replicas : r # q => server'[r] = server[r] /\ socket'[r] = socket[r]
  BY <1>2
<1>4. Shapes'
  BY <1>1, <1>3 DEF TransferInv, Shapes
<1>5. ASSUME NEW r \in Replicas
      PROVE  Replica(r)'
  <2>1. Replica(r) /\ Subscribed(trainer', topic'[r])
    BY DEF TransferInv, Replica
  <2>2. CASE r # q
    BY <1>3, <2>1, <2>2, ReplicaAlone
  <2>3. CASE r = q
    <3>1. Group(Count, Ranks, worker[r])'
      BY <1>1, <2>1 DEF Replica
    <3>2. Fitting(server[r], socket[r], worker[r][Driver])'
      BY <1>3, <2>3 DEF Fitting, Weights, Size
    <3>3. QED
      BY <1>1, <1>3, <2>1, <2>3, <3>1, <3>2 DEF Replica
  <2>4. QED
    BY <2>2, <2>3
<1>6. (sync = "off" => Still)'
  BY <1>1, <1>3 DEF TransferInv, Still
<1>7. QED
  BY <1>1, <1>4, <1>5, <1>6 DEF TransferInv

LEMMA NothingMoves ==
  ASSUME TransferInv, UNCHANGED <<plan, sync, version, trainer, topic, server, socket, worker>>
  PROVE  TransferInv'
<1>1. /\ trainer \in Trainers /\ Sending(Count, trainer) /\ topic \in [Replicas -> Seq(Metadata)]
      /\ (plan.colocated => trainer.pc = "off")
      /\ (sync = "off" => trainer.op.st = "idle" /\ trainer.pc \in {"off", "sent"})
      /\ \A r \in Replicas : Subscribed(trainer, topic[r])
  BY DEF TransferInv, Shapes, Still, Replica
<1>2. QED
  BY <1>1, TrainerAlone

\* What holds of the server of a replica before its step.
LEMMA ServerBefore ==
  ASSUME TransferInv, NEW r \in Replicas
  PROVE  /\ server[r] \in Servers /\ socket[r] \in Sockets /\ plan \in Plans
         /\ Member(Count, worker[r][Driver])
         /\ Talk(Count, server[r], socket[r], worker[r][Driver])
         /\ Drawing(Count, server[r], socket[r], worker[r][Driver])
         /\ Feed(Count, server[r], socket[r], worker[r][Driver], Cast(trainer))
         /\ Fitting(server[r], socket[r], worker[r][Driver])
         /\ (sync = "off" => server[r].pc \in {"off", "done"})
         /\ server = [server EXCEPT ![r] = server[r]] /\ socket = [socket EXCEPT ![r] = socket[r]]
<1>1. Replica(r) /\ plan \in Plans /\ server \in [Replicas -> Servers] /\ socket \in [Replicas -> Sockets]
  BY DEF TransferInv, Shapes
<1>2. Member(Count, worker[r][Driver])
  BY <1>1, Deployment DEF Replica, Group
<1>3. server = [server EXCEPT ![r] = server[r]] /\ socket = [socket EXCEPT ![r] = socket[r]]
  BY <1>1
<1>4. QED
  BY <1>1, <1>2, <1>3 DEF Replica, TransferInv, Still

\* The counts are numbers.
LEMMA CountsAreNumbers ==
  ASSUME NEW n, NEW s \in Servers, NEW x \in Sockets, NEW d, Member(n, d)
  PROVE  /\ Len(d.loaded) \in Nat /\ Len(d.meta) \in Nat /\ Len(d.taken) \in Nat /\ Seen(d) \in Nat
         /\ Len(s.bucket.meta) \in Nat /\ Len(s.views) \in Nat /\ Len(x.msg.meta) \in Nat /\ s.pos \in Nat
         /\ Len(s.op.got.meta) \in Nat
         /\ Gone(s, x, d) \in Nat /\ Before(s, x, d) \in Int /\ Got(s, x, d) \in Int
         /\ IsSeq(s.bucket.meta) /\ IsSeq(s.views)
<1>1. IsSeq(d.loaded) /\ IsSeq(d.taken) /\ d.meta \in Seq(Entry)
  BY DEF Member, Ranked
<1>2. /\ s.bucket.meta \in Seq(Entry) /\ s.views \in Seq(Entry) /\ x.msg.meta \in Seq(Entry)
      /\ s.op.got.meta \in Seq(Entry)
  BY DEF Servers, Sockets, Message, Bucket, Metadata
<1>3. Len(d.loaded) \in Nat /\ Len(d.meta) \in Nat /\ Len(d.taken) \in Nat
  BY <1>1, SeqIsSeq, Indices
<1>4. /\ Len(s.bucket.meta) \in Nat /\ Len(s.views) \in Nat /\ Len(x.msg.meta) \in Nat
      /\ Len(s.op.got.meta) \in Nat
  BY <1>2, SeqIsSeq, Indices
<1>5. Seen(d) \in Nat /\ s.pos \in Nat
  <2>1. s.pos \in Nat
    BY DEF Servers
  <2>2. Len(d.loaded) \in Nat /\ Len(d.meta) \in Nat
    BY <1>3
  <2>3. \A a, b \in Nat : a + b \in Nat
    OBVIOUS
  <2>4. Len(d.loaded) + Len(d.meta) \in Nat
    BY ONLY <2>2, <2>3, Zenon
  <2>5. QED
    BY <2>1, <2>4 DEF Seen
<1>6. InFlight(x) \in Nat
  BY <1>4 DEF InFlight
<1>7. Gone(s, x, d) \in Nat
  BY <1>4, <1>5, <1>6 DEF Gone
<1>8. Before(s, x, d) \in Int
  BY <1>5, <1>7 DEF Before
<1>9. Got(s, x, d) \in Int
  BY <1>4, <1>8 DEF Got
<1>10. QED
  BY <1>2, <1>3, <1>4, <1>5, <1>7, <1>8, <1>9, SeqIsSeq

LEMMA HandshakeStep ==
  ASSUME TransferInv, NEW r \in Replicas, Handshake(r)
  PROVE  TransferInv'
<1> DEFINE s == server[r]
           d == worker[r][Driver]
           u == [s EXCEPT !.pc = "shaking"]
           x == [st |-> "request", msg |-> Handle]
<1>1. /\ UNCHANGED <<plan, sync, version, trainer, topic, worker>> /\ s.pc = "shake"
      /\ server' = [server EXCEPT ![r] = u] /\ socket' = [socket EXCEPT ![r] = x]
  BY DEF Handshake, Request, Handle
<1>2. /\ s \in Servers
      /\ Talk(Count, s, socket[r], d) /\ Drawing(Count, s, socket[r], d)
      /\ Feed(Count, s, socket[r], d, Cast(trainer))
      /\ (sync = "off" => s.pc \in {"off", "done"})
  BY ServerBefore
<1>3. /\ u \in Servers /\ u.pc = "shaking" /\ u.pos = s.pos /\ u.bucket = s.bucket /\ u.op = s.op
      /\ u.views = s.views /\ u.last = s.last
  BY <1>2 DEF Servers
<1>4. x \in Sockets
  BY EmptyIsSeq DEF Sockets, Message, Handle
<1>5. Talk(Count, u, x, d)
  BY <1>1, <1>2, <1>3 DEF Talk
<1>6. Drawing(Count, u, x, d)
  BY <1>1, <1>2, <1>3 DEF Drawing
<1>7. Feed(Count, u, x, d, Cast(trainer)) /\ Fitting(u, x, d)
  BY <1>1, <1>2, <1>3 DEF Feed, Fitting
<1>8. sync # "off"
  BY <1>1, <1>2
<1> HIDE DEF u, x
<1>9. QED
  BY <1>1, <1>3, <1>4, <1>5, <1>6, <1>7, <1>8, ServerAlone

LEMMA AnsweredStep ==
  ASSUME TransferInv, NEW r \in Replicas, Answered(r)
  PROVE  TransferInv'
<1> DEFINE s == server[r]
           x == socket[r]
           d == worker[r][Driver]
           u == CASE s.pc = "shaking" -> Started(s)
                  [] s.pc = "flush" -> [s EXCEPT !.pc = "pull", !.bucket = NoBucket]
                  [] s.pc = "last" -> [s EXCEPT !.pc = "done", !.bucket = NoBucket]
<1>1. /\ UNCHANGED <<plan, sync, version, trainer, topic, worker>> /\ x.st = "answer"
      /\ server' = [server EXCEPT ![r] = u] /\ socket' = [socket EXCEPT ![r] = Idle]
  BY DEF Answered
<1>2. /\ s \in Servers /\ plan \in Plans /\ Member(Count, d)
      /\ Talk(Count, s, x, d) /\ Drawing(Count, s, x, d)
      /\ Feed(Count, s, x, d, Cast(trainer)) /\ Fitting(s, x, d)
      /\ (sync = "off" => s.pc \in {"off", "done"})
  BY ServerBefore
<1>3. Idle \in Sockets /\ Idle.st = "idle"
  BY EmptyIsSeq DEF Sockets, Message, Idle
<1>4. \/ s.pc = "shaking" /\ d.pc = "receive" /\ d.loaded = <<>>
      \/ /\ s.pc \in {"flush", "last"} /\ d.pc \in {"receive", "barrier", "load", "done"}
         /\ (d.last <=> s.pc = "last")
  BY <1>1, <1>2 DEF Talk
<1>5. sync # "off"
  BY <1>2, <1>4
<1>6. Count \in Nat /\ Weights = 1..Count /\ plan.colocated \in BOOLEAN
  BY <1>2, Deployment
<1>7. NoBucket \in Bucket /\ NoBucket.meta = <<>>
  BY EmptyIsSeq DEF NoBucket, Bucket
<1> HIDE DEF u
<1>8. ASSUME u \in Servers, Talk(Count, u, Idle, d), Drawing(Count, u, Idle, d),
             Feed(Count, u, Idle, d, Cast(trainer)), Fitting(u, Idle, d)
      PROVE  TransferInv'
  BY <1>1, <1>3, <1>5, <1>8, ServerAlone
<1>9. CASE s.pc = "shaking"
  <2>1. u = Started(s)
    BY <1>9 DEF u
  <2>2. /\ s.pos = 1 /\ s.bucket.meta = <<>> /\ s.views = <<>> /\ ~s.last
        /\ Cast(trainer) = 0
    BY <1>2, <1>9 DEF Drawing, Feed
  <2>3. Seen(d) = 0 /\ ~d.last /\ d.pc = "receive"
    <3>1. d.loaded = <<>> /\ d.meta = <<>> /\ ~d.last /\ d.pc = "receive"
      BY <1>2, <1>4, <1>9 DEF Member
    <3>2. QED
      BY <3>1, EmptyIsSeq DEF Seen
  <2>4. CASE plan.colocated
    <3> DEFINE v == [w \in Weights |-> [w |-> w, offset |-> 0]]
    <3>1. v \in Seq(Entry) /\ Len(v) = Count /\ From(v, 0)
      <4>1. v \in [1..Count -> Entry]
        BY <1>6 DEF Entry
      <4>2. v \in Seq(Entry) /\ Len(v) = Count
        BY <1>6, <4>1
      <4>3. ASSUME NEW i \in DOMAIN v PROVE v[i].w = 0 + i
        BY <1>6
      <4>4. QED
        BY <4>2, <4>3 DEF From
    <3> HIDE DEF v
    <3>2. u = [s EXCEPT !.pc = "pull", !.last = TRUE, !.views = v]
      BY <2>1, <2>4 DEF Started, v
    <3>3. /\ u \in Servers /\ u.pc = "pull" /\ u.last = TRUE /\ u.views = v /\ u.pos = 1
          /\ u.bucket.meta = <<>>
      BY <1>2, <2>2, <3>1, <3>2 DEF Servers
    <3>4. Gone(u, Idle, d) = 0 /\ Before(u, Idle, d) = 0 /\ Got(u, Idle, d) = Count
      <4>1. Gone(u, Idle, d) = 0
        BY <1>3, <2>3, <3>3, EmptyIsSeq DEF Gone, InFlight
      <4>2. Before(u, Idle, d) = 0
        BY <3>3, <4>1 DEF Before
      <4>3. QED
        BY <1>6, <3>1, <3>3, <4>1, <4>2 DEF Got
    <3>5. Talk(Count, u, Idle, d)
      BY <1>3, <2>3, <3>3 DEF Talk
    <3>6. Drawing(Count, u, Idle, d)
      <4>1. u.pos >= 1 /\ u.pos <= Len(u.views) + 1 /\ Got(u, Idle, d) <= Count
        BY <1>6, <3>1, <3>3, <3>4
      <4>2. QED
        BY <3>1, <3>3, <3>4, <4>1, EmptyIsSeq DEF Drawing
    <3>7. Feed(Count, u, Idle, d, Cast(trainer))
      BY <3>3 DEF Feed
    <3>8. Fitting(u, Idle, d)
      <4>1. \A w \in Weights : ~(w <= 0)
        BY <1>6
      <4>2. QED
        BY <3>3, <3>4, <4>1 DEF Fitting
    <3>9. QED
      BY <1>8, <3>3, <3>5, <3>6, <3>7, <3>8
  <2>5. CASE ~plan.colocated
    <3>1. u = [s EXCEPT !.pc = "pull", !.op = Receive]
      BY <2>1, <2>5 DEF Started
    <3>2. Receive.st = "run" /\ Receive \in [st : {"idle", "run", "done"}, got : Metadata]
      BY EmptyIsSeq DEF Receive, NoReceive, Metadata
    <3>3. /\ u \in Servers /\ u.pc = "pull" /\ ~u.last /\ u.views = <<>> /\ u.pos = 1
          /\ u.bucket.meta = <<>> /\ u.op.st = "run"
      BY <1>2, <2>2, <3>1, <3>2 DEF Servers
    <3>4. Gone(u, Idle, d) = 0 /\ Before(u, Idle, d) = 0 /\ Got(u, Idle, d) = 0
      <4>1. Gone(u, Idle, d) = 0
        BY <1>3, <2>3, <3>3, EmptyIsSeq DEF Gone, InFlight
      <4>2. Before(u, Idle, d) = 0
        BY <3>3, <4>1 DEF Before
      <4>3. QED
        BY <3>3, <4>1, <4>2, EmptyIsSeq DEF Got
    <3>5. Talk(Count, u, Idle, d)
      BY <1>3, <2>3, <3>3 DEF Talk
    <3>6. Drawing(Count, u, Idle, d)
      <4>1. u.pos >= 1 /\ u.pos <= Len(u.views) + 1 /\ Got(u, Idle, d) <= Count
        BY <1>6, <3>3, <3>4, EmptyIsSeq
      <4>2. QED
        BY <3>3, <3>4, <4>1, EmptyIsSeq DEF Drawing
    <3>7. Feed(Count, u, Idle, d, Cast(trainer))
      BY <2>2, <3>3, <3>4 DEF Feed
    <3>8. Fitting(u, Idle, d)
      <4>1. \A w \in Weights : ~(w <= 0)
        BY <1>6
      <4>2. QED
        BY <3>3, <3>4, <4>1 DEF Fitting
    <3>9. QED
      BY <1>8, <3>3, <3>5, <3>6, <3>7, <3>8
  <2>6. QED
    BY <1>6, <2>4, <2>5
<1>10. CASE s.pc = "flush"
  <2>1. u = [s EXCEPT !.pc = "pull", !.bucket = NoBucket]
    BY <1>10 DEF u
  <2>2. /\ u \in Servers /\ u.pc = "pull" /\ u.bucket.meta = <<>> /\ u.last = s.last /\ u.views = s.views
        /\ u.pos = s.pos /\ u.op = s.op
    BY <1>2, <1>7, <2>1 DEF Servers
  <2>3. Gone(u, Idle, d) = Gone(s, x, d)
    <3>1. Gone(u, Idle, d) = Seen(d) + 0 + 0 /\ Gone(s, x, d) = Seen(d) + 0 + 0
      BY <1>1, <1>3, <1>10, <2>2, EmptyIsSeq DEF Gone, InFlight
    <3>2. QED
      BY <3>1
  <2>4. Before(u, Idle, d) = Before(s, x, d) /\ Got(u, Idle, d) = Got(s, x, d)
    BY <2>2, <2>3 DEF Before, Got
  <2>5. Talk(Count, u, Idle, d)
    BY <1>2, <1>3, <1>4, <1>10, <2>2 DEF Talk, Member
  <2>6. Drawing(Count, u, Idle, d)
    BY <1>2, <1>10, <2>2, <2>3, <2>4, EmptyIsSeq DEF Drawing
  <2>7. Feed(Count, u, Idle, d, Cast(trainer))
    BY <1>2, <1>10, <2>2, <2>4 DEF Feed
  <2>8. Fitting(u, Idle, d)
    BY <1>2, <1>10, <2>2, <2>3 DEF Fitting
  <2>9. QED
    BY <1>8, <2>2, <2>5, <2>6, <2>7, <2>8
<1>11. CASE s.pc = "last"
  <2>1. u = [s EXCEPT !.pc = "done", !.bucket = NoBucket]
    BY <1>11 DEF u
  <2>2. u \in Servers /\ u.pc = "done"
    BY <1>2, <1>7, <2>1 DEF Servers
  <2>3. Gone(u, Idle, d) = Gone(s, x, d)
    BY <1>1, <1>3, <1>11, <2>2 DEF Gone, InFlight
  <2>4. Talk(Count, u, Idle, d)
    BY <1>2, <1>3, <1>4, <1>11, <2>2 DEF Talk, Member
  <2>5. Drawing(Count, u, Idle, d) /\ Feed(Count, u, Idle, d, Cast(trainer))
    BY <2>2 DEF Drawing, Feed
  <2>6. Fitting(u, Idle, d)
    BY <1>2, <1>11, <2>2, <2>3 DEF Fitting
  <2>7. QED
    BY <1>8, <2>2, <2>4, <2>5, <2>6
<1>12. QED
  BY <1>4, <1>9, <1>10, <1>11

\* The weight a server draws is the one after those it has put into buckets.
LEMMA DrawnNext ==
  ASSUME TransferInv, NEW r \in Replicas, HasView(r)
  PROVE  LET s == server[r]
             x == socket[r]
             d == worker[r][Driver] IN
         /\ s.pc = "pull" /\ x.st = "idle" /\ Drawn(s) \in Entry
         /\ Gone(s, x, d) = Seen(d) + Len(s.bucket.meta)
         /\ Drawn(s).w = Gone(s, x, d) + 1 /\ Drawn(s).w \in Weights
         /\ d.pc \in {"receive", "barrier", "load"} /\ ~d.last
         /\ s.pos >= 1 /\ s.pos <= Len(s.views)
<1> DEFINE s == server[r]
           x == socket[r]
           d == worker[r][Driver]
           g == Gone(s, x, d)
           p == s.pos
           l == Len(s.views)
<1>1. s.pc = "pull" /\ p <= l
  BY DEF HasView
<1>2. /\ s \in Servers /\ x \in Sockets /\ plan \in Plans /\ Member(Count, d)
      /\ Talk(Count, s, x, d) /\ Drawing(Count, s, x, d)
  BY ServerBefore
<1>3. x.st = "idle" /\ d.pc \in {"receive", "barrier", "load"} /\ ~d.last
  BY <1>1, <1>2 DEF Talk
<1>4. g \in Nat /\ p \in Nat /\ l \in Nat /\ Count \in Nat /\ Seen(d) \in Nat /\ Len(s.bucket.meta) \in Nat
  BY <1>2, CountsAreNumbers, Deployment
<1>5. p >= 1 /\ From(s.views, Before(s, x, d)) /\ Got(s, x, d) <= Count
  BY <1>1, <1>2 DEF Drawing
<1>6. IsSeq(s.views) /\ s.views \in Seq(Entry)
  BY <1>2, SeqIsSeq DEF Servers
<1>7. p \in DOMAIN s.views
  <2>1. DOMAIN s.views = 1..l
    BY <1>6, Indices
  <2>2. QED
    BY <1>1, <1>4, <1>5, <2>1
<1>8. Drawn(s) \in Entry
  BY <1>6, <1>7 DEF Drawn
<1>9. Before(s, x, d) = g - (p - 1) /\ Got(s, x, d) = g - (p - 1) + l
  BY DEF Before, Got
<1>10. Drawn(s).w = (g - (p - 1)) + p
  BY <1>5, <1>7, <1>9 DEF Drawn, From
<1> HIDE DEF g, p, l
<1>11. Drawn(s).w = g + 1 /\ g + 1 <= Count
  <2>1. (g - (p - 1)) + p = g + 1
    BY <1>4
  <2>2. g + 1 <= g - (p - 1) + l
    BY <1>1, <1>4
  <2>3. g - (p - 1) + l <= Count
    BY <1>5, <1>9
  <2>4. QED
    BY <1>4, <1>10, <2>1, <2>2, <2>3
<1>12. Weights = 1..Count
  BY <1>2, Deployment
<1>13. g + 1 \in Weights
  BY <1>4, <1>11, <1>12
<1>14. Gone(s, x, d) = Seen(d) + Len(s.bucket.meta)
  <2>1. Gone(s, x, d) = Seen(d) + 0 + Len(s.bucket.meta)
    BY <1>1, <1>3 DEF Gone, InFlight
  <2>2. QED
    BY <1>4, <2>1
<1>15. QED
  BY <1>1, <1>3, <1>5, <1>8, <1>11, <1>13, <1>14 DEF g, p, l

LEMMA ProcessStep ==
  ASSUME TransferInv, NEW r \in Replicas, Process(r)
  PROVE  TransferInv'
<1> DEFINE s == server[r]
           x == socket[r]
           d == worker[r][Driver]
           w == Drawn(s).w
           m == s.bucket.meta
           e == [w |-> w, offset |-> s.bucket.offset]
           c == [w |-> w, offset |-> s.bucket.offset, from |-> s.cur, start |-> Drawn(s).offset]
           u == [s EXCEPT !.pos = @ + 1, !.bucket = Packed(@, w), !.queue = Append(@, c)]
<1>1. /\ UNCHANGED <<plan, sync, version, trainer, topic, worker, socket>> /\ HasView(r)
      /\ s.bucket.offset + Size(w) <= IpcCap
      /\ server' = [server EXCEPT ![r].pos = @ + 1, ![r].bucket = Packed(@, w), ![r].queue = Append(@, c)]
  BY DEF Process
<1>2. /\ s \in Servers /\ x \in Sockets /\ plan \in Plans /\ Member(Count, d)
      /\ Talk(Count, s, x, d) /\ Drawing(Count, s, x, d)
      /\ Feed(Count, s, x, d, Cast(trainer)) /\ Fitting(s, x, d)
      /\ (sync = "off" => s.pc \in {"off", "done"})
      /\ socket = [socket EXCEPT ![r] = x]
      /\ server \in [Replicas -> Servers]
  BY ServerBefore DEF TransferInv, Shapes
<1>3. /\ s.pc = "pull" /\ x.st = "idle" /\ Drawn(s) \in Entry
      /\ Gone(s, x, d) = Seen(d) + Len(m) /\ w = Gone(s, x, d) + 1 /\ w \in Weights
      /\ s.pos >= 1 /\ s.pos <= Len(s.views)
  BY <1>1, DrawnNext
<1>4. /\ Seen(d) \in Nat /\ Len(m) \in Nat /\ IsSeq(m) /\ s.pos \in Nat /\ Len(s.views) \in Nat
      /\ Gone(s, x, d) \in Nat
  BY <1>2, CountsAreNumbers
<1>5. Size(w) \in Nat /\ IpcCap \in Nat /\ w \in Nat
  BY <1>2, <1>3, Deployment DEF Entry
<1>6. server' = [server EXCEPT ![r] = u]
  BY <1>1, <1>2
<1>7. /\ m \in Seq(Entry) /\ s.bucket.offset \in Nat /\ e \in Entry
      /\ c \in [w : Nat, offset : Nat, from : 0..1, start : Nat]
      /\ s.queue \in Seq([w : Nat, offset : Nat, from : 0..1, start : Nat])
  BY <1>2, <1>3, <1>5 DEF Servers, Bucket, Entry
<1>8. /\ Packed(s.bucket, w) = [meta |-> Append(m, e), offset |-> s.bucket.offset + Size(w)]
      /\ Packed(s.bucket, w) \in Bucket
  <2>1. Append(m, e) \in Seq(Entry) /\ s.bucket.offset + Size(w) \in Nat
    BY <1>5, <1>7
  <2>2. QED
    BY <2>1 DEF Packed, Bucket
<1>9. Append(s.queue, c) \in Seq([w : Nat, offset : Nat, from : 0..1, start : Nat]) /\ s.pos + 1 \in Nat
  BY <1>4, <1>7
<1>10. e.w = w
  OBVIOUS
<1>11. /\ u \in Servers /\ u.pc = "pull" /\ u.pos = s.pos + 1 /\ u.bucket.meta = Append(m, e)
       /\ u.views = s.views /\ u.last = s.last /\ u.op = s.op
  <2> DEFINE p == s.pos + 1
             b == Packed(s.bucket, w)
             q == Append(s.queue, c)
  <2>1. u = [s EXCEPT !.pos = p, !.bucket = b, !.queue = q]
    OBVIOUS
  <2>2. /\ p \in Nat /\ b \in Bucket /\ b.meta = Append(m, e)
        /\ q \in Seq([w : Nat, offset : Nat, from : 0..1, start : Nat])
    BY <1>8, <1>9
  <2>3. p = s.pos + 1
    OBVIOUS
  <2> HIDE DEF u, p, b, q, c, e, w, m
  <2>4. QED
    BY <1>2, <1>3, <2>1, <2>2, <2>3 DEF Servers
<1> HIDE DEF c, e, u, w
<1>12. From(m, Seen(d))
  BY <1>2, <1>3 DEF Drawing
<1>13. Len(Append(m, e)) = Len(m) + 1 /\ From(Append(m, e), Seen(d))
  BY <1>3, <1>4, <1>10, <1>12, Longer
<1>14. Gone(u, x, d) = Gone(s, x, d) + 1
  <2>1. Gone(u, x, d) = Seen(d) + 0 + (Len(m) + 1)
    BY <1>3, <1>11, <1>13 DEF Gone, InFlight
  <2>2. QED
    BY <1>3, <1>4, <2>1
<1>15. Before(u, x, d) = Before(s, x, d) /\ Got(u, x, d) = Got(s, x, d)
  <2>1. Before(u, x, d) = (Gone(s, x, d) + 1) - ((s.pos + 1) - 1) /\ Before(s, x, d) = Gone(s, x, d) - (s.pos - 1)
    BY <1>11, <1>14 DEF Before
  <2>2. Gone(s, x, d) \in Int /\ s.pos \in Int
    BY <1>4
  <2>3. (Gone(s, x, d) + 1) - ((s.pos + 1) - 1) = Gone(s, x, d) - (s.pos - 1)
    BY ONLY <2>2
  <2>4. Before(u, x, d) = Before(s, x, d)
    BY <2>1, <2>3
  <2>5. QED
    BY <1>11, <2>4 DEF Got
<1>16. Talk(Count, u, x, d)
  BY <1>2, <1>3, <1>11 DEF Talk
<1>17. Drawing(Count, u, x, d)
  <2>1. u.pos >= 1 /\ u.pos <= Len(u.views) + 1
    BY <1>3, <1>4, <1>11
  <2>2. QED
    BY <1>2, <1>3, <1>11, <1>13, <1>15, <2>1 DEF Drawing
<1>18. Feed(Count, u, x, d, Cast(trainer))
  BY <1>2, <1>3, <1>11, <1>15 DEF Feed
<1>19. Fitting(u, x, d)
  <2>1. Size(w) <= IpcCap
    BY <1>1, <1>5, <1>7 DEF w
  <2>2. \A v \in Weights : v <= Gone(s, x, d) => Size(v) <= IpcCap
    BY <1>2, <1>3 DEF Fitting
  <2>3. ASSUME NEW v \in Weights, v <= Gone(u, x, d)
        PROVE  Size(v) <= IpcCap
    <3>1. v \in Int
      BY <1>2, Deployment
    <3>2. v <= Gone(s, x, d) \/ v = w
      BY <1>3, <1>4, <1>14, <2>3, <3>1
    <3>3. QED
      BY <2>1, <2>2, <3>2
  <2>4. QED
    BY <1>11, <2>3 DEF Fitting
<1>20. sync = "off" => u.pc \in {"off", "done"}
  BY <1>2, <1>3
<1>21. /\ UNCHANGED <<plan, sync, version, trainer, topic, worker>> /\ socket' = [socket EXCEPT ![r] = x]
       /\ u \in Servers /\ x \in Sockets
  BY <1>1, <1>2, <1>11
<1> HIDE DEF s, x, d
<1>22. QED
  BY <1>6, <1>16, <1>17, <1>18, <1>19, <1>20, <1>21, ServerAlone DEF d

LEMMA TooLargeStep ==
  ASSUME TransferInv, NEW r \in Replicas, TooLarge(r)
  PROVE  TransferInv'
<1> DEFINE s == server[r]
           x == socket[r]
           d == worker[r][Driver]
           u == [s EXCEPT !.pc = "failed"]
<1>1. /\ UNCHANGED <<plan, sync, version, trainer, topic, worker, socket>> /\ HasView(r)
      /\ Size(Drawn(s).w) > IpcCap /\ server' = [server EXCEPT ![r] = u]
  BY DEF TooLarge
<1>2. /\ s \in Servers /\ x \in Sockets /\ Talk(Count, s, x, d)
      /\ (sync = "off" => s.pc \in {"off", "done"}) /\ socket = [socket EXCEPT ![r] = x]
  BY ServerBefore
<1>3. s.pc = "pull" /\ Drawn(s).w \in Weights
  BY <1>1, DrawnNext
<1>4. u \in Servers /\ u.pc = "failed"
  BY <1>2 DEF Servers
<1> HIDE DEF u
<1>5. Talk(Count, u, x, d)
  BY <1>2, <1>3, <1>4 DEF Talk
<1>6. Drawing(Count, u, x, d) /\ Feed(Count, u, x, d, Cast(trainer))
  BY <1>4 DEF Drawing, Feed
<1>7. Fitting(u, x, d)
  BY <1>1, <1>3, <1>4 DEF Fitting
<1>8. sync # "off"
  BY <1>2, <1>3
<1>9. QED
  BY <1>1, <1>2, <1>4, <1>5, <1>6, <1>7, <1>8, ServerAlone

LEMMA FlushStep ==
  ASSUME TransferInv, NEW r \in Replicas, NEW last \in BOOLEAN, Flush(r, last)
  PROVE  TransferInv'
<1> DEFINE s == server[r]
           x == socket[r]
           d == worker[r][Driver]
           pc == IF last THEN "last" ELSE "flush"
           u == [s EXCEPT !.pc = pc, !.queue = <<>>]
           y == [st |-> "request", msg |-> [kind |-> "bucket", meta |-> s.bucket.meta, last |-> last]]
           g == Gone(s, x, d)
           m == Len(s.bucket.meta)
           l == Len(s.views)
<1>1. /\ UNCHANGED <<plan, sync, version, trainer, topic, worker>>
      /\ s.pc = "pull"
      /\ (last => s.pos > l /\ s.last) /\ (~last => s.pos <= l)
      /\ server' = [server EXCEPT ![r].pc = pc, ![r].queue = <<>>] /\ socket' = [socket EXCEPT ![r] = y]
  BY DEF Flush, Request, HasView
<1>2. /\ s \in Servers /\ x \in Sockets /\ plan \in Plans /\ Member(Count, d)
      /\ Talk(Count, s, x, d) /\ Drawing(Count, s, x, d)
      /\ Feed(Count, s, x, d, Cast(trainer)) /\ Fitting(s, x, d)
      /\ (sync = "off" => s.pc \in {"off", "done"})
      /\ server \in [Replicas -> Servers]
  BY ServerBefore DEF TransferInv, Shapes
<1>3. server' = [server EXCEPT ![r] = u]
  BY <1>1, <1>2
<1>4. x.st = "idle" /\ d.pc \in {"receive", "barrier", "load"} /\ ~d.last
  BY <1>1, <1>2 DEF Talk
<1>5. s.bucket.meta \in Seq(Entry) /\ <<>> \in Seq([w : Nat, offset : Nat, from : 0..1, start : Nat])
  BY <1>2 DEF Servers, Bucket
<1>6. /\ u \in Servers /\ u.pc = pc /\ u.pos = s.pos /\ u.bucket = s.bucket /\ u.views = s.views
      /\ u.last = s.last /\ u.op = s.op
  BY <1>2, <1>5 DEF Servers
<1>7. y \in Sockets /\ y.st = "request" /\ y.msg.kind = "bucket" /\ y.msg.meta = s.bucket.meta /\ y.msg.last = last
  BY <1>5 DEF Sockets, Message
<1>8. g \in Nat /\ m \in Nat /\ l \in Nat /\ s.pos \in Nat /\ Seen(d) \in Nat /\ Count \in Nat
  BY <1>2, CountsAreNumbers, Deployment
<1>9. g = Seen(d) + m
  <2>1. g = Seen(d) + 0 + m
    BY <1>1, <1>4 DEF Gone, InFlight
  <2>2. QED
    BY <1>8, <2>1
<1>10. /\ From(s.bucket.meta, Seen(d)) /\ s.pos >= 1 /\ s.pos <= l + 1
       /\ Got(s, x, d) <= Count /\ (s.last => Got(s, x, d) = Count)
  BY <1>1, <1>2 DEF Drawing
<1>11. Got(s, x, d) = g - (s.pos - 1) + l
  BY DEF Got, Before
<1> HIDE DEF u, y, g, m, l
<1>12. Seen(d) + m <= Count /\ (last => Seen(d) + m = Count)
  <2>1. g <= Got(s, x, d) /\ Got(s, x, d) \in Int
    BY <1>8, <1>10, <1>11
  <2>2. g <= Count
    BY <1>8, <1>10, <2>1
  <2>3. ASSUME last PROVE g = Count
    <3>1. s.pos = l + 1
      BY <1>1, <1>8, <1>10, <2>3
    <3>2. Got(s, x, d) = g
      BY <1>8, <1>11, <3>1
    <3>3. QED
      BY <1>1, <1>10, <2>3, <3>2
  <2>4. QED
    BY <1>9, <2>2, <2>3
<1>13. Talk(Count, u, y, d)
  BY <1>4, <1>6, <1>7, <1>10, <1>12 DEF Talk, m
<1>14. Gone(u, y, d) = Gone(s, x, d)
  <2>1. Gone(u, y, d) = Seen(d) + m + 0
    BY <1>6, <1>7 DEF Gone, InFlight, m
  <2>2. QED
    BY <1>8, <1>9, <2>1 DEF g
<1>15. Before(u, y, d) = Before(s, x, d) /\ Got(u, y, d) = Got(s, x, d)
  BY <1>6, <1>14 DEF Before, Got
<1>16. Drawing(Count, u, y, d)
  BY <1>1, <1>2, <1>6, <1>15 DEF Drawing
<1>17. Feed(Count, u, y, d, Cast(trainer))
  BY <1>1, <1>2, <1>6, <1>15 DEF Feed
<1>18. Fitting(u, y, d)
  BY <1>1, <1>2, <1>6, <1>14 DEF Fitting
<1>19. sync # "off"
  BY <1>1, <1>2
<1>20. QED
  BY <1>1, <1>3, <1>6, <1>7, <1>13, <1>16, <1>17, <1>18, <1>19, ServerAlone

LEMMA NextBucketStep ==
  ASSUME TransferInv, NEW r \in Replicas, NextBucket(r)
  PROVE  TransferInv'
<1> DEFINE s == server[r]
           x == socket[r]
           d == worker[r][Driver]
           v == s.op.got.meta
           o == IF s.op.got.last THEN NoReceive ELSE Receive
           u == [s EXCEPT !.cur = 1 - s.cur, !.views = v, !.last = s.op.got.last,
                          !.pos = 1, !.queue = <<>>, !.op = o]
<1>1. /\ UNCHANGED <<plan, sync, version, trainer, topic, worker, socket>>
      /\ s.pc = "pull" /\ s.pos > Len(s.views) /\ ~s.last /\ s.op.st = "done"
      /\ server' = [server EXCEPT ![r] = u]
  BY DEF NextBucket
<1>2. /\ s \in Servers /\ x \in Sockets /\ plan \in Plans /\ Member(Count, d)
      /\ Talk(Count, s, x, d) /\ Drawing(Count, s, x, d)
      /\ Feed(Count, s, x, d, Cast(trainer)) /\ Fitting(s, x, d)
      /\ (sync = "off" => s.pc \in {"off", "done"}) /\ socket = [socket EXCEPT ![r] = x]
  BY ServerBefore
<1>3. /\ v \in Seq(Entry) /\ s.op.got.last \in BOOLEAN /\ 1 - s.cur \in 0..1 /\ 1 \in Nat
      /\ <<>> \in Seq([w : Nat, offset : Nat, from : 0..1, start : Nat])
  BY <1>2 DEF Servers, Metadata
<1>4. /\ NoReceive \in [st : {"idle", "run", "done"}, got : Metadata]
      /\ Receive \in [st : {"idle", "run", "done"}, got : Metadata] /\ Receive.st = "run"
  BY EmptyIsSeq DEF NoReceive, Receive, Metadata
<1>5. o \in [st : {"idle", "run", "done"}, got : Metadata] /\ (~s.op.got.last => o.st = "run")
  BY <1>4
<1> HIDE DEF o, v
<1>6. /\ u \in Servers /\ u.pc = "pull" /\ u.pos = 1 /\ u.bucket = s.bucket /\ u.views = v
      /\ u.last = s.op.got.last /\ u.op = o
  BY <1>1, <1>2, <1>3, <1>5 DEF Servers
<1> HIDE DEF u
<1>7. /\ Gone(s, x, d) \in Nat /\ Len(s.views) \in Nat /\ s.pos \in Nat /\ Len(v) \in Nat /\ Count \in Nat
  BY <1>2, CountsAreNumbers, Deployment DEF v
<1>8. s.pos = Len(s.views) + 1
  <2>1. s.pos <= Len(s.views) + 1
    BY <1>1, <1>2 DEF Drawing
  <2>2. QED
    BY <1>1, <1>7, <2>1
<1>9. Got(s, x, d) = Gone(s, x, d)
  <2>1. Got(s, x, d) = Gone(s, x, d) - (s.pos - 1) + Len(s.views)
    BY DEF Got, Before
  <2>2. QED
    BY <1>7, <1>8, <2>1
<1>10. /\ From(v, Gone(s, x, d)) /\ Cast(trainer) = Gone(s, x, d) + Len(v) /\ Cast(trainer) <= Count
       /\ (s.op.got.last => Cast(trainer) = Count)
  BY <1>1, <1>2, <1>9 DEF Feed, v
<1>11. Gone(u, x, d) = Gone(s, x, d)
  BY <1>1, <1>6 DEF Gone
<1>12. Before(u, x, d) = Gone(s, x, d) /\ Got(u, x, d) = Cast(trainer)
  <2>1. Before(u, x, d) = Gone(s, x, d) - (1 - 1)
    BY <1>6, <1>11 DEF Before
  <2>2. Before(u, x, d) = Gone(s, x, d)
    BY <1>7, <2>1
  <2>3. QED
    BY <1>6, <1>10, <2>2 DEF Got
<1>13. Talk(Count, u, x, d)
  BY <1>1, <1>2, <1>6 DEF Talk
<1>14. Drawing(Count, u, x, d)
  <2>1. u.pos >= 1 /\ u.pos <= Len(u.views) + 1
    BY <1>6, <1>7
  <2>2. QED
    BY <1>1, <1>2, <1>6, <1>10, <1>12, <2>1 DEF Drawing
<1>15. Feed(Count, u, x, d, Cast(trainer))
  BY <1>3, <1>5, <1>6, <1>12 DEF Feed
<1>16. Fitting(u, x, d)
  BY <1>1, <1>2, <1>6, <1>11 DEF Fitting
<1>17. sync # "off"
  BY <1>1, <1>2
<1>18. QED
  BY <1>1, <1>2, <1>6, <1>13, <1>14, <1>15, <1>16, <1>17, ServerAlone

LEMMA LandStep ==
  ASSUME TransferInv, NEW r \in Replicas, Land(r)
  PROVE  TransferInv'
<1> DEFINE s == server[r]
           x == socket[r]
           d == worker[r][Driver]
           u == [s EXCEPT !.queue = Tail(@)]
<1>1. /\ UNCHANGED <<plan, sync, version, trainer, topic, worker, socket>> /\ s.queue # <<>>
      /\ server' = [server EXCEPT ![r].queue = Tail(@)]
  BY DEF Land
<1>2. /\ s \in Servers /\ x \in Sockets /\ Talk(Count, s, x, d) /\ Drawing(Count, s, x, d)
      /\ Feed(Count, s, x, d, Cast(trainer)) /\ Fitting(s, x, d)
      /\ (sync = "off" => s.pc \in {"off", "done"}) /\ socket = [socket EXCEPT ![r] = x]
      /\ server \in [Replicas -> Servers]
  BY ServerBefore DEF TransferInv, Shapes
<1>3. server' = [server EXCEPT ![r] = u]
  BY <1>1, <1>2
<1>4. Tail(s.queue) \in Seq([w : Nat, offset : Nat, from : 0..1, start : Nat])
  <2>1. s.queue \in Seq([w : Nat, offset : Nat, from : 0..1, start : Nat])
    BY <1>2 DEF Servers
  <2>2. QED
    BY <1>1, <2>1
<1>5. /\ u \in Servers /\ u.pc = s.pc /\ u.pos = s.pos /\ u.bucket = s.bucket /\ u.views = s.views
      /\ u.last = s.last /\ u.op = s.op
  BY <1>2, <1>4 DEF Servers
<1> HIDE DEF u
<1>6. Gone(u, x, d) = Gone(s, x, d) /\ Before(u, x, d) = Before(s, x, d) /\ Got(u, x, d) = Got(s, x, d)
  BY <1>5 DEF Gone, Before, Got
<1>7. Talk(Count, u, x, d)
  BY <1>2, <1>5 DEF Talk
<1>8. Drawing(Count, u, x, d)
  BY <1>2, <1>5, <1>6 DEF Drawing
<1>9. Feed(Count, u, x, d, Cast(trainer))
  BY <1>2, <1>5, <1>6 DEF Feed
<1>10. Fitting(u, x, d)
  BY <1>2, <1>5, <1>6 DEF Fitting
<1>11. QED
  BY <1>1, <1>2, <1>3, <1>5, <1>7, <1>8, <1>9, <1>10, ServerAlone

LEMMA ServerSteps ==
  ASSUME TransferInv, NEW r \in Replicas, ServerNext(r)
  PROVE  TransferInv'
<1>1. CASE Join(r)
  BY <1>1, NothingMoves DEF Join
<1>2. QED
  BY <1>1, HandshakeStep, AnsweredStep, ProcessStep, TooLargeStep, FlushStep, NextBucketStep, LandStep
     DEF ServerNext
-----------------------------------------------------------------------------
(* The workers' steps.                                                     *)

\* A step of the workers of one replica and its socket only: a message the
\* driver worker takes is no longer on its way.
LEMMA WorkerAlone ==
  ASSUME TransferInv, NEW q \in Replicas, UNCHANGED <<plan, sync, version, trainer, topic, server>>,
         NEW ws, NEW x \in Sockets, sync # "off", DOMAIN ws = Ranks,
         worker' = [worker EXCEPT ![q] = ws], socket' = [socket EXCEPT ![q] = x],
         Group(Count, Ranks, ws), Talk(Count, server[q], x, ws[Driver]),
         Seen(ws[Driver]) + InFlight(x) = Seen(worker[q][Driver]) + InFlight(socket[q]),
         server[q].pc = "pull" => Seen(ws[Driver]) = Seen(worker[q][Driver])
  PROVE  TransferInv'
<1> DEFINE s == server[q]
           y == socket[q]
           c == worker[q][Driver]
           d == ws[Driver]
<1>1. Count' = Count /\ Ranks' = Ranks
  BY DEF Count, Ranks
<1>2. socket \in [Replicas -> Sockets] /\ DOMAIN worker = Replicas
  BY DEF TransferInv, Shapes
<1>3. /\ socket' \in [Replicas -> Sockets] /\ DOMAIN worker' = Replicas
      /\ worker'[q] = ws /\ socket'[q] = x
      /\ \A r \in Replicas : r # q => worker'[r] = worker[r] /\ socket'[r] = socket[r]
  BY <1>2
<1>4. \A r \in Replicas : DOMAIN worker'[r] = Ranks
  <2>1. \A r \in Replicas : DOMAIN worker[r] = Ranks
    BY DEF TransferInv, Shapes
  <2>2. QED
    BY <1>3, <2>1
<1>5. Shapes'
  BY <1>1, <1>3, <1>4 DEF TransferInv, Shapes
<1>6. Replica(q)
  BY DEF TransferInv
<1>7. Gone(s, x, d) = Gone(s, y, c) /\ Before(s, x, d) = Before(s, y, c) /\ Got(s, x, d) = Got(s, y, c)
  BY DEF Gone, Before, Got
<1>8. Drawing(Count, s, x, d)
  BY <1>6, <1>7 DEF Replica, Drawing
<1>9. Feed(Count, s, x, d, Cast(trainer))
  BY <1>6, <1>7 DEF Replica, Feed
<1>10. Fitting(s, x, d)
  BY <1>6, <1>7 DEF Replica, Fitting
<1>11. ASSUME NEW r \in Replicas
       PROVE  Replica(r)'
  <2>1. Replica(r) /\ Subscribed(trainer', topic'[r])
    BY DEF TransferInv, Replica
  <2>2. CASE r # q
    BY <1>3, <2>1, <2>2, ReplicaAlone
  <2>3. CASE r = q
    <3>1. Fitting(server[r], socket[r], worker[r][Driver])'
      BY <1>3, <1>10, <2>3 DEF Fitting, Weights, Size
    <3>2. QED
      BY <1>1, <1>3, <1>8, <1>9, <2>1, <2>3, <3>1 DEF Replica
  <2>4. QED
    BY <2>2, <2>3
<1>12. QED
  BY <1>1, <1>5, <1>11 DEF TransferInv

\* What holds of a worker of a replica before its step.
LEMMA WorkerBefore ==
  ASSUME TransferInv, NEW r \in Replicas, NEW k \in Ranks
  PROVE  /\ Member(Count, worker[r][k]) /\ Driver \in Ranks
         /\ (k # Driver => Behind(worker[r][k], worker[r][Driver]))
         /\ Talk(Count, server[r], socket[r], worker[r][Driver])
         /\ server[r] \in Servers /\ socket[r] \in Sockets /\ Count \in Nat
         /\ DOMAIN worker = Replicas /\ DOMAIN worker[r] = Ranks
         /\ socket = [socket EXCEPT ![r] = socket[r]]
         /\ (sync = "off" => worker[r][k].pc \in {"off", "done"})
<1>1. Replica(r) /\ Driver \in Ranks /\ Count \in Nat
  BY Deployment DEF TransferInv, Shapes
<1>2. DOMAIN worker = Replicas /\ DOMAIN worker[r] = Ranks /\ server[r] \in Servers /\ socket[r] \in Sockets
      /\ socket = [socket EXCEPT ![r] = socket[r]]
  BY DEF TransferInv, Shapes
<1>3. sync = "off" => worker[r][k].pc \in {"off", "done"}
  BY DEF TransferInv, Still
<1>4. QED
  BY <1>1, <1>2, <1>3 DEF Replica, Group

\* A step of a worker other than the driver.
LEMMA RankAlone ==
  ASSUME TransferInv, NEW r \in Replicas, NEW k \in Ranks, k # Driver, sync # "off",
         UNCHANGED <<plan, sync, version, trainer, topic, server, socket>>,
         NEW u, worker' = [worker EXCEPT ![r] = [worker[r] EXCEPT ![k] = u]],
         Member(Count, u), Behind(u, worker[r][Driver])
  PROVE  TransferInv'
<1> DEFINE ws == [worker[r] EXCEPT ![k] = u]
<1>1. Driver \in Ranks /\ socket[r] \in Sockets /\ DOMAIN worker[r] = Ranks
      /\ socket' = [socket EXCEPT ![r] = socket[r]]
      /\ Talk(Count, server[r], socket[r], worker[r][Driver])
  BY WorkerBefore
<1>2. /\ DOMAIN ws = Ranks /\ ws[k] = u /\ ws[Driver] = worker[r][Driver]
      /\ \A j \in Ranks : j # k => ws[j] = worker[r][j]
  BY <1>1
<1>3. worker' = [worker EXCEPT ![r] = ws]
  OBVIOUS
<1> HIDE DEF ws
<1>4. Group(Count, Ranks, worker[r])
  BY DEF TransferInv, Replica
<1>5. Group(Count, Ranks, ws)
  BY <1>2, <1>4 DEF Group
<1>6. QED
  BY <1>1, <1>2, <1>3, <1>5, WorkerAlone

\* A step of the driver worker by itself.
LEMMA DriverAlone ==
  ASSUME TransferInv, NEW r \in Replicas, sync # "off",
         UNCHANGED <<plan, sync, version, trainer, topic, server>>,
         NEW u, worker' = [worker EXCEPT ![r] = [worker[r] EXCEPT ![Driver] = u]],
         NEW x \in Sockets, socket' = [socket EXCEPT ![r] = x],
         Member(Count, u), \A j \in Ranks \ {Driver} : Behind(worker[r][j], u),
         Talk(Count, server[r], x, u), Seen(u) = Seen(worker[r][Driver]),
         InFlight(x) = InFlight(socket[r])
  PROVE  TransferInv'
<1> DEFINE ws == [worker[r] EXCEPT ![Driver] = u]
<1>1. Driver \in Ranks /\ DOMAIN worker[r] = Ranks
  BY Deployment DEF TransferInv, Shapes
<1>2. /\ DOMAIN ws = Ranks /\ ws[Driver] = u
      /\ \A j \in Ranks : j # Driver => ws[j] = worker[r][j]
  BY <1>1
<1>3. worker' = [worker EXCEPT ![r] = ws]
  OBVIOUS
<1> HIDE DEF ws
<1>4. Group(Count, Ranks, worker[r])
  BY DEF TransferInv, Replica
<1>5. Group(Count, Ranks, ws)
  BY <1>2, <1>4 DEF Group
<1>6. QED
  BY <1>2, <1>3, <1>5, WorkerAlone

\* A step of one worker, the driver or another, that changes neither what it has
\* been told nor its inbox.
LEMMA MemberAlone ==
  ASSUME TransferInv, NEW r \in Replicas, NEW k \in Ranks, sync # "off",
         UNCHANGED <<plan, sync, version, trainer, topic, server>>,
         NEW u, worker' = [worker EXCEPT ![r] = [worker[r] EXCEPT ![k] = u]],
         NEW x \in Sockets, socket' = [socket EXCEPT ![r] = x],
         k # Driver => x = socket[r],
         Member(Count, u),
         k # Driver => Behind(u, worker[r][Driver]),
         k = Driver => \A j \in Ranks \ {Driver} : Behind(worker[r][j], u),
         k = Driver => Talk(Count, server[r], x, u),
         Seen(u) = Seen(worker[r][k]), InFlight(x) = InFlight(socket[r])
  PROVE  TransferInv'
<1>1. CASE k = Driver
  BY <1>1, DriverAlone
<1>2. CASE k # Driver
  <2>1. socket = [socket EXCEPT ![r] = socket[r]]
    BY WorkerBefore
  <2>2. UNCHANGED socket
    BY <1>2, <2>1
  <2>3. QED
    BY <1>2, <2>2, RankAlone
<1>3. QED
  BY <1>1, <1>2
LEMMA CloneStep ==
  ASSUME TransferInv, NEW r \in Replicas, NEW k \in Ranks, Clone(r, k)
  PROVE  TransferInv'
<1> DEFINE s == worker[r][k]
           e == s.meta[Len(s.taken) + 1]
           a == [w |-> e.w, words |-> {shared[r][b] : b \in Bytes(e.offset, e.w)}]
           v == Append(s.taken, a)
           u == [s EXCEPT !.taken = v]
           d == worker[r][Driver]
           l == Len(s.loaded)
           m == Len(s.taken)
<1>1. /\ UNCHANGED <<plan, sync, version, trainer, topic, server, socket>>
      /\ s.pc = "copy" /\ m < Len(s.meta)
      /\ worker' = [worker EXCEPT ![r][k].taken = Append(@, a)]
  BY DEF Clone
<1>2. /\ Member(Count, s) /\ (k # Driver => Behind(s, d)) /\ Talk(Count, server[r], socket[r], d)
      /\ socket[r] \in Sockets /\ DOMAIN worker = Replicas /\ DOMAIN worker[r] = Ranks
      /\ socket = [socket EXCEPT ![r] = socket[r]]
      /\ (sync = "off" => s.pc \in {"off", "done"})
      /\ \A j \in Ranks \ {Driver} : Behind(worker[r][j], d)
  BY WorkerBefore
<1>3. worker' = [worker EXCEPT ![r] = [worker[r] EXCEPT ![k] = u]]
  BY <1>1, <1>2
<1>4. /\ Ranked(s) /\ IsSeq(s.taken) /\ IsSeq(s.loaded) /\ s.meta \in Seq(Entry)
      /\ From(s.meta, l) /\ From(s.taken, l) /\ From(s.loaded, 0) /\ a.w = e.w
  BY <1>2 DEF Member, Ranked
<1>5. l \in Nat /\ m \in Nat /\ Len(s.meta) \in Nat /\ DOMAIN s.meta = 1..Len(s.meta)
  BY <1>4, SeqIsSeq, Indices
<1>6. e.w = l + (m + 1)
  <2>1. m + 1 \in DOMAIN s.meta
    <3>1. m \in Nat /\ Len(s.meta) \in Nat /\ m < Len(s.meta)
      BY <1>1, <1>5
    <3> HIDE DEF m
    <3>2. m + 1 \in 1..Len(s.meta)
      BY <3>1
    <3>3. QED
      BY <1>5, <3>2
  <2>2. QED
    BY <1>4, <2>1 DEF From
<1> HIDE DEF e, a, v
<1>7. IsSeq(v) /\ Len(v) = m + 1 /\ From(v, l)
  <2>1. l \in Int /\ m \in Int
    BY <1>5
  <2> HIDE DEF l, m
  <2>2. l + (m + 1) = l + m + 1
    BY <2>1
  <2>3. a.w = l + m + 1
    BY <1>4, <1>6, <2>2
  <2>4. a.w = l + Len(s.taken) + 1
    BY <2>3 DEF m
  <2>5. IsSeq(s.taken) /\ From(s.taken, l)
    BY <1>4
  <2>6. QED
    BY <2>1, <2>4, <2>5, Longer DEF v, m
<1>8. /\ u = [pc |-> s.pc, inbox |-> s.inbox, meta |-> s.meta, last |-> s.last, taken |-> v, loaded |-> s.loaded]
  BY <1>4 DEF Ranked
<1> HIDE DEF u
<1>9. /\ u.pc = s.pc /\ u.inbox = s.inbox /\ u.meta = s.meta /\ u.last = s.last /\ u.loaded = s.loaded
      /\ u.taken = v /\ Seen(u) = Seen(s)
  BY <1>8 DEF Seen
<1>10. Ranked(u)
  BY <1>4, <1>7, <1>8, <1>9 DEF Ranked
<1>11. Len(u.taken) <= Len(u.meta)
  BY <1>1, <1>5, <1>7, <1>9
<1>12. Member(Count, u)
  BY <1>1, <1>2, <1>4, <1>7, <1>9, <1>10, <1>11 DEF Member
<1>13. k # Driver => Behind(u, d)
  BY <1>2, <1>9 DEF Behind
<1>14. k = Driver => \A j \in Ranks \ {Driver} : Behind(worker[r][j], u)
  BY <1>2, <1>9 DEF Behind, BucketOf
<1>15. k = Driver => Talk(Count, server[r], socket[r], u)
  BY <1>2, <1>9 DEF Talk
<1>16. sync # "off"
  BY <1>1, <1>2
<1>17. QED
  BY <1>1, <1>2, <1>3, <1>9, <1>12, <1>13, <1>14, <1>15, <1>16, MemberAlone

LEMMA TakenStep ==
  ASSUME TransferInv, NEW r \in Replicas, NEW k \in Ranks, Taken(r, k)
  PROVE  TransferInv'
<1> DEFINE s == worker[r][k]
           u == [s EXCEPT !.pc = "barrier"]
           d == worker[r][Driver]
           x == IF k = Driver THEN [socket[r] EXCEPT !.st = "answer"] ELSE socket[r]
<1>1. /\ UNCHANGED <<plan, sync, version, trainer, topic, server>>
      /\ s.pc = "copy" /\ Len(s.taken) = Len(s.meta)
      /\ worker' = [worker EXCEPT ![r][k].pc = "barrier"]
      /\ socket' = IF k = Driver THEN [socket EXCEPT ![r].st = "answer"] ELSE socket
  BY DEF Taken
<1>2. /\ Member(Count, s) /\ (k # Driver => Behind(s, d)) /\ Talk(Count, server[r], socket[r], d)
      /\ socket[r] \in Sockets /\ DOMAIN worker = Replicas /\ DOMAIN worker[r] = Ranks
      /\ socket = [socket EXCEPT ![r] = socket[r]]
      /\ (sync = "off" => s.pc \in {"off", "done"})
      /\ \A j \in Ranks \ {Driver} : Behind(worker[r][j], d)
  BY WorkerBefore
<1>3. worker' = [worker EXCEPT ![r] = [worker[r] EXCEPT ![k] = u]]
  BY <1>1, <1>2
<1>4. socket' = [socket EXCEPT ![r] = x]
  BY <1>1, <1>2
<1>5. Ranked(s)
  BY <1>2 DEF Member
<1>6. u = [pc |-> "barrier", inbox |-> s.inbox, meta |-> s.meta, last |-> s.last,
           taken |-> s.taken, loaded |-> s.loaded]
  BY <1>5 DEF Ranked
<1> HIDE DEF u
<1>7. /\ u.pc = "barrier" /\ u.inbox = s.inbox /\ u.meta = s.meta /\ u.last = s.last
      /\ u.loaded = s.loaded /\ u.taken = s.taken /\ Seen(u) = Seen(s)
  BY <1>6 DEF Seen
<1>8. Ranked(u)
  BY <1>5, <1>6, <1>7 DEF Ranked
<1>9. Member(Count, u)
  BY <1>1, <1>2, <1>7, <1>8 DEF Member
<1>10. k # Driver => Behind(u, d)
  BY <1>1, <1>2, <1>7 DEF Behind, Together
<1>11. k = Driver => \A j \in Ranks \ {Driver} : Behind(worker[r][j], u)
  BY <1>1, <1>2, <1>7 DEF Behind, BucketOf, Together
<1>12. x \in Sockets /\ (k = Driver => x.st = "answer" /\ x.msg = socket[r].msg) /\ (k # Driver => x = socket[r])
  BY <1>2 DEF Sockets
<1> HIDE DEF x
<1>13. k = Driver => socket[r].st = "held"
  BY <1>1, <1>2 DEF Talk
<1>14. InFlight(x) = InFlight(socket[r])
  BY <1>12, <1>13 DEF InFlight
<1>15. k = Driver => Talk(Count, server[r], x, u)
  BY <1>1, <1>2, <1>7, <1>12, <1>13 DEF Talk
<1>16. sync # "off"
  BY <1>1, <1>2
<1>17. QED
  BY <1>1, <1>3, <1>4, <1>7, <1>9, <1>10, <1>11, <1>12, <1>14, <1>15, <1>16, MemberAlone

\* What has been copied is loaded behind what was loaded before.
LEMMA LoadStep ==
  ASSUME TransferInv, NEW r \in Replicas, NEW k \in Ranks, Load(r, k)
  PROVE  TransferInv'
<1> DEFINE s == worker[r][k]
           v == s.loaded \o s.taken
           p == IF s.last THEN "done" ELSE "receive"
           u == [s EXCEPT !.loaded = v, !.taken = <<>>, !.meta = <<>>, !.pc = p]
           d == worker[r][Driver]
           x == socket[r]
<1>1. /\ UNCHANGED <<plan, sync, version, trainer, topic, server, socket>> /\ s.pc = "load"
      /\ worker' = [worker EXCEPT ![r][k] = u]
  BY DEF Load
<1>2. /\ Member(Count, s) /\ (k # Driver => Behind(s, d)) /\ Talk(Count, server[r], x, d)
      /\ x \in Sockets /\ DOMAIN worker = Replicas /\ DOMAIN worker[r] = Ranks
      /\ socket = [socket EXCEPT ![r] = x] /\ Member(Count, d)
      /\ (sync = "off" => s.pc \in {"off", "done"})
      /\ \A j \in Ranks \ {Driver} : Behind(worker[r][j], d) /\ Member(Count, worker[r][j])
  BY WorkerBefore
<1>3. worker' = [worker EXCEPT ![r] = [worker[r] EXCEPT ![k] = u]]
  BY <1>1, <1>2
<1>4. /\ Ranked(s) /\ IsSeq(s.taken) /\ IsSeq(s.loaded) /\ From(s.loaded, 0) /\ From(s.taken, Len(s.loaded))
      /\ Len(s.taken) = Len(s.meta) /\ s.last \in BOOLEAN
  BY <1>1, <1>2 DEF Member, Ranked
<1>5. IsSeq(v) /\ Len(v) = Len(s.loaded) + Len(s.taken) /\ From(v, 0) /\ Len(v) \in Nat
  BY <1>4, Joined, Indices
<1>6. u = [pc |-> p, inbox |-> s.inbox, meta |-> <<>>, last |-> s.last, taken |-> <<>>, loaded |-> v]
  <2>1. s = [pc |-> s.pc, inbox |-> s.inbox, meta |-> s.meta, last |-> s.last,
             taken |-> s.taken, loaded |-> s.loaded]
    BY <1>4 DEF Ranked
  <2>2. u = [s EXCEPT !.loaded = v, !.taken = <<>>, !.meta = <<>>, !.pc = p]
    OBVIOUS
  <2> HIDE DEF s, p, v, u
  <2>3. QED
    BY <2>1, <2>2, LoadedFields
<1> HIDE DEF u, v
<1>7. /\ u.pc = p /\ u.inbox = s.inbox /\ u.meta = <<>> /\ u.last = s.last
      /\ u.loaded = v /\ u.taken = <<>>
  BY <1>6
<1>8. Seen(u) = Seen(s)
  <2>1. Seen(u) = Len(v) + 0 /\ Seen(s) = Len(v)
    BY <1>4, <1>5, <1>7, EmptyIsSeq DEF Seen
  <2>2. QED
    BY <1>5, <2>1
<1>9. Ranked(u)
  BY <1>4, <1>5, <1>6, <1>7, EmptyIsSeq DEF Ranked
<1>10. Member(Count, u)
  BY <1>2, <1>5, <1>7, <1>8, <1>9, EmptyIsSeq DEF Member
<1>11. k # Driver => Behind(u, d)
  <2>1. d.last \in BOOLEAN /\ (d.pc = "receive" => ~d.last) /\ (d.pc = "done" => d.last)
    BY <1>2 DEF Member, Ranked
  <2>2. QED
    BY <1>1, <1>2, <1>4, <1>7, <1>8, <2>1 DEF Behind, Together
<1>12. k = Driver => \A j \in Ranks \ {Driver} : Behind(worker[r][j], u)
  <2>1. SUFFICES ASSUME k = Driver, NEW j \in Ranks \ {Driver}
                 PROVE  Behind(worker[r][j], u)
    OBVIOUS
  <2> DEFINE q == worker[r][j]
  <2>2. Behind(q, s) /\ Member(Count, q)
    BY <1>2, <2>1
  <2>3. q.last \in BOOLEAN /\ (q.pc = "receive" => ~q.last) /\ (q.pc = "done" => q.last)
    BY <2>2 DEF Member, Ranked
  <2> HIDE DEF q
  <2>4. QED
    BY <1>1, <1>4, <1>7, <1>8, <2>2, <2>3 DEF Behind, Together, q
<1>13. k = Driver => Talk(Count, server[r], x, u)
  BY <1>1, <1>2, <1>7, <1>8 DEF Talk
<1>14. sync # "off"
  BY <1>1, <1>2
<1>15. QED
  BY <1>1, <1>2, <1>3, <1>8, <1>10, <1>11, <1>12, <1>13, <1>14, MemberAlone

\* What becomes of a worker that is told of the handshake, and of a bucket.
LEMMA ToldHandle ==
  ASSUME NEW n \in Nat, NEW s, Member(n, s), s.pc = "attach"
  PROVE  LET u == Told(s, Handle) IN
         /\ u = [pc |-> "receive", inbox |-> s.inbox, meta |-> s.meta, last |-> s.last,
                 taken |-> s.taken, loaded |-> s.loaded]
         /\ Member(n, u) /\ u.pc = "receive" /\ u.loaded = <<>> /\ u.inbox = s.inbox
         /\ Seen(u) = 0 /\ Seen(s) = 0 /\ ~u.last /\ ~s.last
<1> DEFINE u == Told(s, Handle)
<1>1. u = [s EXCEPT !.pc = "receive"]
  BY DEF Told, Handle
<1> HIDE DEF u
<1>2. Ranked(s) /\ s.meta = <<>> /\ s.loaded = <<>> /\ ~s.last
  BY DEF Member
<1>3. u = [pc |-> "receive", inbox |-> s.inbox, meta |-> s.meta, last |-> s.last,
           taken |-> s.taken, loaded |-> s.loaded]
  BY <1>1, <1>2 DEF Ranked
<1>4. /\ u.pc = "receive" /\ u.inbox = s.inbox /\ u.meta = s.meta /\ u.last = s.last
      /\ u.taken = s.taken /\ u.loaded = s.loaded /\ Seen(u) = Seen(s)
  BY <1>3 DEF Seen
<1>5. Seen(s) = 0
  <2>1. Seen(s) = 0 + 0
    BY <1>2, EmptyIsSeq DEF Seen
  <2>2. QED
    BY <2>1
<1>6. Ranked(u)
  BY <1>2, <1>3, <1>4 DEF Ranked
<1>7. Member(n, u)
  BY <1>2, <1>4, <1>6 DEF Member
<1>8. QED
  BY <1>2, <1>3, <1>4, <1>5, <1>7 DEF u

LEMMA ToldBucket ==
  ASSUME NEW n \in Nat, NEW s, Member(n, s), s.pc = "receive",
         NEW msg \in Message, msg.kind = "bucket", From(msg.meta, Seen(s)),
         Seen(s) + Len(msg.meta) <= n, msg.last => Seen(s) + Len(msg.meta) = n
  PROVE  LET u == Told(s, msg) IN
         /\ u = [pc |-> "copy", inbox |-> s.inbox, meta |-> msg.meta, last |-> msg.last,
                 taken |-> <<>>, loaded |-> s.loaded]
         /\ Member(n, u) /\ u.pc = "copy" /\ u.loaded = s.loaded /\ u.inbox = s.inbox
         /\ u.last = msg.last /\ u.meta = msg.meta /\ BucketOf(u) = msg
         /\ Seen(u) = Seen(s) + Len(msg.meta) /\ Seen(s) = Len(s.loaded) /\ ~s.last
<1> DEFINE u == Told(s, msg)
<1>1. u = [s EXCEPT !.pc = "copy", !.meta = msg.meta, !.last = msg.last, !.taken = <<>>]
  BY DEF Told
<1> HIDE DEF u
<1>2. Ranked(s) /\ s.meta = <<>> /\ ~s.last /\ From(s.loaded, 0)
  BY DEF Member
<1>3. msg.meta \in Seq(Entry) /\ msg.last \in BOOLEAN
  BY DEF Message
<1>4. u = [pc |-> "copy", inbox |-> s.inbox, meta |-> msg.meta, last |-> msg.last,
           taken |-> <<>>, loaded |-> s.loaded]
  <2>1. s = [pc |-> s.pc, inbox |-> s.inbox, meta |-> s.meta, last |-> s.last,
             taken |-> s.taken, loaded |-> s.loaded]
    BY <1>2 DEF Ranked
  <2>2. QED
    BY <1>1, <2>1, ToldFields
<1>5. /\ u.pc = "copy" /\ u.inbox = s.inbox /\ u.meta = msg.meta /\ u.last = msg.last
      /\ u.taken = <<>> /\ u.loaded = s.loaded
  BY <1>4
<1>6. Len(s.loaded) \in Nat /\ Len(msg.meta) \in Nat
  <2>1. IsSeq(s.loaded)
    BY <1>2 DEF Ranked
  <2>2. QED
    BY <1>3, <2>1, SeqIsSeq, Indices
<1>7. Seen(s) = Len(s.loaded)
  <2>1. Seen(s) = Len(s.loaded) + 0
    BY <1>2, EmptyIsSeq DEF Seen
  <2>2. Len(s.loaded) \in Nat
    BY <1>6
  <2>3. QED
    BY <2>1, <2>2
<1>8. Seen(u) = Seen(s) + Len(msg.meta)
  BY <1>5, <1>7 DEF Seen
<1>9. Ranked(u)
  BY <1>2, <1>3, <1>4, <1>5, EmptyIsSeq DEF Ranked
<1>10. Len(u.taken) <= Len(u.meta)
  BY <1>5, <1>6, EmptyIsSeq
<1>11. Member(n, u)
  BY <1>2, <1>5, <1>7, <1>8, <1>9, <1>10, EmptyIsSeq DEF Member
<1>12. msg = [kind |-> msg.kind, meta |-> msg.meta, last |-> msg.last]
  BY DEF Message
<1>13. BucketOf(u) = msg
  BY <1>5, <1>12 DEF BucketOf
<1>14. QED
  BY <1>2, <1>4, <1>5, <1>7, <1>8, <1>11, <1>13 DEF u

\* A member without its first message is a member.
LEMMA Emptied ==
  ASSUME NEW n \in Nat, NEW s, Member(n, s), NEW q \in Seq(Message)
  PROVE  LET u == [s EXCEPT !.inbox = q] IN
         /\ Member(n, u) /\ u.pc = s.pc /\ u.inbox = q /\ u.meta = s.meta /\ u.last = s.last
         /\ u.loaded = s.loaded /\ u.taken = s.taken /\ Seen(u) = Seen(s)
<1> DEFINE u == [s EXCEPT !.inbox = q]
<1>1. Ranked(s)
  BY DEF Member
<1>2. u = [pc |-> s.pc, inbox |-> q, meta |-> s.meta, last |-> s.last,
           taken |-> s.taken, loaded |-> s.loaded]
  BY <1>1 DEF Ranked
<1> HIDE DEF u
<1>3. /\ u.pc = s.pc /\ u.inbox = q /\ u.meta = s.meta /\ u.last = s.last
      /\ u.taken = s.taken /\ u.loaded = s.loaded /\ Seen(u) = Seen(s)
  BY <1>2 DEF Seen
<1>4. Ranked(u)
  BY <1>1, <1>2, <1>3 DEF Ranked
<1>5. Member(n, u)
  BY <1>3, <1>4 DEF Member
<1>6. QED
  BY <1>3, <1>5 DEF u

\* A worker that takes the next message off its inbox gets closer to the driver.
LEMMA RankReceivesStep ==
  ASSUME TransferInv, NEW r \in Replicas, NEW k \in Ranks, RankReceives(r, k)
  PROVE  TransferInv'
<1> DEFINE s == worker[r][k]
           msg == Head(s.inbox)
           rest == Tail(s.inbox)
           t == Told(s, msg)
           u == [t EXCEPT !.inbox = rest]
           d == worker[r][Driver]
<1>1. /\ UNCHANGED <<plan, sync, version, trainer, topic, server, socket>>
      /\ k # Driver /\ s.pc \in {"attach", "receive"} /\ s.inbox # <<>>
      /\ worker' = [worker EXCEPT ![r][k] = u]
  BY DEF RankReceives
<1>2. /\ Member(Count, s) /\ Behind(s, d) /\ DOMAIN worker = Replicas /\ DOMAIN worker[r] = Ranks
      /\ Member(Count, d) /\ Count \in Nat /\ (sync = "off" => s.pc \in {"off", "done"})
  BY <1>1, WorkerBefore
<1>3. worker' = [worker EXCEPT ![r] = [worker[r] EXCEPT ![k] = u]]
  BY <1>1, <1>2
<1>4. sync # "off"
  BY <1>1, <1>2
<1>5. s.inbox \in Seq(Message) /\ d.meta \in Seq(Entry) /\ d.last \in BOOLEAN
  BY <1>2 DEF Member, Ranked
<1>6. rest \in Seq(Message)
  BY <1>1, <1>5
<1>7. ASSUME Member(Count, u), Behind(u, d)
      PROVE  TransferInv'
  BY <1>1, <1>3, <1>4, <1>7, RankAlone
<1>8. \/ s.inbox = <<Handle>> /\ s.pc = "attach" /\ d.pc = "receive" /\ Seen(d) = 0
      \/ /\ s.inbox = <<Handle, BucketOf(d)>> /\ s.pc = "attach"
         /\ d.pc \in {"copy", "barrier"} /\ Len(d.loaded) = 0
      \/ /\ s.inbox = <<BucketOf(d)>> /\ s.pc = "receive" /\ ~s.last
         /\ d.pc \in {"copy", "barrier"} /\ Len(d.loaded) = Seen(s)
  BY <1>1, <1>2 DEF Behind
<1> HIDE DEF d, rest, msg, u
<1>9. CASE s.pc = "attach"
  <2>1. msg = Handle /\ (rest = <<>> \/ rest = <<BucketOf(d)>>)
    <3>1. CASE s.inbox = <<Handle>>
      BY <3>1, Inbox DEF msg, rest
    <3>2. CASE s.inbox = <<Handle, BucketOf(d)>>
      BY <3>2, Inbox DEF msg, rest
    <3>3. QED
      BY <1>8, <1>9, <3>1, <3>2
  <2>2. Member(Count, t) /\ t.pc = "receive" /\ t.loaded = <<>> /\ Seen(t) = 0 /\ ~t.last /\ ~s.last
    BY <1>2, <1>9, <2>1, ToldHandle
  <2>3. Member(Count, u) /\ u.pc = "receive" /\ u.inbox = rest /\ Seen(u) = 0 /\ u.last = t.last
    BY <1>2, <1>6, <2>2, Emptied DEF u
  <2>4. CASE s.inbox = <<Handle>> /\ d.pc = "receive" /\ Seen(d) = 0
    <3>1. rest = <<>>
      BY <2>4, Inbox DEF rest
    <3>2. ~d.last
      BY <1>2, <2>4 DEF Member
    <3>3. u.last \in BOOLEAN /\ ~u.last
      BY <2>2, <2>3 DEF Member, Ranked
    <3>4. Behind(u, d)
      BY <1>5, <2>3, <2>4, <3>1, <3>2, <3>3 DEF Behind, Together
    <3>5. QED
      BY <1>7, <2>3, <3>4
  <2>5. CASE s.inbox = <<Handle, BucketOf(d)>> /\ d.pc \in {"copy", "barrier"} /\ Len(d.loaded) = 0
    <3>1. rest = <<BucketOf(d)>>
      BY <2>5, Inbox DEF rest
    <3>2. Behind(u, d)
      BY <2>2, <2>3, <2>5, <3>1 DEF Behind
    <3>3. QED
      BY <1>7, <2>3, <3>2
  <2>6. QED
    BY <1>8, <1>9, <2>4, <2>5
<1>10. CASE s.pc = "receive"
  <2>1. s.inbox = <<BucketOf(d)>> /\ d.pc \in {"copy", "barrier"} /\ Len(d.loaded) = Seen(s)
    BY <1>8, <1>10
  <2>2. msg = BucketOf(d) /\ rest = <<>>
    BY <2>1, Inbox DEF msg, rest
  <2>3. /\ msg \in Message /\ msg.kind = "bucket" /\ msg.meta = d.meta /\ msg.last = d.last
    BY <1>5, <2>2 DEF BucketOf, Message
  <2>4. From(d.meta, Len(d.loaded)) /\ Seen(d) <= Count /\ (d.last => Seen(d) = Count)
    BY <1>2 DEF Member
  <2>5. Seen(d) = Seen(s) + Len(d.meta)
    BY <2>1 DEF Seen
  <2>6. /\ Member(Count, t) /\ t.pc = "copy" /\ t.last = msg.last /\ Seen(t) = Seen(s) + Len(msg.meta)
    BY <1>2, <1>10, <2>1, <2>3, <2>4, <2>5, ToldBucket
  <2>7. Member(Count, u) /\ u.pc = "copy" /\ u.inbox = rest /\ Seen(u) = Seen(t) /\ u.last = t.last
    BY <1>2, <1>6, <2>6, Emptied DEF u
  <2>8. Behind(u, d)
    BY <2>1, <2>2, <2>3, <2>5, <2>6, <2>7 DEF Behind, Together
  <2>9. QED
    BY <1>7, <2>7, <2>8
<1>11. QED
  BY <1>1, <1>9, <1>10

\* What the driver worker receives, it hands to all the others.
LEMMA DriverReceivesStep ==
  ASSUME TransferInv, NEW r \in Replicas, DriverReceives(r)
  PROVE  TransferInv'
<1> DEFINE s == server[r]
           x == socket[r]
           msg == x.msg
           d == worker[r][Driver]
           t == Told(d, msg)
           y == [x EXCEPT !.st = IF msg.kind = "handle" THEN "answer" ELSE "held"]
           ws == [k \in Ranks |-> IF k = Driver THEN Told(worker[r][k], msg)
                                  ELSE [worker[r][k] EXCEPT !.inbox = Append(@, msg)]]
<1>1. /\ UNCHANGED <<plan, sync, version, trainer, topic, server>>
      /\ d.pc \in {"attach", "receive"} /\ x.st = "request"
      /\ socket' = [socket EXCEPT ![r].st = IF msg.kind = "handle" THEN "answer" ELSE "held"]
  BY DEF DriverReceives
<1>2. /\ Driver \in Ranks /\ Count \in Nat /\ plan \in Plans
  BY Deployment DEF TransferInv, Shapes
<1>3. /\ Member(Count, d) /\ Talk(Count, s, x, d) /\ x \in Sockets /\ DOMAIN worker = Replicas
      /\ DOMAIN worker[r] = Ranks /\ (sync = "off" => d.pc \in {"off", "done"})
      /\ \A k \in Ranks \ {Driver} : Member(Count, worker[r][k]) /\ Behind(worker[r][k], d)
      /\ socket \in [Replicas -> Sockets]
  BY <1>2, WorkerBefore DEF TransferInv, Shapes
<1>4. socket' = [socket EXCEPT ![r] = y]
  BY <1>1, <1>3
<1>5. worker' = [worker EXCEPT ![r] = ws]
  BY DEF DriverReceives
<1>6. /\ DOMAIN ws = Ranks /\ ws[Driver] = t
      /\ \A k \in Ranks \ {Driver} : ws[k] = [worker[r][k] EXCEPT !.inbox = Append(worker[r][k].inbox, msg)]
  BY <1>2
<1>7. sync # "off"
  BY <1>1, <1>3
<1>8. msg \in Message
  BY <1>3 DEF Sockets
<1>9. ASSUME NEW k \in Ranks \ {Driver}
      PROVE  /\ Member(Count, ws[k]) /\ ws[k].pc = worker[r][k].pc /\ ws[k].last = worker[r][k].last
             /\ ws[k].inbox = Append(worker[r][k].inbox, msg) /\ Seen(ws[k]) = Seen(worker[r][k])
  <2> DEFINE w == worker[r][k]
             q == Append(w.inbox, msg)
  <2>1. Member(Count, w) /\ w.inbox \in Seq(Message) /\ Count \in Nat
    BY <1>2, <1>3 DEF Member, Ranked
  <2>2. q \in Seq(Message)
    BY <1>8, <2>1
  <2>3. ws[k] = [w EXCEPT !.inbox = q]
    BY <1>6
  <2> HIDE DEF ws, msg, w, q
  <2>4. Member(Count, ws[k]) /\ ws[k].pc = w.pc /\ ws[k].last = w.last /\ ws[k].inbox = q /\ Seen(ws[k]) = Seen(w)
    BY <2>1, <2>2, <2>3, Emptied
  <2>5. QED
    BY <2>4 DEF w, q
<1>10. y \in Sockets /\ y.st = (IF msg.kind = "handle" THEN "answer" ELSE "held") /\ y.msg = msg
  BY <1>3 DEF Sockets
<1> HIDE DEF ws, y, t
<1>11. ASSUME Member(Count, t), \A k \in Ranks \ {Driver} : Behind(ws[k], t), Talk(Count, s, y, t),
              Seen(t) + InFlight(y) = Seen(d) + InFlight(x), s.pc = "pull" => Seen(t) = Seen(d)
       PROVE  TransferInv'
  <2>1. Group(Count, Ranks, ws)
    BY <1>6, <1>9, <1>11 DEF Group
  <2>2. QED
    BY <1>1, <1>4, <1>5, <1>6, <1>7, <1>10, <1>11, <2>1, WorkerAlone
<1>12. CASE d.pc = "attach"
  <2>1. s.pc = "shaking" /\ msg = Handle
    BY <1>1, <1>3, <1>12 DEF Talk
  <2>2. Member(Count, t) /\ t.pc = "receive" /\ t.loaded = <<>> /\ Seen(t) = 0 /\ Seen(d) = 0
    BY <1>2, <1>3, <1>12, <2>1, ToldHandle DEF t
  <2>3. y.st = "answer"
    BY <1>10, <2>1 DEF Handle
  <2>4. Talk(Count, s, y, t)
    BY <2>1, <2>2, <2>3 DEF Talk
  <2>5. InFlight(x) = 0 /\ InFlight(y) = 0
    <3>1. Len(Handle.meta) = 0
      BY EmptyIsSeq DEF Handle
    <3>2. InFlight(x) = Len(Handle.meta)
      BY <1>1, <2>1 DEF InFlight
    <3>3. InFlight(y) = 0
      BY <2>3 DEF InFlight
    <3>4. QED
      BY <3>1, <3>2, <3>3
  <2>6. ASSUME NEW k \in Ranks \ {Driver}
        PROVE  Behind(ws[k], t)
    <3> DEFINE q == worker[r][k]
    <3>1. q.inbox = <<>> /\ q.pc = "attach"
      BY <1>3, <1>12 DEF Behind, Together
    <3>2. ws[k].inbox = <<Handle>> /\ ws[k].pc = "attach"
      BY <1>9, <2>1, <3>1, Inbox
    <3>3. QED
      BY <2>2, <3>2 DEF Behind
  <2>7. QED
    BY <1>11, <2>1, <2>2, <2>4, <2>5, <2>6
<1>13. CASE d.pc = "receive"
  <2>1. /\ s.pc \in {"flush", "last"} /\ msg.kind = "bucket" /\ (msg.last <=> s.pc = "last")
        /\ From(msg.meta, Seen(d)) /\ Seen(d) + Len(msg.meta) <= Count
        /\ (msg.last => Seen(d) + Len(msg.meta) = Count)
    BY <1>1, <1>3, <1>13 DEF Talk
  <2>2. /\ Member(Count, t) /\ t.pc = "copy" /\ t.loaded = d.loaded /\ t.last = msg.last
        /\ BucketOf(t) = msg /\ Seen(t) = Seen(d) + Len(msg.meta) /\ Seen(d) = Len(d.loaded) /\ ~d.last
    BY <1>2, <1>3, <1>8, <1>13, <2>1, ToldBucket DEF t
  <2>3. y.st = "held"
    BY <1>10, <2>1
  <2>4. Talk(Count, s, y, t)
    BY <2>1, <2>2, <2>3 DEF Talk
  <2>5. Seen(t) + InFlight(y) = Seen(d) + InFlight(x)
    <3>1. InFlight(x) = Len(msg.meta) /\ InFlight(y) = 0
      BY <1>1, <2>3 DEF InFlight
    <3>2. Len(d.loaded) \in Nat /\ Len(msg.meta) \in Nat
      <4>1. IsSeq(d.loaded) /\ msg.meta \in Seq(Entry)
        BY <1>3, <1>8 DEF Member, Ranked, Message
      <4>2. QED
        BY <4>1, SeqIsSeq, Indices
    <3>3. Seen(d) + Len(msg.meta) \in Nat
      <4>1. Seen(d) \in Nat /\ Len(msg.meta) \in Nat
        BY <2>2, <3>2
      <4>2. QED
        BY <4>1
    <3>4. QED
      BY <2>2, <3>1, <3>3
  <2>6. ASSUME NEW k \in Ranks \ {Driver}
        PROVE  Behind(ws[k], t)
    <3> DEFINE q == worker[r][k]
    <3>1. /\ ws[k].pc = q.pc /\ ws[k].last = q.last /\ ws[k].inbox = Append(q.inbox, msg)
          /\ Seen(ws[k]) = Seen(q)
      BY <1>9
    <3>2. \/ q.inbox = <<>> /\ Seen(q) = Seen(d) /\ q.last = d.last /\ q.pc \in {"receive", "load"}
          \/ q.inbox = <<Handle>> /\ q.pc = "attach" /\ Seen(d) = 0
      BY <1>3, <1>13 DEF Behind, Together
    <3>3. CASE q.inbox = <<>> /\ Seen(q) = Seen(d) /\ q.last = d.last /\ q.pc \in {"receive", "load"}
      <4>1. ws[k].inbox = <<BucketOf(t)>>
        BY <2>2, <3>1, <3>3, Inbox
      <4>2. QED
        BY <2>2, <3>1, <3>3, <4>1 DEF Behind
    <3>4. CASE q.inbox = <<Handle>> /\ q.pc = "attach" /\ Seen(d) = 0
      <4>1. ws[k].inbox = <<Handle, BucketOf(t)>>
        BY <2>2, <3>1, <3>4, Inbox
      <4>2. QED
        BY <2>2, <3>1, <3>4, <4>1 DEF Behind
    <3>5. QED
      BY <3>2, <3>3, <3>4
  <2>7. QED
    BY <1>11, <2>1, <2>2, <2>4, <2>5, <2>6
<1>14. QED
  BY <1>1, <1>12, <1>13

\* All have copied the bucket, and all go on together.
LEMMA BarrierStep ==
  ASSUME TransferInv, NEW r \in Replicas, Barrier(r)
  PROVE  TransferInv'
<1> DEFINE s == server[r]
           x == socket[r]
           d == worker[r][Driver]
           ws == [k \in Ranks |-> [worker[r][k] EXCEPT !.pc = "load"]]
<1>1. /\ UNCHANGED <<plan, sync, version, trainer, topic, server, socket>>
      /\ \A k \in Ranks : worker[r][k].pc = "barrier"
      /\ worker' = [worker EXCEPT ![r] = [k \in Ranks |-> [@[k] EXCEPT !.pc = "load"]]]
  BY DEF Barrier
<1>2. Driver \in Ranks /\ Count \in Nat
  BY Deployment DEF TransferInv, Shapes
<1>3. /\ Talk(Count, s, x, d) /\ x \in Sockets /\ DOMAIN worker = Replicas
      /\ DOMAIN worker[r] = Ranks /\ (sync = "off" => d.pc \in {"off", "done"})
      /\ (\A k \in Ranks : Member(Count, worker[r][k]))
      /\ (\A k \in Ranks \ {Driver} : Behind(worker[r][k], d))
      /\ socket = [socket EXCEPT ![r] = x]
  BY <1>2, WorkerBefore
<1>4. worker' = [worker EXCEPT ![r] = ws]
  BY <1>1, <1>3
<1>5. sync # "off"
  BY <1>1, <1>2, <1>3
<1>6. ASSUME NEW k \in Ranks
      PROVE  /\ Member(Count, ws[k]) /\ ws[k].pc = "load" /\ ws[k].inbox = worker[r][k].inbox
             /\ ws[k].last = worker[r][k].last /\ ws[k].loaded = worker[r][k].loaded
             /\ Seen(ws[k]) = Seen(worker[r][k])
  <2> DEFINE w == worker[r][k]
             u == [w EXCEPT !.pc = "load"]
  <2>1. Member(Count, w) /\ w.pc = "barrier" /\ ws[k] = u
    BY <1>1, <1>3
  <2> HIDE DEF w, ws
  <2>2. Ranked(w)
    BY <2>1 DEF Member
  <2>3. u = [pc |-> "load", inbox |-> w.inbox, meta |-> w.meta, last |-> w.last,
             taken |-> w.taken, loaded |-> w.loaded]
    BY <2>2 DEF Ranked
  <2> HIDE DEF u
  <2>4. /\ u.pc = "load" /\ u.inbox = w.inbox /\ u.meta = w.meta /\ u.last = w.last
        /\ u.taken = w.taken /\ u.loaded = w.loaded /\ Seen(u) = Seen(w)
    BY <2>3 DEF Seen
  <2>5. Ranked(u)
    BY <2>2, <2>3, <2>4 DEF Ranked
  <2>6. Member(Count, u)
    BY <2>1, <2>4, <2>5 DEF Member
  <2>7. QED
    BY <2>1, <2>4, <2>6 DEF w
<1>7. DOMAIN ws = Ranks
  OBVIOUS
<1> HIDE DEF ws
<1>8. ASSUME NEW k \in Ranks \ {Driver}
      PROVE  Behind(ws[k], ws[Driver])
  <2>1. worker[r][k].pc = "barrier" /\ d.pc = "barrier" /\ Behind(worker[r][k], d)
    BY <1>1, <1>2, <1>3
  <2>2. worker[r][k].inbox = <<>> /\ Seen(worker[r][k]) = Seen(d) /\ worker[r][k].last = d.last
    BY <2>1 DEF Behind
  <2>3. QED
    BY <1>2, <1>6, <2>2 DEF Behind, Together
<1>9. Group(Count, Ranks, ws)
  BY <1>6, <1>8 DEF Group
<1>10. Talk(Count, s, x, ws[Driver])
  <2>1. ws[Driver].pc = "load" /\ ws[Driver].last = d.last /\ Seen(ws[Driver]) = Seen(d) /\ d.pc = "barrier"
    BY <1>1, <1>2, <1>6
  <2>2. QED
    BY <1>3, <2>1 DEF Talk
<1>11. Seen(ws[Driver]) = Seen(d)
  BY <1>2, <1>6
<1>12. QED
  BY <1>1, <1>3, <1>4, <1>5, <1>7, <1>9, <1>10, <1>11, WorkerAlone

LEMMA WorkerSteps ==
  ASSUME TransferInv, NEW r \in Replicas, WorkerNext(r)
  PROVE  TransferInv'
BY DriverReceivesStep, RankReceivesStep, CloneStep, TakenStep, BarrierStep, LoadStep DEF WorkerNext

-----------------------------------------------------------------------------
(* The beginning, and the two ends of a synchronisation.                   *)

LEMMA NewMember ==
  ASSUME NEW n \in Nat
  PROVE  LET a == [WorkerOff EXCEPT !.pc = "attach"] IN
         /\ Member(n, WorkerOff) /\ WorkerOff.pc = "off" /\ Behind(WorkerOff, WorkerOff)
         /\ Member(n, a) /\ a.pc = "attach" /\ a.loaded = <<>> /\ Behind(a, a)
<1> DEFINE a == [WorkerOff EXCEPT !.pc = "attach"]
<1>1. WorkerOff.pc = "off" /\ a.pc = "attach"
  BY DEF WorkerOff
<1>2. ASSUME NEW s, s = WorkerOff \/ s = a
      PROVE  Member(n, s) /\ Behind(s, s) /\ s.loaded = <<>>
  <2>1. /\ s.inbox = <<>> /\ s.meta = <<>> /\ s.last = FALSE /\ s.taken = <<>> /\ s.loaded = <<>>
        /\ s.pc \in {"off", "attach"}
        /\ s = [pc |-> s.pc, inbox |-> s.inbox, meta |-> s.meta, last |-> s.last,
                taken |-> s.taken, loaded |-> s.loaded]
    BY <1>2 DEF WorkerOff
  <2>2. Ranked(s)
    BY <2>1, EmptyIsSeq DEF Ranked
  <2>3. Seen(s) = 0
    <3>1. Seen(s) = 0 + 0
      BY <2>1, EmptyIsSeq DEF Seen
    <3>2. QED
      BY <3>1
  <2>4. Len(s.taken) <= Len(s.meta)
    BY <2>1, EmptyIsSeq
  <2>5. Member(n, s)
    BY <2>1, <2>2, <2>3, <2>4, EmptyIsSeq DEF Member
  <2>6. QED
    BY <2>1, <2>5 DEF Behind, Together
<1>3. QED
  BY <1>1, <1>2

LEMMA NewTrainer ==
  ASSUME NEW n \in Nat, NEW t, t = TrainerOff \/ t = [TrainerOff EXCEPT !.pc = "send"]
  PROVE  t \in Trainers /\ Sending(n, t) /\ Cast(t) = 0 /\ t.op.st = "idle"
<1>1. /\ TrainerOff \in Trainers /\ TrainerOff.nx = 1 /\ TrainerOff.bucket.meta = <<>>
      /\ TrainerOff.op.st = "idle" /\ TrainerOff.pc = "off"
  <2>1. /\ NoBucket \in Bucket /\ NoBucket.meta = <<>> /\ NoOp.st = "idle"
        /\ NoOp \in [st : {"idle", "new", "sent"}, buf : 0..1, meta : Seq(Entry), last : BOOLEAN]
    BY EmptyIsSeq DEF NoBucket, Bucket, NoOp
  <2>2. <<>> \in Seq(Entry) /\ 0 \in 0..1 /\ 1 \in Nat
    BY EmptyIsSeq
  <2>3. QED
    BY <2>1, <2>2 DEF TrainerOff, Trainers
<1>2. /\ t \in Trainers /\ t.nx = 1 /\ t.bucket.meta = <<>> /\ t.op.st = "idle" /\ t.pc \in {"off", "send"}
  BY <1>1 DEF Trainers
<1>3. Cast(t) = 0
  <2>1. Len(t.bucket.meta) = 0
    BY <1>2, EmptyIsSeq
  <2>2. Cast(t) = 1 - 1 - 0 - 0
    BY <1>2, <2>1 DEF Cast
  <2>3. QED
    BY <2>2
<1>4. From(t.bucket.meta, t.nx - 1 - Len(t.bucket.meta))
  BY <1>2, EmptyIsSeq
<1>5. Sending(n, t)
  BY <1>2, <1>3, <1>4 DEF Sending
<1>6. QED
  BY <1>2, <1>3, <1>5

LEMMA NewServer ==
  LET s == [ServerOff EXCEPT !.pc = "shake"] IN
  /\ ServerOff \in Servers /\ ServerOff.pc = "off" /\ ServerOff.op.st = "idle"
  /\ s \in Servers /\ s.pc = "shake" /\ s.op.st = "idle" /\ s.pos = 1 /\ s.bucket.meta = <<>>
  /\ s.views = <<>> /\ ~s.last
<1>1. NoReceive \in [st : {"idle", "run", "done"}, got : Metadata] /\ NoReceive.st = "idle"
  BY EmptyIsSeq DEF NoReceive, Metadata
<1>2. NoBucket \in Bucket /\ NoBucket.meta = <<>>
  BY EmptyIsSeq DEF NoBucket, Bucket
<1>3. <<>> \in Seq(Entry) /\ <<>> \in Seq([w : Nat, offset : Nat, from : 0..1, start : Nat])
      /\ 0 \in 0..1 /\ 1 \in Nat
  BY EmptyIsSeq
<1>4. /\ ServerOff \in Servers /\ ServerOff.pc = "off" /\ ServerOff.op.st = "idle" /\ ServerOff.pos = 1
      /\ ServerOff.bucket.meta = <<>> /\ ServerOff.views = <<>> /\ ~ServerOff.last
  BY <1>1, <1>2, <1>3 DEF ServerOff, Servers
<1>5. QED
  BY <1>4 DEF Servers

LEMMA InitInv == ASSUME TransferInit PROVE TransferInv
<1>1. /\ plan \in Plans /\ sync = "off" /\ version = 0 /\ trainer = TrainerOff
      /\ topic = [r \in Replicas |-> <<>>] /\ server = [r \in Replicas |-> ServerOff]
      /\ socket = [r \in Replicas |-> Idle] /\ worker = [r \in Replicas |-> [k \in Ranks |-> WorkerOff]]
  BY DEF TransferInit
<1>2. Count \in Nat /\ Driver \in Ranks
  BY <1>1, Deployment
<1>3. trainer \in Trainers /\ Sending(Count, trainer) /\ trainer.op.st = "idle"
  BY <1>1, <1>2, NewTrainer
<1>4. trainer.pc = "off"
  BY <1>1 DEF TrainerOff
<1>5. Idle \in Sockets /\ Idle.st = "idle"
  BY EmptyIsSeq DEF Sockets, Message, Idle
<1>6. Shapes
  BY <1>1, <1>3, <1>5, EmptyIsSeq, NewServer DEF Shapes
<1>7. ASSUME NEW r \in Replicas
      PROVE  Replica(r)
  <2>1. /\ server[r] = ServerOff /\ socket[r] = Idle /\ topic[r] = <<>>
        /\ \A k \in Ranks : worker[r][k] = WorkerOff
    BY <1>1
  <2>2. Group(Count, Ranks, worker[r])
    BY <1>2, <2>1, NewMember DEF Group
  <2>3. Talk(Count, server[r], socket[r], worker[r][Driver])
    BY <1>2, <1>5, <2>1, NewServer, NewMember DEF Talk
  <2>4. /\ Drawing(Count, server[r], socket[r], worker[r][Driver])
        /\ Feed(Count, server[r], socket[r], worker[r][Driver], Cast(trainer))
        /\ Fitting(server[r], socket[r], worker[r][Driver])
    BY <2>1, NewServer DEF Drawing, Feed, Fitting
  <2>5. Subscribed(trainer, topic[r])
    BY <1>3, <2>1 DEF Subscribed
  <2>6. QED
    BY <2>2, <2>3, <2>4, <2>5 DEF Replica
<1>8. Still
  BY <1>1, <1>2, <1>3, <1>4, NewServer, NewMember DEF Still
<1>9. QED
  BY <1>3, <1>4, <1>6, <1>7, <1>8 DEF TransferInv

\* Both ends begin anew, and nothing is on the way from before.
LEMMA StartStep ==
  ASSUME TransferInv, NEW v \in Nat, StartTransfer(v)
  PROVE  TransferInv'
<1> DEFINE a == [WorkerOff EXCEPT !.pc = "attach"]
           u == [ServerOff EXCEPT !.pc = "shake"]
<1>1. /\ sync = "off" /\ sync' = "on" /\ version' = v /\ UNCHANGED <<plan, topic, socket>>
      /\ trainer' = IF plan.colocated THEN TrainerOff ELSE [TrainerOff EXCEPT !.pc = "send"]
      /\ server' = [r \in Replicas |-> u]
      /\ worker' = [r \in Replicas |-> [k \in Ranks |-> a]]
  BY DEF StartTransfer
<1>2. Still /\ plan \in Plans /\ socket \in [Replicas -> Sockets] /\ topic \in [Replicas -> Seq(Metadata)]
  BY <1>1 DEF TransferInv, Shapes
<1>3. Count \in Nat /\ Driver \in Ranks /\ Count' = Count /\ Ranks' = Ranks
  BY <1>1, <1>2, Deployment DEF Count, Ranks
<1>4. trainer' \in Trainers /\ Sending(Count, trainer') /\ Cast(trainer') = 0 /\ trainer'.op.st = "idle"
  BY <1>1, <1>3, NewTrainer
<1>5. plan.colocated => trainer'.pc = "off"
  BY <1>1 DEF TrainerOff
<1>6. u \in Servers /\ u.pc = "shake" /\ u.op.st = "idle" /\ u.pos = 1 /\ u.bucket.meta = <<>>
      /\ u.views = <<>> /\ ~u.last
  BY NewServer
<1>7. Member(Count, a) /\ a.pc = "attach" /\ Behind(a, a)
  BY <1>3, NewMember
<1> HIDE DEF a, u
<1>8. Shapes'
  BY <1>1, <1>2, <1>3, <1>4, <1>6 DEF Shapes
<1>9. ASSUME NEW r \in Replicas
      PROVE  Replica(r)'
  <2>1. socket[r].st = "idle" /\ topic[r] = <<>>
    <3>1. Talk(Count, server[r], socket[r], worker[r][Driver]) /\ Subscribed(trainer, topic[r])
      BY DEF TransferInv, Replica
    <3>2. server[r].pc \in {"off", "done"} /\ trainer.op.st = "idle"
      BY <1>2 DEF Still
    <3>3. QED
      BY <3>1, <3>2 DEF Talk, Subscribed
  <2>2. /\ server'[r] = u /\ socket'[r] = socket[r] /\ topic'[r] = <<>>
        /\ \A k \in Ranks : worker'[r][k] = a
    BY <1>1, <2>1
  <2>3. Group(Count, Ranks, worker'[r])
    BY <1>3, <1>7, <2>2 DEF Group
  <2>4. Talk(Count, server'[r], socket'[r], worker'[r][Driver])
    BY <1>3, <1>6, <1>7, <2>1, <2>2 DEF Talk
  <2>5. Drawing(Count, server'[r], socket'[r], worker'[r][Driver])
    BY <1>6, <2>2 DEF Drawing
  <2>6. Feed(Count, server'[r], socket'[r], worker'[r][Driver], Cast(trainer'))
    BY <1>4, <1>6, <2>2 DEF Feed
  <2>7. Fitting(server[r], socket[r], worker[r][Driver])'
    BY <1>6, <2>2 DEF Fitting
  <2>8. Subscribed(trainer', topic'[r])
    BY <1>4, <2>2 DEF Subscribed
  <2>9. QED
    BY <1>3, <2>3, <2>4, <2>5, <2>6, <2>7, <2>8 DEF Replica
<1>10. QED
  BY <1>1, <1>3, <1>4, <1>5, <1>8, <1>9 DEF TransferInv

\* What is over has come to rest.
LEMMA EndStep ==
  ASSUME TransferInv, EndTransfer
  PROVE  TransferInv'
<1>1. /\ sync' = "off" /\ TransferDone
      /\ UNCHANGED <<plan, version, trainer, topic, server, socket, worker>>
  BY DEF EndTransfer
<1>2. Count' = Count /\ Ranks' = Ranks
  BY <1>1 DEF Count, Ranks
<1>3. Sending(Count, trainer) /\ (plan.colocated => trainer.pc = "off")
  BY DEF TransferInv
<1>4. trainer.op.st = "idle" /\ trainer.pc \in {"off", "sent"}
  BY <1>1, <1>3 DEF TransferDone, Sending
<1>5. Still'
  BY <1>1, <1>2, <1>4 DEF Still, TransferDone
<1>6. Shapes'
  BY <1>1, <1>2 DEF TransferInv, Shapes
<1>7. ASSUME NEW r \in Replicas
      PROVE  Replica(r)'
  <2>1. Replica(r) /\ Subscribed(trainer', topic'[r])
    BY <1>1 DEF TransferInv, Replica
  <2>2. QED
    BY <1>1, <2>1, ReplicaAlone
<1>8. QED
  BY <1>1, <1>2, <1>3, <1>5, <1>6, <1>7 DEF TransferInv

LEMMA TransferSteps ==
  ASSUME TransferInv, TransferNext
  PROVE  TransferInv'
BY TrainerSteps, PublishStep, BroadcastStep, ServerSteps, WorkerSteps DEF TransferNext, TrainerNext

-----------------------------------------------------------------------------
(* What the caller of a synchronisation may rely on.                       *)

\* Once all are done, every worker has loaded every weight and every weight
\* went through the buffer of the replica's sender.
LEMMA DoneIsWhole ==
  ASSUME TransferInv, TransferDone, NEW r \in Replicas
  PROVE  /\ \A k \in Ranks : Len(worker[r][k].loaded) = Count /\ From(worker[r][k].loaded, 0)
                             /\ IsSeq(worker[r][k].loaded)
         /\ \A w \in Weights : Size(w) <= IpcCap
<1>1. server[r].pc = "done" /\ \A k \in Ranks : worker[r][k].pc = "done"
  BY DEF TransferDone
<1>2. ASSUME NEW k \in Ranks
      PROVE  /\ Len(worker[r][k].loaded) = Count /\ From(worker[r][k].loaded, 0)
             /\ IsSeq(worker[r][k].loaded) /\ Seen(worker[r][k]) = Count
  <2> DEFINE s == worker[r][k]
  <2>1. Member(Count, s) /\ s.pc = "done"
    BY <1>1, WorkerBefore
  <2>2. s.meta = <<>> /\ Seen(s) = Count /\ From(s.loaded, 0) /\ IsSeq(s.loaded)
    BY <2>1 DEF Member, Ranked
  <2>3. Seen(s) = Len(s.loaded) + 0
    BY <2>2, EmptyIsSeq DEF Seen
  <2>4. Len(s.loaded) \in Nat
    BY <2>2, Indices
  <2>5. QED
    BY <2>2, <2>3, <2>4
<1>3. ASSUME NEW w \in Weights
      PROVE  Size(w) <= IpcCap
  <2> DEFINE x == socket[r]
             d == worker[r][Driver]
  <2>1. plan \in Plans /\ Talk(Count, server[r], x, d) /\ Fitting(server[r], x, d)
    BY ServerBefore
  <2>2. Driver \in Ranks /\ Count \in Nat /\ Weights = 1..Count
    BY <2>1, Deployment
  <2>3. x.st = "idle"
    BY <1>1, <2>1 DEF Talk
  <2>4. Gone(server[r], x, d) = Count + 0 + 0
    BY <1>1, <1>2, <2>2, <2>3 DEF Gone, InFlight
  <2>5. w <= Gone(server[r], x, d)
    BY <2>2, <2>4
  <2>6. QED
    BY <1>1, <2>1, <2>5 DEF Fitting
<1>4. QED
  BY <1>2, <1>3

\* A replica that fails meets a weight larger than its buffer, and stays failed.
LEMMA FailureIsReal ==
  ASSUME TransferInv, NEW r \in Replicas, server[r].pc = "failed"
  PROVE  \E w \in Weights : Size(w) > IpcCap
BY ServerBefore DEF Fitting

LEMMA FailureStays ==
  ASSUME TransferInv, TransferNext, TransferFailed
  PROVE  TransferFailed'
<1>1. trainer \in Trainers /\ server \in [Replicas -> Servers]
  BY DEF TransferInv, Shapes
<1>2. CASE trainer.pc = "failed" /\ trainer.op.st = "idle"
  <2>1. trainer'.pc = trainer.pc /\ trainer'.op.st = trainer.op.st
    <3>1. CASE TrainerLand
      BY <1>1, <3>1 DEF TrainerLand, Trainers
    <3>2. CASE \E r \in Replicas : ServerNext(r)
      BY <3>2 DEF ServerNext, Handshake, Answered, Process, TooLarge, Flush, NextBucket, Land, Join
    <3>3. CASE \E r \in Replicas : WorkerNext(r)
      BY <3>3 DEF WorkerNext, DriverReceives, Barrier, RankReceives, Clone, Taken, Load
    <3>4. ~TrainerFill /\ ~TrainerFlush /\ ~TrainerLast /\ ~Publish /\ ~Broadcast
      BY <1>2 DEF TrainerFill, TrainerFlush, TrainerLast, Publish, Broadcast
    <3>5. QED
      BY <3>1, <3>2, <3>3, <3>4 DEF TransferNext, TrainerNext
  <2>2. QED
    BY <1>2, <2>1 DEF TransferFailed
<1>3. ASSUME NEW q \in Replicas, server[q].pc = "failed"
      PROVE  server'[q].pc = "failed"
  <2>1. socket[q].st = "idle"
    BY <1>3, ServerBefore DEF Talk
  <2>2. CASE TrainerNext
    BY <1>3, <2>2 DEF TrainerNext, TrainerFill, TrainerFlush, TrainerLast, TrainerLand, Publish
  <2>3. CASE Broadcast
    BY <1>1, <1>3, <2>3 DEF Broadcast, Servers
  <2>4. CASE \E r \in Replicas : WorkerNext(r)
    BY <1>3, <2>4 DEF WorkerNext, DriverReceives, Barrier, RankReceives, Clone, Taken, Load
  <2>5. ASSUME NEW r \in Replicas, ServerNext(r)
        PROVE  server'[q].pc = "failed"
    <3>1. CASE r = q
      <4>1. ~Handshake(q) /\ ~Answered(q) /\ ~Process(q) /\ ~TooLarge(q) /\ ~Flush(q, FALSE) /\ ~Flush(q, TRUE)
            /\ ~NextBucket(q)
        BY <1>3, <2>1 DEF Handshake, Answered, Process, TooLarge, Flush, NextBucket, HasView
      <4>2. CASE Land(q)
        BY <1>1, <1>3, <4>2 DEF Land, Servers
      <4>3. CASE Join(q)
        BY <1>3, <4>3 DEF Join
      <4>4. QED
        BY <2>5, <3>1, <4>1, <4>2, <4>3 DEF ServerNext
    <3>2. CASE r # q
      <4>1. server'[q] = server[q]
        BY <1>1, <2>5, <3>2 DEF ServerNext, Handshake, Answered, Process, TooLarge, Flush, NextBucket, Land, Join
      <4>2. QED
        BY <1>3, <4>1
    <3>3. QED
      BY <3>1, <3>2
  <2>6. QED
    BY <2>2, <2>3, <2>4, <2>5 DEF TransferNext
<1>4. QED
  BY <1>2, <1>3 DEF TransferFailed

-----------------------------------------------------------------------------
(* The refinement of WeightSync, step by step.                             *)

\* The weights of s, in order: what Transfer maps loaded to.
Ids(s) == [i \in DOMAIN s |-> s[i].w]

LEMMA IdsOfRun ==
  ASSUME NEW s, IsSeq(s), From(s, 0)
  PROVE  Ids(s) = Transfer!Order(Len(s)) /\ Len(Ids(s)) = Len(s)
<1>1. DOMAIN s = 1..Len(s) /\ Len(s) \in Nat
  BY Indices
<1>2. \A i \in DOMAIN s : s[i].w = i
  <2>1. ASSUME NEW i \in DOMAIN s PROVE s[i].w = i
    <3>1. s[i].w = 0 + i /\ i \in Int
      BY <1>1 DEF From
    <3>2. QED
      BY <3>1
  <2>2. QED
    BY <2>1
<1>3. Ids(s) = [i \in 1..Len(s) |-> i]
  BY <1>1, <1>2 DEF Ids
<1>4. Len([i \in 1..Len(s) |-> i]) = Len(s)
  BY <1>1
<1>5. QED
  BY <1>3, <1>4 DEF Transfer!Order

LEMMA IdsOfNothing == Ids(<<>>) = <<>>
<1>1. DOMAIN <<>> = 1..0 /\ Ids(<<>>) \in Seq({1})
  BY DEF Ids
<1>2. Len(Ids(<<>>)) = 0
  BY <1>1 DEF Ids
<1>3. QED
  BY <1>1, <1>2

\* A step that leaves alone what the workers have loaded is a stutter.
LEMMA Stutter ==
  ASSUME UNCHANGED <<plan, sync, version>>,
         \A r \in Replicas : \A k \in Ranks : worker'[r][k].loaded = worker[r][k].loaded
  PROVE  UNCHANGED Transfer!vars
<1>1. Ranks' = Ranks
  BY DEF Ranks
<1>2. [rk \in Replicas \X Ranks |->
         [i \in DOMAIN worker[rk[1]][rk[2]].loaded |-> worker[rk[1]][rk[2]].loaded[i].w]]' =
      [rk \in Replicas \X Ranks |->
         [i \in DOMAIN worker[rk[1]][rk[2]].loaded |-> worker[rk[1]][rk[2]].loaded[i].w]]
  BY <1>1
<1>3. QED
  BY <1>1, <1>2 DEF Transfer!vars

\* What a worker has loaded is not touched when it is told of a message.
LEMMA ToldKeeps ==
  ASSUME NEW n, NEW s, Member(n, s), NEW m, NEW q
  PROVE  /\ Told(s, m).loaded = s.loaded
         /\ [Told(s, m) EXCEPT !.inbox = q].loaded = s.loaded
<1>1. "loaded" \in DOMAIN s
  BY DEF Member, Ranked
<1>2. QED
  BY <1>1 DEF Told

\* A step of the transfer neither begins nor ends a synchronisation.
LEMMA NextKeeps ==
  ASSUME TransferNext
  PROVE  UNCHANGED <<plan, sync, version>>
<1>1. CASE TrainerNext \/ Broadcast
  BY <1>1 DEF TrainerNext, TrainerFill, TrainerFlush, TrainerLast, TrainerLand, Publish, Broadcast
<1>2. ASSUME NEW r \in Replicas, ServerNext(r)
      PROVE  UNCHANGED <<plan, sync, version>>
  BY <1>2 DEF ServerNext, Handshake, Answered, Process, TooLarge, Flush, NextBucket, Land, Join
<1>3. ASSUME NEW r \in Replicas, WorkerNext(r)
      PROVE  UNCHANGED <<plan, sync, version>>
  BY <1>3 DEF WorkerNext, DriverReceives, Barrier, RankReceives, Clone, Taken, Load
<1>4. QED
  BY <1>1, <1>2, <1>3 DEF TransferNext

\* Nor does a step outside it move it.
LEMMA RestStutters ==
  ASSUME UNCHANGED <<plan, sync, version, worker>>
  PROVE  UNCHANGED Transfer!vars
BY Stutter

LEMMA OthersStutter ==
  ASSUME TransferInv, TransferNext, \A r \in Replicas : \A k \in Ranks : ~Load(r, k)
  PROVE  UNCHANGED Transfer!vars
<1>1. UNCHANGED <<plan, sync, version>>
  BY NextKeeps
<1> DEFINE Kept == \A q \in Replicas : \A k \in Ranks : worker'[q][k].loaded = worker[q][k].loaded
<1>2. ASSUME NEW r \in Replicas, NEW k \in Ranks
      PROVE  /\ Member(Count, worker[r][k]) /\ "loaded" \in DOMAIN worker[r][k]
             /\ DOMAIN worker = Replicas /\ DOMAIN worker[r] = Ranks
  BY WorkerBefore DEF Member, Ranked
<1>3. ASSUME NEW r \in Replicas, WorkerNext(r)
      PROVE  Kept
  <2>1. CASE DriverReceives(r)
    <3> DEFINE m == socket[r].msg
               ws == [k \in Ranks |-> IF k = Driver THEN Told(worker[r][k], m)
                                      ELSE [worker[r][k] EXCEPT !.inbox = Append(@, m)]]
    <3>1. worker' = [worker EXCEPT ![r] = ws]
      BY <2>1 DEF DriverReceives
    <3>2. ASSUME NEW k \in Ranks PROVE ws[k].loaded = worker[r][k].loaded
      BY <1>2, ToldKeeps
    <3> HIDE DEF ws
    <3>3. QED
      BY <1>2, <3>1, <3>2
  <2>2. CASE Barrier(r)
    <3> DEFINE ws == [k \in Ranks |-> [worker[r][k] EXCEPT !.pc = "load"]]
    <3>1. worker' = [worker EXCEPT ![r] = ws]
      BY <2>2 DEF Barrier
    <3>2. ASSUME NEW k \in Ranks PROVE ws[k].loaded = worker[r][k].loaded
      BY <1>2
    <3> HIDE DEF ws
    <3>3. QED
      BY <1>2, <3>1, <3>2
  <2>3. ASSUME NEW k \in Ranks, RankReceives(r, k)
        PROVE  Kept
    <3> DEFINE s == worker[r][k]
               u == [Told(s, Head(s.inbox)) EXCEPT !.inbox = Tail(s.inbox)]
    <3>1. worker' = [worker EXCEPT ![r] = [worker[r] EXCEPT ![k] = u]]
      BY <1>2, <2>3 DEF RankReceives
    <3>2. u.loaded = s.loaded
      BY <1>2, ToldKeeps
    <3> HIDE DEF u
    <3>3. QED
      BY <1>2, <3>1, <3>2
  <2>4. ASSUME NEW k \in Ranks, Clone(r, k)
        PROVE  Kept
    <3> DEFINE s == worker[r][k]
               e == s.meta[Len(s.taken) + 1]
               a == [w |-> e.w, words |-> {shared[r][b] : b \in Bytes(e.offset, e.w)}]
               u == [s EXCEPT !.taken = Append(@, a)]
    <3>1. worker' = [worker EXCEPT ![r] = [worker[r] EXCEPT ![k] = u]]
      BY <1>2, <2>4 DEF Clone
    <3> HIDE DEF a
    <3>2. u.loaded = s.loaded
      BY <1>2
    <3> HIDE DEF u
    <3>3. QED
      BY <1>2, <3>1, <3>2
  <2>5. ASSUME NEW k \in Ranks, Taken(r, k)
        PROVE  Kept
    <3> DEFINE u == [worker[r][k] EXCEPT !.pc = "barrier"]
    <3>1. worker' = [worker EXCEPT ![r] = [worker[r] EXCEPT ![k] = u]]
      BY <1>2, <2>5 DEF Taken
    <3>2. u.loaded = worker[r][k].loaded
      BY <1>2
    <3> HIDE DEF u
    <3>3. QED
      BY <1>2, <3>1, <3>2
  <2>6. QED
    BY <1>3, <2>1, <2>2, <2>3, <2>4, <2>5 DEF WorkerNext
<1>4. ASSUME TrainerNext \/ Broadcast \/ \E r \in Replicas : ServerNext(r)
      PROVE  Kept
  <2>1. worker' = worker
    BY <1>4 DEF TrainerNext, TrainerFill, TrainerFlush, TrainerLast, TrainerLand, Publish,
       Broadcast, ServerNext, Handshake, Answered, Process, TooLarge, Flush, NextBucket, Land, Join
  <2>2. QED
    BY <2>1
<1> HIDE DEF Kept
<1>5. Kept
  <2>1. TrainerNext \/ Broadcast \/ (\E r \in Replicas : ServerNext(r)) \/ (\E r \in Replicas : WorkerNext(r))
    BY DEF TransferNext
  <2>2. CASE \E r \in Replicas : WorkerNext(r)
    BY <1>3, <2>2
  <2>3. QED
    BY <1>4, <2>1, <2>2
<1>6. QED
  BY <1>1, <1>5, Stutter DEF Kept

\* A worker that loads loads the weights that come next in the trainer's order.
LEMMA LoadMaps ==
  ASSUME TransferInv, NEW r \in Replicas, NEW k \in Ranks, Load(r, k)
  PROVE  Transfer!Load(<<r, k>>)
<1> DEFINE s == worker[r][k]
           v == s.loaded \o s.taken
           n == Len(v)
           u == [s EXCEPT !.loaded = v, !.taken = <<>>, !.meta = <<>>, !.pc = IF s.last THEN "done" ELSE "receive"]
           L == [rk \in Replicas \X Ranks |->
                   [i \in DOMAIN worker[rk[1]][rk[2]].loaded |-> worker[rk[1]][rk[2]].loaded[i].w]]
<1>1. /\ UNCHANGED <<plan, sync, version>> /\ s.pc = "load"
      /\ worker' = [worker EXCEPT ![r][k] = u]
  BY DEF Load
<1>2. /\ Member(Count, s) /\ DOMAIN worker = Replicas /\ DOMAIN worker[r] = Ranks
      /\ Count \in Nat /\ (sync = "off" => s.pc \in {"off", "done"})
  BY WorkerBefore
<1>3. sync = "on"
  BY <1>1, <1>2 DEF TransferInv, Shapes
<1>4. /\ IsSeq(s.taken) /\ IsSeq(s.loaded) /\ From(s.loaded, 0) /\ From(s.taken, Len(s.loaded))
      /\ Len(s.taken) = Len(s.meta) /\ Seen(s) <= Count /\ "loaded" \in DOMAIN s
  BY <1>1, <1>2 DEF Member, Ranked
<1>5. IsSeq(v) /\ n = Len(s.loaded) + Len(s.taken) /\ From(v, 0) /\ n \in Nat
      /\ Len(s.loaded) \in Nat /\ Len(s.taken) \in Nat
  BY <1>4, Joined, Indices
<1>6. Ids(v) = Transfer!Order(n)
  BY <1>5, IdsOfRun
<1>7. Ids(s.loaded) = Transfer!Order(Len(s.loaded)) /\ Len(Ids(s.loaded)) = Len(s.loaded)
  BY <1>4, IdsOfRun
<1>8. u.loaded = v
  BY <1>4
<1> HIDE DEF v, n, u
<1>9. n \in Len(Ids(s.loaded))..Count
  <2> DEFINE a == Len(s.loaded)
             b == Len(s.taken)
  <2>1. n <= Count
    BY <1>4, <1>5 DEF Seen
  <2>2. a \in Nat /\ b \in Nat /\ n = a + b /\ Count \in Nat /\ Len(Ids(s.loaded)) = a
    BY <1>2, <1>5, <1>7
  <2> HIDE DEF a, b
  <2>3. n \in a..Count
    <3>1. a \in Nat /\ b \in Nat /\ n = a + b /\ Count \in Nat
      BY <2>2
    <3>2. QED
      BY <2>1, <3>1
  <2>4. QED
    BY <2>2, <2>3
<1>10. \A q \in Replicas : \A j \in Ranks :
         worker'[q][j].loaded = IF q = r /\ j = k THEN v ELSE worker[q][j].loaded
  BY <1>1, <1>2, <1>8
<1>11. Ranks' = Ranks
  BY <1>1 DEF Ranks
<1>12. L[<<r, k>>] = Ids(s.loaded)
  BY DEF Ids
<1>13. L' = [L EXCEPT ![<<r, k>>] = Transfer!Order(n)]
  <2>1. L' = [rk \in Replicas \X Ranks |-> Ids(worker'[rk[1]][rk[2]].loaded)]
    BY <1>11 DEF Ids
  <2>2. ASSUME NEW rk \in Replicas \X Ranks
        PROVE  Ids(worker'[rk[1]][rk[2]].loaded) = IF rk = <<r, k>> THEN Ids(v) ELSE L[rk]
    <3>1. rk = <<rk[1], rk[2]>> /\ rk[1] \in Replicas /\ rk[2] \in Ranks
      OBVIOUS
    <3>2. CASE rk = <<r, k>>
      BY <1>10, <3>1, <3>2
    <3>3. CASE rk # <<r, k>>
      <4>1. ~(rk[1] = r /\ rk[2] = k)
        BY <3>1, <3>3
      <4>2. worker'[rk[1]][rk[2]].loaded = worker[rk[1]][rk[2]].loaded
        BY <1>10, <3>1, <4>1
      <4>3. L[rk] = Ids(worker[rk[1]][rk[2]].loaded)
        BY DEF Ids
      <4>4. QED
        BY <3>3, <4>2, <4>3
    <3>4. QED
      BY <3>2, <3>3
  <2>3. QED
    BY <1>6, <2>1, <2>2
<1>14. QED
  BY <1>1, <1>3, <1>9, <1>11, <1>12, <1>13 DEF Transfer!Load, Count

LEMMA TransferNextMaps ==
  ASSUME TransferInv, TransferNext
  PROVE  [Transfer!Next]_(Transfer!vars)
<1>1. CASE \A r \in Replicas : \A k \in Ranks : ~Load(r, k)
  BY <1>1, OthersStutter
<1>2. ASSUME NEW r \in Replicas, NEW k \in Ranks, Load(r, k)
      PROVE  Transfer!Next
  <2>1. Transfer!Load(<<r, k>>) /\ <<r, k>> \in Replicas \X Ranks
    BY <1>2, LoadMaps
  <2>2. QED
    BY <2>1 DEF Transfer!Next
<1>3. QED
  BY <1>1, <1>2

\* A synchronisation begins with nothing loaded.
LEMMA StartMaps ==
  ASSUME NEW v \in Nat, StartTransfer(v), version <= v
  PROVE  Transfer!Start
<1>1. /\ sync = "off" /\ sync' = "on" /\ version' = v /\ UNCHANGED plan
      /\ worker' = [r \in Replicas |-> [k \in Ranks |-> [WorkerOff EXCEPT !.pc = "attach"]]]
  BY DEF StartTransfer
<1>2. Ranks' = Ranks
  BY <1>1 DEF Ranks
<1>3. [WorkerOff EXCEPT !.pc = "attach"].loaded = <<>>
  BY DEF WorkerOff
<1>4. [rk \in Replicas \X Ranks |->
         [i \in DOMAIN worker[rk[1]][rk[2]].loaded |-> worker[rk[1]][rk[2]].loaded[i].w]]' =
      [w \in Replicas \X Ranks |-> <<>>]
  <2>1. ASSUME NEW rk \in Replicas \X Ranks
        PROVE  Ids(worker'[rk[1]][rk[2]].loaded) = <<>>
    <3>1. worker'[rk[1]][rk[2]].loaded = <<>>
      BY <1>1, <1>3
    <3>2. QED
      BY <3>1, IdsOfNothing
  <2>2. QED
    BY <1>2, <2>1 DEF Ids
<1>5. version' >= version
  BY <1>1
<1>6. QED
  BY <1>1, <1>2, <1>4, <1>5 DEF Transfer!Start

\* It is over when all have loaded all.
LEMMA EndMaps ==
  ASSUME TransferInv, EndTransfer
  PROVE  Transfer!Finish
<1>1. sync = "on" /\ sync' = "off" /\ TransferDone /\ UNCHANGED <<plan, version, worker>>
  BY DEF EndTransfer
<1>2. Ranks' = Ranks
  BY <1>1 DEF Ranks
<1>3. ASSUME NEW w \in Replicas \X Ranks
      PROVE  Ids(worker[w[1]][w[2]].loaded) = Transfer!Order(Count)
  <2>1. w[1] \in Replicas /\ w[2] \in Ranks
    OBVIOUS
  <2>2. /\ Len(worker[w[1]][w[2]].loaded) = Count /\ From(worker[w[1]][w[2]].loaded, 0)
        /\ IsSeq(worker[w[1]][w[2]].loaded)
    BY <1>1, <2>1, DoneIsWhole
  <2>3. QED
    BY <2>2, IdsOfRun
<1>4. QED
  BY <1>1, <1>2, <1>3 DEF Transfer!Finish, Ids, Count

-----------------------------------------------------------------------------
(* The invariant of the bytes.                                             *)

\* The bytes of an entry are those of its weight; so are those of all entries.
Has(buf, e) == \A b \in Bytes(e.offset, e.w) : buf[b] = <<e.w, version>>
Holds(buf, meta) == \A i \in DOMAIN meta : Has(buf, meta[i])

\* Entries that do not overlap and end at end or before.
Laid(meta, end) ==
  \A i \in DOMAIN meta :
    /\ meta[i].w \in Weights /\ meta[i].offset + Size(meta[i].w) <= end
    /\ \A j \in DOMAIN meta : i < j => meta[i].offset + Size(meta[i].w) <= meta[j].offset

\* An entry of a bucket is in its buffer, or the copy is still queued.
Same(c, e) == c.w = e.w /\ c.offset = e.offset
Copying(meta, queue, buf) ==
  /\ \A i \in DOMAIN meta : Has(buf, meta[i]) \/ \E j \in DOMAIN queue : Same(queue[j], meta[i])
  /\ \A j \in DOMAIN queue : \E i \in DOMAIN meta : Same(queue[j], meta[i])

\* The bucket that is filled is not the one that is broadcast, and that one is whole.
SendBytes(t, bufs) ==
  /\ Laid(t.bucket.meta, t.bucket.offset) /\ t.bucket.offset <= NcclCap
  /\ Copying(t.bucket.meta, t.queue, bufs[t.cur])
  /\ t.op.st # "idle" => t.op.buf = 1 - t.cur /\ Holds(bufs[t.op.buf], t.op.meta)

\* The bucket that is drawn from is whole, and so is the one received; what is
\* queued to be copied from the first is still there.
ViewOf(c) == [w |-> c.w, offset |-> c.start]
Viewed(s, bufs) ==
  /\ plan.colocated \/ Holds(bufs[s.cur], s.views)
  /\ s.op.st = "done" => Holds(bufs[1 - s.cur], s.op.got.meta)
  /\ \A j \in DOMAIN s.queue :
       plan.colocated \/ (s.queue[j].from = s.cur /\ Has(bufs[s.cur], ViewOf(s.queue[j])))

\* The shared buffer is filled only while the server draws.
Shared(s, buf) ==
  /\ Laid(s.bucket.meta, s.bucket.offset) /\ s.bucket.offset <= IpcCap
  /\ Copying(s.bucket.meta, s.queue, buf)
  /\ s.pc \notin {"pull", "failed"} => s.queue = <<>>

\* What the driver worker is told of, and what it took.
Clean(ts) == \A i \in DOMAIN ts : ts[i].words = {<<ts[i].w, version>>}
DriverBytes(s, x, d) ==
  /\ x.st = "request" /\ x.msg.kind = "bucket" => x.msg.meta = s.bucket.meta
  /\ d.pc = "copy" => d.meta = s.bucket.meta
  /\ Clean(d.taken) /\ Clean(d.loaded)

\* Types: what any worker copies lies in the shared buffer, whatever is in there.
Inside(meta) == \A i \in DOMAIN meta : meta[i].w \in Weights /\ meta[i].offset + Size(meta[i].w) <= IpcCap
Copies(w) ==
  /\ Inside(w.meta) /\ \A i \in DOMAIN w.inbox : Inside(w.inbox[i].meta)
  /\ {w.taken, w.loaded} \subseteq Seq(Tensors)

BufferTypes ==
  /\ send_bufs \in [0..1 -> Buffers(NcclCap)]
  /\ shared \in [Replicas -> Buffers(IpcCap)]
  /\ recv_bufs \in [Replicas -> [0..1 -> Buffers(NcclCap)]]
  /\ joined \subseteq Replicas

ReplicaBytes(r) ==
  /\ Viewed(server[r], recv_bufs[r]) /\ Shared(server[r], shared[r])
  /\ DriverBytes(server[r], socket[r], worker[r][Driver])
  /\ \A k \in Ranks : Copies(worker[r][k])

BytesInv ==
  /\ BufferTypes
  /\ SendBytes(trainer, send_bufs)
  /\ \A r \in Replicas : ReplicaBytes(r)

\* A step of the transfer leaves deployment and version alone, and so what the above means.
LEMMA Meaning ==
  ASSUME UNCHANGED <<plan, version>>
  PROVE  /\ \A buf, e : Has(buf, e)' <=> Has(buf, e)
         /\ \A buf, meta : Holds(buf, meta)' <=> Holds(buf, meta)
         /\ \A meta, end : Laid(meta, end)' <=> Laid(meta, end)
         /\ \A meta, queue, buf : Copying(meta, queue, buf)' <=> Copying(meta, queue, buf)
         /\ \A t, bufs : SendBytes(t, bufs)' <=> SendBytes(t, bufs)
         /\ \A s, bufs : Viewed(s, bufs)' <=> Viewed(s, bufs)
         /\ \A s, buf : Shared(s, buf)' <=> Shared(s, buf)
         /\ \A s, x, d : DriverBytes(s, x, d)' <=> DriverBytes(s, x, d)
         /\ \A w : Copies(w)' <=> Copies(w)
<1>1. \A o, w : Size(w)' = Size(w) /\ Bytes(o, w)' = Bytes(o, w)
  BY DEF Size, Bytes
<1>2. Weights' = Weights /\ Words' = Words /\ Tensors' = Tensors
  BY DEF Weights, Words, Tensors
<1>3. \A buf, e : Has(buf, e)' <=> Has(buf, e)
  BY <1>1 DEF Has
<1>4. \A buf, meta : Holds(buf, meta)' <=> Holds(buf, meta)
  BY <1>3 DEF Holds
<1>5. \A meta, end : Laid(meta, end)' <=> Laid(meta, end)
  BY <1>1, <1>2 DEF Laid
<1>6. \A meta, queue, buf : Copying(meta, queue, buf)' <=> Copying(meta, queue, buf)
  BY <1>3 DEF Copying
<1>7. \A t, bufs : SendBytes(t, bufs)' <=> SendBytes(t, bufs)
  BY <1>4, <1>5, <1>6 DEF SendBytes
<1>8. \A s, bufs : Viewed(s, bufs)' <=> Viewed(s, bufs)
  BY <1>3, <1>4 DEF Viewed
<1>9. \A s, buf : Shared(s, buf)' <=> Shared(s, buf)
  BY <1>5, <1>6 DEF Shared
<1>10. \A s, x, d : DriverBytes(s, x, d)' <=> DriverBytes(s, x, d)
  BY DEF DriverBytes, Clean
<1>11. \A meta : Inside(meta)' <=> Inside(meta)
  BY <1>1, <1>2 DEF Inside
<1>12. \A w : Copies(w)' <=> Copies(w)
  BY <1>2, <1>11 DEF Copies
<1>13. QED
  BY <1>3, <1>4, <1>5, <1>6, <1>7, <1>8, <1>9, <1>10, <1>12

\* Types for as long as the version stays.
LEMMA BufferTypesStay ==
  ASSUME BufferTypes, UNCHANGED <<plan, version>>,
         send_bufs' \in [0..1 -> Buffers(NcclCap)],
         shared' \in [Replicas -> Buffers(IpcCap)],
         recv_bufs' \in [Replicas -> [0..1 -> Buffers(NcclCap)]],
         joined' \subseteq Replicas
  PROVE  BufferTypes'
<1>1. Words' = Words
  BY DEF Words, Weights
<1>2. Buffers(NcclCap)' = Buffers(NcclCap) /\ Buffers(IpcCap)' = Buffers(IpcCap)
  BY <1>1 DEF Buffers
<1>3. QED
  BY <1>2 DEF BufferTypes

\* A replica that a step leaves alone.
LEMMA BytesAlone ==
  ASSUME NEW r \in Replicas, ReplicaBytes(r), UNCHANGED <<plan, version>>,
         server'[r] = server[r], recv_bufs'[r] = recv_bufs[r], shared'[r] = shared[r],
         socket'[r] = socket[r], worker'[r] = worker[r]
  PROVE  ReplicaBytes(r)'
<1>1. Ranks' = Ranks
  BY DEF Ranks
<1>2. /\ Viewed(server[r], recv_bufs[r])' /\ Shared(server[r], shared[r])'
      /\ DriverBytes(server[r], socket[r], worker[r][Driver])'
      /\ \A k \in Ranks : Copies(worker[r][k])'
  BY Meaning DEF ReplicaBytes
<1>3. QED
  BY <1>1, <1>2 DEF ReplicaBytes

\* A step of one replica.
LEMMA BytesOfOne ==
  ASSUME BytesInv, NEW r \in Replicas, UNCHANGED <<plan, version, trainer, send_bufs, recv_bufs>>,
         shared' \in [Replicas -> Buffers(IpcCap)], joined' \subseteq Replicas,
         \A q \in Replicas : q # r =>
           /\ server'[q] = server[q] /\ shared'[q] = shared[q]
           /\ socket'[q] = socket[q] /\ worker'[q] = worker[q],
         Viewed(server'[r], recv_bufs[r]), Shared(server'[r], shared'[r]),
         DriverBytes(server'[r], socket'[r], worker'[r][Driver]),
         \A k \in Ranks : Copies(worker'[r][k])
  PROVE  BytesInv'
<1>1. BufferTypes'
  BY BufferTypesStay DEF BytesInv, BufferTypes
<1>2. SendBytes(trainer, send_bufs)'
  BY Meaning DEF BytesInv
<1>3. ASSUME NEW q \in Replicas
      PROVE  ReplicaBytes(q)'
  <2>1. CASE q # r
    BY <2>1, BytesAlone DEF BytesInv
  <2>2. CASE q = r
    <3>1. Ranks' = Ranks
      BY DEF Ranks
    <3>2. /\ Viewed(server[r], recv_bufs[r])' /\ Shared(server[r], shared[r])'
          /\ DriverBytes(server[r], socket[r], worker[r][Driver])'
          /\ \A k \in Ranks : Copies(worker[r][k])'
      BY Meaning
    <3>3. QED
      BY <2>2, <3>1, <3>2 DEF ReplicaBytes
  <2>3. QED
    BY <2>1, <2>2
<1>4. QED
  BY <1>1, <1>2, <1>3 DEF BytesInv

-----------------------------------------------------------------------------
(* Buffers.                                                                *)

\* Some index of a finite choice is the largest.
LEMMA LargestIsIn ==
  ASSUME NEW n \in Nat, NEW T \in SUBSET (1..n), T # {}
  PROVE  Max(T) \in T
<1> DEFINE S == {m \in Nat : \A U \in SUBSET (1..m) : U # {} => \E x \in U : \A y \in U : x >= y}
<1>1. 0 \in S
  <2>1. 1..0 = {}
    OBVIOUS
  <2>2. QED
    BY <2>1
<1>2. ASSUME NEW m \in Nat, m \in S
      PROVE  m + 1 \in S
  <2>1. SUFFICES ASSUME NEW U \in SUBSET (1..(m + 1)), U # {}
                 PROVE  \E x \in U : \A y \in U : x >= y
    OBVIOUS
  <2>2. CASE m + 1 \in U
    <3>1. \A y \in U : m + 1 >= y
      OBVIOUS
    <3>2. QED
      BY <2>2, <3>1
  <2>3. CASE m + 1 \notin U
    <3>1. U \in SUBSET (1..m)
      BY <2>3
    <3>2. QED
      BY <1>2, <2>1, <3>1
  <2>4. QED
    BY <2>2, <2>3
<1> HIDE DEF S
<1>3. n \in S
  BY <1>1, <1>2, InductionOnNat
<1>4. \E x \in T : \A y \in T : x >= y
  BY <1>3 DEF S
<1>5. QED
  BY <1>4 DEF Max

\* The copies over a byte, and what they leave there.
Over(copies, b) == {i \in DOMAIN copies : b \in Bytes(copies[i].offset, copies[i].w)}

\* A byte of an entry.
LEMMA InBytes ==
  ASSUME NEW o \in Int, NEW w, Size(w) \in Int, NEW b \in Bytes(o, w)
  PROVE  b >= o /\ b < o + Size(w) /\ b \in Int
BY DEF Bytes

\* Where an element of an extended sequence was.
LEMMA AppendAt ==
  ASSUME NEW T, NEW q \in Seq(T), NEW x \in T, NEW j \in DOMAIN Append(q, x)
  PROVE  (j \in DOMAIN q /\ Append(q, x)[j] = q[j]) \/ Append(q, x)[j] = x
OBVIOUS

LEMMA LandedByte ==
  ASSUME NEW S, NEW copies \in Seq(S), NEW buf, NEW words, NEW b \in DOMAIN buf
  PROVE  /\ Over(copies, b) = {} => Landed(buf, copies, words)[b] = buf[b]
         /\ Over(copies, b) # {} =>
              \E i \in Over(copies, b) : Landed(buf, copies, words)[b] = words[i][b - copies[i].offset]
<1> DEFINE over == Over(copies, b)
<1>1. Landed(buf, copies, words)[b]
        = IF over = {} THEN buf[b] ELSE words[Max(over)][b - copies[Max(over)].offset]
  BY DEF Landed, Over
<1>2. over # {} => Max(over) \in over
  <2>1. DOMAIN copies = 1..Len(copies) /\ Len(copies) \in Nat
    OBVIOUS
  <2>2. over \in SUBSET (1..Len(copies))
    BY <2>1 DEF Over
  <2> HIDE DEF over
  <2>3. QED
    BY <2>1, <2>2, LargestIsIn
<1> HIDE DEF over
<1>3. QED
  BY <1>1, <1>2 DEF over

\* What is copied is what the copies are of.
Speaks(copies, words) ==
  \A j \in DOMAIN copies : \A x \in 0..(Size(copies[j].w) - 1) : words[j][x] = <<copies[j].w, version>>

\* Copies of entries of a bucket spoil no other entry of it.
LEMMA LandedHas ==
  ASSUME plan \in Plans, version \in Nat, NEW cap \in Nat, NEW buf \in Buffers(cap),
         NEW meta \in Seq(Entry), NEW end \in Nat, end <= cap, Laid(meta, end),
         NEW S, NEW copies \in Seq(S), \A j \in DOMAIN copies : \E i \in DOMAIN meta : Same(copies[j], meta[i]),
         NEW words, Speaks(copies, words)
  PROVE  /\ Landed(buf, copies, words) \in Buffers(cap)
         /\ \A i \in DOMAIN meta :
              Has(buf, meta[i]) \/ (\E j \in DOMAIN copies : Same(copies[j], meta[i]))
                => Has(Landed(buf, copies, words), meta[i])
<1> DEFINE new == Landed(buf, copies, words)
<1>1. DOMAIN buf = 0..(cap - 1) /\ DOMAIN new = 0..(cap - 1) /\ new = [b \in 0..(cap - 1) |-> new[b]]
  BY DEF Buffers, Landed
<1>2. \A i \in DOMAIN meta : meta[i].offset \in Nat /\ meta[i].w \in Weights /\ Size(meta[i].w) \in Nat
                             /\ Size(meta[i].w) > 0
  <2>1. \A i \in DOMAIN meta : meta[i] \in Entry
    OBVIOUS
  <2>2. QED
    BY <2>1, Deployment DEF Entry, Laid
<1>3. ASSUME NEW b \in 0..(cap - 1), NEW j \in Over(copies, b), NEW i \in DOMAIN meta, Same(copies[j], meta[i])
      PROVE  words[j][b - copies[j].offset] = <<meta[i].w, version>> /\ b \in Bytes(meta[i].offset, meta[i].w)
  <2>1. j \in DOMAIN copies /\ b \in Bytes(meta[i].offset, meta[i].w)
    BY <1>3 DEF Over, Same
  <2>2. b - meta[i].offset \in 0..(Size(meta[i].w) - 1)
    BY <1>2, <2>1 DEF Bytes
  <2>3. QED
    BY <1>3, <2>1, <2>2 DEF Speaks, Same
<1>4. ASSUME NEW b \in 0..(cap - 1)
      PROVE  /\ Over(copies, b) = {} => new[b] = buf[b]
             /\ Over(copies, b) # {} =>
                  \E i \in DOMAIN meta : b \in Bytes(meta[i].offset, meta[i].w) /\ new[b] = <<meta[i].w, version>>
  <2>1. CASE Over(copies, b) = {}
    BY <1>1, <2>1, LandedByte
  <2>2. CASE Over(copies, b) # {}
    <3>1. PICK j \in Over(copies, b) : new[b] = words[j][b - copies[j].offset]
      <4>1. b \in DOMAIN buf
        BY <1>1
      <4>2. \E j \in Over(copies, b) : Landed(buf, copies, words)[b] = words[j][b - copies[j].offset]
        BY <2>2, <4>1, LandedByte
      <4>3. QED
        BY <4>2
    <3>2. j \in DOMAIN copies
      BY DEF Over
    <3>3. PICK i \in DOMAIN meta : Same(copies[j], meta[i])
      BY <3>2
    <3>4. QED
      BY <1>3, <2>2, <3>1, <3>3
  <2>3. QED
    BY <2>1, <2>2
<1>5. \A b \in 0..(cap - 1) : new[b] \in Words
  <2>1. \A i \in DOMAIN meta : <<meta[i].w, version>> \in Words
    BY <1>2 DEF Words
  <2>2. \A b \in 0..(cap - 1) : buf[b] \in Words
    BY DEF Buffers
  <2>3. QED
    BY <1>4, <2>1, <2>2
<1>6. new \in Buffers(cap)
  BY <1>1, <1>5 DEF Buffers
<1> HIDE DEF new
<1>7. ASSUME NEW i \in DOMAIN meta, NEW b \in Bytes(meta[i].offset, meta[i].w),
             Has(buf, meta[i]) \/ \E j \in DOMAIN copies : Same(copies[j], meta[i])
      PROVE  new[b] = <<meta[i].w, version>>
  <2>1. b \in 0..(cap - 1)
    <3>1. meta[i].offset + Size(meta[i].w) <= end
      BY DEF Laid
    <3>2. QED
      BY <1>2, <3>1 DEF Bytes
  <2>2. CASE Over(copies, b) = {}
    <3>1. ASSUME NEW j \in DOMAIN copies, Same(copies[j], meta[i])
          PROVE  FALSE
      BY <2>2, <3>1 DEF Over, Same
    <3>2. Has(buf, meta[i])
      BY <1>7, <3>1
    <3>3. QED
      BY <1>4, <2>1, <2>2, <3>2 DEF Has
  <2>3. CASE Over(copies, b) # {}
    <3>1. PICK k \in DOMAIN meta : b \in Bytes(meta[k].offset, meta[k].w) /\ new[b] = <<meta[k].w, version>>
      BY <1>4, <2>1, <2>3
    <3>2. k = i
      <4>1. /\ i < k => meta[i].offset + Size(meta[i].w) <= meta[k].offset
            /\ k < i => meta[k].offset + Size(meta[k].w) <= meta[i].offset
        BY DEF Laid
      <4>2. /\ b >= meta[i].offset /\ b < meta[i].offset + Size(meta[i].w)
            /\ b >= meta[k].offset /\ b < meta[k].offset + Size(meta[k].w)
            /\ b \in Int
        <5> DEFINE io == meta[i].offset
                   iw == meta[i].w
                   ko == meta[k].offset
                   kw == meta[k].w
        <5>1. io \in Int /\ Size(iw) \in Int /\ ko \in Int /\ Size(kw) \in Int
          BY <1>2
        <5>2. b \in Bytes(io, iw) /\ b \in Bytes(ko, kw)
          BY <1>7, <3>1
        <5> HIDE DEF io, iw, ko, kw
        <5>3. b >= io /\ b < io + Size(iw) /\ b >= ko /\ b < ko + Size(kw) /\ b \in Int
          BY <5>1, <5>2, InBytes
        <5>4. QED
          BY <5>3 DEF io, iw, ko, kw
      <4>3. i \in Int /\ k \in Int
        OBVIOUS
      <4>4. QED
        BY <1>2, <4>1, <4>2, <4>3
    <3>3. QED
      BY <3>1, <3>2
  <2>4. QED
    BY <2>2, <2>3
<1>8. QED
  BY <1>6, <1>7 DEF Has, new

\* Once all that is queued has landed the bucket is whole, and the first that lands is
\* no longer needed in the queue.
LEMMA CopiesLand ==
  ASSUME plan \in Plans, version \in Nat, NEW cap \in Nat, NEW buf \in Buffers(cap),
         NEW meta \in Seq(Entry), NEW end \in Nat, end <= cap, Laid(meta, end),
         NEW S, NEW queue \in Seq(S), Copying(meta, queue, buf), NEW words, Speaks(queue, words)
  PROVE  /\ Landed(buf, queue, words) \in Buffers(cap)
         /\ Holds(Landed(buf, queue, words), meta)
         /\ Copying(meta, <<>>, Landed(buf, queue, words))
<1>1. /\ Landed(buf, queue, words) \in Buffers(cap)
      /\ \A i \in DOMAIN meta : Has(Landed(buf, queue, words), meta[i])
  BY LandedHas DEF Copying
<1>2. DOMAIN <<>> = {}
  OBVIOUS
<1>3. QED
  BY <1>1, <1>2 DEF Holds, Copying

LEMMA HeadLands ==
  ASSUME plan \in Plans, version \in Nat, NEW cap \in Nat, NEW buf \in Buffers(cap),
         NEW meta \in Seq(Entry), NEW end \in Nat, end <= cap, Laid(meta, end),
         NEW S, NEW queue \in Seq(S), queue # <<>>, Copying(meta, queue, buf),
         NEW words, Speaks(<<Head(queue)>>, words)
  PROVE  /\ Landed(buf, <<Head(queue)>>, words) \in Buffers(cap)
         /\ Copying(meta, Tail(queue), Landed(buf, <<Head(queue)>>, words))
<1> DEFINE h == Head(queue)
           one == <<h>>
           new == Landed(buf, one, words)
<1>1. /\ h = queue[1] /\ 1 \in DOMAIN queue /\ one \in Seq(S) /\ DOMAIN one = {1} /\ one[1] = h
      /\ Tail(queue) \in Seq(S)
      /\ \A j \in DOMAIN Tail(queue) : Tail(queue)[j] = queue[j + 1] /\ j + 1 \in DOMAIN queue
      /\ \A j \in DOMAIN queue : j # 1 => j - 1 \in DOMAIN Tail(queue) /\ Tail(queue)[j - 1] = queue[j]
  OBVIOUS
<1> HIDE DEF one
<1>2. /\ \A i \in DOMAIN meta : Has(buf, meta[i]) \/ \E j \in DOMAIN queue : Same(queue[j], meta[i])
      /\ \A j \in DOMAIN queue : \E i \in DOMAIN meta : Same(queue[j], meta[i])
  BY DEF Copying
<1>3. \A j \in DOMAIN one : \E i \in DOMAIN meta : Same(one[j], meta[i])
  BY <1>1, <1>2
<1>4. Speaks(one, words)
  BY DEF one
<1> HIDE DEF h
<1>5. /\ new \in Buffers(cap)
      /\ \A i \in DOMAIN meta :
           Has(buf, meta[i]) \/ (\E j \in DOMAIN one : Same(one[j], meta[i])) => Has(new, meta[i])
  BY <1>1, <1>3, <1>4, LandedHas
<1> HIDE DEF new
<1>6. ASSUME NEW i \in DOMAIN meta
      PROVE  Has(new, meta[i]) \/ \E j \in DOMAIN Tail(queue) : Same(Tail(queue)[j], meta[i])
  <2>1. CASE Has(buf, meta[i])
    BY <1>5, <2>1
  <2>2. CASE \E j \in DOMAIN queue : Same(queue[j], meta[i])
    <3>1. PICK j \in DOMAIN queue : Same(queue[j], meta[i])
      BY <2>2
    <3>2. CASE j = 1
      BY <1>1, <1>5, <3>1, <3>2
    <3>3. CASE j # 1
      BY <1>1, <3>1, <3>3
    <3>4. QED
      BY <3>2, <3>3
  <2>3. QED
    BY <1>2, <2>1, <2>2
<1>7. Copying(meta, Tail(queue), new)
  <2>1. \A j \in DOMAIN Tail(queue) : \E i \in DOMAIN meta : Same(Tail(queue)[j], meta[i])
    BY <1>1, <1>2
  <2>2. QED
    BY <1>6, <2>1 DEF Copying
<1>8. QED
  BY <1>5, <1>7 DEF new, one, h

\* A weight that is put into a bucket.
LEMMA CopyQueued ==
  ASSUME plan \in Plans, NEW meta \in Seq(Entry), NEW end \in Nat, Laid(meta, end),
         NEW S, NEW queue \in Seq(S), NEW buf, Copying(meta, queue, buf),
         NEW w \in Weights, NEW c, Same(c, [w |-> w, offset |-> end])
  PROVE  LET e == [w |-> w, offset |-> end] IN
         /\ Laid(Append(meta, e), end + Size(w)) /\ end + Size(w) \in Nat
         /\ Copying(Append(meta, e), Append(queue, c), buf)
<1> DEFINE e == [w |-> w, offset |-> end]
           m == Append(meta, e)
           q == Append(queue, c)
           l == Len(meta) + 1
           k == Len(queue) + 1
<1>1. Size(w) \in Nat /\ \A i \in DOMAIN meta : Size(meta[i].w) \in Nat /\ meta[i].offset \in Nat
                                               /\ meta[i].w \in Weights
  <2>1. \A i \in DOMAIN meta : meta[i] \in Entry
    OBVIOUS
  <2>2. QED
    BY <2>1, Deployment DEF Laid, Entry
<1>2. /\ DOMAIN m = DOMAIN meta \cup {l} /\ m[l] = e /\ \A i \in DOMAIN meta : m[i] = meta[i] /\ i < l /\ i \in Nat
      /\ l \in Nat
  BY Appended, SeqIsSeq
<1>3. /\ DOMAIN q = DOMAIN queue \cup {k} /\ q[k] = c /\ \A j \in DOMAIN queue : q[j] = queue[j]
  OBVIOUS
<1>4. e.w = w /\ e.offset = end
  OBVIOUS
<1> HIDE DEF e, m, q, l, k
<1>5. ASSUME NEW i \in DOMAIN m
      PROVE  /\ m[i].w \in Weights /\ m[i].offset + Size(m[i].w) <= end + Size(w)
             /\ \A j \in DOMAIN m : i < j => m[i].offset + Size(m[i].w) <= m[j].offset
  <2>1. CASE i = l
    <3>1. \A j \in DOMAIN m : ~(i < j)
      BY <1>2, <2>1
    <3>2. QED
      BY <1>1, <1>2, <1>4, <2>1, <3>1
  <2>2. CASE i \in DOMAIN meta
    <3>1. /\ m[i] = meta[i] /\ meta[i].w \in Weights /\ meta[i].offset + Size(meta[i].w) <= end
          /\ \A j \in DOMAIN meta : i < j => meta[i].offset + Size(meta[i].w) <= meta[j].offset
      BY <1>2, <2>2 DEF Laid
    <3>2. meta[i].offset + Size(meta[i].w) <= end + Size(w)
      BY <1>1, <2>2, <3>1
    <3>3. QED
      BY <1>2, <1>4, <3>1, <3>2
  <2>3. QED
    BY <1>2, <2>1, <2>2
<1>6. Laid(m, end + Size(w))
  BY <1>5 DEF Laid
<1>7. Copying(m, q, buf)
  <2>1. \A i \in DOMAIN m : Has(buf, m[i]) \/ \E j \in DOMAIN q : Same(q[j], m[i])
    <3>1. Same(q[k], m[l]) /\ k \in DOMAIN q
      BY <1>2, <1>3 DEF e
    <3>2. QED
      BY <1>2, <1>3, <3>1 DEF Copying
  <2>2. \A j \in DOMAIN q : \E i \in DOMAIN m : Same(q[j], m[i])
    <3>1. Same(q[k], m[l]) /\ l \in DOMAIN m
      BY <1>2, <1>3 DEF e
    <3>2. QED
      BY <1>2, <1>3, <3>1 DEF Copying
  <2>3. QED
    BY <2>1, <2>2 DEF Copying
<1>8. QED
  BY <1>1, <1>6, <1>7 DEF m, q, e

\* A bucket that is begun.
LEMMA NothingCopied == \A buf : Copying(<<>>, <<>>, buf) /\ Laid(<<>>, 0) /\ Holds(buf, <<>>)
BY DEF Copying, Laid, Holds

-----------------------------------------------------------------------------
(* The trainer's bytes.                                                    *)

\* A copy on the trainer is of the weight itself.
LEMMA OwnSpeaks ==
  ASSUME NEW copies
  PROVE  Speaks(copies, [i \in DOMAIN copies |-> Own(copies[i].w)])
BY DEF Speaks, Own

\* A step of the trainer alone.
LEMMA TrainerBytesAlone ==
  ASSUME BytesInv, UNCHANGED <<plan, version, joined, server, recv_bufs, shared, socket, worker>>,
         send_bufs' \in [0..1 -> Buffers(NcclCap)], SendBytes(trainer', send_bufs')
  PROVE  BytesInv'
<1>1. BufferTypes'
  BY BufferTypesStay DEF BytesInv, BufferTypes
<1>2. SendBytes(trainer, send_bufs)'
  BY Meaning
<1>3. \A r \in Replicas : ReplicaBytes(r)'
  BY BytesAlone DEF BytesInv
<1>4. QED
  BY <1>1, <1>2, <1>3 DEF BytesInv

LEMMA FilledBytes ==
  ASSUME plan \in Plans, NEW t \in Trainers, NEW bufs, SendBytes(t, bufs), t.nx \in Weights,
         t.bucket.offset + Size(t.nx) <= NcclCap
  PROVE  SendBytes(Filled(t, t.nx), bufs)
<1> DEFINE e == [w |-> t.nx, offset |-> t.bucket.offset]
           u == Filled(t, t.nx)
<1>1. /\ t.bucket.meta \in Seq(Entry) /\ t.bucket.offset \in Nat /\ t.queue \in Seq(Entry)
      /\ t.cur \in 0..1
  BY DEF Trainers, Bucket
<1>2. /\ u.bucket.meta = Append(t.bucket.meta, e) /\ u.bucket.offset = t.bucket.offset + Size(t.nx)
      /\ u.queue = Append(t.queue, e) /\ u.cur = t.cur /\ u.op = t.op
  BY DEF Filled, Packed, Queued, Trainers
<1> HIDE DEF u
<1>3. Same(e, e)
  BY DEF Same
<1>4. Laid(t.bucket.meta, t.bucket.offset) /\ Copying(t.bucket.meta, t.queue, bufs[t.cur])
  BY DEF SendBytes
<1>5. /\ Laid(u.bucket.meta, u.bucket.offset) /\ Copying(u.bucket.meta, u.queue, bufs[u.cur])
  BY <1>1, <1>2, <1>3, <1>4, CopyQueued
<1>6. QED
  BY <1>2, <1>5 DEF SendBytes, u

\* The bucket is whole before it is broadcast, and the other one is begun.
LEMMA FlushedBytes ==
  ASSUME plan \in Plans, version \in Nat, NEW t \in Trainers, NEW bufs \in [0..1 -> Buffers(NcclCap)],
         SendBytes(t, bufs), NEW last \in BOOLEAN
  PROVE  LET new == [bufs EXCEPT ![t.cur] = OnTrainer(@, t.queue)]
             u == Flushed(t, last)
         IN  /\ new \in [0..1 -> Buffers(NcclCap)] /\ SendBytes(u, new)
             /\ u.nx = t.nx /\ u.bucket.offset = 0
<1> DEFINE new == [bufs EXCEPT ![t.cur] = OnTrainer(@, t.queue)]
           u == Flushed(t, last)
           full == OnTrainer(bufs[t.cur], t.queue)
<1>1. /\ t.bucket.meta \in Seq(Entry) /\ t.bucket.offset \in Nat /\ t.queue \in Seq(Entry)
      /\ t.cur \in 0..1 /\ NcclCap \in Nat
  BY Deployment DEF Trainers, Bucket
<1>2. /\ u.bucket = NoBucket /\ u.queue = <<>> /\ u.cur = 1 - t.cur /\ u.nx = t.nx
      /\ u.op.st = "new" /\ u.op.buf = t.cur /\ u.op.meta = t.bucket.meta
  BY DEF Flushed, Trainers
<1>3. /\ Laid(t.bucket.meta, t.bucket.offset) /\ t.bucket.offset <= NcclCap
      /\ Copying(t.bucket.meta, t.queue, bufs[t.cur]) /\ bufs[t.cur] \in Buffers(NcclCap)
  BY <1>1 DEF SendBytes
<1>4. full \in Buffers(NcclCap) /\ Holds(full, t.bucket.meta)
  BY <1>1, <1>3, OwnSpeaks, CopiesLand DEF OnTrainer
<1>5. new[t.cur] = full /\ new \in [0..1 -> Buffers(NcclCap)]
  BY <1>1, <1>4
<1> HIDE DEF u, new, full
<1>6. t.cur = 1 - u.cur
  BY <1>1, <1>2
<1>7. u.bucket.meta = <<>> /\ u.bucket.offset = 0 /\ 0 <= NcclCap
  BY <1>1, <1>2 DEF NoBucket
<1>8. Copying(u.bucket.meta, u.queue, new[u.cur]) /\ Laid(u.bucket.meta, u.bucket.offset)
  BY <1>2, <1>7, NothingCopied
<1>9. SendBytes(u, new)
  BY <1>2, <1>4, <1>5, <1>6, <1>7, <1>8 DEF SendBytes
<1>10. QED
  BY <1>2, <1>5, <1>7, <1>9 DEF u, new

LEMMA TrainerBytes ==
  ASSUME TransferInv, BytesInv, TrainerFill \/ TrainerFlush \/ TrainerLast \/ TrainerLand \/ Publish
  PROVE  BytesInv'
<1> DEFINE t == trainer
           new == [send_bufs EXCEPT ![t.cur] = OnTrainer(@, t.queue)]
<1>1. /\ plan \in Plans /\ version \in Nat /\ t \in Trainers /\ Sending(Count, t) /\ Count \in Nat
      /\ (plan.colocated => trainer.pc = "off") /\ Weights = 1..Count /\ NcclCap \in Nat
  BY Deployment DEF TransferInv, Shapes
<1>2. SendBytes(t, send_bufs) /\ send_bufs \in [0..1 -> Buffers(NcclCap)]
  BY DEF BytesInv, BufferTypes
<1>3. UNCHANGED <<plan, version, joined, server, recv_bufs, shared, socket, worker>>
  BY DEF TrainerFill, TrainerFlush, TrainerLast, TrainerLand, Publish
<1>4. SUFFICES /\ send_bufs' \in [0..1 -> Buffers(NcclCap)]
               /\ SendBytes(trainer', send_bufs')
  BY <1>3, TrainerBytesAlone
<1>5. CASE TrainerFill
  <2>1. /\ t.nx \in Weights /\ t.bucket.offset + Size(t.nx) <= NcclCap
        /\ trainer' = Filled(t, t.nx) /\ send_bufs' = send_bufs
    BY <1>5 DEF TrainerFill
  <2>2. QED
    BY <1>1, <1>2, <2>1, FilledBytes
\* Whatever comes of where the trainer is.
<1>6. \A u \in Trainers : \A p : SendBytes(u, new) => SendBytes([u EXCEPT !.pc = p], new)
  BY DEF SendBytes, Trainers
<1>7. CASE TrainerFlush
  <2> DEFINE u == Flushed(t, FALSE)
  <2>1. /\ t.pc = "send" /\ t.nx \in Weights /\ t.op.st = "idle" /\ send_bufs' = new
        /\ trainer' = IF Size(t.nx) > NcclCap THEN [u EXCEPT !.pc = "failed"] ELSE Filled(u, t.nx)
    BY <1>7 DEF TrainerFlush, TrainerSynchronize
  <2>2. u \in Trainers
    BY <1>1, <2>1, FlushedSends
  <2>3. new \in [0..1 -> Buffers(NcclCap)] /\ SendBytes(u, new) /\ u.nx = t.nx /\ u.bucket.offset = 0
    BY <1>1, <1>2, FlushedBytes
  <2>4. Size(t.nx) \in Nat
    BY <1>1, <2>1, Deployment
  <2> HIDE DEF u, new
  <2>5. CASE Size(t.nx) > NcclCap
    BY <1>6, <2>1, <2>2, <2>3, <2>5
  <2>6. CASE ~(Size(t.nx) > NcclCap)
    <3>1. u.bucket.offset + Size(u.nx) <= NcclCap
      BY <1>1, <2>3, <2>4, <2>6
    <3>2. SendBytes(Filled(u, u.nx), new)
      BY <1>1, <2>1, <2>2, <2>3, <3>1, FilledBytes
    <3>3. QED
      BY <2>1, <2>3, <2>6, <3>2
  <2>7. QED
    BY <2>5, <2>6
<1>8. CASE TrainerLast
  <2>1. send_bufs' = new /\ trainer' = [Flushed(t, TRUE) EXCEPT !.pc = "sent"]
    BY <1>8 DEF TrainerLast, TrainerSynchronize
  <2>2. new \in [0..1 -> Buffers(NcclCap)] /\ SendBytes(Flushed(t, TRUE), new)
    BY <1>1, <1>2, FlushedBytes
  <2>3. Flushed(t, TRUE) \in Trainers
    <3>1. t.pc = "send" /\ t.op.st = "idle" /\ t.nx \notin Weights
      BY <1>8 DEF TrainerLast
    <3>2. t.nx \in Nat /\ t.nx >= 1 /\ t.nx <= Count + 1
      BY <1>1 DEF Trainers, Sending
    <3>3. t.nx = Count + 1
      BY <1>1, <3>1, <3>2
    <3>4. QED
      BY <1>1, <3>1, <3>3, FlushedSends
  <2> HIDE DEF new
  <2>4. QED
    BY <1>6, <2>1, <2>2, <2>3
<1>9. CASE TrainerLand
  <2> DEFINE one == <<Head(t.queue)>>
             buf == send_bufs[t.cur]
             landed == OnTrainer(buf, one)
  <2>1. /\ t.queue # <<>> /\ send_bufs' = [send_bufs EXCEPT ![t.cur] = landed]
        /\ trainer' = [trainer EXCEPT !.queue = Tail(@)]
    BY <1>9 DEF TrainerLand
  <2>2. /\ t.bucket.meta \in Seq(Entry) /\ t.bucket.offset \in Nat /\ t.queue \in Seq(Entry) /\ t.cur \in 0..1
        /\ t.op.st # "idle" => t.op.buf = 1 - t.cur /\ t.op.buf \in 0..1
    BY <1>1, <1>2 DEF Trainers, Bucket, SendBytes
  <2>3. /\ Laid(t.bucket.meta, t.bucket.offset) /\ t.bucket.offset <= NcclCap
        /\ Copying(t.bucket.meta, t.queue, buf) /\ buf \in Buffers(NcclCap)
    BY <1>2, <2>2 DEF SendBytes
  <2>4. landed \in Buffers(NcclCap) /\ Copying(t.bucket.meta, Tail(t.queue), landed)
    BY <1>1, <2>1, <2>2, <2>3, OwnSpeaks, HeadLands DEF OnTrainer
  <2> HIDE DEF landed, buf
  <2>5. /\ send_bufs' \in [0..1 -> Buffers(NcclCap)] /\ send_bufs'[t.cur] = landed
        /\ send_bufs'[1 - t.cur] = send_bufs[1 - t.cur]
    BY <1>2, <2>1, <2>2, <2>4
  <2>6. /\ trainer'.bucket = t.bucket /\ trainer'.queue = Tail(t.queue) /\ trainer'.cur = t.cur
        /\ trainer'.op = t.op
    BY <1>1, <2>1 DEF Trainers
  <2>7. QED
    BY <1>2, <2>2, <2>3, <2>4, <2>5, <2>6 DEF SendBytes
<1>10. CASE Publish
  <2>1. /\ t.op.st = "new" /\ trainer' = [trainer EXCEPT !.op.st = "sent"] /\ send_bufs' = send_bufs
    BY <1>10 DEF Publish
  <2>2. /\ trainer'.bucket = t.bucket /\ trainer'.queue = t.queue /\ trainer'.cur = t.cur
        /\ trainer'.op.buf = t.op.buf /\ trainer'.op.meta = t.op.meta
    BY <1>1, <2>1 DEF Trainers
  <2>3. QED
    BY <1>2, <2>1, <2>2 DEF SendBytes
<1>11. QED
  BY <1>5, <1>7, <1>8, <1>9, <1>10

\* Every server has received the bucket into the buffer it does not draw from.
LEMMA BroadcastBytes ==
  ASSUME TransferInv, BytesInv, Broadcast
  PROVE  BytesInv'
<1> DEFINE bucket == send_bufs[trainer.op.buf]
<1>1. /\ trainer \in Trainers /\ server \in [Replicas -> Servers] /\ topic \in [Replicas -> Seq(Metadata)]
  BY DEF TransferInv, Shapes
<1>2. /\ trainer.op.st = "sent" /\ \A r \in Replicas : server[r].op.st = "run" /\ topic[r] # <<>>
      /\ recv_bufs' = [r \in Replicas |-> [recv_bufs[r] EXCEPT ![1 - server[r].cur] = bucket]]
      /\ server' = [r \in Replicas |-> [server[r] EXCEPT !.op = [st |-> "done", got |-> Head(topic[r])]]]
      /\ trainer' = [trainer EXCEPT !.op.st = "idle"]
      /\ UNCHANGED <<plan, version, send_bufs, joined, shared, socket, worker>>
  BY DEF Broadcast
<1>3. SendBytes(trainer, send_bufs) /\ send_bufs \in [0..1 -> Buffers(NcclCap)]
      /\ recv_bufs \in [Replicas -> [0..1 -> Buffers(NcclCap)]]
  BY DEF BytesInv, BufferTypes
<1>4. bucket \in Buffers(NcclCap) /\ Holds(bucket, trainer.op.meta)
  BY <1>1, <1>2, <1>3 DEF SendBytes, Trainers
<1> HIDE DEF bucket
<1>5. ASSUME NEW r \in Replicas
      PROVE  /\ recv_bufs'[r] \in [0..1 -> Buffers(NcclCap)]
             /\ recv_bufs'[r][server[r].cur] = recv_bufs[r][server[r].cur]
             /\ recv_bufs'[r][1 - server[r].cur] = bucket
             /\ server'[r].op.st = "done" /\ server'[r].op.got.meta = trainer.op.meta
             /\ server'[r].cur = server[r].cur /\ server'[r].views = server[r].views
             /\ server'[r].queue = server[r].queue /\ server'[r].bucket = server[r].bucket
             /\ server'[r].pc = server[r].pc
  <2>1. server[r] \in Servers /\ server[r].cur \in 0..1 /\ recv_bufs[r] \in [0..1 -> Buffers(NcclCap)]
    BY <1>1, <1>3 DEF Servers
  <2>2. recv_bufs'[r] = [recv_bufs[r] EXCEPT ![1 - server[r].cur] = bucket]
    BY <1>2
  <2>3. Head(topic[r]).meta = trainer.op.meta
    <3>1. topic[r] = <<[meta |-> trainer.op.meta, last |-> trainer.op.last]>>
      BY <1>2 DEF TransferInv, Replica, Subscribed
    <3>2. QED
      BY <3>1, Inbox
  <2>4. server'[r] = [server[r] EXCEPT !.op = [st |-> "done", got |-> Head(topic[r])]]
    BY <1>2
  <2>5. QED
    BY <1>4, <2>1, <2>2, <2>3, <2>4 DEF Servers
<1>6. BufferTypes'
  <2>1. recv_bufs' \in [Replicas -> [0..1 -> Buffers(NcclCap)]]
    BY <1>2, <1>5
  <2>2. QED
    BY <1>2, <2>1, BufferTypesStay DEF BytesInv, BufferTypes
<1>7. SendBytes(trainer, send_bufs)'
  <2>1. /\ trainer'.bucket = trainer.bucket /\ trainer'.queue = trainer.queue /\ trainer'.cur = trainer.cur
        /\ trainer'.op.st = "idle"
    BY <1>1, <1>2 DEF Trainers
  <2>2. SendBytes(trainer', send_bufs')
    BY <1>2, <1>3, <2>1 DEF SendBytes
  <2>3. QED
    BY <1>2, <2>2, Meaning
<1>8. ASSUME NEW r \in Replicas
      PROVE  ReplicaBytes(r)'
  <2>1. ReplicaBytes(r)
    BY DEF BytesInv
  <2>2. Viewed(server'[r], recv_bufs'[r])
    BY <1>4, <1>5, <2>1 DEF ReplicaBytes, Viewed
  <2>3. Shared(server'[r], shared'[r])
    BY <1>2, <1>5, <2>1 DEF ReplicaBytes, Shared
  <2>4. DriverBytes(server'[r], socket'[r], worker'[r][Driver])
    BY <1>2, <1>5, <2>1 DEF ReplicaBytes, DriverBytes
  <2>5. \A k \in Ranks : Copies(worker'[r][k])
    BY <1>2, <2>1 DEF ReplicaBytes
  <2>6. Ranks' = Ranks
    BY <1>2 DEF Ranks
  <2>7. /\ Viewed(server[r], recv_bufs[r])' /\ Shared(server[r], shared[r])'
        /\ DriverBytes(server[r], socket[r], worker[r][Driver])'
        /\ \A k \in Ranks : Copies(worker[r][k])'
    BY <1>2, <2>2, <2>3, <2>4, <2>5, Meaning
  <2>8. QED
    BY <2>6, <2>7 DEF ReplicaBytes
<1>9. QED
  BY <1>6, <1>7, <1>8 DEF BytesInv

-----------------------------------------------------------------------------
(* The server's bytes.                                                     *)

\* A step of one server, its socket and its shared buffer.
LEMMA ServerBytesAlone ==
  ASSUME TransferInv, BytesInv, NEW r \in Replicas,
         UNCHANGED <<plan, version, trainer, send_bufs, recv_bufs, joined, worker>>,
         NEW u, NEW x, NEW buf \in Buffers(IpcCap),
         server' = [server EXCEPT ![r] = u], socket' = [socket EXCEPT ![r] = x],
         shared' = [shared EXCEPT ![r] = buf],
         Viewed(u, recv_bufs[r]), Shared(u, buf), DriverBytes(u, x, worker[r][Driver])
  PROVE  BytesInv'
<1>1. /\ DOMAIN server = Replicas /\ DOMAIN socket = Replicas /\ shared \in [Replicas -> Buffers(IpcCap)]
      /\ joined \subseteq Replicas /\ ReplicaBytes(r)
  BY DEF TransferInv, Shapes, BytesInv, BufferTypes
<1>2. /\ server'[r] = u /\ socket'[r] = x /\ shared'[r] = buf /\ shared' \in [Replicas -> Buffers(IpcCap)]
      /\ \A q \in Replicas : q # r =>
           server'[q] = server[q] /\ socket'[q] = socket[q] /\ shared'[q] = shared[q]
  BY <1>1
<1>3. \A k \in Ranks : Copies(worker'[r][k])
  BY <1>1 DEF ReplicaBytes
<1>4. QED
  BY <1>1, <1>2, <1>3, BytesOfOne

\* What holds of the bytes of a server before its step.
LEMMA ServerBytesBefore ==
  ASSUME TransferInv, BytesInv, NEW r \in Replicas
  PROVE  /\ plan \in Plans /\ version \in Nat /\ server[r] \in Servers
         /\ Viewed(server[r], recv_bufs[r]) /\ Shared(server[r], shared[r])
         /\ DriverBytes(server[r], socket[r], worker[r][Driver])
         /\ Talk(Count, server[r], socket[r], worker[r][Driver])
         /\ shared[r] \in Buffers(IpcCap)
         /\ server[r].bucket.meta \in Seq(Entry) /\ server[r].bucket.offset \in Nat
         /\ server[r].queue \in Seq([w : Nat, offset : Nat, from : 0..1, start : Nat])
         /\ server[r].cur \in 0..1
         /\ shared = [shared EXCEPT ![r] = shared[r]] /\ socket = [socket EXCEPT ![r] = socket[r]]
<1>1. server[r] \in Servers /\ plan \in Plans /\ version \in Nat
      /\ Talk(Count, server[r], socket[r], worker[r][Driver])
      /\ socket = [socket EXCEPT ![r] = socket[r]]
  BY ServerBefore DEF TransferInv, Shapes
<1>2. ReplicaBytes(r) /\ shared \in [Replicas -> Buffers(IpcCap)]
  BY DEF BytesInv, BufferTypes
<1>3. shared = [shared EXCEPT ![r] = shared[r]] /\ shared[r] \in Buffers(IpcCap)
  BY <1>2
<1>4. server[r].bucket \in Bucket /\ server[r].cur \in 0..1
      /\ server[r].queue \in Seq([w : Nat, offset : Nat, from : 0..1, start : Nat])
  BY <1>1 DEF Servers
<1>5. QED
  BY <1>1, <1>2, <1>3, <1>4 DEF ReplicaBytes, Bucket

\* A copy on the server is of the weight it is named for: the bucket its view is of is
\* still there.
LEMMA SourceSpeaks ==
  ASSUME plan \in Plans, NEW r \in Replicas, server[r] \in Servers,
         Viewed(server[r], recv_bufs[r]), Shared(server[r], shared[r])
  PROVE  LET q == server[r].queue IN Speaks(q, [i \in DOMAIN q |-> Source(r, q[i])])
<1> DEFINE s == server[r]
           q == s.queue
<1>1. SUFFICES ASSUME NEW j \in DOMAIN q, NEW x \in 0..(Size(q[j].w) - 1)
               PROVE  Source(r, q[j])[x] = <<q[j].w, version>>
  BY DEF Speaks
<1>2. CASE plan.colocated
  BY <1>1, <1>2 DEF Source, Own
<1>3. CASE ~plan.colocated
  <2>1. q[j].from = s.cur /\ Has(recv_bufs[r][s.cur], ViewOf(q[j]))
    BY <1>3 DEF Viewed
  <2>2. q[j] \in [w : Nat, offset : Nat, from : 0..1, start : Nat]
    <3>1. q \in Seq([w : Nat, offset : Nat, from : 0..1, start : Nat])
      BY DEF Servers
    <3>2. \A S : q \in Seq(S) => q[j] \in S
      OBVIOUS
    <3>3. QED
      BY <3>1, <3>2
  <2>3. q[j].w \in Weights
    BY DEF Shared, Copying, Laid, Same
  <2>4. Size(q[j].w) \in Nat /\ q[j].start \in Nat
    BY <2>2, <2>3, Deployment
  <2>5. q[j].start + x \in Bytes(q[j].start, q[j].w)
    BY <2>4 DEF Bytes
  <2>6. recv_bufs[r][s.cur][q[j].start + x] = <<q[j].w, version>>
    BY <2>1, <2>5 DEF Has, ViewOf
  <2>7. QED
    BY <1>3, <2>1, <2>6 DEF Source
<1>4. QED
  BY <1>2, <1>3

LEMMA HandshakeBytes ==
  ASSUME TransferInv, BytesInv, NEW r \in Replicas, Handshake(r)
  PROVE  BytesInv'
<1> DEFINE s == server[r]
           u == [s EXCEPT !.pc = "shaking"]
           x == Request("handle", <<>>, FALSE)
<1>1. /\ UNCHANGED <<plan, version, trainer, send_bufs, joined, recv_bufs, shared, worker>>
      /\ s.pc = "shake" /\ server' = [server EXCEPT ![r] = u] /\ socket' = [socket EXCEPT ![r] = x]
  BY DEF Handshake
<1>2. /\ s \in Servers /\ Viewed(s, recv_bufs[r]) /\ Shared(s, shared[r])
      /\ DriverBytes(s, socket[r], worker[r][Driver]) /\ shared[r] \in Buffers(IpcCap)
      /\ shared = [shared EXCEPT ![r] = shared[r]]
  BY ServerBytesBefore
<1>3. /\ u.pc = "shaking" /\ u.cur = s.cur /\ u.op = s.op /\ u.views = s.views
      /\ u.bucket = s.bucket /\ u.queue = s.queue /\ x.msg.kind = "handle"
  BY <1>2 DEF Servers, Request
<1> HIDE DEF u, x
<1>4. Viewed(u, recv_bufs[r])
  BY <1>2, <1>3 DEF Viewed
<1>5. Shared(u, shared[r])
  BY <1>1, <1>2, <1>3 DEF Shared
<1>6. DriverBytes(u, x, worker[r][Driver])
  BY <1>2, <1>3 DEF DriverBytes
<1>7. QED
  BY <1>1, <1>2, <1>4, <1>5, <1>6, ServerBytesAlone

\* A bucket that has been answered is forgotten.
LEMMA AnsweredBytes ==
  ASSUME TransferInv, BytesInv, NEW r \in Replicas, Answered(r)
  PROVE  BytesInv'
<1> DEFINE s == server[r]
           d == worker[r][Driver]
           u == CASE s.pc = "shaking" -> Started(s)
                  [] s.pc = "flush" -> [s EXCEPT !.pc = "pull", !.bucket = NoBucket]
                  [] s.pc = "last" -> [s EXCEPT !.pc = "done", !.bucket = NoBucket]
<1>1. /\ UNCHANGED <<plan, version, trainer, send_bufs, joined, recv_bufs, shared, worker>>
      /\ socket[r].st = "answer"
      /\ server' = [server EXCEPT ![r] = u] /\ socket' = [socket EXCEPT ![r] = Idle]
  BY DEF Answered
<1>2. /\ s \in Servers /\ Viewed(s, recv_bufs[r]) /\ Shared(s, shared[r]) /\ plan \in Plans
      /\ DriverBytes(s, socket[r], d) /\ Talk(Count, s, socket[r], d)
      /\ shared[r] \in Buffers(IpcCap) /\ shared = [shared EXCEPT ![r] = shared[r]]
  BY ServerBytesBefore
<1>3. s.pc \in {"shaking", "flush", "last"} /\ d.pc # "copy"
  BY <1>1, <1>2 DEF Talk
<1>4. s.queue = <<>>
  BY <1>2, <1>3 DEF Shared
<1>5. /\ u.cur = s.cur /\ u.queue = <<>> /\ (u.bucket = s.bucket \/ u.bucket = NoBucket)
      /\ plan.colocated \/ u.views = s.views
      /\ u.op = s.op \/ u.op = Receive
  <2>1. CASE s.pc = "shaking"
    BY <1>2, <1>4, <2>1 DEF Started, Servers
  <2>2. CASE s.pc = "flush"
    BY <1>2, <1>4, <2>2 DEF Servers
  <2>3. CASE s.pc = "last"
    BY <1>2, <1>4, <2>3 DEF Servers
  <2>4. QED
    BY <1>3, <2>1, <2>2, <2>3
<1> HIDE DEF u
<1>6. Viewed(u, recv_bufs[r])
  <2>1. Receive.st = "run" /\ DOMAIN <<>> = {}
    BY DEF Receive, NoReceive
  <2>2. QED
    BY <1>2, <1>5, <2>1 DEF Viewed
<1>7. Shared(u, shared[r])
  <2>1. CASE u.bucket = s.bucket
    BY <1>2, <1>4, <1>5, <2>1 DEF Shared
  <2>2. CASE u.bucket = NoBucket
    <3>1. u.bucket.meta = <<>> /\ u.bucket.offset = 0 /\ 0 <= IpcCap
      BY <1>2, <2>2, Deployment DEF NoBucket
    <3>2. QED
      BY <1>5, <3>1, NothingCopied DEF Shared
  <2>3. QED
    BY <1>5, <2>1, <2>2
<1>8. DriverBytes(u, Idle, d)
  BY <1>2, <1>3 DEF DriverBytes, Idle
<1>9. QED
  BY <1>1, <1>2, <1>6, <1>7, <1>8, ServerBytesAlone

\* A weight that is drawn is copied from the bucket it is drawn from.
LEMMA ProcessBytes ==
  ASSUME TransferInv, BytesInv, NEW r \in Replicas, Process(r)
  PROVE  BytesInv'
<1> DEFINE s == server[r]
           w == Drawn(s).w
           c == [w |-> w, offset |-> s.bucket.offset, from |-> s.cur, start |-> Drawn(s).offset]
           e == [w |-> w, offset |-> s.bucket.offset]
           u == [s EXCEPT !.pos = @ + 1, !.bucket = Packed(@, w), !.queue = Append(@, c)]
<1>1. /\ UNCHANGED <<plan, version, trainer, send_bufs, joined, recv_bufs, shared, socket, worker>>
      /\ HasView(r) /\ s.bucket.offset + Size(w) <= IpcCap
      /\ server' = [server EXCEPT ![r].pos = @ + 1, ![r].bucket = Packed(@, w), ![r].queue = Append(@, c)]
  BY DEF Process
<1>2. /\ s \in Servers /\ Viewed(s, recv_bufs[r]) /\ Shared(s, shared[r]) /\ plan \in Plans
      /\ DriverBytes(s, socket[r], worker[r][Driver]) /\ shared[r] \in Buffers(IpcCap)
      /\ s.bucket.meta \in Seq(Entry) /\ s.bucket.offset \in Nat
      /\ s.queue \in Seq([w : Nat, offset : Nat, from : 0..1, start : Nat])
      /\ shared = [shared EXCEPT ![r] = shared[r]] /\ socket = [socket EXCEPT ![r] = socket[r]]
  BY ServerBytesBefore
<1>3. server' = [server EXCEPT ![r] = u]
  BY <1>1, <1>2 DEF TransferInv, Shapes
<1>4. /\ s.pc = "pull" /\ socket[r].st = "idle" /\ w \in Weights /\ Drawn(s) \in Entry
      /\ s.pos >= 1 /\ s.pos <= Len(s.views) /\ worker[r][Driver].pc # "copy"
  BY <1>1, DrawnNext
<1>5. s.pos \in DOMAIN s.views
  <2>1. s.views \in Seq(Entry) /\ s.pos \in Nat
    BY <1>2 DEF Servers
  <2>2. DOMAIN s.views = 1..Len(s.views) /\ Len(s.views) \in Nat
    BY <2>1
  <2>3. QED
    BY <1>4, <2>1, <2>2
<1>6. ViewOf(c) = Drawn(s)
  BY <1>4 DEF ViewOf, Entry
<1>7. plan.colocated \/ (c.from = s.cur /\ Has(recv_bufs[r][s.cur], ViewOf(c)))
  BY <1>2, <1>5, <1>6 DEF Viewed, Holds, Drawn
<1>8. Same(c, e)
  BY DEF Same
<1> HIDE DEF w, c
<1>9. /\ u.pc = "pull" /\ u.cur = s.cur /\ u.op = s.op /\ u.views = s.views
      /\ u.bucket = [meta |-> Append(s.bucket.meta, e), offset |-> s.bucket.offset + Size(w)]
      /\ u.queue = Append(s.queue, c)
  BY <1>2, <1>4 DEF Servers, Packed
<1> HIDE DEF u
<1>10. Viewed(u, recv_bufs[r])
  <2>1. ASSUME NEW j \in DOMAIN u.queue
        PROVE  plan.colocated \/ (u.queue[j].from = u.cur /\ Has(recv_bufs[r][u.cur], ViewOf(u.queue[j])))
    <3>1. (j \in DOMAIN s.queue /\ u.queue[j] = s.queue[j]) \/ u.queue[j] = c
      <4> DEFINE q == s.queue
                 C == [w : Nat, offset : Nat, from : 0..1, start : Nat]
      <4>1. q \in Seq(C) /\ u.queue = Append(q, c)
        BY <1>2, <1>9
      <4>2. c \in C
        <5>1. s.cur \in 0..1
          BY <1>2 DEF Servers
        <5>2. w \in Nat /\ Drawn(s).offset \in Nat
          BY <1>4 DEF Entry, w
        <5>3. QED
          BY <1>2, <5>1, <5>2 DEF c
      <4> HIDE DEF q, C
      <4>3. QED
        BY <4>1, <4>2, AppendAt DEF q
    <3>2. QED
      BY <1>2, <1>7, <1>9, <3>1 DEF Viewed
  <2>2. QED
    BY <1>2, <1>9, <2>1 DEF Viewed
<1>11. Shared(u, shared[r])
  <2>1. Laid(s.bucket.meta, s.bucket.offset) /\ Copying(s.bucket.meta, s.queue, shared[r])
    BY <1>2 DEF Shared
  <2>2. /\ Laid(u.bucket.meta, u.bucket.offset) /\ Copying(u.bucket.meta, u.queue, shared[r])
    BY <1>2, <1>4, <1>8, <1>9, <2>1, CopyQueued
  <2>3. QED
    BY <1>1, <1>9, <2>2 DEF Shared
<1>12. DriverBytes(u, socket[r], worker[r][Driver])
  BY <1>2, <1>4 DEF DriverBytes
<1>13. QED
  BY <1>1, <1>2, <1>3, <1>10, <1>11, <1>12, ServerBytesAlone

LEMMA TooLargeBytes ==
  ASSUME TransferInv, BytesInv, NEW r \in Replicas, TooLarge(r)
  PROVE  BytesInv'
<1> DEFINE s == server[r]
           u == [s EXCEPT !.pc = "failed"]
<1>1. /\ UNCHANGED <<plan, version, trainer, send_bufs, joined, recv_bufs, shared, socket, worker>>
      /\ server' = [server EXCEPT ![r].pc = "failed"]
  BY DEF TooLarge
<1>2. /\ s \in Servers /\ Viewed(s, recv_bufs[r]) /\ Shared(s, shared[r])
      /\ DriverBytes(s, socket[r], worker[r][Driver]) /\ shared[r] \in Buffers(IpcCap)
      /\ shared = [shared EXCEPT ![r] = shared[r]] /\ socket = [socket EXCEPT ![r] = socket[r]]
  BY ServerBytesBefore
<1>3. server' = [server EXCEPT ![r] = u]
  BY <1>1 DEF TransferInv, Shapes
<1>4. /\ u.pc = "failed" /\ u.cur = s.cur /\ u.op = s.op /\ u.views = s.views
      /\ u.bucket = s.bucket /\ u.queue = s.queue
  BY <1>2 DEF Servers
<1> HIDE DEF u
<1>5. Viewed(u, recv_bufs[r]) /\ Shared(u, shared[r]) /\ DriverBytes(u, socket[r], worker[r][Driver])
  BY <1>2, <1>4 DEF Viewed, Shared, DriverBytes
<1>6. QED
  BY <1>1, <1>2, <1>3, <1>5, ServerBytesAlone

\* The shared buffer is whole before the driver worker is told.
LEMMA FlushBytes ==
  ASSUME TransferInv, BytesInv, NEW r \in Replicas, NEW last \in BOOLEAN, Flush(r, last)
  PROVE  BytesInv'
<1> DEFINE s == server[r]
           p == IF last THEN "last" ELSE "flush"
           x == Request("bucket", s.bucket.meta, last)
           u == [s EXCEPT !.pc = p, !.queue = <<>>]
           buf == OnServer(r, s.queue)
<1>1. /\ UNCHANGED <<plan, version, trainer, send_bufs, joined, recv_bufs, worker>>
      /\ s.pc = "pull" /\ shared' = [shared EXCEPT ![r] = buf]
      /\ server' = [server EXCEPT ![r].pc = p, ![r].queue = <<>>] /\ socket' = [socket EXCEPT ![r] = x]
  BY DEF Flush, Synchronize, HasView
<1>2. /\ s \in Servers /\ Viewed(s, recv_bufs[r]) /\ Shared(s, shared[r]) /\ plan \in Plans /\ version \in Nat
      /\ DriverBytes(s, socket[r], worker[r][Driver]) /\ shared[r] \in Buffers(IpcCap)
      /\ s.bucket.meta \in Seq(Entry) /\ s.bucket.offset \in Nat
      /\ s.queue \in Seq([w : Nat, offset : Nat, from : 0..1, start : Nat])
      /\ Talk(Count, s, socket[r], worker[r][Driver])
  BY ServerBytesBefore
<1>3. server' = [server EXCEPT ![r] = u]
  BY <1>1 DEF TransferInv, Shapes
<1>4. /\ u.pc = p /\ u.cur = s.cur /\ u.op = s.op /\ u.views = s.views
      /\ u.bucket = s.bucket /\ u.queue = <<>> /\ x.msg.meta = s.bucket.meta
  BY <1>2 DEF Servers, Request
<1>5. worker[r][Driver].pc # "copy"
  BY <1>1, <1>2 DEF Talk
<1>6. buf \in Buffers(IpcCap) /\ Copying(s.bucket.meta, <<>>, buf)
  <2>1. /\ Laid(s.bucket.meta, s.bucket.offset) /\ s.bucket.offset <= IpcCap
        /\ Copying(s.bucket.meta, s.queue, shared[r]) /\ IpcCap \in Nat
    BY <1>2, Deployment DEF Shared
  <2>2. Speaks(s.queue, [i \in DOMAIN s.queue |-> Source(r, s.queue[i])])
    BY <1>2, SourceSpeaks
  <2>3. QED
    BY <1>2, <2>1, <2>2, CopiesLand DEF OnServer
<1> HIDE DEF u, x, buf
<1>7. Viewed(u, recv_bufs[r])
  <2>1. DOMAIN u.queue = {}
    BY <1>4
  <2>2. QED
    BY <1>2, <1>4, <2>1 DEF Viewed
<1>8. Shared(u, buf)
  BY <1>2, <1>4, <1>6 DEF Shared
<1>9. DriverBytes(u, x, worker[r][Driver])
  BY <1>2, <1>4, <1>5 DEF DriverBytes
<1>10. QED
  BY <1>1, <1>3, <1>6, <1>7, <1>8, <1>9, ServerBytesAlone

\* Before the buckets are swapped everything has been copied from the old one.
LEMMA NextBucketBytes ==
  ASSUME TransferInv, BytesInv, NEW r \in Replicas, NextBucket(r)
  PROVE  BytesInv'
<1> DEFINE s == server[r]
           o == IF s.op.got.last THEN NoReceive ELSE Receive
           u == [s EXCEPT !.cur = 1 - s.cur, !.views = s.op.got.meta, !.last = s.op.got.last,
                          !.pos = 1, !.queue = <<>>, !.op = o]
           buf == OnServer(r, s.queue)
<1>1. /\ UNCHANGED <<plan, version, trainer, send_bufs, joined, recv_bufs, socket, worker>>
      /\ s.pc = "pull" /\ s.op.st = "done" /\ shared' = [shared EXCEPT ![r] = buf]
      /\ server' = [server EXCEPT ![r] = u]
  BY DEF NextBucket, Synchronize
<1>2. /\ s \in Servers /\ Viewed(s, recv_bufs[r]) /\ Shared(s, shared[r]) /\ plan \in Plans /\ version \in Nat
      /\ DriverBytes(s, socket[r], worker[r][Driver]) /\ shared[r] \in Buffers(IpcCap)
      /\ s.bucket.meta \in Seq(Entry) /\ s.bucket.offset \in Nat /\ s.cur \in 0..1
      /\ s.queue \in Seq([w : Nat, offset : Nat, from : 0..1, start : Nat])
      /\ socket = [socket EXCEPT ![r] = socket[r]]
  BY ServerBytesBefore
<1>3. /\ u.pc = s.pc /\ u.cur = 1 - s.cur /\ u.op = o /\ u.views = s.op.got.meta
      /\ u.bucket = s.bucket /\ u.queue = <<>>
  BY <1>2 DEF Servers
<1>4. o.st # "done"
  BY DEF NoReceive, Receive
<1>5. buf \in Buffers(IpcCap) /\ Copying(s.bucket.meta, <<>>, buf)
  <2>1. /\ Laid(s.bucket.meta, s.bucket.offset) /\ s.bucket.offset <= IpcCap
        /\ Copying(s.bucket.meta, s.queue, shared[r]) /\ IpcCap \in Nat
    BY <1>2, Deployment DEF Shared
  <2>2. Speaks(s.queue, [i \in DOMAIN s.queue |-> Source(r, s.queue[i])])
    BY <1>2, SourceSpeaks
  <2>3. QED
    BY <1>2, <2>1, <2>2, CopiesLand DEF OnServer
<1> HIDE DEF u, o, buf
<1>6. Viewed(u, recv_bufs[r])
  <2>1. DOMAIN u.queue = {}
    BY <1>3
  <2>2. Holds(recv_bufs[r][u.cur], u.views)
    BY <1>1, <1>2, <1>3 DEF Viewed
  <2>3. QED
    BY <1>3, <1>4, <2>1, <2>2 DEF Viewed
<1>7. Shared(u, buf)
  BY <1>2, <1>3, <1>5 DEF Shared
<1>8. DriverBytes(u, socket[r], worker[r][Driver])
  BY <1>2, <1>3 DEF DriverBytes
<1>9. QED
  BY <1>1, <1>2, <1>5, <1>6, <1>7, <1>8, ServerBytesAlone

LEMMA LandBytes ==
  ASSUME TransferInv, BytesInv, NEW r \in Replicas, Land(r)
  PROVE  BytesInv'
<1> DEFINE s == server[r]
           one == <<Head(s.queue)>>
           u == [s EXCEPT !.queue = Tail(@)]
           buf == OnServer(r, one)
<1>1. /\ UNCHANGED <<plan, version, trainer, send_bufs, joined, recv_bufs, socket, worker>>
      /\ s.queue # <<>> /\ shared' = [shared EXCEPT ![r] = buf]
      /\ server' = [server EXCEPT ![r].queue = Tail(@)]
  BY DEF Land
<1>2. /\ s \in Servers /\ Viewed(s, recv_bufs[r]) /\ Shared(s, shared[r]) /\ plan \in Plans /\ version \in Nat
      /\ DriverBytes(s, socket[r], worker[r][Driver]) /\ shared[r] \in Buffers(IpcCap)
      /\ s.bucket.meta \in Seq(Entry) /\ s.bucket.offset \in Nat
      /\ s.queue \in Seq([w : Nat, offset : Nat, from : 0..1, start : Nat])
      /\ socket = [socket EXCEPT ![r] = socket[r]]
  BY ServerBytesBefore
<1>3. server' = [server EXCEPT ![r] = u]
  BY <1>1 DEF TransferInv, Shapes
<1>4. /\ u.pc = s.pc /\ u.cur = s.cur /\ u.op = s.op /\ u.views = s.views
      /\ u.bucket = s.bucket /\ u.queue = Tail(s.queue)
  BY <1>2 DEF Servers
<1>5. /\ 1 \in DOMAIN s.queue /\ Head(s.queue) = s.queue[1]
      /\ \A j \in DOMAIN Tail(s.queue) : j + 1 \in DOMAIN s.queue /\ Tail(s.queue)[j] = s.queue[j + 1]
  <2>1. PICK S : s.queue \in Seq(S)
    BY <1>2
  <2>2. QED
    BY <1>1, <2>1
<1>6. buf \in Buffers(IpcCap) /\ Copying(s.bucket.meta, Tail(s.queue), buf)
  <2>1. /\ Laid(s.bucket.meta, s.bucket.offset) /\ s.bucket.offset <= IpcCap
        /\ Copying(s.bucket.meta, s.queue, shared[r]) /\ IpcCap \in Nat
    BY <1>2, Deployment DEF Shared
  <2>2. Speaks(s.queue, [i \in DOMAIN s.queue |-> Source(r, s.queue[i])])
    BY <1>2, SourceSpeaks
  <2>3. Speaks(one, [i \in DOMAIN one |-> Source(r, one[i])])
    <3>1. \A x \in 0..(Size(s.queue[1].w) - 1) : Source(r, s.queue[1])[x] = <<s.queue[1].w, version>>
      BY <1>5, <2>2 DEF Speaks
    <3>2. DOMAIN one = {1} /\ one[1] = s.queue[1]
      BY <1>5
    <3>3. QED
      BY <3>1, <3>2 DEF Speaks
  <2>4. QED
    BY <1>1, <1>2, <2>1, <2>3, HeadLands DEF OnServer
<1> HIDE DEF u, buf, one
<1>7. Viewed(u, recv_bufs[r])
  <2>1. \A j \in DOMAIN u.queue : \E i \in DOMAIN s.queue : u.queue[j] = s.queue[i]
    BY <1>4, <1>5
  <2>2. \A j \in DOMAIN u.queue :
          plan.colocated \/ (u.queue[j].from = s.cur /\ Has(recv_bufs[r][s.cur], ViewOf(u.queue[j])))
    BY <1>2, <2>1 DEF Viewed
  <2>3. QED
    BY <1>2, <1>4, <2>2 DEF Viewed
<1>8. Shared(u, buf)
  <2>1. s.pc \in {"pull", "failed"}
    BY <1>1, <1>2 DEF Shared
  <2>2. QED
    BY <1>2, <1>4, <1>6, <2>1 DEF Shared
<1>9. DriverBytes(u, socket[r], worker[r][Driver])
  BY <1>2, <1>4 DEF DriverBytes
<1>10. QED
  BY <1>1, <1>2, <1>3, <1>6, <1>7, <1>8, <1>9, ServerBytesAlone

LEMMA ServerBytes ==
  ASSUME TransferInv, BytesInv, NEW r \in Replicas, ServerNext(r)
  PROVE  BytesInv'
<1>1. CASE Join(r)
  <2>1. /\ UNCHANGED <<plan, version, trainer, send_bufs, server, recv_bufs, shared, socket, worker>>
        /\ joined' \subseteq Replicas
    BY <1>1 DEF Join, BytesInv, BufferTypes
  <2>2. BufferTypes'
    BY <2>1, BufferTypesStay DEF BytesInv, BufferTypes
  <2>3. SendBytes(trainer, send_bufs)' /\ \A q \in Replicas : ReplicaBytes(q)'
    BY <2>1, BytesAlone, Meaning DEF BytesInv
  <2>4. QED
    BY <2>2, <2>3 DEF BytesInv
<1>2. QED
  BY <1>1, HandshakeBytes, AnsweredBytes, ProcessBytes, TooLargeBytes, FlushBytes, NextBucketBytes, LandBytes
     DEF ServerNext

-----------------------------------------------------------------------------
(* The workers' bytes.                                                     *)

\* A step of the workers of one replica.
LEMMA WorkerBytesAlone ==
  ASSUME TransferInv, BytesInv, NEW r \in Replicas,
         UNCHANGED <<plan, version, trainer, send_bufs, recv_bufs, joined, server, shared>>,
         NEW ws, NEW x, worker' = [worker EXCEPT ![r] = ws], socket' = [socket EXCEPT ![r] = x],
         DriverBytes(server[r], x, ws[Driver]), \A k \in Ranks : Copies(ws[k])
  PROVE  BytesInv'
<1>1. /\ DOMAIN worker = Replicas /\ DOMAIN socket = Replicas /\ shared \in [Replicas -> Buffers(IpcCap)]
      /\ joined \subseteq Replicas /\ ReplicaBytes(r)
  BY DEF TransferInv, Shapes, BytesInv, BufferTypes
<1>2. /\ worker'[r] = ws /\ socket'[r] = x
      /\ \A q \in Replicas : q # r => worker'[q] = worker[q] /\ socket'[q] = socket[q]
  BY <1>1
<1>3. Viewed(server[r], recv_bufs[r]) /\ Shared(server[r], shared[r])
  BY <1>1 DEF ReplicaBytes
<1>4. QED
  BY <1>1, <1>2, <1>3, BytesOfOne

\* A step of one worker.
LEMMA RankBytesAlone ==
  ASSUME TransferInv, BytesInv, NEW r \in Replicas, NEW k \in Ranks,
         UNCHANGED <<plan, version, trainer, send_bufs, recv_bufs, joined, server, shared>>,
         NEW u, worker' = [worker EXCEPT ![r] = [worker[r] EXCEPT ![k] = u]],
         NEW x, socket' = [socket EXCEPT ![r] = x], k # Driver => x = socket[r],
         k = Driver => DriverBytes(server[r], x, u), Copies(u)
  PROVE  BytesInv'
<1> DEFINE ws == [worker[r] EXCEPT ![k] = u]
<1>1. DOMAIN worker[r] = Ranks /\ Driver \in Ranks /\ ReplicaBytes(r)
  BY WorkerBefore DEF BytesInv
<1>2. ws[k] = u /\ \A j \in Ranks : j # k => ws[j] = worker[r][j]
  BY <1>1
<1>3. worker' = [worker EXCEPT ![r] = ws]
  OBVIOUS
<1> HIDE DEF ws
<1>4. DriverBytes(server[r], x, ws[Driver])
  BY <1>1, <1>2 DEF ReplicaBytes
<1>5. \A j \in Ranks : Copies(ws[j])
  BY <1>1, <1>2 DEF ReplicaBytes
<1>6. QED
  BY <1>3, <1>4, <1>5, WorkerBytesAlone

\* What holds of the bytes of a worker before its step.
LEMMA WorkerBytesBefore ==
  ASSUME TransferInv, BytesInv, NEW r \in Replicas, NEW k \in Ranks
  PROVE  LET s == worker[r][k] IN
         /\ Ranked(s) /\ Copies(s) /\ s.meta \in Seq(Entry)
         /\ s = [pc |-> s.pc, inbox |-> s.inbox, meta |-> s.meta, last |-> s.last,
                 taken |-> s.taken, loaded |-> s.loaded]
         /\ plan \in Plans /\ version \in Nat /\ Driver \in Ranks
         /\ DOMAIN worker = Replicas /\ DOMAIN worker[r] = Ranks
         /\ socket = [socket EXCEPT ![r] = socket[r]]
         /\ DriverBytes(server[r], socket[r], worker[r][Driver])
<1>1. Ranked(worker[r][k]) /\ Driver \in Ranks /\ DOMAIN worker = Replicas /\ DOMAIN worker[r] = Ranks
      /\ socket = [socket EXCEPT ![r] = socket[r]] /\ plan \in Plans /\ version \in Nat
  BY WorkerBefore DEF Member, TransferInv, Shapes
<1>2. ReplicaBytes(r)
  BY DEF BytesInv
<1>3. QED
  BY <1>1, <1>2 DEF Ranked, ReplicaBytes

\* The fields of a worker that goes on.
LEMMA RankFields ==
  ASSUME NEW s, s = [pc |-> s.pc, inbox |-> s.inbox, meta |-> s.meta, last |-> s.last,
                     taken |-> s.taken, loaded |-> s.loaded],
         NEW p, NEW q, NEW v
  PROVE  /\ LET u == [s EXCEPT !.pc = p] IN
              /\ u.pc = p /\ u.inbox = s.inbox /\ u.meta = s.meta /\ u.taken = s.taken /\ u.loaded = s.loaded
         /\ LET u == [s EXCEPT !.inbox = q] IN
              /\ u.pc = s.pc /\ u.inbox = q /\ u.meta = s.meta /\ u.taken = s.taken /\ u.loaded = s.loaded
         /\ LET u == [s EXCEPT !.taken = v] IN
              /\ u.pc = s.pc /\ u.inbox = s.inbox /\ u.meta = s.meta /\ u.taken = v /\ u.loaded = s.loaded
<1>1. {"pc", "inbox", "meta", "taken", "loaded"} \subseteq DOMAIN s
  OBVIOUS
<1>2. QED
  BY <1>1

\* Metadata of a bucket of the shared buffer points into it.
LEMMA LaidInside ==
  ASSUME plan \in Plans, NEW meta \in Seq(Entry), NEW end \in Nat, Laid(meta, end), end <= IpcCap
  PROVE  Inside(meta)
<1>1. ASSUME NEW i \in DOMAIN meta
      PROVE  meta[i].w \in Weights /\ meta[i].offset + Size(meta[i].w) <= IpcCap
  <2>1. meta[i].w \in Weights /\ meta[i].offset + Size(meta[i].w) <= end
    BY DEF Laid
  <2>2. meta[i] \in Entry
    OBVIOUS
  <2>3. meta[i].offset \in Nat /\ Size(meta[i].w) \in Nat /\ IpcCap \in Nat
    BY <2>1, <2>2, Deployment DEF Entry
  <2>4. QED
    BY <2>1, <2>3
<1>2. QED
  BY <1>1 DEF Inside

LEMMA NothingInside == Inside(<<>>) /\ Clean(<<>>) /\ <<>> \in Seq(Tensors)
BY DEF Inside, Clean

\* What has been taken stays clean with one more tensor, and is loaded clean.
LEMMA CleanAppended ==
  ASSUME NEW S, NEW ts \in Seq(S), Clean(ts), NEW a, a.words = {<<a.w, version>>}
  PROVE  Clean(Append(ts, a))
<1>1. ASSUME NEW i \in DOMAIN Append(ts, a)
      PROVE  Append(ts, a)[i] = a \/ \E j \in DOMAIN ts : Append(ts, a)[i] = ts[j]
  OBVIOUS
<1>2. QED
  BY <1>1 DEF Clean

LEMMA CleanTogether ==
  ASSUME NEW S, NEW ts \in Seq(S), NEW us \in Seq(S), Clean(ts), Clean(us)
  PROVE  Clean(ts \o us)
<1>1. ASSUME NEW i \in DOMAIN (ts \o us)
      PROVE  \/ \E j \in DOMAIN ts : (ts \o us)[i] = ts[j]
             \/ \E j \in DOMAIN us : (ts \o us)[i] = us[j]
  <2>1. ts \o us \in Seq(S) /\ Len(ts \o us) = Len(ts) + Len(us)
        /\ Len(ts) \in Nat /\ Len(us) \in Nat
    OBVIOUS
  <2>2. i \in 1..(Len(ts) + Len(us))
    BY <2>1
  <2>3. (ts \o us)[i] = IF i <= Len(ts) THEN ts[i] ELSE us[i - Len(ts)]
    BY <2>2
  <2>4. CASE i <= Len(ts)
    <3>1. i \in DOMAIN ts
      BY <2>1, <2>2, <2>4
    <3>2. QED
      BY <2>3, <2>4, <3>1
  <2>5. CASE ~(i <= Len(ts))
    <3>1. i - Len(ts) \in DOMAIN us
      BY <2>1, <2>2, <2>5
    <3>2. QED
      BY <2>3, <2>5, <3>1
  <2>6. QED
    BY <2>4, <2>5
<1>2. QED
  BY <1>1 DEF Clean

\* A worker that is told of a message.
LEMMA ToldCopies ==
  ASSUME NEW s, Ranked(s), Copies(s), NEW msg, Inside(msg.meta)
  PROVE  LET u == Told(s, msg) IN
         /\ Copies(u) /\ u.inbox = s.inbox /\ u.loaded = s.loaded
         /\ u = [pc |-> u.pc, inbox |-> u.inbox, meta |-> u.meta, last |-> u.last,
                 taken |-> u.taken, loaded |-> u.loaded]
         /\ msg.kind = "handle" => u.pc = "receive" /\ u.taken = s.taken
         /\ msg.kind # "handle" => u.pc = "copy" /\ u.meta = msg.meta /\ u.taken = <<>>
<1> DEFINE u == Told(s, msg)
<1>1. s = [pc |-> s.pc, inbox |-> s.inbox, meta |-> s.meta, last |-> s.last,
           taken |-> s.taken, loaded |-> s.loaded]
  BY DEF Ranked
<1>2. CASE msg.kind = "handle"
  <2>1. u = [s EXCEPT !.pc = "receive"]
    BY <1>2 DEF Told
  <2> HIDE DEF u
  <2>2. u = [pc |-> "receive", inbox |-> s.inbox, meta |-> s.meta, last |-> s.last,
             taken |-> s.taken, loaded |-> s.loaded]
    BY <1>1, <2>1
  <2>3. /\ u.pc = "receive" /\ u.inbox = s.inbox /\ u.meta = s.meta /\ u.last = s.last
        /\ u.taken = s.taken /\ u.loaded = s.loaded
    BY <2>2
  <2>4. Copies(u)
    BY <2>3 DEF Copies
  <2>5. QED
    BY <1>2, <2>2, <2>3, <2>4 DEF u
<1>3. CASE msg.kind # "handle"
  <2>1. u = [s EXCEPT !.pc = "copy", !.meta = msg.meta, !.last = msg.last, !.taken = <<>>]
    BY <1>3 DEF Told
  <2> HIDE DEF u
  <2>2. u = [pc |-> "copy", inbox |-> s.inbox, meta |-> msg.meta, last |-> msg.last,
             taken |-> <<>>, loaded |-> s.loaded]
    BY <1>1, <2>1, ToldFields
  <2>3. /\ u.pc = "copy" /\ u.inbox = s.inbox /\ u.meta = msg.meta /\ u.last = msg.last
        /\ u.taken = <<>> /\ u.loaded = s.loaded
    BY <2>2
  <2>4. Copies(u)
    BY <2>3, NothingInside DEF Copies
  <2>5. QED
    BY <1>3, <2>2, <2>3, <2>4 DEF u
<1>4. QED
  BY <1>2, <1>3

LEMMA DriverReceivesBytes ==
  ASSUME TransferInv, BytesInv, NEW r \in Replicas, DriverReceives(r)
  PROVE  BytesInv'
<1> DEFINE s == server[r]
           x == socket[r]
           msg == x.msg
           d == worker[r][Driver]
           t == Told(d, msg)
           y == [x EXCEPT !.st = IF msg.kind = "handle" THEN "answer" ELSE "held"]
           ws == [k \in Ranks |-> IF k = Driver THEN Told(worker[r][k], msg)
                                  ELSE [worker[r][k] EXCEPT !.inbox = Append(@, msg)]]
<1>1. /\ UNCHANGED <<plan, version, trainer, send_bufs, recv_bufs, joined, server, shared>>
      /\ x.st = "request" /\ worker' = [worker EXCEPT ![r] = ws]
      /\ socket' = [socket EXCEPT ![r].st = IF msg.kind = "handle" THEN "answer" ELSE "held"]
  BY DEF DriverReceives
<1>2. Driver \in Ranks /\ plan \in Plans
  BY Deployment DEF TransferInv, Shapes
<1>3. /\ Ranked(d) /\ Copies(d) /\ DriverBytes(s, x, d) /\ Talk(Count, s, x, d)
      /\ socket \in [Replicas -> Sockets] /\ x \in Sockets
      /\ \A k \in Ranks : Ranked(worker[r][k]) /\ Copies(worker[r][k])
  BY <1>2, WorkerBefore, WorkerBytesBefore DEF TransferInv, Shapes
<1>4. socket' = [socket EXCEPT ![r] = y]
  BY <1>1, <1>3
<1>5. /\ ws[Driver] = t
      /\ \A k \in Ranks \ {Driver} : ws[k] = [worker[r][k] EXCEPT !.inbox = Append(worker[r][k].inbox, msg)]
  BY <1>2
<1>6. y.st # "request"
  BY <1>3 DEF Sockets
<1>7. /\ msg.kind = "handle" => msg.meta = <<>>
      /\ msg.kind # "handle" => msg.meta = s.bucket.meta
  BY <1>1, <1>3 DEF Talk, Handle, DriverBytes
<1>8. Inside(msg.meta)
  <2>1. /\ Laid(s.bucket.meta, s.bucket.offset) /\ s.bucket.offset <= IpcCap
        /\ s.bucket.meta \in Seq(Entry) /\ s.bucket.offset \in Nat
    BY ServerBytesBefore DEF Shared
  <2>2. QED
    BY <1>2, <1>7, <2>1, LaidInside, NothingInside
<1>9. /\ Copies(t) /\ t.loaded = d.loaded
      /\ msg.kind = "handle" => t.pc = "receive" /\ t.taken = d.taken
      /\ msg.kind # "handle" => t.meta = msg.meta /\ t.taken = <<>>
  BY <1>3, <1>8, ToldCopies
<1>10. ASSUME NEW k \in Ranks \ {Driver}
       PROVE  Copies(ws[k])
  <2> DEFINE w == worker[r][k]
             q == Append(w.inbox, msg)
  <2>1. Ranked(w) /\ Copies(w) /\ ws[k] = [w EXCEPT !.inbox = q]
    BY <1>3, <1>5
  <2>2. w.inbox \in Seq(Message) /\ msg \in Message
    BY <1>3, <2>1 DEF Ranked, Sockets
  <2> HIDE DEF w, ws, msg
  <2>3. \A i \in DOMAIN q : q[i] = msg \/ \E j \in DOMAIN w.inbox : q[i] = w.inbox[j]
    BY <2>2
  <2>4. \A i \in DOMAIN q : Inside(q[i].meta)
    BY <1>8, <2>1, <2>3 DEF Copies
  <2> HIDE DEF q
  <2>5. ws[k].inbox = q /\ ws[k].meta = w.meta /\ ws[k].taken = w.taken /\ ws[k].loaded = w.loaded
    BY <2>1, RankFields DEF Ranked
  <2>6. QED
    BY <2>1, <2>4, <2>5 DEF Copies
<1> HIDE DEF ws, y, t
<1>11. DriverBytes(s, y, t)
  BY <1>3, <1>6, <1>7, <1>9, NothingInside DEF DriverBytes
<1>12. \A k \in Ranks : Copies(ws[k])
  BY <1>5, <1>9, <1>10
<1>13. QED
  BY <1>1, <1>4, <1>5, <1>11, <1>12, WorkerBytesAlone

LEMMA RankReceivesBytes ==
  ASSUME TransferInv, BytesInv, NEW r \in Replicas, NEW k \in Ranks, RankReceives(r, k)
  PROVE  BytesInv'
<1> DEFINE s == worker[r][k]
           msg == Head(s.inbox)
           rest == Tail(s.inbox)
           t == Told(s, msg)
           u == [t EXCEPT !.inbox = rest]
<1>1. /\ UNCHANGED <<plan, version, trainer, send_bufs, recv_bufs, joined, server, shared, socket>>
      /\ k # Driver /\ s.inbox # <<>> /\ worker' = [worker EXCEPT ![r][k] = u]
  BY DEF RankReceives
<1>2. /\ Ranked(s) /\ Copies(s) /\ DOMAIN worker = Replicas /\ DOMAIN worker[r] = Ranks
      /\ socket = [socket EXCEPT ![r] = socket[r]]
  BY WorkerBytesBefore
<1>3. worker' = [worker EXCEPT ![r] = [worker[r] EXCEPT ![k] = u]]
  BY <1>1, <1>2
<1>4. s.inbox \in Seq(Message)
  BY <1>2 DEF Ranked
<1>5. /\ 1 \in DOMAIN s.inbox /\ msg = s.inbox[1]
      /\ \A i \in DOMAIN rest : \E j \in DOMAIN s.inbox : rest[i] = s.inbox[j]
  BY <1>1, <1>4
<1>6. Inside(msg.meta) /\ \A i \in DOMAIN rest : Inside(rest[i].meta)
  BY <1>2, <1>5 DEF Copies
<1> HIDE DEF msg, rest
<1>7. /\ Copies(t)
      /\ t = [pc |-> t.pc, inbox |-> t.inbox, meta |-> t.meta, last |-> t.last,
              taken |-> t.taken, loaded |-> t.loaded]
  BY <1>2, <1>6, ToldCopies
<1> HIDE DEF t
<1>8. u.inbox = rest /\ u.meta = t.meta /\ u.taken = t.taken /\ u.loaded = t.loaded
  BY <1>7, RankFields
<1> HIDE DEF u
<1>9. Copies(u)
  BY <1>6, <1>7, <1>8 DEF Copies
<1>10. QED
  BY <1>1, <1>2, <1>3, <1>9, RankBytesAlone

\* The driver worker copies from a buffer that everything has been copied to.
LEMMA CloneBytes ==
  ASSUME TransferInv, BytesInv, NEW r \in Replicas, NEW k \in Ranks, Clone(r, k)
  PROVE  BytesInv'
<1> DEFINE s == worker[r][k]
           i == Len(s.taken) + 1
           e == s.meta[i]
           words == {shared[r][b] : b \in Bytes(e.offset, e.w)}
           a == [w |-> e.w, words |-> words]
           v == Append(s.taken, a)
           u == [s EXCEPT !.taken = v]
           d == worker[r][Driver]
<1>1. /\ UNCHANGED <<plan, version, trainer, send_bufs, recv_bufs, joined, server, shared, socket>>
      /\ s.pc = "copy" /\ Len(s.taken) < Len(s.meta)
      /\ worker' = [worker EXCEPT ![r][k].taken = Append(@, a)]
  BY DEF Clone
<1>2. /\ Ranked(s) /\ Copies(s) /\ DOMAIN worker = Replicas /\ DOMAIN worker[r] = Ranks
      /\ s.meta \in Seq(Entry) /\ plan \in Plans /\ version \in Nat
      /\ socket = [socket EXCEPT ![r] = socket[r]] /\ DriverBytes(server[r], socket[r], d)
      /\ s = [pc |-> s.pc, inbox |-> s.inbox, meta |-> s.meta, last |-> s.last,
              taken |-> s.taken, loaded |-> s.loaded]
  BY WorkerBytesBefore
<1>3. worker' = [worker EXCEPT ![r] = [worker[r] EXCEPT ![k] = u]]
  BY <1>1, <1>2
<1>4. shared[r] \in Buffers(IpcCap) /\ IpcCap \in Nat
  BY <1>2, ServerBytesBefore, Deployment
<1>5. i \in DOMAIN s.meta
  <2>1. s.taken \in Seq(Tensors)
    BY <1>2 DEF Copies
  <2>2. Len(s.taken) \in Nat /\ Len(s.meta) \in Nat /\ DOMAIN s.meta = 1..Len(s.meta)
    BY <1>2, <2>1
  <2> DEFINE m == Len(s.taken)
             n == Len(s.meta)
  <2>3. m \in Nat /\ n \in Nat /\ m < n
    BY <1>1, <2>2
  <2> HIDE DEF m, n
  <2>4. m + 1 \in 1..n
    BY <2>3
  <2>5. QED
    BY <2>2, <2>4 DEF m, n
<1>6. e \in Entry /\ e.w \in Weights /\ e.offset + Size(e.w) <= IpcCap
  BY <1>2, <1>5 DEF Copies, Inside
<1>7. e.offset \in Nat /\ Size(e.w) \in Nat /\ Size(e.w) > 0
  BY <1>2, <1>6, Deployment DEF Entry
<1>8. Bytes(e.offset, e.w) \subseteq 0..(IpcCap - 1) /\ e.offset \in Bytes(e.offset, e.w)
  <2> DEFINE o == e.offset
             z == Size(e.w)
  <2>1. o \in Nat /\ z \in Nat /\ z > 0 /\ o + z <= IpcCap /\ IpcCap \in Nat
    BY <1>4, <1>6, <1>7
  <2>2. Bytes(e.offset, e.w) = o..(o + z - 1)
    BY DEF Bytes
  <2> HIDE DEF o, z
  <2>3. o..(o + z - 1) \subseteq 0..(IpcCap - 1) /\ o \in o..(o + z - 1)
    BY <2>1
  <2>4. QED
    BY <2>2, <2>3 DEF o
<1>9. words \subseteq Words
  BY <1>4, <1>8 DEF Buffers
<1>10. k = Driver => words = {<<e.w, version>>}
  <2>1. SUFFICES ASSUME k = Driver PROVE words = {<<e.w, version>>}
    OBVIOUS
  <2>2. Talk(Count, server[r], socket[r], d) /\ Shared(server[r], shared[r])
    BY ServerBytesBefore
  <2>3. server[r].pc \in {"flush", "last"}
    BY <1>1, <2>1, <2>2 DEF Talk
  <2>4. server[r].queue = <<>> /\ Copying(server[r].bucket.meta, <<>>, shared[r])
    BY <2>2, <2>3 DEF Shared
  <2>5. s.meta = server[r].bucket.meta
    BY <1>1, <1>2, <2>1 DEF DriverBytes
  <2>6. Has(shared[r], e)
    BY <1>5, <2>4, <2>5 DEF Copying
  <2>7. QED
    BY <1>8, <2>6 DEF Has
<1>11. a \in Tensors /\ a.w = e.w /\ a.words = words
  BY <1>6, <1>9 DEF Tensors
<1> HIDE DEF words, a, e, i
<1>12. s.taken \in Seq(Tensors) /\ v \in Seq(Tensors)
  BY <1>2, <1>11 DEF Copies
<1> HIDE DEF v
<1>13. u.pc = s.pc /\ u.inbox = s.inbox /\ u.meta = s.meta /\ u.taken = v /\ u.loaded = s.loaded
  BY <1>2, RankFields
<1> HIDE DEF u
<1>14. Copies(u)
  BY <1>2, <1>12, <1>13 DEF Copies
<1>15. k = Driver => DriverBytes(server[r], socket[r], u)
  <2>1. SUFFICES ASSUME k = Driver PROVE DriverBytes(server[r], socket[r], u)
    OBVIOUS
  <2>2. Clean(v)
    BY <1>2, <1>10, <1>11, <1>12, <2>1, CleanAppended DEF DriverBytes, v
  <2>3. QED
    BY <1>2, <1>13, <2>1, <2>2 DEF DriverBytes
<1>16. QED
  BY <1>1, <1>2, <1>3, <1>14, <1>15, RankBytesAlone

LEMMA TakenBytes ==
  ASSUME TransferInv, BytesInv, NEW r \in Replicas, NEW k \in Ranks, Taken(r, k)
  PROVE  BytesInv'
<1> DEFINE s == worker[r][k]
           u == [s EXCEPT !.pc = "barrier"]
           x == IF k = Driver THEN [socket[r] EXCEPT !.st = "answer"] ELSE socket[r]
<1>1. /\ UNCHANGED <<plan, version, trainer, send_bufs, recv_bufs, joined, server, shared>>
      /\ worker' = [worker EXCEPT ![r][k].pc = "barrier"]
      /\ socket' = IF k = Driver THEN [socket EXCEPT ![r].st = "answer"] ELSE socket
  BY DEF Taken
<1>2. /\ Copies(s) /\ DOMAIN worker = Replicas /\ DOMAIN worker[r] = Ranks
      /\ socket = [socket EXCEPT ![r] = socket[r]]
      /\ DriverBytes(server[r], socket[r], worker[r][Driver])
      /\ s = [pc |-> s.pc, inbox |-> s.inbox, meta |-> s.meta, last |-> s.last,
              taken |-> s.taken, loaded |-> s.loaded]
  BY WorkerBytesBefore
<1>3. worker' = [worker EXCEPT ![r] = [worker[r] EXCEPT ![k] = u]] /\ socket' = [socket EXCEPT ![r] = x]
  BY <1>1, <1>2
<1>4. u.pc = "barrier" /\ u.inbox = s.inbox /\ u.meta = s.meta /\ u.taken = s.taken /\ u.loaded = s.loaded
  BY <1>2, RankFields
<1>5. k = Driver => x.st # "request"
  <2>1. socket[r] \in Sockets
    BY WorkerBefore
  <2>2. QED
    BY <2>1 DEF Sockets
<1>6. k # Driver => x = socket[r]
  OBVIOUS
<1> HIDE DEF u, x
<1>7. Copies(u)
  BY <1>2, <1>4 DEF Copies
<1>8. k = Driver => DriverBytes(server[r], x, u)
  BY <1>2, <1>4, <1>5 DEF DriverBytes
<1>9. QED
  BY <1>1, <1>3, <1>6, <1>7, <1>8, RankBytesAlone

LEMMA BarrierBytes ==
  ASSUME TransferInv, BytesInv, NEW r \in Replicas, Barrier(r)
  PROVE  BytesInv'
<1> DEFINE ws == [k \in Ranks |-> [worker[r][k] EXCEPT !.pc = "load"]]
           d == worker[r][Driver]
<1>1. /\ UNCHANGED <<plan, version, trainer, send_bufs, recv_bufs, joined, server, shared, socket>>
      /\ worker' = [worker EXCEPT ![r] = [k \in Ranks |-> [@[k] EXCEPT !.pc = "load"]]]
  BY DEF Barrier
<1>2. Driver \in Ranks
  BY Deployment DEF TransferInv, Shapes
<1>3. /\ DOMAIN worker = Replicas /\ socket = [socket EXCEPT ![r] = socket[r]]
      /\ DriverBytes(server[r], socket[r], d)
  BY <1>2, WorkerBytesBefore
<1>4. worker' = [worker EXCEPT ![r] = ws] /\ socket' = [socket EXCEPT ![r] = socket[r]]
  BY <1>1, <1>3
<1>5. ASSUME NEW k \in Ranks
      PROVE  /\ Copies(ws[k]) /\ ws[k].pc = "load"
             /\ ws[k].taken = worker[r][k].taken /\ ws[k].loaded = worker[r][k].loaded
  <2> DEFINE s == worker[r][k]
  <2>1. /\ Copies(s)
        /\ s = [pc |-> s.pc, inbox |-> s.inbox, meta |-> s.meta, last |-> s.last,
                taken |-> s.taken, loaded |-> s.loaded]
    BY WorkerBytesBefore
  <2>2. ws[k] = [s EXCEPT !.pc = "load"]
    OBVIOUS
  <2> HIDE DEF s, ws
  <2>3. /\ ws[k].pc = "load" /\ ws[k].inbox = s.inbox /\ ws[k].meta = s.meta
        /\ ws[k].taken = s.taken /\ ws[k].loaded = s.loaded
    BY <2>1, <2>2, RankFields
  <2>4. Copies(ws[k])
    BY <2>1, <2>3 DEF Copies
  <2>5. QED
    BY <2>3, <2>4 DEF s
<1> HIDE DEF ws
<1>6. DriverBytes(server[r], socket[r], ws[Driver])
  BY <1>2, <1>3, <1>5 DEF DriverBytes
<1>7. QED
  BY <1>1, <1>4, <1>5, <1>6, WorkerBytesAlone

LEMMA LoadBytes ==
  ASSUME TransferInv, BytesInv, NEW r \in Replicas, NEW k \in Ranks, Load(r, k)
  PROVE  BytesInv'
<1> DEFINE s == worker[r][k]
           v == s.loaded \o s.taken
           p == IF s.last THEN "done" ELSE "receive"
           u == [s EXCEPT !.loaded = v, !.taken = <<>>, !.meta = <<>>, !.pc = p]
<1>1. /\ UNCHANGED <<plan, version, trainer, send_bufs, recv_bufs, joined, server, shared, socket>>
      /\ worker' = [worker EXCEPT ![r][k] = u]
  BY DEF Load
<1>2. /\ Copies(s) /\ DOMAIN worker = Replicas /\ DOMAIN worker[r] = Ranks
      /\ socket = [socket EXCEPT ![r] = socket[r]]
      /\ DriverBytes(server[r], socket[r], worker[r][Driver])
      /\ s = [pc |-> s.pc, inbox |-> s.inbox, meta |-> s.meta, last |-> s.last,
              taken |-> s.taken, loaded |-> s.loaded]
  BY WorkerBytesBefore
<1>3. worker' = [worker EXCEPT ![r] = [worker[r] EXCEPT ![k] = u]]
  BY <1>1, <1>2
<1>4. s.loaded \in Seq(Tensors) /\ s.taken \in Seq(Tensors) /\ v \in Seq(Tensors)
  BY <1>2 DEF Copies
<1>5. k = Driver => Clean(v)
  BY <1>2, <1>4, CleanTogether DEF DriverBytes
<1>6. p # "copy"
  OBVIOUS
<1>7. u = [pc |-> p, inbox |-> s.inbox, meta |-> <<>>, last |-> s.last, taken |-> <<>>, loaded |-> v]
  <2>1. u = [s EXCEPT !.loaded = v, !.taken = <<>>, !.meta = <<>>, !.pc = p]
    OBVIOUS
  <2> HIDE DEF s, p, v, u
  <2>2. QED
    BY <1>2, <2>1, LoadedFields
<1> HIDE DEF u, v, p
<1>8. u.pc = p /\ u.inbox = s.inbox /\ u.meta = <<>> /\ u.taken = <<>> /\ u.loaded = v
  BY <1>7
<1>9. Copies(u)
  BY <1>2, <1>4, <1>8, NothingInside DEF Copies
<1>10. k = Driver => DriverBytes(server[r], socket[r], u)
  BY <1>2, <1>5, <1>6, <1>8, NothingInside DEF DriverBytes
<1>11. QED
  BY <1>1, <1>2, <1>3, <1>9, <1>10, RankBytesAlone

\* Every step of a transfer.
LEMMA BytesSteps ==
  ASSUME TransferInv, BytesInv, TransferNext
  PROVE  BytesInv'
<1>1. ASSUME NEW r \in Replicas, WorkerNext(r)
      PROVE  BytesInv'
  BY <1>1, DriverReceivesBytes, RankReceivesBytes, CloneBytes, TakenBytes, BarrierBytes, LoadBytes
     DEF WorkerNext
<1>2. CASE TrainerNext
  BY <1>2, TrainerBytes DEF TrainerNext
<1>3. QED
  BY <1>1, <1>2, BroadcastBytes, ServerBytes DEF TransferNext

-----------------------------------------------------------------------------
(* The two ends of a synchronisation.                                      *)

LEMMA EmptyBuffer ==
  ASSUME NEW cap
  PROVE  Empty(cap) \in Buffers(cap)
BY DEF Empty, Buffers, Words

\* Nothing has been copied when nothing has begun.
LEMMA OffBytes ==
  /\ \A t : t = TrainerOff \/ t = [TrainerOff EXCEPT !.pc = "send"] =>
       t.bucket.meta = <<>> /\ t.bucket.offset = 0 /\ t.queue = <<>> /\ t.op.st = "idle"
  /\ \A s : s = ServerOff \/ s = [ServerOff EXCEPT !.pc = "shake"] =>
       /\ s.views = <<>> /\ s.op.st = "idle" /\ s.queue = <<>>
       /\ s.bucket.meta = <<>> /\ s.bucket.offset = 0
  /\ \A d : d = WorkerOff \/ d = [WorkerOff EXCEPT !.pc = "attach"] =>
       d.inbox = <<>> /\ d.meta = <<>> /\ d.taken = <<>> /\ d.loaded = <<>> /\ d.pc # "copy"
  /\ NcclCap \in Nat /\ 0 <= NcclCap /\ IpcCap \in Nat /\ 0 <= IpcCap /\ DOMAIN <<>> = {}
<1>1. \A t : t = TrainerOff \/ t = [TrainerOff EXCEPT !.pc = "send"] =>
        t.bucket.meta = <<>> /\ t.bucket.offset = 0 /\ t.queue = <<>> /\ t.op.st = "idle"
  BY DEF TrainerOff, NoBucket, NoOp
<1>2. \A s : s = ServerOff \/ s = [ServerOff EXCEPT !.pc = "shake"] =>
        /\ s.views = <<>> /\ s.op.st = "idle" /\ s.queue = <<>>
        /\ s.bucket.meta = <<>> /\ s.bucket.offset = 0
  BY DEF ServerOff, NoBucket, NoReceive
<1>3. \A d : d = WorkerOff \/ d = [WorkerOff EXCEPT !.pc = "attach"] =>
        d.inbox = <<>> /\ d.meta = <<>> /\ d.taken = <<>> /\ d.loaded = <<>> /\ d.pc # "copy"
  BY DEF WorkerOff
<1>4. NcclCap \in Nat /\ 0 <= NcclCap /\ IpcCap \in Nat /\ 0 <= IpcCap
  BY TransferAssumption DEF TransferAssumption
<1>5. DOMAIN <<>> = {}
  OBVIOUS
<1>6. QED
  BY <1>1, <1>2, <1>3, <1>4, <1>5

LEMMA NoBytes ==
  /\ \A t, bufs : t.bucket.meta = <<>> /\ t.bucket.offset = 0 /\ t.queue = <<>> /\ t.op.st = "idle"
       => SendBytes(t, bufs)
  /\ \A s, bufs, buf : /\ s.views = <<>> /\ s.op.st = "idle" /\ s.queue = <<>>
                        /\ s.bucket.meta = <<>> /\ s.bucket.offset = 0
       => Viewed(s, bufs) /\ Shared(s, buf)
  /\ \A d : d.inbox = <<>> /\ d.meta = <<>> /\ d.taken = <<>> /\ d.loaded = <<>> => Copies(d)
  /\ \A s, x, d : d.taken = <<>> /\ d.loaded = <<>> /\ d.pc # "copy" /\ x.st = "idle" => DriverBytes(s, x, d)
<1>1. \A t, bufs : t.bucket.meta = <<>> /\ t.bucket.offset = 0 /\ t.queue = <<>> /\ t.op.st = "idle"
        => SendBytes(t, bufs)
  BY OffBytes, NothingCopied DEF SendBytes
<1>2. \A s, bufs, buf : /\ s.views = <<>> /\ s.op.st = "idle" /\ s.queue = <<>>
                        /\ s.bucket.meta = <<>> /\ s.bucket.offset = 0
        => Viewed(s, bufs) /\ Shared(s, buf)
  BY OffBytes, NothingCopied DEF Viewed, Shared
<1>3. \A d : d.inbox = <<>> /\ d.meta = <<>> /\ d.taken = <<>> /\ d.loaded = <<>> => Copies(d)
  BY OffBytes, NothingInside DEF Copies
<1>4. \A s, x, d : d.taken = <<>> /\ d.loaded = <<>> /\ d.pc # "copy" /\ x.st = "idle" => DriverBytes(s, x, d)
  BY NothingInside DEF DriverBytes
<1>5. QED
  BY <1>1, <1>2, <1>3, <1>4

LEMMA InitBytes == ASSUME TransferInit PROVE BytesInv
<1>1. /\ plan \in Plans /\ trainer = TrainerOff /\ joined = {}
      /\ send_bufs = [i \in 0..1 |-> Empty(NcclCap)] /\ server = [r \in Replicas |-> ServerOff]
      /\ recv_bufs = [r \in Replicas |-> [i \in 0..1 |-> Empty(NcclCap)]]
      /\ shared = [r \in Replicas |-> Empty(IpcCap)] /\ socket = [r \in Replicas |-> Idle]
      /\ worker = [r \in Replicas |-> [k \in Ranks |-> WorkerOff]]
  BY DEF TransferInit
<1>2. BufferTypes
  BY <1>1, EmptyBuffer DEF BufferTypes
<1>3. SendBytes(trainer, send_bufs)
  BY <1>1, OffBytes, NoBytes
<1>4. ASSUME NEW r \in Replicas
      PROVE  ReplicaBytes(r)
  <2>1. /\ server[r] = ServerOff /\ socket[r] = Idle /\ Idle.st = "idle"
        /\ (\A k \in Ranks : worker[r][k] = WorkerOff) /\ Driver \in Ranks
    BY <1>1, Deployment DEF Idle
  <2>2. QED
    BY <1>1, <2>1, OffBytes, NoBytes DEF ReplicaBytes
<1>5. QED
  BY <1>2, <1>3, <1>4 DEF BytesInv

\* Words of an older version stay words, and are nowhere that matters.
LEMMA StartBytes ==
  ASSUME TransferInv, BytesInv, NEW v \in Nat, version <= v, StartTransfer(v)
  PROVE  BytesInv'
<1> DEFINE a == [WorkerOff EXCEPT !.pc = "attach"]
           u == [ServerOff EXCEPT !.pc = "shake"]
<1>1. /\ sync = "off" /\ version' = v /\ UNCHANGED <<plan, send_bufs, recv_bufs, socket>>
      /\ trainer' = IF plan.colocated THEN TrainerOff ELSE [TrainerOff EXCEPT !.pc = "send"]
      /\ joined' = IF plan.late THEN joined ELSE Replicas
      /\ server' = [r \in Replicas |-> u] /\ shared' = [r \in Replicas |-> Empty(IpcCap)]
      /\ worker' = [r \in Replicas |-> [k \in Ranks |-> a]]
  BY DEF StartTransfer
<1>2. Still /\ plan \in Plans /\ version \in Nat
  BY <1>1 DEF TransferInv, Shapes
<1>3. Ranks' = Ranks /\ Weights' = Weights /\ Driver \in Ranks
  BY <1>1, <1>2, Deployment DEF Ranks, Weights
<1>4. Words \subseteq Words'
  <2>1. 0..version \subseteq 0..v
    BY <1>2
  <2>2. QED
    BY <1>1, <1>3, <2>1 DEF Words
<1>5. \A cap : Buffers(cap) \subseteq Buffers(cap)'
  BY <1>4 DEF Buffers
<1>6. BufferTypes'
  <2>1. send_bufs' \in [0..1 -> Buffers(NcclCap)'] /\ recv_bufs' \in [Replicas -> [0..1 -> Buffers(NcclCap)']]
    BY <1>1, <1>5 DEF BytesInv, BufferTypes
  <2>2. shared' \in [Replicas -> Buffers(IpcCap)']
    <3>1. \A cap : Empty(cap) \in Buffers(cap)'
      BY <1>5, EmptyBuffer
    <3>2. QED
      BY <1>1, <3>1
  <2>3. joined' \subseteq Replicas
    BY <1>1 DEF BytesInv, BufferTypes
  <2>4. QED
    BY <2>1, <2>2, <2>3 DEF BufferTypes
<1>7. SendBytes(trainer, send_bufs)' /\ (\A bufs : Viewed(u, bufs)') /\ (\A buf : Shared(u, buf)')
  <2>1. /\ trainer'.bucket.meta = <<>> /\ trainer'.bucket.offset = 0
        /\ trainer'.queue = <<>> /\ trainer'.op.st = "idle"
    BY <1>1, OffBytes
  <2>2. /\ u.views = <<>> /\ u.op.st = "idle" /\ u.queue = <<>>
        /\ u.bucket.meta = <<>> /\ u.bucket.offset = 0
    BY OffBytes
  <2>3. \A buf : Copying(<<>>, <<>>, buf)' /\ Laid(<<>>, 0)' /\ Holds(buf, <<>>)'
    BY OffBytes DEF Copying, Laid, Holds
  <2> HIDE DEF u
  <2>4. SendBytes(trainer, send_bufs)'
    BY <2>1, <2>3, OffBytes DEF SendBytes
  <2>5. \A bufs : Viewed(u, bufs)'
    BY <2>2, <2>3, OffBytes DEF Viewed
  <2>6. \A buf : Shared(u, buf)'
    BY <2>2, <2>3, OffBytes DEF Shared
  <2>7. QED
    BY <2>4, <2>5, <2>6
<1>8. (\A s, x : x.st = "idle" => DriverBytes(s, x, a)') /\ Copies(a)'
  <2>1. <<>> \in Seq(Tensors)'
    OBVIOUS
  <2>2. QED
    BY <2>1, OffBytes DEF DriverBytes, Copies, Clean, Inside
<1> HIDE DEF a, u
<1>9. SendBytes(trainer, send_bufs)'
  BY <1>7
<1>10. ASSUME NEW r \in Replicas
       PROVE  ReplicaBytes(r)'
  <2>1. socket'[r].st = "idle"
    <3>1. Talk(Count, server[r], socket[r], worker[r][Driver]) /\ server[r].pc \in {"off", "done"}
      BY <1>2 DEF TransferInv, Replica, Still
    <3>2. QED
      BY <1>1, <3>1 DEF Talk
  <2>2. server'[r] = u /\ \A k \in Ranks : worker'[r][k] = a
    BY <1>1
  <2>3. QED
    BY <1>3, <1>7, <1>8, <2>1, <2>2 DEF ReplicaBytes
<1>11. QED
  BY <1>6, <1>9, <1>10 DEF BytesInv

\* A step outside the transfer.
LEMMA BytesStay ==
  ASSUME BytesInv, UNCHANGED <<plan, version, trainer, send_bufs, joined, server, recv_bufs, shared, socket, worker>>
  PROVE  BytesInv'
<1>1. BufferTypes'
  BY BufferTypesStay DEF BytesInv, BufferTypes
<1>2. SendBytes(trainer, send_bufs)'
  BY Meaning DEF BytesInv
<1>3. \A r \in Replicas : ReplicaBytes(r)'
  BY BytesAlone DEF BytesInv
<1>4. QED
  BY <1>1, <1>2, <1>3 DEF BytesInv

-----------------------------------------------------------------------------
(* What follows.                                                           *)

LEMMA DriverIsClean ==
  ASSUME TransferInv, BytesInv
  PROVE  DriverIntact
<1>1. ASSUME NEW r \in Replicas
      PROVE  Intact(r, Driver)
  <2> DEFINE d == worker[r][Driver]
  <2>1. Driver \in Ranks
    BY Deployment DEF TransferInv, Shapes
  <2>2. d.loaded \in Seq(Tensors) /\ d.taken \in Seq(Tensors) /\ Clean(d.loaded) /\ Clean(d.taken)
    BY <2>1, WorkerBytesBefore DEF Copies, DriverBytes
  <2>3. Clean(d.loaded \o d.taken)
    BY <2>2, CleanTogether
  <2>4. QED
    BY <2>3 DEF Clean, Intact, Copied
<1>2. QED
  BY <1>1 DEF DriverIntact

LEMMA TransferIsTyped ==
  ASSUME TransferInv, BytesInv
  PROVE  TransferTypeOK
<1>1. /\ plan \in Plans /\ sync \in {"on", "off"} /\ version \in Nat /\ trainer \in Trainers
  BY DEF TransferInv, Shapes
<1>2. /\ trainer.pc \in {"off", "send", "sent", "failed"} /\ trainer.cur \in 0..1
      /\ trainer.op.st \in {"idle", "new", "sent"}
      /\ trainer.bucket.meta \in Seq(Entry) /\ trainer.bucket.offset \in Nat
  BY <1>1 DEF Trainers, Bucket
<1>3. trainer.bucket.meta \in Seq(Entries)
  <2> DEFINE m == trainer.bucket.meta
             end == trainer.bucket.offset
  <2>1. Laid(m, end) /\ end <= NcclCap /\ m \in Seq(Entry) /\ end \in Nat /\ NcclCap \in Nat
    BY <1>1, <1>2, Deployment DEF BytesInv, SendBytes
  <2> HIDE DEF m, end
  <2>2. ASSUME NEW i \in DOMAIN m
        PROVE  m[i] \in Entries
    <3>1. m[i] \in Entry /\ m[i].w \in Weights /\ m[i].offset + Size(m[i].w) <= end
      BY <2>1 DEF Laid
    <3>2. m[i].offset \in Nat /\ Size(m[i].w) \in Nat
      BY <1>1, <3>1, Deployment DEF Entry
    <3>3. m[i].offset \in 0..NcclCap
      BY <2>1, <3>1, <3>2
    <3>4. QED
      BY <3>1, <3>3 DEF Entry, Entries
  <2>3. DOMAIN m = 1..Len(m) /\ Len(m) \in Nat /\ m = [i \in DOMAIN m |-> m[i]]
    BY <2>1
  <2>4. m \in Seq(Entries)
    BY <2>2, <2>3
  <2>5. QED
    BY <2>4 DEF m
<1>4. BufferTypes
  BY DEF BytesInv
<1>5. ASSUME NEW r \in Replicas
      PROVE  /\ server[r].pc \in {"off", "shake", "shaking", "pull", "flush", "last", "done", "failed"}
             /\ server[r].op.st \in {"idle", "run", "done"} /\ server[r].cur \in 0..1
             /\ server[r].bucket.offset \in 0..IpcCap
             /\ socket[r].st \in {"idle", "request", "held", "answer"}
             /\ \A k \in Ranks :
                  /\ worker[r][k].pc \in {"off", "attach", "receive", "copy", "barrier", "load", "done"}
                  /\ {worker[r][k].taken, worker[r][k].loaded} \subseteq Seq(Tensors)
  <2>1. server[r] \in Servers /\ socket[r] \in Sockets
    BY DEF TransferInv, Shapes
  <2>2. server[r].bucket.offset \in Nat /\ server[r].bucket.offset <= IpcCap /\ IpcCap \in Nat
    BY <1>1, ServerBytesBefore, Deployment DEF Shared
  <2>3. ASSUME NEW k \in Ranks
        PROVE  /\ worker[r][k].pc \in {"off", "attach", "receive", "copy", "barrier", "load", "done"}
               /\ {worker[r][k].taken, worker[r][k].loaded} \subseteq Seq(Tensors)
    BY WorkerBytesBefore DEF Ranked, Copies
  <2>4. QED
    BY <2>1, <2>2, <2>3 DEF Servers, Sockets
<1>6. QED
  BY <1>1, <1>2, <1>3, <1>4, <1>5 DEF TransferTypeOK, BufferTypes

-----------------------------------------------------------------------------
(* The invariant: that of the transfer, what the driver knows of it, and   *)
(* where colocated models are at each point of its loop.                   *)

\* A model that went through a buffer once fits it ever after.
AllFit == \A r \in Replicas : \A w \in Weights : Size(w) <= IpcCap

Driven ==
  /\ driver \in {"top", "sync", "transfer", "synced", "generation", "generate", "train", "raised", "ended"}
  /\ iteration \in Nat /\ version <= iteration
  /\ iteration > 0 \/ driver \in {"synced", "generation", "generate", "train"} => AllFit
  /\ driver \in {"top", "generation", "generate", "train"} => ~merged
  /\ driver \in {"raised", "ended"} /\ merged => ~plan.colocated /\ TransferFailed

\* Asleep is what has been put to sleep: nothing before the first synchronisation.
Awake ==
  plan.colocated =>
    /\ driver = "top" =>
         /\ place = "gpu"
         /\ sleeping = Tags \/ (sleeping = {} /\ iteration = 0)
    /\ driver = "sync" => sleeping = {"kv_cache"}
    /\ driver \in {"transfer", "synced"} => sleeping = {"kv_cache"} /\ place = "cpu"
    /\ driver = "generation" => sleeping = {"kv_cache"}
    /\ driver = "generate" => sleeping = {} /\ place = "cpu"
    /\ driver = "train" => sleeping = Tags /\ place = "gpu"
    /\ driver \in {"raised", "ended"} =>
         /\ place = "gpu"
         /\ "kv_cache" \in sleeping \/ TrainIters = 0
         /\ iteration > 0 => sleeping = Tags

IInv == TransferInv /\ Driven /\ Awake

-----------------------------------------------------------------------------
(* The invariant is inductive.                                             *)

LEMMA InitStep == Init => IInv
<1> SUFFICES ASSUME Init PROVE IInv
  OBVIOUS
<1>1. TransferInit /\ version = 0
  BY DEF Init, TransferInit
<1>2. TransferInv
  BY <1>1, InitInv
<1>3. Driven
  BY <1>1 DEF Init, Driven
<1>4. Awake
  BY DEF Init, Awake
<1>5. QED
  BY <1>2, <1>3, <1>4 DEF IInv

\* What a step must keep once the transfer's invariant is kept.
LEMMA AllFitStays == ASSUME AllFit, UNCHANGED plan PROVE AllFit'
BY DEF AllFit, Weights, Size

\* A step of the driver by itself leaves the transfer as it is.
LEMMA TransferRests ==
  ASSUME TransferInv, UNCHANGED transfer
  PROVE  TransferInv' /\ (TransferFailed => TransferFailed') /\ (AllFit => AllFit')
<1>1. UNCHANGED <<plan, sync, version, trainer, topic, server, socket, worker>>
  BY DEF transfer
<1>2. TransferInv'
  BY <1>1, NothingMoves
<1>3. QED
  BY <1>1, <1>2, AllFitStays DEF TransferFailed

LEMMA SyncWeightsStep == ASSUME IInv, SyncWeights PROVE IInv'
<1>1. TransferInv' /\ (AllFit => AllFit') /\ UNCHANGED <<plan, version, iteration>>
  BY TransferRests DEF IInv, SyncWeights, transfer
<1>2. Driven'
  BY <1>1 DEF IInv, Driven, SyncWeights
<1>3. Awake'
  BY <1>1 DEF IInv, Awake, SyncWeights, Slept, Woken, Tags
<1>4. QED
  BY <1>1, <1>2, <1>3 DEF IInv

LEMMA SendWeightsStep == ASSUME IInv, SendWeights PROVE IInv'
<1>1. TransferInv' /\ UNCHANGED <<plan, iteration>> /\ version' = iteration
  BY StartStep DEF IInv, Driven, SendWeights, StartTransfer
<1>2. Driven'
  BY <1>1, AllFitStays DEF IInv, Driven, SendWeights
<1>3. Awake'
  BY <1>1 DEF IInv, Awake, SendWeights
<1>4. QED
  BY <1>1, <1>2, <1>3 DEF IInv

\* What has arrived went through the buffers.
LEMMA WeightsArrivedStep == ASSUME IInv, WeightsArrived PROVE IInv'
<1>1. TransferInv' /\ UNCHANGED <<plan, version, iteration>> /\ TransferDone
  BY EndStep DEF IInv, WeightsArrived, EndTransfer
<1>2. AllFit
  BY <1>1, DoneIsWhole DEF IInv, AllFit
<1>3. Driven'
  BY <1>1, <1>2, AllFitStays DEF IInv, Driven, WeightsArrived
<1>4. Awake'
  BY <1>1 DEF IInv, Awake, WeightsArrived
<1>5. QED
  BY <1>1, <1>3, <1>4 DEF IInv

LEMMA RestoreStep == ASSUME IInv, Restore PROVE IInv'
<1>1. TransferInv' /\ (AllFit => AllFit') /\ UNCHANGED <<plan, version, iteration>>
  BY TransferRests DEF IInv, Restore, transfer
<1>2. Driven'
  BY <1>1 DEF IInv, Driven, Restore
<1>3. Awake'
  BY <1>1 DEF IInv, Awake, Restore
<1>4. QED
  BY <1>1, <1>2, <1>3 DEF IInv

\* A colocated transfer fails for a weight that does not fit, which a first
\* synchronisation that succeeded would have met.
LEMMA SyncRaisesStep == ASSUME IInv, SyncRaises PROVE IInv'
<1>1. /\ TransferInv' /\ (AllFit => AllFit') /\ UNCHANGED <<plan, version, iteration>>
      /\ TransferFailed /\ TransferFailed'
  BY TransferRests DEF IInv, SyncRaises, transfer
<1>2. ASSUME plan.colocated, iteration > 0
      PROVE  FALSE
  <2>1. AllFit
    BY <1>2 DEF IInv, Driven
  <2>2. trainer.pc = "off"
    BY <1>2 DEF IInv, TransferInv
  <2>3. PICK r \in Replicas : server[r].pc = "failed"
    BY <1>1, <2>2 DEF TransferFailed
  <2>4. PICK w \in Weights : Size(w) > IpcCap
    BY <2>3, FailureIsReal DEF IInv
  <2>5. plan \in Plans /\ Size(w) <= IpcCap
    BY <2>1, <2>4 DEF AllFit, IInv, TransferInv, Shapes
  <2>6. Size(w) \in Nat /\ IpcCap \in Nat
    BY <2>4, <2>5, Deployment
  <2>7. QED
    BY <2>4, <2>5, <2>6
<1>3. Driven'
  BY <1>1 DEF IInv, Driven, SyncRaises
<1>4. Awake'
  BY <1>1, <1>2 DEF IInv, Awake, SyncRaises
<1>5. QED
  BY <1>1, <1>3, <1>4 DEF IInv

LEMMA EnterGenerationStep == ASSUME IInv, EnterGeneration PROVE IInv'
<1>1. TransferInv' /\ (AllFit => AllFit') /\ UNCHANGED <<plan, version, iteration>>
  BY TransferRests DEF IInv, EnterGeneration, transfer
<1>2. Driven'
  BY <1>1 DEF IInv, Driven, EnterGeneration
<1>3. Awake'
  BY <1>1 DEF IInv, Awake, EnterGeneration, Woken
<1>4. QED
  BY <1>1, <1>2, <1>3 DEF IInv

LEMMA LeaveGenerationStep == ASSUME IInv, Collect \/ GenerateRaises PROVE IInv'
<1>1. /\ driver = "generate" /\ driver' \in {"train", "raised"} /\ LeaveGeneration
      /\ UNCHANGED transfer
  BY DEF Collect, GenerateRaises, LeaveGeneration
<1>2. TransferInv' /\ (AllFit => AllFit') /\ UNCHANGED <<plan, version, iteration, merged>>
  BY <1>1, TransferRests DEF IInv, LeaveGeneration, transfer
<1>3. Driven'
  BY <1>1, <1>2 DEF IInv, Driven
<1>4. Awake'
  BY <1>1, <1>2 DEF IInv, Awake, LeaveGeneration, Slept, Tags
<1>5. QED
  BY <1>2, <1>3, <1>4 DEF IInv

LEMMA TrainingStep == ASSUME IInv, TrainStep \/ NextBatch PROVE IInv'
<1>1. /\ TransferInv' /\ (AllFit => AllFit')
      /\ UNCHANGED <<plan, version, merged, place, sleeping>>
  BY TransferRests DEF IInv, TrainStep, NextBatch, transfer
<1>2. driver = "train" /\ driver' \in {"train", "top"} /\ (iteration' = iteration \/ iteration' = iteration + 1)
  BY DEF TrainStep, NextBatch
<1>3. AllFit /\ iteration \in Nat /\ version <= iteration /\ ~merged
  BY <1>2 DEF IInv, Driven
<1>4. iteration' \in Nat /\ version' <= iteration'
  <2>1. plan \in Plans /\ version \in Nat
    BY DEF IInv, TransferInv, Shapes
  <2>2. QED
    BY <1>1, <1>2, <1>3, <2>1
<1>5. Driven'
  BY <1>1, <1>2, <1>3, <1>4 DEF Driven
<1>6. Awake'
  BY <1>1, <1>2 DEF IInv, Awake
<1>7. QED
  BY <1>1, <1>5, <1>6 DEF IInv

LEMMA FinishStep == ASSUME IInv, Finish PROVE IInv'
<1>1. /\ TransferInv' /\ (AllFit => AllFit') /\ (TransferFailed => TransferFailed')
      /\ UNCHANGED <<plan, version, iteration, merged, place, sleeping>>
  BY TransferRests DEF IInv, Finish, transfer
<1>2. Driven'
  BY <1>1 DEF IInv, Driven, Finish
<1>3. Awake'
  <2>1. SUFFICES ASSUME plan.colocated PROVE Awake'
    BY <1>1 DEF Awake
  <2>2. CASE driver = "top" /\ iteration >= TrainIters
    <3>1. TrainIters \in Nat /\ iteration \in Nat
      BY GrpoAssumption DEF GrpoAssumption, IInv, Driven
    <3>2. place = "gpu" /\ (sleeping = Tags \/ (sleeping = {} /\ iteration = 0))
      BY <2>1, <2>2 DEF IInv, Awake
    <3>3. (sleeping = Tags) \/ TrainIters = 0
      BY <2>2, <3>1, <3>2
    <3>4. iteration > 0 => sleeping = Tags
      BY <3>1, <3>2
    <3>5. driver' = "ended"
      BY DEF Finish
    <3>6. QED
      BY <1>1, <3>2, <3>3, <3>4, <3>5 DEF Awake, Tags
  <2>3. CASE driver = "raised"
    BY <1>1, <2>1, <2>3 DEF IInv, Awake, Finish
  <2>4. QED
    BY <2>2, <2>3 DEF Finish
<1>4. QED
  BY <1>1, <1>2, <1>3 DEF IInv

LEMMA GenerateStep == ASSUME IInv, NEW r \in Replicas, Generate(r) PROVE IInv'
<1>1. /\ TransferInv' /\ (AllFit => AllFit') /\ (TransferFailed => TransferFailed')
      /\ UNCHANGED <<plan, version, driver, iteration, merged, place, sleeping>>
  BY TransferRests DEF IInv, Generate, transfer
<1>2. Driven'
  BY <1>1 DEF IInv, Driven, Generate
<1>3. Awake'
  BY <1>1 DEF IInv, Awake
<1>4. QED
  BY <1>1, <1>2, <1>3 DEF IInv

LEMMA TransferStep == ASSUME IInv, Transfers PROVE IInv'
<1>1. TransferInv' /\ (TransferFailed => TransferFailed')
  BY TransferSteps, FailureStays DEF IInv, Transfers
<1>2. UNCHANGED <<plan, version, driver, iteration, merged, place, sleeping>>
  BY NextKeeps DEF Transfers, grpo
<1>3. Driven'
  BY <1>1, <1>2, AllFitStays DEF IInv, Driven
<1>4. Awake'
  BY <1>2 DEF IInv, Awake
<1>5. QED
  BY <1>1, <1>3, <1>4 DEF IInv

LEMMA NextStep == IInv /\ [Next]_vars => IInv'
<1> SUFFICES ASSUME IInv, [Next]_vars PROVE IInv'
  OBVIOUS
<1>1. CASE UNCHANGED vars
  <2>1. /\ TransferInv' /\ (AllFit => AllFit') /\ (TransferFailed => TransferFailed')
        /\ UNCHANGED <<plan, version, driver, iteration, merged, place, sleeping>>
    BY <1>1, TransferRests DEF IInv, vars, grpo, transfer
  <2>2. QED
    BY <2>1 DEF IInv, Driven, Awake
<1>2. CASE DriverNext
  BY <1>2, SyncWeightsStep, SendWeightsStep, WeightsArrivedStep, RestoreStep, SyncRaisesStep,
     EnterGenerationStep, LeaveGenerationStep, TrainingStep, FinishStep DEF DriverNext
<1>3. CASE Transfers
  BY <1>3, TransferStep
<1>4. CASE \E r \in Replicas : Generate(r)
  BY <1>4, GenerateStep
<1>5. QED
  BY <1>1, <1>2, <1>3, <1>4 DEF Next

\* Every step of the driver, of the transfer and of the replicas keeps the transfer in
\* order, the driver's place with it, and the models where the place says.
THEOREM Invariance == Spec => []IInv
BY InitStep, NextStep, PTL DEF Spec

-----------------------------------------------------------------------------
(* The shards of a generation batch: consecutive, and the batch together.  *)

ReplicaCount == Len(ReplicaOrder)

\* Chunks as long as _distribute_to_replicas makes them are enough for the batch.
LEMMA ChunksCover ==
  /\ ReplicaCount \in Nat \ {0} /\ Prompts \in Nat \ {0} /\ Chunk \in Nat \ {0}
  /\ ReplicaCount * Chunk \in Nat /\ Prompts <= ReplicaCount * Chunk
<1>1. ReplicaCount \in Nat \ {0} /\ Prompts \in Nat \ {0} /\ ReplicaOrder \in Seq(Replicas)
  BY GrpoAssumption DEF GrpoAssumption, ReplicaCount
<1> DEFINE x == Prompts + ReplicaCount - 1
           q == x \div ReplicaCount
           m == x % ReplicaCount
<1>2. x \in Nat /\ q \in Int /\ m \in Int
  BY <1>1
<1>3. x = ReplicaCount * q + m /\ m \in 0..ReplicaCount - 1 /\ q \in Nat
  BY <1>1, <1>2, DivisionParts
<1>4. Chunk = q
  BY DEF Chunk, ReplicaCount
<1> HIDE DEF q, m
<1>5. ReplicaCount * q \in Nat
  BY <1>1, <1>3
<1>6. Prompts <= ReplicaCount * q
  BY <1>1, <1>3, <1>5
<1>7. q # 0
  <2>1. q = 0 => ReplicaCount * q = 0
    BY <1>1
  <2>2. QED
    BY <1>1, <1>6, <2>1
<1>8. QED
  BY <1>1, <1>3, <1>4, <1>5, <1>6, <1>7

\* The driver lists every replica once.
LEMMA ReplicasListed ==
  /\ \A i \in 1..ReplicaCount : ReplicaOrder[i] \in Replicas /\ Place(ReplicaOrder[i]) = i
  /\ \A r \in Replicas : Place(r) \in 1..ReplicaCount /\ ReplicaOrder[Place(r)] = r
<1>1. /\ ReplicaOrder \in Seq(Replicas) /\ ToSet(ReplicaOrder) = Replicas
      /\ ReplicaCount = Cardinality(Replicas) /\ ReplicaCount \in Nat
  BY GrpoAssumption DEF GrpoAssumption, ReplicaCount
<1>2. ReplicaOrder \in [1..ReplicaCount -> Replicas] /\ DOMAIN ReplicaOrder = 1..ReplicaCount
  BY <1>1 DEF ReplicaCount
<1>3. \A r \in Replicas : \E i \in 1..ReplicaCount : ReplicaOrder[i] = r
  BY <1>1, <1>2 DEF ToSet
<1>4. ReplicaOrder \in Surjection(1..ReplicaCount, Replicas)
  BY <1>2, <1>3 DEF Surjection
<1>5. IsFiniteSet(1..ReplicaCount) /\ Cardinality(1..ReplicaCount) = Cardinality(Replicas)
  <2>1. 1 \in Int /\ ReplicaCount \in Int
    BY <1>1
  <2>2. /\ IsFiniteSet(1..ReplicaCount)
        /\ Cardinality(1..ReplicaCount) = IF 1 > ReplicaCount THEN 0 ELSE ReplicaCount - 1 + 1
    BY <2>1, FS_Interval
  <2>3. QED
    BY <1>1, <2>2
<1>6. ReplicaOrder \in Injection(1..ReplicaCount, Replicas)
  BY <1>4, <1>5, FS_SurjSameCardinalityImpliesInj
<1>7. \A i, j \in 1..ReplicaCount : ReplicaOrder[i] = ReplicaOrder[j] => i = j
  BY <1>6 DEF Injection, IsInjective
<1>8. \A r \in Replicas : Place(r) \in 1..ReplicaCount /\ ReplicaOrder[Place(r)] = r
  BY <1>2, <1>3 DEF Place
<1>9. QED
  BY <1>2, <1>7, <1>8

\* The prompts before shard w + 1.
Start == [w \in 0..ReplicaCount |-> IF w * Chunk <= Prompts THEN w * Chunk ELSE Prompts]

\* Shard w has the prompts that follow those of the shards before it.
LEMMA ShardsFollow ==
  ASSUME NEW w \in 1..ReplicaCount
  PROVE  LET shard == Shard(ReplicaOrder[w])
         IN  /\ shard \in Seq(1..Prompts)
             /\ Start[w - 1] \in Nat /\ Start[w] \in Nat
             /\ Start[w] = Start[w - 1] + Len(shard)
             /\ \A n \in 1..Len(shard) : shard[n] = Start[w - 1] + n
<1> DEFINE r == ReplicaOrder[w]
           a == (w - 1) * Chunk
<1>1. ReplicaCount \in Nat \ {0} /\ Prompts \in Nat \ {0} /\ Chunk \in Nat \ {0} /\ w \in Nat \ {0}
  BY ChunksCover
<1>2. Place(r) = w
  BY ReplicasListed
<1>3. a \in Nat /\ w * Chunk = a + Chunk
  BY <1>1
<1>4. Start[w] = IF a + Chunk <= Prompts THEN a + Chunk ELSE Prompts
  BY <1>1, <1>3 DEF Start
<1>5. Start[w - 1] = IF a <= Prompts THEN a ELSE Prompts
  BY <1>1 DEF Start
<1>6. ShardStart(r) = a
  BY <1>2 DEF ShardStart
<1> DEFINE size == IF a + Chunk <= Prompts THEN Chunk ELSE Prompts - a
<1>7. Shard(r) = [n \in 1..size |-> a + n]
  BY <1>6 DEF Shard
<1> HIDE DEF a, r
<1>8. CASE size > 0
  <2>1. size \in Nat /\ a + size <= Prompts
    BY <1>1, <1>3, <1>8
  <2>2. Start[w - 1] = a /\ Start[w] = a + size
    BY <1>1, <1>3, <1>4, <1>5, <1>8
  <2> HIDE DEF size
  <2>3. \A n \in 1..size : a + n \in 1..Prompts
    BY <1>1, <1>3, <2>1
  <2>4. Shard(r) \in Seq(1..Prompts) /\ Len(Shard(r)) = size
    BY <1>7, <2>1, <2>3
  <2>5. QED
    BY <1>3, <1>7, <2>1, <2>2, <2>4 DEF r
<1>9. CASE ~(size > 0)
  <2>1. 1..size = {}
    BY <1>1, <1>3, <1>9
  <2>2. Start[w - 1] = Prompts /\ Start[w] = Prompts
    BY <1>1, <1>3, <1>4, <1>5, <1>9
  <2> HIDE DEF size
  <2>3. Shard(r) = <<>>
    BY <1>7, <2>1
  <2>4. Shard(r) \in Seq(1..Prompts) /\ Len(Shard(r)) = 0
    BY <2>3
  <2>5. QED
    BY <1>1, <2>2, <2>4 DEF r
<1>10. QED
  BY <1>8, <1>9

\* The shards together are the batch.
LEMMA ShardsCover ==
  /\ Start \in [0..ReplicaCount -> Nat] /\ Start[0] = 0 /\ Start[ReplicaCount] = Prompts
<1>1. /\ ReplicaCount \in Nat \ {0} /\ Prompts \in Nat \ {0} /\ Chunk \in Nat \ {0}
      /\ ReplicaCount * Chunk \in Nat /\ Prompts <= ReplicaCount * Chunk
  BY ChunksCover
<1>2. \A w \in 0..ReplicaCount : w * Chunk \in Nat
  BY <1>1
<1>3. 0 * Chunk = 0
  BY <1>1
<1>4. QED
  BY <1>1, <1>2, <1>3 DEF Start

-----------------------------------------------------------------------------
(* What is sampled: the invariant for the driver's data.                   *)

\* The driver's own part of TypeOK.
GrpoTypes ==
  /\ iteration \in Versions /\ step \in 0..Spg
  /\ {base_sync_done, merged} \subseteq BOOLEAN
  /\ sleeping \subseteq Tags /\ place \in {"gpu", "cpu"}
  /\ held \in [base : Versions, merged : BOOLEAN, adapter : Versions \cup {None}]
  /\ cached \in [Replicas -> Versions \cup {None}]
  /\ rollout \in Seq(Completions)
  /\ parts \in [Replicas -> Seq(Completions)]

\* While a batch is sampled, the replicas hold the trainer's policy, unless the
\* adapter is sent by itself, and colocated ones no cached block of another.
Sampling ==
  /\ ~plan.adapter =>
       /\ driver \in {"sync", "transfer"} => merged = Lora
       /\ driver = "transfer" => version = iteration
       /\ driver \in {"synced", "generation", "generate"} => Policy = iteration
  /\ plan.colocated /\ driver \in {"synced", "generation", "generate"} =>
       \A r \in Replicas : cached[r] \in {None, Policy}

\* A replica has sampled nothing or its shard, with that policy.
Sampled(r) ==
  parts[r] # <<>> =>
    /\ Len(parts[r]) = Len(Shard(r))
    /\ \A n \in 1..Len(parts[r]) :
         /\ parts[r][n].prompt = Shard(r)[n]
         /\ parts[r][n].policy = Policy
         /\ plan.colocated => parts[r][n].prefix = Policy

SampleInv ==
  /\ GrpoTypes
  /\ Sampling
  /\ driver = "generate" => \A r \in Replicas : Sampled(r)
  /\ OnPolicy

LEMMA SampleInit == Init => SampleInv
<1> SUFFICES ASSUME Init PROVE SampleInv
  OBVIOUS
<1>1. 0 \in Versions /\ 0 \in 0..Spg
  BY GrpoAssumption DEF GrpoAssumption, Versions
<1>2. GrpoTypes
  <2>1. held \in [base : Versions, merged : BOOLEAN, adapter : Versions \cup {None}]
    BY <1>1 DEF Init
  <2>2. rollout \in Seq(Completions) /\ parts \in [Replicas -> Seq(Completions)]
    BY DEF Init
  <2>3. iteration \in Versions /\ step \in 0..Spg /\ {base_sync_done, merged} \subseteq BOOLEAN
    BY <1>1 DEF Init
  <2>4. QED
    BY <2>1, <2>2, <2>3 DEF Init, GrpoTypes
<1>3. driver = "top"
  BY DEF Init
<1>4. QED
  BY <1>2, <1>3 DEF SampleInv, Sampling, OnPolicy

\* The policy is one the trainer has had.
LEMMA PolicyType == ASSUME GrpoTypes PROVE Policy \in Versions
<1>1. 0 \in Versions
  BY GrpoAssumption DEF GrpoAssumption, Versions
<1>2. QED
  BY <1>1 DEF GrpoTypes, Policy

\* Steps that neither sample nor change what is sampled from.
LEMMA SampleRests ==
  ASSUME SampleInv, UNCHANGED <<plan, version, driver, iteration, base_sync_done, sleeping, place,
                                merged, held, cached, parts, rollout, step>>
  PROVE  SampleInv'
<1>1. GrpoTypes'
  BY DEF SampleInv, GrpoTypes
<1>2. Policy' = Policy
  BY DEF Policy, Lora
<1>3. Sampling'
  BY <1>2 DEF SampleInv, Sampling, Lora
<1>4. \A r \in Replicas : Sampled(r) => Sampled(r)'
  BY <1>2 DEF Sampled
<1>5. OnPolicy'
  BY DEF SampleInv, OnPolicy
<1>6. QED
  BY <1>1, <1>3, <1>4, <1>5 DEF SampleInv

\* The driver's steps before a generation: what is sent is the trainer's policy.
LEMMA SyncSamples ==
  ASSUME IInv, SampleInv, SyncWeights \/ SendWeights \/ WeightsArrived \/ Restore \/ SyncRaises
  PROVE  SampleInv'
<1>1. /\ UNCHANGED <<plan, iteration, parts, rollout, step>>
      /\ driver' \in {"sync", "transfer", "synced", "generation", "raised"}
  BY DEF SyncWeights, SendWeights, WeightsArrived, Restore, SyncRaises, transfer, StartTransfer, EndTransfer
<1>2. version \in Versions
  <2>1. version \in Nat /\ version <= iteration /\ iteration \in Versions
    BY DEF IInv, TransferInv, Shapes, Driven, SampleInv, GrpoTypes
  <2>2. QED
    BY <2>1, GrpoAssumption DEF GrpoAssumption, Versions
<1>3. GrpoTypes'
  <2>1. {base_sync_done', merged'} \subseteq BOOLEAN /\ place' \in {"gpu", "cpu"}
    BY DEF SampleInv, GrpoTypes, SyncWeights, SendWeights, WeightsArrived, Restore, SyncRaises, Lora,
           merge_and_sync
  <2>2. sleeping' \subseteq Tags
    BY DEF SampleInv, GrpoTypes, SyncWeights, SendWeights, WeightsArrived, Restore, SyncRaises, Woken,
           Slept, Tags
  <2>3. held' \in [base : Versions, merged : BOOLEAN, adapter : Versions \cup {None}]
    BY <1>2 DEF SampleInv, GrpoTypes, SyncWeights, SendWeights, WeightsArrived, Restore, SyncRaises
  <2>4. cached' \in [Replicas -> Versions \cup {None}]
    BY DEF SampleInv, GrpoTypes, SyncWeights, SendWeights, WeightsArrived, Restore, SyncRaises, PrefixReset
  <2>5. QED
    BY <1>1, <2>1, <2>2, <2>3, <2>4 DEF SampleInv, GrpoTypes
<1>4. CASE SyncWeights
  <2>1. driver' = "sync" /\ merged' = (merge_and_sync /\ Lora)
    BY <1>4 DEF SyncWeights
  <2>2. ~plan.adapter => merged' = Lora'
    BY <1>1, <2>1 DEF merge_and_sync, Lora
  <2>3. QED
    BY <1>1, <1>3, <2>1, <2>2 DEF SampleInv, Sampling, OnPolicy
<1>5. CASE SendWeights
  <2>1. /\ driver = "sync" /\ driver' = "transfer" /\ merged' = merged /\ version' = iteration
        /\ Lora' = Lora
    BY <1>1, <1>5 DEF SendWeights, StartTransfer, Lora
  <2>2. QED
    BY <1>1, <1>3, <2>1 DEF SampleInv, Sampling, OnPolicy
<1>6. CASE WeightsArrived
  <2>1. /\ driver = "transfer" /\ driver' = "synced" /\ Lora' = Lora
        /\ cached' = PrefixReset
        /\ held' = IF adapter_only THEN [held EXCEPT !.adapter = version]
                   ELSE [held EXCEPT !.base = version, !.merged = merged]
    BY <1>1, <1>6 DEF WeightsArrived, Lora
  <2>2. ASSUME ~plan.adapter PROVE Policy' = iteration'
    <3>1. ~adapter_only /\ merged = Lora /\ version = iteration
      BY <2>1, <2>2 DEF adapter_only, merge_and_sync, SampleInv, Sampling
    <3>2. held'.base = version /\ held'.merged = merged
      BY <2>1, <3>1 DEF SampleInv, GrpoTypes
    <3>3. QED
      BY <1>1, <2>1, <3>1, <3>2 DEF Policy
  <2>3. plan.colocated => \A r \in Replicas : cached'[r] = None
    BY <2>1 DEF PrefixReset
  <2>4. QED
    BY <1>1, <1>3, <2>1, <2>2, <2>3 DEF SampleInv, Sampling, OnPolicy
<1>7. CASE Restore
  <2>1. driver = "synced" /\ driver' = "generation" /\ UNCHANGED <<held, cached>>
    BY <1>7 DEF Restore
  <2>2. Policy' = Policy
    BY <1>1, <2>1 DEF Policy, Lora
  <2>3. QED
    BY <1>1, <1>3, <2>1, <2>2 DEF SampleInv, Sampling, OnPolicy
<1>8. CASE SyncRaises
  <2>1. driver' = "raised"
    BY <1>8 DEF SyncRaises
  <2>2. QED
    BY <1>3, <2>1 DEF SampleInv, Sampling, OnPolicy
<1>9. QED
  BY <1>4, <1>5, <1>6, <1>7, <1>8

LEMMA EnterSamples == ASSUME SampleInv, EnterGeneration PROVE SampleInv'
<1>1. /\ driver = "generation" /\ driver' = "generate"
      /\ parts' = [r \in Replicas |-> <<>>]
      /\ UNCHANGED <<plan, iteration, base_sync_done, merged, held, cached, rollout, step>>
  BY DEF EnterGeneration, transfer
<1>2. Policy' = Policy
  BY <1>1 DEF Policy, Lora
<1>3. GrpoTypes'
  <2>1. place' \in {"gpu", "cpu"} /\ sleeping' \subseteq Tags
    BY DEF SampleInv, GrpoTypes, EnterGeneration, Woken
  <2>2. QED
    BY <1>1, <2>1 DEF SampleInv, GrpoTypes
<1>4. QED
  BY <1>1, <1>2, <1>3 DEF SampleInv, Sampling, Sampled, OnPolicy

\* A replica samples its shard from what it holds; a colocated one has no other
\* blocks than those of the same policy.
LEMMA GenerateSamples == ASSUME SampleInv, NEW r \in Replicas, Generate(r) PROVE SampleInv'
<1> DEFINE part == [n \in DOMAIN Shard(r) |->
                      [prompt |-> Shard(r)[n], policy |-> Policy, prefix |-> Prefix(r)]]
<1>1. /\ driver = "generate" /\ parts' = [parts EXCEPT ![r] = part]
      /\ cached' = [cached EXCEPT ![r] = Prefix(r)]
      /\ UNCHANGED <<plan, version, driver, iteration, base_sync_done, sleeping, place, merged, held,
                     rollout, step>>
  BY DEF Generate, transfer
<1>2. Policy' = Policy /\ Policy \in Versions
  BY <1>1, PolicyType DEF Policy, Lora, SampleInv
<1>3. Prefix(r) \in Versions
  BY <1>2 DEF Prefix, SampleInv, GrpoTypes
<1>4. plan.colocated => Prefix(r) = Policy
  BY <1>1 DEF Prefix, SampleInv, Sampling
<1>5. Shard(r) \in Seq(1..Prompts)
  <2>1. Place(r) \in 1..ReplicaCount /\ ReplicaOrder[Place(r)] = r
    BY ReplicasListed
  <2>2. QED
    BY <2>1, ShardsFollow
<1>6. /\ part \in Seq(Completions) /\ Len(part) = Len(Shard(r))
      /\ \A n \in 1..Len(part) : part[n].prompt = Shard(r)[n] /\ part[n].policy = Policy
                                 /\ part[n].prefix = Prefix(r)
  <2>1. DOMAIN Shard(r) = 1..Len(Shard(r)) /\ Len(Shard(r)) \in Nat
    BY <1>5
  <2>2. ASSUME NEW n \in 1..Len(Shard(r)) PROVE part[n] \in Completions
    <3>1. Shard(r)[n] \in 1..Prompts
      <4>1. PICK S : S = 1..Prompts
        OBVIOUS
      <4>2. PICK shard \in Seq(S) : shard = Shard(r)
        BY <1>5, <4>1
      <4>3. shard[n] \in S
        BY <4>2
      <4>4. QED
        BY <4>1, <4>2, <4>3
    <3>2. part[n] = [prompt |-> Shard(r)[n], policy |-> Policy, prefix |-> Prefix(r)]
      BY <2>1
    <3> HIDE DEF part
    <3>3. QED
      BY <1>2, <1>3, <3>1, <3>2 DEF Completions
  <2>3. QED
    BY <2>1, <2>2
<1> HIDE DEF part
<1>7. GrpoTypes'
  BY <1>1, <1>3, <1>6 DEF SampleInv, GrpoTypes
<1>8. parts'[r] = part /\ \A q \in Replicas : q # r => parts'[q] = parts[q] /\ cached'[q] = cached[q]
  BY <1>1 DEF SampleInv, GrpoTypes
<1>9. cached'[r] = Prefix(r)
  BY <1>1 DEF SampleInv, GrpoTypes
<1>10. Sampling'
  BY <1>1, <1>2, <1>4, <1>8, <1>9 DEF SampleInv, Sampling, Lora
<1>11. \A q \in Replicas : Sampled(q)'
  <2>1. Sampled(r)'
    BY <1>1, <1>2, <1>4, <1>6, <1>8 DEF Sampled
  <2>2. \A q \in Replicas : q # r => Sampled(q)'
    BY <1>1, <1>2, <1>8 DEF SampleInv, Sampled
  <2>3. QED
    BY <2>1, <2>2
<1>12. QED
  BY <1>1, <1>7, <1>10, <1>11 DEF SampleInv, OnPolicy

\* Put together in the order of the replicas, the parts are the batch in its order.
LEMMA CollectSamples == ASSUME IInv, SampleInv, Collect PROVE SampleInv'
<1> DEFINE s == [i \in DOMAIN ReplicaOrder |-> parts[ReplicaOrder[i]]]
           n == ReplicaCount
<1>1. /\ driver = "generate" /\ driver' = "train" /\ rollout' = FlattenSeq(s) /\ step' = 0
      /\ UNCHANGED <<plan, iteration, base_sync_done, merged, held, parts>>
      /\ \A r \in Replicas : Shard(r) # <<>> => parts[r] # <<>>
  BY DEF Collect, Collected, LeaveGeneration, transfer
<1>2. ReplicaOrder \in Seq(Replicas) /\ DOMAIN ReplicaOrder = 1..n /\ n \in Nat \ {0}
  BY GrpoAssumption DEF GrpoAssumption, ReplicaCount
<1>3. s \in [1..n -> Seq(Completions)] /\ \A w \in 1..n : s[w] = parts[ReplicaOrder[w]]
  BY <1>2 DEF SampleInv, GrpoTypes
<1>4. ASSUME NEW w \in 1..n
      PROVE  /\ Start[w - 1] \in Nat /\ Start[w] = Start[w - 1] + Len(s[w])
             /\ \A j \in 1..Len(s[w]) :
                  /\ s[w][j].prompt = Start[w - 1] + j
                  /\ s[w][j].policy = Policy
                  /\ plan.colocated => s[w][j].prefix = Policy
  <2> DEFINE r == ReplicaOrder[w]
  <2>1. r \in Replicas /\ s[w] = parts[r]
    BY <1>2, <1>3
  <2>2. /\ Shard(r) \in Seq(1..Prompts) /\ Start[w - 1] \in Nat
        /\ Start[w] = Start[w - 1] + Len(Shard(r))
        /\ \A j \in 1..Len(Shard(r)) : Shard(r)[j] = Start[w - 1] + j
    BY ShardsFollow
  <2> HIDE DEF r
  <2>3. Sampled(r)
    BY <1>1, <2>1 DEF SampleInv
  <2>4. CASE parts[r] = <<>>
    <3>1. Shard(r) = <<>>
      BY <1>1, <2>1, <2>4
    <3>2. Len(Shard(r)) = 0 /\ Len(s[w]) = 0
      BY <2>1, <2>4, <3>1
    <3>3. 1..Len(s[w]) = {}
      BY <3>2
    <3>4. QED
      BY <2>2, <3>2, <3>3
  <2>5. CASE parts[r] # <<>>
    BY <2>1, <2>2, <2>3, <2>5 DEF Sampled
  <2>6. QED
    BY <2>4, <2>5
<1>5. Counts(s, n, Start) /\ Start[n] = Prompts
  BY <1>4, ShardsCover DEF Counts
<1> HIDE DEF s
<1>6. /\ rollout' \in Seq(Completions) /\ Len(rollout') = Prompts
      /\ InParts(s, n, Start, rollout')
  BY <1>1, <1>2, <1>3, <1>5, FlattenParts
<1>7. ASSUME NEW i \in 1..Prompts
      PROVE  /\ rollout'[i].prompt = i
             /\ rollout'[i].policy = Policy
             /\ plan.colocated => rollout'[i].prefix = Policy
  <2>1. PICK w \in 1..n : \E j \in 1..Len(s[w]) : i = Start[w - 1] + j /\ rollout'[i] = s[w][j]
    BY <1>5, <1>6 DEF InParts
  <2>2. QED
    BY <1>4, <2>1
<1>8. DOMAIN rollout' = 1..Prompts /\ Prompts \in Nat
  BY <1>6, GrpoAssumption DEF GrpoAssumption
<1>9. ~plan.adapter => Policy = iteration
  BY <1>1 DEF SampleInv, Sampling
<1>10. OnPolicy'
  <2>1. iteration' - step' = iteration
    <3>1. iteration \in Nat
      BY DEF IInv, Driven
    <3>2. QED
      BY <1>1, <3>1
  <2>2. [i \in DOMAIN rollout' |-> rollout'[i].prompt] = [i \in 1..Prompts |-> i]
    BY <1>7, <1>8
  <2>3. QED
    BY <1>1, <1>7, <1>8, <1>9, <2>1, <2>2 DEF OnPolicy
<1>11. GrpoTypes'
  <2>1. cached' \in [Replicas -> Versions \cup {None}] /\ place' \in {"gpu", "cpu"} /\ sleeping' \subseteq Tags
    BY DEF Collect, LeaveGeneration, PrefixReset, Slept, SampleInv, GrpoTypes
  <2>2. 0 \in 0..Spg
    BY GrpoAssumption DEF GrpoAssumption
  <2>3. QED
    BY <1>1, <1>6, <2>1, <2>2 DEF SampleInv, GrpoTypes
<1>12. QED
  BY <1>1, <1>10, <1>11 DEF SampleInv, Sampling

LEMMA GenerateRaisesSamples == ASSUME SampleInv, GenerateRaises PROVE SampleInv'
<1>1. /\ driver' = "raised"
      /\ UNCHANGED <<iteration, base_sync_done, merged, held, parts, rollout, step>>
  BY DEF GenerateRaises, LeaveGeneration
<1>2. cached' \in [Replicas -> Versions \cup {None}] /\ place' \in {"gpu", "cpu"} /\ sleeping' \subseteq Tags
  BY DEF GenerateRaises, LeaveGeneration, PrefixReset, Slept, SampleInv, GrpoTypes
<1>3. GrpoTypes'
  BY <1>1, <1>2 DEF SampleInv, GrpoTypes
<1>4. QED
  BY <1>1, <1>3 DEF SampleInv, Sampling, OnPolicy

\* The batch ages by the steps taken with it.
LEMMA TrainSamples == ASSUME IInv, SampleInv, TrainStep \/ NextBatch \/ Finish PROVE SampleInv'
<1>1. UNCHANGED <<plan, version, base_sync_done, sleeping, place, merged, held, cached, parts>>
  BY DEF TrainStep, NextBatch, Finish, transfer
<1>2. CASE TrainStep
  <2>1. /\ driver = "train" /\ driver' = driver /\ step < Spg /\ iteration < TrainIters
        /\ iteration' = iteration + 1 /\ step' = step + 1 /\ rollout' = rollout
    BY <1>2 DEF TrainStep
  <2>2. iteration \in Versions /\ step \in 0..Spg /\ Spg \in Nat /\ TrainIters \in Nat
    BY GrpoAssumption DEF GrpoAssumption, SampleInv, GrpoTypes
  <2>3. iteration' \in Versions /\ step' \in 0..Spg /\ iteration' - step' = iteration - step
    BY <2>1, <2>2 DEF Versions
  <2>4. GrpoTypes'
    BY <1>1, <2>1, <2>3 DEF SampleInv, GrpoTypes
  <2>5. OnPolicy'
    BY <1>1, <2>1, <2>3 DEF SampleInv, OnPolicy
  <2>6. QED
    BY <2>1, <2>4, <2>5 DEF SampleInv, Sampling
<1>3. CASE NextBatch \/ Finish
  <2>1. /\ driver' \in {"top", "ended"} /\ UNCHANGED <<iteration, step>>
        /\ rollout' \in {<<>>, rollout}
    BY <1>3 DEF NextBatch, Finish
  <2>2. rollout \in Seq(Completions) /\ <<>> \in Seq(Completions)
    BY DEF SampleInv, GrpoTypes
  <2>3. rollout' \in Seq(Completions)
    BY <2>1, <2>2
  <2>4. GrpoTypes'
    BY <1>1, <2>1, <2>3 DEF SampleInv, GrpoTypes
  <2>5. QED
    BY <2>1, <2>4 DEF SampleInv, Sampling, OnPolicy
<1>4. QED
  BY <1>2, <1>3

LEMMA SampleStep == IInv /\ SampleInv /\ [Next]_vars => SampleInv'
<1> SUFFICES ASSUME IInv, SampleInv, [Next]_vars PROVE SampleInv'
  OBVIOUS
<1>1. CASE UNCHANGED vars
  BY <1>1, SampleRests DEF vars, grpo, transfer
<1>2. CASE DriverNext
  BY <1>2, SyncSamples, EnterSamples, CollectSamples, GenerateRaisesSamples, TrainSamples DEF DriverNext
<1>3. CASE Transfers
  <2>1. UNCHANGED <<plan, version>>
    BY <1>3, NextKeeps DEF Transfers
  <2>2. QED
    BY <1>3, <2>1, SampleRests DEF Transfers, grpo
<1>4. CASE \E r \in Replicas : Generate(r)
  BY <1>4, GenerateSamples
<1>5. QED
  BY <1>1, <1>2, <1>3, <1>4 DEF Next

\* Every prompt of a batch is trained on with a completion of its own, in its place, for
\* any numbers of prompts and replicas; it was sampled by the policy the batch began
\* with, and colocated replicas have used no cached block of an older one.
THEOREM BatchesOnPolicy == Spec => []OnPolicy
<1>1. SampleInv => OnPolicy
  BY DEF SampleInv
<1>2. QED
  BY <1>1, InitStep, NextStep, SampleInit, SampleStep, PTL DEF Spec

-----------------------------------------------------------------------------
(* The bytes of the transfer.                                              *)

LEMMA BytesBegin == Init => BytesInv
BY InitBytes DEF Init, TransferInit

LEMMA BytesKept == IInv /\ BytesInv /\ [Next]_vars => BytesInv'
<1> SUFFICES ASSUME IInv, BytesInv, [Next]_vars PROVE BytesInv'
  OBVIOUS
<1>1. CASE SendWeights
  BY <1>1, StartBytes DEF IInv, Driven, SendWeights
<1>2. CASE WeightsArrived
  BY <1>2, BytesStay DEF WeightsArrived, EndTransfer
<1>3. CASE Transfers
  BY <1>3, BytesSteps DEF IInv, Transfers
<1>4. CASE UNCHANGED transfer
  BY <1>4, BytesStay DEF transfer
<1>5. UNCHANGED transfer \/ SendWeights \/ WeightsArrived \/ Transfers
  BY DEF Next, DriverNext, vars, SyncWeights, Restore, SyncRaises, EnterGeneration, Collect,
     GenerateRaises, LeaveGeneration, TrainStep, NextBatch, Finish, Generate
<1>6. QED
  BY <1>1, <1>2, <1>3, <1>4, <1>5

\* What the driver worker of a replica has copied is whole and of the version that is
\* sent, for any sizes of weights and buckets and any speeds of trainer, servers, streams
\* and workers: no bucket is written while something still has to be read from it.
THEOREM DriversTakeWhole == Spec => []DriverIntact
<1>1. TransferInv /\ BytesInv => DriverIntact
  BY DriverIsClean
<1>2. QED
  BY <1>1, InitStep, NextStep, BytesBegin, BytesKept, PTL DEF Spec, IInv

\* The transfer and the driver's loop keep to their types, for every value of the constants:
\* no copy leaves its buffer, and no weight that was not there is ever in one.
THEOREM TypesHold == Spec => []TypeOK
<1>1. IInv /\ SampleInv /\ BytesInv => TypeOK
  <2> SUFFICES ASSUME IInv, SampleInv, BytesInv PROVE TypeOK
    OBVIOUS
  <2>1. TransferTypeOK
    BY TransferIsTyped DEF IInv
  <2>2. \A r \in Replicas : parts[r] \in Seq(Completions)
    BY DEF SampleInv, GrpoTypes
  <2>3. QED
    BY <2>1, <2>2 DEF IInv, Driven, SampleInv, GrpoTypes, TypeOK
<1>2. QED
  BY <1>1, InitStep, NextStep, SampleInit, SampleStep, BytesBegin, BytesKept, PTL DEF Spec

-----------------------------------------------------------------------------
(* What follows.                                                           *)

\* Colocated replicas and the training model are never on the GPUs together,
\* replicas generate only when awake and the policy is trained unmerged, for
\* any number of replicas, steps and weights.
THEOREM ModelsStayInPlace == Spec => []ModelsInPlace
<1>1. IInv => ModelsInPlace
  <2> SUFFICES ASSUME IInv PROVE GpuShared /\ TrainsUnmerged
    BY DEF ModelsInPlace
  <2>1. GpuShared
    <3>1. TrainIters \in Nat /\ iteration \in Nat /\ "kv_cache" \in Tags
      BY GrpoAssumption DEF GrpoAssumption, IInv, Driven, Tags
    <3>2. /\ ~(TrainIters > 0 /\ TrainIters = 0) /\ ~(iteration > 0 /\ iteration = 0)
      BY <3>1
    <3>3. driver \in {"top", "sync", "transfer", "synced", "generation", "generate", "train", "raised", "ended"}
      BY DEF IInv, Driven
    <3>4. QED
      BY <3>1, <3>2, <3>3 DEF IInv, Awake, GpuShared
  <2>2. TrainsUnmerged
    BY DEF IInv, Driven, TrainsUnmerged
  <2>3. QED
    BY <2>1, <2>2
<1>2. QED
  BY <1>1, Invariance, PTL

\* Whatever the bucket sizes, the speeds of trainer, servers and workers and the
\* weights' sizes: every worker of every replica loads every weight once and in the
\* trainer's order, and a synchronisation is over only then.
THEOREM TransferImplements == Spec => TransferIsSync
<1>1. Init => Transfer!Init
  <2> SUFFICES ASSUME Init PROVE Transfer!Init
    OBVIOUS
  <2>1. /\ sync = "off" /\ version = 0
        /\ worker = [r \in Replicas |-> [k \in Ranks |-> WorkerOff]]
    BY DEF Init, TransferInit
  <2>2. WorkerOff.loaded = <<>>
    BY DEF WorkerOff
  <2>3. ASSUME NEW rk \in Replicas \X Ranks
        PROVE  Ids(worker[rk[1]][rk[2]].loaded) = <<>>
    BY <2>1, <2>2, IdsOfNothing
  <2>4. QED
    BY <2>1, <2>3 DEF Transfer!Init, Ids
<1>2. IInv /\ [Next]_vars => [Transfer!Next]_(Transfer!vars)
  <2> SUFFICES ASSUME IInv, [Next]_vars PROVE [Transfer!Next]_(Transfer!vars)
    OBVIOUS
  <2>1. CASE SendWeights
    <3>1. Transfer!Start
      BY <2>1, StartMaps DEF IInv, Driven, SendWeights
    <3>2. QED
      BY <3>1 DEF Transfer!Next
  <2>2. CASE WeightsArrived
    <3>1. Transfer!Finish
      BY <2>2, EndMaps DEF IInv, WeightsArrived
    <3>2. QED
      BY <3>1 DEF Transfer!Next
  <2>3. CASE Transfers
    BY <2>3, TransferNextMaps DEF IInv, Transfers
  <2>4. CASE UNCHANGED transfer
    BY <2>4, RestStutters DEF transfer
  <2>5. UNCHANGED transfer \/ SendWeights \/ WeightsArrived \/ Transfers
    BY DEF Next, DriverNext, vars, SyncWeights, Restore, SyncRaises, EnterGeneration, Collect,
       GenerateRaises, LeaveGeneration, TrainStep, NextBatch, Finish, Generate
  <2>6. QED
    BY <2>1, <2>2, <2>3, <2>4, <2>5
<1>3. QED
  BY <1>1, <1>2, InitStep, NextStep, PTL DEF Spec, TransferIsSync, Transfer!Spec
=============================================================================
