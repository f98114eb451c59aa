---------------------- MODULE TransformersEngineProofs ----------------------
(***************************************************************************)
(* Proofs about TransformersEngine, for any number of calls, configs and   *)
(* adapters and any batch size.                                            *)
(***************************************************************************)
EXTENDS TransformersEngine, CommonLemmas, TLAPS

-----------------------------------------------------------------------------
(* What the operators on sequences do to the set of elements.              *)

\* Putting a task on a queue adds it to its elements.
LEMMA MembersAppend ==
  ASSUME NEW S, NEW s \in Seq(S), NEW x \in S
  PROVE  Members(Append(s, x)) = Members(s) \cup {x}
<1>1. Members(Append(s, x)) \subseteq Members(s) \cup {x}
  BY DEF Members
<1>2. \A n \in DOMAIN s : n \in DOMAIN Append(s, x) /\ Append(s, x)[n] = s[n]
  OBVIOUS
<1>3. Len(s) + 1 \in DOMAIN Append(s, x) /\ Append(s, x)[Len(s) + 1] = x
  OBVIOUS
<1>4. QED
  BY <1>1, <1>2, <1>3 DEF Members

\* A queue is its head and the rest.
LEMMA MembersTail ==
  ASSUME NEW S, NEW s \in Seq(S), s # <<>>
  PROVE  /\ Head(s) \in S
         /\ Tail(s) \in Seq(S)
         /\ Members(s) = {Head(s)} \cup Members(Tail(s))
<1>1. Head(s) \in S /\ Tail(s) \in Seq(S)
  OBVIOUS
<1>2. 1 \in DOMAIN s /\ s[1] = Head(s)
  OBVIOUS
<1>3. \A n \in DOMAIN Tail(s) : n + 1 \in DOMAIN s /\ Tail(s)[n] = s[n + 1]
  OBVIOUS
<1>4. \A n \in DOMAIN s : n = 1 \/ (n - 1 \in DOMAIN Tail(s) /\ s[n] = Tail(s)[n - 1])
  OBVIOUS
<1>5. ASSUME NEW x \in Members(s)
      PROVE  x = Head(s) \/ x \in Members(Tail(s))
  <2>1. PICK n \in DOMAIN s : x = s[n]
    BY DEF Members
  <2>2. CASE n = 1
    BY <1>2, <2>1, <2>2
  <2>3. CASE n - 1 \in DOMAIN Tail(s) /\ s[n] = Tail(s)[n - 1]
    BY <2>1, <2>3, Zenon DEF Members
  <2>4. QED
    BY <1>4, <2>2, <2>3
<1>6. {Head(s)} \cup Members(Tail(s)) \subseteq Members(s)
  BY <1>2, <1>3 DEF Members
<1>7. QED
  BY <1>1, <1>5, <1>6

\* Reading an item off a reply queue and keeping it leaves their sum alone.
LEMMA LenMoves ==
  ASSUME NEW S, NEW s \in Seq(S), NEW t \in Seq(S), s # <<>>
  PROVE  Len(Tail(s)) + Len(Append(t, Head(s))) = Len(s) + Len(t)
<1>1. Head(s) \in S /\ Len(s) \in Nat \ {0} /\ Len(t) \in Nat
  OBVIOUS
<1>2. Len(Tail(s)) = Len(s) - 1
  OBVIOUS
<1>3. \A x \in S : Len(Append(t, x)) = Len(t) + 1
  OBVIOUS
<1>4. QED
  BY <1>1, <1>2, <1>3

\* A reply queue with one item on it.
LEMMA LenOne ==
  ASSUME NEW x
  PROVE  Len(Append(<<>>, x)) = 1 /\ Len(<<>>) = 0
OBVIOUS

\* Cutting a batch of n off a list loses nothing and adds nothing.
LEMMA MembersSplit ==
  ASSUME NEW S, NEW s \in Seq(S), NEW n \in 0..Len(s)
  PROVE  /\ SubSeq(s, 1, n) \in Seq(S)
         /\ SubSeq(s, n + 1, Len(s)) \in Seq(S)
         /\ Len(SubSeq(s, 1, n)) = n
         /\ Len(SubSeq(s, n + 1, Len(s))) = Len(s) - n
         /\ Members(s) = Members(SubSeq(s, 1, n)) \cup Members(SubSeq(s, n + 1, Len(s)))
<1> DEFINE a == SubSeq(s, 1, n)
           b == SubSeq(s, n + 1, Len(s))
<1>1. a \in Seq(S) /\ b \in Seq(S) /\ Len(a) = n /\ Len(b) = Len(s) - n
  OBVIOUS
<1>2. \A i \in DOMAIN a : i \in DOMAIN s /\ a[i] = s[i]
  OBVIOUS
<1>3. \A i \in DOMAIN b : i + n \in DOMAIN s /\ b[i] = s[i + n]
  OBVIOUS
<1>4. \A i \in DOMAIN s : i <= n => i \in DOMAIN a /\ s[i] = a[i]
  OBVIOUS
<1>5. \A i \in DOMAIN s : i > n => i - n \in DOMAIN b /\ s[i] = b[i - n]
  OBVIOUS
<1>6. \A i \in DOMAIN s : i <= n \/ i > n
  OBVIOUS
<1>7. Members(s) \subseteq Members(a) \cup Members(b)
  BY <1>4, <1>5, <1>6 DEF Members
<1>8. Members(a) \cup Members(b) \subseteq Members(s)
  BY <1>2, <1>3 DEF Members
<1>9. QED
  BY <1>1, <1>7, <1>8

\* The batch is a prefix of the list, not empty unless the list is, within the limit.
LEMMA BatchLenBounds ==
  ASSUME NEW S, NEW s \in Seq(S)
  PROVE  /\ BatchLen(s) \in 0..Len(s)
         /\ s # <<>> => BatchLen(s) > 0
         /\ MaxBatchSize > 0 => BatchLen(s) <= MaxBatchSize
  BY EngineAssumption DEF BatchLen, EngineAssumption

-----------------------------------------------------------------------------
(* Type correctness.                                                       *)

\* Another list of requests in an entry is an entry.
LEMMA EntryExcept ==
  ASSUME NEW e \in Entry, NEW d \in Seq(Requests)
  PROVE  /\ [e EXCEPT !.data = d] \in Entry
         /\ [e EXCEPT !.data = d].key = e.key
         /\ [e EXCEPT !.data = d].kwargs = e.kwargs
         /\ [e EXCEPT !.data = d].data = d
  BY DEF Entry

\* The first entry of a pool.
LEMMA FirstEntry ==
  ASSUME TypeOK, pool # <<>>
  PROVE  /\ 1 \in DOMAIN pool
         /\ pool[1] \in Entry
         /\ pool[1].data \in Seq(Requests)
         /\ pool[1].kwargs \in Kwargs
<1>1. pool \in Seq(Entry)
  BY DEF TypeOK
<1>2. 1 \in DOMAIN pool /\ pool[1] \in Entry
  BY <1>1
<1>3. QED
  BY <1>2 DEF Entry

\* AddTask returns a pool of entries.
LEMMA AddTaskType ==
  ASSUME TypeOK, NEW r \in Requests
  PROVE  AddTask(r) \in Seq(Entry)
<1>1. KeyOf(r) \in Configs /\ KwargsOf(r) \in Kwargs
  BY DEF TypeOK, KeyOf, KwargsOf, Kwargs
<1>2. CASE \E i \in DOMAIN pool : pool[i].key = KeyOf(r)
  <2> DEFINE joined(i) == [pool[i] EXCEPT !.data = Append(@, r)]
             new == [i \in DOMAIN pool |-> IF pool[i].key = KeyOf(r) THEN joined(i) ELSE pool[i]]
  <2>1. DOMAIN pool = 1..Len(pool) /\ Len(pool) \in Nat /\ \A i \in DOMAIN pool : pool[i] \in Entry
    BY DEF TypeOK
  <2>2. ASSUME NEW i \in DOMAIN pool PROVE joined(i) \in Entry
    <3>1. pool[i] \in Entry
      BY <2>1
    <3>2. Append(pool[i].data, r) \in Seq(Requests)
      BY <3>1 DEF Entry
    <3>3. QED
      BY <3>1, <3>2, EntryExcept
  <2>3. AddTask(r) = new
    BY <1>2, Zenon DEF AddTask
  <2> HIDE DEF joined
  <2>4. new \in [1..Len(pool) -> Entry]
    BY <2>1, <2>2
  <2> HIDE DEF new
  <2>5. new \in Seq(Entry)
    BY <2>1, <2>4
  <2>6. QED
    BY <2>3, <2>5
<1>3. CASE ~\E i \in DOMAIN pool : pool[i].key = KeyOf(r)
  <2>1. [key |-> KeyOf(r), kwargs |-> KwargsOf(r), data |-> <<r>>] \in Entry
    BY <1>1 DEF Entry
  <2>2. QED
    BY <1>3, <2>1 DEF AddTask, TypeOK
<1>4. QED
  BY <1>2, <1>3

\* Taking a batch leaves a pool of entries.
LEMMA RemainingType ==
  ASSUME TypeOK, pool # <<>>, NEW n \in 0..Len(pool[1].data)
  PROVE  Remaining(n) \in Seq(Entry)
<1>1. pool[1] \in Entry /\ pool[1].data \in Seq(Requests) /\ 1 \in DOMAIN pool
  BY FirstEntry
<1>2. SubSeq(pool[1].data, n + 1, Len(pool[1].data)) \in Seq(Requests)
  BY <1>1, MembersSplit
<1>3. [pool[1] EXCEPT !.data = SubSeq(@, n + 1, Len(@))] \in Entry
  BY <1>1, <1>2, EntryExcept
<1>4. [pool EXCEPT ![1].data = SubSeq(@, n + 1, Len(@))] \in Seq(Entry)
  BY <1>1, <1>3 DEF TypeOK
<1>5. Tail(pool) \in Seq(Entry)
  BY DEF TypeOK
<1>6. QED
  BY <1>4, <1>5 DEF Remaining

\* Posting an item to every member of the batch.
LEMMA PostType ==
  ASSUME TypeOK, kwargs \in Kwargs, NEW kind, Post(kind),
         \A r \in Members(batch) : kind[r] \in Kinds
  PROVE  inbox' \in [Requests -> Seq(Items)]
<1>1. \A r \in Members(batch) : [kind |-> kind[r], by |-> kwargs] \in Items
  BY DEF Items
<1>2. \A r \in Requests : inbox[r] \in Seq(Items)
  BY DEF TypeOK
<1>3. \A r \in Requests : r \in Members(batch) =>
        Append(inbox[r], [kind |-> kind[r], by |-> kwargs]) \in Seq(Items)
  BY <1>1, <1>2
<1>4. QED
  BY <1>2, <1>3 DEF Post

LEMMA TypeInit == Init => TypeOK
<1> SUFFICES ASSUME Init PROVE TypeOK
  OBVIOUS
<1>1. \A S : <<>> \in Seq(S)
  OBVIOUS
<1>2. QED
  BY <1>1 DEF Init, TypeOK

LEMMA TypeStep == TypeOK /\ [Next]_vars => TypeOK'
<1> SUFFICES ASSUME TypeOK, [Next]_vars PROVE TypeOK'
  OBVIOUS
<1>1. ASSUME NEW r \in Requests, Call(r) PROVE TypeOK'
  <2>1. Append(queue, r) \in Seq(Requests)
    BY DEF TypeOK
  <2>2. QED
    BY <1>1, <2>1 DEF TypeOK, Call, callVars, workerVars
<1>2. ASSUME NEW r \in Requests, Resume(r) PROVE TypeOK'
  BY <1>2 DEF TypeOK, Resume, callVars, workerVars
<1>3. ASSUME NEW r \in Requests, Receive(r) PROVE TypeOK'
  <2>1. inbox[r] \in Seq(Items) /\ inbox[r] # <<>> /\ got[r] \in Seq(Items)
    BY <1>3 DEF TypeOK, Receive
  <2>2. Head(inbox[r]) \in Items /\ Tail(inbox[r]) \in Seq(Items)
    BY <2>1, MembersTail
  <2>3. Append(got[r], Head(inbox[r])) \in Seq(Items)
    BY <2>1, <2>2
  <2>4. inbox' \in [Requests -> Seq(Items)]
    BY <1>3, <2>2 DEF Receive, TypeOK
  <2>5. got' \in [Requests -> Seq(Items)]
    BY <1>3, <2>1, <2>3 DEF Receive, TypeOK
  <2>6. caller' \in [Requests -> {"idle", "queued", "waiting", "done"}]
    BY <1>3 DEF Receive, TypeOK
  <2>7. QED
    BY <1>3, <2>4, <2>5, <2>6 DEF TypeOK, Receive, callVars, workerVars
<1>4. CASE Drain
  <2>1. Head(queue) \in Requests /\ Tail(queue) \in Seq(Requests)
    BY <1>4 DEF TypeOK, Drain
  <2>2. pool' \in Seq(Entry)
    BY <1>4, <2>1, AddTaskType DEF Drain
  <2>3. QED
    BY <1>4, <2>1, <2>2 DEF TypeOK, Drain, callVars, workerVars
<1>5. CASE Take
  <2>1. pool[1] \in Entry /\ pool[1].data \in Seq(Requests) /\ pool[1].kwargs \in Kwargs
    BY <1>5, FirstEntry DEF Take
  <2>2. BatchLen(pool[1].data) \in 0..Len(pool[1].data)
    BY <2>1, BatchLenBounds
  <2>3. pool' \in Seq(Entry)
    BY <1>5, <2>2, RemainingType DEF Take
  <2>4. batch' \in Seq(Requests)
    BY <1>5, <2>1, <2>2, MembersSplit DEF Take
  <2>5. kwargs' \in Kwargs /\ kwargs' # NoKwargs
    BY <1>5, <2>1, EngineAssumption DEF Take, Kwargs, EngineAssumption
  <2>6. QED
    BY <1>5, <2>3, <2>4, <2>5 DEF TypeOK, Take, callVars, workerVars
<1>6. CASE EncodeRaises
  BY <1>6 DEF TypeOK, EncodeRaises, callVars, workerVars
<1>7. CASE GenerateRaises
  BY <1>7 DEF TypeOK, GenerateRaises, callVars, workerVars
<1>8. CASE AnswerFull
  <2>1. kwargs \in Kwargs
    BY <1>8 DEF AnswerFull, TypeOK
  <2>2. inbox' \in [Requests -> Seq(Items)]
    BY <1>8, <2>1, PostType DEF AnswerFull, Kinds
  <2>3. QED
    BY <1>8, <2>2 DEF TypeOK, AnswerFull, EndBatch, callVars, workerVars
<1>9. CASE StartStream
  BY <1>9 DEF TypeOK, StartStream, callVars, workerVars
<1>10. CASE StreamChunk
  <2>1. kwargs \in Kwargs
    BY <1>10 DEF StreamChunk, TypeOK
  <2>2. PICK D \in SUBSET Good : Post([r \in Members(batch) |->
                  IF r \in D THEN "delta" ELSE IF r \in Good THEN "none" ELSE "error"])
    BY <1>10 DEF StreamChunk
  <2>3. inbox' \in [Requests -> Seq(Items)]
    BY <2>1, <2>2, PostType DEF Kinds
  <2>4. QED
    BY <1>10, <2>3 DEF TypeOK, StreamChunk, callVars, workerVars
<1>11. CASE StreamLast
  <2>1. kwargs \in Kwargs
    BY <1>11 DEF StreamLast, TypeOK
  <2>2. inbox' \in [Requests -> Seq(Items)]
    BY <1>11, <2>1, PostType DEF StreamLast, Kinds
  <2>3. QED
    BY <1>11, <2>2 DEF TypeOK, StreamLast, callVars, workerVars
<1>12. CASE StreamStop
  <2>1. kwargs \in Kwargs
    BY <1>12 DEF StreamStop, TypeOK
  <2>2. inbox' \in [Requests -> Seq(Items)]
    BY <1>12, <2>1, PostType DEF StreamStop, Kinds
  <2>3. QED
    BY <1>12, <2>2 DEF TypeOK, StreamStop, EndBatch, callVars, workerVars
<1>13. CASE UNCHANGED vars
  BY <1>13 DEF TypeOK, vars
<1>14. QED
  BY <1>1, <1>2, <1>3, <1>4, <1>5, <1>6, <1>7, <1>8, <1>9, <1>10, <1>11, <1>12, <1>13
     DEF Next, CallerStep, WorkerStep

\* Every variable of the engine keeps its type, and the worker holds the kwargs of
\* a batch exactly while it runs one.
THEOREM TypeCorrect == Spec => []TypeOK
<1>1. QED
  BY TypeInit, TypeStep, PTL DEF Spec

-----------------------------------------------------------------------------
(* What AddTask and Remaining do to the pool, entry by entry.              *)

HasKey(r) == \E i \in DOMAIN pool : pool[i].key = KeyOf(r)

\* A request whose key is in the pool is put behind those of its entry.
LEMMA JoinTask ==
  ASSUME TypeOK, NEW r \in Requests, HasKey(r)
  PROVE  /\ DOMAIN AddTask(r) = DOMAIN pool
         /\ \A i \in DOMAIN pool :
              /\ AddTask(r)[i].key = pool[i].key
              /\ AddTask(r)[i].kwargs = pool[i].kwargs
              /\ AddTask(r)[i].data =
                   IF pool[i].key = KeyOf(r) THEN Append(pool[i].data, r) ELSE pool[i].data
<1> DEFINE joined(i) == [pool[i] EXCEPT !.data = Append(@, r)]
           new == [i \in DOMAIN pool |-> IF pool[i].key = KeyOf(r) THEN joined(i) ELSE pool[i]]
<1>1. ASSUME NEW i \in DOMAIN pool
      PROVE  /\ joined(i).key = pool[i].key
             /\ joined(i).kwargs = pool[i].kwargs
             /\ joined(i).data = Append(pool[i].data, r)
  <2>1. pool[i] \in Entry
    BY DEF TypeOK
  <2>2. Append(pool[i].data, r) \in Seq(Requests)
    BY <2>1 DEF Entry
  <2>3. QED
    BY <2>1, <2>2, EntryExcept
<1>2. AddTask(r) = new
  BY Zenon DEF AddTask, HasKey
<1> HIDE DEF joined
<1>3. QED
  BY <1>1, <1>2

\* A request whose key is not there is a new last entry, with its kwargs.
LEMMA NewTask ==
  ASSUME TypeOK, NEW r \in Requests, ~HasKey(r)
  PROVE  /\ DOMAIN AddTask(r) = 1..(Len(pool) + 1)
         /\ \A i \in DOMAIN pool : AddTask(r)[i] = pool[i]
         /\ AddTask(r)[Len(pool) + 1] = [key |-> KeyOf(r), kwargs |-> KwargsOf(r), data |-> <<r>>]
<1> DEFINE e == [key |-> KeyOf(r), kwargs |-> KwargsOf(r), data |-> <<r>>]
<1>1. AddTask(r) = Append(pool, e)
  BY Zenon DEF AddTask, HasKey
<1>2. pool \in Seq(Entry) /\ e \in Entry
  BY DEF TypeOK, Entry, KeyOf, KwargsOf, Kwargs
<1> HIDE DEF e
<1>3. /\ DOMAIN Append(pool, e) = 1..(Len(pool) + 1)
      /\ \A i \in DOMAIN pool : Append(pool, e)[i] = pool[i]
      /\ Append(pool, e)[Len(pool) + 1] = e
  BY <1>2
<1>4. QED
  BY <1>1, <1>3 DEF e

\* A batch shorter than the first entry's list leaves the entry its rest.
LEMMA KeepFirst ==
  ASSUME TypeOK, pool # <<>>, NEW n \in 0..Len(pool[1].data), n < Len(pool[1].data)
  PROVE  /\ DOMAIN Remaining(n) = DOMAIN pool
         /\ Remaining(n)[1].key = pool[1].key
         /\ Remaining(n)[1].kwargs = pool[1].kwargs
         /\ Remaining(n)[1].data = SubSeq(pool[1].data, n + 1, Len(pool[1].data))
         /\ \A i \in DOMAIN pool : i # 1 => Remaining(n)[i] = pool[i]
<1> DEFINE d == SubSeq(pool[1].data, n + 1, Len(pool[1].data))
           e == [pool[1] EXCEPT !.data = d]
<1>1. 1 \in DOMAIN pool /\ pool[1] \in Entry /\ d \in Seq(Requests)
  BY FirstEntry, MembersSplit
<1>2. e.key = pool[1].key /\ e.kwargs = pool[1].kwargs /\ e.data = d
  BY <1>1, EntryExcept
<1>3. Remaining(n) = [pool EXCEPT ![1] = e]
  BY Zenon DEF Remaining
<1> HIDE DEF e
<1>4. /\ DOMAIN Remaining(n) = DOMAIN pool
      /\ Remaining(n)[1] = e
      /\ \A i \in DOMAIN pool : i # 1 => Remaining(n)[i] = pool[i]
  BY <1>1, <1>3
<1>5. QED
  BY <1>2, <1>4

\* A batch that takes the whole list removes the entry.
LEMMA DropFirst ==
  ASSUME TypeOK, pool # <<>>, NEW n \in 0..Len(pool[1].data), ~(n < Len(pool[1].data))
  PROVE  /\ \A i \in DOMAIN Remaining(n) : i + 1 \in DOMAIN pool /\ Remaining(n)[i] = pool[i + 1]
         /\ \A i \in DOMAIN pool : i # 1 => i - 1 \in DOMAIN Remaining(n) /\ Remaining(n)[i - 1] = pool[i]
<1>1. pool \in Seq(Entry) /\ Remaining(n) = Tail(pool)
  BY DEF TypeOK, Remaining
<1>2. QED
  BY <1>1

-----------------------------------------------------------------------------
(* Every answer is generated with the request config of its call.          *)

\* An entry runs its list with the config of each request in it.
PoolOwn ==
  \A i \in DOMAIN pool :
    /\ pool[i].kwargs.cfg = pool[i].key
    /\ \A r \in Members(pool[i].data) : call[r].cfg = pool[i].key

\* So does the worker its batch.
BatchOwn ==
  kwargs # NoKwargs => \A r \in Members(batch) : call[r].cfg = kwargs.cfg

\* What was sent to a call, received or not.
Sent(r) == Members(inbox[r]) \cup Members(got[r])

\* What OwnConfig says of one item.
OwnItem(r, item) ==
  /\ item.by.cfg = call[r].cfg
  /\ item.kind = "error" => ~call[r].ok
  /\ item.kind \in {"full", "delta", "last"} => call[r].ok

ConfigInv == PoolOwn /\ BatchOwn /\ \A r \in Requests : \A item \in Sent(r) : OwnItem(r, item)

LEMMA ConfigInit == Init => ConfigInv
<1> SUFFICES ASSUME Init PROVE ConfigInv
  OBVIOUS
<1>1. Members(<<>>) = {}
  BY DEF Members
<1>2. \A r \in Requests : Sent(r) = {}
  BY <1>1 DEF Init, Sent
<1>3. PoolOwn /\ BatchOwn
  BY DEF Init, PoolOwn, BatchOwn
<1>4. QED
  BY <1>2, <1>3 DEF ConfigInv

\* What a post adds to what a call was sent.
LEMMA PostSends ==
  ASSUME TypeOK, NEW kind, Post(kind), got' = got, kwargs \in Kwargs,
         \A r \in Members(batch) : kind[r] \in Kinds
  PROVE  \A r \in Requests :
           Sent(r)' = IF r \in Members(batch)
                        THEN Sent(r) \cup {[kind |-> kind[r], by |-> kwargs]} ELSE Sent(r)
<1> SUFFICES ASSUME NEW r \in Requests
             PROVE  Sent(r)' = IF r \in Members(batch)
                        THEN Sent(r) \cup {[kind |-> kind[r], by |-> kwargs]} ELSE Sent(r)
  OBVIOUS
<1>1. CASE r \in Members(batch)
  <2> DEFINE item == [kind |-> kind[r], by |-> kwargs]
  <2>1. inbox'[r] = Append(inbox[r], item)
    BY <1>1 DEF Post
  <2>2. item \in Items
    BY <1>1 DEF Items
  <2>3. inbox[r] \in Seq(Items)
    BY DEF TypeOK
  <2> HIDE DEF item
  <2>4. Members(inbox'[r]) = Members(inbox[r]) \cup {item}
    BY <2>1, <2>2, <2>3, MembersAppend
  <2>5. QED
    BY <1>1, <2>4 DEF Sent, item
<1>2. CASE r \notin Members(batch)
  <2>1. inbox'[r] = inbox[r]
    BY <1>2 DEF Post
  <2>2. QED
    BY <1>2, <2>1 DEF Sent
<1>3. QED
  BY <1>1, <1>2

\* Receiving adds nothing to what any call was sent.
LEMMA ReceiveSends ==
  ASSUME TypeOK, NEW q \in Requests, Receive(q)
  PROVE  \A r \in Requests : Sent(r)' \subseteq Sent(r)
<1> SUFFICES ASSUME NEW r \in Requests PROVE Sent(r)' \subseteq Sent(r)
  OBVIOUS
<1>1. CASE r = q
  <2>1. inbox[q] \in Seq(Items) /\ inbox[q] # <<>> /\ got[q] \in Seq(Items)
    BY DEF TypeOK, Receive
  <2>2. /\ Head(inbox[q]) \in Items
        /\ Members(inbox[q]) = {Head(inbox[q])} \cup Members(Tail(inbox[q]))
    BY <2>1, MembersTail
  <2>3. Members(Append(got[q], Head(inbox[q]))) = Members(got[q]) \cup {Head(inbox[q])}
    BY <2>1, <2>2, MembersAppend
  <2>4. inbox'[q] = Tail(inbox[q])
    BY DEF Receive, TypeOK
  <2>5. got'[q] \in {got[q], Append(got[q], Head(inbox[q]))}
    BY DEF Receive, TypeOK
  <2>6. QED
    BY <1>1, <2>2, <2>3, <2>4, <2>5 DEF Sent
<1>2. CASE r # q
  <2>1. inbox'[r] = inbox[r] /\ got'[r] = got[r]
    BY <1>2 DEF Receive, TypeOK
  <2>2. QED
    BY <2>1 DEF Sent
<1>3. QED
  BY <1>1, <1>2

\* A post whose kinds follow Good sends every member an item of its own.
LEMMA PostOwn ==
  ASSUME TypeOK, ConfigInv, NEW kind, Post(kind), got' = got, call' = call, kwargs \in Kwargs,
         \A r \in Members(batch) :
           /\ kind[r] \in Kinds
           /\ kind[r] = "error" => r \notin Good
           /\ kind[r] \in {"full", "delta", "last"} => r \in Good
  PROVE  \A r \in Requests : \A item \in Sent(r)' : OwnItem(r, item)'
<1> SUFFICES ASSUME NEW r \in Requests, NEW item \in Sent(r)' PROVE OwnItem(r, item)'
  OBVIOUS
<1>1. Sent(r)' = IF r \in Members(batch)
                   THEN Sent(r) \cup {[kind |-> kind[r], by |-> kwargs]} ELSE Sent(r)
  BY PostSends
<1>2. CASE item \in Sent(r)
  BY <1>2 DEF ConfigInv, OwnItem
<1>3. CASE item \notin Sent(r)
  <2>1. r \in Members(batch) /\ item = [kind |-> kind[r], by |-> kwargs]
    BY <1>1, <1>3
  <2>2. kwargs.cfg = call[r].cfg
    BY <2>1, EngineAssumption DEF ConfigInv, BatchOwn, EngineAssumption, Kwargs
  <2>3. r \in Good <=> call[r].ok
    BY <2>1 DEF Good
  <2>4. QED
    BY <2>1, <2>2, <2>3 DEF OwnItem
<1>4. QED
  BY <1>2, <1>3

\* Sharing a key is sharing a config: the entry a request joins has its config.
LEMMA DrainOwn ==
  ASSUME TypeOK, PoolOwn, Drain
  PROVE  PoolOwn'
<1> DEFINE r == Head(queue)
<1>1. r \in Requests /\ pool' = AddTask(r) /\ call' = call
  BY DEF TypeOK, Drain, callVars
<1> HIDE DEF r
<1>2. SUFFICES ASSUME NEW i \in DOMAIN pool'
               PROVE  /\ pool'[i].kwargs.cfg = pool'[i].key
                      /\ \A q \in Members(pool'[i].data) : call[q].cfg = pool'[i].key
  BY <1>1 DEF PoolOwn
<1>3. CASE HasKey(r)
  <2>1. /\ i \in DOMAIN pool
        /\ pool'[i].key = pool[i].key
        /\ pool'[i].kwargs = pool[i].kwargs
        /\ pool'[i].data = IF pool[i].key = KeyOf(r) THEN Append(pool[i].data, r) ELSE pool[i].data
    BY <1>1, <1>2, <1>3, JoinTask
  <2>2. pool[i].data \in Seq(Requests)
    <3>1. pool[i] \in Entry
      BY <2>1 DEF TypeOK
    <3>2. QED
      BY <3>1 DEF Entry
  <2>3. Members(Append(pool[i].data, r)) = Members(pool[i].data) \cup {r}
    BY <1>1, <2>2, MembersAppend
  <2>4. QED
    BY <2>1, <2>3 DEF PoolOwn, KeyOf
<1>4. CASE ~HasKey(r)
  <2>1. /\ DOMAIN pool' = 1..(Len(pool) + 1)
        /\ \A j \in DOMAIN pool : pool'[j] = pool[j]
        /\ pool'[Len(pool) + 1] = [key |-> KeyOf(r), kwargs |-> KwargsOf(r), data |-> <<r>>]
    BY <1>1, <1>4, NewTask
  <2>2. CASE i \in DOMAIN pool
    BY <2>1, <2>2 DEF PoolOwn
  <2>3. CASE i = Len(pool) + 1
    <3>1. Members(<<r>>) = {r}
      BY DEF Members
    <3>2. QED
      BY <2>1, <2>3, <3>1 DEF KeyOf, KwargsOf
  <2>4. i \in DOMAIN pool \/ i = Len(pool) + 1
    BY <1>2, <2>1 DEF TypeOK
  <2>5. QED
    BY <2>2, <2>3, <2>4
<1>5. QED
  BY <1>3, <1>4

\* A batch and what is left of its entry are parts of the entry's list.
LEMMA TakeOwn ==
  ASSUME TypeOK, PoolOwn, Take
  PROVE  PoolOwn' /\ BatchOwn'
<1> DEFINE data == pool[1].data
           n    == BatchLen(data)
<1>1. pool # <<>> /\ call' = call /\ kwargs' = pool[1].kwargs
      /\ batch' = SubSeq(data, 1, n) /\ pool' = Remaining(n)
  BY DEF Take, callVars
<1>2. 1 \in DOMAIN pool /\ data \in Seq(Requests)
  BY <1>1, FirstEntry
<1>3. n \in 0..Len(data)
  BY <1>2, BatchLenBounds
<1>4. Members(data) = Members(SubSeq(data, 1, n)) \cup Members(SubSeq(data, n + 1, Len(data)))
  BY <1>2, <1>3, MembersSplit
<1>5. BatchOwn'
  BY <1>1, <1>2, <1>4 DEF BatchOwn, PoolOwn
<1> HIDE DEF n
<1>6. PoolOwn'
  <2>1. CASE n < Len(data)
    <3>1. /\ DOMAIN pool' = DOMAIN pool
          /\ pool'[1].key = pool[1].key
          /\ pool'[1].kwargs = pool[1].kwargs
          /\ pool'[1].data = SubSeq(data, n + 1, Len(data))
          /\ \A i \in DOMAIN pool : i # 1 => pool'[i] = pool[i]
      BY <1>1, <1>3, <2>1, KeepFirst
    <3>2. Members(pool'[1].data) \subseteq Members(data)
      BY <1>4, <3>1
    <3> SUFFICES ASSUME NEW i \in DOMAIN pool
                 PROVE  /\ pool'[i].kwargs.cfg = pool'[i].key
                        /\ \A r \in Members(pool'[i].data) : call[r].cfg = pool'[i].key
      BY <1>1, <3>1 DEF PoolOwn
    <3>3. CASE i = 1
      BY <1>2, <3>1, <3>2, <3>3 DEF PoolOwn
    <3>4. CASE i # 1
      BY <3>1, <3>4 DEF PoolOwn
    <3>5. QED
      BY <3>3, <3>4
  <2>2. CASE ~(n < Len(data))
    BY <1>1, <1>3, <2>2, DropFirst DEF PoolOwn
  <2>3. QED
    BY <2>1, <2>2
<1>7. QED
  BY <1>5, <1>6

LEMMA ConfigStep == TypeOK /\ ConfigInv /\ [Next]_vars => ConfigInv'
<1> SUFFICES ASSUME TypeOK, ConfigInv, [Next]_vars PROVE ConfigInv'
  OBVIOUS
<1> USE DEF callVars, workerVars
<1>1. call' = call
  BY DEF Next, CallerStep, WorkerStep, Call, Resume, Receive, Drain, Take, EncodeRaises, GenerateRaises,
         AnswerFull, StartStream, StreamChunk, StreamLast, StreamStop, vars
<1>2. ASSUME UNCHANGED <<pool, batch, kwargs, inbox, got>> PROVE ConfigInv'
  BY <1>1, <1>2 DEF ConfigInv, PoolOwn, BatchOwn, Sent, OwnItem
<1>3. ASSUME NEW r \in Requests, Receive(r) PROVE ConfigInv'
  <2>1. \A q \in Requests : Sent(q)' \subseteq Sent(q)
    BY <1>3, ReceiveSends
  <2>2. UNCHANGED <<pool, batch, kwargs>>
    BY <1>3 DEF Receive
  <2>3. PoolOwn' /\ BatchOwn'
    BY <1>1, <2>2 DEF ConfigInv, PoolOwn, BatchOwn
  <2>4. QED
    BY <1>1, <2>1, <2>3 DEF ConfigInv, OwnItem
<1>4. CASE Drain
  <2>1. UNCHANGED <<batch, kwargs, inbox, got>>
    BY <1>4 DEF Drain
  <2>2. PoolOwn'
    BY <1>4, DrainOwn DEF ConfigInv
  <2>3. QED
    BY <1>1, <2>1, <2>2 DEF ConfigInv, BatchOwn, Sent, OwnItem
<1>5. CASE Take
  <2>1. UNCHANGED <<inbox, got>>
    BY <1>5 DEF Take
  <2>2. PoolOwn' /\ BatchOwn'
    BY <1>5, TakeOwn DEF ConfigInv
  <2>3. QED
    BY <1>1, <2>1, <2>2 DEF ConfigInv, Sent, OwnItem
<1>6. ASSUME NEW kind, Post(kind), worker \notin {"none", "fetch"},
             UNCHANGED <<pool, got>>, UNCHANGED <<batch, kwargs>> \/ kwargs' = NoKwargs,
             \A r \in Members(batch) :
               /\ kind[r] \in Kinds
               /\ kind[r] = "error" => r \notin Good
               /\ kind[r] \in {"full", "delta", "last"} => r \in Good
      PROVE  ConfigInv'
  <2>1. kwargs \in Kwargs
    BY <1>6 DEF TypeOK
  <2>2. \A r \in Requests : \A item \in Sent(r)' : OwnItem(r, item)'
    BY <1>1, <1>6, <2>1, PostOwn
  <2>3. PoolOwn' /\ BatchOwn'
    BY <1>1, <1>6 DEF ConfigInv, PoolOwn, BatchOwn
  <2>4. QED
    BY <2>2, <2>3 DEF ConfigInv
<1>7. CASE AnswerFull
  <2> DEFINE kind == [r \in Members(batch) |-> IF r \in Good THEN "full" ELSE "error"]
  <2>1. Post(kind) /\ UNCHANGED <<pool, got>> /\ worker \notin {"none", "fetch"} /\ kwargs' = NoKwargs
    BY <1>7 DEF AnswerFull, EndBatch
  <2>2. \A r \in Members(batch) : kind[r] \in Kinds /\ (kind[r] = "error" => r \notin Good)
          /\ (kind[r] \in {"full", "delta", "last"} => r \in Good)
    BY DEF Kinds
  <2> HIDE DEF kind
  <2>3. QED
    BY <1>6, <2>1, <2>2
<1>8. CASE StreamChunk
  <2>1. PICK D \in SUBSET Good : Post([r \in Members(batch) |->
                  IF r \in D THEN "delta" ELSE IF r \in Good THEN "none" ELSE "error"])
    BY <1>8 DEF StreamChunk
  <2> DEFINE kind == [r \in Members(batch) |->
                  IF r \in D THEN "delta" ELSE IF r \in Good THEN "none" ELSE "error"]
  <2>2. Post(kind) /\ UNCHANGED <<pool, got, batch, kwargs>> /\ worker \notin {"none", "fetch"}
    BY <1>8, <2>1 DEF StreamChunk
  <2>3. \A r \in Members(batch) : kind[r] \in Kinds /\ (kind[r] = "error" => r \notin Good)
          /\ (kind[r] \in {"full", "delta", "last"} => r \in Good)
    BY DEF Kinds
  <2> HIDE DEF kind
  <2>4. QED
    BY <1>6, <2>2, <2>3
<1>9. CASE StreamLast
  <2> DEFINE kind == [r \in Members(batch) |-> IF r \in Good THEN "last" ELSE "error"]
  <2>1. Post(kind) /\ UNCHANGED <<pool, got, batch, kwargs>> /\ worker \notin {"none", "fetch"}
    BY <1>9 DEF StreamLast
  <2>2. \A r \in Members(batch) : kind[r] \in Kinds /\ (kind[r] = "error" => r \notin Good)
          /\ (kind[r] \in {"full", "delta", "last"} => r \in Good)
    BY DEF Kinds
  <2> HIDE DEF kind
  <2>3. QED
    BY <1>6, <2>1, <2>2
<1>10. CASE StreamStop
  <2> DEFINE kind == [r \in Members(batch) |-> "none"]
  <2>1. Post(kind) /\ UNCHANGED <<pool, got>> /\ worker \notin {"none", "fetch"} /\ kwargs' = NoKwargs
    BY <1>10 DEF StreamStop, EndBatch
  <2>2. \A r \in Members(batch) : kind[r] \in Kinds /\ (kind[r] = "error" => r \notin Good)
          /\ (kind[r] \in {"full", "delta", "last"} => r \in Good)
    BY DEF Kinds
  <2> HIDE DEF kind
  <2>3. QED
    BY <1>6, <2>1, <2>2
<1>11. ASSUME NEW r \in Requests, Call(r) \/ Resume(r) PROVE ConfigInv'
  BY <1>2, <1>11 DEF Call, Resume
<1>12. CASE EncodeRaises \/ GenerateRaises \/ StartStream \/ UNCHANGED vars
  BY <1>2, <1>12 DEF EncodeRaises, GenerateRaises, StartStream, vars
<1>13. QED
  BY <1>3, <1>4, <1>5, <1>7, <1>8, <1>9, <1>10, <1>11, <1>12 DEF Next, CallerStep, WorkerStep

\* Whatever a call is sent was generated with its own request config, and the
\* calls that do not encode, and no other, are sent the exception object: the pool
\* may batch calls as it likes, it never mixes two configs.
THEOREM AnswersKeepConfig == Spec => []OwnConfig
<1>1. ConfigInv => OwnConfig
  BY DEF ConfigInv, OwnConfig, Sent, OwnItem
<1>2. QED
  BY <1>1, TypeInit, TypeStep, ConfigInit, ConfigStep, PTL DEF Spec

-----------------------------------------------------------------------------
(* The shape of the pool and of a batch.                                   *)

LEMMA FitsInit == Init => BatchFits
<1>1. MaxBatchSize > 0 => Len(<<>>) <= MaxBatchSize
  BY EngineAssumption DEF EngineAssumption
<1>2. QED
  BY <1>1 DEF Init, BatchFits

\* A request joins the one entry of its key, or makes it.
LEMMA DrainFits ==
  ASSUME TypeOK, BatchFits, Drain
  PROVE  /\ \A i, j \in DOMAIN pool' : pool'[i].key = pool'[j].key => i = j
         /\ \A i \in DOMAIN pool' : pool'[i].data # <<>>
<1> DEFINE r == Head(queue)
<1>1. r \in Requests /\ pool' = AddTask(r)
  BY DEF TypeOK, Drain
<1> HIDE DEF r
<1>2. CASE HasKey(r)
  <2>1. /\ DOMAIN pool' = DOMAIN pool
        /\ \A i \in DOMAIN pool : pool'[i].key = pool[i].key
    BY <1>1, <1>2, JoinTask
  <2>2. ASSUME NEW i \in DOMAIN pool PROVE pool'[i].data # <<>>
    <3>1. pool[i] \in Entry
      BY DEF TypeOK
    <3>2. pool[i].data \in Seq(Requests) /\ pool[i].data # <<>>
      BY <3>1 DEF Entry, BatchFits
    <3>3. Append(pool[i].data, r) # <<>>
      BY <1>1, <3>2
    <3>4. pool'[i].data \in {pool[i].data, Append(pool[i].data, r)}
      BY <1>1, <1>2, JoinTask
    <3>5. QED
      BY <3>2, <3>3, <3>4
  <2>3. QED
    BY <2>1, <2>2 DEF BatchFits
<1>3. CASE ~HasKey(r)
  <2> DEFINE e == [key |-> KeyOf(r), kwargs |-> KwargsOf(r), data |-> <<r>>]
             last == Len(pool) + 1
  <2>1. /\ DOMAIN pool' = 1..last
        /\ \A j \in DOMAIN pool : pool'[j] = pool[j]
        /\ pool'[last] = e
    BY <1>1, <1>3, NewTask
  <2>2. e.key = KeyOf(r) /\ e.data # <<>>
    OBVIOUS
  <2> HIDE DEF e
  <2>3. \A i \in DOMAIN pool' : i \in DOMAIN pool \/ i = last
    <3>1. DOMAIN pool = 1..Len(pool) /\ Len(pool) \in Nat
      BY DEF TypeOK
    <3>2. QED
      BY <2>1, <3>1
  <2> HIDE DEF last
  <2>4. \A i \in DOMAIN pool : pool'[i].key # pool'[last].key
    BY <1>3, <2>1, <2>2 DEF HasKey
  <2>5. \A i \in DOMAIN pool : pool'[i].data # <<>>
    BY <2>1 DEF BatchFits
  <2>6. \A i, j \in DOMAIN pool : pool'[i].key = pool'[j].key => i = j
    BY <2>1 DEF BatchFits
  <2>7. QED
    BY <2>1, <2>2, <2>3, <2>4, <2>5, <2>6
<1>4. QED
  BY <1>2, <1>3

\* A batch is within the limit and leaves an entry only if something is left.
LEMMA TakeFits ==
  ASSUME TypeOK, BatchFits, Take
  PROVE  BatchFits'
<1> DEFINE data == pool[1].data
           n    == BatchLen(data)
<1>1. pool # <<>> /\ batch' = SubSeq(data, 1, n) /\ pool' = Remaining(n)
  BY DEF Take
<1>2. 1 \in DOMAIN pool /\ data \in Seq(Requests)
  BY <1>1, FirstEntry
<1>3. n \in 0..Len(data) /\ (MaxBatchSize > 0 => n <= MaxBatchSize)
  BY <1>2, BatchLenBounds
<1>4. Len(SubSeq(data, 1, n)) = n /\ Len(SubSeq(data, n + 1, Len(data))) = Len(data) - n
  BY <1>2, <1>3, MembersSplit
<1>5. MaxBatchSize > 0 => Len(batch') <= MaxBatchSize
  BY <1>1, <1>3, <1>4
<1> HIDE DEF n
<1>6. CASE n < Len(data)
  <2>1. /\ DOMAIN pool' = DOMAIN pool
        /\ pool'[1].key = pool[1].key
        /\ pool'[1].data = SubSeq(data, n + 1, Len(data))
        /\ \A i \in DOMAIN pool : i # 1 => pool'[i] = pool[i]
    BY <1>1, <1>3, <1>6, KeepFirst
  <2>2. \A i \in DOMAIN pool : pool'[i].key = pool[i].key
    BY <2>1
  <2>3. pool'[1].data # <<>>
    <3>1. Len(data) \in Nat /\ Len(data) - n # 0
      BY <1>2, <1>3, <1>6
    <3>2. Len(pool'[1].data) # 0
      BY <1>4, <2>1, <3>1
    <3>3. QED
      BY <3>2
  <2>4. QED
    BY <1>5, <2>1, <2>2, <2>3 DEF BatchFits
<1>7. CASE ~(n < Len(data))
  <2>1. \A i \in DOMAIN pool' : i + 1 \in DOMAIN pool /\ pool'[i] = pool[i + 1]
    BY <1>1, <1>3, <1>7, DropFirst
  <2>2. DOMAIN pool' \subseteq Int
    BY <1>1, <1>3, RemainingType
  <2>3. \A i, j \in DOMAIN pool' : pool'[i].key = pool'[j].key => i = j
    <3> SUFFICES ASSUME NEW i \in DOMAIN pool', NEW j \in DOMAIN pool', pool'[i].key = pool'[j].key
                 PROVE  i = j
      OBVIOUS
    <3>1. pool[i + 1].key = pool[j + 1].key /\ i + 1 \in DOMAIN pool /\ j + 1 \in DOMAIN pool
      BY <2>1
    <3>2. i + 1 = j + 1
      BY <3>1 DEF BatchFits
    <3>3. QED
      BY <2>2, <3>2
  <2>4. QED
    BY <1>5, <2>1, <2>3 DEF BatchFits
<1>8. QED
  BY <1>6, <1>7

LEMMA FitsStep == TypeOK /\ BatchFits /\ [Next]_vars => BatchFits'
<1> SUFFICES ASSUME TypeOK, BatchFits, [Next]_vars PROVE BatchFits'
  OBVIOUS
<1> USE DEF callVars, workerVars
<1>1. CASE Drain
  <2>1. batch' = batch
    BY <1>1 DEF Drain
  <2>2. QED
    BY <1>1, <2>1, DrainFits DEF BatchFits
<1>2. CASE Take
  BY <1>2, TakeFits
<1>3. CASE AnswerFull \/ StreamStop
  <2>1. pool' = pool /\ batch' = <<>>
    BY <1>3 DEF AnswerFull, StreamStop, EndBatch
  <2>2. MaxBatchSize > 0 => Len(<<>>) <= MaxBatchSize
    BY EngineAssumption DEF EngineAssumption
  <2>3. QED
    BY <2>1, <2>2 DEF BatchFits
<1>4. ASSUME UNCHANGED <<pool, batch>> PROVE BatchFits'
  BY <1>4 DEF BatchFits
<1>5. ASSUME NEW r \in Requests, CallerStep(r) PROVE BatchFits'
  BY <1>4, <1>5 DEF CallerStep, Call, Resume, Receive
<1>6. CASE EncodeRaises \/ StartStream \/ StreamChunk \/ StreamLast \/ GenerateRaises \/ UNCHANGED vars
  BY <1>4, <1>6 DEF EncodeRaises, StartStream, StreamChunk, StreamLast, GenerateRaises, vars
<1>7. QED
  BY <1>1, <1>2, <1>3, <1>5, <1>6 DEF Next, WorkerStep

\* A batch never exceeds max_batch_size, and a config has one entry in the pool,
\* with something in it.
THEOREM BatchesFit == Spec => []BatchFits
<1>1. QED
  BY TypeInit, TypeStep, FitsInit, FitsStep, PTL DEF Spec

-----------------------------------------------------------------------------
(* Where a call is: in the queue, in the pool or in the batch.             *)

\* Draining moves the head of the queue into the pool.
LEMMA DrainMoves ==
  ASSUME TypeOK, Drain, NEW q \in Requests
  PROVE  /\ Queued(q) <=> (q = Head(queue) \/ Queued(q)')
         /\ Pooled(q)' <=> (q = Head(queue) \/ Pooled(q))
         /\ Held(q)' <=> Held(q)
<1> DEFINE r == Head(queue)
<1>1. /\ queue \in Seq(Requests) /\ queue # <<>>
      /\ queue' = Tail(queue) /\ pool' = AddTask(r) /\ batch' = batch
  BY DEF TypeOK, Drain, workerVars
<1>2. r \in Requests /\ Members(queue) = {r} \cup Members(queue')
  BY <1>1, MembersTail
<1>3. Queued(q) <=> (q = r \/ Queued(q)')
  BY <1>2 DEF Queued
<1> HIDE DEF r
<1>4. CASE HasKey(r)
  <2>1. /\ DOMAIN pool' = DOMAIN pool
        /\ \A i \in DOMAIN pool : pool'[i].data =
             IF pool[i].key = KeyOf(r) THEN Append(pool[i].data, r) ELSE pool[i].data
    BY <1>1, <1>2, <1>4, JoinTask
  <2>2. \A i \in DOMAIN pool : pool[i].data \in Seq(Requests)
    <3>1. \A i \in DOMAIN pool : pool[i] \in Entry
      BY DEF TypeOK
    <3>2. QED
      BY <3>1 DEF Entry
  <2>3. \A i \in DOMAIN pool : Members(pool'[i].data) =
          IF pool[i].key = KeyOf(r) THEN Members(pool[i].data) \cup {r} ELSE Members(pool[i].data)
    <3>1. \A i \in DOMAIN pool : Members(Append(pool[i].data, r)) = Members(pool[i].data) \cup {r}
      BY <1>2, <2>2, MembersAppend
    <3>2. QED
      BY <2>1, <3>1
  <2>4. \E i \in DOMAIN pool : pool[i].key = KeyOf(r)
    BY <1>4 DEF HasKey
  <2>5. Pooled(q)' <=> (q = r \/ Pooled(q))
    BY <2>1, <2>3, <2>4 DEF Pooled
  <2>6. QED
    BY <1>1, <1>3, <2>5 DEF Held, r
<1>5. CASE ~HasKey(r)
  <2> DEFINE last == Len(pool) + 1
  <2>1. /\ DOMAIN pool' = 1..last
        /\ \A i \in DOMAIN pool : pool'[i] = pool[i]
        /\ pool'[last] = [key |-> KeyOf(r), kwargs |-> KwargsOf(r), data |-> <<r>>]
    BY <1>1, <1>2, <1>5, NewTask
  <2>2. DOMAIN pool = 1..Len(pool) /\ Len(pool) \in Nat
    BY DEF TypeOK
  <2>3. /\ \A i \in DOMAIN pool' : i \in DOMAIN pool \/ i = last
        /\ DOMAIN pool \subseteq DOMAIN pool' /\ last \in DOMAIN pool'
    BY <2>1, <2>2
  <2>4. Members(pool'[last].data) = {r}
    BY <2>1 DEF Members
  <2> HIDE DEF last
  <2>5. Pooled(q)' <=> (q = r \/ Pooled(q))
    BY <2>1, <2>3, <2>4 DEF Pooled
  <2>6. QED
    BY <1>1, <1>3, <2>5 DEF Held, r
<1>6. QED
  BY <1>4, <1>5

\* Taking a batch moves part of the first entry into it.
LEMMA TakeMoves ==
  ASSUME TypeOK, Take, NEW q \in Requests
  PROVE  /\ Pooled(q) <=> (Pooled(q)' \/ Held(q)')
         /\ Queued(q)' <=> Queued(q)
         /\ Held(q)' => q \in Members(pool[1].data)
<1> DEFINE data == pool[1].data
           n    == BatchLen(data)
           rest == SubSeq(data, n + 1, Len(data))
<1>1. pool # <<>> /\ batch' = SubSeq(data, 1, n) /\ pool' = Remaining(n) /\ queue' = queue
  BY DEF Take
<1>2. 1 \in DOMAIN pool /\ data \in Seq(Requests)
  BY <1>1, FirstEntry
<1>3. n \in 0..Len(data)
  BY <1>2, BatchLenBounds
<1>4. Members(data) = Members(batch') \cup Members(rest)
  BY <1>1, <1>2, <1>3, MembersSplit
<1>5. Held(q)' => q \in Members(data)
  BY <1>4 DEF Held
<1>6. Queued(q)' <=> Queued(q)
  BY <1>1 DEF Queued
<1>7. ASSUME n < Len(data) PROVE Pooled(q) <=> (Pooled(q)' \/ Held(q)')
  <2> HIDE DEF n
  <2>1. /\ DOMAIN pool' = DOMAIN pool
        /\ pool'[1].data = rest
        /\ \A i \in DOMAIN pool : i # 1 => pool'[i] = pool[i]
    BY <1>1, <1>3, <1>7, KeepFirst
  <2> HIDE DEF rest
  <2>2. QED
    BY <1>2, <1>4, <2>1 DEF Pooled, Held
<1>8. ASSUME ~(n < Len(data)) PROVE Pooled(q) <=> (Pooled(q)' \/ Held(q)')
  <2>1. Members(rest) = {}
    <3>1. Len(rest) = 0 /\ rest \in Seq(Requests)
      BY <1>2, <1>3, <1>8, MembersSplit
    <3>2. QED
      BY <3>1 DEF Members
  <2> HIDE DEF n
  <2>2. /\ \A i \in DOMAIN pool' : i + 1 \in DOMAIN pool /\ pool'[i] = pool[i + 1]
        /\ \A i \in DOMAIN pool : i # 1 => i - 1 \in DOMAIN pool' /\ pool'[i - 1] = pool[i]
    BY <1>1, <1>3, <1>8, DropFirst
  <2> HIDE DEF rest
  <2>3. Members(data) = Members(batch')
    BY <1>4, <2>1
  <2>4. QED
    BY <1>2, <2>2, <2>3 DEF Pooled, Held
<1> HIDE DEF n
<1>9. QED
  BY <1>5, <1>6, <1>7, <1>8

-----------------------------------------------------------------------------
(* No call is lost between the queue, the pool and the batch.              *)

\* The worker holds no batch while it fetches the next.
NoBatch == worker \in {"none", "fetch"} => batch = <<>>

LEMMA LossInit == Init => NoBatch /\ NoCallLost
<1>1. QED
  BY DEF Init, NoBatch, NoCallLost

\* Every member of a batch that is posted to has something in its queue.
LEMMA PostPosts ==
  ASSUME TypeOK, NEW kind, Post(kind), got' = got, caller' = caller
  PROVE  \A r \in Requests : (Held(r) \/ Posted(r)) => Posted(r)'
<1> SUFFICES ASSUME NEW r \in Requests, Held(r) \/ Posted(r) PROVE Posted(r)'
  OBVIOUS
<1>1. CASE Held(r)
  <2>1. inbox[r] \in Seq(Items) /\ inbox'[r] = Append(inbox[r], [kind |-> kind[r], by |-> kwargs])
    BY <1>1 DEF Held, Post, TypeOK
  <2>2. inbox'[r] # <<>>
    BY <2>1
  <2>3. QED
    BY <2>2 DEF Posted
<1>2. CASE ~Held(r)
  <2>1. inbox'[r] = inbox[r]
    BY <1>2 DEF Held, Post
  <2>2. QED
    BY <1>2, <2>1 DEF Posted
<1>3. QED
  BY <1>1, <1>2

LEMMA LossStep == TypeOK /\ NoBatch /\ NoCallLost /\ [Next]_vars => NoBatch' /\ NoCallLost'
<1> SUFFICES ASSUME TypeOK, NoBatch, NoCallLost, [Next]_vars PROVE NoBatch' /\ NoCallLost'
  OBVIOUS
<1> USE DEF callVars, workerVars
<1>1. ASSUME NEW r \in Requests, Call(r) PROVE NoBatch' /\ NoCallLost'
  <2>1. NoBatch'
    BY <1>1 DEF Call, NoBatch
  <2>2. Members(queue') = Members(queue) \cup {r}
    BY <1>1, MembersAppend DEF Call, TypeOK
  <2>3. \A q \in Requests : q # r => caller'[q] = caller[q]
    BY <1>1 DEF Call, TypeOK
  <2>4. \A q \in Requests : /\ Queued(q) \/ q = r => Queued(q)'
                            /\ Pooled(q) => Pooled(q)'
                            /\ Held(q) => Held(q)'
                            /\ q # r /\ Posted(q) => Posted(q)'
    BY <1>1, <2>2, <2>3 DEF Call, Queued, Pooled, Held, Posted
  <2>5. NoCallLost'
    BY <2>3, <2>4 DEF NoCallLost
  <2>6. QED
    BY <2>1, <2>5
<1>2. ASSUME NEW r \in Requests, Resume(r) PROVE NoBatch' /\ NoCallLost'
  <2>1. NoBatch'
    BY <1>2 DEF Resume, NoBatch
  <2>2. \A q \in Requests : (caller'[q] # "idle" => caller[q] # "idle") /\ (caller[q] = "done" => caller'[q] = "done")
    BY <1>2 DEF Resume, TypeOK
  <2>3. \A q \in Requests : /\ Queued(q) => Queued(q)'
                            /\ Pooled(q) => Pooled(q)'
                            /\ Held(q) => Held(q)'
                            /\ Posted(q) => Posted(q)'
    BY <1>2, <2>2 DEF Resume, Queued, Pooled, Held, Posted
  <2>4. QED
    BY <2>1, <2>2, <2>3 DEF NoCallLost
<1>3. ASSUME NEW r \in Requests, Receive(r) PROVE NoBatch' /\ NoCallLost'
  <2>1. NoBatch'
    BY <1>3 DEF Receive, NoBatch
  <2>2. \A q \in Requests : q # r => caller'[q] = caller[q] /\ inbox'[q] = inbox[q] /\ got'[q] = got[q]
    BY <1>3 DEF Receive, TypeOK
  <2>3. got'[r] # <<>> \/ caller'[r] = "done"
    <3>1. inbox[r] \in Seq(Items) /\ got[r] \in Seq(Items) /\ Head(inbox[r]) \in Items
      BY <1>3, MembersTail DEF Receive, TypeOK
    <3>2. Append(got[r], Head(inbox[r])) # <<>>
      BY <3>1
    <3>3. QED
      BY <1>3, <3>2 DEF Receive, TypeOK
  <2>4. \A q \in Requests : /\ Queued(q) => Queued(q)'
                            /\ Pooled(q) => Pooled(q)'
                            /\ Held(q) => Held(q)'
                            /\ q = r \/ Posted(q) => Posted(q)'
    BY <1>3, <2>2, <2>3 DEF Receive, Queued, Pooled, Held, Posted
  <2>5. QED
    BY <2>1, <2>2, <2>4 DEF NoCallLost
<1>4. CASE Drain
  <2>1. NoBatch' /\ UNCHANGED <<inbox, got, caller>>
    BY <1>4 DEF Drain, NoBatch
  <2>2. \A q \in Requests : Posted(q) <=> Posted(q)'
    BY <2>1 DEF Posted
  <2>3. \A q \in Requests : Queued(q) \/ Pooled(q) \/ Held(q) => Queued(q)' \/ Pooled(q)' \/ Held(q)'
    BY <1>4, DrainMoves
  <2>4. QED
    BY <2>1, <2>2, <2>3 DEF NoCallLost
<1>5. CASE Take
  <2>1. NoBatch' /\ UNCHANGED <<inbox, got, caller>> /\ batch = <<>>
    BY <1>5 DEF Take, NoBatch
  <2>2. \A q \in Requests : ~Held(q) /\ (Posted(q) <=> Posted(q)')
    BY <2>1 DEF Posted, Held, Members
  <2>3. \A q \in Requests : Queued(q) \/ Pooled(q) \/ Held(q) => Queued(q)' \/ Pooled(q)' \/ Held(q)'
    BY <1>5, <2>2, TakeMoves
  <2>4. QED
    BY <2>1, <2>2, <2>3 DEF NoCallLost
<1>6. CASE AnswerFull \/ StreamChunk \/ StreamLast \/ StreamStop
  <2>1. PICK kind : Post(kind)
    BY <1>6 DEF AnswerFull, StreamChunk, StreamLast, StreamStop
  <2>2. UNCHANGED <<queue, pool, got, caller>>
    BY <1>6 DEF AnswerFull, StreamChunk, StreamLast, StreamStop
  <2>3. NoBatch'
    BY <1>6 DEF AnswerFull, StreamChunk, StreamLast, StreamStop, EndBatch, NoBatch
  <2>4. \A q \in Requests : (Held(q) \/ Posted(q)) => Posted(q)'
    BY <2>1, <2>2, PostPosts
  <2>5. QED
    BY <2>2, <2>3, <2>4 DEF NoCallLost, Queued, Pooled
<1>7. CASE EncodeRaises \/ StartStream \/ GenerateRaises \/ UNCHANGED vars
  <2>1. UNCHANGED <<queue, pool, batch, inbox, got, caller>>
    BY <1>7 DEF EncodeRaises, StartStream, GenerateRaises, vars
  <2>2. NoBatch'
    BY <1>7 DEF EncodeRaises, StartStream, GenerateRaises, vars, NoBatch
  <2>3. QED
    BY <2>1, <2>2 DEF NoCallLost, Queued, Pooled, Held, Posted
<1>8. QED
  BY <1>1, <1>2, <1>3, <1>4, <1>5, <1>6, <1>7 DEF Next, CallerStep, WorkerStep

\* From infer_async to the post to its reply queue no call is lost, whatever the
\* interleaving of the coroutines and the worker: batching leaves what does not
\* fit in the pool, and draining keeps what is already there.
THEOREM NoneLost == Spec => []NoCallLost
<1>1. QED
  BY TypeInit, TypeStep, LossInit, LossStep, PTL DEF Spec

-----------------------------------------------------------------------------
(* No call is answered twice: it is in one place at a time, once.          *)

Distinct(s) == \A i, j \in DOMAIN s : s[i] = s[j] => i = j

LEMMA DistinctAppend ==
  ASSUME NEW S, NEW s \in Seq(S), NEW x \in S, Distinct(s), x \notin Members(s)
  PROVE  Distinct(Append(s, x))
<1>1. \A i \in DOMAIN Append(s, x) : i = Len(s) + 1 \/ i \in DOMAIN s
  OBVIOUS
<1>2. \A i \in DOMAIN s : Append(s, x)[i] = s[i] /\ s[i] # x
  BY DEF Members
<1>3. Append(s, x)[Len(s) + 1] = x
  OBVIOUS
<1>4. QED
  BY <1>1, <1>2, <1>3 DEF Distinct

LEMMA DistinctTail ==
  ASSUME NEW S, NEW s \in Seq(S), s # <<>>, Distinct(s)
  PROVE  Distinct(Tail(s)) /\ Head(s) \notin Members(Tail(s))
<1>1. \A i \in DOMAIN Tail(s) : i \in Nat /\ i # 0 /\ i + 1 \in DOMAIN s /\ Tail(s)[i] = s[i + 1]
  OBVIOUS
<1>2. 1 \in DOMAIN s /\ Head(s) = s[1]
  OBVIOUS
<1>3. Head(s) \notin Members(Tail(s))
  BY <1>1, <1>2 DEF Distinct, Members
<1>4. Distinct(Tail(s))
  <2> SUFFICES ASSUME NEW i \in DOMAIN Tail(s), NEW j \in DOMAIN Tail(s), Tail(s)[i] = Tail(s)[j]
               PROVE  i = j
    BY DEF Distinct
  <2>1. i + 1 = j + 1
    BY <1>1 DEF Distinct
  <2>2. QED
    BY <1>1, <2>1
<1>5. QED
  BY <1>3, <1>4

\* The parts a list without repetitions is cut into share nothing.
LEMMA DistinctSplit ==
  ASSUME NEW S, NEW s \in Seq(S), NEW n \in 0..Len(s), Distinct(s)
  PROVE  /\ Distinct(SubSeq(s, 1, n))
         /\ Distinct(SubSeq(s, n + 1, Len(s)))
         /\ Members(SubSeq(s, 1, n)) \cap Members(SubSeq(s, n + 1, Len(s))) = {}
<1> DEFINE a == SubSeq(s, 1, n)
           b == SubSeq(s, n + 1, Len(s))
<1>1. \A i \in DOMAIN a : i \in Nat /\ i <= n /\ i \in DOMAIN s /\ a[i] = s[i]
  OBVIOUS
<1>2. \A i \in DOMAIN b : i \in Nat /\ i + n > n /\ i + n \in DOMAIN s /\ b[i] = s[i + n]
  OBVIOUS
<1> HIDE DEF a, b
<1>3. Distinct(a)
  BY <1>1 DEF Distinct
<1>4. Distinct(b)
  <2> SUFFICES ASSUME NEW i \in DOMAIN b, NEW j \in DOMAIN b, b[i] = b[j]
               PROVE  i = j
    BY DEF Distinct
  <2>1. i + n = j + n
    BY <1>2 DEF Distinct
  <2>2. QED
    BY <1>2, <2>1
<1>5. Members(a) \cap Members(b) = {}
  <2> SUFFICES ASSUME NEW i \in DOMAIN a, NEW j \in DOMAIN b, a[i] = b[j]
               PROVE  FALSE
    BY DEF Members
  <2>1. i = j + n
    BY <1>1, <1>2 DEF Distinct
  <2>2. QED
    BY <1>1, <1>2, <2>1
<1>6. QED
  BY <1>3, <1>4, <1>5 DEF a, b

Nowhere(r) == ~Queued(r) /\ ~Pooled(r) /\ ~Held(r)

\* A call is in one place at a time, and there once.
Apart ==
  /\ Distinct(queue)
  /\ \A i \in DOMAIN pool : Distinct(pool[i].data)
  /\ \A r \in Requests :
       ~(Queued(r) /\ Pooled(r)) /\ ~(Queued(r) /\ Held(r)) /\ ~(Pooled(r) /\ Held(r))

\* The engine knows nothing of a call that was not made.
Fresh == \A r \in Requests : caller[r] = "idle" => Nowhere(r) /\ inbox[r] = <<>> /\ got[r] = <<>>

\* The worker streams the batches of streaming configs only.
StreamWorker == worker \in {"stream", "stop"} => Streams(kwargs.cfg)

OnceInv == Apart /\ Fresh /\ StreamWorker /\ AnsweredOnce

LEMMA OnceInit == Init => OnceInv
<1> SUFFICES ASSUME Init PROVE OnceInv
  OBVIOUS
<1>1. Members(<<>>) = {} /\ Distinct(<<>>)
  BY DEF Members, Distinct
<1>2. \A r \in Requests : Nowhere(r) /\ ~Posted(r) /\ inbox[r] = <<>> /\ got[r] = <<>>
  BY <1>1 DEF Init, Nowhere, Queued, Pooled, Held, Posted
<1>3. Len(<<>>) + Len(<<>>) <= 1
  OBVIOUS
<1>4. AnsweredOnce
  BY <1>2, <1>3 DEF AnsweredOnce
<1>5. Apart
  BY <1>1, <1>2 DEF Init, Apart, Nowhere
<1>6. QED
  BY <1>2, <1>4, <1>5 DEF Init, OnceInv, Fresh, StreamWorker

\* A request leaves the queue as it enters the pool, where it was not.
LEMMA DrainApart ==
  ASSUME TypeOK, Apart, Drain
  PROVE  Apart'
<1>1. queue \in Seq(Requests) /\ queue # <<>> /\ queue' = Tail(queue) /\ pool' = AddTask(Head(queue))
  BY DEF TypeOK, Drain
<1>2. PICK r \in Requests : r = Head(queue)
  BY <1>1, MembersTail
<1>3. Queued(r) /\ ~Queued(r)' /\ Distinct(queue')
  BY <1>1, <1>2, MembersTail, DistinctTail DEF Apart, Queued
<1>4. \A q \in Requests : /\ Queued(q) <=> (q = r \/ Queued(q)')
                          /\ Pooled(q)' <=> (q = r \/ Pooled(q))
                          /\ Held(q)' <=> Held(q)
  BY <1>2, DrainMoves
<1>5. ~Pooled(r)
  BY <1>3 DEF Apart
<1>6. ASSUME NEW i \in DOMAIN pool' PROVE Distinct(pool'[i].data)
  <2>1. CASE HasKey(r)
    <3>1. i \in DOMAIN pool /\ pool'[i].data \in {pool[i].data, Append(pool[i].data, r)}
      BY <1>1, <1>2, <1>6, <2>1, JoinTask
    <3>2. pool[i] \in Entry
      BY <3>1 DEF TypeOK
    <3>3. pool[i].data \in Seq(Requests) /\ Distinct(pool[i].data) /\ r \notin Members(pool[i].data)
      BY <1>5, <3>1, <3>2 DEF Apart, Pooled, Entry
    <3>4. Distinct(Append(pool[i].data, r))
      BY <1>2, <3>3, DistinctAppend
    <3>5. QED
      BY <3>1, <3>3, <3>4
  <2>2. CASE ~HasKey(r)
    <3> DEFINE last == Len(pool) + 1
    <3>1. /\ DOMAIN pool' = 1..last
          /\ \A j \in DOMAIN pool : pool'[j] = pool[j]
          /\ pool'[last] = [key |-> KeyOf(r), kwargs |-> KwargsOf(r), data |-> <<r>>]
      BY <1>1, <1>2, <2>2, NewTask
    <3>2. DOMAIN pool = 1..Len(pool) /\ Len(pool) \in Nat
      BY DEF TypeOK
    <3>3. i \in DOMAIN pool \/ i = last
      BY <1>6, <3>1, <3>2
    <3>4. Distinct(<<r>>)
      BY DEF Distinct
    <3>5. QED
      BY <3>1, <3>3, <3>4 DEF Apart
  <2>3. QED
    BY <2>1, <2>2
<1>7. QED
  BY <1>2, <1>3, <1>4, <1>5, <1>6 DEF Apart

\* A batch has nothing of what stays in the pool: not of its entry, which is
\* cut, and not of another one, which has another key.
LEMMA TakeApart ==
  ASSUME TypeOK, Apart, PoolOwn, BatchFits, Take
  PROVE  Apart'
<1> DEFINE data == pool[1].data
           n    == BatchLen(data)
           rest == SubSeq(data, n + 1, Len(data))
<1>1. pool # <<>> /\ batch' = SubSeq(data, 1, n) /\ pool' = Remaining(n) /\ queue' = queue
  BY DEF Take
<1>2. 1 \in DOMAIN pool /\ data \in Seq(Requests) /\ Distinct(data)
  BY <1>1, FirstEntry DEF Apart
<1>3. n \in 0..Len(data)
  BY <1>2, BatchLenBounds
<1>4. Distinct(rest) /\ Members(batch') \cap Members(rest) = {}
  BY <1>1, <1>2, <1>3, DistinctSplit
<1>5. \A q \in Requests : /\ Pooled(q) <=> (Pooled(q)' \/ Held(q)')
                          /\ Queued(q)' <=> Queued(q)
                          /\ Held(q)' => q \in Members(data)
  BY TakeMoves
<1>6. \A i \in DOMAIN pool : i # 1 => Members(pool[i].data) \cap Members(data) = {}
  BY <1>2 DEF PoolOwn, BatchFits
<1>7. \A q \in Requests : ~(Pooled(q)' /\ Held(q)')
  <2> SUFFICES ASSUME NEW q \in Requests, Pooled(q)', Held(q)' PROVE FALSE
    OBVIOUS
  <2>1. PICK i \in DOMAIN pool' : q \in Members(pool'[i].data)
    BY DEF Pooled
  <2>2. q \in Members(data) /\ q \notin Members(rest)
    BY <1>4, <1>5 DEF Held
  <2> HIDE DEF n
  <2>3. CASE n < Len(data)
    <3>1. /\ i \in DOMAIN pool
          /\ pool'[1].data = rest
          /\ i # 1 => pool'[i] = pool[i]
      BY <1>1, <1>3, <2>1, <2>3, KeepFirst
    <3> HIDE DEF rest
    <3>2. QED
      BY <1>6, <2>1, <2>2, <3>1
  <2>4. CASE ~(n < Len(data))
    <3>1. i + 1 \in DOMAIN pool /\ pool'[i] = pool[i + 1]
      BY <1>1, <1>3, <2>1, <2>4, DropFirst
    <3>2. DOMAIN pool' \subseteq Nat \ {0}
      BY <1>1, <1>3, RemainingType
    <3>3. i + 1 # 1
      BY <3>2
    <3>4. QED
      BY <1>6, <2>1, <2>2, <3>1, <3>3
  <2>5. QED
    BY <2>3, <2>4
<1> HIDE DEF n
<1>8. ASSUME NEW i \in DOMAIN pool' PROVE Distinct(pool'[i].data)
  <2>1. CASE n < Len(data)
    <3>1. /\ i \in DOMAIN pool
          /\ pool'[1].data = rest
          /\ i # 1 => pool'[i] = pool[i]
      BY <1>1, <1>3, <1>8, <2>1, KeepFirst
    <3> HIDE DEF rest
    <3>2. QED
      BY <1>4, <3>1 DEF Apart
  <2>2. CASE ~(n < Len(data))
    <3>1. i + 1 \in DOMAIN pool /\ pool'[i] = pool[i + 1]
      BY <1>1, <1>3, <1>8, <2>2, DropFirst
    <3>2. QED
      BY <3>1 DEF Apart
  <2>3. QED
    BY <2>1, <2>2
<1>9. \A q \in Requests : ~(Queued(q)' /\ Pooled(q)') /\ ~(Queued(q)' /\ Held(q)')
  BY <1>5 DEF Apart
<1>10. QED
  BY <1>1, <1>7, <1>8, <1>9 DEF Apart

\* A step that moves no call and posts nothing.
LEMMA StillOnce ==
  ASSUME OnceInv, UNCHANGED <<call, queue, pool, batch, inbox, got>>, StreamWorker',
         \A r \in Requests : /\ caller'[r] = "idle" => caller[r] = "idle"
                             /\ caller'[r] = "done" => caller[r] = "done"
  PROVE  OnceInv'
<1>1. \A r \in Requests : /\ Queued(r)' <=> Queued(r)
                          /\ Pooled(r)' <=> Pooled(r)
                          /\ Held(r)' <=> Held(r)
                          /\ Posted(r)' => Posted(r)
  BY DEF Queued, Pooled, Held, Posted
<1>2. Apart' /\ Fresh' /\ AnsweredOnce'
  BY <1>1 DEF OnceInv, Apart, Fresh, Nowhere, AnsweredOnce
<1>3. QED
  BY <1>2 DEF OnceInv

\* A step that moves calls on and posts nothing.
LEMMA MovesOnce ==
  ASSUME OnceInv, UNCHANGED <<call, inbox, got, caller>>, StreamWorker', Apart',
         \A r \in Requests : Nowhere(r) => Nowhere(r)'
  PROVE  OnceInv'
<1>1. \A r \in Requests : Posted(r)' <=> Posted(r)
  BY DEF Posted
<1>2. Fresh' /\ AnsweredOnce'
  BY <1>1 DEF OnceInv, Fresh, Nowhere, AnsweredOnce
<1>3. QED
  BY <1>2 DEF OnceInv

LEMMA CallOnce ==
  ASSUME TypeOK, OnceInv, NEW r \in Requests, Call(r)
  PROVE  OnceInv'
<1>1. /\ queue \in Seq(Requests) /\ queue' = Append(queue, r)
      /\ caller[r] = "idle" /\ caller'[r] = "queued"
      /\ \A q \in Requests : q # r => caller'[q] = caller[q]
      /\ UNCHANGED <<call, pool, worker, batch, kwargs, inbox, got>>
  BY DEF Call, TypeOK, callVars, workerVars
<1>2. Nowhere(r) /\ inbox[r] = <<>> /\ got[r] = <<>>
  BY <1>1 DEF OnceInv, Fresh
<1>3. Members(queue') = Members(queue) \cup {r} /\ Distinct(queue')
  BY <1>1, <1>2, MembersAppend, DistinctAppend DEF OnceInv, Apart, Nowhere, Queued
<1>4. \A q \in Requests : /\ Queued(q)' <=> (Queued(q) \/ q = r)
                          /\ Pooled(q)' <=> Pooled(q)
                          /\ Held(q)' <=> Held(q)
                          /\ q # r => (Posted(q)' <=> Posted(q))
  BY <1>1, <1>3 DEF Queued, Pooled, Held, Posted
<1>5. ~Posted(r)'
  BY <1>1, <1>2 DEF Posted
<1>6. Apart'
  BY <1>1, <1>2, <1>3, <1>4 DEF OnceInv, Apart, Nowhere
<1>7. Fresh' /\ StreamWorker'
  BY <1>1, <1>4 DEF OnceInv, Fresh, Nowhere, StreamWorker
<1>8. AnsweredOnce'
  BY <1>1, <1>4, <1>5 DEF OnceInv, AnsweredOnce
<1>9. QED
  BY <1>6, <1>7, <1>8 DEF OnceInv

LEMMA ReceiveOnce ==
  ASSUME TypeOK, OnceInv, NEW r \in Requests, Receive(r)
  PROVE  OnceInv'
<1>1. /\ inbox[r] \in Seq(Items) /\ inbox[r] # <<>> /\ got[r] \in Seq(Items)
      /\ caller[r] = "waiting" /\ caller'[r] # "idle"
      /\ inbox'[r] = Tail(inbox[r])
      /\ ~Streams(call[r].cfg) => got'[r] = Append(got[r], Head(inbox[r]))
      /\ \A q \in Requests : q # r => caller'[q] = caller[q] /\ inbox'[q] = inbox[q] /\ got'[q] = got[q]
      /\ UNCHANGED <<call, queue, pool, worker, batch, kwargs>>
  BY DEF Receive, TypeOK, callVars, workerVars
<1>2. Head(inbox[r]) \in Items /\ Tail(inbox[r]) \in Seq(Items)
  BY <1>1, MembersTail
<1>3. Len(Tail(inbox[r])) + Len(Append(got[r], Head(inbox[r]))) = Len(inbox[r]) + Len(got[r])
  BY <1>1, LenMoves
<1>4. Posted(r)
  BY <1>1 DEF Posted
<1>5. \A q \in Requests : /\ Queued(q)' <=> Queued(q)
                          /\ Pooled(q)' <=> Pooled(q)
                          /\ Held(q)' <=> Held(q)
                          /\ q # r => (Posted(q)' <=> Posted(q))
  BY <1>1 DEF Queued, Pooled, Held, Posted
<1>6. Apart' /\ StreamWorker'
  BY <1>1, <1>5 DEF OnceInv, Apart, StreamWorker
<1>7. Fresh'
  BY <1>1, <1>5 DEF OnceInv, Fresh, Nowhere
<1>8. AnsweredOnce'
  <2> SUFFICES ASSUME NEW q \in Requests, ~Streams(call[q].cfg)
               PROVE  /\ Len(inbox'[q]) + Len(got'[q]) <= 1
                      /\ Posted(q)' => ~Queued(q)' /\ ~Pooled(q)' /\ ~Held(q)'
    BY <1>1 DEF AnsweredOnce, Streams
  <2>1. Len(inbox[q]) + Len(got[q]) <= 1 /\ (Posted(q) => ~Queued(q) /\ ~Pooled(q) /\ ~Held(q))
    BY DEF OnceInv, AnsweredOnce
  <2>2. CASE q = r
    BY <1>1, <1>3, <1>4, <1>5, <2>1, <2>2
  <2>3. CASE q # r
    BY <1>1, <1>5, <2>1, <2>3
  <2>4. QED
    BY <2>2, <2>3
<1>9. QED
  BY <1>6, <1>7, <1>8 DEF OnceInv

\* A full answer reaches calls nothing was posted to, and the batch is gone.
LEMMA AnswerOnce ==
  ASSUME TypeOK, OnceInv, AnswerFull
  PROVE  OnceInv'
<1> DEFINE kind == [r \in Members(batch) |-> IF r \in Good THEN "full" ELSE "error"]
<1>1. /\ UNCHANGED <<call, queue, pool, got, caller>>
      /\ batch' = <<>> /\ worker' = "fetch" /\ Post(kind)
  BY DEF AnswerFull, EndBatch, callVars
<1>2. \A r \in Requests : /\ ~Held(r)'
                          /\ Queued(r)' <=> Queued(r)
                          /\ Pooled(r)' <=> Pooled(r)
  BY <1>1 DEF Held, Queued, Pooled, Members
<1>3. \A r \in Requests : ~Held(r) => inbox'[r] = inbox[r]
  BY <1>1 DEF Post, Held
<1>4. \A r \in Requests : Held(r) => inbox'[r] = Append(inbox[r], [kind |-> kind[r], by |-> kwargs])
  BY <1>1 DEF Post, Held
<1> HIDE DEF kind
<1>5. Apart' /\ StreamWorker' /\ Fresh'
  BY <1>1, <1>2, <1>3 DEF OnceInv, Apart, StreamWorker, Fresh, Nowhere
<1>6. AnsweredOnce'
  <2> SUFFICES ASSUME NEW r \in Requests, ~Streams(call[r].cfg)
               PROVE  /\ Len(inbox'[r]) + Len(got'[r]) <= 1
                      /\ Posted(r)' => ~Queued(r)' /\ ~Pooled(r)' /\ ~Held(r)'
    BY <1>1 DEF AnsweredOnce, Streams
  <2>1. Len(inbox[r]) + Len(got[r]) <= 1 /\ (Posted(r) => ~Queued(r) /\ ~Pooled(r) /\ ~Held(r))
    BY DEF OnceInv, AnsweredOnce
  <2>2. CASE Held(r)
    <3>1. inbox[r] = <<>> /\ got[r] = <<>> /\ ~Queued(r) /\ ~Pooled(r)
      BY <2>1, <2>2 DEF Posted, OnceInv, Apart
    <3>2. inbox'[r] = Append(<<>>, [kind |-> kind[r], by |-> kwargs]) /\ got'[r] = <<>>
      BY <1>1, <1>4, <2>2, <3>1
    <3>3. Len(inbox'[r]) = 1 /\ Len(got'[r]) = 0
      BY <3>2, LenOne
    <3>4. QED
      BY <1>2, <3>1, <3>3
  <2>3. CASE ~Held(r)
    <3>1. inbox'[r] = inbox[r] /\ got'[r] = got[r] /\ (Posted(r)' <=> Posted(r))
      BY <1>1, <1>3, <2>3 DEF Posted
    <3>2. QED
      BY <1>2, <2>1, <3>1
  <2>4. QED
    BY <2>2, <2>3
<1>7. QED
  BY <1>5, <1>6 DEF OnceInv

\* A streaming batch has streaming calls only: the others see nothing of it.
LEMMA StreamOnce ==
  ASSUME TypeOK, OnceInv, BatchOwn, worker \in {"stream", "stop"}, NEW kind, Post(kind),
         UNCHANGED <<call, queue, pool, got, caller>>, batch' \in {batch, <<>>}, StreamWorker'
  PROVE  OnceInv'
<1>1. kwargs # NoKwargs /\ Streams(kwargs.cfg)
  BY DEF TypeOK, OnceInv, StreamWorker
<1>2. \A r \in Requests : ~Held(r) => inbox'[r] = inbox[r]
  BY DEF Post, Held
<1>3. \A r \in Requests : /\ Held(r)' => Held(r)
                          /\ Queued(r)' <=> Queued(r)
                          /\ Pooled(r)' <=> Pooled(r)
  BY DEF Held, Queued, Pooled, Members
<1>4. \A r \in Requests : ~Streams(call[r].cfg) => ~Held(r)
  BY <1>1 DEF BatchOwn, Held
<1>5. \A r \in Requests : ~Held(r) => (Posted(r)' <=> Posted(r))
  BY <1>2 DEF Posted
<1>6. Apart' /\ Fresh'
  BY <1>2, <1>3 DEF OnceInv, Apart, Fresh, Nowhere
<1>7. AnsweredOnce'
  BY <1>2, <1>3, <1>4, <1>5 DEF OnceInv, AnsweredOnce, Streams
<1>8. QED
  BY <1>6, <1>7 DEF OnceInv

LEMMA OnceStep ==
  TypeOK /\ ConfigInv /\ BatchFits /\ NoBatch /\ OnceInv /\ [Next]_vars => OnceInv'
<1> SUFFICES ASSUME TypeOK, ConfigInv, BatchFits, NoBatch, OnceInv, [Next]_vars PROVE OnceInv'
  OBVIOUS
<1> USE DEF callVars, workerVars
<1>1. ASSUME NEW r \in Requests, Call(r) PROVE OnceInv'
  BY <1>1, CallOnce
<1>2. ASSUME NEW r \in Requests, Resume(r) PROVE OnceInv'
  <2>1. UNCHANGED <<call, queue, pool, batch, inbox, got>>
    BY <1>2 DEF Resume
  <2>2. StreamWorker'
    BY <1>2 DEF Resume, OnceInv, StreamWorker, Streams
  <2>3. \A q \in Requests : (caller'[q] = "idle" => caller[q] = "idle") /\ (caller'[q] = "done" => caller[q] = "done")
    BY <1>2 DEF Resume, TypeOK
  <2>4. QED
    BY <2>1, <2>2, <2>3, StillOnce
<1>3. ASSUME NEW r \in Requests, Receive(r) PROVE OnceInv'
  BY <1>3, ReceiveOnce
<1>4. CASE Drain
  <2>1. UNCHANGED <<call, inbox, got, caller>> /\ Apart'
    BY <1>4, DrainApart DEF Drain, OnceInv
  <2>2. StreamWorker'
    BY <1>4 DEF Drain, StreamWorker
  <2>3. \A r \in Requests : Nowhere(r) => Nowhere(r)'
    BY <1>4, DrainMoves DEF Nowhere
  <2>4. QED
    BY <2>1, <2>2, <2>3, MovesOnce
<1>5. CASE Take
  <2>1. UNCHANGED <<call, inbox, got, caller>>
    BY <1>5 DEF Take
  <2>2. Apart'
    BY <1>5, TakeApart DEF OnceInv, ConfigInv
  <2>3. StreamWorker'
    BY <1>5 DEF Take, StreamWorker
  <2>4. \A r \in Requests : Nowhere(r) => Nowhere(r)'
    BY <1>5, TakeMoves DEF Nowhere
  <2>5. QED
    BY <2>1, <2>2, <2>3, <2>4, MovesOnce
<1>6. CASE AnswerFull
  BY <1>6, AnswerOnce
<1>7. CASE StreamChunk \/ StreamLast \/ StreamStop
  <2>1. PICK kind : Post(kind)
    BY <1>7 DEF StreamChunk, StreamLast, StreamStop
  <2>2. /\ worker \in {"stream", "stop"}
        /\ UNCHANGED <<call, queue, pool, got, caller>>
        /\ batch' \in {batch, <<>>}
    BY <1>7 DEF StreamChunk, StreamLast, StreamStop, EndBatch
  <2>3. StreamWorker'
    BY <1>7 DEF StreamChunk, StreamLast, StreamStop, EndBatch, OnceInv, StreamWorker, Streams
  <2>4. QED
    BY <2>1, <2>2, <2>3, StreamOnce DEF ConfigInv
<1>8. CASE EncodeRaises \/ StartStream \/ GenerateRaises \/ UNCHANGED vars
  <2>1. UNCHANGED <<call, queue, pool, batch, kwargs, inbox, got, caller>>
    BY <1>8 DEF EncodeRaises, StartStream, GenerateRaises, vars
  <2>2. StreamWorker'
    BY <1>8 DEF EncodeRaises, StartStream, GenerateRaises, vars, OnceInv, StreamWorker, Streams
  <2>3. QED
    BY <2>1, <2>2, StillOnce
<1>9. QED
  BY <1>1, <1>2, <1>3, <1>4, <1>5, <1>6, <1>7, <1>8 DEF Next, CallerStep, WorkerStep

\* A full answer is one item, and a call that was answered is in neither the queue
\* nor the pool nor the batch: no later batch answers it again.
THEOREM NoneTwice == Spec => []AnsweredOnce
<1>1. OnceInv => AnsweredOnce
  BY DEF OnceInv
<1>2. QED
  BY <1>1, TypeInit, TypeStep, ConfigInit, ConfigStep, FitsInit, FitsStep, LossInit, LossStep,
     OnceInit, OnceStep, PTL DEF Spec
-----------------------------------------------------------------------------
(* The calls of one config in a sequence.                                  *)

One(r, k) == IF call[r].cfg = k THEN <<r>> ELSE <<>>
Picked(s, k) == [i \in DOMAIN s |-> One(s[i], k)]

LEMMA PickedTypes ==
  ASSUME NEW k, NEW s \in Seq(Requests)
  PROVE  /\ OfConfig(s, k) = FlattenSeq(Picked(s, k))
         /\ Picked(s, k) \in Seq(Seq(Requests))
         /\ Picked(s, k) \in [1..Len(s) -> Seq(Requests)]
         /\ Len(Picked(s, k)) = Len(s)
         /\ \A i \in DOMAIN s : Picked(s, k)[i] = One(s[i], k)
<1> DEFINE n == Len(s)
<1>1. n \in Nat /\ DOMAIN s = 1..n
  OBVIOUS
<1>2. \A r \in Requests : One(r, k) \in Seq(Requests)
  BY DEF One
<1>3. \A i \in DOMAIN s : One(s[i], k) \in Seq(Requests)
  BY <1>2
<1>4. OfConfig(s, k) = FlattenSeq(Picked(s, k))
  BY Zenon DEF OfConfig, Picked, One
<1> HIDE DEF n
<1>5. Picked(s, k) \in [1..n -> Seq(Requests)] /\ \A i \in DOMAIN s : Picked(s, k)[i] = One(s[i], k)
  BY <1>1, <1>3 DEF Picked
<1>6. Picked(s, k) \in Seq(Seq(Requests)) /\ Len(Picked(s, k)) = n
  BY <1>1, <1>5
<1>7. QED
  BY <1>4, <1>5, <1>6 DEF n

\* They are calls, and in the sequence.
LEMMA OfConfigTypes ==
  ASSUME NEW k, NEW s \in Seq(Requests)
  PROVE  OfConfig(s, k) \in Seq(Requests) /\ Members(OfConfig(s, k)) \subseteq Members(s)
<1> DEFINE t == Picked(s, k)
           n == Len(s)
<1>1. /\ OfConfig(s, k) = FlattenSeq(t) /\ t \in [1..n -> Seq(Requests)] /\ n \in Nat
      /\ DOMAIN s = 1..n /\ \A i \in DOMAIN s : t[i] = One(s[i], k)
  BY PickedTypes
<1> HIDE DEF t, n
<1>2. /\ FlattenSeq(t) \in Seq(Requests)
      /\ \A i \in DOMAIN FlattenSeq(t) : \E w \in 1..n : \E j \in DOMAIN t[w] : FlattenSeq(t)[i] = t[w][j]
  <2>1. PICK m \in Nat : m = n
    BY <1>1
  <2>2. PICK u \in [1..m -> Seq(Requests)] : u = t
    BY <1>1, <2>1
  <2>3. /\ FlattenSeq(u) \in Seq(Requests)
        /\ \A i \in DOMAIN FlattenSeq(u) : \E w \in 1..m : \E j \in DOMAIN u[w] : FlattenSeq(u)[i] = u[w][j]
    BY FlattenMembers
  <2>4. QED
    BY <2>1, <2>2, <2>3
<1>3. ASSUME NEW r \in Requests, NEW j \in DOMAIN One(r, k)
      PROVE  One(r, k)[j] = r
  BY DEF One
<1>4. ASSUME NEW i \in DOMAIN FlattenSeq(t) PROVE FlattenSeq(t)[i] \in Members(s)
  <2>1. PICK w \in 1..n : \E j \in DOMAIN t[w] : FlattenSeq(t)[i] = t[w][j]
    BY <1>2
  <2>2. w \in DOMAIN s /\ s[w] \in Requests
    BY <1>1
  <2>3. t[w] = One(s[w], k)
    BY <1>1, <2>2
  <2>4. FlattenSeq(t)[i] = s[w]
    BY <1>3, <2>1, <2>2, <2>3
  <2>5. QED
    BY <2>2, <2>4 DEF Members
<1>5. QED
  BY <1>1, <1>2, <1>4 DEF Members

LEMMA OfConfigEmpty == \A k : OfConfig(<<>>, k) = <<>>
<1> SUFFICES ASSUME NEW k PROVE OfConfig(<<>>, k) = <<>>
  OBVIOUS
<1>1. <<>> \in Seq(Requests) /\ Len(<<>>) = 0
  OBVIOUS
<1>2. OfConfig(<<>>, k) = FlattenSeq(Picked(<<>>, k)) /\ Len(Picked(<<>>, k)) = 0
      /\ Picked(<<>>, k) \in Seq(Seq(Requests))
  BY <1>1, PickedTypes
<1>3. Picked(<<>>, k) = <<>>
  BY <1>2, EmptySeq
<1>4. QED
  BY <1>2, <1>3 DEF FlattenSeq

\* A call that is put on the queue is the last one of its config.
LEMMA OfConfigAppend ==
  ASSUME NEW k, NEW s \in Seq(Requests), NEW r \in Requests
  PROVE  OfConfig(Append(s, r), k) =
           IF call[r].cfg = k THEN Append(OfConfig(s, k), r) ELSE OfConfig(s, k)
<1> DEFINE t == Picked(s, k)
           a == Append(s, r)
           x == One(r, k)
           n == Len(s)
<1>1. a \in Seq(Requests) /\ x \in Seq(Requests) /\ n \in Nat /\ DOMAIN a = 1..(n + 1) /\ DOMAIN s = 1..n
      /\ a[n + 1] = r /\ \A i \in 1..n : a[i] = s[i]
  BY DEF One
<1>2. /\ OfConfig(s, k) = FlattenSeq(t) /\ t \in Seq(Seq(Requests)) /\ Len(t) = n
      /\ \A i \in DOMAIN s : t[i] = One(s[i], k)
  BY PickedTypes
<1>3. OfConfig(a, k) = FlattenSeq(Picked(a, k))
  BY <1>1, PickedTypes
<1>4. Picked(a, k) = Append(t, x)
  <2> DEFINE p == Picked(a, k)
  <2>1. p \in Seq(Seq(Requests)) /\ Len(p) = n + 1 /\ \A i \in 1..(n + 1) : p[i] = One(a[i], k)
    <3>1. Len(a) = n + 1
      OBVIOUS
    <3>2. QED
      BY <1>1, <3>1, PickedTypes
  <2> HIDE DEF p, t, a, n
  <2>2. x \in Seq(Requests) /\ One(a[n + 1], k) = x
    BY <1>1
  <2> HIDE DEF x
  <2>3. /\ Append(t, x) \in Seq(Seq(Requests)) /\ Len(Append(t, x)) = n + 1
        /\ Append(t, x)[n + 1] = x /\ \A i \in 1..n : Append(t, x)[i] = t[i]
    BY <1>2, <2>2
  <2>4. ASSUME NEW i \in 1..(n + 1) PROVE p[i] = Append(t, x)[i]
    <3>1. CASE i = n + 1
      BY <2>1, <2>2, <2>3, <3>1
    <3>2. CASE i # n + 1
      <4>1. i \in 1..n
        BY <1>1, <3>2
      <4>2. a[i] = s[i] /\ t[i] = One(s[i], k) /\ Append(t, x)[i] = t[i]
        BY <1>1, <1>2, <2>3, <4>1
      <4>3. QED
        BY <2>1, <4>2
    <3>3. QED
      BY <3>1, <3>2
  <2>5. p = Append(t, x)
    BY <2>1, <2>3, <2>4, SeqEqual
  <2>6. QED
    BY <2>5 DEF p
<1>5. FlattenSeq(Append(t, x)) = FlattenSeq(t) \o x
  <2> HIDE DEF t, x
  <2>1. QED
    BY <1>1, <1>2, FlattenAppend
<1>6. OfConfig(s, k) \in Seq(Requests)
  BY OfConfigTypes
<1>7. PICK o \in Seq(Requests) : o = OfConfig(s, k)
  BY <1>6
<1>8. o \o <<r>> = Append(o, r) /\ o \o <<>> = o
  OBVIOUS
<1> HIDE DEF t, a
<1>9. OfConfig(a, k) = o \o x
  BY <1>2, <1>3, <1>4, <1>5, <1>7
<1>10. QED
  BY <1>7, <1>8, <1>9 DEF One, a

\* The call that is taken from the queue is the first one of its config.
LEMMA OfConfigFirst ==
  ASSUME NEW k, NEW s \in Seq(Requests), s # <<>>
  PROVE  /\ OfConfig(s, k) = One(Head(s), k) \o OfConfig(Tail(s), k)
         /\ Head(s) \in Requests /\ OfConfig(Tail(s), k) \in Seq(Requests)
<1> DEFINE t == Picked(s, k)
           b == Tail(s)
           n == Len(s)
<1>1. /\ b \in Seq(Requests) /\ n \in Nat \ {0} /\ DOMAIN s = 1..n /\ DOMAIN b = 1..(n - 1)
      /\ \A i \in 1..(n - 1) : b[i] = s[i + 1] /\ i + 1 \in 1..n
      /\ Head(s) = s[1] /\ 1 \in 1..n /\ Head(s) \in Requests
  <2>1. \A i \in 1..(n - 1) : b[i] = s[i + 1]
    BY HeadTailProperties
  <2>2. QED
    BY <2>1
<1>2. /\ OfConfig(s, k) = FlattenSeq(t) /\ t \in Seq(Seq(Requests)) /\ Len(t) = n
      /\ \A i \in DOMAIN s : t[i] = One(s[i], k)
  BY PickedTypes
<1>3. OfConfig(b, k) = FlattenSeq(Picked(b, k)) /\ OfConfig(b, k) \in Seq(Requests)
  BY <1>1, PickedTypes, OfConfigTypes
<1> HIDE DEF t, b, n
<1>4. Head(t) = One(Head(s), k) /\ t # <<>>
  BY <1>1, <1>2
<1>5. Picked(b, k) = Tail(t)
  <2> DEFINE p == Picked(b, k)
  <2>1. p \in Seq(Seq(Requests)) /\ Len(p) = n - 1 /\ \A i \in 1..(n - 1) : p[i] = One(b[i], k)
    <3>1. Len(b) = n - 1
      BY <1>1
    <3>2. QED
      BY <1>1, <3>1, PickedTypes
  <2> HIDE DEF p
  <2>2. /\ Tail(t) \in Seq(Seq(Requests)) /\ Len(Tail(t)) = n - 1
        /\ \A i \in 1..(n - 1) : Tail(t)[i] = t[i + 1]
    BY <1>2, <1>4, HeadTailProperties
  <2>3. ASSUME NEW i \in 1..(n - 1) PROVE p[i] = Tail(t)[i]
    <3>1. b[i] = s[i + 1] /\ i + 1 \in DOMAIN s
      BY <1>1
    <3>2. p[i] = One(s[i + 1], k) /\ Tail(t)[i] = t[i + 1]
      BY <2>1, <2>2, <3>1
    <3>3. QED
      BY <1>2, <3>1, <3>2
  <2>4. p = Tail(t)
    BY <2>1, <2>2, <2>3, SeqEqual
  <2>5. QED
    BY <2>4 DEF p
<1>6. FlattenSeq(t) = Head(t) \o FlattenSeq(Tail(t))
  BY <1>2, <1>4, FlattenFirst
<1>7. OfConfig(s, k) = One(Head(s), k) \o OfConfig(b, k)
  BY <1>2, <1>3, <1>4, <1>5, <1>6
<1>8. QED
  BY <1>1, <1>3, <1>7 DEF b
-----------------------------------------------------------------------------
(* The line of a config, through the pool and the queue.                   *)

UniqueKeys(entries) == \A i, j \in DOMAIN entries : entries[i].key = entries[j].key => i = j

\* As the keys are different, a config's list is that of its one entry.
LEMMA ListIs ==
  ASSUME NEW entries, UniqueKeys(entries), NEW k
  PROVE  /\ \A i \in DOMAIN entries : entries[i].key = k => ListOf(entries, k) = entries[i].data
         /\ (\A i \in DOMAIN entries : entries[i].key # k) => ListOf(entries, k) = <<>>
<1> DEFINE entry == {i \in DOMAIN entries : entries[i].key = k}
<1>1. ASSUME NEW i \in DOMAIN entries, entries[i].key = k
      PROVE  ListOf(entries, k) = entries[i].data
  <2>1. i \in entry
    BY <1>1
  <2>2. PICK j \in entry : j = CHOOSE l \in entry : TRUE
    BY <2>1
  <2>3. j = i
    BY <1>1 DEF UniqueKeys
  <2>4. ListOf(entries, k) = entries[j].data
    BY <2>1, <2>2, Zenon DEF ListOf
  <2>5. QED
    BY <2>3, <2>4
<1>2. ASSUME \A i \in DOMAIN entries : entries[i].key # k
      PROVE  ListOf(entries, k) = <<>>
  BY <1>2, Zenon DEF ListOf
<1>3. QED
  BY <1>1, <1>2

LEMMA MembersConcat ==
  ASSUME NEW S, NEW s \in Seq(S), NEW t \in Seq(S)
  PROVE  Members(s \o t) \subseteq Members(s) \cup Members(t)
<1> SUFFICES ASSUME NEW n \in DOMAIN (s \o t)
             PROVE  (s \o t)[n] \in Members(s) \cup Members(t)
  BY DEF Members
<1>1. CASE n <= Len(s)
  <2>1. n \in DOMAIN s /\ (s \o t)[n] = s[n]
    BY <1>1
  <2>2. QED
    BY <2>1 DEF Members
<1>2. CASE ~(n <= Len(s))
  <2>1. n - Len(s) \in DOMAIN t /\ (s \o t)[n] = t[n - Len(s)]
    BY <1>2
  <2>2. QED
    BY <2>1 DEF Members
<1>3. QED
  BY <1>1, <1>2

\* What is in a line waits in the pool or in the queue.
LEMMA LineTypes ==
  ASSUME TypeOK, BatchFits, NEW k
  PROVE  /\ ListOf(pool, k) \in Seq(Requests)
         /\ \A r \in Members(Line(k)) : r \in Requests /\ (Queued(r) \/ Pooled(r))
<1>1. UniqueKeys(pool)
  BY DEF BatchFits, UniqueKeys
<1>2. \A i \in DOMAIN pool : pool[i].data \in Seq(Requests)
  <2>1. \A i \in DOMAIN pool : pool[i] \in Entry
    BY DEF TypeOK
  <2>2. QED
    BY <2>1 DEF Entry
<1>3. ListOf(pool, k) = <<>> \/ \E i \in DOMAIN pool : ListOf(pool, k) = pool[i].data
  BY <1>1, ListIs
<1>4. Members(<<>>) = {} /\ <<>> \in Seq(Requests)
  BY DEF Members
<1>5. \A r \in Members(ListOf(pool, k)) : Pooled(r)
  BY <1>3, <1>4 DEF Pooled
<1>6. ListOf(pool, k) \in Seq(Requests)
  BY <1>2, <1>3, <1>4
<1>7. queue \in Seq(Requests)
  BY DEF TypeOK
<1>8. OfConfig(queue, k) \in Seq(Requests) /\ Members(OfConfig(queue, k)) \subseteq Members(queue)
  BY <1>7, OfConfigTypes
<1>9. Members(Line(k)) \subseteq Members(ListOf(pool, k)) \cup Members(OfConfig(queue, k))
  BY <1>6, <1>8, MembersConcat DEF Line
<1>10. Members(ListOf(pool, k)) \subseteq Requests /\ Members(queue) \subseteq Requests
  BY <1>6, <1>7 DEF Members
<1>11. QED
  BY <1>5, <1>6, <1>8, <1>9, <1>10 DEF Queued

LEMMA SameLines ==
  ASSUME UNCHANGED <<call, queue, pool>>
  PROVE  \A k : Line(k)' = Line(k)
BY DEF Line, OfConfig

\* A call that is made is the last one of its line.
LEMMA CallJoinsLine ==
  ASSUME TypeOK, BatchFits, NEW r \in Requests, Call(r), NEW k
  PROVE  Line(k)' = IF call[r].cfg = k THEN Append(Line(k), r) ELSE Line(k)
<1>1. queue \in Seq(Requests) /\ queue' = Append(queue, r) /\ pool' = pool /\ call' = call
  BY DEF TypeOK, Call, callVars
<1>2. Line(k)' = ListOf(pool, k) \o OfConfig(Append(queue, r), k)
  BY <1>1 DEF Line, OfConfig
<1>3. PICK d \in Seq(Requests) : d = ListOf(pool, k)
  BY LineTypes
<1>4. PICK o \in Seq(Requests) : o = OfConfig(queue, k)
  BY <1>1, OfConfigTypes
<1>5. OfConfig(Append(queue, r), k) = IF call[r].cfg = k THEN Append(o, r) ELSE o
  BY <1>1, <1>4, OfConfigAppend
<1>6. d \o Append(o, r) = Append(d \o o, r)
  OBVIOUS
<1>7. QED
  BY <1>2, <1>3, <1>4, <1>5, <1>6 DEF Line

\* A call that is drained goes from the head of the queue's part of its line to
\* the end of the pool's.
LEMMA DrainKeepsLines ==
  ASSUME TypeOK, BatchFits, Drain, NEW k
  PROVE  Line(k)' = Line(k)
<1> DEFINE r == Head(queue)
<1>1. /\ queue \in Seq(Requests) /\ queue # <<>>
      /\ queue' = Tail(queue) /\ pool' = AddTask(r) /\ call' = call
  BY DEF TypeOK, Drain, callVars
<1>2. /\ OfConfig(queue, k) = One(r, k) \o OfConfig(Tail(queue), k)
      /\ r \in Requests /\ OfConfig(Tail(queue), k) \in Seq(Requests)
  BY <1>1, OfConfigFirst
<1>3. PICK o \in Seq(Requests) : o = OfConfig(Tail(queue), k)
  BY <1>2
<1>4. PICK d \in Seq(Requests) : d = ListOf(pool, k)
  BY LineTypes
<1>5. UniqueKeys(pool) /\ UniqueKeys(pool')
  BY DrainFits DEF BatchFits, UniqueKeys
<1> HIDE DEF r
<1>6. ListOf(pool', k) = IF call[r].cfg = k THEN Append(d, r) ELSE d
  <2>1. CASE HasKey(r)
    <3>1. /\ DOMAIN pool' = DOMAIN pool
          /\ \A i \in DOMAIN pool :
               /\ pool'[i].key = pool[i].key
               /\ pool'[i].data = IF pool[i].key = KeyOf(r) THEN Append(pool[i].data, r) ELSE pool[i].data
      BY <1>1, <1>2, <2>1, JoinTask
    <3>2. CASE \E i \in DOMAIN pool : pool[i].key = k
      <4>1. PICK i \in DOMAIN pool : pool[i].key = k
        BY <3>2
      <4>2. d = pool[i].data /\ ListOf(pool', k) = pool'[i].data
        BY <1>4, <1>5, <3>1, <4>1, ListIs
      <4>3. QED
        BY <3>1, <4>1, <4>2 DEF KeyOf
    <3>3. CASE \A i \in DOMAIN pool : pool[i].key # k
      <4>1. d = <<>> /\ ListOf(pool', k) = <<>>
        BY <1>4, <1>5, <3>1, <3>3, ListIs
      <4>2. call[r].cfg # k
        BY <2>1, <3>3 DEF HasKey, KeyOf
      <4>3. QED
        BY <4>1, <4>2
    <3>4. QED
      BY <3>2, <3>3
  <2>2. CASE ~HasKey(r)
    <3> DEFINE last == Len(pool) + 1
               e == [key |-> KeyOf(r), kwargs |-> KwargsOf(r), data |-> <<r>>]
    <3>1. /\ DOMAIN pool' = 1..last /\ pool'[last] = e
          /\ \A i \in DOMAIN pool : pool'[i] = pool[i]
      BY <1>1, <1>2, <2>2, NewTask
    <3>2. DOMAIN pool = 1..Len(pool) /\ Len(pool) \in Nat
      BY DEF TypeOK
    <3>3. /\ last \in DOMAIN pool' /\ DOMAIN pool \subseteq DOMAIN pool'
          /\ \A i \in DOMAIN pool' : i \in DOMAIN pool \/ i = last
      BY <3>1, <3>2
    <3>4. e.key = call[r].cfg /\ e.data = <<r>>
      BY DEF KeyOf
    <3> HIDE DEF last, e
    <3>5. CASE call[r].cfg = k
      <4>1. \A i \in DOMAIN pool : pool[i].key # k
        BY <2>2, <3>5 DEF HasKey, KeyOf
      <4>2. d = <<>>
        BY <1>4, <1>5, <4>1, ListIs
      <4>3. ListOf(pool', k) = <<r>>
        BY <1>5, <3>1, <3>3, <3>4, <3>5, ListIs
      <4>4. Append(<<>>, r) = <<r>>
        OBVIOUS
      <4>5. QED
        BY <3>5, <4>2, <4>3, <4>4
    <3>6. CASE call[r].cfg # k /\ \E i \in DOMAIN pool : pool[i].key = k
      <4>1. PICK i \in DOMAIN pool : pool[i].key = k
        BY <3>6
      <4>2. i \in DOMAIN pool' /\ pool'[i] = pool[i]
        BY <3>1, <3>3
      <4>3. d = pool[i].data
        BY <1>4, <1>5, <4>1, ListIs
      <4>4. ListOf(pool', k) = pool'[i].data
        BY <1>5, <4>1, <4>2, ListIs
      <4>5. QED
        BY <3>6, <4>2, <4>3, <4>4
    <3>7. CASE call[r].cfg # k /\ \A i \in DOMAIN pool : pool[i].key # k
      <4>1. \A i \in DOMAIN pool' : pool'[i].key # k
        BY <3>1, <3>3, <3>4, <3>7
      <4>2. d = <<>>
        BY <1>4, <1>5, <3>7, ListIs
      <4>3. ListOf(pool', k) = <<>>
        BY <1>5, <4>1, ListIs
      <4>4. QED
        BY <3>7, <4>2, <4>3
    <3>8. QED
      BY <3>5, <3>6, <3>7
  <2>3. QED
    BY <2>1, <2>2
<1>7. Line(k)' = ListOf(pool', k) \o o
  BY <1>1, <1>3 DEF Line, OfConfig
<1>8. Line(k) = d \o (One(r, k) \o o)
  BY <1>2, <1>3, <1>4 DEF Line
<1>9. PICK q \in Requests : q = r
  BY <1>2
<1>10. Append(d, q) \o o = d \o (<<q>> \o o) /\ d \o (<<>> \o o) = d \o o
  OBVIOUS
<1>11. QED
  BY <1>6, <1>7, <1>8, <1>9, <1>10 DEF One

\* A batch is a prefix of one line, and the line keeps the rest.
LEMMA TakeCutsLine ==
  ASSUME TypeOK, BatchFits, Take, NEW key, key = pool[1].key
  PROVE  /\ key \in Configs
         /\ Line(key) = pool[1].data /\ pool[1].data # <<>>
         /\ Line(key)' = SubSeq(pool[1].data, BatchLen(pool[1].data) + 1, Len(pool[1].data))
         /\ \A k : k # key => Line(k)' = Line(k)
<1> DEFINE data == pool[1].data
           n    == BatchLen(data)
           rest == SubSeq(data, n + 1, Len(data))
<1>1. pool # <<>> /\ pool' = Remaining(n) /\ queue = <<>> /\ queue' = <<>> /\ call' = call
  BY DEF Take, callVars
<1>2. 1 \in DOMAIN pool /\ data \in Seq(Requests) /\ key \in Configs
  BY <1>1, FirstEntry DEF Entry
<1>3. n \in 0..Len(data) /\ rest \in Seq(Requests) /\ Len(rest) = Len(data) - n /\ Len(data) \in Nat
  <2>1. n \in 0..Len(data) /\ Len(data) \in Nat
    BY <1>2, BatchLenBounds
  <2> HIDE DEF n, data
  <2>2. QED
    BY <1>2, <2>1, MembersSplit
<1>4. UniqueKeys(pool) /\ data # <<>>
  BY <1>2 DEF BatchFits, UniqueKeys
<1>5. UniqueKeys(pool')
  BY TakeFits DEF BatchFits, UniqueKeys
<1> HIDE DEF n, rest
<1>6. \A k : Line(k) = ListOf(pool, k) /\ Line(k)' = ListOf(pool', k)
  <2> SUFFICES ASSUME NEW k PROVE Line(k) = ListOf(pool, k) /\ Line(k)' = ListOf(pool', k)
    OBVIOUS
  <2>1. Line(k) = ListOf(pool, k) \o <<>> /\ Line(k)' = ListOf(pool', k) \o <<>>
    <3>1. OfConfig(<<>>, k) = <<>>
      BY OfConfigEmpty
    <3>2. OfConfig(queue, k) = <<>>
      BY <1>1, <3>1
    <3>3. OfConfig(queue, k)' = OfConfig(<<>>, k)
      BY <1>1 DEF OfConfig
    <3>4. QED
      BY <3>1, <3>2, <3>3 DEF Line
  <2>2. PICK a \in Seq(Requests) : a = ListOf(pool, k)
    BY LineTypes
  <2>3. PICK b \in Seq(Requests) : b = ListOf(pool', k)
    <3>1. TypeOK' /\ BatchFits'
      BY TypeStep, FitsStep DEF Next, WorkerStep
    <3>2. \A i \in DOMAIN pool' : pool'[i].data \in Seq(Requests)
      <4>1. \A i \in DOMAIN pool' : pool'[i] \in Entry
        BY <3>1 DEF TypeOK
      <4>2. QED
        BY <4>1 DEF Entry
    <3>3. ListOf(pool', k) = <<>> \/ \E i \in DOMAIN pool' : ListOf(pool', k) = pool'[i].data
      BY <1>5, ListIs
    <3>4. ListOf(pool', k) \in Seq(Requests)
      <4>1. CASE ListOf(pool', k) = <<>>
        BY <4>1
      <4>2. CASE \E i \in DOMAIN pool' : ListOf(pool', k) = pool'[i].data
        BY <3>2, <4>2
      <4>3. QED
        BY <3>3, <4>1, <4>2
    <3>5. QED
      BY <3>4
  <2>4. a \o <<>> = a /\ b \o <<>> = b
    OBVIOUS
  <2>5. QED
    BY <2>1, <2>2, <2>3, <2>4
<1>7. Line(key) = data
  BY <1>2, <1>4, <1>6, ListIs
<1>8. CASE n < Len(data)
  <2>1. /\ DOMAIN pool' = DOMAIN pool /\ pool'[1].key = key /\ pool'[1].data = rest
        /\ \A i \in DOMAIN pool : i # 1 => pool'[i] = pool[i]
    BY <1>1, <1>3, <1>8, KeepFirst DEF rest
  <2>2. ListOf(pool', key) = rest
    BY <1>2, <1>5, <2>1, ListIs
  <2>3. ASSUME NEW k, k # key PROVE ListOf(pool', k) = ListOf(pool, k)
    <3>1. CASE \E i \in DOMAIN pool : pool[i].key = k
      <4>1. PICK i \in DOMAIN pool : pool[i].key = k
        BY <3>1
      <4>2. i # 1 /\ i \in DOMAIN pool' /\ pool'[i] = pool[i]
        BY <2>1, <2>3, <4>1
      <4>3. ListOf(pool, k) = pool[i].data
        BY <1>4, <4>1, ListIs
      <4>4. ListOf(pool', k) = pool'[i].data
        BY <1>5, <4>1, <4>2, ListIs
      <4>5. QED
        BY <4>2, <4>3, <4>4
    <3>2. CASE \A i \in DOMAIN pool : pool[i].key # k
      <4>1. \A i \in DOMAIN pool' : pool'[i].key # k
        BY <2>1, <2>3, <3>2
      <4>2. QED
        BY <1>4, <1>5, <3>2, <4>1, ListIs
    <3>3. QED
      BY <3>1, <3>2
  <2>4. Line(key)' = rest
    BY <1>6, <2>2
  <2>5. \A k : k # key => Line(k)' = Line(k)
    BY <1>6, <2>3
  <2>6. QED
    BY <1>2, <1>4, <1>7, <2>4, <2>5 DEF n, rest
<1>9. CASE ~(n < Len(data))
  <2>1. /\ \A i \in DOMAIN pool' : i + 1 \in DOMAIN pool /\ pool'[i] = pool[i + 1]
        /\ \A i \in DOMAIN pool : i # 1 => i - 1 \in DOMAIN pool' /\ pool'[i - 1] = pool[i]
    BY <1>1, <1>3, <1>9, DropFirst
  <2>2. \A i \in DOMAIN pool' : i + 1 # 1 /\ pool'[i].key # key
    <3>1. \A i \in DOMAIN pool' : i \in Nat \ {0}
      <4>1. pool' \in Seq(Entry)
        BY TypeStep DEF Next, WorkerStep, TypeOK
      <4>2. QED
        BY <4>1
    <3>2. QED
      BY <1>2, <1>4, <2>1, <3>1 DEF UniqueKeys
  <2>3. ListOf(pool', key) = <<>>
    BY <1>5, <2>2, ListIs
  <2>4. rest = <<>>
    <3>1. Len(rest) = 0
      BY <1>3, <1>9
    <3>2. QED
      BY <1>3, <3>1, EmptySeq
  <2>5. ASSUME NEW k, k # key PROVE ListOf(pool', k) = ListOf(pool, k)
    <3>1. CASE \E i \in DOMAIN pool : pool[i].key = k
      <4>1. PICK i \in DOMAIN pool : pool[i].key = k
        BY <3>1
      <4>2. i - 1 \in DOMAIN pool' /\ pool'[i - 1] = pool[i]
        BY <2>1, <2>5, <4>1
      <4>3. ListOf(pool, k) = pool[i].data
        BY <1>4, <4>1, ListIs
      <4>4. ListOf(pool', k) = pool'[i - 1].data
        BY <1>5, <4>1, <4>2, ListIs
      <4>5. QED
        BY <4>2, <4>3, <4>4
    <3>2. CASE \A i \in DOMAIN pool : pool[i].key # k
      <4>1. \A i \in DOMAIN pool' : pool'[i].key # k
        BY <2>1, <3>2
      <4>2. QED
        BY <1>4, <1>5, <3>2, <4>1, ListIs
    <3>3. QED
      BY <3>1, <3>2
  <2>6. Line(key)' = rest
    BY <1>6, <2>3, <2>4
  <2>7. \A k : k # key => Line(k)' = Line(k)
    BY <1>6, <2>5
  <2>8. QED
    BY <1>2, <1>4, <1>7, <2>6, <2>7 DEF n, rest
<1>10. QED
  BY <1>8, <1>9
-----------------------------------------------------------------------------
(* Every step is one of BatchQueue, or leaves its variables alone.         *)

\* The worker runs a batch of at least one call.
SomeBatch == worker \notin {"none", "fetch"} => batch # <<>>

LEMMA BatchStep == TypeOK /\ BatchFits /\ SomeBatch /\ [Next]_vars => SomeBatch'
<1> SUFFICES ASSUME TypeOK, BatchFits, SomeBatch, [Next]_vars PROVE SomeBatch'
  OBVIOUS
<1> USE DEF workerVars
<1>1. ASSUME NEW r \in Requests, CallerStep(r) PROVE SomeBatch'
  BY <1>1 DEF CallerStep, Call, Resume, Receive, SomeBatch
<1>2. CASE Take
  <2> DEFINE data == pool[1].data
             n == BatchLen(data)
  <2>1. pool # <<>> /\ batch' = SubSeq(data, 1, n)
    BY <1>2 DEF Take
  <2>2. data \in Seq(Requests) /\ data # <<>>
    BY <2>1, FirstEntry DEF BatchFits
  <2>3. n \in 0..Len(data) /\ n > 0
    BY <2>2, BatchLenBounds
  <2> HIDE DEF n, data
  <2>4. Len(batch') = n
    BY <2>1, <2>2, <2>3, MembersSplit
  <2>5. QED
    BY <2>3, <2>4 DEF SomeBatch
<1>3. CASE Drain \/ EncodeRaises \/ StartStream \/ StreamChunk \/ StreamLast \/ GenerateRaises
  BY <1>3 DEF Drain, EncodeRaises, StartStream, StreamChunk, StreamLast, GenerateRaises, SomeBatch
<1>4. CASE AnswerFull \/ StreamStop
  BY <1>4 DEF AnswerFull, StreamStop, EndBatch, SomeBatch
<1>5. CASE UNCHANGED vars
  BY <1>5 DEF vars, SomeBatch
<1>6. QED
  BY <1>1, <1>2, <1>3, <1>4, <1>5 DEF Next, WorkerStep

\* A call that was not made is in no line, in no batch, and was not served.
LEMMA IdleUnknown ==
  ASSUME TypeOK, BatchFits, Fresh, NEW r \in Requests, caller[r] = "idle"
  PROVE  r \notin Promise!Known
<1>1. ~Queued(r) /\ ~Pooled(r) /\ ~Held(r)
  BY DEF Fresh, Nowhere
<1>2. r \notin Away
  BY DEF Away
<1>3. r \notin Promise!Members(batch)
  BY <1>1 DEF Promise!Members, Held, Members
<1>4. ASSUME NEW k \in Configs PROVE r \notin Promise!Members([l \in Configs |-> Line(l)][k])
  <2>1. r \notin Members(Line(k))
    BY <1>1, LineTypes
  <2>2. QED
    BY <2>1 DEF Promise!Members, Members
<1>5. QED
  BY <1>2, <1>3, <1>4 DEF Promise!Known

\* What leaves the promised lines, batch and served calls as they are.
LEMMA Stutters ==
  ASSUME UNCHANGED <<call, batch>>, \A k : Line(k)' = Line(k), Away' = Away
  PROVE  UNCHANGED Promise!vars
<1>1. [k \in Configs |-> Line(k)]' = [k \in Configs |-> Line(k)]
  OBVIOUS
<1>2. [r \in Requests |-> call[r].cfg]' = [r \in Requests |-> call[r].cfg]
  OBVIOUS
<1>3. QED
  BY <1>1, <1>2 DEF Promise!vars

LEMMA SameAway ==
  ASSUME \A r \in Requests : /\ caller'[r] = "idle" <=> caller[r] = "idle"
                             /\ (Queued(r) \/ Pooled(r) \/ Held(r))' <=> Queued(r) \/ Pooled(r) \/ Held(r)
  PROVE  Away' = Away
BY DEF Away

LEMMA CallMaps ==
  ASSUME TypeOK, BatchFits, Fresh, NEW r \in Requests, Call(r)
  PROVE  Promise!Submit(r)
<1>1. /\ queue \in Seq(Requests) /\ queue' = Append(queue, r) /\ caller[r] = "idle"
      /\ caller' = [caller EXCEPT ![r] = "queued"] /\ UNCHANGED <<call, pool, batch>>
  BY DEF TypeOK, Call, callVars, workerVars
<1>2. r \notin Promise!Known
  BY <1>1, IdleUnknown
<1>3. \A k : Line(k)' = IF call[r].cfg = k THEN Append(Line(k), r) ELSE Line(k)
  BY CallJoinsLine
<1>4. [k \in Configs |-> Line(k)]' =
        [[k \in Configs |-> Line(k)] EXCEPT ![[q \in Requests |-> call[q].cfg][r]] = Append(@, r)]
  <2> DEFINE c == call[r].cfg
             lines == [k \in Configs |-> Line(k)]
  <2>1. c \in Configs /\ [q \in Requests |-> call[q].cfg][r] = c
    BY DEF TypeOK
  <2>2. [k \in Configs |-> Line(k)]' = [k \in Configs |-> IF c = k THEN Append(Line(k), r) ELSE Line(k)]
    BY <1>3
  <2> HIDE DEF c
  <2>3. [lines EXCEPT ![c] = Append(@, r)] =
          [k \in Configs |-> IF c = k THEN Append(Line(k), r) ELSE Line(k)]
    BY <2>1
  <2>4. QED
    BY <2>1, <2>2, <2>3
<1>5. Away' = Away
  <2>1. Members(queue') = Members(queue) \cup {r}
    BY <1>1, MembersAppend
  <2>2. \A q \in Requests : /\ Queued(q)' <=> (Queued(q) \/ q = r)
                            /\ Pooled(q)' <=> Pooled(q)
                            /\ Held(q)' <=> Held(q)
    BY <1>1, <2>1 DEF Queued, Pooled, Held
  <2>3. \A q \in Requests : q # r => caller'[q] = caller[q]
    BY <1>1 DEF TypeOK
  <2>4. QED
    BY <1>1, <2>2, <2>3 DEF Away
<1>6. [q \in Requests |-> call[q].cfg]' = [q \in Requests |-> call[q].cfg]
  BY <1>1
<1>7. QED
  BY <1>1, <1>2, <1>4, <1>5, <1>6 DEF Promise!Submit

LEMMA TakeMaps ==
  ASSUME TypeOK, BatchFits, NoBatch, Take
  PROVE  \E k \in Configs : Promise!Serve(k)
<1>1. PICK key : key = pool[1].key
  OBVIOUS
<1> DEFINE data == pool[1].data
           n == BatchLen(data)
           lines == [k \in Configs |-> Line(k)]
<1>2. /\ key \in Configs /\ Line(key) = data /\ data # <<>>
      /\ Line(key)' = SubSeq(data, n + 1, Len(data))
      /\ \A k : k # key => Line(k)' = Line(k)
  BY <1>1, TakeCutsLine
<1>3. /\ batch = <<>> /\ batch' = SubSeq(data, 1, n) /\ UNCHANGED <<call, caller>>
  BY DEF Take, NoBatch, callVars
<1>4. Promise!BatchLen(data) = n
  BY DEF Promise!BatchLen, BatchLen
<1> HIDE DEF data, n
<1>5. lines' = [lines EXCEPT ![key] = SubSeq(@, n + 1, Len(@))]
  <2>1. lines' = [k \in Configs |-> IF k = key THEN SubSeq(Line(key), n + 1, Len(Line(key))) ELSE Line(k)]
    BY <1>2
  <2>2. QED
    BY <1>2, <2>1
<1>6. Away' = Away
  <2>1. \A r \in Requests : ~Held(r)
    BY <1>3 DEF Held, Members
  <2>2. QED
    BY <1>3, <2>1, TakeMoves, SameAway
<1>7. [q \in Requests |-> call[q].cfg]' = [q \in Requests |-> call[q].cfg]
  BY <1>3
<1>8. lines[key] = data
  BY <1>2
<1>9. Promise!Serve(key)
  BY <1>2, <1>3, <1>4, <1>5, <1>6, <1>7, <1>8 DEF Promise!Serve
<1>10. QED
  BY <1>2, <1>9

LEMMA EndMaps ==
  ASSUME TypeOK, SomeBatch, Apart, Fresh, EndBatch, worker \notin {"none", "fetch"},
         UNCHANGED <<call, queue, pool, caller>>
  PROVE  Promise!Finish
<1>1. batch # <<>> /\ batch' = <<>> /\ batch \in Seq(Requests)
  BY DEF SomeBatch, EndBatch, TypeOK
<1>2. \A k : Line(k)' = Line(k)
  BY SameLines
<1>3. [k \in Configs |-> Line(k)]' = [k \in Configs |-> Line(k)]
  BY <1>2
<1>4. \A r \in Requests : (Queued(r)' <=> Queued(r)) /\ (Pooled(r)' <=> Pooled(r)) /\ ~Held(r)'
  BY <1>1 DEF Queued, Pooled, Held, Members
<1>5. \A r \in Members(batch) : r \in Requests /\ Held(r)
  BY <1>1 DEF Members, Held
<1>6. \A r \in Requests : Held(r) => caller[r] # "idle" /\ ~Queued(r) /\ ~Pooled(r)
  BY DEF Apart, Fresh, Nowhere
<1>7. \A r \in Requests : Held(r) <=> r \in Members(batch)
  BY DEF Held
<1>8. Away' = Away \cup Members(batch)
  BY <1>4, <1>5, <1>6, <1>7 DEF Away
<1>9. Promise!Members(batch) = Members(batch)
  BY DEF Promise!Members, Members
<1>10. [q \in Requests |-> call[q].cfg]' = [q \in Requests |-> call[q].cfg]
  OBVIOUS
<1>11. QED
  BY <1>1, <1>3, <1>8, <1>9, <1>10 DEF Promise!Finish

LEMMA StepMaps ==
  TypeOK /\ BatchFits /\ NoBatch /\ SomeBatch /\ OnceInv /\ [Next]_vars => [Promise!Next]_(Promise!vars)
<1> SUFFICES ASSUME TypeOK, BatchFits, NoBatch, SomeBatch, OnceInv, [Next]_vars
             PROVE  Promise!Next \/ UNCHANGED Promise!vars
  OBVIOUS
<1> USE DEF callVars, workerVars
<1>1. ASSUME NEW r \in Requests, Call(r) PROVE Promise!Next
  BY <1>1, CallMaps DEF OnceInv, Promise!Next
<1>2. CASE Take
  BY <1>2, TakeMaps DEF Promise!Next
<1>3. CASE AnswerFull \/ StreamStop
  <2>1. EndBatch /\ worker \notin {"none", "fetch"} /\ UNCHANGED <<call, queue, pool, caller>>
    BY <1>3 DEF AnswerFull, StreamStop
  <2>2. QED
    BY <2>1, EndMaps DEF OnceInv, Promise!Next
<1>4. CASE Drain
  <2>1. \A k : Line(k)' = Line(k)
    BY <1>4, DrainKeepsLines
  <2>2. UNCHANGED <<call, batch, caller>>
    BY <1>4 DEF Drain
  <2>3. queue \in Seq(Requests) /\ queue # <<>>
    BY <1>4 DEF Drain, TypeOK
  <2>4. Away' = Away
    BY <1>4, <2>2, DrainMoves, SameAway
  <2>5. QED
    BY <2>1, <2>2, <2>4, Stutters
<1>5. ASSUME UNCHANGED <<call, queue, pool, batch>>,
             \A r \in Requests : caller'[r] = "idle" <=> caller[r] = "idle"
      PROVE  UNCHANGED Promise!vars
  <2>1. \A k : Line(k)' = Line(k)
    BY <1>5, SameLines
  <2>2. \A r \in Requests : (Queued(r) \/ Pooled(r) \/ Held(r))' <=> Queued(r) \/ Pooled(r) \/ Held(r)
    BY <1>5 DEF Queued, Pooled, Held
  <2>3. Away' = Away
    BY <1>5, <2>2, SameAway
  <2>4. QED
    BY <1>5, <2>1, <2>3, Stutters
<1>6. ASSUME NEW r \in Requests, Resume(r) \/ Receive(r) PROVE UNCHANGED Promise!vars
  <2>1. UNCHANGED <<call, queue, pool, batch>>
    BY <1>6 DEF Resume, Receive
  <2>2. \A q \in Requests : caller'[q] = "idle" <=> caller[q] = "idle"
    BY <1>6 DEF Resume, Receive, TypeOK
  <2>3. QED
    BY <1>5, <2>1, <2>2
<1>7. CASE EncodeRaises \/ StartStream \/ StreamChunk \/ StreamLast \/ GenerateRaises \/ UNCHANGED vars
  <2>1. UNCHANGED <<call, queue, pool, batch, caller>>
    BY <1>7 DEF EncodeRaises, StartStream, StreamChunk, StreamLast, GenerateRaises, vars
  <2>2. QED
    BY <1>5, <2>1
<1>8. QED
  BY <1>1, <1>2, <1>3, <1>4, <1>6, <1>7 DEF Next, CallerStep, WorkerStep

LEMMA InitMaps == Init => Promise!Init
<1> SUFFICES ASSUME Init PROVE Promise!Init
  OBVIOUS
<1>1. [r \in Requests |-> call[r].cfg] \in [Requests -> Configs]
  BY DEF Init
<1>2. \A k : Line(k) = <<>>
  <2> SUFFICES ASSUME NEW k PROVE Line(k) = <<>>
    OBVIOUS
  <2>1. OfConfig(queue, k) = <<>>
    BY OfConfigEmpty DEF Init
  <2>2. ListOf(pool, k) = <<>>
    <3>1. pool = <<>> /\ DOMAIN pool = {}
      BY DEF Init
    <3>2. QED
      BY <3>1, ListIs DEF UniqueKeys
  <2>3. QED
    BY <2>1, <2>2 DEF Line
<1>3. [k \in Configs |-> Line(k)] = [k \in Configs |-> <<>>]
  BY <1>2
<1>4. Away = {}
  BY DEF Init, Away
<1>5. batch = <<>>
  BY DEF Init
<1>6. QED
  BY <1>1, <1>3, <1>4, <1>5 DEF Promise!Init

\* The engine keeps what BatchQueue promises: per config the calls are served in the
\* order in which they were made, in batches that are prefixes of one line, one at a
\* time, although they pass through a queue and a dict of half-served lists.
THEOREM ImplementsBatchQueue == Spec => PerConfigFifo
<1>1. Init => SomeBatch
  BY DEF Init, SomeBatch
<1>2. QED
  BY <1>1, InitMaps, StepMaps, BatchStep, TypeInit, TypeStep, ConfigInit, ConfigStep, FitsInit, FitsStep,
     LossInit, LossStep, OnceInit, OnceStep, PTL DEF Spec, PerConfigFifo, Promise!Spec

-----------------------------------------------------------------------------
(* A stream that is served alone.                                          *)

\* Nothing reaches a call before its batch is run.
Unsent ==
  \A r \in Requests :
    Queued(r) \/ Pooled(r) \/ (Held(r) /\ worker = "infer") => inbox[r] = <<>> /\ caller[r] # "done"

LEMMA LoneInit == Init => Unsent /\ LoneStreamNotCut
BY DEF Init, Unsent, LoneStreamNotCut

\* A batch of one is its first call.
LEMMA LoneBatch ==
  ASSUME TypeOK, Len(batch) = 1
  PROVE  batch[1] \in Requests /\ Members(batch) = {batch[1]}
<1>1. batch \in Seq(Requests)
  BY DEF TypeOK
<1>2. DOMAIN batch = {1} /\ batch[1] \in Requests
  BY <1>1
<1>3. QED
  BY <1>2 DEF Members

\* Posting to a batch leaves the calls that still wait for theirs alone.
LEMMA PostUnsent ==
  ASSUME Apart, Unsent, NEW kind, Post(kind), worker' # "infer", UNCHANGED <<queue, pool, caller>>
  PROVE  Unsent'
<1> SUFFICES ASSUME NEW r \in Requests, Queued(r)' \/ Pooled(r)'
             PROVE  inbox'[r] = <<>> /\ caller'[r] # "done"
  BY DEF Unsent
<1>1. Queued(r) \/ Pooled(r)
  BY DEF Queued, Pooled
<1>2. r \notin Members(batch)
  BY <1>1 DEF Apart, Held
<1>3. inbox'[r] = inbox[r]
  BY <1>2 DEF Post
<1>4. QED
  BY <1>1, <1>3 DEF Unsent

\* While a lone stream runs, what its reader takes off the queue is no None, and
\* the reader stays.
LEMMA ReceiveLone ==
  ASSUME TypeOK, BatchOwn, StreamWorker, Unsent, LoneStreamNotCut, NEW r \in Requests, Receive(r)
  PROVE  Unsent' /\ LoneStreamNotCut'
<1>1. /\ inbox[r] \in Seq(Items) /\ inbox[r] # <<>> /\ inbox'[r] = Tail(inbox[r])
      /\ Streams(call[r].cfg) /\ Head(inbox[r]).kind # "none" => caller'[r] = caller[r]
      /\ \A q \in Requests : q # r => caller'[q] = caller[q] /\ inbox'[q] = inbox[q]
      /\ UNCHANGED <<call, queue, pool, worker, batch, kwargs>>
  BY DEF Receive, TypeOK, callVars, workerVars
<1>2. Unsent'
  <2>1. \A q \in Requests : /\ Queued(q)' <=> Queued(q)
                            /\ Pooled(q)' <=> Pooled(q)
                            /\ Held(q)' <=> Held(q)
    BY <1>1 DEF Queued, Pooled, Held
  <2>2. QED
    BY <1>1, <2>1 DEF Unsent
<1>3. LoneStreamNotCut'
  <2> SUFFICES ASSUME worker = "stream", Len(batch) = 1
               PROVE  /\ caller'[batch[1]] # "done"
                      /\ \A item \in Members(inbox'[batch[1]]) : item.kind # "none"
    BY <1>1 DEF LoneStreamNotCut
  <2>1. batch[1] \in Requests /\ Members(batch) = {batch[1]}
    BY LoneBatch
  <2>2. caller[batch[1]] # "done" /\ \A item \in Members(inbox[batch[1]]) : item.kind # "none"
    BY DEF LoneStreamNotCut
  <2>3. CASE batch[1] # r
    BY <1>1, <2>1, <2>2, <2>3
  <2>4. CASE batch[1] = r
    <3>1. Members(inbox[r]) = {Head(inbox[r])} \cup Members(inbox'[r])
      BY <1>1, MembersTail
    <3>2. kwargs # NoKwargs /\ Streams(kwargs.cfg)
      BY DEF TypeOK, StreamWorker
    <3>3. Streams(call[r].cfg)
      BY <2>1, <2>4, <3>2 DEF BatchOwn
    <3>4. QED
      BY <1>1, <2>2, <2>4, <3>1, <3>3
  <2>5. QED
    BY <2>3, <2>4
<1>4. QED
  BY <1>2, <1>3

\* A step of the generator has text for somebody, so for the only member.
LEMMA ChunkLone ==
  ASSUME TypeOK, LoneStreamNotCut, StreamChunk
  PROVE  LoneStreamNotCut'
<1>1. PICK D \in SUBSET Good :
        /\ D # {}
        /\ Post([r \in Members(batch) |->
                   IF r \in D THEN "delta" ELSE IF r \in Good THEN "none" ELSE "error"])
  BY DEF StreamChunk
<1>2. worker = "stream" /\ UNCHANGED <<batch, kwargs, caller>> /\ kwargs \in Kwargs
  BY DEF StreamChunk, TypeOK
<1> SUFFICES ASSUME Len(batch) = 1
             PROVE  /\ caller[batch[1]] # "done"
                    /\ \A item \in Members(inbox'[batch[1]]) : item.kind # "none"
  BY <1>2 DEF LoneStreamNotCut
<1>3. batch[1] \in Requests /\ Members(batch) = {batch[1]}
  BY LoneBatch
<1>4. batch[1] \in D
  BY <1>1, <1>3 DEF Good
<1> DEFINE item == [kind |-> "delta", by |-> kwargs]
<1>5. inbox'[batch[1]] = Append(inbox[batch[1]], item)
  BY <1>1, <1>3, <1>4 DEF Post
<1>6. item \in Items /\ inbox[batch[1]] \in Seq(Items) /\ item.kind # "none"
  BY <1>2, <1>3 DEF Items, Kinds, TypeOK
<1> HIDE DEF item
<1>7. Members(inbox'[batch[1]]) = Members(inbox[batch[1]]) \cup {item}
  BY <1>5, <1>6, MembersAppend
<1>8. QED
  BY <1>2, <1>6, <1>7 DEF LoneStreamNotCut

LEMMA LoneStep ==
  TypeOK /\ ConfigInv /\ OnceInv /\ Unsent /\ LoneStreamNotCut /\ [Next]_vars
    => Unsent' /\ LoneStreamNotCut'
<1> SUFFICES ASSUME TypeOK, ConfigInv, OnceInv, Unsent, LoneStreamNotCut, [Next]_vars
             PROVE  Unsent' /\ LoneStreamNotCut'
  OBVIOUS
<1> USE DEF callVars, workerVars
<1>1. ASSUME NEW r \in Requests, Call(r) PROVE Unsent' /\ LoneStreamNotCut'
  <2>1. /\ queue \in Seq(Requests) /\ queue' = Append(queue, r)
        /\ caller[r] = "idle" /\ caller'[r] = "queued"
        /\ \A q \in Requests : q # r => caller'[q] = caller[q]
        /\ UNCHANGED <<pool, worker, batch, inbox>>
    BY <1>1 DEF Call, TypeOK
  <2>2. inbox[r] = <<>>
    BY <2>1 DEF OnceInv, Fresh
  <2>3. Members(queue') = Members(queue) \cup {r}
    BY <2>1, MembersAppend
  <2>4. \A q \in Requests : /\ Queued(q)' <=> (Queued(q) \/ q = r)
                            /\ Pooled(q)' <=> Pooled(q)
                            /\ Held(q)' <=> Held(q)
    BY <2>1, <2>3 DEF Queued, Pooled, Held
  <2>5. Unsent'
    BY <2>1, <2>2, <2>4 DEF Unsent
  <2>6. LoneStreamNotCut'
    BY <2>1, LoneBatch DEF LoneStreamNotCut
  <2>7. QED
    BY <2>5, <2>6
<1>2. ASSUME NEW r \in Requests, Resume(r) PROVE Unsent' /\ LoneStreamNotCut'
  <2>1. /\ caller'[r] = "waiting" /\ \A q \in Requests : q # r => caller'[q] = caller[q]
        /\ UNCHANGED <<queue, pool, batch, inbox>>
        /\ worker' \in {"infer", "stream"} => worker' = worker
    BY <1>2 DEF Resume, TypeOK
  <2>2. \A q \in Requests : /\ Queued(q)' <=> Queued(q)
                            /\ Pooled(q)' <=> Pooled(q)
                            /\ Held(q)' <=> Held(q)
    BY <2>1 DEF Queued, Pooled, Held
  <2>3. Unsent'
    BY <2>1, <2>2 DEF Unsent
  <2>4. LoneStreamNotCut'
    BY <2>1, LoneBatch DEF LoneStreamNotCut
  <2>5. QED
    BY <2>3, <2>4
<1>3. ASSUME NEW r \in Requests, Receive(r) PROVE Unsent' /\ LoneStreamNotCut'
  BY <1>3, ReceiveLone DEF ConfigInv, OnceInv
<1>4. CASE Drain
  <2>1. worker' = "fetch" /\ UNCHANGED <<inbox, caller>>
    BY <1>4 DEF Drain
  <2>2. \A q \in Requests : Queued(q)' \/ Pooled(q)' => Queued(q) \/ Pooled(q)
    BY <1>4, DrainMoves
  <2>3. QED
    BY <2>1, <2>2 DEF Unsent, LoneStreamNotCut
<1>5. CASE Take
  <2>1. worker' = "infer" /\ UNCHANGED <<inbox, caller>>
    BY <1>5 DEF Take
  <2>2. \A q \in Requests : Queued(q)' \/ Pooled(q)' \/ Held(q)' => Queued(q) \/ Pooled(q)
    BY <1>5, TakeMoves
  <2>3. QED
    BY <2>1, <2>2 DEF Unsent, LoneStreamNotCut
<1>6. CASE AnswerFull \/ StreamLast \/ StreamStop
  <2>1. PICK kind : Post(kind)
    BY <1>6 DEF AnswerFull, StreamLast, StreamStop
  <2>2. worker' \in {"fetch", "stop"} /\ UNCHANGED <<queue, pool, caller>>
    BY <1>6 DEF AnswerFull, StreamLast, StreamStop, EndBatch
  <2>3. QED
    BY <2>1, <2>2, PostUnsent DEF OnceInv, LoneStreamNotCut
<1>7. CASE StreamChunk
  <2>1. PICK kind : Post(kind)
    BY <1>7 DEF StreamChunk
  <2>2. worker' = "stream" /\ UNCHANGED <<queue, pool, caller>>
    BY <1>7 DEF StreamChunk
  <2>3. QED
    BY <1>7, <2>1, <2>2, PostUnsent, ChunkLone DEF OnceInv
<1>8. CASE StartStream
  <2>1. worker = "infer" /\ worker' = "stream" /\ UNCHANGED <<queue, pool, batch, inbox, caller>>
    BY <1>8 DEF StartStream
  <2>2. Unsent'
    BY <2>1 DEF Unsent, Queued, Pooled
  <2>3. ASSUME Len(batch) = 1 PROVE inbox[batch[1]] = <<>> /\ caller[batch[1]] # "done"
    BY <2>1, <2>3, LoneBatch DEF Unsent, Held
  <2>4. LoneStreamNotCut'
    BY <2>1, <2>3 DEF LoneStreamNotCut, Members
  <2>5. QED
    BY <2>2, <2>4
<1>9. CASE EncodeRaises \/ GenerateRaises \/ UNCHANGED vars
  <2>1. UNCHANGED <<queue, pool, batch, inbox, caller>> /\ (worker' = worker \/ worker' \in {"dead", "stuck"})
    BY <1>9 DEF EncodeRaises, GenerateRaises, vars
  <2>2. QED
    BY <2>1 DEF Unsent, LoneStreamNotCut, Queued, Pooled, Held
<1>10. QED
  BY <1>1, <1>2, <1>3, <1>4, <1>5, <1>6, <1>7, <1>8, <1>9 DEF Next, CallerStep, WorkerStep

\* A stream that is served alone is not cut short: the None that ends its reader is
\* posted when the generator is exhausted and not before, since a lone member gets
\* text in every step that is yielded and nothing was left for it to read earlier.
THEOREM LoneStreams == Spec => []LoneStreamNotCut
<1>1. QED
  BY TypeInit, TypeStep, ConfigInit, ConfigStep, FitsInit, FitsStep, LossInit, LossStep,
     OnceInit, OnceStep, LoneInit, LoneStep, PTL DEF Spec
=============================================================================
