----------------------------- MODULE BatchQueue -----------------------------
(***************************************************************************)
(* What a batching inference engine promises its callers, with no queue,   *)
(* pool or worker in it: the calls that wait are kept in one FIFO line per *)
(* generation config, a batch is a prefix of ONE line of at most           *)
(* MaxBatchSize calls, and only one batch is served at a time.             *)
(* TransformersEngine implements it with a thread-safe queue feeding an    *)
(* insertion-ordered dict of half-served lists.                            *)
(***************************************************************************)
EXTENDS Integers, Sequences

CONSTANTS
  Requests,      \* calls that may be made
  Configs,       \* generation configs, the key calls are batched by
  MaxBatchSize   \* largest batch; 0 or less means no limit

VARIABLES
  config,        \* the config of every call
  waiting,       \* per config, the calls that wait, oldest first
  serving,       \* the batch being served
  served         \* the calls whose batch is over

vars == <<config, waiting, serving, served>>

Members(s) == {s[n] : n \in DOMAIN s}

BatchLen(line) ==
  IF MaxBatchSize <= 0 \/ Len(line) < MaxBatchSize THEN Len(line) ELSE MaxBatchSize

Known == served \cup Members(serving) \cup UNION {Members(waiting[k]) : k \in Configs}

Init ==
  /\ config \in [Requests -> Configs]
  /\ waiting = [k \in Configs |-> <<>>]
  /\ serving = <<>>
  /\ served = {}

Submit(r) ==
  /\ r \notin Known
  /\ waiting' = [waiting EXCEPT ![config[r]] = Append(@, r)]
  /\ UNCHANGED <<config, serving, served>>

Serve(k) ==
  /\ serving = <<>>
  /\ waiting[k] # <<>>
  /\ LET n == BatchLen(waiting[k])
     IN  /\ serving' = SubSeq(waiting[k], 1, n)
         /\ waiting' = [waiting EXCEPT ![k] = SubSeq(@, n + 1, Len(@))]
  /\ UNCHANGED <<config, served>>

Finish ==
  /\ serving # <<>>
  /\ served' = served \cup Members(serving)
  /\ serving' = <<>>
  /\ UNCHANGED <<config, waiting>>

Next ==
  \/ \E r \in Requests : Submit(r)
  \/ \E k \in Configs : Serve(k)
  \/ Finish

Spec == Init /\ [][Next]_vars
=============================================================================
