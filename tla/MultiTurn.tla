------------------------------ MODULE MultiTurn ------------------------------
(***************************************************************************)
(* Multi-turn rollouts.  A trajectory alternates model responses and what  *)
(* the scheduler's step adds; the token ids, loss mask and log-            *)
(* probabilities of its turns are collected beside its messages and put in *)
(* their places for training.                                              *)
(*                                                                         *)
(* Two drivers do this.  run_multi_turn (swift/rollout/agent_loop.py) runs *)
(* in every training process: the ranks agree by a gather whether anybody  *)
(* has work left and generate together, a turn of all of their             *)
(* trajectories at a time.  MultiTurnScheduler.run (multi_turn.py) is the  *)
(* coroutine of one trajectory on the rollout server.                      *)
(*                                                                         *)
(* A message is the sequence of its tokens; a token is named after the     *)
(* trajectory and the turn it was generated or added in.                   *)
(***************************************************************************)
EXTENDS Integers, Sequences, SequencesExt

CONSTANTS
  NumRanks,    \* processes of the group, all in one tensor-parallel group
  Batch,       \* requests of each rank
  MaxTurns,    \* args.max_turns
  Setups,      \* driver ("colocate" for run_multi_turn, "server" for run) and
               \* scheduler: whether step returns ids, their mask and log-probabilities of
               \* its own, its edits, whether it continues a message
  Nothing      \* no output yet

Ranks == 1..NumRanks
Trajectories == UNION {{r} \X (1..Batch[r]) : r \in Ranks}

\* A token: of a trajectory's turn, generated (1, 2) or added by step (0).
Tokens == [of : Trajectories, turn : 1..MaxTurns, n : 0..2]
Texts == Seq(Seq(Tokens))
Outputs == [ids : Texts, mask : Seq(Seq({0, 1})), logps : Texts]

\* What step may make of a response: keep it; cut its end off; append text to it, a tool's
\* result; or both, as MathTipsScheduler does.
Edits == {"keep", "cut", "add", "tip"}
Cuts == {"cut", "tip"}
Additions == {"add", "tip"}

ASSUME MultiTurnAssumption ==
  /\ NumRanks \in Nat \ {0}
  /\ Batch \in [1..NumRanks -> Nat]
  /\ MaxTurns \in Nat \ {0}
  /\ Setups \subseteq [driver : {"colocate", "server"}, ids : BOOLEAN, mask : BOOLEAN,
                       logps : BOOLEAN, continues : BOOLEAN, edits : SUBSET Edits]
  /\ \A s \in Setups : s.mask => s.ids    \* asserted by both drivers
  /\ Nothing \notin Outputs

VARIABLES
  setup,               \* the driver and the scheduler, fixed
  logprobs,            \* whether responses carry log-probabilities, fixed
  rank,                \* where each rank is in the loop of run_multi_turn
  index_to_infer,      \* per rank, the trajectories that go on
  outputs,             \* per rank, the responses of this turn
  current_turn,        \* the turn each trajectory is in
  said,                \* the contents of its assistant messages
  open,                \* whether the last message is the assistant's
  response_token_ids,  \* token ids by turn
  response_loss_mask,  \* 0 or 1 for each of them
  rollout_logprobs,    \* log-probabilities by turn, each named by its token
  rollout_output       \* what the driver returns for it

vars == <<setup, logprobs, rank, index_to_infer, outputs, current_turn, said, open,
          response_token_ids, response_loss_mask, rollout_logprobs, rollout_output>>

config == <<setup, logprobs>>

-----------------------------------------------------------------------------
(* Responses, and what step makes of one.                                  *)

Token(t, turn, n) == [of |-> t, turn |-> turn, n |-> n]
Response(t) == <<Token(t, current_turn[t], 1), Token(t, current_turn[t], 2)>>
Added(t) == Token(t, current_turn[t], 0)    \* a tip or a tool's result
Ones(s) == [n \in DOMAIN s |-> 1]

\* extract_logprobs_from_choice
LogprobsOf(response) == IF logprobs THEN response ELSE <<>>

\* What step returns of a response: what it keeps and, masked, what it adds.  Its own log-
\* probabilities, of the tokens it keeps, are preferred to the response's if there are any
\* (agent_loop.py:233-236, multi_turn.py:381-384).
Edited(t, response, edit) ==
  LET kept  == IF edit \in Cuts THEN Front(response) ELSE response
      added == IF edit \in Additions THEN <<Added(t)>> ELSE <<>>
      own   == IF setup.logps THEN LogprobsOf(kept) ELSE <<>>
  IN  [text  |-> kept \o added,
       mask  |-> Ones(kept) \o [n \in DOMAIN added |-> 0],
       logps |-> IF own # <<>> THEN own ELSE LogprobsOf(response)]

\* A turn's data goes to the last entry if its response continues a message.
Join(entries, continuation, data) ==
  IF continuation /\ entries # <<>>
    THEN [entries EXCEPT ![Len(entries)] = @ \o data]
    ELSE Append(entries, data)

Flat(entries) == FlattenSeq(entries)
\* SelectSeq, as a flattening.
Selected(s, Test(_)) == FlattenSeq([n \in DOMAIN s |-> IF Test(s[n]) THEN <<s[n]>> ELSE <<>>])
Sum(mask) == Len(Selected(Flat(mask), LAMBDA m : m = 1))

-----------------------------------------------------------------------------
Init ==
  /\ setup \in Setups
  /\ logprobs \in BOOLEAN
  /\ rank = [r \in Ranks |-> "gather"]
  /\ index_to_infer = [r \in Ranks |-> [n \in 1..Batch[r] |-> <<r, n>>]]
  /\ current_turn = [t \in Trajectories |-> 1]
  /\ outputs = [r \in Ranks |-> [n \in 1..Batch[r] |->
                  [of |-> <<r, n>>, text |-> Response(<<r, n>>)]]]
  /\ said = [t \in Trajectories |-> <<>>]
  /\ open = [t \in Trajectories |-> FALSE]
  /\ response_token_ids = [t \in Trajectories |-> <<>>]
  /\ response_loss_mask = [t \in Trajectories |-> <<>>]
  /\ rollout_logprobs = [t \in Trajectories |-> <<>>]
  /\ rollout_output = [t \in Trajectories |-> Nothing]

\* Mutant of HasOwnTurn: run_multi_turn without its third case.
OnlyContinuations == FALSE

\* A last response that continues nothing, after turns with ids, is a turn of its
\* own for run_multi_turn; run has no such case.
HasOwnTurn == setup.driver = "colocate"

(* The last turn's data.                                                   *)
Collected(t, response) ==
  LET ids   == response_token_ids[t]
      mask  == response_loss_mask[t]
      logps == rollout_logprobs[t]
      new   == LogprobsOf(response)
      all(i, m, l) == [ids |-> i, mask |-> m, logps |-> l]
  IN  CASE ids = <<>> ->
             all(<<response>>, <<Ones(response)>>, IF new = <<>> THEN logps ELSE <<new>>)
        [] ids # <<>> /\ open[t] ->
             all(Join(ids, TRUE, response),
                 IF mask = <<>> THEN mask ELSE Join(mask, TRUE, Ones(response)),
                 IF logps = <<>> \/ new = <<>> THEN logps ELSE Join(logps, TRUE, new))
        [] ids # <<>> /\ ~open[t] /\ HasOwnTurn ->
             all(Append(ids, response), Append(mask, Ones(response)),
                 IF new = <<>> THEN logps ELSE Append(logps, new))
        [] OTHER -> all(ids, mask, logps)

\* Log-probabilities that are not one for each unmasked token are dropped.
Complete(data) ==
  IF Len(Flat(data.logps)) = (IF data.mask # <<>> THEN Sum(data.mask) ELSE Len(Flat(data.ids)))
    THEN data ELSE [data EXCEPT !.logps = <<>>]

(* A turn of trajectory t ends it.                                         *)
Finish(t, response) ==
  LET data == Collected(t, response) IN
  [said   |-> Join(said[t], open[t], response),
   open   |-> TRUE,
   turn   |-> current_turn[t],
   ids    |-> data.ids,
   mask   |-> data.mask,
   logps  |-> data.logps,
   output |-> Complete(data)]

(* Or step prepares the next: it edits the response and leaves the message *)
(* open, or adds a user message.                                           *)
Step(t, response, continue) ==
  [said   |-> Join(said[t], open[t], response.text),
   open   |-> continue,
   turn   |-> current_turn[t] + 1,
   ids    |-> IF setup.ids THEN Join(response_token_ids[t], open[t], response.text)
              ELSE response_token_ids[t],
   mask   |-> IF setup.mask THEN Join(response_loss_mask[t], open[t], response.mask)
              ELSE response_loss_mask[t],
   logps  |-> IF response.logps = <<>> THEN rollout_logprobs[t]
              ELSE Join(rollout_logprobs[t], open[t], response.logps),
   output |-> Nothing]

\* Mutant of Moves: max_turns is compared with > only.
MovesOneMore(t) ==
  {<<"stop", FALSE>>} \cup
  IF current_turn[t] > MaxTurns THEN {}
  ELSE setup.edits \X {FALSE, setup.continues}

\* What may follow a response in trajectory t.  When to stop is the scheduler's
\* choice (check_finished, on_turn_end), but not after max_turns.
Moves(t) ==
  {<<"stop", FALSE>>} \cup
  IF current_turn[t] >= MaxTurns THEN {}
  ELSE setup.edits \X {FALSE, setup.continues}

After(t, response, move) ==
  IF move[1] = "stop" THEN Finish(t, response)
  ELSE Step(t, Edited(t, response, move[1]), move[2])

\* The trajectories of `after` reach the states it gives.
Becomes(after) ==
  LET new(old, field(_)) == [t \in Trajectories |-> IF t \in DOMAIN after THEN field(after[t]) ELSE old[t]]
  IN  /\ said' = new(said, LAMBDA a : a.said)
      /\ open' = new(open, LAMBDA a : a.open)
      /\ current_turn' = new(current_turn, LAMBDA a : a.turn)
      /\ response_token_ids' = new(response_token_ids, LAMBDA a : a.ids)
      /\ response_loss_mask' = new(response_loss_mask, LAMBDA a : a.mask)
      /\ rollout_logprobs' = new(rollout_logprobs, LAMBDA a : a.logps)
      /\ rollout_output' = new(rollout_output, LAMBDA a : a.output)

-----------------------------------------------------------------------------
(* run_multi_turn                                                          *)

\* Mutant of Gather: a rank looks at its own requests only.
GatherLocal ==
  /\ setup.driver = "colocate"
  /\ \A r \in Ranks : rank[r] = "gather"
  /\ rank' = [r \in Ranks |-> IF index_to_infer[r] # <<>> THEN "turn" ELSE "done"]
  /\ UNCHANGED <<config, index_to_infer, outputs, current_turn, said, open, response_token_ids,
                 response_loss_mask, rollout_logprobs, rollout_output>>

(* gather_fn: every rank learns whether any has requests left.             *)
Gather ==
  /\ setup.driver = "colocate"
  /\ \A r \in Ranks : rank[r] = "gather"
  /\ LET more == \E r \in Ranks : index_to_infer[r] # <<>>
     IN  rank' = [r \in Ranks |-> IF more THEN "turn" ELSE "done"]
  /\ UNCHANGED <<config, index_to_infer, outputs, current_turn, said, open, response_token_ids,
                 response_loss_mask, rollout_logprobs, rollout_output>>

(* The body of the loop: output n belongs to the n-th index.  The          *)
(* trajectories of a rank are all in the same turn.                        *)
Turn(r) ==
  /\ rank[r] = "turn"
  /\ LET mine == ToSet(index_to_infer[r])
         output(t) == outputs[r][CHOOSE n \in DOMAIN index_to_infer[r] : index_to_infer[r][n] = t]
     IN  \E move \in [mine -> UNION {Moves(t) : t \in mine}] :
           /\ Becomes([t \in mine |-> After(t, output(t).text, move[t])])
           /\ index_to_infer' = [index_to_infer EXCEPT ![r] =
                                   Selected(@, LAMBDA t : move[t][1] # "stop")]
  /\ rank' = [rank EXCEPT ![r] = "rollout"]
  /\ UNCHANGED <<config, outputs>>

\* Mutant of StartIdx: every rank takes the first responses.
StartAtZero(r) == 0

\* Where the responses of rank r start among all.
StartIdx(r) == Len(FlattenSeq(SubSeq(index_to_infer, 1, r - 1)))

(* rollout_fn: the requests of all ranks are gathered and generated on     *)
(* together; each rank keeps its slice of the responses.                   *)
Rollout ==
  /\ \A r \in Ranks : rank[r] = "rollout"
  /\ LET requests == FlattenSeq(index_to_infer)
         all == [n \in DOMAIN requests |-> [of |-> requests[n], text |-> Response(requests[n])]]
     IN  outputs' = [r \in Ranks |->
                       SubSeq(all, StartIdx(r) + 1, StartIdx(r) + Len(index_to_infer[r]))]
  /\ rank' = [r \in Ranks |-> "gather"]
  /\ UNCHANGED <<config, index_to_infer, current_turn, said, open, response_token_ids,
                 response_loss_mask, rollout_logprobs, rollout_output>>

-----------------------------------------------------------------------------
(* MultiTurnScheduler.run: infer_async, then a turn.                       *)
Run(t) ==
  /\ setup.driver = "server"
  /\ rollout_output[t] = Nothing
  /\ \E move \in Moves(t) : Becomes([u \in {t} |-> After(u, Response(u), move)])
  /\ UNCHANGED <<config, rank, index_to_infer, outputs>>

-----------------------------------------------------------------------------
Next ==
  \/ Gather
  \/ \E r \in Ranks : Turn(r)
  \/ Rollout
  \/ \E t \in Trajectories : Run(t)

Spec == Init /\ [][Next]_vars

\* The processes run, collectives complete and the engine answers.
FairSpec == Spec /\ WF_vars(Next)
-----------------------------------------------------------------------------
(* Properties.                                                             *)

\* Every variable has its type, and no turn is beyond max_turns.
TypeOK ==
  /\ setup \in Setups /\ logprobs \in BOOLEAN
  /\ rank \in [Ranks -> {"gather", "turn", "rollout", "done"}]
  /\ index_to_infer \in [Ranks -> Seq(Trajectories)]
  /\ outputs \in [Ranks -> Seq([of : Trajectories, text : Seq(Tokens)])]
  /\ current_turn \in [Trajectories -> 1..MaxTurns]
  /\ open \in [Trajectories -> BOOLEAN]
  /\ {said, response_token_ids, rollout_logprobs} \subseteq [Trajectories -> Texts]
  /\ response_loss_mask \in [Trajectories -> Seq(Seq({0, 1}))]
  /\ rollout_output \in [Trajectories -> Outputs \cup {Nothing}]

OwnResponses ==
  /\ \A r \in Ranks : rank[r] = "turn" =>
       [n \in DOMAIN outputs[r] |-> outputs[r][n].of] = index_to_infer[r]
  /\ \A t \in Trajectories : \A token \in ToSet(Flat(said[t])) : token.of = t

LeaveTogether ==
  \A r \in Ranks : rank[r] = "done" =>
    /\ \A s \in Ranks : rank[s] = "done"
    /\ \A t \in Trajectories : rollout_output[t] # Nothing

\* A rank's slice of the common generation answers its own requests, in their
\* order, whatever the other ranks have left; so no trajectory is continued
\* with a response to another one.  The ranks leave the loop together and with
\* nothing left undone: one that has run out of requests keeps taking part.
LockStep == OwnResponses /\ LeaveTogether

\* replace_assistant_response_with_ids: the ids replace the contents of as many
\* messages, from the last one on.
TrainedOn(t) ==
  LET ids  == rollout_output[t].ids
      kept == Len(said[t]) - Len(ids)
  IN  [n \in DOMAIN said[t] |-> IF n > kept THEN ids[n - kept] ELSE said[t][n]]

\* Its assertion: a mask for each of the ids, as long.
MaskAccepted(t) ==
  LET out == rollout_output[t]
  IN  out.mask # <<>> =>
        [n \in DOMAIN out.mask |-> Len(out.mask[n])] = [n \in DOMAIN out.ids |-> Len(out.ids[n])]

\* The last turn opened a message, after other turns.
OwnMessage(t) == current_turn[t] > 1 /\ Last(said[t])[1].turn = current_turn[t]

AsSaid(t) ==
  LET ids == Flat(rollout_output[t].ids)
  IN  /\ TrainedOn(t) = said[t]
      /\ MaskAccepted(t) <=> ~(setup.ids /\ ~setup.mask /\ OwnMessage(t))
      /\ setup.mask => \A n \in DOMAIN ids :
           Flat(rollout_output[t].mask)[n] = (IF ids[n].n = 0 THEN 0 ELSE 1)

\* The tokens of ids that are trained on: those step did not mask.
Learned(ids) == IF setup.mask THEN Selected(ids, LAMBDA token : token.n # 0) ELSE ids

\* Without a mask and its own log-probabilities, what step cuts off and what it adds may be
\* as many.
Cancelling ==
  /\ setup.ids /\ ~setup.mask /\ ~setup.logps
  /\ setup.edits \cap Cuts # {} /\ setup.edits \cap Additions # {}

LogprobsAligned(t) ==
  LET out == rollout_output[t]
  IN  out.logps # <<>> => Flat(out.logps) = Learned(Flat(out.ids))

\* What is trained on is what was said, each turn's ids in the place of its own
\* message and masked as step asked, whichever turns continued a message.  The mask passes
\* the trainer's length assertion, but where step returns ids without one and the last
\* turn opens a message: run_multi_turn makes a mask for that turn alone, which fails it.
\* This holds of the trajectories run_multi_turn drives; MultiTurnScheduler.run on the
\* server leaves out the ids of a last turn that opens a message of its own.  Of both,
\* log-probabilities reach the trainer for all the tokens trained on, in their order, or
\* not at all: they are matched by position and checked by number only, so not if what
\* step cuts off and what it adds may be as many.
TrainedAsSaid ==
  \A t \in Trajectories : rollout_output[t] # Nothing =>
    /\ setup.driver = "colocate" => AsSaid(t)
    /\ ~Cancelling => LogprobsAligned(t)

\* Every trajectory gets its output, in max_turns turns at most: no rank waits
\* in a gather for one that waits in a generation.
RolloutEnds == <>(\A t \in Trajectories : rollout_output[t] # Nothing)
=============================================================================
