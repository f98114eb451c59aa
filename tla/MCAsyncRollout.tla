--------------------------- MODULE MCAsyncRollout ---------------------------
(***************************************************************************)
(* Four optimizer steps, an evaluation of two batches after any of them,   *)
(* and every relation between the generation and accumulation intervals:   *)
(* equal, several rollouts per step, several steps per rollout, neither    *)
(* dividing the other.                                                     *)
(***************************************************************************)
EXTENDS AsyncRollout

Intervals == {1, 2, 3}
EveryStep == {1}
=============================================================================
