-------------------------- MODULE MCRolloutServer --------------------------
(***************************************************************************)
(* Two workers and two tensors, moved by two update requests of one tensor *)
(* (update_named_param, the flat buckets) or by one request of two         *)
(* broadcasts (update_adapter_param).                                      *)
(***************************************************************************)
EXTENDS RolloutServer

CONSTANTS query, key

BothParams == {query, key}
OneOrThree == {1, 3}
BothPlans == {<<<<query>>, <<key>>>>, <<<<query, key>>>>}
=============================================================================
