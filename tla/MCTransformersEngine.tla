------------------------ MODULE MCTransformersEngine ------------------------
(***************************************************************************)
(* Three calls, a streaming and a full config, batches of two: a config    *)
(* can have a half-served list, a batch can hold a member that does not    *)
(* encode, and a stream can have a step with text for one member only.     *)
(***************************************************************************)
EXTENDS TransformersEngine

CONSTANTS r1, r2, r3, full, stream, base, lora

Calls3 == {r1, r2, r3}
Calls2 == {r1, r2}
BothConfigs == {full, stream}
StreamOnly == {stream}
OneAdapter == {base}
TwoAdapters == {base, lora}
=============================================================================
