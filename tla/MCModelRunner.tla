--------------------------- MODULE MCModelRunner ---------------------------
(***************************************************************************)
(* Three requests with ids of their own, as LLMEngine numbers them; r1 has *)
(* the higher priority, and the three prompts do not fit one batch.        *)
(***************************************************************************)
EXTENDS ModelRunner, TLC

CONSTANTS r1, r2, r3, i1, i2, i3

MCReqs == {r1, r2, r3}
MCIds == {i1, i2, i3}
MCId == r1 :> i1 @@ r2 :> i2 @@ r3 :> i3
MCPromptLen == r1 :> 2 @@ r2 :> 1 @@ r3 :> 1
MCMaxNew == r1 :> 2 @@ r2 :> 1 @@ r3 :> 1
MCPriority == r1 :> 1 @@ r2 :> 0 @@ r3 :> 0
MCArrival == r1 :> 1 @@ r2 :> 2 @@ r3 :> 3

(* Ids reused: r3 takes the id of r1. *)
ReusedId == r1 :> i1 @@ r2 :> i2 @@ r3 :> i1

(* A prompt of r1 above the token budget. *)
OversizedPromptLen == r1 :> 4 @@ r2 :> 1 @@ r3 :> 1
=============================================================================
