---------------------------- MODULE MCLLMEngine ----------------------------
(***************************************************************************)
(* Two requests, the first with two tokens to generate and the higher      *)
(* priority; pages of two tokens.                                          *)
(***************************************************************************)
EXTENDS LLMEngine, TLC

CONSTANTS r1, r2, r3, i1, i2, i3

MCReqs == {r1, r2}
MCIds == {i1, i2}
MCId == r1 :> i1 @@ r2 :> i2
MCPromptLen == r1 :> 2 @@ r2 :> 1
MCMaxNew == r1 :> 3 @@ r2 :> 2
MCPriority == r1 :> 1 @@ r2 :> 0
MCArrival == r1 :> 1 @@ r2 :> 2

(* Three requests; the prompt of the third is empty. *)
MC3Reqs == {r1, r2, r3}
MC3Ids == {i1, i2, i3}
MC3Id == MCId @@ r3 :> i3
MC3PromptLen == MCPromptLen @@ r3 :> 0
MC3MaxNew == MCMaxNew @@ r3 :> 1
MC3Priority == MCPriority @@ r3 :> 0
MC3Arrival == MCArrival @@ r3 :> 3
=============================================================================
