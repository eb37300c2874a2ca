------------------------ MODULE MCContinuousBatcher ------------------------
(***************************************************************************)
(* Five requests: r1 and r3 carry the same id (an id is reused while the   *)
(* cancelled r1 may still be queued), r4 arrives before r2 at its          *)
(* priority, r5 has an empty prompt and is always rejected.                *)
(***************************************************************************)
EXTENDS ContinuousBatcher, TLC

CONSTANTS r1, r2, r3, r4, r5, i1, i2, i4, i5

MCReqs == {r1, r2, r3, r4, r5}
MCIds == {i1, i2, i4, i5}
MCId == r1 :> i1 @@ r2 :> i2 @@ r3 :> i1 @@ r4 :> i4 @@ r5 :> i5
MCPromptLen == r1 :> 2 @@ r2 :> 1 @@ r3 :> 1 @@ r4 :> 1 @@ r5 :> 0
MCMaxNew == r1 :> 1 @@ r2 :> 2 @@ r3 :> 1 @@ r4 :> 2 @@ r5 :> 1
MCPriority == r1 :> 1 @@ r2 :> 0 @@ r3 :> 0 @@ r4 :> 0 @@ r5 :> 0
MCArrival == r1 :> 1 @@ r2 :> 3 @@ r3 :> 4 @@ r4 :> 2 @@ r5 :> 5
=============================================================================
