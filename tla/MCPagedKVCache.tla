--------------------------- MODULE MCPagedKVCache ---------------------------
(***************************************************************************)
(* Blocks of two tokens; prompts made of the block contents "a" and "b".   *)
(***************************************************************************)
EXTENDS PagedKVCache, TLC

CONSTANTS s1, s2, s3, a, b

Prompt(full, tail) == [full |-> full, tail |-> tail]

(* A prompt that is the prefix of another, plus a partial block; one that  *)
(* diverges at once; the empty one.                                        *)
MCPrompts ==
  {Prompt(<<a, a>>, 0), Prompt(<<a>>, 1), Prompt(<<b>>, 0), Prompt(<<>>, 0)}


MCAppends == {1, 3}
=============================================================================
