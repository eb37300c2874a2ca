---------------------------- MODULE Exponential ----------------------------
(***************************************************************************)
(* expf of the kernels for a row, in whole numbers: any function that is   *)
(* positive and makes a product of a sum.  Arguments are integers from 0   *)
(* on, so the kernels shift theirs; rounding is not modelled.              *)
(***************************************************************************)
EXTENDS Integers

CONSTANTS
  MaxExponent,  \* bound on arguments
  Power         \* the values

ASSUME ExponentialAssumption ==
  /\ MaxExponent \in Nat
  /\ Power \in [0..MaxExponent -> Nat \ {0}]
  /\ \A x, y \in 0..MaxExponent :
       x + y <= MaxExponent => Power[x + y] = Power[x] * Power[y]
=============================================================================
