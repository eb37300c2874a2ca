----------------------------- MODULE MCServing -----------------------------
(***************************************************************************)
(* Three requests that stream and two that do not.                         *)
(***************************************************************************)
EXTENDS Serving, TLC

CONSTANTS s1, s2, s3, j1, j2

MCRequests == {s1, s2, s3, j1, j2}
MCStreams == {s1, s2, s3}
=============================================================================
