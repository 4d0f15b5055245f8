-------------------------- MODULE MCPoolLifecycle --------------------------
(***************************************************************************)
(* Model-checking instances of PoolLifecycle.                              *)
(***************************************************************************)
EXTENDS PoolLifecycle
=============================================================================
