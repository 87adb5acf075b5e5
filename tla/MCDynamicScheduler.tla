-------------------------- MODULE MCDynamicScheduler --------------------------
(* DynamicScheduler on four GPUs for TLC. *)
EXTENDS DynamicScheduler, TLC
=============================================================================
