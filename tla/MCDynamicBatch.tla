---------------------------- MODULE MCDynamicBatch -----------------------------
(* DynamicBatch for TLC, with a few ranks and results.                      *)
EXTENDS DynamicBatch
=============================================================================
