------------------------------ MODULE MCAsyncPPO ------------------------------
(* AsyncPPO for TLC.                                                        *)
EXTENDS AsyncPPO
=============================================================================
