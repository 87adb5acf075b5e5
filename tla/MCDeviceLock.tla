----------------------------- MODULE MCDeviceLock -----------------------------
(* DeviceLock on small instances for TLC.                                   *)
EXTENDS DeviceLock_proofs, TLC

CONSTANTS w1, w2, w3, w4, g1, g2, g3

MCWorkers == {w1, w2, w3, w4}
MCDevices == {g1, g2, g3}

(* Each of w1, w2, w3 asks first for what another of them asks last, the    *)
(* shape in which locks taken one by one deadlock; w4 conflicts with two of *)
(* them only, so two workers may be inside at once.                         *)
MCCycle ==
    (w1 :> <<g1, g2>>) @@ (w2 :> <<g2, g3>>) @@ (w3 :> <<g3, g1>>) @@ (w4 :> <<g2>>)

(* Three workers on the same pair of accelerators, listed in either order.  *)
MCPair == (w1 :> <<g1, g2>>) @@ (w2 :> <<g2, g1>>) @@ (w3 :> <<g1>>)
MCPairWorkers == {w1, w2, w3}
MCPairDevices == {g1, g2}
=============================================================================
