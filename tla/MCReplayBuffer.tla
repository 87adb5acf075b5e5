---------------------------- MODULE MCReplayBuffer -----------------------------
(* ReplayBuffer for TLC: every configuration, with a bound of its own.      *)
EXTENDS ReplayBuffer

MCWay(save, preload, trajs, loads) ==
    [save |-> save, preload |-> preload, trajs |-> trajs, loads |-> loads]

MCWays == {MCWay(FALSE, FALSE, 5, 2), MCWay(FALSE, TRUE, 4, 1),
           MCWay(TRUE, FALSE, 3, 2), MCWay(TRUE, TRUE, 2, 1)}
=============================================================================
