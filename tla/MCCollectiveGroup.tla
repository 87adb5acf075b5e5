--------------------------- MODULE MCCollectiveGroup ---------------------------
(* CollectiveGroup with three workers for TLC.                              *)
EXTENDS CollectiveGroup

MCHop(a, b) == [src |-> a, dst |-> b]

(* Worker 1 is the master of two groups. One is used both ways, and twice   *)
(* in one of them; the other is set up while its threads may still work.    *)
MCTransfers == <<MCHop(1, 2), MCHop(2, 1), MCHop(1, 2), MCHop(1, 3)>>

(* Synchronous and asynchronous recvs alternate. Where those of worker 2    *)
(* are synchronous, the sends of worker 1 are called in every mix of ways;  *)
(* else every send is asynchronous. The last choice awaits every call.      *)
MCModes ==
    {m \in [Ends -> {"sync", "async"}] :
        /\ m[1, "recv"] = m[3, "recv"] /\ m[2, "recv"] # m[1, "recv"]
        /\ m[1, "recv"] = "sync" => m[2, "send"] = "sync"
        /\ m[1, "recv"] = "async" => \A t \in 1 .. 3 : m[t, "send"] = "async"
        /\ m[4, "send"] = "sync" /\ m[4, "recv"] = "sync"}
    \cup {[e \in Ends |-> "awaited"]}
=============================================================================
