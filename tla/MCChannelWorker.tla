---------------------------- MODULE MCChannelWorker ----------------------------
(* ChannelWorker on small sets of calls for TLC.  A call is a model value;   *)
(* the instances say what it calls.                                         *)
EXTENDS ChannelWorker, TLC

CONSTANTS p1, p2, p3, p4, g1, g2, g3, b1, b2, k1, k2

(* Four puts share one place of the queue; two gets and a batch of two      *)
(* items of weight 1 take what they bring.                                  *)
BlockingCalls == {p1, p2, p3, p4, g1, g2, b1}
BlockingOp == [c \in BlockingCalls |->
    IF c \in {g1, g2} THEN "get" ELSE IF c = b1 THEN "get_batch" ELSE "put"]
BlockingKey == [c \in BlockingCalls |-> k1]
BlockingWeight == [c \in BlockingCalls |-> 1]
BlockingTarget == [c \in BlockingCalls |-> 2]

(* Every method at once: items of weight 1 and 2, batches of at most 3 and  *)
(* of at most 1, calls that do not wait, and one get under another key.     *)
MixedCalls == {p1, p2, p3, g1, g2, g3, b1, b2}
MixedOp == (p1 :> "put") @@ (p2 :> "put") @@ (p3 :> "put_nowait")
        @@ (g1 :> "get") @@ (g2 :> "get_nowait") @@ (g3 :> "get")
        @@ (b1 :> "get_batch") @@ (b2 :> "get_batch")
MixedKey == [c \in MixedCalls |-> IF c = g3 THEN k2 ELSE k1]
MixedWeight == [c \in MixedCalls |-> IF c = p2 THEN 2 ELSE 1]
MixedTarget == [c \in MixedCalls |-> IF c = b1 THEN 3 ELSE 1]
=============================================================================
