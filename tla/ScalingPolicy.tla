---------------------------- MODULE ScalingPolicy -----------------------------
(***************************************************************************)
(* How the dynamic scheduler decides who gets which GPUs: the world sizes  *)
(* the actor may train with, how far it can grow, how many rollout         *)
(* instances to close for that, and how the sequence groups of the closed  *)
(* ones are spread over the others.  A sequence group has one sequence.    *)
(***************************************************************************)
EXTENDS Integers, Sequences, FiniteSetsExt

CONSTANTS
    TotalGpus,          \* _cluster_num_gpus
    ActorParallel,      \* model_parallel_size of the actor
    RolloutParallel,    \* model_parallel_size of the rollout
    RolloutBatch,       \* rollout_batch_size: sequence groups in a global step
    NMinibatches,       \* n_minibatches: training iterations in a global step
    MaxRunning          \* max_running_requests of a rollout instance

ASSUME PolicyAssumption ==
    /\ TotalGpus \in Nat \ {0}
    /\ ActorParallel \in Nat \ {0}
    /\ RolloutParallel \in Nat \ {0}
    /\ NMinibatches \in Nat \ {0}
    /\ MaxRunning \in Nat \ {0}
    /\ RolloutBatch \in Nat \ {0}
    /\ RolloutBatch % NMinibatches = 0

(* Sequence groups the actor trains on in one iteration.                    *)
Minibatch == RolloutBatch \div NMinibatches

(* math.ceil(a / b)                                                         *)
CeilDiv(a, b) == (a + b - 1) \div b

ValidDpSizes ==
    {dp \in 1 .. TotalGpus \div ActorParallel : Minibatch % dp = 0}

(* GPUs the actor takes to go from cur instances to dp.                     *)
GpusToReach(dp, cur) == (dp - cur) * ActorParallel

ReachableSizes(cur, gpus) ==
    {cur} \cup {dp \in ValidDpSizes : dp > cur /\ GpusToReach(dp, cur) <= gpus}

(* The size it grows to, and the GPUs that takes.                           *)
GrownSize(cur, gpus) == Max(ReachableSizes(cur, gpus))

Increment(cur, gpus) == GpusToReach(GrownSize(cur, gpus), cur)

(* Rollout instances to close, of at most max, to let the actor grow most.  *)
ReleaseNeeded(max, actorNum) ==
    CeilDiv(Increment(actorNum, max * RolloutParallel), RolloutParallel)

(* Rollout instances to close, of num, while running groups are generated.  *)
MigratePolicy(num, running, actorNum) ==
    IF num <= 1
    THEN 0
    ELSE ReleaseNeeded(Max({0, num - CeilDiv(running, MaxRunning)}), actorNum)

(***************************************************************************)
(* n groups are dealt out to the instances of the sequence load in order:  *)
(* load[j] is what the j-th runs already, expected what each should run.   *)
(* The last takes whatever is left.                                        *)
(***************************************************************************)
Lacking(load, expected, j) == Max({0, expected - load[j]})

GivenBefore(n, load, expected, j) ==
    Min({n, SumFunction([k \in 1 .. j - 1 |-> Lacking(load, expected, k)])})

Assigned_LastByNeed(n, load, expected) ==
    [j \in DOMAIN load |->
        GivenBefore(n, load, expected, j + 1) - GivenBefore(n, load, expected, j)]

Assigned(n, load, expected) ==
    [j \in DOMAIN load |->
        IF j = Len(load)
        THEN n - GivenBefore(n, load, expected, j)
        ELSE GivenBefore(n, load, expected, j + 1)
             - GivenBefore(n, load, expected, j)]
=============================================================================
