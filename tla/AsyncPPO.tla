-------------------------------- MODULE AsyncPPO --------------------------------
(***************************************************************************)
(* Asynchronous PPO.  The rollout predicts one chunk after the other and   *)
(* never stops; the environment sends every finished trajectory to the     *)
(* actor.  Each rank of the actor receives trajectories in a thread of its *)
(* own, keeps the best in a PriorityStore and trains when the store is     *)
(* full; the runner then raises the version and has the new weights sent   *)
(* to the rollout, bucket by bucket, while it goes on predicting.          *)
(*                                                                         *)
(* A trajectory is the versions its chunks are tagged with and, what the   *)
(* program does not know, the versions of the weights, bucket by bucket,   *)
(* that predicted each of them.  Rollout and environment are one; the      *)
(* channel is a queue of items.                                            *)
(***************************************************************************)
EXTENDS Integers, Sequences, FiniteSets

LOCAL INSTANCE SequencesExt

CONSTANTS
    Ranks,          \* ranks of the actor
    Threshold,      \* staleness_threshold
    StoreSize,      \* rollout_store_size_per_rank
    Percents,       \* on_policy_min_ratio, in percent: the values it may have
    Chunks,         \* n_train_chunk_steps
    Buckets,        \* into how many buckets the weights are divided
    MaxSteps,       \* max_steps of the runner
    InFlight        \* bound: trajectories in the channel, and in a rank's queue

ASSUME SizesAssumption ==
    /\ Threshold \in Nat
    /\ StoreSize \in Nat \ {0} /\ Chunks \in Nat \ {0} /\ Buckets \in Nat \ {0}
    /\ MaxSteps \in Nat \ {0} /\ InFlight \in Nat \ {0}
    /\ Percents \subseteq 0 .. 100

VARIABLES
    percent,        \* on_policy_min_ratio
    load_instant,   \* load_instant of the syncer: every bucket as it comes, or all at last
    runner,         \* what the runner waits for: "batch", "train", "sync", or "end"
    version,        \* version of the actor, which is the runner's global_step
    arrived,        \* buckets the rollout has of the weights being sent
    weights,        \* weights[b]: the version of the rollout's parameters of bucket b
    tag,            \* version of the rollout
    current,        \* the trajectory under way
    channel,        \* actor_channel
    hand,           \* hand[r]: what the receiving thread has admitted, if anything
    received,       \* received[r]: _recv_queue
    store,          \* store[r]: rollout_store, the lowest priority first
    ready           \* ranks whose store is ready

rolloutVars == <<arrived, weights, tag>>
actorVars == <<hand, received, store, ready>>
vars == <<percent, load_instant, runner, version, rolloutVars, current, channel, actorVars>>

Versions == [1 .. Buckets -> Nat]
Trajectory == [tags : Seq(Nat), made : Seq(Versions)]

TypeOK ==
    /\ percent \in Percents
    /\ load_instant \in BOOLEAN
    /\ runner \in {"batch", "train", "sync", "end"}
    /\ version \in Nat
    /\ arrived \in 0 .. Buckets - 1
    /\ weights \in Versions
    /\ tag \in Nat
    /\ current \in Trajectory
    /\ channel \in Seq(Trajectory)
    /\ hand \in [Ranks -> Seq(Trajectory)]
    /\ received \in [Ranks -> Seq(Trajectory)]
    /\ store \in [Ranks -> Seq(Trajectory)]
    /\ ready \in SUBSET Ranks

(* versions.min() >= version - staleness_threshold                          *)
Fresh(t) == \A i \in 1 .. Len(t.tags) : t.tags[i] >= version - Threshold

Begun == [tags |-> <<>>, made |-> <<>>]

Init ==
    /\ percent \in Percents /\ load_instant \in BOOLEAN
    /\ runner = "batch" /\ version = 0
    /\ arrived = 0 /\ weights = [b \in 1 .. Buckets |-> 0] /\ tag = 0
    /\ current = Begun
    /\ channel = <<>>
    /\ hand = [r \in Ranks |-> <<>>]
    /\ received = [r \in Ranks |-> <<>>]
    /\ store = [r \in Ranks |-> <<>>]
    /\ ready = {}

-----------------------------------------------------------------------------
(* The rollout. *)

(* A chunk is tagged with the version of the rollout, and predicted with    *)
(* whatever the parameters are. The last chunk ends the trajectory.         *)
Predict ==
    /\ runner # "end"
    /\ LET t == [tags |-> Append(current.tags, tag),
                 made |-> Append(current.made, weights)]
       IN \/ /\ Len(t.tags) < Chunks
             /\ current' = t
             /\ UNCHANGED channel
          \/ /\ Len(t.tags) = Chunks
             /\ Len(channel) < InFlight
             /\ current' = Begun
             /\ channel' = Append(channel, t)
    /\ UNCHANGED <<percent, load_instant, runner, version, rolloutVars, actorVars>>

(* Mutant: the version is set when the first bucket tells it. *)
Apply_TagsFirst ==
    /\ runner = "sync"
    /\ LET b == arrived + 1
       IN /\ weights' = [c \in 1 .. Buckets |->
                             IF (load_instant /\ c = b) \/ (~load_instant /\ b = Buckets)
                             THEN version ELSE weights[c]]
          /\ tag' = version
          /\ IF b = Buckets
             THEN arrived' = 0 /\ runner' = IF version < MaxSteps THEN "batch" ELSE "end"
             ELSE arrived' = b /\ UNCHANGED runner
    /\ UNCHANGED <<percent, load_instant, version, current, channel, actorVars>>

(* sync_model_from_actor receives the next bucket; with the last one, apply *)
(* returns the version, and the runner goes on.                             *)
Apply ==
    /\ runner = "sync"
    /\ LET b == arrived + 1
       IN /\ weights' = [c \in 1 .. Buckets |->
                             IF (load_instant /\ c = b) \/ (~load_instant /\ b = Buckets)
                             THEN version ELSE weights[c]]
          /\ IF b = Buckets
             THEN /\ arrived' = 0 /\ tag' = version
                  /\ runner' = IF version < MaxSteps THEN "batch" ELSE "end"
             ELSE arrived' = b /\ UNCHANGED <<tag, runner>>
    /\ UNCHANGED <<percent, load_instant, version, current, channel, actorVars>>

-----------------------------------------------------------------------------
(* A rank of the actor. *)

(* The receiving thread takes a trajectory and drops it if it is stale ...  *)
Receive(r) ==
    /\ runner # "end"
    /\ channel # <<>> /\ hand[r] = <<>> /\ Len(received[r]) < InFlight
    /\ hand' = [hand EXCEPT ![r] = IF Fresh(Head(channel)) THEN <<Head(channel)>> ELSE <<>>]
    /\ channel' = Tail(channel)
    /\ UNCHANGED <<percent, load_instant, runner, version, rolloutVars, current, received, store, ready>>

(* ... or queues it.                                                        *)
Enqueue(r) ==
    /\ hand[r] # <<>>
    /\ received' = [received EXCEPT ![r] = @ \o hand[r]]
    /\ hand' = [hand EXCEPT ![r] = <<>>]
    /\ UNCHANGED <<percent, load_instant, runner, version, rolloutVars, current, channel, store, ready>>

(* Priorities: by the least version, then by the mean.                      *)
Below(t, u) ==
    LET least(x) == Min(ToSet(x.tags))
        total(x) == FoldSeq(LAMBDA m, n : m + n, 0, x.tags)
    IN \/ least(t) < least(u)
       \/ least(t) = least(u) /\ total(t) < total(u)

Inserted(s, t) ==
    LET k == Cardinality({i \in 1 .. Len(s) : ~Below(t, s[i])})
    IN SubSeq(s, 1, k) \o <<t>> \o SubSeq(s, k + 1, Len(s))

(* Mutant: the store keeps what it has. *)
Added_FirstCome(s, t) == IF Len(s) < StoreSize THEN Inserted(s, t) ELSE s

(* PriorityStore.add sorts t behind its equals, and drops the first when    *)
(* there are too many.                                                      *)
Added(s, t) ==
    LET sorted == Inserted(s, t)
    IN IF Len(sorted) > StoreSize THEN Tail(sorted) ELSE sorted

(* _drain_received_trajectories looks again whether they are stale.         *)
Drain(r) ==
    /\ runner = "batch" /\ r \notin ready
    /\ received[r] # <<>>
    /\ received' = [received EXCEPT ![r] = Tail(@)]
    /\ store' = IF Fresh(Head(received[r]))
                THEN [store EXCEPT ![r] = Added(@, Head(received[r]))] ELSE store
    /\ UNCHANGED <<percent, load_instant, runner, version, rolloutVars, current, channel, hand, ready>>

Cells(s) == (1 .. Len(s)) \X (1 .. Chunks)

(* Mutant: a trajectory counts whole. *)
OnPolicy_Whole(s) ==
    LET new == {k \in 1 .. Len(s) : s[k].tags[Chunks] = version}
    IN 100 * Cardinality(new) >= percent * Len(s)

(* The ratio of chunks with the current version, of those in the store.     *)
OnPolicy(s) ==
    LET new == {c \in Cells(s) : s[c[1]].tags[c[2]] = version}
    IN 100 * Cardinality(new) >= percent * Cardinality(Cells(s))

(* Nothing more to drain in this round of _wait_for_rollout_store_ready:    *)
(* remove_below drops the stale, which are the first of the store, and the  *)
(* rank waits on unless the store is full and new enough.                   *)
Check(r) ==
    /\ runner = "batch" /\ r \notin ready
    /\ received[r] = <<>>
    /\ \E n \in 0 .. Len(store[r]) :
           /\ \A k \in 1 .. n : ~Fresh(store[r][k])
           /\ \A k \in n + 1 .. Len(store[r]) : Fresh(store[r][k])
           /\ LET kept == SubSeq(store[r], n + 1, Len(store[r]))
              IN /\ store' = [store EXCEPT ![r] = kept]
                 /\ ready' = IF Len(kept) >= StoreSize /\ OnPolicy(kept)
                             THEN ready \cup {r} ELSE ready
    /\ UNCHANGED <<percent, load_instant, runner, version, rolloutVars, current, channel, hand, received>>

(* The barrier of construct_rollout_batch. What topn returns stays in the   *)
(* store, and is what the rank trains on.                                   *)
Barrier ==
    /\ runner = "batch" /\ ready = Ranks
    /\ runner' = "train"
    /\ ready' = {}
    /\ UNCHANGED <<percent, load_instant, version, rolloutVars, current, channel, hand, received, store>>

Batch(r) == store[r]

(* run_training is over: set_global_step, and the weights are sent.         *)
Trained ==
    /\ runner = "train"
    /\ version' = version + 1
    /\ runner' = "sync"
    /\ UNCHANGED <<percent, load_instant, rolloutVars, current, channel, actorVars>>

-----------------------------------------------------------------------------
Next ==
    \/ Predict \/ Apply
    \/ \E r \in Ranks : Receive(r) \/ Enqueue(r) \/ Drain(r) \/ Check(r)
    \/ Barrier \/ Trained

(* Every process goes on. The gets of the ranks are served in turn by the   *)
(* channel, so none of them is passed over for ever; and a rank that drains *)
(* its queue finds it empty now and then.                                   *)
Fairness ==
    /\ WF_vars(Predict) /\ WF_vars(Apply) /\ WF_vars(Barrier) /\ WF_vars(Trained)
    /\ \A r \in Ranks : SF_vars(Receive(r)) /\ WF_vars(Enqueue(r))
    /\ \A r \in Ranks : WF_vars(Drain(r)) /\ SF_vars(Check(r))

Spec == Init /\ [][Next]_vars /\ Fairness

-----------------------------------------------------------------------------
(* "ensuring that the version staleness of the samples used does not exceed *)
(* that threshold" (async_ppo.rst): while a rank trains, the weights that   *)
(* predicted any part of its batch are at most Threshold versions old,      *)
(* although some were replaced in the middle of a prediction, and most of   *)
(* the batch may have been trained on before.                               *)
TrainedIsFresh ==
    runner = "train" =>
        \A r \in Ranks : \A k \in 1 .. Len(Batch(r)) :
            \A i \in 1 .. Len(Batch(r)[k].made) : \A b \in 1 .. Buckets :
                Batch(r)[k].made[i][b] >= version - Threshold

(* "ensuring the fraction of on-policy samples in the current training      *)
(* round is no lower than this value" (async_ppo.rst): of the chunks of the *)
(* batch, no fewer than on_policy_min_ratio were predicted with weights all *)
(* of which are those of the actor.                                         *)
OnPolicyEnough ==
    runner = "train" =>
        \A r \in Ranks :
            LET new == {c \in Cells(Batch(r)) :
                           \A b \in 1 .. Buckets : Batch(r)[c[1]].made[c[2]][b] = version}
            IN 100 * Cardinality(new) >= percent * Cardinality(Cells(Batch(r)))

(* No rank waits for ever for what another rank has taken, for a store that *)
(* never gets full or never gets new enough: the runner makes all its steps.*)
EveryStepEnds == <>(runner = "end")
=============================================================================
