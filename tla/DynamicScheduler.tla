--------------------------- MODULE DynamicScheduler ---------------------------
(***************************************************************************)
(* The dynamic scheduler of a reasoning run: one manager coroutine, the    *)
(* rollout instances, the inference worker and the actor.                  *)
(*                                                                         *)
(* In every global step the instances generate RolloutBatch sequence       *)
(* groups, inference works on each, and the actor trains on them in        *)
(* NMinibatches iterations.  After each iteration the manager moves GPUs   *)
(* to the actor: it closes rollout instances, first moving their groups to *)
(* the others, and takes the GPUs of inference once that has finished.     *)
(*                                                                         *)
(* An instance is two coroutines of one event loop: rollout(), which       *)
(* collects finished groups, and main_loop(), which serves the manager.    *)
(* They share the status manager: generating, cut, aborted, done, event.   *)
(***************************************************************************)
EXTENDS ScalingPolicy

CONSTANTS
    ActorGpus,          \* actor_world_size at the start of a global step
    InferenceGpus,      \* inference_world_size
    UsePreProcess,      \* use_pre_process_policy
    UseWait             \* use_wait_before_last_iter_policy

FirstRolloutGpu == IF UsePreProcess THEN 0 ELSE ActorGpus

NumInstances == (TotalGpus - InferenceGpus - FirstRolloutGpu) \div RolloutParallel

Instances == 1 .. NumInstances

(* Instances on the GPUs of the actor: closed by the pre-process.           *)
PreInstances == ActorGpus \div RolloutParallel

FirstActorNum == ActorGpus \div ActorParallel

(* The placement gives every instance whole GPUs, and the largest valid     *)
(* size is the whole cluster.                                               *)
ASSUME PlacementAssumption ==
    /\ ActorGpus \in 1 .. TotalGpus - 1
    /\ InferenceGpus \in 1 .. TotalGpus - 1
    /\ UsePreProcess \in BOOLEAN /\ UseWait \in BOOLEAN
    /\ FirstActorNum \in ValidDpSizes
    /\ ActorGpus = FirstActorNum * ActorParallel
    /\ TotalGpus \in {dp * ActorParallel : dp \in ValidDpSizes}
    /\ NumInstances \in Nat \ {0}
    /\ TotalGpus = FirstRolloutGpu + NumInstances * RolloutParallel + InferenceGpus
    /\ UsePreProcess => /\ ActorGpus = PreInstances * RolloutParallel
                        /\ PreInstances < NumInstances
    /\ RolloutBatch >= NumInstances
    /\ RolloutBatch >= 2

VARIABLES
    (* the manager *)
    pc,             \* what the manager does or waits for
    iter,           \* train_iter; -1 before and during pre_process
    offset,         \* current_instance_offset: rollout instances closed
    load,           \* running_tasks by the last report, while migrating
    leaving,        \* how many instances finish() or migrate() closes
    actorNum,       \* current_instance_num of the actor
    inferenceHeld,  \* whether current_instance_num of inference is not 0
    available,      \* available_gpu_num
    (* rollout instance i *)
    rollout,        \* rollout[i]: where rollout() is
    main,           \* main[i]: "serving", or "draining" in _migrate_out
    generating,     \* running groups the engine works on or has finished
    cut,            \* running groups the engine has aborted
    aborted,        \* _aborted_seq_group
    done,           \* _done_seq_group
    event,          \* exit_rollout_iter
    req, resp,      \* the request and the response queue of instance i
    (* the actor and inference *)
    actor,          \* where the actor is
    trained,        \* iterations trained
    width,          \* the actor's world size
    orders,         \* its request queue: a world size, or 0 for None
    asks,           \* its response queue: how many "ready to update"
    inference,      \* "running", then "offloaded"
    sent,           \* groups the instances have put into the channel
    inferred,       \* groups inference has passed on to the actor
    notice          \* "finished" of inference: "none", "sent", "received"

managerVars == <<pc, iter, offset, load, leaving, actorNum, inferenceHeld, available>>
statusVars == <<generating, cut, aborted, done, event>>
instanceVars == <<rollout, main, statusVars, req, resp>>
actorVars == <<actor, trained, width, orders, asks>>
inferenceVars == <<inference, inferred, notice>>
vars == <<managerVars, instanceVars, actorVars, inferenceVars, sent>>

Request(action) == [action |-> action, groups |-> 0]
MigrateIn(n) == [action |-> "Migrate_In", groups |-> n]
Response(kind, total, groups) == [kind |-> kind, total |-> total, groups |-> groups]

Init ==
    /\ pc = "begin" /\ iter = -1 /\ offset = 0 /\ load = <<>> /\ leaving = 0
    /\ actorNum = FirstActorNum
    /\ inferenceHeld = TRUE /\ available = 0
    /\ rollout = [i \in Instances |-> "idle"]
    /\ main = [i \in Instances |-> "serving"]
    /\ generating = [i \in Instances |-> 0]
    /\ cut = [i \in Instances |-> 0]
    /\ aborted = [i \in Instances |-> 0]
    /\ done = [i \in Instances |-> 0]
    /\ event = [i \in Instances |-> FALSE]
    /\ req = [i \in Instances |-> <<>>]
    /\ resp = [i \in Instances |-> <<>>]
    /\ actor = (IF UsePreProcess THEN "blocked" ELSE "training")
    /\ trained = 0 /\ width = ActorGpus
    /\ orders = <<>> /\ asks = 0
    /\ inference = "running" /\ sent = 0 /\ inferred = 0 /\ notice = "none"

-----------------------------------------------------------------------------
(* A rollout instance *)

Sending(i) == IF rollout[i] = "sending" THEN 1 ELSE 0

(* num_seq_group_running                                                    *)
Running(i) == generating[i] + cut[i] + Sending(i)

(* Groups in the next of the requests the batch is split into.              *)
RequestSize ==
    RolloutBatch \div NumInstances +
    (IF Cardinality({i \in Instances : rollout[i] # "idle"})
            < RolloutBatch % NumInstances
     THEN 1 ELSE 0)

StartRollout(i) ==
    /\ rollout[i] = "idle"
    /\ Running(i) + done[i] + aborted[i] = 0
    /\ rollout' = [rollout EXCEPT ![i] = "collecting"]
    /\ generating' = [generating EXCEPT ![i] = RequestSize]
    /\ UNCHANGED <<managerVars, main, cut, aborted, done, event, req, resp,
                   actorVars, inferenceVars, sent>>

(* A group is complete; its result goes into the output channel.            *)
SendResult(i) ==
    /\ rollout[i] = "collecting"
    /\ generating[i] > 0
    /\ generating' = [generating EXCEPT ![i] = @ - 1]
    /\ rollout' = [rollout EXCEPT ![i] = "sending"]
    /\ sent' = sent + 1
    /\ UNCHANGED <<managerVars, main, cut, aborted, done, event, req, resp,
                   actorVars, inferenceVars>>

AfterMark_Waits(i) == "waiting"

(* With no group running, rollout() waits for the manager.                  *)
AfterMark(i) == IF Running(i) = 1 THEN "waiting" ELSE "collecting"

MarkDone_Leaves(i) ==
    /\ rollout[i] = "sending"
    /\ done' = [done EXCEPT ![i] = @ + 1]
    /\ rollout' = [rollout EXCEPT ![i] =
                      IF Running(i) = 1 THEN "offloading" ELSE "collecting"]
    /\ UNCHANGED <<managerVars, main, generating, cut, aborted, event, req, resp,
                   actorVars, inferenceVars, sent>>

MarkDone(i) ==
    /\ rollout[i] = "sending"
    /\ done' = [done EXCEPT ![i] = @ + 1]
    /\ rollout' = [rollout EXCEPT ![i] = AfterMark(i)]
    /\ UNCHANGED <<managerVars, main, generating, cut, aborted, event, req, resp,
                   actorVars, inferenceVars, sent>>

MarkAborted(i) ==
    /\ rollout[i] = "collecting"
    /\ cut[i] > 0
    /\ cut' = [cut EXCEPT ![i] = @ - 1]
    /\ aborted' = [aborted EXCEPT ![i] = @ + 1]
    /\ rollout' = [rollout EXCEPT ![i] = AfterMark(i)]
    /\ UNCHANGED <<managerVars, main, generating, done, event, req, resp,
                   actorVars, inferenceVars, sent>>

(* Notified: new groups have been migrated in.                              *)
Continue(i) ==
    /\ rollout[i] = "waiting"
    /\ event[i]
    /\ Running(i) > 0
    /\ event' = [event EXCEPT ![i] = FALSE]
    /\ rollout' = [rollout EXCEPT ![i] = "collecting"]
    /\ UNCHANGED <<managerVars, main, generating, cut, aborted, done, req, resp,
                   actorVars, inferenceVars, sent>>

(* Notified with nothing to do: the loop ends and the status is cleared.    *)
Leave_KeepsEvent(i) ==
    /\ rollout[i] = "waiting"
    /\ event[i]
    /\ Running(i) = 0
    /\ aborted' = [aborted EXCEPT ![i] = 0]
    /\ done' = [done EXCEPT ![i] = 0]
    /\ rollout' = [rollout EXCEPT ![i] = "offloading"]
    /\ UNCHANGED <<managerVars, main, event, generating, cut, req, resp,
                   actorVars, inferenceVars, sent>>

Leave(i) ==
    /\ rollout[i] = "waiting"
    /\ event[i]
    /\ Running(i) = 0
    /\ event' = [event EXCEPT ![i] = FALSE]
    /\ aborted' = [aborted EXCEPT ![i] = 0]
    /\ done' = [done EXCEPT ![i] = 0]
    /\ rollout' = [rollout EXCEPT ![i] = "offloading"]
    /\ UNCHANGED <<managerVars, main, generating, cut, req, resp,
                   actorVars, inferenceVars, sent>>

Offload(i) ==
    /\ rollout[i] = "offloading"
    /\ resp' = [resp EXCEPT ![i] = Append(@, Response("Offloaded", 0, 0))]
    /\ rollout' = [rollout EXCEPT ![i] = "exited"]
    /\ UNCHANGED <<managerVars, main, statusVars, req,
                   actorVars, inferenceVars, sent>>

(* The next request main_loop takes.                                        *)
Asked(i, actions) ==
    /\ main[i] = "serving"
    /\ req[i] # <<>>
    /\ Head(req[i]).action \in actions
    /\ req' = [req EXCEPT ![i] = Tail(@)]

ServeReport(i) ==
    /\ Asked(i, {"Report"})
    /\ resp' = [resp EXCEPT ![i] =
                   Append(@, Response("report", Running(i) + done[i], Running(i)))]
    /\ UNCHANGED <<managerVars, rollout, main, statusVars,
                   actorVars, inferenceVars, sent>>

(* abort_generation: some groups may still have finished by themselves.     *)
AbortGeneration(i) ==
    /\ Asked(i, {"Migrate_Out"})
    /\ \E kept \in 0 .. generating[i] :
           /\ generating' = [generating EXCEPT ![i] = kept]
           /\ cut' = [cut EXCEPT ![i] = @ + generating[i] - kept]
    /\ main' = [main EXCEPT ![i] = "draining"]
    /\ UNCHANGED <<managerVars, rollout, aborted, done, event, resp,
                   actorVars, inferenceVars, sent>>

HandOver(i) ==
    /\ main[i] = "draining"
    /\ Running(i) = 0
    /\ main' = [main EXCEPT ![i] = "serving"]
    /\ resp' = [resp EXCEPT ![i] = Append(@, Response("data", 0, aborted[i]))]
    /\ UNCHANGED <<managerVars, rollout, statusVars, req,
                   actorVars, inferenceVars, sent>>

ServeMigrateIn(i) ==
    /\ Asked(i, {"Migrate_In"})
    /\ generating' = [generating EXCEPT ![i] = @ + Head(req[i]).groups]
    /\ event' = [event EXCEPT ![i] = @ \/ Running(i) = 0]
    /\ UNCHANGED <<managerVars, rollout, main, cut, aborted, done, resp,
                   actorVars, inferenceVars, sent>>

(* main_loop serves nothing else while it waits for the running groups.     *)
ServeFinish(i) ==
    /\ Asked(i, {"Finish", "Wait_For_Finish"})
    /\ Running(i) = 0
    /\ event' = [event EXCEPT ![i] = TRUE]
    /\ UNCHANGED <<managerVars, rollout, main, generating, cut, aborted, done, resp,
                   actorVars, inferenceVars, sent>>

RolloutStep(i) ==
    \/ StartRollout(i)
    \/ SendResult(i)
    \/ MarkDone(i)
    \/ MarkAborted(i)
    \/ Continue(i)
    \/ Leave(i)
    \/ Offload(i)

MainLoopStep(i) ==
    \/ ServeReport(i)
    \/ AbortGeneration(i)
    \/ HandOver(i)
    \/ ServeMigrateIn(i)
    \/ ServeFinish(i)

-----------------------------------------------------------------------------
(* The manager: RolloutManager *)

(* _get_running_instances: those not closed, in order.                      *)
Alive == offset + 1 .. NumInstances
AliveNum == NumInstances - offset
Closing == offset + 1 .. offset + leaving

Scatter(ids, request) ==
    req' = [i \in Instances |->
               IF i \in ids THEN Append(req[i], request) ELSE req[i]]

(* _gather_responses: one answer from each.                                 *)
Gather(ids) ==
    /\ \A i \in ids : resp[i] # <<>>
    /\ resp' = [i \in Instances |->
                   IF i \in ids THEN Tail(resp[i]) ELSE resp[i]]

TotalTasks == SumFunction([i \in Alive |-> Head(resp[i]).total])
RunningTasks == SumFunction([i \in Alive |-> Head(resp[i]).groups])

(* The first k alive instances give their groups away.                      *)
MigrateOut(k) ==
    /\ load' = [j \in 1 .. AliveNum |-> Head(resp[offset + j]).groups]
    /\ leaving' = k
    /\ Scatter(offset + 1 .. offset + k, Request("Migrate_Out"))
    /\ pc' = "migrate"

FinishAll(action) ==
    /\ leaving' = AliveNum
    /\ Scatter(Alive, Request(action))
    /\ pc' = "finish"

PreProcess ==
    /\ pc = "begin"
    /\ IF UsePreProcess
       THEN Scatter(Alive, Request("Report")) /\ pc' = "pre_process"
       ELSE pc' = "components" /\ UNCHANGED req
    /\ UNCHANGED <<iter, offset, load, leaving, actorNum, inferenceHeld, available,
                   rollout, main, statusVars, resp, actorVars, inferenceVars, sent>>

PreProcessReports ==
    /\ pc = "pre_process"
    /\ Gather(Alive)
    /\ IF TotalTasks = RolloutBatch /\ RunningTasks <= RolloutBatch \div 2
       THEN MigrateOut(PreInstances)
       ELSE /\ Scatter(Alive, Request("Report"))
            /\ UNCHANGED <<pc, load, leaving>>
    /\ UNCHANGED <<iter, offset, actorNum, inferenceHeld, available,
                   rollout, main, statusVars, actorVars, inferenceVars, sent>>

(* pre_process of inference and actor, and scheduler_state.reset.           *)
StartComponents ==
    /\ pc = "components"
    /\ available' = 0
    /\ iter' = 0
    /\ orders' = IF UsePreProcess THEN Append(orders, 0) ELSE orders
    /\ pc' = "await_actor"
    /\ UNCHANGED <<offset, load, leaving, actorNum, inferenceHeld, instanceVars,
                   actor, trained, width, asks, inferenceVars, sent>>

AwaitActor ==
    /\ pc = "await_actor"
    /\ asks > 0
    /\ asks' = asks - 1
    /\ IF offset = NumInstances
       THEN pc' = "inference" /\ UNCHANGED <<leaving, req>>
       ELSE IF iter = NMinibatches - 1
            THEN FinishAll("Finish")
            ELSE /\ Scatter(Alive, Request("Report"))
                 /\ pc' = "report"
                 /\ UNCHANGED leaving
    /\ UNCHANGED <<iter, offset, load, actorNum, inferenceHeld, available,
                   rollout, main, statusVars, resp, actor, trained, width, orders,
                   inferenceVars, sent>>

ReleaseRollout_LateByOne ==
    /\ pc = "report"
    /\ Gather(Alive)
    /\ LET k == MigratePolicy(AliveNum, RunningTasks, actorNum) IN
       \/ /\ RunningTasks = 0
          /\ FinishAll("Finish") /\ UNCHANGED load
       \/ /\ RunningTasks > 0 /\ UseWait /\ iter = NMinibatches - 1
          /\ FinishAll("Wait_For_Finish") /\ UNCHANGED load
       \/ /\ RunningTasks > 0 /\ ~(UseWait /\ iter = NMinibatches - 1)
          /\ IF k > 0
             THEN MigrateOut(k)
             ELSE pc' = "inference" /\ UNCHANGED <<load, leaving, req>>
    /\ UNCHANGED <<iter, offset, actorNum, inferenceHeld, available,
                   rollout, main, statusVars, actorVars, inferenceVars, sent>>

ReleaseRollout ==
    /\ pc = "report"
    /\ Gather(Alive)
    /\ LET k == MigratePolicy(AliveNum, RunningTasks, actorNum) IN
       \/ /\ RunningTasks = 0
          /\ FinishAll("Finish") /\ UNCHANGED load
       \/ /\ RunningTasks > 0 /\ UseWait /\ iter = NMinibatches - 2
          /\ FinishAll("Wait_For_Finish") /\ UNCHANGED load
       \/ /\ RunningTasks > 0 /\ ~(UseWait /\ iter = NMinibatches - 2)
          /\ IF k > 0
             THEN MigrateOut(k)
             ELSE pc' = "inference" /\ UNCHANGED <<load, leaving, req>>
    /\ UNCHANGED <<iter, offset, actorNum, inferenceHeld, available,
                   rollout, main, statusVars, actorVars, inferenceVars, sent>>

(* migrate_in, by what the last report said, and Finish for the closing.    *)
Migrate ==
    /\ pc = "migrate"
    /\ Gather(Closing)
    /\ LET n == SumFunction([i \in Closing |-> Head(resp[i]).groups])
           staying == SubSeq(load, leaving + 1, Len(load))
           expected == SumFunction(load) \div Len(staying)
           given == Assigned(n, staying, expected)
       IN req' = [i \in Instances |->
              IF i \in Closing THEN Append(req[i], Request("Finish"))
              ELSE IF i > offset + leaving /\ given[i - offset - leaving] > 0
              THEN Append(req[i], MigrateIn(given[i - offset - leaving]))
              ELSE req[i]]
    /\ load' = <<>>
    /\ pc' = "finish"
    /\ UNCHANGED <<iter, offset, leaving, actorNum, inferenceHeld, available,
                   rollout, main, statusVars, actorVars, inferenceVars, sent>>

(* finish(): the closing instances have offloaded.  Only release_resource   *)
(* counts their GPUs as available.                                          *)
Finished ==
    /\ pc = "finish"
    /\ Gather(Closing)
    /\ offset' = offset + leaving
    /\ leaving' = 0
    /\ available' = IF iter \in 0 .. NMinibatches - 2
                    THEN available + leaving * RolloutParallel
                    ELSE available
    /\ pc' = IF iter = -1 THEN "components" ELSE "inference"
    /\ UNCHANGED <<iter, load, actorNum, inferenceHeld, rollout, main, statusVars, req,
                   actorVars, inferenceVars, sent>>

-----------------------------------------------------------------------------
(* The manager: InferenceManager and ActorManager *)

(* main_loop_finished_handler, posted by pre_process, takes the message.    *)
NoticeArrives ==
    /\ notice = "sent"
    /\ iter >= 0
    /\ notice' = "received"
    /\ UNCHANGED <<managerVars, instanceVars, actorVars, inference, inferred, sent>>

(* Whether inference is waited for before the actor goes on.                *)
MustWait ==
    \/ iter = NMinibatches - 1
    \/ inferenceHeld /\ UseWait /\ (iter = NMinibatches - 2 \/ offset = NumInstances)

(* Whether its GPUs are released now.                                       *)
ReleaseInference_NoWait ==
    /\ pc = "inference"
    /\ LET released == /\ iter < NMinibatches - 1
                       /\ inferenceHeld
                       /\ IF UseWait THEN MustWait ELSE notice = "received"
       IN /\ inferenceHeld' = (inferenceHeld /\ ~released)
          /\ available' = available + IF released THEN InferenceGpus ELSE 0
    /\ pc' = "actor"
    /\ UNCHANGED <<iter, offset, load, leaving, actorNum,
                   instanceVars, actorVars, inferenceVars, sent>>

ReleaseInference ==
    /\ pc = "inference"
    /\ MustWait => notice = "received"
    /\ LET released == /\ iter < NMinibatches - 1
                       /\ inferenceHeld
                       /\ IF UseWait THEN MustWait ELSE notice = "received"
       IN /\ inferenceHeld' = (inferenceHeld /\ ~released)
          /\ available' = available + IF released THEN InferenceGpus ELSE 0
    /\ pc' = "actor"
    /\ UNCHANGED <<iter, offset, load, leaving, actorNum,
                   instanceVars, actorVars, inferenceVars, sent>>

(* scale(): None when the size stays.                                       *)
Scale(newNum) ==
    /\ orders' = Append(orders, IF newNum = actorNum THEN 0 ELSE newNum * ActorParallel)
    /\ actorNum' = newNum

AllocateActor_KeepsAvailable ==
    /\ pc = "actor"
    /\ iter < NMinibatches - 1
    /\ Scale(GrownSize(actorNum, available))
    /\ iter' = iter + 1
    /\ pc' = "await_actor"
    /\ UNCHANGED <<available, offset, load, leaving, inferenceHeld, instanceVars,
                   actor, trained, width, asks, inferenceVars, sent>>

AllocateActor ==
    /\ pc = "actor"
    /\ iter < NMinibatches - 1
    /\ Scale(GrownSize(actorNum, available))
    /\ available' = available - Increment(actorNum, available)
    /\ iter' = iter + 1
    /\ pc' = "await_actor"
    /\ UNCHANGED <<offset, load, leaving, inferenceHeld, instanceVars,
                   actor, trained, width, asks, inferenceVars, sent>>

(* main_loop_finalize: back to the size of the next global step.            *)
ShrinkActor ==
    /\ pc = "actor"
    /\ iter = NMinibatches - 1
    /\ Scale(FirstActorNum)
    /\ pc' = "end"
    /\ UNCHANGED <<iter, offset, load, leaving, inferenceHeld, available, instanceVars,
                   actor, trained, width, asks, inferenceVars, sent>>

Manager ==
    \/ PreProcess
    \/ PreProcessReports
    \/ StartComponents
    \/ AwaitActor
    \/ ReleaseRollout
    \/ Migrate
    \/ Finished
    \/ ReleaseInference
    \/ AllocateActor
    \/ ShrinkActor

-----------------------------------------------------------------------------
(* Inference and the actor *)

Infer ==
    /\ inferred < sent
    /\ inferred' = inferred + 1
    /\ UNCHANGED <<managerVars, instanceVars, actorVars, inference, notice, sent>>

(* scheduler_offload_sync                                                   *)
OffloadInference ==
    /\ inference = "running"
    /\ inferred = RolloutBatch
    /\ inference' = "offloaded"
    /\ notice' = "sent"
    /\ UNCHANGED <<managerVars, instanceVars, actorVars, inferred, sent>>

(* scheduler_pre_process                                                    *)
ActorStarts ==
    /\ actor = "blocked"
    /\ orders # <<>>
    /\ orders' = Tail(orders)
    /\ actor' = "training"
    /\ UNCHANGED <<managerVars, instanceVars, trained, width, asks, inferenceVars, sent>>

(* One iteration, and the question of scheduler_scale_sync.                 *)
Train ==
    /\ actor = "training"
    /\ inferred >= (trained + 1) * Minibatch
    /\ trained' = trained + 1
    /\ asks' = asks + 1
    /\ actor' = "asked"
    /\ UNCHANGED <<managerVars, instanceVars, width, orders, inferenceVars, sent>>

(* Its answer; after the last iteration training is over.                   *)
ScaleSync ==
    /\ actor = "asked"
    /\ orders # <<>>
    /\ orders' = Tail(orders)
    /\ width' = IF Head(orders) = 0 THEN width ELSE Head(orders)
    /\ actor' = IF trained = NMinibatches THEN "done" ELSE "training"
    /\ UNCHANGED <<managerVars, instanceVars, trained, asks, inferenceVars, sent>>

Actor == ActorStarts \/ Train \/ ScaleSync
Inference == Infer \/ OffloadInference

(* The runner waits for all of them before the next global step.            *)
NextGlobalStep ==
    /\ pc = "end" /\ actor = "done" /\ inference = "offloaded"
    /\ \A i \in Instances : rollout[i] = "exited"
    /\ pc' = "begin" /\ iter' = -1 /\ offset' = 0 /\ load' = <<>> /\ leaving' = 0
    /\ actorNum' = FirstActorNum
    /\ inferenceHeld' = TRUE /\ available' = 0
    /\ rollout' = [i \in Instances |-> "idle"]
    /\ main' = [i \in Instances |-> "serving"]
    /\ generating' = [i \in Instances |-> 0]
    /\ cut' = [i \in Instances |-> 0]
    /\ aborted' = [i \in Instances |-> 0]
    /\ done' = [i \in Instances |-> 0]
    /\ event' = [i \in Instances |-> FALSE]
    /\ req' = [i \in Instances |-> <<>>]
    /\ resp' = [i \in Instances |-> <<>>]
    /\ actor' = (IF UsePreProcess THEN "blocked" ELSE "training")
    /\ trained' = 0 /\ width' = ActorGpus
    /\ orders' = <<>> /\ asks' = 0
    /\ inference' = "running" /\ sent' = 0 /\ inferred' = 0 /\ notice' = "none"

Next ==
    \/ Manager
    \/ NoticeArrives
    \/ Actor
    \/ Inference
    \/ NextGlobalStep
    \/ \E i \in Instances : RolloutStep(i) \/ MainLoopStep(i)

Spec == Init /\ [][Next]_vars

(* Some step is taken while one can be, and the manager, which asks again   *)
(* and again in the pre-process, does not keep the instances from theirs:   *)
(* it sleeps in between.                                                    *)
Fairness == WF_vars(Next) /\ WF_vars(\E i \in Instances : RolloutStep(i))

FairSpec == Spec /\ Fairness

-----------------------------------------------------------------------------
(* Correctness *)

HeldByActor == IF actor = "blocked" THEN {} ELSE 0 .. width - 1

HeldByRollout(i) ==
    IF rollout[i] = "exited"
    THEN {}
    ELSE FirstRolloutGpu + (i - 1) * RolloutParallel
             .. FirstRolloutGpu + i * RolloutParallel - 1

HeldByInference ==
    IF inference = "offloaded" THEN {} ELSE TotalGpus - InferenceGpus .. TotalGpus - 1

(* No GPU holds the weights of two components at once.  The manager counts  *)
(* GPUs and never names one: that the ones the actor grows onto are those   *)
(* given up follows from the order of placement and of closing instances.   *)
NoSharedGpu ==
    /\ HeldByActor \cap HeldByInference = {}
    /\ \A i \in Instances :
           HeldByRollout(i) \cap (HeldByActor \cup HeldByInference) = {}

(* Between iterations the manager's books add up to the cluster.            *)
GpusAccounted ==
    pc = "await_actor" =>
        actorNum * ActorParallel
            + (NumInstances - offset) * RolloutParallel
            + (IF inferenceHeld THEN InferenceGpus ELSE 0)
            + available = TotalGpus

(* The groups instance i answers for: those running, and those aborted that *)
(* the manager does not have yet.                                           *)
HandedOver(i) ==
    \/ \E j \in DOMAIN resp[i] : resp[i][j].kind = "data"
    \/ pc = "finish" /\ i \in Closing /\ main[i] = "serving"

GroupsAt(i) ==
    generating[i] + cut[i]
    + (IF HandedOver(i) THEN 0 ELSE aborted[i])
    + SumFunction([j \in DOMAIN req[i] |-> req[i][j].groups])
    + SumFunction([j \in DOMAIN resp[i] |->
                      IF resp[i][j].kind = "data" THEN resp[i][j].groups ELSE 0])

(* Once all have started, every group is in one place: with an instance, on *)
(* its way through the manager, or sent.  Migration loses and doubles none. *)
GroupsConserved ==
    (\A i \in Instances : rollout[i] # "idle") =>
        sent + SumFunction([i \in Instances |-> GroupsAt(i)]) = RolloutBatch

(* The queue of responses has two writers, main_loop() and rollout(): every *)
(* answer the manager finds is of the kind it asked for, and no instance it *)
(* did not ask has answered (the assertions of finish and migrate_out).     *)
AnswersFit ==
    LET waited == IF pc \in {"pre_process", "report"} THEN Alive
                  ELSE IF pc \in {"migrate", "finish"} THEN Closing ELSE {}
        kind == IF pc = "migrate" THEN "data"
                ELSE IF pc = "finish" THEN "Offloaded" ELSE "report"
    IN \A i \in Instances :
           /\ Len(resp[i]) <= 1
           /\ resp[i] # <<>> => i \in waited /\ Head(resp[i]).kind = kind

(* With use_wait_before_last_iter_policy the actor has the whole cluster    *)
(* for the last iteration.                                                  *)
LastIterationTakesAll ==
    UseWait /\ NMinibatches > 1 /\ actor = "training" /\ trained = NMinibatches - 1
        => width = TotalGpus

(* A global step leaves nothing behind for the next.                        *)
NothingLeftBehind ==
    pc = "end" /\ actor = "done" =>
        /\ \A i \in Instances : /\ req[i] = <<>> /\ resp[i] = <<>>
                                /\ rollout[i] = "exited" /\ main[i] = "serving"
                                /\ ~event[i]
        /\ orders = <<>> /\ asks = 0
        /\ sent = RolloutBatch /\ notice = "received"
        /\ width = ActorGpus

(* Every global step comes to its end.                                      *)
GlobalStepEnds == []<>(pc = "begin")
=============================================================================
