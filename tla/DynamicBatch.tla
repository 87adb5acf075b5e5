----------------------------- MODULE DynamicBatch ------------------------------
(***************************************************************************)
(* Inference of the FSDP actor over one global step.  Its data-parallel    *)
(* ranks take rollout results from one channel.  In each round a rank has  *)
(* to hold MinNow results; then it takes as many as it can, while all      *)
(* ranks reduce, every 0.1 s or when full, the least number that any holds.*)
(* A rank stops when the reduction no longer grows.  All then infer that   *)
(* many results; those beyond, and the get under way, are kept for the     *)
(* next round.                                                             *)
(*                                                                         *)
(* An all-reduce and a forward pass of a sharded model need every rank:    *)
(* each is one step, taken when all ranks are at it.  Results are counted. *)
(***************************************************************************)
EXTENDS Integers, FiniteSets

CONSTANTS
    Ranks,          \* data-parallel ranks of the actor
    PerDp,          \* total_result_len_per_dp: results of a rank in the step
    Split,          \* inference_split
    Pipelined       \* is_pipeline: infer while rollout goes on

ASSUME RanksAssumption == IsFiniteSet(Ranks) /\ Ranks # {}
ASSUME SizesAssumption ==
    /\ PerDp \in Nat \ {0}
    /\ Split \in 1 .. PerDp
    /\ Pipelined \in BOOLEAN

Least(a, b) == IF a <= b THEN a ELSE b

MaxLen == PerDp \div Split
MinLen == IF Pipelined THEN 1 ELSE MaxLen

VARIABLES
    due,            \* results that rollout has yet to put
    avail,          \* results in the channel
    pc,             \* pc[r]: where r is in run_inference
    held,           \* held[r]: len(rollout_results)
    get,            \* get[r]: unfinished_result, the asynchronous get of r
    agreed,         \* agreed[r]: result_len
    total           \* total[r]: total_result_len

channelVars == <<due, avail>>
rankVars == <<pc, held, get, agreed, total>>
vars == <<channelVars, rankVars>>

TypeOK ==
    /\ due \in Nat
    /\ avail \in Nat
    /\ pc \in [Ranks -> {"fill", "loop", "reduce", "infer", "done"}]
    /\ held \in [Ranks -> Nat]
    /\ get \in [Ranks -> {"none", "asked", "ready"}]
    /\ agreed \in [Ranks -> Nat]
    /\ total \in [Ranks -> Nat]

(* Rollout puts the results of the whole batch; each rank infers its share. *)
Init ==
    /\ due = PerDp * Cardinality(Ranks)
    /\ avail = 0
    /\ pc = [r \in Ranks |-> "fill"]
    /\ held = [r \in Ranks |-> 0]
    /\ get = [r \in Ranks |-> "none"]
    /\ agreed = [r \in Ranks |-> 0]
    /\ total = [r \in Ranks |-> 0]

Left(r) == PerDp - total[r]
MinNow(r) == Least(MinLen, Left(r))

(* Mutant: the last round may take more than is left. *)
MaxNow_Whole(r) == MaxLen

MaxNow(r) == Least(MaxLen, Left(r))

-----------------------------------------------------------------------------
(* Rollout and the channel. *)

Produce ==
    /\ due > 0
    /\ due' = due - 1
    /\ avail' = avail + 1
    /\ UNCHANGED rankVars

(* The result of an asynchronous get arrives. *)
Answer(r) ==
    /\ get[r] = "asked"
    /\ avail > 0
    /\ avail' = avail - 1
    /\ get' = [get EXCEPT ![r] = "ready"]
    /\ UNCHANGED <<due, pc, held, agreed, total>>

-----------------------------------------------------------------------------
(* get_dynamic_batch_as_much, first part: at least MinNow results. *)

(* A get left over from the round before comes first, and is waited for. *)
FillFromGet(r) ==
    /\ pc[r] = "fill"
    /\ held[r] < MinNow(r)
    /\ get[r] = "ready"
    /\ held' = [held EXCEPT ![r] = @ + 1]
    /\ get' = [get EXCEPT ![r] = "none"]
    /\ UNCHANGED <<channelVars, pc, agreed, total>>

FillFromChannel(r) ==
    /\ pc[r] = "fill"
    /\ held[r] < MinNow(r)
    /\ get[r] = "none"
    /\ avail > 0
    /\ avail' = avail - 1
    /\ held' = [held EXCEPT ![r] = @ + 1]
    /\ UNCHANGED <<due, pc, get, agreed, total>>

(* The loop begins with last_result_len = 0 and the rank's own count. *)
Begin(r) ==
    /\ pc[r] = "fill"
    /\ held[r] >= MinNow(r)
    /\ agreed' = [agreed EXCEPT ![r] = held[r]]
    /\ pc' = [pc EXCEPT ![r] = "loop"]
    /\ UNCHANGED <<channelVars, held, get, total>>

-----------------------------------------------------------------------------
(* Second part: the loop of asking, polling and reducing. *)

Ask(r) ==
    /\ pc[r] = "loop"
    /\ held[r] < MaxNow(r)
    /\ get[r] = "none"
    /\ get' = [get EXCEPT ![r] = "asked"]
    /\ UNCHANGED <<channelVars, pc, held, agreed, total>>

(* The get is done; the 0.1 s may be over in the same turn of the loop. *)
Append(r) ==
    /\ pc[r] = "loop"
    /\ held[r] < MaxNow(r)
    /\ get[r] = "ready"
    /\ held' = [held EXCEPT ![r] = @ + 1]
    /\ get' = [get EXCEPT ![r] = "none"]
    /\ \E at \in {"loop", "reduce"} : pc' = [pc EXCEPT ![r] = at]
    /\ UNCHANGED <<channelVars, agreed, total>>

TimesOut(r) ==
    /\ pc[r] = "loop"
    /\ held[r] < MaxNow(r)
    /\ get[r] # "none"
    /\ pc' = [pc EXCEPT ![r] = "reduce"]
    /\ UNCHANGED <<channelVars, held, get, agreed, total>>

(* Mutant: a rank that cannot take more does not wait for the others. *)
Full_Leaves(r) ==
    /\ pc[r] = "loop"
    /\ held[r] >= MaxNow(r)
    /\ pc' = [pc EXCEPT ![r] = "infer"]
    /\ UNCHANGED <<channelVars, held, get, agreed, total>>

Full(r) ==
    /\ pc[r] = "loop"
    /\ held[r] >= MaxNow(r)
    /\ pc' = [pc EXCEPT ![r] = "reduce"]
    /\ UNCHANGED <<channelVars, held, get, agreed, total>>

(* all_reduce_int gives every rank the least count m. A rank goes on if     *)
(* that is more than its own last result_len.                               *)
Reduce(m) ==
    /\ \A r \in Ranks : pc[r] = "reduce" /\ held[r] >= m
    /\ pc' = [r \in Ranks |-> IF agreed[r] < m THEN "loop" ELSE "infer"]
    /\ agreed' = [r \in Ranks |-> m]
    /\ UNCHANGED <<channelVars, held, get, total>>

-----------------------------------------------------------------------------
(* Mutant: the results beyond the agreed number are not handed on. *)
Infer_DropsRest ==
    /\ \A r \in Ranks : pc[r] = "infer"
    /\ total' = [r \in Ranks |-> total[r] + agreed[r]]
    /\ held' = [r \in Ranks |-> 0]
    /\ pc' = [r \in Ranks |-> IF total'[r] < PerDp THEN "fill" ELSE "done"]
    /\ UNCHANGED <<channelVars, get, agreed>>

(* inference_step of all ranks on their agreed[r] first results. *)
Infer ==
    /\ \A r \in Ranks : pc[r] = "infer"
    /\ total' = [r \in Ranks |-> total[r] + agreed[r]]
    /\ held' = [r \in Ranks |-> held[r] - agreed[r]]
    /\ pc' = [r \in Ranks |-> IF total'[r] < PerDp THEN "fill" ELSE "done"]
    /\ UNCHANGED <<channelVars, get, agreed>>

RankStep(r) ==
    \/ Answer(r) \/ FillFromGet(r) \/ FillFromChannel(r) \/ Begin(r)
    \/ Ask(r) \/ Append(r) \/ TimesOut(r) \/ Full(r)

ReduceLeast == \E r \in Ranks : Reduce(held[r])

Next == Produce \/ (\E r \in Ranks : RankStep(r)) \/ ReduceLeast \/ Infer

(* Rollout ends, gets are answered, and neither the ranks nor their         *)
(* collectives stop while they can go on.                                   *)
Fairness ==
    /\ WF_vars(Produce)
    /\ \A r \in Ranks :
           /\ WF_vars(Answer(r))
           /\ WF_vars(FillFromGet(r) \/ FillFromChannel(r) \/ Begin(r))
           /\ WF_vars(Ask(r) \/ Append(r) \/ TimesOut(r) \/ Full(r))
    /\ WF_vars(ReduceLeast)
    /\ WF_vars(Infer)

Spec == Init /\ [][Next]_vars /\ Fairness

-----------------------------------------------------------------------------
(* "stop at: the min result between dp (result_len) is same as the last min *)
(* result" (comment above the loop): the minimum is that of all ranks, so   *)
(* all of them stop at the same reduction. Else one is alone in the next    *)
(* reduction while the others wait for it in their forward pass.            *)
RanksStopTogether ==
    \A r, s \in Ranks : pc[r] = "infer" => pc[s] = "infer"

(* When a rank has its share, nothing is kept that no later round would     *)
(* infer: no result beyond the agreed number, and no get whose result would *)
(* be lost to the other ranks.                                              *)
NothingHeldBack ==
    \A r \in Ranks : pc[r] = "done" =>
        total[r] = PerDp /\ held[r] = 0 /\ get[r] = "none"

(* run_inference ends in every rank, having inferred all of its share, in   *)
(* whatever order rollout finishes and whoever takes the results.           *)
EveryRankEnds == <>(\A r \in Ranks : pc[r] = "done")
=============================================================================
