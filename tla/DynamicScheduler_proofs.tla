------------------------ MODULE DynamicScheduler_proofs ------------------------
(***************************************************************************)
(* Proofs about the dynamic scheduler, for every cluster, placement, batch *)
(* and choice of policies:                                                 *)
(*   the books      Books: the GPUs the manager counts add up;             *)
(*   the protocol   ProtocolInv: where the conversation of the manager     *)
(*                  with each instance stands;                             *)
(*   the groups     Conserved: those carried and those sent make a batch;  *)
(*   the actor      StageInv: where its conversation with the manager      *)
(*                  stands; FlowInv and LastInv: how a global step ends;   *)
(*   the GPUs       FitsInv and WaitInv: who holds which.                  *)
(* Each is preserved given those before it.                                *)
(***************************************************************************)
EXTENDS DynamicScheduler, SeqFacts

(* A non-empty set of bounded natural numbers has a maximum.                *)
LEMMA MaximumExists ==
    ASSUME NEW K \in Nat, NEW S \in SUBSET (0 .. K), S # {}
    PROVE  Max(S) \in S /\ \A y \in S : y <= Max(S)
<1> DEFINE T == {K - x : x \in S}
<1>1. T \subseteq Nat /\ T # {}
  <2>1. \A x \in S : K - x \in Nat
    OBVIOUS
  <2>2. PICK x \in S : TRUE
    OBVIOUS
  <2>3. K - x \in T
    OBVIOUS
  <2> QED BY <2>1, <2>3
<1>2. PICK t \in T : \A u \in T : ~ (<<u, t>> \in OpToRel(<, Nat))
  <2> HIDE DEF T
  <2> QED BY <1>1, NatLessThanWellFounded, WFMin
<1>3. \A u \in T : t <= u
  <2> HIDE DEF T
  <2>1. \A u \in T : u \in Nat /\ t \in Nat /\ ~ (u < t)
    BY <1>1, <1>2 DEF OpToRel
  <2> QED BY <2>1
<1>4. PICK x \in S : \A y \in S : x >= y
  BY <1>3
<1>5. QED
  BY <1>4 DEF Max

(* try_allocate: the actor keeps or raises its size, to a valid one, and    *)
(* never takes more GPUs than there are (its last assertion).               *)
LEMMA ActorGrowsToFit ==
    ASSUME NEW cur \in ValidDpSizes, NEW gpus
    PROVE  /\ GrownSize(cur, gpus) \in ValidDpSizes
           /\ GrownSize(cur, gpus) >= cur
           /\ Increment(cur, gpus) \in Nat
           /\ gpus \in Nat => Increment(cur, gpus) <= gpus
<1> DEFINE R == ReachableSizes(cur, gpus)
<1>1. ActorParallel \in Nat \ {0} /\ TotalGpus \in Nat
  BY PolicyAssumption
<1>2. TotalGpus \div ActorParallel \in Nat
  BY <1>1
<1>3. ValidDpSizes \subseteq 0 .. TotalGpus \div ActorParallel
  BY <1>2 DEF ValidDpSizes
<1>4. R \subseteq ValidDpSizes /\ cur \in R
  BY DEF ReachableSizes
<1>5. Max(R) \in R
  <2> HIDE DEF R
  <2> QED BY <1>2, <1>3, <1>4, MaximumExists
<1> DEFINE g == GrownSize(cur, gpus)
<1>6. /\ g \in ValidDpSizes
      /\ g = cur \/ (g > cur /\ GpusToReach(g, cur) <= gpus)
  BY <1>4, <1>5 DEF GrownSize, ReachableSizes
<1>7. g \in Nat /\ cur \in Nat
  <2> HIDE DEF g
  <2> QED BY <1>2, <1>3, <1>6
<1>8. GpusToReach(g, cur) \in Nat
  <2>1. g - cur \in Nat
    BY <1>6, <1>7
  <2> QED BY <2>1, <1>1 DEF GpusToReach
<1>9. g = cur => GpusToReach(g, cur) = 0
  BY <1>1, <1>7 DEF GpusToReach
<1>10. Increment(cur, gpus) = GpusToReach(g, cur)
  BY DEF Increment
<1>11. ASSUME gpus \in Nat
       PROVE  GpusToReach(g, cur) <= gpus
  BY <1>6, <1>8, <1>9, <1>11
<1>12. g >= cur
  <2> HIDE DEF g
  <2> QED BY <1>6, <1>7
<1> QED BY <1>6, <1>8, <1>10, <1>11, <1>12

(* find_release_instance_num_needed: a whole number of instances, and its   *)
(* last assertion: no more than may be released.                            *)
LEMMA ReleaseFits ==
    ASSUME NEW cur \in ValidDpSizes, NEW max \in Nat
    PROVE  ReleaseNeeded(max, cur) \in 0 .. max
<1> DEFINE inc == Increment(cur, max * RolloutParallel)
<1>1. RolloutParallel \in Nat \ {0}
  BY PolicyAssumption
<1>2. inc \in Nat /\ inc <= max * RolloutParallel
  BY <1>1, ActorGrowsToFit
<1> HIDE DEF inc
<1>3. ASSUME NEW b \in Nat \ {0}, NEW a \in Nat, a <= max * b
      PROVE  (a + b - 1) \div b \in 0 .. max
  <2>1. PICK q \in Int, r \in 0 .. b - 1 : q = (a + b - 1) \div b /\ a + b - 1 = q * b + r
    OBVIOUS
  <2>2. q >= 0
    BY <2>1
  <2>3. q <= max
    BY <2>1, <1>3
  <2> QED BY <2>1, <2>2, <2>3
<1> QED BY <1>1, <1>2, <1>3 DEF ReleaseNeeded, CeilDiv, inc

(* However many are running, the policy names a number of instances.        *)
LEMMA MigratePolicyType ==
    ASSUME NEW cur \in ValidDpSizes, NEW num, NEW running
    PROVE  MigratePolicy(num, running, cur) \in Int
<1>1. RolloutParallel \in Nat \ {0}
  BY PolicyAssumption
<1>2. \A gpus : Increment(cur, gpus) \in Nat
  BY ActorGrowsToFit
<1>3. ASSUME NEW a \in Nat
      PROVE  CeilDiv(a, RolloutParallel) \in Int
  BY <1>1 DEF CeilDiv
<1>4. \A max : ReleaseNeeded(max, cur) \in Int
  BY <1>2, <1>3 DEF ReleaseNeeded
<1> QED BY <1>4 DEF MigratePolicy

-----------------------------------------------------------------------------
(* What the manager's books say at every step of a global step.             *)

Sum == actorNum * ActorParallel
           + (NumInstances - offset) * RolloutParallel
           + (IF inferenceHeld THEN InferenceGpus ELSE 0)
           + available

BooksTypes ==
    /\ iter \in -1 .. NMinibatches - 1
    /\ offset \in Int /\ leaving \in Int
    /\ actorNum \in ValidDpSizes
    /\ inferenceHeld \in BOOLEAN
    /\ available \in Int

(* During the pre-process nothing is counted but the closed instances.      *)
BooksPre ==
    iter = -1 =>
        /\ pc \in {"begin", "pre_process", "migrate", "finish", "components"}
        /\ actorNum = FirstActorNum /\ inferenceHeld /\ available = 0
        /\ IF pc = "components"
           THEN offset = IF UsePreProcess THEN PreInstances ELSE 0
           ELSE offset = 0
        /\ pc = "pre_process" => UsePreProcess
        /\ pc \in {"migrate", "finish"} => UsePreProcess /\ leaving = PreInstances

(* Up to the last iteration they add up; main_loop_finalize leaves them.    *)
BooksMain ==
    /\ pc \in {"begin", "pre_process", "components"} => iter = -1
    /\ pc = "report" => iter \in 0 .. NMinibatches - 2
    /\ pc = "await_actor" => iter >= 0
    /\ iter \in 0 .. NMinibatches - 2 \/ pc = "await_actor" => Sum = TotalGpus

Books == BooksTypes /\ BooksPre /\ BooksMain

bookVars == <<pc, iter, offset, leaving, actorNum, inferenceHeld, available>>

(* A run starts with the books in order.                                    *)
LEMMA BooksInit == Init => Books
<1> SUFFICES ASSUME Init PROVE Books
  OBVIOUS
<1>1. NMinibatches \in Nat \ {0} /\ FirstActorNum \in ValidDpSizes
  BY PolicyAssumption, PlacementAssumption
<1> QED BY <1>1 DEF Init, Books, BooksTypes, BooksPre, BooksMain

(* A step of an instance, of inference or of the actor, and a stuttering    *)
(* step, do not touch the books.                                            *)
LEMMA BooksUnchanged ==
    ASSUME Books, UNCHANGED bookVars
    PROVE  Books'
BY DEF Books, BooksTypes, BooksPre, BooksMain, Sum, bookVars

(* The numbers all steps rely on.                                           *)
LEMMA Numbers ==
    /\ NMinibatches \in Nat \ {0}
    /\ ActorParallel \in Nat \ {0}
    /\ RolloutParallel \in Nat \ {0}
    /\ TotalGpus \in Nat /\ ActorGpus \in Nat /\ InferenceGpus \in Nat
    /\ NumInstances \in Nat
    /\ ValidDpSizes \subseteq Nat
    /\ UsePreProcess => PreInstances \in Nat
<1>1. TotalGpus \div ActorParallel \in Nat
  BY PolicyAssumption
<1>2. UsePreProcess => PreInstances \in Nat
  BY PolicyAssumption, PlacementAssumption DEF PreInstances
<1> QED BY <1>1, <1>2, PolicyAssumption, PlacementAssumption DEF ValidDpSizes

(* Every step keeps the books.                                              *)
LEMMA BooksNext ==
    ASSUME Books, [Next]_vars
    PROVE  Books'
<1> USE Numbers
<1>1. CASE PreProcess
  BY <1>1 DEF PreProcess, Books, BooksTypes, BooksPre, BooksMain, Sum
<1>2. CASE PreProcessReports
  <2>1. CASE pc' = "migrate" /\ leaving' = PreInstances
    BY <1>2, <2>1 DEF PreProcessReports, MigrateOut, Books, BooksTypes, BooksPre, BooksMain, Sum
  <2>2. CASE UNCHANGED <<pc, leaving>>
    BY <1>2, <2>2, BooksUnchanged DEF PreProcessReports, bookVars
  <2> QED BY <1>2, <2>1, <2>2 DEF PreProcessReports, MigrateOut
<1>3. CASE StartComponents
  <2>1. Sum' = TotalGpus
    <3>1. /\ actorNum' = FirstActorNum /\ inferenceHeld' /\ available' = 0
          /\ offset' = IF UsePreProcess THEN PreInstances ELSE 0
      BY <1>3 DEF StartComponents, Books, BooksPre, BooksMain
    <3>2. ActorGpus = FirstActorNum * ActorParallel
      BY PlacementAssumption
    <3>3. CASE UsePreProcess
      <4>1. /\ ActorGpus = PreInstances * RolloutParallel
            /\ TotalGpus = NumInstances * RolloutParallel + InferenceGpus
        BY <3>3, PlacementAssumption DEF FirstRolloutGpu
      <4>2. (NumInstances - PreInstances) * RolloutParallel
                = NumInstances * RolloutParallel - PreInstances * RolloutParallel
        BY <3>3
      <4> QED BY <3>1, <3>2, <3>3, <4>1, <4>2 DEF Sum
    <3>4. CASE ~UsePreProcess
      <4>1. TotalGpus = ActorGpus + NumInstances * RolloutParallel + InferenceGpus
        BY <3>4, PlacementAssumption DEF FirstRolloutGpu
      <4> QED BY <3>1, <3>2, <3>4, <4>1 DEF Sum
    <3> QED BY <3>3, <3>4
  <2> QED BY <1>3, <2>1 DEF StartComponents, Books, BooksTypes, BooksPre, BooksMain
<1>4. CASE AwaitActor
  <2>1. AliveNum \in Int
    BY DEF AliveNum, Books, BooksTypes
  <2>2. leaving' \in Int
    BY <1>4, <2>1 DEF AwaitActor, FinishAll, Books, BooksTypes
  <2> QED BY <1>4, <2>2 DEF AwaitActor, FinishAll, Books, BooksTypes, BooksPre, BooksMain, Sum
<1>5. CASE ReleaseRollout
  <2>1. AliveNum \in Int
    BY DEF AliveNum, Books, BooksTypes
  <2>2. MigratePolicy(AliveNum, RunningTasks, actorNum) \in Int
    BY MigratePolicyType DEF Books, BooksTypes
  <2>3. /\ leaving' \in Int /\ pc' \in {"finish", "migrate", "inference"}
        /\ UNCHANGED <<iter, offset, actorNum, inferenceHeld, available>>
    BY <1>5, <2>1, <2>2 DEF ReleaseRollout, FinishAll, MigrateOut, Books, BooksTypes
  <2>4. pc = "report"
    BY <1>5 DEF ReleaseRollout
  <2> QED BY <2>3, <2>4 DEF Books, BooksTypes, BooksPre, BooksMain, Sum
<1>6. CASE Migrate
  BY <1>6 DEF Migrate, Books, BooksTypes, BooksPre, BooksMain, Sum
<1>7. CASE Finished
  BY <1>7 DEF Finished, Books, BooksTypes, BooksPre, BooksMain, Sum
<1>8. CASE ReleaseInference
  <2>1. /\ pc = "inference" /\ pc' = "actor"
        /\ UNCHANGED <<iter, offset, leaving, actorNum>>
    BY <1>8 DEF ReleaseInference
  <2> DEFINE released == /\ iter < NMinibatches - 1
                         /\ inferenceHeld
                         /\ IF UseWait THEN MustWait ELSE notice = "received"
  <2>2. /\ inferenceHeld' = (inferenceHeld /\ ~released)
        /\ available' = available + IF released THEN InferenceGpus ELSE 0
    BY <1>8, Zenon DEF ReleaseInference
  <2>3. released => inferenceHeld
    OBVIOUS
  <2>4. iter # -1 /\ inferenceHeld \in BOOLEAN
    BY <2>1 DEF Books, BooksTypes, BooksPre
  <2> HIDE DEF released
  <2>5. CASE released
    <3>1. inferenceHeld /\ inferenceHeld' = FALSE
      BY <2>2, <2>3, <2>5, Zenon
    <3>2. available' = available + InferenceGpus
      BY <2>2, <2>5, Zenon
    <3> DEFINE rest == actorNum * ActorParallel
                           + (NumInstances - offset) * RolloutParallel
    <3>3. rest \in Int /\ rest' = rest /\ available \in Int
      BY <2>1 DEF Books, BooksTypes
    <3>4. Sum = rest + InferenceGpus + available /\ Sum' = rest + 0 + available'
      BY <2>1, <3>1, Zenon DEF Sum
    <3> HIDE DEF rest
    <3>5. Sum' = Sum
      BY <3>2, <3>3, <3>4
    <3>6. inferenceHeld' \in BOOLEAN
      BY <3>1, Zenon
    <3>7. available' \in Int
      BY <3>2, <3>3
    <3> QED BY <2>1, <2>4, <3>5, <3>6, <3>7 DEF Books, BooksTypes, BooksPre, BooksMain
  <2>6. CASE ~released
    <3>1. inferenceHeld' = inferenceHeld
      BY <2>2, <2>4, <2>6, Zenon
    <3>2. available' = available + 0
      BY <2>2, <2>6, Zenon
    <3>3. available' = available
      BY <3>2 DEF Books, BooksTypes
    <3>4. Sum' = Sum
      BY <2>1, <3>1, <3>3, Zenon DEF Sum
    <3> QED BY <2>1, <2>4, <3>1, <3>3, <3>4 DEF Books, BooksTypes, BooksPre, BooksMain
  <2> QED BY <2>5, <2>6
<1>9. CASE AllocateActor
  <2>1. /\ pc = "actor" /\ pc' = "await_actor"
        /\ iter < NMinibatches - 1 /\ iter' = iter + 1
        /\ UNCHANGED <<offset, leaving, inferenceHeld>>
        /\ actorNum' = GrownSize(actorNum, available)
        /\ available' = available - (actorNum' - actorNum) * ActorParallel
    BY <1>9 DEF AllocateActor, Scale, Increment, GpusToReach
  <2>2. actorNum' \in ValidDpSizes
    BY <2>1, ActorGrowsToFit DEF Books, BooksTypes
  <2>3. iter \in 0 .. NMinibatches - 2 /\ iter' \in 0 .. NMinibatches - 1
    BY <2>1 DEF Books, BooksTypes, BooksPre
  <2>4. Sum = TotalGpus
    BY <2>3 DEF Books, BooksMain
  <2>5. actorNum \in Int /\ actorNum' \in Int /\ available \in Int /\ available' \in Int
    BY <2>1, <2>2 DEF Books, BooksTypes
  <2>6. actorNum' * ActorParallel + available' = actorNum * ActorParallel + available
    BY <2>1, <2>5
  <2>7. Sum' = TotalGpus
    <3> DEFINE rest == (NumInstances - offset) * RolloutParallel
                       + (IF inferenceHeld THEN InferenceGpus ELSE 0)
    <3>1. rest \in Int /\ rest' = rest
      BY <2>1 DEF Books, BooksTypes
    <3>2. ASSUME NEW p \in Int, NEW q \in Int, NEW r \in Int, NEW s \in Int, NEW z \in Int,
                 p + q = r + s, r + z + s = TotalGpus
          PROVE  p + z + q = TotalGpus
      BY <3>2
    <3> QED BY <2>1, <2>4, <2>5, <2>6, <3>1, SMTT(30) DEF Sum, Books, BooksTypes
  <2> QED BY <2>1, <2>2, <2>3, <2>5, <2>7 DEF Books, BooksTypes, BooksPre, BooksMain
<1>10. CASE ShrinkActor
  BY <1>10, PlacementAssumption DEF ShrinkActor, Scale, Books, BooksTypes, BooksPre, BooksMain, Sum
<1>11. CASE NextGlobalStep
  BY <1>11, PlacementAssumption DEF NextGlobalStep, Books, BooksTypes, BooksPre, BooksMain
<1>12. CASE NoticeArrives \/ Actor \/ Inference
  <2>1. UNCHANGED bookVars
    BY <1>12 DEF NoticeArrives, Actor, ActorStarts, Train, ScaleSync, Inference, Infer,
                 OffloadInference, managerVars, bookVars
  <2> QED BY <2>1, BooksUnchanged
<1>13. ASSUME NEW i \in Instances, RolloutStep(i) \/ MainLoopStep(i)
       PROVE  Books'
  <2>1. UNCHANGED managerVars
    BY <1>13 DEF RolloutStep, StartRollout, SendResult, MarkDone, MarkAborted, Continue,
                 Leave, Offload, MainLoopStep, ServeReport, AbortGeneration, HandOver,
                 ServeMigrateIn, ServeFinish
  <2> QED BY <2>1, BooksUnchanged DEF managerVars, bookVars
<1>14. CASE UNCHANGED vars
  BY <1>14, BooksUnchanged DEF vars, managerVars, bookVars
<1> QED BY <1>1, <1>2, <1>3, <1>4, <1>5, <1>6, <1>7, <1>8, <1>9, <1>10, <1>11, <1>12,
           <1>13, <1>14 DEF Next, Manager

(* The books add up to the cluster between iterations, whatever the sizes,  *)
(* the policies and the order of events.                                    *)
THEOREM BooksAddUp == Spec => []GpusAccounted
<1>1. Spec => []Books
  BY BooksInit, BooksNext, PTL DEF Spec
<1>2. Books => GpusAccounted
  BY DEF Books, BooksMain, GpusAccounted, Sum
<1> QED BY <1>1, <1>2, PTL

-----------------------------------------------------------------------------
(* The policies *)

(* The larger of two numbers.                                               *)
LEMMA MaxOfTwo ==
    ASSUME NEW a \in Int, NEW b \in Int
    PROVE  Max({a, b}) = IF a >= b THEN a ELSE b
<1> DEFINE m == IF a >= b THEN a ELSE b
<1>1. m \in {a, b} /\ \A y \in {a, b} : m >= y
  OBVIOUS
<1>2. \A x \in {a, b} : (\A y \in {a, b} : x >= y) => x = m
  OBVIOUS
<1> HIDE DEF m
<1>3. Max({a, b}) = m
  BY <1>1, <1>2 DEF Max
<1> QED BY <1>3 DEF m

(* The smaller of two numbers.                                              *)
LEMMA MinOfTwo ==
    ASSUME NEW a \in Int, NEW b \in Int
    PROVE  Min({a, b}) = IF a <= b THEN a ELSE b
<1> DEFINE m == IF a <= b THEN a ELSE b
<1>1. m \in {a, b} /\ \A y \in {a, b} : m <= y
  OBVIOUS
<1>2. \A x \in {a, b} : (\A y \in {a, b} : x <= y) => x = m
  OBVIOUS
<1> HIDE DEF m
<1>3. Min({a, b}) = m
  BY <1>1, <1>2 DEF Min
<1> QED BY <1>3 DEF m

(* What the first instances lack together.                                  *)
LackingBefore(runs, expected, j) ==
    SumFunction([k \in 1 .. j - 1 |-> Lacking(runs, expected, k)])

(* What the instances up to j still lack only grows with j, from nothing.   *)
LEMMA LackingGrows ==
    ASSUME NEW runs \in Seq(Nat), NEW expected \in Int
    PROVE  /\ LackingBefore(runs, expected, 1) = 0
           /\ \A j \in 1 .. Len(runs) + 1 : LackingBefore(runs, expected, j) \in Nat
           /\ \A j \in 1 .. Len(runs) :
                 LackingBefore(runs, expected, j + 1) >= LackingBefore(runs, expected, j)
<1> DEFINE L(k) == Lacking(runs, expected, k)
           f(j) == [k \in 1 .. j - 1 |-> L(k)]
<1>1. Len(runs) \in Nat /\ \A k \in 1 .. Len(runs) : runs[k] \in Nat
  OBVIOUS
<1>2. \A k \in 1 .. Len(runs) : L(k) \in Nat
  BY <1>1, MaxOfTwo DEF Lacking
<1> HIDE DEF L
<1>3. ASSUME NEW j \in 1 .. Len(runs) + 1
      PROVE  /\ LackingBefore(runs, expected, j) = SumFunctionOnSet(f(j), 1 .. j - 1)
             /\ SumFunctionOnSet(f(j), 1 .. j - 1) \in Nat
  <2>1. LackingBefore(runs, expected, j) = SumFunction(f(j))
    BY DEF LackingBefore, L
  <2> DEFINE e == f(j)
  <2>2. DOMAIN e = 1 .. j - 1
    OBVIOUS
  <2>3. IsFiniteSet(1 .. j - 1)
    BY FS_Interval
  <2>4. \A k \in 1 .. j - 1 : e[k] \in Nat
    BY <1>1, <1>2
  <2> HIDE DEF e
  <2>5. SumFunctionOnSet(e, 1 .. j - 1) \in Nat
    BY <2>3, <2>4, SumIsNat
  <2>6. SumFunction(e) = SumFunctionOnSet(e, 1 .. j - 1)
    BY <2>2, SumOnDomain
  <2> QED BY <2>1, <2>5, <2>6 DEF e
<1>4. LackingBefore(runs, expected, 1) = 0
  <2>1. 1 \in 1 .. Len(runs) + 1 /\ 1 .. 1 - 1 = {}
    BY <1>1
  <2>2. LackingBefore(runs, expected, 1) = SumFunctionOnSet(f(1), {})
    BY <1>3, <2>1, Zenon
  <2> QED BY <2>2, SumOfNone
<1>5. ASSUME NEW j \in 1 .. Len(runs)
      PROVE  LackingBefore(runs, expected, j + 1) >= LackingBefore(runs, expected, j)
  <2> DEFINE e == f(j)
             g == f(j + 1)
  <2>1. /\ j \in 1 .. Len(runs) + 1 /\ j + 1 \in 1 .. Len(runs) + 1
        /\ (j + 1) - 1 = j /\ j \notin 1 .. j - 1
        /\ (1 .. j - 1) \cup {j} = 1 .. j
    BY <1>1
  <2>2. /\ LackingBefore(runs, expected, j) = SumFunctionOnSet(e, 1 .. j - 1)
        /\ SumFunctionOnSet(e, 1 .. j - 1) \in Nat
    BY <1>3, <2>1
  <2>3. LackingBefore(runs, expected, j + 1) = SumFunctionOnSet(g, 1 .. j)
    BY <1>3, <2>1
  <2>4. \A k \in 1 .. j - 1 : e[k] = g[k]
    OBVIOUS
  <2>5. \A k \in 1 .. j : g[k] \in Nat
    BY <1>1, <1>2
  <2>6. IsFiniteSet(1 .. j - 1)
    BY FS_Interval
  <2> HIDE DEF e, g, f
  <2>7. SumFunctionOnSet(e, 1 .. j - 1) = SumFunctionOnSet(g, 1 .. j - 1)
    BY <2>4, <2>6, SumSame
  <2>8. SumFunctionOnSet(g, (1 .. j - 1) \cup {j}) = g[j] + SumFunctionOnSet(g, 1 .. j - 1)
    <3>1. \A k \in 1 .. j - 1 : g[k] \in Int
      BY <2>5
    <3>2. g[j] \in Int
      BY <2>5
    <3> QED BY <2>1, <2>6, <3>1, <3>2, SumExtended
  <2>9. g[j] \in Nat
    BY <2>5
  <2>10. SumFunctionOnSet(g, 1 .. j) = g[j] + SumFunctionOnSet(g, 1 .. j - 1)
    BY <2>1, <2>8, Zenon
  <2> QED BY <2>2, <2>3, <2>7, <2>9, <2>10
<1> QED BY <1>3, <1>4, <1>5

(* g holds the numbers given, from index c + 1 on.                          *)
SpreadFrom(g, c, given) == \A j \in DOMAIN given : g[c + j] = given[j]

(* assign_sequences: every instance is given a number of groups, and all    *)
(* together are given what there was.                                       *)
LEMMA AllAreDealtOut ==
    ASSUME NEW runs \in Seq(Nat), Len(runs) > 0, NEW expected \in Int, NEW n \in Nat,
           NEW c \in Int, NEW g, SpreadFrom(g, c, Assigned(n, runs, expected))
    PROVE  /\ \A j \in 1 .. Len(runs) : Assigned(n, runs, expected)[j] \in Nat
           /\ SumFunctionOnSet(g, c + 1 .. c + Len(runs)) = n
<1> DEFINE G(j) == GivenBefore(n, runs, expected, j)
           B(j) == LackingBefore(runs, expected, j)
           a(j) == Assigned(n, runs, expected)[j]
           L == Len(runs)
<1>1. L \in Nat \ {0} /\ DOMAIN runs = 1 .. L
  OBVIOUS
<1>2. \A j \in 1 .. L + 1 : B(j) \in Nat /\ G(j) = IF n <= B(j) THEN n ELSE B(j)
  <2>1. \A j \in 1 .. L + 1 : B(j) \in Nat
    BY LackingGrows
  <2>2. \A j : G(j) = Min({n, B(j)})
    BY DEF GivenBefore, LackingBefore
  <2> SUFFICES ASSUME NEW j \in 1 .. L + 1
               PROVE  B(j) \in Nat /\ G(j) = IF n <= B(j) THEN n ELSE B(j)
    OBVIOUS
  <2> DEFINE b == B(j)
  <2>3. b \in Int /\ b \in Nat /\ G(j) = Min({n, b})
    BY <2>1, <2>2
  <2> HIDE DEF b, G, L
  <2>4. Min({n, b}) = IF n <= b THEN n ELSE b
    BY <2>3, MinOfTwo
  <2> QED BY <2>3, <2>4 DEF b
<1>3. B(1) = 0 /\ \A j \in 1 .. L : B(j + 1) >= B(j)
  BY LackingGrows
<1>4. \A j \in 1 .. L : a(j) = IF j = L THEN n - G(j) ELSE G(j + 1) - G(j)
  BY <1>1 DEF Assigned
<1>5. DOMAIN Assigned(n, runs, expected) = 1 .. L
  BY <1>1 DEF Assigned
<1>6. \A j \in 1 .. L : g[c + j] = a(j)
  BY <1>5 DEF SpreadFrom
<1> HIDE DEF B, G, L, a
<1>7. \A j \in 1 .. L : a(j) \in Nat
  <2> SUFFICES ASSUME NEW j \in 1 .. L PROVE a(j) \in Nat
    OBVIOUS
  <2>1. j + 1 \in 1 .. L + 1 /\ j \in 1 .. L + 1
    BY <1>1
  <2>2. /\ B(j) \in Nat /\ B(j + 1) \in Nat /\ B(j + 1) >= B(j)
        /\ G(j) = (IF n <= B(j) THEN n ELSE B(j))
        /\ G(j + 1) = (IF n <= B(j + 1) THEN n ELSE B(j + 1))
    BY <1>2, <1>3, <2>1
  <2>3. a(j) = IF j = L THEN n - G(j) ELSE G(j + 1) - G(j)
    BY <1>4
  <2> QED BY <2>2, <2>3
<1> DEFINE S(m) == SumFunctionOnSet(g, c + 1 .. c + m)
           N == {m \in Nat : m <= L => S(m) = IF m = L THEN n ELSE G(m + 1)}
<1>8. 0 \in N
  <2>1. c + 1 .. c + 0 = {}
    OBVIOUS
  <2>2. S(0) = 0
    BY <2>1, SumOfNone
  <2>3. G(1) = 0
    <3>1. 1 \in 1 .. L + 1
      BY <1>1
    <3>2. G(1) = IF n <= B(1) THEN n ELSE B(1)
      BY <1>2, <3>1
    <3> QED BY <1>3, <3>2
  <2> HIDE DEF S
  <2> QED BY <1>1, <2>2, <2>3
<1>9. ASSUME NEW m \in N PROVE m + 1 \in N
  <2>1. m \in Nat /\ (m <= L => S(m) = IF m = L THEN n ELSE G(m + 1))
    OBVIOUS
  <2>2. ASSUME m + 1 <= L
        PROVE  S(m + 1) = IF m + 1 = L THEN n ELSE G(m + 2)
    <3>1. /\ c + 1 .. c + (m + 1) = (c + 1 .. c + m) \cup {c + (m + 1)}
          /\ c + (m + 1) \notin c + 1 .. c + m
      BY <2>1
    <3>2. \A y \in c + 1 .. c + m : g[y] \in Int
      <4> SUFFICES ASSUME NEW y \in c + 1 .. c + m PROVE g[y] \in Int
        OBVIOUS
      <4>1. y - c \in 1 .. L /\ c + (y - c) = y
        <5> HIDE DEF N, S
        <5> QED BY <1>1, <2>1, <2>2
      <4>2. g[c + (y - c)] = a(y - c) /\ a(y - c) \in Nat
        BY <1>6, <1>7, <4>1
      <4> QED BY <4>1, <4>2
    <3>3. m + 1 \in 1 .. L
      <4> HIDE DEF N, S
      <4> QED BY <1>1, <2>1, <2>2
    <3>4. g[c + (m + 1)] = a(m + 1) /\ a(m + 1) \in Nat
      BY <1>6, <1>7, <3>3
    <3>5. IsFiniteSet(c + 1 .. c + m)
      BY <2>1, FS_Interval
    <3>6. SumFunctionOnSet(g, (c + 1 .. c + m) \cup {c + (m + 1)})
              = g[c + (m + 1)] + SumFunctionOnSet(g, c + 1 .. c + m)
      <4>1. g[c + (m + 1)] \in Int
        BY <3>4
      <4> QED BY <3>1, <3>2, <3>5, <4>1, SumExtended
    <3>7. S(m + 1) = a(m + 1) + S(m)
      BY <3>1, <3>4, <3>6, Zenon
    <3> HIDE DEF N, S
    <3>8. S(m) = G(m + 1)
      BY <1>1, <2>1, <2>2
    <3>9. a(m + 1) = IF m + 1 = L THEN n - G(m + 1) ELSE G(m + 2) - G(m + 1)
      <4>1. (m + 1) + 1 = m + 2
        BY <2>1
      <4> QED BY <1>4, <3>3, <4>1
    <3>10. G(m + 1) \in Int /\ (m + 1 # L => G(m + 2) \in Int)
      <4>1. m + 1 \in 1 .. L + 1 /\ m + 2 \in 1 .. L + 1
        BY <1>1, <2>1, <2>2
      <4>2. \A j \in 1 .. L + 1 : G(j) \in Int
        BY <1>2
      <4> QED BY <4>1, <4>2
    <3> QED BY <3>7, <3>8, <3>9, <3>10
  <2> HIDE DEF S
  <2>3. m + 1 \in Nat /\ (m + 1) + 1 = m + 2
    BY <2>1
  <2> QED BY <2>2, <2>3
<1>10. L \in N
  <2> HIDE DEF N
  <2>1. N \in SUBSET Nat
    BY DEF N
  <2> QED BY <1>1, <1>8, <1>9, <2>1, SetOfAllNumbers
<1>11. S(L) = n
  <2> HIDE DEF S
  <2> QED BY <1>1, <1>10
<1> QED BY <1>7, <1>11 DEF a, L

(* While a group is running the policy never closes every instance.         *)
LEMMA PolicyLeavesOne ==
    ASSUME NEW cur \in ValidDpSizes, NEW num \in Nat, NEW running \in Nat \ {0}
    PROVE  /\ MigratePolicy(num, running, cur) \in Nat
           /\ MigratePolicy(num, running, cur) > 0 => MigratePolicy(num, running, cur) < num
<1>1. MaxRunning \in Nat \ {0}
  BY PolicyAssumption
<1>2. CeilDiv(running, MaxRunning) \in Nat \ {0}
  <2>1. ASSUME NEW a \in Nat \ {0}, NEW b \in Nat \ {0}
        PROVE  (a + b - 1) \div b \in Nat \ {0}
    <3>1. PICK q \in Int, r \in 0 .. b - 1 : q = (a + b - 1) \div b /\ a + b - 1 = q * b + r
      OBVIOUS
    <3>2. q > 0
      BY <3>1
    <3> QED BY <3>1, <3>2
  <2> QED BY <1>1, <2>1 DEF CeilDiv
<1> DEFINE c == CeilDiv(running, MaxRunning)
           m == Max({0, num - c})
<1>3. m = IF 0 >= num - c THEN 0 ELSE num - c
  <2> HIDE DEF c
  <2> QED BY <1>2, MaxOfTwo DEF c
<1>4. m \in Nat /\ (num > 0 => m < num)
  <2> HIDE DEF c, m
  <2> QED BY <1>2, <1>3 DEF c
<1>5. ReleaseNeeded(m, cur) \in 0 .. m
  <2> HIDE DEF m
  <2> QED BY <1>4, ReleaseFits
<1> HIDE DEF m
<1>6. MigratePolicy(num, running, cur) = IF num <= 1 THEN 0 ELSE ReleaseNeeded(m, cur)
  BY DEF MigratePolicy, m
<1> QED BY <1>4, <1>5, <1>6

-----------------------------------------------------------------------------
(* The queues of requests *)

IsEarly(q) == q = <<>> \/ \E n \in Nat \ {0} : q = <<MigrateIn(n)>>

IsLate(q, A) ==
    \E a \in A : \/ q = <<Request(a)>>
                 \/ \E n \in Nat \ {0} : q = <<MigrateIn(n), Request(a)>>

GroupsIn(q) == SumFunction([j \in DOMAIN q |-> q[j].groups])

(* A queue without the request waited for: empty, or groups migrated in.    *)
LEMMA EarlyFacts ==
    ASSUME NEW q, IsEarly(q)
    PROVE  /\ GroupsIn(q) \in Nat
           /\ q = <<>> => GroupsIn(q) = 0
           /\ q # <<>> => /\ Head(q).action = "Migrate_In" /\ Tail(q) = <<>>
                          /\ Head(q).groups \in Nat \ {0}
                          /\ GroupsIn(q) = Head(q).groups
<1>1. CASE q = <<>>
  <2>1. DOMAIN [j \in DOMAIN q |-> q[j].groups] = {}
    BY <1>1
  <2> QED BY <1>1, <2>1, SumOnDomain, SumOfNone DEF GroupsIn
<1>2. ASSUME NEW n \in Nat \ {0}, q = <<MigrateIn(n)>>
      PROVE  /\ q # <<>> /\ Head(q).action = "Migrate_In" /\ Tail(q) = <<>>
             /\ Head(q).groups = n
             /\ GroupsIn(q) = n
  <2>1. q # <<>> /\ Head(q) = MigrateIn(n) /\ Tail(q) = <<>> /\ q[1] = MigrateIn(n)
    BY <1>2
  <2>2. DOMAIN q = {} \cup {1}
    BY <1>2
  <2> DEFINE f == [j \in DOMAIN q |-> q[j].groups]
  <2>3. f[1] = n /\ DOMAIN f = {} \cup {1}
    BY <2>1, <2>2 DEF MigrateIn
  <2> HIDE DEF f
  <2>4. SumFunctionOnSet(f, {} \cup {1}) = f[1] + SumFunctionOnSet(f, {})
    BY <2>3, FS_EmptySet, SumExtended
  <2>5. SumFunction(f) = n
    BY <2>3, <2>4, SumOnDomain, SumOfNone
  <2> QED BY <2>1, <2>5 DEF MigrateIn, GroupsIn, f
<1> QED BY <1>1, <1>2 DEF IsEarly

(* A queue with that request at its end, alone or behind groups.            *)
LEMMA LateFacts ==
    ASSUME NEW q, NEW A, IsLate(q, A)
    PROVE  /\ q # <<>>
           /\ GroupsIn(q) \in Nat
           /\ \/ /\ Head(q).action \in A /\ Tail(q) = <<>>
                 /\ GroupsIn(q) = 0
              \/ /\ Head(q).action = "Migrate_In" /\ IsLate(Tail(q), A)
                 /\ Head(q).groups \in Nat \ {0}
                 /\ GroupsIn(q) = Head(q).groups
                 /\ GroupsIn(Tail(q)) = 0
<1>1. ASSUME NEW a \in A, NEW p, p = <<Request(a)>>
      PROVE  /\ p # <<>> /\ Head(p).action = a /\ Tail(p) = <<>>
             /\ GroupsIn(p) = 0
  <2>1. p # <<>> /\ Head(p) = Request(a) /\ Tail(p) = <<>> /\ p[1] = Request(a)
    BY <1>1
  <2>2. DOMAIN p = {} \cup {1}
    BY <1>1
  <2> DEFINE f == [j \in DOMAIN p |-> p[j].groups]
  <2>3. f[1] = 0 /\ DOMAIN f = {} \cup {1}
    BY <2>1, <2>2 DEF Request
  <2> HIDE DEF f
  <2>4. SumFunctionOnSet(f, {} \cup {1}) = f[1] + SumFunctionOnSet(f, {})
    BY <2>3, FS_EmptySet, SumExtended
  <2>5. SumFunction(f) = 0
    BY <2>3, <2>4, SumOnDomain, SumOfNone
  <2> QED BY <2>1, <2>5 DEF Request, GroupsIn, f
<1>2. ASSUME NEW a \in A, NEW n \in Nat \ {0}, q = <<MigrateIn(n), Request(a)>>
      PROVE  /\ q # <<>> /\ Head(q).action = "Migrate_In"
             /\ Tail(q) = <<Request(a)>>
             /\ Head(q).groups = n
             /\ GroupsIn(q) = n
  <2>1. /\ q # <<>> /\ Head(q) = MigrateIn(n) /\ Tail(q) = <<Request(a)>>
        /\ q[1] = MigrateIn(n) /\ q[2] = Request(a)
    BY <1>2
  <2>2. DOMAIN q = {1} \cup {2}
    BY <1>2
  <2> DEFINE f == [j \in DOMAIN q |-> q[j].groups]
  <2>3. f[1] = n /\ f[2] = 0 /\ DOMAIN f = {1} \cup {2}
    BY <2>1, <2>2 DEF MigrateIn, Request
  <2> HIDE DEF f
  <2>4. /\ SumFunctionOnSet(f, {} \cup {1}) = f[1] + SumFunctionOnSet(f, {})
        /\ {} \cup {1} = {1}
    BY <2>3, FS_EmptySet, SumExtended
  <2>5. IsFiniteSet({1})
    BY FS_Singleton
  <2>6. SumFunctionOnSet(f, {1} \cup {2}) = f[2] + SumFunctionOnSet(f, {1})
    BY <2>3, <2>5, SumExtended
  <2>7. SumFunction(f) = n
    BY <2>3, <2>4, <2>6, SumOnDomain, SumOfNone
  <2> QED BY <2>1, <2>7 DEF MigrateIn, GroupsIn, f
<1>3. PICK a \in A : \/ q = <<Request(a)>>
                     \/ \E n \in Nat \ {0} : q = <<MigrateIn(n), Request(a)>>
  BY DEF IsLate
<1>4. CASE q = <<Request(a)>>
  BY <1>1, <1>4
<1>5. ASSUME NEW n \in Nat \ {0}, q = <<MigrateIn(n), Request(a)>>
      PROVE  /\ q # <<>> /\ GroupsIn(q) \in Nat
             /\ Head(q).action = "Migrate_In" /\ IsLate(Tail(q), A)
             /\ Head(q).groups \in Nat \ {0}
             /\ GroupsIn(q) = Head(q).groups
             /\ GroupsIn(Tail(q)) = 0
  <2>1. Tail(q) = <<Request(a)>>
    BY <1>2, <1>5
  <2>2. IsLate(Tail(q), A)
    BY <2>1 DEF IsLate
  <2>3. GroupsIn(Tail(q)) = 0
    BY <1>1, <2>1
  <2> QED BY <1>2, <1>5, <2>2, <2>3
<1> QED BY <1>3, <1>4, <1>5

(* Two requests in a queue.                                                 *)
LEMMA AppendToOne ==
    ASSUME NEW x, NEW y
    PROVE  Append(<<x>>, y) = <<x, y>>
<1> DEFINE a == Append(<<x>>, y)
           b == <<x, y>>
           S == {x, y}
<1>1. <<x>> \in Seq(S) /\ b \in Seq(S) /\ a \in Seq(S)
  OBVIOUS
<1>2. Len(a) = 2 /\ a[1] = x /\ a[2] = y
  BY <1>1, AppendProperties
<1>3. Len(b) = 2 /\ b[1] = x /\ b[2] = y
  OBVIOUS
<1> HIDE DEF a, b, S
<1>4. \A i \in 1 .. 2 : a[i] = b[i]
  BY <1>2, <1>3
<1>5. a = b
  BY <1>1, <1>2, <1>3, <1>4, SeqEqual
<1> QED BY <1>5 DEF a, b

(* Any request behind at most one that hands groups over.                   *)
LEMMA AppendedFacts ==
    ASSUME NEW q, IsEarly(q), NEW A, NEW a \in A
    PROVE  /\ IsLate(Append(q, Request(a)), A)
           /\ GroupsIn(Append(q, Request(a))) = GroupsIn(q)
<1>1. CASE q = <<>>
  <2>1. Append(q, Request(a)) = <<Request(a)>>
    BY <1>1
  <2>2. IsLate(Append(q, Request(a)), A)
    BY <2>1 DEF IsLate
  <2>3. Head(Append(q, Request(a))) = Request(a)
    BY <2>1
  <2>4. Head(Append(q, Request(a))).groups = 0
    BY <2>3 DEF Request
  <2> QED BY <1>1, <2>2, <2>4, LateFacts, EarlyFacts
<1>2. ASSUME NEW n \in Nat \ {0}, q = <<MigrateIn(n)>>
      PROVE  /\ IsLate(Append(q, Request(a)), A)
             /\ GroupsIn(Append(q, Request(a))) = GroupsIn(q)
  <2> DEFINE p == Append(q, Request(a))
  <2>1. p = <<MigrateIn(n), Request(a)>>
    BY <1>2, AppendToOne
  <2>2. IsLate(p, A)
    BY <2>1 DEF IsLate
  <2>3. Head(p) = MigrateIn(n) /\ Tail(p) # <<>> /\ Head(q) = MigrateIn(n) /\ q # <<>>
    BY <1>2, <2>1
  <2>4. Head(p).groups = n /\ Head(q).groups = n
    BY <2>3 DEF MigrateIn
  <2>5. GroupsIn(p) = n
    <3> HIDE DEF p
    <3>1. Tail(p) = <<>> \/ GroupsIn(p) = Head(p).groups
      BY <2>2, LateFacts
    <3> QED BY <2>3, <2>4, <3>1
  <2>6. GroupsIn(q) = n
    BY <2>3, <2>4, EarlyFacts
  <2> QED BY <2>2, <2>5, <2>6
<1> QED BY <1>1, <1>2 DEF IsEarly

-----------------------------------------------------------------------------
(* The conversation of the manager with the instances *)

Requests ==
    [action : {"Report", "Migrate_Out", "Migrate_In", "Finish", "Wait_For_Finish"},
     groups : Nat]

Responses == [kind : {"report", "data", "Offloaded"}, total : Nat, groups : Nat]

InstanceTypes ==
    /\ rollout \in [Instances -> {"idle", "collecting", "sending", "waiting",
                                  "offloading", "exited"}]
    /\ main \in [Instances -> {"serving", "draining"}]
    /\ generating \in [Instances -> Nat]
    /\ cut \in [Instances -> Nat]
    /\ aborted \in [Instances -> Nat]
    /\ done \in [Instances -> Nat]
    /\ event \in [Instances -> BOOLEAN]
    /\ req \in [Instances -> Seq(Requests)]
    /\ resp \in [Instances -> Seq(Responses)]

(* Whom the manager has asked and waits for, what for, and what they answer. *)
Waited == IF pc \in {"pre_process", "report"} THEN Alive
          ELSE IF pc \in {"migrate", "finish"} THEN Closing ELSE {}

Wanted == IF pc = "migrate" THEN {"Migrate_Out"}
          ELSE IF pc = "finish" THEN {"Finish", "Wait_For_Finish"} ELSE {"Report"}

Answer == IF pc = "migrate" THEN "data"
          ELSE IF pc = "finish" THEN "Offloaded" ELSE "report"

(* rollout() has not been told to end: when it waits with its event set,    *)
(* that is because groups have been migrated in.                            *)
NotTold(i) ==
    /\ rollout[i] \notin {"offloading", "exited"}
    /\ event[i] => rollout[i] \in {"waiting", "idle"} /\ Running(i) > 0

(* Where the conversation with instance i stands: not asked,                *)
Unasked(i) ==
    IsEarly(req[i]) /\ resp[i] = <<>> /\ main[i] = "serving" /\ NotTold(i)

(* the request in its queue,                                                *)
Pending(i) ==
    IsLate(req[i], Wanted) /\ resp[i] = <<>> /\ main[i] = "serving" /\ NotTold(i)

(* taken, and its groups running out,                                       *)
Draining(i) ==
    /\ pc = "migrate"
    /\ req[i] = <<>> /\ resp[i] = <<>> /\ main[i] = "draining" /\ NotTold(i)

(* taken, and rollout() told to end,                                        *)
Told(i) ==
    /\ pc = "finish"
    /\ req[i] = <<>> /\ resp[i] = <<>> /\ main[i] = "serving"
    /\ rollout[i] # "exited"
    /\ rollout[i] = "offloading" <=> ~event[i]
    /\ rollout[i] = "waiting" => Running(i) = 0

(* answered,                                                                *)
Answered(i) ==
    /\ req[i] = <<>> /\ main[i] = "serving"
    /\ \E r \in Responses :
          /\ resp[i] = <<r>> /\ r.kind = Answer
          /\ pc = "migrate" => r.groups = aborted[i]
    /\ IF pc = "finish" THEN rollout[i] = "exited" /\ ~event[i] ELSE NotTold(i)

(* or closed.                                                               *)
Closed(i) ==
    /\ req[i] = <<>> /\ resp[i] = <<>> /\ main[i] = "serving"
    /\ rollout[i] = "exited" /\ ~event[i]

Stage(i) ==
    \/ i <= offset /\ Closed(i)
    \/ i > offset /\ i \notin Waited /\ Unasked(i) /\ (pc = "migrate" => req[i] = <<>>)
    \/ i > offset /\ i \in Waited /\ (Pending(i) \/ Draining(i) \/ Told(i) \/ Answered(i))

(* Where its groups can be.                                                 *)
Whole(i) ==
    /\ rollout[i] = "collecting" => generating[i] + cut[i] > 0
    /\ cut[i] > 0 => Draining(i)
    /\ aborted[i] > 0 =>
          \/ i > offset /\ i \in Waited /\ pc = "migrate" /\ (Draining(i) \/ Answered(i))
          \/ /\ i > offset /\ i \in Waited /\ pc = "finish"
             /\ rollout[i] \notin {"offloading", "exited"}

InstanceOk(i) == Stage(i) /\ Whole(i)

Turns ==
    /\ offset \in 0 .. NumInstances
    /\ load \in Seq(Nat)
    /\ IF pc = "migrate" THEN leaving \in 0 .. AliveNum - 1 /\ Len(load) = AliveNum
       ELSE IF pc = "finish" THEN leaving \in 0 .. AliveNum
       ELSE leaving = 0

ProtocolInv ==
    /\ InstanceTypes
    /\ Turns
    /\ \A i \in Instances : InstanceOk(i)

(* What belongs to instance i.                                              *)
instance(i) ==
    <<rollout[i], main[i], generating[i], cut[i], aborted[i], done[i], event[i],
      req[i], resp[i]>>

(* The groups of instance i, in a form that every step changes simply.      *)
Carried(i) ==
    generating[i] + cut[i] + (IF pc = "migrate" THEN aborted[i] ELSE 0) + GroupsIn(req[i])

(* An instance is where it was when neither it nor what is asked of it      *)
(* changes.                                                                 *)
LEMMA InstanceFrame ==
    ASSUME NEW i, InstanceOk(i), UNCHANGED <<pc, offset, leaving>>, UNCHANGED instance(i)
    PROVE  InstanceOk(i)' /\ Carried(i)' = Carried(i)
<1>1. /\ pc' = pc /\ offset' = offset /\ leaving' = leaving
      /\ rollout'[i] = rollout[i] /\ main'[i] = main[i] /\ generating'[i] = generating[i]
      /\ cut'[i] = cut[i] /\ aborted'[i] = aborted[i] /\ event'[i] = event[i]
      /\ req'[i] = req[i] /\ resp'[i] = resp[i]
  BY DEF instance
<1>2. Running(i)' = Running(i) /\ Waited' = Waited /\ Wanted' = Wanted /\ Answer' = Answer
  BY <1>1 DEF Running, Sending, Waited, Wanted, Answer, Alive, Closing
<1>3. NotTold(i)' = NotTold(i)
  BY <1>1, <1>2 DEF NotTold
<1>4. /\ Unasked(i)' = Unasked(i) /\ Pending(i)' = Pending(i) /\ Draining(i)' = Draining(i)
      /\ Told(i)' = Told(i) /\ Answered(i)' = Answered(i) /\ Closed(i)' = Closed(i)
  BY <1>1, <1>2, <1>3, Zenon DEF Unasked, Pending, Draining, Told, Answered, Closed
<1>5. Stage(i)' = Stage(i) /\ Whole(i)' = Whole(i)
  BY <1>1, <1>2, <1>4, Zenon DEF Stage, Whole
<1> QED BY <1>1, <1>5, Zenon DEF InstanceOk, Carried

(* Every request is for at least one group.                                 *)
LEMMA RequestsHaveGroups ==
    RequestSize \in Nat \ {0}
<1>1. RolloutBatch \in Nat /\ NumInstances \in Nat \ {0} /\ RolloutBatch >= NumInstances
  BY PolicyAssumption, PlacementAssumption
<1>2. RolloutBatch \div NumInstances \in Nat \ {0}
  <2>1. ASSUME NEW a \in Nat, NEW b \in Nat \ {0}, a >= b
        PROVE  a \div b \in Nat \ {0}
    <3>1. PICK q \in Int, r \in 0 .. b - 1 : q = a \div b /\ a = q * b + r
      BY <2>1
    <3>2. q > 0
      BY <2>1, <3>1
    <3> QED BY <3>1, <3>2
  <2> QED BY <1>1, <2>1
<1> QED BY <1>2 DEF RequestSize

-----------------------------------------------------------------------------
(* Steps of an instance *)

(* A step of instance i keeps its part of the invariant, touches no other   *)
(* instance, and changes the groups it carries by as many as it receives,   *)
(* less those it sends.                                                     *)
StepOf(i, received) ==
    /\ InstanceTypes'
    /\ InstanceOk(i)'
    /\ \A j \in Instances \ {i} : UNCHANGED instance(j)
    /\ Carried(i)' = Carried(i) + received - (sent' - sent)
    /\ UNCHANGED <<pc, offset, leaving, load>>

(* An instance carries a number of groups.                                  *)
LEMMA CarriedType ==
    ASSUME ProtocolInv, NEW i \in Instances
    PROVE  GroupsIn(req[i]) \in Nat /\ Carried(i) \in Nat
<1>1. GroupsIn(req[i]) \in Nat
  <2>1. CASE IsEarly(req[i])
    BY <2>1, EarlyFacts
  <2>2. CASE \E A : IsLate(req[i], A)
    BY <2>2, LateFacts
  <2>3. IsEarly(req[i]) \/ \E A : IsLate(req[i], A)
    BY DEF ProtocolInv, InstanceOk, Stage, Closed, Unasked, Pending, Draining, Told,
           Answered, IsEarly
  <2> QED BY <2>1, <2>2, <2>3
<1>2. generating[i] \in Nat /\ cut[i] \in Nat /\ aborted[i] \in Nat
  BY DEF ProtocolInv, InstanceTypes
<1> QED BY <1>1, <1>2 DEF Carried

(* rollout() starts: the only step that adds groups, its share of the       *)
(* batch.                                                                   *)
LEMMA StartRolloutStep ==
    ASSUME ProtocolInv, sent \in Nat, NEW i \in Instances, StartRollout(i)
    PROVE  StepOf(i, RequestSize)
<1> DEFINE size == RequestSize
<1>1. size \in Nat \ {0}
  BY RequestsHaveGroups
<1>2. /\ rollout[i] = "idle" /\ Running(i) + done[i] + aborted[i] = 0
      /\ rollout' = [rollout EXCEPT ![i] = "collecting"]
      /\ generating' = [generating EXCEPT ![i] = size]
      /\ UNCHANGED <<managerVars, main, cut, aborted, done, event, req, resp, sent>>
  BY DEF StartRollout
<1> HIDE DEF size
<1>3. InstanceTypes
  BY DEF ProtocolInv
<1>4. InstanceTypes'
  BY <1>1, <1>2, <1>3 DEF InstanceTypes
<1>5. \A j \in Instances \ {i} : UNCHANGED instance(j)
  BY <1>2, <1>3 DEF InstanceTypes, instance
<1>6. /\ rollout'[i] = "collecting" /\ generating'[i] = size
      /\ main'[i] = main[i] /\ cut'[i] = cut[i] /\ aborted'[i] = aborted[i]
      /\ event'[i] = event[i] /\ req'[i] = req[i] /\ resp'[i] = resp[i]
      /\ pc' = pc /\ offset' = offset /\ leaving' = leaving
      /\ Waited' = Waited /\ Wanted' = Wanted /\ Answer' = Answer
  BY <1>2, <1>3 DEF InstanceTypes, managerVars, Waited, Wanted, Answer, Alive, Closing
<1>7. /\ generating[i] = 0 /\ cut[i] = 0 /\ aborted[i] = 0 /\ Running(i) = 0
  BY <1>2, <1>3 DEF InstanceTypes, Running, Sending
<1>8. NotTold(i) => NotTold(i)'
  BY <1>2, <1>6, <1>7 DEF NotTold
<1>9. InstanceOk(i)
  BY DEF ProtocolInv
<1>10. Stage(i)'
  BY <1>2, <1>6, <1>8, <1>9 DEF InstanceOk, Stage, Unasked, Pending, Draining, Told,
     Answered, Closed
<1>11. Whole(i)'
  BY <1>1, <1>6, <1>7 DEF Whole
<1>12. Carried(i)' = Carried(i) + size - (sent' - sent)
  BY <1>1, <1>2, <1>6, <1>7, CarriedType DEF Carried
<1> QED BY <1>2, <1>4, <1>5, <1>10, <1>11, <1>12 DEF StepOf, InstanceOk, managerVars, size

(* A finished group leaves the instance and is counted as sent.             *)
LEMMA SendResultStep ==
    ASSUME ProtocolInv, sent \in Nat, NEW i \in Instances, SendResult(i)
    PROVE  StepOf(i, 0)
<1>2. /\ rollout[i] = "collecting" /\ generating[i] > 0
      /\ rollout' = [rollout EXCEPT ![i] = "sending"]
      /\ generating' = [generating EXCEPT ![i] = @ - 1]
      /\ sent' = sent + 1
      /\ UNCHANGED <<managerVars, main, cut, aborted, done, event, req, resp>>
  BY DEF SendResult
<1>3. InstanceTypes
  BY DEF ProtocolInv
<1>4. InstanceTypes'
  BY <1>2, <1>3 DEF InstanceTypes
<1>5. \A j \in Instances \ {i} : UNCHANGED instance(j)
  BY <1>2, <1>3 DEF InstanceTypes, instance
<1>6. /\ rollout'[i] = "sending" /\ generating'[i] = generating[i] - 1
      /\ main'[i] = main[i] /\ cut'[i] = cut[i] /\ aborted'[i] = aborted[i]
      /\ event'[i] = event[i] /\ req'[i] = req[i] /\ resp'[i] = resp[i]
      /\ pc' = pc /\ offset' = offset /\ leaving' = leaving
      /\ Waited' = Waited /\ Wanted' = Wanted /\ Answer' = Answer
  BY <1>2, <1>3 DEF InstanceTypes, managerVars, Waited, Wanted, Answer, Alive, Closing
<1>7. /\ generating[i] \in Nat /\ cut[i] \in Nat /\ aborted[i] \in Nat
  BY <1>3 DEF InstanceTypes
<1>8. NotTold(i) => NotTold(i)'
  BY <1>2, <1>6, <1>7 DEF NotTold
<1>9. InstanceOk(i)
  BY DEF ProtocolInv
<1>10. Stage(i)'
  BY <1>2, <1>6, <1>8, <1>9 DEF InstanceOk, Stage, Unasked, Pending, Draining, Told,
     Answered, Closed
<1>11. Whole(i)'
  <2>1. /\ Draining(i) => Draining(i)'
        /\ Answered(i) /\ pc = "migrate" => Answered(i)'
    BY <1>2, <1>6, <1>8 DEF Draining, Answered
  <2> QED BY <1>2, <1>6, <1>7, <1>9, <2>1 DEF InstanceOk, Whole
<1>12. Carried(i)' = Carried(i) + 0 - (sent' - sent)
  BY <1>2, <1>6, <1>7, CarriedType DEF Carried
<1> QED BY <1>2, <1>4, <1>5, <1>10, <1>11, <1>12 DEF StepOf, InstanceOk, managerVars

(* The result put, rollout() goes on or, with nothing running, waits.       *)
LEMMA MarkDoneStep ==
    ASSUME ProtocolInv, sent \in Nat, NEW i \in Instances, MarkDone(i)
    PROVE  StepOf(i, 0)
<1>1. /\ rollout[i] = "sending"
      /\ rollout' = [rollout EXCEPT ![i] = AfterMark(i)]
      /\ done' = [done EXCEPT ![i] = @ + 1]
      /\ UNCHANGED <<managerVars, main, generating, cut, aborted, event, req, resp, sent>>
  BY DEF MarkDone
<1>2. InstanceTypes
  BY DEF ProtocolInv
<1>3. InstanceTypes'
  BY <1>1, <1>2 DEF InstanceTypes, AfterMark
<1>4. \A j \in Instances \ {i} : UNCHANGED instance(j)
  BY <1>1, <1>2 DEF InstanceTypes, instance
<1>5. /\ rollout'[i] = AfterMark(i)
      /\ main'[i] = main[i] /\ generating'[i] = generating[i] /\ cut'[i] = cut[i]
      /\ aborted'[i] = aborted[i] /\ event'[i] = event[i] /\ req'[i] = req[i] /\ resp'[i] = resp[i]
      /\ pc' = pc /\ offset' = offset /\ leaving' = leaving
      /\ Waited' = Waited /\ Wanted' = Wanted /\ Answer' = Answer
  BY <1>1, <1>2 DEF InstanceTypes, managerVars, Waited, Wanted, Answer, Alive, Closing
<1>6. generating[i] \in Nat /\ cut[i] \in Nat /\ aborted[i] \in Nat /\ done[i] \in Nat
  BY <1>2 DEF InstanceTypes
<1>7. InstanceOk(i)
  BY DEF ProtocolInv
<1>8. /\ IF Running(i) = 1 THEN rollout'[i] = "waiting" ELSE rollout'[i] = "collecting"
      /\ Running(i) = generating[i] + cut[i] + 1
      /\ Running(i)' = generating[i] + cut[i]
      /\ NotTold(i) => NotTold(i)'
  BY <1>1, <1>5, <1>6 DEF AfterMark, Running, Sending, NotTold
<1>10. Stage(i)'
  BY <1>1, <1>5, <1>6, <1>7, <1>8 DEF InstanceOk, Stage, Unasked, Pending, Draining, Told,
     Answered, Closed
<1>11. Whole(i)'
  <2>1. /\ Draining(i) => Draining(i)'
        /\ Answered(i) /\ pc = "migrate" => Answered(i)'
    BY <1>1, <1>5, <1>8 DEF Draining, Answered
  <2> QED BY <1>1, <1>5, <1>6, <1>7, <1>8, <2>1 DEF InstanceOk, Whole
<1>12. Carried(i)' = Carried(i) + 0 - (sent' - sent)
  BY <1>1, <1>5, <1>6, <1>7, <1>8, CarriedType DEF Carried
<1> QED BY <1>1, <1>3, <1>4, <1>10, <1>11, <1>12 DEF StepOf, InstanceOk, managerVars

(* An aborted group is set aside for the manager; the migration still holds *)
(* it.                                                                      *)
LEMMA MarkAbortedStep ==
    ASSUME ProtocolInv, sent \in Nat, NEW i \in Instances, MarkAborted(i)
    PROVE  StepOf(i, 0)
<1>1. /\ rollout[i] = "collecting" /\ cut[i] > 0
      /\ rollout' = [rollout EXCEPT ![i] = AfterMark(i)]
      /\ cut' = [cut EXCEPT ![i] = @ - 1]
      /\ aborted' = [aborted EXCEPT ![i] = @ + 1]
      /\ UNCHANGED <<managerVars, main, generating, done, event, req, resp, sent>>
  BY DEF MarkAborted
<1>2. InstanceTypes
  BY DEF ProtocolInv
<1>3. InstanceTypes'
  BY <1>1, <1>2 DEF InstanceTypes, AfterMark
<1>4. \A j \in Instances \ {i} : UNCHANGED instance(j)
  BY <1>1, <1>2 DEF InstanceTypes, instance
<1>5. /\ rollout'[i] = AfterMark(i) /\ cut'[i] = cut[i] - 1 /\ aborted'[i] = aborted[i] + 1
      /\ main'[i] = main[i] /\ generating'[i] = generating[i] /\ event'[i] = event[i]
      /\ req'[i] = req[i] /\ resp'[i] = resp[i]
      /\ pc' = pc /\ offset' = offset /\ leaving' = leaving
      /\ Waited' = Waited /\ Wanted' = Wanted /\ Answer' = Answer
  BY <1>1, <1>2 DEF InstanceTypes, managerVars, Waited, Wanted, Answer, Alive, Closing
<1>6. generating[i] \in Nat /\ cut[i] \in Nat /\ aborted[i] \in Nat /\ done[i] \in Nat
  BY <1>2 DEF InstanceTypes
<1>7. InstanceOk(i)
  BY DEF ProtocolInv
<1>8. /\ IF Running(i) = 1 THEN rollout'[i] = "waiting" ELSE rollout'[i] = "collecting"
      /\ Running(i) = generating[i] + cut[i]
      /\ Running(i)' = generating[i] + cut[i] - 1
      /\ NotTold(i) => NotTold(i)'
      /\ Draining(i) /\ pc = "migrate"
      /\ Draining(i)'
      /\ i > offset /\ i \in Waited
  <2>1. /\ IF Running(i) = 1 THEN rollout'[i] = "waiting" ELSE rollout'[i] = "collecting"
        /\ Running(i) = generating[i] + cut[i]
        /\ Running(i)' = generating[i] + cut[i] - 1
        /\ NotTold(i) => NotTold(i)'
    BY <1>1, <1>5, <1>6 DEF AfterMark, Running, Sending, NotTold
  <2>2. Draining(i) /\ pc = "migrate"
    BY <1>1, <1>7 DEF InstanceOk, Whole, Draining
  <2>3. Draining(i)'
    BY <1>5, <2>1, <2>2 DEF Draining
  <2>4. i > offset /\ i \in Waited
    BY <1>7, <2>2 DEF InstanceOk, Stage, Closed, Unasked, Draining
  <2> QED BY <2>1, <2>2, <2>3, <2>4
<1>10. Stage(i)'
  BY <1>5, <1>8 DEF Stage
<1>11. Whole(i)'
  BY <1>1, <1>5, <1>6, <1>8 DEF Whole
<1>12. Carried(i)' = Carried(i) + 0 - (sent' - sent)
  BY <1>1, <1>5, <1>6, <1>7, <1>8, CarriedType DEF Carried
<1> QED BY <1>1, <1>3, <1>4, <1>10, <1>11, <1>12 DEF StepOf, InstanceOk, managerVars

(* rollout() is woken by groups migrated in: it was not told to end.        *)
LEMMA ContinueStep ==
    ASSUME ProtocolInv, sent \in Nat, NEW i \in Instances, Continue(i)
    PROVE  StepOf(i, 0)
<1>1. /\ rollout[i] = "waiting" /\ event[i] /\ Running(i) > 0
      /\ rollout' = [rollout EXCEPT ![i] = "collecting"]
      /\ event' = [event EXCEPT ![i] = FALSE]
      /\ UNCHANGED <<managerVars, main, generating, cut, aborted, done, req, resp, sent>>
  BY DEF Continue
<1>2. InstanceTypes
  BY DEF ProtocolInv
<1>3. InstanceTypes'
  BY <1>1, <1>2 DEF InstanceTypes
<1>4. \A j \in Instances \ {i} : UNCHANGED instance(j)
  BY <1>1, <1>2 DEF InstanceTypes, instance
<1>5. /\ rollout'[i] = "collecting" /\ event'[i] = FALSE
      /\ main'[i] = main[i] /\ generating'[i] = generating[i] /\ cut'[i] = cut[i]
      /\ aborted'[i] = aborted[i] /\ req'[i] = req[i] /\ resp'[i] = resp[i]
      /\ pc' = pc /\ offset' = offset /\ leaving' = leaving
      /\ Waited' = Waited /\ Wanted' = Wanted /\ Answer' = Answer
  BY <1>1, <1>2 DEF InstanceTypes, managerVars, Waited, Wanted, Answer, Alive, Closing
<1>6. generating[i] \in Nat /\ cut[i] \in Nat /\ aborted[i] \in Nat /\ done[i] \in Nat
  BY <1>2 DEF InstanceTypes
<1>7. InstanceOk(i)
  BY DEF ProtocolInv
<1>8. /\ Running(i) = generating[i] + cut[i]
      /\ NotTold(i)'
      /\ ~Told(i)
  BY <1>1, <1>5, <1>6 DEF Running, Sending, NotTold, Told
<1>10. Stage(i)'
  BY <1>1, <1>5, <1>6, <1>7, <1>8 DEF InstanceOk, Stage, Unasked, Pending, Draining, Told,
     Answered, Closed
<1>11. Whole(i)'
  <2>1. /\ Draining(i) => Draining(i)'
        /\ Answered(i) /\ pc = "migrate" => Answered(i)'
    BY <1>1, <1>5, <1>8 DEF Draining, Answered
  <2> QED BY <1>1, <1>5, <1>6, <1>7, <1>8, <2>1 DEF InstanceOk, Whole
<1>12. Carried(i)' = Carried(i) + 0 - (sent' - sent)
  BY <1>1, <1>5, <1>6, <1>7, <1>8, CarriedType DEF Carried
<1> QED BY <1>1, <1>3, <1>4, <1>10, <1>11, <1>12 DEF StepOf, InstanceOk, managerVars

(* rollout() is woken with nothing to do: it was told to end.               *)
LEMMA LeaveStep ==
    ASSUME ProtocolInv, sent \in Nat, NEW i \in Instances, Leave(i)
    PROVE  StepOf(i, 0)
<1>1. /\ rollout[i] = "waiting" /\ event[i] /\ Running(i) = 0
      /\ rollout' = [rollout EXCEPT ![i] = "offloading"]
      /\ event' = [event EXCEPT ![i] = FALSE]
      /\ aborted' = [aborted EXCEPT ![i] = 0]
      /\ done' = [done EXCEPT ![i] = 0]
      /\ UNCHANGED <<managerVars, main, generating, cut, req, resp, sent>>
  BY DEF Leave
<1>2. InstanceTypes
  BY DEF ProtocolInv
<1>3. InstanceTypes'
  BY <1>1, <1>2 DEF InstanceTypes
<1>4. \A j \in Instances \ {i} : UNCHANGED instance(j)
  BY <1>1, <1>2 DEF InstanceTypes, instance
<1>5. /\ rollout'[i] = "offloading" /\ event'[i] = FALSE /\ aborted'[i] = 0
      /\ main'[i] = main[i] /\ generating'[i] = generating[i] /\ cut'[i] = cut[i]
      /\ req'[i] = req[i] /\ resp'[i] = resp[i]
      /\ pc' = pc /\ offset' = offset /\ leaving' = leaving
      /\ Waited' = Waited /\ Wanted' = Wanted /\ Answer' = Answer
  BY <1>1, <1>2 DEF InstanceTypes, managerVars, Waited, Wanted, Answer, Alive, Closing
<1>6. generating[i] \in Nat /\ cut[i] \in Nat /\ aborted[i] \in Nat /\ done[i] \in Nat
  BY <1>2 DEF InstanceTypes
<1>7. InstanceOk(i)
  BY DEF ProtocolInv
<1>8. /\ generating[i] = 0 /\ cut[i] = 0
      /\ Told(i) /\ Told(i)' /\ i > offset /\ i \in Waited /\ pc = "finish"
  <2>1. generating[i] = 0 /\ cut[i] = 0
    BY <1>1, <1>6 DEF Running, Sending
  <2>2. ~NotTold(i)
    BY <1>1 DEF NotTold
  <2>3. i > offset /\ i \in Waited /\ Told(i) /\ pc = "finish"
    BY <1>1, <1>7, <2>2 DEF InstanceOk, Stage, Closed, Unasked, Pending, Draining, Answered,
       Told
  <2>4. Told(i)'
    BY <1>5, <2>3 DEF Told
  <2> QED BY <2>1, <2>3, <2>4
<1>10. Stage(i)'
  BY <1>5, <1>8 DEF Stage
<1>11. Whole(i)'
  BY <1>5, <1>8 DEF Whole
<1>12. Carried(i)' = Carried(i) + 0 - (sent' - sent)
  BY <1>1, <1>5, <1>6, <1>7, <1>8, CarriedType DEF Carried
<1> QED BY <1>1, <1>3, <1>4, <1>10, <1>11, <1>12 DEF StepOf, InstanceOk, managerVars

(* The instance answers "Offloaded", once, and rollout() has ended.         *)
LEMMA OffloadStep ==
    ASSUME ProtocolInv, sent \in Nat, NEW i \in Instances, Offload(i)
    PROVE  StepOf(i, 0)
<1>1. /\ rollout[i] = "offloading"
      /\ rollout' = [rollout EXCEPT ![i] = "exited"]
      /\ resp' = [resp EXCEPT ![i] = Append(@, Response("Offloaded", 0, 0))]
      /\ UNCHANGED <<managerVars, main, generating, cut, aborted, done, event, req, sent>>
  BY DEF Offload, statusVars
<1>2. InstanceTypes
  BY DEF ProtocolInv
<1>3. InstanceTypes'
  <2>1. Response("Offloaded", 0, 0) \in Responses
    BY DEF Responses, Response
  <2>2. Append(resp[i], Response("Offloaded", 0, 0)) \in Seq(Responses)
    BY <1>2, <2>1 DEF InstanceTypes
  <2> QED BY <1>1, <1>2, <2>2 DEF InstanceTypes
<1>4. \A j \in Instances \ {i} : UNCHANGED instance(j)
  BY <1>1, <1>2 DEF InstanceTypes, instance
<1>5. /\ rollout'[i] = "exited" /\ resp'[i] = Append(resp[i], Response("Offloaded", 0, 0))
      /\ main'[i] = main[i] /\ generating'[i] = generating[i] /\ cut'[i] = cut[i]
      /\ aborted'[i] = aborted[i] /\ event'[i] = event[i] /\ req'[i] = req[i]
      /\ pc' = pc /\ offset' = offset /\ leaving' = leaving
      /\ Waited' = Waited /\ Wanted' = Wanted /\ Answer' = Answer
  BY <1>1, <1>2 DEF InstanceTypes, managerVars, Waited, Wanted, Answer, Alive, Closing
<1>6. generating[i] \in Nat /\ cut[i] \in Nat /\ aborted[i] \in Nat /\ done[i] \in Nat
  BY <1>2 DEF InstanceTypes
<1>7. InstanceOk(i)
  BY DEF ProtocolInv
<1>8. /\ Answered(i)' /\ i > offset /\ i \in Waited /\ pc = "finish"
  <2>1. i > offset /\ i \in Waited /\ Told(i) /\ pc = "finish"
    BY <1>1, <1>7 DEF InstanceOk, Stage, Closed, Unasked, Pending, Draining, Answered, Told,
       NotTold
  <2>2. Response("Offloaded", 0, 0) \in Responses
    BY DEF Responses, Response
  <2>3. resp'[i] = <<Response("Offloaded", 0, 0)>>
    BY <1>5, <2>1 DEF Told
  <2>4. Response("Offloaded", 0, 0).kind = Answer'
    BY <1>5, <2>1 DEF Response, Answer
  <2>5. Answered(i)'
    BY <1>1, <1>5, <2>1, <2>2, <2>3, <2>4 DEF Answered, Told
  <2> QED BY <2>1, <2>5
<1>10. Stage(i)'
  BY <1>5, <1>8 DEF Stage
<1>11. Whole(i)'
  <2>1. aborted[i] = 0 /\ cut[i] = 0
    BY <1>1, <1>6, <1>7, <1>8 DEF InstanceOk, Whole, Draining
  <2> QED BY <1>5, <2>1 DEF Whole
<1>12. Carried(i)' = Carried(i) + 0 - (sent' - sent)
  BY <1>1, <1>5, <1>6, <1>7, <1>8, CarriedType DEF Carried
<1> QED BY <1>1, <1>3, <1>4, <1>10, <1>11, <1>12 DEF StepOf, InstanceOk, managerVars

(* A request is taken only while the conversation waits for one, or for     *)
(* groups migrated in before it.                                            *)
LEMMA AskedFacts ==
    ASSUME ProtocolInv, NEW i \in Instances, NEW actions, Asked(i, actions)
    PROVE  /\ main[i] = "serving" /\ req[i] # <<>> /\ Head(req[i]).action \in actions
           /\ req' = [req EXCEPT ![i] = Tail(@)]
           /\ Tail(req[i]) \in Seq(Requests)
           /\ IF Head(req[i]).action = "Migrate_In"
              THEN /\ Head(req[i]).groups \in Nat \ {0}
                   /\ GroupsIn(req[i]) = Head(req[i]).groups
                   /\ GroupsIn(Tail(req[i])) = 0
                   /\ i > offset
                   /\ \/ Unasked(i) /\ Tail(req[i]) = <<>> /\ i \notin Waited
                      \/ Pending(i) /\ IsLate(Tail(req[i]), Wanted) /\ i \in Waited
              ELSE /\ Pending(i) /\ Tail(req[i]) = <<>> /\ Head(req[i]).action \in Wanted
                   /\ i > offset /\ i \in Waited
                   /\ GroupsIn(req[i]) = 0 /\ GroupsIn(Tail(req[i])) = 0
<1>1. /\ main[i] = "serving" /\ req[i] # <<>> /\ Head(req[i]).action \in actions
      /\ req' = [req EXCEPT ![i] = Tail(@)]
  BY DEF Asked
<1>2. Tail(req[i]) \in Seq(Requests)
  BY <1>1 DEF ProtocolInv, InstanceTypes
<1>3. \/ i > offset /\ i \notin Waited /\ Unasked(i)
      \/ i > offset /\ i \in Waited /\ Pending(i)
  BY <1>1 DEF ProtocolInv, InstanceOk, Stage, Closed, Draining, Told, Answered
<1>4. GroupsIn(<<>>) = 0
  BY EarlyFacts DEF IsEarly
<1>5. CASE Unasked(i) /\ i \notin Waited /\ i > offset
  <2>1. /\ Head(req[i]).action = "Migrate_In" /\ Tail(req[i]) = <<>>
        /\ Head(req[i]).groups \in Nat \ {0}
        /\ GroupsIn(req[i]) = Head(req[i]).groups
    BY <1>1, <1>5, EarlyFacts DEF Unasked
  <2> QED BY <1>1, <1>2, <1>4, <1>5, <2>1
<1>6. CASE Pending(i) /\ i \in Waited /\ i > offset
  <2>1. "Migrate_In" \notin Wanted
    BY DEF Wanted
  <2>2. \/ /\ Head(req[i]).action \in Wanted /\ Tail(req[i]) = <<>>
           /\ GroupsIn(req[i]) = 0
        \/ /\ Head(req[i]).action = "Migrate_In" /\ IsLate(Tail(req[i]), Wanted)
           /\ Head(req[i]).groups \in Nat \ {0}
           /\ GroupsIn(req[i]) = Head(req[i]).groups
           /\ GroupsIn(Tail(req[i])) = 0
    BY <1>6, LateFacts DEF Pending
  <2>3. CASE Head(req[i]).action = "Migrate_In"
    BY <1>1, <1>2, <1>6, <2>1, <2>2, <2>3
  <2>4. CASE Head(req[i]).action # "Migrate_In"
    BY <1>1, <1>2, <1>4, <1>6, <2>2, <2>4
  <2> QED BY <2>3, <2>4
<1> QED BY <1>3, <1>5, <1>6


(* A report answers a request for one.                                      *)
LEMMA ServeReportStep ==
    ASSUME ProtocolInv, sent \in Nat, NEW i \in Instances, ServeReport(i)
    PROVE  StepOf(i, 0)
<1>1. /\ Asked(i, {"Report"})
      /\ req' = [req EXCEPT ![i] = Tail(@)]
      /\ resp' = [resp EXCEPT ![i] =
                     Append(@, Response("report", Running(i) + done[i], Running(i)))]
      /\ UNCHANGED <<managerVars, rollout, main, generating, cut, aborted, done, event, sent>>
  BY DEF ServeReport, Asked, statusVars
<1>2. InstanceTypes
  BY DEF ProtocolInv
<1>3. InstanceTypes'
  <2> DEFINE r == Response("report", Running(i) + done[i], Running(i))
  <2>1. r \in Responses
    BY <1>2 DEF Responses, Response, Running, Sending, InstanceTypes
  <2>2. Tail(req[i]) \in Seq(Requests)
    BY <1>1, AskedFacts
  <2> HIDE DEF r
  <2>3. Append(resp[i], r) \in Seq(Responses)
    BY <1>2, <2>1 DEF InstanceTypes
  <2>4. resp' = [resp EXCEPT ![i] = Append(@, r)]
    BY <1>1 DEF r
  <2> QED BY <1>1, <1>2, <2>2, <2>3, <2>4 DEF InstanceTypes
<1>4. \A j \in Instances \ {i} : UNCHANGED instance(j)
  BY <1>1, <1>2 DEF InstanceTypes, instance
<1>5. /\ req'[i] = Tail(req[i])
      /\ resp'[i] = Append(resp[i], Response("report", Running(i) + done[i], Running(i)))
      /\ rollout'[i] = rollout[i] /\ main'[i] = main[i] /\ generating'[i] = generating[i]
      /\ cut'[i] = cut[i] /\ aborted'[i] = aborted[i] /\ event'[i] = event[i]
      /\ pc' = pc /\ offset' = offset /\ leaving' = leaving
      /\ Waited' = Waited /\ Wanted' = Wanted /\ Answer' = Answer
  BY <1>1, <1>2 DEF InstanceTypes, managerVars, Waited, Wanted, Answer, Alive, Closing
<1>6. generating[i] \in Nat /\ cut[i] \in Nat /\ aborted[i] \in Nat /\ done[i] \in Nat
  BY <1>2 DEF InstanceTypes
<1>7. InstanceOk(i)
  BY DEF ProtocolInv
<1>8. /\ Answered(i)' /\ i > offset /\ i \in Waited /\ pc \notin {"migrate", "finish"}
      /\ GroupsIn(req[i]) = 0 /\ GroupsIn(Tail(req[i])) = 0
  <2> DEFINE r == Response("report", Running(i) + done[i], Running(i))
  <2>1. /\ Pending(i) /\ Tail(req[i]) = <<>> /\ "Report" \in Wanted
        /\ i > offset /\ i \in Waited
        /\ GroupsIn(req[i]) = 0 /\ GroupsIn(Tail(req[i])) = 0
    <3> HIDE DEF r
    <3>1. Head(req[i]).action = "Report" /\ Head(req[i]).action # "Migrate_In"
      BY <1>1 DEF Asked
    <3> QED BY <1>1, <3>1, AskedFacts, Zenon
  <2>2. pc \notin {"migrate", "finish"}
    BY <2>1 DEF Wanted
  <2>3. r \in Responses /\ r.kind = "report"
    BY <1>2, <1>6 DEF Responses, Response, Running, Sending, InstanceTypes
  <2>4. resp'[i] = <<r>>
    BY <1>5, <2>1 DEF Pending
  <2>5. NotTold(i)'
    BY <1>5, <2>1 DEF Pending, NotTold, Running, Sending
  <2> HIDE DEF r
  <2>6. Answer' = "report" /\ pc' \notin {"migrate", "finish"}
    BY <1>5, <2>2 DEF Answer
  <2>7. Answered(i)'
    BY <1>5, <2>1, <2>3, <2>4, <2>5, <2>6 DEF Answered, Pending
  <2> QED BY <2>1, <2>2, <2>7
<1>10. Stage(i)'
  BY <1>5, <1>8 DEF Stage
<1>11. Whole(i)'
  BY <1>5, <1>6, <1>7, <1>8 DEF InstanceOk, Whole, Draining
<1>12. Carried(i)' = Carried(i) + 0 - (sent' - sent)
  BY <1>1, <1>5, <1>6, <1>7, <1>8, CarriedType DEF Carried
<1> QED BY <1>1, <1>3, <1>4, <1>10, <1>11, <1>12 DEF StepOf, InstanceOk, managerVars

(* Groups are cut, or kept as finished: their number stays.                 *)
LEMMA AbortGenerationStep ==
    ASSUME ProtocolInv, sent \in Nat, NEW i \in Instances, AbortGeneration(i)
    PROVE  StepOf(i, 0)
<1>0. PICK kept \in 0 .. generating[i] :
          /\ generating' = [generating EXCEPT ![i] = kept]
          /\ cut' = [cut EXCEPT ![i] = @ + generating[i] - kept]
  BY DEF AbortGeneration
<1>1. /\ Asked(i, {"Migrate_Out"})
      /\ req' = [req EXCEPT ![i] = Tail(@)]
      /\ main' = [main EXCEPT ![i] = "draining"]
      /\ UNCHANGED <<managerVars, rollout, aborted, done, event, resp, sent>>
  BY DEF AbortGeneration, Asked
<1>2. InstanceTypes
  BY DEF ProtocolInv
<1>3. InstanceTypes'
  <2>1. Tail(req[i]) \in Seq(Requests)
    BY <1>1, AskedFacts
  <2>2. kept \in Nat /\ cut[i] + generating[i] - kept \in Nat
    BY <1>0, <1>2 DEF InstanceTypes
  <2> QED BY <1>0, <1>1, <1>2, <2>1, <2>2 DEF InstanceTypes
<1>4. \A j \in Instances \ {i} : UNCHANGED instance(j)
  BY <1>0, <1>1, <1>2 DEF InstanceTypes, instance
<1>5. /\ generating'[i] = kept /\ cut'[i] = cut[i] + generating[i] - kept
      /\ req'[i] = Tail(req[i]) /\ main'[i] = "draining"
      /\ rollout'[i] = rollout[i] /\ aborted'[i] = aborted[i]
      /\ resp'[i] = resp[i] /\ event'[i] = event[i]
      /\ pc' = pc /\ offset' = offset /\ leaving' = leaving
      /\ Waited' = Waited /\ Wanted' = Wanted /\ Answer' = Answer
  BY <1>0, <1>1, <1>2 DEF InstanceTypes, managerVars, Waited, Wanted, Answer, Alive, Closing
<1>6. /\ generating[i] \in Nat /\ cut[i] \in Nat /\ aborted[i] \in Nat /\ done[i] \in Nat
      /\ kept \in 0 .. generating[i]
  BY <1>0, <1>2 DEF InstanceTypes
<1>7. InstanceOk(i)
  BY DEF ProtocolInv
<1>8. /\ Pending(i) /\ Tail(req[i]) = <<>> /\ "Migrate_Out" \in Wanted
      /\ i > offset /\ i \in Waited
      /\ GroupsIn(req[i]) = 0 /\ GroupsIn(Tail(req[i])) = 0
  BY <1>1, AskedFacts
<1>9. /\ pc = "migrate" /\ Draining(i)'
      /\ Running(i)' = Running(i)
  <2>1. pc = "migrate"
    BY <1>8 DEF Wanted
  <2>2. Running(i)' = Running(i)
    BY <1>5, <1>6 DEF Running, Sending
  <2>3. NotTold(i)'
    BY <1>5, <1>8, <2>2 DEF Pending, NotTold
  <2> QED BY <1>5, <1>8, <2>1, <2>2, <2>3 DEF Draining, Pending
<1>10. Stage(i)'
  BY <1>5, <1>8, <1>9 DEF Stage
<1>11. Whole(i)'
  BY <1>5, <1>6, <1>7, <1>8, <1>9 DEF InstanceOk, Whole
<1>12. Carried(i)' = Carried(i) + 0 - (sent' - sent)
  BY <1>1, <1>5, <1>6, <1>8 DEF Carried
<1> QED BY <1>1, <1>3, <1>4, <1>10, <1>11, <1>12 DEF StepOf, InstanceOk, managerVars

(* Once nothing runs the aborted groups are handed over, all of them.       *)
LEMMA HandOverStep ==
    ASSUME ProtocolInv, sent \in Nat, NEW i \in Instances, HandOver(i)
    PROVE  StepOf(i, 0)
<1> DEFINE r == Response("data", 0, aborted[i])
<1>1. /\ main[i] = "draining" /\ Running(i) = 0
      /\ main' = [main EXCEPT ![i] = "serving"]
      /\ resp' = [resp EXCEPT ![i] = Append(@, r)]
      /\ UNCHANGED <<managerVars, rollout, generating, cut, aborted, done, event, req, sent>>
  BY DEF HandOver, statusVars
<1>2. InstanceTypes
  BY DEF ProtocolInv
<1>r. r \in Responses /\ r.kind = "data" /\ r.groups = aborted[i]
  BY <1>2 DEF InstanceTypes, Responses, Response
<1> HIDE DEF r
<1>3. InstanceTypes'
  <2>1. Append(resp[i], r) \in Seq(Responses)
    BY <1>2, <1>r DEF InstanceTypes
  <2> QED BY <1>1, <1>2, <2>1 DEF InstanceTypes
<1>4. \A j \in Instances \ {i} : UNCHANGED instance(j)
  BY <1>1, <1>2 DEF InstanceTypes, instance
<1>5. /\ main'[i] = "serving" /\ resp'[i] = Append(resp[i], r)
      /\ rollout'[i] = rollout[i] /\ generating'[i] = generating[i] /\ cut'[i] = cut[i]
      /\ aborted'[i] = aborted[i] /\ event'[i] = event[i] /\ req'[i] = req[i]
      /\ pc' = pc /\ offset' = offset /\ leaving' = leaving
      /\ Waited' = Waited /\ Wanted' = Wanted /\ Answer' = Answer
  BY <1>1, <1>2 DEF InstanceTypes, managerVars, Waited, Wanted, Answer, Alive, Closing
<1>6. generating[i] \in Nat /\ cut[i] \in Nat /\ aborted[i] \in Nat /\ done[i] \in Nat
  BY <1>2 DEF InstanceTypes
<1>7. InstanceOk(i)
  BY DEF ProtocolInv
<1>8. /\ i > offset /\ i \in Waited /\ pc = "migrate"
      /\ cut[i] = 0 /\ generating[i] = 0
      /\ Answered(i)'
  <2>1. i > offset /\ i \in Waited /\ Draining(i)
    BY <1>1, <1>7 DEF InstanceOk, Stage, Closed, Unasked, Pending, Draining, Told, Answered
  <2>2. pc = "migrate"
    BY <2>1 DEF Draining
  <2>3. cut[i] = 0 /\ generating[i] = 0
    BY <1>1, <1>6 DEF Running, Sending
  <2>4. resp'[i] = <<r>>
    BY <1>5, <2>1 DEF Draining
  <2>5. NotTold(i)'
    BY <1>5, <2>1 DEF Draining, NotTold, Running, Sending
  <2>6. Answer' = "data" /\ pc' = "migrate"
    BY <1>5, <2>2 DEF Answer
  <2>7. Answered(i)'
    BY <1>5, <1>r, <2>1, <2>4, <2>5, <2>6 DEF Answered, Draining
  <2> QED BY <2>1, <2>2, <2>3, <2>7
<1>10. Stage(i)'
  BY <1>5, <1>8 DEF Stage
<1>11. Whole(i)'
  BY <1>5, <1>6, <1>7, <1>8 DEF InstanceOk, Whole
<1>12. Carried(i)' = Carried(i) + 0 - (sent' - sent)
  BY <1>1, <1>5, <1>6, <1>7, <1>8, CarriedType DEF Carried
<1> QED BY <1>1, <1>3, <1>4, <1>10, <1>11, <1>12 DEF StepOf, InstanceOk, managerVars

(* Groups migrated in leave the queue and run; the waiting loop is told.    *)
LEMMA ServeMigrateInStep ==
    ASSUME ProtocolInv, sent \in Nat, NEW i \in Instances, ServeMigrateIn(i)
    PROVE  StepOf(i, 0)
<1> DEFINE n == Head(req[i]).groups
<1>1. /\ Asked(i, {"Migrate_In"})
      /\ req' = [req EXCEPT ![i] = Tail(@)]
      /\ generating' = [generating EXCEPT ![i] = @ + n]
      /\ event' = [event EXCEPT ![i] = @ \/ Running(i) = 0]
      /\ UNCHANGED <<managerVars, rollout, main, cut, aborted, done, resp, sent>>
  BY DEF ServeMigrateIn, Asked
<1>2. InstanceTypes
  BY DEF ProtocolInv
<1>8. /\ Head(req[i]).action = "Migrate_In"
      /\ Tail(req[i]) \in Seq(Requests)
      /\ n \in Nat \ {0}
      /\ GroupsIn(req[i]) = n
      /\ GroupsIn(Tail(req[i])) = 0
      /\ i > offset
      /\ \/ Unasked(i) /\ Tail(req[i]) = <<>> /\ i \notin Waited
         \/ Pending(i) /\ IsLate(Tail(req[i]), Wanted) /\ i \in Waited
  <2>1. Head(req[i]).action = "Migrate_In"
    BY <1>1 DEF Asked
  <2> QED BY <1>1, <2>1, AskedFacts
<1> HIDE DEF n
<1>3. InstanceTypes'
  BY <1>1, <1>2, <1>8, SMTT(30) DEF InstanceTypes
<1>4. \A j \in Instances \ {i} : UNCHANGED instance(j)
  BY <1>1, <1>2 DEF InstanceTypes, instance
<1>5. /\ req'[i] = Tail(req[i]) /\ generating'[i] = generating[i] + n
      /\ event'[i] = (event[i] \/ Running(i) = 0)
      /\ rollout'[i] = rollout[i] /\ main'[i] = main[i] /\ cut'[i] = cut[i]
      /\ aborted'[i] = aborted[i] /\ resp'[i] = resp[i]
      /\ pc' = pc /\ offset' = offset /\ leaving' = leaving
      /\ Waited' = Waited /\ Wanted' = Wanted /\ Answer' = Answer
  BY <1>1, <1>2 DEF InstanceTypes, managerVars, Waited, Wanted, Answer, Alive, Closing
<1>6. /\ generating[i] \in Nat /\ cut[i] \in Nat /\ aborted[i] \in Nat /\ done[i] \in Nat
      /\ rollout[i] \in {"idle", "collecting", "sending", "waiting", "offloading", "exited"}
  BY <1>2 DEF InstanceTypes
<1>7. InstanceOk(i)
  BY DEF ProtocolInv
<1>9. NotTold(i)'
  <2>1. NotTold(i) /\ (rollout[i] = "collecting" => generating[i] + cut[i] > 0)
    BY <1>7, <1>8 DEF Unasked, Pending, InstanceOk, Whole
  <2>2. Running(i)' = Running(i) + n /\ Running(i) \in Nat
    BY <1>5, <1>6, <1>8, SMTT(30) DEF Running, Sending
  <2>3. Running(i) = 0 => rollout[i] \in {"waiting", "idle"}
    BY <1>6, <2>1 DEF Running, Sending, NotTold
  <2>4. event'[i] => event[i] \/ Running(i) = 0
    BY <1>5, Zenon
  <2>5. event'[i] => rollout[i] \in {"waiting", "idle"} /\ Running(i)' > 0
    BY <1>8, <2>1, <2>2, <2>3, <2>4 DEF NotTold
  <2> QED BY <1>5, <2>1, <2>5 DEF NotTold
<1>10. Stage(i)'
  <2>1. CASE Unasked(i) /\ Tail(req[i]) = <<>> /\ i \notin Waited
    <3>1. Unasked(i)' /\ req'[i] = <<>>
      BY <1>5, <1>9, <2>1 DEF Unasked, IsEarly
    <3> QED BY <1>5, <1>8, <2>1, <3>1 DEF Stage
  <2>2. CASE Pending(i) /\ IsLate(Tail(req[i]), Wanted) /\ i \in Waited
    <3>1. IsLate(req[i], Wanted)'
      BY <1>5, <2>2, Zenon
    <3>2. Pending(i)'
      BY <1>5, <1>9, <2>2, <3>1 DEF Pending
    <3> QED BY <1>5, <1>8, <2>2, <3>2 DEF Stage
  <2> QED BY <1>8, <2>1, <2>2
<1>11. Whole(i)'
  <2>1. ~Draining(i) /\ (Answered(i) => pc # "migrate")
    BY <1>8 DEF Unasked, Pending, Draining, Answered
  <2> QED BY <1>5, <1>6, <1>7, <1>8, <2>1 DEF InstanceOk, Whole
<1>12. Carried(i)' = Carried(i) + 0 - (sent' - sent)
  BY <1>1, <1>5, <1>6, <1>8 DEF Carried
<1> QED BY <1>1, <1>3, <1>4, <1>10, <1>11, <1>12 DEF StepOf, InstanceOk, managerVars

(* Told to end, an instance has no running groups and will answer.          *)
LEMMA ServeFinishStep ==
    ASSUME ProtocolInv, sent \in Nat, NEW i \in Instances, ServeFinish(i)
    PROVE  StepOf(i, 0)
<1>1. /\ Asked(i, {"Finish", "Wait_For_Finish"}) /\ Running(i) = 0
      /\ req' = [req EXCEPT ![i] = Tail(@)]
      /\ event' = [event EXCEPT ![i] = TRUE]
      /\ UNCHANGED <<managerVars, rollout, main, generating, cut, aborted, done, resp, sent>>
  BY DEF ServeFinish, Asked
<1>2. InstanceTypes
  BY DEF ProtocolInv
<1>8. /\ Pending(i) /\ Tail(req[i]) = <<>> /\ Tail(req[i]) \in Seq(Requests)
      /\ i > offset /\ i \in Waited
      /\ GroupsIn(req[i]) = 0 /\ GroupsIn(Tail(req[i])) = 0
      /\ pc = "finish"
  <2>1. /\ Pending(i) /\ Tail(req[i]) = <<>> /\ Tail(req[i]) \in Seq(Requests)
        /\ i > offset /\ i \in Waited
        /\ GroupsIn(req[i]) = 0 /\ GroupsIn(Tail(req[i])) = 0
        /\ Wanted \cap {"Finish", "Wait_For_Finish"} # {}
    BY <1>1, AskedFacts
  <2>2. pc = "finish"
    BY <2>1 DEF Wanted
  <2> QED BY <2>1, <2>2
<1>3. InstanceTypes'
  BY <1>1, <1>2, <1>8 DEF InstanceTypes
<1>4. \A j \in Instances \ {i} : UNCHANGED instance(j)
  BY <1>1, <1>2 DEF InstanceTypes, instance
<1>5. /\ req'[i] = Tail(req[i]) /\ event'[i] = TRUE
      /\ rollout'[i] = rollout[i] /\ main'[i] = main[i] /\ generating'[i] = generating[i]
      /\ cut'[i] = cut[i] /\ aborted'[i] = aborted[i] /\ resp'[i] = resp[i]
      /\ pc' = pc /\ offset' = offset /\ leaving' = leaving
      /\ Waited' = Waited /\ Wanted' = Wanted /\ Answer' = Answer
  BY <1>1, <1>2 DEF InstanceTypes, managerVars, Waited, Wanted, Answer, Alive, Closing
<1>6. /\ generating[i] \in Nat /\ cut[i] \in Nat /\ aborted[i] \in Nat /\ done[i] \in Nat
      /\ generating[i] = 0 /\ cut[i] = 0
  BY <1>1, <1>2 DEF InstanceTypes, Running, Sending
<1>7. InstanceOk(i)
  BY DEF ProtocolInv
<1>9. Told(i)'
  <2>1. Running(i)' = 0
    BY <1>1, <1>5 DEF Running, Sending
  <2> QED BY <1>5, <1>8, <2>1 DEF Told, Pending, NotTold
<1>10. Stage(i)'
  BY <1>5, <1>8, <1>9 DEF Stage
<1>11. Whole(i)'
  BY <1>5, <1>6, <1>7, <1>8 DEF InstanceOk, Whole, Draining, Pending
<1>12. Carried(i)' = Carried(i) + 0 - (sent' - sent)
  BY <1>1, <1>5, <1>6, <1>8 DEF Carried
<1> QED BY <1>1, <1>3, <1>4, <1>10, <1>11, <1>12 DEF StepOf, InstanceOk, managerVars

-----------------------------------------------------------------------------
(* Steps of the manager *)

Waiting == {"pre_process", "report", "migrate", "finish"}

(* Instance i has nothing to answer and may be asked something.             *)
Free(i) ==
    /\ IsEarly(req[i]) /\ main[i] = "serving" /\ NotTold(i)
    /\ cut[i] = 0 /\ aborted[i] = 0
    /\ rollout[i] = "collecting" => generating[i] + cut[i] > 0

(* Every instance that is not closed is free, and no answer is left behind. *)
AllFree ==
    /\ resp' \in [Instances -> Seq(Responses)]
    /\ \A i \in Instances :
          /\ resp'[i] = <<>>
          /\ IF i <= offset THEN Closed(i) /\ cut[i] = 0 /\ aborted[i] = 0 ELSE Free(i)

(* What a step of the manager keeps.                                        *)
Kept ==
    /\ ProtocolInv'
    /\ \A i \in Instances : Carried(i)' = Carried(i)

(* Instances are closed from the first on, and only open ones are asked.    *)
LEMMA PlacesType ==
    ASSUME Turns
    PROVE  /\ NumInstances \in Nat /\ offset \in Nat /\ AliveNum \in Nat
           /\ offset + AliveNum = NumInstances
           /\ \A i \in Instances : i \in Int /\ i <= NumInstances
           /\ Waited \subseteq Instances
           /\ \A i \in Waited : i > offset
           /\ \A i \in Instances : i > offset <=> i \in Alive
<1>1. NumInstances \in Nat
  BY PlacementAssumption
<1>2. offset \in 0 .. NumInstances
  BY DEF Turns
<1>3. pc \in {"migrate", "finish"} => leaving \in 0 .. AliveNum
  BY <1>1, <1>2 DEF Turns, AliveNum
<1>4. Alive \subseteq Instances /\ \A i \in Alive : i > offset
  BY <1>1, <1>2 DEF Alive, Instances
<1>5. pc \in {"migrate", "finish"} =>
        Closing \subseteq Instances /\ \A i \in Closing : i > offset
  BY <1>1, <1>2, <1>3 DEF Closing, Instances, AliveNum
<1> QED BY <1>1, <1>2, <1>4, <1>5 DEF Alive, AliveNum, Instances, Waited

(* What was waited for has come.                                            *)
LEMMA GatheredAnswers ==
    ASSUME ProtocolInv, Gather(Waited)
    PROVE  /\ resp' \in [Instances -> Seq(Responses)]
           /\ \A i \in Instances : resp'[i] = <<>>
           /\ \A i \in Waited : /\ Answered(i)
                                /\ Head(resp[i]) \in Responses
                                /\ Head(resp[i]).kind = Answer
                                /\ pc = "migrate" => Head(resp[i]).groups = aborted[i]
<1>1. InstanceTypes /\ Turns /\ \A i \in Instances : InstanceOk(i)
  BY DEF ProtocolInv
<1>2. Waited \subseteq Instances /\ \A i \in Waited : i > offset
  BY <1>1, PlacesType
<1>3. ASSUME NEW i \in Waited
      PROVE  /\ Answered(i)
             /\ Tail(resp[i]) = <<>>
             /\ Head(resp[i]) \in Responses
             /\ Head(resp[i]).kind = Answer
             /\ pc = "migrate" => Head(resp[i]).groups = aborted[i]
  <2>1. resp[i] # <<>> /\ InstanceOk(i) /\ i > offset /\ offset \in Int /\ i \in Int
    BY <1>1, <1>2, PlacesType DEF Gather
  <2>2. Answered(i)
    BY <2>1 DEF InstanceOk, Stage, Closed, Pending, Draining, Told
  <2>3. PICK r \in Responses :
           resp[i] = <<r>> /\ r.kind = Answer /\ (pc = "migrate" => r.groups = aborted[i])
    BY <2>2 DEF Answered
  <2>4. Head(resp[i]) = r /\ Tail(resp[i]) = <<>>
    BY <2>3
  <2> QED BY <2>2, <2>3, <2>4
<1>4. ASSUME NEW i \in Instances, i \notin Waited
      PROVE  resp[i] = <<>>
  <2>1. offset \in Int /\ i \in Int
    BY <1>1, PlacesType
  <2> QED BY <1>1, <1>4, <2>1 DEF InstanceOk, Stage, Closed, Unasked
<1>5. \A i \in Instances : resp'[i] = <<>>
  BY <1>3, <1>4 DEF Gather
<1>6. resp' \in [Instances -> Seq(Responses)]
  <2>1. <<>> \in Seq(Responses)
    OBVIOUS
  <2>2. resp' = [i \in Instances |-> resp'[i]]
    BY DEF Gather
  <2> QED BY <1>5, <2>1, <2>2
<1> QED BY <1>3, <1>5, <1>6

(* Before the manager asks anything new, nothing it asked is open.          *)
LEMMA FreeBefore ==
    ASSUME ProtocolInv,
           \/ pc \notin Waiting /\ resp' = resp
           \/ pc \in {"pre_process", "report"} /\ Gather(Alive)
    PROVE  /\ AllFree
           /\ pc \in Waiting => \A i \in Alive : req[i] = <<>>
<1>1. InstanceTypes /\ Turns /\ \A i \in Instances : InstanceOk(i)
  BY DEF ProtocolInv
<1>2. ASSUME NEW i \in Instances
      PROVE  i \in Int /\ offset \in Int
  BY <1>1, PlacesType
<1>3. ASSUME NEW i \in Instances
      PROVE  cut[i] \in Nat /\ aborted[i] \in Nat
  BY <1>1 DEF InstanceTypes
<1>4. pc # "migrate" /\ pc # "finish"
  BY DEF Waiting
<1>5. ASSUME NEW i \in Instances
      PROVE  cut[i] = 0 /\ aborted[i] = 0
  BY <1>1, <1>3, <1>4 DEF InstanceOk, Whole, Draining
<1>c. ASSUME NEW i \in Instances, rollout[i] = "collecting"
      PROVE  generating[i] + cut[i] > 0
  BY <1>1, <1>c DEF InstanceOk, Whole
<1>6. CASE pc \notin Waiting /\ resp' = resp
  <2>1. Waited = {}
    BY <1>6 DEF Waiting, Waited
  <2>2. ASSUME NEW i \in Instances
        PROVE  IF i <= offset THEN Closed(i) ELSE Unasked(i)
    BY <1>1, <1>2, <2>1 DEF InstanceOk, Stage
  <2>3. ASSUME NEW i \in Instances
        PROVE  resp'[i] = <<>>
    BY <1>6, <2>2 DEF Closed, Unasked
  <2> QED BY <1>1, <1>5, <1>6, <1>c, <2>2, <2>3 DEF AllFree, Free, Unasked, InstanceTypes
<1>7. CASE pc \in {"pre_process", "report"} /\ Gather(Alive)
  <2>1. Waited = Alive
    BY <1>7 DEF Waited
  <2>2. /\ resp' \in [Instances -> Seq(Responses)]
        /\ \A i \in Instances : resp'[i] = <<>>
        /\ \A i \in Alive : Answered(i)
    BY <1>7, <2>1, GatheredAnswers
  <2>3. ASSUME NEW i \in Instances, i > offset
        PROVE  Free(i)
    <3>1. Answered(i)
      BY <1>1, <2>2, <2>3, PlacesType
    <3>2. req[i] = <<>> /\ main[i] = "serving" /\ NotTold(i)
      BY <1>4, <3>1 DEF Answered
    <3> QED BY <1>5, <1>c, <3>2 DEF Free, IsEarly
  <2>4. ASSUME NEW i \in Instances, i <= offset
        PROVE  Closed(i)
    BY <1>1, <1>2, <2>4 DEF InstanceOk, Stage
  <2>5. \A i \in Alive : req[i] = <<>>
    BY <2>2 DEF Answered
  <2> QED BY <1>2, <1>5, <2>2, <2>3, <2>4, <2>5 DEF AllFree
<1> QED BY <1>6, <1>7

(* What the manager leaves alone in an instance.                            *)
LEMMA LeftAlone ==
    ASSUME UNCHANGED <<rollout, main, statusVars>>
    PROVE  /\ rollout' = rollout /\ main' = main /\ generating' = generating /\ cut' = cut
           /\ aborted' = aborted /\ done' = done /\ event' = event
           /\ \A i : Running(i)' = Running(i) /\ NotTold(i)' = NotTold(i)
<1>1. /\ rollout' = rollout /\ main' = main /\ generating' = generating /\ cut' = cut
      /\ aborted' = aborted /\ done' = done /\ event' = event
  BY DEF statusVars
<1>2. \A i : Running(i)' = Running(i)
  BY <1>1 DEF Running, Sending
<1> QED BY <1>1, <1>2 DEF NotTold

(* A free instance is asked something, or nothing, or it stays closed.      *)
LEMMA FreeInstance ==
    ASSUME UNCHANGED <<rollout, main, statusVars>>, NEW i \in Instances, Free(i),
           i > offset', resp'[i] = <<>>,
           \/ /\ i \in Waited'
              /\ \E a \in Wanted' : req'[i] = Append(req[i], Request(a))
           \/ /\ i \notin Waited' /\ req'[i] = req[i]
              /\ pc' = "migrate" => req[i] = <<>>
    PROVE  InstanceOk(i)' /\ Carried(i)' = Carried(i)
<1>1. /\ rollout' = rollout /\ main' = main /\ generating' = generating /\ cut' = cut
      /\ aborted' = aborted /\ event' = event
      /\ Running(i)' = Running(i) /\ NotTold(i)' = NotTold(i)
  BY LeftAlone
<1>2. /\ IsEarly(req[i]) /\ main[i] = "serving" /\ NotTold(i) /\ cut[i] = 0 /\ aborted[i] = 0
  BY DEF Free
<1>3. Stage(i)' /\ GroupsIn(req[i])' = GroupsIn(req[i])
  <2>1. ASSUME i \in Waited', NEW a \in Wanted', req'[i] = Append(req[i], Request(a))
        PROVE  Stage(i)' /\ GroupsIn(req[i])' = GroupsIn(req[i])
    <3>1. /\ IsLate(Append(req[i], Request(a)), Wanted')
          /\ GroupsIn(Append(req[i], Request(a))) = GroupsIn(req[i])
      BY <1>2, AppendedFacts
    <3>2. IsLate(req[i], Wanted)' /\ GroupsIn(req[i])' = GroupsIn(req[i])
      BY <2>1, <3>1, Zenon
    <3>3. Pending(i)'
      BY <1>1, <1>2, <3>2 DEF Pending
    <3> QED BY <1>1, <2>1, <3>2, <3>3 DEF Stage
  <2>2. ASSUME i \notin Waited', req'[i] = req[i], pc' = "migrate" => req[i] = <<>>
        PROVE  Stage(i)' /\ GroupsIn(req[i])' = GroupsIn(req[i])
    <3>1. IsEarly(req[i])' /\ GroupsIn(req[i])' = GroupsIn(req[i])
      BY <1>2, <2>2, Zenon
    <3>2. Unasked(i)'
      BY <1>1, <1>2, <3>1 DEF Unasked
    <3> QED BY <1>1, <2>2, <3>1, <3>2 DEF Stage
  <2> QED BY <2>1, <2>2
<1>4. Whole(i)'
  <2>1. rollout[i] = "collecting" => generating[i] + cut[i] > 0
    BY DEF Free
  <2> QED BY <1>1, <1>2, <2>1 DEF Whole
<1> QED BY <1>1, <1>2, <1>3, <1>4 DEF InstanceOk, Carried

(* A closed instance stays closed.                                          *)
LEMMA ClosedInstance ==
    ASSUME UNCHANGED <<rollout, main, statusVars>>, NEW i \in Instances,
           req[i] = <<>>, main[i] = "serving", rollout[i] = "exited", ~event[i],
           cut[i] = 0, aborted[i] = 0,
           i <= offset', resp'[i] = <<>>, req'[i] = req[i]
    PROVE  InstanceOk(i)' /\ Carried(i)' = Carried(i)
<1>1. /\ rollout' = rollout /\ main' = main /\ generating' = generating /\ cut' = cut
      /\ aborted' = aborted /\ event' = event
  BY LeftAlone
<1>2. Closed(i)' /\ rollout[i] = "exited"
  BY <1>1 DEF Closed
<1>3. Stage(i)'
  BY <1>2 DEF Stage
<1>4. Whole(i)'
  BY <1>1, <1>2 DEF Whole
<1> QED BY <1>1, <1>3, <1>4 DEF InstanceOk, Carried

(* The manager asks the instances ids for what it then waits for.           *)
LEMMA AskStep ==
    ASSUME ProtocolInv, AllFree, UNCHANGED <<rollout, main, statusVars, offset>>,
           NEW a \in Wanted', Scatter(Waited', Request(a)), Turns',
           pc' = "migrate" => \A i \in Alive : req[i] = <<>>
    PROVE  Kept
<1>1. InstanceTypes /\ Turns
  BY DEF ProtocolInv
<1>2. /\ \A i \in Instances : i \in Int /\ offset \in Int
      /\ \A i \in Instances : i > offset <=> i \in Alive
  BY <1>1, PlacesType
<1>3. offset' = offset /\ \A i \in Waited' : i > offset
  <2>1. NumInstances \in Nat
    BY PlacementAssumption
  <2> QED BY <2>1 DEF Turns, Waited, Alive, Closing
<1>4. ASSUME NEW i \in Instances
      PROVE  req'[i] = IF i \in Waited' THEN Append(req[i], Request(a)) ELSE req[i]
  BY DEF Scatter
<1>5. InstanceTypes'
  <2>1. Request(a) \in Requests
    BY DEF Request, Requests, Wanted
  <2>2. ASSUME NEW i \in Instances
        PROVE  req'[i] \in Seq(Requests)
    <3>1. req[i] \in Seq(Requests)
      BY <1>1 DEF InstanceTypes
    <3>2. Append(req[i], Request(a)) \in Seq(Requests)
      BY <2>1, <3>1
    <3> QED BY <1>4, <3>1, <3>2
  <2>3. req' = [i \in Instances |-> req'[i]]
    BY DEF Scatter
  <2>4. req' \in [Instances -> Seq(Requests)]
    BY <2>2, <2>3
  <2> QED BY <1>1, <2>4, LeftAlone DEF InstanceTypes, AllFree
<1>6. ASSUME NEW i \in Instances
      PROVE  InstanceOk(i)' /\ Carried(i)' = Carried(i)
  <2>1. CASE i <= offset
    <3>1. i \notin Waited'
      BY <1>2, <1>3, <2>1
    <3>2. Closed(i) /\ cut[i] = 0 /\ aborted[i] = 0 /\ resp'[i] = <<>> /\ req'[i] = req[i]
      BY <1>4, <2>1, <3>1 DEF AllFree
    <3> QED BY <1>3, <2>1, <3>2, ClosedInstance DEF Closed
  <2>2. CASE i > offset
    <3>1. Free(i) /\ resp'[i] = <<>>
      BY <1>2, <2>2 DEF AllFree
    <3>2. pc' = "migrate" => req[i] = <<>>
      BY <1>2, <2>2
    <3> QED BY <1>4, <2>2, <3>1, <3>2, FreeInstance
  <2> QED BY <1>2, <2>1, <2>2
<1> QED BY <1>5, <1>6 DEF Kept, ProtocolInv

(* The manager goes on without asking.                                      *)
LEMMA QuietStep ==
    ASSUME ProtocolInv, AllFree, UNCHANGED <<rollout, main, statusVars, offset, req>>,
           Turns', pc' \notin Waiting
    PROVE  Kept
<1>1. InstanceTypes /\ Turns
  BY DEF ProtocolInv
<1>2. \A i \in Instances : i \in Int /\ offset \in Int
  BY <1>1, PlacesType
<1>3. InstanceTypes'
  BY <1>1, LeftAlone DEF InstanceTypes, AllFree
<1>4. Waited' = {} /\ pc' # "migrate"
  BY DEF Waited, Waiting
<1>5. ASSUME NEW i \in Instances
      PROVE  InstanceOk(i)' /\ Carried(i)' = Carried(i)
  <2>1. CASE i <= offset
    <3>1. Closed(i) /\ cut[i] = 0 /\ aborted[i] = 0 /\ resp'[i] = <<>> /\ req'[i] = req[i]
      BY <2>1 DEF AllFree
    <3> QED BY <2>1, <3>1, ClosedInstance DEF Closed
  <2>2. CASE i > offset
    <3>1. Free(i) /\ resp'[i] = <<>> /\ req'[i] = req[i]
      BY <1>2, <2>2 DEF AllFree
    <3> QED BY <1>4, <2>2, <3>1, FreeInstance
  <2> QED BY <1>2, <2>1, <2>2
<1> QED BY <1>3, <1>5 DEF Kept, ProtocolInv

(* The pre-process asks every instance, or is skipped.                      *)
LEMMA PreProcessStep ==
    ASSUME ProtocolInv, PreProcess
    PROVE  Kept
<1>1. /\ pc = "begin"
      /\ UNCHANGED <<offset, load, leaving, rollout, main, statusVars, resp>>
  BY DEF PreProcess
<1>2. AllFree /\ Turns /\ leaving = 0
  BY <1>1, FreeBefore DEF ProtocolInv, Turns, Waiting
<1>3. CASE Scatter(Alive, Request("Report")) /\ pc' = "pre_process"
  <2>1. Turns'
    BY <1>1, <1>2, <1>3 DEF Turns
  <2>2. Waited' = Alive /\ "Report" \in Wanted'
    BY <1>1, <1>3 DEF Waited, Wanted, Alive
  <2> QED BY <1>1, <1>2, <1>3, <2>1, <2>2, AskStep
<1>4. CASE pc' = "components" /\ UNCHANGED req
  <2>1. Turns'
    BY <1>1, <1>2, <1>4 DEF Turns
  <2> QED BY <1>1, <1>2, <1>4, <2>1, QuietStep DEF Waiting
<1> QED BY <1>3, <1>4 DEF PreProcess

(* migrate_out: k instances, not all, are asked for their groups.           *)
LEMMA MigrateOutStep ==
    ASSUME ProtocolInv, pc \in {"pre_process", "report"}, Gather(Alive),
           UNCHANGED <<offset, rollout, main, statusVars>>,
           NEW k \in 0 .. AliveNum - 1, MigrateOut(k)
    PROVE  Kept
<1>1. /\ leaving' = k /\ pc' = "migrate" /\ offset' = offset
      /\ load' = [j \in 1 .. AliveNum |-> Head(resp[offset + j]).groups]
      /\ Scatter(offset + 1 .. offset + k, Request("Migrate_Out"))
  BY DEF MigrateOut
<1>2. AllFree /\ Turns /\ \A i \in Alive : req[i] = <<>>
  BY FreeBefore DEF ProtocolInv, Waiting
<1>3. Waited = Alive
  BY DEF Waited
<1>4. AliveNum \in Nat /\ offset \in Int /\ offset + AliveNum = NumInstances
  BY <1>2, PlacesType
<1>5. load' \in Seq(Nat) /\ Len(load') = AliveNum
  <2>1. ASSUME NEW j \in 1 .. AliveNum
        PROVE  Head(resp[offset + j]).groups \in Nat
    <3>1. offset + j \in Alive
      BY <1>4 DEF Alive
    <3>2. Head(resp[offset + j]) \in Responses
      BY <1>3, <3>1, GatheredAnswers
    <3> QED BY <3>2 DEF Responses
  <2> QED BY <1>1, <1>4, <2>1
<1>6. Turns' /\ AliveNum' = AliveNum
  <2>1. AliveNum' = AliveNum
    BY <1>1 DEF AliveNum
  <2> QED BY <1>1, <1>2, <1>5, <2>1 DEF Turns
<1>7. Waited' = offset + 1 .. offset + k /\ "Migrate_Out" \in Wanted'
  BY <1>1 DEF Waited, Wanted, Closing
<1> QED BY <1>1, <1>2, <1>6, <1>7, AskStep

(* finish: all that are left.                                               *)
LEMMA FinishAllStep ==
    ASSUME ProtocolInv, AllFree, UNCHANGED <<offset, load, rollout, main, statusVars>>,
           NEW a \in {"Finish", "Wait_For_Finish"}, FinishAll(a)
    PROVE  Kept
<1>1. leaving' = AliveNum /\ pc' = "finish" /\ offset' = offset /\ Scatter(Alive, Request(a))
  BY DEF FinishAll
<1>2. Turns
  BY DEF ProtocolInv
<1>3. AliveNum \in Nat /\ offset \in Int /\ offset + AliveNum = NumInstances
  BY <1>2, PlacesType
<1>4. Turns'
  <2>1. AliveNum' = AliveNum
    BY <1>1 DEF AliveNum
  <2> QED BY <1>1, <1>2, <1>3, <2>1 DEF Turns
<1>5. Waited' = Alive /\ a \in Wanted'
  BY <1>1, <1>3 DEF Waited, Wanted, Closing, Alive
<1> QED BY <1>1, <1>4, <1>5, AskStep

(* Its reports are all in: it asks again or migrates out of the first       *)
(* instances.                                                               *)
LEMMA PreProcessReportsStep ==
    ASSUME ProtocolInv, Books, PreProcessReports
    PROVE  Kept
<1>1. /\ pc = "pre_process" /\ Gather(Alive)
      /\ UNCHANGED <<offset, rollout, main, statusVars>>
  BY DEF PreProcessReports
<1>2. AllFree /\ Turns /\ leaving = 0
  BY <1>1, FreeBefore DEF ProtocolInv, Turns
<1>3. CASE MigrateOut(PreInstances)
  <2>1. iter = -1 /\ offset = 0 /\ UsePreProcess
    BY <1>1 DEF Books, BooksPre, BooksMain
  <2>2. /\ PreInstances < NumInstances /\ NumInstances \in Nat
        /\ ActorGpus \in Nat /\ RolloutParallel \in Nat \ {0}
    BY <2>1, PolicyAssumption, PlacementAssumption
  <2>3. PreInstances \in Nat
    BY <2>2 DEF PreInstances
  <2>4. PreInstances \in 0 .. AliveNum - 1
    BY <2>1, <2>2, <2>3 DEF AliveNum
  <2> QED BY <1>1, <1>3, <2>4, MigrateOutStep
<1>4. CASE Scatter(Alive, Request("Report")) /\ UNCHANGED <<pc, load, leaving>>
  <2>1. Turns'
    BY <1>1, <1>2, <1>4 DEF Turns
  <2>2. Waited' = Alive /\ "Report" \in Wanted'
    BY <1>1, <1>4 DEF Waited, Wanted, Alive
  <2> QED BY <1>1, <1>2, <1>4, <2>1, <2>2, AskStep
<1> QED BY <1>3, <1>4 DEF PreProcessReports

(* The start of inference and actor asks no instance.                       *)
LEMMA StartComponentsStep ==
    ASSUME ProtocolInv, StartComponents
    PROVE  Kept
<1>1. /\ pc = "components" /\ pc' = "await_actor"
      /\ UNCHANGED <<offset, load, leaving, rollout, main, statusVars, req, resp>>
  BY DEF StartComponents, instanceVars
<1>2. AllFree /\ Turns'
  BY <1>1, FreeBefore DEF ProtocolInv, Turns, Waiting
<1> QED BY <1>1, <1>2, QuietStep DEF Waiting

(* The manager, asked by the actor, asks the instances or skips them.       *)
LEMMA AwaitActorStep ==
    ASSUME ProtocolInv, AwaitActor
    PROVE  Kept
<1>1. /\ pc = "await_actor"
      /\ UNCHANGED <<offset, load, rollout, main, statusVars, resp>>
  BY DEF AwaitActor
<1>2. AllFree /\ Turns /\ leaving = 0
  BY <1>1, FreeBefore DEF ProtocolInv, Turns, Waiting
<1>3. CASE pc' = "inference" /\ UNCHANGED <<leaving, req>>
  <2>1. Turns'
    BY <1>1, <1>2, <1>3 DEF Turns
  <2> QED BY <1>1, <1>2, <1>3, <2>1, QuietStep DEF Waiting
<1>4. CASE FinishAll("Finish")
  BY <1>1, <1>2, <1>4, FinishAllStep
<1>5. CASE Scatter(Alive, Request("Report")) /\ pc' = "report" /\ UNCHANGED leaving
  <2>1. Turns'
    BY <1>1, <1>2, <1>5 DEF Turns
  <2>2. Waited' = Alive /\ "Report" \in Wanted'
    BY <1>1, <1>5 DEF Waited, Wanted, Alive
  <2> QED BY <1>1, <1>2, <1>5, <2>1, <2>2, AskStep
<1> QED BY <1>3, <1>4, <1>5 DEF AwaitActor

(* A report tells a number of running groups.                               *)
LEMMA RunningTasksType ==
    ASSUME ProtocolInv, pc \in {"pre_process", "report"}, Gather(Alive)
    PROVE  RunningTasks \in Nat
<1> DEFINE f == [i \in Alive |-> Head(resp[i]).groups]
<1>1. Waited = Alive
  BY DEF Waited
<1>2. \A i \in Alive : f[i] \in Nat
  BY <1>1, GatheredAnswers DEF Responses
<1>3. IsFiniteSet(Alive)
  <2>1. NumInstances \in Nat /\ offset \in Nat
    BY PlacesType DEF ProtocolInv
  <2> QED BY <2>1, FS_Interval DEF Alive
<1>4. DOMAIN f = Alive
  OBVIOUS
<1>5. RunningTasks = SumFunction(f)
  BY DEF RunningTasks
<1> HIDE DEF f
<1> QED BY <1>2, <1>3, <1>4, <1>5, SumIsNat, SumOnDomain

(* Every decision about the reports asks instances that are free.           *)
LEMMA ReleaseRolloutStep ==
    ASSUME ProtocolInv, Books, ReleaseRollout
    PROVE  Kept
<1> DEFINE k == MigratePolicy(AliveNum, RunningTasks, actorNum)
<1>1. /\ pc = "report" /\ Gather(Alive)
      /\ UNCHANGED <<offset, rollout, main, statusVars>>
  BY DEF ReleaseRollout
<1>2. AllFree /\ Turns /\ leaving = 0
  BY <1>1, FreeBefore DEF ProtocolInv, Turns
<1>3. \/ FinishAll("Finish") /\ UNCHANGED load
      \/ FinishAll("Wait_For_Finish") /\ UNCHANGED load
      \/ RunningTasks > 0 /\ k > 0 /\ MigrateOut(k)
      \/ pc' = "inference" /\ UNCHANGED <<load, leaving, req>>
  BY DEF ReleaseRollout
<1>4. CASE FinishAll("Finish") /\ UNCHANGED load
  BY <1>1, <1>2, <1>4, FinishAllStep
<1>5. CASE FinishAll("Wait_For_Finish") /\ UNCHANGED load
  BY <1>1, <1>2, <1>5, FinishAllStep
<1>6. CASE RunningTasks > 0 /\ k > 0 /\ MigrateOut(k)
  <2>1. RunningTasks \in Nat \ {0}
    BY <1>1, <1>6, RunningTasksType
  <2>2. AliveNum \in Nat
    BY <1>2, PlacesType
  <2>3. actorNum \in ValidDpSizes
    BY DEF Books, BooksTypes
  <2>4. k \in Nat /\ k < AliveNum
    BY <1>6, <2>1, <2>2, <2>3, PolicyLeavesOne
  <2> HIDE DEF k
  <2>5. k \in 0 .. AliveNum - 1
    BY <2>2, <2>4
  <2> QED BY <1>1, <1>6, <2>5, MigrateOutStep
<1>7. CASE pc' = "inference" /\ UNCHANGED <<load, leaving, req>>
  <2>1. Turns'
    BY <1>1, <1>2, <1>7 DEF Turns
  <2> QED BY <1>1, <1>2, <1>7, <2>1, QuietStep DEF Waiting
<1> QED BY <1>3, <1>4, <1>5, <1>6, <1>7

(* The instances that answered Finish are closed.                           *)
LEMMA FinishedStep ==
    ASSUME ProtocolInv, Finished
    PROVE  Kept
<1>1. /\ pc = "finish" /\ Gather(Closing) /\ offset' = offset + leaving /\ leaving' = 0
      /\ pc' \in {"components", "inference"}
      /\ UNCHANGED <<load, rollout, main, statusVars, req>>
  BY DEF Finished
<1>2. InstanceTypes /\ Turns /\ \A i \in Instances : InstanceOk(i)
  BY DEF ProtocolInv
<1>3. /\ NumInstances \in Nat /\ offset \in Nat /\ leaving \in 0 .. NumInstances - offset
      /\ \A i \in Instances : i \in Int
  BY <1>1, <1>2, PlacesType DEF Turns, AliveNum
<1>4. Turns'
  BY <1>1, <1>2, <1>3 DEF Turns
<1>5. Waited = Closing
  BY <1>1 DEF Waited
<1>6. /\ resp' \in [Instances -> Seq(Responses)]
      /\ \A i \in Instances : resp'[i] = <<>>
      /\ \A i \in Waited : Answered(i)
  BY <1>1, <1>5, GatheredAnswers
<1>7. InstanceTypes'
  BY <1>1, <1>2, <1>6, LeftAlone DEF InstanceTypes
<1>8. ASSUME NEW i \in Instances
      PROVE  InstanceOk(i)' /\ Carried(i)' = Carried(i)
  <2>1. cut[i] = 0
    BY <1>1, <1>2 DEF InstanceTypes, InstanceOk, Whole, Draining
  <2>2. CASE i <= offset'
    <3>1. /\ req[i] = <<>> /\ main[i] = "serving" /\ rollout[i] = "exited" /\ ~event[i]
      <4>1. CASE i <= offset
        BY <1>2, <1>3, <4>1 DEF InstanceOk, Stage, Closed
      <4>2. CASE i > offset
        <5>1. i \in Closing
          BY <1>1, <1>3, <2>2, <4>2 DEF Closing
        <5> QED BY <1>1, <1>5, <1>6, <5>1 DEF Answered
      <4> QED BY <1>3, <4>1, <4>2
    <3>2. aborted[i] = 0
      BY <1>1, <1>2, <3>1 DEF InstanceTypes, InstanceOk, Whole
    <3> QED BY <1>1, <1>6, <2>1, <2>2, <3>1, <3>2, ClosedInstance
  <2>3. CASE i > offset'
    <3>1. i > offset /\ i \notin Waited
      BY <1>1, <1>3, <1>5, <2>3 DEF Closing
    <3>2. Unasked(i)
      BY <1>2, <1>3, <3>1 DEF InstanceOk, Stage
    <3>3. aborted[i] = 0
      BY <1>1, <1>2, <3>1 DEF InstanceTypes, InstanceOk, Whole
    <3>4. Free(i)
      BY <1>2, <2>1, <3>2, <3>3 DEF Free, Unasked, InstanceOk, Whole
    <3>5. Waited' = {} /\ pc' # "migrate"
      BY <1>1 DEF Waited
    <3> QED BY <1>1, <1>6, <2>3, <3>4, <3>5, FreeInstance
  <2> QED BY <1>1, <1>3, <2>2, <2>3
<1> QED BY <1>4, <1>7, <1>8 DEF Kept, ProtocolInv

(* Inference and actor are scaled without asking an instance.               *)
LEMMA LaterStep ==
    ASSUME ProtocolInv, ReleaseInference \/ AllocateActor \/ ShrinkActor
    PROVE  Kept
<1>1. /\ pc \in {"inference", "actor"} /\ pc' \in {"actor", "await_actor", "end"}
      /\ UNCHANGED <<offset, load, leaving, rollout, main, statusVars, req, resp>>
  BY DEF ReleaseInference, AllocateActor, ShrinkActor, instanceVars
<1>2. AllFree /\ Turns'
  BY <1>1, FreeBefore DEF ProtocolInv, Turns, Waiting
<1> QED BY <1>1, <1>2, QuietStep DEF Waiting

(* All the groups that instances have or are sent.                          *)
Total == SumFunctionOnSet([i \in Instances |-> Carried(i)], Instances)

(* migrate_in: what the closing instances gave away is dealt out to those   *)
(* that stay, all of it.                                                    *)
Dealt == Assigned(SumFunction([i \in Closing |-> Head(resp[i]).groups]),
                  SubSeq(load, leaving + 1, Len(load)),
                  SumFunction(load) \div Len(SubSeq(load, leaving + 1, Len(load))))

(* What is dealt out is no negative number, and is all that was handed      *)
(* over.                                                                    *)
LEMMA DealtFacts ==
    ASSUME ProtocolInv, Migrate
    PROVE  /\ \A j \in 1 .. AliveNum - leaving : Dealt[j] \in Nat
           /\ \A G : (\A j \in 1 .. AliveNum - leaving : G[offset + leaving + j] = Dealt[j]) =>
                 SumFunctionOnSet(G, offset + leaving + 1 .. NumInstances)
                     = SumFunctionOnSet([i \in Closing |-> aborted[i]], Closing)
<1> DEFINE e == [i \in Closing |-> Head(resp[i]).groups]
           a == [i \in Closing |-> aborted[i]]
           n == SumFunction(e)
           staying == SubSeq(load, leaving + 1, Len(load))
           expected == SumFunction(load) \div Len(staying)
           c == offset + leaving
<1>1. pc = "migrate" /\ Gather(Closing)
  BY DEF Migrate
<1>2. /\ Turns /\ load \in Seq(Nat) /\ leaving \in 0 .. AliveNum - 1 /\ Len(load) = AliveNum
  BY <1>1 DEF ProtocolInv, Turns
<1>3. /\ NumInstances \in Nat /\ offset \in Nat /\ AliveNum \in Nat
      /\ offset + AliveNum = NumInstances
  BY <1>2, PlacesType
<1>4. Waited = Closing /\ Closing \subseteq Instances
  BY <1>1, <1>2, PlacesType DEF Waited
<1>5. IsFiniteSet(Closing)
  BY <1>2, <1>3, FS_Interval DEF Closing
<1>6. \A i \in Closing : e[i] = a[i] /\ e[i] \in Nat
  BY <1>1, <1>4, GatheredAnswers DEF Responses
<1>7. /\ n = SumFunctionOnSet(e, Closing)
      /\ n = SumFunctionOnSet(a, Closing)
      /\ n \in Nat
  <2>1. DOMAIN e = Closing
    OBVIOUS
  <2> HIDE DEF e, a
  <2>2. n = SumFunctionOnSet(e, Closing)
    BY <2>1, SumOnDomain
  <2>3. SumFunctionOnSet(e, Closing) = SumFunctionOnSet(a, Closing)
    BY <1>5, <1>6, SumSame
  <2>4. SumFunctionOnSet(e, Closing) \in Nat
    BY <1>5, <1>6, SumIsNat
  <2> QED BY <2>2, <2>3, <2>4
<1>8. staying \in Seq(Nat) /\ Len(staying) = AliveNum - leaving /\ Len(staying) > 0
  BY <1>2, <1>3
<1>9. expected \in Int
  <2>1. DOMAIN load = 1 .. AliveNum /\ \A j \in 1 .. AliveNum : load[j] \in Nat
    BY <1>2
  <2>2. SumFunction(load) \in Nat
    BY <2>1, <1>3, FS_Interval, SumIsNat, SumOnDomain
  <2>3. Len(staying) \in Nat \ {0}
    BY <1>2, <1>3, <1>8
  <2> HIDE DEF staying
  <2> QED BY <2>2, <2>3
<1>10. Dealt = Assigned(n, staying, expected)
  BY DEF Dealt
<1> HIDE DEF n, staying, expected, e, a
<1>11. DOMAIN Assigned(n, staying, expected) = 1 .. AliveNum - leaving
  BY <1>2, <1>3, <1>8 DEF Assigned
<1>12. \A j \in 1 .. AliveNum - leaving : Dealt[j] \in Nat
  <2>1. SpreadFrom(Assigned(n, staying, expected), 0, Assigned(n, staying, expected))
    BY <1>2, <1>3, <1>11 DEF SpreadFrom
  <2> QED BY <1>7, <1>8, <1>9, <1>10, <2>1, AllAreDealtOut
<1>13. ASSUME NEW G, \A j \in 1 .. AliveNum - leaving : G[c + j] = Dealt[j]
       PROVE  SumFunctionOnSet(G, c + 1 .. NumInstances) = SumFunctionOnSet(a, Closing)
  <2>1. SpreadFrom(G, c, Assigned(n, staying, expected))
    BY <1>10, <1>11, <1>13 DEF SpreadFrom
  <2>2. c \in Int
    BY <1>2, <1>3
  <2> HIDE DEF c
  <2>3. SumFunctionOnSet(G, c + 1 .. c + Len(staying)) = n
    BY <1>7, <1>8, <1>9, <2>1, <2>2, AllAreDealtOut, SMTT(30)
  <2>4. c + Len(staying) = NumInstances
    BY <1>2, <1>3, <1>8 DEF c
  <2> QED BY <1>7, <2>3, <2>4, Zenon
<1> QED BY <1>12, <1>13 DEF a

(* What instance i has more of afterwards, and what less.                   *)
Given(i) == IF i > offset + leaving THEN Dealt[i - offset - leaving] ELSE 0
GivenUp(i) == IF i \in Closing THEN aborted[i] ELSE 0

(* What migrating does to one instance: it is told to end, or given groups, *)
(* or left alone.                                                           *)
LEMMA MigrateInstance ==
    ASSUME ProtocolInv, Migrate, NEW i \in Instances
    PROVE  /\ InstanceOk(i)'
           /\ req'[i] \in Seq(Requests)
           /\ Given(i) \in Nat /\ GivenUp(i) \in Nat
           /\ Carried(i) \in Nat /\ Carried(i)' \in Nat
           /\ Carried(i)' + GivenUp(i) = Carried(i) + Given(i)
<1>1. /\ pc = "migrate" /\ Gather(Closing) /\ pc' = "finish"
      /\ UNCHANGED <<offset, leaving, rollout, main, statusVars>>
      /\ req' = [j \in Instances |->
              IF j \in Closing THEN Append(req[j], Request("Finish"))
              ELSE IF j > offset + leaving /\ Dealt[j - offset - leaving] > 0
              THEN Append(req[j], MigrateIn(Dealt[j - offset - leaving]))
              ELSE req[j]]
  BY DEF Migrate, Dealt
<1>2. /\ InstanceTypes /\ Turns /\ InstanceOk(i) /\ leaving \in 0 .. AliveNum - 1
  BY <1>1 DEF ProtocolInv, Turns
<1>3. /\ NumInstances \in Nat /\ offset \in Nat /\ AliveNum \in Nat
      /\ offset + AliveNum = NumInstances
      /\ i \in Int /\ i <= NumInstances
      /\ i \in Closing <=> i > offset /\ i <= offset + leaving
      /\ Waited = Closing /\ Waited' = Closing
      /\ \A j \in Closing : j > offset
  BY <1>1, <1>2, PlacesType DEF Waited, Closing
<1>4. resp'[i] = <<>> /\ (i \in Waited => Answered(i))
  BY <1>1, <1>3, GatheredAnswers
<1>5. /\ rollout'[i] = rollout[i] /\ main'[i] = main[i] /\ generating'[i] = generating[i]
      /\ cut'[i] = cut[i] /\ aborted'[i] = aborted[i] /\ event'[i] = event[i]
      /\ offset' = offset
      /\ Running(i)' = Running(i) /\ NotTold(i)' = NotTold(i)
  BY <1>1, LeftAlone
<1>6. generating[i] \in Nat /\ cut[i] \in Nat /\ aborted[i] \in Nat /\ req[i] \in Seq(Requests)
  BY <1>2 DEF InstanceTypes
<1>7. cut[i] = 0
  BY <1>2, <1>3, <1>4, <1>6 DEF InstanceOk, Stage, Whole, Closed, Unasked, Draining, Answered
<1>8. GroupsIn(<<>>) = 0
  BY EarlyFacts DEF IsEarly
<1>9. req[i] = <<>>
  BY <1>1, <1>2, <1>3, <1>4 DEF InstanceOk, Stage, Closed, Answered
<1>10. CASE i \in Closing
  <2>1. req'[i] = <<Request("Finish")>>
    <3>1. req'[i] = Append(req[i], Request("Finish"))
      BY <1>1, <1>10
    <3>2. Append(<<>>, Request("Finish")) = <<Request("Finish")>>
      OBVIOUS
    <3> QED BY <1>9, <3>1, <3>2
  <2>2. Answered(i) /\ NotTold(i) /\ main[i] = "serving"
    BY <1>1, <1>3, <1>4, <1>10 DEF Answered
  <2>3. "Finish" \in Wanted'
    BY <1>1 DEF Wanted
  <2>4. IsLate(<<Request("Finish")>>, Wanted') /\ GroupsIn(<<Request("Finish")>>) = 0
    <3>1. IsLate(Append(<<>>, Request("Finish")), Wanted')
          /\ GroupsIn(Append(<<>>, Request("Finish"))) = 0
      BY <1>8, <2>3, AppendedFacts DEF IsEarly
    <3>2. Append(<<>>, Request("Finish")) = <<Request("Finish")>>
      OBVIOUS
    <3> QED BY <3>1, <3>2, Zenon
  <2>5. Pending(i)' /\ GroupsIn(req[i])' = 0
    <3>1. IsLate(req[i], Wanted)' /\ GroupsIn(req[i])' = 0
      BY <2>1, <2>4, Zenon
    <3> QED BY <1>4, <1>5, <2>2, <3>1 DEF Pending
  <2>6. Stage(i)'
    BY <1>3, <1>5, <1>10, <2>5 DEF Stage
  <2>7. Whole(i)'
    BY <1>1, <1>2, <1>3, <1>5, <1>7, <1>10, <2>2 DEF InstanceOk, Whole, NotTold
  <2>8. Given(i) = 0 /\ GivenUp(i) = aborted[i]
    BY <1>2, <1>3, <1>10 DEF Given, GivenUp
  <2>9. Carried(i) = generating[i] + cut[i] + aborted[i] /\ Carried(i)' = generating[i] + cut[i]
    BY <1>1, <1>5, <1>6, <1>8, <1>9, <2>5 DEF Carried
  <2>10. req'[i] \in Seq(Requests)
    <3>1. Request("Finish") \in Requests
      BY DEF Request, Requests
    <3> QED BY <2>1, <3>1
  <2> QED BY <1>6, <2>6, <2>7, <2>8, <2>9, <2>10 DEF InstanceOk
<1>11. CASE i \notin Closing /\ i > offset
  <2> DEFINE d == Dealt[i - offset - leaving]
  <2>1. i > offset + leaving
    BY <1>2, <1>3, <1>11
  <2>2. d \in Nat
    <3>1. i - offset - leaving \in 1 .. AliveNum - leaving
      BY <1>2, <1>3, <2>1
    <3> QED BY <3>1, DealtFacts
  <2>3. IF d > 0 THEN req'[i] = <<MigrateIn(d)>> ELSE req'[i] = <<>>
    <3>1. req'[i] = IF d > 0 THEN Append(req[i], MigrateIn(d)) ELSE req[i]
      BY <1>1, <1>11, <2>1
    <3> HIDE DEF d
    <3>2. Append(<<>>, MigrateIn(d)) = <<MigrateIn(d)>>
      OBVIOUS
    <3> QED BY <1>9, <3>1, <3>2
  <2>4. Given(i) = d /\ GivenUp(i) = 0
    BY <1>11, <2>1 DEF Given, GivenUp
  <2> HIDE DEF d
  <2>5. Unasked(i) /\ aborted[i] = 0
    BY <1>2, <1>3, <1>6, <1>11 DEF InstanceOk, Stage, Whole
  <2>6. IsEarly(req'[i]) /\ GroupsIn(req'[i]) = d /\ req'[i] \in Seq(Requests)
    <3>1. CASE d > 0
      <4>1. IsEarly(<<MigrateIn(d)>>)
        BY <2>2, <3>1 DEF IsEarly
      <4>2. <<MigrateIn(d)>> # <<>> /\ Head(<<MigrateIn(d)>>).groups = d
        BY DEF MigrateIn
      <4>3. MigrateIn(d) \in Requests
        BY <2>2 DEF MigrateIn, Requests
      <4>4. GroupsIn(<<MigrateIn(d)>>) = d
        BY <4>1, <4>2, EarlyFacts
      <4>5. <<MigrateIn(d)>> \in Seq(Requests)
        BY <4>3
      <4>6. req'[i] = <<MigrateIn(d)>>
        BY <2>3, <3>1
      <4> QED BY <4>1, <4>4, <4>5, <4>6, Zenon
    <3>2. CASE d = 0
      <4>1. req'[i] = <<>> /\ IsEarly(<<>>) /\ <<>> \in Seq(Requests)
        BY <2>3, <3>2 DEF IsEarly
      <4> QED BY <1>8, <3>2, <4>1, Zenon
    <3> QED BY <2>2, <3>1, <3>2
  <2>7. Unasked(i)' /\ GroupsIn(req[i])' = d
    <3>1. IsEarly(req[i])' /\ GroupsIn(req[i])' = d
      BY <2>6
    <3> QED BY <1>4, <1>5, <2>5, <3>1 DEF Unasked
  <2>8. Stage(i)'
    BY <1>1, <1>3, <1>5, <1>11, <2>7 DEF Stage
  <2>9. Whole(i)'
    BY <1>2, <1>5, <1>7, <2>5 DEF InstanceOk, Whole
  <2>10. Carried(i) = generating[i] + cut[i] + 0 /\ Carried(i)' = generating[i] + cut[i] + d
    BY <1>1, <1>5, <1>6, <1>8, <1>9, <2>5, <2>7 DEF Carried
  <2> QED BY <1>6, <2>2, <2>4, <2>6, <2>8, <2>9, <2>10, SMTT(30) DEF InstanceOk
<1>12. CASE i <= offset
  <2>1. i \notin Closing /\ ~ (i > offset + leaving)
    BY <1>2, <1>3, <1>12
  <2>2. req'[i] = <<>>
    BY <1>1, <1>9, <2>1
  <2>3. Closed(i) /\ aborted[i] = 0
    BY <1>2, <1>3, <1>6, <1>12, <2>1 DEF InstanceOk, Stage, Whole
  <2>4. Closed(i)'
    BY <1>4, <1>5, <2>2, <2>3 DEF Closed
  <2>5. Stage(i)' /\ Whole(i)'
    BY <1>5, <1>7, <1>12, <2>3, <2>4 DEF Stage, Whole, Closed
  <2>6. Given(i) = 0 /\ GivenUp(i) = 0
    BY <2>1 DEF Given, GivenUp
  <2>7. Carried(i) = generating[i] + cut[i] + 0 /\ Carried(i)' = generating[i] + cut[i] + 0
    <3>1. GroupsIn(req[i]) = 0 /\ GroupsIn(req'[i]) = 0
      BY <1>8, <1>9, <2>2, Zenon
    <3> QED BY <1>1, <1>5, <1>6, <2>3, <3>1 DEF Carried
  <2> QED BY <1>6, <2>2, <2>5, <2>6, <2>7 DEF InstanceOk
<1> QED BY <1>3, <1>10, <1>11, <1>12

(* What the closing instances carried is carried by the others.             *)
LEMMA MigrateStep ==
    ASSUME ProtocolInv, Migrate
    PROVE  ProtocolInv' /\ Total' = Total
<1>1. /\ pc = "migrate" /\ Gather(Closing) /\ pc' = "finish" /\ load' = <<>>
      /\ UNCHANGED <<offset, leaving, rollout, main, statusVars>>
  BY DEF Migrate
<1>2. /\ InstanceTypes /\ Turns /\ leaving \in 0 .. AliveNum - 1
  BY <1>1 DEF ProtocolInv, Turns
<1>3. /\ NumInstances \in Nat /\ offset \in Nat /\ AliveNum \in Nat
      /\ offset + AliveNum = NumInstances
      /\ Waited = Closing
      /\ \A i \in Instances : i \in Int /\ i <= NumInstances
  BY <1>1, <1>2, PlacesType DEF Waited
<1>4. Turns'
  <2>1. AliveNum' = AliveNum
    BY <1>1 DEF AliveNum
  <2> QED BY <1>1, <1>2, <1>3, <2>1 DEF Turns
<1>5. InstanceTypes'
  <2>1. resp' \in [Instances -> Seq(Responses)]
    BY <1>1, <1>3, GatheredAnswers
  <2>2. \A i \in Instances : req'[i] \in Seq(Requests)
    BY MigrateInstance
  <2>3. req' = [i \in Instances |-> req'[i]]
    BY DEF Migrate
  <2>4. req' \in [Instances -> Seq(Requests)]
    BY <2>2, <2>3
  <2> QED BY <1>1, <1>2, <2>1, <2>4, LeftAlone DEF InstanceTypes
<1>6. ProtocolInv'
  BY <1>4, <1>5, MigrateInstance DEF ProtocolInv
<1> DEFINE S == Instances
           before == [i \in Instances |-> Carried(i)]
           after == [i \in Instances |-> Carried(i)']
           up == [i \in Instances |-> GivenUp(i)]
           more == [i \in Instances |-> Given(i)]
           all == [i \in Instances |-> Carried(i) + Given(i)]
           closing == [i \in Closing |-> aborted[i]]
           later == offset + leaving + 1 .. NumInstances
<1>7. IsFiniteSet(S) /\ Closing \in SUBSET S /\ later \in SUBSET S /\ IsFiniteSet(Closing)
  BY <1>2, <1>3, FS_Interval DEF Closing, Instances
<1>8. \A i \in S : /\ before[i] \in Nat /\ after[i] \in Nat /\ up[i] \in Nat /\ more[i] \in Nat
                   /\ all[i] = after[i] + up[i] /\ all[i] = before[i] + more[i]
  BY MigrateInstance
<1>9. /\ \A i \in S \ Closing : up[i] = 0
      /\ \A i \in S \ later : more[i] = 0
      /\ \A i \in Closing : up[i] = closing[i]
  BY <1>2, <1>3, <1>7 DEF GivenUp, Given
<1>10. \A j \in 1 .. AliveNum - leaving : more[offset + leaving + j] = Dealt[j]
  <2> SUFFICES ASSUME NEW j \in 1 .. AliveNum - leaving
               PROVE  more[offset + leaving + j] = Dealt[j]
    OBVIOUS
  <2>1. /\ offset + leaving + j \in Instances /\ offset + leaving + j > offset + leaving
        /\ (offset + leaving + j) - offset - leaving = j
    BY <1>2, <1>3 DEF Instances
  <2> QED BY <2>1 DEF Given
<1>11. Total = SumFunctionOnSet(before, S) /\ Total' = SumFunctionOnSet(after, S)
  BY DEF Total
<1> HIDE DEF S, before, after, up, more, all, closing, later
<1>12. /\ SumFunctionOnSet(all, S) = SumFunctionOnSet(after, S) + SumFunctionOnSet(up, S)
       /\ SumFunctionOnSet(all, S) = SumFunctionOnSet(before, S) + SumFunctionOnSet(more, S)
  <2>1. \A i \in S : after[i] \in Int /\ up[i] \in Int /\ all[i] = after[i] + up[i]
    BY <1>8
  <2>2. \A i \in S : before[i] \in Int /\ more[i] \in Int /\ all[i] = before[i] + more[i]
    BY <1>8
  <2> QED BY <1>7, <2>1, <2>2, SumOfBoth
<1>13. SumFunctionOnSet(up, S) = SumFunctionOnSet(closing, Closing)
  <2>1. \A i \in S : up[i] \in Int
    BY <1>8
  <2>2. SumFunctionOnSet(up, S) = SumFunctionOnSet(up, Closing)
    BY <1>7, <1>9, <2>1, SumOfPart
  <2>3. SumFunctionOnSet(up, Closing) = SumFunctionOnSet(closing, Closing)
    BY <1>7, <1>9, SumSame
  <2> QED BY <2>2, <2>3
<1>14. SumFunctionOnSet(more, S) = SumFunctionOnSet(closing, Closing)
  <2>1. \A i \in S : more[i] \in Int
    BY <1>8
  <2>2. SumFunctionOnSet(more, S) = SumFunctionOnSet(more, later)
    BY <1>7, <1>9, <2>1, SumOfPart
  <2>3. SumFunctionOnSet(more, later) = SumFunctionOnSet(closing, Closing)
    BY <1>10, DealtFacts DEF later, closing
  <2> QED BY <2>2, <2>3
<1>15. /\ SumFunctionOnSet(before, S) \in Int /\ SumFunctionOnSet(after, S) \in Int
       /\ SumFunctionOnSet(more, S) \in Int
  <2>1. \A i \in S : before[i] \in Nat /\ after[i] \in Nat /\ more[i] \in Nat
    BY <1>8
  <2> QED BY <1>7, <2>1, SumIsNat
<1>16. Total' = Total
  <2>1. SumFunctionOnSet(after, S) = SumFunctionOnSet(before, S)
    <3> DEFINE p == SumFunctionOnSet(after, S)
               q == SumFunctionOnSet(before, S)
               u == SumFunctionOnSet(up, S)
               d == SumFunctionOnSet(more, S)
    <3>1. p + u = q + d /\ u = d /\ p \in Int /\ q \in Int /\ d \in Int
      BY <1>12, <1>13, <1>14, <1>15, Zenon
    <3> HIDE DEF p, q, u, d
    <3>2. p = q
      BY <3>1
    <3> QED BY <3>2 DEF p, q
  <2> QED BY <1>11, <2>1, Zenon
<1> QED BY <1>6, <1>16

-----------------------------------------------------------------------------
(* The protocol and the groups *)

Started == {i \in Instances : rollout[i] # "idle"}

(* The groups of the first c requests the batch is split into.              *)
FirstGroups(c) ==
    c * (RolloutBatch \div NumInstances)
    + (IF c < RolloutBatch % NumInstances THEN c ELSE RolloutBatch % NumInstances)

Conserved ==
    /\ sent \in Nat
    /\ sent + Total = FirstGroups(Cardinality(Started))

(* The numbers by which the batch is split into requests.                   *)
LEMMA StartFacts ==
    /\ NumInstances \in Nat \ {0}
    /\ RolloutBatch % NumInstances \in 0 .. NumInstances - 1
    /\ RolloutBatch \div NumInstances \in Nat
    /\ FirstGroups(0) = 0
    /\ FirstGroups(NumInstances) = RolloutBatch
    /\ \A c \in Nat : FirstGroups(c) \in Nat
<1>1. RolloutBatch \in Nat /\ NumInstances \in Nat \ {0}
  BY PolicyAssumption, PlacementAssumption
<1>2. ASSUME NEW b \in Nat, NEW n \in Nat \ {0}
      PROVE  /\ b % n \in 0 .. n - 1 /\ b \div n \in Nat
             /\ n * (b \div n) + (b % n) = b
  <2>1. PICK q \in Int, r \in 0 .. n - 1 : q = b \div n /\ r = b % n /\ b = q * n + r
    OBVIOUS
  <2>2. q >= 0 /\ n * q = q * n
    BY <2>1
  <2>3. n * q + r = b /\ q \in Nat
    BY <2>1, <2>2
  <2> QED BY <2>1, <2>3, Zenon
<1> DEFINE q == RolloutBatch \div NumInstances
           r == RolloutBatch % NumInstances
<1>3. /\ r \in 0 .. NumInstances - 1 /\ q \in Nat /\ NumInstances * q + r = RolloutBatch
  BY <1>1, <1>2
<1>4. \A c : FirstGroups(c) = c * q + (IF c < r THEN c ELSE r)
  BY DEF FirstGroups
<1> HIDE DEF q, r
<1>5. FirstGroups(0) = 0
  BY <1>3, <1>4
<1>6. FirstGroups(NumInstances) = RolloutBatch
  BY <1>1, <1>3, <1>4
<1>7. ASSUME NEW c \in Nat PROVE FirstGroups(c) \in Nat
  <2>1. c * q \in Nat
    BY <1>3
  <2> QED BY <1>3, <1>4, <2>1
<1> QED BY <1>1, <1>3, <1>5, <1>6, <1>7 DEF q, r

(* With nothing anywhere, nothing is carried.                               *)
LEMMA NothingCarried ==
    ASSUME NEW f, f = [i \in Instances |-> 0]
    PROVE  SumFunctionOnSet(f, Instances) = 0
<1>1. IsFiniteSet(Instances) /\ \A i \in Instances : f[i] = 0 /\ f[i] \in Int
  <2>1. NumInstances \in Nat
    BY PlacementAssumption
  <2> QED BY <2>1, FS_Interval DEF Instances
<1>2. {} \in SUBSET Instances /\ \A i \in Instances \ {} : f[i] = 0
  BY <1>1
<1> HIDE DEF Instances
<1> QED BY <1>1, <1>2, SumOfPart, SumOfNone

(* A run starts with every instance unasked and no group anywhere.          *)
LEMMA ProtocolInit ==
    ASSUME Init
    PROVE  ProtocolInv /\ Conserved
<1>1. NumInstances \in Nat \ {0}
  BY PlacementAssumption
<1>2. ASSUME NEW i \in Instances
      PROVE  /\ rollout[i] = "idle" /\ main[i] = "serving" /\ ~event[i]
             /\ generating[i] = 0 /\ cut[i] = 0 /\ aborted[i] = 0
             /\ req[i] = <<>> /\ resp[i] = <<>> /\ i > offset /\ pc = "begin"
  BY <1>1, <1>2 DEF Init, Instances
<1>3. InstanceTypes
  BY DEF Init, InstanceTypes
<1>4. Turns
  BY <1>1 DEF Init, Turns
<1>5. ASSUME NEW i \in Instances
      PROVE  InstanceOk(i) /\ Carried(i) = 0
  <2>1. GroupsIn(req[i]) = 0
    BY <1>2, EarlyFacts DEF IsEarly
  <2>2. Carried(i) = 0
    BY <1>2, <2>1 DEF Carried
  <2>3. Stage(i)
    BY <1>2 DEF Stage, Unasked, NotTold, IsEarly, Waited
  <2>4. Whole(i)
    BY <1>2 DEF Whole
  <2> QED BY <2>2, <2>3, <2>4 DEF InstanceOk
<1>6. Total = 0
  <2>1. [i \in Instances |-> Carried(i)] = [i \in Instances |-> 0]
    BY <1>5
  <2> QED BY <2>1, NothingCarried DEF Total
<1>7. Started = {}
  BY <1>2 DEF Started
<1>8. Conserved
  BY <1>6, <1>7, StartFacts, FS_EmptySet DEF Conserved, Init
<1> QED BY <1>3, <1>4, <1>5, <1>8 DEF ProtocolInv

(* So does a global step.                                                   *)
LEMMA NextGlobalStepStep ==
    ASSUME NextGlobalStep
    PROVE  ProtocolInv' /\ Conserved'
<1>1. NumInstances \in Nat \ {0}
  BY PlacementAssumption
<1>2. ASSUME NEW i \in Instances
      PROVE  /\ rollout'[i] = "idle" /\ main'[i] = "serving" /\ ~event'[i]
             /\ generating'[i] = 0 /\ cut'[i] = 0 /\ aborted'[i] = 0
             /\ req'[i] = <<>> /\ resp'[i] = <<>> /\ i > offset' /\ pc' = "begin"
  BY <1>1, <1>2 DEF NextGlobalStep, Instances
<1>3. InstanceTypes'
  BY DEF NextGlobalStep, InstanceTypes
<1>4. Turns'
  BY <1>1 DEF NextGlobalStep, Turns
<1>5. ASSUME NEW i \in Instances
      PROVE  InstanceOk(i)' /\ Carried(i)' = 0
  <2>1. GroupsIn(req'[i]) = 0
    BY <1>2, EarlyFacts DEF IsEarly
  <2>2. Carried(i)' = 0
    BY <1>2, <2>1 DEF Carried
  <2>3. Stage(i)'
    BY <1>2 DEF Stage, Unasked, NotTold, IsEarly, Waited
  <2>4. Whole(i)'
    BY <1>2 DEF Whole
  <2> QED BY <2>2, <2>3, <2>4 DEF InstanceOk
<1>6. Total' = 0
  <2>1. [i \in Instances |-> Carried(i)'] = [i \in Instances |-> 0]
    BY <1>5
  <2> QED BY <2>1, NothingCarried DEF Total
<1>7. Started' = {}
  BY <1>2 DEF Started
<1>8. Conserved'
  BY <1>6, <1>7, StartFacts, FS_EmptySet DEF Conserved, NextGlobalStep
<1> QED BY <1>3, <1>4, <1>5, <1>8 DEF ProtocolInv

(* The steps of the instances: none but the start changes how many groups   *)
(* there are.                                                               *)
LEMMA InstanceSteps ==
    ASSUME ProtocolInv, sent \in Nat, NEW i \in Instances, RolloutStep(i) \/ MainLoopStep(i)
    PROVE  /\ sent' \in Nat
           /\ \/ StepOf(i, RequestSize) /\ i \notin Started /\ Started' = Started \cup {i}
              \/ StepOf(i, 0) /\ Started' = Started
<1>1. /\ rollout \in [Instances -> {"idle", "collecting", "sending", "waiting",
                                   "offloading", "exited"}]
  BY DEF ProtocolInv, InstanceTypes
<1>2. CASE StartRollout(i)
  BY <1>1, <1>2, StartRolloutStep DEF StartRollout, Started
<1>3. CASE SendResult(i)
  <2>1. Started' = Started
    BY <1>1, <1>3 DEF SendResult, Started
  <2>2. sent' \in Nat
    BY <1>3 DEF SendResult
  <2> QED BY <1>3, <2>1, <2>2, SendResultStep
<1>4. CASE MarkDone(i)
  BY <1>1, <1>4, MarkDoneStep DEF MarkDone, AfterMark, Started
<1>5. CASE MarkAborted(i)
  BY <1>1, <1>5, MarkAbortedStep DEF MarkAborted, AfterMark, Started
<1>6. CASE Continue(i)
  BY <1>1, <1>6, ContinueStep DEF Continue, Started
<1>7. CASE Leave(i)
  BY <1>1, <1>7, LeaveStep DEF Leave, Started
<1>8. CASE Offload(i)
  BY <1>1, <1>8, OffloadStep DEF Offload, Started
<1>9. CASE ServeReport(i)
  BY <1>9, ServeReportStep DEF ServeReport, Started
<1>10. CASE AbortGeneration(i)
  BY <1>10, AbortGenerationStep DEF AbortGeneration, Started
<1>11. CASE HandOver(i)
  BY <1>11, HandOverStep DEF HandOver, Started
<1>12. CASE ServeMigrateIn(i)
  BY <1>12, ServeMigrateInStep DEF ServeMigrateIn, Started
<1>13. CASE ServeFinish(i)
  BY <1>13, ServeFinishStep DEF ServeFinish, Started
<1> QED BY <1>2, <1>3, <1>4, <1>5, <1>6, <1>7, <1>8, <1>9, <1>10, <1>11, <1>12, <1>13
        DEF RolloutStep, MainLoopStep

(* What a step of one instance means for all.                               *)
LEMMA OneStep ==
    ASSUME ProtocolInv, sent \in Nat, sent' \in Nat, NEW i \in Instances,
           NEW received \in Nat, StepOf(i, received)
    PROVE  /\ ProtocolInv'
           /\ Total \in Nat
           /\ Total' = Total + received - (sent' - sent)
<1>1. /\ InstanceTypes' /\ InstanceOk(i)' /\ \A j \in Instances \ {i} : UNCHANGED instance(j)
      /\ Carried(i)' = Carried(i) + received - (sent' - sent)
      /\ UNCHANGED <<pc, offset, leaving, load>>
  BY DEF StepOf
<1>2. Turns'
  BY <1>1 DEF ProtocolInv, Turns, AliveNum
<1>3. ASSUME NEW j \in Instances \ {i}
      PROVE  InstanceOk(j)' /\ Carried(j)' = Carried(j)
  <2>1. InstanceOk(j) /\ UNCHANGED instance(j)
    BY <1>1 DEF ProtocolInv
  <2> QED BY <1>1, <2>1, InstanceFrame
<1>4. ProtocolInv'
  BY <1>1, <1>2, <1>3 DEF ProtocolInv
<1> DEFINE f == [j \in Instances |-> Carried(j)]
           e == [j \in Instances |-> Carried(j)']
<1>5. \A j \in Instances : Carried(j) \in Nat
  BY CarriedType
<1>6. /\ \A j \in Instances : f[j] \in Nat /\ e[j] \in Int
      /\ \A j \in Instances \ {i} : e[j] = f[j]
      /\ e[i] - f[i] = received - (sent' - sent)
  <2>1. Carried(i) \in Nat
    BY <1>5
  <2>2. Carried(i)' \in Int
    BY <1>1, <2>1
  <2> QED BY <1>1, <1>3, <1>5, <2>1, <2>2
<1>7. IsFiniteSet(Instances)
  <2>1. NumInstances \in Nat
    BY PlacementAssumption
  <2> QED BY <2>1, FS_Interval DEF Instances
<1>8. Total = SumFunctionOnSet(f, Instances) /\ Total' = SumFunctionOnSet(e, Instances)
  BY DEF Total
<1> HIDE DEF f, e
<1>9. SumFunctionOnSet(f, Instances) \in Nat
  BY <1>6, <1>7, SumIsNat
<1>10. SumFunctionOnSet(e, Instances) = SumFunctionOnSet(f, Instances) + (e[i] - f[i])
  BY <1>6, <1>7, SumUpdated
<1>11. Total' = Total + (received - (sent' - sent)) /\ Total \in Nat
  BY <1>6, <1>8, <1>9, <1>10, Zenon
<1> QED BY <1>4, <1>11

(* The steps of the manager move groups and change no number.               *)
LEMMA ManagerSteps ==
    ASSUME ProtocolInv, Books, Manager
    PROVE  ProtocolInv' /\ Total' = Total
<1>1. CASE Kept
  <2>1. [i \in Instances |-> Carried(i)'] = [i \in Instances |-> Carried(i)]
    BY <1>1 DEF Kept
  <2>2. Total' = Total
    BY <2>1 DEF Total
  <2> QED BY <1>1, <2>2 DEF Kept
<1>2. Kept \/ Migrate
  BY PreProcessStep, PreProcessReportsStep, StartComponentsStep, AwaitActorStep,
     ReleaseRolloutStep, FinishedStep, LaterStep DEF Manager
<1> QED BY <1>1, <1>2, MigrateStep

(* Every step keeps the conversations in order and the groups complete.     *)
LEMMA ProtocolNext ==
    ASSUME ProtocolInv, Conserved, Books, [Next]_vars
    PROVE  ProtocolInv' /\ Conserved'
<1>1. sent \in Nat /\ sent + Total = FirstGroups(Cardinality(Started))
  BY DEF Conserved
<1>2. CASE Manager
  <2>1. ProtocolInv' /\ Total' = Total
    BY <1>2, ManagerSteps
  <2>2. sent' = sent /\ rollout' = rollout
    BY <1>2 DEF Manager, PreProcess, PreProcessReports, StartComponents, AwaitActor,
       ReleaseRollout, Migrate, Finished, ReleaseInference, AllocateActor, ShrinkActor,
       instanceVars
  <2>3. Started' = Started
    BY <2>2 DEF Started
  <2> QED BY <1>1, <2>1, <2>2, <2>3 DEF Conserved
<1>3. ASSUME NEW i \in Instances, RolloutStep(i) \/ MainLoopStep(i)
      PROVE  ProtocolInv' /\ Conserved'
  <2>1. /\ sent' \in Nat
        /\ \/ StepOf(i, RequestSize) /\ i \notin Started /\ Started' = Started \cup {i}
           \/ StepOf(i, 0) /\ Started' = Started
    BY <1>1, <1>3, InstanceSteps
  <2>2. CASE StepOf(i, 0) /\ Started' = Started
    <3>1. /\ ProtocolInv' /\ Total \in Nat /\ Total' = Total + 0 - (sent' - sent)
      BY <1>1, <2>1, <2>2, OneStep
    <3> QED BY <1>1, <2>1, <2>2, <3>1 DEF Conserved
  <2>3. CASE StepOf(i, RequestSize) /\ i \notin Started /\ Started' = Started \cup {i}
    <3> DEFINE c == Cardinality(Started)
               q == RolloutBatch \div NumInstances
               r == RolloutBatch % NumInstances
    <3>1. IsFiniteSet(Started)
      <4>1. NumInstances \in Nat
        BY PlacementAssumption
      <4>2. IsFiniteSet(Instances) /\ Started \subseteq Instances
        BY <4>1, FS_Interval DEF Started, Instances
      <4> QED BY <4>2, FS_Subset
    <3>2. c \in Nat /\ Cardinality(Started') = c + 1
      BY <2>3, <3>1, FS_AddElement, FS_CardinalityType
    <3>3. RequestSize = q + (IF c < r THEN 1 ELSE 0) /\ RequestSize \in Nat
      BY RequestsHaveGroups DEF RequestSize, Started
    <3>4. q \in Nat /\ r \in Nat
      BY StartFacts
    <3>5. /\ FirstGroups(c) = c * q + (IF c < r THEN c ELSE r)
          /\ FirstGroups(c + 1) = (c + 1) * q + (IF c + 1 < r THEN c + 1 ELSE r)
      BY DEF FirstGroups
    <3>6. sent + Total = FirstGroups(c)
      BY <1>1
    <3>7. /\ ProtocolInv' /\ Total \in Nat /\ Total' = Total + RequestSize - (sent' - sent)
      BY <1>1, <2>1, <2>3, <3>3, OneStep
    <3> HIDE DEF c, q, r
    <3>8. (c + 1) * q = c * q + q /\ c * q \in Nat
      BY <3>2, <3>4
    <3>9. FirstGroups(c + 1) = FirstGroups(c) + RequestSize
      BY <3>2, <3>3, <3>4, <3>5, <3>8
    <3>10. sent' + Total' = FirstGroups(Cardinality(Started'))
      BY <1>1, <2>1, <3>2, <3>3, <3>6, <3>7, <3>9
    <3> QED BY <2>1, <3>7, <3>10 DEF Conserved
  <2> QED BY <2>1, <2>2, <2>3
<1>4. CASE UNCHANGED <<managerVars, instanceVars, sent>>
  <2>1. /\ UNCHANGED <<pc, offset, leaving, load, rollout, main, generating, cut, aborted,
                       done, event, req, resp, sent>>
    BY <1>4 DEF managerVars, instanceVars, statusVars
  <2>2. InstanceTypes' /\ Turns'
    BY <2>1 DEF ProtocolInv, InstanceTypes, Turns, AliveNum
  <2>3. ASSUME NEW j \in Instances
        PROVE  InstanceOk(j)' /\ Carried(j)' = Carried(j)
    <3>1. InstanceOk(j) /\ UNCHANGED instance(j)
      BY <2>1 DEF ProtocolInv, instance
    <3> QED BY <2>1, <3>1, InstanceFrame
  <2>4. Total' = Total
    <3>1. [j \in Instances |-> Carried(j)'] = [j \in Instances |-> Carried(j)]
      BY <2>3
    <3> QED BY <3>1 DEF Total
  <2>5. Started' = Started
    BY <2>1 DEF Started
  <2> QED BY <1>1, <2>1, <2>2, <2>3, <2>4, <2>5 DEF ProtocolInv, Conserved
<1>5. CASE NoticeArrives \/ Actor \/ Inference
  BY <1>4, <1>5 DEF NoticeArrives, Actor, ActorStarts, Train, ScaleSync, Inference, Infer,
     OffloadInference
<1>6. CASE UNCHANGED vars
  BY <1>4, <1>6 DEF vars
<1> QED BY <1>2, <1>3, <1>5, <1>6, NextGlobalStepStep DEF Next

(* In every state of the system the conversation with each instance stands  *)
(* at one of the stages above, and no group is outside of it.               *)
THEOREM ProtocolHolds == Spec => [](Books /\ ProtocolInv /\ Conserved)
<1>1. Init => Books /\ ProtocolInv /\ Conserved
  BY BooksInit, ProtocolInit
<1>2. Books /\ ProtocolInv /\ Conserved /\ [Next]_vars => (Books /\ ProtocolInv /\ Conserved)'
  BY BooksNext, ProtocolNext
<1> QED BY <1>1, <1>2, PTL DEF Spec

(* Whatever the schedule, an answer the manager finds is the one it asked   *)
(* for, from one it asked: the two coroutines of an instance never get in   *)
(* each other's way on the response queue, nor a step in that of the next.  *)
THEOREM AnswersAreAwaited == Spec => []AnswersFit
<1>1. ASSUME ProtocolInv
      PROVE  AnswersFit
  <2>1. ASSUME NEW i \in Instances
        PROVE  \/ resp[i] = <<>>
               \/ i \in Waited /\ \E r \in Responses : resp[i] = <<r>> /\ r.kind = Answer
    BY <1>1 DEF ProtocolInv, InstanceOk, Stage, Closed, Unasked, Pending, Draining, Told,
       Answered
  <2>2. ASSUME NEW i \in Instances
        PROVE  /\ Len(resp[i]) <= 1
               /\ resp[i] # <<>> => i \in Waited /\ Head(resp[i]).kind = Answer
    <3>1. CASE resp[i] = <<>>
      BY <3>1
    <3>2. ASSUME NEW r, resp[i] = <<r>>
          PROVE  Len(resp[i]) = 1 /\ Head(resp[i]) = r
      BY <3>2
    <3>3. ASSUME resp[i] # <<>>
          PROVE  Len(resp[i]) <= 1 /\ i \in Waited /\ Head(resp[i]).kind = Answer
      <4>1. PICK r \in Responses : resp[i] = <<r>> /\ r.kind = Answer
        BY <2>1, <3>3
      <4>2. i \in Waited
        BY <2>1, <3>3
      <4> QED BY <3>2, <4>1, <4>2
    <3> QED BY <3>1, <3>3, Zenon
  <2> QED BY <2>2 DEF AnswersFit, Waited, Answer
<1> QED BY <1>1, ProtocolHolds, PTL

(* The groups an instance answers for are those it carries.                 *)
LEMMA GroupsAreCarried ==
    ASSUME ProtocolInv, NEW i \in Instances
    PROVE  GroupsAt(i) = Carried(i)
<1> DEFINE f == [j \in DOMAIN resp[i] |->
                    IF resp[i][j].kind = "data" THEN resp[i][j].groups ELSE 0]
<1>1. InstanceOk(i) /\ InstanceTypes /\ Turns
  BY DEF ProtocolInv
<1>2. /\ generating[i] \in Nat /\ cut[i] \in Nat /\ aborted[i] \in Nat
      /\ GroupsIn(req[i]) \in Nat
  BY <1>1, CarriedType DEF InstanceTypes
<1>3. /\ GroupsAt(i) = generating[i] + cut[i] + (IF HandedOver(i) THEN 0 ELSE aborted[i])
                       + GroupsIn(req[i]) + SumFunction(f)
      /\ Carried(i) = generating[i] + cut[i] + (IF pc = "migrate" THEN aborted[i] ELSE 0)
                      + GroupsIn(req[i])
  BY DEF GroupsAt, Carried, GroupsIn
<1>4. pc = "finish" => Waited = Closing
  BY DEF Waited
<1>5. aborted[i] > 0 /\ pc # "migrate" => HandedOver(i)
  <2>1. ASSUME aborted[i] > 0, pc # "migrate"
        PROVE  pc = "finish" /\ i \in Closing /\ main[i] = "serving"
    <3>1. i > offset /\ i \in Waited /\ pc = "finish"
      BY <1>1, <2>1 DEF InstanceOk, Whole
    <3>2. main[i] = "serving"
      BY <1>1, <3>1 DEF InstanceOk, Stage, Closed, Pending, Draining, Told, Answered
    <3> QED BY <1>4, <3>1, <3>2
  <2> QED BY <2>1 DEF HandedOver
<1>6. CASE resp[i] = <<>>
  <2>1. DOMAIN f = {}
    BY <1>6
  <2> HIDE DEF f
  <2>2. SumFunction(f) = 0
    BY <2>1, SumOnDomain, SumOfNone
  <2>3. pc = "migrate" => ~HandedOver(i)
    BY <1>6 DEF HandedOver
  <2> QED BY <1>2, <1>3, <1>5, <2>2, <2>3
<1>7. ASSUME NEW r \in Responses, resp[i] = <<r>>, r.kind = Answer,
             pc = "migrate" => r.groups = aborted[i]
      PROVE  GroupsAt(i) = Carried(i)
  <2>1. DOMAIN resp[i] = {1} /\ resp[i][1] = r
    BY <1>7
  <2>2. DOMAIN f = {} \cup {1} /\ f[1] = IF r.kind = "data" THEN r.groups ELSE 0
    BY <2>1
  <2>3. r.groups \in Nat
    BY <1>7 DEF Responses
  <2> HIDE DEF f
  <2>4. SumFunctionOnSet(f, {} \cup {1}) = f[1] + SumFunctionOnSet(f, {})
    <3>1. f[1] \in Int
      BY <2>2, <2>3
    <3> QED BY <3>1, FS_EmptySet, SumExtended
  <2>5. SumFunction(f) = IF r.kind = "data" THEN r.groups ELSE 0
    BY <2>2, <2>3, <2>4, SumOnDomain, SumOfNone
  <2>6. r.kind = "data" <=> pc = "migrate"
    BY <1>7 DEF Answer
  <2>7. pc = "migrate" => HandedOver(i)
    BY <2>1, <2>6 DEF HandedOver
  <2> QED BY <1>2, <1>3, <1>5, <1>7, <2>5, <2>6, <2>7
<1>8. \/ resp[i] = <<>>
      \/ \E r \in Responses : resp[i] = <<r>> /\ r.kind = Answer
                              /\ (pc = "migrate" => r.groups = aborted[i])
  BY <1>1 DEF InstanceOk, Stage, Closed, Unasked, Pending, Draining, Told, Answered
<1> QED BY <1>6, <1>7, <1>8

(* The groups as the property counts them are those carried.                *)
LEMMA GroupsAddUp ==
    ASSUME ProtocolInv
    PROVE  SumFunction([i \in Instances |-> GroupsAt(i)]) = Total
<1>1. [i \in Instances |-> GroupsAt(i)] = [i \in Instances |-> Carried(i)]
  BY GroupsAreCarried
<1> DEFINE f == [i \in Instances |-> Carried(i)]
<1>2. DOMAIN f = Instances
  OBVIOUS
<1> HIDE DEF f
<1>3. SumFunction(f) = SumFunctionOnSet(f, Instances)
  BY <1>2, SumOnDomain
<1> QED BY <1>1, <1>3, Zenon DEF f, Total

(* With all instances started the requests make up the batch.               *)
LEMMA AllStarted ==
    ASSUME Conserved, \A i \in Instances : rollout[i] # "idle"
    PROVE  sent + Total = RolloutBatch
<1>1. NumInstances \in Nat
  BY PlacementAssumption
<1>2. Started = Instances
  BY DEF Started
<1>3. Cardinality(Instances) = NumInstances
  <2>1. Cardinality(1 .. NumInstances) =
            IF 1 > NumInstances THEN 0 ELSE NumInstances - 1 + 1
    BY <1>1, FS_Interval
  <2> QED BY <1>1, <2>1 DEF Instances
<1>4. sent + Total = FirstGroups(NumInstances)
  BY <1>2, <1>3 DEF Conserved
<1> QED BY <1>4, StartFacts

(* No sequence group is lost or doubled, whatever is moved where, cut short *)
(* or sent on its way, for every number of instances and groups.            *)
THEOREM NoGroupIsLost == Spec => []GroupsConserved
<1>1. ASSUME ProtocolInv, Conserved
      PROVE  GroupsConserved
  BY <1>1, GroupsAddUp, AllStarted DEF GroupsConserved
<1> QED BY <1>1, ProtocolHolds, PTL

-----------------------------------------------------------------------------
(* The actor, inference and the last iterations *)

ActorHas == actorNum * ActorParallel

(* Where the conversation of actor and manager stands.  The iterations      *)
(* trained when it is the actor's turn:                                     *)
Turn == IF iter = -1 THEN 0 ELSE iter

(* when no question of the actor is with the manager,                       *)
Open == pc = "await_actor" \/ (iter = -1 /\ ~UsePreProcess)

Blocked ==
    /\ actor = "blocked" /\ asks = 0 /\ trained = 0 /\ width = ActorHas /\ UsePreProcess
    /\ \/ iter = -1 /\ orders = <<>>
       \/ iter = 0 /\ pc = "await_actor" /\ orders = <<0>>

Training ==
    /\ actor = "training" /\ asks = 0 /\ orders = <<>> /\ width = ActorHas
    /\ trained = Turn /\ Open

(* when the actor has asked and the manager has not heard,                  *)
Asking ==
    /\ actor = "asked" /\ asks = 1 /\ orders = <<>> /\ width = ActorHas
    /\ trained = Turn + 1 /\ Open

(* when the manager works on the answer,                                    *)
Heard ==
    /\ actor = "asked" /\ asks = 0 /\ orders = <<>> /\ width = ActorHas
    /\ trained = iter + 1 /\ iter >= 0
    /\ pc \in {"report", "migrate", "finish", "inference", "actor"}

(* when the answer is on its way: the actor's size, or None if it has that; *)
Decided ==
    /\ actor = "asked" /\ asks = 0
    /\ \E o \in Nat :
          /\ orders = <<o>>
          /\ \/ o = 0 /\ width = ActorHas
             \/ o = ActorHas /\ (pc # "end" => width <= o)
    /\ \/ pc = "await_actor" /\ trained = iter /\ iter >= 1
       \/ pc = "end" /\ trained = NMinibatches /\ iter = NMinibatches - 1

(* and when there is nothing more to train.                                 *)
Over ==
    /\ actor = "done" /\ asks = 0 /\ orders = <<>> /\ width = ActorHas
    /\ pc = "end" /\ trained = NMinibatches /\ iter = NMinibatches - 1

StageInv ==
    /\ width \in Nat
    /\ Blocked \/ Training \/ Asking \/ Heard \/ Decided \/ Over

(* The actor always has GPUs.                                               *)
LEMMA SizeOfActor ==
    ASSUME actorNum \in ValidDpSizes
    PROVE  ActorHas \in Nat \ {0}
<1>1. ASSUME NEW a \in Nat \ {0}, NEW b \in Nat \ {0} PROVE a * b \in Nat \ {0}
  BY <1>1
<1>2. actorNum \in Nat \ {0} /\ ActorParallel \in Nat \ {0}
  BY Numbers DEF ValidDpSizes
<1> QED BY <1>1, <1>2 DEF ActorHas

(* A run starts with the actor training, or blocked by the pre-process.     *)
LEMMA StageInit ==
    ASSUME Init
    PROVE  StageInv
<1>1. width = ActorHas /\ width \in Nat
  BY PlacementAssumption, Numbers DEF Init, ActorHas
<1>2. Blocked \/ Training
  BY <1>1, PlacementAssumption DEF Init, Blocked, Training, Turn, Open
<1> QED BY <1>1, <1>2 DEF StageInv

stageVars == <<pc, iter, actorNum, actor, trained, width, orders, asks>>

(* Steps that touch neither actor nor manager leave the conversation where  *)
(* it is.                                                                   *)
LEMMA StageUnchanged ==
    ASSUME StageInv, UNCHANGED stageVars
    PROVE  StageInv'
<1>1. UNCHANGED <<pc, iter, actorNum, actor, trained, width, orders, asks>>
  BY DEF stageVars
<1>2. ActorHas' = ActorHas /\ Turn' = Turn /\ Open' = Open
  BY <1>1 DEF ActorHas, Turn, Open
<1> QED BY <1>1, <1>2 DEF StageInv, Blocked, Training, Asking, Heard, Decided, Over

(* Every step of actor and manager moves it from one stage to the next.     *)
LEMMA StageNext ==
    ASSUME StageInv, Books, [Next]_vars
    PROVE  StageInv'
<1>1. /\ NMinibatches \in Nat \ {0} /\ UsePreProcess \in BOOLEAN
      /\ iter \in Int /\ iter >= -1 /\ iter <= NMinibatches - 1
      /\ ActorHas \in Nat \ {0}
      /\ actorNum \in ValidDpSizes
  BY Numbers, PlacementAssumption, SizeOfActor DEF Books, BooksTypes
<1>2. iter = -1 => pc \in {"begin", "pre_process", "migrate", "finish", "components"}
  BY DEF Books, BooksPre
<1>3. /\ pc \in {"begin", "pre_process", "components"} => iter = -1
      /\ pc = "await_actor" => iter >= 0
  BY DEF Books, BooksMain
<1>4. CASE /\ UNCHANGED <<iter, actorNum, actor, trained, width, orders, asks>>
           /\ \/ pc \in {"begin", "pre_process", "components"} /\ iter = -1
              \/ /\ pc \in {"report", "migrate", "finish", "inference"}
                 /\ pc' \in {"report", "migrate", "finish", "inference", "actor"}
              \/ pc \in {"migrate", "finish"} /\ iter = -1
           /\ pc' # "await_actor"
  <2>1. ActorHas' = ActorHas /\ Turn' = Turn
    BY <1>4 DEF ActorHas, Turn
  <2>2. Blocked => Blocked'
    BY <1>2, <1>4, <2>1 DEF Blocked
  <2>3. Training => Training'
    BY <1>3, <1>4, <2>1 DEF Training, Open
  <2>4. Asking => Asking'
    BY <1>3, <1>4, <2>1 DEF Asking, Open
  <2>5. Heard => Heard'
    BY <1>4, <2>1 DEF Heard
  <2>6. ~Decided /\ ~Over
    BY <1>1, <1>4 DEF Decided, Over
  <2> QED BY <1>4, <2>2, <2>3, <2>4, <2>5, <2>6 DEF StageInv
<1>5. CASE PreProcess \/ PreProcessReports \/ ReleaseRollout \/ Migrate \/ Finished
           \/ ReleaseInference
  <2>1. UNCHANGED <<iter, actorNum, actor, trained, width, orders, asks>>
    BY <1>5 DEF PreProcess, PreProcessReports, ReleaseRollout, Migrate, Finished,
       ReleaseInference, actorVars
  <2>2. /\ pc \in {"begin", "pre_process", "report", "migrate", "finish", "inference"}
        /\ pc \in {"begin", "pre_process"} => pc' # "await_actor"
        /\ pc \in {"report", "migrate", "finish", "inference"} =>
              pc' \in {"report", "migrate", "finish", "inference", "actor"} \/
              (pc \in {"migrate", "finish"} /\ iter = -1 /\ pc' # "await_actor")
    BY <1>5 DEF PreProcess, PreProcessReports, ReleaseRollout, Migrate, Finished,
       ReleaseInference, MigrateOut, FinishAll
  <2> QED BY <1>3, <1>4, <2>1, <2>2
<1>6. CASE StartComponents
  <2>1. /\ pc = "components" /\ iter = -1 /\ iter' = 0 /\ pc' = "await_actor"
        /\ orders' = IF UsePreProcess THEN Append(orders, 0) ELSE orders
        /\ UNCHANGED <<actorNum, actor, trained, width, asks>>
    BY <1>3, <1>6 DEF StartComponents
  <2>2. ActorHas' = ActorHas /\ Turn = 0 /\ Turn' = 0 /\ Open'
    BY <2>1 DEF ActorHas, Turn, Open
  <2>3. Blocked => Blocked'
    <3>1. Append(<<>>, 0) = <<0>>
      OBVIOUS
    <3> QED BY <2>1, <2>2, <3>1 DEF Blocked
  <2>4. Training => Training'
    BY <2>1, <2>2 DEF Training, Open
  <2>5. Asking => Asking'
    BY <2>1, <2>2 DEF Asking, Open
  <2>6. ~Heard /\ ~Decided /\ ~Over
    BY <2>1 DEF Heard, Decided, Over
  <2> QED BY <2>1, <2>3, <2>4, <2>5, <2>6 DEF StageInv
<1>7. CASE AwaitActor
  <2>1. /\ pc = "await_actor" /\ asks > 0 /\ asks' = asks - 1
        /\ pc' \in {"inference", "finish", "report"}
        /\ UNCHANGED <<iter, actorNum, actor, trained, width, orders>>
    BY <1>7 DEF AwaitActor, FinishAll
  <2>2. ActorHas' = ActorHas
    BY <2>1 DEF ActorHas
  <2>3. Asking
    BY <2>1 DEF StageInv, Blocked, Training, Heard, Decided, Over
  <2>4. Heard'
    BY <1>3, <2>1, <2>2, <2>3 DEF Asking, Heard, Turn
  <2> QED BY <2>1, <2>4 DEF StageInv
<1>8. ASSUME NEW new \in ValidDpSizes, Scale(new), Heard,
             UNCHANGED <<actor, trained, width, asks>>,
             \/ iter' = iter + 1 /\ pc' = "await_actor" /\ new >= actorNum
             \/ iter = NMinibatches - 1 /\ iter' = iter /\ pc' = "end"
      PROVE  StageInv'
  <2> DEFINE o == IF new = actorNum THEN 0 ELSE new * ActorParallel
  <2>1. actorNum' = new /\ orders' = Append(orders, o) /\ ActorHas' = new * ActorParallel
    BY <1>8 DEF Scale, ActorHas
  <2>2. ActorHas' \in Nat \ {0}
    <3>1. ASSUME NEW a \in Nat \ {0}, NEW b \in Nat \ {0} PROVE a * b \in Nat \ {0}
      BY <3>1
    <3>2. new \in Nat \ {0} /\ ActorParallel \in Nat \ {0}
      BY Numbers DEF ValidDpSizes
    <3> QED BY <2>1, <3>1, <3>2
  <2>3. new >= actorNum => ActorHas' >= ActorHas
    <3>1. ASSUME NEW a \in Nat, NEW b \in Nat, NEW p \in Nat, a >= b PROVE a * p >= b * p
      BY <3>1
    <3>2. new \in Nat /\ actorNum \in Nat /\ ActorParallel \in Nat
      BY <1>1, Numbers
    <3> QED BY <2>1, <3>1, <3>2 DEF ActorHas
  <2>4. /\ o \in Nat
        /\ \/ o = 0 /\ ActorHas' = ActorHas
           \/ o = ActorHas'
    <3>1. new = actorNum => ActorHas' = ActorHas
      BY <2>1 DEF ActorHas
    <3> QED BY <2>1, <2>2, <3>1
  <2> HIDE DEF o
  <2>5. orders' = <<o>> /\ width' = ActorHas /\ asks' = 0 /\ actor' = "asked"
        /\ trained' = iter + 1 /\ iter >= 0
    <3>1. Append(<<>>, o) = <<o>>
      OBVIOUS
    <3> QED BY <1>8, <2>1, <3>1 DEF Heard
  <2>6. \/ o = 0 /\ width' = ActorHas'
        \/ o = ActorHas' /\ (pc' # "end" => width' <= o)
    <3>1. CASE pc' = "end"
      BY <2>4, <2>5, <3>1
    <3>2. CASE pc' # "end"
      <4>1. ActorHas' >= ActorHas
        BY <1>8, <2>3, <3>2
      <4> QED BY <1>1, <2>2, <2>4, <2>5, <4>1
    <3> QED BY <3>1, <3>2
  <2>7. Decided'
    BY <1>1, <1>8, <2>4, <2>5, <2>6 DEF Decided
  <2> QED BY <1>1, <2>5, <2>7 DEF StageInv
<1>9. pc = "actor" => Heard
  BY <1>2 DEF StageInv, Blocked, Training, Asking, Open, Decided, Over
<1>10. CASE AllocateActor
  <2>1. GrownSize(actorNum, available) \in ValidDpSizes
    BY <1>1, ActorGrowsToFit
  <2>2. GrownSize(actorNum, available) >= actorNum
    BY <1>1, ActorGrowsToFit
  <2> QED BY <1>8, <1>9, <1>10, <2>1, <2>2 DEF AllocateActor
<1>11. CASE ShrinkActor
  BY <1>8, <1>9, <1>11, PlacementAssumption DEF ShrinkActor
<1>12. CASE NextGlobalStep
  <2>1. width' = ActorHas' /\ width' \in Nat
    BY <1>12, PlacementAssumption, Numbers DEF NextGlobalStep, ActorHas
  <2>2. Blocked' \/ Training'
    BY <1>12, <2>1, PlacementAssumption DEF NextGlobalStep, Blocked, Training, Turn, Open
  <2> QED BY <2>1, <2>2 DEF StageInv
<1>13. CASE Actor
  <2>1. UNCHANGED <<pc, iter, actorNum>>
    BY <1>13 DEF Actor, ActorStarts, Train, ScaleSync, managerVars
  <2>2. ActorHas' = ActorHas /\ Turn' = Turn /\ Open' = Open
    BY <2>1 DEF ActorHas, Turn, Open
  <2>3. CASE ActorStarts
    <3>1. /\ actor = "blocked" /\ orders # <<>> /\ orders' = Tail(orders)
          /\ actor' = "training" /\ UNCHANGED <<trained, width, asks>>
      BY <2>3 DEF ActorStarts
    <3>2. Blocked /\ orders = <<0>> /\ iter = 0 /\ pc = "await_actor"
      BY <3>1 DEF StageInv, Blocked, Training, Asking, Heard, Decided, Over
    <3>3. Tail(<<0>>) = <<>>
      OBVIOUS
    <3>4. Training'
      BY <2>1, <2>2, <3>1, <3>2, <3>3 DEF Training, Blocked, Turn, Open
    <3> QED BY <1>1, <2>2, <3>4 DEF StageInv, Training
  <2>4. CASE Train
    <3>1. /\ actor = "training" /\ trained' = trained + 1 /\ asks' = asks + 1
          /\ actor' = "asked" /\ UNCHANGED <<width, orders>>
      BY <2>4 DEF Train
    <3>2. Training
      BY <3>1 DEF StageInv, Blocked, Asking, Heard, Decided, Over
    <3>3. Asking'
      BY <2>2, <3>1, <3>2 DEF Training, Asking
    <3> QED BY <3>1, <3>3 DEF StageInv
  <2>5. CASE ScaleSync
    <3>1. /\ actor = "asked" /\ orders # <<>> /\ orders' = Tail(orders)
          /\ width' = (IF Head(orders) = 0 THEN width ELSE Head(orders))
          /\ actor' = (IF trained = NMinibatches THEN "done" ELSE "training")
          /\ UNCHANGED <<trained, asks>>
      BY <2>5 DEF ScaleSync
    <3>2. Decided
      BY <3>1 DEF StageInv, Blocked, Training, Asking, Heard, Over
    <3>3. PICK o \in Nat : /\ orders = <<o>>
                           /\ \/ o = 0 /\ width = ActorHas
                              \/ o = ActorHas /\ (pc # "end" => width <= o)
      BY <3>2 DEF Decided
    <3>4. Head(orders) = o /\ Tail(orders) = <<>>
      BY <3>3
    <3>5. width' = ActorHas
      BY <1>1, <3>1, <3>3, <3>4
    <3>6. CASE pc = "await_actor" /\ trained = iter /\ iter >= 1
      <4>1. trained # NMinibatches
        BY <1>1, <3>6
      <4>2. Training'
        BY <2>1, <2>2, <3>1, <3>2, <3>4, <3>5, <3>6, <4>1 DEF Training, Turn, Open, Decided
      <4> QED BY <1>1, <3>5, <4>2 DEF StageInv
    <3>7. CASE pc = "end" /\ trained = NMinibatches /\ iter = NMinibatches - 1
      <4>1. Over'
        BY <2>1, <2>2, <3>1, <3>2, <3>4, <3>5, <3>7 DEF Over, Decided
      <4> QED BY <1>1, <3>5, <4>1 DEF StageInv
    <3> QED BY <3>2, <3>6, <3>7 DEF Decided
  <2> QED BY <1>13, <2>3, <2>4, <2>5 DEF Actor
<1>14. CASE NoticeArrives \/ Inference \/ UNCHANGED vars
  <2>1. UNCHANGED stageVars
    BY <1>14 DEF NoticeArrives, Inference, Infer, OffloadInference, vars, managerVars,
       actorVars, stageVars
  <2> QED BY <2>1, StageUnchanged
<1>15. ASSUME NEW i \in Instances, RolloutStep(i) \/ MainLoopStep(i)
       PROVE  StageInv'
  <2>1. UNCHANGED <<managerVars, actorVars>>
    BY <1>15 DEF RolloutStep, StartRollout, SendResult, MarkDone, MarkAborted, Continue,
                 Leave, Offload, MainLoopStep, ServeReport, AbortGeneration, HandOver,
                 ServeMigrateIn, ServeFinish
  <2> QED BY <2>1, StageUnchanged DEF managerVars, actorVars, stageVars
<1> QED BY <1>5, <1>6, <1>7, <1>10, <1>11, <1>12, <1>13, <1>14, <1>15 DEF Next, Manager

(* What flows to the actor: a group is sent, then passed on, then trained.  *)
FlowInv ==
    /\ inferred \in Nat /\ trained \in Nat
    /\ inferred <= sent /\ trained * Minibatch <= inferred
    /\ inference = "offloaded" <=> notice # "none"

(* The iterations of a global step train exactly the batch.                 *)
LEMMA MinibatchType == Minibatch \in Nat /\ NMinibatches * Minibatch = RolloutBatch
<1>1. ASSUME NEW b \in Nat, NEW n \in Nat \ {0}, b % n = 0
      PROVE  b \div n \in Nat /\ n * (b \div n) = b
  <2>1. PICK q \in Int, r \in 0 .. n - 1 : q = b \div n /\ r = b % n /\ b = q * n + r
    OBVIOUS
  <2>2. q >= 0 /\ n * q = q * n
    BY <2>1
  <2>3. r = 0
    BY <1>1, <2>1
  <2>4. n * q = b /\ q \in Nat
    BY <2>1, <2>2, <2>3
  <2> QED BY <2>1, <2>4, Zenon
<1> QED BY <1>1, PolicyAssumption DEF Minibatch

(* Nothing has flowed at the start.                                         *)
LEMMA FlowInit ==
    ASSUME Init
    PROVE  FlowInv
BY MinibatchType DEF Init, FlowInv

(* No step trains on what inference has not passed on.                      *)
LEMMA FlowNext ==
    ASSUME FlowInv, sent \in Nat, [Next]_vars
    PROVE  FlowInv'
<1>1. Minibatch \in Nat
  BY MinibatchType
<1>2. ASSUME UNCHANGED <<inferred, trained, inference, notice>>, sent' = sent \/ sent' = sent + 1
      PROVE  FlowInv'
  BY <1>2 DEF FlowInv
<1>3. CASE Manager
  BY <1>2, <1>3 DEF Manager, PreProcess, PreProcessReports, StartComponents, AwaitActor,
     ReleaseRollout, Migrate, Finished, ReleaseInference, AllocateActor, ShrinkActor,
     instanceVars, actorVars, inferenceVars
<1>4. ASSUME NEW i \in Instances, RolloutStep(i) \/ MainLoopStep(i)
      PROVE  FlowInv'
  BY <1>2, <1>4 DEF RolloutStep, StartRollout, SendResult, MarkDone, MarkAborted, Continue,
     Leave, Offload, MainLoopStep, ServeReport, AbortGeneration, HandOver, ServeMigrateIn,
     ServeFinish, actorVars, inferenceVars
<1>5. CASE NoticeArrives
  BY <1>5 DEF NoticeArrives, FlowInv, actorVars
<1>6. CASE Infer
  <2>1. /\ inferred < sent /\ inferred' = inferred + 1
        /\ UNCHANGED <<trained, inference, notice, sent>>
    BY <1>6 DEF Infer, actorVars
  <2> DEFINE used == trained * Minibatch
  <2>2. used \in Nat
    BY <1>1 DEF FlowInv
  <2>3. used <= inferred /\ used' = used
    BY <2>1 DEF FlowInv
  <2> HIDE DEF used
  <2>4. used' <= inferred' /\ inferred' <= sent'
    BY <2>1, <2>2, <2>3 DEF FlowInv
  <2> QED BY <2>1, <2>4 DEF FlowInv, used
<1>7. CASE OffloadInference
  BY <1>7 DEF OffloadInference, FlowInv, actorVars
<1>8. CASE ActorStarts \/ ScaleSync
  BY <1>2, <1>8 DEF ActorStarts, ScaleSync, inferenceVars
<1>9. CASE Train
  BY <1>9 DEF Train, FlowInv, inferenceVars
<1>10. CASE NextGlobalStep
  BY <1>1, <1>10 DEF NextGlobalStep, FlowInv
<1>11. CASE UNCHANGED vars
  BY <1>2, <1>11 DEF vars, actorVars, inferenceVars
<1> QED BY <1>3, <1>4, <1>5, <1>6, <1>7, <1>8, <1>9, <1>10, <1>11 DEF Next, Actor, Inference

(* In the last iteration every instance is closed, and then inference is    *)
(* waited for; the actor goes back to the size it starts a global step with.*)
LastInv ==
    /\ iter = NMinibatches - 1 =>
          /\ pc \notin {"report", "migrate"}
          /\ pc = "finish" => leaving = AliveNum
          /\ pc \in {"inference", "actor", "end"} => offset = NumInstances
          /\ pc \in {"actor", "end"} => notice = "received"
    /\ pc = "end" => iter = NMinibatches - 1 /\ actorNum = FirstActorNum

(* The start of a run is not its last iteration, or nothing has happened in *)
(* it.                                                                      *)
LEMMA LastInit ==
    ASSUME Init
    PROVE  LastInv
BY Numbers DEF Init, LastInv

(* A message that has been received stays so.                               *)
LEMMA LastFrame ==
    ASSUME LastInv, UNCHANGED managerVars, notice = "received" => notice' = "received"
    PROVE  LastInv'
BY DEF LastInv, managerVars, AliveNum

(* Steps of the others: the manager stays, and a message received stays     *)
(* received.                                                                *)
LEMMA OtherSteps ==
    ASSUME FlowInv,
           \/ NoticeArrives \/ Actor \/ Inference \/ UNCHANGED vars
           \/ \E i \in Instances : RolloutStep(i) \/ MainLoopStep(i)
    PROVE  /\ UNCHANGED managerVars
           /\ notice = "received" => notice' = "received"
<1>1. CASE NoticeArrives \/ Actor \/ Inference \/ UNCHANGED vars
  BY <1>1 DEF FlowInv, NoticeArrives, Actor, ActorStarts, Train, ScaleSync, Inference, Infer,
     OffloadInference, vars, inferenceVars
<1>2. ASSUME NEW i \in Instances, RolloutStep(i) \/ MainLoopStep(i)
      PROVE  UNCHANGED managerVars /\ notice' = notice
  BY <1>2 DEF RolloutStep, StartRollout, SendResult, MarkDone, MarkAborted, Continue,
     Leave, Offload, MainLoopStep, ServeReport, AbortGeneration, HandOver, ServeMigrateIn,
     ServeFinish, inferenceVars
<1> QED BY <1>1, <1>2

(* Every step keeps what holds in the last iteration.                       *)
LEMMA LastNext ==
    ASSUME LastInv, FlowInv, Turns, Books, [Next]_vars
    PROVE  LastInv'
<1>1. /\ NMinibatches \in Nat \ {0} /\ iter \in Int /\ iter >= -1
      /\ NumInstances \in Nat /\ offset \in Nat
  BY Numbers, PlacesType DEF Books, BooksTypes
<1>2. /\ iter = -1 => pc \in {"begin", "pre_process", "migrate", "finish", "components"}
      /\ pc \in {"begin", "pre_process", "components"} => iter = -1
  BY DEF Books, BooksPre, BooksMain
<1>3. CASE PreProcess \/ PreProcessReports
  <2>1. iter' = iter /\ iter = -1 /\ pc' # "end"
    BY <1>2, <1>3 DEF PreProcess, PreProcessReports, MigrateOut
  <2> QED BY <1>1, <2>1 DEF LastInv
<1>4. CASE StartComponents
  BY <1>4 DEF StartComponents, LastInv
<1>5. CASE AwaitActor
  <2>1. iter' = iter /\ offset' = offset /\ AliveNum' = AliveNum
    BY <1>5 DEF AwaitActor, AliveNum
  <2>2. \/ offset = NumInstances /\ pc' = "inference"
        \/ pc' = "finish" /\ leaving' = AliveNum
        \/ iter # NMinibatches - 1 /\ pc' = "report"
    BY <1>5 DEF AwaitActor, FinishAll
  <2> QED BY <2>1, <2>2 DEF LastInv
<1>6. CASE ReleaseRollout
  <2>1. iter' = iter /\ pc = "report" /\ pc' # "end"
    BY <1>6 DEF ReleaseRollout, FinishAll, MigrateOut
  <2> QED BY <2>1 DEF LastInv
<1>7. CASE Migrate
  <2>1. iter' = iter /\ pc = "migrate" /\ pc' # "end"
    BY <1>7 DEF Migrate
  <2> QED BY <2>1 DEF LastInv
<1>8. CASE Finished
  <2>1. /\ iter' = iter /\ pc = "finish" /\ pc' \in {"components", "inference"}
        /\ offset' = offset + leaving
    BY <1>8 DEF Finished
  <2>2. offset + AliveNum = NumInstances
    BY <1>1 DEF AliveNum
  <2> QED BY <2>1, <2>2 DEF LastInv
<1>9. CASE ReleaseInference
  <2>1. /\ iter' = iter /\ pc = "inference" /\ pc' = "actor" /\ offset' = offset
        /\ iter = NMinibatches - 1 => notice = "received" /\ notice' = notice
    BY <1>9 DEF ReleaseInference, MustWait, inferenceVars
  <2> QED BY <2>1 DEF LastInv
<1>10. CASE AllocateActor
  BY <1>10 DEF AllocateActor, LastInv
<1>11. CASE ShrinkActor
  <2>1. /\ iter' = iter /\ pc = "actor" /\ iter = NMinibatches - 1 /\ pc' = "end"
        /\ offset' = offset /\ notice' = notice /\ actorNum' = FirstActorNum
    BY <1>11 DEF ShrinkActor, Scale, inferenceVars
  <2> QED BY <2>1 DEF LastInv
<1>12. CASE NextGlobalStep
  BY <1>1, <1>12 DEF NextGlobalStep, LastInv
<1>13. CASE \/ NoticeArrives \/ Actor \/ Inference \/ UNCHANGED vars
            \/ \E i \in Instances : RolloutStep(i) \/ MainLoopStep(i)
  BY <1>13, OtherSteps, LastFrame
<1> QED BY <1>3, <1>4, <1>5, <1>6, <1>7, <1>8, <1>9, <1>10, <1>11, <1>12, <1>13
        DEF Next, Manager

(* Everything up to here, of every state of the system.                     *)
GlobalInv ==
    /\ Books /\ ProtocolInv /\ Conserved
    /\ StageInv /\ FlowInv /\ LastInv

(* All of it holds at the start,                                            *)
LEMMA GlobalInit == Init => GlobalInv
BY BooksInit, ProtocolInit, StageInit, FlowInit, LastInit DEF GlobalInv

(* and is kept by every step, each part given those before it.              *)
LEMMA GlobalNext == GlobalInv /\ [Next]_vars => GlobalInv'
<1> SUFFICES ASSUME GlobalInv, [Next]_vars
             PROVE  GlobalInv'
  OBVIOUS
<1>1. /\ Books /\ ProtocolInv /\ Conserved /\ StageInv /\ FlowInv /\ LastInv
      /\ Turns /\ sent \in Nat
  BY DEF GlobalInv, ProtocolInv, Conserved
<1> QED BY <1>1, BooksNext, ProtocolNext, StageNext, FlowNext, LastNext DEF GlobalInv

(* Books, conversations, groups and what flows to the actor agree in every  *)
(* state of every run: the invariant the theorems below are read off.       *)
THEOREM GlobalInvHolds == Spec => []GlobalInv
BY GlobalInit, GlobalNext, PTL DEF Spec

(* A global step leaves nothing behind for the next: no request and no      *)
(* answer in a queue, no group that was not sent, no size but the first.    *)
THEOREM NextStepStartsClean == Spec => []NothingLeftBehind
<1>1. ASSUME GlobalInv, pc = "end", actor = "done"
      PROVE  /\ \A i \in Instances : /\ req[i] = <<>> /\ resp[i] = <<>>
                                     /\ rollout[i] = "exited" /\ main[i] = "serving"
                                     /\ ~event[i]
             /\ orders = <<>> /\ asks = 0
             /\ sent = RolloutBatch /\ notice = "received"
             /\ width = ActorGpus
  <2>1. /\ Over /\ ProtocolInv /\ Conserved /\ FlowInv /\ LastInv
    BY <1>1 DEF GlobalInv, StageInv, Blocked, Training, Asking, Heard, Decided
  <2>2. /\ orders = <<>> /\ asks = 0 /\ width = ActorHas /\ trained = NMinibatches
        /\ iter = NMinibatches - 1
        /\ offset = NumInstances /\ notice = "received" /\ actorNum = FirstActorNum
    BY <1>1, <2>1 DEF Over, LastInv
  <2>3. width = ActorGpus
    BY <2>2, PlacementAssumption DEF ActorHas
  <2>4. ASSUME NEW i \in Instances
        PROVE  Closed(i)
    <3>1. i <= offset /\ ~ (i > offset)
      BY <2>2, <2>4, Numbers DEF Instances
    <3> QED BY <2>1, <3>1 DEF ProtocolInv, InstanceOk, Stage
  <2>5. sent + Total = RolloutBatch
    BY <2>1, <2>4, AllStarted DEF Closed
  <2>6. Total \in Nat
    <3>1. \A i \in Instances : Carried(i) \in Nat
      BY <2>1, CarriedType
    <3>2. IsFiniteSet(Instances)
      BY Numbers, FS_Interval DEF Instances
    <3> DEFINE f == [i \in Instances |-> Carried(i)]
    <3>3. \A i \in Instances : f[i] \in Nat
      BY <3>1
    <3> HIDE DEF f
    <3>4. SumFunctionOnSet(f, Instances) \in Nat
      BY <3>2, <3>3, SumIsNat
    <3> QED BY <3>4 DEF Total, f
  <2>7. RolloutBatch <= sent
    BY <2>1, <2>2, MinibatchType, PolicyAssumption DEF FlowInv, Conserved
  <2>8. sent = RolloutBatch
    BY <2>1, <2>5, <2>6, <2>7, PolicyAssumption DEF Conserved
  <2> QED BY <2>2, <2>3, <2>4, <2>8 DEF Closed
<1>2. GlobalInv => NothingLeftBehind
  BY <1>1 DEF NothingLeftBehind
<1> QED BY <1>2, GlobalInvHolds, PTL

-----------------------------------------------------------------------------
(* The GPUs *)

RolloutHas == (NumInstances - offset) * RolloutParallel
InferenceHas == IF inferenceHeld THEN InferenceGpus ELSE 0

(* What the manager counts as held never exceeds the cluster.               *)
FitsInv ==
    iter >= 0 /\ pc # "end" =>
        available >= 0 /\ ActorHas + RolloutHas + InferenceHas <= TotalGpus

(* With use_wait_before_last_iter_policy: inference gives up its GPUs only  *)
(* when every instance is closed and it has finished, and both are so       *)
(* before the actor is sized for the last iteration, which then takes all.  *)
WaitInv ==
    /\ ~inferenceHeld => offset = NumInstances /\ notice = "received"
    /\ iter >= 0 /\ iter = NMinibatches - 2 =>
          /\ pc # "migrate"
          /\ pc = "finish" => leaving = AliveNum
          /\ pc \in {"inference", "actor"} => offset = NumInstances
          /\ pc = "actor" => ~inferenceHeld
    /\ iter = NMinibatches - 1 /\ NMinibatches > 1 =>
          /\ offset = NumInstances
          /\ pc # "end" => ActorHas = TotalGpus

(* The GPUs of the books, by who holds them.                                *)
LEMMA Held ==
    ASSUME Books, Turns
    PROVE  /\ ActorHas \in Nat /\ RolloutHas \in Nat /\ InferenceHas \in Nat
           /\ available \in Int /\ TotalGpus \in Nat
           /\ Sum = ActorHas + RolloutHas + InferenceHas + available
<1>1. actorNum \in ValidDpSizes /\ inferenceHeld \in BOOLEAN /\ available \in Int
  BY DEF Books, BooksTypes
<1>2. ASSUME NEW a \in Nat, NEW b \in Nat PROVE a * b \in Nat
  BY <1>2
<1>3. ActorHas \in Nat
  BY <1>1, SizeOfActor
<1>4. RolloutHas \in Nat
  <2>1. NumInstances - offset \in Nat
    BY Numbers DEF Turns
  <2> QED BY <1>2, <2>1, Numbers DEF RolloutHas
<1>5. InferenceHas \in Nat
  BY Numbers DEF InferenceHas
<1>6. Sum = ActorHas + RolloutHas + InferenceHas + available
  BY DEF Sum, ActorHas, RolloutHas, InferenceHas
<1> QED BY <1>1, <1>3, <1>4, <1>5, <1>6, Numbers

(* The manager's steps as far as GPUs are concerned.                        *)
LEMMA GpusMove ==
    ASSUME Books, Turns, FitsInv, [Next]_vars, iter' >= 0, pc' # "end"
    PROVE  /\ available' >= 0
           /\ \/ pc' = "await_actor"
              \/ /\ iter' = iter /\ pc # "end"
                 /\ actorNum' = actorNum
                 /\ offset' >= offset
                 /\ inferenceHeld' => inferenceHeld
<1>1. /\ offset \in Int /\ available \in Int /\ actorNum \in ValidDpSizes
      /\ RolloutParallel \in Nat /\ InferenceGpus \in Nat /\ iter \in Int
      /\ inferenceHeld \in BOOLEAN
  BY Numbers DEF Books, BooksTypes
<1>2. iter = -1 => available = 0
  BY DEF Books, BooksPre
<1>3. iter = -1 \/ iter >= 0
  BY DEF Books, BooksTypes
<1>4. pc # "end" => available >= 0
  BY <1>2, <1>3 DEF FitsInv
<1>5. CASE PreProcess \/ PreProcessReports \/ AwaitActor \/ ReleaseRollout \/ Migrate
  <2>1. UNCHANGED <<iter, offset, actorNum, inferenceHeld, available>> /\ pc # "end"
    BY <1>5 DEF PreProcess, PreProcessReports, AwaitActor, ReleaseRollout, Migrate
  <2> QED BY <1>1, <1>4, <2>1
<1>6. CASE StartComponents
  BY <1>6 DEF StartComponents
<1>7. CASE Finished
  <2>1. leaving \in Nat /\ leaving * RolloutParallel \in Nat
    <3>1. leaving \in Nat
      BY <1>7, Numbers DEF Finished, Turns, AliveNum
    <3>2. ASSUME NEW a \in Nat, NEW b \in Nat PROVE a * b \in Nat
      BY <3>2
    <3> QED BY <1>1, <3>1, <3>2
  <2>2. /\ UNCHANGED <<iter, actorNum, inferenceHeld>> /\ pc = "finish"
        /\ offset' = offset + leaving
        /\ \/ available' = available + leaving * RolloutParallel
           \/ available' = available
    BY <1>7 DEF Finished
  <2> DEFINE freed == leaving * RolloutParallel
  <2> HIDE DEF freed
  <2>3. available' = available + freed \/ available' = available
    BY <2>2 DEF freed
  <2>4. freed \in Nat
    BY <2>1 DEF freed
  <2> QED BY <1>1, <1>4, <2>1, <2>2, <2>3, <2>4
<1>8. CASE ReleaseInference
  <2>1. /\ UNCHANGED <<iter, offset, actorNum>> /\ pc = "inference"
    BY <1>8 DEF ReleaseInference
  <2> DEFINE released == /\ iter < NMinibatches - 1
                         /\ inferenceHeld
                         /\ IF UseWait THEN MustWait ELSE notice = "received"
  <2>2. /\ inferenceHeld' = (inferenceHeld /\ ~released)
        /\ available' = available + IF released THEN InferenceGpus ELSE 0
    BY <1>8, Zenon DEF ReleaseInference
  <2> HIDE DEF released
  <2>3. available' = available + InferenceGpus \/ available' = available + 0
    BY <2>2, Zenon
  <2>4. inferenceHeld' => inferenceHeld
    BY <2>2, Zenon
  <2>5. available' >= 0
    BY <1>1, <1>4, <2>1, <2>3
  <2>6. offset' >= offset
    BY <1>1, <2>1
  <2> QED BY <2>1, <2>4, <2>5, <2>6
<1>9. CASE AllocateActor
  <2>1. /\ pc = "actor" /\ pc' = "await_actor"
        /\ available' = available - Increment(actorNum, available)
    BY <1>9 DEF AllocateActor
  <2>2. available \in Nat
    BY <1>1, <1>4, <2>1
  <2>3. /\ Increment(actorNum, available) \in Nat
        /\ Increment(actorNum, available) <= available
    BY <1>1, <2>2, ActorGrowsToFit
  <2> DEFINE inc == Increment(actorNum, available)
  <2> HIDE DEF inc
  <2>4. inc \in Nat /\ inc <= available /\ available' = available - inc
    BY <2>1, <2>3 DEF inc
  <2> QED BY <2>1, <2>2, <2>4
<1>10. CASE ShrinkActor
  BY <1>10 DEF ShrinkActor
<1>11. CASE NextGlobalStep
  BY <1>11 DEF NextGlobalStep
<1>12. CASE NoticeArrives \/ Actor \/ Inference \/ UNCHANGED vars
  <2>1. UNCHANGED managerVars
    BY <1>12 DEF NoticeArrives, Actor, ActorStarts, Train, ScaleSync, Inference, Infer,
       OffloadInference, vars
  <2> QED BY <1>1, <1>4, <2>1 DEF managerVars
<1>13. ASSUME NEW i \in Instances, RolloutStep(i) \/ MainLoopStep(i)
       PROVE  UNCHANGED managerVars
  BY <1>13 DEF RolloutStep, StartRollout, SendResult, MarkDone, MarkAborted, Continue,
     Leave, Offload, MainLoopStep, ServeReport, AbortGeneration, HandOver, ServeMigrateIn,
     ServeFinish
<1>14. CASE UNCHANGED managerVars
  BY <1>1, <1>4, <1>14 DEF managerVars
<1> QED BY <1>5, <1>6, <1>7, <1>8, <1>9, <1>10, <1>11, <1>12, <1>13, <1>14 DEF Next, Manager

(* Nothing is counted at the start.                                         *)
LEMMA FitsInit ==
    ASSUME Init
    PROVE  FitsInv
BY DEF Init, FitsInv

(* No step makes the manager count more than the cluster.                   *)
LEMMA FitsNext ==
    ASSUME Books, Books', Turns, Turns', FitsInv, [Next]_vars
    PROVE  FitsInv'
<1> SUFFICES ASSUME iter' >= 0, pc' # "end"
             PROVE  available' >= 0 /\ (ActorHas + RolloutHas + InferenceHas <= TotalGpus)'
  BY DEF FitsInv
<1>1. available' >= 0
  BY GpusMove
<1>2. CASE pc' = "await_actor"
  <2>1. Sum' = TotalGpus
    BY <1>2 DEF Books, BooksMain
  <2>2. /\ ActorHas' \in Nat /\ RolloutHas' \in Nat /\ InferenceHas' \in Nat
        /\ available' \in Int
        /\ Sum' = ActorHas' + RolloutHas' + InferenceHas' + available'
    <3>1. /\ actorNum' \in ValidDpSizes /\ inferenceHeld' \in BOOLEAN /\ available' \in Int
      BY DEF Books, BooksTypes, ValidDpSizes
    <3>2. ASSUME NEW a \in Nat, NEW b \in Nat PROVE a * b \in Nat
      BY <3>2
    <3>3. ActorHas' \in Nat
      BY <3>1, <3>2, Numbers DEF ActorHas
    <3>4. RolloutHas' \in Nat
      <4>1. offset' \in 0 .. NumInstances
        BY DEF Turns
      <4>2. NumInstances - offset' \in Nat
        <5>1. ASSUME NEW n \in Nat, NEW k \in 0 .. n PROVE n - k \in Nat
          OBVIOUS
        <5> QED BY <4>1, <5>1, Numbers, Zenon
      <4>3. (NumInstances - offset') * RolloutParallel \in Nat
        BY <3>2, <4>2, Numbers
      <4> QED BY <4>3 DEF RolloutHas
    <3>5. InferenceHas' \in Nat
      BY Numbers DEF InferenceHas
    <3>6. Sum' = ActorHas' + RolloutHas' + InferenceHas' + available'
      BY DEF Sum, ActorHas, RolloutHas, InferenceHas
    <3> QED BY <3>1, <3>3, <3>4, <3>5, <3>6
  <2>3. ASSUME NEW a \in Nat, NEW r \in Nat, NEW h \in Nat, NEW v \in Int,
               v >= 0, a + r + h + v = TotalGpus
        PROVE  a + r + h <= TotalGpus
    BY <2>3, Numbers
  <2>4. ActorHas' + RolloutHas' + InferenceHas' <= TotalGpus
    BY <1>1, <2>1, <2>2, <2>3, Zenon
  <2> QED BY <1>1, <2>4
<1>3. CASE /\ iter' = iter /\ pc # "end"
           /\ actorNum' = actorNum
           /\ offset' >= offset
           /\ inferenceHeld' => inferenceHeld
  <2>1. ActorHas + RolloutHas + InferenceHas <= TotalGpus
    BY <1>3 DEF FitsInv
  <2>2. ActorHas' = ActorHas
    BY <1>3 DEF ActorHas
  <2>3. RolloutHas' <= RolloutHas
    <3>1. ASSUME NEW n \in Int, NEW a \in Int, NEW b \in Int, NEW p \in Nat, b >= a
          PROVE  (n - b) * p <= (n - a) * p
      BY <3>1
    <3>2. NumInstances \in Int /\ offset \in Int /\ offset' \in Int
          /\ RolloutParallel \in Nat
      BY Numbers DEF Books, BooksTypes
    <3> QED BY <1>3, <3>1, <3>2 DEF RolloutHas
  <2>4. InferenceHas' <= InferenceHas
    <3>1. InferenceGpus \in Nat
      BY Numbers
    <3> QED BY <1>3, <3>1 DEF InferenceHas
  <2>5. /\ ActorHas \in Nat /\ RolloutHas \in Nat /\ InferenceHas \in Nat /\ TotalGpus \in Nat
    BY Held
  <2>6. RolloutHas' \in Int /\ InferenceHas' \in Int
    <3>1. NumInstances \in Int /\ offset' \in Int /\ RolloutParallel \in Int
      BY Numbers DEF Books, BooksTypes
    <3>2. InferenceHas' \in Int
      BY Numbers DEF InferenceHas
    <3> QED BY <3>1, <3>2 DEF RolloutHas
  <2>7. ASSUME NEW a \in Int, NEW r \in Int, NEW h \in Int, NEW t \in Int,
               NEW s \in Int, NEW i \in Int, a + r + h <= t, s <= r, i <= h
        PROVE  a + s + i <= t
    BY <2>7
  <2>8. /\ ActorHas \in Int /\ RolloutHas \in Int /\ InferenceHas \in Int
        /\ TotalGpus \in Int
    BY <2>5
  <2>9. ActorHas + RolloutHas' + InferenceHas' <= TotalGpus
    BY <2>1, <2>3, <2>4, <2>6, <2>7, <2>8, Zenon
  <2> QED BY <1>1, <2>2, <2>9
<1> QED BY <1>2, <1>3, GpusMove

(* A run starts with inference on its GPUs.                                 *)
LEMMA WaitInit ==
    ASSUME Init
    PROVE  WaitInv
<1>1. iter = -1 /\ inferenceHeld /\ NMinibatches \in Nat \ {0}
  BY Numbers DEF Init
<1> QED BY <1>1 DEF WaitInv

(* Steps of the others do not touch what is waited for.                     *)
LEMMA WaitFrame ==
    ASSUME WaitInv, UNCHANGED managerVars, notice = "received" => notice' = "received"
    PROVE  WaitInv'
BY DEF WaitInv, managerVars, AliveNum, ActorHas

(* With all GPUs but its own available, the actor grows onto the cluster.   *)
LEMMA ActorTakesAll ==
    ASSUME NEW cur \in ValidDpSizes, NEW gpus \in Nat,
           cur * ActorParallel + gpus = TotalGpus
    PROVE  GrownSize(cur, gpus) * ActorParallel = TotalGpus
<1> DEFINE R == ReachableSizes(cur, gpus)
           K == TotalGpus \div ActorParallel
           g == GrownSize(cur, gpus)
<1>1. ActorParallel \in Nat \ {0} /\ TotalGpus \in Nat /\ cur \in Nat
  BY Numbers
<1>2. PICK most \in ValidDpSizes : most * ActorParallel = TotalGpus
  BY PlacementAssumption
<1>3. K \in Nat /\ K * ActorParallel <= TotalGpus
  <2>1. ASSUME NEW a \in Nat, NEW b \in Nat \ {0}
        PROVE  a \div b \in Nat /\ (a \div b) * b <= a
    <3>1. PICK q \in Int, r \in 0 .. b - 1 : q = a \div b /\ r = a % b /\ a = q * b + r
      OBVIOUS
    <3>2. q >= 0 /\ q * b <= a
      BY <3>1
    <3>3. q \in Nat
      BY <3>2
    <3> QED BY <3>1, <3>2, <3>3, Zenon
  <2> QED BY <1>1, <2>1
<1>4. ValidDpSizes \subseteq 1 .. K
  BY DEF ValidDpSizes
<1>5. R \subseteq ValidDpSizes
  BY DEF ReachableSizes
<1> HIDE DEF K
<1>6. most \in Nat
  BY <1>2, Numbers
<1>7. most \in R
  <2>1. CASE most > cur
    <3>1. GpusToReach(most, cur) = most * ActorParallel - cur * ActorParallel
      BY <1>1, <1>6 DEF GpusToReach
    <3>2. cur * ActorParallel \in Nat
      <4>1. ASSUME NEW a \in Nat, NEW b \in Nat PROVE a * b \in Nat
        BY <4>1
      <4> QED BY <1>1, <4>1
    <3> DEFINE c == cur * ActorParallel
    <3>3. c \in Nat /\ c + gpus = TotalGpus /\ GpusToReach(most, cur) = TotalGpus - c
      BY <1>2, <3>1, <3>2
    <3> HIDE DEF c
    <3>4. GpusToReach(most, cur) <= gpus
      BY <1>1, <3>3
    <3> QED BY <2>1, <3>4 DEF ReachableSizes
  <2>2. CASE ~(most > cur)
    <3>1. cur >= most
      BY <1>1, <1>6, <2>2
    <3>2. ASSUME NEW a \in Nat, NEW b \in Nat, NEW p \in Nat \ {0}, NEW z \in Nat,
                 a >= b, a * p + z = b * p
          PROVE  a = b
      BY <3>2
    <3>3. cur = most
      <4>1. cur * ActorParallel + gpus = most * ActorParallel
        BY <1>2
      <4> QED BY <1>1, <1>6, <3>1, <3>2, <4>1
    <3> QED BY <3>3 DEF ReachableSizes
  <2> QED BY <2>1, <2>2
<1>8. g \in R /\ g >= most
  <2>g. g = Max(R)
    BY DEF GrownSize, R
  <2> HIDE DEF R, g
  <2>1. R \subseteq 0 .. K
    <3>1. 1 .. K \subseteq 0 .. K
      BY <1>3
    <3> QED BY <1>4, <1>5, <3>1, Zenon
  <2>2. Max(R) \in R /\ \A y \in R : y <= Max(R)
    BY <1>3, <1>7, <2>1, MaximumExists
  <2>3. g \in R /\ most <= g
    BY <1>7, <2>g, <2>2, Zenon
  <2>4. g \in 0 .. K
    BY <2>1, <2>3, Zenon
  <2> QED BY <1>3, <1>6, <2>3, <2>4
<1> HIDE DEF g, R
<1>9. g \in Nat /\ g <= K
  <2>1. g \in 1 .. K
    BY <1>4, <1>5, <1>8, Zenon
  <2> QED BY <1>3, <2>1
<1>10. g = most
  <2>1. ASSUME NEW a \in Nat, NEW b \in Nat, NEW k \in Nat, NEW p \in Nat \ {0},
               a >= b, a <= k, k * p <= b * p
        PROVE  a = b
    BY <2>1
  <2> QED BY <1>1, <1>2, <1>3, <1>6, <1>8, <1>9, <2>1
<1> QED BY <1>2, <1>10 DEF g

(* Every step of the manager waits as the policy says.                      *)
LEMMA WaitNext ==
    ASSUME UseWait, WaitInv, FitsInv, FlowInv, LastInv, Turns, Books, [Next]_vars
    PROVE  WaitInv'
<1>1. /\ NMinibatches \in Nat \ {0} /\ iter \in Int /\ iter >= -1 /\ iter <= NMinibatches - 1
      /\ NumInstances \in Nat /\ offset \in Nat /\ inferenceHeld \in BOOLEAN
  BY Numbers, PlacesType DEF Books, BooksTypes
<1>2. /\ iter = -1 => /\ pc \in {"begin", "pre_process", "migrate", "finish", "components"}
                      /\ inferenceHeld
      /\ pc \in {"begin", "pre_process", "components"} => iter = -1
  BY DEF Books, BooksPre, BooksMain
<1>3. CASE PreProcess \/ PreProcessReports
  <2>1. iter' = iter /\ iter = -1 /\ inferenceHeld' = inferenceHeld
    BY <1>2, <1>3 DEF PreProcess, PreProcessReports
  <2> QED BY <1>1, <1>2, <2>1 DEF WaitInv
<1>4. CASE StartComponents
  <2>1. /\ iter' = 0 /\ pc' = "await_actor" /\ inferenceHeld' = inferenceHeld /\ inferenceHeld
    BY <1>2, <1>4 DEF StartComponents
  <2> QED BY <1>1, <2>1 DEF WaitInv
<1>5. CASE AwaitActor
  <2>1. /\ iter' = iter /\ offset' = offset /\ AliveNum' = AliveNum
        /\ inferenceHeld' = inferenceHeld /\ notice' = notice /\ actorNum' = actorNum
        /\ pc = "await_actor"
    BY <1>5 DEF AwaitActor, AliveNum, inferenceVars
  <2>2. \/ offset = NumInstances /\ pc' = "inference"
        \/ pc' = "finish" /\ leaving' = AliveNum
        \/ pc' = "report"
    BY <1>5 DEF AwaitActor, FinishAll
  <2> QED BY <2>1, <2>2 DEF WaitInv, ActorHas
<1>6. CASE ReleaseRollout
  <2>1. /\ iter' = iter /\ offset' = offset /\ AliveNum' = AliveNum
        /\ inferenceHeld' = inferenceHeld /\ notice' = notice /\ actorNum' = actorNum
        /\ pc = "report"
    BY <1>6 DEF ReleaseRollout, AliveNum, inferenceVars
  <2>2. iter \in 0 .. NMinibatches - 2
    BY <2>1 DEF Books, BooksMain
  <2>3. \/ pc' = "finish" /\ leaving' = AliveNum
        \/ iter # NMinibatches - 2 /\ pc' \in {"migrate", "inference"}
    BY <1>6 DEF ReleaseRollout, FinishAll, MigrateOut
  <2> QED BY <1>1, <2>1, <2>2, <2>3 DEF WaitInv, ActorHas
<1>7. CASE Migrate
  <2>1. /\ UNCHANGED <<iter, offset, inferenceHeld, notice, actorNum>>
        /\ pc = "migrate" /\ pc' = "finish"
    BY <1>7 DEF Migrate, inferenceVars
  <2> QED BY <1>1, <2>1 DEF WaitInv, ActorHas
<1>8. CASE Finished
  <2>1. /\ UNCHANGED <<iter, inferenceHeld, notice, actorNum>>
        /\ pc = "finish" /\ pc' \in {"components", "inference"}
        /\ offset' = offset + leaving
        /\ leaving \in Nat
    BY <1>1, <1>8, PlacesType DEF Finished, inferenceVars, Turns
  <2>2. offset + AliveNum = NumInstances
    BY <1>1 DEF AliveNum
  <2>3. offset = NumInstances => offset' = NumInstances
    <3>1. leaving \in 0 .. AliveNum /\ AliveNum \in Int
      BY <1>1, <2>1 DEF Turns, AliveNum
    <3> SUFFICES ASSUME offset = NumInstances PROVE offset + leaving = NumInstances
      BY <2>1
    <3>2. AliveNum = 0
      BY <1>1, <2>2, <3>1
    <3>3. leaving = 0
      BY <3>1, <3>2
    <3> QED BY <1>1, <3>3
  <2> QED BY <1>1, <2>1, <2>2, <2>3 DEF WaitInv, ActorHas
<1>9. CASE ReleaseInference
  <2>1. /\ UNCHANGED <<iter, offset, notice, actorNum>>
        /\ pc = "inference" /\ pc' = "actor" /\ iter >= 0
        /\ MustWait => notice = "received"
    BY <1>1, <1>2, <1>9 DEF ReleaseInference, inferenceVars
  <2> DEFINE released == iter < NMinibatches - 1 /\ inferenceHeld /\ MustWait
  <2>2. inferenceHeld' = (inferenceHeld /\ ~released)
    BY <1>9, Zenon DEF ReleaseInference
  <2>3. inferenceHeld' = FALSE \/ inferenceHeld' = TRUE
    BY <1>1, <2>2, Zenon
  <2>4. ASSUME ~inferenceHeld'
        PROVE  offset = NumInstances /\ notice = "received"
    <3>1. ~inferenceHeld \/ released
      BY <1>1, <2>2, <2>4, Zenon
    <3>2. CASE ~inferenceHeld
      BY <3>2 DEF WaitInv
    <3>3. CASE released
      <4>1. notice = "received" /\ iter < NMinibatches - 1 /\ MustWait
        BY <2>1, <3>3
      <4>2. iter = NMinibatches - 2 \/ offset = NumInstances
        BY <1>1, <4>1 DEF MustWait
      <4> QED BY <2>1, <4>1, <4>2 DEF WaitInv
    <3> QED BY <3>1, <3>2, <3>3
  <2>5. iter = NMinibatches - 2 => ~inferenceHeld'
    <3>1. ASSUME iter = NMinibatches - 2, inferenceHeld
          PROVE  released
      BY <1>1, <3>1 DEF MustWait
    <3> QED BY <1>1, <2>2, <3>1, Zenon
  <2> QED BY <1>1, <2>1, <2>4, <2>5 DEF WaitInv, ActorHas
<1>10. CASE AllocateActor
  <2>1. /\ UNCHANGED <<offset, inferenceHeld, notice>>
        /\ pc = "actor" /\ pc' = "await_actor" /\ iter' = iter + 1
        /\ iter < NMinibatches - 1 /\ iter >= 0
        /\ actorNum' = GrownSize(actorNum, available)
    BY <1>1, <1>2, <1>10 DEF AllocateActor, Scale, inferenceVars
  <2>2. ASSUME iter = NMinibatches - 2
        PROVE  offset = NumInstances /\ ActorHas' = TotalGpus
    <3>1. offset = NumInstances /\ ~inferenceHeld
      BY <2>1, <2>2 DEF WaitInv
    <3>2. RolloutHas = 0 /\ InferenceHas = 0
      BY <1>1, <3>1, Numbers DEF RolloutHas, InferenceHas
    <3>3. Sum = TotalGpus
      BY <1>1, <2>1, <2>2 DEF Books, BooksMain
    <3>4. available \in Nat
      BY <2>1 DEF FitsInv, Books, BooksTypes
    <3>5. ActorHas + available = TotalGpus
      BY <3>2, <3>3, Held
    <3>6. actorNum \in ValidDpSizes
      BY DEF Books, BooksTypes
    <3>7. GrownSize(actorNum, available) * ActorParallel = TotalGpus
      BY <3>4, <3>5, <3>6, ActorTakesAll DEF ActorHas
    <3> QED BY <2>1, <3>1, <3>7 DEF ActorHas
  <2> QED BY <1>1, <2>1, <2>2 DEF WaitInv
<1>11. CASE ShrinkActor
  <2>1. /\ UNCHANGED <<iter, offset, inferenceHeld, notice>>
        /\ pc = "actor" /\ pc' = "end" /\ iter = NMinibatches - 1
    BY <1>11 DEF ShrinkActor, inferenceVars
  <2> QED BY <1>1, <2>1 DEF WaitInv
<1>12. CASE NextGlobalStep
  BY <1>1, <1>12 DEF NextGlobalStep, WaitInv
<1>13. CASE \/ NoticeArrives \/ Actor \/ Inference \/ UNCHANGED vars
            \/ \E i \in Instances : RolloutStep(i) \/ MainLoopStep(i)
  BY <1>13, OtherSteps, WaitFrame
<1> QED BY <1>3, <1>4, <1>5, <1>6, <1>7, <1>8, <1>9, <1>10, <1>11, <1>12, <1>13
        DEF Next, Manager

(* With that policy, all of this holds in every state.                      *)
LEMMA WaitHolds ==
    ASSUME UseWait
    PROVE  Spec => [](GlobalInv /\ FitsInv /\ WaitInv)
<1>1. Init => GlobalInv /\ FitsInv /\ WaitInv
  BY GlobalInit, FitsInit, WaitInit
<1>2. GlobalInv /\ FitsInv /\ WaitInv /\ [Next]_vars => (GlobalInv /\ FitsInv /\ WaitInv)'
  <2> SUFFICES ASSUME GlobalInv, FitsInv, WaitInv, [Next]_vars
               PROVE  GlobalInv' /\ FitsInv' /\ WaitInv'
    OBVIOUS
  <2>1. GlobalInv'
    BY GlobalNext
  <2>2. Books /\ Turns /\ FlowInv /\ LastInv /\ Books' /\ Turns'
    BY <2>1 DEF GlobalInv, ProtocolInv
  <2> QED BY UseWait, <2>1, <2>2, FitsNext, WaitNext
<1> QED BY <1>1, <1>2, PTL DEF Spec

(* With use_wait_before_last_iter_policy the actor trains the last          *)
(* iteration on the whole cluster: by then every instance is closed and     *)
(* inference released, the GPUs available are all but the actor's own, and  *)
(* the largest valid size is the cluster.                                   *)
THEOREM LastIterationOnAll ==
    ASSUME UseWait
    PROVE  Spec => []LastIterationTakesAll
<1>1. ASSUME GlobalInv, WaitInv, NMinibatches > 1,
             actor = "training", trained = NMinibatches - 1
      PROVE  width = TotalGpus
  <2>1. Training /\ NMinibatches \in Nat
    BY <1>1, Numbers
       DEF GlobalInv, StageInv, Blocked, Asking, Heard, Decided, Over
  <2>2. iter = NMinibatches - 1 /\ pc = "await_actor"
    BY <1>1, <2>1 DEF Training, Turn, Open
  <2> QED BY <1>1, <2>1, <2>2 DEF WaitInv, Training
<1>2. GlobalInv /\ WaitInv => LastIterationTakesAll
  BY <1>1 DEF LastIterationTakesAll
<1> QED BY UseWait, <1>2, WaitHolds, PTL

(* The actor's world size, where it holds GPUs at all, stays below the      *)
(* first instance that is not closed and below inference unless that has    *)
(* finished: width is the number of the first GPU the actor does not hold.  *)
LEMMA ActorStaysBelow ==
    ASSUME GlobalInv, FitsInv, WaitInv, actor # "blocked"
    PROVE  /\ width \in Nat
           /\ inference # "offloaded" => width <= TotalGpus - InferenceGpus
           /\ \A i \in Instances :
                 rollout[i] # "exited" => width <= FirstRolloutGpu + (i - 1) * RolloutParallel
<1>1. /\ Books /\ ProtocolInv /\ Turns /\ StageInv /\ FlowInv /\ LastInv
  BY DEF GlobalInv, ProtocolInv
<1>2. width \in Nat
  BY <1>1 DEF StageInv
<1>3. /\ offset \in 0 .. NumInstances /\ NumInstances \in Nat
      /\ RolloutParallel \in Nat /\ InferenceGpus \in Nat
      /\ TotalGpus \in Nat /\ ActorGpus \in Nat /\ FirstRolloutGpu \in Nat
      /\ TotalGpus = FirstRolloutGpu + NumInstances * RolloutParallel + InferenceGpus
  BY <1>1, Numbers, PlacementAssumption DEF Turns, FirstRolloutGpu
<1>4. ASSUME NEW i \in Instances, rollout[i] # "exited"
      PROVE  i \in Nat /\ offset <= i - 1 /\ i <= NumInstances /\ offset < NumInstances
  <2>1. i \in 1 .. NumInstances
    BY DEF Instances
  <2>2. i > offset
    <3>1. Stage(i)
      BY <1>1 DEF ProtocolInv, InstanceOk
    <3> QED BY <1>4, <3>1 DEF Stage, Closed
  <2> QED BY <1>3, <2>1, <2>2
<1>5. inference # "offloaded" => notice # "received"
  BY <1>1 DEF FlowInv
<1>6. ASSUME NEW k \in Nat, k <= NumInstances
      PROVE  k * RolloutParallel \in Nat /\ k * RolloutParallel <= NumInstances * RolloutParallel
  <2>1. ASSUME NEW a \in Nat, NEW b \in Nat, NEW p \in Nat, a <= b
        PROVE  a * p \in Nat /\ a * p <= b * p
    BY <2>1
  <2> QED BY <1>3, <1>6, <2>1
(* Where it is enough to stay below the first instance not closed.          *)
<1>7. ASSUME offset < NumInstances \/ inferenceHeld,
             width <= FirstRolloutGpu + offset * RolloutParallel
      PROVE  /\ width <= TotalGpus - InferenceGpus
             /\ \A i \in Instances :
                   rollout[i] # "exited" =>
                      width <= FirstRolloutGpu + (i - 1) * RolloutParallel
  <2>1. width <= TotalGpus - InferenceGpus
    <3> DEFINE closed == offset * RolloutParallel
               all == NumInstances * RolloutParallel
    <3>1. closed \in Nat /\ closed <= all
      BY <1>3, <1>6
    <3>2. all \in Nat
      BY <1>3, <1>6
    <3> HIDE DEF closed, all
    <3>3. TotalGpus = FirstRolloutGpu + all + InferenceGpus
      BY <1>3 DEF all
    <3>4. width <= FirstRolloutGpu + closed
      BY <1>7 DEF closed
    <3> QED BY <1>2, <1>3, <3>1, <3>2, <3>3, <3>4
  <2>2. ASSUME NEW i \in Instances, rollout[i] # "exited"
        PROVE  width <= FirstRolloutGpu + (i - 1) * RolloutParallel
    <3>1. i \in Nat /\ offset <= i - 1
      BY <1>4, <2>2
    <3>2. ASSUME NEW a \in Nat, NEW b \in Nat, NEW p \in Nat, NEW f \in Nat, NEW w \in Nat,
                 a <= b, w <= f + a * p
          PROVE  w <= f + b * p
      <4>1. a * p <= b * p /\ a * p \in Nat /\ b * p \in Nat
        BY <3>2
      <4> DEFINE x == a * p
                 y == b * p
      <4>2. x \in Nat /\ y \in Nat /\ x <= y /\ w <= f + x
        BY <3>2, <4>1
      <4> HIDE DEF x, y
      <4>3. w <= f + y
        BY <4>2
      <4> QED BY <4>3 DEF y
    <3>3. i - 1 \in Nat /\ offset \in Nat
      BY <1>3, <3>1
    <3> QED BY <1>2, <1>3, <1>7, <3>1, <3>2, <3>3
  <2> QED BY <2>1, <2>2
<1>8. CASE iter = -1
  <2>1. Training \/ Asking
    <3>1. NMinibatches - 1 # -1
      BY Numbers
    <3>2. ~Blocked /\ ~Heard /\ ~Decided /\ ~Over
      BY <1>8, <3>1 DEF Blocked, Heard, Decided, Over
    <3> QED BY <1>1, <3>2 DEF StageInv
  <2>2. width = ActorHas /\ ~UsePreProcess
    BY <1>1, <1>8, <2>1 DEF Training, Asking, Open, Books, BooksMain
  <2>3. actorNum = FirstActorNum /\ inferenceHeld
    BY <1>1, <1>8 DEF Books, BooksPre
  <2>4. width = FirstRolloutGpu
    BY <2>2, <2>3, PlacementAssumption DEF ActorHas, FirstRolloutGpu
  <2>5. offset * RolloutParallel \in Nat
    BY <1>3, <1>6
  <2>6. width <= FirstRolloutGpu + offset * RolloutParallel
    BY <1>3, <2>4, <2>5
  <2> QED BY <1>2, <1>7, <2>3, <2>6
<1>9. CASE pc = "end"
  <2>1. iter = NMinibatches - 1 /\ offset = NumInstances /\ notice = "received"
    BY <1>1, <1>9 DEF LastInv
  <2> QED BY <1>2, <1>3, <1>4, <1>5, <2>1
<1>10. CASE iter # -1 /\ pc # "end"
  <2>1. iter >= 0
    BY <1>1, <1>10 DEF Books, BooksTypes
  <2>2. width <= ActorHas
    <3>1. ActorHas \in Nat
      BY <1>1, Held
    <3> QED BY <1>1, <1>2, <1>10, <3>1
            DEF StageInv, Blocked, Training, Asking, Heard, Decided, Over
  <2>3. ActorHas + RolloutHas + InferenceHas <= TotalGpus
    BY <1>10, <2>1 DEF FitsInv
  <2>4. CASE ~inferenceHeld
    <3>1. offset = NumInstances /\ notice = "received"
      BY <2>4 DEF WaitInv
    <3> QED BY <1>2, <1>3, <1>4, <1>5, <3>1
  <2>5. CASE inferenceHeld
    <3> DEFINE closed == offset * RolloutParallel
               all == NumInstances * RolloutParallel
    <3>1. closed \in Nat /\ all \in Nat
      BY <1>3, <1>6
    <3>2. RolloutHas = all - closed
      BY <1>3 DEF RolloutHas
    <3>3. InferenceHas = InferenceGpus
      BY <2>5 DEF InferenceHas
    <3>4. ActorHas \in Nat
      BY <1>1, Held
    <3> HIDE DEF closed, all
    <3>5. TotalGpus = FirstRolloutGpu + all + InferenceGpus
      BY <1>3 DEF all
    <3>6. width <= FirstRolloutGpu + closed
      BY <1>2, <1>3, <2>2, <2>3, <3>1, <3>2, <3>3, <3>4, <3>5
    <3> QED BY <1>2, <1>7, <2>5, <3>6 DEF closed
  <2> QED BY <2>4, <2>5
<1> QED BY <1>8, <1>9, <1>10

(* No GPU holds the weights of two components at once, with the policy of   *)
(* waiting before the last iteration.  The manager counts GPUs; that the    *)
(* ones it counts are the ones given up is what the invariants say: what is *)
(* held fits the cluster, instances are closed in the order of their GPUs,  *)
(* and inference, which has the last GPUs, is released after all of them.   *)
THEOREM NoGpuIsShared ==
    ASSUME UseWait
    PROVE  Spec => []NoSharedGpu
<1>1. ASSUME GlobalInv, FitsInv, WaitInv
      PROVE  NoSharedGpu
  <2>1. /\ NumInstances \in Nat /\ RolloutParallel \in Nat \ {0} /\ InferenceGpus \in Nat
        /\ TotalGpus \in Nat /\ FirstRolloutGpu \in Nat
        /\ TotalGpus = FirstRolloutGpu + NumInstances * RolloutParallel + InferenceGpus
    BY Numbers, PlacementAssumption DEF FirstRolloutGpu
  <2>2. ASSUME NEW n \in HeldByActor, n \in HeldByInference
        PROVE  FALSE
    <3>1. actor # "blocked" /\ n \in 0 .. width - 1
      BY <2>2 DEF HeldByActor
    <3>2. inference # "offloaded" /\ n \in TotalGpus - InferenceGpus .. TotalGpus - 1
      BY <2>2 DEF HeldByInference
    <3>3. width \in Nat /\ width <= TotalGpus - InferenceGpus
      BY <1>1, <3>1, <3>2, ActorStaysBelow
    <3> QED BY <2>1, <3>1, <3>2, <3>3
  <2>3. ASSUME NEW i \in Instances, NEW n \in HeldByRollout(i)
        PROVE  n \notin HeldByActor /\ n \notin HeldByInference
    <3> DEFINE first == FirstRolloutGpu + (i - 1) * RolloutParallel
               last == FirstRolloutGpu + i * RolloutParallel - 1
    <3>1. rollout[i] # "exited" /\ n \in first .. last
      BY <2>3 DEF HeldByRollout
    <3>2. i \in Nat /\ i - 1 \in Nat /\ i <= NumInstances
      BY <2>1 DEF Instances
    <3>3. first \in Nat /\ last \in Int /\ last < TotalGpus - InferenceGpus
      <4>1. ASSUME NEW a \in Nat, NEW b \in Nat, NEW p \in Nat, a <= b
            PROVE  a * p \in Nat /\ b * p \in Nat /\ a * p <= b * p
        BY <4>1
      <4>2. /\ (i - 1) * RolloutParallel \in Nat
            /\ i * RolloutParallel \in Nat /\ NumInstances * RolloutParallel \in Nat
            /\ i * RolloutParallel <= NumInstances * RolloutParallel
        <5>1. i - 1 <= NumInstances
          BY <2>1, <3>2
        <5> QED BY <2>1, <3>2, <4>1, <5>1
      <4> DEFINE x == i * RolloutParallel
                 all == NumInstances * RolloutParallel
      <4>3. x \in Nat /\ all \in Nat /\ x <= all /\ last = FirstRolloutGpu + x - 1
        BY <4>2
      <4>4. TotalGpus = FirstRolloutGpu + all + InferenceGpus
        BY <2>1
      <4>5. first \in Nat
        BY <2>1, <4>2
      <4> HIDE DEF x, all, last, first
      <4> QED BY <2>1, <4>3, <4>4, <4>5
    <3>4. ASSUME actor # "blocked"
          PROVE  width \in Nat /\ width <= first
      BY <1>1, <3>1, <3>4, ActorStaysBelow
    <3> HIDE DEF first, last
    <3>5. n \in Int /\ first <= n /\ n <= last
      BY <3>1, <3>3
    <3>6. n \notin HeldByActor
      BY <3>3, <3>4, <3>5 DEF HeldByActor
    <3>7. n \notin HeldByInference
      BY <2>1, <3>3, <3>5 DEF HeldByInference
    <3> QED BY <3>6, <3>7
  <2> QED BY <2>2, <2>3 DEF NoSharedGpu
<1> QED BY UseWait, <1>1, WaitHolds, PTL
=============================================================================
