-------------------------- MODULE DynamicBatch_proofs --------------------------
(***************************************************************************)
(* What the ranks infer and keep is accounted for in every setting         *)
(* (ShareInv), so that at the end nothing is held back.  That they stop at *)
(* the same reduction holds when they begin every round with as many       *)
(* results as one another (IInv).                                          *)
(***************************************************************************)
EXTENDS DynamicBatch, FiniteSetTheorems, TLAPS

Kept(g) == IF g = "none" THEN 0 ELSE 1

SameTotal == \A r, s \in Ranks : total[r] = total[s]

EndsWithShare == \A r \in Ranks : pc[r] = "done" => total[r] = PerDp

(* A rank holds, and has asked for, no more than it has yet to infer. *)
WithinShare == \A r \in Ranks : held[r] + Kept(get[r]) <= Left(r)

Agreeing == \A r \in Ranks : pc[r] \in {"loop", "reduce", "infer"} => agreed[r] <= held[r]

(* A rank that infers has what all ranks agreed on.  Others may reduce once *)
(* more; as that takes every rank, they get no further.                     *)
InferAgreed ==
    \A r, s \in Ranks : pc[r] = "infer" =>
        pc[s] \in {"loop", "reduce", "infer"} /\ agreed[s] = agreed[r]

ShareInv ==
    /\ TypeOK
    /\ SameTotal
    /\ EndsWithShare
    /\ WithinShare
    /\ Agreeing
    /\ InferAgreed

(* What a rank kept is never more than it has to begin a round with: a full *)
(* round leaves nothing without the pipeline, and at most one with it when  *)
(* a round takes at most two.                                               *)
BeginsAlike == Pipelined => MaxLen <= 2

(* The ranks are at the same stage of the same round. *)
SameStage ==
    \/ \A r \in Ranks : pc[r] \in {"fill", "loop", "reduce"} /\ total[r] < PerDp
    \/ \A r \in Ranks : pc[r] = "infer" /\ total[r] < PerDp
    \/ \A r \in Ranks : pc[r] = "done" /\ total[r] = PerDp

Filling == \A r \in Ranks : pc[r] = "fill" => held[r] <= MinNow(r)

Looping ==
    \A r \in Ranks : pc[r] \in {"loop", "reduce", "infer"} =>
        /\ held[r] <= MaxNow(r)
        /\ MinNow(r) <= agreed[r] /\ agreed[r] <= held[r]

(* Until all have begun, those who have begun did so with the same count.   *)
FirstCount ==
    \A r, s \in Ranks :
        pc[r] = "fill" /\ pc[s] \in {"loop", "reduce"} => agreed[s] = MinNow(s)

SameCount ==
    \A r, s \in Ranks :
        pc[r] \in {"loop", "reduce", "infer"} /\ pc[s] \in {"loop", "reduce", "infer"} =>
            agreed[r] = agreed[s]

IInv ==
    /\ ShareInv
    /\ SameStage
    /\ Filling
    /\ Looping
    /\ FirstCount
    /\ SameCount

-----------------------------------------------------------------------------
(* Some result may be taken in every round. *)
LEMMA MaxLenBounds == MaxLen \in 1 .. PerDp
<1>1. PerDp \in Nat /\ Split \in Nat /\ 1 <= Split /\ Split <= PerDp
  BY SizesAssumption
<1>2. PerDp = Split * (PerDp \div Split) + (PerDp % Split)
  /\ PerDp % Split \in 0 .. Split - 1 /\ PerDp \div Split \in Int
  BY <1>1
<1>3. PerDp \div Split >= 1
  <2>1. SUFFICES ASSUME PerDp \div Split <= 0 PROVE FALSE
    BY <1>2
  <2>2. Split * (PerDp \div Split) <= 0
    BY <1>1, <1>2, <2>1
  <2> QED
    BY <1>1, <1>2, <2>2
<1>4. PerDp \div Split <= PerDp
  <2>1. SUFFICES ASSUME PerDp \div Split > PerDp PROVE FALSE
    BY <1>1, <1>2
  <2>2. Split * (PerDp \div Split) >= PerDp \div Split
    BY <1>1, <1>2, <1>3
  <2> QED
    BY <1>1, <1>2, <2>1, <2>2
<1> QED
  BY <1>2, <1>3, <1>4 DEF MaxLen

LEMMA MinLenBounds == MinLen \in 1 .. MaxLen
BY MaxLenBounds, SizesAssumption DEF MinLen

(* The bounds of a round while a rank has results left to infer. *)
LEMMA RoundBounds ==
    ASSUME NEW r \in Ranks, total[r] \in Nat, total[r] < PerDp
    PROVE  /\ MinNow(r) \in 1 .. MaxNow(r)
           /\ MaxNow(r) \in 1 .. Left(r)
           /\ MaxNow(r) <= MaxLen
           /\ Left(r) \in Nat
BY MaxLenBounds, MinLenBounds, SizesAssumption DEF MinNow, MaxNow, Least, Left
-----------------------------------------------------------------------------
LEMMA ShareInit == Init => ShareInv
<1> SUFFICES ASSUME Init PROVE ShareInv
  OBVIOUS
<1>1. Cardinality(Ranks) \in Nat
  BY RanksAssumption, FS_CardinalityType
<1>2. due \in Nat
  BY <1>1, SizesAssumption DEF Init
<1>3. TypeOK
  BY <1>2 DEF Init, TypeOK
<1> QED
  BY <1>3, SizesAssumption
     DEF Init, ShareInv, SameTotal, EndsWithShare, WithinShare, Agreeing, InferAgreed, Kept, Left

(* A rank takes a result, and asks for one, only while it holds fewer than  *)
(* it has left; and all infer the same number.                              *)
LEMMA ShareStep ==
    ASSUME ShareInv, [Next]_vars
    PROVE  ShareInv'
<1> USE DEF ShareInv
<1>0. /\ PerDp \in Nat
      /\ \A r \in Ranks :
             /\ MinNow(r) \in Int /\ MinNow(r) <= Left(r)
             /\ MaxNow(r) \in Int /\ MaxNow(r) <= Left(r)
  BY MaxLenBounds, MinLenBounds, SizesAssumption DEF TypeOK, MinNow, MaxNow, Least, Left
<1>1. CASE UNCHANGED vars
  BY <1>1 DEF vars, channelVars, rankVars, TypeOK, SameTotal, EndsWithShare, WithinShare,
      Agreeing, InferAgreed, Left
<1>2. CASE Produce
  BY <1>2 DEF Produce, rankVars, TypeOK, SameTotal, EndsWithShare, WithinShare,
      Agreeing, InferAgreed, Left
<1>3. ASSUME NEW r \in Ranks, Answer(r) PROVE ShareInv'
  BY <1>3 DEF Answer, TypeOK, SameTotal, EndsWithShare, WithinShare, Agreeing, InferAgreed,
      Left, Kept
<1>4. ASSUME NEW r \in Ranks, FillFromGet(r) PROVE ShareInv'
  BY <1>0, <1>4 DEF FillFromGet, channelVars, TypeOK, SameTotal, EndsWithShare, WithinShare,
      Agreeing, InferAgreed, Left, Kept
<1>5. ASSUME NEW r \in Ranks, FillFromChannel(r) PROVE ShareInv'
  BY <1>0, <1>5 DEF FillFromChannel, TypeOK, SameTotal, EndsWithShare, WithinShare,
      Agreeing, InferAgreed, Left, Kept
<1>6. ASSUME NEW r \in Ranks, Begin(r) PROVE ShareInv'
  BY <1>0, <1>6 DEF Begin, channelVars, TypeOK, SameTotal, EndsWithShare, WithinShare,
      Agreeing, InferAgreed, Left
<1>7. ASSUME NEW r \in Ranks, Ask(r) PROVE ShareInv'
  BY <1>0, <1>7 DEF Ask, channelVars, TypeOK, SameTotal, EndsWithShare, WithinShare,
      Agreeing, InferAgreed, Left, Kept
<1>8. ASSUME NEW r \in Ranks, Append(r) PROVE ShareInv'
  BY <1>0, <1>8 DEF Append, channelVars, TypeOK, SameTotal, EndsWithShare, WithinShare,
      Agreeing, InferAgreed, Left, Kept
<1>9. ASSUME NEW r \in Ranks, TimesOut(r) \/ Full(r) PROVE ShareInv'
  BY <1>0, <1>9 DEF TimesOut, Full, channelVars, TypeOK, SameTotal, EndsWithShare, WithinShare,
      Agreeing, InferAgreed, Left
<1>10. ASSUME NEW q \in Ranks, Reduce(held[q]) PROVE ShareInv'
  BY <1>0, <1>10 DEF Reduce, channelVars, TypeOK, SameTotal, EndsWithShare, WithinShare,
      Agreeing, InferAgreed, Left
<1>11. CASE Infer
  <2>1. \A r \in Ranks :
      /\ pc[r] = "infer" /\ total[r] \in Nat /\ held[r] \in Nat /\ agreed[r] \in Nat
      /\ agreed[r] <= held[r]
    BY <1>11 DEF Infer, TypeOK, Agreeing
  <2>2. TypeOK'
    BY <2>1, <1>11 DEF Infer, TypeOK, channelVars
  <2>3. SameTotal'
    BY <2>1, <1>11 DEF Infer, SameTotal, InferAgreed
  <2>4. WithinShare'
    BY <2>1, <1>0, <1>11 DEF Infer, WithinShare, Left, Kept, TypeOK
  <2>5. \A r \in Ranks : total'[r] \in Nat /\ total'[r] <= PerDp
    BY <2>1, <1>0, <1>11 DEF Infer, WithinShare, Left, Kept, TypeOK
  <2>6. EndsWithShare'
    BY <2>1, <2>5, <1>0, <1>11 DEF Infer, EndsWithShare
  <2>7. Agreeing' /\ InferAgreed'
    BY <2>1, <1>11 DEF Infer, Agreeing, InferAgreed
  <2> QED
    BY <2>2, <2>3, <2>4, <2>6, <2>7
<1> QED
  BY <1>1, <1>2, <1>3, <1>4, <1>5, <1>6, <1>7, <1>8, <1>9, <1>10, <1>11
     DEF Next, RankStep, ReduceLeast

(* A rank that has its share holds no further result and no open get, with  *)
(* and without the pipeline, for rounds of any size.                        *)
THEOREM NothingIsHeldBack == Spec => []NothingHeldBack
<1>1. ShareInv /\ [Next]_vars => ShareInv'
  BY ShareStep
<1>2. ShareInv => NothingHeldBack
  BY SizesAssumption
     DEF ShareInv, TypeOK, EndsWithShare, WithinShare, NothingHeldBack, Left, Kept
<1> QED
  BY ShareInit, <1>1, <1>2, PTL DEF Spec

-----------------------------------------------------------------------------
LEMMA InitInvariant == Init => IInv
<1> SUFFICES ASSUME Init PROVE IInv
  OBVIOUS
<1>1. ShareInv
  BY ShareInit
<1>2. \A r \in Ranks : total[r] < PerDp
  BY SizesAssumption DEF Init
<1>3. \A r \in Ranks : MinNow(r) \in 1 .. MaxNow(r)
  BY <1>1, <1>2, RoundBounds DEF ShareInv, TypeOK
<1> QED
  BY <1>1, <1>2, <1>3
     DEF Init, IInv, SameStage, Filling, Looping, FirstCount, SameCount

(* The part of the invariant that a step of one rank r can disturb is that  *)
(* of r, and the relation of r's count to those of the others.              *)
LEMMA StepInvariant ==
    ASSUME BeginsAlike, IInv, [Next]_vars
    PROVE  IInv'
<1> USE DEF IInv, ShareInv
<1>S. ShareInv'
  BY ShareStep
<1>0. /\ \A r \in Ranks : total[r] < PerDp =>
             /\ MinNow(r) \in 1 .. MaxNow(r)
             /\ MaxNow(r) \in 1 .. Left(r)
             /\ MaxNow(r) <= MaxLen
             /\ Left(r) \in Nat
      /\ MaxLen \in 1 .. PerDp
      /\ MinLen \in 1 .. MaxLen
      /\ PerDp \in Nat
  BY RoundBounds, MaxLenBounds, MinLenBounds, SizesAssumption DEF TypeOK
<1>1. CASE UNCHANGED vars
  BY <1>S, <1>1 DEF vars, channelVars, rankVars, TypeOK, SameStage, SameTotal, WithinShare,
      Filling, Looping, FirstCount, SameCount, Left, MinNow, MaxNow
<1>2. CASE Produce
  BY <1>S, <1>2 DEF Produce, rankVars, TypeOK, SameStage, SameTotal, WithinShare,
      Filling, Looping, FirstCount, SameCount, Left, MinNow, MaxNow
<1>3. ASSUME NEW r \in Ranks, Answer(r) PROVE IInv'
  BY <1>S, <1>3 DEF Answer, TypeOK, SameStage, SameTotal, WithinShare,
      Filling, Looping, FirstCount, SameCount, Left, MinNow, MaxNow, Kept
<1>4. ASSUME NEW r \in Ranks, FillFromGet(r) PROVE IInv'
  BY <1>S, <1>0, <1>4 DEF FillFromGet, channelVars, TypeOK, SameStage, SameTotal, WithinShare,
      Filling, Looping, FirstCount, SameCount, Left, MinNow, MaxNow, Kept
<1>5. ASSUME NEW r \in Ranks, FillFromChannel(r) PROVE IInv'
  BY <1>S, <1>0, <1>5 DEF FillFromChannel, TypeOK, SameStage, SameTotal, WithinShare,
      Filling, Looping, FirstCount, SameCount, Left, MinNow, MaxNow, Kept
<1>6. ASSUME NEW r \in Ranks, Begin(r) PROVE IInv'
  BY <1>S, <1>0, <1>6 DEF Begin, channelVars, TypeOK, SameStage, SameTotal, WithinShare,
      Filling, Looping, FirstCount, SameCount, Left, MinNow, MaxNow, Least
<1>7. ASSUME NEW r \in Ranks, Ask(r) PROVE IInv'
  BY <1>S, <1>0, <1>7 DEF Ask, channelVars, TypeOK, SameStage, SameTotal, WithinShare,
      Filling, Looping, FirstCount, SameCount, Left, MinNow, MaxNow, Kept
<1>8. ASSUME NEW r \in Ranks, Append(r) PROVE IInv'
  BY <1>S, <1>0, <1>8 DEF Append, channelVars, TypeOK, SameStage, SameTotal, WithinShare,
      Filling, Looping, FirstCount, SameCount, Left, MinNow, MaxNow, Kept
<1>9. ASSUME NEW r \in Ranks, TimesOut(r) \/ Full(r) PROVE IInv'
  BY <1>S, <1>0, <1>9 DEF TimesOut, Full, channelVars, TypeOK, SameStage, SameTotal, WithinShare,
      Filling, Looping, FirstCount, SameCount, Left, MinNow, MaxNow
<1>10. ASSUME NEW q \in Ranks, Reduce(held[q]) PROVE IInv'
  BY <1>S, <1>0, <1>10 DEF Reduce, channelVars, TypeOK, SameStage, SameTotal, WithinShare,
      Filling, Looping, FirstCount, SameCount, Left, MinNow, MaxNow
<1>11. CASE Infer
  <2>1. \A r \in Ranks :
      /\ pc[r] = "infer" /\ total[r] < PerDp /\ total[r] \in Nat
      /\ held[r] \in Nat /\ agreed[r] \in Nat /\ agreed[r] >= 1
    BY <1>0, <1>11, RanksAssumption DEF Infer, SameStage, TypeOK, Looping
  <2>2. TypeOK' /\ SameTotal'
    BY <1>S
  <2>5. \A r \in Ranks : total'[r] <= PerDp
    BY <2>1, <1>0, <1>11 DEF Infer, WithinShare, Left, Kept, TypeOK, Looping
  <2>6. SameStage'
    BY <2>1, <2>2, <2>5, <1>0, <1>11 DEF Infer, SameStage, SameTotal, TypeOK
  <2>7. Filling'
    <3>1. SUFFICES ASSUME NEW r \in Ranks, total'[r] < PerDp PROVE held'[r] <= MinNow(r)'
      BY <2>1, <1>11 DEF Infer, Filling
    <3>2. MinNow(r)' \in Nat /\ MinNow(r)' >= 1
      BY <3>1, <2>2, <1>0 DEF MinNow, Least, Left, TypeOK
    <3>3. held'[r] = held[r] - agreed[r]
      BY <1>11 DEF Infer
    <3>4. held[r] <= MaxNow(r) /\ MinNow(r) <= agreed[r] /\ MinNow(r) \in Nat /\ MaxNow(r) \in Nat
      BY <2>1, <1>0 DEF Looping
    <3>5. CASE Pipelined
      <4>1. held[r] <= 2
        BY <3>4, <3>5, <2>1, <1>0, BeginsAlike DEF BeginsAlike
      <4> QED
        BY <3>2, <3>3, <2>1, <4>1
    <3>6. CASE ~Pipelined
      <4>1. MinNow(r) = MaxNow(r)
        BY <3>6 DEF MinNow, MaxNow, MinLen
      <4> QED
        BY <3>2, <3>3, <3>4, <2>1, <4>1
    <3> QED
      BY <3>5, <3>6
  <2>8. Looping' /\ FirstCount' /\ SameCount'
    BY <2>1, <1>11 DEF Infer, Looping, FirstCount, SameCount
  <2> QED
    BY <1>S, <2>6, <2>7, <2>8
<1> QED
  BY <1>1, <1>2, <1>3, <1>4, <1>5, <1>6, <1>7, <1>8, <1>9, <1>10, <1>11
     DEF Next, RankStep, ReduceLeast

(* IInv is an inductive invariant of the ranks and their channel. *)
THEOREM Invariant ==
    ASSUME BeginsAlike
    PROVE  Spec => []IInv
<1>1. IInv /\ [Next]_vars => IInv'
  BY BeginsAlike, StepInvariant
<1> QED
  BY InitInvariant, <1>1, PTL DEF Spec

(* Without the pipeline, and with it when a round takes at most two         *)
(* results, the ranks stop at the same reduction.                           *)
THEOREM StopTogether ==
    ASSUME BeginsAlike
    PROVE  Spec => []RanksStopTogether
<1>1. IInv => RanksStopTogether
  BY DEF IInv, SameStage, RanksStopTogether
<1> QED
  BY BeginsAlike, Invariant, <1>1, PTL
=============================================================================
