---------------------------- MODULE AsyncPPO_proofs ----------------------------
(***************************************************************************)
(* Whatever the staleness threshold, the size of the stores, the number of *)
(* ranks, buckets and chunks: what a rank trains on is as fresh as its tags*)
(* say, within the threshold and above the on-policy ratio.                *)
(***************************************************************************)
EXTENDS AsyncPPO, SequenceTheorems, FiniteSetTheorems, TLAPS

Scalars ==
    /\ percent \in Percents
    /\ load_instant \in BOOLEAN
    /\ runner \in {"batch", "train", "sync", "end"}
    /\ version \in Nat
    /\ arrived \in 0 .. Buckets - 1
    /\ weights \in Versions
    /\ tag \in Nat
    /\ ready \in SUBSET Ranks

(* The rollout is tagged with a version that all its weights have reached.  *)
Tagged == \A b \in 1 .. Buckets : tag <= weights[b] /\ weights[b] <= version

(* Buckets that have arrived are of the actor's version if they are loaded  *)
(* at once.                                                                 *)
Loaded ==
    /\ runner # "sync" => arrived = 0
    /\ runner = "sync" /\ load_instant => \A b \in 1 .. arrived : weights[b] = version

(* A chunk was predicted by weights no older than its tag says.             *)
Known(t) ==
    /\ Len(t.made) = Len(t.tags)
    /\ \A i \in 1 .. Len(t.tags) : \A b \in 1 .. Buckets :
           t.tags[i] <= t.made[i][b] /\ t.made[i][b] <= version

Sent == {t \in Trajectory : Len(t.tags) = Chunks /\ Known(t)}

Trajectories ==
    /\ current \in Trajectory /\ Known(current) /\ Len(current.tags) < Chunks
    /\ channel \in Seq(Sent)
    /\ hand \in [Ranks -> Seq(Sent)]
    /\ received \in [Ranks -> Seq(Sent)]
    /\ store \in [Ranks -> Seq(Sent)]

(* What Check found is still so.                                            *)
Checked(s) == (\A k \in 1 .. Len(s) : Fresh(s[k])) /\ OnPolicy(s)

Gate ==
    /\ runner # "batch" => ready = {}
    /\ \A r \in ready : Checked(store[r])
    /\ runner = "train" => \A r \in Ranks : Checked(store[r])

IInv == Scalars /\ Tagged /\ Loaded /\ Trajectories /\ Gate

-----------------------------------------------------------------------------
(* Sequences of what was sent stay such when something is appended, taken   *)
(* or inserted.                                                             *)
LEMMA AppendTyped ==
    ASSUME NEW S, NEW s \in Seq(S), NEW x \in S
    PROVE  Append(s, x) \in Seq(S) /\ Len(Append(s, x)) = Len(s) + 1
           /\ \A i \in 1 .. Len(s) : Append(s, x)[i] = s[i]
           /\ Append(s, x)[Len(s) + 1] = x
OBVIOUS

LEMMA OneTyped ==
    ASSUME NEW S, NEW x \in S
    PROVE  <<x>> \in Seq(S) /\ Len(<<x>>) = 1
OBVIOUS

(* A range of indices, a part of a finite set, and the scale of a share.    *)
LEMMA IndicesAreFinite ==
    ASSUME NEW n \in Nat
    PROVE  IsFiniteSet(1 .. n) /\ Cardinality(1 .. n) = n
<1>1. 1 \in Int /\ n \in Int
  OBVIOUS
<1>2. IsFiniteSet(1 .. n) /\ Cardinality(1 .. n) = IF 1 > n THEN 0 ELSE n - 1 + 1
  BY ONLY <1>1, FS_Interval, SMTT(30)
<1>3. (IF 1 > n THEN 0 ELSE n - 1 + 1) = n
  OBVIOUS
<1> QED
  BY ONLY <1>2, <1>3

LEMMA PartIsSmaller ==
    ASSUME NEW S, IsFiniteSet(S), NEW T, T \subseteq S
    PROVE  IsFiniteSet(T) /\ Cardinality(T) <= Cardinality(S)
BY FS_Subset, SMTT(30)

LEMMA ProductIsNat == ASSUME NEW a \in Nat, NEW b \in Nat PROVE a * b \in Nat
OBVIOUS

(* Adding t to a store of elements of S gives one of elements of S.         *)
LEMMA AddedTyped ==
    ASSUME NEW S, NEW s \in Seq(S), NEW t \in S
    PROVE  Added(s, t) \in Seq(S)
<1> DEFINE K == {i \in 1 .. Len(s) : ~Below(t, s[i])}
           k == Cardinality(K)
<1>1. Len(s) \in Nat
  BY LenProperties
<1>2. k \in 0 .. Len(s)
  <2>1. IsFiniteSet(1 .. Len(s)) /\ Cardinality(1 .. Len(s)) = Len(s)
    BY ONLY <1>1, IndicesAreFinite
  <2>2. K \subseteq 1 .. Len(s)
    OBVIOUS
  <2>3. IsFiniteSet(K) /\ Cardinality(K) <= Len(s)
    BY ONLY <2>1, <2>2, PartIsSmaller
  <2>4. Cardinality(K) \in Nat
    BY <2>3, FS_CardinalityType
  <2> QED
    BY <1>1, <2>3, <2>4
<1> HIDE DEF K
<1>3. \A i \in 1 .. Len(s) : s[i] \in S
  BY ElementOfSeq
<1>4. SubSeq(s, 1, k) \in Seq(S)
  BY <1>1, <1>2, <1>3, SubSeqProperties
<1>5. SubSeq(s, k + 1, Len(s)) \in Seq(S)
  BY <1>1, <1>2, <1>3, SubSeqProperties
<1>6. <<t>> \in Seq(S) /\ Len(<<t>>) = 1
  BY OneTyped
<1>7. /\ SubSeq(s, 1, k) \o <<t>> \in Seq(S)
      /\ Len(SubSeq(s, 1, k) \o <<t>>) = Len(SubSeq(s, 1, k)) + 1
  BY <1>4, <1>6, ConcatProperties
<1>8. /\ Inserted(s, t) \in Seq(S)
      /\ Len(Inserted(s, t)) = Len(SubSeq(s, 1, k)) + 1 + Len(SubSeq(s, k + 1, Len(s)))
  BY <1>5, <1>7, ConcatProperties DEF Inserted, K
<1>9. Inserted(s, t) # <<>>
  BY <1>4, <1>5, <1>8, LenProperties, EmptySeq
<1>10. Tail(Inserted(s, t)) \in Seq(S)
  BY <1>8, <1>9, HeadTailProperties
<1> QED
  BY <1>8, <1>10 DEF Added

(* What is known of a trajectory is not undone when the version grows.      *)
LEMMA SentMonotonic ==
    ASSUME version \in Nat, version' \in Nat, version <= version'
    PROVE  Sent \subseteq Sent'
<1> SUFFICES ASSUME NEW t \in Sent PROVE t \in Sent'
  OBVIOUS
<1>1. t \in Trajectory /\ Len(t.tags) = Chunks /\ Known(t)
  BY DEF Sent
<1>2. t.made \in Seq(Versions) /\ t.tags \in Seq(Nat)
  BY <1>1 DEF Trajectory
<1>3. ASSUME NEW i \in 1 .. Len(t.tags), NEW b \in 1 .. Buckets
      PROVE  t.tags[i] <= t.made[i][b] /\ t.made[i][b] <= version'
  <2>1. t.tags[i] <= t.made[i][b] /\ t.made[i][b] <= version
    BY <1>1, <1>3 DEF Known
  <2>2. t.made[i] \in Versions
    BY <1>1, <1>2, <1>3, ElementOfSeq DEF Known
  <2>3. t.made[i][b] \in Nat
    BY <2>2 DEF Versions
  <2> QED
    BY <2>1, <2>3
<1>4. Known(t)'
  BY <1>1, <1>3 DEF Known
<1> QED
  BY <1>1, <1>4 DEF Sent, Trajectory, Versions

LEMMA SentSame ==
    ASSUME version' = version
    PROVE  Sent' = Sent
BY DEF Sent, Known, Trajectory, Versions

LEMMA CheckedSame ==
    ASSUME version' = version, percent' = percent,
           NEW r \in Ranks, store'[r] = store[r]
    PROVE  Checked(store[r])' <=> Checked(store[r])
BY DEF Checked, Fresh, OnPolicy, Cells

(* Steps that touch neither the version nor the stores keep the gate.       *)
LEMMA GateSame ==
    ASSUME Gate, ready \in SUBSET Ranks,
           UNCHANGED <<version, percent, store, ready, runner>>
    PROVE  Gate'
<1>1. \A r \in Ranks : Checked(store[r])' <=> Checked(store[r])
  BY CheckedSame
<1> QED
  BY <1>1 DEF Gate

LEMMA InitInv == Init => IInv
<1> SUFFICES ASSUME Init PROVE IInv
  OBVIOUS
<1> USE SizesAssumption
<1>1. Scalars
  BY DEF Init, Scalars, Versions
<1>2. Tagged /\ Loaded
  BY DEF Init, Tagged, Loaded
<1>3. Trajectories
  <2>1. Begun \in Trajectory /\ Len(Begun.tags) = 0 /\ Len(Begun.made) = 0
    BY DEF Begun, Trajectory
  <2>2. Known(Begun)
    BY <2>1 DEF Known
  <2>3. <<>> \in Seq(Sent)
    BY EmptySeq
  <2> QED
    BY <2>1, <2>2, <2>3 DEF Init, Trajectories
<1>4. Gate
  BY DEF Init, Gate
<1> QED
  BY <1>1, <1>2, <1>3, <1>4 DEF IInv

LEMMA PredictInv == IInv /\ Predict => IInv'
<1> SUFFICES ASSUME IInv, Predict PROVE IInv'
  OBVIOUS
<1> USE SizesAssumption
<1> DEFINE t == [tags |-> Append(current.tags, tag), made |-> Append(current.made, weights)]
<1>1. UNCHANGED <<percent, load_instant, runner, version, arrived, weights, tag, hand, received, store, ready>>
  BY DEF Predict, rolloutVars, actorVars
<1>2. Scalars' /\ Tagged' /\ Loaded'
  BY <1>1 DEF IInv, Scalars, Tagged, Loaded, Versions
<1>3. Gate'
  BY <1>1, GateSame DEF IInv, Scalars
<1>4. t \in Trajectory /\ Known(t) /\ Len(t.tags) = Len(current.tags) + 1
  <2>1. /\ current.tags \in Seq(Nat) /\ current.made \in Seq(Versions)
        /\ Len(current.made) = Len(current.tags) /\ Len(current.tags) \in Nat
    BY LenProperties DEF IInv, Trajectories, Trajectory, Known
  <2>2. tag \in Nat /\ weights \in Versions
    BY DEF IInv, Scalars
  <2>3. /\ t.tags \in Seq(Nat) /\ Len(t.tags) = Len(current.tags) + 1
        /\ \A i \in 1 .. Len(current.tags) : t.tags[i] = current.tags[i]
        /\ t.tags[Len(current.tags) + 1] = tag
    BY <2>1, <2>2, AppendTyped
  <2>4. /\ t.made \in Seq(Versions) /\ Len(t.made) = Len(current.made) + 1
        /\ \A i \in 1 .. Len(current.made) : t.made[i] = current.made[i]
        /\ t.made[Len(current.made) + 1] = weights
    BY <2>1, <2>2, AppendTyped
  <2>5. ASSUME NEW i \in 1 .. Len(t.tags), NEW b \in 1 .. Buckets
        PROVE  t.tags[i] <= t.made[i][b] /\ t.made[i][b] <= version
    <3>1. CASE i \in 1 .. Len(current.tags)
      BY <2>1, <2>3, <2>4, <2>5, <3>1 DEF IInv, Trajectories, Known
    <3>2. CASE i = Len(current.tags) + 1
      BY <2>1, <2>3, <2>4, <2>5, <3>2 DEF IInv, Tagged
    <3> QED
      BY <2>1, <2>3, <3>1, <3>2, SMTT(30)
  <2>6. t \in Trajectory
    BY <2>3, <2>4 DEF Trajectory
  <2> QED
    BY <2>1, <2>3, <2>4, <2>5, <2>6 DEF Known
<1>5. Sent' = Sent
  BY <1>1, SentSame
<1>6. Known(current)' /\ current' \in Trajectory /\ Len(current'.tags) < Chunks /\ channel' \in Seq(Sent)
  <2>1. CASE Len(t.tags) < Chunks /\ current' = t /\ UNCHANGED channel
    BY <1>1, <1>4, <2>1 DEF IInv, Trajectories, Known
  <2>2. CASE Len(t.tags) = Chunks /\ current' = Begun /\ channel' = Append(channel, t)
    <3>1. Begun \in Trajectory /\ Len(Begun.tags) = 0 /\ Len(Begun.made) = 0
      BY DEF Begun, Trajectory
    <3>2. t \in Sent
      BY <1>4, <2>2 DEF Sent
    <3>3. channel' \in Seq(Sent)
      BY <2>2, <3>2, AppendTyped DEF IInv, Trajectories
    <3> QED
      BY <2>2, <3>1, <3>3 DEF Known
  <2> QED
    BY <2>1, <2>2 DEF Predict
<1>7. Trajectories'
  BY <1>1, <1>5, <1>6 DEF IInv, Trajectories, Trajectory, Versions, Known
<1> QED
  BY <1>2, <1>3, <1>7 DEF IInv

LEMMA ApplyInv == IInv /\ Apply => IInv'
<1> SUFFICES ASSUME IInv, Apply PROVE IInv'
  OBVIOUS
<1> USE SizesAssumption
<1> DEFINE b == arrived + 1
<1>1. UNCHANGED <<percent, load_instant, version, current, channel, hand, received, store, ready>>
  BY DEF Apply, actorVars
<1>2. /\ runner = "sync" /\ arrived \in 0 .. Buckets - 1 /\ version \in Nat
      /\ weights \in [1 .. Buckets -> Nat] /\ ready = {} /\ tag \in Nat
  BY DEF Apply, IInv, Scalars, Gate, Versions
<1>3. \A c \in 1 .. Buckets :
          weights'[c] = IF (load_instant /\ c = b) \/ (~load_instant /\ b = Buckets)
                        THEN version ELSE weights[c]
  BY DEF Apply
<1>4. weights' \in Versions
  BY <1>2 DEF Apply, Versions
<1>5. CASE b = Buckets
  <2>1. arrived' = 0 /\ tag' = version /\ runner' \in {"batch", "end"}
    BY <1>5 DEF Apply
  <2>2. \A c \in 1 .. Buckets : weights'[c] = version
    BY <1>2, <1>3, <1>5 DEF IInv, Loaded
  <2>3. Scalars' /\ Tagged' /\ Loaded'
    BY <1>1, <1>2, <1>4, <2>1, <2>2 DEF IInv, Scalars, Tagged, Loaded, Versions
  <2>4. Gate'
    BY <1>1, <1>2, <2>1 DEF Gate
  <2> QED
    BY <1>1, <2>3, <2>4, SentSame DEF IInv, Trajectories, Trajectory, Versions, Known
<1>6. CASE b # Buckets
  <2>1. arrived' = b /\ UNCHANGED <<tag, runner>>
    BY <1>6 DEF Apply
  <2>2. \A c \in 1 .. Buckets : tag <= weights'[c] /\ weights'[c] <= version
    BY <1>2, <1>3, <1>6 DEF IInv, Tagged
  <2>3. load_instant => \A c \in 1 .. b : weights'[c] = version
    BY <1>2, <1>3, <1>6 DEF IInv, Loaded
  <2>4. Scalars' /\ Tagged' /\ Loaded'
    BY <1>1, <1>2, <1>4, <1>6, <2>1, <2>2, <2>3 DEF IInv, Scalars, Tagged, Loaded, Versions
  <2>5. Gate'
    BY <1>1, <1>2, <2>1 DEF Gate
  <2> QED
    BY <1>1, <2>4, <2>5, SentSame DEF IInv, Trajectories, Trajectory, Versions, Known
<1> QED
  BY <1>5, <1>6

LEMMA ReceiveInv == \A r \in Ranks : IInv /\ Receive(r) => IInv'
<1> SUFFICES ASSUME NEW r \in Ranks, IInv, Receive(r) PROVE IInv'
  OBVIOUS
<1>1. UNCHANGED <<percent, load_instant, runner, version, arrived, weights, tag, current, received, store, ready>>
  BY DEF Receive, rolloutVars
<1>2. Scalars' /\ Tagged' /\ Loaded'
  BY <1>1 DEF IInv, Scalars, Tagged, Loaded, Versions
<1>3. Gate'
  BY <1>1, GateSame DEF IInv, Scalars
<1>4. channel \in Seq(Sent) /\ channel # <<>> /\ hand \in [Ranks -> Seq(Sent)]
  BY DEF Receive, IInv, Trajectories
<1>5. Head(channel) \in Sent /\ Tail(channel) \in Seq(Sent)
  BY <1>4, HeadTailProperties
<1>6. <<>> \in Seq(Sent) /\ <<Head(channel)>> \in Seq(Sent)
  BY <1>5, EmptySeq, OneTyped
<1>7. channel' \in Seq(Sent) /\ hand' \in [Ranks -> Seq(Sent)]
  <2>1. (IF Fresh(Head(channel)) THEN <<Head(channel)>> ELSE <<>>) \in Seq(Sent)
    BY <1>6
  <2> QED
    BY <1>4, <1>5, <2>1 DEF Receive
<1> QED
  BY <1>1, <1>2, <1>3, <1>7, SentSame DEF IInv, Trajectories, Trajectory, Versions, Known

LEMMA EnqueueInv == \A r \in Ranks : IInv /\ Enqueue(r) => IInv'
<1> SUFFICES ASSUME NEW r \in Ranks, IInv, Enqueue(r) PROVE IInv'
  OBVIOUS
<1>1. UNCHANGED <<percent, load_instant, runner, version, arrived, weights, tag, current, channel, store, ready>>
  BY DEF Enqueue, rolloutVars
<1>2. Scalars' /\ Tagged' /\ Loaded'
  BY <1>1 DEF IInv, Scalars, Tagged, Loaded, Versions
<1>3. Gate'
  BY <1>1, GateSame DEF IInv, Scalars
<1>4. received \in [Ranks -> Seq(Sent)] /\ hand \in [Ranks -> Seq(Sent)]
  BY DEF IInv, Trajectories
<1>5. received[r] \o hand[r] \in Seq(Sent) /\ <<>> \in Seq(Sent)
  BY <1>4, ConcatProperties, EmptySeq
<1>6. received' \in [Ranks -> Seq(Sent)] /\ hand' \in [Ranks -> Seq(Sent)]
  BY <1>4, <1>5 DEF Enqueue
<1> QED
  BY <1>1, <1>2, <1>3, <1>6, SentSame DEF IInv, Trajectories, Trajectory, Versions, Known

LEMMA DrainInv == \A r \in Ranks : IInv /\ Drain(r) => IInv'
<1> SUFFICES ASSUME NEW r \in Ranks, IInv, Drain(r) PROVE IInv'
  OBVIOUS
<1>1. UNCHANGED <<percent, load_instant, runner, version, arrived, weights, tag, current, channel, hand, ready>>
  BY DEF Drain, rolloutVars
<1>2. Scalars' /\ Tagged' /\ Loaded'
  BY <1>1 DEF IInv, Scalars, Tagged, Loaded, Versions
<1>3. received \in [Ranks -> Seq(Sent)] /\ store \in [Ranks -> Seq(Sent)] /\ received[r] # <<>>
  BY DEF Drain, IInv, Trajectories
<1>4. Head(received[r]) \in Sent /\ Tail(received[r]) \in Seq(Sent)
  BY <1>3, HeadTailProperties
<1>5. Added(store[r], Head(received[r])) \in Seq(Sent)
  BY <1>3, <1>4, AddedTyped
<1>6. received' \in [Ranks -> Seq(Sent)]
  BY <1>3, <1>4 DEF Drain
<1>7. store' \in [Ranks -> Seq(Sent)] /\ \A q \in Ranks \ {r} : store'[q] = store[q]
  BY <1>3, <1>5 DEF Drain
<1>8. Gate'
  <2>1. runner = "batch" /\ r \notin ready
    BY DEF Drain
  <2>2. \A q \in Ranks \ {r} : Checked(store[q])' <=> Checked(store[q])
    BY <1>1, <1>7, CheckedSame
  <2> QED
    BY <1>1, <2>1, <2>2 DEF IInv, Scalars, Gate
<1> QED
  BY <1>1, <1>2, <1>6, <1>7, <1>8, SentSame DEF IInv, Trajectories, Trajectory, Versions, Known

LEMMA CheckInv == \A r \in Ranks : IInv /\ Check(r) => IInv'
<1> SUFFICES ASSUME NEW r \in Ranks, IInv, Check(r) PROVE IInv'
  OBVIOUS
<1>1. UNCHANGED <<percent, load_instant, runner, version, arrived, weights, tag, current, channel, hand, received>>
  BY DEF Check, rolloutVars
<1>2. /\ store \in [Ranks -> Seq(Sent)] /\ Len(store[r]) \in Nat
      /\ \A k \in 1 .. Len(store[r]) : store[r][k] \in Sent
  BY LenProperties, ElementOfSeq DEF IInv, Trajectories
<1>3. PICK n \in 0 .. Len(store[r]) :
          /\ \A k \in n + 1 .. Len(store[r]) : Fresh(store[r][k])
          /\ LET kept == SubSeq(store[r], n + 1, Len(store[r]))
             IN /\ store' = [store EXCEPT ![r] = kept]
                /\ ready' = IF Len(kept) >= StoreSize /\ OnPolicy(kept)
                            THEN ready \cup {r} ELSE ready
  BY DEF Check
<1> DEFINE kept == SubSeq(store[r], n + 1, Len(store[r]))
<1>4. /\ kept \in Seq(Sent)
      /\ Len(kept) = Len(store[r]) - n
      /\ \A k \in 1 .. Len(kept) : kept[k] = store[r][n + k]
  BY <1>2, SubSeqProperties
<1>5. \A k \in 1 .. Len(kept) : Fresh(kept[k])
  <2> TAKE k \in 1 .. Len(kept)
  <2>1. n + k \in n + 1 .. Len(store[r]) /\ kept[k] = store[r][n + k]
    BY <1>2, <1>4
  <2> QED
    BY <1>3, <2>1
<1> HIDE DEF kept
<1>6. store' = [store EXCEPT ![r] = kept] /\ (ready' = ready \/ (ready' = ready \cup {r} /\ OnPolicy(kept)))
  BY <1>3 DEF kept
<1>7. store' \in [Ranks -> Seq(Sent)] /\ store'[r] = kept /\ \A q \in Ranks \ {r} : store'[q] = store[q]
  BY <1>2, <1>4, <1>6
<1>8. Scalars' /\ Tagged' /\ Loaded'
  BY <1>1, <1>6 DEF IInv, Scalars, Tagged, Loaded, Versions
<1>9. Gate'
  <2>1. runner = "batch" /\ r \notin ready
    BY DEF Check
  <2>2. \A q \in Ranks \ {r} : Checked(store[q])' <=> Checked(store[q])
    BY <1>1, <1>7, CheckedSame
  <2>3. OnPolicy(kept) => Checked(store[r])'
    <3>1. OnPolicy(kept) => OnPolicy(store[r])'
      BY <1>1, <1>7 DEF OnPolicy, Cells
    <3>2. \A k \in 1 .. Len(kept) : Fresh(store[r][k])'
      BY <1>1, <1>5, <1>7 DEF Fresh
    <3> QED
      BY <1>7, <3>1, <3>2 DEF Checked
  <2> QED
    BY <1>1, <1>6, <2>1, <2>2, <2>3 DEF IInv, Scalars, Gate
<1> QED
  BY <1>1, <1>7, <1>8, <1>9, SentSame DEF IInv, Trajectories, Trajectory, Versions, Known

LEMMA BarrierInv == IInv /\ Barrier => IInv'
<1> SUFFICES ASSUME IInv, Barrier PROVE IInv'
  OBVIOUS
<1>1. UNCHANGED <<percent, load_instant, version, arrived, weights, tag, current, channel, hand, received, store>>
  BY DEF Barrier, rolloutVars
<1>2. runner = "batch" /\ ready = Ranks /\ runner' = "train" /\ ready' = {}
  BY DEF Barrier
<1>3. Scalars' /\ Tagged' /\ Loaded'
  BY <1>1, <1>2 DEF IInv, Scalars, Tagged, Loaded, Versions
<1>4. Gate'
  <2>1. \A r \in Ranks : Checked(store[r])' <=> Checked(store[r])
    BY <1>1, CheckedSame
  <2> QED
    BY <1>2, <2>1 DEF IInv, Gate
<1> QED
  BY <1>1, <1>3, <1>4, SentSame DEF IInv, Trajectories, Trajectory, Versions, Known

LEMMA TrainedInv == IInv /\ Trained => IInv'
<1> SUFFICES ASSUME IInv, Trained PROVE IInv'
  OBVIOUS
<1> USE SizesAssumption
<1>1. UNCHANGED <<percent, load_instant, arrived, weights, tag, current, channel, hand, received, store, ready>>
  BY DEF Trained, rolloutVars, actorVars
<1>2. /\ runner = "train" /\ version' = version + 1 /\ runner' = "sync"
      /\ version \in Nat /\ ready = {} /\ arrived = 0
  BY DEF Trained, IInv, Scalars, Gate, Loaded
<1>3. Scalars' /\ Tagged' /\ Loaded'
  BY <1>1, <1>2 DEF IInv, Scalars, Tagged, Loaded, Versions
<1>4. Gate'
  BY <1>1, <1>2 DEF Gate
<1>5. Sent \subseteq Sent'
  BY <1>2, SentMonotonic
<1>6. channel' \in Seq(Sent') /\ hand' \in [Ranks -> Seq(Sent')]
      /\ received' \in [Ranks -> Seq(Sent')] /\ store' \in [Ranks -> Seq(Sent')]
  <2>1. \A s \in Seq(Sent) : s \in Seq(Sent')
    BY <1>5, SeqMonotonic
  <2> QED
    BY <1>1, <2>1 DEF IInv, Trajectories
<1>7. current' \in Trajectory /\ Known(current)' /\ Len(current'.tags) < Chunks
  <2>1. /\ current' = current /\ current \in Trajectory /\ Known(current) /\ Len(current.tags) < Chunks
        /\ current.made \in Seq(Versions)
    BY <1>1 DEF IInv, Trajectories, Trajectory
  <2>2. ASSUME NEW i \in 1 .. Len(current.tags), NEW b \in 1 .. Buckets
        PROVE  current.tags[i] <= current.made[i][b] /\ current.made[i][b] <= version'
    <3>1. current.made[i] \in Versions
      BY <2>1, <2>2, ElementOfSeq DEF Known
    <3>2. current.made[i][b] \in Nat
      BY <3>1 DEF Versions
    <3> QED
      BY <1>2, <2>1, <2>2, <3>2 DEF Known
  <2> QED
    BY <2>1, <2>2 DEF Known
<1>8. Trajectories'
  BY <1>6, <1>7 DEF Trajectories, Trajectory, Versions
<1> QED
  BY <1>3, <1>4, <1>8 DEF IInv

LEMMA StutterInv == IInv /\ UNCHANGED vars => IInv'
<1> SUFFICES ASSUME IInv, UNCHANGED vars PROVE IInv'
  OBVIOUS
<1>1. UNCHANGED <<percent, load_instant, runner, version, arrived, weights, tag, current, channel, hand,
                  received, store, ready>>
  BY DEF vars, rolloutVars, actorVars
<1>2. Scalars' /\ Tagged' /\ Loaded'
  BY <1>1 DEF IInv, Scalars, Tagged, Loaded, Versions
<1>3. Gate'
  BY <1>1, GateSame DEF IInv, Scalars
<1> QED
  BY <1>1, <1>2, <1>3, SentSame DEF IInv, Trajectories, Trajectory, Versions, Known

-----------------------------------------------------------------------------
(* What the two properties rest on: tags are never newer than the weights   *)
(* they stand for, and what was checked stays so until training is over.    *)
THEOREM Invariant == Spec => []IInv
<1>1. Init => IInv
  BY InitInv
<1>2. IInv /\ [Next]_vars => IInv'
  BY PredictInv, ApplyInv, ReceiveInv, EnqueueInv, DrainInv, CheckInv, BarrierInv, TrainedInv,
     StutterInv DEF Next
<1> QED
  BY <1>1, <1>2, PTL DEF Spec

(* Every variable of AsyncPPO has its type.                                 *)
THEOREM TypeCorrect == Spec => []TypeOK
<1>1. IInv => TypeOK
  <2> SUFFICES ASSUME IInv PROVE TypeOK
    OBVIOUS
  <2>1. Sent \subseteq Trajectory
    BY DEF Sent
  <2>2. \A s \in Seq(Sent) : s \in Seq(Trajectory)
    BY <2>1, SeqMonotonic
  <2>3. channel \in Seq(Trajectory) /\ hand \in [Ranks -> Seq(Trajectory)]
        /\ received \in [Ranks -> Seq(Trajectory)] /\ store \in [Ranks -> Seq(Trajectory)]
    BY <2>2 DEF IInv, Trajectories
  <2> QED
    BY <2>3 DEF IInv, Scalars, Trajectories, TypeOK
<1> QED
  BY <1>1, Invariant, PTL

(* No part of a batch was predicted by weights older than the threshold     *)
(* allows.                                                                  *)
THEOREM BatchIsFresh == Spec => []TrainedIsFresh
<1>1. IInv => TrainedIsFresh
  <2> SUFFICES ASSUME IInv, runner = "train", NEW r \in Ranks, NEW k \in 1 .. Len(Batch(r)),
                      NEW i \in 1 .. Len(Batch(r)[k].made), NEW b \in 1 .. Buckets
               PROVE  Batch(r)[k].made[i][b] >= version - Threshold
    BY DEF TrainedIsFresh
  <2> DEFINE t == store[r][k]
  <2>1. t \in Sent /\ Fresh(t) /\ i \in 1 .. Len(t.made)
    BY ElementOfSeq DEF IInv, Gate, Checked, Trajectories, Batch
  <2>2. t.tags \in Seq(Nat) /\ t.made \in Seq(Versions) /\ i \in 1 .. Len(t.tags)
    BY <2>1 DEF Sent, Known, Trajectory
  <2>3. t.tags[i] \in Nat /\ t.made[i] \in Versions
    BY <2>1, <2>2, ElementOfSeq
  <2>4. t.tags[i] <= t.made[i][b] /\ t.tags[i] >= version - Threshold
    BY <2>1, <2>2 DEF Sent, Known, Fresh
  <2>5. t.made[i][b] \in Nat /\ version \in Nat /\ Threshold \in Nat
    BY <2>3, SizesAssumption DEF Versions, IInv, Scalars
  <2> QED
    BY <2>3, <2>4, <2>5, SMTT(30) DEF Batch
<1> QED
  BY <1>1, Invariant, PTL

(* Of a batch, the required part was predicted by the weights of the actor. *)
THEOREM BatchIsOnPolicy == Spec => []OnPolicyEnough
<1>1. IInv => OnPolicyEnough
  <2> SUFFICES ASSUME IInv, runner = "train", NEW r \in Ranks
               PROVE  100 * Cardinality({c \in Cells(Batch(r)) :
                                \A b \in 1 .. Buckets : Batch(r)[c[1]].made[c[2]][b] = version})
                      >= percent * Cardinality(Cells(Batch(r)))
    BY DEF OnPolicyEnough
  <2> DEFINE s == store[r]
             tagged == {c \in Cells(s) : s[c[1]].tags[c[2]] = version}
             made == {c \in Cells(s) : \A b \in 1 .. Buckets : s[c[1]].made[c[2]][b] = version}
  <2>1. s \in Seq(Sent) /\ Len(s) \in Nat /\ OnPolicy(s)
    BY LenProperties DEF IInv, Gate, Checked, Trajectories
  <2>2. IsFiniteSet(Cells(s))
    <3>1. IsFiniteSet(1 .. Len(s)) /\ IsFiniteSet(1 .. Chunks)
      BY <2>1, SizesAssumption, IndicesAreFinite
    <3> QED
      BY <3>1, FS_Product DEF Cells
  <2>3. tagged \subseteq made
    <3> SUFFICES ASSUME NEW c \in tagged, NEW b \in 1 .. Buckets
                 PROVE  s[c[1]].made[c[2]][b] = version
      OBVIOUS
    <3> DEFINE t == s[c[1]]
    <3>1. c[1] \in 1 .. Len(s) /\ c[2] \in 1 .. Chunks /\ t.tags[c[2]] = version
      BY DEF Cells
    <3>2. t \in Sent
      BY <2>1, <3>1, ElementOfSeq
    <3>3. /\ t.made \in Seq(Versions) /\ Len(t.made) = Chunks
          /\ version <= t.made[c[2]][b] /\ t.made[c[2]][b] <= version
      BY <3>1, <3>2 DEF Sent, Known, Trajectory
    <3>4. t.made[c[2]] \in Versions
      BY <3>1, <3>3, ElementOfSeq
    <3>5. t.made[c[2]][b] \in Nat /\ version \in Nat
      BY <3>4 DEF Versions, IInv, Scalars
    <3> QED
      BY <3>3, <3>5, SMTT(30)
  <2>4. made \subseteq Cells(s)
    OBVIOUS
  <2> HIDE DEF made, tagged
  <2>5. IsFiniteSet(made) /\ IsFiniteSet(tagged)
    BY ONLY <2>2, <2>3, <2>4, PartIsSmaller
  <2>6. Cardinality(tagged) <= Cardinality(made)
    BY ONLY <2>3, <2>5, PartIsSmaller
  <2>7. Cardinality(tagged) \in Nat /\ Cardinality(made) \in Nat /\ Cardinality(Cells(s)) \in Nat
    BY <2>2, <2>5, FS_CardinalityType
  <2>8. 100 * Cardinality(tagged) >= percent * Cardinality(Cells(s))
    BY <2>1, SMTT(30) DEF OnPolicy, tagged
  <2>9. percent * Cardinality(Cells(s)) \in Nat
    <3>1. percent \in Nat
      BY SizesAssumption DEF IInv, Scalars
    <3> QED
      BY ONLY <2>7, <3>1, ProductIsNat
  <2>10. 100 * Cardinality(made) >= percent * Cardinality(Cells(s))
    BY <2>6, <2>7, <2>8, <2>9
  <2> QED
    BY <2>10 DEF Batch, made
<1> QED
  BY <1>1, Invariant, PTL
=============================================================================
