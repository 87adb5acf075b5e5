-------------------------- MODULE ReplayBuffer_proofs --------------------------
(***************************************************************************)
(* For every configuration, every size of the window, the cache and the    *)
(* executor's pool, and any number of trajectories and restarts: samples   *)
(* are drawn from the current window, what is sampled is what was drawn,   *)
(* what is to be loadable can be loaded, and what was added is on disk     *)
(* once the jobs for it are done.                                          *)
(***************************************************************************)
EXTENDS ReplayBuffer, SequenceTheorems, TLAPS

(* The window is of an earlier version of the index, or of this one.        *)
WindowInv ==
    /\ version \in Nat /\ window.version \in Int
    /\ window.version <= version
    /\ window.version = version => window.ids = LastN(ids, Window)

SamplerRecord ==
    sampler = [at |-> sampler.at, id |-> sampler.id, from |-> sampler.from,
               recent |-> sampler.recent, slot |-> sampler.slot, data |-> sampler.data]

DrawInv == SamplerRecord /\ sampler.from = sampler.recent

IInv == WindowInv /\ DrawInv

LEMMA LoadWindow ==
    ASSUME NEW kind, NEW dir, NEW list, NEW meta, Load(kind, dir, list, meta)
    PROVE  IInv'
<1>1. /\ ids' = list /\ version' = 0
      /\ window' = [version |-> -1, ids |-> <<>>]
      /\ sampler' = Resting
  BY DEF Load
<1> QED
  BY <1>1 DEF IInv, WindowInv, DrawInv, SamplerRecord, Resting

LEMMA DrawStep == IInv /\ Draw => IInv'
<1> SUFFICES ASSUME IInv, Draw PROVE IInv'
  OBVIOUS
<1>1. /\ UNCHANGED <<ids, version>>
      /\ window' = IF window.version = version THEN window
                   ELSE [version |-> version, ids |-> LastN(ids, Window)]
  BY DEF Draw, indexVars
<1>2. window'.version = version /\ window'.ids = LastN(ids, Window)
  BY <1>1 DEF IInv, WindowInv
<1>3. WindowInv'
  BY <1>1, <1>2 DEF IInv, WindowInv, LastN
<1>4. DrawInv'
  <2>1. PICK id \in Ids(window'.ids) :
            sampler' = [sampler EXCEPT !.at = "drawn", !.id = id, !.from = Ids(window'.ids),
                                       !.recent = Ids(LastN(ids, Window))]
    BY DEF Draw
  <2>2. sampler' = [at |-> "drawn", id |-> id, from |-> Ids(window'.ids),
                    recent |-> Ids(LastN(ids, Window)), slot |-> sampler.slot, data |-> sampler.data]
    BY <2>1 DEF IInv, DrawInv, SamplerRecord
  <2> QED
    BY <1>2, <2>2 DEF DrawInv, SamplerRecord
<1> QED
  BY <1>3, <1>4 DEF IInv

LEMMA WindowStep == IInv /\ [Next]_vars => IInv'
<1> SUFFICES ASSUME IInv, [Next]_vars PROVE IInv'
  OBVIOUS
<1> USE DEF indexVars
<1>1. ASSUME UNCHANGED <<ids, version, window, sampler>>
      PROVE  IInv'
  BY <1>1 DEF IInv, WindowInv, DrawInv, SamplerRecord, LastN
<1>2. ASSUME NEW n \in 1 .. 2, StartAdd(n)
      PROVE  IInv'
  BY <1>1, <1>2 DEF StartAdd
<1>3. CASE AddStep
  <2>1. CASE AddToIndex
    <3>1. version' = version + 1 /\ UNCHANGED <<window, sampler>>
      BY <2>1 DEF AddToIndex
    <3> QED
      BY <3>1 DEF IInv, WindowInv, DrawInv, SamplerRecord
  <2>2. CASE Submit \/ CachePut \/ CacheInsert \/ EndAdd
    BY <1>1, <2>2 DEF Submit, CachePut, CacheInsert, EndAdd
  <2> QED
    BY <1>3, <2>1, <2>2 DEF AddStep
<1>4. CASE SampleStep
  <2>1. UNCHANGED <<ids, version, window>>
    BY <1>4 DEF SampleStep, Mask, FindSlot, Gather, LoadMiss, Give
  <2>2. DrawInv'
    <3>1. CASE Give
      BY <3>1 DEF Give, DrawInv, SamplerRecord, Resting
    <3>2. CASE Mask
      BY <3>2 DEF Mask, IInv, DrawInv, SamplerRecord
    <3>3. CASE FindSlot
      BY <3>3 DEF FindSlot, IInv, DrawInv, SamplerRecord
    <3>4. CASE Gather
      BY <3>4 DEF Gather, IInv, DrawInv, SamplerRecord
    <3>5. CASE LoadMiss
      BY <3>5 DEF LoadMiss, IInv, DrawInv, SamplerRecord
    <3> QED
      BY <1>4, <3>1, <3>2, <3>3, <3>4, <3>5 DEF SampleStep
  <2> QED
    BY <2>1, <2>2 DEF IInv, WindowInv, LastN
<1>5. CASE Take
  BY <1>1, <1>5 DEF Take
<1>6. CASE JobStep
  <2>1. PICK j \in working : OpenFile(j) \/ CloseFile(j) \/ FlushMetadata(j) \/ FlushIndex(j)
    BY <1>6 DEF JobStep
  <2> QED
    BY <1>1, <2>1 DEF OpenFile, CloseFile, FlushMetadata, FlushIndex
<1>7. CASE SaveCheckpoint
  BY <1>1, <1>7 DEF SaveCheckpoint
<1>8. CASE Resume
  BY <1>8, LoadWindow DEF Resume
<1>9. ASSUME NEW r \in 0 .. World - 1, LoadPart(r)
      PROVE  IInv'
  BY <1>9, LoadWindow DEF LoadPart
<1>10. CASE UNCHANGED vars
  BY <1>1, <1>10 DEF vars
<1> QED
  BY <1>2, <1>3, <1>4, <1>5, <1>6, <1>7, <1>8, <1>9, <1>10, DrawStep DEF Next

(* However threads and restarts interleave, the window that is drawn from   *)
(* is that of the most recent trajectories.                                 *)
THEOREM WindowIsCurrent == Spec => []SampleFromRecent
<1>1. Init => IInv
  BY DEF Init, IInv, WindowInv, DrawInv, SamplerRecord, Resting
<1>2. IInv => SampleFromRecent
  BY DEF IInv, DrawInv, SampleFromRecent
<1> QED
  BY <1>1, <1>2, WindowStep, PTL DEF Spec

-----------------------------------------------------------------------------
(* What is cached, sampled and written to checkpoints, for every kind of     *)
(* buffer.                                                                  *)
Slots == SlotsOf(way)

Rising(s, n) ==
    /\ s \in Seq(Nat) /\ n \in Nat
    /\ \A i, j \in 1 .. Len(s) : i < j => s[i] < s[j]
    /\ \A i \in 1 .. Len(s) : s[i] < n

(* The ids of the index that the cache has been given.                      *)
Held == IF main.at = "put" THEN Len(ids) - 1 ELSE Len(ids)

(* The slot that was given d slots before the last.                         *)
Back(d) == IF d < next THEN next - 1 - d ELSE next - 1 - d + Slots

(* The last id but d is where the ring says, with its data unless those are *)
(* being inserted.                                                          *)
Placed(d) ==
    LET id == ids[Held - d]
    IN /\ owner[Back(d)] = id
       /\ id \in DOMAIN slotOf /\ slotOf[id] = Back(d)
       /\ \/ main.at = "insert" /\ d = 0
          \/ Back(d) \in DOMAIN content /\ content[Back(d)] = id

Ring ==
    main.at # "failed" =>
        /\ next \in 0 .. Slots - 1
        /\ Held < Slots => next = Held
        /\ DOMAIN owner = 0 .. (IF Held < Slots THEN Held ELSE Slots) - 1
        /\ \A d \in 0 .. Slots - 1 : d < Held => Placed(d)
        /\ \A id \in DOMAIN slotOf : \E d \in 0 .. Slots - 1 : d < Held /\ id = ids[Held - d]

MainRecord == main = [at |-> main.at, left |-> main.left, saves |-> main.saves]

MainInv ==
    /\ MainRecord
    /\ main.at \in {"idle", "submit", "index", "put", "insert", "flush", "failed"}
    /\ main.saves \in SUBSET Nat
    /\ main.at \in {"put", "insert"} => ids # <<>>
    /\ way \in Ways
    /\ Rising(ids, counter)

CheckpointInv ==
    /\ Rising(checkpoint.ids, checkpoint.meta.counter)
    /\ ~way.save =>
           \A i \in 1 .. Len(checkpoint.ids) :
               Len(checkpoint.ids) - Window < i => checkpoint.ids[i] \in checkpoint.whole

(* A sample that the training thread draws without files is of the window,  *)
(* hence cached; in any case a slot that was looked up holds what was drawn. *)
SampleInv ==
    ~way.preload /\ sampler.at # "idle" =>
        /\ main.at = "idle"
        /\ \/ way.save
           \/ /\ \E d \in 0 .. Window - 1 : d < Len(ids) /\ sampler.id = ids[Len(ids) - d]
              /\ sampler.at \notin {"miss", "dead"}
        /\ sampler.at = "slot" =>
               sampler.slot \in DOMAIN content /\ content[sampler.slot] = sampler.id
        /\ sampler.at = "given" => sampler.data = sampler.id

MInv == IInv /\ MainInv /\ Ring /\ CheckpointInv /\ SampleInv

LEMMA SlotsCount ==
    ASSUME NEW w \in Ways
    PROVE  /\ SlotsOf(w) \in Nat /\ SlotsOf(w) > 0 /\ Window \in Nat
           /\ ~w.save => Window > 0 /\ SlotsOf(w) = Window
BY WaysAssumption, SizesAssumption DEF SlotsOf

LEMMA SlotsFacts ==
    ASSUME MInv
    PROVE  /\ Slots \in Nat /\ Slots > 0 /\ Window \in Nat
           /\ ~way.save => Window > 0 /\ Slots = Window
BY SlotsCount DEF MInv, MainInv, Slots

LEMMA LastNFacts ==
    ASSUME NEW S, NEW s \in Seq(S), NEW n \in Nat, n > 0
    PROVE  /\ LastN(s, n) \in Seq(S)
           /\ Len(LastN(s, n)) = IF n >= Len(s) THEN Len(s) ELSE n
           /\ \A i \in 1 .. Len(LastN(s, n)) :
                  LastN(s, n)[i] = s[Len(s) - Len(LastN(s, n)) + i]
<1>1. Len(s) \in Nat /\ \A i \in 1 .. Len(s) : s[i] \in S
  BY LenProperties, ElementOfSeq
<1>2. CASE n >= Len(s)
  <2>1. LastN(s, n) = s
    BY <1>2 DEF LastN
  <2> QED
    BY <1>1, <1>2, <2>1
<1>3. CASE n < Len(s)
  <2> DEFINE m == Len(s) - n + 1
  <2>1. m \in Int /\ Len(s) \in Int /\ \A i \in m .. Len(s) : s[i] \in S
    BY <1>1, <1>3
  <2>2. /\ SubSeq(s, m, Len(s)) \in Seq(S)
        /\ Len(SubSeq(s, m, Len(s))) = n
        /\ \A i \in 1 .. n : SubSeq(s, m, Len(s))[i] = s[m + i - 1]
    BY <1>1, <1>3, <2>1, SubSeqProperties
  <2>3. LastN(s, n) = SubSeq(s, m, Len(s))
    BY <1>1, <1>3 DEF LastN
  <2>4. \A i \in 1 .. n : m + i - 1 = Len(s) - n + i
    BY <1>1
  <2> HIDE DEF m
  <2> QED
    BY <1>1, <1>3, <2>2, <2>3, <2>4
<1> QED
  BY <1>1, <1>2, <1>3

LEMMA WindowIds ==
    ASSUME NEW S, NEW s \in Seq(S), NEW n \in Nat, n > 0, NEW id \in Ids(LastN(s, n))
    PROVE  \E d \in 0 .. n - 1 : d < Len(s) /\ id = s[Len(s) - d]
<1> DEFINE r == LastN(s, n)
<1>1. Len(s) \in Nat
  BY LenProperties
<1>2. /\ r \in Seq(S) /\ Len(r) = IF n >= Len(s) THEN Len(s) ELSE n
      /\ \A i \in 1 .. Len(r) : r[i] = s[Len(s) - Len(r) + i]
  BY LastNFacts
<1>3. DOMAIN r = 1 .. Len(r)
  BY <1>2, LenProperties
<1>4. PICK i \in 1 .. Len(r) : id = r[i]
  BY <1>3 DEF Ids, ToSet
<1> HIDE DEF r
<1>5. Len(r) - i \in 0 .. n - 1 /\ Len(r) - i < Len(s)
      /\ Len(s) - (Len(r) - i) = Len(s) - Len(r) + i
  BY <1>1, <1>2, <1>4
<1> QED
  BY <1>2, <1>4, <1>5

LEMMA InRising ==
    ASSUME NEW s, NEW n, Rising(s, n),
           NEW i \in 1 .. Len(s), NEW j \in 1 .. Len(s), s[i] = s[j]
    PROVE  i = j
<1>1. Len(s) \in Nat /\ s[i] \in Nat /\ s[j] \in Nat
  BY LenProperties, ElementOfSeq DEF Rising
<1> QED
  BY <1>1 DEF Rising

(* Going round the ring.                                                    *)
LEMMA Around ==
    ASSUME NEW w \in Nat, w > 0, NEW n \in 0 .. w
    PROVE  n % w = IF n = w THEN 0 ELSE n
<1>1. n = w * (n \div w) + (n % w) /\ n % w \in 0 .. w - 1 /\ n \div w \in Int
  OBVIOUS
<1> DEFINE q == n \div w
<1>2. CASE q <= -1
  <2>1. w * q <= -w
    BY <1>1, <1>2, SMTT(30)
  <2> QED
    BY <1>1, <2>1
<1>3. CASE q >= 2
  <2>1. w * q >= 2 * w
    BY <1>1, <1>3, SMTT(30)
  <2> QED
    BY <1>1, <2>1
<1>4. CASE q = 0
  BY <1>1, <1>4
<1>5. CASE q = 1
  BY <1>1, <1>5
<1> QED
  BY <1>1, <1>2, <1>3, <1>4, <1>5

-----------------------------------------------------------------------------
(* Where neither the cache nor what it holds of the index changes, the ring *)
(* is as before.                                                            *)
LEMMA RingSame ==
    ASSUME Ring, main.at # "failed", UNCHANGED <<way, slotOf, owner, next, content>>,
           Held' = Held, Held \in Nat, Slots \in Nat, \A k \in 1 .. Held : ids'[k] = ids[k],
           main.at = "insert" => main'.at = "insert"
    PROVE  Ring'
<1>0. Slots' = Slots
  BY DEF Slots
<1>1. ASSUME NEW d \in 0 .. Slots - 1, d < Held
      PROVE  ids'[Held - d] = ids[Held - d]
  <2>1. Held - d \in 1 .. Held
    BY <1>1
  <2> QED
    BY <2>1
<1>2. ASSUME NEW d \in 0 .. Slots - 1, d < Held
      PROVE  Placed(d)'
  <2>1. Placed(d)
    BY <1>2 DEF Ring
  <2> QED
    BY <1>0, <1>1, <1>2, <2>1 DEF Placed, Back
<1>3. ASSUME NEW id \in DOMAIN slotOf
      PROVE  \E d \in 0 .. Slots - 1 : d < Held /\ id = ids'[Held - d]
  BY <1>1, <1>3 DEF Ring
<1> QED
  BY <1>0, <1>2, <1>3 DEF Ring

LEMMA HeldIsNat == MInv => Held \in Nat
BY LenProperties, EmptySeq DEF MInv, MainInv, Held, Rising

(* A step that leaves all of this alone keeps it.                           *)
LEMMA NothingChanged ==
    ASSUME MInv, UNCHANGED <<way, ids, counter, version, window, slotOf, owner, next, content, main,
                             sampler, checkpoint>>
    PROVE  MInv'
<1>1. MainInv' /\ CheckpointInv'
  BY DEF MInv, MainInv, MainRecord, Rising, CheckpointInv
<1>2. IInv' /\ SampleInv'
  BY DEF MInv, IInv, WindowInv, DrawInv, SamplerRecord, LastN, SampleInv
<1>3. Ring'
  BY DEF MInv, Ring, Placed, Back, Held, Slots
<1> QED
  BY <1>1, <1>2, <1>3 DEF MInv

LEMMA StartAddStep == MInv => \A n \in 1 .. 2 : StartAdd(n) => MInv'
<1> SUFFICES ASSUME MInv, NEW n \in 1 .. 2, StartAdd(n) PROVE MInv'
  OBVIOUS
<1>1. /\ UNCHANGED <<way, ids, counter, version, window, slotOf, owner, next, content, sampler,
                     checkpoint>>
      /\ main' = [at |-> "submit", left |-> n, saves |-> {}]
      /\ main.at = "idle" /\ (way.preload \/ sampler.at = "idle")
  BY DEF StartAdd, indexVars, cacheVars, MainRuns
<1>2. MainInv'
  BY <1>1 DEF MInv, MainInv, MainRecord, Rising
<1>3. Held' = Held /\ main.at # "failed"
  BY <1>1 DEF Held
<1>4. Ring'
  BY <1>1, <1>3, RingSame, HeldIsNat, SlotsFacts DEF MInv
<1>5. IInv' /\ CheckpointInv' /\ SampleInv'
  BY <1>1 DEF MInv, IInv, WindowInv, DrawInv, SamplerRecord, LastN, CheckpointInv, Rising, SampleInv
<1> QED
  BY <1>2, <1>4, <1>5 DEF MInv

LEMMA SubmitStep == MInv /\ Submit => MInv'
<1> SUFFICES ASSUME MInv, Submit PROVE MInv'
  OBVIOUS
<1>1. /\ UNCHANGED <<way, ids, counter, version, window, slotOf, owner, next, content, sampler,
                     checkpoint>>
      /\ main.at = "submit" /\ (way.preload \/ sampler.at = "idle")
  BY DEF Submit, indexVars, cacheVars, MainRuns
<1>2. /\ main' = [at |-> "index", left |-> main.left, saves |-> main'.saves]
      /\ main'.saves \in SUBSET Nat
  <2>1. counter \in Nat /\ main.saves \in SUBSET Nat
    BY DEF MInv, MainInv, Rising
  <2>2. CASE way.save
    <3>1. main' = [main EXCEPT !.at = "index", !.saves = @ \cup {counter}]
      BY <2>2 DEF Submit
    <3>2. main' = [at |-> "index", left |-> main.left, saves |-> main.saves \cup {counter}]
      BY <3>1 DEF MInv, MainInv, MainRecord
    <3> QED
      BY <2>1, <3>2
  <2>3. CASE ~way.save
    <3>1. main' = [main EXCEPT !.at = "index"]
      BY <2>3 DEF Submit
    <3>2. main' = [at |-> "index", left |-> main.left, saves |-> main.saves]
      BY <3>1 DEF MInv, MainInv, MainRecord
    <3> QED
      BY <2>1, <3>2
  <2> QED
    BY <2>2, <2>3
<1>3. MainInv'
  BY <1>1, <1>2 DEF MInv, MainInv, MainRecord, Rising
<1>4. Held' = Held /\ main.at # "failed" /\ main.at # "insert"
  BY <1>1, <1>2 DEF Held
<1>5. Ring'
  BY <1>1, <1>4, RingSame, HeldIsNat, SlotsFacts DEF MInv
<1>6. IInv' /\ CheckpointInv' /\ SampleInv'
  BY <1>1 DEF MInv, IInv, WindowInv, DrawInv, SamplerRecord, LastN, CheckpointInv, Rising, SampleInv
<1> QED
  BY <1>3, <1>5, <1>6 DEF MInv

LEMMA EndAddStep == MInv /\ EndAdd => MInv'
<1> SUFFICES ASSUME MInv, EndAdd PROVE MInv'
  OBVIOUS
<1>1. /\ UNCHANGED <<way, ids, counter, version, window, slotOf, owner, next, content, sampler,
                     checkpoint>>
      /\ main' = [at |-> "idle", left |-> 0, saves |-> {}]
      /\ main.at = "flush" /\ (way.preload \/ sampler.at = "idle")
  BY DEF EndAdd, indexVars, cacheVars, MainRuns, Idle
<1>2. MainInv'
  BY <1>1 DEF MInv, MainInv, MainRecord, Rising
<1>3. Held' = Held /\ main.at # "failed" /\ main.at # "insert"
  BY <1>1 DEF Held
<1>4. Ring'
  BY <1>1, <1>3, RingSame, HeldIsNat, SlotsFacts DEF MInv
<1>5. IInv' /\ CheckpointInv' /\ SampleInv'
  BY <1>1 DEF MInv, IInv, WindowInv, DrawInv, SamplerRecord, LastN, CheckpointInv, Rising, SampleInv
<1> QED
  BY <1>2, <1>4, <1>5 DEF MInv

LEMMA AddToIndexStep == MInv /\ AddToIndex => MInv'
<1> SUFFICES ASSUME MInv, AddToIndex PROVE MInv'
  OBVIOUS
<1>1. /\ UNCHANGED <<way, window, slotOf, owner, next, content, sampler, checkpoint>>
      /\ ids' = Append(ids, counter) /\ counter' = counter + 1 /\ version' = version + 1
      /\ main' = [main EXCEPT !.at = "put"]
      /\ main.at = "index" /\ (way.preload \/ sampler.at = "idle")
  BY DEF AddToIndex, cacheVars, MainRuns
<1>2. main' = [at |-> "put", left |-> main.left, saves |-> main.saves]
  BY <1>1 DEF MInv, MainInv, MainRecord
<1>3. /\ ids \in Seq(Nat) /\ counter \in Nat /\ Len(ids) \in Nat
      /\ \A i \in 1 .. Len(ids) : ids[i] \in Nat
  BY LenProperties, ElementOfSeq DEF MInv, MainInv, Rising
<1>4. /\ ids' \in Seq(Nat) /\ Len(ids') = Len(ids) + 1 /\ ids' # <<>>
      /\ \A i \in 1 .. Len(ids) : ids'[i] = ids[i]
      /\ ids'[Len(ids) + 1] = counter
  BY <1>1, <1>3, SMTT(30)
<1>5. Rising(ids, counter)'
  <2>1. \A i \in 1 .. Len(ids') : ids'[i] < counter'
    BY <1>1, <1>3, <1>4 DEF MInv, MainInv, Rising
  <2>2. \A i, j \in 1 .. Len(ids') : i < j => ids'[i] < ids'[j]
    BY <1>1, <1>3, <1>4 DEF MInv, MainInv, Rising
  <2> QED
    BY <1>1, <1>3, <1>4, <2>1, <2>2, SMTT(30) DEF Rising
<1>6. MainInv'
  BY <1>1, <1>2, <1>4, <1>5 DEF MInv, MainInv, MainRecord
<1>7. Ring'
  <2>1. Held' = Held /\ Held = Len(ids)
    BY <1>1, <1>2, <1>3, <1>4 DEF Held
  <2> QED
    BY <1>1, <1>3, <1>4, <2>1, RingSame, SlotsFacts DEF MInv
<1>8. IInv'
  BY <1>1 DEF MInv, IInv, WindowInv, DrawInv, SamplerRecord
<1>9. CheckpointInv' /\ SampleInv'
  BY <1>1 DEF MInv, CheckpointInv, Rising, SampleInv
<1> QED
  BY <1>6, <1>7, <1>8, <1>9 DEF MInv

(* The slot given away is that of the id which leaves the window.           *)
LEMMA CachePutStep == MInv /\ CachePut => MInv'
<1> SUFFICES ASSUME MInv, CachePut PROVE MInv'
  OBVIOUS
<1> DEFINE m == Held
           new == Last(ids)
<1>1. /\ UNCHANGED <<way, ids, counter, version, window, content, sampler, checkpoint>>
      /\ slotOf' = [i \in Evict(next) \cup {new} |-> IF i = new THEN next ELSE slotOf[i]]
      /\ owner' = [s \in DOMAIN owner \cup {next} |-> IF s = next THEN new ELSE owner[s]]
      /\ next' = (next + 1) % SlotsOf(way)
      /\ main' = [main EXCEPT !.at = "insert"]
      /\ main.at = "put" /\ (way.preload \/ sampler.at = "idle")
  BY DEF CachePut, indexVars, MainRuns
<1>2. /\ main' = [at |-> "insert", left |-> main.left, saves |-> main.saves]
      /\ Slots \in Nat /\ Slots > 0 /\ SlotsOf(way) = Slots /\ Slots' = Slots
      /\ ids \in Seq(Nat) /\ ids # <<>>
  BY <1>1, SlotsFacts DEF MInv, MainInv, MainRecord, Rising, Slots
<1>3. /\ Len(ids) \in Nat /\ Len(ids) > 0 /\ m = Len(ids) - 1 /\ m \in Nat
      /\ Held' = m + 1 /\ new = ids[m + 1]
      /\ \A i, j \in 1 .. Len(ids) : ids[i] = ids[j] => i = j
  BY <1>1, <1>2, LenProperties, EmptySeq, InRising DEF MInv, MainInv, Held, Last
<1>4. next \in 0 .. Slots - 1 /\ next' = IF next + 1 = Slots THEN 0 ELSE next + 1
  <2>1. next \in 0 .. Slots - 1
    BY <1>1 DEF MInv, Ring
  <2>2. next + 1 \in 0 .. Slots
    BY <1>2, <2>1
  <2> QED
    BY <1>1, <1>2, <2>1, <2>2, Around
<1>5. MainInv'
  BY <1>1, <1>2 DEF MInv, MainInv, MainRecord, Rising
<1>6. /\ m < Slots => next = m
      /\ DOMAIN owner = 0 .. (IF m < Slots THEN m ELSE Slots) - 1
      /\ \A d \in 0 .. Slots - 1 : d < m => Placed(d)
      /\ \A id \in DOMAIN slotOf : \E d \in 0 .. Slots - 1 : d < m /\ id = ids[m - d]
  BY <1>1 DEF MInv, Ring
<1>0. m >= Slots => next \in DOMAIN owner /\ owner[next] = ids[m - (Slots - 1)]
  <2> SUFFICES ASSUME m >= Slots
               PROVE  next \in DOMAIN owner /\ owner[next] = ids[m - (Slots - 1)]
    OBVIOUS
  <2>1. Slots - 1 \in 0 .. Slots - 1 /\ Slots - 1 < m
    BY <1>2, <1>3
  <2>2. Back(Slots - 1) = next
    BY <1>2, <1>4 DEF Back
  <2>3. Placed(Slots - 1)
    BY <1>6, <2>1
  <2>4. owner[next] = ids[m - (Slots - 1)]
    BY <2>2, <2>3 DEF Placed
  <2>5. next \in DOMAIN owner
    BY <1>2, <1>3, <1>4, <1>6
  <2> QED
    BY <2>4, <2>5
<1> HIDE DEF m, new
<1>7. ASSUME NEW d \in 0 .. Slots - 1, d < m + 1
      PROVE  Placed(d)'
  <2>1. CASE d = 0
    <3>1. Back(0)' = next
      BY <1>2, <1>4 DEF Back
    <3>2. ids'[Held' - 0] = new
      BY <1>1, <1>3
    <3>3. owner'[next] = new /\ new \in DOMAIN slotOf' /\ slotOf'[new] = next
      BY <1>1
    <3> QED
      BY <1>2, <2>1, <3>1, <3>2, <3>3 DEF Placed
  <2>2. CASE d > 0
    <3> DEFINE e == d - 1
               id == ids[m - e]
    <3>1. e \in 0 .. Slots - 1 /\ e < m /\ e < Slots - 1 /\ m - e \in 1 .. m
      BY <1>2, <1>3, <1>7, <2>2
    <3>2. Placed(e) /\ main.at # "insert"
      BY <1>1, <1>6, <3>1
    <3>3. Back(d)' = Back(e) /\ Back(e) # next
      BY <1>2, <1>4, <2>2, <3>1 DEF Back
    <3>4. ids'[Held' - d] = id
      BY <1>1, <1>3
    <3>5. owner[Back(e)] = id /\ id \in DOMAIN slotOf /\ slotOf[id] = Back(e)
          /\ Back(e) \in DOMAIN content /\ content[Back(e)] = id
      BY <3>2 DEF Placed, m
    <3>6. id # new
      BY <1>3, <3>1
    <3>7. next \in DOMAIN owner => owner[next] # id
      <4>1. CASE m < Slots
        BY <1>3, <1>6, <4>1
      <4>2. CASE m >= Slots
        <5>1. /\ m - (Slots - 1) # m - e /\ m - e \in 1 .. Len(ids)
              /\ m - (Slots - 1) \in 1 .. Len(ids)
          BY <1>2, <1>3, <3>1, <4>2, SMTT(30)
        <5> QED
          BY <1>0, <1>3, <4>2, <5>1
      <4> QED
        BY <1>2, <1>3, <4>1, <4>2
    <3> HIDE DEF e, id
    <3>8. id \in Evict(next)
      BY <3>5, <3>7 DEF Evict
    <3>9. id \in DOMAIN slotOf' /\ slotOf'[id] = Back(e)
      BY <1>1, <3>5, <3>6, <3>8
    <3>10. owner'[Back(e)] = id
      <4>1. Back(e) \in DOMAIN owner
        <5>1. CASE m < Slots
          BY <1>2, <1>3, <1>4, <1>6, <3>1, <5>1 DEF Back
        <5>2. CASE m >= Slots
          BY <1>2, <1>3, <1>4, <1>6, <3>1, <5>2, SMTT(30) DEF Back
        <5> QED
          BY <1>2, <1>3, <5>1, <5>2
      <4> QED
        BY <1>1, <3>3, <3>5, <4>1
    <3> QED
      BY <1>1, <3>3, <3>4, <3>5, <3>9, <3>10 DEF Placed
  <2> QED
    BY <2>1, <2>2
<1>8. /\ m + 1 < Slots => next' = m + 1
      /\ DOMAIN owner' = 0 .. (IF m + 1 < Slots THEN m + 1 ELSE Slots) - 1
  <2>1. DOMAIN owner' = DOMAIN owner \cup {next}
    BY <1>1
  <2>2. CASE m < Slots
    BY <1>2, <1>3, <1>4, <1>6, <2>1, <2>2
  <2>3. CASE m >= Slots
    BY <1>2, <1>3, <1>4, <1>6, <2>1, <2>3, SMTT(30)
  <2> QED
    BY <1>2, <1>3, <2>2, <2>3
<1>11. ASSUME NEW i \in DOMAIN slotOf'
       PROVE  \E d \in 0 .. Slots - 1 : d < m + 1 /\ i = ids[m + 1 - d]
  <2>1. CASE i = new
    <3>1. 0 \in 0 .. Slots - 1 /\ 0 < m + 1 /\ i = ids[m + 1 - 0]
      BY <1>2, <1>3, <2>1
    <3> QED
      BY <3>1
  <2>2. CASE i # new
    <3>1. i \in DOMAIN slotOf /\ (next \in DOMAIN owner => i # owner[next])
      BY <1>1, <1>11, <2>2 DEF Evict
    <3>2. PICK d \in 0 .. Slots - 1 : d < m /\ i = ids[m - d]
      BY <1>6, <3>1
    <3>3. d # Slots - 1
      BY <1>0, <1>2, <1>3, <3>1, <3>2, SMTT(30)
    <3>4. d + 1 \in 0 .. Slots - 1 /\ d + 1 < m + 1 /\ m + 1 - (d + 1) = m - d
      <4>1. m \in Nat /\ Slots \in Nat
        BY <1>2, <1>3
      <4> QED
        BY ONLY <3>2, <3>3, <4>1
    <3> QED
      BY <3>2, <3>4
  <2> QED
    BY <2>1, <2>2
<1>9. Ring'
  <2>1. /\ next' \in 0 .. Slots - 1
        /\ Held' < Slots => next' = Held'
        /\ DOMAIN owner' = 0 .. (IF Held' < Slots THEN Held' ELSE Slots) - 1
    BY <1>2, <1>3, <1>4, <1>8
  <2>2. \A d \in 0 .. Slots - 1 : d < Held' => Placed(d)'
    BY <1>3, <1>7, Zenon
  <2>3. \A id \in DOMAIN slotOf' : \E d \in 0 .. Slots - 1 : d < Held' /\ id = ids'[Held' - d]
    <3>1. ids' = ids /\ Held' = m + 1 /\ m \in Nat
      BY <1>1, <1>3
    <3>2. ASSUME NEW id \in DOMAIN slotOf'
          PROVE  \E d \in 0 .. Slots - 1 : d < Held' /\ id = ids'[Held' - d]
      <4>1. PICK d \in 0 .. Slots - 1 : d < m + 1 /\ id = ids[m + 1 - d]
        BY <1>11
      <4>2. d < Held' /\ id = ids'[Held' - d]
        BY ONLY <3>1, <4>1
      <4> QED
        BY <4>2, Zenon
    <3> QED
      BY <3>2
  <2> QED
    BY <1>2, <2>1, <2>2, <2>3, Zenon DEF Ring
<1>10. IInv' /\ CheckpointInv' /\ SampleInv'
  BY <1>1 DEF MInv, IInv, WindowInv, DrawInv, SamplerRecord, LastN, CheckpointInv, Rising, SampleInv
<1> QED
  BY <1>5, <1>9, <1>10 DEF MInv

LEMMA CacheInsertStep == MInv /\ CacheInsert => MInv'
<1> SUFFICES ASSUME MInv, CacheInsert PROVE MInv'
  OBVIOUS
<1> DEFINE m == Len(ids)
           new == Last(ids)
           s == slotOf[new]
<1>1. /\ UNCHANGED <<way, ids, counter, version, window, slotOf, owner, next, sampler,
                     checkpoint>>
      /\ content' = [t \in DOMAIN content \cup {s} |-> IF t = s THEN new ELSE content[t]]
      /\ main' = [main EXCEPT !.at = IF main.left = 1 THEN "flush" ELSE "submit", !.left = @ - 1]
      /\ main.at = "insert" /\ (way.preload \/ sampler.at = "idle")
  BY DEF CacheInsert, indexVars, MainRuns
<1>2. /\ main' = [at |-> main'.at, left |-> main'.left, saves |-> main'.saves]
      /\ main'.at \in {"flush", "submit"}
      /\ main'.saves \in SUBSET Nat
      /\ Slots \in Nat /\ Slots > 0 /\ Slots' = Slots
      /\ ids \in Seq(Nat) /\ ids # <<>>
  BY <1>1, SlotsFacts DEF MInv, MainInv, MainRecord, Rising, Slots
<1>3. /\ m \in Nat /\ m > 0 /\ new = ids[m] /\ Held = m /\ Held' = m
  BY <1>1, <1>2, LenProperties, EmptySeq DEF Held, Last
<1>4. MainInv'
  BY <1>1, <1>2 DEF MInv, MainInv, MainRecord, Rising
<1>5. /\ next \in 0 .. Slots - 1
      /\ \A d \in 0 .. Slots - 1 : d < m => Placed(d)
  BY <1>1, <1>3 DEF MInv, Ring
<1>6. new \in DOMAIN slotOf /\ s = Back(0)
  BY <1>2, <1>3, <1>5, SMTT(30) DEF Placed
<1> HIDE DEF m, new, s
<1>7. ASSUME NEW d \in 0 .. Slots - 1, d < m
      PROVE  Placed(d)'
  <2>1. Placed(d) /\ Back(d)' = Back(d)
    BY <1>1, <1>2, <1>5, <1>7 DEF Back
  <2>2. Back(d) \in DOMAIN content' /\ content'[Back(d)] = ids[m - d]
    <3>1. CASE d = 0
      BY <1>1, <1>3, <1>6, <3>1
    <3>2. CASE d > 0
      <4>1. Back(d) # s
        BY <1>2, <1>5, <1>6, <1>7, <3>2 DEF Back
      <4>2. Back(d) \in DOMAIN content /\ content[Back(d)] = ids[m - d]
        BY <1>3, <2>1, <3>2 DEF Placed
      <4> QED
        BY <1>1, <4>1, <4>2
    <3> QED
      BY <3>1, <3>2
  <2> QED
    BY <1>1, <1>3, <2>1, <2>2 DEF Placed
<1>8. Ring'
  <2>1. /\ next' \in 0 .. Slots - 1
        /\ Held' < Slots => next' = Held'
        /\ DOMAIN owner' = 0 .. (IF Held' < Slots THEN Held' ELSE Slots) - 1
        /\ \A id \in DOMAIN slotOf' : \E d \in 0 .. Slots - 1 : d < Held' /\ id = ids'[Held' - d]
    BY <1>1, <1>3 DEF MInv, Ring
  <2>2. \A d \in 0 .. Slots - 1 : d < Held' => Placed(d)'
    BY <1>3, <1>7, Zenon
  <2> QED
    BY <1>2, <2>1, <2>2, Zenon DEF Ring
<1>9. IInv' /\ CheckpointInv' /\ SampleInv'
  BY <1>1 DEF MInv, IInv, WindowInv, DrawInv, SamplerRecord, LastN, CheckpointInv, Rising, SampleInv
<1> QED
  BY <1>4, <1>8, <1>9 DEF MInv

-----------------------------------------------------------------------------
-----------------------------------------------------------------------------
(* A sample that is drawn is of the window of the time.                     *)
LEMMA DrawKeeps == MInv /\ Draw => MInv'
<1> SUFFICES ASSUME MInv, Draw PROVE MInv'
  OBVIOUS
<1>1. /\ UNCHANGED <<way, ids, counter, version, slotOf, owner, next, content, main, checkpoint>>
      /\ window' = IF window.version = version THEN window
                   ELSE [version |-> version, ids |-> LastN(ids, Window)]
      /\ way.preload \/ main.at = "idle"
      /\ main.at # "failed"
  BY DEF Draw, indexVars, cacheVars, SamplerMayStart
<1>2. window'.ids = LastN(ids, Window) /\ ids \in Seq(Nat)
  BY <1>1 DEF MInv, IInv, WindowInv, MainInv, Rising
<1>3. PICK id \in Ids(window'.ids) :
          sampler' = [sampler EXCEPT !.at = "drawn", !.id = id, !.from = Ids(window'.ids),
                                     !.recent = Ids(LastN(ids, Window))]
  BY DEF Draw
<1>4. sampler'.at = "drawn" /\ sampler'.id = id
  BY <1>3 DEF MInv, IInv, DrawInv, SamplerRecord
<1>5. ~way.save => \E d \in 0 .. Window - 1 : d < Len(ids) /\ id = ids[Len(ids) - d]
  BY <1>2, WindowIds, SlotsFacts
<1>6. SampleInv'
  BY <1>1, <1>4, <1>5 DEF SampleInv
<1>7. MainInv' /\ CheckpointInv'
  BY <1>1 DEF MInv, MainInv, MainRecord, Rising, CheckpointInv
<1>8. Held' = Held
  BY <1>1 DEF Held
<1>9. Ring'
  BY <1>1, <1>8, RingSame, HeldIsNat, SlotsFacts DEF MInv
<1> QED
  BY <1>6, <1>7, <1>9, DrawStep DEF MInv

(* What is cached is in its slot while nothing is added, and without files  *)
(* what was drawn is cached.                                                *)
LEMMA CachedIsPlaced ==
    ASSUME MInv, main.at = "idle"
    PROVE  /\ \A id \in DOMAIN slotOf :
                  slotOf[id] \in DOMAIN content /\ content[slotOf[id]] = id
           /\ \A d \in 0 .. Slots - 1 : d < Len(ids) => ids[Len(ids) - d] \in DOMAIN slotOf
<1>1. Held = Len(ids)
  BY DEF Held
<1>2. /\ \A d \in 0 .. Slots - 1 : d < Held => Placed(d)
      /\ \A id \in DOMAIN slotOf : \E d \in 0 .. Slots - 1 : d < Held /\ id = ids[Held - d]
  BY DEF MInv, Ring
<1>3. ASSUME NEW d \in 0 .. Slots - 1, d < Held
      PROVE  LET id == ids[Held - d]
             IN /\ id \in DOMAIN slotOf /\ slotOf[id] \in DOMAIN content
                /\ content[slotOf[id]] = id
  <2>1. Placed(d)
    BY <1>2, <1>3
  <2> QED
    BY <2>1 DEF Placed
<1> QED
  BY <1>1, <1>2, <1>3

LEMMA SampleGoesOn == MInv /\ SampleStep => SampleInv'
<1> SUFFICES ASSUME MInv, SampleStep, ~way'.preload, sampler'.at # "idle"
             PROVE  /\ main'.at = "idle"
                    /\ \/ way'.save
                       \/ /\ \E d \in 0 .. Window - 1 :
                                 d < Len(ids') /\ sampler'.id = ids'[Len(ids') - d]
                          /\ sampler'.at \notin {"miss", "dead"}
                    /\ sampler'.at = "slot" =>
                           sampler'.slot \in DOMAIN content' /\ content'[sampler'.slot] = sampler'.id
                    /\ sampler'.at = "given" => sampler'.data = sampler'.id
  BY DEF SampleInv
<1>1. UNCHANGED <<way, ids, slotOf, content, main>> /\ sampler.at # "idle"
  BY DEF SampleStep, Mask, FindSlot, Gather, LoadMiss, Give, indexVars, cacheVars
<1>2. /\ main.at = "idle"
      /\ \/ way.save
         \/ /\ \E d \in 0 .. Window - 1 : d < Len(ids) /\ sampler.id = ids[Len(ids) - d]
            /\ sampler.at \notin {"miss", "dead"}
      /\ sampler.at = "slot" => sampler.slot \in DOMAIN content /\ content[sampler.slot] = sampler.id
      /\ sampler.at = "given" => sampler.data = sampler.id
  BY <1>1 DEF MInv, SampleInv
<1>3. sampler.id \in DOMAIN slotOf =>
          slotOf[sampler.id] \in DOMAIN content /\ content[slotOf[sampler.id]] = sampler.id
  BY <1>2, CachedIsPlaced
<1>4. ~way.save => sampler.id \in DOMAIN slotOf
  BY <1>2, CachedIsPlaced, SlotsFacts
<1>5. SamplerRecord
  BY DEF MInv, IInv, DrawInv
<1>6. CASE Mask
  <2>1. sampler' = [sampler EXCEPT !.at = IF sampler.id \in DOMAIN slotOf THEN "hit" ELSE "miss"]
    BY <1>6 DEF Mask
  <2>2. /\ sampler'.at \in {"hit", "miss"} /\ sampler'.id = sampler.id
        /\ sampler.id \in DOMAIN slotOf => sampler'.at = "hit"
    BY <1>5, <2>1 DEF SamplerRecord
  <2> QED
    BY <1>1, <1>2, <1>4, <2>2
<1>7. CASE FindSlot
  <2>1. CASE sampler.id \in DOMAIN slotOf
    <3>1. sampler' = [sampler EXCEPT !.at = "slot", !.slot = slotOf[sampler.id]]
      BY <1>7, <2>1 DEF FindSlot
    <3>2. sampler'.at = "slot" /\ sampler'.id = sampler.id /\ sampler'.slot = slotOf[sampler.id]
      BY <1>5, <3>1 DEF SamplerRecord
    <3> QED
      BY <1>1, <1>2, <1>3, <2>1, <3>2
  <2>2. CASE sampler.id \notin DOMAIN slotOf
    <3>1. sampler' = [sampler EXCEPT !.at = "dead"] /\ way.save
      BY <1>4, <1>7, <2>2 DEF FindSlot
    <3>2. sampler'.at = "dead"
      BY <1>5, <3>1 DEF SamplerRecord
    <3> QED
      BY <1>1, <1>2, <3>1, <3>2
  <2> QED
    BY <2>1, <2>2
<1>8. CASE Gather
  <2>1. sampler' = [sampler EXCEPT !.at = "given", !.data = sampler.id]
    BY <1>2, <1>8 DEF Gather
  <2>2. sampler'.at = "given" /\ sampler'.id = sampler.id /\ sampler'.data = sampler.id
    BY <1>5, <2>1 DEF SamplerRecord
  <2> QED
    BY <1>1, <1>2, <2>2
<1>9. CASE LoadMiss
  <2>1. sampler.at = "miss" /\ way.save
    BY <1>2, <1>9 DEF LoadMiss
  <2>2. \/ sampler' = [sampler EXCEPT !.at = "given", !.data = sampler.id]
        \/ sampler' = [sampler EXCEPT !.at = "dead"]
    BY <1>9 DEF LoadMiss
  <2>3. \/ sampler'.at = "given" /\ sampler'.id = sampler.id /\ sampler'.data = sampler.id
        \/ sampler'.at = "dead"
    BY <1>5, <2>2 DEF SamplerRecord
  <2> QED
    BY <1>1, <1>2, <2>1, <2>3
<1>10. CASE Give
  BY <1>10 DEF Give, Resting
<1> QED
  BY <1>6, <1>7, <1>8, <1>9, <1>10 DEF SampleStep

LEMMA SampleKeeps == MInv /\ SampleStep => MInv'
<1> SUFFICES ASSUME MInv, SampleStep PROVE MInv'
  OBVIOUS
<1>1. UNCHANGED <<way, ids, counter, version, window, slotOf, owner, next, content, main,
                  checkpoint>>
  BY DEF SampleStep, Mask, FindSlot, Gather, LoadMiss, Give, indexVars, cacheVars
<1>2. IInv'
  BY WindowStep DEF MInv, Next
<1>3. MainInv' /\ CheckpointInv'
  BY <1>1 DEF MInv, MainInv, MainRecord, Rising, CheckpointInv
<1>4. Ring'
  BY <1>1 DEF MInv, Ring, Placed, Back, Held, Slots
<1> QED
  BY <1>2, <1>3, <1>4, SampleGoesOn DEF MInv

-----------------------------------------------------------------------------
(* A checkpoint is written with everything of the window in its slot.       *)
LEMMA CheckpointStep == MInv /\ SaveCheckpoint => MInv'
<1> SUFFICES ASSUME MInv, SaveCheckpoint PROVE MInv'
  OBVIOUS
<1>1. /\ UNCHANGED <<way, ids, counter, version, window, slotOf, owner, next, content, main, sampler>>
      /\ checkpoint'.ids = ids /\ checkpoint'.meta.counter = counter
      /\ ~way.save => checkpoint'.whole = {i \in DOMAIN slotOf : content[slotOf[i]] = i}
      /\ main.at = "idle"
  BY DEF SaveCheckpoint, indexVars, cacheVars, Meta
<1>2. Rising(ids, counter) /\ Len(ids) \in Nat
  BY LenProperties DEF MInv, MainInv, Rising
<1>3. ASSUME ~way.save, NEW i \in 1 .. Len(ids), Len(ids) - Window < i
      PROVE  ids[i] \in checkpoint'.whole
  <2>1. Slots = Window /\ Window \in Nat
    BY <1>3, SlotsFacts
  <2>2. /\ Len(ids) - i \in 0 .. Slots - 1 /\ Len(ids) - i < Len(ids)
        /\ Len(ids) - (Len(ids) - i) = i
    BY <1>2, <1>3, <2>1
  <2>3. ids[i] \in DOMAIN slotOf
    BY <1>1, <2>2, CachedIsPlaced
  <2> QED
    BY <1>1, <1>3, <2>3, CachedIsPlaced
<1>4. CheckpointInv'
  BY <1>1, <1>2, <1>3 DEF CheckpointInv, Rising
<1>5. MainInv'
  BY <1>1 DEF MInv, MainInv, MainRecord, Rising
<1>6. Ring'
  BY <1>1 DEF MInv, Ring, Placed, Back, Held, Slots
<1>7. IInv' /\ SampleInv'
  BY <1>1 DEF MInv, IInv, WindowInv, DrawInv, SamplerRecord, LastN, SampleInv
<1> QED
  BY <1>4, <1>5, <1>6, <1>7 DEF MInv

(* The parts of a distributed load.                                         *)
LEMMA Multiple ==
    ASSUME NEW a \in Nat, NEW b \in Nat, a <= b, NEW q \in Nat
    PROVE  a * q \in Nat /\ b * q \in Nat /\ a * q <= b * q
<1>1. (b - a) * q >= 0 /\ (b - a) * q = b * q - a * q
  BY SMTT(30)
<1>2. a * q \in Nat /\ b * q \in Nat
  BY SMTT(30)
<1> QED
  BY <1>1, <1>2

LEMMA DivisionOf ==
    ASSUME NEW w \in Nat, w > 0, NEW n \in Nat
    PROVE  /\ n = w * (n \div w) + (n % w)
           /\ n % w \in 0 .. w - 1 /\ n \div w \in Nat
<1>1. n = w * (n \div w) + (n % w) /\ n % w \in 0 .. w - 1 /\ n \div w \in Int
  OBVIOUS
<1> DEFINE q == n \div w
<1>2. ~(q <= -1)
  <2> SUFFICES ASSUME q <= -1 PROVE FALSE
    OBVIOUS
  <2>1. w * q <= -w
    BY <1>1, SMTT(30)
  <2> QED
    BY <1>1, <2>1
<1> QED
  BY <1>1, <1>2

LEMMA Division ==
    ASSUME NEW n \in Nat
    PROVE  /\ World \in Nat /\ World > 0
           /\ \E q \in Nat, m \in 0 .. World - 1 :
                  n \div World = q /\ n % World = m /\ World * q \in Nat /\ n = World * q + m
<1>1. World \in Nat /\ World > 0
  BY SizesAssumption
<1> DEFINE q == n \div World
           m == n % World
<1>2. n = World * q + m /\ m \in 0 .. World - 1 /\ q \in Nat
  BY <1>1, DivisionOf
<1> HIDE DEF q, m
<1>3. World * q \in Nat
  BY <1>1, <1>2, Multiple
<1>4. n \div World = q /\ n % World = m
  BY DEF q, m
<1> QED
  BY <1>1, <1>2, <1>3, <1>4

LEMMA PartFits ==
    ASSUME NEW n \in Nat, NEW r \in 0 .. World - 1
    PROVE  /\ PartStart(n, r) \in Nat /\ PartLen(n, r) \in Nat
           /\ PartStart(n, r) + PartLen(n, r) <= n
<1>1. PICK q \in Nat, m \in 0 .. World - 1 :
          n \div World = q /\ n % World = m /\ World * q \in Nat /\ n = World * q + m
  BY Division
<1>0. World \in Nat /\ World > 0
  BY Division
<1>2. r \in Nat /\ r + 1 \in Nat /\ r + 1 <= World
  BY <1>0, <1>1
<1>3. /\ PartStart(n, r) = r * q + (IF r < m THEN r ELSE m)
      /\ PartLen(n, r) = q + (IF r < m THEN 1 ELSE 0)
  BY <1>1 DEF PartStart, PartLen
<1>4. r * q \in Nat /\ (r + 1) * q <= World * q
  BY <1>0, <1>1, <1>2, Multiple
<1>5. (r + 1) * q = r * q + q
  BY <1>0, <1>1, <1>2, SMTT(30)
<1> DEFINE a == r * q
           b == World * q
<1>6. a \in Nat /\ b \in Nat /\ a + q <= b
  BY <1>1, <1>4, <1>5
<1>7. n = b + m /\ PartStart(n, r) = a + (IF r < m THEN r ELSE m)
  BY <1>1, <1>3
<1>8. PartLen(n, r) = q + (IF r < m THEN 1 ELSE 0)
  BY <1>3
<1>9. m \in Nat /\ r \in Nat /\ q \in Nat
  BY <1>0, <1>1, <1>2
<1> HIDE DEF a, b
<1>10. CASE r < m
  BY <1>6, <1>7, <1>8, <1>9, <1>10
<1>11. CASE ~(r < m)
  BY <1>6, <1>7, <1>8, <1>9, <1>11
<1> QED
  BY <1>10, <1>11

(* However many ranks share a directory, each of its trajectories is loaded  *)
(* by one of them: a part begins where the one before it ends, the first at *)
(* the beginning and the last one ends at the end.                          *)
THEOREM PartsCoverTheIndex ==
    ASSUME NEW n \in Nat
    PROVE  /\ PartStart(n, 0) = 0
           /\ \A r \in 0 .. World - 1 : PartStart(n, r + 1) = PartStart(n, r) + PartLen(n, r)
           /\ PartStart(n, World) = n
<1>1. PICK q \in Nat, m \in 0 .. World - 1 :
          n \div World = q /\ n % World = m /\ World * q \in Nat /\ n = World * q + m
  BY Division
<1>0. World \in Nat /\ World > 0
  BY Division
<1>2. \A r : /\ PartStart(n, r) = r * q + (IF r < m THEN r ELSE m)
             /\ PartLen(n, r) = q + (IF r < m THEN 1 ELSE 0)
  BY <1>1 DEF PartStart, PartLen
<1>3. PartStart(n, 0) = 0
  <2>1. 0 * q = 0
    BY <1>0, <1>1
  <2> QED
    BY <1>0, <1>1, <1>2, <2>1
<1>4. PartStart(n, World) = n
  <2>1. PartStart(n, World) = World * q + (IF World < m THEN World ELSE m)
    BY <1>2
  <2>2. ~(World < m)
    BY <1>0, <1>1
  <2> QED
    BY <1>0, <1>1, <2>1, <2>2
<1>5. ASSUME NEW r \in 0 .. World - 1
      PROVE  PartStart(n, r + 1) = PartStart(n, r) + PartLen(n, r)
  <2>1. r \in Nat /\ (r + 1) * q = r * q + q /\ r * q \in Nat
    <3>1. r \in Nat /\ r <= World
      BY <1>0
    <3>2. (r + 1) * q = r * q + q
      BY <3>1, SMTT(30)
    <3>3. r * q \in Nat
      BY <1>0, <3>1, Multiple, Zenon
    <3> QED
      BY <3>1, <3>2, <3>3, Zenon
  <2>2. /\ PartStart(n, r + 1) = (r + 1) * q + (IF r + 1 < m THEN r + 1 ELSE m)
        /\ PartStart(n, r) = r * q + (IF r < m THEN r ELSE m)
        /\ PartLen(n, r) = q + (IF r < m THEN 1 ELSE 0)
    BY <1>2, Zenon
  <2> DEFINE a == r * q
             b == (r + 1) * q
  <2>3. /\ a \in Nat /\ b = a + q
        /\ PartStart(n, r + 1) = b + (IF r + 1 < m THEN r + 1 ELSE m)
        /\ PartStart(n, r) = a + (IF r < m THEN r ELSE m)
    BY <2>1, <2>2, Zenon
  <2> HIDE DEF a, b
  <2>4. m \in Nat /\ r \in Nat /\ q \in Nat
    BY <1>0
  <2> QED
    BY <2>2, <2>3, <2>4
<1> QED
  BY <1>3, <1>4, <1>5

(* A slice of the index rises as well, and what is added to it later is new. *)
NextId(s) == IF s = <<>> THEN 0 ELSE Max(Ids(s)) + 1

LEMMA RisingSlice ==
    ASSUME NEW s, NEW n, Rising(s, n), NEW a \in Nat, NEW b \in Nat, a + b <= Len(s)
    PROVE  LET t == SubSeq(s, a + 1, a + b)
           IN  Rising(t, NextId(t)) /\ Ids(t) \subseteq Ids(s)
<1> DEFINE t == SubSeq(s, a + 1, a + b)
<1>1. s \in Seq(Nat) /\ Len(s) \in Nat /\ \A i \in 1 .. Len(s) : s[i] \in Nat
  BY LenProperties, ElementOfSeq DEF Rising
<1>2. /\ t \in Seq(Nat) /\ Len(t) = b
      /\ \A i \in 1 .. b : t[i] = s[a + i]
  <2>1. a + 1 \in Int /\ a + b \in Int
    BY <1>1
  <2>2. \A i \in a + 1 .. a + b : s[i] \in Nat
    BY <1>1
  <2>3. /\ (IF a + 1 <= a + b THEN a + b - (a + 1) + 1 ELSE 0) = b
        /\ \A i \in 1 .. b : a + 1 + i - 1 = a + i
    OBVIOUS
  <2>4. /\ SubSeq(s, a + 1, a + b) \in Seq(Nat)
        /\ Len(SubSeq(s, a + 1, a + b)) = IF a + 1 <= a + b THEN a + b - (a + 1) + 1 ELSE 0
        /\ \A i \in 1 .. a + b - (a + 1) + 1 : SubSeq(s, a + 1, a + b)[i] = s[a + 1 + i - 1]
    BY <1>1, <2>1, <2>2, SubSeqProperties, SMTT(30)
  <2>5. a + b - (a + 1) + 1 = b
    OBVIOUS
  <2> QED
    BY <2>3, <2>4, <2>5
<1> HIDE DEF t
<1>3. \A i \in 1 .. b : a + i \in 1 .. Len(s) /\ t[i] \in Nat
  BY <1>1, <1>2, SMTT(30)
<1>4. \A i, j \in 1 .. b : i < j => t[i] < t[j]
  <2> SUFFICES ASSUME NEW i \in 1 .. b, NEW j \in 1 .. b, i < j
               PROVE  t[i] < t[j]
    OBVIOUS
  <2>1. a + i \in 1 .. Len(s) /\ a + j \in 1 .. Len(s) /\ a + i < a + j
    BY <1>3
  <2>2. s[a + i] < s[a + j]
    BY <2>1 DEF Rising
  <2> QED
    BY <1>2, <2>2
<1>5. Ids(t) = {t[i] : i \in 1 .. b}
  BY <1>2, LenProperties DEF Ids, ToSet
<1>6. Ids(t) \subseteq Ids(s)
  <2>1. \A i \in 1 .. b : s[a + i] \in Ids(s)
    BY <1>1, <1>3, LenProperties DEF Ids, ToSet
  <2> QED
    BY <1>2, <1>5, <2>1
<1>7. Rising(t, NextId(t))
  <2>1. CASE t = <<>>
    BY <1>2, <1>4, <2>1 DEF Rising, NextId
  <2>2. CASE t # <<>>
    <3>1. b \in 1 .. b
      BY <1>2, <2>2, EmptySeq
    <3>2. t[b] \in Ids(t) /\ \A y \in Ids(t) : y \in Nat /\ t[b] >= y
      <4>1. ASSUME NEW i \in 1 .. b
            PROVE  t[b] >= t[i] /\ t[i] \in Nat
        BY <1>3, <1>4, <3>1
      <4> QED
        BY <1>5, <3>1, <4>1
    <3>3. Max(Ids(t)) \in Ids(t) /\ \A y \in Ids(t) : Max(Ids(t)) >= y
      BY <3>2, Zenon DEF Max
    <3>4. Max(Ids(t)) \in Nat /\ NextId(t) = Max(Ids(t)) + 1
      BY <2>2, <3>2, <3>3 DEF NextId
    <3>5. \A i \in 1 .. b : t[i] \in Ids(t)
      BY <1>5
    <3>6. \A i \in 1 .. b : t[i] < NextId(t)
      BY <1>3, <3>3, <3>4, <3>5
    <3> QED
      BY <1>2, <1>4, <3>4, <3>6 DEF Rising
  <2> QED
    BY <2>1, <2>2
<1> QED
  BY <1>6, <1>7 DEF t

-----------------------------------------------------------------------------
(* What is loaded is put into the slots from the first one on, unless a      *)
(* trajectory that is to be cached is missing.                              *)
LEMMA LoadFills ==
    ASSUME NEW kind, NEW dir, NEW list, NEW meta, way' \in Ways, Rising(list, meta.counter),
           Load(kind, dir, list, meta)
    PROVE  /\ MainInv' /\ Ring' /\ SampleInv'
           /\ main'.at \in {"idle", "failed"}
           /\ main'.at = "failed" => ~(Ids(LastN(list, SlotsOf(way'))) \subseteq dir.whole)
<1> DEFINE recent == LastN(list, SlotsOf(way'))
           cached == Ids(recent) \subseteq dir.whole
           filled == IF cached THEN recent ELSE <<>>
           at == [s \in 0 .. Len(filled) - 1 |-> filled[s + 1]]
<1>0. Slots' = SlotsOf(way') /\ Slots' \in Nat /\ Slots' > 0
  BY SlotsCount DEF Slots
<1>1. /\ ids' = list /\ counter' = meta.counter
      /\ slotOf' = [i \in Ids(filled) |-> CHOOSE s \in DOMAIN at : at[s] = i]
      /\ owner' = at /\ content' = at
      /\ next' = Len(filled) % Slots'
      /\ main' = [at |-> IF cached THEN "idle" ELSE "failed", left |-> 0, saves |-> {}]
      /\ sampler' = Resting
  BY DEF Load, Recent, Idle, Slots
<1>2. /\ list \in Seq(Nat) /\ Len(list) \in Nat
      /\ main'.at = (IF cached THEN "idle" ELSE "failed") /\ main'.saves = {}
  BY <1>1, LenProperties DEF Rising
<1>3. MainInv'
  BY <1>1, <1>2 DEF MainInv, MainRecord
<1>4. SampleInv'
  BY <1>1 DEF SampleInv, Resting
<1> HIDE DEF cached
<1>5. ASSUME cached
      PROVE  Ring'
  <2>1. filled = recent
    BY <1>5
  <2> DEFINE n == Len(recent)
  <2>2. /\ recent \in Seq(Nat)
        /\ n = IF Slots' >= Len(list) THEN Len(list) ELSE Slots'
        /\ \A i \in 1 .. n : recent[i] = list[Len(list) - n + i]
    <3>1. SlotsOf(way') \in Nat /\ SlotsOf(way') > 0
      BY <1>0
    <3> DEFINE k == SlotsOf(way')
               last == LastN(list, k)
    <3>2. k \in Nat /\ k > 0 /\ k = Slots'
      BY <1>0, <3>1
    <3> HIDE DEF k
    <3>3. /\ last \in Seq(Nat) /\ Len(last) = IF k >= Len(list) THEN Len(list) ELSE k
          /\ \A i \in 1 .. Len(last) : last[i] = list[Len(list) - Len(last) + i]
      BY <1>2, <3>2, LastNFacts
    <3>4. last = recent
      BY DEF k
    <3> HIDE DEF last, recent
    <3> QED
      BY <3>2, <3>3, <3>4
  <2>3. n \in Nat /\ n <= Len(list) /\ n <= Slots' /\ n \in 0 .. Slots'
    BY <1>0, <1>2, <2>2
  <2>4. next' = IF n = Slots' THEN 0 ELSE n
    BY <1>0, <1>1, <2>1, <2>3, Around
  <2>5. Held' = Len(list) /\ main'.at = "idle"
    BY <1>1, <1>2, <1>5 DEF Held
  <2>6. /\ DOMAIN at = 0 .. n - 1 /\ \A b \in 0 .. n - 1 : at[b] = recent[b + 1]
        /\ Ids(filled) = {recent[i] : i \in 1 .. n}
    BY <2>1, <2>2, LenProperties DEF Ids, ToSet
  <2> HIDE DEF recent, filled, at, n
  <2>7. ASSUME NEW d \in 0 .. Slots' - 1, d < Len(list)
        PROVE  Placed(d)'
    <3> DEFINE b == n - 1 - d
    <3>1. b \in 0 .. n - 1 /\ Back(d)' = b
      BY <1>0, <1>2, <2>2, <2>3, <2>4, <2>7, SMTT(30) DEF Back
    <3>2. b + 1 \in 1 .. n /\ Len(list) - n + (b + 1) = Len(list) - d
      BY <1>2, <2>3, <3>1
    <3> HIDE DEF b
    <3>3. at[b] = recent[b + 1] /\ recent[b + 1] = list[Len(list) - d] /\ at[b] \in Ids(filled)
      BY <2>2, <2>6, <3>1, <3>2
    <3>4. ASSUME NEW s \in 0 .. n - 1, at[s] = at[b]
          PROVE  s = b
      <4>1. s + 1 \in 1 .. n
        BY <2>3
      <4>2. at[s] = recent[s + 1] /\ recent[s + 1] = list[Len(list) - n + (s + 1)]
        BY <2>2, <2>6, <4>1
      <4>3. /\ Len(list) - n + (s + 1) \in 1 .. Len(list)
            /\ Len(list) - d \in 1 .. Len(list)
        BY <1>2, <2>3, <2>7, <4>1
      <4>4. list[Len(list) - n + (s + 1)] = list[Len(list) - d]
        BY <3>3, <3>4, <4>2
      <4>5. Len(list) - n + (s + 1) = Len(list) - d
        BY <4>3, <4>4, InRising
      <4> QED
        BY <1>2, <2>3, <3>1, <3>2, <4>5
    <3>5. slotOf'[at[b]] = b /\ at[b] \in DOMAIN slotOf'
      BY <1>1, <2>6, <3>1, <3>3, <3>4
    <3> QED
      BY <1>1, <2>5, <2>6, <3>1, <3>3, <3>5 DEF Placed
  <2>8. ASSUME NEW id \in DOMAIN slotOf'
        PROVE  \E d \in 0 .. Slots' - 1 : d < Len(list) /\ id = list[Len(list) - d]
    <3>1. PICK i \in 1 .. n : id = recent[i]
      BY <1>1, <2>6
    <3>2. n - i \in 0 .. Slots' - 1 /\ n - i < Len(list) /\ Len(list) - n + i = Len(list) - (n - i)
      BY <1>0, <1>2, <2>3
    <3> QED
      BY <2>2, <3>1, <3>2
  <2>9. DOMAIN owner' = 0 .. (IF Held' < Slots' THEN Held' ELSE Slots') - 1
    <3>1. n = IF Held' < Slots' THEN Held' ELSE Slots'
      BY <1>0, <1>2, <2>2, <2>5
    <3> QED
      BY <1>1, <2>6, <3>1
  <2>10. next' \in 0 .. Slots' - 1 /\ (Held' < Slots' => next' = Held')
    BY <1>0, <1>2, <2>2, <2>3, <2>4, <2>5
  <2>11. \A d \in 0 .. Slots' - 1 : d < Held' => Placed(d)'
    BY <2>5, <2>7, Zenon
  <2>12. \A id \in DOMAIN slotOf' : \E d \in 0 .. Slots' - 1 : d < Held' /\ id = ids'[Held' - d]
    BY ONLY <1>1, <2>5, <2>8, Zenon
  <2> QED
    BY <2>9, <2>10, <2>11, <2>12, Zenon DEF Ring
<1>6. ASSUME ~cached
      PROVE  Ring'
  BY <1>2, <1>6 DEF Ring
<1>7. main'.at = "failed" => ~(Ids(LastN(list, SlotsOf(way'))) \subseteq dir.whole)
  BY <1>2 DEF cached, recent
<1> QED
  BY <1>2, <1>3, <1>4, <1>5, <1>6, <1>7

LEMMA ResumeStep == MInv /\ Resume => MInv'
<1> SUFFICES ASSUME MInv, Resume PROVE MInv'
  OBVIOUS
<1>1. /\ way' = way /\ checkpoint' = checkpoint /\ way' \in Ways
      /\ Rising(checkpoint.ids, checkpoint.meta.counter)
      /\ Load("checkpoint", checkpoint, checkpoint.ids, checkpoint.meta)
  BY DEF Resume, MInv, MainInv, CheckpointInv
<1>2. MainInv' /\ Ring' /\ SampleInv'
  BY <1>1, LoadFills
<1>3. IInv'
  BY <1>1, LoadWindow
<1>4. CheckpointInv'
  BY <1>1 DEF MInv, CheckpointInv, Rising
<1> QED
  BY <1>2, <1>3, <1>4 DEF MInv

(* Parts are taken of an index on disk that rises.                          *)
LEMMA LoadPartStep ==
    ASSUME MInv, Rising(disk.ids, counter), NEW r \in 0 .. World - 1, LoadPart(r)
    PROVE  /\ MInv'
           /\ main'.at = "failed" => ~(Ids(disk.ids) \subseteq disk.whole)
<1> DEFINE n == Len(disk.ids)
           list == SubSeq(disk.ids, PartStart(n, r) + 1, PartStart(n, r) + PartLen(n, r))
           meta == [size |-> Len(list), counter |-> NextId(list)]
<1>1. /\ way' \in Ways /\ checkpoint' = Absent
      /\ Load("closed", disk, list, meta)
  BY DEF LoadPart, NextId
<1>2. n \in Nat
  BY LenProperties DEF Rising
<1>3. /\ PartStart(n, r) \in Nat /\ PartLen(n, r) \in Nat
      /\ PartStart(n, r) + PartLen(n, r) <= n
  BY <1>2, PartFits
<1>4. Rising(list, NextId(list)) /\ Ids(list) \subseteq Ids(disk.ids)
  BY <1>3, RisingSlice
<1>5. meta.counter = NextId(list)
  OBVIOUS
<1> HIDE DEF n, list, meta
<1>6. /\ MainInv' /\ Ring' /\ SampleInv'
      /\ main'.at = "failed" => ~(Ids(LastN(list, SlotsOf(way'))) \subseteq disk.whole)
  BY <1>1, <1>4, <1>5, LoadFills
<1>7. IInv'
  BY <1>1, LoadWindow
<1>8. CheckpointInv'
  BY <1>1 DEF CheckpointInv, Absent, Rising
<1>9. Ids(LastN(list, SlotsOf(way'))) \subseteq Ids(list)
  <2>1. list \in Seq(Nat) /\ SlotsOf(way') \in Nat /\ SlotsOf(way') > 0 /\ Len(list) \in Nat
    BY <1>1, <1>4, SlotsCount, LenProperties DEF Rising
  <2>2. \A i \in 1 .. Len(list) : list[i] \in Ids(list)
    BY <2>1, LenProperties DEF Ids, ToSet
  <2> SUFFICES ASSUME NEW id \in Ids(LastN(list, SlotsOf(way')))
               PROVE  id \in Ids(list)
    OBVIOUS
  <2>3. PICK d \in 0 .. SlotsOf(way') - 1 : d < Len(list) /\ id = list[Len(list) - d]
    BY <2>1, WindowIds
  <2>4. Len(list) - d \in 1 .. Len(list)
    BY <2>1, <2>3
  <2> QED
    BY <2>2, <2>3, <2>4
<1> QED
  BY <1>4, <1>6, <1>7, <1>8, <1>9 DEF MInv

-----------------------------------------------------------------------------
(* What is on disk, with auto_save.                                         *)
Jobs == [job : {"save", "flush"}, ids : SUBSET Nat, at : {"begun", "open"}]

Pending == working \cup ToSet(queue)

JobInv == working \in SUBSET Jobs /\ queue \in Seq(Jobs)

(* The index on disk was this index, or is that of a directory not begun.   *)
DiskInv ==
    /\ disk = [ids |-> disk.ids, meta |-> disk.meta, whole |-> disk.whole,
               partial |-> disk.partial]
    /\ Rising(disk.ids, counter)
    /\ Ids(disk.ids) \subseteq Ids(ids)
    /\ origin.loads \in Nat /\ origin.size \in 0 .. Len(ids)
    /\ origin.loads = 0 => origin.size = 0

(* The file of a trajectory is complete, or a job is to complete it.        *)
OnFile(i) == i \in disk.whole \/ \E j \in Pending : j.job = "save" /\ i \in j.ids

(* So it is for every trajectory added since the program was started.       *)
FileInv ==
    way.save => /\ \A k \in 1 .. Len(ids) : k > origin.size => OnFile(ids[k])
                /\ main.at = "index" => OnFile(counter)

(* Between two calls the last index and metadata are on disk, or the job of  *)
(* the last call is still to write them.                                    *)
FlushInv ==
    way.save /\ main.at = "idle" /\ Len(ids) > origin.size =>
        \/ \E j \in Pending : j.job = "flush" /\ j.at = "begun"
        \/ /\ disk.meta = Meta
           /\ disk.ids = ids \/ \E j \in Pending : j.job = "flush" /\ j.at = "open"

KInv == JobInv /\ DiskInv /\ FileInv /\ FlushInv /\ LoadSucceeds

LEMMA JobAppended ==
    ASSUME NEW S, NEW q \in Seq(S), NEW j \in S
    PROVE  Append(q, j) \in Seq(S) /\ ToSet(Append(q, j)) = ToSet(q) \cup {j}
<1>1. /\ Append(q, j) \in Seq(S) /\ Len(Append(q, j)) = Len(q) + 1
      /\ \A i \in 1 .. Len(q) : Append(q, j)[i] = q[i]
      /\ Append(q, j)[Len(q) + 1] = j
  BY AppendProperties
<1>2. /\ Len(q) \in Nat /\ DOMAIN q = 1 .. Len(q)
      /\ DOMAIN Append(q, j) = 1 .. Len(q) + 1
  BY <1>1, LenProperties
<1>3. ASSUME NEW x \in ToSet(Append(q, j))
      PROVE  x \in ToSet(q) \cup {j}
  BY <1>1, <1>2, <1>3 DEF ToSet
<1>4. ASSUME NEW x \in ToSet(q) \cup {j}
      PROVE  x \in ToSet(Append(q, j))
  <2>1. CASE x = j
    BY <1>1, <1>2, <2>1 DEF ToSet
  <2>2. CASE x \in ToSet(q)
    <3>1. PICK i \in 1 .. Len(q) : x = q[i]
      BY <1>2, <2>2 DEF ToSet
    <3>2. i \in 1 .. Len(q) + 1 /\ Append(q, j)[i] = x
      BY <1>1, <1>2, <3>1
    <3> QED
      BY <1>2, <3>2 DEF ToSet
  <2> QED
    BY <1>4, <2>1, <2>2
<1> QED
  BY <1>1, <1>3, <1>4

LEMMA JobTaken ==
    ASSUME NEW S, NEW q \in Seq(S), q # <<>>
    PROVE  /\ Head(q) \in S /\ Tail(q) \in Seq(S)
           /\ ToSet(q) = {Head(q)} \cup ToSet(Tail(q))
<1>1. /\ Head(q) \in S /\ Head(q) = q[1]
      /\ Tail(q) \in Seq(S) /\ Len(Tail(q)) = Len(q) - 1
      /\ \A i \in 1 .. Len(Tail(q)) : Tail(q)[i] = q[i + 1]
  BY HeadTailProperties
<1>2. /\ Len(q) \in Nat /\ Len(q) > 0 /\ DOMAIN q = 1 .. Len(q)
      /\ DOMAIN Tail(q) = 1 .. Len(q) - 1
  BY <1>1, LenProperties, EmptySeq
<1>3. ASSUME NEW x \in ToSet(q)
      PROVE  x \in {Head(q)} \cup ToSet(Tail(q))
  <2>1. PICK i \in 1 .. Len(q) : x = q[i]
    BY <1>2, <1>3 DEF ToSet
  <2>2. CASE i > 1
    <3>1. i - 1 \in 1 .. Len(q) - 1 /\ i - 1 + 1 = i
      BY <1>2, <2>1, <2>2
    <3>2. Tail(q)[i - 1] = x
      BY <1>1, <1>2, <2>1, <3>1
    <3> QED
      BY <1>2, <3>1, <3>2 DEF ToSet
  <2>3. CASE i = 1
    BY <1>1, <2>1, <2>3
  <2> QED
    BY <1>2, <2>1, <2>2, <2>3
<1>4. ASSUME NEW x \in {Head(q)} \cup ToSet(Tail(q))
      PROVE  x \in ToSet(q)
  <2>1. CASE x = Head(q)
    <3>1. 1 \in 1 .. Len(q)
      BY <1>2
    <3> QED
      BY <1>1, <1>2, <2>1, <3>1 DEF ToSet
  <2>2. CASE x \in ToSet(Tail(q))
    <3>1. PICK i \in 1 .. Len(q) - 1 : x = Tail(q)[i]
      BY <1>2, <2>2 DEF ToSet
    <3>2. i + 1 \in 1 .. Len(q) /\ q[i + 1] = x
      BY <1>1, <1>2, <3>1
    <3> QED
      BY <1>2, <3>2 DEF ToSet
  <2> QED
    BY <1>4, <2>1, <2>2
<1> QED
  BY <1>1, <1>3, <1>4

(* Steps that change neither the index, nor the jobs, nor the directory,    *)
(* and neither put an id on its way to the index nor end a call.            *)
LEMMA DiskKept ==
    ASSUME KInv, UNCHANGED <<way, ids, counter, size, queue, working, disk, origin>>,
           main'.at \in {"idle", "index", "failed"} => main.at = main'.at
    PROVE  KInv'
<1>1. JobInv' /\ DiskInv'
  BY DEF KInv, JobInv, DiskInv, Rising
<1>2. Pending' = Pending /\ Meta' = Meta
  BY DEF Pending, Meta
<1>3. ASSUME NEW i, OnFile(i)
      PROVE  OnFile(i)'
  BY <1>2, <1>3 DEF OnFile
<1>4. FileInv'
  BY <1>3 DEF KInv, FileInv
<1>5. FlushInv'
  BY <1>2 DEF KInv, FlushInv
<1>6. LoadSucceeds'
  BY DEF KInv, LoadSucceeds
<1> QED
  BY <1>1, <1>4, <1>5, <1>6 DEF KInv

LEMMA DiskSubmit == MInv /\ KInv /\ Submit => KInv'
<1> SUFFICES ASSUME MInv, KInv, Submit PROVE KInv'
  OBVIOUS
<1> DEFINE j == Job("save", {counter})
<1>1. /\ UNCHANGED <<way, ids, counter, size, working, disk, origin>>
      /\ queue' = IF way.save THEN Append(queue, j) ELSE queue
      /\ counter \in Nat /\ queue \in Seq(Jobs) /\ working \in SUBSET Jobs
  BY DEF Submit, indexVars, MInv, MainInv, Rising, KInv, JobInv
<1>2. main'.at = "index"
  BY DEF Submit, MInv, MainInv, MainRecord
<1>3. j \in Jobs /\ j.job = "save" /\ counter \in j.ids
  BY <1>1 DEF Job, Jobs
<1> HIDE DEF j
<1>4. /\ queue' \in Seq(Jobs)
      /\ ToSet(queue') = IF way.save THEN ToSet(queue) \cup {j} ELSE ToSet(queue)
  <2>1. Append(queue, j) \in Seq(Jobs) /\ ToSet(Append(queue, j)) = ToSet(queue) \cup {j}
    BY <1>1, <1>3, JobAppended
  <2>2. CASE way.save
    BY <1>1, <2>1, <2>2
  <2>3. CASE ~way.save
    BY <1>1, <2>3
  <2> QED
    BY <2>2, <2>3
<1>5. Pending \subseteq Pending' /\ (way.save => j \in Pending')
  BY <1>1, <1>4 DEF Pending
<1>6. ASSUME NEW i, OnFile(i)
      PROVE  OnFile(i)'
  BY <1>1, <1>5, <1>6 DEF OnFile
<1>7. way.save => OnFile(counter)'
  BY <1>1, <1>3, <1>5 DEF OnFile
<1>8. JobInv' /\ DiskInv'
  BY <1>1, <1>4 DEF KInv, JobInv, DiskInv, Rising
<1>9. FileInv'
  BY <1>1, <1>6, <1>7 DEF KInv, FileInv
<1>10. FlushInv' /\ LoadSucceeds'
  BY <1>2 DEF FlushInv, LoadSucceeds
<1> QED
  BY <1>8, <1>9, <1>10 DEF KInv

LEMMA StillRising ==
    ASSUME NEW s, NEW n, Rising(s, n)
    PROVE  Rising(s, n + 1)
<1>1. s \in Seq(Nat) /\ n \in Nat /\ \A i \in 1 .. Len(s) : s[i] \in Nat
  BY LenProperties, ElementOfSeq DEF Rising
<1>2. \A i \in 1 .. Len(s) : s[i] < n + 1
  BY <1>1 DEF Rising
<1> QED
  BY <1>1, <1>2 DEF Rising

LEMMA DiskAddToIndex == MInv /\ KInv /\ AddToIndex => KInv'
<1> SUFFICES ASSUME MInv, KInv, AddToIndex PROVE KInv'
  OBVIOUS
<1>1. /\ UNCHANGED <<way, queue, working, disk, origin>>
      /\ ids' = Append(ids, counter) /\ counter' = counter + 1
      /\ main.at = "index"
  BY DEF AddToIndex, jobVars
<1>2. main'.at = "put"
  BY DEF AddToIndex, MInv, MainInv, MainRecord
<1>3. ids \in Seq(Nat) /\ counter \in Nat /\ Len(ids) \in Nat
  BY LenProperties DEF MInv, MainInv, Rising
<1>4. /\ Len(ids') = Len(ids) + 1
      /\ \A i \in 1 .. Len(ids) : ids'[i] = ids[i]
      /\ ids'[Len(ids) + 1] = counter
      /\ Ids(ids') = Ids(ids) \cup {counter}
  BY <1>1, <1>3, AppendProperties, JobAppended DEF Ids
<1>5. JobInv'
  BY <1>1 DEF KInv, JobInv
<1>6. DiskInv'
  <2>1. Rising(disk.ids, counter)
    BY DEF KInv, DiskInv
  <2>2. Rising(disk.ids, counter')
    BY <1>1, <2>1, StillRising
  <2>3. Rising(disk.ids, counter)'
    BY <1>1, <2>2 DEF Rising
  <2> QED
    BY <1>1, <1>3, <1>4, <2>3 DEF KInv, DiskInv
<1>7. ASSUME NEW i, OnFile(i)
      PROVE  OnFile(i)'
  BY <1>1, <1>7 DEF OnFile, Pending
<1>8. FileInv'
  <2> SUFFICES ASSUME way.save, NEW k \in 1 .. Len(ids) + 1, k > origin.size,
                      NEW x, x = ids'[k]
               PROVE  OnFile(x)'
    BY <1>1, <1>2, <1>4 DEF FileInv, OnFile
  <2>1. CASE k = Len(ids) + 1
    <3>1. OnFile(counter)
      BY <1>1 DEF KInv, FileInv
    <3>2. x = counter
      BY <1>4, <2>1
    <3> QED
      BY <1>7, <3>1, <3>2, Zenon
  <2>2. CASE k # Len(ids) + 1
    <3>1. k \in 1 .. Len(ids)
      BY <1>3, <2>2
    <3>2. OnFile(ids[k]) /\ x = ids[k]
      BY <1>4, <3>1 DEF KInv, FileInv
    <3> QED
      BY <1>7, <3>2, Zenon
  <2> QED
    BY <2>1, <2>2
<1>9. FlushInv' /\ LoadSucceeds'
  BY <1>2 DEF FlushInv, LoadSucceeds
<1> QED
  BY <1>5, <1>6, <1>8, <1>9 DEF KInv

LEMMA DiskEndAdd == MInv /\ KInv /\ EndAdd => KInv'
<1> SUFFICES ASSUME MInv, KInv, EndAdd PROVE KInv'
  OBVIOUS
<1> DEFINE j == Job("flush", main.saves)
<1>1. /\ UNCHANGED <<way, ids, counter, size, working, disk, origin>>
      /\ queue' = IF way.save THEN Append(queue, j) ELSE queue
      /\ main'.at = "idle"
      /\ main.saves \in SUBSET Nat /\ queue \in Seq(Jobs) /\ working \in SUBSET Jobs
  BY DEF EndAdd, indexVars, Idle, MInv, MainInv, KInv, JobInv
<1>2. j \in Jobs /\ j.job = "flush" /\ j.at = "begun"
  BY <1>1 DEF Job, Jobs
<1> HIDE DEF j
<1>3. /\ queue' \in Seq(Jobs)
      /\ ToSet(queue') = IF way.save THEN ToSet(queue) \cup {j} ELSE ToSet(queue)
  <2>1. Append(queue, j) \in Seq(Jobs) /\ ToSet(Append(queue, j)) = ToSet(queue) \cup {j}
    BY <1>1, <1>2, JobAppended
  <2>2. CASE way.save
    BY <1>1, <2>1, <2>2
  <2>3. CASE ~way.save
    BY <1>1, <2>3
  <2> QED
    BY <2>2, <2>3
<1>4. Pending \subseteq Pending' /\ (way.save => j \in Pending')
  BY <1>1, <1>3 DEF Pending
<1>5. ASSUME NEW i, OnFile(i)
      PROVE  OnFile(i)'
  BY <1>1, <1>4, <1>5 DEF OnFile
<1>6. JobInv' /\ DiskInv'
  BY <1>1, <1>3 DEF KInv, JobInv, DiskInv, Rising
<1>7. FileInv'
  BY <1>1, <1>5 DEF KInv, FileInv
<1>8. FlushInv' /\ LoadSucceeds'
  BY <1>1, <1>2, <1>4 DEF FlushInv, LoadSucceeds
<1> QED
  BY <1>6, <1>7, <1>8 DEF KInv

-----------------------------------------------------------------------------
(* The threads of the executor. *)
LEMMA DiskTake == KInv /\ Take => KInv'
<1> SUFFICES ASSUME KInv, Take PROVE KInv'
  OBVIOUS
<1>1. /\ UNCHANGED <<way, ids, counter, size, main, disk, origin>>
      /\ working' = working \cup {Head(queue)} /\ queue' = Tail(queue) /\ queue # <<>>
      /\ queue \in Seq(Jobs) /\ working \in SUBSET Jobs
  BY DEF Take, indexVars, KInv, JobInv
<1>2. /\ Head(queue) \in Jobs /\ Tail(queue) \in Seq(Jobs)
      /\ ToSet(queue) = {Head(queue)} \cup ToSet(Tail(queue))
  BY <1>1, JobTaken
<1>3. Pending' = Pending /\ Meta' = Meta
  BY <1>1, <1>2 DEF Pending, Meta
<1>4. ASSUME NEW i, OnFile(i)
      PROVE  OnFile(i)'
  BY <1>1, <1>3, <1>4 DEF OnFile
<1>5. JobInv' /\ DiskInv'
  BY <1>1, <1>2 DEF KInv, JobInv, DiskInv, Rising
<1>6. FileInv'
  BY <1>1, <1>4 DEF KInv, FileInv
<1>7. FlushInv' /\ LoadSucceeds'
  BY <1>1, <1>3 DEF KInv, FlushInv, LoadSucceeds
<1> QED
  BY <1>5, <1>6, <1>7 DEF KInv

(* While a trajectory is written there is a job for it, then there is its   *)
(* file; the jobs that flush are as before.                                 *)
LEMMA DiskWrite == KInv => \A j \in working : OpenFile(j) \/ CloseFile(j) => KInv'
<1> SUFFICES ASSUME KInv, NEW j \in working, OpenFile(j) \/ CloseFile(j) PROVE KInv'
  OBVIOUS
<1>1. /\ UNCHANGED <<way, ids, counter, size, main, queue, origin>>
      /\ j.job = "save" /\ j \in Jobs /\ queue \in Seq(Jobs) /\ working \in SUBSET Jobs
  BY DEF OpenFile, CloseFile, indexVars, KInv, JobInv
<1>2. disk = [ids |-> disk.ids, meta |-> disk.meta, whole |-> disk.whole, partial |-> disk.partial]
  BY DEF KInv, DiskInv
<1>3. /\ disk' = [ids |-> disk.ids, meta |-> disk.meta, whole |-> disk'.whole,
                  partial |-> disk'.partial]
      /\ disk'.ids = disk.ids /\ disk'.meta = disk.meta /\ disk.whole \subseteq disk'.whole
      /\ working' \in SUBSET Jobs
      /\ \A k \in working : k = j \/ k \in working'
      /\ \A i \in j.ids : \/ i \in disk'.whole
                          \/ \E k \in working' : k.job = "save" /\ i \in k.ids
  <2>1. CASE OpenFile(j)
    <3> DEFINE o == [j EXCEPT !.at = "open"]
    <3>1. /\ disk' = [disk EXCEPT !.partial = @ \cup j.ids]
          /\ working' = (working \ {j}) \cup {o}
      BY <2>1 DEF OpenFile
    <3>2. disk' = [ids |-> disk.ids, meta |-> disk.meta, whole |-> disk.whole,
                   partial |-> disk.partial \cup j.ids]
      BY <1>2, <3>1
    <3>3. o \in Jobs /\ o.job = "save" /\ o.ids = j.ids
      BY <1>1 DEF Jobs
    <3> HIDE DEF o
    <3> QED
      BY <1>1, <3>1, <3>2, <3>3
  <2>2. CASE CloseFile(j)
    <3>1. /\ disk' = [disk EXCEPT !.partial = @ \ j.ids, !.whole = @ \cup j.ids]
          /\ working' = working \ {j}
      BY <2>2 DEF CloseFile
    <3>2. disk' = [ids |-> disk.ids, meta |-> disk.meta, whole |-> disk.whole \cup j.ids,
                   partial |-> disk.partial \ j.ids]
      BY <1>2, <3>1
    <3> QED
      BY <1>1, <3>1, <3>2
  <2> QED
    BY <2>1, <2>2
<1>4. JobInv' /\ DiskInv'
  BY <1>1, <1>3 DEF KInv, JobInv, DiskInv, Rising
<1>5. \A k \in Pending : k = j \/ k \in Pending'
  BY <1>1, <1>3 DEF Pending
<1>6. ASSUME NEW i, OnFile(i)
      PROVE  OnFile(i)'
  <2>1. CASE i \in disk.whole
    BY <1>3, <2>1 DEF OnFile
  <2>2. CASE \E k \in Pending : k.job = "save" /\ i \in k.ids
    <3>1. PICK k \in Pending : k.job = "save" /\ i \in k.ids
      BY <2>2
    <3>2. CASE k = j
      BY <1>3, <3>1, <3>2 DEF OnFile, Pending
    <3>3. CASE k \in Pending'
      BY <3>1, <3>3 DEF OnFile
    <3> QED
      BY <1>5, <3>1, <3>2, <3>3
  <2> QED
    BY <1>6, <2>1, <2>2 DEF OnFile
<1>7. FileInv'
  BY <1>1, <1>6 DEF KInv, FileInv
<1>8. \A k \in Pending : k.job = "flush" => k \in Pending'
  BY <1>1, <1>5
<1>9. FlushInv'
  <2>1. disk'.ids = disk.ids /\ disk'.meta = disk.meta /\ Meta' = Meta
    BY <1>1, <1>3 DEF Meta
  <2> QED
    BY <1>1, <1>8, <2>1 DEF KInv, FlushInv
<1>10. LoadSucceeds'
  BY <1>1 DEF KInv, LoadSucceeds
<1> QED
  BY <1>4, <1>7, <1>9, <1>10 DEF KInv

LEMMA DiskFlushMetadata == KInv => \A j \in working : FlushMetadata(j) => KInv'
<1> SUFFICES ASSUME KInv, NEW j \in working, FlushMetadata(j) PROVE KInv'
  OBVIOUS
<1> DEFINE o == [j EXCEPT !.at = "open"]
<1>1. /\ UNCHANGED <<way, ids, counter, size, main, queue, origin>>
      /\ disk' = [disk EXCEPT !.meta = Meta]
      /\ working' = (working \ {j}) \cup {o}
      /\ j.job = "flush" /\ j \in Jobs /\ queue \in Seq(Jobs) /\ working \in SUBSET Jobs
  BY DEF FlushMetadata, indexVars, KInv, JobInv
<1>2. disk = [ids |-> disk.ids, meta |-> disk.meta, whole |-> disk.whole, partial |-> disk.partial]
  BY DEF KInv, DiskInv
<1>3. disk' = [ids |-> disk.ids, meta |-> Meta, whole |-> disk.whole, partial |-> disk.partial]
  BY <1>1, <1>2
<1>4. o \in Jobs /\ o.job = "flush" /\ o.at = "open"
  BY <1>1 DEF Jobs
<1> HIDE DEF o
<1>5. JobInv' /\ DiskInv'
  BY <1>1, <1>3, <1>4 DEF KInv, JobInv, DiskInv, Rising
<1>6. /\ \A k \in Pending : k.job = "save" => k \in Pending'
      /\ o \in Pending'
  BY <1>1 DEF Pending
<1>7. ASSUME NEW i, OnFile(i)
      PROVE  OnFile(i)'
  BY <1>3, <1>6, <1>7 DEF OnFile
<1>8. FileInv'
  BY <1>1, <1>7 DEF KInv, FileInv
<1>9. FlushInv'
  <2>1. disk'.ids = disk.ids /\ disk'.meta = Meta' /\ ids' = ids
    BY <1>1, <1>3 DEF Meta
  <2> QED
    BY <1>4, <1>6, <2>1 DEF FlushInv
<1>10. LoadSucceeds'
  BY <1>1 DEF KInv, LoadSucceeds
<1> QED
  BY <1>5, <1>8, <1>9, <1>10 DEF KInv

(* A flush writes the index of the time when it writes, not of its call.    *)
LEMMA DiskFlushIndex == MInv /\ KInv => \A j \in working : FlushIndex(j) => KInv'
<1> SUFFICES ASSUME MInv, KInv, NEW j \in working, FlushIndex(j) PROVE KInv'
  OBVIOUS
<1>1. /\ UNCHANGED <<way, ids, counter, size, main, queue, origin>>
      /\ disk' = [disk EXCEPT !.ids = ids]
      /\ working' = working \ {j}
      /\ j.job = "flush" /\ j.at = "open"
      /\ queue \in Seq(Jobs) /\ working \in SUBSET Jobs
  BY DEF FlushIndex, indexVars, KInv, JobInv
<1>2. disk = [ids |-> disk.ids, meta |-> disk.meta, whole |-> disk.whole, partial |-> disk.partial]
  BY DEF KInv, DiskInv
<1>3. disk' = [ids |-> ids, meta |-> disk.meta, whole |-> disk.whole, partial |-> disk.partial]
  BY <1>1, <1>2
<1>4. Rising(ids, counter)
  BY DEF MInv, MainInv
<1>5. JobInv' /\ DiskInv'
  BY <1>1, <1>3, <1>4 DEF KInv, JobInv, DiskInv, Rising
<1>6. \A k \in Pending : k.job = "save" \/ k.at = "begun" => k \in Pending'
  BY <1>1 DEF Pending
<1>7. ASSUME NEW i, OnFile(i)
      PROVE  OnFile(i)'
  BY <1>3, <1>6, <1>7 DEF OnFile
<1>8. FileInv'
  BY <1>1, <1>7 DEF KInv, FileInv
<1>9. FlushInv'
  <2>1. disk'.ids = ids' /\ disk'.meta = disk.meta /\ Meta' = Meta
    BY <1>1, <1>3 DEF Meta
  <2> QED
    BY <1>1, <1>6, <2>1 DEF KInv, FlushInv
<1>10. LoadSucceeds'
  BY <1>1 DEF KInv, LoadSucceeds
<1> QED
  BY <1>5, <1>8, <1>9, <1>10 DEF KInv

-----------------------------------------------------------------------------
(* A program that starts has no jobs, and nothing added to a new directory. *)
LEMMA DiskLoad ==
    ASSUME KInv, MInv', NEW kind, NEW dir, NEW list, NEW meta, Load(kind, dir, list, meta)
    PROVE  /\ JobInv' /\ DiskInv' /\ FileInv' /\ FlushInv'
           /\ origin'.kind = kind /\ origin'.loads = origin.loads + 1 /\ origin.loads \in Nat
<1>1. /\ ids' = list /\ queue' = <<>> /\ working' = {} /\ disk' = Absent
      /\ origin' = [kind |-> kind, loads |-> origin.loads + 1, whole |-> dir.whole,
                    size |-> Len(list)]
      /\ main'.at \in {"idle", "failed"}
      /\ origin.loads \in Nat
  BY DEF Load, Idle, KInv, DiskInv
<1>2. counter' \in Nat /\ ids' \in Seq(Nat) /\ Len(ids') \in Nat
  <2>1. Rising(ids, counter)'
    BY DEF MInv, MainInv
  <2> QED
    BY <2>1, LenProperties DEF Rising
<1>3. JobInv'
  BY <1>1 DEF JobInv
<1>4. DiskInv'
  <2>1. Rising(<<>>, counter')
    BY <1>2 DEF Rising
  <2>2. Rising(disk.ids, counter)'
    BY <1>1, <2>1 DEF Absent, Rising
  <2>3. Ids(disk'.ids) = {}
    BY <1>1 DEF Absent, Ids, ToSet
  <2> QED
    BY <1>1, <1>2, <2>2, <2>3 DEF DiskInv, Absent
<1>5. \A k \in 1 .. Len(ids') : ~(k > origin'.size)
  BY <1>1, <1>2
<1>6. FileInv'
  BY <1>1, <1>5 DEF FileInv
<1>7. FlushInv'
  BY <1>1, <1>2 DEF FlushInv
<1> QED
  BY <1>1, <1>3, <1>4, <1>6, <1>7

(* A checkpoint that cannot be loaded was written with auto_save.           *)
LEMMA DiskResume == MInv /\ KInv /\ Resume => KInv'
<1> SUFFICES ASSUME MInv, KInv, Resume PROVE KInv'
  OBVIOUS
<1> DEFINE list == checkpoint.ids
           last == LastN(list, SlotsOf(way'))
<1>1. /\ way' = way /\ way' \in Ways
      /\ Rising(list, checkpoint.meta.counter)
      /\ ~way.save => \A i \in 1 .. Len(list) :
                          Len(list) - Window < i => list[i] \in checkpoint.whole
      /\ Load("checkpoint", checkpoint, list, checkpoint.meta)
  BY DEF Resume, MInv, MainInv, CheckpointInv
<1>2. MInv'
  BY ResumeStep
<1>3. /\ JobInv' /\ DiskInv' /\ FileInv' /\ FlushInv'
      /\ origin'.kind = "checkpoint"
  BY <1>1, <1>2, DiskLoad
<1>4. main'.at = "failed" => ~(Ids(last) \subseteq checkpoint.whole)
  BY <1>1, LoadFills
<1>5. ASSUME ~way.save, NEW id \in Ids(last)
      PROVE  id \in checkpoint.whole
  <2>1. /\ SlotsOf(way') = Window /\ Window \in Nat /\ Window > 0
        /\ list \in Seq(Nat) /\ Len(list) \in Nat
    BY <1>1, <1>5, SlotsCount, LenProperties DEF Rising
  <2>2. id \in Ids(LastN(list, Window))
    BY <1>5, <2>1
  <2>3. PICK d \in 0 .. Window - 1 : d < Len(list) /\ id = list[Len(list) - d]
    BY <2>1, <2>2, WindowIds
  <2>4. Len(list) - d \in 1 .. Len(list) /\ Len(list) - Window < Len(list) - d
    BY <2>1, <2>3, SMTT(30)
  <2> QED
    BY <1>1, <1>5, <2>3, <2>4
<1>6. LoadSucceeds'
  BY <1>1, <1>3, <1>4, <1>5 DEF LoadSucceeds
<1> QED
  BY <1>3, <1>6 DEF KInv

(* In a directory that was not itself loaded from another one there is a    *)
(* file for everything in the index, once there are no jobs.                *)
LEMMA DiskLoadPart == MInv /\ KInv => \A r \in 0 .. World - 1 : LoadPart(r) => MInv' /\ KInv'
<1> SUFFICES ASSUME MInv, KInv, NEW r \in 0 .. World - 1, LoadPart(r) PROVE MInv' /\ KInv'
  OBVIOUS
<1>1. Rising(disk.ids, counter) /\ Ids(disk.ids) \subseteq Ids(ids)
  BY DEF KInv, DiskInv
<1>2. MInv' /\ (main'.at = "failed" => ~(Ids(disk.ids) \subseteq disk.whole))
  BY <1>1, LoadPartStep
<1>3. PICK list, meta : Load("closed", disk, list, meta)
  BY DEF LoadPart
<1>4. /\ JobInv' /\ DiskInv' /\ FileInv' /\ FlushInv'
      /\ origin'.kind = "closed" /\ origin'.loads = origin.loads + 1 /\ origin.loads \in Nat
  BY <1>2, <1>3, DiskLoad
<1>5. ASSUME origin.loads = 0
      PROVE  Ids(disk.ids) \subseteq disk.whole
  <2>1. way.save /\ Pending = {} /\ origin.size = 0
    BY <1>5 DEF LoadPart, Pending, ToSet, KInv, DiskInv
  <2>2. \A k \in 1 .. Len(ids) : ids[k] \in disk.whole
    BY <2>1 DEF KInv, FileInv, OnFile
  <2>3. DOMAIN ids = 1 .. Len(ids)
    BY LenProperties DEF MInv, MainInv, Rising
  <2>4. Ids(ids) \subseteq disk.whole
    BY <2>2, <2>3 DEF Ids, ToSet
  <2> QED
    BY <1>1, <2>4
<1>6. LoadSucceeds'
  BY <1>2, <1>4, <1>5 DEF LoadSucceeds
<1> QED
  BY <1>2, <1>4, <1>6 DEF KInv

-----------------------------------------------------------------------------
LEMMA BufferInit == Init => MInv /\ KInv
<1> SUFFICES ASSUME Init PROVE MInv /\ KInv
  OBVIOUS
<1>1. /\ way \in Ways /\ Window \in Nat /\ SlotsOf(way) \in Nat /\ SlotsOf(way) > 0
  BY SlotsCount DEF Init
<1>2. Len(<<>>) = 0 /\ <<>> \in Seq(Nat) /\ <<>> \in Seq(Jobs) /\ Ids(<<>>) = {}
  BY DEF Ids, ToSet
<1>3. Rising(<<>>, 0)
  BY <1>2 DEF Rising
<1>4. IInv
  BY DEF Init, IInv, WindowInv, DrawInv, SamplerRecord, Resting
<1>5. MainInv
  BY <1>1, <1>3 DEF Init, MainInv, MainRecord, Idle
<1>6. Ring
  BY <1>1, <1>2 DEF Init, Ring, Held, Idle, Slots
<1>7. CheckpointInv /\ SampleInv
  BY <1>2, <1>3 DEF Init, CheckpointInv, SampleInv, Absent, Resting
<1>8. JobInv /\ DiskInv
  BY <1>2, <1>3 DEF Init, JobInv, DiskInv, Absent
<1>9. FileInv /\ FlushInv /\ LoadSucceeds
  BY <1>2 DEF Init, FileInv, FlushInv, LoadSucceeds, Idle
<1> QED
  BY <1>4, <1>5, <1>6, <1>7, <1>8, <1>9 DEF MInv, KInv

LEMMA BufferStep == MInv /\ KInv /\ [Next]_vars => MInv' /\ KInv'
<1> SUFFICES ASSUME MInv, KInv, [Next]_vars PROVE MInv' /\ KInv'
  OBVIOUS
<1>1. ASSUME NEW n \in 1 .. 2, StartAdd(n)
      PROVE  MInv' /\ KInv'
  <2>1. main'.at = "submit"
    BY <1>1 DEF StartAdd
  <2>2. UNCHANGED <<way, ids, counter, size, queue, working, disk, origin>>
    BY <1>1 DEF StartAdd, indexVars, jobVars
  <2> QED
    BY <1>1, <2>1, <2>2, StartAddStep, DiskKept
<1>2. CASE AddStep
  <2>1. CASE Submit
    BY <2>1, SubmitStep, DiskSubmit
  <2>2. CASE AddToIndex
    BY <2>2, AddToIndexStep, DiskAddToIndex
  <2>3. CASE CachePut
    <3>1. main'.at = "insert"
      BY <2>3 DEF CachePut, MInv, MainInv, MainRecord
    <3>2. UNCHANGED <<way, ids, counter, size, queue, working, disk, origin>>
      BY <2>3 DEF CachePut, indexVars, jobVars
    <3> QED
      BY <2>3, <3>1, <3>2, CachePutStep, DiskKept
  <2>4. CASE CacheInsert
    <3>1. main'.at \in {"flush", "submit"}
      BY <2>4 DEF CacheInsert, MInv, MainInv, MainRecord
    <3>2. UNCHANGED <<way, ids, counter, size, queue, working, disk, origin>>
      BY <2>4 DEF CacheInsert, indexVars, jobVars
    <3> QED
      BY <2>4, <3>1, <3>2, CacheInsertStep, DiskKept
  <2>5. CASE EndAdd
    BY <2>5, EndAddStep, DiskEndAdd
  <2> QED
    BY <1>2, <2>1, <2>2, <2>3, <2>4, <2>5 DEF AddStep
<1>3. CASE Draw
  <2>1. UNCHANGED <<way, ids, counter, size, main, queue, working, disk, origin>>
    BY <1>3 DEF Draw, indexVars, jobVars
  <2> QED
    BY <1>3, <2>1, DrawKeeps, DiskKept
<1>4. CASE SampleStep
  <2>1. UNCHANGED <<way, ids, counter, size, main, queue, working, disk, origin>>
    BY <1>4 DEF SampleStep, Mask, FindSlot, Gather, LoadMiss, Give, indexVars, jobVars
  <2> QED
    BY <1>4, <2>1, SampleKeeps, DiskKept
<1>5. CASE Take
  <2>1. UNCHANGED <<way, ids, counter, version, window, slotOf, owner, next, content, main, sampler,
                    checkpoint>>
    BY <1>5 DEF Take, indexVars, cacheVars
  <2> QED
    BY <1>5, <2>1, NothingChanged, DiskTake
<1>6. CASE JobStep
  <2>1. PICK j \in working : OpenFile(j) \/ CloseFile(j) \/ FlushMetadata(j) \/ FlushIndex(j)
    BY <1>6 DEF JobStep
  <2>2. UNCHANGED <<way, ids, counter, version, window, slotOf, owner, next, content, main, sampler,
                    checkpoint>>
    BY <2>1 DEF OpenFile, CloseFile, FlushMetadata, FlushIndex, indexVars, cacheVars
  <2> QED
    BY <2>1, <2>2, NothingChanged, DiskWrite, DiskFlushMetadata, DiskFlushIndex
<1>7. CASE SaveCheckpoint
  <2>1. UNCHANGED <<way, ids, counter, size, main, queue, working, disk, origin>>
    BY <1>7 DEF SaveCheckpoint, indexVars, jobVars
  <2> QED
    BY <1>7, <2>1, CheckpointStep, DiskKept
<1>8. CASE Resume
  BY <1>8, ResumeStep, DiskResume
<1>9. ASSUME NEW r \in 0 .. World - 1, LoadPart(r)
      PROVE  MInv' /\ KInv'
  BY <1>9, DiskLoadPart
<1>10. CASE UNCHANGED vars
  <2>1. UNCHANGED <<way, ids, size, counter, version, window, slotOf, owner, next, content, main,
                    sampler, queue, working, disk, checkpoint, origin>>
    BY <1>10 DEF vars, indexVars, cacheVars, jobVars
  <2> QED
    BY <2>1, NothingChanged, DiskKept
<1> QED
  BY <1>1, <1>2, <1>3, <1>4, <1>5, <1>6, <1>7, <1>8, <1>9, <1>10 DEF Next

(* Whatever the configuration, cache, samples, jobs and directory agree      *)
(* with the index after every step, and over every restart.                 *)
THEOREM BufferInvariant == Spec => [](MInv /\ KInv)
<1> QED
  BY BufferInit, BufferStep, PTL DEF Spec

(* However slots are reused, and over restarts, a sample drawn between two  *)
(* calls of add_trajectories holds the data of the trajectory drawn, and    *)
(* sample_chunks raises only for a trajectory that has to be loaded.        *)
THEOREM SamplesAreRight == Spec => []SampleIsRight
<1>1. MInv => SampleIsRight
  BY DEF MInv, SampleInv, SampleIsRight
<1> QED
  BY <1>1, BufferInvariant, PTL

(* What save_checkpoint wrote without auto_save can be loaded, and so can   *)
(* every part of a directory that holds the files of all its index.         *)
THEOREM CheckpointsLoad == Spec => []LoadSucceeds
<1>1. KInv => LoadSucceeds
  BY DEF KInv
<1> QED
  BY <1>1, BufferInvariant, PTL

(* Between two calls, once the executor has nothing left to do, the files   *)
(* of all that was added, the last index and the last metadata are on disk, *)
(* whatever the order in which its threads took and ended the jobs: what    *)
(* DiskCatchesUp adds to this is that the jobs end.                         *)
Settled == way.save /\ main.at = "idle" /\ queue = <<>> /\ working = {}

THEOREM SettledIsOnDisk == Spec => [](Settled => OnDisk)
<1>1. MInv /\ KInv => (Settled => OnDisk)
  <2> SUFFICES ASSUME MInv, KInv, Settled PROVE OnDisk
    OBVIOUS
  <2>1. Pending = {} /\ way.save /\ main.at = "idle" /\ queue = <<>> /\ working = {}
    BY DEF Settled, Pending, ToSet
  <2>2. /\ ids \in Seq(Nat) /\ Len(ids) \in Nat /\ DOMAIN ids = 1 .. Len(ids)
        /\ origin.size \in 0 .. Len(ids)
    BY LenProperties DEF MInv, MainInv, Rising, KInv, DiskInv
  <2>3. Len(ids) > origin.size => disk.meta = Meta /\ disk.ids = ids
    BY <2>1 DEF KInv, FlushInv
  <2>4. ASSUME NEW i \in Ids(ids) \ Loaded
        PROVE  i \in disk.whole
    <3>1. PICK k \in 1 .. Len(ids) : i = ids[k]
      BY <2>2, <2>4 DEF Ids, ToSet
    <3>2. CASE k > origin.size
      BY <2>1, <3>1, <3>2 DEF KInv, FileInv, OnFile
    <3>3. CASE k <= origin.size
      <4> DEFINE p == SubSeq(ids, 1, origin.size)
      <4>1. \A n \in 1 .. origin.size : ids[n] \in Nat
        BY <2>2, ElementOfSeq
      <4>2. /\ p \in Seq(Nat) /\ Len(p) = origin.size
            /\ \A n \in 1 .. origin.size : p[n] = ids[n]
        BY <2>2, <4>1, SubSeqProperties
      <4>3. k \in 1 .. origin.size /\ DOMAIN p = 1 .. origin.size
        BY <2>2, <3>3, <4>2, LenProperties
      <4>4. p[k] \in Ids(p) /\ p[k] = i
        BY <3>1, <4>2, <4>3 DEF Ids, ToSet
      <4> QED
        BY <2>4, <4>4 DEF Loaded
    <3> QED
      BY <2>2, <3>2, <3>3
  <2> QED
    BY <2>1, <2>3, <2>4 DEF OnDisk
<1> QED
  BY <1>1, BufferInvariant, PTL
=============================================================================
